SPECIFICATION Spec
CONSTANTS
    c1 = c1
    c2 = c2
    s1 = s1
    s2 = s2
    kd = kd
    None = None
    Callers = {c1, c2}
    Kinds = {kd}
    Ops = {"nsread"}
    Streams = {s1, s2}
    MaxLoose = 1
    AttachAttempts = 1
    MaxWait = 1
SYMMETRY Symmetry
CHECK_DEADLOCK FALSE
INVARIANTS
    NoOrphanInformer
