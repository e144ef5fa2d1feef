SPECIFICATION Spec
CONSTANTS
    c1 = c1
    c2 = c2
    s1 = s1
    s2 = s2
    kd = kd
    None = None
    Callers = {c1, c2}
    Kinds = {kd}
    Ops = {"read", "warm"}
    Streams = {s1, s2}
    MaxLoose = 1
    AttachAttempts = 2
    MaxWait = 2
SYMMETRY Symmetry
CHECK_DEADLOCK FALSE
INVARIANTS
    TypeOK
    SubscribersServed
    StreamsCounted
PROPERTIES
    NoHerd
    SharesInformers
