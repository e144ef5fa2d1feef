SPECIFICATION Spec
CONSTANTS
    a = a
    b = b
    c = c
    d = d
    None = None
    Calls = {a, b, c, d}
    Ids = {1, 2}
CHECK_DEADLOCK FALSE
SYMMETRY Symmetry
INVARIANTS ClustersSound HeldIsLive LatestSwitchWins
