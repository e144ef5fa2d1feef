SPECIFICATION FairSessionSpec
CONSTANTS
    None = None
    SubIds = {s1}
    Clusters = {c1}
    MaxSubscriptions = 1
    LogLimit = 1
    MaxGen = 2
CHECK_DEADLOCK FALSE
INVARIANT SessionSound
PROPERTIES FramesInOrder EndsClean
