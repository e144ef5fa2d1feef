SPECIFICATION FairFeedSpec
CONSTANTS
    Objects = {o1, o2}
    EventBuffer = 1
    MaxBatch = 2
    MaxWire = 1
    Limits = {TRUE, FALSE}
    MaxChanges = 2
    MaxBreaks = 1
    MaxDrops = 1
CHECK_DEADLOCK FALSE
INVARIANT FeedSound
PROPERTY Converges
