SPECIFICATION FeedSpec
CONSTANTS
    Objects = {o1}
    EventBuffer = 1
    MaxBatch = 2
    MaxWire = 1
    Limits = {TRUE}
    MaxChanges = 2
    MaxBreaks = 1
    MaxDrops = 0
CHECK_DEADLOCK FALSE
PROPERTY MoreKeepsTheFeed
