SPECIFICATION FairBackgroundSpec
CONSTANTS
    Parts = {"forward", "timeline"}
    None = None
    Starts = {a, b}
    MaxForwards = 2
    MaxRuns = 3
    Handlers = {h1, h2}
    Queue = 2
    Batch = 2
    MaxChanges = 5
CHECK_DEADLOCK FALSE
INVARIANTS ForwardSound 
PROPERTIES StoppedStays ForwardsEnd StopDrains
