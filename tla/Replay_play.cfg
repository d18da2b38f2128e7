SPECIFICATION FairSpec
CONSTANTS
    MinTime = 0
    Delay = 4
    Window = 2
    None = None
    Sources <- AllSources
    Frame = 3
    Chunk = 4
    SendTime = 1
    Killed <- Restarted
    MaxStarts = 3
CHECK_DEADLOCK FALSE
INVARIANTS PlayedAsPaced NeverPlaysHalf
PROPERTY HalfIsRebuilt
