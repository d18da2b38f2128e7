SPECIFICATION FairSpec
CONSTANTS
    Held <- HeldSets
    Shown <- ShownSets
    ServerQueue = 1
    Period = 3
    SetBack = 2
    MaxEvents = 2
    None = None
CHECK_DEADLOCK FALSE
INVARIANT CommandsAreInterlocked
PROPERTIES UnpluggedFallsBack HeldIsObeyed
