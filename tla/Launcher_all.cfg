SPECIFICATION FairLaunch
CONSTANTS
    Config <- MCConfig
    Missions = {"IREC2025"}
    Ravens = {"IREC2026"}
    Considered <- AllConsidered
    Machines <- MCMachines
    Carried <- AllCarried
    MaxSignals = 1
    MaxCrashes = 1
    Chatty = {"server"}
CHECK_DEADLOCK FALSE
INVARIANTS LaunchInv NothingLeftBehind
PROPERTIES AwaitedLineIsSeen ShutdownEnds
