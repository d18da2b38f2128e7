SPECIFICATION FairSpec
CONSTANTS
    Width = 4
    Steps = 4
    Clients = {c1, c2}
    Phases <- SomePhases
    Experimental = TRUE
    CorruptFields <- SomeFields
    Uart = TRUE
    Room = 1
    MaxVersion = 2
    MaxTurns = 1
    MaxFaults = 1
CHECK_DEADLOCK FALSE
INVARIANTS ParsedIsSent OneIsLate
PROPERTIES NewestArrives StopEndsAll
