SPECIFICATION FairApi
CONSTANTS
    Nil = Nil
    Session = {s1}
    Focuses = {"rows", "feed", "commands"}
    Parts = 2
    MaxClusters = 2
    MaxTrouble = 1
    MaxStates = 2
    MaxVisits = 2
    MaxCommands = 2
INVARIANTS
    SessionInv
PROPERTIES
    RowsGoForward
    NewestPendantIsShown
    ClosedSessionsEnd
    ServiceEnds
CHECK_DEADLOCK FALSE
