SPECIFICATION Spec
CONSTANTS
    Viewers = {v1, v2, v3}
    MaxFolder = 4
    FlightStates = {4, 7}
    AvFlags = {"GPS_fix_flag"}
    Tests = {"main_primary"}
    Speeds = {0, 400}
    GseFlags = {"ignition_fired"}
    MaxFailures = 1
    None = None
CHECK_DEADLOCK FALSE
INVARIANTS SessionsHaveOwnFolder ConsoleIsCurrent
PROPERTIES CompletionIsNotSilent 
