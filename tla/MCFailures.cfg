SPECIFICATION FairSpec
CONSTANTS
    PipeSize = 1
    Captured = 1
    Output <- OutputDef
    Timeout = 1
    Unit = {1, 2}
    Defect <- DefectDef
    Endpoints = {"up", "offline", "slow", "refuses", "protected"}
    MaxTries = 3
    Ceiling = 2
    MaxChanges = 2
    MaxAsked = 1
    MaxCrashes = 1

    
    
PROPERTIES
    CallsEnd
CHECK_DEADLOCK FALSE
