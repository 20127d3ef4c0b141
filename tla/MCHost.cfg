\* Two programs on one state directory, a caller, a guided setup, and faults.
SPECIFICATION FairSpec
CONSTANTS
    Agent = "agent"
    Terminal = "terminal"
    Supports <- Programs
    Callers = {"c"}
    MaxFaults = 4
INVARIANTS
    ClientsAreServed
    MigratedOnce
PROPERTIES
    ServiceReturns
CHECK_DEADLOCK FALSE
