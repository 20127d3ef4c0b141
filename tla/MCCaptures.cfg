SPECIFICATION FairSpec
CONSTANTS
    c1 = c1  c2 = c2
    p1 = p1  p2 = p2
    Seed = Seed
    NoCaller = NoCaller
    Caller <- MCCaller
    Task <- MCTask
    Package <- MCPackages
    Request <- Shared
    MaxRequests = 2
    MaxFaults = 1
    MaxEdits = 2
    MaxCrashes = 1
INVARIANTS
    OnePackagePerTask
    WorkIsDurable
    QueueIsSound
PROPERTIES
    CallsEnd
CHECK_DEADLOCK FALSE
