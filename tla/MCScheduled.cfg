\* Scheduled creation: two units compete for the target branch, and everything begun ends.
SPECIFICATION FairSpec
CONSTANTS
    p1 = p1  p2 = p2  a1 = a1  a2 = a2  a3 = a3
    Package <- TwoPackages
    Task <- TwoTasks
    Carrier <- OneEach
    Attempt = {a1, a2}
    Immediate = FALSE
    MaxForeign = 1
    Root = Root  Foreign = Foreign  NoAttempt = NoAttempt  NoPackage = NoPackage
INVARIANTS
    RecordedBeforePush
    PublicationsAreSound
PROPERTIES
    NothingOverwritten
    WorkerAlwaysFinishes
