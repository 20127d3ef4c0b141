\* Pull requests of two units, with changes of policy, lost answers and a crash.
SPECIFICATION FairSpec
CONSTANTS
    Repository = {"first"}
    RemoteOf <- Here
    Hosted = {"first"}
    Branch = {"trunk", "dev"}
    Policies <- SomePolicies
    Unit = {1, 2}
    RepositoryOf <- Owners
    TasksOf <- Parts
    MaxChanges = 1
    MaxDeferred = 1
    MaxCrashes = 1
    MaxRequests = 2
INVARIANTS
    
    PublishedIsOnTarget
PROPERTIES
    MergesAreNoticed
CHECK_DEADLOCK FALSE
