\* Two revisions of a plan of three tasks, a cancellation and a crash.
SPECIFICATION PlanSpec
CONSTANTS
    Task = {1, 2, 3}
    Documents <- SmallDocuments
    Drafts <- AllGraphs
    Early = TRUE
    MaxRevisions = 2
    MaxSealed = 1
    MaxPackages = 2
    MaxUnits = 2
    MaxCancels = 1
    MaxCuts = 1
INVARIANTS
    OrderIsExact
    

    
CHECK_DEADLOCK FALSE
