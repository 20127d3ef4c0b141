\* Immediate availability: one unit of two tasks, early publication, retries and integration.
SPECIFICATION Spec
CONSTANTS
    p1 = p1  p2 = p2  a1 = a1  a2 = a2  a3 = a3
    Package <- OnePackage
    Task <- TwoTasks
    Carrier <- TogetherInOne
    Attempt = {a1, a2, a3}
    Immediate = TRUE
    MaxForeign = 1
    Root = Root  Foreign = Foreign  NoAttempt = NoAttempt  NoPackage = NoPackage
SYMMETRY AnyAttempt
INVARIANTS
    OnePublisherPerPackage
    ConfirmedFromEvidence
    BranchIsExclusive
PROPERTIES
    KeepsPromise
