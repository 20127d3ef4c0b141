SPECIFICATION FairSpec
CONSTANTS
    h1 = h1
    h2 = h2
    k1 = k1
    k2 = k2
    status = status
    cancel = cancel
    capture = capture
    release = release
    Handler = {h1, h2}
    Key = {k1}
    Query = {status}
    Single = {cancel}
    Multistep = {capture}
    Remote = {release}
    MaxRequests = 3
    MaxFaults = 1
    MaxCrashes = 1
INVARIANTS
    NeverAlongside
    ActsOnce
    RepliesAreSound
PROPERTIES
    ClaimsEnd
CHECK_DEADLOCK FALSE
