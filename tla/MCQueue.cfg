\* Three units of two repositories over two days: requests, passes and a crash.
SPECIFICATION Spec
CONSTANTS
    Minute = 1
    DayMinutes = 4
    Weekdays = 1
    MaxDaily = 2
    MaxWindows = 1
    Zone <- PlainTime
    Repository = {1, 2}
    Unit = {1, 2, 3}
    RepositoryOf <- Homes
    Needs <- Waits
    Early = {1}
    FirstPolicy <- TwoPerDay
    Policies <- NewPolicies
    Overrides <- NewOverrides
    Interval = 2
    Limit = 2
    Horizon = 2
    Delays = {1}
    Sleeps = TRUE
    MaxClock = 6
    MaxRequests = 3
    MaxCrashes = 1
INVARIANTS
    QueueShowsTheWork
    PrerequisitesShipFirst
PROPERTIES
    PassesAreFair
    MissedMovesForward
CHECK_DEADLOCK FALSE
