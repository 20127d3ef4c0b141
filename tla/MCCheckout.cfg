\* Two terminals schedule the same checkout and each other's captured work.
SPECIFICATION Spec
CONSTANTS
    Minute = 1
    DayMinutes = 4
    Weekdays = 1
    MaxDaily = 2
    MaxWindows = 1
    Zone <- NoSummer
    c1 = c1  c2 = c2  w1 = w1  w2 = w2  w3 = w3
    Clients = {c1, c2}
    Files = {"first", "second"}
    Works = {w1, w2, w3}
    NoWork = NoWork
    Policy <- SmallPolicy
    Instants = {1, 2, 4}
    LastInstant = 2
    Sessions = 1
    MaxTries = 2
    MaxCrashes = 1
SYMMETRY Alike
INVARIANTS
    QueueIsKept
PROPERTIES
    PlanIsAllOrNothing
    RefusedFromOutside
CHECK_DEADLOCK FALSE
