\* One call of the slot generator for one, two or three slots.
SPECIFICATION SelectSpec
CONSTANTS
    Minute = 2
    DayMinutes = 6
    Weekdays = 2
    MaxDaily = 2
    MaxWindows = 2
    Zone <- Calendar
    Horizon = 3
    Policies <- SmallPolicies
    Starts <- SmallStarts
    Requests = {1, 2, 3}
    Existings <- SmallExistings
INVARIANTS
    
    CapacityIsExact
    
CHECK_DEADLOCK FALSE
