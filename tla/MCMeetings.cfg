CONSTANTS
    User = {me, bob}
    Me = me
    Organizer = bob
    Capacity = 1
    Task = {t1, t2}
    NoTask = NoTask
    TicksPerHour = 2
    WarningHours = 2
    Start = 4
    MaxClock = 5
SPECIFICATION FairSpec
INVARIANTS TypeOK CapacityHeld ConfirmedByRight
PROPERTIES CallsAreAtomic NoFalseWarning CallsReturn
