CONSTANTS
    User = {me, bob}
    Me = me
    Organizer = bob
    Capacity = 1
    Task = {t1, t2}
    NoTask = NoTask
    TicksPerHour = 2
    WarningHours = 2
    Start = 7
    MaxClock = 8
SPECIFICATION Spec
PROPERTY MaybeKeepsInvitation
