CONSTANTS
    MaxTime = 2
    MaxReservations = 2
    Slots = {s1, s2}
    NoSlot = NoSlot
    Clashing <- MCClashing
    Capacity = 1
    Hold = 1
    Invoices = {1, 2}
    MaxAttempts = 2
    Room <- MCRoom
    MaxDisturbed = 1
    MinSession = 1
    AchEnabled = TRUE
    Limit = 1
SPECIFICATION Spec
INVARIANT TypeOK
INVARIANT PlacesWithinLimit
INVARIANT PaidIsTrue
PROPERTY KeepsSeatContract
CHECK_DEADLOCK FALSE
