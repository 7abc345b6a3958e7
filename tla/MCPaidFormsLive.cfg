CONSTANTS
    MaxTime = 3
    MaxReservations = 2
    Slots = {s1}
    NoSlot = NoSlot
    Clashing = {}
    Capacity = 1
    Hold = 2
    Invoices = {1}
    MaxAttempts = 2
    Room <- MCRoom
    MaxDisturbed = 1
    MinSession = 1
    AchEnabled = TRUE
    Limit = 1
SPECIFICATION FairSpec
PROPERTY PaidIsAnswered KeepsChargeContract
CHECK_DEADLOCK FALSE
