CONSTANTS
    pickupReminder = pickupReminder
    overdueReminder = overdueReminder
    bookingConfirmed = bookingConfirmed
    w1 = w1
    w2 = w2
    None = None
    Logs        <- MCTwoLogs
    Reminders   <- MCReminders
    Dated       <- MCDated
    Bookings    <- MCBookings
    Repeat      <- MCRepeat
    Dispatchers <- MCDispatchers
    BatchLimit  = 2
    NudgeLimit  = 1
    MaxAttempts = 5
    Today0      = 1
    LastDay     = 2
    MaxRetries  = 1
    MaxCrashes  = 1
    Reports     = {"delivered", "failed"}
SPECIFICATION Spec
SYMMETRY Symmetry
INVARIANTS
    TypeOK
    HandedOncePerQueueing
    SendingIsOwned
PROPERTY LostToLateWordOnly
