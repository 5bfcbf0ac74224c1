CONSTANTS
    pickupReminder = pickupReminder
    overdueReminder = overdueReminder
    bookingConfirmed = bookingConfirmed
    w1 = w1
    w2 = w2
    None = None
    Logs        <- MCLogs
    Reminders   <- MCReminders
    Dated       <- MCDated
    Bookings    <- MCBookings
    Repeat      <- MCRepeat
    Dispatchers <- MCDispatcher
    BatchLimit  = 2
    NudgeLimit  = 1
    MaxAttempts = 5
    Today0      = 1
    LastDay     = 2
    MaxRetries  = 0
    MaxCrashes  = 1
    Reports     = {"delivered"}
SPECIFICATION FairSpec
PROPERTY RetriedToTheLimit
