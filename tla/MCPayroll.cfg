CONSTANTS
    q1 = q1
    q2 = q2
    l1 = l1
    s1 = s1
    s2 = s2
    Requests <- MCRequests
    Leaves   <- MCLeaves
    Salaries <- MCSalaries
    Terms    <- MCTerms
    Periods  <- MCPeriods
    None     = None
    Ticks    = 2
    LastTick = 6
    Joined   = 1
    MaxBegun = 4
SPECIFICATION Spec
SYMMETRY Symmetry
INVARIANT TypeOK
PROPERTIES
    TimesStand
    DecidedStays
    PaidByTheDay
CHECK_DEADLOCK FALSE
