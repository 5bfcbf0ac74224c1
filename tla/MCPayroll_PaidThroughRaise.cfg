CONSTANTS
    q1 = q1
    q2 = q2
    l1 = l1
    s1 = s1
    s2 = s2
    Requests = {q1}
    Leaves   <- MCLeaves
    Salaries <- MCSalaries
    Terms    <- MCRaise
    Periods  <- MCTwoDays
    None     = None
    Ticks    = 2
    LastTick = 4
    Joined   = 0
    MaxBegun = 5
SPECIFICATION Spec
PROPERTY
    PaidThroughRaise
CHECK_DEADLOCK FALSE
