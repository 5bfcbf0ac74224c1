CONSTANTS
    q1 = q1
    q2 = q2
    i1 = i1
    i2 = i2
    Requests <- MCRequests
    Items    <- MCItems
    Owned    = {i1}
    Rents    = {1}
    AllRents = {0, 1, 2}
    Fees     = {0}
    Deposits = {1}
    Share    = 1
    Payments = {1}
    MaxPaid  = 1
    MaxRequests = 4
SPECIFICATION Spec
SYMMETRY Symmetry
INVARIANT PaidExactlyOnce
CHECK_DEADLOCK FALSE
