CONSTANTS
    i1 = i1
    i2 = i2
    Items    <- MCItems
    Rents    <- MCRents
    Fees     <- MCFees
    Deposits <- MCDeposits
    Payments <- MCPayments
    MaxPaid  = 2
SPECIFICATION Spec
SYMMETRY Symmetry
INVARIANTS
    TypeOK
    NeverBothSided
    OutflowsCovered
    ForfeitCovered
    CancelledIsSquare
    SettlementIdempotent
PROPERTIES
    ClosingReleasesDeposit
    InflowSettlesOutstanding
