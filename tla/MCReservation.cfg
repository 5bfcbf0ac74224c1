CONSTANTS
    c1 = c1
    c2 = c2
    v1 = v1
    r1 = r1
    r2 = r2
    r3 = r3
    NoClerk = NoClerk
    Clerks     <- MCClerks
    Variations <- MCVariations
    Rank       <- MCRank
    Rows       <- MCRows
    Days       <- MCDays
    Lines      <- MCLines
    Quantities = {1, 2}
    Switches   = {FALSE}
    MaxQty     = 2
    MaxBlocked = 1
    MaxHanded  = 2
SPECIFICATION Spec
SYMMETRY Symmetry
INVARIANTS
    TypeOK
    OnlyRevivedOversell
    CheckStillHolds
PROPERTIES
    KeepsPromise
