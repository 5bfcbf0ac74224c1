CONSTANTS
    c1 = c1
    h1 = h1
    h2 = h2
    v1 = v1
    r1 = r1
    r2 = r2
    NoClerk = NoClerk
    Nothing = Nothing
    Clerks     <- MCClerks
    Hands      <- MCHands
    Variations <- MCVariations
    Rank       <- MCRank
    Rows       <- MCRows
    Days       <- MCDays
    Lines      <- MCOverlapping
    Quantities = {1, 2}
    Switches   = {TRUE}
    MaxQty     = 2
    MaxBlocked = 1
    MaxHanded  = 2
    MaxTaken   = 1
SPECIFICATION DeskSpec
SYMMETRY Symmetry
INVARIANTS
    DeskTypeOK
    CheckStillHolds
PROPERTIES
    BookingNeverOverloads
