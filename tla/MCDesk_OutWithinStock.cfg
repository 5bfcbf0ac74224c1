CONSTANTS
    c1 = c1
    h1 = h1
    h2 = h2
    v1 = v1
    r1 = r1
    r2 = r2
    NoClerk = NoClerk
    Nothing = Nothing
    Clerks     <- MCClerks
    Hands      <- MCHand
    Variations <- MCVariations
    Rank       <- MCRank
    Rows       <- MCRows
    Days       <- MCDays
    Lines      <- MCLines
    Quantities = {1, 2}
    Switches   = {TRUE, FALSE}
    MaxQty     = 2
    MaxBlocked = 1
    MaxHanded  = 2
    MaxTaken   = 2
SPECIFICATION DeskSpec
SYMMETRY RowSymmetry
INVARIANT OutWithinStock
