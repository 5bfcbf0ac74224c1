CONSTANTS
    c1 = c1
    c2 = c2
    v1 = v1
    v2 = v2
    r1 = r1
    r2 = r2
    r3 = r3
    r4 = r4
    NoClerk = NoClerk
    Clerks     <- MCClerks
    Variations <- MCVariations
    Rank       <- MCRank
    Rows       <- MCRows
    Days       <- MCDays
    Lines      <- MCLines
    Quantities = {1}
    Switches   = {}
    MaxQty     = 1
    MaxBlocked = 0
    MaxHanded  = 0
SPECIFICATION FairSpec
INVARIANT WaitsClimb
PROPERTY Answered
