CONSTANTS
    t1 = t1
    t2 = t2
    t3 = t3
    i1 = i1
    i2 = i2
    v1 = v1
    v2 = v2
    Order = Order
    Task  = Task
    Nobody = Nobody
    Transactions <- MCTransactions
    Items        <- MCItems
    Variations   <- MCVariations
    VarOf        <- MCVarOf
    Served       <- MCServed
    Rank         <- MCRank
SPECIFICATION FairSpec
INVARIANTS
    TypeOK
    FamiliesNeverCircle
PROPERTY EveryoneEnds
