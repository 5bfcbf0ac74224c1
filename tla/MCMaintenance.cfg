CONSTANTS
    p1 = p1
    p2 = p2
    r1 = r1
    r2 = r2
    Staff <- MCStaff
    Rows  <- MCRows
    Qty   <- MCQty
    Quantities = {2, 3}
    NoRow = NoRow
    MaxTasks = 2
    MaxBegun = 5
SPECIFICATION Spec
SYMMETRY Symmetry
INVARIANTS
    TypeOK
    InSync
PROPERTIES
    ClosedStaysClosed
    RetiredReopens
CHECK_DEADLOCK FALSE
