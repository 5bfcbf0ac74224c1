---------------------------- MODULE CalendarUnits ----------------------------
(***************************************************************************)
(* Rows of the booking calendar and the units they use day by day: the data *)
(* of computeCapacity (src/server/bookings/availability.ts), shared by what *)
(* the calendar promises and the code that keeps it.                       *)
(***************************************************************************)
EXTENDS Integers, FiniteSets

CONSTANTS
    Variations,   \* product_variations
    Rows,         \* booking_items that may ever exist
    Days,         \* the calendar
    MaxQty        \* the largest quantity a line asks for

ASSUME CalendarAssumption ==
    /\ IsFiniteSet(Rows)
    /\ Days \subseteq Nat
    /\ MaxQty \in Nat

LineType == [variation : Variations, from : Days, to : Days, qty : 1..MaxQty]

\* A row holds its units while it is booked ("held": still editable) and
\* while it is "out"; once returned or cancelled it has "ended".
RowType == [variation : Variations, from : Days, to : Days, qty : 1..MaxQty,
            status : {"held", "out", "ended"}]
Absent  == [status |-> "none"]

Larger(a, b) == IF a > b THEN a ELSE b

\* The stock computeCapacity reads off a variation's quantity.
Stock(quantity) == Larger(1, quantity)

\* The units of v that the rows of a table use on day d, one element each.
UnitsIn(table, v, d) ==
    {u \in Rows \X (1..MaxQty) :
        LET row == table[u[1]]
        IN  /\ row.status \in {"held", "out"}
            /\ row.variation = v
            /\ row.from <= d /\ d <= row.to
            /\ u[2] <= row.qty}
=============================================================================
