------------------------------ MODULE Calendar ------------------------------
(***************************************************************************)
(* What the booking calendar does, without requests, locks or checks:      *)
(* bookings appear whole, a row is booked, goes out and ends, and no       *)
(* booking and no edit takes a unit on a day that has none left.  One step *)
(* looks at no day: a row that has ended may be handed over after all.     *)
(***************************************************************************)
EXTENDS CalendarUnits

VARIABLES
    rows,       \* the calendar
    ceiling,    \* the largest stock each variation has ever had
    revived     \* rows that were handed over when they had ended

vars == <<rows, ceiling, revived>>

Init ==
    /\ rows = [r \in Rows |-> Absent]
    /\ ceiling \in [Variations -> Nat \ {0}]
    /\ revived = {}

\* The table takes no unit on any day, or there is stock for all it takes.
WithinStock(table) ==
    \A v \in Variations, d \in Days :
        \/ UnitsIn(table, v, d) \subseteq UnitsIn(rows, v, d)
        \/ Cardinality(UnitsIn(table, v, d)) <= ceiling[v]

\* All the lines of a booking, or none.
Book(S) ==
    /\ S # {}
    /\ \A r \in S : rows[r] = Absent
    /\ rows' \in [Rows -> RowType \cup {Absent}]
    /\ \A r \in S : rows'[r] # Absent /\ rows'[r].status = "held"
    /\ \A r \in Rows \ S : rows'[r] = rows[r]
    /\ WithinStock(rows')
    /\ UNCHANGED <<ceiling, revived>>

\* Other dates or another quantity for one row.
Move(r) ==
    /\ rows[r] # Absent
    /\ \E row \in RowType : /\ row.variation = rows[r].variation
                           /\ row.status = rows[r].status
                           /\ rows' = [rows EXCEPT ![r] = row]
    /\ WithinStock(rows')
    /\ UNCHANGED <<ceiling, revived>>

HandOver(r) ==
    /\ rows[r].status = "held"
    /\ rows' = [rows EXCEPT ![r].status = "out"]
    /\ UNCHANGED <<ceiling, revived>>

End(r) ==
    /\ rows[r].status \in {"held", "out"}
    /\ rows' = [rows EXCEPT ![r].status = "ended"]
    /\ UNCHANGED <<ceiling, revived>>

\* Nobody asks whether its units have been promised to others meanwhile.
Revive(r) ==
    /\ rows[r].status = "ended"
    /\ rows' = [rows EXCEPT ![r].status = "out"]
    /\ revived' = revived \cup {r}
    /\ UNCHANGED ceiling

Restock(v) ==
    /\ ceiling' \in [Variations -> Nat]
    /\ ceiling'[v] > ceiling[v]
    /\ \A w \in Variations \ {v} : ceiling'[w] = ceiling[w]
    /\ UNCHANGED <<rows, revived>>

Next ==
    \/ \E S \in SUBSET Rows : Book(S)
    \/ \E r \in Rows : Move(r) \/ HandOver(r) \/ End(r) \/ Revive(r)
    \/ \E v \in Variations : Restock(v)

Spec == Init /\ [][Next]_vars
=============================================================================
