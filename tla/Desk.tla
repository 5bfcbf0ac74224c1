-------------------------------- MODULE Desk --------------------------------
(***************************************************************************)
(* Several members of staff at the counter at once: confirmPickup and      *)
(* returnBooking of src/server/bookings/lifecycle.ts, cancelBookingItem of *)
(* src/server/bookings/service.ts and the overdue sweep, over the calendar *)
(* of Reservation.                                                         *)
(*                                                                         *)
(* Each of these handlers reads the item, its variation and the stock      *)
(* through the pool, decides, and only then opens the transaction that     *)
(* writes the item by its id alone.  Reading is one step here and the      *)
(* transaction, which is that of Reservation, another; what commits in     *)
(* between is not noticed.                                                 *)
(***************************************************************************)
EXTENDS Reservation

CONSTANTS
    Hands,       \* requests in flight at the counter
    MaxTaken,    \* bound: pickups of one row
    Nothing      \* no request

ASSUME DeskAssumption == MaxTaken \in Nat

VARIABLES
    desk,        \* what each request at the counter is about to do
    late,        \* rows that are out and marked overdue
    taken,       \* history: committed pickups of each row
    received     \* history: committed returns of each row

deskVars == <<desk, late, taken, received>>
allVars  == <<vars, deskVars>>

Requested == [op : {"pickup", "return", "cancel"}, row : Rows]

\* The units of a set of rows, one by one.
UnitsOf(S) == UNION {{r} \X (1..rows[r].qty) : r \in S}

Out(v) == {r \in Rows : rows[r].status = "out" /\ rows[r].variation = v}

\* getRentedOutQuantity: rows that are `rented', so none that is overdue.
RentedOut(v) == Cardinality(UnitsOf(Out(v) \ late))

DeskInit ==
    /\ Init
    /\ desk = [h \in Hands |-> Nothing]
    /\ late = {}
    /\ taken = [r \in Rows |-> 0]
    /\ received = [r \in Rows |-> 0]
-----------------------------------------------------------------------------
Ask(h, op, r) ==
    /\ desk[h] = Nothing
    /\ desk' = [desk EXCEPT ![h] = [op |-> op, row |-> r]]
    /\ UNCHANGED <<vars, late, taken, received>>

Asked(h, op) == desk[h] # Nothing /\ desk[h].op = op

\* The transaction commits.
Done(h) == desk' = [desk EXCEPT ![h] = Nothing]

\* confirmPickup before its transaction: the item may still go out, the
\* variation may leave the counter, and enough of its units are free now.
ReadForPickup(h, r) ==
    LET v == rows[r].variation
    IN  /\ rows[r].status = "held"
        /\ taken[r] < MaxTaken
        /\ ~attr[v].hardBlocked /\ attr[v].isAvailable
        /\ RentedOut(v) + blocked[v] + rows[r].qty <= Stock(attr[v].quantity)
        /\ Ask(h, "pickup", r)

\* ... and in it: the item is `rented', whatever it has become.
WritePickup(h) ==
    /\ Asked(h, "pickup")
    /\ LET r == desk[h].row
       IN  /\ PickUp(r)
           /\ late' = late \ {r}
           /\ taken' = [taken EXCEPT ![r] = @ + 1]
    /\ Done(h)
    /\ UNCHANGED received

\* returnBooking.
ReadForReturn(h, r) ==
    /\ rows[r].status = "out"
    /\ received[r] < MaxTaken
    /\ Ask(h, "return", r)

WriteReturn(h, tasks) ==
    /\ Asked(h, "return")
    /\ LET r == desk[h].row
       IN  /\ Return(r, tasks)
           /\ late' = late \ {r}
           /\ received' = [received EXCEPT ![r] = @ + 1]
    /\ Done(h)
    /\ UNCHANGED taken

\* cancelBookingItem.  No variation is written, so no lock is waited for.
ReadForCancel(h, r) ==
    /\ rows[r].status = "held"
    /\ Ask(h, "cancel", r)

WriteCancel(h) ==
    /\ Asked(h, "cancel")
    /\ Cancel(desk[h].row)
    /\ late' = late \ {desk[h].row}
    /\ Done(h)
    /\ UNCHANGED <<taken, received>>

\* An outstanding balance, a missing reference, a lost connection.
GiveUp(h) ==
    /\ desk[h] # Nothing
    /\ Done(h)
    /\ UNCHANGED <<vars, late, taken, received>>

\* Mutant of MarkOverdueItems: whatever the row's status.
MarkAllOverdue(today) ==
    LET due == {r \in Rows : rows[r] # Absent /\ rows[r].to < today} \ late
    IN  /\ due # {}
        /\ late' = late \cup due
        /\ UNCHANGED <<vars, desk, taken, received>>

\* markOverdueItems: one statement, over every row whose last day has passed.
MarkOverdueItems(today) ==
    LET due == {r \in Rows : rows[r].status = "out" /\ rows[r].to < today} \ late
    IN  /\ due # {}
        /\ late' = late \cup due
        /\ UNCHANGED <<vars, desk, taken, received>>

DeskNext ==
    \/ (Requests \/ Upkeep) /\ UNCHANGED deskVars
    \/ \E h \in Hands :
          \/ \E r \in Rows : \/ ReadForPickup(h, r)
                             \/ ReadForReturn(h, r)
                             \/ ReadForCancel(h, r)
          \/ WritePickup(h)
          \/ \E tasks \in 0..2 : WriteReturn(h, tasks)
          \/ WriteCancel(h)
          \/ GiveUp(h)
    \/ \E today \in Days : MarkOverdueItems(today)

DeskSpec == DeskInit /\ [][DeskNext]_allVars
-----------------------------------------------------------------------------
DeskTypeOK ==
    /\ TypeOK
    /\ desk \in [Hands -> Requested \cup {Nothing}]
    /\ late \subseteq {r \in Rows : rows[r].status = "out"}
    /\ taken \in [Rows -> Nat] /\ received \in [Rows -> Nat]

\* Whatever the counter does meanwhile, no booking request ever takes a day
\* beyond the stock: only a cancelled row that a pickup writes back can.
BookingNeverOverloads ==
    [][\A v \in Variations, d \in Days :
          LET load == Cardinality(UnitsIn(rows, v, d))
          IN  load' > load /\ load' > ceiling'[v]
                => \E r \in Rows : rows[r].status = "ended"
                                   /\ rows'[r].status = "out"]_allVars
-----------------------------------------------------------------------------
(* What the repository says of these handlers and they do not keep; each is *)
(* refuted by a run of its own.                                            *)

\* "status only ever moves through assertTransition()" (booking-state.ts):
\* when it is written, a pickup finds an item that waits for it, a return one
\* that is out and a cancellation one that is still held.
WritesFollowTable ==
    [][\A r \in Rows :
          /\ taken'[r] > taken[r] => rows[r].status = "held"
          /\ received'[r] > received[r] => rows[r].status = "out"
          /\ rows'[r].status = "ended" /\ rows[r].status # "ended"
                => received'[r] > received[r] \/ rows[r].status = "held"]_allVars

\* The units "physically out with a customer right now" (capacity.ts) that a
\* pickup leaves room for: no more are ever out than the shop has had.
OutWithinStock ==
    \A v \in Variations : Cardinality(UnitsOf(Out(v))) <= ceiling[v]
=============================================================================
