------------------------------ MODULE RowLocks ------------------------------
(***************************************************************************)
(* The row locks the handlers of bookings, lifecycle, payments,            *)
(* maintenance and variations take, in the order in which each takes them: *)
(* lockVariationsForUpdate, and every UPDATE and DELETE of a row somebody  *)
(* else may want.  A lock is kept to the end of the transaction; Postgres  *)
(* ends one transaction of every circle of waits, and no handler retries.  *)
(*                                                                         *)
(* What is read and written is the subject of Reservation, Desk and        *)
(* Counter; the key-share locks foreign keys take are left out.            *)
(***************************************************************************)
EXTENDS Naturals, Sequences, FiniteSets

CONSTANTS
    Transactions,  \* transactions open at once
    Served,        \* the handlers that are called
    Order,         \* the bookings row
    Items,         \* its booking_items rows
    Variations,    \* product_variations rows
    Task,          \* a maintenance_tasks row
    VarOf,         \* the variation of each item, and of the task
    Rank,          \* the sort order of the variations' ids
    Nobody

ASSUME RowLocksAssumption ==
    /\ IsFiniteSet(Transactions) /\ IsFiniteSet(Items) /\ IsFiniteSet(Variations)
    /\ Items \cap Variations = {}      \* rows of four tables
    /\ Order \notin Items \cup Variations \cup {Task}
    /\ Task \notin Items \cup Variations
    /\ VarOf \in [Items \cup {Task} -> Variations]
    /\ Rank \in [Variations -> Nat]
    /\ \A v, w \in Variations : Rank[v] = Rank[w] => v = w
    /\ Nobody \notin Transactions
    /\ Served \subseteq {"createBooking", "addBookingItem", "updateBookingItem",
                      "cancelBookingItem", "updateBookingOrder",
                      "cancelBookingOrder", "recordPayment", "deleteBooking",
                      "confirmPickup", "confirmPickupOrder", "returnBooking",
                      "createTask", "moveTask", "editVariation"}

VARIABLES
    op,      \* which handler a transaction runs, "none" when it is not open
    wants,   \* the rows it has still to lock, in order
    lock     \* who holds the lock of a row

vars == <<op, wants, lock>>

Rows == {Order} \cup Items \cup Variations \cup {Task}

\* The members of a set one after the other, in an order nobody fixes.
Arrangements(S) ==
    {s \in [1..Cardinality(S) -> S] : \A x, y \in DOMAIN s : s[x] = s[y] => x = y}

\* lockVariationsForUpdate: by id.
Sorted(S) == CHOOSE s \in Arrangements(S) :
                \A x, y \in DOMAIN s : x < y => Rank[s[x]] < Rank[s[y]]

\* The variations of a sequence of items, each where it first appears.
FirstAppearances(s) ==
    LET first(x) == \A y \in 1..(x - 1) : VarOf[s[y]] # VarOf[s[x]]
        firsts   == {x \in DOMAIN s : first(x)}
        nth(n)   == CHOOSE x \in firsts : Cardinality({y \in firsts : y < x}) = n - 1
    IN  [n \in 1..Cardinality(firsts) |-> VarOf[s[nth(n)]]]
-----------------------------------------------------------------------------
\* What each handler locks, in order.
\* Mutant of CreateBooking: the variations in the order of the cart.
CreateUnsorted     == UNION {Arrangements(S) : S \in SUBSET Variations \ {{}}}

CreateBooking      == {Sorted(S) : S \in SUBSET Variations \ {{}}}
AddBookingItem     == {<<v, Order>> : v \in Variations}

UpdateBookingItem  == {<<VarOf[i], i, Order>> : i \in Items}
CancelBookingItem  == {<<i, Order>> : i \in Items}
UpdateBookingOrder == {<<Order>>}

\* The order, then items as the rows come: the cancellable ones, the draft ones.
OrderThenItems     == {<<Order>> \o s : s \in UNION {Arrangements(S) : S \in SUBSET Items}}
CancelBookingOrder == OrderThenItems
RecordPayment      == OrderThenItems

\* A deletion cascades to the items, and then clears booking_id of their tasks.
DeleteBooking      == {<<Order>> \o s \o tasks : s \in Arrangements(Items),
                                                tasks \in {<<>>, <<Task>>}}

\* Mutant of ReturnBooking: the variation is written once more through the
\* pool, by a connection that is not the transaction's.
ReturnThroughPool  == {<<i, Order, VarOf[i], VarOf[i]>> : i \in Items}

ConfirmPickup      == {<<i, Order, VarOf[i]>> : i \in Items}
ReturnBooking      == {<<i, Order, VarOf[i]>> : i \in Items}

\* confirmPickupOrder: the items in the order of the request, and their
\* variations in that order too.
ConfirmPickupOrder ==
    {s \o <<Order>> \o FirstAppearances(s) :
       s \in UNION {Arrangements(S) : S \in SUBSET Items \ {{}}}}

\* createMaintenanceTask; startMaintenanceTask, completeMaintenanceTask and
\* cancelMaintenanceTask; the edits of a variation.
CreateTask         == {<<v>> : v \in Variations}
MoveTask           == {<<Task, VarOf[Task]>>}
EditVariation      == {<<v>> : v \in Variations}

Programs(o) ==
    CASE o = "createBooking"      -> CreateBooking
      [] o = "addBookingItem"     -> AddBookingItem
      [] o = "updateBookingItem"  -> UpdateBookingItem
      [] o = "cancelBookingItem"  -> CancelBookingItem
      [] o = "updateBookingOrder" -> UpdateBookingOrder
      [] o = "cancelBookingOrder" -> CancelBookingOrder
      [] o = "recordPayment"      -> RecordPayment
      [] o = "deleteBooking"      -> DeleteBooking
      [] o = "confirmPickup"      -> ConfirmPickup
      [] o = "confirmPickupOrder" -> ConfirmPickupOrder
      [] o = "returnBooking"      -> ReturnBooking
      [] o = "createTask"         -> CreateTask
      [] o = "moveTask"           -> MoveTask
      [] o = "editVariation"      -> EditVariation

Init ==
    /\ op = [t \in Transactions |-> "none"]
    /\ wants = [t \in Transactions |-> <<>>]
    /\ lock = [r \in Rows |-> Nobody]
-----------------------------------------------------------------------------
Begin(t, o) ==
    /\ op[t] = "none"
    /\ op' = [op EXCEPT ![t] = o]
    /\ \E rows \in Programs(o) : wants' = [wants EXCEPT ![t] = rows]
    /\ UNCHANGED lock

\* The next statement of t gets its row.
Take(t) ==
    /\ op[t] # "none" /\ wants[t] # <<>>
    /\ lock[Head(wants[t])] = Nobody
    /\ lock' = [lock EXCEPT ![Head(wants[t])] = t]
    /\ wants' = [wants EXCEPT ![t] = Tail(@)]
    /\ UNCHANGED op

End(t) ==
    /\ op' = [op EXCEPT ![t] = "none"]
    /\ wants' = [wants EXCEPT ![t] = <<>>]
    /\ lock' = [r \in Rows |-> IF lock[r] = t THEN Nobody ELSE lock[r]]

Commit(t) ==
    /\ op[t] # "none" /\ wants[t] = <<>>
    /\ End(t)

WaitsFor(t, u) ==
    t # u /\ op[t] # "none" /\ wants[t] # <<>> /\ lock[Head(wants[t])] = u

\* A circle of waits: everybody in it waits for somebody in it, and no part of
\* it is a circle already.
Closed(S) == S # {} /\ \A t \in S : \E u \in S : WaitsFor(t, u)
Circle(S) == Closed(S) /\ \A T \in SUBSET S \ {S} : ~Closed(T)

\* The database ends one transaction of a circle.
BreakCircle(S) ==
    /\ Circle(S)
    /\ \E t \in S : End(t)

Next ==
    \/ \E t \in Transactions : \/ \E o \in Served : Begin(t, o)
                               \/ Take(t)
                               \/ Commit(t)
    \/ \E S \in SUBSET Transactions : BreakCircle(S)

Spec == Init /\ [][Next]_vars

\* Statements run and transactions commit; a lock that is free again and again
\* is granted; deadlock_timeout passes.
Fairness ==
    /\ \A t \in Transactions : SF_vars(Take(t)) /\ WF_vars(Commit(t))
    /\ \A S \in SUBSET Transactions : WF_vars(BreakCircle(S))

FairSpec == Spec /\ Fairness
-----------------------------------------------------------------------------
TypeOK ==
    /\ op \in [Transactions -> Served \cup {"none"}]
    /\ wants \in [Transactions -> Seq(Rows)]
    /\ lock \in [Rows -> Transactions \cup {Nobody}]
    /\ \A t \in Transactions : op[t] = "none" => \A r \in Rows : lock[r] # t
    /\ \A t \in Transactions : \A n \in DOMAIN wants[t] : lock[wants[t][n]] # t

\* Three families of handlers each lock in one order throughout -- variation,
\* item, order; item, order, variation; order, item -- so a circle of waits
\* always has members that are not all of one family.
Bookings  == {"createBooking", "addBookingItem", "updateBookingItem",
              "cancelBookingItem", "updateBookingOrder", "createTask",
              "moveTask", "editVariation"}
Movements == {"confirmPickup", "returnBooking", "cancelBookingItem",
              "updateBookingOrder", "createBooking", "createTask", "moveTask",
              "editVariation"}
WholeOrder == {"cancelBookingOrder", "recordPayment", "deleteBooking",
               "updateBookingOrder", "createBooking", "createTask", "moveTask",
               "editVariation"}

FamiliesNeverCircle ==
    \A S \in SUBSET Transactions : Circle(S) =>
        \A F \in {Bookings, Movements, WholeOrder} : {op[t] : t \in S} \ F # {}

\* Whoever waits for whom, every transaction ends, committed or rolled back.
EveryoneEnds ==
    \A t \in Transactions : op[t] # "none" ~> op[t] = "none"
=============================================================================
