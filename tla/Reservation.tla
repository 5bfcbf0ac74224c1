----------------------------- MODULE Reservation -----------------------------
(***************************************************************************)
(* The booking calendar: createBooking, addBookingItem and updateBookingItem *)
(* of src/server/bookings/service.ts run by several clerks at once, over   *)
(* the locks and the capacity check of src/server/bookings/availability.ts.*)
(*                                                                         *)
(* A request reads its variations, opens a transaction, locks the variation*)
(* rows one by one, checks one variation after the other, and writes.      *)
(* Postgres runs it at READ COMMITTED: a statement sees what is committed  *)
(* when it starts, so each of these is a step of its own, and what others  *)
(* commit in between is seen or missed accordingly.  Rows written by a     *)
(* transaction appear to others when it commits, in one step.              *)
(*                                                                         *)
(* The other handlers that touch the calendar or a variation are single    *)
(* steps; every one of them but a cancellation writes the variation's row, *)
(* hence waits for its lock.  Those of the counter (pickup, return,        *)
(* cancellation) read the item through the pool, decide, and then write it *)
(* by its id alone: here they are their writes, on whatever the row has    *)
(* become since.  Desk adds the reads and decisions they come from.        *)
(***************************************************************************)
EXTENDS CalendarUnits

CONSTANTS
    Clerks,       \* requests in flight at once
    Rank,         \* the sort order of the variations' ids
    Lines,        \* what a cart line may ask for
    Quantities,   \* how many units of a variation the shop may own
    Switches,     \* what is_available and retired may be set to by hand
    MaxBlocked,   \* bound: units of a variation in open tasks
    MaxHanded,    \* bound: rows ever handed over
    NoClerk

AttributeType == [quantity : Quantities, hardBlocked : BOOLEAN, isAvailable : BOOLEAN]

ASSUME ReservationAssumption ==
    /\ Rank \in [Variations -> Nat]
    /\ \A v, w \in Variations : Rank[v] = Rank[w] => v = w
    /\ Lines \subseteq LineType
    /\ Quantities \subseteq Nat /\ Switches \subseteq BOOLEAN
    /\ MaxBlocked \in Nat /\ MaxHanded \in Nat
    /\ NoClerk \notin Clerks

VARIABLES
    rows,        \* booking_items, with the part of the status that matters
    attr,        \* quantity, status and is_available of each variation
    blocked,     \* units of a variation in open maintenance or cleaning tasks
    lock,        \* who holds the row lock of a variation
    pc,          \* where each clerk's request is
    plan,        \* the rows a request is going to write
    editing,     \* whether they are there already (updateBookingItem)
    seen,        \* the variations as the request read them
    unchecked,   \* variations whose capacity check is still to come
    ceiling,     \* history: the largest stock a variation has ever had
    handed,      \* history: rows that have been handed over
    revived      \* history: rows handed over when they had ended

request == <<pc, plan, editing, seen, unchecked>>
history == <<ceiling, handed, revived>>
vars == <<rows, attr, blocked, lock, request, history>>

Steps == {"idle", "locking", "checking", "writing"}

Capacity(quantity, inRepair) == Larger(0, Stock(quantity) - inRepair)

Wanted(c) == {plan[c][r].variation : r \in DOMAIN plan[c]}
Holds(c, v) == lock[v] = c

\* Mutants: rows are read without FOR UPDATE, or locked in the cart's order.
FreeAnyway(v)        == TRUE
NextInAnyOrder(c, v) == TRUE

Free(v) == lock[v] = NoClerk

\* The order in which a request takes its locks.
NextInOrder(c, v) == \A w \in Wanted(c) : Rank[w] < Rank[v] => Holds(c, w)

\* Mutant of Competes: a booking that ends on the day another starts is not
\* counted.
CompetesInside(c, v, r) ==
    /\ r \notin DOMAIN plan[c]
    /\ rows[r] # Absent
    /\ \E p \in DOMAIN plan[c] : /\ plan[c][p].variation = v
                                 /\ rows[r].from < plan[c][p].to
    /\ \E p \in DOMAIN plan[c] : /\ plan[c][p].variation = v
                                 /\ plan[c][p].from < rows[r].to

\* A row the check counts: not one the request replaces, and meeting the
\* window its lines for v span between them.
Competes(c, v, r) ==
    /\ r \notin DOMAIN plan[c]
    /\ rows[r] # Absent
    /\ \E p \in DOMAIN plan[c] : /\ plan[c][p].variation = v
                                 /\ rows[r].from <= plan[c][p].to
    /\ \E p \in DOMAIN plan[c] : /\ plan[c][p].variation = v
                                 /\ plan[c][p].from <= rows[r].to

\* The calendar the check adds up: what competes, and the request.
Contended(c, v) ==
    [r \in Rows |-> IF r \in DOMAIN plan[c] THEN plan[c][r]
                    ELSE IF Competes(c, v, r) THEN rows[r] ELSE Absent]

\* computeCapacity: stock and whether it may be booked at all as the request
\* read them, units in repair and other bookings as they are now.
Fits(c, v) ==
    /\ ~seen[c][v].hardBlocked /\ seen[c][v].isAvailable
    /\ \A d \in Days : Cardinality(UnitsIn(Contended(c, v), v, d))
                          <= Capacity(seen[c][v].quantity, blocked[v])
-----------------------------------------------------------------------------
NoPlan == [r \in {} |-> Absent]
NoneSeen == [v \in {} |-> Absent]

Init ==
    /\ rows = [r \in Rows |-> Absent]
    /\ attr \in [Variations -> [quantity : Quantities,
                                hardBlocked : {FALSE}, isAvailable : {TRUE}]]
    /\ blocked = [v \in Variations |-> 0]
    /\ lock = [v \in Variations |-> NoClerk]
    /\ pc = [c \in Clerks |-> "idle"]
    /\ plan = [c \in Clerks |-> NoPlan]
    /\ editing = [c \in Clerks |-> FALSE]
    /\ seen = [c \in Clerks |-> NoneSeen]
    /\ unchecked = [c \in Clerks |-> {}]
    /\ ceiling = [v \in Variations |-> Stock(attr[v].quantity)]
    /\ handed = {} /\ revived = {}

Held(line) == [variation |-> line.variation, from |-> line.from,
               to |-> line.to, qty |-> line.qty, status |-> "held"]

\* What every request does before its transaction: read the variations of its
\* lines.  validateDateRange refuses a line that ends before it starts.
Begin(c, lines, edit) ==
    /\ pc[c] = "idle"
    /\ DOMAIN lines # {}
    /\ \A r \in DOMAIN lines : lines[r].from <= lines[r].to
    /\ pc' = [pc EXCEPT ![c] = "locking"]
    /\ plan' = [plan EXCEPT ![c] = [r \in DOMAIN lines |-> Held(lines[r])]]
    /\ editing' = [editing EXCEPT ![c] = edit]
    /\ LET vs == {lines[r].variation : r \in DOMAIN lines}
       IN  /\ seen' = [seen EXCEPT ![c] = [v \in vs |-> attr[v]]]
           /\ unchecked' = [unchecked EXCEPT ![c] = vs]
    /\ UNCHANGED <<rows, attr, blocked, lock, history>>

\* createBooking and addBookingItem: the rows they insert get fresh ids.
Reserve(c, lines) ==
    /\ \A r \in DOMAIN lines : /\ rows[r] = Absent
                               /\ \A e \in Clerks : r \notin DOMAIN plan[e]
    /\ Begin(c, lines, FALSE)

\* updateBookingItem: other dates, or fewer units, for a row still held.
Reschedule(c, r, line) ==
    /\ rows[r].status = "held"
    /\ line.variation = rows[r].variation
    /\ line.qty <= rows[r].qty
    /\ Begin(c, [x \in {r} |-> line], TRUE)

\* lockVariationsForUpdate: one row lock after the other, in id order.
Lock(c, v) ==
    /\ pc[c] = "locking"
    /\ v \in Wanted(c)
    /\ ~Holds(c, v) /\ NextInOrder(c, v)
    /\ Free(v)
    /\ lock' = [lock EXCEPT ![v] = c]
    /\ pc' = [pc EXCEPT ![c] =
                IF \A w \in Wanted(c) \ {v} : Holds(c, w) THEN "checking" ELSE @]
    /\ UNCHANGED <<rows, attr, blocked, plan, editing, seen, unchecked, history>>

\* assertCapacityAvailable (assertAvailable) for one variation: it fits.
CheckPasses(c, v) ==
    /\ pc[c] = "checking"
    /\ v \in unchecked[c]
    /\ Fits(c, v)
    /\ unchecked' = [unchecked EXCEPT ![c] = @ \ {v}]
    /\ pc' = [pc EXCEPT ![c] = IF unchecked[c] = {v} THEN "writing" ELSE @]
    /\ UNCHANGED <<rows, attr, blocked, lock, plan, editing, seen, history>>

\* The transaction is over: its locks go, and the request with it.
EndRequest(c) ==
    /\ lock' = [v \in Variations |-> IF Holds(c, v) THEN NoClerk ELSE lock[v]]
    /\ pc' = [pc EXCEPT ![c] = "idle"]
    /\ plan' = [plan EXCEPT ![c] = NoPlan]
    /\ editing' = [editing EXCEPT ![c] = FALSE]
    /\ seen' = [seen EXCEPT ![c] = NoneSeen]
    /\ unchecked' = [unchecked EXCEPT ![c] = {}]
    /\ UNCHANGED <<attr, blocked, history>>

\* ... or it does not: the request is refused and nothing is written.
CheckFails(c, v) ==
    /\ pc[c] = "checking"
    /\ v \in unchecked[c]
    /\ ~Fits(c, v)
    /\ EndRequest(c)
    /\ UNCHANGED rows

\* Mutants of Written: an edit writes the row as it read it, status and all;
\* an insert takes the status of a row that is not there.
WrittenWhole(c, r)  == plan[c][r]
WrittenAsEdit(c, r) == [plan[c][r] EXCEPT !.status = rows[r].status]

\* An edit writes dates and quantity only, whatever became of the row.
Written(c, r) ==
    IF editing[c] THEN [plan[c][r] EXCEPT !.status = rows[r].status]
    ELSE plan[c][r]

Commit(c) ==
    /\ pc[c] = "writing"
    /\ rows' = [r \in Rows |-> IF r \in DOMAIN plan[c] THEN Written(c, r)
                               ELSE rows[r]]
    /\ EndRequest(c)

\* The server stops, the connection drops, a statement fails: rolled back.
Abort(c) ==
    /\ pc[c] # "idle"
    /\ EndRequest(c)
    /\ UNCHANGED rows

\* cancelBookingItem, cancelBookingOrder, deleteBooking: the item was held when
\* it was read.  No variation row is written, so none of their locks is waited
\* for.  A deleted row stays here as an ended one.
Cancel(r) ==
    /\ rows[r] # Absent
    /\ rows' = [rows EXCEPT ![r].status = "ended"]
    /\ UNCHANGED <<attr, blocked, lock, request, history>>

\* applyVariationLifecycleStatus overwrites whatever status the variation has
\* with one that is never retired or in_transfer; n is what is in repair now.
ApplyLifecycleStatus(v, n) ==
    /\ Free(v)
    /\ n \in 0..MaxBlocked
    /\ blocked' = [blocked EXCEPT ![v] = n]
    /\ attr' = [attr EXCEPT ![v].hardBlocked = FALSE]
    /\ UNCHANGED <<lock, request, ceiling>>

\* confirmPickup: the item was held, and the variation there to be handed over,
\* when they were read.
PickUp(r) ==
    /\ rows[r] # Absent
    /\ rows' = [rows EXCEPT ![r].status = "out"]
    /\ handed' = handed \cup {r} /\ Cardinality(handed') <= MaxHanded
    /\ revived' = IF rows[r].status = "ended" THEN revived \cup {r} ELSE revived
    /\ ApplyLifecycleStatus(rows[r].variation, blocked[rows[r].variation])

\* returnBooking: the item was out when it was read.  A cleaning task, a
\* maintenance task, both or none, each for all the units of the row.
Return(r, tasks) ==
    /\ r \in handed
    /\ rows' = [rows EXCEPT ![r].status = "ended"]
    /\ ApplyLifecycleStatus(rows[r].variation,
                            blocked[rows[r].variation] + tasks * rows[r].qty)
    /\ UNCHANGED <<handed, revived>>

\* createMaintenanceTask; completeMaintenanceTask and cancelMaintenanceTask
\* close one task, of however many units.
OpenTask(v) ==
    /\ ApplyLifecycleStatus(v, blocked[v] + 1)
    /\ UNCHANGED <<rows, handed, revived>>

CloseTask(v, n) ==
    /\ n < blocked[v]
    /\ ApplyLifecycleStatus(v, n)
    /\ UNCHANGED <<rows, handed, revived>>

\* updateVariation, setVariationAvailability, setVariationStatus: one column
\* each of those the calendar looks at.
UpdateVariation(v, a) ==
    /\ Free(v)
    /\ \/ \E q \in Quantities  : a = [attr[v] EXCEPT !.quantity = q]
       \/ \E on \in Switches   : a = [attr[v] EXCEPT !.isAvailable = on]
       \/ \E gone \in Switches : a = [attr[v] EXCEPT !.hardBlocked = gone]
    /\ attr' = [attr EXCEPT ![v] = a]
    /\ ceiling' = [ceiling EXCEPT ![v] = Larger(@, Stock(a.quantity))]
    /\ UNCHANGED <<rows, blocked, lock, request, handed, revived>>

Work(c) ==
    \/ \E v \in Variations : CheckPasses(c, v) \/ CheckFails(c, v)
    \/ Commit(c)

Carts == UNION {[S -> Lines] : S \in SUBSET Rows}

Requests ==
    \E c \in Clerks :
       \/ \E lines \in Carts : Reserve(c, lines)
       \/ \E r \in Rows, line \in Lines : Reschedule(c, r, line)
       \/ \E v \in Variations : Lock(c, v)
       \/ Work(c)
       \/ Abort(c)

Counter ==
    \E r \in Rows : \/ Cancel(r)
                    \/ PickUp(r)
                    \/ \E tasks \in 0..2 : Return(r, tasks)

Upkeep ==
    \E v \in Variations : \/ OpenTask(v)
                          \/ \E n \in 0..MaxBlocked : CloseTask(v, n)
                          \/ \E a \in AttributeType : UpdateVariation(v, a)

Next == Requests \/ Counter \/ Upkeep

Spec == Init /\ [][Next]_vars

\* A server works off the requests it has begun, and Postgres hands a row
\* lock to those who wait for it: nobody is passed over for ever.
Fairness ==
    \A c \in Clerks : /\ WF_vars(Work(c))
                      /\ SF_vars(\E v \in Variations : Lock(c, v))

FairSpec == Spec /\ Fairness
-----------------------------------------------------------------------------
Plans    == UNION {[S -> RowType] : S \in SUBSET Rows}
Readings == UNION {[S -> AttributeType] : S \in SUBSET Variations}

\* What has been handed over is out or has ended.
HistoryOK ==
    /\ revived \subseteq handed
    /\ \A r \in handed : r \in Rows /\ rows[r].status \in {"out", "ended"}

TypeOK ==
    /\ rows \in [Rows -> RowType \cup {Absent}]
    /\ attr \in [Variations -> AttributeType]
    /\ blocked \in [Variations -> Nat]
    /\ lock \in [Variations -> Clerks \cup {NoClerk}]
    /\ pc \in [Clerks -> Steps]
    /\ plan \in [Clerks -> Plans]
    /\ seen \in [Clerks -> Readings]
    /\ unchecked \in [Clerks -> SUBSET Variations]
    /\ editing \in [Clerks -> BOOLEAN]
    /\ ceiling \in [Variations -> Nat]
    /\ HistoryOK

\* Days are oversold by the rows that a pickup wrote back after they had ended,
\* and by no others: whoever books, moves, cancels, revives or crashes, before
\* or after, the rows that never were revived fit the stock the shop has had.
OnlyRevivedOversell ==
    \A v \in Variations, d \in Days :
        Cardinality({u \in UnitsIn(rows, v, d) : u[1] \notin revived}) <= ceiling[v]

\* What the calendar is for, and what it comes to as long as nothing is revived.
NeverOversold ==
    \A v \in Variations, d \in Days :
        Cardinality(UnitsIn(rows, v, d)) <= ceiling[v]

\* From its check to its commit, what a request found to fit still fits:
\* nobody else takes the units it counted.
CheckStillHolds ==
    \A c \in Clerks : pc[c] \in {"checking", "writing"} =>
        \A v \in Wanted(c) \ unchecked[c], d \in Days :
            Cardinality(UnitsIn(Contended(c, v), v, d)) <= ceiling[v]

\* Whoever waits for a lock waits for a clerk whose own next lock, if it still
\* needs one, comes later in the order: nobody waits in a circle.
Waits(c, v) == /\ pc[c] = "locking" /\ v \in Wanted(c)
               /\ ~Holds(c, v) /\ NextInOrder(c, v)
WaitsClimb ==
    \A c, e \in Clerks, v, w \in Variations :
        Waits(c, v) /\ Holds(e, v) /\ Waits(e, w) => Rank[v] < Rank[w]

\* The inductive strengthening the proofs use: a clerk holds locks only on
\* what it wants, in order, and all of them once it checks; ...
LockDiscipline ==
    \A c \in Clerks :
        /\ pc[c] = "idle" => DOMAIN plan[c] = {}
        /\ \A v \in Variations : Holds(c, v) => v \in Wanted(c)
        /\ \A v, w \in Wanted(c) : Holds(c, v) /\ Rank[w] < Rank[v] => Holds(c, w)
        /\ pc[c] \in {"checking", "writing"} => \A v \in Wanted(c) : Holds(c, v)

\* ... it plans rows that are not there yet and that nobody else plans, or one
\* that is there and stays with its variation; ...
PlanMatchesRows ==
    \A c \in Clerks : \A r \in DOMAIN plan[c] :
        /\ plan[c][r].status = "held"
        /\ editing[c] => /\ DOMAIN plan[c] = {r}
                         /\ rows[r] # Absent
                         /\ rows[r].variation = plan[c][r].variation
        /\ ~editing[c] => /\ rows[r] = Absent
                          /\ \A e \in Clerks \ {c} : r \notin DOMAIN plan[e]

\* ... and it has read, for all it wants and no other variation, a stock the
\* shop has had.
SeenIsOwned ==
    /\ \A v \in Variations : Stock(attr[v].quantity) <= ceiling[v]
    /\ \A c \in Clerks : /\ DOMAIN seen[c] = Wanted(c)
                         /\ pc[c] = "locking" => unchecked[c] = Wanted(c)
                         /\ pc[c] = "writing" => unchecked[c] = {}
                         /\ \A v \in Wanted(c) :
                               Stock(seen[c][v].quantity) <= ceiling[v]

ReservationInv ==
    /\ TypeOK
    /\ LockDiscipline
    /\ PlanMatchesRows
    /\ SeenIsOwned
    /\ CheckStillHolds

\* A request that has been begun is answered.
Answered == \A c \in Clerks : pc[c] # "idle" ~> pc[c] = "idle"

\* Requests, locks, checks on old readings and writes by id add up to the steps
\* of the calendar: a booking appears whole and within the stock, an edit moves
\* one row within it and leaves its status, and a status moves on, or back to
\* "out" by the hand of a pickup; nothing books an ended row again.
Promise == INSTANCE Calendar
KeepsPromise == Promise!Spec
-----------------------------------------------------------------------------
(* What the repository says of these handlers and they do not keep; refuted *)
(* by a run of its own.                                                    *)

\* "re-check capacity against what is committed *now*" (createBooking): what
\* is about to be written fits the variation as it is, not as it was read.
RecheckedNow ==
    \A c \in Clerks : pc[c] = "writing" =>
        \A v \in Wanted(c) :
            /\ ~attr[v].hardBlocked /\ attr[v].isAvailable
            /\ \A d \in Days : Cardinality(UnitsIn(Contended(c, v), v, d))
                                  <= Capacity(attr[v].quantity, blocked[v])
=============================================================================
