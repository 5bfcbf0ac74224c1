----------------------------- MODULE Maintenance -----------------------------
(***************************************************************************)
(* The cleaning and repair tasks of one variation, its units out with      *)
(* customers, and the status applyVariationLifecycleStatus derives from    *)
(* them: maintenance/service.ts, variations/capacity.ts, and the pickups,  *)
(* returns, deletions, sweeps and edits around them.                       *)
(*                                                                         *)
(* A handler loads its task or its item through the pool.  Its transaction *)
(* writes that row by id, and derives the status in three statements at    *)
(* READ COMMITTED: it reads the stock and the open tasks, then the items   *)
(* that are out, and writes the status, which is one step with its commit  *)
(* because the variation's row stays locked.  Each bookings row holds one  *)
(* item of the variation, so that no other lock keeps two handlers apart.  *)
(***************************************************************************)
EXTENDS Sums, Sequences, FiniteSets

CONSTANTS
    Staff,       \* requests in flight at once
    Rows,        \* booking_items rows of this variation
    Qty,         \* how many units each is for
    Quantities,  \* how many units the shop may own
    NoRow,       \* no booking
    MaxTasks,    \* bound: maintenance_tasks rows that are ever inserted
    MaxBegun     \* bound: requests and single statements that are ever begun

ASSUME MaintenanceAssumption ==
    /\ IsFiniteSet(Rows) /\ Qty \in [Rows -> Nat \ {0}]
    /\ Quantities \subseteq Nat /\ Quantities # {}
    /\ NoRow \notin Rows \cup Staff /\ MaxTasks \in Nat /\ MaxBegun \in Nat

VARIABLES
    quantity,   \* product_variations.quantity
    status,     \* product_variations.status
    row,        \* status of each booking item, "gone" once deleted
    task,       \* maintenance_tasks, in the order they were committed
    step,       \* how far each request is
    seen,       \* what it is to do, and what it has counted
    late,       \* history: since when others have committed in front of it
    settled,    \* history: nothing has put the label out of step since it was derived
    begun       \* history: how many requests and statements there have been

shop == <<quantity, status, row, task>>
vars == <<shop, step, seen, late, settled, begun>>

TaskTypes    == {"cleaning", "maintenance"}
Open         == {"pending", "in_progress"}
TaskStatuses == Open \cup {"completed", "cancelled"}
Task         == [type : TaskTypes, status : TaskStatuses, row : Rows \cup {NoRow}]
RowStatuses  == {"held", "rented", "overdue", "returned", "gone"}
Manual       == {"available", "maintenance", "retired"}
Labels       == Manual \cup {"rented", "needs_cleaning", "cleaning"}

Stock == IF quantity > 1 THEN quantity ELSE 1

OpenTasks(ts, type) ==
    {t \in DOMAIN ts : ts[t].type = type /\ ts[t].status \in Open}

\* getMaintenanceBlockedQuantity: a task counts for the units of the booking it
\* came from, for one if it came from none or that booking was deleted.
Blocked(ts) ==
    SumOver([t \in DOMAIN ts |-> IF ts[t].row = NoRow THEN 1 ELSE Qty[ts[t].row]],
            UNION {OpenTasks(ts, type) : type \in TaskTypes})

\* getRentedOutQuantity: what is `rented', so not what is overdue.
RentedOut(rs) == SumOver(Qty, {r \in Rows : rs[r] = "rented"})

\* Mutant: a cleaning shows the status of its task.
ParkedByTask(ts) ==
    IF OpenTasks(ts, "maintenance") # {} THEN "maintenance"
    ELSE IF \E t \in OpenTasks(ts, "cleaning") : ts[t].status = "in_progress"
         THEN "in_progress"
    ELSE IF OpenTasks(ts, "cleaning") # {} THEN "needs_cleaning"
    ELSE "rented"

\* The status of a variation none of whose units is left.
Parked(ts) ==
    IF OpenTasks(ts, "maintenance") # {} THEN "maintenance"
    ELSE IF \E t \in OpenTasks(ts, "cleaning") : ts[t].status = "in_progress"
         THEN "cleaning"
    ELSE IF OpenTasks(ts, "cleaning") # {} THEN "needs_cleaning"
    ELSE "rented"

Derived(rs, ts) ==
    IF Blocked(ts) + RentedOut(rs) < Stock THEN "available" ELSE Parked(ts)
-----------------------------------------------------------------------------
Nothing == [op |-> "none", row |-> NoRow, task |-> 0, opens |-> {},
            left |-> 0, shows |-> "available"]

Init ==
    /\ quantity \in Quantities
    /\ status = "available"
    /\ row = [r \in Rows |-> "held"]
    /\ task = <<>>
    /\ step = [p \in Staff |-> "idle"]
    /\ seen = [p \in Staff |-> Nothing]
    /\ late = [p \in Staff |-> "no"]
    /\ settled = TRUE
    /\ begun = 0

Begin == begun < MaxBegun /\ begun' = begun + 1

Request(p, what) ==
    /\ step[p] = "idle" /\ Begin
    /\ step' = [step EXCEPT ![p] = "loaded"]
    /\ seen' = [seen EXCEPT ![p] = what]
    /\ UNCHANGED <<shop, late, settled>>

\* Mutant: a pickup looks at the units only.
LoadPickupUnlooked(p, r) ==
    /\ row[r] = "held"
    /\ Stock - Blocked(task) - RentedOut(row) >= Qty[r]
    /\ Request(p, [Nothing EXCEPT !.op = "pickup", !.row = r])

\* confirmPickup, confirmPickupOrder: the variation is not retired and enough
\* of its units are free.
LoadPickup(p, r) ==
    /\ row[r] = "held"
    /\ status # "retired"
    /\ Stock - Blocked(task) - RentedOut(row) >= Qty[r]
    /\ Request(p, [Nothing EXCEPT !.op = "pickup", !.row = r])

\* returnBooking, flagging a cleaning, a repair, both or neither.
LoadReturn(p, r, types) ==
    /\ row[r] \in {"rented", "overdue"}
    /\ Request(p, [Nothing EXCEPT !.op = "return", !.row = r, !.opens = types])

\* createMaintenanceTask.
LoadCreate(p, type) == Request(p, [Nothing EXCEPT !.op = "create", !.opens = {type}])

\* Mutant: only work that is already started is refused.
LoadMoveUnchecked(p, op, t) ==
    /\ op = "start" => task[t].status # "in_progress"
    /\ Request(p, [Nothing EXCEPT !.op = op, !.task = t])

\* startMaintenanceTask, completeMaintenanceTask, cancelMaintenanceTask.
LoadMove(p, op, t) ==
    /\ \/ op = "start" /\ task[t].status = "pending"
       \/ op \in {"complete", "cancel"} /\ task[t].status \in Open
    /\ Request(p, [Nothing EXCEPT !.op = op, !.task = t])

\* The tables with a request's own writes: its row by id, whatever it holds by
\* now, and the tasks openMaintenanceTasksForReturn or a form inserts.
RowAfter(w) ==
    CASE w.op = "pickup" -> [row EXCEPT ![w.row] = "rented"]
      [] w.op = "return" -> [row EXCEPT ![w.row] = "returned"]
      [] OTHER           -> row

Opened(w) ==
    LET flagged(type) == IF type \notin w.opens THEN <<>>
                         ELSE <<[type |-> type, status |-> "pending", row |-> w.row]>>
    IN  flagged("maintenance") \o flagged("cleaning")

Moved == [start |-> "in_progress", complete |-> "completed", cancel |-> "cancelled"]

TaskAfter(w) ==
    IF w.op \in DOMAIN Moved THEN [task EXCEPT ![w.task].status = Moved[w.op]]
    ELSE task \o Opened(w)

\* A repair that is started leaves the status alone.
Refreshes(w) == ~(w.op = "start" /\ task[w.task].type = "maintenance")

InTransaction(p) == step[p] \in {"counting", "counted"}
Locks(p, r, t) ==
    /\ InTransaction(p)
    /\ \/ r # NoRow /\ seen[p].row = r
       \/ t # 0 /\ seen[p].task = t

\* The transaction writes its row, once nobody else holds it, and reads the
\* stock and the open tasks.  Of a row that is gone there is nothing to write.
CountTasks(p) ==
    /\ step[p] = "loaded" /\ Refreshes(seen[p])
    /\ ~ \E q \in Staff : Locks(q, seen[p].row, seen[p].task)
    /\ seen[p].row # NoRow => row[seen[p].row] # "gone"
    /\ LET ts == TaskAfter(seen[p])
       IN  /\ Len(ts) <= MaxTasks
           /\ seen' = [seen EXCEPT ![p].left = Stock - Blocked(ts), ![p].shows = Parked(ts)]
    /\ step' = [step EXCEPT ![p] = "counting"]
    /\ UNCHANGED <<shop, late, settled, begun>>

\* Mutant: it reads them through the pool, without its own pickup.
CountRentedInPool(p) ==
    /\ step[p] = "counting"
    /\ seen' = [seen EXCEPT ![p].shows =
           IF RentedOut(row) < seen[p].left THEN "available" ELSE @]
    /\ step' = [step EXCEPT ![p] = "counted"]
    /\ UNCHANGED <<shop, late, settled, begun>>

\* It reads the items that are out.
CountRented(p) ==
    /\ step[p] = "counting"
    /\ seen' = [seen EXCEPT ![p].shows =
           IF RentedOut(RowAfter(seen[p])) < seen[p].left THEN "available" ELSE @]
    /\ step' = [step EXCEPT ![p] = "counted"]
    /\ UNCHANGED <<shop, late, settled, begun>>

\* Somebody commits (p, or NoRow for a single statement): everybody else in
\* flight has read something that is old by now.
Overtake(p) ==
    late' = [q \in Staff |-> IF q = p \/ step[q] = "idle" THEN "no"
                             ELSE IF InTransaction(q) THEN "counted"
                             ELSE "loaded"]

Finish(p) ==
    /\ row' = RowAfter(seen[p])
    /\ task' = TaskAfter(seen[p])
    /\ step' = [step EXCEPT ![p] = "idle"]
    /\ seen' = [seen EXCEPT ![p] = Nothing]
    /\ Overtake(p)
    /\ UNCHANGED <<quantity, begun>>

\* It writes the status and commits.
Commit(p) ==
    /\ step[p] = "counted"
    /\ Len(TaskAfter(seen[p])) <= MaxTasks
    /\ status' = seen[p].shows
    /\ settled' = (late[p] # "counted")
    /\ Finish(p)

StartRepair(p) ==
    /\ step[p] = "loaded" /\ ~Refreshes(seen[p])
    /\ ~ \E q \in Staff : Locks(q, NoRow, seen[p].task)
    /\ settled' = (settled /\ late[p] = "no")
    /\ UNCHANGED status
    /\ Finish(p)

\* A refusal, a rolled back transaction, a client that went away.
GiveUp(p) ==
    /\ step[p] # "idle"
    /\ step' = [step EXCEPT ![p] = "idle"]
    /\ seen' = [seen EXCEPT ![p] = Nothing]
    /\ late' = [late EXCEPT ![p] = "no"]
    /\ UNCHANGED <<shop, settled, begun>>

\* What single statements do to the variation and its items; none of them
\* derives the status anew.
Statement == Begin /\ Overtake(NoRow) /\ settled' = FALSE /\ UNCHANGED <<step, seen>>

SetStatus(s) == status' = s /\ Statement /\ UNCHANGED <<quantity, row, task>>

UpdateQuantity(n) == quantity' = n /\ Statement /\ UNCHANGED <<status, row, task>>

MarkOverdue(r) ==
    /\ row[r] = "rented" /\ ~ \E q \in Staff : Locks(q, r, 0)
    /\ row' = [row EXCEPT ![r] = "overdue"]
    /\ Statement /\ UNCHANGED <<quantity, status, task>>

\* deleteBooking: the tasks of the item lose their booking.
DeleteBooking(r) ==
    /\ row[r] \in {"held", "returned"} /\ ~ \E q \in Staff : Locks(q, r, 0)
    /\ \A t \in DOMAIN task : task[t].row = r => ~ \E q \in Staff : Locks(q, NoRow, t)
    /\ row' = [row EXCEPT ![r] = "gone"]
    /\ task' = [t \in DOMAIN task |->
           IF task[t].row = r THEN [task[t] EXCEPT !.row = NoRow] ELSE task[t]]
    /\ Statement /\ UNCHANGED <<quantity, status>>

Handle(p) ==
    \/ \E r \in Rows : LoadPickup(p, r)
    \/ \E r \in Rows, types \in SUBSET TaskTypes : LoadReturn(p, r, types)
    \/ \E type \in TaskTypes : LoadCreate(p, type)
    \/ \E op \in DOMAIN Moved, t \in DOMAIN task : LoadMove(p, op, t)
    \/ CountTasks(p)
    \/ CountRented(p)
    \/ Commit(p)
    \/ StartRepair(p)
    \/ GiveUp(p)

Next ==
    \/ \E p \in Staff : Handle(p)
    \/ \E s \in Manual : SetStatus(s)
    \/ \E n \in Quantities : UpdateQuantity(n)
    \/ \E r \in Rows : MarkOverdue(r) \/ DeleteBooking(r)

Spec == Init /\ [][Next]_vars
-----------------------------------------------------------------------------
\* Type correctness of the variation, its tasks and items, and of the requests.
TypeOK ==
    /\ quantity \in Quantities /\ status \in Labels
    /\ row \in [Rows -> RowStatuses]
    /\ task \in Seq(Task) /\ Len(task) <= MaxTasks
    /\ step \in [Staff -> {"idle", "loaded", "counting", "counted"}]
    /\ seen \in [Staff -> [op : {"none", "pickup", "return", "create"} \cup DOMAIN Moved,
                           row : Rows \cup {NoRow}, task : 0..MaxTasks,
                           opens : SUBSET TaskTypes, left : Int, shows : Labels]]
    /\ \A p \in Staff : seen[p].task \in 0..Len(task)
    /\ late \in [Staff -> {"no", "loaded", "counted"}]
    /\ settled \in BOOLEAN /\ begun \in 0..MaxBegun

\* The label a variation shows is the one its open tasks, its items out and its
\* stock call for, unless somebody set it or the stock by hand, the sweep moved
\* an item, a booking was deleted, or two handlers ran at once (the comment of
\* applyVariationLifecycleStatus knows no exception).
InSync == settled => status = Derived(row, task)

\* Work that is done or called off is never reopened or closed again, unless a
\* handler that had loaded the task before writes over it by id
\* (startMaintenanceTask after somebody completed the task).
ClosedStaysClosed ==
    [][\A t \in DOMAIN task :
          task'[t].status # task[t].status =>
             \E p \in Staff : /\ step[p] # "idle" /\ step'[p] = "idle"
                              /\ seen[p].task = t
                              /\ task[t].status \notin Open => late[p] # "no"]_vars

Ends(p) == step[p] = "counted" /\ step'[p] = "idle"

\* A variation that was retired comes back only by hand or when a handler of a
\* return or a task derives the status anew, whatever it was before
\* (availability.ts calls a retired variation gone for good); a pickup brings it
\* back only if it looked before the variation was retired; the sweep, a
\* deletion, an edit of the stock and a repair that is started never do.
RetiredReopens ==
    [][status = "retired" /\ status' # "retired" =>
          \/ UNCHANGED <<quantity, row, task, step>>
          \/ \E p \in Staff : Ends(p) /\ (seen[p].op = "pickup" => late[p] # "no")]_vars
=============================================================================
