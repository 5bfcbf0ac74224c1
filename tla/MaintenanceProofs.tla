------------------------- MODULE MaintenanceProofs --------------------------
(***************************************************************************)
(* Proofs about Maintenance: its types, the label that is in step with the *)
(* tables whenever nothing has put it out of step, and what a handler may  *)
(* do to a closed task or a retired variation.                             *)
(*                                                                         *)
(* They rest on what a request still knows.  Until somebody commits behind *)
(* a request, what it looked at when it was loaded is so, and what it has  *)
(* counted in its transaction is what a count would give.                  *)
(***************************************************************************)
EXTENDS Maintenance, MoneyTheorems, SequenceTheorems

\* Before anybody has committed behind p, what it was admitted on is so.
LookedBy(p) ==
    step[p] # "idle" /\ late[p] = "no" =>
        /\ seen[p].op = "pickup" => status # "retired"
        /\ seen[p].op \in DOMAIN Moved => task[seen[p].task].status \in Open
        /\ seen[p].op = "start" => task[seen[p].task].status = "pending"

\* Before anybody has committed behind its count, what p has counted is so.
CountsBy(p) ==
    late[p] # "counted" =>
        /\ step[p] = "counting" =>
              /\ seen[p].left = Stock - Blocked(TaskAfter(seen[p]))
              /\ seen[p].shows = Parked(TaskAfter(seen[p]))
        /\ step[p] = "counted" =>
              seen[p].shows = Derived(RowAfter(seen[p]), TaskAfter(seen[p]))

\* A request that moves a task has one to move, and an idle one is not late.
AimedBy(p) ==
    /\ seen[p].op \in DOMAIN Moved => seen[p].task \in DOMAIN task
    /\ step[p] = "idle" => late[p] = "no"

Looked == \A p \in Staff : LookedBy(p)
Counts == \A p \in Staff : CountsBy(p)
Aimed  == \A p \in Staff : AimedBy(p)

MaintenanceInv == TypeOK /\ Aimed /\ Looked /\ Counts /\ InSync
-----------------------------------------------------------------------------
(* What the operators return *)

\* The moves of a task and what they leave it as.
LEMMA Moves ==
    /\ DOMAIN Moved = {"start", "complete", "cancel"}
    /\ Moved["start"] = "in_progress"
    /\ Moved["complete"] = "completed"
    /\ Moved["cancel"] = "cancelled"
  BY DEF Moved

\* What getMaintenanceBlockedQuantity counts is a number of units.
LEMMA BlockedIsNat ==
    ASSUME NEW ts \in Seq(Task)
    PROVE  Blocked(ts) \in Nat
<1> DEFINE f == [t \in DOMAIN ts |-> IF ts[t].row = NoRow THEN 1 ELSE Qty[ts[t].row]]
           S == UNION {OpenTasks(ts, type) : type \in TaskTypes}
<1>1. DOMAIN ts = 1..Len(ts) /\ Len(ts) \in Nat /\ \A t \in DOMAIN ts : ts[t] \in Task
  BY LenProperties, ElementOfSeq
<1>2. S \in SUBSET (DOMAIN ts)
  BY DEF OpenTasks
<1>3. IsFiniteSet(S)
  <2>1. IsFiniteSet(DOMAIN ts)
    BY <1>1, FS_Interval
  <2> HIDE DEF S
  <2> QED
    BY <1>2, <2>1, FS_Subset
<1>4. \A t \in S : f[t] \in Nat
  BY <1>1, <1>2, MaintenanceAssumption DEF Task
<1> HIDE DEF f, S
<1>5. SumOver(f, S) \in Nat
  BY <1>3, <1>4, SumIsNat
<1> QED
  BY <1>5 DEF Blocked, f, S

\* And so is what getRentedOutQuantity counts.
LEMMA RentedIsNat ==
    ASSUME NEW rs
    PROVE  RentedOut(rs) \in Nat
<1> DEFINE S == {r \in Rows : rs[r] = "rented"}
<1>1. S \in SUBSET Rows /\ IsFiniteSet(S)
  BY MaintenanceAssumption, FS_Subset
<1>2. \A r \in S : Qty[r] \in Nat
  BY <1>1, MaintenanceAssumption
<1> HIDE DEF S
<1>3. SumOver(Qty, S) \in Nat
  BY <1>1, <1>2, SumIsNat
<1> QED
  BY <1>3 DEF RentedOut, S

\* The stock is a number of units.
LEMMA StockIsNat == quantity \in Quantities => Stock \in Nat
  BY MaintenanceAssumption DEF Stock

\* The label a variation without units left shows is one.
LEMMA ParkedIsLabel == \A ts : Parked(ts) \in Labels
  BY DEF Parked, Labels, Manual

\* The tasks a return or a form opens.
LEMMA OpenedType ==
    ASSUME NEW w, w.row \in Rows \cup {NoRow}
    PROVE  Opened(w) \in Seq(Task)
<1> DEFINE flagged(type) == IF type \notin w.opens THEN <<>>
                            ELSE <<[type |-> type, status |-> "pending", row |-> w.row]>>
<1>1. ASSUME NEW type \in TaskTypes
      PROVE  flagged(type) \in Seq(Task)
  <2>1. [type |-> type, status |-> "pending", row |-> w.row] \in Task
    BY DEF Task, TaskStatuses, Open
  <2> QED
    BY <2>1
<1>2. flagged("maintenance") \in Seq(Task) /\ flagged("cleaning") \in Seq(Task)
  BY <1>1 DEF TaskTypes
<1> HIDE DEF flagged
<1>3. flagged("maintenance") \o flagged("cleaning") \in Seq(Task)
  BY <1>2, ConcatProperties
<1> QED
  BY <1>3 DEF Opened, flagged

\* A request's own writes to the tasks: none is lost, none changes type or
\* booking, and only the one it moves changes status.
LEMMA TaskAfterType ==
    ASSUME TypeOK, NEW p \in Staff, NEW ts, ts = TaskAfter(seen[p])
    PROVE  /\ ts \in Seq(Task)
           /\ DOMAIN task \subseteq DOMAIN ts /\ Len(task) <= Len(ts)
           /\ \A t \in DOMAIN task :
                 ts[t].status # task[t].status =>
                    /\ seen[p].op \in DOMAIN Moved /\ seen[p].task = t
                    /\ ts[t].status = Moved[seen[p].op]
<1> DEFINE w == seen[p]
<1>1. /\ task \in Seq(Task) /\ Len(task) \in Nat /\ DOMAIN task = 1..Len(task)
      /\ \A t \in DOMAIN task : task[t] \in Task
  BY LenProperties, ElementOfSeq DEF TypeOK
<1>2. CASE w.op \in DOMAIN Moved
  <2>1. ts = [task EXCEPT ![w.task].status = Moved[w.op]]
    BY <1>2 DEF TaskAfter
  <2>2. Moved[w.op] \in TaskStatuses
    BY <1>2, Moves DEF TaskStatuses, Open
  <2>3. \A t \in DOMAIN task : ts[t] = IF t = w.task THEN [task[t] EXCEPT !.status = Moved[w.op]] ELSE task[t]
    BY <2>1
  <2>4. DOMAIN ts = DOMAIN task /\ \A t \in DOMAIN task : ts[t] \in Task
    BY <1>1, <2>1, <2>2, <2>3 DEF Task
  <2>5. ts \in [1..Len(task) -> Task]
    BY <1>1, <2>1, <2>4
  <2>6. ts \in Seq(Task) /\ Len(ts) = Len(task)
    BY <1>1, <2>5
  <2>7. \A t \in DOMAIN task : t = w.task => ts[t].status = Moved[w.op]
    BY <1>1, <2>3 DEF Task
  <2>8. \A t \in DOMAIN task : t # w.task => ts[t].status = task[t].status
    BY <2>3
  <2>9. Len(task) <= Len(ts)
    BY <1>1, <2>6
  <2> HIDE DEF w
  <2>10. \A t \in DOMAIN task : ts[t].status # task[t].status =>
            w.task = t /\ ts[t].status = Moved[w.op]
    BY <2>7, <2>8
  <2> QED
    BY <1>2, <2>4, <2>6, <2>9, <2>10 DEF w
<1>3. CASE w.op \notin DOMAIN Moved
  <2>1. ts = task \o Opened(w)
    BY <1>3 DEF TaskAfter
  <2>2. Opened(w) \in Seq(Task)
    BY OpenedType DEF TypeOK
  <2>3. /\ ts \in Seq(Task) /\ Len(ts) = Len(task) + Len(Opened(w))
        /\ \A t \in 1..(Len(task) + Len(Opened(w))) :
              ts[t] = IF t <= Len(task) THEN task[t] ELSE Opened(w)[t - Len(task)]
    BY <1>1, <2>1, <2>2, ConcatProperties
  <2>4. Len(Opened(w)) \in Nat /\ DOMAIN ts = 1..Len(ts)
    BY <2>2, <2>3, LenProperties
  <2>5. Len(task) <= Len(ts) /\ DOMAIN task \subseteq DOMAIN ts
    BY <1>1, <2>3, <2>4
  <2>6. \A t \in DOMAIN task : ts[t] = task[t]
    BY <1>1, <2>3, <2>4
  <2> QED
    BY <2>3, <2>5, <2>6
<1> QED
  BY <1>2, <1>3
-----------------------------------------------------------------------------
(* The inductive invariant *)

\* At the start nobody has looked at anything.
LEMMA MaintenanceInit == Init => MaintenanceInv
<1> SUFFICES ASSUME Init PROVE MaintenanceInv
  OBVIOUS
<1>1. TypeOK
  <2>1. task \in Seq(Task) /\ Len(task) = 0 /\ DOMAIN task = {}
    BY EmptySeq DEF Init
  <2>2. \A p \in Staff : seen[p] = Nothing
    BY DEF Init
  <2>3. Nothing \in [op : {"none", "pickup", "return", "create"} \cup DOMAIN Moved,
                     row : Rows \cup {NoRow}, task : 0..MaxTasks,
                     opens : SUBSET TaskTypes, left : Int, shows : Labels]
    BY MaintenanceAssumption DEF Nothing, Labels, Manual
  <2> QED
    BY <2>1, <2>2, <2>3, MaintenanceAssumption
    DEF Init, TypeOK, Labels, Manual, RowStatuses, Nothing
<1>2. Aimed
  BY Moves DEF Init, Aimed, AimedBy, Nothing
<1>3. Looked /\ Counts
  BY DEF Init, Looked, Counts, LookedBy, CountsBy
<1>4. InSync
  <2>1. Blocked(task) = 0
    <3>1. UNION {OpenTasks(<<>>, type) : type \in TaskTypes} = {}
      BY DEF OpenTasks
    <3> QED
      BY <3>1, SumEmpty DEF Init, Blocked
  <2>2. RentedOut(row) = 0
    <3>1. {r \in Rows : row[r] = "rented"} = {}
      BY DEF Init
    <3> QED
      BY <3>1, SumEmpty DEF RentedOut
  <2>3. 0 < Stock
    BY MaintenanceAssumption DEF Init, Stock
  <2> QED
    BY <2>1, <2>2, <2>3 DEF Init, InSync, Derived
<1> QED
  BY <1>1, <1>2, <1>3, <1>4 DEF MaintenanceInv

\* Whoever is still in flight when somebody commits is late, and late in its
\* count when it has counted.
LEMMA Overtaking ==
    ASSUME TypeOK, NEW q \in Staff \cup {NoRow}, Overtake(q),
           \A u \in Staff : IF u = q THEN step'[u] = "idle" ELSE step'[u] = step[u]
    PROVE  /\ late' \in [Staff -> {"no", "loaded", "counted"}]
           /\ \A u \in Staff : step'[u] = "idle" => late'[u] = "no"
           /\ Looked' /\ Counts'
<1>1. /\ late' \in [Staff -> {"no", "loaded", "counted"}]
      /\ \A u \in Staff : late'[u] = "no" <=> step'[u] = "idle"
      /\ \A u \in Staff : step'[u] \in {"counting", "counted"} => late'[u] = "counted"
  BY DEF Overtake, InTransaction
<1>2. Looked'
  BY <1>1 DEF Looked, LookedBy
<1>3. Counts'
  BY <1>1 DEF Counts, CountsBy
<1> QED
  BY <1>1, <1>2, <1>3

\* A step of p that commits nothing concerns p alone.
LEMMA OwnStep ==
    ASSUME MaintenanceInv, NEW p \in Staff, UNCHANGED <<shop, settled>>,
           \A u \in Staff \ {p} : /\ step'[u] = step[u] /\ seen'[u] = seen[u]
                                  /\ late'[u] = late[u],
           AimedBy(p)', LookedBy(p)', CountsBy(p)'
    PROVE  Aimed' /\ Looked' /\ Counts' /\ InSync'
<1>1. quantity' = quantity /\ status' = status /\ row' = row /\ task' = task /\ settled' = settled
  BY DEF shop
<1>2. ASSUME NEW u \in Staff, u # p
      PROVE  AimedBy(u)' /\ LookedBy(u)' /\ CountsBy(u)'
  <2>1. step'[u] = step[u] /\ seen'[u] = seen[u] /\ late'[u] = late[u]
    BY <1>2
  <2>2. AimedBy(u)'
    BY <1>1, <2>1 DEF MaintenanceInv, Aimed, AimedBy
  <2>3. LookedBy(u)'
    BY <1>1, <2>1 DEF MaintenanceInv, Looked, LookedBy
  <2>4. RowAfter(seen[u])' = RowAfter(seen[u])
    BY <1>1, <2>1 DEF RowAfter
  <2>5. TaskAfter(seen[u])' = TaskAfter(seen[u])
    BY <1>1, <2>1 DEF TaskAfter
  <2>6. Stock' = Stock
    BY <1>1 DEF Stock
  <2>7. CountsBy(u)
    BY DEF MaintenanceInv, Counts
  <2>8. CountsBy(u)'
    BY <2>1, <2>4, <2>5, <2>6, <2>7 DEF CountsBy, Derived
  <2> QED
    BY <2>2, <2>3, <2>8
<1>3. InSync'
  BY <1>1 DEF MaintenanceInv, InSync, Derived, Stock
<1> QED
  BY <1>2, <1>3 DEF Aimed, Looked, Counts

\* What a request may be told to do.
Intents == [op : {"none", "pickup", "return", "create"} \cup DOMAIN Moved,
            row : Rows \cup {NoRow}, task : 0..MaxTasks,
            opens : SUBSET TaskTypes, left : Int, shows : Labels]

\* A request is loaded: it is admitted on what it has just looked at.
LEMMA RequestKeepsInv ==
    ASSUME MaintenanceInv, NEW p \in Staff, NEW what \in Intents, Request(p, what),
           what.task \in 0..Len(task),
           what.op = "pickup" => status # "retired",
           what.op \in DOMAIN Moved =>
              what.task \in DOMAIN task /\ task[what.task].status \in Open,
           what.op = "start" => task[what.task].status = "pending"
    PROVE  MaintenanceInv'
<1>1. /\ step[p] = "idle" /\ step' = [step EXCEPT ![p] = "loaded"]
      /\ seen' = [seen EXCEPT ![p] = what]
      /\ begun < MaxBegun /\ begun' = begun + 1
      /\ UNCHANGED <<shop, settled>> /\ late' = late
  BY DEF Request, Begin
<1>2. quantity' = quantity /\ status' = status /\ row' = row /\ task' = task /\ settled' = settled
  BY <1>1 DEF shop
<1>3. step'[p] = "loaded" /\ seen'[p] = what
  BY <1>1 DEF MaintenanceInv, TypeOK
<1>4. TypeOK'
  <2>1. /\ step' \in [Staff -> {"idle", "loaded", "counting", "counted"}]
        /\ seen' \in [Staff -> Intents]
        /\ \A u \in Staff : seen'[u].task \in 0..Len(task)
    BY <1>1 DEF MaintenanceInv, TypeOK, Intents
  <2>2. begun' \in 0..MaxBegun
    BY <1>1, MaintenanceAssumption DEF MaintenanceInv, TypeOK
  <2> QED
    BY <1>1, <1>2, <2>1, <2>2 DEF MaintenanceInv, TypeOK, Intents
<1>5. AimedBy(p)'
  BY <1>2, <1>3 DEF AimedBy
<1>6. LookedBy(p)'
  BY <1>2, <1>3 DEF LookedBy
<1>7. CountsBy(p)'
  BY <1>3 DEF CountsBy
<1>8. \A u \in Staff \ {p} : /\ step'[u] = step[u] /\ seen'[u] = seen[u]
                             /\ late'[u] = late[u]
  BY <1>1 DEF MaintenanceInv, TypeOK
<1> QED
  BY <1>1, <1>4, <1>5, <1>6, <1>7, <1>8, OwnStep DEF MaintenanceInv

\* No task, nothing to open.
LEMMA NothingToDo ==
    Nothing \in Intents /\ Nothing.op = "none" /\ Nothing.task = 0 /\ Nothing.row = NoRow
  BY MaintenanceAssumption DEF Nothing, Intents, Labels, Manual

\* The handlers load what they work on.
LEMMA LoadsKeepInv ==
    ASSUME MaintenanceInv, NEW p \in Staff,
           \/ \E r \in Rows : LoadPickup(p, r)
           \/ \E r \in Rows, types \in SUBSET TaskTypes : LoadReturn(p, r, types)
           \/ \E type \in TaskTypes : LoadCreate(p, type)
           \/ \E op \in DOMAIN Moved, t \in DOMAIN task : LoadMove(p, op, t)
    PROVE  MaintenanceInv'
<1>1. task \in Seq(Task) /\ Len(task) \in 0..MaxTasks /\ DOMAIN task = 1..Len(task)
  BY MaintenanceAssumption, LenProperties DEF MaintenanceInv, TypeOK
<1>2. ASSUME NEW r \in Rows, LoadPickup(p, r) PROVE MaintenanceInv'
  <2> DEFINE what == [Nothing EXCEPT !.op = "pickup", !.row = r]
  <2>1. what \in Intents /\ what.op = "pickup" /\ what.task = 0
    BY NothingToDo DEF Intents
  <2>2. Request(p, what) /\ status # "retired"
    BY <1>2 DEF LoadPickup
  <2> HIDE DEF what
  <2> QED
    BY <1>1, <2>1, <2>2, Moves, RequestKeepsInv
<1>3. ASSUME NEW r \in Rows, NEW types \in SUBSET TaskTypes, LoadReturn(p, r, types)
      PROVE  MaintenanceInv'
  <2> DEFINE what == [Nothing EXCEPT !.op = "return", !.row = r, !.opens = types]
  <2>1. what \in Intents /\ what.op = "return" /\ what.task = 0
    BY NothingToDo DEF Intents
  <2>2. Request(p, what)
    BY <1>3 DEF LoadReturn
  <2> HIDE DEF what
  <2> QED
    BY <1>1, <2>1, <2>2, Moves, RequestKeepsInv
<1>4. ASSUME NEW type \in TaskTypes, LoadCreate(p, type) PROVE MaintenanceInv'
  <2> DEFINE what == [Nothing EXCEPT !.op = "create", !.opens = {type}]
  <2>1. what \in Intents /\ what.op = "create" /\ what.task = 0
    BY NothingToDo DEF Intents
  <2>2. Request(p, what)
    BY <1>4 DEF LoadCreate
  <2> HIDE DEF what
  <2> QED
    BY <1>1, <2>1, <2>2, Moves, RequestKeepsInv
<1>5. ASSUME NEW op \in DOMAIN Moved, NEW t \in DOMAIN task, LoadMove(p, op, t)
      PROVE  MaintenanceInv'
  <2> DEFINE what == [Nothing EXCEPT !.op = op, !.task = t]
  <2>0. t \in 0..MaxTasks
    BY <1>1, MaintenanceAssumption
  <2>1. what \in Intents /\ what.op = op /\ what.task = t
    BY <2>0, NothingToDo DEF Intents
  <2>2. Request(p, what) /\ task[t].status \in Open /\ (op = "start" => task[t].status = "pending")
    BY <1>5, Moves DEF LoadMove, Open
  <2> HIDE DEF what
  <2> QED
    BY <1>1, <1>5, <2>1, <2>2, Moves, RequestKeepsInv
<1> QED
  BY <1>2, <1>3, <1>4, <1>5

\* A transaction counts the stock and the open tasks, with its own writes.
LEMMA CountTasksKeepsInv ==
    ASSUME MaintenanceInv, NEW p \in Staff, CountTasks(p)
    PROVE  MaintenanceInv'
<1> DEFINE w == seen[p]
           ts == TaskAfter(w)
<1>1. /\ step[p] = "loaded" /\ step' = [step EXCEPT ![p] = "counting"]
      /\ seen' = [seen EXCEPT ![p] = [w EXCEPT !.left = Stock - Blocked(ts), !.shows = Parked(ts)]]
      /\ UNCHANGED <<shop, settled>> /\ late' = late /\ begun' = begun
  BY DEF CountTasks, MaintenanceInv, TypeOK
<1>2. quantity' = quantity /\ status' = status /\ row' = row /\ task' = task /\ settled' = settled
  BY <1>1 DEF shop
<1>3. Stock - Blocked(ts) \in Int /\ Parked(ts) \in Labels
  <2>1. ts \in Seq(Task)
    BY TaskAfterType DEF MaintenanceInv
  <2> QED
    BY <2>1, BlockedIsNat, StockIsNat, ParkedIsLabel DEF MaintenanceInv, TypeOK
<1>4. w \in Intents
  BY DEF MaintenanceInv, TypeOK, Intents
<1> HIDE DEF w, ts
<1>5. /\ step'[p] = "counting" /\ seen'[p] \in Intents
      /\ seen'[p].op = w.op /\ seen'[p].row = w.row /\ seen'[p].task = w.task
      /\ seen'[p].opens = w.opens
      /\ seen'[p].left = Stock - Blocked(ts) /\ seen'[p].shows = Parked(ts)
  BY <1>1, <1>3, <1>4 DEF MaintenanceInv, TypeOK, Intents
<1>6. TypeOK'
  <2>1. /\ step' \in [Staff -> {"idle", "loaded", "counting", "counted"}]
        /\ seen' \in [Staff -> Intents]
        /\ \A u \in Staff : seen'[u].task \in 0..Len(task)
    BY <1>1, <1>5 DEF MaintenanceInv, TypeOK, Intents, w
  <2> QED
    BY <1>1, <1>2, <2>1 DEF MaintenanceInv, TypeOK, Intents
<1>7. AimedBy(p) /\ LookedBy(p)
  BY DEF MaintenanceInv, Aimed, Looked
<1>8. AimedBy(p)' /\ LookedBy(p)'
  BY <1>1, <1>2, <1>5, <1>7 DEF AimedBy, LookedBy, w
<1>9. TaskAfter(seen[p])' = ts
  BY <1>2, <1>5 DEF TaskAfter, Opened, ts
<1>10. Stock' = Stock
  BY <1>2 DEF Stock
<1>11. CountsBy(p)'
  BY <1>5, <1>9, <1>10 DEF CountsBy
<1>12. \A u \in Staff \ {p} : /\ step'[u] = step[u] /\ seen'[u] = seen[u]
                              /\ late'[u] = late[u]
  BY <1>1 DEF MaintenanceInv, TypeOK
<1> QED
  BY <1>1, <1>6, <1>8, <1>11, <1>12, OwnStep DEF MaintenanceInv

\* Then it reads the items that are out: with both counts it has what Derived
\* says.
LEMMA CountRentedKeepsInv ==
    ASSUME MaintenanceInv, NEW p \in Staff, CountRented(p)
    PROVE  MaintenanceInv'
<1> DEFINE w == seen[p]
           ts == TaskAfter(w)
           rs == RowAfter(w)
           shown == IF RentedOut(rs) < w.left THEN "available" ELSE w.shows
<1>1. /\ step[p] = "counting" /\ step' = [step EXCEPT ![p] = "counted"]
      /\ seen' = [seen EXCEPT ![p] = [w EXCEPT !.shows = shown]]
      /\ UNCHANGED <<shop, settled>> /\ late' = late /\ begun' = begun
  BY DEF CountRented, MaintenanceInv, TypeOK
<1>2. quantity' = quantity /\ status' = status /\ row' = row /\ task' = task /\ settled' = settled
  BY <1>1 DEF shop
<1>3. w \in Intents
  BY DEF MaintenanceInv, TypeOK, Intents
<1>4. shown \in Labels
  BY <1>3 DEF Intents, Labels, Manual
<1>5. late[p] # "counted" => shown = Derived(rs, ts)
  <2> SUFFICES ASSUME late[p] # "counted" PROVE shown = Derived(rs, ts)
    OBVIOUS
  <2>1. w.left = Stock - Blocked(ts) /\ w.shows = Parked(ts)
    BY <1>1 DEF MaintenanceInv, Counts, CountsBy
  <2>2. ts \in Seq(Task)
    BY TaskAfterType DEF MaintenanceInv
  <2>3. Blocked(ts) \in Nat /\ RentedOut(rs) \in Nat /\ Stock \in Nat
    BY <2>2, BlockedIsNat, RentedIsNat, StockIsNat DEF MaintenanceInv, TypeOK
  <2> HIDE DEF w, ts, rs
  <2>4. RentedOut(rs) < w.left <=> Blocked(ts) + RentedOut(rs) < Stock
    BY <2>1, <2>3
  <2> QED
    BY <2>1, <2>4 DEF Derived
<1> HIDE DEF w, ts, rs, shown
<1>6. /\ step'[p] = "counted" /\ seen'[p] \in Intents
      /\ seen'[p].op = w.op /\ seen'[p].row = w.row /\ seen'[p].task = w.task
      /\ seen'[p].opens = w.opens /\ seen'[p].shows = shown
  BY <1>1, <1>3, <1>4 DEF MaintenanceInv, TypeOK, Intents
<1>7. TypeOK'
  <2>1. /\ step' \in [Staff -> {"idle", "loaded", "counting", "counted"}]
        /\ seen' \in [Staff -> Intents]
        /\ \A u \in Staff : seen'[u].task \in 0..Len(task)
    BY <1>1, <1>6 DEF MaintenanceInv, TypeOK, Intents, w
  <2> QED
    BY <1>1, <1>2, <2>1 DEF MaintenanceInv, TypeOK, Intents
<1>8. AimedBy(p) /\ LookedBy(p)
  BY DEF MaintenanceInv, Aimed, Looked
<1>9. AimedBy(p)' /\ LookedBy(p)'
  BY <1>1, <1>2, <1>6, <1>8 DEF AimedBy, LookedBy, w
<1>10. TaskAfter(seen[p])' = ts
  BY <1>2, <1>6 DEF TaskAfter, Opened, ts
<1>11. RowAfter(seen[p])' = rs
  BY <1>2, <1>6 DEF RowAfter, rs
<1>12. Stock' = Stock
  BY <1>2 DEF Stock
<1>13. CountsBy(p)'
  BY <1>1, <1>5, <1>6, <1>10, <1>11, <1>12 DEF CountsBy, Derived
<1>14. \A u \in Staff \ {p} : /\ step'[u] = step[u] /\ seen'[u] = seen[u]
                              /\ late'[u] = late[u]
  BY <1>1 DEF MaintenanceInv, TypeOK
<1> QED
  BY <1>1, <1>7, <1>9, <1>13, <1>14, OwnStep DEF MaintenanceInv

\* What a request leaves of the items is typed.
LEMMA RowAfterType ==
    ASSUME TypeOK, NEW w
    PROVE  RowAfter(w) \in [Rows -> RowStatuses]
  BY DEF TypeOK, RowAfter, RowStatuses

\* A request that commits, or is done, leaves everything typed and nobody
\* looking; what is left to show is that the label is in step.
LEMMA FinishKeepsInv ==
    ASSUME MaintenanceInv, NEW p \in Staff, Finish(p), status' \in Labels,
           Len(TaskAfter(seen[p])) <= MaxTasks,
           settled' \in BOOLEAN, InSync'
    PROVE  MaintenanceInv'
<1>1. /\ row' = RowAfter(seen[p]) /\ task' = TaskAfter(seen[p])
      /\ step' = [step EXCEPT ![p] = "idle"]
      /\ seen' = [seen EXCEPT ![p] = Nothing]
      /\ Overtake(p) /\ quantity' = quantity /\ begun' = begun
  BY DEF Finish
<1>2. /\ task' \in Seq(Task) /\ Len(task) <= Len(task') /\ DOMAIN task \subseteq DOMAIN task'
  BY <1>1, TaskAfterType DEF MaintenanceInv
<1>3. \A u \in Staff : IF u = p THEN step'[u] = "idle" ELSE step'[u] = step[u]
  BY <1>1 DEF MaintenanceInv, TypeOK
<1>4. /\ late' \in [Staff -> {"no", "loaded", "counted"}]
      /\ \A u \in Staff : step'[u] = "idle" => late'[u] = "no"
      /\ Looked' /\ Counts'
  BY <1>1, <1>3, Overtaking DEF MaintenanceInv
<1>5. TypeOK'
  <2>1. row' \in [Rows -> RowStatuses]
    BY <1>1, RowAfterType DEF MaintenanceInv
  <2>2. /\ step' \in [Staff -> {"idle", "loaded", "counting", "counted"}]
        /\ seen' \in [Staff -> Intents]
    BY <1>1, NothingToDo DEF MaintenanceInv, TypeOK, Intents
  <2>3. Len(task) \in Nat /\ Len(task') \in Nat
    BY <1>2, LenProperties DEF MaintenanceInv, TypeOK
  <2>4. ASSUME NEW u \in Staff PROVE seen'[u].task \in 0..Len(task')
    <3>1. CASE u = p
      BY <1>1, <2>3, <3>1, NothingToDo DEF MaintenanceInv, TypeOK
    <3>2. CASE u # p
      <4>1. seen'[u] = seen[u] /\ seen[u].task \in 0..Len(task)
        BY <1>1, <3>2 DEF MaintenanceInv, TypeOK
      <4> QED
        BY <1>2, <2>3, <4>1
    <3> QED
      BY <3>1, <3>2
  <2>5. Len(task') <= MaxTasks
    BY <1>1
  <2> QED
    BY <1>1, <1>2, <1>4, <2>1, <2>2, <2>4, <2>5 DEF MaintenanceInv, TypeOK, Intents
<1>6. Aimed'
  <2> SUFFICES ASSUME NEW u \in Staff PROVE AimedBy(u)'
    BY DEF Aimed
  <2>1. CASE u = p
    BY <1>1, <1>4, <2>1, NothingToDo, Moves DEF AimedBy, MaintenanceInv, TypeOK
  <2>2. CASE u # p
    <3>1. seen'[u] = seen[u] /\ AimedBy(u)
      BY <1>1, <2>2 DEF MaintenanceInv, TypeOK, Aimed
    <3> QED
      BY <1>2, <1>4, <3>1 DEF AimedBy
  <2> QED
    BY <2>1, <2>2
<1> QED
  BY <1>4, <1>5, <1>6 DEF MaintenanceInv

\* The status that is written is the one derived, unless somebody committed in
\* between.
LEMMA CommitKeepsInv ==
    ASSUME MaintenanceInv, NEW p \in Staff, Commit(p)
    PROVE  MaintenanceInv'
<1>1. /\ step[p] = "counted" /\ Len(TaskAfter(seen[p])) <= MaxTasks
      /\ status' = seen[p].shows /\ settled' = (late[p] # "counted") /\ Finish(p)
  BY DEF Commit
<1>2. status' \in Labels
  BY <1>1 DEF MaintenanceInv, TypeOK
<1>3. InSync'
  <2>1. row' = RowAfter(seen[p]) /\ task' = TaskAfter(seen[p]) /\ quantity' = quantity
    BY <1>1 DEF Finish
  <2>2. late[p] # "counted" => seen[p].shows = Derived(RowAfter(seen[p]), TaskAfter(seen[p]))
    BY <1>1 DEF MaintenanceInv, Counts, CountsBy
  <2> QED
    BY <1>1, <2>1, <2>2 DEF InSync, Derived, Stock
<1> QED
  BY <1>1, <1>2, <1>3, FinishKeepsInv

\* A repair that was waiting and is started blocks what it blocked before.
LEMMA StartingChangesNothing ==
    ASSUME TypeOK, NEW t \in DOMAIN task, task[t].status = "pending",
           task[t].type = "maintenance",
           NEW ts, ts = [task EXCEPT ![t].status = "in_progress"]
    PROVE  Blocked(ts) = Blocked(task) /\ Parked(ts) = Parked(task)
<1>1. task \in Seq(Task) /\ \A u \in DOMAIN task : task[u] \in Task
  BY ElementOfSeq DEF TypeOK
<1>2. DOMAIN ts = DOMAIN task
  OBVIOUS
<1>3. ASSUME NEW u \in DOMAIN task
      PROVE  /\ ts[u].type = task[u].type /\ ts[u].row = task[u].row
             /\ ts[u].status \in Open <=> task[u].status \in Open
             /\ task[u].type = "cleaning" => ts[u].status = task[u].status
  BY <1>1 DEF Task, Open
<1>4. \A type : OpenTasks(ts, type) = OpenTasks(task, type)
  BY <1>2, <1>3 DEF OpenTasks
<1>5. [u \in DOMAIN ts |-> IF ts[u].row = NoRow THEN 1 ELSE Qty[ts[u].row]]
        = [u \in DOMAIN task |-> IF task[u].row = NoRow THEN 1 ELSE Qty[task[u].row]]
  BY <1>2, <1>3
<1>6. Blocked(ts) = Blocked(task)
  <2> DEFINE f(us) == [u \in DOMAIN us |-> IF us[u].row = NoRow THEN 1 ELSE Qty[us[u].row]]
             S(us) == UNION {OpenTasks(us, type) : type \in TaskTypes}
  <2>1. f(ts) = f(task)
    BY <1>5
  <2>2. S(ts) = S(task)
    BY <1>4
  <2>3. Blocked(ts) = SumOver(f(ts), S(ts)) /\ Blocked(task) = SumOver(f(task), S(task))
    BY DEF Blocked
  <2> HIDE DEF f, S
  <2> QED
    BY <2>1, <2>2, <2>3
<1>7. ASSUME NEW u \in OpenTasks(task, "cleaning")
      PROVE  ts[u].status = task[u].status
  BY <1>3 DEF OpenTasks
<1>8. Parked(ts) = Parked(task)
  BY <1>4, <1>7 DEF Parked
<1> QED
  BY <1>6, <1>8

\* A repair is started without a derivation: the label stays in step.
LEMMA StartRepairKeepsInv ==
    ASSUME MaintenanceInv, NEW p \in Staff, StartRepair(p)
    PROVE  MaintenanceInv'
<1> DEFINE w == seen[p]
<1>1. /\ step[p] = "loaded" /\ ~Refreshes(w)
      /\ settled' = (settled /\ late[p] = "no") /\ status' = status /\ Finish(p)
  BY DEF StartRepair
<1>2. w.op = "start" /\ task[w.task].type = "maintenance" /\ w.op \in DOMAIN Moved
  BY <1>1, Moves DEF Refreshes
<1>3. w.task \in DOMAIN task
  BY <1>2 DEF MaintenanceInv, Aimed, AimedBy
<1>4. TaskAfter(w) = [task EXCEPT ![w.task].status = "in_progress"]
  BY <1>2, Moves DEF TaskAfter
<1>5. Len(TaskAfter(w)) <= MaxTasks
  <2>1. Len(TaskAfter(w)) = Len(task)
    <3>1. task \in [1..Len(task) -> Task] /\ Len(task) \in Nat /\ TaskAfter(w) \in Seq(Task)
      BY LenProperties, TaskAfterType DEF MaintenanceInv, TypeOK
    <3>2. DOMAIN TaskAfter(w) = 1..Len(task)
      BY <1>4, <3>1
    <3>3. DOMAIN TaskAfter(w) = 1..Len(TaskAfter(w)) /\ Len(TaskAfter(w)) \in Nat
      BY <3>1, LenProperties
    <3> HIDE DEF w
    <3> QED
      BY <3>1, <3>2, <3>3
  <2> QED
    BY <2>1 DEF MaintenanceInv, TypeOK
<1>6. InSync'
  <2> SUFFICES ASSUME settled' PROVE status' = Derived(row, task)'
    BY DEF InSync
  <2>1. settled /\ late[p] = "no"
    BY <1>1 DEF MaintenanceInv, TypeOK
  <2>2. task[w.task].status = "pending"
    BY <1>1, <1>2, <2>1 DEF MaintenanceInv, Looked, LookedBy
  <2>3. row' = row /\ task' = TaskAfter(w) /\ quantity' = quantity
    BY <1>1, <1>2 DEF Finish, RowAfter
  <2> HIDE DEF w
  <2>4. Blocked(TaskAfter(w)) = Blocked(task) /\ Parked(TaskAfter(w)) = Parked(task)
    BY <1>2, <1>3, <1>4, <2>2, StartingChangesNothing DEF MaintenanceInv
  <2>5. status = Derived(row, task)
    BY <2>1 DEF MaintenanceInv, InSync
  <2> QED
    BY <1>1, <2>3, <2>4, <2>5 DEF Derived, Stock
<1> QED
  BY <1>1, <1>5, <1>6, FinishKeepsInv DEF MaintenanceInv, TypeOK

\* Whoever gives up knows nothing more.
LEMMA GiveUpKeepsInv ==
    ASSUME MaintenanceInv, NEW p \in Staff, GiveUp(p)
    PROVE  MaintenanceInv'
<1>1. /\ step' = [step EXCEPT ![p] = "idle"] /\ seen' = [seen EXCEPT ![p] = Nothing]
      /\ late' = [late EXCEPT ![p] = "no"]
      /\ UNCHANGED <<shop, settled>> /\ begun' = begun
  BY DEF GiveUp
<1>2. quantity' = quantity /\ status' = status /\ row' = row /\ task' = task /\ settled' = settled
  BY <1>1 DEF shop
<1>3. step'[p] = "idle" /\ seen'[p] = Nothing /\ late'[p] = "no"
  BY <1>1 DEF MaintenanceInv, TypeOK
<1>4. TypeOK'
  <2>1. Len(task) \in Nat
    BY LenProperties DEF MaintenanceInv, TypeOK
  <2>2. /\ step' \in [Staff -> {"idle", "loaded", "counting", "counted"}]
        /\ seen' \in [Staff -> Intents] /\ late' \in [Staff -> {"no", "loaded", "counted"}]
        /\ \A u \in Staff : seen'[u].task \in 0..Len(task)
    BY <1>1, <2>1, NothingToDo DEF MaintenanceInv, TypeOK, Intents
  <2> QED
    BY <1>1, <1>2, <2>2 DEF MaintenanceInv, TypeOK, Intents
<1>5. AimedBy(p)' /\ LookedBy(p)' /\ CountsBy(p)'
  BY <1>3, NothingToDo, Moves DEF AimedBy, LookedBy, CountsBy
<1>6. \A u \in Staff \ {p} : /\ step'[u] = step[u] /\ seen'[u] = seen[u]
                             /\ late'[u] = late[u]
  BY <1>1 DEF MaintenanceInv, TypeOK
<1> QED
  BY <1>1, <1>4, <1>5, <1>6, OwnStep DEF MaintenanceInv

\* A single statement leaves every request late and the label unsettled; it
\* keeps the types if it keeps those of the tables.
LEMMA StatementKeepsInv ==
    ASSUME MaintenanceInv, Statement, quantity' \in Quantities, status' \in Labels,
           row' \in [Rows -> RowStatuses], task' \in Seq(Task), DOMAIN task' = DOMAIN task
    PROVE  MaintenanceInv'
<1>1. /\ begun < MaxBegun /\ begun' = begun + 1 /\ Overtake(NoRow)
      /\ settled' = FALSE /\ step' = step /\ seen' = seen
  BY DEF Statement, Begin
<1>2. \A u \in Staff : IF u = NoRow THEN step'[u] = "idle" ELSE step'[u] = step[u]
  BY <1>1, MaintenanceAssumption
<1>3. /\ late' \in [Staff -> {"no", "loaded", "counted"}]
      /\ \A u \in Staff : step'[u] = "idle" => late'[u] = "no"
      /\ Looked' /\ Counts'
  BY <1>1, <1>2, Overtaking DEF MaintenanceInv
<1>4. Len(task') = Len(task)
  <2>1. /\ DOMAIN task = 1..Len(task) /\ Len(task) \in Nat
        /\ DOMAIN task' = 1..Len(task') /\ Len(task') \in Nat
    BY LenProperties DEF MaintenanceInv, TypeOK
  <2> QED
    BY <2>1
<1>5. TypeOK'
  <2>1. begun' \in 0..MaxBegun
    BY <1>1, MaintenanceAssumption DEF MaintenanceInv, TypeOK
  <2> QED
    BY <1>1, <1>3, <1>4, <2>1 DEF MaintenanceInv, TypeOK
<1>6. Aimed'
  BY <1>1, <1>3 DEF MaintenanceInv, Aimed, AimedBy
<1>7. InSync'
  BY <1>1 DEF InSync
<1> QED
  BY <1>3, <1>5, <1>6, <1>7 DEF MaintenanceInv

\* The single statements keep the types of the tables.
LEMMA StatementsKeepInv ==
    ASSUME MaintenanceInv,
           \/ \E s \in Manual : SetStatus(s)
           \/ \E n \in Quantities : UpdateQuantity(n)
           \/ \E r \in Rows : MarkOverdue(r) \/ DeleteBooking(r)
    PROVE  MaintenanceInv'
<1>1. TypeOK
  BY DEF MaintenanceInv
<1>2. ASSUME NEW s \in Manual, SetStatus(s) PROVE MaintenanceInv'
  BY <1>1, <1>2, StatementKeepsInv DEF SetStatus, TypeOK, Labels
<1>3. ASSUME NEW n \in Quantities, UpdateQuantity(n) PROVE MaintenanceInv'
  BY <1>1, <1>3, StatementKeepsInv DEF UpdateQuantity, TypeOK
<1>4. ASSUME NEW r \in Rows, MarkOverdue(r) PROVE MaintenanceInv'
  <2>1. row' \in [Rows -> RowStatuses]
    BY <1>1, <1>4 DEF MarkOverdue, TypeOK, RowStatuses
  <2> QED
    BY <1>1, <1>4, <2>1, StatementKeepsInv DEF MarkOverdue, TypeOK
<1>5. ASSUME NEW r \in Rows, DeleteBooking(r) PROVE MaintenanceInv'
  <2>1. row' \in [Rows -> RowStatuses]
    BY <1>1, <1>5 DEF DeleteBooking, TypeOK, RowStatuses
  <2>2. task' \in Seq(Task) /\ DOMAIN task' = DOMAIN task
    <3>1. Len(task) \in Nat /\ DOMAIN task = 1..Len(task) /\ \A t \in DOMAIN task : task[t] \in Task
      BY <1>1, LenProperties, ElementOfSeq DEF TypeOK
    <3>2. \A t \in DOMAIN task : [task[t] EXCEPT !.row = NoRow] \in Task
      BY <3>1 DEF Task
    <3>3. task' = [t \in DOMAIN task |->
             IF task[t].row = r THEN [task[t] EXCEPT !.row = NoRow] ELSE task[t]]
      BY <1>5 DEF DeleteBooking
    <3>4. task' \in [1..Len(task) -> Task]
      BY <3>1, <3>2, <3>3
    <3> QED
      BY <3>1, <3>3, <3>4
  <2> QED
    BY <1>1, <1>5, <2>1, <2>2, StatementKeepsInv DEF DeleteBooking, TypeOK
<1> QED
  BY <1>2, <1>3, <1>4, <1>5

\* Every step keeps the invariant.
LEMMA NextKeepsInv == MaintenanceInv /\ [Next]_vars => MaintenanceInv'
<1> SUFFICES ASSUME MaintenanceInv, [Next]_vars PROVE MaintenanceInv'
  OBVIOUS
<1>1. ASSUME NEW p \in Staff, Handle(p) PROVE MaintenanceInv'
  BY <1>1, LoadsKeepInv, CountTasksKeepsInv, CountRentedKeepsInv, CommitKeepsInv,
     StartRepairKeepsInv, GiveUpKeepsInv DEF Handle
<1>2. CASE UNCHANGED vars
  <2>1. /\ quantity' = quantity /\ status' = status /\ row' = row /\ task' = task
        /\ step' = step /\ seen' = seen /\ late' = late /\ settled' = settled
        /\ begun' = begun
    BY <1>2 DEF vars, shop
  <2>2. TypeOK' /\ Aimed' /\ Looked' /\ InSync'
    BY <2>1 DEF MaintenanceInv, TypeOK, Aimed, AimedBy, Looked, LookedBy, InSync, Derived, Stock
  <2>3. \A w : RowAfter(w)' = RowAfter(w)
    BY <2>1 DEF RowAfter
  <2>4. \A w : TaskAfter(w)' = TaskAfter(w)
    BY <2>1 DEF TaskAfter
  <2>5. Stock' = Stock
    BY <2>1 DEF Stock
  <2>6. Counts'
    BY <2>1, <2>3, <2>4, <2>5 DEF MaintenanceInv, Counts, CountsBy, Derived
  <2> QED
    BY <2>2, <2>6 DEF MaintenanceInv
<1> QED
  BY <1>1, <1>2, StatementsKeepInv DEF Next

\* Every behaviour keeps it.
THEOREM MaintenanceInvHolds == Spec => []MaintenanceInv
  BY MaintenanceInit, NextKeepsInv, PTL DEF Spec

\* The variation, its items and tasks and the requests are always typed.
THEOREM TypeCorrect == Spec => []TypeOK
<1>1. MaintenanceInv => TypeOK
  BY DEF MaintenanceInv
<1> QED
  BY <1>1, MaintenanceInvHolds, PTL

\* The label a variation shows is the derived one whenever no hand, sweep,
\* deletion or second handler came in between, for any number of tasks, items
\* and units.
THEOREM LabelInSync == Spec => []InSync
<1>1. MaintenanceInv => InSync
  BY DEF MaintenanceInv
<1> QED
  BY <1>1, MaintenanceInvHolds, PTL
-----------------------------------------------------------------------------
(* What a step may do *)

\* A task that is closed is written over only by a handler that had loaded it
\* before somebody else committed.
THEOREM ClosedTasksStayClosed == Spec => ClosedStaysClosed
<1> DEFINE Writes(t) ==
      task'[t].status # task[t].status =>
         \E p \in Staff : /\ step[p] # "idle" /\ step'[p] = "idle"
                          /\ seen[p].task = t
                          /\ task[t].status \notin Open => late[p] # "no"
<1>1. ASSUME MaintenanceInv, NEW p \in Staff, Finish(p), step[p] # "idle", NEW t \in DOMAIN task
      PROVE  Writes(t)
  <2>1. task' = TaskAfter(seen[p]) /\ step'[p] = "idle"
    BY <1>1 DEF Finish, MaintenanceInv, TypeOK
  <2>2. task'[t].status # task[t].status => seen[p].op \in DOMAIN Moved /\ seen[p].task = t
    BY <1>1, <2>1, TaskAfterType DEF MaintenanceInv
  <2>3. seen[p].op \in DOMAIN Moved /\ late[p] = "no" => task[seen[p].task].status \in Open
    BY <1>1 DEF MaintenanceInv, Looked, LookedBy
  <2> QED
    BY <1>1, <2>1, <2>2, <2>3
<1>2. ASSUME NEW r \in Rows, DeleteBooking(r), MaintenanceInv, NEW t \in DOMAIN task
      PROVE  task'[t].status = task[t].status
  <2>1. task[t] \in Task
    BY <1>2, ElementOfSeq DEF MaintenanceInv, TypeOK
  <2>2. task'[t] = IF task[t].row = r THEN [task[t] EXCEPT !.row = NoRow] ELSE task[t]
    BY <1>2 DEF DeleteBooking
  <2> QED
    BY <2>1, <2>2 DEF Task
<1>3. MaintenanceInv /\ [Next]_vars => [\A t \in DOMAIN task : Writes(t)]_vars
  <2> SUFFICES ASSUME MaintenanceInv, Next PROVE \A t \in DOMAIN task : Writes(t)
    OBVIOUS
  <2>1. CASE \E p \in Staff : Commit(p) \/ StartRepair(p)
    BY <1>1, <2>1 DEF Commit, StartRepair
  <2>2. CASE \E r \in Rows : DeleteBooking(r)
    BY <1>2, <2>2
  <2>3. CASE task' = task
    BY <2>3
  <2> QED
    BY <2>1, <2>2, <2>3 DEF Next, Handle, LoadPickup, LoadReturn, LoadCreate, LoadMove, Request,
       CountTasks, CountRented, GiveUp, SetStatus, UpdateQuantity, MarkOverdue, shop
<1> QED
  BY <1>3, MaintenanceInvHolds, PTL DEF Spec, ClosedStaysClosed

\* A retired variation comes back by hand, or when a handler of a return or a
\* task derives the status, or after a pickup that looked before it was retired.
THEOREM RetiredComesBack == Spec => RetiredReopens
<1> DEFINE Back ==
      status = "retired" /\ status' # "retired" =>
         \/ UNCHANGED <<quantity, row, task, step>>
         \/ \E p \in Staff : Ends(p) /\ (seen[p].op = "pickup" => late[p] # "no")
<1>1. ASSUME MaintenanceInv, NEW p \in Staff, Commit(p) PROVE Back
  <2>1. step[p] = "counted" /\ step'[p] = "idle"
    BY <1>1 DEF Commit, Finish, MaintenanceInv, TypeOK
  <2>2. seen[p].op = "pickup" /\ late[p] = "no" => status # "retired"
    BY <1>1, <2>1 DEF MaintenanceInv, Looked, LookedBy
  <2> QED
    BY <2>1, <2>2 DEF Ends
<1>2. MaintenanceInv /\ [Next]_vars => [Back]_vars
  <2> SUFFICES ASSUME MaintenanceInv, Next PROVE Back
    OBVIOUS
  <2>1. CASE \E p \in Staff : Commit(p)
    BY <1>1, <2>1
  <2>2. CASE \E s \in Manual : SetStatus(s)
    BY <2>2 DEF SetStatus, Statement
  <2>3. CASE status' = status
    BY <2>3
  <2> QED
    BY <2>1, <2>2, <2>3 DEF Next, Handle, LoadPickup, LoadReturn, LoadCreate, LoadMove, Request,
       CountTasks, CountRented, GiveUp, StartRepair, UpdateQuantity, MarkOverdue, DeleteBooking, shop
<1> QED
  BY <1>2, MaintenanceInvHolds, PTL DEF Spec, RetiredReopens
=============================================================================
