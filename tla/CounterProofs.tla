---------------------------- MODULE CounterProofs ----------------------------
(***************************************************************************)
(* What holds of an order several members of staff work on at once, for    *)
(* every number of lines and requests and every choice of amounts.         *)
(*                                                                         *)
(* Only a commit changes the order, and whoever is at work when somebody   *)
(* else commits is overtaken.  So what a request that is not overtaken has *)
(* loaded is still so: that is the heart of the invariant, and everything  *)
(* below says what is left for the requests that are.                      *)
(***************************************************************************)
EXTENDS Counter, MoneyTheorems

AtWork(q) == step[q] # "idle"

\* An order that is not there has no lines.
GoneIsEmpty == order = "none" => \A i \in Items : item[i] = "absent"

\* A request at work has loaded an order that was there; one that is not has
\* loaded nothing.
LoadedOrders ==
    \A q \in Requests :
       /\ AtWork(q) => /\ seen[q].op # "none"
                       /\ seen[q].order \in {"draft", "confirmed", "cancelled"}
       /\ ~AtWork(q) => seen[q] = NoLoad

\* A line that is being added is not there, and nobody else is adding it.
AddsAlone ==
    \A q \in Requests : seen[q].op = "add" =>
       /\ item[seen[q].item] = "absent"
       /\ \A p \in Requests \ {q} : ~(seen[p].op = "add" /\ seen[p].item = seen[q].item)

\* Whether everything but the line that is being returned has ended.
LastOut(q) ==
    \A j \in Items \ {seen[q].item} : item[j] \in Terminal \cup {"absent"}

\* What a return takes of the deposit that is held, and hands back of it.
ReturnRows(q) ==
    LET held    == DepositHeld(ledger)
        applied == Lesser(write[q].charge, held)
    IN  Post(Row("deposit_applied", applied), "deposit_release",
             IF LastOut(q) THEN held - applied ELSE 0)

\* What a request has read is what there is.
StillSo(q) ==
    /\ order = seen[q].order
    /\ Admits(seen[q].op, seen[q].item)
    /\ seen[q].op = "return" =>
          /\ step[q] = "counted" => seen[q].ledger = ledger
          /\ step[q] = "ready" => write[q].rows = ReturnRows(q)

FreshIsStillSo == \A q \in Requests : AtWork(q) /\ q \notin overtaken => StillSo(q)

CounterInv ==
    /\ TypeOK
    /\ GoneIsEmpty
    /\ LoadedOrders
    /\ AddsAlone
    /\ FreshIsStillSo
-----------------------------------------------------------------------------
(* What the operators return *)

\* An empty ledger has nothing of any type.
LEMMA EmptyIsLedger ==
    EmptyLedger \in Ledgers /\ \A t \in PaymentTypes : EmptyLedger[t] = 0
  BY DEF EmptyLedger, Ledgers

\* One row is a ledger of its own.
LEMMA RowType ==
    ASSUME NEW t \in PaymentTypes, NEW a \in Nat
    PROVE  /\ Row(t, a) \in Ledgers
           /\ Row(t, a)[t] = a
           /\ \A u \in PaymentTypes \ {t} : Row(t, a)[u] = 0
<1>1. /\ Post(EmptyLedger, t, a) \in Ledgers
      /\ Post(EmptyLedger, t, a)[t] = EmptyLedger[t] + a
      /\ \A u \in PaymentTypes \ {t} : Post(EmptyLedger, t, a)[u] = EmptyLedger[u]
  BY EmptyIsLedger, PostType
<1> QED
  BY <1>1, EmptyIsLedger DEF Row

\* Rows add up type by type.
LEMMA PlusType ==
    ASSUME NEW l \in Ledgers, NEW m \in Ledgers
    PROVE  /\ Plus(l, m) \in Ledgers
           /\ \A t \in PaymentTypes : Plus(l, m)[t] = l[t] + m[t]
  BY DEF Plus, Ledgers

\* What a handler is going to write is well formed whenever its rows are.
LEMMA PostingType ==
    ASSUME NEW l, NEW rows \in Ledgers, NEW p, NEW d
    PROVE  /\ Posting(l, rows, p, d) \in WriteType
           /\ Posting(l, rows, p, d).rows = rows
<1>1. StatusOf(Plus(l, rows), p, d) \in PaymentStatuses
  BY StatusType
<1>2. EmptyLedger \in Ledgers
  BY EmptyIsLedger
<1> QED
  BY <1>1, <1>2 DEF Posting, NoWrite, WriteType, NoBill, BillType

\* A request that has read nothing is going to write nothing.
LEMMA NothingType ==
    /\ NoLoad \in LoadType /\ NoLoad.op = "none"
    /\ NoWrite \in WriteType
    /\ NoBill \in BillType
<1>1. EmptyLedger \in Ledgers
  BY EmptyIsLedger
<1>2. (CHOOSE i \in Items : TRUE) \in Items
  BY CounterAssumption
<1>3. NoBill \in BillType
  BY DEF NoBill, BillType
<1>4. NoLoad \in LoadType /\ NoLoad.op = "none"
  BY <1>1, <1>2, <1>3 DEF NoLoad, LoadType
<1>5. NoWrite \in WriteType
  BY <1>1, <1>3 DEF NoWrite, WriteType, PaymentStatuses
<1> QED
  BY <1>3, <1>4, <1>5

\* The rows recordPayment admits are rows.
LEMMA InflowsType ==
    ASSUME NEW b, b.rent \in Int, b.deposit \in Int
    PROVE  Inflows(b) \subseteq Ledgers
<1> DEFINE rentDue == NonNegative(b.rent)
           part(a) == Lesser(a, rentDue)
<1>1. rentDue \in Nat
  BY DEF NonNegative
<1>2. Payments \subseteq Nat
  BY CounterAssumption
<1>3. {"advance", "balance", "security_deposit"} \subseteq PaymentTypes
  BY DEF PaymentTypes
<1>4. ASSUME NEW a \in Payments
      PROVE  /\ a \in Nat /\ part(a) \in Nat /\ a - part(a) \in Nat
             /\ \A t \in {"advance", "balance", "security_deposit"} :
                   Row(t, a) \in Ledgers
             /\ Plus(Row("balance", part(a)), Row("security_deposit", a - part(a)))
                  \in Ledgers
  <2>1. a \in Nat
    BY <1>2
  <2> HIDE DEF rentDue
  <2>2. part(a) \in Nat /\ a - part(a) \in Nat
    BY <1>1, <2>1 DEF Lesser
  <2> HIDE DEF part
  <2>3. /\ Row("balance", part(a)) \in Ledgers
        /\ Row("security_deposit", a - part(a)) \in Ledgers
    BY <1>3, <2>2, RowType
  <2>4. \A t \in {"advance", "balance", "security_deposit"} : Row(t, a) \in Ledgers
    BY <1>3, <2>1, RowType
  <2> QED
    BY <2>1, <2>2, <2>3, <2>4, PlusType
<1> HIDE DEF part
<1>5. ASSUME NEW rows \in Inflows(b) PROVE rows \in Ledgers
  BY <1>4, <1>5 DEF Inflows, part
<1> QED
  BY <1>5

\* ... and so are those that hand money back.
LEMMA OutflowsType ==
    ASSUME NEW l PROVE Outflows(l) \subseteq Ledgers
<1>1. /\ Payments \subseteq Nat
      /\ "refund" \in PaymentTypes /\ "deposit_release" \in PaymentTypes
  BY CounterAssumption DEF PaymentTypes
<1>2. \A a \in Payments : Row("refund", a) \in Ledgers /\ Row("deposit_release", a) \in Ledgers
  BY <1>1, RowType
<1> QED
  BY <1>2 DEF Outflows

\* The damage of an order is the sum of its lines'.
LEMMA DamageType ==
    ASSUME NEW d \in [Items -> Nat] PROVE Damage(d) \in Nat
<1>1. IsFiniteSet(Items)
  BY CounterAssumption
<1> QED
  BY <1>1, SumIsNat DEF Damage

\* recomputeOrderTotal writes the total, leaves the additional cost, and drops
\* the deposit of an order without lines.
LEMMA RecomputedIs ==
    ASSUME NEW b \in BillType, NEW s, NEW r
    PROVE  Recomputed(b, s, r) =
             [total |-> SumOver(r, Live(s)) + b.additional,
              additional |-> b.additional,
              deposit |-> IF Live(s) = {} THEN 0 ELSE b.deposit]
<1>1. ASSUME NEW t, NEW d
      PROVE  [b EXCEPT !.total = t, !.deposit = d]
               = [total |-> t, additional |-> b.additional, deposit |-> d]
  <2>1. [b EXCEPT !.total = t, !.deposit = d]
          = [[b EXCEPT !.total = t] EXCEPT !.deposit = d]
    BY DEF BillType
  <2>2. [b EXCEPT !.total = t]
          = [total |-> t, additional |-> b.additional, deposit |-> b.deposit]
    BY DEF BillType
  <2>3. ASSUME NEW y, NEW z
        PROVE  [[total |-> t, additional |-> y, deposit |-> z] EXCEPT !.deposit = d]
                 = [total |-> t, additional |-> y, deposit |-> d]
    OBVIOUS
  <2> QED
    BY <2>1, <2>2, <2>3, Zenon
<1> DEFINE t == SumOver(r, Live(s)) + b.additional
           d == IF Live(s) = {} THEN 0 ELSE b.deposit
<1>2. Recomputed(b, s, r) = [b EXCEPT !.total = t, !.deposit = d]
  BY Zenon DEF Recomputed
<1> HIDE DEF t, d
<1>3. Recomputed(b, s, r) = [total |-> t, additional |-> b.additional, deposit |-> d]
  BY <1>1, <1>2
<1> QED
  BY <1>3 DEF t, d

\* So it makes a bill of a bill, ...
LEMMA RecomputedType ==
    ASSUME NEW b \in BillType, NEW s, NEW r \in [Items -> Nat]
    PROVE  Recomputed(b, s, r) \in BillType
<1>1. IsFiniteSet(Live(s)) /\ Live(s) \subseteq Items
  <2>1. Live(s) \subseteq Items
    BY DEF Live
  <2> QED
    BY <2>1, CounterAssumption, FS_Subset
<1>2. SumOver(r, Live(s)) \in Nat
  BY <1>1, SumIsNat
<1>3. b.additional \in Nat /\ b.deposit \in Nat
  BY DEF BillType
<1> QED
  BY <1>2, <1>3, RecomputedIs DEF BillType

\* ... and doing it again changes nothing.
LEMMA RecomputedAgain ==
    ASSUME NEW b \in BillType, NEW s, NEW r \in [Items -> Nat]
    PROVE  Recomputed(Recomputed(b, s, r), s, r) = Recomputed(b, s, r)
<1> DEFINE c == Recomputed(b, s, r)
           t == SumOver(r, Live(s))
<1>1. c = [total |-> t + b.additional, additional |-> b.additional,
           deposit |-> IF Live(s) = {} THEN 0 ELSE b.deposit]
  BY RecomputedIs
<1>2. c \in BillType
  BY RecomputedType
<1> HIDE DEF c
<1>3. Recomputed(c, s, r) =
        [total |-> t + c.additional, additional |-> c.additional,
         deposit |-> IF Live(s) = {} THEN 0 ELSE c.deposit]
  BY <1>2, RecomputedIs
<1> HIDE DEF t
<1>4. c.additional = b.additional
      /\ c.deposit = IF Live(s) = {} THEN 0 ELSE b.deposit
  BY <1>1
<1>5. Recomputed(c, s, r) = c
  BY <1>1, <1>3, <1>4
<1> QED
  BY <1>5 DEF c
-----------------------------------------------------------------------------
(* The invariant: steps that change no row *)

\* The two halves of the type invariant: the rows, and the requests.
RowsTyped ==
    /\ order \in {"none", "draft", "confirmed", "cancelled"}
    /\ item \in [Items -> Statuses \cup {"absent"}]
    /\ rent \in [Items -> Nat] /\ bill \in BillType
    /\ damage \in [Items -> Nat]
    /\ ledger \in Ledgers /\ paymentStatus \in PaymentStatuses
    /\ settlement \in [Items -> Settlements]

RequestsTyped ==
    /\ step \in [Requests -> {"idle", "loaded", "counted", "ready"}]
    /\ seen \in [Requests -> LoadType]
    /\ write \in [Requests -> WriteType]
    /\ overtaken \subseteq {q \in Requests : step[q] # "idle"}
    /\ begun \in Nat

\* The type invariant is the two halves, ...
LEMMA TypeHalves == TypeOK <=> RowsTyped /\ RequestsTyped
  BY Zenon DEF TypeOK, RowsTyped, RequestsTyped

\* ... now and after the step.
LEMMA TypeHalvesNext == TypeOK' <=> RowsTyped' /\ RequestsTyped'
  BY Zenon DEF TypeOK, RowsTyped, RequestsTyped

\* What a request looked at is still so if neither it nor the rows changed.
LEMMA StillSoSame ==
    ASSUME NEW p, UNCHANGED records,
           seen'[p] = seen[p], write'[p] = write[p], step'[p] = step[p]
    PROVE  StillSo(p)' <=> StillSo(p)
<1>1. /\ order' = order /\ item' = item /\ ledger' = ledger
      /\ settlement' = settlement
  BY DEF records, money
<1>2. Admits(seen[p].op, seen[p].item)' <=> Admits(seen[p].op, seen[p].item)
  BY <1>1 DEF Admits, Out
<1>3. LastOut(p)' <=> LastOut(p)
  BY <1>1 DEF LastOut
<1>4. ReturnRows(p)' = ReturnRows(p)
  BY <1>1, <1>3 DEF ReturnRows
<1> QED
  BY <1>1, <1>2, <1>4 DEF StillSo

\* A step of one request that changes no row keeps the invariant, as long as
\* that request stays well formed and what it holds is what there is.
LEMMA QuietStep ==
    ASSUME CounterInv, UNCHANGED records, RequestsTyped', NEW q \in Requests,
           \A p \in Requests \ {q} : seen'[p] = seen[p],
           \A p \in Requests \ {q} : write'[p] = write[p],
           \A p \in Requests \ {q} : step'[p] = step[p],
           \A p \in Requests \ {q} : p \in overtaken => p \in overtaken',
           AtWork(q)' => seen'[q].op # "none",
           AtWork(q)' => seen'[q].order \in {"draft", "confirmed", "cancelled"},
           ~AtWork(q)' => seen'[q] = NoLoad,
           seen'[q].op = "add" => item[seen'[q].item] = "absent",
           seen'[q].op = "add" => \A p \in Requests \ {q} :
              ~(seen[p].op = "add" /\ seen[p].item = seen'[q].item),
           AtWork(q)' /\ q \notin overtaken' => StillSo(q)'
    PROVE  CounterInv'
<1>1. /\ order' = order /\ item' = item /\ rent' = rent /\ bill' = bill
      /\ damage' = damage /\ ledger' = ledger /\ paymentStatus' = paymentStatus
      /\ settlement' = settlement
  BY DEF records, money
<1>2. TypeOK'
  <2>1. RowsTyped'
    BY <1>1, TypeHalves DEF CounterInv, RowsTyped
  <2> QED
    BY <2>1, TypeHalvesNext
<1>3. GoneIsEmpty'
  BY <1>1 DEF CounterInv, GoneIsEmpty
<1>4. LoadedOrders'
  <2> SUFFICES ASSUME NEW p \in Requests
               PROVE  /\ AtWork(p)' => /\ seen'[p].op # "none"
                                       /\ seen'[p].order \in {"draft", "confirmed", "cancelled"}
                      /\ ~AtWork(p)' => seen'[p] = NoLoad
    BY DEF LoadedOrders, AtWork
  <2>1. CASE p = q
    BY <2>1
  <2>2. CASE p # q
    BY <2>2 DEF CounterInv, LoadedOrders, AtWork
  <2> QED
    BY <2>1, <2>2
<1>5. AddsAlone'
  <2> SUFFICES ASSUME NEW p \in Requests, seen'[p].op = "add"
               PROVE  /\ item'[seen'[p].item] = "absent"
                      /\ \A u \in Requests \ {p} :
                            ~(seen'[u].op = "add" /\ seen'[u].item = seen'[p].item)
    BY DEF AddsAlone
  <2>1. CASE p = q
    BY <1>1, <2>1
  <2>2. CASE p # q
    <3>1. seen'[p] = seen[p]
      BY <2>2
    <3>2. /\ item[seen[p].item] = "absent"
          /\ \A u \in Requests \ {p} :
                ~(seen[u].op = "add" /\ seen[u].item = seen[p].item)
      BY <3>1 DEF CounterInv, AddsAlone
    <3>3. ~(seen'[q].op = "add" /\ seen'[q].item = seen'[p].item)
      BY <2>2, <3>1
    <3> QED
      BY <1>1, <3>1, <3>2, <3>3
  <2> QED
    BY <2>1, <2>2
<1>6. FreshIsStillSo'
  <2> SUFFICES ASSUME NEW p \in Requests, AtWork(p)', p \notin overtaken'
               PROVE  StillSo(p)'
    BY DEF FreshIsStillSo
  <2>1. CASE p = q
    BY <2>1
  <2>2. CASE p # q
    <3>1. /\ seen'[p] = seen[p] /\ write'[p] = write[p] /\ step'[p] = step[p]
          /\ p \notin overtaken
      BY <2>2
    <3>2. StillSo(p)
      BY <3>1 DEF CounterInv, FreshIsStillSo, AtWork
    <3> QED
      BY <3>1, <3>2, StillSoSame
  <2> QED
    BY <2>1, <2>2
<1> QED
  BY <1>2, <1>3, <1>4, <1>5, <1>6 DEF CounterInv

\* At the start there is no order and nobody at work.
LEMMA InitInv == Init => CounterInv
<1> SUFFICES ASSUME Init PROVE CounterInv
  OBVIOUS
<1>1. NoLoad \in LoadType /\ NoLoad.op = "none" /\ NoWrite \in WriteType
      /\ NoBill \in BillType /\ EmptyLedger \in Ledgers
  BY NothingType, EmptyIsLedger
<1>2. RowsTyped
  BY <1>1 DEF Init, RowsTyped, NotSettled, Settlements, PaymentStatuses
<1>3. RequestsTyped
  BY <1>1 DEF Init, RequestsTyped
<1>4. TypeOK
  BY <1>2, <1>3, TypeHalves
<1>5. GoneIsEmpty
  BY DEF Init, GoneIsEmpty
<1>6. \A q \in Requests : ~AtWork(q) /\ seen[q] = NoLoad
  BY DEF Init, AtWork
<1>7. LoadedOrders /\ AddsAlone /\ FreshIsStillSo
  BY <1>1, <1>6 DEF LoadedOrders, AddsAlone, FreshIsStillSo
<1> QED
  BY <1>4, <1>5, <1>7 DEF CounterInv

\* A load: what it has seen is what there is.
LEMMA LoadKeepsInv ==
    ASSUME CounterInv, NEW q \in Requests, NEW op \in Handlers, NEW i \in Items,
           Load(q, op, i)
    PROVE  CounterInv'
<1> DEFINE load == [op |-> op, item |-> i, order |-> order,
                    bill   |-> IF op \in Billed THEN bill ELSE NoBill,
                    damage |-> IF op \in {"payment", "refund"} THEN Damage(damage)
                               ELSE 0,
                    rent   |-> IF op = "return" THEN rent[i] ELSE 0,
                    ledger |-> EmptyLedger]
<1>1. /\ step[q] = "idle" /\ order # "none" /\ begun' = begun + 1
      /\ Admits(op, i)
      /\ step' = [step EXCEPT ![q] = "loaded"]
      /\ seen' = [seen EXCEPT ![q] = load]
      /\ UNCHANGED records /\ write' = write /\ overtaken' = overtaken
  BY Zenon DEF Load
<1>2. op = "add" => \A p \in Requests : ~(seen[p].op = "add" /\ seen[p].item = i)
  BY DEF Load
<1>3. RowsTyped /\ RequestsTyped
  BY TypeHalves DEF CounterInv
<1>4. load \in LoadType
  <2>1. /\ NoBill \in BillType /\ EmptyLedger \in Ledgers /\ Damage(damage) \in Nat
        /\ bill \in BillType /\ rent[i] \in Nat
        /\ order \in Statuses \cup {"none"}
    BY <1>3, NothingType, EmptyIsLedger, DamageType DEF RowsTyped, Statuses
  <2> QED
    BY <2>1 DEF LoadType
<1>5. load.op = op /\ load.item = i /\ load.order = order
  OBVIOUS
<1> HIDE DEF load
<1>6. /\ seen'[q] = load /\ step'[q] = "loaded"
      /\ \A p \in Requests \ {q} : seen'[p] = seen[p] /\ step'[p] = step[p]
  BY <1>1, <1>3 DEF RequestsTyped
<1>7. RequestsTyped'
  <2>1. seen' \in [Requests -> LoadType]
    BY <1>1, <1>3, <1>4 DEF RequestsTyped
  <2>2. step' \in [Requests -> {"idle", "loaded", "counted", "ready"}]
    BY <1>1, <1>3 DEF RequestsTyped
  <2>3. overtaken' \subseteq {p \in Requests : step'[p] # "idle"}
    BY <1>1, <1>3, <1>6 DEF RequestsTyped
  <2> QED
    BY <1>1, <1>3, <2>1, <2>2, <2>3 DEF RequestsTyped
<1>8. op = "add" => item[i] = "absent"
  BY <1>1 DEF Admits
<1>9. op # "none"
  BY DEF Handlers
<1>10. order \in {"draft", "confirmed", "cancelled"}
  BY <1>1, <1>3 DEF RowsTyped
<1>11. StillSo(q)'
  <2>1. order' = order /\ item' = item /\ settlement' = settlement
    BY <1>1 DEF records, money
  <2>2. Admits(op, i)'
    BY <1>1, <2>1 DEF Admits, Out
  <2> QED
    BY <1>5, <1>6, <2>1, <2>2 DEF StillSo
<1> QED
  BY <1>1, <1>2, <1>5, <1>6, <1>7, <1>8, <1>9, <1>10, <1>11, QuietStep DEF AtWork

\* A read that goes for the order's row, with what it is going to write there.
LEMMA PrepareKeepsInv ==
    ASSUME CounterInv, NEW q \in Requests, AtWork(q), NEW w \in WriteType,
           Prepare(q, w),
           seen[q].op = "return" /\ q \notin overtaken => w.rows = ReturnRows(q)'
    PROVE  CounterInv'
<1>1. /\ step' = [step EXCEPT ![q] = "ready"]
      /\ write' = [write EXCEPT ![q] = w]
      /\ UNCHANGED records /\ seen' = seen /\ overtaken' = overtaken
      /\ begun' = begun
  BY Zenon DEF Prepare
<1>2. RowsTyped /\ RequestsTyped
  BY TypeHalves DEF CounterInv
<1>3. /\ write'[q] = w /\ step'[q] = "ready"
      /\ \A p \in Requests \ {q} : write'[p] = write[p] /\ step'[p] = step[p]
  BY <1>1, <1>2 DEF RequestsTyped
<1>4. RequestsTyped'
  <2>1. write' \in [Requests -> WriteType]
    BY <1>1, <1>2 DEF RequestsTyped
  <2>2. step' \in [Requests -> {"idle", "loaded", "counted", "ready"}]
    BY <1>1, <1>2 DEF RequestsTyped
  <2>3. overtaken' \subseteq {p \in Requests : step'[p] # "idle"}
    BY <1>1, <1>2, <1>3 DEF RequestsTyped
  <2> QED
    BY <1>1, <1>2, <2>1, <2>2, <2>3 DEF RequestsTyped
<1>5. /\ seen[q].op # "none"
      /\ seen[q].order \in {"draft", "confirmed", "cancelled"}
  BY DEF CounterInv, LoadedOrders
<1>6. seen[q].op = "add" =>
        /\ item[seen[q].item] = "absent"
        /\ \A p \in Requests \ {q} : ~(seen[p].op = "add" /\ seen[p].item = seen[q].item)
  BY DEF CounterInv, AddsAlone
<1>7. ASSUME q \notin overtaken PROVE StillSo(q)'
  <2>1. StillSo(q)
    BY <1>7 DEF CounterInv, FreshIsStillSo
  <2>2. order' = order /\ item' = item /\ settlement' = settlement
    BY <1>1 DEF records, money
  <2>3. Admits(seen[q].op, seen[q].item)'
    BY <1>1, <2>1, <2>2 DEF Admits, Out, StillSo
  <2> QED
    BY <1>1, <1>3, <1>7, <2>1, <2>2, <2>3 DEF StillSo
<1> QED
  BY <1>1, <1>3, <1>4, <1>5, <1>6, <1>7, QuietStep DEF AtWork

\* returnBooking's first read: the ledger it keeps is the ledger there is.
LEMMA CountKeepsInv ==
    ASSUME CounterInv, NEW q \in Requests, NEW charge \in Nat, ReadReturn(q, charge)
    PROVE  CounterInv'
<1> DEFINE d == Damage(damage) + charge
           y == [seen[q] EXCEPT !.ledger = ledger, !.damage = d]
<1>1. /\ step[q] = "loaded" /\ seen[q].op = "return"
      /\ step' = [step EXCEPT ![q] = "counted"]
      /\ write' = [write EXCEPT ![q].charge = charge]
      /\ seen' = [seen EXCEPT ![q].ledger = ledger, ![q].damage = d]
      /\ UNCHANGED records /\ overtaken' = overtaken /\ begun' = begun
  BY Zenon DEF ReadReturn, Doing
<1>2. RowsTyped /\ RequestsTyped
  BY TypeHalves DEF CounterInv
<1>3. d \in Nat /\ ledger \in Ledgers
  BY <1>2, DamageType DEF RowsTyped
<1> HIDE DEF d
<1>4. /\ seen[q] \in LoadType /\ write[q] \in WriteType
  BY <1>2 DEF RequestsTyped
<1>5. /\ y \in LoadType
      /\ y.op = "return" /\ y.item = seen[q].item /\ y.order = seen[q].order
      /\ y.ledger = ledger
  <2>1. /\ y \in LoadType
        /\ y.op = seen[q].op /\ y.item = seen[q].item /\ y.order = seen[q].order
        /\ y.ledger = ledger
    BY <1>3, <1>4 DEF LoadType
  <2> QED
    BY <1>1, <2>1
<1>6. /\ seen'[q] = y
      /\ \A p \in Requests \ {q} : seen'[p] = seen[p]
  BY <1>1, <1>2 DEF RequestsTyped
<1> HIDE DEF y
<1>7. /\ write'[q] = [write[q] EXCEPT !.charge = charge]
      /\ step'[q] = "counted"
      /\ \A p \in Requests \ {q} : write'[p] = write[p] /\ step'[p] = step[p]
  BY <1>1, <1>2 DEF RequestsTyped
<1>8. write'[q] \in WriteType
  BY <1>4, <1>7 DEF WriteType
<1>9. RequestsTyped'
  <2>1. seen' \in [Requests -> LoadType]
    BY <1>1, <1>2, <1>5, <1>6 DEF RequestsTyped
  <2>2. write' \in [Requests -> WriteType]
    BY <1>1, <1>2, <1>7, <1>8 DEF RequestsTyped
  <2>3. step' \in [Requests -> {"idle", "loaded", "counted", "ready"}]
    BY <1>1, <1>2 DEF RequestsTyped
  <2>4. overtaken' \subseteq {p \in Requests : step'[p] # "idle"}
    BY <1>1, <1>2, <1>7 DEF RequestsTyped
  <2> QED
    BY <1>1, <1>2, <2>1, <2>2, <2>3, <2>4 DEF RequestsTyped
<1>10. seen[q].order \in {"draft", "confirmed", "cancelled"}
  BY <1>1 DEF CounterInv, LoadedOrders, AtWork
<1>11. ASSUME q \notin overtaken PROVE StillSo(q)'
  <2>1. StillSo(q)
    BY <1>1, <1>11 DEF CounterInv, FreshIsStillSo, AtWork
  <2>2. order' = order /\ item' = item /\ settlement' = settlement
        /\ ledger' = ledger
    BY <1>1 DEF records, money
  <2>3. Admits("return", seen[q].item)'
    <3>1. item[seen[q].item] # "returned" /\ CanTransition(item[seen[q].item], "returned")
      BY <1>1, <2>1 DEF Admits, StillSo
    <3> QED
      BY <1>5, <1>6, <2>2, <3>1 DEF Admits
  <2> QED
    BY <1>5, <1>6, <1>7, <2>1, <2>2, <2>3 DEF StillSo
<1> QED
  BY <1>1, <1>5, <1>6, <1>7, <1>9, <1>10, <1>11, QuietStep DEF AtWork

\* What recordPayment posts is a row or two, in or out.
LEMMA ReadPaymentKeepsInv ==
    ASSUME CounterInv, NEW q \in Requests, ReadPayment(q)
    PROVE  CounterInv'
<1> DEFINE dep == seen[q].bill.deposit
           due == seen[q].bill.total + seen[q].damage
<1>1. RowsTyped /\ RequestsTyped
  BY TypeHalves DEF CounterInv
<1>2. dep \in Nat /\ due \in Nat /\ ledger \in Ledgers
  BY <1>1 DEF RowsTyped, RequestsTyped, LoadType, BillType
<1> DEFINE b == Balances(ledger, due, dep)
<1>3. b.rent \in Int /\ b.deposit \in Int
  <2> HIDE DEF due, dep
  <2>1. due - RentCollected(ledger) \in Int /\ dep - ledger["security_deposit"] \in Int
    BY <1>2, LedgerNat
  <2> QED
    BY <2>1, NettedOneSided DEF Balances
<1>4. PICK rows \in Inflows(b) \cup Outflows(ledger) :
         /\ Prepare(q, Posting(ledger, rows, due, dep))
         /\ step[q] = "loaded" /\ seen[q].op \in {"payment", "refund"}
  BY DEF ReadPayment, Doing
<1> HIDE DEF b, due, dep
<1>5. rows \in Ledgers
  BY <1>3, InflowsType, OutflowsType
<1>6. Posting(ledger, rows, due, dep) \in WriteType
  BY <1>5, PostingType
<1> QED
  BY <1>4, <1>6, PrepareKeepsInv DEF AtWork

\* confirmPickup posts what the clerk collects.
LEMMA ReadPickupKeepsInv ==
    ASSUME CounterInv, NEW q \in Requests, NEW paid \in Nat, NEW depositPaid \in Nat,
           NEW allow, ReadPickup(q, paid, depositPaid, allow)
    PROVE  CounterInv'
<1> DEFINE rows == Plus(Row("balance", paid), Row("security_deposit", depositPaid))
           dep == seen[q].bill.deposit
           due == seen[q].bill.total + Damage(damage)
<1>1. /\ step[q] = "loaded" /\ seen[q].op = "pickup"
      /\ Prepare(q, Posting(ledger, rows, due, dep))
  BY Zenon DEF ReadPickup, Doing
<1>2. "balance" \in PaymentTypes /\ "security_deposit" \in PaymentTypes
  BY DEF PaymentTypes
<1>3. rows \in Ledgers
  BY <1>2, RowType, PlusType
<1> HIDE DEF rows, due, dep
<1>4. Posting(ledger, rows, due, dep) \in WriteType
  BY <1>3, PostingType
<1> QED
  BY <1>1, <1>4, PrepareKeepsInv DEF AtWork

\* What a return takes of a deposit and hands back of it is rows, and never
\* more than is held.
LEMMA ReturnRowsType ==
    ASSUME NEW held \in Nat, NEW charge \in Nat, NEW last \in BOOLEAN
    PROVE  LET applied == Lesser(charge, held)
               rows    == Post(Row("deposit_applied", applied), "deposit_release",
                               IF last THEN held - applied ELSE 0)
           IN  /\ rows \in Ledgers
               /\ applied \in Nat /\ held - applied \in Nat
               /\ rows["deposit_applied"] = applied
               /\ rows["deposit_release"] = IF last THEN held - applied ELSE 0
               /\ \A t \in PaymentTypes \ {"deposit_applied", "deposit_release"} :
                     rows[t] = 0
<1> DEFINE applied == Lesser(charge, held)
           back == IF last THEN held - applied ELSE 0
           one  == Row("deposit_applied", applied)
           rows == Post(one, "deposit_release", back)
<1>1. applied \in Nat /\ held - applied \in Nat
  BY DEF Lesser
<1> HIDE DEF applied
<1>2. back \in Nat
  BY <1>1
<1>3. {"deposit_applied", "deposit_release"} \subseteq PaymentTypes
  BY DEF PaymentTypes
<1>4. /\ one \in Ledgers /\ one["deposit_applied"] = applied
      /\ \A t \in PaymentTypes \ {"deposit_applied"} : one[t] = 0
  BY <1>1, <1>3, RowType
<1> HIDE DEF one, back
<1>5. /\ rows \in Ledgers
      /\ rows["deposit_release"] = one["deposit_release"] + back
      /\ \A t \in PaymentTypes \ {"deposit_release"} : rows[t] = one[t]
  BY <1>2, <1>3, <1>4, PostType
<1> HIDE DEF rows
<1>6. /\ rows["deposit_release"] = back
      /\ rows["deposit_applied"] = applied
      /\ \A t \in PaymentTypes \ {"deposit_applied", "deposit_release"} : rows[t] = 0
  BY <1>2, <1>3, <1>4, <1>5
<1> QED
  BY <1>1, <1>5, <1>6 DEF rows, one, back, applied

\* returnBooking's second read: a return nobody committed in front of takes
\* and hands back of the deposit what is held of it now.
LEMMA SiblingsKeepsInv ==
    ASSUME CounterInv, NEW q \in Requests, ReadSiblings(q)
    PROVE  CounterInv'
<1> DEFINE load == seen[q]
           held == DepositHeld(load.ledger)
           applied == Lesser(write[q].charge, held)
           rows == Post(Row("deposit_applied", applied), "deposit_release",
                        IF LastOut(q) THEN held - applied ELSE 0)
           posting == Posting(load.ledger, rows, load.bill.total + load.damage,
                              load.bill.deposit)
           w == [posting EXCEPT !.charge = write[q].charge]
<1>1. step[q] = "counted" /\ load.op = "return" /\ Prepare(q, w)
  BY Zenon DEF ReadSiblings, Doing, LastOut
<1>2. RowsTyped /\ RequestsTyped
  BY TypeHalves DEF CounterInv
<1>3. load.ledger \in Ledgers /\ write[q].charge \in Nat
  BY <1>2 DEF RequestsTyped, LoadType, WriteType
<1>4. rows \in Ledgers
  <2>1. held \in Nat /\ LastOut(q) \in BOOLEAN
    BY <1>3, LedgerNat DEF LastOut
  <2> HIDE DEF held, load
  <2> QED
    BY <1>3, <2>1, ReturnRowsType
<1>5. posting \in WriteType /\ posting.rows = rows
  <2> HIDE DEF rows
  <2> QED
    BY <1>4, PostingType
<1>6. w \in WriteType /\ w.rows = rows /\ w.charge = write[q].charge
  <2> HIDE DEF posting, rows
  <2> QED
    BY <1>3, <1>5 DEF WriteType
<1>7. ASSUME q \notin overtaken PROVE w.rows = ReturnRows(q)'
  <2>1. load.ledger = ledger
    BY <1>1, <1>7 DEF CounterInv, FreshIsStillSo, StillSo, AtWork
  <2>2. /\ ledger' = ledger /\ item' = item /\ seen' = seen
    BY <1>1 DEF Prepare, records, money
  <2>3. write'[q] = w
    BY <1>1, <1>2 DEF Prepare, RequestsTyped
  <2>4. LastOut(q)' <=> LastOut(q)
    BY <2>2 DEF LastOut
  <2> HIDE DEF w, posting
  <2>5. ReturnRows(q)' = rows
    BY <1>6, <2>1, <2>2, <2>3, <2>4 DEF ReturnRows
  <2> QED
    BY <1>6, <2>5
<1> HIDE DEF w
<1> QED
  BY <1>1, <1>6, <1>7, PrepareKeepsInv DEF AtWork

\* The three handlers that read order and items for a new total.
LEMMA ReadTotalKeepsInv ==
    ASSUME CounterInv, NEW q \in Requests, AtWork(q), seen[q].op # "return",
           NEW s, NEW r \in [Items -> Nat], ReadTotal(q, s, r)
    PROVE  CounterInv'
<1> DEFINE b == Recomputed(bill, s, r)
           w == [NoWrite EXCEPT !.bill = b, !.rent = r[seen[q].item]]
<1>1. RowsTyped /\ RequestsTyped
  BY TypeHalves DEF CounterInv
<1>2. b \in BillType
  BY <1>1, RecomputedType DEF RowsTyped
<1>3. r[seen[q].item] \in Nat
  BY <1>1 DEF RequestsTyped, LoadType
<1>4. Prepare(q, w)
  BY DEF ReadTotal
<1> HIDE DEF b
<1>5. w \in WriteType
  BY <1>2, <1>3, NothingType DEF WriteType
<1> HIDE DEF w
<1> QED
  BY <1>4, <1>5, PrepareKeepsInv

\* Every read keeps the invariant.
LEMMA ReadKeepsInv ==
    ASSUME CounterInv, NEW q \in Requests, Read(q)
    PROVE  CounterInv'
<1>0. RowsTyped /\ RequestsTyped /\ Rents \subseteq Nat /\ Charges \subseteq Nat
  BY TypeHalves, CounterAssumption DEF CounterInv, Charges
<1>1. CASE ReadPayment(q)
  BY <1>1, ReadPaymentKeepsInv
<1>2. ASSUME NEW paid \in Charges, NEW depositPaid \in Charges, NEW allow \in BOOLEAN,
             ReadPickup(q, paid, depositPaid, allow)
      PROVE  CounterInv'
  BY <1>0, <1>2, ReadPickupKeepsInv
<1>3. ASSUME NEW charge \in Charges, ReadReturn(q, charge)
      PROVE  CounterInv'
  BY <1>0, <1>3, CountKeepsInv
<1>4. CASE ReadSiblings(q)
  BY <1>4, SiblingsKeepsInv
<1>5. ASSUME NEW r \in Rents, ReadUpdate(q, r)
      PROVE  CounterInv'
  <2>1. [rent EXCEPT ![seen[q].item] = r] \in [Items -> Nat]
    BY <1>0 DEF RowsTyped
  <2> QED
    BY <1>5, <2>1, ReadTotalKeepsInv DEF ReadUpdate, Doing, AtWork
<1>6. ASSUME NEW r \in Rents, ReadAdd(q, r)
      PROVE  CounterInv'
  <2>1. [rent EXCEPT ![seen[q].item] = r] \in [Items -> Nat]
    BY <1>0 DEF RowsTyped
  <2> QED
    BY <1>6, <2>1, ReadTotalKeepsInv DEF ReadAdd, Doing, AtWork
<1>7. CASE ReadCancelItem(q)
  BY <1>0, <1>7, ReadTotalKeepsInv DEF ReadCancelItem, Doing, AtWork, RowsTyped
<1> QED
  BY <1>1, <1>2, <1>3, <1>4, <1>5, <1>6, <1>7 DEF Read

\* A request that leaves has loaded nothing any more, and the others are as
\* they were.
LEMMA LeaveType ==
    ASSUME RequestsTyped, NEW q \in Requests, Leave(q), begun' = begun,
           overtaken' \subseteq {p \in Requests \ {q} : step[p] # "idle"}
    PROVE  /\ RequestsTyped'
           /\ step'[q] = "idle" /\ seen'[q] = NoLoad
           /\ \A p \in Requests \ {q} : step'[p] = step[p]
           /\ \A p \in Requests \ {q} : seen'[p] = seen[p]
           /\ \A p \in Requests \ {q} : write'[p] = write[p]
<1>1. /\ step' = [step EXCEPT ![q] = "idle"]
      /\ seen' = [seen EXCEPT ![q] = NoLoad]
      /\ write' = [write EXCEPT ![q] = NoWrite]
  BY DEF Leave
<1>2. NoLoad \in LoadType /\ NoWrite \in WriteType
  BY NothingType
<1>3. /\ step'[q] = "idle" /\ seen'[q] = NoLoad
      /\ \A p \in Requests \ {q} : step'[p] = step[p]
      /\ \A p \in Requests \ {q} : seen'[p] = seen[p]
      /\ \A p \in Requests \ {q} : write'[p] = write[p]
  BY <1>1 DEF RequestsTyped
<1>4. /\ step' \in [Requests -> {"idle", "loaded", "counted", "ready"}]
      /\ seen' \in [Requests -> LoadType]
      /\ write' \in [Requests -> WriteType]
  BY <1>1, <1>2 DEF RequestsTyped
<1>5. overtaken' \subseteq {p \in Requests : step'[p] # "idle"}
  BY <1>3
<1>6. begun' \in Nat
  BY DEF RequestsTyped
<1> QED
  BY <1>3, <1>4, <1>5, <1>6 DEF RequestsTyped

\* Refused or undone: the order is as it was.
LEMMA GiveUpKeepsInv ==
    ASSUME CounterInv, NEW q \in Requests, GiveUp(q)
    PROVE  CounterInv'
<1>1. /\ Leave(q) /\ overtaken' = overtaken \ {q} /\ UNCHANGED records /\ begun' = begun
  BY DEF GiveUp
<1>2. RequestsTyped
  BY TypeHalves DEF CounterInv
<1>3. overtaken' \subseteq {p \in Requests \ {q} : step[p] # "idle"}
  BY <1>1, <1>2 DEF RequestsTyped
<1>4. /\ RequestsTyped' /\ step'[q] = "idle" /\ seen'[q] = NoLoad
      /\ \A p \in Requests \ {q} : step'[p] = step[p]
      /\ \A p \in Requests \ {q} : seen'[p] = seen[p]
      /\ \A p \in Requests \ {q} : write'[p] = write[p]
  BY <1>1, <1>2, <1>3, LeaveType
<1>5. seen'[q].op = "none"
  BY <1>4, NothingType
<1> QED
  BY <1>1, <1>4, <1>5, QuietStep DEF AtWork
-----------------------------------------------------------------------------
(* The invariant: commits *)

\* After a commit everybody else at work has been overtaken, so all that is
\* left to show is that the rows are rows, that an order that is gone has no
\* lines, and that only an addition brings in a line.
LEMMA AfterCommit ==
    ASSUME CounterInv, NEW q \in Requests, Commits(q), RowsTyped', GoneIsEmpty',
           \A i \in Items : item[i] = "absent" /\ item'[i] # "absent"
                              => seen[q].op = "add" /\ seen[q].item = i
    PROVE  CounterInv'
<1>1. /\ Leave(q) /\ overtaken' = {p \in Requests \ {q} : step[p] # "idle"}
      /\ begun' = begun
  BY DEF Commits
<1>2. RequestsTyped
  BY TypeHalves DEF CounterInv
<1>3. /\ RequestsTyped' /\ step'[q] = "idle" /\ seen'[q] = NoLoad
      /\ \A p \in Requests \ {q} : step'[p] = step[p]
      /\ \A p \in Requests \ {q} : seen'[p] = seen[p]
  BY <1>1, <1>2, LeaveType
<1>4. TypeOK'
  BY <1>3, TypeHalvesNext
<1>5. seen'[q].op = "none"
  BY <1>3, NothingType
<1>6. LoadedOrders'
  <2> SUFFICES ASSUME NEW p \in Requests
               PROVE  /\ step'[p] # "idle" =>
                            /\ seen'[p].op # "none"
                            /\ seen'[p].order \in {"draft", "confirmed", "cancelled"}
                      /\ ~(step'[p] # "idle") => seen'[p] = NoLoad
    BY DEF LoadedOrders, AtWork
  <2>1. CASE p = q
    BY <1>3, <2>1
  <2>2. CASE p # q
    BY <1>3, <2>2 DEF CounterInv, LoadedOrders, AtWork
  <2> QED
    BY <2>1, <2>2
<1>7. AddsAlone'
  <2> SUFFICES ASSUME NEW p \in Requests, seen'[p].op = "add"
               PROVE  /\ item'[seen'[p].item] = "absent"
                      /\ \A u \in Requests \ {p} :
                            ~(seen'[u].op = "add" /\ seen'[u].item = seen'[p].item)
    BY DEF AddsAlone
  <2>1. p # q /\ seen'[p] = seen[p]
    BY <1>3, <1>5
  <2>2. /\ item[seen[p].item] = "absent"
        /\ \A u \in Requests \ {p} :
              ~(seen[u].op = "add" /\ seen[u].item = seen[p].item)
    BY <2>1 DEF CounterInv, AddsAlone
  <2>3. seen[p].item \in Items
    BY <1>2 DEF RequestsTyped, LoadType
  <2>4. item'[seen[p].item] = "absent"
    BY <2>1, <2>2, <2>3
  <2>5. ASSUME NEW u \in Requests \ {p}
        PROVE  ~(seen'[u].op = "add" /\ seen'[u].item = seen[p].item)
    BY <1>3, <1>5, <2>2
  <2> QED
    BY <2>1, <2>4, <2>5
<1>8. FreshIsStillSo'
  BY <1>1, <1>3 DEF FreshIsStillSo, AtWork
<1> QED
  BY <1>4, <1>6, <1>7, <1>8 DEF CounterInv

\* What is posted is on the ledger, and the status with it.
LEMMA PostRowsType ==
    ASSUME CounterInv, NEW q \in Requests, PostRows(q)
    PROVE  /\ ledger' \in Ledgers /\ paymentStatus' \in PaymentStatuses
           /\ \A t \in PaymentTypes : ledger'[t] = ledger[t] + write[q].rows[t]
<1>1. ledger \in Ledgers /\ write[q] \in WriteType
  BY TypeHalves DEF CounterInv, RowsTyped, RequestsTyped
<1>2. write[q].rows \in Ledgers /\ write[q].shows \in PaymentStatuses
  BY <1>1 DEF WriteType
<1>3. ledger' = Plus(ledger, write[q].rows) /\ paymentStatus' = write[q].shows
  BY DEF PostRows
<1> QED
  BY <1>1, <1>2, <1>3, PlusType

\* recordPayment writes the status it has loaded.
LEMMA PaymentKeepsInv ==
    ASSUME CounterInv, NEW q \in Requests, CommitPayment(q)
    PROVE  CounterInv'
<1>1. /\ step[q] = "ready" /\ order # "none" /\ PostRows(q)
      /\ order' \in {"confirmed", seen[q].order}
      /\ UNCHANGED <<rent, bill, damage, settlement>>
      /\ Commits(q)
  BY DEF CommitPayment
<1>2. PICK drafts \in SUBSET {i \in Items : item[i] = "draft"} :
         item' = [i \in Items |-> IF i \in drafts THEN "confirmed" ELSE item[i]]
  BY DEF CommitPayment
<1>3. RowsTyped
  BY TypeHalves DEF CounterInv
<1>4. seen[q].order \in {"draft", "confirmed", "cancelled"}
  BY <1>1 DEF CounterInv, LoadedOrders, AtWork
<1>5. /\ item' \in [Items -> Statuses \cup {"absent"}]
      /\ \A i \in Items : item[i] = "absent" => item'[i] = "absent"
  BY <1>2, <1>3 DEF RowsTyped, Statuses
<1>6. RowsTyped'
  BY <1>1, <1>3, <1>4, <1>5, PostRowsType DEF RowsTyped
<1>7. GoneIsEmpty'
  BY <1>1, <1>4 DEF GoneIsEmpty
<1> QED
  BY <1>1, <1>5, <1>6, <1>7, AfterCommit

\* confirmPickup.
LEMMA PickupKeepsInv ==
    ASSUME CounterInv, NEW q \in Requests, CommitPickup(q)
    PROVE  CounterInv'
<1> DEFINE i == seen[q].item
<1>1. /\ item[i] # "absent" /\ PostRows(q)
      /\ item' = [item EXCEPT ![i] = "rented"]
      /\ UNCHANGED <<order, rent, bill, damage, settlement>>
      /\ Commits(q)
  BY DEF CommitPickup
<1>2. RowsTyped /\ i \in Items
  BY TypeHalves DEF CounterInv, RequestsTyped, LoadType
<1>3. /\ item' \in [Items -> Statuses \cup {"absent"}]
      /\ \A j \in Items : item[j] = "absent" => item'[j] = "absent"
  BY <1>1, <1>2 DEF RowsTyped, Statuses
<1>4. RowsTyped'
  BY <1>1, <1>2, <1>3, PostRowsType DEF RowsTyped
<1>5. GoneIsEmpty'
  BY <1>1, <1>2 DEF CounterInv, GoneIsEmpty
<1> QED
  BY <1>1, <1>3, <1>4, <1>5, AfterCommit

\* A settlement as a return opens it: pending, of that amount, and nothing is
\* paid on it.
LEMMA OpenedType ==
    ASSUME NEW a \in Nat
    PROVE  /\ Opened(a) \in Settlements
           /\ Opened(a).amount = a /\ Opened(a).status = "pending"
           /\ Opened(a).payouts = 0
  BY DEF Opened, Settlements

\* Paying one out keeps its amount and adds one payout.
LEMMA PaidOutType ==
    ASSUME NEW s \in Settlements
    PROVE  /\ PaidOut(s) \in Settlements
           /\ PaidOut(s).amount = s.amount /\ PaidOut(s).status = "paid"
<1> DEFINE Any == [status : {"none", "pending", "paid"}, amount : Nat, payouts : Nat]
<1>1. s \in Any
  BY DEF Settlements
<1>2. PaidOut(s) \in Any
  <2>1. s.payouts + 1 \in Nat /\ "paid" \in {"none", "pending", "paid"}
    BY <1>1
  <2> QED
    BY <1>1, <2>1 DEF PaidOut
<1>3. /\ PaidOut(s).status = "paid" /\ PaidOut(s).amount = s.amount
      /\ PaidOut(s).payouts = s.payouts + 1
  BY <1>1 DEF PaidOut
<1>4. PaidOut(s).payouts > 0
  BY <1>1, <1>3
<1> QED
  BY <1>2, <1>3, <1>4 DEF Settlements

\* Recording what an owner is owed.
LEMMA SettleType ==
    ASSUME RowsTyped, NEW i \in Items, NEW r \in Nat, Settle(i, r)
    PROVE  settlement' \in [Items -> Settlements]
<1>1. Lesser(Share, r) \in Nat
  BY CounterAssumption DEF Lesser
<1> DEFINE a == Lesser(Share, r)
<1> HIDE DEF a
<1>2. Opened(a) \in Settlements
  BY <1>1, OpenedType DEF a
<1>3. settlement' = settlement \/ settlement' = [settlement EXCEPT ![i] = Opened(a)]
  BY DEF Settle, Opened, a
<1> QED
  BY <1>2, <1>3 DEF RowsTyped

\* returnBooking.
LEMMA ReturnKeepsInv ==
    ASSUME CounterInv, NEW q \in Requests, CommitReturn(q)
    PROVE  CounterInv'
<1> DEFINE i == seen[q].item
<1>1. /\ item[i] # "absent" /\ PostRows(q)
      /\ item' = [item EXCEPT ![i] = "returned"]
      /\ damage' = [damage EXCEPT ![i] = write[q].charge]
      /\ Settle(i, seen[q].rent)
      /\ UNCHANGED <<order, rent, bill>>
      /\ Commits(q)
  BY DEF CommitReturn
<1>2. RowsTyped /\ i \in Items /\ seen[q].rent \in Nat /\ write[q].charge \in Nat
  BY TypeHalves DEF CounterInv, RequestsTyped, LoadType, WriteType
<1>3. /\ item' \in [Items -> Statuses \cup {"absent"}]
      /\ \A j \in Items : item[j] = "absent" => item'[j] = "absent"
  BY <1>1, <1>2 DEF RowsTyped, Statuses
<1>4. damage' \in [Items -> Nat]
  BY <1>1, <1>2 DEF RowsTyped
<1>5. settlement' \in [Items -> Settlements]
  <2> HIDE DEF i
  <2> QED
    BY <1>1, <1>2, SettleType
<1>6. RowsTyped'
  BY <1>1, <1>2, <1>3, <1>4, <1>5, PostRowsType DEF RowsTyped
<1>7. GoneIsEmpty'
  BY <1>1, <1>2 DEF CounterInv, GoneIsEmpty
<1> QED
  BY <1>1, <1>3, <1>6, <1>7, AfterCommit

\* What recomputeOrderTotal writes is a bill.
LEMMA WriteTotalType ==
    ASSUME CounterInv, NEW q \in Requests, WriteTotal(write[q].bill)
    PROVE  bill' \in BillType
<1>1. write[q].bill \in BillType /\ bill \in BillType
  BY TypeHalves DEF CounterInv, RowsTyped, RequestsTyped, WriteType
<1> QED
  BY <1>1 DEF WriteTotal, BillType

\* updateBookingItem and addBookingItem.
LEMMA UpdateKeepsInv ==
    ASSUME CounterInv, NEW q \in Requests, CommitUpdate(q) \/ CommitAdd(q)
    PROVE  CounterInv'
<1> DEFINE i == seen[q].item
<1>1. /\ rent' = [rent EXCEPT ![i] = write[q].rent]
      /\ WriteTotal(write[q].bill)
      /\ UNCHANGED <<order, damage, ledger, paymentStatus, settlement>>
      /\ Commits(q)
      /\ \/ item' = item
         \/ /\ seen[q].op = "add" /\ order # "none"
            /\ item' = [item EXCEPT ![i] = AddedAs(q)]
  BY DEF CommitUpdate, CommitAdd, Doing
<1>2. RowsTyped /\ i \in Items /\ write[q].rent \in Nat
  BY TypeHalves DEF CounterInv, RequestsTyped, LoadType, WriteType
<1>3. /\ item' \in [Items -> Statuses \cup {"absent"}]
      /\ \A j \in Items : item[j] = "absent" /\ item'[j] # "absent"
                            => seen[q].op = "add" /\ seen[q].item = j
  BY <1>1, <1>2 DEF RowsTyped, Statuses, AddedAs
<1>4. rent' \in [Items -> Nat]
  BY <1>1, <1>2 DEF RowsTyped
<1>5. RowsTyped'
  BY <1>1, <1>2, <1>3, <1>4, WriteTotalType DEF RowsTyped
<1>6. GoneIsEmpty'
  BY <1>1 DEF CounterInv, GoneIsEmpty
<1> QED
  BY <1>1, <1>3, <1>5, <1>6, AfterCommit

\* What a settlement of the order leaves: a ledger, nothing held, no rent
\* over-paid.
LEMMA SettlesOrder ==
    ASSUME CounterInv, bill' \in BillType, SettleCancelledOrder
    PROVE  /\ ledger' \in Ledgers /\ paymentStatus' \in PaymentStatuses
           /\ DepositHeld(ledger') = 0
           /\ RentCollected(ledger') <= bill'.total + Damage(damage)
<1> DEFINE p == bill'.total + Damage(damage)
<1>1. ledger \in Ledgers /\ damage \in [Items -> Nat]
  BY TypeHalves DEF CounterInv, RowsTyped
<1>2. p \in Int
  BY <1>1, DamageType DEF BillType
<1>3. /\ ledger' = Settled(ledger, p)
      /\ paymentStatus' \in {"unpaid", "refunded"}
  BY DEF SettleCancelledOrder
<1> HIDE DEF p
<1>4. /\ ledger' \in Ledgers /\ DepositHeld(ledger') = 0
      /\ RentCollected(ledger') <= p
  BY <1>1, <1>2, <1>3, SettledSquare
<1> QED
  BY <1>3, <1>4 DEF p, PaymentStatuses

\* cancelBookingItem.
LEMMA CancelItemKeepsInv ==
    ASSUME CounterInv, NEW q \in Requests, CommitCancelItem(q)
    PROVE  CounterInv'
<1> DEFINE i == seen[q].item
<1>1. /\ item[i] # "absent" /\ item' = [item EXCEPT ![i] = "cancelled"]
      /\ WriteTotal(write[q].bill)
      /\ \/ SettleCancelledOrder
         \/ UNCHANGED <<ledger, paymentStatus>>
      /\ UNCHANGED <<order, rent, damage, settlement>>
      /\ Commits(q)
  BY DEF CommitCancelItem
<1>2. RowsTyped /\ i \in Items
  BY TypeHalves DEF CounterInv, RequestsTyped, LoadType
<1>3. bill' \in BillType
  BY <1>1, WriteTotalType
<1>4. ledger' \in Ledgers /\ paymentStatus' \in PaymentStatuses
  BY <1>1, <1>2, <1>3, SettlesOrder DEF RowsTyped
<1>5. /\ item' \in [Items -> Statuses \cup {"absent"}]
      /\ \A j \in Items : item[j] = "absent" => item'[j] = "absent"
  BY <1>1, <1>2 DEF RowsTyped, Statuses
<1>6. RowsTyped'
  BY <1>1, <1>2, <1>3, <1>4, <1>5 DEF RowsTyped
<1>7. GoneIsEmpty'
  BY <1>1, <1>2 DEF CounterInv, GoneIsEmpty
<1> QED
  BY <1>1, <1>5, <1>6, <1>7, AfterCommit

\* updateBookingOrder.
LEMMA UpdateOrderKeepsInv ==
    ASSUME CounterInv, NEW q \in Requests, NEW fee \in Fees, CommitUpdateOrder(q, fee)
    PROVE  CounterInv'
<1> DEFINE b == [bill EXCEPT !.additional = fee]
<1>1. /\ bill' = Recomputed(b, item, rent)
      /\ UNCHANGED <<order, item, rent, damage, ledger, paymentStatus, settlement>>
      /\ Commits(q)
  BY DEF CommitUpdateOrder
<1>2. RowsTyped /\ fee \in Nat
  BY TypeHalves, CounterAssumption DEF CounterInv
<1>3. b \in BillType
  BY <1>2 DEF RowsTyped, BillType
<1> HIDE DEF b
<1>4. bill' \in BillType
  BY <1>1, <1>2, <1>3, RecomputedType DEF RowsTyped
<1>5. RowsTyped'
  BY <1>1, <1>2, <1>4 DEF RowsTyped
<1>6. GoneIsEmpty'
  BY <1>1 DEF CounterInv, GoneIsEmpty
<1> QED
  BY <1>1, <1>5, <1>6, AfterCommit

\* cancelBookingOrder.
LEMMA CancelOrderKeepsInv ==
    ASSUME CounterInv, NEW q \in Requests, CommitCancelOrder(q)
    PROVE  CounterInv'
<1> DEFINE ended == {i \in OnOrder(item) : CanTransition(item[i], "cancelled")}
<1>1. /\ order' = "cancelled"
      /\ item' = [i \in Items |-> IF i \in ended THEN "cancelled" ELSE item[i]]
      /\ bill' = Recomputed(bill, item', rent)
      /\ SettleCancelledOrder
      /\ UNCHANGED <<rent, damage, settlement>>
      /\ Commits(q)
  BY DEF CommitCancelOrder
<1>2. RowsTyped
  BY TypeHalves DEF CounterInv
<1>3. bill' \in BillType
  BY <1>1, <1>2, RecomputedType DEF RowsTyped
<1>4. ledger' \in Ledgers /\ paymentStatus' \in PaymentStatuses
  BY <1>1, <1>3, SettlesOrder
<1>5. \A i \in ended : item[i] # "absent"
  BY DEF OnOrder
<1> HIDE DEF ended
<1>6. /\ item' \in [Items -> Statuses \cup {"absent"}]
      /\ \A j \in Items : item[j] = "absent" => item'[j] = "absent"
  BY <1>1, <1>2, <1>5 DEF RowsTyped, Statuses
<1>7. RowsTyped'
  BY <1>1, <1>2, <1>3, <1>4, <1>6 DEF RowsTyped
<1>8. GoneIsEmpty'
  BY <1>1 DEF GoneIsEmpty
<1> QED
  BY <1>1, <1>6, <1>7, <1>8, AfterCommit

\* deleteBooking.
LEMMA DeleteKeepsInv ==
    ASSUME CounterInv, NEW q \in Requests, CommitDelete(q)
    PROVE  CounterInv'
<1>1. /\ order' = "none" /\ item' = [i \in Items |-> "absent"]
      /\ rent' = [i \in Items |-> 0] /\ bill' = NoBill
      /\ damage' = [i \in Items |-> 0] /\ ledger' = EmptyLedger
      /\ paymentStatus' = "unpaid" /\ settlement' = [i \in Items |-> NotSettled]
      /\ Commits(q)
  BY DEF CommitDelete
<1>2. RowsTyped'
  BY <1>1, NothingType, EmptyIsLedger
     DEF RowsTyped, NotSettled, Settlements, PaymentStatuses
<1>3. GoneIsEmpty' /\ \A i \in Items : item'[i] = "absent"
  BY <1>1 DEF GoneIsEmpty
<1> QED
  BY <1>1, <1>2, <1>3, AfterCommit

\* markSettlementPaid.
LEMMA PayoutKeepsInv ==
    ASSUME CounterInv, NEW q \in Requests, CommitPayout(q)
    PROVE  CounterInv'
<1> DEFINE i == seen[q].item
<1>1. /\ settlement' = [settlement EXCEPT ![i] = PaidOut(@)]
      /\ order' = order /\ item' = item /\ rent' = rent /\ bill' = bill
      /\ damage' = damage /\ ledger' = ledger /\ paymentStatus' = paymentStatus
      /\ Commits(q)
  BY DEF CommitPayout, money
<1>2. RowsTyped /\ i \in Items
  BY TypeHalves DEF CounterInv, RequestsTyped, LoadType
<1>3. settlement' \in [Items -> Settlements]
  BY <1>1, <1>2, PaidOutType DEF RowsTyped
<1>4. RowsTyped'
  BY <1>1, <1>2, <1>3 DEF RowsTyped
<1>5. GoneIsEmpty'
  BY <1>1 DEF CounterInv, GoneIsEmpty
<1> QED
  BY <1>1, <1>4, <1>5, AfterCommit

\* Every commit keeps the invariant.
LEMMA CommitKeepsInv ==
    ASSUME CounterInv, NEW q \in Requests, Commit(q)
    PROVE  CounterInv'
  BY PaymentKeepsInv, PickupKeepsInv, ReturnKeepsInv, UpdateKeepsInv,
     CancelItemKeepsInv, UpdateOrderKeepsInv, CancelOrderKeepsInv, DeleteKeepsInv,
     PayoutKeepsInv DEF Commit

\* createBooking, before anybody can know of the order.
LEMMA CreateKeepsInv ==
    ASSUME CounterInv, NEW lines \in SUBSET Items, NEW r \in Nat, NEW dep \in Nat,
           NEW advance \in Nat, CreateBooking(lines, r, dep, advance)
    PROVE  CounterInv'
<1> DEFINE p == [i \in Items |-> IF i \in lines THEN r ELSE 0]
           t == SumOver(p, lines)
<1>1. /\ \A q \in Requests : step[q] = "idle"
      /\ order' \in {"draft", "confirmed"}
      /\ item' = [i \in Items |-> IF i \notin lines THEN "absent"
                                  ELSE IF advance > 0 THEN "confirmed" ELSE "draft"]
      /\ rent' = p
      /\ bill' = [total |-> t, additional |-> 0, deposit |-> dep]
      /\ ledger' = Row("advance", advance)
      /\ UNCHANGED <<damage, settlement, step, seen, write, overtaken, begun>>
  BY Zenon DEF CreateBooking
<1>2. paymentStatus' \in PaymentStatuses
  BY StatusType DEF CreateBooking, PaymentStatuses
<1>3. RowsTyped /\ RequestsTyped
  BY TypeHalves DEF CounterInv
<1>4. t \in Nat
  <2>1. IsFiniteSet(lines)
    BY CounterAssumption, FS_Subset
  <2>2. \A i \in lines : p[i] \in Nat
    OBVIOUS
  <2> HIDE DEF p
  <2> QED
    BY <2>1, <2>2, SumIsNat
<1> HIDE DEF t
<1>5. bill' \in BillType
  BY <1>1, <1>4 DEF BillType
<1>6. ledger' \in Ledgers
  BY <1>1, RowType DEF PaymentTypes
<1>7. item' \in [Items -> Statuses \cup {"absent"}]
  BY <1>1 DEF Statuses
<1>8. rent' \in [Items -> Nat]
  BY <1>1
<1>9. TypeOK'
  <2>1. RowsTyped'
    BY <1>1, <1>2, <1>3, <1>5, <1>6, <1>7, <1>8 DEF RowsTyped
  <2>2. RequestsTyped'
    BY <1>1, <1>3 DEF RequestsTyped
  <2> QED
    BY <2>1, <2>2, TypeHalvesNext
<1>10. GoneIsEmpty'
  BY <1>1 DEF GoneIsEmpty
<1>11. \A q \in Requests : step'[q] = "idle" /\ seen'[q] = NoLoad
  BY <1>1 DEF CounterInv, LoadedOrders, AtWork
<1>12. LoadedOrders' /\ AddsAlone' /\ FreshIsStillSo'
  BY <1>11, NothingType DEF LoadedOrders, AddsAlone, FreshIsStillSo, AtWork
<1> QED
  BY <1>9, <1>10, <1>12 DEF CounterInv

\* The kinds of step there are.
LEMMA StepKinds ==
    ASSUME Next
    PROVE  \/ \E lines \in SUBSET Items, r \in Rents, dep \in Deposits, advance \in Charges :
                 CreateBooking(lines, r, dep, advance)
           \/ \E q \in Requests, op \in Handlers, i \in Items : Load(q, op, i)
           \/ \E q \in Requests : Read(q)
           \/ \E q \in Requests : Commit(q)
           \/ \E q \in Requests : GiveUp(q)
  BY Zenon DEF Next

\* Every step keeps the invariant.
LEMMA StepKeepsInv == CounterInv /\ [Next]_vars => CounterInv'
<1> SUFFICES ASSUME CounterInv, [Next]_vars PROVE CounterInv'
  OBVIOUS
<1>1. CASE Next
  <2>0. /\ Rents \subseteq Nat /\ Deposits \subseteq Nat /\ Charges \subseteq Nat
    BY CounterAssumption DEF Charges
  <2>1. ASSUME NEW lines \in SUBSET Items, NEW r \in Rents, NEW dep \in Deposits,
               NEW advance \in Charges, CreateBooking(lines, r, dep, advance)
        PROVE  CounterInv'
    BY <2>0, <2>1, CreateKeepsInv
  <2> QED
    BY <1>1, <2>1, StepKinds, LoadKeepsInv, ReadKeepsInv, CommitKeepsInv, GiveUpKeepsInv
<1>2. CASE UNCHANGED vars
  <2>1. /\ UNCHANGED records /\ step' = step /\ seen' = seen /\ write' = write
        /\ overtaken' = overtaken /\ begun' = begun
    BY <1>2 DEF vars
  <2>2. RowsTyped' /\ RequestsTyped'
    BY <2>1, TypeHalves DEF CounterInv, RowsTyped, RequestsTyped, records, money
  <2>3. TypeOK'
    BY <2>2, TypeHalvesNext
  <2>4. GoneIsEmpty' /\ LoadedOrders' /\ AddsAlone'
    BY <2>1 DEF CounterInv, GoneIsEmpty, LoadedOrders, AddsAlone, AtWork, records
  <2>5. FreshIsStillSo'
    BY <2>1, StillSoSame DEF CounterInv, FreshIsStillSo, AtWork
  <2> QED
    BY <2>3, <2>4, <2>5 DEF CounterInv
<1> QED
  BY <1>1, <1>2

\* The order and the requests on it always fit, and what a request that nobody
\* has committed in front of looked at is still so.
THEOREM CounterInvHolds == Spec => []CounterInv
  BY InitInv, StepKeepsInv, PTL DEF Spec

\* The type invariant, for every number of lines and requests.
THEOREM TypeCorrect == Spec => []TypeOK
<1>1. CounterInv => TypeOK
  BY DEF CounterInv
<1> QED
  BY <1>1, CounterInvHolds, PTL
-----------------------------------------------------------------------------
(* What a commit may do *)

\* Every commit leaves, and changes at most the rows.
LEMMA CommitsAreCommits ==
    ASSUME NEW q \in Requests, Commit(q)
    PROVE  Commits(q) /\ AtWork(q)
  BY Zenon DEF Commit, CommitPayment, CommitPickup, CommitReturn, CommitUpdate, CommitAdd,
     CommitCancelItem, CommitUpdateOrder, CommitCancelOrder, CommitDelete,
     CommitPayout, Doing, AtWork

\* A step that changes a row is the creation of the order, or a commit.
LEMMA OnlyCommitsWrite ==
    ASSUME [Next]_vars, records' # records
    PROVE  \/ \E lines \in SUBSET Items, r \in Rents, dep \in Deposits, advance \in Charges :
                 CreateBooking(lines, r, dep, advance)
           \/ \E q \in Requests : Commit(q)
<1>1. Next
  BY DEF vars
<1>2. ASSUME NEW q \in Requests, NEW op, NEW i, Load(q, op, i) PROVE FALSE
  BY <1>2 DEF Load
<1>3. ASSUME NEW q \in Requests, Read(q) PROVE FALSE
  BY <1>3 DEF Read, ReadPayment, ReadPickup, ReadReturn, ReadSiblings, ReadUpdate,
     ReadAdd, ReadCancelItem, ReadTotal, Prepare
<1>4. ASSUME NEW q \in Requests, GiveUp(q) PROVE FALSE
  BY <1>4 DEF GiveUp
<1> QED
  BY <1>1, <1>2, <1>3, <1>4, StepKinds

\* Whoever commits in a step has taken its commit.
LEMMA CommitterCommits ==
    ASSUME CounterInv, [Next]_vars, NEW q \in Requests, CommitsNow(q)
    PROVE  Commit(q)
<1>1. step[q] # "idle" /\ step'[q] = "idle" /\ records' # records
  BY DEF CommitsNow
<1>2. ASSUME NEW lines \in SUBSET Items, NEW r \in Rents, NEW dep \in Deposits,
             NEW advance \in Charges, CreateBooking(lines, r, dep, advance)
      PROVE  FALSE
  BY <1>1, <1>2 DEF CreateBooking
<1>3. ASSUME NEW p \in Requests, Commit(p), p # q PROVE FALSE
  <2>1. Leave(p)
    BY <1>3, CommitsAreCommits DEF Commits
  <2>2. step'[q] = step[q]
    BY <1>3, <2>1, TypeHalves DEF Leave, CounterInv, RequestsTyped
  <2> QED
    BY <1>1, <2>2
<1> QED
  BY <1>1, <1>2, <1>3, OnlyCommitsWrite

\* A committer whose rows changed commits now.
LEMMA CommitIsNow ==
    ASSUME CounterInv, NEW q \in Requests, Commit(q), records' # records
    PROVE  CommitsNow(q)
<1>1. Leave(q) /\ AtWork(q)
  BY CommitsAreCommits DEF Commits
<1>2. step'[q] = "idle"
  BY <1>1, TypeHalves DEF Leave, CounterInv, RequestsTyped
<1> QED
  BY <1>1, <1>2 DEF CommitsNow, AtWork

\* Each handler commits in its own way.
LEMMA CommitOf ==
    ASSUME NEW q \in Requests, Commit(q)
    PROVE  /\ seen[q].op = "cancelOrder" => CommitCancelOrder(q)
           /\ seen[q].op = "return" => CommitReturn(q)
  BY Zenon DEF Commit, CommitPayment, CommitPickup, CommitReturn, CommitUpdate, CommitAdd,
     CommitCancelItem, CommitUpdateOrder, CommitCancelOrder, CommitDelete,
     CommitPayout, Doing

\* What cancelBookingOrder leaves is square.
LEMMA CancellationIsSquare ==
    ASSUME CounterInv, NEW q \in Requests, CommitCancelOrder(q)
    PROVE  /\ DepositHeld(ledger') = 0
           /\ RentCollected(ledger') <= bill'.total + Damage(damage)
           /\ TotalIsRight'
<1>1. /\ bill' = Recomputed(bill, item', rent)
      /\ rent' = rent /\ SettleCancelledOrder
  BY DEF CommitCancelOrder
<1>2. RowsTyped
  BY TypeHalves DEF CounterInv
<1>3. bill' \in BillType
  BY <1>1, <1>2, RecomputedType DEF RowsTyped
<1>4. bill' = Recomputed(bill', item', rent')
  BY <1>1, <1>2, RecomputedAgain DEF RowsTyped
<1> QED
  BY <1>1, <1>3, <1>4, SettlesOrder DEF TotalIsRight

\* cancelBookingOrder squares the account whoever else was at the counter: it
\* writes the order's row before it reads anything.
THEOREM CancellingSquares == Spec => CancellationSquares
<1>1. CounterInv /\ [Next]_vars =>
        [\A q \in Requests : CommitsAs(q, "cancelOrder")
           => /\ DepositHeld(ledger') = 0
              /\ RentCollected(ledger') <= bill'.total + Damage(damage)
              /\ TotalIsRight']_vars
  <2> SUFFICES ASSUME CounterInv, [Next]_vars, NEW q \in Requests,
                      CommitsAs(q, "cancelOrder")
               PROVE  /\ DepositHeld(ledger') = 0
                      /\ RentCollected(ledger') <= bill'.total + Damage(damage)
                      /\ TotalIsRight'
    OBVIOUS
  <2>1. CommitCancelOrder(q)
    BY CommitterCommits, CommitOf DEF CommitsAs
  <2> QED
    BY <2>1, CancellationIsSquare
<1> QED
  BY <1>1, CounterInvHolds, PTL DEF Spec, CancellationSquares
-----------------------------------------------------------------------------
(* Reviving, closing, and paying owners *)

\* A return nobody committed in front of, of the last line out, leaves nothing
\* of the deposit.
LEMMA LastReturnReleases ==
    ASSUME CounterInv, NEW q \in Requests, CommitReturn(q), q \notin overtaken, LastOut(q)
    PROVE  DepositHeld(ledger') = 0
<1> DEFINE held == DepositHeld(ledger)
           applied == Lesser(write[q].charge, held)
           rows == Post(Row("deposit_applied", applied), "deposit_release",
                        IF LastOut(q) THEN held - applied ELSE 0)
<1>1. step[q] = "ready" /\ seen[q].op = "return" /\ PostRows(q)
  BY DEF CommitReturn, Doing
<1>2. write[q].rows = rows
  BY <1>1 DEF CounterInv, FreshIsStillSo, StillSo, AtWork, ReturnRows
<1>3. ledger \in Ledgers /\ write[q].charge \in Nat
  BY TypeHalves DEF CounterInv, RowsTyped, RequestsTyped, WriteType
<1>4. held \in Nat /\ LastOut(q) \in BOOLEAN
  BY <1>3, LedgerNat DEF LastOut
<1>5. held = NonNegative(ledger["security_deposit"]
                           - (ledger["deposit_release"] + ledger["deposit_applied"]))
  BY DEF DepositHeld
<1>6. /\ rows["deposit_applied"] = applied
      /\ rows["deposit_release"] = held - applied
      /\ rows["security_deposit"] = 0
      /\ applied \in Nat
  <2> HIDE DEF held
  <2>1. /\ rows["deposit_applied"] = applied
        /\ rows["deposit_release"] = IF LastOut(q) THEN held - applied ELSE 0
        /\ \A t \in PaymentTypes \ {"deposit_applied", "deposit_release"} : rows[t] = 0
        /\ applied \in Nat
    BY <1>3, <1>4, ReturnRowsType
  <2> HIDE DEF rows, applied
  <2> QED
    BY <2>1 DEF PaymentTypes
<1> HIDE DEF rows, applied, held
<1>7. /\ ledger'["security_deposit"] = ledger["security_deposit"]
      /\ ledger'["deposit_release"] = ledger["deposit_release"] + (held - applied)
      /\ ledger'["deposit_applied"] = ledger["deposit_applied"] + applied
  BY <1>1, <1>2, <1>3, <1>6, PostRowsType, LedgerNat DEF PaymentTypes
<1> QED
  BY <1>3, <1>4, <1>5, <1>6, <1>7, LedgerNat DEF DepositHeld, NonNegative

\* The lines whose ending ends the order.
LEMMA ClosingCommit ==
    ASSUME CounterInv, NEW q \in Requests, Commit(q),
           order' # "none", ~Finished(item), Finished(item')
    PROVE  DepositHeld(ledger') = 0 \/ (q \in overtaken /\ seen[q].op = "return")
<1>0. RowsTyped /\ seen[q].item \in Items
  BY TypeHalves DEF CounterInv, RequestsTyped, LoadType
<1>1. item' # item
  OBVIOUS
<1>2. CASE CommitPayment(q)
  <2>1. PICK drafts \in SUBSET {i \in Items : item[i] = "draft"} :
           item' = [i \in Items |-> IF i \in drafts THEN "confirmed" ELSE item[i]]
    BY <1>2 DEF CommitPayment
  <2>2. \A i \in drafts : FALSE
    BY <2>1 DEF Finished, Terminal
  <2>3. \A i \in Items : item'[i] = item[i]
    BY <2>1, <2>2
  <2> QED
    BY <2>3 DEF Finished
<1>3. CASE CommitPickup(q)
  <2>1. item'[seen[q].item] = "rented"
    BY <1>0, <1>3 DEF CommitPickup, RowsTyped
  <2> QED
    BY <1>0, <2>1 DEF Finished, Terminal
<1>4. CASE CommitReturn(q)
  <2>1. seen[q].op = "return" /\ item' = [item EXCEPT ![seen[q].item] = "returned"]
    BY <1>4 DEF CommitReturn, Doing
  <2>2. LastOut(q)
    BY <1>0, <2>1 DEF Finished, LastOut, RowsTyped
  <2> QED
    BY <1>4, <2>1, <2>2, LastReturnReleases
<1>5. CASE CommitUpdate(q)
  BY <1>1, <1>5 DEF CommitUpdate
<1>6. CASE CommitAdd(q)
  <2>1. item'[seen[q].item] \in {"draft", "confirmed"}
    BY <1>0, <1>6 DEF CommitAdd, AddedAs, RowsTyped
  <2> QED
    BY <1>0, <2>1 DEF Finished, Terminal
<1>7. CASE CommitCancelItem(q)
  <2>1. WriteTotal(write[q].bill) /\ SettleCancelledOrder
    BY <1>7 DEF CommitCancelItem
  <2> QED
    BY <2>1, WriteTotalType, SettlesOrder
<1>8. CASE \E fee \in Fees : CommitUpdateOrder(q, fee)
  BY <1>1, <1>8 DEF CommitUpdateOrder
<1>9. CASE CommitCancelOrder(q)
  BY <1>9, CancellationIsSquare
<1>10. CASE CommitDelete(q)
  BY <1>10 DEF CommitDelete
<1>11. CASE CommitPayout(q)
  BY <1>1, <1>11 DEF CommitPayout
<1> QED
  BY <1>2, <1>3, <1>4, <1>5, <1>6, <1>7, <1>8, <1>9, <1>10, <1>11 DEF Commit

\* When the last line ends the deposit goes back, unless it ends by a return
\* that was overtaken between looking at its siblings and writing.
THEOREM ClosingReleases == Spec => ClosingReleasesDeposit
<1>1. CounterInv /\ [Next]_vars =>
        [(order' # "none" /\ OnOrder(item) # {} /\ ~Finished(item) /\ Finished(item'))
          => \/ DepositHeld(ledger') = 0
             \/ \E q \in overtaken : CommitsAs(q, "return")]_vars
  <2> SUFFICES ASSUME CounterInv, [Next]_vars, order' # "none", OnOrder(item) # {},
                      ~Finished(item), Finished(item')
               PROVE  \/ DepositHeld(ledger') = 0
                      \/ \E q \in overtaken : CommitsAs(q, "return")
    OBVIOUS
  <2>1. records' # records
    BY DEF records, Finished
  <2>2. order # "none"
    BY DEF OnOrder, CounterInv, GoneIsEmpty
  <2>3. PICK q \in Requests : Commit(q)
    BY <2>1, <2>2, OnlyCommitsWrite DEF CreateBooking
  <2>4. CommitsNow(q)
    BY <2>1, <2>3, CommitIsNow
  <2> QED
    BY <2>3, <2>4, ClosingCommit DEF CommitsAs
<1> QED
  BY <1>1, CounterInvHolds, PTL DEF Spec, ClosingReleasesDeposit

\* A commit that brings a cancelled order back is a payment's or a refund's,
\* and an overtaken one.
LEMMA RevivesOrder ==
    ASSUME CounterInv, NEW q \in Requests, Commit(q),
           order = "cancelled", order' \notin {"cancelled", "none"}
    PROVE  q \in overtaken /\ seen[q].op \in {"payment", "refund"}
<1>1. CommitPayment(q)
  BY DEF Commit, CommitPickup, CommitReturn, CommitUpdate, CommitAdd, CommitCancelItem,
     CommitUpdateOrder, CommitCancelOrder, CommitDelete, CommitPayout
<1>2. seen[q].op \in {"payment", "refund"} /\ AtWork(q)
  BY <1>1 DEF CommitPayment, AtWork
<1>3. ASSUME q \notin overtaken PROVE FALSE
  BY <1>2, <1>3 DEF CounterInv, FreshIsStillSo, StillSo, Admits
<1> QED
  BY <1>2, <1>3

\* A commit that moves a cancelled line again is a pickup's or a return's, and
\* an overtaken one.
LEMMA RevivesItem ==
    ASSUME CounterInv, NEW q \in Requests, Commit(q), NEW i \in Items,
           item[i] = "cancelled", item'[i] \notin {"cancelled", "absent"}
    PROVE  q \in overtaken /\ seen[q].op \in {"pickup", "return"}
<1>0. RowsTyped /\ seen[q].item \in Items
  BY TypeHalves DEF CounterInv, RequestsTyped, LoadType
<1>1. CASE CommitPayment(q)
  <2>1. PICK drafts \in SUBSET {j \in Items : item[j] = "draft"} :
           item' = [j \in Items |-> IF j \in drafts THEN "confirmed" ELSE item[j]]
    BY <1>1 DEF CommitPayment
  <2> QED
    BY <2>1
<1>2. CASE CommitPickup(q) \/ CommitReturn(q)
  <2>1. /\ seen[q].op \in {"pickup", "return"} /\ AtWork(q)
        /\ seen[q].item = i
    BY <1>0, <1>2 DEF CommitPickup, CommitReturn, Doing, AtWork, RowsTyped
  <2>2. ASSUME q \notin overtaken PROVE FALSE
    <3>1. Admits(seen[q].op, i)
      BY <2>1, <2>2 DEF CounterInv, FreshIsStillSo, StillSo
    <3> QED
      BY <2>1, <3>1 DEF Admits, CanTransition, Transitions
  <2> QED
    BY <2>1, <2>2
<1>3. CASE CommitAdd(q)
  <2>1. item[seen[q].item] = "absent"
    BY <1>3 DEF CommitAdd, Doing, CounterInv, AddsAlone
  <2> QED
    BY <1>0, <1>3, <2>1 DEF CommitAdd, RowsTyped
<1>4. CASE CommitCancelItem(q)
  BY <1>0, <1>4 DEF CommitCancelItem, RowsTyped
<1>5. CASE CommitCancelOrder(q)
  BY <1>5 DEF CommitCancelOrder
<1>6. CASE CommitDelete(q)
  BY <1>6 DEF CommitDelete
<1>7. CASE item' = item
  BY <1>7
<1> QED
  BY <1>1, <1>2, <1>3, <1>4, <1>5, <1>6, <1>7
     DEF Commit, CommitUpdate, CommitUpdateOrder, CommitPayout

\* Only a request loaded before a cancellation, and overtaken by it, undoes it.
THEOREM RevivingIsOvertaken == Spec => OnlyOvertakenRevives
<1>1. CounterInv /\ [Next]_vars =>
        [/\ order = "cancelled" /\ order' \notin {"cancelled", "none"}
              => \E q \in overtaken : CommitsAs(q, "payment") \/ CommitsAs(q, "refund")
         /\ \A i \in Items : item[i] = "cancelled" /\ item'[i] \notin {"cancelled", "absent"}
              => \E q \in overtaken : CommitsAs(q, "pickup") \/ CommitsAs(q, "return")]_vars
  <2> SUFFICES ASSUME CounterInv, [Next]_vars
               PROVE  /\ order = "cancelled" /\ order' \notin {"cancelled", "none"}
                           => \E q \in overtaken : CommitsAs(q, "payment") \/ CommitsAs(q, "refund")
                      /\ \A i \in Items : item[i] = "cancelled" /\ item'[i] \notin {"cancelled", "absent"}
                           => \E q \in overtaken : CommitsAs(q, "pickup") \/ CommitsAs(q, "return")
    OBVIOUS
  <2>1. ASSUME order = "cancelled", order' \notin {"cancelled", "none"}
        PROVE  \E q \in overtaken : CommitsAs(q, "payment") \/ CommitsAs(q, "refund")
    <3>1. records' # records
      BY <2>1 DEF records
    <3>2. PICK q \in Requests : Commit(q)
      BY <2>1, <3>1, OnlyCommitsWrite DEF CreateBooking
    <3>3. CommitsNow(q)
      BY <3>1, <3>2, CommitIsNow
    <3> QED
      BY <2>1, <3>2, <3>3, RevivesOrder DEF CommitsAs
  <2>2. ASSUME NEW i \in Items, item[i] = "cancelled", item'[i] \notin {"cancelled", "absent"}
        PROVE  \E q \in overtaken : CommitsAs(q, "pickup") \/ CommitsAs(q, "return")
    <3>1. records' # records
      BY <2>2 DEF records
    <3>2. PICK q \in Requests : Commit(q)
      BY <2>2, <3>1, OnlyCommitsWrite DEF CreateBooking, CounterInv, GoneIsEmpty
    <3>3. CommitsNow(q)
      BY <3>1, <3>2, CommitIsNow
    <3> QED
      BY <2>2, <3>2, <3>3, RevivesItem DEF CommitsAs
  <2> QED
    BY <2>1, <2>2
<1> QED
  BY <1>1, CounterInvHolds, PTL DEF Spec, OnlyOvertakenRevives

\* A commit other than a deletion leaves an owner's settlement, is the payout
\* that pays it, or the return that opens it.
LEMMA SettlementMoves ==
    ASSUME CounterInv, NEW q \in Requests, Commit(q), NEW i \in Items, ~CommitDelete(q)
    PROVE  \/ settlement'[i] = settlement[i]
           \/ /\ settlement[i].status # "none" /\ CommitPayout(q)
              /\ seen[q].op = "payout" /\ seen[q].item = i
              /\ settlement'[i].amount = settlement[i].amount
           \/ /\ settlement[i].status = "none" /\ seen[q].op = "return"
              /\ settlement'[i].amount = Lesser(Share, seen[q].rent)
              /\ settlement'[i].payouts = settlement[i].payouts
<1>0. RowsTyped /\ seen[q].item \in Items /\ seen[q].rent \in Nat
  BY TypeHalves DEF CounterInv, RequestsTyped, LoadType
<1>1. CASE CommitReturn(q)
  <2> DEFINE a == Lesser(Share, seen[q].rent)
  <2>1. seen[q].op = "return" /\ Settle(seen[q].item, seen[q].rent) /\ a \in Nat
    BY <1>0, <1>1, CounterAssumption DEF CommitReturn, Doing, Lesser
  <2>2. \/ settlement' = settlement
        \/ /\ settlement[seen[q].item].status = "none"
           /\ settlement' = [settlement EXCEPT ![seen[q].item] = Opened(a)]
    BY <2>1 DEF Settle, Opened
  <2>3. /\ Opened(a).amount = a /\ Opened(a).payouts = 0
    BY <2>1, OpenedType
  <2>4. \A j \in Items : settlement[j].status = "none" => settlement[j].payouts = 0
    BY <1>0 DEF RowsTyped, Settlements
  <2> HIDE DEF a
  <2>5. \/ settlement'[i] = settlement[i]
        \/ settlement[i].status = "none" /\ settlement'[i] = Opened(a)
    BY <1>0, <2>2 DEF RowsTyped
  <2> QED
    BY <2>1, <2>3, <2>4, <2>5 DEF a
<1>2. CASE CommitPayout(q)
  <2>1. /\ settlement[seen[q].item].status # "none" /\ seen[q].op = "payout"
        /\ settlement' = [settlement EXCEPT ![seen[q].item] = PaidOut(@)]
    BY <1>2 DEF CommitPayout, Doing
  <2>2. CASE i = seen[q].item
    <3>1. settlement[i] \in Settlements /\ settlement'[i] = PaidOut(settlement[i])
      BY <1>0, <2>1, <2>2 DEF RowsTyped
    <3> QED
      BY <1>2, <2>1, <2>2, <3>1, PaidOutType
  <2>3. CASE i # seen[q].item
    BY <1>0, <2>1, <2>3 DEF RowsTyped
  <2> QED
    BY <2>2, <2>3
<1>3. CASE settlement' = settlement
  BY <1>3
<1> QED
  BY <1>1, <1>2, <1>3 DEF Commit, CommitPayment, CommitPickup, CommitUpdate, CommitAdd,
     CommitCancelItem, CommitUpdateOrder, CommitCancelOrder

\* A payout that nobody committed in front of finds its settlement unpaid.
LEMMA UndisturbedPayout ==
    ASSUME CounterInv, NEW q \in Requests, CommitPayout(q), q \notin overtaken
    PROVE  settlement[seen[q].item].payouts = 0
<1>1. AtWork(q) /\ seen[q].op = "payout"
  BY DEF CommitPayout, Doing, AtWork
<1>2. StillSo(q) /\ RowsTyped /\ seen[q].item \in Items
  BY <1>1, TypeHalves DEF CounterInv, FreshIsStillSo, RequestsTyped, LoadType
<1>3. settlement[seen[q].item].status = "pending"
  BY <1>1, <1>2 DEF StillSo, Admits, Payable
<1> QED
  BY <1>2, <1>3 DEF RowsTyped, Settlements

\* However often a line is returned its owner is owed one share, fixed at the
\* first return, and never more than that return's rent; a second payout takes
\* a markSettlementPaid somebody committed in front of.
THEOREM OwnersAreOwedOnce == Spec => OwedOnce
<1>1. CounterInv /\ [Next]_vars =>
        [\A i \in Items :
          /\ settlement[i].status # "none" /\ order' # "none"
                => settlement'[i].amount = settlement[i].amount
          /\ settlement[i].status = "none" /\ settlement'[i].status # "none"
                => \E q \in Requests : /\ CommitsAs(q, "return")
                                       /\ settlement'[i].amount <= seen[q].rent
          /\ settlement'[i].payouts # settlement[i].payouts /\ order' # "none"
                => \E q \in Requests :
                      /\ CommitsAs(q, "payout")
                      /\ settlement[i].payouts = 0 \/ q \in overtaken]_vars
  <2> DEFINE Fixed(i) ==
               settlement[i].status # "none" /\ order' # "none"
                  => settlement'[i].amount = settlement[i].amount
             Opens(i) ==
               settlement[i].status = "none" /\ settlement'[i].status # "none"
                  => \E q \in Requests : /\ CommitsAs(q, "return")
                                         /\ settlement'[i].amount <= seen[q].rent
             Pays(i) ==
               settlement'[i].payouts # settlement[i].payouts /\ order' # "none"
                  => \E q \in Requests :
                        /\ CommitsAs(q, "payout")
                        /\ settlement[i].payouts = 0 \/ q \in overtaken
  <2> SUFFICES ASSUME CounterInv, [Next]_vars, NEW i \in Items,
                      settlement'[i] # settlement[i]
               PROVE  Fixed(i) /\ Opens(i) /\ Pays(i)
    OBVIOUS
  <2>1. records' # records
    BY DEF records
  <2>2. PICK q \in Requests : Commit(q)
    BY <2>1, OnlyCommitsWrite DEF CreateBooking
  <2>3. CommitsNow(q)
    BY <2>1, <2>2, CommitIsNow
  <2>4. CASE CommitDelete(q)
    BY <2>4 DEF CommitDelete, NotSettled
  <2>5. CASE ~CommitDelete(q)
    <3>1. \/ /\ settlement[i].status # "none" /\ CommitPayout(q)
             /\ seen[q].op = "payout" /\ seen[q].item = i
             /\ settlement'[i].amount = settlement[i].amount
          \/ /\ settlement[i].status = "none" /\ seen[q].op = "return"
             /\ settlement'[i].amount = Lesser(Share, seen[q].rent)
             /\ settlement'[i].payouts = settlement[i].payouts
      BY <2>2, <2>5, SettlementMoves
    <3>2. seen[q].rent \in Nat /\ Share \in Nat
      BY TypeHalves, CounterAssumption DEF CounterInv, RequestsTyped, LoadType
    <3>3. Lesser(Share, seen[q].rent) <= seen[q].rent
      BY <3>2 DEF Lesser
    <3>4. CASE /\ settlement[i].status # "none" /\ CommitPayout(q)
               /\ seen[q].op = "payout" /\ seen[q].item = i
               /\ settlement'[i].amount = settlement[i].amount
      <4>1. settlement[i].payouts = 0 \/ q \in overtaken
        BY <3>4, UndisturbedPayout
      <4> QED
        BY <2>3, <3>4, <4>1 DEF CommitsAs
    <3> QED
      BY <2>3, <3>1, <3>3, <3>4 DEF CommitsAs
  <2> QED
    BY <2>4, <2>5
<1> QED
  BY <1>1, CounterInvHolds, PTL DEF Spec, OwedOnce
-----------------------------------------------------------------------------
(* What nobody was overtaken in is serial *)

\* What the customer is to pay, damage included.
Due == bill.total + Damage(damage)

\* What a request at the order's row is going to write is what it would write
\* if it read everything now.
Written(q) ==
    LET i == seen[q].item
        w == write[q]
        op == seen[q].op
    IN  \/ /\ op = "payment"
           /\ \E rows \in Inflows(Balances(ledger, Due, bill.deposit)) :
                 w = Posting(ledger, rows, Due, bill.deposit)
        \/ /\ op = "refund"
           /\ \E rows \in Outflows(ledger) : w = Posting(ledger, rows, Due, bill.deposit)
        \/ /\ op = "pickup"
           /\ \E paid, depositPaid \in Charges :
                 w = Posting(ledger, Plus(Row("balance", paid),
                                          Row("security_deposit", depositPaid)),
                             Due, bill.deposit)
        \/ /\ op = "return"
           /\ w.shows = StatusOf(Plus(ledger, w.rows), Due + w.charge, bill.deposit)
        \/ op = "update" /\ w.bill = Recomputed(bill, item, [rent EXCEPT ![i] = w.rent])
        \/ op = "add" /\ w.bill = Recomputed(bill, [item EXCEPT ![i] = AddedAs(q)],
                                             [rent EXCEPT ![i] = w.rent])
        \/ op = "cancelItem"
           /\ w.bill = Recomputed(bill, [item EXCEPT ![i] = "cancelled"], rent)

\* ... and what it has loaded for that is what there is.
Prepared(q) ==
    /\ seen[q].op \in Billed => seen[q].bill = bill
    /\ seen[q].op \in {"payment", "refund"} => seen[q].damage = Damage(damage)
    /\ seen[q].op = "return" /\ step[q] # "loaded" => write[q].charge \in Charges
    /\ seen[q].op = "return" /\ step[q] = "counted"
         => seen[q].damage = Damage(damage) + write[q].charge
    /\ step[q] = "ready" => Written(q)

FreshIsPrepared == \A q \in Requests : AtWork(q) /\ q \notin overtaken => Prepared(q)

\* A line's rent is one that was asked for.
RentsAsked ==
    /\ rent \in [Items -> Rents \cup {0}]
    /\ \A q \in Requests : write[q].rent \in Rents \cup {0}

SerialInv == CounterInv /\ RentsAsked /\ FreshIsPrepared

\* What a request has read and prepared is still right if neither it nor the
\* rows changed.
LEMMA PreparedSame ==
    ASSUME NEW p, UNCHANGED records,
           seen'[p] = seen[p], write'[p] = write[p], step'[p] = step[p]
    PROVE  Prepared(p)' <=> Prepared(p)
<1>1. /\ item' = item /\ rent' = rent /\ bill' = bill /\ damage' = damage
      /\ ledger' = ledger
  BY DEF records, money
<1>2. Due' = Due
  BY <1>1 DEF Due
<1>3. AddedAs(p)' = AddedAs(p)
  BY DEF AddedAs
<1>4. Written(p)' <=> Written(p)
  BY <1>1, <1>2, <1>3, Zenon DEF Written
<1> QED
  BY <1>1, <1>4 DEF Prepared

\* A step of one request that changes no row, as long as what that request
\* holds is what there is.
LEMMA QuietSerial ==
    ASSUME SerialInv, UNCHANGED records, NEW q \in Requests,
           \A p \in Requests \ {q} : seen'[p] = seen[p],
           \A p \in Requests \ {q} : write'[p] = write[p],
           \A p \in Requests \ {q} : step'[p] = step[p],
           \A p \in Requests \ {q} : p \in overtaken => p \in overtaken',
           write'[q].rent \in Rents \cup {0},
           AtWork(q)' /\ q \notin overtaken' => Prepared(q)'
    PROVE  RentsAsked' /\ FreshIsPrepared'
<1>1. rent' = rent
  BY DEF records, money
<1>2. RentsAsked'
  BY <1>1 DEF SerialInv, RentsAsked
<1>3. FreshIsPrepared'
  <2> SUFFICES ASSUME NEW p \in Requests, AtWork(p)', p \notin overtaken'
               PROVE  Prepared(p)'
    BY DEF FreshIsPrepared
  <2>1. CASE p = q
    BY <2>1
  <2>2. CASE p # q
    <3>1. /\ seen'[p] = seen[p] /\ write'[p] = write[p] /\ step'[p] = step[p]
          /\ p \notin overtaken
      BY <2>2
    <3>2. Prepared(p)
      BY <3>1 DEF SerialInv, FreshIsPrepared, AtWork
    <3> QED
      BY <3>1, <3>2, PreparedSame
  <2> QED
    BY <2>1, <2>2
<1> QED
  BY <1>2, <1>3

\* A load.
LEMMA LoadKeepsSerial ==
    ASSUME SerialInv, NEW q \in Requests, NEW op \in Handlers, NEW i \in Items,
           Load(q, op, i)
    PROVE  RentsAsked' /\ FreshIsPrepared'
<1> DEFINE load == [op |-> op, item |-> i, order |-> order,
                    bill   |-> IF op \in Billed THEN bill ELSE NoBill,
                    damage |-> IF op \in {"payment", "refund"} THEN Damage(damage)
                               ELSE 0,
                    rent   |-> IF op = "return" THEN rent[i] ELSE 0,
                    ledger |-> EmptyLedger]
<1>1. /\ step' = [step EXCEPT ![q] = "loaded"]
      /\ seen' = [seen EXCEPT ![q] = load]
      /\ UNCHANGED records /\ write' = write /\ overtaken' = overtaken
  BY Zenon DEF Load
<1>2. RequestsTyped
  BY TypeHalves DEF SerialInv, CounterInv
<1>3. /\ load.op = op
      /\ op \in Billed => load.bill = bill
      /\ op \in {"payment", "refund"} => load.damage = Damage(damage)
  OBVIOUS
<1> HIDE DEF load
<1>4. /\ seen'[q] = load /\ step'[q] = "loaded"
      /\ \A p \in Requests \ {q} : seen'[p] = seen[p]
      /\ \A p \in Requests \ {q} : step'[p] = step[p]
  BY <1>1, <1>2 DEF RequestsTyped
<1>5. bill' = bill /\ damage' = damage
  BY <1>1 DEF records, money
<1>6. Prepared(q)'
  BY <1>3, <1>4, <1>5 DEF Prepared
<1>7. write'[q].rent \in Rents \cup {0}
  BY <1>1 DEF SerialInv, RentsAsked
<1> QED
  BY <1>1, <1>4, <1>6, <1>7, QuietSerial

\* A request that goes for the order's row with w.
LEMMA PrepareKeepsSerial ==
    ASSUME SerialInv, NEW q \in Requests, AtWork(q), NEW w, Prepare(q, w),
           w.rent \in Rents \cup {0},
           q \notin overtaken /\ seen[q].op = "return" => w.charge \in Charges,
           q \notin overtaken => Written(q)'
    PROVE  RentsAsked' /\ FreshIsPrepared'
<1>1. /\ step' = [step EXCEPT ![q] = "ready"]
      /\ write' = [write EXCEPT ![q] = w]
      /\ UNCHANGED records /\ seen' = seen /\ overtaken' = overtaken
  BY Zenon DEF Prepare
<1>2. RequestsTyped
  BY TypeHalves DEF SerialInv, CounterInv
<1>3. /\ write'[q] = w /\ step'[q] = "ready"
      /\ \A p \in Requests \ {q} : write'[p] = write[p]
      /\ \A p \in Requests \ {q} : step'[p] = step[p]
  BY <1>1, <1>2 DEF RequestsTyped
<1>4. ASSUME q \notin overtaken PROVE Prepared(q)'
  <2>1. Prepared(q)
    BY <1>4 DEF SerialInv, FreshIsPrepared
  <2>2. bill' = bill /\ damage' = damage
    BY <1>1 DEF records, money
  <2> QED
    BY <1>1, <1>3, <1>4, <2>1, <2>2 DEF Prepared
<1> QED
  BY <1>1, <1>3, <1>4, QuietSerial

\* What recordPayment prepares.
LEMMA ReadPaymentKeepsSerial ==
    ASSUME SerialInv, NEW q \in Requests, ReadPayment(q)
    PROVE  RentsAsked' /\ FreshIsPrepared'
<1> DEFINE dep == seen[q].bill.deposit
           due == seen[q].bill.total + seen[q].damage
<1>1. step[q] = "loaded"
  BY DEF ReadPayment, Doing
<1>2. PICK rows :
         /\ \/ seen[q].op = "payment" /\ rows \in Inflows(Balances(ledger, due, dep))
            \/ seen[q].op = "refund" /\ rows \in Outflows(ledger)
         /\ Prepare(q, Posting(ledger, rows, due, dep))
  BY Zenon DEF ReadPayment, Doing
<1> DEFINE w == Posting(ledger, rows, due, dep)
<1>3. w.rent = 0
  BY DEF Posting, NoWrite
<1>4. ASSUME q \notin overtaken PROVE Written(q)'
  <2>1. due = Due /\ dep = bill.deposit
    BY <1>1, <1>2, <1>4 DEF SerialInv, FreshIsPrepared, AtWork, Prepared, Due, Billed
  <2>2. /\ ledger' = ledger /\ bill' = bill /\ damage' = damage /\ seen' = seen
    BY <1>2 DEF Prepare, records, money
  <2>3. write'[q] = w
    BY <1>2, TypeHalves DEF Prepare, SerialInv, CounterInv, RequestsTyped
  <2>4. Due' = Due
    BY <2>2 DEF Due
  <2> HIDE DEF due, dep
  <2> QED
    BY <1>2, <2>1, <2>2, <2>3, <2>4 DEF Written
<1> HIDE DEF w
<1> QED
  BY <1>1, <1>2, <1>3, <1>4, PrepareKeepsSerial DEF AtWork, w

\* What confirmPickup prepares.
LEMMA ReadPickupKeepsSerial ==
    ASSUME SerialInv, NEW q \in Requests, NEW paid \in Charges, NEW depositPaid \in Charges,
           NEW allow, ReadPickup(q, paid, depositPaid, allow)
    PROVE  RentsAsked' /\ FreshIsPrepared'
<1> DEFINE rows == Plus(Row("balance", paid), Row("security_deposit", depositPaid))
           dep == seen[q].bill.deposit
           due == seen[q].bill.total + Damage(damage)
           w == Posting(ledger, rows, due, dep)
<1>1. /\ step[q] = "loaded" /\ seen[q].op = "pickup" /\ Prepare(q, w)
  BY Zenon DEF ReadPickup, Doing
<1>2. w.rent = 0
  BY DEF Posting, NoWrite
<1>3. ASSUME q \notin overtaken PROVE Written(q)'
  <2>1. due = Due /\ dep = bill.deposit
    BY <1>1, <1>3 DEF SerialInv, FreshIsPrepared, AtWork, Prepared, Due, Billed
  <2>2. /\ ledger' = ledger /\ bill' = bill /\ damage' = damage /\ seen' = seen
    BY <1>1 DEF Prepare, records, money
  <2>3. write'[q] = w
    BY <1>1, TypeHalves DEF Prepare, SerialInv, CounterInv, RequestsTyped
  <2>4. Due' = Due
    BY <2>2 DEF Due
  <2> HIDE DEF due, dep
  <2> QED
    BY <1>1, <2>1, <2>2, <2>3, <2>4, Zenon DEF Written
<1> HIDE DEF w
<1> QED
  BY <1>1, <1>2, <1>3, PrepareKeepsSerial DEF AtWork

\* What returnBooking counts.
LEMMA CountKeepsSerial ==
    ASSUME SerialInv, NEW q \in Requests, NEW charge \in Charges, ReadReturn(q, charge)
    PROVE  RentsAsked' /\ FreshIsPrepared'
<1> DEFINE d == Damage(damage) + charge
           y == [seen[q] EXCEPT !.ledger = ledger, !.damage = d]
<1>1. /\ step[q] = "loaded" /\ seen[q].op = "return"
      /\ step' = [step EXCEPT ![q] = "counted"]
      /\ write' = [write EXCEPT ![q].charge = charge]
      /\ seen' = [seen EXCEPT ![q].ledger = ledger, ![q].damage = d]
      /\ UNCHANGED records /\ overtaken' = overtaken
  BY Zenon DEF ReadReturn, Doing
<1>2. RequestsTyped
  BY TypeHalves DEF SerialInv, CounterInv
<1> HIDE DEF d
<1>3. seen[q] \in LoadType /\ write[q] \in WriteType
  BY <1>2 DEF RequestsTyped
<1>4. y.op = "return" /\ y.damage = d /\ y.bill = seen[q].bill
  BY <1>1, <1>3 DEF LoadType
<1>5. /\ seen'[q] = y
      /\ \A p \in Requests \ {q} : seen'[p] = seen[p]
  BY <1>1, <1>2 DEF RequestsTyped
<1> HIDE DEF y
<1>6. /\ write'[q] = [write[q] EXCEPT !.charge = charge]
      /\ step'[q] = "counted"
      /\ \A p \in Requests \ {q} : write'[p] = write[p]
      /\ \A p \in Requests \ {q} : step'[p] = step[p]
  BY <1>1, <1>2 DEF RequestsTyped
<1>7. write'[q].charge = charge /\ write'[q].rent = write[q].rent
  BY <1>3, <1>6 DEF WriteType
<1>8. write'[q].rent \in Rents \cup {0}
  BY <1>7 DEF SerialInv, RentsAsked
<1>9. ASSUME q \notin overtaken PROVE Prepared(q)'
  <2>1. seen[q].bill = bill
    BY <1>1, <1>9 DEF SerialInv, FreshIsPrepared, AtWork, Prepared, Billed
  <2>2. bill' = bill /\ damage' = damage
    BY <1>1 DEF records, money
  <2> QED
    BY <1>4, <1>5, <1>6, <1>7, <2>1, <2>2 DEF Prepared, d
<1> QED
  BY <1>1, <1>5, <1>6, <1>8, <1>9, QuietSerial

\* What returnBooking prepares.
LEMMA SiblingsKeepsSerial ==
    ASSUME SerialInv, NEW q \in Requests, ReadSiblings(q)
    PROVE  RentsAsked' /\ FreshIsPrepared'
<1> DEFINE load == seen[q]
           held == DepositHeld(load.ledger)
           applied == Lesser(write[q].charge, held)
           rows == Post(Row("deposit_applied", applied), "deposit_release",
                        IF LastOut(q) THEN held - applied ELSE 0)
           posting == Posting(load.ledger, rows, load.bill.total + load.damage,
                              load.bill.deposit)
           w == [posting EXCEPT !.charge = write[q].charge]
<1>1. step[q] = "counted" /\ load.op = "return" /\ Prepare(q, w)
  BY Zenon DEF ReadSiblings, Doing, LastOut
<1>2. RequestsTyped
  BY TypeHalves DEF SerialInv, CounterInv
<1> HIDE DEF rows
<1>3. /\ posting.rows = rows /\ posting.rent = 0
      /\ posting.shows = StatusOf(Plus(load.ledger, rows),
                                  load.bill.total + load.damage, load.bill.deposit)
      /\ DOMAIN posting = DOMAIN NoWrite
  BY DEF Posting, NoWrite
<1>4. w.rows = posting.rows /\ w.rent = posting.rent /\ w.shows = posting.shows
      /\ w.charge = write[q].charge
  <2>1. "charge" \in DOMAIN posting /\ "rows" \in DOMAIN posting
        /\ "rent" \in DOMAIN posting /\ "shows" \in DOMAIN posting
    BY <1>3 DEF NoWrite
  <2> HIDE DEF posting
  <2> QED
    BY <2>1
<1>5. ASSUME q \notin overtaken
      PROVE  /\ load.ledger = ledger /\ load.bill = bill
             /\ load.damage = Damage(damage) + write[q].charge
             /\ write[q].charge \in Charges
  BY <1>1, <1>5 DEF SerialInv, CounterInv, FreshIsStillSo, StillSo, FreshIsPrepared,
     Prepared, AtWork, Billed
<1>6. ASSUME q \notin overtaken PROVE Written(q)'
  <2>1. /\ ledger' = ledger /\ bill' = bill /\ damage' = damage /\ seen' = seen
    BY <1>1 DEF Prepare, records, money
  <2>2. write'[q] = w
    BY <1>1, <1>2 DEF Prepare, RequestsTyped
  <2>3. Due' = Due
    BY <2>1 DEF Due
  <2>4. load.bill.total + load.damage = Due + write[q].charge
    <3>1. bill.total \in Int /\ Damage(damage) \in Int /\ write[q].charge \in Int
      BY <1>2, TypeHalves, DamageType
         DEF SerialInv, CounterInv, RowsTyped, BillType, RequestsTyped, WriteType
    <3> QED
      BY <1>5, <1>6, <3>1 DEF Due
  <2>5. w.shows = StatusOf(Plus(ledger, w.rows), Due + w.charge, bill.deposit)
    <3> HIDE DEF w, posting
    <3> QED
      BY <1>3, <1>4, <1>5, <1>6, <2>4
  <2> HIDE DEF w, posting
  <2> QED
    BY <1>1, <2>1, <2>2, <2>3, <2>5 DEF Written
<1> HIDE DEF w, posting
<1> QED
  BY <1>1, <1>3, <1>4, <1>5, <1>6, PrepareKeepsSerial DEF AtWork

\* What the three handlers prepare that compute a new total.
LEMMA ReadTotalKeepsSerial ==
    ASSUME SerialInv, NEW q \in Requests, AtWork(q), seen[q].op # "return",
           NEW s, NEW r, ReadTotal(q, s, r), r[seen[q].item] \in Rents \cup {0},
           \/ seen[q].op = "update" /\ s = item
              /\ r = [rent EXCEPT ![seen[q].item] = r[seen[q].item]]
           \/ seen[q].op = "add" /\ s = [item EXCEPT ![seen[q].item] = AddedAs(q)]
              /\ r = [rent EXCEPT ![seen[q].item] = r[seen[q].item]]
           \/ seen[q].op = "cancelItem" /\ r = rent
              /\ s = [item EXCEPT ![seen[q].item] = "cancelled"]
    PROVE  RentsAsked' /\ FreshIsPrepared'
<1> DEFINE w == [NoWrite EXCEPT !.bill = Recomputed(bill, s, r), !.rent = r[seen[q].item]]
<1>1. Prepare(q, w)
  BY DEF ReadTotal
<1>2. w.bill = Recomputed(bill, s, r) /\ w.rent = r[seen[q].item]
  BY DEF NoWrite
<1> HIDE DEF w
<1>3. /\ item' = item /\ rent' = rent /\ bill' = bill /\ seen' = seen
      /\ write'[q] = w
  BY <1>1, TypeHalves
     DEF Prepare, records, money, SerialInv, CounterInv, RequestsTyped
<1>4. AddedAs(q)' = AddedAs(q)
  BY <1>3 DEF AddedAs
<1>5. Written(q)'
  BY <1>2, <1>3, <1>4 DEF Written
<1> QED
  BY <1>1, <1>2, <1>5, PrepareKeepsSerial

\* Every read.
LEMMA ReadKeepsSerial ==
    ASSUME SerialInv, NEW q \in Requests, Read(q)
    PROVE  RentsAsked' /\ FreshIsPrepared'
<1>0. /\ rent \in [Items -> Rents \cup {0}] /\ seen[q].item \in Items
  BY TypeHalves DEF SerialInv, RentsAsked, CounterInv, RequestsTyped, LoadType
<1>1. CASE ReadPayment(q)
  BY <1>1, ReadPaymentKeepsSerial
<1>2. ASSUME NEW paid \in Charges, NEW depositPaid \in Charges, NEW allow \in BOOLEAN,
             ReadPickup(q, paid, depositPaid, allow)
      PROVE  RentsAsked' /\ FreshIsPrepared'
  BY <1>2, ReadPickupKeepsSerial
<1>3. ASSUME NEW charge \in Charges, ReadReturn(q, charge)
      PROVE  RentsAsked' /\ FreshIsPrepared'
  BY <1>3, CountKeepsSerial
<1>4. CASE ReadSiblings(q)
  BY <1>4, SiblingsKeepsSerial
<1>5. ASSUME NEW a \in Rents, ReadUpdate(q, a)
      PROVE  RentsAsked' /\ FreshIsPrepared'
  <2> DEFINE r == [rent EXCEPT ![seen[q].item] = a]
  <2>1. /\ AtWork(q) /\ seen[q].op = "update" /\ ReadTotal(q, item, r)
    BY <1>5 DEF ReadUpdate, Doing, AtWork
  <2>2. r[seen[q].item] = a
    BY <1>0
  <2>3. r = [rent EXCEPT ![seen[q].item] = r[seen[q].item]]
    BY <2>2
  <2> HIDE DEF r
  <2> QED
    BY <2>1, <2>2, <2>3, ReadTotalKeepsSerial
<1>6. ASSUME NEW a \in Rents, ReadAdd(q, a)
      PROVE  RentsAsked' /\ FreshIsPrepared'
  <2> DEFINE r == [rent EXCEPT ![seen[q].item] = a]
             s == [item EXCEPT ![seen[q].item] = AddedAs(q)]
  <2>1. /\ AtWork(q) /\ seen[q].op = "add" /\ ReadTotal(q, s, r)
    BY <1>6 DEF ReadAdd, Doing, AtWork
  <2>2. r[seen[q].item] = a
    BY <1>0
  <2>3. r = [rent EXCEPT ![seen[q].item] = r[seen[q].item]]
    BY <2>2
  <2>4. s = [item EXCEPT ![seen[q].item] = AddedAs(q)]
    OBVIOUS
  <2> HIDE DEF r, s
  <2> QED
    BY <2>1, <2>2, <2>3, <2>4, ReadTotalKeepsSerial
<1>7. CASE ReadCancelItem(q)
  <2> DEFINE s == [item EXCEPT ![seen[q].item] = "cancelled"]
  <2>1. /\ AtWork(q) /\ seen[q].op = "cancelItem" /\ ReadTotal(q, s, rent)
    BY <1>7 DEF ReadCancelItem, Doing, AtWork
  <2>2. rent[seen[q].item] \in Rents \cup {0}
    BY <1>0
  <2>3. s = [item EXCEPT ![seen[q].item] = "cancelled"]
    OBVIOUS
  <2> HIDE DEF s
  <2> QED
    BY <2>1, <2>2, <2>3, ReadTotalKeepsSerial
<1> QED
  BY <1>1, <1>2, <1>3, <1>4, <1>5, <1>6, <1>7 DEF Read

\* Giving up.
LEMMA GiveUpKeepsSerial ==
    ASSUME SerialInv, NEW q \in Requests, GiveUp(q)
    PROVE  RentsAsked' /\ FreshIsPrepared'
<1>1. /\ Leave(q) /\ overtaken' = overtaken \ {q} /\ UNCHANGED records /\ begun' = begun
  BY DEF GiveUp
<1>2. RequestsTyped
  BY TypeHalves DEF SerialInv, CounterInv
<1>3. overtaken' \subseteq {p \in Requests \ {q} : step[p] # "idle"}
  BY <1>1, <1>2 DEF RequestsTyped
<1>4. /\ step'[q] = "idle"
      /\ \A p \in Requests \ {q} : step'[p] = step[p]
      /\ \A p \in Requests \ {q} : seen'[p] = seen[p]
      /\ \A p \in Requests \ {q} : write'[p] = write[p]
  BY <1>1, <1>2, <1>3, LeaveType
<1>5. write'[q].rent = 0
  BY <1>1, <1>2 DEF Leave, NoWrite, RequestsTyped
<1> QED
  BY <1>1, <1>4, <1>5, QuietSerial DEF AtWork

\* A commit: everybody else at work is overtaken.
LEMMA CommitKeepsSerial ==
    ASSUME SerialInv, NEW q \in Requests, Commit(q)
    PROVE  RentsAsked' /\ FreshIsPrepared'
<1>1. /\ Leave(q) /\ overtaken' = {p \in Requests \ {q} : step[p] # "idle"}
      /\ begun' = begun
  BY CommitsAreCommits DEF Commits
<1>2. RequestsTyped
  BY TypeHalves DEF SerialInv, CounterInv
<1>3. /\ step'[q] = "idle"
      /\ \A p \in Requests \ {q} : step'[p] = step[p]
      /\ \A p \in Requests \ {q} : write'[p] = write[p]
  BY <1>1, <1>2, LeaveType
<1>4. write'[q].rent = 0
  BY <1>1, <1>2 DEF Leave, NoWrite, RequestsTyped
<1>5. FreshIsPrepared'
  BY <1>1, <1>3 DEF FreshIsPrepared, AtWork
<1>6. /\ rent \in [Items -> Rents \cup {0}]
      /\ \A p \in Requests : write[p].rent \in Rents \cup {0}
  BY DEF SerialInv, RentsAsked
<1>7. \/ rent' = rent
      \/ rent' = [rent EXCEPT ![seen[q].item] = write[q].rent]
      \/ rent' = [i \in Items |-> 0]
  BY Zenon DEF Commit, CommitPayment, CommitPickup, CommitReturn, CommitUpdate, CommitAdd,
     CommitCancelItem, CommitUpdateOrder, CommitCancelOrder, CommitDelete,
     CommitPayout, money
<1>8. rent' \in [Items -> Rents \cup {0}]
  BY <1>6, <1>7
<1>9. \A p \in Requests : write'[p].rent \in Rents \cup {0}
  BY <1>3, <1>4, <1>6
<1> QED
  BY <1>5, <1>8, <1>9 DEF RentsAsked

\* Every step.
LEMMA StepKeepsSerial == SerialInv /\ [Next]_vars => SerialInv'
<1> SUFFICES ASSUME SerialInv, [Next]_vars PROVE SerialInv'
  OBVIOUS
<1>1. CounterInv'
  BY StepKeepsInv DEF SerialInv
<1>2. CASE Next
  <2>1. ASSUME NEW lines \in SUBSET Items, NEW r \in Rents, NEW dep \in Deposits,
               NEW advance \in Charges, CreateBooking(lines, r, dep, advance)
        PROVE  RentsAsked' /\ FreshIsPrepared'
    <3>1. /\ \A q \in Requests : step[q] = "idle"
          /\ rent' = [i \in Items |-> IF i \in lines THEN r ELSE 0]
          /\ step' = step /\ write' = write
      BY <2>1, Zenon DEF CreateBooking
    <3> QED
      BY <3>1 DEF SerialInv, RentsAsked, FreshIsPrepared, AtWork
  <2>2. RentsAsked' /\ FreshIsPrepared'
    BY <1>2, <2>1, StepKinds, LoadKeepsSerial, ReadKeepsSerial, CommitKeepsSerial,
       GiveUpKeepsSerial
  <2> QED
    BY <1>1, <2>2 DEF SerialInv
<1>3. CASE UNCHANGED vars
  <2>1. /\ UNCHANGED records /\ step' = step /\ seen' = seen /\ write' = write
        /\ overtaken' = overtaken /\ rent' = rent
    BY <1>3 DEF vars, records, money
  <2> QED
    BY <1>1, <2>1, PreparedSame DEF SerialInv, RentsAsked, FreshIsPrepared, AtWork
<1> QED
  BY <1>1, <1>2, <1>3 DEF SerialInv

\* An order that is not there has nothing prepared for it.
LEMMA InitSerial == Init => SerialInv
<1> SUFFICES ASSUME Init PROVE SerialInv
  OBVIOUS
<1>1. CounterInv
  BY InitInv
<1>2. RentsAsked /\ FreshIsPrepared
  BY DEF Init, RentsAsked, FreshIsPrepared, NoWrite, AtWork
<1> QED
  BY <1>1, <1>2 DEF SerialInv

\* What a request nobody has committed in front of is going to write is what
\* it would write if it read everything now.
THEOREM SerialInvHolds == Spec => []SerialInv
  BY InitSerial, StepKeepsSerial, PTL DEF Spec

\* Rows posted one by one and rows added up are the same ledger.
LEMMA PlusEmpty ==
    ASSUME NEW l \in Ledgers PROVE Plus(l, EmptyLedger) = l
  BY DEF Plus, EmptyLedger, Ledgers

\* A row added to a sum of rows is a row posted on the sum, ...
LEMMA PlusPost ==
    ASSUME NEW l \in Ledgers, NEW m \in Ledgers, NEW t \in PaymentTypes, NEW a \in Nat
    PROVE  Plus(l, Post(m, t, a)) = Post(Plus(l, m), t, a)
<1> DEFINE x == Plus(l, Post(m, t, a))
           y == Post(Plus(l, m), t, a)
<1>1. /\ Post(m, t, a) \in Ledgers /\ Post(m, t, a)[t] = m[t] + a
      /\ \A u \in PaymentTypes \ {t} : Post(m, t, a)[u] = m[u]
  BY PostType
<1>2. Plus(l, m) \in Ledgers /\ \A u \in PaymentTypes : Plus(l, m)[u] = l[u] + m[u]
  BY PlusType
<1>3. x \in Ledgers /\ \A u \in PaymentTypes : x[u] = l[u] + Post(m, t, a)[u]
  BY <1>1, PlusType
<1>4. /\ y \in Ledgers /\ y[t] = Plus(l, m)[t] + a
      /\ \A u \in PaymentTypes \ {t} : y[u] = Plus(l, m)[u]
  BY <1>2, PostType
<1> HIDE DEF x, y
<1>5. \A u \in PaymentTypes : l[u] \in Nat /\ m[u] \in Nat
  BY DEF Ledgers
<1>6. \A u \in PaymentTypes : x[u] = y[u]
  BY <1>1, <1>2, <1>3, <1>4, <1>5
<1>7. x = y
  BY <1>3, <1>4, <1>6 DEF Ledgers
<1> QED
  BY <1>7 DEF x, y

\* ... one row is posted as it is, ...
LEMMA PlusRow ==
    ASSUME NEW l \in Ledgers, NEW t \in PaymentTypes, NEW a \in Nat
    PROVE  Plus(l, Row(t, a)) = Post(l, t, a)
<1>1. Plus(l, Post(EmptyLedger, t, a)) = Post(Plus(l, EmptyLedger), t, a)
  BY EmptyIsLedger, PlusPost
<1> QED
  BY <1>1, PlusEmpty DEF Row

\* ... and two one after the other.
LEMMA PlusTwoRows ==
    ASSUME NEW l \in Ledgers, NEW t \in PaymentTypes, NEW a \in Nat,
           NEW u \in PaymentTypes, NEW b \in Nat
    PROVE  Plus(l, Plus(Row(t, a), Row(u, b))) = Post(Post(l, t, a), u, b)
<1>1. Row(t, a) \in Ledgers
  BY RowType
<1>2. Plus(Row(t, a), Row(u, b)) = Post(Row(t, a), u, b)
  BY <1>1, PlusRow
<1>3. Plus(l, Post(Row(t, a), u, b)) = Post(Plus(l, Row(t, a)), u, b)
  BY <1>1, PlusPost
<1> QED
  BY <1>2, <1>3, PlusRow

\* The lines that count stay the same if none enters or leaves the order.
LEMMA LiveSame ==
    ASSUME NEW s, NEW t,
           \A i \in Items : t[i] \in {"absent", "cancelled"} <=> s[i] \in {"absent", "cancelled"}
    PROVE  Live(t) = Live(s)
  BY DEF Live

\* Ledger's sums are this module's, ...
LEMMA SameSums ==
    ASSUME NEW l, NEW t, NEW a
    PROVE  /\ Serial!Post(l, t, a) = Post(l, t, a)
           /\ Serial!NonNegative(a) = NonNegative(a)
           /\ Serial!Lesser(l, a) = Lesser(l, a)
           /\ Serial!DepositHeld(l) = DepositHeld(l)
           /\ Serial!RentCollected(l) = RentCollected(l)
           /\ Serial!CashIn(l) = CashIn(l)
           /\ Serial!EmptyLedger = EmptyLedger
  BY Zenon DEF Serial!Post, Post, Serial!NonNegative, NonNegative, Serial!Lesser, Lesser,
     Serial!DepositHeld, DepositHeld, Serial!RentCollected, RentCollected,
     Serial!CashIn, CashIn, Serial!EmptyLedger, EmptyLedger,
     Serial!PaymentTypes, PaymentTypes

\* ... so are its transfers between the pools, ...
LEMMA SameNetting ==
    ASSUME NEW r, NEW d
    PROVE  Serial!Netted(r, d) = Netted(r, d)
  BY Zenon DEF Serial!Netted, Netted, Serial!Transfer, Transfer, Serial!Lesser, Lesser,
     Serial!NonNegative, NonNegative

\* ... its balances, ...
LEMMA SameBalances ==
    ASSUME NEW l, NEW p, NEW d
    PROVE  Serial!Balances(l, p, d) = Balances(l, p, d)
  BY SameSums, SameNetting, Zenon DEF Serial!Balances, Balances

\* ... what is outstanding, ...
LEMMA SameOutstanding ==
    ASSUME NEW b
    PROVE  Serial!OutstandingOf(b) = OutstandingOf(b)
  BY Zenon DEF Serial!OutstandingOf, OutstandingOf, Serial!NonNegative, NonNegative

\* ... the payment status, ...
LEMMA SameStatus ==
    ASSUME NEW l, NEW p, NEW d
    PROVE  Serial!StatusOf(l, p, d) = StatusOf(l, p, d)
  BY SameBalances, SameOutstanding, Zenon DEF Serial!StatusOf, StatusOf,
     Serial!RentCollected, RentCollected, Serial!DepositHeld, DepositHeld,
     Serial!NonNegative, NonNegative

\* ... and the settlement of a cancelled order; ...
LEMMA SameSettlement ==
    ASSUME NEW l, NEW p
    PROVE  Serial!Settled(l, p) = Settled(l, p)
  BY Zenon DEF Serial!Settled, Settled, Serial!Post, Post, Serial!NonNegative,
     NonNegative, Serial!RentCollected, RentCollected, Serial!DepositHeld, DepositHeld

\* ... and so is its state machine.
LEMMA SameStates ==
    /\ Serial!Statuses = Statuses /\ Serial!Editable = Editable
    /\ Serial!Terminal = Terminal /\ Serial!OutWithCustomer = OutWithCustomer
    /\ \A s, t : Serial!CanTransition(s, t) <=> CanTransition(s, t)
    /\ \A s : Serial!Active(s) = Live(s)
    /\ \A s : Serial!Finished(s) <=> Finished(s)
  BY Zenon DEF Serial!Statuses, Statuses, Serial!Editable, Editable, Serial!Terminal,
     Terminal, Serial!OutWithCustomer, OutWithCustomer, Serial!CanTransition,
     CanTransition, Serial!Transitions, Transitions, Serial!Active, Live,
     Serial!Finished, Finished

\* Ledger's view of the bill.
LEMMA SerialBill ==
    ASSUME RowsTyped, TotalIsRight
    PROVE  /\ SumOver(rent, Live(item)) \in Nat
           /\ bill.total = SumOver(rent, Live(item)) + bill.additional
           /\ Live(item) = {} => bill.deposit = 0
           /\ Serial!RentPayable = Due
           /\ Due \in Nat
<1>1. IsFiniteSet(Live(item)) /\ Live(item) \subseteq Items
  <2>1. Live(item) \subseteq Items
    BY DEF Live
  <2> QED
    BY <2>1, CounterAssumption, FS_Subset
<1>2. SumOver(rent, Live(item)) \in Nat
  BY <1>1, SumIsNat DEF RowsTyped
<1>3. /\ bill.total \in Nat /\ bill.additional \in Nat /\ Damage(damage) \in Nat
  BY DamageType DEF RowsTyped, BillType
<1>4. bill = [total |-> SumOver(rent, Live(item)) + bill.additional,
              additional |-> bill.additional,
              deposit |-> IF Live(item) = {} THEN 0 ELSE bill.deposit]
  BY RecomputedIs DEF RowsTyped, TotalIsRight
<1> DEFINE g == SumOver(rent, Live(item))
<1> HIDE DEF g
<1>5. bill.total = g + bill.additional /\ (Live(item) = {} => bill.deposit = 0)
  BY <1>4 DEF g
<1>6. Serial!RentPayable = g - 0 + bill.additional + Damage(damage)
  BY DEF Serial!RentPayable, Serial!TotalAmount, g
<1>7. g \in Nat
  BY <1>2 DEF g
<1> QED
  BY <1>3, <1>5, <1>6, <1>7 DEF Due, g

\* A commit that leaves the bill and the lines that count leaves Ledger's bill.
LEMMA SerialBillSame ==
    ASSUME rent' = rent, bill' = bill, order # "none", order' # "none",
           Live(item') = Live(item)
    PROVE  UNCHANGED Serial!bill
<1>1. SumOver(rent', Live(item')) = SumOver(rent, Live(item))
  OBVIOUS
<1>2. (order' # "none") = (order # "none")
  OBVIOUS
<1> QED
  BY <1>1, <1>2 DEF Serial!bill

\* Whoever is at work and has not been overtaken.
LEMMA Undisturbed ==
    ASSUME SerialInv, NEW q \in Requests, AtWork(q), q \notin overtaken
    PROVE  /\ StillSo(q) /\ Prepared(q) /\ RowsTyped
           /\ seen[q] \in LoadType /\ write[q] \in WriteType
           /\ seen[q].order \in {"draft", "confirmed", "cancelled"}
  BY TypeHalves DEF SerialInv, CounterInv, FreshIsStillSo, FreshIsPrepared,
     LoadedOrders, RequestsTyped

\* recordPayment as Ledger serves it, whatever rows it chose.
LEMMA PaymentRecords ==
    ASSUME SerialInv, NEW q \in Requests, q \notin overtaken, TotalIsRight,
           CommitPayment(q), NEW rows \in Ledgers,
           write[q] = Posting(ledger, rows, Due, bill.deposit)
    PROVE  /\ Serial!RecordPayment(Plus(ledger, rows), seen[q].op = "payment")
           /\ bill' = bill /\ rent' = rent /\ damage' = damage /\ settlement' = settlement
           /\ Live(item') = Live(item)
           /\ \A i \in Items : item'[i] = "returned" <=> item[i] = "returned"
<1> DEFINE confirms == seen[q].op = "payment" /\ seen[q].order = "draft"
           drafts == IF confirms THEN {i \in Items : item[i] = "draft"} ELSE {}
           l == Plus(ledger, rows)
<1>1. /\ AtWork(q) /\ seen[q].op \in {"payment", "refund"} /\ order # "none"
      /\ PostRows(q)
      /\ order' = IF confirms THEN "confirmed" ELSE seen[q].order
      /\ item' = [i \in Items |-> IF i \in drafts THEN "confirmed" ELSE item[i]]
      /\ rent' = rent /\ bill' = bill /\ damage' = damage /\ settlement' = settlement
  BY Zenon DEF CommitPayment, AtWork
<1>2. /\ StillSo(q) /\ RowsTyped
      /\ seen[q].order \in {"draft", "confirmed", "cancelled"}
  BY <1>1, Undisturbed
<1>3. order = seen[q].order /\ order \in {"draft", "confirmed"}
  BY <1>1, <1>2 DEF StillSo, Admits
<1>4. write[q].rows = rows /\ write[q].shows = StatusOf(l, Due, bill.deposit)
  BY DEF Posting, NoWrite
<1>5. ledger' = l /\ paymentStatus' = StatusOf(l, Due, bill.deposit) /\ WithinBound(ledger')
  BY <1>1, <1>4, Zenon DEF PostRows
<1>6. l \in Ledgers
  BY <1>2, PlusType DEF RowsTyped
<1>7. Serial!WithinBound(l)
  <2> HIDE DEF l
  <2>1. WithinBound(l)
    BY <1>5
  <2> QED
    BY <1>6, <2>1, LedgerNat, CounterAssumption DEF WithinBound, Serial!WithinBound
<1>8. Serial!RentPayable = Due
  BY <1>2, SerialBill
<1>9. \A i \in Items :
        /\ item'[i] \in {"absent", "cancelled"} <=> item[i] \in {"absent", "cancelled"}
        /\ item'[i] = "returned" <=> item[i] = "returned"
  BY <1>1
<1>10. Live(item') = Live(item)
  BY <1>9, LiveSame
<1>11. order' # "none"
  BY <1>1, <1>3
<1>12. UNCHANGED Serial!bill
  BY <1>1, <1>10, <1>11, SerialBillSame
<1>13. IF order = "draft" /\ seen[q].op = "payment"
       THEN order' = "confirmed" /\ item' = Serial!Confirmed(item)
       ELSE UNCHANGED <<order, item>>
  <2>1. CASE confirms
    <3>1. item' = [i \in Items |-> IF item[i] = "draft" THEN "confirmed" ELSE item[i]]
      BY <1>1, <2>1
    <3> QED
      BY <1>1, <1>3, <2>1, <3>1 DEF Serial!Confirmed
  <2>2. CASE ~confirms
    <3>1. \A i \in Items : item'[i] = item[i]
      BY <1>1, <2>2
    <3>2. item' = item
      BY <1>1, <1>2, <3>1 DEF RowsTyped
    <3> QED
      BY <1>1, <1>3, <2>2, <3>2
  <2> QED
    BY <2>1, <2>2
<1> HIDE DEF l
<1>14. Serial!RecordPayment(l, seen[q].op = "payment")
  <2>1. /\ order \in {"draft", "confirmed"} /\ Serial!WithinBound(l) /\ ledger' = l
        /\ paymentStatus' = StatusOf(l, Serial!RentPayable, bill.deposit)
        /\ UNCHANGED <<Serial!bill, Damage(damage)>>
    BY <1>1, <1>3, <1>5, <1>7, <1>8, <1>12
  <2> QED
    BY <1>13, <2>1, SameStatus, Zenon DEF Serial!RecordPayment
<1> QED
  BY <1>1, <1>9, <1>10, <1>14 DEF l

\* No race shows after a commit that leaves the bill and the lines that count,
\* and charges damage only to what is back.
LEMMA StillConsistent ==
    ASSUME Consistent, bill' = bill, rent' = rent, Live(item') = Live(item),
           \A i \in Items : item'[i] # "returned" => damage'[i] = 0
    PROVE  Consistent'
<1>1. TotalIsRight'
  BY DEF Consistent, TotalIsRight, Recomputed
<1> QED
  BY <1>1 DEF Consistent

\* recordPayment, undisturbed.
LEMMA PaymentIsSerial ==
    ASSUME SerialInv, NEW q \in Requests, q \notin overtaken, Consistent, CommitPayment(q)
    PROVE  Serial!Next /\ Consistent' /\ settlement' = settlement
<1> DEFINE b == Balances(ledger, Due, bill.deposit)
<1>1. /\ AtWork(q) /\ step[q] = "ready" /\ seen[q].op \in {"payment", "refund"}
  BY DEF CommitPayment, AtWork
<1>2. /\ StillSo(q) /\ Prepared(q) /\ RowsTyped
  BY <1>1, Undisturbed
<1>3. TotalIsRight /\ Written(q)
  BY <1>1, <1>2 DEF Consistent, Prepared
<1>4. /\ ledger \in Ledgers /\ Due \in Int /\ bill.deposit \in Int
      /\ Serial!CurrentBalances = b
  <2>1. ledger \in Ledgers /\ Due \in Int /\ bill.deposit \in Int
    BY <1>2, <1>3, SerialBill DEF RowsTyped, BillType
  <2>2. Serial!RentPayable = Due
    BY <1>2, <1>3, SerialBill
  <2>3. Serial!CurrentBalances = Serial!Balances(ledger, Due, bill.deposit)
    BY <2>2 DEF Serial!CurrentBalances
  <2> QED
    BY <2>1, <2>3, SameBalances
<1>5. b.rent \in Int /\ b.deposit \in Int
  <2>1. Due - RentCollected(ledger) \in Int
        /\ bill.deposit - ledger["security_deposit"] \in Int
    BY <1>4, LedgerNat
  <2> QED
    BY <2>1, NettedOneSided DEF Balances
<1>6. PICK rows :
        /\ \/ seen[q].op = "payment" /\ rows \in Inflows(b)
           \/ seen[q].op = "refund" /\ rows \in Outflows(ledger)
        /\ write[q] = Posting(ledger, rows, Due, bill.deposit)
  BY <1>1, <1>3 DEF Written
<1> HIDE DEF b
<1>7. rows \in Ledgers
  BY <1>5, <1>6, InflowsType, OutflowsType
<1> DEFINE l == Plus(ledger, rows)
<1>8. /\ Serial!RecordPayment(l, seen[q].op = "payment")
      /\ bill' = bill /\ rent' = rent /\ damage' = damage /\ settlement' = settlement
      /\ Live(item') = Live(item)
      /\ \A i \in Items : item'[i] = "returned" <=> item[i] = "returned"
  BY <1>3, <1>6, <1>7, PaymentRecords
<1>9. Consistent'
  BY <1>8, StillConsistent DEF Consistent
<1>10. /\ Payments \subseteq Nat \ {0}
       /\ {"advance", "balance", "security_deposit", "refund", "deposit_release"}
             \subseteq PaymentTypes
  BY CounterAssumption DEF PaymentTypes
<1> HIDE DEF l
<1>11. CASE seen[q].op = "payment"
  <2>0. Serial!RecordPayment(l, TRUE)
    BY <1>8, <1>11 DEF Serial!RecordPayment
  <2>1. ASSUME NEW t \in {"advance", "balance"}, NEW a \in Payments,
               a <= NonNegative(b.rent), rows = Row(t, a)
        PROVE  Serial!RecordInflow(t, a)
    <3>1. l = Post(ledger, t, a)
      BY <1>4, <1>10, <2>1, PlusRow DEF l
    <3>2. a > 0 /\ t # "security_deposit"
      BY <1>10
    <3> QED
      BY <1>4, <2>0, <2>1, <3>1, <3>2, SameSums DEF Serial!RecordInflow
  <2>2. ASSUME NEW a \in Payments,
               a <= NonNegative(b.deposit), rows = Row("security_deposit", a)
        PROVE  Serial!RecordInflow("security_deposit", a)
    <3>1. l = Post(ledger, "security_deposit", a)
      BY <1>4, <1>10, <2>2, PlusRow DEF l
    <3>2. a > 0
      BY <1>10
    <3> QED
      BY <1>4, <2>0, <2>2, <3>1, <3>2, SameSums DEF Serial!RecordInflow
  <2> DEFINE rentDue == NonNegative(b.rent)
             depositDue == NonNegative(b.deposit)
  <2>3. ASSUME NEW a \in Payments, a <= rentDue + depositDue,
               rows = Plus(Row("balance", Lesser(a, rentDue)),
                           Row("security_deposit", a - Lesser(a, rentDue)))
        PROVE  Serial!RecordFullPayment(a)
    <3>1. rentDue \in Nat /\ a \in Nat /\ a > 0
      BY <1>5, <1>10 DEF NonNegative
    <3>2. Lesser(a, rentDue) \in Nat /\ a - Lesser(a, rentDue) \in Nat
      <4> HIDE DEF rentDue
      <4> QED
        BY <3>1 DEF Lesser
    <3> DEFINE part == Lesser(a, rentDue)
    <3> HIDE DEF part
    <3>3. l = Post(Post(ledger, "balance", part), "security_deposit", a - part)
      <4>1. part \in Nat /\ a - part \in Nat
        BY <3>2 DEF part
      <4>2. rows = Plus(Row("balance", part), Row("security_deposit", a - part))
        BY <2>3 DEF part
      <4> QED
        BY <1>4, <1>10, <4>1, <4>2, PlusTwoRows DEF l
    <3>4. /\ Serial!NonNegative(Serial!CurrentBalances.rent) = rentDue
          /\ Serial!NonNegative(Serial!CurrentBalances.deposit) = depositDue
      BY <1>4, SameSums
    <3> HIDE DEF rentDue, depositDue
    <3>5. Serial!Lesser(a, rentDue) = part
      BY SameSums DEF part
    <3>6. Serial!Post(Serial!Post(ledger, "balance", part), "security_deposit", a - part) = l
      BY <3>3, SameSums
    <3> QED
      BY <2>0, <2>3, <3>1, <3>4, <3>5, <3>6, Zenon DEF Serial!RecordFullPayment
  <2>4. \/ \E t \in {"advance", "balance", "security_deposit"}, a \in Payments :
              Serial!RecordInflow(t, a)
        \/ \E a \in Payments : Serial!RecordFullPayment(a)
    <3>1. rows \in Inflows(b)
      BY <1>6, <1>11
    <3> QED
      BY <2>1, <2>2, <2>3, <3>1 DEF Inflows
  <2> QED
    BY <1>8, <1>9, <2>4, Zenon DEF Serial!Next
<1>12. CASE seen[q].op = "refund"
  <2>0. Serial!RecordPayment(l, FALSE)
    BY <1>8, <1>12 DEF Serial!RecordPayment
  <2>1. ASSUME NEW a \in Payments, rows = Row("refund", a),
               a <= NonNegative(ledger["advance"] + ledger["balance"] - ledger["refund"])
        PROVE  Serial!RecordRefund(a)
    <3>1. l = Post(ledger, "refund", a)
      BY <1>4, <1>10, <2>1, PlusRow DEF l
    <3>2. a > 0
      BY <1>10
    <3> QED
      BY <2>0, <2>1, <3>1, <3>2, SameSums, Zenon DEF Serial!RecordRefund
  <2>2. ASSUME NEW a \in Payments, rows = Row("deposit_release", a),
               a <= NonNegative(ledger["security_deposit"] - ledger["deposit_release"])
        PROVE  Serial!RecordDepositRelease(a)
    <3>1. l = Post(ledger, "deposit_release", a)
      BY <1>4, <1>10, <2>2, PlusRow DEF l
    <3>2. a > 0
      BY <1>10
    <3> QED
      BY <2>0, <2>2, <3>1, <3>2, SameSums, Zenon DEF Serial!RecordDepositRelease
  <2>3. \/ \E a \in Payments : Serial!RecordRefund(a)
        \/ \E a \in Payments : Serial!RecordDepositRelease(a)
    <3>1. rows \in Outflows(ledger)
      BY <1>6, <1>12
    <3> QED
      BY <2>1, <2>2, <3>1 DEF Outflows
  <2> QED
    BY <1>8, <1>9, <2>3, Zenon DEF Serial!Next
<1> QED
  BY <1>1, <1>11, <1>12

\* confirmPickup, undisturbed.
LEMMA PickupIsSerial ==
    ASSUME SerialInv, NEW q \in Requests, q \notin overtaken, Consistent, CommitPickup(q)
    PROVE  Serial!Next /\ Consistent' /\ settlement' = settlement
<1> DEFINE i == seen[q].item
<1>1. /\ AtWork(q) /\ step[q] = "ready" /\ seen[q].op = "pickup"
      /\ item[i] # "absent" /\ PostRows(q)
      /\ item' = [item EXCEPT ![i] = "rented"]
      /\ order' = order /\ rent' = rent /\ bill' = bill /\ damage' = damage
      /\ settlement' = settlement
  BY DEF CommitPickup, Doing, AtWork
<1>2. /\ StillSo(q) /\ Prepared(q) /\ RowsTyped /\ i \in Items
  BY <1>1, Undisturbed DEF LoadType
<1>3. TotalIsRight /\ Written(q)
  BY <1>1, <1>2 DEF Consistent, Prepared
<1>4. PICK paid \in Charges, depositPaid \in Charges :
        write[q] = Posting(ledger, Plus(Row("balance", paid),
                                        Row("security_deposit", depositPaid)),
                           Due, bill.deposit)
  BY <1>1, <1>3 DEF Written
<1> DEFINE rows == Plus(Row("balance", paid), Row("security_deposit", depositPaid))
           l == Plus(ledger, rows)
<1>5. /\ ledger \in Ledgers /\ paid \in Nat /\ depositPaid \in Nat
      /\ {"balance", "security_deposit"} \subseteq PaymentTypes
  BY <1>2, CounterAssumption DEF RowsTyped, Charges, PaymentTypes
<1>6. rows \in Ledgers /\ l \in Ledgers
      /\ l = Post(Post(ledger, "balance", paid), "security_deposit", depositPaid)
  BY <1>5, RowType, PlusType, PlusTwoRows
<1>7. write[q].rows = rows /\ write[q].shows = StatusOf(l, Due, bill.deposit)
  BY <1>4 DEF Posting, NoWrite
<1> HIDE DEF rows
<1>8. ledger' = l /\ paymentStatus' = StatusOf(l, Due, bill.deposit) /\ WithinBound(l)
  BY <1>1, <1>7, Zenon DEF PostRows
<1> HIDE DEF l
<1>9. Serial!WithinBound(l)
  BY <1>6, <1>8, LedgerNat, CounterAssumption DEF WithinBound, Serial!WithinBound
<1>10. item[i] \in Statuses \ {"rented"} /\ CanTransition(item[i], "rented")
  BY <1>1, <1>2 DEF StillSo, Admits, RowsTyped
<1>11. \A j \in Items :
         /\ item'[j] \in {"absent", "cancelled"} <=> item[j] \in {"absent", "cancelled"}
         /\ item'[j] # "returned" => item[j] # "returned"
  BY <1>1, <1>2, <1>10 DEF RowsTyped, CanTransition, Transitions
<1>12. Live(item') = Live(item)
  BY <1>11, LiveSame
<1>13. Consistent'
  BY <1>1, <1>11, <1>12, StillConsistent DEF Consistent
<1>14. order # "none"
  BY <1>1, <1>2 DEF SerialInv, CounterInv, GoneIsEmpty
<1>15. UNCHANGED Serial!bill
  BY <1>1, <1>12, <1>14, SerialBillSame
<1>16. Serial!RentPayable = Due
  BY <1>2, <1>3, SerialBill
<1>17. Serial!ConfirmPickup({i}, paid, depositPaid, TRUE)
  <2>1. Serial!Post(Serial!Post(ledger, "balance", paid), "security_deposit", depositPaid) = l
    BY <1>6, SameSums
  <2>2. item' = [j \in Items |-> IF j \in {i} THEN "rented" ELSE item[j]]
    BY <1>1, <1>2 DEF RowsTyped
  <2>3. \A j \in {i} : /\ item[j] \in Serial!Statuses \ {"rented"}
                       /\ Serial!CanTransition(item[j], "rented")
    BY <1>10, SameStates
  <2>4. paymentStatus' = Serial!StatusOf(l, Serial!RentPayable, bill.deposit)
    BY <1>8, <1>16, SameStatus
  <2>5. UNCHANGED <<order, Serial!bill, Damage(damage)>>
    BY <1>1, <1>15
  <2> HIDE DEF i
  <2> QED
    BY <1>8, <1>9, <1>14, <2>1, <2>2, <2>3, <2>4, <2>5, Zenon DEF Serial!ConfirmPickup
<1>18. Serial!Next
  <2>1. {i} \in SUBSET Items /\ paid \in Serial!Charges /\ depositPaid \in Serial!Charges
    BY <1>2 DEF Serial!Charges, Charges
  <2> HIDE DEF i
  <2> QED
    BY <1>17, <2>1, Zenon DEF Serial!Next
<1> QED
  BY <1>1, <1>13, <1>18

\* The damage of an order after a return of a line that was not charged.
LEMMA DamageAdded ==
    ASSUME NEW d \in [Items -> Nat], NEW i \in Items, d[i] = 0, NEW c \in Nat
    PROVE  Damage([d EXCEPT ![i] = c]) = Damage(d) + c
<1> DEFINE e == [d EXCEPT ![i] = c]
<1>1. /\ e[i] = c /\ \A j \in Items \ {i} : e[j] = d[j]
      /\ \A j \in Items : e[j] \in Int
      /\ \A j \in Items : d[j] \in Int
  OBVIOUS
<1> HIDE DEF e
<1>2. SumOver(e, Items) = SumOver(d, Items) + (e[i] - d[i])
  BY <1>1, SumChange, CounterAssumption
<1>3. Damage(d) \in Nat
  BY DamageType
<1> QED
  BY <1>1, <1>2, <1>3 DEF Damage, e

\* What an undisturbed return posts is what Ledger posts.
LEMMA ReturnPosts ==
    ASSUME NEW l \in Ledgers, NEW charge \in Nat, NEW last \in BOOLEAN
    PROVE  LET held    == DepositHeld(l)
               applied == Lesser(charge, held)
               rows    == Post(Row("deposit_applied", applied), "deposit_release",
                               IF last THEN held - applied ELSE 0)
               kept    == Post(l, "deposit_applied", applied)
           IN  Plus(l, rows) = IF last THEN Post(kept, "deposit_release", held - applied)
                               ELSE kept
<1> DEFINE held == DepositHeld(l)
           applied == Lesser(charge, held)
           back == IF last THEN held - applied ELSE 0
           kept == Post(l, "deposit_applied", applied)
<1>1. held \in Nat
  BY LedgerNat
<1> HIDE DEF held
<1>2. applied \in Nat /\ held - applied \in Nat
  BY <1>1 DEF Lesser
<1> HIDE DEF applied
<1>3. back \in Nat
  BY <1>2
<1>4. "deposit_applied" \in PaymentTypes /\ "deposit_release" \in PaymentTypes
  BY DEF PaymentTypes
<1>5. Row("deposit_applied", applied) \in Ledgers /\ kept \in Ledgers
      /\ Plus(l, Row("deposit_applied", applied)) = kept
  BY <1>2, <1>4, RowType, PlusRow, PostType
<1> HIDE DEF back, kept
<1>6. Plus(l, Post(Row("deposit_applied", applied), "deposit_release", back))
        = Post(kept, "deposit_release", back)
  BY <1>3, <1>4, <1>5, PlusPost
<1>7. Post(kept, "deposit_release", 0) = kept
  BY <1>4, <1>5, PostNothing
<1> QED
  BY <1>6, <1>7 DEF back, kept, applied, held

\* returnBooking, undisturbed.
LEMMA ReturnIsSerial ==
    ASSUME SerialInv, NEW q \in Requests, q \notin overtaken, Consistent, CommitReturn(q)
    PROVE  /\ Serial!Next /\ Consistent'
           /\ \A j \in Items : settlement[j].status = "paid" => settlement'[j] = settlement[j]
<1> DEFINE i == seen[q].item
           charge == write[q].charge
           held == DepositHeld(ledger)
           applied == Lesser(charge, held)
           rows == Post(Row("deposit_applied", applied), "deposit_release",
                        IF LastOut(q) THEN held - applied ELSE 0)
           kept == Post(ledger, "deposit_applied", applied)
           l == IF LastOut(q) THEN Post(kept, "deposit_release", held - applied) ELSE kept
<1>1. /\ AtWork(q) /\ step[q] = "ready" /\ seen[q].op = "return"
      /\ item[i] # "absent" /\ PostRows(q)
      /\ item' = [item EXCEPT ![i] = "returned"]
      /\ damage' = [damage EXCEPT ![i] = charge]
      /\ Settle(i, seen[q].rent)
      /\ order' = order /\ rent' = rent /\ bill' = bill
  BY DEF CommitReturn, Doing, AtWork
<1>2. /\ StillSo(q) /\ Prepared(q) /\ RowsTyped /\ i \in Items
  BY <1>1, Undisturbed DEF LoadType
<1>3. /\ TotalIsRight /\ charge \in Charges
      /\ write[q].shows = StatusOf(Plus(ledger, write[q].rows), Due + charge, bill.deposit)
  BY <1>1, <1>2 DEF Consistent, Prepared, Written
<1>4. charge \in Nat /\ ledger \in Ledgers /\ damage \in [Items -> Nat]
      /\ LastOut(q) \in BOOLEAN
  <2>1. charge \in Nat
    <3> HIDE DEF charge
    <3> QED
      BY <1>3, CounterAssumption DEF Charges
  <2>2. ledger \in Ledgers /\ damage \in [Items -> Nat]
    BY <1>2 DEF RowsTyped
  <2>3. LastOut(q) \in BOOLEAN
    BY DEF LastOut
  <2> QED
    BY <2>1, <2>2, <2>3
<1>5. write[q].rows = rows
  BY <1>1, <1>2 DEF StillSo, ReturnRows
<1>6. Plus(ledger, rows) = l
  <2> HIDE DEF charge
  <2> QED
    BY <1>4, ReturnPosts
<1> HIDE DEF rows
<1>7. ledger' = l /\ paymentStatus' = StatusOf(l, Due + charge, bill.deposit)
  BY <1>1, <1>3, <1>5, <1>6, Zenon DEF PostRows
<1>8. item[i] \in Statuses \ {"returned"} /\ CanTransition(item[i], "returned")
  BY <1>1, <1>2 DEF StillSo, Admits, RowsTyped
<1>9. \A j \in Items :
         /\ item'[j] \in {"absent", "cancelled"} <=> item[j] \in {"absent", "cancelled"}
         /\ item'[j] # "returned" => item[j] # "returned" /\ j # i
  BY <1>1, <1>2, <1>8 DEF RowsTyped, CanTransition, Transitions
<1>10. Live(item') = Live(item)
  BY <1>9, LiveSame
<1>11. \A j \in Items : item'[j] # "returned" => damage'[j] = 0
  BY <1>1, <1>4, <1>9 DEF Consistent
<1>12. Consistent'
  BY <1>1, <1>10, <1>11, StillConsistent
<1>13. order # "none"
  BY <1>1, <1>2 DEF SerialInv, CounterInv, GoneIsEmpty
<1>14. UNCHANGED Serial!bill
  BY <1>1, <1>10, <1>13, SerialBillSame
<1>15. Serial!RentPayable = Due
  BY <1>2, <1>3, SerialBill
<1>16. Damage(damage') = Damage(damage) + charge
  <2>1. damage[i] = 0
    BY <1>2, <1>8 DEF Consistent
  <2> HIDE DEF i, charge
  <2> QED
    BY <1>1, <1>2, <1>4, <2>1, DamageAdded
<1>17. Serial!ReturnBooking(i, charge)
  <2>1. Serial!Forfeited(charge) = applied
    BY SameSums DEF Serial!Forfeited
  <2>2. (\A j \in Items \ {i} : item[j] \in Serial!Terminal \cup {"absent"}) <=> LastOut(q)
    BY SameStates DEF LastOut
  <2>3. /\ Serial!Post(ledger, "deposit_applied", applied) = kept
        /\ Serial!Post(kept, "deposit_release", Serial!DepositHeld(ledger) - applied)
             = Post(kept, "deposit_release", held - applied)
    BY SameSums
  <2>4. item[i] \in Serial!Statuses \ {"returned"} /\ Serial!CanTransition(item[i], "returned")
    BY <1>8, SameStates
  <2>5. paymentStatus' = Serial!StatusOf(l, Serial!RentPayable + charge, bill.deposit)
    <3> HIDE DEF l, charge
    <3> QED
      BY <1>7, <1>15, SameStatus
  <2>6. UNCHANGED <<order, Serial!bill>>
    BY <1>1, <1>14
  <2>7. ledger' = IF \A j \in Items \ {i} : item[j] \in Serial!Terminal \cup {"absent"}
                  THEN Serial!Post(Serial!Post(ledger, "deposit_applied", Serial!Forfeited(charge)),
                                   "deposit_release",
                                   Serial!DepositHeld(ledger) - Serial!Forfeited(charge))
                  ELSE Serial!Post(ledger, "deposit_applied", Serial!Forfeited(charge))
    <3> HIDE DEF charge, applied, held, kept, i
    <3> QED
      BY <1>7, <2>1, <2>2, <2>3
  <2> HIDE DEF i, charge, applied, held, kept
  <2> DEFINE m == IF \A j \in Items \ {i} : item[j] \in Serial!Terminal \cup {"absent"}
                  THEN Serial!Post(Serial!Post(ledger, "deposit_applied", Serial!Forfeited(charge)),
                                   "deposit_release",
                                   Serial!DepositHeld(ledger) - Serial!Forfeited(charge))
                  ELSE Serial!Post(ledger, "deposit_applied", Serial!Forfeited(charge))
  <2>8. m = l
    BY <1>7, <2>7
  <2>9. paymentStatus' = Serial!StatusOf(m, Serial!RentPayable + charge, bill.deposit)
    <3> HIDE DEF m, l
    <3> QED
      BY <2>5, <2>8
  <2> QED
    BY <1>1, <1>16, <2>4, <2>6, <2>7, <2>9, Zenon DEF Serial!ReturnBooking
<1>18. Serial!Next
  <2>1. charge \in Serial!Charges
    BY <1>3 DEF Serial!Charges, Charges
  <2> HIDE DEF i, charge
  <2> QED
    BY <1>2, <1>17, <2>1, Zenon DEF Serial!Next
<1>19. \A j \in Items : settlement[j].status = "paid" => settlement'[j] = settlement[j]
  <2>1. \/ settlement' = settlement
        \/ /\ settlement[i].status = "none"
           /\ settlement' = [settlement EXCEPT ![i] = Opened(Lesser(Share, seen[q].rent))]
    BY <1>1 DEF Settle, Opened
  <2> QED
    BY <1>2, <2>1 DEF RowsTyped
<1> QED
  BY <1>12, <1>18, <1>19

\* A line that gets the rent some request has read has one that was asked for.
LEMMA RentAsked ==
    ASSUME SerialInv, NEW q \in Requests, NEW i
    PROVE  /\ [rent EXCEPT ![i] = write[q].rent] \in [Items -> Rents \cup {0}]
           /\ [rent EXCEPT ![i] = write[q].rent] \in [Items -> Nat]
           /\ rent \in [Items -> Rents \cup {0}] /\ write[q].rent \in Nat
<1>1. Rents \subseteq Nat
  BY CounterAssumption
<1>2. rent \in [Items -> Rents \cup {0}] /\ write[q].rent \in Rents \cup {0}
  BY DEF SerialInv, RentsAsked
<1> DEFINE A == Rents \cup {0}
           w == write[q].rent
<1>3. A \subseteq Nat
  BY <1>1
<1> HIDE DEF A, w
<1>4. rent \in [Items -> A] /\ w \in A
  BY <1>2 DEF A, w
<1>5. [rent EXCEPT ![i] = w] \in [Items -> A]
  BY <1>4
<1>6. [rent EXCEPT ![i] = w] \in [Items -> Nat]
  BY <1>3, <1>4
<1> QED
  BY <1>3, <1>4, <1>5, <1>6 DEF A, w

\* The rents asked add up to one Ledger knows, whichever lines count.
LEMMA SumAsked ==
    ASSUME NEW r \in [Items -> Rents \cup {0}], NEW s
    PROVE  SumOver(r, Live(s)) \in AllRents /\ SumOver(r, Live(s)) \in Nat
<1>1. Live(s) \in SUBSET Items
  BY DEF Live
<1> QED
  BY <1>1, CounterAssumption

\* A bill derived from what there is now is the one recomputeOrderTotal leaves
\* in Ledger.
LEMMA SerialTotal ==
    ASSUME NEW b \in BillType, b.deposit = bill.deposit,
           bill' = Recomputed(b, item', rent'),
           SumOver(rent', Live(item')) \in Nat,
           order # "none", order' # "none"
    PROVE  Serial!RecomputeOrderTotal(SumOver(rent', Live(item')), b.additional)
<1> DEFINE g == SumOver(rent', Live(item'))
<1>1. bill' = [total |-> g + b.additional, additional |-> b.additional,
               deposit |-> IF Live(item') = {} THEN 0 ELSE b.deposit]
  BY RecomputedIs
<1>2. Serial!Lesser(0, g) = 0
  <2> HIDE DEF g
  <2>1. g \in Nat
    BY DEF g
  <2> QED
    BY <2>1 DEF Serial!Lesser
<1>3. Serial!Active(item') = Live(item')
  BY SameStates
<1>4. bill'.additional = b.additional
      /\ bill'.deposit = IF Live(item') = {} THEN 0 ELSE bill.deposit
  <2> HIDE DEF g
  <2> QED
    BY <1>1
<1>5. (order' # "none") = (order # "none")
  OBVIOUS
<1>6. CASE Live(item') = {}
  BY <1>2, <1>3, <1>4, <1>5, <1>6 DEF Serial!RecomputeOrderTotal
<1>7. CASE Live(item') # {}
  BY <1>2, <1>3, <1>4, <1>5, <1>7 DEF Serial!RecomputeOrderTotal
<1> QED
  BY <1>6, <1>7

\* A total that was derived before the order's row was locked is written as it
\* is, if nobody changed the bill.
LEMMA WrittenTotal ==
    ASSUME bill \in BillType, NEW s, NEW r \in [Items -> Nat],
           WriteTotal(Recomputed(bill, s, r))
    PROVE  bill' = Recomputed(bill, s, r)
<1> DEFINE c == Recomputed(bill, s, r)
<1>1. c \in BillType
  BY RecomputedType
<1>2. c.additional = bill.additional
  BY RecomputedIs
<1>3. bill' = [c EXCEPT !.additional = bill.additional]
  BY DEF WriteTotal
<1> HIDE DEF c
<1>4. bill' = c
  BY <1>1, <1>2, <1>3 DEF BillType
<1> QED
  BY <1>4 DEF c

\* No race shows after a commit that derives the total from what it leaves.
LEMMA ConsistentAgain ==
    ASSUME NEW b \in BillType, rent' \in [Items -> Nat],
           bill' = Recomputed(b, item', rent'),
           \A i \in Items : item'[i] # "returned" => damage'[i] = 0
    PROVE  Consistent'
<1>1. Recomputed(bill', item', rent') = bill'
  BY RecomputedAgain
<1>2. TotalIsRight'
  BY <1>1 DEF TotalIsRight, Recomputed, Live
<1> QED
  BY <1>2 DEF Consistent

\* updateBookingItem, undisturbed.
LEMMA UpdateIsSerial ==
    ASSUME SerialInv, NEW q \in Requests, q \notin overtaken, Consistent, CommitUpdate(q)
    PROVE  Serial!Next /\ Consistent' /\ settlement' = settlement
<1> DEFINE i == seen[q].item
           r == [rent EXCEPT ![i] = write[q].rent]
<1>1. /\ AtWork(q) /\ step[q] = "ready" /\ seen[q].op = "update"
      /\ item[i] # "absent" /\ rent' = r /\ WriteTotal(write[q].bill)
      /\ order' = order /\ item' = item /\ damage' = damage /\ ledger' = ledger
      /\ paymentStatus' = paymentStatus /\ settlement' = settlement
  BY DEF CommitUpdate, Doing, AtWork
<1>2. /\ StillSo(q) /\ Prepared(q) /\ RowsTyped /\ i \in Items
  BY <1>1, Undisturbed DEF LoadType
<1>3. /\ write[q].bill = Recomputed(bill, item, r)
      /\ item[i] \in Editable /\ order # "none"
  <2>1. Written(q)
    BY <1>1, <1>2 DEF Prepared
  <2>2. Admits("update", i)
    BY <1>1, <1>2 DEF StillSo
  <2> QED
    BY <1>1, <1>2, <2>1, <2>2 DEF Written, Admits, SerialInv, CounterInv, GoneIsEmpty
<1>4. /\ r \in [Items -> Rents \cup {0}] /\ r \in [Items -> Nat]
      /\ bill \in BillType
  BY <1>2, RentAsked DEF RowsTyped
<1> HIDE DEF r
<1>5. bill' = Recomputed(bill, item', rent')
  BY <1>1, <1>3, <1>4, WrittenTotal
<1>6. \A j \in Items : item'[j] # "returned" => damage'[j] = 0
  BY <1>1 DEF Consistent
<1>7. Consistent'
  BY <1>1, <1>4, <1>5, <1>6, ConsistentAgain
<1> DEFINE g == SumOver(rent', Live(item'))
<1>8. g \in AllRents /\ g \in Nat
  BY <1>1, <1>4, SumAsked
<1>9. Serial!RecomputeOrderTotal(g, bill.additional)
  BY <1>1, <1>3, <1>4, <1>5, <1>8, SerialTotal
<1> HIDE DEF i, g
<1>10. Serial!UpdateBookingItem(i, g)
  <2>1. item[i] \in Serial!Editable
    BY <1>3, SameStates
  <2> QED
    BY <1>1, <1>3, <1>9, <2>1 DEF Serial!UpdateBookingItem
<1>11. Serial!Next
  BY <1>2, <1>8, <1>10, Zenon DEF Serial!Next
<1> QED
  BY <1>1, <1>7, <1>11

\* addBookingItem, undisturbed.
LEMMA AddIsSerial ==
    ASSUME SerialInv, NEW q \in Requests, q \notin overtaken, Consistent, CommitAdd(q)
    PROVE  Serial!Next /\ Consistent' /\ settlement' = settlement
<1> DEFINE i == seen[q].item
           w == write[q].rent
           s == [item EXCEPT ![i] = AddedAs(q)]
           r == [rent EXCEPT ![i] = write[q].rent]
<1>1. /\ AtWork(q) /\ step[q] = "ready" /\ seen[q].op = "add" /\ order # "none"
      /\ item' = s /\ rent' = r /\ WriteTotal(write[q].bill)
      /\ order' = order /\ damage' = damage /\ ledger' = ledger
      /\ paymentStatus' = paymentStatus /\ settlement' = settlement
  BY DEF CommitAdd, Doing, AtWork
<1>2. /\ StillSo(q) /\ Prepared(q) /\ RowsTyped /\ i \in Items
      /\ order \in {"draft", "confirmed", "cancelled"}
  BY <1>1, Undisturbed DEF LoadType, StillSo
<1>3. /\ write[q].bill = Recomputed(bill, s, r)
      /\ order \in {"draft", "confirmed"} /\ item[i] = "absent" /\ seen[q].order = order
  <2>1. Written(q)
    BY <1>1, <1>2 DEF Prepared
  <2>2. Admits("add", i) /\ seen[q].order = order
    BY <1>1, <1>2 DEF StillSo
  <2> QED
    BY <1>1, <1>2, <2>1, <2>2 DEF Written, Admits
<1>4. /\ r \in [Items -> Rents \cup {0}] /\ r \in [Items -> Nat] /\ w \in Nat
      /\ rent \in [Items -> Rents \cup {0}] /\ bill \in BillType
  BY <1>2, RentAsked DEF RowsTyped
<1>5. s = [item EXCEPT ![i] = IF order = "draft" THEN "draft" ELSE "confirmed"]
  BY <1>3 DEF AddedAs
<1>6. Live(s) = Live(item) \cup {i} /\ i \notin Live(item)
  BY <1>2, <1>3, <1>5 DEF Live, RowsTyped
<1>7. /\ \A j \in Items \ {i} : r[j] = rent[j]
      /\ r[i] = w
  BY <1>2 DEF RowsTyped
<1>8. \A j \in Items : s[j] # "returned" => damage[j] = 0
  BY <1>2, <1>3, <1>5 DEF Consistent, RowsTyped
<1> HIDE DEF s, r
<1>9. bill' = Recomputed(bill, item', rent')
  BY <1>1, <1>3, <1>4, WrittenTotal
<1>10. Consistent'
  BY <1>1, <1>4, <1>8, <1>9, ConsistentAgain
<1> DEFINE g == SumOver(rent', Live(item'))
           h == SumOver(rent, Live(item))
<1>11. g \in Nat /\ h \in Nat
  BY <1>1, <1>4, SumAsked
<1>12. g = h + w
  <2> DEFINE L == Live(item)
  <2>1. L \subseteq Items /\ i \notin L /\ Live(s) = L \cup {i}
    BY <1>6 DEF Live
  <2> HIDE DEF L, i
  <2>2. IsFiniteSet(L \cup {i}) /\ IsFiniteSet(L) /\ L \cup {i} \subseteq Items
    BY <1>2, <2>1, CounterAssumption, FS_Subset
  <2>3. \A j \in L \cup {i} : r[j] \in Int
    BY <1>4, <2>2
  <2>4. SumOver(r, L \cup {i}) = r[i] + SumOver(r, (L \cup {i}) \ {i})
    BY <2>2, <2>3, SumRemove
  <2>5. (L \cup {i}) \ {i} = L
    BY <2>1
  <2>6. SumOver(r, L) = SumOver(rent, L)
    <3>1. \A j \in L : r[j] = rent[j]
      BY <1>7, <2>1
    <3> QED
      BY <2>2, <3>1, SumAgree
  <2>7. g = SumOver(r, L \cup {i}) /\ h = SumOver(rent, L)
    BY <1>1, <2>1 DEF L
  <2> QED
    BY <1>4, <1>7, <1>11, <2>4, <2>5, <2>6, <2>7
<1>13. w \in AllRents
  <2>1. Rents \subseteq AllRents /\ Items # {}
    BY CounterAssumption
  <2>2. 0 \in AllRents
    <3>1. SumOver(rent, Live([j \in Items |-> "absent"])) \in AllRents
      BY <1>4, SumAsked
    <3>2. Live([j \in Items |-> "absent"]) = {}
      BY DEF Live
    <3> QED
      BY <3>1, <3>2, SumEmpty
  <2>3. w \in Rents \cup {0}
    BY DEF SerialInv, RentsAsked
  <2> QED
    BY <2>1, <2>2, <2>3
<1>14. Serial!RecomputeOrderTotal(g, bill.additional)
  BY <1>1, <1>3, <1>4, <1>9, <1>11, SerialTotal
<1>15. item' = [item EXCEPT ![i] = IF order = "draft" THEN "draft" ELSE "confirmed"]
  BY <1>1, <1>5
<1> HIDE DEF i, w, g
<1>16. Serial!AddBookingItem(i, w)
  <2>1. Serial!RecomputeOrderTotal(h + w, bill.additional)
    BY <1>12, <1>14
  <2> QED
    BY <1>1, <1>3, <1>15, <2>1, Zenon DEF Serial!AddBookingItem
<1>17. Serial!Next
  BY <1>2, <1>13, <1>16, Zenon DEF Serial!Next
<1> QED
  BY <1>1, <1>10, <1>17

\* settleCancelledOrder is Ledger's, whatever the total was derived from.
LEMMA SerialSettles ==
    ASSUME SettleCancelledOrder, damage \in [Items -> Nat], damage' = damage,
           bill' \in BillType, SumOver(rent', Live(item')) \in Nat,
           bill'.total = SumOver(rent', Live(item')) + bill'.additional
    PROVE  Serial!SettleCancelledOrder
<1> DEFINE g == SumOver(rent', Live(item'))
           d == Damage(damage)
           p == bill'.total + d
<1>1. d \in Nat /\ g \in Nat /\ bill'.additional \in Nat /\ Damage(damage') = d
  BY DamageType DEF BillType
<1>2. Serial!RentPayable' = g - 0 + bill'.additional + Damage(damage')
  BY DEF Serial!RentPayable, Serial!TotalAmount
<1>3. /\ ledger' = Settled(ledger, p)
      /\ paymentStatus' = IF CashIn(Settled(ledger, p)) <= 0 THEN "unpaid" ELSE "refunded"
  BY DEF SettleCancelledOrder
<1>4. bill'.total = g + bill'.additional
  OBVIOUS
<1> HIDE DEF g, d
<1>5. Serial!RentPayable' = p
  BY <1>1, <1>2, <1>4
<1> HIDE DEF p
<1>6. /\ Serial!Settled(ledger, p) = Settled(ledger, p)
      /\ Serial!CashIn(Settled(ledger, p)) = CashIn(Settled(ledger, p))
  BY SameSettlement, SameSums
<1> QED
  BY <1>3, <1>5, <1>6, Zenon DEF Serial!SettleCancelledOrder

\* What cancelling lines leaves to be paid: less, and nothing if none counts.
LEMMA FewerLines ==
    ASSUME rent \in [Items -> Rents \cup {0}], NEW s,
           \A i \in Items : item[i] \in {"absent", "cancelled"}
                              => s[i] \in {"absent", "cancelled"}
    PROVE  /\ SumOver(rent, Live(s)) <= SumOver(rent, Live(item))
           /\ Live(s) = {} => SumOver(rent, Live(s)) = 0
<1>1. Live(s) \in SUBSET Live(item) /\ Live(item) \subseteq Items
  BY DEF Live
<1>2. IsFiniteSet(Live(item))
  BY <1>1, CounterAssumption, FS_Subset
<1>3. \A i \in Live(item) : rent[i] \in Nat
  <2>1. Rents \cup {0} \subseteq Nat
    BY CounterAssumption
  <2>2. \A i \in Items : rent[i] \in Rents \cup {0}
    OBVIOUS
  <2> QED
    BY <1>1, <2>1, <2>2
<1> QED
  BY <1>1, <1>2, <1>3, SumMonotone, SumEmpty

\* cancelBookingItem, undisturbed.
LEMMA CancelItemIsSerial ==
    ASSUME SerialInv, NEW q \in Requests, q \notin overtaken, Consistent, CommitCancelItem(q)
    PROVE  Serial!Next /\ Consistent' /\ settlement' = settlement
<1> DEFINE i == seen[q].item
           s == [item EXCEPT ![i] = "cancelled"]
<1>1. /\ AtWork(q) /\ step[q] = "ready" /\ seen[q].op = "cancelItem"
      /\ item[i] # "absent" /\ item' = s /\ WriteTotal(write[q].bill)
      /\ order' = order /\ rent' = rent /\ damage' = damage /\ settlement' = settlement
      /\ IF Finished(item') THEN SettleCancelledOrder
         ELSE UNCHANGED <<ledger, paymentStatus>>
  BY DEF CommitCancelItem, Doing, AtWork
<1>2. /\ StillSo(q) /\ Prepared(q) /\ RowsTyped /\ i \in Items
  BY <1>1, Undisturbed DEF LoadType
<1>3. /\ write[q].bill = Recomputed(bill, s, rent)
      /\ item[i] \in Statuses \ {"cancelled"} /\ CanTransition(item[i], "cancelled")
      /\ order # "none"
  <2>1. Written(q)
    BY <1>1, <1>2 DEF Prepared
  <2>2. Admits("cancelItem", i)
    BY <1>1, <1>2 DEF StillSo
  <2>3. order # "none"
    BY <1>1, <1>2 DEF SerialInv, CounterInv, GoneIsEmpty
  <2> QED
    BY <1>1, <1>2, <2>1, <2>2, <2>3 DEF Written, Admits, RowsTyped
<1>4. /\ rent \in [Items -> Rents \cup {0}] /\ rent \in [Items -> Nat]
      /\ bill \in BillType /\ damage \in [Items -> Nat]
  BY <1>2, RentAsked DEF RowsTyped
<1>5. /\ \A j \in Items : item[j] \in {"absent", "cancelled"}
                            => s[j] \in {"absent", "cancelled"}
      /\ \A j \in Items : s[j] # "returned" => item[j] # "returned"
  BY <1>2, <1>3 DEF RowsTyped, CanTransition, Transitions
<1>6. \A j \in Items : s[j] # "returned" => damage[j] = 0
  BY <1>5 DEF Consistent
<1> HIDE DEF s
<1>7. bill' = Recomputed(bill, item', rent')
  BY <1>1, <1>3, <1>4, WrittenTotal
<1>8. Consistent'
  BY <1>1, <1>4, <1>6, <1>7, ConsistentAgain
<1> DEFINE g == SumOver(rent', Live(item'))
<1>9. g \in AllRents /\ g \in Nat
  BY <1>1, <1>4, SumAsked
<1>10. g <= SumOver(rent, Live(item)) /\ (Live(item') = {} => g = 0)
  BY <1>1, <1>4, <1>5, FewerLines
<1>11. Serial!RecomputeOrderTotal(g, bill.additional)
  BY <1>1, <1>3, <1>4, <1>7, <1>9, SerialTotal
<1>12. bill' \in BillType /\ bill'.total = g + bill'.additional
  <2>1. bill' \in BillType
    BY <1>1, <1>4, <1>7, RecomputedType
  <2>2. bill' = [total |-> g + bill.additional, additional |-> bill.additional,
                 deposit |-> IF Live(item') = {} THEN 0 ELSE bill.deposit]
    BY <1>4, <1>7, RecomputedIs
  <2> HIDE DEF g
  <2> QED
    BY <2>1, <2>2
<1>13. IF Serial!Finished(item') THEN Serial!SettleCancelledOrder
       ELSE UNCHANGED <<ledger, paymentStatus>>
  BY <1>1, <1>4, <1>9, <1>12, SerialSettles, SameStates
<1>14. item' = [item EXCEPT ![i] = "cancelled"]
  BY <1>1 DEF s
<1> HIDE DEF i, g
<1>15. Serial!CancelBookingItem(i, g)
  <2>1. /\ item[i] \in Serial!Statuses \ {"cancelled"}
        /\ Serial!CanTransition(item[i], "cancelled")
        /\ Serial!Active(item') = {} => g = 0
    BY <1>3, <1>10, SameStates
  <2>2. UNCHANGED <<order, Damage(damage)>>
    BY <1>1
  <2> QED
    BY <1>10, <1>11, <1>13, <1>14, <2>1, <2>2, Zenon DEF Serial!CancelBookingItem
<1>16. Serial!Next
  BY <1>2, <1>9, <1>15, Zenon DEF Serial!Next
<1> QED
  BY <1>1, <1>8, <1>16

\* updateBookingOrder, undisturbed.
LEMMA UpdateOrderIsSerial ==
    ASSUME SerialInv, NEW q \in Requests, q \notin overtaken, Consistent,
           NEW fee \in Fees, CommitUpdateOrder(q, fee)
    PROVE  Serial!Next /\ Consistent' /\ settlement' = settlement
<1> DEFINE b == [bill EXCEPT !.additional = fee]
<1>1. /\ AtWork(q) /\ seen[q].op = "updateOrder" /\ order # "none"
      /\ bill' = Recomputed(b, item, rent)
      /\ order' = order /\ item' = item /\ rent' = rent /\ damage' = damage
      /\ ledger' = ledger /\ paymentStatus' = paymentStatus /\ settlement' = settlement
  BY DEF CommitUpdateOrder, Doing, AtWork
<1>2. /\ StillSo(q) /\ RowsTyped
  BY <1>1, Undisturbed
<1>3. order \in Editable
  BY <1>1, <1>2 DEF StillSo, Admits
<1>4. /\ rent \in [Items -> Rents \cup {0}] /\ rent \in [Items -> Nat]
      /\ bill \in BillType /\ fee \in Nat
  BY <1>2, RentAsked, CounterAssumption DEF RowsTyped
<1>5. b \in BillType /\ b.deposit = bill.deposit /\ b.additional = fee
  BY <1>4 DEF BillType
<1> HIDE DEF b
<1>6. bill' = Recomputed(b, item', rent')
  BY <1>1
<1>7. \A j \in Items : item'[j] # "returned" => damage'[j] = 0
  BY <1>1 DEF Consistent
<1>8. Consistent'
  BY <1>1, <1>4, <1>5, <1>6, <1>7, ConsistentAgain
<1> DEFINE g == SumOver(rent, Live(item))
<1>9. g \in Nat /\ g = SumOver(rent', Live(item'))
  BY <1>1, <1>4, SumAsked
<1>10. Serial!RecomputeOrderTotal(g, fee)
  BY <1>1, <1>5, <1>6, <1>9, SerialTotal
<1>11. Serial!UpdateBookingOrder(fee)
  <2>1. order \in Serial!Editable
    BY <1>3, SameStates
  <2> QED
    BY <1>1, <1>10, <2>1 DEF Serial!UpdateBookingOrder
<1>12. Serial!Next
  BY <1>11, Zenon DEF Serial!Next
<1> QED
  BY <1>1, <1>8, <1>12

\* cancelBookingOrder, undisturbed.
LEMMA CancelOrderIsSerial ==
    ASSUME SerialInv, NEW q \in Requests, q \notin overtaken, Consistent, CommitCancelOrder(q)
    PROVE  Serial!Next /\ Consistent' /\ settlement' = settlement
<1> DEFINE ended == {i \in OnOrder(item) : CanTransition(item[i], "cancelled")}
<1>1. /\ AtWork(q) /\ seen[q].op = "cancelOrder" /\ order # "none"
      /\ order' = "cancelled"
      /\ item' = [i \in Items |-> IF i \in ended THEN "cancelled" ELSE item[i]]
      /\ bill' = Recomputed(bill, item', rent)
      /\ SettleCancelledOrder
      /\ rent' = rent /\ damage' = damage /\ settlement' = settlement
  BY DEF CommitCancelOrder, Doing, AtWork
<1>2. /\ StillSo(q) /\ RowsTyped
  BY <1>1, Undisturbed
<1>3. order \in Statuses \ {"cancelled"} /\ CanTransition(order, "cancelled")
  BY <1>1, <1>2 DEF StillSo, Admits, RowsTyped, Statuses
<1>4. /\ rent \in [Items -> Rents \cup {0}] /\ rent \in [Items -> Nat]
      /\ bill \in BillType /\ damage \in [Items -> Nat]
  BY <1>2, RentAsked DEF RowsTyped
<1>5. /\ \A j \in Items : item[j] \in {"absent", "cancelled"}
                            => item'[j] \in {"absent", "cancelled"}
      /\ \A j \in Items : item'[j] # "returned" => item[j] # "returned"
  BY <1>1, <1>2 DEF RowsTyped, CanTransition, Transitions
<1>6. \A j \in Items : item'[j] # "returned" => damage'[j] = 0
  BY <1>1, <1>5 DEF Consistent
<1>7. ended = {i \in {j \in Items : item[j] # "absent"} : CanTransition(item[i], "cancelled")}
  BY DEF OnOrder
<1> HIDE DEF ended
<1>8. bill' = Recomputed(bill, item', rent')
  BY <1>1
<1>9. Consistent'
  BY <1>1, <1>4, <1>6, <1>8, ConsistentAgain
<1> DEFINE g == SumOver(rent', Live(item'))
<1>10. g \in AllRents /\ g \in Nat
  BY <1>1, <1>4, SumAsked
<1>11. /\ g <= SumOver(rent, Live(item)) /\ (Live(item') = {} => g = 0)
       /\ item' = item => g = SumOver(rent, Live(item))
  BY <1>1, <1>4, <1>5, FewerLines
<1>12. order' # "none"
  BY <1>1
<1>13. Serial!RecomputeOrderTotal(g, bill.additional)
  BY <1>1, <1>4, <1>8, <1>10, <1>12, SerialTotal
<1>14. bill' \in BillType /\ bill'.total = g + bill'.additional
  <2>1. bill' \in BillType
    BY <1>1, <1>4, <1>8, RecomputedType
  <2>2. bill' = [total |-> g + bill.additional, additional |-> bill.additional,
                 deposit |-> IF Live(item') = {} THEN 0 ELSE bill.deposit]
    BY <1>4, <1>8, RecomputedIs
  <2> HIDE DEF g
  <2> QED
    BY <2>1, <2>2
<1>15. Serial!SettleCancelledOrder
  BY <1>1, <1>4, <1>10, <1>14, SerialSettles
<1> HIDE DEF g
<1>16. Serial!CancelBookingOrder(g)
  <2>1. /\ order \in Serial!Statuses \ {"cancelled"}
        /\ Serial!CanTransition(order, "cancelled")
        /\ Serial!Active(item') = {} => g = 0
    BY <1>3, <1>11, SameStates
  <2>2. ended = {i \in Serial!OnOrder : Serial!CanTransition(item[i], "cancelled")}
    BY <1>7, SameStates DEF Serial!OnOrder
  <2>3. UNCHANGED Damage(damage)
    BY <1>1
  <2> QED
    BY <1>1, <1>11, <1>13, <1>15, <2>1, <2>2, <2>3, Zenon DEF Serial!CancelBookingOrder
<1>17. Serial!Next
  BY <1>10, <1>16, Zenon DEF Serial!Next
<1> QED
  BY <1>1, <1>9, <1>17

\* deleteBooking, undisturbed.
LEMMA DeleteIsSerial ==
    ASSUME SerialInv, NEW q \in Requests, q \notin overtaken, Consistent, CommitDelete(q)
    PROVE  Serial!Next /\ Consistent'
<1>1. /\ AtWork(q) /\ seen[q].op = "delete" /\ order # "none"
      /\ order' = "none" /\ item' = [i \in Items |-> "absent"]
      /\ rent' = [i \in Items |-> 0] /\ bill' = NoBill
      /\ damage' = [i \in Items |-> 0] /\ ledger' = EmptyLedger
      /\ paymentStatus' = "unpaid"
  BY DEF CommitDelete, Doing, AtWork
<1>2. StillSo(q)
  BY <1>1, Undisturbed
<1>3. \A i \in Items : item[i] \notin OutWithCustomer
  BY <1>1, <1>2 DEF StillSo, Admits, Out
<1>4. Live(item') = {}
  BY <1>1 DEF Live
<1>5. SumOver(rent', Live(item')) = 0
  BY <1>4, SumEmpty
<1>6. Damage(damage') = 0
  <2>1. \A i \in Items : damage'[i] = 0
    BY <1>1
  <2> QED
    BY <2>1, SumOfNothing, CounterAssumption DEF Damage
<1>7. NoBill \in BillType /\ bill' = NoBill
      /\ NoBill = [total |-> 0, additional |-> 0, deposit |-> 0]
  BY <1>1, NothingType DEF NoBill, BillType
<1>8. bill' = Recomputed(NoBill, item', rent')
  <2>1. Recomputed(NoBill, item', rent')
          = [total |-> 0 + NoBill.additional, additional |-> NoBill.additional,
             deposit |-> 0]
    BY <1>4, <1>5, <1>7, RecomputedIs
  <2>2. NoBill.additional = 0
    BY <1>7
  <2> QED
    BY <1>7, <2>1, <2>2
<1>9. Consistent'
  <2>1. /\ rent' \in [Items -> Nat]
        /\ \A i \in Items : item'[i] # "returned" => damage'[i] = 0
    BY <1>1
  <2> QED
    BY <1>7, <1>8, <2>1, ConsistentAgain
<1>10. Serial!DeleteBooking
  <2>1. \A i \in Items : item[i] \notin Serial!OutWithCustomer
    BY <1>3, SameStates
  <2>2. (order' # "none") = FALSE
    BY <1>1
  <2>3. ledger' = Serial!EmptyLedger
    BY <1>1, SameSums
  <2>4. bill'.additional = 0 /\ bill'.deposit = 0
    BY <1>7
  <2> QED
    BY <1>1, <1>5, <1>6, <2>1, <2>2, <2>3, <2>4 DEF Serial!DeleteBooking
<1>11. Serial!Next
  BY <1>10, Zenon DEF Serial!Next
<1> QED
  BY <1>9, <1>11

\* markSettlementPaid, undisturbed.
LEMMA PayoutIsSerial ==
    ASSUME SerialInv, NEW q \in Requests, q \notin overtaken, Consistent, CommitPayout(q)
    PROVE  /\ UNCHANGED Serial!vars /\ Consistent'
           /\ \A j \in Items : settlement[j].status = "paid" => settlement'[j] = settlement[j]
<1> DEFINE i == seen[q].item
<1>1. /\ AtWork(q) /\ seen[q].op = "payout"
      /\ settlement' = [settlement EXCEPT ![i] = PaidOut(@)]
      /\ order' = order /\ item' = item /\ rent' = rent /\ bill' = bill
      /\ damage' = damage /\ ledger' = ledger /\ paymentStatus' = paymentStatus
  BY DEF CommitPayout, Doing, AtWork, money
<1>2. StillSo(q) /\ RowsTyped
  BY <1>1, Undisturbed
<1>3. settlement[i].status = "pending"
  BY <1>1, <1>2 DEF StillSo, Admits, Payable
<1>4. \A j \in Items : settlement[j].status = "paid" => settlement'[j] = settlement[j]
  BY <1>1, <1>2, <1>3 DEF RowsTyped
<1>5. \A j \in Items : item'[j] # "returned" => damage'[j] = 0
  BY <1>1 DEF Consistent
<1>6. Consistent'
  BY <1>1, <1>5, StillConsistent
<1>7. UNCHANGED Serial!vars
  BY <1>1 DEF Serial!vars, Serial!bill
<1> QED
  BY <1>4, <1>6, <1>7

\* Whoever commits undisturbed serves its request as Ledger does.
LEMMA CommitIsSerial ==
    ASSUME SerialInv, NEW q \in Requests, Commit(q), q \notin overtaken, Consistent
    PROVE  /\ Serial!Next \/ UNCHANGED Serial!vars
           /\ Consistent'
           /\ \A i \in Items : settlement[i].status = "paid" /\ order' # "none"
                                  => settlement'[i] = settlement[i]
<1>1. CASE CommitPayment(q)
  BY <1>1, PaymentIsSerial, Zenon
<1>2. CASE CommitPickup(q)
  BY <1>2, PickupIsSerial, Zenon
<1>3. CASE CommitReturn(q)
  BY <1>3, ReturnIsSerial, Zenon
<1>4. CASE CommitUpdate(q)
  BY <1>4, UpdateIsSerial, Zenon
<1>5. CASE CommitAdd(q)
  BY <1>5, AddIsSerial, Zenon
<1>6. CASE CommitCancelItem(q)
  BY <1>6, CancelItemIsSerial, Zenon
<1>7. ASSUME NEW fee \in Fees, CommitUpdateOrder(q, fee)
      PROVE  Serial!Next /\ Consistent' /\ settlement' = settlement
  BY <1>7, UpdateOrderIsSerial, Zenon
<1>8. CASE CommitCancelOrder(q)
  BY <1>8, CancelOrderIsSerial, Zenon
<1>9. CASE CommitDelete(q)
  <2>1. order' = "none"
    BY <1>9 DEF CommitDelete
  <2> QED
    BY <1>9, <2>1, DeleteIsSerial, Zenon
<1>10. CASE CommitPayout(q)
  BY <1>10, PayoutIsSerial, Zenon
<1> QED
  BY <1>1, <1>2, <1>3, <1>4, <1>5, <1>6, <1>7, <1>8, <1>9, <1>10, Zenon DEF Commit

\* A handler that nobody committed in front of, on an order in which no earlier
\* race shows, is one step of Ledger (or none), leaves no race behind and pays
\* no owner twice: every anomaly of the desk needs a commit between another
\* request's reads and its own.
THEOREM UndisturbedServes == Spec => UndisturbedIsSerial
<1>1. SerialInv /\ [Next]_vars =>
        [\A q \in Requests : CommitsNow(q) /\ q \notin overtaken /\ Consistent
          => /\ [Serial!Next]_(Serial!vars)
             /\ Consistent'
             /\ \A i \in Items : settlement[i].status = "paid" /\ order' # "none"
                                    => settlement'[i] = settlement[i]]_vars
  <2> SUFFICES ASSUME SerialInv, [Next]_vars, NEW q \in Requests,
                      CommitsNow(q), q \notin overtaken, Consistent
               PROVE  /\ [Serial!Next]_(Serial!vars)
                      /\ Consistent'
                      /\ \A i \in Items : settlement[i].status = "paid" /\ order' # "none"
                                             => settlement'[i] = settlement[i]
    OBVIOUS
  <2>1. Commit(q)
    BY CommitterCommits DEF SerialInv
  <2> QED
    BY <2>1, CommitIsSerial
<1> QED
  BY <1>1, SerialInvHolds, PTL DEF Spec, UndisturbedIsSerial
-----------------------------------------------------------------------------
(* When the desk is Ledger *)

\* createBooking is Ledger's, with nothing taken off, nothing added, and the
\* deposit entered.
LEMMA CreateIsSerial ==
    ASSUME SerialInv, Consistent, 0 \in Fees,
           NEW lines \in SUBSET Items, NEW r \in Rents, NEW dep \in Deposits,
           NEW advance \in Charges, CreateBooking(lines, r, dep, advance)
    PROVE  Serial!Next /\ Consistent'
<1> DEFINE p == [i \in Items |-> IF i \in lines THEN r ELSE 0]
           t == SumOver(p, lines)
           s == [i \in Items |-> IF i \notin lines THEN "absent"
                                 ELSE IF advance > 0 THEN "confirmed" ELSE "draft"]
<1>1. /\ order = "none" /\ lines # {}
      /\ advance <= t + dep /\ advance <= MaxPaid
      /\ order' = IF advance > 0 THEN "confirmed" ELSE "draft"
      /\ item' = s /\ rent' = p
      /\ bill' = [total |-> t, additional |-> 0, deposit |-> dep]
      /\ ledger' = Row("advance", advance)
      /\ paymentStatus' = IF advance > 0 THEN StatusOf(ledger', t, dep) ELSE "unpaid"
      /\ damage' = damage
  BY DEF CreateBooking
<1>2. /\ Rents \subseteq Nat /\ dep \in Nat /\ advance \in Nat
      /\ IsFiniteSet(lines)
  BY CounterAssumption, FS_Subset DEF Charges
<1>3. p \in [Items -> Rents \cup {0}] /\ p \in [Items -> Nat]
  BY <1>2
<1>4. Live(item') = lines
  BY <1>1 DEF Live
<1>5. t \in AllRents /\ t \in Nat /\ t = SumOver(rent', Live(item'))
  BY <1>1, <1>3, <1>4, SumAsked
<1>6. RowsTyped /\ \A i \in Items : item[i] = "absent"
  BY <1>1, TypeHalves DEF SerialInv, CounterInv, GoneIsEmpty
<1>7. \A i \in Items : damage[i] = 0
  BY <1>6 DEF Consistent
<1>8. Damage(damage') = 0
  BY <1>1, <1>7, SumOfNothing, CounterAssumption DEF Damage
<1>9. Consistent'
  <2> DEFINE b == [total |-> t, additional |-> 0, deposit |-> dep]
  <2>1. b \in BillType
    BY <1>2, <1>5 DEF BillType
  <2>2. Recomputed(b, item', rent')
          = [total |-> t + 0, additional |-> 0, deposit |-> dep]
    <3>1. Recomputed(b, item', rent')
            = [total |-> SumOver(rent', Live(item')) + b.additional,
               additional |-> b.additional,
               deposit |-> IF Live(item') = {} THEN 0 ELSE b.deposit]
      BY <2>1, RecomputedIs
    <3>2. b.additional = 0 /\ b.deposit = dep
      OBVIOUS
    <3>3. Live(item') # {} /\ SumOver(rent', Live(item')) = t
      BY <1>1, <1>4, <1>5
    <3> HIDE DEF b, t
    <3> QED
      BY <3>1, <3>2, <3>3
  <2>3. t + 0 = t
    <3> HIDE DEF t
    <3> QED
      BY <1>5
  <2>4. bill' = Recomputed(b, item', rent')
    BY <1>1, <2>2, <2>3
  <2> HIDE DEF b
  <2> QED
    BY <1>1, <1>3, <1>7, <2>1, <2>4, ConsistentAgain
<1>10. bill'.additional = 0 /\ bill'.deposit = dep
  BY <1>1
<1> HIDE DEF t, p
<1>11. t - 0 + 0 = t /\ 0 <= t
  BY <1>5
<1>12. ledger' = Serial!Post(Serial!EmptyLedger, "advance", advance)
  BY <1>1, SameSums DEF Row
<1> DEFINE drafts == [i \in Items |-> IF i \in lines THEN "draft" ELSE "absent"]
<1>13. IF advance > 0
       THEN /\ order' = "confirmed"
            /\ item' = Serial!Confirmed(drafts)
            /\ paymentStatus' = Serial!StatusOf(ledger', t, dep)
       ELSE /\ order' = "draft"
            /\ item' = drafts
            /\ paymentStatus' = "unpaid"
  <2>1. advance > 0 => s = Serial!Confirmed(drafts)
    BY DEF Serial!Confirmed
  <2>2. ~(advance > 0) => s = drafts
    OBVIOUS
  <2>3. Serial!StatusOf(ledger', t, dep) = StatusOf(ledger', t, dep)
    BY SameStatus
  <2> HIDE DEF s, drafts
  <2> QED
    BY <1>1, <2>1, <2>2, <2>3
<1>14. (order' # "none") = TRUE
  BY <1>1
<1>15. Serial!CreateBooking(lines, t, 0, 0, dep, TRUE, advance)
  <2> HIDE DEF drafts, s
  <2>1. /\ order = "none" /\ lines # {} /\ 0 <= t
        /\ advance <= (t - 0 + 0) + dep /\ advance <= MaxPaid
    BY <1>1, <1>11
  <2>2. /\ SumOver(rent', Live(item')) = t /\ bill'.additional = 0
        /\ bill'.deposit = dep /\ Damage(damage') = 0
    BY <1>5, <1>8, <1>10
  <2>3. IF advance > 0
        THEN /\ order' = "confirmed"
             /\ item' = Serial!Confirmed(drafts)
             /\ paymentStatus' = Serial!StatusOf(ledger', t - 0 + 0, dep)
        ELSE /\ order' = "draft"
             /\ item' = drafts
             /\ paymentStatus' = "unpaid"
    BY <1>11, <1>13
  <2> QED
    BY <1>12, <1>14, <2>1, <2>2, <2>3 DEF Serial!CreateBooking, drafts
<1>16. Serial!Next
  <2>1. /\ 0 \in AllRents \cup {0} /\ TRUE \in BOOLEAN
        /\ advance \in Serial!Charges
    BY DEF Serial!Charges, Charges
  <2> QED
    BY <1>5, <1>15, <2>1, Zenon DEF Serial!Next
<1> QED
  BY <1>9, <1>16

\* An order that is not there yet is Ledger's, and shows no race.
LEMMA InitIsSerial == Init => Serial!Init /\ Consistent
<1> SUFFICES ASSUME Init PROVE Serial!Init /\ Consistent
  OBVIOUS
<1>1. /\ order = "none" /\ item = [i \in Items |-> "absent"]
      /\ rent = [i \in Items |-> 0] /\ bill = NoBill
      /\ damage = [i \in Items |-> 0] /\ ledger = EmptyLedger
      /\ paymentStatus = "unpaid"
  BY DEF Init
<1>2. Live(item) = {}
  BY <1>1 DEF Live
<1>3. SumOver(rent, Live(item)) = 0
  BY <1>2, SumEmpty
<1>4. Damage(damage) = 0
  <2>1. \A i \in Items : damage[i] = 0
    BY <1>1
  <2> QED
    BY <2>1, SumOfNothing, CounterAssumption DEF Damage
<1>5. NoBill \in BillType /\ NoBill = [total |-> 0, additional |-> 0, deposit |-> 0]
  BY NothingType DEF NoBill
<1>6. Recomputed(bill, item, rent) = bill
  <2>1. Recomputed(bill, item, rent)
          = [total |-> 0 + bill.additional, additional |-> bill.additional, deposit |-> 0]
    BY <1>1, <1>2, <1>3, <1>5, RecomputedIs
  <2>2. bill.additional = 0
    BY <1>1, <1>5
  <2> QED
    BY <1>1, <1>5, <2>1, <2>2
<1>7. Consistent
  BY <1>1, <1>6 DEF Consistent, TotalIsRight
<1>8. Serial!Init
  <2>1. (order # "none") = FALSE
    BY <1>1
  <2>2. bill.additional = 0 /\ bill.deposit = 0
    BY <1>1, <1>5
  <2>3. ledger = Serial!EmptyLedger
    BY <1>1, SameSums
  <2> QED
    BY <1>1, <1>3, <1>4, <2>1, <2>2, <2>3 DEF Serial!Init
<1> QED
  BY <1>7, <1>8

\* A step that changes no row is none of Ledger's, and shows no race.
LEMMA QuietIsSerial ==
    ASSUME Consistent, UNCHANGED records
    PROVE  UNCHANGED Serial!vars /\ Consistent'
<1>1. /\ order' = order /\ item' = item /\ rent' = rent /\ bill' = bill
      /\ damage' = damage /\ ledger' = ledger /\ paymentStatus' = paymentStatus
  BY DEF records, money
<1>2. \A j \in Items : item'[j] # "returned" => damage'[j] = 0
  BY <1>1 DEF Consistent
<1> QED
  BY <1>1, <1>2, StillConsistent DEF Serial!vars, Serial!bill

\* A step in which nobody who has been overtaken commits is a step of Ledger,
\* or none.
LEMMA StepIsSerial ==
    ASSUME SerialInv, Consistent, [Next]_vars, 0 \in Fees,
           \A q \in overtaken : ~CommitsNow(q)
    PROVE  [Serial!Next]_(Serial!vars) /\ Consistent'
<1>1. CASE UNCHANGED records
  BY <1>1, QuietIsSerial
<1>2. CASE records' # records
  <2>1. ASSUME NEW lines \in SUBSET Items, NEW r \in Rents, NEW dep \in Deposits,
               NEW advance \in Charges, CreateBooking(lines, r, dep, advance)
        PROVE  Serial!Next /\ Consistent'
    BY <2>1, CreateIsSerial
  <2>2. ASSUME NEW q \in Requests, Commit(q)
        PROVE  [Serial!Next]_(Serial!vars) /\ Consistent'
    <3>1. CommitsNow(q)
      BY <1>2, <2>2, CommitIsNow DEF SerialInv
    <3>2. q \notin overtaken
      BY <3>1
    <3> QED
      BY <2>2, <3>2, CommitIsSerial
  <2> QED
    BY <1>2, <2>1, <2>2, OnlyCommitsWrite
<1> QED
  BY <1>1, <1>2

\* If every handler that was overtaken were refused instead of committed, the
\* desk would be Ledger: however many are at work, their requests would be
\* served as if one after the other.
THEOREM RefusingServes ==
    0 \in Fees => (Spec /\ [][\A q \in overtaken : ~CommitsNow(q)]_vars => Serial!Spec)
<1> SUFFICES ASSUME 0 \in Fees
             PROVE  Spec /\ [][\A q \in overtaken : ~CommitsNow(q)]_vars => Serial!Spec
  OBVIOUS
<1>1. Init => Serial!Init /\ Consistent
  BY InitIsSerial
<1>2. /\ SerialInv /\ Consistent /\ [Next]_vars
      /\ [\A q \in overtaken : ~CommitsNow(q)]_vars
      => [Serial!Next]_(Serial!vars) /\ Consistent'
  <2>1. CASE UNCHANGED vars
    <3>1. UNCHANGED records
      BY <2>1 DEF vars
    <3> QED
      BY <3>1, QuietIsSerial
  <2>2. CASE \A q \in overtaken : ~CommitsNow(q)
    BY <2>2, StepIsSerial
  <2> QED
    BY <2>1, <2>2
<1> QED
  BY <1>1, <1>2, SerialInvHolds, PTL DEF Spec, Serial!Spec

\* One member of staff at the desk.
OneClerk == \A p, q \in Requests : p = q

\* Then nobody is ever overtaken.
LEMMA OneClerkLeads ==
    OneClerk => (Spec => [](overtaken = {}))
<1> SUFFICES ASSUME OneClerk
             PROVE  Spec => [](overtaken = {})
  OBVIOUS
<1>1. Init => overtaken = {}
  BY DEF Init
<1>2. overtaken = {} /\ [Next]_vars => (overtaken = {})'
  <2> SUFFICES ASSUME overtaken = {}, [Next]_vars PROVE overtaken' = {}
    OBVIOUS
  <2>1. ASSUME NEW q \in Requests, Commit(q) PROVE overtaken' = {}
    BY <2>1, CommitsAreCommits DEF Commits, OneClerk
  <2>2. ASSUME NEW q \in Requests, NEW op, NEW i, Load(q, op, i) PROVE overtaken' = {}
    BY <2>2 DEF Load
  <2>3. ASSUME NEW q \in Requests, Read(q) PROVE overtaken' = {}
    BY <2>3 DEF Read, ReadPayment, ReadPickup, ReadReturn, ReadSiblings, ReadUpdate,
       ReadAdd, ReadCancelItem, ReadTotal, Prepare
  <2>4. ASSUME NEW q \in Requests, GiveUp(q) PROVE overtaken' = {}
    BY <2>4 DEF GiveUp
  <2>5. ASSUME NEW lines, NEW r, NEW dep, NEW advance,
               CreateBooking(lines, r, dep, advance)
        PROVE  overtaken' = {}
    BY <2>5, Zenon DEF CreateBooking
  <2>6. CASE UNCHANGED vars
    BY <2>6 DEF vars
  <2> QED
    BY <2>1, <2>2, <2>3, <2>4, <2>5, <2>6, StepKinds
<1> QED
  BY <1>1, <1>2, PTL DEF Spec

\* ... and so the desk is Ledger, read for read and write for write: what is
\* proved of Ledger holds at a desk of one.
THEOREM OneClerkServes ==
    OneClerk /\ 0 \in Fees => (Spec => Serial!Spec)
<1> SUFFICES ASSUME OneClerk, 0 \in Fees
             PROVE  Spec => Serial!Spec
  OBVIOUS
<1>1. Spec => [](overtaken = {})
  BY OneClerkLeads
<1>2. overtaken = {} => [\A q \in overtaken : ~CommitsNow(q)]_vars
  OBVIOUS
<1>3. Spec /\ [][\A q \in overtaken : ~CommitsNow(q)]_vars => Serial!Spec
  BY RefusingServes
<1> QED
  BY <1>1, <1>2, <1>3, PTL
-----------------------------------------------------------------------------
(* What is proved of Ledger, at the desk *)

\* Ledger as the desk serves it, together with what is proved of it.
Books == INSTANCE LedgerProofs WITH
    orderStatus <- order, gross <- SumOver(rent, Live(item)), discount <- 0,
    additional <- bill.additional, deposit <- bill.deposit, overridden <- order # "none",
    damage <- Damage(damage), Rents <- AllRents

\* The sums of the two are the same sums, ...
LEMMA BooksSums ==
    ASSUME NEW l, NEW t, NEW a
    PROVE  /\ Serial!Post(l, t, a) = Books!Post(l, t, a)
           /\ Serial!NonNegative(a) = Books!NonNegative(a)
           /\ Serial!Lesser(l, a) = Books!Lesser(l, a)
           /\ Serial!DepositHeld(l) = Books!DepositHeld(l)
           /\ Serial!RentCollected(l) = Books!RentCollected(l)
           /\ Serial!CurrentBalances = Books!CurrentBalances
           /\ Serial!RentPayable = Books!RentPayable
           /\ Serial!Forfeited(a) = Books!Forfeited(a)
  BY Zenon DEF
     Serial!Post, Books!Post, Serial!PaymentTypes, Books!PaymentTypes,
     Serial!CurrentBalances, Books!CurrentBalances, Serial!Balances,
     Books!Balances, Serial!Netted, Books!Netted, Serial!Transfer,
     Books!Transfer, Serial!Lesser, Books!Lesser, Serial!NonNegative,
     Books!NonNegative, Serial!RentCollected, Books!RentCollected,
     Serial!DepositHeld, Books!DepositHeld, Serial!RentPayable,
     Books!RentPayable, Serial!TotalAmount, Books!TotalAmount, Serial!Forfeited,
     Books!Forfeited

\* ... so is the status, ...
LEMMA BooksStatus ==
    ASSUME NEW l, NEW p, NEW d
    PROVE  Serial!StatusOf(l, p, d) = Books!StatusOf(l, p, d)
  BY Zenon DEF
     Serial!StatusOf, Books!StatusOf, Serial!Balances, Books!Balances,
     Serial!OutstandingOf, Books!OutstandingOf, Serial!Netted, Books!Netted,
     Serial!Transfer, Books!Transfer, Serial!Lesser, Books!Lesser,
     Serial!NonNegative, Books!NonNegative, Serial!RentCollected,
     Books!RentCollected, Serial!DepositHeld, Books!DepositHeld

\* ... and so are the actions.
LEMMA BooksNext == Serial!Next <=> Books!Next
<1>1. ASSUME NEW l, NEW inflow
      PROVE  Serial!RecordPayment(l, inflow) <=> Books!RecordPayment(l, inflow)
  BY BooksSums, BooksStatus, Zenon DEF
     Serial!RecordPayment, Books!RecordPayment, Serial!WithinBound,
     Books!WithinBound, Serial!Confirmed, Books!Confirmed, Serial!bill,
     Books!bill
<1>2. ASSUME NEW a
      PROVE  Serial!RecordRefund(a) <=> Books!RecordRefund(a)
  BY <1>1, BooksSums, Zenon DEF Serial!RecordRefund, Books!RecordRefund
<1>3. ASSUME NEW a
      PROVE  Serial!RecordDepositRelease(a) <=> Books!RecordDepositRelease(a)
  BY <1>1, BooksSums, Zenon DEF Serial!RecordDepositRelease, Books!RecordDepositRelease
<1>4. ASSUME NEW t, NEW a
      PROVE  Serial!RecordInflow(t, a) <=> Books!RecordInflow(t, a)
  BY <1>1, BooksSums, Zenon DEF Serial!RecordInflow, Books!RecordInflow
<1>5. ASSUME NEW a
      PROVE  Serial!RecordFullPayment(a) <=> Books!RecordFullPayment(a)
  <2> DEFINE rentDue == Serial!NonNegative(Serial!CurrentBalances.rent)
             depositDue == Serial!NonNegative(Serial!CurrentBalances.deposit)
             part == Serial!Lesser(a, rentDue)
             l == Serial!Post(Serial!Post(ledger, "balance", part), "security_deposit",
                              a - part)
  <2>1. /\ rentDue = Books!NonNegative(Books!CurrentBalances.rent)
        /\ depositDue = Books!NonNegative(Books!CurrentBalances.deposit)
    BY BooksSums
  <2>2. part = Books!Lesser(a, Books!NonNegative(Books!CurrentBalances.rent))
    BY <2>1, BooksSums
  <2>3. l = Books!Post(Books!Post(ledger, "balance", part), "security_deposit", a - part)
    BY BooksSums
  <2>4. Serial!RecordFullPayment(a)
          <=> a > 0 /\ a <= rentDue + depositDue /\ Serial!RecordPayment(l, TRUE)
    BY DEF Serial!RecordFullPayment
  <2> HIDE DEF l, part, rentDue, depositDue
  <2>5. Books!RecordFullPayment(a)
          <=> a > 0 /\ a <= rentDue + depositDue /\ Books!RecordPayment(l, TRUE)
    BY <2>1, <2>2, <2>3, Zenon DEF Books!RecordFullPayment
  <2> QED
    BY <1>1, <2>4, <2>5
<1>6. ASSUME NEW i, NEW charge
      PROVE  Serial!ReturnBooking(i, charge) <=> Books!ReturnBooking(i, charge)
  BY BooksSums, BooksStatus, SMT DEF
     Serial!ReturnBooking, Books!ReturnBooking, Serial!Terminal, Books!Terminal,
     Serial!bill, Books!bill, Serial!Statuses, Books!Statuses,
     Serial!CanTransition, Books!CanTransition, Serial!Transitions,
     Books!Transitions
<1>7. ASSUME NEW lines, NEW r, NEW off, NEW fee, NEW dep, NEW entered, NEW advance
      PROVE  Serial!CreateBooking(lines, r, off, fee, dep, entered, advance) <=> Books!CreateBooking(lines, r, off, fee, dep, entered, advance)
  BY Zenon DEF
     Serial!CreateBooking, Books!CreateBooking, Serial!Confirmed,
     Books!Confirmed, Serial!EmptyLedger, Books!EmptyLedger, Serial!StatusOf,
     Books!StatusOf, Serial!Balances, Books!Balances, Serial!OutstandingOf,
     Books!OutstandingOf, Serial!Netted, Books!Netted, Serial!Transfer,
     Books!Transfer, Serial!Lesser, Books!Lesser, Serial!NonNegative,
     Books!NonNegative, Serial!RentCollected, Books!RentCollected,
     Serial!DepositHeld, Books!DepositHeld, Serial!Post, Books!Post,
     Serial!PaymentTypes, Books!PaymentTypes
<1>8. ASSUME NEW fee
      PROVE  Serial!UpdateBookingOrder(fee) <=> Books!UpdateBookingOrder(fee)
  BY Zenon DEF
     Serial!UpdateBookingOrder, Books!UpdateBookingOrder, Serial!Editable,
     Books!Editable, Serial!RecomputeOrderTotal, Books!RecomputeOrderTotal,
     Serial!Lesser, Books!Lesser, Serial!Active, Books!Active, Serial!bill,
     Books!bill
<1>9. ASSUME NEW i, NEW r
      PROVE  Serial!AddBookingItem(i, r) <=> Books!AddBookingItem(i, r)
  BY Zenon DEF
     Serial!AddBookingItem, Books!AddBookingItem, Serial!RecomputeOrderTotal,
     Books!RecomputeOrderTotal, Serial!Lesser, Books!Lesser, Serial!Active,
     Books!Active, Serial!bill, Books!bill
<1>10. ASSUME NEW i, NEW r
      PROVE  Serial!UpdateBookingItem(i, r) <=> Books!UpdateBookingItem(i, r)
  BY Zenon DEF
     Serial!UpdateBookingItem, Books!UpdateBookingItem, Serial!Editable,
     Books!Editable, Serial!RecomputeOrderTotal, Books!RecomputeOrderTotal,
     Serial!Lesser, Books!Lesser, Serial!Active, Books!Active, Serial!bill,
     Books!bill
<1>11. ASSUME NEW picked, NEW paid, NEW depositPaid, NEW allow
      PROVE  Serial!ConfirmPickup(picked, paid, depositPaid, allow) <=> Books!ConfirmPickup(picked, paid, depositPaid, allow)
  BY Zenon DEF
     Serial!ConfirmPickup, Books!ConfirmPickup, Serial!WithinBound,
     Books!WithinBound, Serial!bill, Books!bill, Serial!Statuses, Books!Statuses,
     Serial!CanTransition, Books!CanTransition, Serial!Transitions,
     Books!Transitions, Serial!RentPayable, Books!RentPayable,
     Serial!TotalAmount, Books!TotalAmount, Serial!StatusOf, Books!StatusOf,
     Serial!Balances, Books!Balances, Serial!OutstandingOf, Books!OutstandingOf,
     Serial!Netted, Books!Netted, Serial!Transfer, Books!Transfer, Serial!Lesser,
     Books!Lesser, Serial!NonNegative, Books!NonNegative, Serial!RentCollected,
     Books!RentCollected, Serial!DepositHeld, Books!DepositHeld, Serial!Post,
     Books!Post, Serial!PaymentTypes, Books!PaymentTypes
<1>12. ASSUME NEW late
      PROVE  Serial!MarkOverdueItems(late) <=> Books!MarkOverdueItems(late)
  BY Zenon DEF
     Serial!MarkOverdueItems, Books!MarkOverdueItems, Serial!OverdueEligible,
     Books!OverdueEligible, Serial!bill, Books!bill
<1>13. ASSUME NEW i, NEW r
      PROVE  Serial!CancelBookingItem(i, r) <=> Books!CancelBookingItem(i, r)
  BY Zenon DEF
     Serial!CancelBookingItem, Books!CancelBookingItem, Serial!Finished,
     Books!Finished, Serial!Terminal, Books!Terminal, Serial!Statuses,
     Books!Statuses, Serial!CanTransition, Books!CanTransition,
     Serial!Transitions, Books!Transitions, Serial!RecomputeOrderTotal,
     Books!RecomputeOrderTotal, Serial!Lesser, Books!Lesser, Serial!Active,
     Books!Active, Serial!bill, Books!bill, Serial!SettleCancelledOrder,
     Books!SettleCancelledOrder, Serial!Settled, Books!Settled, Serial!CashIn,
     Books!CashIn, Serial!RentPayable, Books!RentPayable, Serial!TotalAmount,
     Books!TotalAmount, Serial!NonNegative, Books!NonNegative,
     Serial!RentCollected, Books!RentCollected, Serial!DepositHeld,
     Books!DepositHeld, Serial!Post, Books!Post, Serial!PaymentTypes,
     Books!PaymentTypes
<1>14. ASSUME NEW r
      PROVE  Serial!CancelBookingOrder(r) <=> Books!CancelBookingOrder(r)
  BY Zenon DEF
     Serial!CancelBookingOrder, Books!CancelBookingOrder, Serial!OnOrder,
     Books!OnOrder, Serial!Statuses, Books!Statuses, Serial!CanTransition,
     Books!CanTransition, Serial!Transitions, Books!Transitions,
     Serial!RecomputeOrderTotal, Books!RecomputeOrderTotal, Serial!Lesser,
     Books!Lesser, Serial!Active, Books!Active, Serial!bill, Books!bill,
     Serial!SettleCancelledOrder, Books!SettleCancelledOrder, Serial!Settled,
     Books!Settled, Serial!CashIn, Books!CashIn, Serial!RentPayable,
     Books!RentPayable, Serial!TotalAmount, Books!TotalAmount,
     Serial!NonNegative, Books!NonNegative, Serial!RentCollected,
     Books!RentCollected, Serial!DepositHeld, Books!DepositHeld, Serial!Post,
     Books!Post, Serial!PaymentTypes, Books!PaymentTypes
<1>15. Serial!DeleteBooking <=> Books!DeleteBooking
  BY Zenon DEF
     Serial!DeleteBooking, Books!DeleteBooking, Serial!OutWithCustomer,
     Books!OutWithCustomer, Serial!EmptyLedger, Books!EmptyLedger,
     Serial!PaymentTypes, Books!PaymentTypes
<1> QED
  BY <1>1, <1>2, <1>3, <1>4, <1>5, <1>6, <1>7, <1>8,
     <1>9, <1>10, <1>11, <1>12, <1>13, <1>14, <1>15, Zenon
     DEF Serial!Next, Books!Next, Serial!Charges, Books!Charges

\* It is the Ledger that Counter names.
LEMMA BooksAreSerial == Serial!Spec => Books!Spec
<1>1. Serial!Init <=> Books!Init
  BY Zenon DEF Serial!Init, Books!Init, Serial!EmptyLedger, Books!EmptyLedger,
     Serial!PaymentTypes, Books!PaymentTypes
<1>2. Serial!Next <=> Books!Next
  BY BooksNext
<1>3. [Serial!Next]_(Serial!vars) => [Books!Next]_(Books!vars)
  BY <1>2 DEF Serial!vars, Books!vars, Serial!bill, Books!bill
<1> QED
  BY <1>1, <1>3, PTL DEF Serial!Spec, Books!Spec

\* What the books of an order promise, and the same said of Serial.
LEMMA BooksPromise ==
    /\ Books!NeverBothSided => Serial!NeverBothSided
    /\ Books!OutflowsCovered => Serial!OutflowsCovered
    /\ Books!ForfeitCovered => Serial!ForfeitCovered
    /\ Books!CancelledIsSquare => Serial!CancelledIsSquare
<1>1. Books!NeverBothSided => Serial!NeverBothSided
  BY Zenon DEF Serial!NeverBothSided, Books!NeverBothSided,
     Serial!Outstanding, Books!Outstanding, Serial!CreditBalance, Books!CreditBalance,
     Serial!OutstandingOf, Books!OutstandingOf, Serial!CreditOf, Books!CreditOf,
     Serial!CurrentBalances, Books!CurrentBalances, Serial!Balances, Books!Balances,
     Serial!Netted, Books!Netted, Serial!Transfer, Books!Transfer,
     Serial!NonNegative, Books!NonNegative, Serial!Lesser, Books!Lesser,
     Serial!RentCollected, Books!RentCollected, Serial!RentPayable, Books!RentPayable,
     Serial!TotalAmount, Books!TotalAmount
<1>2. /\ Books!OutflowsCovered => Serial!OutflowsCovered
      /\ Books!ForfeitCovered => Serial!ForfeitCovered
  BY DEF Serial!OutflowsCovered, Books!OutflowsCovered,
     Serial!ForfeitCovered, Books!ForfeitCovered
<1>3. Books!CancelledIsSquare => Serial!CancelledIsSquare
  BY Zenon DEF Serial!CancelledIsSquare, Books!CancelledIsSquare,
     Serial!DepositHeld, Books!DepositHeld, Serial!RentCollected, Books!RentCollected,
     Serial!NonNegative, Books!NonNegative,
     Serial!RentPayable, Books!RentPayable, Serial!TotalAmount, Books!TotalAmount
<1> QED
  BY <1>1, <1>2, <1>3

\* So what is proved of an order served one request at a time holds at a desk
\* with any number of staff, if only whoever was overtaken is refused: the
\* summary is never both owing and in credit, each pool hands back no more than
\* it took, damage covers what is kept of a deposit, and a cancelled order is
\* square.
THEOREM RefusingKeepsBooks ==
    0 \in Fees =>
      (Spec /\ [][\A q \in overtaken : ~CommitsNow(q)]_vars
         => [](/\ Serial!NeverBothSided
               /\ Serial!OutflowsCovered
               /\ Serial!ForfeitCovered
               /\ Serial!CancelledIsSquare))
<1> SUFFICES ASSUME 0 \in Fees
             PROVE  Spec /\ [][\A q \in overtaken : ~CommitsNow(q)]_vars
                      => [](/\ Serial!NeverBothSided
                            /\ Serial!OutflowsCovered
                            /\ Serial!ForfeitCovered
                            /\ Serial!CancelledIsSquare)
  OBVIOUS
<1>1. Spec /\ [][\A q \in overtaken : ~CommitsNow(q)]_vars => Books!Spec
  <2>1. Spec /\ [][\A q \in overtaken : ~CommitsNow(q)]_vars => Serial!Spec
    BY RefusingServes
  <2> QED
    BY <2>1, BooksAreSerial, PTL
<1>2. Books!LedgerAssumption
  BY CounterAssumption DEF Books!LedgerAssumption
<1>3. /\ Books!Spec => []Books!NeverBothSided
      /\ Books!Spec => []Books!OutflowsCovered
      /\ Books!Spec => []Books!ForfeitCovered
      /\ Books!Spec => []Books!CancelledIsSquare
  BY <1>2, Books!OneSided, Books!OutflowsAlwaysCovered, Books!ForfeitAlwaysCovered,
     Books!CancelledStaysSquare, PTL
<1> QED
  BY <1>1, <1>3, BooksPromise, PTL
=============================================================================
