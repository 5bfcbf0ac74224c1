------------------------------- MODULE Counter -------------------------------
(***************************************************************************)
(* One order worked on by several members of staff at once: the handlers   *)
(* of Ledger (bookings/service.ts, bookings/lifecycle.ts,                  *)
(* payments/service.ts) cut where the code lets others in between, and the *)
(* owner settlements of settlements/service.ts that a return opens.        *)
(*                                                                         *)
(* A handler loads the order through the pool, opens a READ COMMITTED      *)
(* transaction, reads in it, and writes.  Every one of them updates (or    *)
(* deletes) the bookings row before it commits, so what a handler does     *)
(* after that update is one step with its commit; what it read before may  *)
(* be old by then.  The requests in `overtaken' are those somebody has     *)
(* committed in front of since they loaded.                                *)
(*                                                                         *)
(* Dates, stock and the variations are Reservation's and Desk's; a deposit *)
(* is entered by hand here, and no discount is given.                      *)
(***************************************************************************)
EXTENDS BookingState, PaymentSummary, FiniteSets, Sums

CONSTANTS
    Requests,    \* requests in flight at once
    Items,       \* the lines the order may come to hold
    Owned,       \* those whose variation is customer_owned
    Rents,       \* what a line's gross rent may be
    AllRents,    \* what several lines' rents may add up to
    Fees,        \* additionalCost
    Deposits,    \* the security deposit agreed at the desk
    Share,       \* the owner's fixed share of a customer-owned item
    Payments,    \* amounts taken, handed back or charged as damage
    MaxPaid,     \* bound: what either pool takes in
    MaxRequests  \* bound: requests that are ever begun

ASSUME CounterAssumption ==
    /\ Rents \subseteq Nat \ {0} /\ Fees \subseteq Nat /\ Deposits \subseteq Nat
    /\ Payments \subseteq Nat \ {0} /\ Owned \subseteq Items
    /\ Rents \subseteq AllRents /\ AllRents \subseteq Nat
    /\ \A r \in [Items -> Rents \cup {0}], lines \in SUBSET Items :
          SumOver(r, lines) \in AllRents
    /\ Share \in Nat /\ MaxPaid \in Nat /\ MaxRequests \in Nat
    /\ IsFiniteSet(Items) /\ Items # {}

VARIABLES
    order,          \* bookings.status, "none" while there is no such row
    item,           \* booking_items.status, "absent" while not on the order
    rent,           \* booking_items.gross_rent
    bill,           \* total_amount, additional_cost and security_deposit
    damage,         \* booking_items.damage_charge
    ledger,         \* payments, summed by type
    paymentStatus,  \* bookings.payment_status
    settlement,     \* owner_settlements of each item, and how often each was
                    \* written as paid
    step,           \* how far each request is
    seen,           \* what it loaded
    write,          \* what it is going to write
    overtaken,      \* history: requests whose reads are old
    begun           \* history: how many requests there have been

money   == <<rent, bill, damage, ledger, paymentStatus>>
records == <<order, item, money, settlement>>
vars    == <<records, step, seen, write, overtaken, begun>>

Damage(d) == SumOver(d, Items)

OnOrder(s)  == {i \in Items : s[i] # "absent"}
Live(s)     == {i \in Items : s[i] \notin {"absent", "cancelled"}}
Finished(s) == \A i \in Items : s[i] \in Terminal \cup {"absent"}
Out         == {i \in Items : item[i] \in OutWithCustomer}

\* recomputeOrderTotal, from the bill and the items a transaction sees.
Recomputed(b, s, r) ==
    [b EXCEPT !.total = SumOver(r, Live(s)) + b.additional,
              !.deposit = IF Live(s) = {} THEN 0 ELSE @]

\* The ledger with a request's own rows on it.
Plus(l, rows) == [t \in PaymentTypes |-> l[t] + rows[t]]
Row(t, amount) == Post(EmptyLedger, t, amount)

Handlers == {"payment", "refund", "pickup", "return", "update", "add",
             "cancelItem", "updateOrder", "cancelOrder", "delete", "payout"}
BillType == [total : Nat, additional : Nat, deposit : Nat]
NoBill   == [total |-> 0, additional |-> 0, deposit |-> 0]
NotSettled == [status |-> "none", amount |-> 0, payouts |-> 0]
Opened(a)  == [status |-> "pending", amount |-> a, payouts |-> 0]

NoLoad  == [op |-> "none", item |-> CHOOSE i \in Items : TRUE,
            order |-> "none", bill |-> NoBill, damage |-> 0, rent |-> 0,
            ledger |-> EmptyLedger]
NoWrite == [rows |-> EmptyLedger, shows |-> "unpaid", bill |-> NoBill,
            rent |-> 0, charge |-> 0]

Init ==
    /\ order = "none"
    /\ item = [i \in Items |-> "absent"]
    /\ rent = [i \in Items |-> 0]
    /\ bill = NoBill
    /\ damage = [i \in Items |-> 0]
    /\ ledger = EmptyLedger
    /\ paymentStatus = "unpaid"
    /\ settlement = [i \in Items |-> NotSettled]
    /\ step = [q \in Requests |-> "idle"]
    /\ seen = [q \in Requests |-> NoLoad]
    /\ write = [q \in Requests |-> NoWrite]
    /\ overtaken = {}
    /\ begun = 0
-----------------------------------------------------------------------------
\* createBooking: nobody else knows the order before it is committed.
CreateBooking(lines, r, dep, advance) ==
    LET s == [i \in Items |-> IF i \notin lines THEN "absent"
                              ELSE IF advance > 0 THEN "confirmed" ELSE "draft"]
        p == [i \in Items |-> IF i \in lines THEN r ELSE 0]
        b == [total |-> SumOver(p, lines), additional |-> 0, deposit |-> dep]
    IN  /\ order = "none" /\ \A q \in Requests : step[q] = "idle"
        /\ lines # {}
        /\ advance <= b.total + dep /\ advance <= MaxPaid
        /\ order' = IF advance > 0 THEN "confirmed" ELSE "draft"
        /\ item' = s /\ rent' = p /\ bill' = b
        /\ ledger' = Row("advance", advance)
        /\ paymentStatus' = IF advance > 0 THEN StatusOf(ledger', b.total, dep)
                            ELSE "unpaid"
        /\ UNCHANGED <<damage, settlement, step, seen, write, overtaken, begun>>

\* Mutant of Payable: a paid settlement is not turned away.
PayableAgain(s) == s.status # "none"

\* markSettlementPaid turns away what is paid already.
Payable(s) == s.status = "pending"

\* What each handler asks of the order and the item it loads.
Admits(op, i) ==
    \/ op \in {"payment", "refund"} /\ order # "cancelled"
    \/ op = "pickup" /\ item[i] # "rented" /\ CanTransition(item[i], "rented")
    \/ op = "return" /\ item[i] # "returned" /\ CanTransition(item[i], "returned")
    \/ op = "update" /\ item[i] \in Editable
    \/ op = "add" /\ order # "cancelled" /\ item[i] = "absent"
    \/ op = "cancelItem" /\ item[i] # "cancelled"
                         /\ CanTransition(item[i], "cancelled")
    \/ op = "updateOrder" /\ order \in Editable
    \/ op = "cancelOrder" /\ order # "cancelled"
                          /\ CanTransition(order, "cancelled")
    \/ op = "delete" /\ Out = {}
    \/ op = "payout" /\ Payable(settlement[i])

OnOneItem == {"pickup", "return", "update", "add", "cancelItem", "payout"}
Billed    == {"payment", "refund", "pickup", "return"}

\* The loads before the transaction, through the pool.  A handler of the whole
\* order names no item; two additions never insert the same row.
Load(q, op, i) ==
    /\ step[q] = "idle" /\ order # "none"
    /\ begun < MaxRequests /\ begun' = begun + 1
    /\ op \in OnOneItem \/ i = NoLoad.item
    /\ op \in OnOneItem \ {"add"} => item[i] # "absent"
    /\ op = "add" => \A p \in Requests : ~(seen[p].op = "add" /\ seen[p].item = i)
    /\ Admits(op, i)
    /\ step' = [step EXCEPT ![q] = "loaded"]
    /\ seen' = [seen EXCEPT ![q] =
                  [op |-> op, item |-> i, order |-> order,
                   bill   |-> IF op \in Billed THEN bill ELSE NoBill,
                   damage |-> IF op \in {"payment", "refund"} THEN Damage(damage)
                              ELSE 0,
                   rent   |-> IF op = "return" THEN rent[i] ELSE 0,
                   ledger |-> EmptyLedger]]
    /\ UNCHANGED <<records, write, overtaken>>

Doing(q, op, at) == step[q] = at /\ seen[q].op = op

\* The item row a transaction has written and not committed: nobody else
\* writes it meanwhile.
Free(q, i) == \A p \in Requests \ {q} :
    ~(step[p] = "ready" /\ seen[p].op \in {"update", "cancelItem"}
        /\ seen[p].item = i)

\* A transaction has read what it needs and goes for the order's row.
Prepare(q, w) ==
    /\ step' = [step EXCEPT ![q] = "ready"]
    /\ write' = [write EXCEPT ![q] = w]
    /\ UNCHANGED <<records, seen, overtaken, begun>>

Posting(l, rows, rentPayable, dep) ==
    [NoWrite EXCEPT !.rows = rows,
                    !.shows = StatusOf(Plus(l, rows), rentPayable, dep)]

\* Mutant of Inflows: what a full_payment leaves for the deposit is not
\* clamped at zero.
InflowsUnclamped(b) ==
    LET rentDue    == NonNegative(b.rent)
        depositDue == NonNegative(b.deposit)
    IN  {Plus(Row("balance", Lesser(a, rentDue)),
              Row("security_deposit", a - rentDue)) :
           a \in {x \in Payments : x <= rentDue + depositDue}}

\* The rows recordPayment admits: money in within the balance of its pool, or
\* of both for a full_payment; money out within what its pool can hand back.
Inflows(b) ==
    LET rentDue    == NonNegative(b.rent)
        depositDue == NonNegative(b.deposit)
        rentPart(a) == Lesser(a, rentDue)
    IN  {Row(t, a) : t \in {"advance", "balance"},
                     a \in {x \in Payments : x <= rentDue}}
        \cup {Row("security_deposit", a) : a \in {x \in Payments : x <= depositDue}}
        \cup {Plus(Row("balance", rentPart(a)),
                   Row("security_deposit", a - rentPart(a))) :
                a \in {x \in Payments : x <= rentDue + depositDue}}

\* Mutant of Outflows: what was refunded before is not counted.
OutflowsAgain(l) ==
    {Row("refund", a) : a \in {x \in Payments : x <= l["advance"] + l["balance"]}}

Outflows(l) ==
    LET refundable   == NonNegative(l["advance"] + l["balance"] - l["refund"])
        releasable   == NonNegative(l["security_deposit"] - l["deposit_release"])
    IN  {Row("refund", a) : a \in {x \in Payments : x <= refundable}}
        \cup {Row("deposit_release", a) : a \in {x \in Payments : x <= releasable}}

\* recordPayment reads the ledger and checks the amount against it.
ReadPayment(q) ==
    LET dep == seen[q].bill.deposit
        due == seen[q].bill.total + seen[q].damage
    IN  \/ /\ Doing(q, "payment", "loaded")
           /\ \E rows \in Inflows(Balances(ledger, due, dep)) :
                 Prepare(q, Posting(ledger, rows, due, dep))
        \/ /\ Doing(q, "refund", "loaded")
           /\ \E rows \in Outflows(ledger) :
                 Prepare(q, Posting(ledger, rows, due, dep))

\* confirmPickup reads the ledger and the damage; what the clerk collects is
\* not capped, what is still outstanding must be deferred on purpose.
ReadPickup(q, paid, depositPaid, allowPendingBalance) ==
    LET rows == Plus(Row("balance", paid), Row("security_deposit", depositPaid))
        dep  == seen[q].bill.deposit
        due  == seen[q].bill.total + Damage(damage)
    IN  /\ Doing(q, "pickup", "loaded")
        /\ \/ OutstandingOf(Balances(Plus(ledger, rows), due, dep)) <= 0
           \/ allowPendingBalance
        /\ Prepare(q, Posting(ledger, rows, due, dep))

\* returnBooking reads the ledger and the damage; the charge is to come out of
\* the deposit held.
ReadReturn(q, charge) ==
    /\ Doing(q, "return", "loaded")
    /\ step' = [step EXCEPT ![q] = "counted"]
    /\ seen' = [seen EXCEPT ![q].ledger = ledger,
                            ![q].damage = Damage(damage) + charge]
    /\ write' = [write EXCEPT ![q].charge = charge]
    /\ UNCHANGED <<records, overtaken, begun>>

\* ... and reads, in a statement of its own, whether its siblings are all
\* done: then what remains of the deposit goes back.
ReadSiblings(q) ==
    LET load    == seen[q]
        held    == DepositHeld(load.ledger)
        applied == Lesser(write[q].charge, held)
        last    == \A j \in Items \ {load.item} : item[j] \in Terminal \cup {"absent"}
        rows    == Post(Row("deposit_applied", applied), "deposit_release",
                        IF last THEN held - applied ELSE 0)
    IN  /\ Doing(q, "return", "counted")
        /\ Prepare(q, [Posting(load.ledger, rows, load.bill.total + load.damage,
                               load.bill.deposit)
                         EXCEPT !.charge = write[q].charge])

\* updateBookingItem, addBookingItem and cancelBookingItem write their item
\* and read order and items again for the new total.
ReadTotal(q, s, r) ==
    Prepare(q, [NoWrite EXCEPT !.bill = Recomputed(bill, s, r),
                               !.rent = r[seen[q].item]])

ReadUpdate(q, r) ==
    LET i == seen[q].item
    IN  /\ Doing(q, "update", "loaded") /\ Free(q, i)
        /\ ReadTotal(q, item, [rent EXCEPT ![i] = r])

\* A new line is `draft' on an order loaded as draft, else confirmed.
AddedAs(q) == IF seen[q].order = "draft" THEN "draft" ELSE "confirmed"

ReadAdd(q, r) ==
    LET i == seen[q].item
    IN  /\ Doing(q, "add", "loaded")
        /\ ReadTotal(q, [item EXCEPT ![i] = AddedAs(q)], [rent EXCEPT ![i] = r])

ReadCancelItem(q) ==
    LET i == seen[q].item
    IN  /\ Doing(q, "cancelItem", "loaded") /\ Free(q, i)
        /\ ReadTotal(q, [item EXCEPT ![i] = "cancelled"], rent)
-----------------------------------------------------------------------------
\* A request is over; whoever is still at work has been overtaken if it wrote.
Leave(q) ==
    /\ step' = [step EXCEPT ![q] = "idle"]
    /\ seen' = [seen EXCEPT ![q] = NoLoad]
    /\ write' = [write EXCEPT ![q] = NoWrite]

Commits(q) ==
    /\ Leave(q)
    /\ overtaken' = {p \in Requests \ {q} : step[p] # "idle"}
    /\ UNCHANGED begun

WithinBound(l) == /\ l["advance"] + l["balance"] <= MaxPaid
                  /\ l["security_deposit"] <= MaxPaid

PostRows(q) ==
    /\ ledger' = Plus(ledger, write[q].rows)
    /\ WithinBound(ledger')
    /\ paymentStatus' = write[q].shows

\* recordPayment: the order gets the status it was loaded with, or leaves
\* draft with its draft items if it was loaded as draft.
CommitPayment(q) ==
    LET confirms == seen[q].op = "payment" /\ seen[q].order = "draft"
        drafts   == IF confirms THEN {i \in Items : item[i] = "draft"} ELSE {}
    IN  /\ step[q] = "ready" /\ seen[q].op \in {"payment", "refund"}
        /\ order # "none"
        /\ \A i \in drafts : Free(q, i)
        /\ PostRows(q)
        /\ order' = IF confirms THEN "confirmed" ELSE seen[q].order
        /\ item' = [i \in Items |-> IF i \in drafts THEN "confirmed" ELSE item[i]]
        /\ UNCHANGED <<rent, bill, damage, settlement>>
        /\ Commits(q)

\* confirmPickup: the item is `rented', whatever it has become.
CommitPickup(q) ==
    LET i == seen[q].item
    IN  /\ Doing(q, "pickup", "ready")
        /\ item[i] # "absent" /\ Free(q, i)
        /\ PostRows(q)
        /\ item' = [item EXCEPT ![i] = "rented"]
        /\ UNCHANGED <<order, rent, bill, damage, settlement>>
        /\ Commits(q)

\* recordSettlementForBooking: the owner's share of the rent the item was
\* loaded with, once per item.
Settle(i, grossRent) ==
    settlement' = IF /\ i \in Owned
                     /\ settlement[i].status = "none"
                     /\ Lesser(Share, grossRent) > 0
                  THEN [settlement EXCEPT ![i] =
                          Opened(Lesser(Share, grossRent))]
                  ELSE settlement

\* returnBooking: the item is `returned', its damage charge this return's.
CommitReturn(q) ==
    LET i == seen[q].item
    IN  /\ Doing(q, "return", "ready")
        /\ item[i] # "absent" /\ Free(q, i)
        /\ PostRows(q)
        /\ item' = [item EXCEPT ![i] = "returned"]
        /\ damage' = [damage EXCEPT ![i] = write[q].charge]
        /\ Settle(i, seen[q].rent)
        /\ UNCHANGED <<order, rent, bill>>
        /\ Commits(q)

\* What recomputeOrderTotal writes: never the additional cost.
WriteTotal(b) == bill' = [b EXCEPT !.additional = bill.additional]

CommitUpdate(q) ==
    LET i == seen[q].item
    IN  /\ Doing(q, "update", "ready")
        /\ item[i] # "absent"
        /\ rent' = [rent EXCEPT ![i] = write[q].rent]
        /\ WriteTotal(write[q].bill)
        /\ UNCHANGED <<order, item, damage, ledger, paymentStatus, settlement>>
        /\ Commits(q)

CommitAdd(q) ==
    LET i == seen[q].item
    IN  /\ Doing(q, "add", "ready")
        /\ order # "none"
        /\ item' = [item EXCEPT ![i] = AddedAs(q)]
        /\ rent' = [rent EXCEPT ![i] = write[q].rent]
        /\ WriteTotal(write[q].bill)
        /\ UNCHANGED <<order, damage, ledger, paymentStatus, settlement>>
        /\ Commits(q)

\* Mutant of SettleCancelledOrder: against the bill as it was.
SettleAgainstOldBill ==
    LET l == Settled(ledger, bill.total + Damage(damage))
    IN  /\ ledger' = l
        /\ paymentStatus' = IF CashIn(l) <= 0 THEN "unpaid" ELSE "refunded"

\* settleCancelledOrder, against the bill as this transaction leaves it.
SettleCancelledOrder ==
    LET l == Settled(ledger, bill'.total + Damage(damage))
    IN  /\ ledger' = l
        /\ paymentStatus' = IF CashIn(l) <= 0 THEN "unpaid" ELSE "refunded"

\* Mutant of CommitCancelItem: the siblings are read before the order's row is
\* locked, so what was committed in between is missed.
CommitCancelItemEarly(q) ==
    LET i == seen[q].item
    IN  /\ Doing(q, "cancelItem", "ready")
        /\ item[i] # "absent"
        /\ item' = [item EXCEPT ![i] = "cancelled"]
        /\ WriteTotal(write[q].bill)
        /\ IF Finished(item') /\ q \notin overtaken THEN SettleCancelledOrder
           ELSE UNCHANGED <<ledger, paymentStatus>>
        /\ UNCHANGED <<order, rent, damage, settlement>>
        /\ Commits(q)

\* cancelBookingItem looks at its siblings and the ledger once it holds the
\* order's row.
CommitCancelItem(q) ==
    LET i == seen[q].item
    IN  /\ Doing(q, "cancelItem", "ready")
        /\ item[i] # "absent"
        /\ item' = [item EXCEPT ![i] = "cancelled"]
        /\ WriteTotal(write[q].bill)
        /\ IF Finished(item') THEN SettleCancelledOrder
           ELSE UNCHANGED <<ledger, paymentStatus>>
        /\ UNCHANGED <<order, rent, damage, settlement>>
        /\ Commits(q)

\* Mutant of CommitUpdateOrder: the whole row is written back as loaded.
CommitUpdateOrderWhole(q, fee) ==
    LET b == [bill EXCEPT !.additional = fee]
    IN  /\ Doing(q, "updateOrder", "loaded")
        /\ order # "none"
        /\ order' = seen[q].order
        /\ bill' = Recomputed(b, item, rent)
        /\ UNCHANGED <<item, rent, damage, ledger, paymentStatus, settlement>>
        /\ Commits(q)

\* updateBookingOrder writes the order first and reads everything after it.
CommitUpdateOrder(q, fee) ==
    LET b == [bill EXCEPT !.additional = fee]
    IN  /\ Doing(q, "updateOrder", "loaded")
        /\ order # "none"
        /\ bill' = Recomputed(b, item, rent)
        /\ UNCHANGED <<order, item, rent, damage, ledger, paymentStatus, settlement>>
        /\ Commits(q)

\* cancelBookingOrder does so too.
CommitCancelOrder(q) ==
    LET ended == {i \in OnOrder(item) : CanTransition(item[i], "cancelled")}
    IN  /\ Doing(q, "cancelOrder", "loaded")
        /\ order # "none"
        /\ \A i \in ended : Free(q, i)
        /\ order' = "cancelled"
        /\ item' = [i \in Items |-> IF i \in ended THEN "cancelled" ELSE item[i]]
        /\ bill' = Recomputed(bill, item', rent)
        /\ SettleCancelledOrder
        /\ UNCHANGED <<rent, damage, settlement>>
        /\ Commits(q)

\* deleteBooking: items, payments and settlements go with the order.
CommitDelete(q) ==
    /\ Doing(q, "delete", "loaded")
    /\ order # "none"
    /\ \A i \in Items : Free(q, i)
    /\ order' = "none"
    /\ item' = [i \in Items |-> "absent"]
    /\ rent' = [i \in Items |-> 0]
    /\ bill' = NoBill
    /\ damage' = [i \in Items |-> 0]
    /\ ledger' = EmptyLedger
    /\ paymentStatus' = "unpaid"
    /\ settlement' = [i \in Items |-> NotSettled]
    /\ Commits(q)

\* The row as markSettlementPaid writes it: when it was paid, by whom and
\* under which reference, over whatever was there.
PaidOut(s) == [s EXCEPT !.status = "paid", !.payouts = @ + 1]

\* markSettlementPaid, by the id of the row it loaded.
CommitPayout(q) ==
    LET i == seen[q].item
    IN  /\ Doing(q, "payout", "loaded")
        /\ settlement[i].status # "none"
        /\ settlement' = [settlement EXCEPT ![i] = PaidOut(@)]
        /\ UNCHANGED <<order, item, money>>
        /\ Commits(q)

\* Refused, rolled back, or undone by the database: a row that is gone, a
\* circle of locks, a lost connection.
GiveUp(q) ==
    /\ step[q] # "idle"
    /\ Leave(q)
    /\ overtaken' = overtaken \ {q}
    /\ UNCHANGED <<records, begun>>

Charges == Payments \cup {0}

Read(q) ==
    \/ ReadPayment(q)
    \/ \E paid, depositPaid \in Charges, allow \in BOOLEAN :
          ReadPickup(q, paid, depositPaid, allow)
    \/ \E charge \in Charges : ReadReturn(q, charge)
    \/ ReadSiblings(q)
    \/ \E r \in Rents : ReadUpdate(q, r) \/ ReadAdd(q, r)
    \/ ReadCancelItem(q)

Commit(q) ==
    \/ CommitPayment(q) \/ CommitPickup(q) \/ CommitReturn(q)
    \/ CommitUpdate(q) \/ CommitAdd(q) \/ CommitCancelItem(q)
    \/ \E fee \in Fees : CommitUpdateOrder(q, fee)
    \/ CommitCancelOrder(q) \/ CommitDelete(q) \/ CommitPayout(q)

Next ==
    \/ \E lines \in SUBSET Items, r \in Rents, dep \in Deposits, advance \in Charges :
          CreateBooking(lines, r, dep, advance)
    \/ \E q \in Requests :
          \/ \E op \in Handlers, i \in Items : Load(q, op, i)
          \/ Read(q)
          \/ Commit(q)
          \/ GiveUp(q)

Spec == Init /\ [][Next]_vars
-----------------------------------------------------------------------------
LoadType == [op : Handlers \cup {"none"}, item : Items,
             order : Statuses \cup {"none"}, bill : BillType, damage : Nat,
             rent : Nat, ledger : Ledgers]
Settlements == {s \in [status : {"none", "pending", "paid"}, amount : Nat,
                       payouts : Nat] : s.payouts > 0 <=> s.status = "paid"}
WriteType == [rows : Ledgers, shows : PaymentStatuses, bill : BillType,
              rent : Nat, charge : Nat]

TypeOK ==
    /\ order \in {"none", "draft", "confirmed", "cancelled"}
    /\ item \in [Items -> Statuses \cup {"absent"}]
    /\ rent \in [Items -> Nat] /\ bill \in BillType
    /\ damage \in [Items -> Nat]
    /\ ledger \in Ledgers /\ paymentStatus \in PaymentStatuses
    /\ settlement \in [Items -> Settlements]
    /\ step \in [Requests -> {"idle", "loaded", "counted", "ready"}]
    /\ seen \in [Requests -> LoadType]
    /\ write \in [Requests -> WriteType]
    /\ overtaken \subseteq {q \in Requests : step[q] # "idle"}
    /\ begun \in Nat

\* A handler at work, and whether it commits in this step.
CommitsNow(q) == step[q] # "idle" /\ step'[q] = "idle" /\ records' # records
CommitsAs(q, op) == CommitsNow(q) /\ seen[q].op = op

TotalIsRight == bill = Recomputed(bill, item, rent)

\* No earlier race shows: the total is that of the items, and only what has
\* come back is charged for damage.
Consistent == TotalIsRight /\ \A i \in Items : item[i] # "returned" => damage[i] = 0

\* What Ledger says of an order served one request at a time: its rent is that
\* of the lines not cancelled, its damage that of all of them.
Serial == INSTANCE Ledger WITH
    orderStatus <- order, gross <- SumOver(rent, Live(item)), discount <- 0,
    additional <- bill.additional, deposit <- bill.deposit, overridden <- order # "none",
    damage <- Damage(damage), Rents <- AllRents

\* As long as no earlier race shows in the order, a handler that nobody
\* committed in front of serves its request as one uninterrupted action of
\* Ledger would, payment status and all, and pays no owner twice; and no race
\* shows afterwards.  Every anomaly of this desk therefore needs a commit
\* between another request's reads and its own commit (payments:400 and :564,
\* bookings:286 and :1451, lifecycle:498, settlements:425).
UndisturbedIsSerial ==
    [][\A q \in Requests : CommitsNow(q) /\ q \notin overtaken /\ Consistent
          => /\ [Serial!Next]_(Serial!vars)
             /\ Consistent'
             /\ \A i \in Items : settlement[i].status = "paid" /\ order' # "none"
                                    => settlement'[i] = settlement[i]]_vars

\* cancelBookingOrder squares the account whoever has paid, picked up,
\* returned or added what in the meantime: it reads all of it under the
\* order's row lock.
CancellationSquares ==
    [][\A q \in Requests : CommitsAs(q, "cancelOrder")
          => /\ DepositHeld(ledger') = 0
             /\ RentCollected(ledger') <= bill'.total + Damage(damage)
             /\ TotalIsRight']_vars

\* When the last unfinished item of an order ends, the deposit goes back --
\* unless that is by a return that was overtaken, which looked at its siblings
\* before it had the order's row (lifecycle:569); a cancellation of the last
\* item looks after, and releases it whoever else was at the counter.
ClosingReleasesDeposit ==
    [][(order' # "none" /\ OnOrder(item) # {} /\ ~Finished(item) /\ Finished(item'))
          => \/ DepositHeld(ledger') = 0
             \/ \E q \in overtaken : CommitsAs(q, "return")]_vars

\* Only recordPayment, with a status it loaded before the cancellation, brings
\* a cancelled order back (payments:564), and only a pickup or a return loaded
\* before it moves a cancelled item again.
OnlyOvertakenRevives ==
    [][/\ order = "cancelled" /\ order' \notin {"cancelled", "none"}
             => \E q \in overtaken : CommitsAs(q, "payment") \/ CommitsAs(q, "refund")
       /\ \A i \in Items : item[i] = "cancelled" /\ item'[i] \notin {"cancelled", "absent"}
             => \E q \in overtaken : CommitsAs(q, "pickup") \/ CommitsAs(q, "return")]_vars

\* However often an item is returned -- two returns at once, or a pickup that
\* wrote over the first -- its owner is owed one share, fixed at the first
\* return and never more than the rent that return was loaded with; only
\* markSettlementPaid pays it out, and a second time only where it loaded the
\* settlement before another request was done with it (settlements:425).
OwedOnce ==
    [][\A i \in Items :
          /\ settlement[i].status # "none" /\ order' # "none"
                => settlement'[i].amount = settlement[i].amount
          /\ settlement[i].status = "none" /\ settlement'[i].status # "none"
                => \E q \in Requests : /\ CommitsAs(q, "return")
                                       /\ settlement'[i].amount <= seen[q].rent
          /\ settlement'[i].payouts # settlement[i].payouts /\ order' # "none"
                => \E q \in Requests :
                      /\ CommitsAs(q, "payout")
                      /\ settlement[i].payouts = 0 \/ q \in overtaken]_vars
-----------------------------------------------------------------------------
\* "a `pending` settlement moves to `paid` exactly once; re-marking an
\* already-paid or cancelled one is rejected rather than silently overwriting
\* the payout record" (markSettlementPaid); two at once both write theirs.
PaidExactlyOnce == \A i \in Items : settlement[i].payouts <= 1
=============================================================================
