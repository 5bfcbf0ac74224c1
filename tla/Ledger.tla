------------------------------- MODULE Ledger -------------------------------
(***************************************************************************)
(* The money of one booking order: its bill, its items' statuses and its   *)
(* payment ledger, under every operation of bookings/service.ts,           *)
(* bookings/lifecycle.ts, bookings/overdue.ts and payments/service.ts that *)
(* touches them.                                                           *)
(*                                                                         *)
(* Requests are served one at a time here: an action is a whole handler,   *)
(* every read it makes and every row it writes.  Whether an item is free   *)
(* on its dates is the subject of Reservation.                             *)
(*                                                                         *)
(* Rents, fees, deposits, damage and payments range over small sets; the   *)
(* price of a line, its dates and its quantity reach the ledger only       *)
(* through the gross rent they add up to, so `gross' is the sum of the     *)
(* grossRent of the items that are not cancelled.                          *)
(***************************************************************************)
EXTENDS BookingState, PaymentSummary

CONSTANTS
    Items,       \* the lines an order may come to hold
    Rents,       \* what a line's gross rent may be, and an order's discount
    Fees,        \* additionalCost
    Deposits,    \* the order's security deposit, entered or summed
    Payments,    \* amounts a clerk takes, hands back or charges as damage
    MaxPaid      \* bound: no type of incoming payment sums to more than this

ASSUME LedgerAssumption ==
    /\ Rents \subseteq Nat /\ Fees \subseteq Nat /\ Deposits \subseteq Nat
    /\ Payments \subseteq Nat
    /\ MaxPaid \in Nat

VARIABLES
    orderStatus,     \* bookings.status, "none" while there is no such row
    item,            \* booking_items.status, "absent" while not on the order
    gross,           \* rent of the items that are not cancelled
    discount,        \* bookings.discount_amount
    additional,      \* bookings.additional_cost
    deposit,         \* bookings.security_deposit
    overridden,      \* bookings.security_deposit_overridden
    damage,          \* damage_charge summed over the order's items
    ledger,          \* payments, summed by type
    paymentStatus    \* bookings.payment_status

bill == <<gross, discount, additional, deposit, overridden>>
vars == <<orderStatus, item, bill, damage, ledger, paymentStatus>>

OrderStatuses == {"none", "draft", "confirmed", "cancelled"}

TotalAmount == gross - discount + additional
RentPayable == TotalAmount + damage
CurrentBalances == Balances(ledger, RentPayable, deposit)
Outstanding     == OutstandingOf(CurrentBalances)
CreditBalance   == CreditOf(CurrentBalances)

OnOrder       == {i \in Items : item[i] # "absent"}
Active(s)     == {i \in Items : s[i] \notin {"absent", "cancelled"}}
Finished(s)   == \A i \in Items : s[i] \in Terminal \cup {"absent"}
-----------------------------------------------------------------------------
Init ==
    /\ orderStatus = "none"
    /\ item = [i \in Items |-> "absent"]
    /\ gross = 0 /\ discount = 0 /\ additional = 0 /\ deposit = 0
    /\ overridden = FALSE
    /\ damage = 0
    /\ ledger = EmptyLedger
    /\ paymentStatus = "unpaid"

\* The model's bound on money coming in; what goes out is bounded by that.
WithinBound(l) ==
    \A t \in {"advance", "balance", "security_deposit"} : l[t] <= MaxPaid

\* Leaving draft takes the items that are still draft along.
Confirmed(s) == [i \in Items |-> IF s[i] = "draft" THEN "confirmed" ELSE s[i]]

\* createBooking.  An advance may cover rent and deposit together, and it
\* all goes on the ledger as `advance'.
CreateBooking(lines, rent, off, fee, dep, entered, advance) ==
    LET total  == rent - off + fee
        drafts == [i \in Items |-> IF i \in lines THEN "draft" ELSE "absent"]
    IN  /\ orderStatus = "none"
        /\ lines # {}
        /\ off <= rent
        /\ advance <= total + dep
        /\ advance <= MaxPaid
        /\ gross' = rent /\ discount' = off /\ additional' = fee
        /\ deposit' = dep /\ overridden' = entered
        /\ damage' = 0
        /\ ledger' = Post(EmptyLedger, "advance", advance)
        /\ IF advance > 0
           THEN /\ orderStatus' = "confirmed"
                /\ item' = Confirmed(drafts)
                /\ paymentStatus' = StatusOf(ledger', total, dep)
           ELSE /\ orderStatus' = "draft"
                /\ item' = drafts
                /\ paymentStatus' = "unpaid"

\* recomputeOrderTotal, given the rent of the items left on the order: the
\* stored discount is cut down to it, and an order with no active item left
\* secures nothing.  A deposit that was not entered by hand is summed again
\* from the variations' current defaults.
RecomputeOrderTotal(rent, fee) ==
    /\ gross' = rent
    /\ discount' = Lesser(discount, rent)
    /\ additional' = fee
    /\ UNCHANGED overridden
    /\ CASE Active(item') = {}                 -> deposit' = 0
         [] Active(item') # {} /\ overridden   -> UNCHANGED deposit
         [] OTHER                              -> deposit' \in Deposits

\* updateBookingOrder: the payment status is not derived again.
UpdateBookingOrder(fee) ==
    /\ orderStatus \in Editable
    /\ UNCHANGED <<orderStatus, item, damage, ledger, paymentStatus>>
    /\ RecomputeOrderTotal(gross, fee)

\* addBookingItem.
AddBookingItem(i, rent) ==
    /\ orderStatus \in {"draft", "confirmed"}
    /\ item[i] = "absent"
    /\ item' = [item EXCEPT ![i] = IF orderStatus = "draft" THEN "draft"
                                   ELSE "confirmed"]
    /\ RecomputeOrderTotal(gross + rent, additional)
    /\ UNCHANGED <<orderStatus, damage, ledger, paymentStatus>>

\* updateBookingItem: new dates or a smaller quantity reprice the line, and
\* rent is what the order then comes to.
UpdateBookingItem(i, rent) ==
    /\ orderStatus # "none"
    /\ item[i] \in Editable
    /\ UNCHANGED <<orderStatus, item, damage, ledger, paymentStatus>>
    /\ RecomputeOrderTotal(rent, additional)

\* recordPayment, with the rows it writes already chosen.
RecordPayment(l, inflow) ==
    /\ orderStatus \in {"draft", "confirmed"}
    /\ WithinBound(l)
    /\ ledger' = l
    /\ paymentStatus' = StatusOf(l, RentPayable, deposit)
    /\ IF orderStatus = "draft" /\ inflow
       THEN orderStatus' = "confirmed" /\ item' = Confirmed(item)
       ELSE UNCHANGED <<orderStatus, item>>
    /\ UNCHANGED <<bill, damage>>

\* Mutant of RecordRefund: what was refunded before is not counted.
RecordRefundAgain(amount) ==
    /\ amount > 0
    /\ amount <= ledger["advance"] + ledger["balance"]
    /\ RecordPayment(Post(ledger, "refund", amount), FALSE)

\* Money back out of the rent pool, or out of the deposit pool; each checked
\* against what its own pool collected and has already handed back.
RecordRefund(amount) ==
    /\ amount > 0
    /\ amount <= NonNegative(ledger["advance"] + ledger["balance"]
                               - ledger["refund"])
    /\ RecordPayment(Post(ledger, "refund", amount), FALSE)

RecordDepositRelease(amount) ==
    /\ amount > 0
    /\ amount <= NonNegative(ledger["security_deposit"]
                               - ledger["deposit_release"])
    /\ RecordPayment(Post(ledger, "deposit_release", amount), FALSE)

\* Mutant of RecordInflow: not capped at the pool's own balance.
RecordInflowUncapped(t, amount) ==
    /\ amount > 0
    /\ RecordPayment(Post(ledger, t, amount), TRUE)

\* Money in: rent is settled by advance or balance, the deposit by
\* security_deposit, neither beyond its own balance.
RecordInflow(t, amount) ==
    /\ amount > 0
    /\ amount <= NonNegative(IF t = "security_deposit"
                             THEN CurrentBalances.deposit
                             ELSE CurrentBalances.rent)
    /\ RecordPayment(Post(ledger, t, amount), TRUE)

\* full_payment: the rent balance first, the rest toward the deposit.
RecordFullPayment(amount) ==
    LET rentDue     == NonNegative(CurrentBalances.rent)
        depositDue  == NonNegative(CurrentBalances.deposit)
        rentPortion == Lesser(amount, rentDue)
    IN  /\ amount > 0
        /\ amount <= rentDue + depositDue
        /\ RecordPayment(Post(Post(ledger, "balance", rentPortion),
                              "security_deposit", amount - rentPortion),
                         TRUE)

\* confirmPickup (one item) and confirmPickupOrder (several): money taken at
\* the counter is not capped, and an outstanding balance blocks the pickup
\* unless the clerk defers it.
ConfirmPickup(picked, paid, depositPaid, allowPendingBalance) ==
    LET l == Post(Post(ledger, "balance", paid), "security_deposit", depositPaid)
    IN  /\ orderStatus # "none"
        /\ picked # {}
        /\ \A i \in picked : /\ item[i] \in Statuses \ {"rented"}
                             /\ CanTransition(item[i], "rented")
        /\ WithinBound(l)
        /\ \/ OutstandingOf(Balances(l, RentPayable, deposit)) <= 0
           \/ allowPendingBalance
        /\ ledger' = l
        /\ item' = [i \in Items |-> IF i \in picked THEN "rented" ELSE item[i]]
        /\ paymentStatus' = StatusOf(l, RentPayable, deposit)
        /\ UNCHANGED <<orderStatus, bill, damage>>

\* Mutant of Forfeited: the whole deposit, whatever the damage.
ForfeitedWhole(charge) == DepositHeld(ledger)

\* What of a damage charge the deposit still held can cover.
Forfeited(charge) == Lesser(charge, DepositHeld(ledger))

\* returnBooking: damage is taken out of the deposit held; what then remains
\* of it goes back once no sibling is unfinished.
ReturnBooking(i, charge) ==
    LET fromDeposit == Forfeited(charge)
        applied     == Post(ledger, "deposit_applied", fromDeposit)
        last        == \A j \in Items \ {i} : item[j] \in Terminal \cup {"absent"}
        l           == IF last THEN Post(applied, "deposit_release",
                                         DepositHeld(ledger) - fromDeposit)
                       ELSE applied
    IN  /\ item[i] \in Statuses \ {"returned"}
        /\ CanTransition(item[i], "returned")
        /\ ledger' = l
        /\ item' = [item EXCEPT ![i] = "returned"]
        /\ damage' = damage + charge
        /\ paymentStatus' = StatusOf(l, RentPayable + charge, deposit)
        /\ UNCHANGED <<orderStatus, bill>>

\* markOverdueItems: every eligible item whose last day has passed; which
\* ones that is, is the calendar's business.
MarkOverdueItems(late) ==
    /\ late # {}
    /\ \A i \in late : item[i] \in OverdueEligible
    /\ item' = [i \in Items |-> IF i \in late THEN "overdue" ELSE item[i]]
    /\ UNCHANGED <<orderStatus, bill, damage, ledger, paymentStatus>>

\* Mutant of SettleCancelledOrder: against the bill before the cancellation.
SettleAgainstOldBill ==
    LET l == Settled(ledger, RentPayable)
    IN  /\ ledger' = l
        /\ paymentStatus' = IF CashIn(l) <= 0 THEN "unpaid" ELSE "refunded"

\* settleCancelledOrder, against the bill as recomputed in the same
\* transaction.
SettleCancelledOrder ==
    LET l == Settled(ledger, RentPayable')
    IN  /\ ledger' = l
        /\ paymentStatus' = IF CashIn(l) <= 0 THEN "unpaid" ELSE "refunded"

\* cancelBookingItem: ending the last live line ends the order in practice,
\* so the money is settled then.
CancelBookingItem(i, rent) ==
    /\ item[i] \in Statuses \ {"cancelled"}
    /\ CanTransition(item[i], "cancelled")
    /\ item' = [item EXCEPT ![i] = "cancelled"]
    /\ rent <= gross
    /\ Active(item') = {} => rent = 0
    /\ RecomputeOrderTotal(rent, additional)
    /\ UNCHANGED <<orderStatus, damage>>
    /\ IF Finished(item') THEN SettleCancelledOrder
       ELSE UNCHANGED <<ledger, paymentStatus>>

\* cancelBookingOrder: an item out with the customer stays out.
CancelBookingOrder(rent) ==
    LET cancelled == {i \in OnOrder : CanTransition(item[i], "cancelled")}
    IN  /\ orderStatus \in Statuses \ {"cancelled"}
        /\ CanTransition(orderStatus, "cancelled")
        /\ orderStatus' = "cancelled"
        /\ item' = [i \in Items |-> IF i \in cancelled THEN "cancelled"
                                    ELSE item[i]]
        /\ rent <= gross
        /\ (item' = item) => rent = gross
        /\ Active(item') = {} => rent = 0
        /\ RecomputeOrderTotal(rent, additional)
        /\ UNCHANGED damage
        /\ SettleCancelledOrder

\* deleteBooking: refused while an item is out; the order's rows, payments
\* included, go with it.
DeleteBooking ==
    /\ orderStatus # "none"
    /\ \A i \in Items : item[i] \notin OutWithCustomer
    /\ orderStatus' = "none"
    /\ item' = [i \in Items |-> "absent"]
    /\ gross' = 0 /\ discount' = 0 /\ additional' = 0 /\ deposit' = 0
    /\ overridden' = FALSE
    /\ damage' = 0
    /\ ledger' = EmptyLedger
    /\ paymentStatus' = "unpaid"

Charges == Payments \cup {0}

Next ==
    \/ \E lines \in SUBSET Items, rent \in Rents, off \in Rents \cup {0},
          fee \in Fees, dep \in Deposits, entered \in BOOLEAN,
          advance \in Charges :
          CreateBooking(lines, rent, off, fee, dep, entered, advance)
    \/ \E fee \in Fees : UpdateBookingOrder(fee)
    \/ \E i \in Items, rent \in Rents : AddBookingItem(i, rent)
    \/ \E i \in Items, rent \in Rents : UpdateBookingItem(i, rent)
    \/ \E amount \in Payments : RecordRefund(amount)
    \/ \E amount \in Payments : RecordDepositRelease(amount)
    \/ \E t \in {"advance", "balance", "security_deposit"},
          amount \in Payments : RecordInflow(t, amount)
    \/ \E amount \in Payments : RecordFullPayment(amount)
    \/ \E picked \in SUBSET Items, paid \in Charges, depositPaid \in Charges,
          allow \in BOOLEAN : ConfirmPickup(picked, paid, depositPaid, allow)
    \/ \E i \in Items, charge \in Charges : ReturnBooking(i, charge)
    \/ \E late \in SUBSET Items : MarkOverdueItems(late)
    \/ \E i \in Items, rent \in Rents \cup {0} : CancelBookingItem(i, rent)
    \/ \E rent \in Rents \cup {0} : CancelBookingOrder(rent)
    \/ DeleteBooking

Spec == Init /\ [][Next]_vars
-----------------------------------------------------------------------------
TypeOK ==
    /\ orderStatus \in OrderStatuses
    /\ item \in [Items -> Statuses \cup {"absent"}]
    /\ gross \in Nat /\ discount \in Nat /\ additional \in Nat
    /\ deposit \in Nat /\ overridden \in BOOLEAN
    /\ damage \in Nat
    /\ ledger \in Ledgers
    /\ paymentStatus \in PaymentStatuses

\* An order never shows an outstanding balance and a credit at once, whatever
\* was paid into which pool and however the bill moved since (RQ-11).
NeverBothSided == ~(Outstanding > 0 /\ CreditBalance > 0)

\* Each pool hands back no more than it took in: refunds come out of rent,
\* releases out of the deposit, by hand, at a return or at a cancellation.
OutflowsCovered ==
    /\ ledger["refund"] <= ledger["advance"] + ledger["balance"]
    /\ ledger["deposit_release"] <= ledger["security_deposit"]

\* The shop keeps no more of a deposit than the damage it has assessed,
\* over all the returns of the order.
ForfeitCovered == ledger["deposit_applied"] <= damage

\* After a cancellation the shop holds no deposit and no rent beyond what
\* the items still out are charged, and later returns keep it so (RQ-08).
CancelledIsSquare ==
    orderStatus = "cancelled" =>
        /\ DepositHeld(ledger) = 0
        /\ RentCollected(ledger) <= RentPayable

\* The inductive strengthening the proofs use: a discount never exceeds the
\* rent it is taken from, an order that is not there has no items, and one
\* that was cancelled has none left to edit, pick up or cancel.
LedgerInv ==
    /\ TypeOK
    /\ discount <= gross
    /\ OutflowsCovered
    /\ ForfeitCovered
    /\ CancelledIsSquare
    /\ orderStatus = "none" => \A i \in Items : item[i] = "absent"
    /\ orderStatus = "cancelled" => \A i \in Items : item[i] \notin Editable

\* Settling twice hands back nothing the second time (RQ-08).
SettlementIdempotent ==
    LET once == Settled(ledger, RentPayable)
    IN  Settled(once, RentPayable) = once

\* When the last unfinished item of an order ends -- returned, cancelled
\* alone or with its order -- no deposit stays behind.
ClosingReleasesDeposit ==
    [][(OnOrder # {} /\ ~Finished(item) /\ Finished(item')
          /\ orderStatus' # "none")
        => DepositHeld(ledger') = 0]_vars

\* Money recorded against an order settles exactly that much of what is
\* outstanding and never turns into a credit; only a counter collection at
\* pickup may take more than is owed.
InflowSettlesOutstanding ==
    [][(/\ orderStatus # "none" /\ orderStatus' # "none"
        /\ CashIn(ledger') > CashIn(ledger)
        /\ \A i \in Items : item'[i] = "rented" => item[i] = "rented")
        => /\ Outstanding' = Outstanding - (CashIn(ledger') - CashIn(ledger))
           /\ CreditBalance' = CreditBalance]_vars
-----------------------------------------------------------------------------
(* What the repository says of this ledger and the handlers do not keep;   *)
(* refuted by a run of its own.                                            *)

\* "otherwise a booking can end up `refunded' money that was never paid in"
\* (recordPayment): what leaves the deposit pool, handed back or kept
\* against damage, was taken into it.
DepositNeverOverdrawn ==
    ledger["deposit_release"] + ledger["deposit_applied"]
        <= ledger["security_deposit"]
=============================================================================
