--------------------------- MODULE PaymentSummary ---------------------------
(***************************************************************************)
(* The arithmetic of computePaymentSummary in                              *)
(* src/server/payments/service.ts.  Money is an integer number of paise,   *)
(* exactly as src/lib/money.ts computes it; a ledger is the record of the  *)
(* sums of its immutable rows by payment type, which is all the service    *)
(* ever reads of them.                                                     *)
(***************************************************************************)
EXTENDS Integers

\* Without damage_charge, which no handler writes and the summary ignores.
PaymentTypes == {"advance", "balance", "security_deposit",
                 "refund", "deposit_release", "deposit_applied"}

Ledgers == [PaymentTypes -> Nat]

EmptyLedger == [t \in PaymentTypes |-> 0]

\* One more row of type t.
Post(l, t, amount) == [l EXCEPT ![t] = @ + amount]

NonNegative(x) == IF x > 0 THEN x ELSE 0
Lesser(a, b)   == IF a < b THEN a ELSE b

RentCollected(l) ==
    l["advance"] + l["balance"] - l["refund"] + l["deposit_applied"]

DepositHeld(l) ==
    NonNegative(l["security_deposit"]
                  - (l["deposit_release"] + l["deposit_applied"]))

\* How much of an over-payment on one side meets a shortfall on the other.
Transfer(from, to) == Lesser(NonNegative(0 - from), NonNegative(to))

\* Mutant of Netted: only a rent over-payment is moved.
NettedOneWay(rent, dep) ==
    LET toDep == Transfer(rent, dep)
    IN  [rent |-> rent + toDep, deposit |-> dep - toDep]

\* Each side's over-payment netted against the other's shortfall, rent first.
Netted(rent, dep) ==
    LET toDep  == Transfer(rent, dep)
        toRent == Transfer(dep - toDep, rent + toDep)
    IN  [rent |-> rent + toDep - toRent, deposit |-> dep - toDep + toRent]

\* rentBalance and depositBalance of the summary.
Balances(l, rentPayable, depositDue) ==
    Netted(rentPayable - RentCollected(l), depositDue - l["security_deposit"])

OutstandingOf(b) == NonNegative(b.rent) + NonNegative(b.deposit)
CreditOf(b)      == NonNegative(0 - b.rent) + NonNegative(0 - b.deposit)

PaymentStatuses == {"unpaid", "partial", "paid", "refunded"}

StatusOf(l, rentPayable, depositDue) ==
    LET outstanding == OutstandingOf(Balances(l, rentPayable, depositDue))
    IN  IF l["refund"] > 0 /\ RentCollected(l) <= 0 /\ DepositHeld(l) <= 0
        THEN "refunded"
        ELSE IF outstanding <= 0 THEN "paid"
        ELSE IF RentCollected(l) > 0 \/ l["security_deposit"] > 0
        THEN "partial" ELSE "unpaid"

\* Mutants of Settled: what is refunded is not clamped at zero; the deposit
\* is released gross; it is not released at all.
SettledUnclamped(l, rentPayable) ==
    LET released == Post(l, "deposit_release", DepositHeld(l))
    IN  Post(released, "refund", RentCollected(released) - rentPayable)
SettledGross(l, rentPayable) ==
    LET released == Post(l, "deposit_release", l["security_deposit"])
    IN  Post(released, "refund",
             NonNegative(RentCollected(released) - rentPayable))
SettledRentOnly(l, rentPayable) ==
    Post(l, "refund", NonNegative(RentCollected(l) - rentPayable))

\* settleCancelledOrder: release the deposit still held, then refund what
\* the rent side has collected beyond what is payable.
Settled(l, rentPayable) ==
    LET released == Post(l, "deposit_release", DepositHeld(l))
    IN  Post(released, "refund",
             NonNegative(RentCollected(released) - rentPayable))

\* The customer's own money the shop is holding or has kept.
CashIn(l)  == l["advance"] + l["balance"] + l["security_deposit"]
CashOut(l) == l["refund"] + l["deposit_release"]
NetPaid(l) == CashIn(l) - CashOut(l)
=============================================================================
