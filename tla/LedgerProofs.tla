---------------------------- MODULE LedgerProofs ----------------------------
(***************************************************************************)
(* What holds of an order's money for every set of items and every choice  *)
(* of amounts, from the arithmetic of MoneyTheorems.                       *)
(***************************************************************************)
EXTENDS Ledger, MoneyTheorems

\* recomputeOrderTotal leaves a bill that is one: nothing negative, and a
\* discount no larger than the rent.
LEMMA RecomputedBill ==
    ASSUME LedgerInv, NEW rent \in Nat, NEW fee \in Nat,
           RecomputeOrderTotal(rent, fee)
    PROVE  /\ gross' = rent /\ additional' = fee
           /\ discount' \in Nat /\ discount' <= gross'
           /\ deposit' \in Nat /\ overridden' \in BOOLEAN
           /\ overridden' = overridden
<1>1. /\ discount \in Nat /\ deposit \in Nat
      /\ gross' = rent /\ additional' = fee
      /\ discount' = Lesser(discount, rent)
  BY DEF LedgerInv, TypeOK, RecomputeOrderTotal
<1>2. discount' \in Nat /\ discount' <= gross'
  BY <1>1 DEF Lesser
<1>3. deposit' \in Nat
  <2>1. deposit' = 0 \/ deposit' = deposit \/ deposit' \in Deposits
    BY DEF RecomputeOrderTotal
  <2>2. Deposits \subseteq Nat
    BY LedgerAssumption
  <2>3. ASSUME deposit' \in Deposits PROVE deposit' \in Nat
    BY <2>2, <2>3
  <2>4. QED
    BY <1>1, <2>1, <2>3
<1>4. overridden' \in BOOLEAN /\ overridden' = overridden
  BY DEF LedgerInv, TypeOK, RecomputeOrderTotal
<1>5. QED
  BY <1>1, <1>2, <1>3, <1>4

\* What recordPayment writes keeps the invariant whenever the rows it was
\* given do.
LEMMA RecordedKeepsInv ==
    ASSUME LedgerInv, NEW l \in Ledgers, NEW inflow \in BOOLEAN,
           l["refund"] <= l["advance"] + l["balance"],
           l["deposit_release"] <= l["security_deposit"],
           l["deposit_applied"] = ledger["deposit_applied"],
           RecordPayment(l, inflow)
    PROVE  LedgerInv'
<1>1. /\ ledger' = l /\ orderStatus \in {"draft", "confirmed"}
      /\ UNCHANGED <<gross, discount, additional, deposit, overridden, damage>>
      /\ orderStatus' \in {"draft", "confirmed"}
      /\ item' \in {item, Confirmed(item)}
  BY DEF RecordPayment, bill
<1>2. paymentStatus' \in PaymentStatuses
  BY StatusType DEF RecordPayment
<1>3. item' \in [Items -> Statuses \cup {"absent"}]
  BY <1>1 DEF LedgerInv, TypeOK, Confirmed, Statuses
<1>4. TypeOK'
  BY <1>1, <1>2, <1>3 DEF LedgerInv, TypeOK, OrderStatuses
<1>5. OutflowsCovered' /\ ForfeitCovered'
  BY <1>1 DEF LedgerInv, OutflowsCovered, ForfeitCovered
<1>6. CancelledIsSquare' /\ (discount <= gross)'
  BY <1>1 DEF LedgerInv, CancelledIsSquare
<1>7. QED
  BY <1>1, <1>4, <1>5, <1>6 DEF LedgerInv

\* An order that is not there keeps the invariant.
LEMMA InitInv == Init => LedgerInv
<1> SUFFICES ASSUME Init PROVE LedgerInv
  OBVIOUS
<1>1. ledger \in Ledgers /\ \A t \in PaymentTypes : ledger[t] = 0
  BY DEF Init, EmptyLedger, Ledgers
<1>2. TypeOK
  BY <1>1 DEF Init, TypeOK, OrderStatuses, PaymentStatuses
<1>3. OutflowsCovered /\ ForfeitCovered
  BY <1>1 DEF Init, OutflowsCovered, ForfeitCovered, PaymentTypes
<1>4. QED
  BY <1>2, <1>3 DEF Init, LedgerInv, CancelledIsSquare

\* createBooking: a new bill, at most an advance on it.
LEMMA CreateKeepsInv ==
    ASSUME LedgerInv, NEW lines \in SUBSET Items, NEW rent \in Nat,
           NEW off \in Nat, NEW fee \in Nat, NEW dep \in Nat,
           NEW entered \in BOOLEAN, NEW advance \in Nat,
           CreateBooking(lines, rent, off, fee, dep, entered, advance)
    PROVE  LedgerInv'
<1>1. /\ gross' = rent /\ discount' = off /\ additional' = fee
      /\ deposit' = dep /\ overridden' = entered /\ damage' = 0
      /\ ledger' = Post(EmptyLedger, "advance", advance)
      /\ off <= rent
      /\ orderStatus' \in {"draft", "confirmed"}
  BY DEF CreateBooking
<1>2. item' \in [Items -> Statuses \cup {"absent"}]
  BY DEF CreateBooking, Confirmed, Statuses
<1>3. paymentStatus' \in PaymentStatuses
  BY StatusType DEF CreateBooking, PaymentStatuses
<1>4. /\ EmptyLedger \in Ledgers /\ "advance" \in PaymentTypes
      /\ \A t \in PaymentTypes : EmptyLedger[t] = 0
  BY DEF EmptyLedger, Ledgers, PaymentTypes
<1>5. /\ ledger' \in Ledgers
      /\ ledger'["advance"] = advance
      /\ \A t \in PaymentTypes \ {"advance"} : ledger'[t] = 0
  <2>1. /\ Post(EmptyLedger, "advance", advance) \in Ledgers
        /\ Post(EmptyLedger, "advance", advance)["advance"]
             = EmptyLedger["advance"] + advance
        /\ \A t \in PaymentTypes \ {"advance"} :
              Post(EmptyLedger, "advance", advance)[t] = EmptyLedger[t]
    BY <1>4, PostType
  <2>2. QED
    BY <1>1, <1>4, <2>1
<1>6. TypeOK'
  BY <1>1, <1>2, <1>3, <1>5 DEF TypeOK, OrderStatuses
<1>7. OutflowsCovered' /\ ForfeitCovered'
  BY <1>1, <1>5 DEF OutflowsCovered, ForfeitCovered, PaymentTypes
<1>8. QED
  BY <1>1, <1>6, <1>7 DEF LedgerInv, CancelledIsSquare

\* confirmPickup: money only comes in, and a cancelled order has nothing to
\* pick up.
LEMMA PickupKeepsInv ==
    ASSUME LedgerInv, NEW picked \in SUBSET Items, NEW paid \in Nat,
           NEW depositPaid \in Nat, NEW allow \in BOOLEAN,
           ConfirmPickup(picked, paid, depositPaid, allow)
    PROVE  LedgerInv'
<1> DEFINE m == Post(ledger, "balance", paid)
           l == Post(m, "security_deposit", depositPaid)
<1>1. /\ ledger' = l
      /\ orderStatus' = orderStatus /\ orderStatus # "none"
      /\ UNCHANGED <<gross, discount, additional, deposit, overridden, damage>>
      /\ item' = [i \in Items |-> IF i \in picked THEN "rented" ELSE item[i]]
      /\ picked # {}
      /\ \A i \in picked : item[i] \in Statuses \ {"rented"}
                          /\ CanTransition(item[i], "rented")
      /\ paymentStatus' \in PaymentStatuses
  BY StatusType DEF ConfirmPickup, bill
<1>2. ledger \in Ledgers /\ {"balance", "security_deposit"} \subseteq PaymentTypes
  BY DEF LedgerInv, TypeOK, PaymentTypes
<1>3. /\ m \in Ledgers /\ m["balance"] = ledger["balance"] + paid
      /\ \A u \in PaymentTypes \ {"balance"} : m[u] = ledger[u]
  BY <1>2, PostType
<1>4. /\ l \in Ledgers /\ l["security_deposit"] = m["security_deposit"] + depositPaid
      /\ \A u \in PaymentTypes \ {"security_deposit"} : l[u] = m[u]
  BY <1>2, <1>3, PostType
<1> HIDE DEF l, m
<1>5. TypeOK'
  BY <1>1, <1>4 DEF LedgerInv, TypeOK, Statuses
<1>6. orderStatus # "cancelled"
  BY <1>1 DEF LedgerInv, CanTransition, Transitions, Editable
<1>7. OutflowsCovered' /\ ForfeitCovered'
  BY <1>1, <1>2, <1>3, <1>4, LedgerNat
     DEF LedgerInv, OutflowsCovered, ForfeitCovered, PaymentTypes
<1>8. QED
  BY <1>1, <1>5, <1>6, <1>7 DEF LedgerInv, CancelledIsSquare

\* A return: the damage it assesses covers what is kept of the deposit, and a
\* cancelled order has no deposit left to keep or to release.
LEMMA ReturnKeepsInv ==
    ASSUME LedgerInv, NEW i \in Items, NEW charge \in Nat,
           ReturnBooking(i, charge)
    PROVE  LedgerInv'
<1> DEFINE held == DepositHeld(ledger)
           fromDeposit == Lesser(charge, held)
           applied == Post(ledger, "deposit_applied", fromDeposit)
           released == Post(applied, "deposit_release", held - fromDeposit)
<1>1. /\ ledger' \in {applied, released}
      /\ orderStatus' = orderStatus
      /\ UNCHANGED <<gross, discount, additional, deposit, overridden>>
      /\ item' = [item EXCEPT ![i] = "returned"]
      /\ damage' = damage + charge
      /\ item[i] # "absent"
      /\ paymentStatus' \in PaymentStatuses
  BY StatusType DEF ReturnBooking, Forfeited, bill, Statuses
<1>2. ledger \in Ledgers /\ {"deposit_applied", "deposit_release"} \subseteq PaymentTypes
  BY DEF LedgerInv, TypeOK, PaymentTypes
<1>3. /\ held \in Nat /\ fromDeposit \in Nat /\ held - fromDeposit \in Nat
      /\ fromDeposit <= charge
  BY <1>2, LedgerNat DEF Lesser
<1>4. held = NonNegative(ledger["security_deposit"]
               - (ledger["deposit_release"] + ledger["deposit_applied"]))
  BY DEF DepositHeld
<1> HIDE DEF held, fromDeposit
<1>5. /\ applied \in Ledgers
      /\ applied["deposit_applied"] = ledger["deposit_applied"] + fromDeposit
      /\ \A u \in PaymentTypes \ {"deposit_applied"} : applied[u] = ledger[u]
  BY <1>2, <1>3, PostType
<1> HIDE DEF applied
<1>6. /\ released \in Ledgers
      /\ released["deposit_release"]
           = applied["deposit_release"] + (held - fromDeposit)
      /\ \A u \in PaymentTypes \ {"deposit_release"} : released[u] = applied[u]
  BY <1>2, <1>3, <1>5, PostType
<1> HIDE DEF released
<1>7. /\ ledger' \in Ledgers
      /\ ledger'["advance"] = ledger["advance"]
      /\ ledger'["balance"] = ledger["balance"]
      /\ ledger'["refund"] = ledger["refund"]
      /\ ledger'["security_deposit"] = ledger["security_deposit"]
      /\ ledger'["deposit_applied"] = ledger["deposit_applied"] + fromDeposit
      /\ \/ ledger'["deposit_release"] = ledger["deposit_release"]
         \/ ledger'["deposit_release"]
              = ledger["deposit_release"] + (held - fromDeposit)
  BY <1>1, <1>5, <1>6 DEF PaymentTypes
<1>8. TypeOK'
  BY <1>1, <1>3, <1>7 DEF LedgerInv, TypeOK, Statuses
<1>9. OutflowsCovered'
  BY <1>2, <1>3, <1>4, <1>7, LedgerNat
     DEF LedgerInv, OutflowsCovered, NonNegative
<1>10. ForfeitCovered'
  BY <1>1, <1>2, <1>3, <1>7, LedgerNat DEF LedgerInv, TypeOK, ForfeitCovered
<1>11. CancelledIsSquare'
  <2> SUFFICES ASSUME orderStatus = "cancelled"
               PROVE  /\ DepositHeld(ledger') = 0
                      /\ RentCollected(ledger') <= RentPayable'
    BY <1>1 DEF CancelledIsSquare
  <2>1. held = 0 /\ RentCollected(ledger) <= RentPayable
    BY DEF LedgerInv, CancelledIsSquare, held
  <2>2. fromDeposit = 0
    BY <1>3, <2>1
  <2>3. /\ ledger'["deposit_applied"] = ledger["deposit_applied"]
        /\ ledger'["deposit_release"] = ledger["deposit_release"]
    BY <1>2, <1>7, <2>1, <2>2, LedgerNat
  <2>4. DepositHeld(ledger') = DepositHeld(ledger)
    BY <1>7, <2>3 DEF DepositHeld
  <2>5. RentCollected(ledger') = RentCollected(ledger)
    BY <1>7, <2>3 DEF RentCollected
  <2>6. RentPayable' = RentPayable + charge
    BY <1>1 DEF RentPayable, TotalAmount, LedgerInv, TypeOK
  <2>7. RentPayable \in Int
    BY DEF RentPayable, TotalAmount, LedgerInv, TypeOK
  <2>8. QED
    BY <1>2, <2>1, <2>4, <2>5, <2>6, <2>7, LedgerNat DEF held
<1>12. /\ orderStatus' = "none" => \A j \in Items : item'[j] = "absent"
       /\ orderStatus' = "cancelled" => \A j \in Items : item'[j] \notin Editable
  BY <1>1 DEF LedgerInv, TypeOK, Editable
<1>13. discount' <= gross'
  BY <1>1 DEF LedgerInv
<1>14. QED
  BY <1>8, <1>9, <1>10, <1>11, <1>12, <1>13 DEF LedgerInv

\* Repricing moves the bill and nothing else, and never on a cancelled order.
LEMMA RepricedKeepsInv ==
    ASSUME LedgerInv, NEW rent \in Nat, NEW fee \in Nat,
           RecomputeOrderTotal(rent, fee),
           UNCHANGED <<orderStatus, damage, ledger, paymentStatus>>,
           orderStatus \notin {"none", "cancelled"},
           item' \in [Items -> Statuses \cup {"absent"}]
    PROVE  LedgerInv'
<1>1. /\ gross' \in Nat /\ additional' \in Nat /\ discount' \in Nat
      /\ discount' <= gross' /\ deposit' \in Nat /\ overridden' \in BOOLEAN
  BY RecomputedBill
<1>2. TypeOK'
  BY <1>1 DEF LedgerInv, TypeOK
<1>3. OutflowsCovered' /\ ForfeitCovered'
  BY DEF LedgerInv, OutflowsCovered, ForfeitCovered
<1>4. QED
  BY <1>1, <1>2, <1>3 DEF LedgerInv, CancelledIsSquare

\* A settlement keeps the invariant whatever it does to the order's status:
\* the deposit kept against damage is part of what is payable.
LEMMA SettlementKeepsInv ==
    ASSUME LedgerInv, NEW rent \in Nat, NEW fee \in Nat,
           RecomputeOrderTotal(rent, fee),
           UNCHANGED damage, SettleCancelledOrder,
           orderStatus' \in OrderStatuses \ {"none"},
           item' \in [Items -> Statuses \cup {"absent"}],
           orderStatus' = "cancelled" => \A i \in Items : item'[i] \notin Editable
    PROVE  /\ LedgerInv'
           /\ DepositHeld(ledger') = 0
<1> DEFINE p == RentPayable'
<1>1. /\ gross' \in Nat /\ additional' \in Nat /\ discount' \in Nat
      /\ discount' <= gross' /\ deposit' \in Nat
  BY RecomputedBill
<1>2. overridden' \in BOOLEAN
  BY RecomputedBill
<1>3. /\ damage \in Nat /\ damage' = damage /\ ledger \in Ledgers
      /\ ledger["deposit_applied"] <= damage
      /\ ledger["refund"] <= ledger["advance"] + ledger["balance"]
      /\ ledger["deposit_release"] <= ledger["security_deposit"]
  BY DEF LedgerInv, TypeOK, ForfeitCovered, OutflowsCovered
<1>4. p \in Int /\ damage <= p
  <2>1. p = gross' - discount' + additional' + damage
    BY <1>3 DEF RentPayable, TotalAmount
  <2>2. damage \in Nat
    BY <1>3
  <2> HIDE DEF p
  <2>3. ASSUME NEW g \in Nat, NEW o \in Nat, NEW a \in Nat, NEW d \in Nat, o <= g
        PROVE  g - o + a + d \in Int /\ d <= g - o + a + d
    BY <2>3
  <2>4. QED
    BY <1>1, <2>1, <2>2, <2>3
<1>5. ledger["deposit_applied"] <= p
  BY <1>3, <1>4, LedgerNat
<1>6. ledger' = Settled(ledger, p)
  BY DEF SettleCancelledOrder
<1> HIDE DEF p
<1>7. /\ ledger' \in Ledgers
      /\ DepositHeld(ledger') = 0
      /\ RentCollected(ledger') <= p
      /\ ledger'["refund"] <= ledger'["advance"] + ledger'["balance"]
      /\ ledger'["deposit_release"] <= ledger'["security_deposit"]
      /\ ledger'["deposit_applied"] = ledger["deposit_applied"]
  BY <1>3, <1>4, <1>5, <1>6, SettledSquare, SettledCovered
<1>8. paymentStatus' \in PaymentStatuses
  BY DEF SettleCancelledOrder, PaymentStatuses
<1>9. TypeOK'
  BY <1>1, <1>2, <1>3, <1>7, <1>8 DEF TypeOK
<1>10. OutflowsCovered' /\ ForfeitCovered' /\ CancelledIsSquare'
  BY <1>3, <1>7 DEF OutflowsCovered, ForfeitCovered, CancelledIsSquare, p
<1>11. QED
  BY <1>1, <1>7, <1>9, <1>10 DEF LedgerInv

\* deleteBooking: nothing is left to owe.
LEMMA DeleteKeepsInv ==
    ASSUME LedgerInv, DeleteBooking PROVE LedgerInv'
<1>1. Init'
  BY DEF DeleteBooking, Init
<1>2. QED
  BY <1>1, InitInv, PTL

\* Every handler keeps the invariant.
LEMMA StepKeepsInv == LedgerInv /\ [Next]_vars => LedgerInv'
<1> SUFFICES ASSUME LedgerInv, [Next]_vars PROVE LedgerInv'
  OBVIOUS
<1>0. /\ Rents \subseteq Nat /\ Fees \subseteq Nat /\ Deposits \subseteq Nat
      /\ Charges \subseteq Nat /\ Payments \subseteq Nat
      /\ gross \in Nat /\ additional \in Nat
      /\ ledger \in Ledgers
  BY LedgerAssumption DEF Charges, LedgerInv, TypeOK
<1>1. CASE \E lines \in SUBSET Items, rent \in Rents, off \in Rents \cup {0},
              fee \in Fees, dep \in Deposits, entered \in BOOLEAN,
              advance \in Charges :
              CreateBooking(lines, rent, off, fee, dep, entered, advance)
  BY <1>0, <1>1, CreateKeepsInv
<1>2. ASSUME NEW fee \in Fees, UpdateBookingOrder(fee) PROVE LedgerInv'
  <2>1. /\ RecomputeOrderTotal(gross, fee)
        /\ UNCHANGED <<orderStatus, damage, ledger, paymentStatus>>
        /\ orderStatus \notin {"none", "cancelled"}
        /\ item' = item
    BY <1>2 DEF UpdateBookingOrder, Editable
  <2>2. item' \in [Items -> Statuses \cup {"absent"}]
    BY <2>1 DEF LedgerInv, TypeOK
  <2>3. QED
    BY <1>0, <2>1, <2>2, RepricedKeepsInv
<1>3. ASSUME NEW i \in Items, NEW rent \in Rents, AddBookingItem(i, rent)
      PROVE  LedgerInv'
  <2>1. /\ RecomputeOrderTotal(gross + rent, additional)
        /\ UNCHANGED <<orderStatus, damage, ledger, paymentStatus>>
        /\ orderStatus \notin {"none", "cancelled"}
    BY <1>3 DEF AddBookingItem
  <2>2. item' \in [Items -> Statuses \cup {"absent"}]
    BY <1>3 DEF LedgerInv, TypeOK, AddBookingItem, Statuses
  <2>3. rent \in Nat /\ gross + rent \in Nat
    BY <1>0
  <2>4. QED
    BY <1>0, <2>1, <2>2, <2>3, RepricedKeepsInv
<1>4. ASSUME NEW i \in Items, NEW rent \in Rents, UpdateBookingItem(i, rent)
      PROVE  LedgerInv'
  <2>1. /\ RecomputeOrderTotal(rent, additional)
        /\ UNCHANGED <<orderStatus, damage, ledger, paymentStatus>>
        /\ item' = item /\ item[i] \in Editable /\ orderStatus # "none"
    BY <1>4 DEF UpdateBookingItem
  <2>2. item' \in [Items -> Statuses \cup {"absent"}]
    BY <2>1 DEF LedgerInv, TypeOK
  <2>3. orderStatus \notin {"none", "cancelled"}
    BY <2>1 DEF LedgerInv
  <2>4. QED
    BY <1>0, <2>1, <2>2, <2>3, RepricedKeepsInv
<1>5. ASSUME NEW amount \in Payments, RecordRefund(amount) PROVE LedgerInv'
  <2>1. amount \in Nat /\ "refund" \in PaymentTypes
    BY <1>0 DEF PaymentTypes
  <2>2. amount <= NonNegative(ledger["advance"] + ledger["balance"]
                                - ledger["refund"])
    BY <1>5 DEF RecordRefund
  <2>3. ledger["refund"] + amount <= ledger["advance"] + ledger["balance"]
    BY <1>0, <1>5, <2>1, <2>2, LedgerNat DEF NonNegative, RecordRefund
  <2>4. /\ Post(ledger, "refund", amount) \in Ledgers
        /\ Post(ledger, "refund", amount)["refund"] = ledger["refund"] + amount
        /\ \A u \in PaymentTypes \ {"refund"} :
              Post(ledger, "refund", amount)[u] = ledger[u]
    BY <1>0, <2>1, PostType
  <2> DEFINE l == Post(ledger, "refund", amount)
  <2>5. RecordPayment(l, FALSE)
    BY <1>5 DEF RecordRefund
  <2> HIDE DEF l
  <2>6. /\ l["refund"] <= l["advance"] + l["balance"]
        /\ l["deposit_release"] <= l["security_deposit"]
        /\ l["deposit_applied"] = ledger["deposit_applied"]
        /\ l \in Ledgers
    BY <2>3, <2>4 DEF l, LedgerInv, OutflowsCovered, PaymentTypes
  <2>7. QED
    BY <2>5, <2>6, RecordedKeepsInv
<1>6. ASSUME NEW amount \in Payments, RecordDepositRelease(amount)
      PROVE  LedgerInv'
  <2> DEFINE l == Post(ledger, "deposit_release", amount)
  <2>1. amount \in Nat /\ "deposit_release" \in PaymentTypes
    BY <1>0 DEF PaymentTypes
  <2>2. amount > 0 /\ amount <= NonNegative(ledger["security_deposit"]
                                - ledger["deposit_release"])
    BY <1>6 DEF RecordDepositRelease
  <2>3. ledger["deposit_release"] + amount <= ledger["security_deposit"]
    BY <1>0, <2>1, <2>2, LedgerNat DEF NonNegative
  <2>4. /\ l \in Ledgers
        /\ l["deposit_release"] = ledger["deposit_release"] + amount
        /\ \A u \in PaymentTypes \ {"deposit_release"} : l[u] = ledger[u]
    BY <1>0, <2>1, PostType
  <2>5. RecordPayment(l, FALSE)
    BY <1>6 DEF RecordDepositRelease
  <2> HIDE DEF l
  <2>6. /\ l["refund"] <= l["advance"] + l["balance"]
        /\ l["deposit_release"] <= l["security_deposit"]
        /\ l["deposit_applied"] = ledger["deposit_applied"]
    BY <2>3, <2>4 DEF LedgerInv, OutflowsCovered, PaymentTypes
  <2>7. QED
    BY <2>4, <2>5, <2>6, RecordedKeepsInv
<1>7. ASSUME NEW t \in {"advance", "balance", "security_deposit"},
             NEW amount \in Payments, RecordInflow(t, amount)
      PROVE  LedgerInv'
  <2> DEFINE l == Post(ledger, t, amount)
  <2>1. amount \in Nat /\ t \in PaymentTypes
    BY <1>0 DEF PaymentTypes
  <2>2. /\ l \in Ledgers
        /\ l[t] = ledger[t] + amount
        /\ \A u \in PaymentTypes \ {t} : l[u] = ledger[u]
    BY <1>0, <2>1, PostType
  <2>3. RecordPayment(l, TRUE)
    BY <1>7 DEF RecordInflow
  <2> HIDE DEF l
  <2>4. /\ l["refund"] <= l["advance"] + l["balance"]
        /\ l["deposit_release"] <= l["security_deposit"]
        /\ l["deposit_applied"] = ledger["deposit_applied"]
    BY <1>0, <2>1, <2>2, LedgerNat DEF LedgerInv, OutflowsCovered, PaymentTypes
  <2>5. QED
    BY <2>2, <2>3, <2>4, RecordedKeepsInv
<1>8. ASSUME NEW amount \in Payments, RecordFullPayment(amount)
      PROVE  LedgerInv'
  <2> DEFINE rentDue == NonNegative(CurrentBalances.rent)
             part == Lesser(amount, rentDue)
             m == Post(ledger, "balance", part)
             l == Post(m, "security_deposit", amount - part)
  <2>1. RecordPayment(l, TRUE)
    BY <1>8 DEF RecordFullPayment
  <2>2. part \in Nat /\ amount - part \in Nat
    <3>1. CurrentBalances.rent \in Int
      <4>1. /\ RentPayable - RentCollected(ledger) \in Int
            /\ deposit - ledger["security_deposit"] \in Int
        BY <1>0, LedgerNat DEF LedgerInv, TypeOK, RentPayable, TotalAmount
      <4>2. QED
        BY <4>1, NettedOneSided DEF CurrentBalances, Balances
    <3>2. rentDue \in Nat
      BY <3>1 DEF NonNegative
    <3>3. amount \in Nat
      BY <1>0
    <3> HIDE DEF rentDue
    <3>4. QED
      BY <3>2, <3>3 DEF Lesser
  <2> HIDE DEF part
  <2>3. {"balance", "security_deposit"} \subseteq PaymentTypes
    BY DEF PaymentTypes
  <2>4. /\ m \in Ledgers
        /\ m["balance"] = ledger["balance"] + part
        /\ \A u \in PaymentTypes \ {"balance"} : m[u] = ledger[u]
    BY <1>0, <2>2, <2>3, PostType
  <2> HIDE DEF m
  <2>5. /\ l \in Ledgers
        /\ l["security_deposit"] = m["security_deposit"] + (amount - part)
        /\ \A u \in PaymentTypes \ {"security_deposit"} : l[u] = m[u]
    BY <2>2, <2>3, <2>4, PostType
  <2> HIDE DEF l
  <2>6. /\ l["refund"] <= l["advance"] + l["balance"]
        /\ l["deposit_release"] <= l["security_deposit"]
        /\ l["deposit_applied"] = ledger["deposit_applied"]
    BY <1>0, <2>2, <2>4, <2>5, LedgerNat
       DEF LedgerInv, OutflowsCovered, PaymentTypes
  <2>7. QED
    BY <2>1, <2>5, <2>6, RecordedKeepsInv
<1>9. CASE \E picked \in SUBSET Items, paid \in Charges, depositPaid \in Charges,
              allow \in BOOLEAN : ConfirmPickup(picked, paid, depositPaid, allow)
  BY <1>0, <1>9, PickupKeepsInv
<1>10. ASSUME NEW i \in Items, NEW charge \in Charges, ReturnBooking(i, charge)
       PROVE  LedgerInv'
  BY <1>0, <1>10, ReturnKeepsInv
<1>11. ASSUME NEW late \in SUBSET Items, MarkOverdueItems(late)
       PROVE  LedgerInv'
  <2>1. /\ item' = [i \in Items |-> IF i \in late THEN "overdue" ELSE item[i]]
        /\ \A i \in late : item[i] # "absent"
        /\ late # {}
        /\ UNCHANGED <<orderStatus, gross, discount, additional, deposit,
                       overridden, damage, ledger, paymentStatus>>
    BY <1>11 DEF MarkOverdueItems, OverdueEligible, bill
  <2>2. TypeOK'
    BY <2>1 DEF LedgerInv, TypeOK, Statuses
  <2>3. OutflowsCovered' /\ ForfeitCovered' /\ CancelledIsSquare'
    BY <2>1 DEF LedgerInv, OutflowsCovered, ForfeitCovered, CancelledIsSquare,
                RentPayable, TotalAmount
  <2>4. /\ orderStatus' = "none" => \A i \in Items : item'[i] = "absent"
        /\ orderStatus' = "cancelled" => \A i \in Items : item'[i] \notin Editable
    BY <2>1 DEF LedgerInv, Editable
  <2>5. QED
    BY <2>1, <2>2, <2>3, <2>4 DEF LedgerInv
<1>12. ASSUME NEW i \in Items, NEW rent \in Rents \cup {0},
              CancelBookingItem(i, rent)
       PROVE  LedgerInv'
  <2>1. /\ RecomputeOrderTotal(rent, additional)
        /\ orderStatus' = orderStatus /\ damage' = damage
        /\ item' = [item EXCEPT ![i] = "cancelled"]
        /\ item[i] \in Editable
        /\ rent \in Nat
        /\ SettleCancelledOrder \/ UNCHANGED <<ledger, paymentStatus>>
    BY <1>0, <1>12 DEF CancelBookingItem, CanTransition, Transitions, Editable
  <2>2. item' \in [Items -> Statuses \cup {"absent"}]
    BY <2>1 DEF LedgerInv, TypeOK, Statuses
  <2>3. orderStatus \notin {"none", "cancelled"}
    BY <2>1 DEF LedgerInv, Editable
  <2>4. orderStatus' \in OrderStatuses \ {"none"} /\ orderStatus' # "cancelled"
    BY <2>1, <2>3 DEF LedgerInv, TypeOK
  <2>5. CASE SettleCancelledOrder
    BY <1>0, <2>1, <2>2, <2>4, <2>5, SettlementKeepsInv
  <2>6. CASE UNCHANGED <<ledger, paymentStatus>>
    BY <1>0, <2>1, <2>2, <2>3, <2>6, RepricedKeepsInv
  <2>7. QED
    BY <2>1, <2>5, <2>6
<1>13. ASSUME NEW rent \in Rents \cup {0}, CancelBookingOrder(rent)
       PROVE  LedgerInv'
  <2>1. /\ RecomputeOrderTotal(rent, additional)
        /\ orderStatus' = "cancelled" /\ damage' = damage
        /\ SettleCancelledOrder
        /\ rent \in Nat
    BY <1>0, <1>13 DEF CancelBookingOrder
  <2>2. item' \in [Items -> Statuses \cup {"absent"}]
    BY <1>13 DEF CancelBookingOrder, LedgerInv, TypeOK, Statuses
  <2>3. \A i \in Items : item'[i] \notin Editable
    BY <1>13 DEF CancelBookingOrder, OnOrder, CanTransition, Transitions, Editable
  <2>4. QED
    BY <1>0, <2>1, <2>2, <2>3, SettlementKeepsInv DEF OrderStatuses
<1>14. ASSUME DeleteBooking PROVE LedgerInv'
  BY <1>14, DeleteKeepsInv
<1>15. CASE UNCHANGED vars
  BY <1>15 DEF vars, bill, LedgerInv, TypeOK, OutflowsCovered, ForfeitCovered,
               CancelledIsSquare, RentPayable, TotalAmount
<1>16. QED
  BY <1>1, <1>2, <1>3, <1>4, <1>5, <1>6, <1>7, <1>8, <1>9, <1>10, <1>11,
     <1>12, <1>13, <1>14, <1>15 DEF Next

(* What holds in every state an order can reach *)

\* The inductive invariant: the order's rows are well typed, every pool
\* covers what went out of it, a forfeit is covered by assessed damage, and a
\* cancelled order is square.
THEOREM Safety == Spec => []LedgerInv
<1>1. Init => LedgerInv
  BY InitInv
<1>2. LedgerInv /\ [Next]_vars => LedgerInv'
  BY StepKeepsInv
<1>3. QED
  BY <1>1, <1>2, PTL DEF Spec

\* Every column keeps its type: no amount goes below zero, and an order's own
\* status stays among the three the code writes.
THEOREM TypeCorrect == Spec => []TypeOK
<1>1. LedgerInv => TypeOK
  BY DEF LedgerInv
<1>2. QED
  BY <1>1, Safety, PTL

\* Refunds stay within the rent pool, releases within the deposit pool.
THEOREM OutflowsAlwaysCovered == Spec => []OutflowsCovered
<1>1. LedgerInv => OutflowsCovered
  BY DEF LedgerInv
<1>2. QED
  BY <1>1, Safety, PTL

\* The shop keeps no more of a deposit than the damage it has assessed.
THEOREM ForfeitAlwaysCovered == Spec => []ForfeitCovered
<1>1. LedgerInv => ForfeitCovered
  BY DEF LedgerInv
<1>2. QED
  BY <1>1, Safety, PTL

\* A cancelled order holds no deposit and no rent it is not owed, and the
\* returns that follow a cancellation keep it so.
THEOREM CancelledStaysSquare == Spec => []CancelledIsSquare
<1>1. LedgerInv => CancelledIsSquare
  BY DEF LedgerInv
<1>2. QED
  BY <1>1, Safety, PTL

\* What is payable is a number.
LEMMA BillType ==
    ASSUME TypeOK PROVE RentPayable \in Int /\ deposit \in Int /\ ledger \in Ledgers
BY DEF TypeOK, RentPayable, TotalAmount

\* Nobody is ever shown an outstanding balance and a credit at once.
THEOREM OneSided == Spec => []NeverBothSided
<1>1. LedgerInv => NeverBothSided
  <2> SUFFICES ASSUME LedgerInv PROVE NeverBothSided
    OBVIOUS
  <2>1. RentPayable \in Int /\ deposit \in Int /\ ledger \in Ledgers
    BY BillType DEF LedgerInv
  <2>2. Outstanding = 0 \/ CreditBalance = 0
    BY <2>1, SummaryOneSided DEF Outstanding, CreditBalance, CurrentBalances
  <2>3. QED
    BY <2>2 DEF NeverBothSided
<1>2. QED
  BY <1>1, Safety, PTL

\* A ledger with no deposit held and no rent over-paid is settled.
LEMMA SettledOnce ==
    ASSUME NEW l \in Ledgers, NEW p \in Int, DepositHeld(l) = 0, RentCollected(l) <= p
    PROVE  Settled(l, p) = l
<1>1. {"deposit_release", "refund"} \subseteq PaymentTypes
  BY DEF PaymentTypes
<1>2. Post(l, "deposit_release", DepositHeld(l)) = l
  BY <1>1, PostNothing
<1>3. NonNegative(RentCollected(l) - p) = 0
  BY LedgerNat DEF NonNegative
<1>4. QED
  BY <1>1, <1>2, <1>3, PostNothing DEF Settled

\* Whatever state an order is in, settling it again hands nothing more back.
THEOREM SettlingTwice == Spec => []SettlementIdempotent
<1>1. LedgerInv => SettlementIdempotent
  <2> SUFFICES ASSUME LedgerInv
               PROVE  Settled(Settled(ledger, RentPayable), RentPayable)
                        = Settled(ledger, RentPayable)
    BY DEF SettlementIdempotent
  <2> DEFINE p == RentPayable
             s == Settled(ledger, p)
  <2>1. p \in Int /\ ledger \in Ledgers
    BY BillType DEF LedgerInv
  <2> HIDE DEF p
  <2>5. s \in Ledgers /\ DepositHeld(s) = 0 /\ RentCollected(s) <= p
    BY <2>1, SettledSquare
  <2> HIDE DEF s
  <2>6. Settled(s, p) = s
    BY <2>1, <2>5, SettledOnce
  <2>7. QED
    BY <2>6 DEF s, p
<1>2. QED
  BY <1>1, Safety, PTL

(* What a step never does *)

\* recordPayment ends no line: confirmed is not finished.
LEMMA RecordingEndsNothing ==
    ASSUME LedgerInv, NEW l, NEW inflow \in BOOLEAN, RecordPayment(l, inflow),
           Finished(item')
    PROVE  Finished(item)
<1>1. item' = item \/ item' = Confirmed(item)
  BY DEF RecordPayment
<1>2. CASE item' = Confirmed(item)
  BY <1>2 DEF Confirmed, Finished, Terminal
<1>3. QED
  BY <1>1, <1>2

\* However the last unfinished line of an order ends, its deposit goes with it.
THEOREM ClosingReleases == Spec => ClosingReleasesDeposit
<1>1. LedgerInv /\ [Next]_vars =>
        [(OnOrder # {} /\ ~Finished(item) /\ Finished(item')
            /\ orderStatus' # "none") => DepositHeld(ledger') = 0]_vars
  <2> SUFFICES ASSUME LedgerInv, Next, OnOrder # {}, ~Finished(item),
                      Finished(item'), orderStatus' # "none"
               PROVE  DepositHeld(ledger') = 0
    OBVIOUS
  <2>0. /\ Rents \subseteq Nat /\ Charges \subseteq Nat
        /\ additional \in Nat /\ ledger \in Ledgers
    BY LedgerAssumption DEF Charges, LedgerInv, TypeOK
  <2>1. ASSUME NEW lines \in SUBSET Items, NEW rent, NEW off, NEW fee, NEW dep,
               NEW entered, NEW advance,
               CreateBooking(lines, rent, off, fee, dep, entered, advance)
        PROVE  FALSE
    BY <2>1 DEF CreateBooking, LedgerInv, OnOrder
  <2>2. ASSUME NEW fee, UpdateBookingOrder(fee) PROVE FALSE
    BY <2>2 DEF UpdateBookingOrder
  <2>3. ASSUME NEW i \in Items, NEW rent, AddBookingItem(i, rent) PROVE FALSE
    <3>1. item'[i] \in {"draft", "confirmed"}
      BY <2>3 DEF AddBookingItem, LedgerInv, TypeOK
    <3>2. QED
      BY <3>1 DEF Finished, Terminal
  <2>4. ASSUME NEW i \in Items, NEW rent, UpdateBookingItem(i, rent) PROVE FALSE
    BY <2>4 DEF UpdateBookingItem
  <2>5. ASSUME NEW amount, RecordRefund(amount) PROVE FALSE
    BY <2>5, RecordingEndsNothing DEF RecordRefund
  <2>6. ASSUME NEW amount, RecordDepositRelease(amount) PROVE FALSE
    BY <2>6, RecordingEndsNothing DEF RecordDepositRelease
  <2>7. ASSUME NEW t, NEW amount, RecordInflow(t, amount) PROVE FALSE
    BY <2>7, RecordingEndsNothing DEF RecordInflow
  <2>8. ASSUME NEW amount, RecordFullPayment(amount) PROVE FALSE
    BY <2>8, RecordingEndsNothing DEF RecordFullPayment
  <2>9. ASSUME NEW picked \in SUBSET Items, NEW paid, NEW depositPaid, NEW allow,
               ConfirmPickup(picked, paid, depositPaid, allow)
        PROVE  FALSE
    <3>1. PICK i \in picked : item'[i] = "rented"
      BY <2>9 DEF ConfirmPickup
    <3>2. QED
      BY <3>1 DEF Finished, Terminal
  <2>10. ASSUME NEW i \in Items, NEW charge \in Charges, ReturnBooking(i, charge)
         PROVE  DepositHeld(ledger') = 0
    <3> DEFINE held == DepositHeld(ledger)
               part == Lesser(charge, held)
               m == Post(ledger, "deposit_applied", part)
               l == Post(m, "deposit_release", held - part)
    <3>1. \A j \in Items \ {i} : item[j] \in Terminal \cup {"absent"}
      BY <2>10 DEF ReturnBooking, LedgerInv, TypeOK, Finished
    <3>2. ledger' = l
      BY <2>10, <3>1 DEF ReturnBooking, Forfeited
    <3>3. /\ held \in Nat /\ part \in Nat /\ held - part \in Nat
          /\ {"deposit_applied", "deposit_release"} \subseteq PaymentTypes
      BY <2>0, LedgerNat DEF Lesser, PaymentTypes
    <3>4. held = NonNegative(ledger["security_deposit"]
                   - (ledger["deposit_release"] + ledger["deposit_applied"]))
      BY DEF DepositHeld
    <3> HIDE DEF held, part
    <3>5. /\ m \in Ledgers
          /\ m["deposit_applied"] = ledger["deposit_applied"] + part
          /\ \A u \in PaymentTypes \ {"deposit_applied"} : m[u] = ledger[u]
      BY <2>0, <3>3, PostType
    <3> HIDE DEF m
    <3>6. /\ l \in Ledgers
          /\ l["deposit_release"] = m["deposit_release"] + (held - part)
          /\ \A u \in PaymentTypes \ {"deposit_release"} : l[u] = m[u]
      BY <3>3, <3>5, PostType
    <3> HIDE DEF l
    <3>7. /\ l["security_deposit"] = ledger["security_deposit"]
          /\ l["deposit_applied"] = ledger["deposit_applied"] + part
          /\ l["deposit_release"] = ledger["deposit_release"] + (held - part)
      BY <3>5, <3>6 DEF PaymentTypes
    <3>8. DepositHeld(l) = 0
      BY <2>0, <3>3, <3>4, <3>7, LedgerNat DEF DepositHeld, NonNegative
    <3>9. QED
      BY <3>2, <3>8
  <2>11. ASSUME NEW late \in SUBSET Items, MarkOverdueItems(late) PROVE FALSE
    <3>1. PICK i \in late : item'[i] = "overdue"
      BY <2>11 DEF MarkOverdueItems
    <3>2. QED
      BY <3>1 DEF Finished, Terminal
  <2>12. ASSUME NEW i \in Items, NEW rent \in Rents \cup {0},
                CancelBookingItem(i, rent)
         PROVE  DepositHeld(ledger') = 0
    <3>1. /\ RecomputeOrderTotal(rent, additional) /\ rent \in Nat
          /\ UNCHANGED damage /\ SettleCancelledOrder
          /\ orderStatus' = orderStatus
      BY <2>0, <2>12 DEF CancelBookingItem
    <3>2. item' \in [Items -> Statuses \cup {"absent"}]
      BY <2>12 DEF CancelBookingItem, LedgerInv, TypeOK, Statuses
    <3>3. item[i] \in Editable
      BY <2>12 DEF CancelBookingItem, CanTransition, Transitions, Editable
    <3>4. orderStatus' \in OrderStatuses \ {"none"} /\ orderStatus' # "cancelled"
      BY <3>1, <3>3 DEF LedgerInv, TypeOK, Editable
    <3>5. QED
      BY <2>0, <3>1, <3>2, <3>4, SettlementKeepsInv
  <2>13. ASSUME NEW rent \in Rents \cup {0}, CancelBookingOrder(rent)
         PROVE  DepositHeld(ledger') = 0
    <3>1. /\ RecomputeOrderTotal(rent, additional) /\ rent \in Nat
          /\ UNCHANGED damage /\ SettleCancelledOrder
          /\ orderStatus' = "cancelled"
      BY <2>0, <2>13 DEF CancelBookingOrder
    <3>2. item' \in [Items -> Statuses \cup {"absent"}]
      BY <2>13 DEF CancelBookingOrder, LedgerInv, TypeOK, Statuses
    <3>3. \A i \in Items : item'[i] \notin Editable
      BY <2>13 DEF CancelBookingOrder, OnOrder, CanTransition, Transitions, Editable
    <3>4. QED
      BY <2>0, <3>1, <3>2, <3>3, SettlementKeepsInv DEF OrderStatuses
  <2>14. CASE DeleteBooking
    BY <2>14 DEF DeleteBooking
  <2>15. QED
    BY <2>1, <2>2, <2>3, <2>4, <2>5, <2>6, <2>7, <2>8, <2>9, <2>10, <2>11,
       <2>12, <2>13, <2>14 DEF Next
<1>2. QED
  BY <1>1, Safety, PTL DEF Spec, ClosingReleasesDeposit

\* Money in, up to what is outstanding, comes off it exactly: with one side
\* of the account always zero, the net is the outstanding balance.
LEMMA InflowExact ==
    ASSUME NEW l \in Ledgers, NEW m \in Ledgers, NEW p \in Int, NEW d \in Int,
           NEW a \in Nat, a > 0, a <= OutstandingOf(Balances(l, p, d)),
           RentCollected(m) + m["security_deposit"]
             = RentCollected(l) + l["security_deposit"] + a
    PROVE  /\ OutstandingOf(Balances(m, p, d)) = OutstandingOf(Balances(l, p, d)) - a
           /\ CreditOf(Balances(m, p, d)) = CreditOf(Balances(l, p, d))
<1> DEFINE o1 == OutstandingOf(Balances(l, p, d))
           c1 == CreditOf(Balances(l, p, d))
           o2 == OutstandingOf(Balances(m, p, d))
           c2 == CreditOf(Balances(m, p, d))
<1>1. /\ o1 \in Nat /\ c1 \in Nat /\ (o1 = 0 \/ c1 = 0)
      /\ o1 - c1 = (p - RentCollected(l)) + (d - l["security_deposit"])
  BY SummaryOneSided
<1>2. /\ o2 \in Nat /\ c2 \in Nat /\ (o2 = 0 \/ c2 = 0)
      /\ o2 - c2 = (p - RentCollected(m)) + (d - m["security_deposit"])
  BY SummaryOneSided
<1>3. /\ RentCollected(l) \in Int /\ l["security_deposit"] \in Nat
      /\ RentCollected(m) \in Int /\ m["security_deposit"] \in Nat
  BY LedgerNat
<1>4. a <= o1
  OBVIOUS
<1> HIDE DEF o1, c1, o2, c2
<1>5. o2 - c2 = o1 - c1 - a
  BY <1>1, <1>2, <1>3
<1>6. o2 = o1 - a /\ c2 = c1
  BY <1>1, <1>2, <1>4, <1>5
<1>7. QED
  BY <1>6 DEF o1, c1, o2, c2

\* A settlement takes no money in.
LEMMA SettledKeepsCash ==
    ASSUME NEW l \in Ledgers, NEW p \in Int
    PROVE  /\ Settled(l, p)["advance"] = l["advance"]
           /\ Settled(l, p)["balance"] = l["balance"]
           /\ Settled(l, p)["security_deposit"] = l["security_deposit"]
<1> DEFINE m == Post(l, "deposit_release", DepositHeld(l))
           x == NonNegative(RentCollected(m) - p)
<1>1. DepositHeld(l) \in Nat /\ {"deposit_release", "refund"} \subseteq PaymentTypes
  BY LedgerNat DEF PaymentTypes
<1>2. m \in Ledgers /\ \A u \in PaymentTypes \ {"deposit_release"} : m[u] = l[u]
  BY <1>1, PostType
<1>3. x \in Nat
  BY <1>2, LedgerNat DEF NonNegative
<1>4. Settled(l, p) = Post(m, "refund", x)
  BY DEF Settled
<1> HIDE DEF m, x
<1>5. \A u \in PaymentTypes \ {"refund"} : Post(m, "refund", x)[u] = m[u]
  BY <1>1, <1>2, <1>3, PostType
<1>6. QED
  BY <1>2, <1>4, <1>5 DEF PaymentTypes

\* The bill recomputed is a number again.
LEMMA RecomputedPayable ==
    ASSUME LedgerInv, NEW rent \in Nat, NEW fee \in Nat,
           RecomputeOrderTotal(rent, fee), damage' = damage
    PROVE  RentPayable' \in Int
<1>1. gross' \in Nat /\ discount' \in Nat /\ additional' \in Nat
  BY RecomputedBill
<1>2. damage' \in Nat
  BY DEF LedgerInv, TypeOK
<1>3. QED
  BY <1>1, <1>2 DEF RentPayable, TotalAmount

\* A payment recorded against an order takes exactly its amount off what is
\* outstanding and never becomes a credit.
THEOREM InflowSettles == Spec => InflowSettlesOutstanding
<1>1. LedgerInv /\ [Next]_vars =>
        [(/\ orderStatus # "none" /\ orderStatus' # "none"
          /\ CashIn(ledger') > CashIn(ledger)
          /\ \A i \in Items : item'[i] = "rented" => item[i] = "rented")
          => /\ Outstanding' = Outstanding - (CashIn(ledger') - CashIn(ledger))
             /\ CreditBalance' = CreditBalance]_vars
  <2> SUFFICES ASSUME LedgerInv, Next,
                      orderStatus # "none", orderStatus' # "none",
                      CashIn(ledger') > CashIn(ledger),
                      \A i \in Items : item'[i] = "rented" => item[i] = "rented"
               PROVE  /\ Outstanding' = Outstanding - (CashIn(ledger') - CashIn(ledger))
                      /\ CreditBalance' = CreditBalance
    OBVIOUS
  <2>0. /\ Rents \subseteq Nat /\ Charges \subseteq Nat /\ Payments \subseteq Nat
        /\ additional \in Nat /\ ledger \in Ledgers
        /\ RentPayable \in Int /\ deposit \in Int
    BY BillType, LedgerAssumption DEF Charges, LedgerInv, TypeOK
  <2>a. CashIn(ledger) \in Nat
    BY <2>0, LedgerNat DEF CashIn
  <2>b. ASSUME ledger'["advance"] = ledger["advance"],
               ledger'["balance"] = ledger["balance"],
               ledger'["security_deposit"] = ledger["security_deposit"]
        PROVE  FALSE
    <3>1. CashIn(ledger') = CashIn(ledger)
      BY <2>b DEF CashIn
    <3>2. QED
      BY <2>a, <3>1
  <2>c. ASSUME NEW l \in Ledgers, NEW a \in Nat, RecordPayment(l, TRUE),
               a > 0, a <= Outstanding,
               l["advance"] + l["balance"] + l["security_deposit"]
                 = ledger["advance"] + ledger["balance"]
                     + ledger["security_deposit"] + a,
               l["refund"] = ledger["refund"],
               l["deposit_applied"] = ledger["deposit_applied"]
        PROVE  /\ Outstanding' = Outstanding - (CashIn(ledger') - CashIn(ledger))
               /\ CreditBalance' = CreditBalance
    <3>1. /\ ledger' = l /\ RentPayable' = RentPayable /\ deposit' = deposit
      BY <2>c DEF RecordPayment, bill, RentPayable, TotalAmount
    <3>2. CashIn(ledger') - CashIn(ledger) = a
      BY <2>0, <2>c, <3>1, LedgerNat DEF CashIn
    <3>3. RentCollected(l) + l["security_deposit"]
            = RentCollected(ledger) + ledger["security_deposit"] + a
      BY <2>0, <2>c, LedgerNat DEF RentCollected
    <3>4. /\ OutstandingOf(Balances(l, RentPayable, deposit)) = Outstanding - a
          /\ CreditOf(Balances(l, RentPayable, deposit)) = CreditBalance
      BY <2>0, <2>c, <3>3, InflowExact DEF Outstanding, CreditBalance, CurrentBalances
    <3>5. /\ Outstanding' = OutstandingOf(Balances(l, RentPayable, deposit))
          /\ CreditBalance' = CreditOf(Balances(l, RentPayable, deposit))
      BY <3>1 DEF Outstanding, CreditBalance, CurrentBalances
    <3>6. QED
      BY <3>2, <3>4, <3>5
  <2>d. /\ CurrentBalances.rent \in Int /\ CurrentBalances.deposit \in Int
        /\ Outstanding = NonNegative(CurrentBalances.rent)
                           + NonNegative(CurrentBalances.deposit)
    <3>1. /\ RentPayable - RentCollected(ledger) \in Int
          /\ deposit - ledger["security_deposit"] \in Int
      BY <2>0, LedgerNat
    <3>2. QED
      BY <3>1, NettedOneSided DEF CurrentBalances, Balances, Outstanding, OutstandingOf
  <2>e. /\ NonNegative(CurrentBalances.rent) \in Nat
        /\ NonNegative(CurrentBalances.deposit) \in Nat
    BY <2>d DEF NonNegative
  <2>1. ASSUME NEW lines \in SUBSET Items, NEW rent, NEW off, NEW fee, NEW dep,
               NEW entered, NEW advance,
               CreateBooking(lines, rent, off, fee, dep, entered, advance)
        PROVE  FALSE
    BY <2>1 DEF CreateBooking
  <2>2. ASSUME NEW fee, UpdateBookingOrder(fee) PROVE FALSE
    BY <2>2, <2>b DEF UpdateBookingOrder
  <2>3. ASSUME NEW i \in Items, NEW rent, AddBookingItem(i, rent) PROVE FALSE
    BY <2>3, <2>b DEF AddBookingItem
  <2>4. ASSUME NEW i \in Items, NEW rent, UpdateBookingItem(i, rent) PROVE FALSE
    BY <2>4, <2>b DEF UpdateBookingItem
  <2>5. ASSUME NEW amount \in Payments, RecordRefund(amount) PROVE FALSE
    <3>1. ledger' = Post(ledger, "refund", amount)
      BY <2>5 DEF RecordRefund, RecordPayment
    <3>2. "refund" \in PaymentTypes /\ amount \in Nat
      BY <2>0 DEF PaymentTypes
    <3>3. \A u \in PaymentTypes \ {"refund"} :
             Post(ledger, "refund", amount)[u] = ledger[u]
      BY <2>0, <3>2, PostType
    <3>4. QED
      BY <2>b, <3>1, <3>3 DEF PaymentTypes
  <2>6. ASSUME NEW amount \in Payments, RecordDepositRelease(amount) PROVE FALSE
    <3>1. ledger' = Post(ledger, "deposit_release", amount)
      BY <2>6 DEF RecordDepositRelease, RecordPayment
    <3>2. "deposit_release" \in PaymentTypes /\ amount \in Nat
      BY <2>0 DEF PaymentTypes
    <3>3. \A u \in PaymentTypes \ {"deposit_release"} :
             Post(ledger, "deposit_release", amount)[u] = ledger[u]
      BY <2>0, <3>2, PostType
    <3>4. QED
      BY <2>b, <3>1, <3>3 DEF PaymentTypes
  <2>7. ASSUME NEW t \in {"advance", "balance", "security_deposit"},
               NEW amount \in Payments, RecordInflow(t, amount)
        PROVE  /\ Outstanding' = Outstanding - (CashIn(ledger') - CashIn(ledger))
               /\ CreditBalance' = CreditBalance
    <3> DEFINE l == Post(ledger, t, amount)
    <3>1. amount \in Nat /\ amount > 0 /\ t \in PaymentTypes
      BY <2>0, <2>7 DEF PaymentTypes, RecordInflow
    <3>2. \/ amount <= NonNegative(CurrentBalances.rent)
          \/ amount <= NonNegative(CurrentBalances.deposit)
      BY <2>7 DEF RecordInflow
    <3>3. amount <= Outstanding
      BY <2>d, <2>e, <3>1, <3>2
    <3>4. RecordPayment(l, TRUE)
      BY <2>7 DEF RecordInflow
    <3>5. /\ l \in Ledgers /\ l[t] = ledger[t] + amount
          /\ \A u \in PaymentTypes \ {t} : l[u] = ledger[u]
      BY <2>0, <3>1, PostType
    <3> HIDE DEF l
    <3>6. /\ l["advance"] + l["balance"] + l["security_deposit"]
               = ledger["advance"] + ledger["balance"]
                   + ledger["security_deposit"] + amount
          /\ l["refund"] = ledger["refund"]
          /\ l["deposit_applied"] = ledger["deposit_applied"]
      BY <2>0, <3>1, <3>5, LedgerNat DEF PaymentTypes
    <3>7. QED
      BY <2>c, <3>1, <3>3, <3>4, <3>5, <3>6
  <2>8. ASSUME NEW amount \in Payments, RecordFullPayment(amount)
        PROVE  /\ Outstanding' = Outstanding - (CashIn(ledger') - CashIn(ledger))
               /\ CreditBalance' = CreditBalance
    <3> DEFINE part == Lesser(amount, NonNegative(CurrentBalances.rent))
               m == Post(ledger, "balance", part)
               l == Post(m, "security_deposit", amount - part)
    <3>1. /\ amount > 0
          /\ amount <= NonNegative(CurrentBalances.rent)
                         + NonNegative(CurrentBalances.deposit)
          /\ RecordPayment(l, TRUE)
      BY <2>8 DEF RecordFullPayment
    <3>2. /\ amount \in Nat /\ amount <= Outstanding
          /\ {"balance", "security_deposit"} \subseteq PaymentTypes
      BY <2>0, <2>d, <3>1 DEF PaymentTypes
    <3>3. part \in Nat /\ amount - part \in Nat
      BY <2>e, <3>2 DEF Lesser
    <3> HIDE DEF part
    <3>4. /\ m \in Ledgers /\ m["balance"] = ledger["balance"] + part
          /\ \A u \in PaymentTypes \ {"balance"} : m[u] = ledger[u]
      BY <2>0, <3>2, <3>3, PostType
    <3> HIDE DEF m
    <3>5. /\ l \in Ledgers
          /\ l["security_deposit"] = m["security_deposit"] + (amount - part)
          /\ \A u \in PaymentTypes \ {"security_deposit"} : l[u] = m[u]
      BY <3>2, <3>3, <3>4, PostType
    <3> HIDE DEF l
    <3>6. /\ l["advance"] + l["balance"] + l["security_deposit"]
               = ledger["advance"] + ledger["balance"]
                   + ledger["security_deposit"] + amount
          /\ l["refund"] = ledger["refund"]
          /\ l["deposit_applied"] = ledger["deposit_applied"]
      BY <2>0, <3>2, <3>3, <3>4, <3>5, LedgerNat DEF PaymentTypes
    <3>7. QED
      BY <2>c, <3>1, <3>2, <3>5, <3>6
  <2>9. ASSUME NEW picked \in SUBSET Items, NEW paid, NEW depositPaid, NEW allow,
               ConfirmPickup(picked, paid, depositPaid, allow)
        PROVE  FALSE
    BY <2>9 DEF ConfirmPickup
  <2>10. ASSUME NEW i \in Items, NEW charge \in Charges, ReturnBooking(i, charge)
         PROVE  FALSE
    <3> DEFINE part == Lesser(charge, DepositHeld(ledger))
               m == Post(ledger, "deposit_applied", part)
               l == Post(m, "deposit_release", DepositHeld(ledger) - part)
    <3>1. ledger' = m \/ ledger' = l
      BY <2>10 DEF ReturnBooking, Forfeited
    <3>2. /\ part \in Nat /\ DepositHeld(ledger) - part \in Nat
          /\ {"deposit_applied", "deposit_release"} \subseteq PaymentTypes
      BY <2>0, LedgerNat DEF Lesser, PaymentTypes
    <3> HIDE DEF part
    <3>3. /\ m \in Ledgers
          /\ \A u \in PaymentTypes \ {"deposit_applied"} : m[u] = ledger[u]
      BY <2>0, <3>2, PostType
    <3> HIDE DEF m
    <3>4. \A u \in PaymentTypes \ {"deposit_release"} : l[u] = m[u]
      BY <3>2, <3>3, PostType
    <3> HIDE DEF l
    <3>5. QED
      BY <2>b, <3>1, <3>3, <3>4 DEF PaymentTypes
  <2>11. ASSUME NEW late \in SUBSET Items, MarkOverdueItems(late) PROVE FALSE
    BY <2>11, <2>b DEF MarkOverdueItems
  <2>12. ASSUME SettleCancelledOrder, RentPayable' \in Int PROVE FALSE
    BY <2>0, <2>12, <2>b, SettledKeepsCash DEF SettleCancelledOrder
  <2>13. ASSUME NEW i \in Items, NEW rent \in Rents \cup {0},
                CancelBookingItem(i, rent)
         PROVE  FALSE
    <3>1. SettleCancelledOrder \/ ledger' = ledger
      BY <2>13 DEF CancelBookingItem
    <3>2. RecomputeOrderTotal(rent, additional) /\ rent \in Nat /\ damage' = damage
      BY <2>0, <2>13 DEF CancelBookingItem
    <3>3. RentPayable' \in Int
      BY <2>0, <3>2, RecomputedPayable
    <3>4. QED
      BY <2>12, <2>b, <3>1, <3>3
  <2>14. ASSUME NEW rent \in Rents \cup {0}, CancelBookingOrder(rent)
         PROVE  FALSE
    <3>1. SettleCancelledOrder
      BY <2>14 DEF CancelBookingOrder
    <3>2. RecomputeOrderTotal(rent, additional) /\ rent \in Nat /\ damage' = damage
      BY <2>0, <2>14 DEF CancelBookingOrder
    <3>3. RentPayable' \in Int
      BY <2>0, <3>2, RecomputedPayable
    <3>4. QED
      BY <2>12, <3>1, <3>3
  <2>15. CASE DeleteBooking
    BY <2>15 DEF DeleteBooking
  <2>16. QED
    BY <2>1, <2>2, <2>3, <2>4, <2>5, <2>6, <2>7, <2>8, <2>9, <2>10, <2>11,
       <2>13, <2>14, <2>15 DEF Next
<1>2. QED
  BY <1>1, Safety, PTL DEF Spec, InflowSettlesOutstanding

=============================================================================
