-------------------------- MODULE ReservationProofs --------------------------
(***************************************************************************)
(* What holds of the booking calendar for every number of clerks, hands,   *)
(* variations, rows and days: the row locks are waited for in order, a     *)
(* passed check stays true, the handlers implement module Calendar, and it *)
(* follows that only rows which a pickup revives can oversell a day.  Desk *)
(* splits the counter where the code splits it; it implements Reservation, *)
(* so that all of this is true of it as well.                              *)
(***************************************************************************)
EXTENDS Desk, FiniteSetTheorems, TLAPS

(* Counting units *)

\* The units in use on a day can be counted.
LEMMA UnitsCount ==
    ASSUME NEW table, NEW v, NEW d
    PROVE  /\ IsFiniteSet(UnitsIn(table, v, d))
           /\ Cardinality(UnitsIn(table, v, d)) \in Nat
<1>1. IsFiniteSet(Rows) /\ MaxQty \in Nat
  BY CalendarAssumption
<1>2. IsFiniteSet(1..MaxQty)
  BY <1>1, FS_Interval
<1>3. IsFiniteSet(Rows \X (1..MaxQty))
  BY <1>1, <1>2, FS_Product
<1>4. UnitsIn(table, v, d) \in SUBSET (Rows \X (1..MaxQty))
  BY DEF UnitsIn
<1>5. IsFiniteSet(UnitsIn(table, v, d))
  BY <1>3, <1>4, FS_Subset
<1>6. QED
  BY <1>5, FS_CardinalityType

\* A table that uses no unit another one does not use, uses no more of them.
LEMMA FewerUnits ==
    ASSUME NEW table, NEW other, NEW v, NEW d,
           UnitsIn(table, v, d) \subseteq UnitsIn(other, v, d)
    PROVE  Cardinality(UnitsIn(table, v, d)) <= Cardinality(UnitsIn(other, v, d))
BY UnitsCount, FS_Subset

\* ... in particular if it holds the same rows on that day, and no others.
LEMMA RowByRow ==
    ASSUME NEW table, NEW other, NEW v, NEW d,
           \A r \in Rows :
              /\ table[r].status \in {"held", "out"}
              /\ table[r].variation = v
              /\ table[r].from <= d /\ d <= table[r].to
              => /\ other[r].status \in {"held", "out"}
                 /\ other[r].variation = v
                 /\ other[r].from = table[r].from
                 /\ other[r].to = table[r].to
                 /\ other[r].qty = table[r].qty
    PROVE  /\ UnitsIn(table, v, d) \subseteq UnitsIn(other, v, d)
           /\ Cardinality(UnitsIn(table, v, d)) <= Cardinality(UnitsIn(other, v, d))
<1>1. ASSUME NEW u \in UnitsIn(table, v, d)
      PROVE  u \in UnitsIn(other, v, d)
  <2>1. u \in Rows \X (1..MaxQty) /\ u[1] \in Rows
    BY <1>1 DEF UnitsIn
  <2>2. QED
    BY <1>1, <2>1 DEF UnitsIn
<1>2. QED
  BY <1>1, FewerUnits

\* Stock is at least one, and never less than what is left of it.
LEMMA StockBounds ==
    ASSUME NEW q \in Nat, NEW n \in Nat
    PROVE  /\ Stock(q) \in Nat \ {0}
           /\ Capacity(q, n) \in Nat
           /\ Capacity(q, n) <= Stock(q)
BY DEF Capacity, Stock, Larger

(* What the type invariant says of one row, one plan and one reading *)

\* The fields of a row, and that it is one.
LEMMA RowFields ==
    ASSUME NEW row \in RowType
    PROVE  /\ row # Absent
           /\ row.status \in {"held", "out", "ended"}
           /\ row.variation \in Variations /\ row.qty \in 1..MaxQty
           /\ row.from \in Days /\ row.to \in Days
           /\ row.from \in Nat /\ row.to \in Nat
<1>1. row.status # "none"
  BY DEF RowType
<1>2. Absent.status = "none"
  BY DEF Absent
<1>3. QED
  BY <1>1, <1>2, CalendarAssumption DEF RowType

\* A row of the calendar that has a status has all its fields.
LEMMA RowOrAbsent ==
    ASSUME TypeOK, NEW r \in Rows
    PROVE  /\ rows[r] \in RowType \/ rows[r] = Absent
           /\ rows[r] # Absent => rows[r] \in RowType
           /\ rows[r].status \in {"held", "out", "ended"} => rows[r] \in RowType
<1>1. rows[r] \in RowType \cup {Absent}
  BY DEF TypeOK
<1>2. Absent.status \notin {"held", "out", "ended"}
  BY DEF Absent
<1>3. QED
  BY <1>1, <1>2

\* A plan is about rows of the calendar and variations there are.
LEMMA PlanType ==
    ASSUME TypeOK, NEW c \in Clerks
    PROVE  /\ DOMAIN plan[c] \subseteq Rows
           /\ plan[c] \in [DOMAIN plan[c] -> RowType]
           /\ \A r \in DOMAIN plan[c] : r \in Rows /\ plan[c][r] \in RowType
           /\ Wanted(c) \subseteq Variations
<1>1. PICK S \in SUBSET Rows : plan[c] \in [S -> RowType]
  BY DEF TypeOK, Plans
<1>2. DOMAIN plan[c] = S
  BY <1>1
<1>3. \A r \in DOMAIN plan[c] : r \in Rows /\ plan[c][r] \in RowType
  BY <1>1, <1>2
<1>4. Wanted(c) \subseteq Variations
  BY <1>3, RowFields DEF Wanted
<1>5. QED
  BY <1>1, <1>2, <1>3, <1>4

\* A request has read variations, not other values.
LEMMA SeenType ==
    ASSUME TypeOK, NEW c \in Clerks
    PROVE  \A v \in DOMAIN seen[c] : /\ v \in Variations
                                     /\ seen[c][v] \in AttributeType
<1>1. PICK S \in SUBSET Variations : seen[c] \in [S -> AttributeType]
  BY DEF TypeOK, Readings
<1>2. QED
  BY <1>1


(* The inductive invariant, action by action *)

\* An empty calendar keeps the invariant.
LEMMA InitInv == Init => ReservationInv
<1> SUFFICES ASSUME Init PROVE ReservationInv
  OBVIOUS
<1> USE DEF Init
<1>1. \A v \in Variations : /\ attr[v] \in AttributeType
                            /\ attr[v].quantity \in Nat
                            /\ ceiling[v] = Stock(attr[v].quantity)
                            /\ ceiling[v] \in Nat
  BY ReservationAssumption, StockBounds DEF AttributeType
<1>2. \A c \in Clerks : /\ DOMAIN plan[c] = {} /\ Wanted(c) = {}
                        /\ DOMAIN seen[c] = {}
  BY DEF NoPlan, NoneSeen, Wanted
<1>3. \A c \in Clerks, v \in Variations : ~Holds(c, v)
  BY ReservationAssumption DEF Holds
<1>4. TypeOK
  <2>1. attr \in [Variations -> AttributeType] /\ ceiling \in [Variations -> Nat]
    BY <1>1
  <2>2. NoPlan \in Plans
    <3>1. NoPlan \in [{} -> RowType]
      BY DEF NoPlan
    <3>2. QED
      BY <3>1 DEF Plans
  <2>3. NoneSeen \in Readings
    <3>1. NoneSeen \in [{} -> AttributeType]
      BY DEF NoneSeen
    <3>2. QED
      BY <3>1 DEF Readings
  <2>4. plan \in [Clerks -> Plans]
    BY <2>2
  <2>5. seen \in [Clerks -> Readings]
    BY <2>3
  <2>6. rows \in [Rows -> RowType \cup {Absent}]
    OBVIOUS
  <2>7. HistoryOK
    BY DEF HistoryOK
  <2>8. QED
    BY <2>1, <2>4, <2>5, <2>6, <2>7 DEF TypeOK, Steps
<1>5. LockDiscipline
  BY <1>2, <1>3 DEF LockDiscipline
<1>6. PlanMatchesRows
  BY <1>2 DEF PlanMatchesRows
<1>7. SeenIsOwned
  <2>1. \A v \in Variations : Stock(attr[v].quantity) <= ceiling[v]
    <3> HIDE DEF Init
    <3>1. QED
      BY <1>1
  <2>2. \A c \in Clerks : pc[c] = "idle"
    OBVIOUS
  <2> HIDE DEF Init
  <2>3. QED
    BY <1>2, <2>1, <2>2 DEF SeenIsOwned
<1>8. CheckStillHolds
  BY DEF CheckStillHolds
<1>9. QED
  BY <1>4, <1>5, <1>6, <1>7, <1>8 DEF ReservationInv

\* What a step outside the requests may do to a row: nothing, or hand it over
\* or end it, whatever it was.
WrittenOver(r) ==
    \/ rows'[r] = rows[r]
    \/ /\ rows[r] \in RowType
       /\ \E s \in {"out", "ended"} : rows'[r] = [rows[r] EXCEPT !.status = s]

Revived(r) == rows[r].status = "ended" /\ rows'[r].status = "out"

\* A row that is written over is the row it was but for its status, and
\* counts for no more units than it did, unless it is revived.
LEMMA RowWrittenOver ==
    ASSUME TypeOK, NEW r \in Rows, WrittenOver(r)
    PROVE  /\ rows'[r] \in RowType \cup {Absent}
           /\ rows[r] = Absent <=> rows'[r] = Absent
           /\ rows[r] # Absent => /\ rows'[r].variation = rows[r].variation
                                  /\ rows'[r].from = rows[r].from
                                  /\ rows'[r].to = rows[r].to
                                  /\ rows'[r].qty = rows[r].qty
           /\ rows'[r].status \in {"held", "out"}
                => /\ rows[r] \in RowType /\ rows[r] # Absent
                   /\ rows[r].status \in {"held", "out"} \/ Revived(r)
<1>1. rows[r] \in RowType \cup {Absent}
  BY DEF TypeOK
<1>2. CASE rows'[r] = rows[r]
  BY <1>1, <1>2, RowOrAbsent, RowFields
<1>3. CASE rows'[r] # rows[r]
  <2>1. rows[r] \in RowType /\ rows[r].status \in {"held", "out", "ended"}
    BY <1>3, RowFields DEF WrittenOver
  <2>2. PICK s \in {"out", "ended"} : rows'[r] = [rows[r] EXCEPT !.status = s]
    BY <1>3 DEF WrittenOver
  <2>3. rows'[r] \in RowType /\ rows'[r].status = s
    BY <2>1, <2>2 DEF RowType
  <2>4. /\ rows'[r].variation = rows[r].variation
        /\ rows'[r].from = rows[r].from /\ rows'[r].to = rows[r].to
        /\ rows'[r].qty = rows[r].qty
    BY <2>1, <2>2 DEF RowType
  <2>5. rows[r] # Absent /\ rows'[r] # Absent
    BY <2>1, <2>3, RowFields
  <2>6. QED
    BY <2>1, <2>2, <2>3, <2>4, <2>5 DEF Revived
<1>4. QED
  BY <1>2, <1>3

\* Whoever writes rows over and leaves locks and requests alone keeps the
\* invariant: units are only given back, or taken of a variation nobody has
\* locked, and stock seen is only added to.
LEMMA RequestsUntouched ==
    ASSUME ReservationInv, TypeOK', UNCHANGED <<lock, request>>,
           \A r \in Rows : WrittenOver(r),
           \A r \in Rows : Revived(r) => Free(rows[r].variation),
           \A v \in Variations : /\ ceiling[v] <= ceiling'[v]
                                 /\ Stock(attr'[v].quantity) <= ceiling'[v]
    PROVE  ReservationInv'
<1> USE DEF request
<1>1. TypeOK
  BY DEF ReservationInv
<1>2. \A v \in Variations : ceiling[v] \in Nat /\ ceiling'[v] \in Nat
  BY <1>1 DEF TypeOK
<1>3. \A c \in Clerks : Wanted(c)' = Wanted(c)
  BY DEF Wanted
<1>4. LockDiscipline'
  <2>1. LockDiscipline
    BY DEF ReservationInv
  <2>2. \A c \in Clerks : \A v : Holds(c, v)' = Holds(c, v)
    BY DEF Holds
  <2>3. QED
    BY <1>3, <2>1, <2>2 DEF LockDiscipline
<1>5. PlanMatchesRows'
  <2>1. PlanMatchesRows
    BY DEF ReservationInv
  <2>2. \A c \in Clerks : \A r \in DOMAIN plan[c] : r \in Rows
    BY <1>1, PlanType
  <2>3. QED
    BY <1>1, <2>1, <2>2, RowWrittenOver DEF PlanMatchesRows
<1>6. SeenIsOwned'
  <2>1. SeenIsOwned
    BY DEF ReservationInv
  <2> SUFFICES ASSUME NEW c \in Clerks
               PROVE  \A v \in Wanted(c) : Stock(seen[c][v].quantity) <= ceiling'[v]
    BY <1>3, <2>1 DEF SeenIsOwned
  <2> TAKE v \in Wanted(c)
  <2>2. v \in Variations /\ v \in DOMAIN seen[c]
    BY <1>1, <2>1, PlanType DEF SeenIsOwned
  <2>3. seen[c][v].quantity \in Nat
    BY <1>1, <2>2, SeenType, ReservationAssumption DEF AttributeType
  <2>4. Stock(seen[c][v].quantity) \in Nat
    BY <2>3, StockBounds
  <2>5. Stock(seen[c][v].quantity) <= ceiling[v]
    BY <2>1 DEF SeenIsOwned
  <2>6. QED
    BY <1>2, <2>2, <2>4, <2>5
<1>7. CheckStillHolds'
  <2> SUFFICES ASSUME NEW c \in Clerks, pc[c] \in {"checking", "writing"},
                      NEW v \in Wanted(c) \ unchecked[c], NEW d \in Days
               PROVE  Cardinality(UnitsIn(Contended(c, v)', v, d)) <= ceiling'[v]
    BY <1>3 DEF CheckStillHolds
  <2>1. v \in Variations
    BY <1>1, PlanType
  <2>2. Cardinality(UnitsIn(Contended(c, v), v, d)) <= ceiling[v]
    BY DEF ReservationInv, CheckStillHolds
  \* c has the lock of v, so no row of v is revived.
  <2>3. ~Free(v)
    BY ReservationAssumption DEF ReservationInv, LockDiscipline, Free, Holds
  <2>4. \A r \in Rows :
           /\ Contended(c, v)'[r].status \in {"held", "out"}
           /\ Contended(c, v)'[r].variation = v
           => /\ Contended(c, v)[r].status \in {"held", "out"}
              /\ Contended(c, v)[r].variation = v
              /\ Contended(c, v)[r].from = Contended(c, v)'[r].from
              /\ Contended(c, v)[r].to = Contended(c, v)'[r].to
              /\ Contended(c, v)[r].qty = Contended(c, v)'[r].qty
    <3> TAKE r \in Rows
    <3> HAVE /\ Contended(c, v)'[r].status \in {"held", "out"}
             /\ Contended(c, v)'[r].variation = v
    <3>1. CASE r \in DOMAIN plan[c]
      BY <3>1 DEF Contended
    <3>2. CASE r \notin DOMAIN plan[c]
      <4>1. Competes(c, v, r)' /\ Contended(c, v)'[r] = rows'[r]
        BY <3>2 DEF Contended, Absent
      <4>2. /\ rows[r] \in RowType /\ rows[r] # Absent
            /\ rows[r].status \in {"held", "out"} \/ Revived(r)
            /\ rows'[r].variation = rows[r].variation
            /\ rows'[r].from = rows[r].from /\ rows'[r].to = rows[r].to
            /\ rows'[r].qty = rows[r].qty
        BY <1>1, <4>1, RowWrittenOver
      <4>3. rows[r].status \in {"held", "out"} /\ rows[r].variation = v
        BY <2>3, <4>1, <4>2
      <4>4. Competes(c, v, r)
        BY <4>1, <4>2 DEF Competes
      <4>5. Contended(c, v)[r] = rows[r]
        BY <3>2, <4>4 DEF Contended
      <4>6. QED
        BY <4>1, <4>2, <4>3, <4>5
    <3>3. QED
      BY <3>1, <3>2
  <2>5. Cardinality(UnitsIn(Contended(c, v)', v, d))
            <= Cardinality(UnitsIn(Contended(c, v), v, d))
    BY <2>4, RowByRow
  <2>6. QED
    BY <1>2, <2>1, <2>2, <2>5, UnitsCount
<1>8. QED
  BY <1>4, <1>5, <1>6, <1>7 DEF ReservationInv


\* Every variation's stock is a number, and accounted for.
LEMMA StockKnown ==
    ASSUME ReservationInv
    PROVE  \A v \in Variations : /\ attr[v] \in AttributeType
                                 /\ attr[v].quantity \in Nat
                                 /\ Stock(attr[v].quantity) \in Nat
                                 /\ Stock(attr[v].quantity) <= ceiling[v]
                                 /\ ceiling[v] \in Nat
<1>1. \A v \in Variations : attr[v] \in AttributeType /\ ceiling[v] \in Nat
  BY DEF ReservationInv, TypeOK
<1>2. \A v \in Variations : attr[v].quantity \in Nat
  BY <1>1, ReservationAssumption DEF AttributeType
<1>3. \A v \in Variations : Stock(attr[v].quantity) <= ceiling[v]
  BY DEF ReservationInv, SeenIsOwned
<1>4. QED
  BY <1>1, <1>2, <1>3, StockBounds

\* The same, from the types of what is written.
LEMMA WritersKeepInv ==
    ASSUME ReservationInv,
           \A r \in Rows : WrittenOver(r),
           \A r \in Rows : Revived(r) => Free(rows[r].variation),
           rows' \in [Rows -> RowType \cup {Absent}],
           UNCHANGED <<lock, request>>,
           attr' \in [Variations -> AttributeType],
           blocked' \in [Variations -> Nat],
           ceiling' \in [Variations -> Nat],
           HistoryOK',
           \A v \in Variations : /\ ceiling[v] <= ceiling'[v]
                                 /\ Stock(attr'[v].quantity) <= ceiling'[v]
    PROVE  ReservationInv'
<1>1. TypeOK'
  BY DEF ReservationInv, TypeOK, request
<1>2. QED
  BY <1>1, RequestsUntouched

\* One row is written over; the rest of the calendar stays.
LEMMA StatusWritten ==
    ASSUME TypeOK, NEW r \in Rows, rows[r] \in RowType, NEW s \in {"out", "ended"},
           rows' = [rows EXCEPT ![r].status = s]
    PROVE  /\ \A x \in Rows : WrittenOver(x)
           /\ rows' \in [Rows -> RowType \cup {Absent}]
           /\ rows'[r].status = s
           /\ \A x \in Rows \ {r} : rows'[x] = rows[x] /\ ~Revived(x)
<1>1. rows \in [Rows -> RowType \cup {Absent}]
  BY DEF TypeOK
<1>2. [rows[r] EXCEPT !.status = s] \in RowType
  BY DEF RowType
<1>3. rows' = [rows EXCEPT ![r] = [rows[r] EXCEPT !.status = s]]
  BY <1>1
<1>4. rows' \in [Rows -> RowType \cup {Absent}]
  BY <1>1, <1>2, <1>3
<1>5. \A x \in Rows \ {r} : rows'[x] = rows[x]
  BY <1>1, <1>3
<1>6. rows'[r] = [rows[r] EXCEPT !.status = s]
  BY <1>1, <1>3
<1>7. rows'[r].status = s
  BY <1>6 DEF RowType
<1>8. \A x \in Rows : WrittenOver(x)
  BY <1>5, <1>6 DEF WrittenOver
<1>9. QED
  BY <1>4, <1>5, <1>7, <1>8 DEF Revived

\* A table that stays revives no row.
LEMMA RowsStay ==
    ASSUME TypeOK, UNCHANGED <<rows, handed, revived>>
    PROVE  /\ \A r \in Rows : WrittenOver(r) /\ ~Revived(r)
           /\ rows' \in [Rows -> RowType \cup {Absent}]
           /\ HistoryOK'
BY DEF TypeOK, HistoryOK, WrittenOver, Revived

\* Writing a row over leaves what has been handed over handed over.
LEMMA HistoryKept ==
    ASSUME TypeOK, \A r \in Rows : WrittenOver(r), UNCHANGED <<handed, revived>>
    PROVE  HistoryOK'
<1>1. ASSUME NEW r \in handed
      PROVE  r \in Rows /\ rows'[r].status \in {"out", "ended"}
  <2>1. r \in Rows /\ rows[r].status \in {"out", "ended"}
    BY <1>1 DEF TypeOK, HistoryOK
  <2>2. CASE rows'[r] = rows[r]
    BY <2>1, <2>2
  <2>3. CASE rows'[r] # rows[r]
    BY <2>1, <2>3 DEF WrittenOver, RowType
  <2>4. QED
    BY <2>1, <2>2, <2>3
<1>2. QED
  BY <1>1 DEF TypeOK, HistoryOK

\* applyVariationLifecycleStatus writes the variation's status over, of one
\* nobody has locked; its quantity stays.
LEMMA LifecycleWritten ==
    ASSUME ReservationInv, NEW v \in Variations, NEW n, ApplyLifecycleStatus(v, n)
    PROVE  /\ attr' \in [Variations -> AttributeType]
           /\ blocked' \in [Variations -> Nat]
           /\ ceiling' \in [Variations -> Nat]
           /\ UNCHANGED <<lock, request, ceiling>>
           /\ \A w \in Variations : /\ ceiling[w] <= ceiling'[w]
                                    /\ Stock(attr'[w].quantity) <= ceiling'[w]
           /\ Free(v)
<1>1. /\ n \in 0..MaxBlocked /\ blocked' = [blocked EXCEPT ![v] = n]
      /\ attr' = [attr EXCEPT ![v].hardBlocked = FALSE]
      /\ UNCHANGED <<lock, request, ceiling>>
      /\ Free(v)
  BY DEF ApplyLifecycleStatus
<1>2. blocked' \in [Variations -> Nat] /\ ceiling' \in [Variations -> Nat]
  BY <1>1, ReservationAssumption DEF ReservationInv, TypeOK
<1>3. /\ attr' \in [Variations -> AttributeType]
      /\ \A w \in Variations : attr'[w].quantity = attr[w].quantity
  <2>1. attr \in [Variations -> AttributeType]
    BY DEF ReservationInv, TypeOK
  <2>2. attr'[v] = [attr[v] EXCEPT !.hardBlocked = FALSE]
    BY <1>1, <2>1
  <2>3. attr'[v] \in AttributeType /\ attr'[v].quantity = attr[v].quantity
    BY <2>1, <2>2 DEF AttributeType
  <2>4. \A w \in Variations \ {v} : attr'[w] = attr[w]
    BY <1>1, <2>1
  <2>5. DOMAIN attr' = Variations /\ attr' = [w \in Variations |-> attr'[w]]
    BY <1>1, <2>1
  <2>6. \A w \in Variations : attr'[w] \in AttributeType
    BY <2>1, <2>3, <2>4
  <2>7. QED
    BY <2>3, <2>4, <2>5, <2>6
<1>4. QED
  BY <1>1, <1>2, <1>3, StockKnown

\* The writers that are not requests: each writes rows over, or none, revives
\* none whose variation is locked, and what stock it leaves is accounted for.
LEMMA OutsidersKeepInv ==
    ASSUME ReservationInv, Counter \/ Upkeep
    PROVE  ReservationInv'
<1>1. TypeOK
  BY DEF ReservationInv
<1>2. \A v \in Variations : ceiling[v] <= ceiling[v]
  BY StockKnown
<1>3. ASSUME NEW r \in Rows, Cancel(r)
      PROVE  ReservationInv'
  <2>1. /\ rows[r] \in RowType
        /\ rows' = [rows EXCEPT ![r].status = "ended"]
        /\ UNCHANGED <<attr, blocked, lock, request, ceiling, handed, revived>>
    BY <1>1, <1>3, RowOrAbsent DEF Cancel, history
  <2>2. /\ \A x \in Rows : WrittenOver(x) /\ ~Revived(x)
        /\ rows' \in [Rows -> RowType \cup {Absent}]
    BY <1>1, <2>1, StatusWritten DEF Revived
  <2>3. HistoryOK'
    BY <1>1, <2>1, <2>2, HistoryKept
  <2>4. /\ attr' \in [Variations -> AttributeType]
        /\ blocked' \in [Variations -> Nat] /\ ceiling' \in [Variations -> Nat]
    BY <1>1, <2>1 DEF TypeOK
  <2>5. \A v \in Variations : /\ ceiling[v] <= ceiling'[v]
                              /\ Stock(attr'[v].quantity) <= ceiling'[v]
    BY <2>1, StockKnown
  <2>6. QED
    BY <2>1, <2>2, <2>3, <2>4, <2>5, WritersKeepInv
<1>4. ASSUME NEW r \in Rows, PickUp(r)
      PROVE  ReservationInv'
  <2>1. /\ rows[r] \in RowType /\ rows[r].variation \in Variations
        /\ rows' = [rows EXCEPT ![r].status = "out"]
        /\ ApplyLifecycleStatus(rows[r].variation, blocked[rows[r].variation])
    BY <1>1, <1>4, RowOrAbsent, RowFields DEF PickUp
  <2>2. /\ \A x \in Rows : WrittenOver(x)
        /\ rows' \in [Rows -> RowType \cup {Absent}]
        /\ rows'[r].status = "out"
        /\ \A x \in Rows \ {r} : rows'[x] = rows[x] /\ ~Revived(x)
    BY <1>1, <2>1, StatusWritten
  <2>3. HistoryOK'
    BY <1>1, <1>4, <2>2 DEF TypeOK, HistoryOK, PickUp
  <2>4. \A x \in Rows : Revived(x) => Free(rows[x].variation)
    BY <2>1, <2>2, LifecycleWritten
  <2>5. QED
    BY <2>1, <2>2, <2>3, <2>4, LifecycleWritten, WritersKeepInv
<1>5. ASSUME NEW r \in Rows, NEW tasks \in 0..2, Return(r, tasks)
      PROVE  ReservationInv'
  <2>1. /\ rows[r] \in RowType /\ rows[r].variation \in Variations
        /\ rows' = [rows EXCEPT ![r].status = "ended"]
        /\ UNCHANGED <<handed, revived>>
    BY <1>1, <1>5, RowOrAbsent, RowFields DEF Return, TypeOK, HistoryOK
  <2>2. PICK n : ApplyLifecycleStatus(rows[r].variation, n)
    BY <1>5 DEF Return
  <2>3. /\ \A x \in Rows : WrittenOver(x) /\ ~Revived(x)
        /\ rows' \in [Rows -> RowType \cup {Absent}]
    BY <1>1, <2>1, StatusWritten DEF Revived
  <2>4. HistoryOK'
    BY <1>1, <2>1, <2>3, HistoryKept
  <2>5. QED
    BY <2>1, <2>2, <2>3, <2>4, LifecycleWritten, WritersKeepInv
<1>6. ASSUME NEW v \in Variations,
             OpenTask(v) \/ \E n \in 0..MaxBlocked : CloseTask(v, n)
      PROVE  ReservationInv'
  <2>1. PICK n : ApplyLifecycleStatus(v, n) /\ UNCHANGED <<rows, handed, revived>>
    BY <1>6 DEF OpenTask, CloseTask
  <2>2. /\ \A x \in Rows : WrittenOver(x) /\ ~Revived(x)
        /\ rows' \in [Rows -> RowType \cup {Absent}] /\ HistoryOK'
    BY <1>1, <2>1, RowsStay
  <2>3. QED
    BY <2>1, <2>2, LifecycleWritten, WritersKeepInv
<1>7. ASSUME NEW v \in Variations, NEW a \in AttributeType, UpdateVariation(v, a)
      PROVE  ReservationInv'
  <2>1. /\ attr' = [attr EXCEPT ![v] = a]
        /\ ceiling' = [ceiling EXCEPT ![v] = Larger(@, Stock(a.quantity))]
        /\ UNCHANGED <<rows, blocked, lock, request, handed, revived>>
    BY <1>7 DEF UpdateVariation
  <2>2. a.quantity \in Nat /\ Stock(a.quantity) \in Nat
    BY ReservationAssumption, StockBounds DEF AttributeType
  <2>3. /\ attr' \in [Variations -> AttributeType] /\ attr'[v] = a
        /\ \A w \in Variations \ {v} : attr'[w] = attr[w]
    BY <1>1, <2>1 DEF TypeOK
  <2>4. /\ ceiling'[v] = Larger(ceiling[v], Stock(a.quantity))
        /\ \A w \in Variations \ {v} : ceiling'[w] = ceiling[w]
        /\ ceiling' = [w \in Variations |-> ceiling'[w]]
    BY <1>1, <2>1 DEF TypeOK
  <2>5. /\ ceiling'[v] \in Nat /\ ceiling[v] <= ceiling'[v]
        /\ Stock(a.quantity) <= ceiling'[v]
    BY <2>2, <2>4, StockKnown DEF Larger
  <2>6. ceiling' \in [Variations -> Nat]
    BY <2>4, <2>5, StockKnown
  <2>7. \A w \in Variations : /\ ceiling[w] <= ceiling'[w]
                              /\ Stock(attr'[w].quantity) <= ceiling'[w]
    BY <2>3, <2>4, <2>5, StockKnown
  <2>8. blocked' \in [Variations -> Nat] /\ UNCHANGED <<lock, request>>
    BY <1>1, <2>1 DEF TypeOK
  <2>9. /\ \A x \in Rows : WrittenOver(x) /\ ~Revived(x)
        /\ rows' \in [Rows -> RowType \cup {Absent}] /\ HistoryOK'
    BY <1>1, <2>1, RowsStay
  <2>10. QED
    BY <2>3, <2>6, <2>7, <2>8, <2>9, WritersKeepInv
<1>8. QED
  BY <1>3, <1>4, <1>5, <1>6, <1>7 DEF Counter, Upkeep

\* What a request that ends leaves: its locks are free, the others' are
\* theirs, and what they plan, read and have still to check is as it was.
LEMMA RequestEnded ==
    ASSUME ReservationInv, NEW c \in Clerks, EndRequest(c)
    PROVE  /\ UNCHANGED <<attr, blocked, ceiling, handed, revived>>
           /\ rows' \in [Rows -> RowType \cup {Absent}] /\ HistoryOK' => TypeOK'
           /\ LockDiscipline'
           /\ SeenIsOwned'
           /\ DOMAIN plan'[c] = {} /\ pc'[c] = "idle"
           /\ \A e \in Clerks \ {c} :
                 /\ pc'[e] = pc[e] /\ plan'[e] = plan[e]
                 /\ editing'[e] = editing[e] /\ unchecked'[e] = unchecked[e]
                 /\ Wanted(e)' = Wanted(e)
<1>1. TypeOK /\ LockDiscipline /\ SeenIsOwned
  BY DEF ReservationInv
<1>2. /\ lock' = [v \in Variations |-> IF Holds(c, v) THEN NoClerk ELSE lock[v]]
      /\ pc' = [pc EXCEPT ![c] = "idle"]
      /\ plan' = [plan EXCEPT ![c] = NoPlan]
      /\ editing' = [editing EXCEPT ![c] = FALSE]
      /\ seen' = [seen EXCEPT ![c] = NoneSeen]
      /\ unchecked' = [unchecked EXCEPT ![c] = {}]
      /\ UNCHANGED <<attr, blocked, ceiling, handed, revived>>
  BY DEF EndRequest, history
<1>3. /\ pc'[c] = "idle" /\ plan'[c] = NoPlan /\ seen'[c] = NoneSeen
      /\ unchecked'[c] = {}
      /\ DOMAIN plan'[c] = {} /\ DOMAIN seen'[c] = {}
  BY <1>1, <1>2 DEF TypeOK, NoPlan, NoneSeen
<1>4. \A e \in Clerks \ {c} :
         /\ pc'[e] = pc[e] /\ plan'[e] = plan[e] /\ seen'[e] = seen[e]
         /\ editing'[e] = editing[e] /\ unchecked'[e] = unchecked[e]
  <2> TAKE e \in Clerks \ {c}
  <2>1. /\ pc'[e] = pc[e] /\ plan'[e] = plan[e] /\ seen'[e] = seen[e]
        /\ unchecked'[e] = unchecked[e]
    BY <1>1, <1>2 DEF TypeOK
  <2>2. editing'[e] = editing[e]
    BY <1>1, <1>2, Zenon DEF TypeOK
  <2>3. QED
    BY <2>1, <2>2
<1>5. Wanted(c)' = {} /\ \A e \in Clerks \ {c} : Wanted(e)' = Wanted(e)
  BY <1>3, <1>4 DEF Wanted
<1>6. \A v \in Variations : /\ ~Holds(c, v)'
                            /\ \A e \in Clerks \ {c} : Holds(e, v)' = Holds(e, v)
  BY <1>2, ReservationAssumption DEF Holds
<1>7. ASSUME rows' \in [Rows -> RowType \cup {Absent}], HistoryOK'
      PROVE  TypeOK'
  <2>1. /\ attr' \in [Variations -> AttributeType]
        /\ blocked' \in [Variations -> Nat] /\ ceiling' \in [Variations -> Nat]
    BY <1>1, <1>2 DEF TypeOK
  <2>2. lock' \in [Variations -> Clerks \cup {NoClerk}]
    BY <1>1, <1>2 DEF TypeOK
  <2>3. pc' \in [Clerks -> Steps]
    BY <1>1, <1>2 DEF TypeOK, Steps
  <2>4. editing' \in [Clerks -> BOOLEAN]
    BY <1>1, <1>2 DEF TypeOK
  <2>5. unchecked' \in [Clerks -> SUBSET Variations]
    BY <1>1, <1>2 DEF TypeOK
  <2>6. NoPlan \in Plans
    <3>1. NoPlan \in [{} -> RowType]
      BY DEF NoPlan
    <3>2. QED
      BY <3>1 DEF Plans
  <2>7. NoneSeen \in Readings
    <3>1. NoneSeen \in [{} -> AttributeType]
      BY DEF NoneSeen
    <3>2. QED
      BY <3>1 DEF Readings
  <2>8. plan' \in [Clerks -> Plans]
    BY <1>1, <1>2, <2>6 DEF TypeOK
  <2>9. seen' \in [Clerks -> Readings]
    BY <1>1, <1>2, <2>7 DEF TypeOK
  <2>10. QED
    BY <1>7, <2>1, <2>2, <2>3, <2>4, <2>5, <2>8, <2>9 DEF TypeOK
<1>8. LockDiscipline'
  <2> SUFFICES ASSUME NEW e \in Clerks
               PROVE  /\ pc'[e] = "idle" => DOMAIN plan'[e] = {}
                      /\ \A v \in Variations : Holds(e, v)' => v \in Wanted(e)'
                      /\ \A v, w \in Wanted(e)' :
                            Holds(e, v)' /\ Rank[w] < Rank[v] => Holds(e, w)'
                      /\ pc'[e] \in {"checking", "writing"} =>
                            \A v \in Wanted(e)' : Holds(e, v)'
    BY DEF LockDiscipline
  <2>1. CASE e = c
    BY <1>3, <1>5, <1>6, <2>1
  <2>2. CASE e # c
    <3>1. Wanted(e) \subseteq Variations
      BY <1>1, PlanType
    <3>2. Wanted(e)' = Wanted(e) /\ pc'[e] = pc[e] /\ plan'[e] = plan[e]
      BY <1>4, <1>5, <2>2
    <3>3. \A v \in Variations : Holds(e, v)' = Holds(e, v)
      BY <1>6, <2>2
    <3>4. QED
      BY <1>1, <3>1, <3>2, <3>3 DEF LockDiscipline
  <2>3. QED
    BY <2>1, <2>2
<1>9. SeenIsOwned'
  <2>1. \A v \in Variations : Stock(attr'[v].quantity) <= ceiling'[v]
    BY <1>1, <1>2 DEF SeenIsOwned
  <2> SUFFICES ASSUME NEW e \in Clerks
               PROVE  /\ DOMAIN seen'[e] = Wanted(e)'
                      /\ pc'[e] = "locking" => unchecked'[e] = Wanted(e)'
                      /\ pc'[e] = "writing" => unchecked'[e] = {}
                      /\ \A v \in Wanted(e)' :
                            Stock(seen'[e][v].quantity) <= ceiling'[v]
    BY <2>1 DEF SeenIsOwned
  <2>2. CASE e = c
    BY <1>3, <1>5, <2>2
  <2>3. CASE e # c
    BY <1>1, <1>2, <1>4, <1>5, <2>3 DEF SeenIsOwned
  <2>4. QED
    BY <2>2, <2>3
<1>10. QED
  BY <1>2, <1>3, <1>4, <1>5, <1>7, <1>8, <1>9

\* A request that is refused, or rolled back, has written nothing.
LEMMA RolledBackKeepsInv ==
    ASSUME ReservationInv, NEW c \in Clerks, EndRequest(c), UNCHANGED rows
    PROVE  ReservationInv'
<1>1. TypeOK /\ PlanMatchesRows /\ CheckStillHolds
  BY DEF ReservationInv
<1>2. TypeOK' /\ LockDiscipline' /\ SeenIsOwned'
  BY <1>1, RequestEnded DEF TypeOK, HistoryOK
<1>3. /\ UNCHANGED ceiling /\ DOMAIN plan'[c] = {} /\ pc'[c] = "idle"
      /\ \A e \in Clerks \ {c} :
            /\ pc'[e] = pc[e] /\ plan'[e] = plan[e]
            /\ editing'[e] = editing[e] /\ unchecked'[e] = unchecked[e]
            /\ Wanted(e)' = Wanted(e)
  BY RequestEnded
<1>4. PlanMatchesRows'
  <2> SUFFICES ASSUME NEW e \in Clerks, NEW r \in DOMAIN plan'[e]
               PROVE  /\ plan'[e][r].status = "held"
                      /\ editing'[e] => /\ DOMAIN plan'[e] = {r}
                                        /\ rows'[r] # Absent
                                        /\ rows'[r].variation = plan'[e][r].variation
                      /\ ~editing'[e] =>
                            /\ rows'[r] = Absent
                            /\ \A x \in Clerks \ {e} : r \notin DOMAIN plan'[x]
    BY DEF PlanMatchesRows
  <2>1. e # c /\ plan'[e] = plan[e] /\ editing'[e] = editing[e]
    BY <1>3
  <2>2. \A x \in Clerks : DOMAIN plan'[x] \subseteq DOMAIN plan[x]
    BY <1>3
  <2>3. QED
    BY <1>1, <2>1, <2>2 DEF PlanMatchesRows
<1>5. CheckStillHolds'
  <2> SUFFICES ASSUME NEW e \in Clerks, pc'[e] \in {"checking", "writing"},
                      NEW v \in Wanted(e)' \ unchecked'[e], NEW d \in Days
               PROVE  Cardinality(UnitsIn(Contended(e, v)', v, d)) <= ceiling'[v]
    BY DEF CheckStillHolds
  <2>1. /\ e # c /\ plan'[e] = plan[e] /\ pc'[e] = pc[e]
        /\ v \in Wanted(e) \ unchecked[e]
    BY <1>3
  <2>2. Contended(e, v)' = Contended(e, v)
    BY <2>1 DEF Contended, Competes
  <2>3. QED
    BY <1>1, <1>3, <2>1, <2>2 DEF CheckStillHolds
<1>6. QED
  BY <1>2, <1>4, <1>5 DEF ReservationInv


\* What a commit writes: for the rows of the plan what was planned, keeping
\* the status of one that is there already, and no other row.
LEMMA CommitWrites ==
    ASSUME ReservationInv, NEW c \in Clerks, Commit(c)
    PROVE  /\ rows' \in [Rows -> RowType \cup {Absent}]
           /\ \A r \in Rows \ DOMAIN plan[c] : rows'[r] = rows[r]
           /\ \A r \in DOMAIN plan[c] :
                 /\ r \in Rows /\ rows'[r] \in RowType
                 /\ rows'[r].variation = plan[c][r].variation
                 /\ rows'[r].from = plan[c][r].from
                 /\ rows'[r].to = plan[c][r].to
                 /\ rows'[r].qty = plan[c][r].qty
                 /\ rows'[r].status = IF editing[c] THEN rows[r].status ELSE "held"
<1>1. TypeOK /\ PlanMatchesRows
  BY DEF ReservationInv
<1>2. rows' = [r \in Rows |-> IF r \in DOMAIN plan[c] THEN Written(c, r) ELSE rows[r]]
  BY DEF Commit
<1>3. ASSUME NEW r \in DOMAIN plan[c]
      PROVE  /\ r \in Rows /\ rows'[r] \in RowType
             /\ rows'[r].variation = plan[c][r].variation
             /\ rows'[r].from = plan[c][r].from
             /\ rows'[r].to = plan[c][r].to
             /\ rows'[r].qty = plan[c][r].qty
             /\ rows'[r].status = IF editing[c] THEN rows[r].status ELSE "held"
  <2>1. r \in Rows /\ plan[c][r] \in RowType /\ plan[c][r].status = "held"
    BY <1>1, PlanType DEF PlanMatchesRows
  <2>2. rows'[r] = Written(c, r)
    BY <1>2, <2>1
  <2>3. CASE editing[c]
    <3>1. rows[r] \in RowType /\ rows[r].status \in {"held", "out", "ended"}
      BY <1>1, <2>1, <2>3, RowOrAbsent, RowFields DEF PlanMatchesRows
    <3>2. Written(c, r) = [plan[c][r] EXCEPT !.status = rows[r].status]
      BY <2>3 DEF Written
    <3>3. Written(c, r) \in RowType
      BY <2>1, <3>1, <3>2 DEF RowType
    <3>4. /\ Written(c, r).variation = plan[c][r].variation
          /\ Written(c, r).from = plan[c][r].from
          /\ Written(c, r).to = plan[c][r].to
          /\ Written(c, r).qty = plan[c][r].qty
          /\ Written(c, r).status = rows[r].status
      BY <2>1, <3>2 DEF RowType
    <3>5. QED
      BY <2>1, <2>2, <2>3, <3>3, <3>4
  <2>4. CASE ~editing[c]
    BY <2>1, <2>2, <2>4 DEF Written
  <2>5. QED
    BY <2>3, <2>4
<1>4. \A r \in Rows \ DOMAIN plan[c] : rows'[r] = rows[r]
  BY <1>2
<1>5. rows' \in [Rows -> RowType \cup {Absent}]
  <2>1. \A r \in Rows : rows'[r] \in RowType \cup {Absent}
    BY <1>1, <1>3, <1>4 DEF TypeOK
  <2>2. rows' = [r \in Rows |-> rows'[r]]
    BY <1>2
  <2>3. QED
    BY <2>1, <2>2
<1>6. QED
  BY <1>3, <1>4, <1>5

\* A commit uses the units its own check counted, while its locks keep
\* every other request that could count them from checking.
LEMMA CommitKeepsInv ==
    ASSUME ReservationInv, NEW c \in Clerks, Commit(c)
    PROVE  ReservationInv'
<1>1. /\ TypeOK /\ LockDiscipline /\ PlanMatchesRows /\ SeenIsOwned
      /\ CheckStillHolds
  BY DEF ReservationInv
<1>2. EndRequest(c) /\ pc[c] = "writing"
  BY DEF Commit
<1>3. TypeOK' /\ LockDiscipline' /\ SeenIsOwned'
  <2>1. HistoryOK /\ UNCHANGED <<handed, revived>>
    BY <1>1, <1>2, RequestEnded DEF TypeOK
  <2>2. ASSUME NEW r \in handed
        PROVE  rows'[r].status = rows[r].status
    <3>1. r \in Rows /\ rows[r] # Absent
      BY <2>1, <2>2 DEF HistoryOK, Absent
    <3>2. QED
      BY <1>1, <3>1, CommitWrites DEF PlanMatchesRows
  <2>3. HistoryOK'
    BY <2>1, <2>2 DEF HistoryOK
  <2>4. QED
    BY <1>2, <2>3, CommitWrites, RequestEnded
<1>4. /\ UNCHANGED ceiling /\ DOMAIN plan'[c] = {} /\ pc'[c] = "idle"
      /\ \A e \in Clerks \ {c} :
            /\ pc'[e] = pc[e] /\ plan'[e] = plan[e]
            /\ editing'[e] = editing[e] /\ unchecked'[e] = unchecked[e]
            /\ Wanted(e)' = Wanted(e)
  BY <1>2, RequestEnded
<1>5. PlanMatchesRows'
  <2> SUFFICES ASSUME NEW e \in Clerks, NEW r \in DOMAIN plan'[e]
               PROVE  /\ plan'[e][r].status = "held"
                      /\ editing'[e] => /\ DOMAIN plan'[e] = {r}
                                        /\ rows'[r] # Absent
                                        /\ rows'[r].variation = plan'[e][r].variation
                      /\ ~editing'[e] =>
                            /\ rows'[r] = Absent
                            /\ \A x \in Clerks \ {e} : r \notin DOMAIN plan'[x]
    BY DEF PlanMatchesRows
  <2>1. e # c /\ plan'[e] = plan[e] /\ editing'[e] = editing[e] /\ r \in Rows
    BY <1>1, <1>4, PlanType
  <2>2. \A x \in Clerks : DOMAIN plan'[x] \subseteq DOMAIN plan[x]
    BY <1>4
  <2>3. CASE r \notin DOMAIN plan[c]
    <3>1. rows'[r] = rows[r]
      BY <2>1, <2>3, CommitWrites
    <3>2. QED
      BY <1>1, <2>1, <2>2, <3>1 DEF PlanMatchesRows
  <2>4. CASE r \in DOMAIN plan[c]
    <3>1. editing[c] /\ rows[r] # Absent /\ rows[r].variation = plan[c][r].variation
      BY <1>1, <2>1, <2>4 DEF PlanMatchesRows
    <3>2. editing[e] /\ rows[r].variation = plan[e][r].variation
      BY <1>1, <2>1, <3>1 DEF PlanMatchesRows
    <3>3. rows'[r] # Absent /\ rows'[r].variation = plan[e][r].variation
      BY <2>4, <3>1, <3>2, CommitWrites, RowFields
    <3>4. QED
      BY <1>1, <2>1, <3>2, <3>3 DEF PlanMatchesRows
  <2>5. QED
    BY <2>3, <2>4
<1>6. CheckStillHolds'
  <2> SUFFICES ASSUME NEW e \in Clerks, pc'[e] \in {"checking", "writing"},
                      NEW v \in Wanted(e)' \ unchecked'[e], NEW d \in Days
               PROVE  Cardinality(UnitsIn(Contended(e, v)', v, d)) <= ceiling'[v]
    BY DEF CheckStillHolds
  <2>1. /\ e # c /\ plan'[e] = plan[e] /\ pc'[e] = pc[e]
        /\ v \in Wanted(e) \ unchecked[e] /\ v \in Variations
    BY <1>1, <1>4, PlanType
  \* e has the lock of v, so c does not write to v.
  <2>2. \A r \in DOMAIN plan[c] : rows'[r].variation # v
    <3>1. lock[v] = e
      BY <1>4, <2>1, <1>1 DEF LockDiscipline, Holds
    <3>2. v \notin Wanted(c)
      BY <1>1, <1>2, <2>1, <3>1 DEF LockDiscipline, Holds
    <3>3. QED
      BY <3>2, CommitWrites DEF Wanted
  <2>3. \A r \in Rows :
           /\ Contended(e, v)'[r].status \in {"held", "out"}
           /\ Contended(e, v)'[r].variation = v
           => Contended(e, v)[r] = Contended(e, v)'[r]
    <3> TAKE r \in Rows
    <3> HAVE /\ Contended(e, v)'[r].status \in {"held", "out"}
             /\ Contended(e, v)'[r].variation = v
    <3>1. CASE r \in DOMAIN plan[e]
      BY <2>1, <3>1 DEF Contended
    <3>2. CASE r \notin DOMAIN plan[e]
      <4>1. Competes(e, v, r)' /\ Contended(e, v)'[r] = rows'[r]
        BY <2>1, <3>2 DEF Contended, Absent
      <4>2. rows'[r] = rows[r]
        BY <2>2, <4>1, CommitWrites
      <4>3. Competes(e, v, r)
        BY <2>1, <4>1, <4>2 DEF Competes
      <4>4. QED
        BY <3>2, <4>1, <4>2, <4>3 DEF Contended
    <3>3. QED
      BY <3>1, <3>2
  <2>4. Cardinality(UnitsIn(Contended(e, v)', v, d))
            <= Cardinality(UnitsIn(Contended(e, v), v, d))
    BY <2>3, RowByRow
  <2>5. Cardinality(UnitsIn(Contended(e, v), v, d)) <= ceiling[v]
    BY <1>1, <1>4, <2>1 DEF CheckStillHolds
  <2>6. ceiling[v] \in Nat /\ ceiling'[v] = ceiling[v]
    BY <1>1, <1>4, <2>1 DEF TypeOK
  <2>7. QED
    BY <2>4, <2>5, <2>6, UnitsCount
<1>7. QED
  BY <1>3, <1>5, <1>6 DEF ReservationInv


\* A request that begins has nothing yet: it plans rows nobody else plans, or
\* one that is there, and has all its variations still to check.
LEMMA BeginKeepsInv ==
    ASSUME ReservationInv, NEW c \in Clerks, NEW lines \in Carts,
           NEW edit \in BOOLEAN, Begin(c, lines, edit),
           \A r \in DOMAIN lines :
              /\ edit => /\ DOMAIN lines = {r} /\ rows[r] # Absent
                         /\ rows[r].variation = lines[r].variation
              /\ ~edit => /\ rows[r] = Absent
                          /\ \A e \in Clerks : r \notin DOMAIN plan[e]
    PROVE  ReservationInv'
<1> DEFINE vs == {lines[r].variation : r \in DOMAIN lines}
<1>1. /\ TypeOK /\ LockDiscipline /\ PlanMatchesRows /\ SeenIsOwned
      /\ CheckStillHolds
  BY DEF ReservationInv
<1>2. /\ pc[c] = "idle"
      /\ pc' = [pc EXCEPT ![c] = "locking"]
      /\ plan' = [plan EXCEPT ![c] = [r \in DOMAIN lines |-> Held(lines[r])]]
      /\ editing' = [editing EXCEPT ![c] = edit]
      /\ seen' = [seen EXCEPT ![c] = [v \in vs |-> attr[v]]]
      /\ unchecked' = [unchecked EXCEPT ![c] = vs]
      /\ UNCHANGED <<rows, attr, blocked, lock, ceiling, handed, revived>>
  BY DEF Begin, history
<1>3. DOMAIN lines \subseteq Rows /\ \A r \in DOMAIN lines : lines[r] \in LineType
  <2>1. PICK S \in SUBSET Rows : lines \in [S -> Lines]
    BY DEF Carts
  <2>2. QED
    BY <2>1, ReservationAssumption
<1>4. \A r \in DOMAIN lines : /\ Held(lines[r]) \in RowType
                              /\ Held(lines[r]).status = "held"
                              /\ Held(lines[r]).variation = lines[r].variation
  BY <1>3 DEF Held, LineType, RowType
<1>5. vs \subseteq Variations
  BY <1>3 DEF LineType
<1>6. /\ pc'[c] = "locking"
      /\ plan'[c] = [r \in DOMAIN lines |-> Held(lines[r])]
      /\ DOMAIN plan'[c] = DOMAIN lines
      /\ seen'[c] = [v \in vs |-> attr[v]] /\ unchecked'[c] = vs
  BY <1>1, <1>2 DEF TypeOK
<1>7. editing'[c] = edit
  BY <1>1, <1>2, Zenon DEF TypeOK
<1>8. \A e \in Clerks \ {c} :
         /\ pc'[e] = pc[e] /\ plan'[e] = plan[e] /\ seen'[e] = seen[e]
         /\ editing'[e] = editing[e] /\ unchecked'[e] = unchecked[e]
  <2> TAKE e \in Clerks \ {c}
  <2>1. /\ pc'[e] = pc[e] /\ plan'[e] = plan[e] /\ seen'[e] = seen[e]
        /\ unchecked'[e] = unchecked[e]
    BY <1>1, <1>2 DEF TypeOK
  <2>2. editing'[e] = editing[e]
    BY <1>1, <1>2, Zenon DEF TypeOK
  <2>3. QED
    BY <2>1, <2>2
<1>9. Wanted(c)' = vs /\ \A e \in Clerks \ {c} : Wanted(e)' = Wanted(e)
  <2>1. Wanted(c)' = {plan'[c][r].variation : r \in DOMAIN lines}
    BY <1>6 DEF Wanted
  <2>2. \A r \in DOMAIN lines : plan'[c][r].variation = lines[r].variation
    BY <1>4, <1>6
  <2>3. Wanted(c)' = vs
    BY <2>1, <2>2
  <2>4. \A e \in Clerks \ {c} : Wanted(e)' = Wanted(e)
    BY <1>8 DEF Wanted
  <2>5. QED
    BY <2>3, <2>4
<1>10. \A e \in Clerks : \A v : Holds(e, v)' = Holds(e, v)
  BY <1>2 DEF Holds
<1>11. \A v \in Variations : ~Holds(c, v)
  BY <1>1, <1>2 DEF LockDiscipline, Wanted
<1>12. TypeOK'
  <2>1. [r \in DOMAIN lines |-> Held(lines[r])]
           \in Plans
    <3>1. [r \in DOMAIN lines |-> Held(lines[r])] \in [DOMAIN lines -> RowType]
      BY <1>4
    <3>2. QED
      BY <1>3, <3>1 DEF Plans
  <2>2. [v \in vs |-> attr[v]]
           \in Readings
    <3>1. [v \in vs |-> attr[v]] \in [vs -> AttributeType]
      BY <1>1, <1>5 DEF TypeOK
    <3>2. QED
      BY <1>5, <3>1 DEF Readings
  <2>3. plan' \in [Clerks -> Plans]
    BY <1>1, <1>2, <2>1 DEF TypeOK
  <2>4. seen' \in [Clerks -> Readings]
    BY <1>1, <1>2, <2>2 DEF TypeOK
  <2>5. pc' \in [Clerks -> Steps]
    BY <1>1, <1>2 DEF TypeOK, Steps
  <2>6. editing' \in [Clerks -> BOOLEAN]
    BY <1>1, <1>2 DEF TypeOK
  <2>7. unchecked' \in [Clerks -> SUBSET Variations]
    BY <1>1, <1>2, <1>5 DEF TypeOK
  <2>8. /\ rows' \in [Rows -> RowType \cup {Absent}]
        /\ attr' \in [Variations -> AttributeType]
        /\ blocked' \in [Variations -> Nat] /\ ceiling' \in [Variations -> Nat]
        /\ lock' \in [Variations -> Clerks \cup {NoClerk}]
        /\ HistoryOK'
    BY <1>1, <1>2 DEF TypeOK, HistoryOK
  <2>9. QED
    BY <2>3, <2>4, <2>5, <2>6, <2>7, <2>8 DEF TypeOK
<1>13. LockDiscipline'
  <2> SUFFICES ASSUME NEW e \in Clerks
               PROVE  /\ pc'[e] = "idle" => DOMAIN plan'[e] = {}
                      /\ \A v \in Variations : Holds(e, v) => v \in Wanted(e)'
                      /\ \A v, w \in Wanted(e)' :
                            Holds(e, v) /\ Rank[w] < Rank[v] => Holds(e, w)
                      /\ pc'[e] \in {"checking", "writing"} =>
                            \A v \in Wanted(e)' : Holds(e, v)
    BY <1>10 DEF LockDiscipline
  <2>1. CASE e = c
    BY <1>5, <1>6, <1>9, <1>11, <2>1
  <2>2. CASE e # c
    BY <1>1, <1>8, <1>9, <2>2 DEF LockDiscipline
  <2>3. QED
    BY <2>1, <2>2
<1>14. PlanMatchesRows'
  <2> SUFFICES ASSUME NEW e \in Clerks, NEW r \in DOMAIN plan'[e]
               PROVE  /\ plan'[e][r].status = "held"
                      /\ editing'[e] => /\ DOMAIN plan'[e] = {r}
                                        /\ rows'[r] # Absent
                                        /\ rows'[r].variation = plan'[e][r].variation
                      /\ ~editing'[e] =>
                            /\ rows'[r] = Absent
                            /\ \A x \in Clerks \ {e} : r \notin DOMAIN plan'[x]
    BY DEF PlanMatchesRows
  <2>1. CASE e = c
    <3>1. /\ plan'[e][r] = Held(lines[r]) /\ r \in DOMAIN lines
          /\ DOMAIN plan'[e] = DOMAIN lines
      BY <1>6, <2>1
    <3>2. plan'[e][r].status = "held" /\ plan'[e][r].variation = lines[r].variation
      BY <1>4, <3>1
    <3>3. \A x \in Clerks \ {e} : DOMAIN plan'[x] = DOMAIN plan[x]
      BY <1>8, <2>1
    <3>4. CASE edit
      <4>1. editing'[e]
        BY <1>7, <2>1, <3>4
      <4>2. DOMAIN lines = {r} /\ rows[r] # Absent
            /\ rows[r].variation = lines[r].variation
        BY <3>1, <3>4
      <4>3. QED
        BY <1>2, <3>1, <3>2, <4>1, <4>2
    <3>5. CASE ~edit
      <4>1. ~editing'[e]
        BY <1>7, <2>1, <3>5
      <4>2. rows[r] = Absent /\ \A x \in Clerks : r \notin DOMAIN plan[x]
        BY <3>1, <3>5
      <4>3. QED
        BY <1>2, <3>2, <3>3, <4>1, <4>2
    <3>6. QED
      BY <3>4, <3>5
  <2>2. CASE e # c
    <3>1. plan'[e] = plan[e] /\ editing'[e] = editing[e] /\ r \in DOMAIN plan[e]
      BY <1>8, <2>2
    <3>2. ASSUME ~editing[e]
          PROVE  r \notin DOMAIN lines
      <4>1. rows[r] = Absent
        BY <1>1, <3>1, <3>2 DEF PlanMatchesRows
      <4>2. QED
        BY <3>1, <4>1
    <3>3. \A x \in Clerks \ {c} : DOMAIN plan'[x] = DOMAIN plan[x]
      BY <1>8
    <3>4. QED
      BY <1>1, <1>2, <1>6, <2>2, <3>1, <3>2, <3>3 DEF PlanMatchesRows
  <2>3. QED
    BY <2>1, <2>2
<1>15. SeenIsOwned'
  <2>1. \A v \in Variations : Stock(attr'[v].quantity) <= ceiling'[v]
    BY <1>1, <1>2 DEF SeenIsOwned
  <2> SUFFICES ASSUME NEW e \in Clerks
               PROVE  /\ DOMAIN seen'[e] = Wanted(e)'
                      /\ pc'[e] = "locking" => unchecked'[e] = Wanted(e)'
                      /\ pc'[e] = "writing" => unchecked'[e] = {}
                      /\ \A v \in Wanted(e)' :
                            Stock(seen'[e][v].quantity) <= ceiling'[v]
    BY <2>1 DEF SeenIsOwned
  <2>2. CASE e = c
    <3>1. DOMAIN seen'[e] = Wanted(e)' /\ Wanted(e)' = vs
      BY <1>6, <1>9, <2>2
    <3>2. unchecked'[e] = vs /\ pc'[e] = "locking"
      BY <1>6, <2>2
    <3>3. \A v \in vs : seen'[e][v] = attr'[v]
      BY <1>2, <1>6, <2>2
    <3> HIDE DEF vs
    <3>4. \A v \in vs : Stock(seen'[e][v].quantity) <= ceiling'[v]
      BY <1>5, <2>1, <3>3
    <3>5. QED
      BY <3>1, <3>2, <3>4
  <2>3. CASE e # c
    BY <1>1, <1>2, <1>8, <1>9, <2>3 DEF SeenIsOwned
  <2>4. QED
    BY <2>2, <2>3
<1>16. CheckStillHolds'
  <2> SUFFICES ASSUME NEW e \in Clerks, pc'[e] \in {"checking", "writing"},
                      NEW v \in Wanted(e)' \ unchecked'[e], NEW d \in Days
               PROVE  Cardinality(UnitsIn(Contended(e, v)', v, d)) <= ceiling'[v]
    BY DEF CheckStillHolds
  <2>1. /\ e # c /\ plan'[e] = plan[e] /\ pc'[e] = pc[e]
        /\ v \in Wanted(e) \ unchecked[e]
    BY <1>6, <1>8, <1>9
  <2>2. Contended(e, v)' = Contended(e, v)
    BY <1>2, <2>1 DEF Contended, Competes
  <2>3. QED
    BY <1>1, <1>2, <2>1, <2>2 DEF CheckStillHolds
<1>17. QED
  BY <1>12, <1>13, <1>14, <1>15, <1>16 DEF ReservationInv

\* createBooking, addBookingItem: fresh rows are planned by nobody else.
LEMMA ReserveKeepsInv ==
    ASSUME ReservationInv, NEW c \in Clerks, NEW lines \in Carts, Reserve(c, lines)
    PROVE  ReservationInv'
<1>1. /\ Begin(c, lines, FALSE)
      /\ \A r \in DOMAIN lines : /\ rows[r] = Absent
                                 /\ \A e \in Clerks : r \notin DOMAIN plan[e]
  BY DEF Reserve
<1>2. QED
  BY <1>1, BeginKeepsInv

\* updateBookingItem: the one row it plans is there.
LEMMA RescheduleKeepsInv ==
    ASSUME ReservationInv, NEW c \in Clerks, NEW r \in Rows, NEW line \in Lines,
           Reschedule(c, r, line)
    PROVE  ReservationInv'
<1> DEFINE lines == [x \in {r} |-> line]
<1>1. lines \in Carts
  <2>1. lines \in [{r} -> Lines]
    OBVIOUS
  <2>2. QED
    BY <2>1 DEF Carts
<1>2. Begin(c, lines, TRUE) /\ rows[r].variation = line.variation
  BY DEF Reschedule
<1>3. rows[r] # Absent
  BY DEF Reschedule, Absent
<1>4. DOMAIN lines = {r} /\ lines[r] = line
  OBVIOUS
<1>5. \A x \in DOMAIN lines : /\ DOMAIN lines = {x} /\ rows[x] # Absent
                              /\ rows[x].variation = lines[x].variation
  BY <1>2, <1>3, <1>4
<1> HIDE DEF lines
<1>6. QED
  BY <1>1, <1>2, <1>5, BeginKeepsInv


\* One more lock, the next in the order, and a request that has them all
\* still has everything to check.
LEMMA LockKeepsInv ==
    ASSUME ReservationInv, NEW c \in Clerks, NEW v \in Variations, Lock(c, v)
    PROVE  ReservationInv'
<1>1. /\ TypeOK /\ LockDiscipline /\ PlanMatchesRows /\ SeenIsOwned
      /\ CheckStillHolds
  BY DEF ReservationInv
<1>2. /\ pc[c] = "locking" /\ v \in Wanted(c)
      /\ \A w \in Wanted(c) : Rank[w] < Rank[v] => Holds(c, w)
      /\ lock[v] = NoClerk
      /\ lock' = [lock EXCEPT ![v] = c]
      /\ pc' = [pc EXCEPT ![c] =
                   IF \A w \in Wanted(c) \ {v} : Holds(c, w) THEN "checking" ELSE @]
      /\ UNCHANGED <<rows, attr, blocked, plan, editing, seen, unchecked>>
      /\ UNCHANGED <<ceiling, handed, revived>>
  BY DEF Lock, Free, NextInOrder, history
<1>3. /\ pc'[c] \in {"locking", "checking"}
      /\ pc'[c] = "checking" => \A w \in Wanted(c) \ {v} : Holds(c, w)
      /\ \A e \in Clerks \ {c} : pc'[e] = pc[e]
      /\ pc' \in [Clerks -> Steps]
  BY <1>1, <1>2 DEF TypeOK, Steps
<1>4. /\ Holds(c, v)'
      /\ \A w \in Variations \ {v} : Holds(c, w)' = Holds(c, w)
      /\ \A e \in Clerks \ {c}, w \in Variations :
            Holds(e, w)' = Holds(e, w) /\ ~Holds(e, v)
  BY <1>1, <1>2, ReservationAssumption DEF Holds, TypeOK
<1>5. \A e \in Clerks : Wanted(e)' = Wanted(e) /\ Wanted(e) \subseteq Variations
  BY <1>1, <1>2, PlanType DEF Wanted
<1>6. TypeOK'
  <2>1. lock' \in [Variations -> Clerks \cup {NoClerk}]
    BY <1>1, <1>2 DEF TypeOK
  <2>2. QED
    BY <1>1, <1>2, <1>3, <2>1 DEF TypeOK, HistoryOK
<1>7. LockDiscipline'
  <2> SUFFICES ASSUME NEW e \in Clerks
               PROVE  /\ pc'[e] = "idle" => DOMAIN plan'[e] = {}
                      /\ \A w \in Variations : Holds(e, w)' => w \in Wanted(e)
                      /\ \A x, w \in Wanted(e) :
                            Holds(e, x)' /\ Rank[w] < Rank[x] => Holds(e, w)'
                      /\ pc'[e] \in {"checking", "writing"} =>
                            \A w \in Wanted(e) : Holds(e, w)'
    BY <1>5 DEF LockDiscipline
  <2>1. CASE e = c
    <3>1. pc'[e] # "idle"
      BY <1>3, <2>1
    <3>2. \A w \in Variations : Holds(e, w)' => w \in Wanted(e)
      BY <1>1, <1>2, <1>4, <2>1 DEF LockDiscipline
    <3>3. ASSUME NEW x \in Wanted(e), NEW w \in Wanted(e),
                 Holds(e, x)', Rank[w] < Rank[x]
          PROVE  Holds(e, w)'
      <4>1. CASE w = v
        BY <1>4, <2>1, <4>1
      <4>2. CASE w # v
        <5>1. Holds(c, w)
          BY <1>1, <1>2, <1>4, <1>5, <2>1, <3>3 DEF LockDiscipline
        <5>2. QED
          BY <1>4, <1>5, <2>1, <4>2, <5>1
      <4>3. QED
        BY <4>1, <4>2
    <3>4. pc'[e] \in {"checking", "writing"} => \A w \in Wanted(e) : Holds(e, w)'
      BY <1>3, <1>4, <1>5, <2>1
    <3>5. QED
      BY <3>1, <3>2, <3>3, <3>4
  <2>2. CASE e # c
    <3>1. pc'[e] = pc[e] /\ plan'[e] = plan[e]
      BY <1>2, <1>3, <2>2
    <3>2. \A w \in Variations : Holds(e, w)' = Holds(e, w)
      BY <1>4, <2>2
    <3>3. QED
      BY <1>1, <1>5, <3>1, <3>2 DEF LockDiscipline
  <2>3. QED
    BY <2>1, <2>2
<1>8. PlanMatchesRows'
  BY <1>1, <1>2 DEF PlanMatchesRows
<1>9. SeenIsOwned'
  <2> SUFFICES ASSUME NEW e \in Clerks
               PROVE  /\ pc'[e] = "locking" => unchecked[e] = Wanted(e)
                      /\ pc'[e] = "writing" => unchecked[e] = {}
    BY <1>1, <1>2, <1>5 DEF SeenIsOwned
  <2>1. QED
    BY <1>1, <1>2, <1>3 DEF SeenIsOwned
<1>10. CheckStillHolds'
  <2> SUFFICES ASSUME NEW e \in Clerks, pc'[e] \in {"checking", "writing"},
                      NEW w \in Wanted(e) \ unchecked[e], NEW d \in Days
               PROVE  Cardinality(UnitsIn(Contended(e, w)', w, d)) <= ceiling[w]
    BY <1>2, <1>5 DEF CheckStillHolds
  <2>1. Contended(e, w)' = Contended(e, w)
    BY <1>2 DEF Contended, Competes
  <2>2. e # c
    BY <1>1, <1>2 DEF SeenIsOwned
  <2>3. QED
    BY <1>1, <1>3, <2>1, <2>2 DEF CheckStillHolds
<1>11. QED
  BY <1>6, <1>7, <1>8, <1>9, <1>10 DEF ReservationInv

\* A check that passes has counted no more than the stock it read, less what
\* is in repair.
LEMMA CheckPassesKeepsInv ==
    ASSUME ReservationInv, NEW c \in Clerks, NEW v \in Variations, CheckPasses(c, v)
    PROVE  ReservationInv'
<1>1. /\ TypeOK /\ LockDiscipline /\ PlanMatchesRows /\ SeenIsOwned
      /\ CheckStillHolds
  BY DEF ReservationInv
<1>2. /\ pc[c] = "checking" /\ v \in unchecked[c] /\ Fits(c, v)
      /\ unchecked' = [unchecked EXCEPT ![c] = @ \ {v}]
      /\ pc' = [pc EXCEPT ![c] = IF unchecked[c] = {v} THEN "writing" ELSE @]
      /\ UNCHANGED <<rows, attr, blocked, lock, plan, editing, seen>>
      /\ UNCHANGED <<ceiling, handed, revived>>
  BY DEF CheckPasses, history
<1>3. /\ pc'[c] \in {"checking", "writing"}
      /\ pc'[c] = "writing" => unchecked[c] = {v}
      /\ unchecked'[c] = unchecked[c] \ {v}
      /\ \A e \in Clerks \ {c} : pc'[e] = pc[e] /\ unchecked'[e] = unchecked[e]
      /\ pc' \in [Clerks -> Steps]
      /\ unchecked' \in [Clerks -> SUBSET Variations]
  BY <1>1, <1>2 DEF TypeOK, Steps
<1>4. \A e \in Clerks : Wanted(e)' = Wanted(e)
  BY <1>2 DEF Wanted
<1>5. \A e \in Clerks : \A w : Holds(e, w)' = Holds(e, w)
  BY <1>2 DEF Holds
<1>6. TypeOK'
  BY <1>1, <1>2, <1>3 DEF TypeOK, HistoryOK
<1>7. LockDiscipline'
  <2> SUFFICES ASSUME NEW e \in Clerks
               PROVE  /\ pc'[e] = "idle" => pc[e] = "idle"
                      /\ pc'[e] \in {"checking", "writing"}
                           => pc[e] \in {"checking", "writing"}
    BY <1>1, <1>2, <1>4, <1>5 DEF LockDiscipline
  <2>1. QED
    BY <1>2, <1>3
<1>8. PlanMatchesRows'
  BY <1>1, <1>2 DEF PlanMatchesRows
<1>9. SeenIsOwned'
  <2> SUFFICES ASSUME NEW e \in Clerks
               PROVE  /\ pc'[e] = "locking" => unchecked'[e] = Wanted(e)
                      /\ pc'[e] = "writing" => unchecked'[e] = {}
    BY <1>1, <1>2, <1>4 DEF SeenIsOwned
  <2>1. QED
    BY <1>1, <1>2, <1>3 DEF SeenIsOwned
<1>10. CheckStillHolds'
  <2> SUFFICES ASSUME NEW e \in Clerks, pc'[e] \in {"checking", "writing"},
                      NEW w \in Wanted(e) \ unchecked'[e], NEW d \in Days
               PROVE  Cardinality(UnitsIn(Contended(e, w)', w, d)) <= ceiling[w]
    BY <1>2, <1>4 DEF CheckStillHolds
  <2>1. Contended(e, w)' = Contended(e, w)
    BY <1>2 DEF Contended, Competes
  <2>2. CASE e = c /\ w = v
    <3>1. Cardinality(UnitsIn(Contended(c, v), v, d))
              <= Capacity(seen[c][v].quantity, blocked[v])
      BY <1>2 DEF Fits
    <3>2. v \in DOMAIN seen[c] /\ Stock(seen[c][v].quantity) <= ceiling[v]
      BY <1>1, <2>2 DEF SeenIsOwned
    <3>3. seen[c][v].quantity \in Nat /\ blocked[v] \in Nat /\ ceiling[v] \in Nat
      <4>1. seen[c][v] \in AttributeType
        BY <1>1, <3>2, SeenType
      <4>2. QED
        BY <1>1, <4>1, ReservationAssumption DEF TypeOK, AttributeType
    <3>4. /\ Stock(seen[c][v].quantity) \in Nat
          /\ Capacity(seen[c][v].quantity, blocked[v]) \in Nat
          /\ Capacity(seen[c][v].quantity, blocked[v]) <= Stock(seen[c][v].quantity)
      BY <3>3, StockBounds
    <3>5. QED
      BY <2>1, <2>2, <3>1, <3>2, <3>3, <3>4, UnitsCount
  <2>3. CASE ~(e = c /\ w = v)
    <3>1. w \in Wanted(e) \ unchecked[e] /\ pc[e] \in {"checking", "writing"}
      BY <1>2, <1>3, <2>3
    <3>2. QED
      BY <1>1, <2>1, <3>1 DEF CheckStillHolds
  <2>4. QED
    BY <2>2, <2>3
<1>11. QED
  BY <1>6, <1>7, <1>8, <1>9, <1>10 DEF ReservationInv

\* A step that changes nothing keeps everything.
LEMMA StutterKeepsInv ==
    ASSUME ReservationInv, UNCHANGED vars
    PROVE  ReservationInv'
<1>1. TypeOK'
  BY DEF vars, request, history, ReservationInv, TypeOK, HistoryOK
<1>2. \A r \in Rows : WrittenOver(r) /\ ~Revived(r)
  BY DEF vars, WrittenOver, Revived
<1>3. \A v \in Variations : /\ ceiling[v] <= ceiling'[v]
                            /\ Stock(attr'[v].quantity) <= ceiling'[v]
  <2>1. \A v \in Variations : ceiling[v] \in Nat
    BY DEF ReservationInv, TypeOK
  <2>2. \A v \in Variations : Stock(attr[v].quantity) <= ceiling[v]
    BY DEF ReservationInv, SeenIsOwned
  <2>3. attr' = attr /\ ceiling' = ceiling
    BY DEF vars, history
  <2>4. QED
    BY <2>1, <2>2, <2>3
<1>4. UNCHANGED <<lock, request>>
  BY DEF vars
<1>5. QED
  BY <1>1, <1>2, <1>3, <1>4, RequestsUntouched
-----------------------------------------------------------------------------
(* The requests and the whole *)

\* On every day a commit takes no unit that was not taken, or all units taken
\* are no more than its own check counted.
LEMMA CommitLoad ==
    ASSUME ReservationInv, NEW c \in Clerks, Commit(c),
           NEW v \in Variations, NEW d \in Days
    PROVE  \/ UnitsIn(rows', v, d) \subseteq UnitsIn(rows, v, d)
           \/ Cardinality(UnitsIn(rows', v, d)) <= ceiling[v]
<1> DEFINE Uses(r) == /\ rows'[r].status \in {"held", "out"}
                      /\ rows'[r].variation = v
                      /\ rows'[r].from <= d /\ d <= rows'[r].to
<1>1. /\ TypeOK /\ PlanMatchesRows /\ SeenIsOwned /\ CheckStillHolds
      /\ pc[c] = "writing"
  BY DEF ReservationInv, Commit
<1>2. ceiling[v] \in Nat /\ d \in Nat
  BY <1>1, CalendarAssumption DEF TypeOK
\* Nothing planned falls on this day: what is there was there.
<1>3. CASE \A r \in DOMAIN plan[c] : ~Uses(r)
  <2>1. \A r \in Rows : Uses(r) => rows[r] = rows'[r]
    BY <1>3, CommitWrites
  <2>2. QED
    BY <2>1, RowByRow
\* Something does: then whatever else is there on this day met the check.
<1>4. CASE \E r \in DOMAIN plan[c] : Uses(r)
  <2>1. PICK p \in DOMAIN plan[c] : Uses(p)
    BY <1>4
  <2>2. /\ plan[c][p].variation = v /\ plan[c][p].from <= d /\ d <= plan[c][p].to
        /\ plan[c][p].from \in Nat /\ plan[c][p].to \in Nat
    BY <1>1, <2>1, CommitWrites, PlanType, RowFields
  <2>3. v \in Wanted(c) \ unchecked[c]
    BY <1>1, <2>2 DEF Wanted, SeenIsOwned
  <2>4. ASSUME NEW r \in Rows, Uses(r)
        PROVE  /\ Contended(c, v)[r].status \in {"held", "out"}
               /\ Contended(c, v)[r].variation = v
               /\ Contended(c, v)[r].from = rows'[r].from
               /\ Contended(c, v)[r].to = rows'[r].to
               /\ Contended(c, v)[r].qty = rows'[r].qty
    <3>1. CASE r \in DOMAIN plan[c]
      <4>1. Contended(c, v)[r] = plan[c][r] /\ plan[c][r].status = "held"
        BY <1>1, <3>1 DEF Contended, PlanMatchesRows
      <4>2. QED
        BY <2>4, <3>1, <4>1, CommitWrites
    <3>2. CASE r \notin DOMAIN plan[c]
      <4>1. rows'[r] = rows[r]
        BY <3>2, CommitWrites
      <4>2. rows[r] \in RowType /\ rows[r] # Absent
            /\ rows[r].from \in Nat /\ rows[r].to \in Nat
        BY <1>1, <2>4, <4>1, RowOrAbsent, RowFields
      <4>3. rows[r].from <= plan[c][p].to /\ plan[c][p].from <= rows[r].to
        BY <1>2, <2>2, <2>4, <4>1, <4>2
      <4>4. Competes(c, v, r)
        BY <2>2, <3>2, <4>2, <4>3 DEF Competes
      <4>5. Contended(c, v)[r] = rows'[r]
        BY <3>2, <4>1, <4>4 DEF Contended
      <4>6. QED
        BY <2>4, <4>5
    <3>3. QED
      BY <3>1, <3>2
  <2>5. Cardinality(UnitsIn(rows', v, d))
            <= Cardinality(UnitsIn(Contended(c, v), v, d))
    BY <2>4, RowByRow
  <2>6. Cardinality(UnitsIn(Contended(c, v), v, d)) <= ceiling[v]
    BY <1>1, <2>3 DEF CheckStillHolds
  <2>7. QED
    BY <1>2, <2>5, <2>6, UnitsCount
<1>5. QED
  BY <1>3, <1>4

\* A booking request keeps the invariant, writes nothing but by its commit, and
\* leaves every row there is with the status it has.
LEMMA RequestsKeepInv ==
    ASSUME ReservationInv, Requests
    PROVE  /\ ReservationInv'
           /\ UNCHANGED history
           /\ UNCHANGED rows \/ \E c \in Clerks : Commit(c)
           /\ \A r \in Rows : rows[r] # Absent
                 => rows'[r] # Absent /\ rows'[r].status = rows[r].status
<1>1. TypeOK /\ PlanMatchesRows
  BY DEF ReservationInv
<1>2. ASSUME NEW c \in Clerks, NEW lines \in Carts, Reserve(c, lines)
      PROVE  ReservationInv' /\ UNCHANGED <<rows, history>>
  BY <1>2, ReserveKeepsInv DEF Reserve, Begin
<1>3. ASSUME NEW c \in Clerks, NEW r \in Rows, NEW line \in Lines,
             Reschedule(c, r, line)
      PROVE  ReservationInv' /\ UNCHANGED <<rows, history>>
  BY <1>3, RescheduleKeepsInv DEF Reschedule, Begin
<1>4. ASSUME NEW c \in Clerks, NEW v \in Variations, Lock(c, v)
      PROVE  ReservationInv' /\ UNCHANGED <<rows, history>>
  BY <1>4, LockKeepsInv DEF Lock
<1>5. ASSUME NEW c \in Clerks, NEW v \in Variations, CheckPasses(c, v)
      PROVE  ReservationInv' /\ UNCHANGED <<rows, history>>
  BY <1>5, CheckPassesKeepsInv DEF CheckPasses
<1>6. ASSUME NEW c \in Clerks, EndRequest(c), UNCHANGED rows
      PROVE  ReservationInv' /\ UNCHANGED <<rows, history>>
  BY <1>6, RolledBackKeepsInv DEF EndRequest
<1>7. ASSUME NEW c \in Clerks, Commit(c)
      PROVE  /\ ReservationInv' /\ UNCHANGED history
             /\ \A r \in Rows : rows[r] # Absent
                   => rows'[r] # Absent /\ rows'[r].status = rows[r].status
  <2>1. ReservationInv' /\ UNCHANGED history
    BY <1>7, CommitKeepsInv DEF Commit, EndRequest
  <2>2. ASSUME NEW r \in Rows, rows[r] # Absent
        PROVE  rows'[r] # Absent /\ rows'[r].status = rows[r].status
    <3>1. CASE r \notin DOMAIN plan[c]
      BY <1>7, <2>2, <3>1, CommitWrites
    <3>2. CASE r \in DOMAIN plan[c] /\ editing[c]
      BY <1>7, <2>2, <3>2, CommitWrites, RowFields
    <3>3. CASE r \in DOMAIN plan[c] /\ ~editing[c]
      <4>1. rows[r] = Absent
        BY <1>1, <3>3 DEF PlanMatchesRows
      <4>2. QED
        BY <2>2, <4>1
    <3>4. QED
      BY <3>1, <3>2, <3>3
  <2>3. QED
    BY <2>1, <2>2
<1>8. CASE \E c \in Clerks : Commit(c)
  BY <1>7, <1>8
<1>9. CASE ~\E c \in Clerks : Commit(c)
  <2>1. ReservationInv' /\ UNCHANGED <<rows, history>>
    BY <1>2, <1>3, <1>4, <1>5, <1>6, <1>9
       DEF Requests, Work, CheckFails, Abort
  <2>2. QED
    BY <2>1
<1>10. QED
  BY <1>8, <1>9

\* Every step keeps the inductive invariant.
LEMMA NextKeepsInv ==
    ASSUME ReservationInv, [Next]_vars
    PROVE  ReservationInv'
BY RequestsKeepInv, OutsidersKeepInv, StutterKeepsInv DEF Next

\* However many clerks book, move, cancel, pick up and return at once, and
\* wherever a request is cut off, the lock discipline holds and checks stay
\* true until they are acted on.
THEOREM Safety == Spec => []ReservationInv
<1>1. ReservationInv /\ [Next]_vars => ReservationInv'
  BY NextKeepsInv
<1>2. QED
  BY <1>1, InitInv, PTL DEF Spec

\* Every variable keeps its type.
THEOREM TypeCorrect == Spec => []TypeOK
<1>1. ReservationInv => TypeOK
  BY DEF ReservationInv
<1>2. QED
  BY <1>1, Safety, PTL

\* What a request's check found to fit still fits when it commits.
THEOREM ChecksStayTrue == Spec => []CheckStillHolds
<1>1. ReservationInv => CheckStillHolds
  BY DEF ReservationInv
<1>2. QED
  BY <1>1, Safety, PTL

\* Locks are waited for in the order of the variations' ids only: no circle
\* of requests waits for itself.
THEOREM WaitingClimbs == Spec => []WaitsClimb
<1>1. ASSUME ReservationInv
      PROVE  WaitsClimb
  <2> SUFFICES ASSUME NEW c \in Clerks, NEW e \in Clerks,
                      NEW v \in Variations, NEW w \in Variations,
                      Waits(c, v), Holds(e, v), Waits(e, w)
               PROVE  Rank[v] < Rank[w]
    BY DEF WaitsClimb
  <2>1. v \in Wanted(e)
    BY <1>1 DEF ReservationInv, LockDiscipline
  <2>2. w \in Wanted(e) /\ ~Holds(e, w) /\ v # w
    BY DEF Waits, NextInOrder
  <2>3. ~(Rank[w] < Rank[v])
    BY <1>1, <2>1, <2>2 DEF ReservationInv, LockDiscipline
  <2>4. Rank[v] \in Nat /\ Rank[w] \in Nat /\ Rank[v] # Rank[w]
    BY <2>2, ReservationAssumption
  <2>5. QED
    BY <2>3, <2>4
<1>2. QED
  BY <1>1, Safety, PTL
-----------------------------------------------------------------------------
(* The handlers implement the calendar *)

\* The two modules mean the same by a row and by the units in use.
LEMMA SameUnits ==
    /\ Promise!RowType = RowType
    /\ Promise!Absent = Absent
    /\ \A table, v, d : Promise!UnitsIn(table, v, d) = UnitsIn(table, v, d)
    /\ \A S : Promise!Cardinality(S) = Cardinality(S)
<1>1. Promise!RowType = RowType
  BY DEF RowType, Promise!RowType
<1>2. Promise!Absent = Absent
  BY DEF Absent, Promise!Absent
<1>3. ASSUME NEW table, NEW v, NEW d
      PROVE  Promise!UnitsIn(table, v, d) = UnitsIn(table, v, d)
  BY DEF UnitsIn, Promise!UnitsIn
<1>4. ASSUME NEW S
      PROVE  Promise!Cardinality(S) = Cardinality(S)
  BY Zenon DEF Cardinality, Promise!Cardinality
<1>5. QED
  BY <1>1, <1>2, <1>3, <1>4

\* An empty calendar is one the promise starts from.
LEMMA InitKept == Init => Promise!Init
<1> SUFFICES ASSUME Init PROVE Promise!Init
  OBVIOUS
<1>1. \A v \in Variations : attr[v].quantity \in Nat
  BY ReservationAssumption DEF Init
<1>2. \A v \in Variations : Stock(attr[v].quantity) \in Nat \ {0}
  BY <1>1, StockBounds
<1>3. ceiling \in [Variations -> Nat \ {0}]
  BY <1>2 DEF Init
<1>4. QED
  BY <1>3, SameUnits DEF Init, Promise!Init

\* A commit books the whole plan, or moves the one row it edits.
LEMMA CommitKept ==
    ASSUME ReservationInv, NEW c \in Clerks, Commit(c)
    PROVE  Promise!Next \/ UNCHANGED <<rows, ceiling, revived>>
<1>1. TypeOK /\ PlanMatchesRows
  BY DEF ReservationInv
<1>2. UNCHANGED <<ceiling, revived>>
  BY RequestEnded DEF Commit
<1>3. Promise!WithinStock(rows')
  BY CommitLoad, SameUnits DEF Promise!WithinStock
<1>4. \A r \in DOMAIN plan[c] : r \in Rows /\ plan[c][r] \in RowType
  BY <1>1, PlanType
<1>5. CASE DOMAIN plan[c] = {}
  <2>1. rows' = rows
    <3>1. \A r \in Rows : rows'[r] = rows[r]
      BY <1>5, CommitWrites
    <3>2. rows' \in [Rows -> RowType \cup {Absent}]
      BY CommitWrites
    <3>3. QED
      BY <1>1, <3>1, <3>2 DEF TypeOK
  <2>2. QED
    BY <1>2, <2>1
<1>6. CASE DOMAIN plan[c] # {} /\ ~editing[c]
  <2>1. DOMAIN plan[c] \in SUBSET Rows
    BY <1>4
  <2>2. \A r \in DOMAIN plan[c] : rows[r] = Absent
    BY <1>1, <1>6 DEF PlanMatchesRows
  <2>3. \A r \in DOMAIN plan[c] : rows'[r] # Absent /\ rows'[r].status = "held"
    BY <1>6, CommitWrites, RowFields
  <2>4. Promise!Book(DOMAIN plan[c])
    BY <1>2, <1>3, <1>6, <2>2, <2>3, CommitWrites, SameUnits DEF Promise!Book
  <2>5. QED
    BY <2>1, <2>4 DEF Promise!Next
<1>7. CASE DOMAIN plan[c] # {} /\ editing[c]
  <2>1. PICK r \in DOMAIN plan[c] : TRUE
    BY <1>7
  <2>2. /\ DOMAIN plan[c] = {r} /\ r \in Rows /\ rows[r] # Absent
        /\ rows[r].variation = plan[c][r].variation
    BY <1>1, <1>4, <1>7, <2>1 DEF PlanMatchesRows
  <2>3. /\ rows'[r] \in RowType /\ rows'[r].variation = rows[r].variation
        /\ rows'[r].status = rows[r].status
    BY <1>7, <2>1, <2>2, CommitWrites
  <2>4. rows' = [rows EXCEPT ![r] = rows'[r]]
    <3>1. rows' \in [Rows -> RowType \cup {Absent}]
      BY CommitWrites
    <3>2. \A x \in Rows \ {r} : rows'[x] = rows[x]
      BY <2>2, CommitWrites
    <3>3. QED
      BY <1>1, <3>1, <3>2 DEF TypeOK
  <2>5. Promise!Move(r)
    BY <1>2, <1>3, <2>2, <2>3, <2>4, SameUnits DEF Promise!Move
  <2>6. QED
    BY <2>2, <2>5 DEF Promise!Next
<1>8. QED
  BY <1>5, <1>6, <1>7

\* The counter writes "ended" over "ended", or ends the row.
LEMMA EndKept ==
    ASSUME ReservationInv, NEW r \in Rows, rows[r] # Absent,
           rows' = [rows EXCEPT ![r].status = "ended"],
           UNCHANGED <<ceiling, revived>>
    PROVE  Promise!Next \/ UNCHANGED <<rows, ceiling, revived>>
<1>1. TypeOK /\ rows[r] \in RowType /\ rows[r].status \in {"held", "out", "ended"}
  BY RowOrAbsent, RowFields DEF ReservationInv
<1>2. CASE rows[r].status = "ended"
  <2>1. [rows[r] EXCEPT !.status = "ended"] = rows[r]
    BY <1>1, <1>2 DEF RowType
  <2>2. QED
    BY <1>1, <2>1 DEF TypeOK
<1>3. CASE rows[r].status \in {"held", "out"}
  <2>1. Promise!End(r)
    BY <1>3 DEF Promise!End
  <2>2. QED
    BY <2>1 DEF Promise!Next
<1>4. QED
  BY <1>1, <1>2, <1>3

\* A pickup hands a row over that was held, out already, or had ended.
LEMMA PickUpKept ==
    ASSUME ReservationInv, NEW r \in Rows, PickUp(r)
    PROVE  Promise!Next \/ UNCHANGED <<rows, ceiling, revived>>
<1>1. /\ TypeOK /\ rows[r] \in RowType /\ rows[r].status \in {"held", "out", "ended"}
      /\ rows' = [rows EXCEPT ![r].status = "out"]
      /\ revived' = IF rows[r].status = "ended" THEN revived \cup {r} ELSE revived
      /\ UNCHANGED ceiling
  BY RowOrAbsent, RowFields DEF ReservationInv, PickUp, ApplyLifecycleStatus
<1>2. CASE rows[r].status = "out"
  <2>1. [rows[r] EXCEPT !.status = "out"] = rows[r]
    BY <1>1, <1>2 DEF RowType
  <2>2. QED
    BY <1>1, <1>2, <2>1 DEF TypeOK
<1>3. CASE rows[r].status = "held"
  <2>1. Promise!HandOver(r)
    BY <1>1, <1>3 DEF Promise!HandOver
  <2>2. QED
    BY <2>1 DEF Promise!Next
<1>4. CASE rows[r].status = "ended"
  <2>1. Promise!Revive(r)
    BY <1>1, <1>4 DEF Promise!Revive
  <2>2. QED
    BY <2>1 DEF Promise!Next
<1>5. QED
  BY <1>1, <1>2, <1>3, <1>4

\* Upkeep shows in the calendar only where it adds to the stock.
LEMMA UpkeepKept ==
    ASSUME ReservationInv, ReservationInv', Upkeep
    PROVE  Promise!Next \/ UNCHANGED <<rows, ceiling, revived>>
<1>1. TypeOK /\ TypeOK'
  BY DEF ReservationInv
<1>2. ASSUME NEW v \in Variations,
             OpenTask(v) \/ \E n \in 0..MaxBlocked : CloseTask(v, n)
      PROVE  UNCHANGED <<rows, ceiling, revived>>
  BY <1>2 DEF OpenTask, CloseTask, ApplyLifecycleStatus
<1>3. ASSUME NEW v \in Variations, NEW a \in AttributeType, UpdateVariation(v, a)
      PROVE  Promise!Next \/ UNCHANGED <<rows, ceiling, revived>>
  <2>1. /\ UNCHANGED <<rows, revived>>
        /\ ceiling' = [ceiling EXCEPT ![v] = Larger(@, Stock(a.quantity))]
    BY <1>3 DEF UpdateVariation
  <2>2. Stock(a.quantity) \in Nat /\ ceiling[v] \in Nat
    BY <1>1, ReservationAssumption, StockBounds DEF AttributeType, TypeOK
  <2>3. \A w \in Variations \ {v} : ceiling'[w] = ceiling[w]
    BY <1>1, <2>1 DEF TypeOK
  <2>4. ceiling'[v] = Larger(ceiling[v], Stock(a.quantity))
    BY <1>1, <2>1 DEF TypeOK
  <2>5. CASE ceiling'[v] > ceiling[v]
    <3>1. Promise!Restock(v)
      BY <1>1, <2>1, <2>3, <2>5 DEF TypeOK, Promise!Restock
    <3>2. QED
      BY <3>1 DEF Promise!Next
  <2>6. CASE ~(ceiling'[v] > ceiling[v])
    <3>1. ceiling'[v] = ceiling[v]
      BY <2>2, <2>4, <2>6 DEF Larger
    <3>2. ceiling' = ceiling
      BY <1>1, <2>3, <3>1 DEF TypeOK
    <3>3. QED
      BY <2>1, <3>2
  <2>7. QED
    BY <2>5, <2>6
<1>4. QED
  BY <1>2, <1>3 DEF Upkeep

\* Every step is one of the calendar's, or changes nothing it shows.
LEMMA StepKept ==
    ASSUME ReservationInv, [Next]_vars
    PROVE  Promise!Next \/ UNCHANGED <<rows, ceiling, revived>>
<1>1. CASE Requests
  <2>1. UNCHANGED <<ceiling, revived>>
    BY <1>1, RequestsKeepInv DEF history
  <2>2. QED
    BY <1>1, <2>1, RequestsKeepInv, CommitKept
<1>2. ASSUME NEW r \in Rows, Cancel(r) \/ \E tasks \in 0..2 : Return(r, tasks)
      PROVE  Promise!Next \/ UNCHANGED <<rows, ceiling, revived>>
  <2>1. rows[r] # Absent
    BY <1>2 DEF Cancel, Return, ReservationInv, TypeOK, HistoryOK, Absent
  <2>2. /\ rows' = [rows EXCEPT ![r].status = "ended"]
        /\ UNCHANGED <<ceiling, revived>>
    BY <1>2 DEF Cancel, Return, ApplyLifecycleStatus, history
  <2>3. QED
    BY <2>1, <2>2, EndKept
<1>3. CASE Upkeep
  BY <1>3, OutsidersKeepInv, UpkeepKept
<1>4. CASE UNCHANGED vars
  BY <1>4 DEF vars, history
<1>5. QED
  BY <1>1, <1>2, <1>3, <1>4, PickUpKept DEF Next, Counter

\* Requests, locks, checks on old readings and writes by id implement the
\* calendar that has none of them.
THEOREM Implements == Spec => KeepsPromise
<1>1. ReservationInv /\ [Next]_vars => [Promise!Next]_(Promise!vars)
  BY StepKept DEF Promise!vars
<1>2. QED
  BY <1>1, InitKept, Safety, PTL DEF Spec, KeepsPromise, Promise!Spec
-----------------------------------------------------------------------------
(* What follows of the days *)

\* A step of the calendar takes no unit on a day that was not taken, or leaves
\* the day within the stock, or revives one row and writes no other.
LEMMA PromisedLoad ==
    ASSUME TypeOK, TypeOK', Promise!Next \/ UNCHANGED <<rows, ceiling, revived>>
    PROVE  /\ \A v \in Variations : ceiling[v] <= ceiling'[v]
           /\ revived \subseteq revived'
           /\ \/ \A v \in Variations, d \in Days :
                    \/ UnitsIn(rows', v, d) \subseteq UnitsIn(rows, v, d)
                    \/ Cardinality(UnitsIn(rows', v, d)) <= ceiling[v]
              \/ \E r \in Rows : /\ Revived(r) /\ r \in revived'
                                 /\ \A x \in Rows \ {r} : rows'[x] = rows[x]
<1>1. \A v \in Variations : ceiling[v] \in Nat /\ ceiling'[v] \in Nat
  BY DEF TypeOK
<1>2. \A v, d : rows' = rows => UnitsIn(rows', v, d) \subseteq UnitsIn(rows, v, d)
  OBVIOUS
<1>3. ASSUME Promise!WithinStock(rows'), UNCHANGED <<ceiling, revived>>
      PROVE  /\ \A v \in Variations : ceiling[v] <= ceiling'[v]
             /\ revived \subseteq revived'
             /\ \A v \in Variations, d \in Days :
                   \/ UnitsIn(rows', v, d) \subseteq UnitsIn(rows, v, d)
                   \/ Cardinality(UnitsIn(rows', v, d)) <= ceiling[v]
  BY <1>1, <1>3, SameUnits DEF Promise!WithinStock
<1>4. ASSUME NEW r \in Rows, NEW s \in {"out", "ended"},
             rows[r].status \in {"held", "out", "ended"},
             rows' = [rows EXCEPT ![r].status = s]
      PROVE  /\ rows'[r].status = s
             /\ \A x \in Rows \ {r} : rows'[x] = rows[x]
             /\ rows[r].status \in {"held", "out"} =>
                   \A v, d : UnitsIn(rows', v, d) \subseteq UnitsIn(rows, v, d)
  <2>1. rows[r] \in RowType
    BY <1>4, RowOrAbsent
  <2>2. \A x \in Rows : WrittenOver(x)
    BY <1>4, <2>1, StatusWritten
  <2>3. rows'[r].status = s /\ \A x \in Rows \ {r} : rows'[x] = rows[x] /\ ~Revived(x)
    BY <1>4, <2>1, StatusWritten
  <2>4. ASSUME rows[r].status \in {"held", "out"}, NEW v, NEW d
        PROVE  UnitsIn(rows', v, d) \subseteq UnitsIn(rows, v, d)
    <3>1. \A x \in Rows : rows'[x].status \in {"held", "out"}
             => /\ rows[x].status \in {"held", "out"}
                /\ rows[x].variation = rows'[x].variation
                /\ rows[x].from = rows'[x].from /\ rows[x].to = rows'[x].to
                /\ rows[x].qty = rows'[x].qty
      BY <2>2, <2>3, <2>4, RowWrittenOver DEF Revived
    <3>2. QED
      BY <3>1, RowByRow
  <2>5. QED
    BY <2>3, <2>4
<1>5. ASSUME NEW r \in Rows, Promise!HandOver(r) \/ Promise!End(r)
      PROVE  /\ UNCHANGED <<ceiling, revived>>
             /\ \A v, d : UnitsIn(rows', v, d) \subseteq UnitsIn(rows, v, d)
  BY <1>4, <1>5 DEF Promise!HandOver, Promise!End
<1>6. ASSUME NEW r \in Rows, Promise!Revive(r)
      PROVE  /\ UNCHANGED ceiling /\ revived \subseteq revived' /\ r \in revived'
             /\ Revived(r) /\ \A x \in Rows \ {r} : rows'[x] = rows[x]
  BY <1>4, <1>6 DEF Promise!Revive, Revived
<1>7. ASSUME NEW v \in Variations, Promise!Restock(v)
      PROVE  /\ \A w \in Variations : ceiling[w] <= ceiling'[w]
             /\ UNCHANGED <<rows, revived>>
  BY <1>1, <1>7 DEF Promise!Restock
<1>8. CASE \/ \E S \in SUBSET Rows : Promise!Book(S)
           \/ \E r \in Rows : Promise!Move(r)
  BY <1>3, <1>8 DEF Promise!Book, Promise!Move
<1>9. CASE \E r \in Rows : Promise!HandOver(r) \/ Promise!End(r)
  BY <1>1, <1>5, <1>9
<1>10. CASE \E r \in Rows : Promise!Revive(r)
  BY <1>1, <1>6, <1>10
<1>11. CASE \E v \in Variations : Promise!Restock(v)
  BY <1>2, <1>7, <1>11
<1>12. CASE UNCHANGED <<rows, ceiling, revived>>
  BY <1>1, <1>2, <1>12
<1>13. QED
  BY <1>8, <1>9, <1>10, <1>11, <1>12 DEF Promise!Next

\* Such a step leaves the rows that never were revived within the stock.
LEMMA OnlyRevivedStep ==
    ASSUME ReservationInv, OnlyRevivedOversell, [Next]_vars
    PROVE  OnlyRevivedOversell'
<1>1. TypeOK /\ TypeOK'
  BY NextKeepsInv DEF ReservationInv
<1>2. \A v \in Variations : /\ ceiling[v] \in Nat /\ ceiling'[v] \in Nat
                            /\ ceiling[v] <= ceiling'[v]
  BY <1>1, StepKept, PromisedLoad DEF TypeOK
<1>3. ASSUME NEW v \in Variations, NEW d \in Days
      PROVE  Cardinality({u \in UnitsIn(rows', v, d) : u[1] \notin revived'})
                <= ceiling'[v]
  <2> DEFINE kept == {u \in UnitsIn(rows, v, d) : u[1] \notin revived}
             left == {u \in UnitsIn(rows', v, d) : u[1] \notin revived'}
  <2>1. IsFiniteSet(UnitsIn(rows, v, d)) /\ IsFiniteSet(UnitsIn(rows', v, d))
    BY UnitsCount
  <2>2. kept \in SUBSET UnitsIn(rows, v, d) /\ left \in SUBSET UnitsIn(rows', v, d)
    OBVIOUS
  <2>3. /\ IsFiniteSet(kept) /\ Cardinality(left) \in Nat /\ Cardinality(kept) \in Nat
        /\ Cardinality(left) <= Cardinality(UnitsIn(rows', v, d))
    <3> HIDE DEF kept, left
    <3>1. QED
      BY <2>1, <2>2, FS_Subset, FS_CardinalityType
  <2>4. Cardinality(kept) <= ceiling[v]
    BY DEF OnlyRevivedOversell
  <2>5. revived \subseteq revived'
    BY <1>1, StepKept, PromisedLoad
  <2>6. CASE left \subseteq kept
    <3> HIDE DEF kept, left
    <3>1. Cardinality(left) <= Cardinality(kept)
      BY <2>3, <2>6, FS_Subset
    <3>2. QED
      BY <1>2, <2>3, <2>4, <3>1 DEF left
  <2>7. CASE Cardinality(UnitsIn(rows', v, d)) <= ceiling[v]
    <3>1. Cardinality(UnitsIn(rows', v, d)) \in Nat
      BY UnitsCount
    <3> HIDE DEF kept
    <3>2. QED
      BY <1>2, <2>3, <2>7, <3>1
  <2>8. CASE UnitsIn(rows', v, d) \subseteq UnitsIn(rows, v, d)
    BY <2>5, <2>6, <2>8
  <2>9. CASE \E r \in Rows : /\ Revived(r) /\ r \in revived'
                             /\ \A x \in Rows \ {r} : rows'[x] = rows[x]
    <3>1. ASSUME NEW u \in left
          PROVE  u \in kept
      <4>1. u \in Rows \X (1..MaxQty) /\ u[1] \in Rows /\ u[1] \notin revived
        BY <2>5 DEF UnitsIn
      <4>2. rows'[u[1]] = rows[u[1]]
        BY <2>9, <4>1
      <4>3. u \in UnitsIn(rows, v, d)
        BY <4>1, <4>2 DEF UnitsIn
      <4>4. QED
        BY <4>1, <4>3
    <3>2. QED
      BY <2>6, <3>1
  <2>10. QED
    BY <1>1, <2>7, <2>8, <2>9, StepKept, PromisedLoad
<1>4. QED
  BY <1>3 DEF OnlyRevivedOversell

\* Days are oversold, if at all, by rows that a pickup wrote back after they
\* had ended: all others fit the stock the shop has had, on every day.
THEOREM OversoldByTheRevived == Spec => []OnlyRevivedOversell
<1>1. ASSUME Init
      PROVE  OnlyRevivedOversell
  <2>1. \A v \in Variations : ceiling[v] \in Nat
    BY <1>1, InitInv DEF ReservationInv, TypeOK
  <2>2. ASSUME NEW v, NEW d
        PROVE  {u \in UnitsIn(rows, v, d) : u[1] \notin revived} = {}
    BY <1>1 DEF Init, UnitsIn, Absent
  <2>3. QED
    BY <2>1, <2>2, FS_EmptySet DEF OnlyRevivedOversell
<1>2. ReservationInv /\ OnlyRevivedOversell /\ [Next]_vars => OnlyRevivedOversell'
  BY OnlyRevivedStep
<1>3. QED
  BY <1>1, <1>2, Safety, PTL DEF Spec

\* As long as nothing is revived, no day is oversold.
THEOREM UnlessRevived == Spec => [](revived = {} => NeverOversold)
<1>1. ASSUME OnlyRevivedOversell, revived = {}
      PROVE  NeverOversold
  <2>1. \A v, d : {u \in UnitsIn(rows, v, d) : u[1] \notin revived}
                    = UnitsIn(rows, v, d)
    BY <1>1
  <2>2. QED
    BY <1>1, <2>1 DEF OnlyRevivedOversell, NeverOversold
<1>2. QED
  BY <1>1, OversoldByTheRevived, PTL
-----------------------------------------------------------------------------
(* The counter, split where the code splits it *)

\* Whoever is at the counter is there for one of the rows.
AtTheDesk == desk \in [Hands -> Requested \cup {Nothing}]

\* Each step is one of Reservation, or none that Reservation knows of.
LEMMA DeskStep ==
    ASSUME AtTheDesk, [DeskNext]_allVars
    PROVE  AtTheDesk' /\ [Next]_vars
<1>1. ASSUME NEW h \in Hands, NEW r \in Rows,
             NEW op \in {"pickup", "return", "cancel"}, Ask(h, op, r)
      PROVE  AtTheDesk' /\ UNCHANGED vars
  <2>1. [op |-> op, row |-> r] \in Requested
    BY DEF Requested
  <2>2. QED
    BY <1>1, <2>1 DEF Ask, AtTheDesk
<1>2. ASSUME NEW h \in Hands, Done(h)
      PROVE  AtTheDesk'
  BY <1>2 DEF Done, AtTheDesk
<1>3. ASSUME NEW h \in Hands, desk[h] # Nothing
      PROVE  desk[h].row \in Rows
  BY <1>3 DEF AtTheDesk, Requested
<1>4. ASSUME NEW h \in Hands,
             \/ WritePickup(h)
             \/ \E tasks \in 0..2 : WriteReturn(h, tasks)
             \/ WriteCancel(h)
      PROVE  AtTheDesk' /\ Next
  <2>1. desk[h].row \in Rows /\ Done(h)
    BY <1>3, <1>4 DEF WritePickup, WriteReturn, WriteCancel, Asked
  <2>2. Counter
    BY <1>4, <2>1 DEF WritePickup, WriteReturn, WriteCancel, Counter
  <2>3. QED
    BY <1>2, <2>1, <2>2 DEF Next
<1>5. CASE (Requests \/ Upkeep) /\ UNCHANGED deskVars
  BY <1>5 DEF Next, deskVars, AtTheDesk
<1>6. CASE \E h \in Hands, r \in Rows :
              ReadForPickup(h, r) \/ ReadForReturn(h, r) \/ ReadForCancel(h, r)
  BY <1>1, <1>6 DEF ReadForPickup, ReadForReturn, ReadForCancel
<1>7. CASE \E h \in Hands : GiveUp(h)
  BY <1>2, <1>7 DEF GiveUp
<1>8. CASE \E today \in Days : MarkOverdueItems(today)
  BY <1>8 DEF MarkOverdueItems, AtTheDesk
<1>9. CASE UNCHANGED allVars
  BY <1>9 DEF allVars, deskVars, AtTheDesk
<1>10. QED
  BY <1>4, <1>5, <1>6, <1>7, <1>8, <1>9 DEF DeskNext

\* Nobody is at the counter of an empty calendar.
LEMMA DeskInitial == DeskInit => AtTheDesk
BY DEF DeskInit, AtTheDesk

\* However the counter's reads and writes fall between each other and between
\* the steps of booking requests, they are those of Reservation.
THEOREM DeskIsReservation == DeskSpec => Spec /\ []AtTheDesk
<1>1. DeskInit => Init
  BY DEF DeskInit
<1>2. AtTheDesk /\ [DeskNext]_allVars => AtTheDesk' /\ [Next]_vars
  BY DeskStep
<1>3. QED
  BY <1>1, <1>2, DeskInitial, PTL DEF DeskSpec, Spec

\* Rows that are there and not written at the counter keep their status.
LEMMA BehindKeepsStatus ==
    ASSUME ReservationInv, Requests \/ Upkeep, NEW r \in Rows, rows[r] # Absent
    PROVE  rows'[r] # Absent /\ rows'[r].status = rows[r].status
<1>1. CASE Requests
  BY <1>1, RequestsKeepInv
<1>2. CASE Upkeep
  BY <1>2 DEF Upkeep, OpenTask, CloseTask, UpdateVariation
<1>3. QED
  BY <1>1, <1>2

\* Only rows that are out are overdue, whatever is written over them.
LEMMA DeskTypes ==
    ASSUME ReservationInv, AtTheDesk, DeskTypeOK, [DeskNext]_allVars
    PROVE  DeskTypeOK'
<1>1. /\ TypeOK /\ late \subseteq {x \in Rows : rows[x].status = "out"}
      /\ taken \in [Rows -> Nat] /\ received \in [Rows -> Nat]
  BY DEF DeskTypeOK
<1>2. TypeOK' /\ AtTheDesk'
  BY DeskStep, NextKeepsInv DEF ReservationInv
<1>3. ASSUME NEW h \in Hands,
             \/ WritePickup(h)
             \/ \E tasks \in 0..2 : WriteReturn(h, tasks)
             \/ WriteCancel(h)
      PROVE  DeskTypeOK'
  <2> DEFINE r == desk[h].row
  <2>1. r \in Rows /\ late' = late \ {r}
    BY <1>3 DEF WritePickup, WriteReturn, WriteCancel, Asked, AtTheDesk, Requested
  <2>2. taken' \in [Rows -> Nat] /\ received' \in [Rows -> Nat]
    BY <1>1, <1>3, <2>1 DEF WritePickup, WriteReturn, WriteCancel
  <2>3. \E s \in {"out", "ended"} : rows' = [rows EXCEPT ![r].status = s]
    BY <1>3 DEF WritePickup, WriteReturn, WriteCancel, PickUp, Return, Cancel
  <2>4. \A x \in Rows \ {r} : rows'[x] = rows[x]
    BY <1>1, <2>1, <2>3 DEF TypeOK
  <2>5. late' \subseteq {x \in Rows : rows'[x].status = "out"}
    BY <1>1, <2>1, <2>4
  <2>6. QED
    BY <1>2, <2>2, <2>5 DEF DeskTypeOK, AtTheDesk
<1>4. ASSUME late' \subseteq {x \in Rows : rows[x].status = "out"},
             UNCHANGED <<taken, received>>,
             UNCHANGED rows \/ Requests \/ Upkeep
      PROVE  DeskTypeOK'
  <2>1. ASSUME NEW x \in Rows, rows[x].status = "out"
        PROVE  rows'[x].status = "out"
    BY <1>4, <2>1, BehindKeepsStatus DEF Absent
  <2>2. late' \subseteq {x \in Rows : rows'[x].status = "out"}
    BY <1>4, <2>1
  <2>3. QED
    BY <1>1, <1>2, <1>4, <2>2 DEF DeskTypeOK, AtTheDesk
<1>5. CASE (Requests \/ Upkeep) /\ UNCHANGED deskVars
  BY <1>1, <1>4, <1>5 DEF deskVars
<1>6. CASE \E h \in Hands, r \in Rows :
              ReadForPickup(h, r) \/ ReadForReturn(h, r) \/ ReadForCancel(h, r)
  BY <1>1, <1>4, <1>6 DEF ReadForPickup, ReadForReturn, ReadForCancel, Ask, vars
<1>7. CASE \E h \in Hands : GiveUp(h)
  BY <1>1, <1>4, <1>7 DEF GiveUp, vars
<1>8. CASE \E today \in Days : MarkOverdueItems(today)
  BY <1>1, <1>4, <1>8 DEF MarkOverdueItems, vars
<1>9. CASE UNCHANGED allVars
  BY <1>1, <1>4, <1>9 DEF allVars, deskVars, vars
<1>10. QED
  BY <1>3, <1>5, <1>6, <1>7, <1>8, <1>9 DEF DeskNext

\* Every variable keeps its type, and only rows that are out are overdue.
THEOREM DeskTypeCorrect == DeskSpec => []DeskTypeOK
<1>1. DeskInit => DeskTypeOK
  BY InitInv, DeskInitial DEF DeskInit, ReservationInv, DeskTypeOK, AtTheDesk
<1>2. ReservationInv /\ AtTheDesk /\ DeskTypeOK /\ [DeskNext]_allVars => DeskTypeOK'
  BY DeskTypes
<1>3. QED
  BY <1>1, <1>2, DeskIsReservation, Safety, PTL DEF DeskSpec

\* What a booking request's check found to fit still fits when it commits,
\* whatever the counter writes in between: to revive a row of a variation the
\* counter waits for the lock that the request holds.
THEOREM DeskChecksStayTrue == DeskSpec => []CheckStillHolds
BY DeskIsReservation, ChecksStayTrue, PTL

\* With any number of hands, the counter and the requests make nothing but
\* steps of the calendar.
THEOREM DeskImplements == DeskSpec => KeepsPromise
BY DeskIsReservation, Implements, PTL

\* No step takes a day beyond the stock but one that revives an ended row.
THEOREM OnlyRevivalOverloads == DeskSpec => BookingNeverOverloads
<1> DEFINE Loads ==
      \A v \in Variations, d \in Days :
         LET load == Cardinality(UnitsIn(rows, v, d))
         IN  load' > load /\ load' > ceiling'[v]
               => \E r \in Rows : rows[r].status = "ended" /\ rows'[r].status = "out"
<1>1. ASSUME ReservationInv, AtTheDesk, [DeskNext]_allVars
      PROVE  Loads
  <2>1. TypeOK /\ TypeOK' /\ [Next]_vars
    BY <1>1, DeskStep, NextKeepsInv DEF ReservationInv
  <2>2. CASE \E r \in Rows : Revived(r)
    BY <2>2 DEF Revived
  <2>3. CASE ~\E r \in Rows : Revived(r)
    <3> SUFFICES ASSUME NEW v \in Variations, NEW d \in Days
                 PROVE  ~(/\ Cardinality(UnitsIn(rows', v, d))
                               > Cardinality(UnitsIn(rows, v, d))
                          /\ Cardinality(UnitsIn(rows', v, d)) > ceiling'[v])
      OBVIOUS
    <3>1. ceiling[v] \in Nat /\ ceiling'[v] \in Nat /\ ceiling[v] <= ceiling'[v]
      BY <1>1, <2>1, StepKept, PromisedLoad DEF TypeOK
    <3>2. \/ UnitsIn(rows', v, d) \subseteq UnitsIn(rows, v, d)
          \/ Cardinality(UnitsIn(rows', v, d)) <= ceiling[v]
      BY <1>1, <2>1, <2>3, StepKept, PromisedLoad
    <3>3. QED
      BY <3>1, <3>2, FewerUnits, UnitsCount
  <2>4. QED
    BY <2>2, <2>3
<1>2. ReservationInv /\ AtTheDesk /\ [DeskNext]_allVars => [Loads]_allVars
  BY <1>1
<1>3. QED
  BY <1>2, DeskIsReservation, Safety, PTL DEF DeskSpec, BookingNeverOverloads
-----------------------------------------------------------------------------
(* What refusing a revival would restore *)

\* A step that revives no row adds nothing to the history of revivals.
LEMMA NothingRevived ==
    ASSUME ReservationInv, AtTheDesk, [DeskNext]_allVars, \A r \in Rows : ~Revived(r)
    PROVE  revived' = revived
<1>1. ReservationInv /\ [Next]_vars
  BY DeskStep
<1>2. ASSUME NEW r \in Rows, PickUp(r)
      PROVE  revived' = revived
  <2>1. TypeOK /\ rows[r] \in RowType
    BY <1>2, RowOrAbsent DEF ReservationInv, PickUp
  <2>2. rows'[r].status = "out"
    BY <1>2, <2>1, StatusWritten DEF PickUp
  <2>3. rows[r].status # "ended"
    BY <2>2 DEF Revived
  <2>4. QED
    BY <1>2, <2>3 DEF PickUp
<1>3. CASE Requests
  BY <1>1, <1>3, RequestsKeepInv DEF history
<1>4. CASE Upkeep
  BY <1>4 DEF Upkeep, OpenTask, CloseTask, UpdateVariation
<1>5. CASE \E r \in Rows : Cancel(r) \/ \E tasks \in 0..2 : Return(r, tasks)
  BY <1>5 DEF Cancel, Return, history
<1>6. CASE UNCHANGED vars
  BY <1>6 DEF vars, history
<1>7. QED
  BY <1>1, <1>2, <1>3, <1>4, <1>5, <1>6 DEF Next, Counter

\* If a pickup looked again at the item before writing it, and gave up on one
\* that has ended meanwhile, no day would ever be oversold, with any number of
\* hands and clerks: nothing else the counter decides on old rows, old stock or
\* an old status of the variation oversells one.
THEOREM RefusingNeverOversells ==
    DeskSpec /\ [][\A r \in Rows : ~Revived(r)]_allVars => []NeverOversold
<1>1. DeskInit => revived = {}
  BY DEF DeskInit, Init
<1>2. /\ ReservationInv /\ AtTheDesk /\ revived = {} /\ [DeskNext]_allVars
      /\ [\A r \in Rows : ~Revived(r)]_allVars
      => (revived = {})'
  <2>1. CASE UNCHANGED allVars
    BY <2>1 DEF allVars, vars, history
  <2>2. QED
    BY <2>1, NothingRevived
<1>3. QED
  BY <1>1, <1>2, DeskIsReservation, Safety, UnlessRevived, PTL DEF DeskSpec

\* One request at the counter at a time.
OneHand == \A g, h \in Hands : g = h

\* What is about to go out is still held.
StillHeld ==
    \A h \in Hands : desk[h] # Nothing /\ desk[h].op = "pickup"
        => rows[desk[h].row].status = "held"

\* With one request at the counter, only that request moves a row on between
\* its own read and write; booking requests change no status.
LEMMA OneHandStep ==
    ASSUME OneHand, ReservationInv, AtTheDesk, StillHeld, [DeskNext]_allVars
    PROVE  StillHeld' /\ \A r \in Rows : ~Revived(r)
<1>1. TypeOK /\ desk \in [Hands -> Requested \cup {Nothing}]
  BY DEF ReservationInv, AtTheDesk
<1>2. ASSUME NEW h \in Hands, desk[h] # Nothing
      PROVE  desk[h].row \in Rows
  BY <1>1, <1>2 DEF Requested
<1>3. ASSUME Requests \/ Upkeep, UNCHANGED deskVars
      PROVE  StillHeld' /\ \A r \in Rows : ~Revived(r)
  <2>1. \A r \in Rows : rows[r] # Absent => rows'[r].status = rows[r].status
    BY <1>3, BehindKeepsStatus
  <2>2. \A r \in Rows : ~Revived(r)
    BY <2>1 DEF Revived, Absent
  <2>3. StillHeld'
    BY <1>2, <1>3, <2>1 DEF StillHeld, deskVars, Absent
  <2>4. QED
    BY <2>2, <2>3
<1>4. ASSUME UNCHANGED rows,
             \A h \in Hands : \/ desk'[h] \in {desk[h], Nothing}
                             \/ \E r \in Rows : ReadForPickup(h, r)
                             \/ desk'[h].op # "pickup"
      PROVE  StillHeld' /\ \A r \in Rows : ~Revived(r)
  <2>1. \A r \in Rows : ~Revived(r)
    BY <1>4 DEF Revived
  <2>2. ASSUME NEW h \in Hands, NEW r \in Rows, ReadForPickup(h, r)
        PROVE  desk'[h].row = r /\ rows[r].status = "held"
    BY <1>1, <2>2 DEF ReadForPickup, Ask
  <2>3. StillHeld'
    BY <1>4, <2>2 DEF StillHeld
  <2>4. QED
    BY <2>1, <2>3
<1>5. ASSUME NEW h \in Hands, NEW s \in {"out", "ended"}, desk[h] # Nothing,
             rows[desk[h].row] # Absent,
             rows' = [rows EXCEPT ![desk[h].row].status = s],
             desk' = [desk EXCEPT ![h] = Nothing],
             s = "out" => desk[h].op = "pickup"
      PROVE  StillHeld' /\ \A r \in Rows : ~Revived(r)
  <2>1. StillHeld'
    BY <1>1, <1>5 DEF StillHeld, OneHand
  <2>2. rows[desk[h].row] \in RowType
    BY <1>1, <1>2, <1>5, RowOrAbsent
  <2>3. /\ rows'[desk[h].row].status = s
        /\ \A x \in Rows \ {desk[h].row} : ~Revived(x)
    BY <1>1, <1>2, <1>5, <2>2, StatusWritten
  <2>4. ~Revived(desk[h].row)
    BY <1>5, <2>3 DEF Revived, StillHeld
  <2>5. QED
    BY <2>1, <2>3, <2>4
<1>6. ASSUME NEW h \in Hands,
             \/ WritePickup(h)
             \/ \E tasks \in 0..2 : WriteReturn(h, tasks)
             \/ WriteCancel(h)
      PROVE  StillHeld' /\ \A r \in Rows : ~Revived(r)
  <2>1. /\ desk[h] # Nothing /\ desk' = [desk EXCEPT ![h] = Nothing]
        /\ rows[desk[h].row] # Absent
        /\ \/ /\ desk[h].op = "pickup"
              /\ rows' = [rows EXCEPT ![desk[h].row].status = "out"]
           \/ rows' = [rows EXCEPT ![desk[h].row].status = "ended"]
    BY <1>1, <1>6 DEF WritePickup, WriteReturn, WriteCancel, Asked, Done,
                      PickUp, Return, Cancel, TypeOK, HistoryOK, Absent
  <2>2. QED
    BY <1>5, <2>1
<1>7. ASSUME NEW h \in Hands, NEW r \in Rows,
             ReadForPickup(h, r) \/ ReadForReturn(h, r) \/ ReadForCancel(h, r)
      PROVE  StillHeld' /\ \A x \in Rows : ~Revived(x)
  <2>1. UNCHANGED rows
    BY <1>7 DEF ReadForPickup, ReadForReturn, ReadForCancel, Ask, vars
  <2>2. ASSUME NEW g \in Hands
        PROVE  \/ desk'[g] \in {desk[g], Nothing}
               \/ \E x \in Rows : ReadForPickup(g, x)
               \/ desk'[g].op # "pickup"
    <3>1. g = h
      BY DEF OneHand
    <3>2. CASE ReadForPickup(h, r)
      BY <3>1, <3>2
    <3>3. CASE ReadForReturn(h, r) \/ ReadForCancel(h, r)
      BY <1>1, <3>1, <3>3 DEF ReadForReturn, ReadForCancel, Ask
    <3>4. QED
      BY <1>7, <3>2, <3>3
  <2>3. QED
    BY <1>4, <2>1, <2>2
<1>8. ASSUME UNCHANGED vars,
             \/ UNCHANGED desk
             \/ \E h \in Hands : desk' = [desk EXCEPT ![h] = Nothing]
      PROVE  StillHeld' /\ \A r \in Rows : ~Revived(r)
  <2>1. \A h \in Hands : desk'[h] \in {desk[h], Nothing}
    BY <1>1, <1>8
  <2>2. QED
    BY <1>4, <1>8, <2>1 DEF vars
<1>9. ASSUME \/ \E h \in Hands : GiveUp(h)
             \/ \E today \in Days : MarkOverdueItems(today)
             \/ UNCHANGED allVars
      PROVE  StillHeld' /\ \A r \in Rows : ~Revived(r)
  BY <1>8, <1>9 DEF GiveUp, Done, MarkOverdueItems, allVars, deskVars
<1>10. QED
  BY <1>3, <1>6, <1>7, <1>9 DEF DeskNext

\* With one request at the counter at a time, beside any number of booking
\* requests, no day is oversold.
THEOREM OneHandNeverOversells ==
    OneHand => (DeskSpec => []NeverOversold)
<1> SUFFICES ASSUME OneHand
             PROVE  DeskSpec => []NeverOversold
  OBVIOUS
<1>1. DeskInit => StillHeld
  BY DEF DeskInit, StillHeld
<1>2. ReservationInv /\ AtTheDesk /\ StillHeld /\ [DeskNext]_allVars
        => StillHeld' /\ [\A r \in Rows : ~Revived(r)]_allVars
  BY OneHandStep
<1>3. DeskSpec => [][\A r \in Rows : ~Revived(r)]_allVars
  BY <1>1, <1>2, DeskIsReservation, Safety, PTL DEF DeskSpec
<1>4. QED
  BY <1>3, RefusingNeverOversells, PTL
=============================================================================
