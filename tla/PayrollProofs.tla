---------------------------- MODULE PayrollProofs -----------------------------
(***************************************************************************)
(* Proofs about Payroll: its types, what a handler may do to a day's times *)
(* and to decided leave, and that a payslip pays what its days come to one *)
(* by one.                                                                 *)
(*                                                                         *)
(* No handler locks what it reads, so each fact is about the requests      *)
(* nobody has written in front of: what they looked at is still so.        *)
(***************************************************************************)
EXTENDS Payroll, MoneyTheorems

\* What a request carries is of the kind its handler loaded.
SeenBy(q) ==
    step[q] # "idle" =>
        /\ seen[q].op \in {"checkOut", "correct"} =>
              seen[q].key \in Days /\ attendance[seen[q].key] # None
        /\ seen[q].op = "correct" => seen[q].new \in Row
        /\ seen[q].op \in {"decide", "withdraw", "remove"} => seen[q].key \in Leaves
        /\ seen[q].op = "decide" => seen[q].new \in {"approved", "rejected"}
        /\ seen[q].op = "payslip" =>
              /\ seen[q].key \in Periods
              /\ step[q] = "loaded" => seen[q].new \in Terms
              /\ step[q] = "calculated" => seen[q].new \in [Figures -> Nat]

\* Before anybody has written in front of q, what it decided by is so.
KnowsBy(q) ==
    step[q] # "idle" /\ q \notin overtaken =>
        /\ seen[q].op = "checkOut" => attendance[seen[q].key].out = None
        /\ seen[q].op = "correct" /\ attendance[seen[q].key].out # None =>
              seen[q].new.out # None
        /\ seen[q].op \in {"decide", "withdraw"} =>
              leave[seen[q].key] # None /\ leave[seen[q].key].status = "pending"

\* The period of a payslip is over, and it is priced by a configuration in force
\* on its last day.
PricedBy(q) ==
    step[q] # "idle" /\ q \notin overtaken /\ seen[q].op = "payslip" =>
        /\ seen[q].key[2] < Today
        /\ \E s \in InForce(seen[q].key[2]) :
              /\ step[q] = "loaded" => seen[q].new = salary[s]
              /\ step[q] = "calculated" =>
                    seen[q].new = Calculated(salary[s], seen[q].key[1], seen[q].key[2])

Shaped == seen = [q \in Requests |->
              [op |-> seen[q].op, key |-> seen[q].key, new |-> seen[q].new]]
Seen   == \A q \in Requests : SeenBy(q)
Knows  == \A q \in Requests : KnowsBy(q)
Priced == \A q \in Requests : PricedBy(q)

PayrollInv == TypeOK /\ Shaped /\ Seen /\ Knows /\ Priced
-----------------------------------------------------------------------------
(* Days and sums *)

\* A later tick is of the same day or a later one.
LEMMA DayOfTick ==
    ASSUME NEW t \in Nat, NEW u \in Nat, t <= u
    PROVE  /\ t \div Ticks \in Nat /\ u \div Ticks \in Nat
           /\ t \div Ticks <= u \div Ticks
<1> Ticks \in Nat \ {0}
  BY PayrollAssumption
<1> DEFINE a == t \div Ticks
           b == u \div Ticks
<1>1. a \in Int /\ b \in Int
  OBVIOUS
<1>2. a * Ticks <= t /\ t < (a + 1) * Ticks
  OBVIOUS
<1>3. b * Ticks <= u /\ u < (b + 1) * Ticks
  OBVIOUS
<1> HIDE DEF a, b
<1>4. a * Ticks < (b + 1) * Ticks
  BY <1>1, <1>2, <1>3
<1>5. a < b + 1
  BY <1>1, <1>4
<1>6. 0 < (a + 1) * Ticks /\ 0 < (b + 1) * Ticks
  BY <1>1, <1>2, <1>3
<1>7. 0 < a + 1 /\ 0 < b + 1
  BY <1>1, <1>6
<1> QED
  BY <1>1, <1>5, <1>7 DEF a, b

\* The days there are.
LEMMA DaysAreFinite == Days \subseteq Nat /\ IsFiniteSet(Days)
<1>1. LastTick \div Ticks \in Nat
  BY PayrollAssumption, DayOfTick
<1> QED
  BY <1>1, FS_Interval DEF Days

\* Today is one of them.
LEMMA TodayIsADay ==
    ASSUME now \in 0..LastTick
    PROVE  Today \in Days
<1>1. now \in Nat /\ LastTick \in Nat /\ now <= LastTick
  BY PayrollAssumption
<1>2. now \div Ticks \in Nat /\ LastTick \div Ticks \in Nat /\ now \div Ticks <= LastTick \div Ticks
  BY <1>1, DayOfTick
<1> QED
  BY <1>2 DEF Today, Days

\* The hours of a present day are numbers.
LEMMA HoursAreNat ==
    ASSUME TypeOK, NEW d \in Days, attendance[d] # None, attendance[d].out # None,
           NEW standard \in Nat
    PROVE  /\ Worked(attendance[d]) \in Nat
           /\ Least(Worked(attendance[d]), standard) \in Nat
           /\ Larger(0, Worked(attendance[d]) - standard) \in Nat
           /\ Larger(0, standard - Worked(attendance[d])) \in Nat
<1>1. attendance[d] \in Row
  BY DEF TypeOK
<1>2. attendance[d].in \in Nat /\ attendance[d].out \in Nat
  BY <1>1, PayrollAssumption DEF Row
<1>3. Worked(attendance[d]) \in Nat
  BY <1>2 DEF Worked, Larger
<1> QED
  BY <1>3 DEF Least, Larger

\* Numbers multiply to numbers.
LEMMA Products ==
    /\ \A a, b \in Nat : a * b \in Nat
    /\ \A a, b, c \in Int : a * (b + c) = a * b + a * c
    /\ \A a \in Int : a * 0 = 0 /\ a * 1 = a
  OBVIOUS

\* The figures of a payslip are numbers.
LEMMA CalculatedType ==
    ASSUME TypeOK, NEW c \in Terms, NEW from, NEW to
    PROVE  Calculated(c, from, to) \in [Figures -> Nat]
<1> DEFINE days       == Walked(c, from, to)
           onLeave    == {d \in days : OnLeave(d)}
           absent     == {d \in days \ onLeave : \/ attendance[d] = None
                                                 \/ attendance[d].status = "absent"}
           incomplete == {d \in days \ (onLeave \cup absent) : attendance[d].out = None}
           present    == days \ (onLeave \cup absent \cup incomplete)
           worked     == [d \in present |-> Worked(attendance[d])]
           least      == [d \in present |-> Least(worked[d], c.standard)]
           over       == [d \in present |-> Larger(0, worked[d] - c.standard)]
           under      == [d \in present |-> Larger(0, c.standard - worked[d])]
           regular    == c.standard * Cardinality(onLeave) + SumOver(least, present)
           extra      == SumOver(over, present)
           short      == SumOver(under, present)
           net        == c.rate * regular + c.extra * extra
<1>1. c.rate \in Nat /\ c.extra \in Nat /\ c.standard \in Nat
  BY PayrollAssumption
<1>2. /\ days \in SUBSET Days /\ onLeave \in SUBSET Days /\ absent \in SUBSET Days
      /\ incomplete \in SUBSET Days /\ present \in SUBSET Days
  BY DEF Walked
<1>3. \A d \in present : d \in Days /\ attendance[d] # None /\ attendance[d].out # None
  BY <1>2
<1>4. \A d \in present : least[d] \in Nat /\ over[d] \in Nat /\ under[d] \in Nat
  BY <1>1, <1>3, HoursAreNat
<1> HIDE DEF days, onLeave, absent, incomplete, present, worked, least, over, under
<1>5. /\ IsFiniteSet(days) /\ IsFiniteSet(onLeave) /\ IsFiniteSet(absent)
      /\ IsFiniteSet(incomplete) /\ IsFiniteSet(present)
  BY <1>2, DaysAreFinite, FS_Subset
<1>6. /\ Cardinality(days) \in Nat /\ Cardinality(onLeave) \in Nat
      /\ Cardinality(absent) \in Nat /\ Cardinality(incomplete) \in Nat
      /\ Cardinality(present) \in Nat
  BY <1>5, FS_CardinalityType
<1>7. SumOver(least, present) \in Nat
  BY <1>4, <1>5, SumIsNat
<1>8. extra \in Nat
  BY <1>4, <1>5, SumIsNat
<1>9. short \in Nat
  BY <1>4, <1>5, SumIsNat
<1>10. regular \in Nat
  BY <1>1, <1>6, <1>7, Products
<1>11. net \in Nat
  <2> HIDE DEF regular, extra
  <2> QED
    BY <1>1, <1>8, <1>10, Products
<1> HIDE DEF regular, extra, short, net
<1>12. Calculated(c, from, to) =
          [working |-> Cardinality(days), present |-> Cardinality(present),
           onLeave |-> Cardinality(onLeave), incomplete |-> Cardinality(incomplete),
           absent |-> Cardinality(absent), regular |-> regular, extra |-> extra,
           short |-> short, net |-> net]
  BY DEF Calculated, days, onLeave, absent, incomplete, present, worked, least, over, under,
     regular, extra, short, net
<1> QED
  BY <1>6, <1>8, <1>9, <1>10, <1>11, <1>12 DEF Figures
-----------------------------------------------------------------------------
(* The inductive invariant *)

\* What the operators read is the records and the clock.
LEMMA SameRecords ==
    ASSUME UNCHANGED records
    PROVE  /\ attendance' = attendance /\ leave' = leave
           /\ salary' = salary /\ payslip' = payslip
           /\ \A d : InForce(d)' = InForce(d)
           /\ \A d : OnLeave(d)' = OnLeave(d)
<1>1. attendance' = attendance /\ leave' = leave /\ salary' = salary /\ payslip' = payslip
  BY DEF records
<1> QED
  BY <1>1 DEF InForce, OnLeave

\* Of a period that is over another day takes nothing and adds nothing.
LEMMA OverIsOver ==
    ASSUME UNCHANGED records, Today \in Nat, Today' \in Nat, Today <= Today',
           NEW c, NEW from, NEW to \in Nat, to < Today
    PROVE  Calculated(c, from, to)' = Calculated(c, from, to)
<1>1. Walked(c, from, to)' = Walked(c, from, to)
  <2>1. \A d \in Days : d <= to => d <= Today /\ d <= Today'
    BY DaysAreFinite
  <2> QED
    BY <2>1 DEF Walked
<1>2. attendance' = attendance /\ leave' = leave
  BY DEF records
<1> QED
  BY <1>1, <1>2 DEF Calculated, OnLeave

\* Nor does a step that leaves the clock alone.
LEMMA SameCalculation ==
    ASSUME UNCHANGED records, now' = now
    PROVE  \A c, from, to : Calculated(c, from, to)' = Calculated(c, from, to)
<1>1. Today' = Today
  BY DEF Today
<1> SUFFICES ASSUME NEW c, NEW from, NEW to
             PROVE  Calculated(c, from, to)' = Calculated(c, from, to)
  OBVIOUS
<1>2. Walked(c, from, to)' = Walked(c, from, to)
  BY <1>1 DEF Walked
<1>3. attendance' = attendance /\ leave' = leave
  BY DEF records
<1> QED
  BY <1>2, <1>3 DEF Calculated, OnLeave

\* At the start nobody has looked at anything.
LEMMA PayrollInit == Init => PayrollInv
<1> SUFFICES ASSUME Init PROVE PayrollInv
  OBVIOUS
<1>1. TypeOK
  BY PayrollAssumption DEF Init, TypeOK
<1>2. Shaped
  BY DEF Init, Shaped, Nothing
<1>3. Seen /\ Knows /\ Priced
  BY DEF Init, Seen, Knows, Priced, SeenBy, KnowsBy, PricedBy
<1> QED
  BY <1>1, <1>2, <1>3 DEF PayrollInv

\* A step of q that writes nothing concerns q alone.
LEMMA OwnStep ==
    ASSUME PayrollInv, NEW q \in Requests, UNCHANGED records, now' = now,
           \A u \in Requests \ {q} : /\ step'[u] = step[u] /\ seen'[u] = seen[u]
                                     /\ u \in overtaken' <=> u \in overtaken,
           SeenBy(q)', KnowsBy(q)', PricedBy(q)'
    PROVE  Seen' /\ Knows' /\ Priced'
<1>1. ASSUME NEW u \in Requests, u # q
      PROVE  SeenBy(u)' /\ KnowsBy(u)' /\ PricedBy(u)'
  <2>1. step'[u] = step[u] /\ seen'[u] = seen[u] /\ (u \in overtaken' <=> u \in overtaken)
    BY <1>1
  <2>2. SeenBy(u) /\ KnowsBy(u) /\ PricedBy(u)
    BY DEF PayrollInv, Seen, Knows, Priced
  <2>3. SeenBy(u)' /\ KnowsBy(u)'
    BY <2>1, <2>2, SameRecords DEF SeenBy, KnowsBy
  <2>4. Today' = Today
    BY DEF Today
  <2>5. PricedBy(u)'
    BY <2>1, <2>2, <2>4, SameRecords, SameCalculation DEF PricedBy
  <2> QED
    BY <2>3, <2>5
<1> QED
  BY <1>1 DEF Seen, Knows, Priced

\* Whoever writes leaves everybody else overtaken, and no day without its row.
LEMMA Written ==
    ASSUME PayrollInv, NEW q \in Requests \cup {None}, Overtake(q),
           \A u \in Requests : IF u = q THEN step'[u] = "idle"
                               ELSE step'[u] = step[u] /\ seen'[u] = seen[u],
           \A d \in Days : attendance[d] # None => attendance'[d] # None
    PROVE  /\ overtaken' \subseteq {u \in Requests : step'[u] # "idle"}
           /\ Seen' /\ Knows' /\ Priced'
<1>1. ASSUME NEW u \in Requests
      PROVE  u \in overtaken' <=> step'[u] # "idle"
  BY PayrollAssumption DEF Overtake
<1>2. overtaken' \subseteq Requests
  BY DEF Overtake
<1>3. Knows' /\ Priced'
  BY <1>1 DEF Knows, Priced, KnowsBy, PricedBy
<1>4. ASSUME NEW u \in Requests, u # q PROVE SeenBy(u)'
  <2>1. step'[u] = step[u] /\ seen'[u] = seen[u] /\ SeenBy(u)
    BY <1>4 DEF PayrollInv, Seen
  <2> QED
    BY <2>1 DEF SeenBy
<1>5. ASSUME NEW u \in Requests, u = q PROVE SeenBy(u)'
  BY <1>5 DEF SeenBy
<1>6. Seen'
  BY <1>4, <1>5 DEF Seen
<1> QED
  BY <1>1, <1>2, <1>3, <1>6

\* A clock that goes on changes nothing of a period that is over.
LEMMA TickKeepsInv ==
    ASSUME PayrollInv, Tick
    PROVE  PayrollInv'
<1>1. /\ now < LastTick /\ now' = now + 1
      /\ UNCHANGED records /\ step' = step /\ seen' = seen /\ overtaken' = overtaken
      /\ begun' = begun
  BY DEF Tick
<1>2. now \in Nat /\ now' \in Nat /\ now <= now' /\ now' \in 0..LastTick
  BY <1>1, PayrollAssumption DEF PayrollInv, TypeOK
<1>3. Today \in Nat /\ Today' \in Nat /\ Today <= Today'
  BY <1>2, DayOfTick DEF Today
<1>4. TypeOK' /\ Shaped'
  BY <1>1, <1>2, SameRecords DEF PayrollInv, TypeOK, Shaped
<1>5. Seen' /\ Knows'
  BY <1>1, SameRecords DEF PayrollInv, Seen, Knows, SeenBy, KnowsBy
<1>6. ASSUME NEW q \in Requests, step'[q] # "idle", q \notin overtaken', seen'[q].op = "payslip"
      PROVE  /\ seen'[q].key[2] < Today'
             /\ \E s \in InForce(seen[q].key[2])' :
                   /\ step'[q] = "loaded" => seen'[q].new = salary'[s]
                   /\ step'[q] = "calculated" =>
                         seen'[q].new = Calculated(salary[s], seen[q].key[1], seen[q].key[2])'
  <2> DEFINE r == seen[q].key
  <2>1. seen'[q] = seen[q] /\ step'[q] = step[q] /\ r \in Periods
    BY <1>1, <1>6 DEF PayrollInv, Seen, SeenBy
  <2>2. r[2] \in Nat
    BY <2>1, PayrollAssumption, DaysAreFinite
  <2>3. r[2] < Today
    BY <1>1, <1>6, <2>1 DEF PayrollInv, Priced, PricedBy
  <2>4. PICK s \in InForce(r[2]) :
             /\ step[q] = "loaded" => seen[q].new = salary[s]
             /\ step[q] = "calculated" => seen[q].new = Calculated(salary[s], r[1], r[2])
    BY <1>1, <1>6, <2>1 DEF PayrollInv, Priced, PricedBy
  <2>5. \A c : Calculated(c, r[1], r[2])' = Calculated(c, r[1], r[2])
    <3> SUFFICES ASSUME NEW c PROVE Calculated(c, r[1], r[2])' = Calculated(c, r[1], r[2])
      OBVIOUS
    <3>1. r' = r
      BY <2>1
    <3> HIDE DEF r
    <3> QED
      BY <1>1, <1>3, <2>2, <2>3, <3>1, OverIsOver
  <2>6. salary' = salary /\ InForce(r[2])' = InForce(r[2])
    BY <1>1, <2>1, SameRecords
  <2>7. r[2] < Today'
    BY <1>3, <2>2, <2>3
  <2> QED
    BY <2>1, <2>4, <2>5, <2>6, <2>7
<1>7. Priced'
  BY <1>6 DEF Priced, PricedBy
<1> QED
  BY <1>4, <1>5, <1>7 DEF PayrollInv

\* Loading begins a request that nobody has written in front of yet.
LEMMA LoadKeepsInv ==
    ASSUME PayrollInv, NEW q \in Requests, NEW op, NEW key, NEW new, Load(q, op, key, new),
           op \in {"checkOut", "correct"} => key \in Days /\ attendance[key] # None,
           op = "checkOut" => attendance[key].out = None,
           op = "correct" => new \in Row /\ (attendance[key].out # None => new.out # None),
           op \in {"decide", "withdraw", "remove"} => key \in Leaves,
           op = "decide" => new \in {"approved", "rejected"},
           op \in {"decide", "withdraw"} => leave[key] # None /\ leave[key].status = "pending",
           op = "payslip" => /\ key \in Periods /\ new \in Terms /\ key[2] < Today
                             /\ \E s \in InForce(key[2]) : new = salary[s]
    PROVE  PayrollInv'
<1> DEFINE what == [op |-> op, key |-> key, new |-> new]
<1>1. /\ step[q] = "idle" /\ step' = [step EXCEPT ![q] = "loaded"]
      /\ seen' = [seen EXCEPT ![q] = what]
      /\ begun < MaxBegun /\ begun' = begun + 1
      /\ now' = now /\ UNCHANGED records /\ overtaken' = overtaken
  BY DEF Load, Begin
<1>2. what.op = op /\ what.key = key /\ what.new = new
  OBVIOUS
<1>3. seen = [u \in Requests |-> seen[u]]
  BY DEF PayrollInv, Shaped
<1>4. Shaped'
  <2>1. \A u \in Requests : seen'[u] = [op |-> seen'[u].op, key |-> seen'[u].key,
                                        new |-> seen'[u].new]
    <3>1. ASSUME NEW u \in Requests, u # q
          PROVE  seen'[u] = [op |-> seen'[u].op, key |-> seen'[u].key, new |-> seen'[u].new]
      <4>1. seen'[u] = seen[u]
        BY <1>1, <1>3, <3>1
      <4> QED
        BY <4>1 DEF PayrollInv, Shaped
    <3>2. seen'[q] = what
      BY <1>1, <1>3
    <3> QED
      BY <3>1, <3>2
  <2>2. seen' = [u \in Requests |-> seen'[u]]
    BY <1>1, <1>3
  <2> QED
    BY <2>1, <2>2 DEF Shaped
<1> HIDE DEF what
<1>5. step'[q] = "loaded" /\ seen'[q] = what /\ q \notin overtaken'
  BY <1>1, <1>3 DEF PayrollInv, TypeOK
<1>6. TypeOK'
  <2>1. begun' \in 0..MaxBegun
    BY <1>1, PayrollAssumption DEF PayrollInv, TypeOK
  <2> QED
    BY <1>1, <2>1, SameRecords DEF PayrollInv, TypeOK
<1>7. \A u \in Requests \ {q} : /\ step'[u] = step[u] /\ seen'[u] = seen[u]
                                /\ u \in overtaken' <=> u \in overtaken
  BY <1>1, <1>3 DEF PayrollInv, TypeOK
<1>8. attendance' = attendance /\ leave' = leave /\ salary' = salary
      /\ InForce(key[2])' = InForce(key[2]) /\ Today' = Today
  BY <1>1, SameRecords DEF Today
<1>9. SeenBy(q)'
  BY <1>2, <1>5, <1>8 DEF SeenBy
<1>10. KnowsBy(q)'
  BY <1>2, <1>5, <1>8 DEF KnowsBy
<1>11. PricedBy(q)'
  BY <1>2, <1>5, <1>8 DEF PricedBy, InForce
<1>12. Seen' /\ Knows' /\ Priced'
  BY <1>1, <1>7, <1>9, <1>10, <1>11, OwnStep
<1> QED
  BY <1>4, <1>6, <1>12 DEF PayrollInv

\* The handlers decide by what they load.
LEMMA LoadsKeepInv ==
    ASSUME PayrollInv, NEW q \in Requests,
           \/ LoadCheckIn(q)
           \/ LoadCheckOut(q)
           \/ \E d \in Days, status \in {"present", "absent"} :
                 \E in, out \in TimesOf(d) \cup {None} : LoadCorrection(q, d, in, out, status)
           \/ \E l \in Leaves, verdict \in {"approved", "rejected"} :
                 LoadDecision(q, l, verdict)
           \/ \E l \in Leaves, op \in {"withdraw", "remove"} : LoadWithdrawal(q, l, op)
           \/ \E r \in Periods : LoadPayslip(q, r)
    PROVE  PayrollInv'
<1>1. CASE LoadCheckIn(q)
  <2>1. Load(q, "checkIn", None, None)
    BY <1>1 DEF LoadCheckIn
  <2> QED
    BY <2>1, LoadKeepsInv
<1>2. CASE LoadCheckOut(q)
  <2>1. /\ Load(q, "checkOut", Today, None) /\ attendance[Today] # None
        /\ attendance[Today].out = None
    BY <1>2 DEF LoadCheckOut
  <2>2. Today \in Days
    BY TodayIsADay DEF PayrollInv, TypeOK
  <2> DEFINE key == Today
  <2> HIDE DEF key
  <2>3. Load(q, "checkOut", key, None) /\ attendance[key] # None /\ attendance[key].out = None
        /\ key \in Days
    BY <2>1, <2>2 DEF key
  <2> QED
    BY <2>3, LoadKeepsInv
<1>3. ASSUME NEW d \in Days, NEW status \in {"present", "absent"},
             NEW in \in TimesOf(d) \cup {None}, NEW out \in TimesOf(d) \cup {None},
             LoadCorrection(q, d, in, out, status)
      PROVE  PayrollInv'
  <2> DEFINE row == attendance[d]
             new == [in |-> IF in = None THEN row.in ELSE in,
                     out |-> IF out = None THEN row.out ELSE out, status |-> status]
  <2>1. row # None /\ Load(q, "correct", d, new)
    BY <1>3 DEF LoadCorrection
  <2>2. row \in Row
    BY <2>1 DEF PayrollInv, TypeOK
  <2>3. new \in Row
    BY <2>2 DEF Row, TimesOf
  <2>4. row.out # None => new.out # None
    OBVIOUS
  <2> HIDE DEF new
  <2> QED
    BY <2>1, <2>3, <2>4, LoadKeepsInv
<1>4. ASSUME NEW l \in Leaves, NEW verdict \in {"approved", "rejected"},
             LoadDecision(q, l, verdict)
      PROVE  PayrollInv'
  <2>1. leave[l] # None /\ leave[l].status = "pending" /\ Load(q, "decide", l, verdict)
    BY <1>4 DEF LoadDecision
  <2> QED
    BY <2>1, LoadKeepsInv
<1>5. ASSUME NEW l \in Leaves, LoadWithdrawal(q, l, "withdraw") PROVE PayrollInv'
  <2>1. leave[l] # None /\ leave[l].status = "pending" /\ Load(q, "withdraw", l, None)
    BY <1>5 DEF LoadWithdrawal
  <2> QED
    BY <2>1, LoadKeepsInv
<1>6. ASSUME NEW l \in Leaves, LoadWithdrawal(q, l, "remove") PROVE PayrollInv'
  <2>1. Load(q, "remove", l, None)
    BY <1>6 DEF LoadWithdrawal
  <2> QED
    BY <2>1, LoadKeepsInv
<1>7. ASSUME NEW r \in Periods, LoadPayslip(q, r) PROVE PayrollInv'
  <2>1. r[2] < Today /\ \E s \in InForce(r[2]) : Load(q, "payslip", r, salary[s])
    BY <1>7 DEF LoadPayslip
  <2>2. PICK s \in InForce(r[2]) : Load(q, "payslip", r, salary[s])
    BY <2>1
  <2> DEFINE new == salary[s]
  <2>3. new \in Terms
    BY <2>2 DEF InForce, PayrollInv, TypeOK
  <2>4. \E t \in InForce(r[2]) : new = salary[t]
    BY <2>2
  <2>5. Load(q, "payslip", r, new)
    BY <2>2
  <2> HIDE DEF new
  <2> QED
    BY <2>1, <2>3, <2>4, <2>5, LoadKeepsInv
<1> QED
  BY <1>1, <1>2, <1>3, <1>4, <1>5, <1>6, <1>7

\* A payslip is calculated from what is recorded now.
LEMMA CalculateKeepsInv ==
    ASSUME PayrollInv, NEW q \in Requests, Calculate(q)
    PROVE  PayrollInv'
<1> DEFINE r    == seen[q].key
           was  == seen[q].new
           new  == Calculated(was, r[1], r[2])
           what == [op |-> "payslip", key |-> r, new |-> new]
<1>1. /\ step[q] = "loaded" /\ seen[q].op = "payslip"
      /\ step' = [step EXCEPT ![q] = "calculated"]
      /\ now' = now /\ UNCHANGED records /\ overtaken' = overtaken /\ begun' = begun
  BY DEF Calculate
<1>2. seen = [u \in Requests |-> seen[u]]
  BY DEF PayrollInv, Shaped
<1>3. r \in Periods /\ was \in Terms
  BY <1>1 DEF PayrollInv, Seen, SeenBy
<1>4. new \in [Figures -> Nat]
  BY <1>3, CalculatedType DEF PayrollInv
<1>5. seen' = [seen EXCEPT ![q] = what]
  <2>1. seen' = [seen EXCEPT ![q].new = new]
    BY <1>2 DEF Calculate
  <2>2. seen[q] = [op |-> "payslip", key |-> r, new |-> was]
    BY <1>1 DEF PayrollInv, Shaped
  <2> HIDE DEF r, was, new
  <2>3. [seen[q] EXCEPT !.new = new] = what
    BY <2>2
  <2> QED
    BY <2>1, <2>3
<1>6. what.op = "payslip" /\ what.key = r /\ what.new = new
  OBVIOUS
<1>7. seen'[q] = what /\ step'[q] = "calculated"
      /\ \A u \in Requests \ {q} : seen'[u] = seen[u] /\ step'[u] = step[u]
  BY <1>1, <1>2, <1>5 DEF PayrollInv, TypeOK
<1>8. Shaped'
  <2>1. \A u \in Requests : seen'[u] = [op |-> seen'[u].op, key |-> seen'[u].key,
                                        new |-> seen'[u].new]
    <3>1. ASSUME NEW u \in Requests, u # q
          PROVE  seen'[u] = [op |-> seen'[u].op, key |-> seen'[u].key, new |-> seen'[u].new]
      <4>1. seen'[u] = seen[u]
        BY <1>7, <3>1
      <4> QED
        BY <4>1 DEF PayrollInv, Shaped
    <3> QED
      BY <1>7, <3>1
  <2>2. seen' = [u \in Requests |-> seen'[u]]
    BY <1>2, <1>5
  <2> QED
    BY <2>1, <2>2 DEF Shaped
<1>9. TypeOK'
  BY <1>1, SameRecords DEF PayrollInv, TypeOK
<1>10. PricedBy(q)
  BY DEF PayrollInv, Priced
<1>11. /\ attendance' = attendance /\ leave' = leave /\ salary' = salary /\ Today' = Today
       /\ InForce(r[2])' = InForce(r[2])
  <2>1. r' = r
    BY <1>6, <1>7
  <2> HIDE DEF r
  <2> QED
    BY <1>1, <2>1, SameRecords DEF Today
<1>12. \A c : Calculated(c, r[1], r[2])' = Calculated(c, r[1], r[2])
  <2>1. r' = r
    BY <1>6, <1>7
  <2> HIDE DEF r
  <2> QED
    BY <1>1, <2>1, SameCalculation
<1> HIDE DEF what, new
<1>13. SeenBy(q)' /\ KnowsBy(q)'
  BY <1>3, <1>4, <1>6, <1>7 DEF SeenBy, KnowsBy
<1>14. PricedBy(q)'
  BY <1>1, <1>6, <1>7, <1>10, <1>11, <1>12 DEF PricedBy, new
<1>15. Seen' /\ Knows' /\ Priced'
  BY <1>1, <1>7, <1>13, <1>14, OwnStep
<1> QED
  BY <1>8, <1>9, <1>15 DEF PayrollInv

\* Whoever gives up knows nothing more.
LEMMA GiveUpKeepsInv ==
    ASSUME PayrollInv, NEW q \in Requests, GiveUp(q)
    PROVE  PayrollInv'
<1>1. /\ step' = [step EXCEPT ![q] = "idle"] /\ seen' = [seen EXCEPT ![q] = Nothing]
      /\ overtaken' = overtaken \ {q}
      /\ now' = now /\ UNCHANGED records /\ begun' = begun
  BY DEF GiveUp
<1>2. step'[q] = "idle"
      /\ \A u \in Requests \ {q} : /\ step'[u] = step[u] /\ seen'[u] = seen[u]
                                   /\ u \in overtaken' <=> u \in overtaken
  BY <1>1 DEF PayrollInv, TypeOK, Shaped
<1>3. TypeOK'
  BY <1>1, SameRecords DEF PayrollInv, TypeOK
<1>4. Shaped'
  BY <1>1 DEF PayrollInv, Shaped, Nothing
<1>5. SeenBy(q)' /\ KnowsBy(q)' /\ PricedBy(q)'
  BY <1>2 DEF SeenBy, KnowsBy, PricedBy
<1>6. Seen' /\ Knows' /\ Priced'
  BY <1>1, <1>2, <1>5, OwnStep
<1> QED
  BY <1>3, <1>4, <1>6 DEF PayrollInv

\* A request that has written is done; what is left to show is that the records
\* are typed and no day lost its row.
LEMMA FinishKeepsInv ==
    ASSUME PayrollInv, NEW q \in Requests, NEW op, Finish(q, op),
           attendance' \in [Days -> Row \cup {None}],
           leave' \in [Leaves -> LeaveRow \cup {None}],
           salary' \in [Salaries -> Terms \cup {None}],
           payslip' \in [Periods -> [Figures -> Nat] \cup {None}],
           \A d \in Days : attendance[d] # None => attendance'[d] # None
    PROVE  PayrollInv'
<1>1. /\ step' = [step EXCEPT ![q] = "idle"] /\ seen' = [seen EXCEPT ![q] = Nothing]
      /\ Overtake(q) /\ now' = now /\ begun' = begun
  BY DEF Finish
<1>2. \A u \in Requests : IF u = q THEN step'[u] = "idle"
                          ELSE step'[u] = step[u] /\ seen'[u] = seen[u]
  BY <1>1 DEF PayrollInv, TypeOK, Shaped
<1>3. Shaped'
  BY <1>1 DEF PayrollInv, Shaped, Nothing
<1>4. overtaken' \subseteq {u \in Requests : step'[u] # "idle"} /\ Seen' /\ Knows' /\ Priced'
  BY <1>1, <1>2, Written
<1>5. TypeOK'
  BY <1>1, <1>4 DEF PayrollInv, TypeOK
<1> QED
  BY <1>3, <1>4, <1>5 DEF PayrollInv

\* What the handlers write is typed, and a day keeps its row.
LEMMA WritesKeepInv ==
    ASSUME PayrollInv, NEW q \in Requests,
           \/ CheckIn(q) \/ CheckOut(q) \/ CorrectAttendance(q)
           \/ DecideLeave(q) \/ DeleteLeave(q) \/ SavePayslip(q)
    PROVE  PayrollInv'
<1>1. /\ attendance \in [Days -> Row \cup {None}] /\ leave \in [Leaves -> LeaveRow \cup {None}]
      /\ salary \in [Salaries -> Terms \cup {None}]
      /\ payslip \in [Periods -> [Figures -> Nat] \cup {None}] /\ now \in 0..LastTick
      /\ SeenBy(q)
  BY DEF PayrollInv, TypeOK, Seen
<1>2. None \notin Row /\ None \notin LeaveRow
  BY PayrollAssumption
<1>3. CASE CheckIn(q)
  <2>1. [in |-> now, out |-> None, status |-> "present"] \in Row
    BY <1>1 DEF Row
  <2>2. /\ attendance' = [attendance EXCEPT ![Today] =
                             [in |-> now, out |-> None, status |-> "present"]]
        /\ attendance[Today] = None /\ Finish(q, "checkIn")
        /\ leave' = leave /\ salary' = salary /\ payslip' = payslip
    BY <1>3 DEF CheckIn
  <2> QED
    BY <1>1, <2>1, <2>2, FinishKeepsInv
<1>4. CASE CheckOut(q)
  <2> DEFINE d == seen[q].key
             after == [attendance[d] EXCEPT !.out = now]
  <2>1. /\ attendance' = [attendance EXCEPT ![d].out = now] /\ Finish(q, "checkOut")
        /\ leave' = leave /\ salary' = salary /\ payslip' = payslip
    BY <1>4 DEF CheckOut
  <2>2. d \in Days /\ attendance[d] # None
    BY <1>1, <2>1 DEF Finish, SeenBy
  <2>3. attendance[d] \in Row
    BY <1>1, <2>2
  <2>4. after \in Row
    BY <1>1, <2>3 DEF Row
  <2>5. attendance' = [attendance EXCEPT ![d] = after]
    BY <1>1, <2>1
  <2> HIDE DEF d, after
  <2>6. attendance' \in [Days -> Row \cup {None}]
        /\ \A e \in Days : attendance[e] # None => attendance'[e] # None
    BY <1>1, <1>2, <2>4, <2>5
  <2> QED
    BY <1>1, <2>1, <2>6, FinishKeepsInv
<1>5. CASE CorrectAttendance(q)
  <2> DEFINE d == seen[q].key
             after == seen[q].new
  <2>1. /\ attendance' = [attendance EXCEPT ![d] = after] /\ Finish(q, "correct")
        /\ leave' = leave /\ salary' = salary /\ payslip' = payslip
    BY <1>5 DEF CorrectAttendance
  <2>2. d \in Days /\ after \in Row
    BY <1>1, <2>1 DEF Finish, SeenBy
  <2> HIDE DEF d, after
  <2>3. attendance' \in [Days -> Row \cup {None}]
        /\ \A e \in Days : attendance[e] # None => attendance'[e] # None
    BY <1>1, <1>2, <2>1, <2>2
  <2> QED
    BY <1>1, <2>1, <2>3, FinishKeepsInv
<1>6. CASE DecideLeave(q)
  <2> DEFINE l == seen[q].key
             after == IF leave[l] = None THEN None ELSE [leave[l] EXCEPT !.status = seen[q].new]
  <2>1. /\ leave' = [leave EXCEPT ![l] = after] /\ Finish(q, "decide")
        /\ attendance' = attendance /\ salary' = salary /\ payslip' = payslip
    BY <1>6 DEF DecideLeave
  <2>2. l \in Leaves /\ seen[q].new \in {"approved", "rejected"}
    BY <1>1, <2>1 DEF Finish, SeenBy
  <2>3. after \in LeaveRow \cup {None}
    BY <1>1, <2>2 DEF LeaveRow
  <2> HIDE DEF l, after
  <2>4. leave' \in [Leaves -> LeaveRow \cup {None}]
    BY <1>1, <2>1, <2>3
  <2> QED
    BY <1>1, <2>1, <2>4, FinishKeepsInv
<1>7. CASE DeleteLeave(q)
  <2>1. /\ leave' = [leave EXCEPT ![seen[q].key] = None]
        /\ attendance' = attendance /\ salary' = salary /\ payslip' = payslip
        /\ \E op \in {"withdraw", "remove"} : Finish(q, op)
    BY <1>7 DEF DeleteLeave
  <2>2. leave' \in [Leaves -> LeaveRow \cup {None}]
    BY <1>1, <2>1
  <2> QED
    BY <1>1, <2>1, <2>2, FinishKeepsInv
<1>8. CASE SavePayslip(q)
  <2> DEFINE r == seen[q].key
             new == seen[q].new
  <2>1. /\ payslip' = [payslip EXCEPT ![r] = new] /\ Finish(q, "payslip")
        /\ attendance' = attendance /\ salary' = salary /\ leave' = leave
    BY <1>8 DEF SavePayslip
  <2>2. step[q] = "calculated" /\ seen[q].op = "payslip"
    BY <2>1 DEF Finish
  <2>3. new \in [Figures -> Nat]
    BY <1>1, <2>2 DEF SeenBy
  <2> HIDE DEF r, new
  <2>4. payslip' \in [Periods -> [Figures -> Nat] \cup {None}]
    BY <1>1, <2>1, <2>3
  <2> QED
    BY <1>1, <2>1, <2>4, FinishKeepsInv
<1> QED
  BY <1>3, <1>4, <1>5, <1>6, <1>7, <1>8

\* The single statements overtake everybody in flight.
LEMMA StatementKeepsInv ==
    ASSUME PayrollInv, Statement,
           leave' \in [Leaves -> LeaveRow \cup {None}],
           salary' \in [Salaries -> Terms \cup {None}]
    PROVE  PayrollInv'
<1>1. /\ begun < MaxBegun /\ begun' = begun + 1 /\ Overtake(None)
      /\ now' = now /\ step' = step /\ seen' = seen
      /\ attendance' = attendance /\ payslip' = payslip
  BY DEF Statement, Begin
<1>2. overtaken' \subseteq {u \in Requests : step'[u] # "idle"} /\ Seen' /\ Knows' /\ Priced'
  <2>1. \A u \in Requests : u # None
    BY PayrollAssumption
  <2> QED
    BY <1>1, <2>1, Written
<1>3. begun' \in 0..MaxBegun
  BY <1>1, PayrollAssumption DEF PayrollInv, TypeOK
<1>4. TypeOK' /\ Shaped'
  BY <1>1, <1>2, <1>3 DEF PayrollInv, TypeOK, Shaped
<1> QED
  BY <1>2, <1>4 DEF PayrollInv

\* They keep the types of the records.
LEMMA StatementsKeepInv ==
    ASSUME PayrollInv,
           \/ \E l \in Leaves, from, to \in Days : CreateLeave(l, from, to)
           \/ \E s \in Salaries, terms \in Terms : PutSalary(s, terms)
           \/ \E s \in Salaries : DeleteSalary(s)
    PROVE  PayrollInv'
<1>1. leave \in [Leaves -> LeaveRow \cup {None}] /\ salary \in [Salaries -> Terms \cup {None}]
  BY DEF PayrollInv, TypeOK
<1>2. ASSUME NEW l \in Leaves, NEW from \in Days, NEW to \in Days, CreateLeave(l, from, to)
      PROVE  PayrollInv'
  <2>1. [from |-> from, to |-> to, status |-> "pending"] \in LeaveRow
    BY DEF LeaveRow
  <2> QED
    BY <1>1, <1>2, <2>1, StatementKeepsInv DEF CreateLeave
<1>3. ASSUME NEW s \in Salaries, NEW terms \in Terms, PutSalary(s, terms) PROVE PayrollInv'
  BY <1>1, <1>3, StatementKeepsInv DEF PutSalary
<1>4. ASSUME NEW s \in Salaries, DeleteSalary(s) PROVE PayrollInv'
  BY <1>1, <1>4, StatementKeepsInv DEF DeleteSalary
<1> QED
  BY <1>1, <1>2, <1>3, <1>4

\* Every step keeps the invariant.
LEMMA NextKeepsInv == PayrollInv /\ [Next]_vars => PayrollInv'
<1> SUFFICES ASSUME PayrollInv, [Next]_vars PROVE PayrollInv'
  OBVIOUS
<1>1. ASSUME NEW q \in Requests, Handle(q) PROVE PayrollInv'
  BY <1>1, LoadsKeepInv, CalculateKeepsInv, WritesKeepInv, GiveUpKeepsInv DEF Handle
<1>2. CASE UNCHANGED vars
  <2>1. /\ now' = now /\ UNCHANGED records /\ step' = step /\ seen' = seen
        /\ overtaken' = overtaken /\ begun' = begun
    BY <1>2 DEF vars
  <2>2. TypeOK' /\ Shaped' /\ Seen' /\ Knows'
    BY <2>1, SameRecords DEF PayrollInv, TypeOK, Shaped, Seen, SeenBy, Knows, KnowsBy
  <2>3. Today' = Today
    BY <2>1 DEF Today
  <2>4. Priced'
    BY <2>1, <2>3, SameRecords, SameCalculation DEF PayrollInv, Priced, PricedBy
  <2> QED
    BY <2>2, <2>4 DEF PayrollInv
<1> QED
  BY <1>1, <1>2, TickKeepsInv, StatementsKeepInv DEF Next

\* Every behaviour keeps it.
THEOREM PayrollInvHolds == Spec => []PayrollInv
  BY PayrollInit, NextKeepsInv, PTL DEF Spec

\* The records and the requests are always typed; every figure of every payslip
\* is a natural number, so that no check-out before a check-in and no short day
\* takes money away.
THEOREM TypeCorrect == Spec => []TypeOK
<1>1. PayrollInv => TypeOK
  BY DEF PayrollInv
<1> QED
  BY <1>1, PayrollInvHolds, PTL
-----------------------------------------------------------------------------
(* What a step may do to a day's times and to decided leave *)

\* Which actions write which records.
LEMMA WhoWrites ==
    ASSUME Next
    PROVE  /\ \/ attendance' = attendance
              \/ \E q \in Requests : CheckIn(q) \/ CheckOut(q) \/ CorrectAttendance(q)
           /\ \/ leave' = leave
              \/ \E q \in Requests : DecideLeave(q) \/ DeleteLeave(q)
              \/ \E l \in Leaves, from, to \in Days : CreateLeave(l, from, to)
           /\ \/ payslip' = payslip
              \/ \E q \in Requests : SavePayslip(q)
<1>1. ASSUME NEW q, NEW op, NEW key, NEW new, Load(q, op, key, new) PROVE UNCHANGED records
  BY <1>1 DEF Load
<1>2. ASSUME NEW q \in Requests,
             \/ LoadCheckIn(q)
             \/ LoadCheckOut(q)
             \/ \E d \in Days, status \in {"present", "absent"} :
                   \E in, out \in TimesOf(d) \cup {None} : LoadCorrection(q, d, in, out, status)
             \/ \E l \in Leaves, verdict \in {"approved", "rejected"} :
                   LoadDecision(q, l, verdict)
             \/ \E l \in Leaves, op \in {"withdraw", "remove"} : LoadWithdrawal(q, l, op)
             \/ \E r \in Periods : LoadPayslip(q, r)
      PROVE  UNCHANGED records
  <2>1. CASE LoadCheckIn(q)
    BY <1>1, <2>1 DEF LoadCheckIn
  <2>2. CASE LoadCheckOut(q)
    BY <1>1, <2>2 DEF LoadCheckOut
  <2>3. ASSUME NEW d, NEW in, NEW out, NEW status, LoadCorrection(q, d, in, out, status)
        PROVE  UNCHANGED records
    BY <1>1, <2>3 DEF LoadCorrection
  <2>4. ASSUME NEW l, NEW verdict, LoadDecision(q, l, verdict) PROVE UNCHANGED records
    BY <1>1, <2>4 DEF LoadDecision
  <2>5. ASSUME NEW l, NEW op, LoadWithdrawal(q, l, op) PROVE UNCHANGED records
    BY <1>1, <2>5 DEF LoadWithdrawal
  <2>6. ASSUME NEW r, LoadPayslip(q, r) PROVE UNCHANGED records
    BY <1>1, <2>6 DEF LoadPayslip
  <2> QED
    BY <1>2, <2>1, <2>2, <2>3, <2>4, <2>5, <2>6
<1>3. ASSUME NEW q \in Requests, Calculate(q) \/ GiveUp(q) PROVE UNCHANGED records
  BY <1>3 DEF Calculate, GiveUp
<1>4. Tick => UNCHANGED records
  BY DEF Tick
<1>5. ASSUME NEW q \in Requests, CheckIn(q) \/ CheckOut(q) \/ CorrectAttendance(q)
      PROVE  leave' = leave /\ payslip' = payslip
  BY <1>5 DEF CheckIn, CheckOut, CorrectAttendance
<1>6. ASSUME NEW q \in Requests, DecideLeave(q) \/ DeleteLeave(q)
      PROVE  attendance' = attendance /\ payslip' = payslip
  BY <1>6 DEF DecideLeave, DeleteLeave
<1>7. ASSUME NEW q \in Requests, SavePayslip(q)
      PROVE  attendance' = attendance /\ leave' = leave
  BY <1>7 DEF SavePayslip
<1>8. Statement => attendance' = attendance /\ payslip' = payslip
  BY DEF Statement
<1>9. ASSUME NEW l, NEW from, NEW to, CreateLeave(l, from, to) PROVE Statement
  BY <1>9 DEF CreateLeave
<1>10. ASSUME NEW s, NEW terms, PutSalary(s, terms) PROVE Statement /\ leave' = leave
  BY <1>10 DEF PutSalary
<1>11. ASSUME NEW s, DeleteSalary(s) PROVE Statement /\ leave' = leave
  BY <1>11 DEF DeleteSalary
<1>12. CASE UNCHANGED records
  BY <1>12, SameRecords
<1>13. CASE \E q \in Requests : Handle(q)
  <2>1. PICK q \in Requests : Handle(q)
    BY <1>13
  <2> QED
    BY <1>2, <1>3, <1>5, <1>6, <1>7, <1>12, <2>1 DEF Handle
<1> QED
  BY <1>4, <1>8, <1>9, <1>10, <1>11, <1>12, <1>13 DEF Next

\* A recorded time is moved by a correction, or by a check-out that found the
\* day open or was overtaken; only an overtaken correction erases a check-out.
THEOREM RecordedTimesStand == Spec => TimesStand
<1> DEFINE Stands(d) ==
      attendance[d] # None /\ attendance'[d] # attendance[d] =>
         /\ attendance'[d] # None
         /\ \E q \in Requests :
               \/ /\ Ends(q, "correct", d)
                  /\ attendance[d].out # None /\ attendance'[d].out = None
                        => q \in overtaken
               \/ /\ Ends(q, "checkOut", d)
                  /\ attendance'[d] = [attendance[d] EXCEPT !.out = now]
                  /\ attendance[d].out = None \/ q \in overtaken
<1>1. ASSUME PayrollInv, PayrollInv', NEW q \in Requests, CheckIn(q), NEW d \in Days
      PROVE  Stands(d)
  <2>1. attendance[Today] = None
        /\ attendance' = [attendance EXCEPT ![Today] =
                             [in |-> now, out |-> None, status |-> "present"]]
    BY <1>1 DEF CheckIn
  <2>2. attendance[d] # None => attendance'[d] = attendance[d]
    BY <1>1, <2>1 DEF PayrollInv, TypeOK
  <2> QED
    BY <2>2
<1>2. ASSUME PayrollInv, NEW q \in Requests, NEW op, Finish(q, op), NEW d \in Days,
             seen[q].key = d
      PROVE  Ends(q, op, d) /\ SeenBy(q) /\ KnowsBy(q) /\ step[q] # "idle" /\ seen[q].op = op
  BY <1>2 DEF Finish, Ends, PayrollInv, TypeOK, Seen, Knows
<1>3. ASSUME PayrollInv, NEW q \in Requests, CheckOut(q), NEW d \in Days
      PROVE  Stands(d)
  <2>1. attendance' = [attendance EXCEPT ![seen[q].key].out = now] /\ Finish(q, "checkOut")
    BY <1>3 DEF CheckOut
  <2>2. CASE seen[q].key # d
    BY <1>3, <2>1, <2>2 DEF PayrollInv, TypeOK
  <2>3. CASE seen[q].key = d
    <3>1. Ends(q, "checkOut", d) /\ SeenBy(q) /\ KnowsBy(q) /\ step[q] # "idle"
          /\ seen[q].op = "checkOut"
      BY <1>2, <1>3, <2>1, <2>3
    <3>2. attendance[d].out = None \/ q \in overtaken
      BY <2>3, <3>1 DEF KnowsBy
    <3>3. attendance[d] \in Row
      BY <1>3, <2>3, <3>1 DEF SeenBy, PayrollInv, TypeOK
    <3>4. attendance'[d] = [attendance[d] EXCEPT !.out = now]
      BY <1>3, <2>1, <2>3 DEF PayrollInv, TypeOK
    <3>5. [attendance[d] EXCEPT !.out = now] \in Row
      BY <1>3, <3>3 DEF Row, PayrollInv, TypeOK
    <3>6. attendance'[d] # None
      BY <3>4, <3>5, PayrollAssumption
    <3> QED
      BY <3>1, <3>2, <3>4, <3>6
  <2> QED
    BY <2>2, <2>3
<1>4. ASSUME PayrollInv, NEW q \in Requests, CorrectAttendance(q), NEW d \in Days
      PROVE  Stands(d)
  <2>1. attendance' = [attendance EXCEPT ![seen[q].key] = seen[q].new] /\ Finish(q, "correct")
    BY <1>4 DEF CorrectAttendance
  <2>2. CASE seen[q].key # d
    BY <1>4, <2>1, <2>2 DEF PayrollInv, TypeOK
  <2>3. CASE seen[q].key = d
    <3>1. Ends(q, "correct", d) /\ SeenBy(q) /\ KnowsBy(q) /\ step[q] # "idle"
          /\ seen[q].op = "correct"
      BY <1>2, <1>4, <2>1, <2>3
    <3>2. attendance'[d] = seen[q].new
      BY <1>4, <2>1, <2>3 DEF PayrollInv, TypeOK
    <3>3. attendance'[d] # None
      BY <3>1, <3>2, PayrollAssumption DEF SeenBy
    <3>4. attendance[d].out # None /\ attendance'[d].out = None => q \in overtaken
      BY <2>3, <3>1, <3>2 DEF KnowsBy
    <3> QED
      BY <3>1, <3>3, <3>4
  <2> QED
    BY <2>2, <2>3
<1>5. PayrollInv /\ PayrollInv' /\ [Next]_vars => [\A d \in Days : Stands(d)]_vars
  <2> SUFFICES ASSUME PayrollInv, PayrollInv', Next PROVE \A d \in Days : Stands(d)
    OBVIOUS
  <2>1. CASE \E q \in Requests : CheckIn(q)
    BY <1>1, <2>1
  <2>2. CASE \E q \in Requests : CheckOut(q)
    BY <1>3, <2>2
  <2>3. CASE \E q \in Requests : CorrectAttendance(q)
    BY <1>4, <2>3
  <2>4. CASE attendance' = attendance
    BY <2>4
  <2> HIDE DEF Stands
  <2> QED
    BY <2>1, <2>2, <2>3, <2>4, WhoWrites
<1> QED
  BY <1>5, PayrollInvHolds, PTL DEF Spec, TimesStand

\* Decided leave is changed by a manager who removes it or by a handler that had
\* loaded it before the decision.
THEOREM DecidedLeaveStays == Spec => DecidedStays
<1> DEFINE Stays(l) ==
      leave[l] # None /\ leave[l].status # "pending" /\ leave'[l] # leave[l] =>
         \E q \in Requests : \/ Ends(q, "remove", l)
                             \/ \E op \in {"decide", "withdraw"} :
                                   Ends(q, op, l) /\ q \in overtaken
<1>1. ASSUME PayrollInv, NEW q \in Requests, NEW op \in {"decide", "withdraw", "remove"},
             Finish(q, op), NEW l \in Leaves, NEW after,
             leave' = [leave EXCEPT ![seen[q].key] = after]
      PROVE  Stays(l)
  <2>1. CASE seen[q].key # l
    BY <1>1, <2>1 DEF PayrollInv, TypeOK
  <2>2. CASE seen[q].key = l
    <3>1. Ends(q, op, l) /\ step[q] # "idle" /\ seen[q].op = op
      BY <1>1, <2>2 DEF Finish, Ends, PayrollInv, TypeOK
    <3>2. q \notin overtaken /\ op \in {"decide", "withdraw"} => leave[l].status = "pending"
      BY <1>1, <2>2, <3>1 DEF PayrollInv, Knows, KnowsBy
    <3> QED
      BY <3>1, <3>2
  <2> QED
    BY <2>1, <2>2
<1>2. ASSUME NEW l \in Leaves, NEW from, NEW to, NEW k \in Leaves, CreateLeave(k, from, to),
             PayrollInv
      PROVE  Stays(l)
  BY <1>2 DEF CreateLeave, PayrollInv, TypeOK
<1>3. PayrollInv /\ [Next]_vars => [\A l \in Leaves : Stays(l)]_vars
  <2> SUFFICES ASSUME PayrollInv, Next PROVE \A l \in Leaves : Stays(l)
    OBVIOUS
  <2>1. ASSUME NEW q \in Requests, DecideLeave(q), NEW l \in Leaves PROVE Stays(l)
    <3> DEFINE k == seen[q].key
               after == IF leave[k] = None THEN None ELSE [leave[k] EXCEPT !.status = seen[q].new]
    <3>1. Finish(q, "decide") /\ leave' = [leave EXCEPT ![k] = after]
      BY <2>1 DEF DecideLeave
    <3> HIDE DEF after, Stays
    <3> QED
      BY <1>1, <3>1
  <2>2. ASSUME NEW q \in Requests, DeleteLeave(q), NEW l \in Leaves PROVE Stays(l)
    <3> HIDE DEF Stays
    <3> QED
      BY <1>1, <2>2 DEF DeleteLeave
  <2>3. CASE \E k \in Leaves, from, to \in Days : CreateLeave(k, from, to)
    BY <1>2, <2>3
  <2>4. CASE leave' = leave
    BY <2>4
  <2> HIDE DEF Stays
  <2> QED
    BY <2>1, <2>2, <2>3, <2>4, WhoWrites
<1> QED
  BY <1>3, PayrollInvHolds, PTL DEF Spec, DecidedStays
-----------------------------------------------------------------------------
(* A payslip pays what its days come to one by one *)

\* The days worked in full, and what a set of days comes to.
Present(d)    == /\ ~OnLeave(d) /\ attendance[d] # None
                 /\ attendance[d].status # "absent" /\ attendance[d].out # None
Hours(c)      == [d \in Days |-> Least(Worked(attendance[d]), c.standard)]
Over(c)       == [d \in Days |-> Larger(0, Worked(attendance[d]) - c.standard)]
PresentIn(D)  == {d \in D : Present(d)}
LeaveIn(D)    == {d \in D : OnLeave(d)}
Regular(c, D) == c.standard * Cardinality(LeaveIn(D)) + SumOver(Hours(c), PresentIn(D))
Extra(c, D)   == SumOver(Over(c), PresentIn(D))
NetOver(c, D) == c.rate * Regular(c, D) + c.extra * Extra(c, D)

\* calculateSalaryForRange pays what the days it walks come to.
LEMMA NetIsOverWalked ==
    ASSUME TypeOK, NEW c \in Terms, NEW from, NEW to
    PROVE  Calculated(c, from, to).net = NetOver(c, Walked(c, from, to))
<1> DEFINE days       == Walked(c, from, to)
           onLeave    == {d \in days : OnLeave(d)}
           absent     == {d \in days \ onLeave : \/ attendance[d] = None
                                                 \/ attendance[d].status = "absent"}
           incomplete == {d \in days \ (onLeave \cup absent) : attendance[d].out = None}
           present    == days \ (onLeave \cup absent \cup incomplete)
           worked     == [d \in present |-> Worked(attendance[d])]
           least      == [d \in present |-> Least(worked[d], c.standard)]
           over       == [d \in present |-> Larger(0, worked[d] - c.standard)]
           regular    == c.standard * Cardinality(onLeave) + SumOver(least, present)
           extra      == SumOver(over, present)
<1>1. Calculated(c, from, to).net = c.rate * regular + c.extra * extra
  BY DEF Calculated
<1>2. onLeave = LeaveIn(days) /\ present = PresentIn(days)
  BY DEF LeaveIn, PresentIn, Present
<1>3. days \in SUBSET Days /\ present \in SUBSET Days
  BY DEF Walked
<1>4. \A d \in present : least[d] = Hours(c)[d] /\ over[d] = Over(c)[d]
  BY <1>3 DEF Hours, Over
<1> HIDE DEF days, onLeave, absent, incomplete, present, worked, least, over
<1>5. IsFiniteSet(present)
  BY <1>3, DaysAreFinite, FS_Subset
<1>6. SumOver(least, present) = SumOver(Hours(c), present)
  BY <1>4, <1>5, SumAgree
<1>7. SumOver(over, present) = SumOver(Over(c), present)
  BY <1>4, <1>5, SumAgree
<1> QED
  BY <1>1, <1>2, <1>6, <1>7 DEF NetOver, Regular, Extra, days

\* Nothing is paid for no days.
LEMMA NetOfNothing ==
    ASSUME NEW c \in Terms
    PROVE  NetOver(c, {}) = 0
<1>1. LeaveIn({}) = {} /\ PresentIn({}) = {}
  BY DEF LeaveIn, PresentIn
<1>2. Cardinality({}) = 0
  BY FS_EmptySet
<1>3. c.rate \in Nat /\ c.extra \in Nat /\ c.standard \in Nat
  BY PayrollAssumption
<1>4. SumOver(Hours(c), PresentIn({})) = 0 /\ SumOver(Over(c), PresentIn({})) = 0
  BY <1>1, SumEmpty
<1>5. Cardinality(LeaveIn({})) = 0
  BY <1>1, <1>2
<1>6. Regular(c, {}) = 0 /\ Extra(c, {}) = 0
  BY <1>3, <1>4, <1>5, Products DEF Regular, Extra
<1> QED
  BY <1>3, <1>6, Products DEF NetOver

\* What is added for one day does not depend on the others.
LEMMA NetOfADay ==
    ASSUME TypeOK, NEW c \in Terms, NEW D \in SUBSET Days, NEW d \in D
    PROVE  /\ NetOver(c, D) = NetOver(c, {d}) + NetOver(c, D \ {d})
           /\ NetOver(c, D) \in Int /\ NetOver(c, {d}) \in Int
<1>1. c.rate \in Nat /\ c.extra \in Nat /\ c.standard \in Nat
  BY PayrollAssumption
<1> DEFINE rest == D \ {d}
<1>2. IsFiniteSet(D) /\ IsFiniteSet(rest) /\ IsFiniteSet({d})
  BY DaysAreFinite, FS_Subset
<1>3. ASSUME NEW E \in SUBSET Days
      PROVE  /\ \A x \in PresentIn(E) : Hours(c)[x] \in Int /\ Over(c)[x] \in Int
             /\ IsFiniteSet(PresentIn(E)) /\ IsFiniteSet(LeaveIn(E))
             /\ Cardinality(LeaveIn(E)) \in Nat
             /\ SumOver(Hours(c), PresentIn(E)) \in Int
             /\ SumOver(Over(c), PresentIn(E)) \in Int
             /\ Regular(c, E) \in Int /\ Extra(c, E) \in Int /\ NetOver(c, E) \in Int
  <2>1. \A x \in PresentIn(E) : x \in Days /\ attendance[x] # None /\ attendance[x].out # None
    BY DEF PresentIn, Present
  <2>2. \A x \in PresentIn(E) : Hours(c)[x] \in Int /\ Over(c)[x] \in Int
    BY <1>1, <2>1, HoursAreNat DEF Hours, Over
  <2>3. PresentIn(E) \in SUBSET Days /\ LeaveIn(E) \in SUBSET Days
    BY DEF PresentIn, LeaveIn
  <2>4. IsFiniteSet(PresentIn(E)) /\ IsFiniteSet(LeaveIn(E)) /\ Cardinality(LeaveIn(E)) \in Nat
    BY <2>3, DaysAreFinite, FS_Subset, FS_CardinalityType
  <2>5. SumOver(Hours(c), PresentIn(E)) \in Int
    BY <2>2, <2>4, SumIsInt
  <2>6. SumOver(Over(c), PresentIn(E)) \in Int
    BY <2>2, <2>4, SumIsInt
  <2>7. Regular(c, E) \in Int /\ Extra(c, E) \in Int
    BY <1>1, <2>4, <2>5, <2>6 DEF Regular, Extra
  <2>8. NetOver(c, E) \in Int
    BY <1>1, <2>7 DEF NetOver
  <2> QED
    BY <2>2, <2>4, <2>5, <2>6, <2>7, <2>8
<1>4. rest \in SUBSET Days /\ {d} \in SUBSET Days
  OBVIOUS
<1> HIDE DEF rest
<1>12. ASSUME NEW E \in SUBSET Days, NEW x \in PresentIn(E)
       PROVE  /\ SumOver(Hours(c), PresentIn(E)) =
                    Hours(c)[x] + SumOver(Hours(c), PresentIn(E) \ {x})
              /\ SumOver(Over(c), PresentIn(E)) =
                    Over(c)[x] + SumOver(Over(c), PresentIn(E) \ {x})
  <2> DEFINE P == PresentIn(E)
             f == Hours(c)
             g == Over(c)
  <2>1. (\A z \in P : f[z] \in Int /\ g[z] \in Int) /\ IsFiniteSet(P) /\ x \in P
    BY <1>3, <1>12
  <2> HIDE DEF P, f, g
  <2>2. SumOver(f, P) = f[x] + SumOver(f, P \ {x})
    BY <2>1, SumRemove
  <2>3. SumOver(g, P) = g[x] + SumOver(g, P \ {x})
    BY <2>1, SumRemove
  <2> QED
    BY <2>2, <2>3 DEF P, f, g
<1>5. Regular(c, D) = Regular(c, {d}) + Regular(c, rest)
  <2>1. CASE Present(d)
    <3>1. /\ LeaveIn(D) = LeaveIn(rest) /\ LeaveIn({d}) = {}
          /\ d \in PresentIn(D) /\ PresentIn(D) \ {d} = PresentIn(rest)
          /\ d \in PresentIn({d}) /\ PresentIn({d}) \ {d} = {}
      BY <2>1 DEF LeaveIn, PresentIn, Present, rest
    <3>2. SumOver(Hours(c), PresentIn(D)) = Hours(c)[d] + SumOver(Hours(c), PresentIn(rest))
      BY <1>12, <3>1
    <3>3. SumOver(Hours(c), PresentIn({d})) = Hours(c)[d] + SumOver(Hours(c), {})
      BY <1>4, <1>12, <3>1
    <3>4. Cardinality(LeaveIn({d})) = 0
      BY <3>1, FS_EmptySet
    <3>5. SumOver(Hours(c), {}) = 0 /\ Hours(c)[d] \in Int
      BY <1>3, <3>1, SumEmpty
    <3> DEFINE h == Hours(c)[d]
               s == SumOver(Hours(c), PresentIn(rest))
               n == c.standard * Cardinality(LeaveIn(rest))
    <3>6. Regular(c, D) = n + (h + s) /\ Regular(c, rest) = n + s
      BY <3>1, <3>2 DEF Regular
    <3>7. Regular(c, {d}) = h
      BY <1>1, <3>3, <3>4, <3>5 DEF Regular
    <3>8. h \in Int /\ s \in Int /\ n \in Int
      BY <1>1, <1>3, <1>4, <3>5
    <3> HIDE DEF h, s, n
    <3> QED
      BY <3>6, <3>7, <3>8
  <2>2. CASE OnLeave(d)
    <3>1. /\ PresentIn(D) = PresentIn(rest) /\ PresentIn({d}) = {}
          /\ d \in LeaveIn(D) /\ LeaveIn(D) \ {d} = LeaveIn(rest) /\ LeaveIn({d}) = {d}
      BY <2>2 DEF LeaveIn, PresentIn, Present, rest
    <3> DEFINE n == Cardinality(LeaveIn(rest))
               s == SumOver(Hours(c), PresentIn(rest))
    <3>2. Cardinality(LeaveIn(D)) = n + 1
      <4>1. IsFiniteSet(LeaveIn(D))
        BY <1>3
      <4>2. Cardinality(LeaveIn(D) \ {d}) = Cardinality(LeaveIn(D)) - 1
        BY <3>1, <4>1, FS_RemoveElement
      <4>3. Cardinality(LeaveIn(D)) \in Nat
        BY <1>3
      <4> DEFINE m == Cardinality(LeaveIn(D))
      <4>4. LeaveIn(D) \ {d} = LeaveIn(rest)
        BY <3>1
      <4>5. n = m - 1 /\ m \in Nat
        BY <4>2, <4>3, <4>4
      <4> HIDE DEF m, n
      <4>6. m = n + 1
        BY <4>5
      <4> QED
        BY <4>6 DEF m
    <3>3. Cardinality(LeaveIn({d})) = 1
      BY <3>1, FS_Singleton
    <3>4. Regular(c, D) = c.standard * (n + 1) + s /\ Regular(c, rest) = c.standard * n + s
      BY <3>1, <3>2 DEF Regular
    <3>5. Regular(c, {d}) = c.standard
      <4>1. SumOver(Hours(c), PresentIn({d})) = 0
        BY <3>1, SumEmpty
      <4> QED
        BY <1>1, <3>3, <4>1, Products DEF Regular
    <3>6. n \in Nat /\ s \in Int
      BY <1>3, <1>4
    <3> HIDE DEF n, s
    <3>7. c.standard * (n + 1) = c.standard * n + c.standard
      <4>1. c.standard * (n + 1) = c.standard * n + c.standard * 1
        BY <1>1, <3>6, Products
      <4>2. c.standard * 1 = c.standard
        BY <1>1
      <4> QED
        BY <4>1, <4>2
    <3>8. c.standard * n \in Int
      BY <1>1, <3>6
    <3> QED
      BY <1>1, <3>4, <3>5, <3>6, <3>7, <3>8
  <2>3. CASE ~Present(d) /\ ~OnLeave(d)
    <3>1. /\ PresentIn(D) = PresentIn(rest) /\ PresentIn({d}) = {}
          /\ LeaveIn(D) = LeaveIn(rest) /\ LeaveIn({d}) = {}
      BY <2>3 DEF LeaveIn, PresentIn, rest
    <3>2. Regular(c, D) = Regular(c, rest)
      BY <3>1 DEF Regular
    <3>3. Regular(c, {d}) = 0
      <4>1. SumOver(Hours(c), PresentIn({d})) = 0 /\ Cardinality(LeaveIn({d})) = 0
        BY <3>1, FS_EmptySet, SumEmpty
      <4> QED
        BY <1>1, <4>1, Products DEF Regular
    <3> QED
      BY <1>3, <1>4, <3>2, <3>3
  <2> QED
    BY <2>1, <2>2, <2>3 DEF Present
<1>6. Extra(c, D) = Extra(c, {d}) + Extra(c, rest)
  <2>1. CASE Present(d)
    <3>1. /\ d \in PresentIn(D) /\ PresentIn(D) \ {d} = PresentIn(rest)
          /\ d \in PresentIn({d}) /\ PresentIn({d}) \ {d} = {}
      BY <2>1 DEF PresentIn, rest
    <3>2. Extra(c, D) = Over(c)[d] + Extra(c, rest)
      BY <1>12, <3>1 DEF Extra
    <3>3. Extra(c, {d}) = Over(c)[d] + SumOver(Over(c), {})
      BY <1>4, <1>12, <3>1 DEF Extra
    <3> QED
      BY <1>3, <1>4, <3>1, <3>2, <3>3, SumEmpty
  <2>2. CASE ~Present(d)
    <3>1. PresentIn(D) = PresentIn(rest) /\ PresentIn({d}) = {}
      BY <2>2 DEF PresentIn, rest
    <3> QED
      BY <1>3, <1>4, <3>1, SumEmpty DEF Extra
  <2> QED
    BY <2>1, <2>2
<1> DEFINE x == Regular(c, {d})
           y == Regular(c, rest)
           u == Extra(c, {d})
           v == Extra(c, rest)
<1>7. x \in Int /\ y \in Int /\ u \in Int /\ v \in Int
  BY <1>3, <1>4
<1>8. /\ NetOver(c, D) = c.rate * (x + y) + c.extra * (u + v)
      /\ NetOver(c, {d}) = c.rate * x + c.extra * u
      /\ NetOver(c, rest) = c.rate * y + c.extra * v
  BY <1>5, <1>6 DEF NetOver
<1> HIDE DEF x, y, u, v
<1>9. c.rate * (x + y) = c.rate * x + c.rate * y /\ c.extra * (u + v) = c.extra * u + c.extra * v
  BY <1>1, <1>7, Products
<1>10. c.rate * x \in Int /\ c.rate * y \in Int /\ c.extra * u \in Int /\ c.extra * v \in Int
  BY <1>1, <1>7
<1>11. NetOver(c, D) = NetOver(c, {d}) + NetOver(c, rest)
  BY <1>8, <1>9, <1>10
<1> QED
  BY <1>3, <1>4, <1>11 DEF rest

\* Of finitely many configurations that are known on a day one is in force.
LEMMA SomethingInForce ==
    ASSUME TypeOK, NEW d \in Days, NEW s \in Salaries, salary[s] # None,
           salary[s].effective <= d
    PROVE  InForce(d) # {}
<1> DEFINE known == {t \in Salaries : salary[t] # None /\ salary[t].effective <= d}
<1>1. \A t \in known : salary[t].effective \in Nat
  BY PayrollAssumption, DaysAreFinite DEF TypeOK
<1>2. IsFiniteSet(known)
  BY PayrollAssumption, FS_Subset
<1>3. \E t \in known : \A u \in known : salary[u].effective <= salary[t].effective
  <2> SUFFICES ASSUME \A t \in known : \E u \in known : ~(salary[u].effective <= salary[t].effective)
               PROVE  FALSE
    OBVIOUS
  <2> DEFINE Later(t) == {u \in known : salary[t].effective < salary[u].effective}
             Bad == {Later(t) : t \in known}
  <2>0. s \in known /\ \A t \in known : Later(t) \in SUBSET known
    OBVIOUS
  <2>1. Bad \in SUBSET (SUBSET known) /\ Bad # {}
    <3> HIDE DEF known, Later
    <3> QED
      BY <2>0
  <2> HIDE DEF Bad
  <2>2. PICK T \in Bad : \A U \in SUBSET T : U # T => U \notin Bad
    BY <1>2, <2>1, Smallest
  <2>3. PICK t \in known : T = Later(t)
    BY <2>2 DEF Bad
  <2>4. PICK u \in known : ~(salary[u].effective <= salary[t].effective)
    OBVIOUS
  <2>5. salary[t].effective < salary[u].effective
    BY <1>1, <2>4
  <2>6. Later(u) \in SUBSET T
    BY <1>1, <2>3, <2>5
  <2>7. u \in T /\ u \notin Later(u)
    BY <1>1, <2>3, <2>5
  <2>8. Later(u) \in Bad
    BY DEF Bad
  <2> QED
    BY <2>2, <2>6, <2>7, <2>8
<1> QED
  BY <1>3 DEF InForce

\* Where one configuration holds throughout a period that is over, what it pays
\* for the period is the sum of what it pays for the days.
LEMMA PaysItsDays ==
    ASSUME TypeOK, NEW r \in Periods, r[2] < Today, NEW s \in InForce(r[2]),
           Cardinality(TermsOver(r)) <= 1
    PROVE  Calculated(salary[s], r[1], r[2]).net
             = SumOver([d \in Days |-> DayNet(d)], r[1]..r[2])
<1> DEFINE c    == salary[s]
           days == r[1]..r[2]
           walk == Walked(c, r[1], r[2])
           paid == [d \in Days |-> DayNet(d)]
           F    == [T \in SUBSET days |-> NetOver(c, walk \cap T)]
<1>1. /\ r[1] \in Days /\ r[2] \in Days /\ r[1] \in Nat /\ r[2] \in Nat /\ r[1] <= r[2]
      /\ r[2] \in days /\ days \in SUBSET Days
  <2>1. r[1] \in Days /\ r[2] \in Days /\ r[1] <= r[2]
    BY PayrollAssumption
  <2>2. r[1] \in Nat /\ r[2] \in Nat
    BY <2>1, DaysAreFinite
  <2>3. LastTick \div Ticks \in Nat
    BY PayrollAssumption, DayOfTick
  <2> QED
    BY <2>1, <2>2, <2>3 DEF Days
<1>2. s \in Salaries /\ c \in Terms /\ c # None /\ c.effective \in Nat /\ c.effective <= r[2]
  <2>1. s \in Salaries /\ c # None /\ c.effective <= r[2]
    BY DEF InForce
  <2>2. c \in Terms
    BY <2>1 DEF TypeOK
  <2> QED
    BY <2>1, <2>2, PayrollAssumption, DaysAreFinite
<1>3. IsFiniteSet(days)
  BY <1>1, DaysAreFinite, FS_Subset
<1>4. Today \in Nat
  BY TodayIsADay, DaysAreFinite DEF TypeOK
<1>5. ASSUME NEW d \in days, NEW t \in InForce(d)
      PROVE  salary[t] = c
  <2>1. TermsOver(r) = {salary[u] : u \in UNION {InForce(e) : e \in days}}
    BY DEF TermsOver
  <2>2. c \in TermsOver(r) /\ salary[t] \in TermsOver(r)
    BY <1>1, <1>5, <2>1
  <2>3. IsFiniteSet(TermsOver(r))
    <3> DEFINE held == UNION {InForce(e) : e \in days}
    <3>1. held \in SUBSET Salaries
      BY DEF InForce
    <3>2. IsFiniteSet(held)
      BY <3>1, PayrollAssumption, FS_Subset
    <3> HIDE DEF held
    <3> DEFINE terms == {salary[u] : u \in held}
               f == [u \in held |-> salary[u]]
    <3>3. f \in Surjection(held, terms)
      BY DEF Surjection
    <3> HIDE DEF f, terms
    <3>4. IsFiniteSet(terms)
      BY <3>2, <3>3, FS_Surjection
    <3> QED
      BY <2>1, <3>4 DEF held, terms
  <2> DEFINE both == {c, salary[t]}
  <2>4. SUFFICES ASSUME salary[t] # c PROVE FALSE
    OBVIOUS
  <2>5. Cardinality(both) = 2 /\ both \in SUBSET TermsOver(r)
    <3>1. IsFiniteSet({c}) /\ Cardinality({c}) = 1
      BY FS_Singleton
    <3>2. salary[t] \notin {c} /\ both = {c} \cup {salary[t]}
      BY <2>4
    <3>3. Cardinality({c} \cup {salary[t]}) = Cardinality({c}) + 1
      BY <3>1, <3>2, FS_AddElement
    <3> QED
      BY <2>2, <3>1, <3>2, <3>3
  <2> HIDE DEF both
  <2>6. Cardinality(both) <= Cardinality(TermsOver(r)) /\ Cardinality(TermsOver(r)) \in Nat
    BY <2>3, <2>5, FS_Subset, FS_CardinalityType
  <2> QED
    BY <2>5, <2>6
<1>6. walk \in SUBSET Days
  BY DEF Walked
<1>7. ASSUME NEW d \in days
      PROVE  paid[d] = NetOver(c, walk \cap {d})
  <2>1. d \in Days /\ d \in Nat /\ d <= r[2] /\ r[1] <= d
    BY <1>1, <1>7, DaysAreFinite
  <2>2. paid[d] = DayNet(d)
    BY <2>1
  <2>3. CASE InForce(d) = {} \/ d < Joined
    <3>1. ~(c.effective <= d) \/ ~(Joined <= d)
      <4>1. CASE InForce(d) = {}
        BY <1>2, <2>1, <4>1, SomethingInForce
      <4>2. CASE d < Joined
        BY <2>1, <4>2, PayrollAssumption, DaysAreFinite
      <4> QED
        BY <2>3, <4>1, <4>2
    <3>2. walk \cap {d} = {}
      BY <3>1 DEF Walked
    <3>3. DayNet(d) = 0
      BY <2>3 DEF DayNet
    <3> HIDE DEF walk, c, paid
    <3> QED
      BY <1>2, <2>2, <3>2, <3>3, NetOfNothing
  <2>4. CASE InForce(d) # {} /\ ~(d < Joined)
    <3>1. salary[CHOOSE t \in InForce(d) : TRUE] = c
      BY <1>5, <1>7, <2>4
    <3>2. DayNet(d) = Calculated(c, d, d).net
      BY <2>4, <3>1 DEF DayNet
    <3>3. Walked(c, d, d) = walk \cap {d}
      <4>1. ASSUME NEW e \in Days
            PROVE  (d <= e /\ e <= d <=> e = d) /\ e \in Nat
        BY <2>1, DaysAreFinite
      <4>2. d <= Today
        BY <1>1, <1>4, <2>1
      <4> QED
        BY <2>1, <4>1, <4>2 DEF Walked
    <3> HIDE DEF walk, c, paid
    <3> QED
      BY <1>2, <2>1, <2>2, <3>2, <3>3, NetIsOverWalked
  <2> QED
    BY <2>3, <2>4
<1> HIDE DEF c, walk, paid, days
<1>8. ASSUME NEW d \in days PROVE paid[d] \in Int
  <2>1. /\ walk \cap {d} = {} \/ walk \cap {d} = {d}
        /\ d \in Days
    BY <1>1, <1>8
  <2>2. d \in Days => NetOver(c, {d}) \in Int
    BY <1>2, NetOfADay
  <2>3. NetOver(c, {}) \in Int
    BY <1>2, NetOfNothing
  <2> QED
    BY <1>7, <1>8, <2>1, <2>2, <2>3
<1>9. F[{}] = 0
  <2>1. F[{}] = NetOver(c, {})
    OBVIOUS
  <2> HIDE DEF F
  <2> QED
    BY <1>2, <2>1, NetOfNothing
<1>10. ASSUME NEW T \in SUBSET days, NEW d \in T
       PROVE  F[T] = paid[d] + F[T \ {d}]
  <2>1. F[T] = NetOver(c, walk \cap T) /\ F[T \ {d}] = NetOver(c, walk \cap (T \ {d}))
    OBVIOUS
  <2>2. paid[d] = NetOver(c, walk \cap {d}) /\ paid[d] \in Int
    BY <1>7, <1>8
  <2> HIDE DEF F
  <2>3. CASE d \in walk
    <3> DEFINE D == walk \cap T
    <3>1. D \in SUBSET Days /\ d \in D /\ walk \cap {d} = {d} /\ walk \cap (T \ {d}) = D \ {d}
      BY <1>6, <2>3
    <3>2. NetOver(c, D) = NetOver(c, {d}) + NetOver(c, D \ {d})
      <4> HIDE DEF D
      <4> QED
        BY <1>2, <3>1, NetOfADay
    <3> QED
      BY <2>1, <2>2, <3>1, <3>2
  <2>4. CASE d \notin walk
    <3>1. walk \cap T = walk \cap (T \ {d}) /\ walk \cap {d} = {}
      BY <2>4
    <3>2. paid[d] = 0 /\ F[T] = F[T \ {d}]
      BY <1>2, <2>1, <2>2, <3>1, NetOfNothing
    <3>3. F[T] \in Int
      <4>1. CASE walk \cap T = {}
        BY <1>2, <2>1, <4>1, NetOfNothing
      <4>2. CASE walk \cap T # {}
        <5> DEFINE D == walk \cap T
        <5>1. PICK e : e \in D
          BY <4>2
        <5>2. D \in SUBSET Days
          BY <1>6
        <5>3. NetOver(c, D) \in Int
          <6> HIDE DEF D
          <6> QED
            BY <1>2, <5>1, <5>2, NetOfADay
        <5> QED
          BY <2>1, <5>3
      <4> QED
        BY <4>1, <4>2
    <3> QED
      BY <3>2, <3>3
  <2> QED
    BY <2>3, <2>4
<1>11. F[days] = SumOver(paid, days)
  <2> HIDE DEF F
  <2> QED
    BY <1>3, <1>8, <1>9, <1>10, SumUnfolds
<1>12. walk \cap days = walk
  BY <1>1 DEF walk, Walked, Days, days
<1>13. F[days] = NetOver(c, walk)
  BY <1>12
<1>14. Calculated(c, r[1], r[2]).net = NetOver(c, walk)
  BY <1>2, NetIsOverWalked DEF walk
<1> QED
  BY <1>11, <1>13, <1>14 DEF c, paid, days

\* Where one configuration holds throughout a period, the payslip saved for it
\* by a request nobody has written in front of pays the sum of its days.
THEOREM PayslipsPayTheirDays == Spec => PaidByTheDay
<1>1. ASSUME PayrollInv, Next, NEW r \in Periods, Cardinality(TermsOver(r)) <= 1,
             NEW q \in Requests \ overtaken, Ends(q, "payslip", r), payslip' # payslip
      PROVE  payslip'[r].net = SumOver([d \in Days |-> DayNet(d)], r[1]..r[2])
  <2>1. PICK p \in Requests : SavePayslip(p)
    BY <1>1, WhoWrites
  <2>2. /\ step[p] = "calculated" /\ seen[p].op = "payslip"
        /\ step' = [step EXCEPT ![p] = "idle"]
        /\ payslip' = [payslip EXCEPT ![seen[p].key] = seen[p].new]
    BY <2>1 DEF SavePayslip, Finish
  <2>3. p = q /\ seen[q].key = r
    BY <1>1, <2>2 DEF Ends, PayrollInv, TypeOK
  <2>4. payslip'[r] = seen[q].new
    BY <1>1, <2>2, <2>3 DEF PayrollInv, TypeOK
  <2>5. PricedBy(q) /\ q \notin overtaken
    BY <1>1 DEF PayrollInv, Priced
  <2>6. PICK s \in InForce(r[2]) :
             r[2] < Today /\ seen[q].new = Calculated(salary[s], r[1], r[2])
    BY <2>2, <2>3, <2>5 DEF PricedBy
  <2>7. Calculated(salary[s], r[1], r[2]).net
          = SumOver([d \in Days |-> DayNet(d)], r[1]..r[2])
    BY <1>1, <2>6, PaysItsDays DEF PayrollInv
  <2> QED
    BY <2>4, <2>6, <2>7
<1>2. PayrollInv /\ [Next]_vars =>
        [\A r \in Periods : Cardinality(TermsOver(r)) <= 1 => PaysByTheDay(r)]_vars
  BY <1>1 DEF PaysByTheDay
<1> QED
  BY <1>2, PayrollInvHolds, PTL DEF Spec, PaidByTheDay
=============================================================================
