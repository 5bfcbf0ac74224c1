--------------------------- MODULE RowLocksProofs ---------------------------
(***************************************************************************)
(* Proofs about RowLocks: no transaction waits for a lock it holds, and no *)
(* circle of waits is made of one family of handlers.                      *)
(*                                                                         *)
(* Both rest on what a transaction has locked and has still to lock being  *)
(* the two halves of one program of its handler, and on programs naming no *)
(* row twice.  Within a family every program locks in one order of the     *)
(* tables, so whoever waits for a row holds only earlier ones; follow the  *)
(* waits of a finite set of transactions, and they must leave it.          *)
(***************************************************************************)
EXTENDS RowLocks, FiniteSetTheorems, SequenceTheorems, TLAPS

\* A sequence of rows that names none of them twice.
Distinct(s) ==
    /\ s \in Seq(Rows)
    /\ \A x, y \in DOMAIN s : s[x] = s[y] => x = y

\* What t holds is the start of program p, and what it wants is the rest.
SplitAt(t, p, k) ==
    /\ Len(wants[t]) = Len(p) - k
    /\ \A n \in 1..Len(wants[t]) : wants[t][n] = p[k + n]
    /\ \A r \in Rows : lock[r] = t <=> \E n \in 1..k : r = p[n]

\* Every open transaction is part of the way through a program.
Underway ==
    \A t \in Transactions : op[t] # "none" =>
        \E p \in Programs(op[t]) : \E k \in 0..Len(p) : SplitAt(t, p, k)

\* Inductive: the types, a closed transaction has no locks and no plans, and
\* an open one is under way.
LocksInv ==
    /\ op \in [Transactions -> Served \cup {"none"}]
    /\ wants \in [Transactions -> Seq(Rows)]
    /\ lock \in [Rows -> Transactions \cup {Nobody}]
    /\ \A t \in Transactions : op[t] = "none" =>
           wants[t] = <<>> /\ \A r \in Rows : lock[r] # t
    /\ Underway
-----------------------------------------------------------------------------
(* Counting members of a finite set by their place in an order *)

\* The members of S that r places before x.
Before(S, r, x) == {y \in S : r[y] < r[x]}

\* Of two members placed apart, the later has more members before it.
LEMMA MoreBefore ==
    ASSUME NEW S, IsFiniteSet(S), NEW r \in [S -> Nat],
           NEW x \in S, NEW z \in S, r[x] < r[z]
    PROVE  /\ Cardinality(Before(S, r, x)) \in Nat
           /\ Cardinality(Before(S, r, z)) \in Nat
           /\ Cardinality(Before(S, r, x)) < Cardinality(Before(S, r, z))
<1>1. /\ Before(S, r, x) \subseteq S
      /\ Before(S, r, z) \subseteq S
      /\ Before(S, r, x) \subseteq Before(S, r, z) \ {x}
      /\ x \in Before(S, r, z)
  BY DEF Before
<1>2. IsFiniteSet(Before(S, r, x)) /\ IsFiniteSet(Before(S, r, z))
  BY <1>1, FS_Subset
<1>3. /\ IsFiniteSet(Before(S, r, z) \ {x})
      /\ Cardinality(Before(S, r, z) \ {x}) = Cardinality(Before(S, r, z)) - 1
  BY <1>1, <1>2, FS_RemoveElement
<1>4. Cardinality(Before(S, r, x)) <= Cardinality(Before(S, r, z) \ {x})
  BY <1>1, <1>3, FS_Subset
<1>5. /\ Cardinality(Before(S, r, x)) \in Nat
      /\ Cardinality(Before(S, r, z)) \in Nat
  BY <1>2, FS_CardinalityType
<1> QED
  BY <1>3, <1>4, <1>5

\* The n-th member in an order with no ties exists, for every n up to the
\* number of members: what FirstAppearances and Sorted choose is there.
LEMMA NthExists ==
    ASSUME NEW S, IsFiniteSet(S), NEW r \in [S -> Nat],
           \A x, z \in S : r[x] = r[z] => x = z
    PROVE  /\ Cardinality(S) \in Nat
           /\ \A n \in 1..Cardinality(S) :
                \E x \in S : Cardinality(Before(S, r, x)) = n - 1
<1> DEFINE k == Cardinality(S)
           places == 0..(k - 1)
           f == [x \in S |-> Cardinality(Before(S, r, x))]
<1>1. k \in Nat
  BY FS_CardinalityType
<1>2. ASSUME NEW x \in S
      PROVE  Cardinality(Before(S, r, x)) \in places
  <2>1. Before(S, r, x) \subseteq S \ {x}
    BY DEF Before
  <2>2. IsFiniteSet(S \ {x}) /\ Cardinality(S \ {x}) = k - 1
    BY FS_RemoveElement
  <2>3. /\ IsFiniteSet(Before(S, r, x))
        /\ Cardinality(Before(S, r, x)) <= k - 1
    BY <2>1, <2>2, FS_Subset
  <2>4. Cardinality(Before(S, r, x)) \in Nat
    BY <2>3, FS_CardinalityType
  <2> QED
    BY <1>1, <2>3, <2>4
<1>3. ASSUME NEW x \in S, NEW z \in S, f[x] = f[z]
      PROVE  x = z
  <2>1. ~(r[x] < r[z]) /\ ~(r[z] < r[x])
    BY <1>3, MoreBefore
  <2>2. r[x] \in Nat /\ r[z] \in Nat
    OBVIOUS
  <2> QED
    BY <2>1, <2>2
<1>4. f \in Injection(S, places)
  <2>1. f \in [S -> places]
    BY <1>2
  <2> QED
    BY <1>3, <2>1 DEF Injection, IsInjective
<1>5. IsFiniteSet(places) /\ Cardinality(places) = k
  BY <1>1, FS_Interval
<1>6. f \in Surjection(S, places)
  BY <1>4, <1>5, FS_Injection
<1>7. ASSUME NEW n \in 1..k
      PROVE  \E x \in S : Cardinality(Before(S, r, x)) = n - 1
  <2>1. n - 1 \in places
    BY <1>1
  <2>2. \E x \in S : f[x] = n - 1
    BY <1>6, <2>1 DEF Surjection
  <2> QED
    BY <2>2
<1> QED
  BY <1>1, <1>7
-----------------------------------------------------------------------------
(* What the handlers lock *)

\* An arrangement is a sequence that names every member once.
LEMMA Arranged ==
    ASSUME NEW S \in SUBSET Rows, IsFiniteSet(S), NEW s \in Arrangements(S)
    PROVE  /\ Distinct(s)
           /\ Len(s) = Cardinality(S)
           /\ \A n \in 1..Len(s) : s[n] \in S
<1>1. Cardinality(S) \in Nat
  BY FS_CardinalityType
<1>2. /\ s \in [1..Cardinality(S) -> S]
      /\ \A x, y \in DOMAIN s : s[x] = s[y] => x = y
  BY DEF Arrangements
<1>3. s \in Seq(Rows) /\ Len(s) = Cardinality(S)
  BY <1>1, <1>2
<1> QED
  BY <1>2, <1>3 DEF Distinct

\* lockVariationsForUpdate has an order to lock a set of variations in.
LEMMA SortedByRank ==
    ASSUME NEW S \in SUBSET Variations
    PROVE  /\ Sorted(S) \in Arrangements(S)
           /\ \A x, y \in DOMAIN Sorted(S) :
                 x < y => Rank[Sorted(S)[x]] < Rank[Sorted(S)[y]]
<1> DEFINE k == Cardinality(S)
           r == [v \in S |-> Rank[v]]
           nth(n) == CHOOSE x \in S : Cardinality(Before(S, r, x)) = n - 1
           s == [n \in 1..k |-> nth(n)]
<1>1. IsFiniteSet(S)
  BY RowLocksAssumption, FS_Subset
<1>2. /\ r \in [S -> Nat]
      /\ \A x, z \in S : r[x] = r[z] => x = z
  BY RowLocksAssumption
<1>3. /\ k \in Nat
      /\ \A n \in 1..k : \E x \in S : Cardinality(Before(S, r, x)) = n - 1
  BY <1>1, <1>2, NthExists
<1>4. ASSUME NEW n \in 1..k
      PROVE  s[n] \in S /\ Cardinality(Before(S, r, s[n])) = n - 1
  BY <1>3
<1>5. ASSUME NEW x \in 1..k, NEW y \in 1..k, x < y
      PROVE  Rank[s[x]] < Rank[s[y]]
  <2>1. /\ s[x] \in S /\ Cardinality(Before(S, r, s[x])) = x - 1
        /\ s[y] \in S /\ Cardinality(Before(S, r, s[y])) = y - 1
    BY <1>4
  <2>2. s[x] # s[y]
    BY <2>1, <1>5
  <2>3. ~(r[s[y]] < r[s[x]])
    <3> SUFFICES ASSUME r[s[y]] < r[s[x]] PROVE FALSE
      OBVIOUS
    <3>1. Cardinality(Before(S, r, s[y])) < Cardinality(Before(S, r, s[x]))
      BY <1>1, <1>2, <2>1, MoreBefore
    <3> QED
      BY <2>1, <3>1, <1>5
  <2>4. r[s[x]] # r[s[y]] /\ r[s[x]] \in Nat /\ r[s[y]] \in Nat
    BY <1>2, <2>1, <2>2
  <2>5. r[s[x]] = Rank[s[x]] /\ r[s[y]] = Rank[s[y]]
    BY <2>1
  <2> QED
    BY <2>3, <2>4, <2>5
<1>6. s \in Arrangements(S)
  <2>1. s \in [1..k -> S]
    BY <1>4
  <2>2. \A x, y \in 1..k : s[x] = s[y] => x = y
    BY <1>3, <1>4
  <2> QED
    BY <2>1, <2>2 DEF Arrangements
<1>7. \A x, y \in DOMAIN s : x < y => Rank[s[x]] < Rank[s[y]]
  BY <1>5
<1> HIDE DEF s
<1> QED
  BY <1>6, <1>7 DEF Sorted

\* The variations of distinct items, first appearances only: none twice.
LEMMA AppearOnce ==
    ASSUME NEW s \in Seq(Items)
    PROVE  /\ FirstAppearances(s) \in Seq(Variations)
           /\ \A m, n \in DOMAIN FirstAppearances(s) :
                 FirstAppearances(s)[m] = FirstAppearances(s)[n] => m = n
<1> DEFINE first(x) == \A y \in 1..(x - 1) : VarOf[s[y]] # VarOf[s[x]]
           firsts   == {x \in DOMAIN s : first(x)}
           nth(n)   == CHOOSE x \in firsts :
                          Cardinality({y \in firsts : y < x}) = n - 1
           k == Cardinality(firsts)
           r == [x \in firsts |-> x]
           seq == [n \in 1..k |-> VarOf[s[nth(n)]]]
<1>1. DOMAIN s = 1..Len(s) /\ Len(s) \in Nat /\ \A x \in 1..Len(s) : s[x] \in Items
  BY ElementOfSeq, LenProperties
<1>2. IsFiniteSet(firsts)
  <2>1. IsFiniteSet(1..Len(s))
    BY <1>1, FS_Interval
  <2> QED
    BY <1>1, <2>1, FS_Subset
<1>3. r \in [firsts -> Nat] /\ \A x, z \in firsts : r[x] = r[z] => x = z
  BY <1>1
<1>4. k \in Nat /\ \A n \in 1..k : \E x \in firsts : Cardinality(Before(firsts, r, x)) = n - 1
  BY <1>2, <1>3, NthExists
<1>5. ASSUME NEW x \in firsts
      PROVE  Before(firsts, r, x) = {y \in firsts : y < x}
  BY DEF Before
<1>6. ASSUME NEW n \in 1..k
      PROVE  nth(n) \in firsts /\ Cardinality({y \in firsts : y < nth(n)}) = n - 1
  <2>1. \E x \in firsts : Cardinality({y \in firsts : y < x}) = n - 1
    BY <1>4, <1>5
  <2> HIDE DEF firsts, k
  <2> QED
    BY <2>1
<1>7. ASSUME NEW a \in firsts, NEW b \in firsts, VarOf[s[a]] = VarOf[s[b]]
      PROVE  a = b
  <2>1. /\ a \in Nat \ {0} /\ first(a)
        /\ b \in Nat \ {0} /\ first(b)
    BY <1>1
  <2> HIDE DEF firsts
  <2>2. a < b => a \in 1..(b - 1)
    BY <2>1
  <2>3. b < a => b \in 1..(a - 1)
    BY <2>1
  <2>4. ~(a < b) /\ ~(b < a)
    BY <1>7, <2>1, <2>2, <2>3
  <2> HIDE DEF first
  <2> QED
    BY <2>1, <2>4
<1>8. ASSUME NEW n \in 1..k
      PROVE  VarOf[s[nth(n)]] \in Variations
  <2>1. nth(n) \in 1..Len(s)
    BY <1>1, <1>6
  <2>2. s[nth(n)] \in Items
    BY <1>1, <2>1
  <2> QED
    BY <2>2, RowLocksAssumption
<1>9. seq \in Seq(Variations) /\ DOMAIN seq = 1..k
  <2>1. seq \in [1..k -> Variations]
    BY <1>8
  <2> HIDE DEF seq, k
  <2> QED
    BY <1>4, <2>1
<1>10. ASSUME NEW m \in 1..k, NEW n \in 1..k, seq[m] = seq[n]
       PROVE  m = n
  <2>1. VarOf[s[nth(m)]] = VarOf[s[nth(n)]]
    BY <1>10
  <2>2. nth(m) = nth(n)
    BY <1>6, <1>7, <2>1
  <2> HIDE DEF nth, firsts, k
  <2>3. m - 1 = n - 1
    BY <1>6, <2>2
  <2> QED
    BY <1>4, <2>3
<1>11. FirstAppearances(s) = seq
  BY DEF FirstAppearances
<1> HIDE DEF seq
<1> QED
  BY <1>9, <1>10, <1>11

\* Two sequences of rows of different tables follow one another.
LEMMA Joined ==
    ASSUME NEW s, NEW u, Distinct(s), Distinct(u),
           \A x \in 1..Len(s), y \in 1..Len(u) : s[x] # u[y]
    PROVE  /\ Distinct(s \o u)
           /\ Len(s \o u) = Len(s) + Len(u)
           /\ \A n \in 1..(Len(s) + Len(u)) :
                 (s \o u)[n] = IF n <= Len(s) THEN s[n] ELSE u[n - Len(s)]
<1>1. s \in Seq(Rows) /\ u \in Seq(Rows)
  BY DEF Distinct
<1>2. /\ s \o u \in Seq(Rows)
      /\ Len(s \o u) = Len(s) + Len(u)
      /\ \A n \in 1..(Len(s) + Len(u)) :
            (s \o u)[n] = IF n <= Len(s) THEN s[n] ELSE u[n - Len(s)]
  BY <1>1, ConcatProperties
<1>3. /\ \A x, y \in 1..Len(s) : s[x] = s[y] => x = y
      /\ \A x, y \in 1..Len(u) : u[x] = u[y] => x = y
      /\ Len(s) \in Nat /\ Len(u) \in Nat
  BY <1>1, LenProperties DEF Distinct
<1>4. ASSUME NEW x \in 1..(Len(s) + Len(u)), NEW y \in 1..(Len(s) + Len(u)),
             (s \o u)[x] = (s \o u)[y]
      PROVE  x = y
  <2>1. CASE x <= Len(s) /\ y <= Len(s)
    BY <1>2, <1>3, <1>4, <2>1
  <2>2. CASE x <= Len(s) /\ y > Len(s)
    <3>1. x \in 1..Len(s) /\ y - Len(s) \in 1..Len(u)
      BY <1>3, <2>2
    <3> QED
      BY <1>2, <1>3, <1>4, <2>2, <3>1
  <2>3. CASE x > Len(s) /\ y <= Len(s)
    <3>1. y \in 1..Len(s) /\ x - Len(s) \in 1..Len(u)
      BY <1>3, <2>3
    <3> QED
      BY <1>2, <1>3, <1>4, <2>3, <3>1
  <2>4. CASE x > Len(s) /\ y > Len(s)
    <3>1. y - Len(s) \in 1..Len(u) /\ x - Len(s) \in 1..Len(u)
      BY <1>3, <2>4
    <3>2. u[x - Len(s)] = u[y - Len(s)]
      BY <1>2, <1>3, <1>4, <2>4
    <3>3. x - Len(s) = y - Len(s)
      BY <1>3, <3>1, <3>2
    <3> QED
      BY <1>3, <3>3
  <2> QED
    BY <1>3, <2>1, <2>2, <2>3, <2>4
<1>5. DOMAIN (s \o u) = 1..(Len(s) + Len(u))
  BY <1>2, LenProperties
<1> QED
  BY <1>2, <1>4, <1>5 DEF Distinct

\* The rows of the four tables are different rows.
LEMMA Tables ==
    /\ Order \in Rows /\ Task \in Rows /\ Items \subseteq Rows /\ Variations \subseteq Rows
    /\ Order # Task
    /\ \A i \in Items : i # Order /\ i # Task /\ i \notin Variations /\ VarOf[i] \in Variations
    /\ \A v \in Variations : v # Order /\ v # Task /\ v \notin Items
    /\ VarOf[Task] \in Variations
  BY RowLocksAssumption DEF Rows

\* A variation list of a booking: sorted, without repeats.
LEMMA SortedPrograms ==
    ASSUME NEW p \in CreateBooking
    PROVE  /\ Distinct(p)
           /\ \A n \in DOMAIN p : p[n] \in Variations
           /\ \A m, n \in DOMAIN p : m < n => Rank[p[m]] < Rank[p[n]]
<1>1. PICK S \in SUBSET Variations : p = Sorted(S)
  BY DEF CreateBooking
<1>2. S \in SUBSET Rows /\ IsFiniteSet(S)
  BY Tables, RowLocksAssumption, FS_Subset
<1>3. p \in Arrangements(S) /\ \A m, n \in DOMAIN p : m < n => Rank[p[m]] < Rank[p[n]]
  BY <1>1, SortedByRank
<1>4. Distinct(p) /\ \A n \in 1..Len(p) : p[n] \in S
  BY <1>2, <1>3, Arranged
<1>5. DOMAIN p = 1..Len(p)
  BY <1>4, LenProperties DEF Distinct
<1> QED
  BY <1>1, <1>3, <1>4, <1>5

\* Some of the items, in the order of the request or of the rows.
LEMMA ItemLists ==
    ASSUME NEW S \in SUBSET Items, NEW s \in Arrangements(S)
    PROVE  Distinct(s) /\ s \in Seq(Items) /\ \A n \in 1..Len(s) : s[n] \in Items
<1>1. S \in SUBSET Rows /\ IsFiniteSet(S)
  BY Tables, RowLocksAssumption, FS_Subset
<1>2. Distinct(s) /\ \A n \in 1..Len(s) : s[n] \in S
  BY <1>1, Arranged
<1>3. s \in Seq(Items)
  BY <1>2, IsASeq, LenProperties DEF Distinct
<1> QED
  BY <1>2, <1>3

\* The order and then some of its items.
LEMMA OrderPrograms ==
    ASSUME NEW S \in SUBSET Items, NEW s \in Arrangements(S),
           NEW p, p = <<Order>> \o s
    PROVE  /\ Distinct(p)
           /\ Len(p) = Len(s) + 1
           /\ p[1] = Order
           /\ \A n \in 2..Len(p) : p[n] \in Items
<1>1. Distinct(s) /\ \A n \in 1..Len(s) : s[n] \in Items
  BY ItemLists
<1>2. Len(s) \in Nat
  BY <1>1, LenProperties DEF Distinct
<1>3. Distinct(<<Order>>) /\ Len(<<Order>>) = 1 /\ <<Order>>[1] = Order
  BY Tables DEF Distinct
<1> DEFINE q == <<Order>>
<1>4. \A x \in 1..Len(q), y \in 1..Len(s) : q[x] # s[y]
  BY <1>1, <1>3, Tables
<1>5. /\ Distinct(q \o s)
      /\ Len(q \o s) = Len(q) + Len(s)
      /\ \A n \in 1..(Len(q) + Len(s)) :
            (q \o s)[n] = IF n <= Len(q) THEN q[n] ELSE s[n - Len(q)]
  <2> HIDE DEF q
  <2> QED
    BY <1>1, <1>3, <1>4, Joined DEF q
<1>6. ASSUME NEW n \in 2..(Len(s) + 1)
      PROVE  p[n] \in Items
  <2>1. n - 1 \in 1..Len(s) /\ ~(n <= 1)
    BY <1>2
  <2>2. p[n] = s[n - 1]
    BY <1>2, <1>3, <1>5, <2>1
  <2> QED
    BY <1>1, <2>1, <2>2
<1> QED
  BY <1>2, <1>3, <1>5, <1>6

\* The order, all its items, and the task when there is one.
LEMMA DeletePrograms ==
    ASSUME NEW p \in DeleteBooking
    PROVE  /\ Distinct(p)
           /\ Len(p) > 0 /\ p[1] = Order
           /\ \A n \in 2..Len(p) : p[n] \in Items \/ (p[n] = Task /\ n = Len(p))
<1>0. PICK s \in Arrangements(Items) :
         \E tasks \in {<<>>, <<Task>>} : p = (<<Order>> \o s) \o tasks
  BY DEF DeleteBooking
<1>1. PICK tasks \in {<<>>, <<Task>>} : p = (<<Order>> \o s) \o tasks
  BY <1>0
<1> DEFINE q == <<Order>> \o s
<1>2. /\ Distinct(q) /\ Len(q) = Len(s) + 1 /\ q[1] = Order
      /\ \A n \in 2..Len(q) : q[n] \in Items
  BY OrderPrograms
<1>3. Distinct(s)
  BY ItemLists
<1>4. Len(s) \in Nat /\ Len(q) \in Nat /\ Len(q) > 0 /\ q \in Seq(Rows)
  BY <1>2, <1>3, LenProperties DEF Distinct
<1> HIDE DEF q
<1>5. CASE tasks = <<>>
  <2>1. p = q
    BY <1>1, <1>4, <1>5, ConcatEmptySeq DEF q
  <2> QED
    BY <1>2, <1>4, <2>1
<1>6. CASE tasks = <<Task>>
  <2>1. Distinct(tasks) /\ Len(tasks) = 1 /\ tasks[1] = Task
    BY <1>6, Tables DEF Distinct
  <2>2. \A x \in 1..Len(q) : q[x] # Task
    <3>1. \A x \in 1..Len(q) : x = 1 \/ x \in 2..Len(q)
      BY <1>4
    <3> QED
      BY <1>2, <3>1, Tables
  <2>3. \A x \in 1..Len(q), y \in 1..Len(tasks) : q[x] # tasks[y]
    BY <2>1, <2>2
  <2>4. /\ Distinct(q \o tasks)
        /\ Len(q \o tasks) = Len(q) + Len(tasks)
        /\ \A n \in 1..(Len(q) + Len(tasks)) :
              (q \o tasks)[n] = IF n <= Len(q) THEN q[n] ELSE tasks[n - Len(q)]
    BY <1>2, <2>1, <2>3, Joined
  <2>5. /\ Distinct(p) /\ Len(p) = Len(q) + 1
        /\ \A n \in 1..(Len(q) + 1) : p[n] = IF n <= Len(q) THEN q[n] ELSE tasks[n - Len(q)]
    BY <1>1, <2>1, <2>4 DEF q
  <2>6. p[1] = Order
    BY <1>2, <1>4, <2>5
  <2>7. ASSUME NEW n \in 2..Len(p)
        PROVE  p[n] \in Items \/ (p[n] = Task /\ n = Len(p))
    <3>1. CASE n <= Len(q)
      <4>1. n \in 2..Len(q) /\ n \in 1..(Len(q) + 1)
        BY <1>4, <3>1
      <4> QED
        BY <1>2, <2>5, <3>1, <4>1
    <3>2. CASE n > Len(q)
      <4>1. n = Len(q) + 1 /\ n - Len(q) = 1 /\ n \in 1..(Len(q) + 1) /\ ~(n <= Len(q))
        BY <1>4, <2>5, <3>2
      <4>2. p[n] = tasks[n - Len(q)]
        BY <2>5, <4>1
      <4> QED
        BY <2>1, <2>5, <4>1, <4>2
    <3> QED
      BY <1>4, <2>5, <3>1, <3>2
  <2> QED
    BY <1>4, <2>5, <2>6, <2>7
<1> QED
  BY <1>1, <1>5, <1>6

\* confirmPickupOrder: items, the order, and the items' variations.
LEMMA PickupPrograms ==
    ASSUME NEW p \in ConfirmPickupOrder
    PROVE  Distinct(p)
<1>0. PICK S \in SUBSET Items :
         \E s \in Arrangements(S) : p = (s \o <<Order>>) \o FirstAppearances(s)
  BY DEF ConfirmPickupOrder
<1>1. PICK s \in Arrangements(S) : p = (s \o <<Order>>) \o FirstAppearances(s)
  BY <1>0
<1>2. Distinct(s) /\ s \in Seq(Items) /\ \A n \in 1..Len(s) : s[n] \in Items
  BY ItemLists
<1> DEFINE f == FirstAppearances(s)
           one == <<Order>>
           q == s \o one
<1>3. f \in Seq(Variations) /\ \A m, n \in DOMAIN f : f[m] = f[n] => m = n
  BY <1>2, AppearOnce
<1>4. /\ Distinct(f) /\ Len(f) \in Nat
      /\ \A n \in 1..Len(f) : f[n] \in Variations
  <2> HIDE DEF f
  <2>1. f \in Seq(Rows)
    BY <1>3, Tables, SeqMonotonic
  <2> QED
    BY <1>3, <2>1, LenProperties, ElementOfSeq DEF Distinct
<1>5. Distinct(one) /\ Len(one) = 1 /\ one[1] = Order
  BY Tables DEF Distinct
<1> HIDE DEF f, one
<1>6. \A x \in 1..Len(s), y \in 1..Len(one) : s[x] # one[y]
  BY <1>2, <1>5, Tables
<1>7. /\ Distinct(q)
      /\ Len(q) = Len(s) + Len(one)
      /\ \A n \in 1..(Len(s) + Len(one)) :
            q[n] = IF n <= Len(s) THEN s[n] ELSE one[n - Len(s)]
  BY <1>2, <1>5, <1>6, Joined
<1>8. Len(s) \in Nat
  BY <1>2, LenProperties
<1> HIDE DEF q
<1>9. ASSUME NEW x \in 1..Len(q)
      PROVE  q[x] = Order \/ q[x] \in Items
  <2>1. CASE x <= Len(s)
    <3>1. x \in 1..Len(s) /\ x \in 1..(Len(s) + 1)
      BY <1>8, <2>1
    <3> QED
      BY <1>2, <1>5, <1>7, <2>1, <3>1
  <2>2. CASE ~(x <= Len(s))
    <3>1. x - Len(s) = 1 /\ x \in 1..(Len(s) + 1)
      BY <1>5, <1>7, <1>8, <2>2
    <3> QED
      BY <1>5, <1>7, <2>2, <3>1
  <2> QED
    BY <2>1, <2>2
<1>10. \A x \in 1..Len(q), y \in 1..Len(f) : q[x] # f[y]
  BY <1>4, <1>9, Tables
<1>11. Distinct(q \o f)
  BY <1>4, <1>7, <1>10, Joined
<1> QED
  BY <1>1, <1>11 DEF q, f, one

\* One, two or three different rows.
LEMMA ShortPrograms ==
    /\ \A r \in Rows : Distinct(<<r>>)
    /\ \A r, s \in Rows : r # s => Distinct(<<r, s>>)
    /\ \A r, s, u \in Rows : r # s /\ r # u /\ s # u => Distinct(<<r, s, u>>)
  BY DEF Distinct

\* No program names a row twice.
LEMMA ProgramsDistinct ==
    ASSUME NEW o \in Served, NEW p \in Programs(o)
    PROVE  Distinct(p)
<1>1. CASE o = "createBooking"
  BY <1>1, SortedPrograms DEF Programs
<1>2. CASE o \in {"cancelBookingOrder", "recordPayment"}
  <2>1. p \in OrderThenItems
    BY <1>2 DEF Programs, CancelBookingOrder, RecordPayment
  <2>2. PICK S \in SUBSET Items : \E s \in Arrangements(S) : p = <<Order>> \o s
    BY <2>1 DEF OrderThenItems
  <2> QED
    BY <2>2, OrderPrograms
<1>3. CASE o = "deleteBooking"
  BY <1>3, DeletePrograms DEF Programs
<1>4. CASE o = "confirmPickupOrder"
  BY <1>4, PickupPrograms DEF Programs
<1>5. CASE o \in {"addBookingItem", "updateBookingItem", "cancelBookingItem",
                  "updateBookingOrder"}
  <2>1. p \in AddBookingItem \cup UpdateBookingItem \cup CancelBookingItem \cup UpdateBookingOrder
    BY <1>5 DEF Programs
  <2> QED
    BY <2>1, Tables, ShortPrograms
    DEF AddBookingItem, UpdateBookingItem, CancelBookingItem, UpdateBookingOrder
<1>6. CASE o \in {"confirmPickup", "returnBooking"}
  <2>1. p \in ConfirmPickup \cup ReturnBooking
    BY <1>6 DEF Programs
  <2> QED
    BY <2>1, Tables, ShortPrograms DEF ConfirmPickup, ReturnBooking
<1>7. CASE o \in {"createTask", "moveTask", "editVariation"}
  <2>1. p \in CreateTask \cup MoveTask \cup EditVariation
    BY <1>7 DEF Programs
  <2> QED
    BY <2>1, Tables, ShortPrograms DEF CreateTask, MoveTask, EditVariation
<1> QED
  BY RowLocksAssumption, <1>1, <1>2, <1>3, <1>4, <1>5, <1>6, <1>7
-----------------------------------------------------------------------------
(* The order in which each family locks the tables *)

\* bookings, movements of one item, and whole orders; variations by Rank.
BookingsPlace ==
    [r \in Rows |-> IF r = Task THEN 0 ELSE IF r \in Variations THEN 1
                    ELSE IF r \in Items THEN 2 ELSE 3]
MovementsPlace ==
    [r \in Rows |-> IF r \in Items THEN 0 ELSE IF r = Order THEN 1
                    ELSE IF r = Task THEN 2 ELSE 3]
WholeOrderPlace ==
    [r \in Rows |-> IF r = Order THEN 0 ELSE IF r \in Items THEN 1
                    ELSE IF r = Task THEN 2 ELSE 3]

Earlier(place, r, s) ==
    \/ place[r] < place[s]
    \/ r \in Variations /\ s \in Variations /\ Rank[r] < Rank[s]

\* Where the rows of each table come.
LEMMA Places ==
    /\ \A r \in Rows : /\ BookingsPlace[r] \in Nat
                       /\ MovementsPlace[r] \in Nat
                       /\ WholeOrderPlace[r] \in Nat
    /\ /\ BookingsPlace[Task] = 0 /\ BookingsPlace[Order] = 3
       /\ \A v \in Variations : BookingsPlace[v] = 1
       /\ \A i \in Items : BookingsPlace[i] = 2
    /\ /\ MovementsPlace[Task] = 2 /\ MovementsPlace[Order] = 1
       /\ \A v \in Variations : MovementsPlace[v] = 3
       /\ \A i \in Items : MovementsPlace[i] = 0
    /\ /\ WholeOrderPlace[Task] = 2 /\ WholeOrderPlace[Order] = 0
       /\ \A v \in Variations : WholeOrderPlace[v] = 3
       /\ \A i \in Items : WholeOrderPlace[i] = 1
<1> USE Tables
<1>1. \A r \in Rows : /\ BookingsPlace[r] \in Nat
                      /\ MovementsPlace[r] \in Nat
                      /\ WholeOrderPlace[r] \in Nat
  BY DEF BookingsPlace, MovementsPlace, WholeOrderPlace
<1>2. /\ BookingsPlace[Task] = 0 /\ BookingsPlace[Order] = 3
      /\ \A v \in Variations : BookingsPlace[v] = 1
      /\ \A i \in Items : BookingsPlace[i] = 2
  BY DEF BookingsPlace
<1>3. /\ MovementsPlace[Task] = 2 /\ MovementsPlace[Order] = 1
      /\ \A v \in Variations : MovementsPlace[v] = 3
      /\ \A i \in Items : MovementsPlace[i] = 0
  BY DEF MovementsPlace
<1>4. /\ WholeOrderPlace[Task] = 2 /\ WholeOrderPlace[Order] = 0
      /\ \A v \in Variations : WholeOrderPlace[v] = 3
      /\ \A i \in Items : WholeOrderPlace[i] = 1
  BY DEF WholeOrderPlace
<1> QED
  BY <1>1, <1>2, <1>3, <1>4

\* Positions in a program of two or three rows.
LEMMA Positions ==
    /\ \A r : DOMAIN <<r>> = {1}
    /\ \A r, s : DOMAIN <<r, s>> = {1, 2}
    /\ \A r, s, u : DOMAIN <<r, s, u>> = {1, 2, 3}
  OBVIOUS

\* The programs every family has: sorted variations, one variation, a task and
\* its variation, the order alone.
LEMMA SharedInOrder ==
    ASSUME NEW o \in {"createBooking", "createTask", "moveTask", "editVariation",
                      "updateBookingOrder"},
           NEW p \in Programs(o), NEW m \in DOMAIN p, NEW n \in DOMAIN p, m < n
    PROVE  \/ p[m] \in Variations /\ p[n] \in Variations /\ Rank[p[m]] < Rank[p[n]]
           \/ p[m] = Task /\ p[n] \in Variations
<1>1. CASE o = "createBooking"
  BY <1>1, SortedPrograms DEF Programs
<1>2. CASE o \in {"createTask", "editVariation", "updateBookingOrder"}
  <2>1. p \in CreateTask \cup EditVariation \cup UpdateBookingOrder
    BY <1>2 DEF Programs
  <2>2. PICK r : p = <<r>>
    BY <2>1 DEF CreateTask, EditVariation, UpdateBookingOrder
  <2> QED
    BY <2>2, Positions
<1>3. CASE o = "moveTask"
  <2>1. p = <<Task, VarOf[Task]>>
    BY <1>3 DEF Programs, MoveTask
  <2>2. m = 1 /\ n = 2
    BY <2>1, Positions
  <2> QED
    BY <2>1, <2>2, Tables
<1> QED
  BY <1>1, <1>2, <1>3

\* The handlers of bookings lock task, variations, item, order.
LEMMA BookingsInOrder ==
    ASSUME NEW o \in Bookings, NEW p \in Programs(o),
           NEW m \in DOMAIN p, NEW n \in DOMAIN p, m < n
    PROVE  Earlier(BookingsPlace, p[m], p[n])
<1>1. CASE o \in {"createBooking", "createTask", "moveTask", "editVariation",
                  "updateBookingOrder"}
  BY <1>1, SharedInOrder, Places DEF Earlier
<1>2. CASE o = "addBookingItem"
  <2>1. PICK v \in Variations : p = <<v, Order>>
    BY <1>2 DEF Programs, AddBookingItem
  <2>2. m = 1 /\ n = 2
    BY <2>1, Positions
  <2> QED
    BY <2>1, <2>2, Places DEF Earlier
<1>3. CASE o = "updateBookingItem"
  <2>1. PICK i \in Items : p = <<VarOf[i], i, Order>>
    BY <1>3 DEF Programs, UpdateBookingItem
  <2>2. /\ p[1] = VarOf[i] /\ p[2] = i /\ p[3] = Order
        /\ m \in {1, 2, 3} /\ n \in {1, 2, 3}
    BY <2>1, Positions
  <2>3. BookingsPlace[p[1]] = 1 /\ BookingsPlace[p[2]] = 2 /\ BookingsPlace[p[3]] = 3
    BY <2>2, Places, Tables
  <2>4. BookingsPlace[p[m]] < BookingsPlace[p[n]]
    BY <2>2, <2>3
  <2> QED
    BY <2>4 DEF Earlier
<1>4. CASE o = "cancelBookingItem"
  <2>1. PICK i \in Items : p = <<i, Order>>
    BY <1>4 DEF Programs, CancelBookingItem
  <2>2. m = 1 /\ n = 2
    BY <2>1, Positions
  <2> QED
    BY <2>1, <2>2, Places DEF Earlier
<1> QED
  BY <1>1, <1>2, <1>3, <1>4 DEF Bookings

\* A pickup or a return of one item locks item, order, variation.
LEMMA MovementsInOrder ==
    ASSUME NEW o \in Movements, NEW p \in Programs(o),
           NEW m \in DOMAIN p, NEW n \in DOMAIN p, m < n
    PROVE  Earlier(MovementsPlace, p[m], p[n])
<1>1. CASE o \in {"createBooking", "createTask", "moveTask", "editVariation",
                  "updateBookingOrder"}
  BY <1>1, SharedInOrder, Places DEF Earlier
<1>2. CASE o \in {"confirmPickup", "returnBooking"}
  <2>1. PICK i \in Items : p = <<i, Order, VarOf[i]>>
    BY <1>2 DEF Programs, ConfirmPickup, ReturnBooking
  <2>2. /\ p[1] = i /\ p[2] = Order /\ p[3] = VarOf[i]
        /\ m \in {1, 2, 3} /\ n \in {1, 2, 3}
    BY <2>1, Positions
  <2>3. MovementsPlace[p[1]] = 0 /\ MovementsPlace[p[2]] = 1 /\ MovementsPlace[p[3]] = 3
    BY <2>2, Places, Tables
  <2>4. MovementsPlace[p[m]] < MovementsPlace[p[n]]
    BY <2>2, <2>3
  <2> QED
    BY <2>4 DEF Earlier
<1>3. CASE o = "cancelBookingItem"
  <2>1. PICK i \in Items : p = <<i, Order>>
    BY <1>3 DEF Programs, CancelBookingItem
  <2>2. m = 1 /\ n = 2
    BY <2>1, Positions
  <2> QED
    BY <2>1, <2>2, Places DEF Earlier
<1> QED
  BY <1>1, <1>2, <1>3 DEF Movements

\* The handlers of a whole order lock order, items, task, variations; an item
\* only when the order is locked, and items among themselves in any order.
LEMMA WholeOrderInOrder ==
    ASSUME NEW o \in WholeOrder, NEW p \in Programs(o),
           NEW m \in DOMAIN p, NEW n \in DOMAIN p, m < n
    PROVE  \/ Earlier(WholeOrderPlace, p[m], p[n])
           \/ p[n] \in Items /\ p[1] = Order
<1>1. CASE o \in {"createBooking", "createTask", "moveTask", "editVariation",
                  "updateBookingOrder"}
  BY <1>1, SharedInOrder, Places DEF Earlier
<1>2. CASE o \in {"cancelBookingOrder", "recordPayment"}
  <2>1. p \in OrderThenItems
    BY <1>2 DEF Programs, CancelBookingOrder, RecordPayment
  <2>2. PICK S \in SUBSET Items : \E s \in Arrangements(S) : p = <<Order>> \o s
    BY <2>1 DEF OrderThenItems
  <2>3. /\ Distinct(p) /\ p[1] = Order
        /\ \A x \in 2..Len(p) : p[x] \in Items
    BY <2>2, OrderPrograms
  <2>4. m \in 1..Len(p) /\ n \in 1..Len(p) /\ Len(p) \in Nat
    BY <2>3, LenProperties DEF Distinct
  <2>5. n \in 2..Len(p)
    BY <2>4
  <2> QED
    BY <2>3, <2>5
<1>3. CASE o = "deleteBooking"
  <2>1. /\ Distinct(p) /\ p[1] = Order
        /\ \A x \in 2..Len(p) : p[x] \in Items \/ (p[x] = Task /\ x = Len(p))
    BY <1>3, DeletePrograms DEF Programs
  <2>2. m \in 1..Len(p) /\ n \in 1..Len(p) /\ Len(p) \in Nat
    BY <2>1, LenProperties DEF Distinct
  <2>3. n \in 2..Len(p) /\ m # Len(p) /\ (m = 1 \/ m \in 2..Len(p))
    BY <2>2
  <2>4. p[m] = Order \/ p[m] \in Items
    BY <2>1, <2>3
  <2>5. p[n] \in Items \/ p[n] = Task
    BY <2>1, <2>3
  <2> QED
    BY <2>1, <2>4, <2>5, Places DEF Earlier
<1> QED
  BY <1>1, <1>2, <1>3 DEF WholeOrder
-----------------------------------------------------------------------------
(* The inductive invariant *)

\* "none" is not the name of a handler.
LEMMA NotAHandler == "none" \notin Served
  BY RowLocksAssumption

\* The invariant says that the types are right.
LEMMA InvType == LocksInv => TypeOK
<1> SUFFICES ASSUME LocksInv PROVE TypeOK
  OBVIOUS
<1>1. ASSUME NEW t \in Transactions, NEW n \in DOMAIN wants[t]
      PROVE  lock[wants[t][n]] # t
  <2>1. op[t] # "none"
    BY DEF LocksInv
  <2>2. PICK p \in Programs(op[t]) : \E k \in 0..Len(p) : SplitAt(t, p, k)
    BY <2>1 DEF LocksInv, Underway
  <2>3. PICK k \in 0..Len(p) : SplitAt(t, p, k)
    BY <2>2
  <2>4. op[t] \in Served
    BY <2>1 DEF LocksInv
  <2>5. p \in Seq(Rows) /\ \A x, y \in DOMAIN p : p[x] = p[y] => x = y
    BY <2>4, ProgramsDistinct DEF Distinct
  <2>6. wants[t] \in Seq(Rows)
    BY DEF LocksInv
  <2>7. n \in 1..Len(wants[t]) /\ Len(p) \in Nat /\ DOMAIN p = 1..Len(p)
    BY <2>5, <2>6, LenProperties
  <2>8. /\ wants[t][n] = p[k + n]
        /\ k + n \in 1..Len(p)
        /\ \A j \in 1..k : j \in 1..Len(p) /\ j # k + n
    <3>1. wants[t][n] = p[k + n] /\ Len(wants[t]) = Len(p) - k
      BY <2>3, <2>7 DEF SplitAt
    <3>2. n \in 1..(Len(p) - k) /\ k \in 0..Len(p) /\ Len(p) \in Nat
      BY <2>7, <3>1
    <3>3. k + n \in 1..Len(p) /\ \A j \in 1..k : j \in 1..Len(p) /\ j # k + n
      BY <3>2
    <3> QED
      BY <3>1, <3>3
  <2>9. \A j \in 1..k : p[j] # wants[t][n]
    BY <2>5, <2>7, <2>8
  <2>10. wants[t][n] \in Rows
    BY <2>6, <2>7, ElementOfSeq
  <2> QED
    BY <2>3, <2>9, <2>10 DEF SplitAt
<1> QED
  BY <1>1 DEF LocksInv, TypeOK

\* At the start every transaction is closed.
LEMMA LocksInit == Init => LocksInv
<1> SUFFICES ASSUME Init PROVE LocksInv
  OBVIOUS
<1>1. \A r \in Rows, t \in Transactions : lock[r] # t
  BY RowLocksAssumption DEF Init
<1>2. wants \in [Transactions -> Seq(Rows)]
  BY EmptySeq DEF Init
<1> QED
  BY <1>1, <1>2 DEF Init, LocksInv, Underway

\* A transaction opens at the start of a program of its handler.
LEMMA BeginKeepsInv ==
    ASSUME LocksInv, NEW t \in Transactions, NEW o \in Served, Begin(t, o)
    PROVE  LocksInv'
<1>1. PICK rows \in Programs(o) : wants' = [wants EXCEPT ![t] = rows]
  BY DEF Begin
<1>2. rows \in Seq(Rows)
  BY ProgramsDistinct DEF Distinct
<1>3. /\ op' \in [Transactions -> Served \cup {"none"}]
      /\ wants' \in [Transactions -> Seq(Rows)]
      /\ lock' \in [Rows -> Transactions \cup {Nobody}]
  BY <1>1, <1>2 DEF LocksInv, Begin
<1>4. ASSUME NEW u \in Transactions, op'[u] = "none"
      PROVE  wants'[u] = <<>> /\ \A r \in Rows : lock'[r] # u
  <2>1. u # t
    BY <1>4, NotAHandler DEF Begin, LocksInv
  <2> QED
    BY <1>1, <1>4, <2>1 DEF Begin, LocksInv
<1>5. ASSUME NEW u \in Transactions, op'[u] # "none"
      PROVE  \E p \in Programs(op'[u]) : \E k \in 0..Len(p) : SplitAt(u, p, k)'
  <2>1. CASE u = t
    <3>1. op'[u] = o /\ wants'[u] = rows /\ \A r \in Rows : lock'[r] # u
      BY <1>1, <2>1 DEF Begin, LocksInv
    <3>2. Len(rows) \in Nat
      BY <1>2, LenProperties
    <3>3. SplitAt(u, rows, 0)'
      BY <3>1, <3>2 DEF SplitAt
    <3> QED
      BY <3>1, <3>2, <3>3
  <2>2. CASE u # t
    <3>1. op'[u] = op[u] /\ wants'[u] = wants[u] /\ lock' = lock
      BY <1>1, <2>2 DEF Begin, LocksInv
    <3>2. PICK p \in Programs(op[u]) : \E k \in 0..Len(p) : SplitAt(u, p, k)
      BY <1>5, <3>1 DEF LocksInv, Underway
    <3>3. PICK k \in 0..Len(p) : SplitAt(u, p, k)
      BY <3>2
    <3>4. SplitAt(u, p, k)'
      BY <3>1, <3>3 DEF SplitAt
    <3> QED
      BY <3>1, <3>4
  <2> QED
    BY <2>1, <2>2
<1> QED
  BY <1>3, <1>4, <1>5 DEF LocksInv, Underway

\* A row that is taken moves from the rest of the program to its start.
LEMMA TakeKeepsInv ==
    ASSUME LocksInv, NEW t \in Transactions, Take(t)
    PROVE  LocksInv'
<1> DEFINE row == Head(wants[t])
<1>1. wants[t] \in Seq(Rows) /\ wants[t] # <<>>
  BY DEF LocksInv, Take
<1>2. /\ Len(wants[t]) \in Nat \ {0}
      /\ row = wants[t][1] /\ row \in Rows
      /\ Tail(wants[t]) \in Seq(Rows)
      /\ Len(Tail(wants[t])) = Len(wants[t]) - 1
      /\ \A n \in 1..Len(Tail(wants[t])) : Tail(wants[t])[n] = wants[t][n + 1]
  BY <1>1, HeadTailProperties, LenProperties, EmptySeq
<1>3. /\ wants' = [wants EXCEPT ![t] = Tail(wants[t])]
      /\ lock' = [lock EXCEPT ![row] = t]
      /\ op' = op /\ lock[row] = Nobody /\ op[t] # "none"
  BY DEF Take
<1> HIDE DEF row
<1>4. /\ op' \in [Transactions -> Served \cup {"none"}]
      /\ wants' \in [Transactions -> Seq(Rows)]
      /\ lock' \in [Rows -> Transactions \cup {Nobody}]
  BY <1>2, <1>3 DEF LocksInv
<1>5. ASSUME NEW u \in Transactions, op'[u] = "none"
      PROVE  wants'[u] = <<>> /\ \A r \in Rows : lock'[r] # u
  <2>1. u # t
    BY <1>3, <1>5
  <2> QED
    BY <1>3, <1>5, <2>1 DEF LocksInv
<1>6. ASSUME NEW u \in Transactions, op'[u] # "none"
      PROVE  \E p \in Programs(op'[u]) : \E k \in 0..Len(p) : SplitAt(u, p, k)'
  <2>1. PICK p \in Programs(op[u]) : \E k \in 0..Len(p) : SplitAt(u, p, k)
    BY <1>3, <1>6 DEF LocksInv, Underway
  <2>2. PICK k \in 0..Len(p) : SplitAt(u, p, k)
    BY <2>1
  <2>3. Len(p) \in Nat
    <3>1. op[u] \in Served
      BY <1>3, <1>6 DEF LocksInv
    <3> QED
      BY <3>1, ProgramsDistinct, LenProperties DEF Distinct
  <2>4. CASE u = t
    <3>1. wants'[u] = Tail(wants[t])
      BY <1>3, <2>4 DEF LocksInv
    <3>2. Len(wants[t]) = Len(p) - k
      BY <2>2, <2>4 DEF SplitAt
    <3>3. k + 1 \in 0..Len(p) /\ Len(wants'[u]) = Len(p) - (k + 1)
      BY <1>2, <2>3, <3>1, <3>2
    <3>4. ASSUME NEW n \in 1..Len(wants'[u])
          PROVE  wants'[u][n] = p[(k + 1) + n]
      <4>1. wants'[u][n] = wants[t][n + 1]
        BY <1>2, <3>1
      <4>2. n + 1 \in 1..Len(wants[t]) /\ k + (n + 1) = (k + 1) + n
        BY <2>3, <3>2, <3>3
      <4>3. wants[t][n + 1] = p[k + (n + 1)]
        BY <2>2, <2>4, <4>2 DEF SplitAt
      <4> QED
        BY <4>1, <4>2, <4>3
    <3>5. row = p[k + 1]
      <4>1. 1 \in 1..Len(wants[t])
        BY <1>2
      <4> QED
        BY <1>2, <2>2, <2>4, <4>1 DEF SplitAt
    <3>6. ASSUME NEW r \in Rows
          PROVE  lock'[r] = t <=> \E n \in 1..(k + 1) : r = p[n]
      <4>1. lock[r] = t <=> \E n \in 1..k : r = p[n]
        BY <2>2, <2>4 DEF SplitAt
      <4>2. lock'[r] = t <=> (lock[r] = t \/ r = row)
        BY <1>2, <1>3 DEF LocksInv
      <4>3. \A n : n \in 1..(k + 1) <=> (n \in 1..k \/ n = k + 1)
        BY <2>3
      <4> QED
        BY <3>5, <4>1, <4>2, <4>3
    <3>7. SplitAt(u, p, k + 1)'
      BY <2>4, <3>3, <3>4, <3>6 DEF SplitAt
    <3> QED
      BY <1>3, <3>3, <3>7
  <2>5. CASE u # t
    <3>1. wants'[u] = wants[u]
      BY <1>3, <2>5 DEF LocksInv
    <3>2. \A r \in Rows : lock'[r] = u <=> lock[r] = u
      BY <1>2, <1>3, <2>5, RowLocksAssumption DEF LocksInv
    <3>3. SplitAt(u, p, k)'
      BY <2>2, <3>1, <3>2 DEF SplitAt
    <3> QED
      BY <1>3, <3>3
  <2> QED
    BY <2>4, <2>5
<1> QED
  BY <1>4, <1>5, <1>6 DEF LocksInv, Underway

\* A transaction that ends, committed or rolled back, gives up all it has.
LEMMA EndKeepsInv ==
    ASSUME LocksInv, NEW t \in Transactions, End(t)
    PROVE  LocksInv'
<1>1. /\ op' = [op EXCEPT ![t] = "none"]
      /\ wants' = [wants EXCEPT ![t] = <<>>]
      /\ lock' = [r \in Rows |-> IF lock[r] = t THEN Nobody ELSE lock[r]]
  BY DEF End
<1>2. /\ op' \in [Transactions -> Served \cup {"none"}]
      /\ wants' \in [Transactions -> Seq(Rows)]
      /\ lock' \in [Rows -> Transactions \cup {Nobody}]
  BY <1>1, EmptySeq DEF LocksInv
<1>3. ASSUME NEW u \in Transactions, op'[u] = "none"
      PROVE  wants'[u] = <<>> /\ \A r \in Rows : lock'[r] # u
  <2>1. CASE u = t
    BY <1>1, <2>1, RowLocksAssumption DEF LocksInv
  <2>2. CASE u # t
    BY <1>1, <1>3, <2>2, RowLocksAssumption DEF LocksInv
  <2> QED
    BY <2>1, <2>2
<1>4. ASSUME NEW u \in Transactions, op'[u] # "none"
      PROVE  \E p \in Programs(op'[u]) : \E k \in 0..Len(p) : SplitAt(u, p, k)'
  <2>1. u # t /\ op'[u] = op[u] /\ wants'[u] = wants[u]
    BY <1>1, <1>4 DEF LocksInv
  <2>2. \A r \in Rows : lock'[r] = u <=> lock[r] = u
    BY <1>1, <2>1, RowLocksAssumption DEF LocksInv
  <2>3. PICK p \in Programs(op[u]) : \E k \in 0..Len(p) : SplitAt(u, p, k)
    BY <1>4, <2>1 DEF LocksInv, Underway
  <2>4. PICK k \in 0..Len(p) : SplitAt(u, p, k)
    BY <2>3
  <2>5. SplitAt(u, p, k)'
    BY <2>1, <2>2, <2>4 DEF SplitAt
  <2> QED
    BY <2>1, <2>5
<1> QED
  BY <1>2, <1>3, <1>4 DEF LocksInv, Underway

\* Every step keeps the invariant.
LEMMA NextKeepsInv == LocksInv /\ [Next]_vars => LocksInv'
<1> SUFFICES ASSUME LocksInv, [Next]_vars PROVE LocksInv'
  OBVIOUS
<1>1. ASSUME NEW t \in Transactions, NEW o \in Served, Begin(t, o) PROVE LocksInv'
  BY <1>1, BeginKeepsInv
<1>2. ASSUME NEW t \in Transactions, Take(t) PROVE LocksInv'
  BY <1>2, TakeKeepsInv
<1>3. ASSUME NEW t \in Transactions, Commit(t) PROVE LocksInv'
  BY <1>3, EndKeepsInv DEF Commit
<1>4. ASSUME NEW S \in SUBSET Transactions, BreakCircle(S) PROVE LocksInv'
  <2>1. PICK t \in S : End(t)
    BY <1>4 DEF BreakCircle
  <2> QED
    BY <2>1, EndKeepsInv
<1>5. CASE UNCHANGED vars
  <2>1. op' = op /\ wants' = wants /\ lock' = lock
    BY <1>5 DEF vars
  <2>2. \A t, p, k : SplitAt(t, p, k)' <=> SplitAt(t, p, k)
    BY <2>1 DEF SplitAt
  <2>3. Underway'
    BY <2>1, <2>2 DEF LocksInv, Underway
  <2> QED
    BY <2>1, <2>3 DEF LocksInv
<1> QED
  BY <1>1, <1>2, <1>3, <1>4, <1>5 DEF Next

\* The inductive invariant holds throughout.
THEOREM LocksInvHolds == Spec => []LocksInv
<1> QED
  BY LocksInit, NextKeepsInv, PTL DEF Spec

\* TypeOK: a closed transaction holds no lock, and no transaction has still to
\* lock a row it holds, so nobody waits for itself.
THEOREM TypeCorrect == Spec => []TypeOK
<1> QED
  BY LocksInvHolds, InvType, PTL
-----------------------------------------------------------------------------
(* Circles of waits *)

\* Earlier is a strict order when a family puts all variations in one place.
LEMMA EarlierIsStrict ==
    ASSUME NEW place, \A r \in Rows : place[r] \in Nat,
           \A v, w \in Variations : place[v] = place[w]
    PROVE  /\ \A r \in Rows : ~Earlier(place, r, r)
           /\ \A r, s, u \in Rows :
                 Earlier(place, r, s) /\ Earlier(place, s, u) => Earlier(place, r, u)
<1>1. \A v \in Variations : v \in Rows /\ Rank[v] \in Nat
  BY RowLocksAssumption, Tables
<1>2. \A r \in Rows : ~Earlier(place, r, r)
  BY <1>1 DEF Earlier
<1>3. ASSUME NEW r \in Rows, NEW s \in Rows, NEW u \in Rows,
             Earlier(place, r, s), Earlier(place, s, u)
      PROVE  Earlier(place, r, u)
  <2>1. place[r] \in Nat /\ place[s] \in Nat /\ place[u] \in Nat
    OBVIOUS
  <2>2. CASE place[r] < place[s]
    BY <1>3, <2>1, <2>2 DEF Earlier
  <2>3. CASE r \in Variations /\ s \in Variations /\ Rank[r] < Rank[s]
    BY <1>1, <1>3, <2>1, <2>3 DEF Earlier
  <2> QED
    BY <1>3, <2>2, <2>3 DEF Earlier
<1> QED
  BY <1>2, <1>3

\* In a finite set somebody has nobody after him: each follower has fewer
\* members after him than the one he follows.
LEMMA Follow ==
    ASSUME NEW S, IsFiniteSet(S), S # {}, NEW g \in [S -> Rows],
           NEW place, \A r \in Rows : place[r] \in Nat,
           \A v, w \in Variations : place[v] = place[w],
           \A t \in S : \E u \in S : Earlier(place, g[t], g[u])
    PROVE  FALSE
<1> DEFINE after(t) == {u \in S : Earlier(place, g[t], g[u])}
           R == StrictSubsetOrdering(S)
           T == {after(t) : t \in S}
<1>1. IsWellFoundedOn(R, FiniteSubsetsOf(S))
  BY FS_StrictSubsetOrderingWellFounded
<1>2. FiniteSubsetsOf(S) = SUBSET S
  BY FS_FiniteSubsetsOfFinite
<1>3. T \subseteq SUBSET S /\ T # {}
  <2>1. \A t \in S : after(t) \in SUBSET S
    OBVIOUS
  <2> HIDE DEF after
  <2> QED
    BY <2>1
<1>4. PICK A \in T : \A B \in T : ~(<<B, A>> \in R)
  <2> HIDE DEF T, R
  <2>1. IsWellFoundedOn(R, SUBSET S)
    BY <1>1, <1>2
  <2> QED
    BY <1>3, <2>1, WFMin
<1>5. PICK t \in S : A = after(t)
  BY <1>4
<1>6. PICK u \in S : Earlier(place, g[t], g[u])
  OBVIOUS
<1>7. /\ \A r \in Rows : ~Earlier(place, r, r)
      /\ \A r, s, q \in Rows :
            Earlier(place, r, s) /\ Earlier(place, s, q) => Earlier(place, r, q)
  BY EarlierIsStrict
<1>8. after(u) \subseteq after(t)
  BY <1>6, <1>7
<1>9. u \in after(t) /\ u \notin after(u)
  BY <1>6, <1>7
<1>10. <<after(u), after(t)>> \in R
  <2>1. after(u) \in SUBSET S /\ after(t) \in SUBSET S /\ after(u) # after(t)
    BY <1>9
  <2> HIDE DEF after
  <2> QED
    BY <1>8, <2>1 DEF StrictSubsetOrdering
<1>11. after(u) \in T
  OBVIOUS
<1> HIDE DEF after, T, R
<1> QED
  BY <1>4, <1>5, <1>10, <1>11

\* A transaction that is waited for and waits itself holds an earlier row of
\* its program and wants a later one.
LEMMA HeldThenWanted ==
    ASSUME LocksInv, NEW t \in Transactions, NEW u \in Transactions,
           WaitsFor(t, u), wants[u] # <<>>
    PROVE  \E p \in Programs(op[u]) : \E m, n \in DOMAIN p :
              /\ m < n /\ op[u] \in Served
              /\ p[m] = Head(wants[t]) /\ p[n] = Head(wants[u])
              /\ \A j \in DOMAIN p : j < n => lock[p[j]] = u
<1>1. /\ wants[t] \in Seq(Rows) /\ wants[t] # <<>> /\ lock[Head(wants[t])] = u
      /\ wants[u] \in Seq(Rows)
  BY DEF LocksInv, WaitsFor
<1>2. Head(wants[t]) \in Rows
  BY <1>1, HeadTailProperties
<1>3. op[u] # "none" /\ op[u] \in Served
  BY <1>1, <1>2 DEF LocksInv
<1>4. PICK p \in Programs(op[u]) : \E k \in 0..Len(p) : SplitAt(u, p, k)
  BY <1>3 DEF LocksInv, Underway
<1>5. PICK k \in 0..Len(p) : SplitAt(u, p, k)
  BY <1>4
<1>6. p \in Seq(Rows) /\ Len(p) \in Nat /\ DOMAIN p = 1..Len(p)
  BY <1>3, ProgramsDistinct, LenProperties DEF Distinct
<1>7. PICK m \in 1..k : Head(wants[t]) = p[m]
  BY <1>1, <1>2, <1>5 DEF SplitAt
<1>8. Len(wants[u]) \in Nat \ {0} /\ Head(wants[u]) = wants[u][1]
  BY <1>1, HeadTailProperties, LenProperties, EmptySeq
<1>9. Len(wants[u]) = Len(p) - k /\ Head(wants[u]) = p[k + 1]
  <2>1. 1 \in 1..Len(wants[u])
    BY <1>8
  <2> QED
    BY <1>5, <1>8, <2>1 DEF SplitAt
<1>10. k + 1 \in DOMAIN p /\ m \in DOMAIN p /\ m < k + 1
  <2> DEFINE lp == Len(p)
             lw == Len(wants[u])
  <2>0. lp \in Nat /\ lw \in Nat \ {0} /\ lw = lp - k /\ k \in 0..lp
    BY <1>6, <1>8, <1>9
  <2> HIDE DEF lp, lw
  <2>1. k + 1 \in 1..lp /\ m \in 1..lp /\ m < k + 1
    BY <2>0
  <2> QED
    BY <1>6, <2>1 DEF lp
<1>11. ASSUME NEW j \in DOMAIN p, j < k + 1
       PROVE  lock[p[j]] = u
  <2>1. p[j] \in Rows
    BY <1>6, ElementOfSeq
  <2>2. j \in 1..k
    BY <1>6, <1>11
  <2> QED
    BY <1>5, <2>1, <2>2 DEF SplitAt
<1> QED
  BY <1>3, <1>7, <1>9, <1>10, <1>11

\* In a whole-order program an item comes after the order.
LEMMA ItemsAfterOrder ==
    ASSUME NEW o \in WholeOrder, NEW p \in Programs(o),
           NEW n \in DOMAIN p, p[n] \in Items
    PROVE  p[1] = Order /\ 1 \in DOMAIN p /\ 1 < n
<1>1. CASE o \in {"createBooking", "createTask", "moveTask", "editVariation",
                  "updateBookingOrder"}
  <2>1. CASE o = "createBooking"
    BY <1>1, <2>1, SortedPrograms, Tables DEF Programs
  <2>2. CASE o # "createBooking"
    <3>1. p \in CreateTask \cup MoveTask \cup EditVariation \cup UpdateBookingOrder
      BY <1>1, <2>2 DEF Programs
    <3>2. \A r \in DOMAIN p : p[r] \notin Items
      BY <3>1, Tables DEF CreateTask, MoveTask, EditVariation, UpdateBookingOrder
    <3> QED
      BY <3>2
  <2> QED
    BY <2>1, <2>2
<1>2. CASE o \in {"cancelBookingOrder", "recordPayment", "deleteBooking"}
  <2>1. Distinct(p) /\ p[1] = Order
    <3>1. CASE o = "deleteBooking"
      BY <3>1, DeletePrograms DEF Programs
    <3>2. CASE o # "deleteBooking"
      <4>1. p \in OrderThenItems
        BY <1>2, <3>2 DEF Programs, CancelBookingOrder, RecordPayment
      <4>2. PICK S \in SUBSET Items : \E s \in Arrangements(S) : p = <<Order>> \o s
        BY <4>1 DEF OrderThenItems
      <4> QED
        BY <4>2, OrderPrograms
    <3> QED
      BY <3>1, <3>2
  <2>2. n \in 1..Len(p) /\ Len(p) \in Nat /\ DOMAIN p = 1..Len(p) /\ n # 1
    BY <2>1, Tables, LenProperties DEF Distinct
  <2> QED
    BY <2>1, <2>2
<1> QED
  BY <1>1, <1>2 DEF WholeOrder

\* A closed set of one of the first two families would follow forever.
LEMMA NoCircleInOrder ==
    ASSUME LocksInv, NEW S \in SUBSET Transactions, Closed(S),
           NEW place, \A r \in Rows : place[r] \in Nat,
           \A v, w \in Variations : place[v] = place[w],
           \A t, u \in S : WaitsFor(t, u) =>
              Earlier(place, Head(wants[t]), Head(wants[u]))
    PROVE  FALSE
<1> DEFINE g == [t \in S |-> Head(wants[t])]
<1>1. ASSUME NEW t \in S
      PROVE  wants[t] # <<>> /\ Head(wants[t]) \in Rows /\ \E u \in S : WaitsFor(t, u)
  <2>1. PICK u \in S : WaitsFor(t, u)
    BY DEF Closed
  <2>2. wants[t] # <<>> /\ wants[t] \in Seq(Rows)
    BY <2>1 DEF WaitsFor, LocksInv
  <2> QED
    BY <2>1, <2>2, HeadTailProperties
<1>2. g \in [S -> Rows] /\ \A t \in S : \E u \in S : Earlier(place, g[t], g[u])
  BY <1>1
<1>3. IsFiniteSet(S) /\ S # {}
  BY RowLocksAssumption, FS_Subset DEF Closed
<1> HIDE DEF g
<1> QED
  BY <1>2, <1>3, Follow

\* Members of a closed set of one family: each wants something later than what
\* the one who waits for it wants.
LEMMA WaitsRunForward ==
    ASSUME LocksInv, NEW S \in SUBSET Transactions, Closed(S),
           NEW t \in S, NEW u \in S, WaitsFor(t, u)
    PROVE  /\ {op[x] : x \in S} \subseteq Bookings =>
                 Earlier(BookingsPlace, Head(wants[t]), Head(wants[u]))
           /\ {op[x] : x \in S} \subseteq Movements =>
                 Earlier(MovementsPlace, Head(wants[t]), Head(wants[u]))
           /\ {op[x] : x \in S} \subseteq WholeOrder =>
                 Earlier(WholeOrderPlace, Head(wants[t]), Head(wants[u]))
<1>1. PICK w \in S : WaitsFor(u, w)
  BY DEF Closed
<1>2. wants[u] # <<>> /\ u # w /\ t \in Transactions /\ u \in Transactions /\ w \in Transactions
  BY <1>1 DEF WaitsFor
<1>3. PICK p \in Programs(op[u]) : \E m, n \in DOMAIN p :
         /\ m < n /\ op[u] \in Served
         /\ p[m] = Head(wants[t]) /\ p[n] = Head(wants[u])
         /\ \A j \in DOMAIN p : j < n => lock[p[j]] = u
  BY <1>2, HeldThenWanted
<1>4. PICK m \in DOMAIN p, n \in DOMAIN p :
         /\ m < n /\ op[u] \in Served
         /\ p[m] = Head(wants[t]) /\ p[n] = Head(wants[u])
         /\ \A j \in DOMAIN p : j < n => lock[p[j]] = u
  BY <1>3
<1>5. ASSUME {op[x] : x \in S} \subseteq Bookings
      PROVE  Earlier(BookingsPlace, Head(wants[t]), Head(wants[u]))
  <2>1. op[u] \in Bookings
    BY <1>5
  <2> QED
    BY <1>4, <2>1, BookingsInOrder
<1>6. ASSUME {op[x] : x \in S} \subseteq Movements
      PROVE  Earlier(MovementsPlace, Head(wants[t]), Head(wants[u]))
  <2>1. op[u] \in Movements
    BY <1>6
  <2> QED
    BY <1>4, <2>1, MovementsInOrder
<1>7. ASSUME {op[x] : x \in S} \subseteq WholeOrder
      PROVE  Earlier(WholeOrderPlace, Head(wants[t]), Head(wants[u]))
  <2>1. op[u] \in WholeOrder /\ op[w] \in WholeOrder
    BY <1>7
  <2>2. ~(p[n] \in Items /\ p[1] = Order)
    <3> SUFFICES ASSUME p[n] \in Items, p[1] = Order PROVE FALSE
      OBVIOUS
    <3>1. lock[Order] = u
      BY <1>4, <2>1, ItemsAfterOrder
    <3>2. PICK x \in S : WaitsFor(w, x)
      BY DEF Closed
    <3>3. wants[w] # <<>>
      BY <3>2 DEF WaitsFor
    <3>4. PICK q \in Programs(op[w]) : \E a, b \in DOMAIN q :
             /\ a < b /\ op[w] \in Served
             /\ q[a] = Head(wants[u]) /\ q[b] = Head(wants[w])
             /\ \A j \in DOMAIN q : j < b => lock[q[j]] = w
      BY <1>1, <1>2, <3>3, HeldThenWanted
    <3>5. PICK a \in DOMAIN q, b \in DOMAIN q :
             /\ a < b /\ op[w] \in Served
             /\ q[a] = Head(wants[u]) /\ q[b] = Head(wants[w])
             /\ \A j \in DOMAIN q : j < b => lock[q[j]] = w
      BY <3>4
    <3>6. q[1] = Order /\ 1 \in DOMAIN q /\ 1 < a
      BY <1>4, <2>1, <3>5, ItemsAfterOrder
    <3>7. 1 < b
      <4>1. q \in Seq(Rows)
        BY <3>5, ProgramsDistinct DEF Distinct
      <4>2. a \in Nat /\ b \in Nat
        BY <3>5, <4>1, LenProperties
      <4> QED
        BY <3>5, <3>6, <4>2
    <3>8. lock[Order] = w
      BY <3>5, <3>6, <3>7
    <3> QED
      BY <1>2, <3>1, <3>8
  <2> QED
    BY <1>4, <2>1, <2>2, WholeOrderInOrder
<1> QED
  BY <1>5, <1>6, <1>7

\* FamiliesNeverCircle: a circle of waits among handlers of bookings,
\* lifecycle, payments, maintenance and variations needs members of two
\* families that lock the same tables in different orders.
THEOREM NoFamilyCircles == Spec => []FamiliesNeverCircle
<1>1. ASSUME LocksInv PROVE FamiliesNeverCircle
  <2> SUFFICES ASSUME NEW S \in SUBSET Transactions, Circle(S),
                      NEW F \in {Bookings, Movements, WholeOrder},
                      {op[t] : t \in S} \ F = {}
               PROVE  FALSE
    BY DEF FamiliesNeverCircle
  <2>1. Closed(S) /\ {op[t] : t \in S} \subseteq F
    BY DEF Circle
  <2>2. CASE F = Bookings
    <3>1. \A t, u \in S : WaitsFor(t, u) =>
             Earlier(BookingsPlace, Head(wants[t]), Head(wants[u]))
      BY <1>1, <2>1, <2>2, WaitsRunForward
    <3> QED
      BY <1>1, <2>1, <3>1, Places, NoCircleInOrder
  <2>3. CASE F = Movements
    <3>1. \A t, u \in S : WaitsFor(t, u) =>
             Earlier(MovementsPlace, Head(wants[t]), Head(wants[u]))
      BY <1>1, <2>1, <2>3, WaitsRunForward
    <3> QED
      BY <1>1, <2>1, <3>1, Places, NoCircleInOrder
  <2>4. CASE F = WholeOrder
    <3>1. \A t, u \in S : WaitsFor(t, u) =>
             Earlier(WholeOrderPlace, Head(wants[t]), Head(wants[u]))
      BY <1>1, <2>1, <2>4, WaitsRunForward
    <3> QED
      BY <1>1, <2>1, <3>1, Places, NoCircleInOrder
  <2> QED
    BY <2>2, <2>3, <2>4
<1> QED
  BY <1>1, LocksInvHolds, PTL
=============================================================================
