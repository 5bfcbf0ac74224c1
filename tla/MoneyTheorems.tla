--------------------------- MODULE MoneyTheorems ----------------------------
(***************************************************************************)
(* The arithmetic every component's proofs rest on: what a sum over a      *)
(* finite set is -- nothing for no rows, a row's value and the sum of the  *)
(* others, a number when the values are -- and what posting a row and      *)
(* settling an account does to the summary of a ledger.                    *)
(*                                                                         *)
(* A fold is a recursive function on the subsets of its set.  That there   *)
(* is one, and each fact about it, is proved by a smallest counterexample: *)
(* the subsets of a finite set are well-founded under inclusion.           *)
(***************************************************************************)
EXTENDS Sums, PaymentSummary, FiniteSetTheorems, WellFoundedInduction, TLAPS

(* Sums *)

Pick(s) == CHOOSE x \in s : TRUE

\* g is the table the fold of f over S is defined by.
SumTable(f, S, g) ==
    g = [s \in SUBSET S |-> IF s = {} THEN 0 ELSE f[Pick(s)] + g[s \ {Pick(s)}]]

\* SumOver reads such a table.
LEMMA SumIsTable ==
    \A f, S : SumOver(f, S) = (CHOOSE g : SumTable(f, S, g))[S]
  BY DEF SumOver, FoldFunctionOnSet, MapThenFoldSet, SumTable, Pick

\* Among the subsets of a finite set in a family there is a smallest one.
LEMMA Smallest ==
    ASSUME NEW S, IsFiniteSet(S), NEW Bad \in SUBSET (SUBSET S), Bad # {}
    PROVE  \E T \in Bad : \A U \in SUBSET T : U # T => U \notin Bad
<1> DEFINE R == StrictSubsetOrdering(S)
<1>1. IsWellFoundedOn(R, SUBSET S)
  BY FS_StrictSubsetOrderingWellFounded, FS_FiniteSubsetsOfFinite
<1> HIDE DEF R
<1>2. PICK T \in Bad : \A U \in Bad : ~(<<U, T>> \in R)
  BY <1>1, WFMin
<1>3. ASSUME NEW U \in SUBSET T, U # T, U \in Bad
      PROVE  FALSE
  <2>1. <<U, T>> \in R
    BY <1>3 DEF R, StrictSubsetOrdering
  <2> QED
    BY <1>2, <1>3, <2>1
<1> QED
  BY <1>2, <1>3

\* What a set without one of its members is.
LEMMA Without ==
    ASSUME NEW s, s # {}
    PROVE  Pick(s) \in s /\ s \ {Pick(s)} \in SUBSET s /\ s \ {Pick(s)} # s
  BY DEF Pick

\* A table at the empty set.
LEMMA TableBase ==
    ASSUME NEW f, NEW S, NEW tab, SumTable(f, S, tab)
    PROVE  tab[{}] = 0
<1>1. \A s \in SUBSET S : tab[s] = IF s = {} THEN 0 ELSE f[Pick(s)] + tab[s \ {Pick(s)}]
  BY Zenon DEF SumTable
<1> QED
  BY <1>1

\* A table at a set with members.
LEMMA TableStep ==
    ASSUME NEW f, NEW S, NEW tab, SumTable(f, S, tab), NEW s \in SUBSET S, s # {}
    PROVE  tab[s] = f[Pick(s)] + tab[s \ {Pick(s)}]
<1>1. tab[s] = IF s = {} THEN 0 ELSE f[Pick(s)] + tab[s \ {Pick(s)}]
  BY Zenon DEF SumTable
<1> QED
  BY <1>1

\* Two tables agree where both are defined.
LEMMA TablesAgree ==
    ASSUME NEW f, NEW S, IsFiniteSet(S), NEW A, NEW B, S \subseteq A, S \subseteq B,
           NEW g, SumTable(f, A, g), NEW h, SumTable(f, B, h)
    PROVE  g[S] = h[S]
<1> DEFINE Bad == {s \in SUBSET S : g[s] # h[s]}
<1> SUFFICES ASSUME Bad # {} PROVE FALSE
  OBVIOUS
<1>0. Bad \in SUBSET (SUBSET S) /\ Bad # {}
  OBVIOUS
<1>1. PICK T \in Bad : \A U \in SUBSET T : U # T => U \notin Bad
  <2> HIDE DEF Bad
  <2> QED
    BY <1>0, Smallest
<1>2. T \in SUBSET S /\ T \in SUBSET A /\ T \in SUBSET B /\ g[T] # h[T]
  OBVIOUS
<1>3. g[{}] = 0 /\ h[{}] = 0
  BY TableBase
<1>4. T # {}
  BY <1>2, <1>3
<1> DEFINE U == T \ {Pick(T)}
<1>5. U \in SUBSET T /\ U # T
  BY <1>4, Without
<1>6. g[U] = h[U]
  BY <1>1, <1>2, <1>5
<1>7. ASSUME NEW C, NEW k, SumTable(f, C, k), T \in SUBSET C
      PROVE  k[T] = f[Pick(T)] + k[U]
  <2> HIDE DEF Bad
  <2> QED
    BY <1>4, <1>7, TableStep
<1> QED
  BY <1>2, <1>6, <1>7

\* A table exists for every finite set.
LEMMA TableExists ==
    ASSUME NEW f, NEW S, IsFiniteSet(S)
    PROVE  \E g : SumTable(f, S, g)
<1> DEFINE Bad == {s \in SUBSET S : ~ \E g : SumTable(f, s, g)}
<1> SUFFICES ASSUME Bad # {} PROVE FALSE
  OBVIOUS
<1>0. Bad \in SUBSET (SUBSET S) /\ Bad # {}
  OBVIOUS
<1>1. PICK T \in Bad : \A U \in SUBSET T : U # T => U \notin Bad
  <2> HIDE DEF Bad
  <2> QED
    BY <1>0, Smallest
<1>2. T \in SUBSET S /\ ~ \E g : SumTable(f, T, g)
  OBVIOUS
<1> DEFINE tab(u) == CHOOSE g : SumTable(f, u, g)
           new == [s \in SUBSET T |-> IF s = {} THEN 0
                                      ELSE f[Pick(s)] + tab(s \ {Pick(s)})[s \ {Pick(s)}]]
<1>3. ASSUME NEW u \in SUBSET T, u # T
      PROVE  SumTable(f, u, tab(u)) /\ IsFiniteSet(u)
  <2>1. u \in SUBSET S /\ u \notin Bad
    BY <1>1, <1>2, <1>3
  <2>2. \E g : SumTable(f, u, g)
    BY <2>1
  <2> QED
    BY <2>1, <2>2, FS_Subset
<1>4. ASSUME NEW u \in SUBSET T, u # T
      PROVE  new[u] = tab(u)[u]
  <2>1. SumTable(f, u, tab(u))
    BY <1>3, <1>4
  <2>2. CASE u = {}
    <3>1. tab(u)[{}] = 0
      BY <2>1, TableBase
    <3> QED
      BY <2>2, <3>1
  <2>3. CASE u # {}
    <3> DEFINE w == u \ {Pick(u)}
    <3>1. w \in SUBSET u /\ w \in SUBSET T /\ w # T /\ u \in SUBSET u
      BY <1>4, <2>3, Without
    <3>2. SumTable(f, w, tab(w)) /\ IsFiniteSet(w)
      BY <1>3, <3>1
    <3>3. tab(u)[w] = tab(w)[w]
      BY <2>1, <3>1, <3>2, TablesAgree
    <3>4. tab(u)[u] = f[Pick(u)] + tab(u)[w]
      <4> DEFINE g == tab(u)
      <4>1. SumTable(f, u, g)
        BY <2>1
      <4> HIDE DEF g, Bad, new, tab
      <4>2. g[u] = f[Pick(u)] + g[w]
        BY <2>3, <3>1, <4>1, TableStep
      <4> QED
        BY <4>2 DEF g
    <3>5. new[u] = f[Pick(u)] + tab(w)[w]
      BY <2>3
    <3> QED
      BY <3>3, <3>4, <3>5
  <2> QED
    BY <2>2, <2>3
<1>5. ASSUME NEW s \in SUBSET T, s # {}
      PROVE  new[s \ {Pick(s)}] = tab(s \ {Pick(s)})[s \ {Pick(s)}]
  <2>1. s \ {Pick(s)} \in SUBSET T /\ s \ {Pick(s)} # T
    BY <1>5, Without
  <2> QED
    BY <1>4, <2>1
<1>6. new = [s \in SUBSET T |-> IF s = {} THEN 0 ELSE f[Pick(s)] + new[s \ {Pick(s)}]]
  <2>1. \A s \in SUBSET T :
           new[s] = IF s = {} THEN 0 ELSE f[Pick(s)] + new[s \ {Pick(s)}]
    <3>1. \A s \in SUBSET T : s # {} =>
             new[s] = f[Pick(s)] + tab(s \ {Pick(s)})[s \ {Pick(s)}]
      OBVIOUS
    <3>2. {} \in SUBSET T => new[{}] = 0
      OBVIOUS
    <3> HIDE DEF new, tab
    <3> QED
      BY <1>5, <3>1, <3>2
  <2>2. new = [s \in SUBSET T |-> new[s]]
    OBVIOUS
  <2> HIDE DEF new
  <2> QED
    BY <2>1, <2>2
<1>7. SumTable(f, T, new)
  BY <1>6 DEF SumTable
<1> HIDE DEF new
<1> QED
  BY <1>2, <1>7
-----------------------------------------------------------------------------
\* Nothing is the sum over no rows.
THEOREM SumEmpty ==
    \A f : SumOver(f, {}) = 0
<1> SUFFICES ASSUME NEW f PROVE SumOver(f, {}) = 0
  OBVIOUS
<1> DEFINE tab == CHOOSE g : SumTable(f, {}, g)
<1>1. SumTable(f, {}, tab)
  <2>1. \E g : SumTable(f, {}, g)
    BY TableExists, FS_EmptySet
  <2> QED
    BY <2>1
<1>2. SumOver(f, {}) = tab[{}]
  BY SumIsTable
<1> HIDE DEF tab
<1> QED
  BY <1>1, <1>2, TableBase

\* A table knows the sums of all subsets of its set.
LEMMA TableIsSums ==
    ASSUME NEW f, NEW S, IsFiniteSet(S), NEW tab, SumTable(f, S, tab),
           NEW s \in SUBSET S
    PROVE  tab[s] = SumOver(f, s)
<1> DEFINE own == CHOOSE g : SumTable(f, s, g)
<1>1. IsFiniteSet(s)
  BY FS_Subset
<1>2. SumTable(f, s, own)
  BY <1>1, TableExists
<1>3. SumOver(f, s) = own[s]
  BY SumIsTable
<1> HIDE DEF own
<1>4. tab[s] = own[s]
  BY <1>1, <1>2, TablesAgree
<1> QED
  BY <1>3, <1>4

\* The row the fold takes first, and the others.
LEMMA SumPicked ==
    ASSUME NEW f, NEW S, IsFiniteSet(S), S # {}
    PROVE  SumOver(f, S) = f[Pick(S)] + SumOver(f, S \ {Pick(S)})
<1>1. PICK tab : SumTable(f, S, tab)
  BY TableExists
<1>2. S \in SUBSET S /\ S \ {Pick(S)} \in SUBSET S
  OBVIOUS
<1>3. tab[S] = f[Pick(S)] + tab[S \ {Pick(S)}]
  BY <1>1, <1>2, TableStep
<1>4. tab[S] = SumOver(f, S)
  BY <1>1, <1>2, TableIsSums
<1>5. tab[S \ {Pick(S)}] = SumOver(f, S \ {Pick(S)})
  BY <1>1, <1>2, TableIsSums
<1> QED
  BY <1>3, <1>4, <1>5

\* A sum of integers is an integer.
THEOREM SumIsInt ==
    ASSUME NEW f, NEW S, IsFiniteSet(S), \A x \in S : f[x] \in Int
    PROVE  SumOver(f, S) \in Int
<1> DEFINE Bad == {s \in SUBSET S : SumOver(f, s) \notin Int}
<1> SUFFICES ASSUME Bad # {} PROVE FALSE
  OBVIOUS
<1>0. Bad \in SUBSET (SUBSET S) /\ Bad # {}
  OBVIOUS
<1>1. PICK T \in Bad : \A U \in SUBSET T : U # T => U \notin Bad
  <2> HIDE DEF Bad
  <2> QED
    BY <1>0, Smallest
<1>2. T \in SUBSET S /\ SumOver(f, T) \notin Int /\ IsFiniteSet(T)
  BY FS_Subset
<1>3. T # {}
  BY <1>2, SumEmpty
<1>4. Pick(T) \in T /\ T \ {Pick(T)} \in SUBSET T /\ T \ {Pick(T)} # T
  BY <1>3, Without
<1>5. SumOver(f, T \ {Pick(T)}) \in Int
  BY <1>1, <1>2, <1>4
<1>6. SumOver(f, T) = f[Pick(T)] + SumOver(f, T \ {Pick(T)})
  BY <1>2, <1>3, SumPicked
<1>7. f[Pick(T)] \in Int
  BY <1>2, <1>4
<1> QED
  BY <1>2, <1>5, <1>6, <1>7

\* Any row can be taken first.
THEOREM SumRemove ==
    ASSUME NEW f, NEW S, IsFiniteSet(S), \A x \in S : f[x] \in Int, NEW z \in S
    PROVE  SumOver(f, S) = f[z] + SumOver(f, S \ {z})
<1> DEFINE Parts(s) == \A x \in s : SumOver(f, s) = f[x] + SumOver(f, s \ {x})
           Bad == {s \in SUBSET S : ~Parts(s)}
<1> SUFFICES ASSUME Bad # {} PROVE FALSE
  OBVIOUS
<1>0. Bad \in SUBSET (SUBSET S) /\ Bad # {}
  OBVIOUS
<1>1. PICK T \in Bad : \A U \in SUBSET T : U # T => U \notin Bad
  <2> HIDE DEF Bad
  <2> QED
    BY <1>0, Smallest
<1>2. T \in SUBSET S /\ IsFiniteSet(T) /\ ~Parts(T)
  BY FS_Subset
<1>3. PICK x \in T : SumOver(f, T) # f[x] + SumOver(f, T \ {x})
  BY <1>2
<1>4. Pick(T) \in T
  BY Without
<1> DEFINE y == Pick(T)
<1>5. SumOver(f, T) = f[y] + SumOver(f, T \ {y})
  BY <1>2, SumPicked
<1> HIDE DEF y
<1>6. y \in T /\ y # x
  BY <1>3, <1>4, <1>5 DEF y
<1>7. ASSUME NEW U \in SUBSET T, U # T, NEW w \in U
      PROVE  SumOver(f, U) = f[w] + SumOver(f, U \ {w})
  <2>1. U \notin Bad /\ U \in SUBSET S
    BY <1>1, <1>2, <1>7
  <2> QED
    BY <2>1
<1>8. SumOver(f, T \ {y}) = f[x] + SumOver(f, (T \ {y}) \ {x})
  BY <1>6, <1>7
<1>9. SumOver(f, T \ {x}) = f[y] + SumOver(f, (T \ {x}) \ {y})
  BY <1>6, <1>7
<1> DEFINE rest == T \ {x, y}
<1>10. (T \ {y}) \ {x} = rest /\ (T \ {x}) \ {y} = rest
  OBVIOUS
<1>11. SumOver(f, rest) \in Int /\ f[x] \in Int /\ f[y] \in Int
  <2>1. IsFiniteSet(rest) /\ rest \in SUBSET S
    BY <1>2, FS_Subset
  <2> QED
    BY <1>2, <1>6, <2>1, SumIsInt
<1> HIDE DEF rest, Bad
<1>12. SumOver(f, T) = f[y] + (f[x] + SumOver(f, rest))
  BY <1>5, <1>8, <1>10
<1>13. f[x] + SumOver(f, T \ {x}) = f[x] + (f[y] + SumOver(f, rest))
  BY <1>9, <1>10
<1>14. f[y] + (f[x] + SumOver(f, rest)) = f[x] + (f[y] + SumOver(f, rest))
  BY <1>11
<1> QED
  BY <1>3, <1>12, <1>13, <1>14

\* A sum depends on the values of its rows only.
THEOREM SumAgree ==
    ASSUME NEW f, NEW g, NEW S, IsFiniteSet(S), \A x \in S : f[x] = g[x]
    PROVE  SumOver(f, S) = SumOver(g, S)
<1> DEFINE Bad == {s \in SUBSET S : SumOver(f, s) # SumOver(g, s)}
<1> SUFFICES ASSUME Bad # {} PROVE FALSE
  OBVIOUS
<1>0. Bad \in SUBSET (SUBSET S) /\ Bad # {}
  OBVIOUS
<1>1. PICK T \in Bad : \A U \in SUBSET T : U # T => U \notin Bad
  <2> HIDE DEF Bad
  <2> QED
    BY <1>0, Smallest
<1>2. T \in SUBSET S /\ SumOver(f, T) # SumOver(g, T) /\ IsFiniteSet(T)
  BY FS_Subset
<1>3. T # {}
  BY <1>2, SumEmpty
<1>4. Pick(T) \in T /\ T \ {Pick(T)} \in SUBSET T /\ T \ {Pick(T)} # T
  BY <1>3, Without
<1>5. SumOver(f, T \ {Pick(T)}) = SumOver(g, T \ {Pick(T)})
  BY <1>1, <1>2, <1>4
<1>6. SumOver(f, T) = f[Pick(T)] + SumOver(f, T \ {Pick(T)})
  BY <1>2, <1>3, SumPicked
<1>7. SumOver(g, T) = g[Pick(T)] + SumOver(g, T \ {Pick(T)})
  BY <1>2, <1>3, SumPicked
<1>8. f[Pick(T)] = g[Pick(T)]
  BY <1>2, <1>4
<1> QED
  BY <1>2, <1>5, <1>6, <1>7, <1>8

\* A sum of naturals is a natural.
THEOREM SumIsNat ==
    ASSUME NEW f, NEW S, IsFiniteSet(S), \A x \in S : f[x] \in Nat
    PROVE  SumOver(f, S) \in Nat
<1> DEFINE Bad == {s \in SUBSET S : SumOver(f, s) \notin Nat}
<1> SUFFICES ASSUME Bad # {} PROVE FALSE
  OBVIOUS
<1>0. Bad \in SUBSET (SUBSET S) /\ Bad # {}
  OBVIOUS
<1>1. PICK T \in Bad : \A U \in SUBSET T : U # T => U \notin Bad
  <2> HIDE DEF Bad
  <2> QED
    BY <1>0, Smallest
<1>2. T \in SUBSET S /\ SumOver(f, T) \notin Nat /\ IsFiniteSet(T)
  BY FS_Subset
<1>3. T # {}
  BY <1>2, SumEmpty
<1>4. Pick(T) \in T /\ T \ {Pick(T)} \in SUBSET T /\ T \ {Pick(T)} # T
  BY <1>3, Without
<1>5. SumOver(f, T \ {Pick(T)}) \in Nat
  BY <1>1, <1>2, <1>4
<1>6. SumOver(f, T) = f[Pick(T)] + SumOver(f, T \ {Pick(T)})
  BY <1>2, <1>3, SumPicked
<1>7. f[Pick(T)] \in Nat
  BY <1>2, <1>4
<1> QED
  BY <1>2, <1>5, <1>6, <1>7

\* Whatever grows by a row's value with every row is the sum.
THEOREM SumUnfolds ==
    ASSUME NEW f, NEW S, IsFiniteSet(S), \A x \in S : f[x] \in Int, NEW F,
           F[{}] = 0,
           \A T \in SUBSET S : \A x \in T : F[T] = f[x] + F[T \ {x}]
    PROVE  F[S] = SumOver(f, S)
<1> DEFINE Bad == {s \in SUBSET S : F[s] # SumOver(f, s)}
<1> SUFFICES ASSUME Bad # {} PROVE FALSE
  OBVIOUS
<1>0. Bad \in SUBSET (SUBSET S) /\ Bad # {}
  OBVIOUS
<1>1. PICK T \in Bad : \A U \in SUBSET T : U # T => U \notin Bad
  <2> HIDE DEF Bad
  <2> QED
    BY <1>0, Smallest
<1>2. T \in SUBSET S /\ F[T] # SumOver(f, T) /\ IsFiniteSet(T)
  BY FS_Subset
<1>3. T # {}
  BY <1>2, SumEmpty
<1>4. Pick(T) \in T /\ T \ {Pick(T)} \in SUBSET T /\ T \ {Pick(T)} # T
  BY <1>3, Without
<1>5. F[T \ {Pick(T)}] = SumOver(f, T \ {Pick(T)})
  BY <1>1, <1>2, <1>4
<1>6. SumOver(f, T) = f[Pick(T)] + SumOver(f, T \ {Pick(T)})
  BY <1>2, <1>3, SumPicked
<1> QED
  BY <1>2, <1>4, <1>5, <1>6

\* Rows of nothing add up to nothing.
LEMMA SumOfNothing ==
    ASSUME NEW f, NEW S, IsFiniteSet(S), \A x \in S : f[x] = 0
    PROVE  SumOver(f, S) = 0
<1> DEFINE F == [s \in SUBSET S |-> 0]
<1>1. F[{}] = 0 /\ F[S] = 0
  OBVIOUS
<1>2. \A T \in SUBSET S : \A x \in T : F[T] = f[x] + F[T \ {x}]
  <2> SUFFICES ASSUME NEW T \in SUBSET S, NEW x \in T
               PROVE  F[T] = f[x] + F[T \ {x}]
    OBVIOUS
  <2>1. T \ {x} \in SUBSET S
    OBVIOUS
  <2>2. F[T] = 0 /\ F[T \ {x}] = 0
    BY <2>1
  <2>3. f[x] = 0
    OBVIOUS
  <2> QED
    BY <2>2, <2>3
<1>3. \A x \in S : f[x] \in Int
  OBVIOUS
<1> HIDE DEF F
<1> QED
  BY <1>1, <1>2, <1>3, SumUnfolds

\* A sum over more rows of naturals is no smaller.
LEMMA SumMonotone ==
    ASSUME NEW f, NEW T, IsFiniteSet(T), \A x \in T : f[x] \in Nat, NEW S \in SUBSET T
    PROVE  SumOver(f, S) <= SumOver(f, T)
<1> DEFINE Bad == {u \in SUBSET T : ~(SumOver(f, u \cap S) <= SumOver(f, u))}
<1> SUFFICES ASSUME Bad # {} PROVE FALSE
  <2>1. T \notin Bad
    OBVIOUS
  <2>2. T \cap S = S
    OBVIOUS
  <2> QED
    BY <2>1, <2>2
<1>0. Bad \in SUBSET (SUBSET T) /\ Bad # {}
  OBVIOUS
<1>1. PICK u \in Bad : \A v \in SUBSET u : v # u => v \notin Bad
  <2> HIDE DEF Bad
  <2> QED
    BY <1>0, Smallest
<1>2. u \in SUBSET T /\ ~(SumOver(f, u \cap S) <= SumOver(f, u))
  OBVIOUS
<1>3. u # {}
  <2>1. {} \cap S = {}
    OBVIOUS
  <2>2. SumOver(f, {}) = 0
    BY SumEmpty
  <2> QED
    BY <1>2, <2>1, <2>2
<1>4. PICK x : x \in u
  BY <1>3
<1> DEFINE v == u \ {x}
<1>5. v \in SUBSET u /\ v # u /\ v \in SUBSET T
  BY <1>2, <1>4
<1>6. SumOver(f, v \cap S) <= SumOver(f, v)
  BY <1>1, <1>5
<1>7. /\ IsFiniteSet(u) /\ IsFiniteSet(v) /\ IsFiniteSet(u \cap S) /\ IsFiniteSet(v \cap S)
      /\ u \cap S \subseteq T /\ v \cap S \subseteq T
  <2>1. u \cap S \in SUBSET T /\ v \cap S \in SUBSET T
    BY <1>2, <1>5
  <2> QED
    BY <1>2, <1>5, <2>1, FS_Subset
<1> HIDE DEF Bad
<1>8. /\ SumOver(f, u) \in Int /\ SumOver(f, v) \in Int
      /\ SumOver(f, u \cap S) \in Int /\ SumOver(f, v \cap S) \in Int
  BY <1>2, <1>5, <1>7, SumIsInt
<1>9. SumOver(f, u) = f[x] + SumOver(f, v) /\ f[x] \in Nat
  BY <1>2, <1>4, <1>7, SumRemove
<1>10. CASE x \in S
  <2>1. x \in u \cap S /\ (u \cap S) \ {x} = v \cap S
    BY <1>4, <1>10
  <2>2. \A y \in u \cap S : f[y] \in Int
    BY <1>7
  <2>3. SumOver(f, u \cap S) = f[x] + SumOver(f, (u \cap S) \ {x})
    BY <1>7, <2>1, <2>2, SumRemove
  <2>4. SumOver(f, u \cap S) = f[x] + SumOver(f, v \cap S)
    BY <2>1, <2>3
  <2> HIDE DEF v
  <2> QED
    BY <1>2, <1>6, <1>8, <1>9, <2>4
<1>11. CASE x \notin S
  <2>1. u \cap S = v \cap S
    BY <1>11
  <2> HIDE DEF v
  <2> QED
    BY <1>2, <1>6, <1>8, <1>9, <2>1
<1> QED
  BY <1>10, <1>11

\* Two tables of rows that differ in one row differ by that row's difference.
LEMMA SumChange ==
    ASSUME NEW f, NEW g, NEW S, IsFiniteSet(S), NEW z \in S,
           \A x \in S : f[x] \in Int, \A x \in S : g[x] \in Int,
           \A x \in S \ {z} : g[x] = f[x]
    PROVE  SumOver(g, S) = SumOver(f, S) + (g[z] - f[z])
<1> DEFINE R == S \ {z}
<1>1. IsFiniteSet(R) /\ R \subseteq S
  <2>1. R \in SUBSET S
    OBVIOUS
  <2> QED
    BY <2>1, FS_Subset
<1>2. SumOver(f, S) = f[z] + SumOver(f, R)
  BY SumRemove
<1>3. SumOver(g, S) = g[z] + SumOver(g, R)
  BY SumRemove
<1>4. \A x \in R : f[x] = g[x]
  OBVIOUS
<1>5. \A x \in R : f[x] \in Int
  OBVIOUS
<1> HIDE DEF R
<1>6. SumOver(f, R) = SumOver(g, R)
  BY <1>1, <1>4, SumAgree
<1>7. SumOver(f, R) \in Int
  BY <1>1, <1>5, SumIsInt
<1>8. f[z] \in Int /\ g[z] \in Int
  OBVIOUS
<1> QED
  BY <1>2, <1>3, <1>6, <1>7, <1>8
-----------------------------------------------------------------------------
(* The summary of a ledger *)

\* One more row on the ledger adds to the sum of its own type only.
LEMMA PostType ==
    ASSUME NEW l \in Ledgers, NEW t \in PaymentTypes, NEW a \in Nat
    PROVE  /\ Post(l, t, a) \in Ledgers
           /\ Post(l, t, a)[t] = l[t] + a
           /\ \A u \in PaymentTypes \ {t} : Post(l, t, a)[u] = l[u]
BY DEF Post, Ledgers

\* A row of nothing changes no ledger.
LEMMA PostNothing ==
    ASSUME NEW l \in Ledgers, NEW t \in PaymentTypes
    PROVE  Post(l, t, 0) = l
BY DEF Post, Ledgers

\* The sums of a ledger are naturals, and so is the deposit held.
LEMMA LedgerNat ==
    ASSUME NEW l \in Ledgers
    PROVE  /\ l["advance"] \in Nat /\ l["balance"] \in Nat
           /\ l["security_deposit"] \in Nat /\ l["refund"] \in Nat
           /\ l["deposit_release"] \in Nat /\ l["deposit_applied"] \in Nat
           /\ RentCollected(l) \in Int
           /\ DepositHeld(l) \in Nat
BY DEF Ledgers, PaymentTypes, RentCollected, DepositHeld, NonNegative

\* The two transfers leave the two balances on the same side of zero, and
\* move money between them without making or losing any.
LEMMA NettedOneSided ==
    ASSUME NEW r \in Int, NEW s \in Int
    PROVE  /\ Netted(r, s).rent \in Int /\ Netted(r, s).deposit \in Int
           /\ Netted(r, s).rent + Netted(r, s).deposit = r + s
           /\ \/ Netted(r, s).rent >= 0 /\ Netted(r, s).deposit >= 0
              \/ Netted(r, s).rent <= 0 /\ Netted(r, s).deposit <= 0
BY DEF Netted, Transfer, Lesser, NonNegative

\* Balances on the same side of zero split into an outstanding part or a
\* credit, never both.
LEMMA SplitOneSided ==
    ASSUME NEW b, NEW r \in Int, NEW s \in Int, b.rent = r, b.deposit = s,
           \/ r >= 0 /\ s >= 0
           \/ r <= 0 /\ s <= 0
    PROVE  /\ OutstandingOf(b) \in Nat /\ CreditOf(b) \in Nat
           /\ OutstandingOf(b) = 0 \/ CreditOf(b) = 0
           /\ OutstandingOf(b) - CreditOf(b) = r + s
<1>1. /\ OutstandingOf(b) = NonNegative(r) + NonNegative(s)
      /\ CreditOf(b) = NonNegative(0 - r) + NonNegative(0 - s)
  BY DEF OutstandingOf, CreditOf
<1>2. QED
  BY <1>1 DEF NonNegative

\* One of what is owed and what is owed back is zero, and their difference
\* is the net of the whole account.
LEMMA SummaryOneSided ==
    ASSUME NEW l \in Ledgers, NEW p \in Int, NEW d \in Int
    PROVE  /\ OutstandingOf(Balances(l, p, d)) \in Nat
           /\ CreditOf(Balances(l, p, d)) \in Nat
           /\ \/ OutstandingOf(Balances(l, p, d)) = 0
              \/ CreditOf(Balances(l, p, d)) = 0
           /\ OutstandingOf(Balances(l, p, d)) - CreditOf(Balances(l, p, d))
                = (p - RentCollected(l)) + (d - l["security_deposit"])
<1> DEFINE b == Balances(l, p, d)
           x == p - RentCollected(l)
           y == d - l["security_deposit"]
<1>1. x \in Int /\ y \in Int
  BY LedgerNat
<1>2. b = Netted(x, y)
  BY DEF Balances
<1> HIDE DEF b, x, y
<1>3. /\ b.rent \in Int /\ b.deposit \in Int
      /\ b.rent + b.deposit = x + y
      /\ \/ b.rent >= 0 /\ b.deposit >= 0
         \/ b.rent <= 0 /\ b.deposit <= 0
  BY <1>1, <1>2, NettedOneSided
<1>4. /\ OutstandingOf(b) \in Nat /\ CreditOf(b) \in Nat
      /\ OutstandingOf(b) = 0 \/ CreditOf(b) = 0
      /\ OutstandingOf(b) - CreditOf(b) = b.rent + b.deposit
  BY <1>3, SplitOneSided
<1>5. OutstandingOf(b) - CreditOf(b) = x + y
  BY <1>3, <1>4
<1>6. QED
  BY <1>4, <1>5 DEF b, x, y

\* The derived payment status is one of the four.
LEMMA StatusType ==
    ASSUME NEW l, NEW p, NEW d
    PROVE  StatusOf(l, p, d) \in PaymentStatuses
BY DEF StatusOf, PaymentStatuses

\* A settlement releases what is held of the deposit and refunds what the rent
\* side has beyond what is payable; it touches no other sum.
LEMMA SettledRows ==
    ASSUME NEW l \in Ledgers, NEW p \in Int
    PROVE  LET s == Settled(l, p)
           IN  /\ s \in Ledgers
               /\ s["refund"] = l["refund"] + NonNegative(RentCollected(l) - p)
               /\ s["deposit_release"] = l["deposit_release"] + DepositHeld(l)
               /\ \A u \in PaymentTypes \ {"refund", "deposit_release"} : s[u] = l[u]
<1> DEFINE h == DepositHeld(l)
           m == Post(l, "deposit_release", h)
           x == NonNegative(RentCollected(m) - p)
           s == Post(m, "refund", x)
<1>1. h \in Nat
  BY LedgerNat
<1> HIDE DEF h
<1>2. /\ m \in Ledgers
      /\ m["deposit_release"] = l["deposit_release"] + h
      /\ \A u \in PaymentTypes \ {"deposit_release"} : m[u] = l[u]
  BY <1>1, PostType DEF PaymentTypes
<1> HIDE DEF m
<1>3. RentCollected(m) = RentCollected(l)
  BY <1>2 DEF RentCollected, PaymentTypes
<1>4. x \in Nat
  BY <1>2, LedgerNat DEF NonNegative
<1> HIDE DEF x
<1>5. /\ s \in Ledgers
      /\ s["refund"] = m["refund"] + x
      /\ \A u \in PaymentTypes \ {"refund"} : s[u] = m[u]
  BY <1>2, <1>4, PostType DEF PaymentTypes
<1>6. Settled(l, p) = s
  BY DEF Settled, s, x, m, h
<1> HIDE DEF s
<1>7. x = NonNegative(RentCollected(l) - p)
  BY <1>3 DEF x
<1>8. s["refund"] = l["refund"] + NonNegative(RentCollected(l) - p)
  BY <1>2, <1>5, <1>7 DEF PaymentTypes
<1>9. s["deposit_release"] = l["deposit_release"] + DepositHeld(l)
  BY <1>2, <1>5 DEF PaymentTypes, h
<1>10. \A u \in PaymentTypes \ {"refund", "deposit_release"} : s[u] = l[u]
  BY <1>2, <1>5
<1> QED
  BY <1>5, <1>6, <1>8, <1>9, <1>10

\* Whatever was on the ledger, a settlement leaves nothing held and no rent
\* over-paid.
THEOREM SettledSquare ==
    ASSUME NEW l \in Ledgers, NEW p \in Int
    PROVE  /\ Settled(l, p) \in Ledgers
           /\ DepositHeld(Settled(l, p)) = 0
           /\ RentCollected(Settled(l, p)) <= p
<1> DEFINE s == Settled(l, p)
           x == NonNegative(RentCollected(l) - p)
<1>1. /\ s \in Ledgers
      /\ s["refund"] = l["refund"] + x
      /\ s["deposit_release"] = l["deposit_release"] + DepositHeld(l)
      /\ s["advance"] = l["advance"] /\ s["balance"] = l["balance"]
      /\ s["security_deposit"] = l["security_deposit"]
      /\ s["deposit_applied"] = l["deposit_applied"]
  BY SettledRows DEF PaymentTypes
<1> HIDE DEF s
<1>2. DepositHeld(s) = 0
  BY <1>1, LedgerNat DEF DepositHeld, NonNegative
<1>3. x \in Nat /\ RentCollected(l) - x <= p
  BY LedgerNat DEF NonNegative
<1>4. RentCollected(s) = RentCollected(l) - x
  BY <1>1, <1>3, LedgerNat DEF RentCollected
<1> QED
  BY <1>1, <1>2, <1>3, <1>4 DEF s

\* ... and where each pool covered what went out of it, and the damage kept is
\* payable, each pool still does.
LEMMA SettledCovered ==
    ASSUME NEW l \in Ledgers, NEW p \in Int,
           l["refund"] <= l["advance"] + l["balance"],
           l["deposit_release"] <= l["security_deposit"],
           l["deposit_applied"] <= p
    PROVE  LET s == Settled(l, p)
           IN  /\ s["refund"] <= s["advance"] + s["balance"]
               /\ s["deposit_release"] <= s["security_deposit"]
               /\ s["deposit_applied"] = l["deposit_applied"]
<1> DEFINE s == Settled(l, p)
           x == NonNegative(RentCollected(l) - p)
<1>1. /\ s["refund"] = l["refund"] + x
      /\ s["deposit_release"] = l["deposit_release"] + DepositHeld(l)
      /\ s["advance"] = l["advance"] /\ s["balance"] = l["balance"]
      /\ s["security_deposit"] = l["security_deposit"]
      /\ s["deposit_applied"] = l["deposit_applied"]
  BY SettledRows DEF PaymentTypes
<1> HIDE DEF s
<1>2. s["refund"] <= s["advance"] + s["balance"]
  BY <1>1, LedgerNat DEF NonNegative, RentCollected
<1>3. s["deposit_release"] <= s["security_deposit"]
  BY <1>1, LedgerNat DEF DepositHeld, NonNegative
<1> QED
  BY <1>1, <1>2, <1>3 DEF s
=============================================================================
