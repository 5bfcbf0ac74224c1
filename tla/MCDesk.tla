------------------------------- MODULE MCDesk -------------------------------
(* One clerk booking and two (or one) at the counter, over two days.       *)
EXTENDS Desk, TLC

CONSTANTS c1, h1, h2, v1, r1, r2

MCClerks     == {c1}
MCHands      == {h1, h2}
MCHand       == {h1}
MCVariations == {v1}
MCRank       == v1 :> 1
MCRows       == {r1, r2}
MCDays       == 1..2

Line(v, from, to, qty) ==
    [variation |-> v, from |-> from, to |-> to, qty |-> qty]

MCLines == {Line(v1, 1, 1, 1), Line(v1, 1, 2, 1), Line(v1, 2, 2, 1)}

MCOverlapping == {Line(v1, 1, 1, 1), Line(v1, 1, 2, 1)}

Symmetry == Permutations(MCHands) \cup Permutations(MCRows)
RowSymmetry == Permutations(MCRows)
=============================================================================
