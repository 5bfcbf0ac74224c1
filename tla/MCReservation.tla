---------------------------- MODULE MCReservation ----------------------------
(* Two clerks after one variation over two days: carts of up to three lines, *)
(* an administrator changing its stock and withdrawing it.                  *)
EXTENDS Reservation, TLC

CONSTANTS c1, c2, v1, r1, r2, r3

MCClerks     == {c1, c2}
MCVariations == {v1}
MCRank       == v1 :> 1
MCRows       == {r1, r2, r3}
MCDays       == 1..2

Line(v, from, to, qty) ==
    [variation |-> v, from |-> from, to |-> to, qty |-> qty]

MCLines == {Line(v1, 1, 1, 2), Line(v1, 1, 2, 1)}

Symmetry == Permutations(MCClerks) \cup Permutations(MCRows)
=============================================================================
