------------------------------ MODULE MCCounter ------------------------------
(* Two members of staff on one order of two lines. *)
EXTENDS Counter, TLC

CONSTANTS q1, q2, i1, i2

MCRequests == {q1, q2}
MCItems    == {i1, i2}

Symmetry == Permutations(MCRequests)
=============================================================================
