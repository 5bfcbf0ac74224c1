------------------------------ MODULE MCLedger ------------------------------
(* Two lines, small amounts: every alternative of every handler is taken. *)
EXTENDS Ledger, TLC

CONSTANTS i1, i2

MCItems    == {i1, i2}
MCRents    == {2}
MCFees     == {0, 1}
MCDeposits == {0, 2}
MCPayments == {1, 2}

\* The two lines differ in nothing the handlers look at.
Symmetry == Permutations(MCItems)
=============================================================================
