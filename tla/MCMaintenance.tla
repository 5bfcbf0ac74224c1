---------------------------- MODULE MCMaintenance ----------------------------
(* Two members of staff, two bookings of one variation for one and two units. *)
EXTENDS Maintenance, TLC

CONSTANTS p1, p2, r1, r2

MCStaff == {p1, p2}
MCRows  == {r1, r2}
MCQty   == r1 :> 1 @@ r2 :> 2

Symmetry == Permutations(MCStaff)
=============================================================================
