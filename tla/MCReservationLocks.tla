-------------------------- MODULE MCReservationLocks --------------------------
(* Two clerks after the same two variations in both orders of their carts:  *)
(* the smallest instance in which they could wait for each other.           *)
EXTENDS Reservation, TLC

CONSTANTS c1, c2, v1, v2, r1, r2, r3, r4

MCClerks     == {c1, c2}
MCVariations == {v1, v2}
MCRank       == (v1 :> 1) @@ (v2 :> 2)
MCRows       == {r1, r2, r3, r4}
MCDays       == {1}
MCLines      == [variation : MCVariations, from : {1}, to : {1}, qty : {1}]
=============================================================================
