----------------------------- MODULE MCRowLocks -----------------------------
(* Three transactions on an order of two lines, each of its own variation.  *)
(* Of handlers that lock the same rows in the same order one is called:     *)
(* confirmPickup locks as returnBooking does, recordPayment as              *)
(* cancelBookingOrder, updateBookingOrder as a cancelBookingOrder with no   *)
(* item left, createTask and editVariation as a createBooking of one line.  *)
EXTENDS RowLocks, TLC

CONSTANTS t1, t2, t3, i1, i2, v1, v2

MCTransactions == {t1, t2, t3}
MCItems        == {i1, i2}
MCVariations   == {v1, v2}
MCVarOf        == i1 :> v1 @@ i2 :> v2 @@ Task :> v1
MCServed       == {"createBooking", "addBookingItem", "updateBookingItem",
                   "cancelBookingItem", "cancelBookingOrder",
                   "deleteBooking", "confirmPickupOrder", "returnBooking",
                   "moveTask"}
MCRank         == v1 :> 1 @@ v2 :> 2
=============================================================================
