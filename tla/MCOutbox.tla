------------------------------ MODULE MCOutbox ------------------------------
(* A dated and an overdue reminder and one booking's message.               *)
EXTENDS Outbox, TLC

CONSTANTS pickupReminder, overdueReminder, bookingConfirmed, w1, w2

MCLogs        == 1..3
MCTwoLogs     == 1..2
MCReminders   == {pickupReminder, overdueReminder}
MCDated       == {pickupReminder}
MCBookings    == {bookingConfirmed}
MCRepeat      == pickupReminder :> 1 @@ overdueReminder :> 2
MCDispatchers == {w1, w2}
MCDispatcher  == {w1}

Symmetry == Permutations(MCDispatchers)
=============================================================================
