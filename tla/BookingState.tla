---------------------------- MODULE BookingState ----------------------------
(***************************************************************************)
(* The booking state machine of src/lib/booking-state.ts and the statuses   *)
(* handlers ask about.  Constant-level: every component that moves a status *)
(* takes its rules from here.                                              *)
(***************************************************************************)

Statuses == {"draft", "confirmed", "pickup_pending", "rented",
             "return_pending", "overdue", "returned", "cancelled"}

\* ALLOWED_TRANSITIONS, as the pairs it allows.
Transitions ==
    {<<"draft", "confirmed">>, <<"draft", "rented">>, <<"draft", "cancelled">>,
     <<"confirmed", "pickup_pending">>, <<"confirmed", "rented">>,
     <<"confirmed", "cancelled">>,
     <<"pickup_pending", "rented">>, <<"pickup_pending", "confirmed">>,
     <<"pickup_pending", "cancelled">>,
     <<"rented", "return_pending">>, <<"rented", "returned">>,
     <<"rented", "overdue">>,
     <<"return_pending", "returned">>, <<"return_pending", "overdue">>,
     <<"overdue", "returned">>, <<"overdue", "return_pending">>}

\* Staying where one is counts as allowed: the handlers that must not be
\* repeated reject that case themselves.
CanTransition(current, target) ==
    current = target \/ <<current, target>> \in Transitions

Terminal == {"returned", "cancelled"}

Editable == {"draft", "confirmed", "pickup_pending"}

\* Still held against the availability calendar.
Blocking == Statuses \ Terminal

\* Physically with a customer.
OutWithCustomer == {"rented", "return_pending", "overdue"}

\* What markOverdueItems promotes.
OverdueEligible == {"rented", "return_pending"}
=============================================================================
