-------------------------- MODULE OrderLifecycle --------------------------
(***************************************************************************)
(* The order state machine of crates/exchange (order_state.rs, types.rs):  *)
(* the statuses an order row can hold and the moves the server validates   *)
(* before it writes one.                                                   *)
(***************************************************************************)

OrderStatus ==
  {"pending", "submitted", "partially_filled", "filled",
   "cancel_requested", "cancelled", "rejected"}

(* OrderStatus::is_terminal *)
TerminalStatus == {"filled", "cancelled", "rejected"}

(* The pairs for which OrderStateMachine::transition returns Ok.            *)
LegalMoves ==
  {<<"pending", "submitted">>,
   <<"pending", "rejected">>,
   <<"pending", "cancel_requested">>,
   <<"submitted", "partially_filled">>,
   <<"submitted", "filled">>,
   <<"submitted", "rejected">>,
   <<"submitted", "cancel_requested">>,
   <<"partially_filled", "partially_filled">>,
   <<"partially_filled", "filled">>,
   <<"partially_filled", "cancel_requested">>,
   <<"cancel_requested", "cancelled">>,
   <<"cancel_requested", "filled">>,
   <<"cancel_requested", "partially_filled">>}

(* Slips the properties must catch: any move out of an open status passes;  *)
(* any move at all passes; the rejection of a pending order is forgotten.   *)
LegalFromOpen(from, to) == from \notin TerminalStatus \/ <<from, to>> \in LegalMoves
LegalAlways(from, to) == from # to
LegalUnlessPendingRejected(from, to) ==
  <<from, to>> \in LegalMoves \ {<<"pending", "rejected">>}

(* OrderStateMachine::transition(from, to).is_ok()                          *)
Legal(from, to) == <<from, to>> \in LegalMoves
===========================================================================
