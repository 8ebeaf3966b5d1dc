----------------------------- MODULE Adapters -----------------------------
(***************************************************************************)
(* What the two exchange adapters of crates/exchange answer to             *)
(* reconcile_order.  An adapter sees a snapshot of one order (its status,  *)
(* how many fills are recorded and their total quantity) and returns a     *)
(* result: the status the order should take, if any, and the quantity of   *)
(* the at most one new fill.  Prices, fees and payloads are abstracted;    *)
(* the position delta is the fill quantity signed by the order's side, and *)
(* the audit event is a function of the new status.                        *)
(***************************************************************************)
EXTENDS Integers, OrderLifecycle

NoStatus == "no_status"

Result(st, qty) == [status |-> st, quantity |-> qty]

(* ReconcileResult::default(): nothing to persist.                          *)
NoChange == Result(NoStatus, 0)

(* MatchingEngine::try_fill: the whole remaining quantity, or nothing when  *)
(* the feed is absent or stale or the limit is not touched.  "touched"      *)
(* stands for the outcome of those three price tests.                       *)
TryFill(remaining, touched) == IF touched THEN remaining ELSE 0

(* Slip: a CancelRequested order is matched like any open one.              *)
PaperReconcileIgnoringCancel(snap, quantity, touched) ==
  LET remaining == quantity - snap.filled
  IN  IF snap.status \in TerminalStatus \/ remaining <= 0 \/ ~touched
      THEN NoChange ELSE Result("filled", remaining)

(* PaperAdapter::reconcile_order                                            *)
PaperReconcile(snap, quantity, touched) ==
  LET remaining == quantity - snap.filled
      fill      == TryFill(remaining, touched)
  IN  IF snap.status = "cancel_requested" THEN Result("cancelled", 0)
      ELSE IF snap.status \in TerminalStatus \/ remaining <= 0 \/ fill = 0
      THEN NoChange
      ELSE Result(IF snap.filled + fill >= quantity
                  THEN "filled" ELSE "partially_filled", fill)

(* The statuses GET /api/v3/order reports, and one the adapter does not     *)
(* recognise (which includes the error body of an order the venue does not  *)
(* know).                                                                   *)
VenueStatus ==
  {"UNKNOWN", "NEW", "PARTIALLY_FILLED", "FILLED", "CANCELED", "REJECTED",
   "PENDING_CANCEL"}

(* The status map of BinanceAdapter::map_order_status_response.             *)
OrderStatusOf(venueStatus) ==
  IF venueStatus = "NEW" THEN "submitted"
  ELSE [UNKNOWN          |-> NoStatus,
        PARTIALLY_FILLED |-> "partially_filled",
        FILLED           |-> "filled",
        CANCELED         |-> "cancelled",
        REJECTED         |-> "rejected",
        PENDING_CANCEL   |-> "cancel_requested"][venueStatus]

(* Whatever the venue has executed, an executedQty that is missing or not a *)
(* number counts as 0.                                                      *)
AnswerRead(venue, readable) ==
  [venue EXCEPT !.executed = IF readable THEN @ ELSE 0]

(* Slip: the fill is the total executed, not what is new since the snapshot. *)
BinanceReconcileTotal(snap, venue) ==
  LET st == OrderStatusOf(venue.status)
  IN  IF snap.status \in TerminalStatus \/ st = snap.status THEN NoChange
      ELSE Result(st, venue.executed)

(* Slip: only an order that traded to the end is asked for its quantity.    *)
BinanceReconcileDropsCancelled(snap, venue) ==
  LET st == OrderStatusOf(venue.status)
  IN  IF snap.status \in TerminalStatus \/ st = snap.status THEN NoChange
      ELSE Result(st, IF venue.executed > snap.filled /\ st # "cancelled"
                      THEN venue.executed - snap.filled ELSE 0)

(* BinanceAdapter::reconcile_order on a recognised venue status: an         *)
(* unchanged status returns before the executed quantity is looked at.      *)
BinanceReconcile(snap, venue) ==
  LET st    == OrderStatusOf(venue.status)
      delta == venue.executed - snap.filled
  IN  IF snap.status \in TerminalStatus \/ st = snap.status THEN NoChange
      ELSE Result(st, IF delta > 0 THEN delta ELSE 0)

(* The risk_events type both adapters attach to a new status.               *)
EventFor(st) ==
  LET named == [filled           |-> "order_filled",
                partially_filled |-> "order_partially_filled",
                cancelled        |-> "order_cancelled",
                rejected         |-> "order_rejected"]
  IN  IF st \in DOMAIN named THEN named[st]
      ELSE "exchange_reconciliation_required"
===========================================================================
