---------------------------- MODULE OrderLedger ----------------------------
(***************************************************************************)
(* What the outbox promises about orders, with no queue, worker, lease or  *)
(* crash in sight: each order moves through its life cycle in single       *)
(* steps, a step that fills never takes it past its quantity, and the      *)
(* audit journal gets its entry in the very step it reports.               *)
(***************************************************************************)
EXTENDS Integers, OrderLifecycle

CONSTANTS Orders, Quantity, OrderEvent, NoOrder

VARIABLES status, filled, journal
ledger == <<status, filled, journal>>

LedgerInit ==
  /\ status = [o \in Orders |-> NoOrder]
  /\ filled = [o \in Orders |-> 0]
  /\ journal = [o \in Orders |-> [e \in OrderEvent |-> 0]]

Entered(o, e) == journal' = [journal EXCEPT ![o][e] = @ + 1]

Place(o) ==
  /\ status[o] = NoOrder
  /\ status' = [status EXCEPT ![o] = "pending"]
  /\ Entered(o, "order_placed")
  /\ UNCHANGED filled

(* The one move without an entry.                                           *)
Submit(o) ==
  /\ Legal(status[o], "submitted")
  /\ status' = [status EXCEPT ![o] = "submitted"]
  /\ UNCHANGED <<filled, journal>>

AskCancel(o) ==
  /\ Legal(status[o], "cancel_requested")
  /\ status' = [status EXCEPT ![o] = "cancel_requested"]
  /\ Entered(o, "order_cancel_requested")
  /\ UNCHANGED filled

(* The exchange reports the order filled, cancelled, ... with some quantity *)
(* more executed.                                                           *)
Settle(o) ==
  \E st \in OrderStatus \ {"submitted"} :
    /\ Legal(status[o], st)
    /\ status' = [status EXCEPT ![o] = st]
    /\ \E qty \in 0 .. (Quantity[o] - filled[o]) :
         filled' = [filled EXCEPT ![o] = @ + qty]
    /\ \E e \in OrderEvent : Entered(o, e)

(* A deterministic rejection is always entered, and ends the order if it    *)
(* still can be rejected.                                                   *)
Reject(o) ==
  /\ status' = [status EXCEPT ![o] =
                  IF Legal(status[o], "rejected") THEN "rejected" ELSE @]
  /\ Entered(o, "order_rejected")
  /\ UNCHANGED filled

LedgerNext ==
  \E o \in Orders :
    Place(o) \/ Submit(o) \/ AskCancel(o) \/ Settle(o) \/ Reject(o)

LedgerSpec == LedgerInit /\ [][LedgerNext]_ledger
============================================================================
