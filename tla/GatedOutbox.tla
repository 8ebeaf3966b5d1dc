---------------------------- MODULE GatedOutbox ----------------------------
(***************************************************************************)
(* The risk engine and the outbox together: place_order decides on the     *)
(* open positions of the account as they are at that moment, and the       *)
(* worker fills the order some passes later.  The account has its equity   *)
(* and limits for good, no halt and no correlated symbols; every order is  *)
(* priced 1, so that a notional is a quantity.                             *)
(***************************************************************************)
EXTENDS Outbox, RiskEngine

CONSTANTS Equity, Limits

ASSUME GatedAssumption == Limits.maxConcurrentPositions \in Nat

(* Two records of history, which no step depends on: the orders approved as *)
(* pure reductions, and those that were open while another was placed, or   *)
(* were placed while another was open.                                      *)
VARIABLES exempt, crossed

gateVars == <<vars, exempt, crossed>>

Size(n) == IF n < 0 THEN -n ELSE n
Holdings == {s \in Symbols : pos[s] # 0}

(* load_snapshot *)
LoadSnapshot ==
  [equity            |-> Equity,
   loss              |-> 0,
   killSwitchEngaged |-> FALSE,
   tripped           |-> FALSE,
   groups            |-> [s \in Symbols |-> NoGroup],
   positions         |->
     {[symbol   |-> s,
       side     |-> IF pos[s] < 0 THEN "short" ELSE "long",
       quantity |-> Size(pos[s]),
       notional |-> Size(pos[s])] : s \in Holdings}]

Intent(o) ==
  [symbol |-> Symbol[o], side |-> Side[o], quantity |-> Quantity[o], price |-> 1]

InFlight == {o \in Orders : status[o] \in OrderStatus \ TerminalStatus}

GatedInit == Init /\ exempt = {} /\ crossed = {}

(* place_order: a rejected intent leaves no order.                          *)
GatedPlaceOrder(o) ==
  /\ IsApproved(Intent(o), LoadSnapshot, Limits)
  /\ PlaceOrder(o)
  /\ exempt' = exempt \cup
       {p \in {o} : ReducesExistingPosition(Intent(p), LoadSnapshot)}
  /\ crossed' = IF InFlight = {} THEN crossed ELSE crossed \cup InFlight \cup {o}

(* Everything else in the system knows nothing of the engine.               *)
Onward ==
  /\ \/ \E o \in Orders : RequestCancel(o) \/ VenueMoves(o)
     \/ \E w \in Workers : WorkerStep(w) \/ WorkerFault(w) \/ Poll(w)
     \/ \E c \in Commands : LeaseExpires(c)
  /\ UNCHANGED <<exempt, crossed>>

GatedNext == (\E o \in Orders : GatedPlaceOrder(o)) \/ Onward

GatedSpec == GatedInit /\ [][GatedNext]_gateVars

---------------------------------------------------------------------------
(* The position of a symbol only comes closer to zero.                      *)
Shrinks(s) == pos'[s] * pos[s] >= 0 /\ Size(pos'[s]) < Size(pos[s])

(* An order let through as a pure reduction, with no other in flight from   *)
(* its placement to its fill, reduces: whatever passes are replayed on the  *)
(* way, it never flips the position or opens one (evaluate skips the sizing *)
(* rules for it; persist_reconcile_result fills it later).                  *)
LoneReductionsReduce ==
  [][\A o \in exempt \ crossed :
       fillQty'[o] # fillQty[o] => Shrinks(Symbol[o])]_gateVars

(* The same of every order let through as a reduction (engine.rs: its       *)
(* quantity does not exceed the position's, so it cannot flip the position  *)
(* into new exposure).                                                      *)
ReductionsReduce ==
  [][\A o \in exempt :
       fillQty'[o] # fillQty[o] => Shrinks(Symbol[o])]_gateVars

(* Orders placed one after the end of the other keep the account within its *)
(* cap on open positions, through crashes and replays                       *)
(* (check_concurrent_positions on what persist_reconcile_result recorded).  *)
SerialOrdersKeepCap ==
  crossed = {} => Cardinality(Holdings) <= Limits.maxConcurrentPositions
============================================================================
