------------------------- MODULE OutboxProperties -------------------------
(***************************************************************************)
(* What the outbox must keep true, whatever the interleaving of passes,    *)
(* crashes, expired leases, lost acknowledgements and failing statements.  *)
(***************************************************************************)
EXTENDS Outbox, Functions

(* The shape of every variable. *)
Snapshot ==
  [status : OrderStatus \cup {NoOrder}, nfills : Nat, filled : Nat]
ReconcileResult == [status : OrderStatus \cup {NoStatus}, quantity : Nat]

(* Types of the tables and of the passes (outbox_worker.rs, db.rs). *)
TypeOK ==
  /\ status \in [Orders -> OrderStatus \cup {NoOrder}]
  /\ filled \in [Orders -> Nat]
  /\ nfills \in [Orders -> Nat]
  /\ fillQty \in [Orders -> Nat]
  /\ pos \in [Symbols -> Int]
  /\ journal \in [Orders -> [OrderEvent -> Nat]]
  /\ cstatus \in [Commands -> CommandStatus \cup {NoCommand}]
  /\ expired \in [Commands -> BOOLEAN]
  /\ born \in [Commands -> Nat]
  /\ clock \in Nat
  /\ escalated \subseteq Commands
  /\ venue \in [Orders -> [status : VenueStatus, executed : Nat]]
  /\ unread \subseteq Orders
  /\ pc \in [Workers -> Location]
  /\ todo \in [Workers -> SUBSET Commands]
  /\ cur \in [Workers -> Commands \cup {NoCur}]
  /\ snap \in [Workers -> Snapshot]
  /\ result \in [Workers -> ReconcileResult]
  /\ posRead \in [Workers -> Int]
  /\ faults \in Nat

---------------------------------------------------------------------------
(* Safety *)

(* A fill is counted once: the order's filled_quantity is the total of its  *)
(* order_fills rows, never exceeds the order, and is the whole order when   *)
(* the status says so, however often a reconcile pass is replayed           *)
(* (persist_reconcile_result's optimistic check and trade-id dedupe) -      *)
(* unless the venue's FILLED came without a readable executedQty, which     *)
(* map_order_status_response takes for 0.                                   *)
FillsCountedOnce ==
  \A o \in Orders :
    /\ filled[o] = fillQty[o]
    /\ fillQty[o] <= Quantity[o]
    /\ status[o] = "filled" => fillQty[o] = Quantity[o] \/ o \in unread

(* apply_position_delta keeps the open position of a symbol equal to the    *)
(* signed total of the fills recorded for it.                               *)
PositionMatchesFills ==
  \A s \in Symbols :
    pos[s] = SumFunctionOnSet([o \in Orders |-> Signed(o, fillQty[o])],
                              {o \in Orders : Symbol[o] = s})

(* The journal tells the same story as the orders table: one placement per  *)
(* order, one entry for the fill or the cancel it ended in, none for a fill *)
(* or a cancel it did not end in, for a paper order one entry for a cancel  *)
(* taken up, and no rejected order without an entry that says so (the       *)
(* events written in the transactions of place_order, dispatch, run_once    *)
(* and persist_reconcile_result).  Of rejections no more is true: one that  *)
(* comes too late for the order, or once more, is entered all the same.     *)
JournalMatchesOrders ==
  \A o \in Orders :
    LET Entries(e, p) == journal[o][e] = IF p THEN 1 ELSE 0
    IN  /\ Entries("order_placed", status[o] # NoOrder)
        /\ Entries("order_filled", status[o] = "filled")
        /\ Entries("order_cancelled", status[o] = "cancelled")
        /\ Mode[o] = "paper" =>
             Entries("order_cancel_requested",
                     status[o] \in {"cancel_requested", "cancelled"})
        /\ status[o] = "rejected" => journal[o]["order_rejected"] >= 1

(* A delivered command has had its effect: a delivered submit left the      *)
(* order beyond pending with its first reconcile queued, a delivered cancel *)
(* queued the confirming reconcile, and once that one is delivered a paper  *)
(* order no longer waits for its cancel (dispatch enqueues follow-ups in    *)
(* the transaction of the change that needs them).                          *)
DeliveredMeansDone ==
  \A o \in Orders :
    /\ cstatus[<<o, "submit">>] = "delivered"
         => status[o] # "pending" /\ cstatus[<<o, "initial">>] # NoCommand
    /\ cstatus[<<o, "cancel">>] = "delivered"
         => status[o] # "pending" /\ cstatus[<<o, "post-cancel">>] # NoCommand
    /\ cstatus[<<o, "post-cancel">>] = "delivered" /\ Mode[o] = "paper"
         => status[o] # "cancel_requested"

(* With an adapter for every mode, paper only and no failing order lock, a  *)
(* replay never escalates: the reconciliation_required exits of             *)
(* persist_reconcile_result (duplicate trade ids, illegal move) are not     *)
(* reached by mere re-claims.                                               *)
NoSpuriousEscalation ==
  \A c \in Commands : cstatus[c] # "reconciliation_required"

(* However the venue fills a live order in parts, and whichever of those    *)
(* the passes get to see, its end accounts for all of them: nothing the     *)
(* venue executed is missing from an order that is over                     *)
(* (map_order_status_response passes over an unchanged status, and catches  *)
(* up when it changes).  An executedQty that cannot be read while the order *)
(* is open is caught up with too; only one that comes with the end is not.  *)
LiveEndsComplete ==
  \A o \in Orders :
    Mode[o] = "live" /\ status[o] \in TerminalStatus
      => filled[o] = venue[o].executed \/ o \in unread

---------------------------------------------------------------------------
(* Why fills are counted once: the strengthening that is inductive *)

Busy(w) == pc[w] \notin {"idle", "next"}

CommandsHaveOrders ==
  /\ \A c \in Commands : cstatus[c] # NoCommand => status[OrderOf(c)] # NoOrder
  /\ \A w \in Workers : \A c \in todo[w] : cstatus[c] # NoCommand
  /\ \A w \in Workers :
       Busy(w) => cur[w] \in Commands /\ cstatus[cur[w]] # NoCommand
  /\ \A w \in Workers : pc[w] = "write" => IsReconcile(cur[w])

(* While a pass is between the lock and the commit, its order is the one it *)
(* hydrated, and no other pass is in the same place for that order.         *)
OrderLockHeld ==
  /\ \A w \in Workers :
       pc[w] = "write" => Unchanged(OrderOf(cur[w]), snap[w])
  /\ \A w, x \in Workers :
       /\ pc[w] = "write" /\ pc[x] = "write"
       /\ OrderOf(cur[w]) = OrderOf(cur[x])
       => w = x

(* The answer of an adapter fits the snapshot it was computed from.         *)
Fits(o, sn, r) ==
  /\ sn.filled + r.quantity <= Quantity[o]
  /\ r.status = "filled" => sn.filled + r.quantity = Quantity[o] \/ o \in unread
  /\ r.status = NoStatus => r.quantity = 0
  /\ sn.status \in TerminalStatus => r = NoChange
  /\ sn.status = "cancel_requested" /\ Mode[o] = "paper"
       => r = Result("cancelled", 0)

ResultsFit ==
  /\ \A w \in Workers : pc[w] \in {"call", "apply", "write"} =>
       snap[w].filled <= Quantity[OrderOf(cur[w])]
  /\ \A w \in Workers :
       pc[w] \in {"apply", "write"} /\ IsReconcile(cur[w]) =>
         Fits(OrderOf(cur[w]), snap[w], result[w])

VenueSound ==
  \A o \in Orders :
    /\ venue[o].executed <= Quantity[o]
    /\ venue[o].status = "FILLED" => venue[o].executed = Quantity[o]

(* A row lock and an optimistic check together: what a pass writes was      *)
(* computed from the order as it still is (lock_order, hydrate_snapshot,    *)
(* persist_reconcile_result).                                               *)
WritesFromFreshState ==
  /\ CommandsHaveOrders
  /\ OrderLockHeld
  /\ ResultsFit
  /\ VenueSound

---------------------------------------------------------------------------
(* What a step may never do *)

(* A terminal order is final: no later pass changes its status, its filled  *)
(* quantity or its fills (order_state.rs accepts no move out of a terminal  *)
(* status; adapters answer terminal snapshots with the default result).     *)
TerminalIsFinal ==
  [][\A o \in Orders : status[o] \in TerminalStatus =>
       UNCHANGED <<status[o], filled[o], nfills[o], fillQty[o]>>]_vars

(* Once a paper order is CancelRequested it can only become Cancelled: no   *)
(* reconcile pass that hydrated it earlier may still fill it (paper/mod.rs: *)
(* nothing can be in flight, the cancel takes effect immediately).          *)
CancelHonoured ==
  [][\A o \in Orders : status[o] = "cancel_requested" /\ Mode[o] = "paper" =>
       /\ status'[o] \in {"cancel_requested", "cancelled"}
       /\ fillQty'[o] = fillQty[o]]_vars

(* The outbox implements the order ledger.                                  *)
Ledger == INSTANCE OrderLedger
ImplementsLedger == Ledger!LedgerSpec

---------------------------------------------------------------------------
(* Liveness *)

(* The pass makes progress whenever it can infinitely often (row locks are  *)
(* granted in the order they are waited for); an abandoned lease runs out.  *)
Fairness ==
  /\ \A w \in Workers : SF_vars(WorkerStep(w))
  /\ \A c \in Commands : WF_vars(~Held(c) /\ LeaseExpires(c))

FairSpec == Spec /\ Fairness

(* Every order placed is submitted or ends, unless its command has left the *)
(* queue for manual review because the order could not be locked: whatever  *)
(* pass dies with the command, none is left behind pending, as long as the  *)
(* batch takes every command there is (claim_pending_commands,              *)
(* hydrate_snapshot).                                                       *)
SubmittedOrSetAside ==
  \A o \in Orders :
    status[o] = "pending" ~>
      \/ status[o] # "pending"
      \/ cstatus[<<o, "submit">>] = "reconciliation_required"

(* A cancel request written to the outbox ends the order.                   *)
CancelEndsOrder ==
  \A o \in Orders :
    cstatus[<<o, "cancel">>] # NoCommand ~> status[o] \in TerminalStatus

(* A command set aside for manual review is eventually on the audit trail   *)
(* (run_once: reconciliation_required and a manual-review risk_events row). *)
ParkedIsAudited ==
  \A c \in Commands :
    cstatus[c] = "reconciliation_required" ~> c \in escalated

(* A submit the exchange rejected for good ends with the order rejected or  *)
(* otherwise ended (run_once: a deterministic rejection also flips the      *)
(* order itself).                                                           *)
RejectionReachesOrder ==
  \A o \in Orders :
    cstatus[<<o, "submit">>] = "permanently_rejected"
      ~> status[o] \in TerminalStatus

---------------------------------------------------------------------------
(* What the code does not keep, though its comments and documents, or the   *)
(* names of its columns, suggest it                                         *)

(* order_state.rs: an order that is partially filled becomes Filled, not    *)
(* one of which executions are missing.                                     *)
FilledIsWhole ==
  \A o \in Orders : status[o] = "filled" => filled[o] = Quantity[o]

(* The order's row and its order_rejected entry go together, one to one.    *)
RejectionsMatch ==
  \A o \in Orders :
    journal[o]["order_rejected"] = IF status[o] = "rejected" THEN 1 ELSE 0

(* run_once: a command set aside for reconciliation gets a manual-review    *)
(* row in risk_events, so an order that stays pending has one.              *)
SubmittedOrEscalated ==
  \A o \in Orders :
    status[o] = "pending" ~>
      status[o] # "pending" \/ <<o, "submit">> \in escalated

(* db.rs: apply_position_delta closes a position as needed, so a closing    *)
(* fill whose transaction meets no failure leaves no open position.         *)
ClosingFillCloses ==
  [][\A w \in Workers :
       LET o == OrderOf(cur[w])
           delta == Signed(o, result[w].quantity)
       IN  pc[w] = "write" /\ pc'[w] # "write" /\ faults' = faults
             /\ delta # 0 /\ posRead[w] + delta = 0
           => pos'[Symbol[o]] = 0]_vars

(* adapter.rs: an order still open after a reconcile gets a follow-up       *)
(* command, so an open order always has one to be claimed.                  *)
OpenOrderHasWork ==
  \A o \in Orders :
    status[o] \in OrderStatus \ TerminalStatus =>
      \E k \in CommandKind : cstatus[<<o, k>>] \in {"pending", "leased"}
===========================================================================
