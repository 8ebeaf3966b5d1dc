------------------------------ MODULE Outbox ------------------------------
(***************************************************************************)
(* The transactional outbox: orders, their fills and positions, the        *)
(* exchange_commands queue, and the worker passes (outbox_worker.rs        *)
(* run_once) that claim commands, call an adapter and persist the result.  *)
(*                                                                         *)
(* One action is one committed statement or transaction of the server, or  *)
(* one adapter call; everything between two of them is another process's   *)
(* chance to run.  The only transaction of two steps is                    *)
(* persist_reconcile_result, which reads the position row without locking  *)
(* it (PersistOpen) and later writes it back (PersistCommit).              *)
(***************************************************************************)
EXTENDS Integers, FiniteSets, Adapters

CONSTANTS
  Orders,       \* orders the client may place
  Symbols,      \* (account, symbol) pairs: the key of an open position row
  Workers,      \* concurrent run_once passes (server replicas)
  Symbol, Side, Quantity, Mode,   \* the columns of each order
  Cancellable,  \* orders a cancel may be asked for
  AdapterModes, \* exchange modes Supervisor::resolve finds an adapter for
  Rejecting,    \* TRUE: submit() may report a deterministic rejection
  BatchSize,    \* LIMIT of the claim query
  FaultKinds,   \* which faults may happen
  MaxFaults     \* bound on how many of them do

OrderSide == {"buy", "sell"}
ExchangeMode == {"paper", "live"}

(* "crash": a pass ends early (process killed, or a pool error returns from *)
(* run_once).  "expire": a lease runs out under a pass still at work.       *)
(* "lock": lock_order fails while hydrating.  "db": another statement       *)
(* fails.  "event": the audit row of a reconcile fails, and nobody looks.   *)
(* "ack": a commit takes effect but reports an error.  "garbled": an answer *)
(* of the venue has no executedQty that can be read.                        *)
AllFaults == {"crash", "expire", "lock", "db", "event", "ack", "garbled"}

ASSUME OutboxAssumption ==
  /\ Symbol \in [Orders -> Symbols]
  /\ Side \in [Orders -> OrderSide]
  /\ Quantity \in [Orders -> Nat \ {0}]
  /\ Mode \in [Orders -> ExchangeMode]
  /\ Cancellable \subseteq Orders
  /\ AdapterModes \subseteq ExchangeMode
  /\ Rejecting \in BOOLEAN
  /\ BatchSize \in Nat \ {0}
  /\ FaultKinds \subseteq AllFaults
  /\ MaxFaults \in Nat

(* Each order has at most four commands, told apart by idempotency key.     *)
CommandKind == {"submit", "initial", "cancel", "post-cancel"}
Commands == Orders \X CommandKind
OrderOf(c) == c[1]
KindOf(c) == c[2]
IsReconcile(c) == KindOf(c) \in {"initial", "post-cancel"}

VARIABLES
  status,     \* orders.status, or NoOrder before the order is placed
  filled,     \* orders.filled_quantity
  nfills,     \* number of order_fills rows of the order
  fillQty,    \* their total quantity
  pos,        \* signed quantity of the open position row, 0 if there is none
  journal,    \* risk_events rows about an order, counted by type
  cstatus,    \* exchange_commands.status, or NoCommand before the insert
  expired,    \* leased_until < now()
  born,       \* exchange_commands.created_at
  clock,      \* the next created_at
  escalated,  \* commands with an exchange_reconciliation_required event
  venue,      \* the venue's own view of a live order
  unread,     \* history: orders a terminal answer left without its quantity
  pc, todo, cur, snap, result, posRead,   \* the state of a worker pass
  faults      \* faults so far

orderVars  == <<status, filled, nfills, fillQty, pos, journal>>
queueVars  == <<cstatus, expired, born, clock, escalated>>
passVars   == <<pc, todo, cur, snap, result, posRead>>
venueVars  == <<venue, unread>>
vars == <<orderVars, queueVars, passVars, venueVars, faults>>

NoOrder == "no_order"
NoCommand == "no_command"
CommandStatus ==
  {"pending", "leased", "delivered", "reconciliation_required",
   "permanently_rejected"}
OrderEvent ==
  {"order_placed", "order_filled", "order_partially_filled",
   "order_cancel_requested", "order_cancelled", "order_rejected",
   "exchange_reconciliation_required"}

NoCur == <<>>
NoSnap == [status |-> NoOrder, nfills |-> 0, filled |-> 0]

(* Where a pass stands: between passes; choosing the next command of its    *)
(* batch; about to call the adapter; holding its answer; inside the persist *)
(* transaction; about to mark the command; about to write the audit event.  *)
Location ==
  {"idle", "next", "call", "apply", "write",
   "deliver", "requeue", "park", "reject", "park_event", "reject_event"}

Signed(o, qty) == IF Side[o] = "buy" THEN qty ELSE -qty

---------------------------------------------------------------------------
Init ==
  /\ status = [o \in Orders |-> NoOrder]
  /\ filled = [o \in Orders |-> 0]
  /\ nfills = [o \in Orders |-> 0]
  /\ fillQty = [o \in Orders |-> 0]
  /\ pos = [s \in Symbols |-> 0]
  /\ journal = [o \in Orders |-> [e \in OrderEvent |-> 0]]
  /\ cstatus = [c \in Commands |-> NoCommand]
  /\ expired = [c \in Commands |-> FALSE]
  /\ born = [c \in Commands |-> 0]
  /\ clock = 0
  /\ escalated = {}
  /\ venue = [o \in Orders |-> [status |-> "UNKNOWN", executed |-> 0]]
  /\ unread = {}
  /\ pc = [w \in Workers |-> "idle"]
  /\ todo = [w \in Workers |-> {}]
  /\ cur = [w \in Workers |-> NoCur]
  /\ snap = [w \in Workers |-> NoSnap]
  /\ result = [w \in Workers |-> NoChange]
  /\ posRead = [w \in Workers |-> 0]
  /\ faults = 0

---------------------------------------------------------------------------
(* Building blocks *)

(* Slip: the order is read without FOR UPDATE.                              *)
UnlockedAlways(o) == TRUE

(* A row lock taken by lock_order: only the persist transaction spans two   *)
(* steps, so only it can be seen holding one.                               *)
Unlocked(o) == \A w \in Workers : pc[w] = "write" => OrderOf(cur[w]) # o

(* insert_exchange_command: ON CONFLICT (idempotency key) DO NOTHING.       *)
Enqueue(c) ==
  IF cstatus[c] # NoCommand
  THEN UNCHANGED <<cstatus, born, clock>>
  ELSE /\ cstatus' = [cstatus EXCEPT ![c] = "pending"]
       /\ born' = [born EXCEPT ![c] = clock]
       /\ clock' = clock + 1

(* Slip: the status moves and its audit event is forgotten.                 *)
SetStatusUnjournaled(o, st, events) ==
  /\ status' = [status EXCEPT ![o] = st]
  /\ UNCHANGED journal

(* update_order_status and the risk_events rows of the same transaction.    *)
SetStatus(o, st, events) ==
  /\ status' = [status EXCEPT ![o] = st]
  /\ journal' = [journal EXCEPT ![o] =
       [e \in OrderEvent |-> IF e \in events THEN @[e] + 1 ELSE @[e]]]

Record(o, event) == journal' = [journal EXCEPT ![o][event] = @ + 1]

Goto(w, l) == pc' = [pc EXCEPT ![w] = l]

(* The end of one iteration of the batch loop.                              *)
Proceed(w) ==
  /\ pc' = [pc EXCEPT ![w] = IF todo[w] = {} THEN "idle" ELSE "next"]
  /\ cur' = [cur EXCEPT ![w] = NoCur]
  /\ snap' = [snap EXCEPT ![w] = NoSnap]
  /\ result' = [result EXCEPT ![w] = NoChange]
  /\ posRead' = [posRead EXCEPT ![w] = 0]

Fault(kind) ==
  /\ kind \in FaultKinds
  /\ faults < MaxFaults
  /\ faults' = faults + 1

(* How a transaction that took effect is reported to the pass: Ok, or the   *)
(* error of a lost acknowledgement, which becomes Retry.                    *)
Committed(w) ==
  \/ Goto(w, "deliver") /\ UNCHANGED faults
  \/ Goto(w, "requeue") /\ Fault("ack")

---------------------------------------------------------------------------
(* The HTTP side *)

(* Slip: a status the CHECK of the orders table does not list.              *)
UnlistedStatus == "new"

(* The status insert_order writes.                                          *)
InitialStatus == "pending"

(* place_order, once validation and the risk engine have approved: the      *)
(* order row, its submit command and its event in one transaction.          *)
PlaceOrder(o) ==
  /\ status[o] = NoOrder
  /\ SetStatus(o, InitialStatus, {"order_placed"})
  /\ Enqueue(<<o, "submit">>)
  /\ UNCHANGED <<filled, nfills, fillQty, pos, expired, escalated, passVars,
                 venueVars, faults>>

(* A cancel_order command: dispatch handles it, nothing under src/ inserts  *)
(* it, so whoever writes the row is outside the system.                     *)
RequestCancel(o) ==
  /\ o \in Cancellable
  /\ status[o] # NoOrder
  /\ cstatus[<<o, "cancel">>] = NoCommand
  /\ Enqueue(<<o, "cancel">>)
  /\ UNCHANGED <<orderVars, expired, escalated, passVars, venueVars, faults>>

---------------------------------------------------------------------------
(* One worker pass *)

(* Slip: only pending commands, so an abandoned lease is never recovered.   *)
ClaimablePending == {c \in Commands : cstatus[c] = "pending"}

(* The WHERE clause of the claim query.                                     *)
Claimable ==
  {c \in Commands : \/ cstatus[c] = "pending"
                    \/ cstatus[c] = "leased" /\ expired[c]}

(* ORDER BY created_at LIMIT BatchSize                                      *)
OldestBatch(batch) ==
  /\ batch \subseteq Claimable
  /\ batch # {}
  /\ \A c \in batch, d \in Claimable \ batch : born[c] <= born[d]
  /\ Cardinality(batch) <= BatchSize
  /\ Cardinality(batch) = BatchSize \/ batch = Claimable

(* claim_pending_commands *)
Claim(w) ==
  /\ pc[w] = "idle"
  /\ \E batch \in SUBSET Claimable :
       /\ OldestBatch(batch)
       /\ todo' = [todo EXCEPT ![w] = batch]
       /\ cstatus' = [c \in Commands |->
                        IF c \in batch THEN "leased" ELSE cstatus[c]]
       /\ expired' = [c \in Commands |-> c \notin batch /\ expired[c]]
  /\ Goto(w, "next")
  /\ UNCHANGED <<orderVars, born, clock, escalated, cur, snap, result,
                 posRead, venueVars, faults>>

(* A pass that finds the queue empty sleeps and polls again.                *)
Poll(w) ==
  /\ pc[w] = "idle"
  /\ Claimable = {}
  /\ UNCHANGED vars

(* The head of the loop: RETURNING gives the batch in no particular order.  *)
Take(w, c) ==
  /\ pc[w] = "next"
  /\ c \in todo[w]
  /\ todo' = [todo EXCEPT ![w] = @ \ {c}]
  /\ cur' = [cur EXCEPT ![w] = c]

(* Supervisor::resolve found no adapter: straight to marking.               *)
NoAdapter(w, c) ==
  /\ Take(w, c)
  /\ Mode[OrderOf(c)] \notin AdapterModes
  /\ Goto(w, "park")
  /\ UNCHANGED <<orderVars, queueVars, snap, result, posRead, venueVars,
                 faults>>

(* hydrate_snapshot: lock the order, load its fills, commit.                *)
Hydrate(w, c) ==
  LET o == OrderOf(c) IN
  /\ Take(w, c)
  /\ Mode[o] \in AdapterModes
  /\ Unlocked(o)
  /\ snap' = [snap EXCEPT ![w] =
       [status |-> status[o], nfills |-> nfills[o], filled |-> fillQty[o]]]
  /\ Goto(w, "call")
  /\ UNCHANGED <<orderVars, queueVars, result, posRead, venueVars, faults>>

(* Slip: an order that cannot be locked is taken to be done with.           *)
HydrateFailsQuietly(w, c) ==
  /\ Take(w, c)
  /\ Mode[OrderOf(c)] \in AdapterModes
  /\ Fault("lock")
  /\ Goto(w, "deliver")
  /\ UNCHANGED <<orderVars, queueVars, snap, result, posRead, venueVars>>

(* A failing lock_order escalates; any other failure is retried.            *)
HydrateFails(w, c) ==
  /\ Take(w, c)
  /\ Mode[OrderOf(c)] \in AdapterModes
  /\ \/ Fault("lock") /\ Goto(w, "park")
     \/ Fault("db") /\ Goto(w, "requeue")
  /\ UNCHANGED <<orderVars, queueVars, snap, result, posRead, venueVars>>

(* submit and cancel are accepted by both adapters; the trait lets submit   *)
(* report a deterministic rejection (classify_exchange_error).              *)
CallSubmitOrCancel(w) ==
  /\ pc[w] = "call"
  /\ ~IsReconcile(cur[w])
  /\ \/ Goto(w, "apply")
     \/ Rejecting /\ KindOf(cur[w]) = "submit" /\ Goto(w, "reject")
  /\ UNCHANGED <<orderVars, queueVars, todo, cur, snap, result, posRead,
                 venueVars, faults>>

(* reconcile_order in paper mode, whatever the market data says.            *)
CallPaperReconcile(w) ==
  LET o == OrderOf(cur[w]) IN
  /\ pc[w] = "call"
  /\ IsReconcile(cur[w])
  /\ Mode[o] = "paper"
  /\ \E touched \in BOOLEAN :
       result' = [result EXCEPT ![w] =
                    PaperReconcile(snap[w], Quantity[o], touched)]
  /\ Goto(w, "apply")
  /\ UNCHANGED <<orderVars, queueVars, todo, cur, snap, posRead, venueVars,
                 faults>>

(* reconcile_order in live mode: the answer of the venue at this moment; a  *)
(* status the adapter does not recognise is an error, and retried, but an   *)
(* executed quantity it cannot read is none.                                *)
CallLiveReconcile(w) ==
  LET o == OrderOf(cur[w]) IN
  /\ pc[w] = "call"
  /\ IsReconcile(cur[w])
  /\ Mode[o] = "live"
  /\ \/ /\ snap[w].status \in TerminalStatus \/ venue[o].status # "UNKNOWN"
        /\ \E readable \in BOOLEAN :
             /\ result' = [result EXCEPT ![w] =
                  BinanceReconcile(snap[w], AnswerRead(venue[o], readable))]
             /\ IF readable
                THEN UNCHANGED <<unread, faults>>
                ELSE /\ Fault("garbled")
                     /\ unread' = unread \cup
                          {p \in {o} : OrderStatusOf(venue[o].status)
                                          \in TerminalStatus}
        /\ Goto(w, "apply")
     \/ /\ snap[w].status \notin TerminalStatus
        /\ venue[o].status = "UNKNOWN"
        /\ Goto(w, "requeue")
        /\ UNCHANGED <<result, unread, faults>>
  /\ UNCHANGED <<orderVars, queueVars, todo, cur, snap, posRead, venue>>

(* The transaction after an accepted submit.                                *)
ApplySubmit(w) ==
  LET o == OrderOf(cur[w]) IN
  /\ pc[w] = "apply"
  /\ KindOf(cur[w]) = "submit"
  /\ Unlocked(o)
  /\ IF Legal(status[o], "submitted")
     THEN SetStatus(o, "submitted", {})
     ELSE UNCHANGED <<status, journal>>
  /\ Enqueue(<<o, "initial">>)
  /\ Committed(w)
  /\ UNCHANGED <<filled, nfills, fillQty, pos, expired, escalated, todo, cur,
                 snap, result, posRead, venueVars>>

(* The transaction after an accepted cancel.                                *)
ApplyCancel(w) ==
  LET o == OrderOf(cur[w]) IN
  /\ pc[w] = "apply"
  /\ KindOf(cur[w]) = "cancel"
  /\ Unlocked(o)
  /\ IF Legal(status[o], "cancel_requested")
     THEN SetStatus(o, "cancel_requested", {"order_cancel_requested"})
     ELSE UNCHANGED <<status, journal>>
  /\ Enqueue(<<o, "post-cancel">>)
  /\ Committed(w)
  /\ UNCHANGED <<filled, nfills, fillQty, pos, expired, escalated, todo, cur,
                 snap, result, posRead, venueVars>>

---------------------------------------------------------------------------
(* persist_reconcile_result *)

(* Slips: no optimistic check at all; one that compares quantities only.    *)
UnchangedAlways(o, sn) == TRUE
UnchangedQuantity(o, sn) == filled[o] = sn.filled

(* The optimistic check: the locked order is still the one hydrated.        *)
Unchanged(o, sn) == filled[o] = sn.filled /\ status[o] = sn.status

(* ON CONFLICT (account_id, exchange_trade_id): the trade id carries the    *)
(* ordinal of the snapshot, and ordinals are recorded without gaps.         *)
Duplicate(o, sn) == sn.nfills < nfills[o]

(* From the lock to the SELECT of the position row.                         *)
PersistOpen(w) ==
  LET o == OrderOf(cur[w]) IN
  /\ pc[w] = "apply"
  /\ IsReconcile(cur[w])
  /\ Unlocked(o)
  /\ \/ ~Unchanged(o, snap[w]) /\ Goto(w, "requeue") /\ UNCHANGED posRead
     \/ /\ Unchanged(o, snap[w])
        /\ IF result[w].quantity > 0 /\ Duplicate(o, snap[w])
           THEN Goto(w, "park") /\ UNCHANGED posRead
           ELSE /\ Goto(w, "write")
                /\ posRead' = [posRead EXCEPT ![w] = pos[Symbol[o]]]
  /\ UNCHANGED <<orderVars, queueVars, todo, cur, snap, result, venueVars,
                 faults>>

(* Slip: no unique index on the open position of a symbol.                  *)
PositionWriteFailsOnClose(w, delta) ==
  posRead[w] # 0 /\ posRead[w] + delta = 0

(* apply_position_delta fails on the row it read: its INSERT on the unique  *)
(* index positions_one_open_per_symbol if a row has appeared meanwhile, its *)
(* close on CHECK (quantity > 0).                                           *)
PositionWriteFails(w, delta) ==
  IF posRead[w] = 0 THEN pos[Symbol[OrderOf(cur[w])]] # 0
                    ELSE posRead[w] + delta = 0

(* Slip: the row is overwritten with the delta.                             *)
PositionOverwritten(w, delta) == delta

(* Otherwise it writes, in absolute terms, what it read plus the delta.     *)
PositionAfter(w, delta) == posRead[w] + delta

(* Slip: filled_quantity is passed through, as the other callers of         *)
(* update_order_status do.                                                  *)
FilledUnchanged(o, qty) == filled[o]

(* The filled_quantity written with the new status.                         *)
FilledAfter(o, qty) == filled[o] + qty

WriteFails(w) ==
  LET qty == result[w].quantity
  IN  qty > 0 /\ PositionWriteFails(w, Signed(OrderOf(cur[w]), qty))

MoveIllegal(w) ==
  /\ result[w].status # NoStatus
  /\ ~Legal(status[OrderOf(cur[w])], result[w].status)

(* The rest of the transaction: a failing position write rolls it back and  *)
(* retries, an illegal move rolls it back and escalates.                    *)
PersistCommit(w) ==
  LET o     == OrderOf(cur[w])
      st    == result[w].status
      qty   == result[w].quantity
      delta == Signed(o, qty)
  IN
  /\ pc[w] = "write"
  /\ \/ WriteFails(w) /\ Goto(w, "requeue") /\ UNCHANGED <<orderVars, faults>>
     \/ /\ ~WriteFails(w) /\ MoveIllegal(w)
        /\ Goto(w, "park")
        /\ UNCHANGED <<orderVars, faults>>
     \/ /\ ~WriteFails(w) /\ ~MoveIllegal(w)
        /\ IF qty > 0
           THEN /\ nfills' = [nfills EXCEPT ![o] = @ + 1]
                /\ fillQty' = [fillQty EXCEPT ![o] = @ + qty]
                /\ pos' = [pos EXCEPT ![Symbol[o]] = PositionAfter(w, delta)]
           ELSE UNCHANGED <<nfills, fillQty, pos>>
        /\ IF st # NoStatus
           THEN /\ SetStatus(o, st, {EventFor(st)})
                /\ filled' = [filled EXCEPT ![o] = FilledAfter(o, qty)]
           ELSE UNCHANGED <<status, filled, journal>>
        /\ Committed(w)
  /\ UNCHANGED <<queueVars, todo, cur, snap, result, posRead, venueVars>>

(* Slip: the error is swallowed and the command counts as delivered.        *)
TransactionFailsSilently(w) ==
  /\ pc[w] \in {"apply", "write"}
  /\ Fault("db")
  /\ Goto(w, "deliver")
  /\ UNCHANGED <<orderVars, queueVars, todo, cur, snap, result, posRead,
                 venueVars>>

(* Any statement of these transactions fails: rollback and Retry.           *)
TransactionFails(w) ==
  /\ pc[w] \in {"apply", "write"}
  /\ Fault("db")
  /\ Goto(w, "requeue")
  /\ UNCHANGED <<orderVars, queueVars, todo, cur, snap, result, posRead,
                 venueVars>>

(* The insert of the audit row fails: its error is discarded, and the       *)
(* COMMIT of the aborted transaction rolls back without reporting one.      *)
EventWriteFails(w) ==
  /\ pc[w] = "write"
  /\ ~WriteFails(w) /\ ~MoveIllegal(w)
  /\ result[w].status # NoStatus
  /\ Fault("event")
  /\ Goto(w, "deliver")
  /\ UNCHANGED <<orderVars, queueVars, todo, cur, snap, result, posRead,
                 venueVars>>

---------------------------------------------------------------------------
(* Marking the command: UPDATE ... WHERE id = $1, whoever holds the lease   *)

Mark(w, st) ==
  /\ cstatus' = [cstatus EXCEPT ![cur[w]] = st]
  /\ UNCHANGED <<born, clock, escalated>>

MarkDelivered(w) ==
  /\ pc[w] = "deliver"
  /\ Mark(w, "delivered")
  /\ Proceed(w)
  /\ UNCHANGED <<orderVars, expired, todo, venueVars, faults>>

Requeue(w) ==
  /\ pc[w] = "requeue"
  /\ Mark(w, "pending")
  /\ expired' = [expired EXCEPT ![cur[w]] = FALSE]
  /\ Proceed(w)
  /\ UNCHANGED <<orderVars, todo, venueVars, faults>>

(* Slip: the audit event is never written.                                  *)
ParkUnaudited(w) ==
  /\ pc[w] = "park"
  /\ Mark(w, "reconciliation_required")
  /\ Proceed(w)
  /\ UNCHANGED <<orderVars, expired, todo, venueVars, faults>>

MarkReconciliationRequired(w) ==
  /\ pc[w] = "park"
  /\ Mark(w, "reconciliation_required")
  /\ Goto(w, "park_event")
  /\ UNCHANGED <<orderVars, expired, todo, cur, snap, result, posRead,
                 venueVars, faults>>

MarkPermanentlyRejected(w) ==
  /\ pc[w] = "reject"
  /\ Mark(w, "permanently_rejected")
  /\ Goto(w, "reject_event")
  /\ UNCHANGED <<orderVars, expired, todo, cur, snap, result, posRead,
                 venueVars, faults>>

(* The errors of marking are discarded: the command stays leased, and the   *)
(* pass goes on to the event.                                               *)
MarkFails(w) ==
  /\ Fault("db")
  /\ \/ pc[w] \in {"deliver", "requeue"} /\ Proceed(w)
     \/ /\ \/ pc[w] = "park" /\ Goto(w, "park_event")
           \/ pc[w] = "reject" /\ Goto(w, "reject_event")
        /\ UNCHANGED <<cur, snap, result, posRead>>
  /\ UNCHANGED <<orderVars, queueVars, todo, venueVars>>

(* The audit transactions that follow the two failure marks.                *)
RecordParked(w) ==
  /\ pc[w] = "park_event"
  /\ escalated' = escalated \cup {cur[w]}
  /\ Proceed(w)
  /\ UNCHANGED <<orderVars, cstatus, expired, born, clock, todo, venueVars,
                 faults>>

(* Slip: the order is flipped whatever its status.                          *)
RecordRejectedAlways(w) ==
  LET o == OrderOf(cur[w]) IN
  /\ pc[w] = "reject_event"
  /\ Unlocked(o)
  /\ SetStatus(o, "rejected", {"order_rejected"})
  /\ Proceed(w)
  /\ UNCHANGED <<filled, nfills, fillQty, pos, queueVars, todo, venueVars,
                 faults>>

RecordRejected(w) ==
  LET o == OrderOf(cur[w]) IN
  /\ pc[w] = "reject_event"
  /\ Unlocked(o)
  /\ IF Legal(status[o], "rejected")
     THEN SetStatus(o, "rejected", {"order_rejected"})
     ELSE Record(o, "order_rejected") /\ UNCHANGED status
  /\ Proceed(w)
  /\ UNCHANGED <<filled, nfills, fillQty, pos, queueVars, todo, venueVars,
                 faults>>

(* Their errors are discarded too.                                          *)
RecordFails(w) ==
  /\ pc[w] \in {"park_event", "reject_event"}
  /\ Fault("db")
  /\ Proceed(w)
  /\ UNCHANGED <<orderVars, queueVars, todo, venueVars>>

---------------------------------------------------------------------------
(* The environment of the workers *)

(* The pass is gone; an open transaction of its rolls back, and whatever it *)
(* had claimed stays leased.                                                *)
Crash(w) ==
  /\ pc[w] # "idle"
  /\ Fault("crash")
  /\ Goto(w, "idle")
  /\ todo' = [todo EXCEPT ![w] = {}]
  /\ cur' = [cur EXCEPT ![w] = NoCur]
  /\ snap' = [snap EXCEPT ![w] = NoSnap]
  /\ result' = [result EXCEPT ![w] = NoChange]
  /\ posRead' = [posRead EXCEPT ![w] = 0]
  /\ UNCHANGED <<orderVars, queueVars, venueVars>>

Held(c) == \E w \in Workers : c = cur[w] \/ c \in todo[w]

(* Thirty seconds pass: for a lease nobody works on any more, or, as a      *)
(* fault, for one whose pass is merely slow.                                *)
LeaseExpires(c) ==
  /\ cstatus[c] = "leased"
  /\ ~expired[c]
  /\ IF Held(c) THEN Fault("expire") ELSE UNCHANGED faults
  /\ expired' = [expired EXCEPT ![c] = TRUE]
  /\ UNCHANGED <<orderVars, cstatus, born, clock, escalated, passVars,
                 venueVars>>

(* The venue moves a live order on by itself.                               *)
VenueMoves(o) ==
  LET v == venue[o]
      To(st, exec) == venue' = [venue EXCEPT ![o] =
                                  [status |-> st, executed |-> exec]]
  IN
  /\ Mode[o] = "live"
  /\ "live" \in AdapterModes
  /\ status[o] # NoOrder
  /\ \/ v.status = "UNKNOWN" /\ To("NEW", 0)
     \/ v.status = "NEW" /\ To("REJECTED", 0)
     \/ v.status \in {"NEW", "PARTIALLY_FILLED"} /\ To("PENDING_CANCEL", v.executed)
     \/ /\ v.status \in {"NEW", "PARTIALLY_FILLED", "PENDING_CANCEL"}
        /\ \/ To("CANCELED", v.executed)
           \/ \E exec \in (v.executed + 1) .. Quantity[o] :
                To(IF exec = Quantity[o] THEN "FILLED" ELSE "PARTIALLY_FILLED",
                   exec)
  /\ UNCHANGED <<orderVars, queueVars, passVars, unread, faults>>

---------------------------------------------------------------------------
(* Steps a pass takes of its own accord.                                    *)
WorkerStep(w) ==
  \/ Claim(w)
  \/ \E c \in Commands : NoAdapter(w, c) \/ Hydrate(w, c)
  \/ CallSubmitOrCancel(w) \/ CallPaperReconcile(w) \/ CallLiveReconcile(w)
  \/ ApplySubmit(w) \/ ApplyCancel(w)
  \/ PersistOpen(w) \/ PersistCommit(w)
  \/ MarkDelivered(w) \/ Requeue(w)
  \/ MarkReconciliationRequired(w) \/ MarkPermanentlyRejected(w)
  \/ RecordParked(w) \/ RecordRejected(w)

WorkerFault(w) ==
  \/ \E c \in Commands : HydrateFails(w, c)
  \/ TransactionFails(w) \/ EventWriteFails(w) \/ MarkFails(w) \/ RecordFails(w)
  \/ Crash(w)

Next ==
  \/ \E o \in Orders : PlaceOrder(o) \/ RequestCancel(o) \/ VenueMoves(o)
  \/ \E w \in Workers : WorkerStep(w) \/ WorkerFault(w) \/ Poll(w)
  \/ \E c \in Commands : LeaseExpires(c)

Spec == Init /\ [][Next]_vars
=============================================================================
