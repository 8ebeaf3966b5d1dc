---------------------------- MODULE OutboxProofs ----------------------------
(***************************************************************************)
(* Machine-checked proofs about the outbox, for any number of orders,      *)
(* passes, commands and faults: fills are counted once because writes      *)
(* start from fresh state, terminal orders stay, the outbox implements the *)
(* ledger of orders, the journal tells its story, a delivered command has  *)
(* had its effect, positions match their fills, and the end of a live      *)
(* order accounts for all the venue executed.  An order whose end came     *)
(* with an executedQty that could not be read is where the adapter loses a *)
(* fill, and excepted by name (unread) wherever that shows.                *)
(***************************************************************************)
EXTENDS OutboxProperties, Sums

(* The sets the statuses and the locations are drawn from.                  *)
LEMMA StatusSets ==
  /\ NoOrder \notin OrderStatus /\ NoStatus \notin OrderStatus
  /\ NoOrder # NoStatus
  /\ TerminalStatus \subseteq OrderStatus
  /\ LegalMoves \subseteq OrderStatus \X OrderStatus
  /\ NoCommand \notin CommandStatus
BY DEF OrderStatus, NoOrder, NoStatus, TerminalStatus, LegalMoves,
       CommandStatus, NoCommand

(* What the paper adapter returns: a result that fits its snapshot.         *)
LEMMA PaperResult ==
  ASSUME NEW sn \in Snapshot, NEW touched \in BOOLEAN, NEW o \in Orders,
         sn.filled <= Quantity[o]
  PROVE  LET r == PaperReconcile(sn, Quantity[o], touched)
         IN  r \in ReconcileResult /\ Fits(o, sn, r)
BY OutboxAssumption
   DEF PaperReconcile, TryFill, NoChange, Result, Fits, Snapshot,
       ReconcileResult, OrderStatus, TerminalStatus, NoStatus, NoOrder

(* What the Binance adapter returns of a venue status it recognises: it     *)
(* fits but for a fill whose quantity cannot be read.                       *)
LEMMA LiveResult ==
  ASSUME NEW sn \in Snapshot, NEW o \in Orders, Mode[o] = "live",
         NEW v \in [status : VenueStatus, executed : Nat],
         NEW readable \in BOOLEAN,
         sn.filled <= Quantity[o], v.executed <= Quantity[o],
         v.status = "FILLED" => v.executed = Quantity[o],
         sn.status \in TerminalStatus \/ v.status # "UNKNOWN"
  PROVE  LET r == BinanceReconcile(sn, AnswerRead(v, readable))
         IN  /\ r \in ReconcileResult
             /\ sn.filled + r.quantity <= Quantity[o]
             /\ r.status = "filled" =>
                  \/ sn.filled + r.quantity = Quantity[o]
                  \/ ~readable /\ v.status = "FILLED"
             /\ r.status = NoStatus => r.quantity = 0
             /\ sn.status \in TerminalStatus => r = NoChange
<1> DEFINE st == OrderStatusOf(v.status)
           executed == IF readable THEN v.executed ELSE 0
           delta == executed - sn.filled
           r == BinanceReconcile(sn, AnswerRead(v, readable))
<1>1. /\ Quantity[o] \in Nat /\ sn.filled \in Nat /\ executed \in Nat
      /\ executed <= Quantity[o]
  BY OutboxAssumption DEF Snapshot
<1>2. st \in OrderStatus \cup {NoStatus} /\ (st = "filled" => v.status = "FILLED")
      /\ (st = NoStatus => v.status = "UNKNOWN")
  BY DEF OrderStatusOf, VenueStatus, OrderStatus, NoStatus
<1>a. AnswerRead(v, readable) = [status |-> v.status, executed |-> executed]
  BY DEF AnswerRead
<1>3. CASE sn.status \in TerminalStatus \/ st = sn.status
  <2>1. r = NoChange
    BY <1>3, <1>a DEF BinanceReconcile
  <2> QED
    BY <2>1, <1>1 DEF NoChange, Result, ReconcileResult, NoStatus
<1>4. CASE ~(sn.status \in TerminalStatus \/ st = sn.status)
  <2>1. r = [status |-> st, quantity |-> IF delta > 0 THEN delta ELSE 0]
    BY <1>4, <1>a DEF BinanceReconcile, Result
  <2>2. st # NoStatus
    BY <1>2, <1>4
  <2> QED
    BY <1>1, <1>2, <1>4, <2>1, <2>2 DEF ReconcileResult, Result
<1> QED BY <1>3, <1>4

---------------------------------------------------------------------------
(* The inductive invariant *)

IInv == TypeOK /\ FillsCountedOnce /\ WritesFromFreshState

(* The empty database satisfies the inductive invariant.                    *)
LEMMA InitIInv == Init => IInv
<1> SUFFICES ASSUME Init PROVE IInv
  OBVIOUS
<1> USE OutboxAssumption, StatusSets DEF Init
<1>1. TypeOK
  BY DEF TypeOK, Snapshot, ReconcileResult, NoSnap, NoChange, Result,
         Location, VenueStatus
<1>2. FillsCountedOnce
  BY DEF FillsCountedOnce, NoOrder
<1>3. WritesFromFreshState
  BY DEF WritesFromFreshState, CommandsHaveOrders, OrderLockHeld, ResultsFit,
         VenueSound, Busy
<1> QED BY <1>1, <1>2, <1>3 DEF IInv

(* The helpers the actions are built from keep the types of what they set.   *)
LEMMA EnqueueType ==
  ASSUME TypeOK, NEW c, Enqueue(c)
  PROVE  /\ cstatus' \in [Commands -> CommandStatus \cup {NoCommand}]
         /\ born' \in [Commands -> Nat]
         /\ clock' \in Nat
<1>1. CASE cstatus[c] # NoCommand
  BY <1>1 DEF TypeOK, Enqueue
<1>2. CASE cstatus[c] = NoCommand
  <2>1. /\ cstatus' = [cstatus EXCEPT ![c] = "pending"]
        /\ born' = [born EXCEPT ![c] = clock]
        /\ clock' = clock + 1
    BY <1>2 DEF Enqueue
  <2>2. cstatus' \in [Commands -> CommandStatus \cup {NoCommand}]
    BY <2>1 DEF TypeOK, CommandStatus
  <2>3. born' \in [Commands -> Nat]
    BY <2>1 DEF TypeOK
  <2>4. clock' \in Nat
    BY <2>1 DEF TypeOK
  <2> QED BY <2>2, <2>3, <2>4
<1> QED BY <1>1, <1>2

(* update_order_status and its audit rows keep both tables well typed.      *)
LEMMA SetStatusType ==
  ASSUME TypeOK, NEW o \in Orders, NEW st \in OrderStatus,
         NEW events, SetStatus(o, st, events)
  PROVE  /\ status' \in [Orders -> OrderStatus \cup {NoOrder}]
         /\ journal' \in [Orders -> [OrderEvent -> Nat]]
<1>1. status' \in [Orders -> OrderStatus \cup {NoOrder}]
  BY DEF TypeOK, SetStatus
<1>2. journal \in [Orders -> [OrderEvent -> Nat]]
  BY DEF TypeOK
<1> DEFINE j == [e \in OrderEvent |-> IF e \in events THEN journal[o][e] + 1
                                                       ELSE journal[o][e]]
<1>3. j \in [OrderEvent -> Nat]
  BY <1>2
<1>4. journal' = [journal EXCEPT ![o] = j]
  BY DEF SetStatus
<1> QED BY <1>1, <1>2, <1>3, <1>4

(* An audit row keeps the journal well typed (insert_risk_event).           *)
LEMMA RecordType ==
  ASSUME TypeOK, NEW o \in Orders, NEW e \in OrderEvent, Record(o, e)
  PROVE  journal' \in [Orders -> [OrderEvent -> Nat]]
<1>1. journal \in [Orders -> [OrderEvent -> Nat]]
  BY DEF TypeOK
<1>2. journal[o] \in [OrderEvent -> Nat] /\ journal[o][e] + 1 \in Nat
  BY <1>1
<1>3. [journal[o] EXCEPT ![e] = @ + 1] \in [OrderEvent -> Nat]
  BY <1>2
<1>4. journal' = [journal EXCEPT ![o] = [journal[o] EXCEPT ![e] = @ + 1]]
  BY DEF Record
<1> QED BY <1>1, <1>3, <1>4

(* The end of an iteration of run_once's loop leaves the pass well typed.   *)
LEMMA ProceedType ==
  ASSUME TypeOK, NEW w \in Workers, Proceed(w)
  PROVE  /\ pc' \in [Workers -> Location]
         /\ cur' \in [Workers -> Commands \cup {NoCur}]
         /\ snap' \in [Workers -> Snapshot]
         /\ result' \in [Workers -> ReconcileResult]
         /\ posRead' \in [Workers -> Int]
BY DEF TypeOK, Proceed, Location, NoSnap, Snapshot, NoChange, Result,
       ReconcileResult

(* A move of a pass to another place of run_once is to one that exists.     *)
LEMMA GotoType ==
  ASSUME TypeOK, NEW w \in Workers, NEW l \in Location, Goto(w, l)
  PROVE  pc' \in [Workers -> Location]
BY DEF TypeOK, Goto

(* A pass at work has a command, and so an order, in hand. *)
LEMMA InHand ==
  ASSUME IInv, NEW w \in Workers, Busy(w)
  PROVE  cur[w] \in Commands /\ OrderOf(cur[w]) \in Orders
BY DEF IInv, WritesFromFreshState, CommandsHaveOrders, OrderOf, Commands

(* A commit, acknowledged or not, leads to one of run_once's marks.         *)
LEMMA CommittedType ==
  ASSUME TypeOK, NEW w \in Workers, Committed(w)
  PROVE  pc' \in [Workers -> Location] /\ faults' \in Nat
<1>1. faults' \in Nat
  BY DEF TypeOK, Committed, Fault
<1>2. Goto(w, "deliver") \/ Goto(w, "requeue")
  BY DEF Committed
<1>3. "deliver" \in Location /\ "requeue" \in Location
  BY DEF Location
<1> QED BY <1>1, <1>2, <1>3, GotoType

(* Every action keeps the tables and the passes well typed.                 *)
LEMMA TypeStep == IInv /\ [Next]_vars => TypeOK'
<1> SUFFICES ASSUME IInv, [Next]_vars PROVE TypeOK'
  OBVIOUS
<1> USE OutboxAssumption, StatusSets DEF IInv
<1> USE DEF orderVars, queueVars, passVars, venueVars
<1>1. ASSUME NEW o \in Orders, PlaceOrder(o) PROVE TypeOK'
  BY <1>1, EnqueueType, SetStatusType DEF PlaceOrder, TypeOK, InitialStatus, OrderStatus
<1>2. ASSUME NEW o \in Orders, RequestCancel(o) PROVE TypeOK'
  BY <1>2, EnqueueType DEF RequestCancel, TypeOK
<1>3. ASSUME NEW o \in Orders, VenueMoves(o) PROVE TypeOK'
  <2>1. \E st \in VenueStatus, exec \in Nat :
          venue' = [venue EXCEPT ![o] = [status |-> st, executed |-> exec]]
    <3>1. venue[o].executed \in Nat /\ Quantity[o] \in Nat
      BY DEF TypeOK
    <3>2. \A exec \in (venue[o].executed + 1) .. Quantity[o] : exec \in Nat
      BY <3>1
    <3> QED BY <1>3, <3>1, <3>2 DEF VenueMoves, VenueStatus
  <2>2. UNCHANGED <<orderVars, queueVars, passVars, unread, faults>>
    BY <1>3 DEF VenueMoves
  <2> QED BY <2>1, <2>2 DEF TypeOK
<1>4. ASSUME NEW w \in Workers, Claim(w) PROVE TypeOK'
  BY <1>4 DEF Claim, TypeOK, Claimable, CommandStatus, Goto, Location
<1>5. ASSUME NEW w \in Workers, NEW c \in Commands, NoAdapter(w, c) PROVE TypeOK'
  BY <1>5 DEF NoAdapter, TypeOK, Take, Goto, Location
<1>6. ASSUME NEW w \in Workers, NEW c \in Commands, Hydrate(w, c) PROVE TypeOK'
  BY <1>6 DEF Hydrate, TypeOK, Take, Goto, Location, Snapshot, OrderOf, Commands
<1>7. ASSUME NEW w \in Workers, NEW c \in Commands, HydrateFails(w, c) PROVE TypeOK'
  <2>1. pc' \in [Workers -> Location] /\ faults' \in Nat
    <3>1. faults' \in Nat
      BY <1>7 DEF HydrateFails, Fault, TypeOK
    <3>2. Goto(w, "park") \/ Goto(w, "requeue")
      BY <1>7 DEF HydrateFails
    <3> QED BY <3>1, <3>2, GotoType DEF Location
  <2>2. /\ todo' \in [Workers -> SUBSET Commands]
        /\ cur' \in [Workers -> Commands \cup {NoCur}]
    BY <1>7 DEF HydrateFails, Take, TypeOK
  <2> QED BY <1>7, <2>1, <2>2 DEF HydrateFails, TypeOK
<1>8. ASSUME NEW w \in Workers, CallSubmitOrCancel(w) PROVE TypeOK'
  BY <1>8 DEF CallSubmitOrCancel, TypeOK, Goto, Location
<1>9. ASSUME NEW w \in Workers, CallPaperReconcile(w) PROVE TypeOK'
  <2> DEFINE o == OrderOf(cur[w])
  <2>1. o \in Orders /\ snap[w] \in Snapshot /\ snap[w].filled <= Quantity[o]
    BY <1>9, InHand
    DEF CallPaperReconcile, Busy, TypeOK, WritesFromFreshState, ResultsFit
  <2>2. pc' \in [Workers -> Location]
    BY <1>9, GotoType DEF CallPaperReconcile, Location
  <2>3. result' \in [Workers -> ReconcileResult]
    BY <1>9, <2>1, PaperResult DEF CallPaperReconcile, TypeOK
  <2> QED BY <1>9, <2>2, <2>3 DEF CallPaperReconcile, TypeOK
<1>10. ASSUME NEW w \in Workers, CallLiveReconcile(w) PROVE TypeOK'
  <2> DEFINE o == OrderOf(cur[w])
  <2>1. o \in Orders /\ snap[w] \in Snapshot /\ snap[w].filled <= Quantity[o]
    BY <1>10, InHand
    DEF CallLiveReconcile, Busy, TypeOK, WritesFromFreshState, ResultsFit
  <2>2. pc' \in [Workers -> Location]
    BY <1>10, GotoType DEF CallLiveReconcile, Location
  <2>3. result' \in [Workers -> ReconcileResult]
    <3>1. CASE snap[w].status \in TerminalStatus \/ venue[o].status # "UNKNOWN"
      <4>1. \A readable \in BOOLEAN :
              BinanceReconcile(snap[w], AnswerRead(venue[o], readable))
                \in ReconcileResult
        BY <1>10, <2>1, <3>1, LiveResult
        DEF CallLiveReconcile, TypeOK, WritesFromFreshState, VenueSound
      <4> QED BY <1>10, <3>1, <4>1 DEF CallLiveReconcile, TypeOK
    <3>2. CASE ~(snap[w].status \in TerminalStatus \/ venue[o].status # "UNKNOWN")
      BY <1>10, <3>2 DEF CallLiveReconcile, TypeOK
    <3> QED BY <3>1, <3>2
  <2>4. unread' \subseteq Orders /\ faults' \in Nat
    BY <1>10, <2>1 DEF CallLiveReconcile, Fault, TypeOK
  <2> QED BY <1>10, <2>2, <2>3, <2>4 DEF CallLiveReconcile, TypeOK
<1>11. ASSUME NEW w \in Workers, ApplySubmit(w) PROVE TypeOK'
  <2>1. OrderOf(cur[w]) \in Orders
    BY <1>11, InHand DEF ApplySubmit, Busy
  <2>2. /\ status' \in [Orders -> OrderStatus \cup {NoOrder}]
        /\ journal' \in [Orders -> [OrderEvent -> Nat]]
    BY <1>11, <2>1, SetStatusType DEF ApplySubmit, OrderStatus, TypeOK
  <2>3. pc' \in [Workers -> Location] /\ faults' \in Nat
    BY <1>11, CommittedType DEF ApplySubmit
  <2>4. /\ cstatus' \in [Commands -> CommandStatus \cup {NoCommand}]
        /\ born' \in [Commands -> Nat]
        /\ clock' \in Nat
    BY <1>11, EnqueueType DEF ApplySubmit
  <2> QED BY <1>11, <2>2, <2>3, <2>4 DEF ApplySubmit, TypeOK
<1>12. ASSUME NEW w \in Workers, ApplyCancel(w) PROVE TypeOK'
  <2>1. OrderOf(cur[w]) \in Orders
    BY <1>12, InHand DEF ApplyCancel, Busy
  <2>2. /\ status' \in [Orders -> OrderStatus \cup {NoOrder}]
        /\ journal' \in [Orders -> [OrderEvent -> Nat]]
    BY <1>12, <2>1, SetStatusType DEF ApplyCancel, OrderStatus, TypeOK
  <2>3. pc' \in [Workers -> Location] /\ faults' \in Nat
    BY <1>12, CommittedType DEF ApplyCancel
  <2>4. /\ cstatus' \in [Commands -> CommandStatus \cup {NoCommand}]
        /\ born' \in [Commands -> Nat]
        /\ clock' \in Nat
    BY <1>12, EnqueueType DEF ApplyCancel
  <2> QED BY <1>12, <2>2, <2>3, <2>4 DEF ApplyCancel, TypeOK
<1>13. ASSUME NEW w \in Workers, PersistOpen(w) PROVE TypeOK'
  <2>1. pos[Symbol[OrderOf(cur[w])]] \in Int
    BY <1>13, InHand DEF PersistOpen, Busy, TypeOK
  <2>2. posRead' \in [Workers -> Int]
    BY <1>13, <2>1 DEF PersistOpen, TypeOK
  <2>3. pc' \in [Workers -> Location]
    BY <1>13, GotoType DEF PersistOpen, Location
  <2> QED BY <1>13, <2>2, <2>3 DEF PersistOpen, TypeOK
<1>14. ASSUME NEW w \in Workers, PersistCommit(w) PROVE TypeOK'
  <2> DEFINE o == OrderOf(cur[w])
             st == result[w].status
             qty == result[w].quantity
             delta == Signed(o, qty)
  <2>1. o \in Orders /\ Symbol[o] \in Symbols /\ qty \in Nat
        /\ st \in OrderStatus \cup {NoStatus}
    BY <1>14, InHand DEF PersistCommit, Busy, TypeOK, ReconcileResult
  <2>2. posRead[w] + delta \in Int
    BY <2>1 DEF TypeOK, Signed
  <2>3. pc' \in [Workers -> Location] /\ faults' \in Nat
    BY <1>14, GotoType, CommittedType DEF PersistCommit, Location, TypeOK
  <2>4. /\ nfills' \in [Orders -> Nat]
        /\ fillQty' \in [Orders -> Nat]
        /\ pos' \in [Symbols -> Int]
    <3>1. \/ UNCHANGED <<nfills, fillQty, pos>>
          \/ /\ nfills' = [nfills EXCEPT ![o] = @ + 1]
             /\ fillQty' = [fillQty EXCEPT ![o] = @ + qty]
             /\ pos' = [pos EXCEPT ![Symbol[o]] = posRead[w] + delta]
      BY <1>14 DEF PersistCommit, PositionAfter
    <3>2. /\ nfills[o] + 1 \in Nat /\ fillQty[o] + qty \in Nat
          /\ nfills \in [Orders -> Nat] /\ fillQty \in [Orders -> Nat]
          /\ pos \in [Symbols -> Int]
      BY <2>1 DEF TypeOK
    <3> HIDE DEF o, qty, delta
    <3> QED BY <2>1, <2>2, <3>1, <3>2
  <2>5. filled' \in [Orders -> Nat]
    <3>1. \/ UNCHANGED filled
          \/ filled' = [filled EXCEPT ![o] = filled[o] + qty]
      BY <1>14 DEF PersistCommit, FilledAfter
    <3>2. filled \in [Orders -> Nat] /\ filled[o] + qty \in Nat
      BY <2>1 DEF TypeOK
    <3> HIDE DEF o, qty
    <3> QED BY <2>1, <3>1, <3>2
  <2>6. /\ status' \in [Orders -> OrderStatus \cup {NoOrder}]
        /\ journal' \in [Orders -> [OrderEvent -> Nat]]
    BY <1>14, <2>1, SetStatusType DEF PersistCommit, TypeOK
  <2> QED BY <1>14, <2>3, <2>4, <2>5, <2>6 DEF PersistCommit, TypeOK
<1>15. ASSUME NEW w \in Workers, TransactionFails(w) PROVE TypeOK'
  BY <1>15 DEF TransactionFails, TypeOK, Goto, Location, Fault
<1>28. ASSUME NEW w \in Workers, EventWriteFails(w) PROVE TypeOK'
  BY <1>28 DEF EventWriteFails, TypeOK, Goto, Location, Fault
<1>16. ASSUME NEW w \in Workers, MarkDelivered(w) PROVE TypeOK'
  BY <1>16, ProceedType DEF MarkDelivered, TypeOK, Mark, CommandStatus
<1>17. ASSUME NEW w \in Workers, Requeue(w) PROVE TypeOK'
  BY <1>17, ProceedType DEF Requeue, TypeOK, Mark, CommandStatus
<1>18. ASSUME NEW w \in Workers, MarkReconciliationRequired(w) PROVE TypeOK'
  BY <1>18 DEF MarkReconciliationRequired, TypeOK, Mark, CommandStatus, Goto, Location
<1>19. ASSUME NEW w \in Workers, MarkPermanentlyRejected(w) PROVE TypeOK'
  BY <1>19 DEF MarkPermanentlyRejected, TypeOK, Mark, CommandStatus, Goto, Location
<1>20. ASSUME NEW w \in Workers, MarkFails(w) PROVE TypeOK'
  <2>1. faults' \in Nat
    BY <1>20 DEF MarkFails, Fault, TypeOK
  <2>2. CASE Proceed(w)
    BY <1>20, <2>1, <2>2, ProceedType DEF MarkFails, TypeOK
  <2>3. CASE ~Proceed(w)
    <3>1. pc' \in [Workers -> Location]
      BY <1>20, <2>3, GotoType DEF MarkFails, Location
    <3> QED BY <1>20, <2>1, <2>3, <3>1 DEF MarkFails, TypeOK
  <2> QED BY <2>2, <2>3
<1>21. ASSUME NEW w \in Workers, RecordParked(w) PROVE TypeOK'
  <2>1. cur[w] \in Commands
    BY <1>21, InHand DEF RecordParked, Busy
  <2> QED BY <1>21, <2>1, ProceedType DEF RecordParked, TypeOK
<1>22. ASSUME NEW w \in Workers, RecordRejected(w) PROVE TypeOK'
  <2> DEFINE o == OrderOf(cur[w])
  <2>1. o \in Orders
    BY <1>22, InHand DEF RecordRejected, Busy
  <2>2. /\ status' \in [Orders -> OrderStatus \cup {NoOrder}]
        /\ journal' \in [Orders -> [OrderEvent -> Nat]]
    <3>1. CASE Legal(status[o], "rejected")
      BY <1>22, <2>1, <3>1, SetStatusType DEF RecordRejected, OrderStatus
    <3>2. CASE ~Legal(status[o], "rejected")
      BY <1>22, <2>1, <3>2, RecordType DEF RecordRejected, TypeOK, OrderEvent
    <3> QED BY <3>1, <3>2
  <2> QED BY <1>22, <2>2, ProceedType DEF RecordRejected, TypeOK
<1>23. ASSUME NEW w \in Workers, RecordFails(w) PROVE TypeOK'
  BY <1>23, ProceedType DEF RecordFails, TypeOK, Fault
<1>24. ASSUME NEW w \in Workers, Crash(w) PROVE TypeOK'
  BY <1>24
  DEF Crash, TypeOK, Fault, Goto, Location, NoSnap, Snapshot, NoChange, Result,
      ReconcileResult
<1>25. ASSUME NEW w \in Workers, Poll(w) PROVE TypeOK'
  BY <1>25 DEF Poll, TypeOK, vars
<1>26. ASSUME NEW c \in Commands, LeaseExpires(c) PROVE TypeOK'
  BY <1>26 DEF LeaseExpires, Fault, TypeOK
<1>27. CASE UNCHANGED vars
  BY <1>27 DEF vars, TypeOK
<1> QED
  BY <1>1, <1>2, <1>3, <1>4, <1>5, <1>6, <1>7, <1>8, <1>9, <1>10, <1>11, <1>12,
     <1>13, <1>14, <1>15, <1>16, <1>17, <1>18, <1>19, <1>20, <1>21, <1>22, <1>23,
     <1>24, <1>25, <1>26, <1>27, <1>28
  DEF Next, WorkerStep, WorkerFault

---------------------------------------------------------------------------
(* How statuses move *)

(* A status moves only along the order state machine, after the placement.  *)
LEMMA StatusMoves ==
  ASSUME IInv, Next
  PROVE  \A p \in Orders :
           \/ status'[p] = status[p]
           \/ status[p] = NoOrder /\ status'[p] = "pending"
           \/ Legal(status[p], status'[p])
<1> USE OutboxAssumption DEF IInv, orderVars, queueVars, passVars, venueVars
<1> DEFINE Moves == \A p \in Orders :
                      \/ status'[p] = status[p]
                      \/ status[p] = NoOrder /\ status'[p] = "pending"
                      \/ Legal(status[p], status'[p])
<1>1. ASSUME NEW o \in Orders, PlaceOrder(o) PROVE Moves
  BY <1>1 DEF PlaceOrder, SetStatus, InitialStatus, TypeOK
<1>2. ASSUME NEW w \in Workers, ApplySubmit(w) PROVE Moves
  BY <1>2 DEF ApplySubmit, SetStatus, TypeOK
<1>3. ASSUME NEW w \in Workers, ApplyCancel(w) PROVE Moves
  BY <1>3 DEF ApplyCancel, SetStatus, TypeOK
<1>4. ASSUME NEW w \in Workers, PersistCommit(w) PROVE Moves
  BY <1>4 DEF PersistCommit, MoveIllegal, SetStatus, TypeOK
<1>5. ASSUME NEW w \in Workers, RecordRejected(w) PROVE Moves
  BY <1>5 DEF RecordRejected, SetStatus, TypeOK
<1>6. ASSUME UNCHANGED status PROVE Moves
  BY <1>6
<1>7. ASSUME NEW w \in Workers, WorkerStep(w) PROVE Moves
  BY <1>2, <1>3, <1>4, <1>5, <1>6, <1>7
  DEF WorkerStep, Claim, NoAdapter, Hydrate, CallSubmitOrCancel,
      CallPaperReconcile, CallLiveReconcile, PersistOpen, MarkDelivered,
      Requeue, MarkReconciliationRequired, MarkPermanentlyRejected,
      RecordParked
<1>8. ASSUME NEW w \in Workers, WorkerFault(w) PROVE Moves
  BY <1>6, <1>8
  DEF WorkerFault, HydrateFails, TransactionFails, EventWriteFails, MarkFails,
      RecordFails, Crash
<1> QED
  BY <1>1, <1>6, <1>7, <1>8
  DEF Next, RequestCancel, VenueMoves, Poll, vars, LeaseExpires

(* A command is never deleted.                                              *)
LEMMA CommandsStay ==
  ASSUME IInv, Next
  PROVE  \A d \in Commands : cstatus[d] # NoCommand => cstatus'[d] # NoCommand
<1> USE StatusSets DEF IInv, orderVars, queueVars, passVars, venueVars
<1> DEFINE Stay == \A d \in Commands :
                     cstatus[d] # NoCommand => cstatus'[d] # NoCommand
<1>1. ASSUME NEW c, Enqueue(c) PROVE Stay
  BY <1>1 DEF Enqueue, TypeOK, CommandStatus
<1>2. ASSUME NEW w \in Workers, Claim(w) PROVE Stay
  BY <1>2 DEF Claim, NoCommand
<1>3. ASSUME NEW w \in Workers, NEW st \in CommandStatus, Mark(w, st) PROVE Stay
  BY <1>3 DEF Mark, TypeOK
<1>4. ASSUME UNCHANGED cstatus PROVE Stay
  BY <1>4
<1>5. ASSUME NEW w \in Workers, WorkerStep(w) PROVE Stay
  BY <1>1, <1>2, <1>3, <1>4, <1>5
  DEF WorkerStep, NoAdapter, Hydrate, CallSubmitOrCancel, ApplySubmit,
      ApplyCancel, PersistCommit, RecordRejected,
      CallPaperReconcile, CallLiveReconcile, PersistOpen, MarkDelivered,
      Requeue, MarkReconciliationRequired, MarkPermanentlyRejected,
      RecordParked, CommandStatus
<1>6. ASSUME NEW w \in Workers, WorkerFault(w) PROVE Stay
  BY <1>4, <1>6
  DEF WorkerFault, HydrateFails, TransactionFails, EventWriteFails, MarkFails,
      RecordFails, Crash
<1> QED
  BY <1>1, <1>4, <1>5, <1>6
  DEF Next, PlaceOrder, RequestCancel, VenueMoves, Poll, vars, LeaseExpires

(* A step of one pass leaves the others where they are.                     *)
LEMMA OtherPasses ==
  ASSUME IInv, NEW w \in Workers, WorkerStep(w) \/ WorkerFault(w)
  PROVE  \A x \in Workers \ {w} :
           UNCHANGED <<pc[x], todo[x], cur[x], snap[x], result[x]>>
BY DEF IInv, TypeOK, orderVars, queueVars, passVars, venueVars, WorkerStep,
       WorkerFault, Claim, Take, NoAdapter, Hydrate, HydrateFails, CallSubmitOrCancel,
       CallPaperReconcile, CallLiveReconcile, ApplySubmit, ApplyCancel,
       Committed, PersistOpen, PersistCommit, TransactionFails, EventWriteFails,
       MarkDelivered, Requeue, MarkReconciliationRequired,
       MarkPermanentlyRejected, MarkFails, RecordParked, RecordRejected,
       RecordFails, Crash, Goto, Proceed

(* What is unread remains so.                                               *)
LEMMA UnreadGrows ==
  ASSUME [Next]_vars PROVE unread \subseteq unread'
BY DEF Next, vars, passVars, venueVars, PlaceOrder, RequestCancel, VenueMoves,
       Poll, LeaseExpires, WorkerStep, WorkerFault, Claim, NoAdapter, Hydrate,
       HydrateFails, CallSubmitOrCancel, CallPaperReconcile,
       CallLiveReconcile, ApplySubmit, ApplyCancel, PersistOpen,
       PersistCommit, TransactionFails, EventWriteFails, MarkDelivered,
       Requeue, MarkReconciliationRequired, MarkPermanentlyRejected,
       MarkFails, RecordParked, RecordRejected, RecordFails, Crash

(* An answer that fits goes on fitting.                                     *)
LEMMA FitsOn ==
  ASSUME [Next]_vars, NEW o, NEW sn, NEW r, Fits(o, sn, r)
  PROVE  Fits(o, sn, r)'
BY UnreadGrows DEF Fits

---------------------------------------------------------------------------
(* Writes start from fresh state *)

(* The part of WritesFromFreshState that is about one pass.                 *)
PassSound(w) ==
  /\ \A c \in todo[w] : cstatus[c] # NoCommand
  /\ Busy(w) => cur[w] \in Commands /\ cstatus[cur[w]] # NoCommand
  /\ pc[w] = "write" => /\ IsReconcile(cur[w])
                        /\ Unchanged(OrderOf(cur[w]), snap[w])
  /\ pc[w] \in {"call", "apply", "write"} =>
       snap[w].filled <= Quantity[OrderOf(cur[w])]
  /\ pc[w] \in {"apply", "write"} /\ IsReconcile(cur[w]) =>
       Fits(OrderOf(cur[w]), snap[w], result[w])

(* A pass that acts leaves itself sound.                                    *)
LEMMA ActingPassSound ==
  ASSUME IInv, Next, NEW w \in Workers, WorkerStep(w) \/ WorkerFault(w)
  PROVE  PassSound(w)'
<1> USE OutboxAssumption DEF IInv, orderVars, queueVars, passVars, venueVars
<1>a. PassSound(w)
  BY DEF PassSound, WritesFromFreshState, CommandsHaveOrders, OrderLockHeld,
         ResultsFit
<1>b. \A d \in Commands : cstatus[d] # NoCommand => cstatus'[d] # NoCommand
  BY CommandsStay
<1>c. todo[w] \subseteq Commands
  BY DEF TypeOK
<1>d. pc \in [Workers -> Location] /\ cur \in [Workers -> Commands \cup {NoCur}]
      /\ todo \in [Workers -> SUBSET Commands]
      /\ snap \in [Workers -> Snapshot] /\ result \in [Workers -> ReconcileResult]
  BY DEF TypeOK
<1>1. CASE Claim(w)
  <2>1. PICK batch \in SUBSET Claimable : todo' = [todo EXCEPT ![w] = batch]
    BY <1>1 DEF Claim
  <2>2. \A c \in todo'[w] : c \in Commands /\ cstatus[c] # NoCommand
    BY <2>1, <1>d DEF Claimable, NoCommand
  <2>3. pc'[w] = "next"
    BY <1>1, <1>d DEF Claim, Goto
  <2> QED BY <2>2, <2>3, <1>b DEF PassSound, Busy
<1>2. ASSUME NEW c \in Commands, Take(w, c), UNCHANGED cstatus,
             pc'[w] \in Location \ {"call", "apply", "write"}
      PROVE  PassSound(w)'
  BY <1>2, <1>a, <1>b, <1>c, <1>d DEF PassSound, Take
<1>3. ASSUME NEW c \in Commands, NoAdapter(w, c) PROVE PassSound(w)'
  BY <1>3, <1>2, <1>d DEF NoAdapter, Goto, Location
<1>4. ASSUME NEW c \in Commands, HydrateFails(w, c) PROVE PassSound(w)'
  BY <1>4, <1>2, <1>d DEF HydrateFails, Goto, Location
<1>5. ASSUME NEW c \in Commands, Hydrate(w, c) PROVE PassSound(w)'
  <2>1. OrderOf(c) \in Orders
    BY DEF OrderOf, Commands
  <2>2. fillQty[OrderOf(c)] <= Quantity[OrderOf(c)]
    BY <2>1 DEF FillsCountedOnce
  <2>3. pc'[w] = "call" /\ cur'[w] = c /\ snap'[w].filled = fillQty[OrderOf(c)]
    BY <1>5, <1>d DEF Hydrate, Take, Goto
  <2>4. todo'[w] \subseteq todo[w] /\ cstatus' = cstatus /\ c \in todo[w]
    BY <1>5, <1>d DEF Hydrate, Take
  <2> QED BY <2>2, <2>3, <2>4, <1>a, <1>c DEF PassSound, Busy
<1>6. CASE CallSubmitOrCancel(w)
  BY <1>6, <1>a, <1>d DEF CallSubmitOrCancel, PassSound, Busy, Goto
<1>7. CASE CallPaperReconcile(w)
  <2> DEFINE o == OrderOf(cur[w])
  <2>1. o \in Orders /\ snap[w].filled <= Quantity[o]
    BY <1>7, <1>a, InHand DEF CallPaperReconcile, Busy, PassSound
  <2>2. PICK touched \in BOOLEAN :
          result' = [result EXCEPT ![w] = PaperReconcile(snap[w], Quantity[o], touched)]
    BY <1>7 DEF CallPaperReconcile
  <2>3. Fits(o, snap[w], result'[w])
    BY <2>1, <2>2, <1>d, PaperResult
  <2>4. /\ pc'[w] = "apply" /\ UNCHANGED <<cur[w], snap[w], todo[w], cstatus>>
    BY <1>7, <1>d DEF CallPaperReconcile, Goto
  <2>5. Fits(OrderOf(cur[w]), snap[w], result[w])'
    BY <2>3, <2>4, UnreadGrows DEF Fits
  <2> QED BY <1>7, <2>4, <2>5, <2>1, <2>3, <1>a, <1>d
          DEF CallPaperReconcile, PassSound, Busy, Goto
<1>8. CASE CallLiveReconcile(w)
  <2> DEFINE o == OrderOf(cur[w])
  <2>1. o \in Orders /\ snap[w].filled <= Quantity[o]
    BY <1>8, <1>a, InHand DEF CallLiveReconcile, Busy, PassSound
  <2>2. CASE snap[w].status \in TerminalStatus \/ venue[o].status # "UNKNOWN"
    <3>1. PICK readable \in BOOLEAN :
            /\ result' = [result EXCEPT ![w] =
                 BinanceReconcile(snap[w], AnswerRead(venue[o], readable))]
            /\ ~readable => unread' = unread \cup
                 {p \in {o} : OrderStatusOf(venue[o].status) \in TerminalStatus}
      BY <1>8, <2>2 DEF CallLiveReconcile
    <3>2. ~readable /\ venue[o].status = "FILLED" => o \in unread'
      BY <3>1 DEF OrderStatusOf, TerminalStatus
    <3>3. /\ venue[o] \in [status : VenueStatus, executed : Nat]
          /\ venue[o].executed <= Quantity[o]
          /\ venue[o].status = "FILLED" => venue[o].executed = Quantity[o]
          /\ Mode[o] = "live" /\ snap[w] \in Snapshot
      BY <1>8, <2>1, <1>d
      DEF CallLiveReconcile, TypeOK, WritesFromFreshState, VenueSound
    <3> DEFINE r == BinanceReconcile(snap[w], AnswerRead(venue[o], readable))
    <3>4. /\ snap[w].filled + r.quantity <= Quantity[o]
          /\ r.status = "filled" =>
               \/ snap[w].filled + r.quantity = Quantity[o]
               \/ ~readable /\ venue[o].status = "FILLED"
          /\ r.status = NoStatus => r.quantity = 0
          /\ snap[w].status \in TerminalStatus => r = NoChange
      BY <2>1, <2>2, <3>3, LiveResult
    <3>5. result'[w] = r
      BY <3>1, <1>d
    <3> HIDE DEF r
    <3>6. /\ pc'[w] = "apply"
          /\ UNCHANGED <<cur[w], snap[w], todo[w], cstatus>>
      BY <1>8, <2>2, <1>d DEF CallLiveReconcile, Goto
    <3>7. Fits(OrderOf(cur[w]), snap[w], result[w])'
      BY <3>2, <3>3, <3>4, <3>5, <3>6 DEF Fits
    <3> QED BY <1>8, <2>1, <3>6, <3>7, <1>a, <1>d
            DEF CallLiveReconcile, PassSound, Busy
  <2>3. CASE ~(snap[w].status \in TerminalStatus \/ venue[o].status # "UNKNOWN")
    BY <1>8, <2>3, <1>a, <1>d DEF CallLiveReconcile, PassSound, Busy, Goto
  <2> QED BY <2>2, <2>3
<1>9. CASE PersistOpen(w)
  <2>1. UNCHANGED <<cur[w], snap[w], result[w], todo[w]>>
    BY <1>9 DEF PersistOpen
  <2>2. Fits(OrderOf(cur[w]), snap[w], result[w])
          => Fits(OrderOf(cur[w]), snap[w], result[w])'
    BY <2>1, UnreadGrows DEF Fits
  <2> QED BY <1>9, <1>a, <1>b, <1>d, <2>2
          DEF PersistOpen, PassSound, Busy, Goto, Unchanged
<1>10. ASSUME todo'[w] = todo[w], cur'[w] = cur[w], Busy(w),
              pc'[w] \notin {"call", "apply", "write"}
       PROVE  PassSound(w)'
  BY <1>10, <1>a, <1>b, <1>c DEF PassSound, Busy
<1>11. CASE ApplySubmit(w) \/ ApplyCancel(w) \/ PersistCommit(w) \/ TransactionFails(w)
            \/ EventWriteFails(w)
            \/ MarkReconciliationRequired(w) \/ MarkPermanentlyRejected(w)
  BY <1>10, <1>11, <1>d
  DEF ApplySubmit, ApplyCancel, PersistCommit, TransactionFails, EventWriteFails,
      Committed,
      Goto, Busy, MarkReconciliationRequired, MarkPermanentlyRejected
<1>12. ASSUME Proceed(w), todo'[w] = todo[w] PROVE PassSound(w)'
  BY <1>12, <1>a, <1>b, <1>c, <1>d DEF PassSound, Busy, Proceed
<1>13. CASE MarkDelivered(w) \/ Requeue(w) \/ RecordParked(w) \/ RecordRejected(w)
            \/ RecordFails(w)
  BY <1>12, <1>13 DEF MarkDelivered, Requeue, RecordParked, RecordRejected, RecordFails
<1>14. CASE MarkFails(w)
  BY <1>10, <1>12, <1>14, <1>d DEF MarkFails, Goto, Busy
<1>15. CASE Crash(w)
  <2>1. pc'[w] = "idle" /\ todo'[w] = {}
    BY <1>15, <1>d DEF Crash, Goto
  <2> QED BY <2>1 DEF PassSound, Busy
<1> QED
  BY <1>1, <1>3, <1>4, <1>5, <1>6, <1>7, <1>8, <1>9, <1>11, <1>13, <1>14, <1>15
  DEF WorkerStep, WorkerFault

(* While a pass is between its lock and its commit, nothing it did not do   *)
(* itself moves its order.                                                  *)
LEMMA LockRespected ==
  ASSUME IInv, Next, NEW x \in Workers, pc[x] = "write", pc'[x] = "write"
  PROVE  /\ status'[OrderOf(cur[x])] = status[OrderOf(cur[x])]
         /\ filled'[OrderOf(cur[x])] = filled[OrderOf(cur[x])]
<1> USE DEF IInv, orderVars, queueVars, passVars, venueVars
<1> DEFINE p == OrderOf(cur[x])
           Kept == status'[p] = status[p] /\ filled'[p] = filled[p]
<1>1. p \in Orders /\ status[p] # NoOrder
  BY InHand DEF Busy, WritesFromFreshState, CommandsHaveOrders
<1>2. UNCHANGED <<status, filled>> => Kept
  OBVIOUS
<1>3. ASSUME NEW o \in Orders, PlaceOrder(o) PROVE Kept
  BY <1>1, <1>3 DEF PlaceOrder, SetStatus, TypeOK
<1>4. ASSUME NEW w \in Workers, ApplySubmit(w) \/ ApplyCancel(w) \/ RecordRejected(w)
      PROVE  Kept
  <2>1. p # OrderOf(cur[w])
    BY <1>4 DEF ApplySubmit, ApplyCancel, RecordRejected, Unlocked
  <2> QED BY <1>1, <1>4, <2>1
          DEF ApplySubmit, ApplyCancel, RecordRejected, SetStatus, TypeOK
<1>5. ASSUME NEW w \in Workers, PersistCommit(w) PROVE Kept
  <2>1. pc[w] = "write" /\ pc'[w] # "write"
    BY <1>5 DEF PersistCommit, TypeOK, Goto, Committed
  <2>2. p # OrderOf(cur[w])
    BY <2>1 DEF WritesFromFreshState, OrderLockHeld
  <2> QED BY <1>1, <1>5, <2>2 DEF PersistCommit, SetStatus, TypeOK
<1>6. ASSUME NEW w \in Workers, WorkerStep(w) PROVE Kept
  BY <1>2, <1>4, <1>5, <1>6
  DEF WorkerStep, Claim, NoAdapter, Hydrate, CallSubmitOrCancel,
      CallPaperReconcile, CallLiveReconcile, PersistOpen, MarkDelivered,
      Requeue, MarkReconciliationRequired, MarkPermanentlyRejected,
      RecordParked
<1>7. ASSUME NEW w \in Workers, WorkerFault(w) PROVE Kept
  BY <1>2, <1>7
  DEF WorkerFault, HydrateFails, TransactionFails, EventWriteFails, MarkFails,
      RecordFails, Crash
<1> QED
  BY <1>2, <1>3, <1>6, <1>7
  DEF Next, RequestCancel, VenueMoves, Poll, vars, LeaseExpires

(* Every pass stays sound, the acting one and the others.                   *)
LEMMA AllPassesSound ==
  ASSUME IInv, Next, NEW x \in Workers
  PROVE  PassSound(x)'
<1>a. PassSound(x)
  BY DEF IInv, PassSound, WritesFromFreshState, CommandsHaveOrders,
         OrderLockHeld, ResultsFit
<1>b. \A d \in Commands : cstatus[d] # NoCommand => cstatus'[d] # NoCommand
  BY CommandsStay
<1>c. todo[x] \subseteq Commands
  BY DEF IInv, TypeOK
<1>1. ASSUME UNCHANGED <<pc[x], todo[x], cur[x], snap[x], result[x]>>
      PROVE  PassSound(x)'
  <2>1. pc[x] = "write" => Unchanged(OrderOf(cur[x]), snap[x])'
    BY <1>1, <1>a, LockRespected DEF PassSound, Unchanged
  <2>2. Fits(OrderOf(cur[x]), snap[x], result[x])
          => Fits(OrderOf(cur[x]), snap[x], result[x])'
    BY <1>1, UnreadGrows DEF Fits
  <2> QED BY <1>1, <1>a, <1>b, <1>c, <2>1, <2>2 DEF PassSound, Busy
<1>2. ASSUME NEW w \in Workers, WorkerStep(w) \/ WorkerFault(w) PROVE PassSound(x)'
  BY <1>1, <1>2, OtherPasses, ActingPassSound
<1> QED
  BY <1>1, <1>2
  DEF Next, PlaceOrder, RequestCancel, VenueMoves, Poll, vars, passVars,
      venueVars, LeaseExpires

(* A command belongs to an order that exists.                               *)
LEMMA OrdersBehindCommands ==
  ASSUME IInv, Next, NEW d \in Commands, cstatus'[d] # NoCommand
  PROVE  status'[OrderOf(d)] # NoOrder
<1> USE StatusSets DEF IInv, orderVars, queueVars, passVars, venueVars
<1>1. OrderOf(d) \in Orders
  BY DEF OrderOf, Commands
<1>2. ASSUME status[OrderOf(d)] # NoOrder PROVE status'[OrderOf(d)] # NoOrder
  BY <1>1, <1>2, StatusMoves DEF Legal
<1>3. ASSUME cstatus[d] # NoCommand PROVE status'[OrderOf(d)] # NoOrder
  BY <1>2, <1>3 DEF WritesFromFreshState, CommandsHaveOrders
<1>4. ASSUME NEW o \in Orders, PlaceOrder(o) PROVE status'[OrderOf(d)] # NoOrder
  <2>1. CASE d = <<o, "submit">>
    BY <1>4, <2>1, <1>1
    DEF PlaceOrder, SetStatus, InitialStatus, NoOrder, OrderOf, TypeOK
  <2>2. CASE d # <<o, "submit">>
    BY <1>4, <2>2, <1>3 DEF PlaceOrder, Enqueue, TypeOK
  <2> QED BY <2>1, <2>2
<1>5. ASSUME NEW o \in Orders, RequestCancel(o) PROVE status'[OrderOf(d)] # NoOrder
  <2>1. CASE d = <<o, "cancel">>
    BY <1>5, <2>1, <1>2 DEF RequestCancel, OrderOf
  <2>2. CASE d # <<o, "cancel">>
    BY <1>5, <2>2, <1>3 DEF RequestCancel, Enqueue, TypeOK
  <2> QED BY <2>1, <2>2
<1>6. ASSUME NEW w \in Workers, ApplySubmit(w) \/ ApplyCancel(w)
      PROVE  status'[OrderOf(d)] # NoOrder
  <2> DEFINE o == OrderOf(cur[w])
  <2>1. status[o] # NoOrder
    BY <1>6, InHand
    DEF ApplySubmit, ApplyCancel, Busy, WritesFromFreshState, CommandsHaveOrders
  <2>2. CASE OrderOf(d) = o
    BY <2>1, <2>2, <1>2
  <2>3. CASE OrderOf(d) # o
    <3>1. cstatus'[d] = cstatus[d]
      BY <1>6, <2>3 DEF ApplySubmit, ApplyCancel, Enqueue, TypeOK, OrderOf
    <3> QED BY <3>1, <1>3
  <2> QED BY <2>2, <2>3
<1>7. ASSUME NEW w \in Workers, Claim(w) PROVE status'[OrderOf(d)] # NoOrder
  BY <1>3, <1>7 DEF Claim, Claimable, NoCommand
<1>8. ASSUME NEW w \in Workers, NEW st \in CommandStatus, Busy(w), Mark(w, st)
      PROVE  status'[OrderOf(d)] # NoOrder
  <2>1. cur[w] \in Commands /\ cstatus[cur[w]] # NoCommand
    BY <1>8 DEF WritesFromFreshState, CommandsHaveOrders
  <2> QED BY <1>3, <1>8, <2>1 DEF Mark, TypeOK
<1>9. ASSUME UNCHANGED cstatus PROVE status'[OrderOf(d)] # NoOrder
  BY <1>3, <1>9
<1>10. ASSUME NEW w \in Workers, WorkerStep(w) PROVE status'[OrderOf(d)] # NoOrder
  BY <1>6, <1>7, <1>8, <1>9, <1>10
  DEF WorkerStep, NoAdapter, Hydrate, CallSubmitOrCancel, PersistCommit,
      CallPaperReconcile, CallLiveReconcile, PersistOpen, MarkDelivered,
      Requeue, MarkReconciliationRequired, MarkPermanentlyRejected,
      RecordParked, RecordRejected, CommandStatus, Busy
<1>11. ASSUME NEW w \in Workers, WorkerFault(w) PROVE status'[OrderOf(d)] # NoOrder
  BY <1>9, <1>11
  DEF WorkerFault, HydrateFails, TransactionFails, EventWriteFails, MarkFails,
      RecordFails, Crash
<1> QED
  BY <1>4, <1>5, <1>9, <1>10, <1>11
  DEF Next, VenueMoves, Poll, vars, LeaseExpires

(* Two passes never stand between lock and commit of the same order.        *)
LEMMA LockExclusive ==
  ASSUME IInv, Next
  PROVE  \A w, x \in Workers :
           /\ pc'[w] = "write" /\ pc'[x] = "write"
           /\ OrderOf(cur'[w]) = OrderOf(cur'[x])
           => w = x
<1> USE DEF IInv, orderVars, queueVars, passVars, venueVars
<1> DEFINE Excl == \A w, x \in Workers :
                     /\ pc'[w] = "write" /\ pc'[x] = "write"
                     /\ OrderOf(cur'[w]) = OrderOf(cur'[x])
                     => w = x
<1>1. UNCHANGED <<pc, cur>> => Excl
  BY DEF WritesFromFreshState, OrderLockHeld
<1>2. ASSUME NEW v \in Workers, WorkerStep(v) \/ WorkerFault(v) PROVE Excl
  <2>1. \A x \in Workers \ {v} : UNCHANGED <<pc[x], cur[x]>>
    BY <1>2, OtherPasses
  <2>2. CASE PersistOpen(v)
    <3>1. UNCHANGED cur[v] /\ Unlocked(OrderOf(cur[v]))
      BY <2>2 DEF PersistOpen
    <3>2. \A x \in Workers : x # v /\ pc'[x] = "write" =>
            OrderOf(cur'[x]) # OrderOf(cur'[v])
      BY <2>1, <3>1 DEF Unlocked
    <3> QED BY <2>1, <3>2 DEF WritesFromFreshState, OrderLockHeld
  <2>3. CASE ~PersistOpen(v)
    <3>1. pc \in [Workers -> Location]
      BY DEF TypeOK
    <3>2. pc'[v] # "write"
      BY <1>2, <2>3, <3>1
      DEF WorkerStep, WorkerFault, Claim, NoAdapter, Hydrate, HydrateFails,
          CallSubmitOrCancel, CallPaperReconcile, CallLiveReconcile,
          ApplySubmit, ApplyCancel, Committed, PersistCommit,
          TransactionFails, EventWriteFails, MarkDelivered, Requeue,
          MarkReconciliationRequired, MarkPermanentlyRejected, MarkFails,
          RecordParked, RecordRejected, RecordFails, Crash, Goto, Proceed
    <3> QED BY <2>1, <3>2 DEF WritesFromFreshState, OrderLockHeld
  <2> QED BY <2>2, <2>3
<1> QED
  BY <1>1, <1>2
  DEF Next, PlaceOrder, RequestCancel, VenueMoves, Poll, vars, LeaseExpires

(* The venue never executes more than the order.                            *)
LEMMA VenueStaysSound ==
  ASSUME IInv, Next
  PROVE  VenueSound'
<1> USE OutboxAssumption DEF IInv, orderVars, queueVars, passVars, venueVars
<1>1. UNCHANGED venue => VenueSound'
  BY DEF WritesFromFreshState, VenueSound
<1>2. ASSUME NEW o \in Orders, VenueMoves(o) PROVE VenueSound'
  <2>1. \A p \in Orders : venue[p].executed \in Nat /\ Quantity[p] \in Nat
    BY DEF TypeOK
  <2>2. PICK st \in VenueStatus, exec \in Nat :
          /\ venue' = [venue EXCEPT ![o] = [status |-> st, executed |-> exec]]
          /\ exec <= Quantity[o]
          /\ st = "FILLED" => exec = Quantity[o]
    <3>1. \A exec \in (venue[o].executed + 1) .. Quantity[o] :
            exec \in Nat /\ exec <= Quantity[o]
      BY <2>1
    <3>2. venue[o].executed <= Quantity[o]
      BY DEF WritesFromFreshState, VenueSound
    <3> QED BY <1>2, <2>1, <3>1, <3>2 DEF VenueMoves, VenueStatus
  <2>3. \A p \in Orders : venue'[p] = IF p = o THEN [status |-> st, executed |-> exec]
                                               ELSE venue[p]
    BY <2>2 DEF TypeOK
  <2> QED BY <2>2, <2>3 DEF WritesFromFreshState, VenueSound
<1> QED
  BY <1>1, <1>2
  DEF Next, WorkerStep, WorkerFault, PlaceOrder, RequestCancel, Poll, vars,
      LeaseExpires, Claim, NoAdapter, Hydrate, HydrateFails,
      CallSubmitOrCancel, CallPaperReconcile, CallLiveReconcile,
      ApplySubmit, ApplyCancel, PersistOpen, PersistCommit,
      TransactionFails, EventWriteFails, MarkDelivered, Requeue,
      MarkReconciliationRequired,
      MarkPermanentlyRejected, MarkFails, RecordParked, RecordRejected,
      RecordFails, Crash

(* A commit of a reconcile result changes only its order, from the state it *)
(* was computed from, by the quantity of the result.                        *)
LEMMA CommitEffect ==
  ASSUME IInv, NEW w \in Workers, PersistCommit(w),
         ~UNCHANGED <<status, filled, nfills, fillQty>>
  PROVE  LET o == OrderOf(cur[w])
             r == result[w]
         IN  /\ o \in Orders
             /\ r.status # NoStatus /\ Legal(status[o], r.status)
             /\ Fits(o, snap[w], r) /\ snap[w].filled = filled[o]
             /\ snap[w].status = status[o]
             /\ r.quantity \in Nat /\ filled[o] + r.quantity <= Quantity[o]
             /\ status' = [status EXCEPT ![o] = r.status]
             /\ filled' = [filled EXCEPT ![o] = filled[o] + r.quantity]
             /\ fillQty' = [fillQty EXCEPT ![o] = fillQty[o] + r.quantity]
             /\ r.quantity = 0 => nfills' = nfills
             /\ \A p \in Orders \ {o} : nfills'[p] = nfills[p]
<1> USE OutboxAssumption DEF IInv, orderVars, queueVars, passVars, venueVars
<1> DEFINE o == OrderOf(cur[w])
           r == result[w]
<1>1. o \in Orders /\ pc[w] = "write"
  BY InHand DEF PersistCommit, Busy
<1>2. Fits(o, snap[w], r) /\ Unchanged(o, snap[w])
  BY <1>1 DEF WritesFromFreshState, OrderLockHeld, ResultsFit, CommandsHaveOrders
<1>3. r.quantity \in Nat /\ filled[o] \in Nat /\ fillQty[o] \in Nat
  BY <1>1 DEF TypeOK, ReconcileResult
<1>4. r.status # NoStatus
  BY <1>2, <1>3 DEF PersistCommit, Fits
<1>5. /\ Legal(status[o], r.status)
      /\ status' = [status EXCEPT ![o] = r.status]
      /\ filled' = [filled EXCEPT ![o] = filled[o] + r.quantity]
  BY <1>4 DEF PersistCommit, MoveIllegal, SetStatus, FilledAfter
<1>6. /\ r.quantity > 0 => /\ nfills' = [nfills EXCEPT ![o] = @ + 1]
                           /\ fillQty' = [fillQty EXCEPT ![o] = @ + r.quantity]
      /\ ~(r.quantity > 0) => UNCHANGED <<nfills, fillQty>>
  BY DEF PersistCommit
<1>7. fillQty' = [fillQty EXCEPT ![o] = fillQty[o] + r.quantity]
  <2>1. CASE r.quantity > 0
    BY <2>1, <1>6
  <2>2. CASE ~(r.quantity > 0)
    BY <2>2, <1>6, <1>3, <1>1 DEF TypeOK
  <2> QED BY <2>1, <2>2
<1>8. /\ r.quantity = 0 => nfills' = nfills
      /\ \A p \in Orders \ {o} : nfills'[p] = nfills[p]
  BY <1>1, <1>3, <1>6 DEF TypeOK
<1>9. filled[o] + r.quantity <= Quantity[o] /\ snap[w].filled = filled[o]
      /\ snap[w].status = status[o]
  BY <1>2 DEF Fits, Unchanged
<1> QED BY <1>1, <1>2, <1>3, <1>4, <1>5, <1>7, <1>8, <1>9

(* Fills stay counted once.                                                 *)
LEMMA FillsStep ==
  ASSUME IInv, Next
  PROVE  FillsCountedOnce'
<1> USE OutboxAssumption DEF IInv, orderVars, queueVars, passVars, venueVars
<1>a. unread \subseteq unread'
  BY UnreadGrows
<1>1. UNCHANGED <<status, filled, fillQty>> => FillsCountedOnce'
  BY <1>a DEF FillsCountedOnce
<1>2. ASSUME UNCHANGED <<filled, fillQty>>,
             \A p \in Orders : status'[p] = "filled" => status[p] = "filled"
      PROVE  FillsCountedOnce'
  BY <1>2, <1>a DEF FillsCountedOnce
<1>3. ASSUME NEW o \in Orders, PlaceOrder(o) PROVE FillsCountedOnce'
  BY <1>2, <1>3 DEF PlaceOrder, SetStatus, InitialStatus, TypeOK
<1>4. ASSUME NEW w \in Workers, ApplySubmit(w) \/ ApplyCancel(w) \/ RecordRejected(w)
      PROVE  FillsCountedOnce'
  BY <1>2, <1>4 DEF ApplySubmit, ApplyCancel, RecordRejected, SetStatus, TypeOK
<1>5. ASSUME NEW w \in Workers, PersistCommit(w) PROVE FillsCountedOnce'
  <2>1. CASE UNCHANGED <<status, filled, nfills, fillQty>>
    BY <2>1, <1>1
  <2>2. CASE ~UNCHANGED <<status, filled, nfills, fillQty>>
    <3> DEFINE o == OrderOf(cur[w])
               r == result[w]
    <3>1. /\ o \in Orders /\ Fits(o, snap[w], r) /\ snap[w].filled = filled[o]
          /\ filled[o] + r.quantity <= Quantity[o]
          /\ status' = [status EXCEPT ![o] = r.status]
          /\ filled' = [filled EXCEPT ![o] = filled[o] + r.quantity]
          /\ fillQty' = [fillQty EXCEPT ![o] = fillQty[o] + r.quantity]
      BY <1>5, <2>2, CommitEffect
    <3>2. r.status = "filled" =>
            filled[o] + r.quantity = Quantity[o] \/ o \in unread
      BY <3>1 DEF Fits
    <3>3. \A p \in Orders :
            /\ filled'[p] = IF p = o THEN filled[o] + r.quantity ELSE filled[p]
            /\ fillQty'[p] = IF p = o THEN fillQty[o] + r.quantity ELSE fillQty[p]
            /\ status'[p] = IF p = o THEN r.status ELSE status[p]
      BY <3>1 DEF TypeOK
    <3> HIDE DEF o, r
    <3> QED BY <1>a, <3>1, <3>2, <3>3 DEF FillsCountedOnce
  <2> QED BY <2>1, <2>2
<1>6. ASSUME NEW w \in Workers, WorkerStep(w) PROVE FillsCountedOnce'
  BY <1>1, <1>4, <1>5, <1>6
  DEF WorkerStep, Claim, NoAdapter, Hydrate, CallSubmitOrCancel,
      CallPaperReconcile, CallLiveReconcile, PersistOpen, MarkDelivered,
      Requeue, MarkReconciliationRequired, MarkPermanentlyRejected,
      RecordParked
<1>7. ASSUME NEW w \in Workers, WorkerFault(w) PROVE FillsCountedOnce'
  BY <1>1, <1>7
  DEF WorkerFault, HydrateFails, TransactionFails, EventWriteFails, MarkFails,
      RecordFails, Crash
<1> QED
  BY <1>1, <1>3, <1>6, <1>7
  DEF Next, RequestCancel, VenueMoves, Poll, vars, LeaseExpires

(* Every step of the server, the workers and the venue preserves the        *)
(* inductive invariant.                                                     *)
LEMMA IInvStep == IInv /\ [Next]_vars => IInv'
<1> SUFFICES ASSUME IInv, [Next]_vars PROVE IInv'
  OBVIOUS
<1>1. CASE UNCHANGED vars
  <2>1. TypeOK'
    BY TypeStep
  <2>2. FillsCountedOnce' /\ WritesFromFreshState'
    BY <1>1 DEF IInv, vars, orderVars, queueVars, passVars, venueVars, FillsCountedOnce,
                WritesFromFreshState, CommandsHaveOrders, OrderLockHeld,
                ResultsFit, VenueSound, Busy, Unchanged, Fits
  <2> QED BY <2>1, <2>2 DEF IInv
<1>2. CASE Next
  <2>1. TypeOK' /\ FillsCountedOnce'
    BY <1>2, TypeStep, FillsStep
  <2>2. \A w \in Workers : PassSound(w)'
    BY <1>2, AllPassesSound
  <2>3. CommandsHaveOrders'
    BY <1>2, <2>2, OrdersBehindCommands DEF CommandsHaveOrders, PassSound
  <2>4. OrderLockHeld'
    BY <1>2, <2>2, LockExclusive DEF OrderLockHeld, PassSound
  <2>5. ResultsFit'
    BY <2>2 DEF ResultsFit, PassSound
  <2>6. VenueSound'
    BY <1>2, VenueStaysSound
  <2> QED BY <2>1, <2>3, <2>4, <2>5, <2>6 DEF IInv, WritesFromFreshState
<1> QED BY <1>1, <1>2

(* So it holds in every state the outbox reaches.                           *)
LEMMA InductiveInvariant == Spec => []IInv
BY InitIInv, IInvStep, PTL DEF Spec

---------------------------------------------------------------------------
(* The theorems *)

(* The tables and the passes stay well typed (outbox_worker.rs, db.rs).     *)
THEOREM TypeCorrect == Spec => []TypeOK
<1>1. IInv => TypeOK
  BY DEF IInv
<1> QED BY <1>1, InductiveInvariant, PTL

(* However many passes replay a reconcile, however often leases run out,    *)
(* passes die and statements fail, a fill is counted once                   *)
(* (persist_reconcile_result).                                              *)
THEOREM FillsAreCountedOnce == Spec => []FillsCountedOnce
<1>1. IInv => FillsCountedOnce
  BY DEF IInv
<1> QED BY <1>1, InductiveInvariant, PTL

(* Whatever a pass writes in its persist transaction was computed from the  *)
(* order as it still is (lock_order, hydrate_snapshot, the optimistic       *)
(* check).                                                                  *)
THEOREM FreshWrites == Spec => []WritesFromFreshState
<1>1. IInv => WritesFromFreshState
  BY DEF IInv
<1> QED BY <1>1, InductiveInvariant, PTL

(* Which steps touch an order's fills: only the commit of a reconcile.      *)
LEMMA OnlyCommitsFill ==
  ASSUME IInv, Next
  PROVE  \/ UNCHANGED <<filled, nfills, fillQty>>
         \/ \E w \in Workers :
              PersistCommit(w) /\ ~UNCHANGED <<status, filled, nfills, fillQty>>
<1> USE DEF orderVars, queueVars, passVars, venueVars
<1>1. ASSUME NEW w \in Workers, WorkerStep(w), ~PersistCommit(w)
      PROVE  UNCHANGED <<filled, nfills, fillQty>>
  BY <1>1
  DEF WorkerStep, Claim, NoAdapter, Hydrate, CallSubmitOrCancel, ApplySubmit,
      ApplyCancel, CallPaperReconcile, CallLiveReconcile, PersistOpen,
      MarkDelivered, Requeue, MarkReconciliationRequired,
      MarkPermanentlyRejected, RecordParked, RecordRejected
<1>2. ASSUME NEW w \in Workers, WorkerFault(w)
      PROVE  UNCHANGED <<filled, nfills, fillQty>>
  BY <1>2
  DEF WorkerFault, HydrateFails, TransactionFails, EventWriteFails, MarkFails,
      RecordFails, Crash
<1> QED
  BY <1>1, <1>2
  DEF Next, PlaceOrder, RequestCancel, VenueMoves, Poll, vars, LeaseExpires

(* No step moves an order order_state.rs calls terminal, or its fills.      *)
LEMMA TerminalStep ==
  ASSUME IInv, Next, NEW o \in Orders, status[o] \in TerminalStatus
  PROVE  UNCHANGED <<status[o], filled[o], nfills[o], fillQty[o]>>
<1>1. \A st \in OrderStatus : ~Legal(status[o], st)
  BY DEF Legal, LegalMoves, TerminalStatus
<1>2. status'[o] = status[o]
  BY <1>1, StatusMoves DEF Legal, LegalMoves, TerminalStatus, NoOrder
<1>3. ASSUME NEW w \in Workers, PersistCommit(w),
             ~UNCHANGED <<status, filled, nfills, fillQty>>
      PROVE  UNCHANGED <<filled[o], nfills[o], fillQty[o]>>
  <2> DEFINE p == OrderOf(cur[w])
             r == result[w]
  <2>1. /\ p \in Orders /\ Legal(status[p], r.status)
        /\ filled' = [filled EXCEPT ![p] = filled[p] + r.quantity]
        /\ fillQty' = [fillQty EXCEPT ![p] = fillQty[p] + r.quantity]
        /\ \A q \in Orders \ {p} : nfills'[q] = nfills[q]
    BY <1>3, CommitEffect
  <2>2. p # o
    BY <2>1 DEF Legal, LegalMoves, TerminalStatus
  <2> HIDE DEF p, r
  <2> QED BY <2>1, <2>2 DEF IInv, TypeOK
<1> QED BY <1>2, <1>3, OnlyCommitsFill

(* A step takes a paper order out of cancel_requested only to cancelled     *)
(* (PaperAdapter::reconcile_order), and fills nothing meanwhile.            *)
LEMMA CancelStep ==
  ASSUME IInv, Next, NEW o \in Orders,
         status[o] = "cancel_requested", Mode[o] = "paper"
  PROVE  status'[o] \in {"cancel_requested", "cancelled"} /\ fillQty'[o] = fillQty[o]
<1> USE DEF orderVars, queueVars, passVars, venueVars
<1> DEFINE Honoured == status'[o] \in {"cancel_requested", "cancelled"}
                       /\ fillQty'[o] = fillQty[o]
<1>1. UNCHANGED <<status, fillQty>> => Honoured
  OBVIOUS
<1>2. ASSUME NEW p \in Orders, PlaceOrder(p) PROVE Honoured
  BY <1>2 DEF PlaceOrder, SetStatus, IInv, TypeOK, NoOrder
<1>3. ASSUME NEW w \in Workers, ApplySubmit(w) \/ ApplyCancel(w) \/ RecordRejected(w)
      PROVE  Honoured
  BY <1>3 DEF ApplySubmit, ApplyCancel, RecordRejected, SetStatus, IInv,
              TypeOK, Legal, LegalMoves
<1>4. ASSUME NEW w \in Workers, PersistCommit(w) PROVE Honoured
  <2> DEFINE p == OrderOf(cur[w])
             r == result[w]
  <2>1. CASE UNCHANGED <<status, filled, nfills, fillQty>>
    BY <2>1, <1>1
  <2>2. CASE ~UNCHANGED <<status, filled, nfills, fillQty>>
    <3>1. /\ p \in Orders /\ Fits(p, snap[w], r) /\ snap[w].status = status[p]
          /\ r.quantity \in Nat
          /\ status' = [status EXCEPT ![p] = r.status]
          /\ fillQty' = [fillQty EXCEPT ![p] = fillQty[p] + r.quantity]
      BY <1>4, <2>2, CommitEffect
    <3>2. p = o => r.status = "cancelled" /\ r.quantity = 0
      BY <3>1 DEF Fits, Result
    <3>3. fillQty[o] \in Nat
      BY DEF IInv, TypeOK
    <3> HIDE DEF p, r
    <3> QED BY <3>1, <3>2, <3>3 DEF IInv, TypeOK
  <2> QED BY <2>1, <2>2
<1>5. ASSUME NEW w \in Workers, WorkerStep(w) PROVE Honoured
  BY <1>1, <1>3, <1>4, <1>5
  DEF WorkerStep, Claim, NoAdapter, Hydrate, CallSubmitOrCancel,
      CallPaperReconcile, CallLiveReconcile, PersistOpen, MarkDelivered,
      Requeue, MarkReconciliationRequired, MarkPermanentlyRejected,
      RecordParked
<1>6. ASSUME NEW w \in Workers, WorkerFault(w) PROVE Honoured
  BY <1>1, <1>6
  DEF WorkerFault, HydrateFails, TransactionFails, EventWriteFails, MarkFails,
      RecordFails, Crash
<1> QED
  BY <1>1, <1>2, <1>5, <1>6
  DEF Next, RequestCancel, VenueMoves, Poll, vars, LeaseExpires

(* A terminal order never changes again (order_state.rs).                   *)
THEOREM TerminalOrdersAreFinal == Spec => TerminalIsFinal
<1>1. IInv /\ [Next]_vars =>
        [\A o \in Orders : status[o] \in TerminalStatus =>
           UNCHANGED <<status[o], filled[o], nfills[o], fillQty[o]>>]_vars
  BY TerminalStep
<1> QED BY <1>1, InductiveInvariant, PTL DEF Spec, TerminalIsFinal

(* A paper order whose cancel was taken up only becomes cancelled           *)
(* (paper/mod.rs), whatever pass hydrated it before.                        *)
THEOREM CancelsAreHonoured == Spec => CancelHonoured
<1>1. IInv /\ [Next]_vars =>
        [\A o \in Orders : status[o] = "cancel_requested" /\ Mode[o] = "paper" =>
           /\ status'[o] \in {"cancel_requested", "cancelled"}
           /\ fillQty'[o] = fillQty[o]]_vars
  BY CancelStep
<1> QED BY <1>1, InductiveInvariant, PTL DEF Spec, CancelHonoured

---------------------------------------------------------------------------
(* The outbox implements the ledger of orders *)

(* A reconcile is only ever queued for an order past pending, so no answer  *)
(* of an exchange can be what moves an order to submitted.                  *)
ReconcilesAreLate ==
  \A c \in Commands :
    IsReconcile(c) /\ cstatus[c] # NoCommand => status[OrderOf(c)] # "pending"

RInv == IInv /\ ReconcilesAreLate

(* dispatch enqueues a reconcile in the transaction that takes its order    *)
(* past pending, so no step makes one for a pending order.                  *)
LEMMA LateStep ==
  ASSUME RInv, Next
  PROVE  ReconcilesAreLate'
<1> USE StatusSets DEF RInv, IInv, orderVars, queueVars, passVars, venueVars
<1> SUFFICES ASSUME NEW c \in Commands, IsReconcile(c), cstatus'[c] # NoCommand
             PROVE  status'[OrderOf(c)] # "pending"
  BY DEF ReconcilesAreLate
<1>1. OrderOf(c) \in Orders
  BY DEF OrderOf, Commands
<1>2. ASSUME status[OrderOf(c)] \notin {NoOrder, "pending"}
      PROVE  status'[OrderOf(c)] # "pending"
  BY <1>1, <1>2, StatusMoves DEF Legal, LegalMoves
<1>3. ASSUME cstatus[c] # NoCommand PROVE status'[OrderOf(c)] # "pending"
  BY <1>2, <1>3 DEF ReconcilesAreLate, WritesFromFreshState, CommandsHaveOrders
<1>4. ASSUME NEW w \in Workers, ApplySubmit(w) \/ ApplyCancel(w)
      PROVE  status'[OrderOf(c)] # "pending"
  <2> DEFINE o == OrderOf(cur[w])
  <2>1. o \in Orders
    BY <1>4, InHand DEF ApplySubmit, ApplyCancel, Busy
  <2>2. status'[o] # "pending"
    BY <1>4, <2>1 DEF ApplySubmit, ApplyCancel, SetStatus, TypeOK, Legal, LegalMoves
  <2>3. CASE OrderOf(c) = o
    BY <2>2, <2>3
  <2>4. CASE OrderOf(c) # o
    <3>1. cstatus'[c] = cstatus[c]
      BY <1>4, <2>4 DEF ApplySubmit, ApplyCancel, Enqueue, TypeOK, OrderOf
    <3> QED BY <3>1, <1>3
  <2> QED BY <2>3, <2>4
<1>5. ASSUME NEW d \in Commands, ~IsReconcile(d), Enqueue(d)
      PROVE  status'[OrderOf(c)] # "pending"
  BY <1>3, <1>5 DEF Enqueue, TypeOK
<1>6. ASSUME NEW o \in Orders, PlaceOrder(o) \/ RequestCancel(o)
      PROVE  status'[OrderOf(c)] # "pending"
  BY <1>5, <1>6
  DEF PlaceOrder, RequestCancel, Commands, CommandKind, IsReconcile, KindOf
<1>7. ASSUME NEW w \in Workers, Claim(w) PROVE status'[OrderOf(c)] # "pending"
  BY <1>3, <1>7 DEF Claim, Claimable, NoCommand
<1>8. ASSUME NEW w \in Workers, NEW st \in CommandStatus, Busy(w), Mark(w, st)
      PROVE  status'[OrderOf(c)] # "pending"
  <2>1. cur[w] \in Commands /\ cstatus[cur[w]] # NoCommand
    BY <1>8 DEF WritesFromFreshState, CommandsHaveOrders
  <2> QED BY <1>3, <1>8, <2>1 DEF Mark, TypeOK
<1>9. ASSUME UNCHANGED cstatus PROVE status'[OrderOf(c)] # "pending"
  BY <1>3, <1>9
<1>10. ASSUME NEW w \in Workers, WorkerStep(w) PROVE status'[OrderOf(c)] # "pending"
  BY <1>4, <1>7, <1>8, <1>9, <1>10
  DEF WorkerStep, NoAdapter, Hydrate, CallSubmitOrCancel, PersistCommit,
      CallPaperReconcile, CallLiveReconcile, PersistOpen, MarkDelivered,
      Requeue, MarkReconciliationRequired, MarkPermanentlyRejected,
      RecordParked, RecordRejected, CommandStatus, Busy
<1>11. ASSUME NEW w \in Workers, WorkerFault(w) PROVE status'[OrderOf(c)] # "pending"
  BY <1>9, <1>11
  DEF WorkerFault, HydrateFails, TransactionFails, EventWriteFails, MarkFails,
      RecordFails, Crash
<1> QED
  BY <1>6, <1>9, <1>10, <1>11 DEF Next, VenueMoves, Poll, vars, LeaseExpires

(* Both invariants hold in every state the outbox reaches.                  *)
LEMMA RInvariant == Spec => []RInv
<1>1. Init => RInv
  BY InitIInv DEF RInv, Init, ReconcilesAreLate
<1>2. RInv /\ [Next]_vars => RInv'
  <2> SUFFICES ASSUME RInv, [Next]_vars PROVE RInv'
    OBVIOUS
  <2>1. IInv'
    BY IInvStep DEF RInv
  <2>2. CASE UNCHANGED vars
    BY <2>1, <2>2 DEF RInv, ReconcilesAreLate, vars, orderVars, queueVars
  <2>3. CASE Next
    BY <2>1, <2>3, LateStep DEF RInv
  <2> QED BY <2>2, <2>3
<1> QED BY <1>1, <1>2, PTL DEF Spec

---------------------------------------------------------------------------
(* Step by step *)

(* The same notions on both sides.                                          *)
LEMMA SameLifecycle ==
  /\ Ledger!OrderStatus = OrderStatus
  /\ Ledger!LegalMoves = LegalMoves
  /\ \A from, to : Ledger!Legal(from, to) <=> Legal(from, to)
BY DEF Ledger!OrderStatus, OrderStatus, Ledger!LegalMoves, LegalMoves,
       Ledger!Legal, Legal

(* A status written with one event is one entry of the ledger's journal.    *)
LEMMA OneEntry ==
  ASSUME TypeOK, NEW o \in Orders, NEW st, NEW e \in OrderEvent,
         SetStatus(o, st, {e})
  PROVE  Ledger!Entered(o, e)
<1>1. journal[o] \in [OrderEvent -> Nat]
  BY DEF TypeOK
<1>2. [x \in OrderEvent |-> IF x \in {e} THEN journal[o][x] + 1 ELSE journal[o][x]]
      = [journal[o] EXCEPT ![e] = @ + 1]
  BY <1>1
<1> QED BY <1>2 DEF SetStatus, Ledger!Entered

(* No event at all leaves the journal as it is.                             *)
LEMMA NoEntry ==
  ASSUME TypeOK, NEW o \in Orders, NEW st, SetStatus(o, st, {})
  PROVE  UNCHANGED journal
<1>1. journal \in [Orders -> [OrderEvent -> Nat]]
      /\ journal[o] \in [OrderEvent -> Nat]
  BY DEF TypeOK
<1>2. [x \in OrderEvent |-> IF x \in {} THEN journal[o][x] + 1 ELSE journal[o][x]]
      = journal[o]
  BY <1>1
<1> QED BY <1>1, <1>2 DEF SetStatus

(* Every step of the outbox is one step of one order in the ledger, or      *)
(* changes nothing the ledger sees.                                         *)
LEMMA LedgerStep ==
  ASSUME RInv, Next
  PROVE  [Ledger!LedgerNext]_(Ledger!ledger)
<1> USE OutboxAssumption, SameLifecycle DEF RInv, IInv, orderVars, queueVars, passVars, venueVars
<1> DEFINE Maps == [Ledger!LedgerNext]_(Ledger!ledger)
<1>1. UNCHANGED <<status, filled, journal>> => Maps
  BY DEF Ledger!ledger
<1>2. ASSUME NEW o \in Orders, PlaceOrder(o) PROVE Maps
  <2>1. Ledger!Entered(o, "order_placed")
    BY <1>2, OneEntry DEF PlaceOrder, OrderEvent
  <2> QED BY <1>2, <2>1 DEF PlaceOrder, SetStatus, InitialStatus, Ledger!Place,
                            Ledger!LedgerNext
<1>3. ASSUME NEW w \in Workers, ApplySubmit(w) PROVE Maps
  <2> DEFINE o == OrderOf(cur[w])
  <2>1. o \in Orders
    BY <1>3, InHand DEF ApplySubmit, Busy
  <2>2. CASE Legal(status[o], "submitted")
    <3>1. Ledger!Submit(o)
      BY <1>3, <2>1, <2>2, NoEntry DEF ApplySubmit, SetStatus, Ledger!Submit
    <3> QED BY <2>1, <3>1 DEF Ledger!LedgerNext
  <2>3. CASE ~Legal(status[o], "submitted")
    BY <1>1, <1>3, <2>3 DEF ApplySubmit
  <2> QED BY <2>2, <2>3
<1>4. ASSUME NEW w \in Workers, ApplyCancel(w) PROVE Maps
  <2> DEFINE o == OrderOf(cur[w])
  <2>1. o \in Orders
    BY <1>4, InHand DEF ApplyCancel, Busy
  <2>2. CASE Legal(status[o], "cancel_requested")
    <3>1. Ledger!Entered(o, "order_cancel_requested")
      BY <1>4, <2>1, <2>2, OneEntry DEF ApplyCancel, OrderEvent
    <3>2. Ledger!AskCancel(o)
      BY <1>4, <2>2, <3>1 DEF ApplyCancel, SetStatus, Ledger!AskCancel
    <3> QED BY <2>1, <3>2 DEF Ledger!LedgerNext
  <2>3. CASE ~Legal(status[o], "cancel_requested")
    BY <1>1, <1>4, <2>3 DEF ApplyCancel
  <2> QED BY <2>2, <2>3
<1>5. ASSUME NEW w \in Workers, RecordRejected(w) PROVE Maps
  <2> DEFINE o == OrderOf(cur[w])
  <2>1. o \in Orders
    BY <1>5, InHand DEF RecordRejected, Busy
  <2>2. CASE Legal(status[o], "rejected")
    <3>1. Ledger!Entered(o, "order_rejected")
      BY <1>5, <2>1, <2>2, OneEntry DEF RecordRejected, OrderEvent
    <3>2. Ledger!Reject(o)
      BY <1>5, <2>2, <3>1 DEF RecordRejected, SetStatus, Ledger!Reject
    <3> QED BY <2>1, <3>2 DEF Ledger!LedgerNext
  <2>3. CASE ~Legal(status[o], "rejected")
    <3>1. status' = [status EXCEPT ![o] = status[o]]
      BY <1>5, <2>1, <2>3 DEF RecordRejected, TypeOK
    <3>2. Ledger!Reject(o)
      BY <1>5, <2>3, <3>1 DEF RecordRejected, Record, Ledger!Reject, Ledger!Entered
    <3> QED BY <2>1, <3>2 DEF Ledger!LedgerNext
  <2> QED BY <2>2, <2>3
<1>6. ASSUME NEW w \in Workers, PersistCommit(w) PROVE Maps
  <2> DEFINE o == OrderOf(cur[w])
             r == result[w]
  <2>1. CASE UNCHANGED <<status, filled, journal>>
    BY <1>1, <2>1
  <2>2. CASE ~UNCHANGED <<status, filled, journal>>
    <3>1. /\ o \in Orders /\ pc[w] = "write" /\ r \in ReconcileResult
          /\ status[o] # "pending"
      BY <1>6, InHand
      DEF PersistCommit, Busy, TypeOK, ReconcilesAreLate,
          WritesFromFreshState, CommandsHaveOrders
    <3>2. Fits(o, snap[w], r) /\ snap[w].filled = filled[o]
      BY <3>1 DEF WritesFromFreshState, OrderLockHeld, ResultsFit,
                  CommandsHaveOrders, Unchanged
    <3>3. /\ r.status # NoStatus /\ Legal(status[o], r.status)
          /\ SetStatus(o, r.status, {EventFor(r.status)})
          /\ filled' = [filled EXCEPT ![o] = filled[o] + r.quantity]
      BY <1>6, <2>2 DEF PersistCommit, MoveIllegal, FilledAfter
    <3>4. r.status \in OrderStatus \ {"submitted"}
      BY <3>1, <3>3 DEF ReconcileResult, Legal, LegalMoves
    <3>5. EventFor(r.status) \in OrderEvent
      BY <3>4 DEF EventFor, OrderEvent, OrderStatus
    <3>6. Ledger!Entered(o, EventFor(r.status))
      BY <3>1, <3>3, <3>5, OneEntry
    <3>7. r.quantity \in 0 .. (Quantity[o] - filled[o])
      BY <3>1, <3>2 DEF Fits, ReconcileResult, TypeOK
    <3>8. Ledger!Settle(o)
      BY <3>3, <3>4, <3>5, <3>6, <3>7 DEF Ledger!Settle, SetStatus
    <3> QED BY <3>1, <3>8 DEF Ledger!LedgerNext
  <2> QED BY <2>1, <2>2
<1>7. ASSUME NEW w \in Workers, WorkerStep(w) PROVE Maps
  BY <1>1, <1>3, <1>4, <1>5, <1>6, <1>7
  DEF WorkerStep, Claim, NoAdapter, Hydrate, CallSubmitOrCancel,
      CallPaperReconcile, CallLiveReconcile, PersistOpen, MarkDelivered,
      Requeue, MarkReconciliationRequired, MarkPermanentlyRejected,
      RecordParked
<1>8. ASSUME NEW w \in Workers, WorkerFault(w) PROVE Maps
  BY <1>1, <1>8
  DEF WorkerFault, HydrateFails, TransactionFails, EventWriteFails, MarkFails,
      RecordFails, Crash
<1> QED
  BY <1>1, <1>2, <1>7, <1>8
  DEF Next, RequestCancel, VenueMoves, Poll, vars, LeaseExpires

(* The outbox implements the ledger: its Init is the ledger's, and its      *)
(* steps are the ledger's (persist_reconcile_result, dispatch, run_once).   *)
THEOREM OutboxImplementsLedger == Spec => ImplementsLedger
<1>1. Init => Ledger!LedgerInit
  BY DEF Init, Ledger!LedgerInit
<1>2. RInv /\ [Next]_vars => [Ledger!LedgerNext]_(Ledger!ledger)
  BY LedgerStep DEF vars, orderVars, Ledger!ledger
<1> QED
  BY <1>1, <1>2, RInvariant, PTL DEF Spec, ImplementsLedger, Ledger!LedgerSpec

---------------------------------------------------------------------------
(* The journal *)

(* The paper adapter never asks for a cancel by itself.                     *)
AnswerSound(w) ==
  /\ pc[w] \in {"apply", "write"} /\ IsReconcile(cur[w])
  /\ Mode[OrderOf(cur[w])] = "paper"
  => result[w].status # "cancel_requested"

JInv ==
  /\ RInv
  /\ \A w \in Workers : AnswerSound(w)
  /\ JournalMatchesOrders

LEMMA AnswersStaySound ==
  ASSUME JInv, Next, NEW x \in Workers
  PROVE  AnswerSound(x)'
<1> USE DEF JInv, RInv, IInv, orderVars, queueVars, passVars, venueVars
<1>t. pc \in [Workers -> Location] /\ cur \in [Workers -> Commands \cup {NoCur}]
      /\ result \in [Workers -> ReconcileResult]
  BY DEF TypeOK
<1>1. UNCHANGED <<pc[x], cur[x], result[x]>> => AnswerSound(x)'
  BY DEF AnswerSound
<1>2. pc'[x] \notin {"apply", "write"} => AnswerSound(x)'
  BY DEF AnswerSound
<1>3. ASSUME CallSubmitOrCancel(x) PROVE AnswerSound(x)'
  BY <1>3 DEF CallSubmitOrCancel, AnswerSound
<1>4. ASSUME CallPaperReconcile(x) PROVE AnswerSound(x)'
  BY <1>4, <1>t
  DEF CallPaperReconcile, AnswerSound, PaperReconcile, NoChange, Result, NoStatus
<1>5. ASSUME CallLiveReconcile(x) PROVE AnswerSound(x)'
  BY <1>5, <1>t DEF CallLiveReconcile, AnswerSound
<1>6. ASSUME PersistOpen(x) PROVE AnswerSound(x)'
  BY <1>6, <1>t DEF PersistOpen, AnswerSound
<1>7. ASSUME WorkerStep(x) \/ WorkerFault(x) PROVE AnswerSound(x)'
  <2>1. CASE \/ CallSubmitOrCancel(x) \/ CallPaperReconcile(x)
             \/ CallLiveReconcile(x) \/ PersistOpen(x)
    BY <2>1, <1>3, <1>4, <1>5, <1>6
  <2>2. CASE ~(\/ CallSubmitOrCancel(x) \/ CallPaperReconcile(x)
               \/ CallLiveReconcile(x) \/ PersistOpen(x))
    <3>1. pc'[x] \notin {"apply", "write"}
      BY <1>7, <2>2, <1>t
      DEF WorkerStep, WorkerFault, Claim, NoAdapter, Hydrate, HydrateFails,
          ApplySubmit, ApplyCancel, Committed, PersistCommit,
          TransactionFails, EventWriteFails, MarkDelivered, Requeue,
          MarkReconciliationRequired, MarkPermanentlyRejected, MarkFails,
          RecordParked, RecordRejected, RecordFails, Crash, Goto, Proceed
    <3> QED BY <3>1, <1>2
  <2> QED BY <2>1, <2>2
<1>8. ASSUME NEW w \in Workers, WorkerStep(w) \/ WorkerFault(w) PROVE AnswerSound(x)'
  BY <1>1, <1>7, <1>8, OtherPasses
<1> QED
  BY <1>1, <1>8
  DEF Next, PlaceOrder, RequestCancel, VenueMoves, Poll, vars, LeaseExpires

(* The story of one order.                                                  *)
Story(o, st, j) ==
  LET Entries(e, p) == j[e] = IF p THEN 1 ELSE 0
  IN  /\ Entries("order_placed", st # NoOrder)
      /\ Entries("order_filled", st = "filled")
      /\ Entries("order_cancelled", st = "cancelled")
      /\ Mode[o] = "paper" =>
           Entries("order_cancel_requested", st \in {"cancel_requested", "cancelled"})
      /\ st = "rejected" => j["order_rejected"] >= 1

LEMMA Stories ==
  JournalMatchesOrders <=> \A o \in Orders : Story(o, status[o], journal[o])
BY DEF JournalMatchesOrders, Story

(* A status written with its event goes on with the story.                  *)
LEMMA StoryGoesOn ==
  ASSUME TypeOK, NEW o \in Orders, Story(o, status[o], journal[o]),
         NEW st \in OrderStatus, NEW events \in SUBSET OrderEvent,
         SetStatus(o, st, events),
         st # status[o] \/ st = "partially_filled",
         "order_placed" \in events <=> status[o] = NoOrder,
         "order_filled" \in events <=> st = "filled",
         "order_cancelled" \in events <=> st = "cancelled",
         st = "rejected" => "order_rejected" \in events,
         status[o] \notin TerminalStatus,
         Mode[o] = "paper" =>
           /\ "order_cancel_requested" \in events <=> st = "cancel_requested"
           /\ status[o] = "cancel_requested" <=> st = "cancelled"
  PROVE  \A p \in Orders : Story(p, status[p], journal[p]) => Story(p, status'[p], journal'[p])
<1> SUFFICES ASSUME NEW p \in Orders, Story(p, status[p], journal[p])
             PROVE  Story(p, status'[p], journal'[p])
  OBVIOUS
<1>1. journal \in [Orders -> [OrderEvent -> Nat]] /\ status \in [Orders -> OrderStatus \cup {NoOrder}]
  BY DEF TypeOK
<1>2. CASE p # o
  BY <1>1, <1>2 DEF SetStatus
<1>3. CASE p = o
  <2>1. status'[o] = st
    BY <1>1 DEF SetStatus
  <2>2. \A e \in OrderEvent :
          journal'[o][e] = IF e \in events THEN journal[o][e] + 1 ELSE journal[o][e]
    BY <1>1 DEF SetStatus
  <2>3. {"order_placed", "order_filled", "order_cancelled",
         "order_cancel_requested", "order_rejected"} \subseteq OrderEvent
    BY DEF OrderEvent
  <2>5. journal[o]["order_rejected"] \in Nat
    BY <1>1, <2>3
  <2>4. st # NoOrder
    BY StatusSets
  <2> QED BY <1>3, <2>1, <2>2, <2>3, <2>4, <2>5
          DEF Story, TerminalStatus, NoOrder
<1> QED BY <1>2, <1>3

(* What PersistCommit writes goes on with the story of its order.           *)
LEMMA CommitTellsStory ==
  ASSUME JInv, NEW w \in Workers, PersistCommit(w)
  PROVE  JournalMatchesOrders'
<1> USE DEF JInv, RInv, IInv, orderVars, queueVars, passVars, venueVars
<1> DEFINE o  == OrderOf(cur[w])
           st == result[w].status
<1>1. o \in Orders /\ pc[w] = "write" /\ IsReconcile(cur[w])
  BY InHand DEF PersistCommit, Busy, WritesFromFreshState, CommandsHaveOrders
<1>2. CASE UNCHANGED <<status, journal>>
  BY <1>2 DEF JournalMatchesOrders
<1>3. CASE ~UNCHANGED <<status, journal>>
  <2>1. /\ st # NoStatus /\ Legal(status[o], st)
        /\ SetStatus(o, st, {EventFor(st)})
    BY <1>3 DEF PersistCommit, MoveIllegal
  <2>2. st \in OrderStatus /\ status[o] # NoOrder /\ status[o] \notin TerminalStatus
    BY <2>1 DEF Legal, LegalMoves, OrderStatus, TerminalStatus, NoOrder
  <2>3. /\ EventFor(st) \in OrderEvent /\ EventFor(st) # "order_placed"
        /\ EventFor(st) # "order_cancel_requested"
        /\ EventFor(st) = "order_filled" <=> st = "filled"
        /\ EventFor(st) = "order_cancelled" <=> st = "cancelled"
        /\ st = "rejected" => EventFor(st) = "order_rejected"
    BY <2>2 DEF EventFor, OrderStatus, OrderEvent
  <2>4. Fits(o, snap[w], result[w]) /\ snap[w].status = status[o]
    BY <1>1 DEF WritesFromFreshState, OrderLockHeld, ResultsFit, Unchanged
  <2>5. Mode[o] = "paper" =>
          /\ st # "cancel_requested"
          /\ status[o] = "cancel_requested" <=> st = "cancelled"
    <3>1. Mode[o] = "paper" => st # "cancel_requested"
      BY <1>1 DEF AnswerSound
    <3>2. st = "cancelled" => status[o] = "cancel_requested"
      BY <2>1 DEF Legal, LegalMoves
    <3>3. Mode[o] = "paper" /\ status[o] = "cancel_requested" => st = "cancelled"
      BY <2>4 DEF Fits, Result
    <3> QED BY <3>1, <3>2, <3>3
  <2>6. st # status[o] \/ st = "partially_filled"
    BY <2>1 DEF Legal, LegalMoves
  <2> HIDE DEF o, st
  <2>7. \A p \in Orders : Story(p, status[p], journal[p]) => Story(p, status'[p], journal'[p])
    BY <1>1, <2>1, <2>2, <2>3, <2>5, <2>6, StoryGoesOn, Stories
  <2> QED BY <2>7, Stories DEF JournalMatchesOrders, Story
<1> QED BY <1>2, <1>3

(* Every step goes on with the story of every order.                        *)
LEMMA JournalStep ==
  ASSUME JInv, Next
  PROVE  JournalMatchesOrders'
<1> USE DEF JInv, RInv, IInv, orderVars, queueVars, passVars, venueVars
<1>t. status \in [Orders -> OrderStatus \cup {NoOrder}]
  BY DEF TypeOK
<1>0. ASSUME \A p \in Orders :
               Story(p, status[p], journal[p]) => Story(p, status'[p], journal'[p])
      PROVE  JournalMatchesOrders'
  BY <1>0, Stories DEF JournalMatchesOrders, Story
<1>1. UNCHANGED <<status, journal>> => JournalMatchesOrders'
  BY DEF JournalMatchesOrders
<1>2. ASSUME NEW o \in Orders, PlaceOrder(o) PROVE JournalMatchesOrders'
  <2>1. SetStatus(o, "pending", {"order_placed"}) /\ status[o] = NoOrder
    BY <1>2 DEF PlaceOrder, InitialStatus
  <2>2. "pending" \in OrderStatus /\ {"order_placed"} \in SUBSET OrderEvent
        /\ NoOrder \notin TerminalStatus
    BY DEF OrderStatus, OrderEvent, TerminalStatus, NoOrder
  <2>3. \A p \in Orders : Story(p, status[p], journal[p]) => Story(p, status'[p], journal'[p])
    BY <2>1, <2>2, StoryGoesOn, Stories DEF NoOrder
  <2> QED BY <2>3, <1>0
<1>3. ASSUME NEW w \in Workers, ApplySubmit(w) PROVE JournalMatchesOrders'
  <2> DEFINE o == OrderOf(cur[w])
  <2>1. o \in Orders
    BY <1>3, InHand DEF ApplySubmit, Busy
  <2>2. CASE Legal(status[o], "submitted")
    <3>1. SetStatus(o, "submitted", {}) /\ status[o] = "pending"
      BY <1>3, <2>2 DEF ApplySubmit, Legal, LegalMoves
    <3>2. "submitted" \in OrderStatus /\ "pending" \notin TerminalStatus
      BY DEF OrderStatus, TerminalStatus
    <3> HIDE DEF o
    <3>3. \A p \in Orders : Story(p, status[p], journal[p]) => Story(p, status'[p], journal'[p])
      BY <2>1, <3>1, <3>2, StoryGoesOn, Stories DEF NoOrder
    <3> QED BY <3>3, <1>0
  <2>3. CASE ~Legal(status[o], "submitted")
    BY <1>3, <2>3, <1>1 DEF ApplySubmit
  <2> QED BY <2>2, <2>3
<1>4. ASSUME NEW w \in Workers, ApplyCancel(w) PROVE JournalMatchesOrders'
  <2> DEFINE o == OrderOf(cur[w])
  <2>1. o \in Orders
    BY <1>4, InHand DEF ApplyCancel, Busy
  <2>2. CASE Legal(status[o], "cancel_requested")
    <3>1. SetStatus(o, "cancel_requested", {"order_cancel_requested"})
          /\ status[o] \in {"pending", "submitted", "partially_filled"}
      BY <1>4, <2>2 DEF ApplyCancel, Legal, LegalMoves
    <3>2. "cancel_requested" \in OrderStatus
          /\ {"order_cancel_requested"} \in SUBSET OrderEvent
          /\ status[o] \notin TerminalStatus /\ status[o] # NoOrder
          /\ status[o] # "cancel_requested"
      BY <3>1 DEF OrderStatus, OrderEvent, TerminalStatus, NoOrder
    <3> HIDE DEF o
    <3>3. \A p \in Orders : Story(p, status[p], journal[p]) => Story(p, status'[p], journal'[p])
      BY <2>1, <3>1, <3>2, StoryGoesOn, Stories
    <3> QED BY <3>3, <1>0
  <2>3. CASE ~Legal(status[o], "cancel_requested")
    BY <1>4, <2>3, <1>1 DEF ApplyCancel
  <2> QED BY <2>2, <2>3
<1>5. ASSUME NEW w \in Workers, PersistCommit(w) PROVE JournalMatchesOrders'
  BY <1>5, CommitTellsStory
<1>6. ASSUME NEW w \in Workers, RecordRejected(w) PROVE JournalMatchesOrders'
  <2> DEFINE o == OrderOf(cur[w])
  <2>1. o \in Orders
    BY <1>6, InHand DEF RecordRejected, Busy
  <2>2. CASE Legal(status[o], "rejected")
    <3>1. SetStatus(o, "rejected", {"order_rejected"})
          /\ status[o] \in {"pending", "submitted"}
      BY <1>6, <2>2 DEF RecordRejected, Legal, LegalMoves
    <3>2. "rejected" \in OrderStatus /\ {"order_rejected"} \in SUBSET OrderEvent
          /\ status[o] \notin TerminalStatus /\ status[o] # NoOrder
          /\ status[o] # "cancel_requested" /\ status[o] # "rejected"
      BY <3>1 DEF OrderStatus, OrderEvent, TerminalStatus, NoOrder
    <3> HIDE DEF o
    <3>3. \A p \in Orders : Story(p, status[p], journal[p]) => Story(p, status'[p], journal'[p])
      BY <2>1, <3>1, <3>2, StoryGoesOn, Stories
    <3> QED BY <3>3, <1>0
  <2>3. CASE ~Legal(status[o], "rejected")
    <3>1. status' = status /\ Record(o, "order_rejected")
      BY <1>6, <2>3 DEF RecordRejected
    <3>2. journal \in [Orders -> [OrderEvent -> Nat]]
      BY DEF TypeOK
    <3>3. \A p \in Orders, e \in OrderEvent \ {"order_rejected"} :
            journal'[p][e] = journal[p][e]
      BY <2>1, <3>1, <3>2 DEF Record
    <3>4. {"order_placed", "order_filled", "order_cancelled", "order_cancel_requested"}
            \subseteq OrderEvent \ {"order_rejected"}
      BY DEF OrderEvent
    <3>5. ASSUME NEW p \in Orders, journal[p]["order_rejected"] >= 1
          PROVE  journal'[p]["order_rejected"] >= 1
      <4>1. "order_rejected" \in OrderEvent
        BY DEF OrderEvent
      <4>2. /\ journal[p]["order_rejected"] \in Nat
            /\ journal'[p]["order_rejected"]
                 = IF p = o THEN journal[p]["order_rejected"] + 1
                   ELSE journal[p]["order_rejected"]
        BY <2>1, <3>1, <3>2, <4>1 DEF Record
      <4> QED BY <3>5, <4>2
    <3> QED BY <3>1, <3>3, <3>4, <3>5 DEF JournalMatchesOrders
  <2> QED BY <2>2, <2>3
<1>7. ASSUME NEW w \in Workers, WorkerStep(w) PROVE JournalMatchesOrders'
  BY <1>1, <1>3, <1>4, <1>5, <1>6, <1>7
  DEF WorkerStep, Claim, NoAdapter, Hydrate, CallSubmitOrCancel,
      CallPaperReconcile, CallLiveReconcile, PersistOpen, MarkDelivered,
      Requeue, MarkReconciliationRequired, MarkPermanentlyRejected,
      RecordParked
<1>8. ASSUME NEW w \in Workers, WorkerFault(w) PROVE JournalMatchesOrders'
  BY <1>1, <1>8
  DEF WorkerFault, HydrateFails, TransactionFails, EventWriteFails, MarkFails,
      RecordFails, Crash
<1> QED
  BY <1>1, <1>2, <1>7, <1>8
  DEF Next, RequestCancel, VenueMoves, Poll, vars, LeaseExpires

LEMMA RInvStep == RInv /\ [Next]_vars => RInv'
<1> SUFFICES ASSUME RInv, [Next]_vars PROVE RInv'
  OBVIOUS
<1>1. IInv'
  BY IInvStep DEF RInv
<1>2. CASE UNCHANGED vars
  BY <1>1, <1>2 DEF RInv, ReconcilesAreLate, vars, orderVars, queueVars
<1>3. CASE Next
  BY <1>1, <1>3, LateStep DEF RInv
<1> QED BY <1>2, <1>3

(* The audit trail of an order and its row tell the same story of its       *)
(* placement, its fill and its cancel, however often its commands are       *)
(* replayed, and no order is rejected without an entry; of entries of       *)
(* rejections nothing is said (the events written in the transactions of    *)
(* place_order, dispatch, run_once and persist_reconcile_result).           *)
THEOREM JournalTellsTheStory == Spec => []JournalMatchesOrders
<1>1. Init => JInv
  <2>1. Init => RInv
    BY InitIInv DEF RInv, Init, ReconcilesAreLate
  <2>2. Init => JournalMatchesOrders
    BY DEF Init, JournalMatchesOrders, OrderEvent, NoOrder
  <2>3. Init => \A w \in Workers : AnswerSound(w)
    BY DEF Init, AnswerSound
  <2> QED BY <2>1, <2>2, <2>3 DEF JInv
<1>2. JInv /\ [Next]_vars => JInv'
  <2> SUFFICES ASSUME JInv, [Next]_vars PROVE JInv'
    OBVIOUS
  <2>1. RInv'
    BY RInvStep DEF JInv
  <2>2. CASE UNCHANGED vars
    BY <2>1, <2>2
    DEF JInv, JournalMatchesOrders, AnswerSound, vars, orderVars, passVars,
        venueVars
  <2>3. CASE Next
    BY <2>1, <2>3, AnswersStaySound, JournalStep DEF JInv
  <2> QED BY <2>2, <2>3
<1>3. JInv => JournalMatchesOrders
  BY DEF JInv
<1> QED BY <1>1, <1>2, <1>3, PTL DEF Spec

---------------------------------------------------------------------------
(* The queue *)

(* The effect of a command.                                                 *)
Done(c) ==
  LET o == OrderOf(c) IN
  /\ KindOf(c) = "submit" =>
       status[o] # "pending" /\ cstatus[<<o, "initial">>] # NoCommand
  /\ KindOf(c) = "cancel" =>
       status[o] # "pending" /\ cstatus[<<o, "post-cancel">>] # NoCommand
  /\ KindOf(c) = "post-cancel" /\ Mode[o] = "paper" =>
       status[o] # "cancel_requested"

(* The reconcile after a cancel is only queued for an order whose cancel    *)
(* was taken up, or which is over; for a paper order that is for good.      *)
CancelsTakenUp ==
  \A o \in Orders :
    Mode[o] = "paper" /\ cstatus[<<o, "post-cancel">>] # NoCommand
      => status[o] \in TerminalStatus \cup {"cancel_requested"}

(* A command is done before it is marked delivered, and stays done.         *)
QInv ==
  /\ RInv
  /\ CancelsTakenUp
  /\ \A c \in Commands : cstatus[c] = "delivered" => Done(c)
  /\ \A w \in Workers : pc[w] = "deliver" => Done(cur[w])

LEMMA DoneSuffices == QInv => DeliveredMeansDone
<1> SUFFICES ASSUME QInv, NEW o \in Orders
             PROVE  /\ cstatus[<<o, "submit">>] = "delivered"
                         => status[o] # "pending" /\ cstatus[<<o, "initial">>] # NoCommand
                    /\ cstatus[<<o, "cancel">>] = "delivered"
                         => status[o] # "pending" /\ cstatus[<<o, "post-cancel">>] # NoCommand
                    /\ cstatus[<<o, "post-cancel">>] = "delivered" /\ Mode[o] = "paper"
                         => status[o] # "cancel_requested"
  BY DEF DeliveredMeansDone
<1>1. \A k \in CommandKind : <<o, k>> \in Commands /\ OrderOf(<<o, k>>) = o /\ KindOf(<<o, k>>) = k
  BY DEF Commands, OrderOf, KindOf
<1>2. \A k \in CommandKind : cstatus[<<o, k>>] = "delivered" => Done(<<o, k>>)
  BY <1>1 DEF QInv
<1> QED BY <1>1, <1>2 DEF Done, CommandKind

(* An order past pending stays there, a terminal one stays terminal.        *)
LEMMA PastPending ==
  ASSUME IInv, Next, NEW o \in Orders, status[o] # NoOrder
  PROVE  /\ status[o] # "pending" => status'[o] # "pending"
         /\ status'[o] # NoOrder
         /\ status[o] \in TerminalStatus => status'[o] = status[o]
<1>1. status'[o] = status[o] \/ Legal(status[o], status'[o])
  BY StatusMoves
<1>2. status[o] \in TerminalStatus => ~Legal(status[o], status'[o])
  BY DEF Legal, LegalMoves, TerminalStatus
<1>3. Legal(status[o], status'[o]) => status'[o] \notin {NoOrder, "pending"}
  BY DEF Legal, LegalMoves, NoOrder
<1> QED BY <1>1, <1>2, <1>3

(* What is done stays done.                                                 *)
LEMMA DoneStays ==
  ASSUME QInv, Next, NEW c \in Commands, cstatus[c] # NoCommand, Done(c)
  PROVE  Done(c)'
<1> DEFINE o == OrderOf(c)
<1>1. o \in Orders /\ status[o] # NoOrder /\ c = <<o, KindOf(c)>>
  BY DEF QInv, RInv, IInv, WritesFromFreshState, CommandsHaveOrders, OrderOf,
         KindOf, Commands
<1>2. \A k \in CommandKind : cstatus[<<o, k>>] # NoCommand => cstatus'[<<o, k>>] # NoCommand
  BY <1>1, CommandsStay DEF QInv, RInv, Commands
<1>3. status[o] # "pending" => status'[o] # "pending"
  BY <1>1, PastPending DEF QInv, RInv
<1>4. CASE KindOf(c) = "post-cancel" /\ Mode[o] = "paper"
  <2>1. status[o] \in TerminalStatus
    BY <1>1, <1>4 DEF QInv, CancelsTakenUp, Done
  <2>2. status'[o] \in TerminalStatus
    BY <1>1, <2>1, PastPending DEF QInv, RInv
  <2> QED BY <1>4, <2>2 DEF Done, TerminalStatus
<1>5. CASE ~(KindOf(c) = "post-cancel" /\ Mode[o] = "paper")
  BY <1>2, <1>3, <1>5 DEF Done, CommandKind
<1> QED BY <1>4, <1>5

(* A paper order with the reconcile of its cancel queued stays where its    *)
(* cancel has taken it.                                                     *)
LEMMA CancelsStayTakenUp ==
  ASSUME QInv, Next
  PROVE  CancelsTakenUp'
<1> USE DEF QInv, RInv, IInv, orderVars, queueVars, passVars, venueVars
<1> SUFFICES ASSUME NEW o \in Orders, Mode[o] = "paper",
                    cstatus'[<<o, "post-cancel">>] # NoCommand
             PROVE  status'[o] \in TerminalStatus \cup {"cancel_requested"}
  BY DEF CancelsTakenUp
<1> DEFINE sub == <<o, "post-cancel">>
<1>0. sub \in Commands /\ OrderOf(sub) = o
  BY DEF Commands, CommandKind, OrderOf
<1>1. ASSUME cstatus[sub] # NoCommand
      PROVE  status'[o] \in TerminalStatus \cup {"cancel_requested"}
  <2>1. status[o] \in TerminalStatus \cup {"cancel_requested"} /\ status[o] # NoOrder
    BY <1>0, <1>1 DEF CancelsTakenUp, WritesFromFreshState, CommandsHaveOrders
  <2>2. CASE status[o] \in TerminalStatus
    BY <2>1, <2>2, PastPending
  <2>3. CASE status[o] = "cancel_requested"
    BY <2>3, CancelStep DEF TerminalStatus
  <2> QED BY <2>1, <2>2, <2>3
<1>2. ASSUME NEW w \in Workers, ApplyCancel(w)
      PROVE  status'[o] \in TerminalStatus \cup {"cancel_requested"}
  <2> DEFINE p == OrderOf(cur[w])
  <2>1. p \in Orders /\ status[p] # NoOrder
    BY <1>2, InHand DEF ApplyCancel, Busy, WritesFromFreshState, CommandsHaveOrders
  <2>2. CASE p = o
    BY <1>2, <2>1, <2>2
    DEF ApplyCancel, SetStatus, TypeOK, Legal, LegalMoves, OrderStatus, TerminalStatus
  <2>3. CASE p # o
    <3>1. cstatus'[sub] = cstatus[sub]
      BY <1>2, <1>0, <2>3 DEF ApplyCancel, Enqueue, TypeOK
    <3> QED BY <3>1, <1>1
  <2> QED BY <2>2, <2>3
<1>3. ASSUME NEW d \in Commands, KindOf(d) # "post-cancel", Enqueue(d)
      PROVE  status'[o] \in TerminalStatus \cup {"cancel_requested"}
  <2>1. sub # d /\ cstatus \in [Commands -> CommandStatus \cup {NoCommand}]
    BY <1>3 DEF TypeOK, KindOf
  <2>2. cstatus'[sub] = cstatus[sub]
    BY <1>0, <1>3, <2>1 DEF Enqueue
  <2> QED BY <1>1, <2>2
<1>4. ASSUME NEW p \in Orders, PlaceOrder(p) \/ RequestCancel(p)
      PROVE  status'[o] \in TerminalStatus \cup {"cancel_requested"}
  BY <1>3, <1>4 DEF PlaceOrder, RequestCancel, Commands, CommandKind, KindOf
<1>5. ASSUME NEW w \in Workers, ApplySubmit(w)
      PROVE  status'[o] \in TerminalStatus \cup {"cancel_requested"}
  <2>1. OrderOf(cur[w]) \in Orders
    BY <1>5, InHand DEF ApplySubmit, Busy
  <2> QED BY <1>3, <1>5, <2>1 DEF ApplySubmit, Commands, CommandKind, KindOf
<1>6. ASSUME NEW w \in Workers, Claim(w)
      PROVE  status'[o] \in TerminalStatus \cup {"cancel_requested"}
  BY <1>0, <1>1, <1>6 DEF Claim, Claimable, NoCommand
<1>7. ASSUME NEW w \in Workers, NEW st \in CommandStatus, Busy(w), Mark(w, st)
      PROVE  status'[o] \in TerminalStatus \cup {"cancel_requested"}
  <2>1. cur[w] \in Commands /\ cstatus[cur[w]] # NoCommand
    BY <1>7 DEF WritesFromFreshState, CommandsHaveOrders
  <2>2. cstatus[sub] # NoCommand
    BY <1>0, <1>7, <2>1 DEF Mark, TypeOK
  <2> QED BY <1>1, <2>2
<1>8. ASSUME UNCHANGED cstatus
      PROVE  status'[o] \in TerminalStatus \cup {"cancel_requested"}
  BY <1>1, <1>8
<1>9. ASSUME NEW w \in Workers, WorkerStep(w)
      PROVE  status'[o] \in TerminalStatus \cup {"cancel_requested"}
  BY <1>2, <1>5, <1>6, <1>7, <1>8, <1>9
  DEF WorkerStep, NoAdapter, Hydrate, CallSubmitOrCancel, PersistCommit,
      CallPaperReconcile, CallLiveReconcile, PersistOpen, MarkDelivered,
      Requeue, MarkReconciliationRequired, MarkPermanentlyRejected,
      RecordParked, RecordRejected, CommandStatus, Busy
<1>10. ASSUME NEW w \in Workers, WorkerFault(w)
       PROVE  status'[o] \in TerminalStatus \cup {"cancel_requested"}
  BY <1>8, <1>10
  DEF WorkerFault, HydrateFails, TransactionFails, EventWriteFails, MarkFails,
      RecordFails, Crash
<1> QED
  BY <1>4, <1>8, <1>9, <1>10 DEF Next, VenueMoves, Poll, vars, LeaseExpires

(* A pass reaches the mark of a delivered command only with its effect      *)
(* committed.                                                               *)
LEMMA DeliverDone ==
  ASSUME QInv, "event" \notin FaultKinds, Next,
         NEW x \in Workers, pc'[x] = "deliver"
  PROVE  Done(cur[x])' /\ cur'[x] = cur[x]
<1> USE DEF QInv, RInv, IInv, orderVars, queueVars, passVars, venueVars
<1>t. pc \in [Workers -> Location] /\ status \in [Orders -> OrderStatus \cup {NoOrder}]
      /\ cstatus \in [Commands -> CommandStatus \cup {NoCommand}]
  BY DEF TypeOK
<1> DEFINE o == OrderOf(cur[x])
<1>b. Busy(x) => /\ cur[x] \in Commands /\ cstatus[cur[x]] # NoCommand
                 /\ o \in Orders /\ status[o] # NoOrder
                 /\ cur[x] = <<o, KindOf(cur[x])>>
  BY InHand DEF WritesFromFreshState, CommandsHaveOrders, OrderOf, KindOf, Commands
<1>1. ASSUME UNCHANGED <<pc[x], cur[x]>> PROVE Done(cur[x])' /\ cur'[x] = cur[x]
  <2>1. Busy(x) /\ Done(cur[x])
    BY <1>1 DEF Busy
  <2>2. Done(cur[x])'
    <3> DEFINE c == cur[x]
    <3>1. c \in Commands /\ cstatus[c] # NoCommand /\ Done(c) /\ cur'[x] = c
      BY <2>1, <1>b, <1>1
    <3> HIDE DEF c
    <3>2. c \in Commands => (cstatus[c] # NoCommand /\ Done(c) =>
            LET p == OrderOf(c) IN
            /\ KindOf(c) = "submit" =>
                 status'[p] # "pending" /\ cstatus'[<<p, "initial">>] # NoCommand
            /\ KindOf(c) = "cancel" =>
                 status'[p] # "pending" /\ cstatus'[<<p, "post-cancel">>] # NoCommand
            /\ KindOf(c) = "post-cancel" /\ Mode[p] = "paper" =>
                 status'[p] # "cancel_requested")
      BY DoneStays DEF Done
    <3> QED BY <3>1, <3>2 DEF Done
  <2> QED BY <1>1, <2>2
<1>2. ASSUME ApplySubmit(x) PROVE Done(cur[x])' /\ cur'[x] = cur[x]
  <2>1. Busy(x) /\ cur' = cur /\ KindOf(cur[x]) = "submit"
    BY <1>2 DEF ApplySubmit, Busy
  <2>2. status'[o] # "pending"
    BY <1>2, <2>1, <1>b, <1>t DEF ApplySubmit, SetStatus, Legal, LegalMoves
  <2>3. <<o, "initial">> \in Commands
    BY <2>1, <1>b DEF Commands, CommandKind
  <2>4. cstatus'[<<o, "initial">>] # NoCommand
    BY <1>2, <2>3, <1>t DEF ApplySubmit, Enqueue, NoCommand
  <2> QED BY <2>1, <2>2, <2>4 DEF Done
<1>3. ASSUME ApplyCancel(x) PROVE Done(cur[x])' /\ cur'[x] = cur[x]
  <2>1. Busy(x) /\ cur' = cur /\ KindOf(cur[x]) = "cancel"
    BY <1>3 DEF ApplyCancel, Busy
  <2>2. status'[o] # "pending"
    BY <1>3, <2>1, <1>b, <1>t DEF ApplyCancel, SetStatus, Legal, LegalMoves
  <2>3. <<o, "post-cancel">> \in Commands
    BY <2>1, <1>b DEF Commands, CommandKind
  <2>4. cstatus'[<<o, "post-cancel">>] # NoCommand
    BY <1>3, <2>3, <1>t DEF ApplyCancel, Enqueue, NoCommand
  <2> QED BY <2>1, <2>2, <2>4 DEF Done
<1>4. ASSUME PersistCommit(x) PROVE Done(cur[x])' /\ cur'[x] = cur[x]
  <2>1. Busy(x) /\ cur' = cur /\ pc[x] = "write" /\ IsReconcile(cur[x])
    BY <1>4 DEF PersistCommit, Busy, WritesFromFreshState, CommandsHaveOrders
  <2>2. ASSUME KindOf(cur[x]) = "post-cancel", Mode[o] = "paper"
        PROVE  status'[o] # "cancel_requested"
    <3>1. status[o] \in TerminalStatus \cup {"cancel_requested"}
      BY <2>1, <2>2, <1>b DEF CancelsTakenUp
    <3>2. CASE status[o] \in TerminalStatus
      BY <3>2, <2>1, <1>b, PastPending DEF TerminalStatus
    <3>3. CASE status[o] = "cancel_requested"
      <4>1. result[x] = Result("cancelled", 0)
        BY <2>1, <2>2, <3>3
        DEF WritesFromFreshState, OrderLockHeld, ResultsFit, Unchanged, Fits
      <4>2. result[x].status = "cancelled" /\ result[x].status # NoStatus
        BY <4>1 DEF Result, NoStatus
      <4>3. ~(Goto(x, "requeue") /\ UNCHANGED faults) /\ ~Goto(x, "park")
            /\ ~Goto(x, "requeue")
        BY <1>t DEF Goto, Location
      <4>4. SetStatus(o, "cancelled", {EventFor("cancelled")})
        BY <1>4, <4>2, <4>3 DEF PersistCommit
      <4> QED BY <4>4, <2>1, <1>b, <1>t DEF SetStatus
    <3> QED BY <3>1, <3>2, <3>3
  <2>3. KindOf(cur[x]) \notin {"submit", "cancel"}
    BY <2>1 DEF IsReconcile
  <2> QED BY <2>1, <2>2, <2>3 DEF Done
<1>5. ASSUME WorkerStep(x) \/ WorkerFault(x) PROVE Done(cur[x])' /\ cur'[x] = cur[x]
  <2>1. ~EventWriteFails(x)
    BY DEF EventWriteFails, Fault
  <2>2. ApplySubmit(x) \/ ApplyCancel(x) \/ PersistCommit(x)
    BY <1>5, <2>1, <1>t
    DEF WorkerStep, WorkerFault, Claim, NoAdapter, Hydrate, HydrateFails,
        CallSubmitOrCancel, CallPaperReconcile, CallLiveReconcile, PersistOpen,
        TransactionFails, MarkDelivered, Requeue,
        MarkReconciliationRequired, MarkPermanentlyRejected, MarkFails,
        RecordParked, RecordRejected, RecordFails, Crash, Goto, Proceed
  <2> QED BY <2>2, <1>2, <1>3, <1>4
<1>6. ASSUME NEW w \in Workers, WorkerStep(w) \/ WorkerFault(w)
      PROVE  Done(cur[x])' /\ cur'[x] = cur[x]
  BY <1>1, <1>5, <1>6, OtherPasses
<1> QED
  BY <1>1, <1>6
  DEF Next, PlaceOrder, RequestCancel, VenueMoves, Poll, vars, LeaseExpires

(* Only a pass that has come to the mark makes a command delivered.         *)
LEMMA DeliveredBy ==
  ASSUME IInv, Next, NEW c \in Commands, cstatus'[c] = "delivered"
  PROVE  cstatus[c] = "delivered" \/ \E w \in Workers : pc[w] = "deliver" /\ cur[w] = c
<1> USE DEF IInv, orderVars, queueVars, passVars, venueVars
<1> DEFINE Goal == cstatus[c] = "delivered"
                   \/ \E w \in Workers : pc[w] = "deliver" /\ cur[w] = c
<1>1. ASSUME NEW d, Enqueue(d) PROVE Goal
  BY <1>1 DEF Enqueue, TypeOK
<1>2. ASSUME NEW w \in Workers, Claim(w) PROVE Goal
  BY <1>2 DEF Claim
<1>3. ASSUME NEW w \in Workers, NEW st \in CommandStatus \ {"delivered"}, Mark(w, st)
      PROVE  Goal
  BY <1>3 DEF Mark, TypeOK
<1>4. ASSUME NEW w \in Workers, MarkDelivered(w) PROVE Goal
  BY <1>4 DEF MarkDelivered, Mark, TypeOK
<1>5. ASSUME UNCHANGED cstatus PROVE Goal
  BY <1>5
<1> HIDE DEF Goal
<1>6. ASSUME NEW w \in Workers, WorkerStep(w) PROVE Goal
  BY <1>1, <1>2, <1>3, <1>4, <1>5, <1>6
  DEF WorkerStep, NoAdapter, Hydrate, CallSubmitOrCancel, ApplySubmit,
      ApplyCancel, PersistCommit, RecordRejected,
      CallPaperReconcile, CallLiveReconcile, PersistOpen,
      Requeue, MarkReconciliationRequired, MarkPermanentlyRejected,
      RecordParked, CommandStatus
<1>7. ASSUME NEW w \in Workers, WorkerFault(w) PROVE Goal
  BY <1>5, <1>7
  DEF WorkerFault, HydrateFails, TransactionFails, EventWriteFails, MarkFails,
      RecordFails, Crash
<1>8. Goal
  BY <1>1, <1>5, <1>6, <1>7
  DEF Next, PlaceOrder, RequestCancel, VenueMoves, Poll, vars, LeaseExpires
<1> QED BY <1>8 DEF Goal

(* If no audit insert fails unnoticed, a delivered command has had its      *)
(* effect: nothing dispatch or persist_reconcile_result report as done is   *)
(* rolled back, and every follow-up is queued (outbox_worker.rs).           *)
THEOREM DeliveredIsDone ==
  ASSUME "event" \notin FaultKinds
  PROVE  Spec => []DeliveredMeansDone
<1>1. Init => QInv
  <2>1. Init => RInv
    BY InitIInv DEF RInv, Init, ReconcilesAreLate
  <2>2. Init => CancelsTakenUp
    BY DEF Init, CancelsTakenUp, Commands, CommandKind
  <2>3. Init => \A c \in Commands : cstatus[c] # "delivered"
    BY DEF Init, NoCommand
  <2>4. Init => \A w \in Workers : pc[w] # "deliver"
    BY DEF Init
  <2> QED BY <2>1, <2>2, <2>3, <2>4 DEF QInv
<1>2. QInv /\ [Next]_vars => QInv'
  <2> SUFFICES ASSUME QInv, [Next]_vars PROVE QInv'
    OBVIOUS
  <2>1. RInv'
    BY RInvStep DEF QInv
  <2>2. CASE UNCHANGED vars
    BY <2>1, <2>2
    DEF QInv, CancelsTakenUp, Done, vars, orderVars, queueVars, passVars,
        venueVars
  <2>3. CASE Next
    <3>1. CancelsTakenUp'
      BY <2>3, CancelsStayTakenUp
    <3>2. \A w \in Workers : pc'[w] = "deliver" => Done(cur[w])'
      BY <2>3, DeliverDone
    <3>3. ASSUME NEW c \in Commands, cstatus'[c] = "delivered" PROVE Done(c)'
      <4>1. IInv
        BY DEF QInv, RInv
      <4>2. Done(c) /\ cstatus[c] # NoCommand
        <5>1. CASE cstatus[c] = "delivered"
          BY <5>1 DEF QInv, NoCommand
        <5>2. CASE \E w \in Workers : pc[w] = "deliver" /\ cur[w] = c
          BY <5>2, <4>1 DEF QInv, IInv, WritesFromFreshState, CommandsHaveOrders, Busy
        <5> QED BY <5>1, <5>2, <4>1, <3>3, <2>3, DeliveredBy
      <4> QED BY <4>2, <2>3, DoneStays
    <3> QED BY <2>1, <3>1, <3>2, <3>3 DEF QInv
  <2> QED BY <2>2, <2>3
<1>3. QInv => DeliveredMeansDone
  BY DoneSuffices
<1> QED BY <1>1, <1>2, <1>3, PTL DEF Spec

---------------------------------------------------------------------------
(* No escalation by replay *)

PaperOnly ==
  /\ \A o \in Orders : Mode[o] = "paper"
  /\ "paper" \in AdapterModes
  /\ "lock" \notin FaultKinds

(* A pass never has its command to park: it hydrated the fills as they are  *)
(* or were, a reconcile is hydrated only once its order is past pending,    *)
(* and from there every answer of the paper adapter is a legal move.        *)
PassClean(w) ==
  LET o  == OrderOf(cur[w])
      sn == snap[w]
  IN
  /\ pc[w] # "park"
  /\ pc[w] \in {"call", "apply", "write"} =>
       /\ sn.filled <= fillQty[o]
       /\ sn.filled = fillQty[o] => ~Duplicate(o, sn)
       /\ IsReconcile(cur[w]) => sn.status \notin {"pending", NoOrder}
  /\ pc[w] \in {"apply", "write"} /\ IsReconcile(cur[w]) =>
       (result[w].status # NoStatus => Legal(sn.status, result[w].status))

EInv ==
  /\ RInv
  /\ \A w \in Workers : PassClean(w)
  /\ NoSpuriousEscalation

(* The fills of an order only grow, and in number only when in quantity.    *)
LEMMA FillsGrow ==
  ASSUME IInv, Next
  PROVE  \A o \in Orders :
           \/ fillQty'[o] = fillQty[o] /\ nfills'[o] = nfills[o]
           \/ fillQty'[o] > fillQty[o]
<1> SUFFICES ASSUME NEW o \in Orders
             PROVE  \/ fillQty'[o] = fillQty[o] /\ nfills'[o] = nfills[o]
                    \/ fillQty'[o] > fillQty[o]
  OBVIOUS
<1>1. CASE UNCHANGED <<filled, nfills, fillQty>>
  BY <1>1
<1>2. ASSUME NEW w \in Workers, PersistCommit(w),
             ~UNCHANGED <<status, filled, nfills, fillQty>>
      PROVE  \/ fillQty'[o] = fillQty[o] /\ nfills'[o] = nfills[o]
             \/ fillQty'[o] > fillQty[o]
  <2> DEFINE p == OrderOf(cur[w])
             q == result[w].quantity
  <2>1. /\ p \in Orders /\ q \in Nat
        /\ fillQty' = [fillQty EXCEPT ![p] = fillQty[p] + q]
        /\ q = 0 => nfills' = nfills
        /\ \A x \in Orders \ {p} : nfills'[x] = nfills[x]
    BY <1>2, CommitEffect
  <2>2. fillQty \in [Orders -> Nat]
    BY DEF IInv, TypeOK
  <2> HIDE DEF p, q
  <2>3. CASE o # p
    BY <2>1, <2>2, <2>3
  <2>4. CASE o = p /\ q = 0
    BY <2>1, <2>2, <2>4
  <2>5. CASE o = p /\ q > 0
    BY <2>1, <2>2, <2>5
  <2> QED BY <2>1, <2>3, <2>4, <2>5
<1> QED BY <1>1, <1>2, OnlyCommitsFill

(* The paper adapter's answers are legal moves from the hydrated status.    *)
LEMMA PaperAnswersLegal ==
  ASSUME NEW sn \in Snapshot, sn.status \notin {"pending", NoOrder},
         NEW o \in Orders, NEW touched \in BOOLEAN,
         PaperReconcile(sn, Quantity[o], touched).status # NoStatus
  PROVE  Legal(sn.status, PaperReconcile(sn, Quantity[o], touched).status)
<1>1. sn.status \in OrderStatus \ {"pending"}
  BY DEF Snapshot
<1>2. sn.status \in {"submitted", "partially_filled", "cancel_requested"} \cup TerminalStatus
  BY <1>1 DEF OrderStatus, TerminalStatus
<1>3. CASE sn.status = "cancel_requested"
  BY <1>3 DEF PaperReconcile, Result, Legal, LegalMoves
<1>4. CASE sn.status \in TerminalStatus
  BY <1>4 DEF PaperReconcile, NoChange, Result, TerminalStatus
<1>5. CASE sn.status \in {"submitted", "partially_filled"}
  <2>1. PaperReconcile(sn, Quantity[o], touched).status \in {"filled", "partially_filled"}
    BY <1>5 DEF PaperReconcile, NoChange, Result, TerminalStatus
  <2> QED BY <1>5, <2>1 DEF Legal, LegalMoves
<1> QED BY <1>2, <1>3, <1>4, <1>5

(* A pass that acts stays clean.                                            *)
LEMMA ActingPassClean ==
  ASSUME PaperOnly, EInv, Next, NEW w \in Workers, WorkerStep(w) \/ WorkerFault(w)
  PROVE  PassClean(w)'
<1> USE DEF EInv, RInv, IInv, orderVars, queueVars, passVars, venueVars
<1>t. pc \in [Workers -> Location] /\ cur \in [Workers -> Commands \cup {NoCur}]
      /\ todo \in [Workers -> SUBSET Commands]
      /\ snap \in [Workers -> Snapshot] /\ result \in [Workers -> ReconcileResult]
  BY DEF TypeOK
<1>a. PassClean(w)
  OBVIOUS
<1>0. pc'[w] \notin {"call", "apply", "write", "park"} => PassClean(w)'
  BY DEF PassClean
<1>1. ASSUME NEW c \in Commands, Hydrate(w, c) PROVE PassClean(w)'
  <2> DEFINE o == OrderOf(c)
  <2>1. o \in Orders
    BY DEF OrderOf, Commands
  <2>2. /\ pc'[w] = "call" /\ cur'[w] = c /\ c \in todo[w]
        /\ snap'[w] = [status |-> status[o], nfills |-> nfills[o], filled |-> fillQty[o]]
        /\ fillQty' = fillQty /\ nfills' = nfills
    BY <1>1, <1>t DEF Hydrate, Take, Goto
  <2>3. cstatus[c] # NoCommand /\ status[o] # NoOrder
    BY <2>2 DEF WritesFromFreshState, CommandsHaveOrders
  <2>4. IsReconcile(c) => status[o] # "pending"
    BY <2>3 DEF ReconcilesAreLate
  <2>5. fillQty[o] \in Nat /\ nfills[o] \in Nat
    BY <2>1 DEF TypeOK
  <2> HIDE DEF o
  <2> QED BY <2>2, <2>3, <2>4, <2>5 DEF PassClean, Duplicate, o
<1>2. ASSUME CallSubmitOrCancel(w) PROVE PassClean(w)'
  BY <1>2, <1>a, <1>t DEF CallSubmitOrCancel, PassClean, Goto, Duplicate
<1>3. ASSUME CallPaperReconcile(w) PROVE PassClean(w)'
  <2> DEFINE o == OrderOf(cur[w])
  <2>1. o \in Orders
    BY <1>3, InHand DEF CallPaperReconcile, Busy
  <2>2. PICK touched \in BOOLEAN :
          result' = [result EXCEPT ![w] = PaperReconcile(snap[w], Quantity[o], touched)]
    BY <1>3 DEF CallPaperReconcile
  <2>3. snap[w] \in Snapshot /\ snap[w].status \notin {"pending", NoOrder}
    BY <1>3, <1>a, <1>t DEF CallPaperReconcile, PassClean
  <2>4. result'[w].status # NoStatus => Legal(snap[w].status, result'[w].status)
    BY <2>1, <2>2, <2>3, <1>t, PaperAnswersLegal
  <2>5. pc'[w] = "apply" /\ pc[w] = "call" /\ UNCHANGED <<cur, snap, fillQty, nfills>>
    BY <1>3, <1>t DEF CallPaperReconcile, Goto
  <2> QED BY <2>3, <2>4, <2>5, <1>a DEF PassClean, Duplicate
<1>4. ASSUME CallLiveReconcile(w) PROVE PassClean(w)'
  <2>1. OrderOf(cur[w]) \in Orders
    BY <1>4, InHand DEF CallLiveReconcile, Busy
  <2> QED BY <1>4, <2>1 DEF CallLiveReconcile, PaperOnly
<1>5. ASSUME PersistOpen(w) PROVE PassClean(w)'
  <2> DEFINE o == OrderOf(cur[w])
  <2>1. o \in Orders /\ pc[w] = "apply" /\ IsReconcile(cur[w])
    BY <1>5, InHand DEF PersistOpen, Busy
  <2>2. Unchanged(o, snap[w]) => ~Duplicate(o, snap[w])
    BY <2>1, <1>a DEF Unchanged, FillsCountedOnce, PassClean
  <2>3. pc'[w] \in {"requeue", "write"} /\ UNCHANGED <<cur, snap, result, fillQty, nfills>>
    BY <1>5, <2>2, <1>t DEF PersistOpen, Goto
  <2> QED BY <2>1, <2>3, <1>a, <1>0 DEF PassClean, Duplicate
<1>6. ASSUME PersistCommit(w) PROVE PassClean(w)'
  <2>1. pc[w] = "write" /\ IsReconcile(cur[w]) /\ Unchanged(OrderOf(cur[w]), snap[w])
    BY <1>6 DEF PersistCommit, WritesFromFreshState, CommandsHaveOrders, OrderLockHeld
  <2>2. ~MoveIllegal(w)
    BY <2>1, <1>a DEF MoveIllegal, PassClean, Unchanged
  <2>3. pc'[w] \in {"requeue", "deliver"}
    BY <1>6, <2>2, <1>t DEF PersistCommit, Committed, Goto
  <2> QED BY <2>3, <1>0
<1>7. ASSUME NEW c \in Commands, NoAdapter(w, c) \/ HydrateFails(w, c) PROVE PassClean(w)'
  <2>1. Mode[OrderOf(c)] \in AdapterModes
    BY DEF PaperOnly, OrderOf, Commands
  <2>2. pc'[w] = "requeue"
    BY <1>7, <2>1, <1>t DEF NoAdapter, HydrateFails, Fault, Goto, PaperOnly
  <2> QED BY <2>2, <1>0
<1>8. ASSUME \/ Claim(w) \/ ApplySubmit(w) \/ ApplyCancel(w)
             \/ MarkDelivered(w) \/ Requeue(w) \/ MarkReconciliationRequired(w)
             \/ MarkPermanentlyRejected(w) \/ RecordParked(w) \/ RecordRejected(w)
             \/ TransactionFails(w) \/ EventWriteFails(w) \/ MarkFails(w)
             \/ RecordFails(w) \/ Crash(w)
      PROVE  PassClean(w)'
  BY <1>8, <1>0, <1>t
  DEF Claim, ApplySubmit, ApplyCancel, Committed, MarkDelivered, Requeue,
      MarkReconciliationRequired, MarkPermanentlyRejected, RecordParked,
      RecordRejected, TransactionFails, EventWriteFails, MarkFails, RecordFails,
      Crash, Goto, Proceed
<1> QED
  BY <1>1, <1>2, <1>3, <1>4, <1>5, <1>6, <1>7, <1>8 DEF WorkerStep, WorkerFault

(* So does every other: the fills it hydrated can only have fallen behind.  *)
LEMMA PassesStayClean ==
  ASSUME PaperOnly, EInv, Next, NEW x \in Workers
  PROVE  PassClean(x)'
<1> USE DEF EInv, RInv
<1>1. ASSUME UNCHANGED <<pc[x], cur[x], snap[x], result[x]>> PROVE PassClean(x)'
  <2>1. CASE pc[x] \in {"call", "apply", "write"}
    <3> DEFINE o == OrderOf(cur[x])
    <3>1. o \in Orders
      BY <2>1, InHand DEF Busy
    <3>2. snap[x].filled \in Nat /\ fillQty[o] \in Nat /\ fillQty'[o] \in Nat
      BY <3>1, IInvStep DEF IInv, TypeOK, Snapshot
    <3>3. (fillQty'[o] = fillQty[o] /\ nfills'[o] = nfills[o]) \/ fillQty'[o] > fillQty[o]
      BY <3>1, FillsGrow
    <3>4. snap[x].filled <= fillQty[o] /\ (snap[x].filled = fillQty[o] => ~Duplicate(o, snap[x]))
      BY <2>1 DEF PassClean
    <3> HIDE DEF o
    <3>5. snap[x].filled <= fillQty'[o]
      BY <3>2, <3>3, <3>4
    <3>6. snap[x].filled = fillQty'[o] => ~(snap[x].nfills < nfills'[o])
      BY <3>2, <3>3, <3>4 DEF Duplicate
    <3> USE DEF o
    <3>7. UNCHANGED <<cur[x], snap[x], pc[x], result[x]>> /\ PassClean(x)
      BY <1>1
    <3> QED BY <3>5, <3>6, <3>7 DEF PassClean, Duplicate
  <2>2. CASE pc[x] \notin {"call", "apply", "write"}
    BY <1>1, <2>2 DEF PassClean
  <2> QED BY <2>1, <2>2
<1>2. ASSUME NEW w \in Workers, WorkerStep(w) \/ WorkerFault(w) PROVE PassClean(x)'
  BY <1>1, <1>2, OtherPasses, ActingPassClean
<1> QED
  BY <1>1, <1>2
  DEF Next, PlaceOrder, RequestCancel, VenueMoves, Poll, vars, passVars,
      venueVars, LeaseExpires

(* Only a pass that has come to park a command sets it aside.               *)
LEMMA SetAsideBy ==
  ASSUME EInv, Next
  PROVE  NoSpuriousEscalation'
<1> USE DEF EInv, RInv, IInv, orderVars, queueVars, passVars, venueVars
<1> SUFFICES ASSUME NEW c \in Commands PROVE cstatus'[c] # "reconciliation_required"
  BY DEF NoSpuriousEscalation
<1> DEFINE Goal == cstatus'[c] # "reconciliation_required"
<1>0. cstatus[c] # "reconciliation_required"
  BY DEF NoSpuriousEscalation
<1>1. ASSUME NEW d, Enqueue(d) PROVE Goal
  BY <1>0, <1>1 DEF Enqueue, TypeOK
<1>2. ASSUME NEW w \in Workers, Claim(w) PROVE Goal
  BY <1>0, <1>2 DEF Claim
<1>3. ASSUME NEW w \in Workers, NEW st \in CommandStatus \ {"reconciliation_required"},
             Mark(w, st)
      PROVE  Goal
  BY <1>0, <1>3 DEF Mark, TypeOK
<1>4. ASSUME NEW w \in Workers, MarkReconciliationRequired(w) PROVE Goal
  BY <1>4 DEF MarkReconciliationRequired, PassClean
<1>5. ASSUME UNCHANGED cstatus PROVE Goal
  BY <1>0, <1>5
<1> HIDE DEF Goal
<1>6. ASSUME NEW w \in Workers, WorkerStep(w) PROVE Goal
  BY <1>1, <1>2, <1>3, <1>4, <1>5, <1>6
  DEF WorkerStep, NoAdapter, Hydrate, CallSubmitOrCancel, ApplySubmit,
      ApplyCancel, PersistCommit, RecordRejected,
      CallPaperReconcile, CallLiveReconcile, PersistOpen, MarkDelivered,
      Requeue, MarkPermanentlyRejected, RecordParked, CommandStatus
<1>7. ASSUME NEW w \in Workers, WorkerFault(w) PROVE Goal
  BY <1>5, <1>7
  DEF WorkerFault, HydrateFails, TransactionFails, EventWriteFails, MarkFails,
      RecordFails, Crash
<1>8. Goal
  BY <1>1, <1>5, <1>6, <1>7
  DEF Next, PlaceOrder, RequestCancel, VenueMoves, Poll, vars, LeaseExpires
<1> QED BY <1>8 DEF Goal

(* With paper orders, their adapter and no failing order lock, no command   *)
(* is ever set aside for review, however often passes replay it: the        *)
(* duplicate trade ids and illegal moves persist_reconcile_result escalates *)
(* do not come from replays.                                                *)
THEOREM ReplaysDoNotEscalate ==
  ASSUME PaperOnly
  PROVE  Spec => []NoSpuriousEscalation
<1>1. Init => EInv
  <2>1. Init => RInv
    BY InitIInv DEF RInv, Init, ReconcilesAreLate
  <2>2. Init => NoSpuriousEscalation
    BY DEF Init, NoSpuriousEscalation, NoCommand
  <2>3. Init => \A w \in Workers : PassClean(w)
    BY DEF Init, PassClean
  <2> QED BY <2>1, <2>2, <2>3 DEF EInv
<1>2. EInv /\ [Next]_vars => EInv'
  <2> SUFFICES ASSUME EInv, [Next]_vars PROVE EInv'
    OBVIOUS
  <2>1. RInv'
    BY RInvStep DEF EInv
  <2>2. CASE UNCHANGED vars
    BY <2>1, <2>2
    DEF EInv, NoSpuriousEscalation, PassClean, Duplicate, vars, orderVars, queueVars,
        passVars, venueVars
  <2>3. CASE Next
    BY <2>1, <2>3, PassesStayClean, SetAsideBy DEF EInv
  <2> QED BY <2>2, <2>3
<1>3. EInv => NoSpuriousEscalation
  BY DEF EInv
<1> QED BY <1>1, <1>2, <1>3, PTL DEF Spec

---------------------------------------------------------------------------
(* Positions *)

(* The orders of one symbol never have their fills written by two passes at *)
(* once: there is one pass, or a symbol has one order, or two on paper,     *)
(* which fill whole.                                                        *)
FillsDoNotMeet ==
  \/ \A w, x \in Workers : w = x
  \/ /\ \A o, p \in Orders : Symbol[o] = Symbol[p] => o = p \/ Mode[o] = "paper"
     /\ \A o, p, q \in Orders :
          Symbol[o] = Symbol[p] /\ Symbol[o] = Symbol[q] => o = p \/ o = q \/ p = q

(* A paper order fills at once and whole.                                   *)
PaperFillsWhole ==
  /\ \A o \in Orders : Mode[o] = "paper" /\ fillQty[o] > 0 => status[o] = "filled"
  /\ \A w \in Workers :
       /\ pc[w] \in {"apply", "write"} /\ IsReconcile(cur[w])
       /\ Mode[OrderOf(cur[w])] = "paper" /\ result[w].quantity > 0
       => result[w].status = "filled"

(* What a pass about to write a fill has read is still there, or it read no *)
(* row, and then its INSERT fails on a row that has appeared.               *)
PositionsRead ==
  \A w \in Workers :
    pc[w] = "write" /\ result[w].quantity > 0
      => posRead[w] \in {0, pos[Symbol[OrderOf(cur[w])]]}

PInv ==
  /\ IInv
  /\ PaperFillsWhole
  /\ PositionsRead
  /\ PositionMatchesFills

(* Positions move with the fills of one commit, and with nothing else.      *)
LEMMA OnlyCommitsMovePositions ==
  ASSUME IInv, Next
  PROVE  \/ UNCHANGED <<fillQty, pos>>
         \/ \E w \in Workers :
              LET o == OrderOf(cur[w])
                  q == result[w].quantity
              IN  /\ pc[w] = "write" /\ pc'[w] # "write" /\ o \in Orders
                  /\ q \in Nat \ {0} /\ ~WriteFails(w)
                  /\ WorkerStep(w)
                  /\ fillQty' = [fillQty EXCEPT ![o] = fillQty[o] + q]
                  /\ pos' = [pos EXCEPT ![Symbol[o]] = posRead[w] + Signed(o, q)]
<1> USE DEF orderVars, queueVars, passVars, venueVars
<1>1. ASSUME NEW w \in Workers, PersistCommit(w)
      PROVE  \/ UNCHANGED <<fillQty, pos>>
             \/ LET o == OrderOf(cur[w])
                    q == result[w].quantity
                IN  /\ pc[w] = "write" /\ pc'[w] # "write" /\ o \in Orders
                    /\ q \in Nat \ {0} /\ ~WriteFails(w)
                    /\ fillQty' = [fillQty EXCEPT ![o] = fillQty[o] + q]
                    /\ pos' = [pos EXCEPT ![Symbol[o]] = posRead[w] + Signed(o, q)]
  <2>1. pc[w] = "write" /\ OrderOf(cur[w]) \in Orders /\ result[w].quantity \in Nat
    BY <1>1, InHand DEF PersistCommit, Busy, IInv, TypeOK, ReconcileResult
  <2>2. pc'[w] # "write"
    BY <1>1 DEF PersistCommit, Committed, Goto, IInv, TypeOK
  <2> QED BY <1>1, <2>1, <2>2 DEF PersistCommit, PositionAfter
<1>2. ASSUME NEW w \in Workers, WorkerStep(w), ~PersistCommit(w)
      PROVE  UNCHANGED <<fillQty, pos>>
  BY <1>2
  DEF WorkerStep, Claim, NoAdapter, Hydrate, CallSubmitOrCancel, ApplySubmit,
      ApplyCancel, CallPaperReconcile, CallLiveReconcile, PersistOpen,
      MarkDelivered, Requeue, MarkReconciliationRequired,
      MarkPermanentlyRejected, RecordParked, RecordRejected
<1>3. ASSUME NEW w \in Workers, WorkerFault(w)
      PROVE  UNCHANGED <<fillQty, pos>>
  BY <1>3
  DEF WorkerFault, HydrateFails, TransactionFails, EventWriteFails, MarkFails,
      RecordFails, Crash
<1>4. (\E w \in Workers : PersistCommit(w)) \/ UNCHANGED <<fillQty, pos>>
  BY <1>2, <1>3
  DEF Next, PlaceOrder, RequestCancel, VenueMoves, Poll, vars, LeaseExpires
<1> QED BY <1>1, <1>4 DEF WorkerStep

(* A pass with a fill to write has an order whose fills leave room for it,  *)
(* and which is not over.                                                   *)
LEMMA FillInHand ==
  ASSUME IInv, NEW w \in Workers, pc[w] = "write", result[w].quantity > 0
  PROVE  LET o == OrderOf(cur[w])
         IN  /\ o \in Orders /\ IsReconcile(cur[w])
             /\ Fits(o, snap[w], result[w]) /\ Unchanged(o, snap[w])
             /\ status[o] \notin TerminalStatus
<1> DEFINE o == OrderOf(cur[w])
<1>1. o \in Orders /\ IsReconcile(cur[w])
  BY InHand DEF Busy, IInv, WritesFromFreshState, CommandsHaveOrders
<1>2. Fits(o, snap[w], result[w]) /\ Unchanged(o, snap[w])
  BY <1>1 DEF IInv, WritesFromFreshState, OrderLockHeld, ResultsFit
<1>3. status[o] \notin TerminalStatus
  BY <1>2 DEF Fits, Unchanged, NoChange, Result
<1> QED BY <1>1, <1>2, <1>3

(* What a paper adapter fills, it fills whole.                              *)
LEMMA PaperFillsWholeStep ==
  ASSUME IInv, PaperFillsWhole, Next
  PROVE  PaperFillsWhole'
<1> USE DEF orderVars, queueVars, passVars, venueVars
<1>t. pc \in [Workers -> Location] /\ cur \in [Workers -> Commands \cup {NoCur}]
      /\ result \in [Workers -> ReconcileResult]
  BY DEF IInv, TypeOK
<1> DEFINE Whole(x) ==
      /\ pc[x] \in {"apply", "write"} /\ IsReconcile(cur[x])
      /\ Mode[OrderOf(cur[x])] = "paper" /\ result[x].quantity > 0
      => result[x].status = "filled"
<1>1. ASSUME NEW o \in Orders, Mode[o] = "paper", fillQty'[o] > 0
      PROVE  status'[o] = "filled"
  <2>1. CASE fillQty'[o] = fillQty[o]
    <3>1. status[o] = "filled"
      BY <1>1, <2>1 DEF PaperFillsWhole
    <3> QED BY <3>1, TerminalStep DEF TerminalStatus
  <2>2. CASE fillQty'[o] # fillQty[o]
    <3>1. PICK w \in Workers :
            PersistCommit(w) /\ ~UNCHANGED <<status, filled, nfills, fillQty>>
      BY <2>2, OnlyCommitsFill
    <3> DEFINE p == OrderOf(cur[w])
               r == result[w]
    <3>2. /\ p \in Orders /\ r.quantity \in Nat
          /\ status' = [status EXCEPT ![p] = r.status]
          /\ fillQty' = [fillQty EXCEPT ![p] = fillQty[p] + r.quantity]
      BY <3>1, CommitEffect
    <3>3. p = o /\ r.quantity > 0
      BY <2>2, <3>2 DEF IInv, TypeOK
    <3>4. pc[w] = "write" /\ IsReconcile(cur[w])
      BY <3>1 DEF PersistCommit, IInv, WritesFromFreshState, CommandsHaveOrders
    <3>5. r.status = "filled"
      BY <1>1, <3>3, <3>4 DEF PaperFillsWhole
    <3> QED BY <3>2, <3>3, <3>5 DEF IInv, TypeOK
  <2> QED BY <2>1, <2>2
<1>2. ASSUME NEW x \in Workers PROVE Whole(x)'
  <2>0. Whole(x)
    BY DEF PaperFillsWhole
  <2>1. UNCHANGED <<pc[x], cur[x], result[x]>> => Whole(x)'
    BY <2>0
  <2>2. pc'[x] \notin {"apply", "write"} => Whole(x)'
    OBVIOUS
  <2>3. ASSUME CallSubmitOrCancel(x) PROVE Whole(x)'
    BY <2>3 DEF CallSubmitOrCancel
  <2>4. ASSUME CallPaperReconcile(x) PROVE Whole(x)'
    <3>1. /\ OrderOf(cur[x]) \in Orders
          /\ snap[x].filled \in Nat /\ Quantity[OrderOf(cur[x])] \in Nat
      BY <2>4, InHand, OutboxAssumption
      DEF CallPaperReconcile, Busy, IInv, TypeOK, Snapshot
    <3>2. PICK touched \in BOOLEAN :
            result'[x] = PaperReconcile(snap[x], Quantity[OrderOf(cur[x])], touched)
      BY <2>4, <1>t DEF CallPaperReconcile
    <3>3. result'[x].quantity > 0 => result'[x].status = "filled"
      BY <3>1, <3>2 DEF PaperReconcile, TryFill, NoChange, Result
    <3> QED BY <3>3
  <2>5. ASSUME CallLiveReconcile(x) PROVE Whole(x)'
    BY <2>5, <1>t DEF CallLiveReconcile
  <2>6. ASSUME PersistOpen(x) PROVE Whole(x)'
    BY <2>0, <2>6, <1>t DEF PersistOpen
  <2>7. ASSUME WorkerStep(x) \/ WorkerFault(x) PROVE Whole(x)'
    <3>1. CASE \/ CallSubmitOrCancel(x) \/ CallPaperReconcile(x)
               \/ CallLiveReconcile(x) \/ PersistOpen(x)
      BY <3>1, <2>3, <2>4, <2>5, <2>6
    <3>2. CASE ~(\/ CallSubmitOrCancel(x) \/ CallPaperReconcile(x)
                 \/ CallLiveReconcile(x) \/ PersistOpen(x))
      <4>1. pc'[x] \notin {"apply", "write"}
        BY <2>7, <3>2, <1>t
        DEF WorkerStep, WorkerFault, Claim, NoAdapter, Hydrate, HydrateFails,
            ApplySubmit, ApplyCancel, Committed, PersistCommit,
            TransactionFails, EventWriteFails, MarkDelivered, Requeue,
            MarkReconciliationRequired, MarkPermanentlyRejected, MarkFails,
            RecordParked, RecordRejected, RecordFails, Crash, Goto, Proceed
      <4> QED BY <4>1, <2>2
    <3> QED BY <3>1, <3>2
  <2>8. ASSUME NEW w \in Workers, WorkerStep(w) \/ WorkerFault(w) PROVE Whole(x)'
    BY <2>1, <2>7, <2>8, OtherPasses
  <2> HIDE DEF Whole
  <2> QED
    BY <2>1, <2>8
    DEF Next, PlaceOrder, RequestCancel, VenueMoves, Poll, vars, LeaseExpires
<1> QED BY <1>1, <1>2 DEF PaperFillsWhole

(* A pass that stands at its write has just read the position, or stood     *)
(* there before with all it holds.                                          *)
LEMMA AtTheWrite ==
  ASSUME IInv, Next, NEW x \in Workers, pc'[x] = "write"
  PROVE  /\ UNCHANGED <<cur[x], result[x]>>
         /\ \/ pc[x] = "write" /\ UNCHANGED posRead[x]
            \/ /\ posRead'[x] = pos[Symbol[OrderOf(cur[x])]]
               /\ UNCHANGED pos
<1> USE DEF orderVars, queueVars, passVars, venueVars
<1>t. pc \in [Workers -> Location] /\ posRead \in [Workers -> Int]
  BY DEF IInv, TypeOK
<1>1. ASSUME PersistOpen(x) PROVE posRead'[x] = pos[Symbol[OrderOf(cur[x])]]
  BY <1>1, <1>t DEF PersistOpen, Goto
<1>2. ASSUME WorkerStep(x) \/ WorkerFault(x), ~PersistOpen(x) PROVE FALSE
  BY <1>2, <1>t
  DEF WorkerStep, WorkerFault, Claim, NoAdapter, Hydrate, HydrateFails,
      CallSubmitOrCancel, CallPaperReconcile, CallLiveReconcile,
      ApplySubmit, ApplyCancel, Committed, PersistCommit,
      TransactionFails, EventWriteFails, MarkDelivered, Requeue,
      MarkReconciliationRequired, MarkPermanentlyRejected, MarkFails,
      RecordParked, RecordRejected, RecordFails, Crash, Goto, Proceed
<1>3. ASSUME NEW w \in Workers, WorkerStep(w) \/ WorkerFault(w), w # x
      PROVE  UNCHANGED <<pc[x], cur[x], result[x], posRead[x]>>
  <2>1. UNCHANGED <<pc[x], cur[x], result[x]>>
    BY <1>3, OtherPasses
  <2>2. UNCHANGED posRead[x]
    BY <1>3, <1>t
    DEF WorkerStep, WorkerFault, Claim, NoAdapter, Hydrate, HydrateFails,
        CallSubmitOrCancel, CallPaperReconcile, CallLiveReconcile,
        ApplySubmit, ApplyCancel, PersistOpen, PersistCommit,
        TransactionFails, EventWriteFails, MarkDelivered, Requeue,
        MarkReconciliationRequired, MarkPermanentlyRejected, MarkFails,
        RecordParked, RecordRejected, RecordFails, Crash, Proceed
  <2> QED BY <2>1, <2>2
<1>4. ASSUME PersistOpen(x) PROVE UNCHANGED <<cur, result, pos>>
  BY <1>4 DEF PersistOpen
<1>5. CASE \E w \in Workers : WorkerStep(w) \/ WorkerFault(w)
  BY <1>1, <1>2, <1>3, <1>4, <1>5
<1>6. CASE ~\E w \in Workers : WorkerStep(w) \/ WorkerFault(w)
  BY <1>6 DEF Next, PlaceOrder, RequestCancel, VenueMoves, Poll, vars, LeaseExpires
<1> QED BY <1>5, <1>6

(* An order whose fill a pass has in hand, on paper, has none yet.          *)
LEMMA NoneYet ==
  ASSUME IInv, PaperFillsWhole, NEW w \in Workers,
         pc[w] = "write", result[w].quantity > 0, Mode[OrderOf(cur[w])] = "paper"
  PROVE  fillQty[OrderOf(cur[w])] = 0
<1>1. OrderOf(cur[w]) \in Orders /\ status[OrderOf(cur[w])] \notin TerminalStatus
  BY FillInHand
<1>2. fillQty[OrderOf(cur[w])] \in Nat
  BY <1>1 DEF IInv, TypeOK
<1> QED BY <1>1, <1>2 DEF PaperFillsWhole, TerminalStatus

(* What has been read for a fill is still there when it is written.         *)
LEMMA PositionsReadStep ==
  ASSUME PInv, Next, FillsDoNotMeet, IsFiniteSet(Orders)
  PROVE  PositionsRead'
<1> USE DEF PInv
<1> SUFFICES ASSUME NEW x \in Workers, pc'[x] = "write", result'[x].quantity > 0
             PROVE  posRead'[x] \in {0, pos'[Symbol[OrderOf(cur'[x])]]}
  BY DEF PositionsRead
<1> DEFINE o == OrderOf(cur[x])
           s == Symbol[o]
<1>1. UNCHANGED <<cur[x], result[x]>>
  BY AtTheWrite
<1>2. CASE UNCHANGED pos
  BY <1>1, <1>2, AtTheWrite DEF PositionsRead
<1>3. CASE ~UNCHANGED pos
  <2>1. pc[x] = "write" /\ posRead'[x] = posRead[x]
    BY <1>3, AtTheWrite
  <2>2. posRead[x] \in {0, pos[s]}
    BY <1>1, <2>1 DEF PositionsRead
  <2>3. PICK w \in Workers :
          /\ pc[w] = "write" /\ pc'[w] # "write" /\ OrderOf(cur[w]) \in Orders
          /\ result[w].quantity \in Nat \ {0}
          /\ pos' = [pos EXCEPT ![Symbol[OrderOf(cur[w])]] =
                       posRead[w] + Signed(OrderOf(cur[w]), result[w].quantity)]
    BY <1>3, OnlyCommitsMovePositions
  <2> DEFINE p == OrderOf(cur[w])
  <2>4. o \in Orders /\ result[x].quantity > 0
    BY <1>1, <2>1, FillInHand
  <2>5. o # p
    BY <2>1, <2>3 DEF IInv, WritesFromFreshState, OrderLockHeld
  <2>6. CASE Symbol[p] # s
    <3>1. pos'[s] = pos[s]
      BY <2>3, <2>4, <2>6, OutboxAssumption DEF IInv, TypeOK
    <3> QED BY <1>1, <2>1, <2>2, <3>1
  <2>7. CASE Symbol[p] = s
    <3>1. /\ Mode[o] = "paper" /\ Mode[p] = "paper"
          /\ \A q \in Orders : Symbol[q] = s => q = o \/ q = p
      BY <2>1, <2>3, <2>4, <2>5, <2>7 DEF FillsDoNotMeet
    <3>2. fillQty[o] = 0 /\ fillQty[p] = 0
      BY <2>1, <2>3, <2>4, <3>1, NoneYet
    <3> DEFINE S == {q \in Orders : Symbol[q] = s}
               f == [q \in Orders |-> Signed(q, fillQty[q])]
    <3>3. \A q \in S : f[q] = 0
      BY <3>1, <3>2 DEF Signed
    <3>4. IsFiniteSet(S) /\ {} \in SUBSET S /\ IsFiniteSet({})
      BY FS_Subset, FS_EmptySet, S \in SUBSET Orders
    <3>5. SumFunctionOnSet(f, S) = 0
      <4> HIDE DEF f, S
      <4>1. SumFunctionOnSet(f, {}) = SumFunctionOnSet(f, S)
        BY <3>3, <3>4, SumOfRest
      <4> QED BY <3>4, <4>1, SumPicks
    <3>6. pos[s] = SumFunctionOnSet(f, S)
      BY <2>4, OutboxAssumption DEF PositionMatchesFills
    <3> QED BY <1>1, <2>1, <2>2, <3>5, <3>6
  <2> QED BY <2>6, <2>7
<1> QED BY <1>2, <1>3

(* A fill moves its position by its signed quantity.                        *)
LEMMA PositionsStep ==
  ASSUME PInv, Next, IsFiniteSet(Orders)
  PROVE  PositionMatchesFills'
<1> USE DEF PInv
<1>1. CASE UNCHANGED <<fillQty, pos>>
  BY <1>1 DEF PositionMatchesFills, Signed
<1>2. CASE ~UNCHANGED <<fillQty, pos>>
  <2>1. PICK w \in Workers :
          LET o == OrderOf(cur[w])
              q == result[w].quantity
          IN  /\ pc[w] = "write" /\ o \in Orders
              /\ q \in Nat \ {0} /\ ~WriteFails(w)
              /\ fillQty' = [fillQty EXCEPT ![o] = fillQty[o] + q]
              /\ pos' = [pos EXCEPT ![Symbol[o]] = posRead[w] + Signed(o, q)]
    BY <1>2, OnlyCommitsMovePositions
  <2> DEFINE o == OrderOf(cur[w])
             q == result[w].quantity
  <2>2. posRead[w] = pos[Symbol[o]]
    BY <2>1 DEF PositionsRead, WriteFails, PositionWriteFails
  <2>3. ASSUME NEW s \in Symbols
        PROVE  pos'[s] = SumFunctionOnSet([p \in Orders |-> Signed(p, fillQty'[p])],
                                          {p \in Orders : Symbol[p] = s})
    <3> DEFINE S == {p \in Orders : Symbol[p] = s}
               f == [p \in Orders |-> Signed(p, fillQty[p])]
               g == [p \in Orders |-> Signed(p, fillQty'[p])]
    <3>1. IsFiniteSet(S)
      BY FS_Subset, S \in SUBSET Orders
    <3>2. \A p \in S : p \in Orders /\ f[p] \in Int /\ g[p] \in Int /\ (p # o => g[p] = f[p])
      BY <2>1 DEF IInv, TypeOK, Signed
    <3>3. pos[s] = SumFunctionOnSet(f, S)
      BY DEF PositionMatchesFills
    <3>4. CASE Symbol[o] = s
      <4>1. o \in S /\ g[o] = f[o] + Signed(o, q) /\ Signed(o, q) \in Int
        BY <2>1, <3>4 DEF IInv, TypeOK, Signed
      <4>2. pos'[s] = pos[s] + Signed(o, q) /\ pos[s] \in Int /\ f[o] \in Int
        BY <2>1, <2>2, <3>2, <3>4, <4>1 DEF IInv, TypeOK
      <4> HIDE DEF f, g, S, o, q
      <4>3. /\ \A p \in S : f[p] \in Int
            /\ \A p \in S : g[p] \in Int
            /\ \A p \in S : p # o => f[p] = g[p]
        BY <3>2
      <4>4. SumFunctionOnSet(g, S) = SumFunctionOnSet(f, S) + g[o] - f[o]
        BY <3>1, <4>1, <4>3, SumChange
      <4>5. /\ SumFunctionOnSet(f, S) = pos[s]
            /\ g[o] - f[o] = Signed(o, q)
        BY <3>3, <4>1, <4>2
      <4>6. pos'[s] = SumFunctionOnSet(g, S)
        BY <4>1, <4>2, <4>4, <4>5
      <4> QED BY <4>6 DEF g, S
    <3>5. CASE Symbol[o] # s
      <4>1. o \notin S /\ pos'[s] = pos[s]
        BY <2>1, <3>5, OutboxAssumption DEF IInv, TypeOK
      <4> HIDE DEF f, g, S, o
      <4>2. SumFunctionOnSet(g, S) = SumFunctionOnSet(f, S)
        BY <3>1, <3>2, <4>1, SumSame
      <4>3. pos'[s] = SumFunctionOnSet(g, S)
        BY <3>3, <4>1, <4>2
      <4> QED BY <4>3 DEF g, S
    <3> QED BY <3>4, <3>5
  <2> QED BY <2>3 DEF PositionMatchesFills, Signed
<1> QED BY <1>1, <1>2

(* The open position of a symbol is the signed total of its fills, as long  *)
(* as no two passes write fills of one symbol at once: apply_position_delta *)
(* writes what it read without a lock, and is saved by the unique index on  *)
(* open positions only from a row that appears meanwhile.                   *)
THEOREM PositionsMatch ==
  ASSUME FillsDoNotMeet, IsFiniteSet(Orders)
  PROVE  Spec => []PositionMatchesFills
<1>1. Init => PInv
  <2> SUFFICES ASSUME Init PROVE PInv
    OBVIOUS
  <2>1. PaperFillsWhole /\ PositionsRead
    BY DEF Init, PaperFillsWhole, PositionsRead
  <2>2. ASSUME NEW s \in Symbols
        PROVE  pos[s] = SumFunctionOnSet([p \in Orders |-> Signed(p, fillQty[p])],
                                         {p \in Orders : Symbol[p] = s})
    <3> DEFINE S == {p \in Orders : Symbol[p] = s}
               f == [p \in Orders |-> Signed(p, fillQty[p])]
    <3>1. IsFiniteSet(S) /\ {} \in SUBSET S /\ IsFiniteSet({})
      BY FS_Subset, FS_EmptySet, S \in SUBSET Orders
    <3>2. \A p \in S : f[p] = 0
      <4>1. \A p \in Orders : fillQty[p] = 0
        BY DEF Init
      <4>2. \A p \in Orders : Signed(p, fillQty[p]) = 0
        BY <4>1 DEF Signed
      <4> QED BY <4>2
    <3>3. pos[s] = 0
      BY DEF Init
    <3> HIDE DEF f, S
    <3>4. SumFunctionOnSet(f, {}) = SumFunctionOnSet(f, S)
      BY <3>1, <3>2, SumOfRest
    <3>5. pos[s] = SumFunctionOnSet(f, S)
      BY <3>1, <3>3, <3>4, SumPicks
    <3> QED BY <3>5 DEF f, S
  <2> QED BY <2>1, <2>2, InitIInv DEF PInv, PositionMatchesFills
<1>2. PInv /\ [Next]_vars => PInv'
  <2> SUFFICES ASSUME PInv, [Next]_vars PROVE PInv'
    OBVIOUS
  <2>1. IInv'
    BY IInvStep DEF PInv
  <2>2. CASE UNCHANGED vars
    BY <2>1, <2>2
    DEF PInv, PaperFillsWhole, PositionsRead, PositionMatchesFills, Signed, vars,
        orderVars, queueVars, passVars, venueVars
  <2>3. CASE Next
    BY <2>1, <2>3, PaperFillsWholeStep, PositionsReadStep, PositionsStep DEF PInv
  <2> QED BY <2>2, <2>3
<1>3. PInv => PositionMatchesFills
  BY DEF PInv
<1> QED BY <1>1, <1>2, <1>3, PTL DEF Spec

---------------------------------------------------------------------------
(* The ends of live orders *)

(* A venue is done with an order.                                           *)
VenueOver(v) == v.status \in {"FILLED", "CANCELED", "REJECTED"}

(* An answer of the venue accounts for no more than it has executed, and an *)
(* end it reports for all of that, if its executedQty could be read.        *)
AnswerAccounts(o, sn, r) ==
  r.status # NoStatus =>
    /\ sn.filled + r.quantity <= venue[o].executed
    /\ r.status \in TerminalStatus =>
         /\ VenueOver(venue[o])
         /\ sn.filled + r.quantity = venue[o].executed \/ o \in unread

(* What a pass holds of a live order is behind the venue.                   *)
PassAccounts(w) ==
  LET o == OrderOf(cur[w]) IN
  /\ pc[w] \notin {"reject", "reject_event"}
  /\ pc[w] \in {"call", "apply", "write"} /\ Mode[o] = "live" =>
       snap[w].filled <= venue[o].executed
  /\ pc[w] \in {"apply", "write"} /\ Mode[o] = "live" /\ IsReconcile(cur[w]) =>
       AnswerAccounts(o, snap[w], result[w])

(* So is the order itself, until both are at the same end.                  *)
OrderAccounts(o) ==
  Mode[o] = "live" =>
    /\ filled[o] <= venue[o].executed
    /\ status[o] \in TerminalStatus =>
         /\ VenueOver(venue[o])
         /\ filled[o] = venue[o].executed \/ o \in unread

(* A venue that has not begun with an order has executed nothing of it.     *)
VenueBegins ==
  \A o \in Orders : venue[o].status \in {"UNKNOWN", "NEW"} => venue[o].executed = 0

LInv ==
  /\ IInv
  /\ VenueBegins
  /\ \A w \in Workers : PassAccounts(w)
  /\ \A o \in Orders : OrderAccounts(o)

(* The venue never takes an execution back, and is over when it is over.    *)
LEMMA VenueGoesOn ==
  ASSUME IInv, VenueBegins, Next
  PROVE  /\ VenueBegins'
         /\ \A o \in Orders :
              /\ venue[o].executed \in Nat /\ venue'[o].executed \in Nat
              /\ venue[o].executed <= venue'[o].executed
              /\ VenueOver(venue[o]) => venue'[o] = venue[o]
<1> USE DEF orderVars, queueVars, passVars, venueVars
<1> SUFFICES ASSUME NEW o \in Orders
             PROVE  /\ venue'[o].status \in {"UNKNOWN", "NEW"} => venue'[o].executed = 0
                    /\ venue[o].executed \in Nat /\ venue'[o].executed \in Nat
                    /\ venue[o].executed <= venue'[o].executed
                    /\ VenueOver(venue[o]) => venue'[o] = venue[o]
  BY DEF VenueBegins
<1>1. /\ venue \in [Orders -> [status : VenueStatus, executed : Nat]]
      /\ venue[o] \in [status : VenueStatus, executed : Nat] /\ Quantity[o] \in Nat
      /\ venue[o].status \in {"UNKNOWN", "NEW"} => venue[o].executed = 0
  BY OutboxAssumption DEF IInv, TypeOK, VenueBegins
<1>2. CASE venue'[o] = venue[o]
  BY <1>1, <1>2
<1>3. ASSUME NEW p \in Orders, VenueMoves(p), venue'[o] # venue[o]
      PROVE  /\ ~VenueOver(venue[o])
             /\ venue'[o].executed \in Nat /\ venue[o].executed <= venue'[o].executed
             /\ venue'[o].status \in {"UNKNOWN", "NEW"} => venue'[o].executed = 0
  <2>1. p = o
    BY <1>1, <1>3 DEF VenueMoves
  <2>2. \/ venue[o].status = "UNKNOWN" /\ venue'[o] = [status |-> "NEW", executed |-> 0]
        \/ venue[o].status = "NEW" /\ venue'[o] = [status |-> "REJECTED", executed |-> 0]
        \/ /\ venue[o].status \in {"NEW", "PARTIALLY_FILLED", "PENDING_CANCEL"}
           /\ venue'[o].executed = venue[o].executed
           /\ venue'[o].status \in {"PENDING_CANCEL", "CANCELED"}
        \/ /\ venue[o].status \in {"NEW", "PARTIALLY_FILLED", "PENDING_CANCEL"}
           /\ \E exec \in (venue[o].executed + 1) .. Quantity[o] :
                /\ venue'[o].executed = exec
                /\ venue'[o].status \in {"FILLED", "PARTIALLY_FILLED"}
    BY <1>1, <1>3, <2>1 DEF VenueMoves
  <2> QED BY <1>1, <2>2 DEF VenueOver
<1>4. venue' = venue \/ \E p \in Orders : VenueMoves(p)
  <2>1. ASSUME NEW w \in Workers, WorkerStep(w) \/ WorkerFault(w) PROVE venue' = venue
    BY <2>1
    DEF WorkerStep, WorkerFault, Claim, NoAdapter, Hydrate, HydrateFails,
        CallSubmitOrCancel, CallPaperReconcile, CallLiveReconcile, ApplySubmit,
        ApplyCancel, PersistOpen, PersistCommit, TransactionFails,
        EventWriteFails, MarkDelivered, Requeue, MarkReconciliationRequired,
        MarkPermanentlyRejected, MarkFails, RecordParked, RecordRejected,
        RecordFails, Crash
  <2> QED BY <2>1 DEF Next, PlaceOrder, RequestCancel, Poll, vars, LeaseExpires
<1> QED BY <1>1, <1>2, <1>3, <1>4

(* A pass goes on from what it held, or has just asked.                     *)
LEMMA PassesAccountStep ==
  ASSUME LInv, ~Rejecting, Next, NEW x \in Workers
  PROVE  PassAccounts(x)'
<1> USE DEF LInv, orderVars, queueVars, passVars, venueVars
<1>t. /\ pc \in [Workers -> Location]
      /\ cur \in [Workers -> Commands \cup {NoCur}]
      /\ snap \in [Workers -> Snapshot]
      /\ result \in [Workers -> ReconcileResult]
      /\ filled \in [Orders -> Nat]
  BY DEF IInv, TypeOK
<1>0. PassAccounts(x)
  OBVIOUS
<1>v. \A o \in Orders : /\ venue[o].executed \in Nat /\ venue'[o].executed \in Nat
                        /\ venue[o].executed <= venue'[o].executed
                        /\ VenueOver(venue[o]) => venue'[o] = venue[o]
  BY VenueGoesOn
<1>u. unread \subseteq unread'
  BY UnreadGrows
<1>1. ASSUME UNCHANGED <<cur[x], snap[x], result[x]>>,
             \/ pc'[x] = pc[x]
             \/ pc[x] = "apply" /\ pc'[x] = "write"
      PROVE  PassAccounts(x)'
  <2> DEFINE o == OrderOf(cur[x])
  <2>1. CASE pc[x] \in {"call", "apply", "write"}
    <3>1. o \in Orders /\ snap[x].filled \in Nat /\ result[x].quantity \in Nat
      BY <2>1, <1>t, InHand DEF Busy, Snapshot, ReconcileResult
    <3>2. Mode[o] = "live" => snap[x].filled <= venue'[o].executed
      BY <2>1, <3>1, <1>0, <1>v DEF PassAccounts
    <3>3. pc[x] \in {"apply", "write"} /\ Mode[o] = "live" /\ IsReconcile(cur[x])
            => AnswerAccounts(o, snap[x], result[x])'
      BY <1>1, <2>1, <3>1, <1>0, <1>v, <1>u DEF PassAccounts, AnswerAccounts
    <3>4. pc'[x] \notin {"reject", "reject_event"}
      BY <1>1, <2>1
    <3> QED BY <1>1, <3>2, <3>3, <3>4 DEF PassAccounts
  <2>2. CASE pc[x] \notin {"call", "apply", "write"}
    BY <1>0, <1>1, <2>2 DEF PassAccounts
  <2> QED BY <2>1, <2>2
<1>2. ASSUME pc'[x] \notin {"call", "apply", "write", "reject", "reject_event"}
      PROVE  PassAccounts(x)'
  BY <1>2 DEF PassAccounts
<1>3. ASSUME CallSubmitOrCancel(x) PROVE PassAccounts(x)'
  <2>1. pc[x] = "call" /\ pc'[x] = "apply" /\ ~IsReconcile(cur[x]) /\ UNCHANGED <<cur, snap>>
    BY <1>3, <1>t DEF CallSubmitOrCancel, Goto
  <2>2. OrderOf(cur[x]) \in Orders /\ snap[x].filled \in Nat
    BY <2>1, <1>t, InHand DEF Busy, Snapshot
  <2> QED BY <2>1, <2>2, <1>0, <1>v DEF PassAccounts
<1>4. ASSUME CallPaperReconcile(x) PROVE PassAccounts(x)'
  <2>1. pc'[x] = "apply" /\ UNCHANGED cur /\ Mode[OrderOf(cur[x])] = "paper"
    BY <1>4, <1>t DEF CallPaperReconcile, Goto
  <2> QED BY <2>1 DEF PassAccounts
<1>5. ASSUME CallLiveReconcile(x) PROVE PassAccounts(x)'
  <2> DEFINE o == OrderOf(cur[x])
  <2>1. pc[x] = "call" /\ UNCHANGED <<cur, snap, venue>> /\ Mode[o] = "live"
    BY <1>5 DEF CallLiveReconcile
  <2>2. /\ o \in Orders /\ snap[x] \in Snapshot
        /\ venue[o] \in [status : VenueStatus, executed : Nat]
    BY <2>1, <1>t, InHand DEF Busy, IInv, TypeOK
  <2>3. snap[x].filled <= venue[o].executed
    BY <2>1, <1>0 DEF PassAccounts
  <2>4. CASE pc'[x] = "requeue"
    BY <2>4, <1>2
  <2>5. CASE pc'[x] # "requeue"
    <3>1. PICK readable \in BOOLEAN :
            /\ result'[x] = BinanceReconcile(snap[x], AnswerRead(venue[o], readable))
            /\ ~readable => unread' = unread \cup
                 {p \in {o} : OrderStatusOf(venue[o].status) \in TerminalStatus}
      BY <1>5, <2>5, <1>t DEF CallLiveReconcile, Goto
    <3>2. pc'[x] = "apply"
      BY <1>5, <2>5, <1>t DEF CallLiveReconcile, Goto
    <3> DEFINE v == venue[o]
               a == AnswerRead(v, readable)
               r == BinanceReconcile(snap[x], a)
    <3>3. a.status = v.status /\ a.executed = IF readable THEN v.executed ELSE 0
      BY <2>2 DEF AnswerRead
    <3>4. ASSUME r.status # NoStatus
          PROVE  /\ r.status = OrderStatusOf(v.status)
                 /\ snap[x].filled + r.quantity =
                      IF readable THEN v.executed ELSE snap[x].filled
      <4> HIDE DEF a
      <4>1. /\ r.status = OrderStatusOf(v.status)
            /\ r.quantity = IF a.executed - snap[x].filled > 0
                            THEN a.executed - snap[x].filled ELSE 0
        BY <3>3, <3>4 DEF BinanceReconcile, NoChange, Result
      <4>2. snap[x].filled \in Nat /\ v.executed \in Nat
        BY <2>2 DEF Snapshot
      <4> HIDE DEF r, v
      <4> QED BY <2>3, <3>3, <4>1, <4>2 DEF v
    <3>5. OrderStatusOf(v.status) \in TerminalStatus => VenueOver(v)
      BY <2>2 DEF OrderStatusOf, VenueStatus, TerminalStatus, VenueOver, NoStatus
    <3>6. ~readable /\ OrderStatusOf(v.status) \in TerminalStatus => o \in unread'
      BY <3>1
    <3>7. /\ cur'[x] = cur[x] /\ snap'[x] = snap[x] /\ venue' = venue
          /\ result'[x] = r
      BY <2>1, <3>1
    <3> HIDE DEF r, a
    <3>8. r.status # NoStatus =>
            /\ snap[x].filled + r.quantity <= v.executed
            /\ r.status \in TerminalStatus =>
                 /\ VenueOver(v)
                 /\ snap[x].filled + r.quantity = v.executed \/ o \in unread'
      <4>1. v.executed \in Nat
        BY <2>2
      <4> HIDE DEF v, o
      <4> QED BY <4>1, <2>3, <3>4, <3>5, <3>6 DEF v
    <3>9. AnswerAccounts(o, snap[x], result[x])'
      BY <3>7, <3>8 DEF AnswerAccounts, VenueOver
    <3> QED BY <2>1, <2>3, <3>2, <3>7, <3>9 DEF PassAccounts
  <2> QED BY <2>4, <2>5
<1>6. ASSUME NEW c \in Commands, Hydrate(x, c) PROVE PassAccounts(x)'
  <2> DEFINE o == OrderOf(c)
  <2>1. /\ pc'[x] = "call" /\ cur'[x] = c /\ UNCHANGED venue
        /\ snap'[x].filled = fillQty[o] /\ o \in Orders
    BY <1>6, <1>t DEF Hydrate, Take, Goto, OrderOf, Commands
  <2>2. Mode[o] = "live" => fillQty[o] <= venue[o].executed
    BY <2>1 DEF OrderAccounts, IInv, FillsCountedOnce
  <2> QED BY <2>1, <2>2 DEF PassAccounts
<1>7. ASSUME PersistOpen(x) PROVE PassAccounts(x)'
  <2>1. /\ pc[x] = "apply" /\ UNCHANGED <<cur, snap, result>>
        /\ pc'[x] \in {"requeue", "park", "write"}
    BY <1>7, <1>t DEF PersistOpen, Goto
  <2> QED BY <2>1, <1>1, <1>2
<1>8. ASSUME WorkerStep(x) \/ WorkerFault(x) PROVE PassAccounts(x)'
  <2>1. CASE \/ CallSubmitOrCancel(x) \/ CallPaperReconcile(x)
             \/ CallLiveReconcile(x) \/ PersistOpen(x)
             \/ \E c \in Commands : Hydrate(x, c)
    BY <2>1, <1>3, <1>4, <1>5, <1>6, <1>7
  <2>2. CASE ~(\/ CallSubmitOrCancel(x) \/ CallPaperReconcile(x)
               \/ CallLiveReconcile(x) \/ PersistOpen(x)
               \/ \E c \in Commands : Hydrate(x, c))
    <3>0. pc[x] \notin {"reject", "reject_event"}
      BY <1>0 DEF PassAccounts
    <3>1. pc'[x] \notin {"call", "apply", "write", "reject", "reject_event"}
      BY <1>8, <2>2, <3>0, <1>t
      DEF WorkerStep, WorkerFault, Claim, NoAdapter, HydrateFails,
          ApplySubmit, ApplyCancel, Committed, PersistCommit,
          TransactionFails, EventWriteFails, MarkDelivered, Requeue,
          MarkReconciliationRequired, MarkPermanentlyRejected, MarkFails,
          RecordParked, RecordRejected, RecordFails, Crash, Goto, Proceed
    <3> QED BY <3>1, <1>2
  <2> QED BY <2>1, <2>2
<1>9. UNCHANGED <<pc[x], cur[x], snap[x], result[x]>> => PassAccounts(x)'
  BY <1>1
<1>10. ASSUME NEW w \in Workers, WorkerStep(w) \/ WorkerFault(w) PROVE PassAccounts(x)'
  BY <1>8, <1>9, <1>10, OtherPasses
<1> QED
  BY <1>9, <1>10
  DEF Next, PlaceOrder, RequestCancel, VenueMoves, Poll, vars, LeaseExpires

(* Without rejections an order ends in the commit of a reconcile.           *)
LEMMA OnlyCommitsEnd ==
  ASSUME LInv, Next, NEW o \in Orders,
         status[o] \notin TerminalStatus, status'[o] \in TerminalStatus
  PROVE  \E w \in Workers :
           PersistCommit(w) /\ ~UNCHANGED <<status, filled, nfills, fillQty>>
<1> USE DEF LInv, orderVars, queueVars, passVars, venueVars
<1>t. status \in [Orders -> OrderStatus \cup {NoOrder}]
  BY DEF IInv, TypeOK
<1>1. ASSUME NEW p \in Orders, PlaceOrder(p) PROVE FALSE
  BY <1>1, <1>t DEF PlaceOrder, SetStatus, InitialStatus, TerminalStatus
<1>2. ASSUME NEW w \in Workers, ApplySubmit(w) \/ ApplyCancel(w) PROVE FALSE
  BY <1>2, <1>t DEF ApplySubmit, ApplyCancel, SetStatus, TerminalStatus
<1>3. ASSUME NEW w \in Workers, RecordRejected(w) PROVE FALSE
  BY <1>3 DEF RecordRejected, PassAccounts
<1>4. ASSUME NEW w \in Workers, WorkerStep(w) PROVE PersistCommit(w)
  BY <1>2, <1>3, <1>4
  DEF WorkerStep, Claim, NoAdapter, Hydrate, CallSubmitOrCancel,
      CallPaperReconcile, CallLiveReconcile, PersistOpen, MarkDelivered,
      Requeue, MarkReconciliationRequired, MarkPermanentlyRejected,
      RecordParked
<1>5. ASSUME NEW w \in Workers, WorkerFault(w) PROVE FALSE
  BY <1>5
  DEF WorkerFault, HydrateFails, TransactionFails, EventWriteFails, MarkFails,
      RecordFails, Crash
<1> QED
  BY <1>1, <1>4, <1>5
  DEF Next, RequestCancel, VenueMoves, Poll, vars, LeaseExpires

(* An order goes on with what its pass held, and ends with all of it.       *)
LEMMA OrdersAccountStep ==
  ASSUME LInv, Next, NEW o \in Orders
  PROVE  OrderAccounts(o)'
<1> USE DEF LInv
<1> SUFFICES ASSUME Mode[o] = "live"
             PROVE  /\ filled'[o] <= venue'[o].executed
                    /\ status'[o] \in TerminalStatus =>
                         /\ VenueOver(venue'[o])
                         /\ filled'[o] = venue'[o].executed \/ o \in unread'
  BY DEF OrderAccounts
<1>t. /\ filled \in [Orders -> Nat] /\ status \in [Orders -> OrderStatus \cup {NoOrder}]
  BY DEF IInv, TypeOK
<1>v. /\ venue[o].executed \in Nat /\ venue'[o].executed \in Nat
      /\ venue[o].executed <= venue'[o].executed
      /\ VenueOver(venue[o]) => venue'[o] = venue[o]
  BY VenueGoesOn
<1>u. unread \subseteq unread'
  BY UnreadGrows
<1>0. OrderAccounts(o)
  OBVIOUS
<1>1. CASE status[o] \in TerminalStatus
  BY <1>0, <1>1, <1>v, <1>u, TerminalStep DEF OrderAccounts
<1>2. ASSUME status[o] \notin TerminalStatus, NEW w \in Workers, PersistCommit(w),
             ~UNCHANGED <<status, filled, nfills, fillQty>>, OrderOf(cur[w]) = o
      PROVE  /\ filled'[o] <= venue'[o].executed
             /\ status'[o] \in TerminalStatus =>
                  /\ VenueOver(venue'[o])
                  /\ filled'[o] = venue'[o].executed \/ o \in unread'
  <2> DEFINE r == result[w]
  <2>1. /\ r.status # NoStatus /\ snap[w].filled = filled[o] /\ r.quantity \in Nat
        /\ status' = [status EXCEPT ![o] = r.status]
        /\ filled' = [filled EXCEPT ![o] = filled[o] + r.quantity]
    BY <1>2, CommitEffect
  <2>2. pc[w] = "write" /\ IsReconcile(cur[w]) /\ venue' = venue
    BY <1>2 DEF PersistCommit, venueVars, IInv, WritesFromFreshState, CommandsHaveOrders
  <2>3. AnswerAccounts(o, snap[w], r)
    BY <1>2, <2>2 DEF PassAccounts
  <2>4. status'[o] = r.status /\ filled'[o] = filled[o] + r.quantity
    BY <2>1, <1>t
  <2> HIDE DEF r
  <2>5. /\ filled'[o] <= venue[o].executed
        /\ status'[o] \in TerminalStatus =>
             VenueOver(venue[o]) /\ (filled'[o] = venue[o].executed \/ o \in unread)
    BY <2>1, <2>3, <2>4 DEF AnswerAccounts
  <2> QED BY <2>2, <2>5, <1>u
<1>3. ASSUME status[o] \notin TerminalStatus, NEW w \in Workers, PersistCommit(w),
             ~UNCHANGED <<status, filled, nfills, fillQty>>, OrderOf(cur[w]) # o
      PROVE  UNCHANGED <<status[o], filled[o]>>
  <2> DEFINE r == result[w]
             p == OrderOf(cur[w])
  <2>1. /\ p \in Orders
        /\ status' = [status EXCEPT ![p] = r.status]
        /\ filled' = [filled EXCEPT ![p] = filled[p] + r.quantity]
    BY <1>3, CommitEffect
  <2>2. p # o
    BY <1>3
  <2> HIDE DEF p, r
  <2> QED BY <2>1, <2>2, <1>t
<1>4. CASE \E w \in Workers :
             PersistCommit(w) /\ ~UNCHANGED <<status, filled, nfills, fillQty>>
  <2>1. ASSUME status[o] \notin TerminalStatus, UNCHANGED <<status[o], filled[o]>>
        PROVE  filled'[o] <= venue'[o].executed /\ status'[o] \notin TerminalStatus
    BY <2>1, <1>0, <1>t, <1>v DEF OrderAccounts
  <2> QED BY <1>1, <1>2, <1>3, <1>4, <2>1
<1>5. CASE ~\E w \in Workers :
             PersistCommit(w) /\ ~UNCHANGED <<status, filled, nfills, fillQty>>
  <2>1. filled' = filled
    BY <1>5, OnlyCommitsFill
  <2>2. CASE status[o] \notin TerminalStatus
    <3>1. status'[o] \notin TerminalStatus
      BY <1>5, <2>2, OnlyCommitsEnd
    <3>2. filled[o] <= venue'[o].executed
      BY <1>0, <1>t, <1>v DEF OrderAccounts
    <3> QED BY <2>1, <3>1, <3>2
  <2> QED BY <1>1, <2>2
<1> QED BY <1>4, <1>5

(* As long as no adapter rejects a submit - neither of the two does - the   *)
(* end of a live order accounts for everything the venue executed, whichever*)
(* of its partial fills the passes got to see, unless the answer with the   *)
(* end came without a readable executedQty (map_order_status_response).     *)
THEOREM LiveOrdersEndComplete ==
  ASSUME ~Rejecting
  PROVE  Spec => []LiveEndsComplete
<1>1. Init => LInv
  <2>1. Init => VenueBegins /\ \A w \in Workers : PassAccounts(w)
    BY DEF Init, VenueBegins, PassAccounts
  <2>2. Init => \A o \in Orders : OrderAccounts(o)
    BY DEF Init, OrderAccounts, NoOrder, TerminalStatus
  <2> QED BY <2>1, <2>2, InitIInv DEF LInv
<1>2. LInv /\ [Next]_vars => LInv'
  <2> SUFFICES ASSUME LInv, [Next]_vars PROVE LInv'
    OBVIOUS
  <2>1. IInv'
    BY IInvStep DEF LInv
  <2>2. CASE UNCHANGED vars
    BY <2>1, <2>2 DEF LInv, VenueBegins, PassAccounts, OrderAccounts, AnswerAccounts,
      VenueOver, vars, orderVars, passVars, venueVars
  <2>3. CASE Next
    BY <2>1, <2>3, VenueGoesOn, PassesAccountStep, OrdersAccountStep DEF LInv
  <2> QED BY <2>2, <2>3
<1>3. LInv => LiveEndsComplete
  BY DEF LInv, OrderAccounts, LiveEndsComplete
<1> QED BY <1>1, <1>2, <1>3, PTL DEF Spec
=============================================================================
