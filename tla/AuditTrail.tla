----------------------------- MODULE AuditTrail -----------------------------
(***************************************************************************)
(* The audit trail of an account and its listing: every handler writes its *)
(* risk_events rows in the transaction of the change (db.rs), and a client *)
(* walks down the rows page by page (routes.rs list_risk_events).  An id   *)
(* is drawn when the row is inserted; the row is seen when its transaction *)
(* commits, which may be after later ids have been.                        *)
(***************************************************************************)
EXTENDS Integers, FiniteSets

CONSTANTS
  Writers,   \* transactions in progress
  Rows,      \* the account, its limits, its orders: rows a writer locks (an
             \* event written under no lock has a row to itself)
  Limits,    \* page sizes a client may ask for
  MaxPage,   \* 500
  MaxEvents  \* bound on the ids drawn

ASSUME TrailAssumption ==
  /\ Limits \subseteq Int
  /\ MaxPage \in Nat \ {0}
  /\ MaxEvents \in Nat

VARIABLES
  issued,  \* the last id drawn
  trail,   \* committed events, each with the row its writer had locked
  writer,  \* transactions: the row they hold and the ids they inserted
  walk     \* a client's walk: what there was when it began, the cursor, what it saw

vars == <<issued, trail, writer, walk>>

Idle == [row |-> {}, ids |-> {}]

Ids(events) == {e.id : e \in events}
NoWalk == [at |-> "none", began |-> {}, before |-> {}, seen |-> {}]

Init ==
  /\ issued = 0
  /\ trail = {}
  /\ writer = [w \in Writers |-> Idle]
  /\ walk = NoWalk

---------------------------------------------------------------------------
(* Writers *)

(* Slip: the row is read without FOR UPDATE.                                *)
FreeAlways(row) == TRUE

Free(row) == \A w \in Writers : row \notin writer[w].row

(* A transaction takes its row FOR UPDATE, or by updating it, before it     *)
(* inserts its first event.                                                 *)
Lock(w, row) ==
  /\ writer[w] = Idle
  /\ Free(row)
  /\ writer' = [writer EXCEPT ![w].row = {row}]
  /\ UNCHANGED <<issued, trail, walk>>

(* Slip: an id may be of a moment to come.                                  *)
InsertRiskEventAhead(w) ==
  /\ writer[w].row # {}
  /\ issued < MaxEvents
  /\ issued' = issued + 1
  /\ \E id \in issued + 1 .. MaxEvents :
       writer' = [writer EXCEPT ![w].ids = @ \cup {id}]
  /\ UNCHANGED <<trail, walk>>

(* insert_risk_event: Uuid::now_v7 counts within one process.               *)
InsertRiskEvent(w) ==
  /\ writer[w].row # {}
  /\ issued < MaxEvents
  /\ issued' = issued + 1
  /\ writer' = [writer EXCEPT ![w].ids = @ \cup {issued + 1}]
  /\ UNCHANGED <<trail, walk>>

Commit(w) ==
  /\ writer[w].row # {}
  /\ trail' = trail \cup [id : writer[w].ids, row : writer[w].row]
  /\ writer' = [writer EXCEPT ![w] = Idle]
  /\ UNCHANGED <<issued, walk>>

(* The transaction is dropped, or the process dies.                         *)
RollBack(w) ==
  /\ writer[w].row # {}
  /\ writer' = [writer EXCEPT ![w] = Idle]
  /\ UNCHANGED <<issued, trail, walk>>

---------------------------------------------------------------------------
(* The listing *)

(* Slip: a client that asks for nothing gets nothing.                       *)
PageSizeCapped(limit) == IF limit > MaxPage THEN MaxPage ELSE limit

(* limit.clamp(1, 500)                                                      *)
PageSize(limit) ==
  IF limit < 1 THEN 1 ELSE IF limit > MaxPage THEN MaxPage ELSE limit

(* The newest rows, at most n of them.                                      *)
IsPage(page, rows, n) ==
  /\ page \subseteq rows
  /\ \A p \in page, r \in rows \ page : r < p
  /\ Cardinality(page) <= n
  /\ page # rows => Cardinality(page) = n

Older(before) == {id \in Ids(trail) : \A b \in before : id < b}

BeginWalk ==
  /\ walk.at # "walking"
  /\ walk' = [at |-> "walking", began |-> Ids(trail), before |-> {}, seen |-> {}]
  /\ UNCHANGED <<issued, trail, writer>>

(* One request: the last row of a page is the cursor of the next, and an    *)
(* empty page is the end.                                                   *)
ListRiskEvents(limit) ==
  /\ walk.at = "walking"
  /\ \E page \in SUBSET Older(walk.before) :
       /\ IsPage(page, Older(walk.before), PageSize(limit))
       /\ walk' = IF page = {} THEN [walk EXCEPT !.at = "done"]
                  ELSE [walk EXCEPT
                         !.before = {p \in page : \A q \in page : p <= q},
                         !.seen = @ \cup page]
  /\ UNCHANGED <<issued, trail, writer>>

Next ==
  \/ \E w \in Writers, row \in Rows : Lock(w, row)
  \/ \E w \in Writers : InsertRiskEvent(w) \/ Commit(w) \/ RollBack(w)
  \/ BeginWalk
  \/ \E limit \in Limits : ListRiskEvents(limit)

Spec == Init /\ [][Next]_vars

---------------------------------------------------------------------------
(* Types of the trail (0001_schema.sql risk_events: ids are a primary key)  *)
(* and of what is in progress.                                              *)
TypeOK ==
  /\ issued \in 0 .. MaxEvents
  /\ trail \subseteq [id : 1 .. issued, row : Rows]
  /\ writer \in [Writers -> [row : SUBSET Rows, ids : SUBSET (1 .. issued)]]
  /\ walk \in [at : {"none", "walking", "done"}, began : SUBSET (1 .. issued),
               before : SUBSET (1 .. issued), seen : SUBSET (1 .. issued)]

(* A client that walks down the trail while handlers commit has, at the     *)
(* end, seen every event that was committed when it began, whatever page    *)
(* sizes it asked for (list_risk_events).                                   *)
WalkMissesNothing == walk.at = "done" => walk.began \subseteq walk.seen

(* The listing tells the changes of one row in the order they were          *)
(* committed, however transactions overlap (insert_risk_event under         *)
(* lock_account, lock_order or an updated row).                             *)
TrailInCommitOrder ==
  [][\A e \in trail' \ trail, f \in trail : e.row = f.row => f.id < e.id]_vars

(* routes.rs: ids are time-ordered, so an id is a stable cursor: what is    *)
(* older than a row that has been listed does not change any more.          *)
StableCursor ==
  [][\A b \in walk.seen :
       {id \in Ids(trail') : id < b} = {id \in Ids(trail) : id < b}]_vars
=============================================================================
