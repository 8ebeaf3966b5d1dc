-------------------------- MODULE AuditTrailProofs --------------------------
(***************************************************************************)
(* Proofs about the audit trail, for any transactions, rows and page       *)
(* sizes.  That a row's events are listed in commit order rests on what a  *)
(* transaction has inserted being newer than all the row's committed       *)
(* events; that a walk misses nothing, on everything at or above the       *)
(* cursor having been seen.                                                *)
(***************************************************************************)
EXTENDS AuditTrail, FiniteSetTheorems, TLAPS

(* What an open transaction has inserted is newer than the committed events *)
(* of its row, which no other transaction holds.                            *)
Uncommitted ==
  \A w \in Writers :
    /\ \A e \in trail, id \in writer[w].ids :
         e.row \in writer[w].row => e.id < id
    /\ \A r, q \in writer[w].row : r = q
    /\ writer[w].row = {} => writer[w].ids = {}
    /\ \A v \in Writers :
         writer[v].row \cap writer[w].row # {} => v = w

(* The walk so far has left out nothing at or above its cursor.             *)
SeenAboveCursor ==
  /\ walk.began \subseteq Ids(trail)
  /\ walk.at = "walking" =>
       \A id \in walk.began :
         (\E b \in walk.before : b <= id) => id \in walk.seen
  /\ WalkMissesNothing

---------------------------------------------------------------------------
LEMMA InitTypeOK == Init => TypeOK
  BY TrailAssumption DEF Init, TypeOK, Idle, NoWalk

LEMMA PageSizeType == ASSUME NEW limit \in Limits
                      PROVE  PageSize(limit) \in Nat \ {0}
  BY TrailAssumption DEF PageSize

(* What a page holds has been issued.                                       *)
LEMMA OlderIssued == ASSUME TypeOK, NEW before
                     PROVE  Older(before) \subseteq 1 .. issued
  BY DEF Older, Ids, TypeOK

LEMMA NextTypeOK == TypeOK /\ [Next]_vars => TypeOK'
<1> SUFFICES ASSUME TypeOK, [Next]_vars PROVE TypeOK'
  OBVIOUS
<1> USE TrailAssumption
<1>1. ASSUME NEW w \in Writers, NEW row \in Rows, Lock(w, row) PROVE TypeOK'
  BY <1>1 DEF Lock, TypeOK
<1>2. ASSUME NEW w \in Writers, InsertRiskEvent(w) PROVE TypeOK'
  <2>1. issued' = issued + 1 /\ issued' \in 0 .. MaxEvents
    BY <1>2 DEF InsertRiskEvent, TypeOK
  <2>2. 1 .. issued \subseteq 1 .. issued' /\ issued' \in 1 .. issued'
    BY <2>1 DEF TypeOK
  <2>3. trail' \subseteq [id : 1 .. issued', row : Rows]
    BY <1>2, <2>2 DEF InsertRiskEvent, TypeOK
  <2>4. writer' \in [Writers -> [row : SUBSET Rows, ids : SUBSET (1 .. issued')]]
    <3>1. \A v \in Writers : writer[v] \in [row : SUBSET Rows, ids : SUBSET (1 .. issued')]
      BY <2>2 DEF TypeOK
    <3>2. writer[w].ids \cup {issued + 1} \in SUBSET (1 .. issued')
      BY <2>1, <2>2, <3>1
    <3> QED BY <1>2, <3>1, <3>2 DEF InsertRiskEvent, TypeOK
  <2>5. walk' \in [at : {"none", "walking", "done"}, began : SUBSET (1 .. issued'),
                   before : SUBSET (1 .. issued'), seen : SUBSET (1 .. issued')]
    BY <1>2, <2>2 DEF InsertRiskEvent, TypeOK
  <2> QED BY <2>1, <2>3, <2>4, <2>5 DEF TypeOK
<1>3. ASSUME NEW w \in Writers, Commit(w) PROVE TypeOK'
  <2>1. [id : writer[w].ids, row : writer[w].row] \subseteq [id : 1 .. issued, row : Rows]
    BY DEF TypeOK
  <2> QED BY <1>3, <2>1 DEF Commit, TypeOK, Idle
<1>4. ASSUME NEW w \in Writers, RollBack(w) PROVE TypeOK'
  BY <1>4 DEF RollBack, TypeOK, Idle
<1>5. CASE BeginWalk
  <2>1. Ids(trail) \subseteq 1 .. issued
    BY DEF Ids, TypeOK
  <2> QED BY <1>5, <2>1 DEF BeginWalk, TypeOK
<1>6. ASSUME NEW limit \in Limits, ListRiskEvents(limit) PROVE TypeOK'
  <2> PICK page \in SUBSET Older(walk.before) :
           walk' = IF page = {} THEN [walk EXCEPT !.at = "done"]
                   ELSE [walk EXCEPT
                          !.before = {p \in page : \A q \in page : p <= q},
                          !.seen = @ \cup page]
    BY <1>6 DEF ListRiskEvents
  <2>1. page \subseteq 1 .. issued
    BY OlderIssued
  <2>2. {p \in page : \A q \in page : p <= q} \subseteq 1 .. issued
    BY <2>1
  <2>3. walk' \in [at : {"none", "walking", "done"}, began : SUBSET (1 .. issued),
                   before : SUBSET (1 .. issued), seen : SUBSET (1 .. issued)]
    BY <2>1, <2>2 DEF TypeOK
  <2> QED BY <1>6, <2>3 DEF ListRiskEvents, TypeOK
<1>7. CASE UNCHANGED vars
  BY <1>7 DEF vars, TypeOK
<1> QED BY <1>1, <1>2, <1>3, <1>4, <1>5, <1>6, <1>7 DEF Next

(* Every reachable state of the trail is well typed; ids are drawn in order *)
(* and none before it is issued.                                            *)
THEOREM TypeCorrect == Spec => []TypeOK
  BY InitTypeOK, NextTypeOK, PTL DEF Spec

---------------------------------------------------------------------------
LEMMA NextUncommitted ==
  TypeOK /\ Uncommitted /\ [Next]_vars => Uncommitted'
<1> SUFFICES ASSUME TypeOK, Uncommitted, [Next]_vars PROVE Uncommitted'
  OBVIOUS
<1>1. ASSUME NEW w \in Writers, NEW row \in Rows, Lock(w, row) PROVE Uncommitted'
  BY <1>1 DEF Lock, Free, Uncommitted, TypeOK, Idle
<1>2. ASSUME NEW w \in Writers, InsertRiskEvent(w) PROVE Uncommitted'
  <2>1. \A e \in trail : e.id < issued + 1
    BY DEF TypeOK
  <2>2. /\ writer' = [writer EXCEPT ![w].ids = @ \cup {issued + 1}]
        /\ writer[w].row # {}
        /\ trail' = trail
    BY <1>2 DEF InsertRiskEvent
  <2>3. \A v \in Writers : writer'[v].row = writer[v].row
    BY <2>2 DEF TypeOK
  <2>4. \A v \in Writers : \A id \in writer'[v].ids :
          id \in writer[v].ids \/ (v = w /\ id = issued + 1)
    BY <2>2 DEF TypeOK
  <2>5. \A v \in Writers : v # w => writer'[v] = writer[v]
    BY <2>2 DEF TypeOK
  <2> QED BY <2>1, <2>2, <2>3, <2>4, <2>5 DEF Uncommitted
<1>3. ASSUME NEW w \in Writers, Commit(w) PROVE Uncommitted'
  <2>1. writer' = [writer EXCEPT ![w] = Idle]
    BY <1>3 DEF Commit
  <2>2. \A e \in trail' : e \in trail \/ e.row \in writer[w].row
    BY <1>3 DEF Commit
  <2>3. \A v \in Writers : v # w => writer'[v] = writer[v]
    BY <2>1 DEF TypeOK
  <2>4. writer'[w].ids = {} /\ writer'[w].row = {}
    BY <2>1 DEF TypeOK, Idle
  <2>5. ASSUME NEW v \in Writers, NEW e \in trail', NEW id \in writer'[v].ids,
               e.row \in writer'[v].row
        PROVE  e.id < id
    <3>1. v # w /\ writer'[v] = writer[v]
      BY <2>3, <2>4
    <3>2. e \in trail
      BY <2>2, <2>5, <3>1 DEF Uncommitted
    <3> QED BY <2>5, <3>1, <3>2 DEF Uncommitted
  <2> QED BY <2>3, <2>4, <2>5 DEF Uncommitted
<1>4. ASSUME NEW w \in Writers, RollBack(w) PROVE Uncommitted'
  <2>1. \A v \in Writers : v # w => writer'[v] = writer[v]
    BY <1>4 DEF RollBack, TypeOK
  <2>2. writer'[w].ids = {} /\ writer'[w].row = {} /\ trail' = trail
    BY <1>4 DEF RollBack, TypeOK, Idle
  <2> QED BY <2>1, <2>2 DEF Uncommitted
<1>5. CASE BeginWalk
  BY <1>5 DEF BeginWalk, Uncommitted
<1>6. ASSUME NEW limit \in Limits, ListRiskEvents(limit) PROVE Uncommitted'
  BY <1>6 DEF ListRiskEvents, Uncommitted
<1>7. CASE UNCHANGED vars
  BY <1>7 DEF vars, Uncommitted
<1> QED BY <1>1, <1>2, <1>3, <1>4, <1>5, <1>6, <1>7 DEF Next

LEMMA UncommittedHolds == Spec => []Uncommitted
<1>1. Init => Uncommitted
  BY DEF Init, Uncommitted, Idle
<1> QED BY <1>1, NextUncommitted, TypeCorrect, PTL DEF Spec

(* For any transactions and rows: a row's events are in the trail in the    *)
(* order of their commits.                                                  *)
THEOREM RowsInCommitOrder == Spec => TrailInCommitOrder
<1>1. Uncommitted /\ [Next]_vars =>
        [\A e \in trail' \ trail, f \in trail : e.row = f.row => f.id < e.id]_vars
  <2> SUFFICES ASSUME Uncommitted, Next,
                      NEW e \in trail' \ trail, NEW f \in trail, e.row = f.row
               PROVE  f.id < e.id
    OBVIOUS
  <2>1. PICK w \in Writers : Commit(w)
    BY DEF Next, Lock, InsertRiskEvent, RollBack, BeginWalk, ListRiskEvents
  <2>2. e.id \in writer[w].ids /\ e.row \in writer[w].row
    BY <2>1 DEF Commit
  <2> QED BY <2>1, <2>2 DEF Uncommitted
<1> QED BY <1>1, UncommittedHolds, PTL DEF Spec, TrailInCommitOrder

---------------------------------------------------------------------------
LEMMA EmptyPageIsTheEnd ==
  ASSUME NEW rows, NEW n \in Nat \ {0}, IsPage({}, rows, n)
  PROVE  rows = {}
<1>1. Cardinality({}) = 0
  BY FS_EmptySet
<1> QED BY <1>1 DEF IsPage

LEMMA NextSeenAboveCursor ==
  TypeOK /\ SeenAboveCursor /\ [Next]_vars => SeenAboveCursor'
<1> SUFFICES ASSUME TypeOK, SeenAboveCursor, [Next]_vars PROVE SeenAboveCursor'
  OBVIOUS
<1>1. ASSUME UNCHANGED walk, trail \subseteq trail' PROVE SeenAboveCursor'
  BY <1>1 DEF SeenAboveCursor, WalkMissesNothing, Ids
<1>2. CASE BeginWalk
  <2>1. walk' = [at |-> "walking", began |-> Ids(trail), before |-> {}, seen |-> {}]
        /\ trail' = trail
    BY <1>2 DEF BeginWalk
  <2> QED BY <2>1 DEF SeenAboveCursor, WalkMissesNothing, Ids
<1>3. ASSUME NEW limit \in Limits, ListRiskEvents(limit) PROVE SeenAboveCursor'
  <2> DEFINE rows == Older(walk.before)
  <2> PICK page \in SUBSET rows :
         /\ IsPage(page, rows, PageSize(limit))
         /\ walk' = IF page = {} THEN [walk EXCEPT !.at = "done"]
                    ELSE [walk EXCEPT
                           !.before = {p \in page : \A q \in page : p <= q},
                           !.seen = @ \cup page]
    BY <1>3 DEF ListRiskEvents
  <2>1. trail' = trail /\ walk.at = "walking"
    BY <1>3 DEF ListRiskEvents
  <2>2. \A id \in walk.began : id \in rows \/ id \in walk.seen
    <3> SUFFICES ASSUME NEW id \in walk.began, id \notin rows
                 PROVE  id \in walk.seen
      OBVIOUS
    <3>1. id \in Ids(trail)
      BY DEF SeenAboveCursor
    <3>2. PICK b \in walk.before : ~(id < b)
      BY <3>1 DEF Older
    <3>3. b <= id
      BY <3>2 DEF TypeOK
    <3> QED BY <2>1, <3>3 DEF SeenAboveCursor
  <2>3. CASE page = {}
    <3>1. rows = {}
      BY <2>3, PageSizeType, EmptyPageIsTheEnd
    <3>2. walk' = [walk EXCEPT !.at = "done"]
      BY <2>3
    <3>3. walk'.began = walk.began /\ walk'.seen = walk.seen /\ walk'.at = "done"
      BY <3>2 DEF TypeOK
    <3> QED BY <2>1, <2>2, <3>1, <3>3 DEF SeenAboveCursor, WalkMissesNothing
  <2>4. CASE page # {}
    <3>1. /\ walk'.began = walk.began
          /\ walk'.at = "walking"
          /\ walk'.before = {p \in page : \A q \in page : p <= q}
          /\ walk'.seen = walk.seen \cup page
      BY <2>1, <2>4 DEF TypeOK
    <3>2. ASSUME NEW id \in walk.began, NEW b \in walk'.before, b <= id
          PROVE  id \in walk'.seen
      <4>1. b \in page
        BY <3>1
      <4>2. CASE id \in rows \ page
        <5>1. id < b
          BY <4>1, <4>2 DEF IsPage
        <5>2. id \in Int /\ b \in Int
          BY <4>1, <4>2, OlderIssued
        <5> QED BY <3>2, <5>1, <5>2
      <4> QED BY <2>2, <3>1, <4>2
    <3> QED BY <2>1, <3>1, <3>2 DEF SeenAboveCursor, WalkMissesNothing
  <2> QED BY <2>3, <2>4
<1>4. ASSUME NEW w \in Writers, Commit(w) PROVE SeenAboveCursor'
  BY <1>1, <1>4 DEF Commit
<1>5. CASE UNCHANGED <<trail, walk>>
  BY <1>1, <1>5
<1> QED
  BY <1>2, <1>3, <1>4, <1>5 DEF Next, Lock, InsertRiskEvent, RollBack, vars

(* For any page sizes and any writers: a walk that has come to its end has  *)
(* seen every event committed before it began.                              *)
THEOREM WalksAreComplete == Spec => []WalkMissesNothing
<1>1. Init => SeenAboveCursor
  BY DEF Init, NoWalk, SeenAboveCursor, WalkMissesNothing
<1>2. SeenAboveCursor => WalkMissesNothing
  BY DEF SeenAboveCursor
<1> QED BY <1>1, <1>2, NextSeenAboveCursor, TypeCorrect, PTL DEF Spec
=============================================================================
