------------------------- MODULE GatedOutboxProofs -------------------------
(***************************************************************************)
(* Machine-checked proofs about the risk engine and the outbox together,   *)
(* for any orders, passes, faults and limits: what place_order decided on  *)
(* still holds when a pass fills the order, as long as no other order came *)
(* between.                                                                *)
(***************************************************************************)
EXTENDS GatedOutbox, OutboxProofs

(* Behind the gate works the outbox: its every step is one of the outbox,   *)
(* so that what is true of the one is true of the other.                    *)
LEMMA GatedStep == [GatedNext]_gateVars => [Next]_vars
BY DEF GatedNext, GatedPlaceOrder, Onward, Next, gateVars

(* The risk engine only takes behaviours from the outbox: with the gate in  *)
(* place_order, the tables and the passes do what they do without it.       *)
THEOREM GateOnlyRestricts == GatedSpec => Spec
<1>1. GatedInit => Init
  BY DEF GatedInit
<1> QED BY <1>1, GatedStep, PTL DEF GatedSpec, Spec

---------------------------------------------------------------------------
(* Orders in flight *)

(* An order that is not over is in flight, if it was placed.                *)
LEMMA InFlightOrders ==
  ASSUME IInv
  PROVE  \A o \in Orders :
           o \in InFlight <=> status[o] # NoOrder /\ status[o] \notin TerminalStatus
BY StatusSets DEF InFlight, IInv, TypeOK

(* Nothing but place_order brings an order into being.                      *)
LEMMA OnwardPlacesNone ==
  ASSUME IInv, Onward, NEW o \in Orders, status[o] = NoOrder
  PROVE  status'[o] = NoOrder
<1> USE DEF orderVars, queueVars, passVars, venueVars
<1>t. /\ status \in [Orders -> OrderStatus \cup {NoOrder}]
      /\ \A st : ~Legal(NoOrder, st)
  BY DEF IInv, TypeOK, Legal, LegalMoves, NoOrder
<1>1. ASSUME NEW w \in Workers, ApplySubmit(w) \/ ApplyCancel(w) \/ RecordRejected(w)
      PROVE  status'[o] = NoOrder
  BY <1>1, <1>t DEF ApplySubmit, ApplyCancel, RecordRejected, SetStatus, Record
<1>2. ASSUME NEW w \in Workers, PersistCommit(w) PROVE status'[o] = NoOrder
  BY <1>2, <1>t DEF PersistCommit, MoveIllegal, SetStatus
<1>3. ASSUME NEW w \in Workers, WorkerStep(w) PROVE status'[o] = NoOrder
  BY <1>1, <1>2, <1>3
  DEF WorkerStep, Claim, NoAdapter, Hydrate, CallSubmitOrCancel,
      CallPaperReconcile, CallLiveReconcile, PersistOpen, MarkDelivered,
      Requeue, MarkReconciliationRequired, MarkPermanentlyRejected,
      RecordParked
<1>4. ASSUME NEW w \in Workers, WorkerFault(w) PROVE status'[o] = NoOrder
  BY <1>4
  DEF WorkerFault, HydrateFails, TransactionFails, EventWriteFails, MarkFails,
      RecordFails, Crash
<1> QED
  BY <1>3, <1>4
  DEF Onward, RequestCancel, VenueMoves, Poll, vars, LeaseExpires

(* So orders only leave the flight.                                         *)
LEMMA OnwardInFlight ==
  ASSUME IInv, IInv', Onward
  PROVE  InFlight' \subseteq InFlight
<1>1. Next
  BY DEF Onward, Next
<1>2. \A o \in Orders : o \in InFlight' <=> status'[o] # NoOrder /\ status'[o] \notin TerminalStatus
  BY StatusSets DEF InFlight, IInv, TypeOK
<1> QED
  BY <1>1, <1>2, InFlightOrders, OnwardPlacesNone, TerminalStep DEF InFlight

(* A step of the gate takes on one order, which was not there before, and   *)
(* moves nothing.                                                           *)
LEMMA GatedPlacement ==
  ASSUME IInv, NEW o \in Orders, GatedPlaceOrder(o)
  PROVE  /\ o \notin InFlight /\ status[o] = NoOrder
         /\ InFlight' = InFlight \cup {o}
         /\ \A p \in Orders \ {o} : status'[p] = status[p]
         /\ status'[o] = "pending"
         /\ UNCHANGED <<filled, nfills, fillQty, pos, passVars, venueVars>>
         /\ IsApproved(Intent(o), LoadSnapshot, Limits)
<1>1. PlaceOrder(o) /\ IsApproved(Intent(o), LoadSnapshot, Limits)
  BY DEF GatedPlaceOrder
<1>2. status[o] = NoOrder /\ UNCHANGED <<filled, nfills, fillQty, pos, passVars, venueVars>>
  BY <1>1 DEF PlaceOrder
<1>3. status' = [status EXCEPT ![o] = "pending"]
  BY <1>1 DEF PlaceOrder, SetStatus, InitialStatus
<1>4. status'[o] = "pending" /\ \A p \in Orders \ {o} : status'[p] = status[p]
  BY <1>3 DEF IInv, TypeOK
<1>5. o \notin InFlight /\ InFlight' = InFlight \cup {o}
  BY <1>2, <1>4 DEF InFlight, OrderStatus, TerminalStatus, NoOrder
<1> QED BY <1>1, <1>2, <1>4, <1>5

(* A fill that moves a position is that of an order in flight.              *)
LEMMA FillsAreOfOrdersInFlight ==
  ASSUME IInv, NEW w \in Workers, pc[w] = "write", result[w].quantity > 0
  PROVE  OrderOf(cur[w]) \in InFlight
<1>1. OrderOf(cur[w]) \in Orders /\ status[OrderOf(cur[w])] \notin TerminalStatus
  BY FillInHand
<1>2. status[OrderOf(cur[w])] # NoOrder
  BY DEF IInv, WritesFromFreshState, CommandsHaveOrders, Busy
<1> QED BY <1>1, <1>2, InFlightOrders

---------------------------------------------------------------------------
(* The cap on open positions *)

(* An order in flight alone has its place under the cap.                    *)
CapInv ==
  /\ IInv
  /\ IsFiniteSet(Holdings)
  /\ crossed = {} =>
       /\ Cardinality(Holdings) <= Limits.maxConcurrentPositions
       /\ \A o, p \in InFlight : o = p
       /\ \A o \in InFlight :
            Cardinality(Holdings \cup {Symbol[o]}) <= Limits.maxConcurrentPositions

(* The snapshot has one row for each symbol held.                           *)
LEMMA RowsOfHoldings ==
  ASSUME IsFiniteSet(Holdings)
  PROVE  /\ Cardinality(LoadSnapshot.positions) = Cardinality(Holdings)
         /\ \A p \in LoadSnapshot.positions : p.symbol \in Holdings
         /\ \A p \in LoadSnapshot.positions :
              /\ p.side = IF pos[p.symbol] < 0 THEN "short" ELSE "long"
              /\ p.quantity = Size(pos[p.symbol])
<1> DEFINE Row(s) ==
      [symbol   |-> s,
       side     |-> IF pos[s] < 0 THEN "short" ELSE "long",
       quantity |-> Size(pos[s]),
       notional |-> Size(pos[s])]
<1> DEFINE f == [s \in Holdings |-> Row(s)]
<1>1. LoadSnapshot.positions = {Row(s) : s \in Holdings}
  BY DEF LoadSnapshot
<1>2. \A s, t \in Holdings : f[s] = f[t] => s = t
  <2> SUFFICES ASSUME NEW s \in Holdings, NEW t \in Holdings, f[s] = f[t]
               PROVE  s = t
    OBVIOUS
  <2>1. f[s].symbol = s /\ f[t].symbol = t
    OBVIOUS
  <2> QED BY <2>1
<1>3. f \in Bijection(Holdings, LoadSnapshot.positions)
  <2>1. f \in Surjection(Holdings, LoadSnapshot.positions)
    BY <1>1 DEF Surjection
  <2>2. f \in [Holdings -> LoadSnapshot.positions]
    BY <1>1
  <2>3. IsInjective(f)
    BY <1>2 DEF IsInjective
  <2>4. f \in Injection(Holdings, LoadSnapshot.positions)
    BY <2>2, <2>3 DEF Injection
  <2> QED BY <2>1, <2>4 DEF Bijection
<1>4. Cardinality(LoadSnapshot.positions) = Cardinality(Holdings)
  <2>1. ExistsBijection(Holdings, LoadSnapshot.positions)
    BY <1>3 DEF ExistsBijection
  <2> QED BY <2>1, FS_Bijection
<1>5. ASSUME NEW p \in LoadSnapshot.positions
      PROVE  /\ p.symbol \in Holdings
             /\ p.side = IF pos[p.symbol] < 0 THEN "short" ELSE "long"
             /\ p.quantity = Size(pos[p.symbol])
  <2>1. PICK s \in Holdings : p = Row(s)
    BY <1>1
  <2> QED BY <2>1
<1> QED BY <1>4, <1>5

(* An approved order has its place under the cap: it trades a symbol held,  *)
(* or there is room for one more.                                           *)
LEMMA ApprovedHasPlace ==
  ASSUME IsFiniteSet(Holdings), NEW o \in Orders,
         IsApproved(Intent(o), LoadSnapshot, Limits),
         Cardinality(Holdings) <= Limits.maxConcurrentPositions
  PROVE  Cardinality(Holdings \cup {Symbol[o]}) <= Limits.maxConcurrentPositions
<1>0. Cardinality(Holdings) \in Nat /\ Limits.maxConcurrentPositions \in Nat
  BY FS_CardinalityType, GatedAssumption
<1>1. CASE Symbol[o] \in Holdings
  <2>1. Holdings \cup {Symbol[o]} = Holdings
    BY <1>1
  <2> QED BY <2>1
<1>2. CASE Symbol[o] \notin Holdings
  <2>1. \A p \in LoadSnapshot.positions : p.symbol # Intent(o).symbol
    BY <1>2, RowsOfHoldings DEF Intent
  <2>2. ~ReducesExistingPosition(Intent(o), LoadSnapshot)
    BY <2>1 DEF ReducesExistingPosition
  <2>3. Evaluate(Intent(o), LoadSnapshot, Limits) = {}
    BY DEF IsApproved
  <2>4. CheckConcurrentPositions(Intent(o), LoadSnapshot, Limits) = {}
    BY <2>2, <2>3 DEF Evaluate
  <2>5. ~(Cardinality(LoadSnapshot.positions) >= Limits.maxConcurrentPositions)
    BY <2>1, <2>4 DEF CheckConcurrentPositions, Violated
  <2>6. Cardinality(Holdings \cup {Symbol[o]}) = Cardinality(Holdings) + 1
    BY <1>2, FS_AddElement
  <2> QED BY <1>0, <2>5, <2>6, RowsOfHoldings
<1> QED BY <1>1, <1>2

(* What is held after a step of the outbox was held, or is of an order in   *)
(* flight.                                                                  *)
LEMMA HoldingsGrow ==
  ASSUME IInv, Next
  PROVE  Holdings' \subseteq Holdings \/ \E o \in InFlight : Holdings' \subseteq Holdings \cup {Symbol[o]}
<1>1. CASE UNCHANGED <<fillQty, pos>>
  BY <1>1 DEF Holdings
<1>2. CASE ~UNCHANGED <<fillQty, pos>>
  <2>1. PICK w \in Workers :
          LET o == OrderOf(cur[w])
              q == result[w].quantity
          IN  /\ pc[w] = "write" /\ o \in Orders /\ q \in Nat \ {0}
              /\ pos' = [pos EXCEPT ![Symbol[o]] = posRead[w] + Signed(o, q)]
    BY <1>2, OnlyCommitsMovePositions
  <2>2. OrderOf(cur[w]) \in InFlight
    BY <2>1, FillsAreOfOrdersInFlight
  <2>3. \A s \in Symbols : s # Symbol[OrderOf(cur[w])] => pos'[s] = pos[s]
    BY <2>1 DEF IInv, TypeOK
  <2> QED BY <2>2, <2>3 DEF Holdings
<1> QED BY <1>1, <1>2

LEMMA CapStep == CapInv /\ [GatedNext]_gateVars => CapInv'
<1> SUFFICES ASSUME CapInv, [GatedNext]_gateVars PROVE CapInv'
  OBVIOUS
<1> USE DEF CapInv
<1>1. IInv'
  BY GatedStep, IInvStep
<1>0. Limits.maxConcurrentPositions \in Nat
  BY GatedAssumption
<1>2. ASSUME NEW o \in Orders, GatedPlaceOrder(o) PROVE CapInv'
  <2>1. /\ InFlight' = InFlight \cup {o} /\ pos' = pos
        /\ IsApproved(Intent(o), LoadSnapshot, Limits)
    BY <1>2, GatedPlacement
  <2>2. Holdings' = Holdings
    BY <2>1 DEF Holdings
  <2>3. crossed' = {} => crossed = {} /\ InFlight = {}
    BY <1>2 DEF GatedPlaceOrder
  <2>4. CASE crossed' = {}
    <3>1. Cardinality(Holdings \cup {Symbol[o]}) <= Limits.maxConcurrentPositions
      BY <2>1, <2>3, <2>4, ApprovedHasPlace
    <3> QED BY <1>1, <2>1, <2>2, <2>3, <2>4, <3>1
  <2>5. CASE crossed' # {}
    BY <1>1, <2>2, <2>5
  <2> QED BY <2>4, <2>5
<1>3. CASE Onward
  <2>1. Next /\ crossed' = crossed
    BY <1>3 DEF Onward, Next
  <2>2. InFlight' \subseteq InFlight
    BY <1>1, <1>3, OnwardInFlight
  <2>3. CASE Holdings' \subseteq Holdings
    <3>1. IsFiniteSet(Holdings') /\ Cardinality(Holdings') <= Cardinality(Holdings)
      BY <2>3, FS_Subset
    <3>2. ASSUME NEW s
          PROVE  /\ IsFiniteSet(Holdings \cup {s})
                 /\ Cardinality(Holdings' \cup {s}) <= Cardinality(Holdings \cup {s})
      <4>1. IsFiniteSet(Holdings \cup {s}) /\ (Holdings' \cup {s}) \in SUBSET (Holdings \cup {s})
        BY <2>3, FS_AddElement
      <4> QED BY <4>1, FS_Subset
    <3>3. ASSUME NEW s
          PROVE  /\ Cardinality(Holdings' \cup {s}) \in Nat
                 /\ Cardinality(Holdings \cup {s}) \in Nat
      BY <3>1, FS_AddElement, FS_CardinalityType
    <3>4. Cardinality(Holdings') \in Nat /\ Cardinality(Holdings) \in Nat
      BY <3>1, FS_CardinalityType
    <3>5. CASE crossed' = {}
      <4>1. Cardinality(Holdings') <= Limits.maxConcurrentPositions
        BY <1>0, <2>1, <3>1, <3>4, <3>5
      <4>2. \A o \in InFlight' :
              Cardinality(Holdings' \cup {Symbol[o]}) <= Limits.maxConcurrentPositions
        <5> SUFFICES ASSUME NEW o \in InFlight'
                     PROVE  Cardinality(Holdings' \cup {Symbol[o]})
                              <= Limits.maxConcurrentPositions
          OBVIOUS
        <5>1. Cardinality(Holdings \cup {Symbol[o]}) <= Limits.maxConcurrentPositions
          BY <2>1, <2>2, <3>5
        <5>2. Cardinality(Holdings' \cup {Symbol[o]}) <= Cardinality(Holdings \cup {Symbol[o]})
          BY <3>2
        <5>3. /\ Cardinality(Holdings' \cup {Symbol[o]}) \in Nat
              /\ Cardinality(Holdings \cup {Symbol[o]}) \in Nat
          BY <3>3
        <5> QED BY <1>0, <5>1, <5>2, <5>3
      <4> QED BY <1>1, <2>1, <2>2, <3>1, <3>5, <4>1, <4>2
    <3>6. CASE crossed' # {}
      BY <1>1, <3>1, <3>6
    <3> QED BY <3>5, <3>6
  <2>4. ASSUME NEW o \in InFlight, Holdings' \subseteq Holdings \cup {Symbol[o]}
        PROVE  CapInv'
    <3> DEFINE T == Holdings \cup {Symbol[o]}
    <3>1. IsFiniteSet(T)
      BY FS_AddElement
    <3>2. IsFiniteSet(Holdings') /\ Cardinality(Holdings') <= Cardinality(T)
      BY <2>4, <3>1, FS_Subset
    <3>3. (Holdings' \cup {Symbol[o]}) \in SUBSET T
      BY <2>4
    <3>4. /\ IsFiniteSet(Holdings' \cup {Symbol[o]})
          /\ Cardinality(Holdings' \cup {Symbol[o]}) <= Cardinality(T)
      BY <3>1, <3>3, FS_Subset
    <3>5. /\ Cardinality(T) \in Nat /\ Cardinality(Holdings') \in Nat
          /\ Cardinality(Holdings' \cup {Symbol[o]}) \in Nat
      BY <3>1, <3>2, <3>4, FS_CardinalityType
    <3>6. CASE crossed' = {}
      <4>1. Cardinality(T) <= Limits.maxConcurrentPositions /\ \A p \in InFlight : p = o
        BY <2>1, <3>6
      <4> HIDE DEF T
      <4>2. /\ Cardinality(Holdings') <= Limits.maxConcurrentPositions
            /\ Cardinality(Holdings' \cup {Symbol[o]}) <= Limits.maxConcurrentPositions
        BY <1>0, <3>2, <3>4, <3>5, <4>1
      <4> QED BY <1>1, <2>2, <3>2, <4>1, <4>2
    <3>7. CASE crossed' # {}
      BY <1>1, <3>2, <3>7
    <3> QED BY <3>6, <3>7
  <2> QED BY <2>1, <2>3, <2>4, HoldingsGrow
<1>4. CASE UNCHANGED gateVars
  BY <1>1, <1>4 DEF gateVars, vars, orderVars, Holdings, InFlight
<1> QED BY <1>2, <1>3, <1>4 DEF GatedNext

(* Orders placed one after the end of the other never hold more positions   *)
(* than the account may, whatever passes die, stall or are replayed while   *)
(* they are filled: what check_concurrent_positions counted is what         *)
(* persist_reconcile_result finds.                                          *)
THEOREM SerialOrdersStayWithinCap == GatedSpec => []SerialOrdersKeepCap
<1>1. GatedInit => CapInv
  <2> SUFFICES ASSUME GatedInit PROVE CapInv
    OBVIOUS
  <2>1. Init
    BY DEF GatedInit
  <2>2. Holdings = {}
    BY <2>1 DEF Init, Holdings
  <2>3. InFlight = {}
    BY <2>1 DEF Init, InFlight, NoOrder, OrderStatus
  <2>4. IsFiniteSet(Holdings) /\ Cardinality(Holdings) <= Limits.maxConcurrentPositions
    BY <2>2, FS_EmptySet, GatedAssumption
  <2> QED BY <2>1, <2>3, <2>4, InitIInv DEF CapInv
<1>2. CapInv => SerialOrdersKeepCap
  BY DEF CapInv, SerialOrdersKeepCap
<1> QED BY <1>1, <1>2, CapStep, PTL DEF GatedSpec

---------------------------------------------------------------------------
(* Pure reductions *)

(* An order let through as a reduction that nobody else came across is      *)
(* alone in flight, and what is left of it to fill is still there to be     *)
(* taken away.                                                              *)
Covered(o) ==
  IF Side[o] = "sell" THEN pos[Symbol[o]] >= Quantity[o] - fillQty[o]
                      ELSE -pos[Symbol[o]] >= Quantity[o] - fillQty[o]

AloneAndCovered(o) == o \in InFlight => InFlight = {o} /\ Covered(o)

(* A pass that is about to write its fill has read the position as it is.   *)
ReadFresh(w) ==
  /\ pc[w] = "write" /\ result[w].quantity > 0
  /\ OrderOf(cur[w]) \in exempt \ crossed
  => posRead[w] = pos[Symbol[OrderOf(cur[w])]]

LoneInv ==
  /\ IInv
  /\ exempt \subseteq Orders
  /\ \A o \in exempt : status[o] # NoOrder
  /\ \A o \in exempt \ crossed : AloneAndCovered(o)
  /\ \A w \in Workers : ReadFresh(w)

(* The engine lets an order through as a reduction only on a position that  *)
(* covers all of it.                                                        *)
LEMMA ReductionsAreCovered ==
  ASSUME IInv, NEW o \in Orders, ReducesExistingPosition(Intent(o), LoadSnapshot)
  PROVE  Covered(o)
<1>1. PICK s \in Holdings :
        /\ s = Symbol[o]
        /\ Opposes(Side[o], IF pos[s] < 0 THEN "short" ELSE "long")
        /\ Quantity[o] <= Size(pos[s])
  BY DEF ReducesExistingPosition, Intent, LoadSnapshot
<1>2. pos[s] \in Int /\ Quantity[o] \in Nat /\ fillQty[o] \in Nat
  BY OutboxAssumption DEF Holdings, IInv, TypeOK
<1> QED BY <1>1, <1>2 DEF Covered, Opposes, Size

(* The fill of such an order takes from the position what it had in hand.   *)
LEMMA LoneFill ==
  ASSUME LoneInv, Next, NEW o \in exempt \ crossed, fillQty'[o] # fillQty[o]
  PROVE  Shrinks(Symbol[o]) /\ Covered(o)'
<1> USE DEF LoneInv
<1>1. PICK w \in Workers :
        LET p == OrderOf(cur[w])
            q == result[w].quantity
        IN  /\ pc[w] = "write" /\ p \in Orders
            /\ q \in Nat \ {0}
            /\ fillQty' = [fillQty EXCEPT ![p] = fillQty[p] + q]
            /\ pos' = [pos EXCEPT ![Symbol[p]] = posRead[w] + Signed(p, q)]
  BY OnlyCommitsMovePositions
<1> DEFINE q == result[w].quantity
<1>2. OrderOf(cur[w]) = o /\ o \in Orders
  BY <1>1 DEF IInv, TypeOK
<1>3. o \in InFlight /\ Covered(o)
  BY <1>1, <1>2, FillsAreOfOrdersInFlight DEF AloneAndCovered
<1>4. posRead[w] = pos[Symbol[o]]
  BY <1>1, <1>2 DEF ReadFresh
<1>5. fillQty[o] + q <= Quantity[o]
  <2>1. Fits(o, snap[w], result[w]) /\ Unchanged(o, snap[w])
    BY <1>1, <1>2, FillInHand
  <2>2. filled[o] = fillQty[o]
    BY <1>2 DEF IInv, FillsCountedOnce
  <2> QED BY <2>1, <2>2 DEF Fits, Unchanged
<1>6. /\ pos[Symbol[o]] \in Int /\ Symbol[o] \in Symbols
      /\ Quantity[o] \in Nat /\ fillQty[o] \in Nat
      /\ Side[o] \in {"buy", "sell"} /\ q \in Nat \ {0}
  BY <1>1, <1>2, OutboxAssumption DEF IInv, TypeOK, OrderSide
<1>7. /\ fillQty'[o] = fillQty[o] + q
      /\ pos'[Symbol[o]] = pos[Symbol[o]] + Signed(o, q)
  BY <1>1, <1>2, <1>4, <1>6 DEF IInv, TypeOK
<1> HIDE DEF q
<1>8. CASE Side[o] = "sell"
  <2>1. pos'[Symbol[o]] = pos[Symbol[o]] - q /\ pos[Symbol[o]] >= q
    BY <1>3, <1>5, <1>6, <1>7, <1>8 DEF Signed, Covered
  <2>2. Covered(o)'
    BY <1>3, <1>6, <1>7, <1>8, <2>1 DEF Covered
  <2>3. pos'[Symbol[o]] * pos[Symbol[o]] >= 0
    BY <1>6, <2>1
  <2>4. Size(pos'[Symbol[o]]) < Size(pos[Symbol[o]])
    BY <1>6, <2>1 DEF Size
  <2> QED BY <2>2, <2>3, <2>4 DEF Shrinks
<1>9. CASE Side[o] = "buy"
  <2>1. pos'[Symbol[o]] = pos[Symbol[o]] + q /\ -pos[Symbol[o]] >= q
    BY <1>3, <1>5, <1>6, <1>7, <1>9 DEF Signed, Covered
  <2>2. Covered(o)'
    BY <1>3, <1>6, <1>7, <1>9, <2>1 DEF Covered
  <2>3. pos'[Symbol[o]] * pos[Symbol[o]] >= 0
    BY <1>6, <2>1
  <2>4. Size(pos'[Symbol[o]]) < Size(pos[Symbol[o]])
    BY <1>6, <2>1 DEF Size
  <2> QED BY <2>2, <2>3, <2>4 DEF Shrinks
<1> QED BY <1>6, <1>8, <1>9

(* Nothing comes across it but the placement of another order.              *)
LEMMA LoneStep == LoneInv /\ [GatedNext]_gateVars => LoneInv'
<1> SUFFICES ASSUME LoneInv, [GatedNext]_gateVars PROVE LoneInv'
  OBVIOUS
<1> USE DEF LoneInv
<1>1. IInv'
  BY GatedStep, IInvStep
<1>2. ASSUME NEW o \in Orders, GatedPlaceOrder(o) PROVE LoneInv'
  <2>1. /\ o \notin InFlight /\ status[o] = NoOrder /\ status'[o] = "pending"
        /\ InFlight' = InFlight \cup {o}
        /\ \A p \in Orders \ {o} : status'[p] = status[p]
        /\ UNCHANGED <<filled, nfills, fillQty, pos, passVars, venueVars>>
    BY <1>2, GatedPlacement
  <2>2. /\ exempt \subseteq exempt' /\ exempt' \subseteq exempt \cup {o}
        /\ o \in exempt' \ exempt => ReducesExistingPosition(Intent(o), LoadSnapshot)
        /\ crossed \subseteq crossed'
        /\ InFlight # {} => InFlight \cup {o} \subseteq crossed'
    BY <1>2 DEF GatedPlaceOrder
  <2>3. o \notin exempt
    BY <2>1
  <2>4. exempt' \subseteq Orders /\ \A p \in exempt' : status'[p] # NoOrder
    BY <2>1, <2>2 DEF NoOrder
  <2>5. ASSUME NEW p \in exempt' \ crossed' PROVE AloneAndCovered(p)'
    <3>1. CASE p = o
      <4>1. InFlight' = {o}
        BY <2>1, <2>2, <2>5, <3>1
      <4>2. Covered(o)
        BY <2>2, <2>3, <3>1, ReductionsAreCovered
      <4> QED BY <2>1, <3>1, <4>1, <4>2 DEF AloneAndCovered, Covered
    <3>2. CASE p # o
      <4>1. p \notin InFlight
        BY <2>2, <2>5
      <4> QED BY <2>1, <3>2, <4>1 DEF AloneAndCovered
    <3> QED BY <3>1, <3>2
  <2>6. ASSUME NEW w \in Workers PROVE ReadFresh(w)'
    <3> SUFFICES ASSUME pc[w] = "write", result[w].quantity > 0,
                        OrderOf(cur[w]) \in exempt' \ crossed'
                 PROVE  posRead[w] = pos[Symbol[OrderOf(cur[w])]]
      BY <2>1 DEF ReadFresh, passVars, venueVars
    <3>1. OrderOf(cur[w]) \in InFlight
      BY FillsAreOfOrdersInFlight
    <3>2. OrderOf(cur[w]) \in exempt \ crossed
      BY <2>1, <2>2, <3>1
    <3> QED BY <3>2 DEF ReadFresh
  <2> QED BY <1>1, <2>4, <2>5, <2>6
<1>3. CASE Onward
  <2>1. Next /\ exempt' = exempt /\ crossed' = crossed
    BY <1>3 DEF Onward, Next
  <2>2. InFlight' \subseteq InFlight
    BY <1>1, <1>3, OnwardInFlight
  <2>3. \A o \in exempt : status'[o] # NoOrder
    BY <2>1, PastPending
  <2>4. ASSUME NEW o \in exempt \ crossed PROVE AloneAndCovered(o)'
    <3> SUFFICES ASSUME o \in InFlight' PROVE InFlight' = {o} /\ Covered(o)'
      BY DEF AloneAndCovered
    <3>1. InFlight = {o} /\ InFlight' = {o} /\ Covered(o)
      BY <2>2 DEF AloneAndCovered
    <3>2. CASE fillQty'[o] # fillQty[o]
      BY <2>1, <3>1, <3>2, LoneFill
    <3>3. CASE fillQty'[o] = fillQty[o]
      <4>1. UNCHANGED pos
        <5> SUFFICES ASSUME ~UNCHANGED <<fillQty, pos>> PROVE FALSE
          OBVIOUS
        <5>1. PICK w \in Workers :
                LET p == OrderOf(cur[w])
                    q == result[w].quantity
                IN  /\ pc[w] = "write" /\ p \in Orders /\ q \in Nat \ {0}
                    /\ fillQty' = [fillQty EXCEPT ![p] = fillQty[p] + q]
          BY <2>1, OnlyCommitsMovePositions
        <5>2. OrderOf(cur[w]) = o
          BY <3>1, <5>1, FillsAreOfOrdersInFlight
        <5>3. fillQty'[o] = fillQty[o] + result[w].quantity
          BY <5>1, <5>2 DEF IInv, TypeOK
        <5>4. fillQty[o] \in Nat /\ result[w].quantity \in Nat \ {0}
          BY <5>1, <5>2 DEF IInv, TypeOK
        <5> QED BY <3>3, <5>3, <5>4
      <4> QED BY <3>1, <3>3, <4>1 DEF Covered
    <3> QED BY <3>1, <3>2, <3>3
  <2>5. ASSUME NEW x \in Workers PROVE ReadFresh(x)'
    <3> SUFFICES ASSUME pc'[x] = "write", result'[x].quantity > 0,
                        OrderOf(cur'[x]) \in exempt \ crossed
                 PROVE  posRead'[x] = pos'[Symbol[OrderOf(cur'[x])]]
      BY <2>1 DEF ReadFresh
    <3>1. UNCHANGED <<cur[x], result[x]>>
      BY <2>1, AtTheWrite
    <3>2. CASE UNCHANGED pos
      BY <2>1, <3>1, <3>2, AtTheWrite DEF ReadFresh
    <3>3. CASE ~UNCHANGED pos
      <4>1. pc[x] = "write"
        BY <2>1, <3>3, AtTheWrite
      <4>2. PICK w \in Workers :
              /\ pc[w] = "write" /\ pc'[w] # "write"
              /\ result[w].quantity \in Nat \ {0}
        BY <2>1, <3>3, OnlyCommitsMovePositions
      <4>3. OrderOf(cur[w]) \in InFlight /\ OrderOf(cur[x]) \in InFlight
        BY <3>1, <4>1, <4>2, FillsAreOfOrdersInFlight
      <4>4. OrderOf(cur[w]) = OrderOf(cur[x])
        BY <3>1, <4>3 DEF AloneAndCovered
      <4> QED BY <4>1, <4>2, <4>4 DEF IInv, WritesFromFreshState, OrderLockHeld
    <3> QED BY <3>2, <3>3
  <2> QED BY <1>1, <2>1, <2>3, <2>4, <2>5
<1>4. CASE UNCHANGED gateVars
  BY <1>1, <1>4
  DEF gateVars, vars, orderVars, passVars, venueVars, InFlight, AloneAndCovered,
      Covered, ReadFresh
<1> QED BY <1>2, <1>3, <1>4 DEF GatedNext

(* An order the engine let through as a pure reduction, alone in flight     *)
(* until it fills, brings its position closer to zero and never past it,    *)
(* though evaluate looked at the position and persist_reconcile_result      *)
(* writes it passes later.                                                  *)
THEOREM LoneReductionsNeverFlip == GatedSpec => LoneReductionsReduce
<1>1. GatedInit => LoneInv
  BY InitIInv DEF GatedInit, LoneInv, Init, ReadFresh
<1>2. LoneInv /\ [GatedNext]_gateVars
        => [\A o \in exempt \ crossed :
              fillQty'[o] # fillQty[o] => Shrinks(Symbol[o])]_gateVars
  <2> SUFFICES ASSUME LoneInv, GatedNext, NEW o \in exempt \ crossed, fillQty'[o] # fillQty[o]
               PROVE  Shrinks(Symbol[o])
    OBVIOUS
  <2>1. CASE Next
    BY <2>1, LoneFill
  <2>2. CASE UNCHANGED vars
    BY <2>2 DEF vars, orderVars
  <2> QED BY <2>1, <2>2, GatedStep
<1> QED BY <1>1, <1>2, LoneStep, PTL DEF GatedSpec, LoneReductionsReduce
=============================================================================
