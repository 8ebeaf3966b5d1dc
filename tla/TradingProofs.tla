--------------------------- MODULE TradingProofs ---------------------------
(***************************************************************************)
(* Machine-checked proofs about the risk engine over sequences of trades,  *)
(* for any symbols, limits, prices and quantities.                         *)
(***************************************************************************)
EXTENDS SequentialTrading, Sums

(* What an intent is made of.                                               *)
LEMMA IntentType ==
  ASSUME NEW intent \in TradeIntent
  PROVE  /\ intent.symbol \in Symbols
         /\ intent.side \in {"buy", "sell"}
         /\ intent.quantity \in Nat \ {0}
         /\ intent.price \in Nat \ {0}
         /\ Delta(intent) \in Int
         /\ Delta(intent) = intent.quantity \/ Delta(intent) = -intent.quantity
<1>1. /\ intent.symbol \in Symbols
      /\ intent.side \in {"buy", "sell"}
      /\ intent.quantity \in Nat \ {0}
      /\ intent.price \in Nat \ {0}
  BY TradingAssumption DEF TradeIntent
<1>2. Delta(intent) = intent.quantity \/ Delta(intent) = -intent.quantity
  BY DEF Delta
<1> QED BY <1>1, <1>2

(* apply_position_delta keeps quantities integers and prices natural.       *)
LEMMA PositionType ==
  ASSUME TypeOK, NEW s \in Symbols, NEW delta \in Int, NEW price \in Nat,
         ApplyPositionDelta(s, delta, price)
  PROVE  quantity' \in [Symbols -> Int] /\ avg' \in [Symbols -> Nat]
<1>1. CASE quantity[s] + delta = 0
  BY <1>1 DEF ApplyPositionDelta, TypeOK
<1>2. CASE quantity[s] + delta # 0
  <2>1. EntryPrice(quantity[s], avg[s], delta, price) \in Nat
    BY DEF EntryPrice, TypeOK
  <2>2. /\ quantity' = [quantity EXCEPT ![s] = quantity[s] + delta]
        /\ avg' = [avg EXCEPT ![s] =
                     EntryPrice(quantity[s], avg[s], delta, price)]
    BY <1>2 DEF ApplyPositionDelta
  <2> QED BY <2>1, <2>2 DEF TypeOK
<1> QED BY <1>1, <1>2

(* Every step keeps the account well typed.                                 *)
LEMMA TypeStep == TypeOK /\ [Next]_vars => TypeOK'
<1> SUFFICES ASSUME TypeOK, [Next]_vars PROVE TypeOK'
  OBVIOUS
<1>1. ASSUME NEW intent \in TradeIntent, Trade(intent) PROVE TypeOK'
  <2>1. quantity' \in [Symbols -> Int] /\ avg' \in [Symbols -> Nat]
    BY <1>1, IntentType, PositionType DEF Trade
  <2> QED BY <1>1, <2>1 DEF Trade, TypeOK
<1>2. CASE EvaluateTrade BY <1>2 DEF EvaluateTrade, TypeOK
<1>3. CASE PutEquity BY <1>3 DEF PutEquity, TypeOK
<1>4. CASE FlipKillSwitch BY <1>4 DEF FlipKillSwitch, TypeOK
<1>5. CASE RealizeLoss BY <1>5 DEF RealizeLoss, TypeOK
<1>6. CASE Midnight BY <1>6 DEF Midnight, TypeOK
<1>7. CASE UNCHANGED vars BY <1>7 DEF vars, TypeOK
<1> QED BY <1>1, <1>2, <1>3, <1>4, <1>5, <1>6, <1>7 DEF Next

(* The account and its positions are well typed in every reachable state    *)
(* (db.rs: the columns of accounts, daily_pnl and positions).               *)
THEOREM TypeCorrect == Spec => []TypeOK
<1>1. Init => TypeOK
  <2> SUFFICES ASSUME Init PROVE TypeOK
    OBVIOUS
  <2>1. quantity \in [Symbols -> Int] /\ avg \in [Symbols -> Nat]
    BY DEF Init
  <2>2. tripped \in BOOLEAN /\ killed \in BOOLEAN
    BY DEF Init
  <2> QED BY <2>1, <2>2 DEF Init, TypeOK
<1> QED BY <1>1, TypeStep, PTL DEF Spec

---------------------------------------------------------------------------
(* The position cap *)

(* load_snapshot has one entry per symbol held, so the engine counts what   *)
(* the account holds.                                                       *)
LEMMA SnapshotCounts ==
  /\ IsFiniteSet(Held) /\ IsFiniteSet(Snapshot.positions)
  /\ Cardinality(Held) <= Cardinality(Snapshot.positions)
  /\ \A p \in Snapshot.positions : p.symbol \in Held
  /\ \A s \in Held : \E p \in Snapshot.positions : p.symbol = s
<1> DEFINE Row(s) ==
      [symbol   |-> s,
       side     |-> IF quantity[s] < 0 THEN "short" ELSE "long",
       quantity |-> Magnitude(quantity[s]),
       notional |-> Magnitude(quantity[s]) * avg[s]]
<1> DEFINE f == [s \in Held |-> Row(s)]
<1>1. Snapshot.positions = {Row(s) : s \in Held}
  BY DEF Snapshot
<1>2. IsFiniteSet(Held)
  BY TradingAssumption, FS_Subset, Held \in SUBSET Symbols DEF Held
<1>3. f \in Surjection(Held, Snapshot.positions)
  BY <1>1 DEF Surjection
<1>4. IsFiniteSet(Snapshot.positions)
  BY <1>2, <1>3, FS_Surjection
<1>5. \A s, t \in Held : f[s] = f[t] => s = t
  <2> SUFFICES ASSUME NEW s \in Held, NEW t \in Held, f[s] = f[t]
               PROVE  s = t
    OBVIOUS
  <2>1. f[s].symbol = s /\ f[t].symbol = t
    OBVIOUS
  <2> QED BY <2>1
<1>6. f \in Injection(Held, Snapshot.positions)
  <2>1. f \in [Held -> Snapshot.positions]
    BY <1>1
  <2>2. IsInjective(f)
    BY <1>5 DEF IsInjective
  <2> QED BY <2>1, <2>2 DEF Injection
<1>7. Cardinality(Held) <= Cardinality(Snapshot.positions)
  BY <1>4, <1>6, FS_Injection
<1>8. \A p \in Snapshot.positions : p.symbol \in Held
  BY <1>1
<1>9. \A s \in Held : \E p \in Snapshot.positions : p.symbol = s
  <2> SUFFICES ASSUME NEW s \in Held
               PROVE  \E p \in Snapshot.positions : p.symbol = s
    OBVIOUS
  <2>1. Row(s) \in Snapshot.positions /\ Row(s).symbol = s
    BY <1>1
  <2> QED BY <2>1
<1> QED BY <1>2, <1>4, <1>7, <1>8, <1>9

(* An approved trade on a symbol not held finds the account below its cap   *)
(* (check_concurrent_positions; the exemption for reductions does not       *)
(* apply, there is nothing to reduce).                                      *)
LEMMA ApprovedBelowCap ==
  ASSUME TypeOK, NEW intent \in TradeIntent,
         IsApproved(intent, Snapshot, cfg), intent.symbol \notin Held
  PROVE  Cardinality(Held) < cfg.maxConcurrentPositions
<1>1. \A p \in Snapshot.positions : p.symbol # intent.symbol
  BY SnapshotCounts
<1>2. ~ReducesExistingPosition(intent, Snapshot)
  BY <1>1 DEF ReducesExistingPosition
<1>3. Evaluate(intent, Snapshot, cfg) = {}
  BY DEF IsApproved
<1>4. CheckConcurrentPositions(intent, Snapshot, cfg) = {}
  BY <1>2, <1>3 DEF Evaluate
<1>5. ~(Cardinality(Snapshot.positions) >= cfg.maxConcurrentPositions)
  BY <1>1, <1>4 DEF CheckConcurrentPositions, Violated
<1>6. cfg.maxConcurrentPositions \in Nat
  BY TradingAssumption DEF TypeOK, Config
<1>7. Cardinality(Held) \in Nat /\ Cardinality(Snapshot.positions) \in Nat
  BY SnapshotCounts, FS_CardinalityType
<1> QED BY <1>5, <1>6, <1>7, SnapshotCounts

(* A trade opens no other position than that of its own symbol.             *)
LEMMA TradeOpensOne ==
  ASSUME TypeOK, NEW intent \in TradeIntent, Trade(intent)
  PROVE  Held' \subseteq Held \cup {intent.symbol}
<1>1. \A s \in Symbols : s # intent.symbol => quantity'[s] = quantity[s]
  BY DEF Trade, ApplyPositionDelta, TypeOK
<1> QED BY <1>1 DEF Held

(* Every step keeps the positions within the cap.                           *)
LEMMA CapStep == TypeOK /\ PositionCapKept /\ [Next]_vars => PositionCapKept'
<1> SUFFICES ASSUME TypeOK, PositionCapKept, [Next]_vars
             PROVE  PositionCapKept'
  OBVIOUS
<1>0. /\ cfg.maxConcurrentPositions \in Nat
      /\ IsFiniteSet(Held) /\ Cardinality(Held) \in Nat
  BY TradingAssumption, SnapshotCounts, FS_CardinalityType DEF TypeOK, Config
<1>1. ASSUME NEW intent \in TradeIntent, Trade(intent) PROVE PositionCapKept'
  <2>1. cfg' = cfg /\ IsApproved(intent, Snapshot, cfg)
    BY <1>1 DEF Trade
  <2>2. Held' \subseteq Held \cup {intent.symbol}
    BY <1>1, TradeOpensOne
  <2>3. /\ IsFiniteSet(Held \cup {intent.symbol})
        /\ Cardinality(Held \cup {intent.symbol})
             = IF intent.symbol \in Held THEN Cardinality(Held)
                                         ELSE Cardinality(Held) + 1
    BY <1>0, FS_AddElement
  <2>4. Cardinality(Held \cup {intent.symbol}) <= cfg.maxConcurrentPositions
    <3>1. CASE intent.symbol \in Held
      BY <3>1, <2>3 DEF PositionCapKept
    <3>2. CASE intent.symbol \notin Held
      BY <3>2, <2>1, <2>3, <1>0, ApprovedBelowCap
    <3> QED BY <3>1, <3>2
  <2>5. /\ Cardinality(Held') \in Nat
        /\ Cardinality(Held') <= Cardinality(Held \cup {intent.symbol})
    BY <2>2, <2>3, FS_Subset, FS_CardinalityType
  <2>6. Cardinality(Held \cup {intent.symbol}) \in Nat
    BY <2>3, FS_CardinalityType
  <2> QED BY <1>0, <2>1, <2>4, <2>5, <2>6 DEF PositionCapKept
<1>2. CASE UNCHANGED <<cfg, quantity>>
  BY <1>2 DEF PositionCapKept, Held
<1>3. \/ \E intent \in TradeIntent : Trade(intent)
      \/ UNCHANGED <<cfg, quantity>>
  BY DEF Next, vars, EvaluateTrade, PutEquity, FlipKillSwitch, RealizeLoss,
         Midnight
<1> QED BY <1>1, <1>2, <1>3

(* No sequence of approved trades opens more positions than the cap         *)
(* (evaluate, load_snapshot, apply_position_delta).                         *)
THEOREM CapIsKept == Spec => []PositionCapKept
<1>1. Init => PositionCapKept
  <2> SUFFICES ASSUME Init PROVE PositionCapKept
    OBVIOUS
  <2>1. Held = {}
    BY DEF Init, Held
  <2>2. cfg.maxConcurrentPositions \in Nat
    BY TradingAssumption DEF Init, Config
  <2> QED BY <2>1, <2>2, FS_EmptySet DEF PositionCapKept
<1>2. Spec => []TypeOK
  BY TypeCorrect
<1> QED BY <1>1, <1>2, CapStep, PTL DEF Spec

---------------------------------------------------------------------------
(* The two halts and the exemption *)

(* A stored trip refuses every trade until midnight (evaluate looks at the  *)
(* stored trip, whatever the equity of the moment).                         *)
THEOREM TripsHold == Spec => TripLastsTheDay
<1>1. ASSUME NEW intent \in TradeIntent, Trade(intent), tripped PROVE FALSE
  <2>1. Halted(Snapshot, cfg)
    BY <1>1 DEF Halted, Snapshot
  <2>2. "circuit_breaker_tripped" \in Violated("circuit_breaker_tripped",
                                               Halted(Snapshot, cfg))
    BY <2>1 DEF Violated
  <2>3. Evaluate(intent, Snapshot, cfg) # {}
    BY <2>2 DEF Evaluate
  <2> QED BY <1>1, <2>3 DEF Trade, IsApproved
<1>2. [Next]_vars => (tripped /\ tripped' => UNCHANGED quantity)
  BY <1>1 DEF Next, vars, EvaluateTrade, PutEquity, FlipKillSwitch,
              RealizeLoss, Midnight
<1> QED BY <1>2, PTL DEF Spec, TripLastsTheDay

(* A magnitude is not negative.                                             *)
LEMMA MagnitudeNat ==
  ASSUME NEW n \in Int PROVE Magnitude(n) \in Nat
BY DEF Magnitude

(* A trade that leaves less of a position without turning it around finds   *)
(* that position in the snapshot, on the other side and no smaller than the *)
(* trade (reduces_existing_position).                                       *)
LEMMA ReductionFound ==
  ASSUME TypeOK, NEW intent \in TradeIntent,
         Magnitude(quantity[intent.symbol] + Delta(intent))
           < Magnitude(quantity[intent.symbol]),
         quantity[intent.symbol] * (quantity[intent.symbol] + Delta(intent)) >= 0
  PROVE  ReducesExistingPosition(intent, Snapshot)
<1> DEFINE s == intent.symbol
           q == quantity[s]
           Row(t) ==
             [symbol   |-> t,
              side     |-> IF quantity[t] < 0 THEN "short" ELSE "long",
              quantity |-> Magnitude(quantity[t]),
              notional |-> Magnitude(quantity[t]) * avg[t]]
<1>1. s \in Symbols /\ q \in Int /\ intent.quantity \in Nat \ {0}
  BY IntentType DEF TypeOK
<1>2. q # 0
  <2> SUFFICES ASSUME q = 0 PROVE FALSE
    OBVIOUS
  <2>1. Delta(intent) \in Int
    BY IntentType
  <2>2. Magnitude(q) = 0
    BY DEF Magnitude
  <2>3. Magnitude(q + Delta(intent)) < 0
    BY <2>2
  <2>4. q + Delta(intent) \in Int
    BY <1>1, <2>1
  <2>5. Magnitude(q + Delta(intent)) \in Nat
    BY <2>4, MagnitudeNat
  <2> QED BY <2>3, <2>5
<1>3. Row(s) \in Snapshot.positions
  BY <1>1, <1>2 DEF Snapshot, Held
<1>4. Opposes(intent.side, Row(s).side) /\ intent.quantity <= Row(s).quantity
  <2>1. CASE q > 0
    <3>1. q + Delta(intent) < q
      BY <2>1, <1>1, IntentType DEF Magnitude
    <3>2. q + Delta(intent) >= 0
      BY <2>1, <1>1, IntentType
    <3>3. intent.side = "sell" /\ Delta(intent) = -intent.quantity
      BY <3>1, <1>1, IntentType DEF Delta
    <3>4. Row(s).side = "long" /\ Row(s).quantity = q
      BY <2>1, <1>1 DEF Magnitude
    <3> QED BY <3>2, <3>3, <3>4, <1>1 DEF Opposes
  <2>2. CASE q < 0
    <3>1. q + Delta(intent) > q
      BY <2>2, <1>1, IntentType DEF Magnitude
    <3>2. q + Delta(intent) <= 0
      BY <2>2, <1>1, IntentType
    <3>3. intent.side = "buy" /\ Delta(intent) = intent.quantity
      BY <3>1, <1>1, IntentType DEF Delta
    <3>4. Row(s).side = "short" /\ Row(s).quantity = -q
      BY <2>2, <1>1 DEF Magnitude
    <3> QED BY <3>2, <3>3, <3>4, <1>1 DEF Opposes
  <2> QED BY <1>1, <1>2, <2>1, <2>2
<1> QED BY <1>3, <1>4 DEF ReducesExistingPosition

(* Unless trading is halted, the way out of a position is open at any price *)
(* and with any equity (evaluate skips the sizing rules for reductions).    *)
THEOREM ReductionsAlwaysPass == Spec => []ReductionsPass
<1>1. TypeOK => ReductionsPass
  <2> SUFFICES ASSUME TypeOK, NEW intent \in TradeIntent,
                      ~killed, ~Halted(Snapshot, cfg),
                      ReducesExistingPosition(intent, Snapshot)
               PROVE  IsApproved(intent, Snapshot, cfg)
    BY ReductionFound DEF ReductionsPass
  <2>1. ~Snapshot.killSwitchEngaged
    BY DEF Snapshot
  <2>2. ~(intent.quantity < 0 \/ intent.price < 0)
    BY IntentType
  <2>3. Violated("circuit_breaker_tripped", Halted(Snapshot, cfg)) = {}
    BY DEF Violated
  <2> QED BY <2>1, <2>2, <2>3 DEF IsApproved, Evaluate
<1> QED BY <1>1, TypeCorrect, PTL

---------------------------------------------------------------------------
(* More equity *)

(* The larger factor makes the larger product.                              *)
LEMMA Scale ==
  ASSUME NEW a \in Int, NEW b \in Int, a <= b, NEW c \in Nat
  PROVE  a * c <= b * c
OBVIOUS

(* The rows of the snapshot are the positions held, and their notionals add *)
(* up to an integer.                                                        *)
LEMMA ExposureInt ==
  ASSUME TypeOK, NEW s
  PROVE  GroupExposure(Snapshot.positions, groups, s) \in Int
<1> DEFINE P == Snapshot.positions
           G == {p \in P : groups[p.symbol] = groups[s]}
           f == [p \in P |-> p.notional]
<1>1. IsFiniteSet(G)
  BY SnapshotCounts, FS_Subset
<1>2. \A p \in P : p.notional \in Int
  <2> SUFFICES ASSUME NEW t \in Held PROVE Magnitude(quantity[t]) * avg[t] \in Int
    BY DEF Snapshot
  <2>1. quantity[t] \in Int /\ avg[t] \in Nat
    BY DEF Held, TypeOK
  <2> QED BY <2>1 DEF Magnitude
<1>3. \A p \in G : f[p] \in Int
  BY <1>2
<1> QED BY <1>1, <1>3, SumInto DEF GroupExposure

(* What does not exceed a share of the equity does not exceed that share of *)
(* a larger one.                                                            *)
LEMMA SharesGrow ==
  ASSUME NEW x \in Int, NEW d \in Int, NEW e \in Int, d <= e, NEW pct \in Nat,
         ~Exceeds(x, d, pct)
  PROVE  ~Exceeds(x, e, pct)
<1>1. d * pct <= e * pct
  BY Scale
<1> QED BY <1>1 DEF Exceeds

(* An approval stays one with more equity: every limit is a share of it, a  *)
(* trade without equity passes as a reduction only, and one past a loss     *)
(* does not pass without equity (evaluate).                                 *)
THEOREM EquityHelps == Spec => []MoreEquityNeverHurts
<1>1. TypeOK => MoreEquityNeverHurts
  <2> SUFFICES ASSUME TypeOK, NEW intent \in TradeIntent, NEW e \in Equities,
                      e > equity, IsApproved(intent, Snapshot, cfg)
               PROVE  IsApproved(intent, [Snapshot EXCEPT !.equity = e], cfg)
    BY DEF MoreEquityNeverHurts
  <2> DEFINE snap == [Snapshot EXCEPT !.equity = e]
  <2>1. /\ equity \in Nat /\ e \in Nat \ {0} /\ loss \in Nat
        /\ cfg.dailyMaxLossPct \in Nat \ {0} /\ cfg.maxPositionPctEquity \in Nat
        /\ cfg.maxCorrelatedExposurePct \in Nat
    BY TradingAssumption DEF TypeOK, Config
  <2>2. /\ Snapshot.equity = equity /\ snap.equity = e
        /\ Snapshot.loss = loss /\ snap.loss = loss
        /\ snap.tripped = Snapshot.tripped /\ snap.groups = groups
        /\ Snapshot.groups = groups
        /\ snap.killSwitchEngaged = Snapshot.killSwitchEngaged
        /\ snap.positions = Snapshot.positions
    BY DEF Snapshot
  <2> HIDE DEF snap
  <2>3. ReducesExistingPosition(intent, snap) <=> ReducesExistingPosition(intent, Snapshot)
    BY <2>2 DEF ReducesExistingPosition
  <2>4. /\ ~Snapshot.killSwitchEngaged /\ ~(intent.quantity < 0 \/ intent.price < 0)
        /\ ~Halted(Snapshot, cfg)
        /\ \/ ReducesExistingPosition(intent, Snapshot)
           \/ /\ CheckPositionSize(intent, Snapshot, cfg) = {}
              /\ CheckConcurrentPositions(intent, Snapshot, cfg) = {}
              /\ CheckCorrelatedExposure(intent, Snapshot, cfg) = {}
    BY DEF IsApproved, Evaluate, Violated
  <2>5. ~Halted(snap, cfg)
    <3>1. ~CircuitBreakerShouldTrip(Snapshot, cfg) /\ ~Snapshot.tripped
      BY <2>4 DEF Halted
    <3>2. equity * cfg.dailyMaxLossPct <= e * cfg.dailyMaxLossPct
      BY <2>1, Scale
    <3>3. e * cfg.dailyMaxLossPct > 0
      BY <2>1
    <3>4. ~(loss * 100 >= e * cfg.dailyMaxLossPct)
      <4>1. CASE equity = 0
        BY <4>1, <3>1, <3>3, <2>1, <2>2 DEF CircuitBreakerShouldTrip
      <4>2. CASE equity # 0
        BY <4>2, <3>1, <3>2, <2>1, <2>2 DEF CircuitBreakerShouldTrip
      <4> QED BY <4>1, <4>2
    <3> QED BY <3>1, <3>4, <2>1, <2>2 DEF Halted, CircuitBreakerShouldTrip
  <2>6. CASE ReducesExistingPosition(intent, Snapshot)
    BY <2>2, <2>3, <2>4, <2>5, <2>6 DEF IsApproved, Evaluate, Violated, snap
  <2>7. CASE ~ReducesExistingPosition(intent, Snapshot)
    <3> DEFINE N == Notional(intent)
               X == GroupExposure(Snapshot.positions, groups, intent.symbol)
    <3>1. N \in Int /\ X \in Int /\ X + N \in Int
      BY IntentType, ExposureInt DEF Notional
    <3> HIDE DEF X
    <3>2. equity > 0 /\ ~Exceeds(N, equity, cfg.maxPositionPctEquity)
      BY <2>1, <2>2, <2>4, <2>7 DEF CheckPositionSize, Violated
    <3>3. CheckPositionSize(intent, snap, cfg) = {}
      <4>1. ~Exceeds(N, e, cfg.maxPositionPctEquity)
        <5> HIDE DEF N
        <5> QED BY <3>1, <3>2, <2>1, SharesGrow
      <4> QED BY <4>1, <2>1, <2>2 DEF CheckPositionSize, Violated
    <3>4. CheckConcurrentPositions(intent, snap, cfg) = {}
      BY <2>2, <2>4, <2>7 DEF CheckConcurrentPositions, Violated
    <3>5. groups[intent.symbol] # NoGroup
            => ~Exceeds(X + N, equity, cfg.maxCorrelatedExposurePct)
      BY <2>2, <2>4, <2>7, <3>2 DEF CheckCorrelatedExposure, Violated, X
    <3>6. groups[intent.symbol] # NoGroup
            => ~Exceeds(X + N, e, cfg.maxCorrelatedExposurePct)
      BY <3>1, <3>5, <2>1, SharesGrow
    <3>7. CheckCorrelatedExposure(intent, snap, cfg) = {}
      BY <3>6, <2>2 DEF CheckCorrelatedExposure, Violated, X
    <3>8. Evaluate(intent, snap, cfg) = {}
      BY <2>2, <2>3, <2>4, <2>5, <2>7, <3>3, <3>4, <3>7 DEF Evaluate, Violated
    <3> QED BY <3>8 DEF IsApproved, snap
  <2> QED BY <2>6, <2>7
<1> QED BY <1>1, TypeCorrect, PTL

---------------------------------------------------------------------------
(* The exposure of a group *)

(* What the engine adds up over the rows of the snapshot is the exposure of *)
(* the group: symbols that are not held add nothing.                        *)
LEMMA SnapshotExposure ==
  ASSUME TypeOK, NEW s \in Symbols
  PROVE  /\ GroupExposure(Snapshot.positions, groups, s)
              = GroupTotal(quantity, avg, groups[s])
         /\ GroupTotal(quantity, avg, groups[s]) \in Int
<1> DEFINE Row(t) ==
             [symbol   |-> t,
              side     |-> IF quantity[t] < 0 THEN "short" ELSE "long",
              quantity |-> Magnitude(quantity[t]),
              notional |-> Magnitude(quantity[t]) * avg[t]]
           P == Snapshot.positions
           G == {t \in Symbols : groups[t] = groups[s]}
           H == {t \in G : quantity[t] # 0}
           f == [t \in Symbols |-> Magnitude(quantity[t]) * avg[t]]
           e == [p \in P |-> p.notional]
           b == [t \in H |-> Row(t)]
<1>1. P = {Row(t) : t \in Held}
  BY DEF Snapshot
<1>2. IsFiniteSet(G) /\ H \in SUBSET G /\ IsFiniteSet(H)
  BY TradingAssumption, FS_Subset, G \in SUBSET Symbols
<1>3. \A t \in Symbols : f[t] \in Int /\ (quantity[t] = 0 => f[t] = 0)
  BY DEF TypeOK, Magnitude
<1>4. SumFunctionOnSet(f, G) \in Int /\ SumFunctionOnSet(f, H) = SumFunctionOnSet(f, G)
  <2>1. (\A t \in G : f[t] \in Int) /\ \A t \in G \ H : f[t] = 0
    BY <1>3
  <2> HIDE DEF f, G, H
  <2> QED BY <1>2, <2>1, SumInto, SumOfRest
<1>5. \A t \in H : b[t] \in P /\ b[t].symbol = t /\ e[b[t]] = f[t]
  <2> SUFFICES ASSUME NEW t \in H
               PROVE  b[t] \in P /\ b[t].symbol = t /\ e[b[t]] = f[t]
    OBVIOUS
  <2>1. Row(t) \in P
    BY <1>1 DEF Held
  <2> QED BY <2>1
<1>6. {b[t] : t \in H} = {p \in P : groups[p.symbol] = groups[s]}
  <2>1. ASSUME NEW p \in P, groups[p.symbol] = groups[s]
        PROVE  p \in {b[t] : t \in H}
    <3>1. PICK t \in Held : p = Row(t)
      BY <1>1
    <3>2. t \in H
      BY <3>1, <2>1 DEF Held
    <3> QED BY <3>1, <3>2
  <2>2. ASSUME NEW t \in H PROVE b[t] \in P /\ groups[b[t].symbol] = groups[s]
    BY <1>5
  <2> HIDE DEF b, H, P
  <2> QED BY <2>1, <2>2
<1>7. SumFunctionOnSet(e, {b[t] : t \in H}) = SumFunctionOnSet(f, H)
  <2>1. /\ \A t, u \in H : b[t] = b[u] => t = u
        /\ \A t \in H : e[b[t]] = f[t] /\ f[t] \in Int
    <3>1. \A t \in H : t \in Symbols
      OBVIOUS
    <3> HIDE DEF b, e, f, H
    <3> QED BY <1>3, <1>5, <3>1
  <2> HIDE DEF b, e, f, H
  <2> QED BY <1>2, <2>1, SumRenamed
<1> QED BY <1>4, <1>6, <1>7 DEF GroupExposure, GroupTotal

(* What a trade adds to the exposure of its group is what it adds to the    *)
(* worth of its own position.                                               *)
LEMMA TradeAdds ==
  ASSUME TypeOK, TypeOK', NEW s \in Symbols,
         \A t \in Symbols : t # s => quantity'[t] = quantity[t] /\ avg'[t] = avg[t]
  PROVE  GroupTotal(quantity', avg', groups[s])
           = GroupTotal(quantity, avg, groups[s])
             + Magnitude(quantity'[s]) * avg'[s] - Magnitude(quantity[s]) * avg[s]
<1> DEFINE G == {t \in Symbols : groups[t] = groups[s]}
           f == [t \in Symbols |-> Magnitude(quantity[t]) * avg[t]]
           e == [t \in Symbols |-> Magnitude(quantity'[t]) * avg'[t]]
<1>1. IsFiniteSet(G) /\ s \in G
  BY TradingAssumption, FS_Subset, G \in SUBSET Symbols
<1>2. \A t \in G : f[t] \in Int /\ e[t] \in Int /\ (t # s => e[t] = f[t])
  BY DEF TypeOK, Magnitude
<1>3. SumFunctionOnSet(e, G) = SumFunctionOnSet(f, G) + e[s] - f[s]
  <2>1. /\ \A t \in G : f[t] \in Int /\ e[t] \in Int
        /\ \A t \in G : t # s => e[t] = f[t]
    BY <1>2
  <2> HIDE DEF f, e, G
  <2> QED BY <1>1, <2>1, SumChange
<1> QED BY <1>3 DEF GroupTotal

(* A fill that does not turn a position around or close it keeps its entry  *)
(* price, any other takes the price of the trade; either way the position   *)
(* is worth at most the trade more, unless it grows below its entry price.  *)
LEMMA FillWorth ==
  ASSUME NEW q \in Int, NEW a \in Nat, NEW n \in Nat \ {0}, NEW price \in Nat,
         NEW d \in Int, d = n \/ d = -n, NEW r \in Int, r = q + d, r # 0,
         NEW b, b = EntryPrice(q, a, d, price)
  PROVE  /\ q * d < 0 /\ n <= Magnitude(q)
              => Magnitude(r) * b <= Magnitude(q) * a
         /\ ~(q * r > 0 /\ Magnitude(r) > Magnitude(q) /\ price < a)
              => Magnitude(r) * b <= Magnitude(q) * a + n * price
<1>0. /\ Magnitude(q) \in Nat /\ Magnitude(r) \in Nat
      /\ Magnitude(q) * a \in Nat /\ n * price \in Nat /\ Magnitude(q) * price \in Nat
  BY DEF Magnitude
<1>1. CASE q = 0
  <2>1. b = price /\ Magnitude(r) = n /\ Magnitude(q) = 0
    BY <1>1 DEF EntryPrice, Magnitude
  <2> QED BY <2>1, <1>1
<1>2. CASE q # 0 /\ (q > 0) # (r > 0)
  <2>1. b = price
    BY <1>2 DEF EntryPrice
  <2>2. n > Magnitude(q) /\ Magnitude(r) <= n
    BY <1>2 DEF Magnitude
  <2>3. Magnitude(r) * price <= n * price
    BY <2>2, <1>0, Scale
  <2> QED BY <2>1, <2>2, <2>3, <1>0
<1>3. CASE q # 0 /\ (q > 0) = (r > 0)
  <2>1. b = a
    BY <1>3 DEF EntryPrice
  <2>2. CASE Magnitude(r) <= Magnitude(q)
    <3>1. Magnitude(r) * a <= Magnitude(q) * a
      BY <2>2, <1>0, Scale
    <3> QED BY <2>1, <3>1, <1>0
  <2>3. CASE Magnitude(r) > Magnitude(q)
    <3>1. q * r > 0
      <4>1. CASE q > 0 /\ r > 0 BY <4>1
      <4>2. CASE q < 0 /\ r < 0 BY <4>2
      <4> QED BY <4>1, <4>2, <1>3
    <3>2. Magnitude(r) = Magnitude(q) + n /\ q * d > 0
      <4>1. CASE q > 0 /\ d = n BY <4>1, <1>3 DEF Magnitude
      <4>2. CASE q < 0 /\ d = -n BY <4>2, <1>3 DEF Magnitude
      <4>3. CASE q > 0 /\ d = -n BY <4>3, <1>3, <2>3 DEF Magnitude
      <4>4. CASE q < 0 /\ d = n BY <4>4, <1>3, <2>3 DEF Magnitude
      <4> QED BY <4>1, <4>2, <4>3, <4>4, <1>3
    <3>3. Magnitude(r) * a = Magnitude(q) * a + n * a
      BY <3>2, <1>0
    <3>4. a <= price => n * a <= n * price
      BY Scale
    <3>5. n * a \in Int
      OBVIOUS
    <3>6. ~(q * d < 0)
      BY <3>2
    <3> QED BY <2>1, <3>1, <3>3, <3>4, <3>5, <3>6, <1>0, <2>3
  <2> QED BY <2>2, <2>3, <1>0
<1> QED BY <1>1, <1>2, <1>3

(* A trade taken for a reduction goes against its position, which is at     *)
(* least as large.                                                          *)
LEMMA ReductionGoesAgainst ==
  ASSUME TypeOK, NEW intent \in TradeIntent, ReducesExistingPosition(intent, Snapshot)
  PROVE  /\ quantity[intent.symbol] * Delta(intent) < 0
         /\ intent.quantity <= Magnitude(quantity[intent.symbol])
<1> DEFINE q == quantity[intent.symbol]
<1>1. PICK p \in Snapshot.positions :
        /\ p.symbol = intent.symbol /\ Opposes(intent.side, p.side)
        /\ intent.quantity <= p.quantity
  BY DEF ReducesExistingPosition
<1>2. /\ p.side = IF q < 0 THEN "short" ELSE "long"
      /\ p.quantity = Magnitude(q) /\ q # 0
  BY <1>1 DEF Snapshot, Held
<1>3. q \in Int /\ intent.quantity \in Nat \ {0}
  BY IntentType DEF TypeOK
<1>4. CASE q < 0
  <2>1. Delta(intent) = intent.quantity
    BY <1>1, <1>2, <1>4 DEF Opposes, Delta
  <2> QED BY <2>1, <1>1, <1>2, <1>3, <1>4
<1>5. CASE q > 0
  <2>1. Delta(intent) = -intent.quantity
    BY <1>1, <1>2, <1>3, <1>5 DEF Opposes, Delta
  <2> QED BY <2>1, <1>1, <1>2, <1>3, <1>5
<1> QED BY <1>2, <1>3, <1>4, <1>5

(* How a trade that leaves a position moves the exposure of its group.      *)
LEMMA TradeMovesExposure ==
  ASSUME TypeOK, TypeOK', NEW intent \in TradeIntent, Trade(intent),
         NEW s \in Symbols, s = intent.symbol, quantity[s] + Delta(intent) # 0,
         NEW before, before = GroupTotal(quantity, avg, groups[s]),
         NEW after, after = GroupTotal(quantity', avg', groups[s])
  PROVE  /\ before \in Int /\ after \in Int
         /\ ReducesExistingPosition(intent, Snapshot) => after <= before
         /\ ~(/\ quantity[s] * quantity'[s] > 0
              /\ Magnitude(quantity'[s]) > Magnitude(quantity[s])
              /\ intent.price < avg[s])
              => after <= before + intent.quantity * intent.price
<1> DEFINE n == intent.quantity
           d == Delta(intent)
           q == quantity[s]
           r == quantity'[s]
           a == avg[s]
           b == avg'[s]
<1>1. /\ quantity' = [quantity EXCEPT ![s] = q + d]
      /\ avg' = [avg EXCEPT ![s] = EntryPrice(q, a, d, intent.price)]
  BY DEF Trade, ApplyPositionDelta
<1>2. /\ r = q + d /\ b = EntryPrice(q, a, d, intent.price)
      /\ \A t \in Symbols : t # s => quantity'[t] = quantity[t] /\ avg'[t] = avg[t]
  BY <1>1 DEF TypeOK
<1>3. after = before + Magnitude(r) * b - Magnitude(q) * a
  BY <1>2, TradeAdds
<1>4. /\ q \in Int /\ r \in Int /\ a \in Nat /\ b \in Nat
      /\ n \in Nat \ {0} /\ intent.price \in Nat /\ d \in Int /\ (d = n \/ d = -n)
  BY IntentType DEF TypeOK
<1>5. before \in Int
  BY SnapshotExposure
<1>6. ReducesExistingPosition(intent, Snapshot) => q * d < 0 /\ n <= Magnitude(q)
  BY ReductionGoesAgainst
<1>7. q + d # 0
  OBVIOUS
<1> HIDE DEF n, d, q, r, a, b
<1>8. /\ q * d < 0 /\ n <= Magnitude(q) => Magnitude(r) * b <= Magnitude(q) * a
      /\ ~(q * r > 0 /\ Magnitude(r) > Magnitude(q) /\ intent.price < a)
           => Magnitude(r) * b <= Magnitude(q) * a + n * intent.price
  BY <1>2, <1>4, <1>7, FillWorth
<1>9. Magnitude(r) * b \in Int /\ Magnitude(q) * a \in Int /\ n * intent.price \in Int
  BY <1>4 DEF Magnitude
<1> QED BY <1>3, <1>5, <1>6, <1>8, <1>9 DEF n, q, r, a

(* What the approval of a trade that is no reduction says of its group.     *)
LEMMA ApprovedExposure ==
  ASSUME TypeOK, NEW intent \in TradeIntent, IsApproved(intent, Snapshot, cfg),
         ~ReducesExistingPosition(intent, Snapshot), groups[intent.symbol] # NoGroup
  PROVE  ~Exceeds(GroupTotal(quantity, avg, groups[intent.symbol])
                    + intent.quantity * intent.price,
                  equity, cfg.maxCorrelatedExposurePct)
<1>1. /\ CheckPositionSize(intent, Snapshot, cfg) = {}
      /\ CheckCorrelatedExposure(intent, Snapshot, cfg) = {}
  BY DEF IsApproved, Evaluate
<1>2. Snapshot.equity = equity /\ Snapshot.groups = groups /\ equity \in Nat
  BY TradingAssumption DEF Snapshot, TypeOK
<1>3. equity > 0
  BY <1>1, <1>2 DEF CheckPositionSize
<1>4. GroupExposure(Snapshot.positions, groups, intent.symbol)
        = GroupTotal(quantity, avg, groups[intent.symbol])
  BY IntentType, SnapshotExposure
<1> QED BY <1>1, <1>2, <1>3, <1>4 DEF CheckCorrelatedExposure, Violated, Notional

(* Every trade leaves the exposure of its group within the limit, or no     *)
(* higher than it was, unless it grows a position below its entry price     *)
(* (check_correlated_exposure on the prices apply_position_delta records).  *)
THEOREM ExposureIsKept == Spec => ExposureKept
<1>1. TypeOK /\ TypeOK' =>
        \A intent \in TradeIntent :
          LET s     == intent.symbol
              grown == /\ quantity[s] * quantity'[s] > 0
                       /\ Magnitude(quantity'[s]) > Magnitude(quantity[s])
              before == GroupTotal(quantity, avg, groups[s])
              after  == GroupTotal(quantity', avg', groups[s])
          IN  Trade(intent) /\ groups[s] # NoGroup
                /\ ~(grown /\ intent.price < avg[s])
              => \/ after <= before
                 \/ ~Exceeds(after, equity, cfg.maxCorrelatedExposurePct)
  <2> SUFFICES
        ASSUME TypeOK, TypeOK', NEW intent \in TradeIntent, Trade(intent),
               groups[intent.symbol] # NoGroup,
               ~(/\ quantity[intent.symbol] * quantity'[intent.symbol] > 0
                 /\ Magnitude(quantity'[intent.symbol]) > Magnitude(quantity[intent.symbol])
                 /\ intent.price < avg[intent.symbol])
        PROVE  \/ GroupTotal(quantity', avg', groups[intent.symbol])
                    <= GroupTotal(quantity, avg, groups[intent.symbol])
               \/ ~Exceeds(GroupTotal(quantity', avg', groups[intent.symbol]),
                           equity, cfg.maxCorrelatedExposurePct)
    OBVIOUS
  <2> DEFINE s == intent.symbol
             before == GroupTotal(quantity, avg, groups[s])
             after  == GroupTotal(quantity', avg', groups[s])
             worth  == intent.quantity * intent.price
  <2>0. s \in Symbols /\ before \in Int /\ worth \in Int
    BY IntentType, SnapshotExposure
  <2>1. CASE quantity[s] + Delta(intent) = 0
    <3>1. quantity' = quantity /\ avg' = avg
      BY <2>1 DEF Trade, ApplyPositionDelta
    <3>2. after = before
      BY <3>1
    <3> HIDE DEF after, before
    <3>3. after <= before
      BY <3>2, <2>0
    <3> QED BY <3>3 DEF after, before
  <2>2. CASE quantity[s] + Delta(intent) # 0
    <3>1. /\ after \in Int
          /\ ReducesExistingPosition(intent, Snapshot) => after <= before
          /\ after <= before + worth
      BY <2>0, <2>2, TradeMovesExposure
    <3>2. CASE ReducesExistingPosition(intent, Snapshot)
      BY <3>1, <3>2
    <3>3. CASE ~ReducesExistingPosition(intent, Snapshot)
      <4>1. ~Exceeds(before + worth, equity, cfg.maxCorrelatedExposurePct)
        BY <3>3, ApprovedExposure DEF Trade
      <4>2. equity * cfg.maxCorrelatedExposurePct \in Int
        BY TradingAssumption DEF TypeOK, Config
      <4> HIDE DEF after, before, worth
      <4>3. ~Exceeds(after, equity, cfg.maxCorrelatedExposurePct)
        BY <4>1, <4>2, <3>1, <2>0 DEF Exceeds
      <4> QED BY <4>3 DEF after
    <3> QED BY <3>2, <3>3
  <2> QED BY <2>1, <2>2
<1>2. TypeOK /\ [Next]_vars => TypeOK'
  BY TypeStep
<1>3. Spec => []TypeOK
  BY TypeCorrect
<1> QED BY <1>1, <1>2, <1>3, PTL DEF Spec, ExposureKept
============================================================================
