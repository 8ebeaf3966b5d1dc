------------------------- MODULE AccountGateProofs -------------------------
(***************************************************************************)
(* Machine-checked proofs about the account gate, for any orders, symbols, *)
(* clients, limits, groupings and bounds.                                  *)
(***************************************************************************)
EXTENDS AccountGate, FiniteSetTheorems, TLAPS

(* What a request in progress carries, by its kind.                         *)
LEMMA RequestFields ==
  ASSUME NEW j \in Request
  PROVE  /\ j.op \in {"idle", "place_order", "evaluate_trade", "engage",
                      "release", "put_risk_config", "put_exchange_config"}
         /\ j.op = "place_order" =>
              j.order \in Orders /\ j.mode \in ExchangeMode /\ j.approved \in BOOLEAN
         /\ j.op = "evaluate_trade" => j.trips \in BOOLEAN
         /\ j.op \in {"engage", "release"} => j.engaged \in BOOLEAN
         /\ j.op = "put_risk_config" =>
              j.old \in Configs /\ j.version \in Nat /\ j.new \in Configs
         /\ j.op = "put_exchange_config" =>
              j.new \in ExchangeMode /\ j.version \in Nat
BY DEF Request, Idle

(* load_exchange_mode is paper or live.                                     *)
LEMMA LoadedMode == TypeOK => LoadExchangeMode \in ExchangeMode
BY DEF TypeOK, LoadExchangeMode, ExchangeMode

(* Verdicts are Booleans.                                                   *)
LEMMA Verdicts ==
  ASSUME NEW i, NEW sn, NEW l
  PROVE  IsApproved(i, sn, l) \in BOOLEAN
BY DEF IsApproved

(* A new request is well typed and takes the place of none.                 *)
LEMMA Started ==
  ASSUME TypeOK, NEW c \in Clients, NEW r \in Request, Start(c, r)
  PROVE  TypeOK'
BY DEF TypeOK, Start, accountVars, configVars, dayVars, orderVars, auditVars

(* Every step keeps the rows of the account and the requests well typed.    *)
LEMMA TypeStep == TypeOK /\ [Next]_vars => TypeOK'
<1> SUFFICES ASSUME TypeOK, [Next]_vars PROVE TypeOK'
  OBVIOUS
<1> USE GateAssumption
<1>0. ASSUME NEW c \in Clients
      PROVE  /\ job[c] \in Request
             /\ [job EXCEPT ![c] = Idle] \in [Clients -> Request]
  BY DEF TypeOK, Request
<1>1. ASSUME NEW c \in Clients, NEW o \in Orders, StartPlaceOrder(c, o)
      PROVE  TypeOK'
  <2> DEFINE r == [op |-> "place_order", order |-> o, mode |-> LoadExchangeMode,
                   approved |-> IsApproved(Intent(o), Snapshot, cfg)]
  <2>1. r \in Request
    <3>1. IsApproved(Intent(o), Snapshot, cfg) \in BOOLEAN
      BY Verdicts
    <3>2. LoadExchangeMode \in ExchangeMode
      BY LoadedMode
    <3>3. r \in [op : {"place_order"}, order : Orders, mode : ExchangeMode,
                 approved : BOOLEAN]
      BY <3>1, <3>2, Zenon
    <3> QED BY <3>3, Zenon DEF Request
  <2>2. Start(c, r)
    BY <1>1 DEF StartPlaceOrder
  <2> QED BY <2>1, <2>2, Started
<1>2. ASSUME NEW c \in Clients, PlaceOrder(c) PROVE TypeOK'
  <2>1. /\ orderMode' \in [Orders -> ExchangeMode \cup {NoRow}]
        /\ order' \in [Orders -> {NoOrder, "pending", "cancel_requested",
                                  "filled", "cancelled"}]
    BY <1>0, <1>2, RequestFields DEF PlaceOrder, TypeOK, orderVars
  <2> QED BY <1>0, <1>2, <2>1
      DEF PlaceOrder, TypeOK, Finish, accountVars, configVars, dayVars, auditVars
<1>3. ASSUME NEW c \in Clients, StartEvaluateTrade(c) PROVE TypeOK'
  <2> DEFINE r == [op |-> "evaluate_trade", trips |-> NewlyTrips(Snapshot)]
  <2>1. NewlyTrips(Snapshot) \in BOOLEAN
    BY DEF NewlyTrips
  <2>2. r \in Request
    <3>1. r \in [op : {"evaluate_trade"}, trips : BOOLEAN]
      BY <2>1, Zenon
    <3> QED BY <3>1, Zenon DEF Request
  <2> QED BY <1>3, <2>2, Started DEF StartEvaluateTrade
<1>4. ASSUME NEW c \in Clients, EvaluateTrade(c) PROVE TypeOK'
  <2>1. tripped' \subseteq Days /\ events' \in [EventType -> Nat]
    <3>1. CASE job[c].trips
      <4>1. /\ tripped' = tripped \cup {day}
            /\ events' = [events EXCEPT !["circuit_breaker_tripped"] = @ + 1]
        BY <1>4, <3>1 DEF EvaluateTrade, Audit
      <4> QED BY <4>1 DEF TypeOK, EventType
    <3>2. CASE ~job[c].trips
      BY <1>4, <3>2 DEF EvaluateTrade, TypeOK
    <3> QED BY <3>1, <3>2
  <2> QED BY <1>0, <1>4, <2>1
      DEF EvaluateTrade, TypeOK, Finish, accountVars, configVars, orderVars
<1>5. ASSUME NEW c \in Clients, StartEngage(c) \/ StartRelease(c) PROVE TypeOK'
  <2> DEFINE r(op) == [op |-> op, engaged |-> killed]
  <2>1. r("engage") \in Request /\ r("release") \in Request
    BY DEF TypeOK, Request
  <2>2. Start(c, r("engage")) \/ Start(c, r("release"))
    BY <1>5 DEF StartEngage, StartRelease
  <2> HIDE DEF r
  <2> QED BY <2>1, <2>2, Started
<1>6. ASSUME NEW c \in Clients, EngageKillSwitch(c) \/ ReleaseKillSwitch(c)
      PROVE  TypeOK'
  <2>1. events' \in [EventType -> Nat]
    BY <1>6 DEF EngageKillSwitch, ReleaseKillSwitch, TypeOK, Audit, EventType
  <2>2. killed' \in BOOLEAN /\ accountStatus' \in {"active", "killed"}
    BY <1>6 DEF EngageKillSwitch, ReleaseKillSwitch, TypeOK, ReleasedStatus
  <2>3. /\ UNCHANGED <<equity, configVars, dayVars, orderVars, configEvents>>
        /\ Finish(c)
    BY <1>6 DEF EngageKillSwitch, ReleaseKillSwitch
  <2> QED BY <1>0, <2>1, <2>2, <2>3
      DEF TypeOK, Finish, configVars, dayVars, orderVars
<1>7. ASSUME NEW c \in Clients, NEW new \in Configs, ReadRiskConfig(c, new)
      PROVE  TypeOK'
  <2>1. [op |-> "put_risk_config", old |-> cfg, version |-> version,
         new |-> new] \in Request
    BY DEF TypeOK, Request
  <2> QED BY <1>7, <2>1
      DEF ReadRiskConfig, TypeOK, accountVars, configVars, dayVars, orderVars,
          auditVars
<1>8. ASSUME NEW c \in Clients, PutRiskConfig(c) PROVE TypeOK'
  <2>1. /\ job[c].old \in Configs /\ job[c].version \in Nat
        /\ job[c].new \in Configs
    BY <1>0, <1>8, RequestFields DEF PutRiskConfig
  <2>2. /\ cfg' \in Configs /\ version' \in Nat
        /\ configEvents' \in Seq(Nat \X Configs \X Nat \X Configs)
    <3>1. CASE version = job[c].version
      <4> DEFINE entry == <<job[c].version, job[c].old, job[c].version + 1,
                            job[c].new>>
      <4>1. /\ cfg' = job[c].new /\ version' = job[c].version + 1
            /\ configEvents' = Append(configEvents, entry)
        BY <1>8, <3>1 DEF PutRiskConfig, WriteConfig
      <4>2. entry \in Nat \X Configs \X Nat \X Configs
        BY <2>1
      <4> HIDE DEF entry
      <4> QED BY <2>1, <4>1, <4>2 DEF TypeOK
    <3>2. CASE version # job[c].version
      BY <1>8, <3>2 DEF PutRiskConfig, TypeOK
    <3> QED BY <3>1, <3>2
  <2> QED BY <1>0, <1>8, <2>2
      DEF PutRiskConfig, TypeOK, Finish, accountVars, dayVars, orderVars
<1>9. ASSUME NEW c \in Clients, NEW new \in ExchangeMode,
             StartPutExchangeConfig(c, new)
      PROVE  TypeOK'
  <2> DEFINE r == [op |-> "put_exchange_config", new |-> new,
                   version |-> modeVersion]
  <2>1. r \in Request
    BY DEF TypeOK, Request
  <2>2. Start(c, r)
    BY <1>9 DEF StartPutExchangeConfig
  <2> HIDE DEF r
  <2> QED BY <2>1, <2>2, Started
<1>10. ASSUME NEW c \in Clients, PutExchangeConfig(c) PROVE TypeOK'
  <2>1. job[c].new \in ExchangeMode /\ job[c].version \in Nat
    BY <1>0, <1>10, RequestFields DEF PutExchangeConfig
  <2>2. mode' \in ExchangeMode \cup {NoRow} /\ modeVersion' \in Nat
    BY <1>10, <2>1 DEF PutExchangeConfig, TypeOK
  <2> QED BY <1>0, <1>10, <2>2
      DEF PutExchangeConfig, TypeOK, Finish, accountVars, dayVars, orderVars,
          auditVars
<1>11. CASE PutEquity
  BY <1>11 DEF PutEquity, TypeOK, configVars, dayVars, orderVars, auditVars
<1>12. CASE PutCorrelationGroups
  BY <1>12 DEF PutCorrelationGroups, TypeOK, accountVars, dayVars, orderVars,
               auditVars
<1>13. ASSUME NEW o \in Orders, WorkerMoves(o) PROVE TypeOK'
  BY <1>13 DEF WorkerMoves, TypeOK, accountVars, configVars, dayVars, auditVars
<1>14. CASE RealizeLoss
  BY <1>14 DEF RealizeLoss, TypeOK, accountVars, configVars, orderVars, auditVars
<1>15. CASE Midnight
  BY <1>15 DEF Midnight, TypeOK, accountVars, configVars, orderVars, auditVars
<1>16. CASE UNCHANGED vars
  BY <1>16 DEF vars, TypeOK, accountVars, configVars, dayVars, orderVars, auditVars
<1> QED BY <1>1, <1>2, <1>3, <1>4, <1>5, <1>6, <1>7, <1>8, <1>9, <1>10, <1>11,
           <1>12, <1>13, <1>14, <1>15, <1>16 DEF Next

(* The initial rows are well typed.                                         *)
LEMMA InitTyped == Init => TypeOK
<1> SUFFICES ASSUME Init PROVE TypeOK
  OBVIOUS
<1>1. job \in [Clients -> Request]
  BY DEF Init, Request
<1>2. /\ order \in [Orders -> {NoOrder, "pending", "cancel_requested",
                             "filled", "cancelled"}]
      /\ orderMode \in [Orders -> ExchangeMode \cup {NoRow}]
      /\ events \in [EventType -> Nat]
  BY DEF Init
<1>3. mode \in ExchangeMode \cup {NoRow} /\ modeVersion \in Nat
  BY DEF Init
<1>4. configEvents \in Seq(Nat \X Configs \X Nat \X Configs)
  BY DEF Init
<1> QED BY <1>1, <1>2, <1>3, <1>4, GateAssumption DEF Init, TypeOK

(* The rows and the requests in progress are well typed in every reachable  *)
(* state (the CHECKs of the migrations).                                    *)
THEOREM TypeCorrect == Spec => []TypeOK
BY InitTyped, TypeStep, PTL DEF Spec

---------------------------------------------------------------------------
(* What a request has read stays true until it commits *)

(* A breaker trips for today at the latest, and an order not yet placed has *)
(* no mode.                                                                 *)
Past == \A d \in tripped : d <= day
Unplaced == \A o \in Orders : order[o] = NoOrder => orderMode[o] = NoRow

Inv == TypeOK /\ RequestsAreCurrent /\ Past /\ Unplaced

(* What handlers read depends on the rows alone.                            *)
LEMMA SameRows ==
  ASSUME UNCHANGED <<accountVars, configVars, dayVars, orderVars>>
  PROVE  /\ Snapshot' = Snapshot
         /\ LoadExchangeMode' = LoadExchangeMode
         /\ HasOpenActivity' = HasOpenActivity
         /\ \A new : ForbidModeSwitch(new)' = ForbidModeSwitch(new)
<1>1. order' = order /\ mode' = mode /\ cfg' = cfg
  BY DEF orderVars, configVars
<1>2. \A s : Position(s)' = Position(s)
  BY <1>1 DEF Position
<1>3. Snapshot' = Snapshot
  BY <1>2 DEF Snapshot, Position, accountVars, configVars, dayVars, orderVars
<1>4. LoadExchangeMode' = LoadExchangeMode
  BY <1>1 DEF LoadExchangeMode
<1>5. HasOpenActivity' = HasOpenActivity
  BY <1>1 DEF HasOpenActivity, OpenOrders, Position
<1> QED BY <1>1, <1>3, <1>4, <1>5 DEF ForbidModeSwitch

(* A request that read under the lock is current, and the only one to hold  *)
(* the row.                                                                 *)
LEMMA StartedCurrent ==
  ASSUME Inv, NEW c \in Clients, NEW r \in Request, IsCurrent(r), Start(c, r)
  PROVE  RequestsAreCurrent' /\ Past' /\ Unplaced'
<1>1. /\ UNCHANGED <<accountVars, configVars, dayVars, orderVars>>
      /\ job' = [job EXCEPT ![c] = r]
      /\ \A d \in Clients : ~Holds(d)
  BY DEF Start, AccountFree
<1>2. \A d \in Clients : job'[d] = IF d = c THEN r ELSE job[d]
  BY <1>1 DEF Inv, TypeOK
<1>3. \A d \in Clients : Holds(d)' => d = c
  BY <1>1, <1>2 DEF Holds
<1>4. \A j \in Request : IsCurrent(j) => IsCurrent(j)'
  <2> SUFFICES ASSUME NEW j \in Request, IsCurrent(j) PROVE IsCurrent(j)'
    OBVIOUS
  <2>1. j.op = "place_order" => j.order \in Orders
    BY RequestFields
  <2> QED BY <1>1, <2>1, SameRows
      DEF IsCurrent, accountVars, configVars, dayVars, orderVars
<1>5. \A d \in Clients : job'[d] \in Request /\ IsCurrent(job'[d])
  BY <1>2 DEF Inv, TypeOK, RequestsAreCurrent
<1>6. \A d \in Clients : IsCurrent(job[d])'
  BY <1>4, <1>5
<1>7. Past' /\ Unplaced'
  BY <1>1 DEF Inv, Past, Unplaced, dayVars, orderVars
<1> QED BY <1>3, <1>6, <1>7 DEF RequestsAreCurrent

(* Where nobody holds the row, a config write is all a request has to fear. *)
LEMMA NobodyHolds ==
  ASSUME Inv, TypeOK', \A d \in Clients : ~Holds(d)',
         \A d \in Clients : job'[d] \in {Idle, job[d]},
         UNCHANGED <<cfg, version>> \/ version' = version + 1
  PROVE  RequestsAreCurrent'
<1> SUFFICES ASSUME NEW d \in Clients PROVE IsCurrent(job[d])'
  BY DEF RequestsAreCurrent
<1>1. job'[d].op \in {"idle", "put_risk_config"}
  BY DEF Holds
<1>2. CASE job'[d] = Idle
  BY <1>2 DEF IsCurrent, Idle
<1>3. CASE job'[d] = job[d] /\ job[d].op = "put_risk_config"
  <2>1. /\ job[d].version <= version
        /\ job[d].version = version => job[d].old = cfg
    BY <1>3 DEF Inv, RequestsAreCurrent, IsCurrent
  <2>2. job[d].version \in Nat /\ version \in Nat
    BY <1>3, RequestFields DEF Inv, TypeOK
  <2>3. /\ job[d].version <= version'
        /\ job[d].version = version' => job[d].old = cfg'
    BY <2>1, <2>2
  <2> QED BY <1>3, <2>3 DEF IsCurrent
<1>4. CASE job'[d] = job[d] /\ job[d].op = "idle"
  BY <1>4 DEF IsCurrent
<1> QED BY <1>1, <1>2, <1>3, <1>4

(* The one that holds the row is alone in that, and is idle when done.      *)
LEMMA Finished ==
  ASSUME Inv, NEW c \in Clients, Holds(c) \/ AccountFree, Finish(c)
  PROVE  /\ \A d \in Clients : ~Holds(d)'
         /\ \A d \in Clients : job'[d] \in {Idle, job[d]}
<1>1. \A d \in Clients : job'[d] = IF d = c THEN Idle ELSE job[d]
  BY DEF Finish, Inv, TypeOK
<1>2. \A d \in Clients \ {c} : ~Holds(d)
  BY DEF Inv, RequestsAreCurrent, AccountFree
<1> QED BY <1>1, <1>2 DEF Holds, Idle

(* Without a loss the breaker has no reason to trip: midnight takes nothing *)
(* from an approval.                                                        *)
LEMMA NewDayApproves ==
  ASSUME Inv, Midnight
  PROVE  /\ ~Snapshot'.tripped
         /\ ~CircuitBreakerShouldTrip(Snapshot, cfg)'
         /\ \A o \in Orders : IsApproved(Intent(o), Snapshot, cfg)
              => IsApproved(Intent(o), Snapshot, cfg)'
<1>1. /\ day' = day + 1 /\ loss' = 0
      /\ UNCHANGED <<equity, killed, cfg, groups, tripped, order>>
  BY DEF Midnight, accountVars, configVars, orderVars
<1>2. day \in Nat
  BY GateAssumption DEF Inv, TypeOK
<1>3. day' \notin tripped'
  BY <1>1, <1>2 DEF Inv, Past
<1>4. cfg \in Config /\ equity \in Nat
  BY GateAssumption DEF Inv, TypeOK
<1>5. cfg.dailyMaxLossPct \in Nat /\ cfg.dailyMaxLossPct > 0
  BY <1>4 DEF Config
<1> DEFINE now == Snapshot  soon == Snapshot'
<1>6. \A s : Position(s)' = Position(s)
  BY <1>1 DEF Position
<1>7. now.positions' = now.positions
  BY <1>6 DEF Snapshot
<1>8. /\ soon.equity = now.equity /\ now.equity = equity
      /\ soon.killSwitchEngaged = now.killSwitchEngaged
      /\ soon.groups = now.groups
      /\ soon.positions = now.positions
      /\ soon.loss = 0 /\ ~soon.tripped
  BY <1>1, <1>3, <1>7 DEF Snapshot
<1>9. ~CircuitBreakerShouldTrip(soon, cfg)
  <2>1. equity > 0 => equity * cfg.dailyMaxLossPct > 0
    BY <1>4, <1>5
  <2> HIDE DEF soon, now
  <2> QED BY <1>4, <1>5, <1>8, <2>1 DEF CircuitBreakerShouldTrip
<1>10. ASSUME NEW o \in Orders, IsApproved(Intent(o), now, cfg)
       PROVE  IsApproved(Intent(o), soon, cfg)
  <2> HIDE DEF soon, now
  <2>1. /\ CheckPositionSize(Intent(o), soon, cfg) = CheckPositionSize(Intent(o), now, cfg)
        /\ CheckConcurrentPositions(Intent(o), soon, cfg)
             = CheckConcurrentPositions(Intent(o), now, cfg)
        /\ CheckCorrelatedExposure(Intent(o), soon, cfg)
             = CheckCorrelatedExposure(Intent(o), now, cfg)
        /\ ReducesExistingPosition(Intent(o), soon)
             = ReducesExistingPosition(Intent(o), now)
    BY <1>8 DEF CheckPositionSize, CheckConcurrentPositions,
                CheckCorrelatedExposure, ReducesExistingPosition
  <2>2. ~Halted(soon, cfg)
    BY <1>8, <1>9 DEF Halted
  <2>3. Violated("circuit_breaker_tripped", Halted(soon, cfg)) = {}
    BY <2>2 DEF Violated
  <2> QED BY <1>8, <1>10, <2>1, <2>3 DEF IsApproved, Evaluate
<1> QED BY <1>1, <1>8, <1>9, <1>10

(* The rows a commit under the lock may change leave Past and Unplaced.     *)
LEMMA OthersKeepRows ==
  ASSUME Inv, UNCHANGED <<order, orderMode>>, UNCHANGED <<day, tripped>>
  PROVE  Past' /\ Unplaced'
BY DEF Inv, Past, Unplaced

(* Every step keeps all of it.                                              *)
LEMMA InvStep == Inv /\ [Next]_vars => Inv'
<1> SUFFICES ASSUME Inv, [Next]_vars PROVE Inv'
  OBVIOUS
<1> USE GateAssumption
<1>0. TypeOK'
  BY TypeStep DEF Inv
<1>1. ASSUME NEW c \in Clients, NEW o \in Orders, StartPlaceOrder(c, o)
      PROVE  Inv'
  <2> DEFINE r == [op |-> "place_order", order |-> o, mode |-> LoadExchangeMode,
                   approved |-> IsApproved(Intent(o), Snapshot, cfg)]
  <2>1. Start(c, r) /\ order[o] = NoOrder
    BY <1>1 DEF StartPlaceOrder
  <2>2. job'[c] = r
    BY <2>1 DEF Start, Inv, TypeOK
  <2>3. r \in Request
    BY <1>0, <2>2 DEF TypeOK
  <2>4. IsCurrent(r)
    BY <2>1 DEF IsCurrent
  <2> HIDE DEF r
  <2> QED BY <1>0, <2>1, <2>3, <2>4, StartedCurrent DEF Inv
<1>2. ASSUME NEW c \in Clients, PlaceOrder(c) PROVE Inv'
  <2>1. Holds(c) /\ Finish(c) /\ UNCHANGED <<cfg, version, day, tripped>>
    BY <1>2 DEF PlaceOrder, Holds, configVars, dayVars
  <2>2. RequestsAreCurrent'
    BY <1>0, <2>1, Finished, NobodyHolds
  <2>3. Past'
    BY <2>1 DEF Inv, Past
  <2>4. Unplaced'
    <3>1. job[c] \in Request
      BY DEF Inv, TypeOK
    <3>2. job[c].order \in Orders
      BY <1>2, <3>1, RequestFields DEF PlaceOrder
    <3> QED BY <1>2, <3>2 DEF PlaceOrder, Inv, Unplaced, TypeOK, NoOrder, orderVars
  <2> QED BY <1>0, <2>2, <2>3, <2>4 DEF Inv
<1>3. ASSUME NEW c \in Clients, StartEvaluateTrade(c) PROVE Inv'
  <2> DEFINE r == [op |-> "evaluate_trade", trips |-> NewlyTrips(Snapshot)]
  <2>1. Start(c, r)
    BY <1>3 DEF StartEvaluateTrade
  <2>2. job'[c] = r
    BY <2>1 DEF Start, Inv, TypeOK
  <2>3. r \in Request
    BY <1>0, <2>2 DEF TypeOK
  <2>4. IsCurrent(r)
    BY DEF IsCurrent, NewlyTrips, Snapshot
  <2> HIDE DEF r
  <2> QED BY <1>0, <2>1, <2>3, <2>4, StartedCurrent DEF Inv
<1>4. ASSUME NEW c \in Clients, EvaluateTrade(c) PROVE Inv'
  <2>1. /\ Holds(c) /\ Finish(c)
        /\ UNCHANGED <<cfg, version, day, order, orderMode>>
        /\ tripped' = tripped \/ tripped' = tripped \cup {day}
    BY <1>4 DEF EvaluateTrade, Holds, configVars, orderVars
  <2>2. RequestsAreCurrent'
    BY <1>0, <2>1, Finished, NobodyHolds
  <2>3. day \in Nat
    BY DEF Inv, TypeOK
  <2>4. Past' /\ Unplaced'
    BY <2>1, <2>3 DEF Inv, Past, Unplaced
  <2> QED BY <1>0, <2>2, <2>4 DEF Inv
<1>5. ASSUME NEW c \in Clients, StartEngage(c) \/ StartRelease(c) PROVE Inv'
  <2> DEFINE r(op) == [op |-> op, engaged |-> killed]
  <2>1. Start(c, r("engage")) \/ Start(c, r("release"))
    BY <1>5 DEF StartEngage, StartRelease
  <2>2. PICK op \in {"engage", "release"} : Start(c, r(op))
    BY <2>1
  <2>3. job'[c] = r(op)
    BY <2>2 DEF Start, Inv, TypeOK
  <2>4. r(op) \in Request
    BY <1>0, <2>3 DEF TypeOK
  <2>5. IsCurrent(r(op))
    BY DEF IsCurrent
  <2> HIDE DEF r
  <2> QED BY <1>0, <2>2, <2>4, <2>5, StartedCurrent DEF Inv
<1>6. ASSUME NEW c \in Clients, EngageKillSwitch(c) \/ ReleaseKillSwitch(c)
      PROVE  Inv'
  <2>1. /\ Holds(c) /\ Finish(c)
        /\ UNCHANGED <<cfg, version, day, tripped, order, orderMode>>
    BY <1>6 DEF EngageKillSwitch, ReleaseKillSwitch, Holds, configVars, dayVars,
                orderVars
  <2>2. RequestsAreCurrent'
    BY <1>0, <2>1, Finished, NobodyHolds
  <2> QED BY <1>0, <2>1, <2>2, OthersKeepRows DEF Inv
<1>7. ASSUME NEW c \in Clients, NEW new \in Configs, ReadRiskConfig(c, new)
      PROVE  Inv'
  <2> DEFINE r == [op |-> "put_risk_config", old |-> cfg, version |-> version,
                   new |-> new]
  <2>1. /\ UNCHANGED <<accountVars, configVars, dayVars, orderVars>>
        /\ \A d \in Clients : job'[d] = IF d = c THEN r ELSE job[d]
        /\ job[c] = Idle
    BY <1>7 DEF ReadRiskConfig, Inv, TypeOK
  <2>2. \A d \in Clients : Holds(d)' <=> Holds(d)
    BY <2>1 DEF Holds, Idle
  <2>3. IsCurrent(r)
    BY DEF IsCurrent, Inv, TypeOK
  <2>4. \A j \in Request : IsCurrent(j) => IsCurrent(j)'
    <3> SUFFICES ASSUME NEW j \in Request, IsCurrent(j) PROVE IsCurrent(j)'
      OBVIOUS
    <3>1. j.op = "place_order" => j.order \in Orders
      BY RequestFields
    <3> QED BY <2>1, <3>1, SameRows
        DEF IsCurrent, accountVars, configVars, dayVars, orderVars
  <2>5. r \in Request
    BY <1>0, <2>1 DEF TypeOK
  <2> HIDE DEF r
  <2>6. \A d \in Clients : job'[d] \in Request /\ IsCurrent(job'[d])
    BY <2>1, <2>3, <2>5 DEF Inv, TypeOK, RequestsAreCurrent
  <2>7. \A d \in Clients : IsCurrent(job[d])'
    BY <2>4, <2>6
  <2>8. RequestsAreCurrent'
    BY <2>2, <2>7 DEF Inv, RequestsAreCurrent
  <2>9. UNCHANGED <<order, orderMode>> /\ UNCHANGED <<day, tripped>>
    BY <2>1 DEF orderVars, dayVars
  <2> QED BY <1>0, <2>8, <2>9, OthersKeepRows DEF Inv
<1>8. ASSUME NEW c \in Clients, PutRiskConfig(c) PROVE Inv'
  <2>1. /\ AccountFree /\ Finish(c)
        /\ UNCHANGED <<cfg, version>> \/ version' = version + 1
        /\ UNCHANGED <<order, orderMode>> /\ UNCHANGED <<day, tripped>>
    BY <1>8 DEF PutRiskConfig, WriteConfig, dayVars, orderVars
  <2>2. RequestsAreCurrent'
    BY <1>0, <2>1, Finished, NobodyHolds
  <2> QED BY <1>0, <2>1, <2>2, OthersKeepRows DEF Inv
<1>9. ASSUME NEW c \in Clients, NEW new \in ExchangeMode,
             StartPutExchangeConfig(c, new)
      PROVE  Inv'
  <2> DEFINE r == [op |-> "put_exchange_config", new |-> new,
                   version |-> modeVersion]
  <2>1. Start(c, r) /\ ~ForbidModeSwitch(new)
    BY <1>9 DEF StartPutExchangeConfig, ForbidModeSwitch
  <2>2. job'[c] = r
    BY <2>1 DEF Start, Inv, TypeOK
  <2>3. r \in Request
    BY <1>0, <2>2 DEF TypeOK
  <2>4. IsCurrent(r)
    BY <2>1 DEF IsCurrent
  <2> HIDE DEF r
  <2> QED BY <1>0, <2>1, <2>3, <2>4, StartedCurrent DEF Inv
<1>10. ASSUME NEW c \in Clients, PutExchangeConfig(c) PROVE Inv'
  <2>1. /\ Holds(c) /\ Finish(c)
        /\ UNCHANGED <<cfg, version, day, tripped, order, orderMode>>
    BY <1>10 DEF PutExchangeConfig, Holds, dayVars, orderVars
  <2>2. RequestsAreCurrent'
    BY <1>0, <2>1, Finished, NobodyHolds
  <2> QED BY <1>0, <2>1, <2>2, OthersKeepRows DEF Inv
<1>11. CASE PutEquity \/ PutCorrelationGroups \/ RealizeLoss
  <2>1. /\ AccountFree /\ UNCHANGED job
        /\ UNCHANGED <<cfg, version, day, tripped, order, orderMode>>
    BY <1>11 DEF PutEquity, PutCorrelationGroups, RealizeLoss, configVars,
                 dayVars, orderVars
  <2>2. \A d \in Clients : ~Holds(d)'
    BY <2>1 DEF AccountFree, Holds
  <2>3. RequestsAreCurrent'
    BY <1>0, <2>1, <2>2, NobodyHolds
  <2> QED BY <1>0, <2>1, <2>3, OthersKeepRows DEF Inv
<1>12. ASSUME NEW o \in Orders, WorkerMoves(o) PROVE Inv'
  <2>1. /\ AccountFree /\ UNCHANGED job
        /\ UNCHANGED <<cfg, version, day, tripped>>
    BY <1>12 DEF WorkerMoves, configVars, dayVars
  <2>2. \A d \in Clients : ~Holds(d)'
    BY <2>1 DEF AccountFree, Holds
  <2>3. RequestsAreCurrent'
    BY <1>0, <2>1, <2>2, NobodyHolds
  <2>4. Past' /\ Unplaced'
    BY <1>12, <2>1 DEF WorkerMoves, Inv, TypeOK, Past, Unplaced, NoOrder
  <2> QED BY <1>0, <2>3, <2>4 DEF Inv
<1>13. CASE Midnight
  <2>1. /\ UNCHANGED <<job, killed, cfg, version, mode, modeVersion, tripped,
                       order, orderMode>>
        /\ day' = day + 1
    BY <1>13 DEF Midnight, accountVars, configVars, orderVars
  <2>2. day \in Nat /\ \A d \in tripped : d \in Nat
    BY DEF Inv, TypeOK
  <2>3. Past' /\ Unplaced'
    BY <2>1, <2>2 DEF Inv, Past, Unplaced
  <2>4. ASSUME NEW d \in Clients PROVE IsCurrent(job[d])'
    <3>1. IsCurrent(job[d]) /\ job[d] \in Request
      BY DEF Inv, RequestsAreCurrent, TypeOK
    <3>2. job[d].op = "place_order" => job[d].order \in Orders
      BY <3>1, RequestFields
    <3>3. day' \notin tripped'
      BY <2>1, <2>2 DEF Inv, Past
    <3>4. LoadExchangeMode' = LoadExchangeMode
      BY <2>1 DEF LoadExchangeMode
    <3>5. \A new : ForbidModeSwitch(new)' = ForbidModeSwitch(new)
      BY <2>1 DEF ForbidModeSwitch, HasOpenActivity, OpenOrders, Position
    <3> QED BY <1>13, <2>1, <3>1, <3>2, <3>3, <3>4, <3>5, NewDayApproves
        DEF IsCurrent
  <2>5. RequestsAreCurrent'
    BY <2>1, <2>4 DEF Inv, RequestsAreCurrent, Holds
  <2> QED BY <1>0, <2>3, <2>5 DEF Inv
<1>14. CASE UNCHANGED vars
  <2>1. /\ UNCHANGED <<accountVars, configVars, dayVars, orderVars>>
        /\ UNCHANGED job
        /\ UNCHANGED <<order, orderMode>> /\ UNCHANGED <<day, tripped>>
    BY <1>14 DEF vars, dayVars, orderVars
  <2>2. ASSUME NEW d \in Clients PROVE IsCurrent(job[d])'
    <3>1. IsCurrent(job[d]) /\ job[d] \in Request
      BY DEF Inv, RequestsAreCurrent, TypeOK
    <3>2. job[d].op = "place_order" => job[d].order \in Orders
      BY <3>1, RequestFields
    <3> QED BY <2>1, <3>1, <3>2, SameRows
        DEF IsCurrent, accountVars, configVars, dayVars, orderVars
  <2>3. RequestsAreCurrent'
    BY <2>1, <2>2 DEF Inv, RequestsAreCurrent, Holds
  <2> QED BY <1>0, <2>1, <2>3, OthersKeepRows DEF Inv
<1> QED BY <1>1, <1>2, <1>3, <1>4, <1>5, <1>6, <1>7, <1>8, <1>9, <1>10, <1>11,
           <1>12, <1>13, <1>14 DEF Next

(* At first nothing is under way.                                            *)
LEMMA InvInit == Init => Inv
<1> SUFFICES ASSUME Init PROVE Inv
  OBVIOUS
<1>1. TypeOK
  BY InitTyped
<1>2. RequestsAreCurrent
  BY DEF Init, RequestsAreCurrent, Holds, IsCurrent, Idle
<1>3. Past /\ Unplaced
  BY DEF Init, Past, Unplaced
<1> QED BY <1>1, <1>2, <1>3 DEF Inv

(* What a request has read under the account lock, or under a version, is   *)
(* still so when it commits (lock_account, put_risk_config).                *)
THEOREM RequestsStayCurrent == Spec => []RequestsAreCurrent
<1>1. Inv => RequestsAreCurrent
  BY DEF Inv
<1> QED BY <1>1, InvInit, InvStep, PTL DEF Spec

---------------------------------------------------------------------------
(* The decision of a placement *)

(* An order is committed on a verdict that holds at the commit (place_order *)
(* under lock_account).                                                     *)
THEOREM PlacementsWithinLimits == Spec => PlacedWithinLimits
<1> DEFINE Approved ==
      \A o \in Orders : order[o] = NoOrder /\ order'[o] # NoOrder
                          => IsApproved(Intent(o), Snapshot, cfg)
<1>1. Inv /\ [Next]_vars => [Approved]_vars
  <2> SUFFICES ASSUME Inv, Next, NEW o \in Orders, order[o] = NoOrder,
                      order'[o] # NoOrder
               PROVE  IsApproved(Intent(o), Snapshot, cfg)
    OBVIOUS
  <2>1. \/ \E c \in Clients : PlaceOrder(c)
        \/ \E p \in Orders : WorkerMoves(p)
    BY DEF Next, StartPlaceOrder, StartEvaluateTrade, EvaluateTrade, StartEngage,
           EngageKillSwitch, StartRelease, ReleaseKillSwitch, ReadRiskConfig,
           PutRiskConfig, StartPutExchangeConfig, PutExchangeConfig, PutEquity,
           PutCorrelationGroups, RealizeLoss, Midnight, Start, orderVars
  <2>2. ASSUME NEW p \in Orders, WorkerMoves(p) PROVE FALSE
    BY <2>2 DEF WorkerMoves, Inv, TypeOK, NoOrder
  <2>3. ASSUME NEW c \in Clients, PlaceOrder(c)
        PROVE  IsApproved(Intent(o), Snapshot, cfg)
    <3>1. job[c].approved /\ job[c].order = o
      BY <2>3 DEF PlaceOrder, Inv, TypeOK, orderVars
    <3> QED BY <2>3, <3>1 DEF PlaceOrder, Inv, RequestsAreCurrent, IsCurrent
  <2> QED BY <2>1, <2>2, <2>3
<1> QED BY <1>1, InvInit, InvStep, PTL DEF Spec, PlacedWithinLimits

---------------------------------------------------------------------------
(* The audit trail *)

(* A step that is not of the kill switch leaves the row and its two kinds   *)
(* of entry.                                                                *)
LEMMA KillSwitchStep ==
  Inv /\ KillSwitchAudited /\ [Next]_vars => KillSwitchAudited'
<1> SUFFICES ASSUME Inv, KillSwitchAudited, [Next]_vars
             PROVE  KillSwitchAudited'
  OBVIOUS
<1> DEFINE Kept == /\ UNCHANGED <<killed, accountStatus>>
                   /\ events'["kill_switch_engaged"] = events["kill_switch_engaged"]
                   /\ events'["kill_switch_released"] = events["kill_switch_released"]
<1>1. Kept => KillSwitchAudited'
  BY DEF KillSwitchAudited
<1>2. ASSUME NEW c \in Clients, EngageKillSwitch(c) PROVE KillSwitchAudited'
  <2>1. job[c].engaged = killed
    BY <1>2 DEF EngageKillSwitch, Inv, RequestsAreCurrent, IsCurrent
  <2>2. CASE killed
    BY <1>1, <1>2, <2>1, <2>2 DEF EngageKillSwitch
  <2>3. CASE ~killed
    <3>1. /\ killed' = TRUE /\ accountStatus' = "killed"
          /\ events' = [events EXCEPT !["kill_switch_engaged"] = @ + 1]
      BY <1>2, <2>1, <2>3 DEF EngageKillSwitch, Audit
    <3>2. /\ events'["kill_switch_engaged"] = events["kill_switch_engaged"] + 1
          /\ events'["kill_switch_released"] = events["kill_switch_released"]
          /\ events["kill_switch_engaged"] \in Nat
          /\ events["kill_switch_released"] \in Nat
      BY <3>1 DEF Inv, TypeOK, EventType
    <3> QED BY <2>3, <3>1, <3>2 DEF KillSwitchAudited
  <2> QED BY <2>2, <2>3
<1>3. ASSUME NEW c \in Clients, ReleaseKillSwitch(c) PROVE KillSwitchAudited'
  <2>1. job[c].engaged = killed /\ killed \in BOOLEAN
    BY <1>3 DEF ReleaseKillSwitch, Inv, RequestsAreCurrent, IsCurrent, TypeOK
  <2>2. CASE ~killed
    BY <1>1, <1>3, <2>1, <2>2 DEF ReleaseKillSwitch
  <2>3. CASE killed
    <3>1. /\ killed' = FALSE /\ accountStatus' = "active"
          /\ events' = [events EXCEPT !["kill_switch_released"] = @ + 1]
      BY <1>3, <2>1, <2>3 DEF ReleaseKillSwitch, ReleasedStatus, Audit
    <3>2. /\ events'["kill_switch_engaged"] = events["kill_switch_engaged"]
          /\ events'["kill_switch_released"] = events["kill_switch_released"] + 1
          /\ events["kill_switch_engaged"] \in Nat
          /\ events["kill_switch_released"] \in Nat
      BY <3>1 DEF Inv, TypeOK, EventType
    <3> QED BY <2>3, <3>1, <3>2 DEF KillSwitchAudited
  <2> QED BY <2>2, <2>3
<1>4. ASSUME NEW c \in Clients, EvaluateTrade(c) PROVE KillSwitchAudited'
  <2>1. /\ events' \in {events, [events EXCEPT !["circuit_breaker_tripped"] = @ + 1]}
        /\ UNCHANGED <<killed, accountStatus>>
    BY <1>4 DEF EvaluateTrade, Audit, accountVars
  <2> QED BY <1>1, <2>1 DEF Inv, TypeOK, EventType
<1>5. ASSUME NEW c \in Clients, NEW o \in Orders,
             StartPlaceOrder(c, o) \/ PlaceOrder(c)
      PROVE  Kept
  BY <1>5 DEF StartPlaceOrder, PlaceOrder, Start, accountVars, auditVars
<1>6. ASSUME NEW c \in Clients,
             \/ StartEvaluateTrade(c) \/ StartEngage(c) \/ StartRelease(c)
             \/ PutRiskConfig(c) \/ PutExchangeConfig(c) \/ PlaceOrder(c)
      PROVE  Kept
  BY <1>6 DEF StartEvaluateTrade, StartEngage, StartRelease, PutRiskConfig,
              PutExchangeConfig, PlaceOrder, Start, accountVars, auditVars
<1>7. ASSUME NEW c \in Clients, NEW new,
             ReadRiskConfig(c, new) \/ StartPutExchangeConfig(c, new)
      PROVE  Kept
  BY <1>7 DEF ReadRiskConfig, StartPutExchangeConfig, Start, accountVars, auditVars
<1>8. CASE \/ PutEquity \/ PutCorrelationGroups \/ RealizeLoss \/ Midnight
           \/ \E o \in Orders : WorkerMoves(o)
  BY <1>1, <1>8 DEF PutEquity, PutCorrelationGroups, RealizeLoss, Midnight,
                    WorkerMoves, accountVars, auditVars
<1>9. CASE UNCHANGED vars
  BY <1>1, <1>9 DEF vars, accountVars, auditVars
<1> HIDE DEF Kept
<1> QED BY <1>1, <1>2, <1>3, <1>4, <1>5, <1>6, <1>7, <1>8, <1>9 DEF Next

(* The audit trail tells whether the switch is engaged (engage_kill_switch, *)
(* release_kill_switch).                                                    *)
THEOREM KillSwitchIsAudited == Spec => []KillSwitchAudited
<1>1. Init => KillSwitchAudited
  BY DEF Init, KillSwitchAudited, EventType
<1> QED BY <1>1, InvInit, InvStep, KillSwitchStep, PTL DEF Spec

(* A trip is counted with the day it is stored on.                          *)
LEMMA TripStep ==
  Inv /\ IsFiniteSet(tripped) /\ TripsAudited /\ [Next]_vars
    => IsFiniteSet(tripped)' /\ TripsAudited'
<1> SUFFICES ASSUME Inv, IsFiniteSet(tripped), TripsAudited, [Next]_vars
             PROVE  IsFiniteSet(tripped)' /\ TripsAudited'
  OBVIOUS
<1> DEFINE Trips == "circuit_breaker_tripped"
           Kept  == tripped' = tripped /\ events'[Trips] = events[Trips]
<1>1. Kept => IsFiniteSet(tripped)' /\ TripsAudited'
  BY DEF TripsAudited
<1>2. ASSUME NEW c \in Clients, EvaluateTrade(c), ~job[c].trips PROVE Kept
  BY <1>2 DEF EvaluateTrade
<1>3. ASSUME NEW c \in Clients, EvaluateTrade(c), job[c].trips
      PROVE  IsFiniteSet(tripped)' /\ TripsAudited'
  <2>1. /\ tripped' = tripped \cup {day}
        /\ events' = [events EXCEPT ![Trips] = @ + 1]
    BY <1>3 DEF EvaluateTrade, Audit
  <2>2. day \notin tripped
    BY <1>3 DEF EvaluateTrade, Inv, RequestsAreCurrent, IsCurrent
  <2>3. /\ IsFiniteSet(tripped')
        /\ Cardinality(tripped') = Cardinality(tripped) + 1
    BY <2>1, <2>2, FS_AddElement
  <2>4. events'[Trips] = events[Trips] + 1
    BY <2>1 DEF Inv, TypeOK, EventType
  <2> QED BY <2>3, <2>4 DEF TripsAudited
<1>4. ASSUME NEW c \in Clients, EngageKillSwitch(c) \/ ReleaseKillSwitch(c)
      PROVE  Kept
  BY <1>4 DEF EngageKillSwitch, ReleaseKillSwitch, Audit, dayVars, Inv, TypeOK,
              EventType
<1>5. ASSUME NEW c \in Clients, NEW o \in Orders, StartPlaceOrder(c, o)
      PROVE  Kept
  BY <1>5 DEF StartPlaceOrder, Start, dayVars, auditVars
<1>6. ASSUME NEW c \in Clients,
             \/ StartEvaluateTrade(c) \/ StartEngage(c) \/ StartRelease(c)
             \/ PutRiskConfig(c) \/ PutExchangeConfig(c) \/ PlaceOrder(c)
      PROVE  Kept
  BY <1>6 DEF StartEvaluateTrade, StartEngage, StartRelease, PutRiskConfig,
              PutExchangeConfig, PlaceOrder, Start, dayVars, auditVars
<1>7. ASSUME NEW c \in Clients, NEW new,
             ReadRiskConfig(c, new) \/ StartPutExchangeConfig(c, new)
      PROVE  Kept
  BY <1>7 DEF ReadRiskConfig, StartPutExchangeConfig, Start, dayVars, auditVars
<1>8. CASE \/ PutEquity \/ PutCorrelationGroups \/ RealizeLoss \/ Midnight
           \/ \E o \in Orders : WorkerMoves(o)
  BY <1>1, <1>8 DEF PutEquity, PutCorrelationGroups, RealizeLoss, Midnight,
                    WorkerMoves, dayVars, auditVars
<1>9. CASE UNCHANGED vars
  BY <1>1, <1>9 DEF vars, dayVars, auditVars
<1> HIDE DEF Kept
<1> QED BY <1>1, <1>2, <1>3, <1>4, <1>5, <1>6, <1>7, <1>8, <1>9 DEF Next

(* One audit entry for each day with a trip (evaluate_trade).               *)
THEOREM TripsAreAudited == Spec => []TripsAudited
<1>1. Init => IsFiniteSet(tripped) /\ TripsAudited
  BY FS_EmptySet DEF Init, TripsAudited, EventType
<1> QED BY <1>1, InvInit, InvStep, TripStep, PTL DEF Spec

(* A config write that finds its version unchanged appends the next link.   *)
LEMMA ChainStep == Inv /\ ConfigChain /\ [Next]_vars => ConfigChain'
<1> SUFFICES ASSUME Inv, ConfigChain, [Next]_vars PROVE ConfigChain'
  OBVIOUS
<1> DEFINE Kept == UNCHANGED <<cfg, version, configEvents>>
<1>1. Kept => ConfigChain'
  BY DEF ConfigChain
<1>2. ASSUME NEW c \in Clients, PutRiskConfig(c), version # job[c].version
      PROVE  Kept
  BY <1>2 DEF PutRiskConfig
<1>3. ASSUME NEW c \in Clients, PutRiskConfig(c), version = job[c].version
      PROVE  ConfigChain'
  <2> DEFINE entry == <<version, cfg, version + 1, job[c].new>>
             n == Len(configEvents)
  <2>1. job[c].old = cfg
    BY <1>3 DEF PutRiskConfig, Inv, RequestsAreCurrent, IsCurrent
  <2>2. /\ cfg' = job[c].new /\ version' = version + 1
        /\ configEvents' = Append(configEvents, entry)
    BY <1>3, <2>1 DEF PutRiskConfig, WriteConfig
  <2>3. configEvents \in Seq(Nat \X Configs \X Nat \X Configs)
    BY DEF Inv, TypeOK
  <2> HIDE DEF entry
  <2>4. /\ n \in Nat /\ Len(configEvents') = n + 1
        /\ configEvents'[n + 1] = entry
        /\ \A i \in 1 .. n : configEvents'[i] = configEvents[i]
    BY <2>2, <2>3
  <2>5. /\ entry[1] = version /\ entry[2] = cfg
        /\ entry[3] = version' /\ entry[4] = cfg'
    BY <2>2 DEF entry
  <2>6. /\ \A i \in 1 .. n :
             <<configEvents[i][1], configEvents[i][2]>>
               = IF i - 1 = 0 THEN <<1, InitialConfig>>
                 ELSE <<configEvents[i - 1][3], configEvents[i - 1][4]>>
        /\ <<version, cfg>>
             = IF n = 0 THEN <<1, InitialConfig>>
               ELSE <<configEvents[n][3], configEvents[n][4]>>
    BY Zenon DEF ConfigChain
  <2> HIDE DEF n
  <2>7. ASSUME NEW i \in 1 .. (n + 1)
        PROVE  <<configEvents'[i][1], configEvents'[i][2]>>
                 = IF i - 1 = 0 THEN <<1, InitialConfig>>
                   ELSE <<configEvents'[i - 1][3], configEvents'[i - 1][4]>>
    <3>1. CASE i = n + 1
      <4>1. i - 1 = n /\ (n # 0 => n \in 1 .. n)
        BY <2>4, <3>1
      <4> QED BY <2>4, <2>5, <2>6, <3>1, <4>1
    <3>2. CASE i \in 1 .. n
      <4>1. i - 1 # 0 => i - 1 \in 1 .. n
        BY <2>4, <3>2
      <4> QED BY <2>4, <2>6, <3>2, <4>1
    <3> QED BY <2>4, <3>1, <3>2
  <2>8. <<version', cfg'>>
          = <<configEvents'[n + 1][3], configEvents'[n + 1][4]>>
    BY <2>4, <2>5
  <2>9. n + 1 # 0
    BY <2>4
  <2> QED BY <2>4, <2>7, <2>8, <2>9 DEF ConfigChain
<1>4. ASSUME NEW c \in Clients, NEW o \in Orders, StartPlaceOrder(c, o)
      PROVE  Kept
  BY <1>4 DEF StartPlaceOrder, Start, configVars, auditVars
<1>5. ASSUME NEW c \in Clients,
             \/ StartEvaluateTrade(c) \/ StartEngage(c) \/ StartRelease(c)
             \/ EngageKillSwitch(c) \/ ReleaseKillSwitch(c) \/ EvaluateTrade(c)
             \/ PutExchangeConfig(c) \/ PlaceOrder(c)
      PROVE  Kept
  BY <1>5 DEF StartEvaluateTrade, StartEngage, StartRelease, EngageKillSwitch,
              ReleaseKillSwitch, EvaluateTrade, PutExchangeConfig, PlaceOrder,
              Start, configVars, auditVars
<1>6. ASSUME NEW c \in Clients, NEW new,
             ReadRiskConfig(c, new) \/ StartPutExchangeConfig(c, new)
      PROVE  Kept
  BY <1>6 DEF ReadRiskConfig, StartPutExchangeConfig, Start, configVars, auditVars
<1>7. CASE \/ PutEquity \/ PutCorrelationGroups \/ RealizeLoss \/ Midnight
           \/ \E o \in Orders : WorkerMoves(o)
  BY <1>1, <1>7 DEF PutEquity, PutCorrelationGroups, RealizeLoss, Midnight,
                    WorkerMoves, configVars, auditVars
<1>8. CASE UNCHANGED vars
  BY <1>1, <1>8 DEF vars, configVars, auditVars
<1> HIDE DEF Kept
<1> QED BY <1>1, <1>2, <1>3, <1>4, <1>5, <1>6, <1>7, <1>8 DEF Next

(* The audited changes lead from the first config to the present one        *)
(* (put_risk_config).                                                       *)
THEOREM ConfigChanges == Spec => []ConfigChain
<1>1. Init => ConfigChain
  <2> SUFFICES ASSUME Init PROVE ConfigChain
    OBVIOUS
  <2>1. Len(configEvents) = 0 /\ version = 1 /\ cfg = InitialConfig
    BY DEF Init
  <2> QED BY <2>1 DEF ConfigChain
<1> QED BY <1>1, InvInit, InvStep, ChainStep, PTL DEF Spec

---------------------------------------------------------------------------
(* The exchange mode and what was opened in it *)

(* The symbols' positions are counts of filled orders.                      *)
LEMMA PositionCounts ==
  ASSUME NEW s
  PROVE  /\ IsFiniteSet({o \in Orders : order[o] = "filled" /\ Symbol[o] = s})
         /\ Position(s) \in Nat
         /\ ~(Position(s) > 0) =>
              \A o \in Orders : ~(order[o] = "filled" /\ Symbol[o] = s)
<1> DEFINE F == {o \in Orders : order[o] = "filled" /\ Symbol[o] = s}
<1>1. IsFiniteSet(F)
  BY GateAssumption, FS_Subset
<1>2. Cardinality(F) \in Nat /\ (Cardinality(F) = 0 <=> F = {})
  BY <1>1, FS_CardinalityType, FS_EmptySet
<1> QED BY <1>1, <1>2 DEF Position

(* A flat account has nothing open and nothing filled.                      *)
LEMMA FlatMeansEnded ==
  ASSUME ~HasOpenActivity, NEW o \in Orders
  PROVE  order[o] \notin {"pending", "cancel_requested", "filled"}
<1>1. order[o] \notin {"pending", "cancel_requested"}
  BY DEF HasOpenActivity, OpenOrders
<1>2. Symbol[o] \in Symbols
  BY GateAssumption
<1>3. order[o] # "filled"
  BY <1>2, PositionCounts DEF HasOpenActivity
<1> QED BY <1>1, <1>3

(* Only the first PUT strands an order or a position.                       *)
LEMMA ModeStep ==
  ASSUME Inv, [Next]_vars, NEW p \in Orders, ~Stranded(p), Stranded(p)'
  PROVE  mode = NoRow /\ mode' = "live" /\ orderMode[p] = "paper"
<1> DEFINE Kept == UNCHANGED <<mode, order, orderMode>>
<1> DEFINE Goal == mode = NoRow /\ mode' = "live" /\ orderMode[p] = "paper"
<1>1. ~Kept
  BY DEF Stranded, LoadExchangeMode
<1>2. ASSUME NEW c \in Clients, PlaceOrder(c) PROVE FALSE
  <2>1. CASE job[c].approved
    <3>1. /\ order' = [order EXCEPT ![job[c].order] = "pending"]
          /\ orderMode' = [orderMode EXCEPT ![job[c].order] = job[c].mode]
          /\ mode' = mode
      BY <1>2, <2>1 DEF PlaceOrder, configVars
    <3>2. job[c].mode = LoadExchangeMode
      BY <1>2 DEF PlaceOrder, Inv, RequestsAreCurrent, IsCurrent
    <3> QED BY <3>1, <3>2 DEF Stranded, LoadExchangeMode, Inv, TypeOK
  <2>2. CASE ~job[c].approved
    BY <1>1, <1>2, <2>2 DEF PlaceOrder, configVars, orderVars
  <2> QED BY <2>1, <2>2
<1>3. ASSUME NEW c \in Clients, PutExchangeConfig(c) PROVE Goal
  <2>1. UNCHANGED <<order, orderMode>> /\ mode' # mode
    BY <1>1, <1>3 DEF PutExchangeConfig, orderVars
  <2>2. mode' = job[c].new /\ ~ForbidModeSwitch(job[c].new)
    BY <1>3, <2>1 DEF PutExchangeConfig
  <2>3. mode' \in ExchangeMode
    BY <1>3, <2>2, RequestFields DEF PutExchangeConfig, Inv, TypeOK
  <2>4. order[p] \in {"pending", "cancel_requested", "filled"}
    BY <2>1 DEF Stranded
  <2>5. mode = NoRow
    BY <2>1, <2>2, <2>4, FlatMeansEnded DEF ForbidModeSwitch
  <2>6. orderMode[p] = "paper"
    BY <2>4, <2>5 DEF Stranded, LoadExchangeMode
  <2>7. mode' # "paper"
    BY <2>1, <2>6 DEF Stranded, LoadExchangeMode
  <2> QED BY <2>3, <2>5, <2>6, <2>7 DEF ExchangeMode
<1>4. ASSUME NEW o \in Orders, WorkerMoves(o) PROVE FALSE
  <2>1. PICK st \in {"filled", "cancel_requested", "cancelled"} :
          order' = [order EXCEPT ![o] = st]
    BY <1>4 DEF WorkerMoves
  <2>2. UNCHANGED <<mode, orderMode>> /\ order[o] \in {"pending", "cancel_requested"}
    BY <1>4 DEF WorkerMoves, configVars
  <2> QED BY <2>1, <2>2 DEF Stranded, LoadExchangeMode, Inv, TypeOK
<1>5. ASSUME NEW c \in Clients, NEW o \in Orders, StartPlaceOrder(c, o)
      PROVE  Kept
  BY <1>5 DEF StartPlaceOrder, Start, configVars, orderVars
<1>6. ASSUME NEW c \in Clients,
             \/ StartEvaluateTrade(c) \/ StartEngage(c) \/ StartRelease(c)
             \/ EngageKillSwitch(c) \/ ReleaseKillSwitch(c) \/ EvaluateTrade(c)
             \/ PutRiskConfig(c)
      PROVE  Kept
  BY <1>6 DEF StartEvaluateTrade, StartEngage, StartRelease, EngageKillSwitch,
              ReleaseKillSwitch, EvaluateTrade, PutRiskConfig, Start, configVars,
              orderVars
<1>7. ASSUME NEW c \in Clients, NEW new,
             ReadRiskConfig(c, new) \/ StartPutExchangeConfig(c, new)
      PROVE  Kept
  BY <1>7 DEF ReadRiskConfig, StartPutExchangeConfig, Start, configVars, orderVars
<1>8. ASSUME PutEquity \/ PutCorrelationGroups \/ RealizeLoss \/ Midnight
      PROVE  Kept
  BY <1>8 DEF PutEquity, PutCorrelationGroups, RealizeLoss, Midnight, configVars,
              orderVars
<1>9. ASSUME UNCHANGED vars PROVE Kept
  BY <1>9 DEF vars, configVars, orderVars
<1> HIDE DEF Kept
<1> QED BY <1>1, <1>2, <1>3, <1>4, <1>5, <1>6, <1>7, <1>8, <1>9 DEF Next

(* Whatever is on the exchange the account has turned away from was traded  *)
(* on paper before the account's first exchange config and left there by    *)
(* the PUT that made it live (put_exchange_config, the trigger of migration *)
(* 0008).                                                                   *)
THEOREM OneMode == Spec => OnlyFirstPutStrands
<1>1. Inv /\ [Next]_vars =>
        [\A o \in Orders : ~Stranded(o) /\ Stranded(o)' =>
           mode = NoRow /\ mode' = "live" /\ orderMode[o] = "paper"]_vars
  BY ModeStep
<1> QED BY <1>1, InvInit, InvStep, PTL DEF Spec, OnlyFirstPutStrands

---------------------------------------------------------------------------
(* The handlers implement the rules *)

(* The account of the rules is the snapshot the handlers load.              *)
LEMMA SameAccount ==
  /\ Rules!Account = Snapshot
  /\ \A o : Rules!Intent(o) = Intent(o)
  /\ Rules!Due = CircuitBreakerShouldTrip(Snapshot, cfg)
<1> DEFINE holding == [s \in Symbols |-> Position(s)]
<1>1. {x \in Symbols : holding[x] > 0} = {x \in Symbols : Position(x) > 0}
  OBVIOUS
<1>2. \A s \in Symbols : holding[s] = Position(s)
  OBVIOUS
<1>3. Rules!Account = Snapshot
  BY <1>1, <1>2 DEF Rules!Account, Snapshot
<1> QED BY <1>3 DEF Rules!Intent, Intent, Rules!Due

(* Nobody under the lock, no trip owed.                                     *)
LEMMA NotOwed ==
  /\ AccountFree => TripOwed = FALSE
  /\ (\A d \in Clients : ~Holds(d)') => TripOwed' = FALSE
BY DEF AccountFree, Holds, TripOwed

(* While a request other than an evaluation holds the row, none is owed.    *)
LEMMA NotOwedWhileHeld ==
  ASSUME Inv, NEW c \in Clients, Holds(c),
         ~(job[c].op = "evaluate_trade" /\ job[c].trips)
  PROVE  TripOwed = FALSE
BY DEF Inv, RequestsAreCurrent, TripOwed, Holds

(* Orders that stay as they are make the same working set and positions.    *)
LEMMA SameOrders ==
  ASSUME UNCHANGED order
  PROVE  /\ OpenOrders' = OpenOrders
         /\ [s \in Symbols |-> Position(s)]' = [s \in Symbols |-> Position(s)]
<1>1. \A s : Position(s)' = Position(s)
  BY DEF Position
<1> QED BY <1>1 DEF OpenOrders

(* A step that leaves what the rules see is a stutter of theirs.            *)
LEMMA RulesStutter ==
  ASSUME UNCHANGED <<equity, loss, killed, day, tripped, cfg, groups, mode,
                     order, orderMode>>,
         TripOwed' = TripOwed
  PROVE  UNCHANGED Rules!rules
<1>1. LoadExchangeMode' = LoadExchangeMode
  BY DEF LoadExchangeMode
<1> QED BY <1>1, SameOrders DEF Rules!rules

(* Opening a transaction shows in nothing.                                  *)
LEMMA StartStutters ==
  ASSUME Inv, NEW c \in Clients, NEW r, Start(c, r),
         r.op = "evaluate_trade" /\ r.trips
           => CircuitBreakerShouldTrip(Snapshot, cfg)
  PROVE  UNCHANGED Rules!rules
<1>1. /\ AccountFree
      /\ UNCHANGED <<accountVars, configVars, dayVars, orderVars>>
      /\ \A d \in Clients : job'[d] = IF d = c THEN r ELSE job[d]
  BY DEF Start, Inv, TypeOK
<1>2. TripOwed = FALSE
  BY <1>1, NotOwed
<1>3. CircuitBreakerShouldTrip(Snapshot, cfg)' = CircuitBreakerShouldTrip(Snapshot, cfg)
  BY <1>1, SameRows DEF configVars
<1>4. TripOwed' = FALSE
  BY <1>1, <1>3 DEF TripOwed, AccountFree, Holds
<1> QED BY <1>1, <1>2, <1>4, RulesStutter
    DEF accountVars, configVars, dayVars, orderVars

(* A placement is a Place, or nothing.                                      *)
LEMMA PlaceOrderRefines ==
  ASSUME Inv, NEW c \in Clients, PlaceOrder(c)
  PROVE  (\E o \in Orders : Rules!Place(o)) \/ UNCHANGED Rules!rules
<1>1. /\ Holds(c) /\ Finish(c) /\ job[c].op = "place_order"
      /\ UNCHANGED <<equity, loss, killed, day, tripped, cfg, groups, mode>>
  BY DEF PlaceOrder, Holds, accountVars, configVars, dayVars
<1>2. TripOwed = FALSE /\ TripOwed' = FALSE
  BY <1>1, NotOwedWhileHeld, Finished, NotOwed
<1>3. job[c].order \in Orders /\ IsCurrent(job[c])
  BY <1>1, RequestFields DEF Inv, TypeOK, RequestsAreCurrent
<1>4. CASE ~job[c].approved
  BY <1>1, <1>2, <1>4, RulesStutter DEF PlaceOrder, orderVars
<1>5. CASE job[c].approved
  <2> DEFINE o == job[c].order
  <2>1. /\ order' = [order EXCEPT ![o] = "pending"]
        /\ orderMode' = [orderMode EXCEPT ![o] = job[c].mode]
    BY <1>5 DEF PlaceOrder
  <2>2. /\ order[o] = NoOrder
        /\ job[c].mode = LoadExchangeMode
        /\ IsApproved(Intent(o), Snapshot, cfg)
    BY <1>1, <1>3, <1>5 DEF IsCurrent
  <2>3. /\ orderMode[o] = NoRow
        /\ orderMode' = [orderMode EXCEPT ![o] = LoadExchangeMode]
    BY <1>3, <2>1, <2>2 DEF Inv, Unplaced
  <2>4. \A p \in Orders : order'[p] = IF p = o THEN "pending" ELSE order[p]
    BY <1>3, <2>1 DEF Inv, TypeOK
  <2>5. OpenOrders' = OpenOrders \cup {o}
    BY <1>3, <2>4 DEF OpenOrders
  <2>6. \A s : Position(s)' = Position(s)
    <3> SUFFICES ASSUME NEW s PROVE Position(s)' = Position(s)
      OBVIOUS
    <3>1. {p \in Orders : order'[p] = "filled" /\ Symbol[p] = s}
            = {p \in Orders : order[p] = "filled" /\ Symbol[p] = s}
      BY <2>2, <2>4 DEF NoOrder
    <3> QED BY <3>1 DEF Position
  <2>7. LoadExchangeMode' = LoadExchangeMode
    BY <1>1 DEF LoadExchangeMode
  <2>8. IsApproved(Rules!Intent(o), Rules!Account, cfg)
    BY <2>2, SameAccount
  <2> HIDE DEF o
  <2>9. Rules!Place(o)
    BY <1>1, <1>2, <2>3, <2>5, <2>6, <2>7, <2>8 DEF Rules!Place
  <2> QED BY <1>3, <2>9 DEF o
<1> QED BY <1>4, <1>5

(* An evaluation is a Trip, or nothing.                                     *)
LEMMA EvaluateTradeRefines ==
  ASSUME Inv, NEW c \in Clients, EvaluateTrade(c)
  PROVE  Rules!Trip \/ UNCHANGED Rules!rules
<1>1. /\ Holds(c) /\ Finish(c) /\ job[c].op = "evaluate_trade"
      /\ UNCHANGED <<equity, loss, killed, day, cfg, groups, mode, order,
                     orderMode>>
  BY DEF EvaluateTrade, Holds, accountVars, configVars, orderVars
<1>2. TripOwed' = FALSE
  BY <1>1, Finished, NotOwed
<1>3. CASE ~job[c].trips
  <2>1. TripOwed = FALSE /\ tripped' = tripped
    BY <1>1, <1>3, NotOwedWhileHeld DEF EvaluateTrade
  <2> QED BY <1>1, <1>2, <2>1, RulesStutter
<1>4. CASE job[c].trips
  <2>1. day \notin tripped
    BY <1>1, <1>4 DEF Inv, RequestsAreCurrent, IsCurrent
  <2>2. day' \in tripped'
    BY <1>1, <1>4 DEF EvaluateTrade
  <2>3. Rules!Due \/ TripOwed
    BY <1>1, <1>4, SameAccount DEF TripOwed
  <2>4. LoadExchangeMode' = LoadExchangeMode
    BY <1>1 DEF LoadExchangeMode
  <2>5. (day \in tripped)' = TRUE /\ TripOwed' = FALSE
    BY <1>2, <2>2
  <2> QED BY <1>1, <2>1, <2>3, <2>4, <2>5, SameOrders DEF Rules!Trip
<1> QED BY <1>3, <1>4

(* Engaging and releasing are a Halt each, or nothing.                      *)
LEMMA KillSwitchRefines ==
  ASSUME Inv, NEW c \in Clients, EngageKillSwitch(c) \/ ReleaseKillSwitch(c)
  PROVE  Rules!Halt \/ UNCHANGED Rules!rules
<1>1. /\ Holds(c) /\ Finish(c) /\ job[c].op \in {"engage", "release"}
      /\ UNCHANGED <<equity, loss, day, tripped, cfg, groups, mode, order,
                     orderMode>>
  BY DEF EngageKillSwitch, ReleaseKillSwitch, Holds, configVars, dayVars, orderVars
<1>2. TripOwed = FALSE /\ TripOwed' = FALSE
  BY <1>1, NotOwedWhileHeld, Finished, NotOwed
<1>3. job[c].engaged = killed /\ killed \in BOOLEAN
  BY <1>1 DEF Inv, TypeOK, RequestsAreCurrent, IsCurrent
<1>4. CASE killed' = killed
  BY <1>1, <1>2, <1>4, RulesStutter
<1>5. CASE killed' # killed
  <2>1. killed' = ~killed
    BY <1>3, <1>5 DEF EngageKillSwitch, ReleaseKillSwitch
  <2>2. LoadExchangeMode' = LoadExchangeMode /\ (day \in tripped)' = (day \in tripped)
    BY <1>1 DEF LoadExchangeMode
  <2> QED BY <1>1, <1>2, <2>1, <2>2, SameOrders DEF Rules!Halt
<1> QED BY <1>4, <1>5

(* New limits, groups or equity are new terms, or nothing.                  *)
LEMMA TermsRefine ==
  ASSUME Inv, \/ PutEquity \/ PutCorrelationGroups
              \/ \E c \in Clients : PutRiskConfig(c)
  PROVE  Rules!SetTerms \/ UNCHANGED Rules!rules
<1>1. /\ AccountFree
      /\ UNCHANGED <<loss, killed, day, tripped, mode, order, orderMode>>
  BY DEF PutEquity, PutCorrelationGroups, PutRiskConfig, accountVars, configVars,
         dayVars, orderVars
<1>2. TripOwed = FALSE /\ TripOwed' = FALSE
  <2>1. \A d \in Clients : ~Holds(d)'
    <3>1. CASE PutEquity \/ PutCorrelationGroups
      BY <1>1, <3>1 DEF PutEquity, PutCorrelationGroups, AccountFree, Holds
    <3>2. ASSUME NEW c \in Clients, PutRiskConfig(c)
          PROVE  \A d \in Clients : ~Holds(d)'
      BY <1>1, <3>2, Finished DEF PutRiskConfig
    <3> QED BY <3>1, <3>2
  <2> QED BY <1>1, <2>1, NotOwed
<1>3. LoadExchangeMode' = LoadExchangeMode /\ (day \in tripped)' = (day \in tripped)
  BY <1>1 DEF LoadExchangeMode
<1>4. CASE PutEquity
  BY <1>1, <1>2, <1>3, <1>4, SameOrders DEF PutEquity, Rules!SetTerms, configVars
<1>5. CASE PutCorrelationGroups
  BY <1>1, <1>2, <1>3, <1>5, SameOrders
  DEF PutCorrelationGroups, Rules!SetTerms, accountVars
<1>6. ASSUME NEW c \in Clients, PutRiskConfig(c)
      PROVE  Rules!SetTerms \/ UNCHANGED Rules!rules
  <2>1. UNCHANGED <<equity, groups>>
    BY <1>6 DEF PutRiskConfig, accountVars
  <2>2. CASE version # job[c].version
    <3>1. cfg' = cfg
      BY <1>6, <2>2 DEF PutRiskConfig
    <3> QED BY <1>1, <1>2, <2>1, <3>1, RulesStutter
  <2>3. CASE version = job[c].version
    <3>1. cfg' = job[c].new
      BY <1>6, <2>3 DEF PutRiskConfig, WriteConfig
    <3>2. job[c].new \in Configs
      BY <1>6, RequestFields DEF PutRiskConfig, Inv, TypeOK
    <3> QED BY <1>1, <1>2, <1>3, <2>1, <3>1, <3>2, SameOrders DEF Rules!SetTerms
  <2> QED BY <2>2, <2>3
<1> QED BY <1>4, <1>5, <1>6

(* A mode is chosen for the first time, or switched while flat, or nothing  *)
(* happens.                                                                 *)
LEMMA PutExchangeConfigRefines ==
  ASSUME Inv, NEW c \in Clients, PutExchangeConfig(c)
  PROVE  Rules!ChooseMode \/ Rules!SwitchMode \/ UNCHANGED Rules!rules
<1>1. /\ Holds(c) /\ Finish(c) /\ job[c].op = "put_exchange_config"
      /\ UNCHANGED <<equity, loss, killed, day, tripped, cfg, groups, order,
                     orderMode>>
  BY DEF PutExchangeConfig, Holds, accountVars, dayVars, orderVars
<1>2. TripOwed = FALSE /\ TripOwed' = FALSE
  BY <1>1, NotOwedWhileHeld, Finished, NotOwed
<1>3. CASE mode' = mode
  BY <1>1, <1>2, <1>3, RulesStutter
<1>4. CASE mode' # mode
  <2>1. mode' = job[c].new /\ ~ForbidModeSwitch(job[c].new)
    BY <1>4 DEF PutExchangeConfig
  <2>2. mode' \in ExchangeMode /\ LoadExchangeMode' = mode'
    <3>1. job[c].new \in ExchangeMode
      BY <1>1, RequestFields DEF Inv, TypeOK
    <3> QED BY <2>1, <3>1 DEF LoadExchangeMode, ExchangeMode, NoRow
  <2>3. (day \in tripped)' = (day \in tripped) /\ (mode # NoRow)' = TRUE
    BY <1>1, <2>2 DEF ExchangeMode, NoRow
  <2>4. CASE mode = NoRow
    BY <1>1, <1>2, <2>2, <2>3, <2>4, SameOrders DEF Rules!ChooseMode
  <2>5. CASE mode # NoRow
    <3>1. ~HasOpenActivity
      BY <1>4, <2>1, <2>5 DEF ForbidModeSwitch
    <3>2. OpenOrders = {} /\ \A s \in Symbols : Position(s) = 0
      <4>1. \A s \in Symbols : Position(s) \in Nat
        BY PositionCounts
      <4> QED BY <3>1, <4>1 DEF HasOpenActivity
    <3>3. Rules!Flat
      BY <3>2 DEF Rules!Flat
    <3> QED BY <1>1, <1>2, <2>2, <2>3, <2>5, <3>3, SameOrders
        DEF Rules!SwitchMode
  <2> QED BY <2>4, <2>5
<1> QED BY <1>3, <1>4

(* An order ends filled or not, or only waits for its cancel.               *)
LEMMA WorkerRefines ==
  ASSUME Inv, NEW o \in Orders, WorkerMoves(o)
  PROVE  Rules!End(o) \/ UNCHANGED Rules!rules
<1>1. /\ AccountFree
      /\ UNCHANGED <<equity, loss, killed, day, tripped, cfg, groups, mode,
                     orderMode, job>>
      /\ order[o] \in {"pending", "cancel_requested"}
  BY DEF WorkerMoves, accountVars, configVars, dayVars
<1>2. TripOwed = FALSE /\ TripOwed' = FALSE
  BY <1>1, NotOwed DEF AccountFree, Holds
<1>3. LoadExchangeMode' = LoadExchangeMode /\ (day \in tripped)' = (day \in tripped)
  BY <1>1 DEF LoadExchangeMode
<1>4. PICK st \in {"filled", "cancel_requested", "cancelled"} :
        order' = [order EXCEPT ![o] = st]
  BY DEF WorkerMoves
<1>5. \A p \in Orders : order'[p] = IF p = o THEN st ELSE order[p]
  BY <1>4 DEF Inv, TypeOK
<1> DEFINE Filled(s) == {p \in Orders : order[p] = "filled" /\ Symbol[p] = s}
<1>6. o \in OpenOrders
  BY <1>1 DEF OpenOrders
<1>7. st # "filled" => \A s : Position(s)' = Position(s)
  <2> SUFFICES ASSUME st # "filled", NEW s PROVE Position(s)' = Position(s)
    OBVIOUS
  <2>1. {p \in Orders : order'[p] = "filled" /\ Symbol[p] = s} = Filled(s)
    BY <1>1, <1>5
  <2> QED BY <2>1 DEF Position
<1>8. CASE st = "cancel_requested"
  <2>1. OpenOrders' = OpenOrders
    BY <1>5, <1>6, <1>8 DEF OpenOrders
  <2> QED BY <1>1, <1>2, <1>3, <1>7, <1>8, <2>1 DEF Rules!rules
<1>9. CASE st # "cancel_requested"
  <2>1. OpenOrders' = OpenOrders \ {o}
    BY <1>5, <1>9 DEF OpenOrders
  <2>2. [s \in Symbols |-> Position(s)]'
          \in {[s \in Symbols |-> Position(s)],
               [[s \in Symbols |-> Position(s)] EXCEPT ![Symbol[o]] = @ + 1]}
    <3>1. CASE st # "filled"
      BY <1>7, <3>1
    <3>2. CASE st = "filled"
      <4>1. ASSUME NEW s \in Symbols
            PROVE  Position(s)' = IF s = Symbol[o] THEN Position(s) + 1
                                  ELSE Position(s)
        <5>1. {p \in Orders : order'[p] = "filled" /\ Symbol[p] = s}
                = IF s = Symbol[o] THEN Filled(s) \cup {o} ELSE Filled(s)
          BY <1>5, <3>2
        <5>2. o \notin Filled(s) /\ IsFiniteSet(Filled(s))
          BY <1>1, PositionCounts
        <5>3. Cardinality(Filled(s) \cup {o}) = Cardinality(Filled(s)) + 1
          BY <5>2, FS_AddElement
        <5> HIDE DEF Filled
        <5>4. Position(s)' = Cardinality(IF s = Symbol[o] THEN Filled(s) \cup {o}
                                         ELSE Filled(s))
          BY <5>1 DEF Position
        <5>5. Position(s) = Cardinality(Filled(s))
          BY DEF Position, Filled
        <5> QED BY <5>3, <5>4, <5>5
      <4> QED BY <4>1
    <3> QED BY <3>1, <3>2
  <2> QED BY <1>1, <1>2, <1>3, <1>6, <2>1, <2>2 DEF Rules!End
<1> QED BY <1>8, <1>9

(* Midnight is a NewDay: whatever trip was due or owed is owed now.         *)
LEMMA MidnightRefines == Inv /\ Midnight => Rules!NewDay
<1> SUFFICES ASSUME Inv, Midnight PROVE Rules!NewDay
  OBVIOUS
<1>1. /\ loss' = 0 /\ day' = day + 1
      /\ UNCHANGED <<equity, killed, tripped, cfg, groups, mode, order, orderMode,
                     job>>
  BY DEF Midnight, accountVars, configVars, orderVars
<1>2. (day \in tripped)' = FALSE
  <2>1. day \in Nat
    BY GateAssumption DEF Inv, TypeOK
  <2> QED BY <1>1, <2>1 DEF Inv, Past
<1>3. ~CircuitBreakerShouldTrip(Snapshot, cfg)'
  BY NewDayApproves
<1>4. TripOwed' \in {FALSE, Rules!Due \/ TripOwed}
  <2>1. CASE \E c \in Clients : job[c].op = "evaluate_trade" /\ job[c].trips
    <3>1. TripOwed'
      BY <1>1, <1>3, <2>1 DEF TripOwed
    <3>2. Rules!Due \/ TripOwed
      BY <2>1, SameAccount DEF TripOwed
    <3>3. TripOwed' = TRUE /\ (Rules!Due \/ TripOwed) = TRUE
      BY <3>1, <3>2 DEF TripOwed
    <3> QED BY <3>3
  <2>2. CASE ~\E c \in Clients : job[c].op = "evaluate_trade" /\ job[c].trips
    <3>1. TripOwed' = FALSE
      BY <1>1, <2>2 DEF TripOwed
    <3> QED BY <3>1
  <2> QED BY <2>1, <2>2
<1>5. LoadExchangeMode' = LoadExchangeMode
  BY <1>1 DEF LoadExchangeMode
<1> QED BY <1>1, <1>2, <1>4, <1>5, SameOrders DEF Rules!NewDay

(* Every step of the handlers is a step of the rules, or none.              *)
LEMMA RulesStep ==
  Inv /\ [Next]_vars => [Rules!RulesNext]_(Rules!rules)
<1> SUFFICES ASSUME Inv, [Next]_vars
             PROVE  Rules!RulesNext \/ UNCHANGED Rules!rules
  OBVIOUS
<1>1. ASSUME NEW c \in Clients, NEW o \in Orders, StartPlaceOrder(c, o)
      PROVE  UNCHANGED Rules!rules
  BY <1>1, StartStutters DEF StartPlaceOrder
<1>2. ASSUME NEW c \in Clients,
             StartEvaluateTrade(c) \/ StartEngage(c) \/ StartRelease(c)
      PROVE  UNCHANGED Rules!rules
  BY <1>2, StartStutters
  DEF StartEvaluateTrade, StartEngage, StartRelease, NewlyTrips
<1>3. ASSUME NEW c \in Clients, NEW new, StartPutExchangeConfig(c, new)
      PROVE  UNCHANGED Rules!rules
  BY <1>3, StartStutters DEF StartPutExchangeConfig
<1>4. ASSUME NEW c \in Clients, NEW new, ReadRiskConfig(c, new)
      PROVE  UNCHANGED Rules!rules
  <2>1. /\ UNCHANGED <<accountVars, configVars, dayVars, orderVars>>
        /\ job[c] = Idle
        /\ \A d \in Clients : d # c => job'[d] = job[d]
        /\ job'[c].op = "put_risk_config"
    BY <1>4 DEF ReadRiskConfig, Inv, TypeOK
  <2>2. CircuitBreakerShouldTrip(Snapshot, cfg)' = CircuitBreakerShouldTrip(Snapshot, cfg)
    BY <2>1, SameRows DEF configVars
  <2>3. TripOwed' = TripOwed
    BY <2>1, <2>2 DEF TripOwed, Idle
  <2> QED BY <2>1, <2>3, RulesStutter
      DEF accountVars, configVars, dayVars, orderVars
<1>5. CASE RealizeLoss
  <2>1. /\ AccountFree /\ loss' = loss + 1
        /\ UNCHANGED <<equity, killed, day, tripped, cfg, groups, mode, order,
                       orderMode, job>>
    BY <1>5 DEF RealizeLoss, accountVars, configVars, orderVars
  <2>2. TripOwed = FALSE /\ TripOwed' = FALSE
    BY <2>1, NotOwed DEF AccountFree, Holds
  <2>3. LoadExchangeMode' = LoadExchangeMode /\ (day \in tripped)' = (day \in tripped)
    BY <2>1 DEF LoadExchangeMode
  <2>4. Rules!Lose
    BY <2>1, <2>2, <2>3, SameOrders DEF Rules!Lose
  <2> QED BY <2>4 DEF Rules!RulesNext
<1>6. CASE UNCHANGED vars
  <2>1. UNCHANGED <<equity, loss, killed, day, tripped, cfg, groups, mode, order,
                    orderMode, job>>
    BY <1>6 DEF vars, accountVars, configVars, dayVars, orderVars
  <2>2. CircuitBreakerShouldTrip(Snapshot, cfg)' = CircuitBreakerShouldTrip(Snapshot, cfg)
    BY <1>6, SameRows DEF vars, configVars
  <2>3. TripOwed' = TripOwed
    BY <2>1, <2>2 DEF TripOwed
  <2> QED BY <2>1, <2>3, RulesStutter
<1>7. ASSUME NEW c \in Clients, EngageKillSwitch(c) \/ ReleaseKillSwitch(c)
      PROVE  Rules!RulesNext \/ UNCHANGED Rules!rules
  BY <1>7, KillSwitchRefines DEF Rules!RulesNext
<1>8. ASSUME NEW c \in Clients, PlaceOrder(c)
      PROVE  Rules!RulesNext \/ UNCHANGED Rules!rules
  BY <1>8, PlaceOrderRefines DEF Rules!RulesNext
<1>9. ASSUME NEW c \in Clients, EvaluateTrade(c)
      PROVE  Rules!RulesNext \/ UNCHANGED Rules!rules
  BY <1>9, EvaluateTradeRefines DEF Rules!RulesNext
<1>10. ASSUME NEW c \in Clients, PutExchangeConfig(c)
       PROVE  Rules!RulesNext \/ UNCHANGED Rules!rules
  BY <1>10, PutExchangeConfigRefines DEF Rules!RulesNext
<1>11. CASE PutEquity \/ PutCorrelationGroups \/ \E c \in Clients : PutRiskConfig(c)
  BY <1>11, TermsRefine DEF Rules!RulesNext
<1>12. ASSUME NEW o \in Orders, WorkerMoves(o)
       PROVE  Rules!RulesNext \/ UNCHANGED Rules!rules
  BY <1>12, WorkerRefines DEF Rules!RulesNext
<1>13. CASE Midnight
  BY <1>13, MidnightRefines DEF Rules!RulesNext
<1> QED BY <1>1, <1>2, <1>3, <1>4, <1>5, <1>6, <1>7, <1>8, <1>9, <1>10, <1>11,
           <1>12, <1>13 DEF Next

(* From the account's creation on, the handlers do what the rules of        *)
(* AccountRules allow, each as if it had run alone at its commit            *)
(* (lock_account).                                                          *)
THEOREM HandlersImplementRules == Spec => ImplementsRules
<1>1. Init => Rules!RulesInit
  <2> SUFFICES ASSUME Init PROVE Rules!RulesInit
    OBVIOUS
  <2>1. TripOwed = FALSE /\ OpenOrders = {}
    BY DEF Init, TripOwed, Idle, OpenOrders, NoOrder
  <2>2. \A s \in Symbols : Position(s) = 0
    <3> SUFFICES ASSUME NEW s \in Symbols PROVE Position(s) = 0
      OBVIOUS
    <3>1. {o \in Orders : order[o] = "filled" /\ Symbol[o] = s} = {}
      BY DEF Init, NoOrder
    <3> QED BY <3>1, FS_EmptySet DEF Position
  <2>3. LoadExchangeMode = "paper" /\ (mode # NoRow) = FALSE
    BY DEF Init, LoadExchangeMode
  <2>4. (day \in tripped) = FALSE /\ killed = FALSE /\ loss = 0
    BY DEF Init
  <2> QED BY <2>1, <2>2, <2>3, <2>4, GateAssumption DEF Init, Rules!RulesInit
<1>2. Inv /\ [Next]_vars => [Rules!RulesNext]_(Rules!rules)
  BY RulesStep
<1> QED BY <1>1, <1>2, InvInit, InvStep, PTL
    DEF Spec, ImplementsRules, Rules!RulesSpec
============================================================================
