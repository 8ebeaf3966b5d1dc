---------------------------- MODULE AccountGate ----------------------------
(***************************************************************************)
(* Everything that decides whether one account may trade, and who may      *)
(* change the rules meanwhile: the handlers of routes.rs, routes_orders.rs *)
(* and routes_exchange.rs that run concurrently over the account row, its  *)
(* risk config, its exchange config, its day of trading and its orders.    *)
(*                                                                         *)
(* A handler is two steps: it opens its transaction and reads what it      *)
(* needs, then it writes and commits; between the two any other process    *)
(* may run, as far as the locks let it.  lock_account takes the account    *)
(* row FOR UPDATE, which excludes the other handlers that do and also      *)
(* every transaction that inserts a row referencing the account (orders,   *)
(* fills, commands, audit events), because the foreign key takes the row   *)
(* FOR KEY SHARE.                                                          *)
(***************************************************************************)
EXTENDS RiskEngine, Sequences

CONSTANTS
  Orders,        \* orders that may be placed; each buys one unit at price 1
  Symbols, Symbol,
  Clients,       \* concurrent requests
  Configs,       \* risk limits a client may put
  Groupings,     \* correlation groups a client may put
  Equities,
  InitialConfig, \* the risk_configs row an account is created with
  MaxVersion,    \* bound on the versions of both config rows
  MaxEngages,    \* bound on the uses of the kill switch
  Days,          \* 0 .. the last day looked at
  MaxLoss        \* bound on the realized loss of a day

NoRow == "no_row"
ExchangeMode == {"paper", "live"}

(* What put_risk_config accepts.                                            *)
Config == [dailyMaxLossPct : 1 .. 100, maxPositionPctEquity : 1 .. 100,
           maxConcurrentPositions : Nat \ {0},
           maxCorrelatedExposurePct : 1 .. 100]

ASSUME GateAssumption ==
  /\ IsFiniteSet(Symbols)
  /\ IsFiniteSet(Orders)
  /\ Symbol \in [Orders -> Symbols]
  /\ Configs \subseteq Config
  /\ InitialConfig \in Configs
  /\ \A g \in Groupings : Symbols \subseteq DOMAIN g
  /\ Equities \subseteq Nat
  /\ Days \subseteq Nat /\ 0 \in Days
  /\ MaxVersion \in Nat /\ MaxEngages \in Nat /\ MaxLoss \in Nat

VARIABLES
  equity, killed, accountStatus,  \* the accounts row
  cfg, version,                   \* the risk_configs row
  groups,                         \* correlation_groups and their assets
  mode, modeVersion,              \* the exchange_configs row; NoRow, 0 if none
  day, loss, tripped,             \* today; daily_pnl: loss of today, days with a trip
  order, orderMode,               \* orders: status, or NoOrder; exchange_mode
  events, configEvents,           \* risk_events: counts by type; config changes
  job                             \* the request each client is in

accountVars == <<equity, killed, accountStatus>>
configVars  == <<cfg, version, groups, mode, modeVersion>>
dayVars     == <<day, loss, tripped>>
orderVars   == <<order, orderMode>>
auditVars   == <<events, configEvents>>
vars == <<accountVars, configVars, dayVars, orderVars, auditVars, job>>

NoOrder == "no_order"
EventType == {"kill_switch_engaged", "kill_switch_released",
              "circuit_breaker_tripped"}
Idle == [op |-> "idle"]

(* create_account: an account, a risk config, and no exchange config.       *)
Init ==
  /\ equity \in Equities
  /\ killed = FALSE
  /\ accountStatus = "active"
  /\ cfg = InitialConfig
  /\ version = 1
  /\ groups \in Groupings
  /\ mode = NoRow
  /\ modeVersion = 0
  /\ day = 0
  /\ loss = 0
  /\ tripped = {}
  /\ order = [o \in Orders |-> NoOrder]
  /\ orderMode = [o \in Orders |-> NoRow]
  /\ events = [e \in EventType |-> 0]
  /\ configEvents = <<>>
  /\ job = [c \in Clients |-> Idle]

---------------------------------------------------------------------------
(* What handlers read *)

(* Filled orders make the open positions: here orders only buy, and a fill  *)
(* adds to the position of its symbol.                                      *)
Position(s) == Cardinality({o \in Orders : order[o] = "filled" /\ Symbol[o] = s})

(* load_snapshot *)
Snapshot ==
  [equity            |-> equity,
   loss              |-> loss,
   killSwitchEngaged |-> killed,
   tripped           |-> day \in tripped,
   groups            |-> groups,
   positions         |->
     {[symbol |-> s, side |-> "long", quantity |-> Position(s),
       notional |-> Position(s)] : s \in {x \in Symbols : Position(x) > 0}}]

Intent(o) == [symbol |-> Symbol[o], side |-> "buy", quantity |-> 1, price |-> 1]

(* load_exchange_mode: paper if there is no row.                            *)
LoadExchangeMode == IF mode = NoRow THEN "paper" ELSE mode

(* Slip: an order waiting for its cancel does not count as open.            *)
OpenButNotCancelling == {o \in Orders : order[o] = "pending"}

(* The orders has_open_activity and the trigger of migration 0008 count:    *)
(* status NOT IN ('filled', 'cancelled', 'rejected').                       *)
OpenOrders == {o \in Orders : order[o] \in {"pending", "cancel_requested"}}

HasOpenActivity == OpenOrders # {} \/ \E s \in Symbols : Position(s) > 0

(* Between lock_account and the commit.                                     *)
Holds(c) == job[c].op \notin {"idle", "put_risk_config"}

(* Slip: the row is read without FOR UPDATE.                                *)
AccountFreeAlways == TRUE

AccountFree == \A c \in Clients : ~Holds(c)

(* A handler reads under lock_account, and later commits.                   *)
Start(c, request) ==
  /\ job[c] = Idle
  /\ AccountFree
  /\ job' = [job EXCEPT ![c] = request]
  /\ UNCHANGED <<accountVars, configVars, dayVars, orderVars, auditVars>>

Finish(c) == job' = [job EXCEPT ![c] = Idle]
Audit(e) == events' = [events EXCEPT ![e] = @ + 1]

---------------------------------------------------------------------------
(* place_order *)

(* Slip: the snapshot is loaded before the account row is locked.           *)
StartPlaceOrderUnlocked(c, o) ==
  /\ order[o] = NoOrder
  /\ job[c] = Idle
  /\ \A d \in Clients : job[d].op = "place_order" => job[d].order # o
  /\ job' = [job EXCEPT ![c] =
       [op |-> "place_order", order |-> o, mode |-> LoadExchangeMode,
        approved |-> IsApproved(Intent(o), Snapshot, cfg)]]
  /\ UNCHANGED <<accountVars, configVars, dayVars, orderVars, auditVars>>

StartPlaceOrder(c, o) ==
  /\ order[o] = NoOrder
  /\ \A d \in Clients : job[d].op = "place_order" => job[d].order # o
  /\ Start(c, [op       |-> "place_order",
               order    |-> o,
               mode     |-> LoadExchangeMode,
               approved |-> IsApproved(Intent(o), Snapshot, cfg)])

(* A rejected intent leaves an audit row and no order.                      *)
PlaceOrder(c) ==
  /\ job[c].op = "place_order"
  /\ IF job[c].approved
     THEN /\ order' = [order EXCEPT ![job[c].order] = "pending"]
          /\ orderMode' = [orderMode EXCEPT ![job[c].order] = job[c].mode]
     ELSE UNCHANGED orderVars
  /\ Finish(c)
  /\ UNCHANGED <<accountVars, configVars, dayVars, auditVars>>

---------------------------------------------------------------------------
(* evaluate_trade *)

(* Slip: a breaker that has tripped already trips again.                    *)
TripsAgain(snap) == CircuitBreakerShouldTrip(snap, cfg)

NewlyTrips(snap) == ~snap.tripped /\ CircuitBreakerShouldTrip(snap, cfg)

StartEvaluateTrade(c) ==
  Start(c, [op |-> "evaluate_trade", trips |-> NewlyTrips(Snapshot)])

(* trip_circuit_breaker asks for the date again, and keeps the first trip.  *)
EvaluateTrade(c) ==
  /\ job[c].op = "evaluate_trade"
  /\ IF job[c].trips
     THEN /\ tripped' = tripped \cup {day}
          /\ Audit("circuit_breaker_tripped")
     ELSE UNCHANGED <<tripped, events>>
  /\ Finish(c)
  /\ UNCHANGED <<accountVars, configVars, day, loss, orderVars, configEvents>>

---------------------------------------------------------------------------
(* The kill switch and the equity *)

StartEngage(c) ==
  /\ events["kill_switch_engaged"] < MaxEngages
  /\ Start(c, [op |-> "engage", engaged |-> killed])

(* Slip: no look at whether the switch is engaged already.                  *)
EngageAgain(c) ==
  /\ job[c].op = "engage"
  /\ killed' = TRUE
  /\ accountStatus' = "killed"
  /\ Audit("kill_switch_engaged")
  /\ Finish(c)
  /\ UNCHANGED <<equity, configVars, dayVars, orderVars, configEvents>>

EngageKillSwitch(c) ==
  /\ job[c].op = "engage"
  /\ IF job[c].engaged
     THEN UNCHANGED <<killed, accountStatus, events>>
     ELSE /\ killed' = TRUE
          /\ accountStatus' = "killed"
          /\ Audit("kill_switch_engaged")
  /\ Finish(c)
  /\ UNCHANGED <<equity, configVars, dayVars, orderVars, configEvents>>

(* Slip: a status accounts.status has no CHECK value for.                   *)
UnlistedReleasedStatus == "released"

ReleasedStatus == "active"

StartRelease(c) == Start(c, [op |-> "release", engaged |-> killed])

ReleaseKillSwitch(c) ==
  /\ job[c].op = "release"
  /\ IF job[c].engaged
     THEN /\ killed' = FALSE
          /\ accountStatus' = ReleasedStatus
          /\ Audit("kill_switch_released")
     ELSE UNCHANGED <<killed, accountStatus, events>>
  /\ Finish(c)
  /\ UNCHANGED <<equity, configVars, dayVars, orderVars, configEvents>>

(* put_equity and put_correlation_groups decide nothing on what they read.  *)
PutEquity ==
  /\ AccountFree
  /\ equity' \in Equities \ {equity}
  /\ UNCHANGED <<killed, accountStatus, configVars, dayVars, orderVars,
                 auditVars, job>>

PutCorrelationGroups ==
  /\ AccountFree
  /\ groups' \in Groupings \ {groups}
  /\ UNCHANGED <<accountVars, cfg, version, mode, modeVersion, dayVars,
                 orderVars, auditVars, job>>

---------------------------------------------------------------------------
(* put_risk_config: no lock on the account, a version instead *)

(* The request's version is the row's, else it is refused here.             *)
ReadRiskConfig(c, new) ==
  /\ job[c] = Idle
  /\ version < MaxVersion
  /\ job' = [job EXCEPT ![c] =
       [op |-> "put_risk_config", old |-> cfg, version |-> version, new |-> new]]
  /\ UNCHANGED <<accountVars, configVars, dayVars, orderVars, auditVars>>

(* Slip: the version is checked and not raised.                             *)
WriteSameVersion(c) ==
  LET j == job[c] IN
  /\ cfg' = j.new
  /\ version' = j.version
  /\ configEvents' = Append(configEvents, <<j.version, j.old, j.version, j.new>>)

WriteConfig(c) ==
  LET j == job[c] IN
  /\ cfg' = j.new
  /\ version' = j.version + 1
  /\ configEvents' = Append(configEvents, <<j.version, j.old, j.version + 1, j.new>>)

(* Slip: UPDATE without the version in its WHERE.                           *)
OverwriteRiskConfig(c) ==
  /\ job[c].op = "put_risk_config"
  /\ AccountFree
  /\ WriteConfig(c)
  /\ Finish(c)
  /\ UNCHANGED <<accountVars, groups, mode, modeVersion, dayVars, orderVars, events>>

(* UPDATE ... WHERE version = the one read; zero rows is a conflict.        *)
PutRiskConfig(c) ==
  /\ job[c].op = "put_risk_config"
  /\ AccountFree
  /\ IF version = job[c].version
     THEN WriteConfig(c)
     ELSE UNCHANGED <<cfg, version, configEvents>>
  /\ Finish(c)
  /\ UNCHANGED <<accountVars, groups, mode, modeVersion, dayVars, orderVars, events>>

---------------------------------------------------------------------------
(* put_exchange_config *)

(* With a row, the version must match and a switch needs a flat account;    *)
(* without one, neither is looked at.                                       *)
StartPutExchangeConfig(c, new) ==
  /\ modeVersion < MaxVersion
  /\ mode # NoRow /\ mode # new => ~HasOpenActivity
  /\ Start(c, [op |-> "put_exchange_config", new |-> new,
               version |-> modeVersion])

(* The trigger of migration 0008: BEFORE UPDATE, so not on the first row.   *)
ForbidModeSwitch(new) == mode # NoRow /\ mode # new /\ HasOpenActivity

PutExchangeConfig(c) ==
  LET j == job[c] IN
  /\ j.op = "put_exchange_config"
  /\ IF modeVersion = j.version /\ ~ForbidModeSwitch(j.new)
     THEN mode' = j.new /\ modeVersion' = j.version + 1
     ELSE UNCHANGED <<mode, modeVersion>>
  /\ Finish(c)
  /\ UNCHANGED <<accountVars, cfg, version, groups, dayVars, orderVars, auditVars>>

---------------------------------------------------------------------------
(* The rest of the world *)

(* The outbox worker's transactions on an order of the account: each one    *)
(* inserts a row that references it.  "pending" stands for every open       *)
(* status but cancel_requested, "cancelled" for rejected too.               *)
WorkerMoves(o) ==
  /\ AccountFree
  /\ order[o] \in {"pending", "cancel_requested"}
  /\ \E st \in {"filled", "cancel_requested", "cancelled"} :
       /\ st # order[o]
       /\ order' = [order EXCEPT ![o] = st]
  /\ UNCHANGED <<accountVars, configVars, dayVars, orderMode, auditVars, job>>

(* Nothing under src/ writes realized_loss; whoever does is taken to lock   *)
(* the account first, like every writer here.                               *)
RealizeLoss ==
  /\ AccountFree
  /\ loss < MaxLoss
  /\ loss' = loss + 1
  /\ UNCHANGED <<accountVars, configVars, day, tripped, orderVars, auditVars, job>>

(* Utc::now() waits for no lock.                                            *)
Midnight ==
  /\ day + 1 \in Days
  /\ day' = day + 1
  /\ loss' = 0
  /\ UNCHANGED <<accountVars, configVars, tripped, orderVars, auditVars, job>>

Next ==
  \/ \E c \in Clients :
       \/ \E o \in Orders : StartPlaceOrder(c, o)
       \/ PlaceOrder(c)
       \/ StartEvaluateTrade(c) \/ EvaluateTrade(c)
       \/ StartEngage(c) \/ EngageKillSwitch(c)
       \/ StartRelease(c) \/ ReleaseKillSwitch(c)
       \/ \E new \in Configs : ReadRiskConfig(c, new)
       \/ PutRiskConfig(c)
       \/ \E new \in ExchangeMode : StartPutExchangeConfig(c, new)
       \/ PutExchangeConfig(c)
  \/ PutEquity \/ PutCorrelationGroups
  \/ \E o \in Orders : WorkerMoves(o)
  \/ RealizeLoss \/ Midnight

Spec == Init /\ [][Next]_vars

---------------------------------------------------------------------------
(* Types of the account's rows and of the requests in progress (db.rs). *)
Request ==
  {Idle}
  \cup [op : {"place_order"}, order : Orders, mode : ExchangeMode,
        approved : BOOLEAN]
  \cup [op : {"evaluate_trade"}, trips : BOOLEAN]
  \cup [op : {"engage", "release"}, engaged : BOOLEAN]
  \cup [op : {"put_risk_config"}, old : Configs, version : Nat, new : Configs]
  \cup [op : {"put_exchange_config"}, new : ExchangeMode, version : Nat]

TypeOK ==
  /\ equity \in Equities
  /\ killed \in BOOLEAN
  /\ accountStatus \in {"active", "killed"}
  /\ cfg \in Configs
  /\ version \in Nat
  /\ groups \in Groupings
  /\ mode \in ExchangeMode \cup {NoRow}
  /\ modeVersion \in Nat
  /\ day \in Days
  /\ loss \in Nat
  /\ tripped \subseteq Days
  /\ order \in [Orders -> {NoOrder, "pending", "cancel_requested", "filled",
                          "cancelled"}]
  /\ orderMode \in [Orders -> ExchangeMode \cup {NoRow}]
  /\ events \in [EventType -> Nat]
  /\ configEvents \in Seq(Nat \X Configs \X Nat \X Configs)
  /\ job \in [Clients -> Request]

IsCurrent(j) ==
  /\ j.op = "place_order" =>
       /\ order[j.order] = NoOrder
       /\ j.mode = LoadExchangeMode
       /\ j.approved => IsApproved(Intent(j.order), Snapshot, cfg)
  /\ j.op = "evaluate_trade" /\ j.trips => day \notin tripped
  /\ j.op \in {"engage", "release"} => j.engaged = killed
  /\ j.op = "put_exchange_config" =>
       j.version = modeVersion /\ ~ForbidModeSwitch(j.new)
  /\ j.op = "put_risk_config" =>
       /\ j.version <= version
       /\ j.version = version => j.old = cfg

(* The decision a placement was approved on still holds when its order is   *)
(* committed: no halt, limit, group or position has changed under it        *)
(* (lock_account: evaluations, kill-switch flips and trips serialize).      *)
PlacedWithinLimits ==
  [][\A o \in Orders :
       order[o] = NoOrder /\ order'[o] # NoOrder
         => IsApproved(Intent(o), Snapshot, cfg)]_vars

(* What a request has read is still so while it is under way: no two hold   *)
(* the account row, the decision of a placement, a kill-switch flip or a    *)
(* mode switch would come out the same now, and a config version read       *)
(* without the lock is either stale or that of the config read with it      *)
(* (lock_account; the version in put_risk_config).                          *)
RequestsAreCurrent ==
  /\ \A c, d \in Clients : Holds(c) /\ Holds(d) => c = d
  /\ \A c \in Clients : IsCurrent(job[c])

(* An order or position on the exchange the account has turned away from.   *)
Stranded(o) ==
  /\ order[o] \in {"pending", "cancel_requested", "filled"}
  /\ orderMode[o] # LoadExchangeMode

(* Once an account has an exchange config, nothing more is stranded: not by *)
(* a switch under an order placed or a position opened meanwhile, nor by an *)
(* order placed in a mode that was read before one.  Only the first PUT, an *)
(* INSERT the guard does not look at, may leave behind what was traded on   *)
(* paper until then (put_exchange_config, the trigger of migration 0008).   *)
OnlyFirstPutStrands ==
  [][\A o \in Orders : ~Stranded(o) /\ Stranded(o)' =>
       mode = NoRow /\ mode' = "live" /\ orderMode[o] = "paper"]_vars

(* DATABASE.md: open orders and positions are counted before a mode change  *)
(* is allowed, so none is ever on the other exchange.                       *)
ActivityInOneMode == \A o \in Orders : ~Stranded(o)

(* The audit log tells when the switch was engaged and when released: its   *)
(* two kinds of entry alternate and agree with the account row              *)
(* (engage_kill_switch, release_kill_switch).                               *)
KillSwitchAudited ==
  /\ events["kill_switch_engaged"] - events["kill_switch_released"]
       = IF killed THEN 1 ELSE 0
  /\ killed <=> accountStatus = "killed"

(* The breaker's entries are the days it tripped on, one each               *)
(* (evaluate_trade persists a newly detected trip only).                    *)
TripsAudited == events["circuit_breaker_tripped"] = Cardinality(tripped)

(* The audited changes of the risk config are a chain from the first config *)
(* to the present one: each starts from what the one before it wrote, so    *)
(* none is lost and none is logged that did not happen (put_risk_config).   *)
ConfigChain ==
  LET n == Len(configEvents)
      Before(i) == <<configEvents[i][1], configEvents[i][2]>>
      After(i)  == IF i = 0 THEN <<1, InitialConfig>>
                   ELSE <<configEvents[i][3], configEvents[i][4]>>
  IN  /\ \A i \in 1 .. n : Before(i) = After(i - 1)
      /\ After(n) = <<version, cfg>>

(* A trip is stored on a day whose loss has reached the limit               *)
(* (circuit_breaker_should_trip: today's realized loss has reached the      *)
(* daily limit, and trading halts for the rest of that day).                *)
TripsOnTheDayOfTheLoss ==
  [][tripped' # tripped => CircuitBreakerShouldTrip(Snapshot, cfg)]_vars

(* Filled orders never leave more positions open than the account may hold  *)
(* (PHASE2_PLAN.md: the snapshot an order is decided on includes the orders *)
(* still pending).                                                          *)
OpenWithinCap ==
  Cardinality({s \in Symbols : Position(s) > 0}) <= cfg.maxConcurrentPositions

---------------------------------------------------------------------------
(* A trip found before midnight and not yet stored.                         *)
TripOwed ==
  \E c \in Clients :
    /\ job[c].op = "evaluate_trade"
    /\ job[c].trips
    /\ ~CircuitBreakerShouldTrip(Snapshot, cfg)

(* The handlers implement the rules of an account without requests: each    *)
(* takes effect at its commit, as if it had run alone there (lock_account). *)
Rules == INSTANCE AccountRules WITH
  halted  <- killed,
  tripped <- day \in tripped,
  owed    <- TripOwed,
  limits  <- cfg,
  mode    <- LoadExchangeMode,
  chosen  <- mode # NoRow,
  NoMode  <- NoRow,
  placed  <- orderMode,
  working <- OpenOrders,
  holding <- [s \in Symbols |-> Position(s)]
ImplementsRules == Rules!RulesSpec
============================================================================
