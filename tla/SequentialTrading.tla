------------------------- MODULE SequentialTrading -------------------------
(***************************************************************************)
(* One account that trades one order at a time: each trade is evaluated by *)
(* the risk engine on a snapshot of the account (db.rs load_snapshot) and, *)
(* if approved, filled at its price (db.rs apply_position_delta) before    *)
(* the next one.  Between trades the equity, the loss of the day, the      *)
(* kill switch and the day itself move on.  The question is what the       *)
(* engine's per-trade checks add up to over a sequence of legal calls;     *)
(* orders in flight together are the subject of AccountGate.               *)
(***************************************************************************)
EXTENDS RiskEngine

CONSTANTS
  Symbols,
  Quantities, Prices,  \* of the trades proposed
  Configs,             \* risk_configs rows, one of which the account has
  Groupings,           \* correlation groups of the symbols, likewise
  Equities,            \* values put_equity may set
  MaxLoss,             \* bound on the realized loss of a day
  MaxQuantity          \* bound on a position

Config == [dailyMaxLossPct : 1 .. 100, maxPositionPctEquity : 1 .. 100,
           maxConcurrentPositions : Nat \ {0},
           maxCorrelatedExposurePct : 1 .. 100]

ASSUME TradingAssumption ==
  /\ IsFiniteSet(Symbols)
  /\ Quantities \subseteq Nat \ {0}
  /\ Prices \subseteq Nat \ {0}
  /\ Configs \subseteq Config
  /\ \A g \in Groupings : Symbols \subseteq DOMAIN g
  /\ Equities \subseteq Nat
  /\ MaxLoss \in Nat /\ MaxQuantity \in Nat

VARIABLES
  cfg, groups,          \* fixed for the account
  quantity, avg,        \* the open position of a symbol: signed, 0 for none
  equity, loss, tripped, killed

vars == <<cfg, groups, quantity, avg, equity, loss, tripped, killed>>

TradeIntent ==
  [symbol : Symbols, side : {"buy", "sell"}, quantity : Quantities,
   price : Prices]

Magnitude(n) == IF n < 0 THEN -n ELSE n
Delta(intent) == IF intent.side = "buy" THEN intent.quantity ELSE -intent.quantity
Held == {s \in Symbols : quantity[s] # 0}

(* load_snapshot: notional is quantity * avg_entry_price.                   *)
Snapshot ==
  [equity            |-> equity,
   loss              |-> loss,
   killSwitchEngaged |-> killed,
   tripped           |-> tripped,
   groups            |-> groups,
   positions         |->
     {[symbol   |-> s,
       side     |-> IF quantity[s] < 0 THEN "short" ELSE "long",
       quantity |-> Magnitude(quantity[s]),
       notional |-> Magnitude(quantity[s]) * avg[s]] : s \in Held}]

Init ==
  /\ cfg \in Configs
  /\ groups \in Groupings
  /\ quantity = [s \in Symbols |-> 0]
  /\ avg = [s \in Symbols |-> 0]
  /\ equity \in Equities
  /\ loss = 0
  /\ tripped = FALSE
  /\ killed = FALSE

(* Slips: the entry price follows every fill; it is signed like the delta.  *)
LatestPrice(q, a, delta, price) == price
SignedPrice(q, a, delta, price) == IF delta < 0 THEN -price ELSE price

(* Opening and flipping take the fill's price, growing and shrinking keep   *)
(* the one there is.                                                        *)
EntryPrice(q, a, delta, price) ==
  IF q # 0 /\ (q > 0) = (q + delta > 0) THEN a ELSE price

(* apply_position_delta; a close is refused by CHECK (quantity > 0), which  *)
(* leaves the position as it was.                                           *)
ApplyPositionDelta(s, delta, price) ==
  IF quantity[s] + delta = 0
  THEN UNCHANGED <<quantity, avg>>
  ELSE /\ quantity' = [quantity EXCEPT ![s] = @ + delta]
       /\ avg' = [avg EXCEPT ![s] =
                    EntryPrice(quantity[s], @, delta, price)]

(* place_order, submit, reconcile and fill with nothing in between.         *)
Trade(intent) ==
  /\ IsApproved(intent, Snapshot, cfg)
  /\ Magnitude(quantity[intent.symbol] + Delta(intent)) <= MaxQuantity
  /\ ApplyPositionDelta(intent.symbol, Delta(intent), intent.price)
  /\ UNCHANGED <<cfg, groups, equity, loss, tripped, killed>>

(* evaluate_trade persists a breaker trip it detects, whatever the intent.  *)
EvaluateTrade ==
  /\ ~tripped
  /\ CircuitBreakerShouldTrip(Snapshot, cfg)
  /\ tripped' = TRUE
  /\ UNCHANGED <<cfg, groups, quantity, avg, equity, loss, killed>>

PutEquity ==
  /\ equity' \in Equities \ {equity}
  /\ UNCHANGED <<cfg, groups, quantity, avg, loss, tripped, killed>>

FlipKillSwitch ==
  /\ killed' = ~killed
  /\ UNCHANGED <<cfg, groups, quantity, avg, equity, loss, tripped>>

(* Nothing under src/ writes daily_pnl.realized_loss: whoever settles       *)
(* trades does.                                                             *)
RealizeLoss ==
  /\ loss < MaxLoss
  /\ loss' = loss + 1
  /\ UNCHANGED <<cfg, groups, quantity, avg, equity, tripped, killed>>

(* load_snapshot looks for the daily_pnl row of today's UTC date.           *)
Midnight ==
  /\ loss' = 0
  /\ tripped' = FALSE
  /\ UNCHANGED <<cfg, groups, quantity, avg, equity, killed>>

Next ==
  \/ \E intent \in TradeIntent : Trade(intent)
  \/ EvaluateTrade \/ PutEquity \/ FlipKillSwitch \/ RealizeLoss \/ Midnight

Spec == Init /\ [][Next]_vars

---------------------------------------------------------------------------
(* Types of the account and of its open positions (db.rs). *)
TypeOK ==
  /\ cfg \in Configs
  /\ groups \in Groupings
  /\ quantity \in [Symbols -> Int]
  /\ avg \in [Symbols -> Nat]
  /\ equity \in Equities
  /\ loss \in Nat
  /\ tripped \in BOOLEAN
  /\ killed \in BOOLEAN

(* No sequence of approved trades opens more positions than the account's   *)
(* cap (check_concurrent_positions looks at one trade only).                *)
PositionCapKept == Cardinality(Held) <= cfg.maxConcurrentPositions

GroupTotal(q, a, g) ==
  SumFunctionOnSet([s \in Symbols |-> Magnitude(q[s]) * a[s]],
                   {s \in Symbols : groups[s] = g})

(* Every trade leaves the exposure of its correlation group within the      *)
(* limit, or no higher than it was (check_correlated_exposure, with the     *)
(* entry prices apply_position_delta records), save one: a position grown   *)
(* below its entry price is counted at the entry price ever after, which is *)
(* more than the check was shown.                                           *)
ExposureKept ==
  [][\A intent \in TradeIntent :
       LET s     == intent.symbol
           grown == /\ quantity[s] * quantity'[s] > 0
                    /\ Magnitude(quantity'[s]) > Magnitude(quantity[s])
           before == GroupTotal(quantity, avg, groups[s])
           after  == GroupTotal(quantity', avg', groups[s])
       IN  Trade(intent) /\ groups[s] # NoGroup
             /\ ~(grown /\ intent.price < avg[s])
           => \/ after <= before
              \/ ~Exceeds(after, equity, cfg.maxCorrelatedExposurePct)]_vars

(* Sizing rules never keep a trader in a position: unless trading is        *)
(* halted, a trade that leaves less of a position and does not turn it      *)
(* around is approved, at any price and with any equity                     *)
(* (reduces_existing_position).                                             *)
ReductionsPass ==
  \A intent \in TradeIntent :
    LET q == quantity[intent.symbol]
        r == q + Delta(intent)
    IN  ~killed /\ ~Halted(Snapshot, cfg)
          /\ Magnitude(r) < Magnitude(q) /\ q * r >= 0
        => IsApproved(intent, Snapshot, cfg)

(* More equity never turns an approval into a refusal (every limit is a     *)
(* share of the equity, and the branches for equity <= 0 must not be the    *)
(* more lenient ones).                                                      *)
MoreEquityNeverHurts ==
  \A intent \in TradeIntent : \A e \in Equities :
    e > equity /\ IsApproved(intent, Snapshot, cfg)
      => IsApproved(intent, [Snapshot EXCEPT !.equity = e], cfg)

(* A halt lasts: from the trip of the breaker to midnight no position       *)
(* moves, whatever happens to the equity the loss is measured against.      *)
TripLastsTheDay == [][tripped /\ tripped' => UNCHANGED quantity]_vars
===========================================================================
