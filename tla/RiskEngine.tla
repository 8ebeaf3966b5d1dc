---------------------------- MODULE RiskEngine ----------------------------
(***************************************************************************)
(* The risk engine of crates/core (engine.rs, types.rs): a pure function   *)
(* from a proposed trade, a snapshot of the account and its limits to the  *)
(* set of rules the trade breaks; the empty set is an approval.  Decimals  *)
(* are integers, and "x% of equity" is compared after multiplying both     *)
(* sides by 100.                                                           *)
(*                                                                         *)
(* An intent has a symbol, side, quantity and price; a snapshot has the    *)
(* equity, the loss of the day, the two halts, the open positions and the  *)
(* correlation group of each symbol (NoGroup for an uncorrelated one).     *)
(***************************************************************************)
EXTENDS Integers, FiniteSets, Functions

NoGroup == "no_group"

Violated(rule, broken) == {v \in {rule} : broken}
Exceeds(x, equity, pct) == x * 100 > equity * pct
Notional(intent) == intent.quantity * intent.price

(* Slip: without equity there is nothing to measure the loss against.       *)
ShouldTripOnlyWithEquity(snap, cfg) ==
  snap.equity > 0 /\ snap.loss * 100 >= snap.equity * cfg.dailyMaxLossPct

(* Reaching the daily limit exactly trips; without equity any loss does.    *)
CircuitBreakerShouldTrip(snap, cfg) ==
  IF snap.equity <= 0
  THEN snap.loss > 0
  ELSE snap.loss * 100 >= snap.equity * cfg.dailyMaxLossPct

Opposes(trade, position) ==
  <<trade, position>> \in {<<"sell", "long">>, <<"buy", "short">>}

(* Slip: the comparison is by notional, which the limit price skews.        *)
ReducesByNotional(intent, snap) ==
  \E p \in snap.positions :
    /\ p.symbol = intent.symbol
    /\ Opposes(intent.side, p.side)
    /\ Notional(intent) <= p.notional

(* A trade that cannot flip the position it goes against.                   *)
ReducesExistingPosition(intent, snap) ==
  \E p \in snap.positions :
    /\ p.symbol = intent.symbol
    /\ Opposes(intent.side, p.side)
    /\ intent.quantity <= p.quantity

CheckPositionSize(intent, snap, cfg) ==
  IF snap.equity <= 0
  THEN {"non_positive_equity"}
  ELSE Violated("position_size_exceeded",
                Exceeds(Notional(intent), snap.equity, cfg.maxPositionPctEquity))

(* Slip: the cap counts the positions there would be after the trade, and   *)
(* still lets one more through.                                             *)
CheckConcurrentOffByOne(intent, snap, cfg) ==
  Violated("max_concurrent_positions_exceeded",
           /\ \A p \in snap.positions : p.symbol # intent.symbol
           /\ Cardinality(snap.positions) > cfg.maxConcurrentPositions)

(* A trade on a symbol already held does not raise the count.               *)
CheckConcurrentPositions(intent, snap, cfg) ==
  Violated("max_concurrent_positions_exceeded",
           /\ \A p \in snap.positions : p.symbol # intent.symbol
           /\ Cardinality(snap.positions) >= cfg.maxConcurrentPositions)

(* What is already at stake in the group of the traded symbol, both sides   *)
(* added up.                                                                *)
GroupExposure(positions, groups, symbol) ==
  SumFunctionOnSet([p \in positions |-> p.notional],
                   {p \in positions : groups[p.symbol] = groups[symbol]})

CheckCorrelatedExposure(intent, snap, cfg) ==
  Violated("correlated_exposure_exceeded",
           /\ snap.groups[intent.symbol] # NoGroup
           /\ snap.equity > 0
           /\ Exceeds(GroupExposure(snap.positions, snap.groups, intent.symbol)
                        + Notional(intent),
                      snap.equity, cfg.maxCorrelatedExposurePct))

(* Slip: a breaker tripped earlier in the day is forgotten.                 *)
HaltedByLossOnly(snap, cfg) == CircuitBreakerShouldTrip(snap, cfg)

Halted(snap, cfg) == snap.tripped \/ CircuitBreakerShouldTrip(snap, cfg)

(* The kill switch is absolute, then the sanity check; the breaker and the  *)
(* sizing rules are reported together, and a pure reduction is exempt from  *)
(* the latter.                                                              *)
Evaluate(intent, snap, cfg) ==
  IF snap.killSwitchEngaged THEN {"kill_switch_engaged"}
  ELSE IF intent.quantity < 0 \/ intent.price < 0 THEN {"invalid_intent"}
  ELSE Violated("circuit_breaker_tripped", Halted(snap, cfg))
       \cup IF ReducesExistingPosition(intent, snap) THEN {}
            ELSE CheckPositionSize(intent, snap, cfg)
                 \cup CheckConcurrentPositions(intent, snap, cfg)
                 \cup CheckCorrelatedExposure(intent, snap, cfg)

IsApproved(intent, snap, cfg) == Evaluate(intent, snap, cfg) = {}
===========================================================================
