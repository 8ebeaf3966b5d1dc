----------------------------- MODULE Validators -----------------------------
(***************************************************************************)
(* The pure checks an order passes before any row exists: validators.rs    *)
(* over the exchange's rules for a symbol (types.rs SymbolMeta).  Decimals *)
(* are integers, multipliers are percents, and an Option is a set of at    *)
(* most one value.                                                         *)
(***************************************************************************)
EXTENDS Integers

None == {}
Some(x) == {x}

Within(x, low, high) == low <= x /\ x <= high

(* A step of zero aligns nothing.                                           *)
IsAligned(value, step) == step # 0 /\ value % step = 0

(* The general rule has one pair of multipliers, the other one a pair for   *)
(* bids and a pair for asks.                                                *)
Multipliers(rule, side) ==
  IF rule.kind = "general" THEN rule.both
  ELSE IF side = "buy" THEN rule.bid ELSE rule.ask

(* Without a reference price there is nothing to compare with; a stale one  *)
(* is good enough.                                                          *)
CheckPercentPrice(side, price, rule, estimate) ==
  \A est \in estimate :
    LET m == Multipliers(rule, side)
    IN  Within(price * 100, est.price * m.down, est.price * m.up)

CheckNotional(quantity, price, isMarket, filter) ==
  /\ \A min \in filter.minNotional :
       ~isMarket \/ filter.applyMinToMarket => quantity * price >= min
  /\ \A max \in filter.maxNotional :
       ~isMarket \/ filter.applyMaxToMarket => quantity * price <= max

ValidateLimit(intent, meta, estimate) ==
  \E price \in intent.price :
    /\ Within(price, meta.priceFilter.minPrice, meta.priceFilter.maxPrice)
    /\ IsAligned(price, meta.priceFilter.tickSize)
    /\ CheckPercentPrice(intent.side, price, meta.percentPrice, estimate)
    /\ CheckNotional(intent.quantity, price, FALSE, meta.notional)

ValidateMarket(intent, meta, estimate) ==
  \E est \in estimate :
    /\ est.isFresh
    /\ CheckNotional(intent.quantity, est.price, TRUE, meta.notional)

ValidateOrder(intent, meta, estimate) ==
  LET market == intent.orderType = "market"
      lot    == IF market THEN meta.marketLotSize ELSE meta.lotSize
  IN  /\ meta.status = "trading"
      /\ intent.orderType \in meta.allowedOrderTypes
      /\ Within(intent.quantity, lot.minQty, lot.maxQty)
      /\ IsAligned(intent.quantity, lot.stepSize)
      /\ IF market THEN ValidateMarket(intent, meta, estimate)
                   ELSE ValidateLimit(intent, meta, estimate)
=============================================================================
