--------------------------- MODULE MCOrderIntake ---------------------------
(***************************************************************************)
(* One symbol, one request of either type: filters tight enough that the   *)
(* price and the notional checks each refuse an intent at some price.      *)
(***************************************************************************)
EXTENDS OrderIntake

CONSTANT btc

EmptyLowHigh == {[bid |-> 0, ask |-> 0], [bid |-> 2, ask |-> 3],
                 [bid |-> 3, ask |-> 4]}

Filters ==
  [s \in Symbols |->
    [status |-> "trading",
     allowedOrderTypes |-> {"market", "limit"},
     lotSize       |-> [minQty |-> 1, maxQty |-> 4, stepSize |-> 1],
     marketLotSize |-> [minQty |-> 1, maxQty |-> 4, stepSize |-> 2],
     priceFilter   |-> [minPrice |-> 1, maxPrice |-> 8, tickSize |-> 1],
     percentPrice  |-> [kind |-> "by_side",
                        bid |-> [down |-> 50, up |-> 90],
                        ask |-> [down |-> 100, up |-> 200]],
     notional      |-> [minNotional |-> Some(7), maxNotional |-> None,
                        applyMinToMarket |-> TRUE,
                        applyMaxToMarket |-> FALSE]]]

Order(side, orderType, quantity, price) ==
  [symbol |-> btc, side |-> side, orderType |-> orderType,
   quantity |-> quantity, price |-> price]

MarketAndLimit ==
  {Order("buy", "market", 2, None),
   Order("buy", "limit", 3, Some(3)), Order("sell", "limit", 3, Some(3))}

(* A market order may carry a price.                                        *)
PricedMarket == {Order("buy", "market", 2, Some(1))}
============================================================================
