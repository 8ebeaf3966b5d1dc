--------------------------- MODULE MCExchangeInfo ---------------------------
(***************************************************************************)
(* A symbol listed with all filters, or with one of them missing,          *)
(* undecodable or of the other kind, or halted; and another that does not  *)
(* always parse.                                                           *)
(***************************************************************************)
EXTENDS ExchangeInfo

CONSTANTS btc, eth

Filter(type, rule) == [type |-> type, broken |-> {}, rule |-> rule]
Broken(f, k) == [f EXCEPT !.broken = {k}]

Lot == Filter("LOT_SIZE", [minQty |-> 1, maxQty |-> 6, stepSize |-> 1])
MarketLot == Filter("MARKET_LOT_SIZE", [minQty |-> 2, maxQty |-> 4, stepSize |-> 2])
Price == Filter("PRICE_FILTER", [minPrice |-> 2, maxPrice |-> 8, tickSize |-> 2])
Notional ==
  Filter("NOTIONAL", [minNotional |-> Some(7), maxNotional |-> Some(15),
                      applyMinToMarket |-> TRUE, applyMaxToMarket |-> TRUE])
General == Filter("PERCENT_PRICE", [kind |-> "general", both |-> [down |-> 50, up |-> 150]])
BySide ==
  Filter("PERCENT_PRICE_BY_SIDE", [kind |-> "by_side",
                                   bid |-> [down |-> 50, up |-> 100],
                                   ask |-> [down |-> 100, up |-> 200]])

Entry(filters) ==
  [status |-> "TRADING", orderTypes |-> {"limit", "market", "stop_loss"},
   filters |-> filters]

AllFilters == {Lot, MarketLot, Price, Notional, BySide}

OfBtc ==
  {Entry(AllFilters),
   Entry((AllFilters \ {BySide}) \cup {General}),
   Entry((AllFilters \ {BySide}) \cup {Broken(BySide, "ask")}),
   [Entry(AllFilters) EXCEPT !.status = "HALT"]}
  \cup {Entry(AllFilters \ {f}) : f \in {Lot, MarketLot, Price, BySide}}
  \cup {Entry((AllFilters \ {Notional}) \cup {Broken(Notional, k)}) :
          k \in DOMAIN Notional.rule}

OfEth == {Entry(AllFilters), Entry((AllFilters \ {BySide}) \cup {Broken(BySide, "bid")})}

MCEntries == [s \in Symbols |-> IF s = btc THEN OfBtc ELSE OfEth]

MCIntents ==
  [orderType : {"limit"}, side : {"buy", "sell"}, quantity : {2, 3},
   price : {Some(2), Some(6)}]
  \cup
  [orderType : {"market"}, side : {"buy"}, quantity : 2 .. 4, price : {None}]

MCEstimates ==
  {None} \cup {Some(e) : e \in [price : {1, 4}, isFresh : {TRUE}]
                              \cup [price : {4}, isFresh : {FALSE}]}
=============================================================================
