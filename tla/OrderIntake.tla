---------------------------- MODULE OrderIntake ----------------------------
(***************************************************************************)
(* What an order meets before and after its transaction: place_order       *)
(* (routes_orders.rs) looks up the symbol, takes a price estimate,         *)
(* validates and chooses the price the risk engine sees; later the paper   *)
(* adapter fills it (matching_engine.rs).  All of it looks at the same     *)
(* market feed, at different times, while the loops rewrite the feed.      *)
(***************************************************************************)
EXTENDS MarketFeed, Validators

CONSTANTS
  Requests,  \* concurrent requests
  Intents,   \* what they may ask for
  Rules      \* the exchange's filters for each symbol

ASSUME IntakeAssumption ==
  /\ \A i \in Intents : /\ i.symbol \in Symbols
                        /\ i.side \in {"buy", "sell"}
                        /\ i.orderType \in {"market", "limit"}
                        /\ \A p \in i.price : p \in Nat /\ i.price = Some(p)
  /\ \A s \in Symbols : "status" \in DOMAIN Rules[s]

VARIABLE request

vars == <<feedVars, request>>

NoRequest == [at |-> "none"]

Init == FeedInit /\ request = [r \in Requests |-> NoRequest]

Refuse(r) == request' = [request EXCEPT ![r] = NoRequest]

(* symbols.get, first half: the stamp.                                      *)
CheckStamp(r, intent) ==
  /\ request[r] = NoRequest
  /\ ~IsStale
  /\ request' = [request EXCEPT ![r] =
                   [at |-> "stamp_checked", intent |-> intent, since |-> now]]
  /\ UNCHANGED feedVars

(* The second half: the entry, which replace_all may be rewriting.          *)
LookUp(r) ==
  LET q == request[r] IN
  /\ q.at = "stamp_checked"
  /\ IF metas[q.intent.symbol] = Absent
     THEN Refuse(r)
     ELSE request' = [request EXCEPT ![r] =
            [at |-> "looked_up", intent |-> q.intent, since |-> q.since,
             status |-> metas[q.intent.symbol]]]
  /\ UNCHANGED feedVars

(* The entry as validate_order sees it.                                     *)
SymbolMeta(q) == [Rules[q.intent.symbol] EXCEPT !.status = q.status]

(* The price the risk engine is asked about: the request's, else the        *)
(* estimate's, else zero.                                                   *)
EvaluationPrice(intent, estimate) ==
  IF intent.price # None THEN CHOOSE p \in intent.price : TRUE
  ELSE IF estimate # None THEN (CHOOSE e \in estimate : TRUE).price
  ELSE 0

(* Estimate and validation, under the lock on the market data.  The         *)
(* transaction that follows looks at none of it; the risk engine may refuse *)
(* the order there.                                                         *)
Validate(r) ==
  LET q   == request[r]
      est == ConservativeEstimate(q.intent.symbol, q.intent.side)
  IN
  /\ q.at = "looked_up"
  /\ \/ /\ ValidateOrder(q.intent, SymbolMeta(q), est)
        /\ request' = [request EXCEPT ![r] =
             [at |-> "placed", intent |-> q.intent,
              evaluated |-> EvaluationPrice(q.intent, est)]]
     \/ Refuse(r)
  /\ UNCHANGED feedVars

(* Slip: the two sides are mixed up.                                        *)
TouchedOtherWay(side, price, limit) ==
  IF side = "buy" THEN price >= limit ELSE price <= limit

Touched(side, price, limit) ==
  IF side = "buy" THEN price <= limit ELSE price >= limit

(* try_fill: on a fresh estimate, for a limit order only if it is touched;  *)
(* at the estimate's price.                                                 *)
FillFrom(intent, estimate) ==
  {est \in estimate :
     /\ est.isFresh
     /\ intent.orderType = "limit" =>
          \E limit \in intent.price : Touched(intent.side, est.price, limit)}

(* A reconcile of a placed order that fills it.                             *)
Fill(r) ==
  LET q == request[r]
      intent == q.intent
  IN
  /\ q.at = "placed"
  /\ \E est \in FillFrom(intent, ConservativeEstimate(intent.symbol, intent.side)) :
       request' = [request EXCEPT ![r] =
         [at |-> "filled", intent |-> intent, evaluated |-> q.evaluated,
          price |-> est.price]]
  /\ UNCHANGED feedVars

Next ==
  \/ FeedNext /\ UNCHANGED request
  \/ \E r \in Requests :
       \/ \E i \in Intents : CheckStamp(r, i)
       \/ LookUp(r) \/ Validate(r) \/ Fill(r)

Spec == Init /\ [][Next]_vars

---------------------------------------------------------------------------
(* Types of the feed (symbol_metadata.rs, market_data.rs) and of requests.  *)
Top == [bid : Nat \ {0}, ask : Nat \ {0}, lastUpdate : Nat, asOf : Nat]

TypeOK ==
  /\ now \in 0 .. MaxTime
  /\ venueStatus \in [Symbols -> SymbolStatus]
  /\ lastTraded \in [Symbols -> Int]
  /\ metas \in [Symbols -> SymbolStatus]
  /\ refreshedAt \subseteq Nat /\ Cardinality(refreshedAt) <= 1
  /\ refresher.at \in {"asleep", "fetched", "inserting"}
  /\ \A s \in Symbols : books[s] \subseteq Top /\ Cardinality(books[s]) <= 1
  /\ poller.at \in {"asleep", "fetched"}
  /\ \A r \in Requests :
       request[r].at \in {"none", "stamp_checked", "looked_up", "placed",
                          "filled"}

Placed(r) == request[r].at # "placed" /\ request'[r].at = "placed"
Filled(r) == request[r].at # "filled" /\ request'[r].at = "filled"

EstimateFor(i) == ConservativeEstimate(i.symbol, i.side)

(* The store fails closed: an order passes validation only if its symbol    *)
(* was trading at the venue at most MetadataMaxAge, and the time an answer  *)
(* takes to be stored, before the request looked it up - whatever refreshes *)
(* failed or were half done (SymbolMetadataStore::get, replace_all).        *)
HaltRespected ==
  [][\A r \in Requests : Placed(r) =>
       lastTraded[request[r].intent.symbol]
         >= request[r].since - (MetadataMaxAge + MaxLatency)]_vars

(* The feed fails closed: a market order is sized, and any order is filled, *)
(* at a price the venue showed at most BookMaxAge, and the time an answer   *)
(* takes, before (is_fresh, checked by validate_market and by try_fill).    *)
PricesAreRecent ==
  [][\A r \in Requests :
       LET i == request[r].intent IN
       Filled(r) \/ (Placed(r) /\ i.orderType = "market") =>
         \E e \in EstimateFor(i) : now - e.asOf <= BookMaxAge + MaxLatency]_vars

(* A limit buy never costs more than the price the risk engine approved it  *)
(* at, however the market has moved since (evaluation_price, try_fill).     *)
LimitBuyCovered ==
  \A r \in Requests :
    LET q == request[r] IN
    q.at = "filled" /\ q.intent.orderType = "limit" /\ q.intent.side = "buy"
      => q.price <= q.evaluated

(* types.rs: the price of an intent is ignored for market orders, so the    *)
(* risk engine is asked about the market's price, whatever price the        *)
(* request carries.                                                         *)
MarketOrderSizedAtMarket ==
  [][\A r \in Requests :
       LET i == request[r].intent IN
       Placed(r) /\ i.orderType = "market" =>
         \E e \in EstimateFor(i) : request'[r].evaluated = e.price]_vars
============================================================================
