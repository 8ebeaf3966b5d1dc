---------------------------- MODULE ExchangeInfo ----------------------------
(***************************************************************************)
(* From the exchange's answer to an order's verdict: parse_symbol_meta     *)
(* turns an entry of exchangeInfo into a SymbolMeta, fetch_exchange_info   *)
(* takes all entries or none (rest.rs), and validate_order (validators.rs) *)
(* checks orders against what was taken last.                              *)
(*                                                                         *)
(* A listed filter has a type, a rule as in Validators, and the set of the *)
(* rule's fields that are missing or undecodable in the answer.  Decimals  *)
(* are integers up to MaxDecimal; multipliers are percents.                *)
(***************************************************************************)
EXTENDS Validators

CONSTANTS
  Symbols,
  Entries,    \* for each symbol, the entries the exchange may list
  Intents,    \* orders a client may ask for
  Estimates,  \* estimates there may be: {} or {an estimate}
  MaxDecimal

(* What dec_field decodes for each type of filter.                          *)
Multiplier == [down : Int, up : Int]
RuleTyped(f) ==
  \/ /\ f.type \in {"LOT_SIZE", "MARKET_LOT_SIZE"}
     /\ f.rule \in [minQty : Nat, maxQty : Nat, stepSize : Nat]
  \/ /\ f.type = "PRICE_FILTER"
     /\ f.rule \in [minPrice : Nat, maxPrice : Nat, tickSize : Nat]
  \/ /\ f.type = "NOTIONAL"
     /\ f.rule \in [minNotional : SUBSET Int, maxNotional : SUBSET Int,
                    applyMinToMarket : BOOLEAN, applyMaxToMarket : BOOLEAN]
  \/ /\ f.type = "PERCENT_PRICE"
     /\ f.rule \in [kind : {"general"}, both : Multiplier]
  \/ /\ f.type = "PERCENT_PRICE_BY_SIDE"
     /\ f.rule \in [kind : {"by_side"}, bid : Multiplier, ask : Multiplier]

PercentFilters == {"PERCENT_PRICE", "PERCENT_PRICE_BY_SIDE"}

(* The exchange lists a filter once, and one of the two kinds of percent    *)
(* price; the route refuses a quantity that is not positive.                *)
ASSUME ExchangeInfoAssumption ==
  /\ \A s \in Symbols : \A entry \in Entries[s] : \A f, g \in entry.filters :
       /\ RuleTyped(f) /\ f.broken \subseteq DOMAIN f.rule
       /\ f.type = g.type \/ {f.type, g.type} \subseteq PercentFilters => f = g
  /\ \A i \in Intents : /\ i.orderType \in {"market", "limit"}
                        /\ i.side \in {"buy", "sell"}
                        /\ i.quantity \in Nat \ {0}
                        /\ \A p \in i.price : p \in Int /\ i.price = Some(p)
  /\ \A estimate \in Estimates : \A e \in estimate :
       e.price \in Int /\ estimate = Some(e)

VARIABLES
  listing,    \* the exchange's truth
  store,      \* SymbolMetadataStore: no entry or one for each symbol
  taken,      \* the listing the store was taken from (history)
  request     \* the last request and its outcome

vars == <<listing, store, taken, request>>

NoRequest == [outcome |-> "none"]

Init ==
  /\ listing \in {l \in [Symbols -> UNION {Entries[s] : s \in Symbols}] :
                   \A s \in Symbols : l[s] \in Entries[s]}
  /\ store = [s \in Symbols |-> None]
  /\ taken = [s \in Symbols |-> None]
  /\ request = NoRequest

---------------------------------------------------------------------------
(* parse_symbol_meta *)

(* What stands for a filter that is not listed.  A step of zero accepts no  *)
(* value at all, and no price is above the largest decimal.                 *)
AnyLot == [minQty |-> 0, maxQty |-> MaxDecimal, stepSize |-> 0]
AnyPrice == [minPrice |-> 0, maxPrice |-> MaxDecimal, tickSize |-> 0]
AnyNotional == [minNotional |-> None, maxNotional |-> None,
                applyMinToMarket |-> FALSE, applyMaxToMarket |-> FALSE]
AnyPercent == [kind |-> "general", both |-> [down |-> 0, up |-> 100 * MaxDecimal]]

RuleOf(entry, types, default) ==
  LET listed == {f \in entry.filters : f.type \in types}
  IN  IF listed = {} THEN default ELSE (CHOOSE f \in listed : TRUE).rule

(* What of a notional filter does not decode.                               *)
BrokenNotional(entry) ==
  UNION {f.broken : f \in {g \in entry.filters : g.type = "NOTIONAL"}}

(* Slip: one field that does not decode takes the whole filter with it.     *)
NotionalOfWholeOnly(entry) ==
  IF BrokenNotional(entry) # {} THEN AnyNotional
  ELSE RuleOf(entry, {"NOTIONAL"}, AnyNotional)

(* A bound on the notional that does not decode is no bound, and a flag that*)
(* does not says no.                                                        *)
NotionalOf(entry) ==
  LET listed == RuleOf(entry, {"NOTIONAL"}, AnyNotional)
      read(k) == IF k \in BrokenNotional(entry) THEN AnyNotional[k] ELSE listed[k]
  IN  [minNotional      |-> read("minNotional"),
       maxNotional      |-> read("maxNotional"),
       applyMinToMarket |-> read("applyMinToMarket"),
       applyMaxToMarket |-> read("applyMaxToMarket")]

(* Any other number that does not decode is an error.                       *)
Parses(entry) == \A f \in entry.filters : f.broken # {} => f.type = "NOTIONAL"

ParseSymbolMeta(entry) ==
  [status            |-> IF entry.status = "TRADING" THEN "trading" ELSE "halt",
   allowedOrderTypes |-> entry.orderTypes \cap {"limit", "market"},
   lotSize           |-> RuleOf(entry, {"LOT_SIZE"}, AnyLot),
   marketLotSize     |-> RuleOf(entry, {"MARKET_LOT_SIZE"}, AnyLot),
   priceFilter       |-> RuleOf(entry, {"PRICE_FILTER"}, AnyPrice),
   notional          |-> NotionalOf(entry),
   percentPrice      |-> RuleOf(entry, PercentFilters, AnyPercent)]

---------------------------------------------------------------------------
(* The refresh loop: one entry that does not parse leaves the store as it   *)
(* was.                                                                     *)
FetchExchangeInfo ==
  /\ \A s \in Symbols : Parses(listing[s])
  /\ store' = [s \in Symbols |-> Some(ParseSymbolMeta(listing[s]))]
  /\ taken' = [s \in Symbols |-> Some(listing[s])]
  /\ UNCHANGED <<listing, request>>

(* rust_decimal's product panics where it does not fit; the bounds of       *)
(* check_percent_price are computed once all checks before it have passed.  *)
Overflows(intent, meta, estimate) ==
  /\ intent.orderType = "limit"
  /\ ValidateOrder(intent, [meta EXCEPT !.percentPrice = AnyPercent,
                                        !.notional = AnyNotional], None)
  /\ \E e \in estimate :
       e.price * Multipliers(meta.percentPrice, intent.side).up > 100 * MaxDecimal

Outcome(intent, meta, estimate) ==
  IF Overflows(intent, meta, estimate) THEN "panicked"
  ELSE IF ValidateOrder(intent, meta, estimate) THEN "accepted" ELSE "refused"

(* place_order up to its transaction.                                       *)
PlaceOrder(s, intent, estimate) ==
  /\ \E meta \in store[s] :
       request' = [outcome  |-> Outcome(intent, meta, estimate),
                   symbol   |-> s,
                   intent   |-> intent,
                   estimate |-> estimate,
                   under    |-> taken[s]]
  /\ UNCHANGED <<listing, store, taken>>

ListingChanges(s) ==
  /\ \E e \in Entries[s] : listing' = [listing EXCEPT ![s] = e]
  /\ UNCHANGED <<store, taken, request>>

Next ==
  \/ FetchExchangeInfo
  \/ \E s \in Symbols :
       \/ ListingChanges(s)
       \/ \E i \in Intents, e \in Estimates : PlaceOrder(s, i, e)

Spec == Init /\ [][Next]_vars

---------------------------------------------------------------------------
(* What the exchange's rules say of an order, filter by filter, but for the *)
(* fields of its notional filter in unread.                                 *)
Bounds(rule, side) ==
  IF rule.kind = "general" THEN rule.both
  ELSE IF side = "sell" THEN rule.ask ELSE rule.bid

(* A bound on the notional binds limit orders, and market ones if its flag  *)
(* says so.                                                                 *)
Binds(rule, bound, flag, market, unread) ==
  bound \notin unread /\ (market => flag \notin unread /\ rule[flag])

Satisfies(intent, f, estimate, unread) ==
  LET market == intent.orderType = "market"
      rule   == f.rule
      prices == IF market THEN {e.price : e \in estimate} ELSE intent.price
  IN
  CASE f.type \in {"LOT_SIZE", "MARKET_LOT_SIZE"} ->
         (f.type = "MARKET_LOT_SIZE") = market =>
           \E k \in rule.minQty .. rule.maxQty :
             k = intent.quantity /\ \E n \in 0 .. k : k = n * rule.stepSize
    [] f.type = "PRICE_FILTER" ->
         ~market =>
           \A p \in prices : \E n \in 0 .. p :
             p = n * rule.tickSize /\ p \in rule.minPrice .. rule.maxPrice
    [] f.type = "NOTIONAL" ->
         \A p \in prices :
           /\ Binds(rule, "minNotional", "applyMinToMarket", market, unread) =>
                \A min \in rule.minNotional : min <= p * intent.quantity
           /\ Binds(rule, "maxNotional", "applyMaxToMarket", market, unread) =>
                \A max \in rule.maxNotional : p * intent.quantity <= max
    [] OTHER ->
         ~market =>
           \A p \in prices, e \in estimate :
             p * 100 \in e.price * Bounds(rule, intent.side).down ..
                         e.price * Bounds(rule, intent.side).up

(* An order the listing of its symbol accepts, but for those fields: its    *)
(* type's lot filter is listed, and it satisfies every filter that is.      *)
Fit(intent, entry, estimate, unread) ==
  /\ entry.status = "TRADING"
  /\ intent.orderType \in entry.orderTypes
  /\ \E f \in entry.filters :
       f.type = IF intent.orderType = "market" THEN "MARKET_LOT_SIZE" ELSE "LOT_SIZE"
  /\ \A f \in entry.filters : Satisfies(intent, f, estimate, unread)

(* An accepted order satisfies everything that could be decoded of the      *)
(* filters of the listing the store was taken from, and its type's lot      *)
(* filter is one of them: a filter that is not listed is not taken for a    *)
(* permission, a bound on the notional is not lost with its neighbour, and  *)
(* whatever failed to parse since has changed nothing (parse_symbol_meta,   *)
(* validate_order).  What could not be decoded is not promised: see         *)
(* WholeListingFits.                                                        *)
AcceptedOrdersFit ==
  request.outcome = "accepted" =>
    \A entry \in request.under :
      Fit(request.intent, entry, request.estimate, BrokenNotional(entry))

(* What the code does not keep: an accepted order satisfies every filter as *)
(* the exchange lists it.  A minNotional or maxNotional that does not decode*)
(* counts as no bound, and an applyMinToMarket or applyMaxToMarket as false *)
(* (rest.rs parse_symbol_meta), where any other field fails the refresh.    *)
WholeListingFits ==
  request.outcome = "accepted" =>
    \A entry \in request.under :
      Fit(request.intent, entry, request.estimate, {})

(* ARCHITECTURE.md, validators.rs: filter validation accepts an order or    *)
(* rejects it, before any transaction.                                      *)
ValidationAnswers == request.outcome \in {"none", "accepted", "refused"}
=============================================================================
