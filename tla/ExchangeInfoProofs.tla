------------------------- MODULE ExchangeInfoProofs -------------------------
(***************************************************************************)
(* A machine-checked proof that an order validate_order accepts satisfies  *)
(* all that parse_symbol_meta could decode of the filters the exchange     *)
(* lists, for any listings, orders and estimates.  A filter is softened on *)
(* the way only where a field of a notional filter does not decode.        *)
(***************************************************************************)
EXTENDS ExchangeInfo, TLAPS

---------------------------------------------------------------------------
(* What parse_symbol_meta keeps of a filter *)

(* The rule of a filter listed alone for its field is the one taken.        *)
LEMMA RuleListed ==
  ASSUME NEW entry, NEW types, NEW default, NEW f \in entry.filters,
         f.type \in types, \A g \in entry.filters : g.type \in types => g = f
  PROVE  RuleOf(entry, types, default) = f.rule
<1> DEFINE listed == {g \in entry.filters : g.type \in types}
<1>1. listed = {f}
  OBVIOUS
<1>2. (CHOOSE g \in listed : TRUE) = f
  BY <1>1
<1> QED BY <1>1, <1>2 DEF RuleOf

(* Without one the default is taken.                                        *)
LEMMA RuleNotListed ==
  ASSUME NEW entry, NEW types, NEW default,
         \A g \in entry.filters : g.type \notin types
  PROVE  RuleOf(entry, types, default) = default
BY DEF RuleOf

(* is_aligned accepts multiples of the step, and of a step of zero nothing. *)
LEMMA AlignedIsMultiple ==
  ASSUME NEW k \in Nat, NEW step \in Nat, IsAligned(k, step)
  PROVE  \E n \in 0 .. k : k = n * step
<1>1. step \in Nat \ {0} /\ k % step = 0
  BY DEF IsAligned
<1>2. k \div step \in Nat
  BY <1>1
<1>3. k = (k \div step) * step
  <2>1. k = (k \div step) * step + (k % step)
    BY <1>1
  <2> QED BY <1>1, <1>2, <2>1
<1>4. k \div step <= k
  <2> DEFINE n == k \div step
  <2>1. n \in Nat /\ step - 1 \in Nat /\ k = n * step
    BY <1>1, <1>2, <1>3
  <2> HIDE DEF n
  <2>2. n * (step - 1) >= 0 /\ n * step = n * (step - 1) + n
    BY <2>1
  <2>3. n * (step - 1) \in Int
    BY <2>1
  <2>4. n <= k
    BY <2>1, <2>2, <2>3
  <2> QED BY <2>4 DEF n
<1> QED BY <1>2, <1>3, <1>4

---------------------------------------------------------------------------
(* What validate_order checks is what each filter asks for *)

(* A lot filter of the order's own type.                                    *)
LEMMA LotSatisfied ==
  ASSUME NEW s \in Symbols, NEW entry \in Entries[s], NEW i \in Intents, NEW unread,
         NEW estimate, ValidateOrder(i, ParseSymbolMeta(entry), estimate)
  PROVE  LET type == IF i.orderType = "market" THEN "MARKET_LOT_SIZE" ELSE "LOT_SIZE"
         IN  /\ \E f \in entry.filters : f.type = type
             /\ \A f \in entry.filters : f.type = type => Satisfies(i, f, estimate, unread)
<1> DEFINE type == IF i.orderType = "market" THEN "MARKET_LOT_SIZE" ELSE "LOT_SIZE"
           lot  == RuleOf(entry, {type}, AnyLot)
<1>1. Within(i.quantity, lot.minQty, lot.maxQty) /\ IsAligned(i.quantity, lot.stepSize)
  BY DEF ValidateOrder, ParseSymbolMeta
<1>2. \E f \in entry.filters : f.type = type
  <2> SUFFICES ASSUME \A f \in entry.filters : f.type # type PROVE FALSE
    OBVIOUS
  <2>1. lot = AnyLot
    BY RuleNotListed
  <2> QED BY <1>1, <2>1 DEF AnyLot, IsAligned
<1>3. ASSUME NEW f \in entry.filters, f.type = type PROVE Satisfies(i, f, estimate, unread)
  <2>1. lot = f.rule
    BY <1>3, ExchangeInfoAssumption, RuleListed
  <2>2. f.rule \in [minQty : Nat, maxQty : Nat, stepSize : Nat] /\ i.quantity \in Nat
    BY <1>3, ExchangeInfoAssumption DEF RuleTyped
  <2>3. \E n \in 0 .. i.quantity : i.quantity = n * f.rule.stepSize
    BY <1>1, <2>1, <2>2, AlignedIsMultiple
  <2>4. i.quantity \in f.rule.minQty .. f.rule.maxQty
    BY <1>1, <2>1, <2>2 DEF Within
  <2> HIDE DEF lot
  <2> QED BY <1>3, <2>3, <2>4 DEF Satisfies
<1> QED BY <1>2, <1>3

(* A limit order has its one price checked.                                 *)
LEMMA LimitValidated ==
  ASSUME NEW i \in Intents, NEW meta, NEW estimate,
         ValidateOrder(i, meta, estimate), i.orderType # "market", NEW p \in i.price
  PROVE  /\ p \in Int
         /\ Within(p, meta.priceFilter.minPrice, meta.priceFilter.maxPrice)
         /\ IsAligned(p, meta.priceFilter.tickSize)
         /\ CheckPercentPrice(i.side, p, meta.percentPrice, estimate)
         /\ CheckNotional(i.quantity, p, FALSE, meta.notional)
<1>1. ValidateLimit(i, meta, estimate)
  BY DEF ValidateOrder
<1>2. i.price = {p} /\ p \in Int
  BY ExchangeInfoAssumption DEF Some
<1> QED BY <1>1, <1>2 DEF ValidateLimit

(* A market order its one estimate.                                         *)
LEMMA MarketValidated ==
  ASSUME NEW i \in Intents, NEW meta, NEW estimate \in Estimates,
         ValidateOrder(i, meta, estimate), i.orderType = "market", NEW e \in estimate
  PROVE  e.price \in Int /\ CheckNotional(i.quantity, e.price, TRUE, meta.notional)
<1>1. ValidateMarket(i, meta, estimate)
  BY DEF ValidateOrder
<1>2. estimate = {e} /\ e.price \in Int
  BY ExchangeInfoAssumption DEF Some
<1> QED BY <1>1, <1>2 DEF ValidateMarket

(* The price filter.                                                        *)
LEMMA PriceSatisfied ==
  ASSUME NEW s \in Symbols, NEW entry \in Entries[s], NEW i \in Intents, NEW unread,
         NEW estimate, ValidateOrder(i, ParseSymbolMeta(entry), estimate),
         NEW f \in entry.filters, f.type = "PRICE_FILTER"
  PROVE  Satisfies(i, f, estimate, unread)
<1> SUFFICES ASSUME i.orderType # "market", NEW p \in i.price
             PROVE  \E n \in 0 .. p : /\ p = n * f.rule.tickSize
                                      /\ p \in f.rule.minPrice .. f.rule.maxPrice
  BY DEF Satisfies
<1>1. RuleOf(entry, {"PRICE_FILTER"}, AnyPrice) = f.rule
  BY ExchangeInfoAssumption, RuleListed
<1>2. /\ Within(p, f.rule.minPrice, f.rule.maxPrice)
      /\ IsAligned(p, f.rule.tickSize)
  <2>1. ParseSymbolMeta(entry).priceFilter = f.rule
    BY <1>1 DEF ParseSymbolMeta
  <2> QED BY <2>1, LimitValidated
<1>3. f.rule \in [minPrice : Nat, maxPrice : Nat, tickSize : Nat] /\ p \in Int
  BY ExchangeInfoAssumption DEF RuleTyped
<1>4. p \in Nat /\ p \in f.rule.minPrice .. f.rule.maxPrice
  BY <1>2, <1>3 DEF Within
<1> QED BY <1>2, <1>3, <1>4, AlignedIsMultiple

(* What decodes of a notional filter is kept, each field by itself.         *)
LEMMA NotionalKept ==
  ASSUME NEW s \in Symbols, NEW entry \in Entries[s],
         NEW f \in entry.filters, f.type = "NOTIONAL"
  PROVE  LET filter == NotionalOf(entry) IN
         /\ "minNotional" \notin BrokenNotional(entry) =>
              filter.minNotional = f.rule.minNotional
         /\ "maxNotional" \notin BrokenNotional(entry) =>
              filter.maxNotional = f.rule.maxNotional
         /\ "applyMinToMarket" \notin BrokenNotional(entry) =>
              filter.applyMinToMarket = f.rule.applyMinToMarket
         /\ "applyMaxToMarket" \notin BrokenNotional(entry) =>
              filter.applyMaxToMarket = f.rule.applyMaxToMarket
<1>1. \A g \in entry.filters : g.type = "NOTIONAL" => g = f
  BY ExchangeInfoAssumption
<1>2. RuleOf(entry, {"NOTIONAL"}, AnyNotional) = f.rule
  BY <1>1, RuleListed
<1> QED BY <1>2 DEF NotionalOf

(* The bounds on the notional, at the limit or at the estimate, as far as   *)
(* they and, for a market order, their flags decoded.                       *)
LEMMA NotionalSatisfied ==
  ASSUME NEW s \in Symbols, NEW entry \in Entries[s], NEW i \in Intents,
         NEW estimate \in Estimates, ValidateOrder(i, ParseSymbolMeta(entry), estimate),
         NEW f \in entry.filters, f.type = "NOTIONAL"
  PROVE  Satisfies(i, f, estimate, BrokenNotional(entry))
<1> DEFINE market == i.orderType = "market"
           prices == IF market THEN {e.price : e \in estimate} ELSE i.price
           filter == NotionalOf(entry)
           unread == BrokenNotional(entry)
<1>1. /\ f.rule \in [minNotional : SUBSET Int, maxNotional : SUBSET Int,
                     applyMinToMarket : BOOLEAN, applyMaxToMarket : BOOLEAN]
      /\ i.quantity \in Int
  BY ExchangeInfoAssumption DEF RuleTyped
<1>2. \A p \in prices : p \in Int /\ CheckNotional(i.quantity, p, market, filter)
  <2>0. ParseSymbolMeta(entry).notional = filter
    BY DEF ParseSymbolMeta
  <2>1. CASE market
    <3> SUFFICES ASSUME NEW e \in estimate
                 PROVE  /\ e.price \in Int
                        /\ CheckNotional(i.quantity, e.price, TRUE, filter)
      BY <2>1
    <3> QED BY <2>0, <2>1, MarketValidated
  <2>2. CASE ~market
    <3> SUFFICES ASSUME NEW p \in i.price
                 PROVE  p \in Int /\ CheckNotional(i.quantity, p, FALSE, filter)
      BY <2>2
    <3> QED BY <2>0, <2>2, LimitValidated
  <2> QED BY <2>1, <2>2
<1>3. ASSUME NEW p \in prices
      PROVE  /\ Binds(f.rule, "minNotional", "applyMinToMarket", market, unread) =>
                  \A min \in f.rule.minNotional : min <= p * i.quantity
             /\ Binds(f.rule, "maxNotional", "applyMaxToMarket", market, unread) =>
                  \A max \in f.rule.maxNotional : p * i.quantity <= max
  <2>1. p \in Int /\ CheckNotional(i.quantity, p, market, filter)
    BY <1>2
  <2>2. p * i.quantity = i.quantity * p /\ p * i.quantity \in Int
    BY <1>1, <2>1
  <2>3. /\ \A min \in filter.minNotional :
               ~market \/ filter.applyMinToMarket => p * i.quantity >= min
        /\ \A max \in filter.maxNotional :
               ~market \/ filter.applyMaxToMarket => p * i.quantity <= max
    BY <2>1, <2>2 DEF CheckNotional
  <2>4. ASSUME Binds(f.rule, "minNotional", "applyMinToMarket", market, unread),
               NEW min \in f.rule.minNotional
        PROVE  min <= p * i.quantity
    <3>1. min \in filter.minNotional /\ (~market \/ filter.applyMinToMarket)
      BY <2>4, NotionalKept DEF Binds
    <3> QED BY <1>1, <2>2, <2>3, <3>1
  <2>5. ASSUME Binds(f.rule, "maxNotional", "applyMaxToMarket", market, unread),
               NEW max \in f.rule.maxNotional
        PROVE  p * i.quantity <= max
    <3>1. max \in filter.maxNotional /\ (~market \/ filter.applyMaxToMarket)
      BY <2>5, NotionalKept DEF Binds
    <3> QED BY <2>3, <3>1
  <2> QED BY <2>4, <2>5
<1> HIDE DEF filter, unread
<1> QED BY <1>3 DEF Satisfies, unread

(* The percent of the estimate a limit may be away.                         *)
LEMMA PercentSatisfied ==
  ASSUME NEW s \in Symbols, NEW entry \in Entries[s], NEW i \in Intents, NEW unread,
         NEW estimate \in Estimates, ValidateOrder(i, ParseSymbolMeta(entry), estimate),
         NEW f \in entry.filters, f.type \in PercentFilters
  PROVE  Satisfies(i, f, estimate, unread)
<1> DEFINE m == Bounds(f.rule, i.side)
<1>1. RuleOf(entry, PercentFilters, AnyPercent) = f.rule
  <2>1. \A g \in entry.filters : g.type \in PercentFilters => g = f
    BY ExchangeInfoAssumption
  <2> QED BY <2>1, RuleListed
<1>2. m = Multipliers(f.rule, i.side) /\ m \in Multiplier
  <2>1. i.side \in {"buy", "sell"} /\ RuleTyped(f)
    BY ExchangeInfoAssumption
  <2> QED BY <2>1 DEF Bounds, Multipliers, RuleTyped, PercentFilters
<1>3. ASSUME i.orderType # "market", NEW p \in i.price, NEW e \in estimate
      PROVE  p * 100 \in e.price * m.down .. e.price * m.up
  <2>1. CheckPercentPrice(i.side, p, f.rule, estimate)
    <3>1. ParseSymbolMeta(entry).percentPrice = f.rule
      BY <1>1 DEF ParseSymbolMeta
    <3> QED BY <1>3, <3>1, LimitValidated
  <2>2. Within(p * 100, e.price * m.down, e.price * m.up)
    BY <1>2, <2>1 DEF CheckPercentPrice
  <2>3. p \in Int /\ e.price \in Int /\ m.down \in Int /\ m.up \in Int
    BY <1>2, ExchangeInfoAssumption DEF Multiplier
  <2>4. e.price * m.down \in Int /\ e.price * m.up \in Int /\ p * 100 \in Int
    BY <2>3
  <2> HIDE DEF m
  <2> QED BY <2>2, <2>4 DEF Within
<1> HIDE DEF m
<1> QED BY <1>3 DEF Satisfies, PercentFilters, m

---------------------------------------------------------------------------
(* The theorem *)

(* What the parsed metadata accepts, the listing accepts by what decoded.   *)
LEMMA ValidatedFit ==
  ASSUME NEW s \in Symbols, NEW entry \in Entries[s], NEW i \in Intents,
         NEW estimate \in Estimates, ValidateOrder(i, ParseSymbolMeta(entry), estimate)
  PROVE  Fit(i, entry, estimate, BrokenNotional(entry))
<1> DEFINE lotType == IF i.orderType = "market" THEN "MARKET_LOT_SIZE" ELSE "LOT_SIZE"
<1>1. entry.status = "TRADING" /\ i.orderType \in entry.orderTypes
  BY DEF ValidateOrder, ParseSymbolMeta
<1>2. \E f \in entry.filters : f.type = lotType
  BY LotSatisfied
<1>3. ASSUME NEW f \in entry.filters
      PROVE  Satisfies(i, f, estimate, BrokenNotional(entry))
  <2>1. RuleTyped(f)
    BY ExchangeInfoAssumption
  <2>2. CASE f.type = lotType
    BY <2>2, LotSatisfied
  <2>3. CASE f.type \in {"LOT_SIZE", "MARKET_LOT_SIZE"} \ {lotType}
    BY <2>3 DEF Satisfies
  <2>4. CASE f.type = "PRICE_FILTER"
    BY <2>4, PriceSatisfied
  <2>5. CASE f.type = "NOTIONAL"
    BY <2>5, NotionalSatisfied
  <2>6. CASE f.type \in PercentFilters
    BY <2>6, PercentSatisfied
  <2> QED BY <2>1, <2>2, <2>3, <2>4, <2>5, <2>6 DEF RuleTyped, PercentFilters
<1> QED BY <1>1, <1>2, <1>3 DEF Fit

(* The store holds what a listing of the exchange parses to.                *)
StoreSound ==
  /\ listing \in [Symbols -> UNION {Entries[s] : s \in Symbols}]
  /\ \A s \in Symbols : listing[s] \in Entries[s]
  /\ \A s \in Symbols :
       \/ store[s] = None
       \/ \E entry \in Entries[s] :
            store[s] = Some(ParseSymbolMeta(entry)) /\ taken[s] = Some(entry)

(* An accepted order satisfies all that decoded of the filters of the       *)
(* listing its metadata was taken from, in all states (parse_symbol_meta,   *)
(* fetch_exchange_info, validate_order).                                    *)
THEOREM AcceptedOrdersAlwaysFit == Spec => []AcceptedOrdersFit
<1> DEFINE Inv == StoreSound /\ AcceptedOrdersFit
<1>1. Init => Inv
  BY DEF Init, StoreSound, AcceptedOrdersFit, NoRequest
<1>2. Inv /\ [Next]_vars => Inv'
  <2> SUFFICES ASSUME Inv, [Next]_vars PROVE Inv'
    OBVIOUS
  <2>1. CASE FetchExchangeInfo
    <3>1. \A s \in Symbols :
            store'[s] = Some(ParseSymbolMeta(listing[s])) /\ taken'[s] = Some(listing[s])
      BY <2>1 DEF FetchExchangeInfo
    <3>2. listing' = listing /\ request' = request
      BY <2>1 DEF FetchExchangeInfo
    <3> QED BY <3>1, <3>2 DEF StoreSound, AcceptedOrdersFit
  <2>2. ASSUME NEW s \in Symbols, ListingChanges(s) PROVE Inv'
    <3>1. PICK entry \in Entries[s] : listing' = [listing EXCEPT ![s] = entry]
      BY <2>2 DEF ListingChanges
    <3>2. UNCHANGED <<store, taken, request>>
      BY <2>2 DEF ListingChanges
    <3> QED BY <3>1, <3>2 DEF StoreSound, AcceptedOrdersFit
  <2>3. ASSUME NEW s \in Symbols, NEW i \in Intents, NEW estimate \in Estimates,
               PlaceOrder(s, i, estimate)
        PROVE  Inv'
    <3>1. UNCHANGED <<listing, store, taken>>
      BY <2>3 DEF PlaceOrder
    <3>2. PICK meta \in store[s] :
            request' = [outcome  |-> Outcome(i, meta, estimate),
                        symbol   |-> s,
                        intent   |-> i,
                        estimate |-> estimate,
                        under    |-> taken[s]]
      BY <2>3 DEF PlaceOrder
    <3>3. PICK entry \in Entries[s] : meta = ParseSymbolMeta(entry) /\ taken[s] = {entry}
      BY <3>2 DEF StoreSound, None, Some
    <3>4. ASSUME request'.outcome = "accepted"
          PROVE  Fit(i, entry, estimate, BrokenNotional(entry))
      <4>1. ValidateOrder(i, meta, estimate)
        BY <3>2, <3>4 DEF Outcome
      <4> QED BY <3>3, <4>1, ValidatedFit
    <3>5. AcceptedOrdersFit'
      BY <3>2, <3>3, <3>4 DEF AcceptedOrdersFit, Fit
    <3> QED BY <3>1, <3>5 DEF StoreSound
  <2>4. CASE UNCHANGED vars
    BY <2>4 DEF vars, StoreSound, AcceptedOrdersFit
  <2> QED BY <2>1, <2>2, <2>3, <2>4 DEF Next
<1>3. Inv => AcceptedOrdersFit
  OBVIOUS
<1> QED BY <1>1, <1>2, <1>3, PTL DEF Spec
=============================================================================
