------------------------- MODULE OrderIntakeProofs -------------------------
(***************************************************************************)
(* Proofs about the market feed and the orders that meet it, for any       *)
(* symbols, ages, latency and filters.  What an answer says was so when    *)
(* the venue gave it; the stamp it is stored under is at most MaxLatency   *)
(* later; a request found the stamp young enough.  The three together      *)
(* bound the age of everything an order is accepted or filled on.          *)
(***************************************************************************)
EXTENDS OrderIntake, FiniteSetTheorems, TLAPS

Statuses == [Symbols -> SymbolStatus]

RefresherStates ==
  {Asleep}
  \cup [at : {"fetched"}, answer : Statuses, asOf : Nat]
  \cup [at : {"inserting"}, left : SUBSET Symbols, answer : Statuses, asOf : Nat]

PollerStates ==
  {Asleep}
  \cup [at : {"fetched"}, answer : [Symbols -> Tops], asOf : Nat,
        parsed : SUBSET Symbols]

FeedType ==
  /\ now \in 0 .. MaxTime
  /\ venueStatus \in Statuses
  /\ lastTraded \in [Symbols -> Int]
  /\ metas \in Statuses
  /\ refreshedAt = {} \/ \E t \in Nat : refreshedAt = {t}
  /\ refresher \in RefresherStates
  /\ books \in [Symbols -> SUBSET Top]
  /\ \A s \in Symbols : books[s] = {} \/ \E b \in Top : books[s] = {b}
  /\ poller \in PollerStates
  /\ poller # Asleep =>
       \A s \in poller.parsed :
         poller.answer[s].bid > 0 /\ poller.answer[s].ask >= poller.answer[s].bid

RequestStates ==
  {NoRequest}
  \cup [at : {"stamp_checked"}, intent : Intents, since : Nat]
  \cup [at : {"looked_up"}, intent : Intents, since : Nat, status : SymbolStatus]
  \cup [at : {"placed"}, intent : Intents, evaluated : Nat]
  \cup [at : {"filled"}, intent : Intents, evaluated : Nat, price : Nat]

Typed == FeedType /\ request \in [Requests -> RequestStates]

(* The history of the venue is kept up to the present.                      *)
HistoryInv ==
  \A s \in Symbols : /\ lastTraded[s] <= now
                     /\ venueStatus[s] = "trading" => lastTraded[s] = now

(* An answer on its way into the store is younger than the last stamp and   *)
(* not older than MaxLatency; what it calls trading was, and while it is    *)
(* being inserted the store holds nothing else.                             *)
RefresherInv ==
  refresher # Asleep =>
    /\ refresher.asOf <= now /\ now <= refresher.asOf + MaxLatency
    /\ \A t \in refreshedAt : t <= refresher.asOf
    /\ \A s \in Symbols :
         refresher.answer[s] = "trading" => lastTraded[s] >= refresher.asOf
    /\ refresher.at = "inserting" =>
         \A s \in Symbols : metas[s] \in {Absent, refresher.answer[s]}

(* What the store calls trading was trading at most MaxLatency before the   *)
(* stamp.                                                                   *)
StoreInv ==
  \A t \in refreshedAt :
    /\ t <= now
    /\ \A s \in Symbols : metas[s] = "trading" => lastTraded[s] >= t - MaxLatency

(* A book is stamped at most MaxLatency after the venue showed it.          *)
BookInv ==
  /\ poller # Asleep => poller.asOf <= now /\ now <= poller.asOf + MaxLatency
  /\ \A s \in Symbols : \A b \in books[s] : b.lastUpdate <= b.asOf + MaxLatency

(* What a request has learned so far.                                       *)
RequestInv ==
  \A r \in Requests :
    LET q == request[r] IN
    /\ q.at = "stamp_checked" =>
         \E t \in refreshedAt : q.since - t <= MetadataMaxAge
    /\ q.at = "looked_up" /\ q.status = "trading" =>
         lastTraded[q.intent.symbol] >= q.since - (MetadataMaxAge + MaxLatency)
    /\ q.at = "placed" /\ q.intent.price # None =>
         q.intent.price = Some(q.evaluated)
    /\ q.at = "filled" /\ q.intent.orderType = "limit" /\ q.intent.side = "buy" =>
         q.price <= q.evaluated

Inv == Typed /\ HistoryInv /\ RefresherInv /\ StoreInv /\ BookInv /\ RequestInv

USE FeedAssumption, IntakeAssumption

---------------------------------------------------------------------------
(* The feed *)

LEMMA FeedInitTyped == FeedInit => FeedType
<1> SUFFICES ASSUME FeedInit PROVE FeedType
  OBVIOUS
<1>1. LongAgo \in Int
  BY DEF LongAgo
<1>2. metas \in Statuses
  BY DEF FeedInit, Statuses, SymbolStatus, Absent
<1>3. Asleep \in RefresherStates /\ Asleep \in PollerStates
  BY DEF RefresherStates, PollerStates
<1> QED BY <1>1, <1>2, <1>3 DEF FeedInit, FeedType, Statuses

(* What a step of the feed does to what has been learned from it: stamps    *)
(* and histories only grow.                                                 *)
Grows ==
  /\ \A s \in Symbols : lastTraded'[s] >= lastTraded[s]
  /\ \A t \in refreshedAt : \E u \in refreshedAt' : u >= t

FeedInv == FeedType /\ HistoryInv /\ RefresherInv /\ StoreInv /\ BookInv

LEMMA FetchedStates ==
  ASSUME FeedType
  PROVE  /\ refresher # Asleep =>
              refresher.asOf \in Nat /\ refresher.answer \in Statuses
         /\ refresher = Asleep <=> refresher.at = "asleep"
         /\ refresher.at = "inserting" =>
              refresher \in [at : {"inserting"}, left : SUBSET Symbols,
                             answer : Statuses, asOf : Nat]
         /\ poller # Asleep =>
              /\ poller.asOf \in Nat
              /\ poller.answer \in [Symbols -> Tops]
              /\ poller.parsed \in SUBSET Symbols
         /\ poller = Asleep <=> poller.at = "asleep"
  BY DEF FeedType, RefresherStates, PollerStates, Asleep

LEMMA FeedNextTyped == FeedType /\ FeedNext => FeedType'
<1> SUFFICES ASSUME FeedType, FeedNext PROVE FeedType'
  OBVIOUS
<1> USE FetchedStates
<1>1. CASE FetchExchangeInfo
  <2>1. refresher' \in [at : {"fetched"}, answer : Statuses, asOf : Nat]
    BY <1>1 DEF FetchExchangeInfo, FeedType
  <2>2. refresher' \in RefresherStates
    BY <2>1 DEF RefresherStates
  <2> QED BY <1>1, <2>2 DEF FetchExchangeInfo, FeedType, venueVars, bookVars
<1>2. CASE ClearEntries
  <2>1. refresher # Asleep
    BY <1>2 DEF ClearEntries
  <2>2. refresher' \in [at : {"inserting"}, left : SUBSET Symbols, answer : Statuses, asOf : Nat]
    BY <1>2, <2>1 DEF ClearEntries, Listed
  <2>3. refresher' \in RefresherStates
    BY <2>2 DEF RefresherStates
  <2>4. metas' \in Statuses
    BY <1>2 DEF ClearEntries, Statuses, SymbolStatus, Absent
  <2> QED BY <1>2, <2>3, <2>4 DEF ClearEntries, FeedType, venueVars, bookVars
<1>3. ASSUME NEW s \in Symbols, InsertEntry(s) PROVE FeedType'
  <2>1. refresher \in [at : {"inserting"}, left : SUBSET Symbols, answer : Statuses, asOf : Nat]
    BY <1>3 DEF InsertEntry
  <2>2. refresher' \in [at : {"inserting"}, left : SUBSET Symbols, answer : Statuses, asOf : Nat]
    BY <1>3, <2>1 DEF InsertEntry
  <2>3. refresher' \in RefresherStates
    BY <2>2 DEF RefresherStates
  <2>4. metas' \in Statuses
    BY <1>3, <2>1 DEF InsertEntry, Statuses, FeedType
  <2> QED BY <1>3, <2>3, <2>4 DEF InsertEntry, FeedType, venueVars, bookVars
<1>4. CASE StampStore
  <2>1. refreshedAt' = {now} /\ now \in Nat
    BY <1>4 DEF StampStore, FeedType
  <2>2. refresher' \in RefresherStates
    BY <1>4 DEF StampStore, RefresherStates
  <2> QED BY <1>4, <2>1, <2>2 DEF StampStore, FeedType, venueVars, bookVars
<1>5. CASE FetchAllBookTickers
  <2>1. PICK tops \in [Symbols -> Tops] :
          poller' = [at |-> "fetched", answer |-> tops, asOf |-> now,
                     parsed |-> ParseAllBookTickers(tops)]
    BY <1>5 DEF FetchAllBookTickers
  <2>2. poller' \in [at : {"fetched"}, answer : [Symbols -> Tops], asOf : Nat,
                     parsed : SUBSET Symbols]
    BY <2>1 DEF ParseAllBookTickers, FeedType
  <2>3. poller' \in PollerStates
    BY <2>2 DEF PollerStates
  <2>4. \A s \in poller'.parsed :
          poller'.answer[s].bid > 0 /\ poller'.answer[s].ask >= poller'.answer[s].bid
    BY <2>1 DEF ParseAllBookTickers
  <2> QED BY <1>5, <2>3, <2>4 DEF FetchAllBookTickers, FeedType, venueVars, storeVars
<1>6. CASE UpdateBooks
  <2>1. poller # Asleep
    BY <1>6 DEF UpdateBooks
  <2> DEFINE new(s) == [bid |-> poller.answer[s].bid, ask |-> poller.answer[s].ask,
                        lastUpdate |-> now, asOf |-> poller.asOf]
  <2>2. ASSUME NEW s \in TradableSymbols \cap poller.parsed PROVE new(s) \in Top
    <3>1. s \in Symbols
      BY DEF TradableSymbols
    <3>2. poller.answer[s] \in [bid : Nat, ask : Nat]
      BY <2>1, <3>1
    <3>3. poller.answer[s].bid > 0 /\ poller.answer[s].ask >= poller.answer[s].bid
      BY <2>1, <2>2 DEF FeedType
    <3>4. now \in Nat /\ poller.asOf \in Nat
      BY <2>1 DEF FeedType
    <3> QED BY <3>2, <3>3, <3>4 DEF Top
  <2>3. books' = [s \in Symbols |-> IF s \in TradableSymbols \cap poller.parsed
                                    THEN {new(s)} ELSE books[s]]
    BY <1>6 DEF UpdateBooks
  <2> HIDE DEF new
  <2>4. books' \in [Symbols -> SUBSET Top]
    BY <2>2, <2>3 DEF FeedType
  <2>5. \A s \in Symbols : books'[s] = {} \/ \E b \in Top : books'[s] = {b}
    BY <2>2, <2>3 DEF FeedType
  <2>6. poller' = Asleep /\ Asleep \in PollerStates
    BY <1>6 DEF UpdateBooks, PollerStates
  <2> QED BY <1>6, <2>4, <2>5, <2>6 DEF UpdateBooks, FeedType, venueVars, storeVars
<1>7. ASSUME NEW s \in Symbols, VenueMoves(s) PROVE FeedType'
  <2>1. venueStatus' \in Statuses
    BY <1>7 DEF VenueMoves, FeedType, Statuses
  <2>2. lastTraded' \in [Symbols -> Int]
    BY <1>7 DEF VenueMoves, FeedType
  <2> QED BY <1>7, <2>1, <2>2 DEF VenueMoves, FeedType, storeVars, bookVars
<1>8. CASE Tick
  <2>1. now' \in 0 .. MaxTime
    BY <1>8 DEF Tick, FeedType
  <2>2. lastTraded' \in [Symbols -> Int]
    BY <1>8 DEF Tick, FeedType
  <2> QED BY <1>8, <2>1, <2>2 DEF Tick, FeedType, storeVars, bookVars
<1> QED BY <1>1, <1>2, <1>3, <1>4, <1>5, <1>6, <1>7, <1>8 DEF FeedNext

LEMMA FeedInitInv == FeedInit => FeedInv
<1> SUFFICES ASSUME FeedInit PROVE FeedInv
  OBVIOUS
<1>1. FeedType
  BY FeedInitTyped
<1>2. HistoryInv
  BY DEF FeedInit, HistoryInv, LongAgo
<1> QED BY <1>1, <1>2 DEF FeedInit, FeedInv, RefresherInv, StoreInv, BookInv

LEMMA FeedNextInv == FeedInv /\ FeedNext => FeedInv' /\ Grows
<1> SUFFICES ASSUME FeedInv, FeedNext PROVE FeedInv' /\ Grows
  OBVIOUS
<1> USE FetchedStates DEF FeedInv
<1>0. FeedType'
  BY FeedNextTyped
<1>t. /\ now \in Nat /\ lastTraded \in [Symbols -> Int]
      /\ refreshedAt \subseteq Nat
  BY DEF FeedType
<1>1. CASE FetchExchangeInfo
  <2>1. refresher' = [at |-> "fetched", answer |-> venueStatus, asOf |-> now]
        /\ UNCHANGED <<now, venueVars, metas, refreshedAt, bookVars>>
    BY <1>1 DEF FetchExchangeInfo
  <2>2. RefresherInv'
    BY <2>1, <1>t DEF RefresherInv, StoreInv, HistoryInv, venueVars
  <2> QED BY <1>0, <1>t, <2>1, <2>2
          DEF HistoryInv, StoreInv, BookInv, Grows, venueVars, bookVars
<1>2. CASE ClearEntries
  <2>1. /\ metas' = [s \in Symbols |-> Absent]
        /\ refresher # Asleep
        /\ refresher' = [at |-> "inserting", left |-> Listed,
                         answer |-> refresher.answer, asOf |-> refresher.asOf]
        /\ UNCHANGED <<now, venueVars, refreshedAt, bookVars>>
    BY <1>2 DEF ClearEntries
  <2>2. RefresherInv'
    BY <2>1 DEF RefresherInv, venueVars
  <2>3. StoreInv'
    BY <2>1 DEF StoreInv, Absent
  <2> QED BY <1>0, <1>t, <2>1, <2>2, <2>3
          DEF HistoryInv, BookInv, Grows, venueVars, bookVars
<1>3. ASSUME NEW s \in Symbols, InsertEntry(s) PROVE FeedInv' /\ Grows
  <2>1. /\ refresher # Asleep /\ refresher.at = "inserting"
        /\ metas' = [metas EXCEPT ![s] = refresher.answer[s]]
        /\ refresher' = [refresher EXCEPT !.left = @ \ {s}]
        /\ UNCHANGED <<now, venueVars, refreshedAt, bookVars>>
    BY <1>3 DEF InsertEntry
  <2>2. /\ refresher'.asOf = refresher.asOf /\ refresher'.answer = refresher.answer
        /\ refresher'.at = refresher.at
    BY <2>1
  <2>3. \A q \in Symbols : metas'[q] = IF q = s THEN refresher.answer[s] ELSE metas[q]
    BY <2>1 DEF FeedType, Statuses
  <2>4. RefresherInv'
    BY <2>1, <2>2, <2>3 DEF RefresherInv, venueVars
  <2>5. StoreInv'
    <3> SUFFICES ASSUME NEW t \in refreshedAt, NEW q \in Symbols, metas'[q] = "trading"
                 PROVE  lastTraded[q] >= t - MaxLatency
      BY <2>1 DEF StoreInv, venueVars
    <3>1. CASE q = s
      <4>1. refresher.answer[q] = "trading"
        BY <2>3, <3>1
      <4>2. lastTraded[q] >= refresher.asOf /\ t <= refresher.asOf
        BY <2>1, <4>1 DEF RefresherInv
      <4>3. refresher.asOf \in Nat /\ t \in Nat /\ lastTraded[q] \in Int
        BY <2>1, <1>t
      <4> QED BY <4>2, <4>3
    <3>2. CASE q # s
      BY <2>3, <3>2 DEF StoreInv
    <3> QED BY <3>1, <3>2
  <2> QED BY <1>0, <1>t, <2>1, <2>4, <2>5
          DEF HistoryInv, BookInv, Grows, venueVars, bookVars
<1>4. CASE StampStore
  <2>1. /\ refresher # Asleep /\ refresher.at = "inserting"
        /\ refreshedAt' = {now} /\ refresher' = Asleep
        /\ UNCHANGED <<now, venueVars, metas, bookVars>>
    BY <1>4 DEF StampStore
  <2>2. StoreInv'
    <3> SUFFICES ASSUME NEW q \in Symbols, metas[q] = "trading"
                 PROVE  lastTraded[q] >= now - MaxLatency
      BY <1>t, <2>1 DEF StoreInv, venueVars
    <3>1. refresher.answer[q] = "trading"
      BY <2>1 DEF RefresherInv, Absent
    <3>2. lastTraded[q] >= refresher.asOf /\ now <= refresher.asOf + MaxLatency
      BY <2>1, <3>1 DEF RefresherInv
    <3>3. refresher.asOf \in Nat /\ lastTraded[q] \in Int
      BY <2>1, <1>t
    <3> QED BY <1>t, <3>2, <3>3
  <2>3. Grows
    BY <1>t, <2>1 DEF Grows, StoreInv, venueVars
  <2> QED BY <1>0, <2>1, <2>2, <2>3
          DEF HistoryInv, RefresherInv, BookInv, venueVars, bookVars
<1>5. CASE FetchAllBookTickers
  <2>1. PICK tops \in [Symbols -> Tops] :
          poller' = [at |-> "fetched", answer |-> tops, asOf |-> now,
                     parsed |-> ParseAllBookTickers(tops)]
    BY <1>5 DEF FetchAllBookTickers
  <2>2. UNCHANGED <<now, venueVars, storeVars, books>>
    BY <1>5 DEF FetchAllBookTickers
  <2> QED BY <1>0, <1>t, <2>1, <2>2
          DEF HistoryInv, RefresherInv, StoreInv, BookInv, Grows, venueVars, storeVars
<1>6. CASE UpdateBooks
  <2>1. /\ poller # Asleep /\ poller' = Asleep
        /\ UNCHANGED <<now, venueVars, storeVars>>
    BY <1>6 DEF UpdateBooks
  <2>2. now <= poller.asOf + MaxLatency
    BY <2>1 DEF BookInv
  <2>3. \A s \in Symbols : \A b \in books'[s] :
          b \in books[s] \/ (b.lastUpdate = now /\ b.asOf = poller.asOf)
    BY <1>6 DEF UpdateBooks
  <2>4. BookInv'
    BY <2>1, <2>2, <2>3 DEF BookInv
  <2> QED BY <1>0, <1>t, <2>1, <2>4
          DEF HistoryInv, RefresherInv, StoreInv, Grows, venueVars, storeVars
<1>7. ASSUME NEW s \in Symbols, VenueMoves(s) PROVE FeedInv' /\ Grows
  <2>1. PICK st \in SymbolStatus :
          /\ venueStatus' = [venueStatus EXCEPT ![s] = st]
          /\ lastTraded' = [lastTraded EXCEPT ![s] = IF st = "trading" THEN now ELSE @]
          /\ UNCHANGED <<now, storeVars, bookVars>>
    BY <1>7 DEF VenueMoves
  <2>2. \A q \in Symbols :
          /\ lastTraded'[q] = IF q = s /\ st = "trading" THEN now ELSE lastTraded[q]
          /\ venueStatus'[q] = IF q = s THEN st ELSE venueStatus[q]
    BY <2>1 DEF FeedType, Statuses
  <2>3. \A q \in Symbols : lastTraded'[q] >= lastTraded[q]
    BY <1>t, <2>2 DEF HistoryInv
  <2>4. HistoryInv'
    BY <1>t, <2>1, <2>2 DEF HistoryInv
  <2>5. lastTraded' \in [Symbols -> Int]
    BY <1>0 DEF FeedType
  <2>6. RefresherInv'
    <3> SUFFICES ASSUME refresher # Asleep PROVE RefresherInv'
      BY <2>1 DEF RefresherInv, storeVars
    <3>1. \A q \in Symbols :
            refresher.answer[q] = "trading" => lastTraded'[q] >= refresher.asOf
      BY <1>t, <2>3, <2>5 DEF RefresherInv
    <3> QED BY <2>1, <3>1 DEF RefresherInv, storeVars
  <2>7. StoreInv'
    BY <1>t, <2>1, <2>3, <2>5 DEF StoreInv, storeVars
  <2> QED BY <1>0, <1>t, <2>1, <2>3, <2>4, <2>6, <2>7
          DEF BookInv, Grows, storeVars, bookVars
<1>8. CASE Tick
  <2>1. /\ refresher # Asleep => now - refresher.asOf < MaxLatency
        /\ poller # Asleep => now - poller.asOf < MaxLatency
        /\ now' = now + 1
        /\ lastTraded' = [s \in Symbols |->
             IF venueStatus[s] = "trading" THEN now + 1 ELSE lastTraded[s]]
        /\ UNCHANGED <<venueStatus, storeVars, bookVars>>
    BY <1>8 DEF Tick
  <2>2. \A q \in Symbols : lastTraded'[q] >= lastTraded[q]
    BY <1>t, <2>1 DEF HistoryInv
  <2>3. HistoryInv'
    BY <1>t, <2>1 DEF HistoryInv
  <2>4. lastTraded' \in [Symbols -> Int]
    BY <1>0 DEF FeedType
  <2>5. RefresherInv'
    <3> SUFFICES ASSUME refresher # Asleep PROVE RefresherInv'
      BY <2>1 DEF RefresherInv, storeVars
    <3>1. \A q \in Symbols :
            refresher.answer[q] = "trading" => lastTraded'[q] >= refresher.asOf
      BY <1>t, <2>2, <2>4 DEF RefresherInv
    <3>2. refresher.asOf <= now' /\ now' <= refresher.asOf + MaxLatency
      BY <1>t, <2>1 DEF RefresherInv
    <3> QED BY <2>1, <3>1, <3>2 DEF RefresherInv, storeVars
  <2>6. StoreInv'
    BY <1>t, <2>1, <2>2, <2>4 DEF StoreInv, storeVars
  <2>7. BookInv'
    BY <1>t, <2>1 DEF BookInv, bookVars
  <2> QED BY <1>0, <1>t, <2>1, <2>2, <2>3, <2>5, <2>6, <2>7 DEF Grows, storeVars
<1> QED BY <1>1, <1>2, <1>3, <1>4, <1>5, <1>6, <1>7, <1>8 DEF FeedNext

---------------------------------------------------------------------------
(* The requests *)

LEMMA RequestStatesType ==
  ASSUME Typed, NEW r \in Requests
  PROVE  /\ request[r].at \in {"none", "stamp_checked", "looked_up", "placed", "filled"}
         /\ request[r].at = "stamp_checked" =>
              request[r] \in [at : {"stamp_checked"}, intent : Intents, since : Nat]
         /\ request[r].at = "looked_up" =>
              request[r] \in [at : {"looked_up"}, intent : Intents, since : Nat,
                              status : SymbolStatus]
         /\ request[r].at = "placed" =>
              request[r] \in [at : {"placed"}, intent : Intents, evaluated : Nat]
         /\ request[r].at = "filled" =>
              request[r] \in [at : {"filled"}, intent : Intents, evaluated : Nat,
                              price : Nat]
<1>1. request[r] \in RequestStates
  BY DEF Typed
<1> QED BY <1>1 DEF RequestStates, NoRequest

LEMMA EstimatePrices ==
  ASSUME FeedType, NEW s \in Symbols, NEW side,
         NEW e \in ConservativeEstimate(s, side)
  PROVE  e.price \in Nat /\ e.asOf \in Nat
  BY DEF FeedType, ConservativeEstimate, Top

(* A limit order is evaluated at its price.                                 *)
LEMMA EvaluatedAt ==
  ASSUME FeedType, NEW i \in Intents
  PROVE  LET p == EvaluationPrice(i, ConservativeEstimate(i.symbol, i.side))
         IN  p \in Nat /\ (i.price # None => i.price = Some(p))
<1> DEFINE est == ConservativeEstimate(i.symbol, i.side)
<1>1. CASE i.price # None
  <2>1. PICK p \in i.price : p \in Nat /\ i.price = {p}
    BY <1>1 DEF None, Some
  <2>2. (CHOOSE q \in i.price : TRUE) = p
    BY <2>1
  <2> QED BY <1>1, <2>1, <2>2 DEF EvaluationPrice, Some
<1>2. CASE i.price = None /\ est # None
  <2>1. (CHOOSE e \in est : TRUE) \in est
    BY <1>2 DEF None
  <2>2. (CHOOSE e \in est : TRUE).price \in Nat
    BY <2>1, EstimatePrices
  <2> QED BY <1>2, <2>2 DEF EvaluationPrice
<1>3. CASE i.price = None /\ est = None
  BY <1>3 DEF EvaluationPrice
<1> QED BY <1>1, <1>2, <1>3

(* What a request that becomes placed has passed.                           *)
LEMMA Passed ==
  ASSUME Typed, NEW r \in Requests, Validate(r), request'[r].at = "placed"
  PROVE  LET q == request[r]  i == q.intent
             est == ConservativeEstimate(i.symbol, i.side)
         IN /\ q.at = "looked_up" /\ q.status = "trading"
            /\ request'[r] = [at |-> "placed", intent |-> i,
                              evaluated |-> EvaluationPrice(i, est)]
            /\ i.orderType = "market" => \E e \in est : e.isFresh
<1> DEFINE q == request[r]
           i == q.intent
           est == ConservativeEstimate(i.symbol, i.side)
<1>1. q.at = "looked_up" /\ q \in [at : {"looked_up"}, intent : Intents,
                                   since : Nat, status : SymbolStatus]
  BY RequestStatesType DEF Validate
<1>2. request'[r] = NoRequest \/
      /\ ValidateOrder(i, SymbolMeta(q), est)
      /\ request'[r] = [at |-> "placed", intent |-> i,
                        evaluated |-> EvaluationPrice(i, est)]
  BY DEF Validate, Refuse, Typed
<1>3. ValidateOrder(i, SymbolMeta(q), est)
      /\ request'[r] = [at |-> "placed", intent |-> i,
                        evaluated |-> EvaluationPrice(i, est)]
  BY <1>2 DEF NoRequest
<1>4. SymbolMeta(q).status = q.status
  BY <1>1 DEF SymbolMeta
<1>5. q.status = "trading"
  BY <1>3, <1>4 DEF ValidateOrder
<1>6. i.orderType = "market" => \E e \in est : e.isFresh
  BY <1>3 DEF ValidateOrder, ValidateMarket
<1> QED BY <1>1, <1>3, <1>5, <1>6

LEMMA NextTyped == Typed /\ [Next]_vars => Typed'
<1> SUFFICES ASSUME Typed, [Next]_vars PROVE Typed'
  OBVIOUS
<1>f. FeedType /\ (UNCHANGED feedVars => FeedType')
  BY DEF Typed, FeedType, feedVars, venueVars, storeVars, bookVars
<1>n. NoRequest \in RequestStates
  BY DEF RequestStates
<1>1. CASE FeedNext /\ UNCHANGED request
  BY <1>1, <1>f, FeedNextTyped DEF Typed
<1>2. ASSUME NEW r \in Requests, NEW i \in Intents, CheckStamp(r, i) PROVE Typed'
  <2>1. [at |-> "stamp_checked", intent |-> i, since |-> now] \in RequestStates
    BY <1>f DEF RequestStates, FeedType
  <2> QED BY <1>2, <1>f, <2>1 DEF CheckStamp, Typed
<1>3. ASSUME NEW r \in Requests, LookUp(r) PROVE Typed'
  <2> DEFINE q == request[r]
  <2>1. q \in [at : {"stamp_checked"}, intent : Intents, since : Nat]
    BY <1>3, RequestStatesType DEF LookUp
  <2>2. metas[q.intent.symbol] \in SymbolStatus
    BY <1>f, <2>1 DEF FeedType, Statuses
  <2>3. [at |-> "looked_up", intent |-> q.intent, since |-> q.since,
         status |-> metas[q.intent.symbol]] \in RequestStates
    BY <2>1, <2>2 DEF RequestStates
  <2> QED BY <1>3, <1>f, <1>n, <2>3 DEF LookUp, Refuse, Typed
<1>4. ASSUME NEW r \in Requests, Validate(r) PROVE Typed'
  <2> DEFINE q == request[r]
             p == EvaluationPrice(q.intent, ConservativeEstimate(q.intent.symbol, q.intent.side))
  <2>1. q.intent \in Intents
    BY <1>4, RequestStatesType DEF Validate
  <2>2. p \in Nat
    BY <1>f, <2>1, EvaluatedAt
  <2> HIDE DEF p
  <2>3. [at |-> "placed", intent |-> q.intent, evaluated |-> p] \in RequestStates
    BY <2>1, <2>2 DEF RequestStates
  <2> USE DEF p
  <2> QED BY <1>4, <1>f, <1>n, <2>3 DEF Validate, Refuse, Typed
<1>5. ASSUME NEW r \in Requests, Fill(r) PROVE Typed'
  <2> DEFINE q == request[r]
  <2>1. q \in [at : {"placed"}, intent : Intents, evaluated : Nat]
    BY <1>5, RequestStatesType DEF Fill
  <2>2. PICK e \in ConservativeEstimate(q.intent.symbol, q.intent.side) :
          request' = [request EXCEPT ![r] =
            [at |-> "filled", intent |-> q.intent, evaluated |-> q.evaluated,
             price |-> e.price]]
    BY <1>5 DEF Fill, FillFrom
  <2>3. e.price \in Nat
    BY <1>f, <2>1, EstimatePrices
  <2>4. [at |-> "filled", intent |-> q.intent, evaluated |-> q.evaluated,
         price |-> e.price] \in RequestStates
    BY <2>1, <2>3 DEF RequestStates
  <2> QED BY <1>5, <1>f, <2>2, <2>4 DEF Fill, Typed
<1>6. CASE UNCHANGED vars
  BY <1>6, <1>f DEF vars, Typed
<1> QED BY <1>1, <1>2, <1>3, <1>4, <1>5, <1>6 DEF Next

LEMMA NextInv == Inv /\ [Next]_vars => Inv'
<1> SUFFICES ASSUME Inv, [Next]_vars PROVE Inv'
  OBVIOUS
<1>t. Typed /\ Typed' /\ FeedType
  BY NextTyped DEF Inv, Typed
<1>f. FeedInv /\ (FeedInv' /\ Typed' /\ RequestInv' => Inv')
  BY DEF Inv, FeedInv, Typed
<1>u. UNCHANGED feedVars => FeedInv'
  BY <1>f DEF FeedInv, FeedType, HistoryInv, RefresherInv, StoreInv, BookInv,
              feedVars, venueVars, storeVars, bookVars
<1>1. CASE FeedNext /\ UNCHANGED request
  <2>1. FeedInv' /\ Grows
    BY <1>1, <1>f, FeedNextInv
  <2>2. ASSUME NEW r \in Requests
        PROVE  LET q == request[r] IN
               /\ q.at = "stamp_checked" =>
                    \E t \in refreshedAt' : q.since - t <= MetadataMaxAge
               /\ q.at = "looked_up" /\ q.status = "trading" =>
                    lastTraded'[q.intent.symbol] >= q.since - (MetadataMaxAge + MaxLatency)
    <3> DEFINE q == request[r]
    <3>1. CASE q.at = "stamp_checked"
      <4>1. PICK t \in refreshedAt : q.since - t <= MetadataMaxAge
        BY <3>1 DEF Inv, RequestInv
      <4>2. PICK u \in refreshedAt' : u >= t
        BY <2>1 DEF Grows
      <4>3. q.since \in Nat /\ t \in Nat /\ u \in Nat
        BY <1>t, <2>1, <3>1, RequestStatesType DEF FeedInv, FeedType
      <4> QED BY <3>1, <4>1, <4>2, <4>3
    <3>2. CASE q.at = "looked_up" /\ q.status = "trading"
      <4>1. q.intent.symbol \in Symbols /\ q.since \in Nat
        BY <1>t, <3>2, RequestStatesType
      <4>2. /\ lastTraded[q.intent.symbol] \in Int
            /\ lastTraded'[q.intent.symbol] \in Int
            /\ lastTraded'[q.intent.symbol] >= lastTraded[q.intent.symbol]
        BY <1>t, <2>1, <4>1 DEF FeedInv, FeedType, Grows
      <4>3. lastTraded[q.intent.symbol] >= q.since - (MetadataMaxAge + MaxLatency)
        BY <3>2 DEF Inv, RequestInv
      <4> QED BY <3>2, <4>1, <4>2, <4>3
    <3> QED BY <3>1, <3>2
  <2>3. RequestInv'
    BY <1>1, <2>2 DEF Inv, RequestInv
  <2> QED BY <1>t, <1>f, <2>1, <2>3
<1>2. ASSUME NEW r \in Requests, NEW i \in Intents, CheckStamp(r, i) PROVE Inv'
  <2>1. /\ \E t \in refreshedAt : now - t <= MetadataMaxAge
        /\ request' = [request EXCEPT ![r] =
                         [at |-> "stamp_checked", intent |-> i, since |-> now]]
        /\ UNCHANGED feedVars
    <3>1. \E t \in refreshedAt : ~(now - t > MetadataMaxAge)
      BY <1>2 DEF CheckStamp, IsStale
    <3>2. refreshedAt \subseteq Nat /\ now \in Nat
      BY <1>t DEF FeedType
    <3> QED BY <1>2, <3>1, <3>2 DEF CheckStamp
  <2>2. RequestInv'
    BY <1>t, <2>1 DEF Inv, RequestInv, Typed, feedVars, storeVars, venueVars
  <2> QED BY <1>t, <1>f, <1>u, <2>1, <2>2
<1>3. ASSUME NEW r \in Requests, LookUp(r) PROVE Inv'
  <2> DEFINE q == request[r]
             s == q.intent.symbol
  <2>1. q \in [at : {"stamp_checked"}, intent : Intents, since : Nat]
    BY <1>t, <1>3, RequestStatesType DEF LookUp
  <2>2. /\ request'[r] = NoRequest \/
           request'[r] = [at |-> "looked_up", intent |-> q.intent, since |-> q.since,
                          status |-> metas[s]]
        /\ \A p \in Requests : p # r => request'[p] = request[p]
        /\ UNCHANGED feedVars
    BY <1>t, <1>3 DEF LookUp, Refuse, Typed
  <2>3. metas[s] = "trading" => lastTraded[s] >= q.since - (MetadataMaxAge + MaxLatency)
    <3>1. PICK t \in refreshedAt : q.since - t <= MetadataMaxAge
      BY <2>1 DEF Inv, RequestInv
    <3>2. metas[s] = "trading" => lastTraded[s] >= t - MaxLatency
      BY <2>1 DEF Inv, StoreInv
    <3>3. t \in Nat /\ q.since \in Nat /\ lastTraded[s] \in Int
      BY <1>t, <2>1 DEF FeedType
    <3> QED BY <3>1, <3>2, <3>3
  <2>4. RequestInv'
    <3>1. ASSUME request'[r] = [at |-> "looked_up", intent |-> q.intent,
                                since |-> q.since, status |-> metas[s]]
          PROVE  RequestInv'
      <4>1. /\ request'[r].at = "looked_up" /\ request'[r].intent = q.intent
            /\ request'[r].since = q.since /\ request'[r].status = metas[s]
        BY <3>1
      <4> QED BY <2>2, <2>3, <4>1
              DEF Inv, RequestInv, feedVars, storeVars, venueVars
    <3>2. ASSUME request'[r] = NoRequest PROVE RequestInv'
      BY <2>2, <3>2 DEF Inv, RequestInv, NoRequest, feedVars, storeVars, venueVars
    <3> QED BY <2>2, <3>1, <3>2
  <2> QED BY <1>t, <1>f, <1>u, <2>2, <2>4
<1>4. ASSUME NEW r \in Requests, Validate(r) PROVE Inv'
  <2> DEFINE q == request[r]
             est == ConservativeEstimate(q.intent.symbol, q.intent.side)
  <2>1. q.intent \in Intents
    BY <1>t, <1>4, RequestStatesType DEF Validate
  <2>2. /\ request'[r] = NoRequest \/
           request'[r] = [at |-> "placed", intent |-> q.intent,
                          evaluated |-> EvaluationPrice(q.intent, est)]
        /\ \A p \in Requests : p # r => request'[p] = request[p]
        /\ UNCHANGED feedVars
    BY <1>t, <1>4 DEF Validate, Refuse, Typed
  <2>3. q.intent.price # None => q.intent.price = Some(EvaluationPrice(q.intent, est))
    BY <1>t, <2>1, EvaluatedAt
  <2>4. RequestInv'
    <3>1. CASE request'[r] = NoRequest
      BY <2>2, <3>1 DEF Inv, RequestInv, NoRequest, feedVars, storeVars, venueVars
    <3>2. CASE request'[r] = [at |-> "placed", intent |-> q.intent,
                              evaluated |-> EvaluationPrice(q.intent, est)]
      <4>1. /\ request'[r].at = "placed" /\ request'[r].intent = q.intent
            /\ request'[r].evaluated = EvaluationPrice(q.intent, est)
        BY <3>2
      <4> QED BY <2>2, <2>3, <4>1 DEF Inv, RequestInv, feedVars, storeVars, venueVars
    <3> QED BY <2>2, <3>1, <3>2
  <2> QED BY <1>t, <1>f, <1>u, <2>2, <2>4
<1>5. ASSUME NEW r \in Requests, Fill(r) PROVE Inv'
  <2> DEFINE q == request[r]
             i == q.intent
  <2>1. q \in [at : {"placed"}, intent : Intents, evaluated : Nat]
    BY <1>t, <1>5, RequestStatesType DEF Fill
  <2>2. PICK e \in FillFrom(i, ConservativeEstimate(i.symbol, i.side)) :
          request' = [request EXCEPT ![r] =
            [at |-> "filled", intent |-> i, evaluated |-> q.evaluated, price |-> e.price]]
    BY <1>5 DEF Fill
  <2>3. i.orderType = "limit" /\ i.side = "buy" => e.price <= q.evaluated
    <3> SUFFICES ASSUME i.orderType = "limit", i.side = "buy"
                 PROVE  e.price <= q.evaluated
      OBVIOUS
    <3>1. PICK limit \in i.price : e.price <= limit
      BY DEF FillFrom, Touched
    <3>2. i.price = Some(q.evaluated)
      BY <2>1, <3>1 DEF Inv, RequestInv, None
    <3> QED BY <3>1, <3>2 DEF Some
  <2>4. /\ request'[r].at = "filled" /\ request'[r].intent = i
        /\ request'[r].evaluated = q.evaluated /\ request'[r].price = e.price
        /\ \A p \in Requests : p # r => request'[p] = request[p]
        /\ UNCHANGED feedVars
    BY <1>t, <1>5, <2>2 DEF Fill, Typed
  <2>5. RequestInv'
    BY <2>3, <2>4 DEF Inv, RequestInv, feedVars, storeVars, venueVars
  <2> QED BY <1>t, <1>f, <1>u, <2>4, <2>5
<1>6. CASE UNCHANGED vars
  <2>1. RequestInv'
    BY <1>6 DEF Inv, RequestInv, vars, feedVars, storeVars, venueVars
  <2> QED BY <1>6, <1>t, <1>f, <1>u, <2>1 DEF vars
<1> QED BY <1>1, <1>2, <1>3, <1>4, <1>5, <1>6 DEF Next

LEMMA InvHolds == Spec => []Inv
<1>1. Init => Inv
  <2> SUFFICES ASSUME Init PROVE Inv
    OBVIOUS
  <2>1. FeedInv
    BY FeedInitInv DEF Init
  <2>2. NoRequest \in RequestStates
    BY DEF RequestStates
  <2>3. Typed
    BY <2>1, <2>2 DEF Init, Typed, FeedInv
  <2>4. RequestInv
    BY DEF Init, RequestInv, NoRequest
  <2> QED BY <2>1, <2>3, <2>4 DEF Inv, FeedInv
<1> QED BY <1>1, NextInv, PTL DEF Spec

---------------------------------------------------------------------------
LEMMA AtMostOne == ASSUME NEW S, S = {} \/ \E x : S = {x}
                   PROVE  Cardinality(S) <= 1
<1>1. CASE S = {}
  BY <1>1, FS_EmptySet
<1>2. ASSUME NEW x, S = {x} PROVE Cardinality(S) <= 1
  <2>1. Cardinality({x}) = 1
    BY FS_Singleton, Zenon
  <2> QED BY <1>2, <2>1
<1> QED BY <1>1, <1>2

(* Every reachable state of the feed and its requests is well typed.        *)
THEOREM TypeCorrect == Spec => []TypeOK
<1>1. Inv => TypeOK
  <2> SUFFICES ASSUME Inv PROVE TypeOK
    OBVIOUS
  <2>1. Typed /\ FeedType
    BY DEF Inv, Typed
  <2>2. refreshedAt \subseteq Nat /\ Cardinality(refreshedAt) <= 1
    BY <2>1, AtMostOne DEF FeedType
  <2>3. ASSUME NEW s \in Symbols
        PROVE  books[s] \subseteq Top /\ Cardinality(books[s]) <= 1
    BY <2>1, AtMostOne DEF FeedType
  <2>4. refresher.at \in {"asleep", "fetched", "inserting"}
    BY <2>1 DEF FeedType, RefresherStates, Asleep
  <2>5. poller.at \in {"asleep", "fetched"}
    BY <2>1 DEF FeedType, PollerStates, Asleep
  <2> QED BY <2>1, <2>2, <2>3, <2>4, <2>5, RequestStatesType
          DEF TypeOK, FeedType, Statuses
<1> QED BY <1>1, InvHolds, PTL

(* For any ages and latency: an order that passes validation is on a symbol *)
(* that was trading at the venue recently enough.                           *)
THEOREM HaltsAreRespected == Spec => HaltRespected
<1>1. Inv /\ [Next]_vars =>
        [\A r \in Requests : Placed(r) =>
           lastTraded[request[r].intent.symbol]
             >= request[r].since - (MetadataMaxAge + MaxLatency)]_vars
  <2> SUFFICES ASSUME Inv, Next, NEW r \in Requests, Placed(r)
               PROVE  lastTraded[request[r].intent.symbol]
                        >= request[r].since - (MetadataMaxAge + MaxLatency)
    OBVIOUS
  <2>1. Typed
    BY DEF Inv
  <2>2. Validate(r)
    BY <2>1 DEF Placed, Next, CheckStamp, LookUp, Validate, Fill, Refuse, Typed, NoRequest
  <2>3. request[r].at = "looked_up" /\ request[r].status = "trading"
    BY <2>1, <2>2, Passed DEF Placed
  <2> QED BY <2>3 DEF Inv, RequestInv
<1> QED BY <1>1, InvHolds, PTL DEF Spec, HaltRespected

(* For any ages and latency: a market order is sized, and any order filled, *)
(* at a price the venue showed recently enough.                             *)
THEOREM RecentPrices == Spec => PricesAreRecent
<1>1. ASSUME Inv, NEW i \in Intents, NEW e \in EstimateFor(i), e.isFresh
      PROVE  now - e.asOf <= BookMaxAge + MaxLatency
  <2>p. PICK b \in books[i.symbol] :
          e = [price   |-> IF i.side = "buy" THEN b.ask ELSE b.bid,
               isFresh |-> now - b.lastUpdate <= BookMaxAge,
               asOf    |-> b.asOf]
    BY DEF EstimateFor, ConservativeEstimate
  <2>1. now - b.lastUpdate <= BookMaxAge /\ e.asOf = b.asOf
    <3>1. e.isFresh = (now - b.lastUpdate <= BookMaxAge)
      BY <2>p, Zenon
    <3>2. e.asOf = b.asOf
      BY <2>p
    <3> QED BY <1>1, <3>1, <3>2
  <2>2. b.lastUpdate <= b.asOf + MaxLatency
    BY <1>1, <2>1 DEF Inv, BookInv
  <2>3. now \in Nat /\ b \in Top
    BY <1>1, <2>1 DEF Inv, Typed, FeedType
  <2> QED BY <2>1, <2>2, <2>3 DEF Top
<1>2. Inv /\ [Next]_vars =>
        [\A r \in Requests :
           LET i == request[r].intent IN
           Filled(r) \/ (Placed(r) /\ i.orderType = "market") =>
             \E e \in EstimateFor(i) : now - e.asOf <= BookMaxAge + MaxLatency]_vars
  <2> SUFFICES ASSUME Inv, Next, NEW r \in Requests,
                      Filled(r) \/ (Placed(r) /\ request[r].intent.orderType = "market")
               PROVE  \E e \in EstimateFor(request[r].intent) :
                        now - e.asOf <= BookMaxAge + MaxLatency
    OBVIOUS
  <2>1. Typed
    BY DEF Inv
  <2>2. CASE Filled(r)
    <3>1. Fill(r)
      BY <2>1, <2>2 DEF Filled, Next, CheckStamp, LookUp, Validate, Fill, Refuse, Typed, NoRequest
    <3>2. PICK e \in EstimateFor(request[r].intent) : e.isFresh
      BY <3>1 DEF Fill, FillFrom, EstimateFor
    <3>3. request[r].intent \in Intents
      BY <2>1, <3>1, RequestStatesType DEF Fill
    <3> QED BY <1>1, <3>2, <3>3
  <2>3. CASE Placed(r) /\ request[r].intent.orderType = "market"
    <3>1. Validate(r)
      BY <2>1, <2>3 DEF Placed, Next, CheckStamp, LookUp, Validate, Fill, Refuse, Typed, NoRequest
    <3>2. PICK e \in EstimateFor(request[r].intent) : e.isFresh
      BY <2>1, <2>3, <3>1, Passed DEF Placed, EstimateFor
    <3>3. request[r].intent \in Intents
      BY <2>1, <3>1, RequestStatesType DEF Validate
    <3> QED BY <1>1, <3>2, <3>3
  <2> QED BY <2>2, <2>3
<1> QED BY <1>2, InvHolds, PTL DEF Spec, PricesAreRecent

(* A limit buy is never filled above the price it was approved at.          *)
THEOREM LimitBuysAreCovered == Spec => []LimitBuyCovered
<1>1. Inv => LimitBuyCovered
  BY DEF Inv, RequestInv, LimitBuyCovered
<1> QED BY <1>1, InvHolds, PTL
============================================================================
