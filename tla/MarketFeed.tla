----------------------------- MODULE MarketFeed -----------------------------
(***************************************************************************)
(* What the server knows of the market, and how old it may be: the symbol  *)
(* metadata store and its refresh loop, the books and their poll loop      *)
(* (symbol_metadata.rs, market_data.rs, main.rs).  Both loops may be late  *)
(* or fail for any time, which changes nothing; an answer is what the      *)
(* venue knew when it answered, and is stored later.                       *)
(***************************************************************************)
EXTENDS Integers, FiniteSets

CONSTANTS
  Symbols,
  Tops,            \* what the venue may show at the top of a book
  MetadataMaxAge,  \* 120 s in main.rs
  BookMaxAge,      \* 10 s in main.rs
  MaxLatency,      \* bound on the time from an answer to its last effect
  MaxTime          \* bound on the clock

ASSUME FeedAssumption ==
  /\ IsFiniteSet(Symbols)
  /\ Tops \subseteq [bid : Nat, ask : Nat]
  /\ MetadataMaxAge \in Nat /\ BookMaxAge \in Nat
  /\ MaxLatency \in Nat /\ MaxTime \in Nat

VARIABLES
  now,
  venueStatus,         \* the venue's truth
  lastTraded,          \* when it last had a symbol trading (history)
  metas, refreshedAt,  \* SymbolMetadataStore: {} or {a time}
  refresher,           \* the refresh loop
  books,               \* MarketDataProvider: {} or {a top} per symbol
  poller               \* the poll loop

venueVars == <<venueStatus, lastTraded>>
storeVars == <<metas, refreshedAt, refresher>>
bookVars  == <<books, poller>>
feedVars  == <<now, venueVars, storeVars, bookVars>>

(* "halt" stands for every status that is not trading; exchangeInfo does    *)
(* not list a symbol that is absent.                                        *)
Absent == "absent"
ListedStatus == {"trading", "halt"}
SymbolStatus == ListedStatus \cup {Absent}

Asleep == [at |-> "asleep"]

(* Before anything the clock can tell from the present.                     *)
LongAgo == -(MetadataMaxAge + MaxLatency + 1)

FeedInit ==
  /\ now = 0
  /\ venueStatus \in [Symbols -> SymbolStatus]
  /\ lastTraded =
       [s \in Symbols |-> IF venueStatus[s] = "trading" THEN 0 ELSE LongAgo]
  /\ metas = [s \in Symbols |-> Absent]
  /\ refreshedAt = {}
  /\ refresher = Asleep
  /\ books = [s \in Symbols |-> {}]
  /\ poller = Asleep

---------------------------------------------------------------------------
(* The refresh loop, and the fetch at startup *)

FetchExchangeInfo ==
  /\ refresher = Asleep
  /\ refresher' = [at |-> "fetched", answer |-> venueStatus, asOf |-> now]
  /\ UNCHANGED <<now, venueVars, metas, refreshedAt, bookVars>>

Listed == {s \in Symbols : refresher.answer[s] # Absent}

(* Slip: the new entries are laid over the old ones.                        *)
KeepOldEntries ==
  /\ refresher.at = "fetched"
  /\ refresher' = [at |-> "inserting", left |-> Listed,
                   answer |-> refresher.answer, asOf |-> refresher.asOf]
  /\ UNCHANGED <<now, venueVars, metas, refreshedAt, bookVars>>

(* replace_all is not one step: it clears, inserts one symbol after the     *)
(* other, and then stamps.                                                  *)
ClearEntries ==
  /\ refresher.at = "fetched"
  /\ metas' = [s \in Symbols |-> Absent]
  /\ refresher' = [at |-> "inserting", left |-> Listed,
                   answer |-> refresher.answer, asOf |-> refresher.asOf]
  /\ UNCHANGED <<now, venueVars, refreshedAt, bookVars>>

InsertEntry(s) ==
  /\ refresher.at = "inserting"
  /\ s \in refresher.left
  /\ metas' = [metas EXCEPT ![s] = refresher.answer[s]]
  /\ refresher' = [refresher EXCEPT !.left = @ \ {s}]
  /\ UNCHANGED <<now, venueVars, refreshedAt, bookVars>>

StampStore ==
  /\ refresher.at = "inserting"
  /\ refresher.left = {}
  /\ refreshedAt' = {now}
  /\ refresher' = Asleep
  /\ UNCHANGED <<now, venueVars, metas, bookVars>>

(* The age check of get, is_stale: never refreshed is stale too.            *)
IsStale == \A t \in refreshedAt : now - t > MetadataMaxAge

TradableSymbols ==
  {s \in Symbols : ~IsStale /\ metas[s] = "trading"}

---------------------------------------------------------------------------
(* The poll loop *)

(* Slip: every entry that parses is taken.                                  *)
ParseAllEntries(tops) == Symbols

(* An empty or crossed book is skipped.                                     *)
ParseAllBookTickers(tops) ==
  {s \in Symbols : tops[s].bid > 0 /\ tops[s].ask >= tops[s].bid}

(* Books move all the time, so the venue may show anything.                 *)
FetchAllBookTickers ==
  /\ poller = Asleep
  /\ \E tops \in [Symbols -> Tops] :
       poller' = [at |-> "fetched", answer |-> tops, asOf |-> now,
                  parsed |-> ParseAllBookTickers(tops)]
  /\ UNCHANGED <<now, venueVars, storeVars, books>>

(* Slip: what is tradable and already has a book counts as looked at.       *)
StampAllBooks ==
  /\ poller.at = "fetched"
  /\ books' = [s \in Symbols |->
       IF s \notin TradableSymbols THEN books[s]
       ELSE IF s \in poller.parsed
       THEN {[bid |-> poller.answer[s].bid, ask |-> poller.answer[s].ask,
              lastUpdate |-> now, asOf |-> poller.asOf]}
       ELSE {[b EXCEPT !.lastUpdate = now] : b \in books[s]}]
  /\ poller' = Asleep
  /\ UNCHANGED <<now, venueVars, storeVars>>

(* The books of tradable symbols are stamped with the time of the update;   *)
(* asOf remembers, for the properties, when the venue answered.             *)
UpdateBooks ==
  /\ poller.at = "fetched"
  /\ books' = [s \in Symbols |->
       IF s \in TradableSymbols \cap poller.parsed
       THEN {[bid |-> poller.answer[s].bid, ask |-> poller.answer[s].ask,
              lastUpdate |-> now, asOf |-> poller.asOf]}
       ELSE books[s]]
  /\ poller' = Asleep
  /\ UNCHANGED <<now, venueVars, storeVars>>

(* The ask for buys, the bid for sells.                                     *)
ConservativeEstimate(s, side) ==
  {[price   |-> IF side = "buy" THEN top.ask ELSE top.bid,
    isFresh |-> now - top.lastUpdate <= BookMaxAge,
    asOf    |-> top.asOf] : top \in books[s]}

---------------------------------------------------------------------------
(* The venue and the clock *)

VenueMoves(s) ==
  \E st \in SymbolStatus \ {venueStatus[s]} :
    /\ venueStatus' = [venueStatus EXCEPT ![s] = st]
    /\ lastTraded' = [lastTraded EXCEPT ![s] =
         IF st = "trading" THEN now ELSE @]
    /\ UNCHANGED <<now, storeVars, bookVars>>

(* No answer lies about for longer than MaxLatency.                         *)
Tick ==
  /\ now < MaxTime
  /\ refresher # Asleep => now - refresher.asOf < MaxLatency
  /\ poller # Asleep => now - poller.asOf < MaxLatency
  /\ now' = now + 1
  /\ lastTraded' = [s \in Symbols |->
       IF venueStatus[s] = "trading" THEN now + 1 ELSE lastTraded[s]]
  /\ UNCHANGED <<venueStatus, storeVars, bookVars>>

FeedNext ==
  \/ FetchExchangeInfo \/ ClearEntries \/ StampStore
  \/ FetchAllBookTickers \/ UpdateBooks
  \/ \E s \in Symbols : InsertEntry(s) \/ VenueMoves(s)
  \/ Tick
=============================================================================
