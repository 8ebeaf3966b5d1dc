# TLA+ development of the confl-ai trading server

This directory models the server of this repository: a risk engine
(`src/crates/core`), exchange adapters (`src/crates/exchange`) and an HTTP server
with a transactional outbox over PostgreSQL (`src/crates/server`).  Paths below are
relative to `src/crates/`.

## The system

| Component | State | Operations | Model |
|---|---|---|---|
| Order state machine (`exchange/src/order_state.rs`, `types.rs`) | the status of an order | `transition` | `OrderLifecycle` |
| Outbox worker (`server/src/outbox_worker.rs`) | the pass: its batch, the command at hand, a snapshot, an answer | `run_once`, `hydrate_snapshot`, `dispatch`, `persist_reconcile_result` | `Outbox` |
| Persistence (`server/src/db.rs`) | `orders`, `order_fills`, `positions`, `exchange_commands`, `risk_events`, `accounts`, `daily_pnl` | one function per statement | `Outbox`, `AccountGate`, `SequentialTrading`, `AuditTrail` |
| Audit trail (`server/src/db.rs`, `server/src/routes.rs`) | `risk_events` by id | `insert_risk_event`, `list_risk_events` | `AuditTrail` |
| Paper adapter (`exchange/src/paper`) | none of its own; the shared market data | `submit`, `cancel`, `reconcile_order`, `try_fill` | `Adapters`, `OrderIntake` |
| Binance reconcile adapter (`exchange/src/binance/reconcile.rs`) | none; the venue's | `map_order_status_response` | `Adapters` |
| Order placement (`server/src/routes_orders.rs`) | none of its own | `place_order` | `OrderIntake` (before the transaction), `AccountGate` (the transaction), `Outbox` (its rows), `GatedOutbox` (engine and outbox together) |
| Account, limits, kill switch (`server/src/routes.rs`) | `accounts`, `risk_configs`, `correlation_groups` | the PUT and POST handlers | `AccountGate` |
| Exchange config (`server/src/routes_exchange.rs`, migration 0008) | `exchange_configs` | `put_exchange_config`, the trigger | `AccountGate` |
| Risk engine (`core/src/engine.rs`) | none | `evaluate` | `RiskEngine`, `SequentialTrading` |
| Market data and symbol metadata (`exchange/src/paper/market_data.rs`, `server/src/symbol_metadata.rs`, the loops of `server/src/main.rs`) | the store of symbols and its stamp, the top of each book and its stamp | `replace_all`, `get`, `tradable_symbols`, `update`, `conservative_estimate` | `MarketFeed` |
| Metadata parsing (`exchange/src/binance/rest.rs`) | none | `fetch_exchange_info`, `parse_symbol_meta` | `ExchangeInfo` |
| Validators (`server/src/validators.rs`, `exchange/src/quantize.rs`) | none | `validate_order` | `Validators`, `OrderIntake`, `ExchangeInfo` |

How they interact.  A request places an order in one transaction: it locks the
account row, evaluates the trade on a snapshot, and inserts the order and a
`submit_order` command.  A worker pass claims a batch of commands under a lease of 30
seconds, reads each command's order in a transaction of its own, calls the adapter with
no transaction open, and persists the answer in another transaction, which may insert a
follow-up command.  Fills move the positions that the next evaluation reads.  Two loops
of `main.rs` keep the market data the validators and the paper adapter look at.

What is hard about it: passes overlap (replicas, or a lease that runs out under a slow
pass) and die between any two statements; an adapter's answer is computed from a
snapshot that may be out of date when it is persisted; commits may take effect and
report an error; errors are discarded in several places; handlers of one account run
concurrently, some under the account lock and some with a version instead; data that
gates orders is refreshed by loops that may fail for any time.  The list of hazards,
each at its line, is in `PROJECT.json`.

What makes each component correct.  Outbox: fills are counted once, an order's end is
final, a cancel is honoured, the journal and the queue tell what happened, and nothing is
lost for good.  Positions: the sum of the fills.  Account gate: a placement
holds what it was approved on, nothing is left open in another mode than the account's
once it has chosen one, the audit trail agrees with the rows.  Risk engine: its per-trade checks add up to the
limits over any sequence of trades.  Market feed and intake: fail closed on old data.
Metadata: an accepted order satisfies the filters the exchange listed, as far as they could
be decoded.  Audit trail: a
listing misses nothing and tells the changes of a row in order.

## Modules

| Module | Lines it stands for |
|---|---|
| `OrderLifecycle` | statuses and legal moves |
| `Adapters` | the answer of both adapters to `reconcile_order`: new status and the quantity of the one fill |
| `Outbox` | one action per committed statement, transaction or adapter call; `persist_reconcile_result` is two steps, because it reads the position row without a lock and writes it back later |
| `OutboxProperties` | the properties, and the strengthening that is inductive |
| `OrderLedger` | what the outbox promises, with no queue, worker, lease or crash in sight |
| `MCOutbox` | small instances |
| `GatedOutbox`, `MCGatedOutbox` | `Outbox` composed with `RiskEngine`: every placement is decided on the positions recorded so far |
| `Sums` | what a sum over a finite set does when a summand changes |
| `OutboxProofs` | theorems about `Outbox` |
| `GatedOutboxProofs` | theorems about `GatedOutbox` |
| `RiskEngine` | `evaluate` as a pure operator over integers |
| `SequentialTrading`, `MCSequentialTrading` | trades one after the other: evaluate, fill, next |
| `TradingProofs` | theorems about `SequentialTrading` |
| `AccountGate`, `MCAccountGate` | the concurrent handlers over one account, each one step to read and one to commit |
| `AccountRules` | what those handlers promise together, each operation one step |
| `AccountGateProofs` | theorems about `AccountGate`, and that it implements `AccountRules` |
| `MarketFeed` | the symbol metadata store, the books, and the loops of `main.rs` that keep them |
| `Validators` | `validate_order` as pure operators over a symbol's filters |
| `OrderIntake`, `MCOrderIntake` | an order from its look-up to its fill, over the feed |
| `OrderIntakeProofs` | theorems about `OrderIntake` |
| `ExchangeInfo`, `MCExchangeInfo` | from the exchange's answer through `parse_symbol_meta` to an order's verdict |
| `ExchangeInfoProofs` | a theorem about `ExchangeInfo` |
| `AuditTrail` | transactions that insert events, and a client that walks down the listing |
| `AuditTrailProofs` | theorems about `AuditTrail` |

Definitions marked "Slip" are a plausible mistake in the code each; no specification uses
them, and the property they are paired with in `PROJECT.json` fails with them.

### Correspondence of `Outbox`

`status`, `filled` are columns of `orders`; `nfills` and `fillQty` are the number and the
total of its `order_fills`; `pos` is the signed quantity of the open `positions` row of an
(account, symbol), 0 for none; `journal` counts the `risk_events` about an order by
type; `cstatus`, `expired`, `born` are columns of `exchange_commands`.  A pass is `pc`,
its batch `todo`, and for the command at hand `cur`, the hydrated `snap`, the adapter's
`result` and the position row it read, `posRead`.  `venue` is the venue's view of a live
order.  A row lock that lasts longer than a step is read off `pc` (`Unlocked`).

An executed quantity that is missing or does not decode is 0 to the adapter, which applies
the status of the same answer nevertheless (`AnswerRead`, fault `"garbled"`).  The history
variable `unread` keeps the orders whose end came that way: `FillsCountedOnce`,
`WritesFromFreshState` and `LiveEndsComplete` except them from what they say of the whole
quantity and from nothing else, and `OutboxUnread` shows that they must.

Prices, fees, slippage and payloads are left out; the price tests of `try_fill` are one
Boolean chosen freely at each call.  Each order has at most one cancel command, because
nothing under `src/` inserts one and a caller would use the key of `dispatch`.
Trade ids carry the ordinal of the fill in the snapshot, so a duplicate is a
snapshot with fewer fills than the table (`Duplicate`).

### Correspondence of `AccountGate`

`equity`, `killed`, `accountStatus` are the account row; `cfg`, `version` the
`risk_configs` row; `mode`, `modeVersion` the `exchange_configs` row, or `NoRow` as for every
account that `create_account` has just made; `tripped` the days of `daily_pnl` with a trip; `job[c]` what a request has read and
not yet committed.  `lock_account` is `AccountFree`: it excludes the other handlers that
take it and every transaction that inserts a row with a foreign key to the account.
`put_risk_config` takes no lock and relies on its version.  Orders are one unit at price
1 and only buy, so that positions follow from the filled orders; `"pending"` stands for
every open status but `cancel_requested`.  Of the audit events those of the kill switch,
the breaker and the risk config are kept.

`Rules == INSTANCE AccountRules WITH ...` maps the rows to what they mean: `halted` is
the kill switch, `tripped` whether the breaker is stored for today, `mode` is
`load_exchange_mode` (paper if there is no row), `chosen` whether there is one, `working` the open orders, `holding` the
filled ones per symbol, and `owed` a trip that a request has decided on a day that is over
and has yet to store.  The first PUT of an exchange config is a rule of its own (`ChooseMode`),
which asks for nothing; any later change of mode asks for an account with nothing open.  Every commit of a handler maps to one step of `AccountRules` or, if it only
adds to the audit trail, to a stutter like every read.  It is the locks that make this so: what a request decided when it read
is still what the rules say when it commits (`RequestsAreCurrent`).

### Correspondence of `RiskEngine` and `SequentialTrading`

Decimals are integers and percentages are compared after multiplying by 100.  A trade of
`SequentialTrading` is approved and filled before the next one, the only case in which
the engine's checks are meant to add up exactly; `avg` is `avg_entry_price`, which
`apply_position_delta` takes from the fill when it opens or flips and keeps when it grows
or shrinks.

### Correspondence of `GatedOutbox`

`GatedPlaceOrder` is `Outbox!PlaceOrder` under the guard `IsApproved` of `RiskEngine`, on
the snapshot `load_snapshot` would read from `pos` at that moment; every other action is
`Outbox`'s.  Equity and limits are constant, no symbols are correlated, every price is 1.
`exempt` and `crossed` are history and read by the properties only.  `GatedAssumption`: the
cap is a natural number, as `put_risk_config` sees to.

### Correspondence of `MarketFeed` and `OrderIntake`

`metas` and `refreshedAt` are the `SymbolMetadataStore`, `books` the
`MarketDataProvider`; `refresher` and `poller` are the loops, asleep or with an answer in
hand.  A failed fetch changes nothing, so it is no action: a loop may stay asleep for ever.
`replace_all` is clear, insert one by one, stamp; `get` is two steps, the stamp and the
entry.  Time is a clock of a few ticks; `lastTraded` and the `asOf` of a book are history,
read by properties only.  `MaxLatency` bounds the time between an answer of the venue and
its last effect; the code has no such bound (its HTTP client has no timeout), the
properties allow for it by name.  Statuses other than trading are one, `"halt"`.  The
risk engine's refusal of an order is a free choice here, and the transaction of
`place_order` is one step with its validation, because it looks at nothing of the
feed.

### Correspondence of `ExchangeInfo`

`listing` is the exchange's truth, `store` what was parsed of it last.  A listed filter is
its type, its rule and the fields of it that are missing or do not decode; `ParseSymbolMeta`
fills in what is not listed the way `parse_symbol_meta` initialises its locals.  An
undecodable field of a notional filter becomes no bound, or a flag that says no
(`NotionalOf`); any other fails the entry (`Parses`), and one entry that does not parse
the whole fetch.  The product that overflows in `check_percent_price` is an
outcome of its own, because a panic is neither an acceptance nor a refusal.
`AcceptedOrdersFit` compares the verdict with a second reading of the listed
filters (`Satisfies`), which shares nothing with `Validators` but the shape of a rule.  It
speaks of the fields that decoded, each by itself; `WholeListingFits` is the same without that
exception, and `ExchangeInfoSoftened` shows that the code does not keep it.
`ExchangeInfoAssumption` says what the exchange lists and the route lets through: a filter
is listed once, of the two percent-price filters one, and quantities are positive
(`routes_orders.rs:43`).

### Correspondence of `AuditTrail`

`writer[w]` is a transaction that writes to the trail: the row it has locked and the ids it has
inserted; a handler that locks no row before its first event has a row to itself.  Ids
are drawn in increasing order, which is what `Uuid::now_v7` does within one process;
two replicas may draw them out of order within a millisecond, which is not modelled.
`walk` is a client that asks for page after page with the last id as its cursor, from
outside the code; `ListRiskEvents` is one request.

## Runs

Every passing run explores the whole state space of its instance.

| Run | Question | Bounds |
|---|---|---|
| `OutboxTwoWorkers` | do two racing passes keep orders, fills, journal and queue consistent, and implement the ledger | 1 paper order of 2 units that may be cancelled and rejected, 2 passes, 3 faults among crash, lapsed lease, failing statement, lost acknowledgement |
| `OutboxLive` | does the end of an order account for all partial executions, seen or not, and is the ledger implemented | 1 live order of 2 units that may be cancelled, 2 passes, 1 fault of any of the seven kinds |
| `OutboxNetting` | is the position the sum of the fills when orders open it twice or flip it, and is every order submitted in the end, or its command set aside | a buy of 2 and a sell of 3 on one symbol, 2 passes, 2 faults among crash, failing lock, failing statement, lost acknowledgement |
| `OutboxEndings` | do escalations, rejections and cancels run to their end | one paper order with cancel and rejections, one live order without adapter, 2 passes, no faults |
| `SequentialTrading` | what do the engine's checks add up to | 3 symbols (2 correlated), quantities 1..3, prices 1..2, 3 equities, 2 configs, positions up to 3 |
| `AccountGate` | do concurrent handlers keep the account's rules, and implement them as if one after the other, from the creation of the account on | 2 requests, 2 orders, 2 configs, 2 groupings, 2 equities, 2 days, versions up to 2, 2 uses of the kill switch |
| `GatedOutbox` | do decisions made on recorded positions keep the cap and reduce what they are to reduce, through crashes and replays | 4 orders (buy 3, sell 2, sell 2, and a buy of another symbol), 1 pass, 1 crash or failing statement, cap of 1 position |
| `OrderIntake` | is anything accepted or filled on data that is too old | 1 symbol, 1 request, market and limit orders, clock up to 4, metadata window 2, book window 1, latency 1 |
| `ExchangeInfo` | does an accepted order satisfy all that decoded of the listed filters | 2 symbols, 12 and 2 entries with filters missing, undecodable or of the other kind, each field of the notional filter undecodable in turn, 11 intents, 4 estimates, decimals up to 1000 |
| `AuditTrail` | does the listing miss nothing and keep the order of a row | 2 transactions, 2 rows, 5 events, limits 0, 2 and 9 with a cap of 3 |
| `OutboxLostUpdate`, `OutboxClosing` | statements of the repository that the code does not keep, see below | as small as shows it |

Why the bounds are enough.  The properties of an order relate it to the passes that work
on its commands; two passes are what a lapsed lease gives, and three faults let a command
be abandoned, replayed, and the replay be lost too.  In `OutboxNetting` two faults are what it
takes to set a command aside and lose its pass before the audit event; a lapsed lease is
left out there, because two orders with it are more states than a run should take (one
exploration with it found nothing), and its part in positions is in the theorem `PositionsMatch`.
Two units are the least that can be
filled in parts.  Races over a position need two orders of one symbol.  In `AccountGate`
every conflict is between two requests, or a request and the worker or midnight.  The
engine's group rule needs two correlated symbols and one outside; one config is bound by
the count and one by the exposure.  In `GatedOutbox` two sells of 2 against 3 are the least
that can each reduce and together flip; a page of one, one of several and one that is capped
are the cases of `list_risk_events`, and two rows let transactions overlap.  The listings of
`ExchangeInfo` drop or break each filter in turn.

`MaxFaults`, `MaxVersion`, `MaxEngages`, `MaxLoss`, `MaxQuantity`, `MaxTime` and `MaxEvents` cap
counters and are guards of the action that would exceed them.  `MaxDecimal` and `MaxPage`
stand for the code's own `Decimal::MAX` and 500.

### Fairness

`FairSpec` assumes strong fairness of each pass: a pass whose next step is possible again
and again takes it.  The worker loop of `main.rs` runs `run_once` for ever, and the only
thing a step waits for is a row lock, which PostgreSQL grants in order.  Abandoned leases run out
(weak fairness of `LeaseExpires` when no pass holds the command).  Nothing is assumed of
faults, of the venue or of the client, and liveness is stated for what an order comes to:
submitted or set aside, cancelled, rejected, audited.  The other modules state safety
only: their steps are taken for clients or by loops that may fail for ever.

## Proofs

Every property of the passing runs but the liveness properties is also a theorem, for
every value of the constants that the module's assumption admits.

`OutboxProofs` proves, for any orders, symbols, passes, adapters and faults satisfying
`OutboxAssumption`: `TypeCorrect`, `FillsAreCountedOnce`, `FreshWrites`,
`TerminalOrdersAreFinal`, `CancelsAreHonoured`, the refinement `OutboxImplementsLedger` and
`JournalTellsTheStory`.  Four more have a hypothesis: `DeliveredIsDone` (`"event"` is
not among the faults), `ReplaysDoNotEscalate` (paper orders, their adapter, no failing order
lock), `PositionsMatch` (`FillsDoNotMeet`, finitely many orders) and
`LiveOrdersEndComplete` (no adapter rejects a submit, and neither of the code's does).

The inductive invariant is `IInv == TypeOK /\ FillsCountedOnce /\ WritesFromFreshState`.
`FillsCountedOnce` alone is not inductive: that a fill does not exceed the
order depends on the snapshot its quantity was computed from.  `WritesFromFreshState` says
why it does not: a pass between its lock and its commit works on the order as hydrated
(`OrderLockHeld`), and what an adapter answered fits the snapshot (`ResultsFit`), which
for a live order needs that the venue never executes more than was ordered
(`VenueSound`), and that a FILLED without a readable quantity is told apart (`unread`).  The
optimistic check of `persist_reconcile_result` establishes the
first, the row lock keeps it.  The proof that a step preserves it goes action by action;
the action properties follow from the invariant, and the refinement maps every step to
one of the ledger or a stutter.

The queue proofs strengthen it further, each for one question.  The refinement needs that
no reconcile is queued for a pending order (`ReconcilesAreLate`).  The journal needs that
the paper adapter never answers `cancel_requested` (`AnswerSound`), so that entry comes
from the cancel itself.  A delivered command is done because it was done when its
pass came to the mark (`QInv`), and what is done stays done: the reconcile after a cancel
is queued only once the cancel is taken up (`CancelsTakenUp`).  No replay escalates because
a snapshot with the fills' present total also has their present number, so a
duplicate trade id comes only with a snapshot the optimistic check refuses, and the
paper adapter's answers are legal moves from the status hydrated (`PassClean`).

`FillsDoNotMeet` is what `PositionsMatch` cannot do without: `persist_reconcile_result` writes
back a position it read without a lock, so three orders of a symbol, or two of which one
fills in parts, can lose an update (`OutboxLostUpdate`).  With one pass, or at most two
paper orders on a symbol, none is lost.  The reason is not a lock: a paper order
fills at once and whole (`PaperFillsWhole`), so what one of two passes misses can
only be the row the other opens, and then its own INSERT fails on the unique index.  In terms
of the invariant, a pass about to write has read the present quantity or no row
(`PositionsRead`).  That the position stays the sum when one summand changes is `SumChange`.

`LiveOrdersEndComplete` rests on the venue: it takes no execution back and its end is its end
(`VenueGoesOn`).  An answer accounts for no more than has been executed, and an end for all
of it unless its quantity could not be read (`AnswerAccounts`); so do the order and whatever a pass holds (`OrderAccounts`,
`PassAccounts`), because a snapshot only ever trails the venue.

`Sums` says what a sum over a finite set does when an element is taken out, a summand
changes or the set is renamed.  The library's induction theorems take a predicate
as an operator, which the provers cannot instantiate; its well-foundedness theorem takes
sets, so each induction is carried out as "there is no least counterexample" on the
cardinality (`NatLeast`).

`TradingProofs` proves for `SequentialTrading`, from `TradingAssumption` (finitely many
symbols, positive quantities and prices, limits as `put_risk_config` validates them):
`TypeCorrect`, `CapIsKept`, `TripsHold` and `ReductionsAlwaysPass`.  `PositionCapKept` is
inductive together with `TypeOK`; the step needs that `load_snapshot` yields exactly one
row per symbol held (`SnapshotCounts`, by an injection from symbols to rows), so that the
engine's count is the account's.  `ExposureIsKept` needs the same for totals: the engine
adds up rows, the account symbols, and `SumRenamed` carries one sum over to the other; the
trade then changes one summand.  `EquityHelps` compares two evaluations rule by rule, with
the branches for no equity among them.

`GatedOutboxProofs` first shows that every step of the gated system is one of the outbox
(`GateOnlyRestricts`), so `IInv` and the lemmas on it hold there too.
`SerialOrdersStayWithinCap` then needs `CapInv`: as long as orders come one by one, an order
in flight either was let through with a free place or adds to a symbol held already.
`LoneReductionsNeverFlip` needs `LoneInv`: an exempt order that nothing crossed is
the only one in flight, the position still covers what is left of it, and a pass about to
write its fill has read that position (`AloneAndCovered`, `ReadFresh`).

`AccountGateProofs` proves every property of the run `AccountGate`, from
`GateAssumption`: `TypeCorrect`, `RequestsStayCurrent`, `PlacementsWithinLimits`,
`KillSwitchIsAudited`, `TripsAreAudited`, `ConfigChanges`, `OneMode` and the refinement
`HandlersImplementRules`, all from the creation of the account on.  The invariant
is `Inv == TypeOK /\ RequestsAreCurrent /\ Past /\ Unplaced`: what a request read under
the lock is still so, trips are of days gone by or today, an order not placed has no mode.
`RequestsAreCurrent` is the heart: each action either excludes the lock's holder, or leaves
alone what the holder decided on.  For `OneMode` a step that changes the mode is the
commit of `put_exchange_config`: it is the first, or the trigger has found nothing open
(`ForbidModeSwitch`), and no other step opens anything but in the mode of the account.

`AuditTrailProofs` proves `TypeCorrect`, `RowsInCommitOrder` and `WalksAreComplete` from
`TrailAssumption`.  The second needs that the ids of an open transaction are newer than all
committed events of the row it holds (`Uncommitted`), the third that a walk has seen
everything it began with at or above its cursor (`SeenAboveCursor`).

`OrderIntakeProofs` proves `TypeCorrect`, `HaltsAreRespected`, `RecentPrices` and
`LimitBuysAreCovered`.  The invariant dates what each part knows: the venue's history
(`HistoryInv`), an answer on its way into the store (`RefresherInv`), the store against
its stamp (`StoreInv`), a book against its stamp (`BookInv`), and what a request has looked
up so far (`RequestInv`).

`ExchangeInfoProofs` proves `AcceptedOrdersAlwaysFit`, from `ExchangeInfoAssumption`: a filter
listed once is the one `parse_symbol_meta` keeps (`RuleListed`), of a notional filter field by
field (`NotionalKept`), and each check of
`validate_order` implies the reading of `Satisfies`; that divisibility by `%` means
being a multiple of the step is `AlignedIsMultiple`.

Only model-checked: the liveness properties (`SubmittedOrSetAside`, `ParkedIsAudited`,
`RejectionReachesOrder`, `CancelEndsOrder`), which rest on fairness and so on ENABLED, out
of the prover's reach.

## What the code does otherwise than the text says

With a run each (`findings` in `PROJECT.json`):

- `OutboxLostUpdate`: two fills on one symbol in two passes lose one of the deltas
  (`server/src/db.rs:611`, no `FOR UPDATE`).
- `OutboxClosing`: a fill that closes a position exactly can never be committed
  (`server/src/db.rs:646` against the CHECK in migration 0001).

Further configurations, kept beside the runs; TLC finds the counterexample of each
(`tlc -config <name>.cfg <module>`):

| Configuration | Module | Property | What the counterexample shows |
|---|---|---|---|
| `OutboxUnread` | `MCOutbox` | `FilledIsWhole` | a FILLED whose `executedQty` is missing or does not decode ends a live order without its fill (`exchange/src/binance/reconcile.rs:71`) |
| `OutboxRejections` | `MCOutbox` | `RejectionsMatch` | `order_rejected` is entered for an order that is past rejecting, and again when the rejection is replayed (`server/src/outbox_worker.rs:111`) |
| `OutboxDropped` | `MCOutbox` | `SubmittedOrEscalated` | an order lock fails, its command is set aside, and the pass dies before the audit event: the order stays pending with nothing on the trail (`server/src/outbox_worker.rs:58`) |
| `OutboxStarved` | `MCOutbox` | `SubmittedOrSetAside` | a command that fails again and again fills the batch, oldest first, and a later order is never submitted (`server/src/db.rs:529`) |
| `OutboxResting` | `MCOutbox` | `OpenOrderHasWork` | a resting limit order is looked at once and never again (`server/src/outbox_worker.rs:362`) |
| `AccountGateFirstPut` | `MCAccountGate` | `ActivityInOneMode` | the first PUT of an exchange config may switch the mode under open activity (`server/src/routes_exchange.rs:110`) |
| `AccountGateMidnight` | `MCAccountGate` | `TripsOnTheDayOfTheLoss` | a trip found just before midnight is stored for the next day (`server/src/db.rs:144`, `:182`) |
| `AccountGateInFlight` | `MCAccountGate` | `OpenWithinCap` | `max_concurrent_positions` does not count orders that have not filled yet (`server/src/db.rs:110`, against `PHASE2_PLAN.md`) |
| `OrderIntakePriced` | `MCOrderIntake` | `MarketOrderSizedAtMarket` | a market order that carries a price is put to the risk engine at that price (`server/src/routes_orders.rs:84`) |
| `GatedOutboxTwice` | `MCGatedOutbox` | `ReductionsReduce` | two sells are each let through as reductions of one position and together flip it (`core/src/engine.rs:81`) |
| `AuditTrailCursor` | `AuditTrail` | `StableCursor` | an event becomes visible below ids already listed, because its transaction commits late (`server/src/db.rs:43`, against the comment at `server/src/routes.rs:489`) |
| `ExchangeInfoSoftened` | `MCExchangeInfo` | `WholeListingFits` | an undecodable `minNotional` or `maxNotional` counts as no bound, an undecodable `applyMinToMarket` or `applyMaxToMarket` as false, and an order outside the listed bound is accepted (`exchange/src/binance/rest.rs:309`) |
| `ExchangeInfoUnbounded` | `MCExchangeInfo` | `ValidationAnswers` | the bound that stands for a percent-price filter that is not listed overflows when it is multiplied by a price above 1 (`exchange/src/binance/rest.rs:279`, `server/src/validators.rs:140`) |

Met while modelling, in the model or by reading, without a configuration of their own:

- The error of the audit insert in `persist_reconcile_result` is discarded
  (`outbox_worker.rs:292`); the COMMIT of the aborted transaction then rolls back and
  reports success, so a command is delivered with nothing persisted (fault `"event"`, which
  breaks `DeliveredMeansDone` and is therefore not among the faults of `OutboxTwoWorkers`; no
  property covers it).
- Marks are not fenced by the lease (`db.rs:551`): a slow pass marks a command another pass
  has claimed again.
- `pending` to `submitted` has no `risk_events` row (`outbox_worker.rs:330`, against "every
  transition" in `docs/DEVELOPMENT.md`).
- A crash between the mark of a permanent rejection and its order transaction leaves the order
  as it was, with no command left (`outbox_worker.rs:89`).
- `place_order` evaluates the breaker but only `evaluate_trade` stores a trip.
- `put_exchange_config` logs `exchange_mode_switched` also when nothing was switched
  (`routes_exchange.rs:181`).
- A limit order is accepted with no price estimate or an old one (`validators.rs:125`), where
  a comment of `main.rs` says no symbol passes validation without a price feed.
- A zero step aligns no quantity (`quantize.rs:7`) and `parse_symbol_meta` starts from zero steps
  (`rest.rs:263`), so a symbol without a MARKET_LOT_SIZE filter accepts no market order.
- The startup fetch does not block until it succeeds (`main.rs:48`).
- `replace_all` clears the map before it fills it (`symbol_metadata.rs:26`), so a request in
  between finds no symbol; it fails closed.

## Not modelled

- `paper_account.rs`: a ledger no adapter is wired to in this commit.
- `binance/ws.rs`: a parser of one message type; nothing calls it.
- Row-level security and the tenant of a transaction (migration 0002): a predicate PostgreSQL
  evaluates on every statement; no step of the server decides it.
- Credential encryption, request signing, HTTP and JSON, the mapping and wording of errors:
  no state that a property here tells apart.
- Fees and slippage: numbers attached to a fill that nothing reads back.
- List and view handlers other than the audit trail's: one read each.
- Ids drawn by two replicas in the same millisecond (see `AuditTrail`).

## Where it could go on

- `GatedOutbox` with equity, limits and the kill switch that change under it, which is
  `AccountGate` joined with `Outbox`; two concurrent requests over two passes are more
  states than a run can explore, so this wants a coarser `Outbox`, such as `OrderLedger`.
