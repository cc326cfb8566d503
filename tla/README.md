# A verification project for pcs-bot-be

`pcs-bot-be` is a NestJS process that listens to a feed of new liquidity pools,
buys the base token of a new pair on PancakeSwap, and sells it again when the
price reaches a take profit (TP) or falls under a stop loss (SL). Real money
moves in every swap, several handlers wait for databases, exchanges and
transactions at the same time, and the process may be restarted by pm2 at any
moment. These modules model that control flow in TLA+, check it with TLC on
small instances and prove its most important properties with TLAPS for all
values of the constants.

All paths below are relative to the repository.

## The system

### Components

| component | state | operations | what is hard | what makes it correct |
|---|---|---|---|---|
| `NewPairTradingService` (`src/new-pair-trading/new-pair-trading.service.ts`) | tables `trading_intend`, `trade_history`, `pair_dynamic_data`; the map of active quote symbols | handlers of `lp.created` and `lp.updated`; `tryPlaceBuyEntry`, `tryTp`, `trySl`; `lockTrade`/`unlockTrade`; the quote symbols | handlers interleave at every `await`; a lock is a column written without a condition; a swap may be mined and reported as failed; any write may fail after a swap; restarts | one buy and one sale per intent, no phantom position, no lock left behind, a position is eventually sold |
| `ActiveTradingPairs` (`.../util/ActiveTradingPairs.ts`) | a map, table `active_trading_pairs` | `set`, `loadData` | the load races the handlers; writes of the table are not awaited | a pair is followed only for an intent, and until its exit; what is in memory survives a restart |
| `TradingDirectiveAuto` (`.../util/TradingDirectiveAuto.ts`) | `config` or null | a refresh each minute | it changes in the middle of a flow | a flow that loses it releases its lock |
| `TradingMode` (`src/pair-info/TradingMode.ts`) | one of three modes, the pair of mode 'singlePair', the red list of contracts and its table | the mutations that choose a mode, `setRedListContract`, `loadData`; the filter reads it | a contract is shared by pairs; the table is written in the background; a restart forgets the mode | an open position is not cut off from its updates |
| `PancakeswapV2Service` | the wallet | quotations, swaps, approvals | mined transactions with lost receipts; a `catch` that hides a failed approval | the core survives each outcome |
| `AddressApprovalCache` (`src/pancakeswap-v2/util/`) | a map, table `approved_contracts` | `set`, `isApproved`, `loadData` | as `ActiveTradingPairs` | nothing is taken for approved that is not |
| `PairInfoServiceAuto`, `PairInfoService` (`src/pair-info/`) | table `pairs`; an LRU cache of five throttles | filter, throttle, update or create, emit | overlapping calls, evicted throttles whose timers go on, events dropped by design | created once, created before updated, the last event of a burst gets through |
| `WSService` (`libs/socket-client/socket-client.service.ts`) | the socket, three timers | heartbeat, ping, close, reconnect | timers outlive their socket; a silent peer | one connection at a time; it always comes back |
| `PairRealtimeDataService` (`src/pair-realtime-data/`) | an LRU cache of prices with a time to live | `getSymbolPriceUsd`, the handler of `nativeCurrency.price` | overlapping lookups fill one cache, a slow answer is cached when it arrives; a price may be `NaN` or null | an answer is a price the market had a short while ago, a trade is sized by a number |
| `BinanceTradingEndpoint` (`libs/binance/`) | ready after the first balance | `getPrice`; orders, exchange information | `retryUntil` on a flag that may never come | a lookup always ends |
| `BatchService` (`src/utils/batch.service.ts`) | a batch, its keys, a timer, a count of retries | `addItem`, `flush`, the timer | several flushes share one array; items come while `executeBatch` is awaited | nothing is lost or done twice, everything leaves |
| `KafkaService` | a consumer and a producer | connect, consume, produce | | not modelled: nothing calls it |
| Prisma, Sentry, blockchain helpers, utilities, deployment scripts | none, or their tables | I/O | | not modelled, except for the tables and for `retryUntil` |

### Interactions

`WSService` calls back `PairInfoServiceAuto` with each pool event. The filter asks
`TradingMode`; what passes goes through one `lodash.throttle` per pair and then to
`updateOrCreatePool`, which emits `lp.created` or `lp.updated` through the
EventEmitter. Both are handled by `NewPairTradingService`, which nobody awaits:
handlers of one pair may overlap. The handlers share `ActiveTradingPairs`,
`TradingDirectiveAuto`, `TradingMode` (a singleton also written by mutations) and
the tables. Operators act through GraphQL mutations: `forceLpCreatedEvent`,
`setSupportedQuoteSymbols`, `approveToken`, the trading mode. Before a swap a
handler asks `PairRealtimeDataService` what the token it sells is worth, which
asks Binance. `BatchService` is a class of its own; only its own `test()` uses it.

## The modules

| module | models | EXTENDS / uses |
|---|---|---|
| `NewPairTrading` | the trading core, with `ActiveTradingPairs`, `TradingDirectiveAuto`, the red list and the outcome of swaps | |
| `NewPairTradingProps` | its properties; the refinement mapping | `PositionLifecycle` |
| `PositionLifecycle` | the abstract specification: what one row of `trading_intend` promises | |
| `PairFeed` | from a pool event to `lp.created` and `lp.updated`; the refinement mapping | `Announcements` |
| `Announcements` | the abstract specification: what the feed promises the core | |
| `FeedConnection` | the WebSocket and its timers | |
| `QuoteSymbols` | the quote symbols, the cache of approvals, its table and the chain | |
| `PersistedSet` | a set in memory with its table: the form `ActiveTradingPairs` and the red list share | |
| `PairTracking` | the three modes, the red list, the active pairs, the filter | two instances of `PersistedSet` |
| `SymbolPrices` | the lookup of a quote token's price, its cache, the exchange | |
| `TradeVolume` | how much an entry and an exit sell | `SymbolPrices` |
| `BatchService` | batches, their timer and their flushes | |
| `NewPairTradingProofs`, `PairFeedProofs`, `FeedConnectionProofs`, `QuoteSymbolsProofs`, `PersistedSetProofs`, `PairTrackingProofs`, `TradeVolumeProofs`, `BatchServiceProofs` | theorems | the module they are named after |
| `MCNewPairTrading`, `MCPairFeed`, `MCQuoteSymbols`, `MCPairTracking`, `MCTradeVolume`, `MCBatchService` | instances for TLC | the module they are named after |

The modules meet at the events: `PairFeed` shows what the core may rely on (one
`lp.created` per pair, before any `lp.updated`), `NewPairTrading` takes any
sequence of events and so assumes none of it. `PairFeed` takes any sequence of
pool events, which is what a connection that breaks and comes back delivers.
`PairTracking` takes the trade of a pair as three phases, and `TradeVolume` the
outcome of a swap as one step: both are views of the same service from the side
of the state they share with it.

### NewPairTrading: how state and actions correspond to the code

A JavaScript handler runs without interruption from one `await` to the next.
`run[h]` is a running handler: `pc` names the await it is suspended at and the
other fields are its locals, the intent *as it was read* included, because
`trySl` works on the copy `tryTp` was given. One action is the effect of the
awaited call together with the synchronous code that follows it, up to the next
await. `tryPlaceBuyEntry`, `tryTp` and `trySl` have the same skeleton (lock,
check the liquidity, quote, swap, save the history, commit or unlock) and share
the actions; `run[h].purpose` is which of them it is, and the guards and branches
that differ are spelled out.

Abstractions: a quotation is `up` (reaches `tp_target`), `down` (under `sl_target`)
or `flat`; an entry price is positive or rounded to zero by its column; an event's
liquidity is big or small with respect to `safe_lp_size_usd`; time passes in ticks;
a swap is counted up to `MaxSwaps`. The write of `active_trading_pairs`, which is
not awaited, reaches the table at once or never; `PairTracking` has it in full.

Four constants say how hostile the world is, so that each property is stated in
the world it needs: `Overlap` (may the events of one pair overlap, or come before
`loadData` has finished), `DbFaults`, `LostReceipts`, `Crashes`. The feed opens ten
seconds after the start and a pair's events are throttled to one per window, so
overlaps are rare; nothing in the code excludes them.

### The others

`PairFeed` numbers the events of a pair and follows an event through the throttle
and `updateOrCreatePool`. Its history variables (`sent`, `accepted`, `passed`,
`created`, `updated`) exist only for the properties; `disturbed` names the pairs
whose events two throttles or two calls handled at a time, or an error or a
restart interrupted, which the ordering properties leave out: there the code
gives no order.

`FeedConnection` counts the timers down. None of the code's timers knows its
socket, so an action of a timer acts on whatever socket exists.

`QuoteSymbols` has the calls that load or set the symbols suspended at the
approvals between two symbols. `setSupportedQuoteSymbols` leaves out what is not in
`CommonBscQuoteSymbol` (`Listed`), the loader does not: an unknown symbol of the stored
list is set, has no token and nothing waits for it. `touched` collects the tokens an approval of which
failed or that were revoked once, `unsettled` says that calls that set the symbols
overlapped or failed: both are history variables of the properties.

`PersistedSet` has one record: memory, table, writes under way, the loader and the
rows it has read. A change is made in memory at once and sent to the table by a
write nobody waits for; it arrives in any order, late or never, also after the
process that sent it is gone. `intended` is what the callers asked for and
`troubled` the keys no promise can be made about, until they are next changed in
peace: a write of them failed, they were changed before the load had ended or
while another write was under way, or the process stopped before a write arrived.
`PairTracking` instantiates it twice. Its history variable `excused` names the
pairs that something other than the code's own bookkeeping has cut off since an
event of theirs was last let in: the operator chose another mode or forced the
pair past the filter, the exit of a pair with a common contract disabled that
contract, or a restart found no safe contract of the pair in the table.

`SymbolPrices` measures time in ticks, in which entries of the cache and requests
grow old. A lookup is suspended at a sleep of `retryUntil` or at the request,
which the exchange answers with the market as it is at that moment although the
answer may arrive later. `since` is a history variable, how long ago the market
had each price. `Kind` is what `CommonBscSymbol` says of a quote token: a token
without a `symbolBinance` is asked for under the name `undefined`, and its price
is `Number(undefined)`, `NaN`. `TradeVolume` counts amounts in units of a token
chosen so that the divisions are exact; its arithmetic has `NaN` as JavaScript
does, which is neither `<=` nor `>` any number. What comes after the price (the
approval, the quotation, the swap) is one step here, since `NewPairTrading` has it.

`BatchService` follows the array itself: a flush hands `this.items` to
`executeBatch` and works on that array until another flush replaces it
(`aliased`). The constructor sets the options only a tick later (`configured`);
until then `addItem` works with defaults. `pushed`, `done`, `again`, `late`,
`shared`, `early` and `threw` are history variables.

## The runs

Passing runs:

| run | question | bounds and why they are enough |
|---|---|---|
| `adversity` | what holds when two handlers of one pair overlap, calls fail, receipts get lost and the process restarts | one pair, one intent, two handlers: every race in the code is between two handlers over one row, or between a handler and a restart; `SlDelay = 1`, `EntryMaxDelay = 0` make both sides of each comparison happen |
| `serial` | does the core implement `PositionLifecycle`, and does a position keep hearing of its pair, when the events of a pair come one at a time and after the load | two pairs, two intents, two handlers, `MaxSwaps = 2` so that a second swap is visible, restarts |
| `liveness` | do handlers return, are locks released, does a falling market end in a sale | two pairs and two intents, so that both are of one pair or each has its own; one handler, which is enough because a handler waits for no other; `SlDelay = 2`, so that a position waits for its stop loss while updates come; no symmetry, because of the temporal properties |
| `pair_feed` | what the core hears of a pair | three events of one pair (first, waiting, replaced) and one of another to evict its throttle, a cache of one throttle instead of five, two throttles, two calls, one restart |
| `feed_connection` | the timers | delays in units of 5 s: ping 2, close 12, reconnect 3, in the order of 10, 61 and 15 s |
| `quote_symbols` | do memory, tables and chain agree | two symbols that have a token and an unknown one, which only the stored list may hold; two calls, two mutations and one restart: two calls can overlap with each other and with the loader. 6.9 million states |
| `tracking` | which pairs does the bot follow, and until when | two pairs with one contract in common, a red list of one row, one mutation, one restart: an exit cuts the other pair off, a write overtakes a write, a restart meets a write under way. A change back to mode 'contracts' would need two mutations and is covered by the proof only. 2.7 million states |
| `volume` | is a price recent, is a trade sized by a number | two clients whose lookups overlap; a listed, an unlisted and a stable token; two prices, of which the market changes, `Ttl = 2` and `Flight = 1` so that a cached answer can be as old as both together, one retry instead of ten (`MaxRetry`); liquidity below, at and above `safe_lp_size_usd` |
| `batch` | do flushes that overlap lose items or do them twice | a batch of two, three items of which two have one key, `MaxRetry = 1` as in the code; each `addItem` may run a flush and one slot (`Flushers`) does so for the timer and for callers, so that three arrays can exist; a default length of three instead of ten; `onBatchError` may throw |

`CHECK_DEADLOCK FALSE` stands in `pair_feed`, `quote_symbols`, `tracking` and `batch`
only, where the number of events, mutations, restarts or items is bounded and a
run therefore ends.

Runs that find a disagreement between the code and what a comment says of it
(each quoted in `PROJECT.json` under `findings`):

| run | what it shows |
|---|---|
| `entry_race` | `lockTrade` writes without a condition on what was read an await earlier: two handlers of a pair both buy |
| `small_liquidity` | `validateLpSize` throws in `tryTp`, `lpInfo` stays undefined, its destructuring throws between lock and unlock: the intent stays in TakingExit |
| `partial_exit` | the bound on the volume of an exit multiplies by the price of the quote token, where the price of the base token would have to divide: an exit can sell less than was bought although its intent ends there and "sell all of it" is what the comment says |

Some behaviour the modules reproduce without a line in the repository that says
otherwise; it is part of the models and is mentioned here for the reader:

- An exit stops its pair although another intent of the pair may be open, which needs
  the mutation `forceLpCreatedEvent`, since the feed announces a pair once only. The
  other position is then never sold (`StopLossFires` leaves such pairs out).
- A throttle that fell out of the LRU cache keeps its timer: with three throttles of
  one pair its last event may be passed on after a newer one. The database then goes
  back in time (`PassedInOrder` and `FreshWhenQuiet` leave such pairs out).
- A pair whose insert into `pair_dynamic_data` failed is bought, and all its updates
  are then dropped (`BoughtPairGetsUpdates` is stated without `DbFaults`).
- A failed approval is hidden by a `catch` and recorded as given (`CachedIsAllowed`
  leaves out what an approval failed for).
- An intent that was too old when it was locked is never unlocked (`EntryLockOwned`).
- A restart sets the mode to 'contracts' again.
- Items added to a `BatchService` while a flush is awaited are dropped with the array
  they were added to (`NoSilentLoss` leaves them out).

One point where the repository disagrees with itself has no run: a comment of the schema
(`src/prisma/schema.prisma:170`) says of `sl_start_after_mins` that the bot "will start to
trySl after place an entry successfully for some minutes", while `trySl` counts from
`createdAt` of the intent (`src/new-pair-trading/new-pair-trading.service.ts:1053`). When
the entry comes late, the stop loss may come right after it. The model does as the code
does. No property measures the delay; the theorem `StopLossDelayed` says what holds of
it, counted from the creation.

### What the properties say

Core, in the worst world (`adversity`): `EntryBacked` - a row is on the exit side
only after a mined and recorded buy, and only such a row is sold; `ExitBacked` -
TP and SL only after a mined and recorded sale of that name, and no sale without
a recorded buy; `ActiveHasIntent`; `UnfollowOnlyAfterExit`. These survive races
and faults because a handler writes a final status only after its own swap.

Core, orderly events (`serial`): `ImplementsLifecycle` - one buy, one sale, each
under its lock, nothing after TP or SL; `OneFindingEntryPerPair`;
`BoughtPairGetsUpdates` - no position is deaf to the updates of its pair, at
whatever await a restart cut its creation off. The lifecycle holds there
for a reason worth knowing: after a take profit `trySl` runs with the intent as it
was read before, and the only thing that stops it from selling again is that the
pair is no longer in the map of active pairs. A `loadData` that ends between the
two would put it back; that is why "orderly" includes "loaded".

Core, no faults (`liveness`): `ExitLockOwned`, `EntryLockOwned` - a row says
TakingExit or TakingEntry only while a handler works on it, except an intent that
was too old when it was locked, which the code never unlocks; `HandlersReturn`;
`StopLossFires`, for positions with a known entry price and unless the pair is
bought a second time.

Feed: `CreatedAtMostOnce`; `ImplementsAnnouncements` - of a pair nothing disturbs the
core hears the creation first and then ever newer updates; `PassedInOrder`;
`FreshWhenQuiet` - at rest the row holds the last event that was let in;
`AcceptedIsPassed` - an event that waits in a throttle, one dropped from the cache
included, or a later event of the pair is passed on. Connection: `PingNeverWhileConnecting`,
`OneSocket`, `DeadPeerDropped`, `FeedComesBack`. Symbols: `QuotesSettled`,
`ActiveIsApproved`, `CachedIsAllowed`, `LoadedIsCached`.

Tracking: `SetsSurvive` - memory and table of both sets are what their callers made
them, but for the keys in trouble; `OpenPairsFollowed` - an open position is let
in by the filter and active, but for the pairs excused.

Volume: `RecentPrice` - an answer for a listed token is a price its market had no
longer ago than the cache keeps one and a request takes, which is the sum of both
because an old answer may be cached late; `TradesAreSized` - a missing price
(`null`, `NaN`, zero) never becomes an amount, an entry stays between
`min_pair_budget_usd` and `max_pair_budget_usd`, an exit sells something and no
more than was bought; `LookupsReturn` - also when Binance never becomes ready.

Batches: `NoSilentLoss`, `DoneOnce` - up to the items that were in the batch while two
flushes ran; `KeysMatch` - an item is taken for a duplicate of one that waits and
of no other; `EveryItemLeaves`, unless `onBatchError` threw.

### Fairness

- Core: every await completes - the awaited call returns or throws - because
  prisma, axios and ethers settle their promises (`AwaitsComplete`, weak fairness
  of each handler). `FallingMarket` is an assumption about the world, not about the
  code: time passes, updates with enough liquidity keep coming, the price is under
  the stop loss again and again and a transaction is not refused for ever; strong
  fairness, because each of these is possible only when a handler is at the right
  await.
- `PairFeed`: timers fire and database calls return. Nothing makes the feed send.
- `FeedConnection`: time passes and timers fire; a handshake is answered or refused
  (`ws` is used without `handshakeTimeout`, so a server that accepts the TCP
  connection and then stays silent is outside the model); a closing socket closes,
  after 30 s at the latest in `ws`; a server that is tried again and again accepts
  in the end. No peer is assumed to send anything.
- `TradeVolume`: timers fire and a request is answered or fails (`LookupStep`, weak,
  for each client): `axios` and `setTimeout` settle. Nothing makes an event come.
- `BatchService`: promises are resolved, the timer fires, `executeBatch` and
  `onBatchError` end in some way. Nobody is assumed to add an item or to call `flush`.
- `QuoteSymbols`, `PairTracking`: none, their properties are safety properties.

## What is proved

For every value of the constants that satisfies the named assumptions
(`ConstantsAssumption`, `FeedAssumption`, `DelayAssumption`, `QuoteAssumption`,
`TrackingAssumption`, `PricesAssumption`, `VolumeAssumption`, `BatchAssumption`).

- `NewPairTradingProofs`: `TypeCorrect`, by `TypeInv`, which adds to the types what the
  locals of a handler are at the awaits that use them. From it and `BackedInv`
  follow `NoPhantomEntry`, `NoPhantomExit`, `StopLossDelayed` (counted from the creation
  of the intent), `FollowedPairsHaveIntents` and `UnfollowedAfterExit`. `BackedInv` says of each handler what it has already done
  (bought at `history`, recorded at `commit`), because the rows alone do not: the
  properties are not inductive without the handlers' progress. The argument is
  that the counters and the history only grow (`Grows`), so what one handler
  relies on no other can take back. All for any number of overlapping handlers,
  with faults, lost receipts and crashes.
  The other theorems of the module assume that some of it does not happen, and say
  what:
  - `OneFindingEntry` (without `Overlap`): `AloneInv` says that a pair has one handler
    at most, and that between looking for an intent and creating one, or between locking
    one to enter and letting it go, that handler knows of no other.
  - `BoughtPairsHear` (without `DbFaults`): `RowsKept` says that a pair with an intent has
    its row, and so has the pair of a handler that is about to create one.
  - `ExitLocksOwned`, `EntryLocksOwned` (liquidity safe, no faults, no restarts, but
    with overlaps): `LocksOwned` says that a locked row has a handler at work on it, or was too
    old to enter; whoever is done with a row has led it out of the lock, whatever
    a second handler of it does.
  - `LifecycleImplemented` (without `Overlap`, `DbFaults` and `LostReceipts`, with restarts):
    initial states map to initial states and every step of the core to a step of
    `PositionLifecycle` or a stutter. `LifeInv` relates the counters of a row to its
    status and to the await its handler is at. The frame lemma (a handler
    touches only rows of its pair) reduces each step to one pair; the case that is
    not local is `trySl` after a take profit, where the row is closed, the handler's
    copy is not, and only the pair's absence from `active` keeps it from selling
    again; no load can put it back, because handlers run only when loaded.
  - `FollowedUntilExit` (without `Crashes`): the pair of an intent is followed, or the
    flow that created the intent is about to follow it, or a sale of the pair was
    mined. It rests on `UnfollowedAfterExit` and on sales never being forgotten.

  How far its handlers get, again in the worst world: `Rank` counts the awaits a
  handler has before it at most, 22 for an update that tries an entry, a take profit
  and a stop loss. `HandlersAdvance`: no step makes it larger, except that an idle
  handler takes an event, and a step of the handler itself makes it smaller.
  `ServedHandlerReturns`: a handler whose awaits complete (`Served`) returns. Its proof
  is a chain of 22 leads-to steps, one per rank.
- `PairFeedProofs`: `TypeCorrect` from `TypeInv`, which adds what the cache is (no throttle
  twice, no more than its capacity, `CacheInv`) and that what waits, runs or is stored
  was sent (`EventsSent`). `CreatedOnce`: `FeedInv` says that a pair whose creation has
  been or is about to be announced has a row, and that at most one call is about to
  announce it; a unique key keeps it so across overlaps and restarts. `CreatedFirst`
  from `OrderInv`: while a pair is undisturbed it has one call at most, its row is
  there only after the announcement or with the call that is about to make it, and
  a call about to announce an update comes after it. `OrderKept`, `LastEventKept` and
  `FreshAtRest` from `QuietInv`, again of an undisturbed pair: the last event let in was
  passed on or waits in a throttle with an open window (`Kept`), the events passed on,
  stored and announced follow one another (`InStep`), and what the call of the pair has
  yet to store or announce is what is missing (`Fresh`). `AnnouncementsImplemented`:
  every step of the feed maps to a step of `Announcements` or a stutter.
  `WaitingIsPassed`: an event that waits in a throttle whose timer fires (`TimerFires`) is
  passed on, or a later one is, unless the process stops.
- `FeedConnectionProofs`: `TypeCorrect`, `AlwaysOneSocket`, and `PingSafe` from
  `PingAhead`: while a reconnection is scheduled, a ping left over from the old
  socket fires before it. It needs `PingDelay < ReconnectDelay` (10 s and 15 s in
  the code) and nothing else of the delays. `OpenServed`: an open socket has sent its
  subscription and has a close timer. `SilentPeerCounted`: while its peer is silent
  nothing puts that timer off and every tick counts it down, which is what
  `DeadPeerDropped` needs besides time that passes.
- `QuoteSymbolsProofs`: `TypeCorrect`, `SymbolsSettle`, `TradedIsApproved`,
  `NoFalseApproval`, `NoApprovalForgotten`, from one invariant with four parts:
  `Typed` (the locals of a call at each await), `Claims` (map, table, writes under
  way, what the loader has read and the calls that are about to record claim only
  what the chain allows), `Cached` (a write under way is in the map) and `Lone`
  (one call at most sets the symbols, and what it has yet to do is the difference
  between the map and its list).

- `PersistedSetProofs` has the lemmas about one set, `PairTrackingProofs` the theorems
  `TypeCorrect`, `Survival`, `Followership`. `SetInv` strengthens `Survives` by what
  is under way: a key that is not in trouble has one write at most, which is
  the last change of it (`OneWrite`), and what a loader has read will give the memory
  the callers want (`Loading`). `TrackInv` adds that a traded pair is meant to be
  active and that a pair not excused is let in for a reason that lasts.
- `TradeVolumeProofs`: `TypeCorrect`, `PricesAreRecent`, `TradesSized`. `PricesInv` bounds
  the age of a price wherever it is: at the market, told and on its way, in the
  cache (`Ttl + Flight` less what the entry has left), answered. `VolumeInv` says
  what the budget of a running trade is and that a closed position was sized.
  `LookupsAdvance`: `Left`, the steps a lookup has before it, at most `MaxRetry + 3`, never
  grows before the lookup is through, and each of its steps makes it smaller.
- `BatchServiceProofs`: `TypeCorrect`, `NothingLost`, `NothingTwice`, `KeysAreOfItems`. `BatchInv`
  says where a pushed item is (`Pushed`), that a flush which shares `this.items` has
  seen all of it that is not late (`Arrays`), that flushes which were not there
  together have nothing in common (`Apart`), and what the keys are those of (`Waiting`).
  `NothingStranded`: items that wait have a timer, an `addItem` about to set one or a
  flush that takes them along, unless `onBatchError` threw. `FlushesGoForward`: while an
  item waits every flush ends after `MaxRetry + 2` calls at most; together they are what
  `EveryItemLeaves` needs besides promises that are resolved.

Only model-checked: the liveness properties as the runs state them (`HandlersReturn`,
`StopLossFires`, `AcceptedIsPassed`, `DeadPeerDropped`, `FeedComesBack`, `LookupsReturn`,
`EveryItemLeaves`). They assume weak or strong fairness of actions, which is defined by
`ENABLED`, and some of them need an induction over a bound that is a constant (a delay,
a number of retries) inside a temporal formula; both are out of reach of the
installed provers. What is proved instead: for `HandlersReturn` and `AcceptedIsPassed` the
same leads-to with the fairness spelled out as the completion of awaits and the firing
of a timer; for `DeadPeerDropped`, `LookupsReturn` and `EveryItemLeaves` the measure
that only falls and the invariant that something is there to make it fall.
`StopLossFires` and `FeedComesBack` rest on the environment, a market that falls and a
server that accepts, and have no such half. Every invariant, action property and
refinement a passing run checks is proved.

The proofs have found two properties that held on the first instances only.
`AcceptedIsPassed` spoke of the last event let in of a pair, which an older one that
a third throttle kept can follow; `StopLossFires` spoke of every position, and a second one of the same pair is
cut off by the exit of the first. Both say now what the code does keep, and the
instance of `liveness` has two intents.

## What is not modelled

- `KafkaService`, the orders and the exchange information of `BinanceTradingEndpoint`,
  `setSymbolPriceUsd` and `getCacheEntries` of `PairRealtimeDataService`: nothing in the
  repository calls them.
- `setupPairTradingFlow` (`src/new-pair-trading/new-pair-trading.service.ts:216`) has no caller
  either; its Prisma promise is lazy, is never awaited and would not be executed.
- Routes, gas and the arithmetic of a quotation: in the core they do not take part in
  the control flow other than as a price class or an exception. What a trade is worth
  is in `TradeVolume`.
- Blockchain helpers, `SentryService`, `dextool.ts`, the wiring of the modules and the
  deployment scripts: I/O, data and wording without state of their own.
- Several processes on one database, which `deploy-multiple-process.sh` could start:
  their handlers would race like the handlers of one process do in `adversity`, with
  maps and caches of their own.
- The components in one model. They meet at few places (an event, a price, membership
  of a set), where each module takes every value the other may give, so that
  a property of a module does not rest on the other; a product of them would be out of
  reach of TLC.
- A first handshake that is never answered (`libs/socket-client/socket-client.service.ts:41`):
  no timer runs then, and the feed does stay down; see Fairness.

## What is left

The core, its abstract specification, the feed, the connection, the symbols, the
tracked pairs, the volumes and the batches are modelled, checked and, where the
provers reach, proved. What a further step could add, in this order:

1. `PairTracking` between `PairFeed` and `NewPairTrading` in one model, with one pair and no
   restarts, to check that an accepted event reaches a handler that may act on it.
2. A second process in `NewPairTrading`: `active`, `redList` and `config` per process, the tables
   shared.
3. Liveness of the batches and of the connection from the measures that are proved, once
   a prover for temporal induction over a constant bound is at hand.
