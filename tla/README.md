# A TLA+ specification of OpenPoly

OpenPoly reads news, matches it to prediction markets on Polymarket, asks a
language model for a probability, and buys and sells outcome tokens, on paper or
with a real wallet. This directory holds TLA+ modules of the part of it that
moves money - how a position is opened, watched, sold, settled and booked - and of
the services around it: the news feed, the pipeline, the entry rules, the book
cache, the database writer, the canvas and the exec mode. TLC checks the modules on
small instances, and TLAPS proves the most important of the properties for every
instance.

Paths below are relative to the repository's root; `exit_monitor.py` and the like
are in `openpoly/runtime/`, `live_executor.py` in `openpoly/execution/`.

## 1. Inventory

### The parts and what they keep

| Part | State | Operations | Talks to |
| --- | --- | --- | --- |
| Ledger, `portfolio/store.py` | tables `position` and `fill`, a partial unique index on open rows | `open_position`, `record_sell`, `close_position`, queries | called from worker threads by every executor and monitor |
| Claim registry, `closing_registry.py` | the set of position ids being sold | `mark_closing`, `clear_closing`, `is_closing` | all sellers and closers, on the event loop |
| Exit monitor, `exit_monitor.py` | per position: peak, logged hold, logged error, backoff, thin streak; the watch list; tasks in flight | tick, evaluate, confirm, close, observe a book, bootstrap, drain | book cache, exit section, registry, executor, ledger |
| Exit sections, `sections/exit/` | configuration only | `decide` on a marked position | called by the exit monitor |
| Live executor, `live_executor.py` | resting orders per position, client | `execute_buy`, `execute_sell` | venue, data API, wallet, ledger |
| Paper executor and sizing, `execution/` | none | `execute_*`, `quantize_size` | book cache, ledger |
| Manual closes, `api/portfolio_routes.py` | none between requests | close one, close all | registry, executor, ledger |
| Settlement monitor | none between ticks | close the rows of resolved markets | ledger, registry, catalog over HTTP |
| Reconciliation monitor | tokens already alerted | close rows the wallet is flat in, alert holdings without a row | ledger, registry, holdings API |
| Market source, `markets/` | catalog, cached books, the set of tokens to keep | sample, refresh on demand, observers | HTTP, exit monitor, orchestrator |
| Orchestrator | bounded queue, current sections | worker, section swap, stop | news, embedding, analyzer, entry rules, executor |
| Entry rules, `sections/entry/` | configuration only | size, lockouts, exposure, daily loss switch | ledger |
| Database writer, `db/writer.py` | queue, batch in flight | enqueue, write, flush, stop | SQLite |
| Mode and wallet, `wallet/`, `api/wallet_routes.py` | paper or live | switch, configure | ledger, executors |
| News feed, `news/` | ring buffer, connection | reconnect, deliver | orchestrator |
| Canvas and sections, `canvas_store.py`, `sections/` | stored canvas, registry | save, reload | orchestrator |

The event loop runs the monitors, the routes and the orchestrator; orders and
ledger writes run in worker threads that the loop awaits. Whatever holds between
two awaits of one coroutine may therefore be changed by any other one, and by the
venue and the chain at any time.

### What is hard

- **Four closers, one row.** The exit sweep, the manual routes, settlement and
  reconciliation decide on a list they read earlier and act after an await.
- **Answers that do not come.** A POST may land without an answer, a cancel may work
  without one, the data API lags, the balance may be unreadable. The executor
  reconstructs what filled from several kinds of evidence.
- **Orders that fill later.** What is left of an order may fill after its settle.
- **The gap between chain and ledger.** A fill and its row are two writes; the process
  may die in between, or the second may fail for good.
- **Two-step transactions.** Ledger writes read the row and write it later.
- **Books that lie.** Bare dust bids, wide spreads, stale and vanished books must
  neither close a position nor keep it from being closed.
- **Retry without flood.** A failing stop backs off but must be tried for ever.
- **Three fetchers, one cache.** The sampler's batches, the held-book loop and the
  refreshes of decisions overlap, and a 404 may come in between any of them.
- **A decision of many reads.** The entry rules read books, exposure and history one
  after the other while positions close and the catalog moves.
- **Stopping with a thread at work.** A cancelled task does not take its thread along:
  a buy, or a batch on its way into the database, runs to its end.
- **Configuration that changes under way.** A canvas save swaps sections, restarts the
  market source and moves the news window while all of them are in use.

`PROJECT.json` lists these as hazards, each at its line with the properties that
would catch it.

### What makes each part correct

- Ledger: shares and money are conserved, closed rows are final.
- Close protocol: one seller per row, no row closed under a seller, every buy gets
  its row, the wallet covers the ledger, and every row that should close does.
- Live orders: nothing is booked that did not move, what moved is booked or
  alerted, at most one known order of a position is on the book.
- Exit rules: neither the spread nor dust fires or silences a stop.
- Exit monitor: the peak is real, a frozen book is not evidence, a dead market is
  not sold into, a stop is never given up.
- Book cache: an old book never replaces a newer one, a 404 is not undone by an
  earlier answer, a book that a position needs stays.
- Entry rules: caps, brakes, lockouts and the ban on both sides hold although what they
  read is old when the order is placed.
- Orchestrator: what is queued is decided on, what is bought was judged fresh.
- Writer: nothing enqueued is lost at shutdown without being counted.
- News feed: it comes back, filters as configured, and does not claim to work when it
  does not.
- Canvas: the sections in use are those of the canvas on disk.
- Exec mode: live is in force only where the API was protected when it was chosen.

## 2. The modules

| Module | Models | Extended by |
| --- | --- | --- |
| `PortfolioStore` | the ledger with its two-step transactions | `MCServices`, `PortfolioStoreProofs` |
| `CloseProtocol` | every actor that can open, sell or close a row, the wallet and the indexer | `MCCloseProtocol`, `CloseProtocolProofs`, `CloseBackingProofs`; instances in `MCServices` |
| `Custody` | the abstract specification of `CloseProtocol`: indivisible trades | refined by `CloseProtocol!ImplementsCustody` |
| `LiveOrder` | the live executor's settle of the orders of one position | `MCLiveOrder`, `LiveOrderProofs` |
| `ExitRule` | both exit sections and the marking of a book, as operators | `ExitWatch`, `ExitMonitor` |
| `ExitWatch` | one position under `ExitRule`, for any sequence of quotes | `MCExitWatch`, `ExitWatchProofs` |
| `ExitMonitor` | the monitor around the rules: cache, refresh, claim, sale, backoff, restart | `MCExitMonitor`, `ExitMonitorProofs`; an instance in `MCProgress` |
| `BookCache` | the market source: catalog, cached books, their fetchers and hooks | `MCMarket`, `MarketProofs` |
| `EntryDesk` | both entry sections and the paper buy, against a ledger that moves | an instance in `MCMarket`, `MarketProofs` |
| `Pipeline` | the orchestrator: queue, worker, stages, swaps, stop | instances in `MCServices`, `MCProgress` |
| `NewsFeed` | the news source manager, its source and its reconnecting client | instances in `MCServices`, `MCProgress`; run itself by `FeedStuck` |
| `WriteBehind` | a write-behind writer, its stop, and the retention prune | an instance in `MCServices` |
| `CanvasReload` | canvas saves, the reloads they start, the market source's restarts | an instance in `MCServices`; run itself by `CanvasSkipped` |
| `ModeSwitch` | exec mode and wallet: memory, file, requests, boot | an instance in `MCServices` |

`MCServices`, `MCProgress` and `MCMarket` check several modules in one run. Their parts
share no state: the variable `part` says which module moves, the others stay in their
initial state, and each behaviour is a behaviour of one module. A property of such a run
is a property of one of its parts. `ServicesProofs` proves the services of `MCServices`, each
by itself and then side by side, and `MarketProofs` those of `MCMarket`.

They are layers of one system. `CloseProtocol` takes an order as one step and lets
a sweep decide freely whether to sell; `LiveOrder` opens up that step, and
`ExitMonitor` that decision. `PortfolioStore` opens up the ledger write that the
other three take as atomic; what makes that sound is its guard `Exclusive`, two
callers never write one row together, which is `OneSeller` and
`ClaimedRowStaysOpen` of `CloseProtocol`. `Pipeline` takes a section as a verdict, and
`EntryDesk` opens up the entry section's; `Pipeline!Refreshed` and `ExitMonitor!Fetch`
take a fetch as an answer, and `BookCache` opens up the cache it goes through.

Operators with a name like `RecFlatClaimed`, marked as a variant or as faulty, are
plausible mistakes. No action uses them: putting one in the place of the operator
it varies shows that a property notices.

### PortfolioStore

A position row is a record; the fill table is kept as sums per position. A
`Caller` is a worker thread; `tx` is what it has read and not yet committed.

| Code | Specification |
| --- | --- |
| `open_position` with its buy fill | `OpenPosition` |
| `record_sell`: select, then update and insert | `ReadForSell`, `CommitSell` |
| `close_position`: select, then update | `ReadForClose`, `CommitClose` |
| an exception in the session | `Rollback` |
| `realized_gain` | `RealizedGain` |
| the residue below `MIN_SELLABLE_QTY` closes a row | the branch of `CommitSell` |

### CloseProtocol

Each seller (`"exit"`, a slot of `Routes` or of `BulkRoutes`) has a program counter,
the claimed row, and the list it works from (`snap`). An action is what runs
without giving up the event loop, or one external call of a worker thread.

| Code | Specification |
| --- | --- |
| sweep: read the rows, per row check `is_closing`, re-read the status, claim | `ExitSweep`, `ExitPass`, `ExitClaim`, `ExitDone` |
| `close_position` route | `RouteClose` |
| `close_all_positions` route, its list read once | `BulkClose`, and what `BulkAdvance` does after each row |
| `execute_sell` in its thread: the executor of the mode, its gate, order, persist | `SellStep`, `ExecuteSell` |
| `clear_closing` in `finally` | `Release` |
| settlement tick: list, fetch, close | `SettleFetch`, `SettleProcess` |
| reconciliation tick: list, fetch, both diffs | `RecFetch`, `RecAnswer`, `RecProcess` |
| the pipeline's buy: no open row, order, row | `BuyCheck`, `BuyPost`, `BuyPersist`, `BuyPersistFails` |
| the process dies and starts again | `Crash` |
| the market, the indexer, the owner of the wallet, time | `MarketResolves`, `IndexerCatchesUp`, `OutsideExit`, `Ages` |

`view` is what the holdings API may report of a token: after every change of the
wallet both the old and the new answer are possible until the indexer catches up.
The refinement to `Custody` maps the wallet so that a sale leaves it when it is
written and a buy enters it when its row does (`Sold`, `Bought`).

### LiveOrder

The calls of one position come one after another (the claim sees to that), so the
executor is one thread, and the venue may move between any two of its requests. A
behaviour belongs to one `setting`: a side, and the kinds of trouble that may occur
in it (listed in the module's header). Properties that hold only without some kind
of trouble say so.

| Code | Specification |
| --- | --- |
| `execute_sell` / `execute_buy`, sizing | `Begin` |
| `_resting_order_off_book` | `FreeCancel`, `FreeRead` |
| the balance gate and its baseline | `GatePass`, `GateSkip` |
| POST: rejected, answered, unanswered | `PostRejected`, `PostAnswered`, `PostLost` |
| `_settle_resting_remainder`: cancel with retries, re-read, last read | `TryCancel`, `RereadTerminal`, `RereadAgain`, `FinalRead` |
| evidence to a quantity; `_confirm_lost_order_qty`, `_wallet_delta` | `Resolve`, `FromBalance`, `WalletDeltas` |
| `_persist_sell`, `_persist_open` | `Persist`, `PersistFails` |
| `_resting` remembered or not | `Remembered` |
| the venue | `Fill`, `VenueEnds` |

### ExitRule, ExitWatch

`ExitRule` keeps the order of precedence of the sections (hard stop, stop on the
mid, take profit, trailing stop, age) and of the thin rule of v1. Prices are whole
ticks and percentages whole percents, so that the comparisons of the code are exact:
names ending in 100 are in hundredths of a tick. `ExitWatch` marks one position on
any sequence of quotes (bid and ask chosen freely, the bid with or without size),
starting from an entry whose spread passed the gate of the entry section.

### ExitMonitor

The monitor keeps its state per position, so one position shows what there is to
see; that others are being processed is a pause between the list and this row.

| Code | Specification |
| --- | --- |
| `_tick_once`: list, prune, evaluate | `TickRead`, `TickList`, the evaluation of `Judge` |
| `_evaluate` and its early returns | `WaitsOut`, `HoldsThin`, `HoldsWithin`, `SkipsClosed`, `SkipsClaimed`, `ClaimsRow` |
| `_confirm_close` on a refreshed book | the steps at `pc = "confirm"` |
| `_close` in its task, the sell in its thread | `SaleStep` |
| `observe_book`, `_watch`, `_unwatch` | `Fetch`, `Unwatched` |
| `bootstrap_peaks` | `Restart` |
| `stop`, `_drain_inflight` | `Stop`, `Drained` |
| `MarketStore` for one token | `Fetch`, `Gone`, `Dropped`, `Ages` |
| catalog, settlement, manual close | `MarketCloses`, `Settles`, `ManualClaims`, `ManualEnds` |

`seen` is history for the properties only: the best mark of the row's lifetime, how
the last evaluation ended, and the number of fetches that showed a collapse.

### BookCache

A book is known by the stamp of its receipt alone. Every reading of `book_clock()`
that becomes a stamp is a tick, so that two receipts differ.

| Code | Specification |
| --- | --- |
| `set_order_books`, `put_order_book`, `mark_book_gone` | `SetOrderBooks`, `PutOrderBook`, `MarkBookGone` |
| `_sample_books_once`, request by request | `SampleStarts`, `SampleAnswer`, `SampleStores` |
| `ensure_fresh`, `refresh_order_book`, its timeout | `EnsureFresh`, `RefreshAnswer`, `RefreshTimeout` |
| `_refresh_held_books_once` | `HeldReads`, `HeldRefreshes`, `HeldReadFails` |
| `_deliver_books`, `_prune_last_persisted` | `Deliver`, `Pruned` |
| `_poll_once`, `_sync_holdings_once`; either of which may raise | `PollStarts`, `PollAnswers`, `SyncHolding`; `PollFails` |
| `start`, `stop` | `Start`, `Stop` |

### EntryDesk

One decision at a time, as the pipeline's one worker takes them; `dec` is what it has
read. A book or a fee rate is chosen anew at each read, which is what a cache that
others fill comes to, and v1 may find the rate of one side gone that was there a line
before. `tally` is history: the streak and the drawdown as the closes
make them, for the properties to compare the brakes with.

| Code | Specification |
| --- | --- |
| `_select_side`, `_edge`, `_quote_bid` | `Choose`, `Edge`, `QuoteBid` |
| `_portfolio_gates`: heat cap; kill switches; opposite side; lockout, cooldown | `ReadsOpens`, `ReadsHistory` |
| `_kill_switch_check`, `_in_cooldown`, v1's `_extra_portfolio_gates` | `Killed` (`Streak`, `PnlSince`, in the order of `ClosedAt`), `Hot`, `Opposed` |
| `_price_gates`, `_scaled_notional` | `Prices`, `Scaled` |
| `PaperExecutor.execute_buy` | `Fills` |
| sells in full and in part, and reconciliation, meanwhile | `Sells`, `SellsPart`, `Closes` (`Exits`) |

### Pipeline

| Code | Specification |
| --- | --- |
| `enqueue`, its overflow | `Enqueue` |
| `_worker`, `_news_is_stale` | `Dequeue`, `StaleRow` |
| `_process`: embedding, analyzer, the refresh of books, the entry section | `Embedded`, `Analyzed`, `Refreshed`, `Decides`, `DecidesNot` |
| the buy in its thread | `Bought`; after a stop, `ThreadEnds` |
| `start`, `stop` | `StartWorker`, `StopWorker` |
| `replace_section`, the news window; the catalog | `Swap`, `CatalogMoves` |

What a section computes is any verdict it can return.

### NewsFeed

| Code | Specification |
| --- | --- |
| `NewsSourceManager.start`, `stop`, `record_event` | `Start`, `Stop`, and the state in the client's actions |
| `TradingNewsWSSource.start_async`, `stop_async` | the client kept or made in `Start`, dropped in `Stop` |
| `NewsWSClient.run_forever` with its backoff | `Opens`, `Drops`, `Rejected`, `Reconnects` |
| `apply_freshness_seconds` | `Rewindowed` |

### WriteBehind

The thread of a write commits first, and the counters follow when its task comes to
run: these are two actions.

| Code | Specification |
| --- | --- |
| `enqueue`, `_drain_loop`, `_write` | `EnqueueRow`, `TakeBatch`, `SinkEnds`, `WriteEnds` |
| `stop`, `_drain_inflight`, `_flush` | `StopWriter`, `DrainTimeout`, `Flush` |
| the lifespan clearing the hooks first | `Unhook` |
| the prune loop | `SweepStarts`, `SweepDeletes` |

### CanvasReload

A reload is a task whose steps wait for the market source's lock; starts and stops by
hand are tasks of the same kind. A start by hand carries the configuration of its request,
whatever the canvas says, so `SourceFollowsCanvas` leaves out a history with one. `inUse` holds the configuration each section was last
built from, `broken` those whose build failed.

### ModeSwitch

A request runs in a thread, so it is cut wherever another may run in between: its
checks, the read of the value it may have to put back, the change in memory, the reads of
the wallet and of the mode for the payload, the write of the temporary file, the rename.
A wallet's two fields are read as one. `vouched`, `restored` and `checked` are history:
that the token was usable when live was gone into, that the boot restored live, and which
wallets passed the preflight in this process.

| Code | Specification |
| --- | --- |
| `RuntimeState.load`, `_demote_restored_live_without_token`, the lifespan | `Boot`, `Demoted` |
| `POST /api/system/mode` | `AsksMode`, `ReadsPositions`, `Preflights` |
| `PUT /api/wallet/config` | `AsksWallet` |
| `set_mode`, `set_wallet` | `Finds`, `Changes` |
| `_save`; a save that fails | `ReadsMemory`, `Writes`, `Replaces`; `PutsBack` |
| `api_token_ok`: each look may find the secret behind the token usable or not | `usable` in `AsksMode`, `Boot` |
| the end of the process | `Crash` |

## 3. The runs

Run one with `tlc -config <cfg> <module>`.

| Run | Distinct states | Shows |
| --- | --- | --- |
| `CloseLive` | 1.18M | live, no faults, exit monitor and manual close against settlement, reconciliation and buys, two rows of one token: one seller per row, nobody closes under a seller, every buy is bookable, the wallet covers the open rows, and the whole refines `Custody` |
| `CloseFair` | 41k | one row, one fault, fairness: a row of a resolved market, or one the wallet is flat in, is closed in the end, and stays as it was closed; reconciliation closes only what is flat |
| `Orders` | 582k | two orders of up to four shares, five settings from "all ids known, nothing read is current" to everything but a lagging balance: nothing invented, a known order is alone, no silent shortfall, remembered orders are forgotten only off the book, calls end |
| `ExitWatch` | 9k | default thresholds of v1, 17 prices, a gate of 25 percent: the promises of the rules for any quotes |
| `ExitMonitor` | 1.33M | two settings. A run up, a retrace, dust above the market, partial fills, settlement, restarts: the peak is real. Bare, confirmed and empty books that freeze, age, drop or vanish, manual closes: a frozen fetch is counted once, nothing is sold into a dead market, holds are logged once |
| `Market` | 4.83M | the cache of one token under the sampler, the held-book loop and one deciding caller, eight clock readings: the observer never goes back in time, a 404 stands until a newer answer, needed books stay, snapshot rows keep their interval. Both versions of the entry rules over three rows: never both sides, the cooldown and the brakes hold, and the heat cap is passed by no more than the ask's rise |
| `Services` | 1.79M | the ledger with two calling threads on two rows of one key: shares conserved, PnL is what the fills say, closed rows take no fill. The close protocol on paper with every kind of seller, and live with one row and one fault: types. A writer of three rows: a stop is complete. Three canvas tasks: the sections follow the canvas. Two requests of the exec mode, two wallets: live is earned. A news source with two windows: it filters as configured. Two news items: no side that was found stale is bought |
| `Progress` | 139k | fairness. A book past the hard stop and sells that fail: the sell is posted again and again. A connection that drops comes back. Two news items, one place in the queue: every item is decided on |
| `CloseAllStale`, `OrderLost`, `FeedStuck`, `CanvasSkipped` | | violations, see section 6 |

TLC checks a type invariant for the services of `MCServices` (`TypesHold`). That of every
other module is a theorem (section 4), as theirs are.

### Bounds, and why they are enough

- **CloseProtocol.** Quantities are in halves of `MIN_SELLABLE_QTY`: the residue rule
  bites at 2 units and one share is 4, so that one buy of 5 (`OddBuy`) is sold as an
  order of 4 and a residue of 1, which no order can sell. Two rows suffice for a row, its closing, and the next row
  of the same token; two tokens for close-all to do one row while another changes.
  One fault meets every step; a second one repeats the recovery from the first.
  Fairness is checked with one row, since rows interact only through claims and
  lists, which the safety runs have two of. `MaxRows` and `MaxFaults` bound the
  actions that insert a row and that fail.
- **PortfolioStore.** Quantities {2, 5} around a `MinSellable` of 2 give a full sale, a
  part, a residue and an oversale; two threads are the one that reads and the one that
  writes in between.
- **LiveOrder.** Four shares with a least size of two make a remainder that can be
  sold and one that cannot; two orders are one and the next of the position; two
  attempts of a cancel are the first and a repeated one. `MaxOrders` bounds
  `GatePass`, `MaxTries` is the number of attempts. The theorems hold for all of them.
- **Exit modules.** An entry at 20 ticks puts the thresholds of the default
  configuration between ticks: stop at 17, hard stop at 14, armed above 26. The gate of
  `ExitWatch` is wider than the default 10 percent, so that the properties are checked
  beyond it. Each book of `MCExitMonitor` makes a branch differ: quiet, winning,
  retraced, losing, bare, confirmed by its ask, empty, dust above the market. The
  clock counts backoff ticks to `MaxBackoff` = 2, one doubling and the cap. In
  `Progress` the only book is one past the stop: the property speaks of no other.
- **BookCache.** One token: books of different tokens meet only in a batch, which treats
  each alike. Eight readings of the clock (`MaxNow`) fit a fetch that overlaps a sample
  cycle and a 404, and the cycle after; the ages are small enough to be passed in them.
- **EntryDesk.** Three rows (`MaxRows`) are two of the streak and the one it forbids;
  both sides of one market, books tight, empty and with a firm bid far below; a cap with
  room for an order and a half of the base size, so that it cuts an order scaled up. A part
  sold leaves half a share, which no order can sell, or three (`Lefts`). Each close and each buy takes a moment of its own;
  `MaxNow` bounds the clock beyond these.
- **Pipeline.** Two items and one place: one in the worker, one waiting, or one turned
  away. `MaxAge` ages an item past the window and no further.
- **NewsFeed.** Two configurations of either of two windows: a start may keep the source
  or replace it. The backoff doubles to `MaxBackoff` = 2; an item more repeats the ring.
- **WriteBehind.** Three rows, two places, batches of one: a row in flight, one queued
  behind it, one that finds the queue full.
- **CanvasReload.** `MaxTasks` = 3: two saves whose reloads overlap and a start or stop
  by hand; two values per node, since a reload tells equal from different.
- **ModeSwitch.** Two requests, one of which may run between any two steps of the other,
  and two wallets, the one checked and another saved meanwhile. Requests and wallets are
  interchangeable, hence the symmetry; `Services` checks no liveness.
- `CHECK_DEADLOCK FALSE` is set where rows or orders run out, or the position is
  closed: then nothing is left to do.

### Fairness

- `CloseProtocol`: the worker threads of the sellers run on, the reconciliation fetch is
  answered, ticks are processed, the indexer catches up (weak). A tick skips a
  claimed row, so that it finds a row unclaimed again and again is strong fairness.
  What justifies it: a sell holds its claim for seconds, sweeps are minutes apart,
  and a failed close backs off. Nothing is assumed of buys, of manual closes or of sweeps.
- `LiveOrder`: a call that began runs on; the reconciliation ticks. The venue owes
  nothing.
- `ExitMonitor`: the loop ticks, the sell's thread ends, the clock runs. Fetches,
  markets and other closers are free.
- `NewsFeed`: a wait ends (weak), and a connection that is tried again and again opens
  some time (strong): the loop retries without an end, and a server that never answers
  is nobody's bug.
- `Pipeline`: the worker starts, takes the next item, and what it awaits comes back
  (weak): every call it makes has a timeout or is local.

In `Progress` each of these holds while its part moves; the conjuncts of the others are
never enabled then.

## 4. What is proved

`tlapm` checks the eight proof modules. Each theorem is for all values of the constants
under the named assumptions of the module, which say no more than that quantities
are natural numbers, sets are of the right kind, and slots are distinct. What a theorem
assumes beyond them is in its row. The services of `ServicesProofs` have their sizes,
windows and limits as constants of `MCServices`; what is proved of one of them alone,
`Writer!Spec => []Writer!StoppedIsComplete` and the like, is then proved of a behaviour of
`ServicesSpec`, in which that service moves or rests. `MarketProofs` does the same with the
entry rules, whose sizes, limits and quotes are constants of `MCMarket`.

| Theorem | Says | Argument |
| --- | --- | --- |
| `PortfolioStoreProofs!TypeCorrect`, `SharesAreConserved`, `PnlIsAccounted`, `ClosedTakesNoFill` | the four properties of the run | what an open transaction has read is still what the row says (`SessionsFresh`), because callers are exclusive; with it the commit steps balance |
| `CloseProtocolProofs!TypeCorrect` | the types | `TInv`: types, and every listed row exists |
| `CloseProtocolProofs!OneSellerEach` | one seller per row, registry = rows being sold | inductive as it stands, over the types |
| `CloseProtocolProofs!ClosedRowsAreFinal` | a closed row is never written | every writer's guard re-reads the status |
| `CloseProtocolProofs!BuyAlwaysBookable` | a filled buy finds its token free | strengthened by one open row per token, and that the token of a buy under way has none |
| `CloseProtocolProofs!ClaimedRowsStayOpen` | a row stays open under its seller, whatever fails | assumes `BulkRoutes = {}`; needs `OneSeller`, since only the claim keeps a second writer away |
| `CloseBackingProofs!OpenRowsAreBacked` | until the first fault the wallet covers every open row | assumes `BulkRoutes = {}`; `CoverInv` counts, per token, rows, sales in flight and the buy under way |
| `CloseBackingProofs!ReconciliationIsRight` | reconciliation closes only a row that is flat and that nobody sells (`ReconcilesOnlyFlat`), under any rows and faults | `FlatInv`: a row aged at the fetch was inserted before it (`AgedInserted`), an open row has no reason yet (`OpenUnreasoned`), and an open aged row whose holding the indexer may deny, or has denied to the tick under way, is flat (`DeniedIsFlat`) |
| `CloseBackingProofs!ProtocolImplementsCustody` | each behaviour of the live protocol is one of `Custody` (`ImplementsCustody`) | assumes row-wise routes, no faults, and buys of at least `MIN_SELLABLE_QTY`, which is the venue's size precision. Each step is a trade of `Custody` or a stutter; `CoverInv`, `FlatInv`, the guards of the safety proofs and `SizeInv` (what is held of a row can be sold) say that the trade is one `Custody` allows |
| `LiveOrderProofs!TypeCorrect` | the types | with the range of the ids in use |
| `LiveOrderProofs!LedgerInventsNothing` | unless the balance read lags, booked <= moved, under all other trouble | `CInv`: the baseline covers all that is booked, evidence is at most what its order filled, and the quantity to book plus the baseline is at most what moved. Without the baseline clause a late fill of an earlier order would pass for this one's |
| `LiveOrderProofs!ForgetsOnlyOffBook` | a resting order is forgotten only once it is off the book, or with the process, under any trouble | `Memory`: nothing is remembered beside an order in the making, and an acknowledged cancel took the remembered one off; `Fillable`: what is live has shares left, so a terminal reading is true of an order off the book |
| `LiveOrderProofs!KnownOrdersAlone` | while no id is lost, one order of a sell is on the book | `Alone`: what is live is the remembered order or the call's, and the call has its id and, having given it up, knows that it rests |
| `LiveOrderProofs!ShortfallIsTold` | while every answer comes, reads are current and nothing restarts, each order not alerted is off the book and booked in full once its call is over (`NoSilentShortfall`), whatever cancels, ids and balances do | `Told`: a settle that gives no remainder up has read its order off the book, exactly (`OffIsExact`, `ExactResolves`), and one that does alerts before it ends |
| `ExitWatchProofs!TypeCorrect`, `NoiseNeverCloses` | types; no trail closes on noise (`NoiseNeverTrails`, which no run repeats) | the last decision was made on the last quote (`ExecutableJudged`) |
| `ExitWatchProofs!BackstopAlwaysHolds`, `SpreadNeverStopsOut` | the backstop holds; the spread stops nobody | for v1 and a gate narrower than the hard stop and than twice the stop (`GateBelowStops`; the defaults are 10, 30 and 15) |
| `ExitWatchProofs!LockAlwaysHolds` | a held winner has given back a bounded amount | for v1; the spread floor is capped |
| `ExitWatchProofs!ThinStopAlwaysConfirmed` | a bare bid closes only when confirmed (`ThinStopIsConfirmed`) | `StreakIsSeen`: the streak never exceeds the quotes that showed the collapse |
| `MarketProofs!TypeCorrect`, `PriceFeedInOrder`, `GoneBooksStayGone`, `NeededBooksStay` | types; the observer goes forward, a 404 stands, needed books stay | `CacheInv` orders the stamps: what the observer saw is no newer than the book or mark a later answer must pass, or, where neither is left, than the start of the cycle under way (`SeenIsPassed`). Without that clause a book dropped and then brought back by an old batch would not be excluded |
| `MarketProofs!RefreshRowsKeepInterval` | snapshot rows of refreshes keep the interval | a throttle stamp is that of the latest row, or the row has grown old (`RowsAreStamped`) |
| `MarketProofs!DeskTypes` | the types of `EntryDesk` | a sum of whole numbers is one |
| `MarketProofs!NeverBothHeld` | YES and NO of one market are never both held (`NeverBothSides`) | `SidesKnown`: a decision knows every side of its market that is held, since nothing else opens one, and one past the history has none against it |
| `MarketProofs!CooldownAlwaysHeld` | a side rests for the cooldown (`CooldownHeld`) | `_in_cooldown` looks at the newest position only: `OneAtATime` (one position of a side after the other) and `Timed` (judged, opened, closed, in this order) make it speak for all; `Cooled` carries what was found to the fill |
| `MarketProofs!HeatAlwaysHeld` | a scaled order, once filled, takes the exposure past the cap by no more than the ask's rise over its size (`HeatHeld`) | `CostKnown`: up to the fill the exposure can only have fallen since it was read, by a sell in part (`PartShrinks`) or in full; the row bought adds its own cost to the sum (`SumWithOneMore`), which at the ask it was sized on fits (`CostFits`) |
| `MarketProofs!BrakesAlwaysHold` | no decision gets past the brakes on the streak and the drawdown (`BrakesHold`) | `Tallied`: what is counted close by close is found in the table, the losses in `Streak`, and the fall from the peak as what was lost since some close. The table is in the order of the opens: that a close comes after all others (`Timed`) is what ties the two |
| `ExitMonitorProofs!TypeCorrect`, `PeakAlwaysReal` | types; the peak is the entry or an executable mark of the row's lifetime (`PeakIsReal`) | `PeakInv`: the cached mark and the saved peak were seen too, which a restart needs |
| `ExitMonitorProofs!FrozenBookHolds` | a stop on a thin bid without an ask had as many fetches as it needs, for any books (`FrozenBookNeverFires`) | `StreakInv`: the streak is at most the fetches that showed the collapse, less the cached one while it is not counted |
| `ExitMonitorProofs!NeverSellsIntoDead`, `LogsOnce` | no sell on a closed market or a quote that stopped; no hold or error twice in a row | an evaluation's effect is stated once (`EvaluationEffect`); `LogInv`: the position remembers what it logged last, but for a sell in flight and a row that no sweep will reach again |
| `ServicesProofs!TypesAlwaysHold` | the types of each service | by service; those of the ledger and the protocol are taken from their proofs |
| `ServicesProofs!StopLeavesNothing` | a stop that did not give up leaves no row behind (`StoppedIsComplete`) | each offered row is queued, being written, written or lost (`NoRowForgotten`), and at one of these places only (`NoRowTwice`), without which the counter could not be told to match the table; and how far stop has come says what is still on the way (`StopStage`) |
| `ServicesProofs!SectionsAlwaysFollow` | the sections in use are those saved, or a reload will build them (`SectionsFollowCanvas`) | `FollowedOrOwed`: a section that differs could not be built, or a reload still owes its swap |
| `ServicesProofs!LiveOnlyEarned` | live is in force only where the token was found usable, and with an executor whose wallet passed the preflight in this process unless the boot restored live (`LiveIsEarned`) | `EarnInv`: a request to live has found the token usable and handed over an executor it checked before it changes the mode (`RequestEarns`), what a failing save puts back was in force, and an executor is replaced only by a checked one. Assumes that no wallet is `None` |
| `ServicesProofs!FilterAlwaysConfigured` | the client filters by the window configured (`FilterIsConfigured`) | `FilterInv`: a source was built from what it is configured as, so a start that keeps it finds its window |
| `ServicesProofs!StaleSideNever` | no side found stale on a checked book is bought (`StaleSideNeverTraded`) | `TradeInv`: the worker's choice, and the buy that a stop left behind |

Two of these proofs changed a property. `FrozenBookNeverFires` did not hold for every set of
books: a refreshed book that is empty lets a stop stand that an earlier fetch confirmed,
and no run had shown it. It now speaks of the sells that are decided on a thin quote just
refreshed. `NoSilentShortfall` excepted the order remembered as resting; the proof showed
that such an order has always been alerted, and the exception is gone. TLC checks both as
they stand.

### Model-checked only

- Liveness (`UnsellableRowCloses`, `CallEnds`, `KeepsTrying`, `FeedComesBack`,
  `EveryItemDecided`): beyond the prover, which does not reason about fairness and
  `ENABLED`.

The library's induction theorems are out of reach as well, since they take a formula as a
parameter. The sums of `EntryDesk` are recursive functions all the same, and what the proofs
need of them - that they exist, grow with their terms and change by what one term changes
by - is shown of the least counterexample: a set of natural numbers that is not empty has
a least member (`MarketProofs!LeastNat`), and the beginning before it has what it lacks.

## 5. Plan

Written in this order, the core of the system first: `PortfolioStore`,
`CloseProtocol` with `Custody`, `LiveOrder`, `ExitRule`, `ExitWatch`, `ExitMonitor`,
`BookCache`, `NewsFeed`, `Pipeline`, `WriteBehind`, `CanvasReload`, `EntryDesk`,
`ModeSwitch`. What is left:

- Composition: `ModeSwitch` with `CloseProtocol`, whose constant `Live` would become
  state; `BookCache` under `ExitMonitor`, whose actions `Fetch`, `Gone` and `Dropped` are
  to be shown an abstraction of it.
- Theorems: that `LiveOrder` settles an order as the one step does which `CloseProtocol`
  takes for it, and that `BookCache` answers as `Fetch`, `Gone` and `Dropped` say.

## 6. Where the code and its words part

Writing the modules met places where a comment, a document or a message says one
thing and the code does another. Four have a run that exhibits the behaviour:

- **`CloseAllStale`** (`ClaimedRowStaysOpen` with a close-all route). The route reads the
  open rows once and claims each on `is_closing` alone, after awaiting the sells
  before it; a row that settlement closed meanwhile is claimed and sold.
  `portfolio_routes.py:174` promises the claim discipline of the single close, and
  `docs/architecture/07-runtime-monitors.md:133` says why the status is re-read.
- **`OrderLost`** (`OneOrderOnBook`). The answer to a POST is lost, the balance shows a
  partial fill, and the result carries no order id; nothing is remembered, and the next
  call posts a second order next to the rest of the first. `live_executor.py:614` says
  that no new SELL is posted while one may rest.
- **`FeedStuck`** (`ReportsAlive`). After the server rejects the connection the source
  keeps its client, whose task has ended. The next start with the same configuration
  sets the state to connecting, and `start_async` (`tradingnews_ws.py:73`) returns because
  there is a client: nothing connects, and nothing says so. `news/ws_client.py:219` says
  "user must fix and restart"; only a stop in between does that.
- **`CanvasSkipped`** (`SourceFollowsCanvas`). The reload restarts the market source only
  in the state `running` (`canvas_routes.py:239`). A source whose last poll failed is in
  `error` while its loop goes on; the save is passed over, and the next good poll runs on
  with the old node. The comment at line 229 says that a changed node restarts it and
  that only a source the operator stopped stays as it is.

Others are stated in the modules as properties that no run checks, with a comment
saying that they do not hold:

- `CloseProtocol!BookedInFull`: on paper, with `BuyQty <- BigBuy` and a route, a
  sweep sells its listed quantity after a manual close sold part of it; the report
  exceeds what the ledger booked.
- `CloseProtocol!AlertIsUntracked`: a buy written while the holdings are fetched is
  reported as untracked, once and for all.
- `PortfolioStore!PnlSetAtClose`: `db/tables.py:123` says that PnL is set once at close;
  partial sells accrue it on open rows.
- `LiveOrder!RemainderIsFlagged` (with `Cases <- PlainBuy`): the alert of a resting remainder says that
  the reverse reconciliation will flag it, which it does only for a token without a row.

Others were met in reading, and the modules are written as the code is, with no
property for the words:

- `threshold_v1.py` says that any other outcome resets the thin streak; a stop that waits
  out its backoff returns before the streak is touched (`ExitMonitor!WaitsOut`).
- `edge_threshold_v1.py` calls an edge that cannot be netted no edge; an unknown fee rate
  charges nothing, and the rate is read again at each step (`EntryDesk!FeePerShare`).
- The lockouts of `edge_threshold_v0.py` hold "regardless of when", over the newest 500
  rows.
- A market that is out of the catalog when its books would be refreshed goes on with
  unchecked books, and may be listed again by the time it is bought (`Pipeline!Analyzed`;
  `StaleSideNeverTraded` therefore speaks of checked books).
- After the drain at shutdown times out, the flush starts a second sink call beside the
  first one, while the calls are said to be serialized (`WriteBehind!DrainTimeout`).
- The lifespan stops the database before the orchestrator, whose buy may still be writing.
- A connection that closes cleanly is retried at once, without the backoff
  (`NewsFeed`).
- The mode is switched on a look at the open positions; a buy between its order and its
  row is not among them (`wallet_routes.py:215`, `ModeSwitch!ReadsPositions`).
- Two requests write through one temporary file, and a failing save puts back what it
  found: memory and file may then differ (`ModeSwitch!Replaces`, `PutsBack`), which
  `runtime_state.py:104` rules out.
- A wallet may be replaced in live mode (`PUT /api/wallet/config`). The dispatcher keeps
  the executor of the old one until the next switch or restart, and a restart that
  restores live builds the executor for the new one without the preflight that a switch
  makes (`ModeSwitch!AsksWallet`, `Boot`). `LiveIsEarned` therefore says nothing of the
  wallet where the boot restored live.
- The heat cap "has to bound what is actually bought" (`edge_threshold_v0.py:370`). The
  quantity is fixed at the ask the order was sized on, and `execute_buy` fills it at the
  ask it finds (`executor.py:89`): an order for 150 sized at 40 and filled at 50 costs
  187.5. An order of the base size is not cut to the headroom either. `HeatHeld` bounds
  what a scaled order adds by the rise of the ask.
- Three saves in a row may leave the market source on the middle one, its reload having
  waited for the lock behind the last one's (`CanvasReload`; `SectionsFollowCanvas` speaks
  of the other sections).

## 7. What is not modelled

- Prices, fees and slippage of fills in `CloseProtocol` and `LiveOrder`; only
  `PortfolioStore` follows money. Floats are exact numbers everywhere: rounding of
  the code's comparisons is not followed.
- In `ExitMonitor`: the swap of the exit section at run time, telemetry, and the log row
  of an unexpected exception of the executor.
- In `LiveOrder`: configuration of the client, the wording of alerts, the time budget
  of the cancel loop except that it may end at any attempt.
- In `EntryDesk`: amounts are whole units and the fee table is one rate. The rules read the
  newest 500 positions, and the table is assumed to hold no more (`RulesAssumption`).
- In `BookCache`: the discovery filter, the parsing of markets, events and counters.
- In `NewsFeed`: the parsing of messages, the event ring. In `Pipeline`: telemetry and
  what the sections compute. In `CanvasReload`: the upgrade of older canvases and the
  database section, whose one value is read anew at each sweep.
- HTTP clients, parsing and authentication, the language model, embeddings, schema
  migrations, secrets, the SDK patch, reports, scripts and the front end: I/O, pure
  data, or read-only for the state of the trading system.
