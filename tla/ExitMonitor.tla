----------------------------- MODULE ExitMonitor ----------------------------
(***************************************************************************)
(* The exit monitor (runtime/exit_monitor.py) and one open position: the   *)
(* sweep reads the row, marks it on the cached book, asks the exit section *)
(* (ExitRule), confirms a close decided on a stale book, claims the row,   *)
(* hands the sell to a thread and records how it ended.                    *)
(*                                                                         *)
(* The monitor keeps its state per position, so one position shows what    *)
(* there is to see; that others are being sold in between is a pause       *)
(* between reading the list and judging this row.  Around the monitor: the *)
(* loops that fetch books, the catalog, the manual close routes, the       *)
(* settlement monitor, and restarts of the process.                        *)
(*                                                                         *)
(* Time is what the code compares it with: a book is fresh, stale (past    *)
(* MAX_BOOK_AGE_SECONDS) or old (past KEPT_BOOK_MAX_AGE_SECONDS), and a    *)
(* backoff counts down.  Of a book's fetch stamp only this matters:        *)
(* whether the thin streak has counted this very fetch.                    *)
(***************************************************************************)
EXTENDS ExitRule

CONSTANTS
    Entry,       \* avg_entry_price
    Qty,         \* the most shares the row has at first
    Share,       \* the least placeable size (is_dust_qty)
    Books,       \* the books the venue may answer with: [bids, asks]
    Base,        \* _tick_interval, in units of the backoff clock
    MaxBackoff,  \* CLOSE_BACKOFF_MAX_SECONDS, in the same units
    Manual       \* TRUE: the manual close routes are used

Level == [price: Nat \ {0}, size: Nat \ {0}]

ASSUME PositionAssumption == Entry \in Nat \ {0} /\ Qty \in Nat \ {0} /\ Share \in Nat \ {0}
ASSUME BooksAssumption == \A b \in Books : b.bids \in Seq(Level) /\ b.asks \in Seq(Level)
ASSUME BackoffAssumption == Base \in Nat \ {0} /\ MaxBackoff \in Nat /\ Base <= MaxBackoff
ASSUME ManualAssumption == Manual \in BOOLEAN

VARIABLES
    row,      \* the position row: status, qty
    claim,    \* who holds its claim in closing_registry
    cache,    \* MarketStore: the token's book, its age, the gone mark, and
              \* whether thin_stamp is this fetch's
    market,   \* what the catalog says of the market
    saved,    \* the best mark among the persisted snapshots, or the entry
    st,       \* _PositionState
    watch,    \* _watch holds the token
    pc,       \* the tick loop
    held,     \* the qty of the sweep's HeldPosition; 0: not listed
    dec,      \* the decision being confirmed
    sale,     \* the _close task in flight
    log,      \* the exit_log row written by the last step
    seen      \* history: see Seen

own  == <<st, watch, pc, held, dec, sale, log>>
vars == <<row, claim, cache, market, saved, own, seen>>

-----------------------------------------------------------------------------
NoBook    == [bids |-> <<>>, asks |-> <<>>]
NoBackoff == [trigger |-> "none", delay |-> 0, left |-> 0, floor |-> 0]
NoState   == [peak |-> NoPrice, hold |-> "none", err |-> "none",
              backoff |-> NoBackoff, streak |-> 0, dust |-> FALSE]
NoDec     == [verdict |-> "none", thin |-> FALSE, peak |-> NoPrice, floor |-> 0]
NoSale    == [at |-> "none", trigger |-> "none", floor |-> 0, held |-> 0, result |-> "none", sold |-> 0]
NoRow     == [verdict |-> "none", reason |-> "none"]

Verdicts  == Closes \cup {"none", "hold", "pending", "unmarkable"}
Failures  == {"no_bid_liquidity", "live_error", "resting_order_pending"}
Held      == {"market_closed_await_settlement", "no_order_book", "stale_order_book",
              "no_executable_bid"}

\* History: hi, the entry or the best mark cached while the row was open;
\* last, how the previous evaluation ended; fetches, the fetches that showed
\* a collapse with no ask since the last claim.
Seen == [hi: Nat, last: STRING, fetches: 0 .. Confirm]

Row(v, r) == [verdict |-> v, reason |-> r]
Running   == pc \notin {"down", "draining"}

Init ==
    /\ \E q \in Share .. Qty : row = [status |-> "open", qty |-> q]
    /\ claim = "none"
    /\ cache = [book |-> NoBook, age |-> "none", gone |-> FALSE, counted |-> FALSE]
    /\ market = "open"
    /\ saved = Entry
    /\ st \in {NoState, [NoState EXCEPT !.peak = Entry]}
    /\ watch = FALSE
    /\ pc = "idle"
    /\ held = 0
    /\ dec = NoDec
    /\ sale = NoSale
    /\ log = NoRow
    /\ seen = [hi |-> Entry, last |-> "none", fetches |-> 0]

-----------------------------------------------------------------------------
(* The books.                                                              *)

CollapseNoAsk(b) ==
    /\ b.bids # <<>> /\ GuardedMark(b.bids) = NoPrice /\ FirstDeep(b.asks) = NoPrice
    /\ Lost(2 * b.bids[1].price, Entry, HardPct)

Mark(b) == GuardedMark(b.bids)

\* The count of seen begins again, with the cached fetch.
Recount(s, b) == [s EXCEPT !.fetches = IF CollapseNoAsk(b) THEN 1 ELSE 0]

\* A fetch answers: the book is cached, the gone mark cleared, the observer
\* told, and a snapshot of it persisted or not (throttled, or dropped).
Fetch(b, persist) ==
    /\ cache' = [book |-> b, age |-> "fresh", gone |-> FALSE, counted |-> FALSE]
    /\ saved' = IF persist /\ row.status = "open" THEN Max2(saved, Mark(b)) ELSE saved
    /\ st' = IF watch THEN [st EXCEPT !.peak = Max2(st.peak, Mark(b))] ELSE st
    /\ seen' = [seen EXCEPT !.hi = IF row.status = "open" THEN Max2(@, Mark(b)) ELSE @,
                            !.fetches = IF CollapseNoAsk(b) THEN Min2(@ + 1, Confirm) ELSE @]
    /\ log' = NoRow
    /\ UNCHANGED <<row, claim, market, watch, pc, held, dec, sale>>

Uncached(gone) ==
    /\ cache' = [book |-> NoBook, age |-> "none", gone |-> gone, counted |-> FALSE]
    /\ log' = NoRow
    /\ UNCHANGED <<row, claim, market, saved, st, watch, pc, held, dec, sale, seen>>

\* A fetch answers 404.
Gone == ~cache.gone /\ Uncached(TRUE)

\* A sample batch without the token, whose book stopped refreshing.
Dropped == cache.age = "old" /\ Uncached(FALSE)

Ages ==
    /\ cache.age \in {"fresh", "stale"}
    /\ cache' = [cache EXCEPT !.age = IF @ = "fresh" THEN "stale" ELSE "old"]
    /\ log' = NoRow
    /\ UNCHANGED <<row, claim, market, saved, st, watch, pc, held, dec, sale, seen>>

\* The catalog shows the market closed, or not accepting orders.
MarketCloses ==
    /\ market = "open"
    /\ market' = "closed"
    /\ log' = NoRow
    /\ UNCHANGED <<row, claim, cache, saved, st, watch, pc, held, dec, sale, seen>>

\* The clock of the backoff.
Clock ==
    /\ st.backoff.left > 0
    /\ st' = [st EXCEPT !.backoff.left = @ - 1]
    /\ log' = NoRow
    /\ UNCHANGED <<row, claim, cache, market, saved, watch, pc, held, dec, sale, seen>>

-----------------------------------------------------------------------------
(* The decision.                                                           *)

PriorStreak(s) == IF cache.counted /\ s.streak > 0 THEN s.streak - 1 ELSE s.streak

\* _decide on the cached book; None is "unmarkable".
Decide(s) ==
    LET b    == cache.book
        thin == Mark(b) = NoPrice
        mark == IF thin THEN b.bids[1].price ELSE Mark(b)
        ask  == IF thin THEN FirstDeep(b.asks)
                ELSE IF b.asks = <<>> THEN NoPrice ELSE b.asks[1].price
        prev == IF s.peak = NoPrice THEN mark ELSE s.peak
        peak == IF thin THEN prev ELSE Max2(prev, mark)
        p    == [entry |-> Entry, qty |-> held, mark |-> mark, peak |-> peak, ask |-> ask,
                 streak |-> PriorStreak(s), aged |-> FALSE]
    IN  [verdict |-> IF ~thin THEN Rule(p) ELSE IF V1 THEN ThinRule(p) ELSE "unmarkable",
         thin |-> thin, peak |-> peak,
         floor |-> IF thin THEN ThinFloor100(Entry) ELSE 100 * b.bids[1].price]

\* Variant: a thin mark moves the peak too.
PeakedThin(s, d) == [s EXCEPT !.peak = IF d.thin THEN Max2(s.peak, cache.book.bids[1].price) ELSE d.peak]

\* The peak _decide leaves behind.
Peaked(s, d) == IF d.thin THEN s ELSE [s EXCEPT !.peak = d.peak]

\* Variant: the reading of a fetch already counted counts again.
CountedAgain == FALSE

Counted == cache.counted

\* _track_thin_streak
Streak(s, d) == IF d.verdict # "pending" THEN 0 ELSE IF Counted THEN s.streak ELSE s.streak + 1

\* Variant: the clock is not looked at.
BackingOffForGood(s, d) == s.backoff.trigger = d.verdict /\ d.floor >= s.backoff.floor

\* _backing_off: the same trigger, at a floor no lower, not long enough ago.
BackingOff(s, d) ==
    /\ s.backoff.trigger = d.verdict
    /\ d.floor >= s.backoff.floor
    /\ s.backoff.left > 0

-----------------------------------------------------------------------------
(* How an evaluation ends.  s is the state so far.                         *)

Outside == UNCHANGED <<row, market, saved>>

Ends(s, r, o) ==
    /\ st' = s
    /\ log' = r
    /\ pc' = "idle"
    /\ dec' = NoDec
    /\ seen' = [seen EXCEPT !.last = o]
    /\ UNCHANGED <<claim, watch, held, sale>>

Silent(s) == Ends(s, NoRow, seen.last)

\* Variant: every hold is logged.
HoldRowAlways(s, r) == Row("skip", r)

HoldRow(s, r) == IF s.hold = r THEN NoRow ELSE Row("skip", r)

\* _hold_once
Hold(s, r) == Ends([s EXCEPT !.hold = r], HoldRow(s, r), r)

Count(d) == cache' = [cache EXCEPT !.counted = d.verdict = "pending"]

Tracked(s, d) == [s EXCEPT !.streak = Streak(s, d)]

\* _clear_backoff forgets the logged failure with it.
Calm(s) == [s EXCEPT !.backoff = NoBackoff, !.err = "none"]

\* A close for this very decision failed recently: wait.
WaitsOut(s, d) ==
    /\ d.verdict \in Closes
    /\ BackingOff(s, d)
    /\ Silent(s)
    /\ UNCHANGED cache

\* Bids, but none deep enough to sell into.
HoldsThin(s, d) ==
    /\ d.verdict = "unmarkable" \/ (d.thin /\ d.verdict \notin Closes)
    /\ Hold(Tracked(s, d), "no_executable_bid")
    /\ Count(d)

\* Within the thresholds.
HoldsWithin(s, d) ==
    /\ d.verdict = "hold" /\ ~d.thin
    /\ Ends(Calm([Tracked(s, d) EXCEPT !.hold = "none"]), NoRow, "within")
    /\ Count(d)

ToClose(s, d) == d.verdict \in Closes /\ ~BackingOff(s, d)
Cleared(s, d) == [Tracked(s, d) EXCEPT !.hold = "none"]

\* The row was closed, or claimed, since the sweep listed it.
SkipsClosed(s, d) ==
    /\ ToClose(s, d)
    /\ row.status # "open"
    /\ Ends(Cleared(s, d), Row("skip", "position_no_longer_open"), "position_no_longer_open")
    /\ Count(d)

SkipsClaimed(s, d) ==
    /\ ToClose(s, d)
    /\ row.status = "open"
    /\ claim # "none"
    /\ Ends(Cleared(s, d), Row("skip", "exit_in_flight"), "exit_in_flight")
    /\ Count(d)

\* mark_closing, and the _close task.
ClaimsRow(s, d) ==
    /\ ToClose(s, d)
    /\ row.status = "open"
    /\ claim = "none"
    /\ claim' = "exit"
    /\ sale' = [NoSale EXCEPT !.at = "thread", !.trigger = d.verdict, !.floor = d.floor, !.held = held]
    /\ st' = Cleared(s, d)
    /\ Count(d)
    /\ log' = NoRow
    /\ pc' = "selling"
    /\ dec' = NoDec
    /\ seen' = Recount(seen, cache.book)
    /\ UNCHANGED <<watch, held>>

Judge(s, d) ==
    \/ WaitsOut(s, d) \/ HoldsThin(s, d) \/ HoldsWithin(s, d)
    \/ SkipsClosed(s, d) \/ SkipsClaimed(s, d) \/ ClaimsRow(s, d)

-----------------------------------------------------------------------------
(* The sweep.                                                              *)

\* The open rows are read, in a thread.
TickRead ==
    /\ pc = "idle"
    /\ pc' = "list"
    /\ held' = IF row.status = "open" THEN row.qty ELSE 0
    /\ log' = NoRow
    /\ UNCHANGED <<row, claim, cache, market, saved, st, watch, dec, sale, seen>>

\* The watch list is rebuilt and the states pruned to the listed rows.
TickList ==
    /\ pc = "list"
    /\ watch' = (held > 0)
    /\ st' = IF held > 0 THEN st ELSE NoState
    /\ pc' = IF held > 0 THEN "eval" ELSE "idle"
    /\ log' = NoRow
    /\ UNCHANGED <<row, claim, cache, market, saved, held, dec, sale, seen>>

\* Below one share: nothing to do until settlement.
EvalDust ==
    /\ pc = "eval" /\ held < Share
    /\ Ends([st EXCEPT !.dust = TRUE],
            IF st.dust THEN NoRow ELSE Row("skip", "dust_remainder"), "dust_remainder")
    /\ Outside /\ UNCHANGED cache

EvalNoBook ==
    /\ pc = "eval" /\ held >= Share /\ cache.age = "none"
    /\ Hold(st, IF cache.gone THEN "market_closed_await_settlement" ELSE "no_order_book")
    /\ Outside /\ UNCHANGED cache

EvalNoBids ==
    /\ pc = "eval" /\ held >= Share /\ cache.age # "none"
    /\ cache.book.bids = <<>>
    /\ Silent(st)
    /\ Outside /\ UNCHANGED cache

Evaluable == pc = "eval" /\ held >= Share /\ cache.book.bids # <<>>

\* A close decided on a stale book is confirmed first: ensure_fresh.
EvalStale ==
    LET d == Decide(st) IN
    /\ Evaluable
    /\ d.verdict \in Closes /\ cache.age # "fresh"
    /\ st' = Peaked(st, d)
    /\ dec' = d
    /\ pc' = "confirm"
    /\ log' = NoRow
    /\ Outside /\ UNCHANGED <<cache, claim, watch, held, sale, seen>>

Eval ==
    LET d == Decide(st) IN
    /\ Evaluable
    /\ d.verdict \notin Closes \/ cache.age = "fresh"
    /\ Judge(Peaked(st, d), d)
    /\ Outside

-----------------------------------------------------------------------------
(* _confirm_close, after the refresh.                                      *)

Refreshed == cache.age = "fresh"

\* Variant: the venue's word that the market is over is not asked for.
SaysOverNever == FALSE

SaysOver == cache.gone \/ market = "closed"

ConfirmDead ==
    /\ pc = "confirm" /\ ~Refreshed /\ SaysOver
    /\ Hold(st, "market_closed_await_settlement")
    /\ Outside /\ UNCHANGED cache

ConfirmOld ==
    /\ pc = "confirm" /\ ~Refreshed /\ ~SaysOver /\ cache.age = "old"
    /\ Hold(st, "stale_order_book")
    /\ Outside /\ UNCHANGED cache

\* A failed refresh does not block a stop: the decision stands.
ConfirmStands ==
    /\ pc = "confirm" /\ ~Refreshed /\ ~SaysOver /\ cache.age # "old"
    /\ Judge(st, dec)
    /\ Outside

\* Decided again on the fresh book; one that cannot be marked changes nothing.
ConfirmFresh ==
    /\ pc = "confirm" /\ Refreshed
    /\ IF cache.book.bids = <<>> \/ Decide(st).verdict = "unmarkable"
       THEN Judge(st, dec)
       ELSE Judge(Peaked(st, Decide(st)), Decide(st))
    /\ Outside

-----------------------------------------------------------------------------
(* The sell, in its thread, and _close after it.                           *)

ThreadOnly == UNCHANGED <<claim, cache, market, saved, st, watch, pc, held, dec, seen>>

\* The executor reads the cached book: with no bids nothing is posted.
SellReads ==
    /\ sale.at = "thread"
    /\ sale' = IF cache.book.bids = <<>> THEN [sale EXCEPT !.at = "done", !.result = "no_bid_liquidity"]
               ELSE [sale EXCEPT !.at = "posted"]
    /\ log' = NoRow
    /\ UNCHANGED row
    /\ ThreadOnly

SellFills(f) ==
    /\ sale.at = "posted"
    /\ f \in Share .. Min2(sale.held, row.qty)
    /\ row' = [status |-> IF f = row.qty THEN "closed" ELSE row.status, qty |-> row.qty - f]
    /\ sale' = [sale EXCEPT !.at = "done", !.result = "filled", !.sold = f]
    /\ log' = NoRow
    /\ ThreadOnly

SellFails(why) ==
    /\ sale.at = "posted"
    /\ sale' = [sale EXCEPT !.at = "done", !.result = why]
    /\ log' = NoRow
    /\ UNCHANGED row
    /\ ThreadOnly

Returned ==
    /\ sale' = NoSale
    /\ claim' = "none"
    /\ pc' = IF pc = "selling" THEN "idle" ELSE pc
    /\ UNCHANGED <<row, cache, market, saved, held, dec>>

Partial == sale.sold < sale.held /\ row.status = "open"

Unwatched == IF Partial THEN watch ELSE FALSE

CloseFilled ==
    /\ sale.at = "done" /\ sale.result = "filled"
    /\ st' = [Calm(st) EXCEPT !.peak = IF Partial THEN @ ELSE NoPrice]
    /\ watch' = Unwatched
    /\ log' = Row("ok", sale.trigger)
    /\ seen' = [seen EXCEPT !.last = "ok"]
    /\ Returned

Again(b) == b.trigger = sale.trigger /\ sale.floor >= b.floor

BackoffDelay == IF Again(st.backoff) THEN Min2(2 * st.backoff.delay, MaxBackoff) ELSE Base

\* _record_close_failure, and its row, once.
CloseFailed ==
    /\ sale.at = "done" /\ sale.result # "filled"
    /\ st' = [st EXCEPT !.backoff = [trigger |-> sale.trigger, delay |-> BackoffDelay,
                                     left |-> BackoffDelay, floor |-> sale.floor],
                        !.err = sale.result]
    /\ log' = IF st.err = sale.result THEN NoRow
              ELSE Row(IF sale.result = "resting_order_pending" THEN "skip" ELSE "error", sale.result)
    /\ seen' = [seen EXCEPT !.last = sale.result]
    /\ UNCHANGED watch
    /\ Returned

-----------------------------------------------------------------------------
(* stop(): the loop is cancelled wherever it waits; a sell that is in its  *)
(* thread goes on, and is waited for, for a while.                         *)

Stop ==
    /\ Running
    /\ pc' = IF sale = NoSale THEN "down" ELSE "draining"
    /\ dec' = NoDec
    /\ log' = NoRow
    /\ UNCHANGED <<row, claim, cache, market, saved, st, watch, held, sale, seen>>

Drained ==
    /\ pc = "draining"
    /\ pc' = "down"
    /\ log' = NoRow
    /\ UNCHANGED <<row, claim, cache, market, saved, st, watch, held, dec, sale, seen>>

\* The process starts again: what was in memory is gone, bootstrap_peaks
\* rebuilds the peak from the snapshots.
Restart ==
    /\ pc = "down"
    /\ st' = IF row.status = "open" THEN [NoState EXCEPT !.peak = saved] ELSE NoState
    /\ cache' = [book |-> NoBook, age |-> "none", gone |-> FALSE, counted |-> FALSE]
    /\ market' = "open"
    /\ claim' = "none"
    /\ watch' = FALSE
    /\ pc' = "idle"
    /\ held' = 0
    /\ dec' = NoDec
    /\ sale' = NoSale
    /\ log' = NoRow
    /\ seen' = [Recount(seen, NoBook) EXCEPT !.last = "none"]
    /\ UNCHANGED <<row, saved>>

-----------------------------------------------------------------------------
(* Others that close the row.                                              *)

Others == UNCHANGED <<cache, market, saved, st, watch, pc, held, dec, sale, seen>>

ManualClaims ==
    /\ Manual
    /\ row.status = "open" /\ claim = "none"
    /\ claim' = "manual"
    /\ log' = NoRow
    /\ UNCHANGED row
    /\ Others

ManualEnds(f) ==
    /\ claim = "manual"
    /\ claim' = "none"
    /\ f \in {0} \cup Share .. row.qty
    /\ row' = [status |-> IF f = row.qty THEN "closed" ELSE row.status, qty |-> row.qty - f]
    /\ log' = NoRow
    /\ Others

Settles ==
    /\ row.status = "open" /\ claim = "none"
    /\ row' = [row EXCEPT !.status = "closed"]
    /\ log' = NoRow
    /\ UNCHANGED claim
    /\ Others

-----------------------------------------------------------------------------
LoopStep ==
    \/ TickRead \/ TickList
    \/ EvalDust \/ EvalNoBook \/ EvalNoBids \/ EvalStale \/ Eval
    \/ ConfirmDead \/ ConfirmOld \/ ConfirmStands \/ ConfirmFresh

SaleStep ==
    \/ SellReads
    \/ \E f \in 1 .. Qty : SellFills(f)
    \/ \E why \in {"live_error", "resting_order_pending"} : SellFails(why)
    \/ CloseFilled \/ CloseFailed

Next ==
    \/ LoopStep \/ SaleStep
    \/ \E b \in Books, persist \in BOOLEAN : Fetch(b, persist)
    \/ Gone \/ Dropped \/ Ages \/ MarketCloses \/ Clock
    \/ Stop \/ Drained \/ Restart
    \/ ManualClaims \/ Settles
    \/ \E f \in 0 .. Qty : ManualEnds(f)

Spec == Init /\ [][Next]_vars

\* The loop ticks on, a sell in its thread ends, and the clock runs.
FairSpec == Spec /\ WF_vars(LoopStep) /\ WF_vars(SaleStep) /\ WF_vars(Clock)

-----------------------------------------------------------------------------
(* Properties.                                                             *)

TypeOK ==
    /\ row \in [status: {"open", "closed"}, qty: 0 .. Qty]
    /\ claim \in {"none", "exit", "manual"}
    /\ cache \in [book: Books \cup {NoBook}, age: {"none", "fresh", "stale", "old"},
                  gone: BOOLEAN, counted: BOOLEAN]
    /\ market \in {"open", "closed"}
    /\ saved \in Nat
    /\ st \in [peak: Nat, hold: Held \cup {"none"}, err: Failures \cup {"none"},
               backoff: [trigger: Closes \cup {"none"}, delay: 0 .. MaxBackoff,
                         left: 0 .. MaxBackoff, floor: Nat],
               streak: 0 .. Confirm - 1, dust: BOOLEAN]
    /\ watch \in BOOLEAN
    /\ pc \in {"idle", "list", "eval", "confirm", "selling", "draining", "down"}
    /\ held \in 0 .. Qty
    /\ dec.verdict \in Verdicts
    /\ sale.at \in {"none", "thread", "posted", "done"}
    /\ seen.fetches \in 0 .. Confirm

\* The trailing stop trails a price the position really had: the peak is the
\* entry or an executable mark of a book of its lifetime, never a dust bid's
\* (_decide, observe_book, bootstrap_peaks).
PeakIsReal == row.status = "open" => st.peak <= seen.hi

StartsSale == sale.at = "none" /\ sale'.at = "thread"

\* The cached book has bids, none to mark on, and no ask of real size.
ThinNoAsk ==
    /\ cache.book.bids # <<>>
    /\ Mark(cache.book) = NoPrice /\ FirstDeep(cache.book.asks) = NoPrice

\* A frozen snapshot never completes v1's streak: a sell decided on a thin bid
\* with no ask was preceded by Confirm fetches that showed the collapse
\* (_track_thin_streak, _prior_thin_streak).  A book that empties while a stop
\* is confirmed is another matter: the stop stands.
FrozenBookNeverFires ==
    [][StartsSale /\ V1 /\ cache.age = "fresh" /\ ThinNoAsk => seen.fetches = Confirm]_vars

\* A market the venue calls over, or a quote that stopped updating, is held
\* for settlement and never sold into (_confirm_close, _evaluate).
NeverSellsDead ==
    [][StartsSale => /\ ~cache.gone
                     /\ cache.age # "old"
                     /\ market = "closed" => cache.age = "fresh"]_vars

\* A hold or a failure that persists is logged once: a row never repeats the
\* outcome of the evaluation before it (the module's docstring).  The row of a
\* position that another seller has claimed is the exception: every sweep
\* writes one.
LoggedOnce ==
    [][log'.verdict \in {"skip", "error"} /\ log'.reason # "exit_in_flight"
           => log'.reason # seen.last]_vars

\* A stop is never given up: while the book calls for one and the loop runs,
\* the sell is tried again and again, whatever failed before.
Collapsed ==
    /\ row.status = "open" /\ row.qty >= Share /\ Running
    /\ cache.age \in {"fresh", "stale"} /\ market = "open"
    /\ Mark(cache.book) # NoPrice /\ Lost(2 * Mark(cache.book), Entry, HardPct)

KeepsTrying == <>[]Collapsed => []<>(sale.at = "posted")
=============================================================================
