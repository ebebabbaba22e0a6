----------------------------- MODULE BookCache -----------------------------
(***************************************************************************)
(* The market source: the catalog a discovery poll replaces, and the cache *)
(* of order books that three kinds of fetches fill at once - the sampler's *)
(* batches, the loop over held tokens, and the on-demand refreshes of the  *)
(* entry and exit paths - while the venue may answer 404 at any time.      *)
(*                                                                         *)
(* A book is known by the stamp of its receipt alone.  Every reading of    *)
(* book_clock() that becomes a stamp is a step of the clock, so two        *)
(* receipts never share one; Wait lets time pass besides.                  *)
(***************************************************************************)
EXTENDS Integers, FiniteSets

CONSTANTS
    Token,             \* outcome tokens
    Market,            \* markets Gamma may list
    TokensOf,          \* the YES and NO tokens of each market
    Caller,            \* who calls ensure_fresh: entry and exit decisions
    HeldLoop,          \* _run_held_book_loop, which calls it too
    KeptMaxAge,        \* KEPT_BOOK_MAX_AGE_SECONDS
    FreshAge,          \* max_age of the calls (MAX_BOOK_AGE_SECONDS, and half
                       \* HELD_BOOK_INTERVAL_SECONDS: 5 seconds both)
    GoneRecheck,       \* GONE_BOOK_RECHECK_SECONDS
    PersistInterval,   \* book_sample_interval_seconds
    MaxNow             \* bound: clock readings

ASSUME AgesAssumption ==
    /\ {KeptMaxAge, FreshAge, GoneRecheck, PersistInterval, MaxNow} \subseteq Nat
    /\ KeptMaxAge > FreshAge

ASSUME TokensAssumption == TokensOf \in [Market -> SUBSET Token]

ASSUME CallersAssumption == HeldLoop \notin Caller

VARIABLES
    now,        \* book_clock(), time.monotonic()
    state,      \* MarketSourceManager._state
    catalog,    \* MarketStore._catalog
    book,       \* MarketStore._order_books: receipt stamps, None for no book
    gone,       \* MarketStore._gone: stamps of the latest 404s
    held,       \* MarketSourceManager._held_tokens
    open,       \* tokens with an open position, in the ledger
    poll,       \* the discovery poll under way
    sample,     \* the sample cycle under way
    call,       \* the ensure_fresh calls under way
    persisted,  \* _last_persisted
    seen,       \* history: the latest book the observer was given, per token
    rowAt       \* history: when the latest snapshot row was written, per token

vars == <<now, state, catalog, book, gone, held, open, poll, sample, call,
          persisted, seen, rowAt>>
market == <<catalog, poll>>
store == <<book, gone>>
hooks == <<persisted, seen, rowAt>>

---------------------------------------------------------------------------
(* Types                                                                    *)

None == 0
Stamp == 1 .. MaxNow
MaybeStamp == 0 .. MaxNow

CallOf == Caller \cup {HeldLoop}

Poll   == [pc: {"idle", "fetch", "sync"}, missing: SUBSET Market]
Sample == [pc: {"idle", "fetch"}, start: MaybeStamp,
           pending: SUBSET Token, got: [Token -> MaybeStamp]]
Call   == [pc: {"idle", "read", "fetch"}, pending: SUBSET Token, listed: SUBSET Token]

NoPoll   == [pc |-> "idle", missing |-> {}]
NoSample == [pc |-> "idle", start |-> None, pending |-> {}, got |-> [t \in Token |-> None]]
NoCall   == [pc |-> "idle", pending |-> {}, listed |-> {}]

TypeOK ==
    /\ now \in MaybeStamp
    /\ state \in {"stopped", "running", "error"}
    /\ catalog \subseteq Market
    /\ book \in [Token -> MaybeStamp]
    /\ gone \in [Token -> MaybeStamp]
    /\ held \subseteq Token
    /\ open \subseteq Token
    /\ poll \in Poll
    /\ sample \in Sample
    /\ call \in [CallOf -> Call]
    /\ persisted \in [Token -> MaybeStamp]
    /\ seen \in [Token -> MaybeStamp]
    /\ rowAt \in [Token -> MaybeStamp]

---------------------------------------------------------------------------
(* MarketStore                                                              *)

\* The next reading of book_clock().
Tick == now < MaxNow /\ now' = now + 1

Age(t) == now - book[t]

\* Variant: a 404 counts only against receipts of its own moment.
PredatesGoneMarkNot(t, at) == gone[t] = at

\* _predates_gone_mark
PredatesGoneMark(t, at) == gone[t] # None /\ at <= gone[t]

\* Variant: the book that came last is stored, whatever is cached.
OvertakenNot(t, at) == FALSE

\* Newest wins: a cached book received later stays.
Overtaken(t, at) == book[t] > at

\* Variant: held tokens are not kept.
KeptNewerOnly(t, start) == book[t] > start

\* A cached book that a batch of the cycle begun at start does not carry.
Kept(t, start) ==
    \/ book[t] > start
    \/ t \in held /\ start - book[t] <= KeptMaxAge

\* What set_order_books stores of a batch of receipts.
Accepted(got) ==
    {t \in Token : /\ got[t] # None
                   /\ ~PredatesGoneMark(t, got[t])
                   /\ ~Overtaken(t, got[t])}

SetOrderBooks(got, start) ==
    /\ book' = [t \in Token |->
                  IF t \in Accepted(got) THEN got[t]
                  ELSE IF got[t] # None
                       THEN IF PredatesGoneMark(t, got[t]) THEN None ELSE book[t]
                       ELSE IF book[t] # None /\ Kept(t, start) THEN book[t] ELSE None]
    /\ gone' = [t \in Token |-> IF t \in Accepted(got) THEN None ELSE gone[t]]

\* put_order_book of a receipt of this moment.
Puts(t) == ~Overtaken(t, now') /\ ~PredatesGoneMark(t, now')

PutOrderBook(t) ==
    IF Puts(t)
    THEN /\ book' = [book EXCEPT ![t] = now']
         /\ gone' = [gone EXCEPT ![t] = None]
    ELSE UNCHANGED store

MarkBookGone(t) ==
    /\ book' = [book EXCEPT ![t] = None]
    /\ gone' = [gone EXCEPT ![t] = now']

---------------------------------------------------------------------------
(* The hooks                                                                *)

\* Variant: prunes stamps that still throttle.
PrunedYoung(p) == [t \in Token |-> None]

\* _prune_last_persisted
Pruned(p) == [t \in Token |-> IF now - p[t] < PersistInterval THEN p[t] ELSE None]

\* _deliver_books of the receipts at[t], t \in T: the observer gets them all,
\* the database those the throttle lets through.
Deliver(T, at, throttle) ==
    LET rows == {t \in T : ~throttle \/ persisted[t] = None
                             \/ now' - persisted[t] >= PersistInterval}
    IN  /\ persisted' = [t \in Token |-> IF t \in rows THEN now' ELSE persisted[t]]
        /\ rowAt' = [t \in Token |-> IF t \in rows THEN now' ELSE rowAt[t]]
        /\ seen' = [t \in Token |-> IF t \in T THEN at[t] ELSE seen[t]]

---------------------------------------------------------------------------
(* Lifecycle and discovery                                                  *)

Init ==
    /\ now = 0
    /\ state = "stopped"
    /\ catalog = {}
    /\ book = [t \in Token |-> None]
    /\ gone = [t \in Token |-> None]
    /\ held = {}
    /\ open \in SUBSET Token
    /\ poll = NoPoll
    /\ sample = NoSample
    /\ call = [c \in CallOf |-> NoCall]
    /\ persisted = [t \in Token |-> None]
    /\ seen = [t \in Token |-> None]
    /\ rowAt = [t \in Token |-> None]

Start ==
    /\ state = "stopped"
    /\ state' = "running"
    /\ UNCHANGED <<now, catalog, book, gone, held, open, poll, sample, call, hooks>>

\* stop cancels the three loops and waits for them; what the entry and exit
\* paths are fetching goes on, and the store keeps what it has.
Stop ==
    /\ state # "stopped"
    /\ state' = "stopped"
    /\ poll' = NoPoll
    /\ sample' = NoSample
    /\ call' = [call EXCEPT ![HeldLoop] = NoCall]
    /\ UNCHANGED <<now, catalog, store, held, open, hooks>>

PollStarts ==
    /\ state # "stopped" /\ poll.pc = "idle"
    /\ poll' = [poll EXCEPT !.pc = "fetch"]
    /\ UNCHANGED <<now, state, catalog, store, held, open, sample, call, hooks>>

\* The markets of open positions that the kept catalog lacks.
Missing(kept) == {m \in Market \ kept : TokensOf[m] \cap open # {}}

\* _poll_once up to its next await: the catalog is replaced and, unless the
\* ledger cannot be read, the markets holding sync must fetch are listed.
PollAnswers ==
    /\ poll.pc = "fetch"
    /\ \E kept \in SUBSET Market, ledgerReads \in BOOLEAN :
         LET missing == IF ledgerReads THEN Missing(kept) ELSE {}
         IN  /\ catalog' = kept
             /\ poll' = [pc |-> IF missing = {} THEN "idle" ELSE "sync",
                         missing |-> missing]
             /\ state' = IF missing = {} THEN "running" ELSE state
    /\ UNCHANGED <<now, store, held, open, sample, call, hooks>>

\* The discovery fetch raises, or a lookup of holding sync does: the poll ends there,
\* with what it has found by then.
PollFails ==
    /\ poll.pc # "idle"
    /\ poll' = NoPoll
    /\ state' = "error"
    /\ UNCHANGED <<now, catalog, store, held, open, sample, call, hooks>>

\* One lookup of _sync_holdings_once; its market may not be found.
SyncHolding(m) ==
    /\ poll.pc = "sync" /\ m \in poll.missing
    /\ \E found \in BOOLEAN : catalog' = IF found THEN catalog \cup {m} ELSE catalog
    /\ LET rest == poll.missing \ {m}
       IN  /\ poll' = [pc |-> IF rest = {} THEN "idle" ELSE "sync", missing |-> rest]
           /\ state' = IF rest = {} THEN "running" ELSE state
    /\ UNCHANGED <<now, store, held, open, sample, call, hooks>>

---------------------------------------------------------------------------
(* The sampler                                                              *)

\* _sample_books_once up to its first await.
SampleStarts ==
    /\ state # "stopped" /\ sample.pc = "idle"
    /\ Tick
    /\ persisted' = Pruned(persisted)
    /\ LET tokens == UNION {TokensOf[m] : m \in catalog}
       IN  IF catalog = {}
           THEN /\ SetOrderBooks([t \in Token |-> None], now')
                /\ UNCHANGED sample
           ELSE /\ sample' = [NoSample EXCEPT !.pc = "fetch", !.start = now',
                                              !.pending = tokens]
                /\ UNCHANGED store
    /\ UNCHANGED <<state, market, held, open, call, seen, rowAt>>

\* The venue answers the sampler's request for t: with a book, with a 404,
\* or not at all.
SampleAnswer(t) ==
    /\ t \in sample.pending
    /\ Tick
    /\ \/ /\ sample' = [sample EXCEPT !.pending = @ \ {t}, !.got[t] = now']
          /\ UNCHANGED store
       \/ /\ sample' = [sample EXCEPT !.pending = @ \ {t}]
          /\ MarkBookGone(t) \/ UNCHANGED store
    /\ UNCHANGED <<state, market, held, open, call, hooks>>

SampleStores ==
    /\ sample.pc = "fetch" /\ sample.pending = {}
    /\ Tick
    /\ SetOrderBooks(sample.got, sample.start)
    /\ Deliver(Accepted(sample.got), sample.got, FALSE)
    /\ sample' = NoSample
    /\ UNCHANGED <<state, market, held, open, call>>

---------------------------------------------------------------------------
(* ensure_fresh                                                             *)

Stale(T) == {t \in T : book[t] = None \/ Age(t) > FreshAge}

\* A decision wants the books of T fresh; nothing to fetch ends the call.
EnsureFresh(c, T) ==
    /\ call[c].pc = "idle" /\ Stale(T) # {}
    /\ call' = [call EXCEPT ![c] = [NoCall EXCEPT !.pc = "fetch", !.pending = Stale(T)]]
    /\ UNCHANGED <<now, state, market, store, held, open, sample, hooks>>

Answered(c, t) ==
    LET rest == call[c].pending \ {t}
    IN  call' = [call EXCEPT ![c].pending = rest,
                             ![c].pc = IF rest = {} THEN "idle" ELSE "fetch"]

\* refresh_order_book: what the fetch brings is stored and delivered at once.
RefreshAnswer(c, t) ==
    /\ t \in call[c].pending
    /\ Tick
    /\ Answered(c, t)
    /\ \/ /\ PutOrderBook(t)
          /\ IF Puts(t) THEN Deliver({t}, book', TRUE) ELSE UNCHANGED hooks
       \/ (MarkBookGone(t) \/ UNCHANGED store) /\ UNCHANGED hooks
    /\ UNCHANGED <<state, market, held, open, sample>>

\* wait_for cancels the fetches that BOOK_REFRESH_TIMEOUT_SECONDS did not see.
RefreshTimeout(c) ==
    /\ call[c].pc = "fetch"
    /\ call' = [call EXCEPT ![c] = NoCall]
    /\ UNCHANGED <<now, state, market, store, held, open, sample, hooks>>

\* _refresh_held_books_once: the open positions are read in a thread...
HeldReads ==
    /\ state # "stopped" /\ call[HeldLoop].pc = "idle"
    /\ call' = [call EXCEPT ![HeldLoop] = [NoCall EXCEPT !.pc = "read", !.listed = open]]
    /\ UNCHANGED <<now, state, market, store, held, open, sample, hooks>>

Recheck(t) == gone[t] = None \/ now - gone[t] >= GoneRecheck

\* ... and those due are asked for.
HeldRefreshes ==
    /\ call[HeldLoop].pc = "read"
    /\ held' = call[HeldLoop].listed
    /\ LET due == Stale({t \in call[HeldLoop].listed : Recheck(t)})
       IN  call' = [call EXCEPT ![HeldLoop] =
                      IF due = {} THEN NoCall
                      ELSE [NoCall EXCEPT !.pc = "fetch", !.pending = due]]
    /\ UNCHANGED <<now, state, market, store, open, sample, hooks>>

HeldReadFails ==
    /\ call[HeldLoop].pc = "read"
    /\ call' = [call EXCEPT ![HeldLoop] = NoCall]
    /\ UNCHANGED <<now, state, market, store, held, open, sample, hooks>>

---------------------------------------------------------------------------
(* The rest of the program                                                  *)

\* Positions open and close.
Trades(t) ==
    /\ open' = IF t \in open THEN open \ {t} ELSE open \cup {t}
    /\ UNCHANGED <<now, state, market, store, held, sample, call, hooks>>

Wait ==
    /\ Tick
    /\ UNCHANGED <<state, market, store, held, open, sample, call, hooks>>

Next ==
    \/ Start \/ Stop \/ Wait
    \/ PollStarts \/ PollAnswers \/ PollFails
    \/ \E m \in Market : SyncHolding(m)
    \/ SampleStarts \/ SampleStores
    \/ \E t \in Token : SampleAnswer(t) \/ Trades(t)
    \/ \E c \in Caller, T \in SUBSET Token : EnsureFresh(c, T)
    \/ \E c \in CallOf : RefreshTimeout(c) \/ (\E t \in Token : RefreshAnswer(c, t))
    \/ HeldReads \/ HeldRefreshes \/ HeldReadFails

Spec == Init /\ [][Next]_vars

---------------------------------------------------------------------------
(* Safety                                                                   *)

\* The price feed of the trailing stops never runs backwards: whichever of
\* sampler, held loop and on-demand refresh a book comes from (set_order_books,
\* put_order_book and _deliver_books), the observer gets the receipts of a
\* token in the order in which the venue answered.
ObserverInOrder == [][\A t \in Token : seen'[t] >= seen[t]]_vars

\* Only an answer that came after the 404 brings a token's book back: a batch
\* or a refresh that was under way when it came does not (mark_book_gone).
GoneUntilNewer ==
    [][\A t \in Token : gone[t] # None /\ gone'[t] = None => book'[t] > gone[t]]_vars

\* A cached book disappears by a 404 of this moment, or by a sample cycle that
\* began after its receipt and then only when no position is known to need it
\* or it stopped being refreshed: never one an entry decision fetched while
\* the cycle ran, nor one a position is marked at (set_order_books' keep).
NeededBookStays ==
    [][\A t \in Token : book[t] # None /\ book'[t] = None =>
          LET start == IF sample.pc = "fetch" THEN sample.start ELSE now'
          IN  \/ gone'[t] = now'
              \/ /\ book[t] < start
                 /\ t \in held => start - book[t] > KeptMaxAge]_vars

\* However often held tokens and entry decisions refresh a book, and however
\* often the sampler prunes its stamps, refreshes add no snapshot row within
\* the sample interval of the latest one (_deliver_books' throttle_persist).
RowsKeepInterval ==
    [][\A t \in Token : rowAt'[t] # rowAt[t] /\ rowAt[t] # None /\ sample' = sample
         => rowAt'[t] - rowAt[t] >= PersistInterval]_vars
=============================================================================
