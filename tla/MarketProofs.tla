---------------------------- MODULE MarketProofs ----------------------------
(***************************************************************************)
(* What the market source promises of its books, for any tokens, callers,  *)
(* ages and number of clock readings: BookCache's types and its four       *)
(* action properties.  And what the entry rules promise of what they buy,  *)
(* for any rules, quotes, rows and closes: EntryDesk's four properties.    *)
(* Its sums are recursive functions.  What is to be shown of the sum of    *)
(* all beginnings of a sequence is shown of the shortest one that lacks    *)
(* it: there is none.                                                      *)
(***************************************************************************)
EXTENDS MCMarket, Sequences, FiniteSetTheorems, WellFoundedInduction, TLAPS

---------------------------------------------------------------------------
(* The steps                                                                *)

\* A step that touches neither the clock nor the books nor what was delivered.
Calm == UNCHANGED <<now, book, gone, sample, persisted, seen, rowAt>>

\* Every step is calm, or one of the six that read the clock or stop the loops.
LEMMA Kinds ==
    ASSUME [Next]_vars
    PROVE  \/ Calm \/ Stop \/ Wait \/ SampleStarts \/ SampleStores
           \/ \E t \in Token : SampleAnswer(t)
           \/ \E c \in CallOf, t \in Token : RefreshAnswer(c, t)
<1>1. CASE UNCHANGED vars
  BY <1>1 DEF vars, Calm
<1>2. CASE Start
  BY <1>2 DEF Start, Calm, store, market, hooks
<1>3. CASE PollStarts \/ PollAnswers \/ PollFails
  BY <1>3 DEF PollStarts, PollAnswers, PollFails, Calm, store, hooks
<1>4. ASSUME NEW m \in Market, SyncHolding(m)
      PROVE  Calm
  BY <1>4 DEF SyncHolding, Calm, store, hooks
<1>5. ASSUME NEW t \in Token, Trades(t)
      PROVE  Calm
  BY <1>5 DEF Trades, Calm, store, hooks, market
<1>6. ASSUME NEW c \in Caller, NEW T \in SUBSET Token, EnsureFresh(c, T)
      PROVE  Calm
  BY <1>6 DEF EnsureFresh, Calm, store, hooks, market
<1>7. ASSUME NEW c \in CallOf, RefreshTimeout(c)
      PROVE  Calm
  BY <1>7 DEF RefreshTimeout, Calm, store, hooks, market
<1>8. CASE HeldReads \/ HeldRefreshes \/ HeldReadFails
  BY <1>8 DEF HeldReads, HeldRefreshes, HeldReadFails, Calm, store, hooks, market
<1> QED
  BY <1>1, <1>2, <1>3, <1>4, <1>5, <1>6, <1>7, <1>8 DEF Next

---------------------------------------------------------------------------
(* Types                                                                    *)

\* The stamps are naturals.
LEMMA Numbers ==
    /\ MaxNow \in Nat /\ MaybeStamp \subseteq Nat /\ None \in MaybeStamp
    /\ KeptMaxAge \in Nat /\ PersistInterval \in Nat
BY AgesAssumption DEF MaybeStamp, None

\* A reading of book_clock() is a stamp.
LEMMA Ticked ==
    ASSUME now \in MaybeStamp, Tick
    PROVE  now' = now + 1 /\ now' \in MaybeStamp /\ now' # None
BY AgesAssumption DEF Tick, MaybeStamp, None

\* Nothing under way is a poll, a cycle and a call.
LEMMA Records ==
    NoPoll \in Poll /\ NoSample \in Sample /\ NoCall \in Call
BY Numbers DEF NoPoll, Poll, NoSample, Sample, NoCall, Call

\* set_order_books keeps the cache of its type...
LEMMA StoreTypes ==
    ASSUME TypeOK, NEW got \in [Token -> MaybeStamp], NEW start \in MaybeStamp,
           SetOrderBooks(got, start)
    PROVE  book' \in [Token -> MaybeStamp] /\ gone' \in [Token -> MaybeStamp]
BY Numbers DEF TypeOK, SetOrderBooks

\* ... and so does mark_book_gone.
LEMMA MarkTypes ==
    ASSUME TypeOK, now' \in MaybeStamp, NEW t \in Token, MarkBookGone(t) \/ UNCHANGED store
    PROVE  book' \in [Token -> MaybeStamp] /\ gone' \in [Token -> MaybeStamp]
BY Numbers DEF TypeOK, MarkBookGone, store

\* _deliver_books keeps the hooks' state of its type.
LEMMA DeliverTypes ==
    ASSUME TypeOK, now' \in MaybeStamp, NEW T \in SUBSET Token,
           NEW at \in [Token -> MaybeStamp], NEW throttle \in BOOLEAN, Deliver(T, at, throttle)
    PROVE  /\ persisted' \in [Token -> MaybeStamp]
           /\ rowAt' \in [Token -> MaybeStamp]
           /\ seen' \in [Token -> MaybeStamp]
<1>1. persisted' \in [Token -> MaybeStamp]
  BY Zenon DEF TypeOK, Deliver
<1>2. rowAt' \in [Token -> MaybeStamp]
  BY Zenon DEF TypeOK, Deliver
<1>3. seen' \in [Token -> MaybeStamp]
  <2>1. seen' = [t \in Token |-> IF t \in T THEN at[t] ELSE seen[t]]
    BY DEF Deliver
  <2> QED
    BY <2>1 DEF TypeOK
<1> QED
  BY <1>1, <1>2, <1>3

\* The types: whatever fetches, polls and callers do, and whenever the source is
\* started and stopped, each variable is of its kind (MarketStore and
\* MarketSourceManager's attributes).
THEOREM TypeCorrect == Spec => []TypeOK
<1>1. Init => TypeOK
  BY Numbers, Records DEF Init, TypeOK, None
<1>2. TypeOK /\ [Next]_vars => TypeOK'
  <2> SUFFICES ASSUME TypeOK, [Next]_vars
               PROVE  TypeOK'
    OBVIOUS
  <2> USE Numbers, Records
  <2>1. CASE UNCHANGED vars
    BY <2>1 DEF TypeOK, vars
  <2>2. CASE Start
    BY <2>2 DEF TypeOK, Start, market, store, hooks
  <2>3. CASE Stop
    BY <2>3 DEF TypeOK, Stop, store, hooks
  <2>4. CASE Wait
    BY <2>4, Ticked DEF TypeOK, Wait, market, store, hooks
  <2>5. CASE PollStarts
    BY <2>5 DEF TypeOK, PollStarts, store, hooks, Poll
  <2>6. CASE PollAnswers
    BY <2>6 DEF TypeOK, PollAnswers, store, hooks, Poll, Missing
  <2>7. CASE PollFails
    BY <2>7 DEF TypeOK, PollFails, store, hooks
  <2>8. ASSUME NEW m \in Market, SyncHolding(m)
        PROVE  TypeOK'
    BY <2>8 DEF TypeOK, SyncHolding, store, hooks, Poll
  <2>9. CASE SampleStarts
    <3>1. now' \in MaybeStamp
      BY <2>9, Ticked DEF TypeOK, SampleStarts
    <3>2. persisted' \in [Token -> MaybeStamp]
      BY <2>9 DEF TypeOK, SampleStarts, Pruned
    <3>3. [t \in Token |-> None] \in [Token -> MaybeStamp]
      OBVIOUS
    <3>4. book' \in [Token -> MaybeStamp] /\ gone' \in [Token -> MaybeStamp]
      BY <2>9, <3>1, <3>3, StoreTypes DEF TypeOK, SampleStarts, store
    <3>5. UNION {TokensOf[m] : m \in catalog} \subseteq Token
      BY TokensAssumption DEF TypeOK
    <3>6. sample' \in Sample
      BY <2>9, <3>1, <3>5 DEF TypeOK, SampleStarts, Sample, NoSample
    <3> QED
      BY <2>9, <3>1, <3>2, <3>4, <3>6 DEF TypeOK, SampleStarts, market
  <2>10. ASSUME NEW t \in Token, SampleAnswer(t)
         PROVE  TypeOK'
    <3>1. now' \in MaybeStamp
      BY <2>10, Ticked DEF TypeOK, SampleAnswer
    <3>2. book' \in [Token -> MaybeStamp] /\ gone' \in [Token -> MaybeStamp]
      BY <2>10, <3>1, MarkTypes DEF SampleAnswer
    <3>3. sample' \in Sample
      <4>1. sample \in Sample /\ [sample.got EXCEPT ![t] = now'] \in [Token -> MaybeStamp]
        BY <3>1 DEF TypeOK, Sample
      <4>2. CASE sample' = [sample EXCEPT !.pending = @ \ {t}, !.got[t] = now']
        BY <4>1, <4>2 DEF Sample
      <4>3. CASE sample' = [sample EXCEPT !.pending = @ \ {t}]
        BY <4>1, <4>3 DEF Sample
      <4> QED
        BY <2>10, <4>2, <4>3 DEF SampleAnswer
    <3> QED
      BY <2>10, <3>1, <3>2, <3>3 DEF TypeOK, SampleAnswer, market, hooks
  <2>11. CASE SampleStores
    <3>1. now' \in MaybeStamp
      BY <2>11, Ticked DEF TypeOK, SampleStores
    <3>2. sample.got \in [Token -> MaybeStamp] /\ sample.start \in MaybeStamp
      BY DEF TypeOK, Sample
    <3>3. book' \in [Token -> MaybeStamp] /\ gone' \in [Token -> MaybeStamp]
      BY <2>11, <3>2, StoreTypes DEF SampleStores
    <3>4. Accepted(sample.got) \subseteq Token
      BY DEF Accepted
    <3>5. /\ persisted' \in [Token -> MaybeStamp]
          /\ rowAt' \in [Token -> MaybeStamp]
          /\ seen' \in [Token -> MaybeStamp]
      BY <2>11, <3>1, <3>2, <3>4, DeliverTypes DEF SampleStores
    <3> QED
      BY <2>11, <3>1, <3>3, <3>5 DEF TypeOK, SampleStores, market
  <2>12. ASSUME NEW t \in Token, Trades(t)
         PROVE  TypeOK'
    BY <2>12 DEF TypeOK, Trades, market, store, hooks
  <2>13. ASSUME NEW c \in Caller, NEW T \in SUBSET Token, EnsureFresh(c, T)
         PROVE  TypeOK'
    BY <2>13 DEF TypeOK, EnsureFresh, market, store, hooks, Call, NoCall, Stale
  <2>14. ASSUME NEW c \in CallOf, RefreshTimeout(c)
         PROVE  TypeOK'
    BY <2>14 DEF TypeOK, RefreshTimeout, market, store, hooks
  <2>15. ASSUME NEW c \in CallOf, NEW t \in Token, RefreshAnswer(c, t)
         PROVE  TypeOK'
    <3>1. now' \in MaybeStamp
      BY <2>15, Ticked DEF TypeOK, RefreshAnswer
    <3>2. call' \in [CallOf -> Call]
      BY <2>15 DEF TypeOK, RefreshAnswer, Answered, Call
    <3>3. book' \in [Token -> MaybeStamp] /\ gone' \in [Token -> MaybeStamp]
      <4>1. CASE PutOrderBook(t)
        BY <4>1, <3>1 DEF TypeOK, PutOrderBook, store
      <4> QED
        BY <2>15, <3>1, <4>1, MarkTypes DEF RefreshAnswer
    <3>4. /\ persisted' \in [Token -> MaybeStamp]
          /\ rowAt' \in [Token -> MaybeStamp]
          /\ seen' \in [Token -> MaybeStamp]
      <4>1. CASE Deliver({t}, book', TRUE)
        BY <4>1, <3>1, <3>3, DeliverTypes
      <4>2. CASE UNCHANGED hooks
        BY <4>2 DEF TypeOK, hooks
      <4> QED
        BY <2>15, <4>1, <4>2 DEF RefreshAnswer
    <3> QED
      BY <2>15, <3>1, <3>2, <3>3, <3>4 DEF TypeOK, RefreshAnswer, market
  <2>16. CASE HeldReads
    BY <2>16 DEF TypeOK, HeldReads, market, store, hooks, Call, NoCall, CallOf
  <2>17. CASE HeldRefreshes
    <3>1. HeldLoop \in CallOf /\ call[HeldLoop].listed \subseteq Token
      BY DEF TypeOK, CallOf, Call
    <3> QED
      BY <2>17, <3>1 DEF TypeOK, HeldRefreshes, market, store, hooks, Call, NoCall, Stale
  <2>18. CASE HeldReadFails
    BY <2>18 DEF TypeOK, HeldReadFails, market, store, hooks
  <2> QED
    BY <2>1, <2>2, <2>3, <2>4, <2>5, <2>6, <2>7, <2>8, <2>9, <2>10, <2>11, <2>12, <2>13,
       <2>14, <2>15, <2>16, <2>17, <2>18 DEF Next
<1> QED
  BY <1>1, <1>2, PTL DEF Spec

---------------------------------------------------------------------------
(* The invariant                                                            *)

\* Nothing bears a stamp of the future.
Stamped ==
    /\ sample.start <= now
    /\ \A t \in Token : /\ book[t] <= now /\ gone[t] <= now /\ seen[t] <= now
                        /\ rowAt[t] <= now /\ sample.got[t] <= now

\* A token has a book or a 404 mark, not both.
OneMark == \A t \in Token : book[t] = None \/ gone[t] = None

\* A cycle under way has its stamp; its batch holds answers to requests of its own,
\* and no book was received at the reading of the clock that began it.
BatchIsLater ==
    /\ sample.pc = "fetch" => sample.start # None
    /\ \A t \in Token : /\ sample.got[t] # None => sample.start < sample.got[t]
                        /\ sample.pc = "fetch" => book[t] # sample.start

\* What the observer has seen is no newer than the book, or the mark, that any
\* later book must pass; without either it is older than the cycle under way.
SeenIsPassed ==
    \A t \in Token :
      /\ book[t] # None => seen[t] <= book[t]
      /\ gone[t] # None => seen[t] <= gone[t]
      /\ book[t] = None /\ gone[t] = None /\ sample.pc = "fetch" => seen[t] <= sample.start

\* A throttle stamp is that of the latest row; where it was pruned, the row has
\* grown old.
RowsAreStamped ==
    \A t \in Token :
      /\ persisted[t] # None => persisted[t] = rowAt[t]
      /\ persisted[t] = None /\ rowAt[t] # None => now - rowAt[t] >= PersistInterval

CacheInv == Stamped /\ OneMark /\ BatchIsLater /\ SeenIsPassed /\ RowsAreStamped

\* The naturals and functions of TypeOK that the arithmetic needs.
LEMMA Known ==
    ASSUME TypeOK
    PROVE  /\ now \in Nat /\ sample.start \in Nat
           /\ sample.got \in [Token -> MaybeStamp]
           /\ \A t \in Token : /\ book[t] \in Nat /\ gone[t] \in Nat /\ seen[t] \in Nat
                               /\ persisted[t] \in Nat /\ rowAt[t] \in Nat
                               /\ sample.got[t] \in Nat
<1>1. sample.start \in MaybeStamp /\ sample.got \in [Token -> MaybeStamp]
  BY DEF TypeOK, Sample
<1> QED
  BY <1>1, Numbers DEF TypeOK

\* Token by token, what a batch does to the cache.
LEMMA Batch ==
    ASSUME NEW got, NEW start, SetOrderBooks(got, start), NEW t \in Token
    PROVE  /\ t \in Accepted(got) =>
                /\ book'[t] = got[t] /\ gone'[t] = None /\ got[t] # None
                /\ ~PredatesGoneMark(t, got[t]) /\ ~Overtaken(t, got[t])
           /\ t \notin Accepted(got) =>
                /\ gone'[t] = gone[t]
                /\ book'[t] = book[t] \/ book'[t] = None
                /\ book[t] # None /\ book'[t] = None /\ got[t] # None =>
                     PredatesGoneMark(t, got[t])
                /\ book[t] # None /\ book'[t] = None /\ got[t] = None => ~Kept(t, start)
BY DEF SetOrderBooks, Accepted

\* Token by token, what an answer to one request does.
LEMMA Answer ==
    ASSUME TypeOK, NEW t \in Token, NEW u \in Token,
           PutOrderBook(t) \/ MarkBookGone(t) \/ UNCHANGED store
    PROVE  \/ book'[u] = book[u] /\ gone'[u] = gone[u]
           \/ u = t /\ PutOrderBook(t) /\ Puts(t) /\ book'[u] = now' /\ gone'[u] = None
           \/ u = t /\ MarkBookGone(t) /\ book'[u] = None /\ gone'[u] = now'
BY DEF TypeOK, PutOrderBook, MarkBookGone, store

\* Token by token, what delivering receipts does to the history.
LEMMA Delivery ==
    ASSUME NEW T, NEW at, NEW throttle \in BOOLEAN, Deliver(T, at, throttle), NEW t \in Token
    PROVE  /\ seen'[t] = IF t \in T THEN at[t] ELSE seen[t]
           /\ \/ persisted'[t] = now' /\ rowAt'[t] = now'
              \/ persisted'[t] = persisted[t] /\ rowAt'[t] = rowAt[t]
           /\ throttle /\ rowAt'[t] # rowAt[t] =>
                persisted[t] = None \/ now' - persisted[t] >= PersistInterval
BY DEF Deliver

\* What orders the stamps: it holds initially and through every step, because every
\* receipt is a reading of the clock of its own.
LEMMA CacheInvHolds == Spec => []CacheInv
<1>1. Init => CacheInv
  BY DEF Init, CacheInv, Stamped, OneMark, BatchIsLater, SeenIsPassed, RowsAreStamped,
         NoSample, None
<1>2. TypeOK /\ TypeOK' /\ CacheInv /\ [Next]_vars => CacheInv'
  <2> SUFFICES ASSUME TypeOK, TypeOK', CacheInv, [Next]_vars
               PROVE  CacheInv'
    OBVIOUS
  <2> USE Known, Numbers
  <2>1. CASE Calm
    BY <2>1 DEF Calm, CacheInv, Stamped, OneMark, BatchIsLater, SeenIsPassed, RowsAreStamped
  <2>2. CASE Stop
    BY <2>2 DEF Stop, store, hooks, NoSample, None, CacheInv, Stamped, OneMark, BatchIsLater,
                SeenIsPassed, RowsAreStamped
  <2>3. CASE Wait
    BY <2>3 DEF Wait, Tick, store, hooks, CacheInv, Stamped, OneMark, BatchIsLater,
                SeenIsPassed, RowsAreStamped
  <2>4. CASE SampleStarts
    <3>1. now' = now + 1
      BY <2>4 DEF SampleStarts, Tick
    <3>2. \A t \in Token : /\ persisted'[t] \in {persisted[t], None}
                           /\ persisted'[t] = None =>
                                persisted[t] = None \/ now - persisted[t] >= PersistInterval
      BY <2>4 DEF SampleStarts, Pruned
    <3>3. RowsAreStamped'
      BY <2>4, <3>1, <3>2 DEF SampleStarts, CacheInv, RowsAreStamped, Stamped
    <3>4. CASE catalog = {}
      <4>1. /\ SetOrderBooks([t \in Token |-> None], now')
            /\ UNCHANGED <<sample, seen, rowAt>> /\ sample.pc = "idle"
        BY <2>4, <3>4 DEF SampleStarts
      <4>2. ASSUME NEW t \in Token
            PROVE  gone'[t] = gone[t] /\ book'[t] \in {book[t], None}
        <5>1. t \notin Accepted([u \in Token |-> None])
          BY DEF Accepted
        <5> QED
          BY <4>1, <5>1, Batch
      <4> QED
        BY <3>1, <3>3, <4>1, <4>2 DEF CacheInv, Stamped, OneMark, BatchIsLater, SeenIsPassed, None
    <3>5. CASE catalog # {}
      <4>1. /\ sample' = [NoSample EXCEPT !.pc = "fetch", !.start = now',
                                          !.pending = UNION {TokensOf[m] : m \in catalog}]
            /\ UNCHANGED <<book, gone, seen, rowAt>>
        BY <2>4, <3>5 DEF SampleStarts, store
      <4>2. /\ sample'.start = now' /\ sample'.pc = "fetch"
            /\ \A t \in Token : sample'.got[t] = None
        BY <4>1 DEF NoSample
      <4> QED
        BY <3>1, <3>3, <4>1, <4>2 DEF CacheInv, Stamped, OneMark, BatchIsLater, SeenIsPassed, None
    <3> QED
      BY <3>4, <3>5
  <2>5. ASSUME NEW t \in Token, SampleAnswer(t)
        PROVE  CacheInv'
    <3>1. now' = now + 1 /\ UNCHANGED <<persisted, seen, rowAt>>
      BY <2>5 DEF SampleAnswer, Tick, hooks
    <3>2. /\ sample'.pc = sample.pc /\ sample'.start = sample.start
          /\ \A u \in Token : sample'.got[u] \in {sample.got[u], now'}
      BY <2>5 DEF SampleAnswer, TypeOK, Sample
    <3>3. \A u \in Token : \/ book'[u] = book[u] /\ gone'[u] = gone[u]
                           \/ book'[u] = None /\ gone'[u] = now'
      BY <2>5, Answer DEF SampleAnswer, PutOrderBook, MarkBookGone, store, TypeOK
    <3>4. Stamped' /\ OneMark'
      BY <3>1, <3>2, <3>3 DEF CacheInv, Stamped, OneMark
    <3>5. BatchIsLater'
      BY <3>1, <3>2, <3>3 DEF CacheInv, Stamped, BatchIsLater
    <3>7. SeenIsPassed'
      BY <3>1, <3>2, <3>3 DEF CacheInv, Stamped, SeenIsPassed, None
    <3>6. RowsAreStamped'
      BY <3>1 DEF CacheInv, Stamped, RowsAreStamped
    <3> QED
      BY <3>4, <3>5, <3>6, <3>7 DEF CacheInv
  <2>6. CASE SampleStores
    <3>1. /\ now' = now + 1 /\ sample' = NoSample
          /\ SetOrderBooks(sample.got, sample.start)
          /\ Deliver(Accepted(sample.got), sample.got, FALSE)
      BY <2>6 DEF SampleStores, Tick
    <3>2. ASSUME NEW t \in Token
          PROVE  \/ t \in Accepted(sample.got) /\ book'[t] = sample.got[t] /\ gone'[t] = None
                    /\ seen'[t] = sample.got[t]
                 \/ /\ book'[t] \in {book[t], None} /\ gone'[t] = gone[t]
                    /\ seen'[t] = seen[t]
      <4>1. /\ t \in Accepted(sample.got) => seen'[t] = sample.got[t]
            /\ t \notin Accepted(sample.got) => seen'[t] = seen[t]
        BY <3>1 DEF Deliver
      <4>2. /\ t \in Accepted(sample.got) => book'[t] = sample.got[t] /\ gone'[t] = None
            /\ t \notin Accepted(sample.got) => book'[t] \in {book[t], None} /\ gone'[t] = gone[t]
        BY <3>1, Batch
      <4> QED
        BY <4>1, <4>2
    <3>3. ASSUME NEW t \in Token
          PROVE  \/ persisted'[t] = now' /\ rowAt'[t] = now'
                 \/ persisted'[t] = persisted[t] /\ rowAt'[t] = rowAt[t]
      BY <3>1, Delivery
    <3>4. sample'.pc = "idle" /\ sample'.start = None /\ \A t \in Token : sample'.got[t] = None
      BY <3>1 DEF NoSample
    <3>5. Stamped' /\ OneMark'
      BY <3>1, <3>2, <3>3, <3>4 DEF CacheInv, Stamped, OneMark, None
    <3>6. BatchIsLater' /\ SeenIsPassed'
      BY <3>2, <3>4 DEF CacheInv, BatchIsLater, SeenIsPassed
    <3>7. RowsAreStamped'
      BY <3>1, <3>3 DEF CacheInv, Stamped, RowsAreStamped, None
    <3> QED
      BY <3>5, <3>6, <3>7 DEF CacheInv
  <2>7. ASSUME NEW c \in CallOf, NEW t \in Token, RefreshAnswer(c, t)
        PROVE  CacheInv'
    <3>1. now' = now + 1 /\ sample' = sample
      BY <2>7 DEF RefreshAnswer, Tick
    <3>2. ASSUME NEW u \in Token
          PROVE  \/ book'[u] = now' /\ gone'[u] = None /\ seen'[u] = now'
                 \/ book'[u] = book[u] /\ gone'[u] = gone[u] /\ seen'[u] = seen[u]
                 \/ book'[u] = None /\ gone'[u] = now' /\ seen'[u] = seen[u]
      <4>1. CASE PutOrderBook(t) /\ Puts(t) /\ Deliver({t}, book', TRUE)
        <5>1. seen'[u] = IF u = t THEN book'[t] ELSE seen[u]
          BY <4>1 DEF Deliver
        <5>2. book' = [book EXCEPT ![t] = now'] /\ gone' = [gone EXCEPT ![t] = None]
          BY <4>1 DEF PutOrderBook
        <5> QED
          BY <5>1, <5>2 DEF TypeOK
      <4>2. CASE (MarkBookGone(t) \/ UNCHANGED store) /\ UNCHANGED hooks
        BY <4>2 DEF MarkBookGone, store, hooks, TypeOK
      <4>3. CASE PutOrderBook(t) /\ ~Puts(t) /\ UNCHANGED hooks
        BY <4>3 DEF PutOrderBook, store, hooks
      <4> QED
        BY <2>7, <4>1, <4>2, <4>3 DEF RefreshAnswer
    <3>3. ASSUME NEW u \in Token
          PROVE  \/ persisted'[u] = now' /\ rowAt'[u] = now'
                 \/ persisted'[u] = persisted[u] /\ rowAt'[u] = rowAt[u]
      <4>1. CASE Deliver({t}, book', TRUE)
        BY <4>1, Delivery
      <4>2. CASE UNCHANGED hooks
        BY <4>2 DEF hooks
      <4> QED
        BY <2>7, <4>1, <4>2 DEF RefreshAnswer
    <3>4. Stamped' /\ OneMark'
      BY <3>1, <3>2, <3>3 DEF CacheInv, Stamped, OneMark, None
    <3>5. BatchIsLater'
      BY <3>1, <3>2 DEF CacheInv, Stamped, BatchIsLater
    <3>7. SeenIsPassed'
      BY <3>1, <3>2 DEF CacheInv, Stamped, SeenIsPassed, None
    <3>6. RowsAreStamped'
      BY <3>1, <3>3 DEF CacheInv, Stamped, RowsAreStamped, None
    <3> QED
      BY <3>4, <3>5, <3>6, <3>7 DEF CacheInv
  <2> QED
    BY <2>1, <2>2, <2>3, <2>4, <2>5, <2>6, <2>7, Kinds
<1> QED
  BY <1>1, <1>2, TypeCorrect, PTL DEF Spec

---------------------------------------------------------------------------
(* The action properties                                                    *)

\* The observer is fed in order: set_order_books and put_order_book refuse what
\* is older than the cached book or the 404 mark, which are no older than what
\* _deliver_books last handed over (ObserverInOrder).
THEOREM PriceFeedInOrder == Spec => ObserverInOrder
<1>1. TypeOK /\ TypeOK' /\ CacheInv /\ [Next]_vars => \A t \in Token : seen'[t] >= seen[t]
  <2> SUFFICES ASSUME TypeOK, TypeOK', CacheInv, [Next]_vars, NEW t \in Token
               PROVE  seen'[t] >= seen[t]
    OBVIOUS
  <2> USE Known, Numbers
  <2>1. CASE seen' = seen
    BY <2>1
  <2>2. CASE SampleStores
    <3>1. /\ SetOrderBooks(sample.got, sample.start) /\ sample.pc = "fetch"
          /\ t \in Accepted(sample.got) => seen'[t] = sample.got[t]
          /\ t \notin Accepted(sample.got) => seen'[t] = seen[t]
      BY <2>2 DEF SampleStores, Deliver
    <3>2. CASE t \in Accepted(sample.got)
      <4>1. /\ sample.got[t] # None /\ ~PredatesGoneMark(t, sample.got[t])
            /\ ~Overtaken(t, sample.got[t])
        BY <3>1, <3>2, Batch
      <4>2. /\ gone[t] # None => sample.got[t] > gone[t]
            /\ book[t] <= sample.got[t] /\ sample.start < sample.got[t]
        BY <4>1 DEF PredatesGoneMark, Overtaken, CacheInv, BatchIsLater
      <4> QED
        BY <3>1, <3>2, <4>2 DEF CacheInv, SeenIsPassed
    <3> QED
      BY <3>1, <3>2
  <2>3. ASSUME NEW c \in CallOf, NEW u \in Token, RefreshAnswer(c, u)
        PROVE  seen'[t] >= seen[t]
    <3>1. now' = now + 1 /\ seen[t] <= now
      BY <2>3 DEF RefreshAnswer, Tick, CacheInv, Stamped
    <3>2. CASE PutOrderBook(u) /\ Puts(u) /\ Deliver({u}, book', TRUE)
      <4>1. seen'[t] = IF t = u THEN book'[u] ELSE seen[t]
        BY <3>2 DEF Deliver
      <4>2. book'[u] = now'
        BY <3>2 DEF PutOrderBook, TypeOK
      <4> QED
        BY <3>1, <4>1, <4>2
    <3>3. CASE UNCHANGED hooks
      BY <3>3 DEF hooks
    <3> QED
      BY <2>3, <3>2, <3>3 DEF RefreshAnswer
  <2>4. CASE SampleStarts
    BY <2>4 DEF SampleStarts
  <2>5. ASSUME NEW u \in Token, SampleAnswer(u)
        PROVE  seen'[t] >= seen[t]
    BY <2>5 DEF SampleAnswer, hooks
  <2>6. CASE Calm \/ Stop \/ Wait
    BY <2>6 DEF Calm, Stop, Wait, hooks
  <2> QED
    BY <2>2, <2>3, <2>4, <2>5, <2>6, Kinds
<1> QED
  BY <1>1, TypeCorrect, CacheInvHolds, PTL DEF Spec, ObserverInOrder

\* A book comes back only by an answer later than the 404: mark_book_gone's stamp
\* is compared with the receipt by _predates_gone_mark (GoneUntilNewer).
THEOREM GoneBooksStayGone == Spec => GoneUntilNewer
<1>1. TypeOK /\ TypeOK' /\ CacheInv /\ [Next]_vars
        => \A t \in Token : gone[t] # None /\ gone'[t] = None => book'[t] > gone[t]
  <2> SUFFICES ASSUME TypeOK, TypeOK', CacheInv, [Next]_vars, NEW t \in Token,
                      gone[t] # None, gone'[t] = None
               PROVE  book'[t] > gone[t]
    OBVIOUS
  <2> USE Known, Numbers
  <2>1. ASSUME NEW got, NEW start, SetOrderBooks(got, start), got[t] \in Nat
        PROVE  book'[t] > gone[t]
    BY <2>1, Batch DEF PredatesGoneMark
  <2>2. CASE SampleStores
    BY <2>1, <2>2 DEF SampleStores
  <2>3. CASE SampleStarts
    <3>1. CASE catalog = {}
      <4>1. SetOrderBooks([u \in Token |-> None], now')
        BY <2>3, <3>1 DEF SampleStarts
      <4> QED
        BY <2>1, <4>1 DEF None
    <3>2. CASE catalog # {}
      BY <2>3, <3>2 DEF SampleStarts, store
    <3> QED
      BY <3>1, <3>2
  <2>4. ASSUME NEW u \in Token, now' = now + 1,
               PutOrderBook(u) \/ MarkBookGone(u) \/ UNCHANGED store
        PROVE  book'[t] > gone[t]
    <3>1. gone[t] <= now /\ now' # None
      BY <2>4 DEF CacheInv, Stamped, None
    <3> QED
      BY <2>4, <3>1, Answer
  <2>5. ASSUME NEW u \in Token, SampleAnswer(u)
        PROVE  book'[t] > gone[t]
    BY <2>4, <2>5 DEF SampleAnswer, Tick, store
  <2>6. ASSUME NEW c \in CallOf, NEW u \in Token, RefreshAnswer(c, u)
        PROVE  book'[t] > gone[t]
    BY <2>4, <2>6 DEF RefreshAnswer, Tick
  <2>7. CASE Calm \/ Stop \/ Wait
    BY <2>7 DEF Calm, Stop, Wait, store
  <2> QED
    BY <2>2, <2>3, <2>5, <2>6, <2>7, Kinds
<1> QED
  BY <1>1, TypeCorrect, CacheInvHolds, PTL DEF Spec, GoneUntilNewer

\* A book a position or an entry decision needs stays: what set_order_books drops
\* is older than the cycle, and for a held token older than the kept age too
\* (NeededBookStays).
THEOREM NeededBooksStay == Spec => NeededBookStays
<1>1. TypeOK /\ TypeOK' /\ CacheInv /\ [Next]_vars =>
        \A t \in Token : book[t] # None /\ book'[t] = None =>
          LET start == IF sample.pc = "fetch" THEN sample.start ELSE now'
          IN  \/ gone'[t] = now'
              \/ /\ book[t] < start
                 /\ t \in held => start - book[t] > KeptMaxAge
  <2> SUFFICES ASSUME TypeOK, TypeOK', CacheInv, [Next]_vars, NEW t \in Token,
                      book[t] # None, book'[t] = None, gone'[t] # now'
               PROVE  LET start == IF sample.pc = "fetch" THEN sample.start ELSE now'
                      IN  book[t] < start /\ (t \in held => start - book[t] > KeptMaxAge)
    OBVIOUS
  <2> USE Known, Numbers
  <2>1. ASSUME NEW got, NEW start \in Nat, SetOrderBooks(got, start), book[t] # start
        PROVE  book[t] < start /\ (t \in held => start - book[t] > KeptMaxAge)
    <3>1. gone[t] = None
      BY DEF CacheInv, OneMark
    <3>2. ~Kept(t, start)
      BY <2>1, <3>1, Batch DEF PredatesGoneMark
    <3> QED
      BY <2>1, <3>2 DEF Kept
  <2>2. CASE SampleStores
    <3>1. sample.pc = "fetch" /\ SetOrderBooks(sample.got, sample.start)
      BY <2>2 DEF SampleStores
    <3>2. book[t] # sample.start
      BY <3>1 DEF CacheInv, BatchIsLater
    <3> QED
      BY <2>1, <3>1, <3>2
  <2>3. CASE SampleStarts
    <3>1. sample.pc = "idle" /\ now' = now + 1 /\ book[t] <= now
      BY <2>3 DEF SampleStarts, Tick, CacheInv, Stamped
    <3>2. CASE catalog = {}
      <4>1. SetOrderBooks([u \in Token |-> None], now')
        BY <2>3, <3>2 DEF SampleStarts
      <4> QED
        BY <2>1, <3>1, <4>1
    <3>3. CASE catalog # {}
      BY <2>3, <3>3 DEF SampleStarts, store
    <3> QED
      BY <3>2, <3>3
  <2>4. ASSUME NEW u \in Token, now' = now + 1,
               PutOrderBook(u) \/ MarkBookGone(u) \/ UNCHANGED store
        PROVE  FALSE
    <3>1. now' # None
      BY <2>4 DEF None
    <3> QED
      BY <2>4, <3>1, Answer
  <2>5. ASSUME NEW u \in Token, SampleAnswer(u)
        PROVE  FALSE
    BY <2>4, <2>5 DEF SampleAnswer, Tick, store
  <2>6. ASSUME NEW c \in CallOf, NEW u \in Token, RefreshAnswer(c, u)
        PROVE  FALSE
    BY <2>4, <2>6 DEF RefreshAnswer, Tick
  <2>7. CASE Calm \/ Stop \/ Wait
    BY <2>7 DEF Calm, Stop, Wait, store
  <2> QED
    BY <2>2, <2>3, <2>5, <2>6, <2>7, Kinds
<1> QED
  BY <1>1, TypeCorrect, CacheInvHolds, PTL DEF Spec, NeededBookStays

\* The rows that on-demand refreshes write keep the sample interval, although the
\* sampler prunes the stamps of the throttle: _prune_last_persisted drops only
\* those that throttle nothing any more (RowsKeepInterval).
THEOREM RefreshRowsKeepInterval == Spec => RowsKeepInterval
<1>1. TypeOK /\ TypeOK' /\ CacheInv /\ [Next]_vars =>
        \A t \in Token : rowAt'[t] # rowAt[t] /\ rowAt[t] # None /\ sample' = sample
                           => rowAt'[t] - rowAt[t] >= PersistInterval
  <2> SUFFICES ASSUME TypeOK, TypeOK', CacheInv, [Next]_vars, NEW t \in Token,
                      rowAt'[t] # rowAt[t], rowAt[t] # None, sample' = sample
               PROVE  rowAt'[t] - rowAt[t] >= PersistInterval
    OBVIOUS
  <2> USE Known, Numbers
  <2>1. ~SampleStores
    <3>1. SampleStores => sample.pc = "fetch" /\ sample'.pc = "idle"
      BY DEF SampleStores, NoSample
    <3> QED
      BY <3>1
  <2>2. ~SampleStarts /\ ~Calm /\ ~Stop /\ ~Wait
    <3>1. ~SampleStarts
      BY DEF SampleStarts
    <3>2. ~Calm /\ ~Stop /\ ~Wait
      BY DEF Calm, Stop, Wait, hooks
    <3> QED
      BY <3>1, <3>2
  <2>3. \A u \in Token : ~SampleAnswer(u)
    BY DEF SampleAnswer, hooks
  <2>4. PICK c \in CallOf, u \in Token : RefreshAnswer(c, u)
    BY <2>1, <2>2, <2>3, Kinds
  <2>5. now' = now + 1 /\ Deliver({u}, book', TRUE)
    BY <2>4 DEF RefreshAnswer, Tick, hooks
  <2>6. /\ rowAt'[t] = now'
        /\ persisted[t] = None \/ now' - persisted[t] >= PersistInterval
    BY <2>5 DEF Deliver
  <2> QED
    BY <2>5, <2>6 DEF CacheInv, RowsAreStamped
<1> QED
  BY <1>1, TypeCorrect, CacheInvHolds, PTL DEF Spec, RowsKeepInterval

---------------------------------------------------------------------------
(* Sums of sequences                                                        *)

\* A set of naturals has a least element: what stands in for induction here.
LEMMA LeastNat ==
    ASSUME NEW T, T \subseteq Nat, T # {}
    PROVE  \E x \in T : \A y \in T : x <= y
<1> DEFINE R == OpToRel(<, Nat)
<1>1. IsWellFoundedOn(R, Nat)
  BY NatLessThanWellFounded
<1>2. \A a, b \in Nat : a < b => <<a, b>> \in R
  BY DEF OpToRel
<1> HIDE DEF R
<1>3. PICK x \in T : \A y \in T : ~(<<y, x>> \in R)
  BY <1>1, WFMin
<1>4. ASSUME NEW y \in T PROVE x <= y
  <2>1. x \in Nat /\ y \in Nat
    OBVIOUS
  <2>2. ~(y < x)
    BY <1>2, <1>3, <2>1
  <2> QED
    BY <2>1, <2>2
<1> QED
  BY <1>4

\* A function that sums the beginnings of v up to its n-th.
SumsUpTo(v, g, n) ==
    /\ g \in [0 .. n -> Int]
    /\ \A k \in 0 .. n : g[k] = IF k = 0 THEN 0 ELSE g[k - 1] + v[k]

\* There is one for all of v.
LEMMA SumsExist ==
    ASSUME NEW v \in Seq(Int)
    PROVE  \E g : SumsUpTo(v, g, Len(v))
<1> DEFINE T == {n \in 0 .. Len(v) : ~ \E g : SumsUpTo(v, g, n)}
<1>1. CASE T = {}
  <2>1. Len(v) \in 0 .. Len(v)
    OBVIOUS
  <2>2. \A n \in 0 .. Len(v) : n \notin T => \E g : SumsUpTo(v, g, n)
    OBVIOUS
  <2> QED
    BY <1>1, <2>1, <2>2
<1>2. CASE T # {}
  <2>1. T \subseteq Nat
    OBVIOUS
  <2>2. PICK x \in T : \A y \in T : x <= y
    BY <1>2, <2>1, LeastNat
  <2>3. x # 0
    <3>1. SumsUpTo(v, [k \in 0 .. 0 |-> 0], 0)
      BY DEF SumsUpTo
    <3> QED
      BY <3>1
  <2>4. x - 1 \in 0 .. Len(v) /\ x - 1 \notin T
    BY <2>2, <2>3
  <2>5. PICK g : SumsUpTo(v, g, x - 1)
    BY <2>4
  <2> DEFINE h == [k \in 0 .. x |-> IF k = x THEN g[x - 1] + v[x] ELSE g[k]]
  <2>6. x \in 1 .. Len(v) /\ v[x] \in Int
    BY <2>2, <2>3
  <2>7. SumsUpTo(v, h, x)
    <3>1. h \in [0 .. x -> Int]
      BY <2>5, <2>6 DEF SumsUpTo
    <3>2. ASSUME NEW k \in 0 .. x
          PROVE  h[k] = IF k = 0 THEN 0 ELSE h[k - 1] + v[k]
      BY <2>5, <2>6, <3>2 DEF SumsUpTo
    <3> QED
      BY <3>1, <3>2 DEF SumsUpTo
  <2> QED
    BY <2>2, <2>7
<1> QED
  BY <1>1, <1>2

\* Sums is what its definition says.
LEMMA SumsRecur ==
    ASSUME NEW v \in Seq(Int)
    PROVE  \A k \in 0 .. Len(v) :
             Desk!Sums(v)[k] = IF k = 0 THEN 0 ELSE Desk!Sums(v)[k - 1] + v[k]
<1> DEFINE s == CHOOSE f : f = [n \in 0 .. Len(v) |-> IF n = 0 THEN 0 ELSE f[n - 1] + v[n]]
<1>1. Desk!Sums(v) = s
  BY DEF Desk!Sums
<1>2. PICK g : SumsUpTo(v, g, Len(v))
  BY SumsExist
<1>3. g = [n \in 0 .. Len(v) |-> IF n = 0 THEN 0 ELSE g[n - 1] + v[n]]
  BY <1>2 DEF SumsUpTo
<1>4. s = [n \in 0 .. Len(v) |-> IF n = 0 THEN 0 ELSE s[n - 1] + v[n]]
  BY <1>3
<1> HIDE DEF s
<1> QED
  BY <1>1, <1>4

\* Arithmetic of a sum's next beginning.
LEMMA Adding ==
    /\ \A i, j \in Int : i + j \in Int
    /\ \A i, j, k \in Int : i + (j + k) = (i + j) + k /\ (i + j) + k = (i + k) + j
    /\ \A i, j, k, l \in Nat :
         i <= k /\ j <= l => i + j \in Nat /\ k + l \in Nat /\ i + j <= k + l
OBVIOUS

\* A sum of integers is one, a sum of naturals is one, and it grows with them.
LEMMA SumTypes ==
    ASSUME NEW v \in Seq(Int)
    PROVE  Desk!Sum(v) \in Int
<1> DEFINE T == {n \in 0 .. Len(v) : Desk!Sums(v)[n] \notin Int}
<1>1. CASE T = {}
  BY <1>1 DEF Desk!Sum
<1>2. CASE T # {}
  <2>1. T \subseteq Nat
    OBVIOUS
  <2>2. PICK x \in T : \A y \in T : x <= y
    BY <1>2, <2>1, LeastNat
  <2>3. x # 0
    BY SumsRecur
  <2>4. x - 1 \in 0 .. Len(v) /\ x - 1 \notin T /\ v[x] \in Int
    BY <2>2, <2>3
  <2> QED
    BY <2>3, <2>4, SumsRecur
<1> QED
  BY <1>1, <1>2

LEMMA SumGrows ==
    ASSUME NEW v \in Seq(Nat), NEW w \in Seq(Nat), Len(v) = Len(w),
           \A n \in 1 .. Len(v) : v[n] <= w[n]
    PROVE  Desk!Sum(v) \in Nat /\ Desk!Sum(w) \in Nat /\ Desk!Sum(v) <= Desk!Sum(w)
<1>1. v \in Seq(Int) /\ w \in Seq(Int)
  OBVIOUS
<1> DEFINE a == Desk!Sums(v)
           b == Desk!Sums(w)
           T == {n \in 0 .. Len(v) : ~(a[n] \in Nat /\ b[n] \in Nat /\ a[n] <= b[n])}
<1>2. \A k \in 0 .. Len(v) : /\ a[k] = IF k = 0 THEN 0 ELSE a[k - 1] + v[k]
                             /\ b[k] = IF k = 0 THEN 0 ELSE b[k - 1] + w[k]
  BY <1>1, SumsRecur
<1> HIDE DEF a, b
<1>3. CASE T = {}
  BY <1>3 DEF Desk!Sum, a, b
<1>4. CASE T # {}
  <2>1. T \subseteq Nat
    OBVIOUS
  <2>2. PICK x \in T : \A y \in T : x <= y
    BY <1>4, <2>1, LeastNat
  <2>3. x # 0
    BY <1>2
  <2>4. x - 1 \in 0 .. Len(v) /\ x - 1 \notin T /\ x \in 1 .. Len(v)
    BY <2>2, <2>3
  <2>5. v[x] \in Nat /\ w[x] \in Nat /\ v[x] <= w[x]
    BY <2>4
  <2>6. a[x] = a[x - 1] + v[x] /\ b[x] = b[x - 1] + w[x]
    BY <1>2, <2>3, <2>4
  <2>7. a[x - 1] \in Nat /\ b[x - 1] \in Nat /\ a[x - 1] <= b[x - 1]
    BY <2>4
  <2>8. a[x] \in Nat /\ b[x] \in Nat /\ a[x] <= b[x]
    <3> HIDE DEF T
    <3>1. /\ a[x - 1] + v[x] \in Nat /\ b[x - 1] + w[x] \in Nat
          /\ a[x - 1] + v[x] <= b[x - 1] + w[x]
      BY <2>5, <2>7, Adding, Zenon
    <3> QED
      BY <2>6, <3>1, Zenon
  <2> QED
    BY <2>2, <2>8
<1> QED
  BY <1>3, <1>4

\* A sum with a term more is greater by that term.
LEMMA SumWithOneMore ==
    ASSUME NEW v \in Seq(Int), NEW w \in Seq(Int), Len(w) = Len(v) + 1,
           \A n \in 1 .. Len(v) : w[n] = v[n]
    PROVE  Desk!Sum(w) = Desk!Sum(v) + w[Len(w)]
<1> DEFINE a == Desk!Sums(v)
           b == Desk!Sums(w)
           T == {n \in 0 .. Len(v) : ~(a[n] \in Int /\ b[n] = a[n])}
<1>1. /\ \A k \in 0 .. Len(v) : a[k] = IF k = 0 THEN 0 ELSE a[k - 1] + v[k]
      /\ \A k \in 0 .. Len(w) : b[k] = IF k = 0 THEN 0 ELSE b[k - 1] + w[k]
  BY SumsRecur
<1> HIDE DEF a, b
<1>2. CASE T = {}
  <2>1. Len(v) \in 0 .. Len(v) /\ Len(w) \in 0 .. Len(w) /\ Len(w) # 0 /\ Len(w) - 1 = Len(v)
    OBVIOUS
  <2>2. a[Len(v)] \in Int /\ b[Len(v)] = a[Len(v)]
    BY <1>2, <2>1
  <2>3. b[Len(w)] = b[Len(v)] + w[Len(w)]
    BY <1>1, <2>1
  <2> QED
    BY <2>2, <2>3 DEF Desk!Sum, a, b
<1>3. CASE T # {}
  <2>1. T \subseteq Nat
    OBVIOUS
  <2>2. PICK x \in T : \A y \in T : x <= y
    BY <1>3, <2>1, LeastNat
  <2>3. x # 0
    BY <1>1
  <2>4. x - 1 \in 0 .. Len(v) /\ x - 1 \notin T /\ x \in 1 .. Len(v) /\ x \in 0 .. Len(w)
    BY <2>2, <2>3
  <2>5. v[x] \in Int /\ w[x] = v[x]
    BY <2>4
  <2>6. a[x] = a[x - 1] + v[x] /\ b[x] = b[x - 1] + w[x]
    BY <1>1, <2>3, <2>4
  <2> QED
    BY <2>2, <2>4, <2>5, <2>6
<1> QED
  BY <1>2, <1>3

---------------------------------------------------------------------------
(* The numbers of a decision                                                *)

LEMMA RuleFacts ==
    /\ Version \subseteq {0, 1}
    /\ \A q \in Quotes : q.ask \in Nat /\ q.bid \in Nat /\ q.firm \in Nat
    /\ \A f \in Fairs \cup {0} : f \in Nat
    /\ Share \in Nat /\ Share > 0 /\ Lefts \subseteq Nat
    /\ {Rate, MinEdge, MaxSpread, SpreadPct, Base, Scale, HeatCap, Cooldown, MinNotional,
        MaxTicks} \subseteq Nat
BY RulesAssumption

LEMMA Products == \A a, b \in Nat : a * b \in Nat
OBVIOUS

LEMMA Quotients ==
    /\ \A a, c \in Nat : c > 0 => a \div c \in Nat
    /\ \A a \in Int, c \in Nat : c > 0 => a \div c \in Int
    /\ \A a, b, c \in Nat : a <= b /\ c > 0 => a \div c <= b \div c
OBVIOUS

\* What a quotient multiplies back to, and what a quotient is multiplied by.
LEMMA Multiples ==
    /\ \A a, b, c \in Nat : c > 0 /\ b <= a \div c => b * c <= a
    /\ \A a, c \in Nat : c > 0 => c * (a \div c) <= a
OBVIOUS

LEMMA EdgeType ==
    ASSUME NEW fair \in Nat, NEW s, NEW ask \in Nat, NEW known \in BOOLEAN
    PROVE  Desk!Edge(fair, s, ask, known) \in Int
<1>1. Desk!FeePerShare(known, ask) \in Int
  <2>1. Rate * ask * (100 - ask) \in Int
    BY RuleFacts
  <2> QED
    BY <2>1 DEF Desk!FeePerShare
<1> QED
  BY <1>1 DEF Desk!Edge

\* An order scaled up fits under the cap as the exposure was read.
LEMMA ScaledFits ==
    ASSUME NEW edge \in Int, NEW cost \in Nat
    PROVE  /\ Desk!Scaled(edge, cost) \in Nat
           /\ HeatCap > 0 =>
                Desk!Scaled(edge, cost) = Base \/ cost + Desk!Scaled(edge, cost) <= HeatCap
<1>1. Base \in Nat /\ HeatCap \in Nat /\ Base * Scale \in Int
  BY RuleFacts
<1>2. Desk!Wanted(edge) \in Nat
  <2>1. MinEdge # 0 => (Base * edge) \div MinEdge \in Int
    <3>1. Base * edge \in Int
      BY <1>1
    <3> QED
      BY <3>1, RuleFacts, Quotients
  <2> QED
    BY <1>1, <2>1 DEF Desk!Wanted, Desk!Larger, Desk!Smaller
<1> QED
  BY <1>1, <1>2 DEF Desk!Scaled, Desk!Larger, Desk!Smaller

\* A position costs less when some of it is gone.
LEMMA CostFalls ==
    ASSUME NEW r \in Desk!Row, NEW s \in Desk!Row, s.price = r.price, s.qty <= r.qty,
           Desk!IsOpen(s) => Desk!IsOpen(r)
    PROVE  Desk!Cost(r) \in Nat /\ Desk!Cost(s) \in Nat /\ Desk!Cost(s) <= Desk!Cost(r)
<1>1. r.qty \in Nat /\ s.qty \in Nat /\ r.price \in Nat
  BY DEF Desk!Row
<1>2. s.qty * r.price <= r.qty * r.price /\ s.qty * r.price \in Nat /\ r.qty * r.price \in Nat
  BY <1>1
<1>3. /\ (s.qty * r.price) \div Share <= (r.qty * r.price) \div Share
      /\ (s.qty * r.price) \div Share \in Nat /\ (r.qty * r.price) \div Share \in Nat
  BY <1>2, RuleFacts, Quotients
<1> QED
  BY <1>3 DEF Desk!Cost

---------------------------------------------------------------------------
(* The steps                                                                *)

\* What leaves the position table alone.
Table == <<version, row, clock, tally>>

\* A position is closed now, or cut down and left open.
Shrinks(n) ==
    /\ n \in DOMAIN row /\ Desk!IsOpen(row[n])
    /\ row' \in Seq(Desk!Row) /\ Len(row') = Len(row)
    /\ \A k \in DOMAIN row : k # n => row'[k] = row[k]
    /\ row'[n].market = row[n].market /\ row'[n].side = row[n].side
    /\ row'[n].opened = row[n].opened /\ row'[n].judged = row[n].judged
    /\ row'[n].price = row[n].price
    /\ \/ /\ ~Desk!IsOpen(row'[n]) /\ row'[n].closed = clock /\ clock' = clock + 1
          /\ row'[n].qty = row[n].qty
          /\ tally' = [streak |-> IF row'[n].pnl < 0 THEN tally.streak + 1
                                  ELSE IF row'[n].how = "reconciled" THEN tally.streak ELSE 0,
                       cum |-> tally.cum + row'[n].pnl,
                       peak |-> Desk!Larger(tally.peak, tally.cum + row'[n].pnl)]
       \/ /\ Desk!IsOpen(row'[n]) /\ clock' = clock /\ tally' = tally
          /\ row'[n].qty <= row[n].qty
    /\ UNCHANGED <<version, dec>>

LEMMA CloseShrinks ==
    ASSUME Desk!TypeOK, NEW n \in Desk!OpenRows, NEW how \in {"sold", "reconciled"},
           NEW gain \in Int, Desk!Closes(n, how, gain)
    PROVE  Shrinks(n) /\ Desk!TypeOK'
<1>1. n \in DOMAIN row /\ row[n] \in Desk!Row /\ Desk!IsOpen(row[n])
  BY DEF Desk!OpenRows, Desk!TypeOK
<1> DEFINE pnl == row[n].pnl + gain
           r == [row[n] EXCEPT !.how = how, !.closed = clock, !.pnl = pnl]
<1>2. pnl \in Int /\ clock \in Nat
  BY <1>1 DEF Desk!Row, Desk!TypeOK
<1>3. r \in Desk!Row /\ r.how = how /\ r.closed = clock /\ r.pnl = pnl
  BY <1>1, <1>2 DEF Desk!Row
<1>4. /\ r.market = row[n].market /\ r.side = row[n].side /\ r.opened = row[n].opened
      /\ r.judged = row[n].judged /\ r.price = row[n].price /\ r.qty = row[n].qty
  BY <1>1 DEF Desk!Row
<1>5. row' = [row EXCEPT ![n] = r]
  BY <1>1 DEF Desk!Closes
<1> HIDE DEF r
<1>6. row' \in Seq(Desk!Row) /\ Len(row') = Len(row) /\ row'[n] = r
      /\ \A k \in DOMAIN row : k # n => row'[k] = row[k]
  BY <1>1, <1>3, <1>5 DEF Desk!TypeOK
<1>7. tally' \in [streak: Nat, cum: Int, peak: Int] /\ tally'.peak >= tally'.cum
  <2>1. tally.streak \in Nat /\ tally.cum \in Int /\ tally.peak \in Int
    BY DEF Desk!TypeOK
  <2>2. Desk!Larger(tally.peak, tally.cum + pnl) \in Int
        /\ Desk!Larger(tally.peak, tally.cum + pnl) >= tally.cum + pnl
    BY <1>2, <2>1 DEF Desk!Larger
  <2> QED
    BY <1>2, <2>1, <2>2 DEF Desk!Closes
<1>8. Shrinks(n)
  BY <1>1, <1>3, <1>4, <1>6 DEF Shrinks, Desk!Closes, Desk!IsOpen
<1>9. clock' \in Nat /\ version' = version /\ dec' = dec
  BY <1>2 DEF Desk!Closes
<1> QED
  BY <1>6, <1>7, <1>8, <1>9 DEF Desk!TypeOK

LEMMA PartShrinks ==
    ASSUME Desk!TypeOK, NEW n \in Desk!OpenRows, NEW bid \in Nat, NEW left \in Nat,
           Desk!SellsPart(n, bid, left)
    PROVE  Shrinks(n) /\ Desk!TypeOK'
<1>1. n \in DOMAIN row /\ row[n] \in Desk!Row /\ Desk!IsOpen(row[n])
  BY DEF Desk!OpenRows, Desk!TypeOK
<1> DEFINE pnl == row[n].pnl + (row[n].qty - left) * (bid - row[n].price)
           r == [row[n] EXCEPT !.qty = left, !.pnl = pnl]
<1>2. pnl \in Int /\ left <= row[n].qty
  BY <1>1 DEF Desk!Row, Desk!SellsPart
<1>3. r \in Desk!Row /\ r.how = row[n].how /\ r.qty = left
  BY <1>1, <1>2 DEF Desk!Row
<1>4. /\ r.market = row[n].market /\ r.side = row[n].side /\ r.opened = row[n].opened
      /\ r.judged = row[n].judged /\ r.price = row[n].price
  BY <1>1 DEF Desk!Row
<1>5. row' = [row EXCEPT ![n] = r]
  BY <1>1 DEF Desk!SellsPart
<1> HIDE DEF r
<1>6. row' \in Seq(Desk!Row) /\ Len(row') = Len(row) /\ row'[n] = r
      /\ \A k \in DOMAIN row : k # n => row'[k] = row[k]
  BY <1>1, <1>3, <1>5 DEF Desk!TypeOK
<1>7. Desk!IsOpen(row'[n]) /\ row'[n].qty <= row[n].qty
  BY <1>1, <1>2, <1>3, <1>6 DEF Desk!IsOpen
<1>8. UNCHANGED <<version, dec, clock, tally>>
  BY DEF Desk!SellsPart
<1>9. Shrinks(n)
  BY <1>1, <1>4, <1>6, <1>7, <1>8 DEF Shrinks
<1> QED
  BY <1>6, <1>8, <1>9 DEF Desk!TypeOK

\* A decision is made, read on, or given up.
LEMMA ChoiceEffect ==
    ASSUME Desk!TypeOK, NEW m \in Markets, NEW fair \in Fairs, Desk!Choose(m, fair)
    PROVE  /\ Desk!TypeOK' /\ UNCHANGED Table
           /\ dec.pc = "idle" /\ dec'.pc = "opens"
<1>1. ASSUME Desk!ChooseByModel(m, fair)
      PROVE  dec' \in Desk!Verdict /\ dec'.pc = "opens" /\ dec'.market = m
  <2>1. PICK s \in Desk!Side :
          dec' = [Desk!NoDecision EXCEPT !.pc = "opens", !.market = m, !.side = s, !.fair = fair]
    BY <1>1 DEF Desk!ChooseByModel, Desk!Side
  <2>2. dec' \in Desk!Verdict /\ dec'.pc = "opens" /\ dec'.market = m
    BY <2>1 DEF Desk!NoDecision, Desk!Verdict, Desk!Pc
  <2> QED
    BY <2>2
<1>2. ASSUME Desk!ChooseByEdge(m, fair)
      PROVE  dec' \in Desk!Verdict /\ dec'.pc = "opens" /\ dec'.market = m
  <2>1. PICK q \in [Desk!Side -> Quotes], s \in Desk!Side :
          dec' = [Desk!NoDecision EXCEPT !.pc = "opens", !.market = m, !.side = s,
                    !.fair = fair, !.ask = q[s].ask, !.bid = Desk!QuoteBid(q[s])]
    <3>1. PICK q \in [Desk!Side -> Quotes], fresh \in SUBSET Desk!Side :
            \E s \in Desk!Sides \cap fresh :
              dec' = [Desk!NoDecision EXCEPT !.pc = "opens", !.market = m, !.side = s,
                        !.fair = fair, !.ask = q[s].ask, !.bid = Desk!QuoteBid(q[s])]
      BY <1>2, ZenonT(40) DEF Desk!ChooseByEdge
    <3>2. PICK s \in Desk!Sides \cap fresh :
            dec' = [Desk!NoDecision EXCEPT !.pc = "opens", !.market = m, !.side = s,
                      !.fair = fair, !.ask = q[s].ask, !.bid = Desk!QuoteBid(q[s])]
      BY <3>1
    <3>3. s \in Desk!Side
      BY <3>2
    <3> QED
      BY <3>2, <3>3
  <2>2. q[s] \in Quotes
    BY <2>1
  <2>3. q[s].ask \in Nat /\ Desk!QuoteBid(q[s]) \in Nat
    BY <2>2, RuleFacts DEF Desk!QuoteBid
  <2> QED
    BY <2>1, <2>3 DEF Desk!NoDecision, Desk!Verdict, Desk!Pc
<1>3. UNCHANGED Table
  BY DEF Table, Desk!Choose
<1>4. dec' \in Desk!Verdict /\ dec'.pc = "opens" /\ dec'.market = m /\ dec.pc = "idle"
  BY <1>1, <1>2 DEF Desk!Choose
<1> QED
  BY <1>3, <1>4 DEF Desk!TypeOK, Table

\* The decision is given up.
LEMMA SkipTypes == Desk!NoDecision \in Desk!Verdict /\ Desk!NoDecision.pc = "idle"
BY DEF Desk!NoDecision, Desk!Verdict, Desk!Pc, Desk!Side

\* The exposure is a natural number, and no greater once a position shrinks.
LEMMA OpenCostType == ASSUME Desk!TypeOK PROVE Desk!OpenCost \in Nat
<1> DEFINE v == [n \in DOMAIN row |-> Desk!Cost(row[n])]
<1>1. v \in Seq(Nat)
  <2>1. \A n \in DOMAIN row : Desk!Cost(row[n]) \in Nat
    <3> SUFFICES ASSUME NEW n \in DOMAIN row PROVE Desk!Cost(row[n]) \in Nat
      OBVIOUS
    <3>1. row[n] \in Desk!Row
      BY DEF Desk!TypeOK
    <3>2. row[n].qty <= row[n].qty
      BY <3>1 DEF Desk!Row
    <3> QED
      BY <3>1, <3>2, CostFalls
  <2>2. DOMAIN row = 1 .. Len(row) /\ Len(row) \in Nat
    BY DEF Desk!TypeOK
  <2> QED
    BY <2>1, <2>2
<1>2. Desk!Sum(v) \in Nat
  <2> HIDE DEF v
  <2>1. \A n \in 1 .. Len(v) : v[n] <= v[n]
    BY <1>1
  <2> QED
    BY <1>1, <2>1, SumGrows
<1> QED
  BY <1>2 DEF Desk!OpenCost

LEMMA OpenCostFalls ==
    ASSUME Desk!TypeOK, NEW n, Shrinks(n)
    PROVE  Desk!OpenCost \in Nat /\ Desk!OpenCost' \in Nat /\ Desk!OpenCost' <= Desk!OpenCost
<1> DEFINE v == [k \in DOMAIN row |-> Desk!Cost(row[k])]
           w == [k \in DOMAIN row' |-> Desk!Cost(row'[k])]
<1>1. ASSUME NEW k \in DOMAIN row
      PROVE  /\ k \in DOMAIN row'
             /\ Desk!Cost(row[k]) \in Nat /\ Desk!Cost(row'[k]) \in Nat
             /\ Desk!Cost(row'[k]) <= Desk!Cost(row[k])
  <2>1. k \in DOMAIN row' /\ row[k] \in Desk!Row /\ row'[k] \in Desk!Row
    BY DEF Desk!TypeOK, Shrinks
  <2>2. /\ row'[k].price = row[k].price /\ row'[k].qty <= row[k].qty
        /\ Desk!IsOpen(row'[k]) => Desk!IsOpen(row[k])
    <3>1. CASE k = n
      BY <2>1, <3>1 DEF Shrinks, Desk!Row
    <3>2. CASE k # n
      <4>1. row'[k] = row[k] /\ row[k].qty <= row[k].qty
        BY <2>1, <3>2 DEF Shrinks, Desk!Row
      <4> QED
        BY <4>1
    <3> QED
      BY <3>1, <3>2
  <2> QED
    BY <2>1, <2>2, CostFalls
<1>2. DOMAIN row = 1 .. Len(row) /\ DOMAIN row' = DOMAIN row /\ Len(row) \in Nat
  BY DEF Shrinks, Desk!TypeOK
<1>3. v \in Seq(Nat) /\ w \in Seq(Nat) /\ Len(v) = Len(row) /\ Len(w) = Len(row)
  BY <1>1, <1>2
<1>4. \A k \in 1 .. Len(w) : w[k] <= v[k]
  BY <1>1, <1>2, <1>3
<1>5. Desk!OpenCost = Desk!Sum(v) /\ Desk!OpenCost' = Desk!Sum(w)
  BY DEF Desk!OpenCost
<1> HIDE DEF v, w
<1> QED
  BY <1>3, <1>4, <1>5, SumGrows

LEMMA ReadsOpensEffect ==
    ASSUME Desk!TypeOK, Desk!ReadsOpens
    PROVE  /\ Desk!TypeOK' /\ UNCHANGED Table
           /\ dec.pc = "opens"
           /\ \/ dec'.pc = "idle"
              \/ /\ dec'.pc = "history" /\ dec'.cost = Desk!OpenCost
                 /\ dec'.market = dec.market
                 /\ \A n \in Desk!OpenRows :
                      row[n].market = dec.market /\ ~Desk!IsDust(row[n]) =>
                        row[n].side \in dec'.held
<1> DEFINE sides == {row[n].side : n \in {k \in Desk!OpenRows : row[k].market = dec.market
                                                                  /\ ~Desk!IsDust(row[k])}}
<1>1. sides \subseteq Desk!Side /\ Desk!OpenCost \in Nat
  <2>1. \A n \in Desk!OpenRows : row[n] \in Desk!Row
    BY DEF Desk!OpenRows, Desk!TypeOK
  <2>2. \A n \in Desk!OpenRows : row[n].side \in Desk!Side
    BY <2>1 DEF Desk!Row
  <2> QED
    BY <2>2, OpenCostType
<1>2. \A n \in Desk!OpenRows :
        row[n].market = dec.market /\ ~Desk!IsDust(row[n]) => row[n].side \in sides
  OBVIOUS
<1>3. \/ dec' = Desk!NoDecision
      \/ dec' = [dec EXCEPT !.pc = "history", !.cost = Desk!OpenCost, !.held = sides]
  BY DEF Desk!ReadsOpens, Desk!Goes, Desk!Skips
<1>4. UNCHANGED Table /\ dec.pc = "opens"
  BY DEF Desk!ReadsOpens, Desk!Goes, Desk!Skips, Table
<1> HIDE DEF sides
<1>5. CASE dec' = Desk!NoDecision
  BY <1>4, <1>5, SkipTypes DEF Desk!TypeOK, Table
<1>6. CASE dec' = [dec EXCEPT !.pc = "history", !.cost = Desk!OpenCost, !.held = sides]
  <2>1. dec \in Desk!Verdict
    BY DEF Desk!TypeOK
  <2>2. dec' \in Desk!Verdict /\ dec'.pc = "history" /\ dec'.cost = Desk!OpenCost
        /\ dec'.held = sides /\ dec'.market = dec.market
    BY <1>1, <1>6, <2>1 DEF Desk!Verdict, Desk!Pc
  <2> QED
    BY <1>2, <1>4, <2>2 DEF Desk!TypeOK, Table
<1> QED
  BY <1>3, <1>5, <1>6

LEMMA ReadsHistoryEffect ==
    ASSUME Desk!TypeOK, Desk!ReadsHistory
    PROVE  /\ Desk!TypeOK' /\ UNCHANGED Table
           /\ dec.pc = "history"
           /\ \/ dec'.pc = "idle"
              \/ /\ dec'.pc = "price" /\ dec'.at = clock
                 /\ dec'.market = dec.market /\ dec'.side = dec.side
                 /\ dec'.held = dec.held /\ dec'.cost = dec.cost
                 /\ ~Desk!Killed /\ ~Desk!Opposed
                 /\ Lockout => Desk!OnSide = {}
                 /\ ~Lockout /\ Cooldown > 0 => ~Desk!Hot
<1>1. UNCHANGED Table /\ dec.pc = "history"
  BY DEF Desk!ReadsHistory, Desk!Goes, Desk!Skips, Table
<1>2. CASE dec' = Desk!NoDecision
  BY <1>1, <1>2, SkipTypes DEF Desk!TypeOK, Table
<1>3. CASE dec' # Desk!NoDecision
  <2>1. /\ dec' = [dec EXCEPT !.pc = "price", !.at = clock]
        /\ ~Desk!Killed /\ ~Desk!Opposed
        /\ Lockout => Desk!OnSide = {}
        /\ ~Lockout /\ Cooldown > 0 => ~Desk!Hot
    BY <1>3 DEF Desk!ReadsHistory, Desk!Goes, Desk!Skips
  <2>2. dec \in Desk!Verdict /\ clock \in Nat
    BY DEF Desk!TypeOK
  <2>3. /\ dec' \in Desk!Verdict /\ dec'.pc = "price" /\ dec'.at = clock
        /\ dec'.market = dec.market /\ dec'.side = dec.side
        /\ dec'.held = dec.held /\ dec'.cost = dec.cost
    BY <2>1, <2>2 DEF Desk!Verdict, Desk!Pc
  <2> QED
    BY <1>1, <2>1, <2>3 DEF Desk!TypeOK, Table
<1> QED
  BY <1>2, <1>3

LEMMA PricesEffect ==
    ASSUME Desk!TypeOK, Desk!Prices
    PROVE  /\ Desk!TypeOK' /\ UNCHANGED Table
           /\ dec.pc = "price"
           /\ \/ dec'.pc = "idle"
              \/ /\ dec'.pc = "fill" /\ dec'.ask > 0 /\ dec'.at = dec.at
                 /\ dec'.market = dec.market /\ dec'.side = dec.side
                 /\ dec'.held = dec.held
                 /\ HeatCap > 0 =>
                      dec'.notional = Base \/ dec.cost + dec'.notional <= HeatCap
<1>1. UNCHANGED Table /\ dec.pc = "price" /\ dec \in Desk!Verdict
  BY DEF Desk!Prices, Desk!Goes, Desk!Skips, Table, Desk!TypeOK
<1>2. CASE dec' = Desk!NoDecision
  BY <1>1, <1>2, SkipTypes DEF Desk!TypeOK, Table
<1>3. CASE dec' # Desk!NoDecision
  <2>1. PICK q \in (IF version = 1 THEN {[ask |-> dec.ask, bid |-> dec.bid]}
                    ELSE {[ask |-> b.ask, bid |-> b.bid] : b \in Quotes}),
             known \in BOOLEAN :
          /\ q.ask > 0
          /\ dec' = [dec EXCEPT !.pc = "fill", !.ask = q.ask, !.bid = q.bid,
                       !.notional =
                         Desk!Scaled(Desk!Edge(dec.fair, dec.side, q.ask, known), dec.cost)]
    BY <1>3 DEF Desk!Prices, Desk!Goes, Desk!Skips
  <2>2. /\ dec.ask \in Nat /\ dec.bid \in Nat /\ dec.cost \in Nat
        /\ dec.fair \in Fairs \cup {0}
    BY <1>1 DEF Desk!Verdict
  <2>3. q.ask \in Nat /\ q.bid \in Nat /\ dec.fair \in Nat
    BY <2>1, <2>2, RuleFacts
  <2> DEFINE edge == Desk!Edge(dec.fair, dec.side, q.ask, known)
             size == Desk!Scaled(edge, dec.cost)
  <2>4. edge \in Int
    BY <2>3, EdgeType
  <2>5. /\ size \in Nat
        /\ HeatCap > 0 => size = Base \/ dec.cost + size <= HeatCap
    BY <2>2, <2>4, ScaledFits
  <2>6. dec' = [dec EXCEPT !.pc = "fill", !.ask = q.ask, !.bid = q.bid, !.notional = size]
    BY <2>1
  <2> HIDE DEF size
  <2>7. /\ dec' \in Desk!Verdict /\ dec'.pc = "fill" /\ dec'.ask = q.ask /\ dec'.at = dec.at
        /\ dec'.market = dec.market /\ dec'.side = dec.side /\ dec'.held = dec.held
        /\ dec'.notional = size
    BY <1>1, <2>3, <2>5, <2>6 DEF Desk!Verdict, Desk!Pc
  <2> QED
    BY <1>1, <2>1, <2>5, <2>7 DEF Desk!TypeOK, Table
<1> QED
  BY <1>2, <1>3

LEMMA FillsEffect ==
    ASSUME Desk!TypeOK, Desk!Fills
    PROVE  /\ Desk!TypeOK'
           /\ dec.pc = "fill" /\ dec'.pc = "idle" /\ UNCHANGED <<version, tally>>
           /\ \/ row' = row /\ clock' = clock
              \/ /\ clock' = clock + 1 /\ ~ \E n \in Desk!OpenRows : n \in Desk!OnSide
                 /\ \E r \in Desk!Row :
                      /\ row' = Append(row, r) /\ Desk!IsOpen(r)
                      /\ r.market = dec.market /\ r.side = dec.side
                      /\ r.opened = clock /\ r.judged = dec.at
                      /\ dec.ask > 0 /\ r.qty * dec.ask <= dec.notional * Share
<1>1. dec.pc = "fill" /\ dec \in Desk!Verdict /\ dec.market \in Markets /\ dec.ask > 0
  BY DEF Desk!Fills, Desk!TypeOK
<1>2. CASE dec' = Desk!NoDecision /\ UNCHANGED Table
  BY <1>1, <1>2, SkipTypes DEF Desk!TypeOK, Table
<1>3. CASE ~(dec' = Desk!NoDecision /\ UNCHANGED Table)
  <2>1. PICK q \in Quotes, depth \in {Share, Base * Scale * Share} :
          LET qty == Desk!Quantized(Desk!Smaller((dec.notional * Share) \div dec.ask, depth))
              r == [market |-> dec.market, side |-> dec.side, qty |-> qty, price |-> q.ask,
                    opened |-> clock, judged |-> dec.at, closed |-> 0, pnl |-> 0,
                    how |-> "open"]
          IN  /\ ~ \E n \in Desk!OpenRows : n \in Desk!OnSide
              /\ row' = Append(row, r)
              /\ clock' = clock + 1
              /\ dec' = Desk!NoDecision
              /\ UNCHANGED <<version, tally>>
    BY <1>3 DEF Desk!Fills, Desk!Goes, Desk!Skips, Table
  <2> DEFINE qty == Desk!Quantized(Desk!Smaller((dec.notional * Share) \div dec.ask, depth))
  <2>2. qty \in Nat /\ qty <= (dec.notional * Share) \div dec.ask
    <3>1. dec.notional \in Nat /\ dec.ask \in Nat /\ Share \in Nat /\ Base \in Nat /\ Scale \in Nat
      BY <1>1, RuleFacts DEF Desk!Verdict
    <3>2. dec.notional * Share \in Nat /\ Base * Scale \in Nat
      BY <3>1, Products
    <3>3. depth \in Nat
      BY <3>1, <3>2, Products
    <3>4. (dec.notional * Share) \div dec.ask \in Nat
      BY <1>1, <3>1, <3>2, Quotients
    <3> QED
      BY <3>3, <3>4 DEF Desk!Quantized, Desk!Smaller
  <2> HIDE DEF qty
  <2>8. qty * dec.ask <= dec.notional * Share
    <3>1. dec.notional \in Nat /\ dec.ask \in Nat /\ Share \in Nat
      BY <1>1, RuleFacts DEF Desk!Verdict
    <3>2. dec.notional * Share \in Nat
      BY <3>1, Products
    <3> QED
      BY <1>1, <2>2, <3>1, <3>2, Multiples
  <2>3. PICK r : r = [market |-> dec.market, side |-> dec.side, qty |-> qty, price |-> q.ask,
                      opened |-> clock, judged |-> dec.at, closed |-> 0, pnl |-> 0,
                      how |-> "open"]
    OBVIOUS
  <2>4. row' = Append(row, r)
    BY <2>1, <2>3 DEF qty
  <2>5. clock \in Nat /\ dec.side \in Desk!Side /\ dec.at \in Nat /\ q.ask \in Nat
    BY <1>1, RuleFacts DEF Desk!TypeOK, Desk!Verdict
  <2>6. /\ r \in Desk!Row /\ Desk!IsOpen(r)
        /\ r.market = dec.market /\ r.side = dec.side /\ r.opened = clock /\ r.judged = dec.at
        /\ r.qty * dec.ask <= dec.notional * Share
    BY <1>1, <2>2, <2>3, <2>5, <2>8 DEF Desk!Row, Desk!IsOpen
  <2>7. row' \in Seq(Desk!Row)
    BY <2>4, <2>6 DEF Desk!TypeOK
  <2> QED
    BY <1>1, <2>1, <2>4, <2>5, <2>6, <2>7, SkipTypes DEF Desk!TypeOK
<1> QED
  BY <1>2, <1>3

\* Every step.
LEMMA DeskSteps ==
    ASSUME Desk!TypeOK, [Desk!Next]_deskVars
    PROVE  \/ \E m \in Markets, fair \in Fairs : Desk!Choose(m, fair)
           \/ Desk!ReadsOpens \/ Desk!ReadsHistory \/ Desk!Prices \/ Desk!Fills
           \/ Desk!TypeOK' /\ \E n : Shrinks(n)
           \/ /\ Desk!TypeOK' /\ UNCHANGED <<version, row, dec, tally>>
              /\ clock' \in {clock, clock + 1}
<1>1. CASE UNCHANGED deskVars
  BY <1>1 DEF deskVars, Desk!TypeOK
<1>2. CASE Desk!Tick
  BY <1>2 DEF Desk!Tick, Desk!TypeOK
<1>3. CASE Desk!Exits
  <2>1. PICK n \in Desk!OpenRows :
          \/ Desk!Closes(n, "reconciled", 0)
          \/ \E q \in Quotes :
               \/ Desk!Sells(n, q.bid)
               \/ \E left \in Lefts : Desk!SellsPart(n, q.bid, left)
    BY <1>3 DEF Desk!Exits
  <2>2. ASSUME Desk!Closes(n, "reconciled", 0)
        PROVE  Desk!TypeOK' /\ Shrinks(n)
    BY <2>2, CloseShrinks
  <2>3. ASSUME NEW q \in Quotes, Desk!Sells(n, q.bid)
        PROVE  Desk!TypeOK' /\ Shrinks(n)
    <3>1. row[n] \in Desk!Row /\ q.bid \in Nat
      BY RuleFacts DEF Desk!OpenRows, Desk!TypeOK
    <3>2. row[n].qty * (q.bid - row[n].price) \in Int
      BY <3>1 DEF Desk!Row
    <3> QED
      BY <2>3, <3>2, CloseShrinks DEF Desk!Sells
  <2>4. ASSUME NEW q \in Quotes, NEW left \in Lefts, Desk!SellsPart(n, q.bid, left)
        PROVE  Desk!TypeOK' /\ Shrinks(n)
    BY <2>4, RuleFacts, PartShrinks
  <2> QED
    BY <2>1, <2>2, <2>3, <2>4
<1>4. CASE Desk!Decision
  BY <1>4 DEF Desk!Decision
<1> QED
  BY <1>1, <1>2, <1>3, <1>4 DEF Desk!Next

LEMMA DeskNext == ASSUME Desk!TypeOK, [Desk!Next]_deskVars PROVE Desk!TypeOK'
BY DeskSteps, ChoiceEffect, ReadsOpensEffect, ReadsHistoryEffect, PricesEffect, FillsEffect

\* The types of the entry rules, their ledger and their decision (edge_threshold_v0
\* and _v1, PaperExecutor).
THEOREM DeskTypes == Desk!Spec => []Desk!TypeOK
<1>1. Desk!Init => Desk!TypeOK
  <2> SUFFICES ASSUME Desk!Init PROVE Desk!TypeOK
    OBVIOUS
  <2>1. row \in Seq(Desk!Row) /\ clock \in Nat
    BY DEF Desk!Init
  <2>2. tally \in [streak: Nat, cum: Int, peak: Int] /\ tally.peak >= tally.cum
    BY DEF Desk!Init
  <2> QED
    BY <2>1, <2>2, SkipTypes DEF Desk!Init, Desk!TypeOK
<1>2. Desk!TypeOK /\ [Desk!Next]_Desk!vars => Desk!TypeOK'
  BY DeskNext DEF deskVars, Desk!vars
<1> QED
  BY <1>1, <1>2, PTL DEF Desk!Spec

---------------------------------------------------------------------------
(* The cooldown                                                             *)

\* What the cooldown counts from, for who reads at: the close, or the open of a
\* position that was not closed yet.
Last(r, at) == IF ~Desk!IsOpen(r) /\ r.closed < at THEN r.closed ELSE r.opened

\* A position was decided on before it was opened, and opened before it was closed.
Timed ==
    /\ \A n \in DOMAIN row :
         /\ row[n].judged <= row[n].opened /\ row[n].opened < clock
         /\ ~Desk!IsOpen(row[n]) => row[n].opened < row[n].closed /\ row[n].closed < clock
    /\ dec.pc \in {"price", "fill"} => dec.at <= clock

\* One side of a market is held by one position after the other.
OneAtATime ==
    \A k \in DOMAIN row : \A i \in 1 .. (k - 1) :
      row[i].market = row[k].market /\ row[i].side = row[k].side =>
        ~Desk!IsOpen(row[i]) /\ row[i].closed < row[k].opened

\* A decision past the history has found its side cool.
Cooled ==
    dec.pc \in {"price", "fill"} =>
      \A n \in Desk!OnSide : dec.at - Last(row[n], dec.at) >= Cooldown

CoolInv == Timed /\ OneAtATime /\ Cooled /\ Desk!CooldownHeld

\* The times of a row, as integers.
LEMMA RowTimes ==
    ASSUME Desk!TypeOK
    PROVE  /\ clock \in Nat /\ dec.at \in Nat
           /\ DOMAIN row = 1 .. Len(row) /\ Len(row) \in Nat
           /\ \A n \in DOMAIN row : /\ row[n].opened \in Nat /\ row[n].closed \in Nat
                                    /\ row[n].judged \in Nat
<1>1. \A n \in DOMAIN row : row[n] \in Desk!Row
  BY DEF Desk!TypeOK
<1>2. \A n \in DOMAIN row : /\ row[n].opened \in Nat /\ row[n].closed \in Nat
                            /\ row[n].judged \in Nat
  BY <1>1 DEF Desk!Row
<1>3. clock \in Nat /\ dec.at \in Nat
  BY DEF Desk!TypeOK, Desk!Verdict
<1> QED
  BY <1>2, <1>3 DEF Desk!TypeOK

LEMMA NewestOnSide ==
    ASSUME Desk!TypeOK, NEW n \in Desk!OnSide
    PROVE  \E m \in Desk!OnSide : n <= m /\ \A k \in Desk!OnSide : k <= m
<1> DEFINE T == {Len(row) - k : k \in Desk!OnSide}
<1>1. Desk!OnSide \subseteq 1 .. Len(row) /\ Len(row) \in Nat
  BY RowTimes DEF Desk!OnSide
<1>2. T \subseteq Nat /\ T # {}
  BY <1>1
<1>3. PICK x \in T : \A y \in T : x <= y
  BY <1>2, LeastNat
<1>4. PICK m \in Desk!OnSide : x = Len(row) - m
  BY <1>3
<1>5. ASSUME NEW k \in Desk!OnSide PROVE k <= m
  <2>1. Len(row) - m <= Len(row) - k
    BY <1>3, <1>4
  <2> QED
    BY <1>1, <2>1
<1> QED
  BY <1>5

\* The newest position of the side decides for those before it.
LEMMA CoolNow ==
    ASSUME Desk!TypeOK, Timed, OneAtATime, ~Lockout /\ Cooldown > 0 => ~Desk!Hot,
           Lockout => Desk!OnSide = {}
    PROVE  \A n \in Desk!OnSide : clock - Last(row[n], clock) >= Cooldown
<1> SUFFICES ASSUME NEW n \in Desk!OnSide
             PROVE  clock - Last(row[n], clock) >= Cooldown
  OBVIOUS
<1>1. PICK m \in Desk!OnSide : n <= m /\ \A k \in Desk!OnSide : k <= m
  BY NewestOnSide
<1>2. /\ m \in DOMAIN row /\ n \in DOMAIN row
      /\ row[m].market = row[n].market /\ row[m].side = row[n].side
  BY DEF Desk!OnSide
<1>3. /\ Cooldown \in Nat /\ clock \in Nat
      /\ row[m].opened \in Nat /\ row[m].closed \in Nat
      /\ row[n].opened \in Nat /\ row[n].closed \in Nat
  BY <1>2, RowTimes, RuleFacts
<1>4. Cooldown > 0 => Desk!Stamp(row[m]) <= clock - Cooldown
  <2>1. Cooldown > 0 => ~Desk!Hot
    OBVIOUS
  <2>2. Cooldown > 0 => ~(Desk!Stamp(row[m]) > clock - Cooldown)
    BY <1>1, <2>1 DEF Desk!Hot
  <2> QED
    BY <1>3, <2>2 DEF Desk!Stamp
<1>5. CASE n = m
  BY <1>2, <1>3, <1>4, <1>5 DEF Last, Timed, Desk!Stamp
<1>6. CASE n # m
  <2>1. n \in 1 .. (m - 1)
    BY <1>1, <1>2, <1>6, RowTimes
  <2>2. ~Desk!IsOpen(row[n]) /\ row[n].closed < row[m].opened
    BY <1>2, <2>1 DEF OneAtATime
  <2>3. /\ row[m].opened < clock /\ row[n].closed < clock
        /\ ~Desk!IsOpen(row[m]) => row[m].opened < row[m].closed
    BY <1>2, <2>2 DEF Timed
  <2>4. Desk!Stamp(row[m]) >= row[m].opened
    BY <1>3, <2>3 DEF Desk!Stamp
  <2>5. Last(row[n], clock) = row[n].closed
    BY <2>2, <2>3 DEF Last
  <2>6. Desk!Stamp(row[m]) \in Nat
    BY <1>3 DEF Desk!Stamp
  <2> QED
    BY <1>3, <1>4, <2>2, <2>3, <2>4, <2>5, <2>6
<1> QED
  BY <1>5, <1>6

\* A step that leaves the table as it was.
LEMMA CoolRests ==
    ASSUME Desk!TypeOK, CoolInv, row' = row, clock' \in {clock, clock + 1},
           \/ dec'.pc \notin {"price", "fill"}
           \/ /\ dec.pc \in {"price", "fill"} /\ dec'.at = dec.at
              /\ dec'.market = dec.market /\ dec'.side = dec.side
    PROVE  CoolInv'
<1>1. Timed' /\ OneAtATime' /\ Desk!CooldownHeld'
  <2>1. Timed'
    BY RowTimes DEF CoolInv, Timed
  <2> QED
    BY <2>1 DEF CoolInv, OneAtATime, Desk!CooldownHeld
<1>2. Cooled'
  BY DEF CoolInv, Cooled, Desk!OnSide
<1> QED
  BY <1>1, <1>2 DEF CoolInv

LEMMA CoolShrinks ==
    ASSUME Desk!TypeOK, Desk!TypeOK', CoolInv, NEW n, Shrinks(n)
    PROVE  CoolInv'
<1>1. DOMAIN row' = DOMAIN row /\ dec' = dec /\ clock' \in {clock, clock + 1}
  BY DEF Shrinks, Desk!TypeOK
<1>2. ASSUME NEW k \in DOMAIN row
      PROVE  /\ row'[k].market = row[k].market /\ row'[k].side = row[k].side
             /\ row'[k].opened = row[k].opened /\ row'[k].judged = row[k].judged
             /\ ~Desk!IsOpen(row[k]) => row'[k] = row[k]
             /\ Desk!IsOpen(row[k]) /\ ~Desk!IsOpen(row'[k]) =>
                  row'[k].closed = clock /\ clock' = clock + 1
  BY <1>2 DEF Shrinks
<1>3. ASSUME NEW k \in DOMAIN row, NEW at \in Nat, at <= clock
      PROVE  Last(row'[k], at) = Last(row[k], at)
  BY <1>2, <1>3, RowTimes DEF Last
<1>4. Timed'
  <2> SUFFICES ASSUME NEW k \in DOMAIN row
               PROVE  /\ row'[k].judged <= row'[k].opened /\ row'[k].opened < clock'
                      /\ ~Desk!IsOpen(row'[k]) =>
                           row'[k].opened < row'[k].closed /\ row'[k].closed < clock'
    BY <1>1, RowTimes DEF CoolInv, Timed
  <2> QED
    BY <1>1, <1>2, RowTimes DEF CoolInv, Timed
<1>5. OneAtATime'
  <2> SUFFICES ASSUME NEW k \in DOMAIN row, NEW i \in 1 .. (k - 1),
                      row'[i].market = row'[k].market, row'[i].side = row'[k].side
               PROVE  ~Desk!IsOpen(row'[i]) /\ row'[i].closed < row'[k].opened
    BY <1>1 DEF OneAtATime
  <2>1. i \in DOMAIN row
    BY RowTimes
  <2>2. ~Desk!IsOpen(row[i]) /\ row[i].closed < row[k].opened
    BY <1>2, <2>1 DEF CoolInv, OneAtATime
  <2> QED
    BY <1>2, <2>1, <2>2
<1>6. Cooled'
  <2> SUFFICES ASSUME dec.pc \in {"price", "fill"}, NEW k \in Desk!OnSide'
               PROVE  dec.at - Last(row'[k], dec.at) >= Cooldown
    BY <1>1 DEF Cooled
  <2>1. k \in Desk!OnSide /\ k \in DOMAIN row
    BY <1>1, <1>2 DEF Desk!OnSide
  <2> QED
    BY <1>3, <2>1, RowTimes DEF CoolInv, Timed, Cooled
<1>7. Desk!CooldownHeld'
  <2> SUFFICES ASSUME NEW k \in DOMAIN row, NEW i \in 1 .. (k - 1),
                      row'[i].market = row'[k].market, row'[i].side = row'[k].side
               PROVE  row'[k].judged - Last(row'[i], row'[k].judged) >= Cooldown
    BY <1>1 DEF Desk!CooldownHeld, Last
  <2>1. i \in DOMAIN row
    BY RowTimes
  <2>2. row[k].judged \in Nat /\ row[k].judged <= clock /\ row'[k].judged = row[k].judged
    BY <1>2, RowTimes DEF CoolInv, Timed
  <2>3. row[k].judged - Last(row[i], row[k].judged) >= Cooldown
    BY <1>2, <2>1 DEF CoolInv, Desk!CooldownHeld, Last
  <2> QED
    BY <1>3, <2>1, <2>2, <2>3
<1> QED
  BY <1>4, <1>5, <1>6, <1>7 DEF CoolInv

\* A position opens on a side that has none open and was cool when it was read.
LEMMA CoolOpens ==
    ASSUME Desk!TypeOK, CoolInv, dec.pc = "fill", dec'.pc = "idle", clock' = clock + 1,
           ~ \E n \in Desk!OpenRows : n \in Desk!OnSide,
           NEW r \in Desk!Row, row' = Append(row, r), Desk!IsOpen(r),
           r.market = dec.market, r.side = dec.side, r.opened = clock, r.judged = dec.at
    PROVE  CoolInv'
<1>1. /\ DOMAIN row' = DOMAIN row \cup {Len(row) + 1}
      /\ Len(row) + 1 \notin DOMAIN row
      /\ row'[Len(row) + 1] = r
      /\ \A k \in DOMAIN row : row'[k] = row[k]
  BY RowTimes DEF Desk!TypeOK
<1>2. ASSUME NEW i \in DOMAIN row, row[i].market = r.market, row[i].side = r.side
      PROVE  i \in Desk!OnSide /\ ~Desk!IsOpen(row[i])
  BY <1>2 DEF Desk!OnSide, Desk!OpenRows
<1>3. Timed'
  BY <1>1, RowTimes DEF CoolInv, Timed
<1>4. OneAtATime'
  <2> SUFFICES ASSUME NEW k \in DOMAIN row', NEW i \in 1 .. (k - 1),
                      row'[i].market = row'[k].market, row'[i].side = row'[k].side
               PROVE  ~Desk!IsOpen(row'[i]) /\ row'[i].closed < row'[k].opened
    BY DEF OneAtATime
  <2>1. i \in DOMAIN row /\ row'[i] = row[i]
    BY <1>1, RowTimes
  <2>2. CASE k \in DOMAIN row
    BY <1>1, <2>1, <2>2 DEF CoolInv, OneAtATime
  <2>3. CASE k = Len(row) + 1
    BY <1>1, <1>2, <2>1, <2>3 DEF CoolInv, Timed
  <2> QED
    BY <1>1, <2>2, <2>3
<1>5. Cooled'
  BY DEF Cooled
<1>6. Desk!CooldownHeld'
  <2> SUFFICES ASSUME NEW k \in DOMAIN row', NEW i \in 1 .. (k - 1),
                      row'[i].market = row'[k].market, row'[i].side = row'[k].side
               PROVE  row'[k].judged - Last(row'[i], row'[k].judged) >= Cooldown
    BY DEF Desk!CooldownHeld, Last
  <2>1. i \in DOMAIN row /\ row'[i] = row[i]
    BY <1>1, RowTimes
  <2>2. CASE k \in DOMAIN row
    BY <1>1, <2>1, <2>2 DEF CoolInv, Desk!CooldownHeld, Last
  <2>3. CASE k = Len(row) + 1
    BY <1>1, <1>2, <2>1, <2>3 DEF CoolInv, Cooled
  <2> QED
    BY <1>1, <2>2, <2>3
<1> QED
  BY <1>3, <1>4, <1>5, <1>6 DEF CoolInv

\* The times of the positions, in the order they are opened and closed.
THEOREM DeskTimes == Desk!Spec => []CoolInv
<1>1. Desk!Init => CoolInv
  BY DEF Desk!Init, Desk!NoDecision, CoolInv, Timed, OneAtATime, Cooled, Desk!CooldownHeld
<1>2. Desk!TypeOK /\ Desk!TypeOK' /\ CoolInv /\ [Desk!Next]_Desk!vars => CoolInv'
  <2> SUFFICES ASSUME Desk!TypeOK, Desk!TypeOK', CoolInv, [Desk!Next]_deskVars
               PROVE  CoolInv'
    BY DEF deskVars, Desk!vars
  <2>1. ASSUME NEW m \in Markets, NEW fair \in Fairs, Desk!Choose(m, fair)
        PROVE  CoolInv'
    BY <2>1, ChoiceEffect, CoolRests DEF Table
  <2>2. CASE Desk!ReadsOpens
    BY <2>2, ReadsOpensEffect, CoolRests DEF Table
  <2>3. CASE Desk!ReadsHistory
    <3>1. UNCHANGED <<row, clock>>
      BY <2>3, ReadsHistoryEffect DEF Table
    <3>2. CASE dec'.pc = "idle"
      BY <3>1, <3>2, CoolRests
    <3>3. CASE dec'.pc # "idle"
      <4>1. /\ dec'.pc = "price" /\ dec'.at = clock /\ clock \in Nat
            /\ dec'.market = dec.market /\ dec'.side = dec.side
            /\ Lockout => Desk!OnSide = {}
            /\ ~Lockout /\ Cooldown > 0 => ~Desk!Hot
        BY <2>3, <3>3, ReadsHistoryEffect, RowTimes
      <4>2. \A n \in Desk!OnSide : clock - Last(row[n], clock) >= Cooldown
        BY <4>1, CoolNow DEF CoolInv
      <4>3. Desk!OnSide' = Desk!OnSide
        BY <3>1, <4>1 DEF Desk!OnSide
      <4> QED
        BY <3>1, <4>1, <4>2, <4>3
           DEF CoolInv, Timed, OneAtATime, Cooled, Desk!CooldownHeld
    <3> QED
      BY <3>2, <3>3
  <2>4. CASE Desk!Prices
    BY <2>4, PricesEffect, CoolRests DEF Table
  <2>5. CASE Desk!Fills
    BY <2>5, FillsEffect, CoolRests, CoolOpens
  <2>6. ASSUME NEW n, Shrinks(n) PROVE CoolInv'
    BY <2>6, CoolShrinks
  <2>7. CASE UNCHANGED <<version, row, dec>> /\ clock' \in {clock, clock + 1}
    BY <2>7, CoolRests
  <2> QED
    BY <2>1, <2>2, <2>3, <2>4, <2>5, <2>6, <2>7, DeskSteps
<1> QED
  BY <1>1, <1>2, DeskTypes, PTL DEF Desk!Spec

\* The cooldown by itself: of any rules, rows and closes.
THEOREM DeskCools == Desk!Spec => []Desk!CooldownHeld
<1>1. CoolInv => Desk!CooldownHeld
  BY DEF CoolInv
<1> QED
  BY <1>1, DeskTimes, PTL

---------------------------------------------------------------------------
(* Both sides                                                               *)

\* A decision knows each side of its market that is held, and does not go on
\* against one.
SidesKnown ==
    /\ dec.pc \in {"history", "price", "fill"} =>
         \A n \in Desk!OpenRows :
           row[n].market = dec.market /\ ~Desk!IsDust(row[n]) => row[n].side \in dec.held
    /\ version = 1 /\ dec.pc \in {"price", "fill"} => Desk!Other(dec.side) \notin dec.held

BothInv == SidesKnown /\ Desk!NeverBothSides

LEMMA BothShrinks ==
    ASSUME Desk!TypeOK, Desk!TypeOK', BothInv, NEW n, Shrinks(n)
    PROVE  BothInv'
<1>1. /\ DOMAIN row' = DOMAIN row /\ dec' = dec /\ version' = version
  BY DEF Shrinks, Desk!TypeOK
<1>2. ASSUME NEW k \in Desk!OpenRows'
      PROVE  /\ k \in Desk!OpenRows
             /\ row'[k].market = row[k].market /\ row'[k].side = row[k].side
             /\ Desk!IsDust(row[k]) => Desk!IsDust(row'[k])
  <2>1. k \in Desk!OpenRows /\ k \in DOMAIN row
    BY <1>1, <1>2 DEF Desk!OpenRows, Shrinks
  <2>2. row[k].qty \in Nat /\ row'[k].qty \in Nat
    <3>1. row[k] \in Desk!Row /\ row'[k] \in Desk!Row
      BY <1>1, <2>1 DEF Desk!TypeOK
    <3> QED
      BY <3>1 DEF Desk!Row
  <2>3. row'[k].market = row[k].market /\ row'[k].side = row[k].side
        /\ row'[k].qty <= row[k].qty
    BY <2>1, <2>2 DEF Shrinks
  <2> QED
    BY <2>1, <2>2, <2>3, RuleFacts DEF Desk!IsDust
<1>3. SidesKnown'
  BY <1>1, <1>2 DEF BothInv, SidesKnown
<1>4. Desk!NeverBothSides'
  BY <1>1, <1>2 DEF BothInv, Desk!NeverBothSides
<1> QED
  BY <1>3, <1>4 DEF BothInv

\* The ban on both sides by itself: of any rules, rows and closes.
THEOREM DeskOneSided == Desk!Spec => []Desk!NeverBothSides
<1>1. Desk!Init => BothInv
  BY DEF Desk!Init, Desk!NoDecision, BothInv, SidesKnown, Desk!NeverBothSides, Desk!OpenRows
<1>2. Desk!TypeOK /\ Desk!TypeOK' /\ BothInv /\ [Desk!Next]_Desk!vars => BothInv'
  <2> SUFFICES ASSUME Desk!TypeOK, Desk!TypeOK', BothInv, [Desk!Next]_deskVars
               PROVE  BothInv'
    BY DEF deskVars, Desk!vars
  <2>0. ASSUME row' = row, version' = version
        PROVE  Desk!NeverBothSides' /\ Desk!OpenRows' = Desk!OpenRows
    BY <2>0 DEF BothInv, Desk!NeverBothSides, Desk!OpenRows
  <2>1. ASSUME NEW m \in Markets, NEW fair \in Fairs, Desk!Choose(m, fair)
        PROVE  BothInv'
    BY <2>0, <2>1, ChoiceEffect DEF Table, BothInv, SidesKnown
  <2>2. CASE Desk!ReadsOpens
    BY <2>0, <2>2, ReadsOpensEffect DEF Table, BothInv, SidesKnown
  <2>3. CASE Desk!ReadsHistory
    BY <2>0, <2>3, ReadsHistoryEffect DEF Table, BothInv, SidesKnown, Desk!Opposed
  <2>4. CASE Desk!Prices
    BY <2>0, <2>4, PricesEffect DEF Table, BothInv, SidesKnown
  <2>5. CASE Desk!Fills
    <3>1. dec.pc = "fill" /\ dec'.pc = "idle" /\ version' = version
      BY <2>5, FillsEffect
    <3>2. SidesKnown'
      BY <3>1 DEF SidesKnown
    <3>3. CASE row' = row
      BY <2>0, <3>1, <3>2, <3>3 DEF BothInv
    <3>4. CASE row' # row
      <4>1. PICK r \in Desk!Row : /\ row' = Append(row, r) /\ Desk!IsOpen(r)
                                  /\ r.market = dec.market /\ r.side = dec.side
        BY <2>5, <3>4, FillsEffect
      <4>2. /\ DOMAIN row' = DOMAIN row \cup {Len(row) + 1}
            /\ Len(row) + 1 \notin DOMAIN row
            /\ row'[Len(row) + 1] = r
            /\ \A k \in DOMAIN row : row'[k] = row[k]
        BY <4>1, RowTimes DEF Desk!TypeOK
      <4>3. ASSUME version = 1, NEW k \in Desk!OpenRows, row[k].market = r.market,
                   row[k].side # r.side
            PROVE  Desk!IsDust(row[k])
        <5>1. row[k] \in Desk!Row
          BY DEF Desk!OpenRows, Desk!TypeOK
        <5>2. row[k].side = Desk!Other(r.side)
          BY <4>3, <5>1 DEF Desk!Row, Desk!Side, Desk!Other
        <5> QED
          BY <3>1, <4>1, <4>3, <5>2 DEF BothInv, SidesKnown
      <4>4. Desk!NeverBothSides'
        <5> SUFFICES ASSUME version = 1, NEW i \in Desk!OpenRows', NEW k \in Desk!OpenRows',
                            row'[i].market = row'[k].market, row'[i].side # row'[k].side
                     PROVE  Desk!IsDust(row'[i]) \/ Desk!IsDust(row'[k])
          BY <3>1 DEF Desk!NeverBothSides
        <5>1. \A j \in Desk!OpenRows' :
                (j \in Desk!OpenRows /\ row'[j] = row[j]) \/ row'[j] = r
          BY <4>2 DEF Desk!OpenRows
        <5> QED
          BY <4>3, <5>1 DEF BothInv, Desk!NeverBothSides
      <4> QED
        BY <3>2, <4>4 DEF BothInv
    <3> QED
      BY <3>3, <3>4
  <2>6. ASSUME NEW n, Shrinks(n) PROVE BothInv'
    BY <2>6, BothShrinks
  <2>7. CASE UNCHANGED <<version, row, dec>>
    BY <2>0, <2>7 DEF BothInv, SidesKnown
  <2> QED
    BY <2>1, <2>2, <2>3, <2>4, <2>5, <2>6, <2>7, DeskSteps
<1>3. BothInv => Desk!NeverBothSides
  BY DEF BothInv
<1> QED
  BY <1>1, <1>2, <1>3, DeskTypes, PTL DEF Desk!Spec

---------------------------------------------------------------------------
(* The cap                                                                  *)

\* Until the order is sized, the exposure is at most what was read of it; from then on
\* an order above the base size fits under the cap beside it.
CostKnown ==
    /\ dec.pc \in {"history", "price"} => Desk!OpenCost <= dec.cost
    /\ HeatCap > 0 /\ dec.pc = "fill" =>
         dec.notional = Base \/ Desk!OpenCost + dec.notional <= HeatCap

\* The exposure falls, or stays, and the decision goes on as it is.
LEMMA CostFits ==
    ASSUME Desk!TypeOK, CostKnown, dec' = dec,
           Desk!OpenCost \in Nat, Desk!OpenCost' \in Nat, Desk!OpenCost' <= Desk!OpenCost
    PROVE  CostKnown'
<1>1. dec.cost \in Nat /\ dec.notional \in Nat /\ HeatCap \in Nat
  BY RuleFacts DEF Desk!TypeOK, Desk!Verdict
<1> QED
  BY <1>1 DEF CostKnown

\* A position that opens adds what it costs to the exposure.
LEMMA OpenCostGrows ==
    ASSUME Desk!TypeOK, NEW r \in Desk!Row, row' = Append(row, r)
    PROVE  /\ Desk!OpenCost \in Nat /\ Desk!Cost(r) \in Nat
           /\ Desk!OpenCost' = Desk!OpenCost + Desk!Cost(r)
<1> DEFINE v == [n \in DOMAIN row |-> Desk!Cost(row[n])]
           w == [n \in DOMAIN row' |-> Desk!Cost(row'[n])]
<1>1. \A x \in Desk!Row : Desk!Cost(x) \in Nat
  <2> SUFFICES ASSUME NEW x \in Desk!Row PROVE Desk!Cost(x) \in Nat
    OBVIOUS
  <2>1. x.qty <= x.qty
    BY DEF Desk!Row
  <2> QED
    BY <2>1, CostFalls
<1>2. /\ DOMAIN row = 1 .. Len(row) /\ DOMAIN row' = 1 .. (Len(row) + 1) /\ Len(row) \in Nat
      /\ row'[Len(row) + 1] = r
      /\ \A k \in DOMAIN row : row'[k] = row[k] /\ row[k] \in Desk!Row
  BY DEF Desk!TypeOK
<1>3. \A k \in 1 .. (Len(row) + 1) : Desk!Cost(row'[k]) \in Int
  BY <1>1, <1>2
<1>4. v \in Seq(Int) /\ Len(v) = Len(row)
  BY <1>1, <1>2
<1>5. w \in Seq(Int) /\ Len(w) = Len(v) + 1
  BY <1>2, <1>3, <1>4
<1>6. w[Len(w)] = Desk!Cost(r) /\ \A n \in 1 .. Len(v) : w[n] = v[n]
  BY <1>2, <1>4, <1>5
<1>7. Desk!OpenCost = Desk!Sum(v) /\ Desk!OpenCost' = Desk!Sum(w)
  BY DEF Desk!OpenCost
<1> HIDE DEF v, w
<1>8. Desk!OpenCost' = Desk!OpenCost + Desk!Cost(r)
  BY <1>4, <1>5, <1>6, <1>7, SumWithOneMore
<1> QED
  BY <1>1, <1>8, OpenCostType

\* The arithmetic of the cap: quantity q, bought at p and sized at a out of n, beside an
\* exposure of e that leaves room for n.
LEMMA CapSum ==
    ASSUME NEW e \in Nat, NEW n \in Nat, NEW h \in Nat, NEW s \in Nat, NEW q \in Nat,
           NEW p \in Nat, NEW a \in Nat, s > 0, e + n <= h, q * a <= n * s
    PROVE  s * (e + ((q * p) \div s)) <= s * h + q * Desk!Larger(0, p - a)
<1> DEFINE c == (q * p) \div s
           up == Desk!Larger(0, p - a)
<1>1. q * p \in Nat
  BY Products
<1>2. c \in Nat /\ s * c <= q * p
  BY <1>1, Quotients, Multiples
<1>3. up \in Nat /\ p <= a + up
  BY DEF Desk!Larger
<1> HIDE DEF c, up
<1>4. q * p <= q * a + q * up
  <2>1. q * p <= q * (a + up)
    BY <1>3
  <2>2. q * (a + up) = q * a + q * up
    BY <1>3
  <2> QED
    BY <2>1, <2>2
<1>5. s * e + s * n <= s * h
  <2>1. s * (e + n) <= s * h
    OBVIOUS
  <2>2. s * (e + n) = s * e + s * n
    OBVIOUS
  <2> QED
    BY <2>1, <2>2
<1>6. s * (e + c) = s * e + s * c
  BY <1>2
<1>7. n * s = s * n
  OBVIOUS
<1>8. /\ s * e \in Nat /\ s * n \in Nat /\ s * h \in Nat /\ s * c \in Nat
      /\ q * a \in Nat /\ q * up \in Nat
  BY <1>2, <1>3, Products
<1>9. s * (e + c) <= s * h + q * up
  BY <1>1, <1>2, <1>4, <1>5, <1>6, <1>7, <1>8
<1> QED
  BY <1>9 DEF c, up

\* The heat cap by itself: of any rules, rows and closes.
THEOREM DeskCapped == Desk!Spec => Desk!HeatHeld
<1>1. Desk!Init => CostKnown
  BY DEF Desk!Init, Desk!NoDecision, CostKnown
<1>2. Desk!TypeOK /\ Desk!TypeOK' /\ CostKnown /\ [Desk!Next]_Desk!vars => CostKnown'
  <2> SUFFICES ASSUME Desk!TypeOK, Desk!TypeOK', CostKnown, [Desk!Next]_deskVars
               PROVE  CostKnown'
    BY DEF deskVars, Desk!vars
  <2>0. ASSUME row' = row
        PROVE  Desk!OpenCost' = Desk!OpenCost /\ Desk!OpenCost \in Nat
    BY <2>0, OpenCostType DEF Desk!OpenCost
  <2>1. ASSUME NEW m \in Markets, NEW fair \in Fairs, Desk!Choose(m, fair)
        PROVE  CostKnown'
    BY <2>1, ChoiceEffect DEF CostKnown
  <2>2. CASE Desk!ReadsOpens
    BY <2>0, <2>2, ReadsOpensEffect DEF Table, CostKnown
  <2>3. CASE Desk!ReadsHistory
    BY <2>0, <2>3, ReadsHistoryEffect DEF Table, CostKnown
  <2>4. CASE Desk!Prices
    <3>1. dec'.pc = "fill" /\ HeatCap > 0 =>
            dec'.notional = Base \/ dec.cost + dec'.notional <= HeatCap
      BY <2>4, PricesEffect
    <3>2. dec.pc = "price" /\ dec'.pc \in {"idle", "fill"} /\ row' = row
      BY <2>4, PricesEffect DEF Table
    <3>3. /\ Desk!OpenCost \in Nat /\ dec.cost \in Nat /\ dec'.notional \in Nat
          /\ HeatCap \in Nat
      BY OpenCostType, RuleFacts DEF Desk!TypeOK, Desk!Verdict
    <3>4. Desk!OpenCost <= dec.cost
      BY <3>2 DEF CostKnown
    <3> QED
      BY <2>0, <3>1, <3>2, <3>3, <3>4 DEF CostKnown
  <2>5. CASE Desk!Fills
    BY <2>5, FillsEffect DEF CostKnown
  <2>6. ASSUME NEW n, Shrinks(n) PROVE CostKnown'
    BY <2>6, OpenCostFalls, CostFits DEF Shrinks
  <2>7. CASE UNCHANGED <<version, row, dec>>
    <3>1. Desk!OpenCost' <= Desk!OpenCost
      BY <2>0, <2>7
    <3> QED
      BY <2>0, <2>7, <3>1, CostFits
  <2> QED
    BY <2>1, <2>2, <2>3, <2>4, <2>5, <2>6, <2>7, DeskSteps
<1> DEFINE Capped ==
      HeatCap > 0 /\ Len(row') > Len(row) /\ dec.notional # Base =>
        LET new == row'[Len(row')]
        IN  Share * Desk!OpenCost' <=
              Share * HeatCap + new.qty * Desk!Larger(0, new.price - dec.ask)
<1>3. Desk!TypeOK /\ CostKnown /\ [Desk!Next]_Desk!vars => [Capped]_Desk!vars
  <2> SUFFICES ASSUME Desk!TypeOK, CostKnown, [Desk!Next]_deskVars,
                      HeatCap > 0, Len(row') > Len(row), dec.notional # Base
               PROVE  LET new == row'[Len(row')]
                      IN  Share * Desk!OpenCost' <=
                            Share * HeatCap + new.qty * Desk!Larger(0, new.price - dec.ask)
    BY DEF deskVars, Desk!vars
  <2>1. Desk!Fills
    <3>1. Len(row) \in Nat
      BY DEF Desk!TypeOK
    <3>2. ~(row' = row) /\ ~(\E n : Shrinks(n))
      BY <3>1 DEF Shrinks
    <3> QED
      BY <3>2, DeskSteps, ChoiceEffect, ReadsOpensEffect, ReadsHistoryEffect, PricesEffect
         DEF Table
  <2>2. PICK r \in Desk!Row : /\ row' = Append(row, r) /\ Desk!IsOpen(r)
                              /\ dec.ask > 0 /\ r.qty * dec.ask <= dec.notional * Share
    <3>1. row' # row
      BY DEF Desk!TypeOK
    <3> QED
      BY <2>1, <3>1, FillsEffect
  <2>3. dec.pc = "fill"
    BY <2>1, FillsEffect
  <2>4. row'[Len(row')] = r
    BY <2>2 DEF Desk!TypeOK
  <2>5. /\ Desk!OpenCost \in Nat
        /\ Desk!OpenCost' = Desk!OpenCost + ((r.qty * r.price) \div Share)
    BY <2>2, OpenCostGrows DEF Desk!Cost
  <2>6. Desk!OpenCost + dec.notional <= HeatCap
    BY <2>3 DEF CostKnown
  <2>7. /\ r.qty \in Nat /\ r.price \in Nat /\ dec.ask \in Nat /\ dec.notional \in Nat
        /\ HeatCap \in Nat /\ Share \in Nat /\ Share > 0
    BY RuleFacts DEF Desk!Row, Desk!TypeOK, Desk!Verdict
  <2>8. Share * (Desk!OpenCost + ((r.qty * r.price) \div Share)) <=
          Share * HeatCap + r.qty * Desk!Larger(0, r.price - dec.ask)
    BY <2>2, <2>5, <2>6, <2>7, CapSum
  <2> QED
    BY <2>4, <2>5, <2>8
<1> QED
  BY <1>1, <1>2, <1>3, DeskTypes, PTL DEF Desk!Spec, Desk!HeatHeld

---------------------------------------------------------------------------
(* The brakes                                                               *)

\* The instance counts as the module it comes from does.
LEMMA DeskCounts == \A S : Desk!Cardinality(S) = Cardinality(S)
BY DEF Desk!Cardinality, Cardinality

\* A sum changes by what one of its terms changes by.
LEMMA SumChanges ==
    ASSUME NEW v \in Seq(Int), NEW w \in Seq(Int), Len(v) = Len(w), NEW m \in 1 .. Len(v),
           \A n \in 1 .. Len(v) : n # m => v[n] = w[n]
    PROVE  Desk!Sum(w) = Desk!Sum(v) + (w[m] - v[m])
<1> DEFINE a == Desk!Sums(v)
           b == Desk!Sums(w)
           d == w[m] - v[m]
           T == {n \in 0 .. Len(v) :
                   ~(a[n] \in Int /\ b[n] = a[n] + (IF n >= m THEN d ELSE 0))}
<1>1. \A k \in 0 .. Len(v) : /\ a[k] = IF k = 0 THEN 0 ELSE a[k - 1] + v[k]
                             /\ b[k] = IF k = 0 THEN 0 ELSE b[k - 1] + w[k]
  BY SumsRecur
<1>2. d \in Int /\ w[m] = v[m] + d
  OBVIOUS
<1> HIDE DEF a, b, d
<1>3. CASE T = {}
  <2>1. Len(v) \in 0 .. Len(v) /\ Len(v) >= m
    OBVIOUS
  <2>2. b[Len(v)] = a[Len(v)] + d
    BY <1>3, <2>1
  <2> QED
    BY <2>2 DEF Desk!Sum, a, b, d
<1>4. CASE T # {}
  <2>1. T \subseteq Nat
    OBVIOUS
  <2>2. PICK x \in T : \A y \in T : x <= y
    BY <1>4, <2>1, LeastNat
  <2>3. x # 0
    BY <1>1
  <2>4. x - 1 \in 0 .. Len(v) /\ x - 1 \notin T /\ x \in 1 .. Len(v)
    BY <2>2, <2>3
  <2>5. v[x] \in Int /\ w[x] \in Int /\ (x # m => v[x] = w[x])
    BY <2>4
  <2>6. a[x] = a[x - 1] + v[x] /\ b[x] = b[x - 1] + w[x]
    BY <1>1, <2>3, <2>4
  <2>7. a[x - 1] \in Int /\ b[x - 1] = a[x - 1] + (IF x - 1 >= m THEN d ELSE 0)
    BY <2>4
  <2>8. CASE x = m
    <3>1. b[x - 1] = a[x - 1]
      BY <2>4, <2>7, <2>8
    <3>2. a[x] \in Int /\ b[x] = a[x] + d
      <4> HIDE DEF T
      <4> QED
        BY <1>2, <2>5, <2>6, <2>7, <2>8, <3>1, Adding
    <3> QED
      BY <2>2, <2>4, <2>8, <3>2
  <2>9. CASE x # m
    <3>1. CASE x > m
      <4>1. b[x - 1] = a[x - 1] + d
        BY <2>4, <2>7, <3>1
      <4>2. d \in Int /\ a[x - 1] \in Int /\ v[x] \in Int /\ w[x] = v[x]
        BY <1>2, <2>5, <2>7, <2>9
      <4>3. a[x] \in Int /\ b[x] = a[x] + d
        <5> HIDE DEF T
        <5> QED
          BY <2>6, <4>1, <4>2, Adding
      <4> QED
        BY <2>2, <2>4, <3>1, <4>3
    <3>2. CASE x < m
      <4>1. b[x - 1] = a[x - 1]
        BY <2>4, <2>7, <3>2
      <4>2. a[x] \in Int /\ b[x] = a[x]
        <5> HIDE DEF T
        <5> QED
          BY <2>5, <2>6, <2>7, <2>9, <4>1, Adding
      <4> QED
        BY <2>2, <2>4, <3>2, <4>2
    <3> QED
      BY <2>4, <2>9, <3>1, <3>2
  <2> QED
    BY <2>8, <2>9
<1> QED
  BY <1>3, <1>4

\* A sum of zeros is zero.
LEMMA SumOfZeros ==
    ASSUME NEW v \in Seq(Int), \A n \in 1 .. Len(v) : v[n] = 0
    PROVE  Desk!Sum(v) = 0
<1> DEFINE a == Desk!Sums(v)
           T == {n \in 0 .. Len(v) : a[n] # 0}
<1>1. \A k \in 0 .. Len(v) : a[k] = IF k = 0 THEN 0 ELSE a[k - 1] + v[k]
  BY SumsRecur
<1> HIDE DEF a
<1>2. CASE T = {}
  BY <1>2 DEF Desk!Sum, a
<1>3. CASE T # {}
  <2>1. T \subseteq Nat
    OBVIOUS
  <2>2. PICK x \in T : \A y \in T : x <= y
    BY <1>3, <2>1, LeastNat
  <2>3. x # 0
    BY <1>1
  <2>4. x - 1 \in 0 .. Len(v) /\ x - 1 \notin T /\ v[x] = 0
    BY <2>2, <2>3
  <2> QED
    BY <1>1, <2>2, <2>3, <2>4
<1> QED
  BY <1>2, <1>3

\* What is summed for the PnL since t.
Terms(t) ==
    [n \in DOMAIN row |->
       IF Desk!IsOpen(row[n]) \/ Desk!ClosedAt(row[n]) < t THEN 0 ELSE row[n].pnl]

LEMMA TermTypes ==
    ASSUME Desk!TypeOK, NEW t
    PROVE  Terms(t) \in Seq(Int) /\ Len(Terms(t)) = Len(row)
<1>1. ASSUME NEW n \in DOMAIN row PROVE row[n].pnl \in Int
  <2>1. row[n] \in Desk!Row
    BY DEF Desk!TypeOK
  <2> QED
    BY <2>1 DEF Desk!Row
<1>2. DOMAIN row = 1 .. Len(row) /\ Len(row) \in Nat
  BY RowTimes
<1> QED
  BY <1>1, <1>2 DEF Terms

\* The losses of the streak are finitely many.
LEMMA StreakIsFinite ==
    ASSUME Desk!TypeOK
    PROVE  IsFiniteSet(Desk!Streak) /\ Cardinality(Desk!Streak) \in Nat
<1>1. Desk!Streak \subseteq 1 .. Len(row) /\ Len(row) \in Nat
  BY RowTimes DEF Desk!Streak, Desk!ClosedRows
<1>2. IsFiniteSet(1 .. Len(row))
  BY <1>1, FS_Interval
<1> QED
  BY <1>1, <1>2, FS_Subset, FS_CardinalityType

\* The same of the table after a step.
LEMMA TermTypesNext ==
    ASSUME Desk!TypeOK', NEW t
    PROVE  Terms(t)' \in Seq(Int) /\ Len(Terms(t)') = Len(row')
<1>1. ASSUME NEW n \in DOMAIN row' PROVE row'[n].pnl \in Int
  <2>1. row'[n] \in Desk!Row
    BY DEF Desk!TypeOK
  <2> QED
    BY <2>1 DEF Desk!Row
<1>2. DOMAIN row' = 1 .. Len(row') /\ Len(row') \in Nat
  BY DEF Desk!TypeOK
<1> QED
  BY <1>1, <1>2 DEF Terms

LEMMA StreakFiniteNext ==
    ASSUME Desk!TypeOK'
    PROVE  Cardinality(Desk!Streak') \in Nat
<1>1. Desk!Streak' \subseteq 1 .. Len(row') /\ Len(row') \in Nat
  BY DEF Desk!Streak, Desk!ClosedRows, Desk!TypeOK
<1>2. IsFiniteSet(1 .. Len(row'))
  BY <1>1, FS_Interval
<1> QED
  BY <1>1, <1>2, FS_Subset, FS_CardinalityType

\* What the tally says is in the table: the losses of the streak, and a close since
\* which as much was lost as the PnL is below its peak.
Tallied ==
    /\ tally.streak <= Cardinality(Desk!Streak)
    /\ \/ tally.peak = tally.cum
       \/ \E n \in Desk!ClosedRows :
            tally.cum - tally.peak = Desk!PnlSince(Desk!ClosedAt(row[n]))

LEMMA TalliedRests ==
    ASSUME Tallied, row' = row, tally' = tally
    PROVE  Tallied'
<1>1. /\ Desk!Streak' = Desk!Streak /\ Desk!ClosedRows' = Desk!ClosedRows
      /\ \A t : Desk!PnlSince(t)' = Desk!PnlSince(t)
  BY DEF Desk!Streak, Desk!ClosedRows, Desk!OpenRows, Desk!PnlSince
<1> QED
  BY <1>1 DEF Tallied

\* A close comes after all others: it extends the streak or ends it, and whatever
\* was lost since an earlier close changes by it.
LEMMA TalliedCloses ==
    ASSUME Desk!TypeOK, Desk!TypeOK', Timed, Tallied, NEW m, Shrinks(m),
           ~Desk!IsOpen(row'[m])
    PROVE  Tallied'
<1> DEFINE gain == row'[m].pnl
<1>1. /\ m \in DOMAIN row /\ Desk!IsOpen(row[m]) /\ DOMAIN row' = DOMAIN row
      /\ Len(row') = Len(row)
      /\ row'[m].closed = clock /\ clock \in Nat
      /\ \A k \in DOMAIN row : k # m => row'[k] = row[k]
  BY RowTimes DEF Shrinks, Desk!TypeOK
<1>2. gain \in Int
  <2>1. row'[m] \in Desk!Row
    BY <1>1 DEF Desk!TypeOK
  <2> QED
    BY <2>1 DEF Desk!Row
<1>3. /\ tally'.streak = IF gain < 0 THEN tally.streak + 1
                         ELSE IF row'[m].how = "reconciled" THEN tally.streak ELSE 0
      /\ tally'.cum = tally.cum + gain
      /\ tally'.peak = Desk!Larger(tally.peak, tally.cum + gain)
  BY DEF Shrinks
<1>4. Desk!ClosedRows' = Desk!ClosedRows \cup {m} /\ m \notin Desk!ClosedRows
  BY <1>1 DEF Desk!ClosedRows, Desk!OpenRows
<1>5. ASSUME NEW k \in Desk!ClosedRows
      PROVE  /\ k # m /\ row'[k] = row[k]
             /\ Desk!ClosedAt(row[k]) < clock /\ Desk!ClosedAt(row[k]) \in Nat
  BY <1>1, <1>4, RowTimes DEF Desk!ClosedRows, Desk!OpenRows, Desk!ClosedAt, Timed
<1>6. Desk!ClosedAt(row'[m]) = clock
  BY <1>1 DEF Desk!ClosedAt
<1> HIDE DEF gain
<1>7. tally'.streak <= Cardinality(Desk!Streak')
  <2>1. /\ tally.streak \in Nat /\ Cardinality(Desk!Streak) \in Nat
        /\ Cardinality(Desk!Streak') \in Nat /\ IsFiniteSet(Desk!Streak)
    BY StreakIsFinite, StreakFiniteNext DEF Desk!TypeOK
  <2>2. CASE gain < 0
    <3>1. Desk!Streak' = Desk!Streak \cup {m} /\ m \notin Desk!Streak
      <4>1. row'[m].pnl < 0
        BY <2>2 DEF gain
      <4>2. ASSUME NEW k \in Desk!ClosedRows'
            PROVE  ~(Desk!ClosedAt(row'[k]) > clock)
        BY <1>1, <1>4, <1>5, <1>6
      <4>3. m \in Desk!Streak'
        BY <1>4, <1>6, <4>1, <4>2 DEF Desk!Streak
      <4>4. ASSUME NEW n \in Desk!ClosedRows
            PROVE  n \in Desk!Streak' <=> n \in Desk!Streak
        BY <1>4, <1>5, <4>1 DEF Desk!Streak
      <4>5. Desk!Streak' \subseteq Desk!ClosedRows' /\ Desk!Streak \subseteq Desk!ClosedRows
        BY DEF Desk!Streak
      <4> QED
        BY <1>4, <4>3, <4>4, <4>5
    <3>2. Cardinality(Desk!Streak') = Cardinality(Desk!Streak) + 1
      BY <2>1, <3>1, FS_AddElement
    <3> QED
      BY <1>3, <2>1, <2>2, <3>2 DEF Tallied
  <2>3. CASE ~(gain < 0) /\ row'[m].how = "reconciled"
    <3>1. Desk!Streak' = Desk!Streak
      BY <1>4, <1>5, <1>6, <2>3 DEF Desk!Streak, gain
    <3> QED
      BY <1>3, <2>3, <3>1 DEF Tallied
  <2>4. CASE ~(gain < 0) /\ row'[m].how # "reconciled"
    BY <1>3, <2>1, <2>4
  <2> QED
    BY <2>2, <2>3, <2>4
<1>8. ASSUME NEW t \in Nat, t <= clock
      PROVE  /\ Desk!PnlSince(t)' = Desk!PnlSince(t) + gain
             /\ Desk!PnlSince(t) \in Int
  <2> DEFINE v == Terms(t)
             w == Terms(t)'
  <2>1. /\ v \in Seq(Int) /\ Len(v) = Len(row)
        /\ w \in Seq(Int) /\ Len(w) = Len(row)
    BY <1>1, TermTypes, TermTypesNext
  <2>2. m \in 1 .. Len(v) /\ 1 .. Len(v) = DOMAIN row
    BY <1>1, <2>1, RowTimes
  <2>3. v[m] = 0 /\ w[m] = gain
    BY <1>1, <1>6, <1>8 DEF Terms, gain, Shrinks
  <2>4. \A n \in 1 .. Len(v) : n # m => v[n] = w[n]
    BY <1>1, <2>2 DEF Terms
  <2>5. Desk!PnlSince(t) = Desk!Sum(v) /\ Desk!PnlSince(t)' = Desk!Sum(w)
    BY DEF Desk!PnlSince, Terms
  <2> HIDE DEF v, w
  <2>6. Desk!Sum(w) = Desk!Sum(v) + (w[m] - v[m]) /\ Desk!Sum(v) \in Int
    BY <2>1, <2>2, <2>4, SumChanges, SumTypes
  <2> QED
    BY <1>2, <2>3, <2>5, <2>6
<1>9. Desk!PnlSince(clock) = 0
  <2>1. Terms(clock) \in Seq(Int) /\ Len(Terms(clock)) = Len(row)
    BY TermTypes
  <2>2. \A n \in 1 .. Len(Terms(clock)) : Terms(clock)[n] = 0
    BY <1>1, <2>1, RowTimes DEF Terms, Timed, Desk!ClosedAt
  <2>3. Desk!PnlSince(clock) = Desk!Sum(Terms(clock))
    BY DEF Desk!PnlSince, Terms
  <2> QED
    BY <2>1, <2>2, <2>3, SumOfZeros
<1>10. \/ tally'.peak = tally'.cum
       \/ \E n \in Desk!ClosedRows' :
            tally'.cum - tally'.peak = Desk!PnlSince(Desk!ClosedAt(row[n]))'
  <2>1. tally.cum \in Int /\ tally.peak \in Int
    BY DEF Desk!TypeOK
  <2>2. CASE tally.peak <= tally.cum + gain
    <3>1. tally'.peak = tally'.cum
      BY <1>2, <1>3, <2>1, <2>2 DEF Desk!Larger
    <3> QED
      BY <3>1
  <2>3. CASE tally.peak > tally.cum + gain
    <3>1. tally'.cum - tally'.peak = (tally.cum - tally.peak) + gain
      BY <1>2, <1>3, <2>1, <2>3 DEF Desk!Larger
    <3>2. CASE tally.peak = tally.cum
      <4>1. PICK t \in Nat : t = clock
        BY <1>1
      <4>2. Desk!PnlSince(t) = 0
        BY <1>9, <4>1
      <4>3. Desk!PnlSince(t)' = gain
        BY <1>1, <1>2, <1>8, <4>1, <4>2
      <4>4. Desk!PnlSince(Desk!ClosedAt(row[m]))' = gain
        BY <1>6, <4>1, <4>3
      <4> QED
        BY <1>2, <1>4, <2>1, <3>1, <3>2, <4>4
    <3>3. ASSUME NEW n \in Desk!ClosedRows,
                 tally.cum - tally.peak = Desk!PnlSince(Desk!ClosedAt(row[n]))
          PROVE  \E k \in Desk!ClosedRows' :
                   tally'.cum - tally'.peak = Desk!PnlSince(Desk!ClosedAt(row[k]))'
      <4> DEFINE t == Desk!ClosedAt(row[n])
      <4>1. t \in Nat /\ t <= clock /\ Desk!ClosedAt(row'[n]) = t
        BY <1>1, <1>5
      <4>2. Desk!PnlSince(t)' = Desk!PnlSince(t) + gain
        BY <1>8, <4>1
      <4> QED
        BY <1>4, <3>1, <3>3, <4>1, <4>2
    <3> QED
      BY <3>2, <3>3 DEF Tallied
  <2> QED
    BY <1>2, <2>1, <2>2, <2>3
<1> QED
  BY <1>7, <1>10 DEF Tallied

\* A position sold in part stays open, and one that opens is open.
LEMMA TalliedParts ==
    ASSUME Desk!TypeOK, Tallied, NEW m, Shrinks(m), Desk!IsOpen(row'[m])
    PROVE  Tallied'
<1>1. /\ m \in DOMAIN row /\ Desk!IsOpen(row[m]) /\ DOMAIN row' = DOMAIN row
      /\ \A k \in DOMAIN row : k # m => row'[k] = row[k]
  BY RowTimes DEF Shrinks, Desk!TypeOK
<1>2. tally' = tally
  BY DEF Shrinks
<1>3. /\ Desk!ClosedRows' = Desk!ClosedRows
      /\ \A k \in Desk!ClosedRows : k # m /\ row'[k] = row[k]
  BY <1>1 DEF Desk!ClosedRows, Desk!OpenRows
<1>4. Desk!Streak' = Desk!Streak
  BY <1>3 DEF Desk!Streak
<1>5. ASSUME NEW t PROVE Desk!PnlSince(t)' = Desk!PnlSince(t)
  BY <1>1 DEF Desk!PnlSince
<1> QED
  BY <1>2, <1>3, <1>4, <1>5 DEF Tallied

LEMMA TalliedOpens ==
    ASSUME Desk!TypeOK, Desk!TypeOK', Tallied, tally' = tally,
           NEW r \in Desk!Row, row' = Append(row, r), Desk!IsOpen(r)
    PROVE  Tallied'
<1>1. /\ Len(row') = Len(row) + 1
      /\ DOMAIN row' = DOMAIN row \cup {Len(row) + 1}
      /\ Len(row) + 1 \notin DOMAIN row
      /\ row'[Len(row) + 1] = r
      /\ \A k \in DOMAIN row : row'[k] = row[k]
  BY RowTimes DEF Desk!TypeOK
<1>2. /\ Desk!ClosedRows' = Desk!ClosedRows
      /\ \A k \in Desk!ClosedRows : row'[k] = row[k]
  BY <1>1 DEF Desk!ClosedRows, Desk!OpenRows
<1>3. Desk!Streak' = Desk!Streak
  BY <1>2 DEF Desk!Streak
<1>4. ASSUME NEW t PROVE Desk!PnlSince(t)' = Desk!PnlSince(t)
  <2> DEFINE v == Terms(t)
             w == Terms(t)'
  <2>1. /\ v \in Seq(Int) /\ Len(v) = Len(row)
        /\ w \in Seq(Int) /\ Len(w) = Len(v) + 1
    BY <1>1, TermTypes, TermTypesNext
  <2>2. w[Len(w)] = 0
    BY <1>1, <2>1 DEF Terms
  <2>3. \A n \in 1 .. Len(v) : w[n] = v[n]
    BY <1>1, <2>1, RowTimes DEF Terms
  <2>4. Desk!PnlSince(t) = Desk!Sum(v) /\ Desk!PnlSince(t)' = Desk!Sum(w)
    BY DEF Desk!PnlSince, Terms
  <2> HIDE DEF v, w
  <2> QED
    <3>1. Desk!Sum(v) \in Int
      BY <2>1, SumTypes
    <3>2. Desk!Sum(w) = Desk!Sum(v) + 0
      BY <2>1, <2>2, <2>3, SumWithOneMore
    <3> QED
      BY <2>4, <3>1, <3>2
<1> QED
  BY <1>2, <1>3, <1>4 DEF Tallied

\* Where no brake grips, the tally shows none due.
LEMMA TalliedBrakes ==
    ASSUME Desk!TypeOK, Tallied, ~Desk!Killed
    PROVE  /\ KillStreak > 0 => tally.streak < KillStreak
           /\ KillDrawdown > 0 => tally.peak - tally.cum < KillDrawdown
<1>1. /\ tally.streak \in Nat /\ tally.cum \in Int /\ tally.peak \in Int
      /\ KillStreak \in Nat /\ KillDrawdown \in Nat
      /\ IsFiniteSet(Desk!Streak) /\ Cardinality(Desk!Streak) \in Nat
  BY StreakIsFinite, RulesAssumption DEF Desk!TypeOK
<1>2. Desk!Streak \subseteq Desk!ClosedRows
  BY DEF Desk!Streak
<1>3. CASE Desk!ClosedRows = {}
  <2>1. Cardinality(Desk!Streak) = 0
    BY <1>2, <1>3, FS_EmptySet
  <2>2. tally.streak = 0 /\ tally.peak = tally.cum
    BY <1>1, <1>3, <2>1 DEF Tallied
  <2> QED
    BY <1>1, <2>2
<1>4. CASE Desk!ClosedRows # {}
  <2>1. /\ ~(KillStreak > 0 /\ Desk!Cardinality(Desk!Streak) >= KillStreak)
        /\ KillDrawdown > 0 =>
             \A n \in Desk!ClosedRows :
               ~(Desk!PnlSince(Desk!ClosedAt(row[n])) <= -KillDrawdown)
    BY <1>4 DEF Desk!Killed
  <2>2. KillStreak > 0 => tally.streak < KillStreak
    BY <1>1, <2>1, DeskCounts DEF Tallied
  <2>3. KillDrawdown > 0 => tally.peak - tally.cum < KillDrawdown
    BY <1>1, <2>1 DEF Tallied
  <2> QED
    BY <2>2, <2>3
<1> QED
  BY <1>3, <1>4

\* The brakes by themselves: of any rules, rows and closes.
THEOREM DeskBrakes == Desk!Spec => Desk!BrakesHold
<1>1. Desk!Init => Tallied
  <2> SUFFICES ASSUME Desk!Init PROVE Tallied
    OBVIOUS
  <2>1. Desk!Streak = {}
    BY DEF Desk!Init, Desk!Streak, Desk!ClosedRows, Desk!OpenRows
  <2>2. tally.streak = 0 /\ tally.peak = tally.cum
    BY DEF Desk!Init
  <2> QED
    BY <2>1, <2>2, FS_EmptySet DEF Tallied
<1>2. Desk!TypeOK /\ Desk!TypeOK' /\ CoolInv /\ Tallied /\ [Desk!Next]_Desk!vars => Tallied'
  <2> SUFFICES ASSUME Desk!TypeOK, Desk!TypeOK', CoolInv, Tallied, [Desk!Next]_deskVars
               PROVE  Tallied'
    BY DEF deskVars, Desk!vars
  <2>1. CASE row' = row /\ tally' = tally
    BY <2>1, TalliedRests
  <2>2. CASE Desk!Fills
    <3>1. CASE row' = row
      BY <2>1, <2>2, <3>1, FillsEffect
    <3>2. CASE row' # row
      BY <2>2, <3>2, FillsEffect, TalliedOpens
    <3> QED
      BY <3>1, <3>2
  <2>3. ASSUME NEW n, Shrinks(n) PROVE Tallied'
    BY <2>3, TalliedCloses, TalliedParts DEF CoolInv
  <2> QED
    BY <2>1, <2>2, <2>3, DeskSteps, ChoiceEffect, ReadsOpensEffect, ReadsHistoryEffect,
       PricesEffect DEF Table
<1>3. Desk!TypeOK /\ Tallied /\ [Desk!Next]_Desk!vars =>
        [dec.pc = "history" /\ dec'.pc = "price" =>
           /\ KillStreak > 0 => tally.streak < KillStreak
           /\ KillDrawdown > 0 => tally.peak - tally.cum < KillDrawdown]_Desk!vars
  <2> SUFFICES ASSUME Desk!TypeOK, Tallied, [Desk!Next]_deskVars,
                      dec.pc = "history", dec'.pc = "price"
               PROVE  /\ KillStreak > 0 => tally.streak < KillStreak
                      /\ KillDrawdown > 0 => tally.peak - tally.cum < KillDrawdown
    BY DEF deskVars, Desk!vars
  <2>1. Desk!ReadsHistory
    BY DeskSteps, ChoiceEffect, ReadsOpensEffect, PricesEffect, FillsEffect DEF Shrinks
  <2>2. ~Desk!Killed
    BY <2>1, ReadsHistoryEffect
  <2> QED
    BY <2>2, TalliedBrakes
<1> QED
  BY <1>1, <1>2, <1>3, DeskTypes, DeskTimes, PTL DEF Desk!Spec, Desk!BrakesHold

---------------------------------------------------------------------------
(* The market of the runs                                                   *)

\* Its behaviours are behaviours of either of its parts.
LEMMA MarketBehave == MarketSpec => Spec /\ Desk!Spec
<1>1. MarketInit => Init /\ Desk!Init
  BY DEF MarketInit
<1>2. [MarketNext]_<<part, cacheVars, deskVars>> => [Next]_vars /\ [Desk!Next]_Desk!vars
  BY DEF MarketNext, cacheVars, deskVars, vars, Desk!vars
<1> QED
  BY <1>1, <1>2, PTL DEF MarketSpec, Spec, Desk!Spec

\* YES and NO of one market are never both held, whatever is sold, in part or in
\* whole, or reconciled between the read of the open positions and the fill
\* (_select_side, block_opposite_side).
THEOREM NeverBothHeld == MarketSpec => []NeverBothSides
BY MarketBehave, DeskOneSided, PTL DEF NeverBothSides

\* A side is bought again no sooner than the cooldown after its last position, of any
\* length, and whatever closes while the decision is taken (_in_cooldown).
THEOREM CooldownAlwaysHeld == MarketSpec => []CooldownHeld
BY MarketBehave, DeskCools, PTL DEF CooldownHeld

\* A buy scaled up takes the exposure, as the table has it after the fill, past the cap
\* by no more than the ask has risen since it was sized, for any cap, sizes, prices and
\* positions (_scaled_notional, heat_cap_usd, execute_buy).
THEOREM HeatAlwaysHeld == MarketSpec => HeatHeld
BY MarketBehave, DeskCapped, PTL DEF HeatHeld

\* No decision gets past the brakes on the losing streak and on the drawdown, for any
\* number of positions, closed in any order (_kill_switch_check).
THEOREM BrakesAlwaysHold == MarketSpec => BrakesHold
BY MarketBehave, DeskBrakes, PTL DEF BrakesHold
=============================================================================
