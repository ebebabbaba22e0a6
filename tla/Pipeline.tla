------------------------------ MODULE Pipeline ------------------------------
(***************************************************************************)
(* The pipeline orchestrator: news items wait in a bounded queue and one   *)
(* worker takes each through embedding, analyzer and entry to the buy.     *)
(* Between any two awaits of the worker items arrive and age, the catalog  *)
(* changes, a canvas edit swaps the entry section or the news window, and  *)
(* stop may cancel the worker - but not the thread its buy runs in.        *)
(***************************************************************************)
EXTENDS Naturals, Sequences

CONSTANTS
    Item,      \* news items
    QueueMax,  \* queue_maxsize, at least 1
    Window,    \* values of freshness_seconds
    MaxAge     \* bound: an item older than this ages no more

VARIABLES
    queue,    \* _queue
    worker,   \* the worker task: its stage and what it carries
    arrived,  \* items the news source forwarded
    age,      \* how old each item is
    window,   \* _news_max_age_seconds
    entry,    \* _entry: its side_lock, and ACCEPTS_FRESH_BOOKS
    listed,   \* the analyzed market is in the catalog
    rows,     \* what embedding_log, analyzer_log and entry_log say of each item
    thread,   \* a buy that runs on after its worker was cancelled
    buys      \* history: of each buy, the side and what was judged fresh for it

vars == <<queue, worker, arrived, age, window, entry, listed, rows,
          thread, buys>>
feed == <<queue, arrived, age, window>>

---------------------------------------------------------------------------
(* Types                                                                    *)

Side == {"yes", "no"}

Verdict == {"none", "ok", "skip", "error"}
Rows == [embedding: Verdict, analyzer: Verdict, entry: Verdict]
NoRows == [embedding |-> "none", analyzer |-> "none", entry |-> "none"]

Entry == [lock: BOOLEAN, takes: BOOLEAN]
PlainEntry == [lock |-> FALSE, takes |-> TRUE]

\* checked: the books were checked (_BookCheck is not None); fresh: the sides
\* found within budget; inst: the section that was asked; side: its choice.
Work == [pc: {"off", "idle", "embed", "analyze", "refresh", "decide", "buy", "gone"},
         item: SUBSET Item, asked: SUBSET Side, checked: BOOLEAN,
         fresh: SUBSET Side, inst: Entry, side: SUBSET Side]

Buy == [item: Item, side: Side, checked: BOOLEAN, fresh: SUBSET Side]

At(pc) == [pc |-> pc, item |-> {}, asked |-> {}, checked |-> FALSE, fresh |-> {},
           inst |-> PlainEntry, side |-> {}]

TypeOK ==
    /\ queue \in Seq(Item) /\ Len(queue) <= QueueMax
    /\ worker \in Work
    /\ arrived \subseteq Item
    /\ age \in [Item -> 0 .. MaxAge]
    /\ window \in Window
    /\ entry \in Entry
    /\ listed \in BOOLEAN
    /\ rows \in [Item -> Rows]
    /\ thread \subseteq Buy
    /\ buys \subseteq Buy

Init ==
    /\ queue = <<>>
    /\ worker = At("off")
    /\ arrived = {}
    /\ age = [i \in Item |-> 0]
    /\ window = CHOOSE w \in Window : TRUE
    /\ entry = PlainEntry
    /\ listed = TRUE
    /\ rows = [i \in Item |-> NoRows]
    /\ thread = {}
    /\ buys = {}

---------------------------------------------------------------------------
(* Arrival and configuration                                                *)

\* The row of an item that found the queue full.
Overflowed(i) == [rows EXCEPT ![i].embedding = "error"]

\* enqueue, the news source's hook: overflow drops the newest.
Enqueue(i) ==
    /\ i \notin arrived
    /\ arrived' = arrived \cup {i}
    /\ IF Len(queue) < QueueMax
       THEN queue' = Append(queue, i) /\ UNCHANGED rows
       ELSE rows' = Overflowed(i) /\ UNCHANGED queue
    /\ UNCHANGED <<worker, age, window, entry, listed, thread, buys>>

Ages(i) ==
    /\ i \in arrived /\ age[i] < MaxAge
    /\ age' = [age EXCEPT ![i] = @ + 1]
    /\ UNCHANGED <<queue, worker, arrived, window, entry, listed, rows, thread, buys>>

\* replace_section of the entry, and set_news_max_age.
Swap ==
    /\ \E e \in Entry, w \in Window : entry' = e /\ window' = w
    /\ UNCHANGED <<queue, worker, arrived, age, listed, rows, thread, buys>>

\* A discovery poll replaces the catalog.
CatalogMoves ==
    /\ listed' = ~listed
    /\ UNCHANGED <<feed, worker, entry, rows, thread, buys>>

---------------------------------------------------------------------------
(* The worker                                                               *)

StartWorker ==
    /\ worker.pc = "off"
    /\ worker' = At("idle")
    /\ UNCHANGED <<feed, entry, listed, rows, thread, buys>>

Log(stage, verdict) ==
    \E i \in worker.item : rows' = [rows EXCEPT ![i][stage] = verdict]

Carry(pc) == [worker EXCEPT !.pc = pc]

\* Variant: an item too old is put aside without a row.
StaleRowNot(i) == rows

\* _news_is_stale logs an analyzer skip.
StaleRow(i) == [rows EXCEPT ![i].analyzer = "skip"]

\* The next item, unless it has aged past the window in the queue.
Dequeue ==
    /\ worker.pc = "idle" /\ queue # <<>>
    /\ queue' = Tail(queue)
    /\ LET i == Head(queue)
       IN  IF age[i] > window
           THEN rows' = StaleRow(i) /\ UNCHANGED worker
           ELSE worker' = [At("embed") EXCEPT !.item = {i}] /\ UNCHANGED rows
    /\ UNCHANGED <<arrived, age, window, entry, listed, thread, buys>>

\* The embedding section comes back, or raises.
Embedded(v) ==
    /\ worker.pc = "embed"
    /\ Log("embedding", v)
    /\ worker' = IF v = "ok" THEN Carry("analyze") ELSE At("idle")
    /\ UNCHANGED <<feed, entry, listed, thread, buys>>

\* _entry_tokens, of the entry section there is now.
Asked == IF entry.lock THEN {"yes"} ELSE Side

\* The analyzer comes back.  A market that left the catalog is left to the
\* entry section, and its books are not checked.
Analyzed(v) ==
    /\ worker.pc = "analyze"
    /\ Log("analyzer", v)
    /\ worker' = IF v # "ok" THEN At("idle")
                 ELSE IF listed THEN [Carry("refresh") EXCEPT !.asked = Asked]
                 ELSE [Carry("decide") EXCEPT !.inst = entry]
    /\ UNCHANGED <<feed, entry, listed, thread, buys>>

\* ensure_fresh comes back (BookCache), and each asked book is judged by its
\* age at this moment: these are within budget.
Refreshed(fresh) ==
    /\ worker.pc = "refresh" /\ fresh \subseteq worker.asked
    /\ IF fresh = {}
       THEN Log("entry", "skip") /\ worker' = At("idle")
       ELSE /\ worker' = [Carry("decide") EXCEPT !.checked = TRUE, !.fresh = fresh,
                                                 !.inst = entry]
            /\ UNCHANGED rows
    /\ UNCHANGED <<feed, entry, listed, thread, buys>>

\* The sides the section may choose: a section that takes FreshBooks leaves a
\* stale side out of its choice.
Choices ==
    (IF worker.inst.lock THEN {"yes"} ELSE Side)
      \cap (IF worker.checked /\ worker.inst.takes THEN worker.fresh ELSE Side)

\* Variant: the section is trusted with its choice.
StaleChoiceNot(s) == FALSE

\* The chosen side's book was checked and is stale.
StaleChoice(s) == worker.checked /\ s \notin worker.fresh

\* The entry section comes back without an order, or with one.
DecidesNot(v) ==
    /\ worker.pc = "decide"
    /\ Log("entry", v)
    /\ worker' = At("idle")
    /\ UNCHANGED <<feed, entry, listed, thread, buys>>

Decides(s) ==
    /\ worker.pc = "decide" /\ s \in Choices
    /\ worker.checked \/ listed
    /\ IF StaleChoice(s)
       THEN Log("entry", "skip") /\ worker' = At("idle")
       ELSE worker' = [Carry("buy") EXCEPT !.side = {s}] /\ UNCHANGED rows
    /\ UNCHANGED <<feed, entry, listed, thread, buys>>

BuyOf(w) ==
    {b \in [item: w.item, side: w.side, checked: {w.checked}, fresh: {w.fresh}] :
        w.pc = "buy"}

\* execute_buy comes back: filled; skipped; or it raised, or it filled and its
\* row could not be written, which is an error.
Bought(filled, v) ==
    /\ worker.pc = "buy"
    /\ buys' = IF filled THEN buys \cup BuyOf(worker) ELSE buys
    /\ Log("entry", v)
    /\ worker' = At("idle")
    /\ UNCHANGED <<feed, entry, listed, thread>>

---------------------------------------------------------------------------
(* Stop                                                                     *)

\* stop cancels the worker where it waits; queued items stay in the queue.
StopWorker ==
    /\ worker.pc \notin {"off", "gone"}
    /\ worker' = At("gone")
    /\ thread' = BuyOf(worker)
    /\ UNCHANGED <<feed, entry, listed, rows, buys>>

\* The thread of a cancelled buy runs to its end all the same.
ThreadEnds(filled) ==
    /\ thread # {}
    /\ buys' = IF filled THEN buys \cup thread ELSE buys
    /\ thread' = {}
    /\ UNCHANGED <<feed, worker, entry, listed, rows>>

Decide ==
    \/ \E v \in {"skip", "error"} : DecidesNot(v)
    \/ \E s \in Side : Decides(s)

BuyEnds == Bought(FALSE, "ok") \/ \E v \in {"ok", "error"} : Bought(TRUE, v)

\* What the worker awaits comes back.
WorkerGoesOn ==
    \/ \E v \in Verdict \ {"none"} : Embedded(v) \/ Analyzed(v)
    \/ \E fresh \in SUBSET Side : Refreshed(fresh)
    \/ Decide \/ BuyEnds

Next ==
    \/ \E i \in Item : Enqueue(i) \/ Ages(i)
    \/ Swap \/ CatalogMoves
    \/ StartWorker \/ Dequeue \/ WorkerGoesOn
    \/ StopWorker \/ \E filled \in BOOLEAN : ThreadEnds(filled)

Spec == Init /\ [][Next]_vars

---------------------------------------------------------------------------
(* Properties                                                               *)

\* The pipeline has spoken its last word on an item.
Decided(i) ==
    \/ rows[i].embedding \in {"skip", "error"}
    \/ rows[i].analyzer \in {"skip", "error"}
    \/ rows[i].entry # "none"

\* A side whose book was checked and found stale is never traded, whatever
\* section was swapped in while the books were fetched (_run_entry: "but a
\* stale side is never traded").
StaleSideNeverTraded == \A b \in buys : b.checked => b.side \in b.fresh

\* Every forwarded item is decided in the end, unless the worker is stopped:
\* no outcome of a section or an order keeps the worker from the next item.
EveryItemDecided ==
    \A i \in Item : i \in arrived ~> (Decided(i) \/ worker.pc = "gone")
=============================================================================
