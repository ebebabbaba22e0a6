----------------------------- MODULE MCProgress -----------------------------
(***************************************************************************)
(* What must happen in the end, in the parts of the program that retry:    *)
(* the exit monitor, the news source and the pipeline's worker, which      *)
(* share no state here.  Each behaviour is one of one of them, part; the   *)
(* others stay where they started.                                         *)
(***************************************************************************)
EXTENDS Naturals, Sequences

VARIABLES
    part,                                                         \* the part that moves
    row, claim, cache, market, saved, st, watch, pc, held, dec,   \* ExitMonitor
    sale, log, seen,
    newsState, running, newsSource, client, backoff, first, ring, \* NewsFeed
    items, worker, arrived, age, window, entry, listed, verdicts, \* Pipeline
    thread, buys

---------------------------------------------------------------------------
(* Instances                                                                *)

\* A position past its hard stop, for the default thresholds of threshold_v1.
Exit == INSTANCE ExitMonitor WITH
    V1 <- TRUE, StopPct <- 15, HardPct <- 30, TakeOn <- FALSE, TakePct <- 20,
    PeakPct <- 12, ArmPct <- 30, ArmCents <- 12, MinTrail <- 2, SweepPct <- 10,
    Confirm <- 3, MinSize <- 5, MarkLevels <- 3, MarkGap <- 5,
    Entry <- 20, Qty <- 2, Share <- 2,
    Books <- {[bids |-> <<[price |-> 13, size |-> 9]>>, asks |-> <<[price |-> 14, size |-> 9]>>]},
    Base <- 1, MaxBackoff <- 2, Manual <- FALSE

\* Two configurations, each with either of two windows.
News == INSTANCE NewsFeed WITH
    Key <- {1, 2}, Window <- {1, 2}, RingSize <- 2, MaxBackoff <- 2,
    state <- newsState, source <- newsSource

\* Two items, one of which fits into the queue.
Pipe == INSTANCE Pipeline WITH
    Item <- {1, 2}, QueueMax <- 1, Window <- {0}, MaxAge <- 1,
    queue <- items, rows <- verdicts

---------------------------------------------------------------------------
(* Specification                                                            *)

exitVars  == <<row, claim, cache, market, saved, st, watch, pc, held, dec, sale, log, seen>>
newsVars  == <<newsState, running, newsSource, client, backoff, first, ring>>
pipeVars  == <<items, worker, arrived, age, window, entry, listed, verdicts, thread, buys>>

progress == <<part, exitVars, newsVars, pipeVars>>

\* Of the exit monitor's initial states one will do for the other parts.
ProgressInit ==
    /\ part \in {"exit", "news", "pipeline"}
    /\ Exit!Init /\ News!Init /\ Pipe!Init
    /\ part # "exit" => st = Exit!NoState

ProgressNext ==
    \/ part = "exit" /\ Exit!Next /\ UNCHANGED <<part, newsVars, pipeVars>>
    \/ part = "news" /\ News!Next /\ UNCHANGED <<part, exitVars, pipeVars>>
    \/ part = "pipeline" /\ Pipe!Next /\ UNCHANGED <<part, exitVars, newsVars>>

\* The fairness of each module, while its part moves: threads and loops run on, a
\* connection that is tried again and again opens, what is awaited comes back.
ExitFairness ==
    /\ WF_exitVars(part = "exit" /\ Exit!LoopStep)
    /\ WF_exitVars(part = "exit" /\ Exit!SaleStep)
    /\ WF_exitVars(part = "exit" /\ Exit!Clock)

NewsFairness ==
    /\ WF_newsVars(part = "news" /\ News!Reconnects)
    /\ SF_newsVars(part = "news" /\ News!Opens)

PipeFairness ==
    /\ WF_pipeVars(part = "pipeline" /\ Pipe!StartWorker)
    /\ WF_pipeVars(part = "pipeline" /\ Pipe!Dequeue)
    /\ WF_pipeVars(part = "pipeline" /\ Pipe!WorkerGoesOn)

ProgressSpec ==
    /\ ProgressInit /\ [][ProgressNext]_progress
    /\ ExitFairness /\ NewsFairness /\ PipeFairness

---------------------------------------------------------------------------
(* Properties, of one part each                                             *)

\* A stop is never given up: while the book calls for one and the loop runs, the
\* sell is tried again and again, whatever failed before (_backing_off).
KeepsTrying == Exit!KeepsTrying

\* A connection that drops comes back, unless the source is stopped, restarted
\* or rejected (run_forever).
FeedComesBack == News!FeedComesBack

\* Every forwarded item is decided in the end, unless the worker is stopped.
EveryItemDecided == Pipe!EveryItemDecided
=============================================================================
