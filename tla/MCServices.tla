----------------------------- MODULE MCServices -----------------------------
(***************************************************************************)
(* Safety of services that share no state here: the ledger                 *)
(* (PortfolioStore, on two rows of one (market, side) written by two       *)
(* threads), the close protocol on paper and under a fault, a write-       *)
(* behind writer, the canvas with its reloads, the exec mode, the news     *)
(* source and the pipeline's worker.  Each behaviour is one of one         *)
(* service, part; the others stay where they started.                      *)
(***************************************************************************)
EXTENDS PortfolioStore, TLC

CONSTANTS
    DbRow, DbQueueMax, BatchSize, PruneBatch,  \* WriteBehind
    Value, MaxTasks,                           \* CanvasReload
    Wallet, Req,                               \* ModeSwitch
    NewsKey, NewsWindow, RingSize, MaxBackoff, \* NewsFeed
    Item, ItemQueueMax, ItemWindow, MaxAge     \* Pipeline

ASSUME WriterAssumption == {DbQueueMax, BatchSize, PruneBatch} \subseteq Nat \ {0}
ASSUME CanvasAssumption == 1 \in Value /\ MaxTasks \in Nat
ASSUME SwitchAssumption == 0 \notin Wallet
ASSUME NewsAssumption ==
    NewsWindow \subseteq Nat /\ NewsWindow # {} /\ RingSize \in Nat /\ MaxBackoff \in Nat
ASSUME PipeAssumption ==
    ItemWindow \subseteq Nat /\ ItemWindow # {} /\ {ItemQueueMax, MaxAge} \subseteq Nat \ {0}

VARIABLES
    part,                                                         \* the service that moves
    status, tok, qty, reason, wallet, resolved, view, aged,       \* CloseProtocol
    closing, pc, cur, snap, fill, booked, settling, rec,
    alerted, buy, faults,
    hooked, offered, queue, loop, writes, tracked, stop,          \* WriteBehind
    timedOut, db, past, pruned, sweep, written, errors, dropped, lost,
    saved, inUse, marketState, holder, waitQ, task, broken,       \* CanvasReload
    up, mem, disk, tmp, live, req, vouched, restored,             \* ModeSwitch
    checked,
    newsState, running, newsSource, client, backoff, first, ring, \* NewsFeed
    items, worker, arrived, age, window, entry, listed, verdicts, \* Pipeline
    thread, buys

---------------------------------------------------------------------------
(* Instances                                                                *)

\* The ledger: MIN_SELLABLE_QTY is two units, so one unit is a residue.
Rows   == {1, 2}
Qtys   == {2, 5}
Prices == {1, 3}
Rates  == {0, 1}
Fees   == {0, 2}

\* The threads that serve requests are alike, and so are the wallets.
Alike == Permutations(Req) \cup Permutations(Wallet)

\* Paper, every seller, two markets.  What every instance of the close protocol
\* keeps is proved in CloseProtocolProofs, so the two are taken from there.
Paper == INSTANCE CloseProtocolProofs WITH
    MaxRows <- 2, Token <- {"t1", "t2"}, Routes <- {"r1"}, BulkRoutes <- {"b1"},
    MinSellable <- 2, Share <- 4, BuyQty <- {5}, MaxFaults <- 1, Live <- FALSE

\* Live and one row, with one crash, lost write or outside transfer.
Fault == INSTANCE CloseProtocolProofs WITH
    MaxRows <- 1, Token <- {"t1"}, Routes <- {}, BulkRoutes <- {},
    MinSellable <- 2, Share <- 4, BuyQty <- {5}, MaxFaults <- 1, Live <- TRUE

Writer == INSTANCE WriteBehind WITH Row <- DbRow, QueueMax <- DbQueueMax

Canvas == INSTANCE CanvasReload WITH source <- marketState

Switch == INSTANCE ModeSwitch

News == INSTANCE NewsFeed WITH
    Key <- NewsKey, Window <- NewsWindow, state <- newsState, source <- newsSource

Pipe == INSTANCE Pipeline WITH
    QueueMax <- ItemQueueMax, Window <- ItemWindow, queue <- items, rows <- verdicts

---------------------------------------------------------------------------
(* Specification                                                            *)

ledgerVars == <<row, sums, tx>>
closeVars  == <<status, tok, qty, reason, wallet, resolved, view, aged, closing, pc, cur, snap,
                fill, booked, settling, rec, alerted, buy, faults>>
writerVars == <<hooked, offered, queue, loop, writes, tracked, stop, timedOut, db, past, pruned,
                sweep, written, errors, dropped, lost>>
canvasVars == <<saved, inUse, marketState, holder, waitQ, task, broken>>
modeVars   == <<up, mem, disk, tmp, live, req, vouched, restored, checked>>
newsVars   == <<newsState, running, newsSource, client, backoff, first, ring>>
pipeVars   == <<items, worker, arrived, age, window, entry, listed, verdicts, thread, buys>>

services == <<part, ledgerVars, closeVars, writerVars, canvasVars, modeVars, newsVars, pipeVars>>

ServicesInit ==
    /\ Init /\ Writer!Init /\ Canvas!Init /\ Switch!Init /\ News!Init /\ Pipe!Init
    /\ \/ part \in {"ledger", "paper", "writer", "canvas", "mode", "news", "pipeline"}
          /\ Paper!Init
       \/ part = "fault" /\ Fault!Init

ServicesNext ==
    /\ UNCHANGED part
    /\ \/ part = "ledger" /\ Next
       \/ part # "ledger" /\ UNCHANGED ledgerVars
    /\ \/ part = "paper" /\ Paper!Next
       \/ part = "fault" /\ Fault!Next
       \/ part \notin {"paper", "fault"} /\ UNCHANGED closeVars
    /\ \/ part = "writer" /\ Writer!Next
       \/ part # "writer" /\ UNCHANGED writerVars
    /\ \/ part = "canvas" /\ Canvas!Next
       \/ part # "canvas" /\ UNCHANGED canvasVars
    /\ \/ part = "mode" /\ Switch!Next
       \/ part # "mode" /\ UNCHANGED modeVars
    /\ \/ part = "news" /\ News!Next
       \/ part # "news" /\ UNCHANGED newsVars
    /\ \/ part = "pipeline" /\ Pipe!Next
       \/ part # "pipeline" /\ UNCHANGED pipeVars

ServicesSpec == ServicesInit /\ [][ServicesNext]_services

---------------------------------------------------------------------------
(* Properties, of one service each.  SharesConserved, PnlMatchesFills and   *)
(* NoFillAfterClose are PortfolioStore's.                                   *)

\* What each service keeps is of its type.
TypesHold ==
    /\ TypeOK /\ Writer!TypeOK /\ Canvas!TypeOK /\ Switch!TypeOK /\ News!TypeOK /\ Pipe!TypeOK
    /\ IF part = "fault" THEN Fault!TypeOK ELSE Paper!TypeOK

\* A stop that did not give up on a batch leaves every row in the table or
\* accounted for, and nothing in flight (BatchWriter.stop).
StoppedIsComplete == Writer!StoppedIsComplete

\* Once their reloads are through, however they overlapped, the sections in use
\* are those of the canvas on disk (_apply_canvas_reload).
SectionsFollowCanvas == Canvas!SectionsFollowCanvas

\* Live is in force only in a process that found the token usable when it went live,
\* and with an executor whose wallet passed the preflight in it; of the wallet, nothing
\* is said where the boot restored live (_demote_restored_live_without_token, set_mode,
\* lifespan).
LiveIsEarned == Switch!LiveIsEarned

\* The connection filters arrivals with the window of the running configuration,
\* whatever starts, stops and edits came before (apply_freshness_seconds, start).
FilterIsConfigured == News!FilterIsConfigured

\* A side whose book was checked and found stale is never traded (_run_entry).
StaleSideNeverTraded == Pipe!StaleSideNeverTraded
=============================================================================
