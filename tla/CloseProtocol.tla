--------------------------- MODULE CloseProtocol ---------------------------
(***************************************************************************)
(* How an OpenPoly position is closed.  Every actor that can end a         *)
(* position is here, with the two that can open or move one behind its     *)
(* back: the exit monitor's sweep (runtime/exit_monitor.py), the manual    *)
(* close routes (api/portfolio_routes.py), the settlement and the          *)
(* reconciliation monitors, the buy of the entry pipeline, the wallet on   *)
(* the chain and the indexer that reports it.                              *)
(*                                                                         *)
(* A step is what runs without giving up the event loop (or, for the       *)
(* worker threads that carry an order, up to the next call of the venue or *)
(* of the database).  The order itself is one step here: what the settle   *)
(* and evidence code does with the venue's answers is below this level.    *)
(* Prices, PnL and the exit decision are abstracted: whether a sweep sells *)
(* a position is a free choice.                                            *)
(***************************************************************************)
EXTENDS Naturals, FiniteSets

CONSTANTS
    MaxRows,      \* position rows the instance may create
    Token,        \* outcome tokens, one per (market, side)
    Routes,       \* request slots of POST /positions/{id}/close
    BulkRoutes,   \* request slots of POST /positions/close-all
    MinSellable,  \* MIN_SELLABLE_QTY, in units of quantity
    Share,        \* MIN_SELL_SHARES, in units of quantity
    BuyQty,       \* quantities a buy order may fill
    MaxFaults,    \* crashes writes and outside transfers allowed
    Live          \* TRUE: the live executor; FALSE: the paper executor

ASSUME RowsAssumption == MaxRows \in Nat \ {0}
ASSUME UnitsAssumption ==
    /\ MinSellable \in Nat \ {0}
    /\ Share \in Nat \ {0}
    /\ MinSellable <= Share
ASSUME BuyAssumption == BuyQty \subseteq Nat \ {0}
ASSUME FaultsAssumption == MaxFaults \in Nat
ASSUME LiveAssumption == Live \in BOOLEAN
ASSUME SellersAssumption ==
    /\ "exit" \notin Routes \cup BulkRoutes
    /\ Routes \cap BulkRoutes = {}

VARIABLES
    status,    \* position.status of each row, "none" before its insert
    tok,       \* the row's token_id
    qty,       \* the row's qty
    reason,    \* the row's close_reason
    wallet,    \* what the wallet holds of each token, on the chain
    resolved,  \* the tokens whose market has resolved
    view,      \* per token, the holdings ("held?") the indexer may report
    aged,      \* the rows older than the reconciliation grace
    closing,   \* closing_registry._closing
    pc,        \* where each seller is
    cur,       \* the row each seller has claimed
    snap,      \* the qty of each row a seller still has on its list; 0: absent
    fill,      \* what a seller's order sold
    booked,    \* what record_sell wrote for it
    settling,  \* the settlement monitor's list while Gamma is queried
    rec,       \* the reconciliation monitor: step, its list, its holdings
    alerted,   \* ReconciliationMonitor._alerted
    buy,       \* the entry pipeline's buy: step, token, fill
    faults     \* faults so far

ledger == <<status, tok, qty, reason>>
chain  == <<wallet, resolved, view>>
sell   == <<closing, pc, cur, snap, fill, booked>>
vars   == <<ledger, chain, aged, sell, settling, rec, alerted, buy, faults>>

-----------------------------------------------------------------------------
Pid       == 1..MaxRows
NoRow     == 0
Exit      == "exit"
Sellers   == {Exit} \cup Routes \cup BulkRoutes
NoToken   == "no token"
Reasons   == {"none", "exit", "manual", "settlement", "reconciled"}
InThread  == {"gate", "post", "persist"}

Min2(a, b)  == IF a <= b THEN a ELSE b
OpenPids    == {p \in Pid : status[p] = "open"}
Unused      == {p \in Pid : status[p] = "none"}
OpenFor(t)  == {p \in OpenPids : tok[p] = t}
Opens       == [p \in Pid |-> IF status[p] = "open" THEN qty[p] ELSE 0]
Nothing     == [p \in Pid |-> 0]
Listed(s)   == {p \in Pid : s[p] # 0}
First(p, S) == p \in S /\ \A q \in S : p <= q
Selling(s)  == pc[s] \in InThread \cup {"release"}
Held(w, t)  == w[t] >= MinSellable

\* The order size for q: nothing below one share, else floored to the venue's
\* precision.
Quantize(q) == IF q < Share THEN 0 ELSE q - (q % MinSellable)

Reason(s) == IF s = Exit THEN "exit" ELSE "manual"

Init ==
    /\ status = [p \in Pid |-> "none"]
    /\ tok = [p \in Pid |-> NoToken]
    /\ qty = [p \in Pid |-> 0]
    /\ reason = [p \in Pid |-> "none"]
    /\ wallet = [t \in Token |-> 0]
    /\ resolved = {}
    /\ view = [t \in Token |-> {FALSE}]
    /\ aged = {}
    /\ closing = {}
    /\ pc = [s \in Sellers |-> "idle"]
    /\ cur = [s \in Sellers |-> NoRow]
    /\ snap = [s \in Sellers |-> Nothing]
    /\ fill = [s \in Sellers |-> 0]
    /\ booked = [s \in Sellers |-> 0]
    /\ settling = {}
    /\ rec = [at |-> "idle", opens |-> {}, held |-> {}]
    /\ alerted = {}
    /\ buy = [at |-> "idle", tok |-> NoToken, fill |-> 0]
    /\ faults = 0

-----------------------------------------------------------------------------
(* The claim.  Taken on the event loop, with no await after the checks.    *)

Claim(s, p, list) ==
    /\ closing' = closing \cup {p}
    /\ pc' = [pc EXCEPT ![s] = "gate"]
    /\ cur' = [cur EXCEPT ![s] = p]
    /\ snap' = [snap EXCEPT ![s] = list]
    /\ UNCHANGED <<fill, booked>>

SellerOnly == UNCHANGED <<ledger, chain, aged, settling, rec, alerted, buy, faults>>

\* _tick_once: the open rows are read once, at the top of the sweep.
ExitSweep ==
    /\ pc[Exit] = "idle"
    /\ OpenPids # {}
    /\ pc' = [pc EXCEPT ![Exit] = "sweep"]
    /\ snap' = [snap EXCEPT ![Exit] = Opens]
    /\ UNCHANGED <<closing, cur, fill, booked>>
    /\ SellerOnly

\* _evaluate: the row is held (within thresholds, unmarkable, backing off,
\* dust, no longer open, claimed by another seller).
ExitPass(p) ==
    /\ pc[Exit] = "sweep"
    /\ First(p, Listed(snap[Exit]))
    /\ snap' = [snap EXCEPT ![Exit][p] = 0]
    /\ UNCHANGED <<closing, pc, cur, fill, booked>>
    /\ SellerOnly

\* _evaluate: a close was decided on the listed row; its status is read again
\* and the registry consulted before the claim.
ExitClaim(p) ==
    /\ pc[Exit] = "sweep"
    /\ First(p, Listed(snap[Exit]))
    /\ snap[Exit][p] >= Share
    /\ status[p] = "open"
    /\ p \notin closing
    /\ Claim(Exit, p, snap[Exit])
    /\ SellerOnly

ExitDone ==
    /\ pc[Exit] = "sweep"
    /\ Listed(snap[Exit]) = {}
    /\ pc' = [pc EXCEPT ![Exit] = "idle"]
    /\ UNCHANGED <<closing, cur, snap, fill, booked>>
    /\ SellerOnly

\* Faulty variant of RouteClose: "open in the ledger" taken for "unclaimed".
RouteCloseUnchecked(r, p) ==
    /\ pc[r] = "idle"
    /\ status[p] = "open"
    /\ Claim(r, p, [Nothing EXCEPT ![p] = qty[p]])
    /\ SellerOnly

\* close_position (the route): reads the open rows, checks the registry and
\* claims in one stretch.
RouteClose(r, p) ==
    /\ pc[r] = "idle"
    /\ status[p] = "open"
    /\ p \notin closing
    /\ Claim(r, p, [Nothing EXCEPT ![p] = qty[p]])
    /\ SellerOnly

\* The bulk loop has nothing left to sell, or its next row is p.
BulkEnds(b, claims) ==
    /\ closing' = claims
    /\ pc' = [pc EXCEPT ![b] = "idle"]
    /\ cur' = [cur EXCEPT ![b] = NoRow]
    /\ snap' = [snap EXCEPT ![b] = Nothing]

BulkClaims(b, p, list, claims) ==
    /\ closing' = claims \cup {p}
    /\ pc' = [pc EXCEPT ![b] = "gate"]
    /\ cur' = [cur EXCEPT ![b] = p]
    /\ snap' = [snap EXCEPT ![b] = [q \in Pid |-> IF p <= q THEN list[q] ELSE 0]]

\* close_all_positions: what the loop does from one await to the next.  The
\* rows ahead that are claimed are skipped; the first that is not is claimed
\* from the list as it was read.
BulkAdvance(b, list, claims) ==
    \/ Listed(list) \ claims = {} /\ BulkEnds(b, claims)
    \/ \E p \in Pid : First(p, Listed(list) \ claims) /\ BulkClaims(b, p, list, claims)

BulkClose(b) ==
    /\ pc[b] = "idle"
    /\ OpenPids # {}
    /\ BulkAdvance(b, Opens, closing)
    /\ UNCHANGED <<fill, booked>>
    /\ SellerOnly

\* Faulty variant of Release: the claim is not dropped.
ReleaseLeaks(s) ==
    /\ pc[s] = "release"
    /\ fill' = [fill EXCEPT ![s] = 0]
    /\ booked' = [booked EXCEPT ![s] = 0]
    /\ snap' = [snap EXCEPT ![s][cur[s]] = 0]
    /\ cur' = [cur EXCEPT ![s] = NoRow]
    /\ pc' = [pc EXCEPT ![s] = IF s = Exit THEN "sweep" ELSE "idle"]
    /\ UNCHANGED closing
    /\ SellerOnly

\* The finally that ends every sell: the claim is dropped, and the sweep, the
\* request or the bulk loop goes on.
Release(s) ==
    /\ pc[s] = "release"
    /\ fill' = [fill EXCEPT ![s] = 0]
    /\ booked' = [booked EXCEPT ![s] = 0]
    /\ LET list   == [snap[s] EXCEPT ![cur[s]] = 0]
           claims == closing \ {cur[s]}
       IN  IF s \in BulkRoutes
           THEN BulkAdvance(s, list, claims)
           ELSE /\ closing' = claims
                /\ pc' = [pc EXCEPT ![s] = IF s = Exit THEN "sweep" ELSE "idle"]
                /\ cur' = [cur EXCEPT ![s] = NoRow]
                /\ snap' = [snap EXCEPT ![s] = list]
    /\ SellerOnly

-----------------------------------------------------------------------------
(* The sell, in its worker thread.                                         *)

Goto(s, step) == pc' = [pc EXCEPT ![s] = step]

\* The indexer will report the new holding, and for a while may report the old.
Moves(t, w) ==
    /\ wallet' = w
    /\ view' = [view EXCEPT ![t] = @ \cup {Held(w, t)}]

\* The executor gives up before posting: no book, dust, balance not synced.
SellSkip(s) ==
    /\ pc[s] = "gate"
    /\ Goto(s, "release")
    /\ UNCHANGED <<closing, cur, snap, fill, booked>>
    /\ SellerOnly

\* LiveExecutor._execute_sell: the balance gate covers the order size.
SellGate(s) ==
    /\ Live
    /\ pc[s] = "gate"
    /\ LET size == Quantize(snap[s][cur[s]])
       IN  size > 0 /\ wallet[tok[cur[s]]] >= size
    /\ Goto(s, "post")
    /\ UNCHANGED <<closing, cur, snap, fill, booked>>
    /\ SellerOnly

\* The order crosses and takes what the book has, never more than the wallet.
SellPost(s) ==
    /\ pc[s] = "post"
    /\ LET t == tok[cur[s]]
       IN  \E f \in 0..Min2(Quantize(snap[s][cur[s]]), wallet[t]) :
             /\ f > 0 => t \notin resolved
             /\ Moves(t, [wallet EXCEPT ![t] = @ - f])
             /\ fill' = [fill EXCEPT ![s] = f]
             /\ Goto(s, IF f = 0 THEN "release" ELSE "persist")
    /\ UNCHANGED <<closing, cur, snap, booked, resolved>>
    /\ UNCHANGED <<ledger, aged, settling, rec, alerted, buy, faults>>

\* PaperExecutor.execute_sell up to its write: the listed qty, as far as the
\* book is deep.
PaperFill(s) ==
    /\ ~Live
    /\ pc[s] = "gate"
    /\ \E depth \in 1..snap[s][cur[s]] :
         /\ Quantize(depth) > 0
         /\ fill' = [fill EXCEPT ![s] = Quantize(depth)]
    /\ Goto(s, "persist")
    /\ UNCHANGED <<closing, cur, snap, booked>>
    /\ SellerOnly

\* ExecutorDispatcher.execute_sell: the executor of the mode in force.
ExecuteSell(s) == IF Live THEN SellGate(s) ELSE PaperFill(s)

\* Faulty variants of RecordSell: a partial sale that closes the row, and one
\* that leaves its qty as it was.
RecordSellCloses(p, f, why) ==
    /\ status' = [status EXCEPT ![p] = "closed"]
    /\ qty' = [qty EXCEPT ![p] = Min2(f, @)]
    /\ reason' = [reason EXCEPT ![p] = why]
    /\ UNCHANGED tok

RecordSellKeeps(p, f, why) ==
    LET closes == qty[p] - Min2(f, qty[p]) < MinSellable
    IN  /\ status' = [status EXCEPT ![p] = IF closes THEN "closed" ELSE "open"]
        /\ reason' = [reason EXCEPT ![p] = IF closes THEN why ELSE @]
        /\ UNCHANGED <<tok, qty>>

\* PortfolioStore.record_sell on an open row.
RecordSell(p, f, why) ==
    LET sold     == Min2(f, qty[p])
        residual == qty[p] - sold
        closes   == residual < MinSellable
    IN  /\ status' = [status EXCEPT ![p] = IF closes THEN "closed" ELSE "open"]
        /\ qty' = [qty EXCEPT ![p] = IF closes THEN sold ELSE residual]
        /\ reason' = [reason EXCEPT ![p] = IF closes THEN why ELSE @]
        /\ UNCHANGED tok

SellPersist(s) ==
    /\ pc[s] = "persist"
    /\ status[cur[s]] = "open"
    /\ RecordSell(cur[s], fill[s], Reason(s))
    /\ booked' = [booked EXCEPT ![s] = Min2(fill[s], qty[cur[s]])]
    /\ Goto(s, "release")
    /\ UNCHANGED <<closing, cur, snap, fill>>
    /\ UNCHANGED <<chain, aged, settling, rec, alerted, buy, faults>>

\* record_sell raises: the row is not open any more, or the database stayed
\* locked through every attempt (a fault).  The tokens are gone either way.
SellPersistFails(s) ==
    /\ pc[s] = "persist"
    /\ \/ status[cur[s]] # "open" /\ UNCHANGED faults
       \/ faults < MaxFaults /\ faults' = faults + 1
    /\ fill' = [fill EXCEPT ![s] = 0]
    /\ Goto(s, "release")
    /\ UNCHANGED <<closing, cur, snap, booked>>
    /\ UNCHANGED <<ledger, chain, aged, settling, rec, alerted, buy>>

-----------------------------------------------------------------------------
(* The two monitors that close without selling.                            *)

Close(S, why) ==
    /\ status' = [p \in Pid |-> IF p \in S THEN "closed" ELSE status[p]]
    /\ reason' = [p \in Pid |-> IF p \in S THEN why ELSE reason[p]]
    /\ UNCHANGED <<tok, qty>>

\* SettlementMonitor._tick_once up to its await.
SettleFetch ==
    /\ settling = {}
    /\ OpenPids # {}
    /\ settling' = OpenPids
    /\ UNCHANGED <<ledger, chain, aged, sell, rec, alerted, buy, faults>>

\* Faulty variants of SettleProcess: claims are ignored; close_position does
\* not look at the row's status.
SettleProcessUnclaimed(M) ==
    /\ settling # {}
    /\ Close({p \in settling : tok[p] \in M /\ status[p] = "open"}, "settlement")
    /\ settling' = {}
    /\ UNCHANGED <<chain, aged, sell, rec, alerted, buy, faults>>

SettleProcessBlind(M) ==
    /\ settling # {}
    /\ Close({p \in settling \ closing : tok[p] \in M}, "settlement")
    /\ settling' = {}
    /\ UNCHANGED <<chain, aged, sell, rec, alerted, buy, faults>>

\* The rest of the tick: Gamma answered with the resolved markets M.
SettleProcess(M) ==
    /\ settling # {}
    /\ Close({p \in settling \ closing : tok[p] \in M /\ status[p] = "open"}, "settlement")
    /\ settling' = {}
    /\ UNCHANGED <<chain, aged, sell, rec, alerted, buy, faults>>

\* ReconciliationMonitor._tick_once up to its await.
RecFetch ==
    /\ Live
    /\ rec.at = "idle"
    /\ rec' = [at |-> "fetch", opens |-> OpenPids, held |-> {}]
    /\ UNCHANGED <<ledger, chain, aged, sell, settling, alerted, buy, faults>>

\* The indexer answers, or the fetch fails and the tick ends.
RecAnswer ==
    /\ rec.at = "fetch"
    /\ \/ \E H \in SUBSET Token :
            /\ \A t \in Token : (t \in H) \in view[t]
            /\ rec' = [rec EXCEPT !.at = "got", !.held = H]
       \/ rec' = [at |-> "idle", opens |-> {}, held |-> {}]
    /\ UNCHANGED <<ledger, chain, aged, sell, settling, alerted, buy, faults>>

\* Faulty variant of RecFlat: claims are ignored.
RecFlatClaimed == {p \in rec.opens : p \in aged /\ tok[p] \notin rec.held}

\* The listed rows the wallet does not hold, old enough and not being sold.
RecFlat == {p \in rec.opens \ closing : p \in aged /\ tok[p] \notin rec.held}

\* The rest of the tick: the reverse diff alerts, the flat rows close.
RecProcess ==
    /\ rec.at = "got"
    /\ alerted' = alerted \cup (rec.held \ {tok[p] : p \in rec.opens})
    /\ Close({p \in RecFlat : status[p] = "open"}, "reconciled")
    /\ rec' = [at |-> "idle", opens |-> {}, held |-> {}]
    /\ UNCHANGED <<chain, aged, sell, settling, buy, faults>>

-----------------------------------------------------------------------------
(* The buy of the entry pipeline: one worker, one order at a time.         *)

\* Faulty variant of BuyCheck: no look at the open row of the token.
BuyCheckBlind(t) ==
    /\ buy.at = "idle"
    /\ t \notin resolved
    /\ Unused # {}
    /\ buy' = [at |-> "post", tok |-> t, fill |-> 0]
    /\ UNCHANGED <<ledger, chain, aged, sell, settling, rec, alerted, faults>>

\* LiveExecutor.execute_buy up to its order: no open row of the token.
BuyCheck(t) ==
    /\ buy.at = "idle"
    /\ t \notin resolved
    /\ OpenFor(t) = {}
    /\ Unused # {}
    /\ buy' = [at |-> "post", tok |-> t, fill |-> 0]
    /\ UNCHANGED <<ledger, chain, aged, sell, settling, rec, alerted, faults>>

\* The order fills or does not.
BuyPost ==
    /\ buy.at = "post"
    /\ \/ \E f \in BuyQty :
            /\ buy.tok \notin resolved
            /\ buy' = [buy EXCEPT !.at = "persist", !.fill = f]
            /\ IF Live
               THEN Moves(buy.tok, [wallet EXCEPT ![buy.tok] = @ + f])
               ELSE UNCHANGED <<wallet, view>>
       \/ /\ buy' = [at |-> "idle", tok |-> NoToken, fill |-> 0]
          /\ UNCHANGED <<wallet, view>>
    /\ UNCHANGED resolved
    /\ UNCHANGED <<ledger, aged, sell, settling, rec, alerted, faults>>

NoBuy == buy' = [at |-> "idle", tok |-> NoToken, fill |-> 0]

\* PortfolioStore.open_position: the next row, unless the partial unique
\* index refuses a second open row of the token.
BuyPersist ==
    /\ buy.at = "persist"
    /\ OpenFor(buy.tok) = {}
    /\ \E p \in Pid :
         /\ First(p, Unused)
         /\ status' = [status EXCEPT ![p] = "open"]
         /\ tok' = [tok EXCEPT ![p] = buy.tok]
         /\ qty' = [qty EXCEPT ![p] = buy.fill]
         /\ UNCHANGED reason
    /\ NoBuy
    /\ UNCHANGED <<chain, aged, sell, settling, rec, alerted, faults>>

\* open_position raises: the index refuses, or the database stayed locked.
BuyPersistFails ==
    /\ buy.at = "persist"
    /\ OpenFor(buy.tok) # {} \/ faults < MaxFaults
    /\ faults' = IF OpenFor(buy.tok) # {} THEN faults ELSE faults + 1
    /\ NoBuy
    /\ UNCHANGED <<ledger, chain, aged, sell, settling, rec, alerted>>

-----------------------------------------------------------------------------
(* The world.                                                              *)

MarketResolves(t) ==
    /\ t \notin resolved
    /\ resolved' = resolved \cup {t}
    /\ UNCHANGED <<ledger, wallet, view, aged, sell, settling, rec, alerted, buy, faults>>

\* The indexer's lag is shorter than the grace: it has caught up with the
\* wallet before a row is old enough to be reconciled.
IndexerCatchesUp(t) ==
    /\ view[t] # {Held(wallet, t)}
    /\ view' = [view EXCEPT ![t] = {Held(wallet, t)}]
    /\ UNCHANGED <<ledger, wallet, resolved, aged, sell, settling, rec, alerted, buy, faults>>

Ages(p) ==
    /\ Live
    /\ status[p] = "open"
    /\ p \notin aged
    /\ view[tok[p]] = {Held(wallet, tok[p])}
    /\ rec.at # "got"
    /\ aged' = aged \cup {p}
    /\ UNCHANGED <<ledger, chain, sell, settling, rec, alerted, buy, faults>>

\* The owner sells or moves the tokens outside the program.
OutsideExit(t) ==
    /\ Live
    /\ faults < MaxFaults
    /\ wallet[t] > 0
    /\ Moves(t, [wallet EXCEPT ![t] = 0])
    /\ faults' = faults + 1
    /\ UNCHANGED <<ledger, resolved, aged, sell, settling, rec, alerted, buy>>

\* The process dies and is started again: the database and the chain remain.
Crash ==
    /\ faults < MaxFaults
    /\ faults' = faults + 1
    /\ closing' = {}
    /\ pc' = [s \in Sellers |-> "idle"]
    /\ cur' = [s \in Sellers |-> NoRow]
    /\ snap' = [s \in Sellers |-> Nothing]
    /\ fill' = [s \in Sellers |-> 0]
    /\ booked' = [s \in Sellers |-> 0]
    /\ settling' = {}
    /\ rec' = [at |-> "idle", opens |-> {}, held |-> {}]
    /\ alerted' = {}
    /\ NoBuy
    /\ UNCHANGED <<ledger, chain, aged>>

-----------------------------------------------------------------------------
SellStep(s) ==
    \/ SellSkip(s)
    \/ ExecuteSell(s)
    \/ SellPost(s)
    \/ SellPersist(s)
    \/ SellPersistFails(s)
    \/ Release(s)

Next ==
    \/ ExitSweep \/ ExitDone
    \/ \E p \in Pid : ExitPass(p) \/ ExitClaim(p)
    \/ \E r \in Routes, p \in Pid : RouteClose(r, p)
    \/ \E b \in BulkRoutes : BulkClose(b)
    \/ \E s \in Sellers : SellStep(s)
    \/ SettleFetch
    \/ \E M \in SUBSET resolved : SettleProcess(M)
    \/ RecFetch \/ RecAnswer \/ RecProcess
    \/ \E t \in Token : BuyCheck(t)
    \/ BuyPost \/ BuyPersist \/ BuyPersistFails
    \/ \E t \in Token : MarketResolves(t) \/ IndexerCatchesUp(t) \/ OutsideExit(t)
    \/ \E p \in Pid : Ages(p)
    \/ Crash

Spec == Init /\ [][Next]_vars

-----------------------------------------------------------------------------
(* Fairness.  Worker threads and the loops that wait for them run on; the  *)
(* monitors tick for ever; a fetch that keeps being made succeeds in the   *)
(* end.  A monitor skips a claimed row, so that it closes one needs that   *)
(* its steps find the row unclaimed again and again: a sell holds its      *)
(* claim for seconds, the sweeps are minutes apart, and the exit monitor   *)
(* backs off a close that failed.                                          *)

RecGot == RecAnswer /\ rec'.at = "got"

\* The tick of a monitor that closes p, p being unclaimed.
SettleCloses(p) == p \in settling \ closing /\ tok[p] \in resolved /\ SettleProcess(resolved)
RecCloses(p)    == p \in RecFlat /\ RecProcess

FindsUnclaimed(p) ==
    /\ SF_vars(p \notin closing /\ SettleFetch)
    /\ SF_vars(SettleCloses(p))
    /\ SF_vars(p \notin closing /\ RecFetch)
    /\ SF_vars(p \notin closing /\ RecGot)
    /\ SF_vars(RecCloses(p))

Fairness ==
    /\ \A s \in Sellers : WF_vars(SellStep(s))
    /\ WF_vars(RecAnswer)
    /\ WF_vars(RecProcess)
    /\ WF_vars(\E M \in SUBSET resolved : SettleProcess(M))
    /\ \A t \in Token : WF_vars(IndexerCatchesUp(t))
    /\ \A p \in Pid : SF_vars(Ages(p)) /\ FindsUnclaimed(p)

FairSpec == Spec /\ Fairness

-----------------------------------------------------------------------------
(* Properties.                                                             *)

\* The type of every variable.
TypeOK ==
    /\ status \in [Pid -> {"none", "open", "closed"}]
    /\ tok \in [Pid -> Token \cup {NoToken}]
    /\ \A p \in Pid : status[p] # "none" => tok[p] \in Token
    /\ qty \in [Pid -> Nat]
    /\ reason \in [Pid -> Reasons]
    /\ wallet \in [Token -> Nat]
    /\ resolved \subseteq Token
    /\ view \in [Token -> SUBSET BOOLEAN]
    /\ aged \subseteq Pid
    /\ closing \subseteq Pid
    /\ pc \in [Sellers -> InThread \cup {"idle", "sweep", "release"}]
    /\ cur \in [Sellers -> Pid \cup {NoRow}]
    /\ \A s \in Sellers : Selling(s) => cur[s] \in Pid /\ status[cur[s]] # "none"
    /\ snap \in [Sellers -> [Pid -> Nat]]
    /\ fill \in [Sellers -> Nat]
    /\ booked \in [Sellers -> Nat]
    /\ settling \subseteq Pid
    /\ rec \in [at : {"idle", "fetch", "got"}, opens : SUBSET Pid, held : SUBSET Token]
    /\ alerted \subseteq Token
    /\ buy \in [at : {"idle", "post", "persist"}, tok : Token \cup {NoToken}, fill : Nat]
    /\ buy.at # "idle" => buy.tok \in Token
    /\ faults \in 0..MaxFaults

\* Nobody sells a position twice: no two sellers are selling one row, and the
\* registry holds exactly the rows being sold, so that no claim outlives its
\* sell (closing_registry.py; docs/architecture/07, the claim protocol).
OneSeller ==
    /\ \A s, r \in Sellers : Selling(s) /\ Selling(r) /\ cur[s] = cur[r] => s = r
    /\ closing = {cur[s] : s \in {x \in Sellers : Selling(x)}}

\* A row that is being sold stays open until its sale is written: neither
\* monitor closes it and no seller starts on a row that is closed already.
\* Otherwise record_sell raises and the exit price is lost.
ClaimedRowStaysOpen ==
    \A s \in Sellers : pc[s] \in InThread => status[cur[s]] = "open"

\* A buy on the chain finds its token free in the ledger, so open_position is
\* not refused by the unique index and the tokens get a row.
BuyIsBookable == buy.at = "persist" => OpenFor(buy.tok) = {}

\* What the sellers of row p have sold and not yet written.
InFlight(p) == LET S == {s \in Sellers : pc[s] = "persist" /\ cur[s] = p}
               IN  IF S = {} THEN 0 ELSE fill[CHOOSE s \in S : TRUE]

\* As long as nothing failed, the wallet covers every open row: its qty is on
\* the chain, but for what a seller sold and is about to write.
Backed ==
    Live /\ faults = 0 =>
        \A p \in OpenPids : qty[p] <= wallet[tok[p]] + InFlight(p)

\* A sale is written for what it sold: the executor's report and the fill row
\* agree (ExecResult.qty, Fill.qty).  A paper sweep whose list is outdated
\* breaks it.
BookedInFull ==
    \A s \in Sellers : pc[s] = "release" => booked[s] = fill[s]

\* The wallet as the abstract specification sees it: a sale leaves it when it
\* is written, a buy enters it when its row does.
Sold(t)   == LET S == {s \in Sellers : pc[s] = "persist" /\ tok[cur[s]] = t}
             IN  IF S = {} THEN 0 ELSE fill[CHOOSE s \in S : TRUE]
Bought(t) == IF buy.at = "persist" /\ buy.tok = t THEN buy.fill ELSE 0

Abstract == INSTANCE Custody WITH
    Quantity <- UNION {1..q : q \in BuyQty},
    holdings <- [t \in Token |-> (wallet[t] + Sold(t)) - Bought(t)]

\* While nothing fails, all of this amounts to indivisible trades on a ledger
\* that agrees with the wallet; in particular nothing is ever reconciled.
ImplementsCustody == Abstract!Spec

\* Reconciliation closes a row, at a PnL of zero, only when the wallet really
\* is flat in its token and no sale of it is under way.
ReconcilesOnlyFlat ==
    [][\A p \in Pid :
          status[p] = "open" /\ reason'[p] = "reconciled" =>
              wallet[tok[p]] < MinSellable /\ p \notin closing]_vars

\* A closed row is final: nothing reopens it or writes it again.
ClosedIsFinal ==
    [][\A p \in Pid :
          status[p] = "closed" =>
              <<status'[p], tok'[p], qty'[p], reason'[p]>> = <<status[p], tok[p], qty[p], reason[p]>>]_vars

\* The reverse diff alerts only for a token the ledger has no open row for
\* (reconciliation_monitor.py, the comment above the diff).  A buy written
\* while the holdings are fetched breaks it.
AlertIsUntracked ==
    [][\A t \in alerted' \ alerted : OpenFor(t) = {}]_vars

\* A row that no sell can close any more - its market has resolved, or its
\* tokens are gone from the wallet - is closed in the end by a monitor, whoever
\* else tries and whatever failed (closing_registry.clear_closing).
Unsellable(p) ==
    status[p] = "open" /\ (tok[p] \in resolved \/ wallet[tok[p]] < MinSellable)

UnsellableRowCloses == \A p \in Pid : Unsellable(p) ~> status[p] = "closed"
=============================================================================
