------------------------- MODULE CloseBackingProofs -------------------------
(***************************************************************************)
(* The wallet and the ledger of CloseProtocol, in three parts.             *)
(*                                                                         *)
(* Backed: as long as nothing fails, the wallet covers the ledger.  It is  *)
(* not inductive by itself.  That a sale takes tokens of its own row only  *)
(* needs that its row is open (ClaimedRowStaysOpen) and the only one of    *)
(* its token (OneOpenPerToken); that a new row is covered needs that no    *)
(* sale runs between the buy's fill and its write.                         *)
(*                                                                         *)
(* ReconcilesOnlyFlat, whatever fails.                                     *)
(*                                                                         *)
(* ImplementsCustody, from the invariants of the other two.                *)
(***************************************************************************)
EXTENDS CloseProtocolProofs

\* Backed with its seller named: the row is covered as it is, or with what
\* its seller is about to write.
Covered ==
    \A p \in OpenPids :
        \/ qty[p] <= wallet[tok[p]]
        \/ \E s \in Sellers : /\ pc[s] = "persist" /\ cur[s] = p
                              /\ qty[p] <= wallet[tok[p]] + fill[s]

BuyCovered == buy.at = "persist" => buy.fill <= wallet[buy.tok]

CoverInv == faults = 0 => Covered /\ BuyCovered

Guards == TInv /\ OneSeller /\ ClaimedRowStaysOpen /\ BuyIsFree /\ OneOpenPerToken

LEMMA CoverImpliesBacked == TInv /\ OneSeller /\ CoverInv => Backed
<1> SUFFICES ASSUME TypeOK, OneSeller, Covered, NEW p \in OpenPids
             PROVE  qty[p] <= wallet[tok[p]] + InFlight(p)
  BY DEF TInv, CoverInv, Backed
<1> DEFINE S == {s \in Sellers : pc[s] = "persist" /\ cur[s] = p}
<1>1. p \in Pid /\ qty[p] \in Nat /\ wallet[tok[p]] \in Nat
  BY DEF OpenPids, TypeOK
<1>2. CASE S = {}
  <2>1. InFlight(p) = 0
    BY <1>2 DEF InFlight
  <2>2. qty[p] <= wallet[tok[p]]
    BY <1>2 DEF Covered
  <2>3. QED
    BY <1>1, <2>1, <2>2
<1>3. CASE S # {}
  <2>1. PICK s \in S : TRUE
    BY <1>3
  <2>2. \A x \in S : x = s
    BY <2>1 DEF OneSeller, Selling, InThread
  <2>3. InFlight(p) = fill[s]
    BY <1>3, <2>1, <2>2 DEF InFlight
  <2>4. fill[s] \in Nat
    BY <2>1 DEF TypeOK
  <2>5. QED
    BY <1>1, <2>1, <2>2, <2>3, <2>4 DEF Covered
<1>4. QED
  BY <1>2, <1>3

-----------------------------------------------------------------------------
\* A step that moves no token, writes no row and disturbs no sale that is
\* about to be written.
LEMMA QuietStep ==
    ASSUME Covered, BuyCovered, UNCHANGED <<status, tok, qty, wallet, buy>>,
           \A s \in Sellers : pc[s] = "persist" =>
               pc'[s] = "persist" /\ cur'[s] = cur[s] /\ fill'[s] = fill[s]
    PROVE  Covered' /\ BuyCovered'
BY DEF Covered, BuyCovered, OpenPids

LEMMA LoopCover ==
    ASSUME TypeOK, BulkRoutes = {}, Covered, BuyCovered, LoopStep
    PROVE  Covered' /\ BuyCovered'
<1>1. ASSUME NEW s \in Sellers, pc[s] = "persist"
      PROVE  pc'[s] = "persist" /\ cur'[s] = cur[s] /\ fill'[s] = fill[s]
  BY <1>1 DEF LoopStep, ExitSweep, ExitDone, ExitPass, ExitClaim, RouteClose, Claim, Release, TypeOK
<1>2. UNCHANGED <<status, tok, qty, wallet, buy>>
  BY DEF LoopStep, ExitSweep, ExitDone, ExitPass, ExitClaim, RouteClose, Release, SellerOnly,
         ledger, chain
<1>3. QED
  BY <1>1, <1>2, QuietStep

LEMMA PostCover ==
    ASSUME Guards, Covered, BuyCovered, NEW s \in Sellers, SellPost(s)
    PROVE  Covered' /\ BuyCovered'
<1> DEFINE p == cur[s]
           t == tok[p]
<1>1. TypeOK /\ pc[s] = "post" /\ p \in Pid /\ status[p] = "open" /\ t \in Token
  BY DEF Guards, TInv, TypeOK, SellPost, Selling, InThread, ClaimedRowStaysOpen
<1>2. wallet[t] \in Nat /\ snap[s][p] \in Nat /\ qty[p] \in Nat
  BY <1>1 DEF TypeOK
<1>3. PICK f \in 0..Min2(Quantize(snap[s][p]), wallet[t]) :
        /\ wallet' = [wallet EXCEPT ![t] = @ - f]
        /\ fill' = [fill EXCEPT ![s] = f]
        /\ Goto(s, IF f = 0 THEN "release" ELSE "persist")
  BY DEF SellPost, Moves
<1>4. f \in Nat /\ f <= wallet[t]
  BY <1>2, <1>3, QuantizeFacts DEF Min2
<1>5. UNCHANGED <<status, tok, qty, cur, buy>>
  BY DEF SellPost, ledger
<1>6. wallet'[t] = wallet[t] - f /\ fill'[s] = f /\ pc'[s] = (IF f = 0 THEN "release" ELSE "persist")
  BY <1>1, <1>3 DEF Goto, TypeOK
<1>7. \A u \in Token : u # t => wallet'[u] = wallet[u]
  BY <1>1, <1>3 DEF TypeOK
<1>8. \A x \in Sellers : x # s => pc'[x] = pc[x] /\ fill'[x] = fill[x]
  BY <1>1, <1>3 DEF Goto, TypeOK
<1>9. ASSUME NEW q \in OpenPids, q # p
      PROVE  \/ qty[q] <= wallet'[tok[q]]
             \/ \E x \in Sellers : pc'[x] = "persist" /\ cur[x] = q /\ qty[q] <= wallet'[tok[q]] + fill'[x]
  <2>1. tok[q] # t /\ tok[q] \in Token
    BY <1>1, <1>9 DEF Guards, OneOpenPerToken, OpenPids, TypeOK
  <2>2. wallet'[tok[q]] = wallet[tok[q]]
    BY <1>7, <2>1
  <2>3. \A x \in Sellers : cur[x] = q => x # s
    BY <1>9
  <2>4. QED
    BY <1>8, <2>2, <2>3 DEF Covered
<1>10. qty[p] <= wallet[t]
  <2>1. \A x \in Sellers : pc[x] = "persist" => cur[x] # p
    BY <1>1 DEF Guards, OneSeller, Selling, InThread
  <2>2. QED
    BY <1>1, <2>1 DEF Covered, OpenPids
<1>11. \/ qty[p] <= wallet'[t]
       \/ pc'[s] = "persist" /\ qty[p] <= wallet'[t] + fill'[s]
  BY <1>2, <1>4, <1>6, <1>10
<1>12. Covered'
  BY <1>5, <1>9, <1>11 DEF Covered, OpenPids
<1>13. BuyCovered'
  <2>1. buy.at = "persist" => buy.tok # t /\ buy.tok \in Token
    BY <1>1 DEF Guards, BuyIsFree, OpenFor, OpenPids, TypeOK
  <2>2. QED
    BY <1>5, <1>7, <2>1 DEF BuyCovered
<1>14. QED
  BY <1>12, <1>13

LEMMA PersistCover ==
    ASSUME Guards, Covered, BuyCovered, NEW s \in Sellers, SellPersist(s)
    PROVE  Covered' /\ BuyCovered'
<1> DEFINE p == cur[s]
           sold == Min2(fill[s], qty[p])
<1>1. TypeOK /\ pc[s] = "persist" /\ p \in Pid /\ status[p] = "open"
  BY DEF Guards, TInv, TypeOK, SellPersist, Selling, InThread
<1>2. fill[s] \in Nat /\ qty[p] \in Nat /\ tok[p] \in Token /\ wallet[tok[p]] \in Nat
  BY <1>1 DEF TypeOK
<1>3. UNCHANGED <<tok, wallet, cur, fill, buy>>
  BY DEF SellPersist, RecordSell, chain
<1>4. pc' = [pc EXCEPT ![s] = "release"]
  BY DEF SellPersist, Goto
<1>5. \A q \in Pid : q # p => status'[q] = status[q] /\ qty'[q] = qty[q]
  BY <1>1 DEF SellPersist, RecordSell, TypeOK
<1>6. status'[p] = "open" => qty'[p] = qty[p] - sold /\ qty[p] - sold >= MinSellable
  <2>1. qty[p] - sold \in Nat /\ MinSellable \in Nat
    BY <1>2, UnitsAssumption DEF Min2
  <2>2. /\ status'[p] = IF qty[p] - sold < MinSellable THEN "closed" ELSE "open"
        /\ qty'[p] = IF qty[p] - sold < MinSellable THEN sold ELSE qty[p] - sold
    BY <1>1 DEF SellPersist, RecordSell, TypeOK
  <2>3. QED
    BY <2>1, <2>2
<1>7. \A x \in Sellers : pc[x] = "persist" /\ x # s => cur[x] # p
  BY <1>1 DEF Guards, OneSeller, Selling, InThread
<1>8. status'[p] = "open" => qty'[p] <= wallet[tok[p]]
  <2>1. qty[p] <= wallet[tok[p]] + fill[s]
    BY <1>1, <1>2, <1>7 DEF Covered, OpenPids
  <2>2. QED
    BY <1>2, <1>6, <2>1, UnitsAssumption DEF Min2
<1>9. ASSUME NEW q \in Pid, q # p, status'[q] = "open"
      PROVE  \/ qty'[q] <= wallet[tok[q]]
             \/ \E x \in Sellers : pc'[x] = "persist" /\ cur[x] = q /\ qty'[q] <= wallet[tok[q]] + fill[x]
  <2>1. \A x \in Sellers : cur[x] = q => pc'[x] = pc[x]
    BY <1>1, <1>4, <1>9 DEF TypeOK
  <2>2. QED
    BY <1>5, <1>9, <2>1 DEF Covered, OpenPids
<1>10. QED
  BY <1>3, <1>8, <1>9 DEF Covered, BuyCovered, OpenPids

LEMMA ThreadCover ==
    ASSUME Live, Guards, CoverInv, NEW s \in Sellers, ThreadStep(s) PROVE CoverInv'
<1> SUFFICES ASSUME faults' = 0 PROVE Covered' /\ BuyCovered'
  BY DEF CoverInv
<1>1. TypeOK
  BY DEF Guards, TInv
<1>2. faults = 0
  <2>1. faults \in Nat
    BY <1>1, FaultsAssumption DEF TypeOK
  <2>2. faults' = faults \/ faults' = faults + 1
    BY DEF ThreadStep, SellSkip, SellGate, SellPost, PaperFill, SellPersist, SellPersistFails,
           SellerOnly
  <2>3. QED
    BY <2>1, <2>2
<1>3. Covered /\ BuyCovered
  BY <1>2 DEF CoverInv
<1>4. CASE SellSkip(s) \/ SellGate(s)
  BY <1>1, <1>3, <1>4, QuietStep DEF SellSkip, SellGate, Goto, SellerOnly, ledger, chain, TypeOK
<1>5. CASE SellPost(s)
  BY <1>3, <1>5, PostCover
<1>6. CASE SellPersist(s)
  BY <1>3, <1>6, PersistCover
<1>7. ~PaperFill(s)
  BY DEF PaperFill
<1>8. ~SellPersistFails(s)
  BY <1>2 DEF SellPersistFails, Guards, ClaimedRowStaysOpen, InThread
<1>9. QED
  BY <1>4, <1>5, <1>6, <1>7, <1>8 DEF ThreadStep

-----------------------------------------------------------------------------
LEMMA BuyPostCover ==
    ASSUME Live, Guards, Covered, BuyCovered, BuyPost PROVE Covered' /\ BuyCovered'
<1>1. TypeOK /\ buy.tok \in Token /\ buy.at = "post"
  BY DEF Guards, TInv, TypeOK, BuyPost
<1>2. UNCHANGED <<status, tok, qty, pc, cur, fill>>
  BY DEF BuyPost, ledger, sell
<1>3. CASE buy' = [at |-> "idle", tok |-> NoToken, fill |-> 0] /\ UNCHANGED <<wallet, view>>
  <2>1. buy'.at # "persist"
    BY <1>3
  <2>2. QED
    BY <1>2, <1>3, <2>1 DEF Covered, BuyCovered, OpenPids
<1>4. ASSUME NEW f \in BuyQty, buy' = [buy EXCEPT !.at = "persist", !.fill = f],
             wallet' = [wallet EXCEPT ![buy.tok] = @ + f]
      PROVE  Covered' /\ BuyCovered'
  <2>1. f \in Nat /\ wallet[buy.tok] \in Nat
    BY <1>1, BuyAssumption DEF TypeOK
  <2>2. buy'.tok = buy.tok /\ buy'.fill = f
    BY <1>4 DEF Guards, TInv, TypeOK
  <2>3. wallet'[buy.tok] = wallet[buy.tok] + f
    BY <1>1, <1>4 DEF TypeOK
  <2>4. BuyCovered'
    BY <2>1, <2>2, <2>3 DEF BuyCovered
  <2>5. ASSUME NEW q \in OpenPids PROVE wallet'[tok[q]] = wallet[tok[q]]
    <3>1. tok[q] # buy.tok /\ tok[q] \in Token
      BY <1>1 DEF Guards, BuyIsFree, OpenFor, OpenPids, TypeOK
    <3>2. QED
      BY <1>1, <1>4, <3>1 DEF TypeOK
  <2>6. Covered'
    BY <1>2, <2>5 DEF Covered, OpenPids
  <2>7. QED
    BY <2>4, <2>6
<1>5. \/ \E f \in BuyQty : /\ buy' = [buy EXCEPT !.at = "persist", !.fill = f]
                           /\ wallet' = [wallet EXCEPT ![buy.tok] = @ + f]
      \/ buy' = [at |-> "idle", tok |-> NoToken, fill |-> 0] /\ UNCHANGED <<wallet, view>>
  BY Zenon DEF BuyPost, Moves
<1>6. QED
  BY <1>3, <1>4, <1>5

LEMMA BuyPersistCover ==
    ASSUME Guards, Covered, BuyCovered, BuyPersist PROVE Covered' /\ BuyCovered'
<1>1. TypeOK /\ buy.at = "persist"
  BY DEF Guards, TInv, BuyPersist
<1>2. UNCHANGED <<wallet, pc, cur, fill>>
  BY DEF BuyPersist, chain, sell
<1>3. PICK p \in Pid : /\ status' = [status EXCEPT ![p] = "open"]
                       /\ tok' = [tok EXCEPT ![p] = buy.tok]
                       /\ qty' = [qty EXCEPT ![p] = buy.fill]
  BY DEF BuyPersist
<1>4. tok'[p] = buy.tok /\ qty'[p] = buy.fill
      /\ \A q \in Pid : q # p => status'[q] = status[q] /\ tok'[q] = tok[q] /\ qty'[q] = qty[q]
  BY <1>1, <1>3 DEF TypeOK
<1>5. qty'[p] <= wallet[tok'[p]]
  BY <1>1, <1>4 DEF BuyCovered
<1>6. Covered'
  BY <1>2, <1>4, <1>5 DEF Covered, OpenPids
<1>7. buy'.at # "persist"
  BY DEF BuyPersist, NoBuy
<1>8. QED
  BY <1>6, <1>7 DEF BuyCovered

LEMMA OtherCover ==
    ASSUME Live, Guards, CoverInv, OtherStep PROVE CoverInv'
<1> SUFFICES ASSUME faults' = 0 PROVE Covered' /\ BuyCovered'
  BY DEF CoverInv
<1>1. TypeOK /\ UNCHANGED <<pc, cur, fill>>
  BY OtherStepEffect DEF Guards, TInv, sell
<1>2. faults \in Nat
  BY <1>1, FaultsAssumption DEF TypeOK
<1>3. ASSUME NEW t \in Token, OutsideExit(t) PROVE FALSE
  <2>1. faults' = faults + 1
    BY <1>3 DEF OutsideExit
  <2>2. QED
    BY <1>2, <2>1
<1>4. ~BuyPersistFails \/ OpenFor(buy.tok) # {}
  BY <1>2 DEF BuyPersistFails
<1>5. ~BuyPersistFails
  BY <1>4 DEF BuyPersistFails, Guards, BuyIsFree
<1>6. faults = 0
  BY <1>2, <1>3, <1>5
     DEF OtherStep, SettleFetch, SettleProcess, RecFetch, RecAnswer, RecProcess, BuyCheck, BuyPost,
         BuyPersist, MarketResolves, IndexerCatchesUp, Ages
<1>7. Covered /\ BuyCovered
  BY <1>6 DEF CoverInv
<1>8. CASE BuyPost
  BY <1>7, <1>8, BuyPostCover
<1>9. CASE BuyPersist
  BY <1>7, <1>9, BuyPersistCover
<1>10. ASSUME UNCHANGED <<tok, qty, wallet, buy>>,
              \A p \in Pid : status'[p] = "open" => status[p] = "open"
       PROVE  Covered' /\ BuyCovered'
  BY <1>1, <1>7, <1>10 DEF Covered, BuyCovered, OpenPids
<1>11. ASSUME NEW t \in Token, BuyCheck(t) PROVE Covered' /\ BuyCovered'
  <2>1. buy'.at # "persist"
    BY <1>11 DEF BuyCheck
  <2>2. QED
    BY <1>1, <1>7, <1>11, <2>1 DEF BuyCheck, Covered, BuyCovered, OpenPids, ledger, chain
<1>12. CASE SettleFetch \/ RecFetch \/ RecAnswer
  BY <1>10, <1>12 DEF SettleFetch, RecFetch, RecAnswer, ledger, chain
<1>13. CASE RecProcess
  BY <1>10, <1>13 DEF RecProcess, Close, chain
<1>14. ASSUME NEW M \in SUBSET resolved, SettleProcess(M) PROVE Covered' /\ BuyCovered'
  BY <1>10, <1>14 DEF SettleProcess, Close, chain
<1>15. ASSUME NEW t \in Token, MarketResolves(t) \/ IndexerCatchesUp(t) PROVE Covered' /\ BuyCovered'
  BY <1>10, <1>15 DEF MarketResolves, IndexerCatchesUp, ledger
<1>16. ASSUME NEW p \in Pid, Ages(p) PROVE Covered' /\ BuyCovered'
  BY <1>10, <1>16 DEF Ages, ledger, chain
<1>17. QED
  BY <1>3, <1>5, <1>8, <1>9, <1>11, <1>12, <1>13, <1>14, <1>15, <1>16 DEF OtherStep

LEMMA CoverStep ==
    ASSUME Live, BulkRoutes = {}, Guards, CoverInv, [Next]_vars PROVE CoverInv'
<1>1. TypeOK
  BY DEF Guards, TInv
<1>2. CASE LoopStep
  <2>1. UNCHANGED faults
    BY <1>2 DEF LoopStep, ExitSweep, ExitDone, ExitPass, ExitClaim, RouteClose, BulkClose, Release,
                SellerOnly
  <2>2. QED
    BY <1>1, <1>2, <2>1, LoopCover DEF CoverInv
<1>3. CASE Crash
  <2>1. faults \in Nat /\ faults' = faults + 1
    BY <1>1, <1>3, FaultsAssumption DEF Crash, TypeOK
  <2>2. QED
    BY <2>1 DEF CoverInv
<1>4. CASE UNCHANGED vars
  BY <1>4, QuietStep DEF CoverInv, vars, ledger, chain, sell
<1>5. QED
  BY <1>2, <1>3, <1>4, ThreadCover, OtherCover, NextSplit

\* Until the first fault, every open position is in the wallet.
THEOREM OpenRowsAreBacked ==
    ASSUME BulkRoutes = {} PROVE Spec => []Backed
<1>1. CASE ~Live
  <2>1. Backed
    BY <1>1 DEF Backed
  <2>2. QED
    BY <2>1, PTL
<1>2. CASE Live
  <2>1. Init => Guards /\ CoverInv
    BY TypeInit DEF Init, Guards, CoverInv, OneSeller, ClaimedRowStaysOpen, BuyIsFree,
                    OneOpenPerToken,
                    Covered, BuyCovered, OpenPids, Selling, InThread
  <2>2. Guards /\ CoverInv /\ [Next]_vars => Guards' /\ CoverInv'
    BY <1>2, TypeStep, OneSellerStep, ClaimedOpenStep, BuyFreeStep, OnePerTokenStep,
       CoverStep DEF Guards
  <2>3. Guards /\ CoverInv => Backed
    BY CoverImpliesBacked DEF Guards
  <2>4. QED
    BY <2>1, <2>2, <2>3, PTL DEF Spec
<1>3. QED
  BY <1>1, <1>2
-----------------------------------------------------------------------------
(* Reconciliation.  The monitor acts on holdings the indexer reported some   *)
(* time ago, of a wallet that moves.  It is right because a row becomes old  *)
(* enough only once the indexer has caught up with the wallet, and from then *)
(* on the wallet only loses tokens of an open row: what was flat stays flat. *)

Denies(V) == FALSE \in V

Flat(p) == wallet[tok[p]] < MinSellable

AgedInserted == \A p \in aged : status[p] # "none"

\* The reason of a row is written when it closes.
OpenUnreasoned == \A p \in Pid : status[p] # "closed" => reason[p] = "none"

\* A row of which the indexer may deny the holding, or has denied it to the tick
\* under way, is flat.
DeniedIsFlat ==
    \A p \in aged : status[p] = "open" =>
        /\ Denies(view[tok[p]]) => Flat(p)
        /\ rec.at = "got" /\ tok[p] \notin rec.held => Flat(p)

FlatInv == AgedInserted /\ OpenUnreasoned /\ DeniedIsFlat

LEMMA DenialFacts ==
    ASSUME NEW a \in Nat, NEW V
    PROVE  /\ Denies({a >= MinSellable}) => a < MinSellable
           /\ Denies(V \cup {a >= MinSellable}) => Denies(V) \/ a < MinSellable
<1>1. ~(a >= MinSellable) => a < MinSellable
  BY UnitsAssumption
<1>2. FALSE \in {a >= MinSellable} => ~(a >= MinSellable)
  BY Zenon
<1>3. QED
  BY <1>1, <1>2 DEF Denies

\* What a step may do to the wallet and the indexer's view of an open row.
LEMMA ChainEffect ==
    ASSUME TypeOK, BuyIsFree, [Next]_vars, NEW p \in Pid, status[p] = "open"
    PROVE  /\ wallet'[tok[p]] <= wallet[tok[p]]
           /\ Denies(view'[tok[p]]) => Denies(view[tok[p]]) \/ wallet'[tok[p]] < MinSellable
<1> DEFINE t == tok[p]
<1>1. t \in Token /\ wallet[t] \in Nat /\ MinSellable \in Nat
  BY UnitsAssumption DEF TypeOK
<1>2. CASE UNCHANGED <<wallet, view>>
  BY <1>1, <1>2
<1>3. ASSUME NEW u \in Token, NEW w \in [Token -> Nat], Moves(u, w), w[t] <= wallet[t]
      PROVE  /\ wallet'[t] <= wallet[t]
             /\ Denies(view'[t]) => Denies(view[t]) \/ wallet'[t] < MinSellable
  <2>1. wallet' = w /\ view'[t] = IF t = u THEN view[t] \cup {w[t] >= MinSellable} ELSE view[t]
    BY <1>1, <1>3 DEF Moves, Held, TypeOK
  <2>2. w[t] \in Nat
    BY <1>1
  <2>3. QED
    BY <1>3, <2>1, <2>2, DenialFacts
<1>4. ASSUME NEW s \in Sellers, ThreadStep(s)
      PROVE  /\ wallet'[t] <= wallet[t]
             /\ Denies(view'[t]) => Denies(view[t]) \/ wallet'[t] < MinSellable
  <2>1. CASE SellPost(s)
    <3> DEFINE u == tok[cur[s]]
    <3>1. u \in Token /\ wallet[u] \in Nat /\ snap[s][cur[s]] \in Nat
      BY <2>1 DEF TypeOK, SellPost, Selling, InThread
    <3>2. PICK f \in 0..Min2(Quantize(snap[s][cur[s]]), wallet[u]) :
            Moves(u, [wallet EXCEPT ![u] = @ - f])
      BY <2>1 DEF SellPost
    <3>3. f \in Nat /\ f <= wallet[u]
      BY <3>1, QuantizeFacts DEF Min2
    <3> DEFINE w == [wallet EXCEPT ![u] = @ - f]
    <3>4. w \in [Token -> Nat] /\ w[t] <= wallet[t]
      BY <1>1, <3>1, <3>3 DEF TypeOK
    <3> HIDE DEF w
    <3>5. QED
      BY <1>3, <3>1, <3>2, <3>4 DEF w
  <2>2. CASE ~SellPost(s)
    BY <1>2, <1>4, <2>2 DEF ThreadStep, SellSkip, SellGate, PaperFill, SellPersist,
                            SellPersistFails,
                            SellerOnly, chain
  <2>3. QED
    BY <2>1, <2>2
<1>5. CASE BuyPost
  <2>1. buy.at = "post" /\ buy.tok \in Token /\ buy.tok # t
    BY <1>1, <1>5 DEF BuyPost, BuyIsFree, OpenFor, OpenPids, TypeOK
  <2>2. ASSUME NEW f \in BuyQty, Moves(buy.tok, [wallet EXCEPT ![buy.tok] = @ + f])
        PROVE  wallet'[t] = wallet[t] /\ view'[t] = view[t]
    BY <1>1, <2>1, <2>2 DEF Moves, TypeOK
  <2>3. \/ UNCHANGED <<wallet, view>>
        \/ \E f \in BuyQty : Moves(buy.tok, [wallet EXCEPT ![buy.tok] = @ + f])
    BY <1>5, Zenon DEF BuyPost
  <2>4. wallet'[t] = wallet[t] /\ view'[t] = view[t]
    BY <2>2, <2>3, Zenon
  <2>5. QED
    BY <1>1, <2>4
<1>6. ASSUME NEW u \in Token, OutsideExit(u)
      PROVE  /\ wallet'[t] <= wallet[t]
             /\ Denies(view'[t]) => Denies(view[t]) \/ wallet'[t] < MinSellable
  <2> DEFINE w == [wallet EXCEPT ![u] = 0]
  <2>1. w \in [Token -> Nat] /\ w[t] <= wallet[t] /\ Moves(u, w)
    BY <1>1, <1>6 DEF OutsideExit, TypeOK
  <2> HIDE DEF w
  <2>2. QED
    BY <1>3, <2>1
<1>7. ASSUME NEW u \in Token, IndexerCatchesUp(u)
      PROVE  /\ wallet'[t] <= wallet[t]
             /\ Denies(view'[t]) => Denies(view[t]) \/ wallet'[t] < MinSellable
  <2>1. wallet' = wallet /\ view'[t] = IF t = u THEN {wallet[t] >= MinSellable} ELSE view[t]
    BY <1>1, <1>7 DEF IndexerCatchesUp, Held, TypeOK
  <2>2. QED
    BY <1>1, <2>1, DenialFacts
<1>8. CASE LoopStep \/ Crash \/ UNCHANGED vars
  BY <1>2, <1>8 DEF LoopStep, Crash, vars, chain, ExitSweep, ExitDone, ExitPass, ExitClaim,
                    RouteClose,
                    BulkClose, Release, SellerOnly
<1>9. CASE OtherStep
  <2>1. \/ UNCHANGED <<wallet, view>> \/ BuyPost
        \/ \E u \in Token : OutsideExit(u) \/ IndexerCatchesUp(u)
    BY <1>9 DEF OtherStep, SettleFetch, SettleProcess, RecFetch, RecAnswer, RecProcess, BuyCheck,
                BuyPersist, BuyPersistFails, MarketResolves, Ages, chain
  <2>2. QED
    BY <1>2, <1>5, <1>6, <1>7, <2>1
<1>10. QED
  BY <1>4, <1>8, <1>9, NextSplit

\* And to the tick under way and the rows old enough for it.
LEMMA TickEffect ==
    ASSUME TypeOK, [Next]_vars
    PROVE  /\ rec'.at = "got" => \/ UNCHANGED rec
                                 \/ /\ \A t \in Token : (t \in rec'.held) \in view[t]
                                    /\ UNCHANGED <<ledger, chain, aged>>
           /\ \/ UNCHANGED aged
              \/ \E p \in Pid : Ages(p)
<1>1. CASE LoopStep \/ UNCHANGED vars
  BY <1>1 DEF LoopStep, vars, ExitSweep, ExitDone, ExitPass, ExitClaim, RouteClose, BulkClose,
              Release,
              SellerOnly
<1>2. CASE Crash
  BY <1>2 DEF Crash
<1>3. ASSUME NEW s \in Sellers, ThreadStep(s) PROVE UNCHANGED <<rec, aged>>
  BY <1>3 DEF ThreadStep, SellSkip, SellGate, SellPost, PaperFill, SellPersist, SellPersistFails,
              SellerOnly
<1>4. CASE RecAnswer
  <2>1. UNCHANGED <<ledger, chain, aged>>
    BY <1>4 DEF RecAnswer
  <2>2. ASSUME NEW H \in SUBSET Token, \A t \in Token : (t \in H) \in view[t],
               rec' = [rec EXCEPT !.at = "got", !.held = H]
        PROVE  \A t \in Token : (t \in rec'.held) \in view[t]
    <3>1. rec'.held = H
      BY <2>2 DEF TypeOK
    <3>2. QED
      BY <2>2, <3>1, Zenon
  <2>3. CASE rec' = [at |-> "idle", opens |-> {}, held |-> {}]
    BY <2>1, <2>3
  <2>4. CASE \E H \in SUBSET Token : /\ \A t \in Token : (t \in H) \in view[t]
                                     /\ rec' = [rec EXCEPT !.at = "got", !.held = H]
    BY <2>1, <2>2, <2>4, Zenon
  <2>5. QED
    BY <1>4, <2>3, <2>4, Zenon DEF RecAnswer
<1>5. CASE RecFetch \/ RecProcess
  BY <1>5 DEF RecFetch, RecProcess
<1>6. CASE OtherStep /\ ~RecAnswer /\ ~RecFetch /\ ~RecProcess
  BY <1>6 DEF OtherStep, SettleFetch, SettleProcess, BuyCheck, BuyPost, BuyPersist, BuyPersistFails,
              MarketResolves, IndexerCatchesUp, OutsideExit, Ages
<1>7. QED
  BY <1>1, <1>2, <1>3, <1>4, <1>5, <1>6, NextSplit

\* Who writes the reason of a row that is not closed.
LEMMA ReasonEffect ==
    ASSUME TInv, [Next]_vars, NEW p \in Pid, status[p] # "closed", reason'[p] # reason[p]
    PROVE  /\ status'[p] = "closed"
           /\ reason'[p] = "reconciled" => RecProcess /\ p \in RecFlat
<1>1. TypeOK
  BY DEF TInv
<1>2. ~UNCHANGED reason
  OBVIOUS
<1>3. ~LoopStep /\ ~Crash /\ ~UNCHANGED vars
  BY <1>2 DEF LoopStep, Crash, vars, ledger, ExitSweep, ExitDone, ExitPass, ExitClaim, RouteClose,
              BulkClose, Release, SellerOnly
<1>4. ASSUME NEW s \in Sellers, ThreadStep(s)
      PROVE  status'[p] = "closed" /\ reason'[p] # "reconciled"
  <2>1. SellPersist(s)
    BY <1>2, <1>4 DEF ThreadStep, SellSkip, SellGate, SellPost, PaperFill, SellPersistFails,
                      SellerOnly,
                      ledger
  <2>2. p = cur[s] /\ status'[p] = "closed" /\ reason'[p] = Reason(s)
    BY <1>1, <2>1 DEF SellPersist, RecordSell, TypeOK
  <2>3. QED
    BY <2>2 DEF Reason
<1>5. ASSUME NEW M \in SUBSET resolved, SettleProcess(M)
      PROVE  status'[p] = "closed" /\ reason'[p] # "reconciled"
  BY <1>5 DEF SettleProcess, Close
<1>6. CASE RecProcess
  BY <1>6 DEF RecProcess, Close
<1>7. CASE OtherStep
  <2>1. RecProcess \/ \E M \in SUBSET resolved : SettleProcess(M)
    BY <1>2, <1>7 DEF OtherStep, SettleFetch, RecFetch, RecAnswer, BuyCheck, BuyPost, BuyPersist,
                      BuyPersistFails, MarketResolves, IndexerCatchesUp, OutsideExit, Ages, ledger
  <2>2. QED
    BY <1>5, <1>6, <2>1
<1>8. QED
  BY <1>3, <1>4, <1>7, NextSplit

LEMMA FlatStep == TInv /\ BuyIsFree /\ FlatInv /\ [Next]_vars => FlatInv'
<1> SUFFICES ASSUME TInv, BuyIsFree, FlatInv, [Next]_vars PROVE FlatInv'
  OBVIOUS
<1>1. TypeOK /\ TypeOK'
  BY TypeStep DEF TInv
<1>2. \A p \in Pid : status[p] # "none" => status'[p] # "none"
  BY StatusEffect
<1>3. AgedInserted'
  <2>1. ASSUME NEW p \in Pid, Ages(p) PROVE aged' = aged \cup {p} /\ status[p] = "open"
    BY <2>1 DEF Ages
  <2>2. QED
    BY <1>1, <1>2, <2>1, TickEffect DEF FlatInv, AgedInserted, TypeOK
<1>4. OpenUnreasoned'
  <2> SUFFICES ASSUME NEW p \in Pid, status'[p] # "closed" PROVE reason'[p] = "none"
    BY DEF OpenUnreasoned
  <2>1. status[p] # "closed"
    BY StatusEffect
  <2>2. QED
    BY <2>1, ReasonEffect DEF FlatInv, OpenUnreasoned
<1>5. DeniedIsFlat'
  <2> SUFFICES ASSUME NEW p \in aged', status'[p] = "open"
               PROVE  /\ Denies(view'[tok'[p]]) => Flat(p)'
                      /\ rec'.at = "got" /\ tok'[p] \notin rec'.held => Flat(p)'
    BY DEF DeniedIsFlat
  <2>1. p \in Pid /\ MinSellable \in Nat
    BY <1>1, UnitsAssumption DEF TypeOK
  <2>2. CASE p \in aged
    <3>1. status[p] = "open" /\ tok'[p] = tok[p]
      BY <2>1, <2>2, StatusEffect DEF FlatInv, AgedInserted
    <3>2. tok[p] \in Token /\ wallet[tok[p]] \in Nat /\ wallet'[tok[p]] \in Nat
      BY <1>1, <2>1, <3>1 DEF TypeOK
    <3>3. /\ wallet'[tok[p]] <= wallet[tok[p]]
          /\ Denies(view'[tok[p]]) => Denies(view[tok[p]]) \/ wallet'[tok[p]] < MinSellable
      BY <1>1, <2>1, <3>1, ChainEffect
    <3>4. Flat(p) => Flat(p)'
      BY <2>1, <3>1, <3>2, <3>3 DEF Flat
    <3>5. Denies(view'[tok'[p]]) => Flat(p)'
      BY <2>2, <3>1, <3>3, <3>4 DEF FlatInv, DeniedIsFlat, Flat
    <3>6. rec'.at = "got" /\ tok'[p] \notin rec'.held => Flat(p)'
      <4>1. CASE UNCHANGED rec
        BY <2>2, <3>1, <3>4, <4>1 DEF FlatInv, DeniedIsFlat
      <4>2. CASE (\A t \in Token : (t \in rec'.held) \in view[t]) /\ UNCHANGED <<ledger, chain, aged>>
        <5>1. tok[p] \notin rec'.held => Denies(view[tok[p]])
          <6>1. (tok[p] \in rec'.held) \in view[tok[p]]
            BY <3>2, <4>2, Zenon
          <6>2. tok[p] \notin rec'.held => (tok[p] \in rec'.held) = FALSE
            OBVIOUS
          <6>3. QED
            BY <6>1, <6>2, Zenon DEF Denies
        <5>2. QED
          BY <2>2, <3>1, <3>4, <5>1 DEF FlatInv, DeniedIsFlat
      <4>3. QED
        BY <1>1, <4>1, <4>2, TickEffect
    <3>7. QED
      BY <3>5, <3>6
  <2>3. CASE p \notin aged
    <3>1. Ages(p)
      <4>1. PICK q \in Pid : Ages(q)
        BY <1>1, <2>3, TickEffect
      <4>2. p = q
        BY <2>3, <4>1 DEF Ages
      <4>3. QED
        BY <4>1, <4>2
    <3>2. /\ view'[tok'[p]] = {wallet'[tok'[p]] >= MinSellable} /\ rec'.at # "got"
          /\ tok'[p] \in Token
      BY <1>1, <2>1, <3>1 DEF Ages, Held, ledger, chain, TypeOK
    <3>3. wallet'[tok'[p]] \in Nat
      BY <1>1, <3>2 DEF TypeOK
    <3>4. QED
      BY <3>2, <3>3, DenialFacts DEF Flat
  <2>4. QED
    BY <2>2, <2>3
<1>6. QED
  BY <1>3, <1>4, <1>5 DEF FlatInv

\* Whatever was reported, whoever sells and whatever fails, reconciliation closes
\* only a row that is flat and that nobody is selling (ReconciliationMonitor).
THEOREM ReconciliationIsRight == Spec => ReconcilesOnlyFlat
<1>1. Init => BuyIsFree /\ FlatInv
  BY DEF Init, BuyIsFree, FlatInv, AgedInserted, OpenUnreasoned, DeniedIsFlat
<1>2. TInv /\ FlatInv /\ [Next]_vars =>
        [\A p \in Pid :
            status[p] = "open" /\ reason'[p] = "reconciled" =>
                wallet[tok[p]] < MinSellable /\ p \notin closing]_vars
  <2> SUFFICES ASSUME TInv, FlatInv, [Next]_vars, NEW p \in Pid, status[p] = "open",
                      reason'[p] = "reconciled"
               PROVE  wallet[tok[p]] < MinSellable /\ p \notin closing
    OBVIOUS
  <2>1. reason[p] = "none"
    BY DEF FlatInv, OpenUnreasoned
  <2>2. RecProcess /\ p \in RecFlat
    BY <2>1, ReasonEffect
  <2>3. QED
    BY <2>2 DEF RecProcess, RecFlat, FlatInv, DeniedIsFlat, Flat
<1>3. QED
  BY <1>1, <1>2, TypeInit, TypeStep, BuyFreeStep, FlatStep, PTL DEF Spec, ReconcilesOnlyFlat
-----------------------------------------------------------------------------
(* The refinement: while nothing fails, the live protocol without the        *)
(* close-all route is Custody.  A sale happens when it is written, a buy     *)
(* when its row is; every other step is a stutter, reconciliation among      *)
(* them, since it finds no row to close.                                     *)

\* The quantities one trade may move: those of a buy, and any part of one.
Traded == UNION {1..q : q \in BuyQty}

SizeInv ==
    /\ \A p \in OpenPids : qty[p] \in Traded /\ qty[p] >= MinSellable
    /\ \A s \in Sellers, p \in Pid : snap[s][p] \in Traded \cup {0}
    /\ \A s \in Sellers : pc[s] = "persist" => fill[s] \in Traded
    /\ buy.at = "persist" => buy.fill \in BuyQty

LEMMA TradedFacts ==
    /\ Traded \subseteq Nat \ {0}
    /\ BuyQty \subseteq Traded
    /\ \A q \in Traded : \A f \in 1..q : f \in Traded
<1>1. BuyQty \subseteq Nat \ {0}
  BY BuyAssumption
<1>2. ASSUME NEW q \in BuyQty PROVE q \in 1..q /\ 1..q \subseteq Nat \ {0}
  BY <1>1
<1>3. ASSUME NEW q \in Traded, NEW f \in 1..q PROVE f \in Traded
  <2>1. PICK b \in BuyQty : q \in 1..b
    BY DEF Traded
  <2>2. f \in 1..b
    BY <1>1, <2>1
  <2>3. QED
    BY <2>2 DEF Traded
<1>4. QED
  BY <1>2, <1>3 DEF Traded

LEMMA LoopSize ==
    ASSUME TypeOK, BulkRoutes = {}, SizeInv, LoopStep PROVE SizeInv'
<1>1. UNCHANGED <<status, qty, buy>>
  BY DEF LoopStep, ExitSweep, ExitDone, ExitPass, ExitClaim, RouteClose, Release, SellerOnly, ledger
<1>2. \A s \in Sellers : pc'[s] = "persist" => pc[s] = "persist" /\ fill'[s] = fill[s]
  BY DEF LoopStep, ExitSweep, ExitDone, ExitPass, ExitClaim, RouteClose, Claim, Release, TypeOK
<1>3. ASSUME NEW s \in Sellers, NEW p \in Pid
      PROVE  snap'[s][p] \in {snap[s][p], 0} \/ (p \in OpenPids /\ snap'[s][p] = qty[p])
  <2>1. snap \in [Sellers -> [Pid -> Nat]] /\ snap[s] \in [Pid -> Nat]
    BY DEF TypeOK
  <2>2. CASE ExitSweep
    BY <2>1, <2>2 DEF ExitSweep, Opens, OpenPids
  <2>3. CASE ExitDone
    BY <2>3 DEF ExitDone
  <2>4. ASSUME NEW q \in Pid, ExitPass(q) PROVE snap'[s][p] \in {snap[s][p], 0}
    BY <2>1, <2>4 DEF ExitPass
  <2>5. ASSUME NEW q \in Pid, ExitClaim(q) PROVE snap'[s][p] = snap[s][p]
    BY <2>1, <2>5 DEF ExitClaim, Claim
  <2>6. ASSUME NEW r \in Routes, NEW q \in Pid, RouteClose(r, q)
        PROVE  snap'[s][p] \in {snap[s][p], 0} \/ (p \in OpenPids /\ snap'[s][p] = qty[p])
    BY <2>1, <2>6 DEF RouteClose, Claim, Nothing, OpenPids
  <2>7. ASSUME NEW x \in Sellers, Release(x) PROVE snap'[s][p] \in {snap[s][p], 0}
    <3>1. snap' = [snap EXCEPT ![x] = [snap[x] EXCEPT ![cur[x]] = 0]]
      BY <2>7 DEF Release
    <3>2. QED
      BY <2>1, <3>1
  <2>8. QED
    BY <2>2, <2>3, <2>4, <2>5, <2>6, <2>7 DEF LoopStep
<1>4. QED
  BY <1>1, <1>2, <1>3 DEF SizeInv, OpenPids

LEMMA ThreadSize ==
    ASSUME Live, Guards, SizeInv, NEW s \in Sellers, ThreadStep(s) PROVE SizeInv'
<1>1. TypeOK /\ UNCHANGED <<cur, snap, buy>>
  BY DEF Guards, TInv, ThreadStep, SellSkip, SellGate, SellPost, PaperFill, SellPersist,
         SellPersistFails, SellerOnly
<1>2. CASE SellSkip(s) \/ SellGate(s) \/ SellPersistFails(s)
  <2>1. UNCHANGED <<status, qty>>
    BY <1>2 DEF SellSkip, SellGate, SellPersistFails, SellerOnly, ledger
  <2>2. \A x \in Sellers : pc'[x] = "persist" => pc[x] = "persist" /\ fill'[x] = fill[x]
    BY <1>1, <1>2 DEF SellSkip, SellGate, SellPersistFails, Goto, TypeOK
  <2>3. QED
    BY <1>1, <2>1, <2>2 DEF SizeInv, OpenPids
<1>3. CASE SellPost(s)
  <2> DEFINE p == cur[s]
             t == tok[p]
  <2>1. p \in Pid /\ t \in Token
    BY <1>1, <1>3 DEF TypeOK, SellPost, Selling, InThread
  <2>2. wallet[t] \in Nat /\ snap[s][p] \in Nat
    BY <1>1, <2>1 DEF TypeOK
  <2>3. PICK f \in 0..Min2(Quantize(snap[s][p]), wallet[t]) :
          fill' = [fill EXCEPT ![s] = f] /\ Goto(s, IF f = 0 THEN "release" ELSE "persist")
    BY <1>3 DEF SellPost
  <2>4. f \in Nat /\ f <= snap[s][p]
    BY <2>2, <2>3, QuantizeFacts DEF Min2
  <2>5. f # 0 => snap[s][p] \in Traded /\ f \in 1..snap[s][p]
    BY <2>1, <2>2, <2>4 DEF SizeInv
  <2>6. f # 0 => f \in Traded
    BY <2>5, TradedFacts
  <2>7. \A x \in Sellers : pc'[x] = "persist" => fill'[x] \in Traded
    BY <1>1, <2>3, <2>6 DEF Goto, SizeInv, TypeOK
  <2>8. UNCHANGED <<status, qty>>
    BY <1>3 DEF SellPost, ledger
  <2>9. QED
    BY <1>1, <2>7, <2>8 DEF SizeInv, OpenPids
<1>4. CASE SellPersist(s)
  <2> DEFINE p == cur[s]
             rest == qty[p] - Min2(fill[s], qty[p])
  <2>1. p \in Pid /\ status[p] = "open"
    BY <1>1, <1>4 DEF TypeOK, SellPersist, Selling, InThread
  <2>2. qty[p] \in Nat /\ fill[s] \in Nat /\ qty[p] \in Traded
    BY <1>1, <2>1 DEF TypeOK, SizeInv, OpenPids
  <2>3. rest \in Nat /\ rest <= qty[p] /\ MinSellable \in Nat \ {0}
    BY <2>2, UnitsAssumption DEF Min2
  <2>4. /\ status'[p] = IF rest < MinSellable THEN "closed" ELSE "open"
        /\ qty'[p] = IF rest < MinSellable THEN Min2(fill[s], qty[p]) ELSE rest
    BY <1>1, <1>4, <2>1 DEF SellPersist, RecordSell, TypeOK
  <2>5. status'[p] = "open" => qty'[p] >= MinSellable /\ qty'[p] \in 1..qty[p]
    BY <2>2, <2>3, <2>4
  <2>6. status'[p] = "open" => qty'[p] >= MinSellable /\ qty'[p] \in Traded
    BY <2>2, <2>5, TradedFacts
  <2>7. \A q \in Pid : q # p => status'[q] = status[q] /\ qty'[q] = qty[q]
    BY <1>1, <1>4 DEF SellPersist, RecordSell, TypeOK
  <2>8. \A x \in Sellers : pc'[x] = "persist" => pc[x] = "persist" /\ fill'[x] = fill[x]
    BY <1>1, <1>4 DEF SellPersist, Goto, TypeOK
  <2>9. QED
    BY <1>1, <2>6, <2>7, <2>8 DEF SizeInv, OpenPids
<1>5. QED
  BY <1>2, <1>3, <1>4 DEF ThreadStep, PaperFill

LEMMA OtherSize ==
    ASSUME TInv, \A q \in BuyQty : q >= MinSellable, SizeInv, OtherStep PROVE SizeInv'
<1>1. TypeOK /\ UNCHANGED <<pc, cur, fill, snap>>
  BY OtherStepEffect DEF TInv, sell
<1>2. CASE BuyPersist
  <2>1. PICK p \in Pid : status' = [status EXCEPT ![p] = "open"] /\ qty' = [qty EXCEPT ![p] = buy.fill]
    BY <1>2 DEF BuyPersist
  <2>2. \A q \in Pid : status'[q] = "open" =>
            (q \in OpenPids /\ qty'[q] = qty[q]) \/ qty'[q] = buy.fill
    BY <1>1, <2>1 DEF TypeOK, OpenPids
  <2>3. buy.fill \in BuyQty /\ buy'.at = "idle"
    BY <1>2 DEF BuyPersist, NoBuy, SizeInv
  <2>4. QED
    BY <1>1, <2>2, <2>3, TradedFacts DEF SizeInv, OpenPids
<1>3. CASE BuyPost
  <2>1. UNCHANGED <<status, qty>>
    BY <1>3 DEF BuyPost, ledger
  <2>2. buy'.at = "persist" => buy'.fill \in BuyQty
    <3>1. \/ \E f \in BuyQty : buy' = [buy EXCEPT !.at = "persist", !.fill = f]
          \/ buy' = [at |-> "idle", tok |-> NoToken, fill |-> 0]
      BY <1>3, Zenon DEF BuyPost
    <3>2. ASSUME NEW f \in BuyQty, buy' = [buy EXCEPT !.at = "persist", !.fill = f]
          PROVE  buy'.fill \in BuyQty
      BY <1>1, <3>2 DEF TypeOK
    <3>3. ASSUME buy' = [at |-> "idle", tok |-> NoToken, fill |-> 0] PROVE buy'.at # "persist"
      BY <3>3
    <3>4. QED
      BY <3>1, <3>2, <3>3, Zenon
  <2>3. QED
    BY <1>1, <2>1, <2>2 DEF SizeInv, OpenPids
<1>4. CASE ~BuyPersist /\ ~BuyPost
  <2>1. UNCHANGED qty /\ \A p \in Pid : status'[p] = "open" => status[p] = "open"
    <3>1. CASE RecProcess
      BY <3>1 DEF RecProcess, Close
    <3>2. ASSUME NEW M \in SUBSET resolved, SettleProcess(M)
          PROVE  UNCHANGED qty /\ \A p \in Pid : status'[p] = "open" => status[p] = "open"
      BY <3>2 DEF SettleProcess, Close
    <3>3. QED
      BY <1>4, <3>1, <3>2
         DEF OtherStep, SettleFetch, RecFetch, RecAnswer, BuyCheck, BuyPersistFails, MarketResolves,
             IndexerCatchesUp, OutsideExit, Ages, ledger
  <2>2. UNCHANGED buy \/ buy'.at # "persist"
    <3>1. ASSUME NEW t \in Token, BuyCheck(t) PROVE buy'.at = "post"
      BY <3>1 DEF BuyCheck
    <3>2. BuyPersistFails => buy'.at = "idle"
      BY DEF BuyPersistFails, NoBuy
    <3>3. QED
      BY <1>4, <3>1, <3>2
         DEF OtherStep, SettleFetch, SettleProcess, RecFetch, RecAnswer, RecProcess, MarketResolves,
             IndexerCatchesUp, OutsideExit, Ages
  <2>3. QED
    BY <1>1, <2>1, <2>2 DEF SizeInv, OpenPids
<1>5. QED
  BY <1>2, <1>3, <1>4

LEMMA SizeStep ==
    ASSUME Live, BulkRoutes = {}, \A q \in BuyQty : q >= MinSellable, Guards, SizeInv, [Next]_vars
    PROVE  SizeInv'
<1>1. CASE Crash
  BY <1>1 DEF Crash, SizeInv, NoBuy, ledger, Nothing, OpenPids
<1>2. CASE UNCHANGED vars
  BY <1>2 DEF SizeInv, vars, ledger, sell, OpenPids
<1>3. QED
  BY <1>1, <1>2, LoopSize, ThreadSize, OtherSize, NextSplit DEF Guards, TInv
\* What the sellers of a token are about to write.
LEMMA SoldNothing ==
    ASSUME NEW t, \A s \in Sellers : pc[s] = "persist" => tok[cur[s]] # t PROVE Sold(t) = 0
BY DEF Sold

\* At most one seller is about to write a sale of a token.
OneWriter ==
    \A s, x \in Sellers :
        pc[s] = "persist" /\ pc[x] = "persist" /\ tok[cur[s]] = tok[cur[x]] => s = x

LEMMA WritersApart == Guards => OneWriter
BY DEF Guards, TInv, TypeOK, OneSeller, ClaimedRowStaysOpen, OneOpenPerToken, OneWriter, OpenPids,
       Selling, InThread

LEMMA SoldIsFill ==
    ASSUME OneWriter, NEW s \in Sellers, pc[s] = "persist" PROVE Sold(tok[cur[s]]) = fill[s]
<1> DEFINE S == {x \in Sellers : pc[x] = "persist" /\ tok[cur[x]] = tok[cur[s]]}
<1>1. S = {s}
  BY DEF OneWriter
<1>2. (CHOOSE x \in S : TRUE) = s
  BY <1>1
<1>3. QED
  BY <1>1, <1>2 DEF Sold

\* The holdings of Custody.
Holdings == [t \in Token |-> (wallet[t] + Sold(t)) - Bought(t)]

LEMMA SoldStays ==
    ASSUME NEW t,
           \A s \in Sellers : /\ (pc[s] = "persist" /\ tok[cur[s]] = t)' <=>
                                 (pc[s] = "persist" /\ tok[cur[s]] = t)
                              /\ pc[s] = "persist" /\ tok[cur[s]] = t => fill'[s] = fill[s]
    PROVE  Sold(t)' = Sold(t)
<1> DEFINE S == {s \in Sellers : pc[s] = "persist" /\ tok[cur[s]] = t}
<1>1. S' = S
  OBVIOUS
<1>2. CASE S = {}
  BY <1>1, <1>2 DEF Sold
<1>3. CASE S # {}
  <2>1. (CHOOSE s \in S : TRUE) \in S
    BY <1>3
  <2>2. fill'[CHOOSE s \in S : TRUE] = fill[CHOOSE s \in S : TRUE]
    BY <2>1
  <2>3. QED
    BY <1>1, <1>3, <2>2 DEF Sold
<1>4. QED
  BY <1>2, <1>3

\* A step that writes no row, moves no token and disturbs neither a sale nor a
\* buy on its way to the ledger is a stutter of Custody.
LEMMA QuietStutters ==
    ASSUME UNCHANGED <<ledger, wallet>>, \A t \in Token : Bought(t)' = Bought(t),
           \A s \in Sellers : /\ (pc[s] = "persist")' <=> pc[s] = "persist"
                              /\ pc[s] = "persist" => cur'[s] = cur[s] /\ fill'[s] = fill[s]
    PROVE  UNCHANGED Abstract!vars
<1>1. UNCHANGED tok
  BY DEF ledger
<1>2. ASSUME NEW t \in Token PROVE Sold(t)' = Sold(t)
  BY <1>1, SoldStays
<1>3. Holdings' = Holdings
  BY <1>2 DEF Holdings
<1>4. QED
  BY <1>3 DEF Abstract!vars, Holdings, ledger
Simulated == Guards /\ Covered /\ BuyCovered /\ FlatInv /\ SizeInv

LEMMA PostStutters ==
    ASSUME Simulated, Guards', NEW s \in Sellers, SellPost(s) PROVE UNCHANGED Abstract!vars
<1> DEFINE p == cur[s]
           u == tok[p]
<1>1. TypeOK /\ pc[s] = "post" /\ p \in Pid /\ status[p] = "open" /\ u \in Token
  BY DEF Simulated, Guards, TInv, TypeOK, SellPost, Selling, InThread, ClaimedRowStaysOpen
<1>2. wallet \in [Token -> Nat] /\ wallet[u] \in Nat /\ snap[s][p] \in Nat
  BY <1>1 DEF TypeOK
<1>3. PICK f \in 0..Min2(Quantize(snap[s][p]), wallet[u]) :
        /\ wallet' = [wallet EXCEPT ![u] = @ - f]
        /\ fill' = [fill EXCEPT ![s] = f]
        /\ Goto(s, IF f = 0 THEN "release" ELSE "persist")
  BY DEF SellPost, Moves
<1>4. f \in Nat /\ f <= wallet[u]
  BY <1>2, <1>3, QuantizeFacts DEF Min2
<1>5. UNCHANGED <<ledger, cur, buy>>
  BY DEF SellPost
<1>6. /\ pc'[s] = (IF f = 0 THEN "release" ELSE "persist") /\ fill'[s] = f
      /\ \A x \in Sellers : x # s => pc'[x] = pc[x] /\ fill'[x] = fill[x]
  BY <1>1, <1>3 DEF Goto, TypeOK
<1>7. \A x \in Sellers : pc[x] = "persist" => tok[cur[x]] # u
  <2> SUFFICES ASSUME NEW x \in Sellers, pc[x] = "persist", tok[cur[x]] = u PROVE FALSE
    OBVIOUS
  <2>1. cur[x] \in Pid /\ status[cur[x]] = "open"
    BY <1>1 DEF Simulated, Guards, ClaimedRowStaysOpen, TypeOK, Selling, InThread
  <2>2. cur[x] = p
    BY <1>1, <2>1 DEF Simulated, Guards, OneOpenPerToken, OpenPids
  <2>3. QED
    BY <1>1, <2>2 DEF Simulated, Guards, OneSeller, Selling, InThread
<1>8. Sold(u) = 0
  BY <1>7, SoldNothing
<1>9. Sold(u)' = f
  <2>1. CASE f = 0
    <3>1. (\A x \in Sellers : pc[x] = "persist" => tok[cur[x]] # u)'
      BY <1>5, <1>6, <1>7, <2>1 DEF ledger
    <3>2. QED
      BY <2>1, <3>1, <1>5 DEF Sold, ledger
  <2>2. CASE f # 0
    <3> DEFINE S == {x \in Sellers : pc[x] = "persist" /\ tok[cur[x]] = u}
    <3>1. S' = {s}
      BY <1>5, <1>6, <1>7, <2>2 DEF ledger
    <3>2. (CHOOSE x \in S' : TRUE) = s
      BY <3>1
    <3>3. QED
      BY <1>5, <1>6, <3>1, <3>2 DEF Sold, ledger
  <2>3. QED
    BY <2>1, <2>2
<1>10. \A t \in Token : Bought(t)' = Bought(t)
  BY <1>5 DEF Bought
<1>11. ASSUME NEW t \in Token PROVE Holdings'[t] = Holdings[t]
  <2>1. CASE t = u
    <3>1. wallet'[u] = wallet[u] - f
      BY <1>1, <1>2, <1>3
    <3>2. Bought(u) = 0
      BY <1>1 DEF Simulated, Guards, BuyIsFree, OpenFor, OpenPids, Bought
    <3>3. Holdings[u] = (wallet[u] + 0) - 0
      BY <1>1, <1>8, <3>2 DEF Holdings
    <3>4. Holdings'[u] = (wallet'[u] + f) - 0
      BY <1>1, <1>5, <1>9, <1>10, <3>2 DEF Holdings, ledger
    <3>5. QED
      BY <1>2, <1>4, <2>1, <3>1, <3>3, <3>4
  <2>2. CASE t # u
    <3>1. wallet'[t] = wallet[t]
      BY <1>2, <1>3, <2>2
    <3>2. Sold(t)' = Sold(t)
      BY <1>5, <1>6, <2>2, SoldStays DEF ledger
    <3>3. QED
      BY <1>10, <3>1, <3>2 DEF Holdings
  <2>3. QED
    BY <2>1, <2>2
<1>12. Holdings' = Holdings
  BY <1>11 DEF Holdings
<1>13. QED
  BY <1>5, <1>12 DEF Abstract!vars, Holdings, ledger

\* The write of a sale is Custody's sale.
LEMMA SaleRefines ==
    ASSUME Simulated, NEW s \in Sellers, SellPersist(s) PROVE Abstract!Next
<1> DEFINE p == cur[s]
           u == tok[p]
           f == fill[s]
<1>1. /\ TypeOK /\ pc[s] = "persist" /\ p \in Pid /\ status[p] = "open" /\ u \in Token
      /\ UNCHANGED <<tok, wallet, cur, fill, buy>> /\ pc' = [pc EXCEPT ![s] = "release"]
  BY DEF Simulated, Guards, TInv, TypeOK, SellPersist, RecordSell, Goto, Selling, InThread, chain
<1>2. qty[p] \in Nat /\ f \in Traded /\ f \in Nat \ {0} /\ wallet[u] \in Nat /\ MinSellable \in Nat \ {0}
  BY <1>1, TradedFacts, UnitsAssumption DEF TypeOK, Simulated, SizeInv
<1>3. Sold(u) = f
  BY <1>1, WritersApart, SoldIsFill DEF Simulated
<1>4. \A x \in Sellers : pc[x] = "persist" /\ tok[cur[x]] = u => x = s
  BY <1>1, WritersApart DEF Simulated, OneWriter
<1>5. Bought(u) = 0 /\ \A t \in Token : Bought(t)' = Bought(t)
  BY <1>1 DEF Simulated, Guards, BuyIsFree, OpenFor, OpenPids, Bought
<1>6. Sold(u)' = 0
  <2>1. \A x \in Sellers : ~((pc[x] = "persist" /\ tok[cur[x]] = u)')
    BY <1>1, <1>4 DEF TypeOK
  <2>2. QED
    BY <1>1, <2>1 DEF Sold
<1>7. ASSUME NEW t \in Token, t # u PROVE Sold(t)' = Sold(t)
  <2>1. ASSUME NEW x \in Sellers
        PROVE  /\ (pc[x] = "persist" /\ tok[cur[x]] = t)' <=> (pc[x] = "persist" /\ tok[cur[x]] = t)
               /\ fill'[x] = fill[x]
    BY <1>1, <1>7 DEF TypeOK
  <2>2. QED
    BY <2>1, SoldStays
<1>8. Holdings' = [Holdings EXCEPT ![u] = @ - f]
  <2>1. Holdings'[u] = Holdings[u] - f
    BY <1>1, <1>2, <1>3, <1>5, <1>6 DEF Holdings
  <2>2. \A t \in Token : t # u => Holdings'[t] = Holdings[t]
    BY <1>1, <1>5, <1>7 DEF Holdings
  <2>3. QED
    BY <1>1, <2>1, <2>2 DEF Holdings
<1>9. f <= Holdings[u]
  BY <1>1, <1>2, <1>3, <1>5 DEF Holdings
<1> DEFINE rest == qty[p] - Min2(f, qty[p])
<1>10. /\ status' = [status EXCEPT ![p] = IF rest < MinSellable THEN "closed" ELSE "open"]
       /\ qty' = [qty EXCEPT ![p] = IF rest < MinSellable THEN Min2(f, qty[p]) ELSE rest]
       /\ reason' = [reason EXCEPT ![p] = IF rest < MinSellable THEN Reason(s) ELSE @]
  BY DEF SellPersist, RecordSell
<1>11. CASE rest < MinSellable
  <2>1. f + MinSellable > qty[p] /\ Min2(f, qty[p]) = IF f <= qty[p] THEN f ELSE qty[p]
    BY <1>2, <1>11 DEF Min2
  <2>2. Abstract!SellOut(p, f, Reason(s))
    BY <1>1, <1>8, <1>9, <1>10, <1>11, <2>1 DEF Abstract!SellOut, Holdings
  <2>3. Reason(s) \in {"exit", "manual"}
    BY DEF Reason
  <2>4. QED
    BY <1>1, <1>2, <2>2, <2>3 DEF Abstract!Next, Traded
<1>12. CASE ~(rest < MinSellable)
  <2>1. rest = qty[p] - f /\ rest >= MinSellable
    BY <1>2, <1>12 DEF Min2
  <2>2. UNCHANGED <<status, reason>>
    BY <1>1, <1>10, <1>12 DEF TypeOK
  <2>3. Abstract!SellPart(p, f)
    BY <1>1, <1>8, <1>9, <1>10, <1>12, <2>1, <2>2 DEF Abstract!SellPart, Holdings
  <2>4. \E q \in Traded : Abstract!SellPart(p, q)
    BY <1>2, <2>3 DEF Abstract!SellPart
  <2>5. QED
    BY <1>1, <2>4, Zenon DEF Abstract!Next, Traded
<1>13. QED
  BY <1>11, <1>12
LEMMA BuyPostStutters ==
    ASSUME Live, Simulated, BuyPost PROVE UNCHANGED Abstract!vars
<1>1. TypeOK /\ buy.at = "post" /\ buy.tok \in Token
  BY DEF Simulated, Guards, TInv, TypeOK, BuyPost
<1>2. UNCHANGED <<ledger, pc, cur, fill>>
  BY DEF BuyPost, sell
<1>3. \A t \in Token : Bought(t) = 0
  BY <1>1 DEF Bought
<1>4. CASE buy' = [at |-> "idle", tok |-> NoToken, fill |-> 0] /\ UNCHANGED <<wallet, view>>
  <2>1. \A t \in Token : Bought(t)' = Bought(t)
    BY <1>3, <1>4 DEF Bought
  <2>2. QED
    BY <1>2, <1>4, <2>1, QuietStutters
<1>5. ASSUME NEW f \in BuyQty, buy' = [buy EXCEPT !.at = "persist", !.fill = f],
             wallet' = [wallet EXCEPT ![buy.tok] = @ + f]
      PROVE  UNCHANGED Abstract!vars
  <2>1. buy'.at = "persist" /\ buy'.tok = buy.tok /\ buy'.fill = f /\ f \in Nat
    BY <1>1, <1>5, BuyAssumption DEF TypeOK
  <2>2. ASSUME NEW t \in Token PROVE Sold(t)' = Sold(t)
    BY <1>2, SoldStays DEF ledger
  <2>3. ASSUME NEW t \in Token PROVE Holdings'[t] = Holdings[t]
    <3>1. wallet[t] \in Nat /\ wallet'[t] = IF t = buy.tok THEN wallet[t] + f ELSE wallet[t]
      BY <1>1, <1>5 DEF TypeOK
    <3>2. Bought(t)' = IF t = buy.tok THEN f ELSE 0
      BY <2>1 DEF Bought
    <3>3. Sold(t) \in Nat
      <4>1. CASE \E s \in Sellers : pc[s] = "persist" /\ tok[cur[s]] = t
        BY <1>1, <4>1, WritersApart, SoldIsFill DEF Simulated, TypeOK
      <4>2. QED
        BY <4>1, SoldNothing
    <3>4. /\ Holdings[t] = (wallet[t] + Sold(t)) - 0
          /\ Holdings'[t] = (wallet'[t] + Sold(t)) - Bought(t)'
      BY <1>3, <2>2 DEF Holdings
    <3>5. QED
      BY <2>1, <3>1, <3>2, <3>3, <3>4
  <2>4. Holdings' = Holdings
    BY <2>3 DEF Holdings
  <2>5. QED
    BY <1>2, <2>4 DEF Abstract!vars, Holdings, ledger
<1>6. \/ \E f \in BuyQty : /\ buy' = [buy EXCEPT !.at = "persist", !.fill = f]
                           /\ wallet' = [wallet EXCEPT ![buy.tok] = @ + f]
      \/ buy' = [at |-> "idle", tok |-> NoToken, fill |-> 0] /\ UNCHANGED <<wallet, view>>
  BY Zenon DEF BuyPost, Moves
<1>7. QED
  BY <1>4, <1>5, <1>6, Zenon

\* The insert of its row is Custody's buy.
LEMMA BuyRefines ==
    ASSUME Simulated, BuyPersist PROVE Abstract!Next
<1> DEFINE b == buy.tok
           f == buy.fill
<1>1. TypeOK /\ buy.at = "persist" /\ b \in Token /\ OpenFor(b) = {} /\ f \in BuyQty
  BY DEF Simulated, Guards, TInv, TypeOK, BuyPersist, SizeInv
<1>2. UNCHANGED <<wallet, pc, cur, fill, reason>> /\ buy' = [at |-> "idle", tok |-> NoToken, fill |-> 0]
  BY DEF BuyPersist, chain, sell, NoBuy
<1>3. PICK p \in Pid : /\ First(p, Unused)
                       /\ status' = [status EXCEPT ![p] = "open"]
                       /\ tok' = [tok EXCEPT ![p] = b]
                       /\ qty' = [qty EXCEPT ![p] = f]
  BY DEF BuyPersist
<1>4. status[p] = "none" /\ \A r \in Pid : status[r] = "open" => tok[r] # b
  BY <1>1, <1>3 DEF First, Unused, OpenFor, OpenPids
<1>5. \A s \in Sellers : pc[s] = "persist" => tok'[cur[s]] = tok[cur[s]]
  <2>1. \A s \in Sellers : pc[s] = "persist" => cur[s] \in Pid /\ cur[s] # p
    BY <1>1, <1>4 DEF TypeOK, Selling, InThread
  <2>2. QED
    BY <1>1, <1>3, <2>1 DEF TypeOK
<1>6. ASSUME NEW t \in Token PROVE Sold(t)' = Sold(t)
  BY <1>2, <1>5, SoldStays
<1>7. ASSUME NEW t \in Token PROVE Sold(t) \in Nat
  <2>1. CASE \E s \in Sellers : pc[s] = "persist" /\ tok[cur[s]] = t
    BY <1>1, <2>1, WritersApart, SoldIsFill DEF Simulated, TypeOK
  <2>2. QED
    BY <2>1, SoldNothing
<1>8. ASSUME NEW t \in Token
      PROVE  Holdings'[t] = IF t = b THEN Holdings[t] + f ELSE Holdings[t]
  <2>1. wallet[t] \in Nat /\ f \in Nat
    BY <1>1, BuyAssumption DEF TypeOK
  <2>2. Bought(t) = (IF t = b THEN f ELSE 0) /\ Bought(t)' = 0
    BY <1>1, <1>2 DEF Bought
  <2>3. /\ Holdings[t] = (wallet[t] + Sold(t)) - Bought(t)
        /\ Holdings'[t] = (wallet[t] + Sold(t)) - 0
    BY <1>2, <1>6, <2>2 DEF Holdings
  <2>4. QED
    BY <1>7, <2>1, <2>2, <2>3
<1>9. Holdings' = [Holdings EXCEPT ![b] = @ + f]
  BY <1>1, <1>8 DEF Holdings
<1>10. Abstract!Open(p, b, f)
  BY <1>2, <1>3, <1>4, <1>9 DEF Abstract!Open, Holdings
<1>11. f \in Traded
  BY <1>1, TradedFacts
<1>12. \E q \in Traded : Abstract!Open(p, b, q)
  BY <1>10, <1>11 DEF Abstract!Open
<1>13. \E t \in Token, q \in Traded : Abstract!Open(p, t, q)
  BY <1>1, <1>12 DEF Abstract!Open
<1>14. QED
  BY <1>13, Zenon DEF Abstract!Next, Traded

LEMMA SettleRefines ==
    ASSUME Simulated, NEW M \in SUBSET resolved, SettleProcess(M) PROVE Abstract!Next
<1> DEFINE S == {p \in settling \ closing : tok[p] \in M /\ status[p] = "open"}
<1>1. S \in SUBSET Pid
  BY DEF Simulated, Guards, TInv, TypeOK
<1>2. UNCHANGED <<tok, qty, wallet, pc, cur, fill, buy>>
  BY DEF SettleProcess, Close, chain, sell
<1>3. \A t \in Token : Sold(t)' = Sold(t) /\ Bought(t)' = Bought(t)
  BY <1>2, SoldStays DEF Bought
<1>4. Holdings' = Holdings
  BY <1>2, <1>3 DEF Holdings
<1>5. Abstract!Settle(S)
  BY <1>2, <1>4 DEF SettleProcess, Close, Abstract!Settle, Holdings
<1>6. QED
  BY <1>1, <1>5, Zenon DEF Abstract!Next

\* Reconciliation finds no row to close: a row it could close is flat, but an open
\* row has at least the venue's precision in the wallet unless it is being sold.
LEMMA ReconciliationStutters ==
    ASSUME Simulated, RecProcess PROVE UNCHANGED Abstract!vars
<1>1. TypeOK
  BY DEF Simulated, Guards, TInv
<1>2. ASSUME NEW p \in RecFlat, status[p] = "open" PROVE FALSE
  <2>1. p \in OpenPids /\ p \notin closing /\ p \in aged /\ wallet[tok[p]] < MinSellable
    BY <1>1, <1>2 DEF RecProcess, RecFlat, OpenPids, TypeOK, Simulated, FlatInv, DeniedIsFlat, Flat
  <2>2. \A s \in Sellers : pc[s] = "persist" => cur[s] # p
    BY <2>1 DEF Simulated, Guards, OneSeller, Selling, InThread
  <2>3. qty[p] <= wallet[tok[p]] /\ qty[p] >= MinSellable
    BY <2>1, <2>2 DEF Simulated, Covered, SizeInv
  <2>4. qty[p] \in Nat /\ wallet[tok[p]] \in Nat /\ MinSellable \in Nat
    BY <1>1, <2>1, UnitsAssumption DEF TypeOK, OpenPids
  <2>5. QED
    BY <2>1, <2>3, <2>4
<1>3. UNCHANGED ledger
  BY <1>1, <1>2 DEF RecProcess, Close, ledger, TypeOK
<1>4. QED
  BY <1>3, QuietStutters DEF RecProcess, chain, sell, Bought

LEMMA StepRefines ==
    ASSUME Live, BulkRoutes = {}, MaxFaults = 0, Simulated, Guards', [Next]_vars
    PROVE  Abstract!Next \/ UNCHANGED Abstract!vars
<1>1. TypeOK /\ faults = 0 /\ faults \in Nat
  BY DEF Simulated, Guards, TInv, TypeOK
<1>2. CASE UNCHANGED vars
  BY <1>2, QuietStutters DEF vars, ledger, chain, sell, Bought
<1>3. CASE LoopStep
  <2>1. \A s \in Sellers : /\ (pc[s] = "persist")' <=> pc[s] = "persist"
                           /\ pc[s] = "persist" => cur'[s] = cur[s] /\ fill'[s] = fill[s]
    BY <1>1, <1>3 DEF LoopStep, ExitSweep, ExitDone, ExitPass, ExitClaim, RouteClose, Claim,
                      Release,
                      TypeOK
  <2>2. UNCHANGED <<ledger, wallet, buy>>
    BY <1>3 DEF LoopStep, ExitSweep, ExitDone, ExitPass, ExitClaim, RouteClose, Release, SellerOnly,
                chain
  <2>3. QED
    BY <2>1, <2>2, QuietStutters DEF Bought
<1>4. ASSUME NEW s \in Sellers, SellSkip(s) \/ SellGate(s) PROVE UNCHANGED Abstract!vars
  <2>1. \A x \in Sellers : /\ (pc[x] = "persist")' <=> pc[x] = "persist"
                           /\ pc[x] = "persist" => cur'[x] = cur[x] /\ fill'[x] = fill[x]
    BY <1>1, <1>4 DEF SellSkip, SellGate, Goto, TypeOK
  <2>2. UNCHANGED <<ledger, wallet, buy>>
    BY <1>4 DEF SellSkip, SellGate, SellerOnly, chain
  <2>3. QED
    BY <2>1, <2>2, QuietStutters DEF Bought
<1>5. ASSUME NEW s \in Sellers, ThreadStep(s) PROVE Abstract!Next \/ UNCHANGED Abstract!vars
  <2>1. ~PaperFill(s)
    BY DEF PaperFill
  <2>2. ~SellPersistFails(s)
    BY <1>1 DEF SellPersistFails, Simulated, Guards, ClaimedRowStaysOpen, InThread
  <2>3. QED
    BY <1>4, <1>5, <2>1, <2>2, PostStutters, SaleRefines DEF ThreadStep
<1>6. ASSUME NEW t \in Token, BuyCheck(t) PROVE UNCHANGED Abstract!vars
  <2>1. buy.at # "persist" /\ buy'.at # "persist"
    BY <1>6 DEF BuyCheck
  <2>2. QED
    BY <1>6, <2>1, QuietStutters DEF BuyCheck, Bought, chain, sell
<1>7. ASSUME UNCHANGED <<ledger, wallet, sell, buy>> PROVE UNCHANGED Abstract!vars
  BY <1>7, QuietStutters DEF Bought, sell
<1>8. CASE OtherStep
  <2>1. ~BuyPersistFails
    BY <1>1 DEF BuyPersistFails, Simulated, Guards, BuyIsFree
  <2>2. ASSUME NEW t \in Token PROVE ~OutsideExit(t)
    BY <1>1 DEF OutsideExit
  <2>3. CASE SettleFetch \/ RecFetch \/ RecAnswer
    BY <1>7, <2>3 DEF SettleFetch, RecFetch, RecAnswer, chain
  <2>4. ASSUME NEW t \in Token, MarketResolves(t) \/ IndexerCatchesUp(t) PROVE UNCHANGED Abstract!vars
    BY <1>7, <2>4 DEF MarketResolves, IndexerCatchesUp
  <2>5. ASSUME NEW p \in Pid, Ages(p) PROVE UNCHANGED Abstract!vars
    BY <1>7, <2>5 DEF Ages, chain
  <2>6. QED
    BY <1>6, <1>8, <2>1, <2>2, <2>3, <2>4, <2>5, SettleRefines, ReconciliationStutters,
       BuyPostStutters, BuyRefines DEF OtherStep
<1>9. ~Crash
  BY <1>1 DEF Crash
<1>10. QED
  BY <1>2, <1>3, <1>5, <1>8, <1>9, NextSplit

\* While nothing fails, every behaviour of the live protocol is one of Custody:
\* indivisible trades on a ledger that agrees with the wallet.  It is assumed that
\* no buy fills less than the venue's precision.
THEOREM ProtocolImplementsCustody ==
    ASSUME Live, BulkRoutes = {}, MaxFaults = 0, \A q \in BuyQty : q >= MinSellable
    PROVE  Spec => ImplementsCustody
<1>1. Init => Guards /\ CoverInv /\ FlatInv /\ SizeInv
  BY TypeInit
     DEF Init, Guards, CoverInv, OneSeller, ClaimedRowStaysOpen, BuyIsFree, OneOpenPerToken,
         Covered,
         BuyCovered, OpenPids, Selling, InThread, FlatInv, AgedInserted, OpenUnreasoned, DeniedIsFlat,
         SizeInv, Nothing
<1>2. Guards /\ CoverInv /\ FlatInv /\ SizeInv /\ [Next]_vars =>
        Guards' /\ CoverInv' /\ FlatInv' /\ SizeInv'
  BY TypeStep, OneSellerStep, ClaimedOpenStep, BuyFreeStep, OnePerTokenStep, CoverStep, FlatStep,
     SizeStep DEF Guards
<1>3. Guards /\ CoverInv /\ FlatInv /\ SizeInv => Simulated
  BY DEF Simulated, CoverInv, Guards, TInv, TypeOK
<1>4. Init => Abstract!Init
  BY DEF Init, Abstract!Init, Sold, Bought
<1>5. Simulated /\ Guards' /\ [Next]_vars => [Abstract!Next]_(Abstract!vars)
  BY StepRefines
<1>6. QED
  BY <1>1, <1>2, <1>3, <1>4, <1>5, PTL DEF Spec, ImplementsCustody, Abstract!Spec
=============================================================================
