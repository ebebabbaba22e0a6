------------------------ MODULE CloseProtocolProofs ------------------------
(***************************************************************************)
(* Proofs about CloseProtocol, for any number of rows, tokens, routes and  *)
(* faults: first its types, then that the claim protocol of                *)
(* closing_registry.py does what it is for: OneSeller, BuyIsBookable and   *)
(* ClosedIsFinal for every instance, and ClaimedRowStaysOpen for those     *)
(* without the close-all route, which breaks it.                           *)
(***************************************************************************)
EXTENDS CloseProtocol, TLAPS

Steps == InThread \cup {"idle", "sweep", "release"}

\* What TypeOK says of the sellers.
SellType ==
    /\ closing \subseteq Pid
    /\ pc \in [Sellers -> Steps]
    /\ cur \in [Sellers -> Pid \cup {NoRow}]
    /\ \A s \in Sellers : Selling(s) => cur[s] \in Pid /\ status[cur[s]] # "none"
    /\ snap \in [Sellers -> [Pid -> Nat]]
    /\ fill \in [Sellers -> Nat]
    /\ booked \in [Sellers -> Nat]

\* A seller lists only rows that were inserted.
ListedExist == \A s \in Sellers, p \in Pid : snap[s][p] # 0 => status[p] # "none"

TInv == TypeOK /\ ListedExist

LEMMA PidFacts == Pid \subseteq Nat \ {0} /\ NoRow \notin Pid /\ Exit \in Sellers
BY RowsAssumption DEF Pid, NoRow, Sellers

LEMMA QuantizeFacts ==
    ASSUME NEW q \in Nat
    PROVE  Quantize(q) \in Nat /\ Quantize(q) <= q /\ (Quantize(q) > 0 => q >= Share)
<1>1. q % MinSellable \in 0..(MinSellable - 1) /\ MinSellable \in Nat \ {0} /\ Share \in Nat
  BY UnitsAssumption
<1>2. q >= Share => q >= MinSellable
  BY UnitsAssumption
<1>3. QED
  BY <1>1, <1>2 DEF Quantize

\* A step of the sellers alone keeps the types of everything else.
LEMMA SellerOnlyType ==
    ASSUME TypeOK, SellerOnly, SellType' PROVE TypeOK'
BY DEF TypeOK, SellType, SellerOnly, ledger, chain, Steps

LEMMA TypeInit == Init => TInv
BY FaultsAssumption DEF Init, TInv, TypeOK, ListedExist, Nothing, Selling, InThread, Reasons, NoRow

\* A claim of an inserted row.
LEMMA ClaimType ==
    ASSUME TInv, NEW s \in Sellers, NEW p \in Pid, NEW list \in [Pid -> Nat],
           status[p] # "none", \A q \in Pid : list[q] # 0 => status[q] # "none",
           Claim(s, p, list), SellerOnly
    PROVE  TInv'
<1>1. SellType'
  BY DEF TInv, TypeOK, SellType, Claim, SellerOnly, ledger, Selling, InThread, Steps
<1>2. ListedExist'
  BY DEF TInv, TypeOK, ListedExist, Claim, SellerOnly, ledger
<1>3. QED
  BY <1>1, <1>2, SellerOnlyType DEF TInv

\* A step of a seller that moves no tokens and writes no row.
LEMMA SellerMoveType ==
    ASSUME TInv, SellerOnly, SellType',
           \A s \in Sellers, p \in Pid : snap'[s][p] # 0 => snap[s][p] # 0 \/ status[p] = "open"
    PROVE  TInv'
<1>1. ListedExist'
  BY DEF TInv, ListedExist, SellerOnly, ledger
<1>2. QED
  BY <1>1, SellerOnlyType DEF TInv

LEMMA BulkAdvanceType ==
    ASSUME TInv, NEW b \in BulkRoutes, NEW list \in [Pid -> Nat], NEW claims \in SUBSET Pid,
           \A q \in Pid : list[q] # 0 => status[q] # "none",
           BulkAdvance(b, list, claims), SellerOnly,
           fill' \in [Sellers -> Nat], booked' \in [Sellers -> Nat]
    PROVE  TInv'
<1>1. b \in Sellers /\ NoRow \notin Pid
  BY PidFacts DEF Sellers
<1>2. status' = status
  BY DEF SellerOnly, ledger
<1>3. CASE BulkEnds(b, claims)
  <2>1. SellType'
    BY <1>1, <1>2, <1>3 DEF TInv, TypeOK, SellType, BulkEnds, Selling, InThread, Steps, Nothing
  <2>2. ListedExist'
    BY <1>1, <1>2, <1>3 DEF TInv, TypeOK, ListedExist, BulkEnds, Nothing
  <2>3. QED
    BY <2>1, <2>2, SellerOnlyType DEF TInv
<1>4. ASSUME NEW p \in Pid, First(p, Listed(list) \ claims), BulkClaims(b, p, list, claims)
      PROVE  TInv'
  <2>1. status[p] # "none"
    BY <1>4 DEF First, Listed
  <2>2. [q \in Pid |-> IF p <= q THEN list[q] ELSE 0] \in [Pid -> Nat]
    OBVIOUS
  <2>3. SellType'
    BY <1>1, <1>2, <1>4, <2>1, <2>2 DEF TInv, TypeOK, SellType, BulkClaims, Selling, InThread, Steps
  <2>4. ListedExist'
    BY <1>1, <1>2, <1>4 DEF TInv, TypeOK, ListedExist, BulkClaims
  <2>5. QED
    BY <2>3, <2>4, SellerOnlyType DEF TInv
<1>5. QED
  BY <1>3, <1>4 DEF BulkAdvance

LEMMA OpensType == TypeOK => /\ Opens \in [Pid -> Nat] /\ Nothing \in [Pid -> Nat]
                             /\ \A q \in Pid : Opens[q] # 0 => status[q] # "none"
BY DEF TypeOK, Opens, Nothing

-----------------------------------------------------------------------------
\* The steps of the event loop: lists, claims and their release.
LEMMA ClaimStepType ==
    ASSUME TInv,
           \/ ExitSweep \/ ExitDone
           \/ \E p \in Pid : ExitPass(p) \/ ExitClaim(p)
           \/ \E r \in Routes, p \in Pid : RouteClose(r, p)
           \/ \E b \in BulkRoutes : BulkClose(b)
           \/ \E s \in Sellers : Release(s)
    PROVE  TInv'
<1>1. TypeOK /\ ListedExist /\ SellType
  BY DEF TInv, TypeOK, SellType, Steps
<1>2. CASE ExitSweep
  <2>1. SellType'
    BY <1>1, <1>2, PidFacts, OpensType
       DEF ExitSweep, SellerOnly, ledger, SellType, Selling, InThread, Steps
  <2>2. ListedExist'
    BY <1>1, <1>2, PidFacts, OpensType DEF ExitSweep, SellerOnly, ledger, ListedExist, SellType
  <2>3. QED
    BY <1>2, <2>1, <2>2, SellerOnlyType DEF TInv, ExitSweep
<1>3. CASE ExitDone
  <2>1. SellType'
    BY <1>1, <1>3, PidFacts DEF ExitDone, SellerOnly, ledger, SellType, Selling, InThread, Steps
  <2>2. QED
    BY <1>1, <1>3, <2>1, SellerMoveType DEF ExitDone
<1>4. ASSUME NEW p \in Pid, ExitPass(p) PROVE TInv'
  <2>1. SellType'
    BY <1>1, <1>4, PidFacts DEF ExitPass, SellerOnly, ledger, SellType, Selling, InThread, Steps
  <2>2. \A s \in Sellers, q \in Pid : snap'[s][q] # 0 => snap[s][q] # 0
    BY <1>1, <1>4, PidFacts DEF ExitPass, SellType
  <2>3. QED
    BY <1>1, <1>4, <2>1, <2>2, SellerMoveType DEF ExitPass
<1>5. ASSUME NEW p \in Pid, ExitClaim(p) PROVE TInv'
  <2>1. snap[Exit] \in [Pid -> Nat] /\ status[p] # "none"
        /\ \A q \in Pid : snap[Exit][q] # 0 => status[q] # "none"
    BY <1>1, <1>5, PidFacts DEF ExitClaim, SellType, ListedExist
  <2>2. QED
    BY <1>5, <2>1, PidFacts, ClaimType DEF ExitClaim
<1>6. ASSUME NEW r \in Routes, NEW p \in Pid, RouteClose(r, p) PROVE TInv'
  <2> DEFINE list == [Nothing EXCEPT ![p] = qty[p]]
  <2>1. list \in [Pid -> Nat] /\ status[p] # "none" /\ r \in Sellers
        /\ \A q \in Pid : list[q] # 0 => status[q] # "none"
    BY <1>1, <1>6 DEF RouteClose, TypeOK, Nothing, Sellers
  <2>2. Claim(r, p, list) /\ SellerOnly
    BY <1>6 DEF RouteClose
  <2> HIDE DEF list
  <2>3. QED
    BY <2>1, <2>2, ClaimType
<1>7. ASSUME NEW b \in BulkRoutes, BulkClose(b) PROVE TInv'
  <2>1. closing \in SUBSET Pid /\ fill' \in [Sellers -> Nat] /\ booked' \in [Sellers -> Nat]
    BY <1>1, <1>7 DEF BulkClose, SellType
  <2>2. QED
    BY <1>1, <1>7, <2>1, OpensType, BulkAdvanceType DEF BulkClose
<1>8. ASSUME NEW s \in Sellers, Release(s) PROVE TInv'
  <2> DEFINE list == [snap[s] EXCEPT ![cur[s]] = 0]
             claims == closing \ {cur[s]}
  <2>1. cur[s] \in Pid
    BY <1>1, <1>8 DEF Release, Selling, SellType
  <2>2. /\ list \in [Pid -> Nat] /\ claims \in SUBSET Pid
        /\ \A q \in Pid : list[q] # 0 => snap[s][q] # 0
        /\ fill' \in [Sellers -> Nat] /\ booked' \in [Sellers -> Nat]
    BY <1>1, <1>8, <2>1 DEF Release, SellType
  <2>3. CASE s \in BulkRoutes
    <3>1. BulkAdvance(s, list, claims) /\ SellerOnly
      BY <1>8, <2>3 DEF Release
    <3>2. \A q \in Pid : list[q] # 0 => status[q] # "none"
      BY <1>1, <2>2 DEF ListedExist
    <3> HIDE DEF list, claims
    <3>3. QED
      BY <2>2, <2>3, <3>1, <3>2, BulkAdvanceType
  <2>4. CASE s \notin BulkRoutes
    <3>1. /\ closing' = claims /\ pc' = [pc EXCEPT ![s] = IF s = Exit THEN "sweep" ELSE "idle"]
          /\ cur' = [cur EXCEPT ![s] = NoRow] /\ snap' = [snap EXCEPT ![s] = list]
          /\ status' = status /\ SellerOnly
      BY <1>8, <2>4 DEF Release, SellerOnly, ledger
    <3>2. SellType'
      BY <1>1, <2>2, <3>1, PidFacts DEF SellType, Selling, InThread, Steps
    <3>3. \A x \in Sellers, q \in Pid : snap'[x][q] # 0 => snap[x][q] # 0
      <4> HIDE DEF list
      <4>1. QED
        BY <1>1, <2>2, <3>1 DEF SellType
    <3>4. QED
      BY <3>1, <3>2, <3>3, SellerMoveType
  <2>5. QED
    BY <2>3, <2>4
<1>9. QED
  BY <1>2, <1>3, <1>4, <1>5, <1>6, <1>7, <1>8

-----------------------------------------------------------------------------
\* The chain: a transfer, and what the indexer may say of it.
LEMMA HeldType == ASSUME NEW w \in [Token -> Nat], NEW t \in Token PROVE Held(w, t) \in BOOLEAN
<1>1. w[t] \in Nat /\ MinSellable \in Nat
  BY UnitsAssumption
<1>2. QED
  BY <1>1 DEF Held

LEMMA MovesType ==
    ASSUME TypeOK, NEW t \in Token, NEW w \in [Token -> Nat], Moves(t, w)
    PROVE  wallet' \in [Token -> Nat] /\ view' \in [Token -> SUBSET BOOLEAN]
<1>1. view \in [Token -> SUBSET BOOLEAN] /\ Held(w, t) \in BOOLEAN
  BY HeldType DEF TypeOK
<1>2. QED
  BY <1>1 DEF Moves

\* The steps of the worker threads.
LEMMA ThreadStepType ==
    ASSUME TInv, NEW s \in Sellers,
           \/ SellSkip(s) \/ SellGate(s) \/ SellPost(s) \/ PaperFill(s)
           \/ SellPersist(s) \/ SellPersistFails(s)
    PROVE  TInv'
<1>1. TypeOK /\ ListedExist /\ SellType
  BY DEF TInv, TypeOK, SellType, Steps
<1>2. ASSUME pc[s] \in InThread, NEW t, t \in {"post", "persist", "release"}, Goto(s, t)
      PROVE  /\ pc' \in [Sellers -> Steps]
             /\ cur[s] \in Pid /\ status[cur[s]] # "none"
             /\ \A x \in Sellers : Selling(x)' => x = s \/ Selling(x)
  BY <1>1, <1>2 DEF Goto, SellType, Steps, Selling, InThread
<1>3. CASE SellSkip(s) \/ SellGate(s) \/ PaperFill(s)
  <2>1. pc[s] \in InThread /\ (Goto(s, "release") \/ Goto(s, "post") \/ Goto(s, "persist"))
        /\ SellerOnly /\ UNCHANGED <<closing, cur, snap, booked, status>>
    BY <1>3 DEF SellSkip, SellGate, PaperFill, InThread, SellerOnly, ledger
  <2>2. fill' \in [Sellers -> Nat]
    <3>1. ASSUME NEW depth \in 1..snap[s][cur[s]] PROVE Quantize(depth) \in Nat
      <4>1. cur[s] \in Pid /\ snap[s][cur[s]] \in Nat
        BY <1>1, <2>1 DEF SellType, Selling
      <4>2. depth \in Nat
        BY <4>1
      <4>3. QED
        BY <4>2, QuantizeFacts
    <3>2. QED
      BY <1>1, <1>3, <3>1 DEF SellType, SellSkip, SellGate, PaperFill
  <2>3. SellType'
    BY <1>1, <1>2, <2>1, <2>2 DEF SellType, Selling
  <2>4. QED
    BY <1>1, <2>1, <2>3, SellerMoveType
<1>4. CASE SellPost(s)
  <2> DEFINE t == tok[cur[s]]
  <2>1. cur[s] \in Pid /\ t \in Token /\ snap[s][cur[s]] \in Nat /\ wallet[t] \in Nat
    BY <1>1, <1>4 DEF SellPost, SellType, Selling, InThread, TypeOK
  <2>2. PICK f \in 0..Min2(Quantize(snap[s][cur[s]]), wallet[t]) :
          /\ Moves(t, [wallet EXCEPT ![t] = @ - f])
          /\ fill' = [fill EXCEPT ![s] = f]
          /\ Goto(s, IF f = 0 THEN "release" ELSE "persist")
    BY <1>4 DEF SellPost
  <2>3. f \in Nat /\ wallet[t] - f \in Nat
    BY <2>1, <2>2, QuantizeFacts DEF Min2
  <2>4. wallet' \in [Token -> Nat] /\ view' \in [Token -> SUBSET BOOLEAN]
    <3>1. [wallet EXCEPT ![t] = @ - f] \in [Token -> Nat]
      BY <1>1, <2>1, <2>3 DEF TypeOK
    <3>2. QED
      BY <1>1, <2>1, <2>2, <3>1, MovesType
  <2>5. SellType' /\ ListedExist'
    BY <1>1, <1>2, <1>4, <2>2, <2>3 DEF SellPost, SellType, ListedExist, ledger, Selling, InThread
  <2>6. QED
    BY <1>1, <1>4, <2>4, <2>5 DEF TInv, TypeOK, SellType, SellPost, ledger, Steps
<1>5. CASE SellPersist(s)
  <2>1. cur[s] \in Pid /\ fill[s] \in Nat /\ qty[cur[s]] \in Nat
    BY <1>1, <1>5 DEF SellPersist, SellType, Selling, InThread, TypeOK
  <2>2. Min2(fill[s], qty[cur[s]]) \in Nat /\ qty[cur[s]] - Min2(fill[s], qty[cur[s]]) \in Nat
    BY <2>1 DEF Min2
  <2>3. Reason(s) \in Reasons
    BY DEF Reason, Reasons
  <2>4. /\ status' \in [Pid -> {"none", "open", "closed"}] /\ tok' = tok
        /\ \A p \in Pid : status'[p] = "none" <=> status[p] = "none"
        /\ qty' \in [Pid -> Nat] /\ reason' \in [Pid -> Reasons]
    BY <1>1, <1>5, <2>1, <2>2, <2>3 DEF SellPersist, RecordSell, TypeOK
  <2>5. pc[s] \in InThread /\ Goto(s, "release") /\ UNCHANGED <<closing, cur, snap, fill>>
        /\ booked' \in [Sellers -> Nat]
    BY <1>1, <1>5, <2>2 DEF SellPersist, InThread, SellType
  <2>6. SellType' /\ ListedExist'
    BY <1>1, <1>2, <2>4, <2>5 DEF SellType, ListedExist, Selling
  <2>7. QED
    BY <1>1, <1>5, <2>4, <2>6 DEF TInv, TypeOK, SellType, SellPersist, chain, Steps
<1>6. CASE SellPersistFails(s)
  <2>1. pc[s] \in InThread /\ Goto(s, "release") /\ UNCHANGED <<closing, cur, snap, booked>>
        /\ fill' \in [Sellers -> Nat] /\ UNCHANGED status
    BY <1>1, <1>6 DEF SellPersistFails, InThread, SellType, ledger
  <2>2. SellType' /\ ListedExist'
    BY <1>1, <1>2, <2>1 DEF SellType, ListedExist, Selling
  <2>3. faults' \in 0..MaxFaults
    BY <1>1, <1>6, FaultsAssumption DEF SellPersistFails, TypeOK
  <2>4. QED
    BY <1>1, <1>6, <2>2, <2>3 DEF TInv, TypeOK, SellType, SellPersistFails, ledger, chain, Steps
<1>7. QED
  BY <1>3, <1>4, <1>5, <1>6

-----------------------------------------------------------------------------
\* Closing rows keeps the types of the ledger and inserts nothing.
LEMMA CloseType ==
    ASSUME TypeOK, NEW why \in Reasons, NEW S, \A p \in S : status[p] = "open", Close(S, why)
    PROVE  /\ status' \in [Pid -> {"none", "open", "closed"}] /\ tok' = tok
           /\ \A p \in Pid : status'[p] = "none" <=> status[p] = "none"
           /\ qty' \in [Pid -> Nat] /\ reason' \in [Pid -> Reasons]
BY DEF TypeOK, Close

LEMMA SellersStay ==
    ASSUME TInv, UNCHANGED sell, \A p \in Pid : status'[p] = "none" => status[p] = "none"
    PROVE  SellType' /\ ListedExist'
BY DEF TInv, TypeOK, SellType, ListedExist, sell, Selling, Steps

LEMMA MonitorStepType ==
    ASSUME TInv,
           \/ SettleFetch
           \/ \E M \in SUBSET resolved : SettleProcess(M)
           \/ RecFetch \/ RecAnswer \/ RecProcess
    PROVE  TInv'
<1>1. TypeOK /\ ListedExist
  BY DEF TInv
<1>2. CASE SettleFetch \/ RecFetch \/ RecAnswer
  <2>1. UNCHANGED <<ledger, sell>>
    BY <1>2 DEF SettleFetch, RecFetch, RecAnswer
  <2>2. SellType' /\ ListedExist'
    BY <2>1, SellersStay DEF ledger
  <2>3. settling' \subseteq Pid
    BY <1>1, <1>2 DEF SettleFetch, RecFetch, RecAnswer, TypeOK, OpenPids
  <2>4. rec' \in [at : {"idle", "fetch", "got"}, opens : SUBSET Pid, held : SUBSET Token]
    <3>1. rec \in [at : {"idle", "fetch", "got"}, opens : SUBSET Pid, held : SUBSET Token]
      BY <1>1 DEF TypeOK
    <3>2. CASE SettleFetch
      BY <3>1, <3>2 DEF SettleFetch
    <3>3. CASE RecFetch
      BY <3>3 DEF RecFetch, OpenPids
    <3>4. ASSUME NEW H \in SUBSET Token, rec' = [rec EXCEPT !.at = "got", !.held = H]
          PROVE  rec' \in [at : {"idle", "fetch", "got"}, opens : SUBSET Pid, held : SUBSET Token]
      BY <3>1, <3>4
    <3>5. CASE rec' = [at |-> "idle", opens |-> {}, held |-> {}]
      BY <3>5
    <3>6. CASE RecAnswer
      <4>1. \/ \E H \in SUBSET Token : rec' = [rec EXCEPT !.at = "got", !.held = H]
            \/ rec' = [at |-> "idle", opens |-> {}, held |-> {}]
        BY <3>6 DEF RecAnswer
      <4>2. QED
        BY <3>4, <3>5, <4>1
    <3>7. QED
      BY <1>2, <3>2, <3>3, <3>6
  <2>5. UNCHANGED <<ledger, chain, aged, alerted, buy, faults>>
    BY <1>2 DEF SettleFetch, RecFetch, RecAnswer
  <2>6. QED
    BY <1>1, <2>2, <2>3, <2>4, <2>5 DEF TInv, TypeOK, SellType, ledger, chain, Steps
<1>3. ASSUME NEW M \in SUBSET resolved, SettleProcess(M) PROVE TInv'
  <2> DEFINE S == {p \in settling \ closing : tok[p] \in M /\ status[p] = "open"}
  <2>1. Close(S, "settlement") /\ "settlement" \in Reasons
    BY <1>3 DEF SettleProcess, Reasons
  <2>2. /\ status' \in [Pid -> {"none", "open", "closed"}] /\ tok' = tok
        /\ \A p \in Pid : status'[p] = "none" <=> status[p] = "none"
        /\ qty' \in [Pid -> Nat] /\ reason' \in [Pid -> Reasons]
    BY <1>1, <2>1, CloseType
  <2>3. SellType' /\ ListedExist'
    BY <1>3, <2>2, SellersStay DEF SettleProcess
  <2>4. QED
    BY <1>1, <1>3, <2>2, <2>3 DEF TInv, TypeOK, SellType, SettleProcess, chain, Steps
<1>4. CASE RecProcess
  <2> DEFINE S == {p \in RecFlat : status[p] = "open"}
  <2>1. Close(S, "reconciled") /\ "reconciled" \in Reasons
    BY <1>4 DEF RecProcess, Reasons
  <2>2. /\ status' \in [Pid -> {"none", "open", "closed"}] /\ tok' = tok
        /\ \A p \in Pid : status'[p] = "none" <=> status[p] = "none"
        /\ qty' \in [Pid -> Nat] /\ reason' \in [Pid -> Reasons]
    BY <1>1, <2>1, CloseType
  <2>3. SellType' /\ ListedExist'
    BY <1>4, <2>2, SellersStay DEF RecProcess
  <2>4. alerted' \subseteq Token
    BY <1>1, <1>4 DEF RecProcess, TypeOK
  <2>5. rec' \in [at : {"idle", "fetch", "got"}, opens : SUBSET Pid, held : SUBSET Token]
    BY <1>4 DEF RecProcess
  <2>6. QED
    BY <1>1, <1>4, <2>2, <2>3, <2>4, <2>5 DEF TInv, TypeOK, SellType, RecProcess, chain, Steps
<1>5. QED
  BY <1>2, <1>3, <1>4

-----------------------------------------------------------------------------
\* The steps of the buy.
LEMMA BuyStepType ==
    ASSUME TInv, (\E t \in Token : BuyCheck(t)) \/ BuyPost \/ BuyPersist \/ BuyPersistFails
    PROVE  TInv'
<1>1. TypeOK /\ ListedExist
  BY DEF TInv
<1>2. ASSUME NEW t \in Token, BuyCheck(t) PROVE TInv'
  <2>1. SellType' /\ ListedExist'
    BY <1>2, SellersStay DEF BuyCheck, ledger
  <2>2. QED
    BY <1>1, <1>2, <2>1 DEF TInv, TypeOK, SellType, BuyCheck, ledger, chain, Steps
<1>3. CASE BuyPost
  <2>1. SellType' /\ ListedExist'
    BY <1>3, SellersStay DEF BuyPost, ledger
  <2>2. buy.tok \in Token
    BY <1>1, <1>3 DEF BuyPost, TypeOK
  <2>3. ASSUME NEW f \in BuyQty, buy' = [buy EXCEPT !.at = "persist", !.fill = f]
        PROVE  /\ buy' \in [at : {"idle", "post", "persist"}, tok : Token \cup {NoToken}, fill : Nat]
               /\ buy'.tok \in Token
    BY <1>1, <2>2, <2>3, BuyAssumption DEF TypeOK
  <2>4. ASSUME NEW f \in BuyQty, Moves(buy.tok, [wallet EXCEPT ![buy.tok] = @ + f])
        PROVE  wallet' \in [Token -> Nat] /\ view' \in [Token -> SUBSET BOOLEAN]
    <3>1. [wallet EXCEPT ![buy.tok] = @ + f] \in [Token -> Nat]
      BY <1>1, <2>2, BuyAssumption DEF TypeOK
    <3>2. QED
      BY <1>1, <2>2, <2>4, <3>1, MovesType
  <2>5. wallet' \in [Token -> Nat] /\ view' \in [Token -> SUBSET BOOLEAN]
    BY <1>1, <1>3, <2>4 DEF BuyPost, TypeOK
  <2>6. /\ buy' \in [at : {"idle", "post", "persist"}, tok : Token \cup {NoToken}, fill : Nat]
        /\ buy'.at # "idle" => buy'.tok \in Token
    <3>1. CASE buy' = [at |-> "idle", tok |-> NoToken, fill |-> 0]
      BY <3>1
    <3>2. QED
      BY <1>3, <2>3, <3>1 DEF BuyPost
  <2>7. QED
    BY <1>1, <1>3, <2>1, <2>5, <2>6 DEF TInv, TypeOK, SellType, BuyPost, ledger, Steps
<1>4. CASE BuyPersist
  <2>1. PICK p \in Pid : /\ First(p, Unused)
                         /\ status' = [status EXCEPT ![p] = "open"]
                         /\ tok' = [tok EXCEPT ![p] = buy.tok]
                         /\ qty' = [qty EXCEPT ![p] = buy.fill]
                         /\ UNCHANGED reason
    BY <1>4 DEF BuyPersist
  <2>2. buy.tok \in Token /\ buy.fill \in Nat
    BY <1>1, <1>4 DEF BuyPersist, TypeOK
  <2>3. /\ status' \in [Pid -> {"none", "open", "closed"}]
        /\ tok' \in [Pid -> Token \cup {NoToken}]
        /\ \A q \in Pid : status'[q] # "none" => tok'[q] \in Token
        /\ qty' \in [Pid -> Nat] /\ reason' \in [Pid -> Reasons]
        /\ \A q \in Pid : status'[q] = "none" => status[q] = "none"
    BY <1>1, <2>1, <2>2 DEF TypeOK
  <2>4. SellType' /\ ListedExist'
    BY <1>4, <2>3, SellersStay DEF BuyPersist
  <2>5. QED
    BY <1>1, <1>4, <2>3, <2>4 DEF TInv, TypeOK, SellType, BuyPersist, NoBuy, chain, Steps
<1>5. CASE BuyPersistFails
  <2>1. SellType' /\ ListedExist'
    BY <1>5, SellersStay DEF BuyPersistFails, ledger
  <2>2. faults' \in 0..MaxFaults
    BY <1>1, <1>5, FaultsAssumption DEF BuyPersistFails, TypeOK
  <2>3. QED
    BY <1>1, <1>5, <2>1, <2>2 DEF TInv, TypeOK, SellType, BuyPersistFails, NoBuy, ledger, chain, Steps
<1>6. QED
  BY <1>2, <1>3, <1>4, <1>5

\* The steps of the world, and the crash.
LEMMA WorldStepType ==
    ASSUME TInv,
           \/ \E t \in Token : MarketResolves(t) \/ IndexerCatchesUp(t) \/ OutsideExit(t)
           \/ \E p \in Pid : Ages(p)
           \/ Crash
    PROVE  TInv'
<1>1. TypeOK /\ ListedExist
  BY DEF TInv
<1>2. ASSUME NEW t \in Token, MarketResolves(t) \/ IndexerCatchesUp(t) \/ OutsideExit(t)
      PROVE  TInv'
  <2>1. SellType' /\ ListedExist'
    BY <1>2, SellersStay DEF MarketResolves, IndexerCatchesUp, OutsideExit, ledger
  <2>2. wallet' \in [Token -> Nat] /\ view' \in [Token -> SUBSET BOOLEAN]
    <3>1. [wallet EXCEPT ![t] = 0] \in [Token -> Nat]
      BY <1>1 DEF TypeOK
    <3>2. CASE OutsideExit(t)
      BY <1>1, <3>1, <3>2, MovesType DEF OutsideExit
    <3>3. CASE IndexerCatchesUp(t)
      BY <1>1, <3>3, HeldType DEF IndexerCatchesUp, TypeOK
    <3>4. CASE MarketResolves(t)
      BY <1>1, <3>4 DEF MarketResolves, TypeOK
    <3>5. QED
      BY <1>2, <3>2, <3>3, <3>4
  <2>3. resolved' \subseteq Token /\ faults' \in 0..MaxFaults
    BY <1>1, <1>2, FaultsAssumption DEF MarketResolves, IndexerCatchesUp, OutsideExit, TypeOK
  <2>4. UNCHANGED <<ledger, aged, settling, rec, alerted, buy>>
    BY <1>2 DEF MarketResolves, IndexerCatchesUp, OutsideExit
  <2>5. QED
    BY <1>1, <2>1, <2>2, <2>3, <2>4 DEF TInv, TypeOK, SellType, ledger, Steps
<1>3. ASSUME NEW p \in Pid, Ages(p) PROVE TInv'
  <2>1. SellType' /\ ListedExist'
    BY <1>3, SellersStay DEF Ages, ledger
  <2>2. QED
    BY <1>1, <1>3, <2>1 DEF TInv, TypeOK, SellType, Ages, ledger, chain, Steps
<1>4. CASE Crash
  <2>1. SellType' /\ ListedExist'
    BY <1>4 DEF Crash, SellType, ListedExist, Nothing, Selling, InThread, Steps
  <2>2. faults' \in 0..MaxFaults
    BY <1>1, <1>4, FaultsAssumption DEF Crash, TypeOK
  <2>3. QED
    BY <1>1, <1>4, <2>1, <2>2 DEF TInv, TypeOK, SellType, Crash, NoBuy, ledger, chain, Steps
<1>5. QED
  BY <1>2, <1>3, <1>4

LEMMA TypeStep == TInv /\ [Next]_vars => TInv'
<1> SUFFICES ASSUME TInv, [Next]_vars PROVE TInv'
  OBVIOUS
<1>1. CASE UNCHANGED vars
  BY <1>1 DEF vars, ledger, chain, sell, TInv, TypeOK, ListedExist, Selling
<1>2. ASSUME NEW s \in Sellers, SellStep(s) PROVE TInv'
  BY <1>2, ClaimStepType, ThreadStepType DEF SellStep, ExecuteSell
<1>3. QED
  BY <1>1, <1>2, ClaimStepType, MonitorStepType, BuyStepType, WorldStepType DEF Next

\* The types hold in every behaviour.
THEOREM TypeCorrect == Spec => []TypeOK
<1>1. TInv => TypeOK
  BY DEF TInv
<1>2. QED
  BY <1>1, TypeInit, TypeStep, PTL DEF Spec

-----------------------------------------------------------------------------
\* How a step may change the claims.  In each lemma the registry and the
\* sellers change together, so that they keep saying the same.
LEMMA ClaimKeeps ==
    ASSUME TypeOK, OneSeller, NEW s \in Sellers, ~Selling(s), NEW p \in Pid \ closing,
           closing' = closing \cup {p}, pc' = [pc EXCEPT ![s] = "gate"],
           cur' = [cur EXCEPT ![s] = p]
    PROVE  OneSeller'
<1>1. \A x \in Sellers : Selling(x)' <=> x = s \/ Selling(x)
  BY DEF TypeOK, Selling, InThread
<1>2. \A x \in Sellers : cur'[x] = IF x = s THEN p ELSE cur[x]
  BY DEF TypeOK
<1>3. \A x \in Sellers : Selling(x) => cur[x] # p
  BY DEF OneSeller
<1>4. QED
  BY <1>1, <1>2, <1>3 DEF OneSeller

LEMMA ReleaseKeeps ==
    ASSUME TypeOK, OneSeller, NEW s \in Sellers, Selling(s), NEW step \in {"idle", "sweep"},
           closing' = closing \ {cur[s]}, pc' = [pc EXCEPT ![s] = step],
           cur' = [cur EXCEPT ![s] = NoRow]
    PROVE  OneSeller'
<1>1. \A x \in Sellers : Selling(x)' <=> x # s /\ Selling(x)
  BY DEF TypeOK, Selling, InThread
<1>2. \A x \in Sellers : x # s => cur'[x] = cur[x]
  BY DEF TypeOK
<1>3. QED
  BY <1>1, <1>2 DEF OneSeller

LEMMA HandOverKeeps ==
    ASSUME TypeOK, OneSeller, NEW s \in Sellers, Selling(s), NEW p \in Pid,
           p \notin closing \ {cur[s]},
           closing' = (closing \ {cur[s]}) \cup {p}, pc' = [pc EXCEPT ![s] = "gate"],
           cur' = [cur EXCEPT ![s] = p]
    PROVE  OneSeller'
<1>1. \A x \in Sellers : Selling(x)' <=> Selling(x)
  BY DEF TypeOK, Selling, InThread
<1>2. \A x \in Sellers : cur'[x] = IF x = s THEN p ELSE cur[x]
  BY DEF TypeOK
<1>3. \A x \in Sellers : x # s /\ Selling(x) => cur[x] # p
  BY DEF OneSeller
<1>4. QED
  BY <1>1, <1>2, <1>3 DEF OneSeller

LEMMA StayKeeps ==
    ASSUME OneSeller, UNCHANGED closing,
           \A s \in Sellers : (Selling(s)' <=> Selling(s)) /\ (Selling(s) => cur'[s] = cur[s])
    PROVE  OneSeller'
BY DEF OneSeller

\* The steps a thread takes between its claim and its release.
ThreadStep(s) ==
    \/ SellSkip(s) \/ SellGate(s) \/ SellPost(s) \/ PaperFill(s)
    \/ SellPersist(s) \/ SellPersistFails(s)

LEMMA ThreadKeepsClaims ==
    ASSUME TypeOK, NEW s \in Sellers, ThreadStep(s)
    PROVE  /\ UNCHANGED <<closing, cur, snap>>
           /\ \A x \in Sellers : Selling(x)' <=> Selling(x)
           /\ \A x \in Sellers : pc'[x] \in InThread => pc[x] \in InThread
           /\ \A x \in Sellers : x # s => pc'[x] = pc[x] /\ fill'[x] = fill[x]
           /\ pc[s] \in InThread
<1>1. \/ Goto(s, "release") \/ Goto(s, "post") \/ Goto(s, "persist")
  BY DEF ThreadStep, SellSkip, SellGate, SellPost, PaperFill, SellPersist, SellPersistFails
<1>2. pc[s] \in InThread /\ UNCHANGED <<closing, cur, snap>>
  BY DEF ThreadStep, SellSkip, SellGate, SellPost, PaperFill, SellPersist, SellPersistFails, InThread
<1>3. \A x \in Sellers : x # s => fill'[x] = fill[x]
  BY DEF TypeOK, ThreadStep, SellSkip, SellGate, SellPost, PaperFill, SellPersist, SellPersistFails
<1>4. QED
  BY <1>1, <1>2, <1>3 DEF TypeOK, Goto, Selling, InThread

\* The steps that leave the sellers alone.
OtherStep ==
    \/ SettleFetch
    \/ \E M \in SUBSET resolved : SettleProcess(M)
    \/ RecFetch \/ RecAnswer \/ RecProcess
    \/ \E t \in Token : BuyCheck(t)
    \/ BuyPost \/ BuyPersist \/ BuyPersistFails
    \/ \E t \in Token : MarketResolves(t) \/ IndexerCatchesUp(t) \/ OutsideExit(t)
    \/ \E p \in Pid : Ages(p)

LEMMA OtherStepEffect == OtherStep => UNCHANGED sell
BY DEF OtherStep, SettleFetch, SettleProcess, RecFetch, RecAnswer, RecProcess, BuyCheck, BuyPost,
       BuyPersist, BuyPersistFails, MarketResolves, IndexerCatchesUp, OutsideExit, Ages

\* The steps of the event loop that list, claim and release.
LoopStep ==
    \/ ExitSweep \/ ExitDone
    \/ \E p \in Pid : ExitPass(p) \/ ExitClaim(p)
    \/ \E r \in Routes, p \in Pid : RouteClose(r, p)
    \/ \E b \in BulkRoutes : BulkClose(b)
    \/ \E s \in Sellers : Release(s)

LEMMA NextSplit ==
    Next => LoopStep \/ (\E s \in Sellers : ThreadStep(s)) \/ OtherStep \/ Crash
BY DEF Next, SellStep, ExecuteSell, LoopStep, ThreadStep, OtherStep

LEMMA LoopKeeps == ASSUME TypeOK, OneSeller, LoopStep PROVE OneSeller'
<1>1. CASE ExitSweep \/ ExitDone
  BY <1>1, PidFacts, StayKeeps DEF ExitSweep, ExitDone, TypeOK, Selling, InThread
<1>2. ASSUME NEW p \in Pid, ExitPass(p) PROVE OneSeller'
  BY <1>2, StayKeeps DEF ExitPass, Selling
<1>3. ASSUME NEW p \in Pid, ExitClaim(p) PROVE OneSeller'
  BY <1>3, PidFacts, ClaimKeeps DEF ExitClaim, Claim, Selling, InThread
<1>4. ASSUME NEW r \in Routes, NEW p \in Pid, RouteClose(r, p) PROVE OneSeller'
  BY <1>4, ClaimKeeps DEF RouteClose, Claim, Selling, InThread, Sellers
<1>5. ASSUME NEW b \in BulkRoutes, BulkClose(b) PROVE OneSeller'
  <2>1. b \in Sellers /\ ~Selling(b) /\ BulkAdvance(b, Opens, closing)
    BY <1>5 DEF BulkClose, Selling, InThread, Sellers
  <2>2. CASE BulkEnds(b, closing)
    BY <2>1, <2>2, StayKeeps DEF BulkEnds, TypeOK, Selling, InThread
  <2>3. ASSUME NEW p \in Pid, First(p, Listed(Opens) \ closing), BulkClaims(b, p, Opens, closing)
        PROVE  OneSeller'
    BY <2>1, <2>3, ClaimKeeps DEF BulkClaims, First
  <2>4. QED
    BY <2>1, <2>2, <2>3 DEF BulkAdvance
<1>6. ASSUME NEW s \in Sellers, Release(s) PROVE OneSeller'
  <2> DEFINE list == [snap[s] EXCEPT ![cur[s]] = 0]
             claims == closing \ {cur[s]}
  <2>1. Selling(s)
    BY <1>6 DEF Release, Selling
  <2>2. CASE s \in BulkRoutes
    <3>1. BulkAdvance(s, list, claims)
      BY <1>6, <2>2 DEF Release
    <3>2. CASE BulkEnds(s, claims)
      BY <2>1, <3>2, ReleaseKeeps DEF BulkEnds
    <3>3. ASSUME NEW p \in Pid, First(p, Listed(list) \ claims), BulkClaims(s, p, list, claims)
          PROVE  OneSeller'
      BY <2>1, <3>3, HandOverKeeps DEF BulkClaims, First
    <3>4. QED
      BY <3>1, <3>2, <3>3 DEF BulkAdvance
  <2>3. CASE s \notin BulkRoutes
    <3>1. PICK step \in {"idle", "sweep"} :
            /\ closing' = claims /\ pc' = [pc EXCEPT ![s] = step]
            /\ cur' = [cur EXCEPT ![s] = NoRow]
      BY <1>6, <2>3 DEF Release
    <3>2. QED
      BY <2>1, <3>1, ReleaseKeeps
  <2>4. QED
    BY <2>2, <2>3
<1>7. QED
  BY <1>1, <1>2, <1>3, <1>4, <1>5, <1>6 DEF LoopStep

LEMMA OneSellerStep == TInv /\ OneSeller /\ [Next]_vars => OneSeller'
<1> SUFFICES ASSUME TypeOK, OneSeller, [Next]_vars PROVE OneSeller'
  BY DEF TInv
<1>1. ASSUME NEW s \in Sellers, ThreadStep(s) PROVE OneSeller'
  BY <1>1, ThreadKeepsClaims, StayKeeps
<1>2. CASE OtherStep \/ UNCHANGED vars
  <2>1. UNCHANGED sell
    BY <1>2, OtherStepEffect DEF vars
  <2>2. QED
    BY <2>1, StayKeeps DEF sell, Selling
<1>3. CASE Crash
  BY <1>3 DEF Crash, OneSeller, Selling, InThread
<1>4. QED
  BY <1>1, <1>2, <1>3, LoopKeeps, NextSplit

\* No position is sold by two sellers at once, and the registry holds exactly
\* the positions being sold: no claim is lost, none outlives its sell.
THEOREM OneSellerEach == Spec => []OneSeller
<1>1. Init => OneSeller
  BY DEF Init, OneSeller, Selling, InThread
<1>2. QED
  BY <1>1, TypeInit, TypeStep, OneSellerStep, PTL DEF Spec

-----------------------------------------------------------------------------
\* What a step may do to the status of a row.
LEMMA StatusEffect ==
    ASSUME TInv, [Next]_vars, NEW p \in Pid
    PROVE  /\ status'[p] = "open" => \/ status[p] = "open" /\ tok'[p] = tok[p]
                                     \/ BuyPersist /\ status[p] = "none" /\ tok'[p] = buy.tok
           /\ status[p] = "closed" => /\ status'[p] = "closed" /\ tok'[p] = tok[p]
                                      /\ qty'[p] = qty[p] /\ reason'[p] = reason[p]
           /\ status[p] # "none" => status'[p] # "none"
<1>1. TypeOK
  BY DEF TInv
<1>2. CASE UNCHANGED ledger
  BY <1>2 DEF ledger
<1>3. CASE LoopStep \/ Crash \/ UNCHANGED vars
  <2>1. UNCHANGED ledger
    BY <1>3 DEF LoopStep, Crash, vars, ExitSweep, ExitDone, ExitPass, ExitClaim, RouteClose, BulkClose,
                Release, SellerOnly
  <2>2. QED
    BY <1>2, <2>1
<1>4. ASSUME NEW s \in Sellers, ThreadStep(s)
      PROVE  UNCHANGED ledger \/ SellPersist(s)
  BY <1>4 DEF ThreadStep, SellSkip, SellGate, SellPost, PaperFill, SellPersistFails, SellerOnly
<1>5. ASSUME NEW s \in Sellers, SellPersist(s)
      PROVE  /\ status[cur[s]] = "open" /\ tok' = tok
             /\ p # cur[s] => status'[p] = status[p] /\ qty'[p] = qty[p] /\ reason'[p] = reason[p]
             /\ status'[cur[s]] # "none"
  BY <1>1, <1>5 DEF SellPersist, RecordSell, TypeOK
<1>6. ASSUME NEW why, NEW S, \A q \in S : status[q] = "open", Close(S, why)
      PROVE  /\ status'[p] = "open" => status[p] = "open" /\ tok'[p] = tok[p]
             /\ status[p] = "closed" => /\ status'[p] = "closed" /\ tok'[p] = tok[p]
                                        /\ qty'[p] = qty[p] /\ reason'[p] = reason[p]
             /\ status[p] # "none" => status'[p] # "none"
  BY <1>6 DEF Close
<1>7. CASE RecProcess
  BY <1>6, <1>7 DEF RecProcess
<1>8. ASSUME NEW M \in SUBSET resolved, SettleProcess(M)
      PROVE  /\ status'[p] = "open" => status[p] = "open" /\ tok'[p] = tok[p]
             /\ status[p] = "closed" => /\ status'[p] = "closed" /\ tok'[p] = tok[p]
                                        /\ qty'[p] = qty[p] /\ reason'[p] = reason[p]
             /\ status[p] # "none" => status'[p] # "none"
  BY <1>6, <1>8 DEF SettleProcess
<1>9. CASE BuyPersist
  BY <1>1, <1>9 DEF BuyPersist, First, Unused, TypeOK
<1>10. CASE OtherStep
  <2>1. \/ UNCHANGED ledger \/ RecProcess \/ BuyPersist
        \/ \E M \in SUBSET resolved : SettleProcess(M)
    BY <1>10 DEF OtherStep, SettleFetch, RecFetch, RecAnswer, BuyCheck, BuyPost, BuyPersistFails,
                 MarketResolves, IndexerCatchesUp, OutsideExit, Ages, ledger
  <2>2. QED
    BY <1>2, <1>7, <1>8, <1>9, <2>1
<1>11. QED
  <2>1. ASSUME NEW s \in Sellers, SellPersist(s)
        PROVE  /\ status'[p] = "open" => status[p] = "open" /\ tok'[p] = tok[p]
               /\ status[p] = "closed" => /\ status'[p] = "closed" /\ tok'[p] = tok[p]
                                          /\ qty'[p] = qty[p] /\ reason'[p] = reason[p]
               /\ status[p] # "none" => status'[p] # "none"
    BY <1>5, <2>1
  <2>2. QED
    BY <1>2, <1>3, <1>4, <1>10, <2>1, NextSplit

\* Whatever runs against it, a closed row is not written again.
THEOREM ClosedRowsAreFinal == Spec => ClosedIsFinal
<1>1. TInv /\ [Next]_vars =>
        [\A p \in Pid : status[p] = "closed" =>
            <<status'[p], tok'[p], qty'[p], reason'[p]>> = <<status[p], tok[p], qty[p], reason[p]>>]_vars
  BY StatusEffect
<1>2. QED
  BY <1>1, TypeInit, TypeStep, PTL DEF Spec, ClosedIsFinal

-----------------------------------------------------------------------------
\* From its check to its write a buy finds its token free, and so no two open
\* rows are of one token.
BuyIsFree == buy.at \in {"post", "persist"} => OpenFor(buy.tok) = {}

OneOpenPerToken == \A p, q \in OpenPids : tok[p] = tok[q] => p = q

\* What a step may do to the buy.
LEMMA BuyEffect ==
    ASSUME TInv, [Next]_vars
    PROVE  \/ UNCHANGED buy
           \/ buy'.at = "idle"
           \/ OpenFor(buy'.tok) = {} /\ UNCHANGED ledger
           \/ buy.at = "post" /\ buy'.tok = buy.tok /\ UNCHANGED ledger
<1>1. buy \in [at : {"idle", "post", "persist"}, tok : Token \cup {NoToken}, fill : Nat]
  BY DEF TInv, TypeOK
<1>2. CASE LoopStep \/ UNCHANGED vars
  BY <1>2 DEF LoopStep, vars, ExitSweep, ExitDone, ExitPass, ExitClaim, RouteClose, BulkClose, Release,
              SellerOnly
<1>3. ASSUME NEW s \in Sellers, ThreadStep(s) PROVE UNCHANGED buy
  BY <1>3 DEF ThreadStep, SellSkip, SellGate, SellPost, PaperFill, SellPersist, SellPersistFails, SellerOnly
<1>4. CASE Crash \/ BuyPersist \/ BuyPersistFails
  BY <1>4 DEF Crash, BuyPersist, BuyPersistFails, NoBuy
<1>5. ASSUME NEW t \in Token, BuyCheck(t) PROVE OpenFor(buy'.tok) = {} /\ UNCHANGED ledger
  BY <1>5 DEF BuyCheck
<1>6. CASE BuyPost
  <2>1. ASSUME NEW f \in BuyQty, buy' = [buy EXCEPT !.at = "persist", !.fill = f]
        PROVE  buy'.tok = buy.tok
    BY <1>1, <2>1
  <2>2. \/ \E f \in BuyQty : buy' = [buy EXCEPT !.at = "persist", !.fill = f]
        \/ buy' = [at |-> "idle", tok |-> NoToken, fill |-> 0]
    BY <1>6, Zenon DEF BuyPost
  <2>3. buy.at = "post" /\ UNCHANGED ledger
    BY <1>6 DEF BuyPost
  <2>4. CASE buy' = [at |-> "idle", tok |-> NoToken, fill |-> 0]
    BY <2>4
  <2>5. QED
    BY <2>1, <2>2, <2>3, <2>4
<1>7. CASE OtherStep
  <2>1. \/ UNCHANGED buy \/ BuyPost \/ BuyPersist \/ BuyPersistFails
        \/ \E t \in Token : BuyCheck(t)
    BY <1>7 DEF OtherStep, SettleFetch, SettleProcess, RecFetch, RecAnswer, RecProcess,
                MarketResolves, IndexerCatchesUp, OutsideExit, Ages
  <2>2. QED
    BY <1>4, <1>5, <1>6, <2>1
<1>8. QED
  BY <1>2, <1>3, <1>4, <1>7, NextSplit

LEMMA BuyFreeStep == TInv /\ BuyIsFree /\ [Next]_vars => BuyIsFree'
<1> SUFFICES ASSUME TInv, BuyIsFree, [Next]_vars, buy'.at # "idle" PROVE (OpenFor(buy.tok) = {})'
  BY DEF BuyIsFree
<1>1. CASE UNCHANGED ledger
  <2>1. OpenFor(buy'.tok) = {}
    BY BuyEffect DEF BuyIsFree, TInv, TypeOK
  <2>2. QED
    BY <1>1, <2>1 DEF OpenFor, OpenPids, ledger
<1>2. CASE UNCHANGED buy
  <2>1. ~BuyPersist
    BY <1>2 DEF BuyPersist, NoBuy
  <2>2. \A p \in Pid : status'[p] = "open" => status[p] = "open" /\ tok'[p] = tok[p]
    BY <2>1, StatusEffect
  <2>3. OpenFor(buy.tok) = {}
    BY <1>2 DEF BuyIsFree, TInv, TypeOK
  <2>4. QED
    BY <1>2, <2>2, <2>3 DEF OpenFor, OpenPids
<1>3. QED
  BY <1>1, <1>2, BuyEffect

LEMMA OnePerTokenStep == TInv /\ BuyIsFree /\ OneOpenPerToken /\ [Next]_vars => OneOpenPerToken'
<1> SUFFICES ASSUME TInv, BuyIsFree, OneOpenPerToken, [Next]_vars PROVE OneOpenPerToken'
  OBVIOUS
<1>1. CASE BuyPersist
  <2>1. OpenFor(buy.tok) = {}
    BY <1>1 DEF BuyPersist
  <2>2. PICK p \in Pid : /\ status' = [status EXCEPT ![p] = "open"]
                         /\ tok' = [tok EXCEPT ![p] = buy.tok]
    BY <1>1 DEF BuyPersist
  <2>3. \A q \in Pid : q # p => status'[q] = status[q] /\ tok'[q] = tok[q]
    BY <2>2 DEF TInv, TypeOK
  <2>4. tok'[p] = buy.tok
    BY <2>2 DEF TInv, TypeOK
  <2>5. QED
    BY <2>1, <2>3, <2>4 DEF OneOpenPerToken, OpenPids, OpenFor
<1>2. CASE ~BuyPersist
  <2>1. \A p \in Pid : status'[p] = "open" => status[p] = "open" /\ tok'[p] = tok[p]
    BY <1>2, StatusEffect
  <2>2. QED
    BY <2>1 DEF OneOpenPerToken, OpenPids
<1>3. QED
  BY <1>1, <1>2

\* A buy that filled always gets its row.
THEOREM BuyAlwaysBookable == Spec => []BuyIsBookable
<1>1. Init => BuyIsFree
  BY DEF Init, BuyIsFree
<1>2. BuyIsFree => BuyIsBookable
  BY DEF BuyIsFree, BuyIsBookable
<1>3. QED
  BY <1>1, <1>2, TypeInit, TypeStep, BuyFreeStep, PTL DEF Spec

-----------------------------------------------------------------------------
\* Without the close-all route every claim is taken on a row that is open at
\* that moment; nobody else closes it before its sale is written.
LEMMA ClaimsOpenRow ==
    ASSUME TypeOK, BulkRoutes = {}, LoopStep, NEW s \in Sellers, pc'[s] \in InThread
    PROVE  \/ pc[s] \in InThread /\ cur'[s] = cur[s] /\ pc'[s] = pc[s]
           \/ status[cur'[s]] = "open" /\ pc'[s] = "gate"
<1>1. CASE ExitSweep \/ ExitDone
  BY <1>1 DEF ExitSweep, ExitDone, TypeOK, InThread
<1>2. ASSUME NEW p \in Pid, ExitPass(p) \/ ExitClaim(p)
      PROVE  \/ pc[s] \in InThread /\ cur'[s] = cur[s] /\ pc'[s] = pc[s]
             \/ status[cur'[s]] = "open" /\ pc'[s] = "gate"
  BY <1>2 DEF ExitPass, ExitClaim, Claim, TypeOK
<1>3. ASSUME NEW r \in Routes, NEW p \in Pid, RouteClose(r, p)
      PROVE  \/ pc[s] \in InThread /\ cur'[s] = cur[s] /\ pc'[s] = pc[s]
             \/ status[cur'[s]] = "open" /\ pc'[s] = "gate"
  BY <1>3 DEF RouteClose, Claim, TypeOK
<1>4. ASSUME NEW x \in Sellers, Release(x)
      PROVE  pc[s] \in InThread /\ cur'[s] = cur[s] /\ pc'[s] = pc[s]
  BY <1>4 DEF Release, TypeOK, InThread
<1>5. QED
  BY <1>1, <1>2, <1>3, <1>4 DEF LoopStep

LEMMA ClaimedOpenStep ==
    ASSUME TInv, BulkRoutes = {}, OneSeller, ClaimedRowStaysOpen, [Next]_vars
    PROVE  ClaimedRowStaysOpen'
<1>1. TypeOK
  BY DEF TInv
<1>2. CASE LoopStep
  <2>1. status' = status
    BY <1>2 DEF LoopStep, ExitSweep, ExitDone, ExitPass, ExitClaim, RouteClose, BulkClose, Release,
                SellerOnly, ledger
  <2>2. QED
    BY <1>1, <1>2, <2>1, ClaimsOpenRow DEF ClaimedRowStaysOpen
<1>3. ASSUME NEW s \in Sellers, ThreadStep(s) PROVE ClaimedRowStaysOpen'
  <2>1. CASE SellPersist(s)
    <3>1. \A p \in Pid : p # cur[s] => status'[p] = status[p]
      BY <1>1, <2>1 DEF SellPersist, RecordSell, TypeOK
    <3>2. pc'[s] = "release" /\ cur' = cur
      BY <1>1, <2>1 DEF SellPersist, Goto, TypeOK
    <3>3. \A x \in Sellers : pc'[x] \in InThread =>
            x # s /\ pc[x] \in InThread /\ cur[x] # cur[s] /\ cur[x] \in Pid
      BY <1>1, <1>3, <3>2, ThreadKeepsClaims DEF OneSeller, Selling, InThread, TypeOK
    <3>4. QED
      BY <3>1, <3>2, <3>3 DEF ClaimedRowStaysOpen
  <2>2. CASE ~SellPersist(s)
    <3>1. status' = status
      BY <1>3, <2>2 DEF ThreadStep, SellSkip, SellGate, SellPost, PaperFill, SellPersistFails, SellerOnly,
                        ledger
    <3>2. QED
      BY <1>1, <1>3, <3>1, ThreadKeepsClaims DEF ClaimedRowStaysOpen
  <2>3. QED
    BY <2>1, <2>2
<1>4. CASE Crash
  BY <1>4 DEF Crash, ClaimedRowStaysOpen, InThread
<1>5. ASSUME UNCHANGED sell, \A p \in closing : status[p] = "open" => status'[p] = "open"
      PROVE  ClaimedRowStaysOpen'
  <2>1. \A s \in Sellers : pc[s] \in InThread => cur[s] \in closing
    BY DEF OneSeller, Selling
  <2>2. QED
    BY <1>5, <2>1 DEF sell, ClaimedRowStaysOpen
<1>6. CASE OtherStep \/ UNCHANGED vars
  <2>1. ASSUME NEW p \in closing, status[p] = "open" PROVE status'[p] = "open"
    <3>1. p \in Pid
      BY <1>1 DEF TypeOK
    <3>2. ASSUME NEW M \in SUBSET resolved, SettleProcess(M) PROVE status'[p] = "open"
      BY <2>1, <3>1, <3>2 DEF SettleProcess, Close
    <3>3. CASE RecProcess
      BY <2>1, <3>1, <3>3 DEF RecProcess, RecFlat, Close
    <3>4. CASE BuyPersist
      BY <1>1, <2>1, <3>1, <3>4 DEF BuyPersist, TypeOK
    <3>5. QED
      BY <1>6, <2>1, <3>2, <3>3, <3>4
         DEF OtherStep, SettleFetch, RecFetch, RecAnswer, BuyCheck, BuyPost, BuyPersistFails,
             MarketResolves, IndexerCatchesUp, OutsideExit, Ages, ledger, vars
  <2>2. QED
    BY <1>5, <1>6, <2>1, OtherStepEffect DEF vars
<1>7. QED
  BY <1>2, <1>3, <1>4, <1>6, NextSplit

\* The exit monitor and the single close re-read what they sell: with them
\* alone, no position is closed under a sell in flight, whatever fails.
THEOREM ClaimedRowsStayOpen ==
    ASSUME BulkRoutes = {} PROVE Spec => []ClaimedRowStaysOpen
<1>1. Init => OneSeller /\ ClaimedRowStaysOpen
  BY DEF Init, OneSeller, ClaimedRowStaysOpen, Selling, InThread
<1>2. QED
  BY <1>1, TypeInit, TypeStep, OneSellerStep, ClaimedOpenStep, PTL DEF Spec
=============================================================================
