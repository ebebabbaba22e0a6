------------------------ MODULE PortfolioStoreProofs ------------------------
(***************************************************************************)
(* The ledger's invariants, for every number of rows, keys and callers and *)
(* all quantities, prices and fees.  The strengthening says that what a    *)
(* caller has read of a row is still what the row says when it commits,    *)
(* which is what Exclusive, and so the claim of CloseProtocol, buys.       *)
(***************************************************************************)
EXTENDS PortfolioStore, TLAPS

\* No two sessions on a row, and a session is up to date.
SessionsFresh ==
    \A c \in Caller : tx[c].op # "none" =>
        /\ row[tx[c].pid].status = "open"
        /\ tx[c].qty = row[tx[c].pid].qty
        /\ tx[c].pnl = row[tx[c].pid].pnl
        /\ tx[c].sold <= tx[c].qty
        /\ tx[c].op = "close" => tx[c].sold = tx[c].qty /\ tx[c].fee = 0
        /\ \A d \in Caller : d # c => tx[d].pid # tx[c].pid

LEMMA MinQtyFacts ==
    ASSUME NEW a \in Nat, NEW b \in Nat
    PROVE  MinQty(a, b) \in Nat /\ MinQty(a, b) <= a /\ MinQty(a, b) <= b
BY DEF MinQty

LEMMA GainType ==
    ASSUME TypeOK, NEW p \in RowId, NEW price \in Nat, NEW q \in Nat, NEW fee \in Nat
    PROVE  RealizedGain(p, price, q, fee) \in Int
BY DEF RealizedGain, TypeOK, Row, Sums

LEMMA CommitType ==
    ASSUME TypeOK, NEW c \in Caller, tx[c].pid \in RowId, NEW st \in {"open", "closed"},
           NEW q \in Nat, NEW gain \in Int, Commit(c, st, q, gain)
    PROVE  TypeOK'
<1>1. tx[c] \in Tx /\ row[tx[c].pid] \in Row /\ sums[tx[c].pid] \in Sums
  BY DEF TypeOK
<1>2. tx[c].price * tx[c].sold \in Nat
  BY <1>1 DEF Tx
<1>3. AddFill(sums[tx[c].pid], tx[c]) \in Sums
  BY <1>1, <1>2 DEF AddFill, Sums, Tx
<1>4. Written(row[tx[c].pid], st, q, tx[c].pnl + gain) \in Row
  BY <1>1 DEF Written, Row, Tx
<1>5. NoTx \in Tx
  BY DEF NoTx, Tx
<1>6. QED
  BY <1>3, <1>4, <1>5 DEF Commit, TypeOK, NoTx

LEMMA TypeInit == Init => TypeOK
BY NoneAssumption DEF Init, TypeOK, Row, Sums, Tx, NoRow, NoSums, NoTx

LEMMA TypeStep == TypeOK /\ [Next]_vars => TypeOK'
<1> SUFFICES ASSUME TypeOK, [Next]_vars PROVE TypeOK'
  OBVIOUS
<1> USE QuantityAssumption, MoneyAssumption, MinSellableAssumption, NoneAssumption
<1>1. ASSUME NEW p \in RowId, NEW k \in Key, NEW price \in Price, NEW q \in Quantity,
             NEW rate \in FeeRate, OpenPosition(p, k, price, q, rate)
      PROVE  TypeOK'
  BY <1>1 DEF OpenPosition, TypeOK, Row, Sums
<1>2. ASSUME NEW c \in Caller, NEW p \in RowId, NEW q \in Quantity, NEW price \in Price,
             NEW fee \in Fee, ReadForSell(c, p, q, price, fee)
      PROVE  TypeOK'
  <2>1. MinQty(q, row[p].qty) \in Nat
    BY MinQtyFacts DEF TypeOK, Row
  <2>2. QED
    BY <1>2, <2>1 DEF ReadForSell, TypeOK, Row, Tx
<1>3. ASSUME NEW c \in Caller, NEW p \in RowId, NEW price \in Price, ReadForClose(c, p, price)
      PROVE  TypeOK'
  BY <1>3 DEF ReadForClose, TypeOK, Row, Tx
<1>4. ASSUME NEW c \in Caller, CommitSell(c) PROVE TypeOK'
  <2> DEFINE t == tx[c]
             gain == RealizedGain(t.pid, t.price, t.sold, t.fee)
  <2>1. t.pid \in RowId /\ t \in Tx
    BY <1>4 DEF CommitSell, TypeOK
  <2>2. gain \in Int
    BY <2>1, GainType DEF Tx
  <2>3. t.qty - t.sold >= MinSellable => t.qty - t.sold \in Nat
    BY <2>1 DEF Tx
  <2>4. QED
    BY <1>4, <2>1, <2>2, <2>3, CommitType DEF CommitSell, Tx
<1>5. ASSUME NEW c \in Caller, CommitClose(c) PROVE TypeOK'
  <2>1. tx[c].pid \in RowId /\ tx[c] \in Tx
    BY <1>5 DEF CommitClose, TypeOK
  <2>2. RealizedGain(tx[c].pid, tx[c].price, tx[c].sold, 0) \in Int
    BY <2>1, GainType DEF Tx
  <2>3. QED
    BY <1>5, <2>1, <2>2, CommitType DEF CommitClose, Tx
<1>6. ASSUME NEW c \in Caller, Rollback(c) PROVE TypeOK'
  BY <1>6 DEF Rollback, TypeOK, Tx, NoTx
<1>7. CASE UNCHANGED vars
  BY <1>7 DEF vars, TypeOK
<1>8. QED
  BY <1>1, <1>2, <1>3, <1>4, <1>5, <1>6, <1>7 DEF Next

\* The tables and the sessions keep their types through every call.
THEOREM TypeCorrect == Spec => []TypeOK
<1>1. QED
  BY TypeInit, TypeStep, PTL DEF Spec

-----------------------------------------------------------------------------
LEMMA CommitFresh ==
    ASSUME TypeOK, SessionsFresh, NEW c \in Caller, tx[c].op # "none",
           NEW st \in {"open", "closed"}, NEW q \in Nat, NEW gain \in Int, Commit(c, st, q, gain)
    PROVE  SessionsFresh'
<1>1. tx' = [tx EXCEPT ![c] = NoTx] /\ tx'[c].op = "none"
  BY DEF Commit, TypeOK, NoTx
<1>2. \A d \in Caller : d # c => tx'[d] = tx[d] /\ tx[d].pid # tx[c].pid
  BY <1>1 DEF SessionsFresh, TypeOK
<1>3. \A p \in RowId : p # tx[c].pid => row'[p] = row[p]
  BY DEF Commit, TypeOK
<1>4. SUFFICES ASSUME NEW d \in Caller, tx'[d].op # "none"
               PROVE  /\ row'[tx'[d].pid].status = "open"
                      /\ tx'[d].qty = row'[tx'[d].pid].qty
                      /\ tx'[d].pnl = row'[tx'[d].pid].pnl
                      /\ tx'[d].sold <= tx'[d].qty
                      /\ tx'[d].op = "close" => tx'[d].sold = tx'[d].qty /\ tx'[d].fee = 0
                      /\ \A e \in Caller : e # d => tx'[e].pid # tx'[d].pid
  BY DEF SessionsFresh
<1>5. d # c /\ tx'[d] = tx[d] /\ tx[d].pid \in RowId
  BY <1>1, <1>2, <1>4 DEF TypeOK
<1>6. row'[tx[d].pid] = row[tx[d].pid]
  BY <1>2, <1>3, <1>5
<1>7. \A e \in Caller : e # d => tx'[e].pid # tx[d].pid
  <2>1. NoTx.pid # tx[d].pid
    BY <1>5, NoneAssumption DEF NoTx
  <2>2. QED
    BY <1>1, <1>2, <1>4, <1>5, <2>1 DEF SessionsFresh, TypeOK
<1>8. QED
  BY <1>4, <1>5, <1>6, <1>7 DEF SessionsFresh

LEMMA FreshStep == TypeOK /\ SessionsFresh /\ [Next]_vars => SessionsFresh'
<1> SUFFICES ASSUME TypeOK, SessionsFresh, [Next]_vars PROVE SessionsFresh'
  OBVIOUS
<1>1. ASSUME NEW p \in RowId, NEW k \in Key, NEW price \in Price, NEW q \in Quantity,
             NEW rate \in FeeRate, OpenPosition(p, k, price, q, rate)
      PROVE  SessionsFresh'
  <2>1. \A c \in Caller : tx[c].op # "none" => tx[c].pid # p
    BY <1>1 DEF OpenPosition, SessionsFresh
  <2>2. \A r \in RowId : r # p => row'[r] = row[r]
    BY <1>1 DEF OpenPosition, TypeOK
  <2>3. QED
    BY <1>1, <2>1, <2>2 DEF OpenPosition, SessionsFresh, TypeOK
<1>2. ASSUME NEW c \in Caller, NEW p \in RowId, NEW q \in Quantity, NEW price \in Price,
             NEW fee \in Fee, ReadForSell(c, p, q, price, fee)
      PROVE  SessionsFresh'
  <2>1. MinQty(q, row[p].qty) <= row[p].qty
    BY MinQtyFacts, QuantityAssumption DEF TypeOK, Row
  <2>2. tx'[c].pid = p /\ tx'[c].op = "sell" /\ tx'[c].qty = row[p].qty
        /\ tx'[c].pnl = row[p].pnl /\ tx'[c].sold <= tx'[c].qty
    BY <1>2, <2>1 DEF ReadForSell, TypeOK
  <2>3. \A d \in Caller : d # c => tx'[d] = tx[d] /\ tx[d].pid # p
    BY <1>2 DEF ReadForSell, Exclusive, TypeOK
  <2>4. QED
    BY <1>2, <2>2, <2>3 DEF ReadForSell, SessionsFresh
<1>3. ASSUME NEW c \in Caller, NEW p \in RowId, NEW price \in Price, ReadForClose(c, p, price)
      PROVE  SessionsFresh'
  <2>1. row[p].qty <= row[p].qty
    BY DEF TypeOK, Row
  <2>2. tx'[c].pid = p /\ tx'[c].op = "close" /\ tx'[c].qty = row[p].qty
        /\ tx'[c].pnl = row[p].pnl /\ tx'[c].sold = row[p].qty /\ tx'[c].fee = 0
    BY <1>3 DEF ReadForClose, TypeOK
  <2>3. \A d \in Caller : d # c => tx'[d] = tx[d] /\ tx[d].pid # p
    BY <1>3 DEF ReadForClose, Exclusive, TypeOK
  <2>4. QED
    BY <1>3, <2>1, <2>2, <2>3 DEF ReadForClose, SessionsFresh
<1>4. ASSUME NEW c \in Caller, CommitSell(c) PROVE SessionsFresh'
  <2>1. tx[c].pid \in RowId /\ tx[c] \in Tx /\ tx[c].op # "none"
    BY <1>4 DEF CommitSell, TypeOK
  <2>2. RealizedGain(tx[c].pid, tx[c].price, tx[c].sold, tx[c].fee) \in Int
    BY <2>1, GainType DEF Tx
  <2>3. tx[c].sold \in Nat /\ tx[c].qty - tx[c].sold \in Nat
    BY <2>1 DEF SessionsFresh, Tx
  <2>4. QED
    BY <1>4, <2>1, <2>2, <2>3, CommitFresh DEF CommitSell
<1>5. ASSUME NEW c \in Caller, CommitClose(c) PROVE SessionsFresh'
  <2>1. tx[c].pid \in RowId /\ tx[c] \in Tx /\ tx[c].op # "none"
    BY <1>5 DEF CommitClose, TypeOK
  <2>2. RealizedGain(tx[c].pid, tx[c].price, tx[c].sold, 0) \in Int
    BY <2>1, GainType DEF Tx
  <2>3. tx[c].qty \in Nat
    BY <2>1 DEF Tx
  <2>4. QED
    BY <1>5, <2>1, <2>2, <2>3, CommitFresh DEF CommitClose
<1>6. ASSUME NEW c \in Caller, Rollback(c) PROVE SessionsFresh'
  <2>1. \A d \in Caller : tx'[d] = IF d = c THEN NoTx ELSE tx[d]
    BY <1>6 DEF Rollback, TypeOK
  <2>2. NoTx.op = "none" /\ NoTx.pid \notin RowId
    BY NoneAssumption DEF NoTx
  <2>3. QED
    BY <1>6, <2>1, <2>2 DEF Rollback, SessionsFresh, TypeOK
<1>7. CASE UNCHANGED vars
  BY <1>7 DEF vars, SessionsFresh
<1>8. QED
  BY <1>1, <1>2, <1>3, <1>4, <1>5, <1>6, <1>7 DEF Next

-----------------------------------------------------------------------------
\* What a commit makes of the row it is for, and that it leaves the others.
LEMMA CommitEffect ==
    ASSUME TypeOK, NEW c \in Caller, tx[c].pid \in RowId,
           NEW st \in {"open", "closed"}, NEW q \in Nat, NEW gain \in Int, Commit(c, st, q, gain)
    PROVE  /\ row'[tx[c].pid] = Written(row[tx[c].pid], st, q, tx[c].pnl + gain)
           /\ sums'[tx[c].pid] = AddFill(sums[tx[c].pid], tx[c])
           /\ \A p \in RowId : p # tx[c].pid => row'[p] = row[p] /\ sums'[p] = sums[p]
BY DEF Commit, TypeOK

LEMMA CommitShares ==
    ASSUME TypeOK, NEW c \in Caller, tx[c].pid \in RowId,
           NEW st \in {"open", "closed"}, NEW q \in Nat, NEW gain \in Int, Commit(c, st, q, gain)
    PROVE  /\ row'[tx[c].pid].status = st /\ row'[tx[c].pid].qty = q
           /\ sums'[tx[c].pid].sold = sums[tx[c].pid].sold + tx[c].sold
           /\ sums'[tx[c].pid].bought = sums[tx[c].pid].bought
           /\ \A r \in RowId : r # tx[c].pid => row'[r] = row[r] /\ sums'[r] = sums[r]
<1> DEFINE p == tx[c].pid
<1>1. /\ Written(row[p], st, q, tx[c].pnl + gain).status = st
      /\ Written(row[p], st, q, tx[c].pnl + gain).qty = q
  BY DEF Written
<1>2. /\ AddFill(sums[p], tx[c]).sold = sums[p].sold + tx[c].sold
      /\ AddFill(sums[p], tx[c]).bought = sums[p].bought
  BY DEF AddFill
<1>3. /\ row'[p] = Written(row[p], st, q, tx[c].pnl + gain)
      /\ sums'[p] = AddFill(sums[p], tx[c])
      /\ \A r \in RowId : r # p => row'[r] = row[r] /\ sums'[r] = sums[r]
  BY CommitEffect
<1>4. QED
  BY <1>1, <1>2, <1>3

LEMMA SharesStep ==
    TypeOK /\ SessionsFresh /\ SharesConserved /\ [Next]_vars => SharesConserved'
<1> SUFFICES ASSUME TypeOK, SessionsFresh, SharesConserved, [Next]_vars PROVE SharesConserved'
  OBVIOUS
<1>1. ASSUME NEW p \in RowId, NEW k \in Key, NEW price \in Price, NEW q \in Quantity,
             NEW rate \in FeeRate, OpenPosition(p, k, price, q, rate)
      PROVE  SharesConserved'
  <2>1. /\ row'[p].status = "open" /\ row'[p].qty = q
        /\ sums'[p].bought = q /\ sums'[p].sold = 0
        /\ \A r \in RowId : r # p => row'[r] = row[r] /\ sums'[r] = sums[r]
    BY <1>1 DEF OpenPosition, TypeOK
  <2>2. q = 0 + q
    BY QuantityAssumption
  <2>3. QED
    BY <2>1, <2>2 DEF SharesConserved
<1>2. ASSUME NEW c \in Caller, CommitSell(c) PROVE SharesConserved'
  <2> DEFINE p == tx[c].pid
             s == tx[c].sold
             gain == RealizedGain(p, tx[c].price, s, tx[c].fee)
  <2>1. p \in RowId /\ tx[c] \in Tx /\ tx[c].op # "none"
    BY <1>2 DEF CommitSell, TypeOK
  <2>2. gain \in Int
    BY <2>1, GainType DEF Tx
  <2>3. /\ row[p].status = "open" /\ tx[c].qty = row[p].qty /\ s <= row[p].qty
        /\ row[p].qty \in Nat /\ s \in Nat /\ sums[p].sold \in Nat
        /\ sums[p].bought = sums[p].sold + row[p].qty
    BY <2>1 DEF SessionsFresh, SharesConserved, TypeOK, Tx, Row, Sums
  <2>4. CASE tx[c].qty - s < MinSellable
    <3>1. Commit(c, "closed", s, gain)
      BY <1>2, <2>3, <2>4, MinSellableAssumption DEF CommitSell
    <3>2. /\ row'[p].status = "closed"
          /\ sums'[p].sold = sums[p].sold + s /\ sums'[p].bought = sums[p].bought
          /\ \A r \in RowId : r # p => row'[r] = row[r] /\ sums'[r] = sums[r]
      BY <3>1, <2>1, <2>2, <2>3, CommitShares
    <3>3. /\ sums'[p].sold <= sums'[p].bought
          /\ sums'[p].bought < sums'[p].sold + MinSellable
      BY <3>2, <2>3, <2>4, MinSellableAssumption
    <3>4. QED
      BY <3>2, <3>3 DEF SharesConserved
  <2>5. CASE tx[c].qty - s >= MinSellable
    <3>1. Commit(c, "open", tx[c].qty - s, gain) /\ tx[c].qty - s \in Nat
      BY <1>2, <2>3, <2>5, MinSellableAssumption DEF CommitSell
    <3>2. /\ row'[p].status = "open" /\ row'[p].qty = row[p].qty - s
          /\ sums'[p].sold = sums[p].sold + s /\ sums'[p].bought = sums[p].bought
          /\ \A r \in RowId : r # p => row'[r] = row[r] /\ sums'[r] = sums[r]
      BY <3>1, <2>1, <2>2, <2>3, CommitShares
    <3>3. sums'[p].bought = sums'[p].sold + row'[p].qty
      BY <3>2, <2>3
    <3>4. QED
      BY <3>2, <3>3 DEF SharesConserved
  <2>6. QED
    BY <2>3, <2>4, <2>5, MinSellableAssumption
<1>3. ASSUME NEW c \in Caller, CommitClose(c) PROVE SharesConserved'
  <2> DEFINE p == tx[c].pid
             gain == RealizedGain(p, tx[c].price, tx[c].sold, 0)
  <2>1. p \in RowId /\ tx[c] \in Tx /\ tx[c].op # "none"
    BY <1>3 DEF CommitClose, TypeOK
  <2>2. gain \in Int
    BY <2>1, GainType DEF Tx
  <2>3. /\ row[p].status = "open" /\ tx[c].qty = row[p].qty /\ tx[c].sold = row[p].qty
        /\ row[p].qty \in Nat /\ sums[p].sold \in Nat
        /\ sums[p].bought = sums[p].sold + row[p].qty
    BY <1>3, <2>1 DEF CommitClose, SessionsFresh, SharesConserved, TypeOK, Tx, Row, Sums
  <2>4. Commit(c, "closed", tx[c].qty, gain)
    BY <1>3 DEF CommitClose
  <2>5. /\ row'[p].status = "closed"
        /\ sums'[p].sold = sums[p].sold + row[p].qty /\ sums'[p].bought = sums[p].bought
        /\ \A r \in RowId : r # p => row'[r] = row[r] /\ sums'[r] = sums[r]
    BY <2>1, <2>2, <2>3, <2>4, CommitShares
  <2>6. /\ sums'[p].sold <= sums'[p].bought
        /\ sums'[p].bought < sums'[p].sold + MinSellable
    BY <2>3, <2>5, MinSellableAssumption
  <2>7. QED
    BY <2>5, <2>6 DEF SharesConserved
<1>4. CASE UNCHANGED <<row, sums>>
  BY <1>4 DEF SharesConserved
<1>5. QED
  BY <1>1, <1>2, <1>3, <1>4 DEF Next, ReadForSell, ReadForClose, Rollback, vars

\* No share appears or disappears, whatever the legs a position is sold in.
THEOREM SharesAreConserved == Spec => []SharesConserved
<1>1. Init => SessionsFresh /\ SharesConserved
  BY DEF Init, SessionsFresh, SharesConserved, NoRow, NoTx
<1>2. QED
  BY <1>1, TypeInit, TypeStep, FreshStep, SharesStep, PTL DEF Spec

-----------------------------------------------------------------------------
\* The arithmetic of a leg: the accrued PnL follows the accrued fills.
LEMMA Accrual ==
    ASSUME NEW pnl \in Int, NEW proceeds \in Int, NEW avg \in Int, NEW sold \in Int,
           NEW fees \in Int, NEW rate \in Int, NEW price \in Int, NEW q \in Int, NEW fee \in Int,
           pnl = ((proceeds - avg * sold) - fees) - rate * sold
    PROVE  pnl + (((price - avg) * q - fee) - rate * q)
             = (((proceeds + price * q) - avg * (sold + q)) - (fees + fee)) - rate * (sold + q)
<1>1. /\ (price - avg) * q = price * q - avg * q
      /\ avg * (sold + q) = avg * sold + avg * q
      /\ rate * (sold + q) = rate * sold + rate * q
  OBVIOUS
<1>2. avg * sold \in Int /\ avg * q \in Int /\ rate * sold \in Int /\ rate * q \in Int /\ price * q \in Int
  OBVIOUS
<1>3. QED
  BY <1>1, <1>2

LEMMA PnlCommit ==
    ASSUME TypeOK, PnlMatchesFills, NEW c \in Caller, tx[c].pid \in RowId,
           tx[c].pnl = row[tx[c].pid].pnl,
           NEW st \in {"open", "closed"}, NEW q \in Nat,
           Commit(c, st, q, RealizedGain(tx[c].pid, tx[c].price, tx[c].sold, tx[c].fee))
    PROVE  PnlMatchesFills'
<1> DEFINE p == tx[c].pid
           gain == RealizedGain(p, tx[c].price, tx[c].sold, tx[c].fee)
<1>1. tx[c] \in Tx /\ row[p] \in Row /\ sums[p] \in Sums
  BY DEF TypeOK
<1>2. gain \in Int
  BY <1>1, GainType DEF Tx
<1>3. /\ row'[p] = Written(row[p], st, q, tx[c].pnl + gain)
      /\ sums'[p] = AddFill(sums[p], tx[c])
      /\ \A r \in RowId : r # p => row'[r] = row[r] /\ sums'[r] = sums[r]
  BY <1>2, CommitEffect
<1>4. /\ row[p].pnl \in Int /\ row[p].avg \in Int /\ sums[p].proceeds \in Int
      /\ sums[p].sold \in Int /\ sums[p].sellFee \in Int /\ sums[p].rate \in Int
      /\ tx[c].price \in Int /\ tx[c].sold \in Int /\ tx[c].fee \in Int
  BY <1>1 DEF Row, Sums, Tx
<1>5. row[p].pnl = ((sums[p].proceeds - row[p].avg * sums[p].sold) - sums[p].sellFee)
                      - sums[p].rate * sums[p].sold
  BY DEF PnlMatchesFills
<1>6. row[p].pnl + gain
        = (((sums[p].proceeds + tx[c].price * tx[c].sold) - row[p].avg * (sums[p].sold + tx[c].sold))
              - (sums[p].sellFee + tx[c].fee)) - sums[p].rate * (sums[p].sold + tx[c].sold)
  BY <1>4, <1>5, Accrual DEF RealizedGain
<1>7. /\ row'[p].pnl = row[p].pnl + gain /\ row'[p].avg = row[p].avg
      /\ sums'[p].proceeds = sums[p].proceeds + tx[c].price * tx[c].sold
      /\ sums'[p].sold = sums[p].sold + tx[c].sold
      /\ sums'[p].sellFee = sums[p].sellFee + tx[c].fee
      /\ sums'[p].rate = sums[p].rate
  <2> HIDE DEF gain
  <2>1. QED
    BY <1>3 DEF Written, AddFill
<1>8. row'[p].pnl = ((sums'[p].proceeds - row'[p].avg * sums'[p].sold) - sums'[p].sellFee)
                      - sums'[p].rate * sums'[p].sold
  <2> HIDE DEF gain
  <2>1. QED
    BY <1>6, <1>7
<1>9. QED
  BY <1>3, <1>8 DEF PnlMatchesFills

LEMMA PnlStep ==
    TypeOK /\ SessionsFresh /\ PnlMatchesFills /\ [Next]_vars => PnlMatchesFills'
<1> SUFFICES ASSUME TypeOK, SessionsFresh, PnlMatchesFills, [Next]_vars PROVE PnlMatchesFills'
  OBVIOUS
<1>1. ASSUME NEW p \in RowId, NEW k \in Key, NEW price \in Price, NEW q \in Quantity,
             NEW rate \in FeeRate, OpenPosition(p, k, price, q, rate)
      PROVE  PnlMatchesFills'
  <2>1. /\ row'[p].pnl = 0 /\ row'[p].avg = price
        /\ sums'[p].proceeds = 0 /\ sums'[p].sold = 0 /\ sums'[p].sellFee = 0 /\ sums'[p].rate = rate
        /\ \A r \in RowId : r # p => row'[r] = row[r] /\ sums'[r] = sums[r]
    BY <1>1 DEF OpenPosition, TypeOK
  <2>2. 0 = ((0 - price * 0) - 0) - rate * 0
    BY MoneyAssumption
  <2>3. QED
    BY <2>1, <2>2 DEF PnlMatchesFills
<1>2. ASSUME NEW c \in Caller, CommitSell(c) PROVE PnlMatchesFills'
  <2>1. tx[c].pid \in RowId /\ tx[c] \in Tx /\ tx[c].pnl = row[tx[c].pid].pnl /\ tx[c].sold <= tx[c].qty
    BY <1>2 DEF CommitSell, TypeOK, SessionsFresh
  <2>2. tx[c].sold \in Nat /\ tx[c].qty - tx[c].sold \in Nat
    BY <2>1 DEF Tx
  <2>3. QED
    BY <1>2, <2>1, <2>2, PnlCommit DEF CommitSell
<1>3. ASSUME NEW c \in Caller, CommitClose(c) PROVE PnlMatchesFills'
  <2>1. /\ tx[c].pid \in RowId /\ tx[c] \in Tx /\ tx[c].pnl = row[tx[c].pid].pnl
        /\ tx[c].qty \in Nat /\ tx[c].fee = 0
    BY <1>3 DEF CommitClose, TypeOK, SessionsFresh, Tx
  <2>2. Commit(c, "closed", tx[c].qty, RealizedGain(tx[c].pid, tx[c].price, tx[c].sold, tx[c].fee))
    BY <1>3, <2>1 DEF CommitClose
  <2>3. QED
    BY <2>1, <2>2, PnlCommit
<1>4. CASE UNCHANGED <<row, sums>>
  BY <1>4 DEF PnlMatchesFills
<1>5. QED
  BY <1>1, <1>2, <1>3, <1>4 DEF Next, ReadForSell, ReadForClose, Rollback, vars

\* realized_pnl can be recomputed from the fills at any moment, for any
\* sequence of partial sells, settlements and rollbacks.
THEOREM PnlIsAccounted == Spec => []PnlMatchesFills
<1>1. Init => SessionsFresh /\ PnlMatchesFills
  BY MoneyAssumption DEF Init, SessionsFresh, PnlMatchesFills, NoRow, NoTx, NoSums
<1>2. QED
  BY <1>1, TypeInit, TypeStep, FreshStep, PnlStep, PTL DEF Spec

\* A closed row takes no more fills and does not change.
THEOREM ClosedTakesNoFill == Spec => NoFillAfterClose
<1>1. TypeOK /\ SessionsFresh /\ [Next]_vars =>
        [\A p \in RowId : row[p].status = "closed" => row'[p] = row[p] /\ sums'[p] = sums[p]]_vars
  <2> SUFFICES ASSUME TypeOK, SessionsFresh, Next, NEW p \in RowId, row[p].status = "closed"
               PROVE  row'[p] = row[p] /\ sums'[p] = sums[p]
    BY DEF vars
  <2>1. ASSUME NEW c \in Caller, CommitSell(c) \/ CommitClose(c)
        PROVE  row'[p] = row[p] /\ sums'[p] = sums[p]
    <3>1. tx[c].pid # p
      BY <2>1 DEF CommitSell, CommitClose, SessionsFresh
    <3>2. QED
      BY <2>1, <3>1 DEF CommitSell, CommitClose, Commit, TypeOK
  <2>2. QED
    BY <2>1 DEF Next, OpenPosition, ReadForSell, ReadForClose, Rollback, TypeOK
<1>2. Init => SessionsFresh
  BY DEF Init, SessionsFresh, NoTx
<1>3. QED
  BY <1>1, <1>2, TypeInit, TypeStep, FreshStep, PTL DEF Spec, NoFillAfterClose
=============================================================================
