--------------------------- MODULE PortfolioStore ---------------------------
(***************************************************************************)
(* The ledger of portfolio/store.py: the position rows and the fill table, *)
(* the latter by the sums that matter of it, per position.  Quantities are *)
(* in units of a fraction of MIN_SELLABLE_QTY, prices and fees in ticks    *)
(* per unit, money in their product.                                       *)
(*                                                                         *)
(* close_position and record_sell read the row and write it in one         *)
(* session, but SQLite takes its lock at the first write: another thread   *)
(* may write between the two.  Each is therefore a read step and a commit  *)
(* step of a calling thread.  What keeps two callers off one row is not    *)
(* the store but the claim of module CloseProtocol, here the guard         *)
(* Exclusive.  open_position is one step, its insert being what the        *)
(* partial unique index checks.                                            *)
(***************************************************************************)
EXTENDS Integers

CONSTANTS
    RowId,        \* rows the instance may insert
    Key,          \* (market_id, side) pairs
    Caller,       \* threads that call the store
    Quantity,     \* quantities traded
    Price,        \* prices per unit
    FeeRate,      \* taker fee on a buy, per unit
    Fee,          \* fee on a sell
    MinSellable,  \* MIN_SELLABLE_QTY
    NoKey,
    NoPid

ASSUME QuantityAssumption == Quantity \subseteq Nat \ {0}
ASSUME MoneyAssumption == Price \subseteq Nat /\ FeeRate \subseteq Nat /\ Fee \subseteq Nat
ASSUME MinSellableAssumption == MinSellable \in Nat \ {0}
ASSUME NoneAssumption == NoPid \notin RowId /\ NoKey \notin Key

VARIABLES
    row,   \* the position table
    sums,  \* the fill table, summed per position
    tx     \* what each caller has read and not yet committed

vars == <<row, sums, tx>>

-----------------------------------------------------------------------------
NoRow  == [status |-> "none", key |-> NoKey, qty |-> 0, avg |-> 0, pnl |-> 0]
NoSums == [bought |-> 0, rate |-> 0, sold |-> 0, proceeds |-> 0, sellFee |-> 0]
NoTx   == [op |-> "none", pid |-> NoPid, qty |-> 0, pnl |-> 0, sold |-> 0, price |-> 0, fee |-> 0]

\* Faulty variant of MinQty: a sale is not capped by the row.
MinQtyUncapped(a, b) == a
MinQty(a, b) == IF a <= b THEN a ELSE b

Init ==
    /\ row = [p \in RowId |-> NoRow]
    /\ sums = [p \in RowId |-> NoSums]
    /\ tx = [c \in Caller |-> NoTx]

\* The partial unique index: at most one open row per key.
OpenPosition(p, k, price, q, rate) ==
    /\ row[p].status = "none"
    /\ \A r \in RowId : row[r].status = "open" => row[r].key # k
    /\ row' = [row EXCEPT ![p] = [status |-> "open", key |-> k, qty |-> q, avg |-> price, pnl |-> 0]]
    /\ sums' = [sums EXCEPT ![p] = [bought |-> q, rate |-> rate, sold |-> 0, proceeds |-> 0, sellFee |-> 0]]
    /\ UNCHANGED tx

\* Faulty variant of Exclusive: callers are not kept apart.
ExclusiveNot(p) == TRUE

\* The caller is the only one with a session open on p.
Exclusive(p) == \A c \in Caller : tx[c].pid # p

\* Faulty variant of RealizedGain: the buy fee is charged on what is left.
RealizedGainRest(p, price, q, fee) ==
    ((price - row[p].avg) * q - fee) - sums[p].rate * row[p].qty

\* _realized_gain: the gain of a leg, net of its fee and of the buy fee of its
\* shares; the buy fee per unit is the rate the buy was charged at.
RealizedGain(p, price, q, fee) ==
    ((price - row[p].avg) * q - fee) - sums[p].rate * q

\* record_sell, the read: refused unless the row is open; never more than the
\* row holds.
ReadForSell(c, p, q, price, fee) ==
    /\ tx[c] = NoTx
    /\ row[p].status = "open"
    /\ Exclusive(p)
    /\ tx' = [tx EXCEPT ![c] = [op |-> "sell", pid |-> p, qty |-> row[p].qty, pnl |-> row[p].pnl,
                                sold |-> MinQty(q, row[p].qty), price |-> price, fee |-> fee]]
    /\ UNCHANGED <<row, sums>>

\* close_position, the read: the whole of the row, no fee.
ReadForClose(c, p, price) ==
    /\ tx[c] = NoTx
    /\ row[p].status = "open"
    /\ Exclusive(p)
    /\ tx' = [tx EXCEPT ![c] = [op |-> "close", pid |-> p, qty |-> row[p].qty, pnl |-> row[p].pnl,
                                sold |-> row[p].qty, price |-> price, fee |-> 0]]
    /\ UNCHANGED <<row, sums>>

\* The sums of a position with the sell fill of session t added, and a faulty
\* variant that stores the sale as a negative quantity.
AddFillSigned(s, t) ==
    [bought |-> s.bought, rate |-> s.rate, sold |-> s.sold - t.sold,
     proceeds |-> s.proceeds + t.price * t.sold, sellFee |-> s.sellFee + t.fee]

AddFill(s, t) ==
    [bought |-> s.bought, rate |-> s.rate, sold |-> s.sold + t.sold,
     proceeds |-> s.proceeds + t.price * t.sold, sellFee |-> s.sellFee + t.fee]

\* The row r as it is written: its status and qty, and the PnL accrued.
Written(r, status, qty, pnl) ==
    [status |-> status, key |-> r.key, qty |-> qty, avg |-> r.avg, pnl |-> pnl]

Commit(c, status, qty, gain) ==
    LET t == tx[c]
        p == t.pid
    IN  /\ sums' = [sums EXCEPT ![p] = AddFill(sums[p], t)]
        /\ row' = [row EXCEPT ![p] = Written(row[p], status, qty, t.pnl + gain)]
        /\ tx' = [tx EXCEPT ![c] = NoTx]

\* record_sell, the write: a residual the venue cannot trade is dropped with
\* the row, a larger one stays open.  The PnL accrues.
CommitSell(c) ==
    LET t == tx[c]
        residual == t.qty - t.sold
        gain == RealizedGain(t.pid, t.price, t.sold, t.fee)
    IN  /\ t.op = "sell"
        /\ \/ residual < MinSellable /\ Commit(c, "closed", t.sold, gain)
           \/ residual >= MinSellable /\ Commit(c, "open", residual, gain)

\* close_position, the write.
CommitClose(c) ==
    LET t == tx[c]
    IN  /\ t.op = "close"
        /\ Commit(c, "closed", t.qty, RealizedGain(t.pid, t.price, t.sold, 0))

\* The commit fails (database locked) or the process dies: nothing is written.
Rollback(c) ==
    /\ tx[c] # NoTx
    /\ tx' = [tx EXCEPT ![c] = NoTx]
    /\ UNCHANGED <<row, sums>>

Next ==
    \/ \E p \in RowId, k \in Key, price \in Price, q \in Quantity, rate \in FeeRate :
          OpenPosition(p, k, price, q, rate)
    \/ \E c \in Caller, p \in RowId, q \in Quantity, price \in Price, fee \in Fee :
          ReadForSell(c, p, q, price, fee)
    \/ \E c \in Caller, p \in RowId, price \in Price : ReadForClose(c, p, price)
    \/ \E c \in Caller : CommitSell(c) \/ CommitClose(c) \/ Rollback(c)

Spec == Init /\ [][Next]_vars

-----------------------------------------------------------------------------
Row == [status : {"none", "open", "closed"}, key : Key \cup {NoKey}, qty : Nat, avg : Nat,
        pnl : Int]
Sums == [bought : Nat, rate : Nat, sold : Nat, proceeds : Nat, sellFee : Nat]
Tx == [op : {"none", "sell", "close"}, pid : RowId \cup {NoPid}, qty : Nat, pnl : Int, sold : Nat,
       price : Nat, fee : Nat]

\* The type of the tables and of the sessions.
TypeOK ==
    /\ row \in [RowId -> Row]
    /\ sums \in [RowId -> Sums]
    /\ tx \in [Caller -> Tx]
    /\ \A c \in Caller : tx[c].op # "none" => tx[c].pid \in RowId

\* No share appears or disappears: what was bought is what the sell fills of
\* the row sold and what the open row still holds; a closed row has sold all
\* of it but a residue the venue cannot trade (record_sell).
SharesConserved ==
    \A p \in RowId :
        /\ row[p].status = "open" => sums[p].bought = sums[p].sold + row[p].qty
        /\ row[p].status = "closed" =>
               /\ sums[p].sold <= sums[p].bought
               /\ sums[p].bought < sums[p].sold + MinSellable

\* realized_pnl is what the fills say: the proceeds less the cost, the sell
\* fees and the buy fee of the shares sold, whatever the legs.
PnlMatchesFills ==
    \A p \in RowId :
        row[p].pnl = ((sums[p].proceeds - row[p].avg * sums[p].sold) - sums[p].sellFee)
                         - sums[p].rate * sums[p].sold

\* realized_pnl is set once, at the close (db/tables.py, PositionRow): an open
\* row has none yet.
PnlSetAtClose == \A p \in RowId : row[p].status = "open" => row[p].pnl = 0

\* A row that is closed takes no more fills.
NoFillAfterClose ==
    [][\A p \in RowId : row[p].status = "closed" => row'[p] = row[p] /\ sums'[p] = sums[p]]_vars
=============================================================================
