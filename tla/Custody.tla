------------------------------- MODULE Custody -------------------------------
(***************************************************************************)
(* What the ledger of positions promises about the wallet, with every      *)
(* trade one indivisible step: a row is opened together with the tokens it *)
(* stands for, a sale takes tokens out of the wallet and writes the row at *)
(* once and only while the row is open, and a resolved market closes a row *)
(* whose tokens stay where they are.  There is no other way for a row to   *)
(* end or for a token to leave: nothing is reconciled, nothing is lost.    *)
(***************************************************************************)
EXTENDS Naturals

CONSTANTS
    Pid,         \* position rows
    Token,       \* outcome tokens
    NoToken,
    Quantity,    \* the quantities one trade may move
    MinSellable  \* the venue's precision

VARIABLES status, tok, qty, reason, holdings

vars == <<status, tok, qty, reason, holdings>>

Init ==
    /\ status = [p \in Pid |-> "none"]
    /\ tok = [p \in Pid |-> NoToken]
    /\ qty = [p \in Pid |-> 0]
    /\ reason = [p \in Pid |-> "none"]
    /\ holdings = [t \in Token |-> 0]

\* One open row per token.
Open(p, t, q) ==
    /\ status[p] = "none"
    /\ \A r \in Pid : status[r] = "open" => tok[r] # t
    /\ status' = [status EXCEPT ![p] = "open"]
    /\ tok' = [tok EXCEPT ![p] = t]
    /\ qty' = [qty EXCEPT ![p] = q]
    /\ holdings' = [holdings EXCEPT ![t] = @ + q]
    /\ UNCHANGED reason

\* A sale that leaves an open row with what is still its own.
SellPart(p, q) ==
    /\ status[p] = "open"
    /\ q <= holdings[tok[p]]
    /\ qty[p] - q >= MinSellable
    /\ qty' = [qty EXCEPT ![p] = @ - q]
    /\ holdings' = [holdings EXCEPT ![tok[p]] = @ - q]
    /\ UNCHANGED <<status, tok, reason>>

\* A sale that leaves less than the venue can trade: the row closes with the
\* last quantity sold of its own.
SellOut(p, q, why) ==
    /\ status[p] = "open"
    /\ q <= holdings[tok[p]]
    /\ q + MinSellable > qty[p]
    /\ status' = [status EXCEPT ![p] = "closed"]
    /\ qty' = [qty EXCEPT ![p] = IF q <= @ THEN q ELSE @]
    /\ reason' = [reason EXCEPT ![p] = why]
    /\ holdings' = [holdings EXCEPT ![tok[p]] = @ - q]
    /\ UNCHANGED tok

\* The rows S are settled at the resolution price.
Settle(S) ==
    /\ \A p \in S : status[p] = "open"
    /\ status' = [p \in Pid |-> IF p \in S THEN "closed" ELSE status[p]]
    /\ reason' = [p \in Pid |-> IF p \in S THEN "settlement" ELSE reason[p]]
    /\ UNCHANGED <<tok, qty, holdings>>

Next ==
    \/ \E p \in Pid, t \in Token, q \in Quantity : Open(p, t, q)
    \/ \E p \in Pid, q \in Quantity : SellPart(p, q)
    \/ \E p \in Pid, q \in Quantity, why \in {"exit", "manual"} : SellOut(p, q, why)
    \/ \E S \in SUBSET Pid : Settle(S)

Spec == Init /\ [][Next]_vars
=============================================================================
