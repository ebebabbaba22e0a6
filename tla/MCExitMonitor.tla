---------------------------- MODULE MCExitMonitor ---------------------------
(***************************************************************************)
(* ExitMonitor on the few books that make its branches differ, for an      *)
(* entry at 20 ticks and the default thresholds of threshold_v1.           *)
(***************************************************************************)
EXTENDS ExitMonitor

Lv(p, s) == [price |-> p, size |-> s]

Empty     == [bids |-> <<>>, asks |-> <<Lv(21, 9)>>]
Quiet     == [bids |-> <<Lv(19, 9)>>, asks |-> <<Lv(20, 9)>>]
Winner    == [bids |-> <<Lv(28, 1), Lv(27, 9)>>, asks |-> <<Lv(28, 9)>>]
Retrace   == [bids |-> <<Lv(24, 9)>>, asks |-> <<Lv(25, 9)>>]
Loser     == [bids |-> <<Lv(13, 9)>>, asks |-> <<Lv(14, 9)>>]
Bare      == [bids |-> <<Lv(9, 1)>>, asks |-> <<>>]
Pulled    == [bids |-> <<Lv(30, 1), Lv(9, 9)>>, asks |-> <<Lv(31, 9)>>]
Confirmed == [bids |-> <<Lv(9, 1)>>, asks |-> <<Lv(10, 9)>>]

AllBooks == {Empty, Quiet, Winner, Retrace, Loser, Bare, Pulled, Confirmed}

\* Three shares that run up and back, sold in parts; two that collapse on books
\* which stop, empty or vanish, with manual closes.
Runup    == [books |-> {Quiet, Winner, Retrace, Pulled}, qty |-> 3, manual |-> FALSE]
Collapse == [books |-> {Bare, Empty, Confirmed}, qty |-> 2, manual |-> TRUE]

VARIABLE setting  \* which of them it is

CaseInit == setting \in {Runup, Collapse} /\ Init /\ row.qty = setting.qty

CaseNext ==
    /\ Next
    /\ UNCHANGED setting
    /\ cache'.book \in setting.books \cup {NoBook}
    /\ claim' = "manual" => setting.manual

CaseSpec == CaseInit /\ [][CaseNext]_<<vars, setting>>
=============================================================================
