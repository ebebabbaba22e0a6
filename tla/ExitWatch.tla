------------------------------ MODULE ExitWatch -----------------------------
(***************************************************************************)
(* One position under the exit section, marked at every quote: what the    *)
(* rules of ExitRule promise for any sequence of quotes, before caches,    *)
(* refreshes and failing sells (ExitMonitor) come into it.                 *)
(***************************************************************************)
EXTENDS ExitRule

CONSTANTS
    Entry,      \* avg_entry_price: the level-1 ask the entry paid
    Shares,     \* qty
    Price,      \* the prices a quote may show
    GatePct     \* max_spread_pct of the entry section

ASSUME EntryAssumption ==
    /\ Entry \in Nat \ {0} /\ Shares \in Nat \ {0}
    /\ Price \subseteq Nat \ {0}
    /\ GatePct \in Percent

VARIABLES
    pos,     \* the last MarkedPosition
    thin,    \* it was marked on a bid without size
    run,     \* thin quotes in a row, up to it, that showed a collapse with no ask
    closed   \* the trigger that closed the position, or "hold"

vars == <<pos, thin, run, closed>>

Ask == Price \cup {NoPrice}

Init ==
    /\ pos \in [entry: {Entry}, qty: {Shares}, mark: Price, peak: Price, ask: {Entry},
                streak: {0}, aged: {FALSE}]
    /\ pos.peak = pos.mark
    /\ pos.mark <= Entry
    /\ 100 * (Entry - pos.mark) <= GatePct * Entry
    /\ thin = FALSE
    /\ run = 0
    /\ closed = "hold"

Peak(m) == Max2(pos.peak, m)

\* A quote with a bid of real size: it moves the peak and is judged by Rule.
Quote(m, a, old) ==
    LET p == [pos EXCEPT !.mark = m, !.ask = a, !.streak = 0,
                         !.peak = Peak(m), !.aged = pos.aged \/ old]
    IN  /\ closed = "hold"
        /\ pos' = p
        /\ thin' = FALSE
        /\ run' = 0
        /\ closed' = Rule(p)

ThinPeak(m) == pos.peak

\* A quote without one: only the hard stop, and v1 only.
ThinQuote(m, a) ==
    LET p == [pos EXCEPT !.mark = m, !.ask = a, !.peak = ThinPeak(m)]
        verdict == ThinRule(p)
    IN  /\ V1
        /\ closed = "hold"
        /\ pos' = [p EXCEPT !.streak = IF verdict = "pending" THEN pos.streak + 1 ELSE 0]
        /\ thin' = TRUE
        /\ run' = IF BidCollapsed(p) /\ a = NoPrice THEN run + 1 ELSE 0
        /\ closed' = IF verdict = "stop_loss" THEN verdict ELSE "hold"

Next == \E m \in Price, a \in Ask :
            ThinQuote(m, a) \/ \E old \in BOOLEAN : Quote(m, a, old)

Spec == Init /\ [][Next]_vars

-----------------------------------------------------------------------------
(* Properties.                                                             *)

\* The types, and the peak never below an executable mark.
TypeOK ==
    /\ pos \in [entry: {Entry}, qty: {Shares}, mark: Nat \ {0}, peak: Nat, ask: Nat,
                streak: 0 .. Confirm, aged: BOOLEAN]
    /\ ~thin => pos.peak >= pos.mark
    /\ thin \in BOOLEAN
    /\ run \in Nat
    /\ closed \in Closes \cup {"hold"}

\* The spread alone stops nobody out: while the ask stands where the entry
\* bought and the spread passes the entry's gate, no stop fires
\* (threshold_v1.py, the reason for its mid).
SpreadNeverStops ==
    pos.ask = Entry /\ 100 * (Entry - pos.mark) <= GatePct * Entry /\ ~thin
        => closed # "stop_loss"

\* The backstop: a position that is held has an executable bid above the hard
\* stop, whatever its ask says (threshold_v1.py, hard_stop_loss_pct).
BackstopHolds ==
    closed = "hold" /\ ~thin => ~Lost(2 * pos.mark, Entry, HardPct)

\* The lock: no spread, however wide, lets a held winner give back more than
\* the percentage trail and two ticks (or the floor in ticks).
LockHolds ==
    closed = "hold" /\ ~thin /\ PeakMeaningful(pos) =>
        100 * (pos.peak - pos.mark) < Max2(100 * MinTrail, PctTrail100(pos) + 200)

\* A retrace of less than MinTrail ticks is noise and closes nothing.
NoiseNeverTrails ==
    closed = "peak_drawdown" => pos.peak - pos.mark >= MinTrail

\* A bid without size closes a position only if the ask collapsed with it, or
\* if there was no ask on Confirm fetches in a row.
ThinStopIsConfirmed ==
    thin /\ closed # "hold" =>
        /\ BidCollapsed(pos)
        /\ \/ pos.ask # NoPrice /\ Lost(2 * pos.ask, Entry, HardPct)
           \/ pos.ask = NoPrice /\ run >= Confirm

=============================================================================
