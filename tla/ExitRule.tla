------------------------------ MODULE ExitRule ------------------------------
(***************************************************************************)
(* The exit sections (sections/exit/threshold_v0.py and threshold_v1.py)   *)
(* and the marking of a book they rest on, as operators on one mark of a   *)
(* position.                                                               *)
(*                                                                         *)
(* Prices are whole ticks and percentages whole percents.  To compare      *)
(* exactly, a price times a percentage stays in hundredths of a tick: the  *)
(* names ending in 100 are in that unit.  The floats of the code are exact *)
(* here.                                                                   *)
(***************************************************************************)
EXTENDS Integers, Sequences

CONSTANTS
    V1,          \* TRUE: threshold_v1; FALSE: threshold_v0
    StopPct,     \* stop_loss_pct
    HardPct,     \* hard_stop_loss_pct
    TakeOn,      \* take_profit_enabled
    TakePct,     \* take_profit_pct
    PeakPct,     \* peak_drawdown_pct
    ArmPct,      \* peak_meaningful_floor_pct
    ArmCents,    \* peak_meaningful_floor_usd, in ticks times shares
    MinTrail,    \* min_trail_ticks
    SweepPct,    \* THIN_STOP_SWEEP_MARGIN
    Confirm,     \* THIN_NO_ASK_CONFIRM_TICKS
    MinSize,     \* MIN_LEVEL_SIZE, in shares
    MarkLevels,  \* MARK_MAX_LEVELS
    MarkGap      \* MARK_MAX_GAP, in ticks

Percent == 0 .. 100

ASSUME ConfigAssumption ==
    /\ V1 \in BOOLEAN /\ TakeOn \in BOOLEAN
    /\ {StopPct, HardPct, PeakPct, ArmPct, SweepPct} \subseteq Percent
    /\ {TakePct, ArmCents, MinTrail, MinSize, MarkGap} \subseteq Nat
    /\ {Confirm, MarkLevels} \subseteq Nat \ {0}

NoPrice == 0

Max2(a, b) == IF a >= b THEN a ELSE b
Min2(a, b) == IF a <= b THEN a ELSE b

-----------------------------------------------------------------------------
(* Marking a book.  Levels are [price, size], best first.                  *)

First(levels, S) == IF S = {} THEN NoPrice
                    ELSE levels[CHOOSE i \in S : \A j \in S : i <= j].price

\* _guarded_mark: the first level with real size, near the best bid.
GuardedMark(bids) ==
    First(bids, {i \in 1 .. Min2(Len(bids), MarkLevels) :
                     /\ bids[i].size >= MinSize
                     /\ \A j \in 1 .. i : bids[1].price - bids[j].price <= MarkGap})

\* first_level_with_size
FirstDeep(levels) == First(levels, {i \in 1 .. Len(levels) : levels[i].size >= MinSize})

-----------------------------------------------------------------------------
(* The rules.  A MarkedPosition is [entry, qty, mark, peak, ask, aged],    *)
(* with streak on a thin mark; ask is NoPrice when unknown.                *)

\* The price has lost pct percent of the entry, twice the price being given.
Lost(twice, entry, pct) == 100 * (twice - 2 * entry) <= -(2 * pct * entry)

\* Twice the price the stop compares: v1's mid, unless the book is crossed.
StopMark2(p) == IF V1 /\ p.ask # NoPrice /\ p.ask >= p.mark THEN p.mark + p.ask
                                                           ELSE 2 * p.mark

\* Variant: the mid alone decides.
StoppedMidOnly(p) == Lost(StopMark2(p), p.entry, StopPct)

\* Variant: the bid alone decides, as in v0.
StoppedOnBid(p) == Lost(2 * p.mark, p.entry, StopPct)

Stopped(p) ==
    \/ Lost(StopMark2(p), p.entry, StopPct)
    \/ V1 /\ Lost(2 * p.mark, p.entry, HardPct)

Takes(p) == TakeOn /\ 100 * (p.mark - p.entry) >= TakePct * p.entry

Spread(p) == IF p.ask = NoPrice THEN 0 ELSE Max2(p.ask - p.mark, 0)
PctTrail100(p) == PeakPct * (p.peak - p.entry)

\* Variant: v0's uncapped floor.
SpreadFloorUncapped100(p) == 100 * Spread(p)

SpreadFloor100(p) ==
    IF V1 THEN Min2(100 * Spread(p), Max2(PctTrail100(p), 0) + 200) ELSE 100 * Spread(p)

TrailDistance100(p) == Max2(100 * MinTrail, Max2(SpreadFloor100(p), PctTrail100(p)))

\* The gain at the peak is worth protecting.
PeakMeaningful(p) ==
    /\ p.peak > p.entry
    /\ (p.peak - p.entry) * p.qty >= ArmCents
    /\ 100 * (p.peak - p.entry) >= ArmPct * p.entry

Trails(p) == PeakMeaningful(p) /\ 100 * (p.peak - p.mark) >= TrailDistance100(p)

\* run on a mark with real size, in order of precedence; max_hold is v1's.
Rule(p) ==
    CASE Stopped(p) -> "stop_loss"
      [] Takes(p) /\ ~Stopped(p) -> "take_profit"
      [] Trails(p) /\ ~Takes(p) /\ ~Stopped(p) -> "peak_drawdown"
      [] V1 /\ p.aged /\ ~Trails(p) /\ ~Takes(p) /\ ~Stopped(p) -> "max_hold"
      [] OTHER -> "hold"

\* A thin bid is believed if the ask has collapsed too or, with no ask, if
\* this is the Confirm-th fetch in a row.
BidCollapsed(p) == Lost(2 * p.mark, p.entry, HardPct)

ThinRule(p) ==
    CASE ~BidCollapsed(p) -> "hold"
      [] BidCollapsed(p) /\ p.ask # NoPrice ->
             IF Lost(2 * p.ask, p.entry, HardPct) THEN "stop_loss" ELSE "hold"
      [] OTHER -> IF p.streak + 1 < Confirm THEN "pending" ELSE "stop_loss"

\* How deep a confirmed thin stop may sweep; never below one tick.
ThinFloor100(entry) == Max2(100, entry * (100 - HardPct - SweepPct))

Closes == {"stop_loss", "take_profit", "peak_drawdown", "max_hold"}
=============================================================================
