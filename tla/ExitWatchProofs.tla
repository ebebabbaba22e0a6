--------------------------- MODULE ExitWatchProofs --------------------------
(***************************************************************************)
(* Proofs about ExitWatch, for every threshold, entry and sequence of      *)
(* quotes.  Each promise is about the last quote, so it follows from how   *)
(* that quote was judged; only the streak needs an invariant of its own.   *)
(***************************************************************************)
EXTENDS ExitWatch, TLAPS

(***************************************************************************)
(* What a verdict of Rule says of the quote.                               *)
(***************************************************************************)

\* A rule that holds found no stop due and no trail.
LEMMA HoldMeans ==
    ASSUME NEW p, Rule(p) = "hold"
    PROVE  ~Stopped(p) /\ ~Trails(p)
  BY Zenon DEF Rule

\* A trailing close found the trail reached.
LEMMA TrailMeans ==
    ASSUME NEW p, Rule(p) = "peak_drawdown"
    PROVE  Trails(p)
  BY Zenon DEF Rule

\* A stop found the stop due.
LEMMA StopMeans ==
    ASSUME NEW p, Rule(p) = "stop_loss"
    PROVE  Stopped(p)
  BY Zenon DEF Rule

\* Every verdict is a trigger or a hold.
LEMMA RuleRange ==
    ASSUME NEW p
    PROVE  Rule(p) \in Closes \cup {"hold"}
  BY Zenon DEF Rule, Closes

-----------------------------------------------------------------------------
(***************************************************************************)
(* Types.                                                                  *)
(***************************************************************************)

Position == [entry: {Entry}, qty: {Shares}, mark: Nat \ {0}, peak: Nat, ask: Nat,
             streak: 0 .. Confirm, aged: BOOLEAN]

\* A marked quote leaves a well typed position.
LEMMA QuoteTypes ==
    ASSUME TypeOK, NEW m \in Price, NEW a \in Ask, NEW old \in BOOLEAN, Quote(m, a, old)
    PROVE  TypeOK'
  <1>1. m \in Nat \ {0} /\ a \in Nat
    BY EntryAssumption DEF Ask, NoPrice
  <1>2. Peak(m) \in Nat /\ Peak(m) >= m
    BY <1>1 DEF TypeOK, Peak, Max2
  <1>4. 0 \in 0 .. Confirm
    BY ConfigAssumption
  <1>5. pos' = [pos EXCEPT !.mark = m, !.ask = a, !.streak = 0, !.peak = Peak(m),
                           !.aged = pos.aged \/ old]
    BY Zenon DEF Quote
  <1>6. (pos.aged \/ old) \in BOOLEAN
    BY Zenon
  <1>7. pos' \in Position
    BY <1>1, <1>2, <1>4, <1>5, <1>6 DEF TypeOK, Position
  <1>8. pos'.peak >= pos'.mark
    BY <1>2, <1>5 DEF TypeOK
  <1>9. closed' \in Closes \cup {"hold"}
    BY RuleRange, Zenon DEF Quote
  <1>10. thin' = FALSE /\ run' = 0
    BY DEF Quote
  <1> QED
    BY <1>7, <1>8, <1>9, <1>10 DEF TypeOK, Position

\* A thin quote reads the streak up to its end, never beyond.
LEMMA ThinQuoteTypes ==
    ASSUME TypeOK, NEW m \in Price, NEW a \in Ask, ThinQuote(m, a)
    PROVE  TypeOK'
  <1> DEFINE p == [pos EXCEPT !.mark = m, !.ask = a, !.peak = ThinPeak(m)]
             next == IF ThinRule(p) = "pending" THEN pos.streak + 1 ELSE 0
  <1>1. m \in Nat \ {0} /\ a \in Nat
    BY EntryAssumption DEF Ask, NoPrice
  <1>2. p.streak = pos.streak
    BY DEF TypeOK
  <1>3. ThinRule(p) = "pending" => p.streak + 1 < Confirm
    BY DEF ThinRule
  <1>4. next \in 0 .. Confirm
    BY <1>2, <1>3, ConfigAssumption DEF TypeOK
  <1>5. pos' = [p EXCEPT !.streak = next]
    BY Zenon DEF ThinQuote
  <1>6. pos' \in Position
    <2>1. p \in Position
      BY <1>1 DEF TypeOK, ThinPeak, Position
    <2> HIDE DEF p, next
    <2> QED
      BY <1>4, <1>5, <2>1 DEF Position
  <1>7. closed' \in Closes \cup {"hold"}
    BY Zenon DEF ThinQuote, Closes
  <1>8. thin' = TRUE /\ run' \in Nat
    BY DEF ThinQuote, TypeOK
  <1> QED
    BY <1>6, <1>7, <1>8 DEF TypeOK, Position

\* The variables keep their types, and the peak is never below an executable
\* mark.
THEOREM TypeCorrect == Spec => []TypeOK
  <1>1. Init => TypeOK
    <2> SUFFICES ASSUME Init
                 PROVE  TypeOK
      OBVIOUS
    <2>1. Price \subseteq Nat \ {0} /\ Entry \in Nat /\ 0 \in 0 .. Confirm /\ FALSE \in BOOLEAN
      BY EntryAssumption, ConfigAssumption
    <2>2. pos \in Position
      BY <2>1 DEF Init, Position
    <2>3. pos.peak >= pos.mark
      BY <2>1, <2>2 DEF Init, Position
    <2> QED
      BY <2>2, <2>3 DEF Init, TypeOK, Position, Closes
  <1>2. TypeOK /\ [Next]_vars => TypeOK'
    <2> SUFFICES ASSUME TypeOK, [Next]_vars
                 PROVE  TypeOK'
      OBVIOUS
    <2>1. CASE UNCHANGED vars
      BY <2>1 DEF TypeOK, vars
    <2>2. ASSUME NEW m \in Price, NEW a \in Ask, ThinQuote(m, a)
          PROVE  TypeOK'
      BY <2>2, ThinQuoteTypes
    <2>3. ASSUME NEW m \in Price, NEW a \in Ask, NEW old \in BOOLEAN, Quote(m, a, old)
          PROVE  TypeOK'
      BY <2>3, QuoteTypes
    <2> QED
      BY <2>1, <2>2, <2>3 DEF Next
  <1> QED
    BY <1>1, <1>2, PTL DEF Spec
-----------------------------------------------------------------------------
(***************************************************************************)
(* The promises about the last quote.  An executable one is the entry's    *)
(* own, which passed the gate, or has been judged by Rule.                 *)
(***************************************************************************)

\* The spread the entry's gate lets pass (max_spread_pct) is smaller than what
\* either stop allows, the mid having lost half of it; by default 10, under 30
\* and 2 * 15.
GateBelowStops == GatePct < HardPct /\ GatePct < 2 * StopPct

\* What closed says of the quote it judged: the entry quote is not judged.
Judged ==
    \/ closed = "hold" /\ pos.peak = pos.mark /\ pos.ask = Entry
       /\ 100 * (Entry - pos.mark) <= GatePct * Entry
    \/ closed = Rule(pos)

\* An executable quote is the entry's or has been judged.
ExecutableJudged == ~thin => Judged

LEMMA ExecutableIsJudged == Spec => []ExecutableJudged
  <1>1. Init => ExecutableJudged
    BY EntryAssumption DEF Init, ExecutableJudged, Judged
  <1>2. ExecutableJudged /\ [Next]_vars => ExecutableJudged'
    <2> SUFFICES ASSUME ExecutableJudged, [Next]_vars
                 PROVE  ExecutableJudged'
      OBVIOUS
    <2>1. CASE UNCHANGED vars
      <3>1. pos' = pos /\ thin' = thin /\ closed' = closed
        BY <2>1 DEF vars
      <3> QED
        BY <3>1, Zenon DEF ExecutableJudged, Judged
    <2>2. ASSUME NEW m \in Price, NEW a \in Ask, ThinQuote(m, a)
          PROVE  ExecutableJudged'
      BY <2>2 DEF ThinQuote, ExecutableJudged
    <2>3. ASSUME NEW m \in Price, NEW a \in Ask, NEW old \in BOOLEAN, Quote(m, a, old)
          PROVE  ExecutableJudged'
      BY <2>3, Zenon DEF Quote, ExecutableJudged, Judged
    <2> QED
      BY <2>1, <2>2, <2>3 DEF Next
  <1> QED
    BY <1>1, <1>2, PTL DEF Spec

\* The backstop, on the entry quote by the gate, on every other by Rule.
THEOREM BackstopAlwaysHolds ==
    ASSUME GateBelowStops, V1 = TRUE
    PROVE  Spec => []BackstopHolds
  <1>1. TypeOK /\ ExecutableJudged => BackstopHolds
    <2> SUFFICES ASSUME TypeOK, ExecutableJudged, closed = "hold", ~thin
                 PROVE  ~Lost(2 * pos.mark, Entry, HardPct)
      BY DEF BackstopHolds
    <2>1. pos.mark \in Nat /\ Entry \in Nat \ {0} /\ HardPct \in Nat /\ GatePct \in Nat
      BY EntryAssumption, ConfigAssumption DEF TypeOK, Percent
    <2>2. CASE 100 * (Entry - pos.mark) <= GatePct * Entry
      <3>1. GatePct * Entry < HardPct * Entry
        BY <2>1 DEF GateBelowStops
      <3>2. GatePct * Entry \in Int /\ HardPct * Entry \in Int
        BY <2>1
      <3>3. 2 * HardPct * Entry = 2 * (HardPct * Entry)
        BY <2>1
      <3> QED
        BY <2>1, <2>2, <3>1, <3>2, <3>3 DEF Lost
    <2>3. CASE closed = Rule(pos)
      <3>1. ~Stopped(pos)
        BY <2>3, HoldMeans
      <3> QED
        BY <3>1 DEF Stopped, TypeOK
    <2> QED
      BY <2>2, <2>3 DEF ExecutableJudged, Judged
  <1> QED
    BY <1>1, TypeCorrect, ExecutableIsJudged, PTL

\* The lock: the spread floor is capped, so a hold bounds the retrace.
THEOREM LockAlwaysHolds ==
    ASSUME V1 = TRUE
    PROVE  Spec => []LockHolds
  <1>1. TypeOK /\ ExecutableJudged => LockHolds
    <2> SUFFICES ASSUME TypeOK, ExecutableJudged, closed = "hold", ~thin, PeakMeaningful(pos)
                 PROVE  100 * (pos.peak - pos.mark) < Max2(100 * MinTrail, PctTrail100(pos) + 200)
      BY DEF LockHolds
    <2>1. pos.mark \in Nat /\ pos.peak \in Nat /\ pos.entry \in Nat /\ MinTrail \in Nat
          /\ PeakPct \in Nat /\ pos.ask \in Nat /\ pos.peak > pos.entry
      BY EntryAssumption, ConfigAssumption DEF TypeOK, Percent, PeakMeaningful
    <2>2. PctTrail100(pos) \in Nat
      BY <2>1 DEF PctTrail100
    <2>3. Spread(pos) \in Nat
      BY <2>1 DEF Spread, Max2
    <2>4. CASE pos.peak = pos.mark
      BY <2>1, <2>2, <2>4 DEF Max2
    <2>5. CASE closed = Rule(pos)
      <3>1. ~Trails(pos)
        BY <2>5, HoldMeans
      <3>2. ~(100 * (pos.peak - pos.mark) >= TrailDistance100(pos))
        BY <3>1 DEF Trails
      <3>3. SpreadFloor100(pos) <= PctTrail100(pos) + 200 /\ SpreadFloor100(pos) \in Nat
        BY <2>2, <2>3 DEF SpreadFloor100, Min2, Max2
      <3>4. TrailDistance100(pos) <= Max2(100 * MinTrail, PctTrail100(pos) + 200)
            /\ TrailDistance100(pos) \in Nat
        BY <2>1, <2>2, <3>3 DEF TrailDistance100, Max2
      <3>5. Max2(100 * MinTrail, PctTrail100(pos) + 200) \in Nat
        BY <2>1, <2>2 DEF Max2
      <3> QED
        BY <2>1, <3>2, <3>4, <3>5
    <2> QED
      BY <2>4, <2>5 DEF ExecutableJudged, Judged
  <1> QED
    BY <1>1, TypeCorrect, ExecutableIsJudged, PTL

\* A trail closes only where the retrace reached its distance, which the
\* floor in ticks bounds from below.
THEOREM NoiseNeverCloses == Spec => []NoiseNeverTrails
  <1>1. TypeOK /\ (~thin => Judged) /\ (thin => closed # "peak_drawdown") => NoiseNeverTrails
    <2> SUFFICES ASSUME TypeOK, ~thin => Judged, thin => closed # "peak_drawdown",
                        closed = "peak_drawdown"
                 PROVE  pos.peak - pos.mark >= MinTrail
      BY DEF NoiseNeverTrails
    <2>1. closed = Rule(pos)
      BY DEF Judged
    <2>2. 100 * (pos.peak - pos.mark) >= TrailDistance100(pos) /\ pos.peak > pos.entry
      BY <2>1, TrailMeans DEF Trails, PeakMeaningful
    <2>3. pos.mark \in Nat /\ pos.peak \in Nat /\ pos.entry \in Nat /\ pos.ask \in Nat
          /\ MinTrail \in Nat /\ PeakPct \in Nat
      BY EntryAssumption, ConfigAssumption DEF TypeOK, Percent
    <2>4. PctTrail100(pos) \in Nat
      BY <2>2, <2>3 DEF PctTrail100
    <2>5. SpreadFloor100(pos) \in Int
      BY <2>3, <2>4 DEF SpreadFloor100, Spread, Min2, Max2
    <2>6. TrailDistance100(pos) >= 100 * MinTrail /\ TrailDistance100(pos) \in Int
      BY <2>3, <2>4, <2>5 DEF TrailDistance100, Max2
    <2> QED
      BY <2>2, <2>3, <2>6
  <1>2. Init => (thin => closed # "peak_drawdown")
    BY DEF Init
  <1>3. (thin => closed # "peak_drawdown") /\ [Next]_vars => (thin => closed # "peak_drawdown")'
    BY DEF Next, Quote, ThinQuote, vars
  <1> QED
    BY <1>1, <1>2, <1>3, TypeCorrect, ExecutableIsJudged, PTL DEF Spec, ExecutableJudged

\* The spread alone stops nobody: the mid is no lower than half the gate
\* below the entry, the bid no lower than the gate.
THEOREM SpreadNeverStopsOut ==
    ASSUME GateBelowStops, V1 = TRUE
    PROVE  Spec => []SpreadNeverStops
  <1>1. TypeOK /\ ExecutableJudged => SpreadNeverStops
    <2> SUFFICES ASSUME TypeOK, ExecutableJudged, pos.ask = Entry, ~thin, closed = "stop_loss",
                        100 * (Entry - pos.mark) <= GatePct * Entry
                 PROVE  FALSE
      BY DEF SpreadNeverStops
    <2>1. pos.mark \in Nat /\ pos.entry = Entry /\ Entry \in Nat \ {0}
          /\ HardPct \in Nat /\ StopPct \in Nat /\ GatePct \in Nat
      BY EntryAssumption, ConfigAssumption DEF TypeOK, Percent
    <2>2. Stopped(pos)
      BY StopMeans DEF ExecutableJudged, Judged
    <2>3. GatePct * Entry < HardPct * Entry /\ GatePct * Entry < 2 * StopPct * Entry
      BY <2>1 DEF GateBelowStops
    <2>4. GatePct * Entry \in Int /\ HardPct * Entry \in Int /\ StopPct * Entry \in Nat
          /\ 2 * HardPct * Entry = 2 * (HardPct * Entry) /\ 2 * StopPct * Entry = 2 * (StopPct * Entry)
      BY <2>1
    <2>5. ~Lost(2 * pos.mark, Entry, HardPct)
      BY <2>1, <2>3, <2>4 DEF Lost
    <2>6. ~Lost(StopMark2(pos), Entry, StopPct)
      <3>1. CASE Entry >= pos.mark
        <4>1. StopMark2(pos) = pos.mark + Entry
          BY <2>1, <3>1 DEF StopMark2, NoPrice
        <4> QED
          BY <4>1, <2>1, <2>3, <2>4 DEF Lost
      <3>2. CASE pos.mark > Entry
        <4>1. StopMark2(pos) = 2 * pos.mark
          BY <2>1, <3>2 DEF StopMark2
        <4> QED
          BY <4>1, <3>2, <2>1, <2>4 DEF Lost
      <3> QED
        BY <2>1, <3>1, <3>2
    <2> QED
      BY <2>1, <2>2, <2>5, <2>6 DEF Stopped
  <1> QED
    BY <1>1, TypeCorrect, ExecutableIsJudged, PTL

-----------------------------------------------------------------------------
(***************************************************************************)
(* The thin stop.  The streak never runs ahead of the quotes that showed   *)
(* the collapse: that is the strengthening.                                *)
(***************************************************************************)

StreakIsSeen == pos.streak <= run /\ ThinStopIsConfirmed

\* A bid without size is believed only after Confirm looks or with the ask.
THEOREM ThinStopAlwaysConfirmed == Spec => []ThinStopIsConfirmed
  <1>1. Init => StreakIsSeen
    BY DEF Init, StreakIsSeen, ThinStopIsConfirmed
  <1>2. TypeOK /\ StreakIsSeen /\ [Next]_vars => StreakIsSeen'
    <2> SUFFICES ASSUME TypeOK, StreakIsSeen, [Next]_vars
                 PROVE  StreakIsSeen'
      OBVIOUS
    <2>1. CASE UNCHANGED vars
      BY <2>1 DEF StreakIsSeen, ThinStopIsConfirmed, BidCollapsed, vars
    <2>2. ASSUME NEW m \in Price, NEW a \in Ask, NEW old \in BOOLEAN, Quote(m, a, old)
          PROVE  StreakIsSeen'
      <3>1. pos'.streak = 0 /\ run' = 0 /\ thin' = FALSE
        BY <2>2 DEF Quote, TypeOK
      <3> QED
        BY <3>1 DEF StreakIsSeen, ThinStopIsConfirmed
    <2>3. ASSUME NEW m \in Price, NEW a \in Ask, ThinQuote(m, a)
          PROVE  StreakIsSeen'
      <3> DEFINE p == [pos EXCEPT !.mark = m, !.ask = a, !.peak = ThinPeak(m)]
                 next == IF ThinRule(p) = "pending" THEN pos.streak + 1 ELSE 0
      <3>1. p.streak = pos.streak /\ p.mark = m /\ p.ask = a /\ p.entry = Entry
        BY DEF TypeOK
      <3>2. pos' = [p EXCEPT !.streak = next]
        BY <2>3, Zenon DEF ThinQuote
      <3>3. pos'.streak = next /\ pos'.mark = m /\ pos'.ask = a /\ pos'.entry = Entry
        BY <3>1, <3>2 DEF TypeOK
      <3>4. run' = (IF BidCollapsed(p) /\ a = NoPrice THEN run + 1 ELSE 0)
        BY <2>3, Zenon DEF ThinQuote
      <3>5. BidCollapsed(pos') <=> BidCollapsed(p)
        BY <3>1, <3>3 DEF BidCollapsed
      <3>6. ThinRule(p) = "pending" => BidCollapsed(p) /\ a = NoPrice
        BY <3>1 DEF ThinRule
      <3>7. pos'.streak <= run'
        BY <3>3, <3>4, <3>6 DEF StreakIsSeen, TypeOK
      <3>8. ThinRule(p) = "stop_loss" =>
              /\ BidCollapsed(p)
              /\ \/ a # NoPrice /\ Lost(2 * a, Entry, HardPct)
                 \/ a = NoPrice /\ pos.streak + 1 >= Confirm
        BY <3>1, ConfigAssumption DEF ThinRule, TypeOK
      <3>9. closed' # "hold" => ThinRule(p) = "stop_loss"
        BY <2>3, Zenon DEF ThinQuote
      <3>10. ThinStopIsConfirmed'
        BY <3>3, <3>4, <3>5, <3>8, <3>9, ConfigAssumption DEF ThinStopIsConfirmed, StreakIsSeen, TypeOK
      <3> QED
        BY <3>7, <3>10 DEF StreakIsSeen
    <2> QED
      BY <2>1, <2>2, <2>3 DEF Next
  <1>3. StreakIsSeen => ThinStopIsConfirmed
    BY DEF StreakIsSeen
  <1> QED
    BY <1>1, <1>2, <1>3, TypeCorrect, PTL DEF Spec
=============================================================================
