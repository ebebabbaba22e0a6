-------------------------- MODULE ExitMonitorProofs --------------------------
(***************************************************************************)
(* Proofs about ExitMonitor, for any books, thresholds, quantities and     *)
(* backoffs.                                                               *)
(*                                                                         *)
(* What an evaluation may do is stated once (EvaluationEffect), and each   *)
(* invariant looks at that:                                                *)
(*   - TInv, the types, with the mark and the decision typed for any book; *)
(*   - PeakInv: the cached mark and the saved one were seen too;           *)
(*   - StreakInv: how the streak follows the fetches, counted or not;      *)
(*   - LogInv: the position remembers what it logged last, except while a  *)
(*     sell is in flight, or once no sweep can reach the row again.        *)
(***************************************************************************)
EXTENDS ExitMonitor, WellFoundedInduction, TLAPS

-----------------------------------------------------------------------------
(* Marking a book.                                                         *)

LEMMA LeastNat ==
    ASSUME NEW T, T \subseteq Nat, T # {}
    PROVE  \E x \in T : \A y \in T : x <= y
<1> DEFINE R == OpToRel(<, Nat)
<1>1. IsWellFoundedOn(R, Nat)
  BY NatLessThanWellFounded
<1>2. \A a, b \in Nat : a < b => <<a, b>> \in R
  BY DEF OpToRel
<1> HIDE DEF R
<1>3. PICK x \in T : \A y \in T : ~(<<y, x>> \in R)
  BY <1>1, WFMin
<1>4. ASSUME NEW y \in T PROVE x <= y
  <2>1. x \in Nat /\ y \in Nat
    OBVIOUS
  <2>2. ~(y < x)
    BY <1>2, <1>3, <2>1
  <2>3. QED
    BY <2>1, <2>2
<1>5. QED
  BY <1>4

\* The first of some levels is one of them.
LEMMA FirstType ==
    ASSUME NEW levels \in Seq(Level), NEW S \in SUBSET (1 .. Len(levels))
    PROVE  First(levels, S) \in Nat
<1>1. CASE S = {}
  BY <1>1 DEF First, NoPrice
<1>2. CASE S # {}
  <2> DEFINE i == CHOOSE k \in S : \A j \in S : k <= j
  <2>0. S \subseteq Nat
    OBVIOUS
  <2>1. \E k \in S : \A j \in S : k <= j
    BY <1>2, <2>0, LeastNat
  <2>2. i \in S
    BY <2>1
  <2> HIDE DEF i
  <2>3. levels[i] \in Level
    BY <2>2
  <2>4. First(levels, S) = levels[i].price
    BY <1>2 DEF First, i
  <2>5. QED
    BY <2>3, <2>4 DEF Level
<1>3. QED
  BY <1>1, <1>2

LEMMA MarkTypes ==
    ASSUME NEW bids \in Seq(Level)
    PROVE  GuardedMark(bids) \in Nat /\ FirstDeep(bids) \in Nat
<1> DEFINE S == {i \in 1 .. Min2(Len(bids), MarkLevels) :
                    /\ bids[i].size >= MinSize
                    /\ \A j \in 1 .. i : bids[1].price - bids[j].price <= MarkGap}
           T == {i \in 1 .. Len(bids) : bids[i].size >= MinSize}
<1>1. Len(bids) \in Nat /\ MarkLevels \in Nat
  BY ConfigAssumption
<1>2. 1 .. Min2(Len(bids), MarkLevels) \subseteq 1 .. Len(bids)
  BY <1>1 DEF Min2
<1>3. S \in SUBSET (1 .. Len(bids)) /\ T \in SUBSET (1 .. Len(bids))
  BY <1>2
<1> HIDE DEF S, T
<1>4. First(bids, S) \in Nat /\ First(bids, T) \in Nat
  BY <1>3, FirstType
<1>5. QED
  BY <1>4, Zenon DEF S, T, GuardedMark, FirstDeep

LEMMA BookTypes ==
    ASSUME NEW b \in Books \cup {NoBook}
    PROVE  b.bids \in Seq(Level) /\ b.asks \in Seq(Level) /\ Mark(b) \in Nat
           /\ FirstDeep(b.asks) \in Nat
<1>1. b.bids \in Seq(Level) /\ b.asks \in Seq(Level)
  <2>1. CASE b \in Books
    BY <2>1, BooksAssumption
  <2>2. CASE b = NoBook
    BY <2>2 DEF NoBook
  <2>3. QED
    BY <2>1, <2>2
<1>2. QED
  BY <1>1, MarkTypes DEF Mark

LEMMA NoBookFacts == NoBook.bids = <<>> /\ Mark(NoBook) = NoPrice /\ ~CollapseNoAsk(NoBook)
<1>1. NoBook.bids = <<>> /\ Len(NoBook.bids) = 0
  BY DEF NoBook
<1>2. 1 .. Min2(Len(NoBook.bids), MarkLevels) = {}
  BY <1>1, ConfigAssumption DEF Min2
<1>3. GuardedMark(NoBook.bids) = NoPrice
  BY <1>2 DEF GuardedMark, First
<1>4. QED
  BY <1>1, <1>3 DEF Mark, CollapseNoAsk

-----------------------------------------------------------------------------
(* The decision.                                                           *)

State == [peak: Nat, hold: Held \cup {"none"}, err: Failures \cup {"none"},
          backoff: [trigger: Closes \cup {"none"}, delay: 0 .. MaxBackoff,
                    left: 0 .. MaxBackoff, floor: Nat],
          streak: 0 .. Confirm - 1, dust: BOOLEAN]

Cache == [book: Books \cup {NoBook}, age: {"none", "fresh", "stale", "old"},
          gone: BOOLEAN, counted: BOOLEAN]

Decision == [verdict: Verdicts, thin: BOOLEAN, peak: Nat, floor: Nat]

\* _run of either section, on a mark and on a thin one.
LEMMA RuleRange == ASSUME NEW p PROVE Rule(p) \in Closes \cup {"hold"}
BY Zenon DEF Rule, Closes

LEMMA ThinRuleFacts ==
    ASSUME NEW p
    PROVE  /\ ThinRule(p) \in {"hold", "pending", "stop_loss"}
           /\ ThinRule(p) = "pending" =>
                BidCollapsed(p) /\ p.ask = NoPrice /\ p.streak + 1 < Confirm
           /\ ThinRule(p) = "stop_loss" /\ p.ask = NoPrice =>
                BidCollapsed(p) /\ ~(p.streak + 1 < Confirm)
BY Zenon DEF ThinRule

LEMMA FloorType == ThinFloor100(Entry) \in Nat
<1>1. Entry * (100 - HardPct - SweepPct) \in Int
  BY PositionAssumption, ConfigAssumption DEF Percent
<1>2. QED
  BY <1>1 DEF ThinFloor100, Max2

\* The fields of a decision.
LEMMA DecideFacts ==
    ASSUME NEW s \in State, cache \in Cache, cache.book.bids # <<>>
    PROVE  /\ Decide(s) \in Decision
           /\ Decide(s).verdict # "none"
           /\ Decide(s).thin <=> Mark(cache.book) = NoPrice
           /\ ~Decide(s).thin => \/ Decide(s).peak = s.peak
                                 \/ Decide(s).peak = Mark(cache.book)
           /\ Decide(s).verdict = "pending" =>
                CollapseNoAsk(cache.book) /\ PriorStreak(s) + 1 < Confirm
           /\ Decide(s).verdict \in Closes /\ V1 /\ ThinNoAsk =>
                CollapseNoAsk(cache.book) /\ ~(PriorStreak(s) + 1 < Confirm)
           /\ V1 => Decide(s).verdict # "unmarkable"
<1> DEFINE b    == cache.book
           thin == Mark(b) = NoPrice
           mark == IF thin THEN b.bids[1].price ELSE Mark(b)
           ask  == IF thin THEN FirstDeep(b.asks)
                   ELSE IF b.asks = <<>> THEN NoPrice ELSE b.asks[1].price
           prev == IF s.peak = NoPrice THEN mark ELSE s.peak
           peak == IF thin THEN prev ELSE Max2(prev, mark)
           p    == [entry |-> Entry, qty |-> held, mark |-> mark, peak |-> peak, ask |-> ask,
                    streak |-> PriorStreak(s), aged |-> FALSE]
           verdict == IF ~thin THEN Rule(p) ELSE IF V1 THEN ThinRule(p) ELSE "unmarkable"
           floor   == IF thin THEN ThinFloor100(Entry) ELSE 100 * b.bids[1].price
<1>1. Decide(s) = [verdict |-> verdict, thin |-> thin, peak |-> peak, floor |-> floor]
  BY Zenon DEF Decide
<1>2. /\ p.ask = ask /\ p.streak = PriorStreak(s) /\ p.mark = mark /\ p.entry = Entry
  OBVIOUS
<1> HIDE DEF p
<1>3. b.bids \in Seq(Level) /\ b.asks \in Seq(Level) /\ Mark(b) \in Nat
  BY BookTypes DEF Cache
<1>4. b.bids[1].price \in Nat
  <2>1. b.bids[1] \in Level
    BY <1>3
  <2>2. QED
    BY <2>1 DEF Level
<1>5. mark \in Nat /\ prev \in Nat /\ peak \in Nat /\ floor \in Nat
  <2>1. mark \in Nat
    BY <1>3, <1>4
  <2>2. prev \in Nat
    BY <2>1 DEF State
  <2>3. peak \in Nat
    <3> HIDE DEF prev, mark
    <3> QED
      BY <2>1, <2>2 DEF Max2
  <2>4. floor \in Nat
    BY <1>4, FloorType
  <2> QED
    BY <2>1, <2>2, <2>3, <2>4
<1>6. verdict \in Verdicts /\ verdict # "none"
  <2>1. Rule(p) \in Closes \cup {"hold"} /\ ThinRule(p) \in {"hold", "pending", "stop_loss"}
    BY RuleRange, ThinRuleFacts
  <2>2. QED
    BY <2>1 DEF Verdicts, Closes
<1>7. ~thin => peak = s.peak \/ peak = Mark(b)
  BY <1>3 DEF Max2
<1>8. BidCollapsed(p) <=> Lost(2 * mark, Entry, HardPct)
  BY <1>2 DEF BidCollapsed
<1>9. verdict = "pending" => CollapseNoAsk(b) /\ PriorStreak(s) + 1 < Confirm
  <2> SUFFICES ASSUME verdict = "pending" PROVE CollapseNoAsk(b) /\ PriorStreak(s) + 1 < Confirm
    OBVIOUS
  <2>1. thin /\ ThinRule(p) = "pending"
    BY RuleRange DEF Closes
  <2>2. BidCollapsed(p) /\ p.ask = NoPrice /\ p.streak + 1 < Confirm
    BY <2>1, ThinRuleFacts
  <2>3. QED
    BY <1>2, <1>8, <2>1, <2>2 DEF CollapseNoAsk, Mark
<1>10. verdict \in Closes /\ V1 /\ ThinNoAsk =>
         CollapseNoAsk(b) /\ ~(PriorStreak(s) + 1 < Confirm)
  <2> SUFFICES ASSUME verdict \in Closes, V1, ThinNoAsk
               PROVE  CollapseNoAsk(b) /\ ~(PriorStreak(s) + 1 < Confirm)
    OBVIOUS
  <2>1. thin /\ ThinRule(p) = "stop_loss" /\ p.ask = NoPrice
    BY <1>2, ThinRuleFacts DEF ThinNoAsk, Closes
  <2>2. BidCollapsed(p) /\ ~(p.streak + 1 < Confirm)
    BY <2>1, ThinRuleFacts
  <2>3. QED
    BY <1>2, <1>8, <2>1, <2>2 DEF CollapseNoAsk, Mark
<1>13. V1 => verdict # "unmarkable"
  BY RuleRange, ThinRuleFacts DEF Closes
<1> HIDE DEF verdict, floor, peak, prev, mark, ask
<1>11. /\ Decide(s).verdict = verdict /\ Decide(s).thin = thin
       /\ Decide(s).peak = peak /\ Decide(s).floor = floor
  BY <1>1
<1>12. Decide(s) \in Decision
  <2>1. thin \in BOOLEAN
    OBVIOUS
  <2>2. \A v \in Verdicts, t \in BOOLEAN, pk \in Nat, f \in Nat :
          [verdict |-> v, thin |-> t, peak |-> pk, floor |-> f] \in Decision
    BY Zenon DEF Decision
  <2> HIDE DEF thin
  <2>3. QED
    BY <1>1, <1>5, <1>6, <2>1, <2>2, Zenon
<1>14. QED
  BY <1>6, <1>7, <1>9, <1>10, <1>11, <1>12, <1>13

-----------------------------------------------------------------------------
(* Types.                                                                  *)

Outcomes == Held \cup Failures
            \cup {"none", "ok", "within", "dust_remainder", "exit_in_flight",
                  "position_no_longer_open"}

Sale == [at: {"none", "thread", "posted", "done"}, trigger: Closes \cup {"none"}, floor: Nat,
         held: 0 .. Qty, result: Failures \cup {"none", "filled"}, sold: 0 .. Qty]

Confirming == {d \in Decision : d.verdict \in Closes \cup {"none"}}

\* The type invariant variable by variable, with what TypeOK leaves open: the
\* decision kept while a book is refreshed is a close, a sell that is done has a
\* result, and what the venue says is gone is not cached.
TInv ==
    /\ row \in [status: {"open", "closed"}, qty: 0 .. Qty]
    /\ claim \in {"none", "exit", "manual"}
    /\ cache \in Cache /\ (cache.gone => cache.age = "none")
    /\ market \in {"open", "closed"}
    /\ saved \in Nat
    /\ st \in State
    /\ watch \in BOOLEAN
    /\ pc \in {"idle", "list", "eval", "confirm", "selling", "draining", "down"}
    /\ held \in 0 .. Qty
    /\ dec \in Confirming
    /\ sale \in Sale /\ (sale.at = "done" => sale.result # "none")
    /\ seen \in [hi: Nat, last: Outcomes, fetches: 0 .. Confirm]

LEMMA TypesImply == TInv => TypeOK
<1> SUFFICES ASSUME TInv PROVE TypeOK
  OBVIOUS
<1>1. dec.verdict \in Verdicts
  BY DEF TInv, Confirming, Decision
<1>2. sale.at \in {"none", "thread", "posted", "done"} /\ seen.fetches \in 0 .. Confirm
  BY DEF TInv, Sale
<1>3. QED
  BY <1>1, <1>2, Zenon DEF TInv, TypeOK, State, Cache

\* The evaluations of the sweep, whatever they come to.
Evaluation ==
    \/ EvalDust \/ EvalNoBook \/ EvalNoBids \/ Eval
    \/ ConfirmDead \/ ConfirmOld \/ ConfirmStands \/ ConfirmFresh

-----------------------------------------------------------------------------
(* What an evaluation does.                                                *)

\* The state an evaluation has when it comes to judge: st but for the peak.
Carries(s) ==
    /\ s \in State
    /\ s.hold = st.hold /\ s.err = st.err /\ s.streak = st.streak /\ s.dust = st.dust

Stays ==
    /\ dec' = NoDec
    /\ UNCHANGED watch /\ UNCHANGED held
    /\ cache' \in Cache
    /\ cache'.book = cache.book /\ cache'.age = cache.age /\ cache'.gone = cache.gone
    /\ st' \in State
    /\ st.dust => st'.dust

\* The streak is kept, reset, or counts this fetch, if it was not counted yet.
Streaks ==
    \/ st'.streak = st.streak /\ cache'.counted = cache.counted
    \/ st'.streak = 0
    \/ /\ CollapseNoAsk(cache.book)
       /\ cache'.counted
       /\ st'.streak = IF cache.counted THEN st.streak ELSE st.streak + 1

Over == "position_no_longer_open"

Finishes ==
    /\ pc' = "idle"
    /\ UNCHANGED claim /\ UNCHANGED sale
    /\ seen' = [seen EXCEPT !.last = seen'.last]
    /\ \/ seen'.last = seen.last /\ log' = NoRow /\ st'.hold = st.hold /\ st'.err = st.err
       \/ seen'.last \in Held /\ log' = HoldRow(st, seen'.last) /\ st'.hold = seen'.last
       \/ seen'.last = "within" /\ log' = NoRow
       \/ seen'.last = "exit_in_flight" /\ log' = Row("skip", "exit_in_flight")
       \/ seen'.last = Over /\ log' = Row("skip", Over) /\ row.status # "open"
       \/ /\ seen'.last = "dust_remainder" /\ st'.dust
          /\ log' = IF st.dust THEN NoRow ELSE Row("skip", "dust_remainder")

Sells ==
    /\ row.status = "open" /\ claim = "none"
    /\ claim' = "exit"
    /\ sale' \in Sale /\ sale'.at = "thread"
    /\ pc' = "selling"
    /\ seen' = Recount(seen, cache.book)
    /\ log' = NoRow
    /\ st'.err = st.err /\ st'.streak = 0

\* The fields of what the branches of Judge write.
LEMMA StateWrites ==
    ASSUME NEW s \in State
    PROVE  /\ \A h \in Held \cup {"none"} : 
                 /\ [s EXCEPT !.hold = h] \in State
                 /\ [s EXCEPT !.hold = h].hold = h
           /\ \A n \in 0 .. Confirm - 1 : [s EXCEPT !.streak = n] \in State
           /\ \A p \in Nat : [s EXCEPT !.peak = p] \in State
           /\ [s EXCEPT !.dust = TRUE] \in State
           /\ Calm(s) \in State
<1>1. NoBackoff \in [trigger: Closes \cup {"none"}, delay: 0 .. MaxBackoff,
                     left: 0 .. MaxBackoff, floor: Nat]
  BY BackoffAssumption DEF NoBackoff
<1>2. QED
  BY <1>1 DEF State, Calm

LEMMA JudgeEffect ==
    ASSUME TInv,
           NEW s, Carries(s),
           NEW d \in Decision, d.verdict = "pending" =>
                                 CollapseNoAsk(cache.book) /\ PriorStreak(s) + 1 < Confirm,
           Judge(s, d)
    PROVE  /\ Stays /\ Streaks
           /\ st'.peak = s.peak
           /\ Finishes \/ (Sells /\ d.verdict \in Closes)
<1>1. s \in State /\ cache \in Cache /\ st \in State
  BY DEF Carries, TInv, TypeOK, State, Cache
<1>2. Streak(s, d) \in 0 .. Confirm - 1
  <2>1. Confirm \in Nat \ {0} /\ s.streak \in 0 .. Confirm - 1
    BY <1>1, ConfigAssumption DEF State
  <2>2. CASE d.verdict # "pending"
    BY <2>1, <2>2 DEF Streak
  <2>3. CASE d.verdict = "pending" /\ cache.counted
    BY <2>1, <2>3 DEF Streak, Counted
  <2>4. CASE d.verdict = "pending" /\ ~cache.counted
    BY <2>1, <2>4 DEF Streak, Counted, PriorStreak
  <2>5. QED
    BY <2>2, <2>3, <2>4
<1>3. /\ Tracked(s, d) \in State
      /\ Tracked(s, d).peak = s.peak /\ Tracked(s, d).hold = s.hold
      /\ Tracked(s, d).err = s.err /\ Tracked(s, d).dust = s.dust
      /\ Tracked(s, d).streak = Streak(s, d)
  BY <1>1, <1>2, StateWrites DEF Tracked, State
<1>4. ASSUME NEW t, NEW h \in Held \cup {"none"}, t = [Tracked(s, d) EXCEPT !.hold = h]
      PROVE  /\ t \in State
             /\ t.peak = s.peak /\ t.hold = h /\ t.err = s.err /\ t.dust = s.dust
             /\ t.streak = Streak(s, d)
  BY <1>3, <1>4, StateWrites DEF State
<1>5. ASSUME Count(d)
      PROVE  /\ cache' \in Cache
             /\ cache'.book = cache.book /\ cache'.age = cache.age /\ cache'.gone = cache.gone
             /\ cache'.counted <=> d.verdict = "pending"
  BY <1>1, <1>5 DEF Count, Cache
<1>6. ASSUME Count(d), st'.streak = Streak(s, d) PROVE Streaks
  <2>1. CASE d.verdict # "pending"
    BY <1>6, <2>1 DEF Streaks, Streak
  <2>2. CASE d.verdict = "pending"
    BY <1>5, <1>6, <2>2 DEF Streaks, Streak, Counted, Carries
  <2>3. QED
    BY <2>1, <2>2
<1>7. seen \in [hi: Nat, last: Outcomes, fetches: 0 .. Confirm]
  BY DEF TInv
<1>8. \A o : [seen EXCEPT !.last = o].last = o
  BY <1>7
<1>9. CASE WaitsOut(s, d)
  <2>1. st' = s /\ log' = NoRow /\ seen' = [seen EXCEPT !.last = seen.last] /\ cache' = cache
    BY <1>9 DEF WaitsOut, Silent, Ends
  <2>2. Stays /\ Streaks /\ Finishes
    BY <1>1, <1>8, <1>9, <2>1 DEF Stays, Streaks, Finishes, WaitsOut, Silent, Ends, Carries
  <2>3. QED
    BY <2>1, <2>2
<1>10. CASE HoldsThin(s, d)
  <2>1. /\ st' = [Tracked(s, d) EXCEPT !.hold = "no_executable_bid"]
        /\ log' = HoldRow(Tracked(s, d), "no_executable_bid")
        /\ seen' = [seen EXCEPT !.last = "no_executable_bid"]
        /\ Count(d)
    BY <1>10 DEF HoldsThin, Hold, Ends
  <2>2. "no_executable_bid" \in Held
    BY DEF Held
  <2>3. /\ st' \in State
        /\ st'.peak = s.peak /\ st'.hold = "no_executable_bid" /\ st'.dust = s.dust
        /\ st'.streak = Streak(s, d)
    BY <1>4, <2>1, <2>2
  <2>4. Stays /\ Streaks
    BY <1>5, <1>6, <1>10, <2>1, <2>3 DEF Stays, HoldsThin, Hold, Ends, Carries
  <2>5. log' = HoldRow(st, "no_executable_bid")
    BY <1>3, <2>1 DEF HoldRow, Carries
  <2>6. Finishes
    BY <1>8, <1>10, <2>1, <2>2, <2>3, <2>5 DEF Finishes, HoldsThin, Hold, Ends
  <2>7. QED
    BY <2>3, <2>4, <2>6
<1>11. CASE HoldsWithin(s, d)
  <2> DEFINE t == [Tracked(s, d) EXCEPT !.hold = "none"]
  <2>1. st' = Calm(t) /\ log' = NoRow /\ seen' = [seen EXCEPT !.last = "within"] /\ Count(d)
    BY <1>11 DEF HoldsWithin, Ends
  <2>2. t \in State /\ t.peak = s.peak /\ t.dust = s.dust /\ t.streak = Streak(s, d)
    BY <1>4
  <2> HIDE DEF t
  <2>3. st' \in State /\ st'.peak = s.peak /\ st'.dust = s.dust /\ st'.streak = Streak(s, d)
    BY <2>1, <2>2, StateWrites DEF Calm, State
  <2>4. Stays /\ Streaks
    BY <1>5, <1>6, <1>11, <2>1, <2>3 DEF Stays, HoldsWithin, Ends, Carries
  <2>5. Finishes
    BY <1>8, <1>11, <2>1 DEF Finishes, HoldsWithin, Ends
  <2>6. QED
    BY <2>3, <2>4, <2>5
<1>12. ASSUME NEW o \in {Over, "exit_in_flight"}, o = Over => row.status # "open",
              Ends(Cleared(s, d), Row("skip", o), o), Count(d)
       PROVE  Stays /\ Streaks /\ Finishes /\ st'.peak = s.peak
  <2>1. /\ st' = Cleared(s, d) /\ log' = Row("skip", o) /\ seen' = [seen EXCEPT !.last = o]
    BY <1>12 DEF Ends
  <2>2. st' \in State /\ st'.peak = s.peak /\ st'.dust = s.dust /\ st'.streak = Streak(s, d)
    BY <1>4, <2>1 DEF Cleared
  <2>3. Stays /\ Streaks
    BY <1>5, <1>6, <1>12, <2>2 DEF Stays, Ends, Carries
  <2>4. Finishes
    BY <1>8, <1>12, <2>1 DEF Finishes, Ends
  <2>5. QED
    BY <2>2, <2>3, <2>4
<1>13. CASE ClaimsRow(s, d)
  <2>1. st' = Cleared(s, d) /\ Count(d) /\ d.verdict \in Closes
    BY <1>13 DEF ClaimsRow, ToClose
  <2>2. /\ st' \in State /\ st'.peak = s.peak /\ st'.dust = s.dust /\ st'.err = s.err
        /\ st'.streak = Streak(s, d)
    BY <1>4, <2>1 DEF Cleared
  <2>3. Stays /\ Streaks
    BY <1>5, <1>6, <1>13, <2>1, <2>2 DEF Stays, ClaimsRow, Carries
  <2>4. sale' \in Sale /\ sale'.at = "thread"
    <3>1. sale' = [NoSale EXCEPT !.at = "thread", !.trigger = d.verdict, !.floor = d.floor,
                                 !.held = held]
      BY <1>13 DEF ClaimsRow
    <3>2. d.floor \in Nat /\ held \in 0 .. Qty
      BY DEF Decision, TInv, TypeOK
    <3>3. NoSale \in Sale
      BY PositionAssumption DEF NoSale, Sale
    <3>4. QED
      BY <2>1, <3>1, <3>2, <3>3 DEF Sale
  <2>5. Streak(s, d) = 0
    BY <2>1 DEF Streak, Closes
  <2>6. Sells
    BY <1>13, <2>2, <2>4, <2>5 DEF Sells, ClaimsRow, Carries
  <2>7. QED
    BY <2>1, <2>2, <2>3, <2>6
<1>14. CASE SkipsClosed(s, d)
  BY <1>12, <1>14 DEF SkipsClosed, Over
<1>15. CASE SkipsClaimed(s, d)
  BY <1>12, <1>15 DEF SkipsClaimed, Over
<1>16. QED
  BY <1>9, <1>10, <1>11, <1>13, <1>14, <1>15 DEF Judge

\* A market that may be sold into, and the collapse that a thin sell saw.
Alive == ~cache.gone /\ cache.age # "old" /\ (market = "closed" => cache.age = "fresh")

Counts ==
    V1 /\ cache.age = "fresh" /\ ThinNoAsk =>
        CollapseNoAsk(cache.book) /\ ~(PriorStreak(st) + 1 < Confirm)

\* The state Judge is given, and the decision.
LEMMA DecidedCarries ==
    ASSUME TInv, cache.book.bids # <<>>
    PROVE  LET d == Decide(st) IN
           /\ Carries(Peaked(st, d))
           /\ Peaked(st, d).peak \in {st.peak, Mark(cache.book)}
           /\ d \in Decision
           /\ d.verdict = "pending" =>
                CollapseNoAsk(cache.book) /\ PriorStreak(Peaked(st, d)) + 1 < Confirm
           /\ d.verdict \in Closes => Counts
           /\ V1 => d.verdict # "unmarkable"
<1> DEFINE d == Decide(st)
<1>1. st \in State /\ cache \in Cache
  BY DEF TInv, TypeOK, State, Cache
<1>2. /\ d \in Decision
      /\ d.thin <=> Mark(cache.book) = NoPrice
      /\ ~d.thin => d.peak = st.peak \/ d.peak = Mark(cache.book)
      /\ d.verdict = "pending" => CollapseNoAsk(cache.book) /\ PriorStreak(st) + 1 < Confirm
      /\ d.verdict \in Closes /\ V1 /\ ThinNoAsk =>
           CollapseNoAsk(cache.book) /\ ~(PriorStreak(st) + 1 < Confirm)
      /\ V1 => d.verdict # "unmarkable"
  BY <1>1, DecideFacts
<1> HIDE DEF d
<1>3. Carries(Peaked(st, d)) /\ Peaked(st, d).peak \in {st.peak, Mark(cache.book)}
  <2>1. CASE d.thin
    BY <1>1, <2>1 DEF Peaked, Carries
  <2>2. CASE ~d.thin
    <3>1. d.peak \in Nat
      BY <1>2 DEF Decision
    <3>2. Peaked(st, d) = [st EXCEPT !.peak = d.peak]
      BY <2>2 DEF Peaked
    <3>3. QED
      BY <1>1, <1>2, <2>2, <3>1, <3>2, StateWrites DEF Carries, State
  <2>3. QED
    BY <2>1, <2>2
<1>4. PriorStreak(Peaked(st, d)) = PriorStreak(st)
  BY <1>3 DEF PriorStreak, Carries
<1>5. d.verdict \in Closes => Counts
  BY <1>2 DEF Counts
<1>6. QED
  BY <1>2, <1>3, <1>4, <1>5 DEF d

LEMMA EvaluationEffect ==
    ASSUME TInv, Evaluation
    PROVE  /\ pc \in {"eval", "confirm"}
           /\ UNCHANGED row /\ UNCHANGED market /\ UNCHANGED saved
           /\ Stays /\ Streaks
           /\ st'.peak \in {st.peak, Mark(cache.book)}
           /\ Finishes \/ (Sells /\ Alive /\ Counts)
<1>1. st \in State /\ cache \in Cache /\ seen \in [hi: Nat, last: Outcomes, fetches: 0 .. Confirm]
  BY DEF TInv, TypeOK, State, Cache
<1>2. Carries(st)
  BY <1>1 DEF Carries
<1>3. \A o : [seen EXCEPT !.last = o].last = o
  BY <1>1
<1>4. ASSUME NEW h \in Held, Hold(st, h), Outside, UNCHANGED cache
      PROVE  /\ UNCHANGED row /\ UNCHANGED market /\ UNCHANGED saved
             /\ Stays /\ Streaks /\ Finishes
             /\ st'.peak = st.peak
  <2>1. /\ st' = [st EXCEPT !.hold = h] /\ log' = HoldRow(st, h)
        /\ seen' = [seen EXCEPT !.last = h]
    BY <1>4 DEF Hold, Ends
  <2>2. /\ st' \in State /\ st'.peak = st.peak /\ st'.hold = h /\ st'.dust = st.dust
        /\ st'.streak = st.streak
    BY <1>1, <2>1, StateWrites DEF State
  <2>3. Stays /\ Streaks
    BY <1>1, <1>4, <2>2 DEF Stays, Streaks, Hold, Ends
  <2>4. Finishes
    BY <1>3, <1>4, <2>1, <2>2 DEF Finishes, Hold, Ends
  <2>5. QED
    BY <1>4, <2>2, <2>3, <2>4 DEF Outside
<1>5. ASSUME NEW s, Carries(s), s.peak \in {st.peak, Mark(cache.book)},
             NEW d \in Decision, d.verdict = "pending" =>
                                   CollapseNoAsk(cache.book) /\ PriorStreak(s) + 1 < Confirm,
             d.verdict \in Closes => Alive /\ Counts,
             Judge(s, d), Outside
      PROVE  /\ UNCHANGED row /\ UNCHANGED market /\ UNCHANGED saved
             /\ Stays /\ Streaks
             /\ st'.peak \in {st.peak, Mark(cache.book)}
             /\ Finishes \/ (Sells /\ Alive /\ Counts)
  <2>1. /\ Stays /\ Streaks
        /\ st'.peak = s.peak
        /\ Finishes \/ (Sells /\ d.verdict \in Closes)
    BY <1>5, JudgeEffect
  <2>2. UNCHANGED row /\ UNCHANGED market /\ UNCHANGED saved
    BY <1>5 DEF Outside
  <2>3. QED
    BY <1>5, <2>1, <2>2
<1>6. CASE EvalDust
  <2>1. /\ st' = [st EXCEPT !.dust = TRUE]
        /\ log' = IF st.dust THEN NoRow ELSE Row("skip", "dust_remainder")
        /\ seen' = [seen EXCEPT !.last = "dust_remainder"]
        /\ Outside /\ UNCHANGED cache
    BY <1>6 DEF EvalDust, Ends
  <2>2. /\ st' \in State /\ st'.peak = st.peak /\ st'.hold = st.hold /\ st'.dust
        /\ st'.streak = st.streak
    BY <1>1, <2>1, StateWrites DEF State
  <2>3. Stays /\ Streaks
    BY <1>1, <1>6, <2>1, <2>2 DEF Stays, Streaks, EvalDust, Ends
  <2>4. Finishes
    BY <1>3, <1>6, <2>1, <2>2 DEF Finishes, EvalDust, Ends
  <2>5. QED
    BY <1>6, <2>1, <2>2, <2>3, <2>4 DEF EvalDust, Outside
<1>7. CASE EvalNoBook
  <2>1. PICK h \in Held : Hold(st, h)
    BY <1>7 DEF EvalNoBook, Held
  <2>2. QED
    BY <1>4, <1>7, <2>1 DEF EvalNoBook
<1>8. CASE EvalNoBids
  <2>1. /\ st' = st /\ log' = NoRow /\ seen' = [seen EXCEPT !.last = seen.last]
        /\ Outside /\ UNCHANGED cache
    BY <1>8 DEF EvalNoBids, Silent, Ends
  <2>2. Stays /\ Streaks /\ Finishes
    BY <1>1, <1>3, <1>8, <2>1 DEF Stays, Streaks, Finishes, EvalNoBids, Silent, Ends
  <2>3. QED
    BY <1>8, <2>1, <2>2 DEF EvalNoBids, Outside
<1>9. CASE Eval
  <2> DEFINE d == Decide(st)
  <2>1. /\ pc = "eval" /\ cache.book.bids # <<>>
        /\ d.verdict \notin Closes \/ cache.age = "fresh"
        /\ Judge(Peaked(st, d), d) /\ Outside
    BY <1>9 DEF Eval, Evaluable
  <2>2. /\ Carries(Peaked(st, d)) /\ Peaked(st, d).peak \in {st.peak, Mark(cache.book)}
        /\ d \in Decision
        /\ d.verdict = "pending" =>
             CollapseNoAsk(cache.book) /\ PriorStreak(Peaked(st, d)) + 1 < Confirm
        /\ d.verdict \in Closes => Counts
    BY <2>1, DecidedCarries
  <2> HIDE DEF d
  <2>3. d.verdict \in Closes => Alive
    BY <2>1 DEF Alive, TInv
  <2>4. QED
    BY <1>5, <2>1, <2>2, <2>3
<1>10. CASE ConfirmDead
  BY <1>4, <1>10 DEF ConfirmDead, Held
<1>11. CASE ConfirmOld
  BY <1>4, <1>11 DEF ConfirmOld, Held
<1>12. ASSUME pc = "confirm", Judge(st, dec), Outside, Alive, Counts
       PROVE  /\ UNCHANGED row /\ UNCHANGED market /\ UNCHANGED saved
              /\ Stays /\ Streaks
              /\ st'.peak \in {st.peak, Mark(cache.book)}
              /\ Finishes \/ (Sells /\ Alive /\ Counts)
  <2>1. dec \in Decision /\ dec.verdict # "pending"
    BY DEF TInv, Confirming, Closes
  <2>2. QED
    BY <1>2, <1>5, <1>12, <2>1
<1>13. CASE ConfirmStands
  <2>1. Alive /\ Counts
    BY <1>13 DEF ConfirmStands, SaysOver, Refreshed, Alive, Counts
  <2>2. QED
    BY <1>12, <1>13, <2>1 DEF ConfirmStands
<1>14. CASE ConfirmFresh
  <2> DEFINE d == Decide(st)
  <2>1. pc = "confirm" /\ cache.age = "fresh" /\ Outside
    BY <1>14 DEF ConfirmFresh, Refreshed
  <2>2. Alive
    BY <2>1 DEF Alive, TInv
  <2>3. CASE cache.book.bids = <<>>
    <3>1. Counts
      BY <2>3 DEF Counts, ThinNoAsk
    <3>2. QED
      BY <1>12, <1>14, <2>1, <2>2, <2>3, <3>1 DEF ConfirmFresh
  <2>4. CASE cache.book.bids # <<>>
    <3>1. /\ Carries(Peaked(st, d)) /\ Peaked(st, d).peak \in {st.peak, Mark(cache.book)}
          /\ d \in Decision
          /\ d.verdict = "pending" =>
               CollapseNoAsk(cache.book) /\ PriorStreak(Peaked(st, d)) + 1 < Confirm
          /\ d.verdict \in Closes => Counts
          /\ V1 => d.verdict # "unmarkable"
      BY <2>4, DecidedCarries
    <3>2. (Judge(st, dec) /\ d.verdict = "unmarkable") \/ Judge(Peaked(st, d), d)
      BY <1>14, <2>4 DEF ConfirmFresh
    <3> HIDE DEF d
    <3>3. CASE Judge(st, dec) /\ d.verdict = "unmarkable"
      <4>1. Counts
        BY <3>1, <3>3 DEF Counts
      <4>2. QED
        BY <1>12, <2>1, <2>2, <3>3, <4>1
    <3>4. CASE Judge(Peaked(st, d), d)
      BY <1>5, <2>1, <2>2, <3>1, <3>4
    <3>5. QED
      BY <3>2, <3>3, <3>4
  <2>5. QED
    BY <2>3, <2>4
<1>15. pc \in {"eval", "confirm"}
  BY DEF Evaluation, EvalDust, EvalNoBook, EvalNoBids, Eval, Evaluable, ConfirmDead, ConfirmOld,
         ConfirmStands, ConfirmFresh
<1>16. QED
  BY <1>6, <1>7, <1>8, <1>9, <1>10, <1>11, <1>13, <1>14, <1>15 DEF Evaluation

-----------------------------------------------------------------------------
(* The type invariant.                                                     *)

LEMMA InitialStates ==
    /\ NoState \in State
    /\ \A p \in Nat : [NoState EXCEPT !.peak = p] \in State
    /\ NoDec \in Confirming
    /\ NoSale \in Sale
    /\ [book |-> NoBook, age |-> "none", gone |-> FALSE, counted |-> FALSE] \in Cache
<1>1. NoBackoff \in [trigger: Closes \cup {"none"}, delay: 0 .. MaxBackoff,
                     left: 0 .. MaxBackoff, floor: Nat]
  BY BackoffAssumption DEF NoBackoff
<1>2. NoState \in State
  <2>1. 0 \in 0 .. Confirm - 1
    BY ConfigAssumption
  <2>2. QED
    BY <1>1, <2>1 DEF NoState, State, NoPrice
<1>3. NoDec \in Confirming
  <2>1. NoDec \in Decision
    BY DEF NoDec, Decision, Verdicts, NoPrice
  <2>2. QED
    BY <2>1 DEF NoDec, Confirming
<1>4. NoSale \in Sale
  BY PositionAssumption DEF NoSale, Sale
<1>5. QED
  BY <1>2, <1>3, <1>4, StateWrites DEF Cache

\* What marking a fetched book gives.
LEMMA FetchTypes ==
    ASSUME NEW b \in Books
    PROVE  Mark(b) \in Nat /\ b \in Books \cup {NoBook}
BY BookTypes

LEMMA InitTypes == Init => TInv
<1> SUFFICES ASSUME Init PROVE TInv
  OBVIOUS
<1>1. /\ row \in [status: {"open", "closed"}, qty: 0 .. Qty]
      /\ held \in 0 .. Qty /\ saved \in Nat
  BY PositionAssumption DEF Init
<1>2. st \in State
  BY PositionAssumption, InitialStates DEF Init
<1>3. seen \in [hi: Nat, last: Outcomes, fetches: 0 .. Confirm]
  BY PositionAssumption, ConfigAssumption DEF Init, Outcomes
<1>4. sale \in Sale /\ sale.at # "done" /\ dec \in Confirming /\ cache \in Cache /\ ~cache.gone
  BY InitialStates DEF Init, NoSale
<1>5. QED
  BY <1>1, <1>2, <1>3, <1>4 DEF Init, TInv

\* The steps that a fetch, the clock and the process take.
LEMMA AroundTypes ==
    ASSUME TInv,
           \/ \E b \in Books, persist \in BOOLEAN : Fetch(b, persist)
           \/ Gone \/ Dropped \/ Ages \/ MarketCloses \/ Clock
           \/ Stop \/ Drained \/ Restart
    PROVE  TInv'
<1>1. CASE \E b \in Books, persist \in BOOLEAN : Fetch(b, persist)
  <2>1. PICK b \in Books, persist \in BOOLEAN : Fetch(b, persist)
    BY <1>1
  <2>2. Mark(b) \in Nat /\ Confirm \in Nat \ {0}
    BY FetchTypes, ConfigAssumption
  <2>3. cache' \in Cache /\ ~cache'.gone
    BY <2>1 DEF Fetch, Cache
  <2>4. saved' \in Nat
    BY <2>1, <2>2 DEF Fetch, TInv, Max2
  <2>5. st' \in State
    <3>1. st.peak \in Nat /\ Max2(st.peak, Mark(b)) \in Nat
      BY <2>2 DEF TInv, State, Max2
    <3>2. QED
      BY <2>1, <3>1, StateWrites DEF Fetch, TInv
  <2>6. seen' \in [hi: Nat, last: Outcomes, fetches: 0 .. Confirm]
    <3>1. PICK hi, fetches : seen' = [seen EXCEPT !.hi = hi, !.fetches = fetches]
                             /\ hi = (IF row.status = "open" THEN Max2(seen.hi, Mark(b))
                                     ELSE seen.hi)
                             /\ fetches = (IF CollapseNoAsk(b) THEN Min2(seen.fetches + 1, Confirm)
                                          ELSE seen.fetches)
      BY <2>1, Zenon DEF Fetch
    <3>2. hi \in Nat /\ fetches \in 0 .. Confirm
      BY <2>2, <3>1 DEF TInv, Max2, Min2
    <3>3. QED
      BY <3>1, <3>2 DEF TInv
  <2>7. QED
    BY <2>1, <2>3, <2>4, <2>5, <2>6 DEF Fetch, TInv
<1>2. ASSUME NEW g \in BOOLEAN, Uncached(g) PROVE TInv'
  <2>1. cache' \in Cache /\ cache'.age = "none"
    BY <1>2 DEF Uncached, Cache
  <2>2. QED
    BY <1>2, <2>1 DEF Uncached, TInv
<1>3. CASE Gone \/ Dropped
  BY <1>2, <1>3 DEF Gone, Dropped
<1>4. CASE Ages
  <2>1. cache' \in Cache /\ ~cache'.gone
    BY <1>4 DEF Ages, TInv, Cache
  <2>2. QED
    BY <1>4, <2>1 DEF Ages, TInv
<1>5. CASE MarketCloses
  BY <1>5 DEF MarketCloses, TInv
<1>6. CASE Clock
  <2>1. st' \in State
    BY <1>6, BackoffAssumption DEF Clock, TInv, State
  <2>2. QED
    BY <1>6, <2>1 DEF Clock, TInv
<1>7. CASE Stop
  BY <1>7, InitialStates DEF Stop, TInv
<1>8. CASE Drained
  BY <1>8 DEF Drained, TInv
<1>9. CASE Restart
  <2>1. st' \in State /\ cache' \in Cache /\ ~cache'.gone
    BY <1>9, InitialStates DEF Restart, TInv
  <2>2. dec' \in Confirming /\ sale' \in Sale /\ sale'.at # "done"
    BY <1>9, InitialStates DEF Restart, NoSale
  <2>3. seen' \in [hi: Nat, last: Outcomes, fetches: 0 .. Confirm]
    <3>1. seen' = [[seen EXCEPT !.fetches = 0] EXCEPT !.last = "none"]
      BY <1>9, NoBookFacts DEF Restart, Recount
    <3>2. 0 \in 0 .. Confirm /\ "none" \in Outcomes
      BY ConfigAssumption DEF Outcomes
    <3>3. QED
      BY <3>1, <3>2 DEF TInv
  <2>4. held' \in 0 .. Qty
    BY <1>9, PositionAssumption DEF Restart
  <2>5. QED
    BY <1>9, <2>1, <2>2, <2>3, <2>4 DEF Restart, TInv
<1>10. QED
  BY <1>1, <1>3, <1>4, <1>5, <1>6, <1>7, <1>8, <1>9

\* A number of shares is sold, by this seller or by another.
LEMMA SoldTypes ==
    ASSUME TInv, NEW f \in Nat, f <= row.qty,
           row' = [status |-> IF f = row.qty THEN "closed" ELSE row.status, qty |-> row.qty - f]
    PROVE  row' \in [status: {"open", "closed"}, qty: 0 .. Qty]
BY PositionAssumption DEF TInv

LEMMA SaleTypes == TInv /\ SaleStep => TInv'
<1> SUFFICES ASSUME TInv, SaleStep PROVE TInv'
  OBVIOUS
<1>1. CASE SellReads
  <2>1. sale' \in Sale /\ (sale'.at = "done" => sale'.result # "none")
    BY <1>1 DEF SellReads, TInv, Sale, Failures
  <2>2. QED
    BY <1>1, <2>1 DEF SellReads, ThreadOnly, TInv
<1>2. ASSUME NEW f \in 1 .. Qty, SellFills(f) PROVE TInv'
  <2>1. f \in Nat /\ f <= row.qty /\ f \in 0 .. Qty
    BY <1>2, PositionAssumption DEF SellFills, Min2, TInv, Sale
  <2>2. row' \in [status: {"open", "closed"}, qty: 0 .. Qty]
    BY <1>2, <2>1, SoldTypes DEF SellFills
  <2>3. sale' \in Sale /\ sale'.result # "none"
    BY <1>2, <2>1 DEF SellFills, TInv, Sale
  <2>4. QED
    BY <1>2, <2>2, <2>3 DEF SellFills, ThreadOnly, TInv
<1>3. ASSUME NEW why \in {"live_error", "resting_order_pending"}, SellFails(why) PROVE TInv'
  <2>1. sale' \in Sale /\ sale'.result # "none"
    BY <1>3 DEF SellFails, TInv, Sale, Failures
  <2>2. QED
    BY <1>3, <2>1 DEF SellFails, ThreadOnly, TInv
<1>4. ASSUME Returned, st' \in State, watch' \in BOOLEAN,
             seen' \in [hi: Nat, last: Outcomes, fetches: 0 .. Confirm]
      PROVE  TInv'
  <2>1. sale' \in Sale /\ sale'.at # "done"
    BY <1>4, InitialStates DEF Returned, NoSale
  <2>2. QED
    BY <1>4, <2>1 DEF Returned, TInv
<1>5. CASE CloseFilled
  <2>1. Calm(st) \in State /\ Calm(st).peak \in Nat
    BY StateWrites DEF TInv, State
  <2>2. st' \in State
    <3>1. st' = [Calm(st) EXCEPT !.peak = IF Partial THEN Calm(st).peak ELSE NoPrice]
      BY <1>5 DEF CloseFilled
    <3>2. QED
      BY <2>1, <3>1, StateWrites DEF NoPrice
  <2>3. seen' \in [hi: Nat, last: Outcomes, fetches: 0 .. Confirm]
    BY <1>5 DEF CloseFilled, TInv, Outcomes
  <2>4. watch' \in BOOLEAN
    BY <1>5 DEF CloseFilled, Unwatched, TInv
  <2>5. QED
    BY <1>4, <1>5, <2>2, <2>3, <2>4 DEF CloseFilled
<1>6. CASE CloseFailed
  <2>1. sale.result \in Failures /\ sale.trigger \in Closes \cup {"none"} /\ sale.floor \in Nat
    BY <1>6 DEF CloseFailed, TInv, Sale
  <2>2. BackoffDelay \in 0 .. MaxBackoff
    BY BackoffAssumption DEF BackoffDelay, TInv, State, Min2
  <2>3. st' \in State
    BY <1>6, <2>1, <2>2 DEF CloseFailed, TInv, State
  <2>4. seen' \in [hi: Nat, last: Outcomes, fetches: 0 .. Confirm]
    BY <1>6, <2>1 DEF CloseFailed, TInv, Outcomes
  <2>5. QED
    BY <1>4, <1>6, <2>3, <2>4 DEF CloseFailed, TInv
<1>7. QED
  BY <1>1, <1>2, <1>3, <1>5, <1>6 DEF SaleStep

LEMMA LoopTypes == TInv /\ LoopStep => TInv'
<1> SUFFICES ASSUME TInv, LoopStep PROVE TInv'
  OBVIOUS
<1>1. CASE TickRead
  <2>1. held' \in 0 .. Qty
    BY <1>1, PositionAssumption DEF TickRead, TInv
  <2>2. QED
    BY <1>1, <2>1 DEF TickRead, TInv
<1>2. CASE TickList
  <2>1. st' \in State /\ watch' \in BOOLEAN
    BY <1>2, InitialStates DEF TickList, TInv
  <2>2. QED
    BY <1>2, <2>1 DEF TickList, TInv
<1>3. CASE EvalStale
  <2>1. /\ Decide(st).verdict \in Closes /\ dec' = Decide(st) /\ st' = Peaked(st, Decide(st))
        /\ cache.book.bids # <<>>
    BY <1>3 DEF EvalStale, Evaluable
  <2>2. st' \in State /\ dec' \in Confirming
    BY <2>1, DecidedCarries DEF Carries, Confirming
  <2>3. QED
    BY <1>3, <2>2 DEF EvalStale, Outside, TInv
<1>4. CASE Evaluation
  <2>1. /\ UNCHANGED row /\ UNCHANGED market /\ UNCHANGED saved
        /\ Stays /\ (Finishes \/ Sells)
    BY <1>4, EvaluationEffect
  <2>2. seen' \in [hi: Nat, last: Outcomes, fetches: 0 .. Confirm]
    <3>1. CASE Finishes
      <4>1. seen'.last \in Outcomes /\ seen' = [seen EXCEPT !.last = seen'.last]
        BY <3>1 DEF Finishes, Over, TInv, Outcomes
      <4>2. QED
        BY <4>1 DEF TInv
    <3>2. CASE Sells
      BY <3>2, ConfigAssumption DEF Sells, Recount, TInv
    <3>3. QED
      BY <2>1, <3>1, <3>2
  <2>3. sale' \in Sale /\ (sale'.at = "done" => sale'.result # "none")
    BY <2>1 DEF Finishes, Sells, TInv
  <2>4. claim' \in {"none", "exit", "manual"} /\ pc' \in {"idle", "selling"}
    BY <2>1 DEF Finishes, Sells, TInv
  <2>5. QED
    BY <2>1, <2>2, <2>3, <2>4, InitialStates DEF Stays, TInv
<1>5. QED
  BY <1>1, <1>2, <1>3, <1>4 DEF LoopStep, Evaluation

LEMMA TypesStep == TInv /\ [Next]_vars => TInv'
<1> SUFFICES ASSUME TInv, [Next]_vars PROVE TInv'
  OBVIOUS
<1>1. CASE ManualClaims \/ Settles
  <2>1. row' \in [status: {"open", "closed"}, qty: 0 .. Qty]
    BY <1>1 DEF ManualClaims, Settles, TInv
  <2>2. QED
    BY <1>1, <2>1 DEF ManualClaims, Settles, Others, TInv
<1>2. ASSUME NEW f \in 0 .. Qty, ManualEnds(f) PROVE TInv'
  <2>1. f \in Nat /\ f <= row.qty
    BY <1>2, PositionAssumption DEF ManualEnds, TInv
  <2>2. row' \in [status: {"open", "closed"}, qty: 0 .. Qty]
    BY <1>2, <2>1, SoldTypes DEF ManualEnds
  <2>3. QED
    BY <1>2, <2>2 DEF ManualEnds, Others, TInv
<1>3. CASE UNCHANGED vars
  BY <1>3 DEF vars, own, TInv, Confirming
<1>4. QED
  BY <1>1, <1>2, <1>3, AroundTypes, SaleTypes, LoopTypes DEF Next

\* Every variable always has its type: the states, books, sells and outcomes of
\* exit_monitor.py for any books and thresholds.
THEOREM TypeCorrect == Spec => []TypeOK
<1>1. Spec => []TInv
  BY InitTypes, TypesStep, PTL DEF Spec
<1>2. QED
  BY <1>1, TypesImply, PTL

-----------------------------------------------------------------------------
(* The peak.                                                               *)

\* The cached book and the snapshots are no better than what was seen of them.
PeakInv ==
    row.status = "open" =>
        Mark(cache.book) <= seen.hi /\ saved <= seen.hi /\ st.peak <= seen.hi

\* A step that fetches nothing, and leaves the peak or drops to 0, one cached or
\* one saved.
LEMMA PeakKept ==
    ASSUME TInv, PeakInv, row'.status = "open" => row.status = "open",
           seen'.hi = seen.hi, saved' = saved, cache'.book \in {cache.book, NoBook},
           st'.peak \in {st.peak, Mark(cache.book), saved, NoPrice}
    PROVE  PeakInv'
<1>1. seen.hi \in Nat /\ Mark(NoBook) = 0
  BY NoBookFacts DEF TInv, NoPrice
<1>2. Mark(cache.book)' = Mark(cache'.book)
  BY DEF Mark
<1>3. ASSUME row'.status = "open"
      PROVE  Mark(cache'.book) <= seen'.hi /\ saved' <= seen'.hi /\ st'.peak <= seen'.hi
  BY <1>1, <1>3 DEF PeakInv, NoPrice
<1>4. QED
  BY <1>2, <1>3 DEF PeakInv

\* No sell opens a closed row.
LEMMA SaleLeavesClosed ==
    ASSUME TInv, SaleStep
    PROVE  /\ row'.status = "open" => row.status = "open"
           /\ row'.status = "open" /\ row.qty > 0 => row'.qty > 0
<1>1. ASSUME NEW f \in 1 .. Qty, SellFills(f)
      PROVE  /\ row'.status = "open" => row.status = "open"
             /\ row'.status = "open" => row'.qty > 0
  <2>1. f \in Nat /\ f <= row.qty /\ row.qty \in Nat
    BY <1>1, PositionAssumption DEF SellFills, Min2, TInv, Sale
  <2>2. /\ row'.status = IF f = row.qty THEN "closed" ELSE row.status
        /\ row'.qty = row.qty - f
    BY <1>1 DEF SellFills
  <2>3. QED
    BY <2>1, <2>2
<1>2. ASSUME NEW why, SellFails(why) PROVE row' = row
  BY <1>2 DEF SellFails
<1>3. CASE SellReads \/ CloseFilled \/ CloseFailed
  BY <1>3 DEF SellReads, CloseFilled, CloseFailed, Returned
<1>4. QED
  BY <1>1, <1>2, <1>3, Zenon DEF SaleStep

LEMMA PeakStep == TInv /\ PeakInv /\ [Next]_vars => PeakInv'
<1> SUFFICES ASSUME TInv, PeakInv, [Next]_vars PROVE PeakInv'
  OBVIOUS
<1>1. CASE \E b \in Books, persist \in BOOLEAN : Fetch(b, persist)
  <2>1. PICK b \in Books, persist \in BOOLEAN : Fetch(b, persist)
    BY <1>1
  <2>2. Mark(b) \in Nat /\ seen.hi \in Nat /\ saved \in Nat /\ st.peak \in Nat
    BY FetchTypes DEF TInv, State
  <2>3. cache'.book = b /\ row' = row
    BY <2>1 DEF Fetch
  <2>4. row.status = "open" => seen'.hi = Max2(seen.hi, Mark(b))
    BY <2>1 DEF Fetch, TInv
  <2>5. saved' \in {saved, Max2(saved, Mark(b))}
    BY <2>1 DEF Fetch
  <2>6. st'.peak \in {st.peak, Max2(st.peak, Mark(b))}
    BY <2>1 DEF Fetch, TInv, State
  <2>7. row.status = "open" =>
          Mark(cache'.book) <= seen'.hi /\ saved' <= seen'.hi /\ st'.peak <= seen'.hi
    BY <2>2, <2>3, <2>4, <2>5, <2>6 DEF Max2, PeakInv
  <2>8. QED
    BY <2>3, <2>7 DEF PeakInv, Mark
<1>2. CASE Evaluation
  <2>1. /\ row' = row /\ saved' = saved /\ cache'.book = cache.book
        /\ st'.peak \in {st.peak, Mark(cache.book)}
        /\ Finishes \/ Sells
    BY <1>2, EvaluationEffect DEF Stays
  <2>2. seen'.hi = seen.hi
    BY <2>1 DEF Finishes, Sells, Recount, TInv
  <2>3. QED
    BY <2>1, <2>2, PeakKept
<1>3. CASE EvalStale
  <2>1. /\ st' = Peaked(st, Decide(st)) /\ cache.book.bids # <<>>
        /\ row' = row /\ saved' = saved /\ cache' = cache /\ seen' = seen
    BY <1>3 DEF EvalStale, Evaluable, Outside
  <2>2. st'.peak \in {st.peak, Mark(cache.book)}
    BY <2>1, DecidedCarries
  <2>3. QED
    BY <2>1, <2>2, PeakKept
<1>4. CASE TickList
  BY <1>4, PeakKept DEF TickList, NoState
<1>5. CASE SaleStep
  <2>1. /\ cache' = cache /\ saved' = saved /\ seen'.hi = seen.hi
        /\ st'.peak \in {st.peak, NoPrice}
    BY <1>5 DEF SaleStep, SellReads, SellFills, SellFails, ThreadOnly, CloseFilled, CloseFailed,
                Returned, Calm, TInv, State
  <2>2. row'.status = "open" => row.status = "open"
    BY <1>5, SaleLeavesClosed
  <2>3. QED
    BY <2>1, <2>2, PeakKept
<1>6. CASE Gone \/ Dropped
  BY <1>6, PeakKept DEF Gone, Dropped, Uncached
<1>7. CASE Ages
  <2>1. cache'.book = cache.book
    BY <1>7 DEF Ages, TInv, Cache
  <2>2. QED
    BY <1>7, <2>1, PeakKept DEF Ages
<1>8. CASE Clock
  <2>1. st'.peak = st.peak
    BY <1>8 DEF Clock, TInv, State
  <2>2. QED
    BY <1>8, <2>1, PeakKept DEF Clock
<1>9. CASE TickRead \/ MarketCloses \/ Stop \/ Drained
  BY <1>9, PeakKept DEF TickRead, MarketCloses, Stop, Drained
<1>10. CASE Restart
  <2>1. st'.peak \in {saved, NoPrice}
    BY <1>10 DEF Restart, NoState
  <2>2. seen'.hi = seen.hi
    BY <1>10 DEF Restart, Recount, TInv
  <2>3. QED
    BY <1>10, <2>1, <2>2, PeakKept DEF Restart
<1>11. CASE ManualClaims \/ Settles \/ \E f \in 0 .. Qty : ManualEnds(f)
  <2>1. row'.status = "open" => row.status = "open"
    BY <1>11 DEF ManualClaims, Settles, ManualEnds, TInv
  <2>2. cache' = cache /\ saved' = saved /\ seen' = seen /\ st' = st
    BY <1>11 DEF ManualClaims, Settles, ManualEnds, Others
  <2>3. QED
    BY <2>1, <2>2, PeakKept
<1>12. CASE UNCHANGED vars
  BY <1>12, PeakKept DEF vars, own
<1>13. QED
  BY <1>1, <1>2, <1>3, <1>4, <1>5, <1>6, <1>7, <1>8, <1>9, <1>10, <1>11, <1>12
  DEF Next, LoopStep, Evaluation

\* The peak the trailing stop trails is the entry or an executable mark of a
\* book of the position's lifetime, in memory, through observe_book and over
\* bootstrap_peaks, whatever the books.
THEOREM PeakAlwaysReal == Spec => []PeakIsReal
<1>1. Init => PeakInv
  <2> SUFFICES ASSUME Init PROVE PeakInv
    OBVIOUS
  <2>1. Mark(cache.book) = 0 /\ saved = Entry /\ seen.hi = Entry /\ Entry \in Nat
    BY NoBookFacts, PositionAssumption DEF Init, NoPrice
  <2>2. st.peak \in {0, Entry}
    BY DEF Init, NoState, NoPrice
  <2>3. QED
    BY <2>1, <2>2 DEF PeakInv
<1>2. PeakInv => PeakIsReal
  BY DEF PeakInv, PeakIsReal
<1>3. QED
  BY InitTypes, TypesStep, PeakStep, <1>1, <1>2, PTL DEF Spec

-----------------------------------------------------------------------------
(* The streak.                                                             *)

\* The streak counts no more fetches than showed the collapse; the one that is
\* cached, when it shows it, is among them, and not in the streak until counted.
StreakInv ==
    /\ st.streak <= seen.fetches
    /\ CollapseNoAsk(cache.book) =>
         seen.fetches >= 1 /\ (~cache.counted => st.streak + 1 <= seen.fetches)

\* A step that fetches nothing and keeps the streak or begins it again.
LEMMA StreakKept ==
    ASSUME TInv, StreakInv, seen'.fetches = seen.fetches,
           \/ cache'.book = cache.book /\ cache'.counted = cache.counted
           \/ cache'.book = cache.book /\ st'.streak = 0
           \/ cache'.book = NoBook,
           st'.streak \in {0, st.streak}
    PROVE  StreakInv'
<1>1. seen.fetches \in Nat /\ st.streak \in Nat
  BY ConfigAssumption DEF TInv, State
<1>2. CollapseNoAsk(cache.book)' <=> CollapseNoAsk(cache'.book)
  BY DEF CollapseNoAsk
<1>3. CollapseNoAsk(cache'.book) => cache'.book = cache.book
  BY NoBookFacts
<1>4. st'.streak <= seen'.fetches
  BY <1>1 DEF StreakInv
<1>5. ASSUME CollapseNoAsk(cache'.book)
      PROVE  seen'.fetches >= 1 /\ (~cache'.counted => st'.streak + 1 <= seen'.fetches)
  <2>1. CASE st'.streak = 0
    BY <1>1, <1>3, <1>5, <2>1 DEF StreakInv
  <2>2. CASE cache'.counted = cache.counted /\ st'.streak = st.streak
    BY <1>1, <1>3, <1>5, <2>2 DEF StreakInv
  <2>3. QED
    BY <1>3, <1>5, <2>1, <2>2, NoBookFacts
<1>6. QED
  BY <1>2, <1>4, <1>5 DEF StreakInv

LEMMA StreakStep == TInv /\ StreakInv /\ [Next]_vars => StreakInv'
<1> SUFFICES ASSUME TInv, StreakInv, [Next]_vars PROVE StreakInv'
  OBVIOUS
<1>1. seen.fetches \in 0 .. Confirm /\ st.streak \in 0 .. Confirm - 1 /\ Confirm \in Nat \ {0}
  BY ConfigAssumption DEF TInv, State
<1>2. CollapseNoAsk(cache.book)' <=> CollapseNoAsk(cache'.book)
  BY DEF CollapseNoAsk
<1>3. CASE \E b \in Books, persist \in BOOLEAN : Fetch(b, persist)
  <2>1. PICK b \in Books, persist \in BOOLEAN : Fetch(b, persist)
    BY <1>3
  <2>2. cache'.book = b
    BY <2>1 DEF Fetch
  <2>3. st'.streak = st.streak
    BY <2>1 DEF Fetch, TInv, State
  <2>4. seen'.fetches = IF CollapseNoAsk(b) THEN Min2(seen.fetches + 1, Confirm)
                        ELSE seen.fetches
    BY <2>1 DEF Fetch, TInv
  <2>5. CASE CollapseNoAsk(b)
    BY <1>1, <1>2, <2>2, <2>3, <2>4, <2>5 DEF StreakInv, Min2
  <2>6. CASE ~CollapseNoAsk(b)
    BY <1>1, <1>2, <2>2, <2>3, <2>4, <2>6 DEF StreakInv
  <2>7. QED
    BY <2>5, <2>6
<1>4. CASE Evaluation
  <2>1. cache'.book = cache.book /\ Streaks /\ (Finishes \/ Sells)
    BY <1>4, EvaluationEffect DEF Stays
  <2>2. CASE Finishes
    <3>1. seen'.fetches = seen.fetches
      BY <2>2 DEF Finishes, TInv
    <3>2. CASE st'.streak = 0
      BY <2>1, <3>1, <3>2, StreakKept
    <3>3. CASE st'.streak = st.streak /\ cache'.counted = cache.counted
      BY <2>1, <3>1, <3>3, StreakKept
    <3>4. CASE /\ CollapseNoAsk(cache.book)
               /\ cache'.counted
               /\ st'.streak = IF cache.counted THEN st.streak ELSE st.streak + 1
      BY <1>1, <1>2, <2>1, <3>1, <3>4 DEF StreakInv
    <3>5. QED
      BY <2>1, <3>2, <3>3, <3>4 DEF Streaks
  <2>3. CASE Sells
    <3>1. st'.streak = 0
      BY <2>3 DEF Sells
    <3>2. seen'.fetches = IF CollapseNoAsk(cache.book) THEN 1 ELSE 0
      BY <2>3 DEF Sells, Recount, TInv
    <3>3. QED
      BY <1>2, <2>1, <3>1, <3>2 DEF StreakInv
  <2>4. QED
    BY <2>1, <2>2, <2>3
<1>5. CASE EvalStale
  <2>1. /\ st' = Peaked(st, Decide(st)) /\ cache.book.bids # <<>>
        /\ cache' = cache /\ seen' = seen
    BY <1>5 DEF EvalStale, Evaluable, Outside
  <2>2. st'.streak = st.streak
    BY <2>1, DecidedCarries DEF Carries
  <2>3. QED
    BY <2>1, <2>2, StreakKept
<1>6. CASE TickList
  BY <1>6, StreakKept DEF TickList, NoState
<1>7. CASE SaleStep
  <2>1. cache' = cache /\ seen'.fetches = seen.fetches /\ st'.streak = st.streak
    BY <1>7 DEF SaleStep, SellReads, SellFills, SellFails, ThreadOnly, CloseFilled, CloseFailed,
                Returned, Calm, TInv, State
  <2>2. QED
    BY <2>1, StreakKept
<1>8. CASE Gone \/ Dropped
  BY <1>8, StreakKept DEF Gone, Dropped, Uncached
<1>9. CASE Ages
  <2>1. cache'.book = cache.book /\ cache'.counted = cache.counted
    BY <1>9 DEF Ages, TInv, Cache
  <2>2. QED
    BY <1>9, <2>1, StreakKept DEF Ages
<1>10. CASE Clock
  <2>1. st'.streak = st.streak
    BY <1>10 DEF Clock, TInv, State
  <2>2. QED
    BY <1>10, <2>1, StreakKept DEF Clock
<1>11. CASE TickRead \/ MarketCloses \/ Stop \/ Drained
  BY <1>11, StreakKept DEF TickRead, MarketCloses, Stop, Drained
<1>12. CASE Restart
  <2>1. st'.streak = 0 /\ cache'.book = NoBook
    BY <1>12 DEF Restart, NoState
  <2>2. seen'.fetches = 0
    BY <1>12, NoBookFacts DEF Restart, Recount, TInv
  <2>3. QED
    BY <1>2, <2>1, <2>2, NoBookFacts DEF StreakInv
<1>13. CASE ManualClaims \/ Settles \/ \E f \in 0 .. Qty : ManualEnds(f)
  BY <1>13, StreakKept DEF ManualClaims, Settles, ManualEnds, Others
<1>14. CASE UNCHANGED vars
  BY <1>14, StreakKept DEF vars, own
<1>15. QED
  BY <1>3, <1>4, <1>5, <1>6, <1>7, <1>8, <1>9, <1>10, <1>11, <1>12, <1>13, <1>14
  DEF Next, LoopStep, Evaluation

\* Only an evaluation starts a sell: on a market that may be sold into, and on
\* a thin book only after the last fetch the streak asks for.
LEMMA SaleStarts ==
    ASSUME TInv, [Next]_vars, StartsSale
    PROVE  Alive /\ Counts
<1>1. CASE Evaluation
  <2>1. Finishes \/ (Sells /\ Alive /\ Counts)
    BY <1>1, EvaluationEffect
  <2>2. ~Finishes
    BY DEF StartsSale, Finishes
  <2>3. QED
    BY <2>1, <2>2
<1>2. CASE SaleStep
  BY <1>2 DEF StartsSale, SaleStep, SellReads, SellFills, SellFails, CloseFilled, CloseFailed,
              Returned, NoSale
<1>3. CASE TickRead \/ TickList \/ EvalStale
  BY <1>3 DEF StartsSale, TickRead, TickList, EvalStale
<1>4. CASE \E b \in Books, persist \in BOOLEAN : Fetch(b, persist)
  BY <1>4 DEF StartsSale, Fetch
<1>5. CASE Gone \/ Dropped \/ Ages \/ MarketCloses \/ Clock \/ Stop \/ Drained
  BY <1>5 DEF StartsSale, Gone, Dropped, Uncached, Ages, MarketCloses, Clock, Stop, Drained
<1>6. CASE Restart
  BY <1>6 DEF StartsSale, Restart, NoSale
<1>7. CASE ManualClaims \/ Settles \/ \E f \in 0 .. Qty : ManualEnds(f)
  BY <1>7 DEF StartsSale, ManualClaims, Settles, ManualEnds, Others
<1>8. CASE UNCHANGED vars
  BY <1>8 DEF StartsSale, vars, own
<1>9. QED
  BY <1>1, <1>2, <1>3, <1>4, <1>5, <1>6, <1>7, <1>8 DEF Next, LoopStep, Evaluation

\* A sell on a thin bid with no ask was preceded by Confirm fetches that showed
\* the collapse, whatever the books, the pauses and the failures in between: a
\* frozen snapshot never completes the streak (_track_thin_streak).
THEOREM FrozenBookHolds == Spec => FrozenBookNeverFires
<1>1. Init => StreakInv
  <2> SUFFICES ASSUME Init PROVE StreakInv
    OBVIOUS
  <2>1. st.streak = 0 /\ seen.fetches = 0 /\ cache.book = NoBook
    BY DEF Init, NoState
  <2>2. QED
    BY <2>1, NoBookFacts DEF StreakInv
<1>2. TInv /\ StreakInv /\ [Next]_vars =>
        [StartsSale /\ V1 /\ cache.age = "fresh" /\ ThinNoAsk => seen.fetches = Confirm]_vars
  <2> SUFFICES ASSUME TInv, StreakInv, [Next]_vars, StartsSale, V1, cache.age = "fresh", ThinNoAsk
               PROVE  seen.fetches = Confirm
    OBVIOUS
  <2>1. CollapseNoAsk(cache.book) /\ ~(PriorStreak(st) + 1 < Confirm)
    BY SaleStarts DEF Counts
  <2>2. /\ seen.fetches \in 0 .. Confirm /\ st.streak \in 0 .. Confirm - 1
        /\ Confirm \in Nat \ {0}
    BY ConfigAssumption DEF TInv, State
  <2>3. /\ st.streak <= seen.fetches /\ seen.fetches >= 1
        /\ ~cache.counted => st.streak + 1 <= seen.fetches
    BY <2>1 DEF StreakInv
  <2>4. CASE cache.counted /\ st.streak > 0
    BY <2>1, <2>2, <2>4 DEF PriorStreak
  <2>5. CASE cache.counted /\ ~(st.streak > 0)
    BY <2>1, <2>2, <2>3, <2>5 DEF PriorStreak
  <2>6. CASE ~cache.counted
    BY <2>1, <2>2, <2>3, <2>6 DEF PriorStreak
  <2>7. QED
    BY <2>4, <2>5, <2>6
<1>3. QED
  BY InitTypes, TypesStep, StreakStep, <1>1, <1>2, PTL DEF Spec, FrozenBookNeverFires

\* No sell starts on a market the venue calls over, nor on a quote that stopped
\* updating, on whatever path the decision was reached (_confirm_close,
\* _evaluate).
THEOREM NeverSellsIntoDead == Spec => NeverSellsDead
<1>1. TInv /\ [Next]_vars =>
        [StartsSale => /\ ~cache.gone
                       /\ cache.age # "old"
                       /\ market = "closed" => cache.age = "fresh"]_vars
  BY SaleStarts DEF Alive
<1>2. QED
  BY InitTypes, TypesStep, <1>1, PTL DEF Spec, NeverSellsDead

-----------------------------------------------------------------------------
(* The exit log.                                                           *)

Asleep == pc \in {"selling", "draining", "down"}

\* The row is closed and no sweep is left that could evaluate it.
DeadEnd ==
    /\ row.status = "closed"
    /\ sale = NoSale
    /\ pc \in {"idle", "down"} \/ (pc = "list" /\ held = 0)

\* The position still knows the outcome it logged last.
LogInv ==
    /\ sale # NoSale => Asleep
    /\ row.status = "open" => row.qty > 0
    /\ pc = "list" /\ held = 0 => row.status # "open"
    /\ seen.last \in Held => st.hold = seen.last \/ Asleep \/ DeadEnd
    /\ seen.last = "dust_remainder" => st.dust \/ Asleep \/ DeadEnd
    /\ seen.last \in Failures => st.err = seen.last \/ DeadEnd
    /\ seen.last = Over => DeadEnd

\* The outcomes are told apart.
LEMMA OutcomesDiffer ==
    /\ Held \cap Failures = {}
    /\ \A o \in {"none", "ok", "within", "dust_remainder", "exit_in_flight", Over} :
         o \notin Held /\ o \notin Failures
BY DEF Held, Failures, Over

\* A step that leaves the position's memory alone, and the row closed if it was.
LEMMA LogKept ==
    ASSUME TInv, LogInv,
           seen'.last = seen.last, st'.hold = st.hold, st'.err = st.err, st.dust => st'.dust,
           row'.status = "open" => row.status = "open" /\ row'.qty > 0,
           row'.status \in {"open", "closed"},
           sale # NoSale => Asleep',
           sale = NoSale => sale' = NoSale,
           Asleep => Asleep',
           \/ pc' = pc /\ held' = held
           \/ pc' \in {"draining", "down"}
           \/ pc = "list" /\ pc' = "eval" /\ held > 0
           \/ pc = "eval" /\ pc' = "confirm",
           DeadEnd => (pc' = pc /\ held' = held) \/ pc' = "down"
    PROVE  LogInv'
<1>1. DeadEnd => DeadEnd'
  BY DEF DeadEnd
<1>2. (row.status = "open" => row.qty > 0)' /\ (sale # NoSale => Asleep)'
  <2>1. sale' # NoSale => Asleep'
    OBVIOUS
  <2>2. QED
    BY <2>1
<1>3. pc' = "list" /\ held' = 0 => row'.status # "open"
  BY DEF LogInv
<1>4. QED
  BY <1>1, <1>2, <1>3 DEF LogInv

LEMMA LogStep == TInv /\ LogInv /\ [Next]_vars => LogInv'
<1> SUFFICES ASSUME TInv, LogInv, [Next]_vars PROVE LogInv'
  OBVIOUS
<1>1. /\ row.status \in {"open", "closed"} /\ row.qty \in 0 .. Qty
      /\ (row.status = "open" => row.qty > 0)
  BY DEF TInv, LogInv
<1>2. CASE Evaluation
  <2>1. /\ pc \in {"eval", "confirm"} /\ row' = row /\ Stays
        /\ Finishes \/ Sells
    BY <1>2, EvaluationEffect
  <2>2. ~Asleep /\ ~DeadEnd /\ sale = NoSale
    BY <2>1 DEF Asleep, DeadEnd, LogInv
  <2>3. CASE Finishes
    <3>1. pc' = "idle" /\ sale' = NoSale /\ ~Asleep'
      BY <2>2, <2>3 DEF Finishes, Asleep
    <3>2. /\ (sale # NoSale => Asleep)'
          /\ (row.status = "open" => row.qty > 0)'
          /\ (pc = "list" /\ held = 0 => row.status # "open")'
      BY <1>1, <2>1, <3>1
    <3>3. CASE seen'.last = seen.last /\ st'.hold = st.hold /\ st'.err = st.err
      <4>1. seen.last # Over
        BY <2>2 DEF LogInv
      <4>2. QED
        BY <2>1, <2>2, <3>2, <3>3, <4>1 DEF LogInv, Stays
    <3>4. CASE seen'.last \in Held /\ st'.hold = seen'.last
      BY <3>2, <3>4, OutcomesDiffer DEF LogInv
    <3>5. CASE seen'.last \in {"within", "exit_in_flight"}
      BY <3>2, <3>5, OutcomesDiffer DEF LogInv, Over
    <3>6. CASE seen'.last = Over /\ row.status # "open"
      <4>1. DeadEnd'
        BY <1>1, <2>1, <3>1, <3>6 DEF DeadEnd
      <4>2. QED
        BY <3>2, <3>6, <4>1 DEF LogInv
    <3>7. CASE seen'.last = "dust_remainder" /\ st'.dust
      BY <3>2, <3>7, OutcomesDiffer DEF LogInv, Over
    <3>8. QED
      BY <2>3, <3>3, <3>4, <3>5, <3>6, <3>7 DEF Finishes
  <2>4. CASE Sells
    <3>1. pc' = "selling" /\ Asleep' /\ seen'.last = seen.last /\ st'.err = st.err
      BY <2>4 DEF Sells, Asleep, Recount, TInv
    <3>2. QED
      BY <1>1, <2>1, <2>2, <3>1 DEF LogInv
  <2>5. QED
    BY <2>1, <2>3, <2>4
<1>3. CASE EvalStale
  <2>1. /\ pc = "eval" /\ pc' = "confirm" /\ row' = row /\ sale' = sale /\ seen' = seen
        /\ held' = held
        /\ st' = Peaked(st, Decide(st)) /\ cache.book.bids # <<>>
    BY <1>3 DEF EvalStale, Evaluable, Outside
  <2>2. st'.hold = st.hold /\ st'.err = st.err /\ st'.dust = st.dust
    BY <2>1, DecidedCarries DEF Carries
  <2>3. ~Asleep /\ ~DeadEnd /\ sale = NoSale
    BY <2>1 DEF Asleep, DeadEnd, LogInv
  <2>4. QED
    BY <1>1, <2>1, <2>2, <2>3, LogKept
<1>4. CASE TickRead
  <2>1. /\ pc = "idle" /\ pc' = "list" /\ row' = row /\ sale' = sale /\ seen' = seen /\ st' = st
        /\ held' = IF row.status = "open" THEN row.qty ELSE 0
    BY <1>4 DEF TickRead
  <2>2. ~Asleep /\ sale = NoSale
    BY <2>1 DEF Asleep, LogInv
  <2>3. DeadEnd => DeadEnd'
    BY <2>1 DEF DeadEnd
  <2>4. (pc = "list" /\ held = 0 => row.status # "open")'
    BY <1>1, <2>1
  <2>5. QED
    BY <2>1, <2>2, <2>3, <2>4 DEF LogInv
<1>5. CASE TickList
  <2>1. /\ pc = "list" /\ row' = row /\ sale' = sale /\ seen' = seen /\ held' = held
        /\ sale = NoSale /\ ~Asleep
    BY <1>5 DEF TickList, LogInv, Asleep
  <2>2. CASE held > 0
    <3>1. pc' = "eval" /\ st' = st
      BY <1>5, <2>2 DEF TickList
    <3>2. ~DeadEnd
      BY <2>1, <2>2 DEF DeadEnd
    <3>3. QED
      BY <1>1, <2>1, <2>2, <3>1, <3>2, LogKept
  <2>3. CASE ~(held > 0)
    <3>1. held = 0 /\ pc' = "idle"
      BY <1>5, <2>3 DEF TickList, TInv
    <3>2. DeadEnd'
      BY <1>1, <2>1, <3>1 DEF DeadEnd, LogInv
    <3>3. QED
      BY <1>1, <2>1, <3>1, <3>2 DEF LogInv
  <2>4. QED
    BY <2>2, <2>3
<1>6. CASE SellReads \/ (\E f \in 1 .. Qty : SellFills(f))
           \/ (\E why \in {"live_error", "resting_order_pending"} : SellFails(why))
  <2>1. /\ pc' = pc /\ held' = held /\ seen' = seen /\ st' = st /\ sale # NoSale
    <3>1. ThreadOnly /\ sale.at # "none"
      BY <1>6 DEF SellReads, SellFills, SellFails
    <3>2. QED
      BY <3>1 DEF ThreadOnly, NoSale
  <2>2. SaleStep
    BY <1>6 DEF SaleStep
  <2>3. /\ row'.status = "open" => row.status = "open" /\ row'.qty > 0
        /\ row'.status \in {"open", "closed"}
    BY <1>1, <2>2, SaleLeavesClosed, TypesStep DEF TInv
  <2>4. Asleep /\ Asleep' /\ ~DeadEnd
    BY <2>1 DEF LogInv, Asleep, DeadEnd
  <2>5. QED
    BY <2>1, <2>3, <2>4, LogKept
<1>7. CASE CloseFilled \/ CloseFailed
  <2>1. /\ Returned /\ sale # NoSale
        /\ \/ seen'.last = "ok"
           \/ seen'.last \in Failures /\ st'.err = seen'.last
    <3>1. CASE CloseFilled
      BY <3>1 DEF CloseFilled, NoSale, TInv
    <3>2. CASE CloseFailed
      <4>1. sale.result \in Failures /\ st'.err = sale.result /\ seen'.last = sale.result
        BY <3>2 DEF CloseFailed, TInv, Sale, State
      <4>2. QED
        BY <3>2, <4>1 DEF CloseFailed, NoSale
    <3>3. QED
      BY <1>7, <3>1, <3>2
  <2>2. /\ sale' = NoSale /\ row' = row /\ pc' \in {"idle", pc} /\ pc # "list"
    BY <2>1 DEF Returned, LogInv, Asleep
  <2>3. QED
    BY <1>1, <2>1, <2>2, OutcomesDiffer DEF LogInv, Over
<1>8. CASE \E b \in Books, persist \in BOOLEAN : Fetch(b, persist)
  <2>1. PICK b \in Books, persist \in BOOLEAN : Fetch(b, persist)
    BY <1>8
  <2>2. /\ row' = row /\ sale' = sale /\ pc' = pc /\ held' = held
        /\ seen'.last = seen.last
        /\ st'.hold = st.hold /\ st'.err = st.err /\ st'.dust = st.dust
    BY <2>1 DEF Fetch, TInv, State
  <2>3. Asleep' = Asleep
    BY <2>2 DEF Asleep
  <2>4. QED
    BY <1>1, <2>2, <2>3, LogKept DEF LogInv
<1>9. CASE Gone \/ Dropped \/ Ages \/ MarketCloses \/ Clock
  <2>1. /\ row' = row /\ sale' = sale /\ pc' = pc /\ held' = held /\ seen' = seen
        /\ st'.hold = st.hold /\ st'.err = st.err /\ st'.dust = st.dust
    BY <1>9 DEF Gone, Dropped, Uncached, Ages, MarketCloses, Clock, TInv, State
  <2>2. Asleep' = Asleep
    BY <2>1 DEF Asleep
  <2>3. QED
    BY <1>1, <2>1, <2>2, LogKept DEF LogInv
<1>10. CASE Stop
  <2>1. /\ row' = row /\ sale' = sale /\ seen' = seen /\ st' = st
        /\ pc' = IF sale = NoSale THEN "down" ELSE "draining"
    BY <1>10 DEF Stop
  <2>2. Asleep' /\ (DeadEnd => pc' = "down")
    BY <2>1 DEF Asleep, DeadEnd
  <2>3. QED
    BY <1>1, <2>1, <2>2, LogKept
<1>11. CASE Drained
  <2>1. /\ row' = row /\ sale' = sale /\ seen' = seen /\ st' = st
        /\ pc' = "down" /\ Asleep'
    BY <1>11 DEF Drained, Asleep
  <2>2. QED
    BY <1>1, <2>1, LogKept
<1>12. CASE Restart
  <2>1. seen'.last = "none" /\ sale' = NoSale /\ pc' = "idle" /\ row' = row
    BY <1>12 DEF Restart, Recount, TInv
  <2>2. QED
    BY <1>1, <2>1, OutcomesDiffer DEF LogInv, Over
<1>13. CASE ManualClaims \/ Settles \/ \E f \in 0 .. Qty : ManualEnds(f)
  <2>1. /\ row'.status = "open" => (row.status = "open" /\ row'.qty > 0)
        /\ row'.status \in {"open", "closed"}
    <3>1. ASSUME NEW f \in 0 .. Qty, ManualEnds(f)
          PROVE  /\ row'.status = "open" => row.status = "open" /\ row'.qty > 0
                 /\ row'.status \in {"open", "closed"}
      <4>1. /\ f <= row.qty /\ f \in Nat
            /\ row'.status = IF f = row.qty THEN "closed" ELSE row.status
            /\ row'.qty = row.qty - f
        BY <1>1, <3>1, PositionAssumption DEF ManualEnds
      <4>2. QED
        BY <1>1, <4>1
    <3>2. QED
      BY <1>1, <1>13, <3>1 DEF ManualClaims, Settles, TInv
  <2>2. /\ sale' = sale /\ pc' = pc /\ held' = held /\ seen' = seen /\ st' = st
    BY <1>13 DEF ManualClaims, Settles, ManualEnds, Others
  <2>3. Asleep' = Asleep
    BY <2>2 DEF Asleep
  <2>4. QED
    BY <2>1, <2>2, <2>3, LogKept DEF LogInv
<1>14. CASE UNCHANGED vars
  BY <1>14 DEF vars, own, LogInv, Asleep, DeadEnd
<1>15. QED
  BY <1>2, <1>3, <1>4, <1>5, <1>6, <1>7, <1>8, <1>9, <1>10, <1>11, <1>12, <1>13, <1>14
  DEF Next, LoopStep, SaleStep, Evaluation

\* A hold, a dust remainder, a failed sell or a lost row is never logged twice in
\* a row, across refreshed books, sells, other sellers, stops and restarts
\* (_hold_once, _record_close_failure, the dust marker).
THEOREM LogsOnce == Spec => LoggedOnce
<1>1. Init => LogInv
  <2> SUFFICES ASSUME Init PROVE LogInv
    OBVIOUS
  <2>1. sale = NoSale /\ row.qty > 0 /\ pc = "idle" /\ seen.last = "none"
    BY PositionAssumption DEF Init
  <2>2. QED
    BY <2>1, OutcomesDiffer DEF LogInv, Over
<1>2. TInv /\ LogInv /\ [Next]_vars =>
        [log'.verdict \in {"skip", "error"} /\ log'.reason # "exit_in_flight"
            => log'.reason # seen.last]_vars
  <2> SUFFICES ASSUME TInv, LogInv, [Next]_vars, vars' # vars,
                      log'.verdict \in {"skip", "error"}, log'.reason # "exit_in_flight"
               PROVE  log'.reason # seen.last
    BY Zenon
  <2>1. log' # NoRow
    BY DEF NoRow
  <2>2. CASE Evaluation
    <3>1. pc \in {"eval", "confirm"} /\ Finishes
      BY <2>1, <2>2, EvaluationEffect DEF Sells
    <3>2. ~Asleep /\ ~DeadEnd
      BY <3>1 DEF Asleep, DeadEnd
    <3>3. CASE seen'.last \in Held /\ log' = HoldRow(st, seen'.last)
      <4>1. log'.reason = seen'.last /\ st.hold # seen'.last
        BY <2>1, <3>3 DEF HoldRow, Row
      <4>2. QED
        BY <3>2, <3>3, <4>1 DEF LogInv
    <3>4. CASE log' = Row("skip", Over)
      <4>1. log'.reason = Over
        BY <3>4 DEF Row
      <4>2. QED
        BY <3>2, <4>1 DEF LogInv
    <3>5. CASE log' = IF st.dust THEN NoRow ELSE Row("skip", "dust_remainder")
      <4>1. log'.reason = "dust_remainder" /\ ~st.dust
        BY <2>1, <3>5 DEF Row
      <4>2. QED
        BY <3>2, <4>1 DEF LogInv
    <3>6. CASE log' = Row("skip", "exit_in_flight")
      BY <3>6 DEF Row
    <3>7. QED
      BY <2>1, <3>1, <3>3, <3>4, <3>5, <3>6 DEF Finishes
  <2>3. CASE CloseFailed
    <3>1. sale.result \in Failures /\ sale # NoSale
      BY <2>3 DEF CloseFailed, TInv, Sale, NoSale
    <3>2. log'.reason = sale.result /\ st.err # sale.result
      BY <2>1, <2>3 DEF CloseFailed, Row
    <3>3. QED
      BY <3>1, <3>2 DEF LogInv, DeadEnd
  <2>4. CASE CloseFilled
    BY <2>4 DEF CloseFilled, Row
  <2>5. CASE TickRead \/ TickList \/ EvalStale
    BY <2>1, <2>5 DEF TickRead, TickList, EvalStale
  <2>6. CASE SellReads \/ (\E f \in 1 .. Qty : SellFills(f))
             \/ (\E why \in {"live_error", "resting_order_pending"} : SellFails(why))
    BY <2>1, <2>6 DEF SellReads, SellFills, SellFails
  <2>7. CASE \E b \in Books, persist \in BOOLEAN : Fetch(b, persist)
    BY <2>1, <2>7 DEF Fetch
  <2>8. CASE Gone \/ Dropped \/ Ages \/ MarketCloses \/ Clock \/ Stop \/ Drained \/ Restart
    BY <2>1, <2>8 DEF Gone, Dropped, Uncached, Ages, MarketCloses, Clock, Stop, Drained, Restart
  <2>9. CASE ManualClaims \/ Settles \/ \E f \in 0 .. Qty : ManualEnds(f)
    BY <2>1, <2>9 DEF ManualClaims, Settles, ManualEnds
  <2>10. QED
    BY <2>2, <2>3, <2>4, <2>5, <2>6, <2>7, <2>8, <2>9 DEF Next, LoopStep, SaleStep, Evaluation
<1>3. QED
  BY InitTypes, TypesStep, LogStep, <1>1, <1>2, PTL DEF Spec, LoggedOnce
=============================================================================
