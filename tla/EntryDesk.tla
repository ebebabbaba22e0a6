----------------------------- MODULE EntryDesk -----------------------------
(***************************************************************************)
(* The entry section and the paper buy behind it, over the ledger.  One    *)
(* thread takes a decision in steps - a side from the two books, the open  *)
(* positions, the history, the price, the size, the fill - and reads       *)
(* something new at every step, while positions are sold in whole or in    *)
(* part or reconciled, and while the books and the catalog move on.  A     *)
(* book or a fee rate is therefore whatever it is at the read that needs   *)
(* it.                                                                     *)
(* Prices are in cents, quantities in units of 1/Share share.              *)
(***************************************************************************)
EXTENDS Integers, Sequences, FiniteSets

CONSTANTS
    Version,    \* versions of edge_threshold: 0, 1 or both
    Markets,
    Quotes,     \* what a book shows: ask (0: none), bid, and the firm bid (0: none)
    Fairs,      \* p_model, in percent
    Rate,       \* taker_fee_rate where it is known, in percent
    Share,
    SideLock, RequireNews,          \* side_lock, require_news_direction
    MinEdge, MaxSpread, SpreadPct,  \* min_edge, max_spread, max_spread_pct
    Base, Scale,                    \* order_size_usd, size_edge_multiplier_max
    HeatCap,                        \* heat_cap_usd
    KillStreak, KillDaily, KillDrawdown, Day,
    Lockout, Cooldown,  \* same_market_lifetime_lockout, same_market_cooldown_minutes
    MinNotional,        \* MIN_NOTIONAL_USD
    Lefts,              \* what a partial sell may leave of a position
    MaxRows, MaxNow     \* bounds: rows of the table; the clock does not tick past MaxNow

VARIABLES
    version,  \* the version of the section
    row,      \* the position table, in the order of its ids
    dec,      \* the decision in progress
    now,      \* the clock; no two rows share a stamp
    tally     \* history: losing streak, PnL and its peak, in the order of the closes

vars == <<version, row, dec, now, tally>>

---------------------------------------------------------------------------
(* Types                                                                    *)

Side == {"yes", "no"}
Other(s) == IF s = "yes" THEN "no" ELSE "yes"

Pc == {"idle", "opens", "history", "price", "fill"}

\* cost and held: the open exposure and the sides held, as they were read; at:
\* when the history was read.
NoDecision == [pc |-> "idle", market |-> 0, side |-> "yes", fair |-> 0, ask |-> 0,
               bid |-> 0, cost |-> 0, held |-> {}, notional |-> 0, at |-> 0]

\* closed is meaningless while the row is open.
Row == [market: Markets, side: Side, qty: Nat, price: Nat, opened: Nat, judged: Nat,
        closed: Nat, pnl: Int, how: {"open", "sold", "reconciled"}]

Verdict == [pc: Pc, market: Markets \cup {0}, side: Side, fair: Fairs \cup {0}, ask: Nat,
            bid: Nat, cost: Nat, held: SUBSET Side, notional: Nat, at: Nat]

TypeOK ==
    /\ version \in Version
    /\ row \in Seq(Row)
    /\ dec \in Verdict
    /\ dec.pc # "idle" => dec.market \in Markets
    /\ dec.pc = "fill" => dec.ask > 0
    /\ now \in Nat
    /\ tally \in [streak: Nat, cum: Int, peak: Int] /\ tally.peak >= tally.cum

Init ==
    /\ version \in Version
    /\ row = <<>>
    /\ dec = NoDecision
    /\ now = 1
    /\ tally = [streak |-> 0, cum |-> 0, peak |-> 0]

Larger(m, n) == IF m > n THEN m ELSE n
Smaller(m, n) == IF m < n THEN m ELSE n

---------------------------------------------------------------------------
(* The ledger                                                               *)

IsOpen(r) == r.how = "open"
IsDust(r) == r.qty < Share
OpenRows == {n \in DOMAIN row : IsOpen(row[n])}
ClosedRows == DOMAIN row \ OpenRows

\* The sums of the beginnings of a sequence, and that of all of it.
Sums(v) == LET s[n \in 0 .. Len(v)] == IF n = 0 THEN 0 ELSE s[n - 1] + v[n] IN s
Sum(v) == Sums(v)[Len(v)]

\* What a position costs while it is open.
Cost(r) == IF IsOpen(r) THEN (r.qty * r.price) \div Share ELSE 0
OpenCost == Sum([n \in DOMAIN row |-> Cost(row[n])])

\* A position closes: by a sell, or reconciled with no gain.
Closes(n, how, gain) ==
    LET pnl == row[n].pnl + gain
    IN  /\ row' = [row EXCEPT ![n].how = how, ![n].closed = now, ![n].pnl = pnl]
        /\ now' = now + 1
        /\ tally' = [streak |-> IF pnl < 0 THEN tally.streak + 1
                                ELSE IF how = "reconciled" THEN tally.streak ELSE 0,
                     cum |-> tally.cum + pnl,
                     peak |-> Larger(tally.peak, tally.cum + pnl)]
        /\ UNCHANGED <<version, dec>>

Sells(n, bid) == Closes(n, "sold", row[n].qty * (bid - row[n].price))

\* A partial fill: what is left stays open, below one share as dust no order can sell.
SellsPart(n, bid, left) ==
    /\ ~IsDust(row[n]) /\ left < row[n].qty
    /\ row' = [row EXCEPT ![n].qty = left,
                          ![n].pnl = @ + (row[n].qty - left) * (bid - row[n].price)]
    /\ UNCHANGED <<version, dec, now, tally>>

---------------------------------------------------------------------------
(* The side                                                                 *)

\* taker_fee_per_share; an unknown rate charges nothing.
FeePerShare(known, p) == IF known THEN (Rate * p * (100 - p)) \div 10000 ELSE 0

\* _edge: the held side's probability over the price, net of the fee in v1.
Edge(fair, s, ask, known) ==
    (IF s = "yes" THEN fair ELSE 100 - fair) - ask
      - (IF version = 1 THEN FeePerShare(known, ask) ELSE 0)

\* _quote_bid: the first bid with size in v1, the first bid in v0.
QuoteBid(q) == IF version = 1 THEN q.firm ELSE q.bid

Priceable(q) == q.ask > 0 /\ q.bid > 0 /\ QuoteBid(q) > 0

Sides == IF SideLock THEN {"yes"} ELSE Side

\* v0 takes the likelier side, before it reads any book.
ChooseByModel(m, fair) ==
    /\ version = 0
    /\ LET s == IF fair >= 50 THEN "yes" ELSE "no"
       IN  /\ s \in Sides
           /\ dec' = [NoDecision EXCEPT !.pc = "opens", !.market = m, !.side = s,
                                        !.fair = fair]

\* v1 takes the side with the larger edge of those whose book is fresh and can
\* be priced - the first on a tie - and keeps the quote that won.  A fee rate known
\* when the book is read may be unknown again in the edge, which looks it up anew.
ChooseByEdge(m, fair) ==
    /\ version = 1
    /\ \E q \in [Side -> Quotes], known \in [Side -> BOOLEAN], fresh \in SUBSET Side,
          news \in IF RequireNews THEN Side \cup {"unclear"} ELSE {"unclear"} :
         LET priced == {s \in Sides \cap fresh : Priceable(q[s])}
             edge(s) == Edge(fair, s, q[s].ask, known[s])
         IN  \E s \in priced :
               /\ \A o \in priced : edge(o) <= edge(s)
               /\ s = "no" /\ "yes" \in priced => edge("yes") < edge("no")
               /\ RequireNews => news = s
               /\ dec' = [NoDecision EXCEPT
                            !.pc = "opens", !.market = m, !.side = s, !.fair = fair,
                            !.ask = q[s].ask, !.bid = QuoteBid(q[s])]

Choose(m, fair) ==
    /\ dec.pc = "idle"
    /\ ChooseByModel(m, fair) \/ ChooseByEdge(m, fair)
    /\ UNCHANGED <<version, row, now, tally>>

---------------------------------------------------------------------------
(* The portfolio gates                                                      *)

Goes(d) == dec' = d /\ UNCHANGED <<version, row, now, tally>>
Skips == Goes(NoDecision)

\* The open positions are read once, for the heat cap and the opposite side.
ReadsOpens ==
    /\ dec.pc = "opens"
    /\ LET cost == OpenCost
       IN  IF HeatCap > 0 /\ cost >= HeatCap THEN Skips
           ELSE Goes([dec EXCEPT
                        !.pc = "history", !.cost = cost,
                        !.held = {row[n].side : n \in
                                    {k \in OpenRows : row[k].market = dec.market
                                                        /\ ~IsDust(row[k])}}])

\* Variant: the history as the table has it, by the order of the opens.
OpenedAt(r) == r.opened

\* The history is sorted by this.
ClosedAt(r) == r.closed

\* Losses since the last other outcome; a reconciled close without one counts for neither.
Streak ==
    {n \in ClosedRows : /\ row[n].pnl < 0
                        /\ \A k \in ClosedRows : ClosedAt(row[k]) > ClosedAt(row[n]) =>
                             row[k].pnl < 0 \/ row[k].how = "reconciled"}

PnlSince(t) ==
    Sum([n \in DOMAIN row |->
           IF IsOpen(row[n]) \/ ClosedAt(row[n]) < t THEN 0 ELSE row[n].pnl])

\* _kill_switch_check: each brake is off at zero.  The running PnL is as far below
\* its peak as it has lost since some close.
Killed ==
    /\ ClosedRows # {}
    /\ \/ KillStreak > 0 /\ Cardinality(Streak) >= KillStreak
       \/ KillDaily > 0 /\ PnlSince(now - Day) <= -KillDaily
       \/ /\ KillDrawdown > 0
          /\ \E n \in ClosedRows : PnlSince(ClosedAt(row[n])) <= -KillDrawdown

\* Variant: the side bought, not the other one.
OpposedSame == version = 1 /\ dec.side \in dec.held

\* block_opposite_side, of v1.
Opposed == version = 1 /\ Other(dec.side) \in dec.held

OnSide == {n \in DOMAIN row : row[n].market = dec.market /\ row[n].side = dec.side}

Stamp(r) == IF IsOpen(r) THEN r.opened ELSE r.closed

\* Variant: a position counts from when it was opened.
HotFromOpen == \E n \in OnSide : row[n].opened > now - Cooldown

\* _in_cooldown: the newest row of the side decides.
Hot == \E n \in OnSide : /\ \A k \in OnSide : k <= n
                         /\ Stamp(row[n]) > now - Cooldown

\* The table is read: kill switch, opposite side, lockout or cooldown.
ReadsHistory ==
    /\ dec.pc = "history"
    /\ IF \/ Killed \/ Opposed
          \/ Lockout /\ OnSide # {}
          \/ ~Lockout /\ Cooldown > 0 /\ Hot
       THEN Skips
       ELSE Goes([dec EXCEPT !.pc = "price", !.at = now])

---------------------------------------------------------------------------
(* Price, size and fill                                                     *)

Wanted(edge) ==
    IF Scale <= 1 \/ MinEdge = 0 THEN Base
    ELSE Larger(Base, Smaller((Base * edge) \div MinEdge, Base * Scale))

\* Variant: the cap is left to the gate.
ScaledUncapped(edge, cost) == Wanted(edge)

\* _scaled_notional: the multiplier is bounded by the headroom, never below one.
Scaled(edge, cost) ==
    IF HeatCap > 0 /\ HeatCap - cost < Wanted(edge)
    THEN Larger(Base, Smaller(HeatCap - cost, Wanted(edge))) ELSE Wanted(edge)

PriceGate(edge, ask, bid) ==
    /\ edge >= MinEdge
    /\ ask - bid <= MaxSpread
    /\ version = 1 => 100 * (ask - bid) <= SpreadPct * ask

\* v0 reads its quote now, v1 has it; the fee rate is looked up again.  A token
\* that has run up is a late buy.
Prices ==
    /\ dec.pc = "price"
    /\ \E q \in IF version = 1 THEN {[ask |-> dec.ask, bid |-> dec.bid]}
                ELSE {[ask |-> b.ask, bid |-> b.bid] : b \in Quotes},
          known, late \in BOOLEAN :
         LET edge == Edge(dec.fair, dec.side, q.ask, known)
         IN  IF q.ask > 0 /\ q.bid > 0 /\ PriceGate(edge, q.ask, q.bid) /\ ~late
             THEN Goes([dec EXCEPT !.pc = "fill", !.ask = q.ask, !.bid = q.bid,
                                   !.notional = Scaled(edge, dec.cost)])
             ELSE Skips

\* A size in whole units, or nothing below one share.
Quantized(qty) == IF qty < Share THEN 0 ELSE qty

\* PaperExecutor.execute_buy, at the ask of now and as deep as it goes.
Fills ==
    /\ dec.pc = "fill"
    /\ \E q \in Quotes, depth \in {Share, Base * Scale * Share} :
         LET qty == Quantized(Smaller((dec.notional * Share) \div dec.ask, depth))
             taken == \E n \in OpenRows : n \in OnSide
         IN  IF q.ask = 0 \/ taken \/ qty * q.ask < MinNotional * Share
             THEN Skips
             ELSE /\ row' = Append(row, [market |-> dec.market, side |-> dec.side,
                                         qty |-> qty, price |-> q.ask, opened |-> now,
                                         judged |-> dec.at, closed |-> 0, pnl |-> 0,
                                         how |-> "open"])
                  /\ now' = now + 1
                  /\ dec' = NoDecision
                  /\ UNCHANGED <<version, tally>>

Tick ==
    /\ now < MaxNow
    /\ now' = now + 1
    /\ UNCHANGED <<version, row, dec, tally>>

Decision ==
    \/ \E m \in Markets, fair \in Fairs : Choose(m, fair)
    \/ ReadsOpens \/ ReadsHistory \/ Prices \/ Fills

Exits ==
    \E n \in OpenRows :
      \/ Closes(n, "reconciled", 0)
      \/ \E q \in Quotes : /\ q.bid > 0
                           /\ \/ Sells(n, q.bid)
                              \/ \E left \in Lefts : SellsPart(n, q.bid, left)

\* The table is full at MaxRows, and the model ends there.
Next == Len(row) < MaxRows /\ (Decision \/ Exits \/ Tick)

Spec == Init /\ [][Next]_vars

---------------------------------------------------------------------------
(* Properties                                                               *)

\* A buy scaled above the base size takes the exposure past the cap by no more than
\* the ask has risen, over the size bought, since the order was sized (_scaled_notional:
\* "heat_cap_usd then bounds the scaled notional").  Not one cent comes from what was
\* read before: the exposure is that of the table once the row is in it, and the order
\* was sized on a sum some steps old.  The fill itself reads the book again and takes
\* its ask, whatever it was when the quantity was worked out (execute_buy).
HeatHeld ==
    [][HeatCap > 0 /\ Len(row') > Len(row) /\ dec.notional # Base =>
         LET new == row'[Len(row')]
         IN  Share * OpenCost' <= Share * HeatCap + new.qty * Larger(0, new.price - dec.ask)]_vars

\* No decision gets past the brakes on the losing streak and the drawdown, both
\* taken in the order of the closes, whatever the order the positions were
\* opened in (_kill_switch_check).
BrakesHold ==
    [][dec.pc = "history" /\ dec'.pc = "price" =>
         /\ KillStreak > 0 => tally.streak < KillStreak
         /\ KillDrawdown > 0 => tally.peak - tally.cum < KillDrawdown]_vars

\* YES and NO of one market are never both held, a remainder below one share
\* apart (v1: "Holding YES and NO together locks in both spreads as a loss").
NeverBothSides ==
    version = 1 =>
      \A i, k \in OpenRows : row[i].market = row[k].market /\ row[i].side # row[k].side =>
                               IsDust(row[i]) \/ IsDust(row[k])

\* A side is bought again no sooner than the cooldown after its last position
\* closed - or opened, if it closed only after the history was read.
CooldownHeld ==
    \A k \in DOMAIN row : \A i \in 1 .. (k - 1) :
      row[i].market = row[k].market /\ row[i].side = row[k].side =>
        LET read == row[k].judged
            last == IF ~IsOpen(row[i]) /\ row[i].closed < read
                    THEN row[i].closed ELSE row[i].opened
        IN  read - last >= Cooldown
===========================================================================
