------------------------------ MODULE MCMarket ------------------------------
(***************************************************************************)
(* The market source's books, and the entry rules that decide on such      *)
(* books: BookCache on one market of one token, EntryDesk on one market    *)
(* with three rows.  They share no state here.  Each behaviour is one of   *)
(* one of them, part; the other stays where it started.                    *)
(***************************************************************************)
EXTENDS BookCache

CONSTANTS
    yes, m1,
    Version, Markets, Quotes, Fairs, Rate, Share, SideLock, RequireNews,  \* EntryDesk
    MinEdge, MaxSpread, SpreadPct, Base, Scale, HeatCap, KillStreak, KillDaily,
    KillDrawdown, Day, Lockout, Cooldown, MinNotional, Lefts, MaxRows, MaxTicks

\* Prices are in cents and probabilities in percent; what is 0 is off.  The newest 500
\* positions, which is what the rules read of the table, are all there are.
ASSUME RulesAssumption ==
    /\ Version \subseteq {0, 1} /\ {SideLock, RequireNews, Lockout} \subseteq BOOLEAN
    /\ Quotes \subseteq [ask: Nat, bid: Nat, firm: Nat] /\ Fairs \subseteq 0 .. 100
    /\ Share \in Nat \ {0} /\ Lefts \subseteq Nat \ {0}
    /\ {Rate, MinEdge, MaxSpread, SpreadPct, Base, Scale, HeatCap, KillStreak, KillDaily,
        KillDrawdown, Day, Cooldown, MinNotional, MaxRows, MaxTicks} \subseteq Nat
    /\ MaxRows <= 500

OneMarket == [m \in {m1} |-> {yes}]

VARIABLES
    part,                            \* the module that moves
    version, row, dec, clock, tally  \* EntryDesk

\* What the entry rules are shown: no book, a tight one, and one whose first bid
\* with size lies far below its first bid.
Shown == {[ask |-> 0, bid |-> 0, firm |-> 0],
          [ask |-> 40, bid |-> 39, firm |-> 39],
          [ask |-> 50, bid |-> 48, firm |-> 30]}

Desk == INSTANCE EntryDesk WITH MaxNow <- MaxTicks, now <- clock

deskVars  == <<version, row, dec, clock, tally>>
cacheVars == <<now, state, catalog, book, gone, held, open, poll, sample, call, persisted, seen,
               rowAt>>

\* Of the initial states of either one will do for the other.
MarketInit ==
    /\ part \in {"books", "entry"}
    /\ Init /\ Desk!Init
    /\ part = "books" => version = 0
    /\ part = "entry" => open = {}

MarketNext ==
    \/ part = "books" /\ Next /\ UNCHANGED <<part, deskVars>>
    \/ part = "entry" /\ Desk!Next /\ UNCHANGED <<part, cacheVars>>

MarketSpec == MarketInit /\ [][MarketNext]_<<part, cacheVars, deskVars>>

---------------------------------------------------------------------------
(* Properties of the entry rules; those of the books are BookCache's.       *)

\* YES and NO of one market are never both held, a remainder below one share apart
\* (edge_threshold_v1, _select_side).
NeverBothSides == Desk!NeverBothSides

\* A side is bought again no sooner than the cooldown after its last position
\* closed, or opened where it closed only after the history was read (v0).
CooldownHeld == Desk!CooldownHeld

\* A buy scaled up takes the exposure past the cap by no more than the ask has risen
\* since the order was sized (_scaled_notional, execute_buy).
HeatHeld == Desk!HeatHeld

\* No decision gets past the brakes on the losing streak and the drawdown, whatever
\* the order the positions were opened in (_kill_switch_check).
BrakesHold == Desk!BrakesHold
=============================================================================
