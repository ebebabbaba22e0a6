----------------------------- MODULE LiveOrder -----------------------------
(***************************************************************************)
(* One position of the live executor against the venue: orders are posted, *)
(* fill at any time while they rest, are cancelled with retries, re-read   *)
(* through a data API, and what they filled is booked into the ledger.     *)
(*                                                                         *)
(* The calls of one position come one after another (the registry of       *)
(* CloseProtocol sees to that), so there is one thread; the venue moves    *)
(* between any two of its requests.  A buy is the same settle without the  *)
(* memory of resting orders.  Prices are left out.                         *)
(*                                                                         *)
(* A behaviour is one of Cases: the side of its orders, and the kinds of   *)
(* trouble that may happen in it:                                          *)
(*   lostResponse  the POST may have landed although no answer came        *)
(*   noId          the answer names no order id a cancel could carry       *)
(*   badBody       the share count of the answer is unusable               *)
(*   lostCancel    a cancel takes effect although no answer came           *)
(*   readFails     an order read fails, or answers without a size          *)
(*   lag           the data API shows an earlier state of an order         *)
(*   walletBlind   the balance cannot be read                              *)
(*   walletLag     the balance shows an earlier state of the wallet        *)
(*   ledgerFails   the write of a fill fails for good                      *)
(*   restart       the process restarts, between any two requests          *)
(***************************************************************************)
EXTENDS Naturals

CONSTANTS
    Cases,      \* the settings below that are looked at
    Qty,        \* shares of the row, or of the buy
    MinShares,  \* the least size the venue takes (sizing.MIN_SELL_SHARES)
    MaxOrders,  \* bound: orders posted
    MaxTries    \* bound: cancel attempts of one settle (_SETTLE_ATTEMPTS)

FaultKinds == {"lostResponse", "noId", "badBody", "lostCancel", "readFails",
               "lag", "walletBlind", "walletLag", "ledgerFails", "restart"}

ASSUME QtyAssumption     == Qty \in Nat /\ MinShares \in Nat \ {0}
ASSUME BoundsAssumption  == MaxOrders \in Nat /\ MaxTries \in Nat \ {0}
ASSUME CasesAssumption   == Cases \subseteq [sells: BOOLEAN, faults: SUBSET FaultKinds]

VARIABLES
    setting,  \* the case this behaviour is of; it never changes
    order,    \* the venue's books: size, filled, live; and what was booked of it
    posted,   \* orders posted so far
    moved,    \* shares that left (sell) or entered (buy) the wallet
    booked,   \* shares the ledger has recorded as sold, or bought
    resting,  \* LiveExecutor._resting: the order that may rest, 0 for none
    call,     \* the executor's call in progress
    alerted,  \* orders a RESTING ORDER ALERT or a CRITICAL line named
    flagged   \* the reconciliation monitor has reported untracked tokens

vars == <<setting, order, posted, moved, booked, resting, call, alerted, flagged>>
venue == <<order, posted, moved>>

(* TRUE: sell the Qty shares of an open row; FALSE: buy them.               *)
Selling == setting.sells

(* The kinds of trouble above that may happen.                              *)
Faults == setting.faults

---------------------------------------------------------------------------
(* Types                                                                    *)

Orders == 1 .. MaxOrders

Order == [size: Nat, filled: Nat, live: BOOLEAN, booked: Nat]
Unposted == [size |-> 0, filled |-> 0, live |-> FALSE, booked |-> 0]

(* One source's account of how much of the order filled (_Evidence).        *)
Evidence == [qty: Nat, source: {"post", "read", "wallet"},
             strength: {"exact", "settled", "bound"}]

(* An answer of GET /data/order; matched is {} when the size is unknown.    *)
Reading == [matched: SUBSET Nat, done: BOOLEAN]
NoReading == [matched |-> {}, done |-> FALSE]

Call == [pc: {"idle", "freeCancel", "freeRead", "gate", "post", "cancel",
              "reread", "final", "resolve", "balance", "persist"},
         order: 0 .. MaxOrders, size: Nat, base: Nat, named: BOOLEAN,
         ev: SUBSET Evidence, tries: Nat, acked: BOOLEAN, refused: BOOLEAN,
         qty: Nat, rests: BOOLEAN]

Idle == [pc |-> "idle", order |-> 0, size |-> 0, base |-> 0, named |-> FALSE,
         ev |-> {}, tries |-> 0, acked |-> FALSE, refused |-> FALSE,
         qty |-> 0, rests |-> FALSE]

---------------------------------------------------------------------------
(* The venue: what the executor's requests may be answered with             *)

Remaining == IF Selling THEN Qty - booked ELSE Qty

(* Shares still in the wallet (sell), or already in it (buy).               *)
WalletHolds == IF Selling THEN Qty - moved ELSE moved

(* quantize_size: below the venue's least size nothing can be sold.         *)
Quantize(q) == IF q < MinShares THEN 0 ELSE q

Matched(o) == IF "lag" \in Faults THEN 0 .. order[o].filled
                                  ELSE {order[o].filled}

(* Only a cancelled status is terminal: MATCHED is also said of a part.     *)
Done(o) ==
    IF order[o].live \/ order[o].filled = order[o].size THEN {FALSE}
    ELSE IF "lag" \in Faults THEN BOOLEAN ELSE {TRUE}

Readings(o) ==
    {[matched |-> {m}, done |-> d] : m \in Matched(o), d \in Done(o)}
    \cup (IF "readFails" \in Faults
          THEN {[matched |-> {}, done |-> d] : d \in Done(o)} \cup {NoReading}
          ELSE {})

(* What a balance read can say has moved since the wallet was full/empty.   *)
MovedReadings == IF "walletLag" \in Faults THEN 0 .. moved ELSE {moved}

(* _confirm_lost_order_qty and _wallet_delta: the change since the baseline,*)
(* at most the order's own size.                                            *)
WalletDeltas ==
    {IF m - call.base < call.size THEN m - call.base ELSE call.size :
        m \in {x \in MovedReadings : x >= call.base}}
    \cup (IF {"walletBlind", "walletLag"} \cap Faults # {} THEN {0} ELSE {})

(* cancel_order: acknowledged, refused, or done without an answer.          *)
Cancel(o, ack) ==
    /\ \/ /\ ack
          /\ order[o].live
          /\ order' = [order EXCEPT ![o].live = FALSE]
       \/ /\ ~ack
          /\ UNCHANGED order
       \/ /\ ~ack
          /\ "lostCancel" \in Faults
          /\ order' = [order EXCEPT ![o].live = FALSE]
    /\ UNCHANGED <<posted, moved>>

---------------------------------------------------------------------------
(* The evidence of one order (_FillEvidence)                                *)

(* Variant: MATCHED is believed, also of a part.                            *)
TerminalMatched(o, r) == r.done \/ \E m \in r.matched : m > 0

Terminal(o, r) == r.done \/ \E m \in r.matched : m >= order[o].size

(* add_read: an exact count when terminal; a live zero says nothing.        *)
Heard(o, r) ==
    {[qty |-> m, source |-> "read",
      strength |-> IF Terminal(o, r) THEN "exact" ELSE "bound"] :
        m \in {x \in r.matched : Terminal(o, r) \/ x > 0}}

(* resolve: an exact count outlasts all but settled crosses and earlier     *)
(* readings of the same order; without one the largest bound counts.        *)
Counting(ev) ==
    IF \E e \in ev : e.strength = "exact"
    THEN {e \in ev : e.strength = "settled" \/ e.source = "read"}
    ELSE ev

Resolves(ev, q) ==
    /\ \E e \in Counting(ev) : e.qty = q
    /\ \A e \in Counting(ev) : e.qty <= q

---------------------------------------------------------------------------
(* The executor's call                                                      *)

Init ==
    /\ setting \in Cases
    /\ order = [o \in Orders |-> Unposted]
    /\ posted = 0
    /\ moved = 0
    /\ booked = 0
    /\ resting = 0
    /\ call = Idle
    /\ alerted = {}
    /\ flagged = FALSE

(* Variant: the order is remembered after a skip only.                      *)
RememberedSkip ==
    IF Selling /\ call.rests /\ call.named /\ call.qty = 0
    THEN call.order ELSE resting

(* Returning without a fill.  execute_sell remembers the order only by the  *)
(* id the result hands back, and only for sells.                            *)
Remembered == IF Selling /\ call.rests /\ call.named THEN call.order ELSE resting

Skip ==
    /\ call' = Idle
    /\ resting' = Remembered
    /\ UNCHANGED booked

ToPersist(q) ==
    /\ call' = [call EXCEPT !.pc = "persist", !.qty = q]
    /\ UNCHANGED <<booked, resting>>

(* execute_sell, execute_buy up to the balance gate.  A buy is refused while*)
(* the ledger holds the token.                                              *)
Begin ==
    /\ call.pc = "idle"
    /\ posted < MaxOrders \/ resting # 0
    /\ IF Selling THEN Quantize(Remaining) > 0 ELSE booked = 0
    /\ call' = [Idle EXCEPT !.size = Quantize(Remaining),
                            !.pc = IF resting # 0 THEN "freeCancel" ELSE "gate"]
    /\ UNCHANGED <<venue, booked, resting, alerted, flagged>>

(* _resting_order_off_book: one cancel and one read.                        *)
FreeCancel ==
    /\ call.pc = "freeCancel"
    /\ \E ack \in BOOLEAN :
        /\ Cancel(resting, ack)
        /\ call' = [call EXCEPT !.pc = "freeRead", !.acked = ack]
    /\ UNCHANGED <<booked, resting, alerted, flagged>>

FreeRead ==
    /\ call.pc = "freeRead"
    /\ \E r \in Readings(resting) :
        \/ /\ call.acked \/ Terminal(resting, r)
           /\ resting' = 0
           /\ alerted' = IF \E m \in r.matched : m > order[resting].booked
                         THEN alerted \cup {resting} ELSE alerted
           /\ call' = [call EXCEPT !.pc = "gate", !.acked = FALSE]
        \/ /\ ~(call.acked \/ Terminal(resting, r))
           /\ call' = Idle
           /\ UNCHANGED <<resting, alerted>>
    /\ UNCHANGED <<venue, booked, flagged>>

(* Variant: the baseline is taken as the balance of the beginning.          *)
GatePassNoBase ==
    /\ call.pc = "gate"
    /\ posted < MaxOrders
    /\ \E m \in MovedReadings :
        /\ Selling => Qty - m >= call.size
        /\ call' = [call EXCEPT !.pc = "post", !.base = 0]
    /\ UNCHANGED <<venue, booked, resting, alerted, flagged>>

(* The balance before the order: a sell needs the shares in it, and both    *)
(* keep it as the baseline a lost answer is confirmed against.              *)
GatePass ==
    /\ call.pc = "gate"
    /\ posted < MaxOrders
    /\ \E m \in MovedReadings :
        /\ Selling => Qty - m >= call.size
        /\ call' = [call EXCEPT !.pc = "post", !.base = m]
    /\ UNCHANGED <<venue, booked, resting, alerted, flagged>>

GateSkip ==
    /\ call.pc = "gate"
    /\ \/ posted = MaxOrders
       \/ "walletBlind" \in Faults
       \/ Selling /\ \E m \in MovedReadings : Qty - m < call.size
    /\ call' = Idle
    /\ UNCHANGED <<venue, booked, resting, alerted, flagged>>

(* The venue takes the order and crosses c of it at once.                   *)
Lands(c) ==
    /\ Selling => moved + c <= Qty
    /\ posted' = posted + 1
    /\ order' = [order EXCEPT ![posted + 1] =
                    [size |-> call.size, filled |-> c, live |-> c < call.size,
                     booked |-> 0]]
    /\ moved' = moved + c

(* A price the SDK refuses, a 4xx, or success: false: nothing was placed.   *)
PostRejected ==
    /\ call.pc = "post"
    /\ call' = Idle
    /\ UNCHANGED <<venue, booked, resting, alerted, flagged>>

(* What the body says of the cross, once it has passed _plausible.          *)
PostEvidence(c, usable, tx) ==
    {[qty |-> x, source |-> "post",
      strength |-> IF tx THEN "settled" ELSE "bound"] :
        x \in {y \in {c} : usable /\ y > 0}}

PostAnswered ==
    /\ call.pc = "post"
    /\ \E c \in 0 .. call.size, usable, named, tx \in BOOLEAN :
        /\ usable \/ "badBody" \in Faults
        /\ named \/ "noId" \in Faults
        /\ Lands(c)
        /\ call' = [call EXCEPT
                !.order = posted + 1,
                !.named = named,
                !.ev = PostEvidence(c, usable, tx),
                !.qty = IF usable THEN c ELSE 0,
                !.rests = ~named /\ ~(usable /\ c = call.size),
                !.pc = IF usable /\ c = call.size THEN "persist"
                       ELSE IF named THEN "cancel" ELSE "resolve"]
    /\ UNCHANGED <<booked, resting, alerted, flagged>>

(* No answer: the order may have landed, or not.                            *)
PostLost ==
    /\ call.pc = "post"
    /\ "lostResponse" \in Faults
    /\ \/ \E c \in 0 .. call.size : Lands(c)
       \/ /\ posted' = posted + 1
          /\ UNCHANGED <<order, moved>>
    /\ call' = [call EXCEPT !.pc = "balance", !.order = posted + 1]
    /\ UNCHANGED <<booked, resting, alerted, flagged>>

(* _cancel_with_retry.  The wall clock may end the loop at any attempt.     *)
TryCancel ==
    /\ call.pc = "cancel"
    /\ \E ack \in BOOLEAN :
        /\ Cancel(call.order, ack)
        /\ call' = [call EXCEPT !.pc = IF ack THEN "final" ELSE "reread"]
    /\ UNCHANGED <<booked, resting, alerted, flagged>>

RereadTerminal ==
    /\ call.pc = "reread"
    /\ \E r \in Readings(call.order) :
        /\ Terminal(call.order, r)
        /\ call' = [call EXCEPT !.pc = "resolve",
                                !.ev = @ \cup Heard(call.order, r)]
    /\ UNCHANGED <<venue, booked, resting, alerted, flagged>>

(* Variant: an attempt is not counted.                                      *)
RereadForever ==
    /\ call.pc = "reread"
    /\ \E r \in Readings(call.order) :
        /\ ~Terminal(call.order, r)
        /\ call' = [call EXCEPT !.pc = "cancel",
                                !.ev = @ \cup Heard(call.order, r)]
    /\ UNCHANGED <<venue, booked, resting, alerted, flagged>>

RereadAgain ==
    /\ call.pc = "reread"
    /\ \E r \in Readings(call.order), more \in BOOLEAN :
        /\ ~Terminal(call.order, r)
        /\ more => call.tries + 1 < MaxTries
        /\ call' = [call EXCEPT !.pc = IF more THEN "cancel" ELSE "final",
                                !.tries = @ + 1,
                                !.refused = ~more,
                                !.ev = @ \cup Heard(call.order, r)]
    /\ UNCHANGED <<venue, booked, resting, alerted, flagged>>

(* Variant: an acknowledged cancel ends the settle without a read.          *)
FinalReadNot ==
    /\ call.pc = "final"
    /\ call' = [call EXCEPT !.pc = "resolve", !.rests = call.refused]
    /\ UNCHANGED <<venue, booked, resting, alerted, flagged>>

(* _settle_resting_remainder: the last read, after which the order rests    *)
(* when it was refused and this read does not show it terminal.             *)
FinalRead ==
    /\ call.pc = "final"
    /\ \E r \in Readings(call.order) :
        call' = [call EXCEPT !.pc = "resolve",
                             !.ev = @ \cup Heard(call.order, r),
                             !.rests = call.refused /\ ~Terminal(call.order, r)]
    /\ UNCHANGED <<venue, booked, resting, alerted, flagged>>

(* What to book; the wallet speaks only when nothing else did.              *)
Settled(q) ==
    \/ Resolves(call.ev, q)
    \/ call.ev = {} /\ q \in WalletDeltas

Resolve ==
    /\ call.pc = "resolve"
    /\ \E q \in 0 .. call.size :
        /\ Settled(q)
        /\ IF q > 0 THEN ToPersist(q) ELSE Skip
    /\ alerted' = IF call.rests THEN alerted \cup {call.order} ELSE alerted
    /\ UNCHANGED <<venue, flagged>>

(* _fill_from_balance: a part that moved leaves a remainder no id names.    *)
FromBalance ==
    /\ call.pc = "balance"
    /\ \E q \in WalletDeltas :
        /\ IF q > 0 THEN ToPersist(q) ELSE Skip
        /\ alerted' = IF 0 < q /\ q < call.size
                      THEN alerted \cup {call.order} ELSE alerted
    /\ UNCHANGED <<venue, flagged>>

(* _persist_sell, _persist_open.                                            *)
Persist ==
    /\ call.pc = "persist"
    /\ booked' = booked + call.qty
    /\ order' = [order EXCEPT ![call.order].booked = call.qty]
    /\ resting' = Remembered
    /\ call' = Idle
    /\ UNCHANGED <<posted, moved, alerted, flagged>>

(* The write fails for good: CRITICAL, and a skip without the order's id.   *)
PersistFails ==
    /\ call.pc = "persist"
    /\ "ledgerFails" \in Faults
    /\ call' = Idle
    /\ alerted' = alerted \cup {call.order}
    /\ UNCHANGED <<venue, booked, resting, flagged>>

Restart ==
    /\ "restart" \in Faults
    /\ call # Idle \/ resting # 0
    /\ call' = Idle
    /\ resting' = 0
    /\ UNCHANGED <<venue, booked, alerted, flagged>>

---------------------------------------------------------------------------
(* The venue, and the reverse half of the reconciliation                    *)

Fill(o) ==
    /\ order[o].live
    /\ Selling => moved < Qty
    /\ order' = [order EXCEPT ![o].filled = @ + 1,
                              ![o].live = order[o].filled + 1 < order[o].size]
    /\ moved' = moved + 1
    /\ UNCHANGED <<posted, booked, resting, call, alerted, flagged>>

(* The venue ends an order by itself (expiry, the market's close).          *)
VenueEnds(o) ==
    /\ order[o].live
    /\ order' = [order EXCEPT ![o].live = FALSE]
    /\ UNCHANGED <<posted, moved, booked, resting, call, alerted, flagged>>

(* Tokens in the wallet for which no row is open are reported.              *)
ReverseDiff ==
    /\ ~flagged
    /\ WalletHolds > 0
    /\ IF Selling THEN Remaining = 0 ELSE booked = 0
    /\ flagged' = TRUE
    /\ UNCHANGED <<venue, booked, resting, call, alerted>>

CallStep ==
    \/ FreeCancel \/ FreeRead \/ GatePass \/ GateSkip
    \/ PostRejected \/ PostAnswered \/ PostLost
    \/ TryCancel \/ RereadTerminal \/ RereadAgain \/ FinalRead
    \/ Resolve \/ FromBalance \/ Persist \/ PersistFails

VenueStep == \E o \in Orders : Fill(o) \/ VenueEnds(o)

Next ==
    /\ Begin \/ CallStep \/ Restart \/ VenueStep \/ ReverseDiff
    /\ UNCHANGED setting

Spec == Init /\ [][Next]_vars

(* A call that began runs on, and the reconciliation monitor keeps ticking. *)
FairSpec ==
    /\ Spec
    /\ WF_vars(CallStep /\ UNCHANGED setting)
    /\ WF_vars(ReverseDiff /\ UNCHANGED setting)

---------------------------------------------------------------------------
(* Properties                                                               *)

(* The variables that change keep their types.  Code: the fields of         *)
(* _RestingOrder, _Evidence, _Fill and the venue's order document.          *)
TypeOK ==
    /\ order \in [Orders -> Order]
    /\ posted \in 0 .. MaxOrders
    /\ moved \in Nat
    /\ booked \in Nat
    /\ resting \in 0 .. MaxOrders
    /\ call \in Call
    /\ alerted \subseteq Orders
    /\ flagged \in BOOLEAN

(* The ledger never records a share the wallet did not give or get, however *)
(* late orders fill and whichever source was believed, as long as a balance *)
(* read is current.  Code: the wallet delta against a baseline read after   *)
(* every earlier fill was booked (_wallet_delta, _confirm_lost_order_qty)   *)
(* and the evidence model.                                                  *)
NothingInvented == "walletLag" \notin Faults => booked <= moved

(* While an order of the position may rest no second one is posted.  Code:  *)
(* the comment on LiveExecutor._resting.                                    *)
OneOrderOnBook ==
    \A o, p \in Orders : order[o].live /\ order[p].live => o = p

(* That holds for sells whose orders the executor has an id of, and keeps:  *)
(* no answer is lost or without an id, no write fails, and the process      *)
(* lives.  A lagging data API or wallet breaks nothing.  Code: the guard of *)
(* execute_sell and what every outcome hands to _resting.                   *)
KnownOrderAlone ==
    Selling /\ Faults \cap {"lostResponse", "noId", "ledgerFails", "restart"} = {}
        => OneOrderOnBook

(* A fill the ledger does not have is one somebody was told of: an order no *)
(* longer settling and never alerted is off the book and booked in full.    *)
(* Code: _settle_resting_remainder reads once more after an acknowledged    *)
(* cancel, and alerts what it could not settle.  A lost answer, a read that *)
(* fails or lags, and a restart do break it.                                *)
NoSilentShortfall ==
    Faults \cap {"lostResponse", "readFails", "lag", "restart"} = {} =>
        \A o \in Orders \ (alerted \cup {call.order}) :
            ~order[o].live /\ order[o].booked = order[o].filled

(* A remembered order is forgotten only once it is off the book, or with    *)
(* the process.  Code: _resting_order_off_book; MATCHED alone is said of a  *)
(* part too.                                                                *)
ForgottenOffBook ==
    [][resting # 0 /\ resting' # resting =>
           ~order'[resting].live \/ (call' = Idle /\ "restart" \in Faults)]_vars

(* Every call comes back, so the claim of its row is released.  Code: the   *)
(* cancel loop ends by attempts or by the clock.                            *)
CallEnds == (call.pc # "idle") ~> (call.pc = "idle")

(* What an alert says will be flagged is flagged: the remainder of a resting*)
(* order that filled after its settle.  Code: the RESTING ORDER ALERT text  *)
(* of _settle_resting_remainder.                                            *)
RemainderIsFlagged ==
    \A o \in Orders :
        (call.pc = "idle" /\ o \in alerted /\ order[o].filled > order[o].booked)
            ~> flagged
=============================================================================
