-------------------------- MODULE LiveOrderProofs --------------------------
(***************************************************************************)
(* Proofs about LiveOrder, for every size, any number of orders and any    *)
(* bound of the retries: the types; that the ledger never records a share  *)
(* the wallet did not move, as long as the balance read is current; that   *)
(* the executor forgets an order only when it is off the book; that an     *)
(* order whose id it has is the only one there; and that what an order     *)
(* filled is booked or alerted.                                            *)
(***************************************************************************)
EXTENDS LiveOrder, TLAPS

(* An order's id is in range whenever the call has one.                     *)
Placed == {"cancel", "reread", "final", "resolve", "balance", "persist"}

InRange ==
    /\ call.pc \in Placed => call.order \in Orders
    /\ call.pc \in {"freeCancel", "freeRead"} => resting \in Orders
    /\ call.pc = "post" => posted < MaxOrders

TInv == TypeOK /\ InRange

---------------------------------------------------------------------------
(* Helpers keep to their sets.                                              *)

LEMMA IdleType == Idle \in Call
  BY BoundsAssumption DEF Idle, Call

LEMMA ReadingsType ==
    ASSUME TypeOK, NEW o \in Orders
    PROVE  Readings(o) \subseteq Reading
  <1>1. order[o].filled \in Nat
    BY DEF TypeOK, Order
  <1>2. Matched(o) \subseteq Nat
    BY <1>1 DEF Matched
  <1>3. Done(o) \subseteq BOOLEAN
    BY DEF Done
  <1>4. \A m \in Matched(o), d \in Done(o) : [matched |-> {m}, done |-> d] \in Reading
    BY <1>2, <1>3 DEF Reading
  <1>5. \A d \in Done(o) : [matched |-> {}, done |-> d] \in Reading
    BY <1>3 DEF Reading
  <1>6. NoReading \in Reading
    BY DEF Reading, NoReading
  <1> QED
    BY <1>4, <1>5, <1>6 DEF Readings

LEMMA HeardType ==
    ASSUME NEW o \in Orders, NEW r \in Reading
    PROVE  Heard(o, r) \subseteq Evidence
  <1> r.matched \subseteq Nat
    BY DEF Reading
  <1> QED
    BY DEF Heard, Evidence

LEMMA DeltasType ==
    ASSUME TypeOK
    PROVE  /\ WalletDeltas \subseteq Nat
           /\ \A q \in WalletDeltas : q <= call.size
  <1>1. moved \in Nat /\ call.base \in Nat /\ call.size \in Nat
    BY DEF TypeOK, Call
  <1>2. MovedReadings \subseteq Nat
    BY <1>1 DEF MovedReadings
  <1>3. ASSUME NEW m \in MovedReadings, m >= call.base
        PROVE  m - call.base \in Nat
    BY <1>1, <1>2, <1>3
  <1> QED
    BY <1>1, <1>2, <1>3 DEF WalletDeltas

LEMMA RememberedType ==
    ASSUME TypeOK
    PROVE  Remembered \in 0 .. MaxOrders
  BY DEF TypeOK, Call, Remembered

LEMMA CancelKeepsType ==
    ASSUME TypeOK, NEW o, NEW ack \in BOOLEAN, Cancel(o, ack)
    PROVE  /\ order' \in [Orders -> Order]
           /\ posted' = posted
           /\ moved' = moved
  <1>1. order \in [Orders -> Order]
    BY DEF TypeOK
  <1>2. [order EXCEPT ![o].live = FALSE] \in [Orders -> Order]
    BY <1>1 DEF Order
  <1> QED
    BY <1>1, <1>2 DEF Cancel

LEMMA LandsKeepsType ==
    ASSUME TypeOK, posted < MaxOrders, NEW c \in 0 .. call.size, Lands(c)
    PROVE  /\ order' \in [Orders -> Order]
           /\ posted' \in 0 .. MaxOrders
           /\ moved' \in Nat
  <1>1. order \in [Orders -> Order] /\ posted \in 0 .. MaxOrders /\ moved \in Nat
        /\ call.size \in Nat
    BY DEF TypeOK, Call
  <1>2. [size |-> call.size, filled |-> c, live |-> c < call.size, booked |-> 0]
            \in Order
    BY <1>1 DEF Order
  <1>3. order' \in [Orders -> Order]
    BY <1>1, <1>2 DEF Lands
  <1>4. posted' \in 0 .. MaxOrders
    BY <1>1, BoundsAssumption DEF Lands
  <1>5. moved' \in Nat
    BY <1>1 DEF Lands
  <1> QED
    BY <1>3, <1>4, <1>5

(* Skip and ToPersist, the two ways out of a settle.                        *)
LEMMA SkipType ==
    ASSUME TypeOK, Skip
    PROVE  call' = Idle /\ resting' \in 0 .. MaxOrders /\ booked' \in Nat
  BY RememberedType DEF Skip, TypeOK

LEMMA ToPersistType ==
    ASSUME TypeOK, NEW q \in Nat, ToPersist(q)
    PROVE  /\ call' \in Call
           /\ call'.pc = "persist" /\ call'.order = call.order
           /\ call'.qty = q /\ call'.base = call.base
           /\ resting' = resting /\ booked' = booked
  <1>1. call \in Call
    BY DEF TypeOK
  <1>2. call' = [call EXCEPT !.pc = "persist", !.qty = q]
    BY DEF ToPersist
  <1> QED
    BY <1>1, <1>2 DEF ToPersist, Call
---------------------------------------------------------------------------
(* The types are kept by every step.                                        *)

LEMMA BeginType == ASSUME TInv, Begin PROVE TInv'
  <1>1. Quantize(Remaining) \in Nat
    <2>1. CASE Selling
      <3>1. Qty - booked \in Nat \/ Qty - booked < MinShares
        BY QtyAssumption DEF TInv, TypeOK
      <3> QED
        BY <2>1, <3>1, QtyAssumption DEF Quantize, Remaining, TInv, TypeOK
    <2>2. CASE ~Selling
      BY <2>2, QtyAssumption DEF Quantize, Remaining
    <2> QED
      BY <2>1, <2>2
  <1>2. call' \in Call
    BY <1>1, IdleType DEF Begin, Idle, Call
  <1>3. InRange'
    BY BoundsAssumption DEF Begin, TInv, InRange, TypeOK, Placed, Idle, venue, Orders
  <1> QED
    BY <1>2, <1>3 DEF Begin, TInv, TypeOK, venue

LEMMA FreeType ==
    ASSUME TInv, FreeCancel \/ FreeRead
    PROVE  TInv'
  <1>0. call \in Call
    BY DEF TInv, TypeOK
  <1>1. CASE FreeCancel
    <2>1. PICK ack \in BOOLEAN :
            /\ Cancel(resting, ack)
            /\ call' = [call EXCEPT !.pc = "freeRead", !.acked = ack]
      BY <1>1 DEF FreeCancel
    <2>2. call' \in Call /\ call'.pc = "freeRead"
      BY <1>0, <2>1 DEF Call
    <2>3. InRange'
      BY <1>1, <2>2 DEF FreeCancel, TInv, InRange, Placed
    <2>4. order' \in [Orders -> Order] /\ posted' = posted /\ moved' = moved
      BY <2>1, CancelKeepsType DEF TInv
    <2> QED
      BY <1>1, <2>2, <2>3, <2>4 DEF FreeCancel, TInv, TypeOK
  <1>2. CASE FreeRead
    <2>1. PICK r \in Readings(resting) :
            \/ /\ resting' = 0
               /\ alerted' = IF \E m \in r.matched : m > order[resting].booked
                             THEN alerted \cup {resting} ELSE alerted
               /\ call' = [call EXCEPT !.pc = "gate", !.acked = FALSE]
            \/ call' = Idle /\ resting' = resting /\ alerted' = alerted
      BY <1>2 DEF FreeRead
    <2>2. call' \in Call /\ call'.pc \in {"gate", "idle"}
      BY <1>0, <2>1, IdleType DEF Call, Idle
    <2>3. InRange'
      BY <2>2 DEF InRange, Placed
    <2>4. resting \in Orders
      BY <1>2 DEF FreeRead, TInv, InRange
    <2>5. resting' \in 0 .. MaxOrders /\ alerted' \subseteq Orders
      BY <2>1, <2>4, BoundsAssumption DEF TInv, TypeOK
    <2> QED
      BY <1>2, <2>2, <2>3, <2>5 DEF FreeRead, TInv, TypeOK, venue
  <1> QED
    BY <1>1, <1>2

LEMMA GateType ==
    ASSUME TInv, GatePass \/ GateSkip \/ PostRejected
    PROVE  TInv'
  <1>0. call \in Call /\ MovedReadings \subseteq Nat
    BY DEF TInv, TypeOK, MovedReadings
  <1>1. call' \in Call
    BY <1>0, IdleType DEF GatePass, GateSkip, PostRejected, Call
  <1>2. call'.pc \in {"post", "idle"} /\ (call'.pc = "post" => posted < MaxOrders)
    <2>1. CASE GatePass
      <3>1. PICK m \in MovedReadings :
              call' = [call EXCEPT !.pc = "post", !.base = m]
        BY <2>1 DEF GatePass
      <3> QED
        BY <1>0, <2>1, <3>1 DEF GatePass, Call
    <2>2. CASE GateSkip \/ PostRejected
      BY <2>2 DEF GateSkip, PostRejected, Idle
    <2> QED
      BY <2>1, <2>2
  <1>3. UNCHANGED <<order, posted, moved, booked, resting, alerted, flagged>>
    BY DEF GatePass, GateSkip, PostRejected, venue
  <1> QED
    BY <1>1, <1>2, <1>3 DEF TInv, TypeOK, InRange, Placed

LEMMA PostEvidenceType ==
    ASSUME NEW c \in Nat, NEW usable, NEW tx
    PROVE  PostEvidence(c, usable, tx) \subseteq Evidence
  BY DEF PostEvidence, Evidence

LEMMA PostAnsweredType == ASSUME TInv, PostAnswered PROVE TInv'
  <1>0. call \in Call /\ posted < MaxOrders /\ posted \in 0 .. MaxOrders
    BY DEF TInv, TypeOK, InRange, PostAnswered
  <1>1. PICK c \in 0 .. call.size, usable \in BOOLEAN, named \in BOOLEAN, tx \in BOOLEAN :
          /\ usable \/ "badBody" \in Faults
          /\ named \/ "noId" \in Faults
          /\ Lands(c)
          /\ call' = [call EXCEPT
                !.order = posted + 1,
                !.named = named,
                !.ev = PostEvidence(c, usable, tx),
                !.qty = IF usable THEN c ELSE 0,
                !.rests = ~named /\ ~(usable /\ c = call.size),
                !.pc = IF usable /\ c = call.size THEN "persist"
                       ELSE IF named THEN "cancel" ELSE "resolve"]
    BY Zenon DEF PostAnswered
  <1>2. c \in Nat /\ PostEvidence(c, usable, tx) \subseteq Evidence
    BY <1>0, PostEvidenceType DEF Call
  <1>3. posted + 1 \in Orders /\ posted + 1 \in 0 .. MaxOrders
    BY <1>0, BoundsAssumption DEF Orders
  <1>4. call' \in Call
    <2>1. (IF usable THEN c ELSE 0) \in Nat
      BY <1>2
    <2>2. (~named /\ ~(usable /\ c = call.size)) \in BOOLEAN
      OBVIOUS
    <2>3. (IF usable /\ c = call.size THEN "persist"
           ELSE IF named THEN "cancel" ELSE "resolve")
              \in {"persist", "cancel", "resolve"}
      OBVIOUS
    <2> DEFINE qty == IF usable THEN c ELSE 0
               rests == ~named /\ ~(usable /\ c = call.size)
               pc == IF usable /\ c = call.size THEN "persist"
                     ELSE IF named THEN "cancel" ELSE "resolve"
               ev == PostEvidence(c, usable, tx)
    <2>4. qty \in Nat /\ rests \in BOOLEAN /\ pc \in {"persist", "cancel", "resolve"}
      BY <2>1, <2>2, <2>3, Zenon
    <2>5. ev \subseteq Evidence
      BY <1>2
    <2>6. call' = [call EXCEPT !.order = posted + 1, !.named = named, !.ev = ev, !.qty = qty,
                               !.rests = rests, !.pc = pc]
      BY <1>1, Zenon
    <2> HIDE DEF qty, rests, pc, ev
    <2> QED
      BY <1>0, <1>3, <2>4, <2>5, <2>6 DEF Call
  <1>5. call'.pc \in {"persist", "cancel", "resolve"} /\ call'.order = posted + 1
    BY <1>0, <1>1 DEF Call
  <1>6. InRange'
    BY <1>3, <1>5 DEF InRange, Orders
  <1>7. order' \in [Orders -> Order] /\ posted' \in 0 .. MaxOrders /\ moved' \in Nat
    BY <1>0, <1>1, LandsKeepsType DEF TInv
  <1> QED
    BY <1>4, <1>6, <1>7 DEF PostAnswered, TInv, TypeOK

LEMMA PostLostType == ASSUME TInv, PostLost PROVE TInv'
  <1>0. call \in Call /\ posted < MaxOrders /\ posted \in 0 .. MaxOrders
    BY DEF TInv, TypeOK, InRange, PostLost
  <1>1. order' \in [Orders -> Order] /\ posted' \in 0 .. MaxOrders /\ moved' \in Nat
    <2>1. CASE \E c \in 0 .. call.size : Lands(c)
      BY <1>0, <2>1, LandsKeepsType DEF TInv
    <2>2. CASE posted' = posted + 1 /\ UNCHANGED <<order, moved>>
      BY <1>0, <2>2, BoundsAssumption DEF TInv, TypeOK
    <2> QED
      BY <2>1, <2>2 DEF PostLost
  <1>2. posted + 1 \in Orders /\ posted + 1 \in 0 .. MaxOrders
    BY <1>0, BoundsAssumption DEF Orders
  <1>3. call' = [call EXCEPT !.pc = "balance", !.order = posted + 1]
    BY DEF PostLost
  <1>4. call' \in Call /\ call'.pc = "balance" /\ call'.order = posted + 1
    BY <1>0, <1>2, <1>3 DEF Call
  <1> QED
    BY <1>1, <1>2, <1>4 DEF PostLost, TInv, TypeOK, InRange, Placed, Orders

LEMMA TryCancelType == ASSUME TInv, TryCancel PROVE TInv'
  <1>0. call \in Call /\ call.order \in Orders
    BY DEF TInv, TypeOK, InRange, Placed, TryCancel
  <1>1. PICK ack \in BOOLEAN :
          /\ Cancel(call.order, ack)
          /\ call' = [call EXCEPT !.pc = IF ack THEN "final" ELSE "reread"]
    BY DEF TryCancel
  <1>2. call' \in Call /\ call'.pc \in {"final", "reread"} /\ call'.order = call.order
    BY <1>0, <1>1 DEF Call
  <1>3. order' \in [Orders -> Order] /\ posted' = posted /\ moved' = moved
    BY <1>1, CancelKeepsType DEF TInv
  <1> QED
    BY <1>0, <1>2, <1>3 DEF TryCancel, TInv, TypeOK, InRange, Placed

(* A read only adds evidence, and turns the call to its next request.       *)
LEMMA ReadType ==
    ASSUME TInv, RereadTerminal \/ RereadAgain \/ FinalRead
    PROVE  /\ call' \in Call
           /\ call'.pc \in {"resolve", "cancel", "final"}
           /\ call'.order = call.order /\ call'.base = call.base
           /\ \E r \in Readings(call.order) :
                  call'.ev = call.ev \cup Heard(call.order, r)
  <1>0. call \in Call /\ call.order \in Orders
    BY DEF TInv, TypeOK, InRange, Placed, RereadTerminal, RereadAgain, FinalRead
  <1>h. ASSUME NEW r \in Readings(call.order)
        PROVE  call.ev \cup Heard(call.order, r) \in SUBSET Evidence
    BY <1>0, ReadingsType, HeardType DEF TInv, Call
  <1>1. CASE RereadTerminal
    <2>1. PICK r \in Readings(call.order) :
            call' = [call EXCEPT !.pc = "resolve",
                                 !.ev = @ \cup Heard(call.order, r)]
      BY <1>1 DEF RereadTerminal
    <2> HIDE DEF Heard
    <2> QED
      BY <1>0, <1>h, <2>1 DEF Call
  <1>2. CASE RereadAgain
    <2>1. PICK r \in Readings(call.order), more \in BOOLEAN :
            /\ ~Terminal(call.order, r)
            /\ more => call.tries + 1 < MaxTries
            /\ call' = [call EXCEPT !.pc = IF more THEN "cancel" ELSE "final",
                                    !.tries = @ + 1,
                                    !.refused = ~more,
                                    !.ev = @ \cup Heard(call.order, r)]
      BY <1>2, Zenon DEF RereadAgain
    <2>2. call.tries + 1 \in Nat
      BY <1>0 DEF Call
    <2>3. (IF more THEN "cancel" ELSE "final") \in {"cancel", "final"}
      OBVIOUS
    <2>4. (~more) \in BOOLEAN
      OBVIOUS
    <2>5. call' \in Call
      BY <1>0, <1>h, <2>1, <2>2, <2>3, <2>4, Zenon DEF Call
    <2>6. /\ call'.pc = IF more THEN "cancel" ELSE "final"
          /\ call'.order = call.order /\ call'.base = call.base
          /\ call'.ev = call.ev \cup Heard(call.order, r)
      BY <1>0, <2>1, Zenon DEF Call
    <2> QED
      BY <2>3, <2>5, <2>6, Zenon
  <1>3. CASE FinalRead
    <2>1. PICK r \in Readings(call.order) :
            call' = [call EXCEPT !.pc = "resolve",
                                 !.ev = @ \cup Heard(call.order, r),
                                 !.rests = call.refused /\ ~Terminal(call.order, r)]
      BY <1>3, Zenon DEF FinalRead
    <2>2. (call.refused /\ ~Terminal(call.order, r)) \in BOOLEAN
      OBVIOUS
    <2>3. call' \in Call
      BY <1>0, <1>h, <2>1, <2>2, Zenon DEF Call
    <2>4. /\ call'.pc = "resolve"
          /\ call'.order = call.order /\ call'.base = call.base
          /\ call'.ev = call.ev \cup Heard(call.order, r)
      BY <1>0, <2>1, Zenon DEF Call
    <2> QED
      BY <2>3, <2>4, Zenon
  <1> QED
    BY <1>1, <1>2, <1>3

LEMMA ReadKeepsType ==
    ASSUME TInv, RereadTerminal \/ RereadAgain \/ FinalRead
    PROVE  TInv'
  <1>1. call.order \in Orders
    BY DEF TInv, TypeOK, InRange, Placed, RereadTerminal, RereadAgain, FinalRead
  <1>2. UNCHANGED <<order, posted, moved, booked, resting, alerted, flagged>>
    BY DEF RereadTerminal, RereadAgain, FinalRead, venue
  <1> QED
    BY <1>1, <1>2, ReadType DEF TInv, TypeOK, InRange, Placed

(* The two ends of a settle: a quantity goes to the ledger, or a skip.      *)
LEMMA SettleType ==
    ASSUME TInv, Resolve \/ FromBalance
    PROVE  TInv'
  <1>0. call \in Call /\ call.order \in Orders
    BY DEF TInv, TypeOK, InRange, Placed, Resolve, FromBalance
  <1>1. \E q \in Nat : IF q > 0 THEN ToPersist(q) ELSE Skip
    <2>1. CASE Resolve
      <3>1. \A q \in 0 .. call.size : q \in Nat
        BY <1>0 DEF Call
      <3> QED
        BY <2>1, <3>1 DEF Resolve
    <2>2. CASE FromBalance
      BY <2>2, DeltasType DEF FromBalance, TInv
    <2> QED
      BY <2>1, <2>2
  <1>2. /\ call' \in Call /\ resting' \in 0 .. MaxOrders /\ booked' \in Nat
        /\ call'.pc = "idle" \/ (call'.pc = "persist" /\ call'.order = call.order)
    <2>1. PICK q \in Nat : IF q > 0 THEN ToPersist(q) ELSE Skip
      BY <1>1
    <2>2. CASE ToPersist(q)
      <3>1. resting \in 0 .. MaxOrders /\ booked \in Nat /\ TypeOK
        BY DEF TInv, TypeOK
      <3>2. /\ call' \in Call
            /\ call'.pc = "persist" /\ call'.order = call.order
            /\ resting' = resting /\ booked' = booked
        BY <2>2, <3>1, ToPersistType
      <3> QED
        BY <3>1, <3>2
    <2>3. CASE Skip
      <3>1. call' = Idle /\ resting' \in 0 .. MaxOrders /\ booked' \in Nat
        BY <2>3, SkipType DEF TInv
      <3>2. Idle.pc = "idle"
        BY DEF Idle
      <3> QED
        BY <3>1, <3>2, IdleType
    <2> QED
      BY <2>1, <2>2, <2>3
  <1>3. InRange'
    BY <1>0, <1>2 DEF InRange, Placed
  <1>4. alerted' \subseteq Orders /\ UNCHANGED <<order, posted, moved, flagged>>
    BY <1>0 DEF Resolve, FromBalance, venue, TInv, TypeOK
  <1> QED
    BY <1>2, <1>3, <1>4 DEF TInv, TypeOK

LEMMA PersistType ==
    ASSUME TInv, Persist \/ PersistFails \/ Restart
    PROVE  TInv'
  <1>0. call \in Call /\ order \in [Orders -> Order]
    BY DEF TInv, TypeOK
  <1>i. call' = Idle
    BY DEF Persist, PersistFails, Restart
  <1>1. call' \in Call /\ InRange'
    BY <1>i, IdleType DEF InRange, Placed, Idle
  <1>2. CASE Persist
    <2>1. call.qty \in Nat
      BY <1>0 DEF Call
    <2>2. [order EXCEPT ![call.order].booked = call.qty] \in [Orders -> Order]
      BY <1>0, <2>1 DEF Order
    <2> QED
      BY <1>1, <1>2, <2>1, <2>2, RememberedType DEF Persist, TInv, TypeOK
  <1>3. CASE PersistFails
    <2>1. call.order \in Orders
      BY <1>3 DEF PersistFails, TInv, InRange, Placed
    <2> QED
      BY <1>1, <1>3, <2>1 DEF PersistFails, venue, TInv, TypeOK
  <1>4. CASE Restart
    BY <1>1, <1>4, BoundsAssumption DEF Restart, venue, TInv, TypeOK
  <1> QED
    BY <1>2, <1>3, <1>4

LEMMA VenueType ==
    ASSUME TInv, VenueStep \/ ReverseDiff
    PROVE  TInv'
  <1>1. CASE ReverseDiff
    BY <1>1 DEF ReverseDiff, venue, TInv, TypeOK, InRange
  <1>2. ASSUME NEW o \in Orders, Fill(o) \/ VenueEnds(o)
        PROVE  TInv'
    <2>1. order[o] \in Order /\ order \in [Orders -> Order] /\ moved \in Nat
      BY DEF TInv, TypeOK
    <2>2. CASE Fill(o)
      <3>1. order[o].filled + 1 \in Nat
        BY <2>1 DEF Order
      <3>2. (order[o].filled + 1 < order[o].size) \in BOOLEAN
        OBVIOUS
      <3>3. [order EXCEPT ![o].filled = @ + 1,
                          ![o].live = order[o].filled + 1 < order[o].size]
                \in [Orders -> Order]
        BY <2>1, <3>1, <3>2 DEF Order
      <3>4. order' \in [Orders -> Order] /\ moved' \in Nat
        BY <2>1, <2>2, <3>3 DEF Fill
      <3> QED
        BY <2>2, <3>4 DEF Fill, TInv, TypeOK, InRange
    <2>3. CASE VenueEnds(o)
      <3>1. order' \in [Orders -> Order]
        BY <2>1, <2>3 DEF VenueEnds, Order
      <3> QED
        BY <2>3, <3>1 DEF VenueEnds, TInv, TypeOK, InRange
    <2> QED
      BY <1>2, <2>2, <2>3
  <1> QED
    BY <1>1, <1>2 DEF VenueStep

LEMMA InitType == Init => TInv
  <1>1. Unposted \in Order
    BY DEF Unposted, Order
  <1> SUFFICES ASSUME Init PROVE TInv
    OBVIOUS
  <1>2. order \in [Orders -> Order]
    BY <1>1 DEF Init
  <1>3. InRange
    BY DEF Init, InRange, Placed, Idle
  <1>4. 0 \in 0 .. MaxOrders
    BY BoundsAssumption
  <1> QED
    BY <1>2, <1>3, <1>4, IdleType DEF Init, TInv, TypeOK

LEMMA NextType == TInv /\ [Next]_vars => TInv'
  <1> SUFFICES ASSUME TInv, [Next]_vars PROVE TInv'
    OBVIOUS
  <1>1. CASE UNCHANGED vars
    BY <1>1 DEF vars, TInv, TypeOK, InRange
  <1>2. CASE Next
    BY <1>2, BeginType, FreeType, GateType, PostAnsweredType, PostLostType,
       TryCancelType, ReadKeepsType, SettleType, PersistType, VenueType
       DEF Next, CallStep
  <1> QED
    BY <1>1, <1>2

(* The variables keep their types in every behaviour.  Code: the fields of  *)
(* _RestingOrder, _Evidence and _Fill.                                      *)
THEOREM TypeCorrect == Spec => []TypeOK
  <1>1. Spec => []TInv
    BY InitType, NextType, PTL DEF Spec
  <1> QED
    BY <1>1, PTL DEF TInv
---------------------------------------------------------------------------
(* The ledger never records what the wallet did not move.                   *)

Settling == {"cancel", "reread", "final", "resolve", "balance"}

(* booked <= moved is not inductive: a quantity on its way to the ledger    *)
(* must fit between the baseline, which covers all that was booked before,  *)
(* and what has moved since; and every source speaks of no more than the    *)
(* order has filled.                                                        *)
Counted ==
    /\ booked <= moved
    /\ call.pc \in {"freeCancel", "freeRead", "gate", "post"} => call.ev = {}
    /\ call.pc \in Settling \cup {"post", "persist"} =>
           booked <= call.base /\ call.base <= moved
    /\ call.pc \in Settling =>
           /\ order[call.order].filled + call.base <= moved
           /\ \A e \in call.ev : e.qty <= order[call.order].filled
    /\ call.pc = "persist" => call.qty + call.base <= moved

(* An id not used yet stands for nothing.                                   *)
Fresh == \A o \in Orders : o > posted => order[o].filled = 0 /\ ~order[o].live

CInv == TInv /\ Counted /\ Fresh

(* The order's quantities are numbers.                                      *)
LEMMA Numbers ==
    ASSUME TInv
    PROVE  /\ moved \in Nat /\ booked \in Nat /\ call.base \in Nat
           /\ call.size \in Nat /\ call.qty \in Nat
           /\ \A e \in call.ev : e.qty \in Nat
           /\ \A o \in Orders : order[o].filled \in Nat
           /\ call.pc \in Settling \cup {"persist"} => call.order \in Orders
  BY DEF TInv, TypeOK, Call, Evidence, Order, InRange, Settling, Placed

LEMMA CancelKeepsFilled ==
    ASSUME TypeOK, NEW o, NEW ack, Cancel(o, ack)
    PROVE  \A p \in Orders : order'[p].filled = order[p].filled
  <1>1. order \in [Orders -> Order]
    BY DEF TypeOK
  <1>2. order' = order \/ order' = [order EXCEPT ![o].live = FALSE]
    BY DEF Cancel
  <1> QED
    BY <1>1, <1>2 DEF Order

LEMMA HeardCounts ==
    ASSUME TInv, NEW o \in Orders, NEW r \in Readings(o)
    PROVE  \A e \in Heard(o, r) : e.qty <= order[o].filled
  <1>1. order[o].filled \in Nat
    BY Numbers
  <1>2. \A m \in Matched(o) : m <= order[o].filled
    BY <1>1 DEF Matched
  <1>3. r.matched \subseteq Matched(o)
    BY DEF Readings, NoReading
  <1> QED
    BY <1>2, <1>3 DEF Heard

LEMMA DeltasCount ==
    ASSUME TInv, "walletLag" \notin Faults, call.base <= moved
    PROVE  \A q \in WalletDeltas : q \in Nat /\ q + call.base <= moved
  <1>1. moved \in Nat /\ call.base \in Nat /\ call.size \in Nat
    BY Numbers
  <1>2. MovedReadings = {moved}
    BY DEF MovedReadings
  <1>3. moved - call.base \in Nat
    BY <1>1
  <1>4. \A q \in WalletDeltas :
           q = moved - call.base \/ (q = call.size /\ ~(moved - call.base < call.size)) \/ q = 0
    BY <1>2 DEF WalletDeltas
  <1> QED
    BY <1>1, <1>3, <1>4

LEMMA QuietCount ==
    ASSUME CInv, Begin \/ FreeCancel \/ FreeRead \/ GateSkip \/ PostRejected
                 \/ PersistFails \/ Restart \/ ReverseDiff
    PROVE  Counted'
  <1>1. moved' = moved /\ booked' = booked
    BY DEF Begin, FreeCancel, FreeRead, GateSkip, PostRejected, PersistFails,
       Restart, ReverseDiff, venue, Cancel
  <1>2. CASE ReverseDiff
    BY <1>2 DEF ReverseDiff, venue, CInv, Counted
  <1>3. CASE Begin
    <2>1. call'.pc \in {"freeCancel", "gate"} /\ call'.ev = {}
      BY <1>3 DEF Begin, Idle
    <2> QED
      BY <1>1, <2>1 DEF CInv, Counted, Settling
  <1>4. CASE FreeCancel \/ FreeRead
    <2>0. call \in Call
      BY DEF CInv, TInv, TypeOK
    <2>1. CASE FreeCancel
      <3>1. \E ack \in BOOLEAN : call' = [call EXCEPT !.pc = "freeRead", !.acked = ack]
        BY <2>1 DEF FreeCancel
      <3>2. call'.pc = "freeRead" /\ call'.ev = call.ev
        BY <2>0, <3>1 DEF Call
      <3> QED
        BY <1>1, <2>1, <3>2 DEF FreeCancel, CInv, Counted, Settling
    <2>2. CASE FreeRead
      <3>1. call' = [call EXCEPT !.pc = "gate", !.acked = FALSE] \/ call' = Idle
        BY <2>2, Zenon DEF FreeRead
      <3>2. CASE call' = Idle
        BY <1>1, <3>2 DEF Idle, CInv, Counted, Settling
      <3>3. CASE call' = [call EXCEPT !.pc = "gate", !.acked = FALSE]
        <4>1. call'.pc = "gate" /\ call'.ev = call.ev
          BY <2>0, <3>3 DEF Call
        <4> QED
          BY <1>1, <2>2, <4>1 DEF FreeRead, CInv, Counted, Settling
      <3> QED
        BY <3>1, <3>2, <3>3
    <2> QED
      BY <1>4, <2>1, <2>2
  <1>5. CASE GateSkip \/ PostRejected \/ PersistFails \/ Restart
    <2>1. call'.pc = "idle"
      BY <1>5 DEF GateSkip, PostRejected, PersistFails, Restart, Idle
    <2> QED
      BY <1>1, <2>1 DEF CInv, Counted, Settling
  <1> QED
    BY <1>2, <1>3, <1>4, <1>5

LEMMA GatePassCount ==
    ASSUME CInv, "walletLag" \notin Faults, GatePass
    PROVE  Counted'
  <1>0. call \in Call /\ MovedReadings = {moved}
    BY DEF CInv, TInv, TypeOK, MovedReadings
  <1>1. PICK m \in MovedReadings : call' = [call EXCEPT !.pc = "post", !.base = m]
    BY DEF GatePass
  <1>2. call'.pc = "post" /\ call'.base = moved /\ call'.ev = call.ev
    BY <1>0, <1>1 DEF Call
  <1>3. /\ moved' = moved /\ booked' = booked /\ moved \in Nat
        /\ call.pc = "gate"
    BY Numbers DEF GatePass, venue, CInv
  <1> QED
    BY <1>2, <1>3 DEF CInv, Counted, Settling

LEMMA PostCount ==
    ASSUME CInv, PostAnswered \/ PostLost
    PROVE  Counted'
  <1>0. /\ call \in Call /\ order \in [Orders -> Order] /\ posted \in 0 .. MaxOrders
        /\ posted + 1 \in Orders /\ posted < MaxOrders
        /\ moved \in Nat /\ booked \in Nat /\ call.base \in Nat
        /\ call.size \in Nat
        /\ booked <= call.base /\ call.base <= moved
        /\ call.ev = {} /\ order[posted + 1].filled = 0
    <2>1. call.pc = "post" /\ TInv /\ Counted
      BY DEF CInv, PostAnswered, PostLost
    <2>2. call \in Call /\ order \in [Orders -> Order] /\ posted \in 0 .. MaxOrders
          /\ posted < MaxOrders
      BY <2>1 DEF TInv, TypeOK, InRange
    <2>3. posted + 1 \in Orders
      BY <2>2, BoundsAssumption DEF Orders
    <2>4. booked <= call.base /\ call.base <= moved /\ call.ev = {}
      BY <2>1 DEF Counted
    <2>5. order[posted + 1].filled = 0
      BY <2>2, <2>3, BoundsAssumption DEF CInv, Fresh
    <2> QED
      BY <2>1, <2>2, <2>3, <2>4, <2>5, Numbers
  <1>l. ASSUME NEW c \in 0 .. call.size, Lands(c)
        PROVE  order'[posted + 1].filled = c /\ moved' = moved + c /\ c \in Nat
    BY <1>0, <1>l DEF Lands
  <1>b. booked' = booked
    BY DEF PostAnswered, PostLost
  <1>1. CASE PostAnswered
    <2>1. PICK c \in 0 .. call.size, usable \in BOOLEAN, named \in BOOLEAN,
               tx \in BOOLEAN :
            /\ usable \/ "badBody" \in Faults
            /\ named \/ "noId" \in Faults
            /\ Lands(c)
            /\ call' = [call EXCEPT
                  !.order = posted + 1,
                  !.named = named,
                  !.ev = PostEvidence(c, usable, tx),
                  !.qty = IF usable THEN c ELSE 0,
                  !.rests = ~named /\ ~(usable /\ c = call.size),
                  !.pc = IF usable /\ c = call.size THEN "persist"
                         ELSE IF named THEN "cancel" ELSE "resolve"]
      BY <1>1, Zenon DEF PostAnswered
    <2>2. /\ call'.order = posted + 1 /\ call'.base = call.base
          /\ call'.ev = PostEvidence(c, usable, tx)
          /\ call'.qty = IF usable THEN c ELSE 0
          /\ call'.pc = IF usable /\ c = call.size THEN "persist"
                        ELSE IF named THEN "cancel" ELSE "resolve"
      BY <1>0, <2>1, Zenon DEF Call
    <2>3. call'.pc \in {"persist", "cancel", "resolve"} /\ call'.qty \in {0, c}
      BY <2>2
    <2>4. \A e \in call'.ev : e.qty = c
      BY <2>2 DEF PostEvidence
    <2>5. order'[posted + 1].filled = c /\ moved' = moved + c /\ c \in Nat
      BY <1>l, <2>1
    <2> QED
      BY <1>0, <1>b, <2>2, <2>3, <2>4, <2>5 DEF Counted, Settling
  <1>2. CASE PostLost
    <2>1. call' = [call EXCEPT !.pc = "balance", !.order = posted + 1]
      BY <1>2 DEF PostLost
    <2>2. /\ call'.order = posted + 1 /\ call'.base = call.base
          /\ call'.ev = {} /\ call'.pc = "balance"
      BY <1>0, <2>1 DEF Call
    <2>3. order'[posted + 1].filled + call.base <= moved' /\ moved <= moved'
      <3>1. CASE \E c \in 0 .. call.size : Lands(c)
        BY <1>0, <1>l, <3>1
      <3>2. CASE UNCHANGED <<order, moved>>
        BY <1>0, <3>2
      <3> QED
        BY <1>2, <3>1, <3>2 DEF PostLost
    <2>4. moved' \in Nat
      BY <1>2, PostLostType DEF CInv, TInv, TypeOK
    <2> QED
      BY <1>0, <1>b, <2>2, <2>3, <2>4 DEF Counted, Settling
  <1> QED
    BY <1>1, <1>2

LEMMA SettleCount ==
    ASSUME CInv, TryCancel \/ RereadTerminal \/ RereadAgain \/ FinalRead
    PROVE  Counted'
  <1>0. /\ call \in Call /\ TypeOK /\ TInv /\ call.order \in Orders
        /\ call.pc \in Settling
        /\ booked <= call.base /\ call.base <= moved
        /\ order[call.order].filled + call.base <= moved
        /\ \A e \in call.ev : e.qty <= order[call.order].filled
    BY DEF CInv, TInv, TypeOK, InRange, Placed, Counted, Settling,
       TryCancel, RereadTerminal, RereadAgain, FinalRead
  <1>n. booked <= moved
    BY DEF CInv, Counted
  <1>1. moved' = moved /\ booked' = booked
    BY DEF TryCancel, RereadTerminal, RereadAgain, FinalRead, venue, Cancel
  <1>2. CASE TryCancel
    <2>1. PICK ack \in BOOLEAN :
            /\ Cancel(call.order, ack)
            /\ call' = [call EXCEPT !.pc = IF ack THEN "final" ELSE "reread"]
      BY <1>2 DEF TryCancel
    <2>2. /\ call'.pc \in {"final", "reread"} /\ call'.order = call.order
          /\ call'.ev = call.ev /\ call'.base = call.base
      BY <1>0, <2>1 DEF Call
    <2>3. order'[call.order].filled = order[call.order].filled
      BY <1>0, <2>1, CancelKeepsFilled
    <2> QED
      BY <1>0, <1>n, <1>1, <2>2, <2>3 DEF Counted, Settling
  <1>3. CASE RereadTerminal \/ RereadAgain \/ FinalRead
    <2>1. /\ call'.pc \in {"resolve", "cancel", "final"}
          /\ call'.order = call.order /\ call'.base = call.base
          /\ \E r \in Readings(call.order) :
                 call'.ev = call.ev \cup Heard(call.order, r)
      BY <1>0, <1>3, ReadType
    <2>2. order' = order
      BY <1>3 DEF RereadTerminal, RereadAgain, FinalRead, venue
    <2>3. \A e \in call'.ev : e.qty <= order[call.order].filled
      BY <1>0, <2>1, HeardCounts
    <2> QED
      BY <1>0, <1>n, <1>1, <2>1, <2>2, <2>3 DEF Counted, Settling
  <1> QED
    BY <1>2, <1>3

LEMMA BookCount ==
    ASSUME CInv, "walletLag" \notin Faults, Resolve \/ FromBalance
    PROVE  Counted'
  <1>0. /\ TypeOK /\ TInv /\ call \in Call
        /\ call.pc \in Settling /\ call.order \in Orders
        /\ booked <= call.base /\ call.base <= moved
        /\ order[call.order].filled + call.base <= moved
        /\ \A e \in call.ev : e.qty <= order[call.order].filled
    BY DEF CInv, TInv, TypeOK, InRange, Placed, Counted, Settling,
       Resolve, FromBalance
  <1>n. /\ moved \in Nat /\ booked \in Nat /\ call.base \in Nat
        /\ order[call.order].filled \in Nat /\ call.size \in Nat
        /\ \A e \in call.ev : e.qty \in Nat
    BY <1>0, Numbers
  <1>1. moved' = moved
    BY DEF Resolve, FromBalance, venue
  <1>2. \E q \in Nat : q + call.base <= moved /\ IF q > 0 THEN ToPersist(q) ELSE Skip
    <2>1. CASE FromBalance
      BY <1>0, <2>1, DeltasCount DEF FromBalance
    <2>2. CASE Resolve
      <3>1. PICK q \in 0 .. call.size :
              Settled(q) /\ IF q > 0 THEN ToPersist(q) ELSE Skip
        BY <2>2 DEF Resolve
      <3>2. CASE Resolves(call.ev, q)
        <4>1. PICK e \in call.ev : e.qty = q
          BY <3>2 DEF Resolves, Counting
        <4> QED
          BY <1>0, <1>n, <3>1, <4>1
      <3>3. CASE q \in WalletDeltas
        BY <1>0, <3>1, <3>3, DeltasCount
      <3> QED
        BY <3>1, <3>2, <3>3 DEF Settled
    <2> QED
      BY <2>1, <2>2
  <1>3. PICK q \in Nat : q + call.base <= moved /\ IF q > 0 THEN ToPersist(q) ELSE Skip
    BY <1>2
  <1>4. CASE ToPersist(q)
    <2>1. /\ call'.pc = "persist" /\ call'.qty = q /\ call'.base = call.base
          /\ booked' = booked
      BY <1>0, <1>4, ToPersistType
    <2> QED
      BY <1>0, <1>1, <1>3, <2>1 DEF Counted, Settling, CInv
  <1>5. CASE Skip
    <2>1. call'.pc = "idle" /\ booked' = booked
      BY <1>5 DEF Skip, Idle
    <2> QED
      BY <1>0, <1>1, <2>1 DEF Counted, Settling, CInv
  <1> QED
    BY <1>3, <1>4, <1>5

LEMMA PersistCount == ASSUME CInv, Persist PROVE Counted'
  <1>1. call.pc = "persist" /\ booked' = booked + call.qty /\ moved' = moved
    BY DEF Persist
  <1>2. booked <= call.base /\ call.qty + call.base <= moved
    BY <1>1 DEF CInv, Counted
  <1>3. call'.pc = "idle"
    BY DEF Persist, Idle
  <1>4. booked' <= moved'
    BY <1>1, <1>2, Numbers DEF CInv
  <1> QED
    BY <1>3, <1>4 DEF Counted, Settling

LEMMA VenueCount == ASSUME CInv, VenueStep PROVE Counted'
  <1> SUFFICES ASSUME NEW o \in Orders, Fill(o) \/ VenueEnds(o)
               PROVE  Counted'
    BY DEF VenueStep
  <1>0. /\ moved \in Nat /\ booked \in Nat /\ call.base \in Nat /\ call.qty \in Nat
        /\ \A e \in call.ev : e.qty \in Nat
        /\ \A p \in Orders : order[p].filled \in Nat
        /\ order \in [Orders -> Order]
        /\ call.pc \in Settling => call.order \in Orders
    BY Numbers DEF CInv, TInv, TypeOK
  <1>1. call' = call /\ booked' = booked
    BY DEF Fill, VenueEnds
  <1>4. ASSUME \/ /\ moved' = moved + 1
                  /\ \A p \in Orders : \/ order'[p].filled = order[p].filled
                                       \/ order'[p].filled = order[p].filled + 1
               \/ /\ moved' = moved
                  /\ \A p \in Orders : order'[p].filled = order[p].filled
        PROVE  Counted'
    <2>1. moved' \in Nat /\ moved <= moved'
      BY <1>0, <1>4
    <2>2. booked <= moved
      BY DEF CInv, Counted
    <2>3. CASE call.pc \in Settling
      <3>1. /\ call.order \in Orders
            /\ booked <= call.base /\ call.base <= moved
            /\ order[call.order].filled + call.base <= moved
            /\ \A e \in call.ev : e.qty <= order[call.order].filled
        BY <1>0, <2>3 DEF CInv, Counted
      <3>2. /\ order'[call.order].filled + call.base <= moved'
            /\ \A e \in call.ev : e.qty <= order'[call.order].filled
        BY <1>0, <1>4, <3>1
      <3> QED
        BY <1>0, <1>1, <2>1, <2>2, <2>3, <3>1, <3>2 DEF Counted, Settling
    <2>4. CASE call.pc \notin Settling
      <3>1. /\ call.pc \in {"freeCancel", "freeRead", "gate", "post"} => call.ev = {}
            /\ call.pc \in {"post", "persist"} =>
                   booked <= call.base /\ call.base <= moved
            /\ call.pc = "persist" => call.qty + call.base <= moved
        BY DEF CInv, Counted
      <3> QED
        BY <1>0, <1>1, <2>1, <2>2, <2>4, <3>1 DEF Counted
    <2> QED
      BY <2>3, <2>4
  <1>2. CASE Fill(o)
    <2>1. moved' = moved + 1
      BY <1>2 DEF Fill
    <2>2. \A p \in Orders : order'[p].filled = order[p].filled
                          \/ order'[p].filled = order[p].filled + 1
      BY <1>0, <1>2 DEF Fill, Order
    <2> QED
      BY <1>0, <1>1, <1>4, <2>1, <2>2
  <1>3. CASE VenueEnds(o)
    <2>1. moved' = moved
      BY <1>3 DEF VenueEnds
    <2>2. \A p \in Orders : order'[p].filled = order[p].filled
      BY <1>0, <1>3 DEF VenueEnds, Order
    <2> QED
      BY <1>0, <1>1, <1>4, <2>1, <2>2
  <1> QED
    BY <1>2, <1>3

LEMMA FreshStep == ASSUME CInv, Next PROVE Fresh'
  <1>0. /\ order \in [Orders -> Order] /\ posted \in 0 .. MaxOrders /\ Fresh
        /\ TypeOK
    BY DEF CInv, TInv, TypeOK
  <1>1. CASE UNCHANGED <<order, posted>>
    BY <1>0, <1>1 DEF Fresh
  <1>c. ASSUME NEW p, NEW ack, Cancel(p, ack)
        PROVE  Fresh'
    <2>1. order' = order \/ order' = [order EXCEPT ![p].live = FALSE]
      BY <1>c DEF Cancel
    <2>2. \A o \in Orders : /\ order'[o].filled = order[o].filled
                            /\ ~order[o].live => ~order'[o].live
      BY <1>0, <2>1 DEF Order
    <2>3. posted' = posted
      BY <1>c DEF Cancel
    <2>4. ASSUME NEW o \in Orders, o > posted
          PROVE  order'[o].filled = 0 /\ ~order'[o].live
      <3>1. order[o].filled = 0 /\ ~order[o].live
        BY <1>0, <2>4 DEF Fresh
      <3>2. order'[o].filled = order[o].filled
        BY <2>2, <2>4
      <3>3. ~order[o].live => ~order'[o].live
        BY <2>2, <2>4, Zenon
      <3> QED
        BY <3>1, <3>2, <3>3, Zenon
    <2> QED
      BY <2>3, <2>4 DEF Fresh
  <1>2. CASE FreeCancel
    BY <1>c, <1>2 DEF FreeCancel
  <1>3. CASE TryCancel
    BY <1>c, <1>3 DEF TryCancel
  <1>l. ASSUME NEW c, Lands(c)
        PROVE  Fresh'
    <2>1. \A o \in Orders : o > posted + 1 => order'[o] = order[o]
      BY <1>0, <1>l DEF Lands
    <2> QED
      BY <1>0, <1>l, <2>1 DEF Lands, Fresh, Orders
  <1>4. CASE PostAnswered
    BY <1>l, <1>4 DEF PostAnswered
  <1>5. CASE PostLost
    <2>1. CASE posted' = posted + 1 /\ UNCHANGED <<order, moved>>
      BY <1>0, <2>1 DEF Fresh, Orders
    <2> QED
      BY <1>l, <1>5, <2>1 DEF PostLost
  <1>6. CASE Persist
    <2>1. \A o \in Orders : /\ order'[o].filled = order[o].filled
                            /\ order'[o].live = order[o].live
      BY <1>0, <1>6 DEF Persist, Order
    <2> QED
      BY <1>0, <1>6, <2>1 DEF Persist, Fresh
  <1>7. CASE VenueStep
    <2>1. PICK p \in Orders : Fill(p) \/ VenueEnds(p)
      BY <1>7 DEF VenueStep
    <2>2. order[p].live
      BY <2>1 DEF Fill, VenueEnds
    <2>3. \A o \in Orders : o # p => order'[o] = order[o]
      BY <1>0, <2>1 DEF Fill, VenueEnds
    <2> QED
      BY <1>0, <2>1, <2>2, <2>3 DEF Fill, VenueEnds, Fresh
  <1>8. CASE \/ Begin \/ FreeRead \/ GatePass \/ GateSkip \/ PostRejected
             \/ RereadTerminal \/ RereadAgain \/ FinalRead \/ Resolve
             \/ FromBalance \/ PersistFails \/ Restart \/ ReverseDiff
    <2>1. UNCHANGED <<order, posted>>
      BY <1>8 DEF Begin, FreeRead, GatePass, GateSkip, PostRejected,
         RereadTerminal, RereadAgain, FinalRead, Resolve, FromBalance,
         PersistFails, Restart, ReverseDiff, venue
    <2> QED
      BY <1>1, <2>1
  <1> QED
    BY <1>2, <1>3, <1>4, <1>5, <1>6, <1>7, <1>8 DEF Next, CallStep

LEMMA CountedInductive ==
    ASSUME "walletLag" \notin Faults
    PROVE  /\ Init => CInv
           /\ CInv /\ [Next]_vars => CInv'
  <1>1. Init => CInv
    <2> SUFFICES ASSUME Init PROVE CInv
      OBVIOUS
    <2>1. Counted
      BY DEF Init, Counted, Settling, Idle
    <2>2. Fresh
      BY DEF Init, Fresh, Unposted
    <2> QED
      BY <2>1, <2>2, InitType DEF CInv
  <1>2. ASSUME CInv, [Next]_vars
        PROVE  CInv'
    <2>1. TInv'
      BY <1>2, NextType DEF CInv
    <2>2. CASE UNCHANGED vars
      BY <2>1, <2>2, <1>2 DEF vars, CInv, Counted, Settling, Fresh
    <2>3. CASE Next
      <3>1. Fresh'
        BY <1>2, <2>3, FreshStep
      <3>2. Counted'
        BY <1>2, <2>3, QuietCount, GatePassCount, PostCount, SettleCount,
           BookCount, PersistCount, VenueCount DEF Next, CallStep
      <3> QED
        BY <2>1, <3>1, <3>2 DEF CInv
    <2> QED
      BY <1>2, <2>2, <2>3
  <1> QED
    BY <1>1, <1>2

(* A current balance read is what the counting needs.                       *)
WInv == TInv /\ ("walletLag" \notin Faults => CInv)

(* With a balance read that is current, whatever else goes wrong, the ledger*)
(* never records a share the wallet did not move.  Code: the evidence model *)
(* and the baseline of _wallet_delta.                                       *)
THEOREM LedgerInventsNothing == Spec => []NothingInvented
  <1>1. Init => WInv
    BY InitType, CountedInductive DEF WInv
  <1>2. WInv /\ [Next]_vars => WInv'
    <2> SUFFICES ASSUME WInv, [Next]_vars
                 PROVE  WInv'
      OBVIOUS
    <2>1. TInv'
      BY NextType DEF WInv
    <2>2. setting' = setting
      BY DEF Next, vars
    <2>3. ASSUME "walletLag" \notin Faults'
          PROVE  CInv'
      <3>1. "walletLag" \notin Faults
        BY <2>2, <2>3 DEF Faults
      <3> QED
        BY <3>1, CountedInductive DEF WInv
    <2> QED
      BY <2>1, <2>3 DEF WInv
  <1>3. WInv => NothingInvented
    BY DEF WInv, CInv, Counted, NothingInvented
  <1> QED
    BY <1>1, <1>2, <1>3, PTL DEF Spec

---------------------------------------------------------------------------
(* An order the executor knows of is the only one on the book, and is not   *)
(* forgotten while it is there.                                             *)

(* What is live has shares to fill; nothing is remembered beside an order in*)
(* the making; and an acknowledged cancel took the remembered order off.    *)
Fillable == \A o \in Orders : order[o].live => order[o].filled < order[o].size

Memory ==
    /\ call.pc \notin {"idle", "freeCancel", "freeRead"} => resting = 0
    /\ call.pc = "freeRead" /\ call.acked => ~order[resting].live

MInv == TInv /\ Fillable /\ Memory

(* A reading is terminal only of an order off the book.                     *)
LEMMA TerminalIsOff ==
    ASSUME TypeOK, Fillable, NEW o \in Orders, NEW r \in Readings(o), Terminal(o, r)
    PROVE  ~order[o].live
  <1> SUFFICES ASSUME order[o].live
               PROVE  FALSE
    OBVIOUS
  <1>1. order[o].filled \in Nat /\ order[o].size \in Nat /\ order[o].filled < order[o].size
    BY DEF TypeOK, Order, Fillable
  <1>2. Done(o) = {FALSE}
    BY DEF Done
  <1>3. ~r.done /\ r.matched \subseteq Matched(o)
    BY <1>2 DEF Readings, NoReading
  <1>4. \A m \in Matched(o) : m \in Nat /\ m <= order[o].filled
    BY <1>1 DEF Matched
  <1> QED
    BY <1>1, <1>3, <1>4 DEF Terminal

(* A cancel puts nothing on the book, and, acknowledged, takes its order off.*)
LEMMA CancelTakesOff ==
    ASSUME TypeOK, NEW o \in Orders, NEW ack \in BOOLEAN, Cancel(o, ack)
    PROVE  /\ \A p \in Orders : /\ order'[p].live => order[p].live
                                /\ order'[p].filled = order[p].filled
                                /\ order'[p].size = order[p].size
           /\ ack => ~order'[o].live
  <1>1. order \in [Orders -> Order]
    BY DEF TypeOK
  <1>2. order' = order \/ order' = [order EXCEPT ![o].live = FALSE]
    BY DEF Cancel
  <1>3. ack => order' = [order EXCEPT ![o].live = FALSE]
    BY DEF Cancel
  <1> QED
    BY <1>1, <1>2, <1>3 DEF Order

(* What a landing order puts on the book.                                   *)
LEMMA LandsAlone ==
    ASSUME TInv, posted < MaxOrders, NEW c \in 0 .. call.size, Lands(c)
    PROVE  /\ posted + 1 \in Orders
           /\ order'[posted + 1].live = (c < call.size)
           /\ order'[posted + 1].filled = c /\ order'[posted + 1].size = call.size
           /\ \A p \in Orders : p # posted + 1 => order'[p] = order[p]
  <1>1. order \in [Orders -> Order] /\ posted \in 0 .. MaxOrders
    BY DEF TInv, TypeOK
  <1>2. posted + 1 \in Orders
    BY <1>1, BoundsAssumption DEF Orders
  <1> QED
    BY <1>1, <1>2 DEF Lands

(* The venue's steps put nothing on the book.                               *)
LEMMA VenueTakesOff ==
    ASSUME TInv, Fillable, VenueStep
    PROVE  /\ \A p \in Orders : order'[p].live => order[p].live
           /\ Fillable' /\ UNCHANGED <<resting, call>>
  <1> SUFFICES ASSUME NEW o \in Orders, Fill(o) \/ VenueEnds(o)
               PROVE  /\ \A p \in Orders : order'[p].live => order[p].live
                      /\ Fillable' /\ UNCHANGED <<resting, call>>
    BY DEF VenueStep
  <1>1. order \in [Orders -> Order]
    BY DEF TInv, TypeOK
  <1>2. CASE Fill(o)
    <2>1. /\ order[o].live
          /\ order' = [order EXCEPT ![o].filled = @ + 1,
                                    ![o].live = order[o].filled + 1 < order[o].size]
      BY <1>2 DEF Fill
    <2>2. /\ order'[o].filled = order[o].filled + 1 /\ order'[o].size = order[o].size
          /\ order'[o].live = (order[o].filled + 1 < order[o].size)
          /\ \A p \in Orders : p # o => order'[p] = order[p]
      BY <1>1, <2>1 DEF Order
    <2> QED
      BY <1>2, <2>1, <2>2 DEF Fill, Fillable
  <1>3. CASE VenueEnds(o)
    <2>1. /\ ~order'[o].live /\ \A p \in Orders : p # o => order'[p] = order[p]
      BY <1>1, <1>3 DEF VenueEnds, Order
    <2> QED
      BY <1>3, <2>1 DEF VenueEnds, Fillable
  <1> QED
    BY <1>2, <1>3

(* Where a call goes, and what becomes of the memory, step by step.         *)
LEMMA FreeMoves ==
    ASSUME TInv, FreeCancel \/ FreeRead
    PROVE  /\ resting \in Orders
           /\ \/ /\ call'.pc = "freeRead" /\ call.pc = "freeCancel" /\ resting' = resting
                 /\ \E ack \in BOOLEAN : Cancel(resting, ack) /\ call'.acked = ack
              \/ /\ call.pc = "freeRead" /\ order' = order
                 /\ \/ /\ call'.pc = "gate" /\ resting' = 0
                       /\ call.acked \/ \E r \in Readings(resting) : Terminal(resting, r)
                    \/ call' = Idle /\ resting' = resting
  <1>0. call \in Call /\ resting \in Orders
    BY DEF TInv, TypeOK, InRange, FreeCancel, FreeRead
  <1>1. CASE FreeCancel
    <2>1. PICK ack \in BOOLEAN : /\ Cancel(resting, ack)
                                 /\ call' = [call EXCEPT !.pc = "freeRead", !.acked = ack]
      BY <1>1 DEF FreeCancel
    <2>2. call'.pc = "freeRead" /\ call'.acked = ack
      BY <1>0, <2>1 DEF Call
    <2> QED
      BY <1>0, <1>1, <2>1, <2>2 DEF FreeCancel
  <1>2. CASE FreeRead
    <2>1. call.pc = "freeRead" /\ order' = order
      BY <1>2 DEF FreeRead, venue
    <2>2. \/ /\ resting' = 0 /\ call' = [call EXCEPT !.pc = "gate", !.acked = FALSE]
             /\ call.acked \/ \E r \in Readings(resting) : Terminal(resting, r)
          \/ call' = Idle /\ resting' = resting
      BY <1>2, Zenon DEF FreeRead
    <2>3. call' = [call EXCEPT !.pc = "gate", !.acked = FALSE] => call'.pc = "gate"
      BY <1>0 DEF Call
    <2> QED
      BY <1>0, <2>1, <2>2, <2>3
  <1> QED
    BY <1>1, <1>2

(* An answered order is the call's, named unless its id was lost, and, filled*)
(* in full, goes to the row; a lost answer leaves only the balance.         *)
LEMMA PostMoves ==
    ASSUME TInv, PostAnswered \/ PostLost
    PROVE  /\ call'.pc \in {"persist", "cancel", "resolve", "balance"}
           /\ PostAnswered => \E c \in 0 .. call.size, named \in BOOLEAN :
                /\ named \/ "noId" \in Faults
                /\ Lands(c)
                /\ call'.order = posted + 1 /\ call'.named = named
                /\ \/ (call'.pc = "persist" /\ c = call.size)
                   \/ call'.pc = IF named THEN "cancel" ELSE "resolve"
  <1>0. call \in Call
    BY DEF TInv, TypeOK
  <1>1. ASSUME PostAnswered
        PROVE  \E c \in 0 .. call.size, named \in BOOLEAN :
                 /\ named \/ "noId" \in Faults
                 /\ Lands(c)
                 /\ call'.order = posted + 1 /\ call'.named = named
                 /\ \/ (call'.pc = "persist" /\ c = call.size)
                    \/ call'.pc = IF named THEN "cancel" ELSE "resolve"
    <2>1. PICK c \in 0 .. call.size, usable \in BOOLEAN, named \in BOOLEAN, tx \in BOOLEAN :
            /\ usable \/ "badBody" \in Faults
            /\ named \/ "noId" \in Faults
            /\ Lands(c)
            /\ call' = [call EXCEPT
                  !.order = posted + 1,
                  !.named = named,
                  !.ev = PostEvidence(c, usable, tx),
                  !.qty = IF usable THEN c ELSE 0,
                  !.rests = ~named /\ ~(usable /\ c = call.size),
                  !.pc = IF usable /\ c = call.size THEN "persist"
                         ELSE IF named THEN "cancel" ELSE "resolve"]
      BY <1>1, Zenon DEF PostAnswered
    <2>2. /\ call'.order = posted + 1 /\ call'.named = named
          /\ call'.pc = IF usable /\ c = call.size THEN "persist"
                        ELSE IF named THEN "cancel" ELSE "resolve"
      BY <1>0, <2>1, Zenon DEF Call
    <2> QED
      BY <2>1, <2>2
  <1>2. PostLost => call'.pc = "balance"
    BY <1>0 DEF PostLost, Call
  <1> QED
    BY <1>1, <1>2

(* What is live has shares left, and the memory is in order, by induction.  *)
LEMMA MemoryStep == ASSUME MInv, [Next]_vars PROVE Fillable' /\ Memory'
  <1> USE DEF MInv
  <1>t. call \in Call /\ order \in [Orders -> Order] /\ TypeOK
    BY DEF TInv, TypeOK
  <1>1. CASE UNCHANGED vars
    BY <1>1 DEF vars, Fillable, Memory
  <1>2. CASE Begin
    <2>1. call'.pc \in {"freeCancel", "gate"} /\ (call'.pc = "gate" => resting = 0)
      BY <1>2 DEF Begin, Idle
    <2> QED
      BY <1>2, <2>1 DEF Begin, venue, Fillable, Memory
  <1>3. CASE FreeCancel \/ FreeRead
    <2>1. CASE call'.pc = "freeRead" /\ resting' = resting
               /\ \E ack \in BOOLEAN : Cancel(resting, ack) /\ call'.acked = ack
      <3>1. resting \in Orders
        BY <1>3, FreeMoves
      <3> QED
        BY <1>t, <2>1, <3>1, CancelTakesOff DEF Fillable, Memory
    <2>2. CASE order' = order /\ ((call'.pc = "gate" /\ resting' = 0) \/ call' = Idle)
      BY <2>2 DEF Fillable, Memory, Idle
    <2> QED
      BY <1>3, <2>1, <2>2, FreeMoves
  <1>4. CASE GatePass
    <2>1. call'.pc = "post"
      BY <1>t, <1>4 DEF GatePass, Call
    <2> QED
      BY <1>4, <2>1 DEF GatePass, venue, Fillable, Memory
  <1>5. CASE GateSkip \/ PostRejected \/ PersistFails \/ Restart
    BY <1>5 DEF GateSkip, PostRejected, PersistFails, Restart, Idle, venue, Fillable, Memory
  <1>6. CASE PostAnswered \/ PostLost
    <2>1. call.pc = "post" /\ resting' = resting /\ posted < MaxOrders
      BY <1>6 DEF PostAnswered, PostLost, TInv, InRange
    <2>2. call'.pc \in {"persist", "cancel", "resolve", "balance"}
      BY <1>6, PostMoves
    <2>3. (\E c \in 0 .. call.size : Lands(c)) \/ order' = order
      BY <1>6 DEF PostAnswered, PostLost
    <2>4. call.size \in Nat
      BY <1>t DEF Call
    <2>5. Fillable'
      BY <2>1, <2>3, <2>4, LandsAlone DEF Fillable
    <2> QED
      BY <2>1, <2>2, <2>5 DEF Memory
  <1>7. CASE TryCancel
    <2>1. call.order \in Orders /\ call.pc = "cancel" /\ resting' = resting
      BY <1>7 DEF TryCancel, TInv, InRange, Placed
    <2>2. call'.pc \in {"final", "reread"}
      BY <1>t, <1>7 DEF TryCancel, Call
    <2>3. \E ack \in BOOLEAN : Cancel(call.order, ack)
      BY <1>7 DEF TryCancel
    <2> QED
      BY <1>t, <2>1, <2>2, <2>3, CancelTakesOff DEF Fillable, Memory
  <1>8. CASE RereadTerminal \/ RereadAgain \/ FinalRead
    <2>1. call.pc \in {"reread", "final"} /\ UNCHANGED <<order, resting>>
      BY <1>8 DEF RereadTerminal, RereadAgain, FinalRead, venue
    <2> QED
      BY <1>8, <2>1, ReadType DEF Fillable, Memory
  <1>9. CASE Resolve \/ FromBalance
    <2>1. call.pc \in {"resolve", "balance"} /\ order' = order
      BY <1>9 DEF Resolve, FromBalance, venue
    <2>2. (call'.pc = "persist" /\ resting' = resting) \/ call' = Idle
      BY <1>t, <1>9 DEF Resolve, FromBalance, ToPersist, Skip, Call
    <2> QED
      BY <2>1, <2>2 DEF Fillable, Memory, Idle
  <1>10. CASE Persist
    <2>1. call' = Idle /\ \A p \in Orders : /\ order'[p].live = order[p].live
                                            /\ order'[p].filled = order[p].filled
                                            /\ order'[p].size = order[p].size
      BY <1>t, <1>10 DEF Persist, Order
    <2> QED
      BY <2>1 DEF Fillable, Memory, Idle
  <1>11. CASE VenueStep
    BY <1>11, VenueTakesOff DEF Memory, TInv, InRange
  <1>12. CASE ReverseDiff
    BY <1>12 DEF ReverseDiff, venue, Fillable, Memory
  <1> QED
    BY <1>1, <1>2, <1>3, <1>4, <1>5, <1>6, <1>7, <1>8, <1>9, <1>10, <1>11, <1>12
       DEF Next, CallStep

LEMMA MemoryHolds == Spec => []MInv
  <1>1. Init => MInv
    <2>1. Init => Fillable /\ Memory
      BY DEF Init, Fillable, Memory, Unposted, Idle
    <2> QED
      BY <2>1, InitType DEF MInv
  <1>2. MInv /\ [Next]_vars => MInv'
    BY MemoryStep, NextType DEF MInv
  <1> QED
    BY <1>1, <1>2, PTL DEF Spec

(* The executor forgets an order only when a cancel of it was acknowledged  *)
(* or a reading shows it terminal, and then it is off the book; or with the *)
(* process (_resting_order_off_book, ForgottenOffBook).                     *)
THEOREM ForgetsOnlyOffBook == Spec => ForgottenOffBook
  <1>1. MInv /\ [Next]_vars =>
          (resting # 0 /\ resting' # resting =>
             ~order'[resting].live \/ (call' = Idle /\ "restart" \in Faults))
    <2> SUFFICES ASSUME MInv, [Next]_vars, resting # 0, resting' # resting
                 PROVE  ~order'[resting].live \/ (call' = Idle /\ "restart" \in Faults)
      OBVIOUS
    <2>1. CASE FreeCancel \/ FreeRead
      <3>1. /\ call.pc = "freeRead" /\ order' = order /\ resting \in Orders
            /\ call.acked \/ \E r \in Readings(resting) : Terminal(resting, r)
        BY <2>1, FreeMoves DEF MInv
      <3> QED
        BY <3>1, TerminalIsOff DEF MInv, TInv, Memory
    <2>2. CASE Resolve \/ FromBalance \/ Persist
      <3>1. call.pc \in {"resolve", "balance", "persist"}
        BY <2>2 DEF Resolve, FromBalance, Persist
      <3> QED
        BY <3>1 DEF MInv, Memory
    <2>3. CASE Restart
      BY <2>3 DEF Restart
    <2>4. CASE UNCHANGED resting
      BY <2>4
    <2>5. \/ FreeCancel \/ FreeRead \/ Resolve \/ FromBalance \/ Persist \/ Restart
          \/ UNCHANGED resting
      BY DEF Next, CallStep, vars, Begin, GatePass, GateSkip, PostRejected, PostAnswered, PostLost,
         TryCancel, RereadTerminal, RereadAgain, FinalRead, PersistFails, VenueStep, Fill,
         VenueEnds, ReverseDiff
    <2> QED
      BY <2>1, <2>2, <2>3, <2>4, <2>5
  <1> QED
    BY <1>1, MemoryHolds, PTL DEF Spec, ForgottenOffBook

(* The trouble under which an order may be unknown.                         *)
Known == Selling /\ Faults \cap {"lostResponse", "noId", "ledgerFails", "restart"} = {}

(* What is live is remembered, or the order of the call, and the call has   *)
(* its id and, once the settle gave it up, knows that it rests.             *)
Alone ==
    /\ \A o \in Orders : order[o].live =>
         \/ call.pc \in {"idle", "freeCancel", "freeRead"} /\ o = resting
         \/ call.pc \in {"cancel", "reread"} /\ o = call.order
         \/ call.pc = "final" /\ o = call.order /\ call.refused
         \/ call.pc \in {"resolve", "persist"} /\ o = call.order /\ call.rests
    /\ call.pc \in {"cancel", "reread", "final", "resolve", "persist"} => call.named
    /\ call.pc # "balance"

(* What a read does to a call.                                              *)
LEMMA ReadMoves ==
    ASSUME TInv, RereadTerminal \/ RereadAgain \/ FinalRead
    PROVE  /\ call.order \in Orders /\ call'.order = call.order /\ call'.named = call.named
           /\ \/ /\ RereadTerminal /\ call'.pc = "resolve"
                 /\ \E r \in Readings(call.order) : Terminal(call.order, r)
              \/ call'.pc = "cancel" /\ call.pc = "reread"
              \/ call'.pc = "final" /\ call'.refused /\ call.pc = "reread"
              \/ /\ call'.pc = "resolve" /\ call.pc = "final"
                 /\ \E r \in Readings(call.order) :
                      call'.rests = (call.refused /\ ~Terminal(call.order, r))
  <1>0. call \in Call /\ call.order \in Orders
    BY DEF TInv, TypeOK, InRange, Placed, RereadTerminal, RereadAgain, FinalRead
  <1>1. CASE RereadTerminal
    <2>1. PICK r \in Readings(call.order) :
            /\ Terminal(call.order, r)
            /\ call' = [call EXCEPT !.pc = "resolve", !.ev = @ \cup Heard(call.order, r)]
      BY <1>1 DEF RereadTerminal
    <2>2. call'.pc = "resolve" /\ call'.order = call.order /\ call'.named = call.named
      BY <1>0, <2>1, Zenon DEF Call
    <2> QED
      BY <1>0, <1>1, <2>1, <2>2
  <1>2. CASE RereadAgain
    <2>1. PICK r \in Readings(call.order), more \in BOOLEAN :
            call' = [call EXCEPT !.pc = IF more THEN "cancel" ELSE "final",
                                 !.tries = @ + 1, !.refused = ~more,
                                 !.ev = @ \cup Heard(call.order, r)]
      BY <1>2, Zenon DEF RereadAgain
    <2>2. /\ call'.pc = IF more THEN "cancel" ELSE "final"
          /\ call'.refused = ~more /\ call'.order = call.order /\ call'.named = call.named
      BY <1>0, <2>1, Zenon DEF Call
    <2> QED
      BY <1>0, <1>2, <2>2 DEF RereadAgain
  <1>3. CASE FinalRead
    <2>1. PICK r \in Readings(call.order) :
            call' = [call EXCEPT !.pc = "resolve", !.ev = @ \cup Heard(call.order, r),
                                 !.rests = call.refused /\ ~Terminal(call.order, r)]
      BY <1>3, Zenon DEF FinalRead
    <2>2. /\ call'.pc = "resolve" /\ call'.order = call.order /\ call'.named = call.named
          /\ call'.rests = (call.refused /\ ~Terminal(call.order, r))
      BY <1>0, <2>1, Zenon DEF Call
    <2> QED
      BY <1>0, <1>3, <2>2 DEF FinalRead
  <1> QED
    BY <1>1, <1>2, <1>3

(* With no trouble that loses an id, Alone is kept by every step.           *)
LEMMA AloneStep == ASSUME MInv, Known, Alone, [Next]_vars PROVE Alone'
  <1> USE DEF MInv
  <1>t. call \in Call /\ order \in [Orders -> Order] /\ TypeOK
    BY DEF TInv, TypeOK
  <1>o. 0 \notin Orders
    BY DEF Orders
  <1>1. CASE UNCHANGED vars
    BY <1>1 DEF vars, Alone
  <1>2. CASE Begin
    <2>1. /\ call.pc = "idle" /\ UNCHANGED <<order, resting>>
          /\ call'.pc = IF resting # 0 THEN "freeCancel" ELSE "gate"
      BY <1>2 DEF Begin, Idle, venue
    <2> QED
      BY <1>o, <2>1 DEF Alone
  <1>3. CASE FreeCancel \/ FreeRead
    <2>1. resting \in Orders /\ call.pc \in {"freeCancel", "freeRead"}
      BY <1>3, FreeMoves
    <2>2. CASE call'.pc = "freeRead" /\ resting' = resting
               /\ \E ack \in BOOLEAN : Cancel(resting, ack)
      BY <1>t, <2>1, <2>2, CancelTakesOff DEF Alone
    <2>3. CASE /\ call'.pc = "gate" /\ order' = order /\ call.pc = "freeRead"
               /\ call.acked \/ \E r \in Readings(resting) : Terminal(resting, r)
      <3>1. ~order[resting].live
        BY <1>t, <2>1, <2>3, TerminalIsOff DEF Memory
      <3> QED
        BY <2>1, <2>3, <3>1 DEF Alone
    <2>4. CASE call' = Idle /\ UNCHANGED <<order, resting>>
      BY <2>1, <2>4 DEF Alone, Idle
    <2> QED
      BY <1>3, <2>2, <2>3, <2>4, FreeMoves
  <1>4. CASE GatePass
    <2>1. call'.pc = "post" /\ call.pc = "gate" /\ order' = order
      BY <1>t, <1>4 DEF GatePass, Call, venue
    <2> QED
      BY <2>1 DEF Alone
  <1>5. CASE GateSkip \/ PostRejected
    <2>1. call.pc \in {"gate", "post"} /\ order' = order /\ call' = Idle
      BY <1>5 DEF GateSkip, PostRejected, venue
    <2> QED
      BY <2>1 DEF Alone, Idle
  <1>6. CASE PostAnswered
    <2>1. call.pc = "post" /\ posted < MaxOrders
      BY <1>6 DEF PostAnswered, TInv, InRange
    <2>2. PICK c \in 0 .. call.size :
            /\ Lands(c) /\ call'.order = posted + 1 /\ call'.named
            /\ (call'.pc = "persist" /\ c = call.size) \/ call'.pc = "cancel"
      BY <1>6, PostMoves DEF Known
    <2>3. /\ order'[posted + 1].live => c < call.size
          /\ \A p \in Orders : p # posted + 1 => order'[p] = order[p]
      BY <2>1, <2>2, LandsAlone
    <2>4. call.size \in Nat
      BY <1>t DEF Call
    <2>5. \A p \in Orders : ~order[p].live
      BY <2>1 DEF Alone
    <2>6. c < call.size => c # call.size
      BY <2>4
    <2>7. \A p \in Orders : order'[p].live => p = posted + 1 /\ c # call.size
      BY <2>3, <2>5, <2>6
    <2> QED
      BY <2>2, <2>7 DEF Alone
  <1>7. CASE TryCancel
    <2>1. PICK ack \in BOOLEAN :
            /\ Cancel(call.order, ack)
            /\ call' = [call EXCEPT !.pc = IF ack THEN "final" ELSE "reread"]
      BY <1>7 DEF TryCancel
    <2>2. /\ call'.pc = (IF ack THEN "final" ELSE "reread")
          /\ call'.order = call.order /\ call'.named = call.named
      BY <1>t, <2>1 DEF Call
    <2>3. call.pc = "cancel" /\ call.order \in Orders
      BY <1>7 DEF TryCancel, TInv, InRange, Placed
    <2>4. /\ \A p \in Orders : order'[p].live => order[p].live
          /\ ack => ~order'[call.order].live
      BY <1>t, <2>1, <2>3, CancelTakesOff
    <2> QED
      BY <2>2, <2>3, <2>4 DEF Alone
  <1>8. CASE RereadTerminal \/ RereadAgain \/ FinalRead
    <2>1. call.pc \in {"reread", "final"} /\ UNCHANGED <<order, resting>>
      BY <1>8 DEF RereadTerminal, RereadAgain, FinalRead, venue
    <2>2. \A r \in Readings(call.order) :
             Terminal(call.order, r) => ~order[call.order].live
      BY <1>t, <1>8, ReadMoves, TerminalIsOff
    <2>3. RereadTerminal => call.pc = "reread"
      BY DEF RereadTerminal
    <2> QED
      BY <1>8, <2>1, <2>2, <2>3, ReadMoves DEF Alone
  <1>9. CASE Resolve
    <2>1. call.pc = "resolve" /\ order' = order
      BY <1>9 DEF Resolve, venue
    <2>2. \/ /\ call'.pc = "persist" /\ call'.order = call.order
             /\ call'.rests = call.rests /\ call'.named = call.named
          \/ call' = Idle /\ resting' = Remembered
      BY <1>t, <1>9 DEF Resolve, ToPersist, Skip, Call
    <2> QED
      BY <2>1, <2>2 DEF Alone, Idle, Remembered, Known
  <1>10. CASE Persist
    <2>1. call.pc = "persist" /\ call' = Idle /\ resting' = Remembered
      BY <1>10 DEF Persist
    <2>2. \A p \in Orders : order'[p].live = order[p].live
      BY <1>t, <1>10 DEF Persist, Order
    <2> QED
      BY <2>1, <2>2 DEF Alone, Idle, Remembered, Known
  <1>11. CASE VenueStep
    BY <1>11, VenueTakesOff DEF Alone
  <1>12. CASE ReverseDiff
    BY <1>12 DEF ReverseDiff, venue, Alone
  <1>13. ~PostLost /\ ~PersistFails /\ ~Restart
    BY DEF PostLost, PersistFails, Restart, Known
  <1>14. ~FromBalance
    BY DEF FromBalance, Alone
  <1> QED
    BY <1>1, <1>2, <1>3, <1>4, <1>5, <1>6, <1>7, <1>8, <1>9, <1>10, <1>11, <1>12, <1>13, <1>14
       DEF Next, CallStep

(* An order whose id the executor has is alone: no second one is posted     *)
(* while it may rest, however the data API and the wallet lag and whatever  *)
(* cancels and reads do (the guard of execute_sell, KnownOrderAlone).       *)
THEOREM KnownOrdersAlone == Spec => []KnownOrderAlone
  <1>1. Init => (Known => Alone)
    BY DEF Init, Alone, Unposted, Idle
  <1>2. MInv /\ (Known => Alone) /\ [Next]_vars => (Known => Alone)'
    <2>1. [Next]_vars => (Known' => Known)
      BY DEF Next, vars, Known, Selling, Faults
    <2> QED
      BY <2>1, AloneStep
  <1>3. (Known => Alone) => KnownOrderAlone
    BY DEF Known, Alone, KnownOrderAlone, OneOrderOnBook
  <1> QED
    BY <1>1, <1>2, <1>3, MemoryHolds, PTL DEF Spec
---------------------------------------------------------------------------
(* A shortfall is told.                                                     *)

(* Every answer comes, and what a read says is current.                     *)
Quiet == Faults \cap {"lostResponse", "readFails", "lag", "restart"} = {}

Exact(e, o) == e.strength = "exact" /\ e.source = "read" /\ e.qty = order[o].filled

(* A settle that gives no remainder up has read its order off the book; one *)
(* that does alerts before it is over; and no source said more than filled. *)
Told ==
    /\ call.pc # "balance"
    /\ \A o \in Orders : \/ o \in alerted
                         \/ o = call.order /\ call.pc \in Placed
                         \/ ~order[o].live /\ order[o].booked = order[o].filled
    /\ call.pc \in Placed =>
           /\ order[call.order].booked = 0
           /\ \A e \in call.ev : e.qty <= order[call.order].filled
    /\ call.pc = "final" => call.refused \/ ~order[call.order].live
    /\ call.pc = "resolve" /\ ~call.rests =>
           ~order[call.order].live /\ \E e \in call.ev : Exact(e, call.order)
    /\ call.pc = "persist" /\ call.rests => call.order \in alerted
    /\ call.pc = "persist" /\ ~call.rests =>
           ~order[call.order].live /\ order[call.order].filled = call.qty

(* A current reading of an order off the book is terminal, and exact.       *)
LEMMA OffIsExact ==
    ASSUME TypeOK, Quiet, NEW o \in Orders, NEW r \in Readings(o), ~order[o].live
    PROVE  Terminal(o, r) /\ \E e \in Heard(o, r) : Exact(e, o)
  <1>1. order[o].filled \in Nat /\ order[o].size \in Nat
    BY DEF TypeOK, Order
  <1>2. Matched(o) = {order[o].filled}
    BY DEF Matched, Quiet
  <1>3. PICK d \in Done(o) : r = [matched |-> {order[o].filled}, done |-> d]
    BY <1>2 DEF Readings, Quiet
  <1>4. order[o].filled # order[o].size => Done(o) = {TRUE}
    BY DEF Done, Quiet
  <1>5. r.matched = {order[o].filled} /\ (order[o].filled # order[o].size => r.done)
    <2>1. r.matched = {order[o].filled} /\ r.done = d
      BY <1>3
    <2>2. order[o].filled # order[o].size => d = TRUE
      BY <1>4
    <2> QED
      BY <2>1, <2>2
  <1>6. Terminal(o, r)
    BY <1>1, <1>5 DEF Terminal
  <1>7. [qty |-> order[o].filled, source |-> "read", strength |-> "exact"] \in Heard(o, r)
    BY <1>5, <1>6 DEF Heard
  <1> QED
    BY <1>6, <1>7 DEF Exact

(* With an exact reading among the evidence, it is what gets booked.        *)
LEMMA ExactResolves ==
    ASSUME TInv, NEW o \in Orders, NEW q \in Nat, Settled(q),
           \A e \in call.ev : e.qty <= order[o].filled,
           \E e \in call.ev : Exact(e, o)
    PROVE  q = order[o].filled
  <1>1. PICK x \in call.ev : Exact(x, o)
    OBVIOUS
  <1>2. order[o].filled \in Nat /\ \A e \in call.ev : e.qty \in Nat
    BY Numbers
  <1>3. Resolves(call.ev, q)
    BY <1>1 DEF Settled
  <1>4. Counting(call.ev) \subseteq call.ev /\ x \in Counting(call.ev)
    BY <1>1 DEF Counting, Exact
  <1>5. x.qty = order[o].filled
    BY <1>1 DEF Exact
  <1>6. x.qty <= q
    BY <1>3, <1>4 DEF Resolves
  <1>7. PICK y \in Counting(call.ev) : y.qty = q
    BY <1>3 DEF Resolves
  <1>8. q <= order[o].filled
    BY <1>4, <1>7
  <1> QED
    BY <1>2, <1>5, <1>6, <1>8

(* A step that leaves the orders off the book, filled and booked as they    *)
(* were, and takes a call to where it holds no order.                       *)
LEMMA FreeTold ==
    ASSUME Told, call.pc \notin Placed, call'.pc \notin Placed, alerted \subseteq alerted',
           \A p \in Orders : /\ order'[p].live => order[p].live
                             /\ order'[p].filled = order[p].filled
                             /\ order'[p].booked = order[p].booked
    PROVE  Told'
  <1>1. \A p \in Orders : \/ p \in alerted'
                          \/ ~order'[p].live /\ order'[p].booked = order'[p].filled
    BY DEF Told
  <1>2. call'.pc \notin {"balance", "final", "resolve", "persist"}
    BY DEF Placed
  <1> QED
    BY <1>1, <1>2 DEF Told

LEMMA CancelKeepsBooked ==
    ASSUME TypeOK, NEW o, NEW ack, Cancel(o, ack)
    PROVE  \A p \in Orders : order'[p].booked = order[p].booked
  <1>1. order \in [Orders -> Order]
    BY DEF TypeOK
  <1>2. order' = order \/ order' = [order EXCEPT ![o].live = FALSE]
    BY DEF Cancel
  <1> QED
    BY <1>1, <1>2 DEF Order

(* Before an order is placed.                                               *)
LEMMA BeforeTold ==
    ASSUME MInv, Told,
           Begin \/ FreeCancel \/ FreeRead \/ GatePass \/ GateSkip \/ PostRejected
    PROVE  Told'
  <1>t. call \in Call /\ order \in [Orders -> Order] /\ TypeOK /\ TInv
    BY DEF MInv, TInv, TypeOK
  <1>1. call.pc \notin Placed
    BY DEF Begin, FreeCancel, FreeRead, GatePass, GateSkip, PostRejected, Placed
  <1>2. CASE Begin
    <2>1. call'.pc \notin Placed /\ order' = order /\ alerted' = alerted
      BY <1>2 DEF Begin, Idle, venue, Placed
    <2> QED
      BY <1>1, <2>1, FreeTold
  <1>3. CASE FreeCancel
    <2>1. PICK ack \in BOOLEAN : Cancel(resting, ack)
      BY <1>3 DEF FreeCancel
    <2>2. call'.pc = "freeRead" /\ alerted' = alerted /\ resting \in Orders
      BY <1>t, <1>3, FreeMoves DEF FreeCancel, Idle
    <2> QED
      BY <1>t, <1>1, <2>1, <2>2, CancelTakesOff, CancelKeepsBooked, FreeTold DEF Placed
  <1>4. CASE FreeRead
    <2>1. order' = order
      BY <1>4 DEF FreeRead, venue
    <2>2. /\ call' = [call EXCEPT !.pc = "gate", !.acked = FALSE] \/ call' = Idle
          /\ alerted \subseteq alerted'
      BY <1>4 DEF FreeRead
    <2>3. [call EXCEPT !.pc = "gate", !.acked = FALSE].pc = "gate" /\ Idle.pc = "idle"
      BY <1>t DEF Idle, Call
    <2>4. call'.pc \in {"gate", "idle"}
      BY <2>2, <2>3, Zenon
    <2> QED
      BY <1>1, <2>1, <2>2, <2>4, FreeTold DEF Placed
  <1>5. CASE GatePass \/ GateSkip \/ PostRejected
    <2>1. order' = order /\ alerted' = alerted
      BY <1>5 DEF GatePass, GateSkip, PostRejected, venue
    <2>2. (\E m : call' = [call EXCEPT !.pc = "post", !.base = m]) \/ call' = Idle
      BY <1>5 DEF GatePass, GateSkip, PostRejected
    <2>3. (\A m : [call EXCEPT !.pc = "post", !.base = m].pc = "post") /\ Idle.pc = "idle"
      BY <1>t DEF Idle, Call
    <2>4. call'.pc \in {"post", "idle"}
      BY <2>2, <2>3, Zenon
    <2> QED
      BY <1>1, <2>1, <2>4, FreeTold DEF Placed
  <1> QED
    BY <1>2, <1>3, <1>4, <1>5

(* The order lands: filled in full it goes straight to the ledger, without  *)
(* an id it rests, and otherwise it is settled.                             *)
LEMMA PostTold == ASSUME MInv, Told, PostAnswered PROVE Told'
  <1>0. call \in Call /\ posted < MaxOrders /\ call.pc = "post" /\ TInv
    BY DEF MInv, TInv, TypeOK, InRange, PostAnswered
  <1>1. PICK c \in 0 .. call.size, usable \in BOOLEAN, named \in BOOLEAN, tx \in BOOLEAN :
          /\ usable \/ "badBody" \in Faults
          /\ named \/ "noId" \in Faults
          /\ Lands(c)
          /\ call' = [call EXCEPT
                !.order = posted + 1,
                !.named = named,
                !.ev = PostEvidence(c, usable, tx),
                !.qty = IF usable THEN c ELSE 0,
                !.rests = ~named /\ ~(usable /\ c = call.size),
                !.pc = IF usable /\ c = call.size THEN "persist"
                       ELSE IF named THEN "cancel" ELSE "resolve"]
    BY Zenon DEF PostAnswered
  <1>2. /\ call'.order = posted + 1
        /\ call'.ev = PostEvidence(c, usable, tx)
        /\ call'.pc = IF usable /\ c = call.size THEN "persist"
                      ELSE IF named THEN "cancel" ELSE "resolve"
    BY <1>0, <1>1, Zenon DEF Call
  <1>3. /\ call'.qty = IF usable THEN c ELSE 0
        /\ call'.rests = (~named /\ ~(usable /\ c = call.size))
    BY <1>0, <1>1, Zenon DEF Call
  <1>4. /\ posted + 1 \in Orders
        /\ order'[posted + 1].live = (c < call.size) /\ order'[posted + 1].filled = c
        /\ \A p \in Orders : p # posted + 1 => order'[p] = order[p]
    BY <1>0, <1>1, LandsAlone
  <1>5. order'[posted + 1].booked = 0
    BY <1>0, <1>1, <1>4 DEF Lands, TInv, TypeOK
  <1>6. c \in Nat /\ call.size \in Nat
    BY <1>0 DEF Call
  <1>7. \A e \in call'.ev : e.qty <= order'[call'.order].filled
    BY <1>2, <1>4, <1>6 DEF PostEvidence
  <1>8. call'.pc \in Placed /\ call'.pc \notin {"balance", "final"}
    BY <1>2 DEF Placed
  <1>9. \A o \in Orders : \/ o \in alerted
                          \/ o = posted + 1
                          \/ ~order[o].live /\ order[o].booked = order[o].filled
    BY <1>0 DEF Told, Placed
  <1>10. alerted' = alerted
    BY DEF PostAnswered
  <1>11. \A o \in Orders : \/ o \in alerted'
                           \/ o = call'.order
                           \/ ~order'[o].live /\ order'[o].booked = order'[o].filled
    BY <1>2, <1>4, <1>9, <1>10
  <1>12. CASE usable /\ c = call.size
    <2>1. call'.pc = "persist" /\ ~call'.rests /\ call'.qty = c
      BY <1>2, <1>3, <1>12
    <2>2. ~(c < call.size)
      BY <1>6, <1>12
    <2>3. ~order'[posted + 1].live
      BY <1>4, <2>2
    <2> QED
      BY <1>2, <1>4, <1>5, <1>7, <1>8, <1>11, <2>1, <2>3 DEF Told
  <1>13. CASE ~(usable /\ c = call.size) /\ named
    <2>1. call'.pc = "cancel"
      BY <1>2, <1>13
    <2> QED
      BY <1>2, <1>5, <1>7, <1>8, <1>11, <2>1 DEF Told
  <1>14. CASE ~(usable /\ c = call.size) /\ ~named
    <2>1. call'.pc = "resolve" /\ call'.rests
      BY <1>2, <1>3, <1>14
    <2> QED
      BY <1>2, <1>5, <1>7, <1>8, <1>11, <2>1 DEF Told
  <1> QED
    BY <1>12, <1>13, <1>14

(* The settle keeps its order; the other orders are as they were.           *)
LEMMA SettleTold == ASSUME MInv, Told, Quiet, TryCancel PROVE Told'
  <1>t. call \in Call /\ TypeOK /\ call.pc = "cancel" /\ call.order \in Orders
    BY DEF MInv, TInv, TypeOK, InRange, Placed, TryCancel
  <1>1. PICK ack \in BOOLEAN :
          /\ Cancel(call.order, ack)
          /\ call' = [call EXCEPT !.pc = IF ack THEN "final" ELSE "reread"]
    BY DEF TryCancel
  <1>2. /\ call'.pc = (IF ack THEN "final" ELSE "reread")
        /\ call'.order = call.order /\ call'.ev = call.ev
    BY <1>t, <1>1 DEF Call
  <1>3. /\ \A p \in Orders : /\ order'[p].live => order[p].live
                             /\ order'[p].filled = order[p].filled
                             /\ order'[p].booked = order[p].booked
        /\ ack => ~order'[call.order].live
    BY <1>t, <1>1, CancelTakesOff, CancelKeepsBooked
  <1>4. alerted' = alerted
    BY DEF TryCancel
  <1> QED
    BY <1>t, <1>2, <1>3, <1>4 DEF Told, Placed

LEMMA ReadTold ==
    ASSUME MInv, Told, Quiet, RereadTerminal \/ RereadAgain \/ FinalRead
    PROVE  Told'
  <1>t. call \in Call /\ TypeOK /\ TInv /\ call.order \in Orders /\ call.pc \in Placed
    BY DEF MInv, TInv, TypeOK, InRange, Placed, RereadTerminal, RereadAgain, FinalRead
  <1>1. order' = order /\ alerted' = alerted
    BY DEF RereadTerminal, RereadAgain, FinalRead, venue
  <1>2. ASSUME NEW r \in Readings(call.order), call'.order = call.order,
               call'.ev = call.ev \cup Heard(call.order, r), call'.pc \in Placed
        PROVE  /\ \A o \in Orders : \/ o \in alerted'
                                    \/ o = call'.order /\ call'.pc \in Placed
                                    \/ ~order'[o].live /\ order'[o].booked = order'[o].filled
               /\ order'[call'.order].booked = 0
               /\ \A e \in call'.ev : e.qty <= order'[call'.order].filled
    BY <1>t, <1>1, <1>2, HeardCounts DEF Told
  <1>3. ASSUME NEW r \in Readings(call.order), call'.order = call.order,
               call'.ev = call.ev \cup Heard(call.order, r), ~order[call.order].live
        PROVE  ~order'[call'.order].live /\ (\E e \in call.ev : Exact(e, call.order))'
    <2>1. \E e \in Heard(call.order, r) : Exact(e, call.order)
      BY <1>t, <1>3, OffIsExact
    <2> QED
      BY <1>1, <1>3, <2>1 DEF Exact
  <1>4. CASE RereadTerminal
    <2>1. PICK r \in Readings(call.order) :
            /\ Terminal(call.order, r)
            /\ call' = [call EXCEPT !.pc = "resolve", !.ev = @ \cup Heard(call.order, r)]
      BY <1>4 DEF RereadTerminal
    <2>2. /\ call'.pc = "resolve" /\ call'.order = call.order
          /\ call'.ev = call.ev \cup Heard(call.order, r)
      BY <1>t, <2>1, Zenon DEF Call
    <2>3. ~order[call.order].live
      BY <1>t, <2>1, TerminalIsOff DEF MInv
    <2>4. call'.pc \in Placed
      BY <2>2 DEF Placed
    <2>5. ~order'[call'.order].live /\ (\E e \in call.ev : Exact(e, call.order))'
      BY <1>3, <2>2, <2>3
    <2>6. /\ \A o \in Orders : \/ o \in alerted'
                               \/ o = call'.order /\ call'.pc \in Placed
                               \/ ~order'[o].live /\ order'[o].booked = order'[o].filled
          /\ order'[call'.order].booked = 0
          /\ \A e \in call'.ev : e.qty <= order'[call'.order].filled
      BY <1>2, <2>2, <2>4
    <2> QED
      BY <2>2, <2>5, <2>6, Zenon DEF Told
  <1>5. CASE RereadAgain
    <2>1. PICK r \in Readings(call.order), more \in BOOLEAN :
            call' = [call EXCEPT !.pc = IF more THEN "cancel" ELSE "final",
                                 !.tries = @ + 1, !.refused = ~more,
                                 !.ev = @ \cup Heard(call.order, r)]
      BY <1>5, Zenon DEF RereadAgain
    <2>2. /\ call'.pc = IF more THEN "cancel" ELSE "final"
          /\ call'.refused = ~more /\ call'.order = call.order
          /\ call'.ev = call.ev \cup Heard(call.order, r)
      BY <1>t, <2>1, Zenon DEF Call
    <2>3. call'.pc \in Placed /\ call'.pc \notin {"balance", "resolve", "persist"}
          /\ (call'.pc = "final" => call'.refused)
      BY <2>2 DEF Placed
    <2>4. /\ \A o \in Orders : \/ o \in alerted'
                               \/ o = call'.order /\ call'.pc \in Placed
                               \/ ~order'[o].live /\ order'[o].booked = order'[o].filled
          /\ order'[call'.order].booked = 0
          /\ \A e \in call'.ev : e.qty <= order'[call'.order].filled
      BY <1>2, <2>2, <2>3
    <2> QED
      BY <2>3, <2>4 DEF Told
  <1>6. CASE FinalRead
    <2>1. PICK r \in Readings(call.order) :
            call' = [call EXCEPT !.pc = "resolve", !.ev = @ \cup Heard(call.order, r),
                                 !.rests = call.refused /\ ~Terminal(call.order, r)]
      BY <1>6, Zenon DEF FinalRead
    <2>2. /\ call'.pc = "resolve" /\ call'.order = call.order
          /\ call'.ev = call.ev \cup Heard(call.order, r)
          /\ call'.rests = (call.refused /\ ~Terminal(call.order, r))
      BY <1>t, <2>1, Zenon DEF Call
    <2>3. ~call'.rests => ~order[call.order].live
      <3>1. CASE Terminal(call.order, r)
        BY <1>t, <3>1, TerminalIsOff DEF MInv
      <3>2. CASE ~call.refused
        BY <1>6, <3>2 DEF Told, FinalRead
      <3> QED
        BY <2>2, <3>1, <3>2
    <2>4. call'.pc \in Placed
      BY <2>2 DEF Placed
    <2>5. ~call'.rests =>
             ~order'[call'.order].live /\ (\E e \in call.ev : Exact(e, call.order))'
      BY <1>3, <2>2, <2>3
    <2>6. /\ \A o \in Orders : \/ o \in alerted'
                               \/ o = call'.order /\ call'.pc \in Placed
                               \/ ~order'[o].live /\ order'[o].booked = order'[o].filled
          /\ order'[call'.order].booked = 0
          /\ \A e \in call'.ev : e.qty <= order'[call'.order].filled
      BY <1>2, <2>2, <2>4
    <2> QED
      BY <2>2, <2>5, <2>6, Zenon DEF Told
  <1> QED
    BY <1>4, <1>5, <1>6

(* A settle ends with the order alerted, or with all it filled.             *)
LEMMA ResolveTold == ASSUME MInv, Told, Quiet, Resolve PROVE Told'
  <1>t. /\ call \in Call /\ TypeOK /\ TInv /\ call.pc = "resolve" /\ call.order \in Orders
        /\ call.pc \in Placed
    BY DEF MInv, TInv, TypeOK, InRange, Placed, Resolve
  <1>1. PICK q \in 0 .. call.size : Settled(q) /\ IF q > 0 THEN ToPersist(q) ELSE Skip
    BY DEF Resolve
  <1>2. order' = order /\ alerted' = IF call.rests THEN alerted \cup {call.order} ELSE alerted
    BY DEF Resolve, venue
  <1>3. q \in Nat
    BY <1>t DEF Call
  <1>4. ~call.rests => /\ ~order[call.order].live
                       /\ order[call.order].filled = q
    BY <1>t, <1>1, <1>3, ExactResolves DEF Told
  <1>5. \A o \in Orders : \/ o \in alerted
                          \/ o = call.order
                          \/ ~order[o].live /\ order[o].booked = order[o].filled
    BY DEF Told
  <1>6. CASE q > 0
    <2>1. /\ call'.pc = "persist" /\ call'.qty = q /\ call'.order = call.order
          /\ call'.rests = call.rests /\ call'.ev = call.ev
      BY <1>t, <1>1, <1>6 DEF ToPersist, Call
    <2>2. order'[call'.order].booked = 0 /\ \A e \in call'.ev : e.qty <= order'[call'.order].filled
      BY <1>t, <1>2, <2>1 DEF Told
    <2>3. call.rests => call'.order \in alerted'
      BY <1>2, <2>1
    <2>4. \A o \in Orders : \/ o \in alerted'
                            \/ o = call'.order /\ call'.pc \in Placed
                            \/ ~order'[o].live /\ order'[o].booked = order'[o].filled
      BY <1>2, <1>5, <2>1 DEF Placed
    <2> QED
      BY <1>2, <1>4, <2>1, <2>2, <2>3, <2>4 DEF Told
  <1>7. CASE ~(q > 0)
    <2>1. call'.pc = "idle"
      BY <1>1, <1>7 DEF Skip, Idle
    <2>2. q = 0
      BY <1>3, <1>7
    <2>3. call.rests \/ (~order[call.order].live /\ order[call.order].filled = 0)
      BY <1>4, <2>2
    <2>4. order[call.order].booked = 0
      BY <1>t DEF Told
    <2>5. \A o \in Orders : \/ o \in alerted'
                            \/ ~order'[o].live /\ order'[o].booked = order'[o].filled
      BY <1>2, <1>5, <2>3, <2>4
    <2> QED
      BY <2>1, <2>5 DEF Told, Placed
  <1> QED
    BY <1>6, <1>7

LEMMA PersistTold == ASSUME MInv, Told, Persist \/ PersistFails PROVE Told'
  <1>t. /\ order \in [Orders -> Order] /\ call.pc = "persist" /\ call.order \in Orders
        /\ call'.pc = "idle"
    BY DEF MInv, TInv, TypeOK, InRange, Placed, Persist, PersistFails, Idle
  <1>5. \A o \in Orders : \/ o \in alerted
                          \/ o = call.order
                          \/ ~order[o].live /\ order[o].booked = order[o].filled
    BY DEF Told
  <1>1. CASE Persist
    <2>1. /\ \A p \in Orders : p # call.order => order'[p] = order[p]
          /\ order'[call.order].live = order[call.order].live
          /\ order'[call.order].filled = order[call.order].filled
          /\ order'[call.order].booked = call.qty
          /\ alerted' = alerted
      BY <1>t, <1>1 DEF Persist, Order
    <2>2. call.order \in alerted \/ (~order[call.order].live /\ order[call.order].filled = call.qty)
      BY <1>t DEF Told
    <2>3. \A o \in Orders : \/ o \in alerted'
                            \/ ~order'[o].live /\ order'[o].booked = order'[o].filled
      BY <1>5, <2>1, <2>2
    <2> QED
      BY <1>t, <2>3 DEF Told, Placed
  <1>2. CASE PersistFails
    <2>1. order' = order /\ alerted' = alerted \cup {call.order}
      BY <1>2 DEF PersistFails, venue
    <2> QED
      BY <1>t, <1>5, <2>1 DEF Told, Placed
  <1> QED
    BY <1>1, <1>2

(* The venue fills only what is on the book.                                *)
LEMMA VenueTold == ASSUME MInv, Told, VenueStep PROVE Told'
  <1> SUFFICES ASSUME NEW o \in Orders, Fill(o) \/ VenueEnds(o)
               PROVE  Told'
    BY DEF VenueStep
  <1>t. order \in [Orders -> Order] /\ (call.pc \in Placed => call.order \in Orders)
    BY DEF MInv, TInv, TypeOK, InRange
  <1>1. order[o].live /\ call' = call /\ alerted' = alerted
    BY DEF Fill, VenueEnds
  <1>2. /\ \A p \in Orders : p # o => order'[p] = order[p]
        /\ order'[o].booked = order[o].booked
        /\ order'[o].filled \in {order[o].filled, order[o].filled + 1}
    BY <1>t DEF Fill, VenueEnds, Order
  <1>3. \A p \in Orders : \/ p \in alerted'
                          \/ p = call'.order /\ call'.pc \in Placed
                          \/ ~order'[p].live /\ order'[p].booked = order'[p].filled
    BY <1>1, <1>2 DEF Told
  <1>4. call.pc \in Placed =>
           /\ order'[call.order].booked = 0
           /\ \A e \in call.ev : e.qty <= order'[call.order].filled
    <2> SUFFICES ASSUME call.pc \in Placed
                 PROVE  /\ order'[call.order].booked = 0
                        /\ \A e \in call.ev : e.qty <= order'[call.order].filled
      OBVIOUS
    <2>1. /\ order[call.order].booked = 0 /\ call.order \in Orders
          /\ \A e \in call.ev : e.qty <= order[call.order].filled
      BY <1>t DEF Told
    <2>2. order[call.order].filled \in Nat /\ \A e \in call.ev : e.qty \in Nat
      BY <2>1, Numbers DEF MInv
    <2>3. order'[call.order].filled \in {order[call.order].filled, order[call.order].filled + 1}
      BY <1>2, <2>1
    <2> QED
      BY <1>2, <2>1, <2>2, <2>3
  <1>5. call.pc \in Placed /\ ~order[call.order].live => order'[call.order] = order[call.order]
    BY <1>t, <1>1, <1>2
  <1>6. call.pc \in {"final", "resolve", "persist"} => call.pc \in Placed
    BY DEF Placed
  <1> QED
    BY <1>1, <1>3, <1>4, <1>5, <1>6 DEF Told, Exact

LEMMA ToldStep == ASSUME MInv, Quiet, Told, [Next]_vars PROVE Told'
  <1>1. CASE UNCHANGED vars
    BY <1>1 DEF vars, Told, Exact
  <1>2. CASE ReverseDiff
    BY <1>2 DEF ReverseDiff, venue, Told, Exact
  <1>3. ~PostLost /\ ~Restart
    BY DEF PostLost, Restart, Quiet
  <1>4. ~FromBalance
    BY DEF FromBalance, Told
  <1> QED
    BY <1>1, <1>2, <1>3, <1>4, BeforeTold, PostTold, SettleTold, ReadTold, ResolveTold,
       PersistTold, VenueTold DEF Next, CallStep

(* What an order filled and the ledger does not have, somebody was told of, *)
(* whatever cancels are refused or lost, ids missing, bodies unusable and   *)
(* wallets lagging, as long as every answer comes and reads are current     *)
(* (_settle_resting_remainder, NoSilentShortfall).                          *)
THEOREM ShortfallIsTold == Spec => []NoSilentShortfall
  <1>1. Init => (Quiet => Told)
    BY DEF Init, Told, Unposted, Idle, Placed
  <1>2. MInv /\ (Quiet => Told) /\ [Next]_vars => (Quiet => Told)'
    <2>1. [Next]_vars => (Quiet' => Quiet)
      BY DEF Next, vars, Quiet, Faults
    <2> QED
      BY <2>1, ToldStep
  <1>3. (Quiet => Told) => NoSilentShortfall
    BY DEF Quiet, Told, NoSilentShortfall
  <1> QED
    BY <1>1, <1>2, <1>3, MemoryHolds, PTL DEF Spec
=============================================================================
