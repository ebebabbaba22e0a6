---------------------------- MODULE MCLiveOrder ----------------------------
(***************************************************************************)
(* LiveOrder on small instances: sells and buys with the kinds of trouble  *)
(* its properties distinguish.                                             *)
(***************************************************************************)
EXTENDS LiveOrder

Sells(F) == [sells |-> TRUE, faults |-> F]
Buys(F)  == [sells |-> FALSE, faults |-> F]

\* Every order's id is learned, but nothing read of it is current.
Known == FaultKinds \ {"lostResponse", "noId", "ledgerFails", "restart"}

\* Every answer comes, and what it tells is current.
Told == FaultKinds \ {"lostResponse", "readFails", "lag", "restart"}

AllCases == {Sells(Known), Sells(Told), Buys(Told),
             Sells(FaultKinds \ {"walletLag"}), Buys(FaultKinds \ {"walletLag"})}

\* A POST that may land although its answer is lost.
Unanswered == {Sells({"lostResponse"})}

\* A buy without any trouble.
PlainBuy == {Buys({})}
=============================================================================
