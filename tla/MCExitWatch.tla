----------------------------- MODULE MCExitWatch ----------------------------
(***************************************************************************)
(* ExitWatch with the default configuration of threshold_v1, an entry at   *)
(* 0.20 and quotes on either side of every threshold: the hard stop at     *)
(* 0.14, the stop at 0.17, the arming of the lock at 0.26.                 *)
(***************************************************************************)
EXTENDS ExitWatch

Prices == {1, 4, 11, 13, 14, 15, 17, 18, 19, 20, 21, 24, 26, 27, 28, 30, 32}
=============================================================================
