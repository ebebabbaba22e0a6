-------------------------- MODULE MCCloseProtocol --------------------------
(***************************************************************************)
(* CloseProtocol on small instances.  The unit of quantity is half of      *)
(* MIN_SELLABLE_QTY (a hundredth of a share), and one share stands at four *)
(* units, so that a quantity may be below one share, or not a multiple of  *)
(* the venue's precision.                                                  *)
(***************************************************************************)
EXTENDS CloseProtocol

\* A buy that is not a multiple of the precision: an order for 4, a residue.
OddBuy == {5}
\* And one that a seller can fill in two parts of a share or more.
BigBuy == {9}
=============================================================================
