----------------------------- MODULE MCAmmCalc -----------------------------
(* A small instance of AmmCalc: pools from nearly empty to thousands of times
   the trades. *)
EXTENDS AmmCalc

SmallPools == {[base |-> b, quote |-> q] : b \in {1, 7, 60, 400}, q \in {1, 50, 600}}
=============================================================================
