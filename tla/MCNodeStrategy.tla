---------------------------- MODULE MCNodeStrategy ----------------------------
(* A small instance of NodeStrategy: the price of the token m1 doubles, to 2;   *)
(* the pools at 1 and at 4 lead to a sale for profit and to one for a loss.     *)
EXTENDS NodeStrategy

Swap(kind, a, b) ==
  [pumpswap |-> TRUE, data |-> kind, a |-> a, b |-> b, accounts |-> <<"m1">>]

MCTx == [s1 |-> [blockTime |-> 1, instructions |-> <<Swap("buy", 1, 1)>>],
         s2 |-> [blockTime |-> 2, instructions |-> <<Swap("buy", 1, 2)>>]]
=============================================================================
