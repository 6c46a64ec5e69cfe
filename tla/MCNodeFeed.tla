------------------------------ MODULE MCNodeFeed ------------------------------
(* A small instance of NodeFeed: transactions whose swap comes first or after a *)
(* foreign instruction, with and without a block time.                          *)
EXTENDS NodeFeed, TLC

Swap(kind, a, b, accounts) ==
  [pumpswap |-> TRUE, data |-> kind, a |-> a, b |-> b, accounts |-> accounts]
Foreign == [pumpswap |-> FALSE, data |-> "buy", a |-> 1, b |-> 1, accounts |-> <<"wsol">>]

MCTx == [s1 |-> [blockTime |-> 3, instructions |-> <<Foreign, Swap("buy", 1, 2, <<"wsol", "m1">>)>>],
         s2 |-> [blockTime |-> 0, instructions |-> <<Swap("exact_in", 4, 1, <<"m1">>)>>],
         s3 |-> [blockTime |-> 2, instructions |-> <<Swap("sell", 0, 2, <<"m1", "m2">>)>>]]

\* The callbacks differ in nothing but their names.
CallbackSymmetry == Permutations(Callbacks)
=============================================================================
