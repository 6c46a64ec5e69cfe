-------------------------- MODULE MCTradingStrategy --------------------------
(* Small instances of TradingStrategy. *)
EXTENDS TradingStrategy
=============================================================================
