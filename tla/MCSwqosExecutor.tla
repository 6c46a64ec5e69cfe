--------------------------- MODULE MCSwqosExecutor ---------------------------
(* A small instance of SwqosExecutor: every kind of request. *)
EXTENDS SwqosExecutor

AllRequests == [buy: BOOLEAN, durable: BOOLEAN, with_tip: BOOLEAN]
=============================================================================
