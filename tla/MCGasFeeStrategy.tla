--------------------------- MODULE MCGasFeeStrategy ---------------------------
(* A small instance of GasFeeStrategy. *)
EXTENDS GasFeeStrategy

MCTypes == <<"Default", "Jito">>
=============================================================================
