---------------------------- MODULE MCZeroCopyIo ----------------------------
(* A small instance of ZeroCopyIo: a pool of three blocks in two words, and a   *)
(* pool of one block.                                                           *)
EXTENDS ZeroCopyIo

MCBlocks == <<3, 1>>
MCSizes == <<1, 2>>
=============================================================================
