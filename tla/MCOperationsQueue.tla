------------------------- MODULE MCOperationsQueue -------------------------
(* Instances of OperationsQueue for TLC.                                   *)
EXTENDS OperationsQueue

CONSTANTS t1, t2
=============================================================================
