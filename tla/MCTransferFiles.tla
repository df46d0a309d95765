--------------------------- MODULE MCTransferFiles ---------------------------
(* Instances of TransferFiles for TLC. *)
EXTENDS TransferFiles

CONSTANTS v1, v2, p1, p2
=============================================================================
