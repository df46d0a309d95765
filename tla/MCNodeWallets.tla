---------------------------- MODULE MCNodeWallets ----------------------------
(***************************************************************************)
(* The newcomer, and a node of the half that the split drops.              *)
(***************************************************************************)
EXTENDS NodeWallets
=============================================================================
