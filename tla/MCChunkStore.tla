---------------------------- MODULE MCChunkStore ----------------------------
(***************************************************************************)
(* Stores for two chunks of size 1 or 2 and a capacity of 3: a put of      *)
(* either chunk can fit, fit exactly, or exceed the capacity.              *)
(***************************************************************************)
EXTENDS ChunkStore, TLC

IdSymmetry == Permutations(Id)
=============================================================================
