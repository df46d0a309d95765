-------------------------- MODULE MCChunkPlacement --------------------------
(***************************************************************************)
(* ChunkPlacement for TLC: adults and chunks are numbers, and the chunk is *)
(* farthest from the adult with the largest number.                        *)
(***************************************************************************)
EXTENDS ChunkPlacement

MCDistance == [x \in Chunk \cup Adult |-> [a \in Adult |-> (a + 8 - x) % 8]]
=============================================================================
