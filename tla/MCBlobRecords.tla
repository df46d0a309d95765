---------------------------- MODULE MCBlobRecords ----------------------------
(***************************************************************************)
(* Names are numbers and distances are those of the network, the exclusive *)
(* or: chunk 0 (whose closest adults are 1 and 2) and chunk 7 (3 and 2).   *)
(* The thresholds on pending operations are scaled down so that an adult   *)
(* can reach them with a few reads.                                        *)
(***************************************************************************)
EXTENDS BlobRecords

Xor(x, y) ==
  LET bit(n, k) == (n \div 2^k) % 2
      differ(k) == IF bit(x, k) # bit(y, k) THEN 2^k ELSE 0
  IN  differ(0) + differ(1) + differ(2)

MCDistance == [x \in Chunk \cup Adult |-> [a \in Adult |-> Xor(x, a)]]
=============================================================================
