----------------------------- MODULE MCElderSync -----------------------------
(***************************************************************************)
(* Two elders of old, and a wallet that is credited and pays out all it    *)
(* has in two debits.                                                      *)
(***************************************************************************)
EXTENDS ElderSync, TLC

CONSTANTS a, b, x

MCHistory ==
  << TransferPropagated([from |-> x, ctr |-> 0, to |-> a, amt |-> 2]),
     TransferRegistered([from |-> a, ctr |-> 0, to |-> b, amt |-> 1]),
     TransferRegistered([from |-> a, ctr |-> 1, to |-> b, amt |-> 1]) >>

OldieSymmetry == Permutations(Oldie)
=============================================================================
