---------------------------- MODULE AdultReader ----------------------------
(***************************************************************************)
(* Which adults of a section are close to a name                           *)
(* (metadata/adult_reader.rs and compute_holders of node/role).            *)
(***************************************************************************)
EXTENDS Naturals, FiniteSets

CONSTANTS
  Adult,      \* all nodes that are ever adults of the section
  Chunk,
  Distance    \* Distance[x][a]: of adult a to chunk or adult x

\* No two names have the same distance to a third (it is their xor).
ASSUME DistanceAssumption ==
  \A x \in Chunk \cup Adult :
    /\ Distance[x] \in [Adult -> Nat]
    /\ \A a, b \in Adult : Distance[x][a] = Distance[x][b] => a = b

\* The count members of a set of adults that are closest to x.
ClosestTo(x, adults, count) ==
  {a \in adults :
     Cardinality({b \in adults : Distance[x][b] < Distance[x][a]}) < count}
=============================================================================
