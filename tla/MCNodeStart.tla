----------------------------- MODULE MCNodeStart -----------------------------
(***************************************************************************)
(* Two nodes on a machine.  The process of one of them may end twice on    *)
(* its way, and be started again.                                          *)
(***************************************************************************)
EXTENDS NodeStart

CONSTANTS a, b

MCMaxEnd == [n \in Node |-> IF n = a THEN 2 ELSE 0]
=============================================================================
