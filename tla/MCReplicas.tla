----------------------------- MODULE MCReplicas -----------------------------
(***************************************************************************)
(* Three elders, two of which make a quorum.  Wallet a is funded by wallet *)
(* x of another section.                                                   *)
(***************************************************************************)
EXTENDS Replicas, TLC

CONSTANTS a, b, s, x

T(from, ctr, to, amt) == [from |-> from, ctr |-> ctr, to |-> to, amt |-> amt]

MCWallet == {a, b, s, x}
MCQuorum == {Q \in SUBSET Elder : 2 * Cardinality(Q) > Cardinality(Elder)}

\* Two conflicting first debits of a, one of them a payment to the section,
\* and a second one.
OneCredit == {T(x, 0, a, 2)}
Conflict  == OneCredit \cup {T(a, 0, s, 1), T(a, 0, b, 2), T(a, 1, b, 1)}

\* Two credits, both of which the debit needs.
TwoCredits == {T(x, 0, a, 1), T(x, 1, a, 1)}
NeedsBoth  == TwoCredits \cup {T(a, 0, b, 2)}

ElderSymmetry == Permutations(Elder)
=============================================================================
