-------------------------- MODULE MCRewardProcess ---------------------------
(***************************************************************************)
(* Two old elders and a new one.  Views: one nano; an amount that only the *)
(* youngest bucket sees; two buckets with a remainder; an amount that      *)
(* raises the multiplier, above the supply; a node that is too young; no   *)
(* payments, as in this version of the code (node/split.rs).               *)
(***************************************************************************)
EXTENDS RewardProcess

V(payments, managed, nodes) ==
  [payments |-> payments, section_managed |-> managed, nodes |-> nodes]

MCView ==
  {V(0, 0, <<6>>), V(1, 1000, <<6>>), V(30, 0, <<6, 7>>), V(151, 990, <<7, 6, 7>>),
   V(300, 0, <<6, 6>>), V(50, 1020, <<6, 5>>), V(10, 2000, <<6>>), V(9, 0, <<5>>)}

\* Two elders with different balances, or different wallets.
MCDisagree == {V(3, 0, <<6>>), V(3, 999, <<6>>), V(3, 0, <<6, 6>>)}
=============================================================================
