-------------------------- MODULE NodeWalletsProofs --------------------------
(***************************************************************************)
(* Proof, for every set of nodes and every split, that an elder keeps the  *)
(* key of a node which is no member any more only for one of the reasons   *)
(* StaleWalletHasACause lists.                                             *)
(***************************************************************************)
EXTENDS NodeWallets, TLAPS

\* The inductive invariant: a node that is not an elder has no wallets, and
\* by the time of the split only a change of elders can have promoted New.
WalletInv ==
  /\ TypeOK
  /\ StaleWalletHasACause
  /\ "new" \notin elder => wallet["new"] = {} /\ found["new"] = {} /\ sync \notin {"merging", "done"}
  /\ promoted = "no" => "new" \notin elder
  /\ split["old"] = "none" => promoted # "split"

USE WalletAssumption DEF Elder

\* At the start no elder has a wallet.
LEMMA WalletInit == Init => WalletInv
BY DEF Init, WalletInv, TypeOK, StaleWalletHasACause, None

\* The types are kept by every step.
LEMMA WalletTypes ==
  ASSUME WalletInv, [Next]_vars
  PROVE  TypeOK'
<1> USE DEF WalletInv, TypeOK, members, pushes, roles
<1>1. ASSUME NEW n \in Node, Join(n)
      PROVE  TypeOK'
  BY <1>1 DEF Join
<1>2. ASSUME NEW n \in Node, RegisterWallet(n)
      PROVE  TypeOK'
  BY <1>2 DEF RegisterWallet, Send
<1>3. ASSUME NEW n \in Node, MergeEntry(n)
      PROVE  TypeOK'
  BY <1>3 DEF MergeEntry, NoteLate
<1>4. ASSUME NEW n \in Node, NEW e \in Elder, Leave(e, n)
      PROVE  TypeOK'
  BY <1>4 DEF Leave
<1>5. ASSUME NEW n \in Node, NEW e \in Elder, FindMember(e, n)
      PROVE  TypeOK'
  BY <1>5 DEF FindMember
<1>6. ASSUME NEW n \in Node, NEW e \in Elder, SetNodeWallet(e, n)
      PROVE  TypeOK'
  BY <1>6 DEF SetNodeWallet, NoteLate
<1>7. ASSUME NEW n \in Node, NEW e \in Elder, ProcessLostMember(e, n)
      PROVE  TypeOK'
  BY <1>7 DEF ProcessLostMember
<1>8. CASE Promote \/ level_up \/ StartMerge
  BY <1>8 DEF Promote, level_up, StartMerge
<1>9. CASE Push
  BY <1>9 DEF Push, push_state
<1>10. CASE FinishMerge
  BY <1>10 DEF FinishMerge, Send
<1>11. CASE SectionSplit
  BY <1>11 DEF SectionSplit
<1>12. ASSUME NEW e \in Elder, SplitPush(e)
       PROVE  TypeOK'
  BY <1>12 DEF SplitPush, push_state
<1>13. ASSUME NEW e \in Elder, KeepWallets(e)
       PROVE  TypeOK'
  BY <1>13 DEF KeepWallets
<1>14. CASE UNCHANGED vars
  BY <1>14 DEF vars
<1> QED BY <1>1, <1>2, <1>3, <1>4, <1>5, <1>6, <1>7, <1>8, <1>9, <1>10, <1>11, <1>12, <1>13, <1>14
        DEF Next

\* A stale wallet always has its cause.
LEMMA WalletCauses ==
  ASSUME WalletInv, [Next]_vars
  PROVE  StaleWalletHasACause'
<1> USE DEF WalletInv, TypeOK, StaleWalletHasACause, members, pushes, roles
<1>1. ASSUME NEW n \in Node, Join(n)
      PROVE  StaleWalletHasACause'
  BY <1>1 DEF Join
<1>2. ASSUME NEW n \in Node, RegisterWallet(n)
      PROVE  StaleWalletHasACause'
  BY <1>2 DEF RegisterWallet
<1>3. ASSUME NEW n \in Node, MergeEntry(n)
      PROVE  StaleWalletHasACause'
  BY <1>3 DEF MergeEntry, NoteLate
<1>4. ASSUME NEW n \in Node, NEW e \in Elder, Leave(e, n)
      PROVE  StaleWalletHasACause'
  BY <1>4 DEF Leave
<1>5. ASSUME NEW n \in Node, NEW e \in Elder, FindMember(e, n)
      PROVE  StaleWalletHasACause'
  BY <1>5 DEF FindMember
<1>6. ASSUME NEW n \in Node, NEW e \in Elder, SetNodeWallet(e, n)
      PROVE  StaleWalletHasACause'
  BY <1>6 DEF SetNodeWallet, NoteLate
<1>7. ASSUME NEW n \in Node, NEW e \in Elder, ProcessLostMember(e, n)
      PROVE  StaleWalletHasACause'
  BY <1>7 DEF ProcessLostMember
<1>8. CASE Promote \/ level_up \/ StartMerge \/ Push \/ FinishMerge
  BY <1>8 DEF Promote, level_up, StartMerge, Push, FinishMerge
<1>9. CASE SectionSplit
  BY <1>9 DEF SectionSplit
<1>10. ASSUME NEW e \in Elder, SplitPush(e)
       PROVE  StaleWalletHasACause'
  BY <1>10 DEF SplitPush
<1>11. ASSUME NEW e \in Elder, KeepWallets(e)
       PROVE  StaleWalletHasACause'
  BY <1>11 DEF KeepWallets
<1>12. CASE UNCHANGED vars
  BY <1>12 DEF vars
<1> QED BY <1>1, <1>2, <1>3, <1>4, <1>5, <1>6, <1>7, <1>8, <1>9, <1>10, <1>11, <1>12 DEF Next

\* Only an elder gets wallets, and New is promoted before it is an elder.
LEMMA WalletRoles ==
  ASSUME WalletInv, [Next]_vars
  PROVE  /\ "new" \notin elder' =>
              wallet'["new"] = {} /\ found'["new"] = {} /\ sync' \notin {"merging", "done"}
         /\ promoted' = "no" => "new" \notin elder'
         /\ split'["old"] = "none" => promoted' # "split"
<1> USE DEF WalletInv, TypeOK, members, pushes, roles
<1>1. CASE \E n \in Node : Join(n) \/ RegisterWallet(n) \/ MergeEntry(n)
  BY <1>1 DEF Join, RegisterWallet, MergeEntry
<1>2. CASE \E n \in Node, e \in Elder : Leave(e, n) \/ FindMember(e, n)
  BY <1>2 DEF Leave, FindMember
<1>3. CASE \E n \in Node, e \in Elder : SetNodeWallet(e, n) \/ ProcessLostMember(e, n)
  BY <1>3 DEF SetNodeWallet, ProcessLostMember
<1>4. CASE Promote \/ level_up \/ StartMerge
  BY <1>4 DEF Promote, level_up, StartMerge
<1>5. CASE Push \/ FinishMerge \/ SectionSplit
  BY <1>5 DEF Push, push_state, FinishMerge, SectionSplit
<1>6. CASE \E e \in Elder : SplitPush(e) \/ KeepWallets(e)
  BY <1>6 DEF SplitPush, push_state, KeepWallets
<1>7. CASE UNCHANGED vars
  BY <1>7 DEF vars
<1> QED BY <1>1, <1>2, <1>3, <1>4, <1>5, <1>6, <1>7 DEF Next

\* An elder keeps the key of a former member only while the duty to drop it is
\* pending, or because SetNodeWallet or a merge set it too late.
THEOREM StaleWalletsExplained == Spec => []StaleWalletHasACause
<1>1. WalletInv /\ [Next]_vars => WalletInv'
  BY WalletTypes, WalletCauses, WalletRoles DEF WalletInv
<1>2. WalletInv => StaleWalletHasACause
  BY DEF WalletInv
<1> QED BY <1>1, <1>2, WalletInit, PTL DEF Spec

\* In every state the wallets, duties and stages of the elders keep their types.
THEOREM TypeCorrect == Spec => []TypeOK
<1>1. WalletInv /\ [Next]_vars => WalletInv'
  BY WalletTypes, WalletCauses, WalletRoles DEF WalletInv
<1>2. WalletInv => TypeOK
  BY DEF WalletInv
<1> QED BY <1>1, <1>2, WalletInit, PTL DEF Spec
=============================================================================
