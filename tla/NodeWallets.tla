----------------------------- MODULE NodeWallets -----------------------------
(***************************************************************************)
(* The reward keys of a section's nodes, as its elders keep them           *)
(* (section_funds/mod.rs, section_funds/reward_wallets.rs, and the duties  *)
(* SetNodeWallet and ProcessLostMember of node/handle.rs).                 *)
(*                                                                         *)
(* A node sends its key when it joins and again when it becomes an elder   *)
(* and finds itself missing in the state pushed to it.  Each elder handles *)
(* a registration in a thread that reads the members from routing and      *)
(* takes the lock of the funds afterwards; a lost member is removed by     *)
(* another thread.  A newcomer merges the wallets of a push entry by       *)
(* entry, with the lock taken for each.  A split drops the nodes of the    *)
(* other half.                                                             *)
(*                                                                         *)
(* Old is an elder from the start; New is promoted and gets Old's state.   *)
(* A node has one reward key for as long as it runs, so the wallets of an  *)
(* elder are the set of the nodes whose key it has.                        *)
(***************************************************************************)
CONSTANTS
  Node,      \* the nodes of the section, New among them
  Ours,      \* the nodes that match our prefix after the split
  New        \* the node that is promoted

ASSUME WalletAssumption == New \in Ours /\ Ours \subseteq Node

Elder == {"old", "new"}

VARIABLES
  view,     \* view[e]: the members of the section, as e's routing has them
  joined,   \* the nodes that have joined
  sent,     \* the nodes that have sent their key after joining
  inbox,    \* inbox[e]: the nodes whose registration is on its way to e
  found,    \* found[e]: those that were found among the members
  lost,     \* lost[e]: members that left, not yet handled
  wallet,   \* wallet[e]: the nodes whose key e has
  packet,   \* the wallets Old pushed, what is left to merge, and how far New is
  rest,
  sync,
  promoted, \* what made New an elder: "no" event yet, "churn" or the "split"
  elder,    \* the elders whose node has the role, New's after its level_up
  split,    \* split[e]: how far e is with the split
  late      \* late[e]: nodes whose key was set when e's routing had them no more

vars == <<view, joined, sent, inbox, found, lost, wallet, packet, rest, sync,
          promoted, elder, split, late>>

members == <<view, joined, lost>>
pushes == <<packet, rest, sync>>
roles == <<promoted, elder>>

TypeOK ==
  /\ {joined, sent, packet, rest} \subseteq SUBSET Node
  /\ {view, inbox, found, lost, wallet, late} \subseteq [Elder -> SUBSET Node]
  /\ rest \subseteq packet /\ sent \subseteq joined
  /\ sync \in {"none", "pushed", "merging", "done", "failed"}
  /\ promoted \in {"no", "churn", "split"}
  /\ elder \subseteq Elder
  /\ split \in [Elder -> {"none", "seen", "pushed", "done"}]

None == [e \in Elder |-> {}]

Init ==
  /\ view = [e \in Elder |-> {New}]
  /\ joined = {New} /\ sent = {}
  /\ inbox = None /\ found = None /\ lost = None /\ wallet = None /\ late = None
  /\ packet = {} /\ rest = {} /\ sync = "none"
  /\ promoted = "no" /\ elder = {"old"}
  /\ split = [e \in Elder |-> "none"]

-----------------------------------------------------------------------------
(* The section, as routing reports it. *)

Join(n) ==
  /\ n \notin joined /\ (split["old"] # "none" => n \in Ours)
  /\ joined' = joined \cup {n}
  /\ view' = [e \in Elder |-> view[e] \cup {n}]
  /\ UNCHANGED <<sent, inbox, found, lost, wallet, split, late, pushes, roles>>

\* An elder's routing learns that a node left, and says so with MemberLeft.
Leave(e, n) ==
  /\ n \in view[e] \ {New}
  /\ view' = [view EXCEPT ![e] = @ \ {n}]
  /\ lost' = [lost EXCEPT ![e] = @ \cup {n}]
  /\ UNCHANGED <<joined, sent, inbox, found, wallet, split, late, pushes, roles>>

\* EldersChanged with New among the elders.
Promote ==
  /\ promoted = "no"
  /\ promoted' = "churn"
  /\ UNCHANGED <<sent, inbox, found, wallet, elder, split, late, members, pushes>>

\* The section splits; this may be what makes New an elder, which then has
\* nothing to split.
SectionSplit ==
  /\ split["old"] = "none"
  /\ split' = [e \in Elder |-> IF e = "old" \/ promoted = "churn" THEN "seen" ELSE "done"]
  /\ view' = [e \in Elder |-> view[e] \cap Ours]
  /\ promoted' \in IF promoted = "no" THEN {"no", "split"} ELSE {promoted}
  /\ UNCHANGED <<joined, sent, inbox, found, lost, wallet, elder, late, pushes>>

\* register_wallet: the key goes to every elder of the section.
Send(n) == inbox' = [e \in Elder |-> inbox[e] \cup {n}]

\* The end of Node::new.
RegisterWallet(n) ==
  /\ n \in joined \ sent
  /\ sent' = sent \cup {n}
  /\ Send(n)
  /\ UNCHANGED <<found, wallet, split, late, members, pushes, roles>>

-----------------------------------------------------------------------------
(* The duties of an elder. *)

\* SetNodeWallet looks the node up; at an adult it is an error, as it is when
\* the node is not found.
FindMember(e, n) ==
  /\ n \in inbox[e]
  /\ inbox' = [inbox EXCEPT ![e] = @ \ {n}]
  /\ found' = [found EXCEPT ![e] = IF e \in elder /\ n \in view[e] THEN @ \cup {n} ELSE @]
  /\ UNCHANGED <<sent, wallet, split, late, members, pushes, roles>>

NoteLate(e, n) == late' = [late EXCEPT ![e] = IF n \in view[e] THEN @ ELSE @ \cup {n}]

\* ... and, when it has the lock, sets the key.
SetNodeWallet(e, n) ==
  /\ n \in found[e]
  /\ found' = [found EXCEPT ![e] = @ \ {n}]
  /\ wallet' = [wallet EXCEPT ![e] = @ \cup {n}]
  /\ NoteLate(e, n)
  /\ UNCHANGED <<sent, inbox, split, members, pushes, roles>>

\* GetNodeWalletKey looks the key up and answers nothing ("not yet
\* implemented"): it changes no state.

\* Faulty variant of ProcessLostMember: the wallet is left alone.
KeepLostMember(e, n) ==
  /\ n \in lost[e]
  /\ lost' = [lost EXCEPT ![e] = @ \ {n}]
  /\ UNCHANGED <<view, joined, sent, inbox, found, wallet, split, late, pushes, roles>>

ProcessLostMember(e, n) ==
  /\ n \in lost[e]
  /\ lost' = [lost EXCEPT ![e] = @ \ {n}]
  /\ wallet' = [wallet EXCEPT ![e] = @ \ {n}]
  /\ late' = [late EXCEPT ![e] = @ \ {n}]
  /\ UNCHANGED <<view, joined, sent, inbox, found, split, pushes, roles>>

-----------------------------------------------------------------------------
(* The state of Old is pushed to New. *)

\* Only what belongs to the destination's prefix is pushed.
push_state ==
  /\ packet' = IF split["old"] = "none" THEN wallet["old"] ELSE wallet["old"] \cap Ours
  /\ rest' = packet'
  /\ sync' = "pushed"

\* On EldersChanged.
Push ==
  /\ sync = "none" /\ promoted = "churn"
  /\ push_state
  /\ UNCHANGED <<sent, inbox, found, wallet, split, late, members, roles>>

\* The new role starts without wallets.
level_up ==
  /\ promoted # "no" /\ "new" \notin elder
  /\ elder' = elder \cup {"new"}
  /\ UNCHANGED <<sent, inbox, found, wallet, promoted, split, late, members, pushes>>

\* synch_state finds that New is not in sync yet; an adult does not get there.
StartMerge ==
  /\ sync = "pushed"
  /\ sync' = IF "new" \in elder THEN "merging" ELSE "failed"
  /\ UNCHANGED <<sent, inbox, found, wallet, packet, rest, split, late, members, roles>>

MergeEntry(n) ==
  /\ sync = "merging" /\ n \in rest
  /\ rest' = rest \ {n}
  /\ wallet' = [wallet EXCEPT !["new"] = @ \cup {n}]
  /\ NoteLate("new", n)
  /\ UNCHANGED <<sent, inbox, found, packet, sync, split, members, roles>>

\* Faulty variant of FinishMerge: never registers again.
FinishMergeSilently ==
  /\ sync = "merging" /\ rest = {}
  /\ sync' = "done"
  /\ UNCHANGED <<sent, inbox, found, wallet, packet, rest, split, late, members, roles>>

\* received_initial_sync is set; a newcomer missing in the push registers again.
FinishMerge ==
  /\ sync = "merging" /\ rest = {}
  /\ sync' = "done"
  /\ IF New \notin packet THEN Send(New) ELSE inbox' = inbox
  /\ UNCHANGED <<sent, found, wallet, packet, rest, split, late, members, roles>>

-----------------------------------------------------------------------------
(* The split, at an elder that was one before: begin_split_as_oldie pushes *)
(* the state to the new elders, and then drops what is not ours any more.  *)

SplitPush(e) ==
  /\ e \in elder /\ split[e] = "seen"
  /\ split' = [split EXCEPT ![e] = "pushed"]
  /\ IF e = "old" /\ promoted = "split" THEN push_state ELSE UNCHANGED pushes
  /\ UNCHANGED <<sent, inbox, found, wallet, late, members, roles>>

\* keep_wallets_of our prefix.
KeepWallets(e) ==
  /\ split[e] = "pushed"
  /\ split' = [split EXCEPT ![e] = "done"]
  /\ wallet' = [wallet EXCEPT ![e] = @ \cap Ours]
  /\ late' = [late EXCEPT ![e] = @ \cap Ours]
  /\ UNCHANGED <<sent, inbox, found, members, pushes, roles>>

Next ==
  \/ \E n \in Node :
       \/ Join(n) \/ RegisterWallet(n) \/ MergeEntry(n)
       \/ \E e \in Elder :
            Leave(e, n) \/ FindMember(e, n) \/ SetNodeWallet(e, n) \/ ProcessLostMember(e, n)
  \/ Promote \/ level_up \/ Push \/ StartMerge \/ FinishMerge
  \/ SectionSplit \/ \E e \in Elder : SplitPush(e) \/ KeepWallets(e)

Spec == Init /\ [][Next]_vars

\* Threads run, and messages between elders arrive.
Fairness ==
  /\ WF_vars(StartMerge) /\ WF_vars(FinishMerge)
  /\ \A n \in Node : WF_vars(MergeEntry(n))
  /\ WF_vars(FindMember("old", New)) /\ WF_vars(SetNodeWallet("old", New))

FairSpec == Spec /\ Fairness

-----------------------------------------------------------------------------
(* Properties. *)

\* An elder keeps the key of a node that its routing no longer has only while
\* the duty that drops it is on its way (a lost member, or the split), or
\* when SetNodeWallet or a merge set the key after routing had dropped it.
StaleWalletHasACause ==
  \A e \in Elder : \A n \in wallet[e] \ view[e] :
    \/ n \in lost[e] \cup late[e]
    \/ n \notin Ours /\ split[e] \in {"seen", "pushed"}

\* A newcomer that is in sync is known to the section: either the state pushed
\* to it had its reward key, or it registers again and Old stores the key.
NewElderIsRegistered == (sync = "done") ~> (New \in wallet["old"])

\* SectionFunds and RewardWallets say: "When the section becomes aware that a
\* node has left, its reward key is removed."  So once an elder has handled
\* the loss of a member it has no key for it.  The code does not keep this when
\* a registration was checked before the loss.
LostMemberHasNoKey ==
  split["old"] = "none" => \A n \in joined \ (view["old"] \cup lost["old"]) : n \notin wallet["old"]
=============================================================================
