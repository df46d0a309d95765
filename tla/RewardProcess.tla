--------------------------- MODULE RewardProcess ----------------------------
(***************************************************************************)
(* How a section's elders deal with the rewards of a split                 *)
(* (section_funds/reward_process.rs and reward_stage.rs).  An elder that   *)
(* was one before the split works out the credits, signs them and sends    *)
(* its shares.  An elder that gets them together with its own to enough    *)
(* shares for every credit signs the credits with the signatures so        *)
(* combined, and sends those shares.  A new elder signs what it hears.     *)
(*                                                                         *)
(* The duties in node/handle.rs call the handlers on a clone of the        *)
(* process.  What a handler sends is sent; the stage and the shares that   *)
(* it leaves behind are dropped with the clone.  So an elder stays in the  *)
(* stage that it entered with the split, and no elder gets to the stages   *)
(* AccumulatingCredits and Completed.                                      *)
(*                                                                         *)
(* A share is what it signs, under the index of the elder.  Combining      *)
(* shares of different contents makes a signature of nothing, and no error.*)
(***************************************************************************)
EXTENDS RewardCalc, TLC

CONSTANTS
  Elder,        \* the indices of the elders
  Newbie,       \* those that become elders with the split
  Needed,       \* 1 + threshold
  View,         \* what elders may know: payments, section_managed, nodes
  Disagree,     \* what pairs of elders may know differently
  max_supply

ASSUME RewardAssumption ==
  /\ Elder \subseteq Nat \ {0} /\ IsFiniteSet(Elder)
  /\ Newbie \subseteq Elder /\ Newbie # Elder
  /\ Needed \in 1..Cardinality(Elder)
  /\ {MIN_REWARD_AGE, max_supply} \subseteq Nat

VARIABLES
  view,      \* view[e]: what old elder e works out the rewards from
  stage,     \* stage[e]: the stage of e, none before it knows of the split
  sent       \* all messages ever sent: they may be lost, late or repeated

vars == <<view, stage, sent>>

None == [at |-> "none"]

Awaiting == [at |-> "awaiting"]

Init ==
  /\ view \in [Elder \ Newbie -> Disagree] \cup {[e \in Elder \ Newbie |-> v] : v \in View}
  /\ stage = [e \in Elder |-> None]
  /\ sent = {}

-----------------------------------------------------------------------------
(* RewardStage: rewards[n] is the credit of node n and the shares so far *)

\* The shares of the lowest indices are combined.
combine_signatures(sigs) ==
  LET first  == {i \in DOMAIN sigs : Cardinality({j \in DOMAIN sigs : j < i}) < Needed}
      shares == {<<i, sigs[i]>> : i \in first}
  IN  IF \E what \in Range(sigs) : \A i \in first : sigs[i] = what
        THEN {<<0, sigs[Min(first)]>>}
        ELSE shares

\* Every credit has enough shares.
pending_agreements(rewards) ==
  \A n \in DOMAIN rewards : Cardinality(DOMAIN rewards[n].sigs) >= Needed

\* The shares of a message are added by the id of the credit, whatever they sign;
\* one for an unknown credit is an error, which ends the handler.
Known(rewards, m) == DOMAIN m.rewards \subseteq DOMAIN rewards

add_sigs(rewards, m) ==
  [n \in DOMAIN rewards |->
    IF n \in DOMAIN m.rewards
      THEN [rewards[n] EXCEPT !.sigs = (m.from :> m.rewards[n]) @@ @]
      ELSE rewards[n]]

\* sign_proposed_rewards and sign_accumulating_rewards
Sign(e, contents) ==
  [n \in DOMAIN contents |-> [what |-> contents[n], sigs |-> e :> contents[n]]]

\* The credits with their combined signatures.
Combined(rewards) ==
  [n \in DOMAIN rewards |->
    [what |-> rewards[n].what, sig |-> combine_signatures(rewards[n].sigs)]]

-----------------------------------------------------------------------------
(* Handlers *)

\* Elder e sends its shares to all, itself included.
Send(e, kind, rewards) ==
  sent' = sent \cup {[from |-> e, kind |-> kind,
                      rewards |-> [n \in DOMAIN rewards |-> rewards[n].what]]}

get_reward_credits(v) ==
  distribute_rewards(
    get_reward_and_mint_amount(v.payments, v.section_managed, max_supply), v.nodes)

\* The elder works out and signs the credits, and proposes them.
reward_and_mint(e) ==
  LET rewards == Sign(e, get_reward_credits(view[e])) IN
  /\ stage' = [stage EXCEPT ![e] = [at |-> "proposing", rewards |-> rewards]]
  /\ Send(e, "proposal", rewards)

\* An elder of the section before the split learns of it.  Without payments it
\* pays out nothing, and has no process.
begin_split_as_oldie(e) ==
  /\ e \notin Newbie /\ stage[e] = None
  /\ view[e].payments > 0
  /\ reward_and_mint(e)
  /\ UNCHANGED view

\* A new elder learns of it.
begin_split_as_newbie(e) ==
  /\ e \in Newbie /\ stage[e] = None
  /\ stage' = [stage EXCEPT ![e] = Awaiting]
  /\ UNCHANGED <<view, sent>>

\* receive_churn_proposal, awaiting: the clone takes up the proposal.
AdoptProposal(e, m) ==
  /\ m.kind = "proposal" /\ stage[e] = Awaiting
  /\ Send(e, "proposal", Sign(e, m.rewards))
  /\ UNCHANGED <<view, stage>>

\* receive_churn_proposal, proposing: the clone has the elder's own shares and
\* those of the message.
AddProposal(e, m) ==
  /\ m.kind = "proposal" /\ stage[e].at = "proposing"
  /\ LET rewards == add_sigs(stage[e].rewards, m) IN
       /\ Known(rewards, m) /\ pending_agreements(rewards)
       /\ Send(e, "accumulation", Sign(e, Combined(rewards)))
  /\ UNCHANGED <<view, stage>>

\* receive_wallet_accumulation, awaiting or proposing: whatever was proposed
AdoptAccumulation(e, m) ==
  /\ m.kind = "accumulation" /\ stage[e] # None
  /\ Send(e, "accumulation", Sign(e, m.rewards))
  /\ UNCHANGED <<view, stage>>

Begin(e) == begin_split_as_oldie(e) \/ begin_split_as_newbie(e)

\* Without a process (NotChurningFunds) a message changes nothing.
Receive(e) ==
  \E m \in sent : AdoptProposal(e, m) \/ AddProposal(e, m) \/ AdoptAccumulation(e, m)

Next == \E e \in Elder : Begin(e) \/ Receive(e)

Spec == Init /\ [][Next]_vars

-----------------------------------------------------------------------------
SameView == \E v \in View : \A e \in Elder \ Newbie : view[e] = v

\* Something is signed if enough shares of it, and of nothing else, made the
\* signature.
Signed(x) == x.sig = {<<0, x.what>>}

Payout(v) == get_reward_and_mint_amount(v.payments, v.section_managed, max_supply)

Sum(credits) == MapThenSumSet(LAMBDA n : credits[n].amount, DOMAIN credits)

\* When the elders of old know the same, what elders accumulate, those that took
\* it up unseen included, are validly signed credits, which pay out the whole
\* amount (unless no node is old enough): reward_and_mint, pending_agreements.
AccumulationPaysOut ==
  SameView =>
    \A m \in sent, o \in Elder \ Newbie :
      m.kind = "accumulation" =>
        /\ \A n \in DOMAIN m.rewards : Signed(m.rewards[n])
        /\ DOMAIN get_buckets(view[o].nodes) # {} =>
             Sum([n \in DOMAIN m.rewards |-> m.rewards[n].what]) = Payout(view[o])

\* No two elders accumulate signed credits of different amounts for one node.
\* Not kept by the code: a new elder that stays in AwaitingThreshold signs every
\* proposal, and two elders of old that know different amounts each find the
\* share they lack.
SignedCreditsAgree ==
  \A l, m \in {k \in sent : k.kind = "accumulation"} :
    \A n \in DOMAIN l.rewards \cap DOMAIN m.rewards :
      Signed(l.rewards[n]) /\ Signed(m.rewards[n]) =>
        l.rewards[n].what = m.rewards[n].what
=============================================================================
