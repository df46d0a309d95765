------------------------------ MODULE ElderSync ------------------------------
(***************************************************************************)
(* How a node that becomes an elder gets the section's transfer state      *)
(* (node/member_churn.rs, node/interaction.rs push_state, the levelling    *)
(* duties of node/handle.rs, and setup/merge and history of Replicas).     *)
(*                                                                         *)
(* Every elder of old pushes its state to the newcomer, without            *)
(* aggregation, while credits and registrations keep arriving.  Each push  *)
(* is handled in a task of its own: it reads received_initial_sync, merges *)
(* the wallets, merges node wallets and metadata, and sets the flag, with  *)
(* other tasks in between.  The db files of an earlier time as elder are   *)
(* still on disk and are loaded with the first access to their wallet.     *)
(*                                                                         *)
(* Wallets do not interact here, so the model follows one of them.         *)
(***************************************************************************)
EXTENDS WalletReplica, SequencesExt

CONSTANTS
  Oldie,      \* the elders that push their state
  History,    \* the events of the wallet, in the order the section settled them
  MaxStint    \* how often the node may be promoted

ASSUME MaxStint \in Nat

VARIABLES
  pos,       \* pos[o]: how much of History elder o has stored
  role,      \* of the newcomer: "adult", "promoted" by routing, or "elder"
  stint,     \* the promotions so far
  pushed,    \* pushed[o]: the part of History that o's push carries, or -1
  task,      \* task[o]: how far the newcomer is with o's push
  file,      \* the newcomer's db file of the wallet
  open,      \* the wallet is in the newcomer's map of stores
  synced,    \* received_initial_sync
  exempt,    \* the node was among the first elders, which need no sync
  merges     \* how often a push was merged

vars == <<pos, role, stint, pushed, task, file, open, synced, exempt, merges>>

\* The part of the state that events of the section leave alone.
levels == <<role, stint, pushed, task, synced, exempt, merges>>

Stored == {History[k] : k \in DOMAIN History}

Init ==
  /\ pos = [o \in Oldie |-> 0]
  /\ role = "adult"
  /\ stint = 0
  /\ pushed = [o \in Oldie |-> -1]
  /\ task = [o \in Oldie |-> "none"]
  /\ file = << >>
  /\ open = FALSE
  /\ synced = FALSE
  /\ exempt = FALSE
  /\ merges = 0

-----------------------------------------------------------------------------
(* Replicas: the history of a wallet, and merging one *)

\* Faulty variant of FirstOf: without unique_by.
AllOf(events, kind) == {i \in DOMAIN events : events[i].kind = kind}

\* unique_by: the first event of each kind and identity.
FirstOf(events, kind) ==
  {i \in DOMAIN events :
     /\ events[i].kind = kind
     /\ \A j \in 1..(i - 1) : events[j].kind = kind =>
          Id(events[j].t) # Id(events[i].t)}

At(events, indices) == [n \in DOMAIN indices |-> events[indices[n]]]

\* Faulty variant of get_debits: the last debit first.
get_debits_reversed(events) ==
  At(events, SetToSortSeq(FirstOf(events, "registered"),
                          LAMBDA i, j : events[i].t.ctr > events[j].t.ctr))

get_credits(events) ==
  At(events, SetToSortSeq(FirstOf(events, "propagated"), <))

get_debits(events) ==
  At(events, SetToSortSeq(FirstOf(events, "registered"),
                          LAMBDA i, j : events[i].t.ctr < events[j].t.ctr))

\* Pending debits (validated, not registered) are not part of a history.
history(events) ==
  [credits |-> get_credits(events), debits |-> get_debits(events)]

\* The first n of the credits of the history and then its debits, whatever is
\* there already: an event that cannot be stored ends it with an error.
setup(events, h, n) == events \o SubSeq(h.credits \o h.debits, 1, n)

-----------------------------------------------------------------------------
(* The section *)

Settled == {k \in DOMAIN History : \E o \in Oldie : k <= pos[o]}

\* An elder of old stores the next event.
Settle(o) ==
  /\ pos[o] < Len(History)
  /\ pos' = [pos EXCEPT ![o] = @ + 1]
  /\ UNCHANGED <<file, open, levels>>

\* Routing makes the node an elder, and everyone in the section knows.  It is
\* not promoted again before the tasks of an earlier stint are over.
Promote ==
  /\ role = "adult"
  /\ \A o \in Oldie : task[o] \in {"none", "done"}
  /\ stint < MaxStint
  /\ role' = "promoted"
  /\ stint' = stint + 1
  /\ pushed' = [o \in Oldie |-> -1]
  /\ task' = [o \in Oldie |-> "none"]
  /\ UNCHANGED <<pos, file, open, synced, exempt, merges>>

\* push_state of an elder of old, on EldersChanged.
Push(o) ==
  /\ role # "adult"
  /\ pushed[o] = -1
  /\ pushed' = [pushed EXCEPT ![o] = pos[o]]
  /\ UNCHANGED <<pos, role, stint, task, file, open, synced, exempt, merges>>

-----------------------------------------------------------------------------
(* The newcomer *)

\* New Transfers with an empty map of stores.  The first elders of a network
\* are taken to be in sync.
level_up ==
  /\ role = "promoted"
  /\ role' = "elder"
  /\ open' = FALSE
  /\ exempt' \in BOOLEAN
  /\ synced' = exempt'
  /\ UNCHANGED <<pos, stint, pushed, task, file, merges>>

\* The map of stores goes with the role, the files stay, and so do the tasks
\* that were started: they work on a clone of the role.
LevelDown ==
  /\ role = "elder"
  /\ role' = "adult"
  /\ open' = FALSE
  /\ UNCHANGED <<pos, stint, pushed, task, file, synced, exempt, merges>>

\* Faulty variant of SynchState: the flag is set when it is read.
SynchStateFlagFirst(o) ==
  /\ pushed[o] >= 0
  /\ task[o] = "none"
  /\ task' = [task EXCEPT ![o] = IF role = "elder" /\ ~synced THEN "checked"
                                                              ELSE "done"]
  /\ synced' = (synced \/ role = "elder")
  /\ UNCHANGED <<pos, role, stint, pushed, file, open, exempt, merges>>

\* SynchState arrives.  An adult answers with an error, and the push is lost;
\* an elder ignores it once it is in sync.
SynchState(o) ==
  /\ pushed[o] >= 0
  /\ task[o] = "none"
  /\ task' = [task EXCEPT ![o] = IF role = "elder" /\ ~synced THEN "checked"
                                                              ELSE "done"]
  /\ UNCHANGED <<pos, role, stint, pushed, file, open, synced, exempt, merges>>

\* The wallets are merged, up to the first event that cannot be stored: the
\* error ends the task.  A push without the wallet leaves it alone.  After a
\* demotion the store is not in the map of the node, but in that of the clone.
Merge(o) ==
  /\ task[o] = "checked"
  /\ \E n \in 0..pushed[o] :
       /\ task' = [task EXCEPT ![o] = IF n = pushed[o] THEN "merged" ELSE "done"]
       /\ file' = setup(file, history(SubSeq(History, 1, pushed[o])), n)
  /\ open' = (open \/ (role = "elder" /\ pushed[o] > 0))
  /\ merges' = merges + 1
  /\ UNCHANGED <<pos, role, stint, pushed, synced, exempt>>

\* Node wallets and metadata are merged, and the flag is set.
FinishSync(o) ==
  /\ task[o] = "merged"
  /\ task' = [task EXCEPT ![o] = "done"]
  /\ synced' = TRUE
  /\ UNCHANGED <<pos, role, stint, pushed, file, open, exempt, merges>>

\* Metadata cannot be stored: the task ends without setting the flag.
FailSync(o) ==
  /\ task[o] = "merged"
  /\ task' = [task EXCEPT ![o] = "done"]
  /\ UNCHANGED <<pos, role, stint, pushed, file, open, synced, exempt, merges>>

\* Faulty variant of ReceivePropagated: a known credit is stored again.
ReceivePropagatedAgain(k) ==
  /\ role = "elder"
  /\ k \in Settled
  /\ History[k].kind = "propagated"
  /\ Len(file) < 4
  /\ open' = TRUE
  /\ file' = IF Loadable(file) THEN try_insert(file, History[k]) ELSE file
  /\ UNCHANGED <<pos, levels>>

\* The steps of Replicas, on what the file holds.
ReceivePropagated(k) ==
  /\ role = "elder"
  /\ k \in Settled
  /\ History[k].kind = "propagated"
  /\ open' = TRUE
  /\ file' = IF Loadable(file) /\ PropagateOutcome(file, History[k].t) = "some"
             THEN try_insert(file, History[k]) ELSE file
  /\ UNCHANGED <<pos, levels>>

Register(k) ==
  /\ role = "elder"
  /\ k \in Settled
  /\ History[k].kind = "registered"
  /\ open
  /\ Loadable(file)
  /\ RegisterOutcome(file, History[k].t) = "some"
  /\ file' = try_insert(file, History[k])
  /\ UNCHANGED <<pos, open, levels>>

Next ==
  \/ Promote \/ level_up \/ LevelDown
  \/ \E o \in Oldie :
       \/ Settle(o) \/ Push(o) \/ SynchState(o)
       \/ Merge(o) \/ FinishSync(o) \/ FailSync(o)
  \/ \E k \in DOMAIN History : ReceivePropagated(k) \/ Register(k)

Spec == Init /\ [][Next]_vars

-----------------------------------------------------------------------------
Copies(event) == {i \in DOMAIN file : file[i] = event}

\* Only merging repeats an event, and each merge repeats it at most once:
\* the live path (receive_propagated, register) never stores what the file,
\* loaded from an earlier stint or merged a moment ago, already holds.
CopiesOnlyFromMerges ==
  \A event \in Stored : Cardinality(Copies(event)) <= merges + 1

\* However often events are repeated in the file, the history an elder hands
\* on (to the next newcomer, to a client) has each credit and debit once,
\* and the debits in the order of their counters: repeats do not spread.
HistoryIsClean ==
  LET h == history(file) IN
  /\ \A i, j \in DOMAIN h.credits : Id(h.credits[i].t) = Id(h.credits[j].t) => i = j
  /\ \A i, j \in DOMAIN h.debits : i < j => h.debits[i].t.ctr < h.debits[j].t.ctr

\* A debit is in the file only with every earlier debit of the wallet, though
\* merges break off (setup returns the first error), though a demotion cuts
\* in, and though debits arrive live in between: setup stores the debits in
\* the order of their counters.  A gap would be for good, since a debit is
\* only registered as the next one.
DebitsHaveNoGap ==
  \A i \in DOMAIN file : file[i].kind = "registered" =>
    \A c \in 0..(file[i].t.ctr - 1) :
      Knows(file, "registered", <<file[i].t.from, c>>)

\* An elder that takes itself to be in sync holds all that one elder of old
\* had when it pushed its state: the flag is set after the merge.
SyncedHoldsAPush ==
  role = "elder" /\ synced /\ ~exempt =>
    \E o \in Oldie :
      pushed[o] >= 0 /\ \A k \in 1..pushed[o] : Holds(file, History[k])

\* "We are already received the initial sync from our section. Ignoring
\* update" (synch_state): once the flag is set, no push is merged any more.
\* The code does not keep this for pushes that were let in before.
SyncOnlyOnce == [][synced /\ role = "elder" => merges' = merges]_vars
=============================================================================
