----------------------------- MODULE BlobRecords -----------------------------
(***************************************************************************)
(* Reading chunks (metadata/blob_records.rs, metadata/adult_liveness.rs,   *)
(* capacity/mod.rs) at one elder: it asks the adults that should hold the  *)
(* chunk, hands their answers on to the client, keeps count of the answers *)
(* each adult owes, and proposes to drop an adult that owes far more than  *)
(* its neighbours.  Adults come, go, get full, answer late, more than once *)
(* or never, and their answers go to all elders: those that other elders   *)
(* asked answer here, too.                                                 *)
(***************************************************************************)
EXTENDS AdultReader

CONSTANTS
  MsgId,
  CHUNK_COPY_COUNT,
  NEIGHBOUR_COUNT,
  MIN_PENDING_OPS,
  Tolerance,          \* 1 / PENDING_OP_TOLERANCE_RATIO
  Mobile              \* the adults that leave, join and get full

ASSUME RecordsAssumption ==
  /\ IsFiniteSet(Adult)
  /\ IsFiniteSet(MsgId)
  /\ {CHUNK_COPY_COUNT, NEIGHBOUR_COUNT, MIN_PENDING_OPS, Tolerance} \subseteq Nat
  /\ CHUNK_COPY_COUNT > 0
  /\ Mobile \subseteq Adult

VARIABLES
  members,     \* the adults of the section, as routing knows them
  snapshot,    \* the adults an EldersChanged handler has read from routing
  full,        \* full_adults
  targets,     \* ops: targets[m], empty when there is no operation m
  responded,   \* ops: responded_with_success
  pending,     \* pending_ops (no entry is 0)
  tracked,     \* the keys of closest_adults
  served,      \* served[m]: the success of an adult asked was handed on to the client
  again,       \* again[m]: another answer was, after that
  proposed     \* the adults proposed to be taken offline

vars == <<members, snapshot, full, targets, responded, pending, tracked,
          served, again, proposed>>

ops == <<targets, responded, pending, tracked>>

client == <<served, again>>

TypeOK ==
  /\ {members, snapshot, full, tracked, proposed} \subseteq SUBSET Adult
  /\ targets \in [MsgId -> SUBSET Adult]
  /\ {responded, served, again} \subseteq [MsgId -> BOOLEAN]
  /\ pending \in [Adult -> Nat]

Init ==
  /\ members = Adult
  /\ snapshot = Adult
  /\ full = {}
  /\ targets = [m \in MsgId |-> {}]
  /\ responded = [m \in MsgId |-> FALSE]
  /\ pending = [a \in Adult |-> 0]
  /\ tracked = {}
  /\ served = [m \in MsgId |-> FALSE]
  /\ again = [m \in MsgId |-> FALSE]
  /\ proposed = {}

-----------------------------------------------------------------------------
get_chunk_holder_adults(c) == ClosestTo(c, members \ full, CHUNK_COPY_COUNT)

\* closest_adults[a]: every change of the tracked adults recomputes it.
closest_adults(a, adults) == ClosestTo(a, adults \ {a}, NEIGHBOUR_COUNT)

\* Faulty variant of find_unresponsive_adults: off by one in the comparisons.
find_slow_adults(adults, owed) ==
  {a \in adults :
     /\ owed[a] >= MIN_PENDING_OPS
     /\ \E b \in closest_adults(a, adults) : owed[a] >= Tolerance * owed[b]}

\* a owes more than its neighbours, by the tolerated factor; a neighbour has
\* to owe something, too.
find_unresponsive_adults(adults, owed) ==
  {a \in adults :
     /\ owed[a] > MIN_PENDING_OPS
     /\ \E b \in closest_adults(a, adults) :
          /\ owed[b] > MIN_PENDING_OPS
          /\ owed[a] > Tolerance * owed[b]
          /\ \A c \in closest_adults(a, adults) : owed[c] <= owed[b]}

-----------------------------------------------------------------------------
\* Faulty variant of new_read: the targets do not become keys of closest_adults.
new_read_untracked(m, holders) ==
  /\ targets' = [targets EXCEPT ![m] = holders]
  /\ responded' = [responded EXCEPT ![m] = FALSE]
  /\ pending' = [a \in Adult |-> pending[a] + IF a \in holders THEN 1 ELSE 0]
  /\ UNCHANGED tracked

\* A new operation, which every target owes an answer.
new_read(m, holders) ==
  /\ targets' = [targets EXCEPT ![m] = holders]
  /\ responded' = [responded EXCEPT ![m] = FALSE]
  /\ pending' = [a \in Adult |-> pending[a] + IF a \in holders THEN 1 ELSE 0]
  /\ tracked' = tracked \cup holders

\* get: a query to every target.  Without any the client gets an error, and with
\* an id that is in use nothing happens: neither changes the records.  An id
\* can be used again once its operation has ended.
Read(m, c) ==
  LET holders == get_chunk_holder_adults(c) IN
  /\ holders # {} /\ targets[m] = {}
  /\ new_read(m, holders)
  /\ served' = [served EXCEPT ![m] = FALSE]
  /\ UNCHANGED <<members, snapshot, full, again, proposed>>

\* remove_target: the count goes down whether or not the adult was a target.
remove_target(m, a) ==
  /\ pending' = [pending EXCEPT ![a] = IF @ > 0 THEN @ - 1 ELSE 0]
  /\ targets' = [targets EXCEPT ![m] = @ \ {a}]

\* Faulty variant of Forwards: without responded_with_success.
ForwardsAlways(m, a) == targets[m] \ {a} # {}

\* record_adult_read_liveness: the operation ends with its last target, and
\* the answer of that one goes nowhere.
Forwards(m, a) ==
  LET left == targets[m] \ {a} IN
  left # {} /\ ~(Cardinality(left) < CHUNK_COPY_COUNT /\ responded[m])

\* The answer of adult a to query m arrives, whoever asked it.
Answer(m, a, success) ==
  /\ remove_target(m, a)
  /\ responded' = [responded EXCEPT ![m] = IF Forwards(m, a) THEN success ELSE @]
  /\ LET drop == Forwards(m, a) /\ ~success /\ a \in full
         send == Forwards(m, a) /\ ~drop
     IN  /\ again' = [again EXCEPT ![m] = @ \/ (send /\ served[m])]
         /\ served' = [served EXCEPT ![m] = @ \/ (send /\ success /\ a \in targets[m])]
  /\ proposed' = proposed \cup find_unresponsive_adults(tracked, pending')
  /\ UNCHANGED <<members, snapshot, full, tracked>>

-----------------------------------------------------------------------------
\* IncrementFullNodeCount, or the full adults another elder knows of.
insert_full_adults(adults) ==
  /\ full' = full \cup adults
  /\ UNCHANGED <<members, snapshot, ops, client, proposed>>

\* Routing: an adult leaves or joins.
Leave(a) ==
  /\ a \in members
  /\ members' = members \ {a}
  /\ UNCHANGED <<snapshot, full, ops, client, proposed>>

Join(a) ==
  /\ a \notin members
  /\ members' = members \cup {a}
  /\ UNCHANGED <<snapshot, full, ops, client, proposed>>

\* EldersChanged reads the adults, and then waits for the lock on meta_data.
our_adults ==
  /\ snapshot' = members
  /\ UNCHANGED <<members, full, ops, client, proposed>>

\* Faulty variant of retain_members_only: the counts are kept.
retain_counts ==
  LET gone == tracked \ snapshot IN
  /\ full' = full \cap snapshot
  /\ tracked' = tracked \ gone
  /\ targets' = [m \in MsgId |-> targets[m] \ gone]
  /\ UNCHANGED <<members, snapshot, pending, responded, client, proposed>>

\* Adults that are no members are neither full nor tracked, nor awaited.
retain_members_only ==
  LET gone == tracked \ snapshot IN
  /\ full' = full \cap snapshot
  /\ pending' = [a \in Adult |-> IF a \in gone THEN 0 ELSE pending[a]]
  /\ tracked' = tracked \ gone
  /\ targets' = [m \in MsgId |-> targets[m] \ gone]
  /\ UNCHANGED <<members, snapshot, responded, client, proposed>>

Next ==
  \/ \E m \in MsgId :
       \/ \E c \in Chunk : Read(m, c)
       \/ \E a \in Adult, success \in BOOLEAN : Answer(m, a, success)
  \/ \E a \in Mobile : insert_full_adults({a}) \/ Leave(a) \/ Join(a)
  \/ our_adults
  \/ retain_members_only

Spec == Init /\ [][Next]_vars

-----------------------------------------------------------------------------
\* The reads whose answer adult a owes.
Owed(a) == {m \in MsgId : a \in targets[m]}

\* No adult is charged with more pending operations than there are reads that
\* wait for it, whatever is answered twice, late, or after the adult left.
PendingIsOwed == \A a \in Adult : pending[a] <= Cardinality(Owed(a))

\* Only an adult that really owes more answers than MIN_PENDING_OPS is
\* proposed to be taken offline (record_adult_read_liveness).
ProposedOwes ==
  [][\A a \in proposed' \ proposed : Cardinality(Owed(a)') > MIN_PENDING_OPS]_vars

\* Once the success of an adult that was asked went to the client, no answer is
\* handed on any more in that operation: neither a second success nor an error,
\* however many adults answer, asked or not, and however often
\* (responded_with_success).
SuccessIsFinal == \A m \in MsgId : ~again[m]

\* retain_members_only leaves no read waiting for an adult that is gone: every
\* target is a key of closest_adults.
RetainForgetsTheGone ==
  [][retain_members_only => \A m \in MsgId : targets'[m] \subseteq snapshot]_vars
==============================================================================
