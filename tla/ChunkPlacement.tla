--------------------------- MODULE ChunkPlacement ---------------------------
(***************************************************************************)
(* Where the chunks of a section are.  Elders send a new chunk to the      *)
(* closest adults that are not full (metadata/blob_records.rs), and look   *)
(* for it there.  When the adults of the section change, every adult works *)
(* out the holders of its chunks from the old and the new list, full or    *)
(* not, sends a chunk to its new holders, and removes it if it is not one  *)
(* of them (node/role/adult_role.rs).                                      *)
(*                                                                         *)
(* The changes reach each adult at its own time; each one is handled in a  *)
(* task of its own, so an adult may handle them out of order, or at once:  *)
(* a task reads its chunks, removes those it is to give up, and only then  *)
(* are they sent.  A node that leaves takes with it what it has not sent.  *)
(* An adult may fail to store what it is sent, for want of space or since  *)
(* the message does not arrive, and a node may fail to send.               *)
(***************************************************************************)
EXTENDS AdultReader, Sequences, SequencesExt

CONSTANTS
  First,              \* the adults at the beginning
  Filling,            \* the adults that may get full
  CHUNK_COPY_COUNT,
  MaxChanges,         \* how often the adults change
  MaxFaults           \* how many of them leave or fail

ASSUME PlacementAssumption ==
  /\ First \subseteq Adult /\ Filling \subseteq Adult
  /\ {CHUNK_COPY_COUNT, MaxChanges, MaxFaults} \subseteq Nat

VARIABLES
  epochs,    \* the adults of the section, from change to change
  handled,   \* handled[a]: the changes that adult a has handled
  holds,     \* holds[a]: the chunks that a has
  outbox,    \* outbox[a]: the chunks that a is about to send
  sent,      \* the messages under way
  failed,    \* the adults that have failed to store or to send a chunk
  full,      \* full_adults, of the elders
  written,   \* the chunks that clients have stored
  deleted,   \* the chunks that clients have deleted
  hurried    \* the chunks that were still being stored when adults changed

vars == <<epochs, handled, holds, outbox, sent, failed, full, written, deleted, hurried>>

clients == <<written, deleted, hurried>>

members == Last(epochs)

Gone == UNION Range(epochs) \ members

\* The adults that cannot be counted on to have or to pass on a chunk.
Faulty == Gone \cup failed

\* Bounds: how many leave or fail, and how often adults change.  When every chunk
\* is deleted there is nothing left that a change or a fault could do harm to.
FaultAllowed(a) == deleted # Chunk /\ Cardinality(Faulty \cup {a}) <= MaxFaults

ChangeAllowed == deleted # Chunk /\ Len(epochs) <= MaxChanges

Fail(a) == FaultAllowed(a) /\ failed' = failed \cup {a}

\* A chunk read for a change of the adults, to be sent to its new holders,
\* and to be removed before that if the adult is not one of them.
Republish == [change : Nat, chunk : Chunk, at : {"remove", "send"}]

Msg == [to : Adult, cmd : {"new", "delete", "replicate"}, chunk : Chunk]

TypeOK ==
  /\ epochs \in Seq(SUBSET Adult)
  /\ handled \in [Adult -> SUBSET DOMAIN epochs]
  /\ holds \in [Adult -> SUBSET Chunk]
  /\ outbox \in [Adult -> SUBSET Republish]
  /\ sent \subseteq Msg
  /\ {failed, full} \subseteq SUBSET Adult
  /\ deleted \subseteq written /\ written \subseteq Chunk
  /\ hurried \subseteq written

Init ==
  /\ epochs = <<First>>
  /\ handled = [a \in Adult |-> {1}]
  /\ holds = [a \in Adult |-> {}]
  /\ outbox = [a \in Adult |-> {}]
  /\ sent = {}
  /\ failed = {}
  /\ full = {}
  /\ written = {}
  /\ deleted = {}
  /\ hurried = {}

-----------------------------------------------------------------------------
(* Elders *)

get_chunk_holder_adults(c) == ClosestTo(c, members \ full, CHUNK_COPY_COUNT)

To(adults, cmd, c) == {[to |-> a, cmd |-> cmd, chunk |-> c] : a \in adults}

\* Without enough adults the client gets an error.
send_chunks_to_adults(c) ==
  /\ c \notin written
  /\ Cardinality(get_chunk_holder_adults(c)) >= CHUNK_COPY_COUNT
  /\ written' = written \cup {c}
  /\ sent' = sent \cup To(get_chunk_holder_adults(c), "new", c)
  /\ UNCHANGED <<epochs, handled, holds, outbox, failed, full, deleted, hurried>>

\* (After the last change nothing is deleted: a bound.)
delete(c) ==
  /\ ChangeAllowed
  /\ c \in written \ deleted
  /\ deleted' = deleted \cup {c}
  /\ sent' = sent \cup To(get_chunk_holder_adults(c), "delete", c)
  /\ UNCHANGED <<epochs, handled, holds, outbox, failed, full, written, hurried>>

\* An adult that stores chunks reports that it is half full.
increase_full_node_count(a) ==
  /\ a \in (members \cap Filling) \ full
  /\ deleted # Chunk
  /\ holds[a] # {}
  /\ full' = full \cup {a}
  /\ UNCHANGED <<epochs, handled, holds, outbox, sent, failed, clients>>

-----------------------------------------------------------------------------
(* Adults *)

\* A chunk that is there already is not stored again.
Take(m) ==
  /\ sent' = sent \ {m}
  /\ holds' = [holds EXCEPT ![m.to] = @ \cup {m.chunk}]
  /\ UNCHANGED <<epochs, handled, outbox, failed, full, clients>>

WriteChunk(m) == m.cmd = "new" /\ Take(m)

ReplicateChunk(m) == m.cmd = "replicate" /\ Take(m)

\* put fails: for want of space, or the disk.  Nobody hears of it but the client
\* of a new chunk.  A message that does not arrive has the same effect.
Refuse(m) ==
  /\ sent' = sent \ {m}
  /\ Fail(m.to)
  /\ UNCHANGED <<epochs, handled, holds, outbox, full, clients>>

DeleteChunk(m) ==
  /\ m.cmd = "delete"
  /\ sent' = sent \ {m}
  /\ holds' = [holds EXCEPT ![m.to] = @ \ {m.chunk}]
  /\ UNCHANGED <<epochs, handled, outbox, failed, full, clients>>

\* Faulty variant of compute_holders: one copy fewer.
compute_fewer(c, adults) == ClosestTo(c, adults, CHUNK_COPY_COUNT - 1)

compute_holders(c, adults) == ClosestTo(c, adults, CHUNK_COPY_COUNT)

\* Faulty variant of republishes: only when a holder is lost.
republishes_lost(a, c, old, new) == compute_holders(c, old) \cap (old \ new) # {}

\* The holders have changed from the adult's point of view.
republishes(a, c, old, new) ==
  \/ a \notin compute_holders(c, new)
  \/ compute_holders(c, new) \cap (new \ old) # {}
  \/ compute_holders(c, old) \cap (old \ new) # {}

\* The chunks are read, each to be removed or to be kept.
reorganize_chunks(a, k) ==
  outbox' = [outbox EXCEPT ![a] = @ \cup
    {[change |-> k, chunk |-> c,
      at |-> IF a \in compute_holders(c, epochs[k]) THEN "send" ELSE "remove"] :
       c \in {d \in holds[a] : republishes(a, d, epochs[k - 1], epochs[k])}}]

AdultsChanged(a, k) ==
  /\ a \in members
  /\ k \notin handled[a]
  /\ handled' = [handled EXCEPT ![a] = @ \cup {k}]
  /\ reorganize_chunks(a, k)
  /\ UNCHANGED <<epochs, holds, sent, failed, full, clients>>

\* Other tasks may have stored or removed the chunk since it was read.
remove_chunk(a, r) ==
  /\ r.at = "remove"
  /\ holds' = [holds EXCEPT ![a] = @ \ {r.chunk}]
  /\ outbox' = [outbox EXCEPT ![a] = (@ \ {r}) \cup {[r EXCEPT !.at = "send"]}]
  /\ UNCHANGED <<epochs, handled, sent, failed, full, clients>>

\* A task sends when it has removed all; what is sent to a node that is gone
\* is lost.  An error ends the loop over the targets, and a message that cannot
\* be sent is not sent again: only some of them may be reached.
SendToNodes(a, r) ==
  /\ \A q \in outbox[a] : q.change = r.change => q.at = "send"
  /\ LET targets == compute_holders(r.chunk, epochs[r.change]) \cap members IN
       \E reached \in SUBSET targets :
         /\ sent' = sent \cup To(reached, "replicate", r.chunk)
         /\ IF reached = targets THEN UNCHANGED failed ELSE Fail(a)
  /\ outbox' = [outbox EXCEPT ![a] = @ \ {r}]
  /\ UNCHANGED <<epochs, handled, holds, full, clients>>

-----------------------------------------------------------------------------
(* Routing *)

\* The chunks that are being stored when the adults change.
Hurry == hurried' = hurried \cup {m.chunk : m \in {n \in sent : n.cmd = "new"}}

\* A node that joins has nothing to reorganise, and a new name.
Join(a) ==
  /\ ChangeAllowed
  /\ a \notin UNION Range(epochs)
  /\ epochs' = Append(epochs, members \cup {a})
  /\ handled' = [handled EXCEPT ![a] = DOMAIN epochs']
  /\ Hurry
  /\ UNCHANGED <<holds, outbox, sent, failed, full, written, deleted>>

\* ProcessLostMember: the adult that left is not full any more.
Leave(a) ==
  /\ ChangeAllowed /\ FaultAllowed(a)
  /\ a \in members
  /\ epochs' = Append(epochs, members \ {a})
  /\ full' = full \ {a}
  /\ sent' = {m \in sent : m.to # a}
  /\ outbox' = [outbox EXCEPT ![a] = {}]
  /\ holds' = [holds EXCEPT ![a] = {}]
  /\ Hurry
  /\ UNCHANGED <<handled, failed, written, deleted>>

Next ==
  \/ \E c \in Chunk : send_chunks_to_adults(c) \/ delete(c)
  \/ \E m \in sent : WriteChunk(m) \/ ReplicateChunk(m) \/ Refuse(m) \/ DeleteChunk(m)
  \/ \E a \in Adult :
       \/ increase_full_node_count(a) \/ Join(a) \/ Leave(a)
       \/ \E r \in outbox[a] : remove_chunk(a, r) \/ SendToNodes(a, r)
       \/ \E k \in DOMAIN epochs : AdultsChanged(a, k)

Spec == Init /\ [][Next]_vars

-----------------------------------------------------------------------------
\* Chunk c is on its way to a member, or about to be.
Coming(c) ==
  \/ \E m \in sent : m.chunk = c /\ m.cmd # "delete" /\ m.to \in members
  \/ \E r \in UNION Range(outbox) :
       r.chunk = c /\ compute_holders(c, epochs[r.change]) \cap members # {}

\* As long as fewer adults leave, or fail to store or send, than there are copies,
\* a stored chunk is not lost, however the changes, the removals of
\* reorganize_chunks and the messages overtake each other: some adult has it,
\* or is about to get it.
NoChunkLost ==
  Cardinality(Faulty) < CHUNK_COPY_COUNT =>
    \A c \in written \ deleted :
      Coming(c) \/ \E a \in members : c \in holds[a]

\* Nothing is left to do: no message under way, and no change to handle.
Quiet ==
  /\ sent = {}
  /\ \A a \in members : outbox[a] = {} /\ handled[a] = DOMAIN epochs

Readable(c) == \E a \in get_chunk_holder_adults(c) : c \in holds[a]

\* When no adult is full, and fewer than the copies have left or failed, the
\* elders ask an adult that has the chunk, once all changes are handled: both
\* sides work out the same holders.  (Not so for a chunk that arrives only
\* after its new holders are worked out.)
ReadableWhenNotFull ==
  Quiet /\ full = {} /\ Cardinality(Faulty) < CHUNK_COPY_COUNT =>
    \A c \in written \ (deleted \cup hurried) : Readable(c)

\* "Returns `XorName`s of the target holders for an Blob chunk."
\* (get_chunk_holder_adults): among those that it returns there is an adult
\* that has the chunk, once all changes are handled and unless too many adults
\* failed.  The code does not keep this once holders are full.
TargetsHold ==
  Quiet /\ Cardinality(Faulty) < CHUNK_COPY_COUNT =>
    \A c \in written \ (deleted \cup hurried) : Readable(c)
=============================================================================
