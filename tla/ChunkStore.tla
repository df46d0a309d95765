----------------------------- MODULE ChunkStore -----------------------------
(***************************************************************************)
(* The stores of chunks on disk (chunk_store/mod.rs), the record of the    *)
(* space they use (chunk_store/used_space.rs), and the users of a store:   *)
(* ChunkStorage of an adult, which never overwrites, and the map, sequence *)
(* and register storages of an elder, which do.                            *)
(*                                                                         *)
(* A store handles one operation at a time (its callers hold a write       *)
(* lock), so what can come between two steps of an operation is a fault:   *)
(* a failing file operation, or a crash after which the store is opened    *)
(* again.  Levelling up or down also opens stores again.                   *)
(***************************************************************************)
EXTENDS Naturals, FiniteSetsExt

CONSTANTS
  Store,         \* the stores of the node
  Immutable,     \* those of them that hold immutable chunks
  Id,            \* the chunks
  Size,          \* the sizes of serialised chunks
  MaxCapacity,
  MaxFaults      \* how many faults are considered

ASSUME StoreAssumption ==
  /\ Immutable \subseteq Store
  /\ Size \subseteq Nat \ {0}
  /\ MaxCapacity \in Nat
  /\ MaxFaults \in Nat

VARIABLES
  disk,      \* disk[s][id]: the file of chunk id in store s
  record,    \* record[s]: the value in the file "used_space" of s (empty is 0)
  local,     \* local[s]: local_value
  total,     \* total[s]: total_value
  op,        \* op[s]: the operation s is in the middle of
  stored,    \* stored[s]: the chunks that were stored and not deleted since
  faults     \* the number of faults so far

vars == <<disk, record, local, total, op, stored, faults>>

spaces == <<record, local, total>>

Absent == [state |-> "absent", len |-> 0]

File == [state : {"whole", "partial"}, len : Nat] \cup {Absent}

Idle == [at |-> "idle"]

Operation == [at : {"delete", "remove"}, id : Id]
        \cup [at : {"delete", "remove", "increase", "write", "decrease"},
              id : Id, size : Size]

TypeOK ==
  /\ disk \in [Store -> [Id -> File]]
  /\ {record, local, total} \subseteq [Store -> Nat]
  /\ op \in [Store -> Operation \cup {Idle}]
  /\ stored \in [Store -> SUBSET Id]
  /\ faults \in 0..MaxFaults

Init ==
  /\ disk = [s \in Store |-> [id \in Id |-> Absent]]
  /\ record = [s \in Store |-> 0]
  /\ local = [s \in Store |-> 0]
  /\ total = [s \in Store |-> 0]
  /\ op = [s \in Store |-> Idle]
  /\ stored = [s \in Store |-> {}]
  /\ faults = 0

has(s, id) == disk[s][id] # Absent

\* get: a partial file cannot be deserialised.
CanGet(s, id) == disk[s][id].state = "whole"

Goto(s, step) == op' = [op EXCEPT ![s] = [@ EXCEPT !.at = step]]

Return(s) == op' = [op EXCEPT ![s] = Idle]

-----------------------------------------------------------------------------
(* UsedSpace *)

\* The file is written first, then the values in memory.
SetSpace(s, newTotal, newLocal) ==
  /\ record' = [record EXCEPT ![s] = newLocal]
  /\ total' = [total EXCEPT ![s] = newTotal]
  /\ local' = [local EXCEPT ![s] = newLocal]

saturating_sub(m, n) == IF m > n THEN m - n ELSE 0

\* Faulty variant of CanIncrease: what is about to be consumed is not counted.
CanIncreaseLate(s, consumed) == total[s] <= MaxCapacity

CanIncrease(s, consumed) == total[s] + consumed <= MaxCapacity

Increase(s, consumed) == SetSpace(s, total[s] + consumed, local[s] + consumed)

Decrease(s, released) ==
  SetSpace(s, saturating_sub(total[s], released), saturating_sub(local[s], released))

-----------------------------------------------------------------------------
(* Calls.  The ones that end at once, with an error or with nothing to do,
   change nothing and are no steps of the model. *)

Begin(s, operation) ==
  /\ op[s] = Idle
  /\ op' = [op EXCEPT ![s] = operation]
  /\ UNCHANGED <<disk, spaces, stored, faults>>

Put(s, id, size) == Begin(s, [at |-> "delete", id |-> id, size |-> size])

\* Faulty variant of try_store: without asking whether the chunk is there.
store_anyway(s, id, size) == s \in Immutable /\ Put(s, id, size)

\* A client's chunk at an adult.
try_store(s, id, size) == s \in Immutable /\ ~has(s, id) /\ Put(s, id, size)

\* A chunk that an adult takes over; it is content if it has the chunk.
store_for_replication(s, id, size) ==
  s \in Immutable /\ ~has(s, id) /\ Put(s, id, size)

\* A new map, sequence or register at an elder.
Create(s, id, size) == s \notin Immutable /\ ~has(s, id) /\ Put(s, id, size)

\* Edits read the old version first.
Edit(s, id, size) == s \notin Immutable /\ CanGet(s, id) /\ Put(s, id, size)

\* Merging another elder's data: put, whatever there is.
Update(s, id, size) == s \notin Immutable /\ Put(s, id, size)

\* delete of any storage, remove_chunk when an adult holds a chunk no more:
\* each reads the chunk first.
Delete(s, id) == CanGet(s, id) /\ Begin(s, [at |-> "delete", id |-> id])

-----------------------------------------------------------------------------
(* The steps of put and delete *)

IsPut(s) == "size" \in DOMAIN op[s]

\* Faulty variant of ReleaseOld: the space of the old file is not released.
KeepOldSpace(s) ==
  /\ op[s].at = "delete"
  /\ Goto(s, IF has(s, op[s].id) THEN "remove" ELSE "increase")
  /\ UNCHANGED <<disk, spaces, stored, faults>>

\* do_delete releases the space of the file, if there is one, ...
ReleaseOld(s) ==
  /\ op[s].at = "delete"
  /\ IF has(s, op[s].id)
       THEN Decrease(s, disk[s][op[s].id].len) /\ Goto(s, "remove")
       ELSE UNCHANGED spaces /\ Goto(s, "increase")
  /\ UNCHANGED <<disk, stored, faults>>

\* ... and removes it.
RemoveFile(s) ==
  /\ op[s].at = "remove"
  /\ disk' = [disk EXCEPT ![s][op[s].id] = Absent]
  /\ IF IsPut(s)
       THEN Goto(s, "increase") /\ UNCHANGED stored
       ELSE Return(s) /\ stored' = [stored EXCEPT ![s] = @ \ {op[s].id}]
  /\ UNCHANGED <<spaces, faults>>

\* put reserves the space, or returns NotEnoughSpace, ...
Reserve(s) ==
  /\ op[s].at = "increase"
  /\ IF CanIncrease(s, op[s].size)
       THEN Increase(s, op[s].size) /\ Goto(s, "write")
       ELSE UNCHANGED spaces /\ Return(s)
  /\ UNCHANGED <<disk, stored, faults>>

\* ... and writes the file.
WriteFile(s) ==
  /\ op[s].at = "write"
  /\ disk' = [disk EXCEPT ![s][op[s].id] =
                [state |-> "whole", len |-> op[s].size]]
  /\ stored' = [stored EXCEPT ![s] = @ \cup {op[s].id}]
  /\ Return(s)
  /\ UNCHANGED <<spaces, faults>>

\* After a failed write put gives the space back.
GiveBack(s) ==
  /\ op[s].at = "decrease"
  /\ Decrease(s, op[s].size)
  /\ Return(s)
  /\ UNCHANGED <<disk, stored, faults>>

-----------------------------------------------------------------------------
(* Faults *)

Fault == faults < MaxFaults /\ faults' = faults + 1

\* What a write that does not complete leaves: no file, or the first part.
Unfinished(s) ==
  {Absent} \cup [state : {"partial"}, len : 0..(op[s].size - 1)]

WriteFails(s) ==
  /\ Fault
  /\ op[s].at = "write"
  /\ \E file \in Unfinished(s) : disk' = [disk EXCEPT ![s][op[s].id] = file]
  /\ Goto(s, "decrease")
  /\ UNCHANGED <<spaces, stored>>

RemoveFails(s) ==
  /\ Fault
  /\ op[s].at = "remove"
  /\ Return(s)
  /\ UNCHANGED <<disk, spaces, stored>>

WritesRecord(s) ==
  \/ op[s].at = "delete" /\ has(s, op[s].id)
  \/ op[s].at = "increase" /\ CanIncrease(s, op[s].size)
  \/ op[s].at = "decrease"

NewLocal(s) ==
  IF op[s].at = "increase" THEN local[s] + op[s].size
  ELSE saturating_sub(local[s], IF op[s].at = "delete" THEN disk[s][op[s].id].len
                                                       ELSE op[s].size)

\* What write_local_to_file leaves when it does not complete: the value of old,
\* nothing, or the new value that is not synced.  With the first part of a
\* value the store cannot be opened again, and the node does not start.
Unwritten(s) == {[record EXCEPT ![s] = value] : value \in {record[s], 0, NewLocal(s)}}

RecordFails(s) ==
  /\ Fault
  /\ WritesRecord(s)
  /\ record' \in Unwritten(s)
  /\ Return(s)
  /\ UNCHANGED <<disk, local, total, stored>>

\* ChunkStore::new: local_value is read back, total_value starts at zero.
Open(records) ==
  /\ record' = records
  /\ local' = records
  /\ total' = [s \in Store |-> 0]
  /\ op' = [s \in Store |-> Idle]

\* The node stops between two steps, or changes its role, and opens its
\* stores again.
Reopen ==
  /\ Fault
  /\ Open(record)
  /\ UNCHANGED <<disk, stored>>

\* It stops in the middle of writing a file.
CrashInWrite(s) ==
  /\ Fault
  /\ op[s].at = "write"
  /\ \E file \in Unfinished(s) : disk' = [disk EXCEPT ![s][op[s].id] = file]
  /\ Open(record)
  /\ UNCHANGED stored

CrashInRecord(s) ==
  /\ Fault
  /\ WritesRecord(s)
  /\ \E records \in Unwritten(s) : Open(records)
  /\ UNCHANGED <<disk, stored>>

-----------------------------------------------------------------------------
Call(s) ==
  \E id \in Id :
    \/ Delete(s, id)
    \/ \E size \in Size :
         \/ try_store(s, id, size) \/ store_for_replication(s, id, size)
         \/ Create(s, id, size) \/ Edit(s, id, size) \/ Update(s, id, size)

Step(s) ==
  ReleaseOld(s) \/ RemoveFile(s) \/ Reserve(s) \/ WriteFile(s) \/ GiveBack(s)

Fail(s) ==
  WriteFails(s) \/ RemoveFails(s) \/ RecordFails(s) \/ CrashInWrite(s) \/ CrashInRecord(s)

Next == Reopen \/ \E s \in Store : Call(s) \/ Step(s) \/ Fail(s)

Spec == Init /\ [][Next]_vars

-----------------------------------------------------------------------------
Used(s) == MapThenSumSet(LAMBDA id : disk[s][id].len, Id)

\* What the store has taken on beyond (or less than) the files: the space of
\* a file released before it is removed, or reserved before it is written.
Pending(s) ==
  CASE op[s].at = "remove" -> [more |-> 0, less |-> disk[s][op[s].id].len]
    [] op[s].at = "write"  -> [more |-> op[s].size, less |-> 0]
    [] OTHER -> [more |-> 0, less |-> 0]

\* As long as no file operation fails and the store is not opened again, the
\* count is the size of the files, but for the operation under way; so the
\* saturating subtraction of decrease never saturates.
CountIsExact ==
  faults = 0 =>
    \A s \in Store :
      /\ total[s] + Pending(s).less = Used(s) + Pending(s).more
      /\ local[s] = total[s] /\ record[s] = local[s]

\* Faults or not, the total never exceeds the capacity, nor what the store
\* accounts to itself: a store whose count was read back from disk counts
\* less against its capacity than it holds, never more.
TotalIsBounded ==
  \A s \in Store : total[s] <= MaxCapacity /\ total[s] <= local[s]

\* What an adult has stored stays readable until it is deleted, whatever
\* fails and wherever the node stops: try_store and store_for_replication
\* never touch the file of a chunk that is there.
StoredIsReadable ==
  \A s \in Immutable : \A id \in stored[s] : CanGet(s, id)

\* "Total space consumed across all `ChunkStore`s, including this one"
\* (total_value): a store between two operations has counted its files.
\* The code does not keep this when a store is opened again.
TotalIsConsumed ==
  \A s \in Store : op[s] = Idle => total[s] = Used(s)

\* "If a chunk with the same id already exists, it will be overwritten."
\* (put): a chunk that is there is there after a put, old or new.
\* The code does not keep this when the new one does not fit.
OverwriteKeepsAChunk ==
  faults = 0 =>
    \A s \in Store : \A id \in stored[s] : op[s] = Idle => CanGet(s, id)
=============================================================================
