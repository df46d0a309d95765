-------------------------- MODULE ChunkStoreProofs --------------------------
(***************************************************************************)
(* What a chunk store keeps up through failing file operations, crashes    *)
(* and reopening, for any stores, chunks, sizes, capacity and faults.      *)
(***************************************************************************)
EXTENDS ChunkStore, TLAPS

Writing == [at : {"delete", "remove", "increase", "write", "decrease"},
            id : Id, size : Size]

Removing == [at : {"delete", "remove"}, id : Id]

\* A put into an immutable store is about a chunk that is not stored there,
\* because try_store and store_for_replication ask first; and a deletion is
\* about a file that is there.
OpsAreSound ==
  \A s \in Store :
    /\ s \in Immutable /\ op[s] \in Writing => op[s].id \notin stored[s]
    /\ op[s] \in Removing => has(s, op[s].id)

Inv == TypeOK /\ TotalIsBounded /\ StoredIsReadable /\ OpsAreSound

\* The kinds of an operation: a put (the record has a size) or a deletion.
LEMMA Kinds ==
  /\ Operation = Removing \cup Writing
  /\ Idle \notin Operation /\ Idle.at = "idle"
  /\ \A r \in Writing : /\ "size" \in DOMAIN r /\ r.id \in Id /\ r.size \in Size
                        /\ r \notin Removing
                        /\ r.at \in {"delete", "remove", "increase", "write", "decrease"}
  /\ \A r \in Removing : /\ "size" \notin DOMAIN r /\ r.id \in Id
                         /\ r.at \in {"delete", "remove"}
BY DEF Operation, Removing, Writing, Idle

\* Goto leaves an operation what it is, about the same chunk.
LEMMA Moves ==
  ASSUME NEW at \in {"delete", "remove", "increase", "write", "decrease"}
  PROVE  /\ \A r \in Writing : /\ [r EXCEPT !.at = at] \in Writing
                               /\ [r EXCEPT !.at = at].id = r.id
         /\ at = "remove" =>
              \A r \in Removing : /\ [r EXCEPT !.at = at] \in Removing
                                  /\ [r EXCEPT !.at = at].id = r.id
BY DEF Removing, Writing

\* A file that is not there, or in part, is no chunk that can be read.
LEMMA Files ==
  /\ Absent \in File /\ Absent.state = "absent"
  /\ \A f \in File : f.len \in Nat
  /\ \A n \in Size : [state |-> "whole", len |-> n] \in File
  /\ \A n \in Size : \A m \in 0..(n - 1) : [state |-> "partial", len |-> m] \in File
BY StoreAssumption DEF File, Absent

\* increase and decrease keep the counts natural numbers, and the total within
\* the capacity and within the store's own count.
LEMMA Counts ==
  ASSUME TypeOK, TotalIsBounded, NEW s \in Store, NEW n \in Nat
  PROVE  /\ CanIncrease(s, n) /\ Increase(s, n) =>
              {record', local', total'} \subseteq [Store -> Nat] /\ TotalIsBounded'
         /\ Decrease(s, n) =>
              {record', local', total'} \subseteq [Store -> Nat] /\ TotalIsBounded'
<1>1. record \in [Store -> Nat] /\ local \in [Store -> Nat] /\ total \in [Store -> Nat]
  BY DEF TypeOK
<1>2. total[s] \in Nat /\ local[s] \in Nat /\ MaxCapacity \in Nat
  BY <1>1, StoreAssumption
<1>3. ASSUME NEW t \in Nat, NEW l \in Nat, t <= MaxCapacity, t <= l, SetSpace(s, t, l)
      PROVE  {record', local', total'} \subseteq [Store -> Nat] /\ TotalIsBounded'
  BY <1>1, <1>3 DEF SetSpace, TotalIsBounded
<1>4. saturating_sub(total[s], n) \in Nat /\ saturating_sub(local[s], n) \in Nat
  BY <1>2 DEF saturating_sub
<1>5. /\ saturating_sub(total[s], n) <= MaxCapacity
      /\ saturating_sub(total[s], n) <= saturating_sub(local[s], n)
  BY <1>2 DEF saturating_sub, TotalIsBounded
<1>6. CASE CanIncrease(s, n) /\ Increase(s, n)
  <2>1. /\ total[s] + n \in Nat /\ local[s] + n \in Nat
        /\ total[s] + n <= MaxCapacity /\ total[s] + n <= local[s] + n
    BY <1>2, <1>6 DEF CanIncrease, TotalIsBounded
  <2> QED BY <2>1, <1>3, <1>6 DEF Increase
<1>7. CASE Decrease(s, n)
  BY <1>3, <1>4, <1>5, <1>7 DEF Decrease
<1> QED BY <1>6, <1>7

\* What Goto does to the operations of the stores.
LEMMA Going ==
  ASSUME TypeOK, NEW s \in Store, op[s] \in Operation,
         NEW at \in {"delete", "remove", "increase", "write", "decrease"},
         op[s] \in Writing \/ at = "remove", Goto(s, at)
  PROVE  /\ op' \in [Store -> Operation \cup {Idle}]
         /\ op'[s].id = op[s].id
         /\ op[s] \in Writing => op'[s] \in Writing
         /\ op[s] \in Removing => op'[s] \in Removing
         /\ \A r \in Store \ {s} : op'[r] = op[r]
<1>1. op \in [Store -> Operation \cup {Idle}]
  BY DEF TypeOK
<1>2. /\ op[s] \in Writing => [op[s] EXCEPT !.at = at] \in Writing
      /\ op[s] \in Removing => [op[s] EXCEPT !.at = at] \in Removing
      /\ [op[s] EXCEPT !.at = at].id = op[s].id
  BY Moves, Kinds
<1>3. op' = [op EXCEPT ![s] = [op[s] EXCEPT !.at = at]]
  BY DEF Goto
<1>4. [op[s] EXCEPT !.at = at] \in Operation
  BY <1>2, Kinds
<1>5. op' \in [Store -> Operation \cup {Idle}]
  BY <1>1, <1>3, <1>4
<1>6. op'[s] = [op[s] EXCEPT !.at = at] /\ \A r \in Store \ {s} : op'[r] = op[r]
  BY <1>1, <1>3
<1> QED BY <1>2, <1>5, <1>6

\* A store in the middle of an operation, by the step it is at.
LEMMA Busy ==
  ASSUME TypeOK, NEW s \in Store, op[s].at # "idle"
  PROVE  /\ op[s] \in Operation /\ op[s].id \in Id
         /\ op[s].at \in {"increase", "write", "decrease"} => op[s] \in Writing
         /\ op[s] \in Writing => op[s].size \in Size /\ op[s].size \in Nat
         /\ IsPut(s) <=> op[s] \in Writing
         /\ op[s] \in Writing \/ op[s] \in Removing
<1>1. op[s] \in Operation \cup {Idle}
  BY DEF TypeOK
<1>2. op[s] \in Operation
  BY <1>1, Kinds
<1> QED BY <1>2, Kinds, StoreAssumption DEF IsPut

\* Faults are counted up to the bound.
LEMMA FaultsBounded ==
  ASSUME TypeOK, Fault
  PROVE  faults' \in 0..MaxFaults
BY StoreAssumption DEF TypeOK, Fault

\* Beginning an operation changes nothing but the operation.
LEMMA Begins ==
  ASSUME Inv, NEW s \in Store, Call(s)
  PROVE  Inv'
<1>1. PICK id \in Id, o \in Operation :
        /\ Begin(s, o)
        /\ o.id = id
        /\ o \in Writing /\ s \in Immutable => ~has(s, id)
        /\ o \in Removing => CanGet(s, id)
  <2>1. CASE \E id \in Id : Delete(s, id)
    <3>1. PICK id \in Id : Delete(s, id)
      BY <2>1
    <3>2. [at |-> "delete", id |-> id] \in Removing
      BY DEF Removing
    <3> QED BY <3>1, <3>2, Kinds DEF Delete
  <2>2. CASE \E id \in Id : \E size \in Size :
               Put(s, id, size) /\ (s \in Immutable => ~has(s, id))
    <3>1. PICK id \in Id, size \in Size :
            Put(s, id, size) /\ (s \in Immutable => ~has(s, id))
      BY <2>2
    <3>2. [at |-> "delete", id |-> id, size |-> size] \in Writing
      BY DEF Writing
    <3> QED BY <3>1, <3>2, Kinds DEF Put
  <2> QED
    BY <2>1, <2>2 DEF Call, try_store, store_for_replication, Create, Edit, Update
<1>2. /\ op' = [op EXCEPT ![s] = o]
      /\ UNCHANGED <<disk, record, local, total, stored, faults>>
  BY <1>1 DEF Begin, spaces
<1>3. TypeOK'
  BY <1>2 DEF Inv, TypeOK
<1>4. TotalIsBounded' /\ StoredIsReadable'
  BY <1>2 DEF Inv, TotalIsBounded, StoredIsReadable, CanGet
<1>5. op'[s] = o /\ \A r \in Store \ {s} : op'[r] = op[r]
  BY <1>2 DEF Inv, TypeOK
<1>6. s \in Immutable /\ o \in Writing => o.id \notin stored[s]
  BY <1>1, Files DEF Inv, StoredIsReadable, has, CanGet
<1>7. o \in Removing => has(s, o.id)
  BY <1>1, Files DEF has, CanGet
<1>8. OpsAreSound'
  BY <1>2, <1>5, <1>6, <1>7 DEF Inv, OpsAreSound, has
<1> QED BY <1>3, <1>4, <1>8 DEF Inv

\* The invariant survives a step that changes counts within their bounds and
\* moves the operation of one store on, or ends it, and leaves the files.
LEMMA OpMoves ==
  ASSUME Inv, NEW s \in Store, op[s].at # "idle",
         UNCHANGED <<disk, stored>>, faults' \in 0..MaxFaults,
         {record', local', total'} \subseteq [Store -> Nat], TotalIsBounded',
         \/ Return(s)
         \/ \E at \in {"delete", "remove", "increase", "write", "decrease"} :
              Goto(s, at) /\ (op[s] \in Writing \/ at = "remove")
  PROVE  Inv'
<1>1. /\ op' \in [Store -> Operation \cup {Idle}]
      /\ \A r \in Store \ {s} : op'[r] = op[r]
      /\ \/ op'[s] = Idle
         \/ /\ op'[s].id = op[s].id
            /\ \/ op[s] \in Writing /\ op'[s] \in Writing
               \/ op[s] \in Removing /\ op'[s] \in Removing
  <2>1. CASE Return(s)
    BY <2>1 DEF Return, Inv, TypeOK
  <2>2. CASE \E at \in {"delete", "remove", "increase", "write", "decrease"} :
               Goto(s, at) /\ (op[s] \in Writing \/ at = "remove")
    BY <2>2, Going, Busy DEF Inv
  <2> QED BY <2>1, <2>2
<1>2. TypeOK'
  BY <1>1 DEF Inv, TypeOK
<1>3. StoredIsReadable'
  BY DEF Inv, StoredIsReadable, CanGet
<1>4. OpsAreSound'
  BY <1>1, Kinds DEF Inv, OpsAreSound, has
<1> QED BY <1>2, <1>3, <1>4 DEF Inv

\* The steps of put and delete, when nothing fails.
LEMMA StepsKeep ==
  ASSUME Inv, NEW s \in Store, Step(s)
  PROVE  Inv'
<1>1. /\ {record, local, total} \subseteq [Store -> Nat]
      /\ disk \in [Store -> [Id -> File]] /\ stored \in [Store -> SUBSET Id]
      /\ op \in [Store -> Operation \cup {Idle}] /\ faults \in 0..MaxFaults
  BY DEF Inv, TypeOK
<1>2. CASE ReleaseOld(s)
  <2>1. op[s].at = "delete" /\ op[s].id \in Id /\ (op[s] \in Writing \/ has(s, op[s].id))
    BY <1>2, Busy DEF ReleaseOld, Inv, OpsAreSound
  <2>2. CASE has(s, op[s].id)
    <3>1. disk[s][op[s].id].len \in Nat
      BY <1>1, <2>1, Files
    <3>2. {record', local', total'} \subseteq [Store -> Nat] /\ TotalIsBounded'
      BY <1>2, <2>2, <3>1, Counts DEF ReleaseOld, Inv
    <3> QED BY <1>1, <1>2, <2>1, <2>2, <3>2, OpMoves DEF ReleaseOld
  <2>3. CASE ~has(s, op[s].id)
    <3>1. {record', local', total'} \subseteq [Store -> Nat] /\ TotalIsBounded'
      BY <1>1, <1>2, <2>3 DEF ReleaseOld, spaces, Inv, TotalIsBounded
    <3> QED BY <1>1, <1>2, <2>1, <2>3, <3>1, OpMoves DEF ReleaseOld
  <2> QED BY <2>2, <2>3
<1>3. CASE Reserve(s)
  <2>1. op[s].at = "increase" /\ op[s] \in Writing /\ op[s].size \in Nat
    BY <1>3, Busy DEF Reserve, Inv
  <2>2. {record', local', total'} \subseteq [Store -> Nat] /\ TotalIsBounded'
    <3>1. CASE CanIncrease(s, op[s].size)
      BY <1>3, <2>1, <3>1, Counts DEF Reserve, Inv
    <3>2. CASE ~CanIncrease(s, op[s].size)
      BY <1>1, <1>3, <3>2 DEF Reserve, spaces, Inv, TotalIsBounded
    <3> QED BY <3>1, <3>2
  <2> QED BY <1>1, <1>3, <2>1, <2>2, OpMoves DEF Reserve
<1>4. CASE GiveBack(s)
  <2>1. op[s].at = "decrease" /\ op[s].size \in Nat
    BY <1>4, Busy DEF GiveBack, Inv
  <2>2. {record', local', total'} \subseteq [Store -> Nat] /\ TotalIsBounded'
    BY <1>4, <2>1, Counts DEF GiveBack, Inv
  <2> QED BY <1>1, <1>4, <2>1, <2>2, OpMoves DEF GiveBack
<1>5. CASE RemoveFile(s)
  <2> DEFINE id == op[s].id
  <2>1. op[s].at = "remove" /\ id \in Id /\ (IsPut(s) <=> op[s] \in Writing)
    BY <1>5, Busy DEF RemoveFile, Inv
  <2>2. UNCHANGED <<record, local, total, faults>>
    BY <1>5 DEF RemoveFile, spaces
  <2>3. /\ disk' \in [Store -> [Id -> File]]
        /\ \A r \in Store, i \in Id : r # s \/ i # id => disk'[r][i] = disk[r][i]
    BY <1>1, <1>5, <2>1, Files DEF RemoveFile
  <2>4. /\ op' \in [Store -> Operation \cup {Idle}]
        /\ \A r \in Store \ {s} : op'[r] = op[r]
        /\ op'[s] = Idle \/ (op'[s] \in Writing /\ op[s] \in Writing /\ op'[s].id = id)
    <3>1. CASE IsPut(s)
      BY <1>5, <2>1, <3>1, Going, Busy DEF RemoveFile, Inv
    <3>2. CASE ~IsPut(s)
      BY <1>1, <1>5, <3>2 DEF RemoveFile, Return
    <3> QED BY <3>1, <3>2
  <2>5. /\ stored' \in [Store -> SUBSET Id]
        /\ \A r \in Store \ {s} : stored'[r] = stored[r]
        /\ stored'[s] \subseteq stored[s]
        /\ s \in Immutable => id \notin stored'[s]
    <3>1. CASE IsPut(s)
      BY <1>1, <1>5, <2>1, <3>1 DEF RemoveFile, Inv, OpsAreSound
    <3>2. CASE ~IsPut(s)
      BY <1>1, <1>5, <3>2 DEF RemoveFile
    <3> QED BY <3>1, <3>2
  <2>6. TypeOK'
    BY <1>1, <2>2, <2>3, <2>4, <2>5 DEF TypeOK
  <2>7. TotalIsBounded'
    BY <2>2 DEF Inv, TotalIsBounded
  <2>8. StoredIsReadable'
    BY <1>1, <2>3, <2>5, StoreAssumption DEF Inv, StoredIsReadable, CanGet
  <2>9. OpsAreSound'
    <3> SUFFICES ASSUME NEW r \in Store
                 PROVE  /\ r \in Immutable /\ op'[r] \in Writing => op'[r].id \notin stored'[r]
                        /\ op'[r] \in Removing => disk'[r][op'[r].id] # Absent
      BY DEF OpsAreSound, has
    <3>1. CASE r = s
      BY <2>4, <2>5, <3>1, Kinds
    <3>2. CASE r # s
      <4>1. op[r] \in Removing => op[r].id \in Id
        BY Kinds
      <4> QED BY <2>3, <2>4, <2>5, <3>2, <4>1 DEF Inv, OpsAreSound, has
    <3> QED BY <3>1, <3>2
  <2> QED BY <2>6, <2>7, <2>8, <2>9 DEF Inv
<1>6. CASE WriteFile(s)
  <2> DEFINE id == op[s].id
  <2>1. op[s].at = "write" /\ id \in Id /\ op[s].size \in Size
    BY <1>6, Busy DEF WriteFile, Inv
  <2>2. UNCHANGED <<record, local, total, faults>>
    BY <1>6 DEF WriteFile, spaces
  <2>3. /\ disk' \in [Store -> [Id -> File]]
        /\ disk'[s][id].state = "whole"
        /\ \A r \in Store, i \in Id : r # s \/ i # id => disk'[r][i] = disk[r][i]
    BY <1>1, <1>6, <2>1, Files DEF WriteFile
  <2>4. /\ op' \in [Store -> Operation \cup {Idle}]
        /\ op'[s] = Idle /\ \A r \in Store \ {s} : op'[r] = op[r]
    BY <1>1, <1>6 DEF WriteFile, Return
  <2>5. /\ stored' \in [Store -> SUBSET Id]
        /\ \A r \in Store \ {s} : stored'[r] = stored[r]
        /\ stored'[s] = stored[s] \cup {id}
    BY <1>1, <1>6, <2>1 DEF WriteFile
  <2>6. TypeOK'
    BY <1>1, <2>2, <2>3, <2>4, <2>5 DEF TypeOK
  <2>7. TotalIsBounded'
    BY <2>2 DEF Inv, TotalIsBounded
  <2>8. StoredIsReadable'
    BY <1>1, <2>3, <2>5, StoreAssumption DEF Inv, StoredIsReadable, CanGet
  <2>9. OpsAreSound'
    <3> SUFFICES ASSUME NEW r \in Store
                 PROVE  /\ r \in Immutable /\ op'[r] \in Writing => op'[r].id \notin stored'[r]
                        /\ op'[r] \in Removing => disk'[r][op'[r].id] # Absent
      BY DEF OpsAreSound, has
    <3>1. CASE r = s
      BY <2>4, <2>5, <3>1, Kinds
    <3>2. CASE r # s
      <4>1. op[r] \in Removing => op[r].id \in Id
        BY Kinds
      <4> QED BY <2>3, <2>4, <2>5, <3>2, <4>1 DEF Inv, OpsAreSound, has
    <3> QED BY <3>1, <3>2
  <2> QED BY <2>6, <2>7, <2>8, <2>9 DEF Inv
<1> QED BY <1>2, <1>3, <1>4, <1>5, <1>6 DEF Step

\* An unfinished write leaves the other files, and no stored immutable chunk
\* was in its place.
LEMMA Unfinishing ==
  ASSUME Inv, NEW s \in Store, op[s].at = "write", UNCHANGED stored,
         NEW file \in Unfinished(s),
         disk' = [disk EXCEPT ![s][op[s].id] = file]
  PROVE  /\ disk' \in [Store -> [Id -> File]]
         /\ \A r \in Store \ {s} : disk'[r] = disk[r]
         /\ StoredIsReadable'
<1>1. op[s].id \in Id /\ op[s] \in Writing /\ op[s].size \in Size
  BY Busy DEF Inv
<1>2. file \in File
  <2>1. file = Absent
        \/ \E m \in 0..(op[s].size - 1) : file = [state |-> "partial", len |-> m]
    BY DEF Unfinished
  <2> QED BY <1>1, <2>1, Files
<1>3. disk \in [Store -> [Id -> File]] /\ stored \in [Store -> SUBSET Id]
  BY DEF Inv, TypeOK
<1>4. /\ disk' \in [Store -> [Id -> File]]
      /\ \A r \in Store \ {s} : disk'[r] = disk[r]
      /\ \A i \in Id \ {op[s].id} : disk'[s][i] = disk[s][i]
  BY <1>1, <1>2, <1>3
<1>5. s \in Immutable => op[s].id \notin stored[s]
  BY <1>1 DEF Inv, OpsAreSound
<1>6. StoredIsReadable'
  BY <1>3, <1>4, <1>5, StoreAssumption DEF Inv, StoredIsReadable, CanGet
<1> QED BY <1>4, <1>6

\* A store that is opened again is idle, and its total starts at zero.
LEMMA Opening ==
  ASSUME Inv, NEW records \in [Store -> Nat], Open(records), Fault,
         disk' \in [Store -> [Id -> File]], UNCHANGED stored, StoredIsReadable'
  PROVE  Inv'
<1>1. op' \in [Store -> Operation \cup {Idle}] /\ \A r \in Store : op'[r] = Idle
  BY DEF Open
<1>2. TypeOK'
  BY <1>1, FaultsBounded DEF Inv, TypeOK, Open
<1>3. TotalIsBounded'
  BY StoreAssumption DEF Open, TotalIsBounded
<1>4. OpsAreSound'
  BY <1>1, Kinds DEF OpsAreSound
<1> QED BY <1>2, <1>3, <1>4 DEF Inv

\* Failing file operations and crashes.
LEMMA FaultsKeep ==
  ASSUME Inv, NEW s \in Store, Fail(s)
  PROVE  Inv'
<1>1. /\ record \in [Store -> Nat] /\ local \in [Store -> Nat] /\ total \in [Store -> Nat]
      /\ disk \in [Store -> [Id -> File]]
  BY DEF Inv, TypeOK
<1>2. UNCHANGED <<disk, stored>> => StoredIsReadable'
  BY DEF Inv, StoredIsReadable, CanGet
<1>3. Fault => faults' \in 0..MaxFaults
  BY FaultsBounded DEF Inv
<1>4. UNCHANGED <<local, total>> => TotalIsBounded'
  BY DEF Inv, TotalIsBounded
<1>5. WritesRecord(s) => op[s].at # "idle"
  BY DEF WritesRecord
<1>a. ASSUME WritesRecord(s) PROVE Unwritten(s) \subseteq [Store -> Nat]
  <2>1. /\ op[s].id \in Id
        /\ op[s].at \in {"increase", "decrease"} => op[s].size \in Nat
    BY <1>5, <1>a, Busy DEF Inv
  <2>2. disk[s][op[s].id].len \in Nat /\ local[s] \in Nat /\ record[s] \in Nat
    BY <1>1, <2>1, Files
  <2>3. NewLocal(s) \in Nat
    BY <1>a, <2>1, <2>2 DEF NewLocal, saturating_sub, WritesRecord
  <2>4. \A value \in Nat : [record EXCEPT ![s] = value] \in [Store -> Nat]
    BY <1>1
  <2> HIDE DEF NewLocal
  <2> QED BY <2>2, <2>3, <2>4 DEF Unwritten
<1>6. CASE WriteFails(s)
  <2>1. PICK file \in Unfinished(s) : disk' = [disk EXCEPT ![s][op[s].id] = file]
    BY <1>6 DEF WriteFails
  <2>2. /\ Fault /\ op[s].at = "write" /\ Goto(s, "decrease")
        /\ UNCHANGED <<record, local, total, stored>>
    BY <1>6 DEF WriteFails, spaces
  <2>3. op[s] \in Operation /\ op[s] \in Writing
    BY <2>2, Busy DEF Inv
  <2>4. /\ op' \in [Store -> Operation \cup {Idle}]
        /\ op'[s].id = op[s].id /\ op'[s] \in Writing
        /\ \A r \in Store \ {s} : op'[r] = op[r]
    BY <2>2, <2>3, Going DEF Inv
  <2>5. /\ disk' \in [Store -> [Id -> File]] /\ StoredIsReadable'
        /\ \A r \in Store \ {s} : disk'[r] = disk[r]
    BY <2>1, <2>2, Unfinishing
  <2>6. TypeOK'
    BY <1>1, <1>3, <2>2, <2>4, <2>5 DEF Inv, TypeOK
  <2>7. OpsAreSound'
    BY <2>2, <2>3, <2>4, <2>5, Kinds DEF Inv, OpsAreSound, has
  <2> QED BY <1>4, <2>2, <2>5, <2>6, <2>7 DEF Inv
<1>7. CASE RemoveFails(s)
  <2>1. /\ op[s].at = "remove" /\ Return(s) /\ Fault
        /\ UNCHANGED <<disk, stored, record, local, total>>
    BY <1>7 DEF RemoveFails, spaces
  <2> QED BY <1>1, <1>3, <1>4, <2>1, OpMoves
<1>8. CASE RecordFails(s)
  <2>1. /\ Return(s) /\ Fault /\ op[s].at # "idle"
        /\ record' \in [Store -> Nat]
        /\ UNCHANGED <<disk, stored, local, total>>
    BY <1>5, <1>8, <1>a DEF RecordFails
  <2> QED BY <1>1, <1>3, <1>4, <2>1, OpMoves
<1>9. CASE CrashInWrite(s)
  <2>1. PICK file \in Unfinished(s) : disk' = [disk EXCEPT ![s][op[s].id] = file]
    BY <1>9 DEF CrashInWrite
  <2>2. disk' \in [Store -> [Id -> File]] /\ StoredIsReadable'
    BY <1>9, <2>1, Unfinishing DEF CrashInWrite
  <2> QED BY <1>1, <1>9, <2>2, Opening DEF CrashInWrite
<1>10. CASE CrashInRecord(s)
  <2>1. PICK records \in [Store -> Nat] : Open(records)
    BY <1>10, <1>a DEF CrashInRecord
  <2> QED BY <1>1, <1>2, <1>10, <2>1, Opening DEF CrashInRecord
<1> QED BY <1>6, <1>7, <1>8, <1>9, <1>10 DEF Fail

-----------------------------------------------------------------------------
\* Inv holds in every state of a node's chunk stores (chunk_store/mod.rs,
\* chunk_store/used_space.rs), whatever fails and wherever the node stops.
THEOREM Invariance == Spec => []Inv
<1>1. Init => Inv
  <2> SUFFICES ASSUME Init
               PROVE  Inv
    OBVIOUS
  <2>1. TypeOK
    BY Files, StoreAssumption DEF Init, TypeOK
  <2>2. TotalIsBounded /\ StoredIsReadable
    BY StoreAssumption DEF Init, TotalIsBounded, StoredIsReadable
  <2>3. OpsAreSound
    BY Kinds DEF Init, OpsAreSound
  <2> QED BY <2>1, <2>2, <2>3 DEF Inv
<1>2. Inv /\ [Next]_vars => Inv'
  <2> SUFFICES ASSUME Inv, [Next]_vars
               PROVE  Inv'
    OBVIOUS
  <2>1. CASE UNCHANGED vars
    BY <2>1 DEF vars, Inv, TypeOK, TotalIsBounded, StoredIsReadable, OpsAreSound, has, CanGet
  <2>2. CASE Reopen
    <3>1. record \in [Store -> Nat] /\ disk' \in [Store -> [Id -> File]] /\ StoredIsReadable'
      BY <2>2 DEF Reopen, Inv, TypeOK, StoredIsReadable, CanGet
    <3> QED BY <2>2, <3>1, Opening DEF Reopen
  <2>3. CASE \E s \in Store : Call(s) \/ Step(s) \/ Fail(s)
    BY <2>3, Begins, StepsKeep, FaultsKeep
  <2> QED BY <2>1, <2>2, <2>3 DEF Next
<1> QED BY <1>1, <1>2, PTL DEF Spec

\* The files, the counts and the operations under way keep their types:
\* saturating_sub keeps the counts of decrease natural.
THEOREM TypeCorrect == Spec => []TypeOK
BY Invariance, PTL DEF Inv

\* However the counts were lost or read back, increase keeps the total within
\* the capacity, and it never exceeds the store's own count.
THEOREM BoundedTotal == Spec => []TotalIsBounded
BY Invariance, PTL DEF Inv

\* What try_store or store_for_replication has stored can be read until it is
\* deleted, whatever file operation fails and wherever the node stops.
THEOREM Durability == Spec => []StoredIsReadable
BY Invariance, PTL DEF Inv
=============================================================================
