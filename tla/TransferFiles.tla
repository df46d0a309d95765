---------------------------- MODULE TransferFiles ----------------------------
(***************************************************************************)
(* The db file of one wallet at one elder (transfers/store.rs), and the    *)
(* tasks that open and write it (Replicas::validate, receive_propagated    *)
(* and get_load_or_create_store in transfers/replicas.rs).                 *)
(*                                                                         *)
(* Tasks share the lock on the transfers and run at the same time.  A task *)
(* that validates holds the entry of the map of stores (a read lock on its *)
(* shard) from the first look at it until it ends, also while it waits for *)
(* the store's lock and for the signature.  A task that propagates opens   *)
(* the db once more before it finds it in the map, and blocks its worker   *)
(* thread until the shard is free.  When the file cannot be loaded, an     *)
(* empty db is written over it.  A PickleDb writes the file whenever it    *)
(* changes and also when it is dropped.                                    *)
(***************************************************************************)
EXTENDS Naturals, FiniteSets

CONSTANTS
  Validation,   \* tasks that validate a debit of the wallet
  Propagation,  \* tasks that credit the wallet
  Worker,       \* the number of worker threads
  MaxRole,      \* how often the node becomes an elder
  MaxCrash

Task == Validation \cup Propagation

Roles == 1..MaxRole

ASSUME FilesAssumption ==
  /\ Validation \cap Propagation = {}
  /\ IsFiniteSet(Task)
  /\ Worker \in Nat \ {0}
  /\ MaxRole \in Nat /\ MaxCrash \in Nat

VARIABLES
  file,      \* the events in the file, one for each task that inserted one
  role,      \* the elder role of the node, 0 if it is an adult
  last,      \* the last role there was
  open,      \* the roles that have the wallet's db in their map
  db,        \* db[r]: the events of that db
  pc,        \* pc[t]: where t is
  of,        \* of[t]: the role that t belongs to
  spare,     \* spare[t]: what the db held that t opened
  stored,    \* the events that were stored
  risked,    \* those that were stored while another db had the file open, or
             \* before a load of the file failed
  ours,      \* "no" once the wallet belongs to the sibling section
  crashes

vars == <<file, role, last, open, db, pc, of, spare, stored, risked, ours, crashes>>

handles == <<file, open, db, stored, risked>>

levels == <<role, last, ours, crashes>>

TypeOK ==
  /\ {file, stored, risked} \subseteq SUBSET Task
  /\ role \in 0..MaxRole /\ last \in role..MaxRole
  /\ open \subseteq Roles
  /\ db \in [Roles -> SUBSET Task]
  /\ pc \in [Task -> {"new", "guard", "sign", "block", "load", "got", "done"}]
  /\ of \in [Task -> 0..MaxRole]
  /\ spare \in [Task -> SUBSET Task]
  /\ ours \in {"yes", "no"}
  /\ crashes \in 0..MaxCrash

Init ==
  /\ file = {} /\ stored = {} /\ risked = {} /\ ours = "yes"
  /\ role = 0 /\ last = 0 /\ crashes = 0
  /\ open = {} /\ db = [r \in Roles |-> {}]
  /\ pc = [t \in Task |-> "new"]
  /\ of = [t \in Task |-> 0]
  /\ spare = [t \in Task |-> {}]

-----------------------------------------------------------------------------
(* Locks and workers *)

Active(r) == {t \in Task : of[t] = r /\ pc[t] \notin {"new", "done"}}

\* Tasks on a worker: one that waits for the shard does not let go of it.
Busy == {t \in Task : pc[t] \in {"block", "load"}}

\* A task that is to begin or to go on after an await needs a worker.
Runs(t) == Cardinality(Busy) < Worker

ShardRead(r) == {t \in Active(r) : pc[t] \in {"guard", "sign"}}

ShardWrite(r) == {t \in Active(r) : pc[t] = "load"}

StoreLocked(r) == \E t \in Active(r) : pc[t] = "sign"

Go(t, to) == pc' = [pc EXCEPT ![t] = to]

\* A role that is no longer the node's and has no task left is dropped, and
\* its db with it, which writes the file.
DropRole(r, active, found) ==
  IF r \in open /\ role' # r /\ active = {}
  THEN open' = open \ {r} /\ file' = db[r]
  ELSE open' = open /\ file' = found

Finish(t) ==
  /\ Go(t, "done")
  /\ UNCHANGED <<of, spare, levels>>

Rivals(r) == open \ {r} # {} \/ \E t \in Task : pc[t] = "load"

\* Faulty variant of Insert: the db is not dumped when it changes.
InsertUndumped(t, r) ==
  /\ db' = [db EXCEPT ![r] = @ \cup {t}]
  /\ open' = IF r # role /\ Active(r) = {t} THEN open \ {r} ELSE open
  /\ file' = IF open' = open THEN file ELSE db'[r]
  /\ stored' = stored \cup {t}
  /\ risked' = IF Rivals(r) THEN risked \cup {t} ELSE risked
  /\ Finish(t)

\* try_insert, at the end of the task.
Insert(t, r) ==
  /\ db' = [db EXCEPT ![r] = @ \cup {t}]
  /\ file' = db'[r]
  /\ open' = IF r # role /\ Active(r) = {t} THEN open \ {r} ELSE open
  /\ stored' = stored \cup {t}
  /\ risked' = IF Rivals(r) THEN risked \cup {t} ELSE risked
  /\ Finish(t)

\* The task ends with nothing to store.
Refuse(t) ==
  /\ Finish(t)
  /\ DropRole(of[t], Active(of[t]) \ {t}, file)
  /\ UNCHANGED <<db, stored, risked>>

-----------------------------------------------------------------------------
(* validate *)

GetStore(t) ==
  /\ t \in Validation /\ pc[t] = "new" /\ role # 0 /\ ours = "yes" /\ Runs(t)
  /\ ShardWrite(role) = {}
  /\ of' = [of EXCEPT ![t] = role]
  /\ Go(t, IF role \in open THEN "guard" ELSE "done")
  /\ UNCHANGED <<spare, handles, levels>>

\* It has the store's lock, finds the debit valid, and asks for a signature;
\* or finds it not valid.
LockToSign(t) ==
  /\ pc[t] = "guard" /\ Runs(t)
  /\ ~StoreLocked(of[t])
  /\ \/ Go(t, "sign") /\ UNCHANGED <<handles, of, spare, levels>>
     \/ Refuse(t)

\* Faulty variant of Signed: it waits for the lock that it has.
SignedLocksAgain(t) ==
  /\ pc[t] = "sign" /\ Runs(t)
  /\ ~StoreLocked(of[t])
  /\ Insert(t, of[t]) \/ Refuse(t)

\* The signature may fail, and so may the db.
Signed(t) ==
  /\ pc[t] = "sign" /\ Runs(t)
  /\ Insert(t, of[t]) \/ Refuse(t)

-----------------------------------------------------------------------------
(* receive_propagated *)

GetEntry(t) ==
  /\ t \in Propagation /\ pc[t] = "new" /\ role # 0 /\ ours = "yes" /\ Runs(t)
  /\ of' = [of EXCEPT ![t] = role]
  /\ Go(t, "block")
  /\ UNCHANGED <<spare, handles, levels>>

ShardFree(t) == pc[t] = "block" /\ ShardRead(of[t]) \cup ShardWrite(of[t]) = {}

\* TransferStore::new, the argument of or_insert.
LoadSpare(t) ==
  /\ ShardFree(t)
  /\ spare' = [spare EXCEPT ![t] = file]
  /\ Go(t, "load")
  /\ UNCHANGED <<of, handles, levels>>

\* The file cannot be loaded, for whatever reason: an empty db is written over
\* it and loaded in its place.  If that fails too, before or after the file is
\* written, the error ends the task.
LoadFails(t) ==
  /\ ShardFree(t)
  /\ risked' = risked \cup stored
  /\ \/ /\ file' = {}
        /\ spare' = [spare EXCEPT ![t] = {}]
        /\ Go(t, "load")
        /\ UNCHANGED <<of, open, levels>>
     \/ /\ Finish(t)
        /\ \E found \in {file, {}} : DropRole(of[t], Active(of[t]) \ {t}, found)
  /\ UNCHANGED <<db, stored>>

\* Faulty variant of OrInsert: the db in the map is replaced.
ReplaceStore(t) ==
  /\ pc[t] = "load"
  /\ Go(t, "got")
  /\ open' = open \cup {of[t]}
  /\ db' = [db EXCEPT ![of[t]] = spare[t]]
  /\ UNCHANGED <<file, stored, risked, of, spare, levels>>

\* The db that was opened goes into the map if there is none; else it is
\* dropped.
OrInsert(t) ==
  /\ pc[t] = "load"
  /\ Go(t, "got")
  /\ IF of[t] \in open
     THEN file' = spare[t] /\ UNCHANGED <<open, db>>
     ELSE /\ open' = open \cup {of[t]}
          /\ db' = [db EXCEPT ![of[t]] = spare[t]]
          /\ UNCHANGED file
  /\ UNCHANGED <<stored, risked, of, spare, levels>>

\* A credit that the wallet has, or refuses, is not stored.
Credit(t) ==
  /\ pc[t] = "got" /\ Runs(t)
  /\ ~StoreLocked(of[t])
  /\ Insert(t, of[t]) \/ Refuse(t)

-----------------------------------------------------------------------------
(* The role *)

\* The new role has an empty map of stores, over the files that are there.
level_up ==
  /\ role = 0 /\ last < MaxRole
  /\ role' = last + 1 /\ last' = last + 1
  /\ UNCHANGED <<ours, crashes, pc, of, spare, handles>>

\* Tasks of the role go on.
LevelDown ==
  /\ role # 0
  /\ role' = 0
  /\ DropRole(role, Active(role), file)
  /\ UNCHANGED <<db, stored, risked, last, ours, crashes, pc, of, spare>>

\* keep_keys_of has the lock on the transfers to itself: it removes the file,
\* then takes the db from the map and drops it.
keep_keys_of ==
  /\ role # 0 /\ ours = "yes" /\ Active(role) = {}
  /\ ours' = "no"
  /\ open' = open \ {role}
  /\ file' = IF role \in open THEN db[role] ELSE file
  /\ UNCHANGED <<db, stored, risked, role, last, crashes, pc, of, spare>>

\* Nothing is dropped in order.
Crash ==
  /\ crashes < MaxCrash
  /\ crashes' = crashes + 1
  /\ role' = 0
  /\ open' = {}
  /\ pc' = [t \in Task |-> IF pc[t] = "new" THEN "new" ELSE "done"]
  /\ UNCHANGED <<file, db, stored, risked, last, ours, of, spare>>

Step(t) ==
  \/ LockToSign(t) \/ Signed(t)
  \/ LoadSpare(t) \/ LoadFails(t) \/ OrInsert(t) \/ Credit(t)

Next ==
  \/ \E t \in Task : GetStore(t) \/ GetEntry(t) \/ Step(t)
  \/ level_up \/ LevelDown \/ keep_keys_of \/ Crash

Spec == Init /\ [][Next]_vars

\* The store's lock is handed out in turn, signatures arrive, and a task that
\* can run again and again does.
Fairness == \A t \in Task : SF_vars(Step(t))

FairSpec == Spec /\ Fairness

-----------------------------------------------------------------------------
\* "Access to the specific wallet is now serialised!" (validate, register and
\* receive_propagated): the tasks of a role work on one db, however many they
\* opened, so what one of them stored the db in the map still has.
WalletIsSerialised ==
  \A t \in stored : of[t] \in open => t \in db[of[t]]

\* A stored event is missing from the file only if another db had the file
\* open when it was stored, one that a task opened and was about to drop or
\* that of a role the node has left, or if a later load of the file failed
\* (new_auto_dump_db writes an empty db then).  Promotions, demotions, splits,
\* crashes and failing requests alone lose nothing.
LostWasAtRisk == stored \ file \subseteq risked

Blocked == {t \in Task : pc[t] = "block"}

\* Every worker waits for a shard that a validation holds, which needs a worker
\* to go on.
Starved ==
  Cardinality(Blocked) = Worker /\ \A t \in Blocked : ShardRead(of[t]) # {}

\* Every task that began ends (validate, get_load_or_create_store and
\* receive_propagated all let go of their locks), unless as many propagations
\* as there are workers came while a validation had the shard.
TasksEnd ==
  \A t \in Task : pc[t] # "new" ~> pc[t] = "done" \/ Starved

\* "first store to disk" (validate, register and receive_propagated): what a
\* task stored is in the file.  The code does not keep this when a second db is
\* dropped later, or when the file cannot be loaded later.
StoredIsOnDisk == stored \subseteq file

\* "Removes keys that are no longer our section responsibility."
\* (keep_keys_of): the file of a wallet of the sibling section is gone.  The
\* code does not keep this.
RemovedIsGone == ours = "no" => file = {}
=============================================================================
