----------------------------- MODULE ElderStores -----------------------------
(***************************************************************************)
(* The maps, sequences and registers that the elders of a section keep     *)
(* (metadata/elder_stores.rs, map_storage.rs, sequence_storage.rs and      *)
(* register_storage.rs): the writes and reads of clients, and how a node   *)
(* that becomes an elder gets the maps and sequences of the others.        *)
(*                                                                         *)
(* Clients send a request to every elder; it arrives at each any number of *)
(* times, in any order with the others, or never.  A request holds the     *)
(* lock of the stores throughout, and so does the merging of a push.  The  *)
(* content of a datum is the set of edits applied to it, and for a map the *)
(* last one of each entry besides; the data types themselves               *)
(* (sn_data_types) are external.  The files outlive the role.              *)
(***************************************************************************)
EXTENDS Naturals, FiniteSets

CONSTANTS
  Oldie,       \* the elders of old, which push their data
  New,         \* the node that becomes an elder
  Address,
  Kind,        \* Kind[a]: "map", "sequence" or "register"
  Sequenced,   \* the addresses of maps with a version for each entry
  Key,         \* the keys of entries
  Public,      \* the addresses of public data
  Near,        \* the addresses that match the prefix pushed
  Client,
  Owner,       \* Owner[a]: a client
  Policy,      \* Policy[a]: the clients that its creator lets in besides
  Request,     \* the writes that clients may send
  Workload,    \* the sets of them that are sent in one behaviour
  MaxStint,    \* how often the node may be promoted
  MaxFail      \* how many puts and deletes fail

Elder == Oldie \cup {New}

Cmd == {"New", "Edit", "Delete", "SetUserPermissions", "DelUserPermissions"}

ASSUME DataAssumption ==
  /\ New \notin Oldie
  /\ Kind \in [Address -> {"map", "sequence", "register"}]
  /\ Sequenced \subseteq {a \in Address : Kind[a] = "map"}
  /\ Public \subseteq {a \in Address : Kind[a] # "map"}
  /\ Near \subseteq Address
  /\ Owner \in [Address -> Client]
  /\ Policy \in [Address -> SUBSET Client]
  /\ Request \subseteq
       [cmd : Cmd, at : Address, by : Client, key : Key, nr : Nat, user : Client]
  /\ \A r \in Request : r.cmd \in {"SetUserPermissions", "DelUserPermissions"} =>
       Kind[r.at] = "map"
  /\ Workload \subseteq SUBSET Request
  /\ {MaxStint, MaxFail} \subseteq Nat

VARIABLES
  clients,   \* the writes that clients send
  store,     \* store[e][a]: the file of a at elder e
  role,      \* of the new node: "adult", "promoted" by routing, or "elder"
  stint,     \* its promotions so far
  task,      \* task[o]: what became of o's push
  packet,    \* packet[o]: the data in it
  synced,    \* received_initial_sync: "no", "yes" after a push, or "first", for
             \* the first elders of a network, which need none
  accepted,  \* accepted[e]: the edits e took without an error, but for those
             \* undone since by a deletion, a failing put or a push
  gone,      \* what the new node deleted, or failed to put, since it is elder
  fails      \* the number of failures so far

vars == <<clients, store, role, stint, task, packet, synced,
          accepted, gone, fails>>

\* What clients' requests leave alone.
levels == <<clients, role, stint, task, packet, synced>>

\* A file with the clients that may read and edit besides the owner, the
\* version of these permissions, the edits, their number, and the last edit
\* of each entry.
File == [state : {"absent", "partial", "whole"}, may : SUBSET Client,
         ver : Nat, ops : SUBSET Request, len : Nat, last : SUBSET Request]

Absent == [state |-> "absent", may |-> {}, ver |-> 0,
           ops |-> {}, len |-> 0, last |-> {}]

Partial == [Absent EXCEPT !.state = "partial"]

Fresh(a) == [Absent EXCEPT !.state = "whole", !.may = Policy[a]]

TypeOK ==
  /\ clients \in Workload
  /\ store \in [Elder -> [Address -> File]]
  /\ role \in {"adult", "promoted", "elder"}
  /\ stint \in 0..MaxStint
  /\ task \in [Oldie -> {"none", "sent", "checked", "updated", "done"}]
  /\ packet \in [Oldie -> [Address -> File]]
  /\ synced \in {"no", "first", "yes"}
  /\ accepted \in [Elder -> SUBSET Request]
  /\ gone \subseteq Address
  /\ fails \in 0..MaxFail

Empty == [a \in Address |-> Absent]

Init ==
  /\ clients \in Workload
  /\ store = [e \in Elder |-> Empty]
  /\ role = "adult"
  /\ stint = 0
  /\ task = [o \in Oldie |-> "none"]
  /\ packet = [o \in Oldie |-> Empty]
  /\ synced = "no"
  /\ accepted = [e \in Elder |-> {}]
  /\ gone = {}
  /\ fails = 0

-----------------------------------------------------------------------------
(* The data types.  A sequence and a register take an edit in any order and
   any number of times.  A map takes edits of entries, insertions (nr 1) and
   updates, and changes of permissions with the successor of their version. *)

MayRead(f, a, c) == a \in Public \/ c = Owner[a] \/ c \in f.may

MayEdit(f, a, c) == c = Owner[a] \/ c \in f.may

Entry(f, k) == {q \in f.last : q.key = k}

\* mutate_entries refuses to insert an entry that is there and to update one
\* that is not; an update of a sequenced map comes with the successor of the
\* version of the entry.
EntriesFit(f, r) ==
  IF r.nr = 1 THEN Entry(f, r.key) = {}
  ELSE /\ Entry(f, r.key) # {}
       /\ r.at \in Sequenced => \A q \in Entry(f, r.key) : r.nr = q.nr + 1

\* apply_op of a sequence or a register, mutate_entries of a map.
Apply(f, r) ==
  [f EXCEPT !.ops = @ \cup {r},
            !.len = IF r \in f.ops THEN @ ELSE @ + 1,
            !.last = (@ \ Entry(f, r.key)) \cup {r}]

-----------------------------------------------------------------------------
(* Writes: why one is refused, or "none" *)

\* ChunkStore::get: a partial file cannot be deserialised.
GetError(f) ==
  IF f.state = "absent" THEN "NoSuchChunk"
  ELSE IF f.state = "partial" THEN "Bincode" ELSE "none"

\* Faulty variant of CreateError: what is there is not asked for.
CreateAnyway(f) == "none"

\* create, and store of sequences and registers.
CreateError(f) == IF f.state = "absent" THEN "none" ELSE "DataExists"

\* SetUserPermissions and delete_user_permissions.
PermissionError(f, r) ==
  IF r.by # Owner[r.at] THEN "AccessDenied"
  ELSE IF r.nr # f.ver + 1 THEN "InvalidSuccessor"
  ELSE IF r.cmd = "DelUserPermissions" /\ r.user \notin f.may THEN "NoSuchKey"
  ELSE "none"

\* edit_entries.
EntriesError(f, r) ==
  IF ~MayEdit(f, r.at, r.by) THEN "AccessDenied"
  ELSE IF ~EntriesFit(f, r) THEN "InvalidEntryActions" ELSE "none"

MapError(f, r) ==
  IF r.cmd = "Delete" THEN IF r.by = Owner[r.at] THEN "none" ELSE "AccessDenied"
  ELSE IF r.cmd = "Edit" THEN EntriesError(f, r)
  ELSE PermissionError(f, r)

SequenceDeleteError(f, r) ==
  IF r.at \in Public THEN "InvalidMessage"
  ELSE IF ~MayRead(f, r.at, r.by) THEN "AccessDenied"
  ELSE IF r.by # Owner[r.at] THEN "InvalidOwner" ELSE "none"

SequenceEditError(f, r) ==
  IF MayEdit(f, r.at, r.by) THEN "none" ELSE "AccessDenied"

RegisterDeleteError(f, r) ==
  IF r.at \in Public THEN "InvalidMessage"
  ELSE IF r.by # Owner[r.at] THEN "InvalidOwner" ELSE "none"

RegisterEditError(f, r) ==
  IF MayEdit(f, r.at, r.by) THEN "none" ELSE "AccessDenied"

SequenceError(f, r) ==
  IF r.cmd = "Delete" THEN SequenceDeleteError(f, r) ELSE SequenceEditError(f, r)

RegisterError(f, r) ==
  IF r.cmd = "Delete" THEN RegisterDeleteError(f, r) ELSE RegisterEditError(f, r)

\* ElderStores::write: by kind of data.
WriteError(f, r) ==
  IF r.cmd = "New" THEN CreateError(f)
  ELSE IF GetError(f) # "none" THEN GetError(f)
  ELSE IF Kind[r.at] = "map" THEN MapError(f, r)
  ELSE IF Kind[r.at] = "sequence" THEN SequenceError(f, r)
  ELSE RegisterError(f, r)

\* What is put when the write is not refused.
Written(f, r) ==
  IF r.cmd = "New" THEN Fresh(r.at)
  ELSE IF r.cmd = "SetUserPermissions"
    THEN [f EXCEPT !.may = @ \cup {r.user}, !.ver = @ + 1]
  ELSE IF r.cmd = "DelUserPermissions"
    THEN [f EXCEPT !.may = @ \ {r.user}, !.ver = @ + 1]
  ELSE Apply(f, r)

Serves(e) == e \in Oldie \/ role = "elder"

\* The edits at a are no longer expected to be there.
Undone(e, a) == accepted' = [accepted EXCEPT ![e] = {r \in @ : r.at # a}]

GoneAt(e, a) == gone' = IF e = New THEN gone \cup {a} ELSE gone

\* edit_chunk, create and store.
Put(e, r) ==
  /\ r.cmd # "Delete"
  /\ WriteError(store[e][r.at], r) = "none"
  /\ store' = [store EXCEPT ![e][r.at] = Written(@, r)]
  /\ accepted' = [accepted EXCEPT ![e] = IF r.cmd = "Edit" THEN @ \cup {r} ELSE @]
  /\ UNCHANGED <<levels, gone, fails>>

Delete(e, r) ==
  /\ r.cmd = "Delete"
  /\ WriteError(store[e][r.at], r) = "none"
  /\ store' = [store EXCEPT ![e][r.at] = Absent]
  /\ Undone(e, r.at)
  /\ GoneAt(e, r.at)
  /\ UNCHANGED <<levels, fails>>

\* What a failing put leaves: the file of old if that cannot be removed,
\* nothing if the space does not suffice, or a part of the new file.
Fail(e, a) ==
  /\ fails < MaxFail
  /\ fails' = fails + 1
  /\ \E f \in {store[e][a], Absent, Partial} : store' = [store EXCEPT ![e][a] = f]
  /\ Undone(e, a)
  /\ GoneAt(e, a)

\* The client is told of the error.
PutFails(e, r) ==
  /\ r.cmd # "Delete"
  /\ WriteError(store[e][r.at], r) = "none"
  /\ Fail(e, r.at)
  /\ UNCHANGED levels

\* A refused request changes nothing and is no step.
Write(e, r) == Serves(e) /\ (Put(e, r) \/ Delete(e, r) \/ PutFails(e, r))

-----------------------------------------------------------------------------
(* Becoming an elder *)

\* Routing makes the node an elder.  A push of an earlier time may be on its
\* way still.
Promote ==
  /\ role = "adult"
  /\ stint < MaxStint
  /\ \A o \in Oldie : task[o] \notin {"checked", "updated"}
  /\ role' = "promoted"
  /\ stint' = stint + 1
  /\ task' = [o \in Oldie |-> IF task[o] = "sent" THEN "sent" ELSE "none"]
  /\ UNCHANGED <<clients, store, packet, synced, accepted, gone, fails>>

\* The stores are opened again, with the files that are there.
level_up ==
  /\ role = "promoted"
  /\ role' = "elder"
  /\ gone' = {}

\* Genesis, or EldersChanged at a newbie, which in the first section of a
\* network, while its chain is short, is taken to be in sync.
BecomeElder ==
  /\ level_up
  /\ synced' \in {"no", "first"}
  /\ UNCHANGED <<clients, store, stint, task, packet, accepted, fails>>

\* Tasks under way go on, with the stores of the role that is left.
LevelDown ==
  /\ role = "elder"
  /\ role' = "adult"
  /\ UNCHANGED <<clients, store, stint, task, packet, synced,
                 accepted, gone, fails>>

\* Maps and sequences of the prefix that can be read; not yet registers.
get_data_of(e) ==
  [a \in Address |->
     IF a \in Near /\ Kind[a] # "register" /\ store[e][a].state = "whole"
     THEN store[e][a] ELSE Absent]

\* push_state of an elder of old, on EldersChanged.
push_state(o) ==
  /\ role # "adult"
  /\ task[o] = "none"
  /\ task' = [task EXCEPT ![o] = "sent"]
  /\ packet' = [packet EXCEPT ![o] = get_data_of(o)]
  /\ UNCHANGED <<clients, store, role, stint, synced, accepted, gone, fails>>

\* An adult answers with an error, an elder in sync ignores the push.
SynchState(o) ==
  /\ task[o] = "sent"
  /\ task' = [task EXCEPT ![o] = IF role = "elder" /\ synced = "no" THEN "checked"
                                                                    ELSE "done"]
  /\ UNCHANGED <<clients, store, role, stint, packet, synced,
                 accepted, gone, fails>>

InPacket(o) == {a \in Address : packet[o][a].state = "whole"}

PutAll(o, puts) ==
  [store EXCEPT ![New] = [a \in Address |-> IF a \in puts THEN packet[o][a] ELSE @[a]]]

\* Of what is put over, the edits that the push knows stay.
Kept(o, puts) ==
  {r \in accepted[New] : r.at \in puts => r \in packet[o][r.at].ops}

\* Faulty variant of update: edits that are there are added to the new ones.
update_by_union(o) ==
  /\ task[o] = "checked"
  /\ task' = [task EXCEPT ![o] = "updated"]
  /\ store' = [store EXCEPT ![New] = [a \in Address |->
       IF a \in InPacket(o)
       THEN [packet[o][a] EXCEPT
               !.ops = @ \cup store[New][a].ops,
               !.len = Cardinality(packet[o][a].ops \cup store[New][a].ops)]
       ELSE @[a]]]
  /\ accepted' = [accepted EXCEPT ![New] = Kept(o, InPacket(o))]
  /\ UNCHANGED <<clients, role, stint, packet, synced, gone, fails>>

\* Each map and each sequence is put, whatever is there.
update(o) ==
  /\ task[o] = "checked"
  /\ task' = [task EXCEPT ![o] = "updated"]
  /\ store' = PutAll(o, InPacket(o))
  /\ accepted' = [accepted EXCEPT ![New] = Kept(o, InPacket(o))]
  /\ UNCHANGED <<clients, role, stint, packet, synced, gone, fails>>

\* Maps come before sequences.
PutOrder(o, puts, a) ==
  Kind[a] = "sequence" => {m \in InPacket(o) : Kind[m] = "map"} \subseteq puts

\* Faulty variant of UpdateFails: the error is dropped.
UpdateGoesOn(o) ==
  /\ task[o] = "checked"
  /\ fails < MaxFail
  /\ fails' = fails + 1
  /\ \E a \in InPacket(o) :
       /\ store' = [PutAll(o, InPacket(o)) EXCEPT ![New][a] = Absent]
       /\ accepted' = [accepted EXCEPT ![New] = {}]
  /\ task' = [task EXCEPT ![o] = "updated"]
  /\ UNCHANGED <<clients, role, stint, packet, synced, gone>>

\* A put fails: those before it are done, and the task ends there.
UpdateFails(o) ==
  /\ task[o] = "checked"
  /\ task' = [task EXCEPT ![o] = "done"]
  /\ fails < MaxFail
  /\ fails' = fails + 1
  /\ \E a \in InPacket(o), puts \in SUBSET InPacket(o) :
       /\ a \notin puts
       /\ \A b \in puts \cup {a} : PutOrder(o, puts, b)
       /\ \E f \in {store[New][a], Absent, Partial} :
            store' = [PutAll(o, puts) EXCEPT ![New][a] = f]
       /\ accepted' = [accepted EXCEPT ![New] = {r \in Kept(o, puts) : r.at # a}]
       /\ gone' = gone \cup {a}
  /\ UNCHANGED <<clients, role, stint, packet, synced>>

\* The flag is that of the role the task was started in.
FinishSync(o) ==
  /\ task[o] = "updated"
  /\ task' = [task EXCEPT ![o] = "done"]
  /\ synced' = "yes"
  /\ UNCHANGED <<clients, store, role, stint, packet, accepted, gone, fails>>

Next ==
  \/ \E e \in Elder, r \in clients : Write(e, r)
  \/ Promote \/ BecomeElder \/ LevelDown
  \/ \E o \in Oldie :
       push_state(o) \/ SynchState(o) \/ update(o) \/ UpdateFails(o) \/ FinishSync(o)

Spec == Init /\ [][Next]_vars

-----------------------------------------------------------------------------
(* Reads: each takes the lock, asks for permission and projects the datum *)

\* The errors that a client sees.
convert_to_error_message(error) ==
  IF error = "NoSuchChunk" THEN "DataNotFound"
  ELSE IF error \in {"AccessDenied", "NoSuchEntry"} THEN error
  ELSE "InvalidOperation"

Ok(value) == [error |-> "none", value |-> value]

Err(error) == [error |-> convert_to_error_message(error), value |-> {}]

Ensure(condition, error, value) == IF condition THEN Ok(value) ELSE Err(error)

\* get_chunk of each storage, with the action Read.
get_chunk(e, a, c) ==
  LET f == store[e][a] IN
  IF GetError(f) # "none" THEN GetError(f)
  ELSE IF MayRead(f, a, c) THEN "none" ELSE "AccessDenied"

\* get, get_shell, get_version, list_keys, list_values, list_entries and
\* get_value of a map: its last edit is the value of an entry.
MapEntries(f, query, key) ==
  IF query = "Get" THEN Ok(f.ops)
  ELSE IF query \in {"GetShell", "GetVersion"} THEN Ok(f.ver)
  ELSE IF query \in {"ListKeys", "ListValues", "ListEntries"} THEN Ok(f.last)
  ELSE Ensure(Entry(f, key) # {}, "NoSuchEntry", Entry(f, key))

MapPermissions(f, query, user) ==
  IF query = "ListPermissions" THEN Ok(f.may)
  ELSE Ensure(user \in f.may, "NoSuchKey", {user})

\* Faulty variant of get_last_entry: that there is one is not checked.
LastEntryUnchecked(f) == Ok(f.len - 1)

get_last_entry(f) == Ensure(f.len > 0, "NoSuchEntry", f.len - 1)

\* get, get_range (of the whole) and the policies of a sequence.
SequenceQuery(f, a, query, user) ==
  IF query \in {"Get", "GetRange"} THEN Ok(f.ops)
  ELSE IF query = "GetLastEntry" THEN get_last_entry(f)
  ELSE IF query = "GetUserPermissions" THEN Ensure(user \in f.may, "NoSuchKey", {user})
  ELSE Ensure(query = IF a \in Public THEN "GetPublicPolicy" ELSE "GetPrivatePolicy",
              "CrdtUnexpectedState", Owner[a])

RegisterQuery(f, a, query, user) ==
  IF query \in {"Get", "Read"} THEN Ok(f.ops)
  ELSE IF query = "GetOwner" THEN Ok(Owner[a])
  ELSE IF query = "GetPolicy" THEN Ok(f.may)
  ELSE Ensure(user \in f.may, "NoSuchKey", {user})

\* ElderStores::read; some queries name a user or a key.
read(e, a, c, query, arg) ==
  LET f == store[e][a] IN
  IF get_chunk(e, a, c) # "none" THEN Err(get_chunk(e, a, c))
  ELSE IF Kind[a] = "sequence" THEN SequenceQuery(f, a, query, arg)
  ELSE IF Kind[a] = "register" THEN RegisterQuery(f, a, query, arg)
  ELSE IF query \in {"ListPermissions", "ListUserPermissions"}
    THEN MapPermissions(f, query, arg)
  ELSE MapEntries(f, query, arg)

-----------------------------------------------------------------------------
\* What an elder took without an error its owner reads there, until the owner
\* deletes it or a failing put or a push (which hands on what the pushing
\* elder had) puts it away: no request, in whatever order and however often
\* it arrives, and no promotion undoes another's edit.
AcceptedIsRead ==
  \A e \in Elder : \A r \in accepted[e] :
    r \in read(e, r.at, Owner[r.at], "Get", r.by).value

\* Each entry has one edit for each version up to that of its value.
OneHistory(f) ==
  /\ f.last \subseteq f.ops
  /\ \A r, q \in f.ops : r.key = q.key /\ r.nr = q.nr => r = q
  /\ \A r, q \in f.last : r.key = q.key => r = q
  /\ \A r \in f.ops : \E q \in f.last : q.key = r.key /\ r.nr \in 1..q.nr
  /\ \A r \in f.last : \A n \in 1..r.nr :
       \E q \in f.ops : q.key = r.key /\ q.nr = n

\* The edits of an entry of a sequenced map are one history, of which the last
\* is its value, at every elder and in every push: of competing edits an elder
\* has one, since it reads, changes and puts a map under one lock, and a push
\* replaces a map and never mixes two histories.
MapIsOneHistory ==
  \A a \in Sequenced :
    /\ \A e \in Elder : OneHistory(store[e][a])
    /\ \A o \in Oldie : OneHistory(packet[o][a])

\* An elder that takes itself to be in sync, the first elders of a network
\* aside, has every map and sequence that one of the others pushed, but for
\* those it deleted or failed to put later: when one of the puts of an update
\* fails, the flag stays as it is.
SyncedHoldsTheData ==
  role = "elder" /\ synced = "yes" =>
    \E o \in Oldie : \A a \in InPacket(o) \ gone : store[New][a].state = "whole"

Queries(a) ==
  IF Kind[a] = "map"
  THEN {"Get", "GetShell", "GetVersion", "GetValue", "ListKeys", "ListValues",
        "ListEntries", "ListPermissions", "ListUserPermissions"}
  ELSE IF Kind[a] = "sequence"
  THEN {"Get", "GetRange", "GetLastEntry", "GetUserPermissions",
        "GetPublicPolicy", "GetPrivatePolicy"}
  ELSE {"Get", "Read", "GetOwner", "GetUserPermissions", "GetPolicy"}

\* The queries of one client about one datum agree, whatever requests, pushes
\* and failures went before: all are refused for the same reason or none is;
\* there is a value or a last entry if and only if there are entries, and the
\* last of n entries has the index n - 1; a sequence has one of two policies.
QueriesAgree ==
  \A e \in Elder, a \in Address, c \in Client :
    LET ask(query) == read(e, a, c, query, c)
        ok(query) == ask(query).error = "none"
    IN
    IF ~ok("Get")
    THEN \A query \in Queries(a) : ask(query).error = ask("Get").error
    ELSE
      /\ Kind[a] = "map" =>
           \A k \in Key :
             LET value == read(e, a, c, "GetValue", k) IN
             /\ value.error = "none" <=> \E r \in ask("ListKeys").value : r.key = k
             /\ value.error = "none" => Cardinality(value.value) = 1
      /\ Kind[a] = "sequence" =>
           /\ ok("GetLastEntry") <=> ask("GetRange").value # {}
           /\ ok("GetLastEntry") =>
                ask("GetLastEntry").value + 1 = Cardinality(ask("Get").value)
           /\ ok("GetPublicPolicy") # ok("GetPrivatePolicy")

\* "merge in provided metadata" (synch_state): after the merge the elder has
\* the edits it had.  The code does not keep this: update overwrites.
MergeKeepsEdits ==
  [][\A o \in Oldie : task[o] = "checked" /\ task'[o] = "updated" =>
       \A a \in Address : store[New][a].ops \subseteq store'[New][a].ops]_vars
=============================================================================
