--------------------------- MODULE NodeStartProofs ---------------------------
(***************************************************************************)
(* A node holds the secret key of every reward key it sent to the section, *)
(* and stays in the file of contacts unless its entry was raced, for any   *)
(* number of nodes, starts, crashes and key pairs.                         *)
(***************************************************************************)
EXTENDS NodeStart, TLAPS

\* Where the pair of keys of this process is on disk.
Stored ==
  {"network", "routing", "sleep", "store", "writing network", "register",
   "connect", "contacts", "writing contacts", "run", "run unlisted"}

\* A public key that can be read is that of the secret key on disk, so a key
\* that was sent to the section is never generated over.
KeyOK(n) ==
  /\ public[n].state = "whole" => secret[n] = public[n]
  /\ at[n] \in Stored => public[n] = Whole(reward[n])
  /\ at[n] \in {"secret", "writing secret"} => public[n].state = "none"
  /\ at[n] \in {"public", "writing public"} =>
       secret[n] = Whole(reward[n]) /\ public[n].state # "whole"
  /\ registered[n] # {} => public[n].state = "whole"
  /\ \A key \in registered[n] : secret[n] = Whole(key)

\* The files hold keys, and there is one of each for every node.
Shape ==
  /\ at \in [Node -> Place]
  /\ secret \in [Node -> File(Nat)]
  /\ public \in [Node -> File(Nat)]
  /\ reward \in [Node -> Nat]
  /\ registered \in [Node -> SUBSET Nat]
  /\ keys \in Nat

KeyInv == Shape /\ \A n \in Node \ torn : KeyOK(n)

\* What KeyOK(m) is about stays as it is.
Same(m) ==
  /\ at'[m] = at[m] /\ secret'[m] = secret[m] /\ public'[m] = public[m]
  /\ reward'[m] = reward[m] /\ registered'[m] = registered[m]
  /\ m \in torn' <=> m \in torn

-----------------------------------------------------------------------------
\* Files that are whole hold a key, the others none.
LEMMA FileFacts ==
  /\ None.state = "none" /\ Part.state = "part"
  /\ None \in File(Nat) /\ Part \in File(Nat)
  /\ \A key \in Nat :
       Whole(key).state = "whole" /\ Whole(key).key = key /\ Whole(key) \in File(Nat)
  /\ \A f \in File(Nat) : f.state = "whole" => f.key \in Nat /\ f = Whole(f.key)
BY DEF None, Part, Whole, File

\* Nothing changes for a node that does not move.
LEMMA SameKeeps ==
  ASSUME NEW m \in Node, m \notin torn => KeyOK(m), Same(m)
  PROVE  m \notin torn' => KeyOK(m)'
BY DEF KeyOK, Same

\* The first state.
LEMMA KeyInit == Init => KeyInv
<1> SUFFICES ASSUME Init PROVE KeyInv
  OBVIOUS
<1>1. Shape
  BY FileFacts DEF Init, Shape, Place
<1>2. ASSUME NEW n \in Node PROVE KeyOK(n)
  BY FileFacts DEF Init, KeyOK, Stored
<1> QED BY <1>1, <1>2 DEF KeyInv

\* An action of one node leaves the files and keys of the others alone.
LEMMA MoveKeeps ==
  ASSUME KeyInv, NEW n \in Node, Shape',
         \A m \in Node \ {n} : Same(m),
         n \notin torn' => KeyOK(n)'
  PROVE  KeyInv'
<1>1. ASSUME NEW m \in Node, m \notin torn' PROVE KeyOK(m)'
  BY <1>1, SameKeeps DEF KeyInv
<1> QED BY <1>1 DEF KeyInv

\* The steps that leave the files and the registrations alone.
LEMMA QuietStep ==
  ASSUME KeyInv, NEW n \in Node, NEW to \in Place,
         at' = [at EXCEPT ![n] = to],
         to \in Stored => at[n] \in Stored,
         to \notin {"secret", "writing secret", "public", "writing public"},
         UNCHANGED <<secret, public, reward, registered, torn, keys>>
  PROVE  KeyInv'
<1>1. Shape'
  BY DEF KeyInv, Shape
<1>2. \A m \in Node \ {n} : Same(m)
  BY DEF KeyInv, Shape, Same
<1>3. n \notin torn' => KeyOK(n)'
  <2> SUFFICES ASSUME n \notin torn PROVE KeyOK(n)'
    OBVIOUS
  <2>1. KeyOK(n) /\ at'[n] = to
    BY DEF KeyInv, Shape
  <2> QED BY <2>1 DEF KeyOK
<1> QED BY <1>1, <1>2, <1>3, MoveKeeps

\* Every step of run_node keeps the keys in order.
LEMMA KeyStep == KeyInv /\ [Next]_vars => KeyInv'
<1> SUFFICES ASSUME KeyInv, [Next]_vars PROVE KeyInv'
  OBVIOUS
<1>0. CASE UNCHANGED vars
  <2>1. Shape' /\ \A m \in Node : Same(m)
    BY <1>0 DEF vars, KeyInv, Shape, Same
  <2>2. ASSUME NEW m \in Node, m \notin torn' PROVE KeyOK(m)'
    BY <2>1, <2>2, SameKeeps DEF KeyInv
  <2> QED BY <2>1, <2>2 DEF KeyInv
<1> SUFFICES ASSUME NEW n \in Node,
                    \/ Start(n) \/ StartCleared(n) \/ StartHalfCleared(n)
                    \/ Step(n) \/ Join(n) \/ JoinRenamed(n) \/ TryJoinLater(n)
                    \/ ContactsFail(n) \/ End(n)
             PROVE  KeyInv'
  BY <1>0 DEF Next
<1>1. CASE Start(n) \/ CannotDecode(n) \/ Retry(n) \/ End(n)
  <2>1. \E to \in {"off", "reward"} : at' = [at EXCEPT ![n] = to]
    BY <1>1 DEF Start, CannotDecode, Retry, End, Go
  <2>2. UNCHANGED <<secret, public, reward, registered, torn, keys>>
    BY <1>1 DEF Start, CannotDecode, Retry, End, disk, memory
  <2> QED BY <2>1, <2>2, QuietStep DEF Place, Stored
<1>2. CASE Join(n) \/ JoinRenamed(n) \/ TryJoinLater(n) \/ ReadNetwork(n)
           \/ StoreNetwork(n) \/ ReadContacts(n) \/ BeginContacts(n)
           \/ WriteContacts(n) \/ ContactsFail(n)
  <2>1. at[n] \in Stored
    BY <1>2 DEF Join, JoinRenamed, TryJoinLater, ReadNetwork, StoreNetwork,
       ReadContacts, BeginContacts, WriteContacts, ContactsFail, Go, Stored
  <2>2. \E to \in Stored : at' = [at EXCEPT ![n] = to]
    BY <1>2 DEF Join, JoinRenamed, TryJoinLater, ReadNetwork, StoreNetwork,
       ReadContacts, BeginContacts, WriteContacts, ContactsFail, Go, Stored
  <2>3. UNCHANGED <<secret, public, reward, registered, torn, keys>>
    BY <1>2 DEF Join, JoinRenamed, TryJoinLater, ReadNetwork, StoreNetwork,
       ReadContacts, BeginContacts, WriteContacts, ContactsFail, disk, memory
  <2> QED BY <2>1, <2>2, <2>3, QuietStep DEF Place, Stored
<1>3. CASE StartCleared(n)
  <2>1. Shape'
    BY <1>3, FileFacts DEF StartCleared, KeyInv, Shape, memory, Go, Place
  <2>2. \A m \in Node \ {n} : Same(m)
    BY <1>3 DEF StartCleared, KeyInv, Shape, Same, memory, Go
  <2>3. /\ at'[n] = "reward" /\ public'[n] = None /\ registered'[n] = {}
    BY <1>3 DEF StartCleared, KeyInv, Shape, Go
  <2>4. KeyOK(n)'
    BY <2>3, FileFacts DEF KeyOK, Stored
  <2> QED BY <2>1, <2>2, <2>4, MoveKeeps
<1>4. CASE StartHalfCleared(n)
  <2>1. Shape'
    BY <1>4, FileFacts DEF StartHalfCleared, KeyInv, Shape, memory, Go, Place
  <2>2. \A m \in Node \ {n} : Same(m)
    BY <1>4 DEF StartHalfCleared, KeyInv, Shape, Same, memory, Go
  <2>3. n \in torn'
    BY <1>4 DEF StartHalfCleared
  <2> QED BY <2>1, <2>2, <2>3, MoveKeeps
<1>5. CASE ReadReward(n)
  <2>1. public[n].key \in Nat /\ public[n] = Whole(public[n].key)
    BY <1>5, FileFacts DEF ReadReward, KeyInv, Shape
  <2>2. Shape'
    BY <1>5, <2>1 DEF ReadReward, KeyInv, Shape, disk, Go, Place
  <2>3. \A m \in Node \ {n} : Same(m)
    BY <1>5 DEF ReadReward, KeyInv, Shape, Same, disk, Go
  <2>4. at'[n] = "network" /\ reward'[n] = public[n].key
    BY <1>5 DEF ReadReward, KeyInv, Shape, Go
  <2>5. n \notin torn' => KeyOK(n)'
    BY <1>5, <2>1, <2>4 DEF ReadReward, KeyInv, KeyOK, disk, Stored
  <2> QED BY <2>2, <2>3, <2>5, MoveKeeps
<1>6. CASE NewReward(n)
  <2>1. Shape'
    <3>1. keys' \in Nat
      BY <1>6 DEF NewReward, KeyInv, Shape
    <3>2. reward' \in [Node -> Nat]
      BY <1>6, <3>1 DEF NewReward, KeyInv, Shape
    <3>3. at' \in [Node -> Place]
      BY <1>6 DEF NewReward, KeyInv, Shape, Go, Place
    <3> QED BY <1>6, <3>1, <3>2, <3>3 DEF NewReward, KeyInv, Shape, disk
  <2>2. \A m \in Node \ {n} : Same(m)
    BY <1>6 DEF NewReward, KeyInv, Shape, Same, disk, Go
  <2>3. at'[n] = "secret"
    BY <1>6 DEF NewReward, KeyInv, Shape, Go
  <2>4. n \notin torn' => KeyOK(n)'
    BY <1>6, <2>3 DEF NewReward, KeyInv, KeyOK, disk, Stored
  <2> QED BY <2>1, <2>2, <2>4, MoveKeeps
<1>7. CASE StoreReward(n)
  <2>1. Shape'
    <3>1. Whole(reward[n]) \in File(Nat)
      BY FileFacts DEF KeyInv, Shape
    <3>2. secret' \in [Node -> File(Nat)] /\ public' \in [Node -> File(Nat)]
      BY <1>7, <3>1, FileFacts DEF StoreReward, KeyInv, Shape
    <3>3. at' \in [Node -> Place]
      BY <1>7 DEF StoreReward, KeyInv, Shape, Go, Place
    <3> QED BY <1>7, <3>2, <3>3 DEF StoreReward, KeyInv, Shape, memory
  <2>2. \A m \in Node \ {n} : Same(m)
    BY <1>7 DEF StoreReward, KeyInv, Shape, Same, memory, Go
  <2>3. n \notin torn' => KeyOK(n)'
    <3> SUFFICES ASSUME n \notin torn PROVE KeyOK(n)'
      BY <1>7 DEF StoreReward
    <3>1. KeyOK(n) /\ reward[n] \in Nat
      BY DEF KeyInv, Shape
    <3>2. reward'[n] = reward[n] /\ registered'[n] = registered[n]
      BY <1>7 DEF StoreReward, memory
    <3>3. \/ at[n] = "secret" /\ at'[n] = "writing secret" /\ public'[n] = public[n]
          \/ /\ at[n] = "writing secret" /\ at'[n] = "public" /\ public'[n] = public[n]
             /\ secret'[n] = Whole(reward[n])
          \/ /\ at[n] = "public" /\ at'[n] = "writing public" /\ public'[n] = Part
             /\ secret'[n] = secret[n]
          \/ /\ at[n] = "writing public" /\ at'[n] = "network"
             /\ public'[n] = Whole(reward[n]) /\ secret'[n] = secret[n]
      BY <1>7 DEF StoreReward, KeyInv, Shape, Go
    <3> QED BY <3>1, <3>2, <3>3, FileFacts DEF KeyOK, Stored
  <2> QED BY <2>1, <2>2, <2>3, MoveKeeps
<1>8. CASE RegisterWallet(n)
  <2>1. Shape'
    BY <1>8 DEF RegisterWallet, KeyInv, Shape, disk, memory, Go, Place
  <2>2. \A m \in Node \ {n} : Same(m)
    BY <1>8 DEF RegisterWallet, KeyInv, Shape, Same, disk, memory, Go
  <2>3. at[n] = "register" /\ at'[n] = "connect" /\ reward[n] \in Nat
        /\ registered'[n] = registered[n] \cup {reward[n]}
    BY <1>8 DEF RegisterWallet, KeyInv, Shape, Go
  <2>4. n \notin torn' => KeyOK(n)'
    BY <1>8, <2>3, FileFacts DEF RegisterWallet, KeyInv, KeyOK, disk, memory, Stored
  <2> QED BY <2>1, <2>2, <2>4, MoveKeeps
<1> QED
  BY <1>1, <1>2, <1>3, <1>4, <1>5, <1>6, <1>7, <1>8 DEF Step

\* Wherever run_node, Node::new or store_new_reward_keypair was interrupted,
\* the section pays to a key whose secret half the node has.
THEOREM RewardsCanBeSpent == Spec => []RegisteredHasSecret
<1>1. KeyInv => RegisteredHasSecret
  BY DEF KeyInv, KeyOK, RegisteredHasSecret
<1> QED BY <1>1, KeyInit, KeyStep, PTL DEF Spec

-----------------------------------------------------------------------------
(* The contacts *)

\* A running node is in the file, and in what any process is about to write.
Listed(n) ==
  /\ contacts.state = "whole" => n \in contacts.key
  /\ \A m \in Writers : n \in seen[m]

ListInv ==
  /\ at \in [Node -> Place]
  /\ seen \in [Node -> SUBSET Node]
  /\ contacts \in File(SUBSET Node)
  /\ Running # {} => contacts.state # "none"
  /\ \A m \in Writers : m \in seen[m]
  /\ \A n \in Running \ raced : Listed(n)

\* Files that are whole list nodes.
LEMMA ContactsFacts ==
  /\ None.state = "none" /\ Part.state = "part"
  /\ None \in File(SUBSET Node) /\ Part \in File(SUBSET Node)
  /\ \A s \in SUBSET Node :
       Whole(s).state = "whole" /\ Whole(s).key = s /\ Whole(s) \in File(SUBSET Node)
  /\ \A f \in File(SUBSET Node) :
       f.state \in {"none", "part", "whole"} /\ (f.state = "whole" => f.key \in SUBSET Node)
BY DEF None, Part, Whole, File

\* The first state.
LEMMA ListInit == Init => ListInv
BY ContactsFacts DEF Init, ListInv, Running, Writers, Place

\* The steps that leave the file alone, and take no process into the run or to
\* where the file is read and written.
LEMMA ListQuiet ==
  ASSUME ListInv, UNCHANGED shared, NEW n \in Node, NEW to \in Place,
         at' = [at EXCEPT ![n] = to],
         to \notin {"run", "contacts", "writing contacts"}
  PROVE  ListInv'
<1>1. contacts' = contacts /\ seen' = seen /\ raced' = raced
  BY DEF shared
<1>2. at' \in [Node -> Place] /\ Running' \subseteq Running /\ Writers' \subseteq Writers
  BY DEF ListInv, Running, Writers
<1>3. ASSUME NEW q \in Running' \ raced' PROVE Listed(q)'
  BY <1>1, <1>2 DEF ListInv, Listed
<1> QED BY <1>1, <1>2, <1>3 DEF ListInv

\* Reading the file: the entries that count are taken over, or count no more.
LEMMA ListRead ==
  ASSUME ListInv, NEW n \in Node, ReadContacts(n) \/ BeginContacts(n)
  PROVE  ListInv'
<1>1. PICK entries \in SUBSET Node :
        /\ seen' = [seen EXCEPT ![n] = {n} \cup entries]
        /\ \/ contacts.state = "whole" /\ entries = contacts.key /\ raced' = raced
           \/ raced' = raced \cup Running
  <2>1. CASE ReadContacts(n)
    BY <2>1, ContactsFacts DEF ReadContacts, ListInv
  <2>2. CASE BeginContacts(n)
    <3>1. {} \in SUBSET Node /\ {n} \cup {} = {n}
      OBVIOUS
    <3>2. seen' = [seen EXCEPT ![n] = {n} \cup {}] /\ raced' = raced \cup Running
      BY <2>2, <3>1 DEF BeginContacts
    <3> HIDE <2>2
    <3> WITNESS {} \in SUBSET Node
    <3> QED BY <3>2
  <2> QED BY <2>1, <2>2
<1>a. at[n] = "connect" /\ at' = [at EXCEPT ![n] = "contacts"] /\ contacts' = contacts
  BY DEF ReadContacts, BeginContacts, Go
<1>2. Running' = Running /\ Writers' = Writers \cup {n} /\ at' \in [Node -> Place]
  BY <1>a DEF ListInv, Running, Writers, Place
<1>3. n \in seen'[n] /\ \A m \in Node \ {n} : seen'[m] = seen[m]
  BY <1>1 DEF ListInv
<1>4. \A m \in Writers' : m \in seen'[m]
  BY <1>2, <1>3 DEF ListInv, Writers
<1>5. ASSUME NEW q \in Running' \ raced' PROVE Listed(q)'
  <2>1. /\ q \in Running \ raced /\ contacts.state = "whole"
        /\ entries = contacts.key
    BY <1>1, <1>2
  <2>2. q \in seen'[n]
    BY <2>1, <1>1 DEF ListInv, Listed
  <2> QED BY <2>1, <2>2, <1>a, <1>2, <1>3 DEF ListInv, Listed, Writers
<1>6. seen' \in [Node -> SUBSET Node]
  BY <1>1 DEF ListInv, Running
<1> QED BY <1>a, <1>2, <1>4, <1>5, <1>6 DEF ListInv

\* Writing it: what was read is still all there is to keep.
LEMMA ListWrite ==
  ASSUME ListInv, NEW n \in Node, WriteContacts(n)
  PROVE  ListInv'
<1>0. seen' = seen
  BY DEF WriteContacts
<1>1. CASE Go(n, "contacts", "writing contacts") /\ contacts' = Part /\ UNCHANGED raced
  <2>1. Running' = Running /\ Writers' = Writers /\ at' \in [Node -> Place]
    BY <1>1 DEF ListInv, Running, Writers, Place, Go
  <2>2. ASSUME NEW q \in Running' \ raced' PROVE Listed(q)'
    BY <1>0, <1>1, <2>1, ContactsFacts DEF ListInv, Listed
  <2> QED BY <1>0, <1>1, <2>1, <2>2, ContactsFacts DEF ListInv
<1>2. CASE /\ Go(n, "writing contacts", "run")
           /\ contacts' = Whole(seen[n])
           /\ raced' = IF Writers \ {n} = {} THEN raced \ {n} ELSE raced \cup {n}
  <2>1. /\ n \in Writers /\ Running' = Running \cup {n} /\ Writers' = Writers \ {n}
        /\ at' \in [Node -> Place]
    BY <1>2 DEF ListInv, Running, Writers, Place, Go
  <2>2. contacts'.state = "whole" /\ contacts'.key = seen[n] /\ contacts' \in File(SUBSET Node)
    BY <1>2, ContactsFacts DEF ListInv
  <2>3. ASSUME NEW q \in Running' \ raced' PROVE Listed(q)'
    <3>1. CASE q = n
      BY <3>1, <1>0, <1>2, <2>1, <2>2 DEF ListInv, Listed
    <3>2. CASE q # n
      BY <3>2, <1>0, <1>2, <2>1, <2>2 DEF ListInv, Listed
    <3> QED BY <3>1, <3>2
  <2> QED BY <1>0, <2>1, <2>2, <2>3 DEF ListInv
<1> QED BY <1>1, <1>2 DEF WriteContacts

LEMMA ListStep == ListInv /\ [Next]_vars => ListInv'
<1> SUFFICES ASSUME ListInv, [Next]_vars PROVE ListInv'
  OBVIOUS
<1>0. CASE UNCHANGED vars
  BY <1>0 DEF vars, ListInv, Listed, Running, Writers
<1> SUFFICES ASSUME NEW n \in Node,
                    \/ Start(n) \/ StartCleared(n) \/ StartHalfCleared(n)
                    \/ Step(n) \/ Join(n) \/ JoinRenamed(n) \/ TryJoinLater(n)
                    \/ ContactsFail(n) \/ End(n)
             PROVE  ListInv'
  BY <1>0 DEF Next
<1> DEFINE Other == Place \ {"run", "contacts", "writing contacts"}
<1>1. CASE \/ Start(n) \/ StartCleared(n) \/ StartHalfCleared(n) \/ CannotDecode(n)
           \/ ReadReward(n) \/ NewReward(n) \/ Retry(n) \/ ContactsFail(n) \/ End(n)
  <2>1. (\E to \in Other : at' = [at EXCEPT ![n] = to]) /\ UNCHANGED shared
    BY <1>1 DEF Start, StartCleared, StartHalfCleared, CannotDecode, ReadReward,
       NewReward, Retry, ContactsFail, End, Go, Place
  <2> QED BY <2>1, ListQuiet
<1>2. CASE \/ StoreReward(n) \/ ReadNetwork(n) \/ StoreNetwork(n) \/ RegisterWallet(n)
           \/ Join(n) \/ JoinRenamed(n) \/ TryJoinLater(n)
  <2>1. (\E to \in Other : at' = [at EXCEPT ![n] = to]) /\ UNCHANGED shared
    BY <1>2 DEF StoreReward, ReadNetwork, StoreNetwork, RegisterWallet, Join,
       JoinRenamed, TryJoinLater, Go, Place
  <2> QED BY <2>1, ListQuiet
<1> QED BY <1>1, <1>2, ListRead, ListWrite DEF Step

\* add_connection_info loses no entry of a running node but those raced: a
\* process that reads the file when no other is at it takes every entry over.
THEOREM EntriesAreKept == Spec => []UnlistedWasRaced
<1>1. ListInv => UnlistedWasRaced
  BY DEF ListInv, Listed, UnlistedWasRaced
<1> QED BY <1>1, ListInit, ListStep, PTL DEF Spec
=============================================================================
