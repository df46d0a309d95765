------------------------------ MODULE NodeStart ------------------------------
(***************************************************************************)
(* Starting a node (bin/sn_node.rs run_node, Node::new, Network::new), the *)
(* keys it keeps on disk (state_db.rs), and the file of contacts that the  *)
(* nodes of one machine share (config_handler.rs).                         *)
(*                                                                         *)
(* Each file is emptied and then written; a process may end at any time,   *)
(* by a crash or by one of the errors that make it exit, and be started    *)
(* again by its operator.                                                  *)
(***************************************************************************)
EXTENDS Naturals

CONSTANTS
  Node,       \* the nodes of the machine, each with a root directory
  First,      \* those started with --first
  Name,       \* network keys, numbers from 1
  MaxKey,     \* how many reward key pairs are generated
  MaxEnd      \* MaxEnd[n]: how often the process of n ends on its way

ASSUME StartAssumption ==
  /\ First \subseteq Node /\ Name \subseteq Nat \ {0} /\ MaxKey \in Nat
  /\ MaxEnd \in [Node -> Nat]

VARIABLES
  at,          \* at[n]: where in run_node the process is, or "off"
  secret,      \* secret[n]: the file reward_secret_key
  public,      \* public[n]: the file reward_public_key
  network,     \* network[n]: the file network_keypair
  reward,      \* reward[n]: the reward key of the process
  name,        \* name[n]: its network key, 0 if it has none yet
  registered,  \* registered[n]: reward keys sent to the section
  torn,        \* those whose root directory was removed only in part
  contacts,    \* the shared file of contacts
  seen,        \* seen[n]: what n is about to write there
  raced,       \* those whose entry another process may have missed
  keys,        \* the number of reward key pairs generated
  ends         \* ends[n]: how often the process ended

vars == <<at, secret, public, network, reward, name, registered, torn,
          contacts, seen, raced, keys, ends>>

disk == <<secret, public, network>>

memory == <<reward, name>>

shared == <<contacts, seen, raced>>

File(content) == [state : {"none", "part"}] \cup [state : {"whole"}, key : content]

None == [state |-> "none"]

Part == [state |-> "part"]

Whole(key) == [state |-> "whole", key |-> key]

Key == 1..MaxKey

Place == {"off", "reward", "secret", "writing secret", "public", "writing public",
          "network", "routing", "sleep", "store", "writing network", "register",
          "connect", "contacts", "writing contacts", "run", "run unlisted"}

TypeOK ==
  /\ at \in [Node -> Place]
  /\ {secret, public} \subseteq [Node -> File(Key)]
  /\ network \in [Node -> File(Name)]
  /\ reward \in [Node -> Key \cup {0}]
  /\ name \in [Node -> Name \cup {0}]
  /\ registered \in [Node -> SUBSET Key]
  /\ {torn, raced} \subseteq SUBSET Node
  /\ contacts \in File(SUBSET Node)
  /\ seen \in [Node -> SUBSET Node]
  /\ keys \in 0..MaxKey
  /\ ends \in [Node -> Nat] /\ \A n \in Node : ends[n] <= MaxEnd[n]

Init ==
  /\ at = [n \in Node |-> "off"]
  /\ secret = [n \in Node |-> None]
  /\ public = [n \in Node |-> None]
  /\ network = [n \in Node |-> None]
  /\ reward = [n \in Node |-> 0]
  /\ name = [n \in Node |-> 0]
  /\ registered = [n \in Node |-> {}]
  /\ torn = {} /\ raced = {}
  /\ contacts = None
  /\ seen = [n \in Node |-> {}]
  /\ keys = 0
  /\ ends = [n \in Node |-> 0]

Go(n, from, to) == at[n] = from /\ at' = [at EXCEPT ![n] = to]

-----------------------------------------------------------------------------
(* Config::new *)

Start(n) ==
  /\ Go(n, "off", "reward")
  /\ UNCHANGED <<disk, memory, registered, torn, shared, keys, ends>>

\* clear_data_from_disk: the operator gives up the keys of this directory.
StartCleared(n) ==
  /\ Go(n, "off", "reward")
  /\ secret' = [secret EXCEPT ![n] = None]
  /\ public' = [public EXCEPT ![n] = None]
  /\ network' = [network EXCEPT ![n] = None]
  /\ registered' = [registered EXCEPT ![n] = {}]
  /\ torn' = torn \ {n}
  /\ UNCHANGED <<memory, shared, keys, ends>>

\* Removing the directory fails after some of the files; it is only logged.
StartHalfCleared(n) ==
  /\ Go(n, "off", "reward")
  /\ secret' \in {secret, [secret EXCEPT ![n] = None]}
  /\ public' \in {public, [public EXCEPT ![n] = None]}
  /\ network' \in {network, [network EXCEPT ![n] = None]}
  /\ torn' = torn \cup {n}
  /\ UNCHANGED <<memory, registered, shared, keys, ends>>

-----------------------------------------------------------------------------
(* Node::new *)

\* get_reward_pk and get_network_keypair: a file that cannot be decoded is an
\* error, and the process exits.
CannotDecode(n) ==
  /\ \/ at[n] = "reward" /\ public[n].state = "part"
     \/ at[n] = "network" /\ network[n].state = "part"
  /\ Go(n, at[n], "off")
  /\ UNCHANGED <<disk, memory, registered, torn, shared, keys, ends>>

ReadReward(n) ==
  /\ public[n].state = "whole"
  /\ Go(n, "reward", "network")
  /\ reward' = [reward EXCEPT ![n] = public[n].key]
  /\ UNCHANGED <<disk, name, registered, torn, shared, keys, ends>>

NewReward(n) ==
  /\ public[n].state = "none"
  /\ Go(n, "reward", "secret")
  /\ keys < MaxKey
  /\ keys' = keys + 1
  /\ reward' = [reward EXCEPT ![n] = keys']
  /\ UNCHANGED <<disk, name, registered, torn, shared, ends>>

\* Faulty variant of StoreReward: the public key is written first.
StoreRewardPublicFirst(n) ==
  /\ \/ /\ Go(n, "secret", "writing public")
        /\ public' = [public EXCEPT ![n] = Part]
        /\ UNCHANGED secret
     \/ /\ Go(n, "writing public", "public")
        /\ public' = [public EXCEPT ![n] = Whole(reward[n])]
        /\ UNCHANGED secret
     \/ /\ Go(n, "public", "writing secret")
        /\ secret' = [secret EXCEPT ![n] = Part]
        /\ UNCHANGED public
     \/ /\ Go(n, "writing secret", "network")
        /\ secret' = [secret EXCEPT ![n] = Whole(reward[n])]
        /\ UNCHANGED public
  /\ UNCHANGED <<network, memory, registered, torn, shared, keys, ends>>

\* store_new_reward_keypair.
StoreReward(n) ==
  /\ \/ /\ Go(n, "secret", "writing secret")
        /\ secret' = [secret EXCEPT ![n] = Part]
        /\ UNCHANGED public
     \/ /\ Go(n, "writing secret", "public")
        /\ secret' = [secret EXCEPT ![n] = Whole(reward[n])]
        /\ UNCHANGED public
     \/ /\ Go(n, "public", "writing public")
        /\ public' = [public EXCEPT ![n] = Part]
        /\ UNCHANGED secret
     \/ /\ Go(n, "writing public", "network")
        /\ public' = [public EXCEPT ![n] = Whole(reward[n])]
        /\ UNCHANGED secret
  /\ UNCHANGED <<network, memory, registered, torn, shared, keys, ends>>

ReadNetwork(n) ==
  /\ network[n].state # "part"
  /\ Go(n, "network", "routing")
  /\ name' = [name EXCEPT ![n] = IF network[n].state = "whole" THEN network[n].key ELSE 0]
  /\ UNCHANGED <<disk, reward, registered, torn, shared, keys, ends>>

\* Routing lets the node join with its key ...
Join(n) ==
  /\ name[n] # 0
  /\ Go(n, "routing", "store")
  /\ UNCHANGED <<disk, memory, registered, torn, shared, keys, ends>>

\* ... or has it take another one.
JoinRenamed(n) ==
  /\ Go(n, "routing", "store")
  /\ \E key \in Name : name' = [name EXCEPT ![n] = key]
  /\ UNCHANGED <<disk, reward, registered, torn, shared, keys, ends>>

\* Routing answers TryJoinLater, and run_node sleeps.
TryJoinLater(n) ==
  /\ Go(n, "routing", "sleep")
  /\ UNCHANGED <<disk, memory, registered, torn, shared, keys, ends>>

\* Faulty variant of Retry: what follows the sleep is the same attempt.
RetryNothing(n) ==
  /\ Go(n, "sleep", "sleep")
  /\ UNCHANGED <<disk, memory, registered, torn, shared, keys, ends>>

\* The loop of run_node: Node::new once more.
Retry(n) ==
  /\ Go(n, "sleep", "reward")
  /\ UNCHANGED <<disk, memory, registered, torn, shared, keys, ends>>

\* store_network_keypair.
StoreNetwork(n) ==
  /\ \/ /\ Go(n, "store", "writing network")
        /\ network' = [network EXCEPT ![n] = Part]
     \/ /\ Go(n, "writing network", "register")
        /\ network' = [network EXCEPT ![n] = Whole(name[n])]
  /\ UNCHANGED <<secret, public, memory, registered, torn, shared, keys, ends>>

\* Chunks::new succeeds and register_wallet is sent.
RegisterWallet(n) ==
  /\ Go(n, "register", "connect")
  /\ registered' = [registered EXCEPT ![n] = @ \cup {reward[n]}]
  /\ UNCHANGED <<disk, memory, torn, shared, keys, ends>>

-----------------------------------------------------------------------------
(* The contacts *)

Running == {n \in Node : at[n] = "run"}

Writers == {n \in Node : at[n] \in {"contacts", "writing contacts"}}

\* Faulty variant of ReadContacts: the node does not keep what it read.
ReadNoContacts(n) ==
  /\ n \notin First /\ contacts.state = "whole"
  /\ Go(n, "connect", "contacts")
  /\ seen' = [seen EXCEPT ![n] = {n}]
  /\ UNCHANGED <<disk, memory, registered, torn, contacts, raced, keys, ends>>

\* The reading half of add_connection_info, of a file that is there.
ReadContacts(n) ==
  /\ n \notin First /\ contacts.state = "whole"
  /\ Go(n, "connect", "contacts")
  /\ seen' = [seen EXCEPT ![n] = {n} \cup contacts.key]
  /\ UNCHANGED <<disk, memory, registered, torn, contacts, raced, keys, ends>>

\* set_connection_info, or add_connection_info when the file cannot be read: it
\* is not there, is there in part, or cannot be opened.
BeginContacts(n) ==
  /\ Go(n, "connect", "contacts")
  /\ seen' = [seen EXCEPT ![n] = {n}]
  /\ raced' = raced \cup Running
  /\ UNCHANGED <<disk, memory, registered, torn, contacts, keys, ends>>

\* write_file.
WriteContacts(n) ==
  /\ \/ /\ Go(n, "contacts", "writing contacts")
        /\ contacts' = Part
        /\ UNCHANGED raced
     \/ /\ Go(n, "writing contacts", "run")
        /\ contacts' = Whole(seen[n])
        /\ raced' = IF Writers \ {n} = {} THEN raced \ {n} ELSE raced \cup {n}
  /\ UNCHANGED <<disk, memory, registered, torn, seen, keys, ends>>

\* An error with the file is logged, and the node runs.
ContactsFail(n) ==
  /\ at[n] \in {"contacts", "writing contacts"}
  /\ Go(n, at[n], "run unlisted")
  /\ UNCHANGED <<disk, memory, registered, torn, shared, keys, ends>>

-----------------------------------------------------------------------------
\* The process ends: any other error of Node::new (a timeout in Network::new
\* among them), the end of node.run, or a crash.
End(n) ==
  /\ ends[n] < MaxEnd[n]
  /\ ends' = [ends EXCEPT ![n] = @ + 1]
  /\ at[n] # "off"
  /\ at' = [at EXCEPT ![n] = "off"]
  /\ UNCHANGED <<disk, memory, registered, torn, shared, keys>>

Step(n) ==
  \/ CannotDecode(n) \/ ReadReward(n) \/ NewReward(n) \/ StoreReward(n)
  \/ ReadNetwork(n) \/ StoreNetwork(n) \/ RegisterWallet(n)
  \/ Retry(n) \/ ReadContacts(n) \/ BeginContacts(n) \/ WriteContacts(n)

Next ==
  \E n \in Node :
    \/ Start(n) \/ StartCleared(n) \/ StartHalfCleared(n)
    \/ Step(n) \/ Join(n) \/ JoinRenamed(n) \/ TryJoinLater(n)
    \/ ContactsFail(n) \/ End(n)

Spec == Init /\ [][Next]_vars

\* The process goes on while it can, and a network that is asked again and
\* again takes the node in at some time.
Fairness ==
  \A n \in Node : WF_vars(Step(n)) /\ SF_vars(Join(n) \/ JoinRenamed(n))

FairSpec == Spec /\ Fairness

-----------------------------------------------------------------------------
\* The node can spend what it is paid: the secret key of every reward key that
\* was sent to the section is on disk, wherever the process ended and however
\* often it was started (the secret key is written before the public key, and
\* only the public key is read back); a directory removed in part excepted.
RegisteredHasSecret ==
  \A n \in Node \ torn : \A key \in registered[n] : secret[n] = Whole(key)

\* A node that is told to try later tries until it has joined, or ends with
\* another error.
RetryUntilJoined ==
  \A n \in Node : at[n] = "sleep" ~> at[n] \in {"run", "run unlisted", "off"}

\* Clients find a running node in the file of contacts, unless another process
\* was between reading and writing the file when the node wrote its entry, or
\* began a new one (--first, or a file that could not be read); what the others do
\* before and after, crashes included, keeps the entry (add_connection_info).
UnlistedWasRaced ==
  contacts.state = "whole" => Running \subseteq contacts.key \cup raced

\* "Writes connection info to file for use by clients (and joining nodes when
\* local network)." (add_connection_info): the nodes that wrote theirs are
\* listed there.  The code does not keep this when two of them write at once.
RunningIsListed ==
  contacts.state = "whole" =>
    Running \ First \subseteq contacts.key
=============================================================================
