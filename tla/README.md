# Verification of the node

TLA+ models of the storage and payment node in `src/`, checked with TLC on small
instances and, where it matters most, proved with TLAPS for every instance.
Paths below are relative to `src/src/`.

## The system

A node is an *adult* that stores chunks, or an *elder* of its section. The elders
keep the section's wallets, its small mutable data and the knowledge of which
adults hold which chunks. Routing (`sn_routing`) delivers messages and events,
`event_mapping/` turns them into duties, and `node/` runs the duties, most of
them in tasks of their own, so that handlers interleave at every `await`.

| part | source | state | module |
|---|---|---|---|
| AT2 replicas, payments | `transfers/` | a log of events per wallet | `WalletReplica`, `Replicas`, `Ledger` |
| db files of the wallets | `transfers/store.rs`, `transfers/replicas.rs`, `utils.rs` | files, open dbs, locks | `TransferFiles` |
| elder synchronisation | `node/member_churn.rs`, `node/interaction.rs`, duties in `node/handle.rs` | role, sync flag, db files | `ElderSync`, and in `NodeWallets` and `ElderStores` for their data |
| chunk stores, used space | `chunk_store/` | files, record of used space | `ChunkStore` |
| adult chunk storage | `chunks/` | a chunk store | `ChunkStore` |
| maps, sequences, registers | `metadata/*_storage.rs`, `metadata/elder_stores.rs`, `metadata/mod.rs` | the data of each elder | `ElderStores`; `ChunkStore` for the files |
| blob records, adult liveness, full adults | `metadata/blob_records.rs`, `metadata/adult_liveness.rs`, `metadata/adult_reader.rs`, `capacity/mod.rs` | open reads, owed answers, full adults | `BlobRecords`, `AdultReader` |
| chunk placement on churn | `node/role/adult_role.rs`, `metadata/blob_records.rs`, `capacity/mod.rs` | the chunks of each adult | `ChunkPlacement`, `AdultReader` |
| rewards | `section_funds/reward_*.rs` | stage of the process | `RewardCalc`, `RewardProcess` |
| node wallets | `section_funds/mod.rs`, `section_funds/reward_wallets.rs` | reward key per node | `NodeWallets` |
| section split | `node/split.rs` | none of its own | `RewardProcess`, `NodeWallets`, `TransferFiles`, each for its part |
| event loop | `node/mod.rs`, `node/handle.rs` | running tasks, lock of the stream | `EventLoop` |
| event mapping | `event_mapping/` | none, but it waits for a key | `EventLoop`, and with the actions it leads to |
| start, keys and contacts on disk | `bin/sn_node.rs`, `node/mod.rs`, `network.rs`, `state_db.rs`, `config_handler.rs` | key files, file of contacts | `NodeStart` |
| store cost, signing, encodings, logging, launching test networks | the rest | | see "Not modelled" |

`PROJECT.json` lists every part with its sources, and for every definition of
the modules the lines of code that it stands for.

## Modules and the code

**`WalletReplica`** is one wallet's log (`transfers/store.rs`) and the rules that
`sn_transfers` applies to it. That crate is outside the repository; its rules are
modelled from what `replicas.rs` asks of it, and are marked external.
A wallet has no other state: every operation loads it from its log.

**`Replicas`** is the section: `log[e][w]` is what elder `e` has stored for wallet
`w`. `Validate`, `Register` and `ReceivePropagated` are the three steps of a
transfer, `ProcessPayment` is the payment of a data write. Each is one step,
because the code holds the lock of the wallet's store from `load_wallet` to
`try_insert` (and the lock of all transfers during a payment). A payment stores
two events, and `CrashInPayment` stops between them. Messages are sets that
only grow: any of them may be lost, late, repeated or reordered. `register`
stores before it applies, so `Register` keeps the event when applying fails.
An elder that crashes comes back as an adult, not as an elder under that key.

**`Ledger`** is what a section promises: debits agreed in counter order and
covered by earlier credits, and each credit made once. `Replicas` implements it:
*agreed* are the transfers with a proof, *credited* those that some elder holds.

**`ElderSync`** follows one wallet at a node that is promoted, demoted and
promoted again. Every old elder pushes what it has; each push is a task that
reads the flag (`SynchState`), merges (`Merge`), and sets the flag
(`FinishSync`) or fails before that (`FailSync`), with other tasks in between.
`history` and `setup` are the functions of `Replicas` that make and merge a
history; `setup` may break off at any event, which ends the task. The db file
survives a demotion, the map of stores does not, and the tasks of the role that is
left go on, on their clone of it.

**`ChunkStore`** runs `put` and `delete` file operation by file operation: release the
old file's space, remove it, reserve space, write, give back. A fault may hit each
one: the operation fails, or the node stops and opens its stores again. The record of
used space is emptied and rewritten, so a fault in it leaves the old value, an empty
file (read as zero) or the new value (`Unwritten`). With a record that is torn, a node
does not start again. The users of a store differ in what they ask before they call it
(`try_store`, `store_for_replication`, `Create`, `Edit`, `Update`, `Delete`). Maps,
sequences and registers use theirs in the same way, so each of these names the code of
one of them.

**`AdultReader`** is "the closest adults", which elders (`BlobRecords`,
`ChunkPlacement`) and adults (`compute_holders`) work out for themselves.

**`BlobRecords`** is one elder's open reads: targets, successes, owed answers, full
adults. Any adult may answer any read, once more or without having been asked
(`Answer`), since the code does not look at who answers. `our_adults` and
`retain_members_only` are the two halves of the handling of `EldersChanged`, with the
wait for a lock in between.

**`ChunkPlacement`** is all adults of a section and what the elders, taken as
one, send them. `epochs` is the list of adults from change to change; each adult
handles each change (`AdultsChanged`) in a task of its own when it comes to it, in
any order. `reorganize_chunks` takes the lock of the chunks anew for each access, so
other tasks come in between: the chunks are read into `outbox`, those to be given up
are removed one by one (`remove_chunk`), and what is left to do then is to send them
(`SendToNodes`), a duty of its own. Reading the list of chunks and reading the
chunks is one step: a chunk that goes in between was sent by the task that
removed it, or deleted. An adult may fail to store what it is sent (`Refuse`), and
`SendToNodes` may reach only some of its targets: nobody tries again. `Faulty` are the
adults that left or failed so.

**`RewardCalc`** is the amount and its distribution. The payout loop is in closed
form: whole rounds, and a last round in which the youngest are paid first.

**`RewardProcess`** is how elders deal with the rewards of a split:
`begin_split_as_oldie` proposes, `AdoptProposal`, `AddProposal` and
`AdoptAccumulation` are the branches of the two handlers that send something. The
duties in `node/handle.rs` call the handlers on a clone of the process, so the stage
and the shares that a handler leaves behind are dropped: an elder stays in the stage
that the split put it in, answers every message from there, and none completes.
The branches for the later stages are never reached and not modelled. In this version
`begin_split_as_oldie` passes zero payments, so the process is not started at all; the
model starts it with what the method takes.
`SignedCreditsAgree`, at the end of the module, says that elders do not sign different
amounts for one node. It is among the properties of no run: the code does not keep
it, since a new elder signs every proposal it hears of, and two elders of old that
know different balances each get the share they lack.

**`EventLoop`** is the loop of `Node::run` and its tasks. A listener locks the event
stream, takes one event (`TakeEvent`) and maps it with the lock held; the mapping
of a change of elders polls routing for the new key (`MapEldersChanged`,
`PollAgain`). The loop takes finished tasks in any order (`HandleMapped`,
`HandleReturned`), starts the threads of the duty, and at `CheckLock` spawns
a listener if it finds the stream unlocked.

**`NodeWallets`** is the reward keys at an elder of old and at a newcomer. The duty
`SetNodeWallet` is two steps, reading the members and storing the key, because the
lock of the funds is awaited between them. The newcomer merges the wallets of a push
one by one and registers itself if it was not among them. A split pushes the
wallets to the sibling's elders and then drops those of the sibling's nodes.

**`ElderStores`** is the data of clients: a file per datum and elder with its edits,
their number, the last edit of each entry, the permissions and their version. `New`,
`Edit`, `Delete` and the permission commands have the checks of their storage and the
way it puts the datum back (with a delete before it, so that a failing put loses the
datum). What `mutate_entries` of a map accepts is `sn_data_types`' and external
(`EntriesFit`): an edit with number 1 inserts an entry, a later one updates it, and in a
sequenced map it has to come with the successor of the entry's version. Deletions of
entries are left out. `read` is all queries. The newcomer merges what an
elder of old pushed, maps and then sequences; registers are not in the push. The first
elders of a network are taken to be in sync without a push (`BecomeElder`).

**`NodeStart`** is `run_node` for all nodes of a machine, file operation by file
operation: the reward keys, the network key, joining with retries, registration,
and the file of contacts. A process may end at every step, and be started again with
its files, with a cleared directory, or with one that was cleared in part. A process
that cannot read the file of contacts, for whatever reason, begins a new one
(`BeginContacts`), as the first node does.

**`TransferFiles`** looks below the log of a wallet, which `Replicas` takes as one
atomic file: the shard lock of the map of stores, the lock of the store, the worker
threads that a blocked `entry` keeps, the second db that `or_insert`'s argument
opens, and the dump of a `PickleDb` when it is dropped. A load that fails writes an
empty db over the file (`LoadFails`). `level_up` and `LevelDown`
change the role while tasks of the old one run on.

The modules meet in shared code rather than in shared variables: `ElderSync`,
`NodeWallets` and `ElderStores` each have their part of one push and the flag
`received_initial_sync`; `BlobRecords` and `ChunkPlacement` share `AdultReader`,
`ElderSync` and `Replicas` share `WalletReplica`, and `Replicas` refines `Ledger`.

An operator whose comment begins with "Faulty variant of" is a plausible mistake
in the definition after it. It is in no behaviour; `PROJECT.json` ("mutants")
says which property catches it when it is put in that definition's place.

## What the runs check

| run | shows |
|---|---|
| `MCReplicas` | `OneTransferPerDebit`, `ReplicasAgree`, `DebitsInOrder`, `NoDoubleCredit`, `CreditIsBacked`, `OneWritePerPayment`, and `ImplementsLedger` |
| `MCReplicasLive` | `AgreedIsSettled`: an agreed debit ends up credited at a quorum |
| `MCElderSync` | `CopiesOnlyFromMerges`, `HistoryIsClean`, `SyncedHoldsAPush`; `DebitsHaveNoGap`: a debit is in the file only with every earlier one, though merges break off |
| `MCChunkStore` | `CountIsExact` without faults; `TotalIsBounded`, `StoredIsReadable` with them |
| `MCBlobRecords` | `PendingIsOwed`, `ProposedOwes`, `RetainForgetsTheGone`; `SuccessIsFinal`: after a success from a target the client is sent nothing more for the read |
| `MCChunkPlacement` | `NoChunkLost`, `ReadableWhenNotFull`, while fewer adults leave or fail than there are copies |
| `MCRewardProcess` | `AccumulationPaysOut`: what elders of one view accumulate is validly signed and adds up |
| `MCEventLoop` | `LoopNeverEnds`, `NoneOvertakesAMapping`, `KeyBeforeEldersChanged`; `EventsAreHandled`: every event is handled in the end, unless a mapping waits for a key that was replaced |
| `MCNodeWallets` | `StaleWalletHasACause`: why an elder may have the key of a node that left; `NewElderIsRegistered` |
| `MCElderStores` | `AcceptedIsRead`, `SyncedHoldsTheData`, `QueriesAgree`; `MapIsOneHistory`: each entry of a sequenced map has one edit per version, whatever pushes replace |
| `MCNodeStart` | `RegisteredHasSecret`, `UnlistedWasRaced`; `RetryUntilJoined` |
| `MCTransferFiles` | `WalletIsSerialised`, `LostWasAtRisk`; `TasksEnd`: no task is stuck unless every worker is |

All of them hold. `TypeOK` of `Replicas`, `ChunkStore`, `BlobRecords`, `EventLoop`,
`NodeWallets` and `ElderStores` is proved (`TypeCorrect`); that of `ChunkPlacement`,
`NodeStart` and `TransferFiles` is among the properties of no run, but it can be added
to their configurations, under which it holds.

Some properties name what they do not cover. `EventsAreHandled` leaves out a mapping
whose key was replaced, and `TasksEnd` the state in which every worker is blocked
(`Starved`); the code can reach both. `StaleWalletHasACause` leaves out keys that were
stored late, after routing had dropped their node, `AcceptedIsRead` edits that a push
replaced or a failing put lost, `UnlistedWasRaced` nodes that another process raced.
`TotalIsBounded` is about what is counted, which after a reopening is less than what
is on disk (`TotalIsConsumed`).

`CHECK_DEADLOCK` is off but in `MCEventLoop`: each of the other systems may stop,
when clients ask for nothing more or the bounds are used up. The event loop never
may.

## Where the code departs from its comments

For some comments the modules have a formula that says what the comment says and
that the code does not keep. Each stands at the end of its module, is among the
properties of no run, and has a counterexample when it is added to the
configuration named here.

| formula | configuration | comment | what the code does |
|---|---|---|---|
| `CreditNeedsNoOrder` | `MCReplicasLive` | "(Since this leads to a credit, there is no requirement on order.)", `transfers/replicas.rs:344` | `register` stores a debit before it applies it. An elder that has not heard of the covering credit cannot load the wallet from then on, and answers every credit with an error. |
| `SyncOnlyOnce` | `MCElderSync` | "We are already received the initial sync from our section. Ignoring update", `node/member_churn.rs:82` | The flag is read at the start and set at the end, with awaits in between: concurrent pushes are all merged. |
| `TotalIsConsumed` | `MCChunkStore` | "Total space consumed across all `ChunkStore`s, including this one", `chunk_store/used_space.rs:100` | A store that is opened again starts with a total of zero. |
| `OverwriteKeepsAChunk` | `MCChunkStore` | "If a chunk with the same id already exists, it will be overwritten.", `chunk_store/mod.rs:101` | `put` deletes the old version before it knows that the new one fits. |
| `TargetsHold` | `MCChunkPlacement` | "Returns `XorName`s of the target holders for an Blob chunk.", `capacity/mod.rs:133` | Adults that are full now are left out, although they may hold the chunk; reads and deletions use the result, too. |
| `LockedMeansListening` | `MCEventLoop` | "If the Mutex is locked, it means there is already a task running which is listening for routing events", `node/mod.rs:181` | The mapping of a change of elders waits for its key with the lock, and does not end if routing has replaced that key. |
| `LostMemberHasNoKey` | `MCNodeWallets` | "When the section becomes aware that a node has left, its reward key is removed.", `section_funds/reward_wallets.rs:81` | A registration whose node was found among the members before it left is stored after the loss was handled. |
| `MergeKeepsEdits` | `MCElderStores` | "merge in provided metadata", `node/member_churn.rs:96` | `update` puts the pushed datum over the stored one, with the edits that were accepted after the push was made. |
| `RunningIsListed` | `MCNodeStart` | "Writes connection info to file for use by clients (and joining nodes when local network).", `config_handler.rs:368` | The file is read and written without a lock: of two nodes that start together one may be missing. |
| `StoredIsOnDisk` | `MCTransferFiles` | "first store to disk", `transfers/replicas.rs:374` | A second db on the file, opened before and dropped after, writes what it loaded over it; the next write of the first db mends it, a crash does not. |
| `RemovedIsGone` | `MCTransferFiles` | "Removes keys that are no longer our section responsibility.", `transfers/replicas.rs:236` | The file is deleted before the db is dropped, and dropping it writes the file again. |

`UnlistedWasRaced`, `StaleWalletHasACause`, `LostWasAtRisk`, `EventsAreHandled`,
`ReadableWhenNotFull` and `TotalIsBounded`, which hold, say how far the code departs:
nothing but the overlap, the failing load, the fullness or the stuck wait that they
name is to blame.

## Bounds

- `MCReplicas`: three elders and majorities, the smallest section where a quorum is
  not everyone. Two conflicting first debits, one of them a payment with two
  possible writes, and a second debit: conflicts, gaps and double use of a proof
  all occur. One crash, at most what three elders tolerate.
- `MCReplicasLive`: a debit that needs two credits, so that
  an elder can hear of the debit after one of them only. No crash.
- `MCElderSync`: two old elders, since two concurrent pushes are what can go wrong;
  two promotions, for a file left over from the first; a credit and two debits that it
  covers, so that a merge that breaks off could leave a gap. The node is promoted again
  only when the tasks of its earlier time as elder are over.
- `MCChunkStore`: two chunks of size 1 or 2 and capacity 3, so that a put fits,
  fits exactly or does not; one fault at any step. The proofs lift the bounds.
- `MCBlobRecords`: two reads, three adults of which two are asked and one moves; no
  bound on the answers, since only what they change is kept. `MIN_PENDING_OPS` and the
  tolerance are scaled down: one read too many is enough to be proposed.
- `MCChunkPlacement`: one chunk (chunks do not interact), two copies, four adults, two
  changes, two adults that leave or fail (`MaxFaults`). With as many of them as there
  are copies chunks are lost, as they must be; the two properties are about fewer. After
  the last change nothing is deleted, and once the chunk is deleted nothing
  changes any more.
- `MCRewardProcess`: three elders, one of them new, two shares needed. The views reach
  each branch of the calculation: burnt payments, capped minting, a single nano,
  a last round that does not reach the oldest, a remainder within a bucket, a
  multiplier above one, nobody old enough. A view in `Disagree` may differ
  between the elders.
- `MCEventLoop`: four events, a promotion, two changes of elders and a client's
  request between them, with keys up to 3, so that a key can be late, on time and
  replaced. `SanityLimit` is 1 for the code's 240: only whether it is reached matters.
- `MCNodeWallets`: the newcomer and one node of the half that splits off; a node
  concerns no other one.
- `MCElderStores`: one elder of old and the newcomer, two stints, one failing
  operation. A behaviour has one of six workloads: a sequenced map with two competing
  edits, one with edits of two entries, an unsequenced map, a map's permissions, a map
  and a sequence (what a push holds), and a register beside a sequence. Requests on
  different data do not interact but in a push.
- `MCNodeStart`: the first node of a section, which ends up to twice on its way, and
  another one on the same machine. One network key, three reward keys.
- `MCTransferFiles`: two validations and two propagations on two workers, so that
  propagations can occupy all of them; two roles and one crash.

Symmetry is used for elders, old elders and chunk ids, which are
interchangeable in those runs, and in no run that checks liveness.

## Fairness

- `MCReplicasLive`: weak fairness of `Handle(e)` for each elder, that is, an elder
  that can go on handling validations, registrations or credits does so. The event
  loop takes up what routing delivers and its tasks take locks that are released;
  clients repeat a request until it is answered, and elders send credits to all of
  the recipient's elders. Nothing is assumed about payments, about crashes, or about
  the choice among transfers.
- `MCEventLoop`: weak fairness of each step of a listener and of the loop, since tokio
  runs every task that can run; strong fairness of handling a mapped event, since
  `FuturesUnordered` hands finished tasks out in the order they became ready. Weak
  fairness of `FinishDkg` is an assumption about routing, not about this code: a key
  generation that began ends, so routing learns the key of the next change of elders.
  Without it a mapping waits for ever. Routing need not emit another event, and the
  thread of a duty may run for ever.
- `MCNodeWallets`: weak fairness of the merge and of the handling of the newcomer's
  registration: threads run, and messages between elders arrive. Nothing is
  assumed about joins, losses and splits.
- `MCNodeStart`: weak fairness of the process's own steps, and strong fairness of
  joining: a network that is asked again and again lets the node in at some time.
- `MCTransferFiles`: strong fairness of each task: the store's lock is handed out in
  turn, and signatures arrive.

## Proofs

**`ReplicasProofs`**: for any elders, quorums that intersect, wallets and
transfers, the specification implies `TypeOK`, `OneTransferPerDebit`,
`ReplicasAgree`, `DebitsInOrder`, `NoDoubleCredit`, `CreditIsBacked` and
`OneWritePerPayment`. The assumptions are `SectionAssumption` (quorums are sets of
elders, any two of which meet) and `TransferAssumption` (types). None of the
properties is inductive: agreement rests on what elders have stored. `IInv` adds that
a share that left an elder is backed by its stored pending debit (`SharesStored`),
that a log holds one event per kind and identity (`NoRepeats`) and only events of its
wallet (`AtHome`), that registered debits are proven and in order (`Proven`,
`Ordered`), and credits backed (`Backed`). It is stated over any log and set of
shares; `InsertSound` shows once that storing a sound event keeps it, and each action
only shows that its events are sound. Two proofs for one debit then meet in an elder
that would have stored two pending debits under one identity. For `OneWritePerPayment`
`PaidOnce` adds that an elder forwards one write per payment, and only with the
debit of the payment registered; two quorums for two writes meet in an elder again.

**`ChunkStoreProofs`**: for any stores, chunks, sizes, capacity and number of faults,
the specification implies `TypeOK`, `TotalIsBounded` and `StoredIsReadable`, from
`StoreAssumption` (types, and chunks are not empty). `StoredIsReadable` is not
inductive: a put under way could be about a chunk that is stored. `OpsAreSound` adds
that a put into an immutable store is about a chunk that is not, which its callers
ask first, and that a file to be removed is there.

**`BlobRecordsProofs`**: for any finite sets of adults and reads, and distances that
differ (`DistanceAssumption`), `TypeOK` and all four properties. `RecordsInv` adds that
a read has at most `CHUNK_COPY_COUNT` targets (`TargetsOK`), and that the success of a
target is noted and leaves fewer than that many (`ServedOK`). The bound
on the targets is a fact about `ClosestTo`: the number of closer adults is a rank
that tells the chosen ones apart, and lies below the count (`CloserHasLowerRank`,
`ClosestIsSmall`). It is what makes a read stop before another success can come.

**`EventLoopProofs`**: for any sequence of events and keys and any limit of polls,
`TypeOK`, `LoopNeverEnds`, `NoneOvertakesAMapping` and `KeyBeforeEldersChanged`.
`LoopInv` adds what the last one says of events that are mapped but not yet
handled, and that a listener that maps has taken an event.

**`NodeWalletsProofs`**: for any nodes and any half of them that stays, `TypeOK` and
`StaleWalletHasACause`. `WalletInv` adds that who is no elder has no wallets, no
registration half done and no merge under way, and that a promotion by the split
comes after the split.

**`ElderStoresProofs`**: for any data, clients, requests and elders of old, `TypeOK`,
`AcceptedIsRead`, `MapIsOneHistory` and `SyncedHoldsTheData`. `DataInv` adds that a file
or a pushed datum that is not whole has no content and that both are one history
(`Content`), and that a task which has put a push left every datum of it in place, unless
it was deleted since (`Synced`). `WrittenHistory` shows that an accepted edit continues
the history of its entry; pushes and failing puts replace or drop histories as a whole.

**`NodeStartProofs`**: for any nodes, starts and ends of their processes,
`RegisteredHasSecret` and `UnlistedWasRaced`. `KeyInv` relates the two key files to the
place in the program: the public key is written last and is read back alone, so
a readable one vouches for the secret. `ListInv` relates what a process has read
of the file of contacts to what the file holds when it is written.

**`TransferFilesProofs`**: for any tasks, workers, roles and crashes,
`WalletIsSerialised` and `LostWasAtRisk`. `FilesInv` adds that every db that may yet
be dumped over the file, a task's spare one included, has all events but those
at risk (`Complete`), and that the db of a role stays in the map for
as long as its tasks may ask for it (`Held`, `Kept`).

Only model-checked:

- liveness (`AgreedIsSettled`, `EventsAreHandled`, `NewElderIsRegistered`,
  `RetryUntilJoined`, `TasksEnd`), which is out of the prover's reach;
- `CountIsExact`, `ImplementsLedger` and `AccumulationPaysOut`, and the properties of
  `ElderSync`, which need induction over sums or sequences;
- `QueriesAgree`, `NoChunkLost` and `ReadableWhenNotFull`.

## Limits of the models

- One section key: a change of the key between the steps of a transfer is not
  modelled, nor is the caching of replica keys.
- Signatures are what they sign; shares of different contents combine to nothing.
  `receive_propagated` does not check under which section key a credit was signed (a
  TODO at `transfers/replicas.rs:361`), and with one key the model cannot tell.
- Each `ChunkStore` has its own `UsedSpace` with the node's whole capacity, so the
  stores of a node together may exceed it; the models follow the code in this.
- A partial file counts as stored for `has`; a chunk whose write failed is refused
  as a duplicate afterwards. `StoredIsReadable` is about completed writes.
- `Replicas` and `ElderSync` take a wallet's log as one atomic file, which
  `LostWasAtRisk` justifies but for a second db on the file and loads that fail.
- `TransferFiles` leaves out `merge` and `initiate`, which hold the lock of all
  transfers, and tasks that were spawned before a split and start after it.
- `ElderStores`: the merges of one time as elder have ended when the node is promoted
  again. The contents of maps, sequences and registers are the sets of edits that
  reached them; how the edits are merged is `sn_data_types`' affair.
- `RegisteredHasSecret` leaves out nodes whose directory was removed in part. A public
  key that is torn makes every later start fail, as in the code.
- A chunk that arrives after its new holders were worked out stays where it is until
  the next change; `hurried` marks it, and `ReadableWhenNotFull` leaves it out.
- A message about rewards that comes before an elder knows of the split changes
  nothing, as in the code.
- Rewards are below 2^64 nanos; ages from 64 on, for which the work overflows, are
  not considered.

## Not modelled

- `capacity/store_cost.rs`, and `check_storage` of adults: floating point arithmetic
  on counters, with no state of its own.
- `transfers/replica_signing.rs`, `transfers/get_replicas.rs`, `node_ops.rs`,
  `to_db_key.rs`: signing by a library, declarations and encodings.
- The change of the section key (`update_replica_info`): what happens to shares under
  the old key is decided in `sn_transfers` and `sn_routing`.
- Republication of chunks (`republish_chunk`, `ProcessRepublish`): no node sends the
  message that asks for it. It would send the chunk to the holders that
  `ChunkPlacement` computes.
- The fields of the configuration, logging, `chaos.rs`, updates of the binary, and
  `launch_network`, which starts processes for tests.
