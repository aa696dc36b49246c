# A TLA+ verification of the tracing go-ethereum node

The repository is a full Ethereum node, `src/go-ethereum` (go-ethereum 1.10.26), changed in
one respect: the package `mgologger` logs every call, create, opcode and native transfer of
every transaction the node executes and stores one MongoDB document per transaction.
`src/pyanalyze` reads the documents back. This directory models the parts of the node whose
correctness depends on the order of steps, checks the models with TLC on small instances and
proves the most important facts about fourteen of them for all instances with TLAPS.

1. [What the system is made of](#1-what-the-system-is-made-of)
2. [The modules](#2-the-modules)
3. [The runs](#3-the-runs)
4. [Bounds, and why they are enough](#4-bounds-and-why-they-are-enough)
5. [Fairness](#5-fairness)
6. [What is proved](#6-what-is-proved)
7. [Where code and documentation disagree](#7-where-code-and-documentation-disagree)
8. [What is not modelled](#8-what-is-not-modelled)
9. [Plan](#9-plan)

To check a model, `tlc -config X.cfg MCModule`; to check the proofs, `tlapm CallTraceProofs.tla`,
and the same for `StateJournalProofs`, `BlockChainProofs`, `StorageProofs`, `DownloadQueueProofs`, `NetworkProofs`,
`TransactionsProofs` and `SnapProofs`.
`PROJECT.json` names for every definition the lines it models. Definitions marked `mutant`
are not part of a model: each is a wrong version of the definition that follows it, kept to
show that a property notices the mistake.

## 1. What the system is made of

Paths are relative to `src/go-ethereum` unless they start with `src/`.

| Component | State | Operations | Hard behaviour | What makes it correct | Model |
|---|---|---|---|---|---|
| Call and opcode tracer (`mgologger`, hooks in `core/vm`, `core/state_processor.go`) | package-level buffers, `TraceIndex`, `CallStack`, `CallIndex` of each EVM | `InitTrace`, the three `Add...Log`, `WriteEntry` | one set of buffers for every EVM of the process; counters that are and are not restored on return; depth limit | a row names the calls it was made in; a document holds one transaction | `CallTrace` |
| Journaled state (`core/state`) | state objects with three caches of storage, journal with dirty counts, revisions, destructed accounts, trie, snapshot maps | getters and setters, `Snapshot`, `RevertToSnapshot`, `Finalise`, `IntermediateRoot`, `Commit`, `Copy` | deletion and re-creation in one block, reverts over both, the RIPEMD touch | a getter returns the last write, a revert restores everything, trie and snapshot layer agree | `WorldState`, `StateJournal` |
| Block store and canonical chain (`core/blockchain.go`, `headerchain.go`, `forkchoice.go`) | blocks, receipts, canonical hashes, lookups and markers on disk; states in memory and on disk; `chainmu` | `InsertChain`, `WriteBlockAndSetHead`, `InsertBlockWithoutSetHead`, `SetCanonical`, `SetHead`, `Stop`, `NewBlockChain` | several batches per operation, kill between any two, pruned states, side chains stored unexecuted, checks made before the lock | the markers name one executed chain, indices follow it, states can be found again | `BlockChain` |
| Engine API, miner, eth handler (`eth/catalyst`, `miner`, `eth/handler.go`) | queues of payloads and headers, invalid ancestors; sealing tasks; peers | `NewPayload`, `ForkchoiceUpdated`; `resultLoop`; gossip | check and lock apart; three sources of blocks | see block store | their writes to the chain are actions of `BlockChain` |
| Download queue and fetchers (`eth/downloader/queue.go`, `resultstore.go`, `fetchers_concurrent.go`) | task pools and queues, pend pools, window of results, wake channels, requests of each fetcher | `Schedule`, `Reserve...`, `Deliver...`, `Expire...`, `Revoke`, `Results`, `Close` | five goroutines, peers that leave, time-outs racing answers, a condition variable, back-pressure | every part in one place, whole blocks in order, the sync ends | `DownloadQueue` |
| Downloader and skeleton sync (`downloader.go`, `skeleton.go`, `beaconsync.go`) | mode, pivot, cancel channel; subchains of headers persisted in the database | `synchronise`, `findAncestor`, `fetchHeaders`, `processHeaders`, `processSnapSyncContent`, `initSync`, `processResponse`, ... | goroutines that move one pivot; restarts in the middle of a fill, subchains that meet | the head is whole and nobody is blamed; subchains name whole chains; the ancestor is shared and near | `DownloadQueue` (its frame), `PivotSync`, `Ancestor`, `Skeleton` |
| Transaction pool (`core/tx_pool.go`) | pending and queued lists by account, virtual nonces, price heap, journal file | `AddRemotes`, `AddLocals`, `reset`, `promoteExecutables`, `demoteUnexecutables`, `truncate...` | requests of resets merged while one is running; limits | pending nonces are contiguous and executable | `TxPool` |
| Snapshot tree (`core/state/snapshot`) | disk layer, diff layers, generator, journal | `Update`, `Cap`, `flatten`, `Rebuild`, generation | flattening under readers, generator beside writers, kills | a layer answers like its trie or says it is stale | `SnapshotTree` |
| Trie node database (`trie/database.go`) | reference counts, cached nodes, flush list | `insert`, `Reference`, `Dereference`, `Cap`, `Commit` | nodes shared by roots; commits in batches; kills | no referenced node is lost, a root on disk is a whole state | `TrieDatabase` |
| State sync (`eth/protocols/snap`, `trie/sync.go`) | ranges of accounts, requests, the healer's walk | `assign...Tasks`, `On...`, `process...Response`, `revert...`, `saveSyncStatus` | partial answers, a pivot that moves, stops and kills | a synced state is whole; nothing missing is forgotten | `SnapSync` |
| Announcement fetchers (`eth/fetcher`) | stages of announced hashes by peer | `Notify`, `Enqueue`, `FilterHeaders`, `FilterBodies`, timers | late answers, peers that drop | a hash is in one stage and is fetched as long as someone has it | `TxFetcher`, `BlockFetcher` |
| Clique (`consensus/clique`) | votes, signers, recents | `snapshot`, `apply`, `verifySeal`, `Prepare`, `Seal` | removal discards votes and shrinks the window; one rule written three times on unsigned integers | signers as the votes say, none signs twice in a window, all nodes agree | `Clique` |
| Beacon and ethash engines | none that matters here | `VerifyHeaders`, `Seal` | order of results around the transition | | not modelled |
| Chain indexer, bloom bits | sections stored, heads of sections | `newHead`, `processSection` | processing outside the lock during reorgs | a stored section belongs to the chain | `ChainIndexer` |
| Database schema and freezer (`core/rawdb`) | append-only tables over files of bounded size | `freeze`, `ModifyAncients`, `TruncateHead`, repair | power loss between files, failed batches, rewinds | tables of one length after repair, every block whole somewhere | `Freezer` |
| Virtual machine (`core/vm`, `core/state_transition.go`) | frames, gas, memory | opcodes, calls, precompiles | depth, static mode, reverts | | the call structure in `CallTrace` |
| Event feeds (`event`) | inbox, send cases | `Subscribe`, `Send`, `Unsubscribe` | subscribers that come and go during a send | one delivery each, in order | `Feed` |
| Peer-to-peer server (`p2p`) | peers, dial tasks, static pool, slots | `run` with its two checkpoints, `dialScheduler.loop`, `RemovePeer` | peers that come, go and become trusted between two checkpoints | counts and slots are exact, a static node can always be dialled again | `PeerServer` |
| Node discovery (`p2p/discover`) | routing table | lookups, revalidation | timers, churn | | not modelled |
| RPC, node, public API, filters, light client and server, key stores | connections, subscriptions, flow control buffers | | | | not modelled |
| Commands, encodings, cryptography, metrics, scripts, `src/pyanalyze` | | | | | not modelled |

How they interact. Blocks come to the chain from the downloader (`InsertChain`), from gossip,
from the miner (`WriteBlockAndSetHead`) and from a consensus client through the engine API
(`InsertBlockWithoutSetHead`, `SetCanonical`); `chainmu` serialises them, nothing orders them.
The chain executes a block on a `StateDB`, which runs the EVM, which calls the tracer; the
state goes to the trie database and the snapshot tree, the rest to the database, from which
the freezer takes what is old. Changes of the head are sent through feeds to the transaction
pool, the miner, the indexers and the handlers. Peers come through the peer-to-peer server and
are registered with the downloader, the skeleton, the state sync and the fetchers by their
protocol handlers; fetchers and handlers meet in unbuffered channels.

## 2. The modules

What a block does when it is executed:

**CallTrace** (constants: the EVMs of the process, which prefetch, which belong to block
processing). `TraceIndex`, `CallStack` and the three logs are the package variables, `Depth`
and `CallIndex` the fields of each EVM. `StartTx`/`FinishTx` are the two ends of
`applyTransaction`, `EnterCall`/`ReturnCall` the halves of `Call`, `CallCode`,
`DelegateCall`, `StaticCall` and `create` around `interpreter.Run`, `ExecOp` and
`CallPrecompile` what enters no frame. A row of a log has ghost fields (the transaction, the
ordinal of the call, the chain of open calls) that say what really produced it; the
properties compare them with what the row prints. `CallTraceProofs` holds its theorems.

**WorldState** is what `StateDB` promises: a map from addresses to accounts, a stack of
copies, an end of transaction. **StateJournal** is how it is kept: objects with `origin`,
`pending` and `dirty` storage, the journal with its dirty counts, `snapDestructs`,
`snapAccounts`, `snapStorage`. One action per operation the EVM uses; `revert` is a step per
journal entry; `EndTx` is `Finalise` (and `IntermediateRoot` before Byzantium), `Commit` ends
the block and opens the next one's `StateDB` on what it wrote. `KeepsPromise` is the
refinement: `INSTANCE WorldState WITH world <- ...`, where `world` is what the getters return,
or, inside a revert, what it must reach. `StateJournalProofs` holds its theorems, the refinement among them.

The chain and what lies under it:

**BlockChain** (constants: a tree of blocks with difficulties, roots, transactions, and which
of them fail). `stored`, `receipts`, `canon`, `lookup`, `head` and `flushed` are the database;
`refs` the states `triegc` keeps alive; `op` the operation that holds `chainmu`, where it is and
what it has still to do. Every database batch is a step. `Trim`, `Import...`, `Side...`,
`Recover...`, `Reorg...`, `Rewind...` are the stretches of `insertChain`, `insertSideChain`,
`recoverAncestors`, `reorg` and `SetHead` between two writes; `Crash` may come between any
two, `Restart` is `NewBlockChain` with its repair. A known block that should be the head is executed once more
(`ExecuteKnown`, place "again"): the loop of `insertChain` that would only make it the head is never reached (section 7).
`NewPayload` remembers that a block is new before it waits for the lock, `InsertPayload` has it. `BlockChainProofs` holds its theorems.

**TrieDatabase** (constants: nodes with the hashes inside them, the storage roots of account
nodes). `dirties`, `parents`, `children`, `rooted` and `list` are the cache of `trie.Database`;
an insertion, a link of an account to its storage, every node `Cap` and `Commit` write, every
node `dereference` drops is a step; `users` are the blocks in `triegc`. `StorageProofs` holds
its theorems.

**SnapshotTree** (constants: a tree of states, what each changes). `objs` are the layers a
reader may still hold, `layers` the map of the tree, `disk` the database with the flat state, the
generator's entry and the journal. `Commit` is `Update` with `Cap`, `Generate` a key of the
generator, `CleanStop`, `Kill` and `Start` the journal; a kill may tear the flush of a layer.

**Freezer** (constants: tables, the size of a file, blocks and versions of them). A table has an
index, files and the fields `items`, `headId` and `headBytes`; what is synced is remembered beside
what is written. Rounds of `freeze` (copy, sync, truncate, delete), `writeAncient` of a snap sync,
rewinds and failing batches; `PowerLoss` takes an unsynced end of each file, `Repair` is
`NewFreezer`. Files that are closed before a sync, batches that leave half of what they wrote and rewinds
in the middle of a round are what the code makes of them; `spoilt`, which is not in the code, remembers the blocks this is known to
cost (section 7).

**SnapSync** (constants: the states at the pivots). `tasks` are the ranges of accounts with what is
asked for and still missing, `healer` the walk of `trie/sync.go`, `stored` the nodes and codes on disk.
Nodes are sets of leaves, so a stack trie is a function of what went into it; a range without its
neighbours writes what its boundary allows. Answers come whole or in part, in any order. `SnapProofs` holds its theorem.

**ChainIndexer** (constants: a tree of headers). `canon` are the canonical hashes, `move` the reorg or rewind that writes them
one at a time and deletes the stale ones after, which a kill may cut short. `x` are the two indexers with their sections, heads
and cascaded heads; processing a section takes a step for each header, without the lock, and every look at a canonical hash is
one at `canon`. `StorageProofs` holds its theorems.

Where transactions and peers come from:

**TxPool** (constants: transactions with nonce, price and cost; blocks with balances). `pool` is
what `pool.mu` protects, an operation under it one step, whose loops are functions on the turns
(`PromoteExecutables`, `DemoteUnexecutables`, `TruncatePending`, ...); `run`, `reset`, `dirty`, `launch` are `scheduleReorgLoop`.
`torn` is not in the code: it remembers the accounts whose pending list a reset left with a gap, because a transaction that is
mined no more could not be taken back (section 7). `TransactionsProofs` holds its theorems.

**TxFetcher** (constants: hashes and peers). `f` is the struct: `waitlist`, `announced`, `fetching`,
`requests`, `alternates`. Messages, time-outs, deliveries and drops reach the loop as actions; the two
timers may fire whenever they are armed. `TransactionsProofs` holds its theorem too. **BlockFetcher** is its older sibling for blocks, with headers
and bodies asked for apart and the import queue; in light mode it stops at headers. `NetworkProofs` holds its theorem.

**Feed** is `event.Feed`: one `Send` walks `sendCases`, swaps and shrinks; `Unsubscribe` reaches into it.
`NetworkProofs` holds its theorem.
**PeerServer** is `Server.run` with the checkpoints after each handshake, `dialScheduler`, the life of a
`Peer` and `RemovePeer`. `NetworkProofs` holds its theorem.

How a node catches up:

**DownloadQueue** (constants: which headers have an empty body or no receipts, the peers and
their capacities, the window). `pool`, `tasks`, `pend` are the task pools, task queues and
pend pools of both kinds; `slots`, `outstanding`, `offset`, `counted`, `threshold` the result
store; `fetch`, `pending`, `stale`, `finished` the locals of the two `concurrentFetch`
loops; `wake` and `events` their channels. An operation under `q.lock` is one step, in closed
form: `Reserve` says which headers `reserveHeaders` pops, skips, finds done and asks for,
`Deliver` how much of an answer is used. Each case of the select is an action that ends with
the head of the loop (`Loop`), which decides whether the fetcher ends, waits or turns to the
idle peers. `Schedule`, `HeadersWake`, `HeadersEnd` and `HeadersTell` are `processHeaders`,
`ResultsSleep`, `ResultsTake` and `ResultsReturn` `Results` with the importer behind it,
`CloseQueue` and `Cancel` `spawnSync`; `LeavePeer` and `Revoke` the two halves of
`UnregisterPeer`. `DownloadQueueProofs` holds its theorems.

**PivotSync** is a snap sync seen from above: `fetcher` (`fetchHeaders` or `fetchBeaconHeaders`),
`processor` (`processHeaders` with its rollback), `content` (`processSnapSyncContent`) and the pivot
they share; the queue is a counter there and the state sync a root. What `processSnapSyncContent` does with its results is a step
for each thing others can see: the pivot in memory and on disk, the headers looked for, the bodies written, the marker moved under the
lock, and the two halves of `SnapSyncCommitHead`; the rollback's `SetHead` may come between any two. **Ancestor** is the arithmetic of
`findAncestor` and `findBeaconAncestor` with the numbers of the code; `DownloadQueueProofs` holds its theorem. **Skeleton** is the sync under a
head told by the consensus client: `hdr` and `chains` are its database, `sk` the loop with its scratch
space, `filler` the backfiller.

**Clique** (constants: addresses, the first signers, the epoch). `snap` is the voting snapshot at the
head, `light` that of a node which starts from a checkpoint, `work` the header being sealed. `NetworkProofs` holds its
theorems.

Compositions. `MCTransactions`, `MCStorage`, `MCDatabase`, `MCDownload` and `MCNetwork` put
modules that share no variable into one run: `part`, chosen at first and never changed, says which one
moves, and the others stay where they start. They say nothing about two parts at once: where two
components meet, the module of the one has the other's end of it (the importer in `DownloadQueue`, the
backfiller in `Skeleton`, the chain in `TxPool` and `ChainIndexer`, `peerFeed` in `PeerServer`). All `MC...`
modules supply the constants that a `.cfg` cannot write down.

## 3. The runs

Passing runs:

| Run | Question | Distinct states |
|---|---|---|
| `call_trace_blocks` | Do the rows and documents of two transactions mean what they say while the prefetcher of the next block runs beside the processor? `RowsOK`: a row prints the calls it was nested in, though `CallStack` is never restored, a transfer the right callers, an opcode row never a call older than its own; `PlainRowsInOrder`: plain calls are numbered in order; `DocsOK`: a document holds one transaction, one that ran code. | 1.4 million |
| `state_journal_contract` | A contract with storage through destruction, re-creation, reverts, two transactions and two blocks, with and without a snapshot. `WritesArrive`: no write is lost on the way to the trie, and the snapshot agrees with it; `KeepsPromise`: the refinement of `WorldState`. | 1.1 million |
| `state_journal_touch` | Accounts that are touched, left empty and deleted, the RIPEMD precompile among them. `BooksSound`: what is pending has an object, dirty counts count the entries, code is stored; `TouchSurvivesRevert`. | 0.5 million |
| `chain_forks` | Two proof-of-work forks, one failing block, batches of every extent, `SetHead` anywhere, shutdown, a kill anywhere, on pruning and archive nodes. `MarkersSound`: the markers name stored blocks of one chain and parents are there; `CanonIsChain`: canonical hashes; `IndexesComplete`: what hangs on them; `HeadExecuted`, `HeadNeverLighter`: the choice of the head. | 1.0 million |
| `chain_merge` | Imports, terminal blocks, payloads and forkchoice updates in any order, two forks that meet in one state, one kill anywhere: `PayloadKeepsHead`: an insertion without a head update moves neither the head nor a canonical hash, whatever became of its block while it waited for the lock; `HeadAsTold`: `SetCanonical` ends on the head it was told; `AllEnds`: every operation and every shutdown ends. | MERGE |
| `download_faults` | Syncs of up to three headers from two peers, with time-outs, late, partial, empty and invalid answers, failed sends, leaving and returning peers, cancellation. `PartsTracked`: a part to fetch is in the queue or in the hands of one peer, whose request is live, and an answer finds the slot it is written to; `HandedOutWhole`: results come in order, complete; `NoMissedResult`: no signal is lost; `EndsWhole`: a sync without error has handed out everything. In the other parts `PivotSound`: the head is whole, unless the pivot was deleted between the two halves of `SnapSyncCommitHead`, and in beacon mode every batch joins the last, the pivot can be moved when it must be, nobody is blamed and no state is asked for that peers have dropped; `AncestorExact`: the ancestor found is shared and near the fork. | 1.9 million |
| `download_ends` | Does every sync end, through a window of two slots and a threshold that moves (`SyncEnds`)? | 150 thousand |
| `transactions` | `FetcherSound`: a hash announced, broadcast, asked for, answered late, dropped or timed out is in one stage and something will take it on. `PoolSound`: lists, lookup and virtual nonces agree, what is pending can be executed, and gaps come only from what a reset could not take back; `FollowsHead`: merged resets end on the last head. | 1.3 million |
| `network` | `CliqueSound`: votes are counted as cast, some signer can always go on, nodes that walked different ways agree; `MajorityDecides`: membership changes by more than half of the signers. `SkeletonSound`: the subchains on disk name whole chains and the headers that come next are being asked for. `DeliveredOnce`: each value once and in order to each subscriber of a feed; `PeersSound`: counts, slots and the pool of static nodes; `BlocksSound`: no block queued twice, no announcement forgotten. | 1.4 million |
| `storage` | `IndexSound`: stored sections are one chain, what is told of them is of the canonical chain unless hashes of another chain are still there, and none is left out. `LayersTrue`: a layer that is not stale answers like its state; `TreeKept`: a commit leaves the new head readable, a clean stop loses no progress. | STORAGE |
| `databases` | `StatesKept`: states in use can be read, a root on disk is a whole state; `CacheSound`: counts and flush list. `AncientsSound`: after failed batches, rewinds and power losses every block is whole, in the tables or in the key-value store, but for the three kinds of blocks the code is known to lose. `SyncSound`: a state said to be synced is, and what is missing is on its way. | 0.6 million |

One run ends in a violation, explained in section 7: `call_trace_index`.

Deadlock is checked in `chain_forks` and `chain_merge`, where the node can always be asked for something or be
started again. The other systems stop by themselves: a bounded number of transactions,
blocks, heads or messages is used up; a sync that lost a part waits for the next peer; `PeerServer` can
really deadlock (section 7). That a sync does not stop early is `EndsWhole` and `SyncEnds`; that a
fetcher or a sync does not stop while something is missing is said as an invariant (`WakeupAhead` in
`FetcherSound`, `NothingForgot` in `BlocksSound`, `FrontAsked` in `SkeletonSound`, `NothingForgotten` in
`SyncSound`).

## 4. Bounds, and why they are enough

- **CallTrace.** `MaxDepth` 2 stands for 1024: the last slot of `CallStack` is at hand, which
  `InitTrace` does not clear. Three calls make a call with a sibling below a common caller;
  two transactions let something survive a reset. `WordSize` stands for 2^64 and is never
  reached (`BoundsAssumption`). `OtherIsShort` lets the prefetcher run one call only: it may
  not write any shared variable, so where it stands does not matter.
- **StateJournal.** One contract with one slot and two words (one that is there, zero)
  exercise storage and destruction; journal entries of different addresses interact only
  through the journal's order, the dirty counts and the revert index, which the second run
  covers with two addresses and no storage. Three entries are create, write and destruct, or a
  touch and its revert; two blocks show what a commit leaves to the next. Balances up to one. Both runs
  have the rules of EIP-158; section 6 says what is different before it.
- **BlockChain.** `Retain` 1 stands for `TriesInMemory` 128: the retention window is one block,
  so that blocks fall out of it at once. Six blocks: forks of unequal length and difficulty with
  a tie and a longer, lighter fork. In `chain_merge` five blocks, the terminal difficulty inside both forks. One kill, because after the restart the next kill finds a
  state that a kill could have found before; one `SetHead`. Gas, timestamps and the future queue
  do not appear.
- **DownloadQueue.** Three headers (with and without body and receipts) exceed a window of
  two slots and a threshold of one to two. Two peers, one of which can take two headers at a time.
  `Budget` bounds the faults of one sync by mode and length: two with one header, one with two
  headers or a snap sync of one, none elsewhere; orders of answers, reservations and wake-ups
  are unbounded. `DropLimit` 1 stands for 2, `MaxResults` 1 for 2048. The estimated capacity of
  a peer is a constant `Room`, the size of results an arbitrary threshold after each `Results`.
- **PivotSync.** The distances keep their order (`PivotAssumption`): 2 for 64, 1 for 2, 1 for 48, 1 for 8,
  batches of three headers. A head that grows from 3 to 6 makes the pivot stale and moves it; two syncs and one
  cancellation let a rollback be resumed.
- **Ancestor.** The constants of the code (192, 16, 2), and heights on both sides of each of them.
  `MaxForkAncestry` 100 stands for 90000: the floor is met and the span search still has its sixteen steps.
- **Skeleton.** Two branches of four blocks that part in the middle, requests of one header and a scratch
  space of two: the window moves, tasks are behind one another and both peers hold one. Three heads told,
  one payload imported by the engine API, one fault of a peer (a wrong header, a time-out, a departure), one
  stop or kill.
- **Clique.** Three signers with a candidate, or four signers; epochs of four blocks and five blocks. With four
  signers the limit of three exceeds the first block numbers, where the unsigned subtraction wraps
  (`Wrap` 64 for 2^64). A signer votes twice within an epoch.
- **TxFetcher.** Two hashes, one of them too cheap, and two peers; a limit of two hashes that are tracked and
  two that are asked for at once; three messages and one drop. The hashes of a message meet each other in
  every order, which is where a stage could be mistaken.
- **TxPool.** Account `x` has three nonces and a replacement, `y` one transaction; one slot per account and two
  for all pending, one queued. Four blocks: two nonces of `x` mined on one side, `y0` on the other, where balances fall below the cost
  of the replacement: a reset from one to the other takes some of what was mined back and some not. `ReorgDepth` 1 for 64: blocks on two
  forks are near or too far apart. Two moves of the head, three batches. Proved for all.
- **TrieDatabase.** Two states that share an account node, both account nodes with one storage trie: a node is referred to
  by two nodes and by the metaroot. Five insertions, two blocks in need of states, one kill. Proved for all.
- **SnapshotTree.** Six states on a fork, two layers (one while generating) for 128 (8): the third commit flattens. Three
  keys, an account with a slot and another account, destroyed and re-created. Nine layer objects, two incidents (a stop, a
  kill, a rewind or a snap sync).
- **Freezer.** Two tables (hashes of equal size, bodies of one or two bytes), files of two bytes, three blocks above the
  genesis block in two versions: every append may cross a file. Rewinds, power losses and failing batches share a bound of two
  (`MaxFaults`): a fault and what it does to another. Assumed: truncations and the key-value store survive a power loss, and of an
  index whole entries are lost.
- **SnapSync.** Hashes of two bits: the account range is split in two, the storage of one account in chunks. Two pivots, one
  of which loses a slot, changes another and a code. Two cycles, one reverted request, one kill.
- **ChainIndexer.** Two sections of two headers, a fork of two headers below the first, a child with another confirmation depth. No
  trusted checkpoint, or one of both sections, which the chain may never reach. Two head events, one entry in the queue of the loop,
  one `SetHead`, one restart: a second reorg meets what the first left over.
- **Feed.** Three subscribers with buffers of one, two values, four subscriptions: the case swapped by one is the case
  another removes. **PeerServer.** Two nodes (one trusted), one slot of either kind, two connections beside the commands; no more are
  needed for two connections of one node between the checkpoints. **BlockFetcher.** Two blocks (one without body), two
  announcers with limits of one, three announcements, one injected block and one imported otherwise; `UncleDist` 0 for 7 and `QueueDist` 2 for 32.

## 5. Fairness

- `BlockChain!FairSpec`: the operation that holds `chainmu` goes on (weak fairness of imports and
  rewinds), and `Stop` gets the lock some time although imports compete (strong fairness):
  `ClosableMutex` is a channel of capacity one and the runtime serves waiting senders of a channel
  first come, first served. Nothing is assumed of callers.
- `DownloadQueue!FairSpec`: every goroutine runs on when it can (weak fairness of
  `processHeaders`, of each fetcher, of `Results`, of `spawnSync` and of an unregistration that
  was begun), and for each kind an outstanding request is answered or times out, which the timer
  guarantees. Nothing is assumed of peers but one thing: in beacon mode, where a sync without
  peers waits for ever by design, one peer stays and answers. In legacy mode losing all peers ends
  the sync with an error, which counts as ended.
- The other modules make no liveness claims. Where something must go on they say as an invariant who will take it on: a
  timer that is armed, a request in flight, a goroutine that is due.

## 6. What is proved

`CallTraceProofs`, for every set of EVMs, every depth limit and every number of calls and
transactions:

- `TypeCorrect`: `Spec => []TypeOK`. The conjunct to work for is that `Depth` stays in
  `0 .. MaxDepth + 1`, so that `CallStack` is never indexed outside `Levels`.
- `RowsNameTheirCallers`, `DocumentsArePure`: `[]RowsOK` and `[]DocsOK`, each under the assumption
  `SoleLogger`: the EVMs without the prefetch flag are one, and it processes blocks.

`SoleLogger` is what the code relies on without saying it: the buffers are global, and an RPC call
or the miner that runs beside an import mixes its rows in. Under it the argument is the invariant
`LoneInv`. The path a row prints is read from `CallStack` when the call returns, so `PathIsLineage`
by itself is not inductive: one needs that every open call finds its own index in its slot
(`OpenCallsOnStack`). That survives a return because only slots at or above the caller's depth are
written later. `OpIndexNotOuter` needs that indices grow from the outermost open call inwards and
that `evm.CallIndex` is no less than the innermost (`OpenIndicesGrow`), although `TraceIndex` also
goes back. `WrittenRanCode` needs that callers are contracts and that `ran` remembers them
(`OpenCallersRun`), `DocPure` that the buffers hold the rows of the current transaction
(`LogsAreCurrent`). A step of a prefetching EVM changes none of this (`PrefetchStep`); every
action of the logging one is a step of `LoggerStep`.

- `PlainRowsNumberTheCalls`: `[]PlainRowsInOrder` under the same assumption, by an invariant of its own, `PlainInv`: as long as
  nothing but CALLs has returned, the next index is the number of calls entered, and each open call has the index its number
  says. Any other call that returns puts a row into the buffer that is not a CALL's, so the rest may be forgotten until the next reset.

`StateJournalProofs`, for any addresses, slots and words, any first block, any bounds on balances, entries, revisions,
transactions and blocks, with a snapshot and without, with one root per transaction and per block (the assumptions of
`StateJournal`: zero is a word, Byzantium implies EIP-158, nil is neither an account nor an object):

- `BooksHold`: `Spec => []Books`, the inductive invariant; `BooksAreSound`, `TouchOutlivesRevert`: `[]BooksSound` and the action
  property `TouchSurvivesRevert`, under the rules of any fork.
- `WritesGetThere`: `[]WritesArrive`, and `KeepsItsPromise`: `Spec => KeepsPromise`, that is, each step of the StateDB is a step of
  `WorldState` or none (`StepImplements`); both with the rules of EIP-158.

`Books` says first how the journal, the objects and the dirty counts fit (`Sound`): what has an entry is live (`Named`), only the first
entry of an address may find its object gone (`Ordered`), counts are counted (`Counted`), code that the database does not have
is in an object that `Commit` writes, and stays there through any revert (`Coded`). With EIP-158 it adds that the slots an
object caches agree with the snapshot and with the changes meant for it (`Saned`), where it must also say so of every deleted or replaced
object that the journal keeps, and that a destruct mark is there exactly from the first replacement on (`Marked`). None of this says
yet that a revert restores anything. For that there is a history: `Chronicle(h)` holds if `h[n]` is what the EVM saw when the journal
had `n` entries, as far as a revert can tell. Each entry takes `h[n]` to `h[n - 1]` (`Earlier`), what a saved copy
holds is `h` at its revision, and `h[0]` is what the transaction began with, which the trie and the next snapshot have already unless
`pending` says otherwise (`Began`, `Arrived`). Operations are chained from four steps on the journalled part (`WriteStep`,
`MakeStep`, `CacheStep`, `UndoStep`); two of them change what the EVM sees beyond their entry: the balance that `CreateAccount` carries over
unjournalled, and what a load caches. `Reaches` composes them, and `Settled` says that at the places where a revision was taken,
hence after any revert, an address that the journal does not dirty is as it was when the transaction began, which `Finalise` relies on. An end of transaction is `Finalise` (`FinalOf`, leaving `Final`) and then, before Byzantium or at
the end of a block, the flush (`FlushOf`, leaving `Rest`); `Commit` opens a StateDB on that (`OpenOf`), `Copy` on part of it (`Copied`).

Without EIP-158 these two are false of the model: a contract created without value over an account that holds a balance leaves only a
`resetObjectChange` in the journal, whose `dirtied` is nil, so `Finalise` does not visit the address although `snapDestructs`
names it, and the next snapshot layer lacks an account that the trie has. TLC finds this with `Addrs = {eoa, ripe}`, `EIP158 = FALSE`
and `MaxBlocks = 2`. From EIP-158 on the nonce of a new contract is set, which dirties the address. In the code a creation that
succeeds also sets the code; what remains is Frontier's creation that cannot pay for its code (`core/vm/evm.go:549`) and is not reverted
(`core/vm/evm.go:556`), in a block that no node builds a snapshot for any more. Hence the assumption, and no finding.

`BlockChainProofs`, for any tree of blocks, finite or not, whose chains have one block per number
(`TreeAssumption`: what hash links and the number check of the header verification give), whose difficulty does not
fall and whose transactions are mined once in a chain (`DataAssumption`), and for any number of kills and rewinds:

- `TypeCorrect`, `MarkersAreSound`: `Spec => []TypeOK` and `[]MarkersSound`. The inductive invariant is `Sound`: the chain of a
  stored block is stored and the numbers of stored blocks have a bound (`StoreClosed`: a range deleted upwards by
  `RewindDelete` takes every fork of it, so nothing is left hanging above), the markers lie on one chain
  (`HeadsOnChain`), and the locals an operation is about to use are set (`LocalsSet`).
- `CanonFollowsHeader`, `TransactionsAreFound`: the canonical hashes and the lookups of the chain while the node is
  not killed. `CanonFollows` and `LookupFollows` say what holds in front of `writeHeadBlock` as well, where the properties leave a
  gap: then the new head's ancestors are indexed and only the head itself is missing. That `reorg` brings this about needs
  its order: the path is written from below, each batch on top of what held, the deletion stops below the new head
  (`IndexFloor`), and what it takes from the lookups is not mined on the path.
- `CanonIsTheChain`: no canonical hash beside the chain, on an archive node. `CanonTop` bounds the highest one: at a `reorg` the canonical hashes
  have no gap, so the deletion that stops at the first gap takes all of them; that rests on `ArchiveWhole`, an archive node
  never having its block marker below its header marker. On a pruning node this fails (a rewind to a
  pruned state, then an import: the second hazard of `core/blockchain.go` in `PROJECT.json`), which is why the property speaks of archive nodes.
- `HeadIsNeverLighter`: an action property. `Weighed` remembers, for an import in progress, what makes the block about to become the head no
  lighter than the head found: the difficulties were compared, or the left blocks of the batch are descendants of one that was
  (`TodoLinked`), or the head is beyond the terminal difficulty.
- `PayloadKeepsItsHead`: an action property. `Headless` says that an import that does not set the head has one block at a time, which
  cannot become known between the trim and the import loop, and that only `SetCanonical` makes its target the head.
- `SetCanonicalEndsAsTold`: an action property. `Told` says that blocks to recover and to import are ancestors of the target, at most one at a
  time; such a block has its parent stored, so it is executed, recovered further below, or one that fails (`ToldDispatches`).

`DownloadQueueProofs`, for any number of headers, peers with any capacities, any window, batch size
and fault budget (`QueueAssumption`):

- `TypeCorrect`, `PartsAreTracked`, `ResultsWhole`, `NoWakeupMissed`: `Spec => []P` for `TypeOK`,
  `PartsTracked`, `HandedOutWhole`, `NoMissedResult`.

They follow from one inductive invariant, `QueueInv`. That a part is in one place rests on the
assignment never replacing a request, hence on `HoldersTracked`: a fetcher forgets a request only to
return its headers, to look at its answer, or when `Revoke` is still to come, and in an assignment
round the idle peers hold nothing. (An answer ignored because its peer had just left is the case of
section 7; its headers are with the peer until `Revoke`, as the invariant says.) Then `ReservedHasSlot`
holds, since nobody else can deliver a part that one peer was asked for, and `Results` removes complete
results only. This and `HandedOutWhole` need that the window lies within the scheduled headers with
every part of it empty, stored or outstanding (`SlotsSound`), and that what the cached index counts is
complete (`IndexSound`); the last header is never passed because `countCompleted` stops at the first slot
without a result. `NoMissedResult` is inductive: every step that completes the first result, and the
closing of the queue, signals. `WindowSteps` sorts the operations by what they do to the window, so that
each of these arguments looks at four of them.

- `SyncEndsWhole`: `Spec => []EndsWhole`.

This one needs what happens when things come to an end, `EndInv`, on top of `QueueInv`. A fetcher ends when its task queue is empty
and no request is live; that its pool is empty then needs that whoever holds headers is asked for them or answering, unless an
answer was ignored (`HoldersAsked`). Nothing is scheduled afterwards, because fetchers are told of the end when all headers are
scheduled (`HeadersTold`). A header of the window without a slot is pooled, and an outstanding part too (`PartsLeft`), so with empty
pools `Results` finds the first slot incomplete only beyond the last header. The queue is closed for a failure or when the others are
gone, and that stays so (`ClosedLast`). `FetcherSteps` says of each step of a fetcher what these arguments need of it.

Of the search for the common ancestor, for any heights, any fork and any `MaxForkAncestry` (`AncestorAssumption`):

- `AncestorIsExact`: `AncestorSpec => []AncestorExact`: what is found is shared by both chains and less than the span
  of the request below the fork, and a peer is turned away only if its fork is less than a span above the floor.

`AncestorInv` adds the interval that is left (`IntervalSound`): the fork is in it, or under the floor, so halving ends at the
fork. The span search needs that the numbers asked for are less than 16 apart and reach beyond the head of one side.

`StorageProofs`, for any finite graph of nodes and any number of insertions, users and kills
(`TrieAssumption`):

- `StatesAreKept`: `TrieSpec => []StatesKept`: a state a block needs can be read, and a root on disk has
  its whole state there.
- `CountsAreExact`: `TrieSpec => []CountsExact`: the `parents` field of a node that is only in memory is the number
  of nodes and users that refer to it.

The invariant is `IInv`. A node is dropped when its count falls to zero, so counts must be exact
while an operation is under way too: the references an insertion or a drop has still to make or to take back are counted
as if made (`Referents`). `Cap` writes the oldest nodes first and `Commit` a subtree from below; that neither puts a parent
on disk before its children needs that a cached node is younger than what it refers to (`OldestFirst`), that
what a flush has begun is complete below (`FlushSound`), and that an account node is linked to its storage
before the update ends (`UpdateSound`, `StorageLinked`). A node that was flushed and is inserted again has no parents; it
is on disk, which is why `CountsExact` speaks of nodes in memory only and `StatesReadable` survives its drop.

- `CacheIsSound`: `TrieSpec => []CacheSound`, which adds the flush list.

Its invariant is `ListInv`: the list holds the cached nodes in the order of their insertion (`ListOf`), each with the age that the
model's ghost counter gave it (`Aged`), and the part of a flush that is done is what has left the list (`DoneSound`). The walk along
the `next` links (`Walk`) and the fold of the cleaner are recursive functions; what they return is proved by a least counterexample
on the number of steps, which needs no induction scheme. The fields `prev` and `newest` may be stale when the list runs empty, as
the code leaves them; the next insertion does not read them then.

It also has the chain indexer, for any tree of headers, sections of any size, any confirmation depths and any trusted checkpoint
(`IndexerAssumption`: a tree with one root whose numbers count the steps from it):

- `SectionsAreCanonical`: `IndexerSpec => []SectionsCanonical`: stored sections continue each other at any moment, and what `Sections`
  hands out is of the chain of the head, although sections are processed without the lock, unless a reorg or a rewind that is under way
  or was cut short has left canonical hashes of another chain (`Leftover`). Without the exception it is false (`AlwaysCanonical`, section 7).
- `IndexIsSound`: `IndexerSpec => []IndexSound`: moreover, when the indexers have come to rest on a chain that only grew, every
  section deep enough is stored, and the child has followed its parent.

The first needs of each row (`RowSound`) that the heads of the stored sections are a chain as far up from the checkpoint as they
are known (`HeadsSound`), and that the section in work continues the one it found stored (`WorkSound`); a section below the
checkpoint is exempt, for the code stores no head there. A section in work is a row of headers each of which is the parent of the
next, from whichever chain its hashes were read, and `CompleteSection` looks again whether the section before is still the one it
continued (`Unmoved`): that is what makes the unlocked stretch safe, also in mid-reorg. Of the chain it needs only that a canonical
hash has its number (`ChainSound`); without left-over hashes the last section being canonical puts all below it on the chain. The
second needs that a chain that only grew has its own hashes and no others (`Plain`, `Onward`), and says what a row is waiting for (`QuietInv`): an event that
tells of the head or a section known and not yet stored (`HeadTold`, `ChildTold`), and what the first run and a run after a restart have
taken over from the store (`FirstRun`, `Anew`). `Keeps` lists what no step on an undisturbed chain takes from a row, so each
action is looked at once. After a restart the claim is limited to checkpoints of at most one section, since beyond that it
is false (`RestartKeepsUp`, section 7).

`SnapProofs` has the state sync, for any states whose trie keys are of two bits (`SnapAssumption`), any moves of the pivot, answers,
stops and kills:

- `SyncIsSound`: `SyncSpec => []SyncSound`: a node on disk has its whole subtree there, of the account's storage and code as well, a
  state whose sync returned is there as a whole, and all a task still counts as pending is queued, in flight or in chunks.

`SnapInv` says of each range what has been forwarded is stored (`DiskWhole`), what is in flight was asked for by one task, and
that boundary nodes a stack trie must not commit are left to the healer.

`NetworkProofs` has four parts. Feeds, for any number of subscribers, values and concurrent senders:

- `DeliversOnce`: `FeedSpec => []DeliveredOnce`: each value goes at most once, and in the order of the sends, to each subscriber, and
  one that was there throughout has got all.

`FeedInv` has the types, `CasesSound` (inbox and `sendCases` hold each subscriber once, the first `cases` of a send in progress are the
ones still to serve) and `ValuesSound`: a subscriber among the cases still to serve lacks exactly the value being sent, any other lacks
none. That must hold as well for one whose `Unsubscribe` is under way, until it has been taken out of the cases.
`Swap`, `Delete` and `Left` are lemmas on what exchanging two cases, deleting one and shrinking the active part does to the rest.

The peer-to-peer server, for any set of nodes, static and trusted ones among them, any limits and any number of dials and removals
(`PeerAssumption` types the limits):

- `PeersAreSound`: `PeerSpec => []PeersSound`: no node has two peers, inbound and dialed counts are exact and within the limits at the
  time of the checkpoint, a slot is taken by a dial task only, and a static node that is not connected can be dialled again.

`PeerInv` has four parts. `Books`: each peer runs once and is counted as what it was let in as. `Dials`: each dial has a slot, and a
dialed connection in its handshakes has a task of its own, so `postHandshakeChecks` and `doneDialing` speak of the same node.
`Pool`: the static pool holds exactly those static nodes that could be dialled, at the index the task remembers. `PoolDrained`: nodes found by
discovery are dialled only when the pool is empty, which the code gets from the order of the two in `dialScheduler.loop`.

The block fetcher, for any announcers, limits and length of the chain (`BlockFetcherAssumption`):

- `BlocksAreSound`: `BlockFetcherSpec => []BlocksSound`: a block is queued once, from `enqueue` to the end of its import, each peer is
  charged for exactly the blocks it has queued, what is announced or fetched has its timer armed, and nothing is counted for a peer
  of which there is no trace.

`BlockInv` is `FetchSide` (announcements are distinct, `NotesApart`, so that counting them counts the traces a peer has left; `TimersSet`;
`Counted`) and `QueueSide` (`QueuedOnce`). The two share no variable, so a step is looked at once for either. `Counted` is an inequality,
because `forgetHash` counts an announcement down twice that is in two lists (section 7, `HashesLimited`).

`TransactionsProofs`, for any finite sets of hashes and peers and any limits (`FetcherAssumption`: requests are for at
least one hash):

- `FetcherIsSound`: `FetcherSpec => []FetcherSound`: a hash is waiting, announced or being fetched, and in one of these stages only; its
  maps name the same peers; a hash is being fetched by the one peer whose request still misses it; and what waits has a timer
  ahead, or a request is out that is answered or times out.

`FetcherInv` has the maps of the struct (`MapsSound`, with `Staged` for the stages and `OneRequest` for the peers that are asked),
the timers (`TimeoutAhead`, `WaitAhead`) and the types of what is in flight. A reply breaks `OneRequest` for a moment, since the
loop first forgets what was delivered and then looks at the rest of the request: `HalfAnswered` is what holds in between.
`ScheduleHolds` shows that `scheduleFetches` keeps the maps sound for any order in which it visits peers and hashes.

The transaction pool, for any finite sets of transactions and accounts, any tree of blocks, any balances and limits
(`PoolAssumption`: a chain mines the transactions of an account in the order of their nonces, as `preCheck` demands):

- `PoolIsSound`: `PoolSpec => []PoolSound`: the lookup holds what the two lists hold, a nonce of an account is listed once, only
  local transactions keep the pool above its limit; what is pending starts at the nonce of the state and is payable, and it has no gap
  below the virtual nonce, unless a reset left one because it could not take back what was mined no more.
- `PoolFollowsHead`: `PoolSpec => []FollowsHead`: merged and delayed resets end on the head told last, or with one that gave up.

Each operation is a loop over accounts or transactions, written as a function of the turn. One lemma (`Iterated`) says that what every turn
keeps holds at the end; the work is one turn of each (`RemoveTxHolds`, `AddHolds`, `PromoteAccountIs`, `DemoteAccountHolds`,
`CutOffHolds`). `PoolInv` has `Fit`: the lists agree, and for every account that is not torn the pending list is filled up to the
virtual nonce and starts at the state's. Neither half of this survives a reset, where the state's nonces change before
the lists do: `ShapeAt` is what does, that a pending list has all nonces below each of its own but for those that were mined before.
After promotion and demotion a gap can therefore only be at a nonce that was mined, is not any more and was not taken back
(`Untaken`, `SettledHolds`). Truncation cuts at the end and lowers the virtual nonce with it (`Cuts`). `FollowInv` is about requests: the
reset that waits, or else the one that runs, or else the pool is about the head told last.

The votes of clique, also in `NetworkProofs`, for any addresses, any legal genesis, any epoch and any sequence of headers (`CliqueAssumption`: addresses
are positive numbers, the genesis lists are finite and sorted, numbers stay below the width of an integer):

- `CliqueIsSound`: `Spec => []CliqueSound`; `MajorityAlwaysDecides`: the action property `MajorityDecides`: a step adds or removes
  at most one signer, and more than half of the signers had voted for it.

`CliqueInv` has `SnapInv` (`SnapOK` for each snapshot: the tally is what the votes say, a vote is cast once by each signer on each address
and is still meaningful, the recent signers lie within the window, no votes at a checkpoint), `LightInv` (the node that started from a
checkpoint agrees with the other wherever it has seen enough) and what the header being sealed was prepared from. That the tally is a
function of the votes (`TallyDetermined`) makes the two nodes agree; that a majority decided is counted along the injection from
votes for an address to signers; that someone may always sign is counted too: the window holds fewer signers than there
are. `Discard` folds over the votes of a removed signer; the fold is unfolded by least counterexample.

What the runs check beyond this is model-checked only: of `BlockChain` `HeadExecuted` and, in `IndexesComplete`, what it says of
receipts, `Skeleton` and `SnapshotTree`, whose chains and trees are walked by recursive operators, `Freezer`, whose files are folds over
what was written, and `PivotSync`, whose invariant has not been made inductive. `HeadExecuted` and the receipts depend on which blocks share a state: the code asks for
the state of a root (`HasState`), so a block that was never executed, even one that fails, counts as known when another block with its
root was. Which roots are equal is left open by the constants, and the runs fix it to the cases the code can meet; an
assumption that rules the others out would say more than the code checks. `SyncEnds` and `AllEnds` are liveness, which is out of the
prover's reach. What a recursive definition
computes for all inputs would need induction over data, which the installed provers cannot instantiate; the modules with theorems
use recursive functions and folds, and no `RECURSIVE` operator.

## 7. Where code and documentation disagree

With a run that shows it: `call_trace_index`. `TraceIndex` is decremented when a `DELEGATECALL`, `CALLCODE`,
`STATICCALL` or create returns (`core/vm/evm.go:321,375,...`), so two calls of a transaction may carry one
index, while `src/README.md:132` says a call is identified by it.

The following TLC shows when the property in parentheses, which is defined in the module but not part of a run, is
checked. Where a passing run's property would be broken by it, that property excepts the case, and the comment on it says so.

- Tracer: the row of a create always has value 0 (`LoggedValueIsValue`, `core/vm/evm.go:494`).
- Chain: killed between the last two batches of `reorg`, the node comes back with a head that has no canonical hash
  (`CanonBelowHeader` in `chain_forks`, `core/blockchain.go:2144`). The loop of `insertChain` for known blocks that should be the head
  cannot be reached, as the forker's answer replaces `ErrKnownBlock` (1540): such a block is executed again, which
  fails if the state of its parent is gone (`KnownReimported`, comment at 1559-1566).
- Trie database: nodes may stay in the cache after every state was dereferenced, which the shutdown reports as an error
  (`NothingDangles`, `core/blockchain.go:932`).
- Snapshot tree: a layer that was flattened into its parent, but not marked stale, may change under its reader
  (`HeldReadsItsRoot`, `difflayer.go:436`); a layer above a stale one may stay in the tree (`NoStaleLinks`, `snapshot.go:413`).
- Freezer (`AllBlocksKept`; `AncientsSound` excepts each case by name): a write that fails half way in the head file is not
  rolled back (`Garbled`, `freezer.go:241`); a file closed because it was full is not synced (`Torn`, `freezer_table.go:877`); a rewind while a
  round is about to delete lets it delete the blocks of the new chain (`DeleteRound`, `chain_freezer.go:177`).
- State sync: an honest answer to a range of storage without slots is taken for a refusal (`ChunksServable`, `sync.go:2613`).
- Chain indexer: a child added after a restart stays behind its parent until the next section (`ChildFollows`, `chain_indexer.go:456`).
  A restart forgets a checkpoint the chain has not reached; if it has two sections or more, sections are rolled back later and the
  index stays behind until the next section (`RestartKeepsUp`, `chain_indexer.go:135`).
- Chain indexer: in mid-reorg a section may be told whose predecessor is no longer canonical, since only the hash of the last one is
  asked for and stale hashes are deleted last (`AlwaysCanonical`, `chain_indexer.go:424`).
- Download queue: an answer whose peer is unregistered meanwhile is thrown away, the fetcher ends with headers still to fetch
  (`NothingStranded`, `fetchers_concurrent.go:360`). In a variation the fetcher is left waiting with nobody to wake it; `EndsWhole` and
  `SyncEnds` therefore except syncs in which an answer was ignored (`abandoned`).
- Snap sync: a rollback between the look at the pivot and the store of the head makes a deleted block the head (`HeadExists`,
  `core/blockchain.go:734`).
- Legacy snap sync, where two goroutines move the pivot: an honest peer is dropped (`Unblamed`, `downloader.go:1066`), blocks may be
  written in an order that is refused, a state sync be left undone (both `Unblamed`, 1641), and a state may be waited for that peers have
  dropped (`PivotServed`, 1651; with a head that grows from 4 to 9).
- Skeleton: a stale filled header may become the tail of a subchain of another fork (`NotStrayed`, `beaconsync.go:59`), a header named by the
  progress may not be written (`NotUnwritten`, `skeleton.go:1115`) or be deleted again (`NotDeleted`, 981), and the backfiller may read
  headers of two chains (`FillerReadsOneChain`, 613).
- Transaction pool: after a reset a queued transaction that could be promoted may stay queued (`ReadyIsPromoted`, `tx_pool.go:1173`); a `SetHead`
  that deletes both blocks of a reset panics (`NeverPanics`, 1248). A pending list may have a gap after a reorg that takes the
  first of two mined transactions back and not the second: only a gap in front is looked for (`PendingContiguous`, 1547).
- Transaction fetcher: a dropped peer stays an alternate and may become the only origin of a hash (`NoTraceOfDropped`, `tx_fetcher.go:664`).
- Block fetcher: the count of announcements of a peer falls below what it has outstanding (`HashesLimited`, `block_fetcher.go:450`); a hash
  whose body request fails waits for ever (`BodiesAskedFor`, 548).
- Peer-to-peer server: `RemovePeer` may deadlock the main loop (`MainGoesOn`, `p2p/peer.go:204`), and may return while a new connection
  to the peer runs (`RemovedWhenToldSo`, `server.go:353`).
- Clique: a header that `verifySeal` accepts may be refused by `apply` (`VerifiedApplies`, `clique.go:482`).

Met while modelling, by reading:

- An RPC call or the miner writes into the buffers of a block being processed (`DocPure` fails for
  EVMs `{blk, rpc}`); transactions that ran no opcode leave no document; opcode rows after a nested
  call name the nested call.
- A `StopInsert` during `recoverAncestors` is treated like success: `SetCanonical` makes a block the
  head that was never executed. The repair at the next start undoes it.
- After `SetHead` a state may still be referenced for which the block is gone; when the block is
  stored again as a side block it counts as known and can become the head without receipts. Side
  chains adopted by way of equal states have none either.
- On a pruning node canonical hashes above a lowered head stay. Known blocks in the middle of a
  batch become the head without a comparison of difficulty. The miner may commit a state whose parent has been
  garbage-collected when sealing takes longer than `TriesInMemory` blocks.
- A creation before Homestead over an account that already had a balance, when its code cannot
  be paid for, leaves the account in the trie and not in the snapshot layer.
- `t.layers[flattened.root] = flattened` may replace the live disk layer, and two branches on one flattened layer
  reach the panic of `flatten` (`snapshot.go`, `difflayer.go`).
- `queue.go:635-636` says no order of events makes an expiry meet no request; `Revoke` before the
  peer event does. Errors of `deliver` never satisfy `errors.Is(err, errStaleDelivery)`
  (`queue.go:886-890`, `fetchers_concurrent.go:366-369`). A peer that reconnects can be dropped for a
  time-out of its former connection. The list of what a peer lacks is shared by bodies and receipts.
- That a slot whose block has neither transactions nor uncles still waits for receipts would need
  receipts without transactions; `QueueAssumption` excludes it, and the branch of `reserveHeaders` for
  stale headers with it.
- Skeleton: a resume is ignored while the deferred end of a cancelled filling has not run; a forced reorg to a shorter fork is
  forgotten; a peer that answers with nothing is not idle again in its cycle.
- A snap sync of a short chain rolls back to the genesis block, and one cancelled after the pivot was committed rewinds below the
  pivot. The ancestor search may refuse a fork up to 15 blocks above the floor. `processStorageResponse` clears `needHeal` of the last
  account that was asked for, not of the last delivered; the healer finds what is missing all the same.
- `ann.hashes[:want-maxTxAnnounces]` (`tx_fetcher.go`) keeps as many hashes as there are too many. `AddLocal` of a transaction
  that replaces a pending one neither marks its sender local nor journals it.
- Clique: a lone signer that votes itself out leads to a division by zero; a key changed between `Prepare` and `Seal` seals with
  the difficulty of the former. The trusted flag is not refreshed at the second checkpoint of a connection (`server.go`).

## 8. What is not modelled

- **CallTrace**: gas, memory and return data; the contents of the rows beyond indices and values; the
  MongoDB server, whose inserts may fail.
- **StateJournal**: access list, refunds, logs, preimages, the cache of code and the prefetcher of tries;
  failing databases.
- **BlockChain**: freezer and snapshot tree, which have modules of their own and see the chain as states that come and go;
  snap sync (`InsertReceiptChain`, `SnapSyncCommitHead` are in `PivotSync`), `Reset`,
  the queue of future blocks, the safe and finalized markers, the tail of the transaction index, what
  `ForkchoiceUpdated` checks before it takes the lock.
- **DownloadQueue**: the header half of the queue, which fills skeletons of legacy syncs; the estimate of
  capacities and the drop of peers that stall, which is `LeavePeer` without a cause; the pause of
  `processHeaders` at 65536 queued headers; the capacity of the event channel. **PivotSync** takes all peers to be on one
  chain. **Ancestor** leaves out total difficulties and light mode.
- **Skeleton** models a full sync; peers are answered for by `Answer`, `Fail` and `Leave` in any order.
- **TxPool**: the journal file, events to subscribers; the price heaps are a choice of the cheapest. **TxFetcher**, **BlockFetcher**:
  broadcasts of imported blocks, forks among announced blocks, a bound on the size of answers.
- **TrieDatabase**: preimages, the clean cache, tries themselves (their paths, proofs, iterators). **SnapshotTree**: iterators, `Verify`,
  range proofs of the generator. **Freezer**: the tail of a table, which nothing moves, read-only mode, compression.
- **SnapSync**: which peer is idle, its capacity and trust; requests of the healer in flight; the flat snapshot written beside the trie.
- **Clique**: signatures, gas, timestamps. **ChainIndexer**: what a section's backend computes, the bloom matcher.
- **Feed**: the wrappers of `subscription.go` and the older `TypeMux`. **PeerServer**: endpoint resolution, throttling of inbound
  addresses, shutdown, the request tracker.
- The components marked so in section 1. Sections of the node that are arithmetic (gas, difficulty,
  fees), cryptography, formatting or generated code are outside what a model adds to.

## 9. Plan

Done: `CallTrace`; `StateJournal` over `WorldState`; `BlockChain`, `TrieDatabase`, `SnapshotTree`, `Freezer`, `SnapSync`,
`ChainIndexer`; `DownloadQueue`, `PivotSync`, `Ancestor`, `Skeleton`, `Clique`; `TxPool`, `TxFetcher`, `BlockFetcher`, `Feed`,
`PeerServer`. Proved: `CallTrace` under `SoleLogger`, `StateJournal` with its refinement of `WorldState`, `BlockChain` except what depends
on shared states, the safety of `DownloadQueue`, `PivotSync`, `Ancestor`, `TrieDatabase`, `ChainIndexer`, `Feed`, `PeerServer`, `BlockFetcher`, `TxFetcher`, `TxPool`, `Clique`.

Left, in order of importance, with abstract specifications (A), runs (R) and theorems (T):

1. `Catalyst`: the queues of payloads and remote headers and the invalid ancestors, composed with `BlockChain` and `Skeleton`.
2. The worker of the miner: `newWorkLoop`, `mainLoop`, `taskLoop` and `resultLoop` with their channels and interrupts.
3. Composition of `BlockChain` with `TrieDatabase`: A: the set of states `BlockChain` keeps; and with `Freezer`.
4. RPC client and handler, subscriptions and filters; the handler of the eth protocol with its peer set; the request tracker;
   discovery; flow control of the light server; the bloom matcher.
