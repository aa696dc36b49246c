------------------------------ MODULE SnapSync ------------------------------
(***************************************************************************)
(* eth/protocols/snap: the download of the state at a pivot block.         *)
(*                                                                         *)
(* First the accounts come in ranges, each with its code and storage; what *)
(* is complete goes through stack tries, whose nodes are written as their  *)
(* ranges close.  Then the trie is walked from its root (trie/sync.go) and *)
(* nodes that are not on disk are fetched: a node that is there is taken   *)
(* for its whole subtree, its storage and code.  The pivot moves meanwhile *)
(* and what was written stays; a stop saves the ranges left, a kill does   *)
(* not.                                                                    *)
(*                                                                         *)
(* Peers are whoever answers: a request is in flight until it is answered, *)
(* in part perhaps, or reverted.  Of a heal request only the answer is a   *)
(* step, one node or code at a time.  Hashes have two bits.                *)
(***************************************************************************)
EXTENDS Integers, Sequences, FiniteSets, Functions

CONSTANTS States,      \* of pivot blocks: [account -> [nonce, root, code]]
          NoCode,
          MaxCycles, MaxReverts, MaxSyncKills  \* bounds

\* Tries over the hashes
Trie(T) == DOMAIN T \subseteq 0..3 /\ T = [h \in DOMAIN T |-> T[h]]

ASSUME SnapSyncAssumption ==
  /\ 1 \in DOMAIN States
  /\ \A i \in DOMAIN States : Trie(States[i]) /\ \A h \in DOMAIN States[i] : Trie(States[i][h].root)

VARIABLES tasks,    \* ranges of accounts
          pivot,    \* index of the state being synced
          syncing,  \* a cycle runs
          healer,   \* the walk over the trie
          stored,   \* nodes of the account trie, nodes of storage tries, codes
          saved,    \* the status on disk
          synced,   \* states whose sync returned without an error
          cycles, reverts, syncKills

syncVars == <<tasks, pivot, syncing, healer, stored, saved, synced, cycles, reverts, syncKills>>

-----------------------------------------------------------------------------
(* Tries: a node is named by what hashes into it, its place and the leaves *)
(* under it.                                                               *)

HashSpace == 0..3
Blocks == {HashSpace, 0..1, 2..3} \cup {{h} : h \in HashSpace}
Sibling(B) == CHOOSE C \in Blocks : C \cap B = {} /\ C \cup B \in Blocks
Halves(B) == {C \in Blocks \ {B} : C \subseteq B /\ 2 * Cardinality(C) = Cardinality(B)}
LeavesIn(trie, B) == Restrict(trie, B \cap DOMAIN trie)
NoLeaves == [h \in {} |-> 0]
Largest(S) == CHOOSE h \in S : \A i \in S : i <= h

\* Branches, and the one node for each side of a branch
IsNode(trie, B) ==
  /\ B \cap DOMAIN trie # {}
  /\ \/ B = HashSpace
     \/ Sibling(B) \cap DOMAIN trie # {}
     \/ Cardinality(B) > 1 /\ \A C \in Halves(B) : C \cap DOMAIN trie # {}

TrieNodes(trie) == {<<B, LeavesIn(trie, B)>> : B \in {C \in Blocks : IsNode(trie, C)}}
TrieRoot(trie) == <<HashSpace, trie>>
SubTrie(node) == {n \in TrieNodes(node[2]) : n[1] \subseteq node[1] /\ n[1] # node[1]}
Children(node) == {n \in SubTrie(node) : \A m \in SubTrie(node) : n[1] \subseteq m[1] => n[1] = m[1]}

\* What a stack trie has written: nodes no later leaf can come under.
ClosedNodes(trie) == {n \in TrieNodes(trie) : Largest(DOMAIN trie) \notin n[1]}
GenNodes(gen, done) == IF done THEN TrieNodes(gen) ELSE ClosedNodes(gen)

State == States[pivot]
Account(h) == State[h]

-----------------------------------------------------------------------------
(* Tasks.  needCode, needState and needHeal are the accounts whose flag is *)
(* set.                                                                    *)

SubTask(next, last) == [next |-> next, last |-> last, asked |-> FALSE, gen |-> NoLeaves, done |-> FALSE]

AccountTask(next, last, subTasks, done) ==
  [next |-> next, last |-> last, subTasks |-> subTasks, asked |-> FALSE,
   filling |-> FALSE, hashes |-> {}, cont |-> FALSE,
   needCode |-> {}, needState |-> {}, needHeal |-> {}, pend |-> 0,
   codeTasks |-> {}, codeReqs |-> {}, stateTasks |-> {}, stateReqs |-> {},
   gen |-> NoLeaves, done |-> done]

\* Half of all accounts each
FreshTasks == [t \in 1..2 |-> AccountTask(2 * (t - 1), 2 * t - 1, NoLeaves, FALSE)]
AllDone == \A t \in DOMAIN tasks : tasks[t].done

\* The accounts up to the first that still needs something
Ready(task) == {h \in task.hashes : \A i \in task.needCode \cup task.needState : h < i}

\* mutant: accounts whose storage came in chunks are not held back
ForwardedAll(task) ==
  [task EXCEPT
     !.filling = FALSE, !.hashes = {}, !.needHeal = {},
     !.gen = [h \in DOMAIN @ \cup Ready(task) |-> IF h \in DOMAIN @ THEN @[h] ELSE Account(h)],
     !.next = IF Ready(task) = {} THEN @ ELSE Largest(Ready(task)) + 1,
     !.done = Ready(task) = task.hashes /\ ~task.cont]

\* forwardAccountTask
Forwarded(task) ==
  [task EXCEPT
     !.filling = FALSE, !.hashes = {}, !.needHeal = {},
     !.gen = [h \in DOMAIN @ \cup (Ready(task) \ task.needHeal) |-> IF h \in DOMAIN @ THEN @[h] ELSE Account(h)],
     !.next = IF Ready(task) = {} THEN @ ELSE Largest(Ready(task)) + 1,
     !.done = Ready(task) = task.hashes /\ ~task.cont]

\* cleanStorageTasks
Cleaned(task) ==
  LET left(h) == SelectSeq(task.subTasks[h], LAMBDA s : ~s.done)
      complete == {h \in DOMAIN task.subTasks : left(h) = <<>>}
  IN [task EXCEPT !.subTasks = [h \in DOMAIN @ \ complete |-> left(h)],
                  !.needState = @ \ complete, !.pend = @ - Cardinality(complete)]

\* What a response ends with, and the loop before it waits again
Settled(task) ==
  LET cleaned == Cleaned(task)
  IN IF task.filling /\ cleaned.pend = 0 THEN Forwarded(cleaned) ELSE cleaned

\* The stack trie of accounts is written when a range is done, or its batch is large.
Settle(t, task, slots, codes) ==
  \E new \in {Settled(task)}, flush \in BOOLEAN :
    /\ tasks' = [tasks EXCEPT ![t] = new]
    /\ stored' = [accounts |-> stored.accounts \cup
                  (IF new.done \/ (flush /\ ~new.filling) THEN GenNodes(new.gen, new.done) ELSE {}),
                slots |-> stored.slots \cup slots, codes |-> stored.codes \cup codes]
    /\ UNCHANGED <<pivot, syncing, healer, saved, synced, cycles, reverts, syncKills>>

Update(t, task) ==
  /\ tasks' = [tasks EXCEPT ![t] = task]
  /\ UNCHANGED <<pivot, syncing, healer, stored, saved, synced, cycles, syncKills>>

Revert(t, task) == reverts < MaxReverts /\ reverts' = reverts + 1 /\ Update(t, task)

-----------------------------------------------------------------------------
(* Accounts.                                                               *)

AskAccounts(t) ==
  /\ syncing /\ ~tasks[t].done /\ ~tasks[t].asked /\ ~tasks[t].filling
  /\ Update(t, [tasks[t] EXCEPT !.asked = TRUE]) /\ UNCHANGED reverts

RevertAccounts(t) == tasks[t].asked /\ Revert(t, [tasks[t] EXCEPT !.asked = FALSE])

LacksCode(h) == Account(h).code # NoCode /\ Account(h).code \notin stored.codes
LacksState(h) == Account(h).root # NoLeaves /\ TrieRoot(Account(h).root) \notin stored.slots

\* processAccountResponse: large contracts of an earlier cycle are resumed.
Filled(task, hashes, more) ==
  LET kept == {h \in hashes : h <= task.last}
      state == {h \in kept : LacksState(h)}
      resumed == state \cap DOMAIN task.subTasks
      code == {h \in kept : LacksCode(h)}
  IN [task EXCEPT !.asked = FALSE, !.filling = TRUE, !.hashes = kept,
                  !.cont = more /\ \A h \in hashes : h < task.last,
                  !.needCode = code, !.needState = state, !.needHeal = resumed,
                  !.codeTasks = {Account(h).code : h \in code}, !.stateTasks = state \ resumed,
                  !.subTasks = Restrict(@, resumed),
                  !.pend = Cardinality(code) + Cardinality(state)]

\* The leaves a peer may answer with: some of those from a hash on, and none after
\* the first that is not before the limit.
Answers(trie, first, limit) ==
  LET from == {h \in DOMAIN trie : h >= first}
  IN {{h \in from : h <= last} : last \in {h \in from : \A i \in from : i < h => i < limit}}

DeliverAccounts(t) ==
  /\ tasks[t].asked
  /\ LET from == {h \in DOMAIN State : h >= tasks[t].next}
     IN \E hashes \in Answers(State, tasks[t].next, tasks[t].last) \cup (IF from = {} THEN {{}} ELSE {}) :
          Settle(t, Filled(tasks[t], hashes, hashes # from), {}, {})

-----------------------------------------------------------------------------
(* Code.                                                                   *)

AskCodes(t) ==
  /\ syncing /\ tasks[t].filling
  /\ \E codes \in (SUBSET tasks[t].codeTasks) \ {{}} :
       Update(t, [tasks[t] EXCEPT !.codeTasks = @ \ codes, !.codeReqs = @ \cup {codes}])
  /\ UNCHANGED reverts

RevertCodes(t) ==
  \E codes \in tasks[t].codeReqs :
    Revert(t, [tasks[t] EXCEPT !.codeReqs = @ \ {codes}, !.codeTasks = @ \cup codes])

\* processBytecodeResponse
DeliverCodes(t) ==
  \E codes \in tasks[t].codeReqs : \E got \in (SUBSET codes) \ {{}} :
    LET served == {h \in tasks[t].needCode : Account(h).code \in got}
    IN Settle(t, [tasks[t] EXCEPT !.codeReqs = @ \ {codes}, !.codeTasks = @ \cup (codes \ got),
                                  !.needCode = @ \ served, !.pend = @ - Cardinality(served)], {}, got)

-----------------------------------------------------------------------------
(* Storage.                                                                *)

\* The chunks of large contracts, as pairs of account and index
Chunks(task) == {p \in HashSpace \X (1..2) : p[1] \in DOMAIN task.subTasks /\ p[2] \in DOMAIN task.subTasks[p[1]]}
Chunk(task, p) == task.subTasks[p[1]][p[2]]
IdleChunks(task) ==
  {p \in Chunks(task) : ~Chunk(task, p).asked /\ \A q \in Chunks(task) : q[1] = p[1] /\ q[2] < p[2] => Chunk(task, q).asked}

\* A chunk of a large contract first, several small contracts else
AskChunk(t) ==
  /\ syncing /\ tasks[t].filling
  /\ \E p \in IdleChunks(tasks[t]) : Update(t, [tasks[t] EXCEPT !.subTasks[p[1]][p[2]].asked = TRUE])
  /\ UNCHANGED reverts

AskStorage(t) ==
  /\ syncing /\ tasks[t].filling /\ IdleChunks(tasks[t]) = {}
  /\ \E n \in 1..Cardinality(tasks[t].stateTasks) : \E hashes \in [1..n -> tasks[t].stateTasks] :
       /\ IsInjective(hashes)
       /\ Update(t, [tasks[t] EXCEPT !.stateTasks = @ \ Range(hashes), !.stateReqs = @ \cup {hashes}])
  /\ UNCHANGED reverts

RevertStorage(t) ==
  \/ \E hashes \in tasks[t].stateReqs :
       Revert(t, [tasks[t] EXCEPT !.stateReqs = @ \ {hashes}, !.stateTasks = @ \cup Range(hashes)])
  \/ \E p \in Chunks(tasks[t]) :
       /\ Chunk(tasks[t], p).asked
       /\ Revert(t, [tasks[t] EXCEPT !.subTasks[p[1]][p[2]].asked = FALSE])

\* Slots for a chunk: what is beyond its end is cut off.
Fed(sub, root, slots, more) ==
  LET kept == {s \in slots : s <= sub.last}
      cont == more /\ \A s \in slots : s < sub.last
  IN [sub EXCEPT !.asked = FALSE, !.done = ~cont, !.next = IF cont THEN Largest(kept) + 1 ELSE @,
                 !.gen = [s \in DOMAIN @ \cup kept |-> IF s \in DOMAIN @ THEN @[s] ELSE root[s]]]

\* A stack trie that came to the root holds it all: the account need not be healed.
Healed(task, h, sub, root) ==
  IF sub.done /\ sub.gen = root THEN [task EXCEPT !.needHeal = @ \ {h}] ELSE task

ChunkNodes(sub, flush) == IF sub.done \/ flush THEN GenNodes(sub.gen, sub.done) ELSE {}

\* processStorageResponse for a chunk.  No slot at all is taken for a refusal.
DeliverChunk(t) ==
  \E p \in Chunks(tasks[t]) :
    LET sub == Chunk(tasks[t], p)
        root == Account(p[1]).root
    IN /\ sub.asked
       /\ \E slots \in Answers(root, sub.next, sub.last), flush \in BOOLEAN :
            \E fed \in {Fed(sub, root, slots, \E s \in DOMAIN root : s > Largest(slots))} :
              Settle(t, Healed([tasks[t] EXCEPT !.subTasks[p[1]][p[2]] = fed], p[1], fed, root), ChunkNodes(fed, flush), {})

\* The range from the last slot on is split, its first part joins what was delivered.
Split(last, n) == IF n = 1 THEN <<SubTask(0, 3)>> ELSE <<SubTask(0, last), SubTask(last + 1, 3)>>

\* ... for small contracts: the last may turn out to be a large one.
DeliverStorage(t) ==
  \E req \in tasks[t].stateReqs : \E n \in DOMAIN req :
    LET h == req[n]
        root == Account(h).root
        task == [tasks[t] EXCEPT !.stateReqs = @ \ {req},
                                 !.stateTasks = @ \cup {req[i] : i \in (n + 1)..Len(req)}]
        finished(hs) == [task EXCEPT !.needState = @ \ hs, !.pend = @ - Cardinality(hs)]
        before == {req[i] : i \in 1..(n - 1)}
        nodes(hs) == UNION {TrieNodes(Account(g).root) : g \in hs}
    IN \/ Settle(t, finished(before \cup {h}), nodes(before \cup {h}), {})
       \/ \E slots \in Answers(root, 0, 3) \ {DOMAIN root}, chunks \in 1..2, flush \in BOOLEAN :
            \E last \in Largest(slots)..2 :
              \E fed \in {Fed(Split(last, chunks)[1], root, slots, TRUE)} :
                Settle(t, Healed([finished(before) EXCEPT
                                    !.needHeal = @ \cup {h},
                                    !.subTasks = [g \in DOMAIN @ \cup {h} |->
                                       IF g = h THEN [Split(last, chunks) EXCEPT ![1] = fed] ELSE @[g]]],
                              req[Len(req)], fed, root),
                       nodes(before) \cup ChunkNodes(fed, flush), {})

-----------------------------------------------------------------------------
(* Healing.  A request is for a node of the account trie (owner Accounts)  *)
(* or of the storage trie of an account.                                   *)

Accounts == -1
NoHealer == [reqs |-> {}, got |-> {}, codes |-> {}, waits |-> {}, mem |-> {}, memCodes |-> {}]

OnDisk(owner, node) == node \in (IF owner = Accounts THEN stored.accounts ELSE stored.slots)
Request(owner, node) == <<owner, node[1], node[2]>>
NodeOf(req) == <<req[2], req[3]>>

\* NewStateSync
NewHealer(trie) ==
  [NoHealer EXCEPT !.reqs = IF TrieRoot(trie) \in stored.accounts THEN {} ELSE {Request(Accounts, TrieRoot(trie))}]

\* children, and for a leaf of the account trie onAccount
Missing(req) ==
  LET kids == {Request(req[1], n) : n \in Children(NodeOf(req))}
      leaves == IF req[1] = Accounts /\ kids = {} THEN DOMAIN req[3] ELSE {}
      roots == {Request(h, TrieRoot(req[3][h].root)) : h \in {g \in leaves : req[3][g].root # NoLeaves}}
  IN {r \in kids \cup roots : ~OnDisk(r[1], NodeOf(r)) /\ r \notin healer.mem}
MissingCodes(req) ==
  IF req[1] # Accounts \/ Children(NodeOf(req)) # {} THEN {}
  ELSE {p \in {<<req[3][h].code, h>> : h \in DOMAIN req[3]} : p[1] \notin stored.codes \cup healer.memCodes \cup {NoCode}}

\* A request whose subtree is there is committed, and then perhaps its parents.
Under(r, req) == (r[1] = req[1] /\ r[2] \subseteq req[2]) \/ (req[1] = Accounts /\ r[1] \in req[2])
Committed(walk) ==
  LET whole == {q \in walk.got : /\ \A r \in walk.reqs : Under(r, q) => r \in walk.got
                                 /\ \A w \in walk.waits : q[1] = Accounts => w[2] \notin q[2]}
  IN [walk EXCEPT !.reqs = @ \ whole, !.got = @ \ whole, !.mem = @ \cup whole]

\* commitHealer
Flushed(walk) ==
  [accounts |-> stored.accounts \cup {NodeOf(r) : r \in {q \in walk.mem : q[1] = Accounts}},
   slots |-> stored.slots \cup {NodeOf(r) : r \in {q \in walk.mem : q[1] # Accounts}},
   codes |-> stored.codes \cup walk.memCodes]

Proceed(new) ==
  /\ \/ healer' = new /\ UNCHANGED stored
     \/ healer' = [new EXCEPT !.mem = {}, !.memCodes = {}] /\ stored' = Flushed(new)
  /\ UNCHANGED <<tasks, pivot, syncing, saved, synced, cycles, reverts, syncKills>>

\* processTrienodeHealResponse, ProcessNode
HealNode ==
  /\ syncing /\ AllDone
  /\ \E req \in healer.reqs \ healer.got :
       Proceed(Committed([healer EXCEPT !.reqs = @ \cup Missing(req), !.got = @ \cup {req},
                                     !.codes = @ \cup {p[1] : p \in MissingCodes(req)},
                                     !.waits = @ \cup MissingCodes(req)]))

\* processBytecodeHealResponse, ProcessCode
HealCode ==
  /\ syncing /\ AllDone
  /\ \E code \in healer.codes :
       Proceed(Committed([healer EXCEPT !.codes = @ \ {code}, !.waits = {w \in @ : w[1] # code},
                                     !.memCodes = @ \cup {code}]))

-----------------------------------------------------------------------------
(* Cycles.                                                                 *)

Nothing == [t \in 1..2 |-> AccountTask(0, 0, NoLeaves, TRUE)]

SyncInit ==
  /\ tasks = Nothing /\ pivot = 1 /\ syncing = FALSE /\ healer = NoHealer
  /\ stored = [accounts |-> {}, slots |-> {}, codes |-> {}]
  /\ saved = FreshTasks /\ synced = {} /\ cycles = 0 /\ reverts = 0 /\ syncKills = 0

\* Sync, with loadSyncStatus; no status means fresh tasks.
StartCycle(p) ==
  /\ ~syncing /\ p >= pivot /\ cycles < MaxCycles /\ cycles' = cycles + 1
  /\ pivot' = p
  /\ tasks' = saved
  /\ healer' = NewHealer(States[p])
  /\ syncing' = ~(AllDone' /\ healer'.reqs = {})
  /\ synced' = IF syncing' THEN synced ELSE synced \cup {p}
  /\ UNCHANGED <<stored, saved, reverts, syncKills>>

\* What is left of a task in the status
Kept(task) ==
  IF task.done THEN AccountTask(0, 0, NoLeaves, TRUE)
  ELSE AccountTask(task.next, task.last,
         [h \in DOMAIN task.subTasks |->
            [i \in DOMAIN task.subTasks[h] |-> SubTask(task.subTasks[h][i].next, task.subTasks[h][i].last)]], FALSE)

\* The deferred calls of Sync: what was healed is flushed, tasks are forwarded as
\* far as they are complete, batches and status are written.
Leave(last) ==
  LET forwarded == [t \in DOMAIN tasks |-> IF tasks[t].filling THEN Forwarded(tasks[t]) ELSE tasks[t]]
  IN /\ tasks' = Nothing /\ syncing' = FALSE /\ healer' = NoHealer
     /\ saved' = [t \in DOMAIN tasks |-> Kept(forwarded[t])]
     /\ stored' = [Flushed(healer) EXCEPT
          !.accounts = @ \cup UNION {GenNodes(forwarded[t].gen, forwarded[t].done) : t \in DOMAIN tasks},
          !.slots = @ \cup UNION {UNION {ClosedNodes(Chunk(tasks[t], p).gen) : p \in Chunks(tasks[t])} : t \in DOMAIN tasks}]
     /\ synced' = last
     /\ UNCHANGED <<pivot, cycles, reverts, syncKills>>

StopCycle == syncing /\ Leave(synced)
EndCycle == syncing /\ AllDone /\ healer.reqs = {} /\ healer.codes = {} /\ Leave(synced \cup {pivot})

KillSync ==
  /\ syncing /\ syncKills < MaxSyncKills /\ syncKills' = syncKills + 1
  /\ tasks' = Nothing /\ syncing' = FALSE /\ healer' = NoHealer
  /\ UNCHANGED <<pivot, stored, saved, synced, cycles, reverts>>

SyncNext ==
  \/ \E p \in DOMAIN States : StartCycle(p)
  \/ StopCycle \/ EndCycle \/ KillSync
  \/ HealNode \/ HealCode
  \/ \E t \in DOMAIN tasks :
       \/ AskAccounts(t) \/ DeliverAccounts(t) \/ RevertAccounts(t)
       \/ AskCodes(t) \/ DeliverCodes(t) \/ RevertCodes(t)
       \/ AskChunk(t) \/ DeliverChunk(t)
       \/ AskStorage(t) \/ DeliverStorage(t) \/ RevertStorage(t)

SyncSpec == SyncInit /\ [][SyncNext]_syncVars

-----------------------------------------------------------------------------
(* What the state sync promises.                                           *)

SyncTypeOK ==
  /\ pivot \in DOMAIN States /\ synced \subseteq DOMAIN States
  /\ \A t \in DOMAIN tasks :
       /\ tasks[t].needCode \cup tasks[t].needState \cup tasks[t].needHeal \subseteq tasks[t].hashes
       /\ tasks[t].pend \in Nat
  /\ healer.got \subseteq healer.reqs

Held(account) ==
  /\ account.root # NoLeaves => TrieNodes(account.root) \subseteq stored.slots
  /\ account.code \in stored.codes \cup {NoCode}

\* A node on disk stands for all there is under it: chunks of large contracts, which
\* may come from several pivots, never leave an account above a hole.
SubtreesWhole ==
  /\ \A n \in stored.slots : SubTrie(n) \subseteq stored.slots
  /\ \A n \in stored.accounts : SubTrie(n) \subseteq stored.accounts /\ \A h \in DOMAIN n[2] : Held(n[2][h])

\* A state whose sync returned is there as a whole.
SyncedWhole ==
  SyncTypeOK /\ SubtreesWhole /\
  \A p \in synced : TrieNodes(States[p]) \subseteq stored.accounts /\ \A h \in DOMAIN States[p] : Held(States[p][h])

\* While a task waits, each thing it counts as pending is queued, in flight or in chunks.
NothingForgotten ==
  \A t \in DOMAIN tasks : tasks[t].filling =>
    LET task == tasks[t]
        queued == task.stateTasks \cup (UNION {Range(req) : req \in task.stateReqs}) \cup DOMAIN task.subTasks
    IN /\ task.pend = Cardinality(task.needCode) + Cardinality(task.needState) /\ task.pend > 0
       /\ task.needState = queued
       /\ {Account(h).code : h \in task.needCode} = task.codeTasks \cup UNION task.codeReqs

\* (refuted) Each chunk of a large contract has a slot, which a peer can answer with.
ChunksServable ==
  \A t \in DOMAIN tasks : \A p \in Chunks(tasks[t]) :
    tasks[t].filling => \E s \in DOMAIN Account(p[1]).root : s >= Chunk(tasks[t], p).next

\* What was synced is whole, and what is missing is being asked for (forwardAccountTask,
\* processStorageResponse, the revert functions).
SyncSound == SyncedWhole /\ NothingForgotten
=============================================================================
