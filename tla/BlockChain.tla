----------------------------- MODULE BlockChain -----------------------------
(***************************************************************************)
(* core/blockchain.go: the block store, the canonical chain laid over it   *)
(* and the states kept for it, for a node in full-sync mode without a      *)
(* freezer and without a snapshot tree.  Blocks arrive in batches          *)
(* (InsertChain), one at a time from the miner, or from a consensus client *)
(* as payloads and forkchoice updates; the chain is rewound by SetHead.    *)
(*                                                                         *)
(* chainmu serialises the operations, so at most one is running: op says   *)
(* where it is.  Every batch written to the database is a step of its own, *)
(* and the process may be killed between any two of them.                  *)
(***************************************************************************)
EXTENDS Naturals, FiniteSets

CONSTANTS
  Blocks, Genesis,  \* the blocks that may ever be imported form a tree
  Parent,           \* Parent[b]: the block named by ParentHash
  Num,              \* Num[b]: its number
  Chain,            \* Chain[b]: b and all its ancestors
  TD,               \* TD[b]: total difficulty
  Root,             \* Root[b]: the state root in its header
  Txs,              \* Txs[b]: its transactions
  Bad,              \* blocks whose execution fails
  TTD,              \* terminal total difficulty
  Retain,           \* TriesInMemory
  MaxCrashes, MaxRewinds, \* bounds on kills and SetHead calls
  None

Heights == {Num[b] : b \in Blocks}
AllTxs == UNION {Txs[b] : b \in Blocks}

\* Blocks are linked by hashes: a tree, whose chains have one block per number.
ASSUME TreeAssumption ==
  /\ Genesis \in Blocks /\ None \notin Blocks /\ None \notin Nat
  /\ Parent \in [Blocks -> Blocks] /\ Num \in [Blocks -> Nat]
  /\ Chain \in [Blocks -> SUBSET Blocks]
  /\ Num[Genesis] = 0 /\ Parent[Genesis] = Genesis /\ Chain[Genesis] = {Genesis}
  /\ \A b \in Blocks \ {Genesis} : /\ Num[b] = Num[Parent[b]] + 1
                                   /\ Chain[b] = Chain[Parent[b]] \cup {b}
  /\ \A b \in Blocks : \A x \in Chain[b] : Chain[x] \subseteq Chain[b] /\ Num[x] <= Num[b]
  /\ \A b \in Blocks : \A x, y \in Chain[b] : Num[x] = Num[y] => x = y
  /\ \A b \in Blocks : \A n \in 0 .. Num[b] : \E x \in Chain[b] : Num[x] = n

\* What the transition function guarantees of the blocks it accepts: difficulty
\* is not negative and a transaction is mined once in a chain.
ASSUME DataAssumption ==
  /\ TD \in [Blocks -> Nat] /\ TTD \in Nat
  /\ \A b \in Blocks : TD[Parent[b]] <= TD[b]
  /\ \A b \in Blocks : \A x, y \in Chain[b] : x # y => Txs[x] \cap Txs[y] = {}
  /\ Txs[Genesis] = {} /\ Bad \subseteq Blocks \ {Genesis}
  /\ Retain \in Nat \ {0}
  /\ MaxCrashes \in Nat /\ MaxRewinds \in Nat

VARIABLES
  stored,    \* blocks with header, body and total difficulty in the database
  receipts,  \* blocks with a receipt entry
  canon,     \* number -> canonical hash
  lookup,    \* transaction -> number of the block said to hold it
  head,      \* LastBlock, LastHeader and LastFast; the atomic values follow them
  flushed,   \* state roots in the database
  refs,      \* blocks whose root is referenced in the trie database (triegc)
  payload,   \* a payload NewPayload has found new and not inserted yet
  stopped,   \* procInterrupt
  archive,   \* cacheConfig.TrieDirtyDisabled: fixed by the operator of the node
  op,        \* the operation holding chainmu
  crashes, rewinds

diskVars == <<stored, receipts, canon, lookup, head, flushed>>
outside == <<archive, crashes, rewinds>>
vars == <<diskVars, refs, payload, stopped, op, outside>>

-----------------------------------------------------------------------------
(* Questions the code asks.                                                *)

\* The lowest block of a set of blocks on one chain.
First(blocks) == CHOOSE b \in blocks : \A c \in blocks : Num[b] <= Num[c]
Last(blocks) == CHOOSE b \in blocks : \A c \in blocks : Num[c] <= Num[b]

HasState(b) == Root[b] \in flushed \/ \E r \in refs : Root[r] = Root[b]
\* HasBlockAndState, which is ErrKnownBlock to an import.
Known(b) == b \in stored /\ HasState(b)
Valid(b) == ~Known(b) /\ Known(Parent[b])
Pruned(b) == ~Known(b) /\ Parent[b] \in stored /\ ~HasState(Parent[b])

\* (mutant) difficulties are not compared
NewestWins(b) == {TRUE}

\* The answers ReorgNeeded may give for b; the tie of two blocks of one number
\* is decided by a coin or by who mined them.
ReorgNeeded(b) ==
  CASE TD[b] >= TTD \/ TD[b] > TD[head.block] -> {TRUE}
    [] TD[b] < TTD /\ TD[b] < TD[head.block] -> {FALSE}
    [] OTHER -> CASE Num[b] < Num[head.block] -> {TRUE}
                  [] Num[b] = Num[head.block] -> BOOLEAN
                  [] OTHER -> {FALSE}

\* b and its ancestors down to, and without, the closest one with a state.
Stateless(b) == {x \in Chain[b] : \A y \in Chain[b] : Num[y] >= Num[x] => ~HasState(y)}
\* The closest ancestor of b, or b, with a state.
Stateful(b) == Last({x \in Chain[b] : HasState(x)})

-----------------------------------------------------------------------------
(* The operation in progress.                                              *)

\* Its place in the code, the blocks to import and to recover, whether imports
\* set the head, where writeHeadBlock returns to, and the locals of the callers.
Operations ==
  [at : {"idle", "enter", "trim", "again", "main", "state", "choose", "switch", "head",
         "side", "recover", "rewind", "down"},
   todo : SUBSET Blocks, rest : SUBSET Blocks, set : BOOLEAN, next : {"idle", "main"},
   block : Blocks \cup {None}, old : Blocks \cup {None}, last : Blocks \cup {None},
   prev : Blocks \cup {None}, start : Blocks \cup {None}, target : Blocks \cup {None},
   number : Heights]
Idle == [at |-> "idle", todo |-> {}, rest |-> {}, set |-> TRUE, next |-> "idle", block |-> None,
         old |-> None, last |-> None, prev |-> None, start |-> None, target |-> None, number |-> 0]
Ready == op.at = "idle"
At(where) == op.at = where
Goto(where) == op' = [op EXCEPT !.at = where]
Abort == op' = Idle

\* The end of one insertChain call: recoverAncestors makes one for each block.
EndBatch == IF op.set THEN Abort ELSE op' = [op EXCEPT !.at = "recover", !.todo = {}]

Extends(b) == Parent[b] = head.block

\* Make b the head: on top of the head at once, otherwise after reorg.
SwitchTo(b, next) ==
  op' = [op EXCEPT !.at = IF Extends(b) THEN "head" ELSE "switch",
                   !.block = b, !.old = head.block, !.next = next]

-----------------------------------------------------------------------------
(* The batches written to the database.                                    *)

\* writeBlockWithState, first half: td, header, body and receipts.
WriteBlock(b) ==
  /\ stored' = stored \cup {b}
  /\ receipts' = receipts \cup {b}

\* writeHeadBlock: markers, canonical hash and lookup entries in one batch.
WriteHead(b) ==
  /\ canon' = [canon EXCEPT ![Num[b]] = b]
  /\ lookup' = [t \in AllTxs |-> IF t \in Txs[b] THEN Num[b] ELSE lookup[t]]
  /\ head' = [block |-> b, header |-> b, fast |-> b]

\* The number of the first missing canonical hash above n: ranges that are
\* deleted upwards stop there.
Gap(n, present) == CHOOSE m \in {h + 1 : h \in Heights} : /\ m > n /\ m \notin present
                                                          /\ \A k \in n + 1 .. m - 1 : k \in present

\* The states triegc keeps once b's is in: those in the retention window.
Window(b) == {r \in refs \cup {b} : Num[r] > Num[b] - Retain}

\* writeBlockWithState, second half: the state enters the trie database; a full
\* node may flush an old canonical state (gcproc) or let Cap push out any of the
\* states it holds, and drops those below the retention window.
CommitState(b) ==
  IF archive THEN flushed' = flushed \cup {Root[b]} /\ UNCHANGED refs
  ELSE IF Num[b] <= Retain THEN refs' = refs \cup {b} /\ UNCHANGED flushed
  ELSE LET due == {c \in Blocks : /\ c = canon[Num[b] - Retain]
                                  /\ HasState(c) \/ Root[c] = Root[b]}
       IN /\ refs' = Window(b)
          /\ \E out \in {{}, due} \cup {{r} : r \in refs} :
                flushed' = flushed \cup {Root[r] : r \in out}

-----------------------------------------------------------------------------
(* Operations a caller may start once chainmu is free.                     *)

\* InsertChain of a linked batch from bottom to top: downloader, fetcher, future
\* blocks.
InsertChain(bottom, top) ==
  /\ Ready
  /\ op' = [Idle EXCEPT !.at = "enter", !.start = head.block,
                        !.todo = {x \in Chain[top] : Num[x] >= Num[bottom]}]
  /\ UNCHANGED <<diskVars, refs, payload, stopped, outside>>

\* The miner's WriteBlockAndSetHead of a block sealed on the head, or on what
\* was the head when sealing began; blocks beyond the transition are not sealed.
Mined(b) ==
  /\ Ready /\ b \notin stored \cup Bad /\ TD[Parent[b]] < TTD
  /\ Known(Parent[b]) /\ Parent[b] \in Chain[head.block]
  /\ WriteBlock(b)
  /\ op' = [Idle EXCEPT !.at = "state", !.start = head.block, !.block = b]
  /\ UNCHANGED <<canon, lookup, head, flushed, refs, payload, stopped, outside>>

\* NewPayload checks that the block is new and executable, under its own lock
\* only; it waits for chainmu afterwards.
Inserting == ~Ready /\ ~op.set /\ op.target = None
FreshPayload(b) == b \notin stored /\ Known(Parent[b]) /\ TD[Parent[b]] >= TTD
NewPayload(b) ==
  /\ ~At("down") /\ payload = None /\ ~Inserting
  /\ FreshPayload(b)
  /\ payload' = b
  /\ UNCHANGED <<diskVars, refs, stopped, op, outside>>

InsertBlockWithoutSetHead(b) ==
  op' = [Idle EXCEPT !.at = "enter", !.set = FALSE, !.todo = {b}]
InsertPayload ==
  /\ Ready /\ payload # None
  /\ InsertBlockWithoutSetHead(payload)
  /\ payload' = None
  /\ UNCHANGED <<diskVars, refs, stopped, outside>>

\* A gossiped block after the transition: only terminal blocks pass.
GossipTerminal(b) ==
  /\ Ready /\ b \notin stored /\ Parent[b] \in stored
  /\ TD[Parent[b]] < TTD /\ TTD <= TD[b]
  /\ \E p \in stored : TD[Parent[p]] >= TTD
  /\ InsertBlockWithoutSetHead(b)
  /\ UNCHANGED <<diskVars, refs, payload, stopped, outside>>

\* The states SetCanonical has to recover before it moves the head to b.
Missing(b) == Stateless(b)

\* ForkchoiceUpdated: SetCanonical unless the canonical hash of that number is
\* the block's already.
SetCanonical(b) ==
  /\ Ready /\ b \in stored /\ TD[b] >= TTD /\ canon[Num[b]] # b
  /\ op' = [Idle EXCEPT !.at = "recover", !.set = FALSE, !.target = b, !.rest = Missing(b)]
  /\ UNCHANGED <<diskVars, refs, payload, stopped, outside>>

SetHead(n) ==
  /\ Ready /\ rewinds < MaxRewinds
  /\ rewinds' = rewinds + 1
  /\ op' = [Idle EXCEPT !.at = "rewind", !.number = n, !.start = head.header]
  /\ UNCHANGED <<diskVars, refs, payload, stopped, archive, crashes>>

-----------------------------------------------------------------------------
(* insertChain.                                                            *)

\* The entry of insertChain, and of insertSideChain's call to it.
EnterBatch ==
  /\ At("enter")
  /\ IF stopped THEN EndBatch ELSE Goto("trim")
  /\ UNCHANGED <<diskVars, refs, payload, stopped, outside>>

\* The first block that is not known decides how the rest is imported.
Dispatch(b) ==
  CASE Valid(b) -> Goto("main")
    [] Pruned(b) /\ op.set -> op' = [op EXCEPT !.at = "side", !.last = b]
    [] Pruned(b) /\ ~op.set -> op' = [op EXCEPT !.at = "recover", !.todo = {}, !.rest = Stateless(b)]
    [] OTHER -> Abort

\* (mutant) an ignored block is looked at again
SkipNone(b) == UNCHANGED op

\* it.next() after a block that is ignored.
Skip(b) == op' = [op EXCEPT !.todo = @ \ {b}]

\* (mutant) a known block becomes the head as it is
AdoptKnown(b) == SwitchTo(b, "main")

\* The first known block that should be the head is executed once more: the
\* forker's answer came with err = nil in place of ErrKnownBlock, so that the loop
\* for known blocks after the trim never runs and the import loop takes the block
\* for a new one.
ExecuteKnown(b) == Goto("again")

\* Left-trim: known blocks are ignored until one of them should be the head.
Trim ==
  /\ At("trim")
  /\ IF op.todo = {} THEN EndBatch
     ELSE LET b == First(op.todo) IN
          IF ~Known(b) THEN Dispatch(b)
          ELSE \E needed \in ReorgNeeded(b) :
                 IF needed /\ (Num[b] > Num[head.block] \/ canon[Num[b]] # b)
                 THEN ExecuteKnown(b)
                 ELSE Skip(b)
  /\ UNCHANGED <<diskVars, refs, payload, stopped, outside>>

\* The import loop, and its first turn after a trim that found such a block.
Importing == At("main") \/ At("again")
ImportStops == Importing /\ (op.todo = {} \/ stopped) /\ EndBatch
               /\ UNCHANGED <<diskVars, refs, payload, stopped, outside>>

\* A block whose state has turned up in the meantime becomes the head without
\* execution, any other is executed on the state of its parent and written.
ImportKnown ==
  /\ At("main") /\ op.todo # {} /\ ~stopped
  /\ LET b == First(op.todo) IN
       /\ Known(b)
       /\ receipts' = IF Txs[b] = {} THEN receipts \cup {b} ELSE receipts
       /\ SwitchTo(b, "main")
  /\ UNCHANGED <<stored, canon, lookup, head, flushed, refs, payload, stopped, outside>>
Executable(b) == IF At("again") THEN HasState(Parent[b]) ELSE Valid(b)
ImportExecutes ==
  /\ Importing /\ op.todo # {} /\ ~stopped
  /\ LET b == First(op.todo) IN
       /\ Executable(b) /\ b \notin Bad
       /\ WriteBlock(b)
       /\ op' = [op EXCEPT !.at = "state", !.todo = @ \ {b}, !.block = b]
  /\ UNCHANGED <<canon, lookup, head, flushed, refs, payload, stopped, outside>>
ImportFails ==
  /\ Importing /\ op.todo # {} /\ ~stopped
  /\ LET b == First(op.todo) IN (At("main") => ~Known(b)) /\ (Executable(b) => b \in Bad)
  /\ Abort
  /\ UNCHANGED <<diskVars, refs, payload, stopped, outside>>

WriteState ==
  /\ At("state")
  /\ CommitState(op.block)
  /\ IF op.set THEN Goto("choose") ELSE EndBatch
  /\ UNCHANGED <<stored, receipts, canon, lookup, head, payload, stopped, outside>>

Choose ==
  /\ At("choose")
  /\ \E needed \in ReorgNeeded(op.block) :
       IF needed THEN SwitchTo(op.block, "main") ELSE Goto("main")
  /\ UNCHANGED <<diskVars, refs, payload, stopped, outside>>

-----------------------------------------------------------------------------
(* reorg and writeHeadBlock.                                               *)

\* The blocks of the new chain below its head that are not written yet.
PathLeft == (Chain[op.block] \ Chain[head.block]) \ {op.block}

ReorgWrite ==
  /\ At("switch") /\ PathLeft # {}
  /\ WriteHead(First(PathLeft))
  /\ UNCHANGED <<stored, receipts, flushed, refs, payload, stopped, op, outside>>

\* (mutant) every transaction of the old chain is dropped from the index
AllOldTxs(old, new) == UNION {Txs[b] : b \in Chain[old] \ Chain[new]}

\* Transactions of the old chain the new one does not hold below its head.
LostTxs(old, new) ==
  LET dropped == Chain[old] \ Chain[new]
      added == (Chain[new] \ Chain[old]) \ {new}
  IN (UNION {Txs[b] : b \in dropped}) \ (UNION {Txs[b] : b \in added})

\* (mutant) canonical hashes are only ever overwritten
NoFloor(old, new) == Num[old] + Num[new]

\* The number above which canonical hashes are deleted: new's parent was written
\* as part of the path or is the common ancestor.
IndexFloor(old, new) == IF new \in Chain[old] THEN Num[new] ELSE Num[new] - 1

ReorgIndex ==
  /\ At("switch") /\ PathLeft = {}
  /\ LET number == IndexFloor(op.old, op.block)
         end == Gap(number, {n \in Heights : canon[n] # None})
     IN canon' = [n \in Heights |-> IF number < n /\ n < end THEN None ELSE canon[n]]
  /\ lookup' = [t \in AllTxs |-> IF t \in LostTxs(op.old, op.block) THEN None ELSE lookup[t]]
  /\ Goto("head")
  /\ UNCHANGED <<stored, receipts, head, flushed, refs, payload, stopped, outside>>

WriteHeadBlock ==
  /\ At("head")
  /\ WriteHead(op.block)
  /\ IF op.next = "idle" THEN Abort
     ELSE op' = [op EXCEPT !.at = op.next, !.todo = @ \ {op.block}, !.block = None, !.old = None]
  /\ UNCHANGED <<stored, receipts, flushed, refs, payload, stopped, outside>>

-----------------------------------------------------------------------------
(* insertSideChain and recoverAncestors.                                   *)

SidePending == op.todo # {} /\ Pruned(First(op.todo))
\* The canonical block of b's number, if the head is not below it.
Rival(b) == IF Num[b] <= Num[head.block] THEN canon[Num[b]] ELSE None
Ghost(b) == Rival(b) \notin {b, None} /\ Root[Rival(b)] = Root[b]

\* A canonical block whose state was pruned is passed over.
SideCanonical ==
  /\ At("side") /\ SidePending
  /\ LET b == First(op.todo) IN
       /\ Rival(b) = b
       /\ op' = [op EXCEPT !.todo = @ \ {b}, !.prev = b]
  /\ UNCHANGED <<diskVars, refs, payload, stopped, outside>>
\* A block claiming the root of its canonical rival is refused.
SideGhost ==
  /\ At("side") /\ SidePending
  /\ Ghost(First(op.todo))
  /\ Abort
  /\ UNCHANGED <<diskVars, refs, payload, stopped, outside>>
\* Any other is stored without its state.
SideStore ==
  /\ At("side") /\ SidePending
  /\ LET b == First(op.todo) IN
       /\ Rival(b) # b /\ ~Ghost(b)
       /\ IF b \notin stored /\ stopped THEN Abort /\ UNCHANGED stored
          ELSE /\ stored' = stored \cup {b}
               /\ op' = [op EXCEPT !.todo = @ \ {b}, !.prev = b, !.last = b]
  /\ UNCHANGED <<receipts, canon, lookup, head, flushed, refs, payload, stopped, outside>>
\* (mutant) a side chain that wins becomes canonical without being executed
SideDecideAtOnce ==
  /\ At("side") /\ ~SidePending
  /\ \E needed \in ReorgNeeded(op.last) : IF needed THEN SwitchTo(op.last, "idle") ELSE Abort
  /\ UNCHANGED <<diskVars, refs, payload, stopped, outside>>

\* If the side chain wins, all its blocks without a state are imported again.
SideDecide ==
  /\ At("side") /\ ~SidePending
  /\ \E needed \in ReorgNeeded(op.last) :
       IF needed /\ Stateless(op.prev) # {}
       THEN op' = [op EXCEPT !.at = "enter", !.todo = Stateless(op.prev), !.last = None, !.prev = None]
       ELSE Abort
  /\ UNCHANGED <<diskVars, refs, payload, stopped, outside>>

\* (mutant) recovering is taken for the whole of SetCanonical
RecoverOnly ==
  IF op.rest = {} THEN Abort
  ELSE op' = [op EXCEPT !.at = "enter", !.todo = {First(op.rest)}, !.rest = @ \ {First(op.rest)}]

\* recoverAncestors: one insertChain call, without setting the head, for each
\* missing state; SetCanonical then switches to its target.
RecoverNext ==
  CASE op.rest # {} /\ stopped -> Abort
    [] op.rest # {} /\ ~stopped ->
         LET b == First(op.rest)
         IN op' = [op EXCEPT !.at = "enter", !.todo = {b}, !.rest = @ \ {b}]
    [] op.rest = {} /\ op.target # None -> SwitchTo(op.target, "idle")
    [] OTHER -> Abort
Recover ==
  /\ At("recover") /\ RecoverNext
  /\ UNCHANGED <<diskVars, refs, payload, stopped, outside>>

-----------------------------------------------------------------------------
(* SetHead.                                                                *)

\* updateFn: the full block goes back to a block with a state.
RewoundBlock(parent) == IF Num[parent] <= Num[head.block] THEN Stateful(parent) ELSE head.block

\* One header is taken off.
RewindStep ==
  /\ At("rewind") /\ Num[head.header] > op.number
  /\ LET parent == Parent[head.header] IN
       head' = [block |-> RewoundBlock(parent),
                header |-> parent,
                fast |-> IF Num[parent] < Num[head.fast] THEN parent ELSE head.fast]
  /\ UNCHANGED <<stored, receipts, canon, lookup, flushed, refs, payload, stopped, op, outside>>

\* (mutant) blocks above the old head stay
WipedToHead ==
  IF op.start = head.header THEN {} ELSE Num[head.header] + 1 .. Num[op.start]

\* The numbers taken off, with what is left contiguously above the old head.
Wiped ==
  IF op.start = head.header THEN {}
  ELSE Num[head.header] + 1 .. Gap(Num[op.start], {Num[b] : b \in stored}) - 1

\* All forks at these numbers are deleted in one batch; lookups stay.
RewindDelete ==
  /\ At("rewind") /\ Num[head.header] <= op.number
  /\ LET wiped == Wiped
     IN /\ stored' = {b \in stored : Num[b] \notin wiped}
        /\ receipts' = {b \in receipts : Num[b] \notin wiped}
        /\ canon' = [n \in Heights |-> IF n \in wiped THEN None ELSE canon[n]]
  /\ Abort
  /\ UNCHANGED <<lookup, head, flushed, refs, payload, stopped, outside>>

-----------------------------------------------------------------------------
(* Shutdown, kill, restart.                                                *)

StopInsert ==
  /\ ~At("down") /\ ~stopped
  /\ stopped' = TRUE
  /\ UNCHANGED <<diskVars, refs, payload, op, outside>>

\* The process is gone: what was only in memory is lost.
Lost == op' = [Idle EXCEPT !.at = "down"] /\ refs' = {} /\ stopped' = FALSE /\ payload' = None

\* Stop waits for chainmu and saves the states of HEAD, HEAD-1 and HEAD-127, in
\* this order; killed in between, it has saved the first ones.
Offsets == {{0}, {0, 1}, {0, 1, Retain - 1}}
Saved(offsets) ==
  {Root[b] : b \in {c \in Blocks : /\ HasState(c)
                                   /\ \E o \in offsets : /\ Num[head.block] > o
                                                         /\ canon[Num[head.block] - o] = c}}
Stop ==
  /\ Ready /\ stopped
  /\ \E offsets \in Offsets :
       flushed' = IF archive THEN flushed ELSE flushed \cup Saved(offsets)
  /\ Lost
  /\ UNCHANGED <<stored, receipts, canon, lookup, head, outside>>

Crash ==
  /\ ~At("down") /\ crashes < MaxCrashes
  /\ crashes' = crashes + 1
  /\ Lost
  /\ UNCHANGED <<diskVars, archive, rewinds>>

\* loadLastState, and the repair of a head without a state: the block marker
\* goes back to one with a state, headers and canonical hashes stay.
Repair(b) == [block |-> Stateful(b), header |-> head.header,
              fast |-> IF Num[b] < Num[head.fast] THEN b ELSE head.fast]
Restart ==
  /\ At("down")
  /\ head' = IF HasState(head.block) THEN head ELSE Repair(head.block)
  /\ op' = Idle
  /\ UNCHANGED <<stored, receipts, canon, lookup, flushed, refs, payload, stopped, outside>>

-----------------------------------------------------------------------------
Init ==
  /\ stored = {Genesis} /\ receipts = {Genesis}
  /\ canon = [n \in Heights |-> IF n = 0 THEN Genesis ELSE None]
  /\ lookup = [t \in AllTxs |-> None]
  /\ head = [block |-> Genesis, header |-> Genesis, fast |-> Genesis]
  /\ flushed = {Root[Genesis]} /\ refs = {}
  /\ payload = None /\ stopped = FALSE /\ archive \in BOOLEAN /\ op = Idle
  /\ crashes = 0 /\ rewinds = 0

Call ==
  \/ \E top \in Blocks \ {Genesis} : \E bottom \in Chain[top] \ {Genesis} : InsertChain(bottom, top)
  \/ \E b \in Blocks \ {Genesis} : Mined(b) \/ NewPayload(b) \/ GossipTerminal(b) \/ SetCanonical(b)
  \/ InsertPayload
  \/ \E n \in Heights : SetHead(n)
Import == \/ EnterBatch \/ Trim
          \/ ImportStops \/ ImportKnown \/ ImportExecutes \/ ImportFails
          \/ WriteState \/ Choose
          \/ ReorgWrite \/ ReorgIndex \/ WriteHeadBlock
          \/ SideCanonical \/ SideGhost \/ SideStore \/ SideDecide \/ Recover
Rewind == RewindStep \/ RewindDelete
Process == StopInsert \/ Stop \/ Crash \/ Restart

Next == Call \/ Import \/ Rewind \/ Process
Spec == Init /\ [][Next]_vars

\* A running operation goes on, and the wait for chainmu in Stop is served in
\* the order of arrival (syncx.ClosableMutex is a channel), however often others
\* take it in between.  Nothing obliges anyone to call.
FairSpec == Spec /\ WF_vars(Import) /\ WF_vars(Rewind) /\ SF_vars(Stop)

-----------------------------------------------------------------------------
(* Properties.                                                             *)

\* Every variable has its type (blockchain.go:169-222, the database schema).
TypeOK ==
  /\ stored \subseteq Blocks /\ receipts \subseteq stored
  /\ canon \in [Heights -> Blocks \cup {None}]
  /\ lookup \in [AllTxs -> Heights \cup {None}]
  /\ head \in [block : Blocks, header : Blocks, fast : Blocks]
  /\ flushed \subseteq {Root[b] : b \in Blocks} /\ refs \subseteq Blocks
  /\ payload \in Blocks \cup {None} /\ stopped \in BOOLEAN /\ archive \in BOOLEAN
  /\ op \in Operations
  /\ crashes \in 0 .. MaxCrashes /\ rewinds \in 0 .. MaxRewinds

\* Whatever the order of batches and kills, the markers name stored blocks of
\* one chain and a stored block has its parent: loadLastState never resets the
\* chain, reorg never meets "invalid old chain".
MarkersSound ==
  /\ TypeOK
  /\ {head.block, head.header, head.fast} \subseteq stored
  /\ {head.block, head.fast} \subseteq Chain[head.header]
  /\ \A b \in stored : Parent[b] \in stored

\* Up to the head header the canonical hashes are its ancestors, all along a
\* reorg and a rewind: Stop and insertSideChain read them without a nil check.
\* The one moment left out is between the last two batches of reorg, which a kill
\* makes last for ever.
CanonBelowHeader == ~At("head") => \A b \in Chain[head.header] : canon[Num[b]] = b
CanonUnlessKilled == crashes = 0 => CanonBelowHeader

\* Every transaction of the head's chain is found at its number, although reorg
\* deletes lookups; the same moment is left out.
TxIndexed ==
  crashes = 0 /\ ~At("head") => \A b \in Chain[head.block] : \A x \in Txs[b] : lookup[x] = Num[b]

\* Every block of the head's chain has a receipt entry, which the freezer and
\* the peers ask for, although side chains are stored without.  Left out are a
\* stop in the middle of recoverAncestors, which goes on as if the block were
\* executed (the next start goes back to a block that was), and rewound chains,
\* where a state left over from before stands for a side block whose receipts were
\* deleted: its children are executed on that state, and it is not executed again.
ReceiptsOfCanon ==
  rewinds = 0 /\ ~stopped /\ ~At("down") => Chain[head.block] \subseteq receipts

\* A block whose execution fails never enters the chain of the head, although
\* side chains are stored before they are executed and known blocks in the middle
\* of a batch are not executed again.
OnlyExecutedCanonical == Chain[head.header] \cap Bad = {}

\* Between operations the head block has its state, unless a block was imported
\* so far above the head that the head left the retention window.
HeadHasState ==
  Ready /\ ~stopped =>
    HasState(head.block) \/ \E r \in refs : Num[r] >= Num[head.block] + Retain

\* GetBlockByNumber always represents the canonical chain (blockchain.go:166-168)
\* of an archive node that is not killed: between operations no canonical hash
\* names a block outside the chain of the head header.
CanonIsHeadChain ==
  archive /\ crashes = 0 /\ Ready =>
    \A n \in Heights : canon[n] # None => canon[n] \in Chain[head.header]

\* There an import that runs to its end never leaves a head of lower total
\* difficulty than it found, unless the new one is beyond the terminal difficulty.
HeadNeverLighter ==
  [][archive /\ crashes = 0 /\ ~Ready /\ ~At("rewind") /\ op' = Idle /\ op.start # None =>
       TD[head'.block] >= TD[op.start] \/ TD[head'.block] >= TTD]_vars

\* The chain of a node that is not killed: no canonical hash beside it, none missing.
CanonIsChain == CanonUnlessKilled /\ CanonIsHeadChain

\* What is read through the canonical chain is there: lookups and receipts.
IndexesComplete == TxIndexed /\ ReceiptsOfCanon

\* The head is a block that was executed, all its ancestors were, and its state is there.
HeadExecuted == HeadHasState /\ OnlyExecutedCanonical

\* InsertBlockWithoutSetHead does not update the canonical chain, as its comment
\* says (blockchain.go:2187-2190), through all the imports it makes, even when the
\* payload NewPayload found new has been imported and left by the head while the
\* insertion waited for chainmu, or its ancestors have to be recovered.
PayloadKeepsHead == [][Inserting => head' = head /\ canon' = canon]_vars

\* What the comment on the loop for known blocks says of it (blockchain.go:1559-1566):
\* a batch of known blocks that the forker wants can be imported again.  The
\* block is executed instead, which needs the state of its parent.
KnownReimported == At("again") => HasState(Parent[First(op.todo)])

\* A SetCanonical that is not interrupted ends with the head it was told, even
\* when states of the target's ancestors have to be recovered first, unless one
\* of them fails.
HeadAsTold ==
  [][~Ready /\ ~At("down") /\ op.target # None /\ op' = Idle /\ ~stopped =>
       head'.block = op.target \/ Chain[op.target] \cap Bad # {}]_vars
\* Every operation comes to its end: the nested imports of insertSideChain and
\* recoverAncestors do not call each other for ever.
OperationsEnd == ~Ready /\ ~At("down") ~> Ready \/ At("down")

\* Once StopInsert was called, the process gets to its end whatever it was doing
\* and whoever else waits for the lock.
ShutdownEnds == stopped ~> At("down")

\* Nothing runs or waits for ever.
AllEnds == OperationsEnd /\ ShutdownEnds
=============================================================================
