----------------------------- MODULE PivotSync -----------------------------
(***************************************************************************)
(* eth/downloader: the goroutines of a snap sync and the pivot they share. *)
(*                                                                         *)
(* Below the pivot blocks come with receipts, its own state is downloaded, *)
(* above it blocks are executed.  Peers keep few states, so the pivot has  *)
(* to follow their head.  In legacy mode the goroutine that fetches        *)
(* headers from the master peer (fetchHeaders) moves it, and so does the   *)
(* one that takes the results (processSnapSyncContent); in beacon mode,    *)
(* where headers come from the skeleton, only the latter does.  A third    *)
(* (processHeaders) inserts headers and takes them back when a sync fails. *)
(*                                                                         *)
(* All peers are on one chain, so a block is its number.  The queue of     *)
(* block parts (DownloadQueue) is a counter here, the state sync           *)
(* (SnapSync) a root that peers may still have or not.                     *)
(***************************************************************************)
EXTENDS Integers, Sequences, FiniteSets

CONSTANTS
  MinFullBlocks,      \* fsMinFullBlocks (64)
  HeaderDelay,        \* reorgProtHeaderDelay (2)
  DelayThreshold,     \* reorgProtThreshold (48)
  ConfirmSlack,       \* a new pivot has to be this less than two full distances deep (8)
  HeaderFetch,        \* MaxHeaderFetch, and the most headers in a task
  SafetyNet,          \* fsHeaderSafetyNet (2048)
  FirstHead, LastHead, \* bounds of the head of the peers
  MaxSyncs, MaxCancels, \* bounds
  NoPivot

ASSUME PivotAssumption ==
  /\ {MinFullBlocks, HeaderDelay, DelayThreshold, ConfirmSlack, HeaderFetch, SafetyNet, FirstHead, LastHead} \subseteq Nat
  /\ 0 < HeaderDelay /\ HeaderDelay < MinFullBlocks /\ ConfirmSlack < MinFullBlocks
  /\ HeaderFetch > 0 /\ MinFullBlocks < FirstHead /\ FirstHead <= LastHead /\ NoPivot \notin Nat

VARIABLES
  legacy,     \* whether the master peer or the skeleton gives the headers
  peerHead,
  chain,      \* markers, last header on disk, bodies, states, the last pivot number
  fetcher,    \* fetchHeaders or fetchBeaconHeaders
  headerTasks, \* headerProcCh
  processor,  \* processHeaders
  results,    \* scheduled and taken headers of the queue, and whether it is closed
  pivotHeader, committed,
  content,    \* processSnapSyncContent
  stateSync,
  canceled,   \* cancelCh is closed
  blame,      \* what ended the sync
  stranded,   \* history: whether the pivot SnapSyncCommitHead saw was deleted, and is the head
  syncs, cancels

pivotVars == <<legacy, peerHead, chain, fetcher, headerTasks, processor, results, pivotHeader, committed,
               content, stateSync, canceled, blame, stranded, syncs, cancels>>

Top(S) == CHOOSE n \in S : \A m \in S : m <= n
Contiguous(S) == \A n \in S : n = Top(S) \/ n + 1 \in S
Max2(m, n) == IF m < n THEN n ELSE m

\* Peers keep the states of their last blocks.
Served(root) == peerHead < root + 2 * MinFullBlocks

-----------------------------------------------------------------------------
(* Ends.                                                                   *)

PivotEnded == fetcher.at = "ended" /\ processor.at = "ended" /\ content.at = "ended"

\* spawnSync: an error other than a cancel closes the queue and cancels the rest.
Fail(what) ==
  /\ canceled' = TRUE /\ results' = [results EXCEPT !.closed = TRUE]
  /\ blame' = IF blame = "none" THEN what ELSE blame

StopSync ==
  /\ ~PivotEnded /\ ~canceled /\ cancels < MaxCancels /\ cancels' = cancels + 1
  /\ Fail("canceled")
  /\ UNCHANGED <<legacy, peerHead, chain, fetcher, headerTasks, processor, pivotHeader, committed, content, stateSync, stranded, syncs>>

\* All but the content are through.
CloseResults ==
  /\ fetcher.at = "ended" /\ processor.at = "ended" /\ ~results.closed
  /\ results' = [results EXCEPT !.closed = TRUE]
  /\ UNCHANGED <<legacy, peerHead, chain, fetcher, headerTasks, processor, pivotHeader, committed, content, stateSync,
                 canceled, blame, stranded, syncs, cancels>>

NewHead ==
  /\ peerHead < LastHead /\ ~PivotEnded /\ peerHead' = peerHead + 1
  /\ UNCHANGED <<legacy, chain, fetcher, headerTasks, processor, results, pivotHeader, committed, content, stateSync,
                 canceled, blame, stranded, syncs, cancels>>

-----------------------------------------------------------------------------
(* Headers.                                                                *)

NoFetcher == [at |-> "ended", from |-> 0, first |-> 0, asked |-> 0]
FetcherOnly == UNCHANGED <<legacy, peerHead, processor, content, stateSync, committed, stranded, syncs, cancels>>
Keep == UNCHANGED <<chain, results, pivotHeader, canceled, blame>>

Push(headers) == Len(headerTasks) = 0 /\ headerTasks' = <<headers>>
After(from) == {n \in from..peerHead : n < from + HeaderFetch}

\* A full batch of the skeleton; then the pivot is checked.
FetchSkeleton ==
  /\ fetcher.at = "skeleton" /\ ~canceled
  /\ \/ /\ fetcher.from + HeaderFetch - 1 <= peerHead
        /\ Push(After(fetcher.from))
        /\ fetcher' = [fetcher EXCEPT !.from = @ + HeaderFetch, !.at = "check"]
     \/ /\ fetcher.from + HeaderFetch - 1 > peerHead
        /\ fetcher' = [fetcher EXCEPT !.at = "direct"] /\ UNCHANGED headerTasks
  /\ Keep /\ FetcherOnly

AskPivot ==
  /\ fetcher.at = "check" /\ ~canceled
  /\ fetcher' = [fetcher EXCEPT !.at = "asked", !.asked = pivotHeader]
  /\ UNCHANGED headerTasks /\ Keep /\ FetcherOnly

\* Both headers came, or too few: the answer is compared with the pivot as it is now.
AnswerPivot ==
  /\ fetcher.at = "asked" /\ ~canceled
  /\ \/ /\ peerHead < fetcher.asked + 2 * MinFullBlocks - ConfirmSlack
        /\ fetcher' = [fetcher EXCEPT !.at = "skeleton", !.asked = 0] /\ Keep
     \/ /\ peerHead >= fetcher.asked + 2 * MinFullBlocks - ConfirmSlack
        /\ \/ /\ fetcher.asked = pivotHeader
              /\ fetcher' = [fetcher EXCEPT !.at = "moving"] /\ Keep
           \/ /\ fetcher.asked # pivotHeader
              /\ fetcher' = NoFetcher
              /\ Fail("next pivot") /\ UNCHANGED <<chain, pivotHeader>>
  /\ UNCHANGED headerTasks /\ FetcherOnly

MovePivot ==
  /\ fetcher.at = "moving"
  /\ pivotHeader' = fetcher.asked + MinFullBlocks
  /\ fetcher' = [fetcher EXCEPT !.at = "noting"]
  /\ UNCHANGED <<chain, headerTasks, results, canceled, blame>> /\ FetcherOnly

NotePivot ==
  /\ fetcher.at = "noting"
  /\ chain' = [chain EXCEPT !.lastPivot = fetcher.asked + MinFullBlocks]
  /\ fetcher' = [fetcher EXCEPT !.at = "skeleton", !.asked = 0]
  /\ UNCHANGED <<pivotHeader, headerTasks, results, canceled, blame>> /\ FetcherOnly

\* The last headers are held back while the local head is far behind.
FetchDirect ==
  /\ fetcher.at = "direct" /\ ~canceled
  /\ LET got == After(fetcher.from)
         local == Max2(Max2(chain.fast, chain.full), fetcher.first)
         kept == IF got # {} /\ local + DelayThreshold < Top(got) THEN {n \in got : n <= Top(got) - HeaderDelay} ELSE got
     IN /\ kept # {}
        /\ Push(kept)
        /\ fetcher' = [fetcher EXCEPT !.from = @ + Cardinality(kept)]
  /\ Keep /\ FetcherOnly

\* fetchBeaconHeaders: the head is read again when all up to it were passed on.
FetchBeacon ==
  /\ fetcher.at = "beacon" /\ ~canceled
  /\ After(fetcher.from) # {}
  /\ Push(After(fetcher.from))
  /\ fetcher' = [fetcher EXCEPT !.from = @ + Cardinality(After(fetcher.from))]
  /\ Keep /\ FetcherOnly

\* No more headers, and nothing to wait for
EndHeaders ==
  /\ fetcher.at \in {"direct", "beacon"} /\ ~canceled
  /\ fetcher.from > peerHead
  /\ committed \/ (legacy /\ fetcher.from < pivotHeader)
  /\ Push({})
  /\ fetcher' = NoFetcher
  /\ Keep /\ FetcherOnly

DropFetcher ==
  /\ canceled /\ fetcher.at \notin {"ended", "moving", "noting"}
  /\ fetcher' = NoFetcher
  /\ UNCHANGED headerTasks /\ Keep /\ FetcherOnly

\* processHeaders.  The headers of the safety net are uncertain until the end.
ProcessHeaders ==
  /\ processor.at = "running" /\ Len(headerTasks) = 1 /\ ~canceled
  /\ headerTasks' = <<>>
  /\ LET headers == Head(headerTasks)
     IN \/ /\ headers = {}
           /\ processor' = [processor EXCEPT !.at = "ended"] /\ UNCHANGED <<chain, results>>
        \/ /\ headers # {}
           /\ chain' = [chain EXCEPT !.header = Max2(@, Top(headers)), !.known = Max2(@, Top(headers))]
           /\ processor' = [processor EXCEPT !.rollback =
                              IF Top(headers) - @ > SafetyNet THEN Top(headers) - SafetyNet ELSE 1]
           /\ results' = [results EXCEPT !.scheduled = Top(headers)]
  /\ UNCHANGED <<legacy, peerHead, fetcher, pivotHeader, committed, content, stateSync, canceled, blame, stranded, syncs, cancels>>

\* SetHead goes back to a block with state, and to genesis from the pivot on or if
\* there is a gap.
Rewound(n) ==
  LET whole == {m \in 0..n : m \in chain.states /\ \A k \in (m + 1)..n : k \in chain.blocks /\ k > chain.lastPivot}
  IN IF n \notin chain.blocks \/ whole = {} THEN 0 ELSE Top(whole)

HeadSet(target) ==
  LET passed == {n \in target..(chain.header - 1) : n <= chain.full}
  IN [chain EXCEPT !.header = target, !.known = target, !.blocks = {n \in @ : n <= target \/ n > chain.known},
                   !.fast = IF @ <= target THEN @ ELSE IF target \in chain.blocks THEN target ELSE 0,
                   !.full = IF target > @ THEN @
                            ELSE IF \E n \in passed : Rewound(n) = 0 THEN 0 ELSE Rewound(target)]

\* What the header processor undoes, above the rollback's target and below the marker.
RollBack ==
  /\ canceled /\ processor.at = "running"
  /\ processor' = [at |-> "ended", rollback |-> 0]
  /\ LET target == processor.rollback - 1
     IN IF 0 <= target /\ target < chain.header
        THEN /\ chain' = HeadSet(target)
             /\ stranded' = [pivot |-> content.at = "store" /\ target < content.oldPivot,
                             head |-> stranded.head /\ chain.full < target]
        ELSE UNCHANGED <<chain, stranded>>
  /\ UNCHANGED <<legacy, peerHead, fetcher, headerTasks, results, pivotHeader, committed, content, stateSync,
                 canceled, blame, syncs, cancels>>

-----------------------------------------------------------------------------
(* Content.                                                                *)

ContentOnly == UNCHANGED <<legacy, peerHead, fetcher, headerTasks, processor, syncs, cancels>>

Idle(at) == [at |-> at, results |-> {}, pivot |-> 0, oldPivot |-> NoPivot, oldTail |-> {}, after |-> {}, todo |-> {}, batch |-> {}]
Syncing(root) == [root |-> root, done |-> FALSE]
Break(what) == Fail(what) /\ content' = Idle("ended")

\* What the queue has complete, with what was held back while the pivot waits for its
\* state.  A pivot moved by the header fetcher restarts the state sync.
TakeResults ==
  /\ content.at = "take"
  /\ \E last \in results.taken..results.scheduled :
       LET new == (results.taken + 1)..last
       IN /\ content.oldPivot = NoPivot => new # {}
          /\ new = {} => ~canceled
          /\ results' = [results EXCEPT !.taken = last]
          /\ content' = [content EXCEPT !.at = "settle", !.pivot = pivotHeader,
                           !.results = IF content.oldPivot = NoPivot THEN new ELSE {content.oldPivot} \cup content.oldTail \cup new]
          /\ stateSync' = IF content.oldPivot = NoPivot /\ pivotHeader # stateSync.root THEN Syncing(pivotHeader) ELSE stateSync
  /\ UNCHANGED <<chain, pivotHeader, committed, canceled, blame, stranded>> /\ ContentOnly

\* Nothing left: the state sync is ended, which is an error unless it was done.
EndContent ==
  /\ content.at = "take" /\ results.closed
  /\ \/ content.oldPivot = NoPivot
     \/ canceled
  /\ content' = Idle("ended")
  /\ IF content.oldPivot = NoPivot /\ ~stateSync.done THEN Fail("state sync left") ELSE UNCHANGED <<results, canceled, blame>>
  /\ UNCHANGED <<chain, pivotHeader, committed, stateSync, stranded>> /\ ContentOnly

\* The block a distance below the last, withheld headers included
NewPivot(blocks) == LET at == Cardinality(blocks) - MinFullBlocks + HeaderDelay
                    IN CHOOSE n \in blocks : Cardinality({m \in blocks : m <= n}) = at
IsStale(blocks, pivot) == Top(blocks) >= pivot + 2 * MinFullBlocks - HeaderDelay
CanMove(blocks) == Cardinality(blocks) - MinFullBlocks + HeaderDelay > 0

\* A stale pivot is moved, in memory and then on disk: "must exist as lower old pivot is
\* uncommitted" (downloader.go:1653).
Stale == ~committed /\ IsStale(content.results, content.pivot)
MoveStale ==
  /\ content.at = "settle" /\ Stale
  /\ IF CanMove(content.results)
     THEN /\ pivotHeader' = NewPivot(content.results)
          /\ content' = [content EXCEPT !.at = "note", !.pivot = NewPivot(content.results)]
          /\ UNCHANGED <<results, canceled, blame>>
     ELSE Break("panic") /\ UNCHANGED pivotHeader
  /\ UNCHANGED <<chain, committed, stateSync, stranded>> /\ ContentOnly

NoteMoved ==
  /\ content.at = "note"
  /\ chain' = [chain EXCEPT !.lastPivot = content.pivot]
  /\ content' = [content EXCEPT !.at = "split"]
  /\ UNCHANGED <<results, pivotHeader, committed, stateSync, canceled, blame, stranded>> /\ ContentOnly

\* What is before the pivot is written with its receipts.
Settled == content.at = "split" \/ (content.at = "settle" /\ ~Stale)
Before == {n \in content.results : n < content.pivot}
CommitSnapSyncData ==
  /\ Settled /\ Before # {}
  /\ IF Contiguous(Before)
     THEN content' = [content EXCEPT !.at = "insert", !.todo = Before] /\ UNCHANGED <<results, canceled, blame>>
     ELSE Break("insert")
  /\ UNCHANGED <<chain, pivotHeader, committed, stateSync, stranded>> /\ ContentOnly

\* InsertReceiptChain, which does not hold chainmu: as many blocks as fit into a batch
\* are looked at, the batch is written, and so on.  Bodies that are there are passed
\* over up to the first that is not; then the others are not looked for.
Missing(blocks) == {n \in blocks : \E m \in blocks : m <= n /\ m \notin chain.blocks}
FindHeaders ==
  /\ content.at = "insert"
  /\ \E last \in content.todo :
       LET batch == {n \in content.todo : n <= last}
           new == IF content.batch = {} THEN Missing(batch) ELSE batch
       IN /\ new # {} \/ batch = content.todo
          /\ IF \A n \in batch : n <= chain.known
             THEN /\ content' = [content EXCEPT !.at = "write", !.batch = new, !.todo = @ \ batch]
                  /\ UNCHANGED <<results, canceled, blame>>
             ELSE Break("insert")
  /\ UNCHANGED <<chain, pivotHeader, committed, stateSync, stranded>> /\ ContentOnly

WriteBodies ==
  /\ content.at = "write"
  /\ chain' = [chain EXCEPT !.blocks = @ \cup content.batch]
  /\ content' = [content EXCEPT !.at = IF content.todo = {} THEN "update" ELSE "insert"]
  /\ UNCHANGED <<results, pivotHeader, committed, stateSync, canceled, blame, stranded>> /\ ContentOnly

\* mutant: a rewind that may have occurred is not looked for
LeadAnyway(c, block) == [c EXCEPT !.fast = Max2(@, block)]

\* updateHead, under chainmu: "Rewind may have occurred, skip in that case."
Lead(c, block) == IF c.header >= block THEN [c EXCEPT !.fast = Max2(@, block)] ELSE c

\* A batch before the pivot goes on at the pivot, the pivot itself to SnapSyncCommitHead.
UpdateHead ==
  /\ content.at = "update"
  /\ chain' = Lead(chain, IF content.results = {} THEN content.oldPivot ELSE Top(Before))
  /\ content' = [content EXCEPT !.at = IF content.results = {} THEN "check" ELSE "around", !.batch = {}]
  /\ UNCHANGED <<results, pivotHeader, committed, stateSync, canceled, blame, stranded>> /\ ContentOnly

\* The pivot waits for its state, and what is after it for the pivot.
AroundPivot ==
  /\ content.at = "around" \/ (Settled /\ Before = {})
  /\ LET pivot == content.pivot
         after == {n \in content.results : n > pivot}
     IN IF pivot \in content.results
        THEN /\ stateSync' = IF content.oldPivot # pivot THEN Syncing(pivot) ELSE stateSync
             /\ content' = [content EXCEPT !.at = "wait", !.results = {}, !.pivot = 0, !.oldPivot = pivot, !.after = after]
        ELSE /\ UNCHANGED stateSync
             /\ content' = [content EXCEPT !.at = "import", !.results = {}, !.pivot = 0, !.after = after]
  /\ UNCHANGED <<chain, results, pivotHeader, committed, canceled, blame, stranded>> /\ ContentOnly

SyncState ==
  /\ ~stateSync.done /\ content.at # "ended" /\ Served(stateSync.root)
  /\ stateSync' = [stateSync EXCEPT !.done = TRUE]
  /\ chain' = [chain EXCEPT !.states = @ \cup {stateSync.root}]
  /\ UNCHANGED <<legacy, peerHead, fetcher, headerTasks, processor, results, pivotHeader, committed, content, canceled, blame, stranded, syncs, cancels>>

\* commitPivotBlock: the pivot is written with its receipts ...
CommitPivotBlock ==
  /\ content.at = "wait" /\ stateSync.done
  /\ content' = [content EXCEPT !.at = "insert", !.todo = {content.oldPivot}]
  /\ UNCHANGED <<chain, results, pivotHeader, committed, stateSync, canceled, blame, stranded>> /\ ContentOnly

\* ... SnapSyncCommitHead looks for it and its state, without chainmu, ...
Exists(block) == block <= chain.known /\ block \in chain.blocks
CheckHead ==
  /\ content.at = "check"
  /\ IF Exists(content.oldPivot) /\ content.oldPivot \in chain.states
     THEN content' = [content EXCEPT !.at = "store"] /\ UNCHANGED <<results, canceled, blame>>
     ELSE Break("commit")
  /\ UNCHANGED <<chain, pivotHeader, committed, stateSync, stranded>> /\ ContentOnly

\* ... and makes it the head under chainmu.
StoreHead ==
  /\ content.at = "store"
  /\ chain' = [chain EXCEPT !.full = content.oldPivot]
  /\ committed' = TRUE
  /\ stranded' = [pivot |-> FALSE, head |-> stranded.pivot]
  /\ content' = [content EXCEPT !.at = "import", !.oldPivot = NoPivot, !.oldTail = {}]
  /\ UNCHANGED <<results, pivotHeader, stateSync, canceled, blame>> /\ ContentOnly

\* InsertChain, under chainmu: the first block's parent is there with its state, and so
\* is the difficulty of the head.  The last block becomes the head of everything.
Executable(c, blocks) ==
  /\ Contiguous(blocks) /\ c.full <= c.known
  /\ \E n \in blocks : (\A m \in blocks : n <= m) /\ n - 1 \in c.states \cap c.blocks /\ n - 1 <= c.known
Executed(c, blocks) ==
  LET written == [c EXCEPT !.blocks = @ \cup blocks, !.states = @ \cup blocks, !.known = Max2(@, Top(blocks))]
  IN IF Top(blocks) > c.full
     THEN [written EXCEPT !.full = Top(blocks), !.fast = Top(blocks), !.header = Top(blocks)]
     ELSE written

ImportRest ==
  /\ content.at = "import"
  /\ IF content.after = {} THEN UNCHANGED <<chain, stranded>>
     ELSE /\ Executable(chain, content.after) /\ chain' = Executed(chain, content.after)
          /\ stranded' = [stranded EXCEPT !.head = @ /\ Top(content.after) < chain.full]
  /\ content' = [content EXCEPT !.at = "take", !.after = {}]
  /\ UNCHANGED <<results, pivotHeader, committed, stateSync, canceled, blame>> /\ ContentOnly
ImportFails ==
  /\ content.at = "import" /\ content.after # {} /\ ~Executable(chain, content.after)
  /\ Break("import")
  /\ UNCHANGED <<chain, pivotHeader, committed, stateSync, stranded>> /\ ContentOnly

\* A second later: hold back what is after the pivot and look for more.
StopWaiting ==
  /\ content.at = "wait"
  /\ content' = [content EXCEPT !.at = "take", !.oldTail = content.after, !.after = {}]
  /\ UNCHANGED <<chain, results, pivotHeader, committed, stateSync, canceled, blame, stranded>> /\ ContentOnly

-----------------------------------------------------------------------------
(* Syncs.                                                                  *)

PivotInit ==
  /\ legacy \in BOOLEAN /\ peerHead = FirstHead
  /\ chain = [header |-> 0, known |-> 0, fast |-> 0, full |-> 0, blocks |-> {0}, states |-> {0}, lastPivot |-> 0]
  /\ fetcher = NoFetcher
  /\ headerTasks = <<>> /\ processor = [at |-> "ended", rollback |-> 0]
  /\ results = [scheduled |-> 0, taken |-> 0, closed |-> TRUE]
  /\ pivotHeader = 0 /\ committed = FALSE /\ content = Idle("ended") /\ stateSync = [root |-> 0, done |-> TRUE]
  /\ canceled = TRUE /\ blame = "none" /\ stranded = [pivot |-> FALSE, head |-> FALSE] /\ syncs = 0 /\ cancels = 0

\* syncWithPeer: until a sync ended well the next is a snap sync as well.
StartSync ==
  /\ PivotEnded /\ syncs < MaxSyncs /\ syncs' = syncs + 1
  /\ syncs = 0 \/ blame = "canceled"
  /\ LET pivot == peerHead - MinFullBlocks
         origin == IF pivot <= chain.fast THEN pivot - 1 ELSE chain.fast
     IN /\ pivotHeader' = pivot
        /\ chain' = [chain EXCEPT !.lastPivot = pivot]
        /\ fetcher' = [at |-> IF legacy THEN "skeleton" ELSE "beacon", from |-> origin + 1, first |-> origin + 1, asked |-> 0]
        /\ results' = [scheduled |-> origin, taken |-> origin, closed |-> FALSE]
        /\ stateSync' = Syncing(pivot)
  /\ headerTasks' = <<>> /\ processor' = [at |-> "running", rollback |-> 0]
  /\ committed' = FALSE /\ content' = Idle("take")
  /\ canceled' = FALSE /\ blame' = "none"
  /\ UNCHANGED <<legacy, peerHead, stranded, cancels>>

PivotNext ==
  \/ StartSync \/ StopSync \/ CloseResults \/ NewHead
  \/ FetchSkeleton \/ AskPivot \/ AnswerPivot \/ MovePivot \/ NotePivot \/ FetchDirect \/ FetchBeacon \/ EndHeaders \/ DropFetcher
  \/ ProcessHeaders \/ RollBack
  \/ TakeResults \/ EndContent \/ MoveStale \/ NoteMoved \/ CommitSnapSyncData
  \/ FindHeaders \/ WriteBodies \/ UpdateHead \/ AroundPivot \/ ImportRest \/ ImportFails
  \/ SyncState \/ CommitPivotBlock \/ CheckHead \/ StoreHead \/ StopWaiting

PivotSpec == PivotInit /\ [][PivotNext]_pivotVars

-----------------------------------------------------------------------------
(* What the pivot promises.                                                *)

\* The head has its state and its block and nothing is missing below it, unless the pivot
\* was deleted after SnapSyncCommitHead had seen it; of the fast head there is no unless.
HeadWhole ==
  /\ chain.full \in chain.states
  /\ ~stranded.head => \A n \in 0..chain.full : Exists(n)
  /\ \A n \in 0..chain.fast : Exists(n)

\* "Make sure that both the block as well at its state trie exists" (blockchain.go:735):
\* what the head is set to is still there.
HeadExists == Exists(chain.full)

\* No honest peer is blamed, no block refused, and no state sync left undone.
Unblamed == blame \in {"none", "canceled"}

\* When all there is was fetched and looked at, the state waited for can be had.
PivotServed ==
  (/\ content.at = "wait" /\ headerTasks = <<>> /\ results.taken = results.scheduled /\ ~canceled
   /\ fetcher.at \in {"direct", "beacon"} /\ After(fetcher.from) \subseteq (peerHead - HeaderDelay + 1)..peerHead
   /\ results.taken \in content.after \cup {content.oldPivot})
  => stateSync.root = content.oldPivot /\ (stateSync.done \/ Served(stateSync.root))

\* processSnapSyncContent moves the pivot while blocks before it are written, blocks
\* after it are held back and a cancelled sync is rolled back.  Whatever the order, the
\* head is whole; and where nobody else moves the pivot (beacon mode) every batch joins
\* the last, the pivot can be moved when it has to, the sync ends well unless cancelled,
\* and it never waits for a state that no peer has.
PivotSound ==
  /\ HeadWhole
  /\ legacy \/ (Unblamed /\ PivotServed)
=============================================================================
