-------------------------- MODULE BlockChainProofs --------------------------
(***************************************************************************)
(* Proofs about BlockChain for any tree of blocks, finite or not, and any  *)
(* number of kills and rewinds.                                            *)
(***************************************************************************)
EXTENDS BlockChain, WellFoundedInduction, NaturalsInduction, TLAPS

-----------------------------------------------------------------------------
(* The tree of blocks.                                                     *)

\* A nonempty set of numbers has a least element.
LEMMA LeastNumber == ASSUME NEW T, T \subseteq Nat, T # {} PROVE \E n \in T : \A m \in T : n <= m
<1>1. \E n \in T : \A m \in T : ~ (<<m, n>> \in OpToRel(<, Nat)) BY NatLessThanWellFounded, WFMin
<1>2. PICK n \in T : \A m \in T : ~ (m < n) BY <1>1 DEF OpToRel
<1> QED BY <1>2

\* A chain reaches from its block to the genesis block.
LEMMA ChainEnds ==
  ASSUME NEW b \in Blocks
  PROVE  /\ Chain[b] \subseteq Blocks /\ b \in Chain[b] /\ Genesis \in Chain[b]
         /\ Num[b] \in Nat /\ Num[b] \in Heights /\ Parent[b] \in Blocks
<1>1. Chain[b] \subseteq Blocks /\ b \in Chain[b] /\ Num[b] \in Nat /\ Parent[b] \in Blocks BY TreeAssumption
<1>2. PICK x \in Chain[b] : Num[x] = 0 BY <1>1, TreeAssumption
<1>3. x = Genesis
  <2>1. SUFFICES ASSUME x \in Blocks \ {Genesis} PROVE FALSE BY <1>1
  <2>2. Num[x] = Num[Parent[x]] + 1 /\ Num[Parent[x]] \in Nat BY <2>1, TreeAssumption
  <2> QED BY <1>2, <2>2
<1> QED BY <1>1, <1>2, <1>3 DEF Heights

\* Below its block it is the chain of the parent.
LEMMA ChainStep ==
  ASSUME NEW b \in Blocks
  PROVE  /\ Chain[Parent[b]] \subseteq Chain[b] /\ Parent[b] \in Chain[b]
         /\ Chain[b] \ {b} \subseteq Chain[Parent[b]]
         /\ b # Genesis => /\ Num[b] = Num[Parent[b]] + 1
                           /\ Chain[b] = Chain[Parent[b]] \cup {b}
                           /\ b \notin Chain[Parent[b]]
         /\ TD[Parent[b]] <= TD[b]
<1>1. CASE b = Genesis BY <1>1, TreeAssumption, DataAssumption
<1>2. CASE b # Genesis
  BY <1>2, TreeAssumption, ChainEnds, DataAssumption
<1> QED BY <1>1, <1>2

\* The blocks of a chain, by number.
LEMMA ChainOrder ==
  ASSUME NEW b \in Blocks, NEW x \in Chain[b]
  PROVE  /\ x \in Blocks /\ Chain[x] \subseteq Chain[b] /\ Num[x] <= Num[b]
         /\ x # b => Num[x] < Num[b] /\ x \in Chain[Parent[b]]
         /\ \A y \in Chain[b] : (Num[x] = Num[y] => x = y) /\ (Num[x] <= Num[y] => x \in Chain[y])
<1>1. x \in Blocks /\ b \in Chain[b] /\ Chain[x] \subseteq Chain[b] /\ Num[x] <= Num[b] /\ Num[x] \in Nat /\ Num[b] \in Nat
  BY TreeAssumption, ChainEnds
<1>2. \A y \in Chain[b] : Num[x] = Num[y] => x = y BY TreeAssumption
<1>3. ASSUME NEW y \in Chain[b], Num[x] <= Num[y] PROVE x \in Chain[y]
  <2>1. y \in Blocks /\ Num[y] \in Nat /\ Chain[y] \subseteq Chain[b] BY TreeAssumption, ChainEnds
  <2>2. Num[x] \in 0 .. Num[y] BY <1>1, <1>3, <2>1
  <2>3. PICK z \in Chain[y] : Num[z] = Num[x] BY <2>1, <2>2, TreeAssumption
  <2>4. z = x BY <1>2, <2>1, <2>3
  <2> QED BY <2>3, <2>4
<1>4. x # b => Num[x] < Num[b] /\ x \in Chain[Parent[b]] BY <1>1, <1>2, ChainStep
<1> QED BY <1>1, <1>2, <1>3, <1>4

\* Total difficulty does not fall along a chain.
LEMMA ChainHeavier == \A b \in Blocks : \A x \in Chain[b] : TD[x] <= TD[b]
<1> DEFINE Wrong == {b \in Blocks : \E x \in Chain[b] : ~ (TD[x] <= TD[b])}
           T == {Num[b] : b \in Wrong}
<1>1. SUFFICES ASSUME Wrong # {} PROVE FALSE OBVIOUS
<1>2. T \subseteq Nat /\ T # {} BY <1>1, ChainEnds
<1>3. PICK n \in T : \A m \in T : n <= m BY <1>2, LeastNumber
<1>4. PICK b \in Wrong : Num[b] = n BY <1>3
<1>5. PICK x \in Chain[b] : ~ (TD[x] <= TD[b]) BY <1>4
<1>6. TD[b] \in Nat /\ TD[x] \in Nat /\ TD[Parent[b]] \in Nat BY DataAssumption, ChainEnds, <1>4, <1>5
<1>7. x # b BY <1>5, <1>6
<1>8. x \in Chain[Parent[b]] /\ b # Genesis BY <1>5, <1>7, ChainOrder, TreeAssumption
<1>9. ~ (TD[x] <= TD[Parent[b]]) BY <1>5, <1>6, ChainStep
<1>10. Parent[b] \in Wrong /\ Num[Parent[b]] < Num[b] BY <1>8, <1>9, ChainStep, ChainEnds
<1>11. Num[Parent[b]] \in T BY <1>10
<1>12. n <= Num[Parent[b]]
  <2> HIDE DEF T, Wrong
  <2> QED BY <1>3, <1>11
<1>13. b \in Blocks /\ Num[b] \in Nat /\ Num[Parent[b]] \in Nat BY ChainEnds
<1> QED BY <1>4, <1>10, <1>12, <1>13

\* The lowest of some blocks.
LEMMA FirstExists ==
  ASSUME NEW S, S \subseteq Blocks, S # {} PROVE First(S) \in S /\ \A c \in S : Num[First(S)] <= Num[c]
<1> DEFINE T == {Num[b] : b \in S}
<1>1. T \subseteq Nat /\ T # {} BY ChainEnds
<1>2. PICK n \in T : \A m \in T : n <= m BY <1>1, LeastNumber
<1>3. \E b \in S : \A c \in S : Num[b] <= Num[c] BY <1>2
<1> QED BY <1>3 DEF First

\* The highest of some blocks of a chain.
LEMMA LastExists ==
  ASSUME NEW b \in Blocks, NEW S, S \subseteq Chain[b], S # {}
  PROVE  Last(S) \in S /\ \A c \in S : Num[c] <= Num[Last(S)]
<1> DEFINE T == {n \in Nat : \A c \in S : Num[c] <= n}
<1>1. S \subseteq Blocks BY ChainEnds
<1>2. Num[b] \in T BY ChainOrder, ChainEnds
<1>3. PICK n \in T : \A m \in T : n <= m BY <1>2, LeastNumber
<1>4. PICK x \in S : Num[x] = n
  <2>1. SUFFICES ASSUME \A c \in S : Num[c] # n PROVE FALSE OBVIOUS
  <2>2. n # 0 BY <2>1, <1>1, <1>3, ChainEnds
  <2>3. n - 1 \in T BY <2>1, <2>2, <1>1, <1>3, ChainEnds
  <2> QED BY <1>3, <2>3
<1>5. \E top \in S : \A c \in S : Num[c] <= Num[top] BY <1>3, <1>4
<1> QED BY <1>5 DEF Last

\* Deleting upwards stops at a number that is absent.
LEMMA GapExists ==
  ASSUME NEW n \in Heights, NEW S, S \subseteq Heights, NEW top \in Nat, \A k \in S : k <= top
  PROVE  /\ Gap(n, S) \in Nat /\ Gap(n, S) > n /\ Gap(n, S) \notin S
         /\ \A k \in n + 1 .. Gap(n, S) - 1 : k \in S
<1> DEFINE T == {m \in Nat : m > n /\ m \notin S}
<1>1. Heights \subseteq Nat BY ChainEnds DEF Heights
<1>2. n + top + 1 \in T BY <1>1
<1>3. PICK m \in T : \A k \in T : m <= k BY <1>2, LeastNumber
<1>4. \A k \in n + 1 .. m - 1 : k \in S BY <1>1, <1>3
<1>5. m - 1 \in Heights BY <1>1, <1>3, <1>4
<1>6. m \in {h + 1 : h \in Heights} BY <1>1, <1>5, <1>3
<1>7. \E g \in {h + 1 : h \in Heights} : /\ g > n /\ g \notin S
                                           /\ \A k \in n + 1 .. g - 1 : k \in S
  BY <1>3, <1>4, <1>6
<1> QED BY <1>1, <1>7 DEF Gap

-----------------------------------------------------------------------------
(* The inductive invariant behind MarkersSound.                            *)

\* The store is closed under parents, and there is a highest block; the state
\* of the genesis block is on disk; canonical hashes name stored blocks.
StoreClosed ==
  /\ \A b \in stored : Chain[b] \subseteq stored
  /\ \E top \in Heights : \A b \in stored : Num[b] <= top
  /\ Root[Genesis] \in flushed
  /\ \A n \in Heights : canon[n] # None => canon[n] \in stored /\ Num[canon[n]] = n

\* The markers name blocks of one stored chain.
HeadsOnChain ==
  /\ head.block \in Chain[head.header] /\ head.fast \in Chain[head.header]
  /\ head.header \in stored

\* The locals an operation is about to use are set, and name stored blocks
\* where they are about to become canonical.
LocalsSet ==
  /\ Ready => op = Idle
  /\ At("state") \/ At("choose") \/ At("switch") \/ At("head") => op.block \in stored
  /\ At("switch") => op.old \in Blocks
  /\ At("rewind") => op.start \in Blocks
  /\ At("side") => op.last \in Blocks /\ (op.prev \in Blocks \/ SidePending)
  /\ At("again") => op.todo # {} /\ First(op.todo) \in stored
  /\ op.target # None => op.target \in stored

Sound == TypeOK /\ StoreClosed /\ HeadsOnChain /\ LocalsSet

-----------------------------------------------------------------------------
(* Types.                                                                  *)

\* The operation is a record of locals whatever is assigned to them.
LEMMA IdleType == Idle \in Operations /\ Idle.at = "idle" /\ [Idle EXCEPT !.at = "down"] \in Operations
  BY TreeAssumption DEF Heights, Idle, Operations

LEMMA EndBatchType == ASSUME op \in Operations, EndBatch PROVE op' \in Operations
<1>1. CASE op' = Idle BY <1>1, IdleType
<1>2. CASE op' = [op EXCEPT !.at = "recover", !.todo = {}] BY <1>2 DEF Operations
<1> QED BY <1>1, <1>2 DEF EndBatch, Abort

LEMMA SwitchType ==
  ASSUME op \in Operations, head.block \in Blocks, NEW b \in Blocks \cup {None},
         NEW next \in {"idle", "main"}, SwitchTo(b, next) PROVE op' \in Operations
<1>1. PICK at \in {"head", "switch"} :
        op' = [op EXCEPT !.at = at, !.block = b, !.old = head.block, !.next = next] BY DEF SwitchTo
<1> QED BY <1>1 DEF Operations

LEMMA StatelessType == ASSUME NEW b \in Blocks PROVE Stateless(b) \subseteq Blocks BY ChainEnds DEF Stateless

LEMMA DispatchType ==
  ASSUME op \in Operations, NEW b \in Blocks, Dispatch(b) PROVE op' \in Operations
<1>1. CASE Goto("main") BY <1>1 DEF Goto, Operations
<1>2. CASE op' = [op EXCEPT !.at = "side", !.last = b] BY <1>2 DEF Operations
<1>3. CASE op' = [op EXCEPT !.at = "recover", !.todo = {}, !.rest = Stateless(b)] BY <1>3, StatelessType DEF Operations
<1>4. CASE Abort BY <1>4, IdleType DEF Abort
<1> QED BY <1>1, <1>2, <1>3, <1>4 DEF Dispatch

\* The next block of a batch is a block.
LEMMA NextBlock ==
  ASSUME op \in Operations, op.todo # {}
  PROVE  First(op.todo) \in op.todo /\ First(op.todo) \in Blocks
         /\ \A x \in op.todo : Num[First(op.todo)] <= Num[x]
  BY FirstExists DEF Operations

\* Whatever step is taken, the locals of the operation keep their types.
LEMMA OpType == Sound /\ [Next]_vars => op' \in Operations
<1> SUFFICES ASSUME Sound, [Next]_vars PROVE op' \in Operations OBVIOUS
<1>0. op \in Operations /\ head.block \in Blocks /\ head.header \in Blocks /\ payload \in Blocks \cup {None}
  BY DEF Sound, TypeOK
<1>1. ASSUME NEW top \in Blocks \ {Genesis}, NEW bottom \in Chain[top] \ {Genesis}, InsertChain(bottom, top)
      PROVE  op' \in Operations
  BY ChainEnds, <1>0, <1>1, IdleType DEF InsertChain, Operations
<1>2. ASSUME NEW b \in Blocks \ {Genesis}, Mined(b) PROVE op' \in Operations
  BY <1>0, <1>2, IdleType DEF Mined, Operations
<1>3. ASSUME NEW b \in Blocks \ {Genesis}, GossipTerminal(b) PROVE op' \in Operations
  BY <1>0, <1>3, IdleType DEF GossipTerminal, InsertBlockWithoutSetHead, Operations
<1>4. ASSUME NEW b \in Blocks \ {Genesis}, SetCanonical(b) PROVE op' \in Operations
  <2>1. Missing(b) \subseteq Blocks BY StatelessType DEF Missing
  <2> QED BY <1>0, <1>4, <2>1, IdleType DEF SetCanonical, Operations
<1>5. CASE InsertPayload BY <1>0, <1>5, IdleType DEF InsertPayload, InsertBlockWithoutSetHead, Operations
<1>6. ASSUME NEW n \in Heights, SetHead(n) PROVE op' \in Operations BY <1>0, <1>6, IdleType DEF SetHead, Operations
<1>7. CASE EnterBatch BY <1>0, <1>7, EndBatchType DEF EnterBatch, Goto, Operations
<1>8. CASE Trim
  <2>1. CASE op.todo = {} BY <1>0, <1>8, <2>1, EndBatchType DEF Trim
  <2>2. ASSUME op.todo # {}, Dispatch(First(op.todo)) PROVE op' \in Operations BY <1>0, <2>2, NextBlock, DispatchType
  <2>3. CASE Goto("again") BY <1>0, <2>3 DEF Goto, Operations
  <2>4. CASE Skip(First(op.todo)) BY <1>0, <2>4 DEF Skip, Operations
  <2> QED BY <1>8, <2>1, <2>2, <2>3, <2>4 DEF Trim, ExecuteKnown
<1>10. CASE ImportStops BY <1>0, <1>10, EndBatchType DEF ImportStops
<1>11. CASE ImportKnown BY <1>0, <1>11, NextBlock, SwitchType DEF ImportKnown
<1>12. CASE ImportExecutes
  BY <1>0, <1>12, NextBlock DEF ImportExecutes, Operations
<1>13. CASE ImportFails \/ SideGhost BY <1>13, IdleType DEF ImportFails, SideGhost, Abort
<1>14. CASE WriteState BY <1>0, <1>14, EndBatchType DEF WriteState, Goto, Operations
<1>15. CASE Choose
  <2>1. CASE Goto("main") BY <1>0, <2>1 DEF Goto, Operations
  <2>2. CASE SwitchTo(op.block, "main")
    BY <1>0, <2>2, SwitchType DEF Operations
  <2> QED BY <1>15, <2>1, <2>2 DEF Choose
<1>16. CASE ReorgIndex BY <1>0, <1>16 DEF ReorgIndex, Goto, Operations
<1>17. CASE WriteHeadBlock
  <2>1. CASE op' = Idle BY <2>1, IdleType
  <2>2. CASE op' = [op EXCEPT !.at = op.next, !.todo = @ \ {op.block}, !.block = None, !.old = None]
    BY <1>0, <2>2 DEF Operations
  <2> QED BY <1>17, <2>1, <2>2 DEF WriteHeadBlock, Abort
<1>18. CASE SideCanonical BY <1>0, <1>18, NextBlock DEF SideCanonical, SidePending, Operations
<1>19. CASE SideStore
  <2>1. CASE op' = Idle BY <2>1, IdleType
  <2>2. CASE op' = [op EXCEPT !.todo = @ \ {First(op.todo)}, !.prev = First(op.todo), !.last = First(op.todo)]
    BY <1>0, <1>19, <2>2, NextBlock DEF SideStore, SidePending, Operations
  <2> QED BY <1>19, <2>1, <2>2 DEF SideStore, Abort
<1>20. CASE SideDecide
  <2>1. CASE op' = Idle BY <2>1, IdleType
  <2>2. CASE op' = [op EXCEPT !.at = "enter", !.todo = Stateless(op.prev), !.last = None, !.prev = None]
    BY <1>20, <1>0, <2>2, StatelessType DEF SideDecide, Sound, LocalsSet, Operations
  <2> QED BY <1>20, <2>1, <2>2 DEF SideDecide, Abort
<1>21. CASE Recover
  <2>1. CASE op' = Idle BY <2>1, IdleType
  <2>2. CASE /\ op.rest # {}
             /\ op' = [op EXCEPT !.at = "enter", !.todo = {First(op.rest)}, !.rest = @ \ {First(op.rest)}]
    <3>1. First(op.rest) \in Blocks BY <1>0, <2>2, FirstExists DEF Operations
    <3> QED BY <1>0, <2>2, <3>1 DEF Operations
  <2>3. CASE SwitchTo(op.target, "idle")
    BY <1>0, <2>3, SwitchType DEF Operations
  <2> QED BY <1>21, <2>1, <2>2, <2>3 DEF Recover, RecoverNext, Abort
<1>22. CASE RewindDelete \/ Restart BY <1>22, IdleType DEF RewindDelete, Restart, Abort
<1>23. CASE Stop \/ Crash BY <1>23, IdleType DEF Stop, Crash, Lost
<1>24. ASSUME op' = op PROVE op' \in Operations BY <1>0, <1>24
<1>25. ASSUME NEW b \in Blocks, NewPayload(b) PROVE op' = op BY <1>25 DEF NewPayload
<1>26. ReorgWrite \/ RewindStep \/ StopInsert \/ UNCHANGED vars => op' = op
  BY DEF ReorgWrite, RewindStep, StopInsert, vars
<1>27. CASE Call BY <1>1, <1>2, <1>3, <1>4, <1>5, <1>6, <1>24, <1>25, <1>27 DEF Call
<1>28. CASE Import BY <1>7, <1>8, <1>10, <1>11, <1>12, <1>13, <1>14, <1>15, <1>16, <1>17, <1>18,
     <1>19, <1>20, <1>21, <1>24, <1>26, <1>28 DEF Import
<1>29. CASE Rewind \/ Process \/ UNCHANGED vars BY <1>22, <1>23, <1>24, <1>26, <1>29 DEF Rewind, Process
<1> QED BY <1>27, <1>28, <1>29 DEF Next

-----------------------------------------------------------------------------
(* Steps that write to the database or lose what is in memory.             *)

\* Steps that leave what is on disk and the states in memory alone.
Quiet == UNCHANGED <<diskVars, refs, crashes>>

\* All other steps.
DiskStep ==
  \/ \E b \in Blocks \ {Genesis} : Mined(b)
  \/ ImportKnown \/ ImportExecutes \/ WriteState \/ ReorgWrite \/ ReorgIndex \/ WriteHeadBlock
  \/ SideStore \/ RewindStep \/ RewindDelete \/ Stop \/ Crash \/ Restart

LEMMA QuietOrDisk == [Next]_vars => (Quiet \/ DiskStep) /\ archive' = archive
<1> SUFFICES ASSUME [Next]_vars PROVE (Quiet \/ DiskStep) /\ archive' = archive OBVIOUS
<1> USE DEF Quiet, DiskStep, outside
<1>1. CASE Call BY <1>1 DEF Call, InsertChain, Mined, NewPayload, GossipTerminal, SetCanonical, InsertPayload, SetHead
<1>2. CASE Import
  BY <1>2 DEF Import, EnterBatch, Trim, ImportStops, ImportKnown, ImportExecutes, ImportFails, WriteState, Choose,
   ReorgWrite, ReorgIndex, WriteHeadBlock, SideCanonical, SideGhost, SideStore, SideDecide, Recover
<1>3. CASE Rewind BY <1>3 DEF Rewind, RewindStep, RewindDelete
<1>4. CASE Process BY <1>4 DEF Process, StopInsert, Stop, Crash, Restart
<1>5. CASE UNCHANGED vars BY <1>5 DEF vars
<1> QED BY <1>1, <1>2, <1>3, <1>4, <1>5 DEF Next

\* What the invariant says of the variables, for use in every step.
LEMMA SoundFacts ==
  ASSUME Sound
  PROVE  /\ stored \subseteq Blocks /\ receipts \subseteq stored /\ refs \subseteq Blocks
         /\ canon \in [Heights -> Blocks \cup {None}] /\ lookup \in [AllTxs -> Heights \cup {None}]
         /\ head \in [block : Blocks, header : Blocks, fast : Blocks]
         /\ head.block \in stored /\ head.header \in stored /\ head.fast \in stored
         /\ op \in Operations /\ op.todo \subseteq Blocks /\ Genesis \in stored
         /\ \A b \in stored : Parent[b] \in stored
  BY ChainEnds, ChainStep DEF Sound, TypeOK, HeadsOnChain, StoreClosed, Operations

\* The next batch of reorg extends the head's chain by one block of the new chain.
LEMMA PathFacts ==
  ASSUME Sound, At("switch"), PathLeft # {}
  PROVE  /\ First(PathLeft) \in PathLeft /\ First(PathLeft) \in stored /\ First(PathLeft) # Genesis
         /\ Parent[First(PathLeft)] \in Chain[head.block]
<1> DEFINE b == First(PathLeft)
<1>1. op.block \in stored /\ op.block \in Blocks /\ head.block \in Blocks BY SoundFacts DEF Sound, LocalsSet
<1>2. PathLeft \subseteq Blocks BY <1>1, ChainEnds DEF PathLeft
<1>3. b \in PathLeft /\ \A c \in PathLeft : Num[b] <= Num[c] BY <1>2, FirstExists
<1>4. b \in Chain[op.block] /\ b # op.block /\ b \notin Chain[head.block] BY <1>3 DEF PathLeft
<1>5. b \in stored /\ b # Genesis /\ b \in Blocks BY <1>1, <1>2, <1>3, <1>4, ChainEnds DEF Sound, StoreClosed
<1>6. Parent[b] \in Chain[op.block] /\ Num[Parent[b]] < Num[b] BY <1>1, <1>4, <1>5, ChainOrder, ChainStep, ChainEnds
<1>7. Num[b] < Num[op.block] BY <1>1, <1>4, ChainOrder
<1>8. Num[Parent[b]] \in Nat /\ Num[b] \in Nat /\ Num[op.block] \in Nat BY <1>1, <1>5, ChainEnds
<1>9. Parent[b] \notin PathLeft BY <1>3, <1>6, <1>8
<1>10. Parent[b] # op.block BY <1>6, <1>7, <1>8
<1>11. Parent[b] \in Chain[head.block] BY <1>6, <1>9, <1>10 DEF PathLeft
<1> QED BY <1>3, <1>5, <1>11

\* What a batch of writeHeadBlock does.
LEMMA HeadWritten ==
  ASSUME Sound, NEW b \in stored, WriteHead(b), UNCHANGED <<stored, flushed>>
  PROVE  /\ canon' \in [Heights -> Blocks \cup {None}] /\ lookup' \in [AllTxs -> Heights \cup {None}]
         /\ head' \in [block : Blocks, header : Blocks, fast : Blocks]
         /\ StoreClosed' /\ HeadsOnChain'
  BY SoundFacts, ChainEnds DEF WriteHead, Sound, StoreClosed, HeadsOnChain

\* What a batch with a block does: it comes after its parent's.
LEMMA BlockStored ==
  ASSUME Sound, NEW b \in Blocks, Parent[b] \in stored,
         stored' = stored \cup {b}, UNCHANGED <<canon, head, flushed>> PROVE StoreClosed' /\ HeadsOnChain'
<1>1. Chain[b] \subseteq stored' BY ChainStep, SoundFacts DEF Sound, StoreClosed
<1>2. PICK top \in Heights : \A x \in stored : Num[x] <= top BY DEF Sound, StoreClosed
<1>3. \E t \in {top, Num[b]} : top <= t /\ Num[b] <= t BY ChainEnds DEF Heights
<1>4. \E t \in Heights : \A x \in stored' : Num[x] <= t
  <2>1. PICK t \in {top, Num[b]} : top <= t /\ Num[b] <= t BY <1>3
  <2>2. \A x \in stored : Num[x] \in Nat BY SoundFacts, ChainEnds
  <2>3. t \in Heights /\ t \in Nat /\ top \in Nat BY <2>1, ChainEnds DEF Heights
  <2>4. \A x \in stored' : Num[x] <= t BY <1>2, <2>1, <2>2, <2>3
  <2> QED BY <2>3, <2>4
<1>5. StoreClosed' BY <1>1, <1>4 DEF Sound, StoreClosed
<1> QED BY <1>5 DEF Sound, HeadsOnChain

\* What a state entering the trie database does.
LEMMA StateCommitted ==
  ASSUME Sound, NEW b \in Blocks, CommitState(b)
  PROVE  flushed \subseteq flushed' /\ flushed' \subseteq {Root[x] : x \in Blocks} /\ refs' \subseteq Blocks
<1>1. flushed \subseteq {Root[x] : x \in Blocks} /\ refs \subseteq Blocks BY DEF Sound, TypeOK
<1>2. CASE archive BY <1>1, <1>2 DEF CommitState
<1>3. CASE ~archive /\ Num[b] <= Retain BY <1>1, <1>3 DEF CommitState
<1>4. CASE ~archive /\ ~ (Num[b] <= Retain)
  <2>1. refs' \subseteq Blocks BY <1>1, <1>4 DEF CommitState, Window
  <2>2. PICK out \in SUBSET Blocks : flushed' = flushed \cup {Root[r] : r \in out} BY <1>1, <1>4 DEF CommitState
  <2> QED BY <1>1, <2>1, <2>2
<1> QED BY <1>2, <1>3, <1>4

\* The genesis block always has a state: there is an ancestor to go back to.
LEMMA StatefulExists ==
  ASSUME Sound, NEW b \in Blocks
  PROVE  /\ Stateful(b) \in Chain[b] /\ HasState(Stateful(b))
         /\ HasState(b) => Stateful(b) = b
<1> DEFINE S == {x \in Chain[b] : HasState(x)}
<1>1. Genesis \in S BY ChainEnds DEF Sound, StoreClosed, HasState
<1>2. Last(S) \in S /\ \A c \in S : Num[c] <= Num[Last(S)] BY <1>1, LastExists
<1>3. ASSUME HasState(b) PROVE Last(S) = b
  BY <1>3, ChainEnds, <1>2, ChainOrder
<1> QED BY <1>2, <1>3 DEF Stateful

\* Taking a header off moves every marker down its chain.
LEMMA HeaderTaken ==
  ASSUME Sound, RewindStep
  PROVE  /\ head' \in [block : Blocks, header : Blocks, fast : Blocks]
         /\ head'.header = Parent[head.header] /\ head.header # Genesis
         /\ head'.block \in Chain[head'.header] /\ head'.block \in Chain[head.block]
         /\ head'.fast \in Chain[head'.header]
<1> DEFINE parent == Parent[head.header]
<1>1. head' = [block |-> RewoundBlock(parent), header |-> parent,
               fast |-> IF Num[parent] < Num[head.fast] THEN parent ELSE head.fast] BY DEF RewindStep
<1>2. head.header \in Blocks /\ head.block \in Chain[head.header] /\ head.fast \in Chain[head.header]
  BY SoundFacts DEF Sound, HeadsOnChain
<1>3. head.header # Genesis
  BY SoundFacts, ChainEnds, TreeAssumption DEF Operations, Heights, RewindStep
<1>4. parent \in Blocks /\ parent \in Chain[head.header] /\ Num[parent] < Num[head.header] /\ parent \in Chain[parent]
  BY <1>2, <1>3, ChainStep, ChainEnds
<1>5. /\ head.block \in Blocks /\ head.fast \in Blocks
      /\ Num[parent] \in Nat /\ Num[head.block] \in Nat /\ Num[head.fast] \in Nat /\ Num[head.header] \in Nat
  BY <1>2, <1>4, ChainEnds
<1>6. ASSUME NEW x \in Chain[head.header], Num[x] <= Num[parent] PROVE x \in Chain[parent]
  BY <1>2, <1>4, <1>6, ChainOrder
<1>7. CASE Num[parent] <= Num[head.block]
  <2>1. RewoundBlock(parent) = Stateful(parent) BY <1>7 DEF RewoundBlock
  <2>2. Stateful(parent) \in Chain[parent] /\ Chain[parent] \subseteq Blocks BY <1>4, StatefulExists, ChainEnds
  <2>3. parent \in Chain[head.block] BY <1>2, <1>4, <1>7, ChainOrder
  <2>4. Chain[parent] \subseteq Chain[head.block] BY <1>5, <2>3, ChainOrder
  <2>5. head'.fast \in Chain[parent] BY <1>1, <1>2, <1>4, <1>5, <1>6
  <2> QED BY <1>1, <1>3, <1>4, <1>5, <2>1, <2>2, <2>4, <2>5
<1>8. CASE ~ (Num[parent] <= Num[head.block])
  <2>1. RewoundBlock(parent) = head.block BY <1>8 DEF RewoundBlock
  <2>2. head.block \in Chain[parent] /\ head.block \in Chain[head.block] BY <1>2, <1>5, <1>6, <1>8, ChainEnds
  <2>3. head'.fast \in Chain[parent] BY <1>1, <1>2, <1>4, <1>5, <1>6
  <2> QED BY <1>1, <1>3, <1>4, <1>5, <2>1, <2>2, <2>3
<1> QED BY <1>7, <1>8

\* Where the deletion of a rewind stops there is no block, so that none above is
\* on a chain that is cut.
LEMMA BlocksWiped ==
  ASSUME Sound, RewindDelete
  PROVE  /\ canon' \in [Heights -> Blocks \cup {None}]
         /\ receipts' \subseteq stored'
         /\ StoreClosed' /\ HeadsOnChain'
<1>1. op.start \in Blocks /\ head.header \in Blocks /\ stored \subseteq Blocks
  BY SoundFacts DEF Sound, LocalsSet, RewindDelete
<1> DEFINE present == {Num[b] : b \in stored}
           end == Gap(Num[op.start], present)
<1>2. PICK top \in Nat : \A b \in stored : Num[b] <= top BY ChainEnds DEF Sound, StoreClosed, Heights
<1>3. end \in Nat /\ end \notin present
  BY <1>1, <1>2, ChainEnds, GapExists
<1>4. Wiped = {} \/ Wiped = Num[head.header] + 1 .. end - 1 BY DEF Wiped
<1> HIDE DEF end
<1>5. stored' = {b \in stored : Num[b] \notin Wiped} /\ receipts' = {b \in receipts : Num[b] \notin Wiped}
  BY DEF RewindDelete
<1>6. canon' = [n \in Heights |-> IF n \in Wiped THEN None ELSE canon[n]] /\ head' = head /\ flushed' = flushed
  BY DEF RewindDelete
<1>7. ASSUME NEW b \in stored', NEW x \in Chain[b] PROVE x \in stored'
  <2>1. b \in Blocks /\ b \in stored /\ x \in stored /\ Num[x] <= Num[b] /\ Num[x] \in Nat /\ Num[b] \in Nat /\ Num[head.header] \in Nat
    BY <1>1, <1>5, <1>7, ChainOrder, ChainEnds DEF Sound, StoreClosed
  <2>2. ASSUME Num[b] >= end PROVE FALSE
    <3>1. end \in 0 .. Num[b] BY <1>3, <2>1, <2>2
    <3>2. PICK y \in Chain[b] : Num[y] = end BY <2>1, <3>1, TreeAssumption
    <3>3. y \in stored BY <2>1, <3>2 DEF Sound, StoreClosed
    <3> QED BY <1>3, <3>2, <3>3
  <2>3. Num[x] \notin Wiped
    BY <1>5, <1>7, <1>3, <1>4, <2>1, <2>2
  <2> QED BY <1>5, <2>1, <2>3
<1>8. head.header \in stored'
  BY <1>1, <1>3, <1>4, ChainEnds, <1>5, SoundFacts
<1>9. \A n \in Heights : canon'[n] # None => canon'[n] \in stored' /\ Num[canon'[n]] = n
  BY <1>5, <1>6 DEF Sound, StoreClosed
<1>10. \E t \in Heights : \A b \in stored' : Num[b] <= t BY <1>5 DEF Sound, StoreClosed
<1>11. StoreClosed' BY <1>6, <1>7, <1>9, <1>10 DEF Sound, StoreClosed
<1>12. HeadsOnChain' BY <1>6, <1>8 DEF Sound, HeadsOnChain
<1>13. canon' \in [Heights -> Blocks \cup {None}] BY <1>6, SoundFacts
<1> QED BY <1>5, <1>11, <1>12, <1>13, SoundFacts

\* Types of what is on disk and of the states in memory.
DiskTypeOK ==
  /\ receipts \subseteq stored
  /\ canon \in [Heights -> Blocks \cup {None}]
  /\ lookup \in [AllTxs -> Heights \cup {None}]
  /\ head \in [block : Blocks, header : Blocks, fast : Blocks]
  /\ flushed \subseteq {Root[b] : b \in Blocks} /\ refs \subseteq Blocks
  /\ stored \subseteq Blocks

\* The pruned block insertSideChain stores has its parent stored.
LEMMA SideParent ==
  ASSUME Sound, SidePending
  PROVE  First(op.todo) \in Blocks /\ Parent[First(op.todo)] \in stored BY SoundFacts, NextBlock DEF SidePending, Pruned

\* Every step keeps the store closed and the markers on one chain.
LEMMA DiskNext == Sound /\ [Next]_vars => DiskTypeOK' /\ StoreClosed' /\ HeadsOnChain'
<1> SUFFICES ASSUME Sound, [Next]_vars PROVE DiskTypeOK' /\ StoreClosed' /\ HeadsOnChain' OBVIOUS
<1>0. DiskTypeOK /\ StoreClosed /\ HeadsOnChain /\ op \in Operations BY DEF Sound, TypeOK, DiskTypeOK
<1>1. CASE Quiet BY <1>0, <1>1 DEF Quiet, diskVars, DiskTypeOK, StoreClosed, HeadsOnChain
<1>2. ASSUME NEW b \in Blocks, Mined(b) PROVE DiskTypeOK' /\ StoreClosed' /\ HeadsOnChain'
  BY <1>2, BlockStored, <1>0 DEF Mined, WriteBlock, Known, DiskTypeOK
<1>3. CASE ImportExecutes
  <2>1. First(op.todo) \in Blocks BY <1>0, <1>3, NextBlock DEF ImportExecutes
  <2>2. StoreClosed' /\ HeadsOnChain'
    <3>1. Parent[First(op.todo)] \in stored
      <4>1. CASE At("again") BY <1>3, <2>1, <4>1, ChainStep DEF Sound, StoreClosed, LocalsSet
      <4>2. CASE ~At("again") BY <1>3, <4>2 DEF ImportExecutes, Executable, Valid, Known
      <4> QED BY <4>1, <4>2
    <3> QED BY <1>3, <2>1, <3>1, BlockStored DEF ImportExecutes, WriteBlock
  <2> QED BY <1>0, <1>3, <2>1, <2>2 DEF ImportExecutes, WriteBlock, DiskTypeOK
<1>4. CASE SideStore
  <2>1. CASE stored' = stored BY <1>0, <1>4, <2>1 DEF SideStore, DiskTypeOK, StoreClosed, HeadsOnChain
  <2>2. CASE stored' = stored \cup {First(op.todo)}
    BY <1>4, <2>2, SideParent, BlockStored, <1>0 DEF SideStore, DiskTypeOK
  <2> QED BY <1>4, <2>1, <2>2 DEF SideStore
<1>5. CASE ImportKnown
  BY <1>0, <1>5 DEF ImportKnown, Known, DiskTypeOK, StoreClosed, HeadsOnChain
<1>6. CASE WriteState
  BY <1>6, SoundFacts, StateCommitted, <1>0 DEF WriteState, Sound, LocalsSet, DiskTypeOK, StoreClosed, HeadsOnChain
<1>7. CASE ReorgWrite
  BY <1>7, PathFacts, <1>0, HeadWritten DEF ReorgWrite, DiskTypeOK
<1>8. CASE WriteHeadBlock
  BY <1>8, <1>0, HeadWritten DEF WriteHeadBlock, Sound, LocalsSet, DiskTypeOK
<1>9. CASE ReorgIndex
  BY <1>0, <1>9 DEF ReorgIndex, DiskTypeOK, StoreClosed, HeadsOnChain
<1>10. CASE RewindStep BY <1>0, <1>10, HeaderTaken, SoundFacts DEF RewindStep, DiskTypeOK, StoreClosed, HeadsOnChain
<1>11. CASE RewindDelete BY <1>0, <1>11, BlocksWiped DEF RewindDelete, DiskTypeOK
<1>12. CASE Stop
  BY <1>0, <1>12 DEF Stop, Saved, DiskTypeOK, Lost, StoreClosed, HeadsOnChain
<1>13. CASE Crash BY <1>0, <1>13 DEF Crash, Lost, diskVars, DiskTypeOK, StoreClosed, HeadsOnChain
<1>14. CASE Restart
  BY <1>0, StatefulExists, ChainOrder, ChainEnds, <1>14 DEF DiskTypeOK, HeadsOnChain, Restart, Repair, StoreClosed
<1> QED
  BY <1>1, <1>2, <1>3, <1>4, <1>5, <1>6, <1>7, <1>8, <1>9, <1>10, <1>11, <1>12, <1>13, <1>14, QuietOrDisk DEF DiskStep

-----------------------------------------------------------------------------
(* Locals.                                                                 *)

\* The locals after the end of an operation, or of the process.
LEMMA LocalsEnded ==
  ASSUME op' = Idle \/ op' = [Idle EXCEPT !.at = "down"] PROVE LocalsSet'
  BY DEF Idle, LocalsSet, Ready, At

\* The locals at the places that read none but the target.
LEMMA LocalsElsewhere ==
  ASSUME Sound, stored \subseteq stored', op'.at \in {"enter", "trim", "main", "recover"},
         op'.target \in {None, op.target}
  PROVE  LocalsSet' BY DEF Sound, LocalsSet, Ready, At

\* The locals once a stored block is to become the head.
LEMMA LocalsSwitch ==
  ASSUME Sound, NEW b \in stored, NEW next, SwitchTo(b, next), UNCHANGED stored PROVE LocalsSet'
  BY SoundFacts DEF SwitchTo, Operations, Sound, LocalsSet, Ready, At

\* The end of a batch leads nowhere else.
LEMMA LocalsBatchEnd ==
  ASSUME Sound, EndBatch, stored \subseteq stored' PROVE LocalsSet'
<1>1. CASE op' = Idle BY <1>1, LocalsEnded
<1>2. CASE op' = [op EXCEPT !.at = "recover", !.todo = {}]
  BY <1>2, SoundFacts, LocalsElsewhere DEF Operations
<1> QED BY <1>1, <1>2 DEF EndBatch, Abort

\* A batch that goes on as a side chain starts with a pruned block.
LEMMA LocalsDispatch ==
  ASSUME Sound, op.todo # {}, Dispatch(First(op.todo)), UNCHANGED <<stored, flushed, refs>> PROVE LocalsSet'
<1> DEFINE b == First(op.todo)
<1>1. b \in Blocks BY SoundFacts, NextBlock
<1>2. CASE Abort BY <1>2, LocalsEnded DEF Abort
<1>3. CASE Goto("main") \/ op' = [op EXCEPT !.at = "recover", !.todo = {}, !.rest = Stateless(b)]
  BY <1>3, SoundFacts, LocalsElsewhere DEF Goto, Operations
<1>4. CASE Pruned(b) /\ op' = [op EXCEPT !.at = "side", !.last = b]
  <2>1. op'.at = "side" /\ op'.last = b /\ op'.todo = op.todo /\ op'.target = op.target
    BY <1>4, SoundFacts DEF Operations
  <2>2. SidePending' BY <1>4, <2>1 DEF SidePending, Pruned, Known, HasState
  <2> QED BY <1>1, <2>1, <2>2 DEF Sound, LocalsSet, Ready, At
<1> QED BY <1>2, <1>3, <1>4 DEF Dispatch

\* Where writeBlockWithState leads.
LEMMA LocalsWritten ==
  ASSUME Sound, NEW b \in stored', stored \subseteq stored',
         op'.at = "state", op'.block = b, op'.target \in {None, op.target}
  PROVE  LocalsSet' BY DEF Sound, LocalsSet, Ready, At

\* insertSideChain has gone over a block.
LEMMA LocalsSide ==
  ASSUME Sound, At("side"), NEW b \in Blocks, stored \subseteq stored',
         op'.at = "side", op'.prev = b, op'.last \in {b, op.last}, op'.target = op.target
  PROVE  LocalsSet' BY DEF Sound, LocalsSet, Ready, At

\* Every step sets the locals the next one is about to use.
LEMMA LocalsNext == Sound /\ [Next]_vars => LocalsSet'
<1> SUFFICES ASSUME Sound, [Next]_vars PROVE LocalsSet' OBVIOUS
<1>0. op \in Operations /\ LocalsSet BY DEF Sound, TypeOK
<1>1. ASSUME NEW top \in Blocks, NEW bottom \in Blocks, InsertChain(bottom, top) PROVE LocalsSet'
  BY <1>1, LocalsElsewhere DEF InsertChain, Idle, diskVars
<1>2. ASSUME NEW b \in Blocks, Mined(b) PROVE LocalsSet'
  BY <1>2, LocalsWritten DEF Mined, Idle, WriteBlock
<1>3. ASSUME NEW b \in Blocks, GossipTerminal(b) \/ InsertPayload PROVE LocalsSet'
  BY <1>3, LocalsElsewhere DEF GossipTerminal, InsertPayload, InsertBlockWithoutSetHead, Idle, diskVars
<1>4. ASSUME NEW b \in Blocks, SetCanonical(b) PROVE LocalsSet'
  BY <1>4 DEF SetCanonical, Idle, diskVars, LocalsSet, Ready, At
<1>5. ASSUME NEW n \in Heights, SetHead(n) PROVE LocalsSet'
  BY <1>5, SoundFacts DEF SetHead, Idle, LocalsSet, Ready, At
<1>6. ASSUME op' = op, stored' = stored, flushed' = flushed, refs' = refs PROVE LocalsSet'
  BY <1>0, <1>6 DEF LocalsSet, Ready, At, SidePending, Pruned, Known, HasState
<1>7. CASE EnterBatch
  <2>1. CASE EndBatch BY <1>7, <2>1, LocalsBatchEnd DEF EnterBatch, diskVars
  <2>2. CASE Goto("trim")
    BY <1>0, <1>7, <2>2, LocalsElsewhere DEF EnterBatch, Goto, diskVars, Operations
  <2> QED BY <1>7, <2>1, <2>2 DEF EnterBatch
<1>8. CASE Trim
  <2>0. UNCHANGED <<stored, flushed, refs>> BY <1>8 DEF Trim, diskVars
  <2>1. CASE EndBatch BY <2>0, <2>1, LocalsBatchEnd
  <2>2. CASE op.todo # {} /\ Dispatch(First(op.todo)) BY <2>0, <2>2, LocalsDispatch
  <2>3. CASE Skip(First(op.todo))
    BY <1>0, <1>8, <2>3, <2>0, LocalsElsewhere DEF Trim, At, Skip, Operations
  <2>4. CASE op.todo # {} /\ Known(First(op.todo)) /\ Goto("again")
    BY <1>0, <2>4, <2>0 DEF Goto, Operations, Known, LocalsSet, Ready, At
  <2> QED BY <1>8, <2>1, <2>2, <2>3, <2>4 DEF Trim, ExecuteKnown
<1>10. CASE ImportStops BY <1>10, LocalsBatchEnd DEF ImportStops, diskVars
<1>11. CASE ImportKnown BY <1>11, LocalsSwitch DEF ImportKnown, Known
<1>12. CASE ImportExecutes
  BY <1>0, <1>12, LocalsWritten DEF ImportExecutes, WriteBlock, Operations
<1>13. CASE ImportFails \/ SideGhost BY <1>13, LocalsEnded DEF ImportFails, SideGhost, Abort
<1>14. CASE WriteState
  <2>1. CASE EndBatch BY <1>14, <2>1, LocalsBatchEnd DEF WriteState
  <2>2. CASE Goto("choose")
    BY <1>0, <1>14, <2>2 DEF WriteState, Goto, Operations, LocalsSet, Ready, At
  <2> QED BY <1>14, <2>1, <2>2 DEF WriteState
<1>15. CASE Choose
  <2>1. op.block \in stored /\ stored' = stored BY <1>0, <1>15 DEF Choose, LocalsSet, diskVars
  <2>2. CASE SwitchTo(op.block, "main") BY <2>1, <2>2, LocalsSwitch
  <2>3. CASE Goto("main")
    BY <1>0, <2>3, <2>1, LocalsElsewhere DEF Goto, Operations
  <2> QED BY <1>15, <2>2, <2>3 DEF Choose
<1>16. CASE ReorgWrite BY <1>0, <1>16 DEF ReorgWrite, LocalsSet, Ready, At
<1>17. CASE ReorgIndex
  BY <1>0, <1>17 DEF ReorgIndex, Goto, Operations, LocalsSet, Ready, At
<1>18. CASE WriteHeadBlock
  <2>1. CASE op' = Idle BY <2>1, LocalsEnded
  <2>2. CASE /\ op.next # "idle"
             /\ op' = [op EXCEPT !.at = op.next, !.todo = @ \ {op.block}, !.block = None, !.old = None]
    BY <1>0, <1>18, <2>2, LocalsElsewhere DEF WriteHeadBlock, Operations
  <2> QED BY <1>18, <2>1, <2>2 DEF WriteHeadBlock, Abort
<1>19. CASE SideCanonical
  BY <1>0, <1>19, SideParent, LocalsSide DEF SideCanonical, At, diskVars, Operations
<1>20. CASE SideStore
  <2>1. CASE op' = Idle BY <2>1, LocalsEnded
  <2>2. CASE op' = [op EXCEPT !.todo = @ \ {First(op.todo)}, !.prev = First(op.todo), !.last = First(op.todo)]
    BY <1>0, <1>20, <2>2, SideParent, LocalsSide DEF SideStore, At, Operations
  <2> QED BY <1>20, <2>1, <2>2 DEF SideStore, Abort
<1>21. CASE SideDecide
  <2>1. CASE op' = Idle BY <2>1, LocalsEnded
  <2>2. CASE op' = [op EXCEPT !.at = "enter", !.todo = Stateless(op.prev), !.last = None, !.prev = None]
    BY <1>0, <1>21, <2>2, LocalsElsewhere DEF SideDecide, diskVars, Operations
  <2> QED BY <1>21, <2>1, <2>2 DEF SideDecide, Abort
<1>22. CASE Recover
  <2>0. stored' = stored BY <1>22 DEF Recover, diskVars
  <2>1. CASE op' = Idle BY <2>1, LocalsEnded
  <2>2. CASE op' = [op EXCEPT !.at = "enter", !.todo = {First(op.rest)}, !.rest = @ \ {First(op.rest)}]
    BY <1>0, <2>2, <2>0, LocalsElsewhere DEF Operations
  <2>3. CASE op.target # None /\ SwitchTo(op.target, "idle") BY <1>0, <2>0, <2>3, LocalsSwitch DEF LocalsSet
  <2> QED BY <1>22, <2>1, <2>2, <2>3 DEF Recover, RecoverNext, Abort
<1>23. CASE RewindDelete \/ Restart BY <1>23, LocalsEnded DEF RewindDelete, Restart, Abort
<1>24. CASE Stop \/ Crash BY <1>24, LocalsEnded DEF Stop, Crash, Lost
<1>25. CASE RewindStep BY <1>0, <1>25 DEF RewindStep, LocalsSet, Ready, At
<1>26. ASSUME NEW b \in Blocks, NewPayload(b) \/ StopInsert \/ UNCHANGED vars PROVE LocalsSet'
  BY <1>6, <1>26 DEF NewPayload, StopInsert, vars, diskVars
<1>27. CASE Call BY <1>1, <1>2, <1>3, <1>4, <1>5, <1>26, <1>27, ChainEnds, TreeAssumption DEF Call
<1>28. CASE Import BY <1>7, <1>8, <1>10, <1>11, <1>12, <1>13, <1>14, <1>15, <1>16, <1>17, <1>18,
     <1>19, <1>20, <1>21, <1>22, <1>28 DEF Import
<1>29. CASE Rewind \/ Process \/ UNCHANGED vars BY <1>23, <1>24, <1>25, <1>26, <1>29, TreeAssumption DEF Rewind, Process
<1> QED BY <1>27, <1>28, <1>29 DEF Next

-----------------------------------------------------------------------------
(* Types and markers.                                                      *)

\* The counters of kills and rewinds stay within their bounds.
LEMMA BoundsNext ==
  Sound /\ [Next]_vars =>
    /\ payload' \in Blocks \cup {None} /\ stopped' \in BOOLEAN /\ archive' \in BOOLEAN
    /\ crashes' \in 0 .. MaxCrashes /\ rewinds' \in 0 .. MaxRewinds
<1> SUFFICES ASSUME Sound, [Next]_vars
             PROVE  /\ payload' \in Blocks \cup {None} /\ stopped' \in BOOLEAN /\ archive' \in BOOLEAN
                    /\ crashes' \in 0 .. MaxCrashes /\ rewinds' \in 0 .. MaxRewinds
  OBVIOUS
<1>0. /\ payload \in Blocks \cup {None} /\ stopped \in BOOLEAN /\ archive \in BOOLEAN
      /\ crashes \in 0 .. MaxCrashes /\ rewinds \in 0 .. MaxRewinds
  BY DEF Sound, TypeOK
<1>1. payload' \in Blocks \cup {None} /\ stopped' \in BOOLEAN
  <2>1. CASE Call
    BY <1>0, <2>1 DEF Call, InsertChain, Mined, NewPayload, GossipTerminal, SetCanonical, InsertPayload, SetHead
  <2>2. CASE Import
    BY <1>0, <2>2 DEF Import, EnterBatch, Trim, ImportStops, ImportKnown, ImportExecutes, ImportFails, WriteState,
     Choose, ReorgWrite, ReorgIndex, WriteHeadBlock, SideCanonical, SideGhost, SideStore, SideDecide, Recover
  <2>3. CASE Rewind \/ Process \/ UNCHANGED vars
    BY <1>0, <2>3 DEF Rewind, RewindStep, RewindDelete, Process, StopInsert, Stop, Crash, Restart, Lost, vars
  <2> QED BY <2>1, <2>2, <2>3 DEF Next
<1>2. archive' = archive BY QuietOrDisk
<1>3. crashes' = crashes \/ (crashes < MaxCrashes /\ crashes' = crashes + 1)
  <2>1. CASE Call
    BY <2>1 DEF Call, InsertChain, Mined, NewPayload, GossipTerminal, SetCanonical, InsertPayload, SetHead, outside
  <2>2. CASE Import
    BY <2>2 DEF Import, EnterBatch, Trim, ImportStops, ImportKnown, ImportExecutes, ImportFails, WriteState, Choose,
     ReorgWrite, ReorgIndex, WriteHeadBlock, SideCanonical, SideGhost, SideStore, SideDecide, Recover, outside
  <2>3. CASE Rewind \/ Process \/ UNCHANGED vars
    BY <2>3 DEF Rewind, RewindStep, RewindDelete, Process, StopInsert, Stop, Crash, Restart, vars, outside
  <2> QED BY <2>1, <2>2, <2>3 DEF Next
<1>4. rewinds' = rewinds \/ (rewinds < MaxRewinds /\ rewinds' = rewinds + 1)
  <2>1. CASE Call
    BY <2>1 DEF Call, InsertChain, Mined, NewPayload, GossipTerminal, SetCanonical, InsertPayload, SetHead, outside
  <2>2. CASE Import
    BY <2>2 DEF Import, EnterBatch, Trim, ImportStops, ImportKnown, ImportExecutes, ImportFails, WriteState, Choose,
     ReorgWrite, ReorgIndex, WriteHeadBlock, SideCanonical, SideGhost, SideStore, SideDecide, Recover, outside
  <2>3. CASE Rewind \/ Process \/ UNCHANGED vars
    BY <2>3 DEF Rewind, RewindStep, RewindDelete, Process, StopInsert, Stop, Crash, Restart, vars, outside
  <2> QED BY <2>1, <2>2, <2>3 DEF Next
<1> QED BY <1>0, <1>1, <1>2, <1>3, <1>4, DataAssumption

\* A new database holds the genesis block and its state.
LEMMA SoundInit == Init => Sound
<1> SUFFICES ASSUME Init PROVE Sound OBVIOUS
<1>1. 0 \in Heights /\ Genesis \in Blocks /\ Num[Genesis] = 0 /\ Chain[Genesis] = {Genesis} /\ None \notin Blocks
  BY TreeAssumption DEF Heights
<1>2. TypeOK
  <2>1. canon \in [Heights -> Blocks \cup {None}] /\ lookup \in [AllTxs -> Heights \cup {None}] BY <1>1 DEF Init
  <2>2. op \in Operations BY IdleType DEF Init
  <2>3. head \in [block : Blocks, header : Blocks, fast : Blocks] /\ flushed \subseteq {Root[b] : b \in Blocks}
    BY <1>1 DEF Init
  <2>4. crashes \in 0 .. MaxCrashes /\ rewinds \in 0 .. MaxRewinds BY DataAssumption DEF Init
  <2> QED BY <1>1, <2>1, <2>2, <2>3, <2>4 DEF Init, TypeOK
<1>3. StoreClosed BY <1>1 DEF Init, StoreClosed
<1>4. HeadsOnChain BY <1>1 DEF Init, HeadsOnChain
<1>5. LocalsSet BY DEF Init, Idle, LocalsSet, Ready, At
<1> QED BY <1>2, <1>3, <1>4, <1>5 DEF Sound

\* Whatever step is taken and wherever the process is killed.
LEMMA SoundNext == Sound /\ [Next]_vars => Sound'
  BY OpType, DiskNext, LocalsNext, BoundsNext DEF Sound, TypeOK, DiskTypeOK

LEMMA AlwaysSound == Spec => []Sound BY SoundInit, SoundNext, PTL DEF Spec

\* The database, the states in memory and the locals of the operation that holds
\* chainmu have their types, for any tree of blocks.
THEOREM TypeCorrect == Spec => []TypeOK
<1>1. Sound => TypeOK BY DEF Sound
<1> QED BY <1>1, AlwaysSound, PTL

\* The markers name stored blocks of one chain and a stored block has its parent,
\* between any two batches and after any number of kills, rewinds and restarts.
THEOREM MarkersAreSound == Spec => []MarkersSound
<1>1. Sound => MarkersSound
  <2>1. SUFFICES ASSUME Sound PROVE MarkersSound OBVIOUS
  <2> QED BY <2>1, SoundFacts DEF Sound, HeadsOnChain, MarkersSound
<1> QED BY <1>1, AlwaysSound, PTL

-----------------------------------------------------------------------------
(* How an operation gets to writeHeadBlock.                                *)

\* Places neither reorg, nor writeHeadBlock, nor a rewind is at.
Plain == op.at \notin {"switch", "head", "rewind"}

\* A step that writes no marker and no index: it may lead to reorg, to
\* writeHeadBlock if the new head extends the old one, or to a rewind.
Approach ==
  /\ UNCHANGED <<canon, lookup, head, crashes>>
  /\ \/ op' = op
     \/ /\ Plain
        /\ op'.at = "head" => op'.block \in stored /\ Extends(op'.block)
        /\ op'.at = "rewind" => op'.start = head.header

Indexing == ReorgWrite \/ ReorgIndex \/ WriteHeadBlock \/ RewindStep \/ RewindDelete \/ Crash \/ Restart

LEMMA ApproachSwitch ==
  ASSUME Sound, NEW b \in stored, NEW next, SwitchTo(b, next), Plain,
         UNCHANGED <<canon, lookup, head, crashes>>
  PROVE  Approach BY SoundFacts DEF SwitchTo, Approach, Operations

LEMMA ApproachPlain ==
  ASSUME Plain, op'.at \notin {"head", "rewind"}, UNCHANGED <<canon, lookup, head, crashes>>
  PROVE  Approach BY DEF Approach

LEMMA ApproachBatchEnd ==
  ASSUME Sound, EndBatch, Plain, UNCHANGED <<canon, lookup, head, crashes>> PROVE Approach
  BY SoundFacts, IdleType, ApproachPlain DEF EndBatch, Abort, Operations

LEMMA ApproachDispatch ==
  ASSUME Sound, NEW b, Dispatch(b), Plain, UNCHANGED <<canon, lookup, head, crashes>> PROVE Approach
<1>1. CASE Goto("main") BY <1>1, SoundFacts, ApproachPlain DEF Goto, Operations
<1>2. CASE op' = [op EXCEPT !.at = "side", !.last = b] BY <1>2, SoundFacts, ApproachPlain DEF Operations
<1>3. CASE op' = [op EXCEPT !.at = "recover", !.todo = {}, !.rest = Stateless(b)]
  BY <1>3, SoundFacts, ApproachPlain DEF Operations
<1>4. CASE Abort BY <1>4, IdleType, ApproachPlain DEF Abort
<1> QED BY <1>1, <1>2, <1>3, <1>4 DEF Dispatch

\* Every other step is one of these.
LEMMA ApproachNext == Sound /\ [Next]_vars => Approach \/ Indexing
<1> SUFFICES ASSUME Sound, [Next]_vars PROVE Approach \/ Indexing OBVIOUS
<1>0. op \in Operations /\ LocalsSet BY DEF Sound, TypeOK
<1>1. CASE Call
  <2>1. ASSUME op' = op, UNCHANGED <<canon, lookup, head, crashes>> PROVE Approach BY <2>1 DEF Approach
  <2>2. ASSUME Ready, op'.at \in {"enter", "state", "recover"}, UNCHANGED <<canon, lookup, head, crashes>>
        PROVE  Approach BY <2>2, ApproachPlain DEF Plain, Ready
  <2>3. ASSUME NEW n \in Heights, SetHead(n) PROVE Approach
    BY <2>3 DEF SetHead, Idle, diskVars, Approach, Plain, Ready
  <2> QED
    BY <1>1, <2>1, <2>2, <2>3 DEF Call, InsertChain, Mined, NewPayload, GossipTerminal, SetCanonical, InsertPayload,
     InsertBlockWithoutSetHead, Idle, diskVars, outside
<1>2. CASE EnterBatch \/ Trim
  <2>1. Plain /\ UNCHANGED <<canon, lookup, head, crashes>> BY <1>2 DEF EnterBatch, Trim, Plain, At, diskVars, outside
  <2>2. CASE EndBatch BY <2>1, <2>2, ApproachBatchEnd
  <2>3. CASE Dispatch(First(op.todo)) BY <2>1, <2>3, ApproachDispatch
  <2>4. CASE Goto("trim") \/ Goto("again") \/ Skip(First(op.todo))
    BY <1>0, <2>4, <2>1, ApproachPlain DEF Goto, Skip, Operations, Plain
  <2> QED BY <1>2, <2>2, <2>3, <2>4 DEF EnterBatch, Trim, ExecuteKnown
<1>3. CASE ImportStops \/ ImportKnown \/ ImportExecutes \/ ImportFails
  <2>1. Plain /\ UNCHANGED <<canon, lookup, head, crashes>>
    BY <1>3 DEF ImportStops, ImportKnown, ImportExecutes, ImportFails, Importing, Plain, At, diskVars, outside
  <2>2. CASE EndBatch BY <2>1, <2>2, ApproachBatchEnd
  <2>3. CASE Known(First(op.todo)) /\ SwitchTo(First(op.todo), "main") BY <2>1, <2>3, ApproachSwitch DEF Known
  <2>4. CASE ImportExecutes
    BY <1>0, <2>4, <2>1, ApproachPlain DEF ImportExecutes, Operations
  <2>5. CASE Abort BY <2>1, <2>5, IdleType, ApproachPlain DEF Abort
  <2> QED BY <1>3, <2>2, <2>3, <2>4, <2>5 DEF ImportStops, ImportKnown, ImportFails
<1>4. CASE WriteState \/ Choose
  <2>1. Plain /\ op.block \in stored /\ UNCHANGED <<canon, lookup, head, crashes>>
    BY <1>0, <1>4 DEF WriteState, Choose, Plain, At, diskVars, outside, LocalsSet
  <2>2. CASE EndBatch BY <2>1, <2>2, ApproachBatchEnd
  <2>3. CASE Goto("choose") \/ Goto("main") BY <1>0, <2>1, <2>3, ApproachPlain DEF Goto, Operations
  <2>4. CASE SwitchTo(op.block, "main") BY <2>1, <2>4, ApproachSwitch
  <2> QED BY <1>4, <2>2, <2>3, <2>4 DEF WriteState, Choose
<1>5. CASE SideCanonical \/ SideGhost \/ SideStore \/ SideDecide
  <2>1. Plain /\ UNCHANGED <<canon, lookup, head, crashes>>
    BY <1>5 DEF SideCanonical, SideGhost, SideStore, SideDecide, Plain, At, diskVars, outside
  <2>2. op'.at \in {"idle", "side", "enter"}
    <3>1. Idle.at = "idle" BY IdleType
    <3>2. CASE SideCanonical \/ SideGhost BY <1>0, <3>1, <3>2 DEF SideCanonical, SideGhost, Abort, At, Operations
    <3>3. CASE SideStore BY <1>0, <3>1, <3>3 DEF SideStore, Abort, At, Operations
    <3>4. CASE SideDecide BY <1>0, <3>1, <3>4 DEF SideDecide, Abort, At, Operations
    <3> QED BY <1>5, <3>2, <3>3, <3>4
  <2> QED BY <2>1, <2>2, ApproachPlain
<1>6. CASE Recover
  <2>1. Plain /\ UNCHANGED <<canon, lookup, head, crashes>> BY <1>6 DEF Recover, Plain, At, diskVars, outside
  <2>2. CASE Abort BY <2>1, <2>2, IdleType, ApproachPlain DEF Abort
  <2>3. CASE op' = [op EXCEPT !.at = "enter", !.todo = {First(op.rest)}, !.rest = @ \ {First(op.rest)}]
    BY <1>0, <2>1, <2>3, ApproachPlain DEF Operations
  <2>4. CASE op.target # None /\ SwitchTo(op.target, "idle") BY <1>0, <2>1, <2>4, ApproachSwitch DEF LocalsSet
  <2> QED BY <1>6, <2>2, <2>3, <2>4 DEF Recover, RecoverNext
<1>7. CASE ReorgWrite \/ ReorgIndex \/ WriteHeadBlock \/ Rewind BY <1>7 DEF Indexing, Rewind
<1>8. CASE Process \/ UNCHANGED vars
  <2>1. CASE Stop
    BY <2>1, ApproachPlain DEF Stop, Lost, Idle, Plain, Ready, outside
  <2> QED BY <1>8, <2>1 DEF Process, StopInsert, Indexing, Approach, vars, diskVars, outside
<1> QED BY <1>1, <1>2, <1>3, <1>4, <1>5, <1>6, <1>7, <1>8 DEF Next, Import

-----------------------------------------------------------------------------
(* Canonical hashes and lookups follow the head of a node that is not      *)
(* killed.                                                                 *)

\* The blocks whose canonical hashes are right: all of the head header's chain,
\* or, once reorg has deleted its indexes, those below the new head.
Settled == IF At("head") THEN Chain[op.block] \ {op.block} ELSE Chain[head.header]
CanonFollows == crashes = 0 => \A b \in Settled : canon[Num[b]] = b

\* The blocks whose transactions are found.
Indexed == IF At("head") THEN Chain[op.block] \ {op.block} ELSE Chain[head.block]
LookupFollows == crashes = 0 => \A b \in Indexed : \A t \in Txs[b] : lookup[t] = Num[b]

\* A batch of writeHeadBlock completes what held below the block.
LEMMA WriteCanon ==
  ASSUME Sound, NEW b \in stored, WriteHead(b),
         \A x \in Chain[b] \ {b} : canon[Num[x]] = x PROVE \A x \in Chain[b] : canon'[Num[x]] = x
<1>1. b \in Blocks /\ Num[b] \in Heights /\ canon' = [canon EXCEPT ![Num[b]] = b] BY SoundFacts, ChainEnds DEF WriteHead
<1>2. canon'[Num[b]] = b BY <1>1, SoundFacts
<1>3. ASSUME NEW x \in Chain[b] \ {b} PROVE canon'[Num[x]] = x
  BY <1>1, <1>3, ChainOrder, ChainEnds, SoundFacts
<1> QED BY <1>2, <1>3

LEMMA WriteLookup ==
  ASSUME Sound, NEW b \in stored, WriteHead(b),
         \A x \in Chain[b] \ {b} : \A t \in Txs[x] : lookup[t] = Num[x]
  PROVE  \A x \in Chain[b] : \A t \in Txs[x] : lookup'[t] = Num[x]
<1>1. b \in Blocks /\ b \in Chain[b] /\ Chain[b] \subseteq Blocks BY SoundFacts, ChainEnds
<1>2. lookup' = [t \in AllTxs |-> IF t \in Txs[b] THEN Num[b] ELSE lookup[t]] BY DEF WriteHead
<1>3. ASSUME NEW x \in Chain[b], NEW t \in Txs[x] PROVE lookup'[t] = Num[x]
  <2>1. t \in AllTxs BY <1>1, <1>3 DEF AllTxs
  <2>2. CASE x = b BY <1>2, <1>3, <2>1, <2>2
  <2>3. CASE x # b
    BY <1>1, <1>3, <2>3, DataAssumption, <1>2, <2>1
  <2> QED BY <2>2, <2>3
<1> QED BY <1>3

\* A block on top of the head has the head's chain below it.
LEMMA BelowExtension ==
  ASSUME Sound, NEW b \in Blocks, Parent[b] \in Chain[head.block]
  PROVE  /\ Chain[b] \ {b} \subseteq Chain[head.block] /\ Chain[b] \ {b} \subseteq Chain[head.header]
  BY SoundFacts, ChainOrder, ChainStep DEF Sound, HeadsOnChain

\* When the path is written, the new head's chain below it is the head's.
LEMMA PathWritten ==
  ASSUME Sound, At("switch"), PathLeft = {}
  PROVE  /\ op.block \in Blocks /\ op.old \in Blocks
         /\ Chain[op.block] \ {op.block} \subseteq Chain[head.block]
         /\ Chain[op.block] \ {op.block} \subseteq Chain[head.header]
         /\ IndexFloor(op.old, op.block) \in Heights
         /\ IndexFloor(op.old, op.block) <= Num[op.block] /\ Num[op.block] <= IndexFloor(op.old, op.block) + 1
<1>1. op.block \in Blocks /\ op.old \in Blocks /\ head.block \in Blocks /\ head.header \in Blocks
      /\ head.block \in Chain[head.header]
  BY SoundFacts DEF Sound, LocalsSet, HeadsOnChain
<1>2. Chain[op.block] \ {op.block} \subseteq Chain[head.block] BY DEF PathLeft
<1>3. Chain[head.block] \subseteq Chain[head.header] BY <1>1, ChainOrder
<1>4. Num[op.block] \in Nat /\ Num[op.block] \in Heights BY <1>1, ChainEnds
<1>5. CASE op.block \in Chain[op.old] BY <1>1, <1>2, <1>3, <1>4, <1>5 DEF IndexFloor
<1>6. CASE op.block \notin Chain[op.old]
  <2>1. op.block # Genesis BY <1>1, <1>6, ChainEnds
  <2>2. Num[op.block] = Num[Parent[op.block]] + 1 /\ Num[Parent[op.block]] \in Nat /\ Num[Parent[op.block]] \in Heights
    BY <1>1, <2>1, ChainStep, ChainEnds
  <2>3. IndexFloor(op.old, op.block) = Num[Parent[op.block]] BY <1>6, <2>2 DEF IndexFloor
  <2> QED BY <1>1, <1>2, <1>3, <1>4, <2>2, <2>3
<1> QED BY <1>5, <1>6

\* The canonical hashes below the new head survive the last batch of reorg.
LEMMA IndexKeepsCanon ==
  ASSUME Sound, ReorgIndex, \A b \in Chain[head.header] : canon[Num[b]] = b
  PROVE  \A b \in Chain[op.block] \ {op.block} : canon'[Num[b]] = b
<1> DEFINE number == IndexFloor(op.old, op.block)
<1>1. PICK end : canon' = [n \in Heights |-> IF number < n /\ n < end THEN None ELSE canon[n]] BY DEF ReorgIndex
<1>2. /\ op.block \in Blocks /\ number \in Heights /\ Num[op.block] <= number + 1
      /\ Chain[op.block] \ {op.block} \subseteq Chain[head.header]
  BY PathWritten DEF ReorgIndex
<1> HIDE DEF number
<1>3. ASSUME NEW b \in Chain[op.block] \ {op.block} PROVE canon'[Num[b]] = b
  BY <1>2, <1>3, ChainOrder, ChainEnds, <1>1 DEF Heights
<1> QED BY <1>3

\* A transaction of the new chain is not among the lost ones: its block is either
\* one of those added, or of the old chain, where no other block holds it.
LEMMA IndexKeepsLookup ==
  ASSUME Sound, ReorgIndex, \A b \in Chain[head.block] : \A t \in Txs[b] : lookup[t] = Num[b]
  PROVE  \A b \in Chain[op.block] \ {op.block} : \A t \in Txs[b] : lookup'[t] = Num[b]
<1>1. lookup' = [t \in AllTxs |-> IF t \in LostTxs(op.old, op.block) THEN None ELSE lookup[t]] BY DEF ReorgIndex
<1>2. op.block \in Blocks /\ op.old \in Blocks /\ Chain[op.block] \ {op.block} \subseteq Chain[head.block]
  BY PathWritten DEF ReorgIndex
<1>3. ASSUME NEW b \in Chain[op.block] \ {op.block}, NEW t \in Txs[b] PROVE lookup'[t] = Num[b]
  <2>1. t \in AllTxs BY <1>2, <1>3, ChainEnds DEF AllTxs
  <2>2. t \notin LostTxs(op.old, op.block)
    <3>1. CASE b \in Chain[op.old]
      BY <1>2, <1>3, <3>1, DataAssumption DEF LostTxs
    <3>2. CASE b \notin Chain[op.old]
      BY <1>3, <3>2 DEF LostTxs
    <3> QED BY <3>1, <3>2
  <2> QED BY <1>1, <1>2, <1>3, <2>1, <2>2
<1> QED BY <1>3

\* What an index step does to the crashes, and where it takes place.
LEMMA IndexingPlaces ==
  ASSUME Sound, Indexing, crashes' = 0 PROVE crashes = 0 /\ ~Crash
  BY DEF Indexing, ReorgWrite, ReorgIndex, WriteHeadBlock, RewindStep, RewindDelete, Restart, Crash, outside, Sound,
   TypeOK

\* All along a reorg and a rewind.
LEMMA CanonNext == Sound /\ CanonFollows /\ [Next]_vars => CanonFollows'
<1> SUFFICES ASSUME Sound, CanonFollows, [Next]_vars, crashes' = 0
             PROVE  \A b \in Settled' : canon'[Num[b]] = b BY DEF CanonFollows
<1>0. op \in Operations /\ LocalsSet /\ head.header \in Blocks /\ head.block \in Chain[head.header]
  BY SoundFacts DEF Sound, HeadsOnChain
<1>1. CASE Approach
  <2>1. \A b \in Settled : canon'[Num[b]] = b BY <1>1 DEF Approach, CanonFollows
  <2>2. CASE op' = op BY <1>1, <2>1, <2>2 DEF Approach, Settled, At
  <2>3. CASE Plain /\ op'.at = "head"
    BY <1>1, <2>3, SoundFacts, ChainEnds, BelowExtension, <2>1 DEF Approach, Extends, Plain, Settled, At
  <2>4. CASE Plain /\ op'.at # "head" BY <1>1, <2>1, <2>4 DEF Approach, Plain, Settled, At
  <2> QED BY <1>1, <2>2, <2>3, <2>4 DEF Approach, Plain
<1>2. CASE Indexing
  <2>1. \A b \in Settled : canon[Num[b]] = b BY <1>2, IndexingPlaces DEF CanonFollows
  <2>2. CASE ReorgWrite
    <3> DEFINE b == First(PathLeft)
    <3>1. /\ b \in stored /\ b \in Blocks /\ Parent[b] \in Chain[head.block] /\ WriteHead(b) /\ op' = op
          /\ At("switch") /\ head'.header = b
      BY <2>2, PathFacts, SoundFacts DEF ReorgWrite, WriteHead
    <3>2. \A x \in Chain[b] \ {b} : canon[Num[x]] = x BY <2>1, <3>1, BelowExtension DEF Settled, At
    <3> HIDE DEF b
    <3> QED BY <3>1, <3>2, WriteCanon DEF Settled, At
  <2>3. CASE ReorgIndex
    BY <1>0, <2>3, <2>1, IndexKeepsCanon DEF ReorgIndex, Goto, Operations, Settled, At
  <2>4. CASE WriteHeadBlock
    BY <1>0, <2>4, IdleType, <2>1, WriteCanon DEF WriteHeadBlock, WriteHead, LocalsSet, Abort, Operations, Settled, At
  <2>5. CASE RewindStep
    BY <2>5, HeaderTaken, <1>0, ChainStep, <2>1 DEF RewindStep, Settled, At
  <2>6. CASE RewindDelete
    <3>1. At("rewind") /\ op'.at = "idle" /\ head' = head
          /\ canon' = [n \in Heights |-> IF n \in Wiped THEN None ELSE canon[n]]
      BY <2>6, IdleType DEF RewindDelete, Abort
    <3>2. \A n \in Wiped : n > Num[head.header] BY <1>0, ChainEnds DEF Wiped
    <3>3. ASSUME NEW b \in Chain[head.header] PROVE canon'[Num[b]] = b
      <4>1. Num[b] \in Heights /\ Num[b] \in Nat /\ Num[head.header] \in Nat /\ Num[b] <= Num[head.header]
        BY <1>0, <3>3, ChainOrder, ChainEnds
      <4>2. Num[b] \notin Wiped BY <3>2, <4>1
      <4> QED BY <2>1, <3>1, <3>3, <4>1, <4>2 DEF Settled, At
    <3> QED BY <3>1, <3>3 DEF Settled, At
  <2>7. CASE Restart
    BY <2>7, IdleType, <2>1 DEF Restart, Repair, Settled, At
  <2> QED BY <1>2, <2>2, <2>3, <2>4, <2>5, <2>6, <2>7, IndexingPlaces DEF Indexing
<1> QED BY <1>1, <1>2, ApproachNext

\* So do the lookups.
LEMMA LookupNext == Sound /\ LookupFollows /\ [Next]_vars => LookupFollows'
<1> SUFFICES ASSUME Sound, LookupFollows, [Next]_vars, crashes' = 0
             PROVE  \A b \in Indexed' : \A t \in Txs[b] : lookup'[t] = Num[b] BY DEF LookupFollows
<1>0. op \in Operations /\ LocalsSet /\ head.header \in Blocks /\ head.block \in Blocks BY SoundFacts DEF Sound
<1>1. CASE Approach
  <2>1. \A b \in Indexed : \A t \in Txs[b] : lookup'[t] = Num[b] BY <1>1 DEF Approach, LookupFollows
  <2>2. CASE op' = op BY <1>1, <2>1, <2>2 DEF Approach, Indexed, At
  <2>3. CASE Plain /\ op'.at = "head"
    BY <1>1, <2>3, SoundFacts, ChainEnds, BelowExtension, <2>1 DEF Approach, Extends, Plain, Indexed, At
  <2>4. CASE Plain /\ op'.at # "head" BY <1>1, <2>1, <2>4 DEF Approach, Plain, Indexed, At
  <2> QED BY <1>1, <2>2, <2>3, <2>4 DEF Approach, Plain
<1>2. CASE Indexing
  <2>1. \A b \in Indexed : \A t \in Txs[b] : lookup[t] = Num[b] BY <1>2, IndexingPlaces DEF LookupFollows
  <2>2. CASE ReorgWrite
    <3> DEFINE b == First(PathLeft)
    <3>1. /\ b \in stored /\ b \in Blocks /\ Parent[b] \in Chain[head.block] /\ WriteHead(b) /\ op' = op
          /\ At("switch") /\ head'.block = b
      BY <2>2, PathFacts, SoundFacts DEF ReorgWrite, WriteHead
    <3>2. \A x \in Chain[b] \ {b} : \A t \in Txs[x] : lookup[t] = Num[x] BY <2>1, <3>1, BelowExtension DEF Indexed, At
    <3> HIDE DEF b
    <3> QED BY <3>1, <3>2, WriteLookup DEF Indexed, At
  <2>3. CASE ReorgIndex
    BY <1>0, <2>3, <2>1, IndexKeepsLookup DEF ReorgIndex, Goto, Operations, Indexed, At
  <2>4. CASE WriteHeadBlock
    BY <1>0, <2>4, IdleType, <2>1, WriteLookup DEF WriteHeadBlock, WriteHead, LocalsSet, Abort, Operations, Indexed, At
  <2>5. CASE RewindStep
    BY <2>5, HeaderTaken, <1>0, ChainOrder, <2>1 DEF RewindStep, Indexed, At
  <2>6. CASE RewindDelete
    BY <2>6, IdleType, <2>1 DEF RewindDelete, Abort, Indexed, At
  <2>7. CASE Restart
    <3>1. At("down") /\ op'.at = "idle" /\ lookup' = lookup /\ head'.block \in {head.block, Stateful(head.block)}
      BY <2>7, IdleType DEF Restart, Repair
    <3>2. head'.block \in Chain[head.block] BY <1>0, <3>1, StatefulExists, ChainEnds
    <3>3. Chain[head'.block] \subseteq Chain[head.block] BY <1>0, <3>2, ChainOrder
    <3> QED BY <2>1, <3>1, <3>3 DEF Indexed, At
  <2> QED BY <1>2, <2>2, <2>3, <2>4, <2>5, <2>6, <2>7, IndexingPlaces DEF Indexing
<1> QED BY <1>1, <1>2, ApproachNext

LEMMA FollowsInit == Init => CanonFollows /\ LookupFollows
<1> SUFFICES ASSUME Init PROVE CanonFollows /\ LookupFollows OBVIOUS
<1>1. ~At("head") /\ head.header = Genesis /\ head.block = Genesis /\ canon[0] = Genesis
  BY TreeAssumption DEF Init, Idle, At, Heights
<1> QED BY <1>1, TreeAssumption, DataAssumption DEF CanonFollows, LookupFollows, Settled, Indexed

LEMMA AlwaysFollows == Spec => [](Sound /\ CanonFollows /\ LookupFollows)
BY SoundInit, SoundNext, FollowsInit, CanonNext, LookupNext, PTL DEF Spec

\* Of a node that is not killed the canonical hashes are the head header's
\* ancestors, between any two batches but the last two of reorg.
THEOREM CanonFollowsHeader == Spec => []CanonUnlessKilled
<1>1. CanonFollows => CanonUnlessKilled BY DEF CanonFollows, Settled, CanonUnlessKilled, CanonBelowHeader
<1> QED BY <1>1, AlwaysFollows, PTL

\* Every transaction of the head's chain is found at its number, whichever
\* transactions the two sides of a reorg share.
THEOREM TransactionsAreFound == Spec => []TxIndexed
<1>1. LookupFollows => TxIndexed BY DEF LookupFollows, Indexed, TxIndexed
<1> QED BY <1>1, AlwaysFollows, PTL

-----------------------------------------------------------------------------
(* An archive node that is not killed: no state is missing, so that no     *)
(* batch goes on as a side chain and the three markers never part.         *)

Unkilled == archive /\ crashes = 0
ArchiveWhole ==
  Unkilled => /\ \A b \in stored : Root[b] \in flushed \/ (At("state") /\ b = op.block)
              /\ ~At("side")
              /\ head.block = head.header /\ head.fast = head.header

\* A kill is not undone and the operator's choice stays.
LEMMA UnkilledBefore == Sound /\ [Next]_vars /\ Unkilled' => Unkilled /\ ~Crash
<1>1. Sound /\ [Next]_vars /\ crashes' = 0 => crashes = 0
  <2>1. Sound /\ [Next]_vars => crashes' = crashes \/ crashes' # 0
    BY ApproachNext, DataAssumption DEF Approach, Indexing, ReorgWrite, ReorgIndex, WriteHeadBlock, RewindStep,
     RewindDelete, Restart, Crash, outside, Sound, TypeOK
  <2> QED BY <2>1
<1>2. Sound /\ Crash => crashes' # 0 BY DEF Crash, Sound, TypeOK
<1> QED BY <1>1, <1>2, QuietOrDisk DEF Unkilled

\* Once the last block's state is written, every stored block has one.
LEMMA EveryState ==
  ASSUME Sound, ArchiveWhole, Unkilled, ~At("state")
  PROVE  /\ \A b \in stored : Root[b] \in flushed /\ HasState(b) /\ Known(b)
         /\ \A b : ~Pruned(b)
  BY DEF ArchiveWhole, HasState, Known, Pruned

\* Where blocks come from.
LEMMA StoredNext ==
  ASSUME Sound, [Next]_vars, ~SideStore
  PROVE  \/ stored' \subseteq stored
         \/ \E b \in Blocks : /\ ~At("state") /\ stored' = stored \cup {b}
                             /\ op'.at = "state" /\ op'.block = b
<1>0. op \in Operations BY SoundFacts
<1>1. CASE Quiet BY <1>1 DEF Quiet, diskVars
<1>2. ASSUME NEW b \in Blocks, Mined(b)
      PROVE  ~At("state") /\ stored' = stored \cup {b} /\ op'.at = "state" /\ op'.block = b
  BY <1>2 DEF Mined, WriteBlock, Idle, Ready, At
<1>3. CASE ImportExecutes
  BY <1>0, <1>3, NextBlock DEF ImportExecutes, Importing, WriteBlock, At, Operations
<1>4. ImportKnown \/ WriteState \/ ReorgWrite \/ ReorgIndex \/ WriteHeadBlock \/ RewindStep \/ Stop
        \/ Crash \/ Restart \/ RewindDelete => stored' \subseteq stored
  BY DEF ImportKnown, WriteState, ReorgWrite, ReorgIndex, WriteHeadBlock, RewindStep, Stop, Crash, Restart,
   RewindDelete, diskVars
<1> QED BY <1>1, <1>2, <1>3, <1>4, QuietOrDisk DEF DiskStep

\* States on disk stay.
LEMMA FlushedStays ==
  ASSUME Sound, [Next]_vars PROVE flushed \subseteq flushed'
<1>1. CASE Quiet BY <1>1 DEF Quiet, diskVars
<1>2. CASE WriteState BY <1>2, SoundFacts, StateCommitted DEF WriteState, Sound, LocalsSet
<1>3. CASE Stop BY <1>3 DEF Stop
<1>4. ASSUME NEW b \in Blocks, Mined(b) PROVE flushed' = flushed BY <1>4 DEF Mined
<1>5. ImportKnown \/ ImportExecutes \/ ReorgWrite \/ ReorgIndex \/ WriteHeadBlock \/ SideStore \/ RewindStep
        \/ Crash \/ Restart \/ RewindDelete => flushed' = flushed
  BY DEF ImportKnown, ImportExecutes, ReorgWrite, ReorgIndex, WriteHeadBlock, SideStore, RewindStep, Crash, Restart,
   RewindDelete, diskVars
<1> QED BY <1>1, <1>2, <1>3, <1>4, <1>5, QuietOrDisk DEF DiskStep

\* A block that was written gets its state next.
LEMMA StateNext ==
  ASSUME Sound, [Next]_vars, At("state"), ~Crash PROVE op' = op \/ WriteState
<1>1. CASE Call
  BY <1>1 DEF Call, InsertChain, Mined, NewPayload, GossipTerminal, SetCanonical, InsertPayload, SetHead, Ready, At
<1>2. CASE Import
  BY <1>2 DEF Import, EnterBatch, Trim, ImportStops, ImportKnown, ImportExecutes, ImportFails, Importing, Choose,
   ReorgWrite, ReorgIndex, WriteHeadBlock, SideCanonical, SideGhost, SideStore, SideDecide, Recover, At
<1>3. CASE Rewind \/ Process \/ UNCHANGED vars
  BY <1>3 DEF Rewind, RewindStep, RewindDelete, Process, StopInsert, Stop, Restart, vars, Ready, At
<1> QED BY <1>1, <1>2, <1>3 DEF Next

\* A batch goes on as a side chain only from a pruned block.
LEMMA SideNext ==
  ASSUME Sound, [Next]_vars, ~At("side"), op'.at = "side" PROVE ~At("state") /\ \E b : Pruned(b)
<1>0. op \in Operations /\ Idle.at = "idle" BY SoundFacts, IdleType
<1>1. ASSUME NEW b, Dispatch(b) PROVE Pruned(b) BY <1>0, <1>1 DEF Dispatch, Goto, Abort, Operations
<1>2. EndBatch => FALSE BY <1>0 DEF EndBatch, Abort, Operations
<1>3. ASSUME NEW b, NEW next, SwitchTo(b, next) PROVE FALSE BY <1>0, <1>3 DEF SwitchTo, Operations
<1>4. ASSUME NEW at, at # "side", Goto(at) PROVE FALSE BY <1>0, <1>4 DEF Goto, Operations
<1>5. Trim => ~At("state") /\ \E b : Pruned(b)
  <2>1. ASSUME NEW b, Skip(b) PROVE FALSE BY <1>0, <2>1 DEF Skip, At, Operations
  <2> QED BY <1>1, <1>2, <1>3, <1>4, <2>1 DEF Trim, ExecuteKnown, At
<1>6. Call => FALSE
  <2>1. op' # op BY DEF At
  <2> QED BY <2>1 DEF Call, InsertChain, Mined, NewPayload, GossipTerminal, SetCanonical, InsertPayload, SetHead,
     InsertBlockWithoutSetHead, Idle
<1>7. EnterBatch \/ ImportStops \/ ImportKnown \/ ImportFails \/ WriteState \/ Choose => FALSE
  BY <1>0, <1>2, <1>3, <1>4 DEF EnterBatch, ImportStops, ImportKnown, ImportFails, WriteState, Choose, Abort
<1>8. ImportExecutes => FALSE BY <1>0 DEF ImportExecutes, Operations
<1>9. ReorgWrite \/ ReorgIndex => FALSE BY <1>0, <1>4 DEF ReorgWrite, ReorgIndex, At
<1>10. WriteHeadBlock => FALSE BY <1>0 DEF WriteHeadBlock, Abort, Operations
<1>11. SideCanonical \/ SideGhost \/ SideStore \/ SideDecide => FALSE
  BY DEF SideCanonical, SideGhost, SideStore, SideDecide
<1>12. Recover => FALSE
  BY <1>0, <1>3 DEF Operations, Recover, RecoverNext, Abort
<1>13. Rewind \/ Process \/ UNCHANGED vars => FALSE
  BY <1>0 DEF Rewind, RewindStep, RewindDelete, Process, StopInsert, Stop, Crash, Restart, Lost, Abort, vars, At, Idle
<1> QED BY <1>5, <1>6, <1>7, <1>8, <1>9, <1>10, <1>11, <1>12, <1>13 DEF Next, Import

LEMMA ArchiveNext == Sound /\ ArchiveWhole /\ [Next]_vars => ArchiveWhole'
<1> SUFFICES ASSUME Sound, ArchiveWhole, [Next]_vars, Unkilled'
             PROVE  /\ \A b \in stored' : Root[b] \in flushed' \/ (At("state")' /\ b = op'.block)
                    /\ ~At("side")'
                    /\ head'.block = head'.header /\ head'.fast = head'.header
  BY DEF ArchiveWhole
<1>0. Unkilled /\ ~Crash BY UnkilledBefore
<1>1. /\ \A b \in stored : Root[b] \in flushed \/ (At("state") /\ b = op.block)
      /\ ~At("side") /\ head.block = head.header /\ head.fast = head.header
  BY <1>0 DEF ArchiveWhole
<1>2. \A b \in stored' : Root[b] \in flushed' \/ (At("state")' /\ b = op'.block)
  <2>1. CASE At("state") /\ WriteState
    BY <1>0, <2>1, <1>1 DEF WriteState, CommitState, Unkilled
  <2>2. CASE At("state") /\ op' = op
    BY <1>1, <2>2, StoredNext, FlushedStays DEF SideStore, At
  <2>3. CASE ~At("state")
    BY <1>1, <2>3, FlushedStays, StoredNext DEF SideStore, At
  <2> QED BY <1>0, <2>1, <2>2, <2>3, StateNext
<1>3. ~At("side")' BY <1>0, <1>1, SideNext, EveryState DEF At
<1>4. head'.block = head'.header /\ head'.fast = head'.header
  <2>1. CASE Approach BY <1>1, <2>1 DEF Approach
  <2>2. CASE ReorgWrite \/ WriteHeadBlock BY <2>2 DEF ReorgWrite, WriteHeadBlock, WriteHead
  <2>3. CASE ReorgIndex \/ RewindDelete BY <1>1, <2>3 DEF ReorgIndex, RewindDelete
  <2>4. CASE RewindStep
    <3> DEFINE parent == Parent[head.header]
    <3>1. head.header \in Blocks /\ head.header # Genesis BY <2>4, HeaderTaken, SoundFacts
    <3>2. Num[parent] < Num[head.header] /\ Num[parent] <= Num[head.header] /\ parent \in Blocks
      BY <3>1, ChainStep, ChainEnds
    <3>3. HasState(parent) BY <1>0, <2>4, EveryState, SoundFacts DEF RewindStep, At
    <3>4. RewoundBlock(parent) = parent BY <1>1, <3>2, <3>3, StatefulExists DEF RewoundBlock
    <3>5. head' = [block |-> RewoundBlock(parent), header |-> parent,
                   fast |-> IF Num[parent] < Num[head.fast] THEN parent ELSE head.fast] BY <2>4 DEF RewindStep
    <3> QED BY <1>1, <3>2, <3>4, <3>5
  <2>5. CASE Restart
    BY <1>0, <2>5, EveryState, SoundFacts, <1>1 DEF Restart, At
  <2> QED BY <1>0, <2>1, <2>2, <2>3, <2>4, <2>5, ApproachNext DEF Indexing
<1> QED BY <1>2, <1>3, <1>4

\* No canonical hash is above the head, or above what reorg and a rewind are yet
\* to index or delete; the numbers with one have no gap while reorg writes.
CanonTop ==
  Unkilled =>
    /\ At("switch") => \A n \in Heights : \A m \in 0 .. n : canon[n] # None => canon[m] # None
    /\ At("head") => \A n \in Heights : canon[n] # None => n <= Num[op.block]
    /\ At("rewind") => \A n \in Heights : canon[n] # None => n <= Num[op.start]
    /\ Plain => \A n \in Heights : canon[n] # None => n <= Num[head.header]

\* Numbers below a block's are heights.
LEMMA HeightsBelow == ASSUME NEW b \in Blocks, NEW n \in 0 .. Num[b] PROVE n \in Heights /\ n \in Nat
  BY ChainEnds, TreeAssumption DEF Heights

\* With the canonical hashes of the head's chain right and none above, there is no gap.
LEMMA CanonNoGap ==
  ASSUME Sound, \A b \in Chain[head.header] : canon[Num[b]] = b,
         \A n \in Heights : canon[n] # None => n <= Num[head.header]
  PROVE  \A n \in Heights : \A m \in 0 .. n : canon[n] # None => canon[m] # None
<1> SUFFICES ASSUME NEW n \in Heights, NEW m \in 0 .. n, canon[n] # None PROVE canon[m] # None OBVIOUS
<1>1. head.header \in Blocks /\ Num[head.header] \in Nat /\ n <= Num[head.header] /\ n \in Nat
  BY SoundFacts, ChainEnds DEF Heights
<1>2. m \in 0 .. Num[head.header] BY <1>1
<1>3. PICK x \in Chain[head.header] : Num[x] = m BY <1>1, <1>2, TreeAssumption
<1>4. x \in Blocks /\ canon[m] = x BY <1>1, <1>3, ChainEnds
<1> QED BY <1>4, TreeAssumption

\* Then the deletion at the end of reorg reaches every hash above its floor.
LEMMA IndexClearsTop ==
  ASSUME Sound, ReorgIndex, \A n \in Heights : \A m \in 0 .. n : canon[n] # None => canon[m] # None
  PROVE  \A n \in Heights : canon'[n] # None => n <= Num[op.block]
<1> DEFINE number == IndexFloor(op.old, op.block)
           present == {n \in Heights : canon[n] # None}
           end == Gap(number, present)
<1>1. canon' = [n \in Heights |-> IF number < n /\ n < end THEN None ELSE canon[n]] BY DEF ReorgIndex
<1>2. op.block \in Blocks /\ number \in Heights /\ number <= Num[op.block] BY PathWritten DEF ReorgIndex
<1>3. PICK top \in Nat : \A b \in stored : Num[b] <= top BY ChainEnds DEF Sound, StoreClosed, Heights
<1>4. present \subseteq Heights /\ \A k \in present : k <= top BY <1>3 DEF Sound, StoreClosed
<1>5. end \in Nat /\ end > number /\ end \notin present BY <1>2, <1>4, GapExists
<1> HIDE DEF number, end
<1>6. ASSUME NEW n \in Heights, canon'[n] # None PROVE n <= Num[op.block]
  <2>1. n \in Nat /\ number \in Nat /\ Num[op.block] \in Nat BY <1>2, ChainEnds DEF Heights
  <2>2. canon[n] # None /\ ~ (number < n /\ n < end) BY <1>1, <1>6
  <2>3. CASE n <= number BY <1>2, <2>1, <2>3
  <2>4. CASE end <= n
    <3>1. end \in 0 .. n BY <1>5, <2>1, <2>4
    <3>2. canon[end] # None BY <2>2, <3>1
    <3>3. PICK b \in Blocks : Num[b] = n BY DEF Heights
    <3>4. end \in Heights BY <3>1, <3>3, HeightsBelow
    <3> QED BY <1>5, <3>2, <3>4
  <2> QED BY <1>5, <2>1, <2>2, <2>3, <2>4
<1> QED BY <1>6

LEMMA CanonTopNext == Sound /\ CanonFollows /\ ArchiveWhole /\ CanonTop /\ [Next]_vars => CanonTop'
<1> SUFFICES ASSUME Sound, CanonFollows, ArchiveWhole, CanonTop, [Next]_vars, Unkilled' PROVE CanonTop' BY DEF CanonTop
<1>0. /\ Unkilled /\ ~Crash /\ head.block = head.header /\ op \in Operations
      /\ head.header \in Blocks /\ Num[head.header] \in Nat
  BY UnkilledBefore, SoundFacts, ChainEnds DEF ArchiveWhole
<1>1. CASE Approach
  <2>1. CASE op' = op BY <1>0, <1>1, <2>1 DEF Approach, CanonTop, Plain, At
  <2>2. CASE Plain
    <3>1. \A n \in Heights : canon[n] # None => n <= Num[head.header] BY <1>0, <2>2 DEF CanonTop
    <3>2. \A b \in Chain[head.header] : canon[Num[b]] = b BY <1>0, <2>2 DEF CanonFollows, Settled, Plain, At, Unkilled
    <3>3. \A n \in Heights : \A m \in 0 .. n : canon[n] # None => canon[m] # None BY <3>1, <3>2, CanonNoGap
    <3>4. ASSUME op'.at = "head" PROVE \A n \in Heights : canon[n] # None => n <= Num[op'.block]
      <4>1. op'.block \in Blocks /\ Parent[op'.block] = head.header
        BY <1>0, <1>1, <2>2, <3>4, SoundFacts, IdleType DEF Approach, Extends, Plain, At
      <4>2. Num[head.header] <= Num[op'.block] /\ Num[op'.block] \in Nat BY <4>1, ChainStep, ChainOrder, ChainEnds
      <4>3. \A n \in Heights : n \in Nat BY ChainEnds DEF Heights
      <4> QED BY <1>0, <3>1, <4>2, <4>3
    <3>5. op'.at = "rewind" /\ op' # op => op'.start = head.header BY <1>1 DEF Approach
    <3>6. canon' = canon /\ head' = head BY <1>1 DEF Approach
    <3> QED BY <2>1, <3>1, <3>3, <3>4, <3>5, <3>6 DEF CanonTop, Plain, At
  <2> QED BY <1>1, <2>1, <2>2 DEF Approach
<1>2. CASE ReorgWrite
  <2> DEFINE b == First(PathLeft)
  <2>1. /\ At("switch") /\ op' = op /\ b \in stored /\ b # Genesis /\ Parent[b] \in Chain[head.block]
        /\ canon' = [canon EXCEPT ![Num[b]] = b]
    BY <1>2, PathFacts DEF ReorgWrite, WriteHead
  <2>2. /\ b \in Blocks /\ Num[b] \in Nat /\ Num[b] \in Heights /\ Num[b] = Num[Parent[b]] + 1
        /\ Num[Parent[b]] \in Nat /\ Num[Parent[b]] \in Heights
    BY <2>1, SoundFacts, ChainStep, ChainEnds
  <2> HIDE DEF b
  <2>3. \A n \in Heights : \A m \in 0 .. n : canon[n] # None => canon[m] # None BY <1>0, <2>1 DEF CanonTop
  <2>4. canon[Num[Parent[b]]] # None
    BY <1>0, <2>1, <2>2, ChainEnds, TreeAssumption DEF CanonFollows, Settled, At, Unkilled
  <2>5. ASSUME NEW n \in Heights, NEW m \in 0 .. n, canon'[n] # None PROVE canon'[m] # None
    <3>1. n \in Nat /\ m \in Nat /\ m \in Heights
      <4>1. PICK x \in Blocks : Num[x] = n BY DEF Heights
      <4> QED BY <4>1, ChainEnds, HeightsBelow
    <3>2. canon'[Num[b]] = b /\ b # None BY <2>1, <2>2, SoundFacts, TreeAssumption
    <3>3. \A k \in Heights : k # Num[b] => canon'[k] = canon[k] BY <2>1, <2>2, SoundFacts
    <3>4. CASE m = Num[b] BY <3>2, <3>4
    <3>5. CASE m # Num[b] /\ n # Num[b] BY <2>3, <2>5, <3>1, <3>3, <3>5
    <3>6. CASE m # Num[b] /\ n = Num[b]
      BY <2>2, <3>1, <3>6, <2>3, <2>4, <3>3
    <3> QED BY <3>4, <3>5, <3>6
  <2> QED BY <2>1, <2>5 DEF CanonTop, Plain, At
<1>3. CASE ReorgIndex
  BY <1>0, <1>3, IndexClearsTop DEF ReorgIndex, Goto, Operations, CanonTop, Plain, At
<1>4. CASE WriteHeadBlock
  <2>1. op'.at \notin {"switch", "head", "rewind"} BY <1>0, <1>4, IdleType DEF WriteHeadBlock, Abort, Operations
  <2>2. /\ \A n \in Heights : canon[n] # None => n <= Num[op.block]
        /\ op.block \in stored /\ head'.header = op.block /\ canon' = [canon EXCEPT ![Num[op.block]] = op.block]
    BY <1>0, <1>4 DEF CanonTop, WriteHeadBlock, WriteHead, Sound, LocalsSet
  <2>3. Num[op.block] \in Heights /\ Num[op.block] \in Nat BY <2>2, SoundFacts, ChainEnds
  <2>4. \A n \in Heights : canon'[n] # None => n <= Num[op.block] BY <2>2, <2>3, SoundFacts
  <2> QED BY <2>1, <2>2, <2>4 DEF CanonTop, Plain, At
<1>5. CASE RewindStep BY <1>0, <1>5 DEF RewindStep, CanonTop, Plain, At
<1>6. CASE RewindDelete
  <2>1. /\ op'.at = "idle" /\ head' = head /\ op.start \in Blocks
        /\ canon' = [n \in Heights |-> IF n \in Wiped THEN None ELSE canon[n]]
        /\ \A n \in Heights : canon[n] # None => n <= Num[op.start]
    BY <1>0, <1>6, IdleType DEF RewindDelete, Abort, CanonTop, Sound, LocalsSet
  <2>2. \A n \in Heights : canon'[n] # None => n <= Num[head.header]
    <3>1. CASE op.start = head.header BY <2>1, <3>1
    <3>2. CASE op.start # head.header
      <4> DEFINE present == {Num[b] : b \in stored}
                 end == Gap(Num[op.start], present)
      <4>1. PICK top \in Nat : \A b \in stored : Num[b] <= top BY ChainEnds DEF Sound, StoreClosed, Heights
      <4>2. end \in Nat /\ end > Num[op.start]
        BY <2>1, <4>1, SoundFacts, ChainEnds, GapExists
      <4>3. Wiped = Num[head.header] + 1 .. end - 1 BY <3>2 DEF Wiped
      <4> HIDE DEF end
      <4>4. ASSUME NEW n \in Heights, canon'[n] # None PROVE n <= Num[head.header]
        BY <2>1, <4>4, ChainEnds, <1>0, <4>2, <4>3 DEF Heights
      <4> QED BY <4>4
    <3> QED BY <3>1, <3>2
  <2> QED BY <2>1, <2>2 DEF CanonTop, Plain, At
<1>7. CASE Restart
  BY <1>7, IdleType, <1>0 DEF Restart, Repair, Plain, At, CanonTop
<1> QED BY <1>0, <1>1, <1>2, <1>3, <1>4, <1>5, <1>6, <1>7, ApproachNext DEF Indexing

LEMMA ArchiveInit == Init => ArchiveWhole /\ CanonTop
<1> SUFFICES ASSUME Init PROVE ArchiveWhole /\ CanonTop OBVIOUS
<1>1. op.at = "idle" /\ head.header = Genesis /\ head.block = Genesis /\ head.fast = Genesis /\ Num[Genesis] = 0
  BY IdleType, TreeAssumption DEF Init
<1>2. \A n \in Heights : canon[n] # None => n <= 0 BY DEF Init
<1> QED BY <1>1, <1>2 DEF Init, ArchiveWhole, CanonTop, Plain, At

LEMMA AlwaysArchived == Spec => [](Sound /\ CanonFollows /\ ArchiveWhole /\ CanonTop)
BY SoundInit, SoundNext, FollowsInit, CanonNext, ArchiveInit, ArchiveNext, CanonTopNext, PTL DEF Spec

\* Of an archive node that is not killed no canonical hash names a block outside
\* the head header's chain between operations, and of no node that is not killed
\* one of the chain is missing: GetBlockByNumber represents the canonical chain.
THEOREM CanonIsTheChain == Spec => []CanonIsChain
<1>1. Sound /\ CanonFollows /\ ArchiveWhole /\ CanonTop => CanonIsChain
  <2>1. SUFFICES ASSUME Sound, CanonFollows, CanonTop PROVE CanonIsChain OBVIOUS
  <2>2. CanonUnlessKilled BY <2>1 DEF CanonFollows, Settled, CanonUnlessKilled, CanonBelowHeader
  <2>3. ASSUME archive, crashes = 0, Ready, NEW n \in Heights, canon[n] # None PROVE canon[n] \in Chain[head.header]
    <3>1. n <= Num[head.header] /\ n \in Nat /\ head.header \in Blocks
      BY <2>1, <2>3, SoundFacts, ChainEnds DEF CanonTop, Unkilled, Plain, Ready, Heights
    <3>2. PICK x \in Chain[head.header] : Num[x] = n BY <3>1, TreeAssumption, ChainEnds
    <3>3. canon[n] = x BY <2>2, <2>3, <3>2 DEF CanonUnlessKilled, CanonBelowHeader, Ready, At
    <3> QED BY <3>2, <3>3
  <2> QED BY <2>2, <2>3 DEF CanonIsChain, CanonIsHeadChain
<1> QED BY <1>1, AlwaysArchived, PTL

-----------------------------------------------------------------------------
(* Imports of an archive node do not lose difficulty.                      *)

\* The blocks to import are on one chain.
TodoLinked == \E top \in Blocks : op.todo \subseteq Chain[top]

LEMMA TodoNext == Sound /\ TodoLinked /\ [Next]_vars => TodoLinked'
<1> SUFFICES ASSUME Sound, TodoLinked, [Next]_vars
             PROVE  op'.todo \subseteq op.todo \/ \E top \in Blocks : op'.todo \subseteq Chain[top] BY DEF TodoLinked
<1>0. op \in Operations /\ LocalsSet /\ Idle.todo = {} BY DEF Sound, TypeOK, Idle
<1>1. ASSUME NEW next, NEW b, SwitchTo(b, next) PROVE op'.todo = op.todo BY <1>0, <1>1 DEF SwitchTo, Operations
<1>2. EndBatch \/ Abort => op'.todo = {} BY <1>0 DEF EndBatch, Abort, Operations
<1>3. ASSUME NEW at, Goto(at) PROVE op'.todo = op.todo BY <1>0, <1>3 DEF Goto, Operations
<1>4. ASSUME NEW b, Dispatch(b) PROVE op'.todo \subseteq op.todo BY <1>0, <1>2, <1>3, <1>4 DEF Dispatch, Operations
<1>5. CASE Call
  <2>1. ASSUME NEW b \in Blocks, op'.todo = {b} PROVE \E top \in Blocks : op'.todo \subseteq Chain[top]
    BY <2>1, ChainEnds
  <2>2. InsertPayload => payload \in Blocks BY DEF InsertPayload, Sound, TypeOK
  <2>3. ASSUME NEW top \in Blocks, NEW bottom \in Chain[top], InsertChain(bottom, top)
        PROVE  op'.todo \subseteq Chain[top] BY <2>3 DEF InsertChain, Idle
  <2> QED
    BY <1>0, <1>5, <2>1, <2>2, <2>3 DEF Call, Mined, NewPayload, GossipTerminal, SetCanonical, InsertPayload, SetHead,
     InsertBlockWithoutSetHead, Idle
<1>6. CASE EnterBatch \/ Trim BY <1>0, <1>2, <1>3, <1>4, <1>6 DEF EnterBatch, Trim, ExecuteKnown, Skip, Operations
<1>7. CASE ImportStops \/ ImportKnown \/ ImportFails \/ WriteState \/ Choose
  BY <1>1, <1>2, <1>3, <1>7 DEF ImportStops, ImportKnown, ImportFails, WriteState, Choose
<1>8. CASE ImportExecutes BY <1>0, <1>8 DEF ImportExecutes, Operations
<1>9. CASE ReorgWrite \/ ReorgIndex BY <1>3, <1>9 DEF ReorgWrite, ReorgIndex
<1>10. CASE WriteHeadBlock
  <2>1. op' = [op EXCEPT !.at = op.next, !.todo = @ \ {op.block}, !.block = None, !.old = None]
          => op'.todo = op.todo \ {op.block} BY <1>0 DEF Operations
  <2> QED BY <1>2, <1>10, <2>1 DEF WriteHeadBlock
<1>11. CASE SideCanonical \/ SideGhost \/ SideStore
  <2>1. ASSUME NEW b, op' = [op EXCEPT !.todo = @ \ {b}, !.prev = b] \/ op' = [op EXCEPT !.todo = @ \ {b}, !.prev = b, !.last = b]
        PROVE  op'.todo = op.todo \ {b} BY <1>0, <2>1 DEF Operations
  <2> QED BY <1>2, <1>11, <2>1 DEF SideCanonical, SideGhost, SideStore
<1>12. CASE SideDecide
  <2>1. op' = [op EXCEPT !.at = "enter", !.todo = Stateless(op.prev), !.last = None, !.prev = None]
          => op'.todo \subseteq Chain[op.prev] /\ op.prev \in Blocks
    BY <1>0, <1>12 DEF SideDecide, LocalsSet, Stateless, Operations
  <2> QED BY <1>2, <1>12, <2>1 DEF SideDecide
<1>13. CASE Recover
  <2>1. ASSUME op.rest # {}, op' = [op EXCEPT !.at = "enter", !.todo = {First(op.rest)}, !.rest = @ \ {First(op.rest)}]
        PROVE  op'.todo \subseteq Chain[First(op.rest)] /\ First(op.rest) \in Blocks
    BY <1>0, <2>1, FirstExists, ChainEnds DEF Operations
  <2> QED BY <1>1, <1>2, <1>13, <2>1 DEF Recover, RecoverNext
<1>14. CASE Rewind \/ Process \/ UNCHANGED vars
  BY <1>0, <1>2, <1>14 DEF Rewind, RewindStep, RewindDelete, Process, StopInsert, Stop, Crash, Restart, Lost, vars, Idle
<1> QED BY <1>5, <1>6, <1>7, <1>8, <1>9, <1>10, <1>11, <1>12, <1>13, <1>14 DEF Next, Import

\* A block the fork choice prefers is not lighter than the head.
LEMMA NeededHeavier ==
  ASSUME NEW b \in Blocks, head.block \in Blocks, TRUE \in ReorgNeeded(b) PROVE TD[b] >= TTD \/ TD[b] >= TD[head.block]
<1>1. TD[b] \in Nat /\ TD[head.block] \in Nat /\ TTD \in Nat BY DataAssumption
<1>2. ASSUME TD[b] < TTD, TD[b] < TD[head.block] PROVE ReorgNeeded(b) = {FALSE}
  <2>1. ~ (TD[b] >= TTD \/ TD[b] > TD[head.block]) /\ (TD[b] < TTD /\ TD[b] < TD[head.block]) BY <1>1, <1>2
  <2> QED BY ONLY <2>1 DEF ReorgNeeded
<1>3. TRUE \notin {FALSE} OBVIOUS
<1>4. ~ (TD[b] < TTD /\ TD[b] < TD[head.block]) BY <1>2, <1>3, Zenon
<1> QED BY <1>1, <1>4

\* The weight a head may have after the import that is running.
Heavy(b) == TD[b] >= TD[op.start] \/ TD[b] >= TTD
Switching == At("switch") \/ At("head")

\* What the head is, or is about to be, is heavy enough; so are the blocks of the
\* rest of the batch that are stored, which may become the head unasked.
Weighed ==
  Unkilled /\ op.start # None /\ ~At("rewind") =>
    /\ op.set /\ op.at \notin {"recover", "down"}
    /\ Heavy(IF Switching THEN op.block ELSE head.block)
    /\ Importing \/ At("state") \/ At("choose") \/ Switching
         => \A x \in op.todo \cap stored : Heavy(x)

\* In a batch the first block is an ancestor of the others.
LEMMA TodoOrder ==
  ASSUME Sound, TodoLinked, op.todo # {}, NEW x \in op.todo
  PROVE  First(op.todo) \in Chain[x] /\ TD[First(op.todo)] <= TD[x]
<1>1. PICK top \in Blocks : op.todo \subseteq Chain[top] BY DEF TodoLinked
<1>2. First(op.todo) \in op.todo /\ Num[First(op.todo)] <= Num[x] /\ x \in Blocks BY SoundFacts, NextBlock
<1>3. First(op.todo) \in Chain[x] BY <1>1, <1>2, ChainOrder
<1> QED BY <1>2, <1>3, ChainHeavier

\* If the first block of a batch is not known, none of them is stored.
LEMMA TodoFresh ==
  ASSUME Sound, TodoLinked, ArchiveWhole, Unkilled, ~At("state"), op.todo # {}, ~Known(First(op.todo))
  PROVE  op.todo \cap stored = {}
<1> SUFFICES ASSUME NEW x \in op.todo, x \in stored PROVE FALSE OBVIOUS
<1>1. First(op.todo) \in stored BY TodoOrder DEF Sound, StoreClosed
<1> QED BY <1>1, EveryState

\* The fork choice says yes or no.
LEMMA NeededType == \A b : ReorgNeeded(b) \subseteq BOOLEAN
<1> SUFFICES ASSUME NEW b PROVE ReorgNeeded(b) \subseteq BOOLEAN OBVIOUS
<1>1. ReorgNeeded(b) \in {{TRUE}, {FALSE}, BOOLEAN} BY DEF ReorgNeeded
<1> QED BY <1>1

LEMMA ChooseCases ==
  Choose => (TRUE \in ReorgNeeded(op.block) /\ SwitchTo(op.block, "main")) \/ Goto("main")
<1> SUFFICES ASSUME Choose PROVE (TRUE \in ReorgNeeded(op.block) /\ SwitchTo(op.block, "main")) \/ Goto("main") OBVIOUS
<1>1. PICK needed \in ReorgNeeded(op.block) : IF needed THEN SwitchTo(op.block, "main") ELSE Goto("main") BY DEF Choose
<1>2. needed \in BOOLEAN BY NeededType
<1> QED BY <1>1, <1>2

LEMMA TrimCases ==
  ASSUME Trim
  PROVE  \/ op.todo = {} /\ EndBatch
         \/ op.todo # {} /\ ~Known(First(op.todo)) /\ Dispatch(First(op.todo))
         \/ op.todo # {} /\ Known(First(op.todo)) /\ TRUE \in ReorgNeeded(First(op.todo)) /\ Goto("again")
         \/ op.todo # {} /\ Known(First(op.todo)) /\ Skip(First(op.todo))
<1> DEFINE b == First(op.todo)
<1>1. CASE op.todo = {} \/ ~Known(b) BY <1>1 DEF Trim
<1>2. CASE op.todo # {} /\ Known(b)
  <2>1. PICK needed \in ReorgNeeded(b) :
          IF needed /\ (Num[b] > Num[head.block] \/ canon[Num[b]] # b) THEN Goto("again") ELSE Skip(b)
    BY <1>2 DEF Trim, ExecuteKnown
  <2>2. needed \in BOOLEAN BY NeededType
  <2> QED BY <1>2, <2>1, <2>2
<1> QED BY <1>1, <1>2

\* The weight does not depend on where the import is.
LEMMA SameWeight == op'.start = op.start => \A b : Heavy(b)' <=> Heavy(b) BY DEF Heavy

\* Heavier than a heavy block is heavy.
LEMMA HeavierHeavy ==
  ASSUME NEW b \in Blocks, NEW c \in Blocks, op.start \in Blocks, Heavy(c), TD[b] >= TTD \/ TD[b] >= TD[c]
  PROVE  Heavy(b)
  BY DataAssumption DEF Heavy

\* A step that makes a heavy block the next head.
LEMMA WeighedSwitch ==
  ASSUME op \in Operations, NEW b \in Blocks, SwitchTo(b, "main"), Heavy(b),
         op.set, \A x \in op.todo \cap stored : Heavy(x), stored' = stored PROVE Weighed'
  BY SameWeight DEF SwitchTo, Operations, Weighed, Switching, At

\* A step between places where the head is not about to change.
LEMMA WeighedStay ==
  ASSUME op.start # None => Heavy(head.block) /\ op.set, op'.start = op.start, op'.set = op.set, head'.block = head.block,
         op'.at \in {"trim", "again", "main", "state", "choose"},
         op.start # None /\ op'.at # "trim" => \A x \in op'.todo \cap stored' : Heavy(x)
  PROVE  Weighed' BY SameWeight DEF Weighed, Importing, Switching, At

\* An operation that does not import on the head's account is not weighed.
LEMMA WeighedNone == op'.start = None \/ op'.at = "rewind" => Weighed' BY DEF Weighed, At

LEMMA WeighedBatchEnd ==
  ASSUME op \in Operations, EndBatch, op.start # None => op.set PROVE Weighed'
<1>1. CASE op.set
  BY <1>1, WeighedNone DEF EndBatch, Abort, Idle
<1>2. CASE ~op.set
  BY <1>2, WeighedNone DEF EndBatch, Operations
<1> QED BY <1>1, <1>2

LEMMA WeighedDispatch ==
  ASSUME Sound, TodoLinked, ArchiveWhole, Unkilled, ~At("state"), op.todo # {}, ~Known(First(op.todo)),
         Dispatch(First(op.todo)), op.start # None => Heavy(head.block) /\ op.set, UNCHANGED <<stored, head>>
  PROVE  Weighed'
<1>0. op \in Operations /\ \A b : ~Pruned(b) BY SoundFacts, EveryState
<1>1. CASE Goto("main")
  BY <1>0, <1>1, TodoFresh, WeighedStay DEF Goto, Operations
<1>2. CASE Abort
  BY <1>2, WeighedNone DEF Abort, Idle
<1> QED BY <1>0, <1>1, <1>2 DEF Dispatch

LEMMA WeighedNext ==
  Sound /\ TodoLinked /\ ArchiveWhole /\ Weighed /\ [Next]_vars => Weighed'
<1> SUFFICES ASSUME Sound, TodoLinked, ArchiveWhole, Weighed, [Next]_vars, Unkilled' PROVE Weighed' BY DEF Weighed
<1>0. /\ Unkilled /\ ~Crash /\ ~At("side") /\ op \in Operations /\ head.block \in Blocks
      /\ LocalsSet /\ Idle.start = None /\ op.todo \subseteq Blocks /\ stored \subseteq Blocks
  BY UnkilledBefore, SoundFacts DEF ArchiveWhole, Sound, Idle
<1>1. ASSUME op.start # None, ~At("rewind")
      PROVE  /\ op.start \in Blocks /\ op.set /\ op.at \notin {"recover", "down"}
             /\ Heavy(IF Switching THEN op.block ELSE head.block)
             /\ Importing \/ At("state") \/ At("choose") \/ Switching
                  => \A x \in op.todo \cap stored : Heavy(x) BY <1>0, <1>1 DEF Weighed, Operations
<1>2. ASSUME op' = Idle \/ op'.start = None PROVE Weighed' BY <1>0, <1>2, WeighedNone
<1>3. ASSUME op' = op, UNCHANGED <<stored, head>> PROVE Weighed'
  BY <1>0, <1>1, <1>3, SameWeight DEF Weighed, Importing, Switching, At
<1>4. CASE Call
  <2>1. ASSUME NEW top \in Blocks, NEW bottom \in Chain[top], InsertChain(bottom, top) PROVE Weighed'
    BY <2>1, <1>0, DataAssumption DEF InsertChain, Idle, diskVars, Weighed, Heavy, Importing, Switching, At
  <2>2. ASSUME NEW b \in Blocks, Mined(b) PROVE Weighed'
    BY <2>2, <1>0, DataAssumption DEF Mined, Idle, Weighed, Heavy, Importing, Switching, At
  <2>3. ASSUME NEW b \in Blocks, NewPayload(b) PROVE Weighed' BY <1>3, <2>3 DEF NewPayload, diskVars
  <2>4. ASSUME NEW b \in Blocks, GossipTerminal(b) \/ SetCanonical(b) \/ InsertPayload PROVE op'.start = None
    BY <2>4 DEF GossipTerminal, SetCanonical, InsertPayload, InsertBlockWithoutSetHead, Idle
  <2>5. ASSUME NEW n \in Heights, SetHead(n) PROVE Weighed'
    BY <2>5, WeighedNone DEF SetHead, Idle
  <2> QED BY <1>2, <1>4, <2>1, <2>2, <2>3, <2>4, <2>5, TreeAssumption DEF Call
<1>5. CASE EnterBatch \/ Trim
  <2>1. /\ ~At("rewind") /\ ~At("state") /\ ~Switching /\ UNCHANGED <<stored, head>>
        /\ op.start # None => Heavy(head.block) /\ op.set
    BY <1>1, <1>5 DEF EnterBatch, Trim, Switching, At, diskVars
  <2>2. CASE EndBatch BY <1>0, <2>1, <2>2, WeighedBatchEnd
  <2>3. CASE op.todo # {} /\ ~Known(First(op.todo)) /\ Dispatch(First(op.todo)) BY <1>0, <2>1, <2>3, WeighedDispatch
  <2>4. CASE EnterBatch /\ Goto("trim")
    BY <1>0, <2>4, <2>1, WeighedStay DEF Goto, Operations
  <2>5. CASE Trim /\ Skip(First(op.todo))
    BY <1>0, <2>5, <2>1, WeighedStay DEF Trim, Skip, At, Operations
  <2>6. CASE op.todo # {} /\ TRUE \in ReorgNeeded(First(op.todo)) /\ Goto("again")
    <3>1. op'.at = "again" /\ op'.start = op.start /\ op'.set = op.set /\ op'.todo = op.todo
      BY <1>0, <2>6 DEF Goto, Operations
    <3>2. ASSUME op.start # None, NEW x \in op.todo PROVE Heavy(x)
      <4>1. First(op.todo) \in Blocks /\ TD[First(op.todo)] <= TD[x] /\ x \in Blocks BY <1>0, <2>6, NextBlock, TodoOrder
      <4>2. TD[First(op.todo)] >= TTD \/ TD[First(op.todo)] >= TD[head.block] BY <1>0, <2>6, <4>1, NeededHeavier
      <4>3. TD[x] \in Nat /\ TD[First(op.todo)] \in Nat /\ TD[head.block] \in Nat /\ TTD \in Nat
        BY <1>0, <4>1, DataAssumption
      <4>4. TD[x] >= TTD \/ TD[x] >= TD[head.block] BY <4>1, <4>2, <4>3
      <4> QED BY <1>0, <1>1, <2>1, <3>2, <4>1, <4>4, HeavierHeavy
    <3> QED BY <2>1, <3>1, <3>2, WeighedStay
  <2> QED BY <1>5, <2>2, <2>3, <2>4, <2>5, <2>6, TrimCases DEF EnterBatch
<1>6. CASE ImportStops BY <1>0, <1>1, <1>6, WeighedBatchEnd DEF ImportStops, Importing, At
<1>7. CASE ImportKnown
  <2>1. CASE op.start = None
    BY <1>0, <1>7, <2>1, WeighedNone DEF ImportKnown, SwitchTo, Operations
  <2>2. CASE op.start # None
    BY <1>0, <1>7, NextBlock, <1>1, <2>2, WeighedSwitch DEF ImportKnown, Known, Importing, At
  <2> QED BY <2>1, <2>2
<1>8. CASE ImportExecutes
  <2> DEFINE b == First(op.todo)
  <2>1. op'.at = "state" /\ op'.start = op.start /\ op'.set = op.set /\ op'.todo = op.todo \ {b}
    BY <1>0, <1>8 DEF ImportExecutes, Operations
  <2>2. stored' = stored \cup {b} /\ head' = head /\ Importing BY <1>8 DEF ImportExecutes, WriteBlock
  <2>3. op.start # None => Heavy(head.block) /\ op.set /\ \A x \in op.todo \cap stored : Heavy(x)
    BY <1>1, <2>2 DEF Importing, Switching, At
  <2> HIDE DEF b
  <2>4. op.start # None => \A x \in op'.todo \cap stored' : Heavy(x) BY <2>1, <2>2, <2>3
  <2> QED BY <2>1, <2>2, <2>3, <2>4, WeighedStay
<1>9. CASE ImportFails \/ RewindDelete \/ Restart BY <1>2, <1>9 DEF ImportFails, RewindDelete, Restart, Abort
<1>10. CASE WriteState
  <2>1. /\ At("state") /\ UNCHANGED <<stored, head>>
        /\ op.start # None => Heavy(head.block) /\ op.set /\ \A x \in op.todo \cap stored : Heavy(x)
    BY <1>1, <1>10 DEF WriteState, Switching, At
  <2>2. CASE EndBatch BY <1>0, <2>1, <2>2, WeighedBatchEnd
  <2>3. CASE Goto("choose")
    BY <1>0, <2>3, <2>1, WeighedStay DEF Goto, Operations
  <2> QED BY <1>10, <2>2, <2>3 DEF WriteState
<1>11. CASE Choose
  <2>1. /\ At("choose") /\ UNCHANGED <<stored, head>> /\ op.block \in Blocks
        /\ op.start # None => op.start \in Blocks /\ Heavy(head.block) /\ op.set /\ \A x \in op.todo \cap stored : Heavy(x)
    BY <1>0, <1>1, <1>11 DEF Choose, Switching, At, diskVars, LocalsSet
  <2>2. CASE Goto("main")
    BY <1>0, <2>2, <2>1, WeighedStay DEF Goto, Operations
  <2>3. CASE TRUE \in ReorgNeeded(op.block) /\ SwitchTo(op.block, "main")
    <3>1. CASE op.start = None
      BY <1>0, <2>3, <3>1, WeighedNone DEF SwitchTo, Operations
    <3>2. CASE op.start # None
      <4>1. Heavy(op.block) BY <1>0, <2>1, <2>3, <3>2, NeededHeavier, HeavierHeavy
      <4> QED BY <1>0, <2>1, <2>3, <3>2, <4>1, WeighedSwitch
    <3> QED BY <3>1, <3>2
  <2> QED BY <1>11, <2>2, <2>3, ChooseCases
<1>12. CASE ReorgWrite BY <1>1, <1>12, SameWeight DEF ReorgWrite, Weighed, Importing, Switching, At
<1>13. CASE ReorgIndex
  BY <1>0, <1>13, <1>1, SameWeight DEF ReorgIndex, Goto, Operations, Weighed, Importing, Switching, At
<1>14. CASE WriteHeadBlock
  <2>1. CASE op' = Idle BY <1>2, <2>1
  <2>2. CASE /\ op.next # "idle"
             /\ op' = [op EXCEPT !.at = op.next, !.todo = @ \ {op.block}, !.block = None, !.old = None]
    <3>1. /\ op'.at = "main" /\ op'.start = op.start /\ op'.set = op.set /\ op'.todo \subseteq op.todo
      BY <1>0, <2>2 DEF Operations
    <3>2. head'.block = op.block /\ stored' = stored /\ At("head") BY <1>14 DEF WriteHeadBlock, WriteHead
    <3>3. ASSUME op.start # None PROVE Heavy(op.block) /\ op.set /\ \A x \in op.todo \cap stored : Heavy(x)
      BY <1>1, <3>2, <3>3 DEF Switching, At
    <3> QED BY <3>1, <3>2, <3>3, SameWeight DEF Weighed, Importing, Switching, At
  <2> QED BY <1>14, <2>1, <2>2 DEF WriteHeadBlock, Abort
<1>15. SideCanonical \/ SideGhost \/ SideStore \/ SideDecide => FALSE
  BY <1>0 DEF SideCanonical, SideGhost, SideStore, SideDecide
<1>16. CASE Recover
  <2>1. op.start = None BY <1>1, <1>16 DEF Recover, At
  <2>2. op'.start = None
    <3>1. CASE op' = Idle BY <1>0, <3>1
    <3>2. CASE op' = [op EXCEPT !.at = "enter", !.todo = {First(op.rest)}, !.rest = @ \ {First(op.rest)}]
      BY <1>0, <2>1, <3>2 DEF Operations
    <3>3. CASE SwitchTo(op.target, "idle") BY <1>0, <2>1, <3>3 DEF SwitchTo, Operations
    <3> QED BY <1>16, <3>1, <3>2, <3>3 DEF Recover, RecoverNext, Abort
  <2> QED BY <1>2, <2>2
<1>17. CASE RewindStep
  BY <1>17, WeighedNone DEF RewindStep, At
<1>18. CASE Stop
  BY <1>18, <1>2 DEF Stop, Lost, Idle
<1>19. CASE StopInsert \/ UNCHANGED vars BY <1>3, <1>19 DEF StopInsert, vars, diskVars
<1> QED
  BY <1>0, <1>4, <1>5, <1>6, <1>7, <1>8, <1>9, <1>10, <1>11, <1>12, <1>13, <1>14, <1>15, <1>16, <1>17, <1>18, <1>19 DEF
   Next, Import, Rewind, Process

LEMMA WeighedInit == Init => TodoLinked /\ Weighed
  BY TreeAssumption DEF Init, Idle, TodoLinked, Weighed

\* An import ends where nothing is about to become the head, or by making it the head.
LEMMA WeighedEnd ==
  ASSUME Sound, ArchiveWhole, Weighed, [Next]_vars, archive, crashes = 0, ~Ready, ~At("rewind"),
         op' = Idle, op.start # None PROVE TD[head'.block] >= TD[op.start] \/ TD[head'.block] >= TTD
<1>0. /\ Idle.at = "idle" /\ op \in Operations /\ op.at # "down"
      /\ Heavy(IF Switching THEN op.block ELSE head.block)
  BY SoundFacts, IdleType DEF Weighed, Unkilled
<1>1. op' # op BY <1>0 DEF Ready
<1>2. CASE Approach
  BY <1>1, <1>2, <1>0 DEF Approach, Plain, Switching, At, Heavy
<1>3. CASE WriteHeadBlock
  BY <1>3, <1>0 DEF WriteHeadBlock, WriteHead, Switching, Heavy
<1>4. ReorgWrite \/ RewindStep \/ RewindDelete \/ Restart => FALSE
  BY <1>0, <1>1 DEF ReorgWrite, RewindStep, RewindDelete, Restart, At
<1>5. ReorgIndex => FALSE
  BY <1>0 DEF ReorgIndex, Goto, Operations
<1>6. Crash => FALSE
  BY <1>0 DEF Crash, Lost, Idle
<1> QED BY <1>2, <1>3, <1>4, <1>5, <1>6, ApproachNext DEF Indexing

\* An import of an archive node that runs to its end never leaves a head of lower
\* total difficulty than it found, unless the head is beyond the terminal
\* difficulty, although known blocks in the middle of a batch become the head
\* without being compared.
THEOREM HeadIsNeverLighter == Spec => HeadNeverLighter
<1> DEFINE Inv == Sound /\ TodoLinked /\ CanonFollows /\ ArchiveWhole /\ Weighed
           Step == archive /\ crashes = 0 /\ ~Ready /\ ~At("rewind") /\ op' = Idle /\ op.start # None =>
                     TD[head'.block] >= TD[op.start] \/ TD[head'.block] >= TTD
<1>1. Init => Inv BY SoundInit, FollowsInit, ArchiveInit, WeighedInit
<1>2. Inv /\ [Next]_vars => Inv' BY SoundNext, TodoNext, CanonNext, ArchiveNext, WeighedNext
<1>3. Inv /\ [Next]_vars => [Step]_vars BY WeighedEnd
<1> HIDE DEF Inv, Step
<1>4. Spec => [][Step]_vars BY <1>1, <1>2, <1>3, PTL DEF Spec
<1> QED BY <1>4 DEF HeadNeverLighter, Step

-----------------------------------------------------------------------------
(* Imports that do not set the head, and SetCanonical, which ends on the   *)
(* head it was told.                                                       *)

\* They import one block at a time, which is new where the import loop is entered
\* from the trim; only SetCanonical makes its target the head at the end.
Headless ==
  ~op.set =>
    /\ op.at \in {"recover", "enter", "trim", "again", "main", "state", "switch", "head"}
    /\ \A x, y \in op.todo : x = y
    /\ At("main") => \A x \in op.todo : Valid(x)
    /\ Switching => op.target # None /\ op.next = "idle" /\ op.block = op.target

LEMMA HeadlessSets == op'.set => Headless' BY DEF Headless

\* A step that goes on with at most the same blocks.
LEMMA HeadlessStay ==
  ASSUME Headless, op'.set = op.set, op'.todo \subseteq op.todo,
         op'.at \in {"recover", "enter", "trim", "again", "state"}
  PROVE  Headless' BY DEF Headless, Switching, At

LEMMA HeadlessBatchEnd ==
  ASSUME op \in Operations, Headless, EndBatch PROVE Headless'
<1>1. CASE op' = Idle
  BY <1>1, HeadlessSets DEF Idle
<1>2. CASE op' = [op EXCEPT !.at = "recover", !.todo = {}]
  BY <1>2, HeadlessStay DEF Operations
<1> QED BY <1>1, <1>2 DEF EndBatch, Abort

LEMMA HeadlessDispatch ==
  ASSUME Sound, Headless, op.todo # {}, Dispatch(First(op.todo)), UNCHANGED <<stored, flushed, refs>> PROVE Headless'
<1> DEFINE b == First(op.todo)
<1>0. op \in Operations /\ b \in op.todo BY SoundFacts, NextBlock
<1>1. CASE Abort
  BY <1>1, HeadlessSets DEF Abort, Idle
<1>2. CASE op.set /\ op' = [op EXCEPT !.at = "side", !.last = b]
  BY <1>0, <1>2, HeadlessSets DEF Operations
<1>3. CASE op' = [op EXCEPT !.at = "recover", !.todo = {}, !.rest = Stateless(b)]
  BY <1>0, <1>3, HeadlessStay DEF Operations
<1>4. CASE Valid(b) /\ Goto("main")
  <2>1. op'.at = "main" /\ op'.set = op.set /\ op'.todo = op.todo BY <1>0, <1>4 DEF Goto, Operations
  <2>2. ~op.set => \A x \in op.todo : x = b BY <1>0 DEF Headless
  <2>3. Valid(b)'
    <3>1. ASSUME NEW x, Valid(x) PROVE (~ (x \in stored' /\ (Root[x] \in flushed' \/ \E r \in refs' : Root[r] = Root[x]))
                  /\ (Parent[x] \in stored' /\ (Root[Parent[x]] \in flushed' \/ \E r \in refs' : Root[r] = Root[Parent[x]])))
      BY <3>1 DEF Valid, Known, HasState
    <3> QED BY <1>4, <2>1, <3>1 DEF Valid, Known, HasState
  <2> QED BY <2>1, <2>2, <2>3 DEF Headless, Switching, At
<1> QED BY <1>1, <1>2, <1>3, <1>4 DEF Dispatch

LEMMA HeadlessNext == Sound /\ Headless /\ [Next]_vars => Headless'
<1> SUFFICES ASSUME Sound, Headless, [Next]_vars PROVE Headless' OBVIOUS
<1>0. op \in Operations /\ Idle.set /\ op.set \in BOOLEAN BY SoundFacts DEF Idle, Operations
<1>1. ASSUME op' = Idle \/ op'.set PROVE Headless' BY <1>0, <1>1, HeadlessSets
<1>2. ASSUME op' = op, UNCHANGED <<stored, flushed, refs>> PROVE Headless'
  BY <1>2 DEF Headless, Switching, At, Known, Valid, HasState
<1>3. ASSUME op.set, op'.set = op.set PROVE Headless' BY <1>3, HeadlessSets
<1>4. ASSUME NEW b, NEW next, SwitchTo(b, next), op.set PROVE Headless'
  BY <1>0, <1>4, <1>3 DEF SwitchTo, Operations
<1>5. CASE Call
  <2>1. ASSUME NEW b \in Blocks, SetCanonical(b) PROVE Headless'
    BY <2>1 DEF SetCanonical, Idle, Headless, Switching, At
  <2>2. ASSUME NEW b \in Blocks, NewPayload(b) PROVE Headless' BY <1>2, <2>2 DEF NewPayload, diskVars
  <2>3. ASSUME NEW b \in Blocks, GossipTerminal(b) PROVE Headless'
    BY <2>3 DEF GossipTerminal, InsertBlockWithoutSetHead, Idle, Headless, Switching, At
  <2>4. CASE InsertPayload
    BY <2>4 DEF InsertPayload, InsertBlockWithoutSetHead, Idle, Headless, Switching, At
  <2>5. ASSUME NEW b, NEW c, NEW n, Mined(b) \/ SetHead(n) \/ InsertChain(c, b)
        PROVE  op'.set BY <2>5 DEF Mined, SetHead, InsertChain, Idle
  <2> QED BY <1>1, <1>5, <2>1, <2>2, <2>3, <2>4, <2>5 DEF Call
<1>6. CASE EnterBatch \/ Trim
  <2>0. UNCHANGED <<stored, flushed, refs>> BY <1>6 DEF EnterBatch, Trim, diskVars
  <2>1. CASE EndBatch BY <1>0, <2>1, HeadlessBatchEnd
  <2>2. CASE op.todo # {} /\ Dispatch(First(op.todo)) BY <2>0, <2>2, HeadlessDispatch
  <2>3. CASE Goto("trim") \/ Goto("again")
    BY <1>0, <2>3, HeadlessStay DEF Goto, Operations
  <2>4. CASE Trim /\ Skip(First(op.todo))
    BY <1>0, <2>4, HeadlessStay DEF Trim, Skip, At, Operations
  <2> QED BY <1>6, <2>1, <2>2, <2>3, <2>4, TrimCases DEF EnterBatch
<1>7. CASE ImportStops BY <1>0, <1>7, HeadlessBatchEnd DEF ImportStops
<1>8. CASE ImportKnown
  BY <1>0, <1>8, NextBlock, <1>4 DEF ImportKnown, Headless, Valid
<1>9. CASE ImportExecutes
  BY <1>0, <1>9, HeadlessStay DEF ImportExecutes, Operations
<1>10. CASE ImportFails \/ RewindDelete \/ Restart BY <1>1, <1>10 DEF ImportFails, RewindDelete, Restart, Abort
<1>11. CASE WriteState
  <2>1. CASE EndBatch BY <1>0, <2>1, HeadlessBatchEnd
  <2>2. CASE op.set /\ Goto("choose")
    BY <1>0, <2>2, <1>3 DEF Goto, Operations
  <2> QED BY <1>11, <2>1, <2>2 DEF WriteState
<1>12. CASE Choose
  <2>1. op.set BY <1>0, <1>12 DEF Choose, Headless, At
  <2>2. CASE Goto("main")
    BY <1>0, <2>2, <1>3, <2>1 DEF Goto, Operations
  <2> QED BY <1>4, <1>12, <2>1, <2>2, ChooseCases
<1>13. CASE ReorgWrite BY <1>13 DEF ReorgWrite, Headless, Switching, At
<1>14. CASE ReorgIndex
  BY <1>0, <1>14 DEF ReorgIndex, Goto, Operations, Headless, Switching, At
<1>15. CASE WriteHeadBlock
  <2>1. CASE op' = Idle BY <1>1, <2>1
  <2>2. CASE /\ op.next # "idle"
             /\ op' = [op EXCEPT !.at = op.next, !.todo = @ \ {op.block}, !.block = None, !.old = None]
    BY <1>0, <2>2, <1>15, <1>3 DEF Operations, WriteHeadBlock, Headless, Switching
  <2> QED BY <1>15, <2>1, <2>2 DEF WriteHeadBlock, Abort
<1>16. CASE SideCanonical \/ SideGhost \/ SideStore \/ SideDecide
  <2>1. op.set BY <1>0, <1>16 DEF SideCanonical, SideGhost, SideStore, SideDecide, Headless, At
  <2>2. CASE op' = Idle BY <1>1, <2>2
  <2>3. ASSUME NEW b, op' = [op EXCEPT !.todo = @ \ {b}, !.prev = b] \/ op' = [op EXCEPT !.todo = @ \ {b}, !.prev = b, !.last = b]
        PROVE  op'.set = op.set BY <1>0, <2>3 DEF Operations
  <2>4. ASSUME op' = [op EXCEPT !.at = "enter", !.todo = Stateless(op.prev), !.last = None, !.prev = None]
        PROVE  op'.set = op.set BY <1>0, <2>4 DEF Operations
  <2> QED BY <1>3, <1>16, <2>1, <2>2, <2>3, <2>4 DEF SideCanonical, SideGhost, SideStore, SideDecide, Abort
<1>17. CASE Recover
  <2>1. CASE op' = Idle BY <1>1, <2>1
  <2>2. CASE op' = [op EXCEPT !.at = "enter", !.todo = {First(op.rest)}, !.rest = @ \ {First(op.rest)}]
    BY <1>0, <2>2 DEF Operations, Headless, Switching, At
  <2>3. CASE op.target # None /\ SwitchTo(op.target, "idle")
    BY <1>0, <2>3 DEF SwitchTo, Operations, Headless, Switching, At
  <2> QED BY <1>17, <2>1, <2>2, <2>3 DEF Recover, RecoverNext, Abort
<1>18. CASE RewindStep
  BY <1>0, <1>18, <1>3 DEF RewindStep, Headless, At
<1>19. CASE Stop \/ Crash
  BY <1>19, <1>1 DEF Stop, Crash, Lost, Idle
<1>20. CASE StopInsert \/ UNCHANGED vars BY <1>2, <1>20 DEF StopInsert, vars, diskVars
<1> QED
  BY <1>5, <1>6, <1>7, <1>8, <1>9, <1>10, <1>11, <1>12, <1>13, <1>14, <1>15, <1>16, <1>17, <1>18, <1>19, <1>20 DEF Next,
   Import, Rewind, Process

LEMMA HeadlessInit == Init => Headless BY HeadlessSets DEF Init, Idle, Headless

\* InsertBlockWithoutSetHead moves neither the head nor the canonical hashes,
\* whatever happened to the block before the insertion got chainmu.
THEOREM PayloadKeepsItsHead == Spec => PayloadKeepsHead
<1> DEFINE Inv == Sound /\ Headless
           Step == Inserting => head' = head /\ canon' = canon
<1>1. Init => Inv BY SoundInit, HeadlessInit
<1>2. Inv /\ [Next]_vars => Inv' BY SoundNext, HeadlessNext
<1>3. Inv /\ [Next]_vars => [Step]_vars
  <2>1. SUFFICES ASSUME Sound, Headless, [Next]_vars, Inserting PROVE head' = head /\ canon' = canon OBVIOUS
  <2>2. ~At("rewind") /\ ~At("down") /\ ~Switching BY <2>1 DEF Inserting, Headless, At
  <2>3. Approach => head' = head /\ canon' = canon BY DEF Approach
  <2>4. Indexing => head' = head /\ canon' = canon
    BY <2>2 DEF Indexing, ReorgWrite, ReorgIndex, WriteHeadBlock, RewindStep, RewindDelete, Restart, Crash, diskVars,
     Switching
  <2> QED BY <2>1, <2>3, <2>4, ApproachNext
<1> HIDE DEF Inv, Step
<1>4. Spec => [][Step]_vars BY <1>1, <1>2, <1>3, PTL DEF Spec
<1> QED BY <1>4 DEF PayloadKeepsHead, Step

\* The blocks to recover have no gap, and the lowest of them stands on a state.
Gapless(blocks) == \A x, y \in blocks : Num[y] < Num[x] => Parent[x] \in blocks
Grounded(blocks) == \A x \in blocks : Parent[x] \in blocks \/ HasState(Parent[x])

\* What SetCanonical has to recover and to import are ancestors of its target, one
\* after the other, and the next one can be executed.
Told ==
  op.target # None =>
    /\ ~op.set /\ op.rest \subseteq Chain[op.target] /\ op.todo \subseteq Chain[op.target]
    /\ Genesis \notin op.rest /\ Gapless(op.rest)
    /\ At("recover") => stopped \/ Grounded(op.rest)
    /\ op.at \in {"enter", "trim", "again", "main"} =>
         /\ \A x \in op.todo : HasState(Parent[x])
         /\ IF op.todo = {} THEN Grounded(op.rest) ELSE \A x \in op.rest : Parent[x] \in op.rest \cup op.todo
    /\ At("state") => \A x \in op.rest : Parent[x] \in op.rest \cup {op.block}

\* An operation without a target was told nothing.
LEMMA ToldNone == op'.target = None => Told' BY DEF Told

\* States are only lost by a garbage collection.
LEMMA StateStays ==
  ASSUME flushed \subseteq flushed', refs \subseteq refs'
  PROVE  \A b : HasState(b) => HasState(b)' BY DEF HasState

LEMMA GroundedStays ==
  ASSUME flushed \subseteq flushed', refs \subseteq refs', NEW blocks, Grounded(blocks), NEW same, same = blocks
  PROVE  \A x \in same : Parent[x] \in same \/ HasState(Parent[x])' BY StateStays DEF Grounded

\* A block to recover has its parent stored, with its state: it can be executed.
LEMMA ToldDispatches ==
  ASSUME Sound, Told, op.target # None, At("trim"), op.todo # {}, ~Known(First(op.todo)), Dispatch(First(op.todo))
  PROVE  Goto("main")
<1> DEFINE b == First(op.todo)
<1>1. b \in op.todo /\ b \in Blocks BY SoundFacts, NextBlock
<1>2. b \in stored /\ Parent[b] \in stored BY <1>1, SoundFacts DEF Told, Sound, LocalsSet, StoreClosed
<1>3. HasState(Parent[b]) BY <1>1 DEF Told, At
<1>4. Valid(b) /\ ~Pruned(b) BY <1>2, <1>3 DEF Valid, Known, Pruned
<1>5. Dispatch(b) OBVIOUS
<1> HIDE DEF b
<1> QED BY <1>4, <1>5 DEF Dispatch

\* A state that is committed is there afterwards.
LEMMA StateIsThere ==
  ASSUME Sound, NEW b \in Blocks, CommitState(b) PROVE HasState(b)'
<1>1. CASE archive BY <1>1 DEF CommitState, HasState
<1>2. CASE ~archive
  BY ChainEnds, DataAssumption, <1>2 DEF CommitState, Window, HasState
<1> QED BY <1>1, <1>2

\* What is recovered of a block's chain.
LEMMA MissingFacts ==
  ASSUME Sound, NEW b \in Blocks
  PROVE  /\ Stateless(b) \subseteq Chain[b] /\ Genesis \notin Stateless(b)
         /\ Gapless(Stateless(b)) /\ Grounded(Stateless(b))
<1>1. Genesis \in Chain[b] /\ HasState(Genesis) /\ Chain[b] \subseteq Blocks
  BY ChainEnds DEF Sound, StoreClosed, HasState
<1>2. Num[Genesis] = 0 BY TreeAssumption
<1>3. Genesis \notin Stateless(b) BY <1>1, <1>2 DEF Stateless
<1>4. ASSUME NEW x \in Stateless(b)
      PROVE  /\ x \in Chain[b] /\ x \in Blocks /\ x # Genesis /\ Num[x] \in Nat /\ Parent[x] \in Chain[b]
             /\ Num[x] = Num[Parent[x]] + 1 /\ Num[Parent[x]] \in Nat
             /\ \A y \in Chain[b] : Num[y] \in Nat /\ (Num[y] >= Num[x] => ~HasState(y))
  BY <1>1, <1>3, ChainStep, ChainOrder, ChainEnds DEF Stateless
<1>5. ASSUME NEW x \in Stateless(b), NEW y \in Stateless(b), Num[y] < Num[x] PROVE Parent[x] \in Stateless(b)
  <2>1. Num[Parent[x]] >= Num[y] /\ Num[y] \in Nat /\ Num[Parent[x]] \in Nat BY <1>4, <1>5
  <2>2. ASSUME NEW z \in Chain[b], Num[z] >= Num[Parent[x]] PROVE ~HasState(z)
    BY <1>4, <2>1, <2>2
  <2> QED BY <1>4, <2>2 DEF Stateless
<1>6. ASSUME NEW x \in Stateless(b), Parent[x] \notin Stateless(b) PROVE HasState(Parent[x])
  <2>1. PICK z \in Chain[b] : Num[z] >= Num[Parent[x]] /\ HasState(z) BY <1>4, <1>6 DEF Stateless
  <2>2. ~ (Num[z] >= Num[x]) /\ Num[z] \in Nat BY <1>4, <2>1
  <2>3. Num[z] = Num[Parent[x]] BY <1>4, <2>1, <2>2
  <2>4. z = Parent[x] BY <1>4, <2>3, TreeAssumption
  <2> QED BY <2>1, <2>4
<1> QED BY <1>3, <1>5, <1>6 DEF Stateless, Gapless, Grounded

\* The lowest block to recover stands on a state, the others above it.
LEMMA ToldRecovers ==
  ASSUME Sound, Told, op.target # None, At("recover"), ~stopped, op.rest # {}
  PROVE  /\ First(op.rest) \in op.rest /\ HasState(Parent[First(op.rest)])
         /\ \A x \in op.rest \ {First(op.rest)} : Parent[x] \in op.rest
         /\ Gapless(op.rest \ {First(op.rest)})
<1> DEFINE b == First(op.rest)
<1>0. op.rest \subseteq Blocks /\ op.rest \subseteq Chain[op.target] /\ op.target \in Blocks
  BY SoundFacts DEF Operations, Told, Sound, LocalsSet
<1>1. b \in op.rest /\ \A x \in op.rest : Num[b] <= Num[x] BY <1>0, FirstExists
<1> HIDE DEF b
<1>2. \A x \in op.rest : x \in Blocks \ {Genesis} /\ Num[x] \in Nat /\ Num[x] = Num[Parent[x]] + 1 /\ Num[Parent[x]] \in Nat
  BY <1>0, ChainStep, ChainEnds DEF Told
<1>3. \A x \in op.rest : x # b => Num[b] < Num[x]
  BY <1>0, <1>1, TreeAssumption, <1>2
<1>4. Parent[b] \notin op.rest
  BY <1>1, <1>2
<1>5. HasState(Parent[b]) BY <1>1, <1>4 DEF Told, Grounded, At
<1>6. \A x \in op.rest \ {b} : Parent[x] \in op.rest BY <1>1, <1>3 DEF Told, Gapless
<1>7. ASSUME NEW x \in op.rest \ {b}, NEW y \in op.rest \ {b}, Num[y] < Num[x] PROVE Parent[x] \in op.rest \ {b}
  BY <1>2, <1>3, <1>1, <1>7, <1>6
<1> QED BY <1>1, <1>5, <1>6, <1>7 DEF b, Gapless

LEMMA ToldNext == Sound /\ Headless /\ Told /\ [Next]_vars => Told'
<1> SUFFICES ASSUME Sound, Headless, Told, [Next]_vars PROVE Told' OBVIOUS
<1>0. op \in Operations /\ Idle.target = None BY SoundFacts DEF Idle
<1>1. ASSUME op' = Idle \/ op'.target = None PROVE Told' BY <1>0, <1>1, ToldNone
<1>2. ASSUME op' = op, UNCHANGED <<stored, flushed, refs>>, stopped => stopped' PROVE Told'
  BY <1>2 DEF Told, At, HasState, Grounded, Gapless
<1>3. ASSUME op.target = None, op'.target = op.target PROVE Told' BY <1>3, ToldNone
<1>4. CASE Call
  <2>1. ASSUME NEW b \in Blocks, SetCanonical(b) PROVE Told'
    BY <2>1, MissingFacts, GroundedStays DEF SetCanonical, Missing, Idle, diskVars, Told, Grounded, Gapless, At
  <2>2. ASSUME NEW b \in Blocks, NewPayload(b) PROVE Told' BY <1>2, <2>2 DEF NewPayload, diskVars
  <2>3. ASSUME NEW b, NEW c, NEW n, Mined(b) \/ GossipTerminal(b) \/ InsertPayload \/ SetHead(n) \/ InsertChain(c, b)
        PROVE  op'.target = None
    BY <2>3 DEF Mined, GossipTerminal, InsertPayload, SetHead, InsertChain, InsertBlockWithoutSetHead, Idle
  <2> QED BY <1>1, <1>4, <2>1, <2>2, <2>3 DEF Call
<1>5. ASSUME At("enter") \/ At("trim") \/ Importing, stopped \/ op.todo = {}, EndBatch,
             UNCHANGED <<flushed, refs, stopped>> PROVE Told'
  <2>1. CASE op.target = None
    <3>1. op'.target = None
      <4>1. CASE op' = Idle BY <1>0, <4>1
      <4>2. CASE op' = [op EXCEPT !.at = "recover", !.todo = {}] BY <1>0, <2>1, <4>2 DEF Operations
      <4> QED BY <1>5, <4>1, <4>2 DEF EndBatch, Abort
    <3> QED BY <3>1, ToldNone
  <2>2. CASE op.target # None
    <3>1. stopped \/ Grounded(op.rest) BY <1>5, <2>2 DEF Told, Importing, At
    <3>2. stopped \/ \A x \in op.rest : Parent[x] \in op.rest \/ HasState(Parent[x])' BY <1>5, <3>1, GroundedStays
    <3>3. op' = Idle \/ op' = [op EXCEPT !.at = "recover", !.todo = {}] BY <1>5 DEF EndBatch, Abort
    <3>4. CASE op' = [op EXCEPT !.at = "recover", !.todo = {}]
      BY <1>0, <3>4, <1>5, <3>2 DEF Operations, Told, At, Gapless, Grounded
    <3> QED BY <1>1, <3>3, <3>4
  <2> QED BY <2>1, <2>2
<1>6. CASE EnterBatch
  <2>1. CASE stopped BY <1>5, <1>6, <2>1 DEF EnterBatch, diskVars
  <2>2. CASE Goto("trim")
    <3>1. /\ op'.at = "trim" /\ op'.target = op.target /\ op'.set = op.set /\ op'.todo = op.todo
          /\ op'.rest = op.rest /\ At("enter") /\ UNCHANGED <<flushed, refs>>
      BY <1>0, <1>6, <2>2 DEF EnterBatch, Goto, Operations, diskVars
    <3> QED BY <3>1 DEF Told, At, HasState, Grounded, Gapless
  <2> QED BY <1>6, <2>1, <2>2 DEF EnterBatch
<1>7. CASE Trim
  <2>0. At("trim") /\ UNCHANGED <<flushed, refs, stopped>> BY <1>7 DEF Trim, diskVars
  <2>1. CASE op.todo = {} /\ EndBatch BY <1>5, <2>0, <2>1
  <2>2. CASE op.target # None /\ op.todo # {} /\ ~Known(First(op.todo)) /\ Dispatch(First(op.todo))
    BY <2>0, <2>2, ToldDispatches, <1>0 DEF Goto, Operations, Told, At, HasState, Grounded, Gapless
  <2>3. CASE Goto("again")
    BY <1>0, <2>3, <2>0 DEF Goto, Operations, Told, At, HasState, Grounded, Gapless
  <2>4. CASE op.target # None /\ op.todo # {} /\ Known(First(op.todo)) /\ Skip(First(op.todo))
    <3> DEFINE b == First(op.todo)
    <3>1. b \in op.todo /\ HasState(b) /\ \A x \in op.todo : x = b BY <1>0, <2>4, NextBlock DEF Told, Headless, Known
    <3>2. op'.at = "trim" /\ op'.target = op.target /\ op'.set = op.set /\ op'.rest = op.rest
      BY <1>0, <2>0, <2>4 DEF Skip, At, Operations
    <3>3. op'.todo = op.todo \ {b} BY <1>0, <2>4 DEF Skip, Operations
    <3> HIDE DEF b
    <3>4. op'.todo = {} /\ op.todo = {b} BY <3>1, <3>3
    <3>5. \A x \in op.rest : Parent[x] \in op.rest \/ HasState(Parent[x]) BY <2>0, <2>4, <3>1, <3>4 DEF Told, At
    <3>6. Grounded(op.rest) BY <3>5 DEF Grounded
    <3>7. \A x \in op'.rest : Parent[x] \in op'.rest \/ HasState(Parent[x])' BY <2>0, <3>2, <3>6, GroundedStays
    <3> QED BY <2>4, <3>2, <3>4, <3>7 DEF Told, At, Gapless, Grounded
  <2>5. CASE op.target = None /\ ~(op.todo = {} /\ EndBatch)
    <3>1. op'.target = None
      <4>1. ASSUME NEW where, Goto(where) PROVE op'.target = None BY <1>0, <2>5, <4>1 DEF Goto, Operations
      <4>2. CASE op.todo # {} /\ Skip(First(op.todo)) BY <1>0, <2>5, <4>2 DEF Skip, Operations
      <4>3. CASE Dispatch(First(op.todo))
        <5>1. CASE Abort BY <1>0, <5>1 DEF Abort
        <5>2. CASE op' = [op EXCEPT !.at = "side", !.last = First(op.todo)] BY <1>0, <2>5, <5>2 DEF Operations
        <5>3. CASE op' = [op EXCEPT !.at = "recover", !.todo = {}, !.rest = Stateless(First(op.todo))]
          BY <1>0, <2>5, <5>3 DEF Operations
        <5> QED BY <4>1, <4>3, <5>1, <5>2, <5>3 DEF Dispatch
      <4> QED BY <1>7, <2>5, <4>1, <4>2, <4>3, TrimCases
    <3> QED BY <3>1, ToldNone
  <2> QED BY <1>7, <2>1, <2>2, <2>3, <2>4, <2>5, TrimCases
<1>8. CASE ImportStops BY <1>5, <1>8 DEF ImportStops, diskVars
<1>9. CASE ImportKnown
  BY <1>0, <1>9, NextBlock, <1>3 DEF ImportKnown, Headless, Told, Valid, SwitchTo, Operations
<1>10. CASE ImportExecutes
  <2> DEFINE b == First(op.todo)
  <2>1. /\ op'.at = "state" /\ op'.target = op.target /\ op'.set = op.set /\ op'.block = b /\ op'.rest = op.rest
    BY <1>0, <1>10 DEF ImportExecutes, Operations
  <2>2. op'.todo = op.todo \ {b} /\ b \in op.todo BY <1>0, <1>10, NextBlock DEF ImportExecutes, Operations
  <2>3. Importing /\ op.todo # {} BY <1>10 DEF ImportExecutes
  <2> HIDE DEF b
  <2>4. op.target # None => op.todo = {b} BY <2>2 DEF Told, Headless
  <2> QED BY <2>1, <2>2, <2>3, <2>4 DEF Told, Importing, At, Gapless
<1>11. CASE ImportFails \/ RewindDelete \/ Restart BY <1>1, <1>11 DEF ImportFails, RewindDelete, Restart, Abort
<1>12. CASE WriteState
  <2>1. op.set => op.target = None BY DEF Told
  <2>2. CASE op.target = None
    <3>1. op'.target = None
      <4>1. CASE op' = Idle BY <1>0, <4>1
      <4>2. CASE op' = [op EXCEPT !.at = "recover", !.todo = {}] BY <1>0, <2>2, <4>2 DEF Operations
      <4>3. CASE Goto("choose") BY <1>0, <2>2, <4>3 DEF Goto, Operations
      <4> QED BY <1>12, <4>1, <4>2, <4>3 DEF WriteState, EndBatch, Abort
    <3> QED BY <3>1, ToldNone
  <2>3. CASE op.target # None
    <3>1. op' = [op EXCEPT !.at = "recover", !.todo = {}] /\ At("state") /\ op.block \in Blocks
      BY <1>12, <2>1, <2>3, SoundFacts DEF WriteState, EndBatch, Sound, LocalsSet
    <3>2. op'.target = op.target /\ op'.set = op.set /\ op'.todo = {} /\ op'.rest = op.rest /\ op'.at = "recover"
      BY <1>0, <3>1 DEF Operations
    <3>3. HasState(op.block)' BY <1>12, <3>1, StateIsThere DEF WriteState
    <3>4. Root[op.block] \in flushed' \/ \E r \in refs' : Root[r] = Root[op.block]
      BY <1>12, <3>1, <3>3, StateIsThere DEF WriteState, HasState
    <3>5. ASSUME NEW x \in op.rest, Parent[x] \notin op.rest PROVE Parent[x] = op.block BY <2>3, <3>1, <3>5 DEF Told
    <3>6. \A x \in op'.rest : Parent[x] \in op'.rest \/ HasState(Parent[x])' BY <3>2, <3>4, <3>5 DEF HasState
    <3> QED BY <2>3, <3>2, <3>6 DEF Told, At, Gapless, Grounded
  <2> QED BY <2>2, <2>3
<1>13. CASE Choose
  <2>1. op.target = None BY <1>13 DEF Choose, Told, Headless, At
  <2>2. op'.target = op.target BY <1>0, <1>13 DEF Choose, SwitchTo, Goto, Operations
  <2> QED BY <1>3, <2>1, <2>2
<1>14. CASE ReorgWrite BY <1>14 DEF ReorgWrite, Told, At
<1>15. CASE ReorgIndex
  BY <1>0, <1>15 DEF ReorgIndex, Goto, Operations, Told, At, Gapless
<1>16. CASE WriteHeadBlock
  <2>1. CASE op' = Idle BY <1>1, <2>1
  <2>2. CASE /\ op.next # "idle"
             /\ op' = [op EXCEPT !.at = op.next, !.todo = @ \ {op.block}, !.block = None, !.old = None]
    BY <1>0, <2>2, <1>16, <1>3 DEF Operations, WriteHeadBlock, Told, Headless, Switching
  <2> QED BY <1>16, <2>1, <2>2 DEF WriteHeadBlock, Abort
<1>17. CASE SideCanonical \/ SideGhost \/ SideStore \/ SideDecide
  <2>1. op.target = None BY <1>17 DEF SideCanonical, SideGhost, SideStore, SideDecide, Told, Headless, At
  <2>2. CASE op' = Idle BY <1>1, <2>2
  <2>3. ASSUME NEW b, op' = [op EXCEPT !.todo = @ \ {b}, !.prev = b] \/ op' = [op EXCEPT !.todo = @ \ {b}, !.prev = b, !.last = b]
        PROVE  op'.target = op.target BY <1>0, <2>3 DEF Operations
  <2>4. ASSUME op' = [op EXCEPT !.at = "enter", !.todo = Stateless(op.prev), !.last = None, !.prev = None]
        PROVE  op'.target = op.target BY <1>0, <2>4 DEF Operations
  <2> QED BY <1>3, <1>17, <2>1, <2>2, <2>3, <2>4 DEF SideCanonical, SideGhost, SideStore, SideDecide, Abort
<1>18. CASE Recover
  <2>1. CASE op' = Idle BY <1>1, <2>1
  <2>2. CASE op.rest # {} /\ ~stopped /\ op' = [op EXCEPT !.at = "enter", !.todo = {First(op.rest)}, !.rest = @ \ {First(op.rest)}]
    <3> DEFINE b == First(op.rest)
    <3>0. At("recover") /\ UNCHANGED <<flushed, refs>> BY <1>18 DEF Recover, diskVars
    <3>1. op'.at = "enter" /\ op'.target = op.target /\ op'.set = op.set /\ op'.todo = {b} BY <1>0, <2>2 DEF Operations
    <3>2. op'.rest = op.rest \ {b} BY <1>0, <2>2 DEF Operations
    <3>3. CASE op.target # None
      <4>1. b \in op.rest /\ HasState(Parent[b]) /\ Gapless(op.rest \ {b}) /\ \A x \in op.rest \ {b} : Parent[x] \in op.rest
        BY <2>2, <3>0, <3>3, ToldRecovers
      <4> HIDE DEF b
      <4>2. \A x \in op'.todo : HasState(Parent[x])' BY <3>0, <3>1, <4>1 DEF HasState
      <4>3. \A x \in op'.rest : Parent[x] \in op'.rest \cup op'.todo BY <3>1, <3>2, <4>1
      <4>4. op'.todo # {} /\ op'.rest \subseteq Chain[op.target] /\ op'.todo \subseteq Chain[op.target] /\ Genesis \notin op'.rest
            /\ ~op.set
        BY <3>1, <3>2, <3>3, <4>1 DEF Told
      <4> QED BY <3>1, <3>2, <4>1, <4>2, <4>3, <4>4 DEF Told, At, Gapless
    <3> QED BY <1>3, <3>1, <3>3
  <2>3. CASE op.target # None /\ SwitchTo(op.target, "idle")
    BY <1>0, <2>3 DEF SwitchTo, Operations, Told, At, Gapless
  <2> QED BY <1>18, <2>1, <2>2, <2>3 DEF Recover, RecoverNext, Abort
<1>19. CASE RewindStep
  BY <1>19, ToldNone DEF RewindStep, Told, Headless, At
<1>20. CASE Stop \/ Crash
  BY <1>20, ToldNone DEF Stop, Crash, Lost, Idle
<1>21. CASE StopInsert \/ UNCHANGED vars BY <1>2, <1>21 DEF StopInsert, vars, diskVars
<1> QED
  BY <1>4, <1>6, <1>7, <1>8, <1>9, <1>10, <1>11, <1>12, <1>13, <1>14, <1>15, <1>16, <1>17, <1>18, <1>19, <1>20, <1>21
   DEF Next, Import, Rewind, Process

LEMMA ToldInit == Init => Told BY ToldNone DEF Init, Idle, Told

\* The block such an operation is to import next can be executed: if its import
\* fails, it is one of those that cannot be part of the chain.
LEMMA ToldFails ==
  ASSUME Sound, Headless, Told, op.target # None, ImportFails PROVE Chain[op.target] \cap Bad # {}
<1>1. First(op.todo) \in op.todo /\ Importing BY SoundFacts, NextBlock DEF ImportFails
<1>2. Executable(First(op.todo))
  <2>1. CASE At("again") BY <1>1, <2>1 DEF Executable, Told, At
  <2>2. CASE At("main")
    BY <1>1, <2>2 DEF Told, Headless, At, Executable
  <2> QED BY <1>1, <2>1, <2>2 DEF Importing
<1>3. First(op.todo) \in Chain[op.target] /\ First(op.todo) \in Bad BY <1>1, <1>2 DEF ImportFails, Told
<1> QED BY <1>3

\* It ends with its target as the head, or in front of a block that fails.
LEMMA ToldEnd ==
  ASSUME Sound, Headless, Told, [Next]_vars, ~Ready, ~At("down"), op.target # None, op' = Idle, ~stopped
  PROVE  head'.block = op.target \/ Chain[op.target] \cap Bad # {}
<1>0. /\ op \in Operations /\ Idle.at = "idle" /\ Idle.target = None /\ op.at # "idle" /\ op.at # "down" /\ ~op.set
      /\ op.at \in {"recover", "enter", "trim", "again", "main", "state", "switch", "head"}
  BY SoundFacts DEF Idle, Told, Headless, Ready, At
<1>1. EndBatch => FALSE
  BY <1>0 DEF EndBatch, Operations
<1>2. ASSUME NEW where \in {"trim", "again", "main", "head"}, Goto(where) PROVE FALSE
  BY <1>0, <1>2 DEF Goto, Operations
<1>3. ASSUME NEW b, NEW next, SwitchTo(b, next) PROVE FALSE
  BY <1>0, <1>3 DEF SwitchTo, Operations
<1>4. ASSUME At("trim"), op.todo # {}, ~Known(First(op.todo)), Dispatch(First(op.todo)) PROVE FALSE
  BY <1>2, <1>4, ToldDispatches
<1>5. ASSUME op' = op PROVE FALSE BY <1>0, <1>5
<1>6. CASE Call
  BY <1>0, <1>5, <1>6 DEF Call, InsertChain, Mined, NewPayload, InsertPayload, GossipTerminal, SetCanonical, SetHead,
   Ready
<1>7. CASE EnterBatch BY <1>1, <1>2, <1>7 DEF EnterBatch
<1>8. CASE Trim
  <2>0. At("trim") BY <1>8 DEF Trim
  <2>1. CASE Skip(First(op.todo))
    BY <1>0, <2>1 DEF Skip, Operations
  <2> QED BY <1>1, <1>2, <1>4, <1>8, <2>0, <2>1, TrimCases
<1>10. CASE ImportStops \/ ImportKnown BY <1>1, <1>3, <1>10 DEF ImportStops, ImportKnown
<1>11. CASE ImportExecutes
  BY <1>0, <1>11 DEF ImportExecutes, Operations
<1>12. CASE ImportFails BY <1>12, ToldFails
<1>13. CASE WriteState BY <1>0, <1>1, <1>13 DEF WriteState
<1>14. CASE WriteHeadBlock BY <1>0, <1>14 DEF WriteHeadBlock, WriteHead, Headless, Switching, At
<1>15. CASE Recover
  <2>1. CASE op.rest # {} /\ op' = [op EXCEPT !.at = "enter", !.todo = {First(op.rest)}, !.rest = @ \ {First(op.rest)}]
    BY <1>0, <2>1 DEF Operations
  <2> QED BY <1>3, <1>15, <2>1 DEF Recover, RecoverNext
<1>16. CASE ReorgWrite \/ StopInsert \/ UNCHANGED vars BY <1>5, <1>16 DEF ReorgWrite, StopInsert, vars
<1>17. CASE ReorgIndex BY <1>2, <1>17 DEF ReorgIndex
<1>18. CASE Choose \/ SideCanonical \/ SideGhost \/ SideStore \/ SideDecide \/ Rewind \/ Restart
  BY <1>0, <1>18 DEF Choose, SideCanonical, SideGhost, SideStore, SideDecide, Rewind, RewindStep, RewindDelete, Restart,
   At
<1>19. CASE Stop \/ Crash
  BY <1>19, <1>0 DEF Stop, Crash, Lost, Idle
<1> QED
  BY <1>6, <1>7, <1>8, <1>10, <1>11, <1>12, <1>13, <1>14, <1>15, <1>16, <1>17, <1>18, <1>19 DEF Next, Import, Process

\* A SetCanonical that is not interrupted ends with the head it was told, even
\* when states of the target's ancestors have to be recovered first, unless one
\* of the target's chain cannot be executed.
THEOREM SetCanonicalEndsAsTold == Spec => HeadAsTold
<1> DEFINE Inv == Sound /\ Headless /\ Told
           Step == ~Ready /\ ~At("down") /\ op.target # None /\ op' = Idle /\ ~stopped =>
                     head'.block = op.target \/ Chain[op.target] \cap Bad # {}
<1>1. Init => Inv BY SoundInit, HeadlessInit, ToldInit
<1>2. Inv /\ [Next]_vars => Inv' BY SoundNext, HeadlessNext, ToldNext
<1>3. Inv /\ [Next]_vars => [Step]_vars BY ToldEnd
<1> HIDE DEF Inv, Step
<1>4. Spec => [][Step]_vars BY <1>1, <1>2, <1>3, PTL DEF Spec
<1> QED BY <1>4 DEF HeadAsTold, Step

=============================================================================
