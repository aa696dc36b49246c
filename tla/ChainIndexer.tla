---------------------------- MODULE ChainIndexer ----------------------------
(***************************************************************************)
(* core/chain_indexer.go: background indices over sections of the          *)
(* canonical chain (bloom bits, and the bloom tries and CHTs of the light  *)
(* protocol).                                                              *)
(*                                                                         *)
(* Indexer 1 hears of new heads through a subscription, indexer 2 is its   *)
(* child.  Each has a lock and an update loop that processes a section     *)
(* header by header without the lock, while the chain, the event loop and  *)
(* callers of Sections go on.                                              *)
(*                                                                         *)
(* The chain is a head block, the canonical hashes on disk, and the blocks *)
(* SetHead deleted.  A reorg (blockchain.go) writes the canonical hashes   *)
(* one by one and deletes the stale ones before the last, and the indexers *)
(* read them without the lock of the chain.                                *)
(***************************************************************************)
EXTENDS Naturals, Sequences, FiniteSets

CONSTANTS Headers, Root, ParentOf, NumberOf, \* a tree of headers
          Ancestry,                \* a header with all below it
          NoHash,
          SectionSize, Confirms,   \* confirmations asked by each indexer
          CheckpointHeads,         \* last headers of trusted sections, or NoHash
          MaxHeadEvents, MaxQueue, MaxSetHeads, MaxRestarts \* bounds

\* What hash links and numbers of verified headers give; children ask for no
\* confirmations (light/postprocess.go:362), and a checkpoint ends a section.
ASSUME IndexerAssumption ==
  /\ IsFiniteSet(Headers) /\ Root \in Headers /\ NoHash \notin Headers
  /\ ParentOf \in [Headers -> Headers] /\ NumberOf \in [Headers -> Nat]
  /\ Ancestry \in [Headers -> SUBSET Headers]
  /\ NumberOf[Root] = 0 /\ Ancestry[Root] = {Root}
  /\ \A b \in Headers \ {Root} : /\ NumberOf[b] = NumberOf[ParentOf[b]] + 1
                                 /\ Ancestry[b] = {b} \cup Ancestry[ParentOf[b]]
  /\ \A b \in Headers : \A c \in Ancestry[b] : Ancestry[c] \subseteq Ancestry[b] /\ NumberOf[c] <= NumberOf[b]
  /\ \A b \in Headers : \A c, d \in Ancestry[b] : NumberOf[c] = NumberOf[d] => c = d
  /\ \A b \in Headers : \A n \in 0..NumberOf[b] : \E c \in Ancestry[b] : NumberOf[c] = n
  /\ SectionSize \in Nat \ {0} /\ Confirms \in [1..2 -> Nat] /\ Confirms[2] = 0
  /\ CheckpointHeads \subseteq Headers \cup {NoHash}
  /\ \A c \in CheckpointHeads \ {NoHash} : (NumberOf[c] + 1) % SectionSize = 0

VARIABLES x,        \* the indexers
          canon, head, gone,
          move,     \* what the chain is doing: nothing, a reorg, a growth, or a rewind
          events,   \* subscription of indexer 1
          loop,     \* its event loop: last header seen, head to announce
          attached, \* indexer 2 was added to indexer 1
          trusted,  \* last header of the checkpoint
          disturbed, \* the chain was reorganised or a backend failed, some time
          headsTold, setHeads, restarts

indexChain == <<canon, head, gone, move>>
indexBounds == <<headsTold, setHeads, restarts>>
indexerVars == <<x, indexChain, events, loop, attached, trusted, disturbed, indexBounds>>

Indexers == {1, 2}
SectionIds == 0..(Cardinality(Headers) \div SectionSize)
NoWork == [section |-> 0, old |-> NoHash, last |-> NoHash, next |-> 0, active |-> FALSE]

Still == [way |-> "still", to |-> NoHash]

ParentHash(b) == IF b = Root THEN NoHash ELSE ParentOf[b]
Numbers == {NumberOf[b] : b \in Headers}
CanonicalHash(n) == IF n \in Numbers THEN canon[n] ELSE NoHash
SectionEnd(s) == (s + 1) * SectionSize - 1

-----------------------------------------------------------------------------
(* The bookkeeping of one indexer, under its lock.                         *)

\* setValidSections
SetValid(r, n) ==
  [r EXCEPT !.stored = n, !.heads = [s \in SectionIds |-> IF s >= n /\ s < r.stored THEN NoHash ELSE r.heads[s]]]

\* mutant: the chain is not asked
Unverified(r) == r

\* verifyLastHead: stored sections the chain left are rolled back.
VerifyLastHead(r) ==
  LET valid(n) == n <= r.checkpoint \/ r.heads[n - 1] = CanonicalHash(SectionEnd(n - 1))
      keep == CHOOSE n \in 0..r.stored : valid(n) /\ \A m \in (n + 1)..r.stored : ~valid(m)
  IN SetValid(r, keep)

\* newHead with reorg: sections beyond the ancestor are unknown again.
KnownAt(r, n) == IF (n + 1) \div SectionSize < r.checkpoint THEN 0 ELSE (n + 1) \div SectionSize
RolledBack(r, n) ==
  LET known == KnownAt(r, n)
      at == (n + 1) \div SectionSize
      stored == IF at < r.checkpoint THEN r.checkpoint ELSE at
      valid == IF stored < r.stored THEN SetValid(r, stored) ELSE r
  IN [valid EXCEPT !.known = IF known < @ THEN known ELSE @,
                   !.cascaded = IF known * SectionSize < @ THEN known * SectionSize ELSE @]

\* newHead without: more sections are known, and the update loop is told.
Advanced(i, r, n) ==
  LET sections == IF n < Confirms[i] THEN 0 ELSE (n + 1 - Confirms[i]) \div SectionSize
      reached == r.known < r.checkpoint => CanonicalHash(SectionEnd(r.checkpoint - 1)) = trusted
  IN IF sections >= r.checkpoint /\ sections > r.known /\ reached
     THEN [r EXCEPT !.known = sections, !.signal = TRUE] ELSE r

Rollback(y, n) ==
  LET cut == KnownAt(y[1], n) * SectionSize
  IN [i \in Indexers |-> IF i = 1 THEN RolledBack(y[1], n)
                         ELSE IF attached /\ cut < y[1].cascaded THEN RolledBack(y[2], cut) ELSE y[2]]

\* A completed section is told to the child.
Cascade(y, i, n) == IF i = 1 /\ attached THEN [y EXCEPT ![2] = Advanced(2, @, n)] ELSE y

\* The sections below a checkpoint.
SectionsTo(last) == IF last = NoHash THEN 0 ELSE (NumberOf[last] + 1) \div SectionSize

\* AddCheckpoint, unless as much is stored.
AddCheckpoint(r, last) ==
  LET n == SectionsTo(last)
  IN IF r.stored >= n THEN r ELSE [SetValid(r, n) EXCEPT !.checkpoint = n, !.heads[n - 1] = last]

\* loadValidSections: only what is in the database survives.
Started(stored, sectionHeads, last) ==
  AddCheckpoint([stored |-> stored, heads |-> sectionHeads, known |-> 0, cascaded |-> 0,
                 checkpoint |-> 0, signal |-> FALSE, work |-> NoWork], last)

IndexerInit ==
  /\ trusted \in CheckpointHeads
  /\ x = [i \in Indexers |-> Started(0, [s \in SectionIds |-> NoHash], trusted)]
  /\ canon = [n \in Numbers |-> IF n = 0 THEN Root ELSE NoHash]
  /\ head = Root /\ gone = {} /\ move = Still /\ events = <<>>
  /\ loop = [prev |-> Root, next |-> Root]
  /\ attached = FALSE /\ disturbed = FALSE
  /\ headsTold = 0 /\ setHeads = 0 /\ restarts = 0

\* AddChildIndexer: the child is told of what is stored and known.
AddChildIndexer ==
  /\ ~attached /\ attached' = TRUE
  /\ LET n == IF x[1].known < x[1].stored THEN x[1].known ELSE x[1].stored
     IN x' = IF n = 0 THEN x ELSE [x EXCEPT ![2] = Advanced(2, @, SectionEnd(n - 1))]
  /\ UNCHANGED <<indexChain, events, loop, trusted, disturbed, indexBounds>>

-----------------------------------------------------------------------------
(* The chain.                                                              *)

\* A canonical hash that is not of the chain of the head: while a reorg or a rewind is
\* under way, and when one was cut short.
Leftover == \E n \in Numbers : canon[n] \notin Ancestry[head] \cup {NoHash}

\* The chain is to end at b.  A block that does not continue the head is a reorg.
MoveHead(b) ==
  /\ headsTold < MaxHeadEvents /\ headsTold' = headsTold + 1
  /\ move = Still /\ b # head /\ Len(events) < MaxQueue
  /\ \E way \in {"grow", "reorg"} :
       /\ way = "grow" => head \in Ancestry[b]
       /\ way = "reorg" => head \notin Ancestry[b] \/ (Leftover /\ ParentHash(b) # head)
       /\ move' = [way |-> way, to |-> b]
  /\ gone' = gone \ Ancestry[b]
  /\ disturbed' = (disturbed \/ head \notin Ancestry[b])
  /\ UNCHANGED <<x, canon, head, events, loop, attached, trusted, setHeads, restarts>>

\* The next block of the chain to be, the lowest first, the last one at the end
Ahead == Ancestry[move.to] \ Ancestry[head]
NextBlock == IF Ahead = {} THEN move.to ELSE CHOOSE c \in Ahead : \A d \in Ahead : NumberOf[c] <= NumberOf[d]

\* writeHeadBlock; after the last one the new head is told.
WriteHeadBlock ==
  /\ move.way \in {"grow", "reorg"} /\ (NextBlock = move.to => move.way = "grow")
  /\ canon' = [canon EXCEPT ![NumberOf[NextBlock]] = NextBlock] /\ head' = NextBlock
  /\ IF NextBlock = move.to THEN move' = Still /\ events' = Append(events, move.to) ELSE UNCHANGED <<move, events>>
  /\ UNCHANGED <<x, gone, loop, attached, trusted, disturbed, indexBounds>>

\* The end of reorg: hashes above the last block written go, up to the first that is not there.
DeleteStale ==
  /\ move.way = "reorg" /\ move' = [move EXCEPT !.way = "grow"]
  /\ LET from == IF Ahead = {} THEN NumberOf[move.to] + 1 ELSE NumberOf[NextBlock]
     IN canon' = [n \in Numbers |-> IF n < from \/ \E m \in from..n : CanonicalHash(m) = NoHash THEN canon[n] ELSE NoHash]
  /\ UNCHANGED <<x, head, gone, events, loop, attached, trusted, disturbed, indexBounds>>

\* SetHead lowers the head, then deletes all blocks above it, and posts no event.
RewindChain(b) ==
  /\ setHeads < MaxSetHeads /\ setHeads' = setHeads + 1
  /\ move = Still /\ b \in Ancestry[head] \ {head}
  /\ head' = b /\ move' = [way |-> "rewind", to |-> b]
  /\ disturbed' = TRUE
  /\ UNCHANGED <<x, canon, gone, events, loop, attached, trusted, headsTold, restarts>>

DeleteAbove ==
  /\ move.way = "rewind" /\ move' = Still
  /\ canon' = [n \in Numbers |-> IF n > NumberOf[head] THEN NoHash ELSE canon[n]]
  /\ gone' = gone \cup {c \in Headers : NumberOf[c] > NumberOf[head]}
  /\ UNCHANGED <<x, head, events, loop, attached, trusted, disturbed, indexBounds>>

-----------------------------------------------------------------------------
(* eventLoop.                                                              *)

\* FindCommonAncestor reads every header below the two.
CommonAncestor(a, b) ==
  LET common == Ancestry[a] \cap Ancestry[b]
      top == CHOOSE c \in common : \A d \in common : NumberOf[d] <= NumberOf[c]
      read == ((Ancestry[a] \cup Ancestry[b]) \ common) \cup {top}
  IN IF (read \ {a, b}) \cap gone = {} THEN top ELSE NoHash

\* The reorg part of an event: newHead of the common ancestor.
TakeEvent ==
  /\ loop.next = NoHash /\ events # <<>>
  /\ LET b == Head(events)
         h == CommonAncestor(loop.prev, b)
         left == ParentHash(b) # loop.prev /\ CanonicalHash(NumberOf[loop.prev]) # loop.prev
     IN /\ x' = IF left /\ h # NoHash THEN Rollback(x, NumberOf[h]) ELSE x
        /\ loop' = [prev |-> b, next |-> b]
  /\ events' = Tail(events)
  /\ UNCHANGED <<indexChain, attached, trusted, disturbed, indexBounds>>

\* newHead of the header itself, in a critical section of its own.
AnnounceHead ==
  /\ loop.next # NoHash
  /\ x' = [x EXCEPT ![1] = Advanced(1, @, NumberOf[loop.next])]
  /\ loop' = [loop EXCEPT !.next = NoHash]
  /\ UNCHANGED <<indexChain, events, attached, trusted, disturbed, indexBounds>>

-----------------------------------------------------------------------------
(* updateLoop.                                                             *)

\* The next section, if one is known that is not stored.
TakeUpdate(i) ==
  /\ x[i].signal /\ ~x[i].work.active
  /\ LET r == VerifyLastHead(x[i])
         old == IF r.stored = 0 THEN NoHash ELSE r.heads[r.stored - 1]
     IN x' = [x EXCEPT ![i] =
          IF @.known <= @.stored THEN [@ EXCEPT !.signal = FALSE]
          ELSE [r EXCEPT !.signal = FALSE,
                         !.work = [section |-> r.stored, old |-> old, last |-> old,
                                   next |-> r.stored * SectionSize, active |-> TRUE]]]
  /\ UNCHANGED <<indexChain, events, loop, attached, trusted, disturbed, indexBounds>>

\* A failed section is not tried again until more is known.
GivenUp(r) == [VerifyLastHead(r) EXCEPT !.known = VerifyLastHead(r).stored, !.work = NoWork]

Follows(w) == CanonicalHash(w.next) # NoHash /\ ParentHash(CanonicalHash(w.next)) = w.last

\* processSection, one header: it must continue the section.
ProcessHeader(i) ==
  /\ x[i].work.active /\ x[i].work.next <= SectionEnd(x[i].work.section)
  /\ LET w == x[i].work
     IN x' = [x EXCEPT ![i] = IF Follows(w)
                              THEN [@ EXCEPT !.work = [w EXCEPT !.last = CanonicalHash(w.next), !.next = @ + 1]]
                              ELSE GivenUp(@)]
  /\ UNCHANGED <<indexChain, events, loop, attached, trusted, disturbed, indexBounds>>

\* Reset of the backend of the child fails for want of a trie node, and all is void.
ResetFails ==
  /\ x[2].work.active /\ x[2].work.next = x[2].work.section * SectionSize
  /\ x' = [x EXCEPT ![2] = GivenUp(SetValid(@, 0))]
  /\ disturbed' = TRUE
  /\ UNCHANGED <<indexChain, events, loop, attached, trusted, indexBounds>>

\* The section is stored if the one before it is still the one it was built on.
Unmoved(r) == r.work.section = 0 \/ r.work.old = r.heads[r.work.section - 1]

CompleteSection(i) ==
  /\ x[i].work.active /\ x[i].work.next > SectionEnd(x[i].work.section)
  /\ LET r == x[i]
         s == r.work.section
         done == [SetValid([r EXCEPT !.heads[s] = r.work.last], s + 1)
                    EXCEPT !.work = NoWork, !.cascaded = SectionEnd(s), !.signal = r.signal \/ r.known > s + 1]
     IN x' = IF Unmoved(r) THEN Cascade([x EXCEPT ![i] = done], i, SectionEnd(s))
                           ELSE [x EXCEPT ![i] = GivenUp(r)]
  /\ UNCHANGED <<indexChain, events, loop, attached, trusted, disturbed, indexBounds>>

\* Sections: what is told is verified first.
Sections(i) ==
  /\ x' = [x EXCEPT ![i] = VerifyLastHead(@)]
  /\ UNCHANGED <<indexChain, events, loop, attached, trusted, disturbed, indexBounds>>

\* The node stops, at any time and in the middle of a reorg, and starts again.
RestartIndexers ==
  /\ restarts < MaxRestarts /\ restarts' = restarts + 1
  /\ x' = [i \in Indexers |-> Started(x[i].stored, x[i].heads, trusted)]
  /\ events' = <<>> /\ loop' = [prev |-> head, next |-> head] /\ attached' = FALSE /\ move' = Still
  /\ UNCHANGED <<canon, head, gone, trusted, disturbed, headsTold, setHeads>>

IndexerNext ==
  \/ WriteHeadBlock \/ DeleteStale \/ DeleteAbove
  \/ AddChildIndexer \/ TakeEvent \/ AnnounceHead \/ ResetFails \/ RestartIndexers
  \/ \E b \in Headers : MoveHead(b) \/ RewindChain(b)
  \/ \E i \in Indexers : TakeUpdate(i) \/ ProcessHeader(i) \/ CompleteSection(i) \/ Sections(i)

IndexerSpec == IndexerInit /\ [][IndexerNext]_indexerVars

-----------------------------------------------------------------------------
(* What the indexer promises.                                              *)

IndexerTypeOK ==
  /\ \A i \in Indexers :
       /\ x[i].stored \in Nat /\ x[i].known \in Nat /\ x[i].cascaded \in Nat /\ x[i].checkpoint \in Nat
       /\ x[i].heads \in [SectionIds -> Headers \cup {NoHash}] /\ x[i].signal \in BOOLEAN
       /\ x[i].work.section \in SectionIds
  /\ canon \in [Numbers -> Headers \cup {NoHash}] /\ head \in Headers /\ gone \subseteq Headers
  /\ move.way \in {"still", "grow", "reorg", "rewind"} /\ move.to \in Headers \cup {NoHash}
  /\ loop.prev \in Headers /\ loop.next \in Headers \cup {NoHash}

\* Sections below the checkpoint's last one need no head; after a restart the
\* checkpoint is forgotten, but not what it stored.
Kept(s) == s + 1 >= SectionsTo(trusted)

\* Every stored section has a head and continues the one before it, although sections
\* are processed without the lock while others roll the stored ones back.
SectionsLinked ==
  \A i \in Indexers : \A s \in SectionIds : Kept(s) =>
    /\ s < x[i].stored => x[i].heads[s] # NoHash
    /\ s + 1 < x[i].stored => x[i].heads[s] \in Ancestry[x[i].heads[s + 1]]

\* Every section a caller of Sections is told of is part of the chain of the head at
\* that moment, unless a reorg or a rewind that is under way, or was cut short by a kill,
\* has left canonical hashes of another chain: checking the last section is enough then,
\* whatever events are lost, late or never posted, and whatever was stored before a restart.
ServedCanonical ==
  ~Leftover =>
    \A i \in Indexers :
      LET r == VerifyLastHead(x[i])
      IN \A s \in SectionIds : s < r.stored /\ s >= r.checkpoint /\ Kept(s) =>
           r.heads[s] \in Ancestry[head] /\ NumberOf[r.heads[s]] = SectionEnd(s)

\* What is indexed is one chain, and what is told of it that of the head.
SectionsCanonical == IndexerTypeOK /\ SectionsLinked /\ ServedCanonical

\* "ensure that stored sections are all valid" (verifyLastHead), at any moment.
AlwaysCanonical ==
  \A i \in Indexers :
    LET r == VerifyLastHead(x[i])
    IN \A s \in SectionIds : s < r.stored /\ s >= r.checkpoint /\ Kept(s) => r.heads[s] = CanonicalHash(SectionEnd(s))

Settled == move = Still /\ events = <<>> /\ loop.next = NoHash /\ \A i \in Indexers : ~x[i].signal /\ ~x[i].work.active
Expected(i, n) == IF n < Confirms[i] THEN 0 ELSE (n + 1 - Confirms[i]) \div SectionSize

\* No wake-up is lost: on a chain that only grew, an index with nothing left to do is
\* complete, and so is that of the child, except after a restart (see RestartKeepsUp
\* and ChildFollows).
EverySectionIndexed ==
  Settled /\ ~disturbed =>
    /\ trusted \in Ancestry[head] \cup {NoHash} /\ (restarts = 0 \/ SectionsTo(trusted) <= 1)
         => x[1].stored >= Expected(1, NumberOf[head])
    /\ attached /\ restarts = 0 => x[2].stored >= x[1].stored

\* The same with a restart before the chain has reached the checkpoint.
RestartKeepsUp ==
  Settled /\ ~disturbed /\ trusted \in Ancestry[head] \cup {NoHash} => x[1].stored >= Expected(1, NumberOf[head])

\* Adding a child starts its update (the note at les/client.go:170).
ChildFollows == Settled /\ ~disturbed /\ attached => x[2].stored >= x[1].stored

\* The index tells of the canonical chain, and of all of it (newHead, updateLoop).
IndexSound == SectionsCanonical /\ EverySectionIndexed
=============================================================================
