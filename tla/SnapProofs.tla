----------------------------- MODULE SnapProofs -----------------------------
(***************************************************************************)
(* The state sync: what is stored is whole under every healed node, and no *)
(* part of the pivot state is forgotten, for any states over four hashes,  *)
(* any moves of the pivot, answers, stops and kills.                       *)
(***************************************************************************)
EXTENDS SnapSync, SequencesExt, FiniteSetTheorems, TLAPS
-----------------------------------------------------------------------------
(* The state sync.                                                         *)

\* The fields of a task.
TaskFields == {"next", "last", "subTasks", "asked", "filling", "hashes", "cont", "needCode", "needState",
               "needHeal", "pend", "codeTasks", "codeReqs", "stateTasks", "stateReqs", "gen", "done"}

\* The storage of an account, and the account as a whole, among these slots and codes.
SlotsIn(root, slots) == root # NoLeaves => TrieNodes(root) \subseteq slots
HeldIn(a, slots, codes) == SlotsIn(a.root, slots) /\ a.code \in codes \cup {NoCode}

\* A disk on which a node stands for all there is under it.
DiskWhole(disc) ==
  /\ \A n \in disc.slots : SubTrie(n) \subseteq disc.slots
  /\ \A n \in disc.accounts : SubTrie(n) \subseteq disc.accounts
                              /\ \A h \in DOMAIN n[2] : HeldIn(n[2][h], disc.slots, disc.codes)

\* A task that waits for nothing: nothing of it is under way.
Resting(k) ==
  /\ k.hashes = {} /\ k.needCode = {} /\ k.needState = {} /\ k.needHeal = {}
  /\ k.codeReqs = {} /\ k.stateReqs = {} /\ k.pend = 0
  /\ \A h \in DOMAIN k.subTasks : \A i \in DOMAIN k.subTasks[h] : ~k.subTasks[h][i].asked

\* The codes a task needs are queued or in one request.
CodesQueued(k, S) ==
  /\ {S[h].code : h \in k.needCode} = k.codeTasks \cup UNION k.codeReqs
  /\ \A c \in k.codeReqs : c # {} /\ c \cap k.codeTasks = {} /\ \A d \in k.codeReqs : c = d \/ c \cap d = {}

\* The accounts of requests for storage.
InReqs(reqs) == UNION {Range(req) : req \in reqs}

\* The accounts a task needs the storage of are queued, in one request, or in chunks.
StatesQueued(k) ==
  /\ k.needState = k.stateTasks \cup InReqs(k.stateReqs) \cup DOMAIN k.subTasks
  /\ k.stateTasks \cap DOMAIN k.subTasks = {}
  /\ \A req \in k.stateReqs :
       /\ req \in Seq(HashSpace) /\ req # <<>> /\ IsInjective(req)
       /\ Range(req) \cap k.stateTasks = {} /\ Range(req) \cap DOMAIN k.subTasks = {}
       /\ \A r \in k.stateReqs : r = req \/ Range(r) \cap Range(req) = {}

\* A task whose accounts came: what is not needed any more is there.
Working(k, S, slots, codes) ==
  /\ ~k.asked
  /\ k.hashes \subseteq DOMAIN S /\ k.needCode \subseteq k.hashes /\ k.needState \subseteq k.hashes
  /\ k.needHeal \subseteq k.hashes
  /\ k.pend = Cardinality(k.needCode) + Cardinality(k.needState)
  /\ \A h \in k.hashes \ k.needCode : S[h].code \in codes \cup {NoCode}
  /\ \A h \in k.hashes \ k.needHeal : h \notin k.needState \/ h \in DOMAIN k.subTasks => SlotsIn(S[h].root, slots)
  /\ CodesQueued(k, S) /\ StatesQueued(k)

\* A task between two steps.
TaskSound(k, S, slots, codes) ==
  /\ DOMAIN k = TaskFields
  /\ \A h \in DOMAIN k.gen : HeldIn(k.gen[h], slots, codes)
  /\ k.filling => Working(k, S, slots, codes) /\ k.pend > 0
  /\ ~k.filling => Resting(k)

\* A task as the status has it.
TaskSaved(k) == DOMAIN k = TaskFields /\ ~k.filling /\ Resting(k) /\ k.gen = NoLeaves

\* A node of a trie, and a request for one.
TreeNode(n) == n = <<n[1], n[2]>> /\ n[1] \in Blocks /\ Trie(n[2]) /\ DOMAIN n[2] \subseteq n[1]
ReqSound(q) ==
  /\ q = <<q[1], q[2], q[3]>> /\ TreeNode(NodeOf(q)) /\ q[1] \in HashSpace \cup {Accounts}
  /\ q[1] = Accounts => \A h \in DOMAIN q[3] : Trie(q[3][h].root)

\* What a request leads to is on disk or among others, its codes there or waited for.
On(disc, owner, node) == node \in (IF owner = Accounts THEN disc.accounts ELSE disc.slots)
Covered(q, disc, reqs, codes, waits) ==
  /\ \A c \in Children(NodeOf(q)) : On(disc, q[1], c) \/ Request(q[1], c) \in reqs
  /\ q[1] = Accounts /\ Children(NodeOf(q)) = {} =>
       \A h \in DOMAIN q[3] :
         /\ q[3][h].root # NoLeaves =>
              On(disc, h, TrieRoot(q[3][h].root)) \/ Request(h, TrieRoot(q[3][h].root)) \in reqs
         /\ q[3][h].code \in codes \cup {NoCode} \/ <<q[3][h].code, h>> \in waits

\* The walk: what was fetched leads on, what was committed only to what is there.
WalkFields == {"reqs", "got", "codes", "waits", "mem", "memCodes"}
WalkSound(w, disc) ==
  /\ DOMAIN w = WalkFields /\ w.got \subseteq w.reqs
  /\ \A q \in w.reqs \cup w.mem : ReqSound(q)
  /\ \A q \in w.got : Covered(q, disc, w.reqs \cup w.mem, disc.codes \cup w.memCodes, w.waits)
  /\ \A q \in w.mem : Covered(q, disc, w.mem, disc.codes \cup w.memCodes, {})

\* While a cycle runs its root is on disk or asked for.
RootSought(w, disc, S) ==
  TrieRoot(S) \in disc.accounts \/ Request(Accounts, TrieRoot(S)) \in w.reqs \cup w.mem

\* The invariant of the state sync.
SnapInv ==
  /\ pivot \in DOMAIN States /\ synced \subseteq DOMAIN States
  /\ DOMAIN stored = {"accounts", "slots", "codes"} /\ DiskWhole(stored)
  /\ \A p \in synced : TrieNodes(States[p]) \subseteq stored.accounts
                       /\ \A h \in DOMAIN States[p] : HeldIn(States[p][h], stored.slots, stored.codes)
  /\ \A t \in DOMAIN tasks : TaskSound(tasks[t], State, stored.slots, stored.codes)
  /\ \A t \in DOMAIN saved : TaskSaved(saved[t])
  /\ WalkSound(healer, stored)
  /\ syncing => RootSought(healer, stored, State)

\* Nodes of a part of a trie are nodes of the trie.
LEMMA PartOfTrie ==
  ASSUME NEW T, NEW B, NEW C \in Blocks, C \subseteq B, IsNode(LeavesIn(T, B), C)
  PROVE IsNode(T, C) /\ LeavesIn(LeavesIn(T, B), C) = LeavesIn(T, C)
<1> DEFINE L == LeavesIn(T, B)
<1>1. DOMAIN L = B \cap DOMAIN T /\ \A h \in DOMAIN L : L[h] = T[h] BY DEF LeavesIn, Restrict
<1>2. LeavesIn(L, C) = [h \in C \cap DOMAIN L |-> L[h]] BY DEF LeavesIn, Restrict
<1>3. LeavesIn(T, C) = [h \in C \cap DOMAIN T |-> T[h]] BY DEF LeavesIn, Restrict
<1>4. C \cap DOMAIN L = C \cap DOMAIN T BY <1>1
<1>5. IsNode(L, C) OBVIOUS
<1> HIDE DEF L
<1>6. LeavesIn(L, C) = LeavesIn(T, C) BY <1>1, <1>2, <1>3, <1>4
<1>7. IsNode(T, C) BY <1>1, <1>5 DEF IsNode
<1> QED BY <1>6, <1>7 DEF L

LEMMA NodesAre == ASSUME NEW T, NEW n
  PROVE n \in TrieNodes(T) <=> \E B \in Blocks : IsNode(T, B) /\ n = <<B, LeavesIn(T, B)>> BY DEF TrieNodes

\* What is under a node.
LEMMA SubIs == ASSUME NEW m, NEW n, n \in SubTrie(m)
  PROVE /\ n = <<n[1], n[2]>> /\ n[1] \in Blocks /\ n[1] \subseteq m[1] /\ n[1] # m[1]
        /\ IsNode(m[2], n[1]) /\ n[2] = LeavesIn(m[2], n[1])
        /\ DOMAIN n[2] = n[1] \cap DOMAIN m[2] /\ \A h \in DOMAIN n[2] : n[2][h] = m[2][h]
<1>1. n \in TrieNodes(m[2]) /\ n[1] \subseteq m[1] /\ n[1] # m[1] BY DEF SubTrie
<1>2. PICK B \in Blocks : IsNode(m[2], B) /\ n = <<B, LeavesIn(m[2], B)>> BY <1>1, NodesAre
<1>3. n[1] = B /\ n[2] = LeavesIn(m[2], B) BY <1>2
<1>4. DOMAIN n[2] = B \cap DOMAIN m[2] /\ \A h \in DOMAIN n[2] : n[2][h] = m[2][h] BY <1>3 DEF LeavesIn, Restrict
<1> QED BY <1>1, <1>2, <1>3, <1>4

LEMMA SubHas == ASSUME NEW m, NEW B \in Blocks, B \subseteq m[1], B # m[1], IsNode(m[2], B)
  PROVE <<B, LeavesIn(m[2], B)>> \in SubTrie(m) BY NodesAre DEF SubTrie

\* The nodes of a trie are closed.
LEMMA SubClosed == ASSUME NEW T, NEW n \in TrieNodes(T), NEW k \in SubTrie(n)
  PROVE k \in TrieNodes(T) /\ k[1] \subseteq n[1]
<1>1. PICK B \in Blocks : IsNode(T, B) /\ n = <<B, LeavesIn(T, B)>> BY NodesAre
<1>2. n[1] = B /\ n[2] = LeavesIn(T, B) BY <1>1
<1>3. /\ k = <<k[1], k[2]>> /\ k[1] \in Blocks /\ k[1] \subseteq n[1] /\ IsNode(n[2], k[1])
      /\ k[2] = LeavesIn(n[2], k[1])
  BY SubIs
<1>4. IsNode(T, k[1]) /\ LeavesIn(LeavesIn(T, B), k[1]) = LeavesIn(T, k[1]) BY <1>2, <1>3, PartOfTrie
<1>5. k = <<k[1], LeavesIn(T, k[1])>> BY <1>2, <1>3, <1>4
<1> QED BY <1>3, <1>4, <1>5, NodesAre

\* ... and so are those a stack trie has written.
LEMMA GenClosed == ASSUME NEW gen, NEW done, NEW n \in GenNodes(gen, done)
  PROVE /\ SubTrie(n) \subseteq GenNodes(gen, done)
        /\ DOMAIN n[2] \subseteq DOMAIN gen /\ \A h \in DOMAIN n[2] : n[2][h] = gen[h]
<1>1. n \in TrieNodes(gen) BY DEF GenNodes, ClosedNodes
<1>2. ASSUME NEW k \in SubTrie(n) PROVE k \in GenNodes(gen, done) BY <1>1, SubClosed DEF GenNodes, ClosedNodes
<1>3. PICK B \in Blocks : n = <<B, LeavesIn(gen, B)>> BY <1>1, NodesAre
<1>4. n[2] = LeavesIn(gen, B) BY <1>3
<1>5. DOMAIN n[2] = B \cap DOMAIN gen /\ \A h \in DOMAIN n[2] : n[2][h] = gen[h] BY <1>4 DEF LeavesIn, Restrict
<1> QED BY <1>2, <1>5

LEMMA TrieClosed == ASSUME NEW T, NEW n \in TrieNodes(T) PROVE SubTrie(n) \subseteq TrieNodes(T) BY SubClosed

\* The blocks.
LEMMA BlocksAre == ASSUME NEW B \in Blocks
  PROVE /\ B \subseteq HashSpace
        /\ B = 0..3 \/ B = 0..1 \/ B = 2..3 \/ B = {0} \/ B = {1} \/ B = {2} \/ B = {3}
  BY DEF Blocks, HashSpace

\* The root and what is under it are all there is.
LEMMA RootHolds == ASSUME NEW T, Trie(T), NEW S, TrieRoot(T) \in S, SubTrie(TrieRoot(T)) \subseteq S
  PROVE TrieNodes(T) \subseteq S
<1>1. LeavesIn(T, HashSpace) = T
  BY DEF Trie, HashSpace, LeavesIn, Restrict
<1>2. ASSUME NEW n \in TrieNodes(T) PROVE n \in S
  <2>1. PICK B \in Blocks : IsNode(T, B) /\ n = <<B, LeavesIn(T, B)>> BY NodesAre
  <2>2. CASE B = HashSpace BY <2>1, <2>2, <1>1 DEF TrieRoot
  <2>3. CASE B # HashSpace
    BY <2>1, <2>3, BlocksAre, SubHas DEF TrieRoot
  <2> QED BY <2>2, <2>3
<1> QED BY <1>2

\* The other half of a pair, and of all.
LEMMA SiblingIs == ASSUME NEW B, NEW C \in Blocks, C \cap B = {}, C \cup B \in Blocks,
                          \A D \in Blocks : D \cap B = {} /\ D \cup B \in Blocks => D = C
  PROVE Sibling(B) = C BY DEF Sibling

LEMMA BlocksHold ==
  /\ (0..3) \in Blocks /\ (0..1) \in Blocks /\ (2..3) \in Blocks
  /\ {0} \in Blocks /\ {1} \in Blocks /\ {2} \in Blocks /\ {3} \in Blocks
  BY DEF Blocks, HashSpace

\* Which elements blocks have.
LEMMA BlockElements == ASSUME NEW B \in Blocks
  PROVE /\ 0 \in B /\ 2 \in B => B = 0..3
        /\ 0 \in B /\ 3 \in B => B = 0..3
        /\ 1 \in B /\ 2 \in B => B = 0..3
        /\ 1 \in B /\ 3 \in B => B = 0..3
        /\ 0 \in B \/ 1 \in B \/ 2 \in B \/ 3 \in B
        /\ \A x \in B : x = 0 \/ x = 1 \/ x = 2 \/ x = 3
<1>1. B = 0..3 \/ B = 0..1 \/ B = 2..3 \/ B = {0} \/ B = {1} \/ B = {2} \/ B = {3} BY BlocksAre
<1> QED BY <1>1

LEMMA SinglePairs == Sibling({0}) = {1} /\ Sibling({1}) = {0} /\ Sibling({2}) = {3} /\ Sibling({3}) = {2}
<1>1. Sibling({0}) = {1}
  <2>1. {1} \cup {0} = 0..1 /\ {1} \cap {0} = {} OBVIOUS
  <2>2. ASSUME NEW D \in Blocks, D \cap {0} = {}, D \cup {0} \in Blocks PROVE D = {1}
    BY <2>2, BlockElements, BlocksAre
  <2>3. {1} \in Blocks /\ {1} \cap {0} = {} /\ {1} \cup {0} \in Blocks BY <2>1, BlocksHold
  <2>4. \A D \in Blocks : D \cap {0} = {} /\ D \cup {0} \in Blocks => D = {1} BY <2>2
  <2> QED BY <2>3, <2>4, SiblingIs
<1>2. Sibling({1}) = {0}
  <2>1. {0} \cup {1} = 0..1 /\ {0} \cap {1} = {} OBVIOUS
  <2>2. ASSUME NEW D \in Blocks, D \cap {1} = {}, D \cup {1} \in Blocks PROVE D = {0}
    BY <2>2, BlockElements, BlocksAre
  <2>3. {0} \in Blocks /\ {0} \cap {1} = {} /\ {0} \cup {1} \in Blocks BY <2>1, BlocksHold
  <2>4. \A D \in Blocks : D \cap {1} = {} /\ D \cup {1} \in Blocks => D = {0} BY <2>2
  <2> QED BY <2>3, <2>4, SiblingIs
<1>3. Sibling({2}) = {3}
  <2>1. {3} \cup {2} = 2..3 /\ {3} \cap {2} = {} OBVIOUS
  <2>2. ASSUME NEW D \in Blocks, D \cap {2} = {}, D \cup {2} \in Blocks PROVE D = {3}
    BY <2>2, BlockElements, BlocksAre
  <2>3. {3} \in Blocks /\ {3} \cap {2} = {} /\ {3} \cup {2} \in Blocks BY <2>1, BlocksHold
  <2>4. \A D \in Blocks : D \cap {2} = {} /\ D \cup {2} \in Blocks => D = {3} BY <2>2
  <2> QED BY <2>3, <2>4, SiblingIs
<1>4. Sibling({3}) = {2}
  <2>1. {2} \cup {3} = 2..3 /\ {2} \cap {3} = {} OBVIOUS
  <2>2. ASSUME NEW D \in Blocks, D \cap {3} = {}, D \cup {3} \in Blocks PROVE D = {2}
    BY <2>2, BlockElements, BlocksAre
  <2>3. {2} \in Blocks /\ {2} \cap {3} = {} /\ {2} \cup {3} \in Blocks BY <2>1, BlocksHold
  <2>4. \A D \in Blocks : D \cap {3} = {} /\ D \cup {3} \in Blocks => D = {2} BY <2>2
  <2> QED BY <2>3, <2>4, SiblingIs
<1> QED BY <1>1, <1>2, <1>3, <1>4

LEMMA HalfPairs == Sibling(0..1) = 2..3 /\ Sibling(2..3) = 0..1
<1>1. Sibling(0..1) = 2..3
  <2>1. (2..3) \cup (0..1) = 0..3 /\ (2..3) \cap (0..1) = {} OBVIOUS
  <2>2. ASSUME NEW D \in Blocks, D \cap (0..1) = {}, D \cup (0..1) \in Blocks PROVE D = 2..3
    BY <2>2, BlockElements, BlocksAre
  <2>3. (2..3) \in Blocks /\ (2..3) \cap (0..1) = {} /\ (2..3) \cup (0..1) \in Blocks BY <2>1, BlocksHold
  <2>4. \A D \in Blocks : D \cap (0..1) = {} /\ D \cup (0..1) \in Blocks => D = (2..3) BY <2>2
  <2> QED BY <2>3, <2>4, SiblingIs
<1>2. Sibling(2..3) = 0..1
  <2>1. (0..1) \cup (2..3) = 0..3 /\ (0..1) \cap (2..3) = {} OBVIOUS
  <2>2. ASSUME NEW D \in Blocks, D \cap (2..3) = {}, D \cup (2..3) \in Blocks PROVE D = 0..1
    BY <2>2, BlockElements, BlocksAre
  <2>3. (0..1) \in Blocks /\ (0..1) \cap (2..3) = {} /\ (0..1) \cup (2..3) \in Blocks BY <2>1, BlocksHold
  <2>4. \A D \in Blocks : D \cap (2..3) = {} /\ D \cup (2..3) \in Blocks => D = (0..1) BY <2>2
  <2> QED BY <2>3, <2>4, SiblingIs
<1> QED BY <1>1, <1>2

\* What is smaller than a block.
LEMMA SmallerBlock == ASSUME NEW A \in Blocks, NEW B \in Blocks, A \subseteq B, A # B
  PROVE \/ B = 0..3
        \/ B = 0..1 /\ (A = {0} \/ A = {1})
        \/ B = 2..3 /\ (A = {2} \/ A = {3})
<1>1. B = 0..3 \/ B = 0..1 \/ B = 2..3 \/ B = {0} \/ B = {1} \/ B = {2} \/ B = {3} BY BlocksAre
<1>2. A = 0..3 \/ A = 0..1 \/ A = 2..3 \/ A = {0} \/ A = {1} \/ A = {2} \/ A = {3} BY BlocksAre
<1>3. A # {} BY BlockElements
<1>4. CASE B = 0..1
  BY <1>4, <1>2
<1>5. CASE B = 2..3
  BY <1>5, <1>2
<1> QED BY <1>1, <1>3, <1>4, <1>5

\* There are at most two levels under the root.
LEMMA TwoLevels == ASSUME NEW A \in Blocks, NEW B \in Blocks, NEW C \in Blocks, NEW D \in Blocks,
                          A \subseteq B, A # B, B \subseteq C, B # C, C \subseteq D, C # D PROVE FALSE
<1>1. (0..1) # 0..3 /\ (2..3) # 0..3
  OBVIOUS
<1>2. {0} # 0..3 /\ {1} # 0..3 /\ {2} # 0..3 /\ {3} # 0..3
  OBVIOUS
<1>3. C = 0..1 \/ C = 2..3 \/ C = 0..3 BY SmallerBlock
<1>4. C # 0..3
  <2>1. C = 0..3 => D = 0..3 BY BlocksAre, SmallerBlock, <1>1
  <2> QED BY <2>1
<1>5. B = {0} \/ B = {1} \/ B = {2} \/ B = {3} BY <1>4, SmallerBlock
<1>6. A # {} BY BlockElements
<1> QED BY <1>5, <1>6

LEMMA ChildIs == ASSUME NEW q, NEW c \in Children(q) PROVE c \in SubTrie(q) BY DEF Children

\* Grandchildren have nothing under them.
LEMMA NoThirdLevel ==
  ASSUME NEW q, q[1] \in Blocks, NEW c \in SubTrie(q), NEW d \in SubTrie(c) PROVE SubTrie(d) = {} /\ Children(d) = {}
<1>1. c[1] \in Blocks /\ c[1] \subseteq q[1] /\ c[1] # q[1] BY SubIs
<1>2. d[1] \in Blocks /\ d[1] \subseteq c[1] /\ d[1] # c[1] BY SubIs
<1>3. ASSUME NEW k \in SubTrie(d) PROVE FALSE
  BY SubIs, <1>1, <1>2, TwoLevels
<1> QED BY <1>3 DEF Children

\* A node under another one that is under a third.
LEMMA SubOfSub ==
  ASSUME NEW q, NEW c \in SubTrie(q), NEW d \in SubTrie(c) PROVE d \in SubTrie(q)
<1>1. /\ c[1] \in Blocks /\ c[1] \subseteq q[1] /\ c[1] # q[1]
      /\ IsNode(q[2], c[1]) /\ c[2] = LeavesIn(q[2], c[1])
  BY SubIs
<1>2. /\ d = <<d[1], d[2]>> /\ d[1] \in Blocks /\ d[1] \subseteq c[1] /\ d[1] # c[1]
      /\ IsNode(c[2], d[1]) /\ d[2] = LeavesIn(c[2], d[1])
  BY SubIs
<1>3. IsNode(q[2], d[1]) /\ d[2] = LeavesIn(q[2], d[1])
  <2>1. IsNode(LeavesIn(q[2], c[1]), d[1]) /\ d[2] = LeavesIn(LeavesIn(q[2], c[1]), d[1]) BY <1>1, <1>2
  <2> HIDE <1>1
  <2> QED BY <2>1, <1>2, PartOfTrie
<1>4. d[1] \subseteq q[1] /\ d[1] # q[1] BY <1>1, <1>2
<1>5. <<d[1], LeavesIn(q[2], d[1])>> \in SubTrie(q) BY <1>2, <1>3, <1>4, SubHas
<1> QED BY <1>2, <1>3, <1>5

\* A single leaf that is a node of the trie is a node of the part its sibling is in.
LEMMA SingleIn ==
  ASSUME NEW T, NEW H, NEW x, (H = 0..1 /\ (x = 0 \/ x = 1)) \/ (H = 2..3 /\ (x = 2 \/ x = 3)),
         IsNode(T, {x}) PROVE IsNode(LeavesIn(T, H), {x})
<1>1. Cardinality({x}) = 1 BY FS_Singleton
<1>2. {x} # HashSpace
  BY DEF HashSpace
<1>3. {x} \cap DOMAIN T # {} /\ Sibling({x}) \cap DOMAIN T # {} BY <1>1, <1>2 DEF IsNode
<1>4. DOMAIN LeavesIn(T, H) = H \cap DOMAIN T BY DEF LeavesIn, Restrict
<1>5. Sibling({x}) \subseteq H /\ {x} \subseteq H BY SinglePairs
<1>6. {x} \cap DOMAIN LeavesIn(T, H) # {} /\ Sibling({x}) \cap DOMAIN LeavesIn(T, H) # {} BY <1>3, <1>4, <1>5
<1> QED BY <1>6 DEF IsNode

\* What is under a node is a child or a child of one.
LEMMA Depth ==
  ASSUME NEW q, q[1] \in Blocks, NEW n \in SubTrie(q)
  PROVE n \in Children(q) \/ \E c \in Children(q) : n \in Children(c)
<1>1. /\ n = <<n[1], n[2]>> /\ n[1] \in Blocks /\ n[1] \subseteq q[1] /\ n[1] # q[1]
      /\ IsNode(q[2], n[1]) /\ n[2] = LeavesIn(q[2], n[1])
  BY SubIs
<1>2. SUFFICES ASSUME n \notin Children(q) PROVE \E c \in Children(q) : n \in Children(c) OBVIOUS
<1>3. PICK m \in SubTrie(q) : n[1] \subseteq m[1] /\ n[1] # m[1] BY <1>2 DEF Children
<1>4. /\ m[1] \in Blocks /\ m[1] \subseteq q[1] /\ m[1] # q[1]
      /\ m[2] = LeavesIn(q[2], m[1])
  BY SubIs
<1>5. m \in Children(q)
  <2>1. ASSUME NEW k \in SubTrie(q), m[1] \subseteq k[1], m[1] # k[1] PROVE FALSE
    BY SubIs, <1>1, <1>3, <1>4, <2>1, TwoLevels
  <2> QED BY <2>1 DEF Children
<1>6. \/ m[1] = 0..1 /\ (n[1] = {0} \/ n[1] = {1})
      \/ m[1] = 2..3 /\ (n[1] = {2} \/ n[1] = {3})
  <2>1. m[1] # 0..3
    <3>1. m[1] = 0..3 => q[1] = 0..3 BY <1>4, BlocksAre
    <3> QED BY <3>1, <1>4
  <2> QED BY <2>1, <1>1, <1>3, <1>4, SmallerBlock
<1>7. IsNode(m[2], n[1])
  <2>1. PICK x : n[1] = {x} /\ ((m[1] = 0..1 /\ (x = 0 \/ x = 1)) \/ (m[1] = 2..3 /\ (x = 2 \/ x = 3)))
    <3>1. CASE n[1] = {0} /\ m[1] = 0..1 BY <3>1
    <3>2. CASE n[1] = {1} /\ m[1] = 0..1 BY <3>2
    <3>3. CASE n[1] = {2} /\ m[1] = 2..3 BY <3>3
    <3>4. CASE n[1] = {3} /\ m[1] = 2..3 BY <3>4
    <3> QED BY <3>1, <3>2, <3>3, <3>4, <1>6
  <2>2. IsNode(q[2], {x}) BY <1>1, <2>1
  <2>3. IsNode(LeavesIn(q[2], m[1]), {x}) BY <2>1, <2>2, SingleIn
  <2> QED BY <2>1, <2>3, <1>4
<1>8. n \in SubTrie(m)
  <2>1. <<n[1], LeavesIn(m[2], n[1])>> \in SubTrie(m) BY <1>1, <1>3, <1>7, SubHas
  <2>2. LeavesIn(LeavesIn(q[2], m[1]), n[1]) = LeavesIn(q[2], n[1])
    BY <1>4, <1>7, <1>1, <1>3, PartOfTrie
  <2> QED BY <2>1, <2>2, <1>1, <1>4
<1>9. n \in Children(m)
  <2>1. ASSUME NEW k \in SubTrie(m), n[1] \subseteq k[1], n[1] # k[1] PROVE FALSE
    BY SubIs, <1>1, <1>4, <2>1, TwoLevels
  <2> QED BY <2>1, <1>8 DEF Children
<1> QED BY <1>5, <1>9

LEMMA HalfSize == Cardinality(0..1) = 2 /\ Cardinality(2..3) = 2
<1>1. ASSUME NEW a \in Int, NEW b \in Int, b = a + 1 PROVE Cardinality(a..b) = 2
  BY FS_Interval, <1>1
<1>2. 0 \in Int /\ 1 \in Int /\ 2 \in Int /\ 3 \in Int /\ 1 = 0 + 1 /\ 3 = 2 + 1 OBVIOUS
<1> HIDE <1>2
<1>3. Cardinality(0..1) = 2 BY <1>1, <1>2
<1>4. Cardinality(2..3) = 2 BY <1>1, <1>2
<1> QED BY <1>3, <1>4

\* If anything but the root is a node, then the half of each leaf is.
LEMMA HalfIsNode ==
  ASSUME NEW T, NEW n \in Blocks, n # HashSpace, IsNode(T, n), NEW H, H = 0..1 \/ H = 2..3, NEW h \in H, h \in DOMAIN T
  PROVE IsNode(T, H)
<1> DEFINE D == DOMAIN T
<1>1. n \cap D # {} /\ (\/ Sibling(n) \cap D # {}
                        \/ Cardinality(n) > 1 /\ \A C \in Halves(n) : C \cap D # {})
  BY DEF IsNode
<1>2. n = 0..1 \/ n = 2..3 \/ n = {0} \/ n = {1} \/ n = {2} \/ n = {3} BY BlocksAre DEF HashSpace
<1>3. H \cap D # {} OBVIOUS
<1>4. ASSUME Sibling(H) \cap D # {} PROVE IsNode(T, H) BY <1>3, <1>4 DEF IsNode
<1>5. CASE n = H BY <1>5
<1>6. CASE n \cap H = {}
  <2>1. n \subseteq Sibling(H)
    <3>1. CASE H = 0..1
      BY <1>6, <3>1, BlockElements, HalfPairs
    <3>2. CASE H = 2..3
      BY <1>6, <3>2, BlockElements, HalfPairs
    <3> QED BY <3>1, <3>2
  <2> QED BY <2>1, <1>1, <1>4
<1>7. CASE n # H /\ n \cap H # {}
  <2>1. PICK x, y : n = {x} /\ H = {x, y} /\ Sibling({x}) = {y} /\ x # y
    <3>1. CASE H = 0..1
      <4>1. n = {0} \/ n = {1} BY <1>2, <1>7, <3>1
      <4>2. H = {0, 1} /\ H = {1, 0} BY <3>1
      <4>3. CASE n = {0}
        BY <4>2, <4>3, SinglePairs
      <4>4. CASE n = {1}
        <5>1. n = {1} /\ H = {1, 0} /\ Sibling({1}) = {0} /\ 1 # 0 BY <4>2, <4>4, SinglePairs
        <5> QED BY <5>1
      <4> QED BY <4>1, <4>3, <4>4
    <3>2. CASE H = 2..3
      <4>1. n = {2} \/ n = {3} BY <1>2, <1>7, <3>2
      <4>2. H = {2, 3} /\ H = {3, 2} BY <3>2
      <4>3. CASE n = {2}
        <5>1. n = {2} /\ H = {2, 3} /\ Sibling({2}) = {3} /\ 2 # 3 BY <4>2, <4>3, SinglePairs
        <5> QED BY <5>1
      <4>4. CASE n = {3}
        <5>1. n = {3} /\ H = {3, 2} /\ Sibling({3}) = {2} /\ 3 # 2 BY <4>2, <4>4, SinglePairs
        <5> QED BY <5>1
      <4> QED BY <4>1, <4>3, <4>4
    <3> QED BY <3>1, <3>2
  <2>2. Cardinality(n) = 1 BY <2>1, FS_Singleton
  <2>3. x \in D /\ y \in D BY <1>1, <2>1, <2>2
  <2>4. ASSUME NEW C \in Halves(H) PROVE C \cap D # {}
    BY BlockElements, <2>1, <2>3 DEF Halves
  <2>5. Cardinality(H) > 1 BY HalfSize
  <2> QED BY <2>4, <2>5, <1>3 DEF IsNode
<1> QED BY <1>5, <1>6, <1>7

\* Of two leaves below a branch each is a node.
LEMMA BothAreNodes ==
  ASSUME NEW T, NEW n \in Blocks, NEW H, H = 0..1 \/ H = 2..3, n \subseteq H, n # H, IsNode(T, n),
         NEW h \in H, h \in DOMAIN T PROVE {h} \in Blocks /\ IsNode(T, {h})
<1> DEFINE D == DOMAIN T
<1>1. PICK x, y : n = {x} /\ H = {x, y} /\ Sibling({x}) = {y} /\ Sibling({y}) = {x}
  <2>1. CASE H = 0..1
    <3>0. H # 0..3
      BY <2>1
    <3>1. n = {0} \/ n = {1} BY <2>1, <3>0, SmallerBlock, BlocksHold
    <3>2. H = {0, 1} /\ H = {1, 0} BY <2>1
    <3>3. CASE n = {0} BY <3>2, <3>3, SinglePairs
    <3>4. CASE n = {1} BY <3>2, <3>4, SinglePairs
    <3> QED BY <3>1, <3>3, <3>4
  <2>2. CASE H = 2..3
    <3>0. H # 0..3
      BY <2>2
    <3>1. n = {2} \/ n = {3} BY <2>2, <3>0, SmallerBlock, BlocksHold
    <3>2. H = {2, 3} /\ H = {3, 2} BY <2>2
    <3>3. CASE n = {2} BY <3>2, <3>3, SinglePairs
    <3>4. CASE n = {3} BY <3>2, <3>4, SinglePairs
    <3> QED BY <3>1, <3>3, <3>4
  <2> QED BY <2>1, <2>2
<1>2. Cardinality(n) = 1 /\ n # HashSpace
  <2>1. Cardinality(n) = 1 BY <1>1, FS_Singleton
  <2>2. 0 \in HashSpace /\ 1 \in HashSpace BY DEF HashSpace
  <2>3. n # HashSpace
    <3>1. ASSUME n = HashSpace PROVE FALSE
      BY <1>1, <2>2, <3>1
    <3> QED BY <3>1
  <2> QED BY <2>1, <2>3
<1>3. x \in D /\ y \in D
  BY <1>2, <1>1 DEF IsNode
<1>4. h = x \/ h = y BY <1>1
<1>5. Sibling({h}) \cap D # {} BY <1>1, <1>3, <1>4
<1>6. {h} \in Blocks
  BY BlocksHold
<1> QED BY <1>5, <1>6 DEF IsNode

\* Where a node has children, each of its leaves is under one.
LEMMA LeafBelow ==
  ASSUME NEW q, TreeNode(q), Children(q) # {}, NEW h \in DOMAIN q[2]
  PROVE \E c \in Children(q) : h \in DOMAIN c[2] /\ c[2][h] = q[2][h]
<1>1. q[1] \in Blocks /\ h \in q[1] /\ h \in HashSpace BY BlocksAre DEF TreeNode
<1>2. PICK n \in SubTrie(q) : TRUE BY ChildIs
<1>3. n[1] \in Blocks /\ n[1] \subseteq q[1] /\ n[1] # q[1] /\ IsNode(q[2], n[1]) BY SubIs
<1>4. PICK B \in Blocks : /\ h \in B /\ B \subseteq q[1] /\ B # q[1] /\ IsNode(q[2], B)
                          /\ \A C \in Blocks : B \subseteq C /\ C \subseteq q[1] /\ C # q[1] => C = B
  <2>1. CASE q[1] = 0..3
    <3>1. PICK H : H = (IF h = 0 \/ h = 1 THEN 0..1 ELSE 2..3) OBVIOUS
    <3>2. (H = 0..1 \/ H = 2..3) /\ h \in H /\ H \in Blocks BY <1>1, <3>1, BlocksHold DEF HashSpace
    <3>3. n[1] # HashSpace BY <1>3, <2>1 DEF HashSpace
    <3>4. IsNode(q[2], H) BY <1>3, <3>2, <3>3, HalfIsNode
    <3>5. H # 0..3
      BY <3>2
    <3>6. ASSUME NEW C \in Blocks, H \subseteq C, C # 0..3 PROVE C = H
      <4>1. C # {0} /\ C # {1} /\ C # {2} /\ C # {3}
        BY <3>2, <3>6
      <4>2. C = 0..1 \/ C = 2..3 BY <4>1, <3>6, BlocksAre
      <4> QED BY <4>2, <3>2, <3>6
    <3>7. H \subseteq q[1] BY <3>2, <2>1, BlocksAre
    <3> QED BY <2>1, <3>2, <3>4, <3>5, <3>6, <3>7
  <2>2. CASE q[1] = 0..1 \/ q[1] = 2..3
    <3>1. {h} \in Blocks /\ IsNode(q[2], {h}) BY <1>1, <1>3, <2>2, BothAreNodes
    <3>2. {h} \subseteq q[1] /\ {h} # q[1] BY <1>1, <2>2
    <3>3. ASSUME NEW C \in Blocks, {h} \subseteq C, C \subseteq q[1], C # q[1] PROVE C = {h}
      <4>1. q[1] # 0..3
        BY <2>2
      <4>2. C = {0} \/ C = {1} \/ C = {2} \/ C = {3} BY <1>1, <3>3, <4>1, SmallerBlock
      <4>3. h \in C BY <3>3
      <4>4. PICK x : C = {x} BY <4>2
      <4>5. x = h BY <4>3, <4>4
      <4> QED BY <4>4, <4>5
    <3> DEFINE B == {h}
    <3>4. B \in Blocks /\ h \in B /\ B \subseteq q[1] /\ B # q[1] /\ IsNode(q[2], B) BY <3>1, <3>2
    <3>5. \A C \in Blocks : B \subseteq C /\ C \subseteq q[1] /\ C # q[1] => C = B BY <3>3
    <3> HIDE DEF B
    <3> QED BY <3>4, <3>5
  <2>3. q[1] = 0..3 \/ q[1] = 0..1 \/ q[1] = 2..3 BY <1>1, <1>3, SmallerBlock
  <2> QED BY <2>1, <2>2, <2>3
<1> DEFINE c == <<B, LeavesIn(q[2], B)>>
<1>5. c \in SubTrie(q) BY <1>4, SubHas
<1>6. c[1] = B /\ c[2] = LeavesIn(q[2], B) OBVIOUS
<1>7. h \in DOMAIN c[2] /\ c[2][h] = q[2][h] BY <1>4, <1>6 DEF LeavesIn, Restrict
<1>8. ASSUME NEW m \in SubTrie(q), c[1] \subseteq m[1] PROVE c[1] = m[1]
  BY SubIs, <1>4, <1>6, <1>8
<1>9. c \in Children(q) BY <1>5, <1>8 DEF Children
<1> QED BY <1>7, <1>9

LEMMA AccountsApart == ASSUME NEW h \in HashSpace PROVE h # Accounts BY DEF Accounts, HashSpace

LEMMA RequestIs == ASSUME NEW o, NEW n, n = <<n[1], n[2]>>
  PROVE /\ Request(o, n)[1] = o /\ Request(o, n)[2] = n[1] /\ Request(o, n)[3] = n[2]
        /\ NodeOf(Request(o, n)) = n /\ Request(o, n) = <<o, n[1], n[2]>>
  BY DEF Request, NodeOf

LEMMA RootIs == ASSUME NEW T
  PROVE TrieRoot(T) = <<TrieRoot(T)[1], TrieRoot(T)[2]>> /\ TrieRoot(T)[1] = HashSpace /\ TrieRoot(T)[2] = T
BY DEF TrieRoot

LEMMA NodeIs == ASSUME NEW q PROVE NodeOf(q)[1] = q[2] /\ NodeOf(q)[2] = q[3] /\ NodeOf(q) = <<q[2], q[3]>>
BY DEF NodeOf

\* Children of a node are nodes, and their leaves the same.
LEMMA ChildNode == ASSUME NEW n, TreeNode(n), NEW c \in Children(n)
  PROVE TreeNode(c) /\ DOMAIN c[2] \subseteq DOMAIN n[2] /\ \A h \in DOMAIN c[2] : c[2][h] = n[2][h]
<1>1. c \in SubTrie(n) BY ChildIs
<1>2. /\ c = <<c[1], c[2]>> /\ c[1] \in Blocks /\ c[2] = LeavesIn(n[2], c[1])
      /\ DOMAIN c[2] = c[1] \cap DOMAIN n[2] /\ \A h \in DOMAIN c[2] : c[2][h] = n[2][h]
  BY <1>1, SubIs
<1>3. c[2] = [h \in DOMAIN c[2] |-> c[2][h]] BY <1>2 DEF LeavesIn, Restrict
<1>4. DOMAIN c[2] \subseteq 0..3 BY <1>2 DEF TreeNode, Trie
<1> QED BY <1>2, <1>3, <1>4 DEF TreeNode, Trie

\* What a request leads to are requests of the same kind.
LEMMA ChildSound == ASSUME NEW q, ReqSound(q), NEW c \in Children(NodeOf(q))
  PROVE /\ TreeNode(c) /\ ReqSound(Request(q[1], c)) /\ NodeOf(Request(q[1], c)) = c
        /\ DOMAIN c[2] \subseteq DOMAIN q[3] /\ \A h \in DOMAIN c[2] : c[2][h] = q[3][h]
<1>1. TreeNode(c) /\ DOMAIN c[2] \subseteq DOMAIN q[3] /\ \A h \in DOMAIN c[2] : c[2][h] = q[3][h]
  BY ChildNode, NodeIs DEF ReqSound
<1> DEFINE r == Request(q[1], c)
<1>2. r[1] = q[1] /\ r[2] = c[1] /\ r[3] = c[2] /\ NodeOf(r) = c /\ r = <<r[1], r[2], r[3]>>
  BY <1>1, RequestIs DEF TreeNode
<1> HIDE DEF r
<1>3. ASSUME r[1] = Accounts, NEW h \in DOMAIN r[3] PROVE Trie(r[3][h].root) BY <1>1, <1>2, <1>3 DEF ReqSound
<1>4. r[1] \in HashSpace \cup {Accounts} BY <1>2 DEF ReqSound
<1>5. ReqSound(r) BY <1>1, <1>2, <1>3, <1>4 DEF ReqSound
<1> QED BY <1>1, <1>2, <1>5 DEF r

LEMMA RootSound == ASSUME NEW T, Trie(T), NEW o \in HashSpace
  PROVE ReqSound(Request(o, TrieRoot(T))) /\ NodeOf(Request(o, TrieRoot(T))) = TrieRoot(T)
<1> DEFINE r == Request(o, TrieRoot(T))
<1>1. r[1] = o /\ r[2] = HashSpace /\ r[3] = T /\ NodeOf(r) = TrieRoot(T) /\ r = <<r[1], r[2], r[3]>>
  BY RequestIs, RootIs
<1> HIDE DEF r
<1>2. TreeNode(NodeOf(r)) BY <1>1, RootIs, BlocksHold DEF TreeNode, Trie, HashSpace
<1>3. ReqSound(r) BY <1>1, <1>2, AccountsApart DEF ReqSound
<1> QED BY <1>1, <1>3 DEF r

\* More on disk, and what is not among the requests any more is there.
LEMMA CoveredMore ==
  ASSUME NEW q, NEW disc, NEW new, disc.accounts \subseteq new.accounts, disc.slots \subseteq new.slots,
         NEW R, NEW R2, \A r \in R : r \in R2 \/ On(new, r[1], NodeOf(r)),
         NEW C, NEW C2, C \subseteq C2, NEW W, NEW W2, \A w \in W : w \in W2 \/ w[1] \in C2,
         Covered(q, disc, R, C, W) PROVE Covered(q, new, R2, C2, W2)
<1>1. ASSUME NEW o, NEW n, On(disc, o, n) PROVE On(new, o, n) BY <1>1 DEF On
<1>2. ASSUME NEW o, NEW n, n = <<n[1], n[2]>>, On(disc, o, n) \/ Request(o, n) \in R
      PROVE On(new, o, n) \/ Request(o, n) \in R2
  BY <1>2, RequestIs, <1>1
<1>3. ASSUME NEW c \in Children(NodeOf(q)) PROVE On(new, q[1], c) \/ Request(q[1], c) \in R2
  BY ChildIs, SubIs, <1>2 DEF Covered
<1>4. ASSUME q[1] = Accounts, Children(NodeOf(q)) = {}, NEW h \in DOMAIN q[3]
      PROVE /\ q[3][h].root # NoLeaves =>
                 On(new, h, TrieRoot(q[3][h].root)) \/ Request(h, TrieRoot(q[3][h].root)) \in R2
            /\ q[3][h].code \in C2 \cup {NoCode} \/ <<q[3][h].code, h>> \in W2
  <2> DEFINE code == q[3][h].code
             root == q[3][h].root
  <2>1. /\ root # NoLeaves => On(disc, h, TrieRoot(root)) \/ Request(h, TrieRoot(root)) \in R
        /\ code \in C \cup {NoCode} \/ <<code, h>> \in W
    BY <1>4 DEF Covered
  <2>2. TrieRoot(root) = <<TrieRoot(root)[1], TrieRoot(root)[2]>> BY RootIs
  <2>3. <<code, h>>[1] = code OBVIOUS
  <2> HIDE DEF code, root
  <2>4. code \in C2 \cup {NoCode} \/ <<code, h>> \in W2 BY <2>1, <2>3
  <2>5. root # NoLeaves => On(new, h, TrieRoot(root)) \/ Request(h, TrieRoot(root)) \in R2 BY <2>1, <2>2, <1>2
  <2> QED BY <2>4, <2>5 DEF code, root
<1> QED BY <1>3, <1>4 DEF Covered

\* The disk with what the walk has committed.
FlushedOn(w, disc, new) ==
  /\ new.accounts = disc.accounts \cup {NodeOf(r) : r \in {q \in w.mem : q[1] = Accounts}}
  /\ new.slots = disc.slots \cup {NodeOf(r) : r \in {q \in w.mem : q[1] # Accounts}}
  /\ new.codes = disc.codes \cup w.memCodes

LEMMA FlushedHas == ASSUME NEW w, NEW disc, NEW new, FlushedOn(w, disc, new)
  PROVE /\ disc.accounts \subseteq new.accounts /\ disc.slots \subseteq new.slots /\ disc.codes \subseteq new.codes
        /\ w.memCodes \subseteq new.codes
        /\ \A r \in w.mem : On(new, r[1], NodeOf(r))
  BY DEF FlushedOn, On

LEMMA HeldMore == ASSUME NEW a, NEW S, NEW S2, S \subseteq S2, NEW C, NEW C2, C \subseteq C2, HeldIn(a, S, C)
  PROVE HeldIn(a, S2, C2) BY DEF HeldIn, SlotsIn

\* What is committed is whole, so that it may be written.
LEMMA FlushWhole ==
  ASSUME NEW w, NEW disc, NEW new, WalkSound(w, disc), DiskWhole(disc), FlushedOn(w, disc, new) PROVE DiskWhole(new)
<1>1. /\ disc.accounts \subseteq new.accounts /\ disc.slots \subseteq new.slots /\ disc.codes \subseteq new.codes
      /\ w.memCodes \subseteq new.codes /\ \A r \in w.mem : On(new, r[1], NodeOf(r))
  BY FlushedHas
<1>2. ASSUME NEW o, NEW n, On(disc, o, n) PROVE On(new, o, n) BY <1>1, <1>2 DEF On
<1>3. ASSUME NEW q \in w.mem PROVE ReqSound(q) /\ Covered(q, disc, w.mem, disc.codes \cup w.memCodes, {})
  BY DEF WalkSound
<1>4. ASSUME NEW q \in w.mem, NEW c \in Children(NodeOf(q))
      PROVE On(disc, q[1], c) \/ (Request(q[1], c) \in w.mem /\ NodeOf(Request(q[1], c)) = c /\ Request(q[1], c)[1] = q[1])
  BY <1>3, ChildIs, SubIs, RequestIs DEF Covered
<1>5. ASSUME NEW q \in w.mem, NEW c \in Children(NodeOf(q)) PROVE On(new, q[1], c) BY <1>1, <1>2, <1>4
<1>6. ASSUME NEW o, NEW c, On(disc, o, c), NEW n \in SubTrie(c) PROVE On(disc, o, n) BY <1>6 DEF DiskWhole, On
<1>7. ASSUME NEW q \in w.mem, NEW n \in SubTrie(NodeOf(q)) PROVE On(new, q[1], n)
  <2>1. NodeOf(q)[1] \in Blocks BY <1>3 DEF ReqSound, TreeNode
  <2>2. CASE n \in Children(NodeOf(q)) BY <2>2, <1>5
  <2>3. CASE \E c \in Children(NodeOf(q)) : n \in Children(c)
    <3>1. PICK c \in Children(NodeOf(q)) : n \in Children(c) BY <2>3
    <3>2. CASE On(disc, q[1], c)
      BY <3>1, ChildIs, <3>2, <1>2, <1>6
    <3>3. CASE Request(q[1], c) \in w.mem
      <4> DEFINE r == Request(q[1], c)
      <4>1. r \in w.mem /\ NodeOf(r) = c /\ r[1] = q[1]
        BY ChildIs, SubIs, <3>3, RequestIs
      <4> HIDE DEF r
      <4> QED BY <4>1, <3>1, <1>5
    <3> QED BY <3>2, <3>3, <1>4
  <2> QED BY <2>1, <2>2, <2>3, Depth
<1>8. ASSUME NEW n \in new.slots PROVE SubTrie(n) \subseteq new.slots
  <2>1. CASE n \in disc.slots BY <2>1, <1>1 DEF DiskWhole
  <2>2. CASE n \notin disc.slots
    <3>1. PICK q \in w.mem : q[1] # Accounts /\ n = NodeOf(q) BY <2>2 DEF FlushedOn
    <3> QED BY <3>1, <1>7 DEF On
  <2> QED BY <2>1, <2>2
<1>9. ASSUME NEW q \in w.mem, q[1] = Accounts, Children(NodeOf(q)) = {}, NEW h \in DOMAIN q[3]
      PROVE HeldIn(q[3][h], new.slots, new.codes)
  <2> DEFINE a == q[3][h]
  <2>1. /\ a.root # NoLeaves => On(disc, h, TrieRoot(a.root)) \/ Request(h, TrieRoot(a.root)) \in w.mem
        /\ a.code \in disc.codes \cup w.memCodes \cup {NoCode}
    BY <1>3, <1>9 DEF Covered
  <2>2. Trie(a.root) /\ h \in HashSpace
    BY <1>3, NodeIs, <1>9, BlocksAre DEF ReqSound, TreeNode
  <2> HIDE DEF a
  <2>3. a.code \in new.codes \cup {NoCode} BY <2>1, <1>1
  <2>4. ASSUME a.root # NoLeaves PROVE TrieNodes(a.root) \subseteq new.slots
    <3>1. On(new, h, TrieRoot(a.root))
      <4>1. CASE On(disc, h, TrieRoot(a.root)) BY <4>1, <1>2
      <4>2. CASE Request(h, TrieRoot(a.root)) \in w.mem
        <5> DEFINE r == Request(h, TrieRoot(a.root))
        <5>1. r \in w.mem /\ NodeOf(r) = TrieRoot(a.root) /\ r[1] = h BY <4>2, RequestIs, RootIs
        <5> HIDE DEF r
        <5>2. On(new, r[1], NodeOf(r)) BY <5>1, <1>1
        <5> QED BY <5>1, <5>2
      <4> QED BY <2>1, <2>4, <4>1, <4>2
    <3>2. TrieRoot(a.root) \in new.slots BY <3>1, <2>2, AccountsApart DEF On
    <3> QED BY <3>2, <2>2, <1>8, RootHolds
  <2> QED BY <2>3, <2>4 DEF a, HeldIn, SlotsIn
<1>10. ASSUME NEW c \in disc.accounts, NEW h \in DOMAIN c[2] PROVE HeldIn(c[2][h], new.slots, new.codes)
  BY <1>1, HeldMore DEF DiskWhole
<1>11. ASSUME NEW q \in w.mem, q[1] = Accounts, NEW h \in DOMAIN q[3] PROVE HeldIn(q[3][h], new.slots, new.codes)
  <2>0. TreeNode(NodeOf(q)) /\ NodeOf(q)[2] = q[3] /\ NodeOf(q)[1] \in Blocks BY <1>3, NodeIs DEF ReqSound, TreeNode
  <2>1. CASE Children(NodeOf(q)) = {} BY <2>1, <1>9, <1>11
  <2>2. CASE Children(NodeOf(q)) # {}
    <3>1. PICK c \in Children(NodeOf(q)) : h \in DOMAIN c[2] /\ c[2][h] = q[3][h] BY <2>0, <2>2, <1>11, LeafBelow
    <3>2. CASE On(disc, q[1], c) BY <3>1, <3>2, <1>10, <1>11 DEF On
    <3>3. CASE Request(q[1], c) \in w.mem
      <4> DEFINE r == Request(q[1], c)
      <4>1. r \in w.mem /\ NodeOf(r) = c /\ r[1] = Accounts /\ r[3] = c[2] /\ TreeNode(c)
        BY <3>1, <2>0, ChildNode, <3>3, <1>11, RequestIs DEF TreeNode
      <4> HIDE DEF r
      <4>2. CASE Children(c) = {}
        BY <4>1, <4>2, <3>1, <1>9
      <4>3. CASE Children(c) # {}
        <5>1. PICK d \in Children(c) : h \in DOMAIN d[2] /\ d[2][h] = c[2][h] BY <4>1, <4>3, <3>1, LeafBelow
        <5>2. Children(d) = {}
          BY <3>1, <5>1, ChildIs, <2>0, NoThirdLevel
        <5>3. d \in Children(NodeOf(r)) BY <4>1, <5>1
        <5>4. CASE On(disc, r[1], d)
          BY <5>4, <4>1, <5>1, <1>10, <3>1 DEF On
        <5>5. CASE Request(r[1], d) \in w.mem
          <6> DEFINE s == Request(r[1], d)
          <6>1. s \in w.mem /\ NodeOf(s) = d /\ s[1] = Accounts /\ s[3] = d[2]
            BY <5>1, ChildIs, SubIs, <5>5, <4>1, RequestIs
          <6> HIDE DEF s
          <6>2. HeldIn(s[3][h], new.slots, new.codes) BY <6>1, <5>1, <5>2, <1>9
          <6> QED BY <6>2, <6>1, <5>1, <3>1
        <5> QED BY <5>3, <5>4, <5>5, <4>1, <1>4
      <4> QED BY <4>2, <4>3
    <3> QED BY <3>2, <3>3, <1>4
  <2> QED BY <2>1, <2>2
<1>12. ASSUME NEW n \in new.accounts
       PROVE SubTrie(n) \subseteq new.accounts /\ \A h \in DOMAIN n[2] : HeldIn(n[2][h], new.slots, new.codes)
  <2>1. CASE n \in disc.accounts
    BY <2>1, <1>1, <1>10 DEF DiskWhole
  <2>2. CASE n \notin disc.accounts
    <3>1. PICK q \in w.mem : q[1] = Accounts /\ n = NodeOf(q) BY <2>2 DEF FlushedOn
    <3>2. n[2] = q[3] BY <3>1, NodeIs
    <3>3. SubTrie(n) \subseteq new.accounts BY <3>1, <1>7 DEF On
    <3> QED BY <3>1, <3>2, <3>3, <1>11
  <2> QED BY <2>1, <2>2
<1> QED BY <1>8, <1>12 DEF DiskWhole

\* A walk in a record of its fields.
LEMMA WalkMore ==
  ASSUME NEW w, NEW disc, NEW new, WalkSound(w, disc), disc.accounts \subseteq new.accounts,
         disc.slots \subseteq new.slots, disc.codes \subseteq new.codes PROVE WalkSound(w, new)
<1> DEFINE R == w.reqs \cup w.mem
           C == disc.codes \cup w.memCodes
           D == new.codes \cup w.memCodes
<1>1. C \subseteq D OBVIOUS
<1> HIDE DEF C, D, R
<1>2. ASSUME NEW q \in w.got PROVE Covered(q, new, R, D, w.waits)
  BY <1>1, CoveredMore DEF WalkSound, R, C
<1>3. ASSUME NEW q \in w.mem PROVE Covered(q, new, w.mem, D, {})
  BY <1>1, CoveredMore DEF WalkSound, C
<1> QED BY <1>2, <1>3 DEF WalkSound, R, D

\* After a flush the walk goes on with what is on disk.
LEMMA WalkFlushed ==
  ASSUME NEW w, NEW disc, NEW new, WalkSound(w, disc), FlushedOn(w, disc, new),
         NEW v, DOMAIN v = WalkFields, v.reqs = w.reqs, v.got = w.got, v.waits = w.waits,
         v.mem = {}, v.memCodes = {} PROVE WalkSound(v, new)
<1>1. /\ disc.accounts \subseteq new.accounts /\ disc.slots \subseteq new.slots /\ disc.codes \subseteq new.codes
      /\ w.memCodes \subseteq new.codes /\ \A r \in w.mem : On(new, r[1], NodeOf(r))
  BY FlushedHas
<1> DEFINE R == w.reqs \cup w.mem
           C == disc.codes \cup w.memCodes
           R2 == v.reqs \cup v.mem
           D == new.codes \cup v.memCodes
<1>2. C \subseteq D BY <1>1
<1>3. \A r \in R : r \in R2 \/ On(new, r[1], NodeOf(r)) BY <1>1
<1> HIDE DEF C, D, R, R2
<1>4. ASSUME NEW q \in v.got PROVE Covered(q, new, R2, D, v.waits)
  BY <1>1, <1>2, <1>3, CoveredMore DEF WalkSound, R, C
<1>5. \A q \in v.reqs \cup v.mem : ReqSound(q) BY DEF WalkSound
<1>6. v.got \subseteq v.reqs BY DEF WalkSound
<1> QED BY <1>4, <1>5, <1>6 DEF WalkSound, R2, D

\* What is under what is under a request.
LEMMA UnderUnder == ASSUME NEW q, NEW r, NEW s, Under(r, q), Under(s, r), q[1] = Accounts \/ q[1] = r[1],
                           r[1] = Accounts => r[2] \subseteq q[2] /\ q[1] = Accounts
  PROVE Under(s, q) BY DEF Under

\* Committing whole subtrees.
LEMMA CommitSound ==
  ASSUME NEW w, NEW disc, WalkSound(w, disc)
  PROVE /\ WalkSound(Committed(w), disc)
        /\ Committed(w).reqs \cup Committed(w).mem = w.reqs \cup w.mem
        /\ Committed(w).mem \cap w.mem = w.mem
<1> DEFINE whole == {q \in w.got : /\ \A r \in w.reqs : Under(r, q) => r \in w.got
                                   /\ \A x \in w.waits : q[1] = Accounts => x[2] \notin q[2]}
           v == [w EXCEPT !.reqs = @ \ whole, !.got = @ \ whole, !.mem = @ \cup whole]
           C == disc.codes \cup w.memCodes
<1>1. Committed(w) = v BY DEF Committed
<1>2. DOMAIN w = WalkFields /\ w.got \subseteq w.reqs /\ \A q \in w.reqs \cup w.mem : ReqSound(q) BY DEF WalkSound
<1>3. whole \subseteq w.got OBVIOUS
<1>4. ASSUME NEW q \in whole PROVE /\ \A r \in w.reqs : Under(r, q) => r \in w.got
                                   /\ \A x \in w.waits : q[1] = Accounts => x[2] \notin q[2]
  OBVIOUS
<1>5. ASSUME NEW r \in w.got, \A s \in w.reqs : Under(s, r) => s \in w.got,
             \A x \in w.waits : r[1] = Accounts => x[2] \notin r[2] PROVE r \in whole BY <1>5
<1> HIDE DEF whole
<1>6. /\ DOMAIN v = WalkFields /\ v.reqs = w.reqs \ whole /\ v.got = w.got \ whole
      /\ v.mem = w.mem \cup whole /\ v.waits = w.waits /\ v.memCodes = w.memCodes
  BY <1>2 DEF WalkFields
<1> HIDE DEF v
<1>7. v.reqs \cup v.mem = w.reqs \cup w.mem /\ v.got \subseteq v.reqs BY <1>2, <1>3, <1>6
<1>8. ASSUME NEW q \in w.got PROVE Covered(q, disc, w.reqs \cup w.mem, C, w.waits) BY DEF WalkSound
<1>9. ASSUME NEW q \in whole, NEW r \in w.reqs, Under(r, q), q[1] = Accounts \/ q[1] = r[1],
             r[1] = Accounts => r[2] \subseteq q[2] /\ q[1] = Accounts PROVE r \in whole
  <2>1. r \in w.got BY <1>9, <1>4
  <2>2. ASSUME NEW s \in w.reqs, Under(s, r) PROVE s \in w.got
    BY <1>9, <2>2, UnderUnder, <1>4
  <2>3. ASSUME NEW x \in w.waits, r[1] = Accounts PROVE x[2] \notin r[2] BY <2>3, <1>4, <1>9
  <2> QED BY <2>1, <2>2, <2>3, <1>5
<1>10. ASSUME NEW q \in whole PROVE Covered(q, disc, v.mem, C, {})
  <2>1. q \in w.got /\ ReqSound(q) /\ Covered(q, disc, w.reqs \cup w.mem, C, w.waits) BY <1>2, <1>3, <1>8
  <2>2. ASSUME NEW c \in Children(NodeOf(q)), Request(q[1], c) \in w.reqs PROVE Request(q[1], c) \in whole
    <3> DEFINE r == Request(q[1], c)
    <3>1. c = <<c[1], c[2]>> /\ c[1] \subseteq q[2] BY ChildIs, SubIs, NodeIs
    <3>2. r[1] = q[1] /\ r[2] = c[1] /\ r \in w.reqs BY <3>1, <2>2, RequestIs
    <3> HIDE DEF r
    <3>3. Under(r, q) BY <3>1, <3>2 DEF Under
    <3>4. r \in whole BY <3>1, <3>2, <3>3, <1>9
    <3> QED BY <3>4 DEF r
  <2>3. ASSUME NEW c \in Children(NodeOf(q)) PROVE On(disc, q[1], c) \/ Request(q[1], c) \in v.mem
    BY <2>1, <2>2, <1>6 DEF Covered
  <2>4. ASSUME q[1] = Accounts, Children(NodeOf(q)) = {}, NEW h \in DOMAIN q[3]
        PROVE /\ q[3][h].root # NoLeaves =>
                   On(disc, h, TrieRoot(q[3][h].root)) \/ Request(h, TrieRoot(q[3][h].root)) \in v.mem
              /\ q[3][h].code \in C \cup {NoCode}
    <3> DEFINE root == q[3][h].root
               code == q[3][h].code
               r == Request(h, TrieRoot(root))
    <3>1. /\ root # NoLeaves => On(disc, h, TrieRoot(root)) \/ Request(h, TrieRoot(root)) \in w.reqs \cup w.mem
          /\ code \in C \cup {NoCode} \/ <<code, h>> \in w.waits
      BY <2>1, <2>4 DEF Covered
    <3>2. h \in q[2] /\ h \in HashSpace
      BY <2>1, NodeIs, <2>4, BlocksAre DEF ReqSound, TreeNode
    <3>3. r[1] = h BY RequestIs, RootIs
    <3>4. <<code, h>>[2] = h OBVIOUS
    <3> HIDE DEF root, code
    <3>5. code \in C \cup {NoCode} BY <3>1, <3>2, <3>4, <2>4, <1>4
    <3>6. r = Request(h, TrieRoot(root)) OBVIOUS
    <3> HIDE DEF r
    <3>7. ASSUME r \in w.reqs PROVE r \in whole
      BY <3>2, <3>3, <2>4, AccountsApart, <3>7, <1>9 DEF Under
    <3>8. root # NoLeaves => On(disc, h, TrieRoot(root)) \/ Request(h, TrieRoot(root)) \in v.mem
      BY <3>1, <3>6, <3>7, <1>6
    <3> QED BY <3>5, <3>8 DEF root, code
  <2> QED BY <2>3, <2>4 DEF Covered
<1>11. ASSUME NEW q \in w.mem PROVE Covered(q, disc, v.mem, C, {})
  <2>1. Covered(q, disc, w.mem, C, {}) BY DEF WalkSound
  <2>2. \A r \in w.mem : r \in v.mem \/ On(disc, r[1], NodeOf(r)) BY <1>6
  <2>3. \A x \in {} : x \in {} \/ x[1] \in C OBVIOUS
  <2> HIDE DEF C
  <2> QED BY <2>1, <2>2, <2>3, CoveredMore
<1>12. WalkSound(v, disc)
  BY <1>6, <1>10, <1>11, <1>7, <1>8, <1>2 DEF WalkSound
<1>13. v.mem \cap w.mem = w.mem BY <1>6
<1> QED BY <1>1, <1>7, <1>12, <1>13

\* The walk after a node came.
Fetched(req) ==
  [healer EXCEPT !.reqs = @ \cup Missing(req), !.got = @ \cup {req},
                 !.codes = @ \cup {p[1] : p \in MissingCodes(req)}, !.waits = @ \cup MissingCodes(req)]

LEMMA FetchSound == ASSUME WalkSound(healer, stored), NEW req \in healer.reqs
  PROVE /\ WalkSound(Fetched(req), stored)
        /\ healer.reqs \cup healer.mem \subseteq Fetched(req).reqs \cup Fetched(req).mem
<1> DEFINE v == Fetched(req)
           M == Missing(req)
           MC == MissingCodes(req)
           C == stored.codes \cup healer.memCodes
<1>1. DOMAIN healer = WalkFields /\ healer.got \subseteq healer.reqs /\ ReqSound(req) BY DEF WalkSound
<1>2. /\ DOMAIN v = WalkFields /\ v.reqs = healer.reqs \cup M /\ v.got = healer.got \cup {req}
      /\ v.waits = healer.waits \cup MC /\ v.mem = healer.mem /\ v.memCodes = healer.memCodes
  BY <1>1 DEF Fetched, WalkFields
<1> HIDE DEF v
<1>3. ASSUME NEW c \in Children(NodeOf(req))
      PROVE On(stored, req[1], c) \/ Request(req[1], c) \in healer.mem \/ Request(req[1], c) \in M
  <2>1. c = <<c[1], c[2]>> BY ChildIs, SubIs
  <2>2. Request(req[1], c)[1] = req[1] /\ NodeOf(Request(req[1], c)) = c BY <2>1, RequestIs
  <2>3. Request(req[1], c) \in {Request(req[1], n) : n \in Children(NodeOf(req))} OBVIOUS
  <2> DEFINE r == Request(req[1], c)
  <2> HIDE DEF r
  <2>4. r[1] = req[1] /\ NodeOf(r) = c /\ r \in {Request(req[1], n) : n \in Children(NodeOf(req))} BY <2>2, <2>3 DEF r
  <2>5. OnDisk(r[1], NodeOf(r)) \/ r \in healer.mem \/ r \in M BY <2>4 DEF Missing
  <2>6. On(stored, req[1], c) \/ r \in healer.mem \/ r \in M BY <2>4, <2>5 DEF On, OnDisk
  <2> QED BY <2>6 DEF r
<1>4. ASSUME req[1] = Accounts, Children(NodeOf(req)) = {}, NEW h \in DOMAIN req[3]
      PROVE /\ req[3][h].root # NoLeaves =>
                 \/ On(stored, h, TrieRoot(req[3][h].root))
                 \/ Request(h, TrieRoot(req[3][h].root)) \in healer.mem
                 \/ Request(h, TrieRoot(req[3][h].root)) \in M
            /\ req[3][h].code \in C \cup {NoCode} \/ <<req[3][h].code, h>> \in MC
  <2> DEFINE r == Request(h, TrieRoot(req[3][h].root))
  <2>1. r[1] = h /\ NodeOf(r) = TrieRoot(req[3][h].root) BY RequestIs, RootIs
  <2>2. {Request(req[1], n) : n \in Children(NodeOf(req))} = {} BY <1>4
  <2>3. ASSUME req[3][h].root # NoLeaves
        PROVE r \in {Request(g, TrieRoot(req[3][g].root)) : g \in {i \in DOMAIN req[3] : req[3][i].root # NoLeaves}}
    BY <1>4, <2>3
  <2> HIDE DEF r
  <2>4. ASSUME req[3][h].root # NoLeaves PROVE OnDisk(r[1], NodeOf(r)) \/ r \in healer.mem \/ r \in M
    BY <1>4, <2>2, <2>3, <2>4 DEF Missing
  <2>5. ASSUME req[3][h].root # NoLeaves
        PROVE On(stored, h, TrieRoot(req[3][h].root)) \/ r \in healer.mem \/ r \in M BY <2>1, <2>4, <2>5 DEF On, OnDisk
  <2>6. req[3][h].code \in C \cup {NoCode} \/ <<req[3][h].code, h>> \in MC BY <1>4 DEF MissingCodes
  <2> QED BY <2>5, <2>6 DEF r
<1>5. \A r \in M : ReqSound(r)
  <2>1. ASSUME NEW r \in M PROVE ReqSound(r)
    <3>1. \/ r \in {Request(req[1], n) : n \in Children(NodeOf(req))}
          \/ /\ req[1] = Accounts
             /\ r \in {Request(g, TrieRoot(req[3][g].root)) : g \in {i \in DOMAIN req[3] : req[3][i].root # NoLeaves}}
      BY DEF Missing
    <3>2. CASE r \in {Request(req[1], n) : n \in Children(NodeOf(req))} BY <3>2, <1>1, ChildSound
    <3>3. CASE /\ req[1] = Accounts
               /\ r \in {Request(g, TrieRoot(req[3][g].root)) : g \in {i \in DOMAIN req[3] : req[3][i].root # NoLeaves}}
      <4>1. PICK g \in DOMAIN req[3] : r = Request(g, TrieRoot(req[3][g].root)) BY <3>3
      <4>2. Trie(req[3][g].root) BY <3>3, <1>1 DEF ReqSound
      <4>3. g \in HashSpace
        BY <1>1, NodeIs, BlocksAre DEF ReqSound, TreeNode
      <4> QED BY <4>1, <4>2, <4>3, RootSound
    <3> QED BY <3>1, <3>2, <3>3
  <2> QED BY <2>1
<1> DEFINE R == healer.reqs \cup healer.mem
           R2 == v.reqs \cup v.mem
<1>6. R \subseteq R2 /\ M \subseteq R2 /\ healer.mem \subseteq R2 BY <1>2
<1> HIDE DEF M, MC
<1>7. ASSUME NEW q \in v.got PROVE Covered(q, stored, R2, C, v.waits)
  <2>1. CASE q \in healer.got
    <3>1. Covered(q, stored, R, C, healer.waits) BY <2>1 DEF WalkSound
    <3>2. \A r \in R : r \in R2 \/ On(stored, r[1], NodeOf(r)) BY <1>6
    <3>3. \A x \in healer.waits : x \in v.waits \/ x[1] \in C BY <1>2
    <3> HIDE DEF R, R2, C
    <3> QED BY <3>1, <3>2, <3>3, CoveredMore
  <2>2. CASE q = req
    <3> HIDE DEF R2, C
    <3>1. ASSUME NEW c \in Children(NodeOf(q)) PROVE On(stored, q[1], c) \/ Request(q[1], c) \in R2 BY <2>2, <1>3, <1>6
    <3>2. ASSUME q[1] = Accounts, Children(NodeOf(q)) = {}, NEW h \in DOMAIN q[3]
          PROVE /\ q[3][h].root # NoLeaves =>
                     On(stored, h, TrieRoot(q[3][h].root)) \/ Request(h, TrieRoot(q[3][h].root)) \in R2
                /\ q[3][h].code \in C \cup {NoCode} \/ <<q[3][h].code, h>> \in v.waits
      BY <2>2, <3>2, <1>2, <1>4, <1>6
    <3> QED BY <3>1, <3>2 DEF Covered
  <2> QED BY <2>1, <2>2, <1>2
<1>8. \A q \in v.mem : Covered(q, stored, v.mem, C, {}) BY <1>2 DEF WalkSound
<1>9. \A q \in R2 : ReqSound(q) BY <1>2, <1>5 DEF WalkSound
<1>10. v.got \subseteq v.reqs BY <1>1, <1>2
<1>11. WalkSound(v, stored) BY <1>2, <1>7, <1>8, <1>9, <1>10 DEF WalkSound
<1> QED BY <1>6, <1>11 DEF v

\* The walk after a code came.
CodeFetched(code) ==
  [healer EXCEPT !.codes = @ \ {code}, !.waits = {w \in @ : w[1] # code}, !.memCodes = @ \cup {code}]

LEMMA CodeSound == ASSUME WalkSound(healer, stored), NEW code
  PROVE /\ WalkSound(CodeFetched(code), stored)
        /\ CodeFetched(code).reqs = healer.reqs /\ CodeFetched(code).mem = healer.mem
<1> DEFINE v == CodeFetched(code)
           C == stored.codes \cup healer.memCodes
           C2 == stored.codes \cup v.memCodes
<1>1. DOMAIN healer = WalkFields /\ healer.got \subseteq healer.reqs BY DEF WalkSound
<1>2. /\ DOMAIN v = WalkFields /\ v.reqs = healer.reqs /\ v.got = healer.got /\ v.mem = healer.mem
      /\ v.waits = {w \in healer.waits : w[1] # code} /\ v.memCodes = healer.memCodes \cup {code}
  BY <1>1 DEF CodeFetched, WalkFields
<1> HIDE DEF v
<1>3. C \subseteq C2 /\ \A x \in healer.waits : x \in v.waits \/ x[1] \in C2 BY <1>2
<1>4. ASSUME NEW q \in v.got PROVE Covered(q, stored, v.reqs \cup v.mem, C2, v.waits)
  <2>1. Covered(q, stored, v.reqs \cup v.mem, C, healer.waits) BY <1>2 DEF WalkSound
  <2>2. \A r \in v.reqs \cup v.mem : r \in v.reqs \cup v.mem \/ On(stored, r[1], NodeOf(r)) OBVIOUS
  <2> HIDE DEF C, C2
  <2> QED BY <1>3, <2>1, <2>2, CoveredMore
<1>5. ASSUME NEW q \in v.mem PROVE Covered(q, stored, v.mem, C2, {})
  <2>1. Covered(q, stored, v.mem, C, {}) BY <1>2 DEF WalkSound
  <2>2. \A r \in v.mem : r \in v.mem \/ On(stored, r[1], NodeOf(r)) OBVIOUS
  <2>3. \A x \in {} : x \in {} \/ x[1] \in C2 OBVIOUS
  <2> HIDE DEF C, C2
  <2> QED BY <1>3, <2>1, <2>2, <2>3, CoveredMore
<1>6. WalkSound(v, stored) BY <1>1, <1>2, <1>4, <1>5 DEF WalkSound
<1> QED BY <1>2, <1>6 DEF v

LEMMA NoHealerIs ==
  /\ DOMAIN NoHealer = WalkFields
  /\ NoHealer.reqs = {} /\ NoHealer.got = {} /\ NoHealer.waits = {} /\ NoHealer.mem = {} /\ NoHealer.memCodes = {}
BY DEF NoHealer, WalkFields

LEMMA EmptyWalk == ASSUME NEW disc PROVE WalkSound(NoHealer, disc) BY NoHealerIs DEF WalkSound

\* A walk begins at the root.
LEMMA WalkBegins ==
  ASSUME NEW S, Trie(S), \A h \in DOMAIN S : Trie(S[h].root)
  PROVE WalkSound(NewHealer(S), stored) /\ RootSought(NewHealer(S), stored, S)
        /\ NewHealer(S).mem = {}
<1> DEFINE v == NewHealer(S)
           r == Request(Accounts, TrieRoot(S))
           R == IF TrieRoot(S) \in stored.accounts THEN {} ELSE {r}
<1>1. v = [NoHealer EXCEPT !.reqs = R] BY DEF NewHealer
<1>2. DOMAIN v = WalkFields /\ v.reqs = R /\ v.got = {} /\ v.mem = {} BY <1>1, NoHealerIs DEF WalkFields
<1> HIDE DEF v
<1>3. r[1] = Accounts /\ r[2] = HashSpace /\ r[3] = S /\ NodeOf(r) = TrieRoot(S) /\ r = <<r[1], r[2], r[3]>>
  BY RequestIs, RootIs
<1> HIDE DEF r
<1>4. ReqSound(r)
  <2>0. HashSpace \in Blocks BY BlocksHold DEF HashSpace
  <2>1. DOMAIN S \subseteq HashSpace BY DEF Trie, HashSpace
  <2>2. TreeNode(TrieRoot(S)) BY <2>0, <2>1, RootIs DEF TreeNode
  <2>3. TreeNode(NodeOf(r)) BY <2>2, <1>3
  <2> QED BY <2>3, <1>3 DEF ReqSound
<1>5. WalkSound(v, stored) BY <1>2, <1>4 DEF WalkSound
<1>6. RootSought(v, stored, S) BY <1>2 DEF RootSought, r
<1> QED BY <1>2, <1>5, <1>6 DEF v

\* Sets of hashes are finite.
LEMMA HashesFinite == ASSUME NEW A, A \subseteq HashSpace PROVE IsFiniteSet(A) /\ Cardinality(A) \in Nat
<1>0. ASSUME NEW a \in Int, NEW b \in Int PROVE IsFiniteSet(a..b) BY FS_Interval
<1>1. IsFiniteSet(HashSpace)
  <2>1. 0 \in Int /\ 3 \in Int /\ HashSpace = 0..3 BY DEF HashSpace
  <2> QED BY <2>1, <1>0
<1> QED BY <1>1, FS_Subset, FS_CardinalityType

LEMMA HashesLess == ASSUME NEW A, A \subseteq HashSpace, NEW B, B \subseteq A
  PROVE Cardinality(A \ B) = Cardinality(A) - Cardinality(B) /\ Cardinality(A \ B) \in Nat
<1>1. IsFiniteSet(A) /\ IsFiniteSet(B) /\ Cardinality(A) \in Nat /\ Cardinality(B) \in Nat BY HashesFinite
<1>2. Cardinality(A \ B) = Cardinality(A) - Cardinality(A \cap B) BY <1>1, FS_Difference
<1>3. A \cap B = B OBVIOUS
<1>4. A \ B \subseteq HashSpace OBVIOUS
<1>5. Cardinality(A \ B) \in Nat BY <1>4, HashesFinite
<1> QED BY <1>2, <1>3, <1>5

\* The states are tries of accounts.
GoodState(S) == Trie(S) /\ \A h \in DOMAIN S : Trie(S[h].root)

LEMMA StatesGood == ASSUME NEW p \in DOMAIN States PROVE GoodState(States[p]) BY SnapSyncAssumption DEF GoodState

LEMMA HashesIn == ASSUME NEW S, GoodState(S) PROVE DOMAIN S \subseteq HashSpace BY DEF GoodState, Trie, HashSpace

\* What a task needs it needs of its hashes.
LEMMA NeedsAre == ASSUME NEW k, NEW S, GoodState(S), NEW slots, NEW codes, Working(k, S, slots, codes)
  PROVE /\ k.hashes \subseteq HashSpace /\ k.needCode \subseteq HashSpace /\ k.needState \subseteq HashSpace
        /\ Cardinality(k.needCode) \in Nat /\ Cardinality(k.needState) \in Nat /\ k.pend \in Nat
        /\ k.pend = Cardinality(k.needCode) + Cardinality(k.needState)
        /\ k.pend = 0 => k.needCode = {} /\ k.needState = {}
<1>1. k.hashes \subseteq HashSpace /\ k.needCode \subseteq HashSpace /\ k.needState \subseteq HashSpace
  BY HashesIn DEF Working
<1>2. /\ IsFiniteSet(k.needCode) /\ IsFiniteSet(k.needState)
      /\ Cardinality(k.needCode) \in Nat /\ Cardinality(k.needState) \in Nat
  BY <1>1, HashesFinite
<1>3. k.pend = Cardinality(k.needCode) + Cardinality(k.needState) BY DEF Working
<1>4. ASSUME k.pend = 0 PROVE k.needCode = {} /\ k.needState = {}
  BY <1>2, <1>3, <1>4, FS_EmptySet
<1> QED BY <1>1, <1>2, <1>3, <1>4

\* More on disk does a task no harm.
LEMMA TaskMore ==
  ASSUME NEW k, NEW S, NEW slots, NEW codes, NEW slots2, NEW codes2, slots \subseteq slots2, codes \subseteq codes2
  PROVE /\ Working(k, S, slots, codes) => Working(k, S, slots2, codes2)
        /\ TaskSound(k, S, slots, codes) => TaskSound(k, S, slots2, codes2)
<1>1. ASSUME NEW root, SlotsIn(root, slots) PROVE SlotsIn(root, slots2) BY <1>1 DEF SlotsIn
<1>2. ASSUME Working(k, S, slots, codes) PROVE Working(k, S, slots2, codes2)
  BY <1>2, <1>1 DEF Working
<1>3. ASSUME TaskSound(k, S, slots, codes) PROVE TaskSound(k, S, slots2, codes2)
  <2>1. \A h \in DOMAIN k.gen : HeldIn(k.gen[h], slots2, codes2)
    BY <1>3, HeldMore DEF TaskSound
  <2> QED BY <2>1, <1>2, <1>3 DEF TaskSound
<1> QED BY <1>2, <1>3

LEMMA ForwardedFields == ASSUME NEW k, DOMAIN k = TaskFields
  PROVE LET f == Forwarded(k) IN
        /\ DOMAIN f = TaskFields /\ f.filling = FALSE /\ f.hashes = {} /\ f.needHeal = {}
        /\ f.needCode = k.needCode /\ f.needState = k.needState /\ f.pend = k.pend
        /\ f.codeReqs = k.codeReqs /\ f.stateReqs = k.stateReqs /\ f.subTasks = k.subTasks
        /\ f.gen = [h \in DOMAIN k.gen \cup (Ready(k) \ k.needHeal) |-> IF h \in DOMAIN k.gen THEN k.gen[h] ELSE Account(h)]
BY DEF Forwarded, TaskFields

\* Only accounts that are there go into the trie.
LEMMA ForwardedSound ==
  ASSUME NEW k, DOMAIN k = TaskFields, GoodState(State), NEW slots, NEW codes, Working(k, State, slots, codes),
         \A h \in DOMAIN k.gen : HeldIn(k.gen[h], slots, codes)
  PROVE \A h \in DOMAIN Forwarded(k).gen : HeldIn(Forwarded(k).gen[h], slots, codes)
<1> DEFINE f == Forwarded(k)
<1>1. f.gen = [h \in DOMAIN k.gen \cup (Ready(k) \ k.needHeal) |-> IF h \in DOMAIN k.gen THEN k.gen[h] ELSE Account(h)]
  BY ForwardedFields
<1> HIDE DEF f
<1>2. ASSUME NEW h \in Ready(k) \ k.needHeal PROVE HeldIn(Account(h), slots, codes)
  BY NeedsAre DEF Ready, HashSpace, Working, HeldIn, Account
<1>3. ASSUME NEW h \in DOMAIN f.gen PROVE HeldIn(f.gen[h], slots, codes)
  <2>1. h \in DOMAIN k.gen \cup (Ready(k) \ k.needHeal) BY <1>1
  <2>2. CASE h \in DOMAIN k.gen
    BY <1>1, <2>1, <2>2
  <2>3. CASE h \notin DOMAIN k.gen
    BY <1>1, <2>1, <2>3, <1>2
  <2> QED BY <2>2, <2>3
<1> QED BY <1>3 DEF f

\* What is cleaned away is some of what is in chunks.
LEMMA CleanedFields == ASSUME NEW k, DOMAIN k = TaskFields
  PROVE \E gone \in SUBSET DOMAIN k.subTasks :
        LET c == Cleaned(k) IN
        /\ DOMAIN c = TaskFields /\ DOMAIN c.subTasks = DOMAIN k.subTasks \ gone
        /\ c.needState = k.needState \ gone /\ c.pend = k.pend - Cardinality(gone)
        /\ c.asked = k.asked /\ c.filling = k.filling /\ c.hashes = k.hashes /\ c.needCode = k.needCode
        /\ c.needHeal = k.needHeal /\ c.codeTasks = k.codeTasks /\ c.codeReqs = k.codeReqs
        /\ c.stateTasks = k.stateTasks /\ c.stateReqs = k.stateReqs /\ c.gen = k.gen
<1> DEFINE left(h) == SelectSeq(k.subTasks[h], LAMBDA s : ~s.done)
           gone == {h \in DOMAIN k.subTasks : left(h) = <<>>}
           subs == [h \in DOMAIN k.subTasks \ gone |-> left(h)]
           c == [k EXCEPT !.subTasks = subs, !.needState = @ \ gone, !.pend = @ - Cardinality(gone)]
<1>1. Cleaned(k) = c BY DEF Cleaned
<1>2. gone \in SUBSET DOMAIN k.subTasks /\ DOMAIN subs = DOMAIN k.subTasks \ gone OBVIOUS
<1> HIDE DEF gone, subs
<1>3. /\ DOMAIN c = TaskFields /\ c.subTasks = subs
      /\ c.needState = k.needState \ gone /\ c.pend = k.pend - Cardinality(gone)
      /\ c.asked = k.asked /\ c.filling = k.filling /\ c.hashes = k.hashes /\ c.needCode = k.needCode
      /\ c.needHeal = k.needHeal /\ c.codeTasks = k.codeTasks /\ c.codeReqs = k.codeReqs
      /\ c.stateTasks = k.stateTasks /\ c.stateReqs = k.stateReqs /\ c.gen = k.gen
  BY DEF TaskFields
<1> HIDE DEF c
<1> QED BY <1>1, <1>2, <1>3

LEMMA ReqsHold == ASSUME NEW reqs, NEW h
  PROVE h \in InReqs(reqs) <=> \E req \in reqs : h \in Range(req) BY DEF InReqs

LEMMA CleanedSound ==
  ASSUME NEW k, DOMAIN k = TaskFields, NEW S, GoodState(S), NEW slots, NEW codes, Working(k, S, slots, codes)
  PROVE /\ Working(Cleaned(k), S, slots, codes) /\ DOMAIN Cleaned(k) = TaskFields
        /\ Cleaned(k).gen = k.gen /\ Cleaned(k).filling = k.filling
<1>1. PICK gone \in SUBSET DOMAIN k.subTasks :
        LET c == Cleaned(k) IN
        /\ DOMAIN c = TaskFields /\ DOMAIN c.subTasks = DOMAIN k.subTasks \ gone
        /\ c.needState = k.needState \ gone /\ c.pend = k.pend - Cardinality(gone)
        /\ c.asked = k.asked /\ c.filling = k.filling /\ c.hashes = k.hashes /\ c.needCode = k.needCode
        /\ c.needHeal = k.needHeal /\ c.codeTasks = k.codeTasks /\ c.codeReqs = k.codeReqs
        /\ c.stateTasks = k.stateTasks /\ c.stateReqs = k.stateReqs /\ c.gen = k.gen
  BY CleanedFields
<1> DEFINE c == Cleaned(k)
<1>2. /\ DOMAIN c = TaskFields /\ DOMAIN c.subTasks = DOMAIN k.subTasks \ gone
      /\ c.needState = k.needState \ gone /\ c.pend = k.pend - Cardinality(gone)
      /\ c.asked = k.asked /\ c.filling = k.filling /\ c.hashes = k.hashes /\ c.needCode = k.needCode
      /\ c.needHeal = k.needHeal /\ c.codeTasks = k.codeTasks /\ c.codeReqs = k.codeReqs
      /\ c.stateTasks = k.stateTasks /\ c.stateReqs = k.stateReqs /\ c.gen = k.gen
  BY <1>1
<1> HIDE DEF c
<1>3. StatesQueued(k) /\ gone \subseteq k.needState
  BY DEF Working, StatesQueued
<1>4. c.pend = Cardinality(c.needCode) + Cardinality(c.needState)
  <2>1. Cardinality(k.needState \ gone) = Cardinality(k.needState) - Cardinality(gone) BY <1>3, NeedsAre, HashesLess
  <2>2. Cardinality(gone) \in Nat BY <1>3, NeedsAre, HashesFinite
  <2> QED BY <2>1, <2>2, <1>2, NeedsAre
<1>5. ASSUME NEW h \in c.hashes \ c.needHeal, h \notin c.needState \/ h \in DOMAIN c.subTasks
      PROVE SlotsIn(S[h].root, slots)
  BY <1>2, <1>5 DEF Working
<1>6. CodesQueued(c, S) BY <1>2 DEF Working, CodesQueued
<1>7. StatesQueued(c)
  <2> DEFINE Q == InReqs(k.stateReqs)
  <2>1. k.needState = k.stateTasks \cup Q \cup DOMAIN k.subTasks BY <1>3 DEF StatesQueued
  <2>2. Q \cap DOMAIN k.subTasks = {} /\ k.stateTasks \cap DOMAIN k.subTasks = {}
    BY <1>3, ReqsHold DEF StatesQueued
  <2>3. Q = InReqs(c.stateReqs) BY <1>2
  <2> HIDE DEF Q
  <2>4. c.needState = c.stateTasks \cup Q \cup DOMAIN c.subTasks BY <2>1, <2>2, <1>2
  <2>5. c.stateTasks \cap DOMAIN c.subTasks = {} BY <2>2, <1>2
  <2>6. \A req \in c.stateReqs :
       /\ req \in Seq(HashSpace) /\ req # <<>> /\ IsInjective(req)
       /\ Range(req) \cap c.stateTasks = {} /\ Range(req) \cap DOMAIN c.subTasks = {}
       /\ \A r \in c.stateReqs : r = req \/ Range(r) \cap Range(req) = {}
    BY <1>2, <1>3 DEF StatesQueued
  <2> QED BY <2>3, <2>4, <2>5, <2>6 DEF StatesQueued
<1>8. Working(c, S, slots, codes) BY <1>2, <1>4, <1>5, <1>6, <1>7 DEF Working
<1> QED BY <1>2, <1>8 DEF c

\* A task that needs nothing rests once it was forwarded.
LEMMA NothingUnderWay ==
  ASSUME NEW k, NEW S, CodesQueued(k, S), StatesQueued(k), k.needCode = {}, k.needState = {}
  PROVE k.codeReqs = {} /\ k.stateReqs = {} /\ DOMAIN k.subTasks = {}
<1>1. ASSUME NEW c \in k.codeReqs PROVE FALSE
  BY DEF CodesQueued
<1>2. ASSUME NEW req \in k.stateReqs PROVE FALSE
  <2>1. InReqs(k.stateReqs) = {} BY DEF StatesQueued
  <2>2. req \in Seq(HashSpace) /\ req # <<>> BY DEF StatesQueued
  <2>3. 1 \in DOMAIN req BY <2>2
  <2>4. req[1] \in Range(req) BY <2>3 DEF Range
  <2> QED BY <2>1, <2>4, ReqsHold
<1>3. DOMAIN k.subTasks = {} BY DEF StatesQueued
<1> QED BY <1>1, <1>2, <1>3

LEMMA SettledSound ==
  ASSUME NEW k, DOMAIN k = TaskFields, k.filling, GoodState(State), NEW slots, NEW codes,
         Working(k, State, slots, codes), \A h \in DOMAIN k.gen : HeldIn(k.gen[h], slots, codes)
  PROVE TaskSound(Settled(k), State, slots, codes)
<1> DEFINE c == Cleaned(k)
<1>1. Working(c, State, slots, codes) /\ DOMAIN c = TaskFields /\ c.gen = k.gen /\ c.filling BY CleanedSound
<1>2. Settled(k) = IF c.filling /\ c.pend = 0 THEN Forwarded(c) ELSE c
  BY <1>1 DEF Settled
<1> HIDE DEF c
<1>3. \A h \in DOMAIN c.gen : HeldIn(c.gen[h], slots, codes) BY <1>1
<1>4. CASE c.pend # 0
  BY <1>1, <1>4, NeedsAre, <1>2, <1>3 DEF TaskSound
<1>5. CASE c.pend = 0
  <2> DEFINE f == Forwarded(c)
  <2>1. Settled(k) = f BY <1>1, <1>2, <1>5
  <2>2. /\ DOMAIN f = TaskFields /\ f.filling = FALSE /\ f.hashes = {} /\ f.needHeal = {}
        /\ f.needCode = c.needCode /\ f.needState = c.needState /\ f.pend = c.pend
        /\ f.codeReqs = c.codeReqs /\ f.stateReqs = c.stateReqs /\ f.subTasks = c.subTasks
    BY <1>1, ForwardedFields
  <2>3. \A h \in DOMAIN f.gen : HeldIn(f.gen[h], slots, codes) BY <1>1, <1>3, ForwardedSound
  <2> HIDE DEF f
  <2>4. c.needCode = {} /\ c.needState = {} BY <1>1, <1>5, NeedsAre
  <2>5. c.codeReqs = {} /\ c.stateReqs = {} /\ DOMAIN c.subTasks = {} BY <1>1, <2>4, NothingUnderWay DEF Working
  <2>6. Resting(f) BY <2>2, <2>4, <2>5, <1>5 DEF Resting
  <2> QED BY <2>1, <2>2, <2>3, <2>6 DEF TaskSound
<1> QED BY <1>4, <1>5

LEMMA UpdateKeeps ==
  ASSUME SnapInv, NEW t \in DOMAIN tasks, NEW k, Update(t, k), TaskSound(k, State, stored.slots, stored.codes)
  PROVE SnapInv'
<1>1. /\ tasks' = [tasks EXCEPT ![t] = k] /\ pivot' = pivot /\ syncing' = syncing /\ healer' = healer
      /\ stored' = stored /\ saved' = saved /\ synced' = synced
  BY DEF Update
<1>2. State' = State BY <1>1 DEF State
<1>3. ASSUME NEW u \in DOMAIN tasks' PROVE TaskSound(tasks'[u], State, stored.slots, stored.codes)
  <2>1. u \in DOMAIN tasks BY <1>1
  <2>2. CASE u = t BY <2>1, <2>2, <1>1
  <2>3. CASE u # t
    BY <2>1, <2>3, <1>1 DEF SnapInv
  <2> QED BY <2>2, <2>3
<1> QED BY <1>1, <1>2, <1>3 DEF SnapInv

\* More on disk, whole as before, does what else is there no harm.
LEMMA MoreOnDisk ==
  ASSUME SnapInv, NEW disc, stored.accounts \subseteq disc.accounts, stored.slots \subseteq disc.slots,
         stored.codes \subseteq disc.codes
  PROVE /\ \A p \in synced : TrieNodes(States[p]) \subseteq disc.accounts
                             /\ \A h \in DOMAIN States[p] : HeldIn(States[p][h], disc.slots, disc.codes)
        /\ \A t \in DOMAIN tasks : TaskSound(tasks[t], State, disc.slots, disc.codes)
        /\ WalkSound(healer, disc)
        /\ syncing => RootSought(healer, disc, State)
<1>1. ASSUME NEW p \in synced
      PROVE TrieNodes(States[p]) \subseteq disc.accounts
            /\ \A h \in DOMAIN States[p] : HeldIn(States[p][h], disc.slots, disc.codes)
  BY HeldMore DEF SnapInv
<1>2. ASSUME NEW t \in DOMAIN tasks PROVE TaskSound(tasks[t], State, disc.slots, disc.codes)
  BY TaskMore DEF SnapInv
<1>3. WalkSound(healer, disc) BY WalkMore DEF SnapInv
<1>4. syncing => RootSought(healer, disc, State) BY DEF SnapInv, RootSought
<1> QED BY <1>1, <1>2, <1>3, <1>4

LEMMA SettleKeeps ==
  ASSUME SnapInv, NEW t \in DOMAIN tasks, NEW k, NEW slots, NEW codes, Settle(t, k, slots, codes),
         DOMAIN k = TaskFields, k.filling,
         \A h \in DOMAIN k.gen : HeldIn(k.gen[h], stored.slots, stored.codes),
         Working(k, State, stored.slots \cup slots, stored.codes \cup codes),
         \A n \in slots : SubTrie(n) \subseteq slots PROVE SnapInv'
<1>1. PICK new \in {Settled(k)}, flush \in BOOLEAN :
        /\ tasks' = [tasks EXCEPT ![t] = new]
        /\ stored' = [accounts |-> stored.accounts \cup
                      (IF new.done \/ (flush /\ ~new.filling) THEN GenNodes(new.gen, new.done) ELSE {}),
                    slots |-> stored.slots \cup slots, codes |-> stored.codes \cup codes]
        /\ UNCHANGED <<pivot, syncing, healer, saved, synced, cycles, reverts, syncKills>>
  BY DEF Settle
<1>2. State' = State /\ pivot \in DOMAIN States BY <1>1 DEF State, SnapInv
<1>3. GoodState(State) BY <1>2, StatesGood DEF State
<1> DEFINE S2 == stored.slots \cup slots
           C2 == stored.codes \cup codes
           N == IF new.done \/ (flush /\ ~new.filling) THEN GenNodes(new.gen, new.done) ELSE {}
<1>4. stored'.accounts = stored.accounts \cup N /\ stored'.slots = S2 /\ stored'.codes = C2
      /\ DOMAIN stored' = {"accounts", "slots", "codes"}
  BY <1>1
<1>5. stored.slots \subseteq S2 /\ stored.codes \subseteq C2 OBVIOUS
<1>6. \A h \in DOMAIN k.gen : HeldIn(k.gen[h], S2, C2) BY <1>5, HeldMore
<1> HIDE DEF S2, C2
<1>7. TaskSound(new, State, S2, C2)
  BY <1>3, <1>6, SettledSound, <1>1 DEF S2, C2
<1>8. \A n \in N : SubTrie(n) \subseteq N /\ \A h \in DOMAIN n[2] : HeldIn(n[2][h], S2, C2)
  <2>1. \A h \in DOMAIN new.gen : HeldIn(new.gen[h], S2, C2) BY <1>7 DEF TaskSound
  <2> SUFFICES ASSUME NEW n \in N PROVE SubTrie(n) \subseteq N /\ \A h \in DOMAIN n[2] : HeldIn(n[2][h], S2, C2) OBVIOUS
  <2>2. N = GenNodes(new.gen, new.done) /\ n \in GenNodes(new.gen, new.done) OBVIOUS
  <2> HIDE DEF N
  <2>3. SubTrie(n) \subseteq N BY <2>2, GenClosed
  <2>4. DOMAIN n[2] \subseteq DOMAIN new.gen /\ \A h \in DOMAIN n[2] : n[2][h] = new.gen[h] BY <2>2, GenClosed
  <2> QED BY <2>1, <2>3, <2>4
<1> HIDE DEF N
<1>9. DiskWhole(stored)'
  <2>1. ASSUME NEW n \in stored'.slots PROVE SubTrie(n) \subseteq stored'.slots
    <3>1. CASE n \in stored.slots
      BY <3>1, <1>4, <1>5 DEF SnapInv, DiskWhole
    <3>2. CASE n \in slots BY <3>2, <1>4 DEF S2
    <3> QED BY <3>1, <3>2, <2>1, <1>4 DEF S2
  <2>2. ASSUME NEW n \in stored'.accounts
        PROVE SubTrie(n) \subseteq stored'.accounts /\ \A h \in DOMAIN n[2] : HeldIn(n[2][h], S2, C2)
    <3>1. CASE n \in stored.accounts
      BY <3>1, <1>4, <1>5, HeldMore DEF SnapInv, DiskWhole
    <3>2. CASE n \in N BY <3>2, <1>4, <1>8
    <3> QED BY <3>1, <3>2, <2>2, <1>4
  <2> QED BY <2>1, <2>2, <1>4 DEF DiskWhole
<1>10. /\ \A p \in synced : TrieNodes(States[p]) \subseteq stored'.accounts
                            /\ \A h \in DOMAIN States[p] : HeldIn(States[p][h], stored'.slots, stored'.codes)
       /\ \A u \in DOMAIN tasks : TaskSound(tasks[u], State, stored'.slots, stored'.codes)
       /\ WalkSound(healer, stored')
       /\ syncing => RootSought(healer, stored', State)
  BY <1>4, <1>5, MoreOnDisk
<1>11. ASSUME NEW u \in DOMAIN tasks' PROVE TaskSound(tasks'[u], State, stored'.slots, stored'.codes)
  <2>1. u \in DOMAIN tasks BY <1>1
  <2>2. CASE u = t BY <2>1, <2>2, <1>1, <1>4, <1>7
  <2>3. CASE u # t
    BY <2>1, <2>3, <1>1, <1>10
  <2> QED BY <2>2, <2>3
<1>12. pivot' = pivot /\ syncing' = syncing /\ healer' = healer /\ saved' = saved /\ synced' = synced BY <1>1
<1>13. DOMAIN stored' = {"accounts", "slots", "codes"} BY <1>4
<1> QED BY <1>2, <1>9, <1>10, <1>11, <1>12, <1>13 DEF SnapInv

LEMMA TaskFacts == ASSUME SnapInv, NEW t \in DOMAIN tasks
  PROVE /\ TaskSound(tasks[t], State, stored.slots, stored.codes) /\ GoodState(State)
        /\ DOMAIN tasks[t] = TaskFields
        /\ \A h \in DOMAIN tasks[t].gen : HeldIn(tasks[t].gen[h], stored.slots, stored.codes)
        /\ tasks[t].filling => Working(tasks[t], State, stored.slots, stored.codes) /\ tasks[t].pend > 0
        /\ ~tasks[t].filling => Resting(tasks[t])
<1>1. TaskSound(tasks[t], State, stored.slots, stored.codes) BY DEF SnapInv
<1>2. GoodState(State) BY StatesGood DEF SnapInv, State
<1> QED BY <1>1, <1>2 DEF TaskSound

\* Asking for accounts, or not any more.
LEMMA AskedSound ==
  ASSUME NEW k, NEW S, NEW slots, NEW codes, TaskSound(k, S, slots, codes), ~k.filling, NEW b
  PROVE TaskSound([k EXCEPT !.asked = b], S, slots, codes)
<1> DEFINE v == [k EXCEPT !.asked = b]
<1>1. DOMAIN k = TaskFields /\ Resting(k) /\ \A h \in DOMAIN k.gen : HeldIn(k.gen[h], slots, codes) BY DEF TaskSound
<1>2. /\ DOMAIN v = TaskFields /\ v.hashes = k.hashes /\ v.needCode = k.needCode /\ v.needState = k.needState
      /\ v.needHeal = k.needHeal /\ v.codeReqs = k.codeReqs /\ v.stateReqs = k.stateReqs /\ v.pend = k.pend
      /\ v.subTasks = k.subTasks /\ v.gen = k.gen /\ v.filling = k.filling
  BY <1>1 DEF TaskFields
<1> HIDE DEF v
<1>3. Resting(v) BY <1>1, <1>2 DEF Resting
<1>4. TaskSound(v, S, slots, codes) BY <1>1, <1>2, <1>3 DEF TaskSound
<1> QED BY <1>4 DEF v

LEMMA AskAccountsKeeps == ASSUME SnapInv, NEW t \in DOMAIN tasks, AskAccounts(t) PROVE SnapInv'
<1> DEFINE v == [tasks[t] EXCEPT !.asked = TRUE]
<1>1. ~tasks[t].filling /\ Update(t, v) BY DEF AskAccounts
<1>2. TaskSound(v, State, stored.slots, stored.codes) BY <1>1, TaskFacts, AskedSound
<1> HIDE DEF v
<1> QED BY <1>1, <1>2, UpdateKeeps

LEMMA RevertAccountsKeeps == ASSUME SnapInv, NEW t \in DOMAIN tasks, RevertAccounts(t) PROVE SnapInv'
<1> DEFINE v == [tasks[t] EXCEPT !.asked = FALSE]
<1>1. tasks[t].asked /\ Update(t, v) BY DEF RevertAccounts, Revert
<1>2. ~tasks[t].filling BY <1>1, TaskFacts DEF Working
<1>3. TaskSound(v, State, stored.slots, stored.codes) BY <1>2, TaskFacts, AskedSound
<1> HIDE DEF v
<1> QED BY <1>1, <1>3, UpdateKeeps

\* What is not lacking is there.
LEMMA NothingLacks == ASSUME SnapInv, NEW h \in DOMAIN State
  PROVE /\ ~LacksCode(h) => State[h].code \in stored.codes \cup {NoCode}
        /\ ~LacksState(h) => SlotsIn(State[h].root, stored.slots)
<1>1. ASSUME ~LacksCode(h) PROVE State[h].code \in stored.codes \cup {NoCode} BY <1>1 DEF LacksCode, Account
<1>2. ASSUME ~LacksState(h), State[h].root # NoLeaves PROVE TrieNodes(State[h].root) \subseteq stored.slots
  BY <1>2, StatesGood, RootHolds DEF LacksState, Account, SnapInv, DiskWhole, State, GoodState
<1> QED BY <1>1, <1>2 DEF SlotsIn

\* The accounts of a response.
LEMMA FilledSound ==
  ASSUME SnapInv, NEW k, DOMAIN k = TaskFields, Resting(k), NEW hashes, hashes \subseteq DOMAIN State, NEW more
  PROVE /\ Working(Filled(k, hashes, more), State, stored.slots, stored.codes)
        /\ DOMAIN Filled(k, hashes, more) = TaskFields /\ Filled(k, hashes, more).filling = TRUE
        /\ Filled(k, hashes, more).gen = k.gen
<1> DEFINE kept == {h \in hashes : h <= k.last}
           state == {h \in kept : LacksState(h)}
           resumed == state \cap DOMAIN k.subTasks
           code == {h \in kept : LacksCode(h)}
           cont == more /\ \A h \in hashes : h < k.last
           ct == {Account(h).code : h \in code}
           st == state \ resumed
           subs == Restrict(k.subTasks, resumed)
           n == Cardinality(code) + Cardinality(state)
           v == [k EXCEPT !.asked = FALSE, !.filling = TRUE, !.hashes = kept,
                  !.cont = cont,
                  !.needCode = code, !.needState = state, !.needHeal = resumed,
                  !.codeTasks = ct, !.stateTasks = st,
                  !.subTasks = subs,
                  !.pend = n]
<1>1. Filled(k, hashes, more) = v BY DEF Filled
<1>2. kept \subseteq DOMAIN State /\ state \subseteq kept /\ resumed \subseteq state /\ code \subseteq kept OBVIOUS
<1>3. DOMAIN subs = resumed BY DEF Restrict
<1>4. \A h \in kept : (h \notin state => ~LacksState(h)) /\ (h \notin code => ~LacksCode(h)) OBVIOUS
<1>5. ct = {State[h].code : h \in code} BY DEF Account
<1>6. st = state \ resumed OBVIOUS
<1>7. n = Cardinality(code) + Cardinality(state) OBVIOUS
<1> HIDE DEF kept, state, resumed, code, cont, ct, st, subs, n
<1>8. /\ DOMAIN v = TaskFields /\ v.asked = FALSE /\ v.filling = TRUE /\ v.hashes = kept
      /\ v.needCode = code /\ v.needState = state /\ v.needHeal = resumed /\ v.codeTasks = ct /\ v.stateTasks = st
      /\ v.subTasks = subs /\ v.pend = n /\ v.codeReqs = k.codeReqs /\ v.stateReqs = k.stateReqs /\ v.gen = k.gen
  BY DEF TaskFields
<1> HIDE DEF v
<1>9. v.codeReqs = {} /\ v.stateReqs = {} BY <1>8 DEF Resting
<1>10. CodesQueued(v, State) BY <1>5, <1>8, <1>9 DEF CodesQueued
<1>11. StatesQueued(v)
  BY <1>9, ReqsHold, <1>2, <1>3, <1>6, <1>8 DEF StatesQueued
<1>12. \A h \in v.hashes \ v.needCode : State[h].code \in stored.codes \cup {NoCode} BY <1>2, <1>4, <1>8, NothingLacks
<1>13. \A h \in v.hashes \ v.needHeal : h \notin v.needState \/ h \in DOMAIN v.subTasks => SlotsIn(State[h].root, stored.slots)
  BY <1>2, <1>3, <1>4, <1>8, NothingLacks
<1>14. Working(v, State, stored.slots, stored.codes) BY <1>2, <1>7, <1>8, <1>10, <1>11, <1>12, <1>13 DEF Working
<1> QED BY <1>1, <1>8, <1>14

LEMMA DeliverAccountsKeeps == ASSUME SnapInv, NEW t \in DOMAIN tasks, DeliverAccounts(t) PROVE SnapInv'
<1> DEFINE from == {h \in DOMAIN State : h >= tasks[t].next}
<1>1. PICK hashes \in Answers(State, tasks[t].next, tasks[t].last) \cup (IF from = {} THEN {{}} ELSE {}) :
        Settle(t, Filled(tasks[t], hashes, hashes # from), {}, {}) BY DEF DeliverAccounts
<1>2. hashes \subseteq DOMAIN State BY DEF Answers
<1>3. tasks[t].asked BY DEF DeliverAccounts
<1>4. DOMAIN tasks[t] = TaskFields /\ Resting(tasks[t])
      /\ \A h \in DOMAIN tasks[t].gen : HeldIn(tasks[t].gen[h], stored.slots, stored.codes)
  BY <1>3, TaskFacts DEF Working
<1>0. PICK more : more = (hashes # from) OBVIOUS
<1> DEFINE v == Filled(tasks[t], hashes, more)
<1>5. /\ Working(v, State, stored.slots, stored.codes) /\ DOMAIN v = TaskFields /\ v.filling = TRUE
      /\ v.gen = tasks[t].gen
  <2>1. PICK k : k = tasks[t] OBVIOUS
  <2>2. SnapInv /\ DOMAIN k = TaskFields /\ Resting(k) /\ hashes \subseteq DOMAIN State BY <1>2, <1>4, <2>1
  <2> HIDE DEF v, from
  <2>3. /\ Working(Filled(k, hashes, more), State, stored.slots, stored.codes)
        /\ DOMAIN Filled(k, hashes, more) = TaskFields /\ Filled(k, hashes, more).filling = TRUE
        /\ Filled(k, hashes, more).gen = k.gen
    BY <2>2, FilledSound
  <2> QED BY <2>1, <2>3 DEF v
<1>6. Settle(t, v, {}, {}) BY <1>0, <1>1
<1> HIDE DEF v
<1>7. Working(v, State, stored.slots \cup {}, stored.codes \cup {})
  BY <1>5
<1>8. \A h \in DOMAIN v.gen : HeldIn(v.gen[h], stored.slots, stored.codes) BY <1>4, <1>5
<1> QED BY <1>5, <1>6, <1>7, <1>8, SettleKeeps

\* A task of which only what is about codes changed.
OnlyCodes(k, v) ==
  /\ DOMAIN v = TaskFields /\ v.asked = k.asked /\ v.filling = k.filling /\ v.hashes = k.hashes
  /\ v.needState = k.needState /\ v.needHeal = k.needHeal /\ v.subTasks = k.subTasks
  /\ v.stateTasks = k.stateTasks /\ v.stateReqs = k.stateReqs /\ v.gen = k.gen

LEMMA CodesChange ==
  ASSUME NEW k, NEW v, OnlyCodes(k, v), NEW S, GoodState(S), NEW slots, NEW codes, NEW codes2, codes \subseteq codes2,
         Working(k, S, slots, codes), v.needCode \subseteq k.needCode,
         \A h \in k.needCode \ v.needCode : S[h].code \in codes2,
         v.pend = k.pend - Cardinality(k.needCode \ v.needCode), CodesQueued(v, S) PROVE Working(v, S, slots, codes2)
<1> DEFINE served == k.needCode \ v.needCode
<1>1. v.needCode = k.needCode \ served /\ served \subseteq k.needCode OBVIOUS
<1>2. Cardinality(v.needCode) = Cardinality(k.needCode) - Cardinality(served)
      /\ Cardinality(k.needCode) \in Nat /\ Cardinality(k.needState) \in Nat /\ Cardinality(served) \in Nat
  <2>1. k.needCode \subseteq HashSpace BY NeedsAre
  <2> HIDE DEF served
  <2>2. Cardinality(k.needCode \ served) = Cardinality(k.needCode) - Cardinality(served) BY <2>1, <1>1, HashesLess
  <2>3. Cardinality(served) \in Nat BY <2>1, <1>1, HashesFinite
  <2> QED BY <2>2, <2>3, <1>1, NeedsAre
<1>3. v.pend = Cardinality(v.needCode) + Cardinality(v.needState)
  BY NeedsAre, <1>2 DEF OnlyCodes
<1>4. \A h \in v.hashes \ v.needCode : S[h].code \in codes2 \cup {NoCode} BY DEF Working, OnlyCodes
<1>5. StatesQueued(v) BY DEF Working, StatesQueued, OnlyCodes
<1>6. /\ ~v.asked /\ v.hashes \subseteq DOMAIN S /\ v.needCode \subseteq v.hashes /\ v.needState \subseteq v.hashes
      /\ v.needHeal \subseteq v.hashes
  BY DEF Working, OnlyCodes
<1>7. \A h \in v.hashes \ v.needHeal : h \notin v.needState \/ h \in DOMAIN v.subTasks => SlotsIn(S[h].root, slots)
  BY DEF Working, OnlyCodes
<1> QED BY <1>3, <1>4, <1>5, <1>6, <1>7 DEF Working

\* Codes between the queue and requests.
LEMMA CodesMove ==
  ASSUME NEW k, NEW v, OnlyCodes(k, v), NEW S, GoodState(S), NEW slots, NEW codes, TaskSound(k, S, slots, codes), k.filling,
         v.needCode = k.needCode, v.pend = k.pend, CodesQueued(v, S) PROVE TaskSound(v, S, slots, codes)
<1>1. Working(k, S, slots, codes) /\ k.pend > 0 BY DEF TaskSound
<1>2. v.pend = k.pend - Cardinality(k.needCode \ v.needCode)
  <2>1. k.needCode \ v.needCode = {} OBVIOUS
  <2>2. Cardinality({}) = 0 BY FS_EmptySet
  <2>3. k.pend \in Nat BY <1>1, NeedsAre
  <2> QED BY <2>1, <2>2, <2>3
<1>3. Working(v, S, slots, codes) BY <1>1, <1>2, CodesChange
<1> QED BY <1>1, <1>3 DEF TaskSound, OnlyCodes

LEMMA AskCodesKeeps == ASSUME SnapInv, NEW t \in DOMAIN tasks, AskCodes(t) PROVE SnapInv'
<1> DEFINE k == tasks[t]
<1>1. k.filling /\ DOMAIN k = TaskFields /\ TaskSound(k, State, stored.slots, stored.codes) /\ GoodState(State)
      /\ CodesQueued(k, State)
  BY TaskFacts DEF AskCodes, Working
<1>2. PICK codes \in (SUBSET k.codeTasks) \ {{}} :
        Update(t, [tasks[t] EXCEPT !.codeTasks = @ \ codes, !.codeReqs = @ \cup {codes}]) BY DEF AskCodes
<1> DEFINE v == [k EXCEPT !.codeTasks = @ \ codes, !.codeReqs = @ \cup {codes}]
<1>3. Update(t, v) BY <1>2
<1> HIDE DEF k
<1>4. /\ OnlyCodes(k, v) /\ v.needCode = k.needCode /\ v.pend = k.pend
      /\ v.codeTasks = k.codeTasks \ codes /\ v.codeReqs = k.codeReqs \cup {codes}
  BY <1>1 DEF OnlyCodes, TaskFields
<1> HIDE DEF v
<1>5. CodesQueued(v, State)
  BY <1>4, <1>1 DEF CodesQueued
<1>6. TaskSound(v, State, stored.slots, stored.codes) BY <1>1, <1>4, <1>5, CodesMove
<1> QED BY <1>3, <1>6, UpdateKeeps

LEMMA RevertCodesKeeps == ASSUME SnapInv, NEW t \in DOMAIN tasks, RevertCodes(t) PROVE SnapInv'
<1> DEFINE k == tasks[t]
<1>1. PICK codes \in k.codeReqs :
        Update(t, [tasks[t] EXCEPT !.codeReqs = @ \ {codes}, !.codeTasks = @ \cup codes]) BY DEF RevertCodes, Revert
<1> DEFINE v == [k EXCEPT !.codeReqs = @ \ {codes}, !.codeTasks = @ \cup codes]
<1>2. k.filling /\ DOMAIN k = TaskFields /\ TaskSound(k, State, stored.slots, stored.codes) /\ GoodState(State)
      /\ CodesQueued(k, State)
  BY TaskFacts DEF Resting, Working
<1>3. Update(t, v) BY <1>1
<1> HIDE DEF k
<1>4. /\ OnlyCodes(k, v) /\ v.needCode = k.needCode /\ v.pend = k.pend
      /\ v.codeTasks = k.codeTasks \cup codes /\ v.codeReqs = k.codeReqs \ {codes}
  BY <1>2 DEF OnlyCodes, TaskFields
<1> HIDE DEF v
<1>5. CodesQueued(v, State)
  BY <1>4, <1>1, <1>2 DEF CodesQueued
<1>6. TaskSound(v, State, stored.slots, stored.codes) BY <1>2, <1>4, <1>5, CodesMove
<1> QED BY <1>3, <1>6, UpdateKeeps

LEMMA DeliverCodesKeeps == ASSUME SnapInv, NEW t \in DOMAIN tasks, DeliverCodes(t) PROVE SnapInv'
<1> DEFINE k == tasks[t]
<1>0. PICK codes \in k.codeReqs : \E got \in (SUBSET codes) \ {{}} :
        LET served == {h \in k.needCode : Account(h).code \in got}
        IN Settle(t, [tasks[t] EXCEPT !.codeReqs = @ \ {codes}, !.codeTasks = @ \cup (codes \ got),
                        !.needCode = @ \ served, !.pend = @ - Cardinality(served)], {}, got) BY DEF DeliverCodes
<1>1. PICK got \in (SUBSET codes) \ {{}} :
        LET served == {h \in k.needCode : Account(h).code \in got}
        IN Settle(t, [tasks[t] EXCEPT !.codeReqs = @ \ {codes}, !.codeTasks = @ \cup (codes \ got),
                        !.needCode = @ \ served, !.pend = @ - Cardinality(served)], {}, got) BY <1>0
<1> DEFINE served == {h \in k.needCode : Account(h).code \in got}
           v == [k EXCEPT !.codeReqs = @ \ {codes}, !.codeTasks = @ \cup (codes \ got),
                        !.needCode = @ \ served, !.pend = @ - Cardinality(served)]
<1>2. /\ k.filling /\ DOMAIN k = TaskFields /\ TaskSound(k, State, stored.slots, stored.codes) /\ GoodState(State)
      /\ CodesQueued(k, State) /\ Working(k, State, stored.slots, stored.codes)
      /\ \A h \in DOMAIN k.gen : HeldIn(k.gen[h], stored.slots, stored.codes)
  BY TaskFacts DEF Resting, Working
<1>3. Settle(t, v, {}, got) BY <1>1
<1>4. served \subseteq k.needCode /\ \A h \in k.needCode : h \in served <=> State[h].code \in got BY DEF Account
<1> HIDE DEF k, served
<1>5. /\ OnlyCodes(k, v) /\ v.needCode = k.needCode \ served /\ v.pend = k.pend - Cardinality(served)
      /\ v.codeTasks = k.codeTasks \cup (codes \ got) /\ v.codeReqs = k.codeReqs \ {codes}
  BY <1>2 DEF OnlyCodes, TaskFields
<1> HIDE DEF v
<1>6. CodesQueued(v, State)
  <2> DEFINE A == {State[h].code : h \in k.needCode}
             B == {State[h].code : h \in v.needCode}
  <2>1. A = k.codeTasks \cup UNION k.codeReqs BY <1>2 DEF CodesQueued
  <2>2. B = A \ got BY <1>4, <1>5
  <2>3. \A c \in k.codeReqs : c # {} /\ c \cap k.codeTasks = {} /\ \A d \in k.codeReqs : c = d \/ c \cap d = {}
    BY <1>2 DEF CodesQueued
  <2> HIDE DEF A
  <2>4. A \ got = v.codeTasks \cup UNION v.codeReqs
    <3>1. ASSUME NEW x \in A \ got PROVE x \in v.codeTasks \cup UNION v.codeReqs
      BY <2>1, <1>5
    <3>2. ASSUME NEW x \in v.codeTasks \cup UNION v.codeReqs PROVE x \in A \ got
      <4>1. CASE x \in v.codeTasks BY <4>1, <1>1, <1>5, <2>1, <2>3
      <4>2. CASE x \in UNION v.codeReqs
        <5>1. PICK c \in k.codeReqs : c # codes /\ x \in c BY <4>2, <1>5
        <5>2. x \notin codes BY <5>1, <1>1, <2>3
        <5> QED BY <5>1, <5>2, <1>1, <2>1
      <4> QED BY <3>2, <4>1, <4>2
    <3> QED BY <3>1, <3>2
  <2>5. \A c \in v.codeReqs : c # {} /\ c \cap v.codeTasks = {} /\ \A d \in v.codeReqs : c = d \/ c \cap d = {}
    BY <1>1, <1>5, <2>3
  <2>6. B = v.codeTasks \cup UNION v.codeReqs BY <2>2, <2>4
  <2> QED BY <2>5, <2>6 DEF CodesQueued
<1>7. Working(v, State, stored.slots, stored.codes \cup got)
  <2> DEFINE C2 == stored.codes \cup got
  <2>1. stored.codes \subseteq C2 /\ \A h \in served : State[h].code \in C2 BY <1>4
  <2>2. k.needCode \ v.needCode = served BY <1>4, <1>5
  <2> HIDE DEF C2
  <2>3. v.needCode \subseteq k.needCode /\ (\A h \in k.needCode \ v.needCode : State[h].code \in C2)
        /\ v.pend = k.pend - Cardinality(k.needCode \ v.needCode)
    BY <2>1, <2>2, <1>5
  <2>4. Working(v, State, stored.slots, C2) BY <2>1, <2>3, <1>2, <1>5, <1>6, CodesChange
  <2> QED BY <2>4 DEF C2
<1>8. stored.slots \cup {} = stored.slots OBVIOUS
<1>9. DOMAIN v = TaskFields /\ v.gen = k.gen /\ v.filling BY <1>2, <1>5 DEF OnlyCodes
<1> QED BY <1>2, <1>3, <1>7, <1>8, <1>9, SettleKeeps

\* A task of which only what is about storage changed.
OnlyStates(k, v) ==
  /\ DOMAIN v = TaskFields /\ v.asked = k.asked /\ v.filling = k.filling /\ v.hashes = k.hashes
  /\ v.needCode = k.needCode /\ v.codeTasks = k.codeTasks /\ v.codeReqs = k.codeReqs /\ v.gen = k.gen

LEMMA StatesChange ==
  ASSUME NEW k, NEW v, OnlyStates(k, v), NEW S, GoodState(S), NEW slots, NEW slots2, NEW codes,
         Working(k, S, slots, codes), v.needState \subseteq k.needState, v.needHeal \subseteq k.hashes,
         \A h \in v.hashes \ v.needHeal : h \notin v.needState \/ h \in DOMAIN v.subTasks => SlotsIn(S[h].root, slots2),
         v.pend = k.pend - Cardinality(k.needState \ v.needState), StatesQueued(v) PROVE Working(v, S, slots2, codes)
<1> DEFINE served == k.needState \ v.needState
<1>1. v.needState = k.needState \ served /\ served \subseteq k.needState OBVIOUS
<1>2. Cardinality(v.needState) = Cardinality(k.needState) - Cardinality(served)
      /\ Cardinality(k.needCode) \in Nat /\ Cardinality(k.needState) \in Nat /\ Cardinality(served) \in Nat
  <2>1. k.needState \subseteq HashSpace BY NeedsAre
  <2> HIDE DEF served
  <2>2. Cardinality(k.needState \ served) = Cardinality(k.needState) - Cardinality(served) BY <2>1, <1>1, HashesLess
  <2>3. Cardinality(served) \in Nat BY <2>1, <1>1, HashesFinite
  <2> QED BY <2>2, <2>3, <1>1, NeedsAre
<1>3. v.pend = Cardinality(v.needCode) + Cardinality(v.needState)
  BY NeedsAre, <1>2 DEF OnlyStates
<1>4. \A h \in v.hashes \ v.needCode : S[h].code \in codes \cup {NoCode} BY DEF Working, OnlyStates
<1>5. CodesQueued(v, S) BY DEF Working, CodesQueued, OnlyStates
<1>6. /\ ~v.asked /\ v.hashes \subseteq DOMAIN S /\ v.needCode \subseteq v.hashes /\ v.needState \subseteq v.hashes
      /\ v.needHeal \subseteq v.hashes
  BY DEF Working, OnlyStates
<1> QED BY <1>3, <1>4, <1>5, <1>6 DEF Working

\* Storage between the queue, requests and chunks.
LEMMA StatesMove ==
  ASSUME NEW k, NEW v, OnlyStates(k, v), NEW S, GoodState(S), NEW slots, NEW codes, TaskSound(k, S, slots, codes), k.filling,
         v.needState = k.needState, v.needHeal = k.needHeal, v.pend = k.pend,
         DOMAIN v.subTasks = DOMAIN k.subTasks, StatesQueued(v) PROVE TaskSound(v, S, slots, codes)
<1>1. Working(k, S, slots, codes) /\ k.pend > 0 BY DEF TaskSound
<1>2. v.pend = k.pend - Cardinality(k.needState \ v.needState)
  <2>1. k.needState \ v.needState = {} OBVIOUS
  <2>2. Cardinality({}) = 0 BY FS_EmptySet
  <2>3. k.pend \in Nat BY <1>1, NeedsAre
  <2> QED BY <2>1, <2>2, <2>3
<1>3. \A h \in v.hashes \ v.needHeal : h \notin v.needState \/ h \in DOMAIN v.subTasks => SlotsIn(S[h].root, slots)
  BY <1>1 DEF Working, OnlyStates
<1>4. v.needHeal \subseteq k.hashes /\ v.needState \subseteq k.needState BY <1>1 DEF Working
<1>5. Working(v, S, slots, codes) BY <1>1, <1>2, <1>3, <1>4, StatesChange
<1> QED BY <1>1, <1>5 DEF TaskSound, OnlyStates

\* A task that has something under way is filling.
LEMMA FillingFacts == ASSUME SnapInv, NEW t \in DOMAIN tasks, tasks[t].filling
  PROVE /\ DOMAIN tasks[t] = TaskFields /\ TaskSound(tasks[t], State, stored.slots, stored.codes) /\ GoodState(State)
        /\ Working(tasks[t], State, stored.slots, stored.codes) /\ StatesQueued(tasks[t])
        /\ \A h \in DOMAIN tasks[t].gen : HeldIn(tasks[t].gen[h], stored.slots, stored.codes)
        /\ tasks[t].stateTasks \subseteq HashSpace /\ tasks[t].needState \subseteq tasks[t].hashes
        /\ tasks[t].hashes \subseteq DOMAIN State
<1>1. /\ DOMAIN tasks[t] = TaskFields /\ TaskSound(tasks[t], State, stored.slots, stored.codes) /\ GoodState(State)
      /\ Working(tasks[t], State, stored.slots, stored.codes)
      /\ \A h \in DOMAIN tasks[t].gen : HeldIn(tasks[t].gen[h], stored.slots, stored.codes)
  BY TaskFacts
<1>2. StatesQueued(tasks[t]) /\ tasks[t].needState \subseteq tasks[t].hashes /\ tasks[t].hashes \subseteq DOMAIN State
  BY <1>1 DEF Working
<1>3. tasks[t].stateTasks \subseteq HashSpace
  BY <1>2, <1>1, NeedsAre DEF StatesQueued
<1> QED BY <1>1, <1>2, <1>3

LEMMA ChunkFilling == ASSUME SnapInv, NEW t \in DOMAIN tasks, NEW p \in Chunks(tasks[t]), Chunk(tasks[t], p).asked
  PROVE tasks[t].filling
<1>1. p[1] \in DOMAIN tasks[t].subTasks /\ p[2] \in DOMAIN tasks[t].subTasks[p[1]] BY DEF Chunks
<1>2. tasks[t].subTasks[p[1]][p[2]].asked BY DEF Chunk
<1> QED BY <1>1, <1>2, TaskFacts DEF Resting

\* A chunk is changed in place.
LEMMA ChunkChange ==
  ASSUME NEW k, DOMAIN k = TaskFields, NEW v, NEW subs, DOMAIN subs = DOMAIN k.subTasks,
         v = [k EXCEPT !.subTasks = subs]
  PROVE /\ OnlyStates(k, v) /\ v.needState = k.needState /\ v.needHeal = k.needHeal /\ v.pend = k.pend
        /\ DOMAIN v.subTasks = DOMAIN k.subTasks
        /\ StatesQueued(k) => StatesQueued(v)
  BY DEF OnlyStates, TaskFields, StatesQueued

LEMMA AskChunkKeeps == ASSUME SnapInv, NEW t \in DOMAIN tasks, AskChunk(t) PROVE SnapInv'
<1>1. PICK p : Update(t, [tasks[t] EXCEPT !.subTasks[p[1]][p[2]].asked = TRUE]) BY DEF AskChunk
<1> DEFINE k == tasks[t]
           subs == [k.subTasks EXCEPT ![p[1]][p[2]].asked = TRUE]
           v == [k EXCEPT !.subTasks = subs]
<1>2. Update(t, v) BY <1>1
<1>3. k.filling BY DEF AskChunk
<1>4. DOMAIN subs = DOMAIN k.subTasks OBVIOUS
<1> HIDE DEF subs
<1>5. DOMAIN k = TaskFields /\ TaskSound(k, State, stored.slots, stored.codes) /\ GoodState(State) /\ StatesQueued(k)
  BY <1>3, FillingFacts
<1> HIDE DEF k
<1>6. /\ OnlyStates(k, v) /\ v.needState = k.needState /\ v.needHeal = k.needHeal /\ v.pend = k.pend
      /\ DOMAIN v.subTasks = DOMAIN k.subTasks /\ StatesQueued(v)
  BY <1>4, <1>5, ChunkChange
<1> HIDE DEF v
<1>7. TaskSound(v, State, stored.slots, stored.codes) BY <1>3, <1>5, <1>6, StatesMove
<1> QED BY <1>2, <1>7, UpdateKeeps

LEMMA AskStorageKeeps == ASSUME SnapInv, NEW t \in DOMAIN tasks, AskStorage(t) PROVE SnapInv'
<1> DEFINE k == tasks[t]
<1>1. k.filling BY DEF AskStorage
<1>2. PICK n \in 1..Cardinality(k.stateTasks) : \E hashes \in [1..n -> k.stateTasks] :
        /\ IsInjective(hashes)
        /\ Update(t, [tasks[t] EXCEPT !.stateTasks = @ \ Range(hashes), !.stateReqs = @ \cup {hashes}])
  BY DEF AskStorage
<1>3. PICK hashes \in [1..n -> k.stateTasks] :
        /\ IsInjective(hashes)
        /\ Update(t, [tasks[t] EXCEPT !.stateTasks = @ \ Range(hashes), !.stateReqs = @ \cup {hashes}])
  BY <1>2
<1> DEFINE rest == k.stateTasks \ Range(hashes)
           reqs == k.stateReqs \cup {hashes}
           v == [k EXCEPT !.stateTasks = rest, !.stateReqs = reqs]
<1>4. Update(t, v) BY <1>3
<1>5. /\ DOMAIN k = TaskFields /\ TaskSound(k, State, stored.slots, stored.codes) /\ GoodState(State) /\ StatesQueued(k)
      /\ k.stateTasks \subseteq HashSpace
  BY <1>1, FillingFacts
<1>6. n \in Nat /\ n >= 1
  BY <1>5, HashesFinite, <1>2
<1>7. hashes \in Seq(HashSpace) /\ hashes # <<>> /\ Range(hashes) \subseteq k.stateTasks
  BY <1>3, <1>5, <1>6 DEF Range
<1> HIDE DEF k
<1>8. /\ OnlyStates(k, v) /\ v.needState = k.needState /\ v.needHeal = k.needHeal /\ v.pend = k.pend
      /\ v.subTasks = k.subTasks /\ v.stateTasks = rest /\ v.stateReqs = reqs
  <2> HIDE DEF rest, reqs
  <2> QED BY <1>5 DEF OnlyStates, TaskFields
<1>9. /\ v.stateTasks = k.stateTasks \ Range(hashes) /\ v.stateReqs = k.stateReqs \cup {hashes} BY <1>8
<1> HIDE DEF v
<1>10. StatesQueued(v)
  <2>1. ASSUME NEW req \in k.stateReqs
        PROVE /\ req \in Seq(HashSpace) /\ req # <<>> /\ IsInjective(req)
              /\ Range(req) \cap k.stateTasks = {} /\ Range(req) \cap DOMAIN k.subTasks = {}
              /\ \A r \in k.stateReqs : r = req \/ Range(r) \cap Range(req) = {}
    BY <1>5 DEF StatesQueued
  <2>2. k.needState = k.stateTasks \cup InReqs(k.stateReqs) \cup DOMAIN k.subTasks
        /\ k.stateTasks \cap DOMAIN k.subTasks = {}
    BY <1>5 DEF StatesQueued
  <2>3. \A h : h \in InReqs(v.stateReqs) <=> h \in InReqs(k.stateReqs) \/ h \in Range(hashes)
    <3>1. ASSUME NEW h PROVE h \in InReqs(v.stateReqs) <=> h \in InReqs(k.stateReqs) \/ h \in Range(hashes)
      BY ReqsHold, <1>9
    <3> QED BY <3>1
  <2>4. v.needState = v.stateTasks \cup InReqs(v.stateReqs) \cup DOMAIN v.subTasks BY <2>2, <2>3, <1>7, <1>8, <1>9
  <2>5. v.stateTasks \cap DOMAIN v.subTasks = {} BY <2>2, <1>8, <1>9
  <2>6. ASSUME NEW req \in v.stateReqs
        PROVE /\ req \in Seq(HashSpace) /\ req # <<>> /\ IsInjective(req)
              /\ Range(req) \cap v.stateTasks = {} /\ Range(req) \cap DOMAIN v.subTasks = {}
              /\ \A r \in v.stateReqs : r = req \/ Range(r) \cap Range(req) = {}
    <3>1. CASE req = hashes
      <4>1. \A r \in k.stateReqs : Range(r) \cap Range(hashes) = {} BY <2>1, <1>7
      <4>2. Range(hashes) \cap DOMAIN k.subTasks = {} BY <2>2, <1>7
      <4> QED BY <4>1, <4>2, <3>1, <1>3, <1>7, <1>8, <1>9
    <3>2. CASE req \in k.stateReqs
      BY <2>1, <3>2, <1>7, <1>9, <1>8
    <3> QED BY <3>1, <3>2, <2>6, <1>9
  <2> QED BY <2>4, <2>5, <2>6 DEF StatesQueued
<1>11. DOMAIN v.subTasks = DOMAIN k.subTasks BY <1>8
<1>12. k.filling BY <1>1 DEF k
<1>13. TaskSound(v, State, stored.slots, stored.codes) BY <1>5, <1>8, <1>10, <1>11, <1>12, StatesMove
<1> QED BY <1>4, <1>13, UpdateKeeps

LEMMA RevertStorageKeeps == ASSUME SnapInv, NEW t \in DOMAIN tasks, RevertStorage(t) PROVE SnapInv'
<1> DEFINE k == tasks[t]
<1>1. CASE \E p \in Chunks(k) : Chunk(k, p).asked /\ Update(t, [tasks[t] EXCEPT !.subTasks[p[1]][p[2]].asked = FALSE])
  <2>1. PICK p \in Chunks(k) : Chunk(k, p).asked /\ Update(t, [tasks[t] EXCEPT !.subTasks[p[1]][p[2]].asked = FALSE])
    BY <1>1
  <2> DEFINE subs == [k.subTasks EXCEPT ![p[1]][p[2]].asked = FALSE]
             v == [k EXCEPT !.subTasks = subs]
  <2>2. Update(t, v) BY <2>1
  <2>3. k.filling BY <2>1, ChunkFilling
  <2>4. DOMAIN subs = DOMAIN k.subTasks OBVIOUS
  <2> HIDE DEF subs
  <2>5. DOMAIN k = TaskFields /\ TaskSound(k, State, stored.slots, stored.codes) /\ GoodState(State) /\ StatesQueued(k)
    BY <2>3, FillingFacts
  <2> HIDE DEF k
  <2>6. /\ OnlyStates(k, v) /\ v.needState = k.needState /\ v.needHeal = k.needHeal /\ v.pend = k.pend
        /\ DOMAIN v.subTasks = DOMAIN k.subTasks /\ StatesQueued(v)
    BY <2>4, <2>5, ChunkChange
  <2> HIDE DEF v
  <2>7. TaskSound(v, State, stored.slots, stored.codes) BY <2>3, <2>5, <2>6, StatesMove
  <2> QED BY <2>2, <2>7, UpdateKeeps
<1>2. CASE \E hashes \in k.stateReqs :
             Update(t, [tasks[t] EXCEPT !.stateReqs = @ \ {hashes}, !.stateTasks = @ \cup Range(hashes)])
  <2>1. PICK hashes \in k.stateReqs :
          Update(t, [tasks[t] EXCEPT !.stateReqs = @ \ {hashes}, !.stateTasks = @ \cup Range(hashes)]) BY <1>2
  <2> DEFINE v == [k EXCEPT !.stateReqs = @ \ {hashes}, !.stateTasks = @ \cup Range(hashes)]
  <2>2. Update(t, v) BY <2>1
  <2>3. k.filling BY <2>1, TaskFacts DEF Resting
  <2>4. DOMAIN k = TaskFields /\ TaskSound(k, State, stored.slots, stored.codes) /\ GoodState(State) /\ StatesQueued(k)
    BY <2>3, FillingFacts
  <2> HIDE DEF k
  <2>5. /\ OnlyStates(k, v) /\ v.needState = k.needState /\ v.needHeal = k.needHeal /\ v.pend = k.pend
        /\ v.subTasks = k.subTasks /\ v.stateTasks = k.stateTasks \cup Range(hashes)
        /\ v.stateReqs = k.stateReqs \ {hashes}
    BY <2>4 DEF OnlyStates, TaskFields
  <2> HIDE DEF v
  <2>6. StatesQueued(v)
    <3>1. ASSUME NEW req \in k.stateReqs
          PROVE /\ req \in Seq(HashSpace) /\ req # <<>> /\ IsInjective(req)
                /\ Range(req) \cap k.stateTasks = {} /\ Range(req) \cap DOMAIN k.subTasks = {}
                /\ \A r \in k.stateReqs : r = req \/ Range(r) \cap Range(req) = {}
      BY <2>4 DEF StatesQueued
    <3>2. k.needState = k.stateTasks \cup InReqs(k.stateReqs) \cup DOMAIN k.subTasks
          /\ k.stateTasks \cap DOMAIN k.subTasks = {}
      BY <2>4 DEF StatesQueued
    <3>3. ASSUME NEW h PROVE h \in InReqs(k.stateReqs) <=> h \in InReqs(v.stateReqs) \/ h \in Range(hashes)
      BY ReqsHold, <2>1, <2>5
    <3>4. v.needState = v.stateTasks \cup InReqs(v.stateReqs) \cup DOMAIN v.subTasks BY <3>2, <3>3, <2>5
    <3>5. v.stateTasks \cap DOMAIN v.subTasks = {} BY <3>1, <3>2, <2>1, <2>5
    <3>6. ASSUME NEW req \in v.stateReqs
          PROVE /\ req \in Seq(HashSpace) /\ req # <<>> /\ IsInjective(req)
                /\ Range(req) \cap v.stateTasks = {} /\ Range(req) \cap DOMAIN v.subTasks = {}
                /\ \A r \in v.stateReqs : r = req \/ Range(r) \cap Range(req) = {}
      BY <3>6, <2>5, <3>1, <2>1
    <3> QED BY <3>4, <3>5, <3>6 DEF StatesQueued
  <2>7. DOMAIN v.subTasks = DOMAIN k.subTasks /\ k.filling BY <2>3, <2>5
  <2>8. TaskSound(v, State, stored.slots, stored.codes) BY <2>4, <2>5, <2>6, <2>7, StatesMove
  <2> QED BY <2>2, <2>8, UpdateKeeps
<1> QED BY <1>1, <1>2 DEF RevertStorage, Revert

\* What a chunk writes is closed, and all of the storage once it came to the root.
LEMMA ChunkClosed == ASSUME NEW sub, NEW flush
  PROVE \A n \in ChunkNodes(sub, flush) : SubTrie(n) \subseteq ChunkNodes(sub, flush) BY GenClosed DEF ChunkNodes

LEMMA ChunkAll == ASSUME NEW sub, NEW flush, sub.done
  PROVE TrieNodes(sub.gen) \subseteq ChunkNodes(sub, flush) BY DEF ChunkNodes, GenNodes

LEMMA DeliverChunkKeeps == ASSUME SnapInv, NEW t \in DOMAIN tasks, DeliverChunk(t) PROVE SnapInv'
<1> DEFINE k == tasks[t]
<1>1. PICK p \in Chunks(k) :
        LET sub == Chunk(k, p)
            root == Account(p[1]).root
        IN /\ sub.asked
           /\ \E slots \in Answers(root, sub.next, sub.last), flush \in BOOLEAN :
                \E fed \in {Fed(sub, root, slots, \E s \in DOMAIN root : s > Largest(slots))} :
                  Settle(t, Healed([k EXCEPT !.subTasks[p[1]][p[2]] = fed], p[1], fed, root), ChunkNodes(fed, flush), {})
  BY DEF DeliverChunk
<1> DEFINE root == Account(p[1]).root
<1>2. PICK flush, fed : Settle(t, Healed([k EXCEPT !.subTasks[p[1]][p[2]] = fed], p[1], fed, root), ChunkNodes(fed, flush), {})
  BY <1>1
<1>3. Chunk(k, p).asked /\ k.filling BY <1>1, ChunkFilling
<1>4. p[1] \in DOMAIN k.subTasks BY DEF Chunks
<1>5. /\ DOMAIN k = TaskFields /\ GoodState(State) /\ StatesQueued(k) /\ Working(k, State, stored.slots, stored.codes)
      /\ \A h \in DOMAIN k.gen : HeldIn(k.gen[h], stored.slots, stored.codes)
  BY <1>3, FillingFacts
<1> DEFINE subs == [k.subTasks EXCEPT ![p[1]][p[2]] = fed]
           w == [k EXCEPT !.subTasks = subs]
           v == Healed(w, p[1], fed, root)
           N == ChunkNodes(fed, flush)
<1>6. Settle(t, v, N, {}) BY <1>2
<1>7. DOMAIN subs = DOMAIN k.subTasks OBVIOUS
<1> HIDE DEF subs, k
<1>8. /\ OnlyStates(k, w) /\ w.needState = k.needState /\ w.needHeal = k.needHeal /\ w.pend = k.pend
      /\ DOMAIN w.subTasks = DOMAIN k.subTasks /\ StatesQueued(w)
  BY <1>5, <1>7, ChunkChange
<1> HIDE DEF w
<1>9. /\ OnlyStates(k, v) /\ v.needState = k.needState /\ v.pend = k.pend
      /\ DOMAIN v.subTasks = DOMAIN k.subTasks /\ StatesQueued(v) /\ v.needHeal \subseteq k.needHeal
      /\ \A h \in k.needHeal \ v.needHeal : h = p[1] /\ fed.done /\ fed.gen = root
  <2>1. CASE fed.done /\ fed.gen = root
    <3>1. v = [w EXCEPT !.needHeal = @ \ {p[1]}] BY <2>1 DEF Healed
    <3>2. DOMAIN w = TaskFields BY <1>8 DEF OnlyStates
    <3>3. /\ v.needHeal = k.needHeal \ {p[1]} /\ DOMAIN v = TaskFields /\ v.asked = w.asked /\ v.filling = w.filling
          /\ v.hashes = w.hashes /\ v.needCode = w.needCode /\ v.codeTasks = w.codeTasks /\ v.codeReqs = w.codeReqs
          /\ v.gen = w.gen /\ v.needState = w.needState /\ v.pend = w.pend /\ v.subTasks = w.subTasks
          /\ v.stateTasks = w.stateTasks /\ v.stateReqs = w.stateReqs
      <4> HIDE DEF v
      <4> QED BY <3>1, <3>2, <1>8 DEF TaskFields
    <3> HIDE DEF v
    <3>4. StatesQueued(v) BY <3>3, <1>8 DEF StatesQueued
    <3> QED BY <3>3, <3>4, <2>1, <1>8 DEF OnlyStates
  <2>2. CASE ~(fed.done /\ fed.gen = root)
    BY <2>2, <1>8 DEF Healed
  <2> QED BY <2>1, <2>2
<1> HIDE DEF v
<1>10. \A n \in N : SubTrie(n) \subseteq N BY ChunkClosed
<1>11. Working(v, State, stored.slots \cup N, stored.codes)
  <2> DEFINE S2 == stored.slots \cup N
  <2>1. ASSUME NEW h \in v.hashes \ v.needHeal, h \notin v.needState \/ h \in DOMAIN v.subTasks
        PROVE SlotsIn(State[h].root, S2)
    <3>0. h \in k.hashes BY <2>1, <1>9 DEF OnlyStates
    <3>1. CASE h \notin k.needHeal
      BY <3>0, <3>1, <2>1, <1>5, <1>9 DEF Working, SlotsIn
    <3>2. CASE h \in k.needHeal
      <4>1. h = p[1] /\ fed.done /\ fed.gen = root BY <3>2, <2>1, <1>9
      <4>2. TrieNodes(fed.gen) \subseteq N BY <4>1, ChunkAll
      <4>3. fed.gen = State[h].root BY <4>1 DEF Account
      <4> HIDE DEF N, root
      <4> QED BY <4>2, <4>3 DEF SlotsIn
    <3> QED BY <3>1, <3>2
  <2>2. v.pend = k.pend - Cardinality(k.needState \ v.needState)
    <3>1. k.needState \ v.needState = {} BY <1>9
    <3>2. Cardinality({}) = 0 BY FS_EmptySet
    <3>3. k.pend \in Nat BY <1>5, NeedsAre
    <3> QED BY <3>1, <3>2, <3>3, <1>9
  <2>3. v.needState \subseteq k.needState /\ v.needHeal \subseteq k.hashes BY <1>5, <1>9 DEF Working
  <2> HIDE DEF S2
  <2>4. Working(v, State, S2, stored.codes) BY <2>1, <2>2, <2>3, <1>5, <1>9, StatesChange
  <2> QED BY <2>4 DEF S2
<1>12. DOMAIN v = TaskFields /\ v.gen = k.gen /\ v.filling BY <1>3, <1>9 DEF OnlyStates, k
<1>13. stored.codes \cup {} = stored.codes OBVIOUS
<1> HIDE DEF N
<1> QED BY <1>5, <1>6, <1>10, <1>11, <1>12, <1>13, SettleKeeps

\* A request is what comes before one of its accounts, that account, and the rest.
Before(req, n) == {req[i] : i \in 1..(n - 1)}
After(req, n) == {req[i] : i \in (n + 1)..Len(req)}
LEMMA RequestParts == ASSUME NEW req \in Seq(HashSpace), IsInjective(req), NEW n \in DOMAIN req
  PROVE /\ Range(req) = Before(req, n) \cup {req[n]} \cup After(req, n)
        /\ Before(req, n) \cap After(req, n) = {} /\ req[n] \notin Before(req, n) /\ req[n] \notin After(req, n)
        /\ req[n] \in Range(req)
<1>1. DOMAIN req = 1..Len(req) /\ Len(req) \in Nat OBVIOUS
<1>2. n \in Nat /\ 1 <= n /\ n <= Len(req) BY <1>1
<1>3. ASSUME NEW x PROVE x \in Range(req) <=> \E i \in 1..Len(req) : x = req[i] BY <1>1 DEF Range
<1>4. ASSUME NEW i \in 1..Len(req), NEW j \in 1..Len(req), req[i] = req[j] PROVE i = j BY <1>1, <1>4 DEF IsInjective
<1>5. ASSUME NEW i \in 1..(n - 1) PROVE i \in 1..Len(req) /\ i < n BY <1>2
<1>6. ASSUME NEW i \in (n + 1)..Len(req) PROVE i \in 1..Len(req) /\ n < i BY <1>2
<1>7. ASSUME NEW x \in Range(req) PROVE x \in Before(req, n) \cup {req[n]} \cup After(req, n)
  <2>1. PICK i \in 1..Len(req) : x = req[i] BY <1>3
  <2>2. i \in 1..(n - 1) \/ i = n \/ i \in (n + 1)..Len(req) BY <1>2
  <2> QED BY <2>1, <2>2 DEF Before, After
<1>8. ASSUME NEW x \in Before(req, n) \cup {req[n]} \cup After(req, n) PROVE x \in Range(req)
  BY <1>1, <1>3, <1>5, <1>6 DEF Before, After
<1>9. ASSUME NEW x \in Before(req, n), x = req[n] \/ x \in After(req, n) PROVE FALSE
  <2>1. PICK i \in 1..(n - 1) : x = req[i] BY DEF Before
  <2>2. PICK j \in n..Len(req) : x = req[j]
    <3>1. CASE x = req[n]
      BY <1>1, <1>2, <3>1
    <3>2. CASE x \in After(req, n)
      <4>1. PICK j \in (n + 1)..Len(req) : x = req[j] BY <3>2 DEF After
      <4>2. j \in n..Len(req) BY <1>1, <1>2
      <4> QED BY <4>1, <4>2
    <3> QED BY <3>1, <3>2, <1>9
  <2>3. i \in 1..Len(req) /\ i < n BY <1>5
  <2>4. j \in 1..Len(req) /\ n <= j BY <1>1, <1>2
  <2>5. i = j BY <2>1, <2>2, <2>3, <2>4, <1>4
  <2> QED BY <2>3, <2>4, <2>5, <1>2
<1>10. req[n] \notin After(req, n)
  <2>1. ASSUME NEW j \in (n + 1)..Len(req), req[n] = req[j] PROVE FALSE
    BY <2>1, <1>1, <1>4, <1>6, <1>2
  <2> QED BY <2>1 DEF After
<1>11. Range(req) = Before(req, n) \cup {req[n]} \cup After(req, n) BY <1>7, <1>8
<1> QED BY <1>8, <1>9, <1>10, <1>11

\* Of a request some accounts are done, one may go on in chunks, and the rest is queued.
Serves(k, v, req, n, gone, chunk) ==
  /\ OnlyStates(k, v) /\ req \in k.stateReqs /\ n \in DOMAIN req
  /\ gone \cup chunk = Before(req, n) \cup {req[n]} /\ gone \cap chunk = {}
  /\ v.stateReqs = k.stateReqs \ {req} /\ v.stateTasks = k.stateTasks \cup After(req, n)
  /\ v.needState = k.needState \ gone /\ v.pend = k.pend - Cardinality(gone)
  /\ DOMAIN v.subTasks = DOMAIN k.subTasks \cup chunk /\ v.needHeal = k.needHeal \cup chunk

LEMMA ServedSound ==
  ASSUME NEW k, NEW v, NEW req, NEW n, NEW gone, NEW chunk, Serves(k, v, req, n, gone, chunk),
         NEW S, GoodState(S), NEW slots, NEW slots2, slots \subseteq slots2, NEW codes,
         Working(k, S, slots, codes), \A g \in gone : SlotsIn(S[g].root, slots2) PROVE Working(v, S, slots2, codes)
<1>0. /\ OnlyStates(k, v) /\ req \in k.stateReqs /\ n \in DOMAIN req
      /\ gone \cup chunk = Before(req, n) \cup {req[n]} /\ gone \cap chunk = {}
      /\ v.stateReqs = k.stateReqs \ {req} /\ v.stateTasks = k.stateTasks \cup After(req, n)
      /\ v.needState = k.needState \ gone /\ v.pend = k.pend - Cardinality(gone)
      /\ DOMAIN v.subTasks = DOMAIN k.subTasks \cup chunk /\ v.needHeal = k.needHeal \cup chunk
  BY DEF Serves
<1> USE <1>0
<1> DEFINE A == After(req, n)
           Q == InReqs(v.stateReqs)
<1>1. StatesQueued(k) /\ k.needState \subseteq k.hashes /\ k.needHeal \subseteq k.hashes BY DEF Working
<1>2. ASSUME NEW r \in k.stateReqs
      PROVE /\ r \in Seq(HashSpace) /\ r # <<>> /\ IsInjective(r)
            /\ Range(r) \cap k.stateTasks = {} /\ Range(r) \cap DOMAIN k.subTasks = {}
            /\ \A s \in k.stateReqs : s = r \/ Range(s) \cap Range(r) = {}
  BY <1>1 DEF StatesQueued
<1>3. k.needState = k.stateTasks \cup InReqs(k.stateReqs) \cup DOMAIN k.subTasks
      /\ k.stateTasks \cap DOMAIN k.subTasks = {}
  BY <1>1 DEF StatesQueued
<1>4. Range(req) = gone \cup chunk \cup A /\ (gone \cup chunk) \cap A = {}
  BY <1>2, RequestParts
<1> HIDE DEF A
<1>5. ASSUME NEW h PROVE h \in InReqs(k.stateReqs) <=> h \in Q \/ h \in Range(req)
  BY ReqsHold
<1>6. Q \cap Range(req) = {}
  <2>1. ASSUME NEW h \in Q, h \in Range(req) PROVE FALSE
    <3>1. PICK r \in v.stateReqs : h \in Range(r) BY ReqsHold
    <3> QED BY <3>1, <2>1, <1>2
  <2> QED BY <2>1
<1> HIDE DEF Q
<1>7. gone \subseteq k.needState /\ chunk \subseteq k.needState BY <1>3, <1>4, <1>5
<1>8. Range(req) \cap k.stateTasks = {} /\ Range(req) \cap DOMAIN k.subTasks = {} BY <1>2
<1>9. v.stateTasks = k.stateTasks \cup A BY DEF A
<1>10. v.needState = v.stateTasks \cup Q \cup DOMAIN v.subTasks
  <2>1. ASSUME NEW h \in v.needState PROVE h \in v.stateTasks \cup Q \cup DOMAIN v.subTasks BY <1>3, <1>4, <1>5, <1>9
  <2>2. ASSUME NEW h \in v.stateTasks \cup Q \cup DOMAIN v.subTasks PROVE h \in v.needState
    BY <1>3, <1>4, <1>5, <1>6, <1>8, <1>9
  <2> QED BY <2>1, <2>2
<1>11. v.stateTasks \cap DOMAIN v.subTasks = {} BY <1>3, <1>4, <1>8, <1>9
<1>12. ASSUME NEW r \in v.stateReqs
       PROVE /\ r \in Seq(HashSpace) /\ r # <<>> /\ IsInjective(r)
             /\ Range(r) \cap v.stateTasks = {} /\ Range(r) \cap DOMAIN v.subTasks = {}
             /\ \A s \in v.stateReqs : s = r \/ Range(s) \cap Range(r) = {}
  BY <1>2, <1>4, <1>9
<1>13. StatesQueued(v) BY <1>10, <1>11, <1>12 DEF StatesQueued, Q
<1>14. v.pend = k.pend - Cardinality(k.needState \ v.needState)
  BY <1>7
<1>15. ASSUME NEW h \in v.hashes \ v.needHeal, h \notin v.needState \/ h \in DOMAIN v.subTasks
       PROVE SlotsIn(S[h].root, slots2)
  <2>1. CASE h \in gone BY <2>1
  <2>2. CASE h \notin gone
    BY <2>2, <1>15 DEF OnlyStates, Working, SlotsIn
  <2> QED BY <2>1, <2>2
<1>16. v.needHeal \subseteq k.hashes /\ v.needState \subseteq k.needState BY <1>1, <1>7
<1> QED BY <1>13, <1>14, <1>15, <1>16, StatesChange

\* A first chunk that is not all of the storage does not come to the root.
LEMMA FirstChunk ==
  ASSUME NEW root, NEW slots \in Answers(root, 0, 3) \ {DOMAIN root}, NEW last, NEW chunks, NEW more
  PROVE Fed(Split(last, chunks)[1], root, slots, more).gen # root
<1> DEFINE sub == Split(last, chunks)[1]
           kept == {s \in slots : s <= sub.last}
           cont == more /\ \A s \in slots : s < sub.last
           nx == IF cont THEN Largest(kept) + 1 ELSE sub.next
           g == [s \in DOMAIN sub.gen \cup kept |-> IF s \in DOMAIN sub.gen THEN sub.gen[s] ELSE root[s]]
           f == [sub EXCEPT !.asked = FALSE, !.done = ~cont, !.next = IF cont THEN Largest(kept) + 1 ELSE @, !.gen = g]
<1>1. slots \subseteq DOMAIN root /\ slots # DOMAIN root BY DEF Answers
<1>2. Fed(sub, root, slots, more) = f BY DEF Fed
<1>3. \E l \in {last, 3} : sub = SubTask(0, l) BY DEF Split
<1>4. sub.gen = NoLeaves /\ "gen" \in DOMAIN sub BY <1>3 DEF SubTask
<1>5. DOMAIN NoLeaves = {} BY DEF NoLeaves
<1>6. DOMAIN g = kept BY <1>4, <1>5
<1>7. kept \subseteq slots OBVIOUS
<1> HIDE DEF g, kept, cont, sub
<1>8. f.gen = g BY <1>4
<1>9. f.gen # root BY <1>1, <1>6, <1>7, <1>8
<1> HIDE DEF f
<1> QED BY <1>2, <1>9 DEF sub

\* The nodes of the storage of accounts.
NodesOf(hs) == UNION {TrieNodes(Account(g).root) : g \in hs}
LEMMA NodesOfClosed == ASSUME NEW hs
  PROVE /\ \A n \in NodesOf(hs) : SubTrie(n) \subseteq NodesOf(hs)
        /\ \A g \in hs : TrieNodes(State[g].root) \subseteq NodesOf(hs)
<1>1. ASSUME NEW g \in hs PROVE TrieNodes(State[g].root) \subseteq NodesOf(hs) BY DEF NodesOf, Account
<1>2. ASSUME NEW n \in NodesOf(hs) PROVE SubTrie(n) \subseteq NodesOf(hs)
  <2>1. PICK g \in hs : n \in TrieNodes(State[g].root) BY DEF NodesOf, Account
  <2>2. SubTrie(n) \subseteq TrieNodes(State[g].root) BY <2>1, TrieClosed
  <2> QED BY <2>2, <1>1
<1> QED BY <1>1, <1>2

LEMMA DeliverStorageKeeps == ASSUME SnapInv, NEW t \in DOMAIN tasks, DeliverStorage(t) PROVE SnapInv'
<1> DEFINE k == tasks[t]
           Task(req, n) == [k EXCEPT !.stateReqs = @ \ {req}, !.stateTasks = @ \cup After(req, n)]
           Finished(req, n, hs) == [Task(req, n) EXCEPT !.needState = @ \ hs, !.pend = @ - Cardinality(hs)]
           Whole(req, n) == Settle(t, Finished(req, n, Before(req, n) \cup {req[n]}), NodesOf(Before(req, n) \cup {req[n]}), {})
           Large(req, n) ==
             \E slots \in Answers(Account(req[n]).root, 0, 3) \ {DOMAIN Account(req[n]).root}, chunks \in 1..2, flush \in BOOLEAN :
               \E last \in Largest(slots)..2 :
                 \E fed \in {Fed(Split(last, chunks)[1], Account(req[n]).root, slots, TRUE)} :
                   Settle(t, Healed([Finished(req, n, Before(req, n)) EXCEPT
                                       !.needHeal = @ \cup {req[n]},
                                       !.subTasks = [g \in DOMAIN @ \cup {req[n]} |->
                                          IF g = req[n] THEN [Split(last, chunks) EXCEPT ![1] = fed] ELSE @[g]]],
                                 req[Len(req)], fed, Account(req[n]).root),
                          NodesOf(Before(req, n)) \cup ChunkNodes(fed, flush), {})
<1>1. \E req \in k.stateReqs : \E n \in DOMAIN req : Whole(req, n) \/ Large(req, n)
  BY DEF DeliverStorage, NodesOf, Before, After
<1> HIDE DEF Whole, Large
<1>2. PICK req \in k.stateReqs : \E n \in DOMAIN req : Whole(req, n) \/ Large(req, n) BY <1>1
<1>3. PICK n \in DOMAIN req : Whole(req, n) \/ Large(req, n) BY <1>2
<1>4. k.filling BY TaskFacts DEF Resting
<1>5. /\ DOMAIN k = TaskFields /\ GoodState(State) /\ StatesQueued(k) /\ Working(k, State, stored.slots, stored.codes)
      /\ \A h \in DOMAIN k.gen : HeldIn(k.gen[h], stored.slots, stored.codes)
  BY <1>4, FillingFacts
<1>6. stored.codes \cup {} = stored.codes OBVIOUS
<1> DEFINE B == Before(req, n)
           A == After(req, n)
           h == req[n]
           root == Account(h).root
<1>7. h \notin B
  BY <1>5, RequestParts DEF StatesQueued
<1>8. CASE Whole(req, n)
  <2> DEFINE gone == B \cup {h}
             v == Finished(req, n, gone)
             N == NodesOf(gone)
  <2>1. Settle(t, v, N, {}) BY <1>8 DEF Whole
  <2> DEFINE chunk == {}
  <2>2. gone \cup chunk = Before(req, n) \cup {req[n]} /\ gone \cap chunk = {} OBVIOUS
  <2> HIDE DEF gone, k, A, chunk
  <2>3. v = [[k EXCEPT !.stateReqs = @ \ {req}, !.stateTasks = @ \cup A] EXCEPT
               !.needState = @ \ gone, !.pend = @ - Cardinality(gone)] BY DEF A
  <2> HIDE DEF v
  <2>4. /\ OnlyStates(k, v) /\ v.stateReqs = k.stateReqs \ {req} /\ v.stateTasks = k.stateTasks \cup A
        /\ v.needState = k.needState \ gone /\ v.pend = k.pend - Cardinality(gone)
        /\ v.subTasks = k.subTasks /\ v.needHeal = k.needHeal
    BY <2>3, <1>5 DEF OnlyStates, TaskFields
  <2>5. DOMAIN v.subTasks = DOMAIN k.subTasks \cup chunk /\ v.needHeal = k.needHeal \cup chunk BY <2>4 DEF chunk
  <2> DEFINE S2 == stored.slots \cup N
  <2>6. \A g \in gone : SlotsIn(State[g].root, S2) BY NodesOfClosed DEF SlotsIn
  <2>7. stored.slots \subseteq S2 OBVIOUS
  <2>8. v.stateTasks = k.stateTasks \cup After(req, n) BY <2>4 DEF A
  <2> HIDE DEF S2, B, h, N
  <2>9. Working(v, State, S2, stored.codes)
    <3>1. Serves(k, v, req, n, gone, chunk) BY <2>2, <2>4, <2>5, <2>8 DEF Serves
    <3> QED BY <3>1, <2>6, <2>7, <1>5, ServedSound
  <2>10. \A x \in N : SubTrie(x) \subseteq N BY NodesOfClosed DEF N
  <2>11. DOMAIN v = TaskFields /\ v.gen = k.gen /\ v.filling BY <2>4, <1>4 DEF OnlyStates, k
  <2>12. Working(v, State, stored.slots \cup N, stored.codes \cup {}) BY <2>9, <1>6 DEF S2
  <2> QED BY <2>1, <2>10, <2>11, <2>12, <1>5, SettleKeeps
<1>9. CASE Large(req, n)
  <2>1. PICK slots \in Answers(root, 0, 3) \ {DOMAIN root}, chunks \in 1..2, flush \in BOOLEAN :
               \E last \in Largest(slots)..2 :
                 \E fed \in {Fed(Split(last, chunks)[1], root, slots, TRUE)} :
                   Settle(t, Healed([Finished(req, n, B) EXCEPT
                                       !.needHeal = @ \cup {h},
                                       !.subTasks = [g \in DOMAIN @ \cup {h} |->
                                          IF g = h THEN [Split(last, chunks) EXCEPT ![1] = fed] ELSE @[g]]],
                                 req[Len(req)], fed, root),
                          NodesOf(B) \cup ChunkNodes(fed, flush), {}) BY <1>9 DEF Large
  <2>2. PICK last \in Largest(slots)..2 :
                 \E fed \in {Fed(Split(last, chunks)[1], root, slots, TRUE)} :
                   Settle(t, Healed([Finished(req, n, B) EXCEPT
                                       !.needHeal = @ \cup {h},
                                       !.subTasks = [g \in DOMAIN @ \cup {h} |->
                                          IF g = h THEN [Split(last, chunks) EXCEPT ![1] = fed] ELSE @[g]]],
                                 req[Len(req)], fed, root),
                          NodesOf(B) \cup ChunkNodes(fed, flush), {}) BY <2>1
  <2> DEFINE fed == Fed(Split(last, chunks)[1], root, slots, TRUE)
             w == Finished(req, n, B)
             subs == [g \in DOMAIN w.subTasks \cup {h} |->
                        IF g = h THEN [Split(last, chunks) EXCEPT ![1] = fed] ELSE w.subTasks[g]]
             v == [w EXCEPT !.needHeal = @ \cup {h},
                                       !.subTasks = [g \in DOMAIN @ \cup {h} |->
                                          IF g = h THEN [Split(last, chunks) EXCEPT ![1] = fed] ELSE @[g]]]
             N == NodesOf(B) \cup ChunkNodes(fed, flush)
  <2>3. Settle(t, Healed(v, req[Len(req)], fed, root), N, {}) BY <2>2
  <2>4. fed.gen # root BY <2>1, FirstChunk
  <2>5. Healed(v, req[Len(req)], fed, root) = v BY <2>4 DEF Healed
  <2>6. v = [w EXCEPT !.needHeal = @ \cup {h}, !.subTasks = subs] OBVIOUS
  <2> HIDE DEF k, A, B, h
  <2>7. w = [[k EXCEPT !.stateReqs = @ \ {req}, !.stateTasks = @ \cup A] EXCEPT
               !.needState = @ \ B, !.pend = @ - Cardinality(B)] BY DEF A
  <2> HIDE DEF w, v, fed
  <2>71. /\ OnlyStates(k, w) /\ w.stateReqs = k.stateReqs \ {req} /\ w.stateTasks = k.stateTasks \cup A
         /\ w.needState = k.needState \ B /\ w.pend = k.pend - Cardinality(B)
         /\ w.subTasks = k.subTasks /\ w.needHeal = k.needHeal
    BY <2>7, <1>5 DEF OnlyStates, TaskFields
  <2>72. DOMAIN subs = DOMAIN k.subTasks \cup {h} BY <2>71
  <2> HIDE DEF subs
  <2>8. /\ OnlyStates(k, v) /\ v.stateReqs = k.stateReqs \ {req} /\ v.stateTasks = k.stateTasks \cup A
        /\ v.needState = k.needState \ B /\ v.pend = k.pend - Cardinality(B)
        /\ v.subTasks = subs /\ v.needHeal = k.needHeal \cup {h}
    BY <2>71, <2>6 DEF OnlyStates, TaskFields
  <2> DEFINE S2 == stored.slots \cup N
             chunk == {h}
  <2>9. \A g \in B : SlotsIn(State[g].root, S2) BY NodesOfClosed DEF SlotsIn
  <2>10. B \cup chunk = Before(req, n) \cup {req[n]} /\ B \cap chunk = {} BY <1>7 DEF B, h
  <2>11. stored.slots \subseteq S2 OBVIOUS
  <2>12. v.stateTasks = k.stateTasks \cup After(req, n) BY <2>8 DEF A
  <2>13. DOMAIN v.subTasks = DOMAIN k.subTasks \cup chunk /\ v.needHeal = k.needHeal \cup chunk BY <2>72, <2>8 DEF chunk
  <2> HIDE DEF S2, chunk
  <2>14. Working(v, State, S2, stored.codes)
    <3>1. Serves(k, v, req, n, B, chunk) BY <2>8, <2>10, <2>12, <2>13 DEF Serves
    <3> QED BY <3>1, <2>9, <2>11, <1>5, ServedSound
  <2>15. \A x \in N : SubTrie(x) \subseteq N
    BY NodesOfClosed, ChunkClosed
  <2>16. DOMAIN v = TaskFields /\ v.gen = k.gen /\ v.filling BY <2>8, <1>4 DEF OnlyStates, k
  <2>17. Settle(t, v, N, {}) BY <2>3, <2>5
  <2> HIDE DEF N
  <2>18. Working(v, State, stored.slots \cup N, stored.codes \cup {}) BY <2>14, <1>6 DEF S2
  <2> QED BY <2>15, <2>16, <2>17, <2>18, <1>5, SettleKeeps
<1> QED BY <1>3, <1>8, <1>9

\* What was walked goes on, on disk or not.
LEMMA ProceedKeeps ==
  ASSUME SnapInv, NEW w, WalkSound(w, stored), healer.reqs \cup healer.mem \subseteq w.reqs \cup w.mem,
         Proceed(Committed(w)) PROVE SnapInv'
<1> DEFINE c == Committed(w)
<1>1. WalkSound(c, stored) /\ c.reqs \cup c.mem = w.reqs \cup w.mem BY CommitSound
<1>2. /\ \/ healer' = c /\ UNCHANGED stored
         \/ healer' = [c EXCEPT !.mem = {}, !.memCodes = {}] /\ stored' = Flushed(c)
      /\ UNCHANGED <<tasks, pivot, syncing, saved, synced, cycles, reverts, syncKills>>
  BY DEF Proceed
<1> HIDE DEF c
<1>3. State' = State BY <1>2 DEF State
<1>4. syncing => RootSought(c, stored, State) BY <1>1 DEF SnapInv, RootSought
<1>5. CASE healer' = c /\ UNCHANGED stored BY <1>1, <1>2, <1>3, <1>4, <1>5 DEF SnapInv
<1>6. CASE healer' = [c EXCEPT !.mem = {}, !.memCodes = {}] /\ stored' = Flushed(c)
  <2>1. FlushedOn(c, stored, stored') /\ DOMAIN stored' = {"accounts", "slots", "codes"} BY <1>6 DEF Flushed, FlushedOn
  <2>2. DiskWhole(stored) BY DEF SnapInv
  <2>3. DiskWhole(stored') BY <2>1, <2>2, <1>1, FlushWhole
  <2> DEFINE v == healer'
  <2>4. DOMAIN c = WalkFields BY <1>1 DEF WalkSound
  <2>5. DOMAIN v = WalkFields /\ v.reqs = c.reqs /\ v.got = c.got /\ v.waits = c.waits /\ v.mem = {} /\ v.memCodes = {}
    BY <1>6, <2>4 DEF WalkFields
  <2>6. stored.accounts \subseteq stored'.accounts /\ stored.slots \subseteq stored'.slots
        /\ stored.codes \subseteq stored'.codes /\ \A r \in c.mem : On(stored', r[1], NodeOf(r))
    BY <2>1, FlushedHas
  <2> HIDE DEF v
  <2>7. WalkSound(v, stored') BY <2>1, <2>5, <1>1, WalkFlushed
  <2>8. syncing => RootSought(v, stored', State)
    <3> SUFFICES ASSUME syncing PROVE RootSought(v, stored', State) OBVIOUS
    <3> DEFINE r == Request(Accounts, TrieRoot(State))
    <3>1. TrieRoot(State) \in stored.accounts \/ r \in c.reqs \/ r \in c.mem BY <1>4 DEF RootSought
    <3>2. r[1] = Accounts /\ NodeOf(r) = TrieRoot(State)
      BY RootIs, RequestIs
    <3> HIDE DEF r
    <3>3. CASE r \in c.mem
      BY <3>2, <3>3, <2>6 DEF On, RootSought
    <3>4. r \in c.reqs => RootSought(v, stored', State) BY <2>5 DEF RootSought, r
    <3>5. TrieRoot(State) \in stored.accounts => RootSought(v, stored', State) BY <2>6 DEF RootSought
    <3> QED BY <3>1, <3>3, <3>4, <3>5
  <2>9. /\ \A p \in synced : TrieNodes(States[p]) \subseteq stored'.accounts
                            /\ \A h \in DOMAIN States[p] : HeldIn(States[p][h], stored'.slots, stored'.codes)
        /\ \A u \in DOMAIN tasks : TaskSound(tasks[u], State, stored'.slots, stored'.codes)
    BY <2>6, MoreOnDisk
  <2>10. WalkSound(healer', stored') /\ (syncing => RootSought(healer', stored', State)) BY <2>7, <2>8 DEF v
  <2> QED BY <2>1, <2>3, <2>9, <2>10, <1>2, <1>3 DEF SnapInv
<1> QED BY <1>2, <1>5, <1>6

LEMMA HealNodeKeeps == ASSUME SnapInv, HealNode PROVE SnapInv'
<1>1. PICK req \in healer.reqs \ healer.got : Proceed(Committed(Fetched(req))) BY DEF HealNode, Fetched
<1>2. WalkSound(healer, stored) BY DEF SnapInv
<1> DEFINE w == Fetched(req)
<1>3. WalkSound(w, stored) /\ healer.reqs \cup healer.mem \subseteq w.reqs \cup w.mem BY <1>2, FetchSound
<1>4. Proceed(Committed(w)) BY <1>1
<1> HIDE DEF w
<1> QED BY <1>3, <1>4, ProceedKeeps

LEMMA HealCodeKeeps == ASSUME SnapInv, HealCode PROVE SnapInv'
<1>1. PICK code \in healer.codes : Proceed(Committed(CodeFetched(code))) BY DEF HealCode, CodeFetched
<1>2. WalkSound(healer, stored) BY DEF SnapInv
<1> DEFINE w == CodeFetched(code)
<1>3. WalkSound(w, stored) /\ healer.reqs \cup healer.mem \subseteq w.reqs \cup w.mem BY <1>2, CodeSound
<1>4. Proceed(Committed(w)) BY <1>1
<1> HIDE DEF w
<1> QED BY <1>3, <1>4, ProceedKeeps

\* A state whose root is on disk is there as a whole.
LEMMA RootMeansAll ==
  ASSUME NEW S, GoodState(S), NEW disc, DiskWhole(disc), TrieRoot(S) \in disc.accounts
  PROVE TrieNodes(S) \subseteq disc.accounts /\ \A h \in DOMAIN S : HeldIn(S[h], disc.slots, disc.codes)
<1>1. SubTrie(TrieRoot(S)) \subseteq disc.accounts
      /\ \A h \in DOMAIN TrieRoot(S)[2] : HeldIn(TrieRoot(S)[2][h], disc.slots, disc.codes)
  BY DEF DiskWhole
<1>2. TrieNodes(S) \subseteq disc.accounts BY <1>1, RootHolds DEF GoodState
<1>3. TrieRoot(S)[2] = S BY RootIs
<1> QED BY <1>1, <1>2, <1>3

\* Saved tasks, and none, are sound whatever the pivot.
LEMMA SavedSound == ASSUME NEW k, TaskSaved(k), NEW S, NEW slots, NEW codes PROVE TaskSound(k, S, slots, codes)
BY DEF TaskSaved, TaskSound, NoLeaves

LEMMA FreshSaved ==
  ASSUME NEW first, NEW last, NEW subs, NEW done, \A h \in DOMAIN subs : \A i \in DOMAIN subs[h] : ~subs[h][i].asked
  PROVE TaskSaved(AccountTask(first, last, subs, done)) BY DEF AccountTask, TaskSaved, Resting, TaskFields

LEMMA EmptySaved == ASSUME NEW first, NEW last, NEW done PROVE TaskSaved(AccountTask(first, last, NoLeaves, done))
<1> DEFINE subs == NoLeaves
<1>1. \A h \in DOMAIN subs : \A i \in DOMAIN subs[h] : ~subs[h][i].asked BY DEF NoLeaves
<1> HIDE DEF subs
<1>2. TaskSaved(AccountTask(first, last, subs, done)) BY <1>1, FreshSaved
<1> QED BY <1>2 DEF subs

LEMMA NothingSound == ASSUME NEW S, NEW slots, NEW codes
  PROVE \A t \in DOMAIN Nothing : TaskSound(Nothing[t], S, slots, codes)
<1>1. ASSUME NEW t \in DOMAIN Nothing PROVE TaskSound(Nothing[t], S, slots, codes)
  BY EmptySaved, SavedSound DEF Nothing
<1> QED BY <1>1

\* A cycle begins.
LEMMA StartCycleKeeps == ASSUME SnapInv, NEW p \in DOMAIN States, StartCycle(p) PROVE SnapInv'
<1>1. /\ pivot' = p /\ tasks' = saved /\ healer' = NewHealer(States[p]) /\ stored' = stored /\ saved' = saved
      /\ syncing' = ~(AllDone' /\ healer'.reqs = {})
      /\ synced' = IF syncing' THEN synced ELSE synced \cup {p}
  BY DEF StartCycle
<1>2. State' = States[p] BY <1>1 DEF State
<1>3. GoodState(States[p]) BY StatesGood
<1>4. /\ WalkSound(NewHealer(States[p]), stored) /\ RootSought(NewHealer(States[p]), stored, States[p])
      /\ NewHealer(States[p]).mem = {}
  BY <1>3, WalkBegins DEF GoodState
<1>5. ASSUME NEW q \in synced'
      PROVE /\ q \in DOMAIN States /\ TrieNodes(States[q]) \subseteq stored.accounts
            /\ \A h \in DOMAIN States[q] : HeldIn(States[q][h], stored.slots, stored.codes)
  <2>1. CASE q \in synced BY <2>1 DEF SnapInv
  <2>2. CASE q \notin synced
    BY <2>2, <1>1, <1>5, <1>4, <1>3, RootMeansAll DEF RootSought, SnapInv
  <2> QED BY <2>1, <2>2
<1>6. ASSUME NEW t \in DOMAIN tasks' PROVE TaskSound(tasks'[t], States[p], stored.slots, stored.codes)
  BY <1>1, SavedSound DEF SnapInv
<1>7. WalkSound(healer', stored) /\ RootSought(healer', stored, States[p]) BY <1>1, <1>4
<1>8. synced' \subseteq DOMAIN States BY <1>5
<1> QED BY <1>1, <1>2, <1>5, <1>6, <1>7, <1>8 DEF SnapInv

LEMMA KillSyncKeeps == ASSUME SnapInv, KillSync PROVE SnapInv'
<1>1. /\ tasks' = Nothing /\ healer' = NoHealer /\ syncing' = FALSE
      /\ pivot' = pivot /\ stored' = stored /\ saved' = saved /\ synced' = synced
  BY DEF KillSync
<1>2. State' = State BY <1>1 DEF State
<1>3. \A t \in DOMAIN tasks' : TaskSound(tasks'[t], State, stored.slots, stored.codes) BY <1>1, NothingSound
<1>4. WalkSound(healer', stored) BY <1>1, EmptyWalk
<1> QED BY <1>1, <1>2, <1>3, <1>4 DEF SnapInv

\* The tasks as a cycle leaves them.
Forwards == [t \in DOMAIN tasks |-> IF tasks[t].filling THEN Forwarded(tasks[t]) ELSE tasks[t]]
AccountsLeft == UNION {GenNodes(Forwards[t].gen, Forwards[t].done) : t \in DOMAIN tasks}
SlotsLeft == UNION {UNION {ClosedNodes(Chunk(tasks[t], p).gen) : p \in Chunks(tasks[t])} : t \in DOMAIN tasks}

LEMMA ForwardsSound == ASSUME SnapInv, NEW t \in DOMAIN tasks
  PROVE \A h \in DOMAIN Forwards[t].gen : HeldIn(Forwards[t].gen[h], stored.slots, stored.codes)
<1> DEFINE k == tasks[t]
<1>1. /\ DOMAIN k = TaskFields /\ GoodState(State) /\ k.filling => Working(k, State, stored.slots, stored.codes)
      /\ \A h \in DOMAIN k.gen : HeldIn(k.gen[h], stored.slots, stored.codes)
  BY TaskFacts
<1>2. Forwards[t] = IF k.filling THEN Forwarded(k) ELSE k BY DEF Forwards
<1> HIDE DEF k
<1>3. CASE k.filling
  BY <1>3, FillingFacts, ForwardedSound, <1>2 DEF k
<1>4. CASE ~k.filling
  BY <1>2, <1>4, TaskFacts DEF k
<1> QED BY <1>3, <1>4

LEMMA AccountsLeftWhole == ASSUME SnapInv, NEW n \in AccountsLeft
  PROVE SubTrie(n) \subseteq AccountsLeft /\ \A h \in DOMAIN n[2] : HeldIn(n[2][h], stored.slots, stored.codes)
<1>1. PICK t \in DOMAIN tasks : n \in GenNodes(Forwards[t].gen, Forwards[t].done) BY DEF AccountsLeft
<1> DEFINE gen == Forwards[t].gen
           done == Forwards[t].done
<1>2. \A h \in DOMAIN gen : HeldIn(gen[h], stored.slots, stored.codes) BY ForwardsSound
<1>3. n \in GenNodes(gen, done) /\ GenNodes(gen, done) \subseteq AccountsLeft BY <1>1 DEF AccountsLeft
<1> HIDE DEF gen, done
<1>4. /\ SubTrie(n) \subseteq GenNodes(gen, done)
      /\ DOMAIN n[2] \subseteq DOMAIN gen /\ \A h \in DOMAIN n[2] : n[2][h] = gen[h]
  BY <1>3, GenClosed
<1> QED BY <1>2, <1>3, <1>4

LEMMA SlotsLeftWhole == ASSUME NEW n \in SlotsLeft PROVE SubTrie(n) \subseteq SlotsLeft
<1>1. PICK t \in DOMAIN tasks : n \in UNION {ClosedNodes(Chunk(tasks[t], p).gen) : p \in Chunks(tasks[t])} BY DEF SlotsLeft
<1>2. PICK p \in Chunks(tasks[t]) : n \in ClosedNodes(Chunk(tasks[t], p).gen) BY <1>1
<1> DEFINE gen == Chunk(tasks[t], p).gen
<1>3. ClosedNodes(gen) \subseteq SlotsLeft
  BY DEF SlotsLeft
<1>4. n \in ClosedNodes(gen) BY <1>2
<1> HIDE DEF gen
<1>5. GenNodes(gen, FALSE) = ClosedNodes(gen) BY DEF GenNodes
<1>6. n \in GenNodes(gen, FALSE) BY <1>4, <1>5
<1>7. SubTrie(n) \subseteq GenNodes(gen, FALSE) BY <1>6, GenClosed
<1> QED BY <1>3, <1>5, <1>7

LEMMA KeptSaved == ASSUME NEW k PROVE TaskSaved(Kept(k))
<1>1. CASE k.done
  BY <1>1, EmptySaved DEF Kept
<1>2. CASE ~k.done
  <2> DEFINE subs == [h \in DOMAIN k.subTasks |->
                        [i \in DOMAIN k.subTasks[h] |-> SubTask(k.subTasks[h][i].next, k.subTasks[h][i].last)]]
  <2>1. Kept(k) = AccountTask(k.next, k.last, subs, FALSE) BY <1>2 DEF Kept
  <2>2. \A h \in DOMAIN subs : \A i \in DOMAIN subs[h] : ~subs[h][i].asked BY DEF SubTask
  <2> HIDE DEF subs
  <2> QED BY <2>1, <2>2, FreshSaved
<1> QED BY <1>1, <1>2

\* What is on disk after a cycle.
LEMMA LeaveDisk == ASSUME SnapInv, NEW last, Leave(last)
  PROVE /\ DOMAIN stored' = {"accounts", "slots", "codes"} /\ DiskWhole(stored')
        /\ stored.accounts \subseteq stored'.accounts /\ stored.slots \subseteq stored'.slots
        /\ stored.codes \subseteq stored'.codes /\ \A r \in healer.mem : On(stored', r[1], NodeOf(r))
<1> DEFINE new == Flushed(healer)
<1>1. FlushedOn(healer, stored, new) /\ DOMAIN new = {"accounts", "slots", "codes"} BY DEF Flushed, FlushedOn
<1>2. stored' = [new EXCEPT !.accounts = @ \cup AccountsLeft, !.slots = @ \cup SlotsLeft]
  BY DEF Leave, AccountsLeft, SlotsLeft, Forwards
<1> HIDE DEF new
<1>3. /\ DOMAIN stored' = {"accounts", "slots", "codes"} /\ stored'.accounts = new.accounts \cup AccountsLeft
      /\ stored'.slots = new.slots \cup SlotsLeft /\ stored'.codes = new.codes
  BY <1>1, <1>2
<1>4. WalkSound(healer, stored) /\ DiskWhole(stored) BY DEF SnapInv
<1>5. DiskWhole(new) BY <1>1, <1>4, FlushWhole
<1>6. /\ stored.accounts \subseteq new.accounts /\ stored.slots \subseteq new.slots /\ stored.codes \subseteq new.codes
      /\ \A r \in healer.mem : On(new, r[1], NodeOf(r))
  BY <1>1, FlushedHas
<1>7. \A r \in healer.mem : On(stored', r[1], NodeOf(r)) BY <1>3, <1>6 DEF On
<1> DEFINE S2 == stored'.slots
           C2 == stored'.codes
<1>8. /\ new.slots \subseteq S2 /\ new.codes \subseteq C2 /\ stored.slots \subseteq S2 /\ stored.codes \subseteq C2
      /\ new.accounts \subseteq stored'.accounts
  BY <1>3, <1>6
<1>9. ASSUME NEW n \in S2 PROVE SubTrie(n) \subseteq S2
  <2>1. CASE n \in new.slots
    BY <2>1, <1>5, <1>8 DEF DiskWhole
  <2>2. CASE n \in SlotsLeft
    BY <2>2, SlotsLeftWhole, <1>3
  <2> QED BY <2>1, <2>2, <1>3, <1>9
<1> HIDE DEF S2, C2
<1>10. ASSUME NEW n \in stored'.accounts
       PROVE SubTrie(n) \subseteq stored'.accounts /\ \A h \in DOMAIN n[2] : HeldIn(n[2][h], S2, C2)
  <2>1. CASE n \in new.accounts
    BY <2>1, <1>5, <1>8, HeldMore DEF DiskWhole
  <2>2. CASE n \in AccountsLeft
    BY <2>2, AccountsLeftWhole, <1>3, <1>8, HeldMore
  <2> QED BY <2>1, <2>2, <1>3, <1>10
<1>11. DiskWhole(stored') BY <1>9, <1>10 DEF DiskWhole, S2, C2
<1> QED BY <1>3, <1>6, <1>7, <1>8, <1>11 DEF S2, C2

LEMMA LeaveKeeps ==
  ASSUME SnapInv, NEW last, Leave(last), last \subseteq DOMAIN States,
         \A p \in last \ synced : TrieRoot(States[p]) \in stored'.accounts PROVE SnapInv'
<1>1. /\ tasks' = Nothing /\ syncing' = FALSE /\ healer' = NoHealer /\ synced' = last /\ pivot' = pivot
      /\ saved' = [t \in DOMAIN tasks |-> Kept(Forwards[t])]
  BY DEF Leave, Forwards
<1>2. State' = State BY <1>1 DEF State
<1>3. /\ DOMAIN stored' = {"accounts", "slots", "codes"} /\ DiskWhole(stored')
      /\ stored.accounts \subseteq stored'.accounts /\ stored.slots \subseteq stored'.slots
      /\ stored.codes \subseteq stored'.codes
  BY LeaveDisk
<1>4. ASSUME NEW p \in last
      PROVE TrieNodes(States[p]) \subseteq stored'.accounts
            /\ \A h \in DOMAIN States[p] : HeldIn(States[p][h], stored'.slots, stored'.codes)
  <2>1. CASE p \in synced BY <2>1, <1>3, MoreOnDisk
  <2>2. CASE p \notin synced
    BY <2>2, <1>4, StatesGood, <1>3, RootMeansAll
  <2> QED BY <2>1, <2>2
<1>5. \A t \in DOMAIN tasks' : TaskSound(tasks'[t], State, stored'.slots, stored'.codes) BY <1>1, NothingSound
<1>6. \A t \in DOMAIN saved' : TaskSaved(saved'[t]) BY <1>1, KeptSaved
<1>7. WalkSound(healer', stored') BY <1>1, EmptyWalk
<1>8. pivot \in DOMAIN States BY DEF SnapInv
<1> QED BY <1>1, <1>2, <1>3, <1>4, <1>5, <1>6, <1>7, <1>8 DEF SnapInv

LEMMA StopCycleKeeps == ASSUME SnapInv, StopCycle PROVE SnapInv'
<1> DEFINE last == synced
<1>1. Leave(last) /\ last \subseteq DOMAIN States /\ last \ synced = {} BY DEF StopCycle, SnapInv
<1> HIDE DEF last
<1> QED BY <1>1, LeaveKeeps

LEMMA EndCycleKeeps == ASSUME SnapInv, EndCycle PROVE SnapInv'
<1> DEFINE last == synced \cup {pivot}
<1>1. Leave(last) /\ syncing /\ healer.reqs = {} BY DEF EndCycle
<1>2. pivot \in DOMAIN States /\ synced \subseteq DOMAIN States /\ RootSought(healer, stored, State) BY <1>1 DEF SnapInv
<1>3. last \subseteq DOMAIN States /\ last \ synced \subseteq {pivot} BY <1>2
<1> HIDE DEF last
<1>4. stored.accounts \subseteq stored'.accounts /\ \A r \in healer.mem : On(stored', r[1], NodeOf(r)) BY <1>1, LeaveDisk
<1>5. TrieRoot(State) \in stored'.accounts
  <2> DEFINE r == Request(Accounts, TrieRoot(State))
  <2>1. TrieRoot(State) \in stored.accounts \/ r \in healer.mem BY <1>1, <1>2 DEF RootSought
  <2>2. r[1] = Accounts /\ NodeOf(r) = TrieRoot(State)
    BY RootIs, RequestIs
  <2> HIDE DEF r
  <2>3. r \in healer.mem => On(stored', Accounts, TrieRoot(State)) BY <2>2, <1>4
  <2> QED BY <2>1, <2>3, <1>4 DEF On
<1>6. \A p \in last \ synced : TrieRoot(States[p]) \in stored'.accounts BY <1>3, <1>5 DEF State
<1> QED BY <1>1, <1>3, <1>6, LeaveKeeps

LEMMA InitSound == ASSUME SyncInit PROVE SnapInv
<1>1. /\ tasks = Nothing /\ pivot = 1 /\ syncing = FALSE /\ healer = NoHealer
      /\ stored = [accounts |-> {}, slots |-> {}, codes |-> {}] /\ saved = FreshTasks /\ synced = {}
  BY DEF SyncInit
<1>2. 1 \in DOMAIN States BY SnapSyncAssumption
<1>3. DiskWhole(stored) /\ DOMAIN stored = {"accounts", "slots", "codes"} BY <1>1 DEF DiskWhole
<1>4. \A t \in DOMAIN tasks : TaskSound(tasks[t], State, stored.slots, stored.codes) BY <1>1, NothingSound
<1>5. ASSUME NEW t \in DOMAIN saved PROVE TaskSaved(saved[t])
  BY <1>1, EmptySaved DEF FreshTasks
<1>6. WalkSound(healer, stored) BY <1>1, EmptyWalk
<1> QED BY <1>1, <1>2, <1>3, <1>4, <1>5, <1>6 DEF SnapInv

LEMMA SyncStep == ASSUME SnapInv, [SyncNext]_syncVars PROVE SnapInv'
<1>1. CASE UNCHANGED syncVars
  BY <1>1 DEF syncVars, State, SnapInv
<1>2. ASSUME NEW p \in DOMAIN States, StartCycle(p) PROVE SnapInv' BY <1>2, StartCycleKeeps
<1>3. CASE StopCycle BY <1>3, StopCycleKeeps
<1>4. CASE EndCycle BY <1>4, EndCycleKeeps
<1>5. CASE KillSync BY <1>5, KillSyncKeeps
<1>6. CASE HealNode BY <1>6, HealNodeKeeps
<1>7. CASE HealCode BY <1>7, HealCodeKeeps
<1>8. ASSUME NEW t \in DOMAIN tasks,
             \/ AskAccounts(t) \/ DeliverAccounts(t) \/ RevertAccounts(t)
             \/ AskCodes(t) \/ DeliverCodes(t) \/ RevertCodes(t)
             \/ AskChunk(t) \/ DeliverChunk(t)
             \/ AskStorage(t) \/ DeliverStorage(t) \/ RevertStorage(t)
      PROVE SnapInv'
  <2>1. CASE AskAccounts(t) BY <2>1, AskAccountsKeeps
  <2>2. CASE DeliverAccounts(t) BY <2>2, DeliverAccountsKeeps
  <2>3. CASE RevertAccounts(t) BY <2>3, RevertAccountsKeeps
  <2>4. CASE AskCodes(t) BY <2>4, AskCodesKeeps
  <2>5. CASE DeliverCodes(t) BY <2>5, DeliverCodesKeeps
  <2>6. CASE RevertCodes(t) BY <2>6, RevertCodesKeeps
  <2>7. CASE AskChunk(t) BY <2>7, AskChunkKeeps
  <2>8. CASE DeliverChunk(t) BY <2>8, DeliverChunkKeeps
  <2>9. CASE AskStorage(t) BY <2>9, AskStorageKeeps
  <2>10. CASE DeliverStorage(t) BY <2>10, DeliverStorageKeeps
  <2>11. CASE RevertStorage(t) BY <2>11, RevertStorageKeeps
  <2> QED BY <1>8, <2>1, <2>2, <2>3, <2>4, <2>5, <2>6, <2>7, <2>8, <2>9, <2>10, <2>11
<1> QED BY <1>1, <1>2, <1>3, <1>4, <1>5, <1>6, <1>7, <1>8 DEF SyncNext

\* What the invariant says of a task that waits.
LEMMA TaskPromises == ASSUME SnapInv, NEW t \in DOMAIN tasks
  PROVE /\ tasks[t].needCode \cup tasks[t].needState \cup tasks[t].needHeal \subseteq tasks[t].hashes
        /\ tasks[t].pend \in Nat
        /\ tasks[t].filling =>
             /\ tasks[t].pend = Cardinality(tasks[t].needCode) + Cardinality(tasks[t].needState) /\ tasks[t].pend > 0
             /\ tasks[t].needState = tasks[t].stateTasks \cup InReqs(tasks[t].stateReqs) \cup DOMAIN tasks[t].subTasks
             /\ {Account(h).code : h \in tasks[t].needCode} = tasks[t].codeTasks \cup UNION tasks[t].codeReqs
<1>1. CASE tasks[t].filling
  <2> DEFINE k == tasks[t]
  <2>1. /\ Working(k, State, stored.slots, stored.codes) /\ StatesQueued(k) /\ GoodState(State) BY <1>1, FillingFacts
  <2>2. k.pend > 0 BY <1>1, TaskFacts
  <2> HIDE DEF k
  <2>3. CodesQueued(k, State) /\ k.needCode \subseteq k.hashes /\ k.needState \subseteq k.hashes
        /\ k.needHeal \subseteq k.hashes
    BY <2>1 DEF Working
  <2>4. k.pend \in Nat /\ k.pend = Cardinality(k.needCode) + Cardinality(k.needState) BY <2>1, NeedsAre
  <2>5. k.needState = k.stateTasks \cup InReqs(k.stateReqs) \cup DOMAIN k.subTasks BY <2>1 DEF StatesQueued
  <2>6. {Account(h).code : h \in k.needCode} = k.codeTasks \cup UNION k.codeReqs BY <2>3 DEF CodesQueued, Account
  <2>7. /\ k.needCode \cup k.needState \cup k.needHeal \subseteq k.hashes /\ k.pend \in Nat
        /\ k.pend = Cardinality(k.needCode) + Cardinality(k.needState) /\ k.pend > 0
        /\ k.needState = k.stateTasks \cup InReqs(k.stateReqs) \cup DOMAIN k.subTasks
        /\ {Account(h).code : h \in k.needCode} = k.codeTasks \cup UNION k.codeReqs
    BY <2>2, <2>3, <2>4, <2>5, <2>6
  <2> QED BY <2>7 DEF k
<1>2. CASE ~tasks[t].filling
  BY <1>2, TaskFacts DEF Resting
<1> QED BY <1>1, <1>2

LEMMA SyncPromises == ASSUME SnapInv PROVE SyncSound
<1>1. SyncTypeOK
  BY TaskPromises DEF SnapInv, WalkSound, SyncTypeOK
<1>2. ASSUME NEW a PROVE HeldIn(a, stored.slots, stored.codes) <=> Held(a) BY DEF HeldIn, Held, SlotsIn
<1>3. SubtreesWhole
  BY <1>2 DEF SnapInv, DiskWhole, SubtreesWhole
<1>4. \A p \in synced : TrieNodes(States[p]) \subseteq stored.accounts /\ \A h \in DOMAIN States[p] : Held(States[p][h])
  BY <1>2 DEF SnapInv
<1>5. NothingForgotten
  <2> SUFFICES ASSUME NEW t \in DOMAIN tasks, tasks[t].filling
               PROVE LET task == tasks[t]
                         queued == task.stateTasks \cup (UNION {Range(req) : req \in task.stateReqs}) \cup DOMAIN task.subTasks
                     IN /\ task.pend = Cardinality(task.needCode) + Cardinality(task.needState) /\ task.pend > 0
                        /\ task.needState = queued
                        /\ {Account(h).code : h \in task.needCode} = task.codeTasks \cup UNION task.codeReqs
    BY DEF NothingForgotten
  <2>1. /\ tasks[t].pend = Cardinality(tasks[t].needCode) + Cardinality(tasks[t].needState) /\ tasks[t].pend > 0
        /\ tasks[t].needState = tasks[t].stateTasks \cup InReqs(tasks[t].stateReqs) \cup DOMAIN tasks[t].subTasks
        /\ {Account(h).code : h \in tasks[t].needCode} = tasks[t].codeTasks \cup UNION tasks[t].codeReqs
    BY TaskPromises
  <2>2. InReqs(tasks[t].stateReqs) = UNION {Range(req) : req \in tasks[t].stateReqs} BY DEF InReqs
  <2> QED BY <2>1, <2>2
<1> QED BY <1>1, <1>3, <1>4, <1>5 DEF SyncSound, SyncedWhole

\* What was synced is there as a whole, a node on disk stands for all there is under it,
\* and what a task waits for is queued, asked for or in chunks, whatever the states of the
\* pivots are, in which order answers come, and however often the sync stops or is killed
\* (forwardAccountTask, processStorageResponse, the revert functions, the healer's commits).
THEOREM SyncIsSound == SyncSpec => []SyncSound
<1>1. SyncInit => SnapInv BY InitSound
<1>2. SnapInv /\ [SyncNext]_syncVars => SnapInv' BY SyncStep
<1>3. SnapInv => SyncSound BY SyncPromises
<1> QED BY <1>1, <1>2, <1>3, PTL DEF SyncSpec
=============================================================================
