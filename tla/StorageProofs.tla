--------------------------- MODULE StorageProofs ----------------------------
(***************************************************************************)
(* What is kept in the background, for any instance: the cache of trie nodes*)
(* never loses what a state needs, and the indices over sections of the    *)
(* chain tell of the canonical one.                                        *)
(***************************************************************************)
EXTENDS TrieDatabase, ChainIndexer, FiniteSetTheorems, NaturalsInduction, WellFoundedInduction, TLAPS

-----------------------------------------------------------------------------
(* The trie node cache.                                                    *)

\* What the operations are.
Kinds == {"idle", "insert", "link", "drop", "cap", "commit"}

\* What an operation is about.
OpTypeOK ==
  op \in [kind : Kinds, root : Nodes \cup {Zero}, todo : SUBSET Nodes, new : SUBSET Nodes,
          done : SUBSET Nodes, refs : SUBSET (Nodes \X Nodes)]

\* The types of the fields.
TypesOK ==
  /\ dirties \subseteq Nodes /\ disk \subseteq Nodes /\ clock \in Nat
  /\ parents \in [Nodes -> Nat] /\ rooted \in [Nodes -> Nat] /\ users \in [Nodes -> Nat]
  /\ children \in [Nodes -> SUBSET Nodes] /\ age \in [Nodes -> Nat]
  /\ OpTypeOK

\* An update inserts a node after all it refers to.
UpdateSound ==
  /\ op.kind = "insert" =>
       /\ op.root \in op.new /\ op.todo \subseteq op.new /\ op.new \ op.todo \subseteq Have
       /\ \A n \in op.todo : Refs(n) \subseteq op.todo \cup Have
  /\ op.kind = "link" => op.root \in op.new /\ op.todo \subseteq op.new /\ op.new \subseteq Have

\* References still to be counted down belong to nodes that are freed.
DropSound ==
  /\ op.kind # "drop" => op.refs = {}
  /\ \A p, n \in Nodes : <<p, n>> \in op.refs => p \notin dirties

\* Written nodes are on disk; what a commit writes is cached and refers to nothing
\* that would neither be written nor on disk.
FlushSound ==
  /\ op.kind \in {"cap", "commit"} => op.done \subseteq disk
  /\ op.kind = "commit" =>
       /\ op.todo \subseteq dirties /\ op.todo \cap op.done = {}
       /\ \A n \in op.todo : Recorded(n) \cap dirties \subseteq op.todo \cup disk

\* An account node counts the storage tries that are only in memory, once it is linked.
StorageLinked ==
  /\ \A p \in Nodes : children[p] \subseteq Storage[p]
  /\ \A p \in dirties : \A n \in Storage[p] \cap dirties :
       \/ n \in disk \/ n \in children[p]
       \/ op.kind = "insert" /\ p \in op.new
       \/ op.kind = "link" /\ p \in op.todo

\* A node that is only in memory is older than all that refer to it.
OldestFirst ==
  /\ \A n \in dirties : age[n] < clock
  /\ \A p \in dirties : \A n \in Refs(p) \cap dirties : n \in disk \/ age[n] < age[p]

\* The metaroot counts the users of a root that is only in memory.
UsersCounted ==
  /\ \A n \in Nodes : rooted[n] > 0 => n \in Have
  /\ \A n \in dirties \ disk : rooted[n] = users[n]

\* The inductive invariant.
IInv ==
  /\ TypesOK /\ UpdateSound /\ DropSound /\ FlushSound /\ StorageLinked
  /\ OldestFirst /\ UsersCounted /\ CountsExact /\ StatesKept

-----------------------------------------------------------------------------
(* Counting.                                                               *)

\* One more or one less that refers to a node.
LEMMA CountOne ==
  ASSUME NEW n \in Nodes
  PROVE  /\ IsFiniteSet(Referents(n)) /\ Cardinality(Referents(n)) \in Nat
         /\ \A p \in Nodes : p \notin Referents(n) =>
              Cardinality(Referents(n) \cup {p}) = Cardinality(Referents(n)) + 1
         /\ \A p \in Nodes : p \in Referents(n) =>
              Cardinality(Referents(n) \ {p}) = Cardinality(Referents(n)) - 1
         /\ Cardinality(Referents(n)) = 0 => Referents(n) = {}
<1>1. IsFiniteSet(Referents(n)) BY FS_Subset, TrieAssumption DEF TrieAssumption, Referents
<1>2. Cardinality(Referents(n)) \in Nat BY <1>1, FS_CardinalityType
<1>3. ASSUME NEW p \in Nodes, p \notin Referents(n)
      PROVE  Cardinality(Referents(n) \cup {p}) = Cardinality(Referents(n)) + 1 BY <1>1, <1>3, FS_AddElement
<1>4. ASSUME NEW p \in Nodes, p \in Referents(n)
      PROVE  Cardinality(Referents(n) \ {p}) = Cardinality(Referents(n)) - 1 BY <1>1, <1>4, FS_RemoveElement
<1>5. Cardinality(Referents(n)) = 0 => Referents(n) = {} BY <1>1, FS_EmptySet
<1> QED BY <1>1, <1>2, <1>3, <1>4, <1>5

\* What is counted is what a node refers to.
LEMMA RecordedAreRefs ==
  ASSUME StorageLinked, NEW n \in Nodes
  PROVE  Recorded(n) \subseteq Refs(n) BY DEF StorageLinked, Recorded, Refs

-----------------------------------------------------------------------------
LEMMA InitHolds == TrieInit => IInv
<1> SUFFICES ASSUME TrieInit PROVE IInv OBVIOUS
<1> USE TrieAssumption DEF TrieAssumption, TrieInit
<1>1. TypesOK BY DEF TypesOK, OpTypeOK, Idle, Kinds
<1>2. UpdateSound /\ DropSound /\ FlushSound BY DEF UpdateSound, DropSound, FlushSound, Idle
<1>3. StorageLinked /\ OldestFirst /\ UsersCounted /\ CountsExact
  BY DEF StorageLinked, OldestFirst, UsersCounted, CountsExact
<1>4. StatesKept BY DEF StatesKept, StatesReadable, DiskWhole, Whole, Have
<1> QED BY <1>1, <1>2, <1>3, <1>4 DEF IInv

\* An operation starts or ends, and the cache stays as it is.
LEMMA CacheKept ==
  ASSUME IInv, UNCHANGED <<cacheVars, disk, users>>,
         TypesOK', UpdateSound', DropSound', FlushSound', op'.refs = op.refs,
         \/ op' = op
         \/ op.kind \notin {"insert", "link"}
         \/ op.kind = "insert" /\ op'.kind = "link" /\ op'.todo = op.new
         \/ op.kind = "insert" /\ op'.kind = "insert" /\ op'.new = op.new
         \/ op.kind = "link" /\ op.todo = {}
  PROVE  IInv'
<1> USE DEF IInv, cacheVars
<1>1. StorageLinked' BY DEF StorageLinked, UpdateSound
<1>2. OldestFirst' /\ UsersCounted' BY DEF OldestFirst, UsersCounted, Have, Refs
<1>3. \A n : Referents(n)' = Referents(n) BY DEF Referents, Recorded
<1>4. CountsExact' BY <1>3 DEF CountsExact
<1>5. StatesKept' BY DEF StatesKept, StatesReadable, DiskWhole, Whole, Have, Refs
<1> QED BY <1>1, <1>2, <1>4, <1>5

LEMMA BeginUpdateHolds ==
  ASSUME IInv, NEW r \in StateRoots, BeginUpdate(r) PROVE IInv'
<1> USE TrieAssumption DEF TrieAssumption
<1>1. PICK p \in {n \in StateRoots \ {r} : users[n] > 0 \/ n \in disk} \cup {Zero} :
        \E D \in ChangedNodes(r, IF p = Zero THEN {} ELSE Below[p]) :
          op' = [Idle EXCEPT !.kind = "insert", !.root = r, !.todo = D, !.new = D] BY DEF BeginUpdate
<1> DEFINE base == IF p = Zero THEN {} ELSE Below[p]
<1>2. PICK D \in ChangedNodes(r, base) :
        op' = [Idle EXCEPT !.kind = "insert", !.root = r, !.todo = D, !.new = D] BY <1>1
<1>3. base \subseteq Have
  <2>1. CASE p = Zero BY <2>1
  <2>2. CASE p # Zero
    BY <2>2 DEF IInv, StatesKept, StatesReadable, Have, TypesOK, Below
  <2> QED BY <2>1, <2>2
<1>4. D \subseteq Nodes /\ r \in D /\ \A n \in D : Refs(n) \subseteq D \cup Have BY <1>3 DEF ChangedNodes, Below
<1>5. op' = [kind |-> "insert", root |-> r, todo |-> D, new |-> D, done |-> {}, refs |-> {}] BY <1>2 DEF Idle
<1>6. op = Idle /\ UNCHANGED <<cacheVars, disk, users>> BY DEF BeginUpdate
<1>7. TypesOK' BY <1>4, <1>5, <1>6 DEF IInv, TypesOK, OpTypeOK, Kinds, cacheVars
<1>8. Have' = Have BY <1>6 DEF Have, cacheVars
<1>9. UpdateSound' BY <1>4, <1>5, <1>8 DEF UpdateSound, Refs
<1>10. DropSound' /\ FlushSound' BY <1>5 DEF DropSound, FlushSound
<1> QED BY <1>5, <1>6, <1>7, <1>9, <1>10, CacheKept DEF Idle

LEMMA InsertedHolds ==
  ASSUME IInv, Inserted PROVE IInv'
<1>1. /\ op.kind = "insert" /\ op.todo = {} /\ UNCHANGED <<cacheVars, disk, users>>
      /\ op \in [kind : Kinds, root : Nodes \cup {Zero}, todo : SUBSET Nodes, new : SUBSET Nodes,
                 done : SUBSET Nodes, refs : SUBSET (Nodes \X Nodes)]
      /\ op' = [op EXCEPT !.kind = "link", !.todo = op.new]
  BY DEF Inserted, Doing, IInv, TypesOK, OpTypeOK
<1>2. TypesOK' BY <1>1 DEF IInv, TypesOK, OpTypeOK, Kinds, cacheVars
<1>3. UpdateSound' /\ DropSound' /\ FlushSound' BY <1>1 DEF IInv, UpdateSound, DropSound, FlushSound, Have, cacheVars
<1> QED BY <1>1, <1>2, <1>3, CacheKept

\* The operation that runs is over.
LEMMA IdleHolds ==
  ASSUME IInv, op' = Idle, UNCHANGED <<cacheVars, disk, users>>,
         op.refs = {}, op.kind \notin {"insert", "link"} \/ (op.kind = "link" /\ op.todo = {}) PROVE IInv'
<1>1. TypesOK' BY DEF IInv, TypesOK, OpTypeOK, Kinds, cacheVars, Idle
<1>2. UpdateSound' /\ DropSound' /\ FlushSound' BY DEF UpdateSound, DropSound, FlushSound, Idle
<1>3. op'.refs = op.refs BY DEF Idle
<1> QED BY <1>1, <1>2, <1>3, CacheKept

LEMMA BeginCapHolds ==
  ASSUME IInv, BeginCap PROVE IInv'
<1>1. op' = [kind |-> "cap", root |-> Zero, todo |-> {}, new |-> {}, done |-> {}, refs |-> {}] BY DEF BeginCap, Idle
<1>2. op = Idle /\ UNCHANGED <<cacheVars, disk, users>> BY DEF BeginCap
<1>3. TypesOK' BY <1>1, <1>2 DEF IInv, TypesOK, OpTypeOK, Kinds, cacheVars
<1>4. UpdateSound' /\ DropSound' /\ FlushSound' BY <1>1 DEF UpdateSound, DropSound, FlushSound
<1> QED BY <1>1, <1>2, <1>3, <1>4, CacheKept DEF Idle

LEMMA BeginCommitHolds ==
  ASSUME IInv, NEW r \in StateRoots, BeginCommit(r) PROVE IInv'
<1>1. op' = [kind |-> "commit", root |-> Zero, todo |-> CachedBelow(r), new |-> {}, done |-> {}, refs |-> {}]
  BY DEF BeginCommit, Idle
<1>2. /\ op = Idle \/ (op.kind = "link" /\ op.todo = {})
      /\ UNCHANGED <<cacheVars, disk, users>>
  BY DEF BeginCommit, Doing
<1>3. CachedBelow(r) \subseteq dirties BY DEF CachedBelow
<1>4. \A n \in CachedBelow(r) : Recorded(n) \cap dirties \subseteq CachedBelow(r) BY DEF CachedBelow
<1>5. TypesOK' BY <1>1, <1>2, <1>3 DEF IInv, TypesOK, OpTypeOK, Kinds, cacheVars
<1>6. UpdateSound' /\ DropSound' BY <1>1 DEF UpdateSound, DropSound
<1>7. FlushSound' BY <1>1, <1>2, <1>3, <1>4 DEF FlushSound, Recorded, cacheVars
<1>8. op.refs = {} BY <1>2 DEF IInv, DropSound, Idle
<1> QED BY <1>1, <1>2, <1>5, <1>6, <1>7, <1>8, CacheKept DEF Idle

LEMMA EndsHold ==
  ASSUME IInv, Dropped \/ EndCommit \/ WriteFails
  PROVE  IInv' BY IdleHolds DEF Dropped, EndCommit, WriteFails, Doing, IInv, DropSound

-----------------------------------------------------------------------------
(* Updates and references.                                                 *)

\* Inserting counts the children, and a new node is one that nobody refers to yet.
LEMMA InsertHolds ==
  ASSUME IInv, NEW n \in Nodes, Insert(n) PROVE IInv'
<1>1. /\ op.kind = "insert" /\ n \in op.todo /\ Refs(n) \cap op.todo = {}
      /\ op.refs = {} /\ UNCHANGED <<disk, users>>
      /\ op \in [kind : Kinds, root : Nodes \cup {Zero}, todo : SUBSET Nodes, new : SUBSET Nodes,
                 done : SUBSET Nodes, refs : SUBSET (Nodes \X Nodes)]
      /\ op' = [op EXCEPT !.todo = @ \ {n}]
      /\ Refs(n) \subseteq Have
  BY DEF Insert, Doing, IInv, TypesOK, OpTypeOK, DropSound, UpdateSound
<1>2. op'.kind = "insert" /\ op'.root = op.root /\ op'.new = op.new /\ op'.refs = {} /\ op'.todo = op.todo \ {n} BY <1>1
<1>3. OpTypeOK' BY <1>1 DEF OpTypeOK
<1>4. CASE n \in dirties
  <2>1. UNCHANGED cacheVars BY <1>4 DEF Insert
  <2>2. TypesOK' BY <1>1, <1>3, <2>1 DEF IInv, TypesOK, cacheVars
  <2>3. UpdateSound' BY <1>1, <1>2, <1>4, <2>1 DEF IInv, UpdateSound, Have, Refs, cacheVars
  <2>4. DropSound' /\ FlushSound' BY <1>2 DEF DropSound, FlushSound
  <2> QED BY <1>1, <1>2, <2>1, <2>2, <2>3, <2>4, CacheKept
<1>5. CASE n \notin dirties
  <2>1. /\ dirties' = dirties \cup {n} /\ children' = [children EXCEPT ![n] = {}]
        /\ parents' = [m \in Nodes |-> IF m = n THEN 0
                                       ELSE IF m \in Kids[n] \cap dirties THEN parents[m] + 1 ELSE parents[m]]
        /\ age' = [age EXCEPT ![n] = clock] /\ clock' = clock + 1 /\ rooted' = rooted
    BY <1>5 DEF Insert
  <2>2. TypesOK' BY <1>1, <1>3, <2>1 DEF IInv, TypesOK
  <2>3. Have' = Have \cup {n} BY <1>1, <2>1 DEF Have
  <2>4. UpdateSound' BY <1>1, <1>2, <2>3 DEF IInv, UpdateSound, Refs
  <2>5. DropSound' /\ FlushSound' BY <1>2 DEF DropSound, FlushSound
  <2>6. n \notin disk => \A p \in dirties : n \notin Refs(p) BY <1>5 DEF IInv, StatesKept, StatesReadable, Whole, Have
  <2>7. StorageLinked'
    <3>1. \A p \in Nodes : children'[p] \subseteq Storage[p] BY <2>1 DEF IInv, StorageLinked, TypesOK
    <3>2. ASSUME NEW p \in dirties', NEW m \in Storage[p] \cap dirties', m \notin disk, p # n
          PROVE  m \in children'[p] \/ p \in op.new
      BY <1>1, <2>1, <2>6, <3>2 DEF Refs, IInv, TypesOK, StorageLinked
    <3>3. n \in op.new BY <1>1 DEF IInv, UpdateSound
    <3> QED BY <1>1, <1>2, <3>1, <3>2, <3>3 DEF StorageLinked
  <2>8. OldestFirst'
    <3>1. ASSUME NEW p \in dirties', NEW m \in Refs(p) \cap dirties', m \notin disk PROVE age'[m] < age'[p]
      <4>1. CASE p = n
        BY <1>1, <2>1, <3>1, <4>1 DEF IInv, OldestFirst, TypesOK
      <4>2. CASE p # n
        BY <1>5, <2>1, <2>6, <3>1, <4>2 DEF IInv, OldestFirst, TypesOK
      <4> QED BY <4>1, <4>2
    <3>2. \A m \in dirties' : age'[m] < clock' BY <2>1 DEF IInv, OldestFirst, TypesOK
    <3> QED BY <1>1, <3>1, <3>2 DEF OldestFirst, Refs
  <2>9. UsersCounted' BY <1>1, <2>1, <2>3 DEF IInv, UsersCounted, TypesOK, StatesKept, StatesReadable, Have
  <2>10. CountsExact'
    <3>1. SUFFICES ASSUME NEW m \in dirties' \ disk
                   PROVE  parents'[m] = Cardinality(Referents(m)') + rooted[m] BY <1>1, <2>1 DEF CountsExact
    <3>2. m \in Nodes /\ n \notin Kids[n] BY <1>1, <2>2, <3>1 DEF TypesOK, Refs
    <3>3. \A p \in Nodes : Recorded(p)' = IF p = n THEN Kids[n] ELSE Recorded(p) BY <2>1 DEF Recorded, IInv, TypesOK
    <3>4. Referents(m)' = IF m \in Kids[n] THEN Referents(m) \cup {n} ELSE Referents(m)
      BY <1>1, <1>2, <1>5, <2>1, <3>3 DEF Referents, IInv, TypesOK
    <3>5. n \notin Referents(m) BY <1>1, <1>5 DEF Referents
    <3>6. CASE m = n
      <4>1. Referents(m) = {} BY <1>1, <2>6, <3>1, <3>6, RecordedAreRefs DEF Referents, IInv, TypesOK
      <4>2. rooted[m] = 0 BY <1>5, <3>1, <3>2, <3>6 DEF IInv, UsersCounted, TypesOK, Have
      <4> QED BY <2>1, <3>2, <3>4, <3>6, <4>1, <4>2, FS_EmptySet
    <3>7. CASE m # n
      <4>1. m \in dirties /\ parents[m] = Cardinality(Referents(m)) + rooted[m]
        BY <2>1, <3>1, <3>7 DEF IInv, CountsExact
      <4>2. Cardinality(Referents(m)) \in Nat /\ Cardinality(Referents(m) \cup {n}) = Cardinality(Referents(m)) + 1
        BY <3>2, <3>5, CountOne
      <4>3. rooted[m] \in Nat BY <3>2 DEF IInv, TypesOK
      <4>4. CASE m \in Kids[n] BY <2>1, <3>2, <3>4, <3>7, <4>1, <4>2, <4>3, <4>4
      <4>5. CASE m \notin Kids[n] BY <2>1, <3>2, <3>4, <3>7, <4>1, <4>2, <4>3, <4>5
      <4> QED BY <4>4, <4>5
    <3> QED BY <3>6, <3>7
  <2>11. StatesKept' BY <1>1, <2>3 DEF IInv, StatesKept, StatesReadable, DiskWhole, Whole, Refs
  <2> QED BY <2>2, <2>4, <2>5, <2>7, <2>8, <2>9, <2>10, <2>11 DEF IInv
<1> QED BY <1>4, <1>5

\* Linking counts a storage root once for every account node that refers to it.
LEMMA LinkHolds ==
  ASSUME IInv, NEW n \in Nodes, Link(n) PROVE IInv'
<1> DEFINE linked == (Storage[n] \cap dirties) \ children[n]
<1>1. /\ op.kind = "link" /\ n \in op.todo /\ op.refs = {}
      /\ UNCHANGED <<dirties, rooted, age, clock, disk, users>>
      /\ op \in [kind : Kinds, root : Nodes \cup {Zero}, todo : SUBSET Nodes, new : SUBSET Nodes,
                 done : SUBSET Nodes, refs : SUBSET (Nodes \X Nodes)]
      /\ op' = [op EXCEPT !.todo = @ \ {n}]
      /\ children' = [children EXCEPT ![n] = @ \cup linked]
      /\ parents' = [m \in Nodes |-> IF m \in linked THEN parents[m] + 1 ELSE parents[m]]
  BY DEF Link, Doing, IInv, TypesOK, OpTypeOK, DropSound
<1>2. op'.kind = "link" /\ op'.root = op.root /\ op'.new = op.new /\ op'.refs = {} /\ op'.todo = op.todo \ {n} BY <1>1
<1>3. OpTypeOK' BY <1>1 DEF OpTypeOK
<1>4. TypesOK' BY <1>1, <1>3 DEF IInv, TypesOK
<1>5. UpdateSound' /\ DropSound' /\ FlushSound' BY <1>1, <1>2 DEF IInv, UpdateSound, DropSound, FlushSound, Have
<1>6. StorageLinked' BY <1>1, <1>2 DEF IInv, StorageLinked, TypesOK
<1>7. OldestFirst' /\ UsersCounted' /\ StatesKept'
  BY <1>1 DEF IInv, OldestFirst, UsersCounted, StatesKept, StatesReadable, DiskWhole, Whole, Refs, Have
<1>8. CountsExact'
  <2>1. SUFFICES ASSUME NEW m \in dirties \ disk
                 PROVE  parents'[m] = Cardinality(Referents(m)') + rooted[m] BY <1>1 DEF CountsExact
  <2>2. m \in Nodes /\ parents[m] = Cardinality(Referents(m)) + rooted[m] BY DEF IInv, TypesOK, CountsExact
  <2>3. \A p \in Nodes : Recorded(p)' = IF p = n THEN Recorded(n) \cup linked ELSE Recorded(p)
    BY <1>1 DEF Recorded, IInv, TypesOK
  <2>4. CASE m \in linked
    <3>1. n \in dirties
      BY <1>1, <2>4 DEF IInv, StatesKept, DiskWhole, Whole, Refs, StorageLinked, UpdateSound, Have
    <3>2. n \notin Referents(m) BY <1>1, <2>4, TrieAssumption DEF Referents, Recorded, TrieAssumption
    <3>3. Referents(m)' = Referents(m) \cup {n} BY <1>1, <1>2, <2>3, <2>4, <3>1 DEF Referents
    <3> QED BY <1>1, <2>2, <2>4, <3>2, <3>3, CountOne DEF IInv, TypesOK
  <2>5. CASE m \notin linked
    <3>1. Referents(m)' = Referents(m) BY <1>1, <1>2, <2>3, <2>5 DEF Referents
    <3> QED BY <1>1, <2>2, <2>5, <3>1
  <2> QED BY <2>4, <2>5
<1> QED BY <1>4, <1>5, <1>6, <1>7, <1>8 DEF IInv

\* A user of a root that is there.
LEMMA ReferencedHolds ==
  ASSUME IInv, NEW r \in Nodes, r \in Have, Referenced(r),
         UNCHANGED <<dirties, children, age, clock, disk>>,
         op' = Idle, op.refs = {}, op.kind = "idle" \/ (op.kind = "link" /\ op.todo = {}) PROVE IInv'
<1>1. /\ users' = [users EXCEPT ![r] = @ + 1]
      /\ r \in dirties => rooted' = [rooted EXCEPT ![r] = @ + 1] /\ parents' = [parents EXCEPT ![r] = @ + 1]
      /\ r \notin dirties => rooted' = rooted /\ parents' = parents
  BY DEF Referenced
<1>2. TypesOK' BY <1>1 DEF IInv, TypesOK, OpTypeOK, Kinds, Idle
<1>3. UpdateSound' /\ DropSound' /\ FlushSound' BY DEF UpdateSound, DropSound, FlushSound, Idle
<1>4. StorageLinked' /\ OldestFirst' BY DEF IInv, StorageLinked, OldestFirst, Refs
<1>5. UsersCounted' /\ StatesKept'
  BY <1>1 DEF IInv, TypesOK, UsersCounted, StatesKept, StatesReadable, DiskWhole, Whole, Refs, Have
<1>6. CountsExact'
  <2>1. SUFFICES ASSUME NEW m \in dirties \ disk
                 PROVE  parents'[m] = Cardinality(Referents(m)') + rooted'[m] BY DEF CountsExact
  <2>2. m \in Nodes /\ parents[m] = Cardinality(Referents(m)) + rooted[m] BY DEF IInv, TypesOK, CountsExact
  <2>3. Referents(m)' = Referents(m) BY DEF Referents, Recorded, Idle
  <2>4. Cardinality(Referents(m)) \in Nat /\ rooted[m] \in Nat BY <2>2, CountOne DEF IInv, TypesOK
  <2> QED BY <1>1, <2>2, <2>3, <2>4 DEF IInv, TypesOK
<1> QED BY <1>2, <1>3, <1>4, <1>5, <1>6 DEF IInv

LEMMA KeepHolds ==
  ASSUME IInv, Keep PROVE IInv'
  BY ReferencedHolds DEF Keep, Doing, IInv, UpdateSound, TypesOK, Have, DropSound

LEMMA ReferenceHolds ==
  ASSUME IInv, NEW r \in StateRoots, Reference(r) PROVE IInv'
  BY TrieAssumption, ReferencedHolds DEF TrieAssumption, Reference, IInv, StatesKept, StatesReadable, Have, Idle

-----------------------------------------------------------------------------
(* Dropping.                                                               *)

\* One referent of a node less.  If it was the last one, nobody refers to the node,
\* unless it is on disk, and it leaves the cache.
LEMMA ReleasedHolds ==
  ASSUME IInv, NEW n \in Nodes, NEW refs \in SUBSET (Nodes \X Nodes), Released(n, refs),
         UNCHANGED <<children, age, clock, disk>>,
         TypesOK, op.kind \in {"idle", "drop"}, refs \subseteq op.refs,
         \A m \in Nodes : users[m] > 0 => users'[m] \in Nat,
         users' \in [Nodes -> Nat], rooted' \in [Nodes -> Nat],
         \A m \in Nodes : m # n => users'[m] = users[m] /\ rooted'[m] = rooted[m],
         users'[n] <= users[n], rooted'[n] <= rooted[n],
         n \in dirties \ disk => rooted'[n] = users'[n],
         \A m \in dirties \ disk : m # n => \A p \in Nodes : <<p, m>> \in op.refs => <<p, m>> \in refs,
         n \in dirties \ disk =>
           parents[n] = Cardinality({p \in Nodes : (p \in dirties /\ n \in Recorded(p)) \/ <<p, n>> \in refs})
                        + rooted'[n] + 1 PROVE IInv'
<1> DEFINE left == IF parents[n] > 0 THEN parents[n] - 1 ELSE 0
           freed == n \in dirties /\ left = 0
           now == IF freed THEN refs \cup ({n} \X (Kids[n] \cup children[n])) ELSE refs
           Holders(m) == {p \in Nodes : (p \in dirties /\ m \in Recorded(p)) \/ <<p, m>> \in refs}
<1>1. /\ op' = [Idle EXCEPT !.kind = "drop", !.refs = now]
      /\ dirties' = IF freed THEN dirties \ {n} ELSE dirties
      /\ parents' = IF n \in dirties THEN [parents EXCEPT ![n] = left] ELSE parents
  <2>1. CASE n \notin dirties BY <2>1 DEF Released
  <2>2. CASE n \in dirties /\ left > 0
    <3>1. left # 0 /\ ~freed BY <2>2 DEF TypesOK
    <3>2. /\ parents' = [parents EXCEPT ![n] = left] /\ dirties' = dirties
          /\ op' = [Idle EXCEPT !.kind = "drop", !.refs = refs]
      BY <2>2 DEF Released
    <3> QED BY <2>2, <3>1, <3>2
  <2>3. CASE n \in dirties /\ ~(left > 0)
    <3>1. left = 0 BY <2>3 DEF TypesOK
    <3> QED BY <2>3, <3>1 DEF Released
  <2> QED BY <2>1, <2>2, <2>3
<1>2. op' = [kind |-> "drop", root |-> Zero, todo |-> {}, new |-> {}, done |-> {}, refs |-> now] BY <1>1 DEF Idle
<1>3. now \subseteq Nodes \X Nodes BY TrieAssumption DEF TrieAssumption, TypesOK
<1>4. TypesOK'
  BY <1>2, <1>3, <1>1 DEF OpTypeOK, Kinds, TypesOK
<1>5. UpdateSound' /\ FlushSound' BY <1>2 DEF UpdateSound, FlushSound
<1>6. DropSound' BY <1>1, <1>2 DEF IInv, DropSound
<1>7. StorageLinked' BY <1>1, <1>2 DEF IInv, StorageLinked
<1>8. OldestFirst' BY <1>1 DEF IInv, OldestFirst, Refs
<1>9. \A m \in Nodes : Referents(m)' = Holders(m)
  <2>1. ASSUME NEW m \in Nodes, NEW p \in Nodes
        PROVE  (p \in dirties' /\ m \in Recorded(p)') \/ <<p, m>> \in now
               <=> (p \in dirties /\ m \in Recorded(p)) \/ <<p, m>> \in refs BY <1>1 DEF Recorded
  <2> QED BY <1>2, <2>1 DEF Referents
<1>10. freed /\ n \notin disk => Holders(n) = {} /\ rooted'[n] = 0
  <2>1. IsFiniteSet(Holders(n)) /\ Cardinality(Holders(n)) \in Nat
    BY TrieAssumption, FS_Subset, FS_CardinalityType DEF TrieAssumption
  <2>2. freed /\ n \notin disk => Cardinality(Holders(n)) = 0 /\ rooted'[n] = 0 BY <2>1 DEF TypesOK
  <2> QED BY <2>1, <2>2, FS_EmptySet
<1>11. Have \ {n} \subseteq Have' /\ (n \notin Have' => (freed /\ n \notin disk) \/ n \notin Have) BY <1>1 DEF Have
<1>12. UsersCounted'
  BY <1>10, <1>11, <1>1 DEF IInv, UsersCounted, TypesOK
<1>13. CountsExact'
  <2>1. SUFFICES ASSUME NEW m \in dirties' \ disk
                 PROVE  parents'[m] = Cardinality(Referents(m)') + rooted'[m] BY DEF CountsExact
  <2>2. m \in Nodes /\ m \in dirties \ disk BY <1>1 DEF TypesOK
  <2>3. CASE m = n
    <3>1. Cardinality(Holders(n)) \in Nat BY TrieAssumption, FS_Subset, FS_CardinalityType DEF TrieAssumption
    <3>2. ~freed /\ parents'[n] = left /\ left = parents[n] - 1 BY <1>1, <2>1, <2>2, <2>3 DEF TypesOK
    <3>3. parents[n] = Cardinality(Holders(n)) + rooted'[n] + 1 BY <2>2, <2>3
    <3>4. Referents(n)' = Holders(n) BY <1>9
    <3> HIDE DEF Holders, left, freed
    <3> QED BY <2>3, <3>1, <3>2, <3>3, <3>4
  <2>4. CASE m # n
    BY <2>2, <2>4, <1>1, <1>9 DEF Referents, IInv, CountsExact, TypesOK
  <2> QED BY <2>3, <2>4
<1>14. StatesKept'
  <2>1. ASSUME NEW q \in Have', n \in Refs(q) PROVE n \in Have'
    <3>0. q \in Have /\ n \in Have BY <1>1, <2>1 DEF IInv, StatesKept, StatesReadable, Whole, Have
    <3>1. SUFFICES ASSUME freed, n \notin disk PROVE FALSE BY <1>11, <3>0
    <3>2. q \notin disk BY <2>1, <3>1 DEF IInv, StatesKept, DiskWhole, Whole
    <3>3. q \in dirties /\ q \in Nodes BY <1>1, <2>1, <3>2 DEF Have, TypesOK
    <3>4. n \in Recorded(q) BY <2>1, <3>1, <3>3 DEF IInv, StorageLinked, Recorded, Refs
    <3> QED BY <1>10, <3>1, <3>3, <3>4
  <2>2. Whole(Have)'
    <3>1. SUFFICES ASSUME NEW q \in Have', NEW m \in Refs(q) PROVE m \in Have' BY DEF Whole, Refs
    <3>2. m \in Have BY <1>1, <3>1 DEF IInv, StatesKept, StatesReadable, Whole, Have
    <3> QED BY <1>11, <2>1, <3>1, <3>2
  <2>3. ASSUME NEW r \in Nodes, users'[r] > 0
        PROVE  r \in Have' BY <1>10, <1>11, <2>3 DEF IInv, StatesKept, StatesReadable, TypesOK
  <2> QED BY <2>2, <2>3 DEF IInv, StatesKept, StatesReadable, DiskWhole, Whole, Refs
<1> QED BY <1>4, <1>5, <1>6, <1>7, <1>8, <1>12, <1>13, <1>14 DEF IInv

LEMMA DereferenceHolds ==
  ASSUME IInv, NEW r \in StateRoots, Dereference(r) PROVE IInv'
<1>1. /\ op.kind = "idle" /\ op.refs = {} /\ users[r] > 0 /\ r \in Nodes
      /\ users' = [users EXCEPT ![r] = @ - 1]
      /\ rooted' = [rooted EXCEPT ![r] = IF @ > 0 THEN @ - 1 ELSE 0]
      /\ Released(r, {}) /\ UNCHANGED <<children, age, clock, disk>>
      /\ TypesOK
  BY TrieAssumption DEF TrieAssumption, Dereference, Idle, IInv
<1>2. /\ users' \in [Nodes -> Nat] /\ rooted' \in [Nodes -> Nat]
      /\ \A m \in Nodes : m # r => users'[m] = users[m] /\ rooted'[m] = rooted[m]
      /\ users'[r] <= users[r] /\ rooted'[r] <= rooted[r]
      /\ users'[r] = users[r] - 1 /\ (rooted[r] > 0 => rooted'[r] = rooted[r] - 1)
  BY <1>1 DEF TypesOK
<1>3. r \in dirties \ disk => rooted[r] = users[r] BY DEF IInv, UsersCounted
<1>4. r \in dirties \ disk =>
        parents[r] = Cardinality({p \in Nodes : (p \in dirties /\ r \in Recorded(p)) \/ <<p, r>> \in {}})
                     + rooted'[r] + 1
  <2>1. Referents(r) = {p \in Nodes : (p \in dirties /\ r \in Recorded(p)) \/ <<p, r>> \in {}} BY <1>1 DEF Referents
  <2>2. Cardinality(Referents(r)) \in Nat BY <1>1, CountOne
  <2>3. r \in dirties \ disk => parents[r] = Cardinality(Referents(r)) + rooted[r] BY DEF IInv, CountsExact
  <2> QED BY <1>1, <1>2, <1>3, <2>1, <2>2, <2>3 DEF TypesOK
<1> QED BY <1>1, <1>2, <1>3, <1>4, ReleasedHolds DEF TypesOK

LEMMA DropHolds ==
  ASSUME IInv, NEW ref \in op.refs, Drop(ref) PROVE IInv'
<1>1. /\ op.kind = "drop" /\ TypesOK /\ op.refs \subseteq Nodes \X Nodes
      /\ UNCHANGED <<children, age, clock, disk, rooted, users>>
  BY DEF Drop, Doing, IInv, TypesOK, OpTypeOK
<1>2. PICK p \in Nodes, n \in Nodes : ref = <<p, n>> BY <1>1
<1> DEFINE refs == op.refs \ {ref}
<1>3. Released(n, refs) BY <1>2 DEF Drop
<1>4. n \in dirties \ disk => rooted[n] = users[n] BY DEF IInv, UsersCounted
<1>5. n \in dirties \ disk =>
        parents[n] = Cardinality({q \in Nodes : (q \in dirties /\ n \in Recorded(q)) \/ <<q, n>> \in refs})
                     + rooted[n] + 1
  <2>1. p \notin dirties BY <1>2 DEF IInv, DropSound
  <2>2. p \in Referents(n) BY <1>2 DEF Referents
  <2>3. Referents(n) \ {p} = {q \in Nodes : (q \in dirties /\ n \in Recorded(q)) \/ <<q, n>> \in refs}
    BY <1>2, <2>1 DEF Referents
  <2>4. /\ Cardinality(Referents(n)) \in Nat
        /\ Cardinality(Referents(n) \ {p}) = Cardinality(Referents(n)) - 1
    BY <1>2, <2>2, CountOne
  <2>5. n \in dirties \ disk => parents[n] = Cardinality(Referents(n)) + rooted[n] BY DEF IInv, CountsExact
  <2>6. rooted[n] \in Nat BY <1>1 DEF TypesOK
  <2>7. n \in dirties \ disk => parents[n] = Cardinality(Referents(n) \ {p}) + rooted[n] + 1 BY <2>4, <2>5, <2>6
  <2> QED BY <2>3, <2>7, Zenon
<1>6. users[n] \in Nat /\ rooted[n] \in Nat /\ users \in [Nodes -> Nat] /\ rooted \in [Nodes -> Nat] BY <1>1 DEF TypesOK
<1>7. \A m \in dirties \ disk : m # n => \A q \in Nodes : <<q, m>> \in op.refs => <<q, m>> \in refs BY <1>2
<1>8. refs \in SUBSET (Nodes \X Nodes) /\ refs \subseteq op.refs BY <1>1
<1> HIDE DEF refs
<1> QED BY <1>1, <1>3, <1>4, <1>5, <1>6, <1>7, <1>8, ReleasedHolds, SMTT(60)

-----------------------------------------------------------------------------
(* Flushing.                                                               *)

\* A node is written after all it refers to.
LEMMA WriteHolds ==
  ASSUME IInv, NEW n \in dirties, Refs(n) \subseteq disk, disk' = disk \cup {n},
         UNCHANGED <<cacheVars, users>>, OpTypeOK', op'.kind = op.kind, op'.refs = op.refs,
         op.kind \in {"cap", "commit"}, FlushSound' PROVE IInv'
<1> USE DEF cacheVars
<1>1. Have' = Have /\ n \in Nodes /\ n \in Have BY DEF Have, IInv, TypesOK
<1>2. TypesOK' BY <1>1 DEF IInv, TypesOK
<1>3. UpdateSound' /\ DropSound' BY DEF IInv, UpdateSound, DropSound
<1>4. StorageLinked' /\ OldestFirst' BY DEF IInv, StorageLinked, OldestFirst, Refs
<1>5. UsersCounted' BY <1>1 DEF IInv, UsersCounted
<1>6. \A m : Referents(m)' = Referents(m) BY DEF Referents, Recorded
<1>7. CountsExact' BY <1>6 DEF IInv, CountsExact
<1>8. StatesKept' BY <1>1 DEF IInv, StatesKept, StatesReadable, DiskWhole, Whole, Refs
<1> QED BY <1>2, <1>3, <1>4, <1>5, <1>7, <1>8 DEF IInv

LEMMA CapWriteHolds ==
  ASSUME IInv, NEW n \in Nodes, CapWrite(n) PROVE IInv'
<1>1. /\ op.kind = "cap" /\ n \in dirties \ op.done /\ disk' = disk \cup {n}
      /\ \A m \in dirties \ op.done : age[n] <= age[m]
      /\ UNCHANGED <<cacheVars, users>>
      /\ op \in [kind : Kinds, root : Nodes \cup {Zero}, todo : SUBSET Nodes, new : SUBSET Nodes,
                 done : SUBSET Nodes, refs : SUBSET (Nodes \X Nodes)]
      /\ op' = [op EXCEPT !.done = @ \cup {n}]
  BY DEF CapWrite, Doing, IInv, TypesOK, OpTypeOK
<1>2. op'.kind = op.kind /\ op'.refs = op.refs /\ op'.done = op.done \cup {n} BY <1>1
<1>3. OpTypeOK' BY <1>1 DEF OpTypeOK
<1>4. FlushSound' BY <1>1, <1>2 DEF IInv, FlushSound
<1>5. Refs(n) \subseteq disk
  <2>1. SUFFICES ASSUME NEW m \in Refs(n), m \notin disk PROVE FALSE OBVIOUS
  <2>2. m \in dirties /\ m \notin op.done /\ m \in Nodes
    BY <1>1, <2>1 DEF IInv, StatesKept, StatesReadable, Whole, Have, FlushSound, TypesOK
  <2>3. age[m] < age[n] /\ age[m] \in Nat /\ age[n] \in Nat BY <1>1, <2>1, <2>2 DEF IInv, OldestFirst, TypesOK
  <2> QED BY <1>1, <2>2, <2>3
<1> QED BY <1>1, <1>2, <1>3, <1>4, <1>5, WriteHolds

LEMMA CommitWriteHolds ==
  ASSUME IInv, NEW n \in Nodes, CommitWrite(n) PROVE IInv'
<1>1. /\ op.kind = "commit" /\ n \in op.todo /\ Recorded(n) \cap op.todo = {} /\ disk' = disk \cup {n}
      /\ UNCHANGED <<cacheVars, users>>
      /\ op \in [kind : Kinds, root : Nodes \cup {Zero}, todo : SUBSET Nodes, new : SUBSET Nodes,
                 done : SUBSET Nodes, refs : SUBSET (Nodes \X Nodes)]
      /\ op' = [op EXCEPT !.todo = @ \ {n}, !.done = @ \cup {n}]
  BY DEF CommitWrite, Doing, IInv, TypesOK, OpTypeOK
<1>2. op'.kind = op.kind /\ op'.refs = op.refs /\ op'.done = op.done \cup {n} /\ op'.todo = op.todo \ {n} BY <1>1
<1>3. OpTypeOK' BY <1>1 DEF OpTypeOK
<1>4. n \in dirties BY <1>1 DEF IInv, FlushSound
<1>5. FlushSound' BY <1>1, <1>2 DEF IInv, FlushSound, Recorded, cacheVars
<1>6. Refs(n) \subseteq disk
  <2>1. SUFFICES ASSUME NEW m \in Refs(n), m \notin disk PROVE FALSE OBVIOUS
  <2>2. m \in dirties BY <1>4, <2>1 DEF IInv, StatesKept, StatesReadable, Whole, Have
  <2>3. m \in Recorded(n) BY <1>1, <1>4, <2>1, <2>2 DEF IInv, StorageLinked, Recorded, Refs
  <2> QED BY <1>1, <2>1, <2>2, <2>3 DEF IInv, FlushSound
<1> QED BY <1>1, <1>2, <1>3, <1>4, <1>5, <1>6, WriteHolds

\* What is on disk may be forgotten.
LEMMA ForgetHolds ==
  ASSUME IInv, NEW S \in SUBSET disk, Forget(S),
         UNCHANGED <<rooted, clock, disk, users>>, op.kind \in {"cap", "commit"},
         OpTypeOK', UpdateSound', op'.refs = {}, FlushSound', op'.kind \in {"idle", "commit"} PROVE IInv'
<1>1. /\ dirties' = dirties \ S
      /\ parents' = [n \in Nodes |-> IF n \in S THEN 0 ELSE parents[n]]
      /\ children' = [n \in Nodes |-> IF n \in S THEN {} ELSE children[n]]
      /\ age' = [n \in Nodes |-> IF n \in S THEN 0 ELSE age[n]]
  BY DEF Forget
<1>2. Have' = Have BY <1>1 DEF Have
<1>3. TypesOK'
  BY <1>1 DEF IInv, TypesOK
<1>4. DropSound' BY DEF DropSound
<1>5. StorageLinked' BY <1>1 DEF IInv, StorageLinked, TypesOK
<1>6. OldestFirst' BY <1>1, TrieAssumption DEF TrieAssumption, IInv, OldestFirst, Refs, TypesOK
<1>7. UsersCounted' BY <1>1, <1>2 DEF IInv, UsersCounted
<1>8. CountsExact'
  <2>1. SUFFICES ASSUME NEW m \in dirties' \ disk
                 PROVE  parents'[m] = Cardinality(Referents(m)') + rooted[m] BY DEF CountsExact
  <2>2. m \in Nodes /\ m \in dirties \ disk /\ m \notin S BY <1>1 DEF IInv, TypesOK
  <2>3. \A p \in S : m \notin Recorded(p)
    BY <2>2, RecordedAreRefs DEF IInv, TypesOK, StatesKept, DiskWhole, Whole
  <2>4. \A p \in Nodes : (p \in dirties' /\ m \in Recorded(p)') <=> (p \in dirties /\ m \in Recorded(p))
    BY <1>1, <2>3 DEF Recorded
  <2>5. op.refs = {} BY DEF IInv, DropSound
  <2>6. Referents(m)' = Referents(m) BY <2>4, <2>5 DEF Referents
  <2> QED BY <1>1, <2>2, <2>6 DEF IInv, CountsExact
<1>9. StatesKept' BY <1>2 DEF IInv, StatesKept, StatesReadable, DiskWhole, Whole, Refs
<1> QED BY <1>3, <1>4, <1>5, <1>6, <1>7, <1>8, <1>9 DEF IInv

LEMMA EndCapHolds ==
  ASSUME IInv, EndCap PROVE IInv'
  BY ForgetHolds DEF EndCap, Doing, IInv, FlushSound, OpTypeOK, Kinds, UpdateSound, Idle

LEMMA UncacheHolds ==
  ASSUME IInv, Uncache PROVE IInv'
<1>1. /\ op.kind = "commit" /\ op.done \in SUBSET disk /\ Forget(op.done) /\ op.refs = {}
      /\ op \in [kind : Kinds, root : Nodes \cup {Zero}, todo : SUBSET Nodes, new : SUBSET Nodes,
                 done : SUBSET Nodes, refs : SUBSET (Nodes \X Nodes)]
      /\ op' = [op EXCEPT !.done = {}]
      /\ UNCHANGED <<rooted, clock, disk, users>>
  BY DEF Uncache, Doing, IInv, FlushSound, DropSound, TypesOK, OpTypeOK
<1>2. op'.kind = "commit" /\ op'.done = {} /\ op'.todo = op.todo /\ op'.refs = {} BY <1>1
<1>3. OpTypeOK' BY <1>1 DEF OpTypeOK
<1>4. UpdateSound' BY <1>2 DEF UpdateSound
<1>5. FlushSound'
  <2>1. dirties' = dirties \ op.done BY <1>1 DEF Forget
  <2>2. op.todo \subseteq dirties' /\ op.todo \cap op'.done = {} BY <1>1, <1>2, <2>1 DEF IInv, FlushSound
  <2>3. ASSUME NEW n \in op.todo PROVE Recorded(n)' \cap dirties' \subseteq op.todo \cup disk
    BY <1>1, <2>1 DEF IInv, FlushSound, Forget, Recorded
  <2> QED BY <1>1, <1>2, <2>2, <2>3 DEF FlushSound
<1> QED BY <1>1, <1>2, <1>3, <1>4, <1>5, ForgetHolds

\* Only the disk survives.
LEMMA KillHolds ==
  ASSUME IInv, Kill PROVE IInv'
<1> USE DEF Kill
<1>1. TypesOK' BY DEF IInv, TypesOK, OpTypeOK, Kinds, Idle
<1>2. UpdateSound' /\ DropSound' /\ FlushSound' BY DEF UpdateSound, DropSound, FlushSound, Idle
<1>3. StorageLinked' /\ OldestFirst' /\ UsersCounted' /\ CountsExact'
  BY DEF StorageLinked, OldestFirst, UsersCounted, CountsExact
<1>4. StatesKept' BY DEF IInv, StatesKept, StatesReadable, DiskWhole, Whole, Have, Refs
<1> QED BY <1>1, <1>2, <1>3, <1>4 DEF IInv

-----------------------------------------------------------------------------
(* The flush list.                                                         *)

\* What the links of a list point to, and what is a list.
Places == Nodes \cup {Zero}
Lists == [oldest : Places, newest : Places, prev : [Places -> Places], next : [Places -> Places]]

\* The list runs through the nodes of D in the order of their age.  A list that was
\* empty leaves a stale prev at its oldest node.
ListOf(l, D) ==
  /\ l \in Lists
  /\ IF D = {} THEN l.oldest = Zero
     ELSE l.oldest \in D /\ l.newest \in D /\ \A m \in D : age[l.oldest] <= age[m] /\ age[m] <= age[l.newest]
  /\ \A n \in D : IF n = l.newest THEN l.next[n] = Zero
                  ELSE /\ l.next[n] \in D /\ age[n] < age[l.next[n]]
                       /\ \A m \in D : age[m] <= age[n] \/ age[l.next[n]] <= age[m]
  /\ \A n \in D : n # l.oldest => l.prev[n] \in D /\ l.next[l.prev[n]] = n

\* No two nodes of D are of one age.
Aged(D) ==
  /\ D \subseteq Nodes /\ age \in [Nodes -> Nat]
  /\ \A n, m \in D : age[n] = age[m] => n = m

\* Natural numbers have a least one: the recursive definitions are unfolded by it.
LEMMA LeastNumber == ASSUME NEW T, T \subseteq Nat, T # {} PROVE \E n \in T : \A m \in T : n <= m
<1>1. \E n \in T : \A m \in T : ~ (<<m, n>> \in OpToRel(<, Nat)) BY NatLessThanWellFounded, WFMin
<1>2. PICK n \in T : \A m \in T : ~ (m < n) BY <1>1 DEF OpToRel
<1> QED BY <1>2

\* What a list is once the links of S are cleared.
LEMMA GoneList ==
  ASSUME NEW l \in Lists, NEW S
  PROVE  /\ Gone(l, S) \in Lists /\ Gone(l, S).oldest = l.oldest /\ Gone(l, S).newest = l.newest
         /\ \A z \in Places : /\ Gone(l, S).prev[z] = IF z \in S \cup {Zero} THEN Zero ELSE l.prev[z]
                              /\ Gone(l, S).next[z] = IF z \in S \cup {Zero} THEN Zero ELSE l.next[z]
<1>1. ASSUME NEW f \in [Places -> Places]
      PROVE  /\ Cleared(f, S) \in [Places -> Places]
             /\ \A z \in Places : Cleared(f, S)[z] = IF z \in S \cup {Zero} THEN Zero ELSE f[z]
  BY DEF Cleared, Places
<1>2. Gone(l, S) = [l EXCEPT !.prev = Cleared(l.prev, S), !.next = Cleared(l.next, S)] BY DEF Gone
<1>3. l.prev \in [Places -> Places] /\ l.next \in [Places -> Places] BY DEF Lists
<1> DEFINE P == Cleared(l.prev, S)
           N == Cleared(l.next, S)
           k == Gone(l, S)
<1>4. P \in [Places -> Places] /\ N \in [Places -> Places] BY <1>1, <1>3
<1>5. k = [l EXCEPT !.prev = P, !.next = N] BY <1>2
<1> HIDE DEF P, N, k
<1>6. k \in Lists /\ k.oldest = l.oldest /\ k.newest = l.newest /\ k.prev = P /\ k.next = N BY <1>4, <1>5 DEF Lists
<1> QED BY <1>1, <1>3, <1>6 DEF P, N, k

\* A node that is linked is the newest.
LEMMA LinkedList ==
  ASSUME NEW l, NEW D, ListOf(l, D), D \subseteq Nodes, NEW n \in Nodes \ D
  PROVE  \A k : k = Linked(l, n) =>
           /\ k \in Lists /\ k.newest = n /\ k.next[n] = Zero
           /\ IF D = {} THEN k.oldest = n
              ELSE /\ k.oldest = l.oldest /\ k.prev[n] = l.newest /\ k.next[l.newest] = n
                   /\ \A m \in D : k.prev[m] = l.prev[m] /\ (m # l.newest => k.next[m] = l.next[m])
<1>1. l \in Lists /\ n \in Places /\ Zero \in Places /\ D \subseteq Places /\ Zero \notin D /\ n # Zero
      /\ l.prev \in [Places -> Places] /\ l.next \in [Places -> Places] /\ l.newest \in Places
  BY TrieAssumption DEF ListOf, Places, Lists
<1> DEFINE P == [l.prev EXCEPT ![n] = l.newest]
<1>2. P \in [Places -> Places] /\ P[n] = l.newest /\ \A m \in Places \ {n} : P[m] = l.prev[m] BY <1>1
<1>3. CASE D = {}
  <2> DEFINE N == [l.next EXCEPT ![n] = Zero]
  <2>1. l.oldest = Zero BY <1>3 DEF ListOf
  <2>2. Linked(l, n) = [l EXCEPT !.oldest = n, !.newest = n, !.prev = P, !.next = N] BY <2>1 DEF Linked
  <2>3. N \in [Places -> Places] /\ N[n] = Zero BY <1>1
  <2> HIDE DEF P, N
  <2> DEFINE k == Linked(l, n)
  <2>4. k \in Lists /\ k.oldest = n /\ k.newest = n /\ k.next = N BY <1>1, <1>2, <2>2, <2>3 DEF Lists
  <2> QED BY <1>3, <2>3, <2>4
<1>4. CASE D # {}
  <2> DEFINE N == [l.next EXCEPT ![l.newest] = n, ![n] = Zero]
  <2>1. l.oldest # Zero /\ l.newest \in D BY <1>1, <1>4 DEF ListOf
  <2>2. Linked(l, n) = [l EXCEPT !.newest = n, !.prev = P, !.next = N] BY <2>1 DEF Linked
  <2>3. N \in [Places -> Places] /\ N[n] = Zero /\ N[l.newest] = n /\ \A m \in D \ {l.newest} : N[m] = l.next[m]
    BY <1>1, <2>1
  <2> HIDE DEF P, N
  <2> DEFINE k == Linked(l, n)
  <2>4. k \in Lists /\ k.oldest = l.oldest /\ k.newest = n /\ k.prev = P /\ k.next = N
    BY <1>1, <1>2, <2>2, <2>3 DEF Lists
  <2> QED BY <1>1, <1>2, <1>4, <2>3, <2>4
<1> QED BY <1>3, <1>4

\* What a node's neighbours are in a list.
LEMMA Neighbours ==
  ASSUME NEW l, NEW D, ListOf(l, D), Aged(D), NEW n \in D
  PROVE  /\ l \in Lists /\ l.oldest \in D /\ l.newest \in D /\ n # Zero /\ n \in Places /\ Zero \in Places
         /\ \A m \in D : m \in Nodes /\ m \in Places /\ m # Zero /\ age[m] \in Nat
         /\ l.next[n] \in Places /\ l.prev[n] \in Places
         /\ n # l.newest => l.next[n] \in D \ {n} /\ l.next[n] # l.oldest /\ l.prev[l.next[n]] = n
         /\ n # l.oldest => l.prev[n] \in D \ {n} /\ l.next[l.prev[n]] = n /\ l.prev[n] # l.newest
         /\ \A m \in D : l.next[m] = l.next[n] /\ l.next[n] # Zero => m = n
<1>1. /\ l \in Lists /\ l.oldest \in D /\ l.newest \in D /\ n # Zero /\ n \in Places /\ Zero \in Places
      /\ \A m \in D : m \in Nodes /\ m \in Places /\ m # Zero /\ age[m] \in Nat
  BY TrieAssumption DEF ListOf, Aged, Places
<1>2. l.next[n] \in Places /\ l.prev[n] \in Places BY <1>1 DEF Lists
<1>3. ASSUME NEW m \in D, NEW z \in D, l.next[m] = l.next[z], l.next[z] # Zero PROVE m = z
  BY <1>1, <1>3 DEF ListOf, Aged
<1>4. n # l.newest => l.next[n] \in D \ {n} /\ l.next[n] # l.oldest BY <1>1 DEF ListOf, Aged
<1>5. n # l.newest => l.prev[l.next[n]] = n BY <1>1, <1>3, <1>4 DEF ListOf
<1>6. n # l.oldest => l.prev[n] \in D \ {n} /\ l.next[l.prev[n]] = n /\ l.prev[n] # l.newest BY <1>1 DEF ListOf, Aged
<1> QED BY <1>1, <1>2, <1>3, <1>4, <1>5, <1>6

\* insert: the age of the new node is above all others.
LEMMA LinkedHolds ==
  ASSUME ListOf(list, dirties), Aged(dirties), NEW n \in Nodes \ dirties,
         clock \in Nat, \A m \in dirties : age[m] < clock,
         dirties' = dirties \cup {n}, age' = [age EXCEPT ![n] = clock], list' = Linked(list, n)
  PROVE  ListOf(list, dirties)' /\ Aged(dirties)'
<1>1. Aged(dirties)' BY DEF Aged
<1>2. age'[n] = clock /\ \A m \in dirties : age'[m] = age[m] /\ age[m] \in Nat /\ m # n /\ m # Zero
  BY TrieAssumption DEF Aged
<1>3. /\ list' \in Lists /\ list'.newest = n /\ list'.next[n] = Zero
      /\ IF dirties = {} THEN list'.oldest = n
         ELSE /\ list'.oldest = list.oldest /\ list'.prev[n] = list.newest /\ list'.next[list.newest] = n
              /\ \A m \in dirties : list'.prev[m] = list.prev[m] /\ (m # list.newest => list'.next[m] = list.next[m])
  BY LinkedList DEF Aged
<1>4. CASE dirties = {} BY <1>1, <1>2, <1>3, <1>4 DEF ListOf, Aged
<1>5. CASE dirties # {}
  <2>0. list.oldest \in dirties /\ list.newest \in dirties BY <1>5 DEF ListOf
  <2>1. \A m \in dirties' : age'[list'.oldest] <= age'[m] /\ age'[m] <= age'[list'.newest]
    BY <1>2, <1>3, <1>5, <2>0 DEF ListOf
  <2>2. ASSUME NEW m \in dirties', m # n
        PROVE  /\ list'.next[m] \in dirties' /\ age'[m] < age'[list'.next[m]]
               /\ \A z \in dirties' : age'[z] <= age'[m] \/ age'[list'.next[m]] <= age'[z]
    <3>1. CASE m = list.newest BY <1>2, <1>3, <1>5, <2>0, <3>1 DEF ListOf
    <3>2. CASE m # list.newest
      BY <1>3, <1>5, <2>2, <3>2, <1>2 DEF ListOf
    <3> QED BY <3>1, <3>2
  <2>3. ASSUME NEW m \in dirties', m # list'.oldest PROVE list'.prev[m] \in dirties' /\ list'.next[list'.prev[m]] = m
    <3>1. CASE m = n BY <1>3, <1>5, <2>0, <3>1
    <3>2. CASE m # n BY <1>3, <1>5, <2>3, <3>2, Neighbours
    <3> QED BY <3>1, <3>2
  <2> QED BY <1>1, <1>3, <1>5, <2>0, <2>1, <2>2, <2>3 DEF ListOf
<1> QED BY <1>1, <1>4, <1>5

\* What a list is once a node has left it.
LEMMA UnlinkedList ==
  ASSUME NEW l, NEW D, ListOf(l, D), Aged(D), NEW n \in D, NEW k, k = Unlinked(l, n)
  PROVE  /\ k \in Lists
         /\ k.oldest = IF n = l.oldest THEN l.next[n] ELSE l.oldest
         /\ k.newest = IF n # l.oldest /\ n = l.newest THEN l.prev[n] ELSE l.newest
         /\ \A m \in D \ {n} :
              /\ k.next[m] = IF n # l.oldest /\ m = l.prev[n]
                             THEN IF n = l.newest THEN Zero ELSE l.next[n] ELSE l.next[m]
              /\ m # k.oldest => k.prev[m] = IF m = l.next[n] THEN l.prev[n] ELSE l.prev[m]
<1>1. /\ l \in Lists /\ l.oldest \in D /\ l.newest \in D /\ n # Zero /\ n \in Places /\ Zero \in Places
      /\ \A m \in D : m \in Places /\ m # Zero
      /\ l.next[n] \in Places /\ l.prev[n] \in Places
      /\ n # l.newest => l.next[n] \in D \ {n}
      /\ n # l.oldest => l.prev[n] \in D \ {n}
      /\ l.prev \in [Places -> Places] /\ l.next \in [Places -> Places]
  BY Neighbours DEF Lists
<1>2. ASSUME NEW h, h \in Lists
      PROVE  /\ Gone(h, {n}) \in Lists /\ Gone(h, {n}).oldest = h.oldest /\ Gone(h, {n}).newest = h.newest
             /\ \A m \in D \ {n} : Gone(h, {n}).prev[m] = h.prev[m] /\ Gone(h, {n}).next[m] = h.next[m]
  BY <1>1, <1>2, GoneList
<1>3. CASE n = l.oldest
  <2> DEFINE P == [l.prev EXCEPT ![l.next[n]] = Zero]
             c == [l EXCEPT !.oldest = l.next[n], !.prev = P]
  <2>1. P \in [Places -> Places] /\ \A m \in Places \ {l.next[n]} : P[m] = l.prev[m] BY <1>1
  <2>2. k = Gone(c, {n}) BY <1>3 DEF Unlinked
  <2> HIDE DEF P
  <2>3. c \in Lists /\ c.oldest = l.next[n] /\ c.newest = l.newest /\ c.prev = P /\ c.next = l.next
    BY <1>1, <2>1 DEF Lists
  <2> HIDE DEF c
  <2>5. k \in Lists /\ k.oldest = c.oldest /\ k.newest = c.newest
        /\ \A m \in D \ {n} : k.prev[m] = c.prev[m] /\ k.next[m] = c.next[m]
    <3>1. /\ Gone(c, {n}) \in Lists /\ Gone(c, {n}).oldest = c.oldest /\ Gone(c, {n}).newest = c.newest
          /\ \A m \in D \ {n} : Gone(c, {n}).prev[m] = c.prev[m] /\ Gone(c, {n}).next[m] = c.next[m]
      BY <1>2, <2>3
    <3> QED BY <2>2, <3>1
  <2> QED BY <1>1, <1>3, <2>1, <2>3, <2>5
<1>4. CASE n # l.oldest /\ n = l.newest
  <2> DEFINE N == [l.next EXCEPT ![l.prev[n]] = Zero]
             c == [l EXCEPT !.newest = l.prev[n], !.next = N]
  <2>1. N \in [Places -> Places] /\ \A m \in Places : N[m] = IF m = l.prev[n] THEN Zero ELSE l.next[m] BY <1>1
  <2>2. k = Gone(c, {n}) BY <1>4 DEF Unlinked
  <2>3. l.next[n] = Zero BY <1>4 DEF ListOf
  <2> HIDE DEF N
  <2>4. c \in Lists /\ c.oldest = l.oldest /\ c.newest = l.prev[n] /\ c.prev = l.prev /\ c.next = N
    BY <1>1, <2>1 DEF Lists
  <2> HIDE DEF c
  <2>5. k \in Lists /\ k.oldest = c.oldest /\ k.newest = c.newest
        /\ \A m \in D \ {n} : k.prev[m] = c.prev[m] /\ k.next[m] = c.next[m]
    BY <1>2, <2>4, <2>2
  <2> QED BY <1>1, <1>4, <2>1, <2>3, <2>4, <2>5
<1>5. CASE n # l.oldest /\ n # l.newest
  <2> DEFINE P == [l.prev EXCEPT ![l.next[n]] = l.prev[n]]
             N == [l.next EXCEPT ![l.prev[n]] = l.next[n]]
             c == [l EXCEPT !.prev = P, !.next = N]
  <2>1. /\ P \in [Places -> Places] /\ \A m \in Places : P[m] = IF m = l.next[n] THEN l.prev[n] ELSE l.prev[m]
        /\ N \in [Places -> Places] /\ \A m \in Places : N[m] = IF m = l.prev[n] THEN l.next[n] ELSE l.next[m]
    BY <1>1
  <2>2. k = Gone(c, {n}) BY <1>5 DEF Unlinked
  <2> HIDE DEF P, N
  <2>3. c \in Lists /\ c.oldest = l.oldest /\ c.newest = l.newest /\ c.prev = P /\ c.next = N BY <1>1, <2>1 DEF Lists
  <2> HIDE DEF c
  <2>5. k \in Lists /\ k.oldest = c.oldest /\ k.newest = c.newest
        /\ \A m \in D \ {n} : k.prev[m] = c.prev[m] /\ k.next[m] = c.next[m]
    BY <1>2, <2>3, <2>2
  <2> QED BY <1>1, <1>5, <2>1, <2>3, <2>5
<1> QED BY <1>3, <1>4, <1>5

\* dereference and the cleaner of Commit take a node out wherever it is.
LEMMA UnlinkedHolds ==
  ASSUME NEW l, NEW D, ListOf(l, D), Aged(D), NEW n \in D PROVE ListOf(Unlinked(l, n), D \ {n}) /\ Aged(D \ {n})
<1> DEFINE k == Unlinked(l, n)
           R == D \ {n}
<1>1. Aged(R) BY DEF Aged
<1>2. /\ k \in Lists
      /\ k.oldest = IF n = l.oldest THEN l.next[n] ELSE l.oldest
      /\ k.newest = IF n # l.oldest /\ n = l.newest THEN l.prev[n] ELSE l.newest
      /\ \A m \in R :
           /\ k.next[m] = IF n # l.oldest /\ m = l.prev[n]
                          THEN IF n = l.newest THEN Zero ELSE l.next[n] ELSE l.next[m]
           /\ m # k.oldest => k.prev[m] = IF m = l.next[n] THEN l.prev[n] ELSE l.prev[m]
  BY UnlinkedList
<1>3. ListOf(l, D) /\ l.oldest \in D /\ l.newest \in D /\ \A m \in D : age[m] \in Nat /\ m # Zero BY Neighbours
<1>4. \A z, y \in D : age[z] = age[y] => z = y BY DEF Aged
<1> HIDE DEF k
<1>5. CASE R = {}
  BY <1>3, <1>5, <1>1, <1>2 DEF ListOf, k
<1>6. CASE R # {}
  <2>1. k.oldest \in R /\ k.newest \in R
    BY <1>3, <1>4, <1>6, <1>2, Neighbours DEF ListOf
  <2>2. \A m \in R : age[k.oldest] <= age[m] BY <1>2, <1>3, <1>4, <2>1 DEF ListOf
  <2>3. \A m \in R : age[m] <= age[k.newest]
    <3>1. CASE n # l.oldest /\ n = l.newest
      BY <3>1, Neighbours, <1>3, <1>4, <1>2 DEF ListOf
    <3>2. CASE n = l.oldest \/ n # l.newest BY <1>2, <1>3, <3>2 DEF ListOf
    <3> QED BY <3>1, <3>2
  <2>4. ASSUME NEW m \in R
        PROVE  IF m = k.newest THEN k.next[m] = Zero
               ELSE /\ k.next[m] \in R /\ age[m] < age[k.next[m]]
                    /\ \A z \in R : age[z] <= age[m] \/ age[k.next[m]] <= age[z]
    <3>1. CASE n # l.oldest /\ m = l.prev[n]
      <4>1. l.next[m] = n /\ m # l.newest BY <3>1, Neighbours
      <4>2. age[m] < age[n] /\ \A z \in D : age[z] <= age[m] \/ age[n] <= age[z] BY <1>3, <4>1 DEF ListOf
      <4>3. CASE n = l.newest BY <1>2, <3>1, <4>3
      <4>4. CASE n # l.newest
        <5>1. l.next[n] \in R /\ age[n] < age[l.next[n]] /\ \A z \in D : age[z] <= age[n] \/ age[l.next[n]] <= age[z]
          BY <1>3, <4>4, Neighbours DEF ListOf
        <5>2. \A z \in R : age[z] # age[n] BY <1>4
        <5> QED BY <1>2, <1>3, <3>1, <4>1, <4>2, <4>4, <5>1, <5>2
      <4> QED BY <4>3, <4>4
    <3>2. CASE n = l.oldest \/ m # l.prev[n]
      <4>1. k.next[m] = l.next[m] BY <1>2, <3>2
      <4>2. l.next[m] # n
        BY <1>3, Neighbours, <3>2 DEF ListOf
      <4>3. m = k.newest <=> m = l.newest BY <1>2, <3>2
      <4> QED BY <1>3, <4>1, <4>2, <4>3 DEF ListOf
    <3> QED BY <3>1, <3>2
  <2>5. ASSUME NEW m \in R, m # k.oldest PROVE k.prev[m] \in R /\ k.next[k.prev[m]] = m
    <3>1. CASE m = l.next[n]
      BY <1>2, <1>3, <2>5, <3>1, Neighbours DEF ListOf
    <3>2. CASE m # l.next[n]
      BY <1>2, <2>5, <3>2, <1>3, Neighbours DEF ListOf
    <3> QED BY <3>1, <3>2
  <2> QED BY <1>1, <1>2, <1>6, <2>1, <2>2, <2>3, <2>4, <2>5 DEF ListOf, k
<1> QED BY <1>5, <1>6

\* The folds of Unlinked over the subsets of S, as FoldSet computes them.
Some(s) == CHOOSE z \in s : TRUE
Body(f, base, S) == [s \in SUBSET S |-> IF s = {} THEN base ELSE Unlinked(f[s \ {Some(s)}], Some(s))]

\* The cleaner's fold is a function on the parts of the batch.
LEMMA FoldIs ==
  ASSUME NEW base, NEW S PROVE FoldSet(LAMBDA n, l : Unlinked(l, n), base, S) = (CHOOSE f : f = Body(f, base, S))[S]
  BY DEF FoldSet, MapThenFoldSet, Body, Some

\* One element less.
LEMMA SomeLess ==
  ASSUME NEW S, IsFiniteSet(S), NEW s \in SUBSET S, s # {}
  PROVE  /\ Some(s) \in s /\ s \ {Some(s)} \in SUBSET S
         /\ Cardinality(s) \in Nat /\ Cardinality(s \ {Some(s)}) \in Nat
         /\ Cardinality(s \ {Some(s)}) = Cardinality(s) - 1
  BY FS_Subset, FS_CardinalityType, FS_RemoveElement DEF Some

\* There is such a function, for every finite batch.
LEMMA FoldExists ==
  ASSUME NEW base, NEW S, IsFiniteSet(S) PROVE \E f : f = Body(f, base, S)
<1> DEFINE Small(n) == {s \in SUBSET S : Cardinality(s) <= n}
           Fun(f, n) == [s \in Small(n) |-> IF s = {} THEN base ELSE Unlinked(f[s \ {Some(s)}], Some(s))]
           T == {n \in Nat : ~ \E f : f = Fun(f, n)}
<1>0. \A s \in SUBSET S : Cardinality(s) \in Nat /\ (Cardinality(s) = 0 <=> s = {})
  BY FS_Subset, FS_CardinalityType, FS_EmptySet
<1>1. T = {}
  <2>1. SUFFICES ASSUME T # {} PROVE FALSE OBVIOUS
  <2>2. PICK n \in T : \A m \in T : n <= m BY <2>1, LeastNumber
  <2>3. n \in Nat OBVIOUS
  <2>4. CASE n = 0
    <3>1. \A s \in Small(0) : s = {} BY <1>0
    <3> DEFINE g == [s \in Small(0) |-> base]
    <3>2. g = Fun(g, 0) BY <3>1
    <3> QED BY <2>2, <2>4, <3>2
  <2>5. CASE n # 0
    <3>0. n - 1 \in Nat /\ n - 1 \notin T
      <4> HIDE DEF T
      <4> QED BY <2>2, <2>3, <2>5
    <3>1. PICK f : f = Fun(f, n - 1)
      <4> HIDE DEF Fun
      <4> QED BY <3>0
    <3> DEFINE g == [s \in Small(n) |-> IF s \in Small(n - 1) THEN f[s] ELSE Unlinked(f[s \ {Some(s)}], Some(s))]
    <3>2. ASSUME NEW s \in Small(n) PROVE g[s] = IF s = {} THEN base ELSE Unlinked(g[s \ {Some(s)}], Some(s))
      <4>1. CASE s = {}
        BY <1>0, <2>2, <2>5, <4>1, <3>1
      <4>2. CASE s # {}
        <5>1. s \ {Some(s)} \in Small(n - 1) /\ s \ {Some(s)} \in Small(n) BY <1>0, <2>2, <2>5, <4>2, SomeLess
        <5>2. g[s \ {Some(s)}] = f[s \ {Some(s)}] BY <5>1
        <5>3. s \in Small(n - 1) => f[s] = Unlinked(f[s \ {Some(s)}], Some(s)) BY <3>1, <4>2
        <5> QED BY <3>2, <4>2, <5>2, <5>3
      <4> QED BY <4>1, <4>2
    <3>3. g = Fun(g, n) BY <3>2
    <3> QED BY <2>2, <3>3
  <2> QED BY <2>4, <2>5
<1>2. Cardinality(S) \in Nat BY <1>0
<1>3. PICK f : f = Fun(f, Cardinality(S)) BY <1>1, <1>2
<1>4. Small(Cardinality(S)) = SUBSET S BY FS_Subset
<1> QED BY <1>3, <1>4 DEF Body

\* The cleaner of Commit takes out all nodes of a batch.
LEMMA UncachedHolds ==
  ASSUME NEW l, NEW D, ListOf(l, D), Aged(D), NEW S \in SUBSET D, IsFiniteSet(S)
  PROVE  ListOf(FoldSet(LAMBDA n, m : Unlinked(m, n), l, S), D \ S)
<1> DEFINE f == CHOOSE g : g = Body(g, l, S)
           T == {n \in Nat : \E s \in SUBSET S : Cardinality(s) = n /\ ~ListOf(f[s], D \ s)}
<1>1. f = Body(f, l, S) BY FoldExists
<1> HIDE DEF f
<1>2. \A s \in SUBSET S : f[s] = IF s = {} THEN l ELSE Unlinked(f[s \ {Some(s)}], Some(s)) BY <1>1 DEF Body
<1>3. T = {}
  <2>1. SUFFICES ASSUME T # {} PROVE FALSE OBVIOUS
  <2>2. PICK n \in T : \A m \in T : n <= m BY <2>1, LeastNumber
  <2>3. PICK s \in SUBSET S : Cardinality(s) = n /\ ~ListOf(f[s], D \ s) BY <2>2
  <2>4. s # {} BY <1>2, <2>3
  <2> DEFINE z == Some(s)
             r == s \ {z}
  <2>5. z \in s /\ r \in SUBSET S /\ Cardinality(r) \in Nat /\ Cardinality(r) < n BY <2>2, <2>3, <2>4, SomeLess
  <2>6. ListOf(f[r], D \ r)
    <3>1. n \in Nat OBVIOUS
    <3>2. Cardinality(r) \notin T
      <4> HIDE DEF T
      <4> QED BY <2>2, <2>5, <3>1
    <3> QED BY <2>5, <3>2
  <2>7. Aged(D \ r) /\ z \in D \ r /\ (D \ r) \ {z} = D \ s BY <2>5 DEF Aged
  <2>8. f[s] = Unlinked(f[r], z) BY <1>2, <2>4
  <2> HIDE DEF z, r
  <2>9. ListOf(Unlinked(f[r], z), (D \ r) \ {z}) BY <2>6, <2>7, UnlinkedHolds
  <2> QED BY <2>3, <2>7, <2>8, <2>9
<1>4. Cardinality(S) \in Nat BY FS_CardinalityType
<1>5. ListOf(f[S], D \ S) BY <1>3, <1>4
<1> QED BY <1>5, FoldIs DEF f

\* The newest of some cached nodes.
LEMMA NewestExists ==
  ASSUME Aged(dirties), clock \in Nat, \A m \in dirties : age[m] < clock, NEW S \in SUBSET dirties, S # {}
  PROVE  \E n \in S : \A m \in S : age[m] <= age[n]
<1> DEFINE T == {clock - age[m] : m \in S}
<1>1. T \subseteq Nat /\ T # {} BY DEF Aged
<1>2. PICK t \in T : \A u \in T : t <= u BY <1>1, LeastNumber
<1>3. PICK n \in S : t = clock - age[n] BY <1>2
<1>4. \A m \in S : t <= clock - age[m] /\ age[m] \in Nat BY <1>2 DEF Aged
<1>5. \A m \in S : age[m] <= age[n] BY <1>3, <1>4
<1> QED BY <1>5

\* Cap takes the oldest nodes off the front.
LEMMA FrontCutHolds ==
  ASSUME ListOf(list, dirties), Aged(dirties), clock \in Nat, \A m \in dirties : age[m] < clock,
         NEW W \in SUBSET dirties, \A n \in W : \A m \in dirties \ W : age[n] <= age[m]
  PROVE  ListOf(FrontCut(list, W), dirties \ W)
<1>1. CASE W = {} BY <1>1 DEF FrontCut
<1>2. CASE W # {}
  <2> DEFINE last == CHOOSE n \in W : \A m \in W : age[m] <= age[n]
             first == list.next[last]
             P == [list.prev EXCEPT ![first] = Zero]
             c == [list EXCEPT !.oldest = first, !.prev = P]
             k == FrontCut(list, W)
             R == dirties \ W
  <2>1. last \in W /\ \A m \in W : age[m] <= age[last] BY <1>2, NewestExists
  <2>2. k = Gone(c, W) BY <1>2 DEF FrontCut
  <2> HIDE DEF last
  <2>3. /\ list \in Lists /\ list.oldest \in dirties /\ list.newest \in dirties /\ first \in Places /\ Zero \in Places
        /\ \A m \in dirties : m \in Places /\ m # Zero /\ age[m] \in Nat
        /\ \A n, m \in dirties : age[n] = age[m] => n = m
        /\ list.prev \in [Places -> Places] /\ list.next \in [Places -> Places]
    BY <2>1, Neighbours DEF Lists, Aged
  <2> HIDE DEF first
  <2>4. P \in [Places -> Places] /\ \A m \in Places \ {first} : P[m] = list.prev[m] BY <2>3
  <2> HIDE DEF P
  <2>5. c \in Lists /\ c.oldest = first /\ c.newest = list.newest /\ c.prev = P /\ c.next = list.next
    BY <2>3, <2>4 DEF Lists
  <2> HIDE DEF c, k
  <2>6. /\ k \in Lists /\ k.oldest = first /\ k.newest = list.newest
        /\ \A m \in R : k.next[m] = list.next[m] /\ (m # first => k.prev[m] = list.prev[m])
    BY <2>2, <2>3, <2>4, <2>5, GoneList
  <2>7. \A m \in R : age[last] < age[m] BY <2>1, <2>3
  <2>8. CASE R = {}
    BY <2>1, <2>3, <2>8, <2>6 DEF ListOf, first, k
  <2>9. CASE R # {}
    <3>1. list.newest \in R BY <2>1, <2>3, <2>7, <2>9 DEF ListOf
    <3>2. first \in dirties /\ age[last] < age[first] /\ \A m \in dirties : age[m] <= age[last] \/ age[first] <= age[m]
      BY <2>1, <3>1 DEF ListOf, first
    <3>3. first \in R /\ \A m \in R : age[first] <= age[m] BY <2>1, <2>3, <2>7, <3>2
    <3>4. ASSUME NEW n \in R
          PROVE  IF n = k.newest THEN k.next[n] = Zero
                 ELSE /\ k.next[n] \in R /\ age[n] < age[k.next[n]]
                      /\ \A m \in R : age[m] <= age[n] \/ age[k.next[n]] <= age[m]
      <4>1. CASE n = list.newest BY <2>6, <4>1 DEF ListOf
      <4>2. CASE n # list.newest
        BY <4>2, <2>1, <2>3, <2>7, <2>6 DEF ListOf
      <4> QED BY <4>1, <4>2
    <3>5. ASSUME NEW n \in R, n # k.oldest PROVE k.prev[n] \in R /\ k.next[k.prev[n]] = n
      <4>1. n # list.oldest BY <2>1, <2>3, <2>7 DEF ListOf
      <4>2. list.prev[n] \in dirties /\ list.next[list.prev[n]] = n /\ list.prev[n] # list.newest BY <4>1, Neighbours
      <4>3. ASSUME list.prev[n] \in W PROVE FALSE
        <5>1. age[last] <= age[list.prev[n]] \/ age[n] <= age[last] BY <2>1, <4>2 DEF ListOf
        <5>2. list.prev[n] = last BY <2>1, <2>3, <2>7, <4>3, <5>1
        <5> QED BY <2>6, <3>5, <4>2, <5>2 DEF first
      <4> QED BY <2>6, <3>5, <4>2, <4>3
    <3> QED BY <2>6, <2>9, <3>1, <3>3, <3>4, <3>5 DEF ListOf, k
  <2> QED BY <2>8, <2>9
<1> QED BY <1>1, <1>2

-----------------------------------------------------------------------------
(* The walk along the list.                                                *)

\* The walk starts at the oldest node and follows next.
LEMMA WalkSteps ==
  /\ Cardinality(Nodes) \in Nat /\ Walk[0] = list.oldest
  /\ \A i \in 1 .. Cardinality(Nodes) : Walk[i] = list.next[Walk[i - 1]]
<1> DEFINE N == Cardinality(Nodes)
           Fun(f, n) == [i \in 0 .. n |-> IF i = 0 THEN list.oldest ELSE list.next[f[i - 1]]]
           T == {n \in Nat : ~ \E f : f = Fun(f, n)}
<1>1. N \in Nat BY FS_CardinalityType, TrieAssumption
<1>2. T = {}
  <2>1. SUFFICES ASSUME T # {} PROVE FALSE OBVIOUS
  <2>2. PICK n \in T : \A m \in T : n <= m BY <2>1, LeastNumber
  <2>3. n \in Nat OBVIOUS
  <2>4. CASE n = 0
    <3> DEFINE g == [i \in 0 .. 0 |-> list.oldest]
    <3>1. g = Fun(g, 0) OBVIOUS
    <3> QED BY <2>2, <2>4, <3>1
  <2>5. CASE n # 0
    <3>1. n - 1 \in Nat /\ n - 1 \notin T
      <4> HIDE DEF T
      <4> QED BY <2>2, <2>3, <2>5
    <3>2. PICK f : f = Fun(f, n - 1)
      <4> HIDE DEF Fun
      <4> QED BY <3>1
    <3> DEFINE g == [i \in 0 .. n |-> IF i <= n - 1 THEN f[i] ELSE list.next[f[i - 1]]]
    <3>3. \A i \in 0 .. n : g[i] = IF i = 0 THEN list.oldest ELSE list.next[g[i - 1]] BY <2>3, <2>5, <3>2
    <3>4. g = Fun(g, n) BY <3>3
    <3> QED BY <2>2, <3>4
  <2> QED BY <2>4, <2>5
<1>3. \E f : f = Fun(f, N) BY <1>1, <1>2
<1>4. Walk = Fun(Walk, N) BY <1>3 DEF Walk
<1> QED BY <1>1, <1>4

\* The place of a node is the number of older ones.
Older(n) == {m \in dirties : age[m] < age[n]}

\* The place of a node on the list is the number of nodes that are older.
LEMMA PlaceCounts ==
  ASSUME ListOf(list, dirties), Aged(dirties), NEW n \in dirties
  PROVE  /\ Cardinality(Older(n)) \in Nat /\ Cardinality(dirties) \in Nat
         /\ Cardinality(Older(n)) < Cardinality(dirties)
         /\ n = list.oldest <=> Cardinality(Older(n)) = 0
         /\ n = list.newest <=> Cardinality(Older(n)) = Cardinality(dirties) - 1
         /\ n # list.newest => Cardinality(Older(list.next[n])) = Cardinality(Older(n)) + 1
<1>1. /\ \A m \in dirties : age[m] \in Nat
      /\ \A m, z \in dirties : age[m] = age[z] => m = z
      /\ list.oldest \in dirties /\ list.newest \in dirties
  BY Neighbours DEF Aged
<1>2. \A S \in SUBSET dirties : IsFiniteSet(S) /\ Cardinality(S) \in Nat
  BY FS_Subset, FS_CardinalityType, TrieAssumption DEF Aged
<1>3. ASSUME NEW m \in dirties PROVE Older(m) \in SUBSET dirties /\ m \notin Older(m) BY <1>1 DEF Older
<1>4. ASSUME NEW m \in dirties PROVE Cardinality(Older(m) \cup {m}) = Cardinality(Older(m)) + 1
  BY <1>2, <1>3, FS_AddElement
<1>5. n # list.newest => list.next[n] \in dirties /\ Older(list.next[n]) = Older(n) \cup {n} BY <1>1 DEF ListOf, Older
<1>6. Older(list.newest) \cup {list.newest} = dirties BY <1>1 DEF ListOf, Older
<1>7. n # list.newest => Older(n) \cup {n} \subseteq Older(list.newest) BY <1>1 DEF ListOf, Older
<1>8. n # list.newest => Cardinality(Older(n)) + 1 <= Cardinality(Older(list.newest))
  BY <1>1, <1>2, <1>3, <1>4, <1>7, FS_Subset
<1>9. Cardinality(Older(list.newest)) = Cardinality(dirties) - 1 BY <1>1, <1>2, <1>3, <1>4, <1>6
<1>10. n = list.oldest <=> Older(n) = {} BY <1>1 DEF ListOf, Older
<1>11. Cardinality(Older(n)) = 0 <=> Older(n) = {} BY <1>2, <1>3, FS_EmptySet
<1> QED BY <1>1, <1>2, <1>3, <1>4, <1>5, <1>8, <1>9, <1>10, <1>11

\* From the oldest on the walk meets the nodes in the order of their age.
LEMMA WalkMeets ==
  ASSUME ListOf(list, dirties), Aged(dirties), NEW i \in Nat, i < Cardinality(dirties)
  PROVE  Walk[i] \in dirties /\ Cardinality(Older(Walk[i])) = i
<1> DEFINE T == {n \in Nat : /\ n < Cardinality(dirties)
                            /\ ~(Walk[n] \in dirties /\ Cardinality(Older(Walk[n])) = n)}
<1>1. SUFFICES ASSUME T # {} PROVE FALSE OBVIOUS
<1>2. PICK n \in T : \A m \in T : n <= m BY <1>1, LeastNumber
<1>3. n \in Nat /\ n < Cardinality(dirties) OBVIOUS
<1>4. /\ Cardinality(dirties) \in Nat /\ Cardinality(dirties) <= Cardinality(Nodes) /\ dirties # {}
      /\ Cardinality(Nodes) \in Nat
  BY <1>3, FS_Subset, FS_CardinalityType, FS_EmptySet, TrieAssumption DEF Aged
<1>5. CASE n = 0
  BY <1>4, <1>2, <1>5, WalkSteps, PlaceCounts DEF ListOf
<1>6. CASE n # 0
  <2>1. n - 1 \in Nat /\ n - 1 < Cardinality(dirties) /\ n \in 1 .. Cardinality(Nodes) BY <1>3, <1>4, <1>6
  <2>5. n - 1 \notin T
    <3> HIDE DEF T
    <3> QED BY <1>2, <1>3, <2>1
  <2>2. Walk[n - 1] \in dirties /\ Cardinality(Older(Walk[n - 1])) = n - 1 BY <2>1, <2>5
  <2>3. Walk[n - 1] # list.newest BY <1>3, <1>4, <2>2, PlaceCounts
  <2>4. list.next[Walk[n - 1]] \in dirties /\ Cardinality(Older(list.next[Walk[n - 1]])) = n
    BY <1>3, <2>2, <2>3, PlaceCounts, Neighbours
  <2> QED BY <1>2, <2>1, <2>4, WalkSteps
<1> QED BY <1>5, <1>6

\* A list in the order of age is what the walk along it shows, both ways.
LEMMA WalkSound ==
  ASSUME ListOf(list, dirties), Aged(dirties) PROVE FlushListSound
<1> DEFINE n == Cardinality(dirties)
<1>1. n \in Nat /\ n <= Cardinality(Nodes) /\ (n = 0 <=> dirties = {}) /\ Cardinality(Nodes) \in Nat
  BY FS_Subset, FS_CardinalityType, FS_EmptySet, TrieAssumption DEF Aged
<1>2. \A i \in 0 .. (n - 1) : Walk[i] \in dirties /\ Cardinality(Older(Walk[i])) = i BY <1>1, WalkMeets
<1>3. ASSUME NEW m \in dirties PROVE \E i \in 0 .. (n - 1) : Walk[i] = m
  <2> DEFINE i == Cardinality(Older(m))
  <2>1. i \in 0 .. (n - 1) BY <1>1, PlaceCounts
  <2>2. Walk[i] \in dirties /\ Cardinality(Older(Walk[i])) = i BY <1>2, <2>1
  <2>3. ASSUME NEW z \in dirties, NEW y \in dirties, age[z] < age[y] PROVE Cardinality(Older(z)) < Cardinality(Older(y))
    <3>1. Older(z) \cup {z} \subseteq Older(y) /\ z \notin Older(z) BY <2>3 DEF Older, Aged
    <3>2. IsFiniteSet(Older(z)) /\ IsFiniteSet(Older(y)) BY FS_Subset, TrieAssumption DEF Aged, Older
    <3>3. Cardinality(Older(z) \cup {z}) = Cardinality(Older(z)) + 1 BY <3>1, <3>2, FS_AddElement
    <3> QED BY <3>1, <3>2, <3>3, FS_Subset, FS_CardinalityType
  <2>4. age[Walk[i]] = age[m] BY <2>2, <2>3, PlaceCounts DEF Aged
  <2> QED BY <2>1, <2>2, <2>4 DEF Aged
<1>4. {Walk[i] : i \in 0 .. (n - 1)} = dirties BY <1>2, <1>3
<1>5. CASE n = 0
  BY <1>1, <1>5, WalkSteps, <1>4 DEF ListOf, FlushListSound
<1>6. CASE n # 0
  <2>1. n - 1 \in 0 .. (n - 1) /\ n \in 1 .. Cardinality(Nodes) BY <1>1, <1>6
  <2>2. Walk[n - 1] = list.newest BY <1>2, <2>1, PlaceCounts
  <2>3. Walk[n] = Zero BY <1>2, <2>1, <2>2, WalkSteps DEF ListOf
  <2>4. ASSUME NEW i \in 1 .. (n - 1) PROVE list.prev[Walk[i]] = Walk[i - 1] /\ age[Walk[i - 1]] < age[Walk[i]]
    BY <1>1, <1>2, WalkSteps, PlaceCounts, Neighbours DEF ListOf
  <2> QED BY <1>1, <1>4, <1>6, <2>2, <2>3, <2>4 DEF FlushListSound
<1> QED BY <1>5, <1>6

-----------------------------------------------------------------------------
(* The steps and the flush list.                                           *)

\* What Cap has written is older than what it has not, and a flush writes cached nodes only.
WrittenSound ==
  /\ op.kind \in {"cap", "commit"} => op.done \subseteq dirties
  /\ op.kind = "cap" => \A n \in op.done : \A m \in dirties \ op.done : age[n] <= age[m]

\* The inductive invariant of the flush list, next to IInv.
ListInv == ListOf(list, dirties) /\ Aged(dirties) /\ WrittenSound

\* What is cached keeps its age when written nodes are forgotten.
LEMMA ListAged ==
  ASSUME ListOf(list', dirties'), Aged(dirties), dirties' \subseteq dirties,
         age' \in [Nodes -> Nat], \A n \in dirties' : age'[n] = age[n] PROVE ListOf(list, dirties)' /\ Aged(dirties)'
<1>1. \A n \in dirties' : n \in Nodes /\ age'[n] = age[n] BY DEF Aged
<1>2. Aged(dirties)' BY <1>1 DEF Aged
<1>3. list' \in Lists' BY DEF ListOf, Lists, Places
<1>4. /\ IF dirties' = {} THEN list'.oldest = Zero
         ELSE /\ list'.oldest \in dirties' /\ list'.newest \in dirties'
              /\ \A m \in dirties' : age'[list'.oldest] <= age'[m] /\ age'[m] <= age'[list'.newest]
      /\ \A n \in dirties' : n # list'.oldest => list'.prev[n] \in dirties' /\ list'.next[list'.prev[n]] = n
  BY <1>1 DEF ListOf
<1>5. ASSUME NEW n \in dirties'
      PROVE  IF n = list'.newest THEN list'.next[n] = Zero
             ELSE /\ list'.next[n] \in dirties' /\ age'[n] < age'[list'.next[n]]
                  /\ \A m \in dirties' : age'[m] <= age'[n] \/ age'[list'.next[n]] <= age'[m]
  <2>1. CASE n = list'.newest BY <2>1 DEF ListOf
  <2>2. CASE n # list'.newest
    BY <2>2, <1>1 DEF ListOf
  <2> QED BY <2>1, <2>2
<1> QED BY <1>2, <1>3, <1>4, <1>5 DEF ListOf

\* The list stays as it is.
LEMMA ListKept ==
  ASSUME ListInv, UNCHANGED <<dirties, age, list>>, WrittenSound'
  PROVE  ListInv' BY DEF ListInv, ListOf, Aged, Lists, Places

\* The list at the start.
LEMMA InitListed == TrieInit => ListInv
<1> SUFFICES ASSUME TrieInit PROVE ListInv OBVIOUS
<1>1. list \in Lists /\ list.oldest = Zero BY DEF TrieInit, EmptyList, Lists, Places
<1>2. Aged(dirties) /\ WrittenSound BY TrieAssumption DEF TrieInit, Aged, WrittenSound, Idle
<1> QED BY <1>1, <1>2 DEF ListInv, ListOf, TrieInit

\* insert appends the node that is now the newest.
LEMMA InsertListed ==
  ASSUME IInv, ListInv, NEW n \in Nodes, Insert(n) PROVE ListInv'
<1>1. /\ op.kind = "insert" /\ op' = [op EXCEPT !.todo = @ \ {n}]
      /\ op \in [kind : Kinds, root : Nodes \cup {Zero}, todo : SUBSET Nodes, new : SUBSET Nodes,
                 done : SUBSET Nodes, refs : SUBSET (Nodes \X Nodes)] BY DEF Insert, Doing, IInv, TypesOK, OpTypeOK
<1>2. op'.kind = "insert" BY <1>1
<1>3. WrittenSound' BY <1>2 DEF WrittenSound
<1>4. CASE n \in dirties
  BY <1>4, <1>3, ListKept DEF Insert, cacheVars
<1>5. CASE n \notin dirties
  BY <1>5, <1>3, LinkedHolds DEF Insert, IInv, TypesOK, OldestFirst, ListInv
<1> QED BY <1>4, <1>5

\* dereference takes a node out wherever it is.
LEMMA ReleasedListed ==
  ASSUME IInv, ListInv, NEW n \in Nodes, NEW refs, Released(n, refs), UNCHANGED age PROVE ListInv'
<1>1. op'.kind = "drop" BY DEF Released, Idle
<1>2. WrittenSound' BY <1>1 DEF WrittenSound
<1>3. CASE UNCHANGED <<dirties, list>> BY <1>2, <1>3, ListKept
<1>4. CASE n \in dirties /\ dirties' = dirties \ {n} /\ list' = Unlinked(list, n)
  BY <1>4, UnlinkedHolds, <1>2, ListAged DEF ListInv, Aged
<1> QED BY <1>3, <1>4 DEF Released

\* Cap writes the oldest node that is not written yet.
LEMMA CapWriteListed ==
  ASSUME IInv, ListInv, NEW n \in Nodes, CapWrite(n) PROVE ListInv'
  BY ListKept DEF CapWrite, Doing, cacheVars, IInv, TypesOK, OpTypeOK, ListInv, WrittenSound

\* commit writes cached nodes only.
LEMMA CommitWriteListed ==
  ASSUME IInv, ListInv, NEW n \in Nodes, CommitWrite(n) PROVE ListInv'
<1>1. /\ op.kind = "commit" /\ n \in op.todo /\ UNCHANGED <<dirties, age, list>>
      /\ op.todo \subseteq dirties
      /\ op \in [kind : Kinds, root : Nodes \cup {Zero}, todo : SUBSET Nodes, new : SUBSET Nodes,
                 done : SUBSET Nodes, refs : SUBSET (Nodes \X Nodes)]
      /\ op' = [op EXCEPT !.todo = @ \ {n}, !.done = @ \cup {n}]
  BY DEF CommitWrite, Doing, cacheVars, IInv, TypesOK, OpTypeOK, FlushSound
<1>2. op'.kind = "commit" /\ op'.done = op.done \cup {n} BY <1>1
<1>3. WrittenSound' BY <1>1, <1>2 DEF ListInv, WrittenSound
<1> QED BY <1>1, <1>3, ListKept

\* A flushed batch leaves the list.
LEMMA ForgetListed ==
  ASSUME ListInv, NEW S \in SUBSET dirties, Forget(S), ListOf(list', dirties \ S)
  PROVE  ListOf(list, dirties)' /\ Aged(dirties)'
  BY ListAged DEF Forget, ListInv, Aged

\* What Cap wrote is the front of the list.
LEMMA EndCapListed ==
  ASSUME IInv, ListInv, EndCap PROVE ListInv'
  BY FrontCutHolds, ForgetListed DEF EndCap, Doing, ListInv, WrittenSound, IInv, TypesOK, OldestFirst, Idle

\* The cleaner takes a batch out, node by node.
LEMMA UncacheListed ==
  ASSUME IInv, ListInv, Uncache PROVE ListInv'
<1>1. /\ op.kind = "commit" /\ op.done \in SUBSET dirties /\ IsFiniteSet(op.done)
      /\ op \in [kind : Kinds, root : Nodes \cup {Zero}, todo : SUBSET Nodes, new : SUBSET Nodes,
                 done : SUBSET Nodes, refs : SUBSET (Nodes \X Nodes)]
  BY FS_Subset, TrieAssumption DEF TrieAssumption, Uncache, Doing, ListInv, WrittenSound, Aged, IInv, TypesOK, OpTypeOK
<1>2. ListOf(FoldSet(LAMBDA n, l : Unlinked(l, n), list, op.done), dirties \ op.done) BY <1>1, UncachedHolds DEF ListInv
<1>3. /\ Forget(op.done) /\ list' = FoldSet(LAMBDA n, l : Unlinked(l, n), list, op.done)
      /\ op' = [op EXCEPT !.done = {}]
  BY DEF Uncache
<1>4. op'.kind = "commit" /\ op'.done = {} BY <1>1, <1>3
<1>5. WrittenSound' BY <1>4 DEF WrittenSound
<1>6. ListOf(list', dirties \ op.done) BY <1>2, <1>3
<1> QED BY <1>1, <1>3, <1>5, <1>6, ForgetListed DEF ListInv

\* The list after a restart is empty.
LEMMA KillListed ==
  ASSUME Kill PROVE ListInv'
<1>1. list' = EmptyList /\ dirties' = {} /\ age' = [n \in Nodes |-> 0] /\ op' = Idle BY DEF Kill
<1>2. list' \in Lists' /\ list'.oldest = Zero BY <1>1 DEF EmptyList, Lists, Places
<1>3. Aged(dirties)' /\ WrittenSound' BY <1>1 DEF Aged, WrittenSound, Idle
<1> QED BY <1>1, <1>2, <1>3 DEF ListInv, ListOf

\* The other steps leave the list as it is.
LEMMA OthersListed ==
  ASSUME IInv, ListInv,
         \/ \E r \in StateRoots : BeginUpdate(r) \/ Reference(r) \/ BeginCommit(r)
         \/ \E n \in Nodes : Link(n)
         \/ Inserted \/ Keep \/ Dropped \/ BeginCap \/ EndCommit \/ WriteFails
         \/ UNCHANGED trieVars
  PROVE  ListInv'
<1>1. UNCHANGED <<dirties, age, list>>
  BY DEF BeginUpdate, Reference, BeginCommit, Link, Inserted, Keep, Dropped, BeginCap, EndCommit, WriteFails, trieVars,
   cacheVars
<1>2. WrittenSound'
  <2>1. CASE op'.kind \notin {"cap", "commit"} \/ op'.done = {} BY <2>1 DEF WrittenSound
  <2>2. CASE op' = op BY <1>1, <2>2 DEF ListInv, WrittenSound
  <2>3. ASSUME NEW n \in Nodes, Link(n) PROVE op'.kind = "link" BY <2>3 DEF Link, Doing, IInv, TypesOK, OpTypeOK
  <2>4. Inserted => op'.kind = "link" BY DEF Inserted, Doing, IInv, TypesOK, OpTypeOK
  <2>5. Keep \/ Dropped \/ EndCommit \/ WriteFails => op'.kind = "idle"
    BY DEF Keep, Dropped, EndCommit, WriteFails, Idle
  <2>6. BeginCap => op'.done = {} BY DEF BeginCap, Idle
  <2>7. ASSUME NEW r \in StateRoots
        PROVE  /\ BeginUpdate(r) => op'.kind = "insert"
               /\ BeginCommit(r) => op'.done = {}
               /\ Reference(r) => op' = op
    BY DEF BeginUpdate, BeginCommit, Reference, Idle
  <2>8. UNCHANGED trieVars => op' = op BY DEF trieVars
  <2> QED BY <2>1, <2>2, <2>3, <2>4, <2>5, <2>6, <2>7, <2>8
<1> QED BY <1>1, <1>2, ListKept

\* Every step keeps the list.
LEMMA StepListed == IInv /\ ListInv /\ [TrieNext]_trieVars => ListInv'
<1> SUFFICES ASSUME IInv, ListInv, [TrieNext]_trieVars PROVE ListInv' OBVIOUS
<1>1. ASSUME NEW r \in StateRoots, Dereference(r) PROVE ListInv'
  BY <1>1, TrieAssumption, ReleasedListed DEF Dereference, TrieAssumption
<1>2. ASSUME NEW n \in Nodes, Insert(n) \/ CapWrite(n) \/ CommitWrite(n)
      PROVE  ListInv' BY <1>2, InsertListed, CapWriteListed, CommitWriteListed
<1>3. ASSUME NEW ref \in op.refs, Drop(ref) PROVE ListInv'
  BY <1>3, ReleasedListed DEF Drop, IInv, TypesOK, OpTypeOK
<1>4. CASE EndCap \/ Uncache \/ Kill BY <1>4, EndCapListed, UncacheListed, KillListed
<1> QED BY <1>1, <1>2, <1>3, <1>4, OthersListed DEF TrieNext

-----------------------------------------------------------------------------
(* Theorems.                                                               *)

\* Every step keeps the counts and the states.
LEMMA StepHolds == IInv /\ [TrieNext]_trieVars => IInv'
<1> SUFFICES ASSUME IInv, [TrieNext]_trieVars PROVE IInv' OBVIOUS
<1>1. CASE UNCHANGED trieVars
  <2>1. UNCHANGED <<cacheVars, disk, users>> /\ op' = op BY <1>1 DEF trieVars
  <2>2. TypesOK' /\ UpdateSound' /\ DropSound' /\ FlushSound'
    BY <2>1 DEF IInv, TypesOK, OpTypeOK, UpdateSound, DropSound, FlushSound, cacheVars, Have, Recorded, Refs
  <2> QED BY <2>1, <2>2, CacheKept
<1>2. ASSUME NEW r \in StateRoots, BeginUpdate(r) \/ Reference(r) \/ Dereference(r) \/ BeginCommit(r)
      PROVE  IInv' BY <1>2, BeginUpdateHolds, ReferenceHolds, DereferenceHolds, BeginCommitHolds
<1>3. ASSUME NEW n \in Nodes, Insert(n) \/ Link(n) \/ CapWrite(n) \/ CommitWrite(n)
      PROVE  IInv' BY <1>3, InsertHolds, LinkHolds, CapWriteHolds, CommitWriteHolds
<1>4. ASSUME NEW ref \in op.refs, Drop(ref) PROVE IInv' BY <1>4, DropHolds
<1>5. CASE Inserted \/ Keep \/ Dropped \/ BeginCap \/ EndCap \/ Uncache \/ EndCommit \/ WriteFails \/ Kill
  BY <1>5, InsertedHolds, KeepHolds, EndsHold, BeginCapHolds, EndCapHolds, UncacheHolds, KillHolds
<1> QED BY <1>1, <1>2, <1>3, <1>4, <1>5 DEF TrieNext

\* Whatever is inserted, referenced, dropped, flushed and committed, in whatever order, with
\* failing writes and kills in between: every state a block needs can be read, and a root on
\* disk has its whole state there (trie/database.go with BlockChain.writeBlockWithState).
THEOREM StatesAreKept == TrieSpec => []StatesKept
<1>1. IInv => StatesKept BY DEF IInv
<1> QED BY InitHolds, StepHolds, <1>1, PTL DEF TrieSpec

\* The parents field of a node that is only in memory is the number of nodes and users that
\* refer to it (insert, reference and dereference of trie/database.go).
THEOREM CountsAreExact == TrieSpec => []CountsExact
<1>1. IInv => CountsExact BY DEF IInv
<1> QED BY InitHolds, StepHolds, <1>1, PTL DEF TrieSpec

\* The books of the cache are right: every field has its type, a node that is only in memory is
\* counted by exactly those that refer to it, and the flush list runs through the cached nodes
\* from the oldest to the newest, both ways, whatever is inserted, dropped or flushed out of
\* its front or its middle (insert, dereference, Cap and cleaner.Put of trie/database.go).
THEOREM CacheIsSound == TrieSpec => []CacheSound
<1>1. TypesOK => TrieTypeOK BY DEF TypesOK, OpTypeOK, TrieTypeOK
<1>2. IInv /\ ListInv => CacheSound BY <1>1, WalkSound DEF IInv, ListInv, CacheSound
<1> QED BY InitHolds, StepHolds, InitListed, StepListed, <1>2, PTL DEF TrieSpec

-----------------------------------------------------------------------------
(* The indices over sections.                                              *)

\* Where sections begin.
LEMMA SectionStarts ==
  /\ \A s \in Nat : /\ s * SectionSize \in Nat /\ SectionEnd(s) \in Nat
                    /\ (s + 1) * SectionSize = s * SectionSize + SectionSize
                    /\ SectionEnd(s) = s * SectionSize + SectionSize - 1
  /\ \A s, t \in Nat : s < t => SectionEnd(s) < t * SectionSize /\ SectionEnd(s) < SectionEnd(t)
                                /\ s * SectionSize < t * SectionSize
  /\ 0 * SectionSize = 0 /\ SectionSize \in Nat /\ SectionSize > 0
<1>0. SectionSize \in Nat /\ SectionSize > 0 BY IndexerAssumption
<1>1. ASSUME NEW s \in Nat PROVE s * SectionSize \in Nat /\ (s + 1) * SectionSize = s * SectionSize + SectionSize
  BY <1>0
<1>2. ASSUME NEW s \in Nat, NEW t \in Nat, s < t PROVE (s + 1) * SectionSize <= t * SectionSize
  BY <1>0, <1>2, <1>1
<1>3. 0 * SectionSize = 0 BY <1>0
<1> QED BY <1>0, <1>1, <1>2, <1>3 DEF SectionEnd

\* Dividing by the size of a section.
LEMMA Quotients ==
  /\ \A n \in Nat : /\ n \div SectionSize \in Nat /\ (n \div SectionSize) * SectionSize <= n
                    /\ n < (n \div SectionSize) * SectionSize + SectionSize
  /\ \A n \in Nat, s \in Nat : s <= n \div SectionSize <=> s * SectionSize <= n
<1>0. SectionSize \in Nat /\ SectionSize > 0 BY IndexerAssumption
<1>1. ASSUME NEW n \in Nat
      PROVE /\ n \div SectionSize \in Nat /\ (n \div SectionSize) * SectionSize <= n
            /\ n < (n \div SectionSize) * SectionSize + SectionSize
  BY <1>0
<1>2. ASSUME NEW n \in Nat, NEW s \in Nat PROVE s <= n \div SectionSize <=> s * SectionSize <= n
  <2> DEFINE q == n \div SectionSize
  <2>1. q \in Nat /\ q * SectionSize <= n /\ n < q * SectionSize + SectionSize BY <1>1
  <2> HIDE DEF q
  <2>2. CASE s <= q
    BY <2>1, <2>2, SectionStarts
  <2>3. CASE q < s
    BY <2>1, <2>3, SectionStarts, <1>0
  <2> QED BY <2>1, <2>2, <2>3 DEF q
<1> QED BY <1>1, <1>2

Hashes == Headers \cup {NoHash}
LastSection == Cardinality(Headers) \div SectionSize

\* The header at a number on the chain of h.
HashAt(h, n) ==
  LET at == {b \in Ancestry[h] : NumberOf[b] = n}
  IN IF at = {} THEN NoHash ELSE CHOOSE b \in at : TRUE

LEMMA HashAtSound == ASSUME NEW h \in Headers, NEW n \in Nat
  PROVE /\ n <= NumberOf[h] => HashAt(h, n) \in Ancestry[h] /\ HashAt(h, n) \in Headers /\ NumberOf[HashAt(h, n)] = n
        /\ n > NumberOf[h] => HashAt(h, n) = NoHash
        /\ HashAt(h, n) \in Hashes /\ NoHash \notin Headers
        /\ \A c \in Ancestry[h] : NumberOf[c] = n => HashAt(h, n) = c
        /\ HashAt(h, n) # NoHash => HashAt(h, n) \in Ancestry[h] /\ NumberOf[HashAt(h, n)] = n
<1> DEFINE at == {b \in Ancestry[h] : NumberOf[b] = n}
<1>1. Ancestry[h] \subseteq Headers /\ NumberOf[h] \in Nat BY IndexerAssumption
<1>2. n <= NumberOf[h] => at # {} BY IndexerAssumption, <1>1
<1>3. n > NumberOf[h] => at = {} BY IndexerAssumption, <1>1
<1>4. \A c, d \in at : c = d BY IndexerAssumption
<1>5. at # {} => HashAt(h, n) \in at BY DEF HashAt
<1>6. at = {} => HashAt(h, n) = NoHash BY DEF HashAt
<1>7. NoHash \notin Headers BY IndexerAssumption
<1> QED BY <1>1, <1>2, <1>3, <1>4, <1>5, <1>6, <1>7 DEF Hashes

LEMMA Ancestors ==
  /\ Root \in Headers /\ NumberOf[Root] = 0 /\ NoHash \notin Headers
  /\ \A b \in Headers : /\ b \in Ancestry[b] /\ Ancestry[b] \subseteq Headers /\ NumberOf[b] \in Nat
                        /\ NumberOf[b] = 0 => b = Root
                        /\ b # Root => /\ ParentOf[b] \in Ancestry[b] /\ ParentOf[b] \in Headers
                                       /\ NumberOf[ParentOf[b]] = NumberOf[b] - 1
                                       /\ Ancestry[b] = {b} \cup Ancestry[ParentOf[b]]
  /\ \A b \in Headers : \A c \in Ancestry[b] : Ancestry[c] \subseteq Ancestry[b] /\ NumberOf[c] <= NumberOf[b]
  /\ \A b \in Headers : \A c, d \in Ancestry[b] : NumberOf[c] = NumberOf[d] => c = d
<1>1. ASSUME NEW b \in Headers PROVE b \in Ancestry[b]
  <2>1. Ancestry[Root] = {Root} BY IndexerAssumption
  <2>2. b # Root => Ancestry[b] = {b} \cup Ancestry[ParentOf[b]] BY IndexerAssumption
  <2> QED BY <2>1, <2>2
<1>2. \A b \in Headers \ {Root} : NumberOf[b] = NumberOf[ParentOf[b]] + 1 /\ ParentOf[b] \in Headers BY IndexerAssumption
<1>3. \A b \in Headers : NumberOf[b] \in Nat /\ Ancestry[b] \subseteq Headers BY IndexerAssumption
<1>4. \A b \in Headers \ {Root} : Ancestry[b] = {b} \cup Ancestry[ParentOf[b]] BY IndexerAssumption
<1>5. Root \in Headers /\ NumberOf[Root] = 0 /\ NoHash \notin Headers BY IndexerAssumption
<1>6. /\ \A b \in Headers : \A c \in Ancestry[b] : Ancestry[c] \subseteq Ancestry[b] /\ NumberOf[c] <= NumberOf[b]
      /\ \A b \in Headers : \A c, d \in Ancestry[b] : NumberOf[c] = NumberOf[d] => c = d
  BY IndexerAssumption
<1>7. \A b \in Headers : NumberOf[b] = 0 => b = Root BY <1>2, <1>3
<1> QED BY <1>1, <1>2, <1>3, <1>4, <1>5, <1>6, <1>7

\* There are as many sections as the longest chain has, at most.
LEMMA NumbersBounded ==
  /\ LastSection \in Nat /\ SectionIds = 0..LastSection
  /\ \A b \in Headers : NumberOf[b] \in Nat /\ NumberOf[b] + 1 <= Cardinality(Headers)
  /\ Cardinality(Headers) \in Nat
  /\ \A n \in Nat : n <= Cardinality(Headers) => n \div SectionSize \in 0..LastSection
  /\ \A s \in 0..LastSection : s < LastSection => SectionEnd(s) + 1 <= Cardinality(Headers)
<1>1. IsFiniteSet(Headers) /\ Cardinality(Headers) \in Nat BY IndexerAssumption, FS_CardinalityType
<1>2. ASSUME NEW b \in Headers PROVE NumberOf[b] + 1 <= Cardinality(Headers)
  <2> DEFINE f == [c \in Ancestry[b] |-> NumberOf[c]]
  <2>1. Ancestry[b] \subseteq Headers /\ NumberOf[b] \in Nat BY Ancestors
  <2>2. IsFiniteSet(Ancestry[b]) /\ Cardinality(Ancestry[b]) <= Cardinality(Headers) BY <1>1, <2>1, FS_Subset
  <2>3. f \in Surjection(Ancestry[b], 0..NumberOf[b])
    BY <2>1, Ancestors, IndexerAssumption DEF Surjection
  <2>4. Cardinality(0..NumberOf[b]) <= Cardinality(Ancestry[b]) BY <2>2, <2>3, FS_Surjection
  <2>5. Cardinality(0..NumberOf[b]) = NumberOf[b] + 1 BY <2>1, FS_Interval
  <2>6. Cardinality(Ancestry[b]) \in Nat BY <2>2, FS_CardinalityType
  <2> QED BY <1>1, <2>1, <2>2, <2>4, <2>5, <2>6
<1>3. \A n \in Nat : n <= Cardinality(Headers) => n \div SectionSize \in 0..LastSection
  <2> TAKE n \in Nat
  <2> HAVE n <= Cardinality(Headers)
  <2> DEFINE q == n \div SectionSize
  <2>1. q \in Nat /\ q * SectionSize <= n BY Quotients
  <2>2. LastSection \in Nat BY <1>1, Quotients DEF LastSection
  <2>3. q * SectionSize \in Nat BY <2>1, SectionStarts
  <2> HIDE DEF q
  <2>4. q * SectionSize <= Cardinality(Headers) BY <1>1, <2>1, <2>3
  <2>5. q <= LastSection BY <1>1, <2>1, <2>4, Quotients DEF LastSection
  <2>6. q \in 0..LastSection BY <2>1, <2>2, <2>5
  <2> QED BY <2>6 DEF q
<1>4. \A b \in Headers : NumberOf[b] \in Nat BY Ancestors
<1>5. LastSection \in Nat BY <1>1, Quotients DEF LastSection
<1>6. SectionIds = 0..LastSection BY DEF SectionIds, LastSection
<1>7. ASSUME NEW s \in 0..LastSection, s < LastSection PROVE SectionEnd(s) + 1 <= Cardinality(Headers)
  <2>0. LastSection * SectionSize \in Nat BY <1>5, SectionStarts
  <2> DEFINE c == Cardinality(Headers)
  <2>c. c \in Nat BY <1>1
  <2>1. LastSection * SectionSize <= c
    <3> HIDE DEF c
    <3>1. (c \div SectionSize) * SectionSize <= c BY <2>c, Quotients
    <3> QED BY <3>1 DEF LastSection, c
  <2>s. s \in Nat BY <1>5
  <2>2. SectionEnd(s) < LastSection * SectionSize BY <2>s, <1>5, <1>7, SectionStarts
  <2>3. SectionEnd(s) \in Nat BY <2>s, SectionStarts
  <2> QED BY <1>1, <2>0, <2>1, <2>2, <2>3
<1> QED BY <1>1, <1>2, <1>3, <1>4, <1>5, <1>6, <1>7

-----------------------------------------------------------------------------
Works == [section : SectionIds, old : Hashes, last : Hashes, next : Nat, active : BOOLEAN]
Rows == [stored : Nat, heads : [SectionIds -> Hashes], known : Nat, cascaded : Nat, checkpoint : Nat,
         signal : BOOLEAN, work : Works]

\* What the heads m of n stored sections are, of which t - 1 need none.
HeadsSound(m, n, t) ==
  \A s \in SectionIds :
    /\ s >= n => m[s] = NoHash
    /\ m[s] # NoHash => NumberOf[m[s]] = SectionEnd(s)
    /\ s + 1 >= t /\ s < n => m[s] # NoHash
    /\ s + 1 >= t /\ s + 1 < n => m[s] \in Ancestry[m[s + 1]]

\* The section being processed continues the one it found stored.
WorkSound(w, n) ==
  w.active =>
    /\ w.section < LastSection /\ n <= w.section
    /\ w.section * SectionSize <= w.next /\ w.next <= (w.section + 1) * SectionSize
    /\ w.section = 0 => w.old = NoHash
    /\ w.section > 0 /\ w.old # NoHash => NumberOf[w.old] = SectionEnd(w.section - 1)
    /\ w.next = w.section * SectionSize => w.last = w.old
    /\ w.next > w.section * SectionSize =>
         /\ w.last \in Headers /\ NumberOf[w.last] = w.next - 1
         /\ w.section > 0 => w.old \in Ancestry[w.last]

RowSound(r, t) ==
  /\ r \in Rows /\ r.stored <= LastSection /\ r.known <= LastSection /\ r.checkpoint \in {0, t}
  /\ HeadsSound(r.heads, r.stored, t) /\ WorkSound(r.work, r.stored)

LEMMA SetValidSound == ASSUME NEW t \in Nat, NEW r, RowSound(r, t), NEW k \in 0..r.stored
  PROVE /\ RowSound(SetValid(r, k), t)
        /\ SetValid(r, k).stored = k /\ SetValid(r, k).known = r.known /\ SetValid(r, k).checkpoint = r.checkpoint
        /\ SetValid(r, k).signal = r.signal /\ SetValid(r, k).work = r.work
        /\ \A s \in SectionIds : SetValid(r, k).heads[s] = IF s >= k THEN NoHash ELSE r.heads[s]
<1> DEFINE m == [s \in SectionIds |-> IF s >= k /\ s < r.stored THEN NoHash ELSE r.heads[s]]
           v == SetValid(r, k)
<1>1. r \in Rows /\ r.stored \in Nat /\ r.stored <= LastSection /\ SectionIds \subseteq Nat
  BY NumbersBounded DEF RowSound, Rows
<1>0. v = [r EXCEPT !.stored = k, !.heads = m] BY DEF SetValid
<1>3. ASSUME NEW s \in SectionIds PROVE m[s] = IF s >= k THEN NoHash ELSE r.heads[s]
  <2>1. s >= r.stored => r.heads[s] = NoHash BY DEF RowSound, HeadsSound
  <2>2. m[s] = IF s >= k /\ s < r.stored THEN NoHash ELSE r.heads[s] OBVIOUS
  <2>3. s \in Nat /\ k \in Nat BY <1>1
  <2> HIDE DEF m
  <2> QED BY <1>1, <2>1, <2>2, <2>3
<1>4. m \in [SectionIds -> Hashes] BY <1>1 DEF Rows, Hashes
<1> HIDE DEF m, v
<1>2. v = [stored |-> k, heads |-> m, known |-> r.known, cascaded |-> r.cascaded,
           checkpoint |-> r.checkpoint, signal |-> r.signal, work |-> r.work] BY <1>0, <1>1 DEF Rows
<1>a. /\ r.known \in Nat /\ r.cascaded \in Nat /\ r.checkpoint \in Nat /\ r.signal \in BOOLEAN /\ r.work \in Works
      /\ r.known <= LastSection /\ r.checkpoint \in {0, t}
  BY <1>1 DEF Rows, RowSound
<1>b. k \in Nat /\ k <= LastSection BY <1>1, NumbersBounded
<1>5. v \in Rows /\ v.stored <= LastSection /\ v.known <= LastSection /\ v.checkpoint \in {0, t}
  BY <1>a, <1>b, <1>2, <1>4 DEF Rows
<1>6. HeadsSound(m, k, t)
  <2>1. HeadsSound(r.heads, r.stored, t) BY DEF RowSound
  <2> SUFFICES ASSUME NEW s \in SectionIds
               PROVE /\ s >= k => m[s] = NoHash
                     /\ m[s] # NoHash => NumberOf[m[s]] = SectionEnd(s)
                     /\ s + 1 >= t /\ s < k => m[s] # NoHash
                     /\ s + 1 >= t /\ s + 1 < k => m[s] \in Ancestry[m[s + 1]]
    BY DEF HeadsSound
  <2>2. s + 1 < k => s + 1 \in SectionIds BY <1>1, NumbersBounded
  <2> QED BY <1>1, <1>3, <2>1, <2>2 DEF HeadsSound
<1>7. WorkSound(r.work, k)
  <2>1. r.work.section \in Nat BY <1>1 DEF Rows, Works
  <2> QED BY <1>1, <2>1 DEF RowSound, WorkSound
<1>8. RowSound(v, t) BY <1>2, <1>5, <1>6, <1>7 DEF RowSound
<1> QED BY <1>2, <1>3, <1>8 DEF v

\* What verifyLastHead keeps.
Valid(r, n) == n <= r.checkpoint \/ r.heads[n - 1] = CanonicalHash(SectionEnd(n - 1))

LEMMA VerifyKeeps == ASSUME NEW t \in Nat, NEW r, RowSound(r, t)
  PROVE \E k \in 0..r.stored : /\ VerifyLastHead(r) = SetValid(r, k) /\ Valid(r, k)
                               /\ \A m \in (k + 1)..r.stored : ~Valid(r, m)
<1>1. r.stored \in Nat /\ r.checkpoint \in Nat BY DEF RowSound, Rows
<1> DEFINE D == {d \in 0..r.stored : Valid(r, r.stored - d)}
           keep == CHOOSE n \in 0..r.stored : Valid(r, n) /\ \A m \in (n + 1)..r.stored : ~Valid(r, m)
<1>2. r.stored \in D
  BY <1>1 DEF Valid
<1>b. D \subseteq Nat OBVIOUS
<1>3. PICK d \in D : \A e \in D : d <= e
  <2> HIDE DEF D
  <2> QED BY <1>b, <1>2, LeastNumber
<1>4. r.stored - d \in 0..r.stored /\ Valid(r, r.stored - d) BY <1>1
<1>5. ASSUME NEW m \in (r.stored - d + 1)..r.stored, Valid(r, m) PROVE FALSE
  BY <1>1, <1>5, <1>3
<1>6. \E n \in 0..r.stored : Valid(r, n) /\ \A m \in (n + 1)..r.stored : ~Valid(r, m) BY <1>4, <1>5
<1>7. keep \in 0..r.stored /\ Valid(r, keep) /\ \A m \in (keep + 1)..r.stored : ~Valid(r, m) BY <1>6
<1>8. VerifyLastHead(r) = SetValid(r, keep) BY DEF VerifyLastHead, Valid
<1> HIDE DEF keep
<1> QED BY <1>7, <1>8

LEMMA VerifySound == ASSUME NEW t \in Nat, NEW r, RowSound(r, t)
  PROVE /\ RowSound(VerifyLastHead(r), t) /\ VerifyLastHead(r).stored <= r.stored
        /\ VerifyLastHead(r).known = r.known /\ VerifyLastHead(r).checkpoint = r.checkpoint
        /\ VerifyLastHead(r).signal = r.signal /\ VerifyLastHead(r).work = r.work
<1>1. PICK k \in 0..r.stored : VerifyLastHead(r) = SetValid(r, k) BY VerifyKeeps
<1>2. r.stored \in Nat BY DEF RowSound, Rows
<1> QED BY <1>1, <1>2, SetValidSound

\* A row with some of its fields changed, written out.
LEMMA SetKnownWork == ASSUME NEW r \in Rows, NEW n, NEW o
  PROVE [r EXCEPT !.known = n, !.work = o] =
           [stored |-> r.stored, heads |-> r.heads, known |-> n, cascaded |-> r.cascaded,
            checkpoint |-> r.checkpoint, signal |-> r.signal, work |-> o]
<1>0. r = [stored |-> r.stored, heads |-> r.heads, known |-> r.known, cascaded |-> r.cascaded,
           checkpoint |-> r.checkpoint, signal |-> r.signal, work |-> r.work] BY DEF Rows
<1> DEFINE u1 == [r EXCEPT !.known = n]
<1>1. u1 = [stored |-> r.stored, heads |-> r.heads, known |-> n, cascaded |-> r.cascaded,
          checkpoint |-> r.checkpoint, signal |-> r.signal, work |-> r.work] BY <1>0
<1>6. [r EXCEPT !.known = n] = u1 OBVIOUS
<1> HIDE DEF u1
<1> DEFINE u2 == [u1 EXCEPT !.work = o]
<1>2. u2 = [stored |-> r.stored, heads |-> r.heads, known |-> n, cascaded |-> r.cascaded,
          checkpoint |-> r.checkpoint, signal |-> r.signal, work |-> o] BY <1>1
<1>7. [r EXCEPT !.known = n, !.work = o] = u2 BY <1>6
<1> HIDE DEF u2
<1> QED BY <1>2, <1>7

LEMMA SetKnownCascaded == ASSUME NEW r \in Rows, NEW n, NEW o
  PROVE [r EXCEPT !.known = n, !.cascaded = o] =
           [stored |-> r.stored, heads |-> r.heads, known |-> n, cascaded |-> o,
            checkpoint |-> r.checkpoint, signal |-> r.signal, work |-> r.work]
<1>0. r = [stored |-> r.stored, heads |-> r.heads, known |-> r.known, cascaded |-> r.cascaded,
           checkpoint |-> r.checkpoint, signal |-> r.signal, work |-> r.work] BY DEF Rows
<1> DEFINE u1 == [r EXCEPT !.known = n]
<1>1. u1 = [stored |-> r.stored, heads |-> r.heads, known |-> n, cascaded |-> r.cascaded,
          checkpoint |-> r.checkpoint, signal |-> r.signal, work |-> r.work] BY <1>0
<1>6. [r EXCEPT !.known = n] = u1 OBVIOUS
<1> HIDE DEF u1
<1> DEFINE u2 == [u1 EXCEPT !.cascaded = o]
<1>2. u2 = [stored |-> r.stored, heads |-> r.heads, known |-> n, cascaded |-> o,
          checkpoint |-> r.checkpoint, signal |-> r.signal, work |-> r.work] BY <1>1
<1>7. [r EXCEPT !.known = n, !.cascaded = o] = u2 BY <1>6
<1> HIDE DEF u2
<1> QED BY <1>2, <1>7

LEMMA SetKnownSignal == ASSUME NEW r \in Rows, NEW n, NEW o
  PROVE [r EXCEPT !.known = n, !.signal = o] =
           [stored |-> r.stored, heads |-> r.heads, known |-> n, cascaded |-> r.cascaded,
            checkpoint |-> r.checkpoint, signal |-> o, work |-> r.work]
<1>0. r = [stored |-> r.stored, heads |-> r.heads, known |-> r.known, cascaded |-> r.cascaded,
           checkpoint |-> r.checkpoint, signal |-> r.signal, work |-> r.work] BY DEF Rows
<1> DEFINE u1 == [r EXCEPT !.known = n]
<1>1. u1 = [stored |-> r.stored, heads |-> r.heads, known |-> n, cascaded |-> r.cascaded,
          checkpoint |-> r.checkpoint, signal |-> r.signal, work |-> r.work] BY <1>0
<1>6. [r EXCEPT !.known = n] = u1 OBVIOUS
<1> HIDE DEF u1
<1> DEFINE u2 == [u1 EXCEPT !.signal = o]
<1>2. u2 = [stored |-> r.stored, heads |-> r.heads, known |-> n, cascaded |-> r.cascaded,
          checkpoint |-> r.checkpoint, signal |-> o, work |-> r.work] BY <1>1
<1>7. [r EXCEPT !.known = n, !.signal = o] = u2 BY <1>6
<1> HIDE DEF u2
<1> QED BY <1>2, <1>7

LEMMA SetCheckpointHeads == ASSUME NEW r \in Rows, NEW n, NEW o
  PROVE [r EXCEPT !.checkpoint = n, !.heads = o] =
           [stored |-> r.stored, heads |-> o, known |-> r.known, cascaded |-> r.cascaded,
            checkpoint |-> n, signal |-> r.signal, work |-> r.work]
<1>0. r = [stored |-> r.stored, heads |-> r.heads, known |-> r.known, cascaded |-> r.cascaded,
           checkpoint |-> r.checkpoint, signal |-> r.signal, work |-> r.work] BY DEF Rows
<1> DEFINE u1 == [r EXCEPT !.checkpoint = n]
<1>1. u1 = [stored |-> r.stored, heads |-> r.heads, known |-> r.known, cascaded |-> r.cascaded,
          checkpoint |-> n, signal |-> r.signal, work |-> r.work] BY <1>0
<1>6. [r EXCEPT !.checkpoint = n] = u1 OBVIOUS
<1> HIDE DEF u1
<1> DEFINE u2 == [u1 EXCEPT !.heads = o]
<1>2. u2 = [stored |-> r.stored, heads |-> o, known |-> r.known, cascaded |-> r.cascaded,
          checkpoint |-> n, signal |-> r.signal, work |-> r.work] BY <1>1
<1>7. [r EXCEPT !.checkpoint = n, !.heads = o] = u2 BY <1>6
<1> HIDE DEF u2
<1> QED BY <1>2, <1>7

LEMMA SetSignal == ASSUME NEW r \in Rows, NEW n
  PROVE [r EXCEPT !.signal = n] =
           [stored |-> r.stored, heads |-> r.heads, known |-> r.known, cascaded |-> r.cascaded,
            checkpoint |-> r.checkpoint, signal |-> n, work |-> r.work]
  BY DEF Rows

LEMMA SetSignalWork == ASSUME NEW r \in Rows, NEW n, NEW o
  PROVE [r EXCEPT !.signal = n, !.work = o] =
           [stored |-> r.stored, heads |-> r.heads, known |-> r.known, cascaded |-> r.cascaded,
            checkpoint |-> r.checkpoint, signal |-> n, work |-> o]
<1>0. r = [stored |-> r.stored, heads |-> r.heads, known |-> r.known, cascaded |-> r.cascaded,
           checkpoint |-> r.checkpoint, signal |-> r.signal, work |-> r.work] BY DEF Rows
<1> DEFINE u1 == [r EXCEPT !.signal = n]
<1>1. u1 = [stored |-> r.stored, heads |-> r.heads, known |-> r.known, cascaded |-> r.cascaded,
          checkpoint |-> r.checkpoint, signal |-> n, work |-> r.work] BY <1>0
<1>6. [r EXCEPT !.signal = n] = u1 OBVIOUS
<1> HIDE DEF u1
<1> DEFINE u2 == [u1 EXCEPT !.work = o]
<1>2. u2 = [stored |-> r.stored, heads |-> r.heads, known |-> r.known, cascaded |-> r.cascaded,
          checkpoint |-> r.checkpoint, signal |-> n, work |-> o] BY <1>1
<1>7. [r EXCEPT !.signal = n, !.work = o] = u2 BY <1>6
<1> HIDE DEF u2
<1> QED BY <1>2, <1>7

LEMMA SetWork == ASSUME NEW r \in Rows, NEW o
  PROVE [r EXCEPT !.work = o] =
           [stored |-> r.stored, heads |-> r.heads, known |-> r.known, cascaded |-> r.cascaded,
            checkpoint |-> r.checkpoint, signal |-> r.signal, work |-> o]
  BY DEF Rows

LEMMA SetHeads == ASSUME NEW r \in Rows, NEW o
  PROVE [r EXCEPT !.heads = o] =
           [stored |-> r.stored, heads |-> o, known |-> r.known, cascaded |-> r.cascaded,
            checkpoint |-> r.checkpoint, signal |-> r.signal, work |-> r.work]
  BY DEF Rows

LEMMA SetWorkCascadedSignal == ASSUME NEW r \in Rows, NEW n, NEW o, NEW p
  PROVE [r EXCEPT !.work = n, !.cascaded = o, !.signal = p] =
           [stored |-> r.stored, heads |-> r.heads, known |-> r.known, cascaded |-> o,
            checkpoint |-> r.checkpoint, signal |-> p, work |-> n]
<1>0. r = [stored |-> r.stored, heads |-> r.heads, known |-> r.known, cascaded |-> r.cascaded,
           checkpoint |-> r.checkpoint, signal |-> r.signal, work |-> r.work] BY DEF Rows
<1> DEFINE u1 == [r EXCEPT !.work = n]
<1>1. u1 = [stored |-> r.stored, heads |-> r.heads, known |-> r.known, cascaded |-> r.cascaded,
          checkpoint |-> r.checkpoint, signal |-> r.signal, work |-> n] BY <1>0
<1>6. [r EXCEPT !.work = n] = u1 OBVIOUS
<1> HIDE DEF u1
<1> DEFINE u2 == [u1 EXCEPT !.cascaded = o]
<1>2. u2 = [stored |-> r.stored, heads |-> r.heads, known |-> r.known, cascaded |-> o,
          checkpoint |-> r.checkpoint, signal |-> r.signal, work |-> n] BY <1>1
<1>7. [r EXCEPT !.work = n, !.cascaded = o] = u2 BY <1>6
<1> HIDE DEF u2
<1> DEFINE u3 == [u2 EXCEPT !.signal = p]
<1>3. u3 = [stored |-> r.stored, heads |-> r.heads, known |-> r.known, cascaded |-> o,
          checkpoint |-> r.checkpoint, signal |-> p, work |-> n] BY <1>2
<1>8. [r EXCEPT !.work = n, !.cascaded = o, !.signal = p] = u3 BY <1>7
<1> HIDE DEF u3
<1> QED BY <1>3, <1>8

LEMMA GivenUpSound == ASSUME NEW t \in Nat, NEW r, RowSound(r, t) PROVE RowSound(GivenUp(r), t)
<1> DEFINE v == VerifyLastHead(r)
<1>1. RowSound(v, t) BY VerifySound
<1>2. GivenUp(r) = [v EXCEPT !.known = v.stored, !.work = NoWork] BY DEF GivenUp
<1> HIDE DEF v
<1>3. NoWork \in Works /\ ~NoWork.active BY NumbersBounded DEF NoWork, Works, Hashes
<1>a. v \in Rows BY <1>1 DEF RowSound
<1>4. [v EXCEPT !.known = v.stored, !.work = NoWork] =
        [stored |-> v.stored, heads |-> v.heads, known |-> v.stored, cascaded |-> v.cascaded,
         checkpoint |-> v.checkpoint, signal |-> v.signal, work |-> NoWork] BY <1>a, SetKnownWork
<1> DEFINE w == GivenUp(r)
<1>5. w = [stored |-> v.stored, heads |-> v.heads, known |-> v.stored, cascaded |-> v.cascaded,
           checkpoint |-> v.checkpoint, signal |-> v.signal, work |-> NoWork] BY <1>2, <1>4
<1> HIDE DEF w
<1>6. w \in Rows BY <1>a, <1>3, <1>5 DEF Rows
<1>7. WorkSound(NoWork, v.stored) BY <1>3 DEF WorkSound
<1>8. RowSound(w, t) BY <1>1, <1>5, <1>6, <1>7 DEF RowSound
<1> QED BY <1>8 DEF w

LEMMA RolledBackSound == ASSUME NEW t \in Nat, NEW r, RowSound(r, t), NEW n \in Nat PROVE RowSound(RolledBack(r, n), t)
<1> DEFINE known == KnownAt(r, n)
           at == (n + 1) \div SectionSize
           stored == IF at < r.checkpoint THEN r.checkpoint ELSE at
           v == IF stored < r.stored THEN SetValid(r, stored) ELSE r
           k == IF known < v.known THEN known ELSE v.known
           c == IF known * SectionSize < v.cascaded THEN known * SectionSize ELSE v.cascaded
           w == RolledBack(r, n)
<1>1. at \in Nat BY Quotients
<1>2. known \in Nat
  <2> HIDE DEF at
  <2>1. known = IF at < r.checkpoint THEN 0 ELSE at BY DEF KnownAt, at
  <2> QED BY <1>1, <2>1
<1>3. RowSound(v, t)
  <2>1. r.checkpoint \in Nat /\ r.stored \in Nat BY DEF RowSound, Rows
  <2>2. stored \in Nat BY <1>1, <2>1
  <2> HIDE DEF stored
  <2>3. CASE stored < r.stored BY <2>1, <2>2, <2>3, SetValidSound
  <2>4. CASE ~(stored < r.stored) BY <2>4
  <2> QED BY <2>3, <2>4
<1>4. w = [v EXCEPT !.known = k, !.cascaded = c] BY DEF RolledBack
<1> HIDE DEF v, known
<1>5. v \in Rows /\ v.known \in Nat /\ v.cascaded \in Nat /\ v.known <= LastSection BY <1>3 DEF RowSound, Rows
<1>6. known * SectionSize \in Nat BY <1>2, SectionStarts
<1>7. k \in Nat /\ k <= LastSection /\ c \in Nat BY <1>2, <1>5, <1>6, NumbersBounded
<1> HIDE DEF k, c, w
<1>8. w = [stored |-> v.stored, heads |-> v.heads, known |-> k, cascaded |-> c,
           checkpoint |-> v.checkpoint, signal |-> v.signal, work |-> v.work] BY <1>4, <1>5, SetKnownCascaded
<1>9. w \in Rows BY <1>5, <1>7, <1>8 DEF Rows
<1>10. RowSound(w, t) BY <1>3, <1>7, <1>8, <1>9 DEF RowSound
<1> QED BY <1>10 DEF w

\* How many sections a head makes known, and what newHead does with them.
Reached(i, n) == IF n < Confirms[i] THEN 0 ELSE (n + 1 - Confirms[i]) \div SectionSize
Agrees(r) == r.known < r.checkpoint => CanonicalHash(SectionEnd(r.checkpoint - 1)) = trusted

LEMMA AdvancedIs == ASSUME NEW i \in Indexers, NEW r \in Rows, NEW n \in Nat
  PROVE LET grows == Reached(i, n) >= r.checkpoint /\ Reached(i, n) > r.known /\ Agrees(r)
        IN /\ ~grows => Advanced(i, r, n) = r
           /\ grows => Advanced(i, r, n) =
                [stored |-> r.stored, heads |-> r.heads, known |-> Reached(i, n), cascaded |-> r.cascaded,
                 checkpoint |-> r.checkpoint, signal |-> TRUE, work |-> r.work]
<1> DEFINE grows == Reached(i, n) >= r.checkpoint /\ Reached(i, n) > r.known /\ Agrees(r)
           yes == TRUE
<1>1. Advanced(i, r, n) = IF grows THEN [r EXCEPT !.known = Reached(i, n), !.signal = yes] ELSE r
  BY DEF Advanced, Reached, Agrees
<1>2. yes = TRUE OBVIOUS
<1> HIDE DEF yes, grows
<1>3. [r EXCEPT !.known = Reached(i, n), !.signal = yes] =
        [stored |-> r.stored, heads |-> r.heads, known |-> Reached(i, n), cascaded |-> r.cascaded,
         checkpoint |-> r.checkpoint, signal |-> yes, work |-> r.work] BY SetKnownSignal
<1> QED BY <1>1, <1>2, <1>3 DEF grows

LEMMA ReachedBound == ASSUME NEW i \in Indexers, NEW n \in Nat, n + 1 <= Cardinality(Headers)
  PROVE /\ Reached(i, n) \in 0..LastSection
        /\ \A s \in Nat : s <= Reached(i, n) /\ s > 0 => s * SectionSize <= n + 1 /\ SectionEnd(s - 1) <= n
<1>1. Confirms[i] \in Nat BY IndexerAssumption DEF Indexers
<1>2. CASE n < Confirms[i] BY <1>2, NumbersBounded DEF Reached
<1>3. CASE ~(n < Confirms[i])
  <2> DEFINE m == n + 1 - Confirms[i]
  <2>1. m \in Nat /\ m <= n + 1 /\ m <= Cardinality(Headers) BY <1>1, <1>3, NumbersBounded
  <2>2. Reached(i, n) = m \div SectionSize BY <1>3 DEF Reached
  <2> HIDE DEF m
  <2>3. Reached(i, n) \in 0..LastSection BY <2>1, <2>2, NumbersBounded
  <2>4. ASSUME NEW s \in Nat, s <= Reached(i, n), s > 0 PROVE s * SectionSize <= n + 1 /\ SectionEnd(s - 1) <= n
    BY <2>1, <2>2, <2>4, Quotients, SectionStarts DEF SectionEnd
  <2> QED BY <2>3, <2>4
<1> QED BY <1>2, <1>3

LEMMA AdvancedSound ==
  ASSUME NEW i \in Indexers, NEW t \in Nat, NEW r, RowSound(r, t), NEW n \in Nat, n + 1 <= Cardinality(Headers)
  PROVE RowSound(Advanced(i, r, n), t)
<1> DEFINE w == Advanced(i, r, n)
           k == Reached(i, n)
<1>1. k \in Nat /\ k <= LastSection BY ReachedBound, NumbersBounded
<1>2. r \in Rows BY DEF RowSound
<1>3. w = r \/ w = [stored |-> r.stored, heads |-> r.heads, known |-> k, cascaded |-> r.cascaded,
                    checkpoint |-> r.checkpoint, signal |-> TRUE, work |-> r.work] BY <1>2, AdvancedIs
<1> HIDE DEF w, k
<1>4. CASE w = r BY <1>4 DEF w
<1>5. CASE w = [stored |-> r.stored, heads |-> r.heads, known |-> k, cascaded |-> r.cascaded,
                checkpoint |-> r.checkpoint, signal |-> TRUE, work |-> r.work]
  BY <1>1, <1>2, <1>5 DEF Rows, RowSound, w
<1> QED BY <1>3, <1>4, <1>5

\* What a checkpoint says.
LEMMA Checkpoints == ASSUME NEW c \in CheckpointHeads
  PROVE /\ c \in Hashes /\ SectionsTo(c) \in 0..LastSection
        /\ SectionsTo(c) > 0 => c \in Headers /\ NumberOf[c] = SectionEnd(SectionsTo(c) - 1)
        /\ c # NoHash => SectionsTo(c) > 0
<1>1. c \in Hashes BY IndexerAssumption DEF Hashes
<1>2. CASE c = NoHash BY <1>1, <1>2, NumbersBounded DEF SectionsTo
<1>3. CASE c # NoHash
  <2> DEFINE n == NumberOf[c] + 1
             q == n \div SectionSize
  <2>1. c \in Headers /\ n \in Nat /\ n > 0 /\ n % SectionSize = 0 BY <1>1, <1>3, Ancestors, IndexerAssumption DEF Hashes
  <2>2. q \in 0..LastSection BY <2>1, NumbersBounded
  <2>3. SectionsTo(c) = q BY <1>3 DEF SectionsTo
  <2>4. n = q * SectionSize
    <3>1. SectionSize \in Nat /\ SectionSize > 0 BY IndexerAssumption
    <3> HIDE DEF n
    <3>2. n = SectionSize * (n \div SectionSize) + (n % SectionSize) /\ n \div SectionSize \in Nat BY <2>1, <3>1
    <3> QED BY <2>1, <3>1, <3>2
  <2> HIDE DEF q
  <2>5. q > 0
    <3>1. ASSUME q = 0 PROVE FALSE
      <4>1. 0 * SectionSize = 0 BY SectionStarts
      <4> HIDE DEF n
      <4>2. n = 0 BY <2>4, <3>1, <4>1
      <4> QED BY <2>1, <4>2
    <3> QED BY <3>1, <2>2, NumbersBounded
  <2>6. SectionEnd(q - 1) = q * SectionSize - 1
    BY <2>2, NumbersBounded DEF SectionEnd
  <2>7. NumberOf[c] = n - 1 /\ NumberOf[c] \in Nat BY <2>1, Ancestors
  <2> QED BY <1>1, <2>1, <2>2, <2>3, <2>4, <2>5, <2>6, <2>7
<1> QED BY <1>2, <1>3

WithHead(m, k, c) == [m EXCEPT ![k] = c]

\* An indexer that has just been created.
LEMMA StartedSound ==
  ASSUME NEW c \in CheckpointHeads, NEW n \in 0..LastSection, NEW m \in [SectionIds -> Hashes],
         HeadsSound(m, n, SectionsTo(c))
  PROVE /\ RowSound(Started(n, m, c), SectionsTo(c))
        /\ Started(n, m, c).known = 0 /\ Started(n, m, c).signal = FALSE /\ Started(n, m, c).work = NoWork
        /\ n >= SectionsTo(c) =>
             Started(n, m, c).stored = n /\ Started(n, m, c).heads = m /\ Started(n, m, c).checkpoint = 0
        /\ n < SectionsTo(c) =>
             /\ Started(n, m, c).stored = SectionsTo(c) /\ Started(n, m, c).checkpoint = SectionsTo(c)
             /\ Started(n, m, c).heads = WithHead(m, SectionsTo(c) - 1, c)
<1> DEFINE t == SectionsTo(c)
           no == FALSE
           r == [stored |-> n, heads |-> m, known |-> 0, cascaded |-> 0, checkpoint |-> 0, signal |-> no, work |-> NoWork]
           z == WithHead(m, t - 1, c)
           w == Started(n, m, c)
<1>n. no = FALSE /\ no \in BOOLEAN OBVIOUS
<1>1. t \in 0..LastSection /\ LastSection \in Nat /\ SectionIds = 0..LastSection /\ c \in Hashes
      /\ (t > 0 => c \in Headers /\ NumberOf[c] = SectionEnd(t - 1))
  BY Checkpoints, NumbersBounded
<1>2. w = IF n >= t THEN r ELSE [SetValid(r, t) EXCEPT !.checkpoint = t, !.heads[t - 1] = c]
  BY DEF Started, AddCheckpoint
<1>3. NoWork \in Works /\ ~NoWork.active BY NumbersBounded DEF NoWork, Works, Hashes
<1> HIDE DEF no
<1>4. r \in Rows BY <1>n, <1>1, <1>3 DEF Rows
<1>5. n \in Nat /\ t \in Nat /\ n <= LastSection BY <1>1
<1>6. CASE n >= t
  <2>1. w = r BY <1>2, <1>6
  <2>2. r.stored = n /\ r.heads = m /\ r.known = 0 /\ r.checkpoint = 0 /\ r.signal = no /\ r.work = NoWork OBVIOUS
  <2> HIDE DEF r, w, t
  <2>3. WorkSound(r.work, r.stored) BY <1>3, <2>2 DEF WorkSound
  <2>4. HeadsSound(r.heads, r.stored, t) BY <2>2 DEF t
  <2>5. RowSound(r, t) BY <1>4, <1>5, <1>1, <2>2, <2>3, <2>4 DEF RowSound
  <2>6. ~(n < t) BY <1>5, <1>6
  <2> QED BY <1>n, <2>1, <2>2, <2>5, <2>6 DEF w, t
<1>7. CASE n < t
  <2>0. ~(n >= t) /\ t - 1 \in SectionIds BY <1>5, <1>7, <1>1
  <2> DEFINE v == SetValid(r, t)
             y == [s \in SectionIds |-> IF s >= t /\ s < r.stored THEN NoHash ELSE r.heads[s]]
  <2>1. v = [r EXCEPT !.stored = t, !.heads = y] BY DEF SetValid
  <2>2. y = m
    BY <1>1, <1>5, <1>7
  <2> HIDE DEF y
  <2>3. v = [stored |-> t, heads |-> m, known |-> 0, cascaded |-> 0, checkpoint |-> 0, signal |-> no, work |-> NoWork]
    BY <2>1, <2>2
  <2> HIDE DEF v, r
  <2>4. v \in Rows BY <1>n, <1>1, <1>3, <1>5, <2>3 DEF Rows
  <2>5. v.heads = m BY <2>3
  <2>6. w = [v EXCEPT !.checkpoint = t, !.heads = z]
    BY <1>2, <2>0, <2>5 DEF v, WithHead
  <2>7. z \in [SectionIds -> Hashes] /\ \A s \in SectionIds : z[s] = IF s = t - 1 THEN c ELSE m[s]
    BY <1>1, <2>0 DEF WithHead
  <2> HIDE DEF w, z
  <2>8. w = [stored |-> t, heads |-> z, known |-> 0, cascaded |-> 0, checkpoint |-> t, signal |-> no, work |-> NoWork]
    BY <2>3, <2>4, <2>6, SetCheckpointHeads
  <2>9. HeadsSound(z, t, t)
    <3> SUFFICES ASSUME NEW s \in SectionIds
                 PROVE /\ s >= t => z[s] = NoHash
                       /\ z[s] # NoHash => NumberOf[z[s]] = SectionEnd(s)
                       /\ s + 1 >= t /\ s < t => z[s] # NoHash
                       /\ s + 1 >= t /\ s + 1 < t => z[s] \in Ancestry[z[s + 1]]
      BY DEF HeadsSound
    <3>1. s \in Nat /\ c \in Headers /\ NoHash \notin Headers /\ NumberOf[c] = SectionEnd(t - 1)
      BY <1>1, <1>5, <1>7, Ancestors
    <3>2. (s >= n => m[s] = NoHash) /\ (m[s] # NoHash => NumberOf[m[s]] = SectionEnd(s)) BY DEF HeadsSound
    <3> HIDE DEF t
    <3>3. CASE s = t - 1 BY <1>5, <1>7, <2>7, <3>1, <3>3
    <3>4. CASE s # t - 1 BY <1>5, <1>7, <2>7, <3>1, <3>2, <3>4
    <3> QED BY <3>3, <3>4
  <2>10. w \in Rows BY <1>n, <1>3, <1>5, <2>7, <2>8 DEF Rows
  <2>11. WorkSound(w.work, w.stored) BY <1>3, <2>8 DEF WorkSound
  <2>12. RowSound(w, t) BY <1>1, <1>5, <2>8, <2>9, <2>10, <2>11 DEF RowSound
  <2> HIDE DEF t
  <2>13. w.known = 0 /\ w.signal = FALSE /\ w.work = NoWork /\ w.stored = t /\ w.checkpoint = t /\ w.heads = z
    BY <1>n, <2>8
  <2>14. /\ RowSound(w, t) /\ w.known = 0 /\ w.signal = FALSE /\ w.work = NoWork
         /\ n >= t => w.stored = n /\ w.heads = m /\ w.checkpoint = 0
         /\ n < t => w.stored = t /\ w.checkpoint = t /\ w.heads = z
    BY <2>0, <2>12, <2>13
  <2> QED BY <2>14 DEF w, t, z
<1>8. n >= t \/ n < t
  <2> HIDE DEF t
  <2> QED BY <1>5
<1> HIDE DEF t
<1> QED BY <1>6, <1>7, <1>8

-----------------------------------------------------------------------------
\* The steps of the update loop, on the row of the indexer.
Taken(r) ==
  LET v == VerifyLastHead(r)
      old == IF v.stored = 0 THEN NoHash ELSE v.heads[v.stored - 1]
  IN [v EXCEPT !.signal = FALSE,
               !.work = [section |-> v.stored, old |-> old, last |-> old,
                         next |-> v.stored * SectionSize, active |-> TRUE]]

LEMMA TakenSound == ASSUME NEW t \in Nat, NEW r, RowSound(r, t), r.known > r.stored
  PROVE /\ RowSound(Taken(r), t)
        /\ LET v == VerifyLastHead(r)
           IN Taken(r) =
              [stored |-> v.stored, heads |-> v.heads, known |-> v.known, cascaded |-> v.cascaded,
               checkpoint |-> v.checkpoint, signal |-> FALSE,
               work |-> [section |-> v.stored, old |-> IF v.stored = 0 THEN NoHash ELSE v.heads[v.stored - 1],
                         last |-> IF v.stored = 0 THEN NoHash ELSE v.heads[v.stored - 1],
                         next |-> v.stored * SectionSize, active |-> TRUE]]
<1> DEFINE v == VerifyLastHead(r)
           old == IF v.stored = 0 THEN NoHash ELSE v.heads[v.stored - 1]
           o == [section |-> v.stored, old |-> old, last |-> old, next |-> v.stored * SectionSize, active |-> TRUE]
           no == FALSE
           w == Taken(r)
<1>1. RowSound(v, t) /\ v.stored <= r.stored /\ v.known = r.known BY VerifySound
<1>2. w = [v EXCEPT !.signal = no, !.work = o] BY DEF Taken
<1>n. no = FALSE /\ no \in BOOLEAN OBVIOUS
<1> HIDE DEF v, no
<1>3. v \in Rows /\ v.stored \in Nat /\ r.stored \in Nat /\ r.known \in Nat /\ r.known <= LastSection
  BY <1>1 DEF RowSound, Rows
<1>4. v.stored < LastSection BY <1>1, <1>3, NumbersBounded
<1>5. v.heads \in [SectionIds -> Hashes] BY <1>3 DEF Rows
<1>6. v.stored > 0 => v.stored - 1 \in SectionIds BY <1>3, <1>4, NumbersBounded
<1>7. old \in Hashes
  <2>1. CASE v.stored = 0 BY <2>1 DEF Hashes
  <2>2. CASE v.stored # 0 BY <1>3, <1>5, <1>6, <2>2
  <2> QED BY <2>1, <2>2
<1>8. (v.stored > 0 /\ old # NoHash) => NumberOf[old] = SectionEnd(v.stored - 1)
  BY <1>1, <1>3, <1>6 DEF RowSound, HeadsSound
<1>9. v.stored = 0 => old = NoHash OBVIOUS
<1> HIDE DEF old
<1>10. v.stored * SectionSize \in Nat /\ v.stored * SectionSize <= (v.stored + 1) * SectionSize
       /\ v.stored \in SectionIds
  <2>1. v.stored * SectionSize \in Nat /\ (v.stored + 1) * SectionSize = v.stored * SectionSize + SectionSize
        /\ SectionSize \in Nat
    BY <1>3, SectionStarts
  <2>2. v.stored \in SectionIds BY <1>3, <1>4, NumbersBounded
  <2> QED BY <2>1, <2>2
<1>11. o \in Works BY <1>7, <1>10 DEF Works
<1>12. WorkSound(o, v.stored) BY <1>3, <1>4, <1>8, <1>9, <1>10 DEF WorkSound
<1> HIDE DEF o, w
<1>13. w = [stored |-> v.stored, heads |-> v.heads, known |-> v.known, cascaded |-> v.cascaded,
            checkpoint |-> v.checkpoint, signal |-> no, work |-> o] BY <1>2, <1>3, SetSignalWork
<1>14. w \in Rows BY <1>n, <1>3, <1>11, <1>13 DEF Rows
<1>15. RowSound(w, t) BY <1>1, <1>12, <1>13, <1>14 DEF RowSound
<1> QED BY <1>n, <1>13, <1>15 DEF w, v, o, old

LEMMA WorkNext == ASSUME NEW w \in Works, NEW c, NEW n
  PROVE [w EXCEPT !.last = c, !.next = n] =
          [section |-> w.section, old |-> w.old, last |-> c, next |-> n, active |-> w.active]
<1> DEFINE v == [w EXCEPT !.last = c]
<1>1. v = [section |-> w.section, old |-> w.old, last |-> c, next |-> w.next, active |-> w.active] BY DEF Works
<1>2. [w EXCEPT !.last = c, !.next = n] = [v EXCEPT !.next = n] OBVIOUS
<1> HIDE DEF v
<1> QED BY <1>1, <1>2

\* Canonical hashes are at their numbers, and a move has an end.
ChainSound ==
  /\ canon \in [Numbers -> Hashes] /\ \A n \in Numbers : canon[n] # NoHash => NumberOf[canon[n]] = n
  /\ move \in [way : {"still", "grow", "reorg", "rewind"}, to : Hashes]
  /\ move.way # "still" => move.to \in Headers

LEMMA CanonSound == ASSUME ChainSound, NEW n \in Nat
  PROVE /\ CanonicalHash(n) \in Hashes /\ NoHash \notin Headers
        /\ CanonicalHash(n) # NoHash => CanonicalHash(n) \in Headers /\ NumberOf[CanonicalHash(n)] = n
<1>1. NoHash \notin Headers BY Ancestors
<1>2. CASE n \in Numbers
  BY <1>2, <1>1 DEF CanonicalHash, ChainSound, Hashes
<1>3. CASE n \notin Numbers BY <1>1, <1>3 DEF CanonicalHash, Hashes
<1> QED BY <1>2, <1>3

LEMMA NextBlockIs == ASSUME ChainSound, head \in Headers, move.way # "still"
  PROVE /\ NextBlock \in Headers /\ NextBlock \in Ancestry[move.to] /\ move.to \in Headers
        /\ Ahead = {} => NextBlock = move.to
        /\ Ahead # {} => NextBlock \in Ahead /\ \A d \in Ahead : NumberOf[NextBlock] <= NumberOf[d]
<1> DEFINE low == CHOOSE c \in Ahead : \A d \in Ahead : NumberOf[c] <= NumberOf[d]
           T == {NumberOf[c] : c \in Ahead}
<1>1. move.to \in Headers BY DEF ChainSound
<1>2. move.to \in Ancestry[move.to] /\ Ancestry[move.to] \subseteq Headers BY <1>1, Ancestors
<1>3. \A c \in Ahead : c \in Headers /\ NumberOf[c] \in Nat /\ c \in Ancestry[move.to] BY <1>2, Ancestors DEF Ahead
<1>4. CASE Ahead = {} BY <1>1, <1>2, <1>4 DEF NextBlock
<1>5. CASE Ahead # {}
  <2>1. T \subseteq Nat /\ T # {} BY <1>3, <1>5
  <2>2. PICK k \in T : \A m \in T : k <= m
    <3> HIDE DEF T
    <3> QED BY <2>1, LeastNumber
  <2>3. PICK c \in Ahead : NumberOf[c] = k OBVIOUS
  <2>4. \A d \in Ahead : NumberOf[c] <= NumberOf[d] BY <2>2, <2>3
  <2>5. low \in Ahead /\ \A d \in Ahead : NumberOf[low] <= NumberOf[d] BY <2>4
  <2>6. NextBlock = low BY <1>5 DEF NextBlock
  <2> HIDE DEF low
  <2> QED BY <1>1, <1>3, <1>5, <2>5, <2>6
<1> QED BY <1>4, <1>5

Processed(r) ==
  IF Follows(r.work)
  THEN [r EXCEPT !.work = [r.work EXCEPT !.last = CanonicalHash(r.work.next), !.next = r.work.next + 1]]
  ELSE GivenUp(r)

LEMMA ProcessedSound ==
  ASSUME NEW t \in Nat, NEW r, RowSound(r, t), r.work.active, r.work.next <= SectionEnd(r.work.section), ChainSound
  PROVE /\ RowSound(Processed(r), t)
        /\ Follows(r.work) => Processed(r) =
             [stored |-> r.stored, heads |-> r.heads, known |-> r.known, cascaded |-> r.cascaded,
              checkpoint |-> r.checkpoint, signal |-> r.signal,
              work |-> [section |-> r.work.section, old |-> r.work.old, last |-> CanonicalHash(r.work.next),
                        next |-> r.work.next + 1, active |-> r.work.active]]
<1>1. CASE ~Follows(r.work) BY <1>1, GivenUpSound DEF Processed
<1>2. CASE Follows(r.work)
  <2> DEFINE w == r.work
             c == CanonicalHash(w.next)
             o == [section |-> w.section, old |-> w.old, last |-> c, next |-> w.next + 1, active |-> w.active]
             u == Processed(r)
  <2>1. r \in Rows /\ w \in Works BY DEF RowSound, Rows
  <2>2. w.section \in Nat /\ w.next \in Nat /\ w.old \in Hashes /\ w.last \in Hashes /\ w.section \in SectionIds
    BY <2>1, NumbersBounded DEF Works
  <2>4. c # NoHash /\ ParentHash(c) = w.last BY <1>2 DEF Follows
  <2>5. c \in Headers /\ NumberOf[c] = w.next BY <2>2, <2>4, CanonSound
  <2>7. u = [r EXCEPT !.work = [w EXCEPT !.last = c, !.next = w.next + 1]] BY <1>2 DEF Processed
  <2> HIDE DEF u, c
  <2>6. [w EXCEPT !.last = c, !.next = w.next + 1] = o BY <2>1, WorkNext
  <2>8. o \in Works BY <2>1, <2>2, <2>5 DEF Works, Hashes
  <2>9. WorkSound(o, r.stored)
    <3>1. /\ w.section < LastSection /\ r.stored <= w.section
          /\ w.section * SectionSize <= w.next
          /\ w.section = 0 => w.old = NoHash
          /\ w.section > 0 /\ w.old # NoHash => NumberOf[w.old] = SectionEnd(w.section - 1)
          /\ w.next = w.section * SectionSize => w.last = w.old
          /\ w.next > w.section * SectionSize =>
               /\ w.last \in Headers /\ NumberOf[w.last] = w.next - 1
               /\ w.section > 0 => w.old \in Ancestry[w.last]
      BY DEF RowSound, WorkSound
    <3>2. w.section * SectionSize \in Nat /\ (w.section + 1) * SectionSize = w.section * SectionSize + SectionSize
          /\ SectionEnd(w.section) = w.section * SectionSize + SectionSize - 1 /\ SectionSize \in Nat
      BY <2>2, SectionStarts
    <3>3. w.next + 1 <= (w.section + 1) * SectionSize BY <2>2, <3>2
    <3>4. w.section > 0 => w.old \in Ancestry[c]
      <4> SUFFICES ASSUME w.section > 0 PROVE w.old \in Ancestry[c] OBVIOUS
      <4>1. 0 * SectionSize < w.section * SectionSize /\ 0 * SectionSize = 0 BY <2>2, SectionStarts
      <4>2. w.next > 0 BY <2>2, <3>1, <3>2, <4>1
      <4>3. c # Root BY <2>5, <4>2, Ancestors
      <4>4. w.last = ParentOf[c] /\ w.last \in Headers /\ w.last \in Ancestry[c] /\ Ancestry[w.last] \subseteq Ancestry[c]
        BY <2>4, <2>5, <4>3, Ancestors DEF ParentHash
      <4>5. CASE w.next = w.section * SectionSize BY <3>1, <4>4, <4>5
      <4>6. CASE w.next > w.section * SectionSize BY <3>1, <4>4, <4>6
      <4> QED BY <2>2, <3>1, <3>2, <4>5, <4>6
    <3>5. w.next + 1 > w.section * SectionSize /\ w.next + 1 - 1 = w.next BY <2>2, <3>1, <3>2
    <3>6. w.next + 1 # w.section * SectionSize /\ w.section * SectionSize <= w.next + 1 BY <2>2, <3>2, <3>5
    <3>7. NumberOf[c] = w.next + 1 - 1 BY <2>5, <3>5
    <3> HIDE DEF w
    <3>8. o.section = w.section /\ o.old = w.old /\ o.last = c /\ o.next = w.next + 1 OBVIOUS
    <3> HIDE DEF o
    <3>9. o.section * SectionSize <= o.next /\ o.next <= (o.section + 1) * SectionSize BY <3>3, <3>6, <3>8
    <3>10. ~(o.next = o.section * SectionSize) BY <3>6, <3>8
    <3>11. o.last \in Headers /\ NumberOf[o.last] = o.next - 1 /\ (o.section > 0 => o.old \in Ancestry[o.last])
      <4>1. o.last \in Headers BY <2>5, <3>8
      <4>2. NumberOf[o.last] = o.next - 1
        BY <2>5, <3>8, <2>2
      <4>3. o.section > 0 => o.old \in Ancestry[o.last] BY <3>4, <3>8
      <4> QED BY <4>1, <4>2, <4>3
    <3>12. /\ o.section < LastSection /\ r.stored <= o.section
           /\ o.section = 0 => o.old = NoHash
           /\ o.section > 0 /\ o.old # NoHash => NumberOf[o.old] = SectionEnd(o.section - 1)
      BY <3>1, <3>8
    <3> QED BY <3>9, <3>10, <3>11, <3>12 DEF WorkSound
  <2> HIDE DEF o
  <2>13. u = [r EXCEPT !.work = o] BY <2>6, <2>7 DEF o
  <2>10. u = [stored |-> r.stored, heads |-> r.heads, known |-> r.known, cascaded |-> r.cascaded,
              checkpoint |-> r.checkpoint, signal |-> r.signal, work |-> o] BY <2>1, <2>13, SetWork
  <2>11. u \in Rows BY <2>1, <2>8, <2>10 DEF Rows
  <2>12. RowSound(u, t) BY <2>9, <2>10, <2>11 DEF RowSound
  <2> QED BY <2>10, <2>12 DEF u, o, c
<1> QED BY <1>1, <1>2

Done(r) ==
  [SetValid([r EXCEPT !.heads[r.work.section] = r.work.last], r.work.section + 1)
     EXCEPT !.work = NoWork, !.cascaded = SectionEnd(r.work.section),
            !.signal = r.signal \/ r.known > r.work.section + 1]

LEMMA DoneSound ==
  ASSUME NEW t \in Nat, NEW r, RowSound(r, t), r.work.active, r.work.next > SectionEnd(r.work.section), Unmoved(r)
  PROVE /\ RowSound(Done(r), t)
        /\ r.work.section < LastSection /\ r.stored <= r.work.section
        /\ r.work.last \in Headers /\ NumberOf[r.work.last] = SectionEnd(r.work.section)
        /\ Done(r) =
             [stored |-> r.work.section + 1, heads |-> [r.heads EXCEPT ![r.work.section] = r.work.last],
              known |-> r.known, cascaded |-> SectionEnd(r.work.section), checkpoint |-> r.checkpoint,
              signal |-> (r.signal \/ r.known > r.work.section + 1), work |-> NoWork]
        /\ r.stored = r.work.section
<1> DEFINE w == r.work
           s == w.section
           m == [r.heads EXCEPT ![s] = w.last]
           q == [r EXCEPT !.heads = m]
           y == [k \in SectionIds |-> IF k >= s + 1 /\ k < q.stored THEN NoHash ELSE q.heads[k]]
           v == SetValid(q, s + 1)
           e == SectionEnd(s)
           g == r.signal \/ r.known > s + 1
           u == Done(r)
<1>1. r \in Rows /\ w \in Works /\ r.stored \in Nat /\ r.heads \in [SectionIds -> Hashes]
      /\ r.signal \in BOOLEAN /\ r.known \in Nat
  BY DEF RowSound, Rows
<1>2. w.section \in Nat /\ w.next \in Nat /\ w.old \in Hashes /\ w.last \in Hashes /\ w.section \in SectionIds
  BY <1>1, NumbersBounded DEF Works
<1>3. /\ w.section < LastSection /\ r.stored <= w.section
      /\ w.next <= (w.section + 1) * SectionSize
      /\ w.section = 0 => w.old = NoHash
      /\ w.next > w.section * SectionSize =>
           /\ w.last \in Headers /\ NumberOf[w.last] = w.next - 1
           /\ w.section > 0 => w.old \in Ancestry[w.last]
  BY DEF RowSound, WorkSound
<1>4. w.section * SectionSize \in Nat /\ (w.section + 1) * SectionSize = w.section * SectionSize + SectionSize
      /\ SectionEnd(w.section) = w.section * SectionSize + SectionSize - 1 /\ SectionSize \in Nat /\ SectionSize > 0
  BY <1>2, SectionStarts
<1>5. w.next > w.section * SectionSize /\ w.next - 1 = SectionEnd(w.section)
  <2>1. w.next > SectionEnd(w.section) OBVIOUS
  <2> DEFINE p == w.section * SectionSize
             z == SectionEnd(w.section)
  <2>2. p \in Nat /\ w.next <= p + SectionSize /\ z = p + SectionSize - 1 /\ SectionSize \in Nat /\ SectionSize > 0
        /\ w.next \in Nat /\ w.next > z
    BY <1>2, <1>3, <1>4, <2>1
  <2> HIDE DEF p, z
  <2>3. w.next > p /\ w.next - 1 = z BY <2>2
  <2> QED BY <2>3 DEF p, z
<1>6. w.last \in Headers /\ NumberOf[w.last] = SectionEnd(w.section) /\ (w.section > 0 => w.old \in Ancestry[w.last])
  BY <1>3, <1>5
<1>7. HeadsSound(r.heads, r.stored, t) /\ LastSection \in Nat /\ SectionIds = 0..LastSection
  BY NumbersBounded DEF RowSound
<1>8. r.stored = w.section
  <2>1. CASE w.section = 0 BY <1>1, <1>3, <2>1
  <2>2. CASE w.section > 0
    <3>1. w.old = r.heads[w.section - 1] BY <2>2 DEF Unmoved
    <3>2. w.old # NoHash BY <1>6, <2>2, Ancestors
    <3>3. w.section - 1 \in SectionIds BY <1>2, <1>7, <2>2
    <3>4. ~(w.section - 1 >= r.stored) BY <1>7, <3>1, <3>2, <3>3 DEF HeadsSound
    <3> QED BY <1>1, <1>2, <1>3, <3>3, <3>4
  <2> QED BY <1>2, <2>1, <2>2
<1>9. \A k \in SectionIds : m[k] = IF k = s THEN w.last ELSE r.heads[k] BY <1>1, <1>2
<1>10. m \in [SectionIds -> Hashes] BY <1>1, <1>2
<1>11. s = w.section OBVIOUS
<1>12. u = [v EXCEPT !.work = NoWork, !.cascaded = e, !.signal = g] BY DEF Done
<1>13. v = [q EXCEPT !.stored = s + 1, !.heads = y] BY DEF SetValid
<1> HIDE DEF u, v, m
<1>14. q = [stored |-> r.stored, heads |-> m, known |-> r.known, cascaded |-> r.cascaded,
            checkpoint |-> r.checkpoint, signal |-> r.signal, work |-> r.work] BY <1>1, SetHeads
<1> HIDE DEF q
<1>15. y = m
  <2>1. q.stored = r.stored /\ q.heads = m BY <1>14
  <2>2. \A k \in SectionIds : ~(k >= s + 1 /\ k < q.stored) BY <1>1, <1>2, <1>3, <1>7, <1>11, <2>1
  <2>3. y = [k \in SectionIds |-> m[k]] BY <2>1, <2>2
  <2> QED BY <1>10, <2>3
<1> HIDE DEF y, s, e, g, w
<1>16. v = [stored |-> s + 1, heads |-> m, known |-> r.known, cascaded |-> r.cascaded,
            checkpoint |-> r.checkpoint, signal |-> r.signal, work |-> r.work] BY <1>13, <1>14, <1>15
<1>17. s \in Nat /\ s + 1 \in Nat BY <1>2, <1>11
<1>18. v \in Rows BY <1>1, <1>10, <1>16, <1>17 DEF Rows
<1>19. u = [stored |-> s + 1, heads |-> m, known |-> r.known, cascaded |-> e,
            checkpoint |-> r.checkpoint, signal |-> g, work |-> NoWork] BY <1>12, <1>16, <1>18, SetWorkCascadedSignal
<1>20. NoWork \in Works /\ ~NoWork.active BY NumbersBounded DEF NoWork, Works, Hashes
<1>21. e \in Nat /\ g \in BOOLEAN BY <1>1, <1>4, <1>2 DEF e, g, s, w
<1>22. u \in Rows BY <1>1, <1>10, <1>17, <1>19, <1>20, <1>21 DEF Rows
<1>23. HeadsSound(m, s + 1, t)
  <2> SUFFICES ASSUME NEW k \in SectionIds
               PROVE /\ k >= s + 1 => m[k] = NoHash
                     /\ m[k] # NoHash => NumberOf[m[k]] = SectionEnd(k)
                     /\ k + 1 >= t /\ k < s + 1 => m[k] # NoHash
                     /\ k + 1 >= t /\ k + 1 < s + 1 => m[k] \in Ancestry[m[k + 1]]
    BY DEF HeadsSound
  <2>1. k \in Nat /\ NoHash \notin Headers BY <1>7, Ancestors
  <2>2. /\ k >= r.stored => r.heads[k] = NoHash
        /\ r.heads[k] # NoHash => NumberOf[r.heads[k]] = SectionEnd(k)
        /\ k + 1 >= t /\ k < r.stored => r.heads[k] # NoHash
        /\ k + 1 >= t /\ k + 1 < r.stored => r.heads[k] \in Ancestry[r.heads[k + 1]]
    BY <1>7 DEF HeadsSound
  <2>3. CASE k = s BY <1>6, <1>9, <1>11, <1>17, <2>1, <2>3
  <2>4. CASE k + 1 = s
    <3>1. m[k] = r.heads[k] /\ m[k + 1] = w.last BY <1>2, <1>9, <1>11, <1>17, <2>1, <2>4
    <3>2. w.old = r.heads[w.section - 1] /\ w.section - 1 = k BY <1>11, <2>1, <2>4 DEF Unmoved, w
    <3>3. r.heads[k] \in Ancestry[w.last] BY <1>6, <1>11, <2>1, <2>4, <3>2
    <3> QED BY <1>8, <1>11, <1>17, <2>1, <2>2, <2>4, <3>1, <3>3
  <2>5. CASE k # s /\ k + 1 # s
    <3>1. m[k] = r.heads[k] BY <1>9, <2>5
    <3>2. k + 1 < s => m[k + 1] = r.heads[k + 1] BY <1>2, <1>7, <1>9, <1>11, <1>17, <2>1, <2>5
    <3> QED BY <1>8, <1>11, <1>17, <2>1, <2>2, <2>5, <3>1, <3>2
  <2> QED BY <2>3, <2>4, <2>5
<1>24. s + 1 <= LastSection BY <1>2, <1>3, <1>7, <1>11
<1>25. r.known <= LastSection /\ r.checkpoint \in {0, t} BY DEF RowSound
<1>26. u.stored = s + 1 /\ u.heads = m /\ u.known = r.known /\ u.checkpoint = r.checkpoint /\ u.work = NoWork BY <1>19
<1>27. WorkSound(u.work, u.stored) BY <1>20, <1>26 DEF WorkSound
<1>28. RowSound(u, t) BY <1>22, <1>23, <1>24, <1>25, <1>26, <1>27 DEF RowSound
<1>29. /\ RowSound(u, t) /\ w.section < LastSection /\ r.stored <= w.section
       /\ w.last \in Headers /\ NumberOf[w.last] = SectionEnd(w.section) /\ r.stored = w.section
  BY <1>3, <1>6, <1>8, <1>28
<1> QED BY <1>19, <1>29 DEF u, m, w, s, e, g

-----------------------------------------------------------------------------
Told == SectionsTo(trusted)

IndexerInv ==
  /\ trusted \in CheckpointHeads /\ ChainSound
  /\ x \in [Indexers -> Rows] /\ \A i \in Indexers : RowSound(x[i], Told)
  /\ head \in Headers /\ gone \subseteq Headers /\ events \in Seq(Headers)
  /\ loop \in [prev : Headers, next : Hashes]
  /\ attached \in BOOLEAN /\ disturbed \in BOOLEAN

\* Of two headers with their chains there is a highest one in common.
LEMMA CommonAncestorIs == ASSUME NEW a \in Headers, NEW b \in Headers PROVE CommonAncestor(a, b) \in Hashes
<1> DEFINE common == Ancestry[a] \cap Ancestry[b]
           top == CHOOSE c \in common : \A d \in common : NumberOf[d] <= NumberOf[c]
           D == {n \in 0..NumberOf[a] : \E c \in common : NumberOf[c] = NumberOf[a] - n}
<1>1. NumberOf[a] \in Nat /\ \A c \in common : c \in Headers /\ NumberOf[c] \in Nat /\ NumberOf[c] <= NumberOf[a]
  BY Ancestors
<1>2. \E c \in common : TRUE
  BY Ancestors, IndexerAssumption
<1>3. D # {}
  <2>1. PICK c \in common : TRUE BY <1>2
  <2>2. NumberOf[a] - NumberOf[c] \in 0..NumberOf[a] /\ NumberOf[c] = NumberOf[a] - (NumberOf[a] - NumberOf[c]) BY <1>1
  <2> QED BY <2>2
<1>4. PICK n \in D : \A e \in D : n <= e
  <2>1. D \subseteq Nat BY <1>1
  <2> HIDE DEF D
  <2> QED BY <1>3, <2>1, LeastNumber
<1>5. PICK c \in common : NumberOf[c] = NumberOf[a] - n OBVIOUS
<1>6. ASSUME NEW d \in common PROVE NumberOf[d] <= NumberOf[c]
  BY <1>1, <1>4, <1>5
<1>7. top \in common BY <1>6
<1>8. top \in Headers BY <1>1, <1>7
<1>9. CommonAncestor(a, b) = top \/ CommonAncestor(a, b) = NoHash BY DEF CommonAncestor
<1> HIDE DEF top
<1> QED BY <1>8, <1>9 DEF Hashes

LEMMA RollbackSound ==
  ASSUME NEW y \in [Indexers -> Rows], NEW t \in Nat, \A i \in Indexers : RowSound(y[i], t), NEW n \in Nat
  PROVE /\ Rollback(y, n) \in [Indexers -> Rows] /\ \A i \in Indexers : RowSound(Rollback(y, n)[i], t)
<1> DEFINE cut == KnownAt(y[1], n) * SectionSize
           z == Rollback(y, n)
<1>1. 1 \in Indexers /\ 2 \in Indexers /\ \A i \in Indexers : i = 1 \/ i = 2 BY DEF Indexers
<1>2. KnownAt(y[1], n) \in Nat
  <2> DEFINE at == (n + 1) \div SectionSize
  <2>1. at \in Nat BY Quotients
  <2>2. KnownAt(y[1], n) = IF at < y[1].checkpoint THEN 0 ELSE at BY DEF KnownAt
  <2> HIDE DEF at
  <2> QED BY <2>1, <2>2
<1>3. cut \in Nat BY <1>2, SectionStarts
<1>4. z = [i \in Indexers |-> IF i = 1 THEN RolledBack(y[1], n)
                              ELSE IF attached /\ cut < y[1].cascaded THEN RolledBack(y[2], cut) ELSE y[2]]
  BY DEF Rollback
<1> HIDE DEF cut, z
<1>5. RowSound(RolledBack(y[1], n), t) /\ RowSound(RolledBack(y[2], cut), t) /\ RowSound(y[2], t)
  BY <1>1, <1>3, RolledBackSound
<1>6. z[1] = RolledBack(y[1], n) BY <1>1, <1>4
<1>7. z[2] = RolledBack(y[2], cut) \/ z[2] = y[2] BY <1>1, <1>4
<1>8. RowSound(z[1], t) /\ RowSound(z[2], t) BY <1>5, <1>6, <1>7
<1>9. z[1] \in Rows /\ z[2] \in Rows BY <1>8 DEF RowSound
<1>10. z \in [Indexers -> Rows]
  <2> DEFINE f(i) == IF i = 1 THEN RolledBack(y[1], n)
                     ELSE IF attached /\ cut < y[1].cascaded THEN RolledBack(y[2], cut) ELSE y[2]
  <2>1. z = [i \in Indexers |-> f(i)] BY <1>4
  <2> HIDE DEF f
  <2>2. \A i \in Indexers : z[i] = f(i) BY <2>1
  <2>3. \A i \in Indexers : f(i) \in Rows BY <1>1, <1>9, <2>2
  <2> QED BY <2>1, <2>3
<1> QED BY <1>1, <1>8, <1>10 DEF z

\* One row changes.
LEMMA OneRow == ASSUME NEW y \in [Indexers -> Rows], NEW t \in Nat, \A i \in Indexers : RowSound(y[i], t),
                       NEW j \in Indexers, NEW r, RowSound(r, t)
  PROVE [y EXCEPT ![j] = r] \in [Indexers -> Rows] /\ \A i \in Indexers : RowSound([y EXCEPT ![j] = r][i], t)
  BY DEF RowSound

RowsSound(y, t) == y \in [Indexers -> Rows] /\ \A i \in Indexers : RowSound(y[i], t)

LEMMA ToldIs == ASSUME IndexerInv PROVE Told \in Nat /\ Told \in 0..LastSection /\ RowsSound(x, Told)
  BY Checkpoints, NumbersBounded DEF IndexerInv, Told, RowsSound

LEMMA AddChildRows == ASSUME IndexerInv, AddChildIndexer PROVE RowsSound(x', Told)
<1> DEFINE n == IF x[1].known < x[1].stored THEN x[1].known ELSE x[1].stored
           r == Advanced(2, x[2], SectionEnd(n - 1))
<1>0. 1 \in Indexers /\ 2 \in Indexers BY DEF Indexers
<1>1. RowsSound(x, Told) /\ Told \in Nat BY ToldIs
<1>2. x' = IF n = 0 THEN x ELSE [x EXCEPT ![2] = r]
  BY DEF AddChildIndexer
<1>3. CASE n = 0 BY <1>1, <1>2, <1>3
<1>4. CASE n # 0
  <2>1. x[1].known \in Nat /\ x[1].stored \in Nat /\ x[1].stored <= LastSection /\ LastSection \in Nat
    BY <1>0, <1>1, NumbersBounded DEF RowsSound, RowSound, Rows
  <2>2. n \in Nat /\ n <= LastSection BY <2>1
  <2> HIDE DEF n
  <2>3. n - 1 \in 0..LastSection /\ n - 1 < LastSection BY <1>4, <2>1, <2>2
  <2>4. SectionEnd(n - 1) + 1 <= Cardinality(Headers) BY <2>3, NumbersBounded
  <2>5. SectionEnd(n - 1) \in Nat BY <2>3, <2>1, SectionStarts
  <2>6. RowSound(r, Told)
    <3> DEFINE e == SectionEnd(n - 1)
    <3> HIDE DEF e
    <3>1. e \in Nat /\ e + 1 <= Cardinality(Headers) BY <2>4, <2>5 DEF e
    <3>2. RowSound(Advanced(2, x[2], e), Told) BY <1>0, <1>1, <3>1, AdvancedSound DEF RowsSound
    <3> QED BY <3>2 DEF e
  <2> HIDE DEF r
  <2> QED BY <1>0, <1>1, <1>2, <1>4, <2>6, OneRow DEF RowsSound
<1> QED BY <1>3, <1>4

LEMMA TakeEventRows == ASSUME IndexerInv, TakeEvent PROVE RowsSound(x', Told) /\ Head(events) \in Headers
<1> DEFINE b == Head(events)
           h == CommonAncestor(loop.prev, b)
<1>1. RowsSound(x, Told) /\ Told \in Nat BY ToldIs
<1>2. b \in Headers BY DEF IndexerInv, TakeEvent
<1>h. Head(events) \in Headers BY <1>2
<1>3. loop.prev \in Headers BY DEF IndexerInv
<1>4. h \in Hashes BY <1>2, <1>3, CommonAncestorIs
<1> DEFINE left == ParentHash(b) # loop.prev /\ CanonicalHash(NumberOf[loop.prev]) # loop.prev
<1>5. x' = IF left /\ h # NoHash THEN Rollback(x, NumberOf[h]) ELSE x BY DEF TakeEvent
<1> HIDE DEF h, b, left
<1>6. CASE x' = x BY <1>1, <1>h, <1>6
<1>7. CASE h # NoHash /\ x' = Rollback(x, NumberOf[h])
  <2>1. NumberOf[h] \in Nat BY <1>4, <1>7, Ancestors DEF Hashes
  <2>2. x \in [Indexers -> Rows] /\ \A i \in Indexers : RowSound(x[i], Told) BY <1>1 DEF RowsSound
  <2> DEFINE z == Rollback(x, NumberOf[h])
  <2>3. z \in [Indexers -> Rows] /\ \A i \in Indexers : RowSound(z[i], Told) BY <1>1, <2>1, <2>2, RollbackSound
  <2>4. x' = z BY <1>7
  <2> HIDE DEF z
  <2> QED BY <1>h, <2>3, <2>4 DEF RowsSound
<1> QED BY <1>5, <1>6, <1>7

LEMMA AnnounceRows == ASSUME IndexerInv, AnnounceHead PROVE RowsSound(x', Told)
<1>0. 1 \in Indexers BY DEF Indexers
<1>1. RowsSound(x, Told) /\ Told \in Nat BY ToldIs
<1>2. loop.next \in Headers BY DEF IndexerInv, AnnounceHead, Hashes
<1>3. NumberOf[loop.next] \in Nat /\ NumberOf[loop.next] + 1 <= Cardinality(Headers) BY <1>2, NumbersBounded
<1> DEFINE r == Advanced(1, x[1], NumberOf[loop.next])
<1>4. RowSound(r, Told) BY <1>0, <1>1, <1>3, AdvancedSound DEF RowsSound
<1>5. x' = [x EXCEPT ![1] = r] BY DEF AnnounceHead
<1> HIDE DEF r
<1> QED BY <1>0, <1>1, <1>4, <1>5, OneRow DEF RowsSound

LEMMA TakeUpdateIs == ASSUME NEW i \in Indexers, IndexerInv, TakeUpdate(i)
  PROVE /\ x[i].known <= x[i].stored =>
             x' = [x EXCEPT ![i] = [stored |-> x[i].stored, heads |-> x[i].heads, known |-> x[i].known,
                                    cascaded |-> x[i].cascaded, checkpoint |-> x[i].checkpoint,
                                    signal |-> FALSE, work |-> x[i].work]]
        /\ ~(x[i].known <= x[i].stored) => x' = [x EXCEPT ![i] = Taken(x[i])]
<1> DEFINE r == x[i]
           no == FALSE
           v == VerifyLastHead(r)
           old == IF v.stored = 0 THEN NoHash ELSE v.heads[v.stored - 1]
           w == IF r.known <= r.stored THEN [r EXCEPT !.signal = no] ELSE Taken(r)
<1>1. r \in Rows BY DEF IndexerInv
<1>2. x' = [x EXCEPT ![i] = w] BY DEF TakeUpdate, Taken
<1> HIDE DEF r, no
<1>3. [r EXCEPT !.signal = no] =
        [stored |-> r.stored, heads |-> r.heads, known |-> r.known, cascaded |-> r.cascaded,
         checkpoint |-> r.checkpoint, signal |-> no, work |-> r.work] BY <1>1, SetSignal
<1>4. r.known <= r.stored => w = [stored |-> r.stored, heads |-> r.heads, known |-> r.known, cascaded |-> r.cascaded,
         checkpoint |-> r.checkpoint, signal |-> no, work |-> r.work] BY <1>3
<1>5. ~(r.known <= r.stored) => w = Taken(r) OBVIOUS
<1> HIDE DEF w
<1> QED BY <1>2, <1>4, <1>5 DEF r, no

LEMMA TakeUpdateRows == ASSUME NEW i \in Indexers, IndexerInv, TakeUpdate(i) PROVE RowsSound(x', Told)
<1>1. RowsSound(x, Told) /\ Told \in Nat /\ RowSound(x[i], Told) BY ToldIs DEF RowsSound
<1>2. CASE x[i].known <= x[i].stored
  <2> DEFINE r == x[i]
             no == FALSE
             u == [stored |-> r.stored, heads |-> r.heads, known |-> r.known, cascaded |-> r.cascaded,
                   checkpoint |-> r.checkpoint, signal |-> no, work |-> r.work]
  <2>1. x' = [x EXCEPT ![i] = u] BY <1>2, TakeUpdateIs
  <2>n. no \in BOOLEAN OBVIOUS
  <2>2. RowSound(r, Told) /\ r \in Rows BY <1>1 DEF RowSound
  <2> HIDE DEF no, r
  <2>3. u \in Rows BY <2>n, <2>2 DEF Rows
  <2>4. u.stored = r.stored /\ u.heads = r.heads /\ u.known = r.known /\ u.checkpoint = r.checkpoint /\ u.work = r.work
    OBVIOUS
  <2> HIDE DEF u
  <2>5. RowSound(u, Told) BY <2>2, <2>3, <2>4 DEF RowSound
  <2> QED BY <1>1, <2>1, <2>5, OneRow DEF RowsSound
<1>3. CASE ~(x[i].known <= x[i].stored)
  <2>1. x[i].known \in Nat /\ x[i].stored \in Nat BY <1>1 DEF RowSound, Rows
  <2>2. RowSound(Taken(x[i]), Told) BY <1>1, <1>3, <2>1, TakenSound
  <2>3. x' = [x EXCEPT ![i] = Taken(x[i])] BY <1>3, TakeUpdateIs
  <2> QED BY <1>1, <2>2, <2>3, OneRow DEF RowsSound
<1> QED BY <1>2, <1>3

LEMMA ProcessIs == ASSUME NEW i \in Indexers, IndexerInv, ProcessHeader(i) PROVE x' = [x EXCEPT ![i] = Processed(x[i])]
<1> DEFINE w == x[i].work
<1>1. x' = [x EXCEPT ![i] = IF Follows(w)
                            THEN [x[i] EXCEPT !.work = [w EXCEPT !.last = CanonicalHash(w.next), !.next = w.next + 1]]
                            ELSE GivenUp(x[i])] BY DEF ProcessHeader
<1> QED BY <1>1 DEF Processed

LEMMA ProcessRows == ASSUME NEW i \in Indexers, IndexerInv, ProcessHeader(i) PROVE RowsSound(x', Told)
<1>1. RowsSound(x, Told) /\ Told \in Nat /\ RowSound(x[i], Told) BY ToldIs DEF RowsSound
<1>2. RowSound(Processed(x[i]), Told) BY <1>1, ProcessedSound DEF ProcessHeader, IndexerInv
<1> QED BY <1>1, <1>2, ProcessIs, OneRow DEF RowsSound

LEMMA CompleteIs == ASSUME NEW i \in Indexers, IndexerInv, CompleteSection(i)
  PROVE /\ ~Unmoved(x[i]) => x' = [x EXCEPT ![i] = GivenUp(x[i])]
        /\ Unmoved(x[i]) => x' = Cascade([x EXCEPT ![i] = Done(x[i])], i, SectionEnd(x[i].work.section))
  BY DEF CompleteSection, Done

LEMMA CompleteRows == ASSUME NEW i \in Indexers, IndexerInv, CompleteSection(i) PROVE RowsSound(x', Told)
<1>0. 1 \in Indexers /\ 2 \in Indexers BY DEF Indexers
<1>1. RowsSound(x, Told) /\ Told \in Nat /\ RowSound(x[i], Told) BY ToldIs DEF RowsSound
<1>2. CASE ~Unmoved(x[i])
  <2>1. RowSound(GivenUp(x[i]), Told) BY <1>1, GivenUpSound
  <2>2. x' = [x EXCEPT ![i] = GivenUp(x[i])] BY <1>2, CompleteIs
  <2> QED BY <1>1, <2>1, <2>2, OneRow DEF RowsSound
<1>3. CASE Unmoved(x[i])
  <2> DEFINE y == [x EXCEPT ![i] = Done(x[i])]
             e == SectionEnd(x[i].work.section)
  <2>1. x[i].work.active /\ x[i].work.next > SectionEnd(x[i].work.section) BY DEF CompleteSection
  <2>2. RowSound(Done(x[i]), Told) /\ x[i].work.section < LastSection BY <1>1, <1>3, <2>1, DoneSound
  <2>3. RowsSound(y, Told) BY <1>1, <2>2, OneRow DEF RowsSound
  <2>4. x[i].work.section \in 0..LastSection BY <1>1, NumbersBounded DEF RowSound, Rows, Works
  <2>5. e \in Nat /\ e + 1 <= Cardinality(Headers)
    <3> DEFINE s == x[i].work.section
    <3>1. s \in 0..LastSection /\ s < LastSection BY <2>2, <2>4
    <3> HIDE DEF s
    <3>s. s \in Nat BY <3>1, NumbersBounded
    <3>2. SectionEnd(s) \in Nat BY <3>s, SectionStarts
    <3>3. SectionEnd(s) + 1 <= Cardinality(Headers) BY <3>1, NumbersBounded
    <3> QED BY <3>2, <3>3 DEF s
  <2>6. x' = Cascade(y, i, e) BY <1>3, CompleteIs
  <2> HIDE DEF y, e
  <2>7. RowSound(Advanced(2, y[2], e), Told) BY <1>0, <1>1, <2>3, <2>5, AdvancedSound DEF RowsSound
  <2>8. x' = y \/ x' = [y EXCEPT ![2] = Advanced(2, y[2], e)] BY <2>6 DEF Cascade
  <2> DEFINE z == [y EXCEPT ![2] = Advanced(2, y[2], e)]
  <2>9. RowsSound(z, Told) BY <1>0, <1>1, <2>3, <2>7, OneRow DEF RowsSound
  <2>10. x' = y \/ x' = z BY <2>8
  <2> HIDE DEF z
  <2> QED BY <2>3, <2>9, <2>10
<1> QED BY <1>2, <1>3

LEMMA ResetRows == ASSUME IndexerInv, ResetFails PROVE RowsSound(x', Told)
  BY ToldIs, SetValidSound, GivenUpSound, OneRow DEF Indexers, RowsSound, RowSound, Rows, ResetFails

LEMMA SectionsRows == ASSUME NEW i \in Indexers, IndexerInv, Sections(i) PROVE RowsSound(x', Told)
  BY ToldIs, VerifySound, OneRow DEF RowsSound, Sections

LEMMA RestartRows == ASSUME IndexerInv, RestartIndexers PROVE RowsSound(x', Told)
<1>1. RowsSound(x, Told) BY ToldIs
<1>2. x' = [i \in Indexers |-> Started(x[i].stored, x[i].heads, trusted)] BY DEF RestartIndexers
<1>3. ASSUME NEW i \in Indexers PROVE RowSound(x'[i], Told)
  <2>1. x'[i] = Started(x[i].stored, x[i].heads, trusted) BY <1>2
  <2>2. x[i].stored \in 0..LastSection /\ x[i].heads \in [SectionIds -> Hashes] /\ HeadsSound(x[i].heads, x[i].stored, Told)
    BY <1>1, NumbersBounded DEF RowsSound, RowSound, Rows
  <2>3. trusted \in CheckpointHeads BY DEF IndexerInv
  <2>4. RowSound(Started(x[i].stored, x[i].heads, trusted), Told) BY <2>2, <2>3, StartedSound DEF Told
  <2> QED BY <2>1, <2>4
<1>4. \A i \in Indexers : x'[i] \in Rows BY <1>3 DEF RowSound
<1>5. x' \in [Indexers -> Rows] BY <1>2, <1>4
<1> QED BY <1>3, <1>5 DEF RowsSound

LEMMA IndexerInvInit == ASSUME IndexerInit PROVE IndexerInv
<1> DEFINE m == [s \in SectionIds |-> NoHash]
<1>1. trusted \in CheckpointHeads BY DEF IndexerInit
<1>2. m \in [SectionIds -> Hashes] BY DEF Hashes
<1>3. HeadsSound(m, 0, Told)
  BY <1>1, Checkpoints, NumbersBounded DEF Told, HeadsSound
<1>4. 0 \in 0..LastSection BY NumbersBounded
<1>5. x = [i \in Indexers |-> Started(0, m, trusted)] BY DEF IndexerInit
<1> HIDE DEF m
<1>6. RowSound(Started(0, m, trusted), Told) BY <1>1, <1>2, <1>3, <1>4, StartedSound DEF Told
<1>7. Started(0, m, trusted) \in Rows BY <1>6 DEF RowSound
<1>8. x \in [Indexers -> Rows] /\ \A i \in Indexers : RowSound(x[i], Told) BY <1>5, <1>6, <1>7
<1>9. /\ head \in Headers /\ gone \subseteq Headers /\ events \in Seq(Headers)
      /\ loop \in [prev : Headers, next : Hashes]
      /\ attached \in BOOLEAN /\ disturbed \in BOOLEAN
  <2>1. head = Root /\ gone = {} /\ loop = [prev |-> Root, next |-> Root] BY DEF IndexerInit
  <2>2. events = <<>> BY DEF IndexerInit
  <2>3. events \in Seq(Headers) BY <2>2
  <2>4. attached \in BOOLEAN /\ disturbed \in BOOLEAN BY DEF IndexerInit
  <2>5. Root \in Headers /\ Root \in Hashes BY Ancestors DEF Hashes
  <2>6. loop \in [prev : Headers, next : Hashes] BY <2>1, <2>5
  <2> QED BY <2>1, <2>3, <2>4, <2>5, <2>6
<1>10. ChainSound
  BY Ancestors DEF IndexerInit, Hashes, Still, ChainSound
<1> QED BY <1>1, <1>8, <1>9, <1>10 DEF IndexerInv

LEMMA StillSound == ASSUME ChainSound, canon' = canon \/ (canon' \in [Numbers -> Hashes] /\ \A n \in Numbers : canon'[n] # NoHash => NumberOf[canon'[n]] = n),
                           move' = move \/ move' = Still PROVE ChainSound'
  BY DEF ChainSound, Still, Hashes

LEMMA ChainSoundStep == ASSUME IndexerInv, [IndexerNext]_indexerVars PROVE ChainSound'
<1>0. ChainSound /\ head \in Headers BY DEF IndexerInv
<1>1. CASE UNCHANGED <<canon, move>>
  BY <1>1, <1>0, StillSound
<1>2. ASSUME NEW b \in Headers, MoveHead(b) PROVE ChainSound'
  <2>1. PICK way \in {"grow", "reorg"} : move' = [way |-> way, to |-> b] BY <1>2 DEF MoveHead
  <2>2. canon' = canon BY <1>2 DEF MoveHead
  <2>3. b \in Hashes BY DEF Hashes
  <2> QED BY <1>0, <2>1, <2>2, <2>3 DEF ChainSound
<1>3. ASSUME NEW b \in Headers, RewindChain(b) PROVE ChainSound'
  BY <1>3, <1>0 DEF RewindChain, Hashes, ChainSound
<1>4. CASE WriteHeadBlock
  <2> DEFINE c == NextBlock
  <2>1. canon' = [canon EXCEPT ![NumberOf[c]] = c] /\ (move' = move \/ move' = Still) /\ move.way # "still"
    BY <1>4 DEF WriteHeadBlock
  <2>2. c \in Headers BY <1>0, <2>1, NextBlockIs
  <2> HIDE DEF c
  <2>3. c \in Hashes /\ NumberOf[c] \in Numbers BY <2>2 DEF Hashes, Numbers
  <2>4. canon' \in [Numbers -> Hashes] BY <1>0, <2>1, <2>3 DEF ChainSound
  <2>5. \A n \in Numbers : canon'[n] # NoHash => NumberOf[canon'[n]] = n BY <1>0, <2>1, <2>3 DEF ChainSound
  <2> QED BY <1>0, <2>1, <2>4, <2>5, StillSound
<1>5. CASE DeleteStale
  <2> DEFINE from == IF Ahead = {} THEN NumberOf[move.to] + 1 ELSE NumberOf[NextBlock]
             k(n) == n < from \/ \E m \in from..n : CanonicalHash(m) = NoHash
  <2>1. canon' = [n \in Numbers |-> IF k(n) THEN canon[n] ELSE NoHash] BY <1>5 DEF DeleteStale
  <2>2. move.way = "reorg" /\ move' = [move EXCEPT !.way = "grow"] BY <1>5 DEF DeleteStale
  <2> HIDE DEF k
  <2>3. canon' \in [Numbers -> Hashes] BY <1>0, <2>1 DEF ChainSound, Hashes
  <2>4. \A n \in Numbers : canon'[n] # NoHash => NumberOf[canon'[n]] = n BY <1>0, <2>1 DEF ChainSound
  <2>5. move' = [way |-> "grow", to |-> move.to] /\ move.to \in Headers BY <1>0, <2>2 DEF ChainSound
  <2> QED BY <2>3, <2>4, <2>5 DEF ChainSound, Hashes
<1>6. CASE DeleteAbove
  BY <1>6, <1>0, StillSound DEF DeleteAbove, ChainSound, Hashes
<1>7. CASE RestartIndexers
  BY <1>7, <1>0, StillSound DEF RestartIndexers
<1>8. CASE UNCHANGED indexerVars BY <1>1, <1>8 DEF indexerVars, indexChain
<1>9. CASE AddChildIndexer \/ TakeEvent \/ AnnounceHead \/ ResetFails
  BY <1>1, <1>9 DEF AddChildIndexer, TakeEvent, AnnounceHead, ResetFails, indexChain
<1>10. ASSUME NEW i \in Indexers, TakeUpdate(i) \/ ProcessHeader(i) \/ CompleteSection(i) \/ Sections(i) PROVE ChainSound'
  BY <1>1, <1>10 DEF TakeUpdate, ProcessHeader, CompleteSection, Sections, indexChain
<1> QED BY <1>2, <1>3, <1>4, <1>5, <1>6, <1>7, <1>8, <1>9, <1>10 DEF IndexerNext

LEMMA IndexerInvStep == ASSUME IndexerInv, [IndexerNext]_indexerVars PROVE IndexerInv'
<1>0. /\ RowsSound(x, Told) /\ trusted \in CheckpointHeads
      /\ head \in Headers /\ gone \subseteq Headers /\ events \in Seq(Headers)
      /\ loop \in [prev : Headers, next : Hashes]
      /\ attached \in BOOLEAN /\ disturbed \in BOOLEAN
  BY DEF IndexerInv, RowsSound
<1>t. trusted' = trusted
  <2>1. ASSUME NEW b \in Headers, MoveHead(b) \/ RewindChain(b) PROVE trusted' = trusted BY <2>1 DEF MoveHead, RewindChain
  <2>2. CASE WriteHeadBlock \/ DeleteStale \/ DeleteAbove BY <2>2 DEF WriteHeadBlock, DeleteStale, DeleteAbove
  <2>3. CASE AddChildIndexer \/ TakeEvent \/ AnnounceHead \/ ResetFails \/ RestartIndexers
    BY <2>3 DEF AddChildIndexer, TakeEvent, AnnounceHead, ResetFails, RestartIndexers
  <2>4. ASSUME NEW i \in Indexers, TakeUpdate(i) \/ ProcessHeader(i) \/ CompleteSection(i) \/ Sections(i)
        PROVE trusted' = trusted BY <2>4 DEF TakeUpdate, ProcessHeader, CompleteSection, Sections
  <2>5. CASE UNCHANGED indexerVars BY <2>5 DEF indexerVars
  <2> QED BY <2>1, <2>2, <2>3, <2>4, <2>5 DEF IndexerNext
<1>1. Told' = Told BY <1>t DEF Told
<1> DEFINE After == /\ RowsSound(x', Told)
                   /\ head' \in Headers /\ gone' \subseteq Headers /\ events' \in Seq(Headers)
                   /\ loop' \in [prev : Headers, next : Hashes]
                   /\ attached' \in BOOLEAN /\ disturbed' \in BOOLEAN
<1>2. SUFFICES After BY <1>0, <1>t, <1>1, ChainSoundStep DEF IndexerInv, RowsSound
<1>3. CASE UNCHANGED indexerVars BY <1>0, <1>3 DEF indexerVars, indexChain
<1>4. CASE AddChildIndexer BY <1>0, <1>4, AddChildRows DEF AddChildIndexer, indexChain
<1>5. CASE TakeEvent
  BY <1>5, <1>0, TakeEventRows DEF TakeEvent, indexChain, Hashes
<1>6. CASE AnnounceHead
  BY <1>6, <1>0, AnnounceRows DEF AnnounceHead, Hashes, indexChain
<1>7. CASE ResetFails BY <1>0, <1>7, ResetRows DEF ResetFails, indexChain
<1>8. CASE RestartIndexers
  <2>1. loop' = [prev |-> head, next |-> head] /\ events' = <<>> /\ attached' = FALSE BY <1>8 DEF RestartIndexers
  <2>2. head' = head /\ gone' = gone /\ disturbed' = disturbed BY <1>8 DEF RestartIndexers, indexChain
  <2>3. loop' \in [prev : Headers, next : Hashes] BY <1>0, <2>1 DEF Hashes
  <2>4. events' \in Seq(Headers) BY <2>1
  <2>5. attached' \in BOOLEAN BY <2>1
  <2>6. RowsSound(x', Told) BY <1>8, RestartRows
  <2> QED BY <1>0, <2>2, <2>3, <2>4, <2>5, <2>6
<1>9. ASSUME NEW b \in Headers, MoveHead(b) PROVE After
  BY <1>9, <1>0 DEF MoveHead
<1>10. ASSUME NEW b \in Headers, RewindChain(b) PROVE After
  BY <1>0, <1>10 DEF RewindChain
<1>11. ASSUME NEW i \in Indexers, TakeUpdate(i) PROVE After
  BY <1>11, TakeUpdateRows, <1>0 DEF TakeUpdate, indexChain
<1>12. ASSUME NEW i \in Indexers, ProcessHeader(i) PROVE After
  BY <1>12, ProcessRows, <1>0 DEF ProcessHeader, indexChain
<1>13. ASSUME NEW i \in Indexers, CompleteSection(i) PROVE After
  BY <1>13, CompleteRows, <1>0 DEF CompleteSection, indexChain
<1>14. ASSUME NEW i \in Indexers, Sections(i) PROVE After
  BY <1>14, SectionsRows, <1>0 DEF Sections, indexChain
<1>15. CASE WriteHeadBlock
  BY <1>15, NextBlockIs, <1>0 DEF WriteHeadBlock, IndexerInv
<1>16. CASE DeleteStale \/ DeleteAbove
  BY <1>0, <1>16 DEF DeleteStale, DeleteAbove
<1> QED BY <1>3, <1>4, <1>5, <1>6, <1>7, <1>8, <1>9, <1>10, <1>11, <1>12, <1>13, <1>14, <1>15, <1>16 DEF IndexerNext

\* Linked heads below one on the chain of h are on it.
LEMMA LinkedBelow ==
  ASSUME NEW m \in [SectionIds -> Hashes], NEW n \in 1..LastSection, NEW t \in Nat, HeadsSound(m, n, t),
         NEW h \in Headers, m[n - 1] \in Ancestry[h], NEW s \in SectionIds, s < n, s + 1 >= t PROVE m[s] \in Ancestry[h]
<1> DEFINE D == {k \in 0..(n - 1) : s <= n - 1 - k /\ m[n - 1 - k] \notin Ancestry[h]}
<1>0. LastSection \in Nat /\ SectionIds = 0..LastSection /\ n \in Nat /\ s \in Nat BY NumbersBounded
<1> SUFFICES ASSUME m[s] \notin Ancestry[h] PROVE FALSE OBVIOUS
<1>1. n - 1 - s \in D
  BY <1>0
<1>2. PICK k \in D : \A e \in D : k <= e
  <2>1. D \subseteq Nat OBVIOUS
  <2> HIDE DEF D
  <2> QED BY <1>1, <2>1, LeastNumber
<1>3. k # 0 BY <1>0
<1>4. k - 1 \in Nat /\ k - 1 \in 0..(n - 1) /\ ~(k <= k - 1) /\ s <= n - 1 - (k - 1) BY <1>0, <1>3
<1>5. m[n - 1 - (k - 1)] \in Ancestry[h] BY <1>2, <1>4
<1> DEFINE j == n - 1 - k
<1>6. j \in SectionIds /\ j + 1 < n /\ j + 1 = n - 1 - (k - 1) /\ j + 1 >= t /\ s <= j BY <1>0, <1>3, <1>4
<1> HIDE DEF j
<1>7. m[j] \in Ancestry[m[j + 1]] BY <1>6 DEF HeadsSound
<1>8. m[j + 1] \in Ancestry[h] BY <1>5, <1>6
<1>9. m[j] \in Ancestry[h] BY <1>7, <1>8, Ancestors
<1> QED BY <1>9 DEF j

LEMMA SectionsCanonicalHolds == ASSUME IndexerInv PROVE SectionsCanonical
<1>0. Told \in Nat /\ RowsSound(x, Told) /\ LastSection \in Nat /\ SectionIds = 0..LastSection BY ToldIs, NumbersBounded
<1>1. IndexerTypeOK
  BY <1>0 DEF RowsSound, Rows, Works, Hashes, IndexerInv, ChainSound, IndexerTypeOK
<1>2. SectionsLinked
  BY <1>0 DEF RowsSound, RowSound, SectionsLinked, Kept, HeadsSound, Told
<1>3. ServedCanonical
  <2> SUFFICES ASSUME ~Leftover, NEW i \in Indexers, NEW s \in SectionIds, s < VerifyLastHead(x[i]).stored,
                      s >= VerifyLastHead(x[i]).checkpoint, s + 1 >= Told
               PROVE /\ VerifyLastHead(x[i]).heads[s] \in Ancestry[head]
                     /\ NumberOf[VerifyLastHead(x[i]).heads[s]] = SectionEnd(s)
    BY DEF ServedCanonical, Kept, Told
  <2> DEFINE r == x[i]
             v == VerifyLastHead(r)
  <2>1. RowSound(r, Told) /\ r.stored \in Nat /\ r.checkpoint \in Nat /\ r.stored <= LastSection
    BY <1>0 DEF RowsSound, RowSound, Rows
  <2>2. PICK k \in 0..r.stored : v = SetValid(r, k) /\ Valid(r, k) BY <1>0, <2>1, VerifyKeeps
  <2>3. v.stored = k /\ v.checkpoint = r.checkpoint /\ RowSound(v, Told)
        /\ \A j \in SectionIds : v.heads[j] = IF j >= k THEN NoHash ELSE r.heads[j]
    BY <1>0, <2>1, <2>2, SetValidSound
  <2>4. s < v.stored /\ s >= v.checkpoint OBVIOUS
  <2> HIDE DEF v
  <2>5. s \in Nat /\ k \in Nat /\ k > 0 /\ k <= LastSection /\ k - 1 \in SectionIds /\ ~(k <= r.checkpoint)
    BY <1>0, <2>1, <2>3, <2>4
  <2>6. r.heads[k - 1] = CanonicalHash(SectionEnd(k - 1)) BY <2>2, <2>5 DEF Valid
  <2>7. v.heads[k - 1] = r.heads[k - 1] BY <2>3, <2>5
  <2>8. HeadsSound(v.heads, k, Told) /\ v.heads \in [SectionIds -> Hashes] BY <2>3 DEF RowSound, Rows
  <2>9. v.heads[k - 1] # NoHash
    BY <1>0, <2>3, <2>4, <2>5, <2>8 DEF HeadsSound
  <2>10. head \in Headers BY DEF IndexerInv
  <2>11. SectionEnd(k - 1) \in Nat /\ SectionEnd(s) \in Nat
    <3>1. k - 1 \in Nat BY <2>5
    <3> HIDE DEF v, r
    <3> QED BY <2>5, <3>1, SectionStarts
  <2>12. CanonicalHash(SectionEnd(k - 1)) \in Ancestry[head] \/ CanonicalHash(SectionEnd(k - 1)) = NoHash
    BY DEF CanonicalHash, Leftover
  <2>13. v.heads[k - 1] \in Ancestry[head] BY <2>6, <2>7, <2>9, <2>12
  <2>14. v.heads[s] \in Ancestry[head]
    <3>1. k \in 1..LastSection BY <1>0, <2>5
    <3>2. s < k BY <2>3, <2>4
    <3> QED BY <1>0, <2>8, <2>10, <2>13, <3>1, <3>2, LinkedBelow
  <2>15. v.heads[s] \in Headers /\ NumberOf[v.heads[s]] = SectionEnd(s)
    BY <2>10, <2>14, Ancestors, <2>8 DEF HeadsSound
  <2> QED BY <2>14, <2>15 DEF v
<1> QED BY <1>1, <1>2, <1>3 DEF SectionsCanonical

THEOREM SectionsAreCanonical == IndexerSpec => []SectionsCanonical
<1>1. IndexerInit => IndexerInv BY IndexerInvInit
<1>2. IndexerInv /\ [IndexerNext]_indexerVars => IndexerInv' BY IndexerInvStep
<1>3. IndexerInv => SectionsCanonical BY SectionsCanonicalHolds
<1> QED BY <1>1, <1>2, <1>3, PTL DEF IndexerSpec

-----------------------------------------------------------------------------
\* On a chain that only grew.  Late: the chain of h has reached the checkpoint c, if
\* there is one.
Late(h, c) == SectionsTo(c) = 0 \/ c \in Ancestry[h]

\* An index that waits for the checkpoint to be reached.
Waiting(r, c) ==
  /\ r.known = 0 /\ ~r.work.active /\ r.stored \in {0, SectionsTo(c)}
  /\ r.stored > 0 => r.heads[SectionsTo(c) - 1] = c

\* An index at work: what is stored, known and being processed lies on the chain.
Going(r, h) ==
  /\ r.known > 0 => SectionEnd(r.known - 1) <= NumberOf[h]
  /\ r.stored > 0 => r.heads[r.stored - 1] \in Ancestry[h]
  /\ r.work.active =>
       /\ r.work.section = r.stored /\ r.known > r.stored
       /\ r.stored > 0 => r.work.old = r.heads[r.stored - 1]
       /\ r.work.next > r.stored * SectionSize => r.work.last \in Ancestry[h]
  /\ r.known > r.stored => r.signal \/ r.work.active

\* Before the first restart.
FirstRun(r, h, c) ==
  /\ r.checkpoint = SectionsTo(c) /\ r.stored >= SectionsTo(c)
  /\ r.known = 0 \/ r.known >= SectionsTo(c)
  /\ r.stored = SectionsTo(c) \/ r.stored <= r.known
  /\ Late(h, c) => Going(r, h)
  /\ ~Late(h, c) => Waiting(r, c)

\* After it, with a checkpoint of one section at most.
Anew(r, h, c) ==
  /\ Late(h, c) => Going(r, h)
  /\ ~Late(h, c) /\ NumberOf[h] < SectionEnd(0) => Waiting(r, c)

\* The canonical hashes are those of the chain of the head, and nothing but a growth is under way.
Plain == \A n \in Nat : CanonicalHash(n) = HashAt(head, n)
Onward == move.way \in {"still", "grow"} /\ (move.way = "grow" => move.to \in Headers /\ head \in Ancestry[move.to])

\* Events arrive in the order of the chain.
EventsOnChain ==
  /\ loop.prev \in Ancestry[head] /\ loop.next \in {loop.prev, NoHash}
  /\ \A k \in 1..Len(events) : events[k] \in Ancestry[head]
  /\ move.way = "still" /\ Len(events) = 0 => loop.prev = head
  /\ move.way = "still" /\ Len(events) > 0 => events[Len(events)] = head

\* What the last header announced makes known is known, and so is to the child what
\* its parent has stored.
HeadTold ==
  loop.next = NoHash /\ Late(head, trusted) /\ (restarts = 0 \/ Told <= 1) =>
    Reached(1, NumberOf[loop.prev]) <= x[1].stored \/ Reached(1, NumberOf[loop.prev]) <= x[1].known
ChildTold == attached /\ restarts = 0 => x[1].stored <= x[2].stored \/ x[1].stored <= x[2].known

QuietInv ==
  /\ restarts \in Nat
  /\ ~disturbed =>
       /\ Plain /\ Onward /\ EventsOnChain /\ HeadTold /\ ChildTold
       /\ restarts = 0 => FirstRun(x[1], head, trusted) /\ FirstRun(x[2], head, trusted)
       /\ Told <= 1 => Anew(x[1], head, trusted)

LEMMA CanonicalIs == ASSUME Plain, head \in Headers, NEW n \in Nat
  PROVE /\ \A c \in Ancestry[head] : NumberOf[c] = n => CanonicalHash(n) = c
        /\ n <= NumberOf[head] => CanonicalHash(n) \in Ancestry[head] /\ CanonicalHash(n) \in Headers
                                  /\ NumberOf[CanonicalHash(n)] = n
        /\ CanonicalHash(n) # NoHash => n <= NumberOf[head] /\ CanonicalHash(n) \in Ancestry[head]
        /\ CanonicalHash(n) = HashAt(head, n)
  BY Ancestors, HashAtSound DEF Plain

LEMMA SetValidSame == ASSUME NEW t \in Nat, NEW r, RowSound(r, t) PROVE SetValid(r, r.stored) = r
<1> DEFINE m == [s \in SectionIds |-> IF s >= r.stored /\ s < r.stored THEN NoHash ELSE r.heads[s]]
           n == r.stored
<1>1. r \in Rows /\ n \in Nat /\ r.heads \in [SectionIds -> Hashes] BY DEF RowSound, Rows
<1>2. SetValid(r, r.stored) = [r EXCEPT !.stored = n, !.heads = m] BY DEF SetValid
<1>3. m = r.heads
  <2>1. \A s \in SectionIds : ~(s >= r.stored /\ s < r.stored) BY <1>1, NumbersBounded
  <2>2. m = [s \in SectionIds |-> r.heads[s]] BY <2>1
  <2> QED BY <1>1, <2>2
<1> HIDE DEF m
<1>4. [r EXCEPT !.stored = n, !.heads = m] = [stored |-> n, heads |-> m, known |-> r.known, cascaded |-> r.cascaded,
           checkpoint |-> r.checkpoint, signal |-> r.signal, work |-> r.work]
  <2> DEFINE u == [r EXCEPT !.stored = n]
  <2>1. u = r BY <1>1 DEF Rows
  <2>2. [r EXCEPT !.stored = n, !.heads = m] = [u EXCEPT !.heads = m] OBVIOUS
  <2> HIDE DEF u
  <2> QED BY <1>1, <2>1, <2>2, SetHeads
<1>5. r = [stored |-> r.stored, heads |-> r.heads, known |-> r.known, cascaded |-> r.cascaded,
           checkpoint |-> r.checkpoint, signal |-> r.signal, work |-> r.work] BY <1>1 DEF Rows
<1> QED BY <1>2, <1>3, <1>4, <1>5

\* An index at work is not rolled back by verifyLastHead, nor one that waits with a checkpoint.
LEMMA QuietVerify == ASSUME NEW t \in Nat, NEW r, RowSound(r, t), head \in Headers,
                            (Plain /\ Going(r, head)) \/ r.stored <= r.checkpoint PROVE VerifyLastHead(r) = r
<1>0. LastSection \in Nat /\ SectionIds = 0..LastSection BY NumbersBounded
<1>1. r.stored \in Nat /\ r.checkpoint \in Nat /\ r.stored <= LastSection /\ HeadsSound(r.heads, r.stored, t)
  BY DEF RowSound, Rows
<1>2. PICK k \in 0..r.stored : /\ VerifyLastHead(r) = SetValid(r, k)
                               /\ \A m \in (k + 1)..r.stored : ~Valid(r, m)
  BY VerifyKeeps
<1>3. Valid(r, r.stored)
  <2>1. CASE r.stored <= r.checkpoint BY <2>1 DEF Valid
  <2>2. CASE r.stored = 0 BY <1>1, <2>2 DEF Valid
  <2>3. CASE Plain /\ Going(r, head) /\ r.stored > 0
    <3> DEFINE c == r.heads[r.stored - 1]
               s == r.stored - 1
    <3>1. c \in Ancestry[head] BY <2>3 DEF Going
    <3>2. s \in SectionIds /\ s \in Nat BY <1>0, <1>1, <2>3
    <3>3. c # NoHash BY <3>1, Ancestors
    <3>4. NumberOf[c] = SectionEnd(s) BY <1>1, <3>2, <3>3 DEF HeadsSound
    <3>5. SectionEnd(s) \in Nat BY <3>2, SectionStarts
    <3>6. CanonicalHash(SectionEnd(s)) = c
      <4> HIDE DEF c, s
      <4> QED BY <2>3, <3>1, <3>4, <3>5, CanonicalIs
    <3> QED BY <3>6 DEF Valid
  <2>4. r.stored = 0 \/ r.stored > 0 BY <1>1
  <2> QED BY <2>1, <2>2, <2>3, <2>4
<1>4. k = r.stored
  <2>1. ASSUME k < r.stored PROVE FALSE
    BY <1>1, <2>1, <1>2, <1>3
  <2> QED BY <1>1, <2>1
<1> QED BY <1>2, <1>4, SetValidSame

\* Taking up a section.
LEMMA GoingTaken == ASSUME NEW t \in Nat, NEW r, RowSound(r, t), Plain, head \in Headers, Going(r, head), r.known > r.stored
  PROVE /\ Going(Taken(r), head) /\ Taken(r).stored = r.stored /\ Taken(r).known = r.known
        /\ Taken(r).checkpoint = r.checkpoint
<1>1. VerifyLastHead(r) = r BY QuietVerify
<1> DEFINE old == IF r.stored = 0 THEN NoHash ELSE r.heads[r.stored - 1]
           o == [section |-> r.stored, old |-> old, last |-> old, next |-> r.stored * SectionSize, active |-> TRUE]
           no == FALSE
           u == Taken(r)
<1>2. u = [stored |-> r.stored, heads |-> r.heads, known |-> r.known, cascaded |-> r.cascaded,
           checkpoint |-> r.checkpoint, signal |-> no, work |-> o] BY <1>1, TakenSound
<1>3. r.stored \in Nat /\ r.known \in Nat BY DEF RowSound, Rows
<1>4. r.stored * SectionSize \in Nat BY <1>3, SectionStarts
<1>5. o.active /\ o.section = r.stored /\ o.next = r.stored * SectionSize OBVIOUS
<1>6. r.stored > 0 => o.old = r.heads[r.stored - 1] BY <1>3
<1> HIDE DEF o, no, u
<1>7. u.stored = r.stored /\ u.heads = r.heads /\ u.known = r.known /\ u.checkpoint = r.checkpoint /\ u.work = o BY <1>2
<1>8. ~(o.next > r.stored * SectionSize) BY <1>4, <1>5
<1>9. Going(u, head) BY <1>5, <1>6, <1>7, <1>8 DEF Going
<1> QED BY <1>7, <1>9 DEF u

\* The next header continues the section.
LEMMA GoingProcessed ==
  ASSUME NEW t \in Nat, NEW r, RowSound(r, t), Plain, ChainSound, head \in Headers, Going(r, head),
         r.work.active, r.work.next <= SectionEnd(r.work.section)
  PROVE /\ Going(Processed(r), head) /\ Processed(r).stored = r.stored /\ Processed(r).known = r.known
        /\ Processed(r).checkpoint = r.checkpoint
<1> DEFINE w == r.work
           c == CanonicalHash(w.next)
           u == Processed(r)
<1>0. LastSection \in Nat /\ SectionIds = 0..LastSection BY NumbersBounded
<1>1. r \in Rows /\ w \in Works /\ r.stored \in Nat /\ r.known \in Nat BY DEF RowSound, Rows
<1>2. w.section \in Nat /\ w.next \in Nat BY <1>0, <1>1 DEF Works
<1>3. /\ w.section = r.stored /\ r.known > r.stored /\ SectionEnd(r.known - 1) <= NumberOf[head]
      /\ r.stored > 0 => w.old = r.heads[r.stored - 1] /\ r.heads[r.stored - 1] \in Ancestry[head]
      /\ w.next > r.stored * SectionSize => w.last \in Ancestry[head]
  BY <1>1 DEF Going
<1>4. /\ w.section * SectionSize <= w.next
      /\ w.section = 0 => w.old = NoHash
      /\ w.section > 0 /\ w.old # NoHash => NumberOf[w.old] = SectionEnd(w.section - 1)
      /\ w.next = w.section * SectionSize => w.last = w.old
      /\ w.next > w.section * SectionSize => w.last \in Headers /\ NumberOf[w.last] = w.next - 1
  BY DEF RowSound, WorkSound
<1>5. w.section * SectionSize \in Nat /\ 0 * SectionSize = 0 BY <1>2, SectionStarts
<1>6. w.next <= NumberOf[head]
  <2>1. SectionEnd(w.section) <= SectionEnd(r.known - 1)
    <3>1. w.section = r.known - 1 \/ w.section < r.known - 1 BY <1>1, <1>2, <1>3
    <3>2. r.known - 1 \in Nat BY <1>1, <1>2, <1>3
    <3>3. SectionEnd(w.section) \in Nat BY <1>2, SectionStarts
    <3>4. CASE w.section = r.known - 1 BY <3>3, <3>4
    <3>5. CASE w.section < r.known - 1
      <4> DEFINE p == r.known - 1
      <4>1. p \in Nat /\ w.section < p BY <3>2, <3>5
      <4> HIDE DEF p
      <4>2. SectionEnd(w.section) < SectionEnd(p) /\ SectionEnd(p) \in Nat BY <1>2, <4>1, SectionStarts
      <4>3. SectionEnd(w.section) <= SectionEnd(p) BY <3>3, <4>2
      <4> QED BY <4>3 DEF p
    <3> QED BY <3>1, <3>4, <3>5
  <2>2. w.next <= SectionEnd(w.section) OBVIOUS
  <2>3. SectionEnd(w.section) \in Nat /\ SectionEnd(r.known - 1) \in Nat /\ NumberOf[head] \in Nat
    <3>1. r.known - 1 \in Nat BY <1>1, <1>2, <1>3
    <3> QED BY <1>2, <3>1, SectionStarts, Ancestors
  <2> HIDE DEF w
  <2> QED BY <1>2, <1>3, <2>1, <2>2, <2>3
<1>7. c \in Ancestry[head] /\ c \in Headers /\ NumberOf[c] = w.next BY <1>2, <1>6, CanonicalIs
<1>8. ParentHash(c) = w.last
  <2> HIDE DEF c, w
  <2>1. CASE w.next = 0
    <3>1. c = Root BY <1>7, <2>1, Ancestors
    <3>2. w.section = 0
      <4>1. ASSUME w.section > 0 PROVE FALSE
        BY <1>2, <4>1, SectionStarts, <1>4, <1>5, <2>1
      <4> QED BY <1>2, <4>1
    <3>3. w.last = NoHash BY <1>4, <1>5, <2>1, <3>2
    <3> QED BY <3>1, <3>3 DEF ParentHash
  <2>2. CASE w.next > 0
    <3>1. c # Root BY <1>7, <2>2, Ancestors
    <3>2. /\ ParentHash(c) = ParentOf[c] /\ ParentOf[c] \in Ancestry[head] /\ NumberOf[ParentOf[c]] = w.next - 1
      BY <1>7, <3>1, Ancestors DEF ParentHash
    <3>3. w.last \in Ancestry[head] /\ NumberOf[w.last] = w.next - 1
      <4>1. CASE w.next > w.section * SectionSize BY <1>3, <1>4, <4>1
      <4>2. CASE w.next = w.section * SectionSize
        <5>1. w.section > 0 BY <1>2, <1>5, <2>2, <4>2
        <5>2. w.last \in Ancestry[head] /\ w.last = w.old /\ w.old # NoHash BY <1>3, <1>4, <4>2, <5>1, Ancestors
        <5>3. SectionEnd(w.section - 1) = w.section * SectionSize - 1
          BY <1>2 DEF SectionEnd
        <5> QED BY <1>4, <4>2, <5>1, <5>2, <5>3
      <4> QED BY <1>2, <1>4, <1>5, <4>1, <4>2
    <3> QED BY <3>2, <3>3, Ancestors
  <2> QED BY <1>2, <2>1, <2>2
<1>9. Follows(w)
  BY <1>7, Ancestors, <1>8 DEF Follows
<1> DEFINE o == [section |-> w.section, old |-> w.old, last |-> c, next |-> w.next + 1, active |-> w.active]
<1>10. u = [stored |-> r.stored, heads |-> r.heads, known |-> r.known, cascaded |-> r.cascaded,
            checkpoint |-> r.checkpoint, signal |-> r.signal, work |-> o] BY <1>9, ProcessedSound
<1>11. o.section = w.section /\ o.old = w.old /\ o.last = c /\ o.active OBVIOUS
<1> HIDE DEF o, u, c
<1>12. u.stored = r.stored /\ u.heads = r.heads /\ u.known = r.known /\ u.checkpoint = r.checkpoint /\ u.work = o BY <1>10
<1>13. Going(u, head) BY <1>3, <1>7, <1>11, <1>12 DEF Going
<1> QED BY <1>12, <1>13 DEF u

\* A completed section is on the chain.
LEMMA GoingDone ==
  ASSUME NEW t \in Nat, NEW r, RowSound(r, t), head \in Headers, Going(r, head),
         r.work.active, r.work.next > SectionEnd(r.work.section)
  PROVE /\ Unmoved(r)
        /\ Going(Done(r), head) /\ Done(r).stored = r.stored + 1 /\ Done(r).known = r.known /\ r.stored + 1 <= r.known
        /\ Done(r).checkpoint = r.checkpoint /\ r.work.section = r.stored
<1> DEFINE w == r.work
           u == Done(r)
           g == r.signal \/ r.known > w.section + 1
<1>0. LastSection \in Nat /\ SectionIds = 0..LastSection BY NumbersBounded
<1>1. r \in Rows /\ w \in Works /\ r.stored \in Nat /\ r.known \in Nat /\ r.heads \in [SectionIds -> Hashes]
  BY DEF RowSound, Rows
<1>2. w.section \in Nat /\ w.next \in Nat /\ w.section \in SectionIds BY <1>0, <1>1 DEF Works
<1>3. /\ w.section = r.stored /\ r.known > r.stored /\ SectionEnd(r.known - 1) <= NumberOf[head]
      /\ r.stored > 0 => w.old = r.heads[r.stored - 1]
      /\ w.next > r.stored * SectionSize => w.last \in Ancestry[head]
  BY <1>1 DEF Going
<1>4. Unmoved(r) BY <1>1, <1>3 DEF Unmoved
<1>5. u = [stored |-> w.section + 1, heads |-> [r.heads EXCEPT ![w.section] = w.last],
           known |-> r.known, cascaded |-> SectionEnd(w.section), checkpoint |-> r.checkpoint,
           signal |-> g, work |-> NoWork] BY <1>4, DoneSound
<1>6. w.last \in Ancestry[head]
  <2>1. SectionEnd(w.section) = w.section * SectionSize + SectionSize - 1 /\ w.section * SectionSize \in Nat
        /\ SectionSize \in Nat /\ SectionSize > 0
    BY <1>2, SectionStarts
  <2>2. w.next > SectionEnd(w.section) OBVIOUS
  <2> DEFINE p == w.section * SectionSize
  <2>3. p \in Nat /\ w.next > p + SectionSize - 1 BY <2>1, <2>2
  <2> HIDE DEF p, w
  <2>4. w.next > p BY <1>2, <2>1, <2>3
  <2> QED BY <1>3, <2>4 DEF p
<1> DEFINE m == [r.heads EXCEPT ![w.section] = w.last]
<1>7. m[w.section] = w.last BY <1>1, <1>2
<1>8. ~NoWork.active BY DEF NoWork
<1>9. r.known > w.section + 1 => g OBVIOUS
<1> HIDE DEF u, m, g, w
<1>10. u.stored = w.section + 1 /\ u.heads = m /\ u.known = r.known /\ u.checkpoint = r.checkpoint /\ u.work = NoWork
       /\ u.signal = g
  BY <1>5 DEF m
<1>11. u.heads[u.stored - 1] = w.last
  BY <1>2, <1>10, <1>7
<1>12. Going(u, head) BY <1>1, <1>3, <1>6, <1>8, <1>9, <1>10, <1>11 DEF Going
<1>13. r.stored + 1 <= r.known BY <1>1, <1>3
<1> QED BY <1>3, <1>4, <1>10, <1>12, <1>13 DEF u, w

\* The chain has reached the checkpoint when its header is on it.
LEMMA LateIs == ASSUME IndexerInv, Plain, Told > 0
  PROVE /\ trusted \in Headers /\ NumberOf[trusted] = SectionEnd(Told - 1) /\ SectionEnd(Told - 1) \in Nat
        /\ Late(head, trusted) <=> CanonicalHash(SectionEnd(Told - 1)) = trusted
<1>1. trusted \in Headers /\ NumberOf[trusted] = SectionEnd(Told - 1) /\ head \in Headers
  BY Checkpoints DEF IndexerInv, Told
<1>2. SectionEnd(Told - 1) \in Nat BY <1>1, Ancestors
<1>3. trusted # NoHash BY <1>1, Ancestors
<1>4. Told # 0 OBVIOUS
<1> DEFINE e == SectionEnd(Told - 1)
<1>5. CanonicalHash(e) = trusted => trusted \in Ancestry[head]
  <2> HIDE DEF e
  <2> QED BY <1>1, <1>2, <1>3, CanonicalIs DEF e
<1>6. trusted \in Ancestry[head] => CanonicalHash(e) = trusted
  <2> HIDE DEF e
  <2> QED BY <1>1, <1>2, CanonicalIs DEF e
<1> QED BY <1>1, <1>2, <1>4, <1>5, <1>6 DEF Late, Told

\* What holds of a row goes on holding.
Keeps(r, u) ==
  /\ FirstRun(r, head, trusted) => FirstRun(u, head, trusted) /\ u.stored >= r.stored /\ u.known >= r.known
  /\ Told <= 1 /\ Anew(r, head, trusted) =>
       /\ Anew(u, head, trusted)
       /\ Late(head, trusted) => u.stored >= r.stored /\ u.known >= r.known

LEMMA SameKeeps == ASSUME NEW t \in Nat, NEW r, RowSound(r, t) PROVE Keeps(r, r)
  BY DEF RowSound, Rows, Keeps

\* newHead of a header of the chain.
LEMMA AdvancedQuiet ==
  ASSUME IndexerInv, Plain, NEW i \in Indexers, NEW r, RowSound(r, Told), NEW n \in Nat, n <= NumberOf[head]
  PROVE /\ Keeps(r, Advanced(i, r, n)) /\ Advanced(i, r, n).stored = r.stored
        /\ Late(head, trusted) /\ (FirstRun(r, head, trusted) \/ (Told <= 1 /\ Anew(r, head, trusted))) =>
             Reached(i, n) <= r.stored \/ Reached(i, n) <= Advanced(i, r, n).known
<1> DEFINE k == Reached(i, n)
           u == Advanced(i, r, n)
           yes == TRUE
<1>0. Told \in Nat /\ head \in Headers BY ToldIs DEF IndexerInv
<1>1. r \in Rows /\ r.stored \in Nat /\ r.known \in Nat /\ r.checkpoint \in {0, Told} BY DEF RowSound, Rows
<1>2. NumberOf[head] \in Nat /\ NumberOf[head] + 1 <= Cardinality(Headers) /\ Cardinality(Headers) \in Nat
  BY <1>0, NumbersBounded
<1>3. n + 1 <= Cardinality(Headers) BY <1>2
<1>4. k \in Nat BY <1>3, ReachedBound, NumbersBounded
<1>5. \A s \in Nat : s <= k /\ s > 0 => SectionEnd(s - 1) <= n /\ SectionEnd(s - 1) \in Nat
  <2> SUFFICES ASSUME NEW s \in Nat, s <= k, s > 0 PROVE SectionEnd(s - 1) <= n /\ SectionEnd(s - 1) \in Nat OBVIOUS
  <2>1. SectionEnd(s - 1) <= n BY <1>3, ReachedBound
  <2>2. s - 1 \in Nat OBVIOUS
  <2> QED BY <2>1, <2>2, SectionStarts
<1>6. yes = TRUE OBVIOUS
<1> HIDE DEF yes
<1>7. /\ ~(k >= r.checkpoint /\ k > r.known /\ Agrees(r)) => u = r
      /\ k >= r.checkpoint /\ k > r.known /\ Agrees(r) =>
           u = [stored |-> r.stored, heads |-> r.heads, known |-> k, cascaded |-> r.cascaded,
                checkpoint |-> r.checkpoint, signal |-> yes, work |-> r.work] BY <1>1, <1>6, AdvancedIs
<1> HIDE DEF k, u
<1>8. CASE u = r /\ ~(k >= r.checkpoint /\ k > r.known /\ Agrees(r))
  <2>1. Keeps(r, u) /\ u.stored = r.stored BY <1>0, <1>8, SameKeeps
  <2>2. ASSUME Late(head, trusted), FirstRun(r, head, trusted) \/ (Told <= 1 /\ Anew(r, head, trusted))
        PROVE k <= r.stored \/ k <= u.known
    <3>1. CASE k < r.checkpoint
      <4>1. r.checkpoint = Told /\ Told > 0 BY <1>0, <1>1, <1>4, <3>1
      <4>2. CASE FirstRun(r, head, trusted)
        BY <4>2, <1>0, <1>1, <1>4, <3>1, <4>1 DEF FirstRun, Told
      <4>3. CASE Told <= 1
        BY <1>0, <1>4, <3>1, <4>1, <4>3, <1>1
      <4> QED BY <2>2, <4>2, <4>3
    <3>2. CASE k <= r.known BY <1>8, <3>2
    <3>3. CASE ~Agrees(r)
      BY <3>3, <1>0, <1>1, <2>2, LateIs DEF Agrees
    <3>4. ~(k >= r.checkpoint) => k < r.checkpoint BY <1>0, <1>1, <1>4
    <3>5. ~(k > r.known) => k <= r.known BY <1>1, <1>4
    <3> QED BY <1>8, <3>1, <3>2, <3>3, <3>4, <3>5
  <2> QED BY <1>8, <2>1, <2>2 DEF u, k
<1>9. CASE /\ k >= r.checkpoint /\ k > r.known /\ Agrees(r)
           /\ u = [stored |-> r.stored, heads |-> r.heads, known |-> k, cascaded |-> r.cascaded,
                   checkpoint |-> r.checkpoint, signal |-> yes, work |-> r.work]
  <2>1. /\ u.stored = r.stored /\ u.heads = r.heads /\ u.known = k /\ u.checkpoint = r.checkpoint
        /\ u.signal = TRUE /\ u.work = r.work
    BY <1>6, <1>9
  <2>2. k > 0 /\ SectionEnd(k - 1) <= NumberOf[head]
    BY <1>1, <1>4, <1>9, <1>5, <1>2
  <2>3. Going(r, head) => Going(u, head)
    <3>1. ASSUME Going(r, head), r.work.active PROVE k > r.stored BY <1>1, <1>4, <1>9, <3>1 DEF Going
    <3> QED BY <2>1, <2>2, <3>1 DEF Going
  <2>4. Waiting(r, trusted) => Late(head, trusted) \/ Told = 0 \/ (Told > 0 /\ r.checkpoint = 0)
    <3> SUFFICES ASSUME Waiting(r, trusted), Told > 0, r.checkpoint = Told PROVE Late(head, trusted) BY <1>0, <1>1
    <3>1. r.known = 0 BY DEF Waiting
    <3>2. CanonicalHash(SectionEnd(Told - 1)) = trusted BY <1>9, <3>1 DEF Agrees
    <3> QED BY <3>2, LateIs
  <2>5. Told = 0 => Late(head, trusted) BY DEF Late, Told
  <2>6. FirstRun(r, head, trusted) => FirstRun(u, head, trusted)
    <3> SUFFICES ASSUME FirstRun(r, head, trusted) PROVE FirstRun(u, head, trusted) OBVIOUS
    <3>1. r.checkpoint = Told /\ r.stored >= Told /\ (r.stored = Told \/ r.stored <= r.known) BY DEF FirstRun, Told
    <3>2. Late(head, trusted) BY <1>0, <2>4, <2>5, <3>1 DEF FirstRun
    <3>3. Going(u, head) BY <2>3, <3>2 DEF FirstRun
    <3>4. k >= Told /\ (r.stored = Told \/ r.stored <= k) BY <1>0, <1>1, <1>4, <1>9, <3>1
    <3> QED BY <2>1, <3>1, <3>2, <3>3, <3>4 DEF FirstRun, Told
  <2>7. ASSUME Told <= 1, Anew(r, head, trusted) PROVE Anew(u, head, trusted)
    <3>1. CASE Late(head, trusted) BY <2>3, <2>7, <3>1 DEF Anew
    <3>2. CASE ~Late(head, trusted) /\ NumberOf[head] < SectionEnd(0)
      BY <2>7, <3>2, <1>4, <1>5, <2>2, <1>2 DEF Anew
    <3> QED BY <3>1, <3>2 DEF Anew
  <2>8. u.stored >= r.stored /\ u.known >= r.known BY <1>1, <1>4, <1>9, <2>1
  <2>9. Keeps(r, u) BY <2>6, <2>7, <2>8 DEF Keeps
  <2>10. k <= u.known BY <1>4, <2>1
  <2> QED BY <2>1, <2>9, <2>10 DEF u, k
<1> QED BY <1>7, <1>8, <1>9

\* verifyLastHead
LEMMA VerifyQuiet == ASSUME IndexerInv, Plain, NEW r, RowSound(r, Told)
  PROVE /\ Keeps(r, VerifyLastHead(r))
        /\ FirstRun(r, head, trusted) \/ (Told <= 1 /\ Anew(r, head, trusted) /\ Late(head, trusted)) => VerifyLastHead(r) = r
<1> DEFINE v == VerifyLastHead(r)
<1>0. Told \in Nat /\ head \in Headers BY ToldIs DEF IndexerInv
<1>1. r \in Rows /\ r.stored \in Nat /\ r.known \in Nat /\ r.checkpoint \in {0, Told} BY DEF RowSound, Rows
<1>2. Going(r, head) => v = r BY <1>0, QuietVerify
<1>3. ASSUME FirstRun(r, head, trusted) PROVE v = r
  <2>1. CASE Late(head, trusted) BY <1>2, <1>3, <2>1 DEF FirstRun
  <2>2. CASE ~Late(head, trusted)
    BY <1>3, <2>2, <1>0, QuietVerify DEF FirstRun, Waiting, Told
  <2> QED BY <2>1, <2>2
<1>4. ASSUME Told <= 1, Anew(r, head, trusted), Late(head, trusted) PROVE v = r BY <1>2, <1>4 DEF Anew
<1>5. ASSUME Told <= 1, Waiting(r, trusted) PROVE Waiting(v, trusted)
  <2>1. PICK k \in 0..r.stored : v = SetValid(r, k) BY <1>0, VerifyKeeps
  <2>2. r.stored \in {0, Told} /\ r.known = 0 /\ ~r.work.active BY <1>5 DEF Waiting, Told
  <2>3. k = 0 \/ k = r.stored BY <1>0, <1>1, <1>5, <2>1, <2>2
  <2>4. CASE k = r.stored
    BY <1>0, <2>1, <2>4, SetValidSame, <1>5
  <2>5. CASE k = 0
    <3> HIDE DEF v
    <3>1. v.stored = 0 /\ v.known = r.known /\ v.work = r.work BY <1>0, <2>1, <2>5, SetValidSound
    <3> QED BY <2>2, <3>1 DEF Waiting
  <2> QED BY <2>3, <2>4, <2>5
<1> HIDE DEF v
<1>6. Keeps(r, v)
  <2>1. FirstRun(r, head, trusted) => FirstRun(v, head, trusted) /\ v.stored >= r.stored /\ v.known >= r.known
    BY <1>1, <1>3
  <2>2. ASSUME Told <= 1, Anew(r, head, trusted)
        PROVE Anew(v, head, trusted) /\ (Late(head, trusted) => v.stored >= r.stored /\ v.known >= r.known)
    <3>1. CASE Late(head, trusted) BY <1>1, <1>4, <2>2, <3>1
    <3>2. CASE ~Late(head, trusted) BY <1>5, <2>2, <3>2 DEF Anew
    <3> QED BY <3>1, <3>2
  <2> QED BY <2>1, <2>2 DEF Keeps
<1> QED BY <1>3, <1>4, <1>6 DEF v

\* A step of the update loop keeps what is known.
LEMMA KeepsIf ==
  ASSUME IndexerInv, NEW r, RowSound(r, Told), NEW u, u.known = r.known, u.checkpoint = r.checkpoint,
         Going(r, head) => Going(u, head) /\ (u.stored = r.stored \/ (u.stored = r.stored + 1 /\ u.stored <= r.known)),
         Waiting(r, trusted) => Waiting(u, trusted) /\ u.stored = r.stored PROVE Keeps(r, u)
<1>0. Told \in Nat BY ToldIs
<1>1. r.stored \in Nat /\ r.known \in Nat BY DEF RowSound, Rows
<1>2. ASSUME Going(r, head) PROVE u.stored \in Nat /\ u.stored >= r.stored /\ u.known >= r.known BY <1>1, <1>2
<1>3. ASSUME FirstRun(r, head, trusted) PROVE FirstRun(u, head, trusted) /\ u.stored >= r.stored /\ u.known >= r.known
  <2>1. r.checkpoint = Told /\ r.stored >= Told /\ (r.known = 0 \/ r.known >= Told) /\ (r.stored = Told \/ r.stored <= r.known)
    BY <1>3 DEF FirstRun, Told
  <2>2. CASE Late(head, trusted)
    BY <1>3, <2>2, <1>0, <1>1, <2>1, <1>2 DEF FirstRun, Told
  <2>3. CASE ~Late(head, trusted)
    BY <1>3, <2>3, <1>1, <2>1 DEF FirstRun, Told
  <2> QED BY <2>2, <2>3
<1>4. ASSUME Anew(r, head, trusted)
      PROVE Anew(u, head, trusted) /\ (Late(head, trusted) => u.stored >= r.stored /\ u.known >= r.known)
  <2>1. CASE Late(head, trusted) BY <1>2, <1>4, <2>1 DEF Anew
  <2>2. CASE ~Late(head, trusted) BY <1>4, <2>2 DEF Anew
  <2> QED BY <2>1, <2>2
<1> QED BY <1>3, <1>4 DEF Keeps

\* What a step has to show that leaves the chain alone.
LEMMA QuietRows ==
  ASSUME IndexerInv, QuietInv, UNCHANGED <<canon, move, head, trusted, disturbed, restarts>>,
         ~disturbed => /\ Keeps(x[1], x[1]') /\ (restarts = 0 => Keeps(x[2], x[2]'))
                       /\ EventsOnChain' /\ HeadTold' /\ ChildTold'
  PROVE QuietInv'
<1>1. Told' = Told BY DEF Told
<1>2. ASSUME ~disturbed, restarts = 0
      PROVE FirstRun(x[1]', head, trusted) /\ FirstRun(x[2]', head, trusted) BY <1>2 DEF QuietInv, Keeps
<1>3. ASSUME ~disturbed, Told <= 1 PROVE Anew(x[1]', head, trusted) BY <1>3 DEF QuietInv, Keeps
<1>4. ~disturbed => Plain' /\ Onward'
  BY DEF Plain, CanonicalHash, HashAt, Onward, QuietInv
<1> QED BY <1>1, <1>2, <1>3, <1>4 DEF QuietInv

\* The promises about rows go on holding.
LEMMA ToldStays ==
  ASSUME IndexerInv, QuietInv, ~disturbed, UNCHANGED <<head, trusted, restarts, loop>>, attached' => attached,
         RowsSound(x', Told), Keeps(x[1], x[1]'), restarts = 0 => Keeps(x[2], x[2]')
  PROVE /\ HeadTold'
        /\ x[1].stored' <= x[1].stored => ChildTold'
<1>0. 1 \in Indexers /\ 2 \in Indexers BY DEF Indexers
<1>1. RowSound(x[1], Told) /\ RowSound(x[2], Told) /\ RowSound(x[1]', Told) /\ RowSound(x[2]', Told)
  BY <1>0, ToldIs DEF RowsSound
<1>2. /\ x[1].stored \in Nat /\ x[1].known \in Nat /\ x[2].stored \in Nat /\ x[2].known \in Nat
      /\ x[1].stored' \in Nat /\ x[1].known' \in Nat /\ x[2].stored' \in Nat /\ x[2].known' \in Nat
  BY <1>1 DEF RowSound, Rows
<1>3. Told' = Told BY DEF Told
<1>4. ASSUME Late(head, trusted), restarts = 0 \/ Told <= 1 PROVE x[1].stored' >= x[1].stored /\ x[1].known' >= x[1].known
  BY <1>4 DEF QuietInv, Keeps
<1>5. ASSUME restarts = 0 PROVE x[2].stored' >= x[2].stored /\ x[2].known' >= x[2].known BY <1>5 DEF QuietInv, Keeps
<1>6. HeadTold'
  <2> SUFFICES ASSUME loop.next = NoHash, Late(head, trusted), restarts = 0 \/ Told <= 1
               PROVE Reached(1, NumberOf[loop.prev]) <= x[1].stored' \/ Reached(1, NumberOf[loop.prev]) <= x[1].known'
    BY <1>3 DEF HeadTold
  <2> DEFINE k == Reached(1, NumberOf[loop.prev])
  <2>1. k <= x[1].stored \/ k <= x[1].known BY DEF QuietInv, HeadTold
  <2>2. k \in Nat
    BY NumbersBounded, <1>0, ReachedBound DEF IndexerInv
  <2> HIDE DEF k
  <2>3. k <= x[1].stored' \/ k <= x[1].known' BY <1>2, <1>4, <2>1, <2>2
  <2> QED BY <2>3 DEF k
<1>7. ASSUME x[1].stored' <= x[1].stored PROVE ChildTold'
  <2> SUFFICES ASSUME attached', restarts = 0 PROVE x[1].stored' <= x[2].stored' \/ x[1].stored' <= x[2].known'
    BY DEF ChildTold
  <2>1. x[1].stored <= x[2].stored \/ x[1].stored <= x[2].known BY DEF QuietInv, ChildTold
  <2> QED BY <1>2, <1>5, <1>7, <2>1
<1> QED BY <1>6, <1>7

\* A step of the update loop that tells the child nothing.
LEMMA QuietRow ==
  ASSUME IndexerInv, QuietInv, UNCHANGED <<canon, move, head, events, loop, attached, trusted, disturbed, restarts>>,
         RowsSound(x', Told), NEW i \in Indexers, NEW u, x' = [x EXCEPT ![i] = u],
         ~disturbed => Keeps(x[i], u) /\ (i = 1 /\ restarts = 0 => u.stored = x[1].stored) PROVE QuietInv'
<1>0. 1 \in Indexers /\ 2 \in Indexers /\ (i = 1 \/ i = 2) /\ x \in [Indexers -> Rows] BY DEF Indexers, IndexerInv
<1>1. RowSound(x[1], Told) /\ RowSound(x[2], Told) /\ Told \in Nat BY <1>0, ToldIs DEF RowsSound
<1>2. x[1]' = (IF i = 1 THEN u ELSE x[1]) /\ x[2]' = (IF i = 2 THEN u ELSE x[2]) BY <1>0
<1> SUFFICES ASSUME ~disturbed PROVE Keeps(x[1], x[1]') /\ Keeps(x[2], x[2]') /\ EventsOnChain' /\ HeadTold' /\ ChildTold'
  BY QuietRows
<1>3. Keeps(x[1], x[1]') /\ Keeps(x[2], x[2]') BY <1>0, <1>1, <1>2, SameKeeps
<1>4. EventsOnChain' BY DEF QuietInv, EventsOnChain
<1>5. HeadTold' BY <1>3, ToldStays
<1>6. restarts = 0 => x[1].stored' <= x[1].stored
  BY <1>1, <1>0, <1>2 DEF RowSound, Rows
<1>7. ChildTold'
  <2>1. CASE restarts = 0 BY <1>3, <1>6, <2>1, ToldStays
  <2>2. CASE restarts # 0 BY <2>2 DEF ChildTold
  <2> QED BY <2>1, <2>2
<1> QED BY <1>3, <1>4, <1>5, <1>7

LEMMA SectionsQuiet == ASSUME NEW i \in Indexers, IndexerInv, QuietInv, Sections(i) PROVE QuietInv'
<1>1. RowSound(x[i], Told) BY ToldIs DEF RowsSound
<1> DEFINE u == VerifyLastHead(x[i])
<1>2. x' = [x EXCEPT ![i] = u] /\ UNCHANGED <<canon, move, head, events, loop, attached, trusted, disturbed, restarts>>
  BY DEF Sections, indexChain, indexBounds
<1>3. RowsSound(x', Told) BY SectionsRows
<1>4. Plain => Keeps(x[i], u) /\ (FirstRun(x[i], head, trusted) => u = x[i]) BY <1>1, VerifyQuiet
<1>5. ~disturbed => Keeps(x[i], u) /\ (i = 1 /\ restarts = 0 => u.stored = x[1].stored) BY <1>4 DEF QuietInv
<1> HIDE DEF u
<1> QED BY <1>2, <1>3, <1>5, QuietRow

LEMMA TakeUpdateQuiet == ASSUME NEW i \in Indexers, IndexerInv, QuietInv, TakeUpdate(i) PROVE QuietInv'
<1>1. RowSound(x[i], Told) /\ Told \in Nat /\ head \in Headers BY ToldIs DEF RowsSound, IndexerInv
<1> DEFINE r == x[i]
<1>2. r \in Rows /\ r.stored \in Nat /\ r.known \in Nat BY <1>1 DEF RowSound, Rows
<1>3. RowsSound(x', Told) BY TakeUpdateRows
<1>4. UNCHANGED <<canon, move, head, events, loop, attached, trusted, disturbed, restarts>>
  BY DEF TakeUpdate, indexChain, indexBounds
<1>5. CASE r.known <= r.stored
  <2> DEFINE no == FALSE
             u == [stored |-> r.stored, heads |-> r.heads, known |-> r.known, cascaded |-> r.cascaded,
                   checkpoint |-> r.checkpoint, signal |-> no, work |-> r.work]
  <2>1. x' = [x EXCEPT ![i] = u] BY <1>5, TakeUpdateIs
  <2>2. u.stored = r.stored /\ u.heads = r.heads /\ u.known = r.known /\ u.checkpoint = r.checkpoint /\ u.work = r.work
    OBVIOUS
  <2> HIDE DEF u, r
  <2>3. ~(r.known > r.stored) BY <1>2, <1>5
  <2>4. Going(r, head) => Going(u, head) BY <2>2, <2>3 DEF Going
  <2>5. Waiting(r, trusted) => Waiting(u, trusted) BY <2>2 DEF Waiting
  <2>s. RowSound(r, Told) BY <1>1 DEF r
  <2>t. Going(r, head) => Going(u, head) /\ (u.stored = r.stored \/ (u.stored = r.stored + 1 /\ u.stored <= r.known))
    BY <2>2, <2>4
  <2>w. Waiting(r, trusted) => Waiting(u, trusted) /\ u.stored = r.stored BY <2>2, <2>5
  <2>6. Keeps(r, u) BY <2>s, <2>t, <2>w, <2>2, KeepsIf
  <2> QED BY <1>3, <1>4, <2>1, <2>2, <2>6, QuietRow DEF r
<1>6. CASE r.known > r.stored
  <2> DEFINE u == Taken(r)
  <2>1. x' = [x EXCEPT ![i] = u]
    BY <1>2, <1>6, TakeUpdateIs
  <2>2. ~Waiting(r, trusted) BY <1>2, <1>6 DEF Waiting
  <2>3. Plain /\ Going(r, head) => /\ Going(u, head) /\ u.stored = r.stored /\ u.known = r.known
                                   /\ u.checkpoint = r.checkpoint
    BY <1>1, <1>6, GoingTaken
  <2>4. u.known = r.known /\ u.checkpoint = r.checkpoint
    <3> DEFINE v == VerifyLastHead(r)
    <3>1. v.known = r.known /\ v.checkpoint = r.checkpoint BY <1>1, VerifySound
    <3>2. Taken(r).known = v.known /\ Taken(r).checkpoint = v.checkpoint BY <1>1, <1>6, TakenSound
    <3> QED BY <3>1, <3>2
  <2> HIDE DEF u, r
  <2>s. RowSound(r, Told) BY <1>1 DEF r
  <2>5. ASSUME Plain PROVE Keeps(r, u) /\ (FirstRun(r, head, trusted) => u.stored = r.stored)
    BY <2>3, <2>5, <2>2, <2>s, <2>4, KeepsIf DEF FirstRun
  <2>7. ~disturbed => Keeps(r, u) /\ (i = 1 /\ restarts = 0 => u.stored = x[1].stored) BY <2>5 DEF QuietInv, r
  <2> QED BY <1>3, <1>4, <2>1, <2>7, QuietRow DEF r
<1>7. r.known <= r.stored \/ r.known > r.stored
  <2> HIDE DEF r
  <2> QED BY <1>2
<1> QED BY <1>5, <1>6, <1>7

LEMMA ProcessQuiet == ASSUME NEW i \in Indexers, IndexerInv, QuietInv, ProcessHeader(i) PROVE QuietInv'
<1>1. RowSound(x[i], Told) /\ Told \in Nat /\ head \in Headers BY ToldIs DEF RowsSound, IndexerInv
<1> DEFINE r == x[i]
           u == Processed(r)
<1>2. x' = [x EXCEPT ![i] = u] BY ProcessIs
<1>3. RowsSound(x', Told) BY ProcessRows
<1>4. UNCHANGED <<canon, move, head, events, loop, attached, trusted, disturbed, restarts>>
  BY DEF ProcessHeader, indexChain, indexBounds
<1>5. r.work.active /\ r.work.next <= SectionEnd(r.work.section) BY DEF ProcessHeader
<1>6. ~Waiting(r, trusted) BY <1>5 DEF Waiting
<1>7. Plain /\ Going(r, head) => /\ Going(u, head) /\ u.stored = r.stored /\ u.known = r.known
                                 /\ u.checkpoint = r.checkpoint
  BY <1>1, <1>5, GoingProcessed DEF IndexerInv
<1> HIDE DEF u, r
<1>8. ~disturbed /\ restarts = 0 => FirstRun(r, head, trusted) BY DEF QuietInv, r, Indexers
<1>9. FirstRun(r, head, trusted) => Going(r, head) BY <1>6 DEF FirstRun
<1>10. ASSUME Plain PROVE Keeps(r, u)
  <2>1. CASE Going(r, head)
    BY <1>7, <1>10, <2>1, <1>1, <1>6, KeepsIf DEF r
  <2>2. CASE ~Going(r, head)
    BY <1>9, <2>2, <1>6 DEF Anew, Keeps
  <2> QED BY <2>1, <2>2
<1>p. ~disturbed => Plain BY DEF QuietInv
<1>11. ~disturbed => Keeps(r, u) /\ (i = 1 /\ restarts = 0 => u.stored = x[1].stored)
  BY <1>7, <1>8, <1>9, <1>10, <1>p DEF r
<1> QED BY <1>2, <1>3, <1>4, <1>11, QuietRow DEF r

\* An announced header is on the chain: newHead of it rolls nothing back.
LEMMA TakeEventQuiet == ASSUME IndexerInv, QuietInv, TakeEvent PROVE QuietInv'
<1>0. RowsSound(x, Told) /\ Told \in Nat /\ head \in Headers /\ loop.prev \in Headers /\ events \in Seq(Headers)
      /\ 1 \in Indexers /\ 2 \in Indexers
  BY ToldIs DEF RowsSound, IndexerInv, Indexers
<1>1. RowSound(x[1], Told) /\ RowSound(x[2], Told) BY <1>0 DEF RowsSound
<1> DEFINE b == Head(events)
           h == CommonAncestor(loop.prev, b)
           left == ParentHash(b) # loop.prev /\ CanonicalHash(NumberOf[loop.prev]) # loop.prev
<1>2. /\ loop.next = NoHash /\ events # <<>>
      /\ x' = (IF left /\ h # NoHash THEN Rollback(x, NumberOf[h]) ELSE x)
      /\ loop' = [prev |-> b, next |-> b] /\ events' = Tail(events)
      /\ UNCHANGED <<canon, move, head, attached, trusted, disturbed, restarts>>
  BY DEF TakeEvent, indexChain, indexBounds
<1> SUFFICES ASSUME ~disturbed PROVE Keeps(x[1], x[1]') /\ Keeps(x[2], x[2]') /\ EventsOnChain' /\ HeadTold' /\ ChildTold'
  BY <1>2, QuietRows
<1>3. EventsOnChain /\ Plain BY DEF QuietInv
<1>4. x' = x
  <2>1. loop.prev \in Ancestry[head] /\ NumberOf[loop.prev] \in Nat BY <1>0, <1>3, Ancestors DEF EventsOnChain
  <2>2. CanonicalHash(NumberOf[loop.prev]) = loop.prev BY <1>0, <1>3, <2>1, CanonicalIs
  <2>3. ~left BY <2>2
  <2> HIDE DEF left, h
  <2> QED BY <1>2, <2>3
<1>5. Keeps(x[1], x[1]') /\ Keeps(x[2], x[2]')
  BY <1>0, <1>1, SameKeeps, <1>4
<1>6. b = events[1] /\ Len(events) \in Nat /\ Len(events) > 0 /\ Len(events') = Len(events) - 1
      /\ \A k \in 1..Len(events') : events'[k] = events[k + 1]
  BY <1>0, <1>2
<1>7. b \in Ancestry[head] /\ b \in Headers /\ b # NoHash
  <2>1. 1 \in 1..Len(events) BY <1>6
  <2>2. events[1] \in Ancestry[head] BY <1>3, <2>1 DEF EventsOnChain
  <2> HIDE DEF b
  <2> QED BY <1>0, <1>6, <2>2, Ancestors
<1>8. EventsOnChain'
  <2> HIDE DEF b
  <2>1. loop'.prev = b /\ loop'.next = b BY <1>2
  <2>2. \A k \in 1..Len(events') : events'[k] \in Ancestry[head]
    <3> SUFFICES ASSUME NEW k \in 1..Len(events') PROVE events[k + 1] \in Ancestry[head] BY <1>6
    <3>1. k + 1 \in 1..Len(events) BY <1>6
    <3> QED BY <1>3, <3>1 DEF EventsOnChain
  <2>3. move.way = "still" /\ Len(events') = 0 => b = head
    <3> SUFFICES ASSUME move.way = "still", Len(events') = 0 PROVE b = head OBVIOUS
    <3>1. Len(events) = 1 BY <1>6
    <3> QED BY <1>3, <1>6, <3>1 DEF EventsOnChain
  <2>4. move.way = "still" /\ Len(events') > 0 => events'[Len(events')] = head
    <3> SUFFICES ASSUME move.way = "still", Len(events') > 0 PROVE events'[Len(events')] = head OBVIOUS
    <3>1. Len(events') \in 1..Len(events') /\ Len(events') + 1 = Len(events) BY <1>6
    <3>2. events'[Len(events')] = events[Len(events') + 1] BY <1>6, <3>1
    <3> QED BY <1>3, <1>6, <3>1, <3>2 DEF EventsOnChain
  <2> QED BY <1>2, <1>7, <2>1, <2>2, <2>3, <2>4 DEF EventsOnChain
<1>9. HeadTold'
  <2> HIDE DEF b
  <2>1. loop'.next # NoHash BY <1>2, <1>7
  <2> QED BY <2>1 DEF HeadTold
<1>10. ChildTold' BY <1>2, <1>4 DEF QuietInv, ChildTold
<1> QED BY <1>5, <1>8, <1>9, <1>10

LEMMA AnnounceQuiet == ASSUME IndexerInv, QuietInv, AnnounceHead PROVE QuietInv'
<1>0. RowsSound(x, Told) /\ Told \in Nat /\ head \in Headers /\ loop \in [prev : Headers, next : Hashes]
      /\ 1 \in Indexers /\ 2 \in Indexers /\ x \in [Indexers -> Rows]
  BY ToldIs DEF RowsSound, IndexerInv, Indexers
<1>1. RowSound(x[1], Told) /\ RowSound(x[2], Told) BY <1>0 DEF RowsSound
<1> DEFINE r == x[1]
           u == Advanced(1, r, NumberOf[loop.next])
<1>2. /\ loop.next # NoHash /\ x' = [x EXCEPT ![1] = u] /\ loop' = [loop EXCEPT !.next = NoHash]
      /\ UNCHANGED <<canon, move, head, events, attached, trusted, disturbed, restarts>>
  BY DEF AnnounceHead, indexChain, indexBounds
<1> SUFFICES ASSUME ~disturbed PROVE Keeps(x[1], x[1]') /\ Keeps(x[2], x[2]') /\ EventsOnChain' /\ HeadTold' /\ ChildTold'
  BY <1>2, QuietRows
<1>3. EventsOnChain /\ Plain BY DEF QuietInv
<1>4. loop.next = loop.prev /\ loop.prev \in Ancestry[head] BY <1>2, <1>3 DEF EventsOnChain
<1> DEFINE n == NumberOf[loop.prev]
<1>5. n \in Nat /\ n <= NumberOf[head] BY <1>0, <1>4, Ancestors
<1>6. u = Advanced(1, r, n) BY <1>4
<1> HIDE DEF u, n
<1>7. /\ Keeps(r, u) /\ u.stored = r.stored
      /\ Late(head, trusted) /\ (FirstRun(r, head, trusted) \/ (Told <= 1 /\ Anew(r, head, trusted))) =>
           Reached(1, n) <= r.stored \/ Reached(1, n) <= u.known BY <1>0, <1>1, <1>3, <1>5, <1>6, AdvancedQuiet
<1> HIDE DEF r
<1>8. x[1]' = u /\ x[2]' = x[2] BY <1>0, <1>2 DEF Indexers
<1>9. Keeps(x[1], x[1]') /\ Keeps(x[2], x[2]') BY <1>0, <1>1, <1>7, <1>8, SameKeeps DEF r
<1>10. loop'.prev = loop.prev /\ loop'.next = NoHash BY <1>0, <1>2
<1>11. EventsOnChain' BY <1>2, <1>3, <1>10 DEF EventsOnChain
<1>12. HeadTold'
  <2>1. Told' = Told BY <1>2 DEF Told
  <2>2. restarts = 0 => FirstRun(r, head, trusted) BY DEF QuietInv, r
  <2>3. Told <= 1 => Anew(r, head, trusted) BY DEF QuietInv, r
  <2> SUFFICES ASSUME Late(head, trusted), restarts = 0 \/ Told <= 1
               PROVE Reached(1, n) <= x[1].stored' \/ Reached(1, n) <= x[1].known' BY <1>2, <1>10, <2>1 DEF HeadTold, n
  <2>4. Reached(1, n) <= r.stored \/ Reached(1, n) <= u.known BY <1>7, <2>2, <2>3
  <2> QED BY <1>7, <1>8, <2>4
<1>13. ChildTold' BY <1>2, <1>7, <1>8 DEF QuietInv, ChildTold, r
<1> QED BY <1>9, <1>11, <1>12, <1>13

\* The end of a section makes the sections up to it known to a child.
LEMMA ReachedEnd == ASSUME NEW s \in Nat PROVE Reached(2, SectionEnd(s)) = s + 1
<1> DEFINE p == (s + 1) * SectionSize
           e == SectionEnd(s)
<1>1. Confirms[2] = 0 /\ p \in Nat /\ e \in Nat /\ e = p - 1
  BY SectionStarts, IndexerAssumption DEF SectionEnd
<1>2. e + 1 - 0 = p /\ ~(e < 0)
  <2> HIDE DEF p, e
  <2> QED BY <1>1
<1>3. Reached(2, e) = p \div SectionSize
  <2> HIDE DEF p, e
  <2> QED BY <1>1, <1>2 DEF Reached
<1> DEFINE q == p \div SectionSize
<1>4. q \in Nat /\ \A t \in Nat : t <= q <=> t * SectionSize <= p
  <2> HIDE DEF p
  <2> QED BY <1>1, Quotients
<1>5. s + 1 <= q
  <2>1. s + 1 \in Nat /\ (s + 1) * SectionSize <= p BY <1>1
  <2> HIDE DEF p, q
  <2> QED BY <1>4, <2>1
<1>6. ~(s + 2 <= q)
  <2>1. s + 1 \in Nat /\ s + 2 \in Nat /\ s + 1 < s + 2 OBVIOUS
  <2>2. (s + 1) * SectionSize < (s + 2) * SectionSize
    <3> DEFINE a == s + 1
               b == s + 2
    <3>1. a \in Nat /\ b \in Nat /\ a < b BY <2>1
    <3> HIDE DEF a, b
    <3>2. a * SectionSize < b * SectionSize BY <3>1, SectionStarts
    <3> QED BY <3>2 DEF a, b
  <2>3. (s + 2) * SectionSize \in Nat
    <3> DEFINE b == s + 2
    <3>1. b \in Nat OBVIOUS
    <3> HIDE DEF b
    <3>2. b * SectionSize \in Nat BY <3>1, SectionStarts
    <3> QED BY <3>2 DEF b
  <2> DEFINE z == (s + 2) * SectionSize
  <2>4. z \in Nat /\ p < z /\ (s + 2 <= q <=> z <= p) BY <1>4, <2>1, <2>2, <2>3
  <2> HIDE DEF p, q, z
  <2> QED BY <1>1, <2>4
<1> HIDE DEF p, q, e
<1>7. q = s + 1 BY <1>4, <1>5, <1>6
<1> QED BY <1>3, <1>7 DEF e, q

\* The child hears of a section its parent has.
LEMMA CascadeQuiet ==
  ASSUME IndexerInv, Plain, NEW r, RowSound(r, Told), NEW s \in Nat, SectionEnd(s) <= NumberOf[head], SectionEnd(s) \in Nat,
         FirstRun(r, head, trusted), Late(head, trusted)
  PROVE LET u == Advanced(2, r, SectionEnd(s)) IN s + 1 <= u.stored \/ s + 1 <= u.known
<1> DEFINE e == SectionEnd(s)
<1>0. 2 \in Indexers BY DEF Indexers
<1>1. Reached(2, e) = s + 1 BY ReachedEnd
<1> HIDE DEF e
<1>2. e \in Nat /\ e <= NumberOf[head] BY DEF e
<1>3. /\ Advanced(2, r, e).stored = r.stored
      /\ Reached(2, e) <= r.stored \/ Reached(2, e) <= Advanced(2, r, e).known
  BY <1>0, <1>2, AdvancedQuiet
<1> QED BY <1>1, <1>3 DEF e

LEMMA CompleteQuiet == ASSUME NEW i \in Indexers, IndexerInv, QuietInv, CompleteSection(i) PROVE QuietInv'
<1>0. RowsSound(x, Told) /\ Told \in Nat /\ head \in Headers /\ x \in [Indexers -> Rows]
      /\ 1 \in Indexers /\ 2 \in Indexers /\ (i = 1 \/ i = 2)
  BY ToldIs DEF RowsSound, IndexerInv, Indexers
<1>1. RowSound(x[i], Told) /\ RowSound(x[1], Told) /\ RowSound(x[2], Told) BY <1>0 DEF RowsSound
<1> DEFINE r == x[i]
           d == Done(r)
           g == GivenUp(r)
           s == r.work.section
           e == SectionEnd(s)
           y == [x EXCEPT ![i] = d]
           c == Advanced(2, y[2], e)
<1>2. /\ Unmoved(r) => x' = Cascade(y, i, e)
      /\ ~Unmoved(r) => x' = [x EXCEPT ![i] = g]
      /\ UNCHANGED <<canon, move, head, events, loop, attached, trusted, disturbed, restarts>>
  BY CompleteIs DEF CompleteSection, indexChain, indexBounds
<1>3. r.work.active /\ r.work.next > SectionEnd(r.work.section) BY DEF CompleteSection
<1>4. RowsSound(x', Told) BY CompleteRows
<1>5. ~Waiting(r, trusted) BY <1>3 DEF Waiting
<1>6. Going(r, head) => /\ Unmoved(r) /\ Going(d, head) /\ d.stored = r.stored + 1 /\ d.known = r.known
                        /\ r.stored + 1 <= r.known /\ d.checkpoint = r.checkpoint /\ s = r.stored
  BY <1>0, <1>1, <1>3, GoingDone
<1>7. r.stored \in Nat /\ r.known \in Nat BY <1>1 DEF RowSound, Rows
<1>8. Going(r, head) => SectionEnd(r.known - 1) <= NumberOf[head] BY <1>6, <1>7 DEF Going
<1>s. RowSound(r, Told) BY <1>1
<1> HIDE DEF d, g, s
<1>9. ASSUME Going(r, head) PROVE Keeps(r, d)
  <2> HIDE DEF r
  <2>1. Going(r, head) => Going(d, head) /\ (d.stored = r.stored \/ (d.stored = r.stored + 1 /\ d.stored <= r.known))
    BY <1>6
  <2>2. Waiting(r, trusted) => Waiting(d, trusted) /\ d.stored = r.stored BY <1>5
  <2>3. d.known = r.known /\ d.checkpoint = r.checkpoint BY <1>6, <1>9
  <2> QED BY <1>s, <2>1, <2>2, <2>3, KeepsIf
<1>10. ASSUME Going(r, head) PROVE e \in Nat /\ e <= NumberOf[head] /\ s \in Nat
  <2> DEFINE k == r.known - 1
  <2>1. s \in Nat /\ s <= k /\ k \in Nat BY <1>6, <1>7, <1>10
  <2>2. SectionEnd(k) <= NumberOf[head] BY <1>8, <1>10
  <2> HIDE DEF k
  <2>3. SectionEnd(s) \in Nat /\ SectionEnd(k) \in Nat /\ NumberOf[head] \in Nat BY <1>0, <2>1, SectionStarts, Ancestors
  <2>4. s < k => SectionEnd(s) < SectionEnd(k) BY <2>1, SectionStarts
  <2> QED BY <2>1, <2>2, <2>3, <2>4
<1> HIDE DEF e, c
<1>11. Unmoved(r) => x' = (IF i = 1 /\ attached THEN [y EXCEPT ![2] = c] ELSE y) BY <1>2 DEF Cascade, c
<1>12. y[i] = d /\ (i # 1 => y[1] = x[1]) /\ (i # 2 => y[2] = x[2]) BY <1>0
<1>13. x[i]' = (IF Unmoved(r) THEN d ELSE g) /\ (i # 1 => x[1]' = x[1])
  <2>1. CASE ~Unmoved(r) BY <1>0, <1>2, <2>1
  <2>2. CASE Unmoved(r) /\ i = 1 /\ attached
    BY <1>11, <2>2, <1>0, <1>12
  <2>3. CASE Unmoved(r) /\ ~(i = 1 /\ attached) BY <1>11, <1>12, <2>3
  <2> QED BY <2>1, <2>2, <2>3
<1> SUFFICES ASSUME ~disturbed
             PROVE /\ Keeps(x[1], x[1]') /\ (restarts = 0 => Keeps(x[2], x[2]'))
                   /\ EventsOnChain' /\ HeadTold' /\ ChildTold'
  BY <1>2, QuietRows
<1>14. EventsOnChain' BY <1>2 DEF QuietInv, EventsOnChain
<1>15. Keeps(x[1], x[1]')
  <2>1. CASE i = 2 BY <1>0, <1>1, <1>13, <2>1, SameKeeps
  <2>2. CASE i = 1 /\ Going(r, head) BY <1>6, <1>9, <1>13, <2>2
  <2>3. CASE i = 1 /\ ~Going(r, head)
    BY <1>5, <2>3 DEF FirstRun, Anew, Keeps
  <2> QED BY <1>0, <2>1, <2>2, <2>3
<1>16. CASE restarts # 0
  BY <1>2, <1>16, <1>4, <1>15, ToldStays, <1>14 DEF ChildTold
<1>17. CASE restarts = 0
  <2>1. FirstRun(x[1], head, trusted) /\ FirstRun(x[2], head, trusted) BY <1>17 DEF QuietInv
  <2>2. Going(r, head) /\ Late(head, trusted) BY <1>0, <1>5, <2>1 DEF FirstRun
  <2>3. CASE ~(i = 1 /\ attached)
    <3>1. x' = y BY <1>6, <1>11, <2>2, <2>3
    <3>2. Keeps(x[2], x[2]')
      <4>1. CASE i = 2 BY <1>9, <1>12, <2>2, <3>1, <4>1
      <4>2. CASE i = 1 BY <1>0, <1>1, <1>12, <3>1, <4>2, SameKeeps
      <4> QED BY <1>0, <4>1, <4>2
    <3>3. HeadTold' BY <1>2, <1>4, <1>15, <3>2, ToldStays
    <3>4. ChildTold'
      <4>1. CASE ~attached BY <1>2, <4>1 DEF ChildTold
      <4>2. CASE i = 2
        <5>1. x[1].stored \in Nat BY <1>1 DEF RowSound, Rows
        <5>2. x[1].stored' <= x[1].stored BY <1>12, <3>1, <4>2, <5>1
        <5> QED BY <1>2, <1>4, <1>15, <3>2, <5>2, ToldStays
      <4> QED BY <1>0, <2>3, <4>1, <4>2
    <3> QED BY <1>14, <1>15, <3>2, <3>3, <3>4
  <2>4. CASE i = 1 /\ attached
    <3>1. y[2] = x[2] BY <1>12, <2>4
    <3>2. Keeps(x[2], c) /\ (s + 1 <= c.stored \/ s + 1 <= c.known)
      <4>1. c = Advanced(2, x[2], e) BY <3>1 DEF c
      <4>2. e \in Nat /\ e <= NumberOf[head] /\ s \in Nat BY <1>10, <2>2
      <4>p. Plain BY DEF QuietInv
      <4>3. Keeps(x[2], c) BY <1>0, <1>1, <4>p, <4>1, <4>2, AdvancedQuiet
      <4>4. s + 1 <= c.stored \/ s + 1 <= c.known BY <1>1, <2>1, <2>2, <4>p, <4>1, <4>2, CascadeQuiet DEF e
      <4> QED BY <4>3, <4>4
    <3>3. x[1]' = d /\ x[2]' = c
      BY <1>6, <1>11, <2>2, <2>4, <1>0, <1>12
    <3>4. Keeps(x[2], x[2]') BY <3>2, <3>3
    <3>5. HeadTold' BY <1>2, <1>4, <1>15, <3>4, ToldStays
    <3>6. d.stored = s + 1 BY <1>6, <2>2
    <3>7. ChildTold' BY <3>2, <3>3, <3>6 DEF ChildTold
    <3> QED BY <1>14, <1>15, <3>4, <3>5, <3>7
  <2> QED BY <2>3, <2>4
<1> QED BY <1>16, <1>17

LEMMA AddChildQuiet == ASSUME IndexerInv, QuietInv, AddChildIndexer PROVE QuietInv'
<1>0. RowsSound(x, Told) /\ Told \in Nat /\ head \in Headers /\ x \in [Indexers -> Rows]
      /\ 1 \in Indexers /\ 2 \in Indexers
  BY ToldIs DEF RowsSound, IndexerInv, Indexers
<1>1. RowSound(x[1], Told) /\ RowSound(x[2], Told) BY <1>0 DEF RowsSound
<1> DEFINE r == x[1]
           n == IF r.known < r.stored THEN r.known ELSE r.stored
           e == SectionEnd(n - 1)
           c == Advanced(2, x[2], e)
<1>2. /\ x' = (IF n = 0 THEN x ELSE [x EXCEPT ![2] = c])
      /\ UNCHANGED <<canon, move, head, events, loop, trusted, disturbed, restarts>>
  BY DEF AddChildIndexer, indexChain, indexBounds
<1>3. r.stored \in Nat /\ r.known \in Nat /\ x[2].stored \in Nat BY <1>1 DEF RowSound, Rows
<1> HIDE DEF r
<1>4. n \in Nat /\ (n = r.known \/ n = r.stored) /\ n <= r.known /\ n <= r.stored BY <1>3
<1> HIDE DEF n, e, c
<1>5. x'[1] = x[1] BY <1>0, <1>2
<1>6. x'[2] = IF n = 0 THEN x[2] ELSE c BY <1>0, <1>2
<1> SUFFICES ASSUME ~disturbed
             PROVE /\ Keeps(x[1], x[1]') /\ (restarts = 0 => Keeps(x[2], x[2]'))
                   /\ EventsOnChain' /\ HeadTold' /\ ChildTold'
  BY <1>2, QuietRows
<1>p. Plain BY DEF QuietInv
<1>7. EventsOnChain' BY <1>2 DEF QuietInv, EventsOnChain
<1>8. Keeps(x[1], x[1]') BY <1>0, <1>1, <1>5, SameKeeps
<1>9. HeadTold'
  BY <1>2, <1>5 DEF Told, HeadTold, QuietInv
<1>10. CASE restarts # 0
  BY <1>2, <1>10, <1>7, <1>8, <1>9 DEF ChildTold
<1>11. CASE restarts = 0
  <2>1. FirstRun(r, head, trusted) /\ FirstRun(x[2], head, trusted) BY <1>11 DEF QuietInv, r
  <2>2. x[2].stored >= Told /\ (r.stored = Told \/ r.stored <= r.known) BY <2>1 DEF FirstRun, Told
  <2>3. CASE n = 0
    <3>1. r.stored = Told \/ r.stored = 0 BY <1>3, <1>4, <2>2, <2>3
    <3>2. r.stored <= x[2].stored BY <1>0, <1>3, <2>2, <3>1
    <3>3. x'[2] = x[2] BY <1>6, <2>3
    <3>4. ChildTold' BY <1>5, <3>2, <3>3 DEF ChildTold, r
    <3>5. Keeps(x[2], x[2]') BY <1>0, <1>1, <3>3, SameKeeps
    <3> QED BY <1>7, <1>8, <1>9, <3>4, <3>5
  <2>4. CASE n # 0
    <3> DEFINE s == n - 1
    <3>1. s \in Nat /\ s + 1 = n /\ s <= r.known - 1 /\ r.known - 1 \in Nat /\ r.known > 0 BY <1>3, <1>4, <2>4
    <3>2. Late(head, trusted) /\ Going(r, head) BY <2>1, <3>1 DEF FirstRun, Waiting
    <3>3. SectionEnd(r.known - 1) <= NumberOf[head] BY <3>1, <3>2 DEF Going
    <3>e. e = SectionEnd(s) BY DEF e
    <3> HIDE DEF s
    <3>4. SectionEnd(s) \in Nat /\ SectionEnd(s) <= NumberOf[head]
      <4> DEFINE k == r.known - 1
      <4>1. k \in Nat /\ s <= k /\ SectionEnd(k) <= NumberOf[head] BY <3>1, <3>3
      <4> HIDE DEF k
      <4>2. SectionEnd(s) \in Nat /\ SectionEnd(k) \in Nat /\ NumberOf[head] \in Nat
        BY <1>0, <3>1, <4>1, SectionStarts, Ancestors
      <4>3. s < k => SectionEnd(s) < SectionEnd(k) BY <3>1, <4>1, SectionStarts
      <4> QED BY <3>1, <4>1, <4>2, <4>3
    <3>5. c = Advanced(2, x[2], SectionEnd(s)) BY <3>e DEF c
    <3>6. Keeps(x[2], c) /\ c.stored = x[2].stored
      <4> DEFINE a == SectionEnd(s)
      <4>1. a \in Nat /\ a <= NumberOf[head] /\ c = Advanced(2, x[2], a) BY <3>4, <3>5
      <4> HIDE DEF a
      <4> QED BY <1>0, <1>1, <1>p, <4>1, AdvancedQuiet
    <3>7. n <= c.stored \/ n <= c.known
      <4>1. s + 1 <= c.stored \/ s + 1 <= c.known BY <1>1, <1>p, <2>1, <3>1, <3>2, <3>4, <3>5, CascadeQuiet
      <4> QED BY <3>1, <4>1
    <3>8. x'[2] = c BY <1>6, <2>4
    <3>9. r.stored <= c.stored \/ r.stored <= c.known
      <4>1. CASE r.stored <= r.known
        BY <1>3, <4>1, <3>7 DEF n
      <4>2. CASE r.stored = Told BY <1>0, <2>2, <3>6, <4>2
      <4> QED BY <2>2, <4>1, <4>2
    <3>10. ChildTold' BY <1>5, <3>8, <3>9 DEF ChildTold, r
    <3> QED BY <1>7, <1>8, <1>9, <3>6, <3>8, <3>10
  <2> QED BY <2>3, <2>4
<1> QED BY <1>10, <1>11

\* A head is to be reached that is above the last one.
LEMMA MoveQuiet == ASSUME NEW b \in Headers, IndexerInv, QuietInv, MoveHead(b) PROVE QuietInv'
<1>1. PICK way \in {"grow", "reorg"} :
        /\ way = "reorg" => head \notin Ancestry[b] \/ Leftover
        /\ move' = [way |-> way, to |-> b]
  BY DEF MoveHead
<1>2. disturbed' = (disturbed \/ head \notin Ancestry[b]) /\ UNCHANGED <<x, canon, head, events, loop, attached, trusted, restarts>>
  BY DEF MoveHead
<1>3. Told' = Told BY <1>2 DEF Told
<1>4. restarts' \in Nat BY <1>2 DEF QuietInv
<1> SUFFICES ASSUME ~disturbed, head \in Ancestry[b]
             PROVE /\ Plain' /\ Onward' /\ EventsOnChain' /\ HeadTold' /\ ChildTold'
                   /\ restarts = 0 => FirstRun(x[1], head, trusted) /\ FirstRun(x[2], head, trusted)
                   /\ Told <= 1 => Anew(x[1], head, trusted)
  BY <1>2, <1>3, <1>4 DEF QuietInv
<1>5. Plain' BY <1>2 DEF QuietInv, Plain, CanonicalHash, HashAt
<1>6. ~Leftover
  <2> SUFFICES ASSUME NEW n \in Numbers PROVE canon[n] \in Ancestry[head] \cup {NoHash} BY DEF Leftover
  <2>1. n \in Nat BY Ancestors DEF Numbers
  <2>2. canon[n] = HashAt(head, n)
    BY <2>1 DEF QuietInv, Plain, CanonicalHash
  <2>3. head \in Headers BY DEF IndexerInv
  <2> QED BY <2>1, <2>2, <2>3, HashAtSound
<1>7. way = "grow" BY <1>1, <1>6
<1>8. Onward' BY <1>1, <1>2, <1>7 DEF Onward
<1>9. EventsOnChain' BY <1>1, <1>2, <1>7 DEF QuietInv, EventsOnChain
<1>10. HeadTold' /\ ChildTold' BY <1>2, <1>3 DEF QuietInv, HeadTold, ChildTold
<1> QED BY <1>5, <1>8, <1>9, <1>10 DEF QuietInv

\* The next block of a growth has the head for its parent.
LEMMA NextIs == ASSUME IndexerInv, Onward, move.way = "grow"
  PROVE NextBlock \in Headers /\ (NextBlock = head \/ (NextBlock # Root /\ ParentOf[NextBlock] = head))
<1> DEFINE c == NextBlock
           to == move.to
<1>0. head \in Headers /\ ChainSound /\ to \in Headers /\ head \in Ancestry[to] /\ to \in Ancestry[to]
      /\ Ancestry[head] \subseteq Ancestry[to] /\ head \in Ancestry[head]
  BY Ancestors DEF IndexerInv, Onward
<1>1. /\ c \in Headers /\ c \in Ancestry[to]
      /\ Ahead = {} => c = to
      /\ Ahead # {} => c \in Ahead /\ \A d \in Ahead : NumberOf[c] <= NumberOf[d]
  BY <1>0, NextBlockIs
<1>2. Ahead = Ancestry[to] \ Ancestry[head] BY DEF Ahead
<1> HIDE DEF c, to
<1>3. CASE Ahead = {}
  BY <1>0, <1>2, <1>3, Ancestors, <1>1 DEF c
<1>4. CASE Ahead # {}
  <2> DEFINE p == ParentOf[c]
  <2>1. c \notin Ancestry[head] /\ c \in Headers /\ c \in Ancestry[to] BY <1>1, <1>2, <1>4
  <2>2. c # Root
    BY <1>0, Ancestors, IndexerAssumption, <2>1
  <2>3. p \in Headers /\ p \in Ancestry[to] /\ NumberOf[p] = NumberOf[c] - 1 /\ NumberOf[c] \in Nat /\ NumberOf[p] \in Nat
    BY <2>1, <2>2, Ancestors, <1>0
  <2> HIDE DEF p
  <2>4. p \in Ancestry[head]
    <3> SUFFICES ASSUME p \notin Ancestry[head] PROVE FALSE OBVIOUS
    <3>1. p \in Ahead BY <1>2, <2>3
    <3>2. NumberOf[c] <= NumberOf[p] BY <1>1, <1>4, <3>1
    <3> QED BY <2>3, <3>2
  <2>5. NumberOf[p] <= NumberOf[head] /\ NumberOf[head] \in Nat BY <1>0, <2>4, Ancestors
  <2>6. ASSUME NumberOf[p] < NumberOf[head] PROVE FALSE
    <3>1. NumberOf[c] \in 0..NumberOf[head] BY <2>3, <2>5, <2>6
    <3>2. PICK d \in Ancestry[head] : NumberOf[d] = NumberOf[c] BY <1>0, <3>1, IndexerAssumption
    <3>3. d = c BY <1>0, <2>1, <3>2, Ancestors
    <3> QED BY <2>1, <3>3
  <2>7. NumberOf[p] = NumberOf[head] BY <2>3, <2>5, <2>6
  <2>8. p = head BY <1>0, <2>4, <2>7, Ancestors
  <2> QED BY <2>1, <2>2, <2>8 DEF c, p
<1> QED BY <1>3, <1>4

\* The canonical hash of the next block is written with it.
LEMMA WritePlain ==
  ASSUME IndexerInv, Plain, NEW b \in Headers, b = head \/ (b # Root /\ ParentOf[b] = head),
         canon' = [canon EXCEPT ![NumberOf[b]] = b], head' = b PROVE Plain'
<1>0. head \in Headers /\ NumberOf[head] \in Nat /\ NumberOf[b] \in Nat /\ NumberOf[b] \in Numbers
      /\ canon \in [Numbers -> Hashes]
  BY Ancestors DEF IndexerInv, ChainSound, Numbers
<1>1. /\ b \in Ancestry[b] /\ Ancestry[head] \subseteq Ancestry[b]
      /\ b = head \/ NumberOf[b] = NumberOf[head] + 1
  BY <1>0, Ancestors
<1>2. \A m \in Numbers : canon'[m] = IF m = NumberOf[b] THEN b ELSE canon[m] BY <1>0
<1>3. ASSUME NEW n \in Nat PROVE (IF n \in Numbers THEN canon'[n] ELSE NoHash) = HashAt(b, n)
  <2>1. CanonicalHash(n) = HashAt(head, n) BY DEF Plain
  <2>2. CASE n = NumberOf[b]
    BY <1>1, <2>2, HashAtSound, <1>0, <1>2
  <2>3. CASE n > NumberOf[b]
    BY <2>3, HashAtSound, <1>0, <1>1, <2>1, <1>2 DEF CanonicalHash
  <2>4. CASE n < NumberOf[b]
    <3>1. n <= NumberOf[head] /\ n # NumberOf[b] BY <1>0, <1>1, <2>4
    <3> DEFINE c == HashAt(head, n)
    <3>2. c \in Ancestry[head] /\ c # NoHash /\ NumberOf[c] = n BY <1>0, <3>1, HashAtSound
    <3> HIDE DEF c
    <3>3. HashAt(b, n) = c BY <1>1, <3>2, HashAtSound
    <3>4. CanonicalHash(n) = c BY <2>1 DEF c
    <3>5. n \in Numbers /\ canon[n] = c BY <3>2, <3>4 DEF CanonicalHash
    <3> QED BY <1>2, <3>1, <3>3, <3>5
  <2> QED BY <1>0, <2>2, <2>3, <2>4
<1>4. \A n \in Nat : (IF n \in Numbers THEN canon'[n] ELSE NoHash) = HashAt(head', n) BY <1>3
<1> QED BY <1>4 DEF Plain, CanonicalHash, HashAt

\* A block of a growth becomes the head.
LEMMA WriteQuiet == ASSUME IndexerInv, QuietInv, WriteHeadBlock PROVE QuietInv'
<1> DEFINE b == NextBlock
<1>0. RowsSound(x, Told) /\ Told \in Nat /\ head \in Headers /\ 1 \in Indexers /\ 2 \in Indexers
      /\ trusted \in CheckpointHeads /\ events \in Seq(Headers) /\ loop.prev \in Headers
  BY ToldIs DEF RowsSound, IndexerInv, Indexers
<1>1. RowSound(x[1], Told) /\ RowSound(x[2], Told) BY <1>0 DEF RowsSound
<1>2. /\ head' = b /\ canon' = [canon EXCEPT ![NumberOf[b]] = b] /\ move.way \in {"grow", "reorg"}
      /\ b = move.to => move' = Still /\ events' = Append(events, b)
      /\ b # move.to => move' = move /\ events' = events
      /\ UNCHANGED <<x, loop, attached, trusted, disturbed, restarts>>
  BY DEF WriteHeadBlock, indexBounds
<1>3. Told' = Told BY <1>2 DEF Told
<1>r. restarts' \in Nat BY <1>2 DEF QuietInv
<1>h. Still.way = "still" BY DEF Still
<1> SUFFICES ASSUME ~disturbed
             PROVE /\ Plain' /\ Onward' /\ EventsOnChain' /\ HeadTold' /\ ChildTold'
                   /\ restarts = 0 => FirstRun(x[1], b, trusted) /\ FirstRun(x[2], b, trusted)
                   /\ Told <= 1 => Anew(x[1], b, trusted)
  BY <1>2, <1>3, <1>r DEF QuietInv
<1>p. Plain /\ Onward BY DEF QuietInv
<1>g. move.way = "grow" /\ move.to \in Headers BY <1>2, <1>p DEF Onward
<1>b. b \in Headers /\ (b = head \/ (b # Root /\ ParentOf[b] = head)) BY <1>g, <1>p, NextIs
<1>o. Onward'
  <2>1. ChainSound BY DEF IndexerInv
  <2>2. b \in Ancestry[move.to] BY <1>0, <1>g, <2>1, NextBlockIs
  <2> HIDE DEF b
  <2> QED BY <1>2, <1>g, <1>h, <2>2 DEF Onward
<1> HIDE DEF b
<1>f. Plain' BY <1>2, <1>b, <1>p, WritePlain
<1>4. /\ Ancestry[head] \subseteq Ancestry[b] /\ NumberOf[head] <= NumberOf[b] /\ b \in Ancestry[b]
      /\ NumberOf[head] \in Nat /\ NumberOf[b] \in Nat
  BY <1>0, <1>b, Ancestors
<1>5. EventsOnChain BY DEF QuietInv
<1>6. EventsOnChain'
  <2>3. loop.prev \in Ancestry[b] /\ loop.next \in {loop.prev, NoHash} BY <1>4, <1>5 DEF EventsOnChain
  <2>5. CASE b # move.to
    BY <1>4, <1>5, <1>2, <1>g, <2>3, <2>5 DEF EventsOnChain
  <2>6. CASE b = move.to
    <3>1. Len(events) \in Nat /\ Len(events') = Len(events) + 1 /\ events'[Len(events')] = b
          /\ \A k \in 1..Len(events) : events'[k] = events[k]
      BY <1>0, <1>2, <1>b, <2>6
    <3>2. \A k \in 1..Len(events') : events'[k] \in Ancestry[b]
      <4> SUFFICES ASSUME NEW k \in 1..Len(events') PROVE events'[k] \in Ancestry[b] OBVIOUS
      <4>1. CASE k = Len(events') BY <1>4, <3>1, <4>1
      <4>2. CASE k # Len(events')
        BY <3>1, <4>2, <1>4, <1>5 DEF EventsOnChain
      <4> QED BY <4>1, <4>2
    <3>3. Len(events') # 0 BY <3>1
    <3> QED BY <1>2, <2>3, <3>1, <3>2, <3>3 DEF EventsOnChain
  <2> QED BY <2>5, <2>6
\* An index at work stays one.
<1>7. ASSUME NEW r, RowSound(r, Told), Going(r, head) PROVE Going(r, b)
  <2>1. r.known > 0 => SectionEnd(r.known - 1) <= NumberOf[b]
    <3> SUFFICES ASSUME r.known > 0 PROVE SectionEnd(r.known - 1) <= NumberOf[b] OBVIOUS
    <3>1. r.known - 1 \in Nat BY <1>7 DEF RowSound, Rows
    <3>2. SectionEnd(r.known - 1) \in Nat /\ SectionEnd(r.known - 1) <= NumberOf[head] BY <1>7, <3>1, SectionStarts DEF Going
    <3> QED BY <1>4, <3>2
  <2> QED BY <1>4, <1>7, <2>1 DEF Going
<1>8. Late(head, trusted) => Late(b, trusted) BY <1>4 DEF Late
\* The chain reaches the checkpoint.
<1>9. ASSUME ~Late(head, trusted), Late(b, trusted)
      PROVE Told > 0 /\ trusted \in Ancestry[b] /\ NumberOf[head] < SectionEnd(Told - 1) /\ SectionEnd(Told - 1) \in Nat
  <2>1. Told > 0 /\ trusted \in Ancestry[b] /\ trusted \notin Ancestry[head] BY <1>0, <1>9 DEF Late, Told
  <2>2. NumberOf[trusted] = SectionEnd(Told - 1) /\ SectionEnd(Told - 1) \in Nat BY <1>p, <2>1, LateIs
  <2>3. ASSUME NumberOf[trusted] <= NumberOf[head] PROVE FALSE
    <3> DEFINE n == NumberOf[trusted]
               c == CanonicalHash(n)
    <3>1. n \in Nat /\ n <= NumberOf[head] BY <2>2, <2>3
    <3> HIDE DEF n
    <3>2. c \in Ancestry[head] /\ NumberOf[c] = n BY <1>0, <1>p, <3>1, CanonicalIs
    <3> HIDE DEF c
    <3>3. c \in Ancestry[b] /\ NumberOf[c] = NumberOf[trusted] BY <1>4, <3>2 DEF n
    <3>4. c = trusted BY <1>b, <2>1, <3>3, Ancestors
    <3> QED BY <2>1, <3>2, <3>4
  <2> QED BY <1>4, <2>1, <2>2, <2>3
<1>10. ASSUME NEW r, RowSound(r, Told), ~Late(head, trusted), Late(b, trusted), Waiting(r, trusted) PROVE Going(r, b)
  BY <1>9, <1>10 DEF Waiting, RowSound, Rows, Told, Going
<1>11. ASSUME NEW r, RowSound(r, Told), FirstRun(r, head, trusted) PROVE FirstRun(r, b, trusted)
  <2>1. Late(b, trusted) => Going(r, b)
    <3>1. CASE Late(head, trusted) BY <1>7, <1>11, <3>1 DEF FirstRun
    <3>2. CASE ~Late(head, trusted)
      BY <1>11, <3>2, <1>10 DEF FirstRun
    <3> QED BY <3>1, <3>2
  <2>2. ~Late(b, trusted) => Waiting(r, trusted) BY <1>8, <1>11 DEF FirstRun
  <2> QED BY <1>11, <2>1, <2>2 DEF FirstRun
<1>12. ASSUME NEW r, RowSound(r, Told), Told <= 1, Anew(r, head, trusted) PROVE Anew(r, b, trusted)
  <2>1. CASE Late(head, trusted) BY <1>7, <1>8, <1>12, <2>1 DEF Anew
  <2>2. CASE ~Late(head, trusted) /\ Late(b, trusted)
    BY <1>0, <1>9, <1>12, <2>2, <1>10 DEF Anew
  <2>3. CASE ~Late(head, trusted) /\ ~Late(b, trusted)
    <3>1. SectionEnd(0) \in Nat BY SectionStarts
    <3>2. NumberOf[b] < SectionEnd(0) => NumberOf[head] < SectionEnd(0) BY <1>4, <3>1
    <3> QED BY <1>12, <2>3, <3>2 DEF Anew
  <2> QED BY <2>1, <2>2, <2>3
<1>13. HeadTold'
  <2> DEFINE k == Reached(1, NumberOf[loop.prev])
  <2> SUFFICES ASSUME loop.next = NoHash, Late(b, trusted), restarts = 0 \/ Told <= 1
               PROVE k <= x[1].stored \/ k <= x[1].known BY <1>2, <1>3 DEF HeadTold
  <2>1. CASE Late(head, trusted)
    <3> HIDE DEF k
    <3>1. HeadTold BY DEF QuietInv
    <3> QED BY <2>1, <3>1 DEF HeadTold, k
  <2>2. CASE ~Late(head, trusted)
    <3>1. Told > 0 /\ NumberOf[head] < SectionEnd(Told - 1) /\ SectionEnd(Told - 1) \in Nat BY <1>9, <2>2
    <3>2. /\ NumberOf[loop.prev] \in Nat /\ NumberOf[loop.prev] <= NumberOf[head]
          /\ NumberOf[loop.prev] + 1 <= Cardinality(Headers)
      BY <1>0, <1>5, Ancestors, NumbersBounded DEF EventsOnChain
    <3>3. k \in Nat /\ \A s \in Nat : s <= k /\ s > 0 => SectionEnd(s - 1) <= NumberOf[loop.prev]
      <4> DEFINE n == NumberOf[loop.prev]
      <4>1. n \in Nat /\ n + 1 <= Cardinality(Headers) BY <3>2
      <4> HIDE DEF n
      <4>2. Reached(1, n) \in Nat /\ \A s \in Nat : s <= Reached(1, n) /\ s > 0 => SectionEnd(s - 1) <= n
        BY <1>0, <4>1, ReachedBound, NumbersBounded
      <4> QED BY <4>2 DEF n
    <3> HIDE DEF k
    <3>4. k < Told
      <4>1. ASSUME Told <= k PROVE FALSE
        BY <1>0, <3>1, <3>3, <4>1, <1>4, <3>2
      <4> QED BY <1>0, <3>3, <4>1
    <3>5. x[1].stored \in Nat BY <1>1 DEF RowSound, Rows
    <3>6. CASE restarts = 0
      BY <3>6, <1>0, <3>3, <3>4, <3>5 DEF QuietInv, FirstRun, Told
    <3>7. CASE Told <= 1
      BY <1>0, <3>3, <3>4, <3>7, <3>5
    <3> QED BY <3>6, <3>7
  <2> QED BY <2>1, <2>2
<1>14. ChildTold' BY <1>2 DEF QuietInv, ChildTold
<1>15. restarts = 0 => FirstRun(x[1], b, trusted) /\ FirstRun(x[2], b, trusted) BY <1>1, <1>11 DEF QuietInv
<1>16. Told <= 1 => Anew(x[1], b, trusted) BY <1>1, <1>12 DEF QuietInv
<1> QED BY <1>6, <1>13, <1>14, <1>15, <1>16, <1>f, <1>o

\* What an indexer is created with.
LEMMA StartedIs ==
  ASSUME IndexerInv, NEW n \in 0..LastSection, NEW m \in [SectionIds -> Hashes], HeadsSound(m, n, Told)
  PROVE /\ Started(n, m, trusted).known = 0 /\ Started(n, m, trusted).work = NoWork
        /\ n >= Told => Started(n, m, trusted).stored = n /\ Started(n, m, trusted).heads = m
                        /\ Started(n, m, trusted).checkpoint = 0
        /\ n < Told => /\ Started(n, m, trusted).stored = Told /\ Started(n, m, trusted).checkpoint = Told
                       /\ Started(n, m, trusted).heads = WithHead(m, Told - 1, trusted)
<1> DEFINE c == trusted
<1>1. c \in CheckpointHeads /\ Told = SectionsTo(c) BY DEF IndexerInv, Told
<1> HIDE DEF c
<1>2. HeadsSound(m, n, SectionsTo(c)) BY <1>1
<1>3. /\ RowSound(Started(n, m, c), SectionsTo(c))
      /\ Started(n, m, c).known = 0 /\ Started(n, m, c).signal = FALSE /\ Started(n, m, c).work = NoWork
      /\ n >= SectionsTo(c) =>
           Started(n, m, c).stored = n /\ Started(n, m, c).heads = m /\ Started(n, m, c).checkpoint = 0
      /\ n < SectionsTo(c) =>
           /\ Started(n, m, c).stored = SectionsTo(c) /\ Started(n, m, c).checkpoint = SectionsTo(c)
           /\ Started(n, m, c).heads = WithHead(m, SectionsTo(c) - 1, c)
  BY <1>1, <1>2, StartedSound
<1> QED BY <1>1, <1>3 DEF c

\* An index created anew over what it had stored.
LEMMA StartedQuiet ==
  ASSUME IndexerInv, Told <= 1, NEW r, RowSound(r, Told), Anew(r, head, trusted)
  PROVE Anew(Started(r.stored, r.heads, trusted), head, trusted)
<1>0. Told \in Nat /\ head \in Headers /\ trusted \in CheckpointHeads BY ToldIs DEF IndexerInv
<1>1. r.stored \in Nat /\ r.stored \in 0..LastSection /\ r.heads \in [SectionIds -> Hashes]
      /\ HeadsSound(r.heads, r.stored, Told)
  BY NumbersBounded DEF RowSound, Rows
<1> DEFINE u == Started(r.stored, r.heads, trusted)
<1>2. /\ u.known = 0 /\ u.work = NoWork
      /\ r.stored >= Told => u.stored = r.stored /\ u.heads = r.heads
      /\ r.stored < Told => u.stored = Told /\ u.heads = WithHead(r.heads, Told - 1, trusted)
  BY <1>0, <1>1, StartedIs
<1> HIDE DEF u
<1>3. r.stored < Told => u.stored = 1 /\ Told = 1 /\ u.heads[Told - 1] = trusted
  <2> SUFFICES ASSUME r.stored < Told PROVE u.stored = 1 /\ Told = 1 /\ u.heads[Told - 1] = trusted OBVIOUS
  <2>1. Told = 1 BY <1>0, <1>1
  <2>2. 0 \in SectionIds BY NumbersBounded
  <2>3. u.heads[0] = trusted
    BY <1>2, <2>1, <1>1, <2>2 DEF WithHead
  <2> QED BY <1>2, <2>1, <2>3
<1>4. ~NoWork.active BY DEF NoWork
<1>5. u.stored \in Nat BY <1>0, <1>1, <1>2
<1>6. Late(head, trusted) => Going(u, head)
  <2> SUFFICES ASSUME Late(head, trusted) PROVE Going(u, head) OBVIOUS
  <2>1. Going(r, head) BY DEF Anew
  <2>2. u.stored > 0 => u.heads[u.stored - 1] \in Ancestry[head]
    <3>1. CASE r.stored >= Told BY <1>2, <2>1, <3>1 DEF Going
    <3>2. CASE r.stored < Told
      BY <1>3, <3>2 DEF Late, Told
    <3> QED BY <1>0, <1>1, <3>1, <3>2
  <2>3. ~(u.known > u.stored) /\ ~(u.known > 0) BY <1>2, <1>5
  <2> QED BY <1>2, <1>4, <2>2, <2>3 DEF Going
<1>7. Waiting(r, trusted) => Waiting(u, trusted)
  <2> SUFFICES ASSUME Waiting(r, trusted) PROVE Waiting(u, trusted) OBVIOUS
  <2>1. r.stored \in {0, Told} /\ (r.stored > 0 => r.heads[Told - 1] = trusted) BY DEF Waiting, Told
  <2>2. CASE r.stored >= Told
    BY <1>2, <2>1, <2>2, <1>4 DEF Waiting, Told
  <2>3. CASE r.stored < Told
    BY <1>3, <2>3, <1>2, <1>4 DEF Waiting, Told
  <2> QED BY <1>0, <1>1, <2>2, <2>3
<1> QED BY <1>6, <1>7 DEF Anew, u

LEMMA RestartQuiet == ASSUME IndexerInv, QuietInv, RestartIndexers PROVE QuietInv'
<1>0. RowsSound(x, Told) /\ Told \in Nat /\ head \in Headers /\ 1 \in Indexers BY ToldIs DEF RowsSound, IndexerInv, Indexers
<1>1. RowSound(x[1], Told) BY <1>0 DEF RowsSound
<1>2. /\ restarts' = restarts + 1 /\ restarts \in Nat /\ events' = <<>> /\ loop' = [prev |-> head, next |-> head]
      /\ attached' = FALSE /\ move' = Still /\ UNCHANGED <<canon, head, trusted, disturbed>>
  BY DEF RestartIndexers, QuietInv
<1>3. x'[1] = Started(x[1].stored, x[1].heads, trusted) BY <1>0 DEF RestartIndexers
<1>4. Told' = Told BY <1>2 DEF Told
<1>5. restarts' \in Nat /\ restarts' # 0 BY <1>2
<1> SUFFICES ASSUME ~disturbed
             PROVE /\ Plain' /\ Onward' /\ EventsOnChain' /\ HeadTold' /\ ChildTold'
                   /\ Told <= 1 => Anew(x[1]', head, trusted)
  BY <1>2, <1>4, <1>5 DEF QuietInv
<1>p. Plain' BY <1>2 DEF QuietInv, Plain, CanonicalHash, HashAt
<1>o. Onward' BY <1>2 DEF Onward, Still
<1>6. head \in Ancestry[head] /\ head # NoHash BY <1>0, Ancestors
<1>7. EventsOnChain'
  BY <1>2, <1>6 DEF EventsOnChain
<1>8. HeadTold'
  BY <1>2, <1>6 DEF HeadTold
<1>9. ChildTold' BY <1>2 DEF ChildTold
<1>10. Told <= 1 => Anew(x[1]', head, trusted)
  BY <1>1, StartedQuiet, <1>3 DEF QuietInv
<1> QED BY <1>7, <1>8, <1>9, <1>10, <1>p, <1>o

LEMMA QuietInit == ASSUME IndexerInit PROVE QuietInv
<1>i. IndexerInv BY IndexerInvInit
<1> DEFINE m == [s \in SectionIds |-> NoHash]
           u == Started(0, m, trusted)
<1>0. Told \in Nat /\ trusted \in CheckpointHeads /\ head = Root /\ Root \in Headers
      /\ 1 \in Indexers /\ 2 \in Indexers
  BY <1>i, ToldIs, Ancestors DEF IndexerInv, IndexerInit, Indexers
<1>1. x[1] = u /\ x[2] = u BY <1>0 DEF IndexerInit
<1>2. 0 \in 0..LastSection /\ m \in [SectionIds -> Hashes] /\ 0 \in Nat BY NumbersBounded DEF Hashes
<1>t. HeadsSound(m, 0, Told) BY <1>0, NumbersBounded DEF HeadsSound
<1> HIDE DEF m
<1>4. /\ u.known = 0 /\ u.work = NoWork
      /\ 0 >= Told => u.stored = 0 /\ u.checkpoint = 0
      /\ 0 < Told => u.stored = Told /\ u.checkpoint = Told /\ u.heads = WithHead(m, Told - 1, trusted)
  BY <1>0, <1>2, <1>i, <1>t, StartedIs
<1> HIDE DEF u
<1>5. 0 < Told => u.heads[Told - 1] = trusted
  <2> SUFFICES ASSUME 0 < Told PROVE u.heads[Told - 1] = trusted OBVIOUS
  <2> DEFINE k == Told - 1
  <2>1. k \in SectionIds
    BY <1>i, ToldIs, <1>0, NumbersBounded
  <2>2. u.heads = [m EXCEPT ![k] = trusted] BY <1>4 DEF WithHead
  <2> HIDE DEF k
  <2>3. u.heads[k] = trusted BY <1>2, <2>1, <2>2
  <2> QED BY <2>3 DEF k
<1>6. u.checkpoint = Told /\ u.stored = Told BY <1>0, <1>4
<1>7. ~u.work.active BY <1>4 DEF NoWork
<1>8. Waiting(u, trusted) BY <1>0, <1>4, <1>5, <1>6, <1>7 DEF Waiting, Told
<1>9. Late(head, trusted) => Going(u, head)
  <2> SUFFICES ASSUME Late(head, trusted) PROVE Going(u, head) OBVIOUS
  <2>1. u.stored > 0 => u.heads[u.stored - 1] \in Ancestry[head] BY <1>0, <1>5, <1>6 DEF Late, Told
  <2>2. ~(u.known > u.stored) /\ ~(u.known > 0) BY <1>0, <1>4, <1>6
  <2> QED BY <1>7, <2>1, <2>2 DEF Going
<1>10. FirstRun(u, head, trusted) BY <1>0, <1>4, <1>6, <1>8, <1>9 DEF FirstRun, Told
<1>11. Anew(u, head, trusted) BY <1>8, <1>9 DEF Anew
<1>12. EventsOnChain /\ HeadTold /\ ChildTold
  BY Ancestors, <1>0 DEF IndexerInit, EventsOnChain, HeadTold, ChildTold
<1>13. restarts \in Nat BY DEF IndexerInit
<1>14. Onward BY DEF IndexerInit, Onward, Still
<1>15. Plain
  <2>1. canon = [n \in Numbers |-> IF n = 0 THEN Root ELSE NoHash] BY DEF IndexerInit
  <2>2. NumberOf[Root] = 0 /\ Root \in Ancestry[Root] /\ 0 \in Numbers BY <1>0, Ancestors DEF Numbers
  <2>3. ASSUME NEW n \in Nat PROVE CanonicalHash(n) = HashAt(head, n)
    <3>1. CASE n = 0
      BY <1>0, <2>2, <3>1, HashAtSound, <2>1 DEF CanonicalHash
    <3>2. CASE n # 0
      BY <1>0, <2>2, <3>2, HashAtSound, <2>1 DEF CanonicalHash
    <3> QED BY <3>1, <3>2
  <2> QED BY <2>3 DEF Plain
<1> QED BY <1>1, <1>10, <1>11, <1>12, <1>13, <1>14, <1>15 DEF QuietInv

LEMMA QuietStep == ASSUME IndexerInv, QuietInv, [IndexerNext]_indexerVars PROVE QuietInv'
<1>1. CASE AddChildIndexer BY <1>1, AddChildQuiet
<1>2. CASE TakeEvent BY <1>2, TakeEventQuiet
<1>3. CASE AnnounceHead BY <1>3, AnnounceQuiet
<1>4. CASE ResetFails
  BY <1>4 DEF ResetFails, indexBounds, QuietInv
<1>5. CASE RestartIndexers BY <1>5, RestartQuiet
<1>6. ASSUME NEW b \in Headers, MoveHead(b) PROVE QuietInv' BY <1>6, MoveQuiet
<1>7. ASSUME NEW b \in Headers, RewindChain(b) PROVE QuietInv'
  BY <1>7 DEF RewindChain, QuietInv
<1>8. ASSUME NEW i \in Indexers, TakeUpdate(i) PROVE QuietInv' BY <1>8, TakeUpdateQuiet
<1>9. ASSUME NEW i \in Indexers, ProcessHeader(i) PROVE QuietInv' BY <1>9, ProcessQuiet
<1>10. ASSUME NEW i \in Indexers, CompleteSection(i) PROVE QuietInv' BY <1>10, CompleteQuiet
<1>11. ASSUME NEW i \in Indexers, Sections(i) PROVE QuietInv' BY <1>11, SectionsQuiet
<1>12. CASE UNCHANGED indexerVars
  <2>1. UNCHANGED <<x, canon, move, head, events, loop, attached, trusted, disturbed, restarts>>
    BY <1>12 DEF indexerVars, indexChain, indexBounds
  <2>2. Told' = Told BY <2>1 DEF Told
  <2>3. EventsOnChain' = EventsOnChain BY <2>1 DEF EventsOnChain
  <2>4. HeadTold' = HeadTold /\ ChildTold' = ChildTold BY <2>1, <2>2 DEF HeadTold, ChildTold
  <2>5. Plain' = Plain BY <2>1 DEF Plain, CanonicalHash, HashAt
  <2>6. Onward' = Onward BY <2>1 DEF Onward
  <2> QED BY <2>1, <2>2, <2>3, <2>4, <2>5, <2>6 DEF QuietInv
<1>13. CASE WriteHeadBlock BY <1>13, WriteQuiet
<1>14. CASE DeleteStale \/ DeleteAbove
  BY <1>14 DEF DeleteStale, DeleteAbove, indexBounds, QuietInv, Onward
<1> QED BY <1>1, <1>2, <1>3, <1>4, <1>5, <1>6, <1>7, <1>8, <1>9, <1>10, <1>11, <1>12, <1>13, <1>14 DEF IndexerNext

\* With nothing left to do all is indexed.
LEMMA AllIndexed == ASSUME IndexerInv, QuietInv PROVE EverySectionIndexed
<1> SUFFICES ASSUME Settled, ~disturbed
             PROVE /\ trusted \in Ancestry[head] \cup {NoHash} /\ (restarts = 0 \/ SectionsTo(trusted) <= 1)
                        => x[1].stored >= Expected(1, NumberOf[head])
                   /\ attached /\ restarts = 0 => x[2].stored >= x[1].stored
  BY DEF EverySectionIndexed
<1>0. RowsSound(x, Told) /\ Told \in Nat /\ head \in Headers /\ trusted \in CheckpointHeads
      /\ 1 \in Indexers /\ 2 \in Indexers
  BY ToldIs DEF RowsSound, IndexerInv, Indexers
<1>1. RowSound(x[1], Told) /\ RowSound(x[2], Told) BY <1>0 DEF RowsSound
<1>2. /\ x[1].stored \in Nat /\ x[1].known \in Nat /\ x[2].stored \in Nat /\ x[2].known \in Nat
  BY <1>1 DEF RowSound, Rows
<1>3. /\ loop.next = NoHash /\ events = <<>> /\ \A i \in Indexers : ~x[i].signal /\ ~x[i].work.active
      /\ move.way = "still"
  BY DEF Settled, Still
<1>4. ASSUME NEW i \in Indexers, Going(x[i], head) PROVE ~(x[i].known > x[i].stored) BY <1>3, <1>4 DEF Going
<1>5. ASSUME trusted \in Ancestry[head] \cup {NoHash}, restarts = 0 \/ SectionsTo(trusted) <= 1
      PROVE x[1].stored >= Expected(1, NumberOf[head])
  <2>1. Late(head, trusted)
    <3>1. CASE trusted = NoHash BY <3>1 DEF Late, SectionsTo
    <3>2. CASE trusted \in Ancestry[head] BY <3>2 DEF Late
    <3> QED BY <1>5, <3>1, <3>2
  <2>2. Going(x[1], head) BY <1>5, <2>1 DEF QuietInv, FirstRun, Anew, Told
  <2>3. ~(x[1].known > x[1].stored) BY <1>0, <1>4, <2>2
  <2>4. loop.prev = head BY <1>3 DEF QuietInv, EventsOnChain
  <2> DEFINE k == Reached(1, NumberOf[head])
  <2>5. k <= x[1].stored \/ k <= x[1].known BY <1>3, <1>5, <2>1, <2>4 DEF QuietInv, HeadTold, Told
  <2>6. k \in Nat
    BY <1>0, NumbersBounded, ReachedBound
  <2>7. Expected(1, NumberOf[head]) = k BY DEF Expected, Reached
  <2> HIDE DEF k
  <2> QED BY <1>2, <2>3, <2>5, <2>6, <2>7
<1>6. ASSUME attached, restarts = 0 PROVE x[2].stored >= x[1].stored
  <2>1. FirstRun(x[1], head, trusted) /\ FirstRun(x[2], head, trusted) BY <1>6 DEF QuietInv
  <2>2. x[1].stored <= x[2].stored \/ x[1].stored <= x[2].known BY <1>6 DEF QuietInv, ChildTold
  <2>3. CASE Late(head, trusted)
    BY <1>0, <1>4, <2>1, <2>3, <1>2, <2>2 DEF FirstRun
  <2>4. CASE ~Late(head, trusted)
    BY <2>1, <2>4, <1>2, <2>2 DEF FirstRun, Waiting
  <2> QED BY <2>3, <2>4
<1> QED BY <1>5, <1>6

\* The index tells of the canonical chain, and on a chain that only grew of all of it
\* (newHead, updateLoop, Sections of core/chain_indexer.go).
THEOREM IndexIsSound == IndexerSpec => []IndexSound
<1>1. IndexerInit => IndexerInv /\ QuietInv BY IndexerInvInit, QuietInit
<1>2. IndexerInv /\ QuietInv /\ [IndexerNext]_indexerVars => IndexerInv' /\ QuietInv' BY IndexerInvStep, QuietStep
<1>3. IndexerInv /\ QuietInv => IndexSound BY SectionsCanonicalHolds, AllIndexed DEF IndexSound
<1> QED BY <1>1, <1>2, <1>3, PTL DEF IndexerSpec
=============================================================================
