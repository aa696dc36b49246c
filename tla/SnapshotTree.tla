---------------------------- MODULE SnapshotTree ----------------------------
(***************************************************************************)
(* The state snapshot: a flat copy of one state on disk, and above it a    *)
(* tree of in-memory diff layers, one per executed block                   *)
(* (core/state/snapshot).  Committing a block adds a layer and caps the    *)
(* tree: layers too deep below the new one are flattened into an           *)
(* accumulator, and the accumulator into the disk layer.  A background     *)
(* generator fills the disk layer from the trie, key after key.  The tree  *)
(* is journalled at a clean stop and rebuilt when what is found at start   *)
(* does not fit the head.                                                  *)
(*                                                                         *)
(* Layers are objects: a reader (a StateDB) keeps the one it was given     *)
(* while the tree moves on, so "objs" keeps every layer of this process,   *)
(* and a storage map is named by the object that brought it, because       *)
(* flattening hands such a map from one layer to another without a copy.   *)
(* Keys stand for the 32-byte account hashes and the 64-byte storage keys, *)
(* numbered in the order in which the generator meets them.                *)
(***************************************************************************)
EXTENDS Naturals, FiniteSets, Sequences, SequencesExt, Functions

CONSTANTS Roots,        \* state roots, one per block of the block tree
          Genesis,      \* the root everything starts from
          RootParent,     \* [Roots \ {Genesis} -> Roots]
          DiffOf,       \* what a block changes: [Roots -> [des, set]]
          RootNumber,     \* block numbers
          Owner,        \* the account key of each key; Keys == DOMAIN Owner
          NoRoot,       \* the zero hash
          Layers,       \* diff layers kept below a head (128 in StateDB.Commit)
          GenLayers,    \* the same while the generator runs (8)
          Stale,        \* the answer ErrSnapshotStale
          NotCovered,   \* the answer ErrNotCoveredYet
          Flaky,        \* data snap sync leaves in the snapshot name space
          FlushAt,      \* keys after which the generator may flush
          MaxObjs,      \* layers one process may create
          MaxIncidents  \* restarts, rewinds and times snap sync takes over

Keys == DOMAIN Owner
Accounts == {k \in Keys : Owner[k] = k}
Slots == Keys \ Accounts
Done == Cardinality(Keys)                \* genMarker = nil: everything is covered
NoMarker == Done + 1                     \* no generator entry in the database

ASSUME SnapshotAssumption ==
    /\ Genesis \in Roots /\ NoRoot \notin Roots
    /\ Keys = 1 .. Cardinality(Keys)
    /\ Layers \in Nat \ {0} /\ GenLayers \in 1 .. Layers

VARIABLES objs,      \* the layers made since the start, live and stale
          layers,    \* Tree.layers: from roots to indices of objs
          disk,      \* the database: snapshot root, data, generator entry, journal, flags
          snapHead,  \* the state root of the chain's current block
          executed,  \* roots of executed blocks whose state is available
          panicked,  \* a panic of the tree took the process down
          incidents  \* counts restarts, rewinds and snap syncs

snapVars == <<objs, layers, disk, snapHead, executed, panicked, incidents>>

-----------------------------------------------------------------------------
(* The states the roots stand for.                                         *)

Override(f, g) == [k \in DOMAIN f \union DOMAIN g |-> IF k \in DOMAIN g THEN g[k] ELSE f[k]]
Without(f, accounts) == Restrict(f, {k \in DOMAIN f : Owner[k] \notin accounts})

StateOf[r \in Roots] ==
    LET old == IF r = Genesis THEN [k \in Keys |-> 0] ELSE StateOf[RootParent[r]]
        kept == [k \in Keys |-> IF Owner[k] \in DiffOf[r].des THEN 0 ELSE old[k]]
    IN  Override(kept, DiffOf[r].set)

LineOf[r \in Roots] == IF r = Genesis THEN {r} ELSE {r} \union LineOf[RootParent[r]]
Number(r) == RootNumber[r]
Highest == CHOOSE n \in {Number(r) : r \in executed} : \A r \in executed : Number(r) <= n

-----------------------------------------------------------------------------
(* Layers.  A disk layer reads the database; its "marker" is genMarker and *)
(* "running" says that genAbort is set, which stays so after the generator *)
(* is done, until the layer is replaced.                                   *)

DiskLayer(root, marker, running) ==
    [kind |-> "disk", root |-> root, stale |-> FALSE, marker |-> marker, running |-> running,
     parent |-> 0, origin |-> 0, des |-> {}, acc |-> << >>, sto |-> << >>, slots |-> << >>,
     bloom |-> {}]

IsDisk(o) == o.kind = "disk"

\* diffed: what the bloom filter holds of a layer and of the diff layers under it
OwnBloom(diff) == {<<"destruct", a>> : a \in diff.des} \union {<<"item", k>> : k \in DOMAIN diff.set}

BaseOf(os, id) == IF IsDisk(os[id]) THEN id ELSE os[id].origin

\* newDiffLayer
NewDiff(os, parent, root, diff) ==
    LET slots == Restrict(diff.set, DOMAIN diff.set \intersect Slots)
    IN  [kind |-> "diff", root |-> root, stale |-> FALSE, marker |-> Done, running |-> FALSE,
         parent |-> parent, origin |-> BaseOf(os, parent), des |-> diff.des,
         acc |-> Restrict(diff.set, DOMAIN diff.set \intersect Accounts),
         sto |-> [a \in {Owner[k] : k \in DOMAIN slots} |-> Len(os) + 1], slots |-> slots,
         bloom |-> OwnBloom(diff) \union os[parent].bloom]

\* the slots of account a as layer o sees them in its own storageData
SlotsAt(os, o, a) == LET all == os[o.sto[a]].slots
                     IN  Restrict(all, {k \in DOMAIN all : Owner[k] = a})

\* accountData and storageData of one layer, as one map
OwnData(os, o) ==
    Override(o.acc, [k \in UNION {DOMAIN SlotsAt(os, o, a) : a \in DOMAIN o.sto} |->
                        SlotsAt(os, o, Owner[k])[k]])

\* disklayer.go: AccountRLP and Storage
ReadDisk(o, data, k) == IF o.stale THEN Stale
                        ELSE IF k > o.marker THEN NotCovered ELSE data[k]

\* accountRLP and storage: walk down the maps, whatever the bloom filter says
RECURSIVE Walk(_, _, _, _)
Walk(os, data, id, k) ==
    LET o == os[id]
        own == OwnData(os, o)
    IN  IF IsDisk(o) THEN ReadDisk(o, data, k)
        ELSE IF o.stale THEN Stale
        ELSE IF k \in DOMAIN own THEN own[k]
        ELSE IF Owner[k] \in o.des THEN 0
        ELSE Walk(os, data, o.parent, k)

\* AccountRLP and Storage: a miss of the bloom filter goes to the disk layer
\* at once; a hit may be a false one
Reads(os, data, id, k) ==
    LET o == os[id]
        hit == {<<"destruct", Owner[k]>>, <<"item", k>>} \intersect o.bloom # {}
    IN  {Walk(os, data, id, k)}
            \union IF IsDisk(o) \/ hit THEN {} ELSE {ReadDisk(os[o.origin], data, k)}

-----------------------------------------------------------------------------
(* Flattening.                                                             *)

\* the diff layers from id down to the one on the disk layer, bottom first
RECURSIVE DiffsUnder(_, _)
DiffsUnder(os, id) ==
    IF IsDisk(os[id]) THEN << >> ELSE Append(DiffsUnder(os, os[id].parent), id)

\* mutant: the combined layer stays on top of the layer it was merged into
MergedOnTop(os, p, id) ==
    LET above == os[id]
        below == os[p]
    IN  Append([os EXCEPT ![p].stale = TRUE],
               [above EXCEPT !.parent = p, !.origin = below.origin,
                             !.acc = Override(Without(below.acc, above.des), above.acc),
                             !.des = below.des \union above.des])

\* flatten: write layer id into the maps of layer p under it, which becomes
\* stale; a storage map p does not have is taken over as it is, one it has is
\* written in place.  The combined layer is appended.
Merge(os, p, id) ==
    LET below == os[p]
        above == os[id]
        left == {a \in DOMAIN below.sto : a \notin above.des}
        both == left \intersect DOMAIN above.sto
        written == [i \in DOMAIN os |->
            LET mine == {a \in both : below.sto[a] = i}
                news == UNION {DOMAIN SlotsAt(os, above, a) : a \in mine}
            IN  IF mine = {} THEN os[i]
                ELSE [os[i] EXCEPT !.slots =
                         Override(@, [k \in news |-> SlotsAt(os, above, Owner[k])[k]])]]
        sto == [a \in left \union DOMAIN above.sto |->
                    IF a \in left THEN below.sto[a] ELSE above.sto[a]]
        acc == Override(Without(below.acc, above.des), above.acc)
    IN  Append([written EXCEPT ![p].stale = TRUE],
               [above EXCEPT !.parent = below.parent, !.origin = below.origin, !.stale = FALSE,
                             !.acc = acc, !.sto = sto, !.des = below.des \union above.des,
                             !.slots = << >>])

\* flatten from id to the bottom; "id" is 0 when the assertion
\* "parent diff layer is stale" fails
Flattened(os, id) ==
    LET chain == DiffsUnder(os, id)
    IN  FoldLeft(LAMBDA at, next :
                     IF at.id = 0 \/ at.os[at.id].stale THEN [at EXCEPT !.id = 0]
                     ELSE LET merged == Merge(at.os, at.id, next)
                          IN  [os |-> merged, id |-> Len(merged)],
                 [os |-> os, id |-> chain[1]], Tail(chain))

\* diffToDisk: what the batch writes for a bottom layer
Covered(base, k) == k <= base.marker
Flushed(os, bottom, data) ==
    LET o == os[bottom]
        base == os[o.parent]
        own == OwnData(os, o)
    IN  [k \in Keys |->
            IF Covered(base, Owner[k]) /\ k \in DOMAIN own /\ Covered(base, k) THEN own[k]
            ELSE IF Covered(base, Owner[k]) /\ Owner[k] \in o.des THEN 0
            ELSE data[k]]

\* the disk layer that takes over; the generator goes on when it was running
NextDisk(os, bottom) ==
    LET base == os[os[bottom].parent]
    IN  DiskLayer(os[bottom].root, base.marker, base.running /\ base.marker # Done)

-----------------------------------------------------------------------------
(* Tree.Update and Tree.Cap, as StateDB.Commit calls them.                 *)

RECURSIVE Dive(_, _, _)
Dive(os, id, steps) ==
    IF steps = 0 THEN id
    ELSE IF IsDisk(os[os[id].parent]) THEN 0
    ELSE Dive(os, os[id].parent, steps - 1)

\* the roots of the tree whose layers were made on the layer of root, and all
\* that hang under it that way
Kids(os, ls, root) == {r \in DOMAIN ls : /\ ~IsDisk(os[ls[r]])
                                         /\ os[os[ls[r]].parent].root = root}
RECURSIVE Under(_, _, _)
Under(os, ls, root) == {root} \union UNION {Under(os, ls, r) : r \in Kids(os, ls, root)}

\* Cap's "remove any layer that is stale or links into a stale layer"
Prune(os, ls) ==
    LET dead == UNION {Under(os, ls, r) : r \in {x \in DOMAIN ls : os[ls[x]].stale}}
    IN  Restrict(ls, DOMAIN ls \ dead)

\* Cap's rebloom: the layers above a new disk layer get it as their origin
RECURSIVE Rebloom(_, _, _, _)
Rebloom(os, ls, root, base) ==
    LET o == os[ls[root]]
        items == {<<"destruct", a>> : a \in o.des} \union {<<"item", k>> : k \in DOMAIN OwnData(os, o)}
        anew == IF IsDisk(o) THEN os
                ELSE [os EXCEPT ![ls[root]].origin = base,
                                ![ls[root]].bloom = items \union os[o.parent].bloom]
    IN  FoldLeft(LAMBDA at, r : Rebloom(at, ls, r, base), anew, SetToSeq(Kids(os, ls, root)))

Same(d) == [panic |-> FALSE, os |-> d.os, ls |-> d.ls, disk |-> d.disk]
Panic(d) == [Same(d) EXCEPT !.panic = TRUE]

\* the accumulator becomes the disk layer under layer id
ToDisk(d, os, ls, id, bottom) ==
    LET old == os[bottom].parent
        root == os[bottom].root
        base == Len(os) + 1
        rebased == [Append([os EXCEPT ![old].stale = TRUE], NextDisk(os, bottom))
                        EXCEPT ![id].parent = base]
        kept == Prune(rebased, Override(ls, [x \in {root} |-> base]))
    IN  IF os[old].stale THEN Panic(d)
        ELSE [panic |-> FALSE, os |-> Rebloom(rebased, kept, root, base), ls |-> kept,
              disk |-> [d.disk EXCEPT !.root = root, !.marker = os[old].marker,
                                      !.data = Flushed(os, bottom, @)]]

\* ... or stays in memory, unless it is full or a generator is attached to the
\* disk layer
Accumulated(d, os, id, bottom, full) ==
    LET ls == Override(d.ls, [x \in {os[bottom].root} |-> bottom])
    IN  IF full \/ os[os[bottom].parent].running THEN ToDisk(d, os, ls, id, bottom)
        ELSE [Same(d) EXCEPT !.os = os, !.ls = Prune(os, ls)]

Linked(d, id, full, flat) ==
    IF flat.id = 0 THEN Panic(d)
    ELSE Accumulated(d, [flat.os EXCEPT ![id].parent = flat.id], id, flat.id, full)

\* cap below layer id: flatten its parent
CapAt(d, id, full) == Linked(d, id, full, Flattened(d.os, d.os[id].parent))

\* Cap
Cap(d, root, full) ==
    LET id == d.ls[root]
        base == d.os[BaseOf(d.os, id)]
        n == IF base.marker # Done /\ Layers > GenLayers THEN GenLayers ELSE Layers
        at == Dive(d.os, id, n - 1)
    IN  IF at = 0 \/ IsDisk(d.os[d.os[at].parent])
        THEN [Same(d) EXCEPT !.ls = Prune(d.os, d.ls)]
        ELSE CapAt(d, at, full)

\* Update
Update(d, root, parent) ==
    [Same(d) EXCEPT !.os = Append(d.os, NewDiff(d.os, d.ls[parent], root, DiffOf[root])),
                    !.ls = Override(d.ls, [x \in {root} |-> Len(d.os) + 1])]

Here == [os |-> objs, ls |-> layers, disk |-> disk]

-----------------------------------------------------------------------------
(* Start and stop.                                                         *)

\* mutant: whatever disk layer the journal was written for
AnyJournal(d) == d.journal.diffs

\* loadAndParseJournal on a base layer: the journalled layers, when the
\* journal is one of this disk layer
Journalled(d) == IF d.journal.root = d.root THEN d.journal.diffs ELSE << >>

\* generateSnapshot and Rebuild
Rebuilt(d, root) ==
    [os |-> <<DiskLayer(root, 0, TRUE)>>, ls |-> [x \in {root} |-> 1],
     disk |-> [d EXCEPT !.root = root, !.marker = 0, !.recovery = 0, !.disabled = FALSE]]

\* loadSnapshot: the disk layer with the journalled layers on it
Tree(d) ==
    FoldLeft(LAMBDA at, diff :
                 [at EXCEPT !.os = Append(at.os, NewDiff(at.os, Len(at.os), diff.root, diff)),
                            !.ls = Override(@, [x \in {diff.root} |-> Len(at.os) + 1])],
             [os |-> <<DiskLayer(d.root, d.marker, d.marker # Done)>>,
              ls |-> [x \in {d.root} |-> 1], disk |-> d],
             Journalled(d))

\* what does not end at the head is generated anew, unless the chain is
\* about to recover up to it
Accepted(d, root, tree) ==
    IF tree.os[Len(tree.os)].root = root \/ d.recovery > Number(root) THEN tree ELSE Rebuilt(d, root)

\* New, for a chain whose head has the given root
Loaded(d, root) ==
    IF d.disabled THEN [os |-> << >>, ls |-> << >>, disk |-> d]
    ELSE IF d.root = NoRoot \/ d.marker = NoMarker THEN Rebuilt(d, root)
    ELSE Accepted(d, root, Tree(d))

\* NewBlockChain: the chain comes up with its head, or, when the head's state
\* is gone, rewinds to a block with state, beyond the snapshot's disk layer
\* when it meets that layer's block on the way
Heads(d) ==
    LET beyond == IF d.root \in LineOf[snapHead] THEN LineOf[d.root]
                  ELSE IF d.root = NoRoot THEN LineOf[snapHead] ELSE {Genesis}
        snapDisk == IF d.root \in LineOf[snapHead] THEN Number(d.root) ELSE 0
    IN  {[root |-> snapHead, recovery |-> d.recovery]}
            \union {[root |-> r, recovery |-> IF snapDisk # 0 THEN snapDisk ELSE d.recovery] : r \in beyond}

StartFrom(d, at) ==
    \E new \in {Loaded([d EXCEPT !.recovery = at.recovery], at.root)} :
        /\ objs' = new.os /\ layers' = new.ls /\ disk' = new.disk
        /\ snapHead' = at.root /\ executed' = LineOf[at.root] /\ panicked' = FALSE
        /\ incidents' = incidents + 1

-----------------------------------------------------------------------------
(* Actions.                                                                *)

NoJournal == [root |-> NoRoot, diffs |-> << >>]

\* a snapshot that is about to be generated, or one that was generated before
SnapInit == \E done \in BOOLEAN :
    /\ objs = <<DiskLayer(Genesis, IF done THEN Done ELSE 0, ~done)>>
    /\ layers = [x \in {Genesis} |-> 1]
    /\ disk = [root |-> Genesis, marker |-> IF done THEN Done ELSE 0,
               data |-> [k \in Keys |-> IF done THEN StateOf[Genesis][k] ELSE 0],
               journal |-> NoJournal, recovery |-> 0, disabled |-> FALSE]
    /\ snapHead = Genesis /\ executed = {Genesis} /\ panicked = FALSE /\ incidents = 0

\* A block is executed and its state committed, and it becomes the head when
\* it is heavier, or as heavy and chosen.  The state of its parent is still
\* there (TriesInMemory), and a block executed before is executed again
\* only when its snapshot is missing (skipBlock)
MayExecute(r) ==
    LET p == RootParent[r] IN
    /\ p \in executed /\ Number(p) + Layers > Highest
    /\ r \in executed => r \notin DOMAIN layers /\ p \in DOMAIN layers

Committed(r, full) ==
    LET p == RootParent[r] IN
    IF p \in DOMAIN layers THEN Cap(Update(Here, r, p), r, full) ELSE Same(Here)

Commit(r, full, adopt) ==
    /\ ~panicked /\ MayExecute(r) /\ Len(objs) + 3 <= MaxObjs
    /\ adopt => Number(r) >= Number(snapHead)
    /\ ~adopt => Number(r) <= Number(snapHead)
    /\ \E new \in {Committed(r, full)} :
         /\ panicked' = new.panic
         /\ IF new.panic THEN UNCHANGED <<objs, layers, disk, snapHead, executed>>
            ELSE /\ objs' = new.os /\ layers' = new.ls /\ disk' = new.disk
                 /\ snapHead' = IF adopt THEN r ELSE snapHead
                 /\ executed' = executed \union {r}
    /\ UNCHANGED incidents

\* BlockChain.SetHead: the blocks above are forgotten, the layers are not
SetHead(r) ==
    /\ ~panicked /\ incidents < MaxIncidents /\ r \in (LineOf[snapHead] \intersect executed) \ {snapHead}
    /\ snapHead' = r /\ executed' = executed \intersect LineOf[r]
    /\ incidents' = incidents + 1
    /\ UNCHANGED <<objs, layers, disk, panicked>>

\* the generator flushes what it has read of the trie, up to a key or the end
Generate(to) ==
    \E r \in DOMAIN layers :
        LET id == layers[r]
            o == objs[id]
        IN  /\ ~panicked /\ IsDisk(o) /\ o.running /\ to > o.marker
            /\ objs' = [objs EXCEPT ![id].marker = to]
            /\ disk' = [disk EXCEPT !.marker = to,
                           !.data = [k \in Keys |-> IF k > o.marker /\ k <= to
                                                    THEN StateOf[o.root][k] ELSE @[k]]]
            /\ UNCHANGED <<layers, snapHead, executed, panicked, incidents>>

\* Stop: Journal of the head's layer, then the process ends and starts again
JournalOf(id) ==
    LET chain == DiffsUnder(objs, id)
    IN  [i \in DOMAIN chain |-> [root |-> objs[chain[i]].root, des |-> objs[chain[i]].des,
                                 set |-> OwnData(objs, objs[chain[i]])]]

RECURSIVE AnyStale(_, _)
AnyStale(os, id) == os[id].stale \/ (~IsDisk(os[id]) /\ AnyStale(os, os[id].parent))

CanJournal == snapHead \in DOMAIN layers /\ ~AnyStale(objs, layers[snapHead])

\* diskRoot: the disk layer of whichever layer the map yields first
Stop ==
    /\ ~panicked /\ incidents < MaxIncidents
    /\ IF CanJournal
       THEN \E r \in DOMAIN layers :
                LET under == objs[BaseOf(objs, layers[r])].root
                IN  StartFrom([disk EXCEPT !.journal = [root |-> under, diffs |-> JournalOf(layers[snapHead])]],
                              [root |-> snapHead, recovery |-> disk.recovery])
       ELSE StartFrom(disk, [root |-> snapHead, recovery |-> disk.recovery])

Crash ==
    /\ incidents < MaxIncidents
    /\ \E at \in Heads(disk) : StartFrom(disk, at)

\* the process dies while diffToDisk writes: the root is gone from the
\* database and the keys up to some point have their new values
CrashInFlush(r, full, upto) ==
    /\ ~panicked /\ incidents < MaxIncidents /\ MayExecute(r)
    /\ \E new \in {Committed(r, full).disk} :
         /\ new.root # disk.root
         /\ \E torn \in {[disk EXCEPT !.root = NoRoot,
                            !.data = [k \in Keys |-> IF k <= upto THEN new.data[k] ELSE @[k]]]} :
              \E at \in Heads(torn) : StartFrom(torn, at)

\* Disable, and snap sync writes into the snapshot's name space
Disable ==
    /\ ~panicked /\ ~disk.disabled /\ incidents < MaxIncidents
    /\ objs' = [i \in DOMAIN objs |->
                   IF i \in Range(layers) THEN [objs[i] EXCEPT !.stale = TRUE] ELSE objs[i]]
    /\ layers' = << >>
    /\ disk' = [disk EXCEPT !.disabled = TRUE, !.root = NoRoot, !.marker = NoMarker,
                            !.journal = NoJournal, !.recovery = 0, !.data = [k \in Keys |-> Flaky]]
    /\ incidents' = incidents + 1
    /\ UNCHANGED <<snapHead, executed, panicked>>

\* SnapSyncCommitHead: the pivot becomes the head, and Rebuild
SyncDone(r) ==
    LET new == Rebuilt(disk, r) IN
    /\ ~panicked /\ disk.disabled
    /\ objs' = objs \o new.os /\ layers' = [x \in {r} |-> Len(objs) + 1] /\ disk' = new.disk
    /\ snapHead' = r /\ executed' = {r}
    /\ UNCHANGED <<panicked, incidents>>

SnapNext ==
    \/ \E r \in Roots \ {Genesis}, full, adopt \in BOOLEAN : Commit(r, full, adopt)
    \/ \E r \in Roots : SetHead(r)
    \/ \E to \in FlushAt \union {Done} : Generate(to)
    \/ Stop
    \/ Crash
    \/ \E r \in Roots \ {Genesis}, full \in BOOLEAN, upto \in FlushAt : CrashInFlush(r, full, upto)
    \/ Disable
    \/ \E r \in Roots : SyncDone(r)

SnapSpec == SnapInit /\ [][SnapNext]_snapVars

-----------------------------------------------------------------------------
(* Properties.                                                             *)

\* The variables have their types: layers are known by the root they were made for.
SnapTypeOK ==
    /\ \A i \in DOMAIN objs : /\ objs[i].root \in Roots /\ objs[i].stale \in BOOLEAN
                              /\ objs[i].marker \in 0 .. Done
                              /\ ~IsDisk(objs[i]) => objs[i].parent \in 1 .. Len(objs)
    /\ DOMAIN layers \subseteq Roots
    /\ \A r \in DOMAIN layers : objs[layers[r]].root = r
    /\ disk.root \in Roots \union {NoRoot} /\ disk.marker \in 0 .. NoMarker
    /\ snapHead \in executed /\ executed \subseteq Roots

Honest(id) == \A k \in Keys :
                  Reads(objs, disk.data, id, k) \subseteq {Stale, NotCovered, StateOf[objs[id].root][k]}

\* Whatever was flattened, generated, journalled, torn by a crash or left by
\* snap sync, a layer the tree hands out answers with the state of its own
\* root, or says that it is stale or that the key is not covered yet.
TreeReadsItsRoot == \A r \in DOMAIN layers : Honest(layers[r])

\* "(any live reference to the original should be marked as unusable)",
\* difflayer.go: the same of every layer a reader still holds.
HeldReadsItsRoot == \A i \in DOMAIN objs : Honest(i)

\* "Remove any layer that is stale or links into a stale layer" (Cap).
NoStaleLinks == \A r \in DOMAIN layers : ~AnyStale(objs, layers[r])

\* All layers of a tree without stale links have the one live disk layer as
\* their origin, and the database holds that layer's root and marker:
\* disklayer() may take any of them.
OneDiskLayer ==
    NoStaleLinks =>
        \A r \in DOMAIN layers :
            LET base == BaseOf(objs, layers[r])
            IN  ~objs[base].stale /\ objs[base].root = disk.root /\ objs[base].marker = disk.marker

\* The layers of the tree tell the truth, all above the same disk layer.
LayersTrue == SnapTypeOK /\ TreeReadsItsRoot /\ OneDiskLayer

\* After a commit on a live line of the tree, the whole line of the new layer
\* is live: capping takes the layers of other branches, never those under the
\* head it was called for, and without stale links no assertion fails.
CommitReadable ==
    [][/\ NoStaleLinks => ~panicked'
       /\ \A r \in executed' \ (executed \union {Genesis}) :
            /\ RootParent[r] \in DOMAIN layers /\ ~AnyStale(objs, layers[RootParent[r]])
            /\ incidents' = incidents
            => r \in DOMAIN layers' /\ ~AnyStale(objs', layers'[r])]_snapVars

\* A clean stop (it writes the journal) of a tree without stale links loses
\* nothing: at the next start the disk layer is where it was, with what was
\* generated of it, and the head has its layer.
StopKeepsProgress ==
    [][disk'.journal # disk.journal /\ ~disk'.disabled /\ NoStaleLinks =>
          /\ disk'.root = disk.root /\ disk'.marker = disk.marker
          /\ snapHead \in DOMAIN layers' /\ DOMAIN layers' \subseteq DOMAIN layers]_snapVars

\* What a commit or a clean stop must not lose.
TreeKept == CommitReadable /\ StopKeepsProgress
=============================================================================
