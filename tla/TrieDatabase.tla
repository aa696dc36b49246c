---------------------------- MODULE TrieDatabase ----------------------------
(***************************************************************************)
(* trie/database.go: the cache between the tries and the key-value store.  *)
(*                                                                         *)
(* Committing a block inserts the changed nodes of its state trie and of   *)
(* its storage tries.  Nodes are shared between states and counted by the  *)
(* nodes that refer to them; the chain refers to the roots it may still    *)
(* need.  Nodes nobody refers to are dropped, the oldest are flushed when  *)
(* memory runs out (Cap), and now and then a whole state is written        *)
(* (Commit).  Only one of these operations runs at a time (chainmu), but   *)
(* readers look at any time, and the process may be killed at any time.    *)
(* What was not flushed is then lost, and a root found on disk is taken    *)
(* for a whole state (BlockChain.HasState).                                *)
(***************************************************************************)
EXTENDS Naturals, FiniteSets, FiniteSetsExt

CONSTANTS Nodes,      \* trie nodes, by their hashes
          StateRoots, \* roots of states
          Kids,       \* hashes inside a node
          Storage,    \* storage roots of the accounts in a node
          Zero,       \* the zero hash
          MaxInserts, MaxUsers, MaxKills  \* bounds

ASSUME TrieAssumption ==
  /\ IsFiniteSet(Nodes) /\ Zero \notin Nodes /\ StateRoots \subseteq Nodes
  /\ Kids \in [Nodes -> SUBSET Nodes] /\ Storage \in [Nodes -> SUBSET Nodes]
  /\ \A n \in Nodes : Kids[n] \cap Storage[n] = {}  \* accounts are in leaves

VARIABLES dirties,  \* cached nodes
          parents,  \* how many nodes and users refer to a node
          children, \* storage roots an account node was linked to
          rooted,   \* children of the metaroot: [Nodes -> Nat]
          age,      \* when a node was cached, counted by clock
          clock,
          list,     \* the flush list through the cached nodes
          disk,     \* nodes in the key-value store
          users,    \* blocks that need a state (BlockChain.triegc)
          op,       \* the operation that runs
          kills

cacheVars == <<dirties, parents, children, rooted, age, clock, list>>
trieVars == <<cacheVars, disk, users, op, kills>>

Refs(n) == Kids[n] \cup Storage[n]
Have == dirties \cup disk
Whole(S) == \A n \in S : Refs(n) \subseteq S

\* The nodes of a state: the least set with its root that has all it refers to.
Below == [r \in Nodes |-> {n \in Nodes : \A S \in SUBSET Nodes : r \in S /\ Whole(S) => n \in S}]

-----------------------------------------------------------------------------
(* The flush list.                                                         *)

EmptyList == [oldest |-> Zero, newest |-> Zero,
              prev |-> [n \in Nodes \cup {Zero} |-> Zero], next |-> [n \in Nodes \cup {Zero} |-> Zero]]

Linked(l, n) ==
  IF l.oldest = Zero
  THEN [l EXCEPT !.oldest = n, !.newest = n,
                 !.prev = [@ EXCEPT ![n] = l.newest], !.next = [@ EXCEPT ![n] = Zero]]
  ELSE [l EXCEPT !.newest = n,
                 !.prev = [@ EXCEPT ![n] = l.newest], !.next = [@ EXCEPT ![l.newest] = n, ![n] = Zero]]

Cleared(links, S) == [n \in Nodes \cup {Zero} |-> IF n \in S \cup {Zero} THEN Zero ELSE links[n]]
Gone(l, S) == [l EXCEPT !.prev = Cleared(@, S), !.next = Cleared(@, S)]

\* A list that becomes empty keeps its newest node.
Unlinked(l, n) ==
  Gone(IF n = l.oldest
       THEN [l EXCEPT !.oldest = l.next[n], !.prev = [@ EXCEPT ![l.next[n]] = Zero]]
       ELSE IF n = l.newest
       THEN [l EXCEPT !.newest = l.prev[n], !.next = [@ EXCEPT ![l.prev[n]] = Zero]]
       ELSE [l EXCEPT !.prev = [@ EXCEPT ![l.next[n]] = l.prev[n]],
                      !.next = [@ EXCEPT ![l.prev[n]] = l.next[n]]], {n})

\* Cap takes the written nodes off the front.
FrontCut(l, written) ==
  IF written = {} THEN l
  ELSE LET last == CHOOSE n \in written : \A m \in written : age[m] <= age[n]
           first == l.next[last]
       IN Gone([l EXCEPT !.oldest = first, !.prev = [@ EXCEPT ![first] = Zero]], written)

-----------------------------------------------------------------------------
(* Operations.                                                             *)

Idle == [kind |-> "idle", root |-> Zero, todo |-> {}, new |-> {}, done |-> {}, refs |-> {}]
Doing(kind) == op.kind = kind

TrieInit ==
  /\ dirties = {} /\ disk = {} /\ children = [n \in Nodes |-> {}]
  /\ parents = [n \in Nodes |-> 0] /\ rooted = [n \in Nodes |-> 0] /\ users = [n \in Nodes |-> 0]
  /\ age = [n \in Nodes |-> 0] /\ clock = 0 /\ list = EmptyList
  /\ op = Idle /\ kills = 0

\* A block is executed on a state that is there, and what it changed is committed:
\* nodes from the root downwards.  A node may come out as it was before.
ChangedNodes(r, base) ==
  {D \in SUBSET Below[r] :
     /\ r \in D /\ \A n \in D \ {r} : \E m \in D : n \in Refs(m)
     /\ \A n \in D : Refs(n) \subseteq D \cup base}

BeginUpdate(r) ==
  /\ op = Idle /\ clock < MaxInserts
  /\ \E p \in {n \in StateRoots \ {r} : users[n] > 0 \/ n \in disk} \cup {Zero} :
       \E D \in ChangedNodes(r, IF p = Zero THEN {} ELSE Below[p]) :
         op' = [Idle EXCEPT !.kind = "insert", !.root = r, !.todo = D, !.new = D]
  /\ UNCHANGED <<cacheVars, disk, users, kills>>

\* mutant: nothing is counted by the nodes inserted later
InsertUncounted(n) ==
  /\ Doing("insert") /\ n \in op.todo /\ Refs(n) \cap op.todo = {}
  /\ op' = [op EXCEPT !.todo = @ \ {n}]
  /\ IF n \in dirties THEN UNCHANGED cacheVars
     ELSE /\ dirties' = dirties \cup {n}
          /\ parents' = [parents EXCEPT ![n] = 0]
          /\ children' = [children EXCEPT ![n] = {}]
          /\ age' = [age EXCEPT ![n] = clock] /\ clock' = clock + 1
          /\ list' = Linked(list, n)
          /\ UNCHANGED rooted
  /\ UNCHANGED <<disk, users, kills>>

\* insert: storage tries first, and children before parents
Insert(n) ==
  /\ Doing("insert") /\ n \in op.todo /\ Refs(n) \cap op.todo = {}
  /\ op' = [op EXCEPT !.todo = @ \ {n}]
  /\ IF n \in dirties THEN UNCHANGED cacheVars
     ELSE /\ dirties' = dirties \cup {n}
          /\ parents' = [m \in Nodes |-> IF m = n THEN 0
                                         ELSE IF m \in Kids[n] \cap dirties THEN parents[m] + 1 ELSE parents[m]]
          /\ children' = [children EXCEPT ![n] = {}]
          /\ age' = [age EXCEPT ![n] = clock] /\ clock' = clock + 1
          /\ list' = Linked(list, n)
          /\ UNCHANGED rooted
  /\ UNCHANGED <<disk, users, kills>>

Inserted ==
  /\ Doing("insert") /\ op.todo = {}
  /\ op' = [op EXCEPT !.kind = "link", !.todo = op.new]
  /\ UNCHANGED <<cacheVars, disk, users, kills>>

\* reference: account nodes to the storage roots that are cached
Link(n) ==
  /\ Doing("link") /\ n \in op.todo
  /\ op' = [op EXCEPT !.todo = @ \ {n}]
  /\ LET linked == (Storage[n] \cap dirties) \ children[n]
     IN /\ children' = [children EXCEPT ![n] = @ \cup linked]
        /\ parents' = [m \in Nodes |-> IF m \in linked THEN parents[m] + 1 ELSE parents[m]]
  /\ UNCHANGED <<dirties, rooted, age, clock, list, disk, users, kills>>

\* Reference(root, metaroot), which knows cached roots only
Referenced(r) ==
  /\ users' = [users EXCEPT ![r] = @ + 1]
  /\ IF r \in dirties
     THEN /\ rooted' = [rooted EXCEPT ![r] = @ + 1]
          /\ parents' = [parents EXCEPT ![r] = @ + 1]
     ELSE UNCHANGED <<rooted, parents>>

\* what a pruning node does with a new state
Keep ==
  /\ Doing("link") /\ op.todo = {} /\ users[op.root] < MaxUsers
  /\ Referenced(op.root)
  /\ op' = Idle
  /\ UNCHANGED <<dirties, children, age, clock, list, disk, kills>>

\* a block that leaves the state as it is
Reference(r) ==
  /\ op = Idle /\ users[r] < MaxUsers
  /\ users[r] > 0 \/ r \in disk
  /\ Referenced(r)
  /\ UNCHANGED <<dirties, children, age, clock, list, disk, op, kills>>

\* One node referring to n less; the last one takes n and what n refers to along.
Released(n, refs) ==
  IF n \notin dirties
  THEN /\ UNCHANGED <<dirties, parents, list>>
       /\ op' = [Idle EXCEPT !.kind = "drop", !.refs = refs]
  ELSE LET left == IF parents[n] > 0 THEN parents[n] - 1 ELSE 0
       IN /\ parents' = [parents EXCEPT ![n] = left]
          /\ IF left > 0
             THEN /\ UNCHANGED <<dirties, list>>
                  /\ op' = [Idle EXCEPT !.kind = "drop", !.refs = refs]
             ELSE /\ dirties' = dirties \ {n} /\ list' = Unlinked(list, n)
                  /\ op' = [Idle EXCEPT !.kind = "drop",
                               !.refs = refs \cup ({n} \X (Kids[n] \cup children[n]))]

\* Dereference: a block falls out of the window
Dereference(r) ==
  /\ op = Idle /\ users[r] > 0
  /\ users' = [users EXCEPT ![r] = @ - 1]
  /\ rooted' = [rooted EXCEPT ![r] = IF @ > 0 THEN @ - 1 ELSE 0]
  /\ Released(r, {})
  /\ UNCHANGED <<children, age, clock, disk, kills>>

Drop(ref) ==
  /\ Doing("drop") /\ ref \in op.refs
  /\ Released(ref[2], op.refs \ {ref})
  /\ UNCHANGED <<children, rooted, age, clock, disk, users, kills>>

Dropped ==
  /\ Doing("drop") /\ op.refs = {} /\ op' = Idle
  /\ UNCHANGED <<cacheVars, disk, users, kills>>

\* Written nodes leave the cache; nobody counts their references down.
Forget(S) ==
  /\ dirties' = dirties \ S
  /\ parents' = [n \in Nodes |-> IF n \in S THEN 0 ELSE parents[n]]
  /\ children' = [n \in Nodes |-> IF n \in S THEN {} ELSE children[n]]
  /\ age' = [n \in Nodes |-> IF n \in S THEN 0 ELSE age[n]]

\* Cap: the oldest nodes are written, one batch after the other, and then forgotten.
BeginCap ==
  /\ op = Idle /\ dirties # {}
  /\ op' = [Idle EXCEPT !.kind = "cap"]
  /\ UNCHANGED <<cacheVars, disk, users, kills>>

\* mutant: the newest nodes are written first
CapNewest(n) ==
  /\ Doing("cap") /\ n \in dirties \ op.done
  /\ \A m \in dirties \ op.done : age[m] <= age[n]
  /\ disk' = disk \cup {n} /\ op' = [op EXCEPT !.done = @ \cup {n}]
  /\ UNCHANGED <<cacheVars, users, kills>>

CapWrite(n) ==
  /\ Doing("cap") /\ n \in dirties \ op.done
  /\ \A m \in dirties \ op.done : age[n] <= age[m]
  /\ disk' = disk \cup {n} /\ op' = [op EXCEPT !.done = @ \cup {n}]
  /\ UNCHANGED <<cacheVars, users, kills>>

EndCap ==
  /\ Doing("cap")
  /\ Forget(op.done) /\ list' = FrontCut(list, op.done)
  /\ op' = Idle
  /\ UNCHANGED <<rooted, clock, disk, users, kills>>

\* Commit: the cached part of a state, children first.
Recorded(n) == Kids[n] \cup children[n]
CachedBelow(r) ==
  {n \in dirties : \A S \in SUBSET dirties :
     (r \in dirties => r \in S) /\ (\A m \in S : Recorded(m) \cap dirties \subseteq S) => n \in S}

BeginCommit(r) ==
  /\ \/ op = Idle /\ (users[r] > 0 \/ r \in disk)
     \/ Doing("link") /\ op.todo = {} /\ r = op.root
  /\ op' = [Idle EXCEPT !.kind = "commit", !.todo = CachedBelow(r)]
  /\ UNCHANGED <<cacheVars, disk, users, kills>>

CommitWrite(n) ==
  /\ Doing("commit") /\ n \in op.todo /\ Recorded(n) \cap op.todo = {}
  /\ disk' = disk \cup {n} /\ op' = [op EXCEPT !.todo = @ \ {n}, !.done = @ \cup {n}]
  /\ UNCHANGED <<cacheVars, users, kills>>

\* A batch has been written, and the cleaner goes over it.
Uncache ==
  /\ Doing("commit") /\ op.done # {}
  /\ Forget(op.done)
  /\ list' = FoldSet(LAMBDA n, l : Unlinked(l, n), list, op.done)
  /\ op' = [op EXCEPT !.done = {}]
  /\ UNCHANGED <<rooted, clock, disk, users, kills>>

EndCommit ==
  /\ Doing("commit") /\ op.todo = {} /\ op.done = {} /\ op' = Idle
  /\ UNCHANGED <<cacheVars, disk, users, kills>>

\* A batch cannot be written, and Cap or Commit returns.
WriteFails ==
  /\ Doing("cap") \/ (Doing("commit") /\ op.done = {})
  /\ op' = Idle
  /\ UNCHANGED <<cacheVars, disk, users, kills>>

\* The process dies and comes back.
Kill ==
  /\ kills < MaxKills /\ kills' = kills + 1
  /\ dirties' = {} /\ parents' = [n \in Nodes |-> 0] /\ children' = [n \in Nodes |-> {}]
  /\ rooted' = [n \in Nodes |-> 0] /\ users' = [n \in Nodes |-> 0]
  /\ list' = EmptyList /\ op' = Idle
  /\ age' = [n \in Nodes |-> 0] /\ UNCHANGED <<clock, disk>>

TrieNext ==
  \/ \E r \in StateRoots : BeginUpdate(r) \/ Reference(r) \/ Dereference(r) \/ BeginCommit(r)
  \/ \E n \in Nodes : Insert(n) \/ Link(n) \/ CapWrite(n) \/ CommitWrite(n)
  \/ \E ref \in op.refs : Drop(ref)
  \/ Inserted \/ Keep \/ Dropped \/ BeginCap \/ EndCap \/ Uncache \/ EndCommit \/ WriteFails \/ Kill

TrieSpec == TrieInit /\ [][TrieNext]_trieVars

-----------------------------------------------------------------------------
(* What the cache promises.                                                *)

TrieTypeOK ==
  /\ dirties \subseteq Nodes /\ disk \subseteq Nodes /\ clock \in Nat
  /\ parents \in [Nodes -> Nat] /\ rooted \in [Nodes -> Nat] /\ users \in [Nodes -> Nat]
  /\ children \in [Nodes -> SUBSET Nodes] /\ age \in [Nodes -> Nat]
  /\ op.todo \subseteq Nodes /\ op.new \subseteq Nodes /\ op.done \subseteq Nodes
  /\ op.refs \subseteq Nodes \X Nodes

\* However states share nodes, and whatever is dropped, flushed or inserted again, a
\* state that some block needs can be read, and so can all a cached node refers to,
\* also between two batches of Cap and Commit.
StatesReadable == Whole(Have) /\ \A r \in Nodes : users[r] > 0 => r \in Have

\* A node on disk has its whole subtree on disk, at every moment the process can be
\* killed: HasState looks at the root only.
DiskWhole == Whole(disk)

\* Both together.
StatesKept == StatesReadable /\ DiskWhole

\* Who refers to a node, or did until it was dropped a moment ago.
Referents(n) == {p \in Nodes : (p \in dirties /\ n \in Recorded(p)) \/ <<p, n>> \in op.refs}

\* A node that is only in memory is counted by exactly those that refer to it.
CountsExact == \A n \in dirties \ disk : parents[n] = Cardinality(Referents(n)) + rooted[n]

\* The flush list runs through the cached nodes from the oldest to the newest, both ways.
Walk[i \in 0..Cardinality(Nodes)] == IF i = 0 THEN list.oldest ELSE list.next[Walk[i - 1]]
FlushListSound ==
  LET n == Cardinality(dirties)
  IN /\ {Walk[i] : i \in 0..(n - 1)} = dirties /\ Walk[n] = Zero
     /\ n > 0 => list.newest = Walk[n - 1]
     /\ \A i \in 1..(n - 1) : list.prev[Walk[i]] = Walk[i - 1] /\ age[Walk[i - 1]] < age[Walk[i]]

\* The books of the cache: the counts of the nodes and the flush list.
CacheSound == TrieTypeOK /\ CountsExact /\ FlushListSound

\* "Dangling trie nodes after full cleanup" (blockchain.go:932) are never there.
NothingDangles == op = Idle /\ (\A r \in Nodes : users[r] = 0) => dirties = {}
=============================================================================
