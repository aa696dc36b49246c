---------------------------- MODULE StateJournal ----------------------------
(***************************************************************************)
(* core/state: StateDB, its state objects and its journal, between the EVM *)
(* and the account trie and snapshot of the parent block.                  *)
(*                                                                         *)
(* A transaction writes state objects through journalled operations, takes *)
(* snapshots and reverts to them; Finalise moves the dirty slots of the    *)
(* addresses the journal names to the pending ones; IntermediateRoot       *)
(* flushes pending objects to the tries and to the changes meant for the   *)
(* snapshot tree; Commit hands both over to the next block's StateDB.      *)
(*                                                                         *)
(* A trie and a snapshot are maps; objects are loaded when a StateDB opens *)
(* (the code loads them on first use, from the same place).                *)
(***************************************************************************)
EXTENDS Naturals, Integers, Sequences, FiniteSets

CONSTANTS
  Addrs,        \* account addresses
  Ripemd,       \* address 0x03, which touch() treats specially
  Slots,        \* storage keys
  Words,        \* storage values, 0 among them
  Byzantium,    \* one root per block; before, one per transaction
  EIP158,       \* empty accounts are deleted, created ones start at nonce 1
  None,         \* nil: no object, no account
  Genesis,      \* the accounts of the first block's parent state
  MaxBal, MaxNonce, MaxEntries, MaxRevisions, MaxTxs, MaxBlocks  \* bounds

ASSUME WordsAssumption == 0 \in Words /\ Words \subseteq Nat
ASSUME ForkAssumption == {Byzantium, EIP158} \subseteq BOOLEAN /\ (Byzantium => EIP158)

Unset == -1  \* no entry of a Storage map for the key
NoWrites == [k \in Slots |-> Unset]
Zeros == [k \in Slots |-> 0]
NoWorld == [a \in Addrs |-> None]

Stored == [bal : 0 .. MaxBal, nonce : 0 .. MaxNonce, code : BOOLEAN, root : [Slots -> Words]]

\* A state object, and an account as the EVM sees it.
Object == [bal : 0 .. MaxBal, nonce : 0 .. MaxNonce, code : BOOLEAN, root : [Slots -> Words],
           origin : [Slots -> Words \cup {Unset}], pending : [Slots -> Words \cup {Unset}],
           dirty : [Slots -> Words \cup {Unset}],
           dirtyCode : BOOLEAN, suicided : BOOLEAN, deleted : BOOLEAN]

Seen == [bal : 0 .. MaxBal, nonce : 0 .. MaxNonce, code : BOOLEAN, store : [Slots -> Words],
         dead : BOOLEAN]

ASSUME NilAssumption == None \notin Stored /\ None \notin Object /\ None \notin Seen

ASSUME GenesisAssumption == Genesis \in [Addrs -> Stored \cup {None}]
ASSUME BoundsAssumption ==
  {MaxBal, MaxNonce, MaxEntries, MaxRevisions, MaxTxs, MaxBlocks} \subseteq Nat /\ MaxNonce >= 1

VARIABLES
  useSnap,    \* s.snap # nil: the node keeps a snapshot of the parent state
  trie,       \* s.trie: account trie, with the changes IntermediateRoot wrote
  base,       \* the account trie of the parent block (s.originalRoot)
  flat,       \* s.snap: account and slots of every address in the parent block
  codes,      \* addresses whose contract code is in the database
  objs,       \* stateObjects
  journal,    \* journal.entries
  dirties,    \* journal.dirties
  pending,    \* stateObjectsPending
  dirty,      \* stateObjectsDirty
  destructs,  \* snapDestructs
  snapAcc,    \* snapAccounts
  snapSto,    \* snapStorage
  revisions,  \* the journalIndex of each of validRevisions
  mode,       \* "run", or "revert" inside journal.revert
  target,     \* the journal length journal.revert unwinds to
  building,   \* EVM: addresses whose constructors this transaction has started
  txs, blocks,
  saved,      \* ghost: the accounts as they were at each revision
  goal        \* ghost: the accounts a running revert must reach

diskVars == <<useSnap, trie, base, flat, codes>>
liveVars == <<objs, journal, dirties, destructs>>
flushVars == <<pending, dirty, snapAcc, snapSto>>
revVars == <<revisions, mode, target, saved, goal>>
evmVars == <<building, txs, blocks>>
vars == <<diskVars, liveVars, flushVars, revVars, evmVars>>

-----------------------------------------------------------------------------
(* State objects.                                                          *)

NewObject == [bal |-> 0, nonce |-> 0, code |-> FALSE, root |-> Zeros, origin |-> NoWrites,
              pending |-> NoWrites, dirty |-> NoWrites,
              dirtyCode |-> FALSE, suicided |-> FALSE, deleted |-> FALSE]

\* newObject from the account a trie or a snapshot holds
Loaded(acct) ==
  IF acct = None THEN None
  ELSE [NewObject EXCEPT !.bal = acct.bal, !.nonce = acct.nonce, !.code = acct.code,
                         !.root = acct.root]

\* The objects a StateDB opened on the given trie and snapshot sees.
OpenObjects(tr, sn) ==
  [a \in Addrs |-> Loaded(IF useSnap THEN sn[a].acct ELSE tr[a])]

IsLive(o, a) == o[a] # None /\ ~o[a].deleted
IsEmpty(obj) == obj.bal = 0 /\ obj.nonce = 0 /\ ~obj.code

\* (mutant) the snapshot is asked about accounts destructed in this block too
CommittedUnaware(obj, a, k, destr) ==
  IF obj.pending[k] # Unset THEN obj.pending[k]
  ELSE IF obj.origin[k] # Unset THEN obj.origin[k]
  ELSE IF useSnap THEN flat[a].slots[k] ELSE obj.root[k]

\* stateObject.GetCommittedState; destr is snapDestructs
Committed(obj, a, k, destr) ==
  IF obj.pending[k] # Unset THEN obj.pending[k]
  ELSE IF obj.origin[k] # Unset THEN obj.origin[k]
  ELSE IF useSnap THEN (IF a \in destr THEN 0 ELSE flat[a].slots[k])
  ELSE obj.root[k]

\* stateObject.GetState
GetState(obj, a, k, destr) ==
  IF obj.dirty[k] # Unset THEN obj.dirty[k] ELSE Committed(obj, a, k, destr)

\* GetState fills originStorage, except for an account destructed in this block.
Read(obj, a, k, destr) ==
  IF \/ obj.dirty[k] # Unset \/ obj.pending[k] # Unset
     \/ useSnap /\ obj.origin[k] = Unset /\ a \in destr
    THEN obj
    ELSE [obj EXCEPT !.origin[k] = Committed(obj, a, k, destr)]

\* The accounts as the EVM sees them through StateDB's getters.
View(o, destr) ==
  [a \in Addrs |->
     IF IsLive(o, a)
       THEN [bal |-> o[a].bal, nonce |-> o[a].nonce, code |-> o[a].code,
             store |-> [k \in Slots |-> GetState(o[a], a, k, destr)], dead |-> o[a].suicided]
       ELSE None]

\* An account of a trie, as the EVM will see it.
AccountView(acct) ==
  IF acct = None THEN None
  ELSE [bal |-> acct.bal, nonce |-> acct.nonce, code |-> acct.code, store |-> acct.root,
        dead |-> FALSE]

-----------------------------------------------------------------------------
(* The journalled part of StateDB, as a value: its operations are chained. *)

Live == [o |-> objs, j |-> journal, d |-> dirties, x |-> destructs]

SetLive(s) == objs' = s.o /\ journal' = s.j /\ dirties' = s.d /\ destructs' = s.x

\* journalEntry.dirtied: a resetObjectChange names no address
Dirtied(e) == IF e.op = "reset" THEN {} ELSE {e.addr}

\* journal.append
Journal(s, op, a, prev) ==
  LET e == [op |-> op, addr |-> a, prev |-> prev]
  IN [s EXCEPT !.j = Append(s.j, e),
               !.d = [b \in Addrs |-> IF b \in Dirtied(e) THEN s.d[b] + 1 ELSE s.d[b]]]

\* (mutant) a deleted predecessor is not put in the journal
CreateObjectForgetful(s, a) ==
  IF ~IsLive(s.o, a)
    THEN [Journal(s, "create", a, None) EXCEPT !.o[a] = NewObject,
            !.x = IF useSnap /\ s.o[a] # None THEN @ \cup {a} ELSE @]
    ELSE [Journal(s, "reset", a, [obj |-> s.o[a], destruct |-> a \in s.x]) EXCEPT
            !.o[a] = NewObject,
            !.x = IF useSnap THEN @ \cup {a} ELSE @]

\* createObject: the object it replaces, deleted or not, goes to the journal,
\* and its storage in the parent's snapshot is marked destructed.
CreateObject(s, a) ==
  IF s.o[a] = None
    THEN [Journal(s, "create", a, None) EXCEPT !.o[a] = NewObject]
    ELSE [Journal(s, "reset", a, [obj |-> s.o[a], destruct |-> a \in s.x]) EXCEPT
            !.o[a] = NewObject,
            !.x = IF useSnap THEN @ \cup {a} ELSE @]

GetOrNew(s, a) == IF IsLive(s.o, a) THEN s ELSE CreateObject(s, a)

JSetBalance(s, a, v) == [Journal(s, "balance", a, s.o[a].bal) EXCEPT !.o[a].bal = v]

\* (mutant) no special treatment of the precompile
PlainTouch(s, a) == Journal(s, "touch", a, None)

\* stateObject.touch
Touch(s, a) ==
  LET t == Journal(s, "touch", a, None)
  IN IF a = Ripemd THEN [t EXCEPT !.d[a] = @ + 1] ELSE t

\* stateObject.AddBalance on the object GetOrNewStateObject finds or makes
JAddBalance(s0, a, v) ==
  LET s == GetOrNew(s0, a)
  IN IF v # 0 THEN JSetBalance(s, a, s.o[a].bal + v)
     ELSE IF IsEmpty(s.o[a]) THEN Touch(s, a) ELSE s

JSetNonce(s, a, n) == [Journal(s, "nonce", a, s.o[a].nonce) EXCEPT !.o[a].nonce = n]

JSetCode(s, a) ==
  [Journal(s, "code", a, s.o[a].code) EXCEPT !.o[a].code = TRUE, !.o[a].dirtyCode = TRUE]

\* stateObject.SetState
JSetState(s0, a, k, w) ==
  LET s == [s0 EXCEPT !.o[a] = Read(s0.o[a], a, k, s0.x)]
      prev == GetState(s.o[a], a, k, s.x)
  IN IF prev = w THEN s
     ELSE [Journal(s, "storage", a, <<k, prev>>) EXCEPT !.o[a].dirty[k] = w]

JSuicide(s, a) ==
  [Journal(s, "suicide", a, <<s.o[a].suicided, s.o[a].bal>>) EXCEPT
     !.o[a].suicided = TRUE, !.o[a].bal = 0]

\* CreateAccount: the balance of a live predecessor is carried over, unjournalled.
CreateAccount(s, a) ==
  LET t == CreateObject(s, a)
  IN IF IsLive(s.o, a) THEN [t EXCEPT !.o[a].bal = s.o[a].bal] ELSE t

\* The predecessor is back, and so is its destruct mark.
UndoReset(s, e) ==
  [s EXCEPT !.o[e.addr] = e.prev.obj, !.x = IF e.prev.destruct THEN @ ELSE @ \ {e.addr}]

\* journalEntry.revert of each kind of entry
Undo(s, e) ==
  LET a == e.addr
  IN CASE e.op = "create"  -> [s EXCEPT !.o[a] = None]
       [] e.op = "reset"   -> UndoReset(s, e)
       [] e.op = "suicide" -> IF IsLive(s.o, a)
                                THEN [s EXCEPT !.o[a].suicided = e.prev[1], !.o[a].bal = e.prev[2]]
                                ELSE s
       [] e.op = "balance" -> [s EXCEPT !.o[a].bal = e.prev]
       [] e.op = "nonce"   -> [s EXCEPT !.o[a].nonce = e.prev]
       [] e.op = "code"    -> [s EXCEPT !.o[a].code = e.prev, !.o[a].dirtyCode = TRUE]
       [] e.op = "storage" -> [s EXCEPT !.o[a].dirty[e.prev[1]] = e.prev[2]]
       [] e.op = "touch"   -> s

\* One turn of journal.revert's loop: undo the last entry, drop its dirty count.
UndoLast(s) ==
  LET e == s.j[Len(s.j)]
      t == Undo(s, e)
  IN [t EXCEPT !.j = SubSeq(s.j, 1, Len(s.j) - 1),
               !.d = [b \in Addrs |-> IF b \in Dirtied(e) THEN s.d[b] - 1 ELSE s.d[b]]]

-----------------------------------------------------------------------------
(* End of transaction and of block.                                        *)

\* The objects Finalise visits: some address in dirties may have no object.
Touched == {a \in Addrs : dirties[a] > 0 /\ objs[a] # None}
Dies(a) == objs[a].suicided \/ (EIP158 /\ IsEmpty(objs[a]))

\* stateObject.finalise
MoveDirty(obj) ==
  [obj EXCEPT !.pending = [k \in Slots |-> IF obj.dirty[k] # Unset THEN obj.dirty[k] ELSE @[k]],
              !.dirty = NoWrites]

\* (mutant) what an earlier transaction of the block wrote stays for the snapshot
SlotsKeptOfAll(dead) == snapSto

\* Slot changes for the snapshot that outlive the deaths of a Finalise
SlotsKept(dead) == [a \in Addrs |-> IF a \in dead THEN NoWrites ELSE snapSto[a]]

\* The outcome of Finalise(EIP158), as a value.
Finalised ==
  LET dead == {a \in Touched : Dies(a)}
  IN [o |-> [a \in Addrs |-> IF a \in dead THEN [objs[a] EXCEPT !.deleted = TRUE]
                             ELSE IF a \in Touched THEN MoveDirty(objs[a]) ELSE objs[a]],
      pending   |-> pending \cup Touched,
      dirty     |-> dirty \cup Touched,
      destructs |-> IF useSnap THEN destructs \cup dead ELSE destructs,
      acc       |-> [a \in Addrs |-> IF a \in dead THEN None ELSE snapAcc[a]],
      sto       |-> SlotsKept(dead)]

\* Slots updateTrie writes: those that differ from the value it takes for the original.
Changed(obj) ==
  {k \in Slots : /\ obj.pending[k] # Unset
                 /\ obj.pending[k] # IF obj.origin[k] = Unset THEN 0 ELSE obj.origin[k]}

\* stateObject.updateTrie and updateRoot
UpdateRoot(obj) ==
  LET f == MoveDirty(obj)
      New(m) == [k \in Slots |-> IF k \in Changed(f) THEN f.pending[k] ELSE m[k]]
  IN [f EXCEPT !.origin = New(@), !.root = New(@), !.pending = NoWrites]

AccountOf(obj) == [bal |-> obj.bal, nonce |-> obj.nonce, code |-> obj.code, root |-> obj.root]

\* IntermediateRoot after its Finalise: pending objects go to the trie, and to
\* the changes for the snapshot tree.
Flushed(f) ==
  LET upd == {a \in f.pending : ~f.o[a].deleted}
      o2  == [a \in Addrs |-> IF a \in upd THEN UpdateRoot(f.o[a]) ELSE f.o[a]]
  IN [o    |-> o2,
      trie |-> [a \in Addrs |-> IF a \in upd THEN AccountOf(o2[a])
                                ELSE IF a \in f.pending THEN None ELSE trie[a]],
      acc  |-> [a \in Addrs |-> IF useSnap /\ a \in upd THEN AccountOf(o2[a]) ELSE f.acc[a]],
      sto  |-> [a \in Addrs |-> [k \in Slots |->
                  IF useSnap /\ a \in upd /\ k \in Changed(MoveDirty(f.o[a]))
                    THEN o2[a].root[k] ELSE f.sto[a][k]]]]

\* snaps.Update: the parent's layer under this block's changes
NextLayer(destr, acc, sto) ==
  [a \in Addrs |->
     [acct  |-> IF acc[a] # None THEN acc[a] ELSE IF a \in destr THEN None ELSE flat[a].acct,
      slots |-> [k \in Slots |-> IF sto[a][k] # Unset THEN sto[a][k]
                                 ELSE IF a \in destr THEN 0 ELSE flat[a].slots[k]]]]

\* clearJournalAndRefund: the dirty counts go with the journal, if it has entries
ClearJournal ==
  /\ journal' = << >>
  /\ dirties' = IF journal # << >> THEN [a \in Addrs |-> 0] ELSE dirties
  /\ revisions' = << >> /\ saved' = << >>
  /\ UNCHANGED <<mode, target, goal>>

-----------------------------------------------------------------------------
Init ==
  /\ useSnap \in BOOLEAN
  /\ base = Genesis /\ trie = Genesis
  /\ flat = [a \in Addrs |-> [acct  |-> Genesis[a],
                              slots |-> IF Genesis[a] = None THEN Zeros ELSE Genesis[a].root]]
  /\ codes = {a \in Addrs : Genesis[a] # None /\ Genesis[a].code}
  /\ objs = OpenObjects(trie, flat)
  /\ journal = << >> /\ dirties = [a \in Addrs |-> 0]
  /\ pending = {} /\ dirty = {} /\ destructs = {}
  /\ snapAcc = [a \in Addrs |-> None] /\ snapSto = [a \in Addrs |-> NoWrites]
  /\ revisions = << >> /\ mode = "run" /\ target = 0
  /\ building = {} /\ txs = 0 /\ blocks = 0
  /\ saved = << >> /\ goal = NoWorld

Running == mode = "run" /\ blocks < MaxBlocks

\* The journalled part that an operation of the EVM leaves.
Leave(s) ==
  /\ Running
  /\ Len(s.j) <= MaxEntries
  /\ \A a \in Addrs : s.d[a] <= MaxEntries + 1
  /\ SetLive(s)
  /\ UNCHANGED <<diskVars, flushVars, revVars, txs, blocks>>

Do(s) == Leave(s) /\ UNCHANGED building

BalanceOf(a) == IF IsLive(objs, a) THEN objs[a].bal ELSE 0

\* A contract whose code may run, its constructor included.
IsContract(a) == IsLive(objs, a) /\ (objs[a].code \/ a \in building)

\* The receiving half of a transfer, a reward or a refund; for an address
\* without account, evm.Call's CreateAccount comes to the same.
AddBalance(a, v) == BalanceOf(a) + v <= MaxBal /\ Do(JAddBalance(Live, a, v))

\* No key and no code of its own: nothing is sent or created from the precompile.
Acts(a) == a # Ripemd

\* The paying half: CanTransfer was checked.
SubBalance(a, v) == Acts(a) /\ v > 0 /\ BalanceOf(a) >= v /\ Do(JSetBalance(Live, a, objs[a].bal - v))

SetNonce(a) ==
  Acts(a) /\ IsLive(objs, a) /\ objs[a].nonce < MaxNonce /\ Do(JSetNonce(Live, a, objs[a].nonce + 1))

SetCode(a) == IsContract(a) /\ ~objs[a].code /\ Do(JSetCode(Live, a))

SetState(a, k, w) == IsContract(a) /\ Do(JSetState(Live, a, k, w))

\* SLOAD: only the cache of original values changes.
LoadSlot(a, k) ==
  IsContract(a) /\ Do([Live EXCEPT !.o[a] = Read(objs[a], a, k, destructs)])

Suicide(a) == IsContract(a) /\ Do(JSuicide(Live, a))

\* evm.create once the address is found free: CreateAccount, SetNonce, Transfer.
\* An address is created at once only; again only when its contract was
\* destructed (CREATE2): no storage is left there.
Create(a, v) ==
  LET s1 == CreateAccount(Live, a)
      s2 == IF EIP158 THEN JSetNonce(s1, a, 1) ELSE s1
  IN /\ Acts(a)
     /\ IsLive(objs, a) =>
          /\ objs[a].nonce = 0 /\ ~objs[a].code
          /\ objs[a].root = Zeros /\ objs[a].pending = NoWrites /\ objs[a].dirty = NoWrites
     /\ BalanceOf(a) + v <= MaxBal
     /\ Leave(JAddBalance(s2, a, v))
     /\ building' = building \cup {a}

\* StateDB.Snapshot
Snapshot ==
  /\ Running
  /\ Len(revisions) < MaxRevisions
  /\ revisions' = Append(revisions, Len(journal))
  /\ saved' = Append(saved, View(objs, destructs))
  /\ UNCHANGED <<diskVars, liveVars, flushVars, mode, target, goal, evmVars>>

\* RevertToSnapshot: the i-th valid revision is the one asked for.
StartRevert(i) ==
  /\ Running
  /\ mode' = "revert"
  /\ target' = revisions[i]
  /\ goal' = saved[i]
  /\ revisions' = SubSeq(revisions, 1, i - 1)
  /\ saved' = SubSeq(saved, 1, i - 1)
  /\ UNCHANGED <<diskVars, liveVars, flushVars, evmVars>>

UndoEntry ==
  /\ mode = "revert" /\ Len(journal) > target
  /\ SetLive(UndoLast(Live))
  /\ dirty' = IF journal[Len(journal)].op = "create"
                THEN dirty \ {journal[Len(journal)].addr} ELSE dirty
  /\ UNCHANGED <<diskVars, pending, snapAcc, snapSto, revVars, evmVars>>

FinishRevert ==
  /\ mode = "revert" /\ Len(journal) = target
  /\ mode' = "run" /\ target' = 0 /\ goal' = NoWorld
  /\ UNCHANGED <<diskVars, liveVars, flushVars, revisions, saved, evmVars>>

\* applyTransaction's Finalise, or IntermediateRoot before Byzantium.
EndTx ==
  /\ Running /\ txs < MaxTxs
  /\ txs' = txs + 1 /\ building' = {}
  /\ pending' = IF Byzantium THEN Finalised.pending ELSE {}
  /\ dirty' = Finalised.dirty
  /\ destructs' = Finalised.destructs
  /\ IF Byzantium
       THEN /\ objs' = Finalised.o
            /\ snapAcc' = Finalised.acc /\ snapSto' = Finalised.sto
            /\ UNCHANGED trie
       ELSE /\ objs' = Flushed(Finalised).o
            /\ snapAcc' = Flushed(Finalised).acc /\ snapSto' = Flushed(Finalised).sto
            /\ trie' = Flushed(Finalised).trie
  /\ ClearJournal
  /\ UNCHANGED <<useSnap, base, flat, codes, blocks>>

\* Commit, after which the next block opens a StateDB on the new root; a state
\* that did not change leaves the snapshot tree alone.
Commit ==
  LET f == Finalised
      g == Flushed(f)
      layer == IF useSnap /\ g.trie # base THEN NextLayer(f.destructs, g.acc, g.sto) ELSE flat
  IN /\ Running
     /\ blocks' = blocks + 1 /\ txs' = 0 /\ building' = {}
     /\ trie' = g.trie /\ base' = g.trie
     /\ flat' = layer
     /\ codes' = codes \cup {a \in f.dirty : ~g.o[a].deleted /\ g.o[a].code /\ g.o[a].dirtyCode}
     /\ objs' = OpenObjects(g.trie, layer)
     /\ journal' = << >> /\ dirties' = [a \in Addrs |-> 0]
     /\ pending' = {} /\ dirty' = {} /\ destructs' = {}
     /\ snapAcc' = [a \in Addrs |-> None] /\ snapSto' = [a \in Addrs |-> NoWrites]
     /\ revisions' = << >> /\ saved' = << >>
     /\ UNCHANGED <<useSnap, mode, target, goal>>

\* StateDB.Copy between transactions, the copy taking over: objects that are
\* neither dirty nor pending are left behind, and so is the journal.
Copy ==
  LET kept == Touched \cup pending \cup dirty
  IN /\ Running /\ journal = << >> /\ revisions = << >>
     /\ objs' = [a \in Addrs |-> IF a \in kept THEN objs[a] ELSE OpenObjects(trie, flat)[a]]
     /\ pending' = pending \cup Touched /\ dirty' = dirty \cup Touched
     /\ dirties' = [a \in Addrs |-> 0]
     /\ UNCHANGED <<diskVars, journal, destructs, snapAcc, snapSto, revVars, evmVars>>

Amounts == 0 .. MaxBal

Next ==
  \/ \E a \in Addrs, v \in Amounts : AddBalance(a, v) \/ SubBalance(a, v) \/ Create(a, v)
  \/ \E a \in Addrs : SetNonce(a) \/ SetCode(a) \/ Suicide(a)
  \/ \E a \in Addrs, k \in Slots : LoadSlot(a, k) \/ \E w \in Words : SetState(a, k, w)
  \/ Snapshot
  \/ \E i \in DOMAIN revisions : StartRevert(i)
  \/ UndoEntry \/ FinishRevert
  \/ EndTx \/ Commit \/ Copy

Spec == Init /\ [][Next]_vars

-----------------------------------------------------------------------------
(* Properties.                                                             *)

Now == View(objs, destructs)

\* What each kind of journal entry remembers.
Remembers(e) ==
  CASE e.op = "reset"   -> e.prev.obj \in Object /\ e.prev.destruct \in BOOLEAN
    [] e.op = "suicide" -> e.prev[1] \in BOOLEAN /\ e.prev[2] \in 0 .. MaxBal
    [] e.op = "balance" -> e.prev \in 0 .. MaxBal
    [] e.op = "nonce"   -> e.prev \in 0 .. MaxNonce
    [] e.op = "code"    -> e.prev \in BOOLEAN
    [] e.op = "storage" -> e.prev[1] \in Slots /\ e.prev[2] \in Words
    [] OTHER            -> e.op \in {"create", "touch"} /\ e.prev = None

\* Every part of the StateDB has its type: balances and nonces stay in range,
\* and an entry remembers what its undoing needs.
TypeOK ==
  /\ useSnap \in BOOLEAN
  /\ trie \in [Addrs -> Stored \cup {None}] /\ base \in [Addrs -> Stored \cup {None}]
  /\ flat \in [Addrs -> [acct : Stored \cup {None}, slots : [Slots -> Words]]]
  /\ objs \in [Addrs -> Object \cup {None}]
  /\ \A i \in DOMAIN journal : journal[i].addr \in Addrs /\ Remembers(journal[i])
  /\ dirties \in [Addrs -> Nat]
  /\ {pending, dirty, destructs, codes, building} \subseteq SUBSET Addrs
  /\ snapAcc \in [Addrs -> Stored \cup {None}]
  /\ snapSto \in [Addrs -> [Slots -> Words \cup {Unset}]]
  /\ \A i \in DOMAIN revisions : revisions[i] \in 0 .. Len(journal)
  /\ mode \in {"run", "revert"} /\ target \in 0 .. Len(journal)
  /\ txs \in 0 .. MaxTxs /\ blocks \in 0 .. MaxBlocks

EntryCount(a) == Cardinality({i \in DOMAIN journal : a \in Dirtied(journal[i])})

\* StateDB keeps the promise of WorldState: every getter returns what was last
\* written, a revert returns every account to what it was, whatever the mix of
\* journal entries, cached slots, deleted objects, tries and snapshots.
Abstract == INSTANCE WorldState WITH
  world <- IF mode = "revert" THEN goal ELSE Now,
  saved <- saved, Absent <- None, DeleteEmpty <- EIP158,
  Amounts <- Amounts \cup (0 .. MaxNonce)

KeepsPromise == Abstract!Spec

\* The dirty count of an address is the number of journal entries that name
\* it; only the RIPEMD hack counts more.
DirtyCountsEntries ==
  \A a \in Addrs : dirties[a] >= EntryCount(a) /\ (a # Ripemd => dirties[a] = EntryCount(a))

\* An address that Finalise and IntermediateRoot will not visit is stored as
\* the EVM sees it: no write is lost.
NoLostWrite ==
  mode = "run" =>
    \A a \in Addrs : dirties[a] = 0 /\ a \notin pending => Now[a] = AccountView(trie[a])

\* IntermediateRoot, Commit and journal.revert dereference objects by address
\* without checking that they are there.
NoNilObject ==
  /\ \A a \in pending \cup dirty : objs[a] # None
  /\ mode = "revert" /\ Len(journal) > target =>
       LET e == journal[Len(journal)]
       IN e.op \in {"balance", "nonce", "code", "storage"} => IsLive(objs, e.addr)

\* The snapshot layer of a block holds what its account trie holds.
SnapAgrees ==
  useSnap => \A a \in Addrs : /\ flat[a].acct = base[a]
                              /\ base[a] # None => flat[a].slots = base[a].root

\* A touch of the RIPEMD precompile outlives its own revert: the account, empty,
\* is still deleted at the end of the transaction, as mainnet's history has it.
TouchSurvivesRevert ==
  [][\A i \in DOMAIN journal :
       mode = "revert" /\ journal[i].addr = Ripemd /\ journal[i].op = "touch" => dirties'[Ripemd] > 0]_vars

\* The code of every committed contract is in the database.
CodeStored == \A a \in Addrs : base[a] # None /\ base[a].code => a \in codes

\* What a transaction writes gets to the trie, and what gets to the trie gets to the
\* snapshot: neither is left with a value of before a destruction, a re-creation or
\* a revert.
WritesArrive == TypeOK /\ NoLostWrite /\ SnapAgrees

\* The books of the journal: what is pending has an object, what is dirty has an
\* entry, what is committed has its code.
BooksSound == NoNilObject /\ DirtyCountsEntries /\ CodeStored

=============================================================================
