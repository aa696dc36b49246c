------------------------------- MODULE TxPool -------------------------------
(***************************************************************************)
(* core/tx_pool.go with tx_list.go and tx_noncer.go: the transaction pool. *)
(*                                                                         *)
(* pool holds what pool.mu protects; every operation under the lock is one *)
(* step.  Adding a transaction and asking the reorg loop to promote it are *)
(* two steps, and so are a new head and the reset for it: the loop merges  *)
(* the requests that arrive while a run is active.                         *)
(*                                                                         *)
(* A transaction has a sender, a nonce, a price and a cost; the other      *)
(* checks of validateTx do not depend on the pool.  The two price heaps    *)
(* are abstracted: any remote transaction may be the victim of Discard.    *)
(***************************************************************************)
EXTENDS Integers, FiniteSets, Sequences, SequencesExt, FiniteSetsExt

CONSTANTS Txs, From, TxNonce, Price, Cost, \* transactions
          Accounts,
          PoolBlocks, FirstBlock, Mother, Line, Height, BlockTxs, \* the chain, from the first block on
          Balance,      \* of an account after a block
          PriceBump,    \* percentage
          AccountSlots, GlobalSlots, AccountQueue, GlobalQueue,
          ReorgDepth,   \* the deepest reorg whose transactions are taken back (64)
          Prices,       \* minimal prices an operator may set, ascending
          NoReset,      \* no reset requested
          Panic,        \* the process is gone
          MaxHeads,     \* bound: moves of the head
          MaxAdds       \* bound: batches

Mined(b) == UNION {BlockTxs[c] : c \in Line[b]}
StateNonce(b, a) == Cardinality({t \in Mined(b) : From[t] = a})

Resets == [old : PoolBlocks, new : PoolBlocks]
Runs == [reset : Resets \cup {NoReset}, dirty : SUBSET Accounts]

\* The last conjunct: a chain takes the transactions of an account in the order of
\* their nonces (preCheck of core/state_transition.go).
ASSUME PoolAssumption ==
  /\ IsFiniteSet(Txs) /\ IsFiniteSet(Accounts)
  /\ From \in [Txs -> Accounts] /\ TxNonce \in [Txs -> Nat] /\ Price \in [Txs -> Nat] /\ Cost \in [Txs -> Nat]
  /\ AccountSlots \in Nat /\ GlobalSlots \in Nat /\ AccountQueue \in Nat /\ GlobalQueue \in Nat
  /\ PriceBump \in Nat /\ ReorgDepth \in Nat /\ Prices \in Seq(Nat) \ {<<>>}
  /\ NoReset # Panic /\ NoReset \notin Resets /\ {NoReset, Panic} \cap Runs = {}
  /\ FirstBlock \in PoolBlocks /\ Mother \in [PoolBlocks -> PoolBlocks] /\ Height \in [PoolBlocks -> Nat]
  /\ Line \in [PoolBlocks -> SUBSET PoolBlocks] /\ Line[FirstBlock] = {FirstBlock}
  /\ \A b \in PoolBlocks \ {FirstBlock} : Line[b] = {b} \cup Line[Mother[b]]
  /\ BlockTxs \in [PoolBlocks -> SUBSET Txs] /\ Balance \in [PoolBlocks -> [Accounts -> Nat]]
  /\ \A b \in PoolBlocks, a \in Accounts :
       {TxNonce[t] : t \in {u \in Mined(b) : From[u] = a}} = 0..(StateNonce(b, a) - 1)

VARIABLES pool,      \* the lists, the lookup and the virtual nonces
          gasPrice,
          asking,    \* accounts whose adder has not asked for promotion yet
          heads,     \* chainHeadCh
          loopHead,  \* the head the event loop saw last
          reset, dirty, launch, \* the next run of the reorg loop
          run,       \* the active run
          chain,     \* the chain's head and the blocks SetHead deleted
          skipped,   \* the last reset returned before it changed the state
          torn,      \* accounts whose pending list a reset left with a gap
          adds, headEvents

requestVars == <<asking, reset, dirty, launch>>
chainVars == <<heads, loopHead, chain, headEvents>>
poolVars == <<pool, gasPrice, requestVars, run, chainVars, skipped, torn, adds>>

-----------------------------------------------------------------------------
(* Lists: sets of transactions with one for each nonce of an account.      *)

Of(list, a) == {t \in list : From[t] = a}
Same(list, t) == {u \in list : From[u] = From[t] /\ TxNonce[u] = TxNonce[t]}
Later(list, t) == {u \in list : From[u] = From[t] /\ TxNonce[u] > TxNonce[t]}
Nonces(list, a) == {TxNonce[t] : t \in Of(list, a)}

\* A transaction replaces the one of its nonce if it pays the price bump.
Bumps(t, old) == Price[t] > Price[old] /\ Price[t] >= (Price[old] * (100 + PriceBump)) \div 100
Inserts(list, t) == \A old \in Same(list, t) : Bumps(t, old)

Forget(p, S) == [p EXCEPT !.all = @ \ S, !.remotes = @ \ S]
Lower(p, a, n) == [p EXCEPT !.vnonce[a] = IF n < @ THEN n ELSE @]
PoolLimit == GlobalSlots + GlobalQueue

\* enqueueTx of transactions that leave the pending list: the lookup has them.
Enqueue(p, S) ==
  LET in == {t \in S : Inserts(p.queue, t)}
      old == UNION {Same(p.queue, t) : t \in in}
  IN Forget([p EXCEPT !.queue = (@ \ old) \cup in], old)

\* removeTx: the list entry goes by its nonce; what follows it in the pending list
\* goes back to the queue and the virtual nonce down.
RemoveTx(p, t) ==
  LET a == From[t]
      q == Forget(p, {t})
      later == Later(p.pending, t)
  IN IF t \notin p.all THEN p
     ELSE IF Same(p.pending, t) # {}
     THEN Lower(Enqueue([q EXCEPT !.pending = @ \ (Same(@, t) \cup later)], later), a, TxNonce[t])
     ELSE [q EXCEPT !.queue = @ \ Same(@, t)]

RemoveAll(p, S) ==
  LET order == SetToSeq(S)
      gone[i \in 0..Len(order)] == IF i = 0 THEN p ELSE RemoveTx(gone[i - 1], order[i])
  IN gone[Len(order)]

-----------------------------------------------------------------------------
(* add.                                                                    *)

IsLocal(p, t, local) == local \/ From[t] \in p.locals
Valid(p, t, local) ==
  /\ local \/ Price[t] >= gasPrice
  /\ TxNonce[t] >= StateNonce(p.block, From[t])
  /\ Cost[t] <= Balance[p.block][From[t]]
Underpriced(p, t) == p.remotes # {} /\ \A r \in p.remotes : Price[r] >= Price[t]

\* Discard: the pools after room was made for t, and none if it cannot be made.
\* A local transaction takes what there is.
Room(p, t, local) ==
  LET over == Cardinality(p.all) + 1 - PoolLimit
      some == IF over <= Cardinality(p.remotes) THEN over
              ELSE IF local THEN Cardinality(p.remotes) ELSE 0
  IN IF over <= 0 THEN {p}
     ELSE IF (~local /\ Underpriced(p, t)) \/ p.changes > GlobalSlots \div 4 THEN {}
     ELSE IF over > Cardinality(p.remotes) /\ ~local THEN {}
     ELSE {[RemoveAll(p, drop) EXCEPT !.changes = @ + some] : drop \in kSubset(some, p.remotes)}

Known(p, t, local) ==
  [p EXCEPT !.all = @ \cup {t}, !.remotes = IF local THEN @ ELSE @ \cup {t}]

\* A nonce that is pending is replaced there, if the price is bumped.
Replace(p, t, local) ==
  LET old == Same(p.pending, t)
  IN IF Inserts(p.pending, t)
     THEN Known(Forget([p EXCEPT !.pending = (@ \ old) \cup {t}], old), t, local)
     ELSE p

\* Otherwise the transaction is queued, and its account becomes local with a
\* transaction that is.
EnqueueNew(p, t, local, isLocal) ==
  LET old == Same(p.queue, t)
      q == Known(Forget([p EXCEPT !.queue = (@ \ old) \cup {t}], old), t, isLocal)
  IN IF ~Inserts(p.queue, t) THEN p
     ELSE IF local /\ From[t] \notin p.locals
     THEN [q EXCEPT !.locals = @ \cup {From[t]}, !.remotes = @ \ Of(@, From[t])]
     ELSE q

\* The pools add may leave, with the accounts to promote.
Add(p, t, local) ==
  LET isLocal == IsLocal(p, t, local)
      After(q) == IF Same(q.pending, t) # {} THEN [p |-> Replace(q, t, isLocal), dirty |-> {}]
                  ELSE [p |-> EnqueueNew(q, t, local, isLocal),
                        dirty |-> IF Same(q.queue, t) = {} THEN {From[t]} ELSE {}]
      roomy == IF t \in p.all \/ ~Valid(p, t, isLocal) THEN {} ELSE Room(p, t, isLocal)
  IN IF roomy = {} THEN {[p |-> p, dirty |-> {}]} ELSE {After(q) : q \in roomy}

\* addTxsLocked.
AddAll(p, txs, local) ==
  LET added[i \in 0..Len(txs)] ==
        IF i = 0 THEN {[p |-> p, dirty |-> {}]}
        ELSE UNION {{[r EXCEPT !.dirty = @ \cup s.dirty] : r \in Add(s.p, txs[i], local)} : s \in added[i - 1]}
  IN added[Len(txs)]

-----------------------------------------------------------------------------
(* runReorg.                                                               *)

\* Ready: the run of nonces from the lowest one, if nothing is missing before it.
Ready(list, a, start) ==
  LET low == Min(Nonces(list, a))
  IN IF Of(list, a) = {} \/ low > start THEN {}
     ELSE {t \in Of(list, a) : low..TxNonce[t] \subseteq Nonces(list, a)}

\* Cap: the transactions beyond the first n.
Beyond(list, a, n) ==
  {t \in Of(list, a) : Cardinality({u \in Of(list, a) : TxNonce[u] < TxNonce[t]}) >= n}

Stale(p, list, a) == {t \in Of(list, a) : TxNonce[t] < StateNonce(p.block, a)}
Unpayable(p, list, a) == {t \in Of(list, a) : Cost[t] > Balance[p.block][a]} \ Stale(p, list, a)

\* promoteExecutables of one account.
PromoteAccount(p, a) ==
  LET drops == Stale(p, p.queue, a) \cup Unpayable(p, p.queue, a)
      ready == Ready(p.queue \ drops, a, p.vnonce[a])
      wins == {t \in ready : Inserts(p.pending, t)}
      old == UNION {Same(p.pending, t) : t \in wins}
      rest == p.queue \ (drops \cup ready)
      caps == IF a \in p.locals THEN {} ELSE Beyond(rest, a, AccountQueue)
  IN Forget([p EXCEPT !.pending = (@ \ old) \cup wins, !.queue = rest \ caps,
                      !.vnonce[a] = IF wins = {} THEN @ ELSE 1 + Max({TxNonce[t] : t \in wins})],
            drops \cup (ready \ wins) \cup old \cup caps)

PromoteExecutables(p, addrs) ==
  LET order == SetToSeq(addrs)
      done[i \in 0..Len(order)] == IF i = 0 THEN p ELSE PromoteAccount(done[i - 1], order[i])
  IN done[Len(order)]

\* Mutant of DemoteAccount: what follows an unpayable transaction stays.
DemoteUnpayable(p, a) ==
  LET olds == Stale(p, p.pending, a)
      drops == Unpayable(p, p.pending, a)
      kept == Of(p.pending, a) \ (olds \cup drops)
      gapped == IF StateNonce(p.block, a) \in Nonces(kept, a) THEN {} ELSE kept
      q == [p EXCEPT !.pending = (@ \ Of(@, a)) \cup (kept \ gapped)]
  IN Enqueue(Forget(q, olds \cup drops), gapped)

\* demoteUnexecutables of one account: after an unpayable transaction the rest goes
\* back to the queue, and so does a list that does not start at the state's nonce.
DemoteAccount(p, a) ==
  LET olds == Stale(p, p.pending, a)
      drops == Unpayable(p, p.pending, a)
      kept == Of(p.pending, a) \ (olds \cup drops)
      invalid == {t \in kept : \E d \in drops : TxNonce[t] > TxNonce[d]}
      gapped == IF StateNonce(p.block, a) \in Nonces(kept \ invalid, a) THEN {} ELSE kept \ invalid
      q == [p EXCEPT !.pending = (@ \ Of(@, a)) \cup (kept \ (invalid \cup gapped))]
  IN Enqueue(Forget(q, olds \cup drops), invalid \cup gapped)

DemoteUnexecutables(p) ==
  LET order == SetToSeq(Accounts)
      done[i \in 0..Len(order)] == IF i = 0 THEN p ELSE DemoteAccount(done[i - 1], order[i])
  IN done[Len(order)]

\* setAll: the virtual nonces follow the pending lists.
NoncesOf(p) ==
  [a \in Accounts |-> IF Of(p.pending, a) = {} THEN StateNonce(p.block, a)
                      ELSE 1 + Max(Nonces(p.pending, a))]

\* truncatePending: the longest lists of accounts that are not local lose their last
\* transaction until there are few enough, or none is beyond its allowance.
TruncatePending(p) ==
  LET Size(q, a) == Cardinality(Of(q.pending, a))
      Big(q) == {a \in Accounts \ p.locals : Size(q, a) > AccountSlots}
      Longest(q) == {a \in Big(q) : \A b \in Big(q) : Size(q, b) <= Size(q, a)}
      Cut(q) == LET last == UNION {Beyond(q.pending, a, Size(q, a) - 1) : a \in Longest(q)}
                IN Forget([q EXCEPT !.pending = @ \ last,
                                    !.vnonce = [a \in Accounts |->
                                      IF Of(last, a) = {} THEN @[a]
                                      ELSE Min({@[a]} \cup Nonces(last, a))]], last)
      cut[i \in 0..Cardinality(Txs)] ==
        IF i = 0 THEN p
        ELSE LET q == cut[i - 1]
             IN IF Cardinality(q.pending) <= GlobalSlots \/ Big(q) = {} THEN q ELSE Cut(q)
  IN cut[Cardinality(Txs)]

\* truncateQueue: account by account, by their heartbeats, the last transactions go.
TruncateQueue(p, order) ==
  LET drop(q) == Cardinality(q.queue) - GlobalQueue
      cut[i \in 0..Len(order)] ==
        IF i = 0 THEN p
        ELSE LET q == cut[i - 1]
                 size == Cardinality(Of(q.queue, order[i]))
             IN IF drop(q) <= 0 THEN q
                ELSE RemoveAll(q, Beyond(q.queue, order[i], IF size <= drop(q) THEN 0 ELSE size - drop(q)))
  IN cut[Len(order)]

\* The transactions reset takes back: those of the old chain only.
Reinject(old, new) == Mined(old) \ Mined(new)

\* The two heads are not mother and child, and near enough for a look at the blocks between.
Reorged(old, new) == old # Mother[new] /\ Height[old] - Height[new] \in (-ReorgDepth)..ReorgDepth

\* reset: what it leaves, and whether it returned early: the old head was deleted
\* (and not by a move of the head to a lower number), or the state of the new head
\* cannot be read.
ResetPool(p, old, new, readable) ==
  LET moved == Reorged(old, new)
      lost == old \in chain.gone
      back == IF ~moved \/ lost THEN {} ELSE Reinject(old, new)
      q == [p EXCEPT !.block = new, !.vnonce = [a \in Accounts |-> StateNonce(new, a)]]
  IN IF (moved /\ lost /\ Height[new] >= Height[old]) \/ ~readable
     THEN {[p |-> p, early |-> TRUE]}
     ELSE {[p |-> r.p, early |-> FALSE] :
             r \in UNION {AddAll(q, order, FALSE) : order \in SetToSeqs(back)}}

\* Back through the parents from a new head that was deleted in the meantime: the
\* block is nil and not looked at before it is used.
NilBlock(old, new) ==
  Reorged(old, new) /\ old \notin chain.gone /\ new \in chain.gone

\* The run under the lock.
Reorg(p, r, order) ==
  LET addrs == IF r.reset = NoReset THEN r.dirty ELSE {From[t] : t \in p.queue}
      promoted == PromoteExecutables(p, addrs)
      demoted == DemoteUnexecutables(promoted)
      settled == IF r.reset = NoReset THEN promoted ELSE [demoted EXCEPT !.vnonce = NoncesOf(demoted)]
  IN [TruncateQueue(TruncatePending(settled), order) EXCEPT !.changes = 0]

\* Accounts with transactions that are no longer mined and were not taken back, and
\* those whose pending list is not what the virtual nonce says.
Untaken(old, p) ==
  {From[t] : t \in {u \in Reinject(old, p.block) : TxNonce[u] >= StateNonce(p.block, From[u]) /\ Same(p.pending, u) = {}}}
Broken(p, a) == Nonces(p.pending, a) # StateNonce(p.block, a)..(p.vnonce[a] - 1)

-----------------------------------------------------------------------------
PoolInit ==
  /\ pool = [pending |-> {}, queue |-> {}, all |-> {}, remotes |-> {}, locals |-> {},
             vnonce |-> [a \in Accounts |-> StateNonce(FirstBlock, a)], block |-> FirstBlock, changes |-> 0]
  /\ gasPrice = Head(Prices)
  /\ asking = {} /\ heads = <<>> /\ loopHead = FirstBlock
  /\ reset = NoReset /\ dirty = {} /\ launch = FALSE /\ run = NoReset
  /\ chain = [head |-> FirstBlock, gone |-> {}]
  /\ skipped = FALSE /\ torn = {} /\ adds = 0 /\ headEvents = 0

\* AddRemotes and AddLocals: the part under the lock.
AddTx(t, local) ==
  /\ adds < MaxAdds /\ adds' = adds + 1
  /\ \E r \in Add(pool, t, local) : pool' = r.p /\ asking' = asking \cup r.dirty
  /\ UNCHANGED <<gasPrice, reset, dirty, launch, run, chainVars, skipped, torn>>

\* requestPromoteExecutables, of all who wait.
RequestPromote ==
  /\ asking # {}
  /\ dirty' = dirty \cup asking /\ asking' = {} /\ launch' = TRUE
  /\ UNCHANGED <<pool, gasPrice, reset, run, chainVars, skipped, torn, adds>>

\* The chain moves to a block, that may have come again, and tells so.
NewHead(b) ==
  /\ headEvents < MaxHeads /\ headEvents' = headEvents + 1
  /\ b # chain.head
  /\ chain' = [head |-> b, gone |-> chain.gone \ Line[b]]
  /\ heads' = Append(heads, b)
  /\ UNCHANGED <<pool, gasPrice, requestVars, run, loopHead, skipped, torn, adds>>

\* SetHead deletes all blocks above its target and tells nobody.
SetHeadOfChain(b) ==
  /\ headEvents < MaxHeads /\ headEvents' = headEvents + 1
  /\ b \in Line[chain.head] \ {chain.head}
  /\ chain' = [head |-> b, gone |-> chain.gone \cup {c \in PoolBlocks : Height[c] > Height[b]}]
  /\ UNCHANGED <<pool, gasPrice, requestVars, run, heads, loopHead, skipped, torn, adds>>

\* Mutant of RequestReset: a request that has not run is left as it is.
ResetOnce ==
  /\ heads # <<>>
  /\ reset' = IF reset = NoReset THEN [old |-> loopHead, new |-> Head(heads)] ELSE reset
  /\ loopHead' = Head(heads) /\ heads' = Tail(heads) /\ launch' = TRUE
  /\ UNCHANGED <<pool, gasPrice, asking, dirty, run, chain, headEvents, skipped, torn, adds>>

\* requestReset: a request that has not run keeps its old head.
RequestReset ==
  /\ heads # <<>>
  /\ reset' = [old |-> IF reset = NoReset THEN loopHead ELSE reset.old, new |-> Head(heads)]
  /\ loopHead' = Head(heads) /\ heads' = Tail(heads) /\ launch' = TRUE
  /\ UNCHANGED <<pool, gasPrice, asking, dirty, run, chain, headEvents, skipped, torn, adds>>

\* scheduleReorgLoop starts the next run when none is active.
Launch ==
  /\ run = NoReset /\ launch
  /\ run' = [reset |-> reset, dirty |-> dirty]
  /\ reset' = NoReset /\ dirty' = {} /\ launch' = FALSE
  /\ UNCHANGED <<pool, gasPrice, asking, chainVars, skipped, torn, adds>>

RunReorg ==
  /\ run # NoReset
  /\ run.reset # NoReset => ~NilBlock(run.reset.old, run.reset.new)
  /\ \E order \in SetToSeqs(Accounts \ pool.locals), readable \in BOOLEAN :
       IF run.reset = NoReset
       THEN /\ readable /\ pool' = Reorg(pool, run, order) /\ UNCHANGED <<skipped, torn>>
       ELSE /\ ~readable => run.reset.new # chain.head
            /\ \E r \in ResetPool(pool, run.reset.old, run.reset.new, readable) :
                 /\ pool' = Reorg(r.p, run, order) /\ skipped' = r.early
                 /\ torn' = IF r.early THEN torn
                            ELSE {a \in torn \cup Untaken(pool.block, pool') : Broken(pool', a)}
  /\ run' = NoReset
  /\ UNCHANGED <<gasPrice, requestVars, chainVars, adds>>

\* The reset of a run dereferences the missing block.
PanicInReset ==
  /\ run # NoReset /\ run.reset # NoReset /\ NilBlock(run.reset.old, run.reset.new)
  /\ run' = Panic
  /\ UNCHANGED <<pool, gasPrice, requestVars, chainVars, skipped, torn, adds>>

\* The lifetime of the queue of an account ends.
EvictQueue(a) ==
  /\ a \notin pool.locals /\ Of(pool.queue, a) # {}
  /\ pool' = RemoveAll(pool, Of(pool.queue, a))
  /\ UNCHANGED <<gasPrice, requestVars, run, chainVars, skipped, torn, adds>>

\* SetGasPrice: a higher price drops the remote transactions below it.
SetGasPrice ==
  \E i \in 2..Len(Prices) :
    /\ gasPrice = Prices[i - 1] /\ gasPrice' = Prices[i]
    /\ pool' = RemoveAll(pool, {t \in pool.remotes : Price[t] < gasPrice'})
    /\ UNCHANGED <<requestVars, run, chainVars, skipped, torn, adds>>

PoolNext ==
  /\ run # Panic
  /\ \/ \E t \in Txs, local \in BOOLEAN : AddTx(t, local)
     \/ RequestPromote \/ RequestReset \/ Launch \/ RunReorg \/ PanicInReset \/ SetGasPrice
     \/ \E b \in PoolBlocks : NewHead(b) \/ SetHeadOfChain(b)
     \/ \E a \in Accounts : EvictQueue(a)

PoolSpec == PoolInit /\ [][PoolNext]_poolVars

-----------------------------------------------------------------------------
(* What the pool promises.                                                 *)

PoolTypeOK ==
  /\ pool.pending \subseteq Txs /\ pool.queue \subseteq Txs /\ pool.all \subseteq Txs
  /\ pool.locals \subseteq Accounts /\ pool.block \in PoolBlocks /\ pool.changes \in Nat
  /\ pool.vnonce \in [Accounts -> Nat]
  /\ asking \subseteq Accounts /\ dirty \subseteq Accounts /\ launch \in BOOLEAN /\ torn \subseteq Accounts
  /\ (reset # NoReset \/ dirty # {}) => launch

\* Replacement, eviction, truncation and demotion move a transaction between the two
\* lists and the lookup without losing it: the lookup holds exactly what is listed, a
\* nonce of an account is in one list once, and only transactions of local origin
\* keep the pool above its limit.
ListsAgree ==
  /\ pool.all = pool.pending \cup pool.queue
  /\ pool.remotes \subseteq pool.all
  /\ \A t, u \in pool.all : From[t] = From[u] /\ TxNonce[t] = TxNonce[u] => t = u
  /\ pool.pending \cap pool.queue = {}
  /\ Cardinality(pool.all) > PoolLimit => pool.remotes = {}

\* Whatever is dropped from the middle of a pending list, what is left starts at the
\* nonce of the state the pool was reset to and is payable there, and it goes on
\* without a gap up to the nonce the pool tells wallets to use next.  A gap can only
\* come from a reset that finds transactions mined no more and cannot take them back
\* (see PendingContiguous).
PendingExecutable ==
  \A a \in Accounts :
    LET next == StateNonce(pool.block, a)
    IN /\ \A t \in Of(pool.pending, a) : TxNonce[t] >= next /\ Cost[t] <= Balance[pool.block][a]
       /\ pool.vnonce[a] >= next
       /\ IF Of(pool.pending, a) = {} THEN pool.vnonce[a] = next ELSE next \in Nonces(pool.pending, a)
       /\ Broken(pool, a) => a \in torn

\* The comment at tx_list.go:249-250: the list of the pending ones is contiguous.
PendingContiguous == \A a \in Accounts : ~Broken(pool, a)

\* The lists, the lookup and the virtual nonces are in step.
PoolSound == PoolTypeOK /\ ListsAgree /\ PendingExecutable

Quiet == run = NoReset /\ ~launch /\ heads = <<>> /\ asking = {}

\* Resets that are merged, or wait for the run before them, end with the pool on the head
\* that was told last, unless the reset for it gave up.
FollowsHead == Quiet /\ ~skipped => pool.block = loopHead

\* When no work is left, no queued transaction could be pending (the comment at
\* tx_pool.go:1150: a reset promotes all addresses in the queue).
ReadyIsPromoted == Quiet => \A t \in pool.queue : TxNonce[t] # pool.vnonce[From[t]]

\* The comment at tx_pool.go:1237 (SetHead during a reset is a case of its own): a
\* reset survives the deletion of the blocks it is about.
NeverPanics == run # Panic
=============================================================================
