----------------------------- MODULE WorldState -----------------------------
(***************************************************************************)
(* What core/state.StateDB promises the EVM: a map from addresses to       *)
(* accounts, a stack of saved copies of it, and an end of transaction that *)
(* removes what destructed itself and may remove what was left empty.      *)
(* Nothing of journals, caches, tries or snapshots is visible here.        *)
(***************************************************************************)
EXTENDS Naturals, Sequences

CONSTANTS
  Addrs,       \* account addresses
  Slots,       \* storage keys
  Words,       \* storage values, 0 among them
  Amounts,     \* balances and amounts, nonces
  Absent,      \* the content of an address without an account
  DeleteEmpty  \* EIP-158: accounts left empty may be removed

VARIABLES
  world,  \* the account at each address
  saved   \* the copies Snapshot took, oldest first

vars == <<world, saved>>

NoStore == [k \in Slots |-> 0]
Fresh == [bal |-> 0, nonce |-> 0, code |-> FALSE, store |-> NoStore, dead |-> FALSE]
Exists(a) == world[a] # Absent
Account(a) == IF Exists(a) THEN world[a] ELSE Fresh
Empty(a) == Account(a).bal = 0 /\ Account(a).nonce = 0 /\ ~Account(a).code

Put(a, account) == world' = [world EXCEPT ![a] = account] /\ UNCHANGED saved

-----------------------------------------------------------------------------
AddBalance(a, v) == Put(a, [Account(a) EXCEPT !.bal = @ + v])
SubBalance(a, v) == Account(a).bal >= v /\ Put(a, [Account(a) EXCEPT !.bal = @ - v])
SetNonce(a, n)   == Put(a, [Account(a) EXCEPT !.nonce = n])
SetCode(a)       == Put(a, [Account(a) EXCEPT !.code = TRUE])
SetState(a, k, w) == Put(a, [Account(a) EXCEPT !.store[k] = w])
Suicide(a)       == Exists(a) /\ Put(a, [Account(a) EXCEPT !.bal = 0, !.dead = TRUE])

\* A created account keeps the balance it finds, and nothing else.
Create(a, n, v) == Put(a, [Fresh EXCEPT !.nonce = n, !.bal = Account(a).bal + v])

Snapshot == saved' = Append(saved, world) /\ UNCHANGED world

Revert(i) ==
  /\ i \in DOMAIN saved
  /\ world' = saved[i]
  /\ saved' = SubSeq(saved, 1, i - 1)

EndTx ==
  \E cleared \in SUBSET {a \in Addrs : DeleteEmpty /\ Empty(a)} :
    /\ world' = [a \in Addrs |->
                   IF a \in cleared \/ (Exists(a) /\ Account(a).dead) THEN Absent ELSE world[a]]
    /\ saved' = << >>

Init ==
  /\ world \in [Addrs -> {Absent} \cup [bal : Amounts, nonce : Amounts, code : BOOLEAN,
                                        store : [Slots -> Words], dead : {FALSE}]]
  /\ saved = << >>

Next ==
  \/ \E a \in Addrs : \E v \in Amounts : AddBalance(a, v) \/ SubBalance(a, v)
  \/ \E a \in Addrs : \E n \in Amounts : SetNonce(a, n) \/ \E v \in Amounts : Create(a, n, v)
  \/ \E a \in Addrs : SetCode(a) \/ Suicide(a)
  \/ \E a \in Addrs, k \in Slots, w \in Words : SetState(a, k, w)
  \/ Snapshot
  \/ \E i \in DOMAIN saved : Revert(i)
  \/ EndTx

Spec == Init /\ [][Next]_vars

=============================================================================
