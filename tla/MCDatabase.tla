---------------------------- MODULE MCDatabase ----------------------------
(***************************************************************************)
(* What is under the chain, each part on its own: the cache of trie nodes  *)
(* (part 1), the freezer of old blocks (part 2), and the download of the   *)
(* state at a pivot block (part 3).                                        *)
(***************************************************************************)
EXTENDS TrieDatabase, Freezer, SnapSync

CONSTANTS r1, r2, n1, n2, st, code1, code2
VARIABLE part
databaseVars == <<part, trieVars, freezerVars, syncVars>>

\* Two states that share an account node; both account nodes have the same storage trie.
MCKids == [n \in Nodes |-> IF n = r1 THEN {n1} ELSE IF n = r2 THEN {n1, n2} ELSE {}]
MCStorage == [n \in Nodes |-> IF n \in {n1, n2} THEN {st} ELSE {}]

\* Three accounts: one with one slot, one with three, of which one changes and one goes
\* with the pivot, and one that gets other code.
Contract(root, code) == [nonce |-> 1, root |-> root, code |-> code]
MCStates ==
  << (0 :> Contract(3 :> 1, code1)) @@ (1 :> Contract((0 :> 1) @@ (1 :> 1) @@ (2 :> 1), NoCode))
       @@ (2 :> Contract(NoLeaves, code1)),
     (0 :> Contract(3 :> 1, code1)) @@ (1 :> Contract((0 :> 2) @@ (1 :> 1), NoCode))
       @@ (2 :> Contract(NoLeaves, code2)) >>

DatabaseInit == part \in {1, 2, 3} /\ TrieInit /\ FreezerInit /\ SyncInit
DatabaseNext ==
    /\ UNCHANGED part
    /\ \/ part = 1 /\ TrieNext /\ UNCHANGED <<freezerVars, syncVars>>
       \/ part = 2 /\ FreezerNext /\ UNCHANGED <<trieVars, syncVars>>
       \/ part = 3 /\ SyncNext /\ UNCHANGED <<trieVars, freezerVars>>
DatabaseSpec == DatabaseInit /\ [][DatabaseNext]_databaseVars
=============================================================================
