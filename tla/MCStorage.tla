------------------------------ MODULE MCStorage ------------------------------
(***************************************************************************)
(* What is derived from the chain in the background, each part on its own: *)
(* the indices over its sections (part 1) and the state snapshot (part 2). *)
(***************************************************************************)
EXTENDS ChainIndexer, SnapshotTree

CONSTANTS g, a1, a2, a3, a4, b1, b2, b3
VARIABLE part
storageVars == <<part, indexerVars, snapVars>>

\* Two branches on the first block: the two sections of four blocks, and one of three.
MCParentOf == [b \in Headers |->
  CASE b = a2 -> a1 [] b = a3 -> a2 [] b = a4 -> a3
    [] b = b2 -> b1 [] b = b3 -> b2 [] OTHER -> g]
MCNumberOf == [b \in Headers |->
  CASE b = g -> 0 [] b \in {a1, b1} -> 1 [] b \in {a2, b2} -> 2
    [] b \in {a3, b3} -> 3 [] OTHER -> 4]
MCAncestry[b \in Headers] == IF b = g THEN {g} ELSE {b} \cup MCAncestry[MCParentOf[b]]
MCConfirms == <<1, 0>>

\* Account 1 with its slot 2, and account 3; b3 is a sibling of a3.  Account 3
\* is destroyed in a3, account 1 in a4, both come back in a4.
MCOwner == <<1, 1, 3>>
MCRootParent == [r \in Roots |->
  CASE r = a2 -> a1 [] r \in {a3, b3} -> a2 [] r = a4 -> a3 [] OTHER -> g]
MCRootNumber == [r \in Roots |->
  CASE r = g -> 0 [] r = a1 -> 1 [] r = a2 -> 2 [] r = a4 -> 4 [] OTHER -> 3]
Diff(des, set) == [des |-> des, set |-> set]
MCDiffOf == [r \in Roots |->
  CASE r = g  -> Diff({}, (1 :> 1) @@ (2 :> 1) @@ (3 :> 1))
    [] r = a1 -> Diff({}, (1 :> 2) @@ (3 :> 2))
    [] r = a2 -> Diff({}, (1 :> 3) @@ (2 :> 3))
    [] r = a3 -> Diff({3}, (1 :> 4) @@ (2 :> 4))
    [] r = b3 -> Diff({}, (1 :> 5) @@ (2 :> 5))
    [] r = a4 -> Diff({1}, (1 :> 6) @@ (3 :> 6))]

StorageInit == part \in {1, 2} /\ IndexerInit /\ SnapInit
StorageNext ==
    /\ UNCHANGED part
    /\ \/ part = 1 /\ IndexerNext /\ UNCHANGED snapVars
       \/ part = 2 /\ SnapNext /\ UNCHANGED indexerVars
StorageSpec == StorageInit /\ [][StorageNext]_storageVars
=============================================================================
