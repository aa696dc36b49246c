----------------------------- MODULE MCDownload -----------------------------
(***************************************************************************)
(* A sync from its start to its end, each part on its own: the queue of    *)
(* block parts under faults (part 1), the pivot of a snap sync (part 2),   *)
(* and the search for the common ancestor (part 3).                        *)
(***************************************************************************)
EXTENDS MCDownloadQueue, PivotSync, Ancestor

VARIABLE part
downloadVars == <<part, vars, pivotVars, ancestorVars>>

\* Around the distances and batches of a request (2, 16, 192), the first blocks, and
\* the floor.
MCHeights == {0, 1, 2, 3, 16, 17, 33, 34, 90, 100, 101, 102, 190, 191, 193, 194, 202, 205}

\* The unused parts stay where they start.
DownloadInit ==
    /\ part \in {1, 2, 3} /\ Init /\ PivotInit /\ AncestorInit
    /\ part # 1 => mode = "full" /\ last = 1 /\ beacon /\ peers = Peers
    /\ part # 2 => ~legacy
    /\ part # 3 => heights = [local |-> 0, remote |-> 0, fork |-> 0]
DownloadNext ==
    /\ UNCHANGED part
    /\ \/ part = 1 /\ Next /\ UNCHANGED <<pivotVars, ancestorVars>>
       \/ part = 2 /\ PivotNext /\ UNCHANGED <<vars, ancestorVars>>
       \/ part = 3 /\ AncestorNext /\ UNCHANGED <<vars, pivotVars>>
DownloadSpec == DownloadInit /\ [][DownloadNext]_downloadVars
=============================================================================
