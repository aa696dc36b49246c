-------------------------- MODULE MCDownloadQueue --------------------------
(***************************************************************************)
(* Two peers for DownloadQueue, the second of which is asked for one       *)
(* header at a time, and the faults of a sync by its mode and length.      *)
(***************************************************************************)
EXTENDS DownloadQueue, TLC

CONSTANTS first, second

MCRoom == [x \in Peers |-> IF x = first THEN 2 ELSE 1]

\* Two faults of a full sync of one header, one of two headers; one of a snap
\* sync of one header.
MCBudget == [m \in Modes |-> [n \in Headers |->
               CASE m = "full" /\ n = 1 -> 2
                 [] (m = "full" /\ n = 2) \/ (m = "snap" /\ n = 1) -> 1
                 [] OTHER -> 0]]

\* One fault of a sync of one header.
MCFewFaults == [m \in Modes |-> [n \in Headers |-> IF m = "full" /\ n = 1 THEN 1 ELSE 0]]
=============================================================================
