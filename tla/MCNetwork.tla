----------------------------- MODULE MCNetwork -----------------------------
(***************************************************************************)
(* Where the head of the chain comes from and who hears of it, each part   *)
(* on its own: the signers of clique (part 1), the skeleton of headers     *)
(* under a head told by the consensus client (part 2), a feed of events    *)
(* (part 3), the server with its peers (part 4), and the fetcher of        *)
(* announced blocks (part 5).                                              *)
(***************************************************************************)
EXTENDS Clique, Skeleton, Feed, PeerServer, BlockFetcher

CONSTANTS peer1, peer2, g, a1, a2, a3, a4, b3, b4,
          listener1, listener2, listener3, node1, node2, teller1, teller2
VARIABLE part
networkVars == <<part, cliqueVars, skVars, feedVars, peerVars, blockVars>>

\* Three signers and an account to vote in, where a signer votes twice in an epoch of
\* four blocks; and four signers, where the limit of three exceeds the first numbers.
MCAddresses == 1..4
MCGenesisLists == {1..3, 1..4}

\* Two branches of four blocks that part after the second.
MCSkParent == [b \in SkBlocks |->
  CASE b = a2 -> a1 [] b \in {a3, b3} -> a2 [] b = a4 -> a3 [] b = b4 -> b3 [] OTHER -> g]
MCSkNumber == [b \in SkBlocks |->
  CASE b = g -> 0 [] b = a1 -> 1 [] b = a2 -> 2 [] b \in {a3, b3} -> 3 [] OTHER -> 4]

\* The unused parts stay where they start.
NetworkInit ==
    /\ part \in 1..5 /\ CliqueInit /\ SkeletonInit /\ FeedInit /\ PeerInit /\ BlockFetcherInit
    /\ part # 1 => key = 1 /\ snap.signers = 1..3
    /\ part # 5 => headersOnly
NetworkNext ==
    /\ UNCHANGED part
    /\ \/ part = 1 /\ CliqueNext /\ UNCHANGED <<skVars, feedVars, peerVars, blockVars>>
       \/ part = 2 /\ SkeletonNext /\ UNCHANGED <<cliqueVars, feedVars, peerVars, blockVars>>
       \/ part = 3 /\ FeedNext /\ UNCHANGED <<cliqueVars, skVars, peerVars, blockVars>>
       \/ part = 4 /\ PeerNext /\ UNCHANGED <<cliqueVars, skVars, feedVars, blockVars>>
       \/ part = 5 /\ BlockFetcherNext /\ UNCHANGED <<cliqueVars, skVars, feedVars, peerVars>>
NetworkSpec == NetworkInit /\ [][NetworkNext]_networkVars
=============================================================================
