---------------------------- MODULE MCBlockChain ----------------------------
(***************************************************************************)
(* Small block trees for BlockChain: letters name the forks, digits the    *)
(* numbers of the blocks.                                                  *)
(***************************************************************************)
EXTENDS BlockChain, TLC

CONSTANTS g, a1, a2, b1, b2, b3, c2, t, u

\* Two forks from the genesis block, and a fork from a1.
MCParent == [b \in Blocks |-> CASE b = a2 -> a1 [] b = c2 -> a1
                                [] b = b2 -> b1 [] b = b3 -> b2
                                [] OTHER -> g]
MCChain[b \in Blocks] == IF b = g THEN {g} ELSE {b} \cup MCChain[MCParent[b]]
MCNum == [b \in Blocks |-> Cardinality(MCChain[b]) - 1]
MCOwnRoot == [b \in Blocks |-> b]

\* a1 and b2 tie, b3 is longer than a2 but lighter.
MCDifficulty == [b \in {g, a1, a2, b1, b2, b3, c2} |->
                   CASE b = g -> 1 [] b = b1 -> 2 [] b \in {a1, b2} -> 4
                     [] b = b3 -> 5 [] OTHER -> 6]
MCTD == [b \in Blocks |-> MCDifficulty[b]]

\* Difficulties around a transition at 3: a1 and b2 are terminal, their children
\* are beyond it.
MCMergeTD == [b \in Blocks |-> CASE b = g -> 1 [] b = b1 -> 2 [] b \in {a1, a2, c2} -> 3
                                 [] OTHER -> 4]

\* t and u are mined at different numbers of the two forks.
MCTxs == [b \in Blocks |-> CASE b \in {a2, b1} -> {t} [] b \in {a1, b2} -> {u} [] OTHER -> {}]

\* Two forks of one miner that hold the same transactions meet in one state.
MCMeetingRoot == [b \in Blocks |-> IF b = b2 THEN a2 ELSE b]
=============================================================================
