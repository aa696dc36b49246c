--------------------------- MODULE MCStateJournal ---------------------------
(* Instances of StateJournal: a contract with storage, an address without  *)
(* account, and the RIPEMD precompile left as an empty account.            *)
EXTENDS StateJournal

CONSTANTS con, eoa, ripe, k1

MCGenesis ==
  [a \in Addrs |->
     CASE a = con  -> [bal |-> 0, nonce |-> 1, code |-> TRUE, root |-> [k \in Slots |-> 1]]
       [] a = ripe -> [bal |-> 0, nonce |-> 0, code |-> FALSE, root |-> [k \in Slots |-> 0]]
       [] OTHER    -> None]

=============================================================================
