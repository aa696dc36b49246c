--------------------------- MODULE MCTransactions ---------------------------
(***************************************************************************)
(* Where transactions live before they are mined, each part on its own:    *)
(* the fetcher of announced ones (part 1) and the pool (part 2).           *)
(***************************************************************************)
EXTENDS TxFetcher, TxPool

CONSTANTS x, y, x0, x1, x2, r1, y0, g, a1, b1, b2
VARIABLE part
transactionVars == <<part, fetcherVars, poolVars>>

\* Account x has x0, x1 and x2, and r1 to replace x1; account y has y0.
MCFrom == [t \in Txs |-> IF t = y0 THEN y ELSE x]
MCTxNonce == [t \in Txs |-> IF t \in {x0, y0} THEN 0 ELSE IF t = x2 THEN 2 ELSE 1]
MCPrice == [t \in Txs |-> IF t = r1 THEN 3 ELSE IF t = y0 THEN 1 ELSE 2]
MCCost == [t \in Txs |-> IF t = r1 THEN 2 ELSE 1]

\* Two blocks on the first one, and b2 on b1; on that side balances are lower.
MCMother == [b \in PoolBlocks |-> IF b = b2 THEN b1 ELSE g]
MCLine == [b \in PoolBlocks |-> IF b = g THEN {g} ELSE IF b = b2 THEN {b2, b1, g} ELSE {b, g}]
MCHeight == [b \in PoolBlocks |-> IF b = g THEN 0 ELSE IF b = b2 THEN 2 ELSE 1]
MCBlockTxs == [b \in PoolBlocks |-> IF b = a1 THEN {x0, r1} ELSE IF b = b1 THEN {y0} ELSE {}]
MCBalance == [b \in PoolBlocks |-> [a \in Accounts |-> IF b \in {b1, b2} THEN 1 ELSE 2]]
MCPrices == <<1, 2>>

TransactionsInit == part \in {1, 2} /\ FetcherInit /\ PoolInit
TransactionsNext ==
    /\ UNCHANGED part
    /\ \/ part = 1 /\ FetcherNext /\ UNCHANGED poolVars
       \/ part = 2 /\ PoolNext /\ UNCHANGED fetcherVars
TransactionsSpec == TransactionsInit /\ [][TransactionsNext]_transactionVars
=============================================================================
