---------------------------- MODULE MCCallTrace ----------------------------
(* Instances of CallTrace: one block processor, a processor with the       *)
(* prefetcher of the next block, a processor with an RPC call.             *)
EXTENDS CallTrace

CONSTANTS blk, pre, rpc

MCEvms == {blk}
MCPrefetchEvms == {blk, pre}
MCSharedEvms == {blk, rpc}

MCPrefetch == [e \in Evms |-> e = pre]
MCKind == [e \in Evms |-> IF e = blk THEN "block" ELSE "call"]

\* Bound: the other EVM runs one transaction of one call.
OtherIsShort == \A e \in Evms \ {blk} : txn[e] <= 1 /\ calls[e] <= 1

=============================================================================
