----------------------------- MODULE CallTrace -----------------------------
(***************************************************************************)
(* The transaction tracer this fork adds to go-ethereum: the package-level *)
(* buffers and counters of mgologger/DBLogger.go, the hooks the EVM calls  *)
(* on every call, create and opcode (core/vm/evm.go, core/vm/              *)
(* interpreter.go, core/evm.go), and applyTransaction, which resets the    *)
(* trace before a transaction and stores it after (core/state_processor).  *)
(*                                                                         *)
(* The buffers are global: every EVM of the process writes the same ones.  *)
(* An EVM here is one of                                                   *)
(*   - "block": driven by applyTransaction (block import, or the miner),   *)
(*   - "call":  driven by a bare ApplyMessage (an RPC eth_call),           *)
(* and is a prefetcher when its Config.Prefetch is set (state_prefetcher). *)
(*                                                                         *)
(* A log is a set of rows: the order of rows is left out, and the ghost    *)
(* fields of a row (tx, ord, lineage, frameIdx, value) say what really     *)
(* produced it.  A frame without code is one that returns with no opcode.  *)
(***************************************************************************)
EXTENDS Naturals, Integers, FiniteSets

CONSTANTS
  Evms,        \* the EVM instances of the process
  Prefetch,    \* evm.Prefetch of each EVM
  Kind,        \* "block" (applyTransaction) or "call" (ApplyMessage) of each EVM
  Values,      \* amounts of a native transfer, 0 among them
  MaxDepth,    \* params.CallCreateDepth, 1024 in the code
  WordSize,    \* 2^64: the range of uint and uint64
  MaxCalls,    \* bound: calls one transaction enters
  MaxTxs       \* bound: transactions one EVM runs

ASSUME PrefetchAssumption == Prefetch \in [Evms -> BOOLEAN]
ASSUME KindAssumption ==
  /\ Kind \in [Evms -> {"block", "call"}]
  \* Prefetch is only set by statePrefetcher, which uses ApplyMessage
  /\ \A e \in Evms : Prefetch[e] => Kind[e] = "call"
ASSUME ValuesAssumption == Values \subseteq Nat /\ 0 \in Values
ASSUME MaxDepthAssumption == MaxDepth \in Nat
ASSUME BoundsAssumption ==
  /\ MaxCalls \in Nat /\ MaxTxs \in Nat /\ WordSize \in Nat
  /\ MaxCalls < WordSize

VARIABLES
  TraceIndex,     \* mgologger.TraceIndex
  CallStack,      \* mgologger.CallStack
  opTrace,        \* mgologger.opTrace
  funcTrace,      \* mgologger.funcTrace
  transferTrace,  \* mgologger.transferTrace
  docs,           \* documents inserted into the collection
  skipped,        \* transactions WriteEntry returned early for
  Depth,          \* evm.Depth of each EVM
  CallIndex,      \* evm.CallIndex of each EVM
  frame,          \* the activation of Call/CallCode/.../create at each level
  phase,          \* where each EVM is in applyTransaction
  txn,            \* transactions the EVM has started
  calls,          \* calls its current transaction entered
  ran             \* whether its current transaction reached contract code

traceVars == <<TraceIndex, CallStack, opTrace, funcTrace, transferTrace>>
storeVars == <<docs, skipped>>
evmVars   == <<Depth, CallIndex, frame, phase, txn, calls, ran>>
vars      == <<traceVars, storeVars, evmVars>>

-----------------------------------------------------------------------------
CallTypes == {"CALL", "CALLCODE", "DELEGATECALL", "STATICCALL", "CREATE"}

\* The levels of the call stack: evm.Depth at the moment a call is made.
Levels == 0 .. MaxDepth

\* (mutant) Call too would undo its TraceIndex++.
AllDecrement == CallTypes

\* The calls that undo their TraceIndex++ once logged: all but Call.
Decrementing == CallTypes \ {"CALL"}

TxIds == Evms \X (0 .. MaxTxs)
TxOf(e) == <<e, txn[e]>>

Frame == [typ : CallTypes, idx : Int, ord : 0 .. MaxCalls,
          code : BOOLEAN, value : Values]

NoFrame == [typ |-> "CALL", idx |-> 0, ord |-> 0, code |-> FALSE, value |-> 0]

OpRow == [tx : TxIds, frameIdx : Int, callindex : Int, depth : 1 .. (MaxDepth + 1)]

\* uint(traceIndexCopy), uint64(traceIndexCopy)
ToUint(i) == i % WordSize

\* CallStack[1:depth+1]; a call at depth 0 prints an empty list.
StackPath(cs, depth) == [i \in 1 .. depth |-> cs[i]]

\* The indices of the calls open in EVM e at levels 1 .. depth
Lineage(e, depth) == [i \in 1 .. depth |-> frame[e][i].idx]

\* in.readOnly: some open frame is a STATICCALL
ReadOnly(e) == \E k \in Levels : k < Depth[e] /\ frame[e][k].typ = "STATICCALL"

\* evm.Depth > int(params.CallCreateDepth) is refused.
DepthAllowed(e) == Depth[e] <= MaxDepth

\* EVM e is about to make a call: the message call of a transaction, or an
\* opcode of the contract at the top of its stack.
CanCall(e) ==
  \/ phase[e] = "top"
  \/ phase[e] = "run" /\ frame[e][Depth[e] - 1].code

\* (mutant) interpreter.Run without its deferred decrement
LeaveRunLeaks(e) == Depth' = Depth

\* defer func() { in.evm.Depth-- }() of interpreter.Run
LeaveRun(e) == Depth' = [Depth EXCEPT ![e] = @ - 1]

-----------------------------------------------------------------------------
(* The logger's own functions.                                             *)

\* (mutant) InitTrace without opTrace.Reset()
InitTraceKeepsOps ==
  /\ UNCHANGED opTrace
  /\ funcTrace' = {}
  /\ transferTrace' = {}
  /\ CallStack' = [k \in Levels |-> 0]
  /\ TraceIndex' = 0

\* mgologger.InitTrace: the loop stops one short of the array's last slot
InitTrace ==
  /\ opTrace' = {}
  /\ funcTrace' = {}
  /\ transferTrace' = {}
  /\ CallStack' = [k \in Levels |-> IF k < MaxDepth THEN 0 ELSE CallStack[k]]
  /\ TraceIndex' = 0

\* mgologger.AddOpLog, for the opcode the frame at level depth - 1 executes
AddOpLog(e, depth) ==
  opTrace' = IF Prefetch[e] THEN opTrace
             ELSE opTrace \cup {[tx        |-> TxOf(e),
                                 frameIdx  |-> frame[e][depth - 1].idx,
                                 callindex |-> CallIndex[e],
                                 depth     |-> depth]}

\* mgologger.AddFuncLog, called when frame f at level depth has finished
AddFuncLog(e, f, depth) ==
  funcTrace' = funcTrace \cup
    {[tx      |-> TxOf(e),
      ord     |-> f.ord,
      index   |-> f.idx,
      typ     |-> f.typ,
      depth   |-> depth,
      logged  |-> IF f.typ = "CREATE" THEN 0 ELSE f.value,
      value   |-> f.value,
      path    |-> StackPath(CallStack, depth),
      lineage |-> Lineage(e, depth)]}

\* core.Transfer, with mgologger.AddTransferLog: called before the call
\* takes its own slot of CallStack
TransferRowOf(e, v) ==
  [tx      |-> TxOf(e),
   depth   |-> Depth[e],
   index   |-> TraceIndex,
   value   |-> v,
   path    |-> StackPath(CallStack, Depth[e]),
   lineage |-> Lineage(e, Depth[e])]

AddTransferLog(e, v) ==
  transferTrace' = IF Prefetch[e] THEN transferTrace
                   ELSE transferTrace \cup {TransferRowOf(e, v)}

\* (mutant) The slot of CallStack is read before it is written.
StaleCallIndex(e) == CallStack[Depth[e]]

\* The value evm.CallIndex takes when a call enters.
EnteredCallIndex(e) == ToUint(TraceIndex)

-----------------------------------------------------------------------------
Init ==
  /\ TraceIndex = 0
  /\ CallStack = [k \in Levels |-> 0]
  /\ opTrace = {} /\ funcTrace = {} /\ transferTrace = {}
  /\ docs = {} /\ skipped = {}
  /\ Depth = [e \in Evms |-> 0]
  /\ CallIndex = [e \in Evms |-> 0]
  /\ frame = [e \in Evms |-> [k \in Levels |-> NoFrame]]
  /\ phase = [e \in Evms |-> "idle"]
  /\ txn = [e \in Evms |-> 0]
  /\ calls = [e \in Evms |-> 0]
  /\ ran = [e \in Evms |-> FALSE]

\* applyTransaction up to ApplyMessage; precacheTransaction and DoCall reset
\* their EVM but not the trace.
StartTx(e) ==
  /\ phase[e] = "idle"
  /\ txn[e] < MaxTxs
  /\ txn' = [txn EXCEPT ![e] = @ + 1]
  /\ calls' = [calls EXCEPT ![e] = 0]
  /\ ran' = [ran EXCEPT ![e] = FALSE]
  /\ phase' = [phase EXCEPT ![e] = "top"]
  /\ IF Kind[e] = "block" THEN InitTrace ELSE UNCHANGED traceVars
  /\ UNCHANGED <<storeVars, Depth, CallIndex, frame>>

\* TransitionDb returns an error: the transaction is invalid, nothing is stored.
RejectTx(e) ==
  /\ phase[e] = "top"
  /\ phase' = [phase EXCEPT ![e] = "idle"]
  /\ UNCHANGED <<traceVars, storeVars, Depth, CallIndex, frame, txn, calls, ran>>

\* The message call returns before it logs anything: a value-less call of an
\* absent account, or a create whose address is taken.
SkipTopCall(e) ==
  /\ phase[e] = "top"
  /\ phase' = [phase EXCEPT ![e] = "returned"]
  /\ UNCHANGED <<traceVars, storeVars, Depth, CallIndex, frame, txn, calls, ran>>

\* Call of a precompiled contract: only the transfer is logged, and the CALL
\* opcode that made it.
CallPrecompile(e, v) ==
  /\ CanCall(e)
  /\ DepthAllowed(e)
  /\ ReadOnly(e) => v = 0
  /\ AddTransferLog(e, v)
  /\ IF Depth[e] = 0
       THEN /\ phase' = [phase EXCEPT ![e] = "returned"]
            /\ UNCHANGED opTrace
       ELSE /\ AddOpLog(e, Depth[e])
            /\ UNCHANGED phase
  /\ UNCHANGED <<TraceIndex, CallStack, funcTrace, storeVars,
                 Depth, CallIndex, frame, txn, calls, ran>>

\* Call, CallCode, DelegateCall, StaticCall or create, up to interpreter.Run.
EnterCall(e, typ, hasCode, v) ==
  /\ CanCall(e)
  /\ phase[e] = "top" => typ \in {"CALL", "CREATE"}
  /\ DepthAllowed(e)
  /\ calls[e] < MaxCalls
  /\ typ \in {"DELEGATECALL", "STATICCALL"} => v = 0
  /\ ReadOnly(e) => typ # "CREATE" /\ (typ = "CALL" => v = 0)
  /\ IF typ \in {"CALL", "CREATE"} THEN AddTransferLog(e, v) ELSE UNCHANGED transferTrace
  /\ IF Prefetch[e]
       THEN UNCHANGED <<TraceIndex, CallStack, CallIndex>>
       ELSE /\ TraceIndex' = TraceIndex + 1
            /\ CallStack' = [CallStack EXCEPT ![Depth[e]] = ToUint(TraceIndex)]
            /\ CallIndex' = [CallIndex EXCEPT ![e] = EnteredCallIndex(e)]
  /\ frame' = [frame EXCEPT ![e][Depth[e]] =
                 [typ |-> typ, idx |-> IF Prefetch[e] THEN 0 ELSE TraceIndex,
                  ord |-> calls[e] + 1, code |-> hasCode, value |-> v]]
  /\ Depth' = [Depth EXCEPT ![e] = @ + 1]
  /\ phase' = [phase EXCEPT ![e] = "run"]
  /\ calls' = [calls EXCEPT ![e] = @ + 1]
  /\ ran' = [ran EXCEPT ![e] = @ \/ hasCode]
  /\ UNCHANGED <<opTrace, funcTrace, storeVars, txn>>

\* One turn of the interpreter's loop for an opcode that enters no frame: any
\* opcode but a call, or a call refused (depth, balance, absent callee).
ExecOp(e) ==
  /\ phase[e] = "run"
  /\ frame[e][Depth[e] - 1].code
  /\ AddOpLog(e, Depth[e])
  /\ UNCHANGED <<TraceIndex, CallStack, funcTrace, transferTrace, storeVars, evmVars>>

\* interpreter.Run returns (STOP, RETURN, an error, out of gas before an opcode)
\* and the call that made it logs the frame; a calling opcode then logs itself.
ReturnCall(e) ==
  LET d == Depth[e] - 1
      f == frame[e][d]
  IN /\ phase[e] = "run"
     /\ IF Prefetch[e]
          THEN UNCHANGED <<TraceIndex, funcTrace>>
          ELSE /\ AddFuncLog(e, f, d)
               /\ TraceIndex' = IF f.typ \in Decrementing THEN TraceIndex - 1 ELSE TraceIndex
     /\ IF d = 0
          THEN /\ phase' = [phase EXCEPT ![e] = "returned"]
               /\ UNCHANGED opTrace
          ELSE /\ AddOpLog(e, d)
               /\ UNCHANGED phase
     /\ frame' = [frame EXCEPT ![e][d] = NoFrame]
     /\ LeaveRun(e)
     /\ UNCHANGED <<CallStack, transferTrace, storeVars, CallIndex, txn, calls, ran>>

\* mgologger.WriteEntry after the receipt is made: nothing to store without an
\* opcode row, and an insert the server refuses is only printed.
WriteEntry(e) ==
  /\ IF opTrace = {}
       THEN /\ skipped' = skipped \cup {[tx |-> TxOf(e), ran |-> ran[e]]}
            /\ UNCHANGED docs
       ELSE /\ UNCHANGED skipped
            /\ \/ docs' = docs \cup
                    {[tx |-> TxOf(e), ran |-> ran[e],
                      sources |-> {r.tx : r \in opTrace} \cup {r.tx : r \in funcTrace}
                                    \cup {r.tx : r \in transferTrace}]}
               \/ UNCHANGED docs

\* The tail of applyTransaction; the other drivers only drop the result.
FinishTx(e) ==
  /\ phase[e] = "returned"
  /\ phase' = [phase EXCEPT ![e] = "idle"]
  /\ IF Kind[e] = "block" /\ ~Prefetch[e] THEN WriteEntry(e) ELSE UNCHANGED storeVars
  /\ UNCHANGED <<traceVars, Depth, CallIndex, frame, txn, calls, ran>>

Step(e) ==
  \/ StartTx(e)
  \/ RejectTx(e)
  \/ SkipTopCall(e)
  \/ \E v \in Values : CallPrecompile(e, v)
  \/ \E typ \in CallTypes, hasCode \in BOOLEAN, v \in Values : EnterCall(e, typ, hasCode, v)
  \/ ExecOp(e)
  \/ ReturnCall(e)
  \/ FinishTx(e)

Next == \E e \in Evms : Step(e)

Spec == Init /\ [][Next]_vars

-----------------------------------------------------------------------------
(* Properties.                                                             *)

TraceTypeOK ==
  /\ TraceIndex \in Int
  /\ CallStack \in [Levels -> 0 .. (WordSize - 1)]
  /\ opTrace \subseteq OpRow
  /\ \A r \in funcTrace : /\ r.tx \in TxIds /\ r.typ \in CallTypes /\ r.depth \in Levels
                          /\ r.index \in Int /\ r.ord \in 0 .. MaxCalls
                          /\ {r.path, r.lineage} \subseteq [1 .. r.depth -> Int]
  /\ \A r \in transferTrace : /\ r.tx \in TxIds /\ r.depth \in Levels /\ r.index \in Int
                              /\ {r.path, r.lineage} \subseteq [1 .. r.depth -> Int]

StoreTypeOK ==
  /\ \A d \in docs : d.tx \in TxIds /\ d.ran \in BOOLEAN /\ d.sources \subseteq TxIds
  /\ skipped \subseteq [tx : TxIds, ran : BOOLEAN]

EvmTypeOK ==
  /\ Depth \in [Evms -> 0 .. (MaxDepth + 1)]
  /\ CallIndex \in [Evms -> 0 .. (WordSize - 1)]
  /\ frame \in [Evms -> [Levels -> Frame]]
  /\ phase \in [Evms -> {"idle", "top", "run", "returned"}]
  /\ txn \in [Evms -> 0 .. MaxTxs]
  /\ calls \in [Evms -> 0 .. MaxCalls]
  /\ ran \in [Evms -> BOOLEAN]
  /\ \A e \in Evms : phase[e] = "run" <=> Depth[e] > 0

\* The types, and the interpreter's depth above zero exactly while a call runs.
TypeOK == TraceTypeOK /\ StoreTypeOK /\ EvmTypeOK

\* Every function row prints the indices of exactly the calls it was nested
\* in, although CallStack is never restored when a call returns.
PathIsLineage == \A r \in funcTrace : r.path = r.lineage

\* A transfer row prints the right enclosing calls, up to but not including
\* the call that makes the transfer: that slot of CallStack is not yet written.
TransferPathCaller ==
  \A r \in transferTrace : \A i \in 1 .. (r.depth - 1) : r.path[i] = r.lineage[i]

\* evm.CallIndex is not restored on return, but an opcode row never names a
\* call older than the one that executes the opcode.
OpIndexNotOuter == \A r \in opTrace : r.callindex >= r.frameIdx

\* In a transaction of plain CALLs the rows are numbered in the order the
\* calls started, from 0 (the example of README.md:118-130).
PlainRowsInOrder ==
  \A e \in Evms :
    (\A r \in funcTrace : r.typ = "CALL" /\ r.tx = TxOf(e))
      => \A r \in funcTrace : r.index = r.ord - 1

\* A document is stored only for a transaction that reached contract code:
\* nothing an earlier transaction logged survives InitTrace.
WrittenRanCode == \A d \in docs : d.ran

\* A document holds the rows of its own transaction and of no other
\* (README.md:71-74).
DocPure == \A d \in docs : d.sources \subseteq {d.tx}

\* The row's first value identifies the call (README.md:132).
IndexNamesOneCall ==
  \A r, s \in funcTrace : r.tx = s.tx /\ r.index = s.index => r.ord = s.ord

\* The logged value is the value of the internal transfer (README.md:90).
LoggedValueIsValue == \A r \in funcTrace : r.logged = r.value

-----------------------------------------------------------------------------
(* The case the logger was written for: one EVM, a block processor's, logs. *)

Loggers == {e \in Evms : ~Prefetch[e]}

SoleLogger == \A e \in Loggers : Kind[e] = "block" /\ Loggers = {e}

\* Each open call of the logging EVM finds its index in its slot of the stack.
OpenCallsOnStack ==
  \A e \in Loggers : \A k \in Levels : k < Depth[e] => CallStack[k] = frame[e][k].idx

\* Open calls are numbered upwards from the outermost, below the next index;
\* evm.CallIndex is the innermost of them or a call that has already returned.
OpenIndicesGrow ==
  \A e \in Loggers :
    /\ TraceIndex \in 0 .. calls[e]
    /\ \A k \in Levels : k < Depth[e] => frame[e][k].idx \in 0 .. (TraceIndex - 1)
    /\ \A j, k \in Levels : j < k /\ k < Depth[e] => frame[e][j].idx < frame[e][k].idx
    /\ \A k \in Levels : k < Depth[e] => frame[e][k].idx <= CallIndex[e]

\* A call is made by contract code, and code that runs is noted in ran.
OpenCallersRun ==
  \A e \in Loggers : \A k \in Levels :
    /\ k + 1 < Depth[e] => frame[e][k].code
    /\ k < Depth[e] /\ frame[e][k].code => ran[e]

\* The buffers hold rows of the current transaction only, and an opcode row
\* only when it has run code.
LogsAreCurrent ==
  \A e \in Loggers :
    /\ \A r \in opTrace : r.tx = TxOf(e)
    /\ \A r \in funcTrace : r.tx = TxOf(e)
    /\ \A r \in transferTrace : r.tx = TxOf(e)
    /\ opTrace # {} => ran[e]

\* What the rows of a single logger mean, although CallStack is never popped,
\* TraceIndex goes back and CallIndex is not restored.
RowsOK == PathIsLineage /\ TransferPathCaller /\ OpIndexNotOuter
\* What WriteEntry stores: the rows of a transaction that ran code, and no others.
DocsOK == WrittenRanCode /\ DocPure

\* Inductive when SoleLogger holds.
LoneInv ==
  TypeOK /\ OpenCallsOnStack /\ OpenIndicesGrow /\ OpenCallersRun /\ LogsAreCurrent
  /\ RowsOK /\ DocsOK

=============================================================================
