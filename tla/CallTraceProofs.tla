-------------------------- MODULE CallTraceProofs --------------------------
(* Proofs about CallTrace: its types for any set of EVMs, and what the      *)
(* rows of a trace mean when one EVM alone writes the buffers.              *)
EXTENDS CallTrace, TLAPS

LEMMA WordSizePos == WordSize \in Nat /\ WordSize > 0 /\ MaxCalls \in Nat /\ MaxTxs \in Nat BY BoundsAssumption, SMT

LEMMA ToUintType == \A i \in Int : ToUint(i) \in 0 .. (WordSize - 1) BY WordSizePos, SMT DEF ToUint

LEMMA ToUintId == \A i \in 0 .. MaxCalls : ToUint(i) = i BY WordSizePos, BoundsAssumption, SMT DEF ToUint

LEMMA TxOfType ==
  ASSUME EvmTypeOK, NEW e \in Evms
  PROVE  TxOf(e) \in TxIds BY DEF EvmTypeOK, TxOf, TxIds

LEMMA AddOpLogType ==
  ASSUME EvmTypeOK, TraceTypeOK, NEW e \in Evms, NEW d \in 1 .. (MaxDepth + 1),
         AddOpLog(e, d) PROVE opTrace' \subseteq OpRow
<1>1. TxOf(e) \in TxIds BY TxOfType
<1>2. d - 1 \in Levels BY MaxDepthAssumption, SMT DEF Levels
<1>3. frame[e][d - 1].idx \in Int BY <1>2 DEF EvmTypeOK, Frame
<1>4. CallIndex[e] \in Int BY WordSizePos, SMT DEF EvmTypeOK
<1>5. [tx |-> TxOf(e), frameIdx |-> frame[e][d - 1].idx,
       callindex |-> CallIndex[e], depth |-> d] \in OpRow BY <1>1, <1>3, <1>4 DEF OpRow
<1> QED BY <1>5 DEF AddOpLog, TraceTypeOK

LEMMA PathTypes ==
  ASSUME EvmTypeOK, TraceTypeOK, NEW e \in Evms, NEW d \in Levels
  PROVE  /\ StackPath(CallStack, d) \in [1 .. d -> Int]
         /\ Lineage(e, d) \in [1 .. d -> Int]
<1>1. \A i \in 1 .. d : i \in Levels BY MaxDepthAssumption, SMT DEF Levels
<1>2. \A i \in 1 .. d : CallStack[i] \in Int
  <2> TAKE i \in 1 .. d
  <2>1. CallStack[i] \in 0 .. (WordSize - 1) BY <1>1 DEF TraceTypeOK
  <2> QED BY <2>1, WordSizePos, SMT
<1>3. \A i \in 1 .. d : frame[e][i].idx \in Int BY <1>1 DEF EvmTypeOK, Frame
<1> QED BY <1>2, <1>3 DEF StackPath, Lineage


LEMMA AddFuncLogType ==
  ASSUME TypeOK, NEW e \in Evms, NEW f \in Frame, NEW d \in Levels, AddFuncLog(e, f, d)
  PROVE  \A r \in funcTrace' :
           /\ r.tx \in TxIds /\ r.typ \in CallTypes /\ r.depth \in Levels
           /\ r.index \in Int /\ r.ord \in 0 .. MaxCalls
           /\ {r.path, r.lineage} \subseteq [1 .. r.depth -> Int]
  BY TxOfType, PathTypes DEF TypeOK, Frame, AddFuncLog, TraceTypeOK

LEMMA AddTransferLogType ==
  ASSUME TypeOK, NEW e \in Evms, Depth[e] \in Levels, NEW v, AddTransferLog(e, v)
  PROVE  \A r \in transferTrace' :
           /\ r.tx \in TxIds /\ r.depth \in Levels /\ r.index \in Int
           /\ {r.path, r.lineage} \subseteq [1 .. r.depth -> Int]
  BY TxOfType, PathTypes DEF TypeOK, AddTransferLog, TransferRowOf, TraceTypeOK

LEMMA InitTraceType ==
  ASSUME TraceTypeOK, InitTrace PROVE TraceTypeOK'
<1>1. CallStack' \in [Levels -> 0 .. (WordSize - 1)] BY WordSizePos, SMT DEF InitTrace, TraceTypeOK
<1> QED BY <1>1 DEF InitTrace, TraceTypeOK

\* A call is made at a level the stack has room for.
LEMMA CallLevel ==
  ASSUME TypeOK, NEW e \in Evms, CanCall(e), DepthAllowed(e)
  PROVE  /\ Depth[e] \in Levels
         /\ Depth[e] = 0 <=> phase[e] = "top"
         /\ Depth[e] # 0 => Depth[e] \in 1 .. (MaxDepth + 1)
BY MaxDepthAssumption, SMT DEF TypeOK, EvmTypeOK, CanCall, DepthAllowed, Levels

\* The type invariant holds initially.
LEMMA TypeInit == Init => TypeOK
<1> SUFFICES ASSUME Init PROVE TypeOK OBVIOUS
<1>1. TraceTypeOK BY WordSizePos, SMT DEF Init, TraceTypeOK
<1>2. StoreTypeOK BY DEF Init, StoreTypeOK
<1>3. NoFrame \in Frame BY ValuesAssumption, WordSizePos, SMT DEF NoFrame, Frame, CallTypes
<1>4. EvmTypeOK BY <1>3, WordSizePos, MaxDepthAssumption, SMT DEF Init, EvmTypeOK
<1> QED BY <1>1, <1>2, <1>4 DEF TypeOK

\* Every step keeps the types.
LEMMA TypeNext == TypeOK /\ [Next]_vars => TypeOK'
<1> SUFFICES ASSUME TypeOK, [Next]_vars PROVE TypeOK' OBVIOUS
<1>t. TraceTypeOK /\ StoreTypeOK /\ EvmTypeOK BY DEF TypeOK
<1>1. CASE UNCHANGED vars
  BY <1>1, <1>t DEF vars, traceVars, TraceTypeOK, storeVars, StoreTypeOK, evmVars, EvmTypeOK, TypeOK
<1>2. ASSUME NEW e \in Evms, StartTx(e) PROVE TypeOK'
  <2>1. TraceTypeOK'
    <3>1. CASE Kind[e] = "block" BY <3>1, <1>2, <1>t, InitTraceType DEF StartTx
    <3>2. CASE Kind[e] # "block" BY <3>2, <1>2, <1>t DEF StartTx, traceVars, TraceTypeOK
    <3> QED BY <3>1, <3>2
  <2>2. StoreTypeOK' BY <1>2, <1>t DEF StartTx, storeVars, StoreTypeOK
  <2>3. EvmTypeOK' BY <1>2, <1>t, WordSizePos, SMT DEF StartTx, EvmTypeOK
  <2> QED BY <2>1, <2>2, <2>3 DEF TypeOK
<1>3. ASSUME NEW e \in Evms, RejectTx(e) \/ SkipTopCall(e) PROVE TypeOK'
  BY <1>3, <1>t DEF RejectTx, SkipTopCall, traceVars, TraceTypeOK, storeVars, StoreTypeOK, EvmTypeOK, TypeOK
<1>4. ASSUME NEW e \in Evms, NEW v \in Values, CallPrecompile(e, v) PROVE TypeOK'
  <2>0. CanCall(e) /\ DepthAllowed(e) BY <1>4 DEF CallPrecompile
  <2>l. /\ Depth[e] \in Levels
        /\ Depth[e] = 0 <=> phase[e] = "top"
        /\ Depth[e] # 0 => Depth[e] \in 1 .. (MaxDepth + 1)
    BY <2>0, CallLevel
  <2>1. opTrace' \subseteq OpRow
    <3>1. CASE Depth[e] = 0 BY <3>1, <1>4, <1>t DEF CallPrecompile, TraceTypeOK
    <3>2. CASE Depth[e] # 0 BY <3>2, <2>l, <1>4, <1>t, AddOpLogType DEF CallPrecompile
    <3> QED BY <3>1, <3>2
  <2>2. TraceTypeOK' BY <2>1, <2>l, <1>4, <1>t, AddTransferLogType DEF CallPrecompile, TraceTypeOK
  <2>3. StoreTypeOK' BY <1>4, <1>t DEF CallPrecompile, storeVars, StoreTypeOK
  <2>4. EvmTypeOK' BY <2>l, <1>4, <1>t DEF CallPrecompile, EvmTypeOK
  <2> QED BY <2>2, <2>3, <2>4 DEF TypeOK
<1>5. ASSUME NEW e \in Evms, NEW typ \in CallTypes, NEW hasCode \in BOOLEAN, NEW v \in Values,
             EnterCall(e, typ, hasCode, v) PROVE TypeOK'
  <2>0. CanCall(e) /\ DepthAllowed(e) /\ calls[e] < MaxCalls BY <1>5 DEF EnterCall
  <2>l. Depth[e] \in Levels BY <2>0, CallLevel
  <2>u. ToUint(TraceIndex) \in 0 .. (WordSize - 1) BY <1>t, ToUintType DEF TraceTypeOK
  <2>1. CallStack' \in [Levels -> 0 .. (WordSize - 1)] BY <1>5, <1>t, <2>u, <2>l DEF EnterCall, TraceTypeOK
  <2>2. TraceIndex' \in Int BY <1>5, <1>t, SMT DEF EnterCall, TraceTypeOK
  <2>3. \A r \in transferTrace' :
           /\ r.tx \in TxIds /\ r.depth \in Levels /\ r.index \in Int
           /\ {r.path, r.lineage} \subseteq [1 .. r.depth -> Int]
    <3>1. CASE typ \in {"CALL", "CREATE"} BY <3>1, <1>5, <2>l, AddTransferLogType DEF EnterCall
    <3>2. CASE typ \notin {"CALL", "CREATE"} BY <3>2, <1>5, <1>t DEF EnterCall, TraceTypeOK
    <3> QED BY <3>1, <3>2
  <2>4. TraceTypeOK' BY <2>1, <2>2, <2>3, <1>5, <1>t DEF EnterCall, TraceTypeOK
  <2>5. StoreTypeOK' BY <1>5, <1>t DEF EnterCall, storeVars, StoreTypeOK
  <2>6. CallIndex' \in [Evms -> 0 .. (WordSize - 1)] BY <1>5, <1>t, <2>u DEF EnterCall, EnteredCallIndex, EvmTypeOK
  <2>7. frame' \in [Evms -> [Levels -> Frame]]
    <3>1. [typ |-> typ, idx |-> IF Prefetch[e] THEN 0 ELSE TraceIndex,
           ord |-> calls[e] + 1, code |-> hasCode, value |-> v] \in Frame
      BY <2>0, <1>t, WordSizePos, SMT DEF EvmTypeOK, TraceTypeOK, Frame
    <3> QED BY <3>1, <1>5, <1>t, <2>l DEF EnterCall, EvmTypeOK
  <2>8. calls' \in [Evms -> 0 .. MaxCalls] BY <2>0, <1>5, <1>t, WordSizePos, SMT DEF EnterCall, EvmTypeOK
  <2>9. /\ Depth' \in [Evms -> 0 .. (MaxDepth + 1)]
        /\ phase' \in [Evms -> {"idle", "top", "run", "returned"}]
        /\ \A x \in Evms : phase'[x] = "run" <=> Depth'[x] > 0
    BY <2>0, <1>5, <1>t, MaxDepthAssumption, SMT DEF EnterCall, DepthAllowed, EvmTypeOK
  <2>10. ran' \in [Evms -> BOOLEAN] BY <1>5, <1>t DEF EnterCall, EvmTypeOK
  <2>11. txn' \in [Evms -> 0 .. MaxTxs] BY <1>5, <1>t DEF EnterCall, EvmTypeOK
  <2>12. EvmTypeOK' BY <2>6, <2>7, <2>8, <2>9, <2>10, <2>11 DEF EvmTypeOK
  <2> QED BY <2>4, <2>5, <2>12 DEF TypeOK
<1>6. ASSUME NEW e \in Evms, ExecOp(e) PROVE TypeOK'
  <2>1. Depth[e] \in 1 .. (MaxDepth + 1) BY <1>6, <1>t, MaxDepthAssumption, SMT DEF ExecOp, EvmTypeOK
  <2>2. opTrace' \subseteq OpRow BY <2>1, <1>6, <1>t, AddOpLogType DEF ExecOp
  <2>3. TraceTypeOK' BY <2>2, <1>6, <1>t DEF ExecOp, TraceTypeOK
  <2>4. StoreTypeOK' BY <1>6, <1>t DEF ExecOp, storeVars, StoreTypeOK
  <2>5. EvmTypeOK' BY <1>6, <1>t DEF ExecOp, evmVars, EvmTypeOK
  <2> QED BY <2>3, <2>4, <2>5 DEF TypeOK
<1>7. ASSUME NEW e \in Evms, ReturnCall(e) PROVE TypeOK'
  <2> DEFINE d == Depth[e] - 1
             f == frame[e][d]
  <2>1. d \in Levels /\ (d # 0 => d \in 1 .. (MaxDepth + 1)) /\ Depth[e] > 0
    BY <1>7, <1>t, MaxDepthAssumption, SMT DEF ReturnCall, EvmTypeOK, Levels
  <2>2. f \in Frame BY <2>1, <1>t DEF EvmTypeOK
  <2>3. opTrace' \subseteq OpRow
    <3>1. CASE d = 0 BY <3>1, <1>7, <1>t DEF ReturnCall, TraceTypeOK
    <3>2. CASE d # 0 BY <3>2, <2>1, <1>7, <1>t, AddOpLogType DEF ReturnCall
    <3> QED BY <3>1, <3>2
  <2>4. TraceIndex' \in Int BY <1>7, <1>t, SMT DEF ReturnCall, TraceTypeOK
  <2>5. \A r \in funcTrace' :
           /\ r.tx \in TxIds /\ r.typ \in CallTypes /\ r.depth \in Levels
           /\ r.index \in Int /\ r.ord \in 0 .. MaxCalls
           /\ {r.path, r.lineage} \subseteq [1 .. r.depth -> Int]
    <3>1. CASE Prefetch[e] BY <3>1, <1>7, <1>t DEF ReturnCall, TraceTypeOK
    <3>2. CASE ~Prefetch[e] BY <3>2, <2>1, <2>2, <1>7, AddFuncLogType DEF ReturnCall
    <3> QED BY <3>1, <3>2
  <2>6. TraceTypeOK' BY <2>3, <2>4, <2>5, <1>7, <1>t DEF ReturnCall, TraceTypeOK
  <2>7. StoreTypeOK' BY <1>7, <1>t DEF ReturnCall, storeVars, StoreTypeOK
  <2>8. NoFrame \in Frame BY ValuesAssumption, WordSizePos, SMT DEF NoFrame, Frame, CallTypes
  <2>9. frame' \in [Evms -> [Levels -> Frame]] BY <2>8, <1>7, <1>t DEF ReturnCall, EvmTypeOK
  <2>10. /\ Depth' \in [Evms -> 0 .. (MaxDepth + 1)]
         /\ phase' \in [Evms -> {"idle", "top", "run", "returned"}]
         /\ \A x \in Evms : phase'[x] = "run" <=> Depth'[x] > 0
    <3>1. Depth' = [Depth EXCEPT ![e] = d] BY <1>7 DEF ReturnCall, LeaveRun
    <3>2. phase' = IF d = 0 THEN [phase EXCEPT ![e] = "returned"] ELSE phase BY <1>7 DEF ReturnCall
    <3>3. phase[e] = "run" BY <1>7 DEF ReturnCall
    <3>4. d \in 0 .. MaxDepth /\ MaxDepth \in Nat BY <2>1, MaxDepthAssumption DEF Levels
    <3> HIDE DEF d
    <3> QED BY <3>1, <3>2, <3>3, <3>4, <1>t, SMT DEF EvmTypeOK
  <2>11. EvmTypeOK' BY <2>9, <2>10, <1>7, <1>t DEF ReturnCall, EvmTypeOK
  <2> QED BY <2>6, <2>7, <2>11 DEF TypeOK
<1>8. ASSUME NEW e \in Evms, FinishTx(e) PROVE TypeOK'
  <2>1. TraceTypeOK' BY <1>8, <1>t DEF FinishTx, traceVars, TraceTypeOK
  <2>2. EvmTypeOK' BY <1>8, <1>t DEF FinishTx, EvmTypeOK
  <2>3. StoreTypeOK'
    <3>1. CASE ~(Kind[e] = "block" /\ ~Prefetch[e]) BY <3>1, <1>8, <1>t DEF FinishTx, storeVars, StoreTypeOK
    <3>2. CASE WriteEntry(e)
      <4>1. TxOf(e) \in TxIds /\ ran[e] \in BOOLEAN BY <1>t, TxOfType DEF EvmTypeOK
      <4>2. {r.tx : r \in opTrace} \cup {r.tx : r \in funcTrace}
               \cup {r.tx : r \in transferTrace} \subseteq TxIds BY <1>t DEF TraceTypeOK, OpRow
      <4>3. skipped' \subseteq [tx : TxIds, ran : BOOLEAN] BY <4>1, <3>2, <1>t DEF WriteEntry, StoreTypeOK
      <4>4. \A x \in docs' : x.tx \in TxIds /\ x.ran \in BOOLEAN /\ x.sources \subseteq TxIds
        BY <4>1, <4>2, <3>2, <1>t DEF WriteEntry, StoreTypeOK
      <4> QED BY <4>3, <4>4 DEF StoreTypeOK
    <3> QED BY <3>1, <3>2, <1>8 DEF FinishTx
  <2> QED BY <2>1, <2>2, <2>3 DEF TypeOK
<1> QED BY <1>1, <1>2, <1>3, <1>4, <1>5, <1>6, <1>7, <1>8 DEF Next, Step

\* Whatever EVMs share the buffers, the state of the tracer stays well-typed,
\* and the interpreter's depth is above zero exactly while a call runs.
THEOREM TypeCorrect == Spec => []TypeOK BY TypeInit, TypeNext, PTL DEF Spec

-----------------------------------------------------------------------------
(* One EVM logs.                                                            *)

LEMMA LoneInit == Init => LoneInv
<1> SUFFICES ASSUME Init PROVE LoneInv OBVIOUS
<1>1. TypeOK BY TypeInit
<1>2. OpenCallsOnStack /\ OpenCallersRun BY MaxDepthAssumption, SMT DEF Init, OpenCallsOnStack, OpenCallersRun, Levels,
  Loggers
<1>3. OpenIndicesGrow BY MaxDepthAssumption, SMT DEF Init, OpenIndicesGrow, Levels, Loggers
<1>4. LogsAreCurrent /\ RowsOK /\ DocsOK
  BY DEF Init, LogsAreCurrent, RowsOK, PathIsLineage, TransferPathCaller, OpIndexNotOuter, DocsOK, WrittenRanCode,
   DocPure
<1> QED BY <1>1, <1>2, <1>3, <1>4 DEF LoneInv

\* What the invariant says of the EVM that logs, without quantifying over it.
CallsOK(e) ==
  /\ \A k \in Levels : k < Depth[e] => CallStack[k] = frame[e][k].idx
  /\ TraceIndex \in 0 .. calls[e]
  /\ \A k \in Levels : k < Depth[e] => frame[e][k].idx \in 0 .. (TraceIndex - 1)
  /\ \A j, k \in Levels : j < k /\ k < Depth[e] => frame[e][j].idx < frame[e][k].idx
  /\ \A k \in Levels : k < Depth[e] => frame[e][k].idx <= CallIndex[e]

RunsOK(e) ==
  \A k \in Levels :
    /\ k + 1 < Depth[e] => frame[e][k].code
    /\ k < Depth[e] /\ frame[e][k].code => ran[e]

CurrentOK(e) ==
  /\ \A r \in opTrace : r.tx = TxOf(e)
  /\ \A r \in funcTrace : r.tx = TxOf(e)
  /\ \A r \in transferTrace : r.tx = TxOf(e)
  /\ opTrace # {} => ran[e]

LEMMA LoneOf ==
  LoneInv <=> /\ TypeOK /\ RowsOK /\ DocsOK
              /\ \A e \in Loggers : CallsOK(e) /\ RunsOK(e) /\ CurrentOK(e)
BY DEF LoneInv, OpenCallsOnStack, OpenIndicesGrow, OpenCallersRun, LogsAreCurrent, CallsOK, RunsOK, CurrentOK

\* A step of a prefetcher touches neither the buffers nor another EVM.
LEMMA PrefetchStep ==
  ASSUME TypeOK, NEW e \in Evms, Prefetch[e], Step(e)
  PROVE  /\ UNCHANGED <<traceVars, storeVars>>
         /\ \A x \in Evms \ {e} :
              /\ Depth'[x] = Depth[x] /\ CallIndex'[x] = CallIndex[x] /\ frame'[x] = frame[x]
              /\ txn'[x] = txn[x] /\ calls'[x] = calls[x] /\ ran'[x] = ran[x]
<1>t. EvmTypeOK BY DEF TypeOK
<1>k. Kind[e] = "call" /\ Kind[e] # "block" BY KindAssumption
<1>1. CASE StartTx(e) BY <1>1, <1>k, <1>t DEF StartTx, traceVars, storeVars, EvmTypeOK
<1>2. CASE RejectTx(e) \/ SkipTopCall(e) \/ FinishTx(e)
  BY <1>2, <1>k, <1>t DEF RejectTx, SkipTopCall, FinishTx, traceVars, storeVars, EvmTypeOK
<1>3. CASE \E v \in Values : CallPrecompile(e, v)
  BY <1>3, <1>t DEF CallPrecompile, AddTransferLog, AddOpLog, traceVars, storeVars, EvmTypeOK
<1>4. CASE \E typ \in CallTypes, hasCode \in BOOLEAN, v \in Values : EnterCall(e, typ, hasCode, v)
  BY <1>4, <1>t DEF EnterCall, AddTransferLog, traceVars, storeVars, EvmTypeOK
<1>5. CASE ExecOp(e) \/ ReturnCall(e)
  BY <1>5, <1>t DEF ExecOp, ReturnCall, LeaveRun, AddOpLog, traceVars, storeVars, evmVars, EvmTypeOK
<1> QED BY <1>1, <1>2, <1>3, <1>4, <1>5 DEF Step

\* The path the logger prints, from CallStack, names the enclosing calls.
LEMMA PathOfOpenCall ==
  ASSUME TypeOK, NEW e \in Loggers, CallsOK(e), NEW d \in Levels, d < Depth[e]
  PROVE  StackPath(CallStack, d) = Lineage(e, d)
<1>1. \A i \in 1 .. d : i \in Levels /\ i < Depth[e]
  <2>1. Depth[e] \in Nat BY MaxDepthAssumption, SMT DEF TypeOK, EvmTypeOK, Loggers
  <2> QED BY <2>1, MaxDepthAssumption, SMT DEF Levels
<1>2. \A i \in 1 .. d : CallStack[i] = frame[e][i].idx BY <1>1 DEF CallsOK
<1> QED BY <1>2 DEF StackPath, Lineage

\* The step of the one EVM that logs, action by action.
LEMMA LoggerStep ==
  ASSUME SoleLogger, LoneInv, TypeOK', NEW e \in Loggers, Step(e)
  PROVE  CallsOK(e)' /\ RunsOK(e)' /\ CurrentOK(e)' /\ RowsOK' /\ DocsOK'
<1>l. e \in Evms /\ ~Prefetch[e] /\ Kind[e] = "block" /\ Loggers = {e} BY DEF SoleLogger, Loggers
<1>i. TypeOK /\ CallsOK(e) /\ RunsOK(e) /\ CurrentOK(e) /\ RowsOK /\ DocsOK BY LoneOf
<1>t. EvmTypeOK /\ TraceTypeOK BY <1>i DEF TypeOK
<1>d. Depth[e] \in 0 .. (MaxDepth + 1) /\ calls[e] \in 0 .. MaxCalls /\ MaxDepth \in Nat
  BY <1>l, <1>t, MaxDepthAssumption DEF EvmTypeOK
<1>1. CASE StartTx(e)
  <2>1. InitTrace BY <1>1, <1>l DEF StartTx
  <2>2. Depth[e] = 0 /\ Depth' = Depth BY <1>1, <1>l, <1>t, <1>d, SMT DEF StartTx, EvmTypeOK
  <2>3. calls'[e] = 0 /\ UNCHANGED storeVars BY <1>1, <1>l, <1>t DEF StartTx, EvmTypeOK
  <2>4. CallsOK(e)' BY <2>1, <2>2, <2>3, SMT DEF CallsOK, InitTrace, Levels
  <2>5. RunsOK(e)' BY <2>2, SMT DEF RunsOK, Levels
  <2>6. CurrentOK(e)' /\ RowsOK'
    BY <2>1 DEF CurrentOK, InitTrace, RowsOK, PathIsLineage, TransferPathCaller, OpIndexNotOuter
  <2>7. DocsOK' BY <2>3, <1>i DEF DocsOK, WrittenRanCode, DocPure, storeVars
  <2> QED BY <2>4, <2>5, <2>6, <2>7
<1>2. CASE RejectTx(e) \/ SkipTopCall(e)
  BY <1>2, <1>i DEF RejectTx, SkipTopCall, traceVars, storeVars, CallsOK, RunsOK, CurrentOK, TxOf, RowsOK,
   PathIsLineage, TransferPathCaller, OpIndexNotOuter, DocsOK, WrittenRanCode, DocPure
<1>3. ASSUME NEW v \in Values, CallPrecompile(e, v)
      PROVE  CallsOK(e)' /\ RunsOK(e)' /\ CurrentOK(e)' /\ RowsOK' /\ DocsOK'
  <2>u. UNCHANGED <<TraceIndex, CallStack, funcTrace, storeVars,
                    Depth, CallIndex, frame, txn, calls, ran>> BY <1>3 DEF CallPrecompile
  <2>0. CanCall(e) /\ DepthAllowed(e) BY <1>3 DEF CallPrecompile
  <2>1. CallsOK(e)' /\ RunsOK(e)' BY <2>u, <1>i DEF CallsOK, RunsOK
  <2>2. DocsOK' BY <2>u, <1>i DEF DocsOK, WrittenRanCode, DocPure, storeVars
  <2>3. transferTrace' = transferTrace \cup {TransferRowOf(e, v)} BY <1>3, <1>l DEF CallPrecompile, AddTransferLog
  <2>4. \A i \in 1 .. (Depth[e] - 1) : StackPath(CallStack, Depth[e])[i] = Lineage(e, Depth[e])[i]
    BY <1>i, <1>d, SMT DEF CallsOK, StackPath, Lineage, Levels
  <2>5. TransferPathCaller' BY <2>3, <2>4, <1>i DEF TransferRowOf, RowsOK, TransferPathCaller
  <2>6. \A r \in opTrace' : r \in opTrace \/ (r.tx = TxOf(e) /\ r.callindex >= r.frameIdx /\ ran[e])
    <3>1. CASE Depth[e] = 0 BY <3>1, <1>3 DEF CallPrecompile
    <3>2. CASE Depth[e] # 0
      <4>1. AddOpLog(e, Depth[e]) BY <3>2, <1>3 DEF CallPrecompile
      <4>2. Depth[e] - 1 \in Levels /\ Depth[e] - 1 < Depth[e] BY <3>2, <1>d, SMT DEF Levels
      <4>3. frame[e][Depth[e] - 1].code BY <2>0, <3>2, <1>l, <1>t, CallLevel, <1>i DEF CanCall
      <4>4. ran[e] /\ frame[e][Depth[e] - 1].idx <= CallIndex[e] BY <4>2, <4>3, <1>i DEF CallsOK, RunsOK
      <4>5. frame[e][Depth[e] - 1].idx \in Int /\ CallIndex[e] \in Int
        BY <4>2, <1>l, <1>t, WordSizePos, SMT DEF EvmTypeOK, Frame
      <4>6. CallIndex[e] >= frame[e][Depth[e] - 1].idx BY <4>4, <4>5, SMT
      <4> QED BY <4>1, <4>4, <4>6, <1>l DEF AddOpLog
    <3> QED BY <3>1, <3>2
  <2>7. OpIndexNotOuter' BY <2>6, <1>i DEF RowsOK, OpIndexNotOuter
  <2>8. PathIsLineage' BY <2>u, <1>i DEF RowsOK, PathIsLineage
  <2>9. CurrentOK(e)' BY <2>u, <2>3, <2>6, <1>i DEF CurrentOK, TxOf, TransferRowOf
  <2> QED BY <2>1, <2>2, <2>5, <2>7, <2>8, <2>9 DEF RowsOK
<1>4. ASSUME NEW typ \in CallTypes, NEW hasCode \in BOOLEAN, NEW v \in Values,
             EnterCall(e, typ, hasCode, v) PROVE CallsOK(e)' /\ RunsOK(e)' /\ CurrentOK(e)' /\ RowsOK' /\ DocsOK'
  <2> DEFINE D == Depth[e]
             T == TraceIndex
  <2>0. CanCall(e) /\ DepthAllowed(e) /\ calls[e] < MaxCalls BY <1>4 DEF EnterCall
  <2>l. D \in Levels /\ D \in Nat BY <2>0, <1>l, <1>i, <1>d, CallLevel, SMT
  <2>T. T \in 0 .. MaxCalls /\ T \in 0 .. calls[e] /\ ToUint(T) = T
    BY <2>0, <1>d, <1>i, WordSizePos, ToUintId, SMT DEF CallsOK
  <2>1. /\ TraceIndex' = T + 1
        /\ CallStack' = [CallStack EXCEPT ![D] = T]
        /\ CallIndex' = [CallIndex EXCEPT ![e] = T]
    BY <1>4, <1>l, <2>T DEF EnterCall, EnteredCallIndex
  <2>2. /\ Depth'[e] = D + 1
        /\ calls'[e] = calls[e] + 1
        /\ ran'[e] = (ran[e] \/ hasCode)
        /\ frame'[e] = [frame[e] EXCEPT ![D] =
              [typ |-> typ, idx |-> T, ord |-> calls[e] + 1, code |-> hasCode, value |-> v]]
    BY <1>4, <1>l, <1>t DEF EnterCall, EvmTypeOK
  <2>3. /\ CallStack'[D] = T /\ CallIndex'[e] = T
        /\ \A k \in Levels : k # D => CallStack'[k] = CallStack[k]
    BY <2>1, <2>l, <1>l, <1>t DEF EvmTypeOK, TraceTypeOK
  <2>4. /\ frame'[e][D].idx = T /\ frame'[e][D].code = hasCode
        /\ \A k \in Levels : k # D => frame'[e][k] = frame[e][k]
    BY <2>2, <2>l, <1>l, <1>t DEF EvmTypeOK
  <2>5. \A k \in Levels : k < D => /\ frame[e][k].idx \in 0 .. (T - 1)
                                   /\ CallStack[k] = frame[e][k].idx
    BY <1>i DEF CallsOK
  <2>6. CallsOK(e)'
    <3>0. \A k \in Levels : k \in Int /\ (k < D + 1 <=> k = D \/ k < D) BY <2>l, SMT DEF Levels
    <3>1. \A k \in Levels : k < Depth'[e] => CallStack'[k] = frame'[e][k].idx BY <3>0, <2>2, <2>3, <2>4, <2>5, <2>l, SMT
    <3>2. TraceIndex' \in 0 .. calls'[e] BY <2>1, <2>2, <2>T, <1>d, SMT
    <3>3. \A k \in Levels : k < Depth'[e] => frame'[e][k].idx \in 0 .. (TraceIndex' - 1)
      BY <3>0, <2>1, <2>2, <2>4, <2>5, <2>T, <2>l, SMT
    <3>4. \A j, k \in Levels : j < k /\ k < Depth'[e] => frame'[e][j].idx < frame'[e][k].idx
      <4> TAKE j, k \in Levels
      <4> HAVE j < k /\ k < Depth'[e]
      <4>1. CASE k = D
        <5>1. j < D /\ j # D BY <4>1, <3>0, <2>l, SMT
        <5> QED BY <5>1, <4>1, <2>4, <2>5, <2>T, SMT
      <4>2. CASE k < D
        <5>1. j # D /\ k # D BY <4>2, <3>0, <2>l, SMT
        <5> QED BY <5>1, <4>2, <2>4, <1>i DEF CallsOK
      <4> QED BY <4>1, <4>2, <3>0, <2>2
    <3>5. \A k \in Levels : k < Depth'[e] => frame'[e][k].idx <= CallIndex'[e]
      <4> TAKE k \in Levels
      <4> HAVE k < Depth'[e]
      <4>1. CASE k = D BY <4>1, <2>3, <2>4, <2>T, SMT
      <4>2. CASE k < D /\ k # D BY <4>2, <2>3, <2>4, <2>5, <2>T, SMT
      <4> QED BY <4>1, <4>2, <3>0, <2>2, <2>l, SMT
    <3> QED BY <3>1, <3>2, <3>3, <3>4, <3>5 DEF CallsOK
  <2>7. RunsOK(e)'
    <3>1. \A k \in Levels : k < D => (k + 1 < D \/ k = D - 1) BY <2>l, SMT DEF Levels
    <3>2. D # 0 => frame[e][D - 1].code BY <2>0, <1>l, <1>i, <1>t, CallLevel DEF CanCall
    <3>3. ASSUME NEW k \in Levels, k + 1 < Depth'[e] PROVE frame'[e][k].code
      <4>1. k < D /\ k # D /\ D # 0 BY <3>3, <2>2, <2>l, SMT DEF Levels
      <4>2. frame[e][k].code BY <4>1, <3>1, <3>2, <1>i DEF RunsOK
      <4> QED BY <4>1, <4>2, <2>4
    <3>4. ASSUME NEW k \in Levels, k < Depth'[e], frame'[e][k].code PROVE ran'[e]
      <4>1. k = D \/ (k < D /\ k # D) BY <3>4, <2>2, <2>l, SMT DEF Levels
      <4> QED BY <4>1, <3>4, <2>2, <2>4, <1>i DEF RunsOK
    <3> QED BY <3>3, <3>4 DEF RunsOK
  <2>8. /\ UNCHANGED <<opTrace, funcTrace, docs, skipped>>
        /\ txn' = txn
    BY <1>4 DEF EnterCall, storeVars
  <2>9. transferTrace' = transferTrace \/ transferTrace' = transferTrace \cup {TransferRowOf(e, v)}
    BY <1>4, <1>l DEF EnterCall, AddTransferLog
  <2>10. \A i \in 1 .. (D - 1) : StackPath(CallStack, D)[i] = Lineage(e, D)[i]
    <3>1. \A i \in 1 .. (D - 1) : i \in 1 .. D /\ i \in Levels /\ i < D BY <2>l, <1>d, SMT DEF Levels
    <3> QED BY <3>1, <2>5 DEF StackPath, Lineage
  <2>11. TransferPathCaller' BY <2>9, <2>10, <1>i DEF TransferRowOf, RowsOK, TransferPathCaller
  <2>12. PathIsLineage' /\ OpIndexNotOuter' /\ DocsOK'
    BY <2>8, <1>i DEF RowsOK, PathIsLineage, OpIndexNotOuter, DocsOK, WrittenRanCode, DocPure
  <2>13. CurrentOK(e)'
    <3>1. opTrace' # {} => ran'[e] BY <2>2, <2>8, <1>i DEF CurrentOK
    <3>2. \A r \in transferTrace' : r.tx = TxOf(e) BY <2>9, <1>i DEF CurrentOK, TransferRowOf
    <3> QED BY <3>1, <3>2, <2>8, <1>i DEF CurrentOK, TxOf
  <2> QED BY <2>6, <2>7, <2>11, <2>12, <2>13 DEF RowsOK
<1>5. CASE ExecOp(e)
  <2>u. UNCHANGED <<TraceIndex, CallStack, funcTrace, transferTrace, docs, skipped,
                    Depth, CallIndex, frame, txn, calls, ran>> BY <1>5 DEF ExecOp, storeVars, evmVars
  <2>1. CallsOK(e)' /\ RunsOK(e)' /\ DocsOK' /\ PathIsLineage' /\ TransferPathCaller'
    BY <2>u, <1>i DEF CallsOK, RunsOK, DocsOK, WrittenRanCode, DocPure, RowsOK, PathIsLineage, TransferPathCaller
  <2>2. Depth[e] - 1 \in Levels /\ Depth[e] - 1 < Depth[e] BY <1>5, <1>l, <1>t, <1>d, SMT DEF ExecOp, EvmTypeOK, Levels
  <2>3. frame[e][Depth[e] - 1].code /\ AddOpLog(e, Depth[e]) BY <1>5 DEF ExecOp
  <2>4. ran[e] /\ frame[e][Depth[e] - 1].idx <= CallIndex[e] BY <2>2, <2>3, <1>i DEF CallsOK, RunsOK
  <2>5. frame[e][Depth[e] - 1].idx \in Int /\ CallIndex[e] \in Int
    BY <2>2, <1>l, <1>t, WordSizePos, SMT DEF EvmTypeOK, Frame
  <2>6. CallIndex[e] >= frame[e][Depth[e] - 1].idx BY <2>4, <2>5, SMT
  <2>7. OpIndexNotOuter' BY <2>3, <2>6, <1>l, <1>i DEF AddOpLog, RowsOK, OpIndexNotOuter
  <2>8. CurrentOK(e)' BY <2>u, <2>3, <2>4, <1>l, <1>i DEF AddOpLog, CurrentOK, TxOf
  <2> QED BY <2>1, <2>7, <2>8 DEF RowsOK
<1>6. CASE ReturnCall(e)
  <2> DEFINE d == Depth[e] - 1
             f == frame[e][d]
  <2>1. d \in Levels /\ d < Depth[e] /\ d \in Nat /\ Depth[e] = d + 1
    BY <1>6, <1>l, <1>t, <1>d, SMT DEF ReturnCall, EvmTypeOK, Levels
  <2>2. /\ AddFuncLog(e, f, d)
        /\ TraceIndex' = IF f.typ \in Decrementing THEN TraceIndex - 1 ELSE TraceIndex
        /\ d = 0 => opTrace' = opTrace
        /\ d # 0 => AddOpLog(e, d)
        /\ frame' = [frame EXCEPT ![e][d] = NoFrame]
        /\ Depth' = [Depth EXCEPT ![e] = Depth[e] - 1]
        /\ UNCHANGED <<CallStack, transferTrace, docs, skipped, CallIndex, txn, calls, ran>>
    BY <1>6, <1>l DEF ReturnCall, LeaveRun, storeVars
  <2>3. Depth'[e] = d /\ \A k \in Levels : k # d => frame'[e][k] = frame[e][k] BY <2>2, <1>l, <1>t DEF EvmTypeOK
  <2>4. \A k \in Levels : k \in Int /\ (k < d => k # d /\ k < Depth[e]) BY <2>1, SMT DEF Levels
  <2>5. f.idx \in 0 .. (TraceIndex - 1) /\ f.idx <= CallIndex[e] /\ TraceIndex \in 0 .. calls[e]
    BY <2>1, <1>i DEF CallsOK
  <2>6. \A k \in Levels : k < d => frame[e][k].idx \in 0 .. (TraceIndex - 1) /\ frame[e][k].idx < f.idx
    BY <2>1, <2>4, <1>i DEF CallsOK
  <2>7. CallsOK(e)'
    <3>1. \A k \in Levels : k < Depth'[e] => CallStack'[k] = frame'[e][k].idx BY <2>2, <2>3, <2>4, <1>i DEF CallsOK
    <3>2. TraceIndex' \in 0 .. calls'[e] BY <2>2, <2>5, <1>d, SMT
    <3>3. \A k \in Levels : k < Depth'[e] => frame'[e][k].idx \in 0 .. (TraceIndex' - 1)
      <4> TAKE k \in Levels
      <4> HAVE k < Depth'[e]
      <4>1. frame'[e][k].idx = frame[e][k].idx BY <2>3, <2>4
      <4>2. frame[e][k].idx \in 0 .. (TraceIndex - 1) /\ frame[e][k].idx < f.idx BY <2>3, <2>6
      <4>3. TraceIndex' = TraceIndex - 1 \/ TraceIndex' = TraceIndex BY <2>2
      <4> HIDE DEF d, f
      <4> QED BY <4>1, <4>2, <4>3, <2>5, <1>d, SMT
    <3>4. \A j, k \in Levels : j < k /\ k < Depth'[e] => frame'[e][j].idx < frame'[e][k].idx
      <4> TAKE j, k \in Levels
      <4> HAVE j < k /\ k < Depth'[e]
      <4>1. k < d /\ j < d BY <2>1, <2>3, <2>4, SMT
      <4> QED BY <4>1, <2>3, <2>4, <1>i DEF CallsOK
    <3>5. \A k \in Levels : k < Depth'[e] => frame'[e][k].idx <= CallIndex'[e] BY <2>2, <2>3, <2>4, <1>i DEF CallsOK
    <3> QED BY <3>1, <3>2, <3>3, <3>4, <3>5 DEF CallsOK
  <2>8. RunsOK(e)'
    <3>1. ASSUME NEW k \in Levels, k + 1 < Depth'[e] PROVE frame'[e][k].code
      <4>1. k < d /\ k + 1 < Depth[e] BY <3>1, <2>1, <2>3, <2>4, SMT
      <4> QED BY <4>1, <2>3, <2>4, <1>i DEF RunsOK
    <3>2. ASSUME NEW k \in Levels, k < Depth'[e], frame'[e][k].code PROVE ran'[e]
      BY <3>2, <2>2, <2>3, <2>4, <1>i DEF RunsOK
    <3> QED BY <3>1, <3>2 DEF RunsOK
  <2>9. StackPath(CallStack, d) = Lineage(e, d) BY <2>1, <1>i, PathOfOpenCall
  <2>10. PathIsLineage' BY <2>2, <2>9, <1>i DEF AddFuncLog, RowsOK, PathIsLineage
  <2>11. \A r \in opTrace' : r \in opTrace \/ (r.tx = TxOf(e) /\ r.callindex >= r.frameIdx /\ ran[e])
    <3>1. CASE d = 0 BY <3>1, <2>2
    <3>2. CASE d # 0
      <4>1. d - 1 \in Levels /\ d - 1 < Depth[e] /\ (d - 1) + 1 < Depth[e] /\ d - 1 < d
        <5> HIDE DEF d
        <5> QED BY <3>2, <2>1, <1>d, SMT DEF Levels
      <4>2. frame[e][d - 1].code /\ ran[e] /\ frame[e][d - 1].idx <= CallIndex[e] BY <4>1, <1>i DEF RunsOK, CallsOK
      <4>3. frame[e][d - 1].idx \in Int /\ CallIndex[e] \in Int
        BY <4>1, <1>l, <1>t, WordSizePos, SMT DEF EvmTypeOK, Frame
      <4>4. CallIndex[e] >= frame[e][d - 1].idx BY <4>2, <4>3, SMT
      <4> QED BY <4>2, <4>4, <3>2, <2>2, <1>l DEF AddOpLog
    <3> QED BY <3>1, <3>2
  <2>12. OpIndexNotOuter' BY <2>11, <1>i DEF RowsOK, OpIndexNotOuter
  <2>13. TransferPathCaller' /\ DocsOK' BY <2>2, <1>i DEF RowsOK, TransferPathCaller, DocsOK, WrittenRanCode, DocPure
  <2>14. CurrentOK(e)' BY <2>2, <2>11, <1>i DEF AddFuncLog, CurrentOK, TxOf
  <2> QED BY <2>7, <2>8, <2>10, <2>12, <2>13, <2>14 DEF RowsOK
<1>7. CASE FinishTx(e)
  <2>u. UNCHANGED <<TraceIndex, CallStack, opTrace, funcTrace, transferTrace,
                    Depth, CallIndex, frame, txn, calls, ran>> BY <1>7 DEF FinishTx, traceVars
  <2>1. CallsOK(e)' /\ RunsOK(e)' /\ CurrentOK(e)' /\ RowsOK'
    BY <2>u, <1>i DEF CallsOK, RunsOK, CurrentOK, TxOf, RowsOK, PathIsLineage, TransferPathCaller, OpIndexNotOuter
  <2>2. WriteEntry(e) BY <1>7, <1>l DEF FinishTx
  <2>3. {r.tx : r \in opTrace} \cup {r.tx : r \in funcTrace} \cup {r.tx : r \in transferTrace}
           \subseteq {TxOf(e)} BY <1>i DEF CurrentOK
  <2>4. DocsOK' BY <2>2, <2>3, <1>i DEF WriteEntry, CurrentOK, DocsOK, WrittenRanCode, DocPure
  <2> QED BY <2>1, <2>4
<1> QED BY <1>1, <1>2, <1>3, <1>4, <1>5, <1>6, <1>7 DEF Step

LEMMA LoneNext == SoleLogger /\ LoneInv /\ [Next]_vars => LoneInv'
<1> SUFFICES ASSUME SoleLogger, LoneInv, [Next]_vars PROVE LoneInv' OBVIOUS
<1>i. /\ TypeOK /\ RowsOK /\ DocsOK
      /\ \A e \in Loggers : CallsOK(e) /\ RunsOK(e) /\ CurrentOK(e)
  BY LoneOf
<1>t. TypeOK' BY <1>i, TypeNext
<1>1. CASE UNCHANGED vars
  BY <1>1, <1>i, <1>t DEF vars, traceVars, storeVars, evmVars, LoneInv, OpenCallsOnStack, OpenIndicesGrow,
   OpenCallersRun, LogsAreCurrent, RowsOK, DocsOK, CallsOK, RunsOK, CurrentOK, TxOf, PathIsLineage, TransferPathCaller,
   OpIndexNotOuter, WrittenRanCode, DocPure
<1>2. ASSUME NEW e \in Evms, Step(e), Prefetch[e] PROVE LoneInv'
  <2>1. \A x \in Loggers : x \in Evms \ {e} BY <1>2 DEF Loggers
  <2>2. /\ UNCHANGED <<traceVars, storeVars>>
        /\ \A x \in Loggers :
              /\ Depth'[x] = Depth[x] /\ CallIndex'[x] = CallIndex[x] /\ frame'[x] = frame[x]
              /\ txn'[x] = txn[x] /\ calls'[x] = calls[x] /\ ran'[x] = ran[x]
    BY <1>2, <1>i, <2>1, PrefetchStep
  <2>3. \A x \in Loggers : CallsOK(x)' /\ RunsOK(x)' /\ CurrentOK(x)'
    BY <2>2, <1>i DEF traceVars, CallsOK, RunsOK, CurrentOK, TxOf
  <2>4. RowsOK' /\ DocsOK'
    BY <2>2, <1>i DEF traceVars, storeVars, RowsOK, DocsOK, PathIsLineage, TransferPathCaller, OpIndexNotOuter,
     WrittenRanCode, DocPure
  <2> QED BY <2>3, <2>4, <1>t DEF LoneInv, OpenCallsOnStack, OpenIndicesGrow, OpenCallersRun, LogsAreCurrent, CallsOK,
    RunsOK, CurrentOK
<1>3. ASSUME NEW e \in Evms, Step(e), ~Prefetch[e] PROVE LoneInv'
  <2>1. e \in Loggers /\ Loggers = {e} BY <1>3 DEF Loggers, SoleLogger
  <2>2. CallsOK(e)' /\ RunsOK(e)' /\ CurrentOK(e)' /\ RowsOK' /\ DocsOK' BY <1>3, <2>1, <1>t, LoggerStep
  <2> QED BY <2>1, <2>2, <1>t DEF LoneInv, OpenCallsOnStack, OpenIndicesGrow, OpenCallersRun, LogsAreCurrent, CallsOK,
    RunsOK, CurrentOK
<1> QED BY <1>1, <1>2, <1>3 DEF Next

LEMMA LoneAlways == ASSUME SoleLogger PROVE Spec => []LoneInv
<1>1. LoneInv /\ [Next]_vars => LoneInv' BY LoneNext
<1> QED BY <1>1, LoneInit, PTL DEF Spec

\* With a single EVM that logs, every function row names exactly the calls it
\* was nested in, a transfer row those around the call that transfers, and an
\* opcode row never a call older than the one that executes it, although
\* CallStack is never popped and TraceIndex goes back.
THEOREM RowsNameTheirCallers == ASSUME SoleLogger PROVE Spec => []RowsOK
<1>1. LoneInv => RowsOK BY DEF LoneInv
<1> QED BY <1>1, LoneAlways, PTL

\* With a single EVM that logs, and any number of prefetchers beside it, each
\* document holds its own transaction's rows, and that transaction ran code.
THEOREM DocumentsArePure == ASSUME SoleLogger PROVE Spec => []DocsOK
<1>1. LoneInv => DocsOK BY DEF LoneInv
<1> QED BY <1>1, LoneAlways, PTL

-----------------------------------------------------------------------------
(* Transactions of plain CALLs.                                            *)

\* As long as nothing but CALLs has returned, the next index counts the calls, so
\* that calls and rows are numbered in the order of the calls.
PlainOK(e) ==
  (\A r \in funcTrace : r.typ = "CALL") =>
    /\ TraceIndex = calls[e]
    /\ \A k \in Levels : k < Depth[e] => frame[e][k].idx = frame[e][k].ord - 1
    /\ \A r \in funcTrace : r.index = r.ord - 1

\* Inductive when SoleLogger holds; without a logger there are no rows.
PlainInv == /\ \A e \in Loggers : PlainOK(e)
            /\ Loggers = {} => funcTrace = {}

\* The row a call leaves carries the type, the index and the number of its frame.
LEMMA LoggedRow ==
  ASSUME NEW e, NEW f, NEW d, AddFuncLog(e, f, d)
  PROVE  /\ funcTrace \subseteq funcTrace' /\ \E r \in funcTrace' : r.typ = f.typ
         /\ \A r \in funcTrace' : r \in funcTrace \/ (r.typ = f.typ /\ r.index = f.idx /\ r.ord = f.ord)
<1> DEFINE row == [tx |-> TxOf(e), ord |-> f.ord, index |-> f.idx, typ |-> f.typ, depth |-> d,
                   logged |-> IF f.typ = "CREATE" THEN 0 ELSE f.value, value |-> f.value,
                   path |-> StackPath(CallStack, d), lineage |-> Lineage(e, d)]
<1>1. funcTrace' = funcTrace \cup {row} BY DEF AddFuncLog
<1>2. row.typ = f.typ /\ row.index = f.idx /\ row.ord = f.ord OBVIOUS
<1> QED BY <1>1, <1>2

LEMMA PlainInit == Init => PlainInv
<1> SUFFICES ASSUME Init, NEW e \in Loggers PROVE PlainOK(e) BY DEF Init, PlainInv
<1>1. TraceIndex = 0 /\ calls[e] = 0 /\ Depth[e] = 0 /\ funcTrace = {} BY DEF Init, Loggers
<1> QED BY <1>1, MaxDepthAssumption DEF PlainOK, Levels

\* The step of the one EVM that logs: only Call keeps its TraceIndex++.
LEMMA PlainStep ==
  ASSUME TypeOK, NEW e \in Loggers, Kind[e] = "block", PlainOK(e), Step(e) PROVE PlainOK(e)'
<1>l. e \in Evms /\ ~Prefetch[e] BY DEF Loggers
<1>t. EvmTypeOK /\ TraceTypeOK BY DEF TypeOK
<1>d. Depth[e] \in 0 .. (MaxDepth + 1) /\ calls[e] \in 0 .. MaxCalls /\ MaxDepth \in Nat /\ MaxCalls \in Nat
  BY <1>l, <1>t, MaxDepthAssumption, WordSizePos DEF EvmTypeOK
<1>1. CASE StartTx(e)
  <2>1. Depth[e] = 0 /\ Depth' = Depth BY <1>1, <1>l, <1>t, <1>d, SMT DEF StartTx, EvmTypeOK
  <2>2. TraceIndex' = 0 /\ funcTrace' = {} /\ calls'[e] = 0 BY <1>1, <1>l, <1>t DEF StartTx, InitTrace, EvmTypeOK
  <2> QED BY <2>1, <2>2, <1>d DEF PlainOK, Levels
<1>2. CASE RejectTx(e) \/ SkipTopCall(e) \/ ExecOp(e) \/ FinishTx(e) \/ \E v \in Values : CallPrecompile(e, v)
  BY <1>2 DEF RejectTx, SkipTopCall, ExecOp, FinishTx, CallPrecompile, traceVars, evmVars, PlainOK
<1>3. ASSUME NEW typ \in CallTypes, NEW hasCode \in BOOLEAN, NEW v \in Values,
             EnterCall(e, typ, hasCode, v) PROVE PlainOK(e)'
  <2> DEFINE D == Depth[e]
             f == [typ |-> typ, idx |-> TraceIndex, ord |-> calls[e] + 1, code |-> hasCode, value |-> v]
  <2>0. D \in Levels BY <1>3, <1>l, CallLevel DEF EnterCall
  <2>1. TraceIndex' = TraceIndex + 1 /\ calls'[e] = calls[e] + 1 /\ Depth'[e] = D + 1 /\ funcTrace' = funcTrace
    BY <1>3, <1>l, <1>t DEF EnterCall, EvmTypeOK
  <2>2. frame' = [frame EXCEPT ![e] = [@ EXCEPT ![D] = f]] BY <1>3, <1>l DEF EnterCall
  <2>3. f.idx = TraceIndex /\ f.ord = calls[e] + 1 OBVIOUS
  <2> HIDE DEF f
  <2>4. frame'[e][D] = f /\ \A k \in Levels : k # D => frame'[e][k] = frame[e][k]
    BY <2>0, <2>2, <1>l, <1>t DEF EvmTypeOK
  <2> SUFFICES ASSUME \A r \in funcTrace : r.typ = "CALL"
               PROVE  /\ TraceIndex' = calls'[e]
                      /\ \A k \in Levels : k < Depth'[e] => frame'[e][k].idx = frame'[e][k].ord - 1
                      /\ \A r \in funcTrace : r.index = r.ord - 1
    BY <2>1 DEF PlainOK
  <2>5. TraceIndex = calls[e] /\ \A r \in funcTrace : r.index = r.ord - 1 BY DEF PlainOK
  <2>6. ASSUME NEW k \in Levels, k < Depth'[e] PROVE frame'[e][k].idx = frame'[e][k].ord - 1
    <3>1. CASE k = D BY <2>3, <2>4, <2>5, <3>1, <1>d
    <3>2. CASE k # D
      BY <2>0, <2>1, <2>6, <3>2, <1>d, <2>4 DEF Levels, PlainOK
    <3> QED BY <3>1, <3>2
  <2> QED BY <2>1, <2>5, <2>6
<1>4. CASE ReturnCall(e)
  <2> DEFINE d == Depth[e] - 1
             f == frame[e][d]
  <2>1. d \in Levels /\ d < Depth[e] BY <1>4, <1>l, <1>t, <1>d, SMT DEF ReturnCall, EvmTypeOK, Levels
  <2>2. /\ AddFuncLog(e, f, d)
        /\ TraceIndex' = IF f.typ \in Decrementing THEN TraceIndex - 1 ELSE TraceIndex
        /\ frame' = [frame EXCEPT ![e] = [@ EXCEPT ![d] = NoFrame]]
        /\ Depth' = [Depth EXCEPT ![e] = Depth[e] - 1]
        /\ UNCHANGED calls
    BY <1>4, <1>l DEF ReturnCall, LeaveRun
  <2>3. /\ funcTrace \subseteq funcTrace' /\ \E r \in funcTrace' : r.typ = f.typ
        /\ \A r \in funcTrace' : r \in funcTrace \/ (r.typ = f.typ /\ r.index = f.idx /\ r.ord = f.ord)
    BY <2>2, LoggedRow
  <2>4. Depth'[e] = d BY <2>2, <1>l, <1>t DEF EvmTypeOK
  <2>5. \A k \in Levels : k # d => frame'[e][k] = frame[e][k] BY <2>1, <2>2, <1>l, <1>t DEF EvmTypeOK
  <2> HIDE DEF f
  <2> SUFFICES ASSUME \A r \in funcTrace' : r.typ = "CALL"
               PROVE  /\ TraceIndex' = calls'[e]
                      /\ \A k \in Levels : k < Depth'[e] => frame'[e][k].idx = frame'[e][k].ord - 1
                      /\ \A r \in funcTrace' : r.index = r.ord - 1
    BY DEF PlainOK
  <2>6. f.typ = "CALL" /\ \A r \in funcTrace : r.typ = "CALL" BY <2>3
  <2>7. /\ TraceIndex = calls[e] /\ \A r \in funcTrace : r.index = r.ord - 1
        /\ \A k \in Levels : k < Depth[e] => frame[e][k].idx = frame[e][k].ord - 1
    BY <2>6 DEF PlainOK
  <2>8. f.idx = f.ord - 1 BY <2>1, <2>7 DEF f
  <2>9. TraceIndex' = calls'[e] BY <2>2, <2>6, <2>7 DEF Decrementing
  <2>10. \A k \in Levels : k < d => k # d /\ k < Depth[e] BY <2>1, <1>d DEF Levels
  <2> HIDE DEF d
  <2> QED BY <2>3, <2>4, <2>5, <2>7, <2>8, <2>9, <2>10
<1> QED BY <1>1, <1>2, <1>3, <1>4 DEF Step

LEMMA PlainNext == SoleLogger /\ TypeOK /\ PlainInv /\ [Next]_vars => PlainInv'
<1> SUFFICES ASSUME SoleLogger, TypeOK, PlainInv, [Next]_vars PROVE PlainInv' OBVIOUS
<1>1. CASE UNCHANGED vars BY <1>1 DEF vars, traceVars, evmVars, PlainInv, PlainOK, Loggers
<1>2. ASSUME NEW e \in Evms, Step(e), Prefetch[e] PROVE PlainInv'
  BY <1>2, PrefetchStep DEF Loggers, traceVars, PlainInv, PlainOK
<1>3. ASSUME NEW e \in Evms, Step(e), ~Prefetch[e] PROVE PlainInv'
  BY <1>3, PlainStep DEF Loggers, SoleLogger, PlainInv
<1> QED BY <1>1, <1>2, <1>3 DEF Next

\* With a single EVM that logs, the function rows of a transaction of plain CALLs are
\* numbered from 0 in the order the calls started (DBLogger.go TraceIndex, the
\* example of README.md), though rows are written as calls return.
THEOREM PlainRowsNumberTheCalls == ASSUME SoleLogger PROVE Spec => []PlainRowsInOrder
<1>1. PlainInv /\ SoleLogger => PlainRowsInOrder BY DEF PlainInv, PlainOK, PlainRowsInOrder, SoleLogger
<1>2. PlainInv => PlainRowsInOrder BY <1>1
<1>3. TypeOK /\ PlainInv /\ [Next]_vars => PlainInv' BY PlainNext
<1> QED BY <1>2, <1>3, PlainInit, TypeCorrect, PTL DEF Spec
=============================================================================
