------------------------ MODULE DownloadQueueProofs ------------------------
(***************************************************************************)
(* Proofs about DownloadQueue for any headers, peers, window and faults:   *)
(* its types, that a part to fetch is in one place, that an answer finds   *)
(* its slot, that results are whole and in order, that no result is missed,*)
(* and that a sync that ends normally has handed out all it has.  Then     *)
(* about the search of Ancestor for any two chains.                        *)
(***************************************************************************)
EXTENDS DownloadQueue, Ancestor, FiniteSetTheorems, WellFoundedInduction, NaturalsInduction, TLAPS

-----------------------------------------------------------------------------
(* Lemmas about the vocabulary of the model.                               *)

\* Outside a round and an answer the locals of concurrentFetch are well-typed.
LEMMA AtType ==
  ASSUME NEW place \in Running \cup Ended
  PROVE  At(place) \in Local /\ At(place).at = place BY DEF At, Place, Local

\* The parts newFetchResult marks as done are parts of headers.
LEMMA EmptyType == ASSUME NEW k \in Kinds PROVE Empty(k) \subseteq Headers BY QueueAssumption DEF Empty

\* The idle peers of a round can be counted.
LEMMA CardPeers == \A S \in SUBSET Peers : Cardinality(S) \in Nat BY QueueAssumption, FS_CardinalityType, FS_Subset

\* Where the head of the loop leads: never into an answer, and to an assignment
\* round with the peers that are not busy.
LEMMA LoopLeads ==
  ASSUME FetchTypeOK, NEW k \in Kinds, NEW unread \in Seq(Event), Loop(k, unread)
  PROVE  \E next \in Local :
           /\ fetch' = [fetch EXCEPT ![k] = next]
           /\ next.at # "answer"
           /\ next.at = "assign" => next.idles = IdlePeers(k)
           /\ events' \in [Kinds -> Seq(Event)]
<1>1. IdlePeers(k) \in SUBSET Peers BY DEF IdlePeers, FetchTypeOK
<1>2. Cardinality(IdlePeers(k)) \in Nat BY <1>1, CardPeers
<1>3. Round(k) \in Local /\ Round(k).idles = IdlePeers(k) BY <1>1, <1>2 DEF Round, Local, Running
<1>4. LoopHead(k) \in {At("error"), At("ended"), At("wait"), Round(k)} BY DEF LoopHead
<1>5. \A place \in {"error", "ended", "wait"} :
        At(place) \in Local /\ At(place).at \notin {"answer", "assign"} BY AtType DEF Running, Ended
<1>6. Round(k).at = "assign" BY DEF Round
<1>7. LoopHead(k) \in Local /\ LoopHead(k).at # "answer" /\ (LoopHead(k).at = "assign" => LoopHead(k) = Round(k))
  BY <1>3, <1>4, <1>5, <1>6
<1>8. Go(k, LoopHead(k), unread) BY DEF Loop
<1>9. fetch' = [fetch EXCEPT ![k] = LoopHead(k)] /\ events' \in [Kinds -> Seq(Event)]
  BY <1>8 DEF Go, FetchTypeOK, FetchLocal
<1> QED BY <1>3, <1>7, <1>9

-----------------------------------------------------------------------------
(* Types.                                                                  *)

\* A reservation takes no header that is not in the queue.
LEMMA FirstOfSubset == \A S, n : FirstOf(S, n) \subseteq S BY DEF FirstOf

\* The peering event a fetcher reads names a peer.
LEMMA HeadEvent ==
  FetchTypeOK => \A k \in Kinds : events[k] # <<>> =>
                    Head(events[k]).peer \in Peers /\ Tail(events[k]) \in Seq(Event)
<1>1. ASSUME NEW s \in Seq(Event), s # <<>> PROVE Head(s) \in Event /\ Tail(s) \in Seq(Event) BY <1>1
<1>2. \A e \in Event : e.peer \in Peers BY DEF Event
<1> QED BY <1>1, <1>2 DEF FetchTypeOK

\* The fault budget of a sync is kept.
LEMMA FaultType == SyncTypeOK /\ Fault /\ UNCHANGED syncVars => faults' \in 0 .. Budget[mode'][last']
  BY QueueAssumption DEF SyncTypeOK, Fault, syncVars

\* countCompleted finds the first result that is not complete: the window ends.
LEMMA CompleteExists ==
  ASSUME StoreTypeOK
  PROVE  \E c \in counted .. N : /\ \A i \in counted .. c - 1 : Ready(offset + i)
                                 /\ ~Ready(offset + c)
<1> DEFINE T == {c \in counted .. N : ~Ready(offset + c)}
<1>1. N \in T BY QueueAssumption DEF StoreTypeOK, Ready, Headers
<1>2. T \subseteq Nat /\ T # {} BY <1>1 DEF StoreTypeOK
<1>3. \E c \in T : \A i \in T : ~ (<<i, c>> \in OpToRel(<, Nat)) BY <1>2, NatLessThanWellFounded, WFMin
<1>4. PICK c \in T : \A i \in T : ~(i < c) BY <1>2, <1>3 DEF OpToRel
<1>5. \A i \in counted .. c - 1 : i \in counted .. N /\ i < c BY QueueAssumption DEF StoreTypeOK
<1> QED BY <1>4, <1>5

\* The types of a fresh queue (newQueue, Reset).
LEMMA TypeInit == Init => TypeOK
<1> SUFFICES ASSUME Init PROVE TypeOK OBVIOUS
<1>1. QueueTypeOK BY QueueAssumption DEF Init, QueueTypeOK
<1>2. StoreTypeOK BY QueueAssumption DEF Init, StoreTypeOK
<1>3. FetchTypeOK
  <2>1. FetchLocal BY AtType DEF Init, FetchLocal, Running
  <2>2. events \in [Kinds -> Seq(Event)]
    BY DEF Init
  <2>3. peers \subseteq Peers /\ revoking \subseteq Peers BY DEF Init
  <2> QED BY <2>1, <2>2, <2>3 DEF Init, FetchTypeOK
<1>4. SyncTypeOK
  <2>1. Budget[mode][last] \in Nat
    BY QueueAssumption DEF Init
  <2>2. faults \in 0 .. Budget[mode][last] BY <2>1 DEF Init
  <2> QED BY <2>2 DEF Init, SyncTypeOK
<1> QED BY <1>1, <1>2, <1>3, <1>4 DEF TypeOK

\* Every operation keeps the types of the pools, queues and requests.
LEMMA QueueTypeNext == TypeOK /\ [Next]_vars => QueueTypeOK'
<1> SUFFICES ASSUME TypeOK, [Next]_vars PROVE QueueTypeOK' OBVIOUS
<1> USE DEF TypeOK, QueueTypeOK
<1>1. CASE Schedule BY <1>1, EmptyType, QueueAssumption DEF Schedule, queueVars, Headers, SyncTypeOK
<1>2. ASSUME NEW k \in Kinds, NEW p \in Peers, Reserve(k, p) PROVE QueueTypeOK'
  <2> DEFINE taken == FirstOf({h \in {x \in tasks[k] : x < offset + threshold} :
                 /\ h >= offset /\ (IF h \in slots THEN h \in outstanding[k] ELSE h \notin Empty(k))
                 /\ h \notin lacking[p]}, Room[p])
  <2>1. taken \in SUBSET Headers BY FirstOfSubset
  <2>2. scheduled' = scheduled BY <1>2 DEF Reserve, Elsewhere
  <2>3. pool' \in [Kinds -> SUBSET Headers] BY <1>2 DEF Reserve
  <2>4. tasks' \in [Kinds -> SUBSET Headers] BY <1>2 DEF Reserve
  <2>5. pend' = [pend EXCEPT ![k][p] = taken] \/ pend' = pend BY <1>2 DEF Reserve
  <2> HIDE DEF taken
  <2>6. pend' \in [Kinds -> [Peers -> SUBSET Headers]] BY <2>1, <2>5
  <2> QED BY <2>2, <2>3, <2>4, <2>6
<1>3. ASSUME NEW k \in Kinds, AssignEnd(k) \/ Cancelled(k) \/ Waker(k) \/ AnswerIgnored(k) PROVE QueueTypeOK'
  BY <1>3 DEF AssignEnd, Cancelled, Waker, AnswerIgnored, Elsewhere, queueVars
<1>4. ASSUME NEW k \in Kinds, NEW p \in Peers, Return(k, p), UNCHANGED <<scheduled, pool>> PROVE QueueTypeOK'
  BY <1>4 DEF Return
<1>5. ASSUME NEW k \in Kinds, PeerEvent(k) PROVE QueueTypeOK'
  BY <1>5, HeadEvent, <1>4 DEF PeerEvent, Elsewhere
<1>6. ASSUME NEW k \in Kinds, NEW p \in Peers, Timeout(k, p) PROVE QueueTypeOK' BY <1>4, <1>6 DEF Timeout
<1>7. ASSUME NEW k \in Kinds, NEW p \in Peers, Answer(k, p) PROVE QueueTypeOK' BY <1>7 DEF Answer, Elsewhere, queueVars
<1>8. ASSUME NEW k \in Kinds, Deliver(k) PROVE QueueTypeOK'
  <2> DEFINE p == fetch[k].peer
  <2>1. p \in Peers BY <1>8 DEF Deliver, FetchTypeOK
  <2>2. scheduled' = scheduled BY <1>8 DEF Deliver, Elsewhere
  <2>3. CASE UNCHANGED queueVars BY <2>2, <2>3 DEF queueVars
  <2>4. CASE Return(k, p) /\ UNCHANGED pool BY <1>4, <2>1, <2>2, <2>4
  <2>5. ASSUME NEW n \in 1 .. Cardinality(pend[k][p]), Accept(k, p, FirstOf(pend[k][p], n))
        PROVE  QueueTypeOK' BY <2>1, <2>2, <2>5 DEF Accept
  <2> QED BY <1>8, <2>3, <2>4, <2>5 DEF Deliver
<1>9. ASSUME NEW p \in Peers, LeavePeer(p) \/ JoinPeer(p) PROVE QueueTypeOK'
  BY <1>9 DEF LeavePeer, JoinPeer, PeerElsewhere, queueVars
<1>10. ASSUME NEW p \in Peers, Revoke(p) PROVE QueueTypeOK'
  BY <1>10 DEF Revoke, PeerElsewhere
<1>11. CASE HeadersWake \/ HeadersEnd \/ \E k \in Kinds : HeadersTell(k)
  BY <1>11 DEF HeadersWake, HeadersEnd, HeadersTell, queueVars
<1>12. CASE Results \/ Spawner \/ CancelSync \/ Finished \/ UNCHANGED vars
  BY <1>12 DEF Results, ResultsSleep, ResultsTake, ResultsReturn, ConsumerElsewhere, Spawner, CloseQueue, Cancel,
   CancelSync, SpawnElsewhere, Finished, vars, queueVars
<1> QED BY <1>1, <1>2, <1>3, <1>5, <1>6, <1>7, <1>8, <1>9, <1>10, <1>11, <1>12 DEF Next, HeaderProcessor, Fetcher

\* Every operation keeps the types of the fetchers' state and of the peer set.
LEMMA FetchTypeNext == TypeOK /\ [Next]_vars => FetchTypeOK'
<1> SUFFICES ASSUME TypeOK, [Next]_vars PROVE FetchTypeOK' OBVIOUS
<1> USE DEF TypeOK, FetchLocal
<1>0. /\ pending \in [Kinds -> SUBSET Peers] /\ stale \in [Kinds -> SUBSET Peers]
      /\ lacking \in [Peers -> SUBSET Headers]
  BY DEF FetchTypeOK
<1>1. ASSUME NEW k \in Kinds, NEW p \in Peers, Reserve(k, p) PROVE FetchTypeOK'
  <2>1. fetch[k] \in Local BY DEF FetchTypeOK
  <2>2. PICK idles \in SUBSET Peers, progressed \in BOOLEAN, throttled \in BOOLEAN :
          fetch' = [fetch EXCEPT ![k] = [fetch[k] EXCEPT !.idles = idles, !.progressed = progressed,
                                                         !.throttled = throttled]] BY <1>1, <2>1 DEF Reserve, Local
  <2>3. [fetch[k] EXCEPT !.idles = idles, !.progressed = progressed, !.throttled = throttled] \in Local
    BY <2>1 DEF Local
  <2>4. FetchLocal' BY <2>2, <2>3 DEF FetchTypeOK
  <2>5. pending' \in [Kinds -> SUBSET Peers]
    BY <1>1, <1>0 DEF Reserve
  <2>6. UNCHANGED <<stale, finished, wake, events, peerVars, abandoned>> BY <1>1 DEF Reserve
  <2> QED BY <2>4, <2>5, <2>6 DEF FetchTypeOK, peerVars
<1>2. ASSUME NEW k \in Kinds, NEW place \in {"wait"} \cup Ended, NEW unread \in Seq(Event),
             Go(k, At(place), unread)
      PROVE  FetchLocal' /\ events' \in [Kinds -> Seq(Event)] BY <1>2, AtType DEF Go, FetchTypeOK, Running, Ended
<1>3. ASSUME NEW k \in Kinds, NEW unread \in Seq(Event), Loop(k, unread)
      PROVE  FetchLocal' /\ events' \in [Kinds -> Seq(Event)] BY <1>3, LoopLeads DEF FetchTypeOK
<1>4. <<>> \in Seq(Event) /\ \A k \in Kinds : events[k] \in Seq(Event) BY DEF FetchTypeOK
<1>5. ASSUME NEW k \in Kinds, AssignEnd(k) PROVE FetchTypeOK'
  <2>1. FetchLocal' /\ events' \in [Kinds -> Seq(Event)]
    BY <1>5, <1>2, <1>4 DEF AssignEnd, Running, Ended
  <2> QED BY <1>5, <2>1 DEF AssignEnd, Elsewhere, FetchTypeOK, requestVars, peerVars
<1>6. ASSUME NEW k \in Kinds, Cancelled(k) PROVE FetchTypeOK'
  BY <1>2, <1>4, <1>6 DEF Cancelled, Ended, Elsewhere, FetchTypeOK, requestVars, peerVars
<1>7. ASSUME NEW k \in Kinds, PeerEvent(k) PROVE FetchTypeOK'
  <2>1. Tail(events[k]) \in Seq(Event) BY <1>4, <1>7 DEF PeerEvent
  <2>2. FetchLocal' /\ events' \in [Kinds -> Seq(Event)] BY <1>3, <1>7, <2>1 DEF PeerEvent
  <2>3. pending' \in [Kinds -> SUBSET Peers] /\ stale' \in [Kinds -> SUBSET Peers] BY <1>7 DEF PeerEvent, FetchTypeOK
  <2>4. UNCHANGED <<finished, wake, peerVars, abandoned>> BY <1>7 DEF PeerEvent
  <2> QED BY <2>2, <2>3, <2>4 DEF FetchTypeOK, peerVars
<1>8. ASSUME NEW k \in Kinds, NEW p \in Peers, Timeout(k, p) PROVE FetchTypeOK'
  BY <1>2, <1>3, <1>4, <1>8 DEF Timeout, Ended, FetchTypeOK, peerVars
<1>9. ASSUME NEW k \in Kinds, NEW p \in Peers, Answer(k, p) PROVE FetchTypeOK'
  BY <1>9, <1>0 DEF Place, Local, Running, Answer, FetchTypeOK, Elsewhere, peerVars
<1>10. ASSUME NEW k \in Kinds, Waker(k) PROVE FetchTypeOK'
  BY <1>3, <1>4, <1>10 DEF Waker, FetchTypeOK, Elsewhere, requestVars, peerVars
<1>11. ASSUME NEW k \in Kinds, AnswerIgnored(k) PROVE FetchTypeOK'
  <2>1. FetchLocal' /\ events' \in [Kinds -> Seq(Event)] BY <1>3, <1>4, <1>11 DEF AnswerIgnored
  <2>2. abandoned' \in [Kinds -> SUBSET Headers]
    BY <1>11 DEF AnswerIgnored, FetchTypeOK, QueueTypeOK
  <2> QED BY <1>11, <2>1, <2>2 DEF AnswerIgnored, Elsewhere, FetchTypeOK, requestVars, peerVars
<1>12. ASSUME NEW k \in Kinds, Deliver(k) PROVE FetchTypeOK'
  <2>1. FetchLocal' /\ events' \in [Kinds -> Seq(Event)] BY <1>3, <1>4, <1>12 DEF Deliver
  <2>2. lacking' \in [Peers -> SUBSET Headers]
    <3>1. lacking' = lacking \/ lacking' = [lacking EXCEPT ![fetch[k].peer] = @ \cup pend[k][fetch[k].peer]]
      BY <1>12 DEF Deliver, Accept
    <3>2. fetch[k].peer \in Peers /\ pend[k][fetch[k].peer] \subseteq Headers
      BY <1>12 DEF Deliver, QueueTypeOK, FetchTypeOK
    <3> QED BY <1>0, <3>1, <3>2
  <2>3. UNCHANGED <<pending, stale, finished, wake, peers, revoking, abandoned>> BY <1>12 DEF Deliver, requestVars
  <2> QED BY <2>1, <2>2, <2>3 DEF FetchTypeOK
<1>13. ASSUME NEW p \in Peers, NEW joined \in BOOLEAN, Announce(p, joined) PROVE events' \in [Kinds -> Seq(Event)]
  <2>1. [peer |-> p, join |-> joined] \in Event BY DEF Event
  <2>2. \A k \in Kinds : Append(events[k], [peer |-> p, join |-> joined]) \in Seq(Event) BY <1>4, <2>1
  <2> QED BY <1>4, <1>13, <2>2 DEF Announce
<1>14. ASSUME NEW p \in Peers, LeavePeer(p) \/ JoinPeer(p) PROVE FetchTypeOK'
  BY <1>13, <1>14 DEF LeavePeer, JoinPeer, FetchTypeOK, PeerElsewhere, fetchVars, requestVars
<1>15. ASSUME NEW p \in Peers, Revoke(p) PROVE FetchTypeOK'
  BY <1>15 DEF Revoke, PeerElsewhere, FetchTypeOK, fetchVars, requestVars
<1>16. WakeFetchers => wake' \in [Kinds -> {"none", "more", "last"}] BY DEF WakeFetchers, FetchTypeOK
<1>17. ASSUME NEW k \in Kinds, HeadersTell(k) PROVE FetchTypeOK'
  BY <1>17 DEF HeadersTell, FetchTypeOK, fetchVars, requestVars, peerVars
<1>18. CASE Schedule \/ HeadersWake \/ HeadersEnd
  BY <1>16, <1>18 DEF Schedule, HeadersWake, HeadersEnd, FetchTypeOK, fetchVars, requestVars, peerVars
<1>19. CASE Results
  BY <1>16, <1>19 DEF Results, ResultsSleep, ResultsTake, ResultsReturn, ConsumerElsewhere, FetchTypeOK, fetchVars,
   requestVars, peerVars
<1>20. CASE Spawner \/ CancelSync \/ Finished \/ UNCHANGED vars
  BY <1>20 DEF Spawner, CloseQueue, Cancel, CancelSync, SpawnElsewhere, Finished, vars, FetchTypeOK, fetchVars,
   requestVars, peerVars
<1> QED BY <1>1, <1>5, <1>6, <1>7, <1>8, <1>9, <1>10, <1>11, <1>12, <1>14, <1>15, <1>17, <1>18,
            <1>19, <1>20 DEF Next, HeaderProcessor, Fetcher

\* What GetCompleted counts and hands out: the first c results of the window are
\* complete, and it takes some of them from the front.
LEMMA TakeLeads ==
  ASSUME StoreTypeOK, IndexSound, ResultsTake
  PROVE  \E c \in counted .. N, limit \in 0 .. N :
           /\ offset + c <= N + 1 /\ limit <= c
           /\ \A h \in offset .. offset + c - 1 : Ready(h)
           /\ offset' = offset + limit /\ counted' = c - limit
           /\ slots' = {h \in slots : h >= offset + limit}
<1> DEFINE First(c) == /\ \A i \in counted .. c - 1 : Ready(offset + i)
                       /\ ~Ready(offset + c)
           complete == CHOOSE c \in counted .. N : First(c)
           limit == IF complete < MaxResults THEN complete ELSE MaxResults
<1>1. complete \in counted .. N /\ First(complete) BY CompleteExists
<1>2. /\ slots' = {h \in slots : h >= offset + limit}
      /\ offset' = offset + limit /\ counted' = complete - limit
  BY DEF ResultsTake, IndexAfter
<1> HIDE DEF complete
<1>3. counted \in Nat /\ N \in Nat /\ offset \in Nat /\ complete \in Nat BY <1>1, QueueAssumption DEF StoreTypeOK
<1>4. limit \in 0 .. N /\ limit <= complete BY <1>1, <1>3, QueueAssumption
<1>5. \A h \in offset .. offset + complete - 1 : Ready(h)
  <2> SUFFICES ASSUME NEW h \in offset .. offset + complete - 1 PROVE Ready(h) OBVIOUS
  <2>1. CASE h < offset + counted BY <1>3, <2>1 DEF IndexSound
  <2>2. CASE h >= offset + counted
    BY <1>3, <2>2, <1>1
  <2> QED BY <1>3, <2>1, <2>2
<1>6. offset + complete <= N + 1
  <2>1. CASE complete = counted BY <2>1 DEF IndexSound
  <2>2. CASE complete > counted
    BY <1>3, <1>5, <2>2 DEF Ready, StoreTypeOK, Headers
  <2> QED BY <1>1, <1>3, <2>1, <2>2
<1> QED BY <1>1, <1>2, <1>4, <1>5, <1>6

\* Every operation keeps the types of the window; GetCompleted moves it by whole
\* results, so never beyond the last header.
LEMMA StoreTypeNext == TypeOK /\ IndexSound /\ [Next]_vars => StoreTypeOK'
<1> SUFFICES ASSUME TypeOK, IndexSound, [Next]_vars PROVE StoreTypeOK' OBVIOUS
<1> USE DEF TypeOK
<1>0. /\ slots \subseteq Headers /\ outstanding \in [Kinds -> SUBSET Headers]
      /\ stored \in [Kinds -> SUBSET Headers]
  BY DEF StoreTypeOK
<1>1. ASSUME NEW k \in Kinds, NEW p \in Peers, Reserve(k, p) PROVE StoreTypeOK'
  <2>1. PICK fresh \in SUBSET Headers :
          /\ slots' = slots \cup fresh
          /\ outstanding' = [j \in Kinds |-> outstanding[j] \cup (fresh \ Empty(j))]
    BY <1>1 DEF QueueTypeOK, Reserve
  <2>2. slots' \subseteq Headers /\ outstanding' \in [Kinds -> SUBSET Headers] BY <1>0, <2>1
  <2>3. UNCHANGED <<stored, offset, counted, threshold>> BY <1>1 DEF Reserve, Elsewhere
  <2> QED BY <2>2, <2>3 DEF StoreTypeOK
<1>2. ASSUME NEW k \in Kinds, Deliver(k) PROVE StoreTypeOK'
  <2>1. CASE UNCHANGED <<outstanding, stored>> BY <1>2, <2>1 DEF Deliver, Elsewhere, StoreTypeOK
  <2>2. ASSUME NEW S, Accept(k, fetch[k].peer, S) PROVE StoreTypeOK'
    BY <1>0, <2>2, <1>2 DEF Accept, Deliver, Elsewhere, StoreTypeOK
  <2> QED BY <1>2, <2>1, <2>2 DEF Deliver
<1>3. CASE ResultsTake
  <2>1. offset' \in 1 .. N + 1 /\ counted' \in 0 .. N /\ slots' \subseteq Headers
    <3>1. PICK c \in counted .. N, limit \in 0 .. N :
           /\ offset + c <= N + 1 /\ limit <= c
           /\ offset' = offset + limit /\ counted' = c - limit
           /\ slots' \subseteq slots
      BY <1>3, TakeLeads
    <3> QED BY <1>0, <3>1, QueueAssumption DEF StoreTypeOK
  <2> QED BY <1>0, <1>3, <2>1 DEF ResultsTake, ConsumerElsewhere, StoreTypeOK
<1>4. CASE ResultsReturn BY <1>4 DEF ResultsReturn, Thresholds, ConsumerElsewhere, StoreTypeOK
<1>5. ASSUME NEW k \in Kinds, AssignEnd(k) \/ Cancelled(k) \/ PeerEvent(k) \/ Waker(k) \/ AnswerIgnored(k)
      PROVE  StoreTypeOK'
  BY <1>5 DEF AssignEnd, Cancelled, PeerEvent, Waker, AnswerIgnored, Elsewhere, slotVars, StoreTypeOK
<1>6. ASSUME NEW k \in Kinds, NEW p \in Peers, Timeout(k, p) \/ Answer(k, p) PROVE StoreTypeOK'
  BY <1>6 DEF Timeout, Answer, Elsewhere, slotVars, limitVars, StoreTypeOK
<1>7. ASSUME NEW p \in Peers, LeavePeer(p) \/ Revoke(p) \/ JoinPeer(p) PROVE StoreTypeOK'
  BY <1>7 DEF LeavePeer, Revoke, JoinPeer, PeerElsewhere, slotVars, limitVars, StoreTypeOK
<1>8. CASE Schedule \/ HeadersWake \/ HeadersEnd \/ \E k \in Kinds : HeadersTell(k)
  BY <1>8 DEF Schedule, HeadersWake, HeadersEnd, HeadersTell, slotVars, limitVars, StoreTypeOK
<1>9. CASE ResultsSleep \/ Spawner \/ CancelSync \/ Finished \/ UNCHANGED vars
  BY <1>9 DEF ResultsSleep, ConsumerElsewhere, Spawner, CloseQueue, Cancel, CancelSync, SpawnElsewhere, Finished, vars,
   slotVars, limitVars, StoreTypeOK
<1> QED BY <1>1, <1>2, <1>3, <1>4, <1>5, <1>6, <1>7, <1>8, <1>9 DEF Next, HeaderProcessor, Fetcher, Results

\* Every operation keeps the types of the states of the other goroutines.
LEMMA SyncTypeNext == TypeOK /\ [Next]_vars => SyncTypeOK'
<1> SUFFICES ASSUME TypeOK, [Next]_vars PROVE SyncTypeOK' OBVIOUS
<1> USE DEF TypeOK
<1>0. Signal => consumer' \in {"poll", "asleep", "woken", "empty", "full", "done", "error"} BY DEF Signal, SyncTypeOK
<1>1. UNCHANGED syncVars /\ (Fault \/ UNCHANGED faults) =>
        faults' \in 0 .. Budget[mode'][last'] /\ mode' \in Modes /\ last' \in Headers /\ beacon' \in BOOLEAN
  BY FaultType DEF SyncTypeOK, syncVars
<1>2. ASSUME NEW k \in Kinds, NEW p \in Peers, Reserve(k, p) PROVE SyncTypeOK'
  BY <1>2, <1>0, <1>1 DEF Reserve, Elsewhere, SyncTypeOK, endVars
<1>3. ASSUME NEW k \in Kinds, Deliver(k) PROVE SyncTypeOK'
  BY <1>3, <1>0, <1>1 DEF Deliver, Accept, Elsewhere, SyncTypeOK, endVars
<1>4. ASSUME NEW k \in Kinds, AssignEnd(k) \/ Cancelled(k) \/ PeerEvent(k) \/ Waker(k) \/ AnswerIgnored(k)
      PROVE  SyncTypeOK'
  BY <1>1, <1>4 DEF AssignEnd, Cancelled, PeerEvent, Waker, AnswerIgnored, Elsewhere, endVars, SyncTypeOK
<1>5. ASSUME NEW k \in Kinds, NEW p \in Peers, Timeout(k, p) PROVE SyncTypeOK'
  BY <1>5, <1>1 DEF Timeout, SyncTypeOK
<1>6. ASSUME NEW k \in Kinds, NEW p \in Peers, Answer(k, p) PROVE SyncTypeOK'
  BY <1>1, <1>6 DEF Answer, Elsewhere, endVars, SyncTypeOK
<1>7. ASSUME NEW p \in Peers, LeavePeer(p) \/ Revoke(p) \/ JoinPeer(p) PROVE SyncTypeOK'
  BY <1>1, <1>7 DEF LeavePeer, Revoke, JoinPeer, PeerElsewhere, endVars, SyncTypeOK
<1>8. CASE HeaderProcessor
  BY <1>1, <1>8 DEF HeaderProcessor, Schedule, HeadersWake, HeadersEnd, HeadersTell, endVars, SyncTypeOK
<1>9. CASE Results
  BY <1>1, <1>9 DEF Results, ResultsSleep, ResultsTake, ResultsReturn, ConsumerElsewhere, endVars, SyncTypeOK
<1>10. CASE Spawner \/ CancelSync \/ Finished \/ UNCHANGED vars
  BY <1>0, <1>1, <1>10 DEF Spawner, CloseQueue, Cancel, CancelSync, SpawnElsewhere, Finished, vars, endVars, syncVars,
   SyncTypeOK
<1> QED BY <1>2, <1>3, <1>4, <1>5, <1>6, <1>7, <1>8, <1>9, <1>10 DEF Next, Fetcher

\* Every operation keeps all types.
LEMMA TypeNext == TypeOK /\ IndexSound /\ [Next]_vars => TypeOK'
  BY QueueTypeNext, StoreTypeNext, FetchTypeNext, SyncTypeNext DEF TypeOK

-----------------------------------------------------------------------------
(* Where the parts to fetch are.                                           *)

\* What an assignment changes: it finds some headers done and takes some, which
\* then are in the peer's request, or stay where they are when it is not sent.
Assigned(k, p, done, taken, fresh) ==
  /\ done \subseteq tasks[k] /\ taken \subseteq tasks[k] /\ fresh \subseteq tasks[k]
  /\ done \cap taken = {} /\ fresh \cap slots = {} /\ \A h \in fresh : h >= offset
  /\ \A h \in done : h < offset \/ h \in slots \ outstanding[k] \/ h \in fresh \cap Empty(k)
  /\ slots' = slots \cup fresh
  /\ outstanding' = [j \in Kinds |-> outstanding[j] \cup (fresh \ Empty(j))]
  /\ pool' = [pool EXCEPT ![k] = @ \ done]
  /\ taken \subseteq slots' \cap outstanding'[k]
  /\ \/ /\ tasks' = [tasks EXCEPT ![k] = @ \ (done \cup taken)]
        /\ pend' = [pend EXCEPT ![k][p] = taken]
        /\ taken # {} => pending' = [pending EXCEPT ![k] = @ \cup {p}]
        /\ taken = {} => pending' = pending
     \/ /\ tasks' = [tasks EXCEPT ![k] = @ \ done]
        /\ UNCHANGED <<pend, pending>>

\* reserveHeaders changes the queue and the window in that way.
LEMMA ReserveLeads ==
  ASSUME TypeOK, NEW k \in Kinds, NEW p \in Peers, Reserve(k, p)
  PROVE  \E done, taken, fresh \in SUBSET Headers : Assigned(k, p, done, taken, fresh)
<1> DEFINE f == fetch[k]
           window == {h \in tasks[k] : h < offset + threshold}
           Wanted(h) == h >= offset /\ (IF h \in slots THEN h \in outstanding[k] ELSE h \notin Empty(k))
           taken == FirstOf({h \in window : Wanted(h) /\ h \notin lacking[p]}, Room[p])
           full == Cardinality(taken) = Room[p]
           popped == {h \in window : full => \E x \in taken : h <= x}
           done == {h \in popped : ~Wanted(h)}
           fresh == {h \in popped : h >= offset} \ slots
<1>1. tasks[k] \subseteq Headers /\ tasks[k] \subseteq Int BY QueueAssumption DEF TypeOK, QueueTypeOK, Headers
<1>2. taken \subseteq window /\ \A h \in taken : Wanted(h) BY FirstOfSubset
<1>3. /\ slots' = slots \cup fresh
      /\ outstanding' = [j \in Kinds |-> outstanding[j] \cup (fresh \ Empty(j))]
      /\ pool' = [pool EXCEPT ![k] = @ \ done]
  BY DEF Reserve
<1>4. \/ /\ tasks' = [tasks EXCEPT ![k] = @ \ (done \cup taken)]
         /\ pend' = [pend EXCEPT ![k][p] = taken]
         /\ pending' = IF taken = {} THEN pending ELSE [pending EXCEPT ![k] = @ \cup {p}]
      \/ /\ tasks' = [tasks EXCEPT ![k] = @ \ done]
         /\ UNCHANGED <<pend, pending>>
  BY DEF Reserve
<1> HIDE DEF taken
<1>5. taken \subseteq popped BY <1>1, <1>2
<1>6. \A h \in taken : h \in slots' /\ h \in outstanding'[k]
  <2> SUFFICES ASSUME NEW h \in taken PROVE h \in slots' /\ h \in outstanding'[k] OBVIOUS
  <2>1. Wanted(h) /\ h \in popped BY <1>2, <1>5
  <2>2. CASE h \in slots BY <1>3, <2>1, <2>2
  <2>3. CASE h \notin slots
    BY <2>1, <2>3, <1>3
  <2> QED BY <2>2, <2>3
<1>7. done \cap taken = {} BY <1>2
<1>8. done \in SUBSET Headers /\ fresh \in SUBSET Headers /\ done \subseteq tasks[k] /\ fresh \subseteq tasks[k] BY <1>1
<1>9. taken \subseteq tasks[k] BY <1>2
<1>10. fresh \cap slots = {} /\ \A h \in fresh : h >= offset OBVIOUS
<1>12. \A h \in done : h < offset \/ h \in slots \ outstanding[k] \/ h \in fresh \cap Empty(k)
  <2> SUFFICES ASSUME NEW h \in done, ~(h < offset)
               PROVE  h \in slots \ outstanding[k] \/ h \in fresh \cap Empty(k) OBVIOUS
  <2>1. h >= offset /\ h \in popped /\ ~Wanted(h) BY <1>1 DEF TypeOK, StoreTypeOK
  <2> QED BY <2>1
<1> HIDE DEF done, fresh
<1>11. taken \in SUBSET Headers BY <1>1, <1>9
<1> USE <1>8, <1>11
<1> WITNESS done \in SUBSET Headers, taken \in SUBSET Headers, fresh \in SUBSET Headers
<1> QED BY <1>1, <1>3, <1>4, <1>6, <1>7, <1>9, <1>10, <1>12 DEF Assigned

\* What delivering an answer changes: nothing, or the request of the peer returns
\* to the queue, or some headers of it are stored.
LEMMA DeliverLeads ==
  ASSUME NEW k \in Kinds, Deliver(k)
  PROVE  LET p == fetch[k].peer IN
           \/ UNCHANGED <<queueVars, outstanding, stored, consumer>> /\ pend[k][p] = {}
           \/ Return(k, p) /\ UNCHANGED <<pool, outstanding, stored, consumer>>
           \/ \E S \in SUBSET pend[k][p] : Accept(k, p, S)
<1> DEFINE p == fetch[k].peer
<1>1. ASSUME NEW n \in 1 .. Cardinality(pend[k][p]), Accept(k, p, FirstOf(pend[k][p], n))
      PROVE  \E S \in SUBSET pend[k][p] : Accept(k, p, S) BY <1>1, FirstOfSubset
<1>2. \/ UNCHANGED <<queueVars, outstanding, stored, consumer>> /\ pend[k][p] = {}
      \/ Return(k, p) /\ UNCHANGED <<pool, outstanding, stored, consumer>>
      \/ \E n \in 1 .. Cardinality(pend[k][p]) : Accept(k, p, FirstOf(pend[k][p], n))
  BY DEF Deliver
<1> QED BY <1>1, <1>2

\* Returning a request to the queue keeps every part in its place.
LEMMA ReturnOnePlace ==
  ASSUME QueueTypeOK, OnePlace, NEW k \in Kinds, NEW p \in Peers, Return(k, p), UNCHANGED pool PROVE OnePlace'
<1> SUFFICES ASSUME NEW j \in Kinds, NEW h \in Headers
             PROVE  /\ h \in pool'[j] <=> h \in tasks'[j] \/ \E r \in Peers : h \in pend'[j][r]
                    /\ \A r \in Peers : h \in pend'[j][r] =>
                          h \notin tasks'[j] /\ \A q \in Peers : h \in pend'[j][q] => q = r BY DEF OnePlace
<1>1. tasks'[j] = (IF j = k THEN tasks[k] \cup pend[k][p] ELSE tasks[j])
      /\ \A r \in Peers : pend'[j][r] = IF j = k /\ r = p THEN {} ELSE pend[j][r]
  BY DEF Return, QueueTypeOK
<1>2. CASE j = k /\ h \in pend[k][p]
  BY <1>2, <1>1 DEF OnePlace
<1>3. CASE ~(j = k /\ h \in pend[k][p])
  BY <1>1, <1>3 DEF OnePlace
<1> QED BY <1>2, <1>3

\* Storing some headers of a request and returning the others (deliver) keeps
\* every part in its place.
LEMMA AcceptOnePlace ==
  ASSUME QueueTypeOK, OnePlace, NEW k \in Kinds, NEW p \in Peers, NEW S \in SUBSET pend[k][p],
         Accept(k, p, S) PROVE OnePlace'
<1> SUFFICES ASSUME NEW j \in Kinds, NEW h \in Headers
             PROVE  /\ h \in pool'[j] <=> h \in tasks'[j] \/ \E r \in Peers : h \in pend'[j][r]
                    /\ \A r \in Peers : h \in pend'[j][r] =>
                          h \notin tasks'[j] /\ \A q \in Peers : h \in pend'[j][q] => q = r BY DEF OnePlace
<1>1. pool'[j] = (IF j = k THEN pool[k] \ S ELSE pool[j])
      /\ tasks'[j] = (IF j = k THEN tasks[k] \cup (pend[k][p] \ S) ELSE tasks[j])
  BY DEF Accept, QueueTypeOK
<1>2. pend' = [pend EXCEPT ![k][p] = {}] BY DEF Accept
<1>3. \A r \in Peers : pend'[j][r] = IF j = k /\ r = p THEN {} ELSE pend[j][r] BY <1>2 DEF QueueTypeOK
<1> QED BY <1>1, <1>3 DEF OnePlace

\* An assignment keeps every part in its place, since the peer has no request.
LEMMA ReserveOnePlace ==
  ASSUME TypeOK, OnePlace, HoldersTracked, NEW k \in Kinds, NEW p \in Peers, Reserve(k, p) PROVE OnePlace'
<1> SUFFICES ASSUME NEW j \in Kinds, NEW h \in Headers
             PROVE  /\ h \in pool'[j] <=> h \in tasks'[j] \/ \E r \in Peers : h \in pend'[j][r]
                    /\ \A r \in Peers : h \in pend'[j][r] =>
                          h \notin tasks'[j] /\ \A q \in Peers : h \in pend'[j][q] => q = r BY DEF OnePlace
<1>1. pend[k][p] = {} BY DEF Reserve, HoldersTracked
<1>2. PICK done, taken, fresh \in SUBSET Headers : Assigned(k, p, done, taken, fresh) BY ReserveLeads
<1> USE DEF Assigned
<1>3. pool'[j] = IF j = k THEN pool[k] \ done ELSE pool[j] BY <1>2 DEF TypeOK, QueueTypeOK
<1>4. CASE tasks' = [tasks EXCEPT ![k] = @ \ done] /\ UNCHANGED pend
  BY <1>4, <1>2, <1>3 DEF TypeOK, QueueTypeOK, OnePlace
<1>5. CASE tasks' = [tasks EXCEPT ![k] = @ \ (done \cup taken)] /\ pend' = [pend EXCEPT ![k][p] = taken]
  BY <1>5, <1>1, <1>2, <1>3 DEF TypeOK, QueueTypeOK, OnePlace
<1> QED BY <1>2, <1>4, <1>5

\* Schedule queues headers that were in no place before.
LEMMA ScheduleOnePlace ==
  ASSUME TypeOK, OnePlace, SlotsSound, Schedule PROVE OnePlace'
<1> SUFFICES ASSUME NEW j \in Kinds, NEW h \in Headers
             PROVE  /\ h \in pool'[j] <=> h \in tasks'[j] \/ \E r \in Peers : h \in pend'[j][r]
                    /\ \A r \in Peers : h \in pend'[j][r] =>
                          h \notin tasks'[j] /\ \A q \in Peers : h \in pend'[j][q] => q = r BY DEF OnePlace
<1>1. PICK chunk : /\ \A x \in chunk : x > scheduled
                   /\ pool'[j] = pool[j] \cup chunk /\ tasks'[j] = tasks[j] \cup chunk
  <2>1. PICK n \in scheduled + 1 .. last :
          LET chunk(k) == (scheduled + 1 .. n) \ (IF k = "body" THEN {} ELSE Empty(k)) IN
            /\ pool' = [k \in Kinds |-> pool[k] \cup chunk(k)]
            /\ tasks' = [k \in Kinds |-> tasks[k] \cup chunk(k)]
    BY DEF Schedule
  <2> DEFINE chunk == (scheduled + 1 .. n) \ (IF j = "body" THEN {} ELSE Empty(j))
  <2>2. \A x \in chunk : x > scheduled BY DEF TypeOK, QueueTypeOK
  <2>3. pool'[j] = pool[j] \cup chunk /\ tasks'[j] = tasks[j] \cup chunk BY <2>1
  <2> QED BY <2>2, <2>3
<1>2. h \in chunk => h \notin pool[j] BY <1>1 DEF SlotsSound, TypeOK, QueueTypeOK
<1>3. pend' = pend BY DEF Schedule
<1> QED BY <1>1, <1>2, <1>3 DEF OnePlace

\* Every operation keeps every part in its place.
LEMMA OnePlaceNext ==
  TypeOK /\ OnePlace /\ HoldersTracked /\ SlotsSound /\ [Next]_vars => OnePlace'
<1> SUFFICES ASSUME TypeOK, OnePlace, HoldersTracked, SlotsSound, [Next]_vars PROVE OnePlace' OBVIOUS
<1>0. UNCHANGED queueVars => OnePlace' BY DEF queueVars, OnePlace
<1>1. CASE Schedule BY <1>1, ScheduleOnePlace
<1>2. ASSUME NEW k \in Kinds, NEW p \in Peers, Reserve(k, p) PROVE OnePlace' BY <1>2, ReserveOnePlace
<1>3. ASSUME NEW k \in Kinds, PeerEvent(k) PROVE OnePlace'
  BY <1>3, HeadEvent, <1>0, ReturnOnePlace DEF PeerEvent, TypeOK, queueVars
<1>4. ASSUME NEW k \in Kinds, NEW p \in Peers, Timeout(k, p) PROVE OnePlace' BY <1>4, ReturnOnePlace DEF Timeout, TypeOK
<1>5. ASSUME NEW k \in Kinds, Deliver(k) PROVE OnePlace'
  BY <1>5, <1>0, DeliverLeads, ReturnOnePlace, AcceptOnePlace DEF Deliver, TypeOK, FetchTypeOK
<1>6. ASSUME NEW p \in Peers, Revoke(p) PROVE OnePlace'
  BY <1>6 DEF Revoke, TypeOK, QueueTypeOK, OnePlace
<1>7. ASSUME NEW k \in Kinds, AssignEnd(k) \/ Cancelled(k) \/ Waker(k) \/ AnswerIgnored(k) PROVE OnePlace'
  BY <1>0, <1>7 DEF AssignEnd, Cancelled, Waker, AnswerIgnored
<1>8. ASSUME NEW k \in Kinds, NEW p \in Peers, Answer(k, p) PROVE OnePlace' BY <1>0, <1>8 DEF Answer
<1>9. ASSUME NEW p \in Peers, LeavePeer(p) \/ JoinPeer(p) PROVE OnePlace' BY <1>0, <1>9 DEF LeavePeer, JoinPeer
<1>10. CASE HeadersWake \/ HeadersEnd \/ \E k \in Kinds : HeadersTell(k)
  BY <1>0, <1>10 DEF HeadersWake, HeadersEnd, HeadersTell
<1>11. CASE Results \/ Spawner \/ CancelSync \/ Finished \/ UNCHANGED vars
  BY <1>0, <1>11 DEF Results, ResultsSleep, ResultsTake, ResultsReturn, ConsumerElsewhere, Spawner, CloseQueue, Cancel,
   CancelSync, SpawnElsewhere, Finished, vars
<1> QED BY <1>1, <1>2, <1>3, <1>4, <1>5, <1>6, <1>7, <1>8, <1>9, <1>10, <1>11 DEF Next, HeaderProcessor, Fetcher

-----------------------------------------------------------------------------
(* Who holds headers.                                                      *)

\* A fetcher goes on at its head, with every holder's request live or revoked.
LEMMA GoesOnTracked ==
  ASSUME FetchTypeOK, HoldersTracked, NEW k \in Kinds, NEW next \in Local,
         fetch' = [fetch EXCEPT ![k] = next],
         next.at # "answer", next.at = "assign" => next.idles = IdlePeers(k),
         UNCHANGED <<peers, revoking>>,
         \A j \in Kinds : j # k => pend'[j] = pend[j] /\ pending'[j] = pending[j],
         \A p \in Peers : pend'[k][p] # {} => p \in pending'[k] \cup revoking PROVE HoldersTracked'
<1>1. \A j \in Kinds : fetch'[j] = IF j = k THEN next ELSE fetch[j] BY DEF FetchTypeOK, FetchLocal
<1>2. peers' \cap revoking' = {} BY DEF HoldersTracked
<1>3. ASSUME NEW j \in Kinds, NEW p \in Peers, pend'[j][p] # {}
      PROVE  \/ p \in pending'[j] \/ p \in revoking'
             \/ fetch'[j].at = "answer" /\ fetch'[j].peer = p /\ p \in peers'
  <2>1. CASE j = k BY <1>3, <2>1
  <2>2. CASE j # k BY <1>1, <1>3, <2>2 DEF HoldersTracked
  <2> QED BY <2>1, <2>2
<1>4. ASSUME NEW j \in Kinds, fetch'[j].at = "assign", NEW p \in fetch'[j].idles, p \in Peers PROVE pend'[j][p] = {}
  <2>1. CASE j = k BY <1>1, <1>2, <1>4, <2>1 DEF IdlePeers
  <2>2. CASE j # k BY <1>1, <1>4, <2>2 DEF HoldersTracked
  <2> QED BY <2>1, <2>2
<1>5. \A j \in Kinds : fetch'[j].idles \subseteq Peers BY <1>1 DEF FetchTypeOK, FetchLocal, Local
<1> QED BY <1>2, <1>3, <1>4, <1>5 DEF HoldersTracked

\* The same through the head of the loop of concurrentFetch.
LEMMA LoopTracked ==
  ASSUME FetchTypeOK, HoldersTracked, NEW k \in Kinds, NEW unread \in Seq(Event), Loop(k, unread),
         UNCHANGED <<peers, revoking>>,
         \A j \in Kinds : j # k => pend'[j] = pend[j] /\ pending'[j] = pending[j],
         \A p \in Peers : pend'[k][p] # {} => p \in pending'[k] \cup revoking PROVE HoldersTracked'
<1>1. PICK next \in Local : /\ fetch' = [fetch EXCEPT ![k] = next]
                            /\ next.at # "answer"
                            /\ next.at = "assign" => next.idles = IdlePeers(k)
  BY LoopLeads
<1> QED BY <1>1, GoesOnTracked

\* The same where the fetcher waits or ends.
LEMMA StopTracked ==
  ASSUME FetchTypeOK, HoldersTracked, NEW k \in Kinds, NEW place \in {"wait"} \cup Ended, NEW unread,
         Go(k, At(place), unread), UNCHANGED <<peers, revoking>>,
         \A j \in Kinds : j # k => pend'[j] = pend[j] /\ pending'[j] = pending[j],
         \A p \in Peers : pend'[k][p] # {} => p \in pending'[k] \cup revoking PROVE HoldersTracked'
  BY AtType, GoesOnTracked DEF Running, Go, Ended

\* Every operation keeps track of who holds headers: a fetcher forgets a request
\* only to return it, to answer it, or once Revoke is to come.
LEMMA HoldersNext ==
  TypeOK /\ HoldersTracked /\ [Next]_vars => HoldersTracked'
<1> SUFFICES ASSUME TypeOK, HoldersTracked, [Next]_vars PROVE HoldersTracked' OBVIOUS
<1>0. FetchTypeOK /\ QueueTypeOK /\ <<>> \in Seq(Event) /\ \A k \in Kinds : events[k] \in Seq(Event)
  BY DEF TypeOK, FetchTypeOK
\* The fetcher's own steps that leave the queue alone: who holds headers is asked for them.
<1>1. ASSUME NEW k \in Kinds, Waiting(k) \/ fetch[k].at = "assign"
      PROVE  \A p \in Peers : pend[k][p] # {} => p \in pending[k] \cup revoking BY <1>1 DEF HoldersTracked, Waiting
<1>2. ASSUME NEW k \in Kinds, AssignEnd(k) PROVE HoldersTracked'
  BY <1>2, <1>1, <1>0, StopTracked DEF AssignEnd, queueVars, requestVars, peerVars, Ended
<1>3. ASSUME NEW k \in Kinds, Cancelled(k) PROVE HoldersTracked'
  BY <1>3, <1>1, <1>0, StopTracked DEF Cancelled, queueVars, requestVars, peerVars, Ended
<1>4. ASSUME NEW k \in Kinds, Waker(k) PROVE HoldersTracked'
  BY <1>4, <1>1, <1>0, LoopTracked DEF Waker, queueVars, requestVars, peerVars
<1>5. ASSUME NEW k \in Kinds, AnswerIgnored(k) PROVE HoldersTracked'
  BY <1>5, <1>0, LoopTracked DEF AnswerIgnored, queueVars, requestVars, peerVars, HoldersTracked
<1>6. ASSUME NEW k \in Kinds, Deliver(k) PROVE HoldersTracked'
  <2> DEFINE p == fetch[k].peer
  <2>1. UNCHANGED <<pending, peers, revoking>> /\ Loop(k, events[k]) /\ p \in Peers
    BY <1>6 DEF Deliver, requestVars, TypeOK, FetchTypeOK
  <2>2. pend' = [pend EXCEPT ![k][p] = {}] \/ (pend' = pend /\ pend[k][p] = {})
    BY <1>6, DeliverLeads DEF Return, Accept, queueVars
  <2>3. \A j \in Kinds, r \in Peers : pend'[j][r] = IF j = k /\ r = p THEN {} ELSE pend[j][r]
    BY <2>1, <2>2 DEF TypeOK, QueueTypeOK
  <2>4. \A j \in Kinds : j # k => pend'[j] = pend[j] BY <2>2 DEF TypeOK, QueueTypeOK
  <2>5. \A r \in Peers : pend'[k][r] # {} => r \in pending'[k] \cup revoking BY <2>1, <2>3 DEF HoldersTracked
  <2> QED BY <1>0, <2>1, <2>4, <2>5, LoopTracked
<1>7. ASSUME NEW k \in Kinds, NEW p \in Peers, Timeout(k, p) PROVE HoldersTracked'
  <2>1. UNCHANGED <<peers, revoking>> /\ Waiting(k) /\ (Go(k, At("error"), <<>>) \/ Loop(k, events[k]))
    BY <1>7 DEF Timeout, peerVars
  <2>2. pend' = [pend EXCEPT ![k][p] = {}] /\ pending' = [pending EXCEPT ![k] = @ \ {p}] BY <1>7 DEF Timeout, Return
  <2>3. \A r \in Peers : pend'[k][r] = IF r = p THEN {} ELSE pend[k][r] BY <2>2 DEF TypeOK, QueueTypeOK
  <2>4. \A j \in Kinds : j # k => pend'[j] = pend[j] /\ pending'[j] = pending[j]
    BY <2>2 DEF TypeOK, QueueTypeOK, FetchTypeOK
  <2>5. pending'[k] = pending[k] \ {p} BY <2>2 DEF TypeOK, FetchTypeOK
  <2>6. \A r \in Peers : pend'[k][r] # {} => r \in pending'[k] \cup revoking BY <1>1, <2>1, <2>3, <2>5
  <2>7. CASE Loop(k, events[k]) BY <1>0, <2>1, <2>4, <2>6, <2>7, LoopTracked
  <2>8. CASE Go(k, At("error"), <<>>) BY <1>0, <2>1, <2>4, <2>6, <2>8, StopTracked DEF Ended
  <2> QED BY <2>1, <2>7, <2>8
<1>8. ASSUME NEW k \in Kinds, PeerEvent(k) PROVE HoldersTracked'
  <2> DEFINE e == Head(events[k])
  <2>1. UNCHANGED <<peers, revoking>> /\ Waiting(k) /\ Loop(k, Tail(events[k])) BY <1>8 DEF PeerEvent, peerVars
  <2>2. e.peer \in Peers /\ Tail(events[k]) \in Seq(Event) BY <1>0, <1>8, HeadEvent DEF PeerEvent
  <2>3. IF ~e.join /\ e.peer \in pending[k] THEN pend' = [pend EXCEPT ![k][e.peer] = {}] ELSE pend' = pend
    BY <1>8 DEF PeerEvent, Return
  <2>4. pending' = [pending EXCEPT ![k] = IF e.join THEN @ ELSE @ \ {e.peer}] BY <1>8 DEF PeerEvent
  <2> HIDE DEF e
  <2>5. \A r \in Peers : pend'[k][r] = IF r = e.peer /\ ~e.join /\ e.peer \in pending[k] THEN {} ELSE pend[k][r]
    BY <2>2, <2>3 DEF TypeOK, QueueTypeOK
  <2>6. pending'[k] = IF e.join THEN pending[k] ELSE pending[k] \ {e.peer} BY <2>4 DEF TypeOK, FetchTypeOK
  <2>7. \A j \in Kinds : j # k => pend'[j] = pend[j] /\ pending'[j] = pending[j]
    BY <2>3, <2>4 DEF TypeOK, QueueTypeOK, FetchTypeOK
  <2>8. \A r \in Peers : pend'[k][r] # {} => r \in pending'[k] \cup revoking BY <1>1, <2>1, <2>5, <2>6
  <2> QED BY <1>0, <2>1, <2>2, <2>7, <2>8, LoopTracked
<1>9. ASSUME NEW k \in Kinds, NEW p \in Peers, Reserve(k, p) PROVE HoldersTracked'
  <2>1. PICK done, taken, fresh \in SUBSET Headers : Assigned(k, p, done, taken, fresh) BY <1>9, ReserveLeads
  <2>2. UNCHANGED peerVars /\ fetch[k].at = "assign" /\ p \in fetch[k].idles BY <1>9 DEF Reserve
  <2>3. PICK next : /\ next.at = "assign" /\ next.idles = fetch[k].idles \ {p}
                    /\ fetch' = [fetch EXCEPT ![k] = next]
    <3>1. fetch[k] \in Local BY <1>0 DEF FetchTypeOK, FetchLocal
    <3>2. PICK b, c : fetch' = [fetch EXCEPT ![k] = [fetch[k] EXCEPT !.idles = @ \ {p}, !.progressed = b,
                                                                     !.throttled = c]] BY <1>9 DEF Reserve
    <3> DEFINE next == [fetch[k] EXCEPT !.idles = @ \ {p}, !.progressed = b, !.throttled = c]
    <3>3. next.at = "assign" /\ next.idles = fetch[k].idles \ {p} BY <2>2, <3>1 DEF Local
    <3> QED BY <3>2, <3>3
  <2>4. \A j \in Kinds : fetch'[j] = IF j = k THEN next ELSE fetch[j] BY <2>3 DEF TypeOK, FetchTypeOK, FetchLocal
  <2>5. \A j \in Kinds, r \in Peers : \/ pend'[j][r] = pend[j][r]
                                      \/ j = k /\ r = p /\ pend'[j][r] = taken
    BY <2>1 DEF Assigned, TypeOK, QueueTypeOK
  <2>6. \A j \in Kinds : pending[j] \subseteq pending'[j] BY <2>1 DEF Assigned, TypeOK, FetchTypeOK
  <2>7. taken # {} => p \in pending'[k] \/ pend' = pend BY <2>1 DEF Assigned, TypeOK, FetchTypeOK
  <2>8. ASSUME NEW j \in Kinds, NEW r \in Peers, pend'[j][r] # {}
        PROVE  r \in pending'[j] \/ r \in revoking' \/ (fetch'[j].at = "answer" /\ fetch'[j].peer = r /\ r \in peers')
    <3>1. CASE pend[j][r] # {}
      <4>1. r \in pending[j] \/ r \in revoking \/ (fetch[j].at = "answer" /\ fetch[j].peer = r /\ r \in peers)
        BY <3>1 DEF HoldersTracked
      <4>2. CASE r \in pending[j] BY <2>6, <4>2
      <4>3. CASE r \in revoking BY <2>2, <4>3 DEF peerVars
      <4>4. CASE fetch[j].at = "answer" /\ fetch[j].peer = r /\ r \in peers
        BY <2>2, <4>4, <2>4 DEF peerVars
      <4> QED BY <4>1, <4>2, <4>3, <4>4
    <3>2. CASE pend[j][r] = {}
      BY <2>8, <3>2, <2>5, <2>7
    <3> QED BY <3>1, <3>2
  <2>9. ASSUME NEW j \in Kinds, fetch'[j].at = "assign", NEW r \in fetch'[j].idles PROVE pend'[j][r] = {}
    <3>1. fetch[j].at = "assign" /\ r \in fetch[j].idles /\ (j = k => r # p) BY <2>2, <2>3, <2>4, <2>9
    <3>2. r \in Peers BY <1>0, <3>1 DEF FetchTypeOK, FetchLocal, Local
    <3> QED BY <2>5, <3>1, <3>2 DEF HoldersTracked
  <2> QED BY <2>2, <2>8, <2>9 DEF HoldersTracked, peerVars
<1>10. ASSUME NEW k \in Kinds, NEW p \in Peers, Answer(k, p) PROVE HoldersTracked'
  <2>1. UNCHANGED <<pend, peers, revoking>> /\ fetch[k].at = "wait" /\ p \in peers
    BY <1>10 DEF Answer, Waiting, queueVars, peerVars
  <2>2. Place("answer", p).at = "answer" /\ Place("answer", p).peer = p BY DEF Place
  <2>3. \A j \in Kinds : fetch'[j] = IF j = k THEN Place("answer", p) ELSE fetch[j]
    BY <1>10 DEF Answer, TypeOK, FetchTypeOK, FetchLocal
  <2>4. \A j \in Kinds : pending'[j] = IF j = k THEN pending[j] \ {p} ELSE pending[j]
    BY <1>10 DEF Answer, TypeOK, FetchTypeOK
  <2>5. ASSUME NEW j \in Kinds, NEW r \in Peers, pend'[j][r] # {}
        PROVE  r \in pending'[j] \/ r \in revoking' \/ (fetch'[j].at = "answer" /\ fetch'[j].peer = r /\ r \in peers')
    <3>1. r \in pending[j] \/ r \in revoking \/ (fetch[j].at = "answer" /\ fetch[j].peer = r /\ r \in peers)
      BY <2>1, <2>5 DEF HoldersTracked
    <3>2. CASE j = k /\ r = p BY <2>1, <2>2, <2>3, <3>2
    <3>3. CASE ~(j = k /\ r = p) BY <2>1, <2>3, <2>4, <3>1, <3>3
    <3> QED BY <3>2, <3>3
  <2>6. ASSUME NEW j \in Kinds, fetch'[j].at = "assign", NEW r \in fetch'[j].idles PROVE pend'[j][r] = {}
    BY <2>2, <2>3, <2>6, <2>1 DEF HoldersTracked
  <2> QED BY <2>1, <2>5, <2>6 DEF HoldersTracked
<1>11. ASSUME NEW p \in Peers, LeavePeer(p) PROVE HoldersTracked'
  BY <1>11 DEF LeavePeer, PeerElsewhere, queueVars, fetchVars, requestVars, HoldersTracked
<1>12. ASSUME NEW p \in Peers, JoinPeer(p) PROVE HoldersTracked'
  BY <1>12 DEF JoinPeer, PeerElsewhere, queueVars, fetchVars, requestVars, HoldersTracked
<1>13. ASSUME NEW p \in Peers, Revoke(p) PROVE HoldersTracked'
  <2>1. revoking' = revoking \ {p} /\ UNCHANGED <<peers, fetch, pending>>
    BY <1>13 DEF Revoke, PeerElsewhere, fetchVars, requestVars
  <2>2. \A j \in Kinds, r \in Peers : pend'[j][r] = IF r = p THEN {} ELSE pend[j][r]
    BY <1>13 DEF Revoke, TypeOK, QueueTypeOK
  <2>3. \A j \in Kinds : fetch[j].idles \subseteq Peers BY <1>0 DEF FetchTypeOK, FetchLocal, Local
  <2> QED BY <2>1, <2>2, <2>3 DEF HoldersTracked
<1>14. UNCHANGED <<pend, fetch, pending, peers, revoking>> => HoldersTracked' BY DEF HoldersTracked
<1>15. CASE HeaderProcessor
  BY <1>14, <1>15 DEF HeaderProcessor, Schedule, HeadersWake, HeadersEnd, HeadersTell, queueVars, fetchVars,
   requestVars, peerVars
<1>16. CASE Results \/ Spawner \/ CancelSync \/ Finished \/ UNCHANGED vars
  BY <1>14, <1>16 DEF Results, ResultsSleep, ResultsTake, ResultsReturn, ConsumerElsewhere, Spawner, CloseQueue, Cancel,
   CancelSync, SpawnElsewhere, Finished, vars, queueVars, fetchVars, requestVars, peerVars
<1> QED BY <1>2, <1>3, <1>4, <1>5, <1>6, <1>7, <1>8, <1>9, <1>10, <1>11, <1>12, <1>13, <1>15, <1>16 DEF Next, Fetcher

-----------------------------------------------------------------------------
(* The window.                                                             *)

\* A step that leaves the window alone and gives nobody more headers, and the
\* delivery of an answer some headers of which are stored.
Untouched == /\ UNCHANGED <<pool, slots, outstanding, stored, offset, counted, scheduled>>
             /\ \A k \in Kinds, p \in Peers : pend'[k][p] \subseteq pend[k][p]
Accepts(k) == /\ fetch[k].peer \in Peers
              /\ \E S \in SUBSET pend[k][fetch[k].peer] : Accept(k, fetch[k].peer, S)
              /\ UNCHANGED <<slots, offset, counted, scheduled>>

\* Of all operations only Schedule, reserveHeaders, deliver and GetCompleted matter
\* to the window; the others at most return requests to the queue.
LEMMA WindowSteps ==
  ASSUME TypeOK, [Next]_vars
  PROVE  /\ mode' = mode
         /\ \/ Untouched \/ Schedule \/ ResultsTake
            \/ \E k \in Kinds : Accepts(k) \/ \E p \in Peers : Reserve(k, p)
<1> DEFINE Quiet == UNCHANGED <<pool, slots, outstanding, stored, offset, counted, scheduled>>
<1>0. UNCHANGED pend => \A k \in Kinds, p \in Peers : pend'[k][p] \subseteq pend[k][p] OBVIOUS
<1>1. ASSUME NEW k \in Kinds, NEW p \in Peers, Return(k, p)
      PROVE  \A j \in Kinds, r \in Peers : pend'[j][r] \subseteq pend[j][r]
  BY <1>1 DEF Return, TypeOK, QueueTypeOK
<1>2. ASSUME NEW k \in Kinds, AssignEnd(k) \/ Cancelled(k) \/ Waker(k) \/ AnswerIgnored(k)
      PROVE  mode' = mode /\ Untouched
  <2>1. Quiet /\ mode' = mode /\ UNCHANGED pend
    BY <1>2 DEF AssignEnd, Cancelled, Waker, AnswerIgnored, Elsewhere, slotVars, queueVars, syncVars
  <2> QED BY <1>0, <2>1 DEF Untouched
<1>3. ASSUME NEW k \in Kinds, PeerEvent(k) PROVE mode' = mode /\ Untouched
  BY <1>3, HeadEvent, <1>0, <1>1 DEF PeerEvent, TypeOK, Elsewhere, slotVars, syncVars, Untouched
<1>4. ASSUME NEW k \in Kinds, NEW p \in Peers, Timeout(k, p) PROVE mode' = mode /\ Untouched
  BY <1>4, <1>1 DEF Timeout, slotVars, limitVars, syncVars, Untouched
<1>5. ASSUME NEW k \in Kinds, NEW p \in Peers, Answer(k, p) PROVE mode' = mode /\ Untouched
  BY <1>5, <1>0 DEF Answer, Elsewhere, slotVars, queueVars, syncVars, Untouched
<1>6. ASSUME NEW k \in Kinds, Deliver(k) PROVE mode' = mode /\ (Untouched \/ Accepts(k))
  <2>1. fetch[k].peer \in Peers BY <1>6 DEF Deliver, TypeOK, FetchTypeOK
  <2>2. UNCHANGED <<slots, offset, counted, scheduled, mode>> BY <1>6 DEF Deliver, Elsewhere, syncVars
  <2>3. CASE UNCHANGED <<queueVars, outstanding, stored, consumer>> BY <1>0, <2>2, <2>3 DEF Untouched, queueVars
  <2>4. CASE Return(k, fetch[k].peer) /\ UNCHANGED <<pool, outstanding, stored, consumer>>
    BY <1>1, <2>1, <2>2, <2>4 DEF Untouched
  <2>5. CASE \E S \in SUBSET pend[k][fetch[k].peer] : Accept(k, fetch[k].peer, S) BY <2>1, <2>2, <2>5 DEF Accepts
  <2> QED BY <1>6, <2>3, <2>4, <2>5, DeliverLeads
<1>7. ASSUME NEW p \in Peers, LeavePeer(p) \/ JoinPeer(p) PROVE mode' = mode /\ Untouched
  BY <1>7, <1>0 DEF LeavePeer, JoinPeer, PeerElsewhere, slotVars, limitVars, queueVars, syncVars, Untouched
<1>8. ASSUME NEW p \in Peers, Revoke(p) PROVE mode' = mode /\ Untouched
  BY <1>8 DEF Revoke, PeerElsewhere, slotVars, limitVars, syncVars, TypeOK, QueueTypeOK, Untouched
<1>9. CASE HeadersWake \/ HeadersEnd \/ \E k \in Kinds : HeadersTell(k)
  BY <1>9, <1>0 DEF HeadersWake, HeadersEnd, HeadersTell, slotVars, limitVars, queueVars, syncVars, Untouched
<1>10. CASE ResultsSleep \/ ResultsReturn \/ Spawner \/ CancelSync \/ Finished \/ UNCHANGED vars
  <2>1. Quiet /\ mode' = mode /\ UNCHANGED pend
    BY <1>10 DEF ResultsSleep, ResultsReturn, ConsumerElsewhere, Spawner, CloseQueue, Cancel, CancelSync,
     SpawnElsewhere, Finished, vars, slotVars, limitVars, queueVars, syncVars
  <2> QED BY <1>0, <2>1 DEF Untouched
<1>11. Schedule => mode' = mode BY DEF Schedule, syncVars
<1>12. ResultsTake => mode' = mode BY DEF ResultsTake, ConsumerElsewhere, syncVars
<1>13. \A k \in Kinds, p \in Peers : Reserve(k, p) => mode' = mode BY DEF Reserve, Elsewhere, syncVars
<1> QED BY <1>2, <1>3, <1>4, <1>5, <1>6, <1>7, <1>8, <1>9, <1>10, <1>11, <1>12, <1>13 DEF Next, Fetcher,
  HeaderProcessor, Results

\* What an accepted answer changes, kind by kind and peer by peer.
LEMMA AcceptAt ==
  ASSUME TypeOK, NEW k \in Kinds, NEW p \in Peers, NEW S, Accept(k, p, S)
  PROVE  /\ outstanding'[k] = outstanding[k] \ (S \cap slots)
         /\ stored'[k] = stored[k] \cup (S \cap slots)
         /\ pool'[k] = pool[k] \ S
         /\ pend'[k][p] = {} /\ \A r \in Peers : r # p => pend'[k][r] = pend[k][r]
         /\ \A j \in Kinds : j # k =>
              /\ outstanding'[j] = outstanding[j] /\ stored'[j] = stored[j]
              /\ pool'[j] = pool[j] /\ pend'[j] = pend[j]
  BY DEF Accept, TypeOK, QueueTypeOK, StoreTypeOK

\* Every operation keeps the window within the scheduled headers, with each part
\* empty, stored or outstanding.
LEMMA SlotsNext ==
  TypeOK /\ OnePlace /\ SlotsSound /\ IndexSound /\ [Next]_vars => SlotsSound'
<1> SUFFICES ASSUME TypeOK, OnePlace, SlotsSound, IndexSound, [Next]_vars PROVE SlotsSound' OBVIOUS
<1>1. mode' = mode /\ \A k \in Kinds : Empty(k)' = Empty(k) BY WindowSteps DEF Empty
<1>2. CASE Untouched BY <1>1, <1>2 DEF Untouched, SlotsSound
<1>3. CASE Schedule
  BY <1>3, <1>1 DEF Schedule, slotVars, limitVars, TypeOK, QueueTypeOK, SlotsSound
<1>4. CASE ResultsTake
  <2>1. PICK limit \in 0 .. N : offset' = offset + limit /\ slots' = {h \in slots : h >= offset + limit}
    BY <1>4, TakeLeads DEF TypeOK
  <2>2. UNCHANGED <<pool, outstanding, stored, scheduled>> BY <1>4 DEF ResultsTake, ConsumerElsewhere, queueVars
  <2>3. slots' \subseteq offset' .. scheduled'
    <3>1. offset \in Int /\ limit \in Int /\ scheduled \in Int BY QueueAssumption DEF TypeOK, StoreTypeOK, QueueTypeOK
    <3>2. \A h \in slots : h \in Int /\ h <= scheduled BY <3>1 DEF SlotsSound
    <3> QED BY <2>1, <2>2, <3>1, <3>2
  <2> QED BY <1>1, <2>1, <2>2, <2>3 DEF SlotsSound
<1>5. ASSUME NEW k \in Kinds, Accepts(k) PROVE SlotsSound'
  <2>1. PICK S \in SUBSET pend[k][fetch[k].peer] : Accept(k, fetch[k].peer, S) BY <1>5 DEF Accepts
  <2>2. UNCHANGED <<slots, offset, scheduled>> /\ fetch[k].peer \in Peers BY <1>5 DEF Accepts
  <2>3. \A j \in Kinds : /\ pool'[j] \subseteq pool[j]
                         /\ outstanding[j] \subseteq outstanding'[j] \cup stored'[j]
                         /\ stored[j] \subseteq stored'[j]
    BY <2>1, <2>2, AcceptAt
  <2> QED BY <1>1, <2>2, <2>3 DEF SlotsSound
<1>6. ASSUME NEW k \in Kinds, NEW p \in Peers, Reserve(k, p) PROVE SlotsSound'
  <2>1. PICK done, taken, fresh \in SUBSET Headers : Assigned(k, p, done, taken, fresh) BY <1>6, ReserveLeads
  <2>2. UNCHANGED <<stored, offset, scheduled>> BY <1>6 DEF Reserve, Elsewhere
  <2>3. fresh \subseteq pool[k] BY <2>1 DEF Assigned, OnePlace
  <2>4. \A j \in Kinds : pool'[j] \subseteq pool[j] BY <2>1 DEF Assigned, TypeOK, QueueTypeOK
  <2>5. slots' = slots \cup fresh /\ \A j \in Kinds : outstanding'[j] = outstanding[j] \cup (fresh \ Empty(j))
    BY <2>1 DEF Assigned
  <2>6. fresh \subseteq offset .. scheduled BY <2>1, <2>3 DEF Assigned, SlotsSound, TypeOK, QueueTypeOK, StoreTypeOK
  <2> QED BY <1>1, <2>2, <2>4, <2>5, <2>6 DEF SlotsSound
<1> QED BY <1>2, <1>3, <1>4, <1>5, <1>6, WindowSteps

\* Only Results moves the window; otherwise it grows, and so does what is stored.
LEMMA WindowGrows ==
  ASSUME TypeOK, Untouched \/ Schedule \/ \E k \in Kinds : Accepts(k) \/ \E p \in Peers : Reserve(k, p)
  PROVE  /\ UNCHANGED <<offset, counted>> /\ slots \subseteq slots'
         /\ scheduled \in Int /\ scheduled' \in Int /\ scheduled <= scheduled'
         /\ \A j \in Kinds : stored[j] \subseteq stored'[j]
<1>0. scheduled \in Int BY DEF TypeOK, QueueTypeOK
<1>1. CASE Untouched BY <1>0, <1>1 DEF Untouched
<1>2. CASE Schedule
  <2>1. UNCHANGED <<offset, counted, slots, stored>> BY <1>2 DEF Schedule, slotVars, limitVars
  <2>2. PICK n \in scheduled + 1 .. last : scheduled' = n BY <1>2 DEF Schedule
  <2> QED BY <1>0, <2>1, <2>2
<1>3. ASSUME NEW k \in Kinds, Accepts(k)
      PROVE  /\ UNCHANGED <<offset, counted, slots, scheduled>>
             /\ \A j \in Kinds : stored[j] \subseteq stored'[j]
  <2>1. PICK S \in SUBSET pend[k][fetch[k].peer] : Accept(k, fetch[k].peer, S) BY <1>3 DEF Accepts
  <2>2. \A j \in Kinds : stored[j] \subseteq stored'[j] BY <1>3, <2>1, AcceptAt DEF Accepts
  <2> QED BY <1>3, <2>2 DEF Accepts
<1>4. ASSUME NEW k \in Kinds, NEW p \in Peers, Reserve(k, p)
      PROVE  UNCHANGED <<offset, counted, stored, scheduled>> /\ slots \subseteq slots' BY <1>4 DEF Reserve, Elsewhere
<1> QED BY <1>0, <1>1, <1>2, <1>3, <1>4

\* A complete result stays complete until it is handed out.
LEMMA StaysReady ==
  ASSUME TypeOK, NEW h,
         Ready(h), h \in slots', Schedule \/ Untouched \/ ResultsTake
                                 \/ \E k \in Kinds : Accepts(k) \/ \E p \in Peers : Reserve(k, p)
  PROVE  Ready(h)'
<1>1. CASE Schedule \/ Untouched \/ ResultsTake
  BY <1>1 DEF Schedule, Untouched, ResultsTake, ConsumerElsewhere, slotVars, Ready
<1>2. ASSUME NEW k \in Kinds, Accepts(k) PROVE Ready(h)'
  <2>1. PICK S \in SUBSET pend[k][fetch[k].peer] : Accept(k, fetch[k].peer, S) BY <1>2 DEF Accepts
  <2>2. \A j \in Kinds : outstanding'[j] \subseteq outstanding[j] BY <1>2, <2>1, AcceptAt DEF Accepts
  <2> QED BY <2>2 DEF Ready
<1>3. ASSUME NEW k \in Kinds, NEW p \in Peers, Reserve(k, p) PROVE Ready(h)'
  <2>1. PICK done, taken, fresh \in SUBSET Headers : Assigned(k, p, done, taken, fresh) BY <1>3, ReserveLeads
  <2>2. h \notin fresh /\ \A j \in Kinds : outstanding'[j] = outstanding[j] \cup (fresh \ Empty(j))
    BY <2>1 DEF Assigned, Ready
  <2> QED BY <2>2 DEF Ready
<1> QED BY <1>1, <1>2, <1>3

\* Every operation keeps the cached index of countCompleted sound.
LEMMA IndexNext ==
  TypeOK /\ IndexSound /\ [Next]_vars => IndexSound'
<1> SUFFICES ASSUME TypeOK, IndexSound, [Next]_vars PROVE IndexSound' OBVIOUS
<1>1. CASE ResultsTake
  <2>1. PICK c \in counted .. N, limit \in 0 .. N :
           /\ offset + c <= N + 1 /\ limit <= c
           /\ \A h \in offset .. offset + c - 1 : Ready(h)
           /\ offset' = offset + limit /\ counted' = c - limit
           /\ slots' = {h \in slots : h >= offset + limit}
    BY <1>1, TakeLeads DEF TypeOK
  <2>2. offset \in Nat /\ c \in Nat /\ limit \in Nat /\ N \in Nat BY <2>1, QueueAssumption DEF TypeOK, StoreTypeOK
  <2>3. ASSUME NEW h \in offset' .. offset' + counted' - 1 PROVE Ready(h)'
    BY <2>1, <2>2, <1>1, StaysReady DEF Ready
  <2>4. offset' + counted' <= N + 1 BY <2>1, <2>2
  <2> QED BY <2>3, <2>4 DEF IndexSound
<1>2. CASE Untouched \/ Schedule \/ \E k \in Kinds : Accepts(k) \/ \E p \in Peers : Reserve(k, p)
  <2>1. UNCHANGED <<offset, counted>> /\ slots \subseteq slots' BY <1>2, WindowGrows
  <2>2. ASSUME NEW h \in offset .. offset + counted - 1 PROVE Ready(h)'
    BY <2>1, <1>2, StaysReady DEF IndexSound, Ready
  <2> QED BY <2>1, <2>2 DEF IndexSound
<1> QED BY <1>1, <1>2, WindowSteps

\* Every operation keeps the slot of each requested header: GetCompleted removes
\* complete results only, and no other peer delivers the part.
LEMMA ReservedNext ==
  TypeOK /\ OnePlace /\ SlotsSound /\ IndexSound /\ ReservedHasSlot /\ [Next]_vars => ReservedHasSlot'
<1> SUFFICES ASSUME TypeOK, OnePlace, SlotsSound, IndexSound, ReservedHasSlot, [Next]_vars,
                    NEW j \in Kinds, NEW r \in Peers, NEW h \in pend'[j][r]
             PROVE  h \in slots' /\ h \in outstanding'[j] BY DEF ReservedHasSlot
<1>1. h \in pend[j][r] => h \in slots /\ h \in outstanding[j] /\ h \in Headers
  BY DEF ReservedHasSlot, TypeOK, QueueTypeOK
<1>2. CASE Untouched BY <1>1, <1>2 DEF Untouched
<1>3. CASE Schedule BY <1>1, <1>3 DEF Schedule, slotVars
<1>4. CASE ResultsTake
  <2>1. UNCHANGED <<pend, outstanding>> BY <1>4 DEF ResultsTake, ConsumerElsewhere, queueVars
  <2>2. ~Ready(h) /\ h \in slots /\ h \in outstanding[j] /\ h \in Headers BY <1>1, <2>1 DEF Ready
  <2>3. PICK c \in counted .. N, limit \in 0 .. N :
           /\ limit <= c
           /\ \A x \in offset .. offset + c - 1 : Ready(x)
           /\ slots' = {x \in slots : x >= offset + limit}
    BY <1>4, TakeLeads DEF TypeOK
  <2>4. h \in Int /\ offset \in Int /\ c \in Int /\ limit \in Int /\ h >= offset
    BY <2>2, <2>3, QueueAssumption DEF SlotsSound, TypeOK, StoreTypeOK, Headers
  <2>5. h >= offset + limit BY <2>2, <2>3, <2>4
  <2> QED BY <2>1, <2>2, <2>3, <2>5
<1>5. ASSUME NEW k \in Kinds, Accepts(k) PROVE h \in slots' /\ h \in outstanding'[j]
  <2>1. PICK S \in SUBSET pend[k][fetch[k].peer] : Accept(k, fetch[k].peer, S) BY <1>5 DEF Accepts
  <2>2. fetch[k].peer \in Peers /\ slots' = slots BY <1>5 DEF Accepts
  <2>3. CASE j # k BY <1>1, <2>1, <2>2, <2>3, AcceptAt
  <2>4. CASE j = k
    BY <2>1, <2>2, <2>4, AcceptAt, <1>1 DEF OnePlace
  <2> QED BY <2>3, <2>4
<1>6. ASSUME NEW k \in Kinds, NEW p \in Peers, Reserve(k, p) PROVE h \in slots' /\ h \in outstanding'[j]
  <2>1. PICK done, taken, fresh \in SUBSET Headers : Assigned(k, p, done, taken, fresh) BY <1>6, ReserveLeads
  <2>2. slots \subseteq slots' /\ outstanding[j] \subseteq outstanding'[j] BY <2>1 DEF Assigned
  <2>3. h \in pend[j][r] \/ (j = k /\ h \in taken) BY <2>1 DEF Assigned, TypeOK, QueueTypeOK
  <2> QED BY <1>1, <2>1, <2>2, <2>3 DEF Assigned
<1> QED BY <1>2, <1>3, <1>4, <1>5, <1>6, WindowSteps

\* What GetCompleted hands out is scheduled and has all its parts.
LEMMA HandedNext ==
  TypeOK /\ SlotsSound /\ IndexSound /\ HandedOutWhole /\ [Next]_vars => HandedOutWhole'
<1> SUFFICES ASSUME TypeOK, SlotsSound, IndexSound, HandedOutWhole, [Next]_vars,
                    NEW h \in 1 .. offset' - 1, NEW j \in Kinds
             PROVE  h <= scheduled' /\ h \in Empty(j)' \cup stored'[j] BY DEF HandedOutWhole, Kinds
<1>1. Empty(j)' = Empty(j) BY WindowSteps DEF Empty
<1>2. CASE ResultsTake
  <2>1. PICK c \in counted .. N, limit \in 0 .. N :
           /\ limit <= c /\ offset' = offset + limit
           /\ \A x \in offset .. offset + c - 1 : Ready(x)
    BY <1>2, TakeLeads DEF TypeOK
  <2>2. UNCHANGED <<stored, scheduled>> BY <1>2 DEF ResultsTake, ConsumerElsewhere
  <2>3. h \in Int /\ offset \in Int /\ c \in Int /\ limit \in Int /\ scheduled \in Int
    BY <2>1, QueueAssumption DEF TypeOK, StoreTypeOK, QueueTypeOK
  <2>4. CASE h < offset BY <1>1, <2>2, <2>3, <2>4 DEF HandedOutWhole
  <2>5. CASE h >= offset
    BY <2>1, <2>3, <2>5, <1>1, <2>2 DEF Ready, SlotsSound
  <2> QED BY <2>3, <2>4, <2>5
<1>3. CASE Untouched \/ Schedule \/ \E k \in Kinds : Accepts(k) \/ \E p \in Peers : Reserve(k, p)
  BY <1>3, WindowGrows, <1>1 DEF HandedOutWhole, TypeOK, StoreTypeOK
<1> QED BY <1>2, <1>3, WindowSteps

-----------------------------------------------------------------------------
(* The condition variable.                                                 *)

\* Every change that can complete the first result, or closes the queue, signals.
LEMMA MissedNext == NoMissedResult /\ [Next]_vars => NoMissedResult'
<1> SUFFICES ASSUME NoMissedResult, [Next]_vars PROVE NoMissedResult' OBVIOUS
<1>0. UNCHANGED <<slots, outstanding, offset, consumer, closed>> => NoMissedResult'
  BY DEF NoMissedResult, HasCompletedItems, Ready
<1>1. Signal \/ consumer' # "asleep" => NoMissedResult' BY DEF Signal, NoMissedResult
<1>2. ASSUME NEW k \in Kinds, NEW p \in Peers, Reserve(k, p) PROVE NoMissedResult'
  BY <1>2, <1>1 DEF Reserve, Elsewhere, endVars, NoMissedResult
<1>3. ASSUME NEW k \in Kinds, Deliver(k) PROVE NoMissedResult'
  BY <1>3, DeliverLeads, <1>0, <1>1 DEF Deliver, Elsewhere, endVars, Accept
<1>4. CASE ResultsSleep
  BY <1>4 DEF ResultsSleep, ConsumerElsewhere, limitVars, endVars, NoMissedResult, HasCompletedItems, Ready
<1>5. CASE ResultsTake \/ ResultsReturn BY <1>1, <1>5 DEF ResultsTake, ResultsReturn
<1>6. CASE CloseQueue BY <1>1, <1>6 DEF CloseQueue
<1>7. CASE Cancel \/ CancelSync \/ Finished \/ UNCHANGED vars
  BY <1>0, <1>7 DEF Cancel, CancelSync, SpawnElsewhere, Finished, vars, slotVars, limitVars, endVars
<1>8. CASE HeaderProcessor
  BY <1>0, <1>8 DEF HeaderProcessor, Schedule, HeadersWake, HeadersEnd, HeadersTell, slotVars, limitVars, endVars
<1>9. ASSUME NEW k \in Kinds,
             AssignEnd(k) \/ Cancelled(k) \/ PeerEvent(k) \/ Waker(k) \/ AnswerIgnored(k) PROVE NoMissedResult'
  BY <1>0, <1>9 DEF AssignEnd, Cancelled, PeerEvent, Waker, AnswerIgnored, Elsewhere, slotVars, endVars
<1>10. ASSUME NEW k \in Kinds, NEW p \in Peers, Timeout(k, p) \/ Answer(k, p) PROVE NoMissedResult'
  BY <1>0, <1>10 DEF Timeout, Answer, Elsewhere, slotVars, limitVars, endVars
<1>11. ASSUME NEW p \in Peers, LeavePeer(p) \/ Revoke(p) \/ JoinPeer(p) PROVE NoMissedResult'
  BY <1>0, <1>11 DEF LeavePeer, Revoke, JoinPeer, PeerElsewhere, slotVars, limitVars, endVars
<1> QED BY <1>2, <1>3, <1>4, <1>5, <1>6, <1>7, <1>8, <1>9, <1>10, <1>11 DEF Next, Fetcher, Results, Spawner

-----------------------------------------------------------------------------
(* The inductive invariant, and what follows from it.                      *)

\* A fresh queue satisfies the inductive invariant.
LEMMA InvInit == Init => QueueInv
<1> SUFFICES ASSUME Init PROVE QueueInv OBVIOUS
<1>1. TypeOK BY TypeInit
<1>2. OnePlace /\ ReservedHasSlot BY DEF Init, OnePlace, ReservedHasSlot
<1>3. HoldersTracked
  BY AtType DEF Running, Init, HoldersTracked
<1>4. SlotsSound /\ HandedOutWhole BY DEF Init, SlotsSound, HandedOutWhole
<1>5. IndexSound
  BY QueueAssumption DEF Init, IndexSound
<1>6. NoMissedResult BY DEF Init, NoMissedResult
<1> QED BY <1>1, <1>2, <1>3, <1>4, <1>5, <1>6 DEF QueueInv

\* Every operation keeps the inductive invariant.
LEMMA InvNext == QueueInv /\ [Next]_vars => QueueInv'
  BY TypeNext, OnePlaceNext, HoldersNext, SlotsNext, IndexNext, ReservedNext, HandedNext, MissedNext DEF QueueInv

\* The inductive invariant holds throughout: queue.go, resultstore.go and
\* concurrentFetch keep requests, window and cached index in agreement.
THEOREM QueueInvariant == Spec => []QueueInv BY InvInit, InvNext, PTL DEF Spec

\* The types, for queue.go, resultstore.go and fetchers_concurrent.go: the window
\* never reaches beyond the last header and the fault budget is kept.
THEOREM TypeCorrect == Spec => []TypeOK
<1>1. QueueInv => TypeOK BY DEF QueueInv
<1> QED BY QueueInvariant, <1>1, PTL

\* However requests expire, fail, are revoked or answered in part (queue.go expire,
\* Revoke, deliver), a part to fetch is queued or asked of exactly one peer; a peer
\* holds headers only while its request is live, being answered or about to be
\* revoked, so that a reservation never overwrites a request; and GetDeliverySlot
\* finds the result of every header a peer was asked for.
THEOREM PartsAreTracked == Spec => []PartsTracked
<1>1. QueueInv => PartsTracked BY DEF QueueInv, PartsTracked
<1> QED BY QueueInvariant, <1>1, PTL

\* Results hands out blocks in order, each with all its parts, for any window,
\* batch size and threshold, though countCompleted starts at a cached index.
THEOREM ResultsWhole == Spec => []HandedOutWhole
<1>1. QueueInv => HandedOutWhole BY DEF QueueInv
<1> QED BY QueueInvariant, <1>1, PTL

\* Results never waits on the condition with a result complete or the queue closed.
THEOREM NoWakeupMissed == Spec => []NoMissedResult
<1>1. QueueInv => NoMissedResult BY DEF QueueInv
<1> QED BY QueueInvariant, <1>1, PTL

-----------------------------------------------------------------------------
(* How a sync ends.                                                        *)

\* What is left to fetch: an outstanding part has a slot and is pooled; a header of the
\* window without a slot has all its parts pooled.
PartsLeft ==
  /\ \A k \in Kinds : outstanding[k] \subseteq slots \cap pool[k]
  /\ \A h \in Headers, k \in Kinds :
       offset <= h /\ h <= scheduled /\ h \notin slots => h \in pool[k] \/ (k = "receipt" /\ h \in Empty(k))

\* Whoever holds headers is asked for them or answers, as long as no answer was ignored.
HoldersAsked ==
  \A k \in Kinds, p \in Peers : pend[k][p] # {} /\ abandoned[k] = {} =>
     p \in pending[k] \/ (fetch[k].at = "answer" /\ fetch[k].peer = p)

\* The fetchers are told of the end when all headers are scheduled.
HeadersTold ==
  /\ headers \in {"tellBody", "tellReceipt"} => scheduled = last
  /\ headers = "done" => scheduled = last \/ cancelled
  /\ \A k \in Kinds : finished[k] \/ wake[k] = "last" => headers \in {"tellReceipt", "done"}

\* A fetcher ends when nothing is left to fetch.
FetchersEnd ==
  \A k \in Kinds :
    /\ fetch[k].at = "ended" => finished[k] /\ (abandoned[k] = {} => pool[k] = {})
    /\ fetch[k].at = "canceled" => cancelled

\* What is at stake at the end.
AllHandedOut == offset = last + 1 \/ \E k \in Kinds : abandoned[k] # {}

\* The queue is closed when the others are gone, and only then Results is empty-handed.
ClosedLast ==
  /\ closed => Failed \/ Exited
  /\ consumer \in {"empty", "done"} => closed /\ (cancelled \/ Failed \/ AllHandedOut)

EndInv == PartsLeft /\ HoldersAsked /\ HeadersTold /\ FetchersEnd /\ ClosedLast

\* Every operation keeps what is left to fetch in the pool.
LEMMA PartsLeftNext == QueueInv /\ PartsLeft /\ [Next]_vars => PartsLeft'
<1> SUFFICES ASSUME QueueInv, PartsLeft, [Next]_vars PROVE PartsLeft' OBVIOUS
<1>0. TypeOK /\ OnePlace /\ SlotsSound /\ IndexSound /\ ReservedHasSlot /\ StoreTypeOK' BY StoreTypeNext DEF QueueInv
<1> SUFFICES ASSUME NEW j \in Kinds, NEW h \in Headers
             PROVE  /\ h \in outstanding'[j] => h \in slots' /\ h \in pool'[j]
                    /\ offset' <= h /\ h <= scheduled' /\ h \notin slots'
                         => h \in pool'[j] \/ (j = "receipt" /\ h \in Empty(j)')
  BY <1>0 DEF StoreTypeOK, PartsLeft
<1>1. Empty(j)' = Empty(j) BY <1>0, WindowSteps DEF Empty
<1>2. /\ h \in outstanding[j] => h \in slots /\ h \in pool[j]
      /\ offset <= h /\ h <= scheduled /\ h \notin slots
           => h \in pool[j] \/ (j = "receipt" /\ h \in Empty(j)) BY DEF PartsLeft
<1>3. h \in Int /\ offset \in Int /\ scheduled \in Int
  BY <1>0, QueueAssumption DEF TypeOK, StoreTypeOK, QueueTypeOK, Headers
<1>4. CASE Untouched BY <1>1, <1>2, <1>4 DEF Untouched
<1>5. CASE Schedule
  <2>1. UNCHANGED <<slots, outstanding, offset>> BY <1>5 DEF Schedule, slotVars, limitVars
  <2>2. PICK n \in scheduled + 1 .. last :
          LET chunk(k) == (scheduled + 1 .. n) \ (IF k = "body" THEN {} ELSE Empty(k)) IN
            /\ pool' = [k \in Kinds |-> pool[k] \cup chunk(k)]
            /\ scheduled' = n
    BY <1>5 DEF Schedule
  <2>3. /\ pool'[j] = pool[j] \cup ((scheduled + 1 .. n) \ (IF j = "body" THEN {} ELSE Empty(j)))
        /\ scheduled' = n
    BY <2>2
  <2>4. ASSUME h > scheduled, h <= n PROVE h \in pool'[j] \/ (j = "receipt" /\ h \in Empty(j))
    BY <1>3, <2>4, <2>3 DEF Kinds
  <2> QED BY <1>1, <1>2, <1>3, <2>1, <2>3, <2>4
<1>6. CASE ResultsTake
  <2>1. UNCHANGED <<pool, outstanding, scheduled>> BY <1>6 DEF ResultsTake, ConsumerElsewhere, queueVars
  <2>2. PICK c \in counted .. N, limit \in 0 .. N :
           /\ limit <= c /\ offset' = offset + limit
           /\ \A x \in offset .. offset + c - 1 : Ready(x)
           /\ slots' = {x \in slots : x >= offset + limit}
    BY <1>0, <1>6, TakeLeads DEF TypeOK
  <2>3. c \in Int /\ limit \in Int /\ limit >= 0 /\ (h \in slots => h >= offset)
    BY <1>0, <1>3, <2>2, QueueAssumption DEF SlotsSound, TypeOK, StoreTypeOK
  <2>4. ASSUME h \in outstanding[j] PROVE h \in slots'
    BY <1>2, <2>4, <1>3, <2>2, <2>3 DEF Ready
  <2>5. offset' <= h /\ h \notin slots' => offset <= h /\ h \notin slots BY <1>3, <2>2, <2>3
  <2> QED BY <1>1, <1>2, <2>1, <2>4, <2>5
<1>7. ASSUME NEW k \in Kinds, Accepts(k)
      PROVE  /\ h \in outstanding'[j] => h \in slots' /\ h \in pool'[j]
             /\ offset' <= h /\ h <= scheduled' /\ h \notin slots'
                  => h \in pool'[j] \/ (j = "receipt" /\ h \in Empty(j)')
  <2>1. PICK S \in SUBSET pend[k][fetch[k].peer] : Accept(k, fetch[k].peer, S) BY <1>7 DEF Accepts
  <2>2. UNCHANGED <<slots, offset, scheduled>> /\ fetch[k].peer \in Peers BY <1>7 DEF Accepts
  <2>3. h \in S => h \in slots BY <1>0, <2>2 DEF ReservedHasSlot
  <2>4. /\ outstanding'[k] = outstanding[k] \ (S \cap slots) /\ pool'[k] = pool[k] \ S
        /\ j # k => outstanding'[j] = outstanding[j] /\ pool'[j] = pool[j]
    BY <1>0, <2>1, <2>2, AcceptAt
  <2> QED BY <1>1, <1>2, <2>2, <2>3, <2>4
<1>8. ASSUME NEW k \in Kinds, NEW p \in Peers, Reserve(k, p)
      PROVE  /\ h \in outstanding'[j] => h \in slots' /\ h \in pool'[j]
             /\ offset' <= h /\ h <= scheduled' /\ h \notin slots'
                  => h \in pool'[j] \/ (j = "receipt" /\ h \in Empty(j)')
  <2>1. PICK done, taken, fresh \in SUBSET Headers : Assigned(k, p, done, taken, fresh) BY <1>0, <1>8, ReserveLeads
  <2>2. UNCHANGED <<offset, scheduled>> BY <1>8 DEF Reserve, Elsewhere
  <2>3. slots' = slots \cup fresh /\ outstanding'[j] = outstanding[j] \cup (fresh \ Empty(j)) BY <2>1 DEF Assigned
  <2>4. pool'[j] = IF j = k THEN pool[j] \ done ELSE pool[j] BY <1>0, <2>1 DEF Assigned, TypeOK, QueueTypeOK
  <2>5. h \in fresh => h \notin slots /\ h >= offset /\ h <= scheduled
    BY <1>0, <2>1 DEF Assigned, OnePlace, SlotsSound
  <2>6. h \in done => h < offset \/ h \in slots \ outstanding[k] \/ h \in fresh \cap Empty(k) BY <2>1 DEF Assigned
  <2>7. h \in slots => h >= offset BY <1>0 DEF SlotsSound
  <2>8. ASSUME h \in outstanding[j] \cup (fresh \ Empty(j)) PROVE h \in pool'[j]
    <3>1. h \in pool[j] BY <1>2, <2>5, <2>8
    <3>2. j = k => h \notin done BY <1>2, <1>3, <2>5, <2>6, <2>7, <2>8
    <3> QED BY <2>4, <3>1, <3>2
  <2>9. ASSUME offset <= h, h \notin slots \cup fresh PROVE h \notin done BY <1>3, <2>6, <2>9
  <2> QED BY <1>1, <1>2, <2>2, <2>3, <2>4, <2>8, <2>9
<1> QED BY <1>0, <1>4, <1>5, <1>6, <1>7, <1>8, WindowSteps

\* The head of the loop ends the fetcher only with nothing queued or asked for.
LEMMA LoopEnds ==
  ASSUME FetchTypeOK, NEW k \in Kinds, NEW unread, Loop(k, unread)
  PROVE  /\ fetch'[k].at \notin {"answer", "canceled"}
         /\ fetch'[k].at = "ended" => tasks'[k] = {} /\ pending'[k] = {} /\ finished'[k]
         /\ \A j \in Kinds : j # k => fetch'[j] = fetch[j]
<1>1. fetch' = [fetch EXCEPT ![k] = LoopHead(k)] BY DEF Loop, Go
<1>2. fetch'[k] = LoopHead(k) /\ \A j \in Kinds : j # k => fetch'[j] = fetch[j] BY <1>1 DEF FetchTypeOK, FetchLocal
<1>3. \A place \in Running \cup Ended : At(place).at = place BY AtType
<1>4. Round(k).at = "assign" BY DEF Round
<1>5. CASE LoopHead(k) \in {At("error"), Round(k), At("wait")} BY <1>2, <1>3, <1>4, <1>5 DEF Running, Ended
<1>6. CASE LoopHead(k) = At("ended") /\ tasks'[k] = {} /\ pending'[k] = {} /\ finished'[k]
  BY <1>2, <1>3, <1>6 DEF Running, Ended
<1> QED BY <1>2, <1>5, <1>6 DEF LoopHead

\* The sends on the condition variable.
Signalled == consumer' = consumer \/ (consumer = "asleep" /\ consumer' = "woken")

\* What a step of a fetcher does, seen from the end of the sync.
FetcherMoves(k) ==
  /\ fetch[k].at \in Running
  /\ UNCHANGED <<scheduled, headers, closed, last, mode, offset>>
  /\ cancelled => cancelled'
  /\ Signalled
  /\ abandoned[k] \subseteq abandoned'[k]
  /\ finished[k] => finished'[k]
  /\ finished'[k] \/ wake'[k] = "last" => finished[k] \/ wake[k] = "last"
  /\ fetch'[k].at = "canceled" => cancelled
  /\ fetch'[k].at = "ended" => tasks'[k] = {} /\ pending'[k] = {} /\ finished'[k]
  /\ \A p \in Peers : pend'[k][p] # {} /\ abandoned'[k] = {} =>
       p \in pending'[k] \/ (fetch'[k].at = "answer" /\ fetch'[k].peer = p)
  /\ \A j \in Kinds : j # k =>
       /\ fetch'[j] = fetch[j] /\ pend'[j] = pend[j] /\ pending'[j] = pending[j]
       /\ pool'[j] = pool[j] /\ abandoned'[j] = abandoned[j]
       /\ finished'[j] = finished[j] /\ wake'[j] = wake[j]

\* A fetcher that neither looks at an answer nor is told anything.
LEMMA MovesOn ==
  ASSUME TypeOK, HoldersAsked, NEW k \in Kinds, fetch[k].at \in {"wait", "assign"},
         UNCHANGED <<queueVars, requestVars, finished, wake, abandoned, consumer>>, Elsewhere,
         NEW place \in {"wait", "error", "canceled"}, NEW unread, Go(k, At(place), unread),
         place = "canceled" => cancelled PROVE FetcherMoves(k)
<1>1. fetch' = [fetch EXCEPT ![k] = At(place)] BY DEF Go
<1>2. At(place).at = place BY AtType DEF Running, Ended
<1>3. fetch'[k].at = place /\ \A j \in Kinds : j # k => fetch'[j] = fetch[j]
  BY <1>1, <1>2 DEF TypeOK, FetchTypeOK, FetchLocal
<1>4. \A p \in Peers : pend[k][p] # {} /\ abandoned[k] = {} => p \in pending[k] BY DEF HoldersAsked
<1> QED BY <1>3, <1>4 DEF FetcherMoves, Signalled, Running, Elsewhere, endVars, syncVars, queueVars, requestVars

\* A fetcher that goes on at the head of its loop, with requests of its own changed.
LEMMA MovesAround ==
  ASSUME TypeOK, HoldersAsked, NEW k \in Kinds, fetch[k].at \in {"wait", "answer"},
         NEW unread, Loop(k, unread),
         UNCHANGED <<scheduled, headers, closed, last, mode, offset>>, cancelled => cancelled', Signalled,
         abandoned[k] \subseteq abandoned'[k], finished[k] => finished'[k],
         finished'[k] \/ wake'[k] = "last" => finished[k] \/ wake[k] = "last",
         \A p \in Peers : pend'[k][p] # {} /\ abandoned'[k] = {} => p \in pending'[k],
         \A j \in Kinds : j # k =>
           /\ pend'[j] = pend[j] /\ pending'[j] = pending[j]
           /\ pool'[j] = pool[j] /\ abandoned'[j] = abandoned[j]
           /\ finished'[j] = finished[j] /\ wake'[j] = wake[j]
  PROVE  FetcherMoves(k)
  BY LoopEnds DEF TypeOK, FetcherMoves, Running

\* Each step of a fetcher is of this form.
LEMMA FetcherSteps ==
  ASSUME TypeOK, HoldersTracked, HoldersAsked, NEW k \in Kinds,
         Fetcher(k) \/ \E p \in Peers : Timeout(k, p) \/ Answer(k, p) PROVE FetcherMoves(k)
<1>1. CASE AssignEnd(k)
  <2>1. PICK place \in {"wait", "error", "canceled"} :
          Go(k, At(place), events[k]) /\ place # "canceled" BY <1>1 DEF AssignEnd
  <2> QED BY <1>1, <2>1, MovesOn DEF AssignEnd
<1>2. CASE Cancelled(k)
  BY <1>2, MovesOn DEF Cancelled, Waiting
<1>3. ASSUME NEW p \in Peers, NEW P, pend' = [pend EXCEPT ![k] = [@ EXCEPT ![p] = P]]
      PROVE  pend'[k][p] = P /\ (\A r \in Peers : r # p => pend'[k][r] = pend[k][r])
             /\ \A j \in Kinds : j # k => pend'[j] = pend[j]
  BY <1>3 DEF TypeOK, QueueTypeOK
<1>4. ASSUME fetch[k].at \in {"wait", "assign"}
      PROVE  \A p \in Peers : pend[k][p] # {} /\ abandoned[k] = {} => p \in pending[k] BY <1>4 DEF HoldersAsked
<1>5. ASSUME NEW p \in Peers, Return(k, p)
      PROVE  pend'[k][p] = {} /\ (\A r \in Peers : r # p => pend'[k][r] = pend[k][r])
             /\ \A j \in Kinds : j # k => pend'[j] = pend[j]
  BY <1>5, <1>3 DEF Return
<1>6. CASE Waker(k)
  <2>1. /\ fetch[k].at = "wait" /\ Loop(k, events[k])
        /\ finished' = [finished EXCEPT ![k] = @ \/ wake[k] = "last"]
        /\ wake' = [wake EXCEPT ![k] = "none"]
        /\ UNCHANGED <<pend, pending, pool, abandoned, consumer>>
        /\ UNCHANGED <<scheduled, headers, closed, last, mode, offset, cancelled>>
    BY <1>6 DEF Waker, Waiting, Elsewhere, queueVars, requestVars, endVars, syncVars
  <2>2. finished'[k] = (finished[k] \/ wake[k] = "last") /\ wake'[k] = "none" BY <2>1 DEF TypeOK, FetchTypeOK
  <2>3. \A j \in Kinds : j # k => finished'[j] = finished[j] /\ wake'[j] = wake[j] BY <2>1 DEF TypeOK, FetchTypeOK
  <2>4. \A p \in Peers : pend'[k][p] # {} /\ abandoned'[k] = {} => p \in pending'[k] BY <1>4, <2>1
  <2>5. Signalled /\ abandoned[k] \subseteq abandoned'[k] BY <2>1 DEF Signalled
  <2> QED BY <2>1, <2>2, <2>3, <2>4, <2>5, MovesAround
<1>7. CASE PeerEvent(k)
  <2> DEFINE e == Head(events[k])
  <2>1. /\ fetch[k].at = "wait" /\ Loop(k, Tail(events[k]))
        /\ UNCHANGED <<finished, wake, pool, abandoned, consumer>>
        /\ UNCHANGED <<scheduled, headers, closed, last, mode, offset, cancelled>>
    BY <1>7 DEF PeerEvent, Waiting, Elsewhere, endVars, syncVars
  <2>2. e.peer \in Peers BY <1>7, HeadEvent DEF PeerEvent, TypeOK
  <2>3. IF ~e.join /\ e.peer \in pending[k] THEN Return(k, e.peer) ELSE UNCHANGED pend BY <1>7 DEF PeerEvent
  <2>4. pending' = [pending EXCEPT ![k] = IF e.join THEN @ ELSE @ \ {e.peer}] BY <1>7 DEF PeerEvent
  <2> HIDE DEF e
  <2>5. pending'[k] = (IF e.join THEN pending[k] ELSE pending[k] \ {e.peer})
        /\ \A j \in Kinds : j # k => pending'[j] = pending[j]
    BY <2>4 DEF TypeOK, FetchTypeOK
  <2>6. \A j \in Kinds : j # k => pend'[j] = pend[j] BY <1>5, <2>2, <2>3
  <2>7. \A r \in Peers : pend'[k][r] # {} /\ abandoned'[k] = {} => r \in pending'[k]
    <3> SUFFICES ASSUME NEW r \in Peers, pend'[k][r] # {}, abandoned[k] = {} PROVE r \in pending'[k] BY <2>1
    <3>1. CASE ~e.join /\ e.peer \in pending[k]
      <4>1. r # e.peer /\ pend'[k][r] = pend[k][r] BY <1>5, <2>2, <2>3, <3>1
      <4> QED BY <1>4, <2>1, <2>5, <4>1
    <3>2. CASE ~(~e.join /\ e.peer \in pending[k])
      BY <2>3, <3>2, <1>4, <2>1, <2>5
    <3> QED BY <3>1, <3>2
  <2>8. Signalled /\ abandoned[k] \subseteq abandoned'[k] BY <2>1 DEF Signalled
  <2> QED BY <2>1, <2>5, <2>6, <2>7, <2>8, MovesAround
<1>8. ASSUME NEW p \in Peers, Timeout(k, p) PROVE FetcherMoves(k)
  <2>1. /\ fetch[k].at = "wait" /\ Return(k, p)
        /\ UNCHANGED <<finished, wake, pool, abandoned, consumer>>
        /\ UNCHANGED <<scheduled, headers, closed, last, mode, offset>>
        /\ cancelled => cancelled'
    BY <1>8 DEF Timeout, Waiting, limitVars, syncVars
  <2>2. pending' = [pending EXCEPT ![k] = @ \ {p}] BY <1>8 DEF Timeout
  <2>3. pending'[k] = pending[k] \ {p} /\ \A j \in Kinds : j # k => pending'[j] = pending[j]
    BY <2>2 DEF TypeOK, FetchTypeOK
  <2>4. /\ pend'[k][p] = {} /\ (\A r \in Peers : r # p => pend'[k][r] = pend[k][r])
        /\ \A j \in Kinds : j # k => pend'[j] = pend[j]
    BY <1>5, <2>1
  <2>5. \A r \in Peers : pend'[k][r] # {} /\ abandoned'[k] = {} => r \in pending'[k] BY <1>4, <2>1, <2>3, <2>4
  <2>6. Signalled /\ abandoned[k] \subseteq abandoned'[k] BY <2>1 DEF Signalled
  <2>7. CASE Loop(k, events[k]) BY <2>1, <2>3, <2>4, <2>5, <2>6, <2>7, MovesAround
  <2>8. CASE Go(k, At("error"), <<>>)
    <3>1. fetch' = [fetch EXCEPT ![k] = At("error")] /\ At("error").at = "error" BY <2>8, AtType DEF Go, Ended
    <3>2. fetch'[k].at = "error" /\ \A j \in Kinds : j # k => fetch'[j] = fetch[j]
      BY <3>1 DEF TypeOK, FetchTypeOK, FetchLocal
    <3> QED BY <2>1, <2>3, <2>4, <2>5, <2>6, <3>2 DEF FetcherMoves, Running
  <2> QED BY <1>8, <2>7, <2>8 DEF Timeout
<1>9. ASSUME NEW p \in Peers, Answer(k, p) PROVE FetcherMoves(k)
  <2>1. /\ fetch[k].at = "wait"
        /\ UNCHANGED <<pend, finished, wake, pool, abandoned, consumer>>
        /\ UNCHANGED <<scheduled, headers, closed, last, mode, offset, cancelled>>
    BY <1>9 DEF Answer, Waiting, Elsewhere, queueVars, endVars, syncVars
  <2>2. pending' = [pending EXCEPT ![k] = @ \ {p}] BY <1>9 DEF Answer
  <2>3. pending'[k] = pending[k] \ {p} /\ \A j \in Kinds : j # k => pending'[j] = pending[j]
    BY <2>2 DEF TypeOK, FetchTypeOK
  <2>4. fetch' = [fetch EXCEPT ![k] = Place("answer", p)] BY <1>9 DEF Answer
  <2>5. Place("answer", p).at = "answer" /\ Place("answer", p).peer = p BY DEF Place
  <2>6. /\ fetch'[k].at = "answer" /\ fetch'[k].peer = p
        /\ \A j \in Kinds : j # k => fetch'[j] = fetch[j]
    BY <2>4, <2>5 DEF TypeOK, FetchTypeOK, FetchLocal
  <2>7. \A r \in Peers : pend'[k][r] # {} /\ abandoned'[k] = {} =>
          r \in pending'[k] \/ (fetch'[k].at = "answer" /\ fetch'[k].peer = r) BY <1>4, <2>1, <2>3, <2>6
  <2>8. Signalled /\ abandoned[k] \subseteq abandoned'[k] BY <2>1 DEF Signalled
  <2> QED BY <2>1, <2>3, <2>6, <2>7, <2>8 DEF FetcherMoves, Running
<1>10. CASE AnswerIgnored(k)
  <2> DEFINE p == fetch[k].peer
  <2>1. /\ fetch[k].at = "answer" /\ Loop(k, events[k])
        /\ UNCHANGED <<pend, pending, finished, wake, pool, consumer>>
        /\ UNCHANGED <<scheduled, headers, closed, last, mode, offset, cancelled>>
    BY <1>10 DEF AnswerIgnored, Elsewhere, queueVars, requestVars, endVars, syncVars
  <2>2. abandoned' = [abandoned EXCEPT ![k] = @ \cup pend[k][p]] BY <1>10 DEF AnswerIgnored
  <2>3. abandoned'[k] = abandoned[k] \cup pend[k][p] /\ \A j \in Kinds : j # k => abandoned'[j] = abandoned[j]
    BY <2>2 DEF TypeOK, FetchTypeOK
  <2>4. \A r \in Peers : pend'[k][r] # {} /\ abandoned'[k] = {} => r \in pending'[k] BY <2>1, <2>3 DEF HoldersAsked
  <2>5. Signalled BY <2>1 DEF Signalled
  <2> QED BY <2>1, <2>3, <2>4, <2>5, MovesAround
<1>11. CASE Deliver(k)
  <2> DEFINE p == fetch[k].peer
  <2>1. /\ fetch[k].at = "answer" /\ Loop(k, events[k]) /\ p \in Peers
        /\ UNCHANGED <<pending, finished, wake, abandoned>>
        /\ UNCHANGED <<scheduled, headers, closed, last, mode, offset, cancelled>>
    BY <1>11 DEF Deliver, Elsewhere, requestVars, endVars, syncVars, TypeOK, FetchTypeOK
  <2>2. \/ UNCHANGED <<queueVars, outstanding, stored, consumer>> /\ pend[k][p] = {}
        \/ Return(k, p) /\ UNCHANGED <<pool, outstanding, stored, consumer>>
        \/ \E S \in SUBSET pend[k][p] : Accept(k, p, S)
    BY <1>11, DeliverLeads
  <2>3. Signalled BY <2>2 DEF Signalled, Accept, Signal
  <2>4. /\ pend'[k][p] = {} /\ \A r \in Peers : r # p => pend'[k][r] = pend[k][r]
        /\ \A j \in Kinds : j # k => pend'[j] = pend[j] /\ pool'[j] = pool[j]
    <3>1. CASE UNCHANGED queueVars /\ pend[k][p] = {} BY <3>1 DEF queueVars
    <3>2. CASE Return(k, p) /\ UNCHANGED pool BY <1>5, <2>1, <3>2
    <3>3. ASSUME NEW S, Accept(k, p, S)
          PROVE  /\ pend'[k][p] = {} /\ \A r \in Peers : r # p => pend'[k][r] = pend[k][r]
                 /\ \A j \in Kinds : j # k => pend'[j] = pend[j] /\ pool'[j] = pool[j]
      BY <2>1, <3>3, AcceptAt
    <3> QED BY <2>2, <3>1, <3>2, <3>3
  <2> HIDE DEF p
  <2>5. \A r \in Peers : pend'[k][r] # {} /\ abandoned'[k] = {} => r \in pending'[k] BY <2>1, <2>4 DEF HoldersAsked, p
  <2>6. abandoned[k] \subseteq abandoned'[k] BY <2>1
  <2> QED BY <2>1, <2>3, <2>4, <2>5, <2>6, MovesAround
<1>12. ASSUME NEW p \in Peers, Reserve(k, p) PROVE FetcherMoves(k)
  <2>1. PICK done, taken, fresh \in SUBSET Headers : Assigned(k, p, done, taken, fresh) BY <1>12, ReserveLeads
  <2>2. /\ fetch[k].at = "assign"
        /\ UNCHANGED <<finished, wake, abandoned>>
        /\ UNCHANGED <<scheduled, headers, closed, last, mode, offset, cancelled>>
    BY <1>12 DEF Reserve, Elsewhere, endVars, syncVars
  <2>3. Signalled BY <1>12 DEF Reserve, Signal, Signalled
  <2>4. fetch'[k].at = "assign" /\ \A j \in Kinds : j # k => fetch'[j] = fetch[j]
    <3>1. fetch[k] \in Local BY DEF TypeOK, FetchTypeOK, FetchLocal
    <3>2. PICK b, c : fetch' = [fetch EXCEPT ![k] = [fetch[k] EXCEPT !.idles = @ \ {p}, !.progressed = b,
                                                                     !.throttled = c]] BY <1>12 DEF Reserve
    <3> DEFINE next == [fetch[k] EXCEPT !.idles = @ \ {p}, !.progressed = b, !.throttled = c]
    <3>3. next.at = "assign" BY <2>2, <3>1 DEF Local
    <3> HIDE DEF next
    <3>4. fetch' = [fetch EXCEPT ![k] = next] BY <3>2 DEF next
    <3> QED BY <3>3, <3>4 DEF TypeOK, FetchTypeOK, FetchLocal
  <2>5. \A j \in Kinds : j # k => pool'[j] = pool[j] BY <2>1 DEF Assigned, TypeOK, QueueTypeOK
  <2>6. CASE UNCHANGED <<pend, pending>> BY <1>4, <2>2, <2>3, <2>4, <2>5, <2>6 DEF FetcherMoves, Running
  <2>7. CASE /\ pend' = [pend EXCEPT ![k] = [@ EXCEPT ![p] = taken]]
             /\ taken # {} => pending' = [pending EXCEPT ![k] = @ \cup {p}]
             /\ taken = {} => pending' = pending
    <3>1. /\ pend'[k][p] = taken /\ (\A r \in Peers : r # p => pend'[k][r] = pend[k][r])
          /\ \A j \in Kinds : j # k => pend'[j] = pend[j]
      BY <1>3, <2>7
    <3>2. pending[k] \subseteq pending'[k] /\ (taken # {} => p \in pending'[k])
          /\ \A j \in Kinds : j # k => pending'[j] = pending[j]
      BY <2>7 DEF TypeOK, FetchTypeOK
    <3>3. \A r \in Peers : pend'[k][r] # {} /\ abandoned'[k] = {} => r \in pending'[k] BY <1>4, <2>2, <3>1, <3>2
    <3> QED BY <2>2, <2>3, <2>4, <2>5, <3>1, <3>2, <3>3 DEF FetcherMoves, Running
  <2> QED BY <2>1, <2>6, <2>7 DEF Assigned
<1> QED BY <1>1, <1>2, <1>6, <1>7, <1>8, <1>9, <1>10, <1>11, <1>12 DEF Fetcher

\* What the steps of the others do, seen from the end of the sync.
OthersMove ==
  /\ UNCHANGED <<fetch, pending, finished, abandoned, last, mode>>
  /\ \A k \in Kinds, p \in Peers : pend'[k][p] \subseteq pend[k][p]
  /\ cancelled => cancelled'
  /\ UNCHANGED closed \/ CloseQueue
  /\ \/ HeaderProcessor
     \/ UNCHANGED <<headers, scheduled, pool>> /\ \A k \in Kinds : wake'[k] = "last" => wake[k] = "last"
  /\ (UNCHANGED offset /\ Signalled) \/ Results

\* Each step is one of a fetcher or one of the others.
LEMMA EndSteps ==
  ASSUME TypeOK, HoldersTracked, HoldersAsked, [Next]_vars PROVE OthersMove \/ \E k \in Kinds : FetcherMoves(k)
<1>1. ASSUME NEW k \in Kinds, Fetcher(k) \/ \E p \in Peers : Timeout(k, p) \/ Answer(k, p)
      PROVE  FetcherMoves(k) BY <1>1, FetcherSteps
<1>2. WakeFetchers => \A k \in Kinds : wake'[k] = "last" => wake[k] = "last" BY DEF WakeFetchers
<1>3. Signal => Signalled BY DEF Signal, Signalled
<1>4. CASE HeaderProcessor
  BY <1>4 DEF HeaderProcessor, Schedule, HeadersWake, HeadersEnd, HeadersTell, OthersMove, Signalled, fetchVars,
   requestVars, endVars, syncVars, queueVars, limitVars
<1>5. CASE Results
  BY <1>2, <1>5 DEF Results, ResultsSleep, ResultsTake, ResultsReturn, ConsumerElsewhere, OthersMove, fetchVars,
   requestVars, endVars, syncVars, queueVars
<1>6. CASE Spawner \/ CancelSync
  BY <1>3, <1>6 DEF Spawner, CloseQueue, Cancel, CancelSync, SpawnElsewhere, OthersMove, Signalled, fetchVars,
   requestVars, syncVars, queueVars, limitVars
<1>7. CASE Finished \/ UNCHANGED vars
  BY <1>7 DEF Finished, vars, OthersMove, Signalled, fetchVars, requestVars, endVars, syncVars, queueVars, limitVars
<1>8. ASSUME NEW p \in Peers, LeavePeer(p) \/ JoinPeer(p) PROVE OthersMove
  <2>1. /\ UNCHANGED <<fetch, pending, finished, abandoned, last, mode, pend, cancelled, closed, offset>>
        /\ UNCHANGED <<headers, scheduled, pool, wake, consumer>>
    BY <1>8 DEF LeavePeer, JoinPeer, PeerElsewhere, fetchVars, requestVars, endVars, syncVars, queueVars, limitVars
  <2> QED BY <2>1 DEF OthersMove, Signalled
<1>9. ASSUME NEW p \in Peers, Revoke(p) PROVE OthersMove
  <2>1. \A j \in Kinds, r \in Peers : pend'[j][r] = IF r = p THEN {} ELSE pend[j][r]
    BY <1>9 DEF Revoke, TypeOK, QueueTypeOK
  <2> QED BY <1>9, <2>1 DEF Revoke, PeerElsewhere, OthersMove, Signalled, fetchVars, requestVars, endVars, syncVars,
    limitVars
<1> QED BY <1>1, <1>4, <1>5, <1>6, <1>7, <1>8, <1>9 DEF Next

\* Every operation keeps the holders asked, until an answer is ignored.
LEMMA AskedNext == TypeOK /\ HoldersTracked /\ HoldersAsked /\ [Next]_vars => HoldersAsked'
<1> SUFFICES ASSUME TypeOK, HoldersTracked, HoldersAsked, [Next]_vars,
                    NEW j \in Kinds, NEW p \in Peers, pend'[j][p] # {}, abandoned'[j] = {}
             PROVE  p \in pending'[j] \/ (fetch'[j].at = "answer" /\ fetch'[j].peer = p) BY DEF HoldersAsked
<1>1. ASSUME NEW k \in Kinds, FetcherMoves(k) PROVE p \in pending'[j] \/ (fetch'[j].at = "answer" /\ fetch'[j].peer = p)
  <2>1. CASE j = k BY <1>1, <2>1 DEF FetcherMoves
  <2>2. CASE j # k
    BY <1>1, <2>2 DEF FetcherMoves, HoldersAsked
  <2> QED BY <2>1, <2>2
<1>2. CASE OthersMove
  BY <1>2 DEF OthersMove, HoldersAsked
<1> QED BY <1>1, <1>2, EndSteps

\* Every operation keeps the end of the headers from the fetchers until all are scheduled.
LEMMA ToldNext ==
  TypeOK /\ HoldersTracked /\ HoldersAsked /\ HeadersTold /\ [Next]_vars => HeadersTold'
<1> SUFFICES ASSUME TypeOK, HoldersTracked, HoldersAsked, HeadersTold, [Next]_vars PROVE HeadersTold' OBVIOUS
<1>1. ASSUME NEW k \in Kinds, FetcherMoves(k) PROVE HeadersTold'
  BY <1>1 DEF FetcherMoves, HeadersTold
<1>2. CASE OthersMove
  <2>1. UNCHANGED <<finished, last>> /\ (cancelled => cancelled') BY <1>2 DEF OthersMove
  <2>2. CASE UNCHANGED <<headers, scheduled>> /\ \A k \in Kinds : wake'[k] = "last" => wake[k] = "last"
    BY <2>1, <2>2 DEF HeadersTold
  <2>3. CASE Schedule
    BY <2>3, <2>1 DEF Schedule, HeadersTold
  <2>4. CASE HeadersWake
    BY <2>4, <2>1 DEF HeadersWake, WakeFetchers, HeadersTold
  <2>5. CASE HeadersEnd
    BY <2>5, <2>1 DEF HeadersEnd, endVars, HeadersTold
  <2>6. ASSUME NEW k \in Kinds, HeadersTell(k) PROVE HeadersTold'
    BY <2>6, <2>1 DEF HeadersTell, HeadersTold
  <2> QED BY <1>2, <2>2, <2>3, <2>4, <2>5, <2>6 DEF OthersMove, HeaderProcessor
<1> QED BY <1>1, <1>2, EndSteps

\* A fetcher ends with nothing left to fetch, and nothing is scheduled afterwards.
LEMMA FetchersNext ==
  /\ TypeOK /\ HoldersTracked /\ HoldersAsked /\ HeadersTold /\ FetchersEnd /\ [Next]_vars
  /\ OnePlace' /\ HoldersAsked' /\ TypeOK'
  => FetchersEnd'
<1> SUFFICES ASSUME TypeOK, HoldersTracked, HoldersAsked, HeadersTold, FetchersEnd, [Next]_vars,
                    OnePlace', HoldersAsked', TypeOK', NEW j \in Kinds
             PROVE  /\ fetch'[j].at = "ended" => finished'[j] /\ (abandoned'[j] = {} => pool'[j] = {})
                    /\ fetch'[j].at = "canceled" => cancelled'
  BY DEF FetchersEnd
<1>0. /\ fetch[j].at = "ended" => finished[j] /\ (abandoned[j] = {} => pool[j] = {})
      /\ fetch[j].at = "canceled" => cancelled
  BY DEF FetchersEnd
<1>1. ASSUME NEW k \in Kinds, FetcherMoves(k)
      PROVE  /\ fetch'[j].at = "ended" => finished'[j] /\ (abandoned'[j] = {} => pool'[j] = {})
             /\ fetch'[j].at = "canceled" => cancelled'
  <2>1. CASE j = k
    <3>1. /\ fetch'[j].at = "canceled" => cancelled'
          /\ fetch'[j].at = "ended" => tasks'[j] = {} /\ pending'[j] = {} /\ finished'[j]
      BY <1>1, <2>1 DEF FetcherMoves
    <3>2. ASSUME fetch'[j].at = "ended", abandoned'[j] = {}, NEW h \in pool'[j] PROVE FALSE
      <4>1. h \in Headers BY DEF TypeOK, QueueTypeOK
      <4>2. PICK p \in Peers : h \in pend'[j][p] BY <3>1, <3>2, <4>1 DEF OnePlace
      <4> QED BY <3>1, <3>2, <4>2 DEF HoldersAsked
    <3> QED BY <3>1, <3>2
  <2>2. CASE j # k
    BY <1>1, <2>2, <1>0 DEF FetcherMoves
  <2> QED BY <2>1, <2>2
<1>2. CASE OthersMove
  BY <1>2, <1>0 DEF OthersMove, Schedule, HeadersTold, HeaderProcessor, HeadersWake, HeadersEnd, HeadersTell, queueVars
<1> QED BY <1>1, <1>2, EndSteps

\* Results is empty-handed only when everything has been handed out, or else
\* something failed, was cancelled or was ignored.
LEMMA EmptyHanded ==
  ASSUME QueueInv, PartsLeft, HeadersTold, FetchersEnd, ClosedLast, ResultsTake, consumer' = "empty"
  PROVE  closed /\ (cancelled \/ Failed \/ AllHandedOut) /\ offset' = offset
<1> DEFINE First(c) == /\ \A i \in counted .. c - 1 : Ready(offset + i)
                       /\ ~Ready(offset + c)
           complete == CHOOSE c \in counted .. N : First(c)
           limit == IF complete < MaxResults THEN complete ELSE MaxResults
<1>0. StoreTypeOK /\ QueueTypeOK /\ SyncTypeOK BY DEF QueueInv, TypeOK
<1>1. complete \in counted .. N /\ First(complete) BY <1>0, CompleteExists
<1>2. (IF limit = 0 THEN "empty" ELSE "full") = "empty" /\ offset' = offset + limit BY DEF ResultsTake
<1> HIDE DEF complete
<1>3. complete = 0
  BY <1>0, <1>1, QueueAssumption, <1>2 DEF StoreTypeOK
<1>4. offset \in Nat /\ scheduled \in Nat /\ last \in Nat /\ offset >= 1 /\ last >= 1 /\ last <= N
  BY <1>0, QueueAssumption DEF StoreTypeOK, QueueTypeOK, SyncTypeOK, Headers
<1>5. ~Ready(offset) BY <1>1, <1>3, <1>4
<1>6. closed BY <1>5 DEF ResultsTake, HasCompletedItems
<1>7. ASSUME ~cancelled, ~Failed, \A k \in Kinds : abandoned[k] = {} PROVE offset = last + 1
  <2>1. Exited BY <1>6, <1>7 DEF ClosedLast
  <2>2. \A k \in Kinds : fetch[k].at = "ended" BY <1>7, <2>1 DEF Exited, FetchersEnd
  <2>3. scheduled = last BY <1>7, <2>1 DEF Exited, HeadersTold
  <2>4. \A k \in Kinds : pool[k] = {} BY <1>7, <2>2 DEF FetchersEnd
  <2>5. \A k \in Kinds : outstanding[k] = {} BY <2>4 DEF PartsLeft
  <2>6. offset \notin slots BY <1>5, <2>5 DEF Ready
  <2>7. offset > last
    <3> SUFFICES ASSUME offset <= last PROVE FALSE BY <1>4
    <3>1. offset \in Headers /\ "body" \in Kinds /\ "body" # "receipt" BY <1>4, QueueAssumption DEF Headers, Kinds
    <3>2. offset \in pool["body"] BY <1>4, <2>3, <2>6, <3>1 DEF PartsLeft
    <3> QED BY <2>4, <3>1, <3>2
  <2>8. offset - 1 <= scheduled
    BY <1>4, <2>7 DEF QueueInv, HandedOutWhole
  <2> QED BY <1>4, <2>3, <2>7, <2>8
<1>8. offset' = offset BY <1>2, <1>4
<1> QED BY <1>6, <1>7, <1>8 DEF AllHandedOut

\* The queue stays closed for the reason it was closed for.
LEMMA ClosedNext ==
  QueueInv /\ EndInv /\ [Next]_vars => ClosedLast'
<1> SUFFICES ASSUME QueueInv, EndInv, [Next]_vars PROVE ClosedLast' OBVIOUS
<1> USE DEF EndInv
<1>0. TypeOK /\ HoldersTracked BY DEF QueueInv
<1>1. ASSUME NEW k \in Kinds, FetcherMoves(k) PROVE ClosedLast'
  BY <1>1 DEF FetcherMoves, Failed, Running, Signalled, Exited, AllHandedOut, ClosedLast
<1>2. CASE OthersMove
  <2>1. UNCHANGED <<fetch, abandoned, last>> /\ (cancelled => cancelled') BY <1>2 DEF OthersMove
  <2>2. headers \in {"done", "error"} => headers' = headers
    BY <1>2 DEF OthersMove, HeaderProcessor, Schedule, HeadersWake, HeadersEnd, HeadersTell
  <2>3. consumer = "error" => consumer' = "error"
    BY <1>2 DEF OthersMove, Signalled, Results, ResultsSleep, ResultsTake, ResultsReturn
  <2>4. (Failed => Failed') /\ (Exited => Exited') BY <2>1, <2>2, <2>3 DEF Failed, Exited
  <2>5. closed' => Failed' \/ Exited' BY <1>2, <2>4 DEF OthersMove, CloseQueue, ClosedLast
  <2>6. closed => closed' BY <1>2 DEF OthersMove, CloseQueue
  <2>7. ASSUME consumer' \in {"empty", "done"} PROVE closed' /\ (cancelled' \/ Failed' \/ AllHandedOut')
    <3>1. CASE consumer \in {"empty", "done"} /\ offset' = offset
      BY <2>1, <3>1, <2>4, <2>6 DEF AllHandedOut, ClosedLast
    <3>2. CASE ResultsTake
      BY <2>7, <3>2, EmptyHanded, <2>1, <2>4, <2>6 DEF ResultsTake, AllHandedOut
    <3>3. CASE ResultsReturn
      BY <2>7, <3>3, <3>1 DEF ResultsReturn
    <3>4. ~ResultsSleep BY <2>7 DEF ResultsSleep
    <3>5. CASE UNCHANGED offset /\ Signalled BY <2>7, <3>1, <3>5 DEF Signalled
    <3> QED BY <1>2, <3>2, <3>3, <3>4, <3>5 DEF OthersMove, Results
  <2> QED BY <2>5, <2>7 DEF ClosedLast
<1> QED BY <1>0, <1>1, <1>2, EndSteps

\* A fresh sync satisfies what its end rests on.
LEMMA EndInit == Init => EndInv
<1> SUFFICES ASSUME Init PROVE EndInv OBVIOUS
<1>1. At("wait").at = "wait" BY AtType DEF Running
<1>2. \A k \in Kinds : /\ fetch[k].at = "wait" /\ outstanding[k] = {} /\ ~finished[k] /\ wake[k] = "none"
                       /\ \A p \in Peers : pend[k][p] = {}
  BY <1>1 DEF Init
<1>3. headers = "run" /\ consumer = "poll" /\ ~closed /\ scheduled = 0 /\ offset = 1 BY DEF Init
<1>4. PartsLeft BY <1>2, <1>3, QueueAssumption DEF PartsLeft, Headers
<1>5. HoldersAsked /\ HeadersTold /\ FetchersEnd /\ ClosedLast
  BY <1>2, <1>3 DEF HoldersAsked, HeadersTold, FetchersEnd, ClosedLast
<1> QED BY <1>4, <1>5 DEF EndInv

\* Every operation keeps it, given the invariant of the queue.
LEMMA EndNext == QueueInv /\ EndInv /\ [Next]_vars => EndInv'
<1> SUFFICES ASSUME QueueInv, EndInv, [Next]_vars PROVE EndInv' OBVIOUS
<1>1. /\ TypeOK /\ HoldersTracked /\ HoldersAsked /\ HeadersTold /\ FetchersEnd /\ PartsLeft
      /\ QueueInv'
  BY InvNext DEF QueueInv, EndInv
<1>2. OnePlace' /\ TypeOK' BY <1>1 DEF QueueInv
<1>3. PartsLeft' /\ HoldersAsked' /\ HeadersTold' /\ ClosedLast' BY <1>1, PartsLeftNext, AskedNext, ToldNext, ClosedNext
<1>4. FetchersEnd' BY <1>1, <1>2, <1>3, FetchersNext
<1> QED BY <1>3, <1>4 DEF EndInv

\* A sync that ends without an error or a cancellation (spawnSync, Results) has
\* handed out every header, unless deliver ignored an answer because its peer had
\* just left: a fetcher ends only with an empty pool, and the pool has every part
\* of the window that is not stored.
THEOREM SyncEndsWhole == Spec => []EndsWhole
<1>1. QueueInv /\ EndInv => EndsWhole BY DEF EndInv, ClosedLast, AllHandedOut, EndsWhole
<1> QED BY QueueInvariant, EndInit, EndNext, <1>1, PTL DEF Spec

-----------------------------------------------------------------------------
(* The common ancestor: the search ends at the fork.                       *)

Searches == {"span", "halve", "beacon", "ended", "linked"}

\* The types of the search; the fork is on both chains.
AncestorTypes ==
  /\ heights.local \in Nat /\ heights.remote \in Nat /\ heights.fork \in Nat
  /\ heights.fork <= heights.local /\ heights.fork <= heights.remote
  /\ lookup \in [at : Searches, start : Int, end : Int] /\ found \in Int

\* The fork is in the interval left, unless it is under the floor.
IntervalSound ==
  /\ lookup.at = "halve" =>
       /\ Floor <= lookup.start /\ heights.fork <= lookup.end
       /\ lookup.start <= heights.fork \/ lookup.start = Floor
  /\ lookup.at = "beacon" => lookup.start <= heights.fork /\ heights.fork <= lookup.end

AncestorInv == AncestorTypes /\ IntervalSound /\ AncestorExact

\* A bounded set of numbers that is not empty has a greatest one.
LEMMA GreatestNumber ==
  ASSUME NEW T, T \subseteq Nat, T # {}, NEW h \in Nat, \A n \in T : n <= h PROVE \E n \in T : \A m \in T : m <= n
<1> DEFINE U == {h - n : n \in T}
<1>1. U \subseteq Nat /\ U # {}
  <2>1. \A n \in T : h - n \in Nat OBVIOUS
  <2>2. PICK n \in T : TRUE OBVIOUS
  <2>3. h - n \in U OBVIOUS
  <2> QED BY <2>1, <2>3
<1>2. \E n \in U : \A m \in U : ~ (<<m, n>> \in OpToRel(<, Nat))
  <2> HIDE DEF U
  <2> QED BY <1>1, NatLessThanWellFounded, WFMin
<1>3. PICK u \in U : \A m \in U : ~ (m < u)
  <2>1. PICK u \in U : \A m \in U : ~ (<<m, u>> \in OpToRel(<, Nat)) BY <1>2
  <2> HIDE DEF U
  <2> QED BY <1>1, <2>1 DEF OpToRel
<1>4. PICK n \in T : u = h - n OBVIOUS
<1>5. ASSUME NEW m \in T PROVE m <= n
  <2>1. h - m \in U OBVIOUS
  <2>2. ~ (h - m < h - n) BY <1>3, <1>4, <2>1
  <2> QED BY <2>2
<1> QED BY <1>5

\* The request starts at the head of the peer or under it, its numbers are at most 16 apart, and
\* the last one is the head of the peer or above.
LEMMA SpanRequest ==
  ASSUME NEW remote \in Nat, NEW local \in Nat
  PROVE  LET request == RequestSpan(remote, local)
         IN /\ request.from \in Nat /\ request.count \in 2..12 /\ request.span \in 2..16
            /\ request.from + (request.count - 1) * request.span >= remote - 1
<1> DEFINE requestHead == Most(remote - 1, 0)
           requestBottom == Most(local - 1, 0)
           Quotient(m, n) == IF m < 0 THEN -((-m) \div n) ELSE m \div n
           totalSpan == requestHead - requestBottom
           span == Least(Most(1 + Quotient(totalSpan, 12), 2), 16)
           count == Most(Least(1 + Quotient(totalSpan, span), 12), 2)
           from == Most(requestHead - (count - 1) * span, 0)
<1>1. MaxHeaderFetch \div 16 = 12 BY DEF MaxHeaderFetch
<1>2. RequestSpan(remote, local) = [from |-> from, count |-> count, span |-> span] BY <1>1 DEF RequestSpan
<1>3. requestHead \in Nat /\ requestBottom \in Nat /\ requestHead >= remote - 1 BY DEF Most
<1>4. totalSpan \in Int BY <1>3
<1>5. \A m \in Int, n \in 2..16 : Quotient(m, n) \in Int OBVIOUS
<1> HIDE DEF requestHead, requestBottom, Quotient, totalSpan
<1>a. \A q \in Int : Least(Most(1 + q, 2), 16) \in 2..16 /\ Most(Least(1 + q, 12), 2) \in 2..12 BY DEF Least, Most
<1>6. span \in 2..16
  BY <1>4, <1>5, <1>a
<1> HIDE DEF span
<1>7. count \in 2..12
  BY <1>4, <1>5, <1>6, <1>a
<1> HIDE DEF count
<1>8. (count - 1) * span \in Nat BY <1>6, <1>7
<1> DEFINE width == (count - 1) * span
<1>9. from \in Nat /\ from + width >= requestHead
  <2> HIDE DEF width
  <2>1. width \in Nat BY <1>8 DEF width
  <2>2. from = Most(requestHead - width, 0) BY DEF width
  <2> HIDE DEF from
  <2> QED BY <1>3, <2>1, <2>2 DEF Most
<1> HIDE DEF from
<1> QED BY <1>2, <1>3, <1>6, <1>7, <1>8, <1>9

\* The search starts with headers far apart.
LEMMA SearchStarts ==
  ASSUME AncestorInit PROVE AncestorInv
<1> USE AncestorAssumption
<1>1. AncestorTypes
  <2>1. heights.local \in Nat /\ heights.remote \in Nat /\ heights.fork \in Nat BY DEF AncestorInit
  <2>2. heights.fork <= Least(heights.local, heights.remote) BY DEF AncestorInit
  <2> QED BY <2>1, <2>2 DEF AncestorInit, AncestorTypes, Least, Searches, Unfound
<1> QED BY <1>1 DEF AncestorInit, AncestorInv, IntervalSound, AncestorExact

\* The highest header asked for that is shared is less than a distance from the fork.
LEMMA SpanHolds ==
  ASSUME AncestorInv, SpanSearch PROVE AncestorInv'
<1> USE AncestorAssumption
<1> DEFINE request == RequestSpan(heights.remote, heights.local)
           asked == {request.from + i * request.span : i \in 0..(request.count - 1)}
           shared == {n \in asked : n <= heights.remote /\ Known(n)}
<1>1. AncestorTypes /\ heights' = heights /\ lookup.at = "span" BY DEF AncestorInv, SpanSearch
<1>2. Floor' = Floor /\ Floor \in Int /\ Floor >= -1 BY <1>1 DEF Floor, AncestorTypes
<1>3. /\ request.from \in Nat /\ request.count \in 2..12 /\ request.span \in 2..16
      /\ request.from + (request.count - 1) * request.span >= heights.remote - 1
  BY <1>1, SpanRequest DEF AncestorTypes
<1> DEFINE from == request.from
           count == request.count
           span == request.span
<1>4. asked = {from + i * span : i \in 0..(count - 1)} OBVIOUS
<1>5. from \in Nat /\ count \in 2..12 /\ span \in 2..16 /\ from + (count - 1) * span >= heights.remote - 1 BY <1>3
<1>6. \/ shared # {} /\ found' = Accepted(CHOOSE n \in shared : \A m \in shared : m <= n)
                     /\ lookup' = [lookup EXCEPT !.at = "ended"]
      \/ shared = {} /\ lookup' = [at |-> "halve", start |-> Most(Floor, 0), end |-> heights.remote] /\ found' = found
  BY DEF SpanSearch
<1> HIDE DEF from, count, span, request, asked
<1>7. CASE shared # {} /\ found' = Accepted(CHOOSE n \in shared : \A m \in shared : m <= n)
                       /\ lookup' = [lookup EXCEPT !.at = "ended"]
  <2>1. asked \subseteq Nat BY <1>4, <1>5
  <2>2. \E n \in shared : \A m \in shared : m <= n
    <3>1. shared \subseteq Nat /\ heights.remote \in Nat /\ \A n \in shared : n <= heights.remote
      BY <1>1, <2>1 DEF AncestorTypes
    <3> HIDE DEF shared
    <3> QED BY <1>7, <3>1, GreatestNumber
  <2>3. PICK n \in shared : (\A m \in shared : m <= n) /\ found' = Accepted(n)
    <3> HIDE DEF shared
    <3> QED BY <1>7, <2>2
  <2>4. n \in Nat /\ n <= heights.fork /\ n \in asked BY <2>1 DEF Known
  <2>5. PICK i \in 0..(count - 1) : n = from + i * span BY <1>4, <2>4
  <2>6. heights.fork < n + 16
    <3>1. CASE i = count - 1 BY <1>1, <1>5, <2>4, <2>5, <3>1 DEF AncestorTypes
    <3>2. CASE i # count - 1
      <4>0. i + 1 \in 0..(count - 1) BY <1>5, <3>2
      <4>1. from + (i + 1) * span \in asked BY <1>4, <4>0
      <4>2. from + (i + 1) * span = n + span BY <1>5, <2>5
      <4>3. n + span \in asked /\ n + span \notin shared BY <1>5, <2>3, <2>4, <4>1, <4>2
      <4>4. ~ (n + span <= heights.remote /\ n + span <= heights.fork) BY <4>3 DEF Known
      <4> QED BY <1>1, <1>5, <2>4, <4>4 DEF AncestorTypes
    <3> QED BY <3>1, <3>2
  <2>7. found' = IF n <= Floor THEN InvalidAncestor ELSE n BY <2>3 DEF Accepted
  <2>8. AncestorTypes' BY <1>1, <1>7, <2>4, <2>7 DEF AncestorTypes, Searches, InvalidAncestor
  <2>9. lookup'.at = "ended" BY <1>1, <1>7 DEF AncestorTypes
  <2>10. \/ found' \in (Floor + 1)..heights.fork /\ heights.fork - found' < 16
         \/ found' = InvalidAncestor /\ heights.fork < Floor + 16
    BY <1>1, <1>2, <2>4, <2>6, <2>7 DEF AncestorTypes
  <2> QED BY <1>1, <1>2, <2>8, <2>9, <2>10 DEF AncestorInv, IntervalSound, AncestorExact
<1>8. CASE shared = {} /\ lookup' = [at |-> "halve", start |-> Most(Floor, 0), end |-> heights.remote] /\ found' = found
  BY <1>1, <1>2, <1>8 DEF AncestorTypes, AncestorInv, IntervalSound, AncestorExact, Most, Searches
<1> QED BY <1>6, <1>7, <1>8

\* The skeleton ends on a known block.
LEMMA BeaconHolds ==
  ASSUME AncestorInv, BeaconSearch PROVE AncestorInv'
<1> USE AncestorAssumption
<1>1. AncestorTypes /\ heights' = heights /\ found' = found BY DEF AncestorInv, BeaconSearch
<1>2. PICK tail \in RemoteHeights :
        /\ 0 < tail /\ Known(tail - 1)
        /\ lookup' = [at |-> "beacon", start |-> tail - 1, end |-> Least(heights.local, heights.remote)]
  BY DEF BeaconSearch
<1>3. tail \in Nat OBVIOUS
<1> QED BY <1>1, <1>2, <1>3 DEF AncestorTypes, AncestorInv, IntervalSound, AncestorExact, Least, Searches, Known

\* Half of the interval goes, the one without the fork.
LEMMA HalveHolds ==
  ASSUME AncestorInv, Halve PROVE AncestorInv'
<1> DEFINE check == (lookup.start + lookup.end) \div 2
<1>1. AncestorTypes /\ heights' = heights /\ found' = found /\ lookup.at \in {"halve", "beacon"}
      /\ lookup.start + 1 < lookup.end
  BY DEF AncestorInv, Halve
<1>2. Floor' = Floor /\ Floor \in Int BY <1>1, AncestorAssumption DEF Floor, AncestorTypes
<1>3. lookup.start \in Int /\ lookup.end \in Int BY <1>1 DEF AncestorTypes
<1>4. check \in Int /\ lookup.start < check /\ check < lookup.end BY <1>1, <1>3
<1>5. lookup' = IF Known(check) THEN [lookup EXCEPT !.start = check] ELSE [lookup EXCEPT !.end = check] BY DEF Halve
<1> HIDE DEF check
<1>6. /\ lookup' \in [at : Searches, start : Int, end : Int] /\ lookup'.at = lookup.at
      /\ \/ check <= heights.fork /\ lookup'.start = check /\ lookup'.end = lookup.end
         \/ ~ (check <= heights.fork) /\ lookup'.start = lookup.start /\ lookup'.end = check
  BY <1>1, <1>4, <1>5 DEF Known, AncestorTypes
<1>7. AncestorTypes' BY <1>1, <1>6 DEF AncestorTypes
<1> QED BY <1>1, <1>2, <1>3, <1>4, <1>6, <1>7 DEF AncestorInv, AncestorTypes, IntervalSound, AncestorExact

\* What is left is the fork, or the block under it.
LEMMA EndHalvingHolds ==
  ASSUME AncestorInv, EndHalving PROVE AncestorInv'
<1>1. AncestorTypes /\ heights' = heights /\ lookup.at \in {"halve", "beacon"} /\ lookup.start + 1 >= lookup.end
  BY DEF AncestorInv, EndHalving
<1>2. Floor' = Floor /\ Floor \in Int BY <1>1, AncestorAssumption DEF Floor, AncestorTypes
<1>3. lookup.start \in Int /\ lookup.end \in Int BY <1>1 DEF AncestorTypes
<1>4. CASE lookup.at = "halve"
  BY <1>4, <1>1, <1>3, <1>2 DEF EndHalving, Accepted, AncestorTypes, Searches, InvalidAncestor, AncestorInv,
   IntervalSound, AncestorExact
<1>5. CASE lookup.at = "beacon"
  BY <1>5, <1>1, <1>3, <1>2 DEF EndHalving, AncestorTypes, Searches, AncestorInv, IntervalSound, AncestorExact
<1> QED BY <1>1, <1>4, <1>5

\* findAncestor, findBeaconAncestor: the search finds the fork, or the floor above it.
THEOREM AncestorIsExact == AncestorSpec => []AncestorExact
<1>1. AncestorInit => AncestorInv BY SearchStarts
<1>2. AncestorInv /\ [AncestorNext]_ancestorVars => AncestorInv'
  <2> SUFFICES ASSUME AncestorInv, [AncestorNext]_ancestorVars PROVE AncestorInv' OBVIOUS
  <2>1. CASE AncestorNext BY <2>1, SpanHolds, BeaconHolds, HalveHolds, EndHalvingHolds DEF AncestorNext
  <2>2. CASE UNCHANGED ancestorVars
    BY <2>2 DEF AncestorInv, AncestorTypes, IntervalSound, AncestorExact, Floor, ancestorVars
  <2> QED BY <2>1, <2>2
<1>3. AncestorInv => AncestorExact BY DEF AncestorInv
<1> QED BY <1>1, <1>2, <1>3, PTL DEF AncestorSpec
=============================================================================
