--------------------------- MODULE DownloadQueue ---------------------------
(***************************************************************************)
(* eth/downloader: the queue of block parts to fetch (queue.go), the       *)
(* window of results being put together (resultstore.go), the two          *)
(* goroutines that fetch bodies and receipts (concurrentFetch), the one    *)
(* that schedules headers (processHeaders), the one that imports results   *)
(* (Results, processFullSyncContent) and spawnSync, which ends them all.   *)
(*                                                                         *)
(* q.lock makes the operations on the queue exclude each other: each is    *)
(* one step.  Results empties the window under the window's own lock and   *)
(* could run between two headers of such a step; all it takes are complete *)
(* results at the front, which the rest of the step does not look at.      *)
(***************************************************************************)
EXTENDS Integers, Sequences, FiniteSets

CONSTANTS
  N,                      \* bound on the headers of a sync, numbered from 1
  EmptyBody, EmptyReceipts, \* headers with nothing to fetch of a kind
  Peers,
  Honest,                 \* in beacon mode stays, answers in time and in earnest
  Master,                 \* cancelPeer: in legacy mode its timeout ends the sync
  CacheSize,              \* len(resultStore.items)
  InitialItems,           \* blockCacheInitialItems: the first threshold
  Room,                   \* peer -> its capacity: headers asked for at once
  MaxResults,             \* maxResultsProcess
  DropLimit,              \* an expiry of no more headers drops the peer (2)
  Budget,                 \* mode -> headers in the sync -> bound on its faults:
                          \* timeouts, bad answers, leaving, joining, errors
  None

Kinds == {"body", "receipt"}
Modes == {"full", "snap"}
Headers == 1 .. N

\* A block without transactions has no receipts.
ASSUME QueueAssumption ==
  /\ N \in Nat /\ EmptyBody \subseteq EmptyReceipts /\ EmptyReceipts \subseteq Headers
  /\ CacheSize \in Nat \ {0} /\ InitialItems \in 1 .. CacheSize /\ Room \in [Peers -> Nat \ {0}] /\ MaxResults \in Nat \ {0}
  /\ DropLimit \in Nat /\ Budget \in [Modes -> [Headers -> Nat]]
  /\ IsFiniteSet(Peers) /\ Honest \in Peers /\ Master \in Peers /\ None \notin Peers

VARIABLES
  scheduled,   \* headers scheduled so far: 1 .. scheduled
  pool,        \* kind -> blockTaskPool, receiptTaskPool
  tasks,       \* kind -> blockTaskQueue, receiptTaskQueue: lowest number first
  pend,        \* kind -> peer -> headers of its request in the pend pool
  slots,       \* headers with a fetchResult in the window
  outstanding, \* kind -> headers whose fetchResult.pending has the bit of kind
  offset,      \* resultOffset
  counted,     \* indexIncomplete
  threshold,   \* throttleThreshold
  stored       \* kind -> headers whose part was validated and stored

queueVars == <<pool, tasks, pend>>
slotVars == <<slots, outstanding, stored>>
limitVars == <<offset, counted, threshold>>

VARIABLES
  fetch,       \* kind -> where the loop of concurrentFetch is, with its locals
  pending,     \* kind -> peers with a live request
  stale,       \* kind -> peers with a timed-out request not answered yet
  finished,    \* kind -> no more headers will be scheduled
  wake,        \* kind -> what lies in the wake channel
  events       \* kind -> peering events not read yet

requestVars == <<pending, stale>>
fetchVars == <<fetch, requestVars, finished>>

VARIABLES
  peers,       \* registered peers
  revoking,    \* peers taken out of the peer set, with Revoke still to come
  lacking,     \* peer -> headers it is known not to have
  headers,     \* where processHeaders is
  consumer,    \* where Results and its caller are
  closed,      \* queue.closed
  cancelled,   \* cancelCh is closed
  mode,        \* queue.mode
  last,        \* the last header of this sync
  beacon,      \* beaconMode of this sync
  abandoned,   \* kind -> headers in answers ignored because the peer had left
  faults

peerVars == <<peers, revoking, lacking>>
endVars == <<closed, cancelled>>
syncVars == <<mode, last, beacon>>
vars == <<scheduled, queueVars, slotVars, limitVars, fetchVars, wake, events,
          peerVars, headers, consumer, endVars, syncVars, abandoned, faults>>

-----------------------------------------------------------------------------
(* Small vocabulary.                                                       *)

\* The locals of concurrentFetch outside an assignment round or an answer.
Place(place, p) == [at |-> place, peer |-> p, idles |-> {}, tried |-> 0,
                    progressed |-> FALSE, throttled |-> FALSE]
At(place) == Place(place, None)

Running == {"wait", "assign", "answer"}
Ended == {"ended", "canceled", "error"}

FirstOf(S, n) == {h \in S : Cardinality({x \in S : x < h}) < n}

\* The headers whose part of a kind need not be fetched (newFetchResult).
Empty(k) == IF k = "body" THEN EmptyBody
            ELSE IF mode = "full" THEN Headers ELSE EmptyReceipts

\* A beacon sync goes on without peers, so one has to stay for it to end.
Reliable == IF beacon THEN {Honest} ELSE {}

Fault == faults < Budget[mode][last] /\ faults' = faults + 1

\* fetchResult.AllDone of the slot of a header.
Ready(h) == h \in slots /\ \A k \in Kinds : h \notin outstanding[k]
HasCompletedItems == Ready(offset)

\* (mutant) nobody is signalled
NoSignal == UNCHANGED consumer

\* q.active.Signal: only Results ever waits.
Signal == consumer' = IF consumer = "asleep" THEN "woken" ELSE consumer

\* (mutant) nobody pings the fetchers
WakeNobody == UNCHANGED wake

\* A non-blocking send of true on both wake channels, of capacity one.
WakeFetchers == wake' = [k \in Kinds |-> IF wake[k] = "none" THEN "more" ELSE wake[k]]

\* Move the headers of a peer's request back into the task queue.
Return(k, p) == /\ tasks' = [tasks EXCEPT ![k] = @ \cup pend[k][p]]
                /\ pend' = [pend EXCEPT ![k][p] = {}]

-----------------------------------------------------------------------------
Init ==
  /\ mode \in Modes /\ last \in Headers /\ beacon \in BOOLEAN
  /\ scheduled = 0
  /\ pool = [k \in Kinds |-> {}]
  /\ tasks = [k \in Kinds |-> {}]
  /\ pend = [k \in Kinds |-> [p \in Peers |-> {}]]
  /\ slots = {}
  /\ outstanding = [k \in Kinds |-> {}]
  /\ offset = 1
  /\ counted = 0
  /\ threshold = InitialItems
  /\ stored = [k \in Kinds |-> {}]

  /\ fetch = [k \in Kinds |-> At("wait")]
  /\ pending = [k \in Kinds |-> {}]
  /\ stale = [k \in Kinds |-> {}]
  /\ finished = [k \in Kinds |-> FALSE]
  /\ wake = [k \in Kinds |-> "none"]
  /\ events = [k \in Kinds |-> <<>>]
  /\ peers \in (SUBSET Peers) \ {{}} /\ (beacon => Honest \in peers)
  /\ revoking = {}
  /\ lacking = [p \in Peers |-> {}]
  /\ headers = "run"
  /\ consumer = "poll"
  /\ closed = FALSE
  /\ cancelled = FALSE
  /\ abandoned = [k \in Kinds |-> {}]
  /\ faults = 0

-----------------------------------------------------------------------------
(* processHeaders.                                                         *)

\* Schedule of a chunk: every header gets a body task, since reserving it is
\* what makes its slot, but a receipt task only when it has receipts.
Schedule ==
  /\ headers \in {"run", "scheduled"}
  /\ \E n \in scheduled + 1 .. last :
       LET chunk(k) == (scheduled + 1 .. n) \ (IF k = "body" THEN {} ELSE Empty(k)) IN
         /\ pool' = [k \in Kinds |-> pool[k] \cup chunk(k)]
         /\ tasks' = [k \in Kinds |-> tasks[k] \cup chunk(k)]
         /\ scheduled' = n
  /\ headers' = "scheduled"
  /\ UNCHANGED <<pend, slotVars, limitVars, fetchVars, wake, events, peerVars,
                 consumer, endVars, syncVars, abandoned, faults>>

\* The chunks of a batch are scheduled: ping the fetchers.
HeadersWake ==
  /\ headers = "scheduled"
  /\ headers' = "run"
  /\ WakeFetchers
  /\ UNCHANGED <<scheduled, queueVars, slotVars, limitVars, fetchVars, events,
                 peerVars, consumer, endVars, syncVars, abandoned, faults>>

\* The stream of headers ends, or the sync is cancelled, or a header is bad.
HeadersEnd ==
  /\ headers = "run"
  /\ \/ scheduled = last /\ headers' = "tellBody" /\ UNCHANGED faults
     \/ cancelled /\ headers' = "done" /\ UNCHANGED faults
     \/ headers' = "error" /\ Fault
  /\ UNCHANGED <<scheduled, queueVars, slotVars, limitVars, fetchVars, wake, events,
                 peerVars, consumer, endVars, syncVars, abandoned>>

\* The sends of false block until the channel has room or the sync is cancelled.
HeadersTell(k) ==
  /\ headers = (IF k = "body" THEN "tellBody" ELSE "tellReceipt")
  /\ \/ wake[k] = "none" /\ wake' = [wake EXCEPT ![k] = "last"]
     \/ cancelled /\ UNCHANGED wake
  /\ headers' = IF k = "body" THEN "tellReceipt" ELSE "done"
  /\ UNCHANGED <<scheduled, queueVars, slotVars, limitVars, fetchVars, events,
                 peerVars, consumer, endVars, syncVars, abandoned, faults>>

-----------------------------------------------------------------------------
(* concurrentFetch: the head of the loop and the assignment round.         *)

\* What a step of a fetcher never touches.
Elsewhere == UNCHANGED <<scheduled, counted, offset, threshold, headers, endVars, syncVars>>

\* Go on at next, with these events unread; a fetcher that ends unsubscribes.
Go(k, next, unread) ==
  /\ fetch' = [fetch EXCEPT ![k] = next]
  /\ events' = [events EXCEPT ![k] = IF next.at \in Ended THEN <<>> ELSE unread]

\* (mutant) a peer with a live request counts as idle
NotStale(k) == peers \ stale'[k]

\* The peers without a request, be it live or timed out and not answered yet.
IdlePeers(k) == peers \ (pending'[k] \cup stale'[k])

\* The assignment round that is about to begin.
Round(k) == [at |-> "assign", peer |-> None, idles |-> IdlePeers(k),
             tried |-> Cardinality(IdlePeers(k)), progressed |-> FALSE, throttled |-> FALSE]

\* The head of the loop, which every case of the select leads to: legacy mode
\* gives up without peers; with nothing queued or in flight and no header to come
\* the fetcher ends; otherwise it waits or turns to the idle peers.
LoopHead(k) ==
  IF peers = {} /\ ~beacon THEN At("error")
  ELSE IF tasks'[k] # {} THEN Round(k)
  ELSE At(IF pending'[k] = {} /\ finished'[k] THEN "ended" ELSE "wait")

Loop(k, unread) == Go(k, LoopHead(k), unread)

\* reserveHeaders for the next idle peer.  Tasks are popped from the lowest number
\* on, until as many headers as the peer can take are found or the next one lies
\* beyond the threshold.  AddFetch gives a popped header a slot unless it was
\* handed out before.  A part that needs no fetching is done; a header the peer
\* lacks goes back, and then the round is not throttled.  The request is sent, or
\* that fails as the connection goes down and its headers go back.  (The check
\* for a peer that still has a request never strikes; if it could, OnePlace would
\* not hold here, where the request would be overwritten.)
Reserve(k, p) ==
  LET f == fetch[k]
      window == {h \in tasks[k] : h < offset + threshold}
      Wanted(h) == h >= offset /\ (IF h \in slots THEN h \in outstanding[k] ELSE h \notin Empty(k))
      taken == FirstOf({h \in window : Wanted(h) /\ h \notin lacking[p]}, Room[p])
      full == Cardinality(taken) = Room[p]
      popped == {h \in window : full => \E x \in taken : h <= x}
      done == {h \in popped : ~Wanted(h)}
      skip == popped \ (done \cup taken)
      fresh == {h \in popped : h >= offset} \ slots
  IN
  /\ f.at = "assign" /\ ~f.throttled /\ p \in f.idles /\ tasks[k] # {}
  /\ Elsewhere
  /\ pool' = [pool EXCEPT ![k] = @ \ done]
  /\ slots' = slots \cup fresh
  /\ outstanding' = [j \in Kinds |-> outstanding[j] \cup (fresh \ Empty(j))]
  /\ fetch' = [fetch EXCEPT ![k] = [f EXCEPT !.idles = @ \ {p},
                                             !.progressed = @ \/ done # {},
                                             !.throttled = ~full /\ window # tasks[k] /\ skip = {}]]
  /\ IF HasCompletedItems' THEN Signal ELSE UNCHANGED consumer
  /\ \/ /\ tasks' = [tasks EXCEPT ![k] = @ \ (done \cup taken)]
        /\ pend' = [pend EXCEPT ![k][p] = taken]
        /\ pending' = IF taken = {} THEN pending ELSE [pending EXCEPT ![k] = @ \cup {p}]
        /\ UNCHANGED faults
     \/ /\ taken # {} /\ p \notin Reliable
        /\ IF p \in peers THEN Fault ELSE UNCHANGED faults
        /\ tasks' = [tasks EXCEPT ![k] = @ \ done]
        /\ UNCHANGED <<pend, pending>>
  /\ UNCHANGED <<stored, stale, finished, wake, events, peerVars, abandoned>>

\* The round is over.  Legacy mode gives up when all peers were idle and none of
\* them could be asked for anything.
AssignEnd(k) ==
  LET f == fetch[k]
      unavailable == /\ ~f.progressed /\ ~f.throttled /\ pending[k] = {}
                     /\ f.tried = Cardinality(peers) /\ tasks[k] # {} /\ ~beacon
  IN
  /\ f.at = "assign"
  /\ f.throttled \/ f.idles = {} \/ (tasks[k] = {})
  /\ Go(k, At(IF unavailable THEN "error" ELSE "wait"), events[k])
  /\ Elsewhere
  /\ UNCHANGED <<queueVars, slotVars, requestVars, finished, wake, peerVars, consumer,
                 abandoned, faults>>

-----------------------------------------------------------------------------
(* concurrentFetch: the select, one case at a time.                        *)

Waiting(k) == fetch[k].at = "wait"

Cancelled(k) ==
  /\ Waiting(k) /\ cancelled
  /\ Go(k, At("canceled"), <<>>)
  /\ Elsewhere
  /\ UNCHANGED <<queueVars, slotVars, requestVars, finished, wake, peerVars, consumer,
                 abandoned, faults>>

\* A peer joined: look for work for it.  A peer left: give back what it was asked.
PeerEvent(k) ==
  /\ Waiting(k) /\ events[k] # <<>>
  /\ LET e == Head(events[k]) IN
       IF ~e.join /\ e.peer \in pending[k]
       THEN Return(k, e.peer)
       ELSE UNCHANGED <<tasks, pend>>
  /\ LET e == Head(events[k]) IN
       /\ pending' = [pending EXCEPT ![k] = IF e.join THEN @ ELSE @ \ {e.peer}]
       /\ stale' = [stale EXCEPT ![k] = IF e.join THEN @ ELSE @ \ {e.peer}]
  /\ UNCHANGED finished
  /\ Loop(k, Tail(events[k]))
  /\ Elsewhere
  /\ UNCHANGED <<pool, slotVars, wake, peerVars, consumer, abandoned, faults>>

\* The timer of a request: the peer stays busy, its headers return to the queue.
\* A peer that was asked for few headers is dropped, which cancels a legacy sync
\* if it is the master; the disconnection itself is LeavePeer.
Timeout(k, p) ==
  LET fatal == /\ p \in peers /\ Cardinality(pend[k][p]) <= DropLimit
               /\ p = Master /\ ~beacon
  IN
  /\ Waiting(k) /\ p \in pending[k] \ Reliable
  /\ Fault
  /\ pending' = [pending EXCEPT ![k] = @ \ {p}]
  /\ stale' = [stale EXCEPT ![k] = @ \cup {p}]
  /\ Return(k, p)
  /\ UNCHANGED finished
  /\ IF fatal THEN Go(k, At("error"), <<>>) ELSE Loop(k, events[k])
  /\ cancelled' = (cancelled \/ fatal)
  /\ UNCHANGED <<scheduled, limitVars, headers, closed, syncVars>>
  /\ UNCHANGED <<pool, slotVars, wake, peerVars, consumer, abandoned>>

\* An answer to a live or a timed-out request.  The handler of a peer sends it,
\* so none comes once the peer has been unregistered.
Answer(k, p) ==
  /\ Waiting(k) /\ p \in peers /\ p \in pending[k] \cup stale[k]
  /\ \A i \in DOMAIN events[k] : events[k][i] # [peer |-> p, join |-> FALSE]
  /\ pending' = [pending EXCEPT ![k] = @ \ {p}]
  /\ stale' = [stale EXCEPT ![k] = @ \ {p}]
  /\ fetch' = [fetch EXCEPT ![k] = Place("answer", p)]
  /\ Elsewhere
  /\ UNCHANGED <<queueVars, slotVars, finished, wake, events, peerVars, consumer,
                 abandoned, faults>>

\* A ping from processHeaders or from Results.
Waker(k) ==
  /\ Waiting(k) /\ wake[k] # "none"
  /\ finished' = [finished EXCEPT ![k] = @ \/ wake[k] = "last"]
  /\ wake' = [wake EXCEPT ![k] = "none"]
  /\ UNCHANGED <<queueVars, requestVars>>
  /\ Loop(k, events[k])
  /\ Elsewhere
  /\ UNCHANGED <<slotVars, peerVars, consumer, abandoned, faults>>

-----------------------------------------------------------------------------
(* deliver.                                                                *)

\* The handler of the peer was let go when the answer was taken, so the peer may
\* be gone by now: then the answer is thrown away.
AnswerIgnored(k) ==
  LET p == fetch[k].peer IN
  /\ fetch[k].at = "answer" /\ p \notin peers
  /\ abandoned' = [abandoned EXCEPT ![k] = @ \cup pend[k][p]]
  /\ UNCHANGED <<queueVars, requestVars, finished>>
  /\ Loop(k, events[k])
  /\ Elsewhere
  /\ UNCHANGED <<slotVars, wake, peerVars, consumer, faults>>

\* The parts of these headers are stored, the rest of the request goes back.
Accept(k, p, accepted) ==
  /\ outstanding' = [outstanding EXCEPT ![k] = @ \ (accepted \cap slots)]
  /\ stored' = [stored EXCEPT ![k] = @ \cup (accepted \cap slots)]
  /\ pool' = [pool EXCEPT ![k] = @ \ accepted]
  /\ tasks' = [tasks EXCEPT ![k] = @ \cup (pend[k][p] \ accepted)]
  /\ pend' = [pend EXCEPT ![k][p] = {}]
  /\ Signal
  /\ UNCHANGED lacking

\* The answer fits the first n headers of the request, if there still is one.
\* An answer without any item marks all of them as lacking; nothing usable, be it
\* empty or invalid, is what the honest peer never sends.
Deliver(k) ==
  LET p == fetch[k].peer
      asked == pend[k][p]
  IN
  /\ fetch[k].at = "answer" /\ p \in peers
  /\ \/ /\ asked = {}
        /\ UNCHANGED <<queueVars, outstanding, stored, lacking, consumer, faults>>
     \/ /\ asked # {} /\ p \notin Reliable /\ Fault
        /\ \/ UNCHANGED lacking
           \/ lacking' = [lacking EXCEPT ![p] = @ \cup asked]
        /\ Return(k, p)
        /\ UNCHANGED <<pool, outstanding, stored, consumer>>
     \/ \E n \in 1 .. Cardinality(asked) : Accept(k, p, FirstOf(asked, n)) /\ UNCHANGED faults
  /\ UNCHANGED <<requestVars, finished>>
  /\ Loop(k, events[k])
  /\ Elsewhere
  /\ UNCHANGED <<slots, wake, peers, revoking, abandoned>>

-----------------------------------------------------------------------------
(* Peers, as the eth handler registers and unregisters them.               *)

Announce(p, joined) ==
  events' = [k \in Kinds |-> IF fetch[k].at \in Ended THEN events[k]
                             ELSE Append(events[k], [peer |-> p, join |-> joined])]

PeerElsewhere == UNCHANGED <<scheduled, slotVars, limitVars, fetchVars, wake, headers,
                             consumer, endVars, syncVars, abandoned>>

\* UnregisterPeer, first half: out of the peer set, the fetchers are told.
LeavePeer(p) ==
  /\ p \in peers \ Reliable /\ Fault
  /\ peers' = peers \ {p}
  /\ revoking' = revoking \cup {p}
  /\ Announce(p, FALSE)
  /\ PeerElsewhere
  /\ UNCHANGED <<queueVars, lacking>>

\* UnregisterPeer, second half.
Revoke(p) ==
  /\ p \in revoking
  /\ tasks' = [k \in Kinds |-> tasks[k] \cup pend[k][p]]
  /\ pend' = [k \in Kinds |-> [pend[k] EXCEPT ![p] = {}]]
  /\ revoking' = revoking \ {p}
  /\ PeerElsewhere
  /\ UNCHANGED <<pool, events, peers, lacking, faults>>

\* A new connection of a peer is accepted when the old one is unregistered.
JoinPeer(p) ==
  /\ p \notin peers \cup revoking /\ Fault
  /\ peers' = peers \cup {p}
  /\ lacking' = [lacking EXCEPT ![p] = {}]
  /\ Announce(p, TRUE)
  /\ PeerElsewhere
  /\ UNCHANGED <<queueVars, revoking>>

-----------------------------------------------------------------------------
(* Results and the importer behind it.                                     *)

ConsumerElsewhere == UNCHANGED <<scheduled, queueVars, outstanding, stored, fetchVars, events,
                                 peerVars, headers, endVars, syncVars, abandoned>>

\* Nothing complete and not closed, checked under the lock: wait on the condition.
ResultsSleep ==
  /\ consumer \in {"poll", "woken"} /\ ~HasCompletedItems /\ ~closed
  /\ consumer' = "asleep"
  /\ ConsumerElsewhere
  /\ UNCHANGED <<slots, limitVars, wake, faults>>

\* (mutant) the index is not moved with the window
IndexKept(complete, limit) == complete

IndexAfter(complete, limit) == complete - limit

\* GetCompleted: countCompleted resumes at the cached index.
ResultsTake ==
  LET complete == CHOOSE c \in counted .. N :
                    /\ \A i \in counted .. c - 1 : Ready(offset + i)
                    /\ ~Ready(offset + c)
      limit == IF complete < MaxResults THEN complete ELSE MaxResults
  IN
  /\ consumer \in {"poll", "woken"} /\ (HasCompletedItems \/ closed)
  /\ slots' = {h \in slots : h >= offset + limit}
  /\ offset' = offset + limit
  /\ counted' = IndexAfter(complete, limit)
  /\ consumer' = IF limit = 0 THEN "empty" ELSE "full"
  /\ ConsumerElsewhere
  /\ UNCHANGED <<threshold, wake, faults>>

\* (mutant) the threshold is not capped
Uncapped == 1 .. CacheSize + 1

\* SetThrottleThreshold: by the size of the results, capped by the cache.
Thresholds == 1 .. CacheSize

\* The new threshold and the ping; then the
\* results are imported, which may fail.  No result at all ends the importer.
ResultsReturn ==
  /\ consumer \in {"empty", "full"}
  /\ threshold' \in Thresholds
  /\ WakeFetchers
  /\ \/ consumer' = (IF consumer = "empty" THEN "done" ELSE "poll") /\ UNCHANGED faults
     \/ consumer = "full" /\ consumer' = "error" /\ Fault
  /\ ConsumerElsewhere
  /\ UNCHANGED <<slots, offset, counted>>

-----------------------------------------------------------------------------
(* spawnSync.                                                              *)

Failed == headers = "error" \/ consumer = "error" \/ \E k \in Kinds : fetch[k].at = "error"

\* (mutant) one fetcher too few is waited for
ExitedEarly == headers = "done" /\ \E k \in Kinds : fetch[k].at \in {"ended", "canceled"}

Exited == headers = "done" /\ \A k \in Kinds : fetch[k].at \in {"ended", "canceled"}

SpawnElsewhere == UNCHANGED <<scheduled, queueVars, slotVars, limitVars, fetchVars, wake,
                              events, peerVars, headers, syncVars, abandoned>>

\* Close, when something failed or only the importer is left.
CloseQueue ==
  /\ ~closed /\ (Failed \/ Exited)
  /\ closed' = TRUE
  /\ Signal
  /\ SpawnElsewhere
  /\ UNCHANGED <<cancelled, faults>>

Cancel ==
  /\ ~cancelled /\ closed /\ Failed
  /\ cancelled' = TRUE
  /\ SpawnElsewhere
  /\ UNCHANGED <<closed, consumer, faults>>

\* Downloader.Cancel from outside.
CancelSync ==
  /\ ~cancelled /\ Fault
  /\ cancelled' = TRUE
  /\ SpawnElsewhere
  /\ UNCHANGED <<closed, consumer>>

\* The sync is over.
Over == /\ consumer \in {"done", "error"} /\ headers \in {"done", "error"}
        /\ \A k \in Kinds : fetch[k].at \in Ended
Finished == Over /\ UNCHANGED vars

-----------------------------------------------------------------------------
Fetcher(k) ==
  \/ AssignEnd(k)
  \/ \E p \in Peers : Reserve(k, p)
  \/ Cancelled(k) \/ PeerEvent(k) \/ Waker(k)
  \/ AnswerIgnored(k) \/ Deliver(k)

HeaderProcessor == Schedule \/ HeadersWake \/ HeadersEnd \/ \E k \in Kinds : HeadersTell(k)
Spawner == CloseQueue \/ Cancel
Results == ResultsSleep \/ ResultsTake \/ ResultsReturn

Next ==
  \/ HeaderProcessor \/ Results \/ Spawner \/ CancelSync \/ Finished
  \/ \E k \in Kinds : Fetcher(k) \/ \E p \in Peers : Timeout(k, p) \/ Answer(k, p)
  \/ \E p \in Peers : LeavePeer(p) \/ Revoke(p) \/ JoinPeer(p)

Spec == Init /\ [][Next]_vars

\* Every goroutine keeps running, and requests are answered or time out.
FairSpec ==
  /\ Spec
  /\ WF_vars(HeaderProcessor) /\ WF_vars(Results) /\ WF_vars(Spawner)
  /\ WF_vars(\E p \in Peers : Revoke(p))
  /\ \A k \in Kinds : /\ WF_vars(Fetcher(k))
                      /\ WF_vars(\E p \in Peers : Answer(k, p) \/ Timeout(k, p))

-----------------------------------------------------------------------------
Local == [at : Running \cup Ended, peer : Peers \cup {None}, idles : SUBSET Peers, tried : Nat,
          progressed : BOOLEAN, throttled : BOOLEAN]
Event == [peer : Peers, join : BOOLEAN]

QueueTypeOK ==
  /\ scheduled \in 0 .. N
  /\ pool \in [Kinds -> SUBSET Headers] /\ tasks \in [Kinds -> SUBSET Headers]
  /\ pend \in [Kinds -> [Peers -> SUBSET Headers]]

StoreTypeOK ==
  /\ slots \subseteq Headers /\ outstanding \in [Kinds -> SUBSET Headers]
  /\ stored \in [Kinds -> SUBSET Headers]
  /\ offset \in 1 .. N + 1 /\ counted \in 0 .. N /\ threshold \in 1 .. CacheSize

\* A fetcher in an answer knows whose it is.
FetchLocal ==
  /\ fetch \in [Kinds -> Local]
  /\ \A k \in Kinds : fetch[k].at = "answer" => fetch[k].peer \in Peers

FetchTypeOK ==
  /\ FetchLocal
  /\ pending \in [Kinds -> SUBSET Peers] /\ stale \in [Kinds -> SUBSET Peers]
  /\ finished \in [Kinds -> BOOLEAN]
  /\ wake \in [Kinds -> {"none", "more", "last"}]
  /\ events \in [Kinds -> Seq(Event)]
  /\ peers \subseteq Peers /\ revoking \subseteq Peers /\ lacking \in [Peers -> SUBSET Headers]
  /\ abandoned \in [Kinds -> SUBSET Headers]

SyncTypeOK ==
  /\ headers \in {"run", "scheduled", "tellBody", "tellReceipt", "done", "error"}
  /\ consumer \in {"poll", "asleep", "woken", "empty", "full", "done", "error"}
  /\ closed \in BOOLEAN /\ cancelled \in BOOLEAN
  /\ mode \in Modes /\ last \in Headers /\ beacon \in BOOLEAN
  /\ faults \in 0 .. Budget[mode][last]

\* The types; the window never reaches beyond the last header.
TypeOK == QueueTypeOK /\ StoreTypeOK /\ FetchTypeOK /\ SyncTypeOK

-----------------------------------------------------------------------------
(* Properties.                                                             *)

\* A part to fetch is in the task queue or in the request of one peer, and in no
\* other request: expiry, revocation, failed sends and answers that fall short
\* (expire, Revoke, deliver) all move headers between the two.
OnePlace ==
  \A k \in Kinds, h \in Headers :
    /\ h \in pool[k] <=> h \in tasks[k] \/ \E p \in Peers : h \in pend[k][p]
    /\ \A p \in Peers : h \in pend[k][p] =>
          h \notin tasks[k] /\ \A r \in Peers : h \in pend[k][r] => r = p

\* Why a request is never overwritten: a peer holds headers only while its request
\* is live, its answer is being looked at or its Revoke is still to come, and none
\* that is about to be asked for more holds any.
HoldersTracked ==
  /\ peers \cap revoking = {}
  /\ \A k \in Kinds, p \in Peers : pend[k][p] # {} =>
        \/ p \in pending[k] \/ p \in revoking
        \/ fetch[k].at = "answer" /\ fetch[k].peer = p /\ p \in peers
  /\ \A k \in Kinds : fetch[k].at = "assign" => \A p \in fetch[k].idles : pend[k][p] = {}

\* What a peer is asked for still has a slot that waits for it: deliver writes
\* through the result GetDeliverySlot returns, which would be nil otherwise.
ReservedHasSlot ==
  \A k \in Kinds, p \in Peers : pend[k][p] \subseteq slots \cap outstanding[k]

\* Tasks, requests, fetchers and the window agree on who has what.
PartsTracked == OnePlace /\ HoldersTracked /\ ReservedHasSlot

\* Results hands out headers in order, each with every part it needs validated
\* and stored, though countCompleted starts from a cached index.
HandedOutWhole ==
  \A h \in 1 .. offset - 1 : /\ h <= scheduled
                             /\ \A k \in Kinds : h \in Empty(k) \cup stored[k]

\* Results does not wait on the condition while there is something to hand out
\* or the queue is closed: no Signal is missed.
NoMissedResult == consumer = "asleep" => ~HasCompletedItems /\ ~closed

\* The window holds scheduled headers, and each part of one is empty, stored or
\* outstanding.
SlotsSound ==
  /\ \A k \in Kinds : pool[k] \subseteq 1 .. scheduled
  /\ slots \subseteq offset .. scheduled
  /\ \A k \in Kinds : slots \subseteq Empty(k) \cup stored[k] \cup outstanding[k]

\* What the cached index counts is complete.
IndexSound ==
  /\ offset + counted <= N + 1
  /\ \A h \in offset .. offset + counted - 1 : Ready(h)

\* The inductive invariant of DownloadQueueProofs.
QueueInv ==
  /\ TypeOK /\ OnePlace /\ HoldersTracked /\ SlotsSound /\ IndexSound
  /\ ReservedHasSlot /\ HandedOutWhole /\ NoMissedResult

\* A sync that ends without an error or a cancellation has handed out every
\* header, unless an answer was ignored because its peer had just left.
EndsWhole ==
  consumer = "done" /\ ~cancelled /\ ~Failed =>
    offset = last + 1 \/ \E k \in Kinds : abandoned[k] # {}

\* Every sync ends, with the same exception.
SyncEnds == <>(Over \/ \E k \in Kinds : abandoned[k] # {})

\* "If there's nothing more to fetch, wait or terminate" (fetchers_concurrent.go:133):
\* a fetcher that ended normally has left nothing to fetch.
NothingStranded == \A k \in Kinds : fetch[k].at = "ended" => pool[k] = {}
=============================================================================
