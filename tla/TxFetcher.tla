----------------------------- MODULE TxFetcher -----------------------------
(***************************************************************************)
(* eth/fetcher/tx_fetcher.go: the retrieval of announced transactions.     *)
(*                                                                         *)
(* A hash passes through three stages: it waits for a broadcast, it is     *)
(* queued, it is fetched from one peer.  One loop owns the maps; the       *)
(* message handlers of the peers, the goroutines that send requests and    *)
(* the two timers reach it through channels without a buffer, so what a    *)
(* handler decided may be old when the loop takes it.                      *)
(*                                                                         *)
(* f is the struct, with {} for a missing map entry.  Time is abstract:    *)
(* when a timer triggers, any of the waiting hashes and of the requests    *)
(* may have expired.                                                       *)
(***************************************************************************)
EXTENDS Naturals, FiniteSets, Sequences, SequencesExt

CONSTANTS Hashes,          \* transactions
          Peers,
          Cheap,           \* transactions refused, if at all, for their price
          Nobody,          \* no peer, no request, no message
          MaxTxAnnounces,  \* hashes a peer may have tracked
          MaxTxRetrievals, \* hashes in one request
          MaxMessages,     \* bound: announcements and broadcasts
          MaxDrops         \* bound: connections that end

VARIABLES f,            \* the maps of the loop
          waitArmed,    \* the wait timer runs or has triggered
          timeoutArmed, \* the timeout timer runs or has triggered
          loopRuns,     \* quit is not closed
          known,        \* the transaction pool
          underpriced,  \* recently discarded as too cheap
          mail,         \* what the handler of a peer hands to the loop
          asked,        \* request a peer has not answered
          up,           \* connected peers
          messages, drops

maps == <<f, waitArmed, timeoutArmed>>
poolView == <<known, underpriced>>
fetcherVars == <<maps, loopRuns, poolView, mail, asked, up, messages, drops>>

\* Lists of hashes for one request, and requests.
Lists == {s \in UNION {SetToSeqs(S) : S \in SUBSET Hashes} : Len(s) <= MaxTxRetrievals}
Request == [hashes : Lists, stolen : SUBSET Hashes]
ASSUME FetcherAssumption ==
  /\ IsFiniteSet(Hashes) /\ IsFiniteSet(Peers) /\ Nobody \notin Peers /\ Nobody \notin Request
  /\ MaxTxRetrievals \in Nat \ {0} /\ MaxTxAnnounces \in Nat

Message == [kind : {"notify"}, hashes : SUBSET Hashes]
             \cup [kind : {"reply", "broadcast"}, hashes : SUBSET Hashes]
             \cup [kind : {"drop"}, hashes : {{}}]

\* NewTxFetcher.
FetcherInit ==
  /\ f = [waitlist  |-> [h \in Hashes |-> {}], waittime |-> {},
          waitslots |-> [p \in Peers |-> {}],
          announces |-> [p \in Peers |-> {}], announced |-> [h \in Hashes |-> {}],
          fetching  |-> [h \in Hashes |-> Nobody], requests |-> [p \in Peers |-> Nobody],
          alternates |-> [h \in Hashes |-> {}]]
  /\ waitArmed = FALSE /\ timeoutArmed = FALSE /\ loopRuns = TRUE
  /\ known = {} /\ underpriced = {}
  /\ mail = [p \in Peers |-> Nobody] /\ asked = [p \in Peers |-> Nobody]
  /\ up = Peers /\ messages = 0 /\ drops = 0

Requesting(m) == {p \in Peers : m.requests[p] # Nobody}
\* What a request still waits for: the rest was delivered by somebody else.
Missing(req) == ToSet(req.hashes) \ req.stolen

-----------------------------------------------------------------------------
(* scheduleFetches: every idle peer among the active ones, in the order of *)
(* a map, is asked for hashes that nobody is asked for.                    *)

\* What p can be asked for after the peers of `served` got their share.
Unclaimed(m, p, served, share) ==
  {h \in m.announces[p] : m.fetching[h] = Nobody /\ \A q \in served : h \notin ToSet(share[q])}

\* The shares of the peers of `order`, served in that order, each as much as it can be asked for.
Shares(m, order) ==
  {share \in [ToSet(order) -> Lists] : \A i \in DOMAIN order :
     LET free == Unclaimed(m, order[i], {order[j] : j \in 1..(i - 1)}, share)
     IN /\ ToSet(share[order[i]]) \subseteq free
        /\ Len(share[order[i]]) = IF Cardinality(free) < MaxTxRetrievals THEN Cardinality(free) ELSE MaxTxRetrievals}

\* The peers of `share` that got something are asked for it.
Requested(m, share) ==
  LET busy == {p \in DOMAIN share : share[p] # <<>>}
      goes(h) == {p \in busy : h \in ToSet(share[p])}
  IN [m EXCEPT
        !.fetching   = [h \in Hashes |-> IF goes(h) = {} THEN @[h] ELSE CHOOSE p \in goes(h) : TRUE],
        !.alternates = [h \in Hashes |-> IF goes(h) = {} THEN @[h] ELSE m.announced[h]],
        !.announced  = [h \in Hashes |-> IF goes(h) = {} THEN @[h] ELSE {}],
        !.requests   = [p \in Peers |-> IF p \in busy THEN [hashes |-> share[p], stolen |-> {}]
                                                      ELSE @[p]]]

\* mutant: the timeout timer is not started with the first request
ScheduleUntimed(m, actives, armed, sent) ==
  \E order \in SetToSeqs({p \in actives : m.requests[p] = Nobody /\ m.announces[p] # {}}) :
    \E share \in Shares(m, order) :
      /\ f' = Requested(m, share) /\ timeoutArmed' = armed
      /\ asked' = [p \in Peers |-> IF p \in DOMAIN share /\ share[p] # <<>>
                                   THEN [hashes |-> ToSet(share[p])] ELSE sent[p]]

\* The timeout timer starts with the first request.
ScheduleFetches(m, actives, armed, sent) ==
  \E order \in SetToSeqs({p \in actives : m.requests[p] = Nobody /\ m.announces[p] # {}}) :
    \E share \in Shares(m, order) :
      /\ f' = Requested(m, share)
      /\ timeoutArmed' = (armed \/ (Requesting(m) = {} /\ Requesting(f') # {}))
      /\ asked' = [p \in Peers |-> IF p \in DOMAIN share /\ share[p] # <<>>
                                   THEN [hashes |-> ToSet(share[p])] ELSE sent[p]]

\* No request is sent.
NoFetches(m, armed, sent) == f' = m /\ timeoutArmed' = armed /\ asked' = sent

-----------------------------------------------------------------------------
(* The handlers of the peers: checks against the pool run outside the loop.*)

Send(p, kind, hashes) == mail' = [mail EXCEPT ![p] = [kind |-> kind, hashes |-> hashes]]

\* Notify: the hashes neither known nor recently discarded go to the loop.
Notify(p) == \E hashes \in (SUBSET Hashes) \ {{}} :
  /\ p \in up /\ mail[p] = Nobody /\ messages < MaxMessages
  /\ messages' = messages + 1
  /\ LET unknowns == hashes \ (known \cup underpriced)
     IN IF unknowns = {} THEN UNCHANGED mail ELSE Send(p, "notify", unknowns)
  /\ UNCHANGED <<maps, loopRuns, poolView, asked, up, drops>>

\* addTxs: the pool keeps some; of those it refuses the cheap ones are remembered.
AddTxs(hashes) == \E kept \in SUBSET hashes :
  /\ known' = known \cup kept
  /\ underpriced' = underpriced \cup ((hashes \ known') \cap Cheap)

\* Enqueue of a broadcast.
Broadcast(p) == \E hashes \in (SUBSET Hashes) \ {{}} :
  /\ p \in up /\ mail[p] = Nobody /\ messages < MaxMessages
  /\ messages' = messages + 1
  /\ AddTxs(hashes) /\ Send(p, "broadcast", hashes)
  /\ UNCHANGED <<maps, loopRuns, asked, up, drops>>

\* Enqueue of a reply, in time or late: some of what was asked for.
Reply(p) ==
  /\ p \in up /\ mail[p] = Nobody /\ asked[p] # Nobody
  /\ asked' = [asked EXCEPT ![p] = Nobody]
  /\ \E hashes \in SUBSET asked[p].hashes : AddTxs(hashes) /\ Send(p, "reply", hashes)
  /\ UNCHANGED <<maps, loopRuns, up, messages, drops>>

\* The connection ends: the handler drops the peer (unregisterPeer).
Disconnect(p) ==
  /\ p \in up /\ mail[p] = Nobody /\ drops < MaxDrops
  /\ up' = up \ {p} /\ drops' = drops + 1
  /\ Send(p, "drop", {})
  /\ UNCHANGED <<maps, loopRuns, poolView, asked, messages>>

Reconnect(p) ==
  /\ p \notin up /\ mail[p] = Nobody /\ asked[p] = Nobody
  /\ up' = up \cup {p}
  /\ UNCHANGED <<maps, loopRuns, poolView, mail, asked, messages, drops>>

-----------------------------------------------------------------------------
(* The loop.                                                               *)

\* Beyond the limit of the peer the loop keeps as many hashes as there are too
\* many of them (ann.hashes[:want-maxTxAnnounces]).
Admitted(p, hashes) ==
  LET used == Cardinality(f.waitslots[p]) + Cardinality(f.announces[p])
      want == used + Cardinality(hashes)
  IN IF used >= MaxTxAnnounces THEN {{}}
     ELSE IF want <= MaxTxAnnounces THEN {hashes}
     ELSE {S \in SUBSET hashes : Cardinality(S) = want - MaxTxAnnounces}

\* A hash in flight gets an alternate, a queued one a second origin, a waiting
\* one too; an unknown hash starts to wait.
Tracked(p, hashes) ==
  LET flying == {h \in hashes : f.alternates[h] # {}}
      queued == {h \in hashes \ flying : f.announced[h] # {}}
      waiting == hashes \ (flying \cup queued)
      Join(map, S) == [h \in Hashes |-> IF h \in S THEN map[h] \cup {p} ELSE map[h]]
  IN [f EXCEPT !.alternates = Join(@, flying), !.announced = Join(@, queued),
               !.waitlist = Join(@, waiting), !.waittime = @ \cup waiting,
               !.announces[p] = @ \cup flying \cup queued,
               !.waitslots[p] = @ \cup waiting]

\* case ann := <-f.notify
Announced(p) ==
  /\ loopRuns /\ mail[p] # Nobody /\ mail[p].kind = "notify"
  /\ \E hashes \in Admitted(p, mail[p].hashes) :
       LET m == Tracked(p, hashes) IN
       /\ waitArmed' = (waitArmed \/ (f.waittime = {} /\ m.waittime # {}))
       /\ IF f.announces[p] = {} /\ m.announces[p] # {} THEN ScheduleFetches(m, {p}, timeoutArmed, asked)
                                                        ELSE NoFetches(m, timeoutArmed, asked)
  /\ mail' = [mail EXCEPT ![p] = Nobody]
  /\ UNCHANGED <<loopRuns, poolView, up, messages, drops>>

\* Hashes that were not broadcast in time join the queue.
Queued(expired) ==
  [f EXCEPT !.announced = [h \in Hashes |-> IF h \in expired THEN f.waitlist[h] ELSE @[h]],
            !.announces = [p \in Peers |-> @[p] \cup (f.waitslots[p] \cap expired)],
            !.waitslots = [p \in Peers |-> @[p] \ expired],
            !.waitlist  = [h \in Hashes |-> IF h \in expired THEN {} ELSE @[h]],
            !.waittime  = @ \ expired]

\* case <-waitTrigger
WaitTrigger ==
  /\ loopRuns /\ waitArmed
  /\ \E expired \in SUBSET f.waittime :
       /\ waitArmed' = (Queued(expired).waittime # {})
       /\ LET actives == UNION {f.waitlist[h] : h \in expired} IN
          IF actives # {} THEN ScheduleFetches(Queued(expired), actives, timeoutArmed, asked)
                          ELSE NoFetches(f, timeoutArmed, asked)
  /\ UNCHANGED <<loopRuns, poolView, mail, up, messages, drops>>

\* What is missing goes back to the queue for the others; the request stays, as
\* its peer may still answer.
Expired(late) ==
  LET back(p) == IF p \in late THEN Missing(f.requests[p]) ELSE {}
      all == UNION {back(p) : p \in Peers}
  IN [f EXCEPT !.announced  = [h \in Hashes |-> IF h \in all THEN f.alternates[h] \ {f.fetching[h]} ELSE @[h]],
               !.announces  = [p \in Peers |-> @[p] \ back(p)],
               !.alternates = [h \in Hashes |-> IF h \in all THEN {} ELSE @[h]],
               !.fetching   = [h \in Hashes |-> IF h \in all THEN Nobody ELSE @[h]],
               !.requests   = [p \in Peers |-> IF p \in late THEN [@[p] EXCEPT !.hashes = <<>>] ELSE @[p]]]

\* case <-timeoutTrigger
TimeoutTrigger ==
  /\ loopRuns /\ timeoutArmed
  /\ \E late \in SUBSET Requesting(f) :
       LET m == Expired(late)
       IN ScheduleFetches(m, {p \in Peers : m.announces[p] # {}}, TRUE, asked)
  /\ UNCHANGED <<waitArmed, loopRuns, poolView, mail, up, messages, drops>>

\* Somebody else delivered what o was asked for.
Steals(p, direct, h) == f.fetching[h] # Nobody /\ (f.fetching[h] # p \/ ~direct)

\* All traces of the delivered hashes go.
Delivered(p, hashes, direct) ==
  LET waited == {h \in hashes : f.waitlist[h] # {}}
      rest == hashes \ waited
      Clear(map, S) == [h \in Hashes |-> IF h \in S THEN {} ELSE map[h]]
      stolen(q) == {h \in rest : Steals(p, direct, h) /\ f.fetching[h] = q}
  IN [f EXCEPT !.waitlist = Clear(@, waited), !.waittime = @ \ waited,
               !.waitslots = [q \in Peers |-> @[q] \ waited],
               !.announces = [q \in Peers |-> @[q] \ rest],
               !.announced = Clear(@, rest), !.alternates = Clear(@, rest),
               !.requests = [q \in Peers |-> IF stolen(q) = {} THEN @[q]
                                             ELSE [@[q] EXCEPT !.stolen = f.requests[q].stolen \cup stolen(q)]],
               !.fetching = [h \in Hashes |-> IF h \in rest THEN Nobody ELSE @[h]]]

\* The part of the request before the last hash delivered will not come from p;
\* all of it when nothing was delivered.
Cutoff(list, hashes) ==
  LET hits == {i \in DOMAIN list : list[i] \in hashes}
  IN IF hits = {} THEN Len(list) + 1 ELSE CHOOSE i \in hits : \A j \in hits : j <= i

\* What a reply lacks is queued again.
Answered(m, p, hashes) ==
  LET req == m.requests[p]
      open == Missing(req)
      lost == {req.hashes[i] : i \in 1..(Cutoff(req.hashes, hashes) - 1) \cap DOMAIN req.hashes}
                \cap (open \ hashes)
      others(h) == IF h \in lost THEN m.alternates[h] \ {p} ELSE m.alternates[h]
  IN [m EXCEPT !.requests[p] = Nobody,
               !.announces[p] = @ \ lost,
               !.announced = [h \in Hashes |-> IF h \in open \ hashes /\ others(h) # {} THEN others(h) ELSE @[h]],
               !.alternates = [h \in Hashes |-> IF h \in open THEN {} ELSE @[h]],
               !.fetching = [h \in Hashes |-> IF h \in open THEN Nobody ELSE @[h]]]

\* case delivery := <-f.cleanup
Cleanup(p) ==
  /\ loopRuns /\ mail[p] # Nobody /\ mail[p].kind \in {"reply", "broadcast"}
  /\ LET direct == mail[p].kind = "reply"
         m == Delivered(p, mail[p].hashes, direct)
         n == Answered(m, p, mail[p].hashes)
     IN IF direct /\ m.requests[p] # Nobody
        THEN ScheduleFetches(n, {q \in Peers : n.announces[q] # {}}, timeoutArmed, asked)
        ELSE NoFetches(m, timeoutArmed, asked)
  /\ mail' = [mail EXCEPT ![p] = Nobody]
  /\ UNCHANGED <<waitArmed, loopRuns, poolView, up, messages, drops>>

\* What was asked of p goes back to the queue if others have it; p is no origin of
\* what waits or is queued.  The alternates of other fetches keep it.
Dropped(p) ==
  LET open == IF f.requests[p] = Nobody THEN {} ELSE Missing(f.requests[p])
      back(h) == IF h \in open THEN f.alternates[h] ELSE f.announced[h]
  IN [f EXCEPT !.waitlist  = [h \in Hashes |-> IF h \in f.waitslots[p] THEN @[h] \ {p} ELSE @[h]],
               !.waittime  = @ \ {h \in f.waitslots[p] : f.waitlist[h] = {p}},
               !.waitslots[p] = {},
               !.announced = [h \in Hashes |-> IF h \in open \cup f.announces[p] THEN back(h) \ {p} ELSE @[h]],
               !.alternates = [h \in Hashes |-> IF h \in open THEN {} ELSE @[h]],
               !.fetching  = [h \in Hashes |-> IF h \in open THEN Nobody ELSE @[h]],
               !.requests[p] = Nobody,
               !.announces[p] = {}]

\* case drop := <-f.drop
DropPeer(p, sent) ==
  /\ waitArmed' = (waitArmed \/ (f.waitslots[p] # {} /\ Dropped(p).waittime # {}))
  /\ IF f.requests[p] # Nobody
     THEN LET m == Dropped(p)
          IN ScheduleFetches(m, {q \in Peers : m.announces[q] # {}}, TRUE, sent)
     ELSE NoFetches(Dropped(p), timeoutArmed, sent)

PeerDropped(p) ==
  /\ loopRuns /\ mail[p] # Nobody /\ mail[p].kind = "drop"
  /\ DropPeer(p, asked)
  /\ mail' = [mail EXCEPT ![p] = Nobody]
  /\ UNCHANGED <<loopRuns, poolView, up, messages, drops>>

\* The goroutine that sends a request fails and drops the peer: the connection is
\* gone, and the handler may not have noticed yet.
FetchFails(p) ==
  /\ loopRuns /\ asked[p] # Nobody
  /\ IF p \in up THEN drops < MaxDrops /\ drops' = drops + 1 ELSE UNCHANGED drops
  /\ DropPeer(p, [asked EXCEPT ![p] = Nobody])
  /\ UNCHANGED <<loopRuns, poolView, mail, up, messages>>

\* The request was sent, and the answer is lost with the connection.
AnswerLost(p) ==
  /\ p \notin up /\ asked[p] # Nobody
  /\ asked' = [asked EXCEPT ![p] = Nobody]
  /\ UNCHANGED <<maps, loopRuns, poolView, mail, up, messages, drops>>

\* Stop: the handlers and the loop return.
StopFetcher ==
  /\ loopRuns /\ loopRuns' = FALSE
  /\ mail' = [p \in Peers |-> Nobody]
  /\ UNCHANGED <<maps, poolView, asked, up, messages, drops>>

PeerStep(p) ==
  /\ loopRuns
  /\ \/ Notify(p) \/ Broadcast(p) \/ Reply(p) \/ Disconnect(p) \/ Reconnect(p)
     \/ FetchFails(p) \/ AnswerLost(p)
LoopStep == WaitTrigger \/ TimeoutTrigger
              \/ \E p \in Peers : Announced(p) \/ Cleanup(p) \/ PeerDropped(p)
FetcherNext == LoopStep \/ StopFetcher \/ \E p \in Peers : PeerStep(p)

FetcherSpec == FetcherInit /\ [][FetcherNext]_fetcherVars

-----------------------------------------------------------------------------
(* What the fetcher promises.                                              *)

FetcherTypeOK ==
  /\ f \in [waitlist : [Hashes -> SUBSET Peers], waittime : SUBSET Hashes,
            waitslots : [Peers -> SUBSET Hashes],
            announces : [Peers -> SUBSET Hashes], announced : [Hashes -> SUBSET Peers],
            fetching : [Hashes -> Peers \cup {Nobody}],
            requests : [Peers -> Request \cup {Nobody}],
            alternates : [Hashes -> SUBSET Peers]]
  /\ mail \in [Peers -> Message \cup {Nobody}]
  /\ asked \in [Peers -> [hashes : SUBSET Hashes] \cup {Nobody}]
  /\ known \subseteq Hashes /\ underpriced \subseteq Hashes /\ up \subseteq Peers

\* A hash is in one stage only, with its origins indexed both ways, whatever order
\* broadcasts, late replies, timeouts and drops come in: the loop panics when it
\* moves a hash to a stage that already has it.
OneStage ==
  \A h \in Hashes :
    /\ Cardinality({s \in {"wait", "queue", "fetch"} :
          CASE s = "wait"  -> f.waitlist[h] # {}
            [] s = "queue" -> f.announced[h] # {}
            [] s = "fetch" -> f.alternates[h] # {}}) <= 1
    /\ h \in f.waittime <=> f.waitlist[h] # {}
    /\ f.fetching[h] # Nobody <=> f.alternates[h] # {}
    /\ \A p \in Peers :
         /\ h \in f.waitslots[p] <=> p \in f.waitlist[h]
         /\ h \in f.announces[p] => p \in f.announced[h] \cup f.alternates[h]

\* A hash is fetched by exactly the peer whose request still misses it: a reply, a
\* timeout or a drop finds every hash it must give back, and no other (the reply
\* that comes after its timeout meets the request of another peer).
FetchedOnce ==
  \A h \in Hashes, p \in Peers :
    f.fetching[h] = p <=> f.requests[p] # Nobody /\ h \in Missing(f.requests[p])

\* No announcement is forgotten: a waiting hash has the wait timer ahead, a queued
\* one and an unexpired request the timeout timer, which schedules again.
WakeupAhead ==
  loopRuns => /\ f.waittime # {} => waitArmed
              /\ (\E h \in Hashes : f.announced[h] # {} \/ f.fetching[h] # Nobody) => timeoutArmed

\* An announced hash is at one place of the fetcher and on its way to the next.
FetcherSound == FetcherTypeOK /\ OneStage /\ FetchedOnce /\ WakeupAhead

\* Once a peer is dropped nothing names it until its next connection (the comment
\* at tx_fetcher.go:633: remove all traces of it).
NoTraceOfDropped ==
  loopRuns => \A p \in Peers \ up : mail[p] = Nobody =>
    \A h \in Hashes : p \notin f.waitlist[h] \cup f.announced[h] \cup f.alternates[h]
=============================================================================
