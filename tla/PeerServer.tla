----------------------------- MODULE PeerServer -----------------------------
(***************************************************************************)
(* p2p: the main loop of the Server with its peers, the dialScheduler that *)
(* creates connections, the goroutines that set connections up and run     *)
(* peers, and RemovePeer, which waits for an event of the feed.            *)
(*                                                                         *)
(* A connection comes to the main loop twice, after each handshake, and in *)
(* between others come and go.  The scheduler hears of peers from the main *)
(* loop and of finished dials from their goroutines, and has to know at    *)
(* all times which static nodes can be dialed.                             *)
(*                                                                         *)
(* Handshakes and dials end in any way.  Time is abstracted: history       *)
(* expires from its oldest entry.  The feed of peer events (Feed) has      *)
(* RemovePeer for its only subscriber.                                     *)
(***************************************************************************)
EXTENDS Integers, Sequences, FiniteSets

CONSTANTS Nodes, TrustedNodes,
          MaxPeers, MaxInbound, MaxDialed,   \* of the server
          MaxActiveDials,
          MaxConns, MaxCommands, \* bounds
          Nobody

ASSUME PeerAssumption ==
  /\ MaxInbound \in Int /\ MaxDialed \in Int /\ MaxPeers = MaxInbound + MaxDialed /\ MaxActiveDials \in Int
  /\ TrustedNodes \subseteq Nodes /\ Nobody \notin Nodes

VARIABLES
  conns,        \* connections, in the order they came
  srvPeers, inboundCount, trusted,  \* the main loop
  mainAt,       \* the connection it disconnects, or 0
  static, staticPool, poolIndex,    \* dialScheduler
  tasks, dialing, dialHistory, dsPeers, dialPeers,
  remover,      \* RemovePeer: its node, whether it waits, its channel
  commands

mainVars == <<srvPeers, inboundCount, trusted, mainAt>>
schedVars == <<static, staticPool, poolIndex, tasks, dialing, dialHistory, dsPeers, dialPeers>>
peerVars == <<conns, mainVars, schedVars, remover, commands>>

Ids == DOMAIN conns
Live == {"launched", "running", "ended"}
Dialed(flag) == flag \in {"dyn", "static"}

-----------------------------------------------------------------------------
(* dialScheduler.                                                          *)

InHistory(n) == \E i \in DOMAIN dialHistory : dialHistory[i] = n

\* checkDial
Dialable(n) == n \notin dialing /\ n \notin dsPeers /\ ~InHistory(n)

FreeDialSlots ==
  LET slots == (MaxDialed - dialPeers) * 2
  IN (IF slots > MaxActiveDials THEN MaxActiveDials ELSE slots) - Cardinality(dialing)

AddToStaticPool(n) ==
  /\ staticPool' = Append(staticPool, n)
  /\ poolIndex' = [poolIndex EXCEPT ![n] = Len(staticPool) + 1]

\* The last takes the place of the one removed.
RemoveFromStaticPool(i) ==
  LET end == Len(staticPool)
      n == staticPool[i]
      final == staticPool[end]
  IN /\ staticPool' = SubSeq([staticPool EXCEPT ![i] = final], 1, end - 1)
     /\ poolIndex' = [poolIndex EXCEPT ![final] = i, ![n] = 0]

KeepPool == UNCHANGED <<staticPool, poolIndex>>
LeavePool(n) == IF n \in static /\ poolIndex[n] > 0 THEN RemoveFromStaticPool(poolIndex[n]) ELSE KeepPool

\* updateStaticPool, once dialing, peers and history have changed
Returns(n) == n \in static /\ poolIndex[n] = 0 /\ n \notin dialing' /\ n \notin dsPeers' /\ (\A i \in DOMAIN dialHistory' : dialHistory'[i] # n)
UpdateStaticPool(n) == IF Returns(n) THEN AddToStaticPool(n) ELSE KeepPool

StartDial(n, flag) ==
  /\ dialHistory' = Append(dialHistory, n)
  /\ dialing' = dialing \cup {n}
  /\ tasks' = tasks \cup {[node |-> n, flag |-> flag, at |-> "run"]}

\* mutant: the loop waits for an event before static dials took the slots
DrainedAnyway == TRUE

\* The loop waits for an event when the slots are taken or the pool is empty.
Drained == FreeDialSlots <= 0 \/ staticPool = <<>>

ServerKept == UNCHANGED <<conns, mainVars, remover, commands>>

\* The head of the loop: static dials first, as long as slots are free.
StartStatic ==
  /\ FreeDialSlots > 0
  /\ \E i \in DOMAIN staticPool : StartDial(staticPool[i], "static") /\ RemoveFromStaticPool(i)
  /\ UNCHANGED <<static, dsPeers, dialPeers>> /\ ServerKept

\* A node from discovery; the channel is open only if slots are left.
Candidate(n) ==
  /\ Drained /\ FreeDialSlots > 0 /\ Dialable(n)
  /\ StartDial(n, "dyn")
  /\ KeepPool
  /\ UNCHANGED <<static, dsPeers, dialPeers>> /\ ServerKept

DialDone(task) ==
  /\ Drained /\ task \in tasks /\ task.at = "done"
  /\ tasks' = tasks \ {task} /\ dialing' = dialing \ {task.node}
  /\ UNCHANGED <<static, dialHistory, dsPeers, dialPeers>>
  /\ UpdateStaticPool(task.node)
  /\ ServerKept

ExpireHistory ==
  /\ Drained /\ dialHistory # <<>>
  /\ dialHistory' = Tail(dialHistory)
  /\ UNCHANGED <<static, tasks, dialing, dsPeers, dialPeers>>
  /\ UpdateStaticPool(Head(dialHistory))
  /\ ServerKept

\* AddPeer
AddStatic(n) ==
  /\ Drained /\ n \notin static
  /\ static' = static \cup {n}
  /\ IF Dialable(n) THEN AddToStaticPool(n) ELSE KeepPool
  /\ UNCHANGED <<tasks, dialing, dialHistory, dsPeers, dialPeers>> /\ ServerKept

-----------------------------------------------------------------------------
(* Connections.                                                            *)

Conn(n, flag, at) == [node |-> n, flag |-> flag, trusted |-> FALSE, at |-> at]
Closed == Conn(Nobody, "none", "gone")

\* One task at a time passes the dial or not; SetupConn follows.
Connect(task) ==
  /\ task \in tasks /\ task.at = "run"
  /\ \/ /\ tasks' = (tasks \ {task}) \cup {[task EXCEPT !.at = "done"]} /\ UNCHANGED conns
     \/ /\ Len(conns) < MaxConns
        /\ conns' = Append(conns, Conn(task.node, task.flag, "encrypted"))
        /\ tasks' = (tasks \ {task}) \cup {[task EXCEPT !.at = "setup"]}
  /\ UNCHANGED <<mainVars, static, staticPool, poolIndex, dialing, dialHistory, dsPeers, dialPeers, remover, commands>>

Inbound(n) ==
  /\ Len(conns) < MaxConns
  /\ conns' = Append(conns, Conn(n, "inbound", "encrypted"))
  /\ UNCHANGED <<mainVars, schedVars, remover, commands>>

\* SetupConn returns to the dial task it came from.
Returned(i) ==
  LET c == conns[i]
      task == [node |-> c.node, flag |-> c.flag, at |-> "setup"]
  IN IF Dialed(c.flag) THEN (tasks \ {task}) \cup {[task EXCEPT !.at = "done"]} ELSE tasks

\* postHandshakeChecks
Refused(c, isTrusted) ==
  \/ ~isTrusted /\ \/ Cardinality({n \in Nodes : srvPeers[n] # 0}) >= MaxPeers
                   \/ c.flag = "inbound" /\ inboundCount >= MaxInbound
  \/ srvPeers[c.node] # 0

\* The trusted flag is set at the first checkpoint only.
PostHandshake(i) ==
  /\ mainAt = 0 /\ conns[i].at = "encrypted"
  /\ LET c == conns[i]
         isTrusted == c.node \in trusted
     IN IF Refused(c, isTrusted)
        THEN conns' = [conns EXCEPT ![i] = Closed] /\ tasks' = Returned(i)
        ELSE conns' = [conns EXCEPT ![i] = [@ EXCEPT !.at = "checked", !.trusted = isTrusted]] /\ UNCHANGED tasks
  /\ UNCHANGED <<mainVars, static, staticPool, poolIndex, dialing, dialHistory, dsPeers, dialPeers, remover, commands>>

HandshakeFails(i) ==
  /\ conns[i].at \in {"encrypted", "checked"}
  /\ conns' = [conns EXCEPT ![i] = Closed] /\ tasks' = Returned(i)
  /\ UNCHANGED <<mainVars, static, staticPool, poolIndex, dialing, dialHistory, dsPeers, dialPeers, remover, commands>>

\* addPeerChecks: the peers may have changed since.
RefusedNow(c) == Refused(c, c.trusted)

\* The peer is launched and the scheduler told.
AddPeer(i) ==
  /\ mainAt = 0 /\ conns[i].at = "checked" /\ Drained
  /\ LET c == conns[i]
     IN IF RefusedNow(c)
        THEN /\ conns' = [conns EXCEPT ![i] = Closed] /\ tasks' = Returned(i)
             /\ UNCHANGED <<mainVars, dsPeers, dialPeers>> /\ KeepPool
        ELSE /\ conns' = [conns EXCEPT ![i] = [@ EXCEPT !.at = "launched"]] /\ tasks' = Returned(i)
             /\ srvPeers' = [srvPeers EXCEPT ![c.node] = i]
             /\ inboundCount' = IF c.flag = "inbound" THEN inboundCount + 1 ELSE inboundCount
             /\ dsPeers' = dsPeers \cup {c.node}
             /\ dialPeers' = IF Dialed(c.flag) THEN dialPeers + 1 ELSE dialPeers
             /\ LeavePool(c.node)
             /\ UNCHANGED <<trusted, mainAt>>
  /\ UNCHANGED <<static, dialing, dialHistory, remover, commands>>

\* delpeer
DelPeer(i) ==
  /\ mainAt = 0 /\ conns[i].at = "ended" /\ Drained
  /\ LET c == conns[i]
     IN /\ conns' = [conns EXCEPT ![i] = [@ EXCEPT !.at = "dropping"]]
        /\ srvPeers' = [srvPeers EXCEPT ![c.node] = 0]
        /\ inboundCount' = IF c.flag = "inbound" THEN inboundCount - 1 ELSE inboundCount
        /\ dsPeers' = dsPeers \ {c.node}
        /\ dialPeers' = IF Dialed(c.flag) THEN dialPeers - 1 ELSE dialPeers
        /\ UNCHANGED <<static, dialing, dialHistory>>
        /\ UpdateStaticPool(c.node)
  /\ UNCHANGED <<trusted, mainAt, tasks, remover, commands>>

SetTrusted(n) ==
  /\ mainAt = 0 /\ commands < MaxCommands /\ commands' = commands + 1
  /\ \/ n \notin trusted /\ trusted' = trusted \cup {n}
     \/ n \in trusted /\ trusted' = trusted \ {n}
  /\ conns' = IF srvPeers[n] # 0 THEN [conns EXCEPT ![srvPeers[n]] = [@ EXCEPT !.trusted = n \in trusted']] ELSE conns
  /\ UNCHANGED <<srvPeers, inboundCount, mainAt, schedVars, remover>>

-----------------------------------------------------------------------------
(* Peers and their events.                                                 *)

\* A Send of the feed waits for the channel of RemovePeer.
Sent(kind, n) ==
  \/ ~remover.subscribed /\ UNCHANGED remover
  \/ remover.subscribed /\ remover.ch = <<>> /\ remover' = [remover EXCEPT !.ch = <<[kind |-> kind, node |-> n]>>]

\* runPeer: the event first, then run, then the main loop, then the event.
SendAdd(i) ==
  /\ conns[i].at = "launched" /\ Sent("add", conns[i].node)
  /\ conns' = [conns EXCEPT ![i] = [@ EXCEPT !.at = "running"]]
  /\ UNCHANGED <<mainVars, schedVars, commands>>

PeerEnds(i) ==
  /\ conns[i].at = "running"
  /\ conns' = [conns EXCEPT ![i] = [@ EXCEPT !.at = "ended"]]
  /\ UNCHANGED <<mainVars, schedVars, remover, commands>>

SendDrop(i) ==
  /\ conns[i].at = "dropping" /\ Sent("drop", conns[i].node)
  /\ conns' = [conns EXCEPT ![i] = Closed]
  /\ UNCHANGED <<mainVars, schedVars, commands>>

-----------------------------------------------------------------------------
(* RemovePeer.                                                             *)

NoRemover == [node |-> Nobody, subscribed |-> FALSE, ch |-> <<>>]

\* Its function runs on the main loop: no longer static, and the peer disconnected.
RemovePeer(n) ==
  /\ mainAt = 0 /\ Drained /\ remover.node = Nobody /\ commands < MaxCommands
  /\ commands' = commands + 1
  /\ static' = static \ {n} /\ LeavePool(n)
  /\ mainAt' = srvPeers[n]
  /\ remover' = IF srvPeers[n] # 0 THEN [node |-> n, subscribed |-> TRUE, ch |-> <<>>] ELSE NoRemover
  /\ UNCHANGED <<conns, srvPeers, inboundCount, trusted, tasks, dialing, dialHistory, dsPeers, dialPeers>>

\* Disconnect: run takes the reason, or it is over.
Disconnected ==
  /\ mainAt # 0 /\ conns[mainAt].at \in {"running", "ended"}
  /\ conns' = [conns EXCEPT ![mainAt] = [@ EXCEPT !.at = "ended"]]
  /\ mainAt' = 0
  /\ UNCHANGED <<srvPeers, inboundCount, trusted, schedVars, remover, commands>>

\* The caller reads once the main loop has let it go, until its node was dropped.
ReadEvent ==
  /\ mainAt = 0 /\ remover.ch # <<>>
  /\ LET ev == Head(remover.ch)
     IN remover' = IF ev.kind = "drop" /\ ev.node = remover.node THEN NoRemover ELSE [remover EXCEPT !.ch = <<>>]
  /\ UNCHANGED <<conns, mainVars, schedVars, commands>>

-----------------------------------------------------------------------------
PeerInit ==
  /\ conns = <<>> /\ srvPeers = [n \in Nodes |-> 0] /\ inboundCount = 0 /\ trusted = TrustedNodes /\ mainAt = 0
  /\ static = {} /\ staticPool = <<>> /\ poolIndex = [n \in Nodes |-> 0]
  /\ tasks = {} /\ dialing = {} /\ dialHistory = <<>> /\ dsPeers = {} /\ dialPeers = 0
  /\ remover = NoRemover /\ commands = 0

PeerNext ==
  \/ StartStatic \/ ExpireHistory \/ Disconnected \/ ReadEvent
  \/ \E n \in Nodes : Candidate(n) \/ AddStatic(n) \/ Inbound(n) \/ SetTrusted(n) \/ RemovePeer(n)
  \/ \E task \in tasks : DialDone(task) \/ Connect(task)
  \/ \E i \in Ids : PostHandshake(i) \/ HandshakeFails(i) \/ AddPeer(i) \/ DelPeer(i)
                    \/ SendAdd(i) \/ PeerEnds(i) \/ SendDrop(i)

PeerSpec == PeerInit /\ [][PeerNext]_peerVars

-----------------------------------------------------------------------------
(* What the server promises.                                               *)

\* A node has at most one connection that runs, the one in peers, whatever was dialed
\* or accepted at the same time, and the counts by which slots are given are exact, in
\* the main loop and in the scheduler.
PeersCounted ==
  LET Counted(flags) == {n \in Nodes : srvPeers[n] # 0 /\ conns[srvPeers[n]].flag \in flags}
  IN /\ \A n \in Nodes : {i \in Ids : conns[i].node = n /\ conns[i].at \in Live} = {srvPeers[n]} \ {0}
     /\ inboundCount = Cardinality(Counted({"inbound"}))
     /\ dialPeers = Cardinality(Counted({"dyn", "static"}))
     /\ dsPeers = {n \in Nodes : srvPeers[n] # 0}

\* Between events a static node is in the pool exactly if it may be dialed, at the place
\* it remembers, and no node is dialed twice at a time, though a dial from discovery
\* does not look into the pool.
DialsTracked ==
  /\ dialing = {task.node : task \in tasks} /\ Cardinality(tasks) = Cardinality(dialing)
  /\ \A n \in static : Dialable(n) <=> poolIndex[n] > 0
  /\ \A i \in DOMAIN staticPool : staticPool[i] \in static /\ poolIndex[staticPool[i]] = i
  /\ \A n \in static : poolIndex[n] > 0 => poolIndex[n] \in DOMAIN staticPool

PeersSound == PeersCounted /\ DialsTracked

\* Not so: the main loop, which waits for runPeer to take the reason, can be waited for
\* by it through the channel of the feed.
MainGoesOn == mainAt # 0 => ~(conns[mainAt].at = "launched" /\ remover.ch # <<>>)

\* Not so: the event that ends RemovePeer may be of an earlier connection.
RemovedWhenToldSo ==
  [][ReadEvent /\ remover'.node = Nobody => \A i \in Ids : conns[i].node = remover.node => conns[i].at \notin Live]_peerVars
=============================================================================
