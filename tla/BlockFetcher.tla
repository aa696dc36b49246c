---------------------------- MODULE BlockFetcher ----------------------------
(***************************************************************************)
(* eth/fetcher: retrieves announced blocks and imports blocks in order.    *)
(*                                                                         *)
(* One loop owns all maps.  An announced hash waits to be broadcast, its   *)
(* header is asked of one announcer, then its body, and the block is       *)
(* queued.  Before each event headers that did not come are given up and   *)
(* what fits the chain is imported, each block in a goroutine that tells   *)
(* the loop when it is done.  Answers, timeouts, broadcasts and other      *)
(* imports come in any order.                                              *)
(*                                                                         *)
(* Times are abstracted: a timer that is set may fire, a request may       *)
(* expire.  Blocks are on one chain; a peer may announce a wrong number.   *)
(***************************************************************************)
EXTENDS Integers, FiniteSets

CONSTANTS LastBlock,          \* blocks are their numbers, 0 is known
          EmptyBlocks,        \* whose body is not asked for
          Announcers,
          HashLimit, BlockLimit, UncleDist, QueueDist, \* hashLimit, blockLimit, maxUncleDist, maxQueueDist
          MaxNotes, MaxInjects, MaxOthers, \* bounds
          NoAnnouncer

ASSUME BlockFetcherAssumption ==
  /\ LastBlock \in Nat \ {0} /\ EmptyBlocks \subseteq 1..LastBlock /\ NoAnnouncer \notin Announcers
  /\ HashLimit \in Nat /\ BlockLimit \in Nat /\ UncleDist \in Nat /\ QueueDist \in Nat

VARIABLES
  headersOnly, \* a light client
  imported,    \* the top of the local chain, or of headers
  announces,   \* counts by peer
  announced,   \* sets of notes by block
  fetching, fetched, completing, \* a note by block, or none
  headerTimer, bodyTimer,  \* set or not
  queues, queued,  \* counts by peer, and the peer of each queued block
  waiting,     \* the blocks in the queue
  importing,   \* goroutines, and how far
  asked,       \* requests under way: what, of whom, which
  loopAt,      \* at the head of the loop or at its select
  notes, injects, others

fetchMaps == <<announces, announced, fetching, fetched, completing>>
queueMaps == <<queues, queued, waiting>>
blockVars == <<headersOnly, imported, fetchMaps, headerTimer, bodyTimer, queueMaps, importing, asked, loopAt, notes, injects, others>>

BlockIds == 1..LastBlock
NoNote == [peer |-> NoAnnouncer, number |-> 0]
Some(map) == {b \in BlockIds : map[b] # NoNote}
Have(b) == b <= imported
TooFar(number) == number < imported - UncleDist \/ number > imported + QueueDist

-----------------------------------------------------------------------------
(* Bookkeeping.                                                            *)

\* What names a peer: notes that wait, all different, and requests.
NotesOf(B, p) == Cardinality({x \in UNION {announced[b] : b \in B} : x.peer = p})
HeldOf(map, B, p) == Cardinality({b \in B : map[b].peer = p})
Traces(B, p) == NotesOf(B, p) + HeldOf(fetching, B, p) + HeldOf(fetched, B, p) + HeldOf(completing, B, p)

\* The counts go down for each trace of a block, not below 0.
Uncounted(B) == [p \in Announcers |-> IF announces[p] > Traces(B, p) THEN announces[p] - Traces(B, p) ELSE 0]

Without(map, B) == [b \in BlockIds |-> IF b \in B THEN NoNote ELSE map[b]]

\* forgetHash
Forget(B) ==
  /\ announces' = Uncounted(B)
  /\ announced' = [b \in BlockIds |-> IF b \in B THEN {} ELSE announced[b]]
  /\ fetching' = Without(fetching, B) /\ fetched' = Without(fetched, B) /\ completing' = Without(completing, B)

\* forgetBlock
Unqueue(B) ==
  /\ queues' = [p \in Announcers |-> queues[p] - Cardinality({b \in B : queued[b] = p})]
  /\ queued' = [b \in BlockIds |-> IF b \in B THEN NoAnnouncer ELSE queued[b]]

\* enqueue: of the new blocks of a peer those that are near, as many as it may have.
Allowed(B, p, Q) ==
  LET near == {b \in B : ~TooFar(b)}
      room == BlockLimit - queues[p]
  IN Q \subseteq near /\ Cardinality(Q) = (IF Cardinality(near) < room THEN Cardinality(near) ELSE room)
Enqueue(Q, p) ==
  /\ queued' = [b \in BlockIds |-> IF b \in Q THEN p ELSE queued[b]]
  /\ queues' = [queues EXCEPT ![p] = @ + Cardinality(Q)]
  /\ waiting' = waiting \cup Q

Back == loopAt' = "head"
Steady == UNCHANGED <<headersOnly, imported, others>>

-----------------------------------------------------------------------------
(* The head of the loop.                                                   *)

\* mutant: the entry of a block that is imported is dropped at once
ForgottenWhen(B, started) == B

\* Only those that are not imported.
ForgottenBlocks(B, started) == B \ started

\* Headers not answered in time are forgotten, and of the queue all blocks that are not
\* above the next are imported, or dropped if old or known.
LoopTop ==
  /\ loopAt = "head" /\ loopAt' = "select"
  /\ \E late \in SUBSET Some(fetching) : Forget(late)
  /\ LET fit == {b \in waiting : b <= imported + 1}
         fresh == {b \in fit : b + UncleDist >= imported /\ ~Have(b)}
     IN /\ waiting' = waiting \ fit
        /\ Unqueue(ForgottenBlocks(fit, fresh))
        /\ importing' = importing \cup {[block |-> b, peer |-> queued[b], at |-> "run"] : b \in fresh}
  /\ Steady /\ UNCHANGED <<headerTimer, bodyTimer, asked, notes, injects>>

\* The goroutine: parent, header and import; it fails or not.
ImportRuns(x) ==
  /\ x \in importing /\ x.at = "run"
  /\ \/ imported' = IF Have(x.block - 1) /\ ~Have(x.block) THEN x.block ELSE imported
     \/ UNCHANGED imported
  /\ importing' = (importing \ {x}) \cup {[x EXCEPT !.at = "done"]}
  /\ UNCHANGED <<headersOnly, fetchMaps, headerTimer, bodyTimer, queueMaps, asked, loopAt, notes, injects, others>>

\* done
ImportDone(x) ==
  /\ loopAt = "select" /\ x \in importing /\ x.at = "done"
  /\ importing' = importing \ {x}
  /\ Forget({x.block}) /\ Unqueue({x.block})
  /\ Back /\ Steady /\ UNCHANGED <<headerTimer, bodyTimer, waiting, asked, notes, injects>>

\* Another part of the node imports the next block.
ImportedElsewhere ==
  /\ others < MaxOthers /\ imported < LastBlock
  /\ imported' = imported + 1 /\ others' = others + 1
  /\ UNCHANGED <<headersOnly, fetchMaps, headerTimer, bodyTimer, queueMaps, importing, asked, loopAt, notes, injects>>

-----------------------------------------------------------------------------
(* Announcements.                                                          *)

\* Useless notes only run the loop again.
Notify(b, p, number) ==
  /\ loopAt = "select" /\ notes < MaxNotes
  /\ notes' = notes + 1
  /\ LET useful == /\ announces[p] + 1 <= HashLimit /\ number # 0 /\ ~TooFar(number)
                   /\ fetching[b] = NoNote /\ completing[b] = NoNote
     IN IF useful
        THEN /\ announces' = [announces EXCEPT ![p] = @ + 1]
             /\ announced' = [announced EXCEPT ![b] = @ \cup {[peer |-> p, number |-> number, note |-> notes]}]
             /\ headerTimer' = (headerTimer \/ Cardinality({x \in BlockIds : announced'[x] # {}}) = 1)
        ELSE UNCHANGED <<announces, announced, headerTimer>>
  /\ Back /\ Steady /\ UNCHANGED <<fetching, fetched, completing, bodyTimer, queueMaps, importing, asked, injects>>

\* Enqueue; light clients drop it.
Inject(b, p) ==
  /\ loopAt = "select" /\ injects < MaxInjects /\ injects' = injects + 1
  /\ \/ headersOnly /\ UNCHANGED <<fetchMaps, queueMaps>>
     \/ ~headersOnly /\ \E Q \in SUBSET {b} :
          /\ Allowed({b}, p, Q)
          /\ Enqueue({x \in Q : queued[x] = NoAnnouncer}, p)
          /\ IF Q = {} THEN Forget({b}) ELSE UNCHANGED fetchMaps
  /\ Back /\ Steady /\ UNCHANGED <<headerTimer, bodyTimer, importing, asked, notes>>

\* fetchTimer: of each hash whose first note is old one announcer is asked, the others forgotten.
FetchHeaders ==
  /\ loopAt = "select" /\ headerTimer
  /\ \E due \in SUBSET {b \in BlockIds : announced[b] # {}} :
     \E pick \in [due -> UNION {announced[b] : b \in due}] :
       LET need == {b \in due : ~Have(b)}
           Note(b) == [peer |-> pick[b].peer, number |-> pick[b].number]
       IN /\ \A b \in due : pick[b] \in announced[b]
          /\ announces' = Uncounted(due)
          /\ announced' = [b \in BlockIds |-> IF b \in due THEN {} ELSE announced[b]]
          /\ fetching' = [b \in BlockIds |-> IF b \in need THEN Note(b) ELSE IF b \in due THEN NoNote ELSE fetching[b]]
          /\ fetched' = Without(fetched, due) /\ completing' = Without(completing, due)
          /\ asked' = asked \cup {[what |-> "header", peer |-> pick[b].peer, blocks |-> {b}] : b \in need}
  /\ headerTimer' = \E b \in BlockIds : announced'[b] # {}
  /\ Back /\ Steady /\ UNCHANGED <<bodyTimer, queueMaps, importing, notes, injects>>

\* completeTimer: all bodies, of each peer at once.
FetchBodies ==
  /\ loopAt = "select" /\ bodyTimer
  /\ LET due == Some(fetched)
         need == {b \in due : ~Have(b)}
     IN /\ announces' = Uncounted(due)
        /\ announced' = [b \in BlockIds |-> IF b \in due THEN {} ELSE announced[b]]
        /\ fetching' = Without(fetching, due) /\ fetched' = Without(fetched, due)
        /\ completing' = [b \in BlockIds |-> IF b \in need THEN fetched[b] ELSE IF b \in due THEN NoNote ELSE completing[b]]
        /\ asked' = asked \cup {[what |-> "body", peer |-> p, blocks |-> {b \in need : fetched[b].peer = p}] :
                                  p \in {fetched[b].peer : b \in need}}
  /\ bodyTimer' = FALSE
  /\ Back /\ Steady /\ UNCHANGED <<headerTimer, queueMaps, importing, notes, injects>>

\* The request fails, or times out and the peer is dropped.
FetchFails(r) ==
  /\ r \in asked /\ asked' = asked \ {r}
  /\ UNCHANGED <<headersOnly, imported, fetchMaps, headerTimer, bodyTimer, queueMaps, importing, loopAt, notes, injects, others>>

-----------------------------------------------------------------------------
(* Answers.                                                                *)

Expected(b, p) == fetching[b].peer = p /\ fetched[b] = NoNote /\ completing[b] = NoNote /\ queued[b] = NoAnnouncer

\* headerFilter: a header that is not expected goes back to the caller.  A block without
\* body is complete; if it is refused both notes are counted down.
HeaderComes(r) ==
  /\ loopAt = "select" /\ r \in asked /\ r.what = "header" /\ asked' = asked \ {r}
  /\ \E b \in r.blocks, Q \in SUBSET r.blocks :
       LET note == fetching[b]
           wanted == Expected(b, r.peer) /\ note.number = b /\ ~Have(b)
       IN /\ Allowed(r.blocks, r.peer, Q)
          /\ \/ /\ ~Expected(b, r.peer)
                /\ UNCHANGED <<fetchMaps, queueMaps, bodyTimer>>
             \/ /\ Expected(b, r.peer) /\ ~wanted
                /\ Forget({b}) /\ UNCHANGED <<queueMaps, bodyTimer>>
             \/ /\ wanted /\ headersOnly
                /\ Forget({b}) /\ Enqueue(Q, r.peer) /\ UNCHANGED bodyTimer
             \/ /\ wanted /\ ~headersOnly /\ b \in EmptyBlocks /\ Q # {}
                /\ completing' = [completing EXCEPT ![b] = note] /\ Enqueue(Q, r.peer)
                /\ UNCHANGED <<announces, announced, fetching, fetched, bodyTimer>>
             \/ /\ wanted /\ ~headersOnly /\ b \in EmptyBlocks /\ Q = {}
                /\ announces' = [Uncounted({b}) EXCEPT ![r.peer] = IF @ > 0 THEN @ - 1 ELSE 0]
                /\ announced' = [announced EXCEPT ![b] = {}] /\ fetching' = Without(fetching, {b})
                /\ UNCHANGED <<fetched, completing, queueMaps, bodyTimer>>
             \/ /\ wanted /\ ~headersOnly /\ b \notin EmptyBlocks
                /\ fetched' = [fetched EXCEPT ![b] = note]
                /\ bodyTimer' = (bodyTimer \/ Cardinality(Some(fetched')) = 1)
                /\ UNCHANGED <<announces, announced, fetching, completing, queueMaps>>
  /\ Back /\ Steady /\ UNCHANGED <<headerTimer, importing, notes, injects>>

\* bodyFilter: some of the bodies asked for.
BodiesCome(r) ==
  /\ loopAt = "select" /\ r \in asked /\ r.what = "body" /\ asked' = asked \ {r}
  /\ \E got \in SUBSET r.blocks :
       LET matched == {b \in got : completing[b].peer = r.peer /\ queued[b] = NoAnnouncer}
           new == {b \in matched : ~Have(b)}
       IN \E Q \in SUBSET new : Allowed(new, r.peer, Q) /\ Enqueue(Q, r.peer) /\ Forget(matched \ Q)
  /\ Back /\ Steady /\ UNCHANGED <<headerTimer, bodyTimer, importing, notes, injects>>

-----------------------------------------------------------------------------
BlockFetcherInit ==
  /\ headersOnly \in BOOLEAN /\ imported = 0
  /\ announces = [p \in Announcers |-> 0] /\ announced = [b \in BlockIds |-> {}]
  /\ fetching = [b \in BlockIds |-> NoNote] /\ fetched = fetching /\ completing = fetching
  /\ headerTimer = FALSE /\ bodyTimer = FALSE
  /\ queues = [p \in Announcers |-> 0] /\ queued = [b \in BlockIds |-> NoAnnouncer] /\ waiting = {}
  /\ importing = {} /\ asked = {} /\ loopAt = "head" /\ notes = 0 /\ injects = 0 /\ others = 0

BlockFetcherNext ==
  \/ LoopTop \/ ImportedElsewhere \/ FetchHeaders \/ FetchBodies
  \/ \E x \in importing : ImportRuns(x) \/ ImportDone(x)
  \/ \E b \in BlockIds, p \in Announcers : Inject(b, p) \/ \E number \in {0, b, LastBlock} : Notify(b, p, number)
  \/ \E r \in asked : FetchFails(r) \/ HeaderComes(r) \/ BodiesCome(r)

BlockFetcherSpec == BlockFetcherInit /\ [][BlockFetcherNext]_blockVars

-----------------------------------------------------------------------------
(* What the fetcher promises.                                              *)

\* enqueue, loop and forgetBlock: a block is queued once, from its enqueue to the end of
\* its import, so that no two goroutines import it, and the counts that limit a peer
\* are those of its blocks: a peer gets back what it used.
QueuedOnce ==
  /\ \A b \in BlockIds : queued[b] # NoAnnouncer <=> b \in waiting \/ \E x \in importing : x.block = b
  /\ \A x \in importing : x.block \notin waiting /\ \A y \in importing : y.block = x.block => y = x
  /\ \A p \in Announcers : queues[p] = Cardinality({b \in BlockIds : queued[b] = p})

\* rescheduleFetch, rescheduleComplete: what waits for a timer has one set; and nothing
\* is counted for a peer of which there is no trace.
NothingForgot ==
  /\ (\E b \in BlockIds : announced[b] # {}) => headerTimer
  /\ Some(fetched) # {} => bodyTimer
  /\ \A p \in Announcers : announces[p] <= Traces(BlockIds, p)

BlocksSound == QueuedOnce /\ NothingForgot

\* Not so: the same note is counted down twice, so a peer may have more announced.
HashesLimited == \A p \in Announcers : Cardinality({b \in BlockIds : \E x \in announced[b] : x.peer = p}) <= HashLimit

\* Not so: a body that does not come is waited for for ever, and its hash ignored.
BodiesAskedFor ==
  \A b \in Some(completing) : queued[b] # NoAnnouncer \/ \E r \in asked : r.what = "body" /\ b \in r.blocks
=============================================================================
