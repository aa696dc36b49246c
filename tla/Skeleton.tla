------------------------------ MODULE Skeleton ------------------------------
(***************************************************************************)
(* eth/downloader/skeleton.go and beaconsync.go: after the merge a head is *)
(* told by the consensus client, and its ancestors are fetched backwards   *)
(* from any peers until a local block is met.  Then the backfiller fetches *)
(* and imports the blocks upwards.                                         *)
(*                                                                         *)
(* The headers are stored by number; what was fetched in cycles that were  *)
(* interrupted is kept as a list of subchains, the newest first.  One loop *)
(* owns the list and writes it with the headers in one batch.  The         *)
(* backfiller is another thread that reads the database, and the engine    *)
(* API imports blocks on its own.                                          *)
(*                                                                         *)
(* A full sync.  The backfiller reads and imports a block in one step.     *)
(***************************************************************************)
EXTENDS Naturals, Sequences, FiniteSets, FiniteSetsExt
LOCAL INSTANCE SequencesExt

CONSTANTS SkBlocks, SkGenesis, SkParent, SkNumber, \* a tree of blocks
          LocalHead,                      \* the head of the local chain at first
          SkPeers,
          NoHeader, NoPeer,
          RequestHeaders, ScratchHeaders, \* requestHeaders divides scratchHeaders
          MaxTold, MaxPayloads, MaxFaults, MaxStops \* bounds

VARIABLES hdr,      \* skeleton headers by number
          chains,   \* the progress, in memory and in the database
          sk,       \* the cycle of the loop
          filler,   \* the backfiller
          local, fast, \* blocks with their receipts, CurrentFastBlock
          up, leaving, \* connected peers, peers being dropped
          odd,      \* what spoiled the subchains, some time
          budget    \* bounds used up

skVars == <<hdr, chains, sk, filler, local, fast, up, leaving, odd, budget>>

SkHeights == {SkNumber[b] : b \in SkBlocks}
SkLine[b \in SkBlocks] == IF b = SkGenesis THEN {b} ELSE {b} \cup SkLine[SkParent[b]]
Tasks == 1..(ScratchHeaders \div RequestHeaders)
Smaller(m, n) == IF m < n THEN m ELSE n
Subchain(h) == [head |-> SkNumber[h], tail |-> SkNumber[h], next |-> SkParent[h]]

\* No cycle runs: the loop waits in startup.
NoCycle == [on |-> FALSE, linked |-> FALSE, head |-> 0,
            scratch |-> [i \in 1..ScratchHeaders |-> NoHeader], owners |-> [t \in Tasks |-> NoPeer],
            idle |-> {}, asked |-> {}, late |-> {}]

SkeletonInit ==
  /\ hdr = [n \in SkHeights |-> NoHeader] /\ chains = <<>> /\ sk = NoCycle
  /\ filler = [at |-> "off", filled |-> NoHeader, from |-> 0, to |-> 0]
  /\ local = SkLine[LocalHead] /\ fast = LocalHead
  /\ up = SkPeers /\ leaving = {} /\ odd = {}
  /\ budget = [told |-> 0, payloads |-> 0, faults |-> 0, stops |-> 0]

-----------------------------------------------------------------------------
(* The subchains: c has the list, the headers and what was odd about them. *)

Progress == [chains |-> chains, hdr |-> hdr, odd |-> odd]

\* Mutant of InitSync: what the new head overwrites stays listed.
InitSyncUntrimmed(c, h) ==
  [c EXCEPT !.chains = <<Subchain(h)>> \o c.chains, !.hdr[SkNumber[h]] = h]

\* initSync: what the new head overwrites is trimmed.
InitSync(c, h) ==
  LET n == SkNumber[h]
      first == Min({i \in 1..Len(c.chains) : c.chains[i].tail < n} \cup {Len(c.chains) + 1})
      kept == SubSeq(c.chains, first, Len(c.chains))
      cut == IF kept = <<>> THEN kept ELSE [kept EXCEPT ![1].head = Smaller(@, n - 1)]
      extended == cut # <<>> /\ cut[1].head = n - 1 /\ c.hdr[n - 1] = SkParent[h]
  IN [c EXCEPT !.chains = IF extended THEN [cut EXCEPT ![1].head = n] ELSE <<Subchain(h)>> \o cut,
               !.hdr[n] = h]

\* processNewHead: the head that cannot be integrated asks for a reorg.
Reorgs(c, h) ==
  LET n == SkNumber[h]
      last == c.chains[1]
  IN IF last.tail >= n THEN last.head # last.tail \/ c.hdr[n] # h
     ELSE last.head + 1 < n \/ c.hdr[n - 1] # SkParent[h]
NewHead(c, h) ==
  IF c.chains[1].tail >= SkNumber[h] THEN c
  ELSE [c EXCEPT !.hdr[SkNumber[h]] = h, !.chains[1].head = SkNumber[h]]

\* The overlap with the next subchain after the first was extended: what is overwritten
\* goes, and a subchain it continues is joined.
RECURSIVE Overlapped(_)
Overlapped(c) ==
  LET new == c.chains[1]
      old == c.chains[2]
      rest == SubSeq(c.chains, 3, Len(c.chains))
      joined == [new EXCEPT !.tail = old.tail, !.next = old.next]
  IN IF Len(c.chains) < 2 \/ old.head < new.tail THEN c
     ELSE IF old.tail >= new.tail THEN Overlapped([c EXCEPT !.chains = <<new>> \o rest])
     ELSE IF c.hdr[new.tail - 1] = new.next
     THEN Overlapped([c EXCEPT !.chains = <<joined>> \o rest, !.merged = TRUE])
     ELSE [c EXCEPT !.chains[2].head = new.tail - 1]

\* Linked to the local chain: what is left of older subchains goes; a single header
\* is deleted, although the new subchain may have overwritten it.
Unlinked(c) ==
  LET lone == Len(c.chains) = 2 /\ c.chains[2].head = c.chains[2].tail
      n == c.chains[2].head
  IN [c EXCEPT !.chains = <<@[1]>>,
               !.hdr = IF lone THEN [@ EXCEPT ![n] = NoHeader] ELSE @,
               !.odd = IF lone /\ n >= c.chains[1].tail THEN @ \cup {"deleted"} ELSE @]

\* cleanStales: the backfiller went past the tail.
Cleaned(c, filled) ==
  LET n == SkNumber[filled]
      last == c.chains[1]
      beyond == last.head < n
      end == IF beyond THEN last.head + 1 ELSE n
      left == [k \in SkHeights |-> IF k \in last.tail..(end - 1) THEN NoHeader
                                   ELSE IF k = n /\ end # n THEN filled ELSE c.hdr[k]]
  IN IF filled = NoHeader \/ n < last.tail THEN c
     ELSE [c EXCEPT !.chains[1] = [head |-> IF beyond THEN n ELSE @.head, tail |-> n, next |-> SkParent[filled]],
                    !.hdr = left,
                    !.odd = @ \cup (IF beyond /\ end = n /\ left[n] # filled THEN {"unwritten"} ELSE {})
                              \cup (IF ~beyond /\ left[n] # filled THEN {"strayed"} ELSE {})]

-----------------------------------------------------------------------------
(* A cycle of the loop.                                                    *)

\* assignTasks, for a cycle that is not linked: idle peers get the tasks that are
\* nobody's, down to the first block.
Assigned(s) ==
  LET free == SetToSortSeq({t \in Tasks : s.owners[t] = NoPeer /\ (t - 1) * RequestHeaders < s.head}, <)
      most == Smaller(Len(free), Cardinality(s.idle))
      Task(order, p) == free[CHOOSE i \in 1..most : order[i] = p]
      given(order) ==
        [s EXCEPT !.idle = @ \ ToSet(order),
                  !.owners = [t \in Tasks |-> IF \E i \in 1..most : free[i] = t
                                              THEN order[CHOOSE i \in 1..most : free[i] = t] ELSE @[t]],
                  !.asked = @ \cup {<<p, s.head - (Task(order, p) - 1) * RequestHeaders>> : p \in ToSet(order)}]
  IN IF s.linked THEN {s} ELSE {given(order) : order \in UNION {SetToSeqs(P) : P \in kSubset(most, s.idle)}}

\* sync, up to the first wait.
CycleOn(c) ==
  Assigned([NoCycle EXCEPT !.on = TRUE, !.idle = up, !.head = c.chains[1].tail - 1,
                           !.linked = Len(c.chains) = 1 /\ c.chains[1].next \in local])

\* resume: ignored as long as the last filling has not told that it ended.
Resumed(f) == IF f.at # "off" THEN f ELSE [f EXCEPT !.at = "begin", !.filled = NoHeader]

\* suspend: what was filled last, in this cycle or in an earlier one, and the
\* filling is cancelled.
Suspended == IF filler.at = "off" THEN filler.filled ELSE fast
Cancelled == [filler EXCEPT !.at = IF @ = "off" THEN "off" ELSE "ending"]

Put(c) == chains' = c.chains /\ hdr' = c.hdr /\ odd' = c.odd

\* The next cycle, on a head or on what is there.
Begin(c, f) ==
  /\ Put(c)
  /\ \E s \in CycleOn(c) : sk' = s /\ filler' = IF s.linked THEN Resumed(f) ELSE f

\* The end of a cycle that the same loop follows up.
EndCycle(c) == Cleaned(c, Suspended)

Spend(what) == budget' = [budget EXCEPT ![what] = @ + 1]

\* Sync: the first head must be forced.
FirstHead(h) ==
  /\ ~sk.on
  /\ Begin(InitSync(Progress, h), filler)
  /\ UNCHANGED <<local, fast, up, leaving>>

\* A head during a cycle: integrated, or a new cycle if it is forced, or denied.
NextHead(h, force) ==
  /\ sk.on
  /\ IF ~Reorgs(Progress, h)
     THEN /\ Put(NewHead(Progress, h))
          /\ \E s \in Assigned(sk) : sk' = s
          /\ filler' = IF sk.linked THEN Resumed(filler) ELSE filler
     ELSE IF force THEN Begin(InitSync(EndCycle(Progress), h), Cancelled)
     ELSE UNCHANGED <<hdr, chains, odd, filler>> /\ \E s \in Assigned(sk) : sk' = s
  /\ UNCHANGED <<local, fast, up, leaving>>

\* The engine API tells of blocks it does not have: as a fork choice, or as a payload
\* whose parent it does not have either.
Told ==
  /\ budget.told < MaxTold /\ Spend("told")
  /\ \E h \in SkBlocks \ local, force \in BOOLEAN :
       /\ force \/ SkParent[h] \notin local
       /\ (force /\ FirstHead(h)) \/ NextHead(h, force)

\* One batch at the head of the scratch space.
Consumed(c) ==
  LET batch == SelectSeq(SubSeq(c.scratch, 1, RequestHeaders), LAMBDA b : b # NoHeader)
      links == {i \in 1..Len(batch) : SkParent[batch[i]] \in local}
      count == IF links = {} THEN Len(batch) ELSE Min(links)
      moved == [c EXCEPT !.chains[1].tail = @ - count, !.chains[1].next = SkParent[batch[count]],
                         !.hdr = [n \in SkHeights |->
                           IF \E i \in 1..count : SkNumber[batch[i]] = n
                           THEN batch[CHOOSE i \in 1..count : SkNumber[batch[i]] = n] ELSE @[n]]]
      shifted == [moved EXCEPT
                    !.scratch = [i \in 1..ScratchHeaders |-> IF i + RequestHeaders > ScratchHeaders THEN NoHeader
                                                             ELSE @[i + RequestHeaders]],
                    !.owners = [t \in Tasks |-> IF t + 1 \in Tasks THEN @[t + 1] ELSE NoPeer],
                    !.head = @ - count]
      junk == [c EXCEPT !.scratch = [i \in 1..ScratchHeaders |-> IF i <= RequestHeaders THEN NoHeader ELSE @[i]],
                        !.owners[1] = NoPeer, !.bad = {c.owners[1]}, !.stop = TRUE]
      over == Overlapped(shifted)
  IN IF c.stop \/ c.scratch[1] = NoHeader THEN c
     ELSE IF c.chains[1].next # c.scratch[1] THEN junk
     ELSE IF links # {} THEN [Unlinked(moved) EXCEPT !.linked = TRUE, !.stop = TRUE]
     ELSE [over EXCEPT !.stop = over.merged]

RECURSIVE ConsumedAll(_, _)
ConsumedAll(c, n) == IF n = 0 THEN c ELSE ConsumedAll(Consumed(c), n - 1)

\* processResponse of the batch that ends in block b, sent by p.
Processed(p, b) ==
  LET n == SkNumber[b]
      at == sk.head - n
      sent == {c \in SkLine[b] : SkNumber[c] > 0 /\ SkNumber[c] + RequestHeaders > n}
      scratch == [i \in 1..ScratchHeaders |->
                    IF \E c \in sent : i = at + 1 + n - SkNumber[c]
                    THEN CHOOSE c \in sent : i = at + 1 + n - SkNumber[c] ELSE sk.scratch[i]]
  IN ConsumedAll([chains |-> chains, hdr |-> hdr, odd |-> odd, scratch |-> scratch, owners |-> sk.owners,
                  head |-> sk.head, linked |-> FALSE, merged |-> FALSE, stop |-> FALSE, bad |-> {}],
                 Cardinality(Tasks))

Fields(c) == [chains |-> c.chains, hdr |-> c.hdr, odd |-> c.odd]

\* The loop takes an answer: a batch of headers that are linked to each other.  With
\* the local chain or an older subchain reached, the next cycle begins.
Answer(p, b) ==
  /\ p \in up /\ <<p, SkNumber[b]>> \in sk.asked
  /\ LET c == Processed(p, b)
         next == [sk EXCEPT !.scratch = c.scratch, !.owners = c.owners, !.head = c.head,
                            !.idle = @ \cup {p}, !.asked = @ \ {<<p, SkNumber[b]>>}]
     IN /\ IF c.linked \/ c.merged THEN Begin(EndCycle(Fields(c)), Cancelled)
           ELSE Put(Fields(c)) /\ UNCHANGED filler /\ \E s \in Assigned(next) : sk' = s
        /\ leaving' = leaving \cup c.bad
  /\ UNCHANGED <<local, fast, up>>

\* Ancestors of the head.
HonestAnswer(p) ==
  /\ sk.on /\ \E b \in SkLine[hdr[chains[1].head]] : Answer(p, b)
  /\ UNCHANGED budget

JunkAnswer(p) ==
  /\ budget.faults < MaxFaults /\ Spend("faults")
  /\ \E b \in SkBlocks : Answer(p, b)

\* revertRequest: the task is nobody's again.
Reverted(requests) ==
  [sk EXCEPT !.owners = [t \in Tasks |-> IF \E r \in requests : t = (sk.head - r[2]) \div RequestHeaders + 1
                                         THEN NoPeer ELSE @[t]],
             !.asked = @ \ requests]
RequestsOf(p) == {r \in sk.asked : r[1] = p}

\* A request that cannot be sent, has a wrong answer or none in time: the last drops
\* the peer.  The peer is not idle again in this cycle.
RequestFails(p) ==
  /\ IF p \in up THEN budget.faults < MaxFaults /\ Spend("faults") ELSE UNCHANGED budget
  /\ \E r \in RequestsOf(p) : \E s \in Assigned(Reverted({r})) : sk' = s
  /\ leaving' \in {leaving, leaving \cup ({p} \cap up)}
  /\ UNCHANGED <<hdr, chains, odd, filler, local, fast, up>>

\* A peer leaves; its answers may still be on their way to the loop.
LeaveSk(p) ==
  /\ p \in up /\ up' = up \ {p} /\ leaving' = leaving \ {p}
  /\ IF p \in leaving THEN UNCHANGED budget ELSE budget.faults < MaxFaults /\ Spend("faults")
  /\ IF ~sk.on THEN UNCHANGED sk
     ELSE \E s \in Assigned([Reverted(RequestsOf(p)) EXCEPT !.idle = @ \ {p},
                               !.late = IF RequestsOf(p) # {} THEN @ \cup {p} ELSE @]) : sk' = s
  /\ UNCHANGED <<hdr, chains, odd, filler, local, fast>>

\* The answer to a request that was reverted: its peer is idle, wherever it is.
LateAnswer(p) ==
  /\ p \in sk.late
  /\ \E s \in Assigned([sk EXCEPT !.late = @ \ {p}, !.idle = @ \cup {p}]) : sk' = s
  /\ UNCHANGED <<hdr, chains, odd, filler, local, fast, up, leaving, budget>>

JoinSk(p) ==
  /\ p \notin up /\ up' = up \cup {p}
  /\ IF ~sk.on THEN UNCHANGED sk ELSE \E s \in Assigned([sk EXCEPT !.idle = @ \cup {p}]) : sk' = s
  /\ UNCHANGED <<hdr, chains, odd, filler, local, fast, leaving, budget>>

-----------------------------------------------------------------------------
(* The backfiller, and the blocks of the engine API.                       *)

HeaderAt(n) == IF n \in SkHeights THEN hdr[n] ELSE NoHeader

\* findBeaconAncestor: the highest header that is local, or none when the tail is not
\* linked to the local chain.
Ancestor ==
  LET tail == chains[1].tail
      end == Smaller(SkNumber[fast], chains[1].head)
      known == {n \in tail..(end - 1) : \A m \in tail..n : hdr[m] \in local}
  IN IF known = {} THEN tail - 1 ELSE Max(known)

FillerBegins ==
  /\ filler.at = "begin"
  /\ filler' = IF HeaderAt(chains[1].tail) # NoHeader /\ HeaderAt(chains[1].head) # NoHeader
                  /\ SkParent[hdr[chains[1].tail]] \in local
               THEN [filler EXCEPT !.at = "fill", !.from = Ancestor + 1, !.to = chains[1].head]
               ELSE [filler EXCEPT !.at = "ending"]
  /\ UNCHANGED <<hdr, chains, sk, local, fast, up, leaving, odd, budget>>

\* A header is read and its block imported: it must continue the one before.
Fills(b) == b # NoHeader /\ SkParent[b] \in local
FillerStep ==
  /\ filler.at = "fill"
  /\ LET b == HeaderAt(filler.from)
     IN IF filler.from <= filler.to /\ Fills(b)
        THEN /\ local' = local \cup {b} /\ fast' = b
             /\ filler' = [filler EXCEPT !.from = @ + 1]
        ELSE filler' = [filler EXCEPT !.at = "ending"] /\ UNCHANGED <<local, fast>>
  /\ UNCHANGED <<hdr, chains, sk, up, leaving, odd, budget>>

\* The deferred end of a filling.
FillerEnds ==
  /\ filler.at = "ending"
  /\ filler' = [at |-> "off", filled |-> fast, from |-> 0, to |-> 0]
  /\ UNCHANGED <<hdr, chains, sk, local, fast, up, leaving, odd, budget>>

\* A payload on a local block, and a fork choice for a local block.
Payload ==
  /\ budget.payloads < MaxPayloads /\ Spend("payloads")
  /\ \/ \E b \in SkBlocks \ local : SkParent[b] \in local /\ local' = local \cup {b} /\ UNCHANGED fast
     \/ \E b \in local \ {fast, SkGenesis} : fast' = b /\ UNCHANGED local
  /\ UNCHANGED <<hdr, chains, sk, filler, up, leaving, odd>>

-----------------------------------------------------------------------------
(* Stop and kill.                                                          *)

NewProcess == /\ sk' = NoCycle /\ filler' = [at |-> "off", filled |-> NoHeader, from |-> 0, to |-> 0]
              /\ up' = SkPeers /\ leaving' = {}

StopSkeleton ==
  /\ budget.stops < MaxStops /\ Spend("stops")
  /\ Put(IF sk.on THEN EndCycle(Progress) ELSE Progress)
  /\ NewProcess /\ UNCHANGED <<local, fast>>

KillSkeleton ==
  /\ budget.stops < MaxStops /\ Spend("stops")
  /\ NewProcess /\ UNCHANGED <<hdr, chains, odd, local, fast>>

\* A kill between two batches of cleanStales: what is below n is deleted, and the
\* progress says so.
KillCleaning ==
  /\ budget.stops < MaxStops /\ Spend("stops")
  /\ sk.on /\ Suspended # NoHeader /\ SkNumber[Suspended] >= chains[1].tail
  /\ LET c == EndCycle(Progress)
         last == chains[1]
     IN \E n \in (last.tail + 1)..Smaller(last.head, SkNumber[Suspended] - 1) :
          /\ chains' = [c.chains EXCEPT ![1].tail = n, ![1].next = SkParent[hdr[n]]]
          /\ hdr' = [k \in SkHeights |-> IF k >= n /\ k <= last.head THEN hdr[k] ELSE c.hdr[k]]
          /\ odd' = c.odd \cup IF c.chains[1].head # last.head THEN {"cut"} ELSE {}
  /\ NewProcess /\ UNCHANGED <<local, fast>>

SkeletonNext ==
  \/ Told \/ FillerBegins \/ FillerStep \/ FillerEnds \/ Payload
  \/ StopSkeleton \/ KillSkeleton \/ KillCleaning
  \/ \E p \in SkPeers : \/ HonestAnswer(p) \/ JunkAnswer(p) \/ RequestFails(p)
                        \/ LeaveSk(p) \/ LateAnswer(p) \/ JoinSk(p)

SkeletonSpec == SkeletonInit /\ [][SkeletonNext]_skVars

-----------------------------------------------------------------------------
(* What the skeleton promises.                                             *)

SkTypeOK ==
  /\ hdr \in [SkHeights -> SkBlocks \cup {NoHeader}]
  /\ \A i \in 1..Len(chains) : chains[i].head \in SkHeights /\ chains[i].tail \in SkHeights \ {0}
                              /\ chains[i].next \in SkBlocks
  /\ sk.on => sk.head \in SkHeights /\ sk.idle \subseteq SkPeers
  /\ filler.at \in {"off", "begin", "fill", "ending"} /\ filler.filled \in SkBlocks \cup {NoHeader}
  /\ local \subseteq SkBlocks /\ fast \in local /\ up \subseteq SkPeers

\* The subchains are disjoint, the newest on top, and each is a chain of stored
\* headers down to what it says comes next.
Whole(c) ==
  /\ c.tail <= c.head
  /\ \A n \in c.tail..c.head : hdr[n] # NoHeader /\ SkNumber[hdr[n]] = n
  /\ \A n \in c.tail..(c.head - 1) : SkParent[hdr[n + 1]] = hdr[n]
  /\ c.next = SkParent[hdr[c.tail]]
SubchainsWhole ==
  /\ \A i \in 1..Len(chains) : Whole(chains[i])
  /\ \A i \in 1..(Len(chains) - 1) : chains[i + 1].head < chains[i].tail

\* However cycles are interrupted, trimmed, joined and resumed after a stop or a kill,
\* unless something odd happened: initSync, processResponse and cleanStales.
ChainsWhole == SkTypeOK /\ (odd = {} => SubchainsWhole)

\* As long as a cycle is not linked, somebody is asked for the headers that come next,
\* or no peer is idle: assignTasks and revertRequests, whatever fails, leaves or is late.
FrontAsked ==
  sk.on /\ ~sk.linked => sk.idle = {} \/ \E p \in SkPeers : <<p, sk.head>> \in sk.asked

\* The list on disk names whole chains, and a cycle works on (InitSync, processResponse,
\* cleanStales, assignTasks, revertRequests).
SkeletonSound == ChainsWhole /\ FrontAsked
=============================================================================
