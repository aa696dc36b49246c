------------------------- MODULE TransactionsProofs -------------------------
(***************************************************************************)
(* Announced transactions: a hash is in one stage, fetched by the peer whose*)
(* request misses it, and on its way, for any hashes, peers and limits.    *)
(* The transaction pool: lists, lookup and virtual nonces are in step, and  *)
(* merged resets end on the last head, for any chains and limits.          *)
(***************************************************************************)
EXTENDS TxFetcher, TxPool, FiniteSetTheorems, TLAPS

\* The maps of the loop.
Maps == [waitlist : [Hashes -> SUBSET Peers], waittime : SUBSET Hashes,
         waitslots : [Peers -> SUBSET Hashes],
         announces : [Peers -> SUBSET Hashes], announced : [Hashes -> SUBSET Peers],
         fetching : [Hashes -> Peers \cup {Nobody}],
         requests : [Peers -> Request \cup {Nobody}],
         alternates : [Hashes -> SUBSET Peers]]

\* OneStage, of any maps.
Staged(m) ==
  \A h \in Hashes :
    /\ m.waitlist[h] # {} => m.announced[h] = {} /\ m.alternates[h] = {}
    /\ m.announced[h] # {} => m.alternates[h] = {}
    /\ h \in m.waittime <=> m.waitlist[h] # {}
    /\ m.fetching[h] # Nobody <=> m.alternates[h] # {}
    /\ \A p \in Peers :
         /\ h \in m.waitslots[p] <=> p \in m.waitlist[h]
         /\ h \in m.announces[p] => p \in m.announced[h] \cup m.alternates[h]

\* FetchedOnce, of any maps.
OneRequest(m) ==
  \A h \in Hashes, p \in Peers : m.fetching[h] = p <=> m.requests[p] # Nobody /\ h \in Missing(m.requests[p])

MapsSound(m) == m \in Maps /\ Staged(m) /\ OneRequest(m)

\* Who has a request, even one that expired, or a queued hash, has the timeout timer ahead.
TimeoutAhead(m, armed) == Requesting(m) # {} \/ (\E h \in Hashes : m.announced[h] # {}) => armed
WaitAhead(m, armed) == m.waittime # {} => armed

MailTypes ==
  /\ mail \in [Peers -> Message \cup {Nobody}]
  /\ asked \in [Peers -> [hashes : SUBSET Hashes] \cup {Nobody}]
  /\ known \subseteq Hashes /\ underpriced \subseteq Hashes /\ up \subseteq Peers

\* The inductive invariant.
FetcherInv == MapsSound(f) /\ TimeoutAhead(f, timeoutArmed) /\ WaitAhead(f, waitArmed) /\ MailTypes

-----------------------------------------------------------------------------
(* Lists and shares.                                                       *)

\* A list has hashes unless it is empty, and one that is empty may be kept.
LEMMA ListFacts ==
  /\ \A list \in Lists : /\ ToSet(list) \subseteq Hashes /\ Len(list) \in Nat /\ DOMAIN list = 1..Len(list)
                         /\ list # <<>> <=> ToSet(list) # {}
                         /\ Len(list) # 0 => list # <<>>
  /\ <<>> \in Lists /\ ToSet(<<>>) = {}
<1>1. ASSUME NEW list \in Lists
      PROVE  /\ ToSet(list) \subseteq Hashes /\ Len(list) \in Nat /\ DOMAIN list = 1..Len(list)
             /\ list # <<>> <=> ToSet(list) # {}
             /\ Len(list) # 0 => list # <<>>
  <2>1. PICK S \in SUBSET Hashes : list \in SetToSeqs(S) BY DEF Lists
  <2>2. Cardinality(S) \in Nat BY FetcherAssumption, FS_Subset, FS_CardinalityType
  <2>3. list \in [1..Cardinality(S) -> S] BY <2>1 DEF SetToSeqs
  <2>4. list \in Seq(S) /\ Len(list) = Cardinality(S) BY <2>2, <2>3
  <2> QED BY <2>2, <2>3, <2>4 DEF ToSet
<1>2. <<>> \in Lists /\ ToSet(<<>>) = {}
  BY FS_EmptySet, FetcherAssumption DEF SetToSeqs, Lists, ToSet
<1> QED BY <1>1, <1>2

\* What a peer gets is announced by it and asked of nobody, and no two peers get the same.
ShareSound(m, share) ==
  /\ DOMAIN share \subseteq Peers
  /\ \A p \in DOMAIN share :
       /\ share[p] \in Lists /\ m.requests[p] = Nobody
       /\ \A h \in ToSet(share[p]) : h \in m.announces[p] /\ m.fetching[h] = Nobody
  /\ \A p, q \in DOMAIN share : p # q => ToSet(share[p]) \cap ToSet(share[q]) = {}

\* Idle peers with something to fetch.
IdlePeers(m, actives) == {p \in actives : m.requests[p] = Nobody /\ m.announces[p] # {}}

\* Shares are sound.
LEMMA SharesSound ==
  ASSUME NEW m \in Maps, NEW actives \in SUBSET Peers, NEW order \in SetToSeqs(IdlePeers(m, actives)),
         NEW share \in Shares(m, order) PROVE ShareSound(m, share)
<1>1. IsFiniteSet(IdlePeers(m, actives)) /\ IdlePeers(m, actives) \subseteq Peers
  BY FetcherAssumption, FS_Subset DEF IdlePeers
<1>2. PICK n \in Nat : order \in [1..n -> IdlePeers(m, actives)] BY <1>1, FS_CardinalityType DEF SetToSeqs
<1>3. share \in [ToSet(order) -> Lists] BY DEF Shares
<1>4. ASSUME NEW i \in 1..n
      PROVE  \A h \in ToSet(share[order[i]]) : h \in m.announces[order[i]] /\ m.fetching[h] = Nobody
                                         /\ \A j \in 1..(i - 1) : h \notin ToSet(share[order[j]])
  <2> DEFINE before == {order[j] : j \in 1..(i - 1)}
             free == Unclaimed(m, order[i], before, share)
  <2>1. i \in DOMAIN order BY <1>2
  <2>2. ToSet(share[order[i]]) \subseteq free BY <2>1 DEF Shares
  <2>3. \A j \in 1..(i - 1) : order[j] \in before OBVIOUS
  <2>4. \A h \in free : h \in m.announces[order[i]] /\ m.fetching[h] = Nobody
                         /\ \A q \in before : h \notin ToSet(share[q])
    BY DEF Unclaimed
  <2> HIDE DEF before, free
  <2> QED BY <2>2, <2>3, <2>4
<1>5. \A p \in DOMAIN share : \E i \in 1..n : p = order[i] BY <1>2, <1>3 DEF ToSet
<1>6. ASSUME NEW p \in DOMAIN share
      PROVE  /\ p \in Peers /\ share[p] \in Lists /\ m.requests[p] = Nobody
             /\ \A h \in ToSet(share[p]) : h \in m.announces[p] /\ m.fetching[h] = Nobody
  <2>1. PICK i \in 1..n : p = order[i] BY <1>5
  <2>2. p \in IdlePeers(m, actives) BY <1>2, <2>1
  <2> QED BY <1>1, <1>3, <1>4, <2>1, <2>2 DEF IdlePeers
<1>7. ASSUME NEW p \in DOMAIN share, NEW q \in DOMAIN share, p # q PROVE ToSet(share[p]) \cap ToSet(share[q]) = {}
  <2>1. PICK i \in 1..n, j \in 1..n : p = order[i] /\ q = order[j] BY <1>5
  <2>2. CASE i < j
    BY <2>2, <1>4, <2>1
  <2>3. CASE j < i
    BY <2>3, <1>4, <2>1
  <2> QED BY <1>7, <2>1, <2>2, <2>3
<1> QED BY <1>6, <1>7 DEF ShareSound

\* If somebody is idle and nothing is asked for, the first of them gets something.
LEMMA SomethingShared ==
  ASSUME NEW m, MapsSound(m), NEW actives \in SUBSET Peers, NEW order \in SetToSeqs(IdlePeers(m, actives)),
         NEW share \in Shares(m, order), Requesting(m) = {}, IdlePeers(m, actives) # {}
  PROVE  \E p \in DOMAIN share : share[p] # <<>>
<1> DEFINE S == IdlePeers(m, actives)
<1>1. IsFiniteSet(S) /\ S \subseteq Peers BY FetcherAssumption, FS_Subset DEF IdlePeers
<1>2. Cardinality(S) \in Nat \ {0} BY <1>1, FS_CardinalityType, FS_EmptySet
<1>3. order \in [1..Cardinality(S) -> S] BY DEF SetToSeqs
<1>4. PICK p \in S : p = order[1] BY <1>2, <1>3
<1>5. 1 \in DOMAIN order /\ p \in ToSet(order) BY <1>2, <1>3, <1>4 DEF ToSet
<1>6. share \in [ToSet(order) -> Lists] BY DEF Shares
<1> DEFINE free == Unclaimed(m, p, {order[j] : j \in 1..(1 - 1)}, share)
<1>7. Len(share[p]) = IF Cardinality(free) < MaxTxRetrievals THEN Cardinality(free) ELSE MaxTxRetrievals
  BY <1>4, <1>5 DEF Shares
<1>8. {order[j] : j \in 1..(1 - 1)} = {} OBVIOUS
<1>9. m \in Maps /\ p \in Peers /\ m.announces[p] \subseteq Hashes /\ m.announces[p] # {}
  BY <1>1 DEF MapsSound, Maps, IdlePeers
<1>10. \A h \in Hashes : m.fetching[h] = Nobody BY <1>9 DEF MapsSound, OneRequest, Maps, Requesting
<1>11. free = m.announces[p] BY <1>8, <1>9, <1>10 DEF Unclaimed
<1>12. IsFiniteSet(free) /\ free # {} BY <1>9, <1>11, FetcherAssumption, FS_Subset
<1> HIDE DEF free
<1>13. Cardinality(free) \in Nat \ {0} BY <1>12, FS_CardinalityType, FS_EmptySet
<1>14. Len(share[p]) # 0 BY <1>7, <1>13, FetcherAssumption
<1> QED BY <1>5, <1>6, <1>14, ListFacts

-----------------------------------------------------------------------------
(* What scheduling does.                                                   *)

\* The peers that get something.
Busy(share) == {p \in DOMAIN share : share[p] # <<>>}
Goes(share, h) == {p \in Busy(share) : h \in ToSet(share[p])}

\* The maps with the requests in them, field by field.
LEMMA RequestedFields ==
  ASSUME NEW m \in Maps, NEW share, ShareSound(m, share), NEW r, r = Requested(m, share)
  PROVE  /\ r \in Maps
         /\ r.waitlist = m.waitlist /\ r.waittime = m.waittime /\ r.waitslots = m.waitslots
         /\ r.announces = m.announces
         /\ \A h \in Hashes : Goes(share, h) = {} =>
              /\ r.fetching[h] = m.fetching[h] /\ r.alternates[h] = m.alternates[h]
              /\ r.announced[h] = m.announced[h]
         /\ \A h \in Hashes : Goes(share, h) # {} =>
              /\ r.fetching[h] \in Goes(share, h) /\ r.alternates[h] = m.announced[h]
              /\ r.announced[h] = {}
         /\ \A p \in Busy(share) : r.requests[p] = [hashes |-> share[p], stolen |-> {}]
         /\ \A p \in Peers \ Busy(share) : r.requests[p] = m.requests[p]
<1> DEFINE F == [h \in Hashes |-> IF Goes(share, h) = {} THEN m.fetching[h] ELSE CHOOSE p \in Goes(share, h) : TRUE]
           L == [h \in Hashes |-> IF Goes(share, h) = {} THEN m.alternates[h] ELSE m.announced[h]]
           A == [h \in Hashes |-> IF Goes(share, h) = {} THEN m.announced[h] ELSE {}]
           Q == [p \in Peers |-> IF p \in Busy(share) THEN [hashes |-> share[p], stolen |-> {}] ELSE m.requests[p]]
<1>1. r = [m EXCEPT !.fetching = F, !.alternates = L, !.announced = A, !.requests = Q]
  BY DEF Requested, Maps, Busy, Goes
<1>2. \A p \in Busy(share) : p \in Peers /\ share[p] \in Lists /\ [hashes |-> share[p], stolen |-> {}] \in Request
  BY DEF Busy, ShareSound, Request
<1>3. \A h \in Hashes : Goes(share, h) \subseteq Peers BY <1>2 DEF Goes
<1>4. F \in [Hashes -> Peers \cup {Nobody}] BY <1>3 DEF Maps
<1>5. L \in [Hashes -> SUBSET Peers] /\ A \in [Hashes -> SUBSET Peers] BY DEF Maps
<1>6. Q \in [Peers -> Request \cup {Nobody}] BY <1>2 DEF Maps
<1>7. \A h \in Hashes : Goes(share, h) # {} => F[h] \in Goes(share, h) OBVIOUS
<1>8. \A h \in Hashes : /\ Goes(share, h) = {} => F[h] = m.fetching[h] /\ L[h] = m.alternates[h] /\ A[h] = m.announced[h]
                        /\ Goes(share, h) # {} => L[h] = m.announced[h] /\ A[h] = {}
  OBVIOUS
<1>9. /\ \A p \in Busy(share) : Q[p] = [hashes |-> share[p], stolen |-> {}]
      /\ \A p \in Peers \ Busy(share) : Q[p] = m.requests[p]
  BY <1>2
<1> HIDE DEF F, L, A, Q
<1>10. r \in Maps /\ r.fetching = F /\ r.alternates = L /\ r.announced = A /\ r.requests = Q
       /\ r.waitlist = m.waitlist /\ r.waittime = m.waittime /\ r.waitslots = m.waitslots
       /\ r.announces = m.announces
  BY <1>1, <1>4, <1>5, <1>6 DEF Maps
<1> QED BY <1>7, <1>8, <1>9, <1>10

\* The maps stay sound when the shares are asked for.
LEMMA RequestedSound ==
  ASSUME NEW m, MapsSound(m), NEW share, ShareSound(m, share), NEW r, r = Requested(m, share)
  PROVE  /\ MapsSound(r) /\ r.waittime = m.waittime
         /\ Requesting(m) \subseteq Requesting(r) /\ Busy(share) \subseteq Requesting(r)
         /\ Requesting(r) \subseteq Requesting(m) \cup Busy(share)
         /\ \A h \in Hashes : r.announced[h] # {} => m.announced[h] # {}
<1>1. m \in Maps BY DEF MapsSound
<1>2. /\ r \in Maps
      /\ r.waitlist = m.waitlist /\ r.waittime = m.waittime /\ r.waitslots = m.waitslots
      /\ r.announces = m.announces
      /\ \A h \in Hashes : Goes(share, h) = {} =>
           /\ r.fetching[h] = m.fetching[h] /\ r.alternates[h] = m.alternates[h]
           /\ r.announced[h] = m.announced[h]
      /\ \A h \in Hashes : Goes(share, h) # {} =>
           /\ r.fetching[h] \in Goes(share, h) /\ r.alternates[h] = m.announced[h]
           /\ r.announced[h] = {}
      /\ \A p \in Busy(share) : r.requests[p] = [hashes |-> share[p], stolen |-> {}]
      /\ \A p \in Peers \ Busy(share) : r.requests[p] = m.requests[p]
  BY <1>1, RequestedFields
<1>3. \A h \in Hashes : \A p \in Goes(share, h) :
        /\ p \in Peers /\ h \in m.announces[p] /\ m.fetching[h] = Nobody /\ p \in Busy(share)
        /\ h \in ToSet(share[p])
        /\ \A q \in Goes(share, h) : q = p
  BY DEF ShareSound, Goes, Busy
<1>4. \A h \in Hashes : Goes(share, h) # {} => m.alternates[h] = {} /\ m.announced[h] # {} /\ m.waitlist[h] = {}
  BY <1>3 DEF MapsSound, Staged
<1>5. ASSUME NEW h \in Hashes
      PROVE  /\ r.waitlist[h] # {} => r.announced[h] = {} /\ r.alternates[h] = {}
             /\ r.announced[h] # {} => r.alternates[h] = {}
             /\ h \in r.waittime <=> r.waitlist[h] # {}
             /\ r.fetching[h] # Nobody <=> r.alternates[h] # {}
             /\ \A p \in Peers :
                  /\ h \in r.waitslots[p] <=> p \in r.waitlist[h]
                  /\ h \in r.announces[p] => p \in r.announced[h] \cup r.alternates[h]
  <2>1. CASE Goes(share, h) = {} BY <1>2, <2>1 DEF MapsSound, Staged
  <2>2. CASE Goes(share, h) # {}
    BY <1>2, <1>3, <2>2, FetcherAssumption, <1>4 DEF MapsSound, Staged
  <2> QED BY <2>1, <2>2
<1>6. Staged(r) BY <1>5 DEF Staged
<1>7. \A p \in Busy(share) : /\ p \in Peers /\ m.requests[p] = Nobody /\ r.requests[p] # Nobody
                             /\ Missing(r.requests[p]) = ToSet(share[p])
  <2> SUFFICES ASSUME NEW p \in Busy(share)
               PROVE  /\ p \in Peers /\ m.requests[p] = Nobody /\ r.requests[p] # Nobody
                      /\ Missing(r.requests[p]) = ToSet(share[p])
    OBVIOUS
  <2>1. p \in Peers /\ m.requests[p] = Nobody /\ share[p] \in Lists BY DEF ShareSound, Busy
  <2>2. r.requests[p] = [hashes |-> share[p], stolen |-> {}] /\ r.requests[p] \in Request BY <1>2, <2>1 DEF Request
  <2>3. Missing(r.requests[p]) = ToSet(share[p]) BY <2>2 DEF Missing
  <2> QED BY <2>1, <2>2, <2>3, FetcherAssumption
<1>8. ASSUME NEW h \in Hashes, NEW p \in Peers
      PROVE  r.fetching[h] = p <=> r.requests[p] # Nobody /\ h \in Missing(r.requests[p])
  <2>0. m.fetching[h] = p <=> m.requests[p] # Nobody /\ h \in Missing(m.requests[p]) BY DEF MapsSound, OneRequest
  <2>1. CASE Goes(share, h) = {}
    <3>1. r.fetching[h] = m.fetching[h] BY <1>2, <2>1
    <3>2. CASE p \in Busy(share)
      BY <2>1, <3>2, <1>7, <2>0, <3>1 DEF Goes
    <3>3. CASE p \notin Busy(share) BY <1>2, <2>0, <3>1, <3>3
    <3> QED BY <3>2, <3>3
  <2>2. CASE Goes(share, h) # {}
    <3>1. m.fetching[h] = Nobody /\ r.fetching[h] \in Goes(share, h) BY <1>2, <1>3, <2>2
    <3>2. m.fetching[h] # p BY <3>1, FetcherAssumption
    <3>3. CASE p \in Goes(share, h)
      BY <1>3, <3>1, <3>3, <1>7
    <3>4. CASE p \in Busy(share) /\ p \notin Goes(share, h)
      BY <3>4, <1>7, <3>1 DEF Goes
    <3>5. CASE p \notin Busy(share)
      BY <1>2, <1>3, <3>1, <3>5, <2>0, <3>2
    <3> QED BY <3>3, <3>4, <3>5
  <2> QED BY <2>1, <2>2
<1>9. MapsSound(r) BY <1>2, <1>6, <1>8 DEF MapsSound, OneRequest
<1>10. /\ Requesting(m) \subseteq Requesting(r) /\ Busy(share) \subseteq Requesting(r)
       /\ Requesting(r) \subseteq Requesting(m) \cup Busy(share)
  BY <1>2, <1>7 DEF Requesting
<1>11. \A h \in Hashes : r.announced[h] # {} => m.announced[h] # {} BY <1>2
<1> QED BY <1>2, <1>9, <1>10, <1>11

\* Asked peers: what a step hands to scheduleFetches and what it leaves.
Asks == [Peers -> [hashes : SUBSET Hashes] \cup {Nobody}]

\* scheduleFetches keeps the maps sound and starts the timeout timer when it must.
LEMMA ScheduleHolds ==
  ASSUME NEW m, MapsSound(m), NEW actives \in SUBSET Peers, NEW armed, NEW sent \in Asks,
         Requesting(m) # {} => armed,
         (\E h \in Hashes : m.announced[h] # {}) => armed \/ \E p \in actives : m.announces[p] # {},
         ScheduleFetches(m, actives, armed, sent)
  PROVE  MapsSound(f') /\ f'.waittime = m.waittime /\ TimeoutAhead(f', timeoutArmed') /\ asked' \in Asks
<1>1. PICK order \in SetToSeqs(IdlePeers(m, actives)) :
        \E share \in Shares(m, order) :
          /\ f' = Requested(m, share)
          /\ timeoutArmed' = (armed \/ (Requesting(m) = {} /\ Requesting(f') # {}))
          /\ asked' = [p \in Peers |-> IF p \in DOMAIN share /\ share[p] # <<>>
                                       THEN [hashes |-> ToSet(share[p])] ELSE sent[p]] BY DEF ScheduleFetches, IdlePeers
<1>2. PICK share \in Shares(m, order) :
          /\ f' = Requested(m, share)
          /\ timeoutArmed' = (armed \/ (Requesting(m) = {} /\ Requesting(f') # {}))
          /\ asked' = [p \in Peers |-> IF p \in DOMAIN share /\ share[p] # <<>>
                                       THEN [hashes |-> ToSet(share[p])] ELSE sent[p]] BY <1>1
<1>3. ShareSound(m, share) BY SharesSound DEF MapsSound
<1>4. PICK r : r = f' OBVIOUS
<1>5. /\ MapsSound(r) /\ r.waittime = m.waittime
      /\ Requesting(m) \subseteq Requesting(r) /\ Busy(share) \subseteq Requesting(r)
      /\ Requesting(r) \subseteq Requesting(m) \cup Busy(share)
      /\ \A h \in Hashes : r.announced[h] # {} => m.announced[h] # {}
  BY <1>2, <1>3, <1>4, RequestedSound
<1>6. timeoutArmed' <=> (armed \/ (Requesting(m) = {} /\ Requesting(r) # {})) BY <1>2, <1>4
<1>7. asked' \in Asks
  BY <1>3, ListFacts, <1>2 DEF ShareSound, Asks
<1>8. ASSUME Requesting(r) # {} PROVE timeoutArmed' BY <1>5, <1>6, <1>8
<1>9. ASSUME Requesting(r) = {}, \E h \in Hashes : r.announced[h] # {} PROVE timeoutArmed'
  <2>1. Requesting(m) = {} /\ \E h \in Hashes : m.announced[h] # {} BY <1>5, <1>9
  <2>2. ASSUME \E p \in actives : m.announces[p] # {} PROVE FALSE
    <3>1. PICK p \in actives : m.announces[p] # {} BY <2>2
    <3>2. p \in IdlePeers(m, actives) BY <2>1, <3>1 DEF IdlePeers, Requesting
    <3>3. \E q \in DOMAIN share : share[q] # <<>> BY <2>1, <3>2, SomethingShared
    <3> QED BY <1>5, <1>9, <3>3 DEF Busy
  <2> QED BY <1>6, <2>1, <2>2
<1>10. TimeoutAhead(r, timeoutArmed') BY <1>8, <1>9 DEF TimeoutAhead
<1> QED BY <1>4, <1>5, <1>7, <1>10

-----------------------------------------------------------------------------
(* What the operations of the loop do to sound maps.                       *)

\* Staged and OneRequest, of one hash.
StagedAt(m, h) ==
  /\ m.waitlist[h] # {} => m.announced[h] = {} /\ m.alternates[h] = {}
  /\ m.announced[h] # {} => m.alternates[h] = {}
  /\ h \in m.waittime <=> m.waitlist[h] # {}
  /\ m.fetching[h] # Nobody <=> m.alternates[h] # {}
  /\ \A p \in Peers :
       /\ h \in m.waitslots[p] <=> p \in m.waitlist[h]
       /\ h \in m.announces[p] => p \in m.announced[h] \cup m.alternates[h]
RequestAt(m, h) ==
  \A p \in Peers : m.fetching[h] = p <=> m.requests[p] # Nobody /\ h \in Missing(m.requests[p])

\* Maps are sound when every hash is.
LEMMA SoundAtAll ==
  ASSUME NEW m PROVE MapsSound(m) <=> m \in Maps /\ \A h \in Hashes : StagedAt(m, h) /\ RequestAt(m, h)
BY DEF MapsSound, Staged, OneRequest, StagedAt, RequestAt

\* The types of the fields.
LEMMA FieldTypes ==
  ASSUME NEW m \in Maps
  PROVE  /\ m.waitlist \in [Hashes -> SUBSET Peers] /\ m.waittime \in SUBSET Hashes
         /\ m.waitslots \in [Peers -> SUBSET Hashes] /\ m.announces \in [Peers -> SUBSET Hashes]
         /\ m.announced \in [Hashes -> SUBSET Peers] /\ m.fetching \in [Hashes -> Peers \cup {Nobody}]
         /\ m.requests \in [Peers -> Request \cup {Nobody}] /\ m.alternates \in [Hashes -> SUBSET Peers]
         /\ m = [waitlist |-> m.waitlist, waittime |-> m.waittime, waitslots |-> m.waitslots,
                 announces |-> m.announces, announced |-> m.announced, fetching |-> m.fetching,
                 requests |-> m.requests, alternates |-> m.alternates] BY DEF Maps

\* Tracked keeps the maps sound: no hash is queued and no request sent by it.
LEMMA TrackedSound ==
  ASSUME MapsSound(f), NEW p \in Peers, NEW hashes \in SUBSET Hashes, NEW m, m = Tracked(p, hashes)
  PROVE  /\ MapsSound(m) /\ m.requests = f.requests /\ f.waittime \subseteq m.waittime
         /\ \A h \in Hashes : m.announced[h] # {} => f.announced[h] # {}
<1> DEFINE flying == {h \in hashes : f.alternates[h] # {}}
           queued == {h \in hashes \ flying : f.announced[h] # {}}
           waiting == hashes \ (flying \cup queued)
           Join(map, S) == [h \in Hashes |-> IF h \in S THEN map[h] \cup {p} ELSE map[h]]
           L == Join(f.alternates, flying)
           A == Join(f.announced, queued)
           W == Join(f.waitlist, waiting)
           N == [f.announces EXCEPT ![p] = f.announces[p] \cup flying \cup queued]
           S == [f.waitslots EXCEPT ![p] = f.waitslots[p] \cup waiting]
           T == f.waittime \cup waiting
<1>1. f \in Maps /\ \A h \in Hashes : StagedAt(f, h) /\ RequestAt(f, h) BY SoundAtAll
<1>2. /\ f.waitlist \in [Hashes -> SUBSET Peers] /\ f.waittime \in SUBSET Hashes
      /\ f.waitslots \in [Peers -> SUBSET Hashes] /\ f.announces \in [Peers -> SUBSET Hashes]
      /\ f.announced \in [Hashes -> SUBSET Peers] /\ f.fetching \in [Hashes -> Peers \cup {Nobody}]
      /\ f.requests \in [Peers -> Request \cup {Nobody}] /\ f.alternates \in [Hashes -> SUBSET Peers]
  BY <1>1, FieldTypes
<1>3. m = [waitlist |-> W, waittime |-> T, waitslots |-> S, announces |-> N, announced |-> A,
           fetching |-> f.fetching, requests |-> f.requests, alternates |-> L]
  <2>1. m = [f EXCEPT !.alternates = L, !.announced = A, !.waitlist = W, !.waittime = T, !.announces = N,
                      !.waitslots = S] BY <1>1 DEF Tracked, Maps
  <2> HIDE DEF L, A, W, N, S, T
  <2> QED BY <2>1, <1>1 DEF Maps
<1>4. /\ L \in [Hashes -> SUBSET Peers] /\ A \in [Hashes -> SUBSET Peers] /\ W \in [Hashes -> SUBSET Peers]
      /\ N \in [Peers -> SUBSET Hashes] /\ S \in [Peers -> SUBSET Hashes] /\ T \in SUBSET Hashes
  BY <1>2
<1>5. ASSUME NEW h \in Hashes
      PROVE  /\ L[h] = IF h \in flying THEN f.alternates[h] \cup {p} ELSE f.alternates[h]
             /\ A[h] = IF h \in queued THEN f.announced[h] \cup {p} ELSE f.announced[h]
             /\ W[h] = IF h \in waiting THEN f.waitlist[h] \cup {p} ELSE f.waitlist[h]
             /\ \A q \in Peers : /\ q # p => N[q] = f.announces[q] /\ S[q] = f.waitslots[q]
                                 /\ q = p => /\ h \in N[q] <=> h \in f.announces[q] \/ h \in flying \/ h \in queued
                                             /\ h \in S[q] <=> h \in f.waitslots[q] \/ h \in waiting
             /\ h \in T <=> h \in f.waittime \/ h \in waiting
  BY <1>2
<1>6. \A h \in Hashes : /\ h \in flying => h \notin queued /\ h \notin waiting /\ f.alternates[h] # {}
                        /\ h \in queued => h \notin waiting /\ f.alternates[h] = {} /\ f.announced[h] # {}
                        /\ h \in waiting => f.alternates[h] = {} /\ f.announced[h] = {}
  OBVIOUS
<1> HIDE DEF flying, queued, waiting, L, A, W, N, S, T
<1>7. m \in Maps /\ m.waitlist = W /\ m.waittime = T /\ m.waitslots = S /\ m.announces = N /\ m.announced = A
      /\ m.fetching = f.fetching /\ m.requests = f.requests /\ m.alternates = L
  BY <1>2, <1>3, <1>4 DEF Maps
<1>8. ASSUME NEW h \in Hashes PROVE StagedAt(m, h) /\ RequestAt(m, h)
  <2>1. StagedAt(f, h) /\ RequestAt(f, h) BY <1>1
  <2>2. RequestAt(m, h) BY <1>7, <2>1 DEF RequestAt
  <2>3. CASE h \in flying
    <3>1. m.alternates[h] = f.alternates[h] \cup {p} /\ m.announced[h] = f.announced[h] /\ m.waitlist[h] = f.waitlist[h]
      BY <1>5, <1>6, <1>7, <2>3
    <3>2. m.fetching[h] = f.fetching[h] /\ (h \in m.waittime <=> h \in f.waittime \/ h \in waiting) BY <1>5, <1>7
    <3>3. \A q \in Peers : (h \in m.waitslots[q] <=> h \in f.waitslots[q]) /\ (h \in m.announces[q] <=> h \in f.announces[q] \/ q = p)
      BY <1>5, <1>6, <1>7, <2>3
    <3> QED BY <1>6, <2>1, <2>2, <2>3, <3>1, <3>2, <3>3 DEF StagedAt
  <2>4. CASE h \in queued
    <3>1. m.alternates[h] = f.alternates[h] /\ m.announced[h] = f.announced[h] \cup {p} /\ m.waitlist[h] = f.waitlist[h]
      BY <1>5, <1>6, <1>7, <2>4
    <3>2. m.fetching[h] = f.fetching[h] /\ (h \in m.waittime <=> h \in f.waittime \/ h \in waiting) BY <1>5, <1>7
    <3>3. \A q \in Peers : (h \in m.waitslots[q] <=> h \in f.waitslots[q]) /\ (h \in m.announces[q] <=> h \in f.announces[q] \/ q = p)
      BY <1>5, <1>6, <1>7, <2>4
    <3> QED BY <1>6, <2>1, <2>2, <2>4, <3>1, <3>2, <3>3 DEF StagedAt
  <2>5. CASE h \in waiting
    <3>1. m.alternates[h] = f.alternates[h] /\ m.announced[h] = f.announced[h] /\ m.waitlist[h] = f.waitlist[h] \cup {p}
      BY <1>5, <1>6, <1>7, <2>5
    <3>2. m.fetching[h] = f.fetching[h] /\ (h \in m.waittime <=> h \in f.waittime \/ h \in waiting) BY <1>5, <1>7
    <3>3. \A q \in Peers : (h \in m.waitslots[q] <=> h \in f.waitslots[q] \/ q = p) /\ (h \in m.announces[q] <=> h \in f.announces[q])
      BY <1>5, <1>6, <1>7, <2>5
    <3> QED BY <1>6, <2>1, <2>2, <2>5, <3>1, <3>2, <3>3 DEF StagedAt
  <2>6. CASE h \notin flying /\ h \notin queued /\ h \notin waiting
    <3>1. m.alternates[h] = f.alternates[h] /\ m.announced[h] = f.announced[h] /\ m.waitlist[h] = f.waitlist[h]
      BY <1>5, <1>7, <2>6
    <3>2. m.fetching[h] = f.fetching[h] /\ (h \in m.waittime <=> h \in f.waittime) BY <1>5, <1>7, <2>6
    <3>3. \A q \in Peers : (h \in m.waitslots[q] <=> h \in f.waitslots[q]) /\ (h \in m.announces[q] <=> h \in f.announces[q])
      BY <1>5, <1>7, <2>6
    <3> QED BY <2>1, <2>2, <3>1, <3>2, <3>3 DEF StagedAt
  <2> QED BY <2>2, <2>3, <2>4, <2>5, <2>6
<1>9. \A h \in Hashes : m.announced[h] # {} => f.announced[h] # {} BY <1>5, <1>6, <1>7
<1>10. f.waittime \subseteq m.waittime BY <1>2, <1>5, <1>7
<1>11. MapsSound(m) BY <1>7, <1>8, SoundAtAll
<1> QED BY <1>7, <1>9, <1>10, <1>11

\* Queued keeps the maps sound: somebody announces each hash that waited.
LEMMA QueuedSound ==
  ASSUME MapsSound(f), NEW expired \in SUBSET f.waittime, NEW m, m = Queued(expired)
  PROVE  /\ MapsSound(m) /\ m.requests = f.requests /\ m.waittime = f.waittime \ expired
         /\ \A h \in Hashes : m.announced[h] # {} => f.announced[h] # {} \/ expired # {}
         /\ expired # {} => \E p \in UNION {f.waitlist[h] : h \in expired} : m.announces[p] # {}
<1> DEFINE A == [h \in Hashes |-> IF h \in expired THEN f.waitlist[h] ELSE f.announced[h]]
           N == [p \in Peers |-> f.announces[p] \cup (f.waitslots[p] \cap expired)]
           S == [p \in Peers |-> f.waitslots[p] \ expired]
           W == [h \in Hashes |-> IF h \in expired THEN {} ELSE f.waitlist[h]]
           T == f.waittime \ expired
<1>1. f \in Maps /\ \A h \in Hashes : StagedAt(f, h) /\ RequestAt(f, h) BY SoundAtAll
<1>2. /\ f.waitlist \in [Hashes -> SUBSET Peers] /\ f.waittime \in SUBSET Hashes
      /\ f.waitslots \in [Peers -> SUBSET Hashes] /\ f.announces \in [Peers -> SUBSET Hashes]
      /\ f.announced \in [Hashes -> SUBSET Peers] /\ f.fetching \in [Hashes -> Peers \cup {Nobody}]
      /\ f.requests \in [Peers -> Request \cup {Nobody}] /\ f.alternates \in [Hashes -> SUBSET Peers]
  BY <1>1, FieldTypes
<1>3. m = [waitlist |-> W, waittime |-> T, waitslots |-> S, announces |-> N, announced |-> A,
           fetching |-> f.fetching, requests |-> f.requests, alternates |-> f.alternates]
  <2>1. m = [f EXCEPT !.announced = A, !.announces = N, !.waitslots = S, !.waitlist = W, !.waittime = T]
    BY <1>1 DEF Queued, Maps
  <2> HIDE DEF A, W, N, S, T
  <2> QED BY <2>1, <1>1 DEF Maps
<1>4. /\ A \in [Hashes -> SUBSET Peers] /\ W \in [Hashes -> SUBSET Peers]
      /\ N \in [Peers -> SUBSET Hashes] /\ S \in [Peers -> SUBSET Hashes] /\ T \in SUBSET Hashes
  BY <1>2
<1>5. ASSUME NEW h \in Hashes
      PROVE  /\ A[h] = IF h \in expired THEN f.waitlist[h] ELSE f.announced[h]
             /\ W[h] = IF h \in expired THEN {} ELSE f.waitlist[h]
             /\ \A q \in Peers : /\ h \in N[q] <=> h \in f.announces[q] \/ (h \in f.waitslots[q] /\ h \in expired)
                                 /\ h \in S[q] <=> h \in f.waitslots[q] /\ h \notin expired
             /\ h \in T <=> h \in f.waittime /\ h \notin expired
  BY <1>2
<1>6. T = f.waittime \ expired OBVIOUS
<1> HIDE DEF A, W, N, S, T
<1>7. m \in Maps /\ m.waitlist = W /\ m.waittime = T /\ m.waitslots = S /\ m.announces = N /\ m.announced = A
      /\ m.fetching = f.fetching /\ m.requests = f.requests /\ m.alternates = f.alternates
  BY <1>2, <1>3, <1>4 DEF Maps
<1>8. ASSUME NEW h \in Hashes PROVE StagedAt(m, h) /\ RequestAt(m, h)
  <2>1. StagedAt(f, h) /\ RequestAt(f, h) BY <1>1
  <2>2. RequestAt(m, h) BY <1>7, <2>1 DEF RequestAt
  <2>3. CASE h \in expired BY <1>5, <1>7, <2>1, <2>2, <2>3 DEF StagedAt
  <2>4. CASE h \notin expired BY <1>5, <1>7, <2>1, <2>2, <2>4 DEF StagedAt
  <2> QED BY <2>2, <2>3, <2>4
<1>9. \A h \in Hashes : m.announced[h] # {} => f.announced[h] # {} \/ expired # {} BY <1>5, <1>7
<1>10. ASSUME NEW h \in expired PROVE \E p \in UNION {f.waitlist[g] : g \in expired} : m.announces[p] # {}
  <2>1. h \in Hashes /\ f.waitlist[h] # {} /\ f.waitlist[h] \subseteq Peers BY <1>1, <1>2 DEF StagedAt
  <2>2. PICK p \in Peers : p \in f.waitlist[h] BY <2>1
  <2>3. h \in m.announces[p] BY <1>1, <1>5, <1>7, <2>1, <2>2 DEF StagedAt
  <2> QED BY <2>2, <2>3
<1>11. MapsSound(m) BY <1>7, <1>8, SoundAtAll
<1> QED BY <1>6, <1>7, <1>9, <1>10, <1>11
\* Expired keeps the maps sound: the requests that are late miss nothing any more.
LEMMA ExpiredSound ==
  ASSUME MapsSound(f), NEW late \in SUBSET Requesting(f), NEW m, m = Expired(late)
  PROVE  MapsSound(m) /\ m.waittime = f.waittime
<1> DEFINE back(p) == IF p \in late THEN Missing(f.requests[p]) ELSE {}
           all == UNION {back(p) : p \in Peers}
           A == [h \in Hashes |-> IF h \in all THEN f.alternates[h] \ {f.fetching[h]} ELSE f.announced[h]]
           N == [p \in Peers |-> f.announces[p] \ back(p)]
           L == [h \in Hashes |-> IF h \in all THEN {} ELSE f.alternates[h]]
           F == [h \in Hashes |-> IF h \in all THEN Nobody ELSE f.fetching[h]]
           Q == [p \in Peers |-> IF p \in late THEN [f.requests[p] EXCEPT !.hashes = <<>>] ELSE f.requests[p]]
<1>1. f \in Maps /\ \A h \in Hashes : StagedAt(f, h) /\ RequestAt(f, h) BY SoundAtAll
<1>2. /\ f.waitlist \in [Hashes -> SUBSET Peers] /\ f.waittime \in SUBSET Hashes
      /\ f.waitslots \in [Peers -> SUBSET Hashes] /\ f.announces \in [Peers -> SUBSET Hashes]
      /\ f.announced \in [Hashes -> SUBSET Peers] /\ f.fetching \in [Hashes -> Peers \cup {Nobody}]
      /\ f.requests \in [Peers -> Request \cup {Nobody}] /\ f.alternates \in [Hashes -> SUBSET Peers]
  BY <1>1, FieldTypes
<1>3. m = [waitlist |-> f.waitlist, waittime |-> f.waittime, waitslots |-> f.waitslots, announces |-> N,
           announced |-> A, fetching |-> F, requests |-> Q, alternates |-> L]
  <2>1. m = [f EXCEPT !.announced = A, !.announces = N, !.alternates = L, !.fetching = F, !.requests = Q]
    BY <1>1 DEF Expired, Maps
  <2> HIDE DEF A, N, L, F, Q
  <2> QED BY <2>1, <1>1 DEF Maps
<1>4. \A p \in late : p \in Peers /\ f.requests[p] # Nobody /\ f.requests[p] \in Request BY <1>2 DEF Requesting
<1>5. ASSUME NEW p \in late
      PROVE  /\ Q[p] \in Request /\ Q[p] # Nobody /\ Missing(Q[p]) = {}
  <2>1. f.requests[p] \in Request /\ p \in Peers BY <1>4
  <2>2. PICK q : q = f.requests[p] OBVIOUS
  <2>3. Q[p] = [q EXCEPT !.hashes = <<>>] BY <2>1, <2>2
  <2>4. Q[p] \in Request /\ Q[p].hashes = <<>> BY <2>1, <2>2, <2>3, ListFacts DEF Request
  <2>5. ToSet(<<>>) = {} BY ListFacts
  <2> HIDE DEF Q
  <2>6. Missing(Q[p]) = {} BY <2>4, <2>5 DEF Missing
  <2> QED BY <2>4, <2>6, FetcherAssumption
<1>6. \A p \in Peers \ late : Q[p] = f.requests[p] OBVIOUS
<1>7. Q \in [Peers -> Request \cup {Nobody}]
  <2>1. Q = [p \in Peers |-> Q[p]] OBVIOUS
  <2>2. \A p \in Peers : Q[p] \in Request \cup {Nobody} BY <1>2, <1>5, <1>6
  <2> HIDE DEF Q
  <2> QED BY <2>1, <2>2
<1>8. A \in [Hashes -> SUBSET Peers] /\ L \in [Hashes -> SUBSET Peers] /\ N \in [Peers -> SUBSET Hashes]
      /\ F \in [Hashes -> Peers \cup {Nobody}]
  BY <1>2
<1>9. ASSUME NEW h \in Hashes
      PROVE  /\ h \in all <=> f.fetching[h] \in late
             /\ \A p \in Peers : h \in back(p) <=> p \in late /\ f.fetching[h] = p
  BY <1>1, <1>4 DEF RequestAt
<1>10. \A h \in Hashes :
         /\ h \in all => A[h] = f.alternates[h] \ {f.fetching[h]} /\ L[h] = {} /\ F[h] = Nobody
         /\ h \notin all => A[h] = f.announced[h] /\ L[h] = f.alternates[h] /\ F[h] = f.fetching[h]
         /\ \A p \in Peers : h \in N[p] <=> h \in f.announces[p] /\ h \notin back(p)
  OBVIOUS
<1> HIDE DEF back, all, A, N, L, F, Q
<1>11. m \in Maps /\ m.waitlist = f.waitlist /\ m.waittime = f.waittime /\ m.waitslots = f.waitslots
       /\ m.announces = N /\ m.announced = A /\ m.fetching = F /\ m.requests = Q /\ m.alternates = L
  BY <1>2, <1>3, <1>7, <1>8 DEF Maps
<1>12. ASSUME NEW h \in Hashes PROVE StagedAt(m, h) /\ RequestAt(m, h)
  <2>1. StagedAt(f, h) /\ RequestAt(f, h) BY <1>1
  <2>2. CASE h \in all
    <3>1. m.announced[h] = f.alternates[h] \ {f.fetching[h]} /\ m.alternates[h] = {} /\ m.fetching[h] = Nobody
          /\ f.fetching[h] \in late
      BY <1>9, <1>10, <1>11, <2>2
    <3>2. f.fetching[h] \in Peers /\ f.fetching[h] # Nobody /\ f.alternates[h] # {} /\ f.announced[h] = {}
          /\ f.waitlist[h] = {}
      BY <1>4, <2>1, <3>1, FetcherAssumption DEF StagedAt
    <3>3. \A p \in Peers : h \in m.announces[p] <=> h \in f.announces[p] /\ f.fetching[h] # p
      BY <1>9, <1>10, <1>11, <3>1
    <3>4. StagedAt(m, h) BY <1>11, <2>1, <3>1, <3>2, <3>3 DEF StagedAt
    <3>5. ASSUME NEW p \in Peers PROVE ~(m.requests[p] # Nobody /\ h \in Missing(m.requests[p]))
      <4>1. CASE p \in late BY <1>5, <1>11, <4>1
      <4>2. CASE p \notin late BY <1>6, <1>11, <2>1, <3>1, <4>2 DEF RequestAt
      <4> QED BY <4>1, <4>2
    <3>6. RequestAt(m, h) BY <3>1, <3>5, FetcherAssumption DEF RequestAt
    <3> QED BY <3>4, <3>6
  <2>3. CASE h \notin all
    <3>1. m.announced[h] = f.announced[h] /\ m.alternates[h] = f.alternates[h] /\ m.fetching[h] = f.fetching[h]
          /\ f.fetching[h] \notin late
      BY <1>9, <1>10, <1>11, <2>3
    <3>2. \A p \in Peers : h \in m.announces[p] <=> h \in f.announces[p] BY <1>9, <1>10, <1>11, <3>1
    <3>3. StagedAt(m, h) BY <1>11, <2>1, <3>1, <3>2 DEF StagedAt
    <3>4. ASSUME NEW p \in Peers PROVE m.fetching[h] = p <=> m.requests[p] # Nobody /\ h \in Missing(m.requests[p])
      <4>1. CASE p \in late BY <1>5, <1>11, <3>1, <4>1
      <4>2. CASE p \notin late BY <1>6, <1>11, <2>1, <3>1, <4>2 DEF RequestAt
      <4> QED BY <4>1, <4>2
    <3> QED BY <3>3, <3>4 DEF RequestAt
  <2> QED BY <2>2, <2>3
<1> QED BY <1>11, <1>12, SoundAtAll

\* Dropped keeps the maps sound: of the peer nothing is left but alternates of other requests.
LEMMA DroppedSound ==
  ASSUME MapsSound(f), NEW p \in Peers, NEW m, m = Dropped(p)
  PROVE  /\ MapsSound(m) /\ m.waittime \subseteq f.waittime /\ Requesting(m) \subseteq Requesting(f)
         /\ f.waitslots[p] = {} => m.waittime = f.waittime
         /\ f.requests[p] = Nobody => \A h \in Hashes : m.announced[h] # {} => f.announced[h] # {}
<1> DEFINE open == IF f.requests[p] = Nobody THEN {} ELSE Missing(f.requests[p])
           back(h) == IF h \in open THEN f.alternates[h] ELSE f.announced[h]
           W == [h \in Hashes |-> IF h \in f.waitslots[p] THEN f.waitlist[h] \ {p} ELSE f.waitlist[h]]
           T == f.waittime \ {h \in f.waitslots[p] : f.waitlist[h] = {p}}
           S == [f.waitslots EXCEPT ![p] = {}]
           A == [h \in Hashes |-> IF h \in open \cup f.announces[p] THEN back(h) \ {p} ELSE f.announced[h]]
           L == [h \in Hashes |-> IF h \in open THEN {} ELSE f.alternates[h]]
           F == [h \in Hashes |-> IF h \in open THEN Nobody ELSE f.fetching[h]]
           Q == [f.requests EXCEPT ![p] = Nobody]
           N == [f.announces EXCEPT ![p] = {}]
<1>1. f \in Maps /\ \A h \in Hashes : StagedAt(f, h) /\ RequestAt(f, h) BY SoundAtAll
<1>2. /\ f.waitlist \in [Hashes -> SUBSET Peers] /\ f.waittime \in SUBSET Hashes
      /\ f.waitslots \in [Peers -> SUBSET Hashes] /\ f.announces \in [Peers -> SUBSET Hashes]
      /\ f.announced \in [Hashes -> SUBSET Peers] /\ f.fetching \in [Hashes -> Peers \cup {Nobody}]
      /\ f.requests \in [Peers -> Request \cup {Nobody}] /\ f.alternates \in [Hashes -> SUBSET Peers]
  BY <1>1, FieldTypes
<1>3. m = [waitlist |-> W, waittime |-> T, waitslots |-> S, announces |-> N,
           announced |-> A, fetching |-> F, requests |-> Q, alternates |-> L]
  <2>1. m = [f EXCEPT !.waitlist = W, !.waittime = T, !.waitslots = S, !.announced = A, !.alternates = L,
                      !.fetching = F, !.requests = Q, !.announces = N] BY <1>1 DEF Dropped, Maps
  <2> HIDE DEF A, N, L, F, Q, W, T, S
  <2> QED BY <2>1, <1>1 DEF Maps
<1>4. \A h \in Hashes : h \in open <=> f.fetching[h] = p BY <1>1 DEF RequestAt
<1>5. A \in [Hashes -> SUBSET Peers] /\ L \in [Hashes -> SUBSET Peers] /\ N \in [Peers -> SUBSET Hashes]
      /\ F \in [Hashes -> Peers \cup {Nobody}] /\ W \in [Hashes -> SUBSET Peers] /\ T \in SUBSET Hashes
      /\ S \in [Peers -> SUBSET Hashes] /\ Q \in [Peers -> Request \cup {Nobody}]
  BY <1>2
<1>6. \A h \in Hashes :
         /\ h \in open => A[h] = f.alternates[h] \ {p} /\ L[h] = {} /\ F[h] = Nobody
         /\ h \notin open => L[h] = f.alternates[h] /\ F[h] = f.fetching[h]
         /\ h \notin open /\ h \in f.announces[p] => A[h] = f.announced[h] \ {p}
         /\ h \notin open /\ h \notin f.announces[p] => A[h] = f.announced[h]
         /\ h \in f.waitslots[p] => W[h] = f.waitlist[h] \ {p}
         /\ h \notin f.waitslots[p] => W[h] = f.waitlist[h]
         /\ h \in T <=> h \in f.waittime /\ ~(h \in f.waitslots[p] /\ f.waitlist[h] = {p})
  OBVIOUS
<1>7. /\ N[p] = {} /\ S[p] = {} /\ Q[p] = Nobody
      /\ \A q \in Peers : q # p => N[q] = f.announces[q] /\ S[q] = f.waitslots[q] /\ Q[q] = f.requests[q]
  BY <1>2
<1>8. T \subseteq f.waittime /\ (f.requests[p] = Nobody => open = {}) OBVIOUS
<1> HIDE DEF open, back, A, N, L, F, Q, W, T, S
<1>9. m \in Maps /\ m.waitlist = W /\ m.waittime = T /\ m.waitslots = S
       /\ m.announces = N /\ m.announced = A /\ m.fetching = F /\ m.requests = Q /\ m.alternates = L
  BY <1>3, <1>5 DEF Maps
<1>10. ASSUME NEW h \in Hashes PROVE StagedAt(m, h) /\ RequestAt(m, h)
  <2>1. StagedAt(f, h) /\ RequestAt(f, h) BY <1>1
  <2>2. /\ h \in m.waittime <=> m.waitlist[h] # {}
        /\ \A q \in Peers : h \in m.waitslots[q] <=> q \in m.waitlist[h]
        /\ m.waitlist[h] \subseteq f.waitlist[h]
    <3>1. h \in m.waitslots[p] <=> p \in m.waitlist[h] BY <1>6, <1>7, <1>9, <2>1 DEF StagedAt
    <3>2. \A q \in Peers : q # p => (h \in m.waitslots[q] <=> q \in m.waitlist[h])
      BY <1>6, <1>7, <1>9, <2>1 DEF StagedAt
    <3>3. h \in m.waittime <=> m.waitlist[h] # {}
      <4>1. CASE h \in f.waitslots[p]
        BY <2>1, <4>1, <1>6, <1>9 DEF StagedAt
      <4>2. CASE h \notin f.waitslots[p] BY <1>6, <1>9, <2>1, <4>2 DEF StagedAt
      <4> QED BY <4>1, <4>2
    <3>4. m.waitlist[h] \subseteq f.waitlist[h] BY <1>6, <1>9
    <3> QED BY <3>1, <3>2, <3>3, <3>4
  <2>3. CASE h \in open
    <3>1. m.announced[h] = f.alternates[h] \ {p} /\ m.alternates[h] = {} /\ m.fetching[h] = Nobody
          /\ f.fetching[h] = p
      BY <1>4, <1>6, <1>9, <2>3
    <3>2. f.fetching[h] # Nobody /\ f.alternates[h] # {} /\ f.announced[h] = {} /\ f.waitlist[h] = {}
      BY <2>1, <3>1, FetcherAssumption DEF StagedAt
    <3>3. \A q \in Peers : h \in m.announces[q] => q # p /\ h \in f.announces[q] BY <1>7, <1>9
    <3>4. \A q \in Peers : h \in m.announces[q] => q \in m.announced[h] BY <2>1, <3>1, <3>2, <3>3 DEF StagedAt
    <3>5. StagedAt(m, h) BY <2>2, <3>1, <3>2, <3>4 DEF StagedAt
    <3>6. RequestAt(m, h) BY <1>7, <1>9, <2>1, <3>1, FetcherAssumption DEF RequestAt
    <3> QED BY <3>5, <3>6
  <2>4. CASE h \notin open
    <3>1. m.alternates[h] = f.alternates[h] /\ m.fetching[h] = f.fetching[h] /\ f.fetching[h] # p
          /\ m.announced[h] \subseteq f.announced[h] /\ f.announced[h] \ {p} \subseteq m.announced[h]
      BY <1>4, <1>6, <1>9, <2>4
    <3>2. \A q \in Peers : h \in m.announces[q] => q # p /\ h \in f.announces[q] BY <1>7, <1>9
    <3>3. \A q \in Peers : h \in m.announces[q] => q \in m.announced[h] \cup m.alternates[h]
      BY <2>1, <3>1, <3>2 DEF StagedAt
    <3>4. /\ m.waitlist[h] # {} => m.announced[h] = {} /\ m.alternates[h] = {}
          /\ m.announced[h] # {} => m.alternates[h] = {}
          /\ m.fetching[h] # Nobody <=> m.alternates[h] # {}
      BY <2>1, <2>2, <3>1 DEF StagedAt
    <3>5. StagedAt(m, h) BY <2>2, <3>3, <3>4 DEF StagedAt
    <3>6. RequestAt(m, h) BY <1>7, <1>9, <2>1, <3>1 DEF RequestAt
    <3> QED BY <3>5, <3>6
  <2> QED BY <2>3, <2>4
<1>11. Requesting(m) \subseteq Requesting(f) BY <1>7, <1>9 DEF Requesting
<1>12. f.waitslots[p] = {} => m.waittime = f.waittime BY <1>2, <1>5, <1>6, <1>8, <1>9
<1>13. f.requests[p] = Nobody => \A h \in Hashes : m.announced[h] # {} => f.announced[h] # {} BY <1>6, <1>8, <1>9
<1>14. MapsSound(m) BY <1>9, <1>10, SoundAtAll
<1> QED BY <1>8, <1>9, <1>11, <1>12, <1>13, <1>14
\* Between a reply and what is done about the rest of the request of p: what was
\* delivered is asked of nobody, and only p may still miss it.
HalfAnswered(m, p, hashes) ==
  /\ m \in Maps
  /\ \A h \in Hashes : StagedAt(m, h)
  /\ \A h \in Hashes \ hashes : RequestAt(m, h)
  /\ \A h \in hashes : /\ m.fetching[h] = Nobody
                       /\ \A q \in Peers \ {p} : m.requests[q] = Nobody \/ h \notin Missing(m.requests[q])

\* Delivered clears the hashes, and all that misses them afterwards is a request that is answered.
LEMMA DeliveredHolds ==
  ASSUME MapsSound(f), NEW p \in Peers, NEW hashes \in SUBSET Hashes, NEW direct \in BOOLEAN,
         NEW m, m = Delivered(p, hashes, direct)
  PROVE  /\ HalfAnswered(m, p, hashes) /\ m.waittime \subseteq f.waittime /\ Requesting(m) = Requesting(f)
         /\ ~direct => MapsSound(m)
         /\ \A h \in Hashes : m.announced[h] # {} => f.announced[h] # {}
<1> DEFINE waited == {h \in hashes : f.waitlist[h] # {}}
           rest == hashes \ waited
           Clear(map, S) == [h \in Hashes |-> IF h \in S THEN {} ELSE map[h]]
           stolen(q) == {h \in rest : Steals(p, direct, h) /\ f.fetching[h] = q}
           W == Clear(f.waitlist, waited)
           T == f.waittime \ waited
           S == [q \in Peers |-> f.waitslots[q] \ waited]
           N == [q \in Peers |-> f.announces[q] \ rest]
           A == Clear(f.announced, rest)
           L == Clear(f.alternates, rest)
           Q == [q \in Peers |-> IF stolen(q) = {} THEN f.requests[q]
                                 ELSE [f.requests[q] EXCEPT !.stolen = f.requests[q].stolen \cup stolen(q)]]
           F == [h \in Hashes |-> IF h \in rest THEN Nobody ELSE f.fetching[h]]
<1>1. f \in Maps /\ \A h \in Hashes : StagedAt(f, h) /\ RequestAt(f, h) BY SoundAtAll
<1>2. /\ f.waitlist \in [Hashes -> SUBSET Peers] /\ f.waittime \in SUBSET Hashes
      /\ f.waitslots \in [Peers -> SUBSET Hashes] /\ f.announces \in [Peers -> SUBSET Hashes]
      /\ f.announced \in [Hashes -> SUBSET Peers] /\ f.fetching \in [Hashes -> Peers \cup {Nobody}]
      /\ f.requests \in [Peers -> Request \cup {Nobody}] /\ f.alternates \in [Hashes -> SUBSET Peers]
  BY <1>1, FieldTypes
<1>3. m = [waitlist |-> W, waittime |-> T, waitslots |-> S, announces |-> N,
           announced |-> A, fetching |-> F, requests |-> Q, alternates |-> L]
  <2>1. /\ m.waitlist = W /\ m.waittime = T /\ m.waitslots = S /\ m.announces = N
        /\ m.announced = A /\ m.fetching = F /\ m.alternates = L
    BY <1>1 DEF Delivered, Maps
  <2>2. m.requests = Q BY <1>1 DEF Delivered, Maps
  <2>3. m = [waitlist |-> m.waitlist, waittime |-> m.waittime, waitslots |-> m.waitslots,
             announces |-> m.announces, announced |-> m.announced, fetching |-> m.fetching,
             requests |-> m.requests, alternates |-> m.alternates] BY <1>1 DEF Delivered, Maps
  <2> HIDE DEF A, N, L, F, Q, W, T, S
  <2> QED BY <2>1, <2>2, <2>3
<1>4. \A h \in hashes : h \in waited <=> f.waitlist[h] # {} OBVIOUS
<1>5. \A h \in hashes : h \in rest <=> h \notin waited OBVIOUS
<1>6. A \in [Hashes -> SUBSET Peers] /\ L \in [Hashes -> SUBSET Peers] /\ N \in [Peers -> SUBSET Hashes]
      /\ F \in [Hashes -> Peers \cup {Nobody}] /\ W \in [Hashes -> SUBSET Peers] /\ T \in SUBSET Hashes
      /\ S \in [Peers -> SUBSET Hashes]
  BY <1>2
<1>7. \A h \in Hashes :
         /\ h \in rest => A[h] = {} /\ L[h] = {} /\ F[h] = Nobody
         /\ h \notin rest => A[h] = f.announced[h] /\ L[h] = f.alternates[h] /\ F[h] = f.fetching[h]
         /\ h \in waited => W[h] = {}
         /\ h \notin waited => W[h] = f.waitlist[h]
         /\ h \in T <=> h \in f.waittime /\ h \notin waited
         /\ \A q \in Peers : /\ h \in N[q] <=> h \in f.announces[q] /\ h \notin rest
                             /\ h \in S[q] <=> h \in f.waitslots[q] /\ h \notin waited
  OBVIOUS
<1>8. \A q \in Peers : \A h \in stolen(q) : h \in rest /\ f.fetching[h] = q OBVIOUS
<1>9. \A q \in Peers : \A h \in rest : f.fetching[h] = q /\ (q # p \/ ~direct) => h \in stolen(q)
  BY FetcherAssumption DEF Steals
<1>10. ASSUME NEW q \in Peers
       PROVE  /\ Q[q] \in Request \cup {Nobody} /\ (Q[q] # Nobody <=> f.requests[q] # Nobody)
              /\ f.requests[q] # Nobody => Missing(Q[q]) = Missing(f.requests[q]) \ stolen(q)
  <2>1. CASE stolen(q) = {}
    <3>1. Q[q] = f.requests[q] BY <2>1
    <3> HIDE DEF Q, stolen
    <3> QED BY <1>2, <2>1, <3>1
  <2>2. CASE stolen(q) # {}
    <3>1. PICK h \in rest : h \in stolen(q) BY <1>8, <2>2
    <3>2. f.requests[q] # Nobody /\ f.requests[q] \in Request BY <1>1, <1>2, <1>8, <3>1 DEF RequestAt
    <3>3. PICK r : r = f.requests[q] OBVIOUS
    <3>4. Q[q] = [r EXCEPT !.stolen = r.stolen \cup stolen(q)] BY <2>2, <3>3
    <3>5. stolen(q) \subseteq Hashes OBVIOUS
    <3> HIDE DEF Q, stolen
    <3>6. Q[q] \in Request /\ Q[q].hashes = r.hashes /\ Q[q].stolen = r.stolen \cup stolen(q)
      BY <3>2, <3>3, <3>4, <3>5 DEF Request
    <3>7. Missing(Q[q]) = Missing(r) \ stolen(q) BY <3>6 DEF Missing
    <3> QED BY <3>2, <3>3, <3>6, <3>7, FetcherAssumption
  <2> QED BY <2>1, <2>2
<1>11. Q \in [Peers -> Request \cup {Nobody}]
  <2>1. Q = [q \in Peers |-> Q[q]] OBVIOUS
  <2> HIDE DEF Q
  <2> QED BY <1>10, <2>1
<1>12. rest \subseteq hashes /\ waited \subseteq hashes /\ T \subseteq f.waittime OBVIOUS
<1> HIDE DEF waited, rest, stolen, A, N, L, F, Q, W, T, S
<1>13. m \in Maps /\ m.waitlist = W /\ m.waittime = T /\ m.waitslots = S
       /\ m.announces = N /\ m.announced = A /\ m.fetching = F /\ m.requests = Q /\ m.alternates = L
  BY <1>3, <1>6, <1>11 DEF Maps
<1>14. ASSUME NEW h \in Hashes PROVE StagedAt(m, h)
  <2>1. StagedAt(f, h) BY <1>1
  <2>2. CASE h \in waited
    <3>1. f.waitlist[h] # {} /\ h \notin rest /\ f.announced[h] = {} /\ f.alternates[h] = {}
      BY <1>4, <1>5, <1>12, <2>1, <2>2 DEF StagedAt
    <3> QED BY <1>7, <1>13, <2>1, <2>2, <3>1 DEF StagedAt
  <2>3. CASE h \in rest
    <3>1. f.waitlist[h] = {} /\ h \notin waited BY <1>4, <1>5, <1>12, <2>3
    <3> QED BY <1>7, <1>13, <2>1, <2>3, <3>1 DEF StagedAt
  <2>4. CASE h \notin waited /\ h \notin rest BY <1>7, <1>13, <2>1, <2>4 DEF StagedAt
  <2> QED BY <2>2, <2>3, <2>4
<1>15. ASSUME NEW h \in Hashes \ hashes PROVE RequestAt(m, h)
  BY <1>1, <1>12, <1>7, <1>13, <1>8, <1>10 DEF RequestAt
<1>16. ASSUME NEW h \in hashes
       PROVE  /\ m.fetching[h] = Nobody
              /\ \A q \in Peers : q # p \/ ~direct => m.requests[q] = Nobody \/ h \notin Missing(m.requests[q])
  <2>0. StagedAt(f, h) /\ RequestAt(f, h) BY <1>1
  <2>1. CASE h \in rest
    <3>1. m.fetching[h] = Nobody BY <1>7, <1>13, <2>1
    <3>2. ASSUME NEW q \in Peers, q # p \/ ~direct, m.requests[q] # Nobody PROVE h \notin Missing(m.requests[q])
      <4>1. f.requests[q] # Nobody /\ Missing(m.requests[q]) = Missing(f.requests[q]) \ stolen(q) BY <1>10, <1>13, <3>2
      <4>2. CASE f.fetching[h] = q BY <1>9, <2>1, <3>2, <4>1, <4>2
      <4>3. CASE f.fetching[h] # q BY <2>0, <4>1, <4>3 DEF RequestAt
      <4> QED BY <4>2, <4>3
    <3> QED BY <3>1, <3>2
  <2>2. CASE h \in waited
    <3>1. h \notin rest /\ f.waitlist[h] # {} BY <1>4, <1>5, <2>2
    <3>2. f.fetching[h] = Nobody /\ m.fetching[h] = Nobody BY <1>7, <1>13, <2>0, <3>1 DEF StagedAt
    <3>3. \A q \in Peers : f.requests[q] = Nobody \/ h \notin Missing(f.requests[q])
      BY <2>0, <3>2, FetcherAssumption DEF RequestAt
    <3> QED BY <1>10, <1>13, <3>2, <3>3
  <2> QED BY <1>5, <2>1, <2>2
<1>17. HalfAnswered(m, p, hashes) BY <1>13, <1>14, <1>15, <1>16 DEF HalfAnswered
<1>18. ASSUME ~direct PROVE MapsSound(m)
  <2>1. \A h \in hashes : RequestAt(m, h) BY <1>16, <1>18, FetcherAssumption DEF RequestAt
  <2> QED BY <1>13, <1>14, <1>15, <2>1, SoundAtAll
<1>19. Requesting(m) = Requesting(f) BY <1>10, <1>13 DEF Requesting
<1>20. \A h \in Hashes : m.announced[h] # {} => f.announced[h] # {} BY <1>7, <1>13
<1> QED BY <1>12, <1>13, <1>17, <1>18, <1>19, <1>20

\* A reply that found no request of p, or one that is answered now, leaves sound maps.
LEMMA AnsweredSound ==
  ASSUME NEW p \in Peers, NEW hashes \in SUBSET Hashes, NEW m, HalfAnswered(m, p, hashes)
  PROVE  /\ m.requests[p] = Nobody => MapsSound(m)
         /\ m.requests[p] # Nobody =>
              /\ MapsSound(Answered(m, p, hashes)) /\ Answered(m, p, hashes).waittime = m.waittime
              /\ Requesting(Answered(m, p, hashes)) \subseteq Requesting(m)
<1>1. m \in Maps BY DEF HalfAnswered
<1>2. /\ m.waitlist \in [Hashes -> SUBSET Peers] /\ m.waittime \in SUBSET Hashes
      /\ m.waitslots \in [Peers -> SUBSET Hashes] /\ m.announces \in [Peers -> SUBSET Hashes]
      /\ m.announced \in [Hashes -> SUBSET Peers] /\ m.fetching \in [Hashes -> Peers \cup {Nobody}]
      /\ m.requests \in [Peers -> Request \cup {Nobody}] /\ m.alternates \in [Hashes -> SUBSET Peers]
  BY <1>1, FieldTypes
<1>3. ASSUME m.requests[p] = Nobody PROVE MapsSound(m)
  BY <1>3, FetcherAssumption, <1>1, SoundAtAll DEF RequestAt, HalfAnswered
<1>4. ASSUME m.requests[p] # Nobody
      PROVE  /\ MapsSound(Answered(m, p, hashes)) /\ Answered(m, p, hashes).waittime = m.waittime
             /\ Requesting(Answered(m, p, hashes)) \subseteq Requesting(m)
  <2> DEFINE req == m.requests[p]
             open == Missing(req)
             lost == {req.hashes[i] : i \in 1..(Cutoff(req.hashes, hashes) - 1) \cap DOMAIN req.hashes}
                       \cap (open \ hashes)
             others(h) == IF h \in lost THEN m.alternates[h] \ {p} ELSE m.alternates[h]
             N == [m.announces EXCEPT ![p] = m.announces[p] \ lost]
             A == [h \in Hashes |-> IF h \in open \ hashes /\ others(h) # {} THEN others(h) ELSE m.announced[h]]
             L == [h \in Hashes |-> IF h \in open THEN {} ELSE m.alternates[h]]
             F == [h \in Hashes |-> IF h \in open THEN Nobody ELSE m.fetching[h]]
             Q == [m.requests EXCEPT ![p] = Nobody]
  <2>1. PICK n : n = Answered(m, p, hashes) OBVIOUS
  <2>2. n = [waitlist |-> m.waitlist, waittime |-> m.waittime, waitslots |-> m.waitslots, announces |-> N,
             announced |-> A, fetching |-> F, requests |-> Q, alternates |-> L]
    <3>1. n = [m EXCEPT !.requests = Q, !.announces = N, !.announced = A, !.alternates = L, !.fetching = F]
      BY <1>1, <2>1 DEF Answered, Maps
    <3> HIDE DEF A, N, L, F, Q
    <3> QED BY <3>1, <1>1 DEF Maps
  <2>3. lost \subseteq open \ hashes OBVIOUS
  <2> HIDE DEF lost
  <2>4. A \in [Hashes -> SUBSET Peers] /\ L \in [Hashes -> SUBSET Peers] /\ N \in [Peers -> SUBSET Hashes]
        /\ F \in [Hashes -> Peers \cup {Nobody}] /\ Q \in [Peers -> Request \cup {Nobody}]
    BY <1>2
  <2>5. \A h \in Hashes :
           /\ h \in open => L[h] = {} /\ F[h] = Nobody
           /\ h \notin open => L[h] = m.alternates[h] /\ F[h] = m.fetching[h]
           /\ h \notin open \/ h \in hashes => A[h] = m.announced[h]
           /\ h \in open \ hashes => \/ others(h) # {} /\ A[h] = others(h)
                                     \/ others(h) = {} /\ A[h] = m.announced[h]
    OBVIOUS
  <2>6. \A h \in Hashes : /\ h \in lost => others(h) = m.alternates[h] \ {p}
                          /\ h \notin lost => others(h) = m.alternates[h]
    OBVIOUS
  <2>7. /\ N[p] = m.announces[p] \ lost /\ Q[p] = Nobody
        /\ \A q \in Peers : q # p => N[q] = m.announces[q] /\ Q[q] = m.requests[q]
    BY <1>2
  <2>8. open = Missing(m.requests[p]) OBVIOUS
  <2> HIDE DEF open, others, A, N, L, F, Q
  <2>9. n \in Maps /\ n.waitlist = m.waitlist /\ n.waittime = m.waittime /\ n.waitslots = m.waitslots
        /\ n.announces = N /\ n.announced = A /\ n.fetching = F /\ n.requests = Q /\ n.alternates = L
    BY <1>2, <2>2, <2>4 DEF Maps
  <2>10. \A h \in Hashes : StagedAt(m, h) BY DEF HalfAnswered
  <2>11. \A h \in Hashes \ hashes : m.fetching[h] = p <=> h \in open BY <1>4, <2>8 DEF HalfAnswered, RequestAt
  <2>12. \A h \in hashes : m.fetching[h] = Nobody /\ m.alternates[h] = {} BY <2>10 DEF HalfAnswered, StagedAt
  <2>13. ASSUME NEW h \in Hashes, NEW q \in Peers, q # p
         PROVE  m.fetching[h] = q <=> m.requests[q] # Nobody /\ h \in Missing(m.requests[q])
    <3>1. CASE h \in hashes BY <2>12, <2>13, <3>1, FetcherAssumption DEF HalfAnswered
    <3>2. CASE h \notin hashes BY <3>2 DEF HalfAnswered, RequestAt
    <3> QED BY <3>1, <3>2
  <2>14. ASSUME NEW h \in Hashes PROVE StagedAt(n, h) /\ RequestAt(n, h)
    <3>1. CASE h \in open \ hashes
      <4>1. m.fetching[h] = p /\ m.alternates[h] # {} /\ m.announced[h] = {} /\ m.waitlist[h] = {}
        BY <2>10, <2>11, <3>1, FetcherAssumption DEF StagedAt
      <4>2. n.announced[h] = others(h) /\ n.alternates[h] = {} /\ n.fetching[h] = Nobody BY <2>5, <2>9, <3>1, <4>1
      <4>3. \A q \in Peers : h \in n.announces[q] => q \in others(h)
        BY <2>10, <4>1, <2>7, <2>9, <2>6 DEF StagedAt
      <4>4. StagedAt(n, h) BY <2>9, <2>10, <4>1, <4>2, <4>3 DEF StagedAt
      <4>5. RequestAt(n, h) BY <2>7, <2>9, <2>13, <4>1, <4>2, FetcherAssumption DEF RequestAt
      <4> QED BY <4>4, <4>5
    <3>2. CASE h \in hashes
      <4>1. m.fetching[h] = Nobody /\ m.alternates[h] = {} BY <2>12, <3>2
      <4>2. n.announced[h] = m.announced[h] /\ n.alternates[h] = {} /\ n.fetching[h] = Nobody BY <2>5, <2>9, <3>2, <4>1
      <4>3. \A q \in Peers : h \in n.announces[q] => h \in m.announces[q] BY <2>7, <2>9
      <4>4. StagedAt(n, h) BY <2>9, <2>10, <4>1, <4>2, <4>3 DEF StagedAt
      <4>5. RequestAt(n, h) BY <2>7, <2>9, <2>13, <4>1, <4>2, FetcherAssumption DEF RequestAt
      <4> QED BY <4>4, <4>5
    <3>3. CASE h \notin open /\ h \notin hashes
      <4>1. n.announced[h] = m.announced[h] /\ n.alternates[h] = m.alternates[h]
            /\ n.fetching[h] = m.fetching[h] /\ m.fetching[h] # p
        BY <2>5, <2>9, <2>11, <3>3
      <4>2. \A q \in Peers : h \in n.announces[q] => h \in m.announces[q] BY <2>7, <2>9
      <4>3. StagedAt(n, h) BY <2>9, <2>10, <4>1, <4>2 DEF StagedAt
      <4>4. RequestAt(n, h) BY <2>7, <2>9, <2>13, <4>1, FetcherAssumption DEF RequestAt
      <4> QED BY <4>3, <4>4
    <3> QED BY <3>1, <3>2, <3>3
  <2>15. MapsSound(n) BY <2>9, <2>14, SoundAtAll
  <2>16. Requesting(n) \subseteq Requesting(m) BY <2>7, <2>9 DEF Requesting
  <2> QED BY <2>1, <2>9, <2>15, <2>16
<1> QED BY <1>3, <1>4

-----------------------------------------------------------------------------
(* The steps.                                                              *)

\* The part of the invariant about the maps and their timers.
LoopInv == MapsSound(f) /\ TimeoutAhead(f, timeoutArmed) /\ WaitAhead(f, waitArmed)

\* No request is sent: the maps keep their timer.
LEMMA NoFetchesHolds ==
  ASSUME NEW m, MapsSound(m), NEW armed, NEW sent \in Asks, TimeoutAhead(m, armed), NoFetches(m, armed, sent)
  PROVE  MapsSound(f') /\ f'.waittime = m.waittime /\ TimeoutAhead(f', timeoutArmed') /\ asked' \in Asks
BY DEF NoFetches

\* Announced: what is tracked has its timers.
LEMMA AnnouncedHolds ==
  ASSUME LoopInv, MailTypes, NEW p \in Peers, Announced(p) PROVE LoopInv' /\ asked' \in Asks
<1>1. mail[p] \in Message /\ mail[p].hashes \in SUBSET Hashes BY DEF Announced, MailTypes, Message
<1>2. PICK given : given = mail[p].hashes OBVIOUS
<1>3. PICK hashes \in Admitted(p, given) :
        /\ waitArmed' = (waitArmed \/ (f.waittime = {} /\ Tracked(p, hashes).waittime # {}))
        /\ IF f.announces[p] = {} /\ Tracked(p, hashes).announces[p] # {}
           THEN ScheduleFetches(Tracked(p, hashes), {p}, timeoutArmed, asked)
           ELSE NoFetches(Tracked(p, hashes), timeoutArmed, asked) BY <1>2 DEF Announced
<1>4. hashes \in SUBSET Hashes BY <1>1, <1>2 DEF Admitted
<1>5. PICK m : m = Tracked(p, hashes) OBVIOUS
<1>6. MapsSound(f) /\ TimeoutAhead(f, timeoutArmed) /\ WaitAhead(f, waitArmed) /\ asked \in Asks
  BY DEF LoopInv, MailTypes, Asks
<1>7. /\ MapsSound(m) /\ m.requests = f.requests /\ f.waittime \subseteq m.waittime
      /\ \A h \in Hashes : m.announced[h] # {} => f.announced[h] # {}
  BY <1>4, <1>5, <1>6, TrackedSound
<1>8. Requesting(m) = Requesting(f) BY <1>7 DEF Requesting
<1>9. Requesting(m) # {} => timeoutArmed BY <1>6, <1>8 DEF TimeoutAhead
<1>10. (\E h \in Hashes : m.announced[h] # {}) => timeoutArmed BY <1>6, <1>7 DEF TimeoutAhead
<1>11. MapsSound(f') /\ f'.waittime = m.waittime /\ TimeoutAhead(f', timeoutArmed') /\ asked' \in Asks
  <2>1. CASE ScheduleFetches(m, {p}, timeoutArmed, asked)
    BY <1>10, <1>6, <1>7, <1>9, <2>1, ScheduleHolds
  <2>2. CASE NoFetches(m, timeoutArmed, asked)
    BY <1>9, <1>10, <1>6, <1>7, <2>2, NoFetchesHolds DEF TimeoutAhead
  <2> QED BY <1>3, <1>5, <2>1, <2>2
<1>12. WaitAhead(f', waitArmed') BY <1>3, <1>5, <1>6, <1>11 DEF WaitAhead
<1> QED BY <1>11, <1>12 DEF LoopInv

\* WaitTrigger: what joins the queue is fetched, or the timer for it runs.
LEMMA WaitTriggerHolds ==
  ASSUME LoopInv, MailTypes, WaitTrigger PROVE LoopInv' /\ asked' \in Asks
<1>1. PICK expired \in SUBSET f.waittime :
        /\ waitArmed' = (Queued(expired).waittime # {})
        /\ LET actives == UNION {f.waitlist[h] : h \in expired} IN
           IF actives # {} THEN ScheduleFetches(Queued(expired), actives, timeoutArmed, asked)
                           ELSE NoFetches(f, timeoutArmed, asked) BY DEF WaitTrigger
<1>2. PICK m : m = Queued(expired) OBVIOUS
<1> DEFINE actives == UNION {f.waitlist[h] : h \in expired}
<1>3. MapsSound(f) /\ TimeoutAhead(f, timeoutArmed) /\ WaitAhead(f, waitArmed) /\ asked \in Asks
  BY DEF LoopInv, MailTypes, Asks
<1>4. /\ MapsSound(m) /\ m.requests = f.requests /\ m.waittime = f.waittime \ expired
      /\ \A h \in Hashes : m.announced[h] # {} => f.announced[h] # {} \/ expired # {}
      /\ expired # {} => \E p \in actives : m.announces[p] # {}
  BY <1>2, <1>3, QueuedSound
<1>5. actives \in SUBSET Peers BY <1>3 DEF MapsSound, Maps
<1>6. IF actives # {} THEN ScheduleFetches(m, actives, timeoutArmed, asked) ELSE NoFetches(f, timeoutArmed, asked)
  BY <1>1, <1>2
<1> HIDE DEF actives
<1>7. CASE actives # {}
  <2>1. ScheduleFetches(m, actives, timeoutArmed, asked) BY <1>6, <1>7
  <2>2. Requesting(m) = Requesting(f) BY <1>4 DEF Requesting
  <2>3. Requesting(m) # {} => timeoutArmed BY <1>3, <2>2 DEF TimeoutAhead
  <2>4. (\E h \in Hashes : m.announced[h] # {}) => timeoutArmed \/ \E p \in actives : m.announces[p] # {}
    BY <1>3, <1>4 DEF TimeoutAhead
  <2>5. MapsSound(f') /\ f'.waittime = m.waittime /\ TimeoutAhead(f', timeoutArmed') /\ asked' \in Asks
    BY <1>3, <1>4, <1>5, <2>1, <2>3, <2>4, ScheduleHolds
  <2>6. WaitAhead(f', waitArmed') BY <1>1, <1>2, <2>5 DEF WaitAhead
  <2> QED BY <2>5, <2>6 DEF LoopInv
<1>8. CASE actives = {}
  <2>1. NoFetches(f, timeoutArmed, asked) /\ expired = {} BY <1>4, <1>6, <1>8
  <2>2. MapsSound(f') /\ f'.waittime = f.waittime /\ TimeoutAhead(f', timeoutArmed') /\ asked' \in Asks
    BY <1>3, <2>1, NoFetchesHolds
  <2>3. WaitAhead(f', waitArmed') BY <1>1, <1>2, <1>4, <2>1, <2>2 DEF WaitAhead
  <2> QED BY <2>2, <2>3 DEF LoopInv
<1> QED BY <1>7, <1>8

\* TimeoutTrigger: the timer goes on.
LEMMA TimeoutTriggerHolds ==
  ASSUME LoopInv, MailTypes, TimeoutTrigger PROVE LoopInv' /\ asked' \in Asks
<1> DEFINE on == TRUE
<1>1. PICK late \in SUBSET Requesting(f) :
        ScheduleFetches(Expired(late), {p \in Peers : Expired(late).announces[p] # {}}, on, asked) BY DEF TimeoutTrigger
<1>2. on OBVIOUS
<1> HIDE DEF on
<1>3. PICK m : m = Expired(late) OBVIOUS
<1>4. MapsSound(f) /\ WaitAhead(f, waitArmed) /\ asked \in Asks /\ waitArmed' = waitArmed
  BY DEF LoopInv, MailTypes, Asks, TimeoutTrigger
<1>5. MapsSound(m) /\ m.waittime = f.waittime BY <1>3, <1>4, ExpiredSound
<1> DEFINE actives == {p \in Peers : m.announces[p] # {}}
<1>6. actives \in SUBSET Peers /\ ScheduleFetches(m, actives, on, asked) BY <1>1, <1>3
<1> HIDE DEF actives
<1>7. MapsSound(f') /\ f'.waittime = m.waittime /\ TimeoutAhead(f', timeoutArmed') /\ asked' \in Asks
  BY <1>2, <1>4, <1>5, <1>6, ScheduleHolds
<1>8. WaitAhead(f', waitArmed') BY <1>4, <1>5, <1>7 DEF WaitAhead
<1> QED BY <1>7, <1>8 DEF LoopInv

\* Cleanup: what a reply lacks has the timer that its request had.
LEMMA CleanupHolds ==
  ASSUME LoopInv, MailTypes, NEW p \in Peers, Cleanup(p) PROVE LoopInv' /\ asked' \in Asks
<1>1. mail[p] \in Message /\ mail[p].hashes \in SUBSET Hashes BY DEF Cleanup, MailTypes, Message
<1> DEFINE direct == mail[p].kind = "reply"
<1>2. PICK hashes \in SUBSET Hashes : hashes = mail[p].hashes BY <1>1
<1>3. direct \in BOOLEAN OBVIOUS
<1>4. PICK m : m = Delivered(p, hashes, direct) OBVIOUS
<1>5. PICK n : n = Answered(m, p, hashes) OBVIOUS
<1>6. IF direct /\ m.requests[p] # Nobody
      THEN ScheduleFetches(n, {q \in Peers : n.announces[q] # {}}, timeoutArmed, asked)
      ELSE NoFetches(m, timeoutArmed, asked) BY <1>2, <1>4, <1>5 DEF Cleanup
<1> HIDE DEF direct
<1>7. MapsSound(f) /\ TimeoutAhead(f, timeoutArmed) /\ WaitAhead(f, waitArmed) /\ asked \in Asks
      /\ waitArmed' = waitArmed
  BY DEF LoopInv, MailTypes, Asks, Cleanup
<1>8. /\ HalfAnswered(m, p, hashes) /\ m.waittime \subseteq f.waittime /\ Requesting(m) = Requesting(f)
      /\ ~direct => MapsSound(m)
      /\ \A h \in Hashes : m.announced[h] # {} => f.announced[h] # {}
  BY <1>3, <1>4, <1>7, DeliveredHolds
<1>9. /\ m.requests[p] = Nobody => MapsSound(m)
      /\ m.requests[p] # Nobody => MapsSound(n) /\ n.waittime = m.waittime /\ Requesting(n) \subseteq Requesting(m)
  BY <1>5, <1>8, AnsweredSound
<1>10. CASE direct /\ m.requests[p] # Nobody
  <2> DEFINE actives == {q \in Peers : n.announces[q] # {}}
  <2>1. actives \in SUBSET Peers /\ ScheduleFetches(n, actives, timeoutArmed, asked) BY <1>6, <1>10
  <2> HIDE DEF actives
  <2>2. p \in Requesting(f) BY <1>8, <1>10 DEF Requesting
  <2>3. timeoutArmed BY <1>7, <2>2 DEF TimeoutAhead
  <2>4. MapsSound(f') /\ f'.waittime = n.waittime /\ TimeoutAhead(f', timeoutArmed') /\ asked' \in Asks
    BY <1>7, <1>9, <1>10, <2>1, <2>3, ScheduleHolds
  <2>5. WaitAhead(f', waitArmed') BY <1>7, <1>8, <1>9, <1>10, <2>4 DEF WaitAhead
  <2> QED BY <2>4, <2>5 DEF LoopInv
<1>11. CASE ~(direct /\ m.requests[p] # Nobody)
  BY <1>6, <1>8, <1>9, <1>11, <1>7, NoFetchesHolds DEF TimeoutAhead, WaitAhead, LoopInv
<1> QED BY <1>10, <1>11

\* DropPeer: what was asked of the peer has the timer that the request had.
LEMMA DropPeerHolds ==
  ASSUME LoopInv, NEW p \in Peers, NEW sent \in Asks, DropPeer(p, sent) PROVE LoopInv' /\ asked' \in Asks
<1> DEFINE on == TRUE
<1>1. PICK m : m = Dropped(p) OBVIOUS
<1>2. /\ waitArmed' = (waitArmed \/ (f.waitslots[p] # {} /\ m.waittime # {}))
      /\ IF f.requests[p] # Nobody
         THEN ScheduleFetches(m, {q \in Peers : m.announces[q] # {}}, on, sent)
         ELSE NoFetches(m, timeoutArmed, sent) BY <1>1 DEF DropPeer
<1>3. on OBVIOUS
<1> HIDE DEF on
<1>4. MapsSound(f) /\ TimeoutAhead(f, timeoutArmed) /\ WaitAhead(f, waitArmed) BY DEF LoopInv
<1>5. /\ MapsSound(m) /\ m.waittime \subseteq f.waittime /\ Requesting(m) \subseteq Requesting(f)
      /\ f.requests[p] = Nobody => \A h \in Hashes : m.announced[h] # {} => f.announced[h] # {}
  BY <1>1, <1>4, DroppedSound
<1>6. MapsSound(f') /\ f'.waittime = m.waittime /\ TimeoutAhead(f', timeoutArmed') /\ asked' \in Asks
  <2>1. CASE f.requests[p] # Nobody
    <3> DEFINE actives == {q \in Peers : m.announces[q] # {}}
    <3>1. actives \in SUBSET Peers /\ ScheduleFetches(m, actives, on, sent) BY <1>2, <2>1
    <3> HIDE DEF actives
    <3> QED BY <1>3, <1>5, <3>1, ScheduleHolds
  <2>2. CASE f.requests[p] = Nobody
    BY <1>2, <2>2, <1>4, <1>5, NoFetchesHolds DEF TimeoutAhead
  <2> QED BY <2>1, <2>2
<1>7. WaitAhead(f', waitArmed') BY <1>2, <1>4, <1>5, <1>6 DEF WaitAhead
<1> QED BY <1>6, <1>7 DEF LoopInv

\* Messages that are sent are well formed.
LEMMA SendHolds ==
  ASSUME MailTypes, NEW p \in Peers, NEW kind, NEW hashes \in SUBSET Hashes, Send(p, kind, hashes),
         kind \in {"notify", "reply", "broadcast"} \/ (kind = "drop" /\ hashes = {})
  PROVE  mail' \in [Peers -> Message \cup {Nobody}]
<1>1. [kind |-> kind, hashes |-> hashes] \in Message BY DEF Message
<1> QED BY <1>1 DEF Send, MailTypes

\* The invariant is kept by every step.
LEMMA FetcherStep == FetcherInv /\ [FetcherNext]_fetcherVars => FetcherInv'
<1> SUFFICES ASSUME FetcherInv, [FetcherNext]_fetcherVars PROVE FetcherInv' OBVIOUS
<1>1. LoopInv /\ MailTypes BY DEF FetcherInv, LoopInv
<1> DEFINE Kept == UNCHANGED maps
<1>2. Kept => LoopInv' BY <1>1 DEF LoopInv, maps
<1>3. asked \in Asks /\ mail \in [Peers -> Message \cup {Nobody}] /\ known \subseteq Hashes
      /\ underpriced \subseteq Hashes /\ up \subseteq Peers
  BY <1>1 DEF MailTypes, Asks
<1> SUFFICES LoopInv' /\ MailTypes' BY DEF FetcherInv, LoopInv
<1>4. ASSUME asked' \in Asks, mail' \in [Peers -> Message \cup {Nobody}], known' \subseteq Hashes,
             underpriced' \subseteq Hashes, up' \subseteq Peers PROVE MailTypes' BY <1>4 DEF MailTypes, Asks
<1> HIDE DEF Kept
<1>5. ASSUME NEW hashes \in SUBSET Hashes, AddTxs(hashes) PROVE known' \subseteq Hashes /\ underpriced' \subseteq Hashes
  BY <1>3, <1>5 DEF AddTxs
<1>6. CASE WaitTrigger
  BY <1>1, <1>6, WaitTriggerHolds, <1>3, <1>4 DEF WaitTrigger, poolView
<1>7. CASE TimeoutTrigger
  BY <1>1, <1>7, TimeoutTriggerHolds, <1>3, <1>4 DEF TimeoutTrigger, poolView
<1>8. ASSUME NEW p \in Peers, Announced(p) PROVE LoopInv' /\ MailTypes'
  BY <1>1, <1>8, AnnouncedHolds, <1>3, <1>4 DEF Announced, poolView
<1>9. ASSUME NEW p \in Peers, Cleanup(p) PROVE LoopInv' /\ MailTypes'
  BY <1>1, <1>9, CleanupHolds, <1>3, <1>4 DEF Cleanup, poolView
<1>10. ASSUME NEW p \in Peers, PeerDropped(p) PROVE LoopInv' /\ MailTypes'
  BY <1>10, <1>1, <1>3, DropPeerHolds, <1>4 DEF PeerDropped, poolView
<1>11. ASSUME NEW p \in Peers, FetchFails(p) PROVE LoopInv' /\ MailTypes'
  <2>1. PICK sent : sent = [asked EXCEPT ![p] = Nobody] OBVIOUS
  <2>2. sent \in Asks BY <1>3, <2>1 DEF Asks
  <2>3. DropPeer(p, sent) /\ UNCHANGED <<known, underpriced, up, mail>> BY <1>11, <2>1 DEF FetchFails, poolView
  <2>4. LoopInv' /\ asked' \in Asks BY <1>1, <2>2, <2>3, DropPeerHolds
  <2> QED BY <1>3, <1>4, <2>3, <2>4
<1>12. ASSUME NEW p \in Peers, Notify(p) PROVE LoopInv' /\ MailTypes'
  <2>1. PICK hashes \in SUBSET Hashes :
          IF hashes \ (known \cup underpriced) = {} THEN UNCHANGED mail
          ELSE Send(p, "notify", hashes \ (known \cup underpriced)) BY <1>12 DEF Notify
  <2>2. mail' \in [Peers -> Message \cup {Nobody}] BY <1>1, <1>3, <2>1, SendHolds
  <2>3. Kept /\ UNCHANGED <<known, underpriced, up, asked>> BY <1>12 DEF Notify, poolView, Kept
  <2> QED BY <1>2, <1>3, <1>4, <2>2, <2>3
<1>13. ASSUME NEW p \in Peers, Broadcast(p) PROVE LoopInv' /\ MailTypes'
  <2>1. PICK hashes \in SUBSET Hashes : AddTxs(hashes) /\ Send(p, "broadcast", hashes) BY <1>13 DEF Broadcast
  <2>2. mail' \in [Peers -> Message \cup {Nobody}] BY <1>1, <2>1, SendHolds
  <2>3. Kept /\ UNCHANGED <<up, asked>> BY <1>13 DEF Broadcast, Kept
  <2> QED BY <1>2, <1>3, <1>4, <1>5, <2>1, <2>2, <2>3
<1>14. ASSUME NEW p \in Peers, Reply(p) PROVE LoopInv' /\ MailTypes'
  <2>1. asked[p] \in [hashes : SUBSET Hashes] BY <1>3, <1>14 DEF Reply, Asks
  <2>2. PICK hashes \in SUBSET Hashes : AddTxs(hashes) /\ Send(p, "reply", hashes) BY <1>14, <2>1 DEF Reply
  <2>3. mail' \in [Peers -> Message \cup {Nobody}] BY <1>1, <2>2, SendHolds
  <2>4. Kept /\ UNCHANGED up /\ asked' \in Asks BY <1>3, <1>14 DEF Reply, Kept, Asks
  <2> QED BY <1>2, <1>3, <1>4, <1>5, <2>2, <2>3, <2>4
<1>15. ASSUME NEW p \in Peers, Disconnect(p) PROVE LoopInv' /\ MailTypes'
  BY <1>15, <1>1, SendHolds, <1>2, <1>3, <1>4 DEF Disconnect, poolView, Kept
<1>16. ASSUME NEW p \in Peers, Reconnect(p) PROVE LoopInv' /\ MailTypes'
  BY <1>16, <1>2, <1>3, <1>4 DEF Reconnect, poolView, Kept
<1>17. ASSUME NEW p \in Peers, AnswerLost(p) PROVE LoopInv' /\ MailTypes'
  BY <1>3, <1>17, <1>2, <1>4 DEF AnswerLost, poolView, Kept, Asks
<1>18. CASE StopFetcher
  BY <1>18, <1>2, <1>3, <1>4 DEF StopFetcher, poolView, Kept
<1>19. CASE UNCHANGED fetcherVars
  BY <1>19, <1>2, <1>3, <1>4 DEF fetcherVars, poolView, Kept
<1>20. CASE \E p \in Peers : PeerStep(p) BY <1>11, <1>12, <1>13, <1>14, <1>15, <1>16, <1>17, <1>20 DEF PeerStep
<1>21. CASE LoopStep BY <1>6, <1>7, <1>8, <1>9, <1>10, <1>21 DEF LoopStep
<1> QED BY <1>18, <1>19, <1>20, <1>21 DEF FetcherNext

\* Nothing is tracked at first.
LEMMA FetcherStart == FetcherInit => FetcherInv
<1> SUFFICES ASSUME FetcherInit PROVE FetcherInv OBVIOUS
<1>1. f \in Maps BY DEF FetcherInit, Maps
<1>2. \A h \in Hashes : /\ f.waitlist[h] = {} /\ f.announced[h] = {} /\ f.alternates[h] = {}
                        /\ f.fetching[h] = Nobody
  BY DEF FetcherInit
<1>3. f.waittime = {} /\ \A p \in Peers : f.requests[p] = Nobody /\ f.announces[p] = {} /\ f.waitslots[p] = {}
  BY DEF FetcherInit
<1>4. \A h \in Hashes : StagedAt(f, h) /\ RequestAt(f, h) BY <1>2, <1>3, FetcherAssumption DEF StagedAt, RequestAt
<1>5. MapsSound(f) /\ TimeoutAhead(f, timeoutArmed) /\ WaitAhead(f, waitArmed)
  BY <1>1, <1>2, <1>3, <1>4, SoundAtAll DEF TimeoutAhead, WaitAhead, Requesting
<1>6. MailTypes BY DEF FetcherInit, MailTypes
<1> QED BY <1>5, <1>6 DEF FetcherInv

\* A set of three stages of which no two hold has at most one member.
LEMMA AtMostOneStage ==
  ASSUME NEW a, NEW b, NEW c, NEW S, S \subseteq {a, b, c}, ~(a \in S /\ b \in S), ~(a \in S /\ c \in S),
         ~(b \in S /\ c \in S) PROVE Cardinality(S) <= 1
<1>1. S = {} \/ \E x : S = {x}
  <2>1. CASE a \in S
    BY <2>1
  <2>2. CASE b \in S
    BY <2>2
  <2>3. CASE c \in S
    BY <2>3
  <2>4. CASE a \notin S /\ b \notin S /\ c \notin S BY <2>4
  <2> QED BY <2>1, <2>2, <2>3, <2>4
<1>2. CASE S = {} BY <1>2, FS_EmptySet
<1>3. CASE \E x : S = {x}
  <2>1. PICK x : S = {x} BY <1>3
  <2>2. Cardinality({x}) = 1 BY FS_Singleton
  <2> QED BY <2>1, <2>2
<1> QED BY <1>1, <1>2, <1>3

\* The invariant says what the fetcher promises.
LEMMA FetcherPromise == FetcherInv => FetcherSound
<1> SUFFICES ASSUME FetcherInv PROVE FetcherSound OBVIOUS
<1>1. f \in Maps /\ Staged(f) /\ OneRequest(f) /\ TimeoutAhead(f, timeoutArmed) /\ WaitAhead(f, waitArmed)
      /\ MailTypes
  BY DEF FetcherInv, MapsSound
<1>2. FetcherTypeOK BY <1>1 DEF FetcherTypeOK, Maps, MailTypes
<1>3. OneStage
  <2> SUFFICES ASSUME NEW h \in Hashes
               PROVE  /\ Cardinality({s \in {"wait", "queue", "fetch"} :
                          CASE s = "wait"  -> f.waitlist[h] # {}
                            [] s = "queue" -> f.announced[h] # {}
                            [] s = "fetch" -> f.alternates[h] # {}}) <= 1
                      /\ h \in f.waittime <=> f.waitlist[h] # {}
                      /\ f.fetching[h] # Nobody <=> f.alternates[h] # {}
                      /\ \A p \in Peers :
                           /\ h \in f.waitslots[p] <=> p \in f.waitlist[h]
                           /\ h \in f.announces[p] => p \in f.announced[h] \cup f.alternates[h]
    BY DEF OneStage
  <2> DEFINE stages == {s \in {"wait", "queue", "fetch"} :
                          CASE s = "wait"  -> f.waitlist[h] # {}
                            [] s = "queue" -> f.announced[h] # {}
                            [] s = "fetch" -> f.alternates[h] # {}}
  <2>1. "wait" \in stages => f.waitlist[h] # {} OBVIOUS
  <2>2. "queue" \in stages => f.announced[h] # {} OBVIOUS
  <2>3. "fetch" \in stages => f.alternates[h] # {} OBVIOUS
  <2>4. stages \subseteq {"wait", "queue", "fetch"} OBVIOUS
  <2> HIDE DEF stages
  <2>5. /\ ~("wait" \in stages /\ "queue" \in stages) /\ ~("wait" \in stages /\ "fetch" \in stages)
        /\ ~("queue" \in stages /\ "fetch" \in stages)
    BY <1>1, <2>1, <2>2, <2>3 DEF Staged
  <2>6. Cardinality(stages) <= 1 BY <2>4, <2>5, AtMostOneStage
  <2>7. /\ h \in f.waittime <=> f.waitlist[h] # {}
        /\ f.fetching[h] # Nobody <=> f.alternates[h] # {}
        /\ \A p \in Peers :
             /\ h \in f.waitslots[p] <=> p \in f.waitlist[h]
             /\ h \in f.announces[p] => p \in f.announced[h] \cup f.alternates[h]
    BY <1>1 DEF Staged
  <2> QED BY <2>6, <2>7 DEF stages
<1>4. FetchedOnce BY <1>1 DEF OneRequest, FetchedOnce
<1>5. \A h \in Hashes : f.fetching[h] # Nobody => Requesting(f) # {} BY <1>1 DEF Maps, OneRequest, Requesting
<1>6. WakeupAhead BY <1>1, <1>5 DEF WakeupAhead, TimeoutAhead, WaitAhead
<1> QED BY <1>2, <1>3, <1>4, <1>6 DEF FetcherSound

\* An announced hash is at one place of the fetcher and on its way to the next.
THEOREM FetcherIsSound == FetcherSpec => []FetcherSound
<1>1. FetcherInit => FetcherInv BY FetcherStart
<1>2. FetcherInv /\ [FetcherNext]_fetcherVars => FetcherInv' BY FetcherStep
<1>3. FetcherInv => FetcherSound BY FetcherPromise
<1> QED BY <1>1, <1>2, <1>3, PTL DEF FetcherSpec

-----------------------------------------------------------------------------
(* The transaction pool.                                                   *)

Pools == [pending : SUBSET Txs, queue : SUBSET Txs, all : SUBSET Txs, remotes : SUBSET Txs,
          locals : SUBSET Accounts, vnonce : [Accounts -> Nat], block : PoolBlocks, changes : Nat]

\* ListsAgree, of any pool.
Listed(p) ==
  /\ p.all = p.pending \cup p.queue /\ p.pending \cap p.queue = {} /\ p.remotes \subseteq p.all
  /\ \A t, u \in p.all : From[t] = From[u] /\ TxNonce[t] = TxNonce[u] => t = u
Limited(p) == Cardinality(p.all) > PoolLimit => p.remotes = {}

\* Up to the virtual nonce all is pending; below what is pending nothing is missing but what the
\* pool has not had to have below s.
FilledAt(p, a) == \A n \in StateNonce(p.block, a)..(p.vnonce[a] - 1) : n \in Nonces(p.pending, a)
ShapeAt(p, a, s) ==
  \A t \in Of(p.pending, a) : \A n \in StateNonce(p.block, a)..TxNonce[t] : n \in Nonces(p.pending, a) \/ n < s

\* PendingExecutable, of one account of any pool, gaps aside.
FrontAt(p, a) ==
  /\ \A t \in Of(p.pending, a) : TxNonce[t] >= StateNonce(p.block, a) /\ Cost[t] <= Balance[p.block][a]
  /\ p.vnonce[a] >= StateNonce(p.block, a)
  /\ IF Of(p.pending, a) = {} THEN p.vnonce[a] = StateNonce(p.block, a)
     ELSE StateNonce(p.block, a) \in Nonces(p.pending, a)
BelowAt(p, a) == \A t \in Of(p.pending, a) : TxNonce[t] < p.vnonce[a]

\* A pool that is sound, and without gaps for the accounts of T, between two runs (exec) or within
\* a reset from nonces s.
Executable(p, T) == (\A a \in Accounts : FrontAt(p, a)) /\ \A a \in T : BelowAt(p, a)
Fit(p, T, s, exec) ==
  /\ p \in Pools /\ Listed(p) /\ Limited(p)
  /\ \A a \in T : FilledAt(p, a) /\ ShapeAt(p, a, s[a])
  /\ exec => Executable(p, T)

-----------------------------------------------------------------------------
(* Numbers, sets and loops.                                                *)

\* A set of numbers that is not empty has a least one.
LEMMA LeastNumber == ASSUME NEW T, T \subseteq Nat, T # {} PROVE \E n \in T : \A m \in T : n <= m
<1>1. \E n \in T : \A m \in T : ~ (<<m, n>> \in OpToRel(<, Nat)) BY NatLessThanWellFounded, WFMin
<1>2. PICK n \in T : \A m \in T : ~ (m < n) BY <1>1 DEF OpToRel
<1> QED BY <1>2

LEMMA FiniteIs ==
  /\ \A S \in SUBSET Txs : IsFiniteSet(S) /\ Cardinality(S) \in Nat
  /\ \A S \in SUBSET Accounts : IsFiniteSet(S) /\ Cardinality(S) \in Nat
  /\ \A S, U \in SUBSET Txs : S \subseteq U => Cardinality(S) <= Cardinality(U)
BY FS_Subset, FS_CardinalityType, PoolAssumption

LEMMA StateNonceIs ==
  ASSUME NEW b \in PoolBlocks, NEW a \in Accounts PROVE StateNonce(b, a) \in Nat
<1>1. Mined(b) \subseteq Txs BY PoolAssumption DEF Mined
<1>2. {t \in Mined(b) : From[t] = a} \in SUBSET Txs BY <1>1
<1> QED BY <1>2, FiniteIs DEF StateNonce

\* The greatest and the least of the nonces of some transactions.
LEMMA NoncesIs ==
  ASSUME NEW S, S \in SUBSET Txs, NEW a
  PROVE  /\ Nonces(S, a) \subseteq Nat /\ (Nonces(S, a) = {} <=> Of(S, a) = {})
         /\ \A n : n \in Nonces(S, a) <=> \E t \in S : From[t] = a /\ TxNonce[t] = n
         /\ \A t : t \in Of(S, a) <=> t \in S /\ From[t] = a
<1>1. \A t : t \in Of(S, a) <=> t \in S /\ From[t] = a BY DEF Of
<1>2. \A n : n \in Nonces(S, a) <=> \E t \in S : From[t] = a /\ TxNonce[t] = n BY <1>1 DEF Nonces
<1>3. \A t \in S : TxNonce[t] \in Nat BY PoolAssumption
<1> QED BY <1>1, <1>2, <1>3

LEMMA LeastIs ==
  ASSUME NEW N, N \subseteq Nat, N # {} PROVE Min(N) \in N /\ \A n \in N : Min(N) <= n
  BY LeastNumber DEF Min

\* What a finite set of transactions has for nonces has a greatest one.
LEMMA GreatestIs ==
  ASSUME NEW S, S \in SUBSET Txs, S # {}, NEW N, N = {TxNonce[t] : t \in S}
  PROVE  Max(N) \in N /\ N \subseteq Nat /\ \A n \in N : n <= Max(N)
<1> DEFINE Above(t) == {u \in S : TxNonce[u] >= TxNonce[t]}
           T == {Cardinality(Above(t)) : t \in S}
<1>1. \A t \in S : TxNonce[t] \in Nat /\ Above(t) \in SUBSET Txs BY PoolAssumption
<1>2. T \subseteq Nat /\ T # {} BY <1>1, FiniteIs
<1>3. PICK n \in T : \A m \in T : n <= m BY <1>2, LeastNumber
<1>4. PICK t \in S : Cardinality(Above(t)) = n BY <1>3
<1>5. ASSUME NEW u \in S, TxNonce[u] > TxNonce[t] PROVE FALSE
  <2>1. Above(u) \subseteq Above(t) /\ t \in Above(t) /\ t \notin Above(u) BY <1>1, <1>5
  <2>2. Cardinality(Above(u) \cup {t}) = Cardinality(Above(u)) + 1 BY <1>1, <2>1, FiniteIs, FS_AddElement
  <2>3. Cardinality(Above(u) \cup {t}) <= Cardinality(Above(t))
    <3>1. Above(u) \cup {t} \in SUBSET Txs /\ Above(u) \cup {t} \subseteq Above(t) /\ Above(t) \in SUBSET Txs
      BY <1>1, <2>1
    <3> HIDE DEF Above
    <3> QED BY <3>1, FiniteIs
  <2>4. Cardinality(Above(u)) \in T /\ Cardinality(Above(u)) \in Nat /\ Cardinality(Above(t)) \in Nat BY <1>1, FiniteIs
  <2>5. n <= Cardinality(Above(u))
    <3> HIDE DEF T, Above
    <3> QED BY <1>3, <2>4
  <2> HIDE DEF Above, T
  <2> QED BY <1>4, <2>2, <2>3, <2>4, <2>5
<1>6. /\ N \subseteq Nat /\ TxNonce[t] \in N
      /\ \A y \in N : TxNonce[t] >= y
  <2> HIDE DEF Above, T
  <2>1. \A u \in S : TxNonce[u] <= TxNonce[t] BY <1>1, <1>4, <1>5
  <2>2. \A y \in N : \E u \in S : y = TxNonce[u] OBVIOUS
  <2> QED BY <1>1, <1>4, <2>1, <2>2
<1>7. Max(N) \in N /\ \A y \in N : Max(N) >= y
  <2> HIDE DEF Above, T
  <2> QED BY <1>6 DEF Max
<1> QED BY <1>6, <1>7

\* What holds at first and is kept by every turn of a loop holds at its end.
LEMMA Iterated ==
  ASSUME NEW n \in Nat, NEW loop, NEW Good, loop[0] \in Good[0],
         \A i \in 1..n : loop[i - 1] \in Good[i - 1] => loop[i] \in Good[i] PROVE loop[n] \in Good[n]
<1> DEFINE T == {i \in 0..n : loop[i] \notin Good[i]}
<1>1. SUFFICES ASSUME T # {} PROVE FALSE OBVIOUS
<1>2. T \subseteq Nat OBVIOUS
<1>3. PICK i \in T : \A j \in T : i <= j
  <2> HIDE DEF T
  <2> QED BY <1>1, <1>2, LeastNumber
<1>4. i \in 1..n /\ i - 1 \notin T /\ i - 1 \in 0..n BY <1>3
<1> QED BY <1>3, <1>4

\* The course of a loop whose turns are functions on a set.
Courses(n, G, p, step) == {loop \in [0..n -> G] : loop[0] = p /\ \A i \in 1..n : loop[i] = step[i][loop[i - 1]]}

LEMMA Iterates ==
  ASSUME NEW n \in Nat, NEW G, NEW p \in G, NEW step \in [1..n -> [G -> G]] PROVE Courses(n, G, p, step) # {}
<1> DEFINE Run(k) == {loop \in [0..k -> G] : loop[0] = p /\ \A i \in 1..k : loop[i] = step[i][loop[i - 1]]}
           T == {k \in 0..n : Run(k) = {}}
<1>1. SUFFICES ASSUME T # {} PROVE FALSE
  <2>1. Courses(n, G, p, step) = Run(n) /\ n \in 0..n BY DEF Courses
  <2> HIDE DEF Run
  <2> QED BY <2>1
<1>0. T \subseteq Nat OBVIOUS
<1>2. PICK k \in T : \A j \in T : k <= j
  <2> HIDE DEF T
  <2> QED BY <1>0, <1>1, LeastNumber
<1>3. CASE k = 0
  <2>1. [i \in 0..0 |-> p] \in Run(0) OBVIOUS
  <2> QED BY <1>2, <1>3, <2>1
<1>4. CASE k # 0
  <2>1. k \in 1..n /\ k - 1 \notin T /\ k - 1 \in 0..n
    <3>1. k \in 0..n OBVIOUS
    <3> HIDE DEF T
    <3> QED BY <1>2, <1>4, <3>1
  <2>2. PICK loop \in [0..(k - 1) -> G] : loop[0] = p /\ \A i \in 1..(k - 1) : loop[i] = step[i][loop[i - 1]] BY <2>1
  <2> DEFINE g == [i \in 0..k |-> IF i = k THEN step[k][loop[k - 1]] ELSE loop[i]]
  <2>3. g \in Run(k) BY <2>1, <2>2
  <2> QED BY <1>2, <2>3
<1> QED BY <1>3, <1>4

-----------------------------------------------------------------------------
(* Sequences of the elements of a set.                                     *)

LEMMA SetToSeqIs ==
  ASSUME NEW S, IsFiniteSet(S), NEW order, order = SetToSeq(S)
  PROVE  /\ Len(order) = Cardinality(S) /\ Len(order) \in Nat /\ order \in Seq(S)
         /\ \A i \in 1..Len(order) : order[i] \in S
         /\ \A x \in S : \E i \in 1..Len(order) : order[i] = x
<1>1. Cardinality(S) \in Nat /\ ExistsBijection(1..Cardinality(S), S) BY FS_CardinalityType
<1>2. \E h \in [1..Cardinality(S) -> S] : IsInjective(h) BY <1>1 DEF ExistsBijection, Bijection, Injection, IsInjective
<1>3. order \in [1..Cardinality(S) -> S] /\ IsInjective(order) BY <1>2 DEF SetToSeq
<1>4. Len(order) = Cardinality(S) /\ order \in Seq(S) BY <1>1, <1>3
<1>5. order \in Injection(1..Cardinality(S), S) BY <1>3 DEF Injection, IsInjective
<1>6. IsFiniteSet(1..Cardinality(S)) /\ Cardinality(1..Cardinality(S)) = Cardinality(S) BY <1>1, FS_Interval
<1>7. order \in Surjection(1..Cardinality(S), S) BY <1>1, <1>5, <1>6, FS_Injection
<1> QED BY <1>1, <1>3, <1>4, <1>7 DEF Surjection

-----------------------------------------------------------------------------
(* The steps on the two lists and the lookup.                              *)

Kept(p, q) == q.locals = p.locals /\ q.block = p.block /\ q.changes = p.changes

LEMMA ForgetIs ==
  ASSUME NEW p \in Pools, NEW S, NEW q, q = Forget(p, S)
  PROVE  /\ q \in Pools /\ Kept(p, q) /\ q.vnonce = p.vnonce
         /\ q.pending = p.pending /\ q.queue = p.queue /\ q.all = p.all \ S /\ q.remotes = p.remotes \ S
<1> DEFINE A == p.all \ S
           R == p.remotes \ S
<1>1. q = [p EXCEPT !.all = A, !.remotes = R] BY DEF Forget, Pools
<1>2. A \in SUBSET Txs /\ R \in SUBSET Txs BY DEF Pools
<1>3. A = p.all \ S /\ R = p.remotes \ S OBVIOUS
<1> HIDE DEF A, R
<1> QED BY <1>1, <1>2, <1>3 DEF Pools, Kept

LEMMA LowerIs ==
  ASSUME NEW p \in Pools, NEW a \in Accounts, NEW n \in Nat, NEW q, q = Lower(p, a, n)
  PROVE  /\ q \in Pools /\ Kept(p, q)
         /\ q.pending = p.pending /\ q.queue = p.queue /\ q.all = p.all /\ q.remotes = p.remotes
         /\ \A b \in Accounts \ {a} : q.vnonce[b] = p.vnonce[b]
         /\ q.vnonce[a] <= n /\ q.vnonce[a] <= p.vnonce[a] /\ q.vnonce[a] \in {n, p.vnonce[a]}
<1> DEFINE V == [p.vnonce EXCEPT ![a] = IF n < p.vnonce[a] THEN n ELSE p.vnonce[a]]
<1>1. q = [p EXCEPT !.vnonce = V] BY DEF Lower, Pools
<1>2. p.vnonce \in [Accounts -> Nat] BY DEF Pools
<1>3. /\ V \in [Accounts -> Nat] /\ \A b \in Accounts \ {a} : V[b] = p.vnonce[b]
      /\ V[a] <= n /\ V[a] <= p.vnonce[a] /\ V[a] \in {n, p.vnonce[a]}
  BY <1>2
<1> HIDE DEF V
<1> QED BY <1>1, <1>3 DEF Pools, Kept

\* What goes back to the queue from the pending list meets nothing there.
LEMMA EnqueueIs ==
  ASSUME NEW p \in Pools, NEW S \in SUBSET Txs, \A t \in S : Same(p.queue, t) = {},
         NEW q, q = Enqueue(p, S)
  PROVE  /\ q \in Pools /\ Kept(p, q) /\ q.vnonce = p.vnonce
         /\ q.pending = p.pending /\ q.queue = p.queue \cup S /\ q.all = p.all /\ q.remotes = p.remotes
<1> DEFINE in == {t \in S : Inserts(p.queue, t)}
           old == UNION {Same(p.queue, t) : t \in in}
           Q == (p.queue \ old) \cup in
           r == [p EXCEPT !.queue = Q]
<1>1. in = S /\ old = {} BY DEF Inserts
<1>2. Q = p.queue \cup S BY <1>1
<1>3. q = Forget(r, old) BY DEF Enqueue, Pools
<1>4. Q \in SUBSET Txs BY <1>2 DEF Pools
<1> HIDE DEF Q
<1>5. /\ r \in Pools /\ Kept(p, r) /\ r.vnonce = p.vnonce
      /\ r.pending = p.pending /\ r.queue = Q /\ r.all = p.all /\ r.remotes = p.remotes
  BY <1>4 DEF Pools, Kept
<1> HIDE DEF r, old, in
<1>6. r \in Pools BY <1>5
<1>7. /\ q \in Pools /\ Kept(r, q) /\ q.vnonce = r.vnonce
      /\ q.pending = r.pending /\ q.queue = r.queue /\ q.all = r.all \ old /\ q.remotes = r.remotes \ old
  BY <1>3, <1>6, ForgetIs
<1> QED BY <1>1, <1>2, <1>5, <1>7 DEF Kept

\* The transactions at the end of the pending lists go, and the virtual nonces go down to them.
Cuts(p, q) ==
  /\ q.pending \subseteq p.pending /\ q.block = p.block
  /\ \A t \in p.pending \ q.pending : Later(p.pending, t) \cap q.pending = {}
  /\ \A a \in Accounts :
       /\ q.vnonce[a] <= p.vnonce[a]
       /\ \A t \in p.pending \ q.pending : From[t] = a => q.vnonce[a] <= TxNonce[t]
       /\ q.vnonce[a] = p.vnonce[a] \/ \E t \in p.pending \ q.pending : From[t] = a /\ q.vnonce[a] = TxNonce[t]

LEMMA CutHolds ==
  ASSUME NEW p \in Pools, NEW q \in Pools, Cuts(p, q), Listed(p), Listed(q), Limited(q),
         NEW T \in SUBSET Accounts, NEW s, NEW exec, Fit(p, T, s, exec) PROVE Fit(q, T, s, exec)
<1>1. /\ p.pending \in SUBSET Txs /\ q.pending \in SUBSET Txs /\ p.pending \subseteq p.all
      /\ p.block \in PoolBlocks /\ q.block = p.block
  BY DEF Pools, Cuts, Listed
<1>2. \A t \in Txs : TxNonce[t] \in Nat /\ From[t] \in Accounts BY PoolAssumption
<1>3. ASSUME NEW a \in Accounts
      PROVE  /\ \A n : n \in Nonces(p.pending, a) <=> \E t \in p.pending : From[t] = a /\ TxNonce[t] = n
             /\ \A n : n \in Nonces(q.pending, a) <=> \E t \in q.pending : From[t] = a /\ TxNonce[t] = n
             /\ \A t : t \in Of(p.pending, a) <=> t \in p.pending /\ From[t] = a
             /\ \A t : t \in Of(q.pending, a) <=> t \in q.pending /\ From[t] = a
             /\ p.vnonce[a] \in Nat /\ q.vnonce[a] \in Nat /\ StateNonce(p.block, a) \in Nat
  BY <1>1, NoncesIs, StateNonceIs DEF Pools
<1>4. \A t \in p.pending \ q.pending : \A u \in q.pending : From[u] = From[t] => TxNonce[u] < TxNonce[t]
  <2> TAKE t \in p.pending \ q.pending
  <2> TAKE u \in q.pending
  <2> HAVE From[u] = From[t]
  <2>1. u \in p.pending /\ u # t /\ TxNonce[u] # TxNonce[t] BY <1>1 DEF Cuts, Listed
  <2>2. ~ (TxNonce[u] > TxNonce[t]) BY <2>1 DEF Cuts, Later
  <2> QED BY <1>1, <1>2, <2>1, <2>2
<1>5. ASSUME NEW a \in T PROVE FilledAt(q, a)
  <2>1. FilledAt(p, a) /\ a \in Accounts BY DEF Fit
  <2>2. ASSUME NEW n \in StateNonce(q.block, a)..(q.vnonce[a] - 1) PROVE n \in Nonces(q.pending, a)
    <3>1. n \in StateNonce(p.block, a)..(p.vnonce[a] - 1) /\ n < q.vnonce[a] BY <1>1, <1>3, <2>1 DEF Cuts
    <3>2. PICK t \in p.pending : From[t] = a /\ TxNonce[t] = n BY <1>3, <2>1, <3>1 DEF FilledAt
    <3>3. t \in q.pending BY <1>3, <2>1, <3>1, <3>2 DEF Cuts
    <3> QED BY <1>3, <2>1, <3>2, <3>3
  <2> QED BY <2>2 DEF FilledAt
<1>6. ASSUME NEW a \in T PROVE ShapeAt(q, a, s[a])
  <2>1. ShapeAt(p, a, s[a]) /\ a \in Accounts BY DEF Fit
  <2>2. ASSUME NEW t \in Of(q.pending, a), NEW n \in StateNonce(q.block, a)..TxNonce[t], ~ (n < s[a])
        PROVE  n \in Nonces(q.pending, a)
    <3>1. t \in q.pending /\ From[t] = a /\ t \in Of(p.pending, a) /\ n \in StateNonce(p.block, a)..TxNonce[t]
      BY <1>1, <1>3, <2>1 DEF Cuts
    <3>2. PICK u \in p.pending : From[u] = a /\ TxNonce[u] = n BY <1>3, <2>1, <2>2, <3>1 DEF ShapeAt
    <3>3. n <= TxNonce[t] BY <1>1, <1>2, <1>3, <2>1, <3>1
    <3>4. u \in q.pending BY <1>1, <1>2, <1>4, <3>1, <3>2, <3>3
    <3> QED BY <1>3, <2>1, <3>2, <3>4
  <2> QED BY <2>2 DEF ShapeAt
<1>7. ASSUME exec, NEW a \in Accounts PROVE FrontAt(q, a)
  <2>1. FrontAt(p, a) BY <1>7 DEF Fit, Executable
  <2>2. \A t \in Of(q.pending, a) : TxNonce[t] >= StateNonce(q.block, a) /\ Cost[t] <= Balance[q.block][a]
    BY <1>1, <1>3, <2>1 DEF FrontAt, Cuts
  <2>3. q.vnonce[a] >= StateNonce(q.block, a) BY <1>1, <1>3, <2>1 DEF FrontAt, Cuts
  <2>4. CASE Of(p.pending, a) = {}
    BY <1>3, <2>4, <1>1, <2>1, <2>2, <2>3 DEF Cuts, FrontAt
  <2>5. CASE Of(p.pending, a) # {}
    <3>1. PICK u \in p.pending : From[u] = a /\ TxNonce[u] = StateNonce(p.block, a) BY <1>3, <2>1, <2>5 DEF FrontAt
    <3>2. CASE Of(q.pending, a) = {}
      BY <1>3, <3>1, <3>2, <1>1, <2>3, <2>2 DEF Cuts, FrontAt
    <3>3. CASE Of(q.pending, a) # {}
      <4>1. PICK t \in q.pending : From[t] = a BY <1>3, <3>3
      <4>2. TxNonce[u] <= TxNonce[t] BY <1>1, <1>2, <1>3, <2>2, <3>1, <4>1
      <4>3. u \in q.pending BY <1>1, <1>2, <1>4, <3>1, <4>1, <4>2
      <4> QED BY <1>1, <1>3, <2>2, <2>3, <3>1, <3>3, <4>3 DEF FrontAt
    <3> QED BY <3>2, <3>3
  <2> QED BY <2>4, <2>5
<1>8. ASSUME exec, NEW a \in T PROVE BelowAt(q, a)
  <2>1. BelowAt(p, a) /\ a \in Accounts BY <1>8 DEF Fit, Executable
  <2>2. ASSUME NEW t \in Of(q.pending, a) PROVE TxNonce[t] < q.vnonce[a]
    <3>1. t \in q.pending /\ From[t] = a /\ TxNonce[t] < p.vnonce[a] BY <1>1, <1>3, <2>1 DEF BelowAt, Cuts
    <3>2. CASE q.vnonce[a] = p.vnonce[a] BY <3>1, <3>2
    <3>3. CASE q.vnonce[a] # p.vnonce[a]
      <4>1. PICK u \in p.pending \ q.pending : From[u] = a /\ q.vnonce[a] = TxNonce[u] BY <2>1, <3>3 DEF Cuts
      <4> QED BY <1>4, <3>1, <4>1
    <3> QED BY <3>2, <3>3
  <2> QED BY <2>2 DEF BelowAt
<1> QED BY <1>5, <1>6, <1>7, <1>8 DEF Fit, Executable

\* What Fit does not look at.
LEMMA FitSame ==
  ASSUME NEW p \in Pools, NEW q \in Pools, NEW T \in SUBSET Accounts, NEW s, NEW exec, Fit(p, T, s, exec),
         q.pending = p.pending, q.queue = p.queue, q.all = p.all, q.remotes = p.remotes,
         q.vnonce = p.vnonce, q.block = p.block PROVE Fit(q, T, s, exec)
<1>1. Listed(q) /\ Limited(q) BY DEF Fit, Listed, Limited
<1>2. \A a \in T : FilledAt(q, a) /\ ShapeAt(q, a, s[a]) BY DEF Fit, FilledAt, ShapeAt
<1>3. exec => Executable(q, T) BY DEF Fit, Executable, FrontAt, BelowAt
<1> QED BY <1>1, <1>2, <1>3 DEF Fit

LEMMA RemoveTxHolds ==
  ASSUME NEW p, NEW T \in SUBSET Accounts, NEW s, NEW exec, Fit(p, T, s, exec),
         NEW t \in Txs, NEW q, q = RemoveTx(p, t)
  PROVE  /\ Fit(q, T, s, exec) /\ Kept(p, q)
         /\ q.all = p.all \ {t} /\ q.remotes = p.remotes \ {t} /\ q.pending \subseteq p.pending
<1>1. /\ p \in Pools /\ Listed(p) /\ Limited(p) /\ From[t] \in Accounts /\ TxNonce[t] \in Nat
      /\ p.pending \in SUBSET Txs /\ p.queue \in SUBSET Txs /\ p.all \in SUBSET Txs
      /\ \A u \in Txs : TxNonce[u] \in Nat
  BY PoolAssumption DEF Fit, Pools
<1>2. CASE t \notin p.all
  BY <1>2, <1>1 DEF RemoveTx, Listed, Kept
<1>3. CASE t \in p.all
  <2> DEFINE loop == Forget(p, {t})
             later == Later(p.pending, t)
  <2>1. /\ loop \in Pools /\ Kept(p, loop) /\ loop.vnonce = p.vnonce
        /\ loop.pending = p.pending /\ loop.queue = p.queue /\ loop.all = p.all \ {t} /\ loop.remotes = p.remotes \ {t}
    BY <1>1, ForgetIs
  <2> HIDE DEF loop
  <2>2. ASSUME NEW r \in Pools, r.all = loop.all, r.remotes = loop.remotes PROVE Limited(r)
    <3>1. r.all \in SUBSET Txs /\ r.all \subseteq p.all /\ r.remotes \subseteq p.remotes BY <1>1, <2>1, <2>2
    <3>2. Cardinality(r.all) <= Cardinality(p.all) /\ Cardinality(r.all) \in Nat /\ Cardinality(p.all) \in Nat
      BY <1>1, <3>1, FiniteIs
    <3>3. PoolLimit \in Nat BY PoolAssumption DEF PoolLimit
    <3> QED BY <1>1, <3>1, <3>2, <3>3 DEF Limited
  <2>3. CASE Same(p.pending, t) # {}
    <3> DEFINE P == p.pending \ (Same(p.pending, t) \cup later)
               g == [loop EXCEPT !.pending = P]
               h == Enqueue(g, later)
    <3>1. q = Lower(h, From[t], TxNonce[t]) BY <1>3, <2>1, <2>3 DEF RemoveTx, loop
    <3>2. Same(p.pending, t) = {t} /\ t \in p.pending BY <1>1, <1>3, <2>3 DEF Listed, Same
    <3>3. P \in SUBSET Txs /\ P = p.pending \ ({t} \cup later) /\ later \in SUBSET Txs /\ later \subseteq p.pending
      BY <1>1, <3>2 DEF Later
    <3> HIDE DEF P
    <3>4. /\ g \in Pools /\ Kept(loop, g) /\ g.vnonce = loop.vnonce
          /\ g.pending = P /\ g.queue = loop.queue /\ g.all = loop.all /\ g.remotes = loop.remotes
      BY <2>1, <3>3 DEF Pools, Kept
    <3>5. \A u \in later : Same(g.queue, u) = {} BY <1>1, <2>1, <3>3, <3>4 DEF Listed, Same
    <3> HIDE DEF g
    <3>6. g \in Pools /\ later \in SUBSET Txs BY <3>3, <3>4
    <3>7. /\ h \in Pools /\ Kept(g, h) /\ h.vnonce = g.vnonce
          /\ h.pending = g.pending /\ h.queue = g.queue \cup later /\ h.all = g.all /\ h.remotes = g.remotes
      <4> HIDE DEF later
      <4> QED BY <3>5, <3>6, EnqueueIs
    <3> HIDE DEF h
    <3>8. h \in Pools BY <3>7
    <3>9. /\ q \in Pools /\ Kept(h, q)
          /\ q.pending = h.pending /\ q.queue = h.queue /\ q.all = h.all /\ q.remotes = h.remotes
          /\ \A b \in Accounts \ {From[t]} : q.vnonce[b] = h.vnonce[b]
          /\ q.vnonce[From[t]] <= TxNonce[t] /\ q.vnonce[From[t]] <= h.vnonce[From[t]]
          /\ q.vnonce[From[t]] \in {TxNonce[t], h.vnonce[From[t]]}
      BY <1>1, <3>1, <3>8, LowerIs
    <3>10. /\ q.pending = p.pending \ ({t} \cup later) /\ q.queue = p.queue \cup later
           /\ q.all = p.all \ {t} /\ q.remotes = p.remotes \ {t} /\ Kept(p, q)
      BY <2>1, <3>3, <3>4, <3>7, <3>9 DEF Kept
    <3>11. Listed(q)
      BY <1>1, <3>2, <3>3, <3>10 DEF Later, Listed
    <3>12. Limited(q) BY <2>1, <2>2, <3>9, <3>10
    <3>13. h.vnonce = p.vnonce /\ p.pending \ q.pending = {t} \cup later /\ p.vnonce \in [Accounts -> Nat]
      BY <1>1, <2>1, <3>2, <3>3, <3>4, <3>7, <3>10 DEF Pools
    <3>14. Cuts(p, q)
      <4>1. \A u \in {t} \cup later : From[u] = From[t] /\ TxNonce[u] >= TxNonce[t] /\ u \in Txs BY <1>1, <3>3 DEF Later
      <4>2. \A u \in p.pending \ q.pending : Later(p.pending, u) \subseteq later BY <1>1, <3>13, <4>1 DEF Later
      <4>3. ASSUME NEW a \in Accounts
            PROVE  /\ q.vnonce[a] <= p.vnonce[a]
                   /\ \A u \in p.pending \ q.pending : From[u] = a => q.vnonce[a] <= TxNonce[u]
                   /\ \/ q.vnonce[a] = p.vnonce[a]
                      \/ \E u \in p.pending \ q.pending : From[u] = a /\ q.vnonce[a] = TxNonce[u]
        <5>1. q.vnonce[a] \in Nat /\ p.vnonce[a] \in Nat BY <3>9, <3>13 DEF Pools
        <5>2. CASE a # From[t] BY <3>9, <3>13, <4>1, <5>1, <5>2
        <5>3. CASE a = From[t] BY <1>1, <3>9, <3>13, <4>1, <5>1, <5>3
        <5> QED BY <5>2, <5>3
      <4> QED BY <3>10, <4>2, <4>3 DEF Cuts, Kept
    <3>15. Fit(q, T, s, exec) BY <1>1, <3>9, <3>11, <3>12, <3>14, CutHolds
    <3> QED BY <3>10, <3>15
  <2>4. CASE Same(p.pending, t) = {}
    <3> DEFINE Q == p.queue \ Same(p.queue, t)
    <3>1. q = [loop EXCEPT !.queue = Q] BY <1>3, <2>1, <2>4 DEF RemoveTx, loop
    <3>2. Q = p.queue \ {t} /\ Q \in SUBSET Txs /\ t \notin p.pending BY <1>1, <1>3, <2>4 DEF Listed, Same
    <3> HIDE DEF Q
    <3>3. /\ q \in Pools /\ Kept(p, q) /\ q.vnonce = p.vnonce /\ q.pending = p.pending
          /\ q.queue = p.queue \ {t} /\ q.all = p.all \ {t} /\ q.remotes = p.remotes \ {t}
      BY <2>1, <3>1, <3>2 DEF Pools, Kept
    <3>4. Listed(q) BY <1>1, <3>2, <3>3 DEF Listed
    <3>5. Limited(q) BY <2>1, <2>2, <3>3
    <3>6. Cuts(p, q)
      BY <1>1, <3>3 DEF Pools, Cuts, Kept
    <3>7. Fit(q, T, s, exec) BY <1>1, <3>3, <3>4, <3>5, <3>6, CutHolds
    <3> QED BY <3>3, <3>7
  <2> QED BY <2>3, <2>4
<1> QED BY <1>2, <1>3

-----------------------------------------------------------------------------
(* removeTx of several.                                                    *)

\* The loop of RemoveAll.
Gone(p, order, g) == [i \in 0..Len(order) |-> IF i = 0 THEN p ELSE RemoveTx(g[i - 1], order[i])]

LEMMA RemoveAllHolds ==
  ASSUME NEW p, NEW T \in SUBSET Accounts, NEW s, NEW exec, Fit(p, T, s, exec),
         NEW S \in SUBSET Txs, NEW q, q = RemoveAll(p, S)
  PROVE  /\ Fit(q, T, s, exec) /\ Kept(p, q)
         /\ q.all = p.all \ S /\ q.remotes = p.remotes \ S /\ q.pending \subseteq p.pending
<1> DEFINE order == SetToSeq(S)
           n == Len(order)
           G == {r \in Pools : Fit(r, T, s, exec) /\ Kept(p, r)}
           loop == CHOOSE g : g = Gone(p, order, g)
<1>1. q = loop[n] BY DEF RemoveAll, Gone
<1> HIDE DEF loop
<1>2. IsFiniteSet(S) BY FiniteIs
<1>3. /\ n \in Nat /\ (\A i \in 1..n : order[i] \in S) /\ \A x \in S : \E i \in 1..n : order[i] = x BY <1>2, SetToSeqIs
<1> HIDE DEF order, n
<1>4. p \in G BY DEF Fit, Kept
<1>5. ASSUME NEW r \in G, NEW i \in 1..n
      PROVE  /\ RemoveTx(r, order[i]) \in G /\ RemoveTx(r, order[i]).all = r.all \ {order[i]}
             /\ RemoveTx(r, order[i]).remotes = r.remotes \ {order[i]} /\ RemoveTx(r, order[i]).pending \subseteq r.pending
  <2> DEFINE t == order[i]
             z == RemoveTx(r, t)
  <2>1. Fit(r, T, s, exec) OBVIOUS
  <2>2. t \in Txs BY <1>3
  <2> HIDE DEF z, G, t
  <2>3. /\ Fit(z, T, s, exec) /\ Kept(r, z)
        /\ z.all = r.all \ {t} /\ z.remotes = r.remotes \ {t} /\ z.pending \subseteq r.pending
    BY <2>1, <2>2, RemoveTxHolds DEF z
  <2> QED BY <2>3 DEF Fit, Kept, G, z, t
<1> HIDE DEF G
<1>6. \E g : g = Gone(p, order, g)
  <2> DEFINE step == [i \in 1..n |-> [r \in G |-> RemoveTx(r, order[i])]]
  <2>1. step \in [1..n -> [G -> G]] BY <1>5
  <2>2. PICK g : g \in Courses(n, G, p, step)
    <3>1. n \in Nat BY <1>3
    <3> HIDE DEF step
    <3> QED BY <1>4, <2>1, <3>1, Iterates
  <2>3. \A i \in 0..n : g[i] = IF i = 0 THEN p ELSE RemoveTx(g[i - 1], order[i])
    <3>1. g \in [0..n -> G] /\ g[0] = p /\ \A i \in 1..n : g[i] = step[i][g[i - 1]] BY <2>2 DEF Courses
    <3>2. ASSUME NEW i \in 1..n PROVE g[i] = RemoveTx(g[i - 1], order[i])
      <4>1. i - 1 \in 0..n /\ g[i - 1] \in G BY <1>3, <3>1
      <4> QED BY <3>1, <4>1
    <3>3. \A i \in 0..n : i # 0 => i \in 1..n BY <1>3
    <3> HIDE DEF step
    <3> QED BY <3>1, <3>2, <3>3
  <2> QED BY <2>2, <2>3 DEF Gone, n, Courses
<1>7. loop = Gone(p, order, loop) BY <1>6 DEF loop
<1>8. loop[0] = p /\ \A i \in 1..n : loop[i] = RemoveTx(loop[i - 1], order[i]) BY <1>3, <1>7 DEF Gone, n
<1> DEFINE D(i) == {order[j] : j \in 1..i}
           Good == [i \in 0..n |-> {r \in G : /\ r.all = p.all \ D(i) /\ r.remotes = p.remotes \ D(i)
                                             /\ r.pending \subseteq p.pending}]
<1>9. loop[n] \in Good[n]
  <2>1. loop[0] \in Good[0]
    BY <1>3, <1>4, <1>8
  <2>2. ASSUME NEW i \in 1..n, loop[i - 1] \in Good[i - 1] PROVE loop[i] \in Good[i]
    <3>1. i \in 0..n /\ i - 1 \in 0..n BY <1>3
    <3>2. D(i) = D(i - 1) \cup {order[i]}
      BY <1>3
    <3>3. loop[i] = RemoveTx(loop[i - 1], order[i]) BY <1>8
    <3>4. /\ loop[i - 1] \in G /\ loop[i - 1].all = p.all \ D(i - 1) /\ loop[i - 1].remotes = p.remotes \ D(i - 1)
          /\ loop[i - 1].pending \subseteq p.pending
      BY <2>2, <3>1
    <3> HIDE DEF D
    <3>5. /\ loop[i] \in G /\ loop[i].all = loop[i - 1].all \ {order[i]} /\ loop[i].remotes = loop[i - 1].remotes \ {order[i]}
          /\ loop[i].pending \subseteq loop[i - 1].pending
      BY <1>5, <3>3, <3>4
    <3> QED BY <3>1, <3>2, <3>4, <3>5
  <2> HIDE DEF Good
  <2> QED BY <1>3, <2>1, <2>2, Iterated
<1>10. D(n) = S BY <1>3
<1>11. n \in 0..n BY <1>3
<1>12. loop[n] \in G /\ loop[n].all = p.all \ S /\ loop[n].remotes = p.remotes \ S /\ loop[n].pending \subseteq p.pending
  <2> HIDE DEF D
  <2> QED BY <1>9, <1>10, <1>11
<1> QED BY <1>1, <1>12 DEF G

-----------------------------------------------------------------------------
(* add.                                                                    *)

\* The pending lists of the accounts keep their nonces.
LEMMA SameNonces ==
  ASSUME NEW p \in Pools, NEW q \in Pools, NEW T \in SUBSET Accounts, NEW s, NEW exec, Fit(p, T, s, exec),
         Listed(q), Limited(q), q.block = p.block, q.vnonce = p.vnonce,
         \A a \in Accounts : Nonces(q.pending, a) = Nonces(p.pending, a),
         exec => \A t \in q.pending \ p.pending :
                   TxNonce[t] >= StateNonce(p.block, From[t]) /\ Cost[t] <= Balance[p.block][From[t]]
  PROVE  Fit(q, T, s, exec)
<1>1. p.pending \in SUBSET Txs /\ q.pending \in SUBSET Txs BY DEF Pools
<1>2. ASSUME NEW a \in Accounts
      PROVE  /\ \A t \in Of(q.pending, a) : \E u \in Of(p.pending, a) : TxNonce[u] = TxNonce[t]
             /\ Of(q.pending, a) = {} <=> Of(p.pending, a) = {}
  <2>1. /\ \A t : t \in Of(q.pending, a) <=> t \in q.pending /\ From[t] = a
        /\ \A t : t \in Of(p.pending, a) <=> t \in p.pending /\ From[t] = a
        /\ \A n : n \in Nonces(p.pending, a) <=> \E t \in p.pending : From[t] = a /\ TxNonce[t] = n
        /\ \A n : n \in Nonces(q.pending, a) <=> \E t \in q.pending : From[t] = a /\ TxNonce[t] = n
        /\ Nonces(q.pending, a) = {} <=> Of(q.pending, a) = {}
        /\ Nonces(p.pending, a) = {} <=> Of(p.pending, a) = {}
    BY <1>1, NoncesIs
  <2> QED BY <2>1
<1>3. ASSUME NEW a \in T PROVE FilledAt(q, a) /\ ShapeAt(q, a, s[a])
  BY <1>2 DEF Fit, FilledAt, ShapeAt
<1>4. ASSUME exec, NEW a \in Accounts PROVE FrontAt(q, a)
  BY <1>4, <1>2 DEF Fit, Executable, FrontAt, Of
<1>5. ASSUME exec, NEW a \in T PROVE BelowAt(q, a)
  BY <1>5, <1>2 DEF Fit, Executable, BelowAt
<1> QED BY <1>3, <1>4, <1>5 DEF Fit, Executable

Roomy(q, local) == Cardinality(q.all) + 1 > PoolLimit => local /\ q.remotes = {}

\* Discard leaves room, for a local transaction all there is.
LEMMA RoomHolds ==
  ASSUME NEW p, NEW T \in SUBSET Accounts, NEW s, NEW exec, Fit(p, T, s, exec),
         NEW t \in Txs, NEW local, NEW q \in Room(p, t, local)
  PROVE  /\ Fit(q, T, s, exec) /\ q.block = p.block /\ q.locals = p.locals /\ q.all \subseteq p.all
         /\ Roomy(q, local)
<1> DEFINE over == Cardinality(p.all) + 1 - PoolLimit
           some == IF over <= Cardinality(p.remotes) THEN over
                   ELSE IF local THEN Cardinality(p.remotes) ELSE 0
<1>1. /\ p \in Pools /\ p.all \in SUBSET Txs /\ p.remotes \in SUBSET Txs /\ p.remotes \subseteq p.all
      /\ p.changes \in Nat
  BY DEF Fit, Pools, Listed
<1>2. Cardinality(p.all) \in Nat /\ Cardinality(p.remotes) \in Nat /\ PoolLimit \in Nat
  BY <1>1, FiniteIs, PoolAssumption DEF PoolLimit
<1>3. CASE over <= 0
  <2>1. q = p BY <1>3 DEF Room
  <2> QED BY <1>2, <1>3, <2>1 DEF Roomy
<1>4. CASE ~ (over <= 0)
  <2>1. PICK drop \in kSubset(some, p.remotes) : q = [RemoveAll(p, drop) EXCEPT !.changes = @ + some] BY <1>4 DEF Room
  <2>2. local \/ over <= Cardinality(p.remotes) BY <1>2, <1>4 DEF Room
  <2>3. drop \in SUBSET Txs /\ drop \subseteq p.remotes /\ Cardinality(drop) = some /\ some \in Nat /\ over \in Nat
    BY <1>1, <1>2, <1>4, <2>1 DEF kSubset
  <2> DEFINE r == RemoveAll(p, drop)
  <2>4. /\ Fit(r, T, s, exec) /\ Kept(p, r)
        /\ r.all = p.all \ drop /\ r.remotes = p.remotes \ drop /\ r.pending \subseteq p.pending
    BY <2>3, RemoveAllHolds
  <2>5. q = [r EXCEPT !.changes = r.changes + some] /\ r \in Pools /\ r.changes \in Nat BY <2>1, <2>4 DEF Fit, Pools
  <2> HIDE DEF r
  <2> DEFINE c == r.changes + some
  <2>6. q = [r EXCEPT !.changes = c] /\ c \in Nat BY <2>3, <2>5
  <2> HIDE DEF c
  <2>7. /\ q \in Pools /\ q.pending = r.pending /\ q.queue = r.queue /\ q.all = r.all /\ q.remotes = r.remotes
        /\ q.vnonce = r.vnonce /\ q.block = r.block /\ q.locals = r.locals
    BY <2>5, <2>6 DEF Pools
  <2>8. Fit(q, T, s, exec)
    BY <2>5, <2>4, <2>7, FitSame
  <2>9. Cardinality(q.all) = Cardinality(p.all) - some
    <3>1. drop \subseteq p.all /\ IsFiniteSet(p.all) /\ p.all \cap drop = drop BY <1>1, <2>3, FiniteIs
    <3>2. Cardinality(p.all \ drop) = Cardinality(p.all) - Cardinality(drop) BY <3>1, FS_Difference
    <3> QED BY <2>3, <2>4, <2>7, <3>2
  <2>10. CASE over <= Cardinality(p.remotes)
    BY <1>2, <2>9, <2>10, <2>4, <2>7, <2>8 DEF Kept, Roomy
  <2>11. CASE ~ (over <= Cardinality(p.remotes))
    <3>1. local /\ Cardinality(drop) = Cardinality(p.remotes) BY <2>2, <2>3, <2>11
    <3>2. IsFiniteSet(p.remotes) BY <1>1, FiniteIs
    <3>3. drop = p.remotes BY <2>3, <3>1, <3>2, FS_Subset
    <3>4. q.remotes = {} BY <2>4, <2>7, <3>3
    <3> QED BY <2>4, <2>7, <2>8, <3>1, <3>4 DEF Kept, Roomy
  <2> QED BY <2>10, <2>11
<1> QED BY <1>3, <1>4

Remotes(remotes, t, local) == IF local THEN remotes ELSE remotes \cup {t}

LEMMA KnownIs ==
  ASSUME NEW p \in Pools, NEW t \in Txs, NEW local, NEW q, q = Known(p, t, local)
  PROVE  /\ q \in Pools /\ Kept(p, q) /\ q.vnonce = p.vnonce
         /\ q.pending = p.pending /\ q.queue = p.queue /\ q.all = p.all \cup {t}
         /\ q.remotes = Remotes(p.remotes, t, local)
<1> DEFINE A == p.all \cup {t}
           R == Remotes(p.remotes, t, local)
<1>1. q = [p EXCEPT !.all = A, !.remotes = R] BY DEF Known, Pools, Remotes
<1>2. A \in SUBSET Txs /\ R \in SUBSET Txs BY DEF Pools, Remotes
<1>3. A = p.all \cup {t} /\ R = Remotes(p.remotes, t, local) OBVIOUS
<1> HIDE DEF A, R
<1> QED BY <1>1, <1>2, <1>3 DEF Pools, Kept

\* One transaction for another: the lookup does not grow; without another it grows by one.
LEMMA SwapLimited ==
  ASSUME NEW p, NEW q \in Pools, Listed(p), Limited(p), p \in Pools, NEW t \in Txs, NEW old \in SUBSET p.all,
         t \notin p.all, q.all = (p.all \ old) \cup {t}, NEW local,
         q.remotes \subseteq Remotes(p.remotes, t, local),
         Roomy(p, local) PROVE Limited(q)
<1>1. p.all \in SUBSET Txs /\ q.all \in SUBSET Txs /\ q.all \subseteq p.all \cup {t} /\ p.all \cup {t} \in SUBSET Txs
  BY DEF Pools
<1>2. Cardinality(p.all) \in Nat /\ Cardinality(q.all) \in Nat /\ PoolLimit \in Nat
  BY <1>1, FiniteIs, PoolAssumption DEF PoolLimit
<1>3. Cardinality(p.all \cup {t}) = Cardinality(p.all) + 1 BY <1>1, FiniteIs, FS_AddElement
<1>4. Cardinality(q.all) <= Cardinality(p.all) + 1 BY <1>1, <1>3, FiniteIs
<1>5. CASE Cardinality(p.all) + 1 > PoolLimit
  BY <1>5 DEF Remotes, Roomy, Limited
<1>6. CASE ~ (Cardinality(p.all) + 1 > PoolLimit) BY <1>2, <1>4, <1>6 DEF Limited
<1> QED BY <1>5, <1>6

LEMMA ReplaceHolds ==
  ASSUME NEW p, NEW T \in SUBSET Accounts, NEW s, NEW exec, Fit(p, T, s, exec),
         NEW t \in Txs, t \notin p.all, Same(p.pending, t) # {}, NEW local,
         TxNonce[t] >= StateNonce(p.block, From[t]), Cost[t] <= Balance[p.block][From[t]],
         Roomy(p, local),
         NEW q, q = Replace(p, t, local) PROVE Fit(q, T, s, exec) /\ q.block = p.block
<1>1. CASE ~ Inserts(p.pending, t) BY <1>1 DEF Replace
<1>2. CASE Inserts(p.pending, t)
  <2> DEFINE old == Same(p.pending, t)
             P == (p.pending \ old) \cup {t}
             g == [p EXCEPT !.pending = P]
             h == Forget(g, old)
  <2>1. /\ p \in Pools /\ Listed(p) /\ Limited(p)
        /\ p.pending \in SUBSET Txs /\ p.queue \in SUBSET Txs /\ p.all \in SUBSET Txs /\ p.remotes \in SUBSET Txs
    BY DEF Fit, Pools
  <2>2. q = Known(h, t, local) BY <1>2, <2>1 DEF Replace, Pools
  <2>3. PICK o \in p.pending : From[o] = From[t] /\ TxNonce[o] = TxNonce[t] BY DEF Same
  <2>4. old = {o} BY <2>1, <2>3 DEF Same, Listed
  <2>5. P \in SUBSET Txs /\ P = (p.pending \ {o}) \cup {t} BY <2>1, <2>4
  <2> HIDE DEF P, old
  <2>6. /\ g \in Pools /\ Kept(p, g) /\ g.vnonce = p.vnonce
        /\ g.pending = P /\ g.queue = p.queue /\ g.all = p.all /\ g.remotes = p.remotes
    BY <2>1, <2>5 DEF Pools, Kept
  <2> HIDE DEF g
  <2>7. g \in Pools BY <2>6
  <2>8. /\ h \in Pools /\ Kept(g, h) /\ h.vnonce = g.vnonce
        /\ h.pending = g.pending /\ h.queue = g.queue /\ h.all = g.all \ old /\ h.remotes = g.remotes \ old
    BY <2>7, ForgetIs
  <2> HIDE DEF h
  <2>9. h \in Pools BY <2>8
  <2>10. /\ q \in Pools /\ Kept(h, q) /\ q.vnonce = h.vnonce
         /\ q.pending = h.pending /\ q.queue = h.queue /\ q.all = h.all \cup {t}
         /\ q.remotes = Remotes(h.remotes, t, local)
    BY <2>2, <2>9, KnownIs
  <2>11. /\ q.block = p.block /\ q.vnonce = p.vnonce /\ q.pending = (p.pending \ {o}) \cup {t}
         /\ q.queue = p.queue /\ q.all = (p.all \ {o}) \cup {t}
         /\ q.remotes = Remotes(p.remotes \ {o}, t, local)
    BY <2>4, <2>5, <2>6, <2>8, <2>10 DEF Kept
  <2>12. Listed(q)
    BY <2>1, <2>3, <2>11 DEF Listed, Remotes
  <2>13. Limited(q)
    <3>1. {o} \in SUBSET p.all BY <2>1, <2>3 DEF Listed
    <3>2. q.all = (p.all \ {o}) \cup {t} BY <2>11
    <3>3. q.remotes \subseteq Remotes(p.remotes, t, local) BY <2>11 DEF Remotes
    <3> QED BY <2>1, <2>10, <3>1, <3>2, <3>3, SwapLimited
  <2>14. ASSUME NEW a \in Accounts PROVE Nonces(q.pending, a) = Nonces(p.pending, a)
    <3>1. q.pending \in SUBSET Txs BY <2>10 DEF Pools
    <3>2. /\ \A n : n \in Nonces(p.pending, a) <=> \E u \in p.pending : From[u] = a /\ TxNonce[u] = n
          /\ \A n : n \in Nonces(q.pending, a) <=> \E u \in q.pending : From[u] = a /\ TxNonce[u] = n
      BY <2>1, <3>1, NoncesIs
    <3>3. \A n : (\E u \in p.pending : From[u] = a /\ TxNonce[u] = n) <=> (\E u \in q.pending : From[u] = a /\ TxNonce[u] = n)
      BY <2>3, <2>11
    <3>4. \A n : n \in Nonces(p.pending, a) <=> n \in Nonces(q.pending, a) BY <3>2, <3>3
    <3> QED BY <3>4
  <2>15. \A u \in q.pending \ p.pending :
           TxNonce[u] >= StateNonce(p.block, From[u]) /\ Cost[u] <= Balance[p.block][From[u]] BY <2>11
  <2>16. Fit(q, T, s, exec) BY <2>1, <2>10, <2>11, <2>12, <2>13, <2>14, <2>15, SameNonces
  <2> QED BY <2>11, <2>16
<1> QED BY <1>1, <1>2

LEMMA EnqueueNewHolds ==
  ASSUME NEW p, NEW T \in SUBSET Accounts, NEW s, NEW exec, Fit(p, T, s, exec),
         NEW t \in Txs, t \notin p.all, Same(p.pending, t) = {}, NEW local, NEW isLocal,
         Roomy(p, isLocal),
         NEW q, q = EnqueueNew(p, t, local, isLocal) PROVE Fit(q, T, s, exec) /\ q.block = p.block
<1>1. CASE ~ Inserts(p.queue, t) BY <1>1 DEF EnqueueNew
<1>2. CASE Inserts(p.queue, t)
  <2> DEFINE old == Same(p.queue, t)
             Q == (p.queue \ old) \cup {t}
             g == [p EXCEPT !.queue = Q]
             h == Forget(g, old)
             k == Known(h, t, isLocal)
             L == k.locals \cup {From[t]}
             R == k.remotes \ Of(k.remotes, From[t])
  <2>1. /\ p \in Pools /\ Listed(p) /\ Limited(p) /\ From[t] \in Accounts
        /\ p.pending \in SUBSET Txs /\ p.queue \in SUBSET Txs /\ p.all \in SUBSET Txs /\ p.remotes \in SUBSET Txs
    BY PoolAssumption DEF Fit, Pools
  <2>2. q = IF local /\ From[t] \notin p.locals THEN [k EXCEPT !.locals = @ \cup {From[t]}, !.remotes = @ \ Of(@, From[t])] ELSE k
    BY <1>2, <2>1 DEF EnqueueNew, Pools
  <2>3. old \subseteq p.queue /\ \A u \in old : From[u] = From[t] /\ TxNonce[u] = TxNonce[t] BY DEF Same
  <2>4. \A u \in p.all : From[u] = From[t] /\ TxNonce[u] = TxNonce[t] => u \in old BY <2>1 DEF Same, Listed
  <2>5. Q \in SUBSET Txs /\ Q = (p.queue \ old) \cup {t} BY <2>1
  <2> HIDE DEF Q, old
  <2>6. /\ g \in Pools /\ Kept(p, g) /\ g.vnonce = p.vnonce
        /\ g.pending = p.pending /\ g.queue = Q /\ g.all = p.all /\ g.remotes = p.remotes
    BY <2>1, <2>5 DEF Pools, Kept
  <2> HIDE DEF g
  <2>7. g \in Pools BY <2>6
  <2>8. /\ h \in Pools /\ Kept(g, h) /\ h.vnonce = g.vnonce
        /\ h.pending = g.pending /\ h.queue = g.queue /\ h.all = g.all \ old /\ h.remotes = g.remotes \ old
    BY <2>7, ForgetIs
  <2> HIDE DEF h
  <2>9. h \in Pools BY <2>8
  <2>10. /\ k \in Pools /\ Kept(h, k) /\ k.vnonce = h.vnonce
         /\ k.pending = h.pending /\ k.queue = h.queue /\ k.all = h.all \cup {t}
         /\ k.remotes = Remotes(h.remotes, t, isLocal)
    BY <2>9, KnownIs
  <2> HIDE DEF k
  <2>11. L \in SUBSET Accounts /\ R \in SUBSET Txs /\ R \subseteq k.remotes BY <2>1, <2>10 DEF Pools
  <2>12. q = IF local /\ From[t] \notin p.locals THEN [k EXCEPT !.locals = L, !.remotes = R] ELSE k
    BY <2>2, <2>10 DEF Pools
  <2> HIDE DEF L, R
  <2>13. /\ q \in Pools /\ q.block = k.block /\ q.vnonce = k.vnonce /\ q.pending = k.pending /\ q.queue = k.queue
         /\ q.all = k.all /\ q.remotes \subseteq k.remotes
    <3>1. CASE local /\ From[t] \notin p.locals BY <2>10, <2>11, <2>12, <3>1 DEF Pools
    <3>2. CASE ~ (local /\ From[t] \notin p.locals) BY <2>10, <2>12, <3>2
    <3> QED BY <3>1, <3>2
  <2>14. /\ q.block = p.block /\ q.vnonce = p.vnonce /\ q.pending = p.pending
         /\ q.queue = (p.queue \ old) \cup {t} /\ q.all = (p.all \ old) \cup {t}
         /\ q.remotes \subseteq Remotes(p.remotes \ old, t, isLocal)
    BY <2>5, <2>6, <2>8, <2>10, <2>13 DEF Kept
  <2>15. old \subseteq p.all /\ old \cap p.pending = {} BY <2>1, <2>3 DEF Listed
  <2>16. Listed(q)
    BY <2>1, <2>14, <2>15, <2>4 DEF Listed, Remotes
  <2>17. Limited(q)
    BY <2>15, <2>14, <2>1, <2>13, SwapLimited DEF Remotes
  <2>18. Fit(q, T, s, exec)
    BY <2>14, <2>1, <2>13, <2>16, <2>17, SameNonces
  <2> QED BY <2>14, <2>18
<1> QED BY <1>1, <1>2

Added(T, s, exec, b) ==
  {r \in [p : Pools, dirty : SUBSET Accounts] : Fit(r.p, T, s, exec) /\ r.p.block = b}

LEMMA AddHolds ==
  ASSUME NEW p, NEW T \in SUBSET Accounts, NEW s, NEW exec, Fit(p, T, s, exec),
         NEW t \in Txs, NEW local, NEW r \in Add(p, t, local) PROVE r \in Added(T, s, exec, p.block)
<1>0. PICK isLocal \in BOOLEAN : isLocal = IsLocal(p, t, local) BY DEF IsLocal
<1>1. From[t] \in Accounts /\ p \in Pools BY PoolAssumption DEF Fit
<1>2. CASE r = [p |-> p, dirty |-> {}] BY <1>1, <1>2 DEF Added
<1>3. CASE r # [p |-> p, dirty |-> {}]
  <2>1. /\ t \notin p.all /\ Valid(p, t, isLocal)
        /\ \E q \in Room(p, t, isLocal) :
             r = IF Same(q.pending, t) # {} THEN [p |-> Replace(q, t, isLocal), dirty |-> {}]
                 ELSE [p |-> EnqueueNew(q, t, local, isLocal), dirty |-> IF Same(q.queue, t) = {} THEN {From[t]} ELSE {}]
    BY <1>0, <1>3 DEF Add
  <2>2. PICK q \in Room(p, t, isLocal) :
             r = IF Same(q.pending, t) # {} THEN [p |-> Replace(q, t, isLocal), dirty |-> {}]
                 ELSE [p |-> EnqueueNew(q, t, local, isLocal), dirty |-> IF Same(q.queue, t) = {} THEN {From[t]} ELSE {}]
    BY <2>1
  <2>3. TxNonce[t] >= StateNonce(p.block, From[t]) /\ Cost[t] <= Balance[p.block][From[t]] BY <2>1 DEF Valid
  <2>4. /\ Fit(q, T, s, exec) /\ q.block = p.block /\ q.locals = p.locals /\ q.all \subseteq p.all
        /\ Roomy(q, isLocal)
    BY RoomHolds
  <2>5. t \notin q.all BY <2>1, <2>4
  <2>6. CASE Same(q.pending, t) # {}
    <3> DEFINE z == Replace(q, t, isLocal)
    <3>1. r = [p |-> z, dirty |-> {}] BY <2>2, <2>6
    <3>2. TxNonce[t] >= StateNonce(q.block, From[t]) /\ Cost[t] <= Balance[q.block][From[t]] BY <2>3, <2>4
    <3>3. Fit(z, T, s, exec) /\ z.block = q.block BY <1>1, <2>4, <2>5, <2>6, <3>2, ReplaceHolds
    <3> HIDE DEF z
    <3> QED BY <2>4, <3>1, <3>3 DEF Added, Fit
  <2>7. CASE Same(q.pending, t) = {}
    <3> DEFINE z == EnqueueNew(q, t, local, isLocal)
               d == IF Same(q.queue, t) = {} THEN {From[t]} ELSE {}
    <3>1. r = [p |-> z, dirty |-> d] /\ d \in SUBSET Accounts BY <1>1, <2>2, <2>7
    <3>3. Fit(z, T, s, exec) /\ z.block = q.block BY <1>1, <2>4, <2>5, <2>7, EnqueueNewHolds
    <3> HIDE DEF z, d
    <3> QED BY <2>4, <3>1, <3>3 DEF Added, Fit
  <2> QED BY <2>6, <2>7
<1> QED BY <1>2, <1>3

\* The loop of AddAll.
AddNext(S, t, local) == UNION {{[r EXCEPT !.dirty = @ \cup s.dirty] : r \in Add(s.p, t, local)} : s \in S}
Adding(p, txs, local, g) ==
  [i \in 0..Len(txs) |-> IF i = 0 THEN {[p |-> p, dirty |-> {}]} ELSE AddNext(g[i - 1], txs[i], local)]

LEMMA AddAllHolds ==
  ASSUME NEW p, NEW T \in SUBSET Accounts, NEW s, NEW exec, Fit(p, T, s, exec),
         NEW txs \in Seq(Txs), NEW local PROVE AddAll(p, txs, local) \subseteq Added(T, s, exec, p.block)
<1> DEFINE n == Len(txs)
           R == Added(T, s, exec, p.block)
           G == SUBSET R
           base == {[p |-> p, dirty |-> {}]}
           loop == CHOOSE g : g = Adding(p, txs, local, g)
<1>1. AddAll(p, txs, local) = loop[n] BY DEF AddAll, Adding, AddNext
<1> HIDE DEF loop
<1>2. n \in Nat /\ \A i \in 1..n : txs[i] \in Txs OBVIOUS
<1> HIDE DEF n
<1>3. base \in G BY DEF Added, Fit
<1>4. ASSUME NEW S \in G, NEW t \in Txs PROVE AddNext(S, t, local) \in G
  <2>1. ASSUME NEW e \in S, NEW r \in Add(e.p, t, local) PROVE [r EXCEPT !.dirty = @ \cup e.dirty] \in R
    <3>1. e \in [p : Pools, dirty : SUBSET Accounts] /\ Fit(e.p, T, s, exec) /\ e.p.block = p.block BY DEF Added
    <3>2. r \in Added(T, s, exec, e.p.block) BY <3>1, AddHolds
    <3>3. /\ r \in [p : Pools, dirty : SUBSET Accounts]
          /\ Fit(r.p, T, s, exec) /\ r.p.block = p.block
      BY <3>1, <3>2 DEF Added
    <3> DEFINE d == r.dirty \cup e.dirty
    <3>4. d \in SUBSET Accounts /\ [r EXCEPT !.dirty = @ \cup e.dirty] = [r EXCEPT !.dirty = d] BY <3>1, <3>3
    <3> HIDE DEF d
    <3>5. /\ [r EXCEPT !.dirty = d] \in [p : Pools, dirty : SUBSET Accounts]
          /\ [r EXCEPT !.dirty = d].p = r.p
      BY <3>3, <3>4
    <3> QED BY <3>3, <3>4, <3>5 DEF Added
  <2> HIDE DEF R
  <2> QED BY <2>1 DEF AddNext
<1> HIDE DEF G, base
<1>5. \E g : g = Adding(p, txs, local, g)
  <2> DEFINE step == [i \in 1..n |-> [S \in G |-> AddNext(S, txs[i], local)]]
  <2>1. step \in [1..n -> [G -> G]] BY <1>2, <1>4
  <2>2. PICK g : g \in Courses(n, G, base, step)
    <3>1. n \in Nat BY <1>2
    <3> HIDE DEF step
    <3> QED BY <1>3, <2>1, <3>1, Iterates
  <2>3. g \in [0..n -> G] /\ g[0] = base /\ \A i \in 1..n : g[i] = step[i][g[i - 1]] BY <2>2 DEF Courses
  <2>4. \A i \in 0..n : g[i] = IF i = 0 THEN base ELSE AddNext(g[i - 1], txs[i], local)
    <3>2. ASSUME NEW i \in 1..n PROVE g[i] = AddNext(g[i - 1], txs[i], local)
      <4>1. i - 1 \in 0..n /\ g[i - 1] \in G BY <1>2, <2>3
      <4> QED BY <2>3, <4>1
    <3>3. \A i \in 0..n : i # 0 => i \in 1..n BY <1>2
    <3> HIDE DEF step
    <3> QED BY <2>3, <3>2, <3>3
  <2> QED BY <2>3, <2>4 DEF Adding, n, base
<1>6. loop = Adding(p, txs, local, loop) BY <1>5 DEF loop
<1>7. loop[0] = base /\ \A i \in 1..n : loop[i] = AddNext(loop[i - 1], txs[i], local)
  <2>1. loop = [i \in 0..n |-> IF i = 0 THEN base ELSE AddNext(loop[i - 1], txs[i], local)] BY <1>6 DEF Adding, n, base
  <2>2. 0 \in 0..n /\ \A i \in 1..n : i \in 0..n /\ i # 0 BY <1>2
  <2> QED BY <2>1, <2>2
<1> DEFINE Good == [i \in 0..n |-> G]
<1>8. loop[n] \in Good[n]
  <2>1. loop[0] \in Good[0] BY <1>2, <1>3, <1>7
  <2>2. ASSUME NEW i \in 1..n, loop[i - 1] \in Good[i - 1] PROVE loop[i] \in Good[i]
    BY <1>2, <1>4, <1>7, <2>2
  <2> HIDE DEF Good
  <2> QED BY <1>2, <2>1, <2>2, Iterated
<1>9. n \in 0..n BY <1>2
<1> QED BY <1>1, <1>8, <1>9 DEF G

-----------------------------------------------------------------------------
(* promoteExecutables.                                                     *)

\* Transactions whose nonces go on without a gap from one that is not above the start.
GaplessFrom(low, R, start) ==
  /\ low <= start
  /\ \A t \in R : low <= TxNonce[t] /\ \A n \in low..TxNonce[t] : \E u \in R : TxNonce[u] = n
Gapless(R, start) == \E low \in Nat : GaplessFrom(low, R, start)

LEMMA ReadyIs ==
  ASSUME NEW list \in SUBSET Txs, NEW a \in Accounts, NEW start \in Nat, NEW R, R = Ready(list, a, start)
  PROVE  /\ R \subseteq Of(list, a)
         /\ R # {} => Gapless(R, start)
<1> DEFINE N == Nonces(list, a)
           low == Min(N)
<1>1. R \subseteq Of(list, a) BY DEF Ready
<1>2. /\ N \subseteq Nat /\ (N = {} <=> Of(list, a) = {})
      /\ \A n : n \in N <=> \E t \in list : From[t] = a /\ TxNonce[t] = n
      /\ \A t : t \in Of(list, a) <=> t \in list /\ From[t] = a
  BY NoncesIs
<1>3. ASSUME R # {}
      PROVE  /\ low \in Nat /\ low <= start
             /\ \A t \in R : \A n \in low..TxNonce[t] : \E u \in R : TxNonce[u] = n
             /\ \A t \in R : low <= TxNonce[t]
  <2>1. Of(list, a) # {} /\ ~ (low > start) /\ R = {t \in Of(list, a) : low..TxNonce[t] \subseteq N} BY <1>3 DEF Ready
  <2>2. N # {} BY <1>2, <2>1
  <2> HIDE DEF N
  <2>3. low \in N /\ \A n \in N : low <= n BY <1>2, <2>2, LeastIs
  <2> HIDE DEF low
  <2>4. low \in Nat /\ low <= start
    BY <1>2, <2>1, <2>3
  <2>5. \A t \in R : TxNonce[t] \in N /\ TxNonce[t] \in Nat BY <1>2, <2>1
  <2>6. ASSUME NEW t \in R, NEW n \in low..TxNonce[t] PROVE \E u \in R : TxNonce[u] = n
    <3>1. n \in N /\ low..n \subseteq N BY <2>1, <2>4, <2>5
    <3>2. PICK u \in list : From[u] = a /\ TxNonce[u] = n BY <1>2, <3>1
    <3> QED BY <1>2, <2>1, <3>1, <3>2
  <2> QED BY <2>3, <2>4, <2>5, <2>6
<1> QED BY <1>1, <1>3 DEF Gapless, GaplessFrom

\* What an account of the queue gives: R goes to the pending list, D is dropped.
Promotes(p, q, a, R, D) ==
  /\ R \subseteq Of(p.queue, a) /\ D \subseteq p.queue \ R
  /\ q.pending = p.pending \cup R /\ q.queue = p.queue \ (R \cup D)
  /\ q.all = p.all \ D /\ q.remotes = p.remotes \ D /\ Kept(p, q)
  /\ \A t \in R : TxNonce[t] >= StateNonce(p.block, a) /\ Cost[t] <= Balance[p.block][a]
  /\ \A b \in Accounts \ {a} : q.vnonce[b] = p.vnonce[b]
  /\ R = {} => q.vnonce[a] = p.vnonce[a]
  /\ R # {} => /\ \E t \in R : q.vnonce[a] = 1 + TxNonce[t]
               /\ \A t \in R : TxNonce[t] < q.vnonce[a]
               /\ Gapless(R, p.vnonce[a])

LEMMA PromoteAccountIs ==
  ASSUME NEW p \in Pools, Listed(p), NEW a \in Accounts, NEW q, q = PromoteAccount(p, a)
  PROVE  q \in Pools /\ \E R, D : Promotes(p, q, a, R, D)
<1> DEFINE unpaid == Stale(p, p.queue, a) \cup Unpayable(p, p.queue, a)
           ready == Ready(p.queue \ unpaid, a, p.vnonce[a])
           wins == {t \in ready : Inserts(p.pending, t)}
           old == UNION {Same(p.pending, t) : t \in wins}
           rest == p.queue \ (unpaid \cup ready)
           caps == IF a \in p.locals THEN {} ELSE Beyond(rest, a, AccountQueue)
           P == (p.pending \ old) \cup wins
           Q == rest \ caps
           V == [p.vnonce EXCEPT ![a] = IF wins = {} THEN @ ELSE 1 + Max({TxNonce[t] : t \in wins})]
           X == unpaid \cup (ready \ wins) \cup old \cup caps
           g == [p EXCEPT !.pending = P, !.queue = Q, !.vnonce = V]
<1>1. q = Forget(g, X) BY DEF PromoteAccount, Pools
<1>2. /\ p.pending \in SUBSET Txs /\ p.queue \in SUBSET Txs /\ p.all \in SUBSET Txs
      /\ p.vnonce \in [Accounts -> Nat] /\ p.vnonce[a] \in Nat /\ StateNonce(p.block, a) \in Nat
      /\ \A t \in Txs : TxNonce[t] \in Nat
  BY PoolAssumption, StateNonceIs DEF Pools
<1>3. unpaid \subseteq p.queue /\ p.queue \ unpaid \in SUBSET Txs BY <1>2 DEF Stale, Unpayable, Of
<1>4. \A t \in Of(p.queue \ unpaid, a) :
        t \in p.queue /\ From[t] = a /\ TxNonce[t] >= StateNonce(p.block, a) /\ Cost[t] <= Balance[p.block][a]
  <2>1. ASSUME NEW t \in p.queue, From[t] = a, t \notin unpaid
        PROVE  TxNonce[t] >= StateNonce(p.block, a) /\ Cost[t] <= Balance[p.block][a]
    BY <2>1, <1>2, PoolAssumption DEF Stale, Unpayable, Of, Pools
  <2> HIDE DEF unpaid
  <2> QED BY <2>1 DEF Of
<1> HIDE DEF unpaid
<1> DEFINE list == p.queue \ unpaid
           start == p.vnonce[a]
<1>50. ready = Ready(list, a, start) /\ list \in SUBSET Txs /\ start \in Nat BY <1>2, <1>3
<1> HIDE DEF ready, list, start
<1>51. /\ ready \subseteq Of(list, a)
       /\ ready # {} => Gapless(ready, start)
  BY <1>50, ReadyIs
<1>5. /\ ready \subseteq Of(p.queue \ unpaid, a)
      /\ ready # {} => Gapless(ready, p.vnonce[a])
  BY <1>51 DEF list, start
<1>6. wins = ready /\ old = {}
  <2>1. ASSUME NEW t \in ready, NEW u \in Same(p.pending, t) PROVE FALSE
    <3>1. t \in Of(p.queue \ unpaid, a) BY <1>5, <2>1
    <3>2. t \in p.queue BY <1>4, <3>1
    <3>3. u \in p.pending /\ From[u] = From[t] /\ TxNonce[u] = TxNonce[t] BY <2>1 DEF Same
    <3>4. t \in p.all /\ u \in p.all /\ p.pending \cap p.queue = {} BY <3>2, <3>3 DEF Listed
    <3>5. t = u BY <3>3, <3>4 DEF Listed
    <3> QED BY <3>2, <3>3, <3>4, <3>5
  <2>2. \A t \in ready : Inserts(p.pending, t) BY <2>1 DEF Inserts
  <2> QED BY <2>1, <2>2
<1>7. caps \subseteq rest BY DEF Beyond, Of
<1> HIDE DEF caps
<1>8. /\ P = p.pending \cup ready /\ X = unpaid \cup caps /\ Q = p.queue \ (ready \cup X)
      /\ X \subseteq p.queue \ ready /\ ready \subseteq p.queue /\ P \in SUBSET Txs /\ Q \in SUBSET Txs
  BY <1>4, <1>5, <1>2, <1>3, <1>6, <1>7 DEF Of
<1>9. /\ V \in [Accounts -> Nat]
      /\ \A b \in Accounts \ {a} : V[b] = p.vnonce[b]
      /\ ready = {} => V[a] = p.vnonce[a]
      /\ ready # {} => (\E t \in ready : V[a] = 1 + TxNonce[t]) /\ \A t \in ready : TxNonce[t] < V[a]
  <2>1. CASE ready = {}
    BY <1>2, <1>6, <2>1
  <2>2. CASE ready # {}
    <3> DEFINE N == {TxNonce[t] : t \in ready}
    <3>1. ready \in SUBSET Txs /\ N = {TxNonce[t] : t \in ready} BY <1>2, <1>8
    <3>2. V = [p.vnonce EXCEPT ![a] = 1 + Max(N)] BY <1>2, <1>6, <2>2
    <3> HIDE DEF N, V
    <3>3. Max(N) \in N /\ N \subseteq Nat /\ \A n \in N : n <= Max(N) BY <2>2, <3>1, GreatestIs
    <3>4. (\E t \in ready : TxNonce[t] = Max(N)) /\ \A t \in ready : TxNonce[t] \in N /\ TxNonce[t] \in Nat
      BY <3>1, <3>3
    <3> DEFINE m == Max(N)
    <3>5. m \in Nat /\ V = [p.vnonce EXCEPT ![a] = 1 + m] BY <3>2, <3>3
    <3>6. (\E t \in ready : TxNonce[t] = m) /\ \A t \in ready : TxNonce[t] <= m /\ TxNonce[t] \in Nat BY <3>3, <3>4
    <3> HIDE DEF m
    <3> QED BY <1>2, <2>2, <3>5, <3>6
  <2> QED BY <2>1, <2>2
<1> HIDE DEF P, Q, V, X
<1>10. /\ g \in Pools /\ Kept(p, g) /\ g.pending = P /\ g.queue = Q /\ g.vnonce = V /\ g.all = p.all
       /\ g.remotes = p.remotes
  BY <1>8, <1>9 DEF Pools, Kept
<1> HIDE DEF g
<1>11. g \in Pools BY <1>10
<1>12. /\ q \in Pools /\ Kept(g, q) /\ q.vnonce = g.vnonce
       /\ q.pending = g.pending /\ q.queue = g.queue /\ q.all = g.all \ X /\ q.remotes = g.remotes \ X
  BY <1>1, <1>11, ForgetIs
<1>13. Promotes(p, q, a, ready, X)
  BY <1>4, <1>5, <1>8, <1>10, <1>12, <1>9 DEF Of, Kept, Promotes
<1> QED BY <1>12, <1>13

LEMMA PromotesHolds ==
  ASSUME NEW p, NEW T \in SUBSET Accounts, NEW s, NEW exec, Fit(p, T, s, exec),
         NEW a \in Accounts, NEW q \in Pools, NEW R, NEW D, Promotes(p, q, a, R, D) PROVE Fit(q, T, s, exec)
<1>1. /\ p \in Pools /\ Listed(p) /\ Limited(p)
      /\ p.pending \in SUBSET Txs /\ p.queue \in SUBSET Txs /\ p.all \in SUBSET Txs /\ q.pending \in SUBSET Txs
      /\ p.block \in PoolBlocks /\ q.block = p.block /\ q.all \in SUBSET Txs
  BY DEF Fit, Pools, Promotes, Kept
<1>2. \A t \in Txs : TxNonce[t] \in Nat /\ From[t] \in Accounts BY PoolAssumption
<1>3. R \subseteq p.queue /\ q.pending = p.pending \cup R /\ \A t \in R : From[t] = a BY DEF Promotes, Of
<1>4. ASSUME NEW b \in Accounts
      PROVE  /\ \A n : n \in Nonces(p.pending, b) <=> \E t \in p.pending : From[t] = b /\ TxNonce[t] = n
             /\ \A n : n \in Nonces(q.pending, b) <=> \E t \in q.pending : From[t] = b /\ TxNonce[t] = n
             /\ \A t : t \in Of(p.pending, b) <=> t \in p.pending /\ From[t] = b
             /\ \A t : t \in Of(q.pending, b) <=> t \in q.pending /\ From[t] = b
             /\ p.vnonce[b] \in Nat /\ q.vnonce[b] \in Nat /\ StateNonce(p.block, b) \in Nat
  BY <1>1, NoncesIs, StateNonceIs DEF Pools
<1>40. \A b \in Accounts : \A n \in Nonces(p.pending, b) : n \in Nonces(q.pending, b) BY <1>3 DEF Nonces, Of
<1>5. Listed(q) BY <1>1, <1>3 DEF Promotes, Listed
<1>6. Limited(q)
  <2>1. Cardinality(q.all) <= Cardinality(p.all) /\ Cardinality(q.all) \in Nat /\ Cardinality(p.all) \in Nat
    BY <1>1, FiniteIs DEF Promotes
  <2>2. PoolLimit \in Nat BY PoolAssumption DEF PoolLimit
  <2> QED BY <1>1, <2>1, <2>2 DEF Limited, Promotes
<1>7. ASSUME NEW b \in Accounts, b # a
      PROVE  /\ q.vnonce[b] = p.vnonce[b] /\ Of(q.pending, b) = Of(p.pending, b)
             /\ Nonces(q.pending, b) = Nonces(p.pending, b)
  BY <1>3, <1>7 DEF Of, Promotes, Nonces
<1>8. CASE R = {}
  BY <1>3, <1>8, <1>1, <1>5, <1>6 DEF Promotes, Fit, FilledAt, ShapeAt, Executable, FrontAt, BelowAt
<1>9. CASE R # {}
  <2> DEFINE S == StateNonce(p.block, a)
             v == p.vnonce[a]
             w == q.vnonce[a]
  <2>11. Gapless(R, p.vnonce[a]) BY <1>9 DEF Promotes
  <2>12. PICK low \in Nat : GaplessFrom(low, R, p.vnonce[a]) BY <2>11 DEF Gapless
  <2>1. /\ low <= p.vnonce[a]
        /\ \A t \in R : low <= TxNonce[t] /\ \A n \in low..TxNonce[t] : \E u \in R : TxNonce[u] = n
    BY <2>12 DEF GaplessFrom
  <2>2. PICK top \in R : w = 1 + TxNonce[top] /\ \A t \in R : TxNonce[t] < w BY <1>9 DEF Promotes
  <2>3. \A t \in R : t \in Txs /\ TxNonce[t] \in Nat /\ TxNonce[t] >= S /\ Cost[t] <= Balance[p.block][a]
    BY <1>1, <1>2, <1>3 DEF Promotes
  <2>4. S \in Nat /\ v \in Nat /\ w \in Nat /\ low <= v BY <1>4, <2>1
  <2> HIDE DEF S, v, w
  <2>5. ASSUME NEW t \in R, NEW n \in low..TxNonce[t] PROVE n \in Nonces(q.pending, a)
    <3>1. PICK u \in R : TxNonce[u] = n BY <2>1
    <3> QED BY <1>3, <1>4, <3>1
  <2>6. ASSUME a \in T, NEW t \in R, NEW n \in S..TxNonce[t] PROVE n \in Nonces(q.pending, a)
    <3>1. CASE n >= low
      BY <2>3, <2>4, <3>1, <2>5
    <3>2. CASE n < low
      BY <2>3, <2>4, <3>2, <2>6, <1>40 DEF Fit, FilledAt, S, v
    <3> QED BY <2>3, <2>4, <3>1, <3>2
  <2>7. ASSUME NEW b \in T PROVE FilledAt(q, b)
    <3>1. CASE b # a BY <1>1, <1>7, <3>1 DEF Fit, FilledAt
    <3>2. CASE b = a
      BY <2>2, <2>3, <2>4, <1>1, <2>6, <3>2 DEF FilledAt, S, w
    <3> QED BY <3>1, <3>2
  <2>8. ASSUME NEW b \in T PROVE ShapeAt(q, b, s[b])
    <3>0. ShapeAt(p, b, s[b]) BY DEF Fit
    <3>1. CASE b # a BY <1>1, <1>7, <3>0, <3>1 DEF ShapeAt
    <3>2. CASE b = a
      <4>1. ASSUME NEW t \in Of(q.pending, a), NEW n \in S..TxNonce[t] PROVE n \in Nonces(q.pending, a) \/ n < s[a]
        <5>1. CASE t \in R BY <2>6, <3>2, <5>1
        <5>2. CASE t \notin R
          BY <1>3, <1>4, <5>2, <3>0, <3>2, <1>40 DEF ShapeAt, S
        <5> QED BY <5>1, <5>2
      <4> QED BY <1>1, <3>2, <4>1 DEF ShapeAt, S
    <3> QED BY <3>1, <3>2
  <2>9. ASSUME exec, NEW b \in Accounts PROVE FrontAt(q, b)
    <3>0. FrontAt(p, b) BY <2>9 DEF Fit, Executable
    <3>1. CASE b # a BY <1>1, <1>7, <3>0, <3>1 DEF FrontAt
    <3>2. CASE b = a
      <4>1. \A t \in Of(q.pending, a) : TxNonce[t] >= S /\ Cost[t] <= Balance[q.block][a]
        BY <1>1, <1>3, <1>4, <2>3, <3>0, <3>2 DEF FrontAt, S
      <4>2. w >= S BY <2>2, <2>3, <2>4
      <4>3. Of(q.pending, a) # {} BY <1>3, <1>4, <2>2
      <4>4. S \in Nonces(q.pending, a)
        <5>1. CASE Of(p.pending, a) # {}
          BY <3>0, <3>2, <5>1, <1>40 DEF FrontAt, S
        <5>2. CASE Of(p.pending, a) = {}
          <6>1. v = S BY <3>0, <3>2, <5>2 DEF FrontAt, S, v
          <6>2. S \in low..TxNonce[top] BY <2>1, <2>3, <2>4, <6>1
          <6> QED BY <2>5, <6>2
        <5> QED BY <5>1, <5>2
      <4> QED BY <1>1, <3>2, <4>1, <4>2, <4>3, <4>4 DEF FrontAt, S, w
    <3> QED BY <3>1, <3>2
  <2>10. ASSUME exec, NEW b \in T PROVE BelowAt(q, b)
    <3>0. BelowAt(p, b) /\ b \in Accounts BY <2>10 DEF Fit, Executable
    <3>1. CASE b # a BY <1>7, <3>0, <3>1 DEF BelowAt
    <3>2. CASE b = a
      <4>1. ~ (TxNonce[top] < v)
        <5>1. SUFFICES ASSUME TxNonce[top] < v PROVE FALSE OBVIOUS
        <5>2. TxNonce[top] \in S..(v - 1) BY <2>3, <2>4, <5>1
        <5>3. TxNonce[top] \in Nonces(p.pending, a) BY <3>2, <5>2 DEF Fit, FilledAt, S, v
        <5>4. PICK u \in p.pending : From[u] = a /\ TxNonce[u] = TxNonce[top] BY <1>4, <5>3
        <5> QED BY <1>1, <1>3, <5>4 DEF Listed
      <4>2. ASSUME NEW t \in Of(q.pending, a) PROVE TxNonce[t] < w
        <5>1. CASE t \in R BY <2>2, <5>1
        <5>2. CASE t \notin R
          <6>1. TxNonce[t] < v BY <1>3, <1>4, <3>0, <3>2, <5>2 DEF BelowAt, v
          <6>2. TxNonce[t] \in Nat BY <1>1, <1>2, <1>4
          <6> QED BY <2>2, <2>3, <2>4, <4>1, <6>1, <6>2
        <5> QED BY <5>1, <5>2
      <4> QED BY <3>2, <4>2 DEF BelowAt, w
    <3> QED BY <3>1, <3>2
  <2> QED BY <1>5, <1>6, <2>7, <2>8, <2>9, <2>10 DEF Fit, Executable
<1> QED BY <1>8, <1>9

LEMMA PromoteAccountHolds ==
  ASSUME NEW p, NEW T \in SUBSET Accounts, NEW s, NEW exec, Fit(p, T, s, exec),
         NEW a \in Accounts, NEW q, q = PromoteAccount(p, a) PROVE Fit(q, T, s, exec) /\ q.block = p.block
<1>1. p \in Pools /\ Listed(p) BY DEF Fit
<1>2. q \in Pools /\ \E R, D : Promotes(p, q, a, R, D) BY <1>1, PromoteAccountIs
<1>3. PICK R, D : Promotes(p, q, a, R, D) BY <1>2
<1>4. Fit(q, T, s, exec) BY <1>2, <1>3, PromotesHolds
<1> QED BY <1>3, <1>4 DEF Promotes, Kept

\* The loop of PromoteExecutables.
Promoting(p, order, g) == [i \in 0..Len(order) |-> IF i = 0 THEN p ELSE PromoteAccount(g[i - 1], order[i])]

LEMMA PromoteExecutablesHolds ==
  ASSUME NEW p, NEW T \in SUBSET Accounts, NEW s, NEW exec, Fit(p, T, s, exec),
         NEW addrs \in SUBSET Accounts, NEW q, q = PromoteExecutables(p, addrs)
  PROVE  Fit(q, T, s, exec) /\ q.block = p.block
<1> DEFINE order == SetToSeq(addrs)
           n == Len(order)
           G == {r \in Pools : Fit(r, T, s, exec) /\ r.block = p.block}
           loop == CHOOSE g : g = Promoting(p, order, g)
<1>1. q = loop[n] BY DEF PromoteExecutables, Promoting
<1> HIDE DEF loop
<1>2. IsFiniteSet(addrs) BY FiniteIs
<1>3. n \in Nat /\ \A i \in 1..n : order[i] \in Accounts BY <1>2, SetToSeqIs
<1> HIDE DEF order, n
<1>4. p \in G BY DEF Fit
<1>5. ASSUME NEW r \in G, NEW a \in Accounts PROVE PromoteAccount(r, a) \in G
  <2> DEFINE z == PromoteAccount(r, a)
  <2>1. Fit(r, T, s, exec) /\ r.block = p.block OBVIOUS
  <2> HIDE DEF z, G
  <2>2. Fit(z, T, s, exec) /\ z.block = r.block BY <2>1, PromoteAccountHolds DEF z
  <2> QED BY <2>1, <2>2 DEF Fit, G, z
<1> HIDE DEF G
<1>6. \E g : g = Promoting(p, order, g)
  <2> DEFINE step == [i \in 1..n |-> [r \in G |-> PromoteAccount(r, order[i])]]
  <2>1. step \in [1..n -> [G -> G]] BY <1>3, <1>5
  <2>2. PICK g : g \in Courses(n, G, p, step)
    <3>1. n \in Nat BY <1>3
    <3> HIDE DEF step
    <3> QED BY <1>4, <2>1, <3>1, Iterates
  <2>3. g \in [0..n -> G] /\ g[0] = p /\ \A i \in 1..n : g[i] = step[i][g[i - 1]] BY <2>2 DEF Courses
  <2>4. \A i \in 0..n : g[i] = IF i = 0 THEN p ELSE PromoteAccount(g[i - 1], order[i])
    <3>2. ASSUME NEW i \in 1..n PROVE g[i] = PromoteAccount(g[i - 1], order[i])
      <4>1. i - 1 \in 0..n /\ g[i - 1] \in G BY <1>3, <2>3
      <4> QED BY <2>3, <4>1
    <3>3. \A i \in 0..n : i # 0 => i \in 1..n BY <1>3
    <3> HIDE DEF step
    <3> QED BY <2>3, <3>2, <3>3
  <2> QED BY <2>3, <2>4 DEF Promoting, n
<1>7. loop = Promoting(p, order, loop) BY <1>6 DEF loop
<1>8. loop[0] = p /\ \A i \in 1..n : loop[i] = PromoteAccount(loop[i - 1], order[i])
  BY <1>7, <1>3 DEF Promoting, n
<1> DEFINE Good == [i \in 0..n |-> G]
<1>9. loop[n] \in Good[n]
  <2>1. loop[0] \in Good[0] BY <1>3, <1>4, <1>8
  <2>2. ASSUME NEW i \in 1..n, loop[i - 1] \in Good[i - 1] PROVE loop[i] \in Good[i]
    BY <1>3, <1>5, <1>8, <2>2
  <2> HIDE DEF Good
  <2> QED BY <1>3, <2>1, <2>2, Iterated
<1>10. n \in 0..n BY <1>3
<1> QED BY <1>1, <1>9, <1>10 DEF G

-----------------------------------------------------------------------------
(* demoteUnexecutables.                                                    *)

\* A pool in the middle of a reset, and an account of it that was looked at.
Shaped(p, T, s) == p \in Pools /\ Listed(p) /\ Limited(p) /\ \A a \in T : ShapeAt(p, a, s[a])
Payable(p, a) ==
  /\ \A t \in Of(p.pending, a) : TxNonce[t] >= StateNonce(p.block, a) /\ Cost[t] <= Balance[p.block][a]
  /\ Of(p.pending, a) # {} => StateNonce(p.block, a) \in Nonces(p.pending, a)

LEMMA DemoteAccountHolds ==
  ASSUME NEW p, NEW T \in SUBSET Accounts, NEW s, Shaped(p, T, s),
         NEW a \in Accounts, NEW q, q = DemoteAccount(p, a)
  PROVE  /\ Shaped(q, T, s) /\ q.block = p.block /\ Payable(q, a)
         /\ \A b \in Accounts \ {a} : Payable(p, b) => Payable(q, b)
<1> DEFINE olds == Stale(p, p.pending, a)
           unpaid == Unpayable(p, p.pending, a)
           kept == Of(p.pending, a) \ (olds \cup unpaid)
           invalid == {t \in kept : \E d \in unpaid : TxNonce[t] > TxNonce[d]}
           gapped == IF StateNonce(p.block, a) \in Nonces(kept \ invalid, a) THEN {} ELSE kept \ invalid
           stay == kept \ (invalid \cup gapped)
           P == (p.pending \ Of(p.pending, a)) \cup stay
           g == [p EXCEPT !.pending = P]
           gone == olds \cup unpaid
           back == invalid \cup gapped
           h == Forget(g, gone)
           S == StateNonce(p.block, a)
<1>1. q = Enqueue(h, back) BY DEF DemoteAccount, Shaped, Pools
<1>2. /\ p \in Pools /\ Listed(p) /\ Limited(p) /\ S \in Nat
      /\ p.pending \in SUBSET Txs /\ p.queue \in SUBSET Txs /\ p.all \in SUBSET Txs
      /\ \A t \in Txs : TxNonce[t] \in Nat /\ Cost[t] \in Nat /\ From[t] \in Accounts
      /\ p.block \in PoolBlocks /\ Balance[p.block][a] \in Nat
  BY PoolAssumption, StateNonceIs DEF Shaped, Pools
<1>3. /\ \A t : t \in Of(p.pending, a) <=> t \in p.pending /\ From[t] = a
      /\ \A t : t \in olds <=> t \in p.pending /\ From[t] = a /\ TxNonce[t] < S
      /\ \A t : t \in unpaid <=> t \in p.pending /\ From[t] = a /\ ~ (TxNonce[t] < S) /\ Cost[t] > Balance[p.block][a]
  BY DEF Of, Stale, Unpayable
<1> HIDE DEF olds, unpaid
<1>4. /\ \A t : t \in kept <=> /\ t \in p.pending /\ From[t] = a /\ ~ (TxNonce[t] < S)
                               /\ ~ (Cost[t] > Balance[p.block][a])
  BY <1>3
<1> HIDE DEF kept
<1>5. \A t : t \in Nonces(kept \ invalid, a) <=> \E u \in kept \ invalid : TxNonce[u] = t
  <2> HIDE DEF invalid
  <2> QED BY <1>4 DEF Nonces, Of
<1>6. /\ stay \subseteq kept /\ back \subseteq kept /\ kept = stay \cup back /\ stay \cap back = {}
      /\ stay # {} => /\ \E u \in stay : TxNonce[u] = S
                      /\ \A t \in stay : \A d \in unpaid : ~ (TxNonce[t] > TxNonce[d])
                      /\ \A u \in back : \E d \in unpaid : TxNonce[u] > TxNonce[d]
  <2>1. CASE S \in Nonces(kept \ invalid, a)
    BY <2>1, <1>5
  <2>2. CASE S \notin Nonces(kept \ invalid, a)
    BY <2>2
  <2> QED BY <2>1, <2>2
<1> HIDE DEF invalid, gapped, stay, back
<1>7. /\ P \in SUBSET Txs /\ gone \subseteq p.pending /\ back \in SUBSET Txs /\ back \subseteq p.pending
      /\ P = p.pending \ (gone \cup back) /\ gone \cap back = {}
  <2>1. p.pending \cap Of(p.pending, a) = gone \cup kept /\ gone \cap kept = {} /\ kept \subseteq p.pending
    BY <1>2, <1>3, <1>4
  <2> HIDE DEF gone
  <2> QED BY <1>2, <1>6, <2>1
<1> HIDE DEF P, gone
<1>8. /\ g \in Pools /\ Kept(p, g) /\ g.vnonce = p.vnonce
      /\ g.pending = P /\ g.queue = p.queue /\ g.all = p.all /\ g.remotes = p.remotes
  BY <1>2, <1>7 DEF Pools, Kept
<1> HIDE DEF g
<1>9. g \in Pools BY <1>8
<1>10. /\ h \in Pools /\ Kept(g, h) /\ h.vnonce = g.vnonce
       /\ h.pending = g.pending /\ h.queue = g.queue /\ h.all = g.all \ gone /\ h.remotes = g.remotes \ gone
  BY <1>9, ForgetIs
<1> HIDE DEF h
<1>11. h \in Pools /\ back \in SUBSET Txs BY <1>7, <1>10
<1>12. \A t \in back : Same(h.queue, t) = {} BY <1>2, <1>7, <1>8, <1>10 DEF Listed, Same
<1>13. /\ q \in Pools /\ Kept(h, q) /\ q.vnonce = h.vnonce
       /\ q.pending = h.pending /\ q.queue = h.queue \cup back /\ q.all = h.all /\ q.remotes = h.remotes
  BY <1>1, <1>11, <1>12, EnqueueIs
<1>14. /\ q.pending = p.pending \ (gone \cup back) /\ q.queue = p.queue \cup back
       /\ q.all = p.all \ gone /\ q.remotes = p.remotes \ gone /\ Kept(p, q)
  BY <1>7, <1>8, <1>10, <1>13 DEF Kept
<1>15. Listed(q) BY <1>2, <1>7, <1>14 DEF Listed
<1>16. Limited(q)
  <2>1. q.all \in SUBSET Txs /\ q.all \subseteq p.all BY <1>2, <1>14
  <2>2. Cardinality(q.all) <= Cardinality(p.all) /\ Cardinality(q.all) \in Nat /\ Cardinality(p.all) \in Nat
    BY <1>2, <2>1, FiniteIs
  <2>3. PoolLimit \in Nat BY PoolAssumption DEF PoolLimit
  <2> QED BY <1>2, <1>14, <2>2, <2>3 DEF Limited
<1>17. q.block = p.block BY <1>14 DEF Kept
<1>18. q.pending \in SUBSET Txs BY <1>13 DEF Pools
<1>19. ASSUME NEW b \in Accounts, b # a
       PROVE  Of(q.pending, b) = Of(p.pending, b) /\ Nonces(q.pending, b) = Nonces(p.pending, b)
  BY <1>3, <1>4, <1>6, <1>14, <1>19 DEF gone, Of, Nonces
<1>20. \A t : t \in Of(q.pending, a) <=> t \in stay BY <1>3, <1>4, <1>6, <1>14 DEF gone, Of
<1>21. \A n : n \in Nonces(q.pending, a) <=> \E t \in stay : TxNonce[t] = n BY <1>20 DEF Nonces
<1>22. Payable(q, a)
  <2>1. \A t \in stay : TxNonce[t] >= S /\ Cost[t] <= Balance[p.block][a]
    BY <1>2, <1>4, <1>6
  <2>2. stay # {} => S \in Nonces(q.pending, a) BY <1>6, <1>21
  <2> QED BY <1>17, <1>20, <2>1, <2>2 DEF Payable
<1>23. \A b \in Accounts \ {a} : Payable(p, b) => Payable(q, b) BY <1>17, <1>19 DEF Payable
<1>24. ASSUME NEW b \in T PROVE ShapeAt(q, b, s[b])
  <2>0. ShapeAt(p, b, s[b]) /\ b \in Accounts BY DEF Shaped
  <2>1. CASE b # a BY <1>17, <1>19, <2>0, <2>1 DEF ShapeAt
  <2>2. CASE b = a
    <3>1. ASSUME NEW t \in stay, NEW n \in S..TxNonce[t], ~ (n < s[a]) PROVE n \in Nonces(q.pending, a)
      <4>1. t \in Of(p.pending, a) /\ t \in Txs /\ TxNonce[t] \in Nat /\ n \in Nat /\ n >= S /\ n <= TxNonce[t]
        BY <1>2, <1>3, <1>4, <1>6
      <4>2. n \in Nonces(p.pending, a) BY <2>0, <2>2, <3>1, <4>1 DEF ShapeAt
      <4>3. PICK u \in p.pending : From[u] = a /\ TxNonce[u] = n BY <1>2, <4>2, NoncesIs
      <4>4. u \notin unpaid
        <5>1. SUFFICES ASSUME u \in unpaid PROVE FALSE OBVIOUS
        <5>2. ~ (TxNonce[t] > TxNonce[u]) BY <1>6, <5>1
        <5>3. TxNonce[t] = TxNonce[u] BY <4>1, <4>3, <5>2
        <5>4. t = u BY <1>2, <1>3, <4>1, <4>3, <5>3 DEF Listed
        <5> QED BY <1>3, <1>4, <1>6, <5>1, <5>4
      <4>5. u \in kept BY <1>2, <1>3, <1>4, <4>1, <4>3, <4>4
      <4>6. u \notin back
        <5>1. SUFFICES ASSUME u \in back PROVE FALSE OBVIOUS
        <5>2. PICK d \in unpaid : TxNonce[u] > TxNonce[d] BY <1>6, <5>1
        <5>3. ~ (TxNonce[t] > TxNonce[d]) /\ TxNonce[d] \in Nat BY <1>2, <1>3, <1>6
        <5> QED BY <4>1, <4>3, <5>2, <5>3
      <4> QED BY <1>6, <1>21, <4>3, <4>5, <4>6
    <3> QED BY <1>17, <1>20, <2>2, <3>1 DEF ShapeAt
  <2> QED BY <2>1, <2>2
<1> QED BY <1>13, <1>15, <1>16, <1>17, <1>22, <1>23, <1>24 DEF Shaped

\* The loop of DemoteUnexecutables.
Demoting(p, order, g) == [i \in 0..Len(order) |-> IF i = 0 THEN p ELSE DemoteAccount(g[i - 1], order[i])]

LEMMA DemoteUnexecutablesHolds ==
  ASSUME NEW p, NEW T \in SUBSET Accounts, NEW s, Shaped(p, T, s), NEW q, q = DemoteUnexecutables(p)
  PROVE  Shaped(q, T, s) /\ q.block = p.block /\ \A a \in Accounts : Payable(q, a)
<1> DEFINE order == SetToSeq(Accounts)
           n == Len(order)
           G == {r \in Pools : Shaped(r, T, s) /\ r.block = p.block}
           loop == CHOOSE g : g = Demoting(p, order, g)
<1>1. q = loop[n] BY DEF DemoteUnexecutables, Demoting
<1> HIDE DEF loop
<1>2. IsFiniteSet(Accounts) BY PoolAssumption
<1>3. n \in Nat /\ (\A i \in 1..n : order[i] \in Accounts) /\ \A a \in Accounts : \E i \in 1..n : order[i] = a
  BY <1>2, SetToSeqIs
<1> HIDE DEF order, n
<1>4. p \in G BY DEF Shaped
<1>5. ASSUME NEW r \in G, NEW a \in Accounts
      PROVE  /\ DemoteAccount(r, a) \in G /\ Payable(DemoteAccount(r, a), a)
             /\ \A b \in Accounts : Payable(r, b) => Payable(DemoteAccount(r, a), b)
  <2> DEFINE z == DemoteAccount(r, a)
  <2>1. Shaped(r, T, s) /\ r.block = p.block OBVIOUS
  <2> HIDE DEF z, G
  <2>2. /\ Shaped(z, T, s) /\ z.block = r.block /\ Payable(z, a)
        /\ \A b \in Accounts \ {a} : Payable(r, b) => Payable(z, b)
    BY <2>1, DemoteAccountHolds DEF z
  <2>3. z \in G /\ Payable(z, a) /\ \A b \in Accounts : Payable(r, b) => Payable(z, b) BY <2>1, <2>2 DEF Shaped, G
  <2> QED BY <2>3 DEF z
<1> HIDE DEF G
<1>6. \E g : g = Demoting(p, order, g)
  <2> DEFINE step == [i \in 1..n |-> [r \in G |-> DemoteAccount(r, order[i])]]
  <2>1. step \in [1..n -> [G -> G]] BY <1>3, <1>5
  <2>2. PICK g : g \in Courses(n, G, p, step)
    <3>1. n \in Nat BY <1>3
    <3> HIDE DEF step
    <3> QED BY <1>4, <2>1, <3>1, Iterates
  <2>3. g \in [0..n -> G] /\ g[0] = p /\ \A i \in 1..n : g[i] = step[i][g[i - 1]] BY <2>2 DEF Courses
  <2>4. \A i \in 0..n : g[i] = IF i = 0 THEN p ELSE DemoteAccount(g[i - 1], order[i])
    <3>2. ASSUME NEW i \in 1..n PROVE g[i] = DemoteAccount(g[i - 1], order[i])
      <4>1. i - 1 \in 0..n /\ g[i - 1] \in G BY <1>3, <2>3
      <4> QED BY <2>3, <4>1
    <3>3. \A i \in 0..n : i # 0 => i \in 1..n BY <1>3
    <3> HIDE DEF step
    <3> QED BY <2>3, <3>2, <3>3
  <2> QED BY <2>3, <2>4 DEF Demoting, n
<1>7. loop = Demoting(p, order, loop) BY <1>6 DEF loop
<1>8. loop[0] = p /\ \A i \in 1..n : loop[i] = DemoteAccount(loop[i - 1], order[i])
  BY <1>7, <1>3 DEF Demoting, n
<1> DEFINE Good == [i \in 0..n |-> {r \in G : \A j \in 1..i : Payable(r, order[j])}]
<1>9. loop[n] \in Good[n]
  <2>1. loop[0] \in Good[0] BY <1>3, <1>4, <1>8
  <2>2. ASSUME NEW i \in 1..n, loop[i - 1] \in Good[i - 1] PROVE loop[i] \in Good[i]
    <3>1. i \in 0..n /\ i - 1 \in 0..n /\ order[i] \in Accounts BY <1>3
    <3>2. loop[i - 1] \in G /\ \A j \in 1..(i - 1) : Payable(loop[i - 1], order[j]) BY <2>2, <3>1
    <3>3. loop[i] = DemoteAccount(loop[i - 1], order[i]) BY <1>8
    <3>4. /\ loop[i] \in G /\ Payable(loop[i], order[i])
          /\ \A b \in Accounts : Payable(loop[i - 1], b) => Payable(loop[i], b)
      BY <1>5, <3>1, <3>2, <3>3
    <3>5. ASSUME NEW j \in 1..i PROVE Payable(loop[i], order[j])
      BY <1>3, <3>2, <3>4
    <3> QED BY <3>1, <3>4, <3>5
  <2> HIDE DEF Good
  <2> QED BY <1>3, <2>1, <2>2, Iterated
<1>10. n \in 0..n BY <1>3
<1>11. loop[n] \in G /\ \A j \in 1..n : Payable(loop[n], order[j]) BY <1>9, <1>10
<1>12. \A a \in Accounts : Payable(loop[n], a) BY <1>3, <1>11
<1> QED BY <1>1, <1>11, <1>12 DEF G

NoncesAt(b) == [a \in Accounts |-> StateNonce(b, a)]
Settle(p) == [p EXCEPT !.vnonce = NoncesOf(p)]

\* The virtual nonces are set to the ends of the lists.
LEMMA SettledHolds ==
  ASSUME NEW p, NEW T \in SUBSET Accounts, NEW old \in PoolBlocks, Shaped(p, T, NoncesAt(old)),
         \A a \in Accounts : Payable(p, a), NEW q, q = Settle(p)
  PROVE  Fit(q, T \ Untaken(old, q), NoncesAt(p.block), TRUE) /\ q.block = p.block
<1> DEFINE V == NoncesOf(p)
           s == NoncesAt(old)
           z == NoncesAt(p.block)
           U == T \ Untaken(old, q)
<1>0. (\A a \in T : s[a] = StateNonce(old, a)) /\ Shaped(p, T, s) /\ U \subseteq Accounts BY DEF NoncesAt
<1> HIDE DEF s, z
<1>1. /\ p \in Pools /\ Listed(p) /\ Limited(p) /\ p.pending \in SUBSET Txs /\ p.block \in PoolBlocks
      /\ \A t \in Txs : TxNonce[t] \in Nat /\ From[t] \in Accounts
  BY PoolAssumption DEF Shaped, Pools
<1>2. ASSUME NEW a \in Accounts
      PROVE  /\ V[a] \in Nat /\ StateNonce(p.block, a) \in Nat
             /\ V[a] >= StateNonce(p.block, a)
             /\ Of(p.pending, a) = {} => V[a] = StateNonce(p.block, a)
             /\ \A t \in Of(p.pending, a) : TxNonce[t] < V[a]
             /\ Of(p.pending, a) # {} => \E t \in Of(p.pending, a) : V[a] = 1 + TxNonce[t]
  <2>1. StateNonce(p.block, a) \in Nat BY <1>1, StateNonceIs
  <2>2. CASE Of(p.pending, a) = {} BY <2>1, <2>2 DEF NoncesOf
  <2>3. CASE Of(p.pending, a) # {}
    <3> DEFINE O == Of(p.pending, a)
               N == Nonces(p.pending, a)
               m == Max(N)
    <3>1. O \in SUBSET Txs /\ N = {TxNonce[t] : t \in O} /\ O # {} BY <1>1, <2>3 DEF Of, Nonces
    <3>2. V[a] = 1 + m BY <2>3 DEF NoncesOf
    <3> HIDE DEF N, O
    <3>3. m \in N /\ N \subseteq Nat /\ \A n \in N : n <= m BY <3>1, GreatestIs
    <3> HIDE DEF m, V
    <3>4. m \in Nat /\ (\A t \in O : TxNonce[t] <= m /\ TxNonce[t] \in Nat) /\ \E t \in O : m = TxNonce[t]
      BY <1>1, <3>1, <3>3
    <3>5. \A t \in O : TxNonce[t] >= StateNonce(p.block, a) BY DEF Payable, O
    <3>6. V[a] \in Nat /\ V[a] >= StateNonce(p.block, a) BY <2>1, <3>1, <3>2, <3>4, <3>5
    <3>7. (\A t \in O : TxNonce[t] < V[a]) /\ \E t \in O : V[a] = 1 + TxNonce[t] BY <3>2, <3>4
    <3> QED BY <2>1, <2>3, <3>6, <3>7 DEF O
  <2> QED BY <2>2, <2>3
<1>3. V \in [Accounts -> Nat]
  <2>1. \E F \in [Accounts -> {V[a] : a \in Accounts}] : V = F BY DEF NoncesOf
  <2> HIDE DEF V
  <2> QED BY <1>2, <2>1
<1>4. q = [p EXCEPT !.vnonce = V] BY DEF Settle
<1> HIDE DEF V
<1>5. /\ q \in Pools /\ q.vnonce = V /\ q.pending = p.pending /\ q.queue = p.queue /\ q.all = p.all
      /\ q.remotes = p.remotes /\ q.block = p.block
  BY <1>1, <1>3, <1>4 DEF Pools
<1>6. Listed(q) /\ Limited(q) BY <1>1, <1>5 DEF Listed, Limited
<1>7. ASSUME NEW a \in Accounts PROVE FrontAt(q, a)
  BY <1>2, <1>5 DEF FrontAt, Payable
<1>8. ASSUME NEW a \in Accounts PROVE BelowAt(q, a) BY <1>2, <1>5 DEF BelowAt
<1>9. ASSUME NEW a \in U, NEW t \in Of(p.pending, a), NEW n \in StateNonce(p.block, a)..TxNonce[t]
      PROVE  n \in Nonces(p.pending, a)
  <2>1. a \in T /\ a \in Accounts /\ a \notin Untaken(old, q) OBVIOUS
  <2>2. /\ StateNonce(p.block, a) \in Nat /\ StateNonce(old, a) \in Nat /\ t \in Txs /\ TxNonce[t] \in Nat
        /\ n \in Nat /\ n >= StateNonce(p.block, a)
    BY <1>1, <2>1, StateNonceIs DEF Of
  <2>3. n \in Nonces(p.pending, a) \/ n < StateNonce(old, a)
    BY <1>0, <2>1 DEF Shaped, ShapeAt
  <2>4. CASE n < StateNonce(old, a)
    <3>1. n \in 0..(StateNonce(old, a) - 1) /\ n \notin 0..(StateNonce(p.block, a) - 1) BY <2>2, <2>4
    <3>2. /\ {TxNonce[u] : u \in {v \in Mined(old) : From[v] = a}} = 0..(StateNonce(old, a) - 1)
          /\ {TxNonce[u] : u \in {v \in Mined(p.block) : From[v] = a}} = 0..(StateNonce(p.block, a) - 1)
      BY <1>1, <2>1, PoolAssumption
    <3>3. PICK u \in Mined(old) : From[u] = a /\ TxNonce[u] = n BY <3>1, <3>2
    <3>4. u \notin Mined(p.block) BY <3>1, <3>2, <3>3
    <3>5. u \in Reinject(old, q.block) BY <1>5, <3>3, <3>4 DEF Reinject
    <3>6. Same(q.pending, u) # {} BY <1>5, <2>1, <2>2, <3>3, <3>5 DEF Untaken
    <3> QED BY <1>5, <3>3, <3>6 DEF Same, Nonces, Of
  <2> QED BY <2>3, <2>4
<1>10. ASSUME NEW a \in U PROVE FilledAt(q, a) /\ ShapeAt(q, a, z[a])
  <2>0. a \in Accounts OBVIOUS
  <2>1. ShapeAt(q, a, z[a]) BY <1>5, <1>9 DEF ShapeAt
  <2>2. ASSUME NEW n \in StateNonce(p.block, a)..(V[a] - 1) PROVE n \in Nonces(p.pending, a)
    <3>1. Of(p.pending, a) # {} BY <1>2, <2>0
    <3>2. PICK t \in Of(p.pending, a) : V[a] = 1 + TxNonce[t] BY <1>2, <2>0, <3>1
    <3>3. TxNonce[t] \in Nat BY <1>1 DEF Of
    <3>4. n \in StateNonce(p.block, a)..TxNonce[t] BY <1>2, <2>0, <3>2, <3>3
    <3> QED BY <1>9, <3>4
  <2>3. FilledAt(q, a) BY <1>5, <2>2 DEF FilledAt
  <2> QED BY <2>1, <2>3
<1>11. Fit(q, U, z, TRUE)
  <2> HIDE DEF U
  <2> QED BY <1>0, <1>5, <1>6, <1>7, <1>8, <1>10 DEF Fit, Executable
<1> QED BY <1>5, <1>11 DEF z

-----------------------------------------------------------------------------
(* truncatePending and truncateQueue.                                      *)

LEMMA BeyondIs ==
  ASSUME NEW list \in SUBSET Txs, NEW a \in Accounts, NEW n \in Int,
         NEW t \in Beyond(list, a, n), NEW u \in Of(list, a), TxNonce[u] >= TxNonce[t] PROVE u \in Beyond(list, a, n)
<1> DEFINE Below(x) == {y \in Of(list, a) : TxNonce[y] < TxNonce[x]}
<1>1. \A y \in Of(list, a) : y \in Txs /\ TxNonce[y] \in Nat BY PoolAssumption DEF Of
<1>2. t \in Of(list, a) /\ Cardinality(Below(t)) >= n BY DEF Beyond
<1>3. Below(t) \subseteq Below(u) /\ Below(t) \in SUBSET Txs /\ Below(u) \in SUBSET Txs BY <1>1, <1>2
<1>4. Cardinality(Below(t)) <= Cardinality(Below(u)) /\ Cardinality(Below(t)) \in Nat /\ Cardinality(Below(u)) \in Nat
  <2> HIDE DEF Below
  <2> QED BY <1>3, FiniteIs
<1>5. Cardinality(Below(u)) >= n
  <2> HIDE DEF Below
  <2> QED BY <1>2, <1>4
<1> QED BY <1>5 DEF Beyond

\* One round: the last transactions of some lists go.
CutOff(q, last) ==
  Forget([q EXCEPT !.pending = @ \ last,
                   !.vnonce = [a \in Accounts |-> IF Of(last, a) = {} THEN @[a] ELSE Min({@[a]} \cup Nonces(last, a))]],
         last)

LEMMA CutOffHolds ==
  ASSUME NEW p, NEW T \in SUBSET Accounts, NEW s, NEW exec, Fit(p, T, s, exec),
         NEW last, last \subseteq p.pending,
         \A t \in last : \A u \in p.pending : From[u] = From[t] /\ TxNonce[u] >= TxNonce[t] => u \in last,
         NEW q, q = CutOff(p, last) PROVE Fit(q, T, s, exec) /\ q.block = p.block /\ q.pending \subseteq p.pending
<1> DEFINE P == p.pending \ last
           V == [a \in Accounts |-> IF Of(last, a) = {} THEN p.vnonce[a] ELSE Min({p.vnonce[a]} \cup Nonces(last, a))]
           g == [p EXCEPT !.pending = P, !.vnonce = V]
<1>1. /\ p \in Pools /\ Listed(p) /\ Limited(p) /\ p.pending \in SUBSET Txs /\ last \in SUBSET Txs
      /\ p.queue \in SUBSET Txs /\ p.all \in SUBSET Txs
      /\ p.vnonce \in [Accounts -> Nat]
      /\ \A t \in Txs : TxNonce[t] \in Nat /\ From[t] \in Accounts
  BY PoolAssumption DEF Fit, Pools
<1>2. q = Forget(g, last) BY <1>1 DEF CutOff, Pools
<1>3. ASSUME NEW a \in Accounts
      PROVE  /\ V[a] \in Nat /\ V[a] <= p.vnonce[a]
             /\ \A t \in last : From[t] = a => V[a] <= TxNonce[t]
             /\ V[a] = p.vnonce[a] \/ \E t \in last : From[t] = a /\ V[a] = TxNonce[t]
  <2>1. /\ \A n : n \in Nonces(last, a) <=> \E t \in last : From[t] = a /\ TxNonce[t] = n
        /\ Nonces(last, a) \subseteq Nat
        /\ \A t : t \in Of(last, a) <=> t \in last /\ From[t] = a
    BY <1>1, NoncesIs
  <2>2. CASE Of(last, a) = {}
    BY <2>2, <1>1, <2>1
  <2>3. CASE Of(last, a) # {}
    <3> DEFINE N == {p.vnonce[a]} \cup Nonces(last, a)
    <3>1. V[a] = Min(N) BY <2>3
    <3>2. N \subseteq Nat /\ N # {} BY <1>1, <2>1
    <3>3. \A n : n \in N <=> n = p.vnonce[a] \/ n \in Nonces(last, a) OBVIOUS
    <3> HIDE DEF N, V
    <3>5. Min(N) \in N /\ \A n \in N : Min(N) <= n BY <3>2, LeastIs
    <3>4. V[a] \in N /\ \A n \in N : V[a] <= n BY <3>1, <3>5
    <3> QED BY <2>1, <3>2, <3>3, <3>4
  <2> QED BY <2>2, <2>3
<1>4. V \in [Accounts -> Nat] /\ P \in SUBSET Txs
  <2>1. \A a \in Accounts : V[a] \in Nat BY <1>3
  <2>2. \E F \in [Accounts -> {V[a] : a \in Accounts}] : V = F OBVIOUS
  <2> HIDE DEF V
  <2> QED BY <1>1, <2>1, <2>2
<1> HIDE DEF V
<1>5. P = p.pending \ last OBVIOUS
<1> HIDE DEF P
<1>6. /\ g \in Pools /\ Kept(p, g) /\ g.vnonce = V /\ g.pending = P /\ g.queue = p.queue /\ g.all = p.all
      /\ g.remotes = p.remotes
  BY <1>1, <1>4 DEF Pools, Kept
<1> HIDE DEF g
<1>7. g \in Pools BY <1>6
<1>8. /\ q \in Pools /\ Kept(g, q) /\ q.vnonce = g.vnonce
      /\ q.pending = g.pending /\ q.queue = g.queue /\ q.all = g.all \ last /\ q.remotes = g.remotes \ last
  BY <1>2, <1>7, ForgetIs
<1>9. /\ q.vnonce = V /\ q.pending = p.pending \ last /\ q.queue = p.queue /\ q.all = p.all \ last
      /\ q.remotes = p.remotes \ last /\ q.block = p.block
  BY <1>5, <1>6, <1>8 DEF Kept
<1>10. Listed(q) BY <1>1, <1>9 DEF Listed
<1>11. Limited(q)
  <2>1. q.all \in SUBSET Txs /\ q.all \subseteq p.all BY <1>1, <1>9
  <2>2. Cardinality(q.all) <= Cardinality(p.all) /\ Cardinality(q.all) \in Nat /\ Cardinality(p.all) \in Nat
    BY <1>1, <2>1, FiniteIs
  <2>3. PoolLimit \in Nat BY PoolAssumption DEF PoolLimit
  <2> QED BY <1>1, <1>9, <2>2, <2>3 DEF Limited
<1>12. p.pending \ q.pending = last BY <1>9
<1>13. Cuts(p, q)
  <2>1. \A t \in last : Later(p.pending, t) \cap q.pending = {}
    <3>1. ASSUME NEW t \in last, NEW u \in Later(p.pending, t) PROVE u \in last
      BY <1>1 DEF Later
    <3> QED BY <1>9, <3>1
  <2> QED BY <1>3, <1>9, <1>12, <2>1 DEF Cuts
<1>14. Fit(q, T, s, exec) BY <1>1, <1>8, <1>10, <1>11, <1>13, CutHolds
<1> QED BY <1>9, <1>14

\* The loop of TruncatePending.
BigIn(p, q) == {a \in Accounts \ p.locals : Cardinality(Of(q.pending, a)) > AccountSlots}
LongestIn(p, q) ==
  {a \in BigIn(p, q) : \A b \in BigIn(p, q) : Cardinality(Of(q.pending, b)) <= Cardinality(Of(q.pending, a))}
LastIn(p, q) == UNION {Beyond(q.pending, a, Cardinality(Of(q.pending, a)) - 1) : a \in LongestIn(p, q)}
CutNext(p, q) ==
  IF Cardinality(q.pending) <= GlobalSlots \/ BigIn(p, q) = {} THEN q ELSE CutOff(q, LastIn(p, q))
Truncating(p, g) == [i \in 0..Cardinality(Txs) |-> IF i = 0 THEN p ELSE CutNext(p, g[i - 1])]

LEMMA TruncatePendingHolds ==
  ASSUME NEW p, NEW T \in SUBSET Accounts, NEW s, NEW exec, Fit(p, T, s, exec), NEW q, q = TruncatePending(p)
  PROVE  Fit(q, T, s, exec) /\ q.block = p.block /\ q.pending \subseteq p.pending
<1> DEFINE n == Cardinality(Txs)
           G == {r \in Pools : Fit(r, T, s, exec) /\ r.block = p.block /\ r.pending \subseteq p.pending}
           loop == CHOOSE g : g = Truncating(p, g)
<1>1. q = loop[n] BY DEF TruncatePending, Truncating, CutNext, CutOff, LastIn, LongestIn, BigIn
<1> HIDE DEF loop
<1>3. n \in Nat BY FiniteIs
<1> HIDE DEF n
<1>4. p \in G BY DEF Fit
<1>5. ASSUME NEW r \in G PROVE CutNext(p, r) \in G
  <2>1. Fit(r, T, s, exec) /\ r.block = p.block /\ r.pending \subseteq p.pending /\ r \in Pools /\ r.pending \in SUBSET Txs
    BY DEF Pools
  <2> HIDE DEF G
  <2>2. CASE CutNext(p, r) = r BY <2>2
  <2>3. CASE CutNext(p, r) # r
    <3> DEFINE last == LastIn(p, r)
               z == CutOff(r, last)
    <3>1. CutNext(p, r) = z BY <2>3 DEF CutNext
    <3>2. last \subseteq r.pending BY DEF LastIn, Beyond, Of
    <3>3. ASSUME NEW t \in last, NEW u \in r.pending, From[u] = From[t], TxNonce[u] >= TxNonce[t] PROVE u \in last
      <4>1. PICK a \in LongestIn(p, r) : t \in Beyond(r.pending, a, Cardinality(Of(r.pending, a)) - 1) BY DEF LastIn
      <4> DEFINE k == Cardinality(Of(r.pending, a)) - 1
      <4>2. a \in Accounts /\ From[t] = a BY <4>1 DEF LongestIn, BigIn, Beyond, Of
      <4>3. u \in Of(r.pending, a) BY <3>3, <4>2 DEF Of
      <4>4. k \in Int
        BY <2>1, FiniteIs DEF Of
      <4>5. t \in Beyond(r.pending, a, k) BY <4>1
      <4> HIDE DEF k
      <4>6. u \in Beyond(r.pending, a, k) BY <2>1, <3>3, <4>2, <4>3, <4>4, <4>5, BeyondIs
      <4> QED BY <4>6 DEF LastIn, k
    <3> HIDE DEF last
    <3>4. \A t \in last : \A u \in r.pending : From[u] = From[t] /\ TxNonce[u] >= TxNonce[t] => u \in last BY <3>3
    <3>5. Fit(z, T, s, exec) /\ z.block = r.block /\ z.pending \subseteq r.pending BY <2>1, <3>2, <3>4, CutOffHolds
    <3> HIDE DEF z
    <3> QED BY <2>1, <3>1, <3>5 DEF Fit, G
  <2> QED BY <2>2, <2>3
<1> HIDE DEF G
<1>6. \E g : g = Truncating(p, g)
  <2> DEFINE step == [i \in 1..n |-> [r \in G |-> CutNext(p, r)]]
  <2>1. step \in [1..n -> [G -> G]] BY <1>3, <1>5
  <2>2. PICK g : g \in Courses(n, G, p, step)
    <3>1. n \in Nat BY <1>3
    <3> HIDE DEF step
    <3> QED BY <1>4, <2>1, <3>1, Iterates
  <2>3. g \in [0..n -> G] /\ g[0] = p /\ \A i \in 1..n : g[i] = step[i][g[i - 1]] BY <2>2 DEF Courses
  <2>4. \A i \in 0..n : g[i] = IF i = 0 THEN p ELSE CutNext(p, g[i - 1])
    <3>2. ASSUME NEW i \in 1..n PROVE g[i] = CutNext(p, g[i - 1])
      <4>1. i - 1 \in 0..n /\ g[i - 1] \in G BY <1>3, <2>3
      <4> QED BY <2>3, <4>1
    <3>3. \A i \in 0..n : i # 0 => i \in 1..n BY <1>3
    <3> HIDE DEF step
    <3> QED BY <2>3, <3>2, <3>3
  <2> QED BY <2>3, <2>4 DEF Truncating, n
<1>7. loop = Truncating(p, loop) BY <1>6 DEF loop
<1>8. loop[0] = p /\ \A i \in 1..n : loop[i] = CutNext(p, loop[i - 1])
  BY <1>7, <1>3 DEF Truncating, n
<1> DEFINE Good == [i \in 0..n |-> G]
<1>9. loop[n] \in Good[n]
  <2>1. loop[0] \in Good[0] BY <1>3, <1>4, <1>8
  <2>2. ASSUME NEW i \in 1..n, loop[i - 1] \in Good[i - 1] PROVE loop[i] \in Good[i]
    <3>1. i \in 0..n /\ i - 1 \in 0..n BY <1>3
    <3> QED BY <1>3, <1>5, <1>8, <2>2, <3>1
  <2> HIDE DEF Good
  <2> QED BY <1>3, <2>1, <2>2, Iterated
<1>10. n \in 0..n BY <1>3
<1> QED BY <1>1, <1>9, <1>10 DEF G

\* The loop of TruncateQueue.
DropNext(q, a) ==
  IF Cardinality(q.queue) - GlobalQueue <= 0 THEN q
  ELSE RemoveAll(q, Beyond(q.queue, a,
         IF Cardinality(Of(q.queue, a)) <= Cardinality(q.queue) - GlobalQueue THEN 0
         ELSE Cardinality(Of(q.queue, a)) - (Cardinality(q.queue) - GlobalQueue)))
Dropping(p, order, g) == [i \in 0..Len(order) |-> IF i = 0 THEN p ELSE DropNext(g[i - 1], order[i])]

LEMMA TruncateQueueHolds ==
  ASSUME NEW p, NEW T \in SUBSET Accounts, NEW s, NEW exec, Fit(p, T, s, exec), NEW order, Len(order) \in Nat,
         NEW q, q = TruncateQueue(p, order)
  PROVE  Fit(q, T, s, exec) /\ q.block = p.block /\ q.pending \subseteq p.pending
<1> DEFINE n == Len(order)
           G == {r \in Pools : Fit(r, T, s, exec) /\ r.block = p.block /\ r.pending \subseteq p.pending}
           loop == CHOOSE g : g = Dropping(p, order, g)
<1>1. q = loop[n] BY DEF TruncateQueue, Dropping, DropNext
<1> HIDE DEF loop
<1>3. n \in Nat OBVIOUS
<1> HIDE DEF n
<1>4. p \in G BY DEF Fit
<1>5. ASSUME NEW r \in G, NEW a PROVE DropNext(r, a) \in G
  <2>1. Fit(r, T, s, exec) /\ r.block = p.block /\ r.pending \subseteq p.pending /\ r \in Pools /\ r.queue \in SUBSET Txs
    BY DEF Pools
  <2> HIDE DEF G
  <2>2. CASE DropNext(r, a) = r BY <2>2
  <2>3. CASE DropNext(r, a) # r
    <3> DEFINE B == Beyond(r.queue, a,
                 IF Cardinality(Of(r.queue, a)) <= Cardinality(r.queue) - GlobalQueue THEN 0
                 ELSE Cardinality(Of(r.queue, a)) - (Cardinality(r.queue) - GlobalQueue))
               z == RemoveAll(r, B)
    <3>1. DropNext(r, a) = z BY <2>3 DEF DropNext
    <3>2. B \in SUBSET Txs BY <2>1 DEF Beyond, Of
    <3> HIDE DEF B
    <3>3. Fit(z, T, s, exec) /\ Kept(r, z) /\ z.pending \subseteq r.pending BY <2>1, <3>2, RemoveAllHolds
    <3> HIDE DEF z
    <3> QED BY <2>1, <3>1, <3>3 DEF Fit, Kept, G
  <2> QED BY <2>2, <2>3
<1> HIDE DEF G
<1>6. \E g : g = Dropping(p, order, g)
  <2> DEFINE step == [i \in 1..n |-> [r \in G |-> DropNext(r, order[i])]]
  <2>1. step \in [1..n -> [G -> G]] BY <1>3, <1>5
  <2>2. PICK g : g \in Courses(n, G, p, step)
    <3>1. n \in Nat BY <1>3
    <3> HIDE DEF step
    <3> QED BY <1>4, <2>1, <3>1, Iterates
  <2>3. g \in [0..n -> G] /\ g[0] = p /\ \A i \in 1..n : g[i] = step[i][g[i - 1]] BY <2>2 DEF Courses
  <2>4. \A i \in 0..n : g[i] = IF i = 0 THEN p ELSE DropNext(g[i - 1], order[i])
    <3>2. ASSUME NEW i \in 1..n PROVE g[i] = DropNext(g[i - 1], order[i])
      <4>1. i - 1 \in 0..n /\ g[i - 1] \in G BY <1>3, <2>3
      <4> QED BY <2>3, <4>1
    <3>3. \A i \in 0..n : i # 0 => i \in 1..n BY <1>3
    <3> HIDE DEF step
    <3> QED BY <2>3, <3>2, <3>3
  <2> QED BY <2>3, <2>4 DEF Dropping, n
<1>7. loop = Dropping(p, order, loop) BY <1>6 DEF loop
<1>8. loop[0] = p /\ \A i \in 1..n : loop[i] = DropNext(loop[i - 1], order[i])
  BY <1>7, <1>3 DEF Dropping, n
<1> DEFINE Good == [i \in 0..n |-> G]
<1>9. loop[n] \in Good[n]
  <2>1. loop[0] \in Good[0] BY <1>3, <1>4, <1>8
  <2>2. ASSUME NEW i \in 1..n, loop[i - 1] \in Good[i - 1] PROVE loop[i] \in Good[i]
    BY <1>3, <1>5, <1>8, <2>2
  <2> HIDE DEF Good
  <2> QED BY <1>3, <2>1, <2>2, Iterated
<1>10. n \in 0..n BY <1>3
<1> QED BY <1>1, <1>9, <1>10 DEF G

-----------------------------------------------------------------------------
(* runReorg.                                                               *)

LEMMA SetToSeqsIs ==
  ASSUME NEW S, IsFiniteSet(S), NEW loop \in SetToSeqs(S) PROVE loop \in Seq(S) /\ Len(loop) \in Nat
<1>1. Cardinality(S) \in Nat BY FS_CardinalityType
<1>2. loop \in [1..Cardinality(S) -> S] BY DEF SetToSeqs
<1> QED BY <1>1, <1>2

\* Fewer accounts are asked to be without gaps.
LEMMA FitLess ==
  ASSUME NEW p, NEW T, NEW s, NEW exec, Fit(p, T, s, exec), NEW U \in SUBSET T
  PROVE  Fit(p, U, s, exec) BY DEF Fit, Executable

\* The end of every run.
Finish(p, order) == [TruncateQueue(TruncatePending(p), order) EXCEPT !.changes = 0]

LEMMA FinishHolds ==
  ASSUME NEW p, NEW T \in SUBSET Accounts, NEW s, NEW exec, Fit(p, T, s, exec), NEW order, Len(order) \in Nat,
         NEW q, q = Finish(p, order) PROVE Fit(q, T, s, exec) /\ q.block = p.block /\ q.pending \subseteq p.pending
<1> DEFINE r == TruncatePending(p)
           z == TruncateQueue(r, order)
<1>1. q = [z EXCEPT !.changes = 0] BY DEF Finish
<1>2. Fit(r, T, s, exec) /\ r.block = p.block /\ r.pending \subseteq p.pending BY TruncatePendingHolds
<1> HIDE DEF r
<1>3. Fit(z, T, s, exec) /\ z.block = r.block /\ z.pending \subseteq r.pending BY <1>2, TruncateQueueHolds
<1> HIDE DEF z
<1>4. z \in Pools BY <1>3 DEF Fit
<1>5. /\ q \in Pools /\ q.pending = z.pending /\ q.queue = z.queue /\ q.all = z.all /\ q.remotes = z.remotes
      /\ q.vnonce = z.vnonce /\ q.block = z.block
  BY <1>1, <1>4 DEF Pools
<1>6. Fit(q, T, s, exec) BY <1>3, <1>4, <1>5, FitSame
<1> QED BY <1>2, <1>3, <1>5, <1>6

\* A run without a reset.
LEMMA PlainRunHolds ==
  ASSUME NEW p, NEW T \in SUBSET Accounts, NEW s, Fit(p, T, s, TRUE),
         NEW r, r.reset = NoReset, r.dirty \in SUBSET Accounts, NEW order, Len(order) \in Nat,
         NEW q, q = Reorg(p, r, order) PROVE Fit(q, T, s, TRUE) /\ q.block = p.block
<1> DEFINE z == PromoteExecutables(p, r.dirty)
<1>1. q = Finish(z, order) BY DEF Reorg, Finish
<1>2. Fit(z, T, s, TRUE) /\ z.block = p.block BY PromoteExecutablesHolds
<1> HIDE DEF z
<1>3. Fit(z, T, s, TRUE) BY <1>2
<1>4. Fit(q, T, s, TRUE) /\ q.block = z.block BY <1>1, <1>3, FinishHolds
<1> QED BY <1>2, <1>4

\* A run with one: only where a transaction that is mined no more could not be taken back is a gap.
Resetting(p, T, old, r, order, q, W) ==
  /\ T \in SUBSET Accounts /\ old \in PoolBlocks /\ Fit(p, T, NoncesAt(old), FALSE)
  /\ r.reset # NoReset /\ Len(order) \in Nat /\ q = Reorg(p, r, order) /\ W = T \ Untaken(old, q)

LEMMA ResetRunHolds ==
  ASSUME NEW p, NEW T, NEW old, NEW r, NEW order, NEW q, NEW W, Resetting(p, T, old, r, order, q, W)
  PROVE  Fit(q, W, NoncesAt(p.block), TRUE) /\ q.block = p.block
<1> DEFINE addrs == {From[t] : t \in p.queue}
           m == PromoteExecutables(p, addrs)
           d == DemoteUnexecutables(m)
           e == Settle(d)
           s == NoncesAt(old)
<1>0. /\ T \in SUBSET Accounts /\ old \in PoolBlocks /\ Fit(p, T, NoncesAt(old), FALSE)
      /\ r.reset # NoReset /\ Len(order) \in Nat /\ q = Reorg(p, r, order) /\ W = T \ Untaken(old, q)
  BY DEF Resetting
<1>1. q = Finish(e, order) BY <1>0 DEF Reorg, Finish, Settle
<1>2. addrs \in SUBSET Accounts /\ Fit(p, T, s, FALSE) /\ T \in SUBSET Accounts BY <1>0, PoolAssumption DEF Fit, Pools
<1>20. old \in PoolBlocks /\ T \in SUBSET Accounts BY <1>0
<1>21. Len(order) \in Nat BY <1>0
<1> HIDE DEF addrs, s
<1>3. Fit(m, T, s, FALSE) /\ m.block = p.block BY <1>2, PromoteExecutablesHolds
<1> HIDE DEF m
<1>4. Shaped(m, T, s) BY <1>3 DEF Fit, Shaped
<1>5. Shaped(d, T, s) /\ d.block = m.block /\ \A a \in Accounts : Payable(d, a) BY <1>2, <1>4, DemoteUnexecutablesHolds
<1> HIDE DEF d
<1>6. Shaped(d, T, NoncesAt(old)) /\ \A a \in Accounts : Payable(d, a) BY <1>5 DEF s
<1>7. e = Settle(d) OBVIOUS
<1> HIDE DEF e
<1> DEFINE U == T \ Untaken(old, e)
           z == NoncesAt(d.block)
<1>8. Fit(e, U, z, TRUE) /\ e.block = d.block BY <1>20, <1>6, <1>7, SettledHolds
<1>9. U \in SUBSET Accounts /\ U = T \ Untaken(old, e) BY <1>20
<1>90. z = NoncesAt(p.block) BY <1>3, <1>5
<1> HIDE DEF U, z
<1>10. Fit(q, U, z, TRUE) /\ q.block = e.block /\ q.pending \subseteq e.pending
  <2>1. Fit(e, U, z, TRUE) BY <1>8
  <2>2. U \in SUBSET Accounts BY <1>9
  <2> QED BY <1>1, <1>21, <2>1, <2>2, FinishHolds
<1>11. Untaken(old, e) \subseteq Untaken(old, q)
  BY <1>10 DEF Same, Untaken
<1>12. W \in SUBSET U BY <1>0, <1>9, <1>11
<1>13. Fit(q, W, z, TRUE) BY <1>10, <1>12, FitLess
<1> QED BY <1>3, <1>5, <1>8, <1>10, <1>13, <1>90

\* Accounts that are not broken need no argument.
LEMMA FitMore ==
  ASSUME NEW p, NEW T, NEW z, Fit(p, T, z, TRUE), NEW U \in SUBSET Accounts, \A a \in U \ T : ~ Broken(p, a)
  PROVE  Fit(p, U, z, TRUE)
<1>1. p \in Pools /\ p.pending \in SUBSET Txs /\ p.block \in PoolBlocks BY DEF Fit, Pools
<1>2. ASSUME NEW a \in U \ T PROVE FilledAt(p, a) /\ ShapeAt(p, a, z[a]) /\ BelowAt(p, a)
  <2>1. Nonces(p.pending, a) = StateNonce(p.block, a)..(p.vnonce[a] - 1) BY <1>2 DEF Broken
  <2>2. StateNonce(p.block, a) \in Nat /\ p.vnonce[a] \in Nat BY <1>1, StateNonceIs DEF Pools
  <2>3. \A t \in Of(p.pending, a) : TxNonce[t] \in Nonces(p.pending, a) BY DEF Nonces
  <2>4. FilledAt(p, a) BY <2>1 DEF FilledAt
  <2>5. ASSUME NEW t \in Of(p.pending, a)
        PROVE  /\ TxNonce[t] < p.vnonce[a]
               /\ \A n \in StateNonce(p.block, a)..TxNonce[t] : n \in StateNonce(p.block, a)..(p.vnonce[a] - 1)
    BY <2>1, <2>3, <2>2
  <2>6. ShapeAt(p, a, z[a]) BY <2>1, <2>5 DEF ShapeAt
  <2>7. BelowAt(p, a) BY <2>5 DEF BelowAt
  <2> QED BY <2>4, <2>6, <2>7
<1>3. \A a \in U : FilledAt(p, a) /\ ShapeAt(p, a, z[a]) /\ BelowAt(p, a) BY <1>2 DEF Fit, Executable
<1> QED BY <1>3 DEF Fit, Executable

\* The start of a reset that goes on: the new state, no virtual nonce above it, what is taken back.
LEMMA ResetPoolHolds ==
  ASSUME NEW p, NEW T \in SUBSET Accounts, Fit(p, T, NoncesAt(p.block), TRUE),
         NEW old \in PoolBlocks, NEW new \in PoolBlocks, NEW readable,
         NEW r \in ResetPool(p, old, new, readable)
  PROVE  /\ r.early => r.p = p
         /\ ~ r.early => Fit(r.p, T, NoncesAt(p.block), FALSE) /\ r.p.block = new
         /\ r.early \in BOOLEAN
<1> DEFINE s == NoncesAt(p.block)
           V == [a \in Accounts |-> StateNonce(new, a)]
           q == [p EXCEPT !.block = new, !.vnonce = V]
           back == IF ~ Reorged(old, new) \/ old \in chain.gone THEN {} ELSE Reinject(old, new)
<1>1. /\ p \in Pools /\ Listed(p) /\ Limited(p) /\ p.pending \in SUBSET Txs /\ p.block \in PoolBlocks
      /\ \A t \in Txs : TxNonce[t] \in Nat /\ From[t] \in Accounts
  BY PoolAssumption DEF Fit, Pools
<1>2. back \in SUBSET Txs BY PoolAssumption DEF Reinject, Mined
<1>3. CASE r = [p |-> p, early |-> TRUE] BY <1>3
<1>4. CASE r # [p |-> p, early |-> TRUE]
  <2>1. \E order \in SetToSeqs(back) : \E e \in AddAll(q, order, FALSE) : r = [p |-> e.p, early |-> FALSE]
    BY <1>4 DEF ResetPool
  <2> HIDE DEF back
  <2>20. PICK order \in SetToSeqs(back) : \E e \in AddAll(q, order, FALSE) : r = [p |-> e.p, early |-> FALSE] BY <2>1
  <2>2. PICK e \in AddAll(q, order, FALSE) : r = [p |-> e.p, early |-> FALSE] BY <2>20
  <2>3. order \in Seq(Txs)
    BY <1>2, FiniteIs, SetToSeqsIs
  <2>4. V \in [Accounts -> Nat] /\ \A a \in Accounts : V[a] = StateNonce(new, a) /\ V[a] \in Nat BY StateNonceIs
  <2> HIDE DEF V
  <2>5. /\ q \in Pools /\ q.vnonce = V /\ q.block = new /\ q.pending = p.pending /\ q.queue = p.queue
        /\ q.all = p.all /\ q.remotes = p.remotes
    BY <1>1, <2>4 DEF Pools
  <2> HIDE DEF q
  <2>6. Listed(q) /\ Limited(q) BY <1>1, <2>5 DEF Listed, Limited
  <2>7. ASSUME NEW a \in T PROVE FilledAt(q, a)
    BY <2>4, <2>5 DEF FilledAt
  <2>8. ASSUME NEW a \in T PROVE ShapeAt(q, a, s[a])
    <3>0. a \in Accounts /\ s[a] = StateNonce(p.block, a) /\ ShapeAt(p, a, s[a]) BY DEF Fit, NoncesAt
    <3> HIDE DEF s
    <3>1. ASSUME NEW t \in Of(q.pending, a), NEW n \in StateNonce(new, a)..TxNonce[t]
          PROVE  n \in Nonces(q.pending, a) \/ n < s[a]
      BY <1>1, <2>5, <3>0, StateNonceIs DEF Of, ShapeAt
    <3> QED BY <2>5, <3>1 DEF ShapeAt
  <2>9. Fit(q, T, s, FALSE) BY <2>5, <2>6, <2>7, <2>8 DEF Fit
  <2> HIDE DEF s
  <2>10. AddAll(q, order, FALSE) \subseteq Added(T, s, FALSE, q.block) BY <2>3, <2>9, AddAllHolds
  <2>11. Fit(e.p, T, s, FALSE) /\ e.p.block = new BY <2>5, <2>10 DEF Added
  <2> QED BY <2>2, <2>11 DEF s
<1> QED BY <1>3, <1>4

-----------------------------------------------------------------------------
(* The pool.                                                               *)

RequestsHold ==
  /\ asking \subseteq Accounts /\ dirty \subseteq Accounts /\ launch \in BOOLEAN
  /\ (reset # NoReset \/ dirty # {}) => launch
  /\ run \in Runs \cup {NoReset, Panic} /\ reset \in Resets \cup {NoReset}
  /\ heads \in Seq(PoolBlocks) /\ loopHead \in PoolBlocks

PoolInv ==
  /\ Fit(pool, Accounts \ torn, NoncesAt(pool.block), TRUE) /\ torn \subseteq Accounts
  /\ RequestsHold

\* The reset that waits, or else the one that runs, or else the pool is about the last head.
FollowInv ==
  /\ reset # NoReset => reset.new = loopHead
  /\ reset = NoReset /\ run \in Runs /\ run.reset # NoReset => run.reset.new = loopHead
  /\ reset = NoReset /\ (run = NoReset \/ (run \in Runs /\ run.reset = NoReset)) => skipped \/ pool.block = loopHead

LEMMA PoolInitHolds == PoolInit => PoolInv /\ FollowInv
<1> SUFFICES ASSUME PoolInit PROVE PoolInv /\ FollowInv OBVIOUS
<1> DEFINE V == [a \in Accounts |-> StateNonce(FirstBlock, a)]
<1>1. FirstBlock \in PoolBlocks /\ \A a \in Accounts : V[a] = StateNonce(FirstBlock, a) /\ V[a] \in Nat
  BY StateNonceIs, PoolAssumption
<1>2. V \in [Accounts -> Nat] BY <1>1
<1>3. pool = [pending |-> {}, queue |-> {}, all |-> {}, remotes |-> {}, locals |-> {},
              vnonce |-> V, block |-> FirstBlock, changes |-> 0] BY DEF PoolInit
<1> HIDE DEF V
<1>4. /\ pool \in Pools /\ pool.pending = {} /\ pool.queue = {} /\ pool.all = {} /\ pool.remotes = {}
      /\ pool.vnonce = V /\ pool.block = FirstBlock
  BY <1>1, <1>2, <1>3 DEF Pools
<1>5. Listed(pool) /\ Limited(pool) BY <1>4 DEF Listed, Limited
<1>6. ASSUME NEW a \in Accounts
      PROVE  FilledAt(pool, a) /\ ShapeAt(pool, a, NoncesAt(pool.block)[a]) /\ FrontAt(pool, a) /\ BelowAt(pool, a)
  BY <1>1, <1>4 DEF Of, FilledAt, ShapeAt, FrontAt, BelowAt
<1>7. Fit(pool, Accounts \ torn, NoncesAt(pool.block), TRUE) BY <1>4, <1>5, <1>6 DEF Fit, Executable
<1>8. PoolInv
  <2>1. /\ asking = {} /\ dirty = {} /\ launch = FALSE /\ run = NoReset /\ reset = NoReset
        /\ heads = <<>> /\ loopHead \in PoolBlocks /\ torn = {}
    BY <1>1 DEF PoolInit
  <2>2. heads \in Seq(PoolBlocks) BY <2>1
  <2>3. RequestsHold BY <2>1, <2>2 DEF RequestsHold
  <2> QED BY <1>7, <2>1, <2>3 DEF PoolInv
<1>9. FollowInv BY <1>4, PoolAssumption DEF FollowInv, PoolInit
<1> QED BY <1>8, <1>9

LEMMA AddTxKeeps ==
  ASSUME PoolInv, FollowInv, NEW t \in Txs, NEW local, AddTx(t, local) PROVE PoolInv' /\ FollowInv'
<1> DEFINE T == Accounts \ torn
           s == NoncesAt(pool.block)
<1>1. Fit(pool, T, s, TRUE) BY DEF PoolInv
<1>2. PICK r \in Add(pool, t, local) : pool' = r.p /\ asking' = asking \cup r.dirty BY DEF AddTx
<1>3. T \in SUBSET Accounts OBVIOUS
<1> HIDE DEF T, s
<1>4. r \in Added(T, s, TRUE, pool.block) BY <1>1, <1>3, AddHolds
<1>5. Fit(pool', T, s, TRUE) /\ pool'.block = pool.block /\ r.dirty \subseteq Accounts BY <1>2, <1>4 DEF Added
<1>6. Fit(pool', Accounts \ torn', NoncesAt(pool'.block), TRUE) BY <1>5 DEF AddTx, T, s
<1> QED BY <1>2, <1>5, <1>6 DEF PoolInv, RequestsHold, FollowInv, AddTx, chainVars

\* A step that removes transactions and is about nothing else.
LEMMA RemovalKeeps ==
  ASSUME PoolInv, FollowInv, NEW S \in SUBSET Txs, pool' = RemoveAll(pool, S),
         UNCHANGED <<requestVars, run, chainVars, skipped, torn>> PROVE PoolInv' /\ FollowInv'
<1> DEFINE T == Accounts \ torn
           s == NoncesAt(pool.block)
<1>1. Fit(pool, T, s, TRUE) BY DEF PoolInv
<1>3. T \in SUBSET Accounts OBVIOUS
<1> HIDE DEF T, s
<1>4. Fit(pool', T, s, TRUE) /\ Kept(pool, pool') BY <1>1, <1>3, RemoveAllHolds
<1>5. Fit(pool', Accounts \ torn', NoncesAt(pool'.block), TRUE) /\ pool'.block = pool.block BY <1>4 DEF T, s, Kept
<1> QED BY <1>5 DEF PoolInv, RequestsHold, FollowInv, requestVars, chainVars

LEMMA RunReorgKeeps ==
  ASSUME PoolInv, FollowInv, run # Panic, RunReorg PROVE PoolInv' /\ FollowInv'
<1> DEFINE T == Accounts \ torn
           b == pool.block
<1>1. /\ Fit(pool, T, NoncesAt(b), TRUE) /\ T \in SUBSET Accounts /\ b \in PoolBlocks
      /\ run \in Runs
  BY DEF PoolInv, RequestsHold, RunReorg, Fit, Pools
<1>2. PICK order \in SetToSeqs(Accounts \ pool.locals), readable \in BOOLEAN :
       IF run.reset = NoReset
       THEN /\ readable /\ pool' = Reorg(pool, run, order) /\ UNCHANGED <<skipped, torn>>
       ELSE /\ ~readable => run.reset.new # chain.head
            /\ \E r \in ResetPool(pool, run.reset.old, run.reset.new, readable) :
                 /\ pool' = Reorg(r.p, run, order) /\ skipped' = r.early
                 /\ torn' = IF r.early THEN torn
                            ELSE {a \in torn \cup Untaken(pool.block, pool') : Broken(pool', a)} BY DEF RunReorg
<1>3. Len(order) \in Nat
  BY FiniteIs, SetToSeqsIs
<1>4. SUFFICES /\ Fit(pool', Accounts \ torn', NoncesAt(pool'.block), TRUE) /\ torn' \subseteq Accounts
               /\ run.reset = NoReset => pool'.block = pool.block /\ skipped' = skipped
               /\ run.reset # NoReset => skipped' \/ pool'.block = run.reset.new
  <2>1. /\ run' = NoReset /\ UNCHANGED <<asking, reset, dirty, launch, heads, loopHead, chain>>
    BY DEF RunReorg, requestVars, chainVars
  <2>2. NoReset \notin Runs BY PoolAssumption
  <2>3. RequestsHold BY DEF PoolInv
  <2>4. RequestsHold' BY <2>1, <2>3 DEF RequestsHold
  <2>5. PoolInv' BY <1>4, <2>4 DEF PoolInv
  <2>6. reset' # NoReset => reset'.new = loopHead' BY <2>1 DEF FollowInv
  <2>7. ASSUME reset' = NoReset PROVE skipped' \/ pool'.block = loopHead'
    <3>1. reset = NoReset /\ loopHead' = loopHead BY <2>1, <2>7
    <3>2. CASE run.reset = NoReset BY <1>1, <1>4, <3>1, <3>2 DEF FollowInv
    <3>3. CASE run.reset # NoReset
      BY <1>1, <3>1, <3>3, <1>4 DEF FollowInv
    <3> QED BY <3>2, <3>3
  <2>8. reset' = NoReset /\ run' \in Runs /\ run'.reset # NoReset => run'.reset.new = loopHead' BY <2>1, <2>2
  <2>9. FollowInv' BY <2>6, <2>7, <2>8 DEF FollowInv
  <2> QED BY <2>5, <2>9
<1>5. CASE run.reset = NoReset
  <2>1. pool' = Reorg(pool, run, order) /\ skipped' = skipped /\ torn' = torn BY <1>2, <1>5
  <2>2. run.dirty \in SUBSET Accounts BY <1>1 DEF Runs
  <2> DEFINE s == NoncesAt(b)
  <2>3. Fit(pool, T, s, TRUE) /\ T \in SUBSET Accounts BY <1>1
  <2> HIDE DEF T, s
  <2>4. Fit(pool', T, s, TRUE) /\ pool'.block = pool.block BY <1>3, <1>5, <2>1, <2>2, <2>3, PlainRunHolds
  <2> QED BY <1>5, <2>1, <2>4 DEF T, s, PoolInv
<1>6. CASE run.reset # NoReset
  <2> DEFINE old == run.reset.old
             new == run.reset.new
  <2>1. PICK r \in ResetPool(pool, old, new, readable) :
                 /\ pool' = Reorg(r.p, run, order) /\ skipped' = r.early
                 /\ torn' = IF r.early THEN torn
                            ELSE {a \in torn \cup Untaken(b, pool') : Broken(pool', a)} BY <1>2, <1>6
  <2>2. old \in PoolBlocks /\ new \in PoolBlocks BY <1>1, <1>6 DEF Runs, Resets
  <2> DEFINE U == Untaken(b, pool')
  <2>3. U \subseteq Accounts BY <1>1, PoolAssumption DEF Untaken, Reinject, Mined
  <2> HIDE DEF T, b, U, old
  <2>4. /\ r.early => r.p = pool
        /\ ~ r.early => Fit(r.p, T, NoncesAt(b), FALSE) /\ r.p.block = new
        /\ r.early \in BOOLEAN
    <3>1. Fit(pool, T, NoncesAt(pool.block), TRUE) BY <1>1 DEF b
    <3> HIDE DEF new
    <3> QED BY <1>1, <2>2, <3>1, ResetPoolHolds DEF b
  <2>5. CASE r.early
    <3>1. pool' = Reorg(pool, run, order) /\ torn' = torn /\ skipped' BY <2>1, <2>4, <2>5
    <3>2. Fit(pool, T, NoncesAt(b), FALSE) BY <1>1 DEF Fit
    <3>20. T \in SUBSET Accounts BY <1>1
    <3>21. b \in PoolBlocks BY <1>1
    <3>22. pool' = Reorg(pool, run, order) BY <3>1
    <3> DEFINE W == T \ Untaken(b, pool')
    <3>23. Resetting(pool, T, b, run, order, pool', W) BY <1>3, <1>6, <3>2, <3>20, <3>21, <3>22 DEF Resetting
    <3> HIDE DEF W
    <3>3. Fit(pool', W, NoncesAt(pool.block), TRUE) /\ pool'.block = pool.block BY <3>23, ResetRunHolds
    <3>4. Untaken(b, pool') = {} BY <3>3 DEF Untaken, Reinject, b
    <3>5. W = T BY <3>4 DEF W
    <3> QED BY <1>6, <3>1, <3>3, <3>5 DEF T, PoolInv
  <2>6. CASE ~ r.early
    <3> DEFINE p == r.p
    <3>1. pool' = Reorg(p, run, order) /\ torn' = {a \in torn \cup U : Broken(pool', a)} BY <2>1, <2>6 DEF U
    <3>2. p.block = new BY <2>4, <2>6
    <3>20. Fit(p, T, NoncesAt(b), FALSE) BY <2>4, <2>6
    <3>21. T \in SUBSET Accounts BY <1>1
    <3>22. b \in PoolBlocks BY <1>1
    <3>23. pool' = Reorg(p, run, order) BY <3>1
    <3> DEFINE W == T \ Untaken(b, pool')
               z == NoncesAt(pool'.block)
               A == Accounts \ torn'
    <3> HIDE DEF p
    <3>24. Resetting(p, T, b, run, order, pool', W) BY <1>3, <1>6, <3>20, <3>21, <3>22, <3>23 DEF Resetting
    <3> HIDE DEF W
    <3>3. Fit(pool', W, NoncesAt(p.block), TRUE) /\ pool'.block = p.block BY <3>24, ResetRunHolds
    <3>4. Fit(pool', W, z, TRUE) BY <3>3
    <3>5. A \in SUBSET Accounts /\ \A a \in A \ W : ~ Broken(pool', a) BY <3>1 DEF T, U, W
    <3> HIDE DEF z, A
    <3>6. Fit(pool', A, z, TRUE) BY <3>4, <3>5, FitMore
    <3>7. torn' \subseteq Accounts BY <2>3, <3>1 DEF PoolInv
    <3> QED BY <1>6, <3>2, <3>3, <3>6, <3>7 DEF z, A
  <2> QED BY <2>4, <2>5, <2>6
<1> QED BY <1>5, <1>6

LEMMA PoolNextHolds ==
  ASSUME PoolInv, FollowInv, [PoolNext]_poolVars PROVE PoolInv' /\ FollowInv'
<1>1. CASE UNCHANGED poolVars BY <1>1 DEF poolVars, requestVars, chainVars, PoolInv, RequestsHold, FollowInv
<1>2. ASSUME NEW t \in Txs, NEW local \in BOOLEAN, AddTx(t, local) PROVE PoolInv' /\ FollowInv' BY <1>2, AddTxKeeps
<1>3. CASE RequestPromote BY <1>3 DEF RequestPromote, PoolInv, RequestsHold, FollowInv, chainVars
<1>4. CASE RequestReset
  <2>1. /\ heads # <<>> /\ heads \in Seq(PoolBlocks) /\ loopHead \in PoolBlocks
        /\ reset \in Resets \cup {NoReset}
    BY <1>4 DEF RequestReset, PoolInv, RequestsHold
  <2>2. Head(heads) \in PoolBlocks /\ Tail(heads) \in Seq(PoolBlocks) BY <2>1
  <2>3. /\ loopHead' = Head(heads) /\ heads' = Tail(heads) /\ launch' = TRUE
        /\ reset' = [old |-> IF reset = NoReset THEN loopHead ELSE reset.old, new |-> Head(heads)]
        /\ UNCHANGED <<pool, asking, dirty, run, skipped, torn>>
    BY <1>4 DEF RequestReset
  <2>4. reset' \in Resets /\ reset'.new = loopHead' /\ reset' # NoReset BY <2>1, <2>2, <2>3, PoolAssumption DEF Resets
  <2> QED BY <2>2, <2>3, <2>4 DEF PoolInv, RequestsHold, FollowInv
<1>5. CASE Launch
  <2>1. /\ run = NoReset /\ run' = [reset |-> reset, dirty |-> dirty] /\ reset' = NoReset /\ dirty' = {}
        /\ launch' = FALSE /\ UNCHANGED <<pool, asking, heads, loopHead, skipped, torn>>
    BY <1>5 DEF Launch, chainVars
  <2>2. run' \in Runs /\ run'.reset = reset BY <2>1 DEF PoolInv, RequestsHold, Runs
  <2>3. run' # NoReset BY <2>2, PoolAssumption
  <2>4. RequestsHold BY DEF PoolInv
  <2>5. RequestsHold' BY <2>1, <2>2, <2>4 DEF RequestsHold
  <2>6. PoolInv' BY <2>1, <2>5 DEF PoolInv
  <2>7. FollowInv'
    BY <2>1, <2>2, <2>3 DEF FollowInv
  <2> QED BY <2>6, <2>7
<1>6. CASE RunReorg /\ run # Panic BY <1>6, RunReorgKeeps
<1>7. CASE PanicInReset
  BY <1>7, PoolAssumption DEF PanicInReset, PoolInv, RequestsHold, FollowInv, requestVars, chainVars
<1>8. CASE SetGasPrice
  <2> DEFINE S == {t \in pool.remotes : Price[t] < gasPrice'}
  <2>1. pool' = RemoveAll(pool, S) /\ UNCHANGED <<requestVars, run, chainVars, skipped, torn>> BY <1>8 DEF SetGasPrice
  <2>2. S \in SUBSET Txs BY DEF PoolInv, Fit, Pools
  <2> HIDE DEF S
  <2> QED BY <2>1, <2>2, RemovalKeeps
<1>9. ASSUME NEW b \in PoolBlocks, NewHead(b) PROVE PoolInv' /\ FollowInv'
  <2>1. heads' \in Seq(PoolBlocks) BY <1>9 DEF NewHead, PoolInv, RequestsHold
  <2> QED BY <1>9, <2>1 DEF NewHead, PoolInv, RequestsHold, FollowInv, requestVars
<1>10. ASSUME NEW b \in PoolBlocks, SetHeadOfChain(b) PROVE PoolInv' /\ FollowInv'
  BY <1>10 DEF SetHeadOfChain, PoolInv, RequestsHold, FollowInv, requestVars
<1>11. ASSUME NEW a \in Accounts, EvictQueue(a) PROVE PoolInv' /\ FollowInv'
  <2> DEFINE S == Of(pool.queue, a)
  <2>1. pool' = RemoveAll(pool, S) /\ UNCHANGED <<requestVars, run, chainVars, skipped, torn>> BY <1>11 DEF EvictQueue
  <2>2. S \in SUBSET Txs BY DEF PoolInv, Fit, Pools, Of
  <2> HIDE DEF S
  <2> QED BY <2>1, <2>2, RemovalKeeps
<1> QED BY <1>1, <1>2, <1>3, <1>4, <1>5, <1>6, <1>7, <1>8, <1>9, <1>10, <1>11 DEF PoolNext

LEMMA FollowInvImplies == PoolInv /\ FollowInv => FollowsHead
<1> SUFFICES ASSUME PoolInv, FollowInv, Quiet, ~ skipped PROVE pool.block = loopHead BY DEF FollowsHead
<1>1. run = NoReset /\ ~ launch BY DEF Quiet
<1>2. reset = NoReset BY <1>1 DEF PoolInv, RequestsHold
<1> QED BY <1>1, <1>2 DEF FollowInv

LEMMA PoolInvImplies == PoolInv => PoolSound
<1> SUFFICES ASSUME PoolInv PROVE PoolSound OBVIOUS
<1>1. /\ pool \in Pools /\ Listed(pool) /\ Limited(pool) /\ pool.pending \in SUBSET Txs /\ pool.block \in PoolBlocks
      /\ \A a \in Accounts : FrontAt(pool, a)
      /\ \A a \in Accounts \ torn : FilledAt(pool, a) /\ BelowAt(pool, a)
  BY DEF PoolInv, Fit, Executable, Pools
<1>2. PoolTypeOK BY <1>1 DEF PoolTypeOK, PoolInv, RequestsHold, Pools
<1>3. ListsAgree BY <1>1 DEF ListsAgree, Listed, Limited
<1>4. ASSUME NEW a \in Accounts, a \notin torn PROVE ~ Broken(pool, a)
  <2>1. StateNonce(pool.block, a) \in Nat /\ pool.vnonce[a] \in Nat BY <1>1, StateNonceIs DEF Pools
  <2>2. \A n \in StateNonce(pool.block, a)..(pool.vnonce[a] - 1) : n \in Nonces(pool.pending, a)
    BY <1>1, <1>4 DEF FilledAt
  <2>3. ASSUME NEW n \in Nonces(pool.pending, a) PROVE n \in StateNonce(pool.block, a)..(pool.vnonce[a] - 1)
    <3>1. PICK t \in Of(pool.pending, a) : n = TxNonce[t] BY DEF Nonces
    <3>2. n \in Nat BY <1>1, <3>1, PoolAssumption DEF Of
    <3>3. n >= StateNonce(pool.block, a) BY <1>1, <3>1 DEF FrontAt
    <3>4. n < pool.vnonce[a] BY <1>1, <1>4, <3>1 DEF BelowAt
    <3> QED BY <2>1, <3>2, <3>3, <3>4
  <2>4. Nonces(pool.pending, a) = StateNonce(pool.block, a)..(pool.vnonce[a] - 1) BY <2>2, <2>3
  <2> QED BY <2>4 DEF Broken
<1>5. PendingExecutable BY <1>1, <1>4 DEF PendingExecutable, FrontAt
<1> QED BY <1>2, <1>3, <1>5 DEF PoolSound

\* Whatever is added, replaced, evicted, truncated, reorganised or taken back: the lists and the
\* lookup hold the same transactions, one for each nonce, and what is pending can be executed.
THEOREM PoolIsSound == PoolSpec => []PoolSound
<1>1. PoolInit => PoolInv /\ FollowInv BY PoolInitHolds
<1>2. PoolInv /\ FollowInv /\ [PoolNext]_poolVars => PoolInv' /\ FollowInv' BY PoolNextHolds
<1>3. PoolInv => PoolSound BY PoolInvImplies
<1> QED BY <1>1, <1>2, <1>3, PTL DEF PoolSpec

\* Resets that were merged or that waited for the run before them end with the pool on the head that
\* was told last.
THEOREM PoolFollowsHead == PoolSpec => []FollowsHead
<1>1. PoolInit => PoolInv /\ FollowInv BY PoolInitHolds
<1>2. PoolInv /\ FollowInv /\ [PoolNext]_poolVars => PoolInv' /\ FollowInv' BY PoolNextHolds
<1>3. PoolInv /\ FollowInv => FollowsHead BY FollowInvImplies
<1> QED BY <1>1, <1>2, <1>3, PTL DEF PoolSpec
=============================================================================
