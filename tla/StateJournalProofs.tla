------------------------- MODULE StateJournalProofs -------------------------
(***************************************************************************)
(* StateDB keeps its promise to the EVM, and its journal keeps its books.  *)
(***************************************************************************)
EXTENDS StateJournal, FiniteSetTheorems, SequenceTheorems, TLAPS

\* A journal entry of each kind, with what it remembers.
Entry(op, Prev) == [op : {op}, addr : Addrs, prev : Prev]
Replaced == [obj : Object, destruct : BOOLEAN]

Entries ==
  Entry("create", {None}) \cup Entry("touch", {None}) \cup Entry("reset", Replaced)
    \cup Entry("suicide", BOOLEAN \X (0 .. MaxBal)) \cup Entry("balance", 0 .. MaxBal)
    \cup Entry("nonce", 0 .. MaxNonce) \cup Entry("code", BOOLEAN) \cup Entry("storage", Slots \X Words)

Writes == {"suicide", "balance", "nonce", "code", "storage", "touch"}

\* The journalled part of a StateDB, as Live gives it.
Parts == [o : [Addrs -> Object \cup {None}], j : Seq(Entries), d : [Addrs -> Nat], x : SUBSET Addrs]

Count(j, a) == Cardinality({i \in DOMAIN j : a \in Dirtied(j[i])})

\* The journal has grown by one entry, the object it names is another.
Raised(d, d2, e) ==
  \A a \in Addrs :
    LET n == IF a \in Dirtied(e) THEN 1 ELSE 0
    IN /\ d2[a] >= d[a] + n /\ (a # Ripemd => d2[a] = d[a] + n)
       /\ a = Ripemd /\ e.addr = a /\ e.op = "touch" => d2[a] > d[a] + n

-----------------------------------------------------------------------------
(* What the operations do to the journalled part, and what stays true of it *)
(* in a given context: the parts that only the ends of transactions and of  *)
(* blocks change.                                                           *)

Contexts ==
  [snap : BOOLEAN, base : [Addrs -> Stored \cup {None}], trie : [Addrs -> Stored \cup {None}],
   flat : [Addrs -> [acct : Stored \cup {None}, slots : [Slots -> Words]]],
   codes : SUBSET Addrs, pending : SUBSET Addrs, dirty : SUBSET Addrs,
   acc : [Addrs -> Stored \cup {None}], sto : [Addrs -> [Slots -> Words \cup {Unset}]]]

Ctx == [snap |-> useSnap, base |-> base, trie |-> trie, flat |-> flat, codes |-> codes,
        pending |-> pending, dirty |-> dirty, acc |-> snapAcc, sto |-> snapSto]

\* An entry is appended, the object it names becomes another.
Wrote(s, t, e, obj) ==
  /\ s \in Parts /\ t \in Parts /\ e \in Entries
  /\ t.o = [s.o EXCEPT ![e.addr] = obj] /\ t.j = Append(s.j, e) /\ Raised(s.d, t.d, e)

\* A slot of which the object knows that the trie has it as zero, or what it has.
Known(obj, k) == obj.origin[k] # Unset \/ obj.root[k] = 0

\* An object as the EVM sees it.
Store(obj) ==
  [k \in Slots |-> IF obj.dirty[k] # Unset THEN obj.dirty[k]
                   ELSE IF obj.pending[k] # Unset THEN obj.pending[k] ELSE obj.root[k]]
Plain(obj) ==
  IF obj # None /\ ~obj.deleted
    THEN [bal |-> obj.bal, nonce |-> obj.nonce, code |-> obj.code, store |-> Store(obj),
          dead |-> obj.suicided]
    ELSE None

\* What the undoing of a write makes of an object.
Restored(obj, e) ==
  CASE e.op = "suicide" -> [obj EXCEPT !.suicided = e.prev[1], !.bal = e.prev[2]]
    [] e.op = "balance" -> [obj EXCEPT !.bal = e.prev]
    [] e.op = "nonce"   -> [obj EXCEPT !.nonce = e.prev]
    [] e.op = "code"    -> [obj EXCEPT !.code = e.prev, !.dirtyCode = TRUE]
    [] e.op = "storage" -> [obj EXCEPT !.dirty = [obj.dirty EXCEPT ![e.prev[1]] = e.prev[2]]]
    [] e.op = "touch"   -> obj

\* A journalled write to a live object.
WriteStep(s, t, e, obj) ==
  LET old == s.o[e.addr]
  IN /\ Wrote(s, t, e, obj) /\ e.op \in Writes /\ t.x = s.x
     /\ IsLive(s.o, e.addr) /\ obj \in Object /\ ~obj.deleted
     /\ obj.root = old.root /\ obj.origin = old.origin /\ obj.pending = old.pending
     /\ IF e.op = "code" THEN ~old.code /\ obj.code /\ obj.dirtyCode
        ELSE obj.code = old.code /\ obj.dirtyCode = old.dirtyCode
     /\ IF e.op = "storage"
          THEN \E w \in Words : obj.dirty = [old.dirty EXCEPT ![e.prev[1]] = w]
          ELSE obj.dirty = old.dirty
     /\ EIP158 => /\ Plain(Restored(obj, e)) = Plain(old)
                  /\ e.op = "storage" => Known(old, e.prev[1])

\* createObject, over an object that is gone or that has neither code nor storage.
MakeStep(c, s, t, e) ==
  LET old == s.o[e.addr]
  IN /\ Wrote(s, t, e, NewObject)
     /\ \/ e.op = "create" /\ old = None /\ t.x = s.x
        \/ /\ e.op = "reset" /\ old # None
           /\ e.prev = [obj |-> old, destruct |-> e.addr \in s.x]
           /\ t.x = IF c.snap THEN s.x \cup {e.addr} ELSE s.x
           /\ old.deleted \/ (~old.code /\ old.root = Zeros /\ old.pending = NoWrites /\ old.dirty = NoWrites)

\* A write to a live object that no entry remembers: cached slots, a balance carried over.
CacheStep(s, t, a, obj) ==
  /\ s \in Parts /\ t = [s EXCEPT !.o = [s.o EXCEPT ![a] = obj]]
  /\ a \in Addrs /\ IsLive(s.o, a) /\ obj \in Object /\ ~obj.deleted
  /\ obj.root = s.o[a].root /\ obj.pending = s.o[a].pending /\ obj.dirty = s.o[a].dirty
  /\ obj.code = s.o[a].code /\ obj.dirtyCode = s.o[a].dirtyCode
  /\ EIP158 => \A k \in Slots : obj.origin[k] = s.o[a].origin[k] \/ obj.origin[k] = obj.root[k]

\* The last entry is undone.
UndoStep(s, t, e) ==
  /\ s \in Parts /\ Len(s.j) > 0 /\ e = s.j[Len(s.j)]
  /\ t = [o |-> t.o, j |-> t.j, d |-> t.d, x |-> t.x]
  /\ t.j = SubSeq(s.j, 1, Len(s.j) - 1)
  /\ t.d = [b \in Addrs |-> IF b \in Dirtied(e) THEN s.d[b] - 1 ELSE s.d[b]]
  /\ \/ e.op = "create" /\ t.o = [s.o EXCEPT ![e.addr] = None] /\ t.x = s.x
     \/ /\ e.op = "reset" /\ t.o = [s.o EXCEPT ![e.addr] = e.prev.obj]
        /\ t.x = IF e.prev.destruct THEN s.x ELSE s.x \ {e.addr}
     \/ e.op \in Writes /\ t.o = [s.o EXCEPT ![e.addr] = Restored(s.o[e.addr], e)] /\ t.x = s.x

\* What has an entry is live, and only the first entry of an address finds it gone.
Named(s) == \A i \in 1 .. Len(s.j) : IsLive(s.o, s.j[i].addr)
Ordered(j) ==
  \A i, k \in 1 .. Len(j) :
    i < k /\ j[i].addr = j[k].addr =>
      /\ j[k].op # "create"
      /\ j[k].op = "reset" => ~j[k].prev.obj.deleted /\ j[i].op # "storage"

\* What is pending or dirty has an object, and had one before the transaction.
Present(c, s) ==
  /\ \A a \in c.pending \cup c.dirty : s.o[a] # None
  /\ \A i \in 1 .. Len(s.j) : s.j[i].op = "create" => s.j[i].addr \notin c.pending \cup c.dirty

\* The dirty counts; a touch of the precompile leaves one too many.
Counted(s) ==
  \A a \in Addrs :
    /\ s.d[a] >= Count(s.j, a) /\ (a # Ripemd => s.d[a] = Count(s.j, a))
    /\ \A i \in 1 .. Len(s.j) :
         s.j[i].addr = Ripemd /\ s.j[i].op = "touch" => s.d[Ripemd] > Count(s.j, Ripemd)

\* Code that is neither in the database nor in an object that Commit writes.
HasCode(acct) == acct # None /\ acct.code
Owes(c, a) == a \notin c.codes /\ (HasCode(c.trie[a]) \/ HasCode(c.acc[a]))
CodeKept(c, a, obj) == obj.code => obj.dirtyCode \/ a \in c.codes
Coded(c, s) ==
  /\ \A a \in Addrs : s.o[a] # None => CodeKept(c, a, s.o[a])
  /\ \A i \in 1 .. Len(s.j) : s.j[i].op = "reset" => CodeKept(c, s.j[i].addr, s.j[i].prev.obj)
  /\ \A a \in Addrs : Owes(c, a) =>
       /\ a \in c.dirty /\ IsLive(s.o, a) /\ s.o[a].code /\ s.o[a].dirtyCode
       /\ \A i \in 1 .. Len(s.j) : s.j[i].addr = a => s.j[i].op \notin {"create", "reset", "code"}

\* A slot that an entry remembers is dirty in the object.
Slotted(s) ==
  \A i \in 1 .. Len(s.j) :
    s.j[i].op = "storage" => s.o[s.j[i].addr].dirty[s.j[i].prev[1]] # Unset

\* What the snapshot will have for a slot, given whether the account is destructed.
SlotOf(c, a, destruct, k) ==
  IF c.sto[a][k] # Unset THEN c.sto[a][k] ELSE IF destruct THEN 0 ELSE c.flat[a].slots[k]

\* Nothing is known of an address in the snapshot.
Bare(c, a) == c.snap => c.flat[a].slots = Zeros /\ c.sto[a] = NoWrites

\* An object's slots agree with the snapshot, and its cached ones with those.
Sane(c, a, obj, destruct) ==
  IF obj.deleted THEN c.snap => destruct /\ c.sto[a] = NoWrites /\ c.acc[a] = None
  ELSE \A k \in Slots :
         /\ obj.origin[k] # Unset => obj.origin[k] = obj.root[k]
         /\ obj.pending[k] # Unset \/ obj.dirty[k] # Unset => Known(obj, k)
         /\ c.snap => obj.root[k] = SlotOf(c, a, destruct, k)
         /\ c.snap /\ obj.origin[k] = Unset =>
              obj.root[k] = IF destruct THEN 0 ELSE c.flat[a].slots[k]

Saned(c, s) ==
  /\ \A a \in Addrs : IF s.o[a] = None THEN Bare(c, a) ELSE Sane(c, a, s.o[a], a \in s.x)
  /\ \A i \in 1 .. Len(s.j) :
       LET e == s.j[i]
       IN /\ e.op = "create" => Bare(c, e.addr)
          /\ e.op = "reset" => Sane(c, e.addr, e.prev.obj, e.prev.destruct)

\* The destruct marks: set by the first replacement of an object, and gone with it.
Marked(c, s) ==
  /\ ~c.snap => s.x = {} /\ \A i \in 1 .. Len(s.j) : s.j[i].op = "reset" => ~s.j[i].prev.destruct
  /\ \A a \in Addrs : s.o[a] = None => a \notin s.x
  /\ \A i \in 1 .. Len(s.j) : c.snap /\ s.j[i].op = "reset" => s.j[i].addr \in s.x
  /\ \A i, k \in 1 .. Len(s.j) :
       c.snap /\ i < k /\ s.j[i].addr = s.j[k].addr /\ s.j[i].op = "reset" /\ s.j[k].op = "reset" =>
         s.j[k].prev.destruct
  /\ \A i \in 1 .. Len(s.j) : s.j[i].op = "create" /\ s.j[i].addr \in s.x =>
       \E k \in 1 .. Len(s.j) : /\ i < k /\ s.j[k].addr = s.j[i].addr
                                /\ s.j[k].op = "reset" /\ ~s.j[k].prev.destruct

Sound(c, s) ==
  /\ c \in Contexts /\ s \in Parts
  /\ Named(s) /\ Ordered(s.j) /\ Slotted(s) /\ Counted(s)
  /\ Present(c, s) /\ Coded(c, s)
  /\ EIP158 => Saned(c, s) /\ Marked(c, s)

\* What is known of an address between two operations, and what an entry says it was before.
Facets == [seen : Seen \cup {None}, there : BOOLEAN, destruct : BOOLEAN]
Face(obj, destruct) == [seen |-> Plain(obj), there |-> obj # None, destruct |-> destruct]
Faces(s) == [a \in Addrs |-> Face(s.o[a], a \in s.x)]

Earlier(v, e) ==
  CASE e.op = "suicide" -> [[v EXCEPT !.dead = e.prev[1]] EXCEPT !.bal = e.prev[2]]
    [] e.op = "balance" -> [v EXCEPT !.bal = e.prev]
    [] e.op = "nonce"   -> [v EXCEPT !.nonce = e.prev]
    [] e.op = "code"    -> [v EXCEPT !.code = e.prev]
    [] e.op = "storage" -> [v EXCEPT !.store = [v.store EXCEPT ![e.prev[1]] = e.prev[2]]]
    [] e.op = "touch"   -> v

Before(f, e) ==
  IF e.op = "create" THEN [seen |-> None, there |-> FALSE, destruct |-> f.destruct]
  ELSE IF e.op = "reset" THEN Face(e.prev.obj, e.prev.destruct)
  ELSE [seen |-> Earlier(f.seen, e), there |-> f.there, destruct |-> f.destruct]

\* A history of the transaction: what was known when the journal had n entries.
Histories == [Nat -> [Addrs -> Facets]]
Told(h, s) ==
  /\ h[Len(s.j)] = Faces(s)
  /\ \A n \in 1 .. Len(s.j), a \in Addrs :
       h[n - 1][a] = IF a = s.j[n].addr THEN Before(h[n][a], s.j[n]) ELSE h[n][a]

\* The first n entries of a journal dirty every address whose account they change.
Settled(h, j, n) ==
  \A a \in Addrs : (\A i \in 1 .. n : a \notin Dirtied(j[i])) => h[n][a] = h[0][a]

GoesOn(g, s, t, e, h) ==
  /\ g \in Histories
  /\ EIP158 => Told(g, s) /\ Faces(s)[e.addr] = Before(Faces(t)[e.addr], e)
  /\ \A b \in Addrs : b # e.addr => (b \in t.x <=> b \in s.x)
  /\ h = [g EXCEPT ![Len(t.j)] = Faces(t)]

\* An operation on one address.
Advance(c, g, s, h, t, a) ==
  /\ Sound(c, t) /\ h \in Histories /\ (EIP158 => Told(h, t))
  /\ Len(s.j) <= Len(t.j)
  /\ \A i \in 1 .. Len(s.j) : t.j[i] = s.j[i]
  /\ \A i \in 1 .. Len(t.j) : i > Len(s.j) => t.j[i].addr = a
  /\ \A n \in 0 .. Len(s.j) : h[n] = g[n]
  /\ \A b \in Addrs : b # a => Faces(t)[b] = Faces(s)[b]

-----------------------------------------------------------------------------
(* Entries, sequences of them and their counts.                            *)

\* What an entry is, by its kind.
LEMMA EntryKind ==
  ASSUME NEW e \in Entries
  PROVE  /\ e.addr \in Addrs /\ e.op \in Writes \cup {"create", "reset"}
         /\ e.op \in {"create", "touch"} => e.prev = None
         /\ e.op = "reset" => e.prev \in Replaced
         /\ e.op = "suicide" => e.prev[1] \in BOOLEAN /\ e.prev[2] \in 0 .. MaxBal
         /\ e.op = "balance" => e.prev \in 0 .. MaxBal
         /\ e.op = "nonce" => e.prev \in 0 .. MaxNonce
         /\ e.op = "code" => e.prev \in BOOLEAN
         /\ e.op = "storage" => e.prev[1] \in Slots /\ e.prev[2] \in Words
         /\ Dirtied(e) = IF e.op = "reset" THEN {} ELSE {e.addr}
  BY DEF Entries, Entry, Writes, Dirtied

\* The entries of a journal that has grown by one.
LEMMA AppendEntry ==
  ASSUME NEW j \in Seq(Entries), NEW e \in Entries
  PROVE  /\ Append(j, e) \in Seq(Entries) /\ Len(j) \in Nat /\ Len(Append(j, e)) = Len(j) + 1
         /\ DOMAIN j = 1 .. Len(j) /\ DOMAIN Append(j, e) = 1 .. Len(j) + 1
         /\ \A i \in 1 .. Len(j) : Append(j, e)[i] = j[i] /\ j[i] \in Entries
         /\ Append(j, e)[Len(j) + 1] = e
  BY AppendProperties, LenProperties, ElementOfSeq

\* The entries of a journal without its last.
LEMMA DropEntry ==
  ASSUME NEW j \in Seq(Entries), Len(j) > 0
  PROVE  LET k == SubSeq(j, 1, Len(j) - 1)
         IN /\ k \in Seq(Entries) /\ Len(j) \in Nat /\ Len(k) = Len(j) - 1
            /\ DOMAIN j = 1 .. Len(j) /\ DOMAIN k = 1 .. Len(k)
            /\ \A i \in 1 .. Len(k) : k[i] = j[i] /\ k[i] \in Entries
            /\ \A i \in 1 .. Len(j) : j[i] \in Entries
<1> DEFINE k == SubSeq(j, 1, Len(j) - 1)
<1>1. /\ Len(j) \in Nat /\ DOMAIN j = 1 .. Len(j) /\ \A i \in 1 .. Len(j) : j[i] \in Entries
  BY LenProperties, ElementOfSeq
<1>2. Len(j) - 1 \in Int /\ 1 \in Int /\ \A i \in 1 .. Len(j) - 1 : j[i] \in Entries BY <1>1
<1>3. k \in Seq(Entries) /\ Len(k) = Len(j) - 1 /\ \A i \in 1 .. Len(j) - 1 : k[i] = j[i]
  <2>1. /\ k \in Seq(Entries)
        /\ Len(k) = IF 1 <= Len(j) - 1 THEN Len(j) - 1 - 1 + 1 ELSE 0
        /\ \A i \in 1 .. (Len(j) - 1) - 1 + 1 : k[i] = j[1 + i - 1]
    BY <1>2, SubSeqProperties
  <2>2. Len(k) = Len(j) - 1 BY <1>1, <2>1
  <2>3. ASSUME NEW i \in 1 .. Len(j) - 1 PROVE k[i] = j[i]
    BY <1>1, <2>1
  <2> QED BY <2>1, <2>2, <2>3
<1> HIDE DEF k
<1>4. DOMAIN k = 1 .. Len(k) BY <1>3, LenProperties
<1>5. \A i \in 1 .. Len(k) : k[i] = j[i] /\ k[i] \in Entries BY <1>1, <1>3
<1>6. /\ k \in Seq(Entries) /\ Len(j) \in Nat /\ Len(k) = Len(j) - 1
      /\ DOMAIN j = 1 .. Len(j) /\ DOMAIN k = 1 .. Len(k)
      /\ \A i \in 1 .. Len(k) : k[i] = j[i] /\ k[i] \in Entries
      /\ \A i \in 1 .. Len(j) : j[i] \in Entries
  BY <1>1, <1>3, <1>4, <1>5
<1> QED BY <1>6 DEF k

\* A longer journal counts its last entry at the address it dirtied.
LEMMA CountGrows ==
  ASSUME NEW j \in Seq(Entries), NEW k \in Seq(Entries), Len(k) = Len(j) + 1,
         \A i \in 1 .. Len(j) : k[i] = j[i], NEW a
  PROVE  /\ Count(j, a) \in Nat
         /\ Count(k, a) = Count(j, a) + IF a \in Dirtied(k[Len(k)]) THEN 1 ELSE 0
<1> DEFINE J == {i \in DOMAIN j : a \in Dirtied(j[i])}
           K == {i \in DOMAIN k : a \in Dirtied(k[i])}
           last == Len(k)
<1>1. Len(j) \in Nat /\ DOMAIN j = 1 .. Len(j) /\ DOMAIN k = 1 .. Len(j) + 1 BY LenProperties
<1>2. IsFiniteSet(J) /\ last \notin J
  <2>1. IsFiniteSet(1 .. Len(j)) /\ J \subseteq 1 .. Len(j) BY <1>1, FS_Interval
  <2> QED BY <1>1, <2>1, FS_Subset
<1>3. K = IF a \in Dirtied(k[last]) THEN J \cup {last} ELSE J
  <2>1. ASSUME NEW i PROVE i \in K <=> i \in J \/ (i = last /\ a \in Dirtied(k[last]))
    BY <1>1
  <2> QED BY <2>1
<1> HIDE DEF J, K, last
<1>4. Cardinality(J) \in Nat /\ Cardinality(J \cup {last}) = Cardinality(J) + 1
  BY <1>2, FS_CardinalityType, FS_AddElement
<1>5. Cardinality(K) = Cardinality(J) + IF a \in Dirtied(k[last]) THEN 1 ELSE 0 BY <1>3, <1>4
<1> QED BY <1>4, <1>5 DEF J, K, last, Count

\* No entry, no count; an entry that dirties the address, a count.
LEMMA CountZero ==
  ASSUME NEW j \in Seq(Entries), NEW a
  PROVE  /\ Count(j, a) \in Nat
         /\ Count(j, a) = 0 <=> \A i \in 1 .. Len(j) : a \notin Dirtied(j[i])
<1> DEFINE J == {i \in DOMAIN j : a \in Dirtied(j[i])}
<1>1. Len(j) \in Nat /\ DOMAIN j = 1 .. Len(j) BY LenProperties
<1>2. IsFiniteSet(J)
  <2>1. IsFiniteSet(1 .. Len(j)) /\ J \subseteq 1 .. Len(j) BY <1>1, FS_Interval
  <2> QED BY <2>1, FS_Subset
<1>3. J = {} <=> \A i \in 1 .. Len(j) : a \notin Dirtied(j[i]) BY <1>1
<1> HIDE DEF J
<1>4. Cardinality(J) \in Nat /\ (Cardinality(J) = 0 <=> J = {}) BY <1>2, FS_CardinalityType, FS_EmptySet
<1> QED BY <1>3, <1>4 DEF J, Count

\* The parts of a StateDB that grew by an entry.
LEMMA WroteFacts ==
  ASSUME NEW s, NEW t, NEW e, NEW obj, Wrote(s, t, e, obj)
  PROVE  /\ Len(s.j) \in Nat /\ Len(t.j) = Len(s.j) + 1 /\ t.j[Len(t.j)] = e
         /\ \A i \in 1 .. Len(s.j) : t.j[i] = s.j[i] /\ s.j[i] \in Entries /\ s.j[i].addr \in Addrs
         /\ \A i \in 1 .. Len(t.j) : i \in 1 .. Len(s.j) \/ i = Len(t.j)
         /\ e.addr \in Addrs /\ t.o[e.addr] = obj
         /\ \A a \in Addrs : a # e.addr => t.o[a] = s.o[a]
         /\ \A a \in Addrs : Count(s.j, a) \in Nat
         /\ \A a \in Addrs : Count(t.j, a) = Count(s.j, a) + IF a \in Dirtied(e) THEN 1 ELSE 0
<1>1. /\ s.j \in Seq(Entries) /\ t.j \in Seq(Entries) /\ s.o \in [Addrs -> Object \cup {None}] /\ e \in Entries
      /\ t.j = Append(s.j, e) /\ t.o = [s.o EXCEPT ![e.addr] = obj]
  BY DEF Wrote, Parts
<1>2. /\ Len(s.j) \in Nat /\ Len(t.j) = Len(s.j) + 1 /\ t.j[Len(t.j)] = e
      /\ \A i \in 1 .. Len(s.j) : t.j[i] = s.j[i] /\ s.j[i] \in Entries
  BY <1>1, AppendEntry
<1>3. \A i \in 1 .. Len(s.j) : s.j[i].addr \in Addrs BY <1>2, EntryKind
<1>4. \A i \in 1 .. Len(t.j) : i \in 1 .. Len(s.j) \/ i = Len(t.j) BY <1>2
<1>5. e.addr \in Addrs BY <1>1, EntryKind
<1>6. t.o[e.addr] = obj /\ \A a \in Addrs : a # e.addr => t.o[a] = s.o[a] BY <1>1, <1>5
<1>7. ASSUME NEW a PROVE Count(s.j, a) \in Nat /\ Count(t.j, a) = Count(s.j, a) + IF a \in Dirtied(e) THEN 1 ELSE 0
  <2> DEFINE j == s.j
             k == t.j
  <2>1. j \in Seq(Entries) /\ k \in Seq(Entries) /\ Len(k) = Len(j) + 1 /\ \A i \in 1 .. Len(j) : k[i] = j[i]
    BY <1>1, <1>2
  <2>2. k[Len(k)] = e BY <1>2
  <2> HIDE DEF j, k
  <2>3. Count(j, a) \in Nat /\ Count(k, a) = Count(j, a) + IF a \in Dirtied(k[Len(k)]) THEN 1 ELSE 0 BY <2>1, CountGrows
  <2> QED BY <2>2, <2>3 DEF j, k
<1> QED BY <1>2, <1>3, <1>4, <1>5, <1>6, <1>7

-----------------------------------------------------------------------------
(* Each kind of step keeps what is true of the journalled part.            *)

\* An entry that is appended is counted.
LEMMA CountedKept ==
  ASSUME NEW s, NEW t, NEW e, NEW obj, Wrote(s, t, e, obj), Counted(s) PROVE Counted(t)
<1>0. Wrote(s, t, e, obj) /\ s \in Parts /\ t \in Parts BY DEF Wrote
<1>w. /\ Len(s.j) \in Nat /\ Len(t.j) = Len(s.j) + 1 /\ t.j[Len(t.j)] = e
      /\ \A i \in 1 .. Len(s.j) : t.j[i] = s.j[i] /\ s.j[i] \in Entries /\ s.j[i].addr \in Addrs
      /\ \A i \in 1 .. Len(t.j) : i \in 1 .. Len(s.j) \/ i = Len(t.j)
      /\ e.addr \in Addrs
      /\ \A z \in Addrs : Count(s.j, z) \in Nat
      /\ \A z \in Addrs : Count(t.j, z) = Count(s.j, z) + IF z \in Dirtied(e) THEN 1 ELSE 0
  BY WroteFacts
<1> SUFFICES ASSUME NEW b \in Addrs
             PROVE  /\ t.d[b] >= Count(t.j, b) /\ (b # Ripemd => t.d[b] = Count(t.j, b))
                    /\ \A i \in 1 .. Len(t.j) :
                         t.j[i].addr = Ripemd /\ t.j[i].op = "touch" => t.d[Ripemd] > Count(t.j, Ripemd) BY DEF Counted
<1> DEFINE n(z) == IF z \in Dirtied(e) THEN 1 ELSE 0
<1>1. \A z \in Addrs : /\ t.d[z] >= s.d[z] + n(z) /\ (z # Ripemd => t.d[z] = s.d[z] + n(z))
                       /\ z = Ripemd /\ e.addr = z /\ e.op = "touch" => t.d[z] > s.d[z] + n(z)
  BY <1>0 DEF Wrote, Raised
<1>2. \A z \in Addrs : s.d[z] \in Nat /\ t.d[z] \in Nat /\ n(z) \in Nat BY <1>0 DEF Parts
<1>3. \A z \in Addrs : Count(s.j, z) \in Nat /\ Count(t.j, z) = Count(s.j, z) + n(z) BY <1>w
<1>4. \A z \in Addrs : s.d[z] >= Count(s.j, z) /\ (z # Ripemd => s.d[z] = Count(s.j, z)) BY DEF Counted
<1> HIDE DEF n
<1>5. t.d[b] >= Count(t.j, b) /\ (b # Ripemd => t.d[b] = Count(t.j, b)) BY <1>1, <1>2, <1>3, <1>4
<1>6. ASSUME NEW i \in 1 .. Len(t.j), t.j[i].addr = Ripemd, t.j[i].op = "touch" PROVE t.d[Ripemd] > Count(t.j, Ripemd)
  <2>1. Ripemd \in Addrs BY <1>w, <1>6
  <2>2. CASE i = Len(t.j)
    <3>1. e.addr = Ripemd /\ e.op = "touch" BY <2>2, <1>6, <1>w
    <3> QED BY <2>1, <3>1, <1>1, <1>2, <1>3, <1>4
  <2>3. CASE i \in 1 .. Len(s.j)
    <3>1. s.d[Ripemd] > Count(s.j, Ripemd) BY <2>3, <1>6, <1>w DEF Counted
    <3> QED BY <2>1, <3>1, <1>1, <1>2, <1>3
  <2> QED BY <1>w, <2>2, <2>3
<1> QED BY <1>5, <1>6

\* A journalled write keeps it.
LEMMA WriteKeeps ==
  ASSUME NEW c, NEW s, NEW t, NEW e, NEW obj, Sound(c, s), WriteStep(s, t, e, obj) PROVE Sound(c, t)
<1> DEFINE a == e.addr
           old == s.o[a]
<1>1. Wrote(s, t, e, obj) /\ c \in Contexts /\ s \in Parts /\ t \in Parts /\ e \in Entries
  BY DEF WriteStep, Sound, Wrote
<1>2. /\ Len(s.j) \in Nat /\ Len(t.j) = Len(s.j) + 1 /\ t.j[Len(t.j)] = e
      /\ \A i \in 1 .. Len(s.j) : t.j[i] = s.j[i] /\ s.j[i] \in Entries /\ s.j[i].addr \in Addrs
      /\ \A i \in 1 .. Len(t.j) : i \in 1 .. Len(s.j) \/ i = Len(t.j)
      /\ a \in Addrs /\ t.o[a] = obj
      /\ \A b \in Addrs : b # a => t.o[b] = s.o[b]
      /\ \A b \in Addrs : Count(s.j, b) \in Nat
      /\ \A b \in Addrs : Count(t.j, b) = Count(s.j, b) + IF b \in Dirtied(e) THEN 1 ELSE 0
  BY <1>1, WroteFacts
<1>3. /\ e.op \in Writes /\ e.op \notin {"create", "reset"} /\ t.x = s.x
      /\ old # None /\ ~old.deleted /\ old \in Object /\ obj \in Object /\ ~obj.deleted /\ obj # None
      /\ obj.root = old.root /\ obj.origin = old.origin /\ obj.pending = old.pending
  BY <1>1, <1>2, NilAssumption DEF Parts, WriteStep, IsLive, Writes
<1>4. Named(t)
  <2> SUFFICES ASSUME NEW i \in 1 .. Len(t.j) PROVE IsLive(t.o, t.j[i].addr) BY DEF Named
  <2>1. t.j[i].addr \in Addrs /\ (t.j[i].addr = a \/ IsLive(s.o, t.j[i].addr)) BY <1>2 DEF Sound, Named
  <2> QED BY <1>2, <1>3, <2>1 DEF IsLive
<1>5. Ordered(t.j)
  <2> SUFFICES ASSUME NEW i \in 1 .. Len(t.j), NEW k \in 1 .. Len(t.j), i < k, t.j[i].addr = t.j[k].addr
               PROVE  /\ t.j[k].op # "create"
                      /\ t.j[k].op = "reset" => ~t.j[k].prev.obj.deleted /\ t.j[i].op # "storage"
    BY DEF Ordered
  <2>1. i \in 1 .. Len(s.j) BY <1>2
  <2>2. CASE k = Len(t.j) BY <2>2, <1>2, <1>3
  <2>3. CASE k \in 1 .. Len(s.j) BY <2>1, <2>3, <1>2 DEF Sound, Ordered
  <2> QED BY <1>2, <2>2, <2>3
<1>6. /\ e.op # "storage" => obj.dirty = old.dirty
      /\ e.op = "storage" => /\ e.prev[1] \in Slots /\ (EIP158 => Known(old, e.prev[1]))
                             /\ \E w \in Words : obj.dirty = [old.dirty EXCEPT ![e.prev[1]] = w]
  BY <1>1, EntryKind DEF WriteStep
<1>7. ASSUME NEW k \in Slots
      PROVE  /\ old.dirty[k] # Unset => obj.dirty[k] # Unset
             /\ EIP158 /\ obj.dirty[k] # Unset => old.dirty[k] # Unset \/ Known(old, k)
             /\ e.op = "storage" /\ k = e.prev[1] => obj.dirty[k] # Unset
  <2>1. old.dirty \in [Slots -> Words \cup {Unset}] /\ Unset \notin Words BY <1>3, WordsAssumption DEF Object, Unset
  <2>2. CASE e.op # "storage" BY <2>2, <1>6
  <2>3. CASE e.op = "storage"
    <3>1. PICK w \in Words : obj.dirty = [old.dirty EXCEPT ![e.prev[1]] = w] BY <2>3, <1>6
    <3>2. w # Unset BY <2>1
    <3> QED BY <2>1, <2>3, <3>1, <3>2, <1>6
  <2> QED BY <2>2, <2>3
<1>8. Slotted(t)
  <2> SUFFICES ASSUME NEW i \in 1 .. Len(t.j), t.j[i].op = "storage"
               PROVE  t.o[t.j[i].addr].dirty[t.j[i].prev[1]] # Unset BY DEF Slotted
  <2>1. CASE i = Len(t.j) BY <2>1, <1>2, <1>6, <1>7
  <2>2. CASE i \in 1 .. Len(s.j)
    <3>1. t.j[i] = s.j[i] /\ s.j[i].addr \in Addrs /\ s.j[i].prev[1] \in Slots BY <2>2, <1>2, EntryKind
    <3>2. s.o[s.j[i].addr].dirty[s.j[i].prev[1]] # Unset BY <2>2, <3>1 DEF Sound, Slotted
    <3>3. CASE s.j[i].addr = a
      <4>1. t.o[s.j[i].addr] = obj /\ s.o[s.j[i].addr] = old BY <3>3, <1>2
      <4> QED BY <3>1, <3>2, <4>1, <1>7
    <3>4. CASE s.j[i].addr # a BY <3>1, <3>2, <3>4, <1>2
    <3> QED BY <3>3, <3>4
  <2> QED BY <1>2, <2>1, <2>2
<1>9. Counted(t) BY <1>1, CountedKept DEF Sound
<1>10. Present(c, t)
  <2>1. \A b \in c.pending \cup c.dirty : b \in Addrs BY <1>1 DEF Contexts
  <2>2. \A b \in c.pending \cup c.dirty : t.o[b] # None BY <2>1, <1>2, <1>3 DEF Sound, Present
  <2>3. ASSUME NEW i \in 1 .. Len(t.j), t.j[i].op = "create" PROVE t.j[i].addr \notin c.pending \cup c.dirty
    BY <2>3, <1>2, <1>3 DEF Sound, Present
  <2> QED BY <2>2, <2>3 DEF Present
<1>11. /\ e.op # "code" => obj.code = old.code /\ obj.dirtyCode = old.dirtyCode
       /\ e.op = "code" => ~old.code /\ obj.code /\ obj.dirtyCode
  BY DEF WriteStep
<1>12. Coded(c, t)
  <2>1. ASSUME NEW b \in Addrs, t.o[b] # None PROVE CodeKept(c, b, t.o[b])
    BY <2>1, <1>2, <1>3, <1>11 DEF Sound, Coded, CodeKept
  <2>2. ASSUME NEW i \in 1 .. Len(t.j), t.j[i].op = "reset" PROVE CodeKept(c, t.j[i].addr, t.j[i].prev.obj)
    BY <2>2, <1>2, <1>3 DEF Sound, Coded
  <2>3. ASSUME NEW b \in Addrs, Owes(c, b)
        PROVE  /\ b \in c.dirty /\ IsLive(t.o, b) /\ t.o[b].code /\ t.o[b].dirtyCode
               /\ \A i \in 1 .. Len(t.j) : t.j[i].addr = b => t.j[i].op \notin {"create", "reset", "code"}
    <3>1. /\ b \in c.dirty /\ IsLive(s.o, b) /\ s.o[b].code /\ s.o[b].dirtyCode
          /\ \A i \in 1 .. Len(s.j) : s.j[i].addr = b => s.j[i].op \notin {"create", "reset", "code"}
      BY <2>3 DEF Sound, Coded
    <3>2. b = a => e.op # "code" BY <3>1, <1>11
    <3>3. IsLive(t.o, b) /\ t.o[b].code /\ t.o[b].dirtyCode BY <3>1, <3>2, <1>2, <1>3, <1>11 DEF IsLive
    <3>4. \A i \in 1 .. Len(t.j) : t.j[i].addr = b => t.j[i].op \notin {"create", "reset", "code"}
      BY <3>1, <3>2, <1>2, <1>3
    <3> QED BY <3>1, <3>3, <3>4
  <2> QED BY <2>1, <2>2, <2>3 DEF Coded
<1>13. ASSUME EIP158 PROVE Saned(c, t) /\ Marked(c, t)
  <2>0. Saned(c, s) /\ Marked(c, s) BY <1>13 DEF Sound
  <2>13. Sane(c, a, obj, a \in t.x)
    <3>1. Sane(c, a, old, a \in s.x) BY <2>0, <1>2, <1>3 DEF Saned
    <3>2. ASSUME NEW k \in Slots PROVE Known(obj, k) <=> Known(old, k) BY <1>3 DEF Known
    <3> QED BY <1>3, <1>7, <1>13, <3>1, <3>2 DEF Sane
  <2>14. Saned(c, t)
    <3>1. ASSUME NEW b \in Addrs PROVE IF t.o[b] = None THEN Bare(c, b) ELSE Sane(c, b, t.o[b], b \in t.x)
      BY <2>0, <1>2, <1>3, <2>13 DEF Saned
    <3>2. ASSUME NEW i \in 1 .. Len(t.j)
          PROVE  LET f == t.j[i]
                 IN /\ f.op = "create" => Bare(c, f.addr)
                    /\ f.op = "reset" => Sane(c, f.addr, f.prev.obj, f.prev.destruct)
      BY <2>0, <1>2, <1>3 DEF Saned
    <3> QED BY <3>1, <3>2 DEF Saned
  <2>15. Marked(c, t)
    <3>1. Marked(c, s) BY <2>0
    <3>2. ~c.snap => t.x = {} /\ \A i \in 1 .. Len(t.j) : t.j[i].op = "reset" => ~t.j[i].prev.destruct
      BY <3>1, <1>2, <1>3 DEF Marked
    <3>3. \A b \in Addrs : t.o[b] = None => b \notin t.x BY <3>1, <1>2, <1>3 DEF Marked
    <3>4. \A i \in 1 .. Len(t.j) : c.snap /\ t.j[i].op = "reset" => t.j[i].addr \in t.x BY <3>1, <1>2, <1>3 DEF Marked
    <3>5. ASSUME NEW i \in 1 .. Len(t.j), NEW k \in 1 .. Len(t.j), c.snap, i < k, t.j[i].addr = t.j[k].addr,
                 t.j[i].op = "reset", t.j[k].op = "reset" PROVE t.j[k].prev.destruct
      <4>1. i \in 1 .. Len(s.j) /\ k \in 1 .. Len(s.j) BY <3>5, <1>2, <1>3
      <4> QED BY <3>1, <3>5, <4>1, <1>2 DEF Marked
    <3>6. ASSUME NEW i \in 1 .. Len(t.j), t.j[i].op = "create", t.j[i].addr \in t.x
          PROVE  \E k \in 1 .. Len(t.j) : /\ i < k /\ t.j[k].addr = t.j[i].addr
                                          /\ t.j[k].op = "reset" /\ ~t.j[k].prev.destruct
      <4>1. i \in 1 .. Len(s.j) /\ t.j[i] = s.j[i] BY <3>6, <1>2, <1>3
      <4>2. PICK k \in 1 .. Len(s.j) : /\ i < k /\ s.j[k].addr = s.j[i].addr
                                       /\ s.j[k].op = "reset" /\ ~s.j[k].prev.destruct
        BY <3>1, <3>6, <4>1, <1>3 DEF Marked
      <4>3. k \in 1 .. Len(t.j) /\ t.j[k] = s.j[k] BY <1>2
      <4> QED BY <4>1, <4>2, <4>3
    <3> QED BY <3>2, <3>3, <3>4, <3>5, <3>6 DEF Marked
  <2> QED BY <2>14, <2>15
<1> QED BY <1>1, <1>4, <1>5, <1>8, <1>9, <1>10, <1>12, <1>13 DEF Sound

\* What an operation caches or carries over keeps it.
LEMMA CacheKeeps ==
  ASSUME NEW c, NEW s, NEW t, NEW a, NEW obj, Sound(c, s), CacheStep(s, t, a, obj) PROVE Sound(c, t)
<1> DEFINE old == s.o[a]
<1>1. c \in Contexts /\ s \in Parts /\ t = [s EXCEPT !.o = [s.o EXCEPT ![a] = obj]] /\ a \in Addrs
  BY DEF CacheStep, Sound
<1>2. s.o \in [Addrs -> Object \cup {None}] BY <1>1 DEF Parts
<1>3. t.j = s.j /\ t.d = s.d /\ t.x = s.x /\ t.o[a] = obj /\ \A b \in Addrs : b # a => t.o[b] = s.o[b]
  BY <1>1, <1>2 DEF Parts
<1>4. /\ old # None /\ ~old.deleted /\ old \in Object /\ obj \in Object /\ ~obj.deleted /\ obj # None
      /\ obj.root = old.root /\ obj.pending = old.pending /\ obj.dirty = old.dirty
      /\ obj.code = old.code /\ obj.dirtyCode = old.dirtyCode
  BY <1>1, <1>2, NilAssumption DEF CacheStep, IsLive
<1>5. t \in Parts
  <2> DEFINE O == [s.o EXCEPT ![a] = obj]
  <2>1. O \in [Addrs -> Object \cup {None}] BY <1>2, <1>4
  <2>2. t = [s EXCEPT !.o = O] BY <1>1
  <2> HIDE DEF O
  <2> QED BY <1>1, <2>1, <2>2 DEF Parts
<1>6. \A i \in 1 .. Len(s.j) : s.j[i] \in Entries /\ s.j[i].addr \in Addrs
  BY <1>1, ElementOfSeq, EntryKind DEF Parts
<1>7. Named(t) /\ Ordered(t.j) BY <1>3, <1>4, <1>6 DEF Sound, Named, IsLive
<1>8. Slotted(t)
  <2> SUFFICES ASSUME NEW i \in 1 .. Len(s.j), s.j[i].op = "storage"
               PROVE  t.o[s.j[i].addr].dirty[s.j[i].prev[1]] # Unset BY <1>3 DEF Slotted
  <2>1. s.o[s.j[i].addr].dirty[s.j[i].prev[1]] # Unset BY DEF Sound, Slotted
  <2>2. t.o[s.j[i].addr].dirty = s.o[s.j[i].addr].dirty BY <1>3, <1>4, <1>6
  <2> QED BY <2>1, <2>2
<1>9. Counted(t) BY <1>3 DEF Sound, Counted
<1>10. Present(c, t)
  BY <1>1, <1>3, <1>4 DEF Contexts, Sound, Present
<1>11. Coded(c, t)
  <2>1. ASSUME NEW b \in Addrs, t.o[b] # None PROVE CodeKept(c, b, t.o[b])
    BY <2>1, <1>3, <1>4 DEF Sound, Coded, CodeKept
  <2>2. ASSUME NEW b \in Addrs, Owes(c, b) PROVE b \in c.dirty /\ IsLive(t.o, b) /\ t.o[b].code /\ t.o[b].dirtyCode
    BY <2>2, <1>3, <1>4 DEF Sound, Coded, IsLive
  <2> QED BY <2>1, <2>2, <1>3 DEF Sound, Coded
<1>12. ASSUME EIP158 PROVE Saned(c, t) /\ Marked(c, t)
  <2>0. Saned(c, s) /\ Marked(c, s) BY <1>12 DEF Sound
  <2>12. Saned(c, t)
    <3>1. Sane(c, a, old, a \in s.x) BY <2>0, <1>1, <1>4 DEF Saned
    <3>2. ASSUME NEW k \in Slots
          PROVE  /\ obj.origin[k] = old.origin[k] \/ obj.origin[k] = obj.root[k]
                 /\ obj.root[k] # Unset
      BY <1>4, WordsAssumption, <1>12 DEF Object, Unset, CacheStep
    <3>3. Sane(c, a, obj, a \in t.x) BY <3>1, <3>2, <1>3, <1>4 DEF Sane, Known
    <3>4. ASSUME NEW b \in Addrs PROVE IF t.o[b] = None THEN Bare(c, b) ELSE Sane(c, b, t.o[b], b \in t.x)
      BY <2>0, <3>3, <1>3, <1>4 DEF Saned
    <3> QED BY <2>0, <3>4, <1>3 DEF Saned
  <2>13. Marked(c, t) BY <2>0, <1>3, <1>4 DEF Marked
  <2> QED BY <2>12, <2>13
<1> QED BY <1>1, <1>5, <1>7, <1>8, <1>9, <1>10, <1>11, <1>12 DEF Sound

\* A new object is an object.
LEMMA NewIsObject == NewObject \in Object /\ Zeros \in [Slots -> Words] /\ NoWrites \in [Slots -> Words \cup {Unset}]
  BY WordsAssumption, BoundsAssumption DEF NewObject, Object, Zeros, NoWrites

\* createObject keeps it.
LEMMA MakeKeeps ==
  ASSUME NEW c, NEW s, NEW t, NEW e, Sound(c, s), MakeStep(c, s, t, e) PROVE Sound(c, t)
<1> DEFINE a == e.addr
           old == s.o[a]
           obj == NewObject
<1>1. Wrote(s, t, e, obj) /\ c \in Contexts /\ s \in Parts /\ t \in Parts /\ e \in Entries BY DEF MakeStep, Sound, Wrote
<1>2. /\ Len(s.j) \in Nat /\ Len(t.j) = Len(s.j) + 1 /\ t.j[Len(t.j)] = e
      /\ \A i \in 1 .. Len(s.j) : t.j[i] = s.j[i] /\ s.j[i] \in Entries /\ s.j[i].addr \in Addrs
      /\ \A i \in 1 .. Len(t.j) : i \in 1 .. Len(s.j) \/ i = Len(t.j)
      /\ a \in Addrs /\ t.o[a] = obj
      /\ \A b \in Addrs : b # a => t.o[b] = s.o[b]
  BY <1>1, WroteFacts
<1>3. /\ obj \in Object /\ obj # None /\ ~obj.deleted /\ ~obj.code /\ obj.root = Zeros
      /\ obj.origin = NoWrites /\ obj.pending = NoWrites /\ obj.dirty = NoWrites
  BY NewIsObject, NilAssumption DEF NewObject
<1> HIDE DEF obj
<1>4. \/ e.op = "create" /\ old = None /\ t.x = s.x
      \/ /\ e.op = "reset" /\ old # None
         /\ e.prev.obj = old /\ e.prev.destruct = (a \in s.x)
         /\ t.x = IF c.snap THEN s.x \cup {a} ELSE s.x
         /\ old.deleted \/ (~old.code /\ old.root = Zeros /\ old.pending = NoWrites /\ old.dirty = NoWrites)
  BY DEF MakeStep
<1>5. Named(t)
  <2> SUFFICES ASSUME NEW i \in 1 .. Len(t.j) PROVE IsLive(t.o, t.j[i].addr) BY DEF Named
  <2>1. t.j[i].addr \in Addrs /\ (t.j[i].addr = a \/ IsLive(s.o, t.j[i].addr)) BY <1>2 DEF Sound, Named
  <2> QED BY <1>2, <1>3, <2>1 DEF IsLive
<1>6. ASSUME NEW i \in 1 .. Len(s.j), s.j[i].addr = a
      PROVE  e.op = "reset" /\ ~old.deleted /\ s.j[i].op # "storage" /\ old.dirty = NoWrites /\ ~old.code
  <2>1. old # None /\ ~old.deleted BY <1>6 DEF Sound, Named, IsLive
  <2>2. old.dirty = NoWrites /\ e.op = "reset" /\ ~old.code BY <2>1, <1>4
  <2>3. s.j[i].op = "storage" => s.j[i].prev[1] \in Slots /\ old.dirty[s.j[i].prev[1]] # Unset
    BY <1>2, <1>6, EntryKind DEF Sound, Slotted
  <2> QED BY <2>1, <2>2, <2>3 DEF NoWrites
<1>7. Ordered(t.j)
  <2> SUFFICES ASSUME NEW i \in 1 .. Len(t.j), NEW k \in 1 .. Len(t.j), i < k, t.j[i].addr = t.j[k].addr
               PROVE  /\ t.j[k].op # "create"
                      /\ t.j[k].op = "reset" => ~t.j[k].prev.obj.deleted /\ t.j[i].op # "storage"
    BY DEF Ordered
  <2>1. i \in 1 .. Len(s.j) BY <1>2
  <2>2. CASE k = Len(t.j)
    BY <2>1, <2>2, <1>2, <1>4, <1>6
  <2>3. CASE k \in 1 .. Len(s.j) BY <2>1, <2>3, <1>2 DEF Sound, Ordered
  <2> QED BY <1>2, <2>2, <2>3
<1>8. Slotted(t)
  <2> SUFFICES ASSUME NEW i \in 1 .. Len(t.j), t.j[i].op = "storage"
               PROVE  t.o[t.j[i].addr].dirty[t.j[i].prev[1]] # Unset BY DEF Slotted
  <2>1. i \in 1 .. Len(s.j) BY <1>2, <1>4
  <2>2. s.j[i].addr # a BY <2>1, <1>2, <1>6
  <2>3. t.j[i] = s.j[i] /\ s.j[i].addr \in Addrs /\ s.j[i].op = "storage" BY <2>1, <1>2
  <2>4. t.o[s.j[i].addr] = s.o[s.j[i].addr] BY <2>2, <2>3, <1>2
  <2>5. s.o[s.j[i].addr].dirty[s.j[i].prev[1]] # Unset BY <2>1, <2>3 DEF Sound, Slotted
  <2> QED BY <2>3, <2>4, <2>5
<1>9. Counted(t) BY <1>1, CountedKept DEF Sound
<1>10. Present(c, t)
  <2>1. \A b \in c.pending \cup c.dirty : b \in Addrs BY <1>1 DEF Contexts
  <2>2. \A b \in c.pending \cup c.dirty : t.o[b] # None BY <2>1, <1>2, <1>3 DEF Sound, Present
  <2>3. ASSUME NEW i \in 1 .. Len(t.j), t.j[i].op = "create" PROVE t.j[i].addr \notin c.pending \cup c.dirty
    BY <2>3, <1>2, <1>4 DEF Sound, Present
  <2> QED BY <2>2, <2>3 DEF Present
<1>11. Coded(c, t)
  <2>1. ASSUME NEW b \in Addrs, t.o[b] # None PROVE CodeKept(c, b, t.o[b])
    BY <2>1, <1>2, <1>3 DEF Sound, Coded, CodeKept
  <2>2. ASSUME NEW i \in 1 .. Len(t.j), t.j[i].op = "reset" PROVE CodeKept(c, t.j[i].addr, t.j[i].prev.obj)
    BY <2>2, <1>2, <1>4 DEF Sound, Coded
  <2>3. ASSUME NEW b \in Addrs, Owes(c, b)
        PROVE  /\ b \in c.dirty /\ IsLive(t.o, b) /\ t.o[b].code /\ t.o[b].dirtyCode
               /\ \A i \in 1 .. Len(t.j) : t.j[i].addr = b => t.j[i].op \notin {"create", "reset", "code"}
    <3>1. /\ b \in c.dirty /\ s.o[b] # None /\ ~s.o[b].deleted /\ s.o[b].code /\ s.o[b].dirtyCode
          /\ \A i \in 1 .. Len(s.j) : s.j[i].addr = b => s.j[i].op \notin {"create", "reset", "code"}
      BY <2>3 DEF Sound, Coded, IsLive
    <3>2. b # a BY <3>1, <1>4
    <3> QED BY <3>1, <3>2, <1>2 DEF IsLive
  <2> QED BY <2>1, <2>2, <2>3 DEF Coded
<1>12. ASSUME EIP158 PROVE Saned(c, t) /\ Marked(c, t)
  <2>0. Saned(c, s) /\ Marked(c, s) BY <1>12 DEF Sound
  <2>12. IF old = None THEN Bare(c, a) ELSE Sane(c, a, old, a \in s.x) BY <2>0, <1>2 DEF Saned
  <2>13. Sane(c, a, obj, a \in t.x)
    <3> SUFFICES ASSUME NEW k \in Slots
                 PROVE  /\ obj.origin[k] = Unset /\ obj.pending[k] = Unset /\ obj.dirty[k] = Unset /\ obj.root[k] = 0
                        /\ c.snap => /\ SlotOf(c, a, a \in t.x, k) = 0
                                     /\ a \in t.x \/ c.flat[a].slots[k] = 0
      BY <1>3 DEF Sane
    <3>1. obj.origin[k] = Unset /\ obj.pending[k] = Unset /\ obj.dirty[k] = Unset /\ obj.root[k] = 0
      BY <1>3 DEF NoWrites, Zeros
    <3>2. CASE e.op = "create" BY <3>1, <3>2, <1>4, <2>12 DEF Bare, SlotOf, NoWrites, Zeros
    <3>3. CASE e.op = "reset" /\ c.snap
      <4>1. a \in t.x BY <3>3, <1>4
      <4>2. c.sto[a][k] = Unset \/ c.sto[a][k] = 0
        <5>1. old # None /\ Sane(c, a, old, a \in s.x) BY <3>3, <1>4, <2>12
        <5>2. CASE old.deleted BY <3>3, <5>1, <5>2 DEF Sane, NoWrites
        <5>3. CASE ~old.deleted
          <6>1. old.root[k] = 0 BY <3>3, <5>3, <1>4 DEF Zeros
          <6>2. SlotOf(c, a, a \in s.x, k) = 0 BY <3>3, <5>1, <5>3, <6>1 DEF Sane
          <6> QED BY <6>2 DEF SlotOf
        <5> QED BY <5>2, <5>3
      <4> QED BY <3>1, <4>1, <4>2 DEF SlotOf
    <3> QED BY <3>1, <3>2, <3>3, <1>4
  <2>14. Saned(c, t)
    <3>1. ASSUME NEW b \in Addrs PROVE IF t.o[b] = None THEN Bare(c, b) ELSE Sane(c, b, t.o[b], b \in t.x)
      <4>1. IF s.o[b] = None THEN Bare(c, b) ELSE Sane(c, b, s.o[b], b \in s.x) BY <2>0 DEF Saned
      <4>2. b # a => (b \in t.x <=> b \in s.x) BY <1>4
      <4>3. CASE b # a
        BY <4>2, <4>3, <1>2, <4>1
      <4> QED BY <4>3, <1>2, <1>3, <2>13
    <3>2. ASSUME NEW i \in 1 .. Len(t.j)
          PROVE  LET f == t.j[i]
                 IN /\ f.op = "create" => Bare(c, f.addr)
                    /\ f.op = "reset" => Sane(c, f.addr, f.prev.obj, f.prev.destruct)
      <4>1. CASE i \in 1 .. Len(s.j) BY <2>0, <4>1, <1>2 DEF Saned
      <4>2. CASE i = Len(t.j) BY <4>2, <1>2, <1>4, <2>12
      <4> QED BY <4>1, <4>2, <1>2
    <3> QED BY <3>1, <3>2 DEF Saned
  <2>15. Marked(c, t)
    <3>1. Marked(c, s) BY <2>0
    <3>2. ~c.snap => t.x = {} /\ \A i \in 1 .. Len(t.j) : t.j[i].op = "reset" => ~t.j[i].prev.destruct
      BY <3>1, <1>2, <1>4 DEF Marked
    <3>3. \A b \in Addrs : t.o[b] = None => b \notin t.x BY <3>1, <1>2, <1>3, <1>4 DEF Marked
    <3>4. \A i \in 1 .. Len(t.j) : c.snap /\ t.j[i].op = "reset" => t.j[i].addr \in t.x BY <3>1, <1>2, <1>4 DEF Marked
    <3>5. ASSUME NEW i \in 1 .. Len(t.j), NEW k \in 1 .. Len(t.j), c.snap, i < k, t.j[i].addr = t.j[k].addr,
                 t.j[i].op = "reset", t.j[k].op = "reset" PROVE t.j[k].prev.destruct
      <4>1. i \in 1 .. Len(s.j) BY <3>5, <1>2
      <4>2. CASE k \in 1 .. Len(s.j) BY <3>1, <3>5, <4>1, <4>2, <1>2 DEF Marked
      <4>3. CASE k = Len(t.j)
        <5>1. s.j[i].addr = a /\ s.j[i].op = "reset" /\ e.op = "reset" BY <3>5, <4>1, <4>3, <1>2
        <5>2. a \in s.x BY <3>1, <3>5, <4>1, <5>1 DEF Marked
        <5> QED BY <4>3, <5>1, <5>2, <1>2, <1>4
      <4> QED BY <4>2, <4>3, <1>2
    <3>6. ASSUME NEW i \in 1 .. Len(t.j), t.j[i].op = "create", t.j[i].addr \in t.x
          PROVE  \E k \in 1 .. Len(t.j) : /\ i < k /\ t.j[k].addr = t.j[i].addr
                                          /\ t.j[k].op = "reset" /\ ~t.j[k].prev.destruct
      <4>1. i \in 1 .. Len(s.j) /\ t.j[i] = s.j[i]
        BY <3>1, <3>6, <1>2, <1>4 DEF Marked
      <4>2. CASE t.j[i].addr \in s.x
        <5>1. PICK k \in 1 .. Len(s.j) : /\ i < k /\ s.j[k].addr = s.j[i].addr
                                         /\ s.j[k].op = "reset" /\ ~s.j[k].prev.destruct
          BY <3>1, <3>6, <4>1, <4>2 DEF Marked
        <5>2. k \in 1 .. Len(t.j) /\ t.j[k] = s.j[k] BY <1>2
        <5> QED BY <4>1, <5>1, <5>2
      <4>3. CASE t.j[i].addr \notin s.x
        <5>1. t.j[i].addr = a /\ e.op = "reset" /\ ~e.prev.destruct BY <3>6, <4>3, <1>4
        <5>2. Len(t.j) \in 1 .. Len(t.j) /\ i < Len(t.j) BY <4>1, <1>2
        <5> QED BY <5>1, <5>2, <1>2
      <4> QED BY <4>2, <4>3
    <3> QED BY <3>2, <3>3, <3>4, <3>5, <3>6 DEF Marked
  <2> QED BY <2>14, <2>15
<1> QED BY <1>1, <1>5, <1>7, <1>8, <1>9, <1>10, <1>11, <1>12 DEF Sound

\* The object of which a write is undone.
LEMMA RestoredFacts ==
  ASSUME NEW obj \in Object, NEW e \in Entries, e.op \in Writes
  PROVE  /\ Restored(obj, e) \in Object /\ Restored(obj, e).deleted = obj.deleted
         /\ Restored(obj, e).root = obj.root /\ Restored(obj, e).origin = obj.origin
         /\ Restored(obj, e).pending = obj.pending
         /\ e.op # "code" => Restored(obj, e).code = obj.code /\ Restored(obj, e).dirtyCode = obj.dirtyCode
         /\ e.op = "code" => Restored(obj, e).dirtyCode
         /\ e.op # "storage" => Restored(obj, e).dirty = obj.dirty
         /\ e.op = "storage" => Restored(obj, e).dirty = [obj.dirty EXCEPT ![e.prev[1]] = e.prev[2]]
<1>1. /\ e.op = "suicide" => e.prev[1] \in BOOLEAN /\ e.prev[2] \in 0 .. MaxBal
      /\ e.op = "balance" => e.prev \in 0 .. MaxBal
      /\ e.op = "nonce" => e.prev \in 0 .. MaxNonce
      /\ e.op = "code" => e.prev \in BOOLEAN
      /\ e.op = "storage" => e.prev[1] \in Slots /\ e.prev[2] \in Words
  BY EntryKind
<1>2. CASE e.op = "suicide"
  BY <1>2, <1>1 DEF Restored, Object
<1>3. CASE e.op = "balance"
  BY <1>3, <1>1 DEF Restored, Object
<1>4. CASE e.op = "nonce"
  BY <1>4, <1>1 DEF Restored, Object
<1>5. CASE e.op = "code"
  BY <1>5, <1>1 DEF Restored, Object
<1>6. CASE e.op = "storage"
  BY <1>6, <1>1 DEF Restored, Object
<1>7. CASE e.op = "touch"
  BY <1>7 DEF Restored
<1> QED BY <1>2, <1>3, <1>4, <1>5, <1>6, <1>7 DEF Writes

\* One turn of journal.revert's loop keeps it.
LEMMA UndoKeeps ==
  ASSUME NEW c, NEW s, NEW t, NEW e, Sound(c, s), UndoStep(s, t, e) PROVE Sound(c, t)
<1> DEFINE a == e.addr
           old == s.o[a]
           last == Len(s.j)
<1>1. c \in Contexts /\ s \in Parts /\ last > 0 /\ e = s.j[last] BY DEF UndoStep, Sound
<1>2. /\ s.o \in [Addrs -> Object \cup {None}] /\ s.j \in Seq(Entries) /\ s.d \in [Addrs -> Nat]
      /\ s.x \in SUBSET Addrs
  BY <1>1 DEF Parts
<1>3. /\ t.j \in Seq(Entries) /\ last \in Nat /\ Len(t.j) = last - 1
      /\ \A i \in 1 .. Len(t.j) : t.j[i] = s.j[i] /\ i \in 1 .. last /\ i < last
      /\ \A i \in 1 .. last : s.j[i] \in Entries
  BY <1>1, <1>2, DropEntry DEF UndoStep
<1>4. last \in 1 .. last /\ e \in Entries /\ a \in Addrs /\ \A i \in 1 .. last : s.j[i].addr \in Addrs
  BY <1>1, <1>3, EntryKind
<1>5. old # None /\ ~old.deleted /\ old \in Object BY <1>1, <1>2, <1>4 DEF Sound, Named, IsLive
<1>6. \A b \in Addrs : b # a => t.o[b] = s.o[b] /\ (b \in t.x <=> b \in s.x) BY <1>2 DEF UndoStep
<1>7. \/ e.op = "create" /\ t.o[a] = None /\ t.x = s.x
      \/ /\ e.op = "reset" /\ t.o[a] = e.prev.obj /\ t.o[a] \in Object /\ e.prev.destruct \in BOOLEAN
         /\ t.x = IF e.prev.destruct THEN s.x ELSE s.x \ {a}
      \/ e.op \in Writes /\ e.op \notin {"create", "reset"} /\ t.o[a] = Restored(old, e) /\ t.x = s.x
  BY <1>4, EntryKind, <1>2 DEF Replaced, UndoStep, Writes
<1>8. /\ e.op \in Writes => /\ t.o[a] \in Object /\ ~t.o[a].deleted /\ t.o[a].root = old.root
                            /\ t.o[a].origin = old.origin /\ t.o[a].pending = old.pending
      /\ e.op \in Writes /\ e.op # "code" => t.o[a].code = old.code /\ t.o[a].dirtyCode = old.dirtyCode
      /\ e.op = "code" => t.o[a].dirtyCode
      /\ e.op \in Writes /\ e.op # "storage" => t.o[a].dirty = old.dirty
      /\ e.op = "storage" => t.o[a].dirty = [old.dirty EXCEPT ![e.prev[1]] = e.prev[2]]
  <2>1. e.op \in Writes => t.o[a] = Restored(old, e) BY <1>7 DEF Writes
  <2>2. e.op \in {"code", "storage"} => e.op \in Writes BY DEF Writes
  <2>3. e.op \in Writes =>
          /\ Restored(old, e) \in Object /\ Restored(old, e).deleted = old.deleted
          /\ Restored(old, e).root = old.root /\ Restored(old, e).origin = old.origin
          /\ Restored(old, e).pending = old.pending
          /\ e.op # "code" => Restored(old, e).code = old.code /\ Restored(old, e).dirtyCode = old.dirtyCode
          /\ e.op = "code" => Restored(old, e).dirtyCode
          /\ e.op # "storage" => Restored(old, e).dirty = old.dirty
          /\ e.op = "storage" => Restored(old, e).dirty = [old.dirty EXCEPT ![e.prev[1]] = e.prev[2]]
    BY <1>4, <1>5, RestoredFacts
  <2> DEFINE r == Restored(old, e)
  <2> HIDE DEF r, old
  <2> QED BY <2>1, <2>2, <2>3, <1>5 DEF r
<1>9. t.o[a] = None <=> e.op = "create" BY <1>7, <1>8, NilAssumption DEF Writes
<1>10. \A b \in Addrs : s.d[b] >= Count(s.j, b) /\ Count(s.j, b) \in Nat /\ Count(t.j, b) \in Nat
                        /\ Count(s.j, b) = Count(t.j, b) + IF b \in Dirtied(e) THEN 1 ELSE 0
  <2> TAKE b \in Addrs
  <2> DEFINE j == t.j
             k == s.j
  <2>1. j \in Seq(Entries) /\ k \in Seq(Entries) /\ Len(k) = Len(j) + 1 /\ (\A i \in 1 .. Len(j) : k[i] = j[i]) /\ k[Len(k)] = e
    BY <1>1, <1>2, <1>3
  <2> HIDE DEF j, k
  <2>2. Count(j, b) \in Nat /\ Count(k, b) = Count(j, b) + IF b \in Dirtied(k[Len(k)]) THEN 1 ELSE 0 BY <2>1, CountGrows
  <2>3. Count(j, b) \in Nat /\ Count(k, b) = Count(j, b) + IF b \in Dirtied(e) THEN 1 ELSE 0 BY <2>1, <2>2
  <2>4. s.d[b] >= Count(s.j, b) BY DEF Sound, Counted
  <2> QED BY <2>3, <2>4 DEF j, k
<1>11. t.d = [b \in Addrs |-> IF b \in Dirtied(e) THEN s.d[b] - 1 ELSE s.d[b]] BY DEF UndoStep
<1>12. Counted(t) /\ t.d \in [Addrs -> Nat]
  <2>1. ASSUME NEW b \in Addrs
        PROVE  t.d[b] \in Nat /\ t.d[b] >= Count(t.j, b) /\ (b # Ripemd => t.d[b] = Count(t.j, b))
               /\ (s.d[b] > Count(s.j, b) => t.d[b] > Count(t.j, b))
    BY <1>2, <1>10, <1>11 DEF Sound, Counted
  <2>2. ASSUME NEW i \in 1 .. Len(t.j), t.j[i].addr = Ripemd, t.j[i].op = "touch" PROVE t.d[Ripemd] > Count(t.j, Ripemd)
    BY <2>2, <1>3, <1>4, <2>1 DEF Sound, Counted
  <2> QED BY <2>1, <2>2, <1>11 DEF Counted
<1>13. t \in Parts
  <2>1. t.o \in [Addrs -> Object \cup {None}]
    <3>1. t.o[a] \in Object \cup {None} BY <1>7, <1>8
    <3>2. \E obj : t.o = [s.o EXCEPT ![a] = obj] BY DEF UndoStep
    <3> QED BY <3>1, <3>2, <1>2, <1>4
  <2>2. t.x \in SUBSET Addrs BY <1>2, <1>7
  <2>3. t = [o |-> t.o, j |-> t.j, d |-> t.d, x |-> t.x] BY DEF UndoStep
  <2> QED BY <2>1, <2>2, <2>3, <1>3, <1>12 DEF Parts
<1>14. ASSUME NEW i \in 1 .. Len(t.j), t.j[i].addr = a
       PROVE  e.op # "create" /\ (e.op = "reset" => ~t.o[a].deleted /\ s.j[i].op # "storage")
  BY <1>1, <1>3, <1>4, <1>7, <1>14 DEF Sound, Ordered, Writes
<1>15. Named(t)
  <2> SUFFICES ASSUME NEW i \in 1 .. Len(t.j) PROVE IsLive(t.o, t.j[i].addr) BY DEF Named
  <2>1. s.j[i].addr \in Addrs /\ t.j[i].addr = s.j[i].addr BY <1>3, <1>4
  <2>2. CASE s.j[i].addr # a BY <2>1, <2>2, <1>3, <1>6 DEF Sound, Named, IsLive
  <2>3. CASE s.j[i].addr = a BY <2>1, <2>3, <1>7, <1>8, <1>9, <1>14 DEF IsLive
  <2> QED BY <2>2, <2>3
<1>16. Ordered(t.j) BY <1>3 DEF Sound, Ordered
<1>17. \A k \in Slots : old.dirty[k] # Unset /\ e.op \in Writes => t.o[a].dirty[k] # Unset
  <2> TAKE k \in Slots
  <2>1. old.dirty \in [Slots -> Words \cup {Unset}] /\ Unset \notin Words BY <1>5, WordsAssumption DEF Object, Unset
  <2>2. e.op = "storage" => e.prev[1] \in Slots /\ e.prev[2] \in Words BY <1>4, EntryKind
  <2> QED BY <2>1, <2>2, <1>8
<1>18. Slotted(t)
  <2> SUFFICES ASSUME NEW i \in 1 .. Len(t.j), t.j[i].op = "storage"
               PROVE  t.o[t.j[i].addr].dirty[t.j[i].prev[1]] # Unset BY DEF Slotted
  <2>1. t.j[i] = s.j[i] /\ s.j[i].addr \in Addrs /\ s.j[i].prev[1] \in Slots /\ s.j[i].op = "storage"
    BY <1>3, <1>4, EntryKind
  <2>2. s.o[s.j[i].addr].dirty[s.j[i].prev[1]] # Unset BY <2>1, <1>3 DEF Sound, Slotted
  <2>3. s.j[i].addr = a => e.op \in Writes BY <2>1, <1>7, <1>14
  <2> QED BY <2>1, <2>2, <2>3, <1>6, <1>17
<1>19. Present(c, t)
  <2>1. \A b \in c.pending \cup c.dirty : b \in Addrs /\ s.o[b] # None BY <1>1 DEF Contexts, Sound, Present
  <2>2. e.op = "create" => a \notin c.pending \cup c.dirty BY <1>1, <1>4 DEF Sound, Present
  <2>3. \A b \in c.pending \cup c.dirty : t.o[b] # None BY <2>1, <2>2, <1>6, <1>9
  <2>4. \A i \in 1 .. Len(t.j) : t.j[i].op = "create" => t.j[i].addr \notin c.pending \cup c.dirty
    BY <1>3 DEF Sound, Present
  <2> QED BY <2>3, <2>4 DEF Present
<1>20. Coded(c, t)
  <2>1. Coded(c, s) BY DEF Sound
  <2>2. ASSUME NEW b \in Addrs, t.o[b] # None PROVE CodeKept(c, b, t.o[b])
    <3>1. CASE b # a BY <2>1, <2>2, <3>1, <1>6 DEF Coded
    <3>2. CASE b = a /\ e.op = "reset" BY <2>1, <3>2, <1>1, <1>4, <1>7 DEF Coded, Writes
    <3>3. CASE b = a /\ e.op \in Writes BY <2>1, <3>3, <1>4, <1>5, <1>8 DEF Coded, CodeKept
    <3> QED BY <3>1, <3>2, <3>3, <2>2, <1>7, <1>9
  <2>3. ASSUME NEW i \in 1 .. Len(t.j), t.j[i].op = "reset" PROVE CodeKept(c, t.j[i].addr, t.j[i].prev.obj)
    BY <2>1, <2>3, <1>3 DEF Coded
  <2>4. ASSUME NEW b \in Addrs, Owes(c, b)
        PROVE  /\ b \in c.dirty /\ IsLive(t.o, b) /\ t.o[b].code /\ t.o[b].dirtyCode
               /\ \A i \in 1 .. Len(t.j) : t.j[i].addr = b => t.j[i].op \notin {"create", "reset", "code"}
    <3>1. /\ b \in c.dirty /\ IsLive(s.o, b) /\ s.o[b].code /\ s.o[b].dirtyCode
          /\ \A i \in 1 .. last : s.j[i].addr = b => s.j[i].op \notin {"create", "reset", "code"}
      BY <2>1, <2>4 DEF Coded
    <3>2. b = a => e.op \in Writes /\ e.op # "code" BY <3>1, <1>1, <1>4, <1>7
    <3>3. IsLive(t.o, b) /\ t.o[b].code /\ t.o[b].dirtyCode
      <4>1. CASE b # a BY <3>1, <4>1, <1>6 DEF IsLive
      <4>2. CASE b = a BY <3>1, <3>2, <4>2, <1>8, <1>9 DEF IsLive, Writes
      <4> QED BY <4>1, <4>2
    <3> QED BY <3>1, <3>3, <1>3
  <2> QED BY <2>2, <2>3, <2>4 DEF Coded
<1>21. ASSUME EIP158 PROVE Saned(c, t) /\ Marked(c, t)
  <2>0. Saned(c, s) /\ Marked(c, s) BY <1>21 DEF Sound
  <2>21. e.op = "reset" => (a \in t.x <=> e.prev.destruct)
    BY <2>0, <1>1, <1>4, <1>7 DEF Marked, Writes
  <2>22. IF t.o[a] = None THEN Bare(c, a) ELSE Sane(c, a, t.o[a], a \in t.x)
    <3>1. CASE e.op = "create" BY <2>0, <3>1, <1>1, <1>4, <1>9 DEF Saned
    <3>2. CASE e.op = "reset"
      <4>1. Sane(c, a, e.prev.obj, e.prev.destruct) BY <2>0, <3>2, <1>1, <1>4 DEF Saned
      <4>2. t.o[a] = e.prev.obj /\ (a \in t.x) = e.prev.destruct /\ e.prev.destruct \in BOOLEAN
        BY <3>2, <1>7, <2>21 DEF Writes
      <4> QED BY <4>1, <4>2, <1>9, <3>2
    <3>3. CASE e.op \in Writes
      <4>1. Sane(c, a, old, a \in s.x) BY <2>0, <1>4, <1>5 DEF Saned
      <4>2. t.x = s.x BY <3>3, <1>7 DEF Writes
      <4>3. ASSUME NEW k \in Slots, t.o[a].dirty[k] # Unset PROVE old.dirty[k] # Unset
        <5>1. e.op = "storage" => e.prev[1] \in Slots /\ old.dirty[e.prev[1]] # Unset
          BY <1>1, <1>4, EntryKind DEF Sound, Slotted
        <5>2. old.dirty \in [Slots -> Words \cup {Unset}] BY <1>5 DEF Object
        <5> QED BY <4>3, <5>1, <5>2, <3>3, <1>8
      <4>4. \A k \in Slots : Known(t.o[a], k) <=> Known(old, k) BY <3>3, <1>8 DEF Known
      <4> QED BY <4>1, <4>2, <4>3, <4>4, <3>3, <1>5, <1>8, <1>9 DEF Sane, Writes
    <3> QED BY <3>1, <3>2, <3>3, <1>7
  <2>23. Saned(c, t)
    <3>1. ASSUME NEW b \in Addrs PROVE IF t.o[b] = None THEN Bare(c, b) ELSE Sane(c, b, t.o[b], b \in t.x)
      <4>1. IF s.o[b] = None THEN Bare(c, b) ELSE Sane(c, b, s.o[b], b \in s.x) BY <2>0 DEF Saned
      <4>2. CASE b # a
        BY <4>2, <1>6, <4>1
      <4> QED BY <4>2, <2>22
    <3> QED BY <2>0, <3>1, <1>3 DEF Saned
  <2>24. Marked(c, t)
    <3>1. Marked(c, s) BY <2>0
    <3>2. t.x \subseteq s.x BY <1>7
    <3>3. ~c.snap => t.x = {} /\ \A i \in 1 .. Len(t.j) : t.j[i].op = "reset" => ~t.j[i].prev.destruct
      BY <3>1, <3>2, <1>3 DEF Marked
    <3>4. \A b \in Addrs : t.o[b] = None => b \notin t.x
      <4>1. e.op = "create" => a \notin s.x BY <3>1, <1>1, <1>3, <1>4 DEF Marked
      <4> QED BY <3>1, <3>2, <4>1, <1>6, <1>9 DEF Marked
    <3>5. ASSUME NEW i \in 1 .. Len(t.j), c.snap, t.j[i].op = "reset" PROVE t.j[i].addr \in t.x
      <4>1. i \in 1 .. last /\ i < last /\ t.j[i] = s.j[i] /\ s.j[i].addr \in s.x BY <3>1, <3>5, <1>3 DEF Marked
      <4>2. s.j[i].addr = a /\ e.op = "reset" => e.prev.destruct BY <3>1, <3>5, <4>1, <1>1, <1>4 DEF Marked
      <4> QED BY <4>1, <4>2, <1>7 DEF Writes
    <3>6. \A i, k \in 1 .. Len(t.j) :
            c.snap /\ i < k /\ t.j[i].addr = t.j[k].addr /\ t.j[i].op = "reset" /\ t.j[k].op = "reset" =>
              t.j[k].prev.destruct BY <3>1, <1>3 DEF Marked
    <3>7. ASSUME NEW i \in 1 .. Len(t.j), t.j[i].op = "create", t.j[i].addr \in t.x
          PROVE  \E k \in 1 .. Len(t.j) : /\ i < k /\ t.j[k].addr = t.j[i].addr
                                          /\ t.j[k].op = "reset" /\ ~t.j[k].prev.destruct
      <4>1. i \in 1 .. last /\ t.j[i] = s.j[i] /\ t.j[i].addr \in s.x BY <3>2, <3>7, <1>3
      <4>2. PICK k \in 1 .. last : /\ i < k /\ s.j[k].addr = s.j[i].addr
                                   /\ s.j[k].op = "reset" /\ ~s.j[k].prev.destruct
        BY <3>1, <3>7, <4>1 DEF Marked
      <4>3. k # last
        <5>1. SUFFICES ASSUME k = last PROVE FALSE OBVIOUS
        <5>2. e.op = "reset" /\ e.addr = s.j[i].addr /\ ~e.prev.destruct BY <4>2, <5>1, <1>1
        <5> QED BY <5>2, <4>1, <3>7, <2>21
      <4>4. k \in 1 .. Len(t.j) BY <4>2, <4>3, <1>3
      <4> QED BY <4>1, <4>2, <4>4, <1>3
    <3> QED BY <3>3, <3>4, <3>5, <3>6, <3>7 DEF Marked
  <2> QED BY <2>23, <2>24
<1> QED BY <1>1, <1>12, <1>13, <1>15, <1>16, <1>18, <1>19, <1>20, <1>21 DEF Sound

-----------------------------------------------------------------------------
(* Each kind of step continues the history.                                *)

\* What the EVM sees of an object.
LEMMA PlainType ==
  ASSUME NEW obj \in Object \cup {None}
  PROVE  /\ Plain(obj) \in Seen \cup {None}
         /\ obj # None /\ ~obj.deleted =>
              /\ Plain(obj) # None /\ Plain(obj) \in Seen /\ Store(obj) \in [Slots -> Words]
              /\ Plain(obj) = [bal |-> obj.bal, nonce |-> obj.nonce, code |-> obj.code,
                               store |-> Store(obj), dead |-> obj.suicided]
         /\ obj = None \/ obj.deleted => Plain(obj) = None
<1>1. CASE obj # None /\ ~obj.deleted
  BY <1>1, WordsAssumption, NilAssumption DEF Store, Object, Unset, Plain, Seen
<1>2. CASE ~(obj # None /\ ~obj.deleted) BY <1>2 DEF Plain
<1> QED BY <1>1, <1>2

\* The faces of a StateDB.
LEMMA FacesType ==
  ASSUME NEW s \in Parts
  PROVE  /\ Faces(s) \in [Addrs -> Facets]
         /\ \A a \in Addrs : Faces(s)[a] = Face(s.o[a], a \in s.x)
  BY PlainType DEF Parts, Faces, Face, Facets

\* Undoing a write undoes it for the EVM.
LEMMA RestoredSeen ==
  ASSUME NEW obj \in Object, ~obj.deleted, NEW e \in Entries, e.op \in Writes
  PROVE  Plain(Restored(obj, e)) = Earlier(Plain(obj), e)
<1> DEFINE old == Restored(obj, e)
           v == Plain(obj)
<1>1. /\ old \in Object /\ ~old.deleted /\ old.root = obj.root /\ old.pending = obj.pending
      /\ e.op # "storage" => old.dirty = obj.dirty
      /\ e.op = "storage" => old.dirty = [obj.dirty EXCEPT ![e.prev[1]] = e.prev[2]]
  BY RestoredFacts
<1>2. obj # None /\ old # None BY <1>1, NilAssumption
<1>3. v = [bal |-> obj.bal, nonce |-> obj.nonce, code |-> obj.code, store |-> Store(obj), dead |-> obj.suicided]
  BY <1>2, PlainType
<1>4. Plain(old) = [bal |-> old.bal, nonce |-> old.nonce, code |-> old.code, store |-> Store(old),
                    dead |-> old.suicided] BY <1>1, <1>2, PlainType
<1>5. e.op # "storage" => Store(old) = Store(obj) BY <1>1 DEF Store
<1>6. e.op = "storage" => Store(old) = [Store(obj) EXCEPT ![e.prev[1]] = e.prev[2]]
  <2> SUFFICES ASSUME e.op = "storage" PROVE Store(old) = [Store(obj) EXCEPT ![e.prev[1]] = e.prev[2]] OBVIOUS
  <2>1. e.prev[1] \in Slots /\ e.prev[2] \in Words /\ e.prev[2] # Unset BY EntryKind, WordsAssumption DEF Unset
  <2>2. obj.dirty \in [Slots -> Words \cup {Unset}] BY DEF Object
  <2>3. ASSUME NEW k \in Slots
        PROVE  Store(old)[k] = [Store(obj) EXCEPT ![e.prev[1]] = e.prev[2]][k] BY <2>1, <2>2, <1>1 DEF Store
  <2>4. Store(old) = [k \in Slots |-> Store(old)[k]] BY DEF Store
  <2>5. [Store(obj) EXCEPT ![e.prev[1]] = e.prev[2]]
          = [k \in Slots |-> [Store(obj) EXCEPT ![e.prev[1]] = e.prev[2]][k]] BY DEF Store
  <2> QED BY <2>3, <2>4, <2>5
<1> HIDE DEF v
<1>7. CASE e.op = "suicide"
  <2>1. old = [obj EXCEPT !.suicided = e.prev[1], !.bal = e.prev[2]] BY <1>7 DEF Restored
  <2>2. Earlier(v, e) = [[v EXCEPT !.dead = e.prev[1]] EXCEPT !.bal = e.prev[2]] BY <1>7 DEF Earlier
  <2>3. old.bal = e.prev[2] /\ old.nonce = obj.nonce /\ old.code = obj.code /\ old.suicided = e.prev[1]
    BY <2>1 DEF Object
  <2> HIDE DEF old
  <2>4. Plain(old) = [bal |-> e.prev[2], nonce |-> obj.nonce, code |-> obj.code, store |-> Store(obj),
                      dead |-> e.prev[1]] BY <1>4, <1>5, <1>7, <2>3 DEF old
  <2>5. [[v EXCEPT !.dead = e.prev[1]] EXCEPT !.bal = e.prev[2]]
          = [bal |-> e.prev[2], nonce |-> obj.nonce, code |-> obj.code, store |-> Store(obj), dead |-> e.prev[1]]
    <3> DEFINE w == [v EXCEPT !.dead = e.prev[1]]
    <3>1. w = [bal |-> obj.bal, nonce |-> obj.nonce, code |-> obj.code, store |-> Store(obj), dead |-> e.prev[1]]
      BY <1>3
    <3> HIDE DEF w
    <3>2. [w EXCEPT !.bal = e.prev[2]]
            = [bal |-> e.prev[2], nonce |-> obj.nonce, code |-> obj.code, store |-> Store(obj), dead |-> e.prev[1]]
      BY <3>1
    <3> QED BY <3>2 DEF w
  <2> QED BY <2>2, <2>4, <2>5 DEF v, old
<1>8. CASE e.op = "balance"
  <2>1. old = [obj EXCEPT !.bal = e.prev] BY <1>8 DEF Restored
  <2>2. Earlier(v, e) = [v EXCEPT !.bal = e.prev] BY <1>8 DEF Earlier
  <2> HIDE DEF old
  <2> QED BY <1>3, <1>4, <1>5, <1>8, <2>1, <2>2 DEF v, old, Object
<1>9. CASE e.op = "nonce"
  <2>1. old = [obj EXCEPT !.nonce = e.prev] BY <1>9 DEF Restored
  <2>2. Earlier(v, e) = [v EXCEPT !.nonce = e.prev] BY <1>9 DEF Earlier
  <2> HIDE DEF old
  <2> QED BY <1>3, <1>4, <1>5, <1>9, <2>1, <2>2 DEF v, old, Object
<1>10. CASE e.op = "code"
  <2>1. old = [obj EXCEPT !.code = e.prev, !.dirtyCode = TRUE] BY <1>10 DEF Restored
  <2>2. Earlier(v, e) = [v EXCEPT !.code = e.prev] BY <1>10 DEF Earlier
  <2> HIDE DEF old
  <2> QED BY <1>3, <1>4, <1>5, <1>10, <2>1, <2>2 DEF v, old, Object
<1>11. CASE e.op = "storage"
  <2>1. old = [obj EXCEPT !.dirty = [obj.dirty EXCEPT ![e.prev[1]] = e.prev[2]]] BY <1>11 DEF Restored
  <2>2. Earlier(v, e) = [v EXCEPT !.store = [v.store EXCEPT ![e.prev[1]] = e.prev[2]]] BY <1>11 DEF Earlier
  <2>3. v.store = Store(obj) BY <1>3
  <2>4. old.bal = obj.bal /\ old.nonce = obj.nonce /\ old.code = obj.code /\ old.suicided = obj.suicided
    BY <2>1 DEF Object
  <2> HIDE DEF old
  <2> QED BY <1>3, <1>4, <1>6, <1>11, <2>2, <2>3, <2>4 DEF v, old
<1>12. CASE e.op = "touch"
  BY <1>12 DEF Restored, Earlier, v
<1> QED BY <1>7, <1>8, <1>9, <1>10, <1>11, <1>12 DEF Writes

\* A history goes on with what is known after an entry, if the entry says what was before.
LEMMA ToldAppend ==
  ASSUME NEW g, NEW s, NEW t, NEW e, NEW obj, NEW h, Wrote(s, t, e, obj), GoesOn(g, s, t, e, h)
  PROVE  /\ h \in Histories /\ (EIP158 => Told(h, t))
         /\ \A n \in 0 .. Len(s.j) : h[n] = g[n]
         /\ \A b \in Addrs : b # e.addr => Faces(t)[b] = Faces(s)[b]
<1> DEFINE a == e.addr
<1>0. /\ g \in Histories /\ (EIP158 => Told(g, s) /\ Faces(s)[a] = Before(Faces(t)[a], e))
      /\ \A b \in Addrs : b # a => (b \in t.x <=> b \in s.x)
      /\ h = [g EXCEPT ![Len(t.j)] = Faces(t)]
  BY DEF GoesOn
<1>1. s \in Parts /\ t \in Parts BY DEF Wrote
<1>2. /\ Len(s.j) \in Nat /\ Len(t.j) = Len(s.j) + 1 /\ t.j[Len(t.j)] = e
      /\ \A i \in 1 .. Len(s.j) : t.j[i] = s.j[i]
      /\ \A i \in 1 .. Len(t.j) : i \in 1 .. Len(s.j) \/ i = Len(t.j)
      /\ a \in Addrs
      /\ \A b \in Addrs : b # a => t.o[b] = s.o[b]
  BY WroteFacts
<1>3. /\ Faces(t) \in [Addrs -> Facets]
      /\ \A b \in Addrs : Faces(s)[b] = Face(s.o[b], b \in s.x) /\ Faces(t)[b] = Face(t.o[b], b \in t.x)
  BY <1>1, FacesType
<1>4. h \in Histories /\ h[Len(t.j)] = Faces(t) /\ \A n \in 0 .. Len(s.j) : h[n] = g[n]
  BY <1>0, <1>2, <1>3 DEF Histories
<1>5. ASSUME NEW b \in Addrs, b # a PROVE Faces(t)[b] = Faces(s)[b]
  BY <1>0, <1>2, <1>5, <1>3
<1>6. ASSUME EIP158, NEW n \in 1 .. Len(t.j), NEW b \in Addrs
      PROVE  h[n - 1][b] = IF b = t.j[n].addr THEN Before(h[n][b], t.j[n]) ELSE h[n][b]
  <2>1. CASE n \in 1 .. Len(s.j)
    BY <2>1, <1>2, <1>4, <1>0, <1>6 DEF Told
  <2>2. CASE n = Len(t.j)
    BY <1>0, <1>6, <2>2, <1>2, <1>4, <1>5 DEF Told
  <2> QED BY <2>1, <2>2, <1>2
<1>7. EIP158 => Told(h, t) BY <1>4, <1>6 DEF Told
<1> QED BY <1>4, <1>5, <1>7

\* No step.
LEMMA AdvanceNone ==
  ASSUME NEW c, NEW s, NEW a, NEW g \in Histories, Sound(c, s), EIP158 => Told(g, s) PROVE Advance(c, g, s, g, s, a)
  BY LenProperties DEF Sound, Parts, Advance

\* One more entry.
LEMMA AdvanceEntry ==
  ASSUME NEW c, NEW g0, NEW s0, NEW g, NEW s, NEW t, NEW e, NEW obj, s0 \in Parts,
         Advance(c, g0, s0, g, s, e.addr), Wrote(s, t, e, obj), Sound(c, t),
         EIP158 => Faces(s)[e.addr] = Before(Faces(t)[e.addr], e),
         \A b \in Addrs : b # e.addr => (b \in t.x <=> b \in s.x)
  PROVE  Advance(c, g0, s0, [g EXCEPT ![Len(t.j)] = Faces(t)], t, e.addr)
<1> DEFINE h == [g EXCEPT ![Len(t.j)] = Faces(t)]
<1>1. /\ Len(s.j) \in Nat /\ Len(t.j) = Len(s.j) + 1 /\ t.j[Len(t.j)] = e
      /\ \A i \in 1 .. Len(s.j) : t.j[i] = s.j[i]
      /\ \A i \in 1 .. Len(t.j) : i \in 1 .. Len(s.j) \/ i = Len(t.j)
  BY WroteFacts
<1>2. /\ g \in Histories /\ (EIP158 => Told(g, s)) /\ Len(s0.j) <= Len(s.j)
      /\ \A i \in 1 .. Len(s0.j) : s.j[i] = s0.j[i]
      /\ \A i \in 1 .. Len(s.j) : i > Len(s0.j) => s.j[i].addr = e.addr
      /\ \A n \in 0 .. Len(s0.j) : g[n] = g0[n]
      /\ \A b \in Addrs : b # e.addr => Faces(s)[b] = Faces(s0)[b]
  BY DEF Advance
<1>0. GoesOn(g, s, t, e, h) /\ Wrote(s, t, e, obj) BY <1>2 DEF GoesOn
<1> HIDE DEF h
<1>3. /\ h \in Histories /\ (EIP158 => Told(h, t))
      /\ \A n \in 0 .. Len(s.j) : h[n] = g[n]
      /\ \A b \in Addrs : b # e.addr => Faces(t)[b] = Faces(s)[b]
  BY <1>0, ToldAppend
<1>4. Len(s0.j) \in Nat BY LenProperties DEF Parts
<1>5. /\ Len(s0.j) <= Len(t.j)
      /\ \A i \in 1 .. Len(s0.j) : t.j[i] = s0.j[i]
      /\ \A n \in 0 .. Len(s0.j) : h[n] = g0[n]
  BY <1>1, <1>2, <1>3, <1>4
<1>6. ASSUME NEW i \in 1 .. Len(t.j), i > Len(s0.j) PROVE t.j[i].addr = e.addr BY <1>1, <1>2, <1>6
<1>7. \A b \in Addrs : b # e.addr => Faces(t)[b] = Faces(s0)[b] BY <1>2, <1>3
<1>8. Advance(c, g0, s0, h, t, e.addr) BY <1>3, <1>5, <1>6, <1>7 DEF Advance
<1> QED BY <1>8 DEF h

\* A journalled write.
LEMMA AdvanceWrite ==
  ASSUME NEW c, NEW g0, NEW s0, NEW g, NEW s, NEW t, NEW e, NEW obj, s0 \in Parts,
         Advance(c, g0, s0, g, s, e.addr), WriteStep(s, t, e, obj) PROVE \E h : Advance(c, g0, s0, h, t, e.addr)
<1> DEFINE a == e.addr
<1>1. Sound(c, s) /\ Sound(c, t) /\ Wrote(s, t, e, obj) /\ t.x = s.x BY WriteKeeps DEF Advance, WriteStep
<1>2. s \in Parts /\ t \in Parts /\ e \in Entries /\ a \in Addrs /\ t.o[a] = obj
  <2>1. s \in Parts /\ t \in Parts /\ e \in Entries BY <1>1 DEF Wrote
  <2>2. a \in Addrs /\ t.o[a] = obj BY <1>1, WroteFacts
  <2> QED BY <2>1, <2>2
<1>3. /\ e.op \in Writes /\ obj \in Object /\ ~obj.deleted /\ s.o[a] # None /\ obj # None
      /\ EIP158 => Plain(Restored(obj, e)) = Plain(s.o[a])
  BY NilAssumption DEF WriteStep, IsLive
<1>4. EIP158 => Plain(s.o[a]) = Earlier(Plain(obj), e) BY <1>2, <1>3, RestoredSeen
<1>5. /\ Faces(s)[a] = [seen |-> Plain(s.o[a]), there |-> s.o[a] # None, destruct |-> a \in s.x]
      /\ Faces(t)[a] = [seen |-> Plain(obj), there |-> obj # None, destruct |-> a \in t.x]
  BY <1>2, FacesType DEF Face
<1>6. Before(Faces(t)[a], e) = [seen |-> Earlier(Plain(obj), e), there |-> obj # None, destruct |-> a \in t.x]
  BY <1>3, <1>5 DEF Before, Writes
<1>7. EIP158 => Faces(s)[a] = Before(Faces(t)[a], e) BY <1>1, <1>3, <1>4, <1>5, <1>6
<1>8. Advance(c, g0, s0, [g EXCEPT ![Len(t.j)] = Faces(t)], t, a) BY <1>1, <1>7, AdvanceEntry
<1> QED BY <1>8

\* createObject.
LEMMA AdvanceMake ==
  ASSUME NEW c, NEW g0, NEW s0, NEW g, NEW s, NEW t, NEW e, s0 \in Parts,
         Advance(c, g0, s0, g, s, e.addr), MakeStep(c, s, t, e) PROVE \E h : Advance(c, g0, s0, h, t, e.addr)
<1> DEFINE a == e.addr
<1>1. Sound(c, s) /\ Sound(c, t) /\ Wrote(s, t, e, NewObject) BY MakeKeeps DEF Advance, MakeStep
<1>2. s \in Parts /\ t \in Parts /\ a \in Addrs BY <1>1, WroteFacts DEF Wrote
<1>3. \/ e.op = "create" /\ s.o[a] = None /\ t.x = s.x
      \/ /\ e.op = "reset" /\ e.prev.obj = s.o[a] /\ e.prev.destruct = (a \in s.x)
         /\ t.x = IF c.snap THEN s.x \cup {a} ELSE s.x
  BY DEF MakeStep
<1>4. /\ Faces(s)[a] = Face(s.o[a], a \in s.x)
      /\ Faces(t)[a] = Face(t.o[a], a \in t.x)
  BY <1>2, FacesType
<1>5. Faces(s)[a] = Before(Faces(t)[a], e)
  <2>1. CASE e.op = "create"
    <3>1. Before(Faces(t)[a], e) = [seen |-> None, there |-> FALSE, destruct |-> a \in t.x]
      BY <2>1, <1>4 DEF Before, Face
    <3>2. Faces(s)[a] = [seen |-> None, there |-> FALSE, destruct |-> a \in s.x] BY <2>1, <1>3, <1>4 DEF Face, Plain
    <3> QED BY <2>1, <3>1, <3>2, <1>3
  <2>2. CASE e.op = "reset" BY <2>2, <1>3, <1>4 DEF Before
  <2> QED BY <2>1, <2>2, <1>3
<1>6. \A b \in Addrs : b # a => (b \in t.x <=> b \in s.x) BY <1>3
<1>7. Advance(c, g0, s0, [g EXCEPT ![Len(t.j)] = Faces(t)], t, a) BY <1>1, <1>5, <1>6, AdvanceEntry
<1> QED BY <1>7

\* A write that no entry remembers: the EVM sees no change, or the object is new.
LEMMA AdvanceCache ==
  ASSUME NEW c, NEW g0, NEW s0, NEW g, NEW s, NEW t, NEW a, NEW obj, s0 \in Parts,
         Advance(c, g0, s0, g, s, a), CacheStep(s, t, a, obj),
         EIP158 => \/ Plain(obj) = Plain(s.o[a])
                   \/ Len(s.j) > Len(s0.j) /\ s.j[Len(s.j)].op = "reset"
  PROVE  \E h : Advance(c, g0, s0, h, t, a)
<1> DEFINE h == [g EXCEPT ![Len(t.j)] = Faces(t)]
<1>1. Sound(c, s) /\ Sound(c, t) /\ s \in Parts /\ t \in Parts BY CacheKeeps DEF Advance, Sound
<1>2. /\ t = [s EXCEPT !.o = [s.o EXCEPT ![a] = obj]] /\ a \in Addrs /\ s.o[a] # None /\ obj # None
      /\ s.o \in [Addrs -> Object \cup {None}]
  BY <1>1, NilAssumption DEF CacheStep, IsLive, Parts
<1>3. t.j = s.j /\ t.x = s.x /\ t.o[a] = obj /\ \A b \in Addrs : b # a => t.o[b] = s.o[b] BY <1>1, <1>2 DEF Parts
<1>4. /\ Faces(t) \in [Addrs -> Facets]
      /\ \A b \in Addrs : Faces(s)[b] = Face(s.o[b], b \in s.x) /\ Faces(t)[b] = Face(t.o[b], b \in t.x)
  BY <1>1, FacesType
<1>5. \A b \in Addrs : b # a => Faces(t)[b] = Faces(s)[b] BY <1>3, <1>4
<1>6. /\ g \in Histories /\ (EIP158 => Told(g, s)) /\ Len(s0.j) <= Len(s.j)
      /\ \A i \in 1 .. Len(s0.j) : s.j[i] = s0.j[i]
      /\ \A i \in 1 .. Len(s.j) : i > Len(s0.j) => s.j[i].addr = a
      /\ \A n \in 0 .. Len(s0.j) : g[n] = g0[n]
      /\ \A b \in Addrs : b # a => Faces(s)[b] = Faces(s0)[b]
  BY DEF Advance
<1>7. Len(s.j) \in Nat /\ Len(s0.j) \in Nat BY <1>1, LenProperties DEF Parts
<1>8. h \in Histories /\ h[Len(s.j)] = Faces(t) /\ \A n \in Nat : n # Len(s.j) => h[n] = g[n]
  BY <1>3, <1>4, <1>6, <1>7 DEF Histories
<1>9. EIP158 => \A b \in Addrs : b # a => g[Len(s.j)][b] = Faces(t)[b] BY <1>5, <1>6 DEF Told
<1> HIDE DEF h
<1>10. CASE Plain(obj) = Plain(s.o[a])
  <2>1. Faces(t)[a] = Faces(s)[a]
    <3>1. Faces(s)[a] = [seen |-> Plain(s.o[a]), there |-> TRUE, destruct |-> a \in s.x] BY <1>2, <1>4 DEF Face
    <3>2. Faces(t)[a] = [seen |-> Plain(obj), there |-> TRUE, destruct |-> a \in s.x] BY <1>2, <1>3, <1>4 DEF Face
    <3> QED BY <3>1, <3>2, <1>10
  <2>2. Faces(t) = Faces(s)
    BY <1>1, FacesType, <2>1, <1>4, <1>5
  <2>3. EIP158 => Told(g, t) BY <2>2, <1>3, <1>6 DEF Told
  <2>4. Advance(c, g0, s0, g, t, a) BY <2>2, <2>3, <1>1, <1>3, <1>6 DEF Advance
  <2> QED BY <2>4
<1>11. CASE EIP158 /\ Len(s.j) > Len(s0.j) /\ s.j[Len(s.j)].op = "reset"
  <2>1. ASSUME NEW n \in 1 .. Len(s.j), NEW b \in Addrs
        PROVE  h[n - 1][b] = IF b = s.j[n].addr THEN Before(h[n][b], s.j[n]) ELSE h[n][b]
    <3>1. g[n - 1][b] = IF b = s.j[n].addr THEN Before(g[n][b], s.j[n]) ELSE g[n][b] BY <1>6, <1>11 DEF Told
    <3>2. h[n - 1] = g[n - 1] BY <1>7, <1>8
    <3>3. CASE n # Len(s.j) BY <3>1, <3>2, <3>3, <1>7, <1>8
    <3>4. CASE n = Len(s.j)
      <4>1. s.j[n].addr = a /\ s.j[n].op = "reset" /\ h[n] = Faces(t) BY <3>4, <1>6, <1>7, <1>8, <1>11
      <4>2. b # a => h[n][b] = g[n][b] BY <3>4, <4>1, <1>9, <1>11
      <4>3. Before(h[n][b], s.j[n]) = Before(g[n][b], s.j[n]) BY <4>1 DEF Before
      <4> QED BY <3>1, <3>2, <4>1, <4>2, <4>3
    <3> QED BY <3>3, <3>4
  <2>2. Told(h, t) BY <2>1, <1>3, <1>8 DEF Told
  <2>3. \A n \in 0 .. Len(s0.j) : h[n] = g0[n] BY <1>6, <1>7, <1>8, <1>11
  <2>4. Advance(c, g0, s0, h, t, a) BY <2>2, <2>3, <1>1, <1>3, <1>5, <1>6, <1>8 DEF Advance
  <2> QED BY <2>4
<1>12. CASE ~EIP158
  BY <1>1, <1>3, <1>5, <1>6, <1>12 DEF Advance
<1> QED BY <1>10, <1>11, <1>12

\* One turn of journal.revert's loop goes back in the history.
LEMMA ToldUndo ==
  ASSUME NEW c, NEW s, NEW t, NEW e, NEW h \in Histories, Sound(c, s), Sound(c, t), UndoStep(s, t, e), Told(h, s),
         e.op = "reset" => (e.addr \in t.x <=> e.prev.destruct) PROVE Told(h, t)
<1> DEFINE a == e.addr
           last == Len(s.j)
<1>1. s \in Parts /\ t \in Parts /\ last > 0 /\ e = s.j[last] BY DEF UndoStep, Sound
<1>2. /\ last \in Nat /\ Len(t.j) = last - 1
      /\ \A i \in 1 .. Len(t.j) : t.j[i] = s.j[i] /\ i \in 1 .. last
      /\ \A i \in 1 .. last : s.j[i] \in Entries
  BY <1>1, DropEntry DEF UndoStep, Parts
<1>3. last \in 1 .. last /\ e \in Entries /\ a \in Addrs BY <1>1, <1>2, EntryKind
<1>4. s.o[a] \in Object /\ ~s.o[a].deleted /\ s.o[a] # None /\ s.o \in [Addrs -> Object \cup {None}]
  BY <1>1, <1>3 DEF Sound, Named, IsLive, Parts
<1>5. /\ Faces(t) \in [Addrs -> Facets] /\ h[last] = Faces(s) /\ h[last - 1] \in [Addrs -> Facets]
      /\ \A b \in Addrs : Faces(s)[b] = Face(s.o[b], b \in s.x) /\ Faces(t)[b] = Face(t.o[b], b \in t.x)
  BY <1>1, <1>2, FacesType DEF Told, Histories
<1>6. ASSUME NEW b \in Addrs, b # a PROVE h[last - 1][b] = Faces(t)[b]
  <2>1. t.o[b] = s.o[b] /\ (b \in t.x) = (b \in s.x) BY <1>4, <1>6 DEF UndoStep
  <2>2. h[last - 1][b] = h[last][b] BY <1>1, <1>3, <1>6 DEF Told
  <2> QED BY <2>1, <2>2, <1>5
<1>7. h[last - 1][a] = Before(Faces(s)[a], e) BY <1>1, <1>3, <1>5 DEF Told
<1>8. h[last - 1][a] = Faces(t)[a]
  <2>1. CASE e.op = "create"
    <3>1. t.o[a] = None /\ t.x = s.x BY <2>1, <1>3, <1>4 DEF UndoStep, Writes
    <3>2. Faces(t)[a] = [seen |-> None, there |-> FALSE, destruct |-> a \in s.x] BY <3>1, <1>3, <1>5 DEF Face, Plain
    <3>3. Before(Faces(s)[a], e) = [seen |-> None, there |-> FALSE, destruct |-> Faces(s)[a].destruct]
      BY <2>1 DEF Before
    <3>4. Faces(s)[a].destruct = (a \in s.x)
      <4> DEFINE D == a \in s.x
                 T == s.o[a] # None
      <4>1. Faces(s)[a] = [seen |-> Plain(s.o[a]), there |-> T, destruct |-> D] BY <1>3, <1>5 DEF Face
      <4> HIDE DEF D, T
      <4>2. Faces(s)[a].destruct = D BY <4>1
      <4> QED BY <4>2 DEF D
    <3> QED BY <3>2, <3>3, <3>4, <1>7
  <2>2. CASE e.op = "reset"
    <3>1. t.o[a] = e.prev.obj /\ e.prev.destruct \in BOOLEAN
      BY <2>2, <1>3, <1>4, EntryKind DEF UndoStep, Writes, Replaced
    <3>2. (a \in t.x) = e.prev.destruct BY <2>2, <3>1
    <3> QED BY <2>2, <3>1, <3>2, <1>3, <1>5, <1>7 DEF Before
  <2>3. CASE e.op \in Writes
    <3>1. t.o[a] = Restored(s.o[a], e) /\ t.x = s.x BY <2>3, <1>3, <1>4 DEF UndoStep, Writes
    <3>2. Plain(t.o[a]) = Earlier(Plain(s.o[a]), e) BY <2>3, <3>1, <1>3, <1>4, RestoredSeen
    <3>3. t.o[a] # None BY <2>3, <3>1, <1>3, <1>4, RestoredFacts, NilAssumption
    <3>4. Faces(t)[a] = [seen |-> Earlier(Plain(s.o[a]), e), there |-> TRUE, destruct |-> a \in s.x]
      BY <3>1, <3>2, <3>3, <1>3, <1>5 DEF Face
    <3>5. Faces(s)[a] = [seen |-> Plain(s.o[a]), there |-> TRUE, destruct |-> a \in s.x] BY <1>3, <1>4, <1>5 DEF Face
    <3>6. Before(Faces(s)[a], e) = [seen |-> Earlier(Plain(s.o[a]), e), there |-> TRUE, destruct |-> a \in s.x]
      BY <2>3, <3>5 DEF Before, Writes
    <3> QED BY <3>4, <3>6, <1>7
  <2> QED BY <2>1, <2>2, <2>3, <1>3, EntryKind
<1>9. h[Len(t.j)] = Faces(t) BY <1>2, <1>5, <1>6, <1>8
<1>10. \A n \in 1 .. Len(t.j), b \in Addrs :
         h[n - 1][b] = IF b = t.j[n].addr THEN Before(h[n][b], t.j[n]) ELSE h[n][b]
  <2> TAKE n \in 1 .. Len(t.j), b \in Addrs
  <2>1. n \in 1 .. last /\ t.j[n] = s.j[n] BY <1>2
  <2>2. h[n - 1][b] = IF b = s.j[n].addr THEN Before(h[n][b], s.j[n]) ELSE h[n][b] BY <2>1 DEF Told
  <2> QED BY <2>1, <2>2
<1> QED BY <1>9, <1>10 DEF Told

\* An entry, as journal.append is given it.
Made(op, a, prev) == [op |-> op, addr |-> a, prev |-> prev]

\* An object with another balance.
WithBal(obj, v) == [obj EXCEPT !.bal = v]
WithNonce(obj, n) == [obj EXCEPT !.nonce = n]
WithCode(obj, b) == [obj EXCEPT !.code = b, !.dirtyCode = TRUE]
WithDeath(obj, b, v) == [obj EXCEPT !.suicided = b, !.bal = v]
Died(view, b, v) == [[view EXCEPT !.bal = v] EXCEPT !.dead = b]
WithDirty(obj, k, w) == [obj EXCEPT !.dirty = [obj.dirty EXCEPT ![k] = w]]

-----------------------------------------------------------------------------
(* The operations are such steps.                                          *)

\* What journal.append leaves; a touch of the precompile is counted once more.
Appended(s, t, e) ==
  /\ e \in Entries /\ t = [o |-> s.o, j |-> t.j, d |-> t.d, x |-> s.x]
  /\ t.d \in [Addrs -> Nat] /\ t.j = Append(s.j, e) /\ t.j \in Seq(Entries)
  /\ \A b \in Addrs : t.d[b] = s.d[b] + IF b \in Dirtied(e) THEN 1 ELSE 0

\* journal.append.
LEMMA JournalParts ==
  ASSUME NEW s \in Parts, NEW op, NEW a \in Addrs, NEW prev, Made(op, a, prev) \in Entries
  PROVE  Appended(s, Journal(s, op, a, prev), Made(op, a, prev))
<1> DEFINE e == Made(op, a, prev)
           d2 == [b \in Addrs |-> IF b \in Dirtied(e) THEN s.d[b] + 1 ELSE s.d[b]]
           J == Journal(s, op, a, prev)
<1>1. s = [o |-> s.o, j |-> s.j, d |-> s.d, x |-> s.x] /\ s.d \in [Addrs -> Nat] /\ s.j \in Seq(Entries) BY DEF Parts
<1>2. J = [s EXCEPT !.j = Append(s.j, e), !.d = d2] BY DEF Journal, Made
<1>3. e \in Entries OBVIOUS
<1> HIDE DEF e
<1>4. d2 \in [Addrs -> Nat] /\ Append(s.j, e) \in Seq(Entries) BY <1>1, <1>3, AppendEntry DEF d2
<1>5. \A b \in Addrs : d2[b] = s.d[b] + IF b \in Dirtied(e) THEN 1 ELSE 0 BY <1>1 DEF d2
<1> HIDE DEF d2, J
<1>6. [s EXCEPT !.j = Append(s.j, e), !.d = d2] = [o |-> s.o, j |-> Append(s.j, e), d |-> d2, x |-> s.x]
  <2> DEFINE A == Append(s.j, e)
             w == [s EXCEPT !.j = A]
  <2> HIDE DEF A
  <2>1. w = [o |-> s.o, j |-> A, d |-> s.d, x |-> s.x] BY <1>1
  <2> HIDE DEF w
  <2>2. [w EXCEPT !.d = d2] = [o |-> s.o, j |-> A, d |-> d2, x |-> s.x] BY <2>1
  <2> QED BY <2>2 DEF w, A
<1>7. J = [o |-> s.o, j |-> J.j, d |-> J.d, x |-> s.x] /\ J.d = d2 /\ J.j = Append(s.j, e) BY <1>2, <1>6
<1>8. Appended(s, J, e) BY <1>3, <1>4, <1>5, <1>7 DEF Appended
<1> QED BY <1>8 DEF J, e

\* An entry is appended, the object it names becomes another.
LEMMA WroteBy ==
  ASSUME NEW s \in Parts, NEW u, NEW e, Appended(s, u, e), ~(e.addr = Ripemd /\ e.op = "touch"),
         NEW obj \in Object, NEW t, NEW xs \in SUBSET Addrs,
         t = [o |-> [s.o EXCEPT ![e.addr] = obj], j |-> u.j, d |-> u.d, x |-> xs] PROVE Wrote(s, t, e, obj)
<1>1. /\ u.d \in [Addrs -> Nat] /\ u.j = Append(s.j, e) /\ u.j \in Seq(Entries) /\ e \in Entries
      /\ \A b \in Addrs : u.d[b] = s.d[b] + IF b \in Dirtied(e) THEN 1 ELSE 0
  BY DEF Appended
<1>2. s.o \in [Addrs -> Object \cup {None}] /\ s.d \in [Addrs -> Nat] BY DEF Parts
<1>3. [s.o EXCEPT ![e.addr] = obj] \in [Addrs -> Object \cup {None}] BY <1>1, <1>2, EntryKind
<1>4. t \in Parts BY <1>1, <1>3 DEF Parts
<1>5. Raised(s.d, t.d, e)
  <2> SUFFICES ASSUME NEW b \in Addrs
               PROVE  LET n == IF b \in Dirtied(e) THEN 1 ELSE 0
                      IN /\ u.d[b] >= s.d[b] + n /\ (b # Ripemd => u.d[b] = s.d[b] + n)
                         /\ b = Ripemd /\ e.addr = b /\ e.op = "touch" => u.d[b] > s.d[b] + n
    BY DEF Raised
  <2> QED BY <1>1, <1>2
<1> QED BY <1>1, <1>4, <1>5 DEF Wrote

\* What is known of a live object of the StateDB.
LEMMA LiveObject ==
  ASSUME NEW s \in Parts, NEW a \in Addrs, IsLive(s.o, a)
  PROVE  /\ s.o \in [Addrs -> Object \cup {None}] /\ s.o[a] \in Object /\ s.o[a] # None /\ ~s.o[a].deleted
         /\ s.x \in SUBSET Addrs
         /\ Plain(s.o[a]) = [bal |-> s.o[a].bal, nonce |-> s.o[a].nonce, code |-> s.o[a].code,
                             store |-> Store(s.o[a]), dead |-> s.o[a].suicided]
  BY PlainType DEF Parts, IsLive

\* The object with another balance.
LEMMA WithBalance ==
  ASSUME NEW old \in Object, NEW v \in 0 .. MaxBal, NEW obj, obj = WithBal(old, v)
  PROVE  /\ obj \in Object /\ obj.nonce = old.nonce /\ obj.code = old.code /\ obj.root = old.root
         /\ obj.origin = old.origin /\ obj.pending = old.pending /\ obj.dirty = old.dirty
         /\ obj.dirtyCode = old.dirtyCode /\ obj.suicided = old.suicided /\ obj.deleted = old.deleted
         /\ WithBal(obj, old.bal) = old
         /\ ~old.deleted => Plain(obj) = [Plain(old) EXCEPT !.bal = v]
<1>1. /\ obj \in Object /\ obj.bal = v /\ obj.nonce = old.nonce /\ obj.code = old.code /\ obj.root = old.root
      /\ obj.origin = old.origin /\ obj.pending = old.pending /\ obj.dirty = old.dirty
      /\ obj.dirtyCode = old.dirtyCode /\ obj.suicided = old.suicided /\ obj.deleted = old.deleted
  BY DEF Object, WithBal
<1>2. WithBal(obj, old.bal) = old BY DEF Object, WithBal
<1>3. ASSUME ~old.deleted PROVE Plain(obj) = [Plain(old) EXCEPT !.bal = v]
  BY <1>1, NilAssumption, <1>3, PlainType DEF Store
<1> QED BY <1>1, <1>2, <1>3

\* A journalled write, by what it does to the object.
Becomes(old, obj, e) ==
  /\ obj \in Object /\ ~obj.deleted
  /\ obj.root = old.root /\ obj.origin = old.origin /\ obj.pending = old.pending
  /\ IF e.op = "code" THEN ~old.code /\ obj.code /\ obj.dirtyCode
     ELSE obj.code = old.code /\ obj.dirtyCode = old.dirtyCode
  /\ IF e.op = "storage"
       THEN \E w \in Words : obj.dirty = [old.dirty EXCEPT ![e.prev[1]] = w]
       ELSE obj.dirty = old.dirty
  /\ EIP158 => Plain(Restored(obj, e)) = Plain(old) /\ (e.op = "storage" => Known(old, e.prev[1]))

Writing(s, u, e, obj, t) ==
  /\ s \in Parts /\ Appended(s, u, e) /\ IsLive(s.o, e.addr)
  /\ e.op \in Writes /\ ~(e.addr = Ripemd /\ e.op = "touch") /\ Becomes(s.o[e.addr], obj, e)
  /\ t = [o |-> [s.o EXCEPT ![e.addr] = obj], j |-> u.j, d |-> u.d, x |-> s.x]

\* What does so is a journalled write to a live object.
LEMMA WriteBy ==
  ASSUME NEW s, NEW u, NEW e, NEW obj, NEW t, Writing(s, u, e, obj, t) PROVE WriteStep(s, t, e, obj)
  BY WroteBy DEF Writing, Parts, Becomes, WriteStep

\* SetBalance.
LEMMA BalanceStep ==
  ASSUME NEW s \in Parts, NEW a \in Addrs, IsLive(s.o, a), NEW v \in 0 .. MaxBal
  PROVE  \E e, obj : /\ WriteStep(s, JSetBalance(s, a, v), e, obj) /\ e.addr = a
                     /\ Plain(obj) = [Plain(s.o[a]) EXCEPT !.bal = v]
<1> DEFINE old == s.o[a]
           u == Journal(s, "balance", a, old.bal)
           e == Made("balance", a, old.bal)
           obj == WithBal(old, v)
           t == [o |-> [s.o EXCEPT ![a] = obj], j |-> u.j, d |-> u.d, x |-> s.x]
<1>1. s.o \in [Addrs -> Object \cup {None}] /\ old \in Object /\ ~old.deleted BY LiveObject
<1>2. e \in Entries /\ e.op = "balance" /\ e.prev = old.bal /\ e.addr = a
  BY <1>1 DEF Object, Entry, Made, Entries
<1>3. /\ obj \in Object /\ obj.nonce = old.nonce /\ obj.code = old.code /\ obj.root = old.root
      /\ obj.origin = old.origin /\ obj.pending = old.pending /\ obj.dirty = old.dirty
      /\ obj.dirtyCode = old.dirtyCode /\ obj.suicided = old.suicided /\ obj.deleted = old.deleted
      /\ WithBal(obj, old.bal) = old
      /\ Plain(obj) = [Plain(old) EXCEPT !.bal = v]
  BY <1>1, WithBalance
<1>4. Restored(obj, e) = old BY <1>2, <1>3 DEF Restored, WithBal
<1>5. Appended(s, u, e) BY <1>2, JournalParts
<1> HIDE DEF u, e
<1>6. JSetBalance(s, a, v) = t
  <2>1. [u EXCEPT !.o[a].bal = v] = [o |-> [s.o EXCEPT ![a] = [old EXCEPT !.bal = v]], j |-> u.j, d |-> u.d, x |-> s.x]
    <3>1. u = [o |-> s.o, j |-> u.j, d |-> u.d, x |-> s.x] BY <1>5 DEF Appended
    <3> QED BY <1>1, <3>1
  <2> QED BY <2>1 DEF u, JSetBalance, WithBal
<1> HIDE DEF obj
<1>7. Becomes(old, obj, e) BY <1>1, <1>2, <1>3, <1>4 DEF Becomes
<1>8. WriteStep(s, t, e, obj)
  BY <1>2, <1>5, <1>7, WriteBy DEF Writes, Writing
<1> QED BY <1>2, <1>3, <1>6, <1>8

\* The object with another nonce.
LEMMA WithNonceObject ==
  ASSUME NEW old \in Object, NEW v \in 0 .. MaxNonce, NEW obj, obj = WithNonce(old, v)
  PROVE  /\ obj \in Object /\ obj.bal = old.bal /\ obj.code = old.code /\ obj.root = old.root
         /\ obj.origin = old.origin /\ obj.pending = old.pending /\ obj.dirty = old.dirty
         /\ obj.dirtyCode = old.dirtyCode /\ obj.suicided = old.suicided /\ obj.deleted = old.deleted
         /\ WithNonce(obj, old.nonce) = old
         /\ ~old.deleted => Plain(obj) = [Plain(old) EXCEPT !.nonce = v]
<1>1. /\ obj \in Object /\ obj.bal = old.bal /\ obj.nonce = v /\ obj.code = old.code /\ obj.root = old.root
      /\ obj.origin = old.origin /\ obj.pending = old.pending /\ obj.dirty = old.dirty
      /\ obj.dirtyCode = old.dirtyCode /\ obj.suicided = old.suicided /\ obj.deleted = old.deleted
  BY DEF Object, WithNonce
<1>2. WithNonce(obj, old.nonce) = old BY DEF Object, WithNonce
<1>3. ASSUME ~old.deleted PROVE Plain(obj) = [Plain(old) EXCEPT !.nonce = v]
  BY <1>1, NilAssumption, <1>3, PlainType DEF Store
<1> QED BY <1>1, <1>2, <1>3

\* The object with code.
LEMMA WithCodeObject ==
  ASSUME NEW old \in Object, NEW b \in BOOLEAN, NEW obj, obj = WithCode(old, b)
  PROVE  /\ obj \in Object /\ obj.bal = old.bal /\ obj.nonce = old.nonce /\ obj.code = b /\ obj.root = old.root
         /\ obj.origin = old.origin /\ obj.pending = old.pending /\ obj.dirty = old.dirty
         /\ obj.dirtyCode /\ obj.suicided = old.suicided /\ obj.deleted = old.deleted
         /\ ~old.deleted => /\ Plain(obj) = [Plain(old) EXCEPT !.code = b]
                            /\ Plain(WithCode(obj, old.code)) = Plain(old)
<1>1. /\ obj \in Object /\ obj.bal = old.bal /\ obj.nonce = old.nonce /\ obj.code = b /\ obj.root = old.root
      /\ obj.origin = old.origin /\ obj.pending = old.pending /\ obj.dirty = old.dirty
      /\ obj.dirtyCode /\ obj.suicided = old.suicided /\ obj.deleted = old.deleted
  BY DEF Object, WithCode
<1> DEFINE o2 == WithCode(obj, old.code)
<1>2. /\ o2 \in Object /\ o2.bal = old.bal /\ o2.nonce = old.nonce /\ o2.code = old.code /\ o2.root = old.root
      /\ o2.pending = old.pending /\ o2.dirty = old.dirty
      /\ o2.suicided = old.suicided /\ o2.deleted = old.deleted
  BY <1>1 DEF Object, WithCode
<1> HIDE DEF o2
<1>3. ASSUME ~old.deleted PROVE Plain(obj) = [Plain(old) EXCEPT !.code = b] /\ Plain(o2) = Plain(old)
  BY <1>1, <1>2, NilAssumption, <1>3, PlainType DEF Store
<1> QED BY <1>1, <1>3 DEF o2

\* The object that destructed itself.
LEMMA WithDeathObject ==
  ASSUME NEW old \in Object, NEW b \in BOOLEAN, NEW v \in 0 .. MaxBal, NEW obj, obj = WithDeath(old, b, v)
  PROVE  /\ obj \in Object /\ obj.nonce = old.nonce /\ obj.code = old.code /\ obj.root = old.root
         /\ obj.origin = old.origin /\ obj.pending = old.pending /\ obj.dirty = old.dirty
         /\ obj.dirtyCode = old.dirtyCode /\ obj.suicided = b /\ obj.deleted = old.deleted
         /\ WithDeath(obj, old.suicided, old.bal) = old
         /\ ~old.deleted => Plain(obj) = Died(Plain(old), b, v)
<1>1. /\ obj \in Object /\ obj.bal = v /\ obj.nonce = old.nonce /\ obj.code = old.code /\ obj.root = old.root
      /\ obj.origin = old.origin /\ obj.pending = old.pending /\ obj.dirty = old.dirty
      /\ obj.dirtyCode = old.dirtyCode /\ obj.suicided = b /\ obj.deleted = old.deleted
  BY DEF Object, WithDeath
<1>2. WithDeath(obj, old.suicided, old.bal) = old BY DEF Object, WithDeath
<1>3. ASSUME ~old.deleted PROVE Plain(obj) = Died(Plain(old), b, v)
  <2>1. old # None /\ obj # None /\ Store(obj) = Store(old) BY <1>1, NilAssumption DEF Store
  <2>2. Plain(old) = [bal |-> old.bal, nonce |-> old.nonce, code |-> old.code, store |-> Store(old),
                      dead |-> old.suicided] BY <1>3, <2>1, PlainType
  <2>3. Plain(obj) = [bal |-> v, nonce |-> old.nonce, code |-> old.code, store |-> Store(old), dead |-> b]
    BY <1>1, <1>3, <2>1, PlainType
  <2> DEFINE w == [Plain(old) EXCEPT !.bal = v]
  <2>4. w = [bal |-> v, nonce |-> old.nonce, code |-> old.code, store |-> Store(old), dead |-> old.suicided] BY <2>2
  <2> HIDE DEF w
  <2>5. [w EXCEPT !.dead = b] = [bal |-> v, nonce |-> old.nonce, code |-> old.code, store |-> Store(old), dead |-> b]
    BY <2>4
  <2> QED BY <2>3, <2>5 DEF w, Died
<1> QED BY <1>1, <1>2, <1>3

\* The object with a dirty slot.
LEMMA WithDirtyObject ==
  ASSUME NEW old \in Object, NEW k \in Slots, NEW w \in Words, NEW obj, obj = WithDirty(old, k, w)
  PROVE  /\ obj \in Object /\ obj.bal = old.bal /\ obj.nonce = old.nonce /\ obj.code = old.code /\ obj.root = old.root
         /\ obj.origin = old.origin /\ obj.pending = old.pending /\ obj.dirty = [old.dirty EXCEPT ![k] = w]
         /\ obj.dirtyCode = old.dirtyCode /\ obj.suicided = old.suicided /\ obj.deleted = old.deleted
         /\ ~old.deleted => /\ Plain(obj) = [Plain(old) EXCEPT !.store = [Store(old) EXCEPT ![k] = w]]
                            /\ Plain(WithDirty(obj, k, Store(old)[k])) = Plain(old)
<1>0. [old.dirty EXCEPT ![k] = w] \in [Slots -> Words \cup {Unset}] /\ old.dirty \in [Slots -> Words \cup {Unset}]
  BY DEF Object
<1>1. /\ obj \in Object /\ obj.bal = old.bal /\ obj.nonce = old.nonce /\ obj.code = old.code /\ obj.root = old.root
      /\ obj.origin = old.origin /\ obj.pending = old.pending /\ obj.dirty = [old.dirty EXCEPT ![k] = w]
      /\ obj.dirtyCode = old.dirtyCode /\ obj.suicided = old.suicided /\ obj.deleted = old.deleted
  BY <1>0 DEF Object, WithDirty
<1> DEFINE v == Store(old)[k]
           o2 == WithDirty(obj, k, v)
<1>w. Unset \notin Words /\ w # Unset BY WordsAssumption DEF Unset
<1>v. Store(old) = [i \in Slots |-> IF old.dirty[i] # Unset THEN old.dirty[i]
                     ELSE IF old.pending[i] # Unset THEN old.pending[i] ELSE old.root[i]] BY DEF Store
<1>2. v \in Words BY <1>v, <1>w DEF Object
<1> HIDE DEF v
<1>3. [obj.dirty EXCEPT ![k] = v] \in [Slots -> Words \cup {Unset}] BY <1>0, <1>1, <1>2
<1>4. /\ o2 \in Object /\ o2.bal = old.bal /\ o2.nonce = old.nonce /\ o2.code = old.code /\ o2.root = old.root
      /\ o2.pending = old.pending /\ o2.dirty = [obj.dirty EXCEPT ![k] = v]
      /\ o2.suicided = old.suicided /\ o2.deleted = old.deleted
  BY <1>1, <1>3 DEF Object, WithDirty
<1> HIDE DEF o2
<1>5. Store(obj) = [Store(old) EXCEPT ![k] = w]
  BY <1>1, <1>0, <1>v, <1>w DEF Store
<1>6. Store(o2) = Store(old)
  <2>1. Store(o2) = [i \in Slots |-> IF o2.dirty[i] # Unset THEN o2.dirty[i]
                       ELSE IF old.pending[i] # Unset THEN old.pending[i] ELSE old.root[i]] BY <1>4 DEF Store
  <2>2. \A i \in Slots : o2.dirty[i] = IF i = k THEN v ELSE old.dirty[i] BY <1>0, <1>1, <1>4
  <2>3. ASSUME NEW i \in Slots PROVE Store(o2)[i] = Store(old)[i] BY <2>1, <2>2, <1>v, <1>w, <1>2 DEF v
  <2> QED BY <2>1, <2>3, <1>v
<1>7. ASSUME ~old.deleted
      PROVE  Plain(obj) = [Plain(old) EXCEPT !.store = [Store(old) EXCEPT ![k] = w]] /\ Plain(o2) = Plain(old)
  <2>1. old # None /\ obj # None /\ o2 # None BY <1>1, <1>4, NilAssumption
  <2>2. Plain(old) = [bal |-> old.bal, nonce |-> old.nonce, code |-> old.code, store |-> Store(old),
                      dead |-> old.suicided] BY <1>7, <2>1, PlainType
  <2>3. Plain(obj) = [bal |-> old.bal, nonce |-> old.nonce, code |-> old.code, store |-> Store(obj), dead |-> old.suicided]
    BY <1>1, <1>7, <2>1, PlainType
  <2>4. Plain(o2) = [bal |-> old.bal, nonce |-> old.nonce, code |-> old.code, store |-> Store(o2),
                      dead |-> old.suicided] BY <1>4, <1>7, <2>1, PlainType
  <2> DEFINE S == [Store(old) EXCEPT ![k] = w]
  <2>5. Store(obj) = S BY <1>5
  <2> HIDE DEF S
  <2>6. Plain(obj) = [Plain(old) EXCEPT !.store = S] BY <2>2, <2>3, <2>5
  <2> QED BY <2>2, <2>4, <2>6, <1>6 DEF S
<1> QED BY <1>1, <1>7 DEF o2, v

\* SetNonce.
LEMMA NonceStep ==
  ASSUME NEW s \in Parts, NEW a \in Addrs, IsLive(s.o, a), NEW v \in 0 .. MaxNonce
  PROVE  \E e, obj : /\ WriteStep(s, JSetNonce(s, a, v), e, obj) /\ e.addr = a
                     /\ Plain(obj) = [Plain(s.o[a]) EXCEPT !.nonce = v]
<1> DEFINE old == s.o[a]
           u == Journal(s, "nonce", a, old.nonce)
           e == Made("nonce", a, old.nonce)
           obj == WithNonce(old, v)
           t == [o |-> [s.o EXCEPT ![a] = obj], j |-> u.j, d |-> u.d, x |-> s.x]
<1>1. s.o \in [Addrs -> Object \cup {None}] /\ old \in Object /\ ~old.deleted BY LiveObject
<1>2. e \in Entries /\ e.op = "nonce" /\ e.prev = old.nonce /\ e.addr = a
  BY <1>1 DEF Object, Entry, Made, Entries
<1>3. /\ obj \in Object /\ obj.bal = old.bal /\ obj.code = old.code /\ obj.root = old.root
      /\ obj.origin = old.origin /\ obj.pending = old.pending /\ obj.dirty = old.dirty
      /\ obj.dirtyCode = old.dirtyCode /\ obj.suicided = old.suicided /\ obj.deleted = old.deleted
      /\ WithNonce(obj, old.nonce) = old
      /\ Plain(obj) = [Plain(old) EXCEPT !.nonce = v]
  BY <1>1, WithNonceObject
<1>4. Restored(obj, e) = old BY <1>2, <1>3 DEF Restored, WithNonce
<1>5. Appended(s, u, e) BY <1>2, JournalParts
<1> HIDE DEF u, e
<1>6. JSetNonce(s, a, v) = t
  <2>1. [u EXCEPT !.o[a].nonce = v] = [o |-> [s.o EXCEPT ![a] = [old EXCEPT !.nonce = v]], j |-> u.j, d |-> u.d, x |-> s.x]
    <3>1. u = [o |-> s.o, j |-> u.j, d |-> u.d, x |-> s.x] BY <1>5 DEF Appended
    <3> QED BY <1>1, <3>1
  <2> QED BY <2>1 DEF u, JSetNonce, WithNonce
<1> HIDE DEF obj
<1>7. Becomes(old, obj, e) BY <1>1, <1>2, <1>3, <1>4 DEF Becomes
<1>8. WriteStep(s, t, e, obj)
  BY <1>2, <1>5, <1>7, WriteBy DEF Writes, Writing
<1> QED BY <1>2, <1>3, <1>6, <1>8

\* SetCode.
LEMMA CodeStep ==
  ASSUME NEW s \in Parts, NEW a \in Addrs, IsLive(s.o, a), ~s.o[a].code
  PROVE  \E e, obj : /\ WriteStep(s, JSetCode(s, a), e, obj) /\ e.addr = a
                     /\ Plain(obj) = [Plain(s.o[a]) EXCEPT !.code = TRUE]
<1> DEFINE old == s.o[a]
           u == Journal(s, "code", a, old.code)
           e == Made("code", a, old.code)
           obj == WithCode(old, TRUE)
           t == [o |-> [s.o EXCEPT ![a] = obj], j |-> u.j, d |-> u.d, x |-> s.x]
<1>1. s.o \in [Addrs -> Object \cup {None}] /\ old \in Object /\ ~old.deleted BY LiveObject
<1>2. e \in Entries /\ e.op = "code" /\ e.prev = old.code /\ e.addr = a
  BY <1>1 DEF Object, Entry, Made, Entries
<1>3. /\ obj \in Object /\ obj.bal = old.bal /\ obj.nonce = old.nonce /\ obj.code = TRUE /\ obj.root = old.root
      /\ obj.origin = old.origin /\ obj.pending = old.pending /\ obj.dirty = old.dirty
      /\ obj.dirtyCode /\ obj.suicided = old.suicided /\ obj.deleted = old.deleted
      /\ Plain(obj) = [Plain(old) EXCEPT !.code = TRUE]
      /\ Plain(WithCode(obj, old.code)) = Plain(old)
  <2> DEFINE b == TRUE
             w == WithCode(old, b)
  <2>1. b \in BOOLEAN /\ w = WithCode(old, b) /\ old \in Object BY <1>1
  <2> HIDE DEF old, b, w
  <2>2. /\ w \in Object /\ w.bal = old.bal /\ w.nonce = old.nonce /\ w.code = b /\ w.root = old.root
        /\ w.origin = old.origin /\ w.pending = old.pending /\ w.dirty = old.dirty
        /\ w.dirtyCode /\ w.suicided = old.suicided /\ w.deleted = old.deleted
        /\ ~old.deleted => /\ Plain(w) = [Plain(old) EXCEPT !.code = b]
                           /\ Plain(WithCode(w, old.code)) = Plain(old)
    BY <2>1, WithCodeObject
  <2> QED BY <1>1, <2>2 DEF b, w, old
<1>4. Restored(obj, e) = WithCode(obj, old.code) BY <1>2 DEF Restored, WithCode
<1>5. Appended(s, u, e) BY <1>2, JournalParts
<1> HIDE DEF u, e
<1>6. JSetCode(s, a) = t
  <2> DEFINE q == [u EXCEPT !.o[a].code = TRUE]
             m == [old EXCEPT !.code = TRUE]
             om == [s.o EXCEPT ![a] = m]
  <2>0. u = [o |-> s.o, j |-> u.j, d |-> u.d, x |-> s.x] BY <1>5 DEF Appended
  <2>1. q = [o |-> om, j |-> u.j, d |-> u.d, x |-> s.x]
    <3> DEFINE n == [u.o EXCEPT ![a] = [u.o[a] EXCEPT !.code = TRUE]]
    <3>1. q = [u EXCEPT !.o = n] OBVIOUS
    <3>2. u.o = s.o BY <2>0
    <3>3. n = om BY <3>2
    <3> HIDE DEF n, q, om
    <3>4. [u EXCEPT !.o = n] = [o |-> n, j |-> u.j, d |-> u.d, x |-> s.x] BY <2>0
    <3> QED BY <3>1, <3>3, <3>4
  <2>2. om[a] = m /\ om \in [Addrs -> Object \cup {None}] BY <1>1 DEF Object
  <2>3. [om EXCEPT ![a] = [m EXCEPT !.dirtyCode = TRUE]] = [s.o EXCEPT ![a] = [m EXCEPT !.dirtyCode = TRUE]] BY <1>1
  <2>4. [m EXCEPT !.dirtyCode = TRUE] = [old EXCEPT !.code = TRUE, !.dirtyCode = TRUE] BY <1>1 DEF Object
  <2> HIDE DEF q, om
  <2>5. [q EXCEPT !.o[a].dirtyCode = TRUE]
          = [o |-> [om EXCEPT ![a] = [om[a] EXCEPT !.dirtyCode = TRUE]], j |-> u.j, d |-> u.d, x |-> s.x]
    <3> DEFINE n == [q.o EXCEPT ![a] = [q.o[a] EXCEPT !.dirtyCode = TRUE]]
    <3>1. [q EXCEPT !.o[a].dirtyCode = TRUE] = [q EXCEPT !.o = n] OBVIOUS
    <3>2. q.o = om BY <2>1
    <3>3. n = [om EXCEPT ![a] = [om[a] EXCEPT !.dirtyCode = TRUE]] BY <3>2
    <3> HIDE DEF n
    <3>4. [q EXCEPT !.o = n] = [o |-> n, j |-> u.j, d |-> u.d, x |-> s.x] BY <2>1
    <3> QED BY <3>1, <3>3, <3>4
  <2>6. JSetCode(s, a) = [q EXCEPT !.o[a].dirtyCode = TRUE] BY DEF JSetCode, q, u
  <2> QED BY <2>2, <2>3, <2>4, <2>5, <2>6 DEF WithCode
<1> HIDE DEF obj
<1>7. Becomes(old, obj, e) BY <1>1, <1>2, <1>3, <1>4 DEF Becomes
<1>8. WriteStep(s, t, e, obj)
  BY <1>2, <1>5, <1>7, WriteBy DEF Writes, Writing
<1> QED BY <1>2, <1>3, <1>6, <1>8

\* Suicide.
LEMMA SuicideStep ==
  ASSUME NEW s \in Parts, NEW a \in Addrs, IsLive(s.o, a)
  PROVE  \E e, obj : /\ WriteStep(s, JSuicide(s, a), e, obj) /\ e.addr = a
                     /\ Plain(obj) = Died(Plain(s.o[a]), TRUE, 0)
<1> DEFINE old == s.o[a]
           prev == <<old.suicided, old.bal>>
           u == Journal(s, "suicide", a, prev)
           e == Made("suicide", a, prev)
           obj == WithDeath(old, TRUE, 0)
           t == [o |-> [s.o EXCEPT ![a] = obj], j |-> u.j, d |-> u.d, x |-> s.x]
<1>1. s.o \in [Addrs -> Object \cup {None}] /\ old \in Object /\ ~old.deleted BY LiveObject
<1>2. e \in Entries /\ e.op = "suicide" /\ e.prev = prev /\ e.addr = a
  <2>1. prev \in BOOLEAN \X (0 .. MaxBal) BY <1>1 DEF Object
  <2> HIDE DEF prev
  <2>2. e \in Entry("suicide", BOOLEAN \X (0 .. MaxBal)) BY <2>1 DEF Entry, Made
  <2> QED BY <2>2 DEF Entries, Made
<1>3. /\ obj \in Object /\ obj.nonce = old.nonce /\ obj.code = old.code /\ obj.root = old.root
      /\ obj.origin = old.origin /\ obj.pending = old.pending /\ obj.dirty = old.dirty
      /\ obj.dirtyCode = old.dirtyCode /\ obj.suicided = TRUE /\ obj.deleted = old.deleted
      /\ WithDeath(obj, old.suicided, old.bal) = old
      /\ Plain(obj) = Died(Plain(old), TRUE, 0)
  <2> DEFINE b == TRUE
             w == WithDeath(old, b, 0)
  <2>1. b \in BOOLEAN /\ w = WithDeath(old, b, 0) /\ old \in Object /\ 0 \in 0 .. MaxBal BY <1>1, BoundsAssumption
  <2> HIDE DEF old, b, w
  <2>2. /\ w \in Object /\ w.nonce = old.nonce /\ w.code = old.code /\ w.root = old.root
        /\ w.origin = old.origin /\ w.pending = old.pending /\ w.dirty = old.dirty
        /\ w.dirtyCode = old.dirtyCode /\ w.suicided = b /\ w.deleted = old.deleted
        /\ WithDeath(w, old.suicided, old.bal) = old
        /\ ~old.deleted => Plain(w) = Died(Plain(old), b, 0)
    BY <2>1, WithDeathObject
  <2> QED BY <1>1, <2>2 DEF b, w, old
<1>4. Restored(obj, e) = old
  <2>1. e.prev[1] = old.suicided /\ e.prev[2] = old.bal BY <1>2
  <2>2. Restored(obj, e) = [obj EXCEPT !.suicided = e.prev[1], !.bal = e.prev[2]] BY <1>2 DEF Restored
  <2> QED BY <2>1, <2>2, <1>3 DEF WithDeath
<1>5. Appended(s, u, e) BY <1>2, JournalParts
<1> HIDE DEF u, e, prev
<1>6. JSuicide(s, a) = t
  <2> DEFINE q == [u EXCEPT !.o[a].suicided = TRUE]
             m == [old EXCEPT !.suicided = TRUE]
             om == [s.o EXCEPT ![a] = m]
  <2>0. u = [o |-> s.o, j |-> u.j, d |-> u.d, x |-> s.x] BY <1>5 DEF Appended
  <2>1. q = [o |-> om, j |-> u.j, d |-> u.d, x |-> s.x]
    <3> DEFINE n == [u.o EXCEPT ![a] = [u.o[a] EXCEPT !.suicided = TRUE]]
    <3>1. q = [u EXCEPT !.o = n] OBVIOUS
    <3>2. u.o = s.o BY <2>0
    <3>3. n = om BY <3>2
    <3> HIDE DEF n, q, om
    <3>4. [u EXCEPT !.o = n] = [o |-> n, j |-> u.j, d |-> u.d, x |-> s.x] BY <2>0
    <3> QED BY <3>1, <3>3, <3>4
  <2>2. om[a] = m /\ om \in [Addrs -> Object \cup {None}] BY <1>1 DEF Object
  <2>3. [om EXCEPT ![a] = [m EXCEPT !.bal = 0]] = [s.o EXCEPT ![a] = [m EXCEPT !.bal = 0]] BY <1>1
  <2>4. [m EXCEPT !.bal = 0] = [old EXCEPT !.suicided = TRUE, !.bal = 0] BY <1>1 DEF Object
  <2> HIDE DEF q, om
  <2>5. [q EXCEPT !.o[a].bal = 0]
          = [o |-> [om EXCEPT ![a] = [om[a] EXCEPT !.bal = 0]], j |-> u.j, d |-> u.d, x |-> s.x]
    <3> DEFINE n == [q.o EXCEPT ![a] = [q.o[a] EXCEPT !.bal = 0]]
    <3>1. [q EXCEPT !.o[a].bal = 0] = [q EXCEPT !.o = n] OBVIOUS
    <3>2. q.o = om BY <2>1
    <3>3. n = [om EXCEPT ![a] = [om[a] EXCEPT !.bal = 0]] BY <3>2
    <3> HIDE DEF n
    <3>4. [q EXCEPT !.o = n] = [o |-> n, j |-> u.j, d |-> u.d, x |-> s.x] BY <2>1
    <3> QED BY <3>1, <3>3, <3>4
  <2>6. JSuicide(s, a) = [q EXCEPT !.o[a].bal = 0] BY DEF JSuicide, q, u, prev
  <2> QED BY <2>2, <2>3, <2>4, <2>5, <2>6 DEF WithDeath
<1> HIDE DEF obj
<1>7. Becomes(old, obj, e) BY <1>1, <1>2, <1>3, <1>4 DEF Becomes
<1>8. WriteStep(s, t, e, obj)
  BY <1>2, <1>5, <1>7, WriteBy DEF Writes, Writing
<1> QED BY <1>2, <1>3, <1>6, <1>8

\* touch.
LEMMA TouchStep ==
  ASSUME NEW s \in Parts, NEW a \in Addrs, IsLive(s.o, a)
  PROVE  \E e, obj : /\ WriteStep(s, Touch(s, a), e, obj) /\ e.addr = a
                     /\ Plain(obj) = Plain(s.o[a])
<1> DEFINE old == s.o[a]
           u == Journal(s, "touch", a, None)
           e == Made("touch", a, None)
           t == Touch(s, a)
<1>1. s.o \in [Addrs -> Object \cup {None}] /\ old \in Object /\ ~old.deleted /\ s.x \in SUBSET Addrs BY LiveObject
<1>2. e \in Entries /\ e.op = "touch" /\ e.addr = a
  BY DEF Entry, Made, Entries
<1>3. Appended(s, u, e) BY <1>2, JournalParts
<1> HIDE DEF u, e
<1>4. /\ u = [o |-> s.o, j |-> u.j, d |-> u.d, x |-> s.x] /\ u.d \in [Addrs -> Nat]
      /\ u.j = Append(s.j, e) /\ u.j \in Seq(Entries)
      /\ \A b \in Addrs : u.d[b] = s.d[b] + IF b \in Dirtied(e) THEN 1 ELSE 0
  BY <1>3 DEF Appended
<1>5. /\ t = [o |-> s.o, j |-> u.j, d |-> t.d, x |-> s.x] /\ t.d \in [Addrs -> Nat]
      /\ \A b \in Addrs : t.d[b] = u.d[b] + IF b = a /\ a = Ripemd THEN 1 ELSE 0
  <2>1. CASE a = Ripemd
    <3> DEFINE n == [u.d EXCEPT ![a] = u.d[a] + 1]
    <3>1. t = [u EXCEPT !.d = n] BY <2>1 DEF Touch, u
    <3>2. n \in [Addrs -> Nat] /\ \A b \in Addrs : n[b] = u.d[b] + IF b = a THEN 1 ELSE 0 BY <1>4
    <3> HIDE DEF n, t
    <3>3. [u EXCEPT !.d = n] = [o |-> s.o, j |-> u.j, d |-> n, x |-> s.x]
      <4>1. u = [o |-> s.o, j |-> u.j, d |-> u.d, x |-> s.x] BY <1>4
      <4> QED BY <4>1
    <3>4. t = [o |-> s.o, j |-> u.j, d |-> n, x |-> s.x] BY <3>1, <3>3
    <3>5. t.d = n BY <3>4
    <3> QED BY <2>1, <3>2, <3>4, <3>5
  <2>2. CASE a # Ripemd
    <3>1. t = u BY <2>2 DEF Touch, u
    <3> HIDE DEF t
    <3>2. \A b \in Addrs : u.d[b] = u.d[b] + 0 BY <1>4
    <3> QED BY <2>2, <3>1, <3>2, <1>4
  <2> QED BY <2>1, <2>2
<1> HIDE DEF t
<1>6. t.o = s.o /\ t.j = u.j /\ t.x = s.x BY <1>5
<1>7. [s.o EXCEPT ![a] = old] = s.o BY <1>1
<1>8. Raised(s.d, t.d, e)
  <2> SUFFICES ASSUME NEW b \in Addrs
               PROVE  LET n == IF b \in Dirtied(e) THEN 1 ELSE 0
                      IN /\ t.d[b] >= s.d[b] + n /\ (b # Ripemd => t.d[b] = s.d[b] + n)
                         /\ b = Ripemd /\ e.addr = b /\ e.op = "touch" => t.d[b] > s.d[b] + n
    BY DEF Raised
  <2>1. s.d[b] \in Nat /\ t.d[b] \in Nat BY <1>5 DEF Parts
  <2> QED BY <2>1, <1>2, <1>4, <1>5
<1>9. Wrote(s, t, e, old)
  <2>1. t \in Parts
    <3>1. t = [o |-> s.o, j |-> u.j, d |-> t.d, x |-> s.x] /\ t.d \in [Addrs -> Nat] /\ u.j \in Seq(Entries)
      BY <1>4, <1>5
    <3>2. s.o \in [Addrs -> Object \cup {None}] /\ s.x \in SUBSET Addrs BY <1>1
    <3> DEFINE D == t.d
               J == u.j
    <3>3. t = [o |-> s.o, j |-> J, d |-> D, x |-> s.x] /\ D \in [Addrs -> Nat] /\ J \in Seq(Entries) BY <3>1
    <3> HIDE DEF D, J
    <3> QED BY <3>2, <3>3 DEF Parts
  <2> QED BY <2>1, <1>2, <1>4, <1>6, <1>7, <1>8 DEF Wrote
<1>10. WriteStep(s, t, e, old)
  BY <1>2, <1>1, <1>6, <1>9 DEF Restored, WriteStep, Writes
<1> QED BY <1>2, <1>10 DEF t

\* createObject over an object that is gone or was deleted, or has neither code nor storage.
Vacant(old) ==
  old = None \/ old.deleted
    \/ (~old.code /\ old.root = Zeros /\ old.pending = NoWrites /\ old.dirty = NoWrites)

\* createObject journals what it replaces.
LEMMA CreateStep ==
  ASSUME NEW c, c.snap = useSnap, NEW s \in Parts, NEW a \in Addrs, Vacant(s.o[a])
  PROVE  \E e : /\ MakeStep(c, s, CreateObject(s, a), e) /\ e.addr = a
                /\ s.o[a] # None => e.op = "reset"
<1> DEFINE old == s.o[a]
           t == CreateObject(s, a)
<1>1. s.o \in [Addrs -> Object \cup {None}] /\ s.x \in SUBSET Addrs BY DEF Parts
<1>2. NewObject \in Object BY NewIsObject
<1>3. CASE old = None
  <2> DEFINE u == Journal(s, "create", a, None)
             e == Made("create", a, None)
  <2>1. e \in Entries /\ e.op = "create" /\ e.addr = a
    BY DEF Entry, Made, Entries
  <2>2. Appended(s, u, e) BY <2>1, JournalParts
  <2> HIDE DEF u, e
  <2>3. t = [o |-> [s.o EXCEPT ![a] = NewObject], j |-> u.j, d |-> u.d, x |-> s.x]
    <3>1. u = [o |-> s.o, j |-> u.j, d |-> u.d, x |-> s.x] BY <2>2 DEF Appended
    <3>2. t = [u EXCEPT !.o[a] = NewObject] BY <1>3 DEF CreateObject, u
    <3> HIDE DEF t
    <3> QED BY <3>1, <3>2
  <2> HIDE DEF t
  <2>4. Wrote(s, t, e, NewObject) BY <1>1, <1>2, <2>1, <2>2, <2>3, WroteBy
  <2>5. MakeStep(c, s, t, e) BY <1>3, <2>1, <2>3, <2>4 DEF MakeStep
  <2> QED BY <1>3, <2>1, <2>5 DEF t
<1>4. CASE old # None
  <2> DEFINE prev == [obj |-> old, destruct |-> a \in s.x]
             u == Journal(s, "reset", a, prev)
             e == Made("reset", a, prev)
             xs == IF useSnap THEN s.x \cup {a} ELSE s.x
  <2>1. e \in Entries /\ e.op = "reset" /\ e.addr = a /\ e.prev = prev
    <3>1. prev \in Replaced BY <1>1, <1>4 DEF Replaced
    <3> HIDE DEF prev
    <3>2. e \in Entry("reset", Replaced) BY <3>1 DEF Entry, Made
    <3> QED BY <3>2 DEF Entries, Made
  <2>2. Appended(s, u, e) BY <2>1, JournalParts
  <2>3. xs \in SUBSET Addrs BY <1>1
  <2> HIDE DEF u, e
  <2>4. t = [o |-> [s.o EXCEPT ![a] = NewObject], j |-> u.j, d |-> u.d, x |-> xs]
    <3> DEFINE q == [u EXCEPT !.o[a] = NewObject]
    <3>1. u = [o |-> s.o, j |-> u.j, d |-> u.d, x |-> s.x] BY <2>2 DEF Appended
    <3>2. t = [q EXCEPT !.x = IF useSnap THEN q.x \cup {a} ELSE q.x] BY <1>4 DEF CreateObject, u
    <3>3. q = [o |-> [s.o EXCEPT ![a] = NewObject], j |-> u.j, d |-> u.d, x |-> s.x] BY <3>1
    <3> HIDE DEF t, q
    <3>4. q.x = s.x BY <3>3
    <3>5. t = [q EXCEPT !.x = xs] BY <3>2, <3>4
    <3> HIDE DEF xs
    <3> QED BY <3>3, <3>5
  <2> HIDE DEF t, xs
  <2>5. Wrote(s, t, e, NewObject) BY <1>1, <1>2, <2>1, <2>2, <2>3, <2>4, WroteBy
  <2>6. t.x = IF c.snap THEN s.x \cup {a} ELSE s.x BY <2>4 DEF xs
  <2>7. MakeStep(c, s, t, e) BY <1>4, <2>1, <2>5, <2>6 DEF MakeStep, Vacant
  <2> QED BY <2>1, <2>7 DEF t
<1> QED BY <1>3, <1>4

\* The context is the one of the StateDB.
LEMMA CtxFields ==
  /\ Ctx.snap = useSnap /\ Ctx.base = base /\ Ctx.trie = trie /\ Ctx.flat = flat /\ Ctx.codes = codes
  /\ Ctx.pending = pending /\ Ctx.dirty = dirty /\ Ctx.acc = snapAcc /\ Ctx.sto = snapSto
  BY DEF Ctx

\* What GetCommittedState finds is what the trie has, and GetState what the EVM wrote.
LEMMA SlotRead ==
  ASSUME NEW s, Sound(Ctx, s), NEW a \in Addrs, IsLive(s.o, a), NEW k \in Slots
  PROVE  LET old == s.o[a]
         IN /\ Committed(old, a, k, s.x) \in Words /\ GetState(old, a, k, s.x) \in Words
            /\ EIP158 => /\ old.pending[k] = Unset => Committed(old, a, k, s.x) = old.root[k]
                         /\ GetState(old, a, k, s.x) = Store(old)[k]
<1> DEFINE old == s.o[a]
           com == Committed(old, a, k, s.x)
<1>1. s \in Parts /\ Ctx \in Contexts BY DEF Sound
<1>2. old \in Object /\ old # None /\ ~old.deleted BY <1>1, LiveObject
<1>3. /\ old.origin[k] \in Words \cup {Unset} /\ old.pending[k] \in Words \cup {Unset}
      /\ old.dirty[k] \in Words \cup {Unset} /\ old.root[k] \in Words
  BY <1>2 DEF Object
<1>4. flat[a].slots[k] \in Words /\ 0 \in Words
  BY <1>1, CtxFields, WordsAssumption DEF Contexts
<1>5. ASSUME EIP158
      PROVE  /\ old.origin[k] # Unset => old.origin[k] = old.root[k]
             /\ useSnap /\ old.origin[k] = Unset => old.root[k] = IF a \in s.x THEN 0 ELSE flat[a].slots[k]
  BY <1>2, <1>5, CtxFields DEF Sound, Saned, Sane
<1> HIDE DEF old
<1>6. com \in Words BY <1>3, <1>4 DEF Committed
<1>7. EIP158 /\ old.pending[k] = Unset => com = old.root[k] BY <1>3, <1>5 DEF Committed
<1>8. GetState(old, a, k, s.x) = IF old.dirty[k] # Unset THEN old.dirty[k] ELSE com BY DEF GetState
<1>9. old.pending[k] # Unset => com = old.pending[k] BY DEF Committed
<1>10. Store(old)[k] = IF old.dirty[k] # Unset THEN old.dirty[k]
                       ELSE IF old.pending[k] # Unset THEN old.pending[k] ELSE old.root[k] BY DEF Store
<1> HIDE DEF com
<1>11. GetState(old, a, k, s.x) \in Words BY <1>3, <1>6, <1>8
<1>12. EIP158 => GetState(old, a, k, s.x) = Store(old)[k] BY <1>7, <1>8, <1>9, <1>10
<1> QED BY <1>6, <1>7, <1>11, <1>12 DEF com, old

\* What GetState caches.
LEMMA ReadObject ==
  ASSUME NEW s, Sound(Ctx, s), NEW a \in Addrs, IsLive(s.o, a), NEW k \in Slots
  PROVE  LET old == s.o[a]
             obj == Read(old, a, k, s.x)
         IN /\ obj \in Object /\ ~obj.deleted
            /\ obj.root = old.root /\ obj.pending = old.pending /\ obj.dirty = old.dirty
            /\ obj.code = old.code /\ obj.dirtyCode = old.dirtyCode
            /\ EIP158 => /\ \A i \in Slots : obj.origin[i] = old.origin[i] \/ obj.origin[i] = obj.root[i]
                         /\ Plain(obj) = Plain(old) /\ Known(obj, k)
<1> DEFINE old == s.o[a]
           obj == Read(old, a, k, s.x)
           com == Committed(old, a, k, s.x)
           Hit == \/ old.dirty[k] # Unset \/ old.pending[k] # Unset
                  \/ useSnap /\ old.origin[k] = Unset /\ a \in s.x
<1>1. s \in Parts /\ Ctx \in Contexts BY DEF Sound
<1>2. old \in Object /\ old # None /\ ~old.deleted BY <1>1, LiveObject
<1>3. /\ com \in Words /\ Unset \notin Words
      /\ EIP158 => (old.pending[k] = Unset => com = old.root[k])
  BY SlotRead, WordsAssumption DEF Unset
<1>4. ASSUME EIP158
      PROVE  /\ old.pending[k] # Unset \/ old.dirty[k] # Unset => Known(old, k)
             /\ useSnap /\ old.origin[k] = Unset /\ a \in s.x => old.root[k] = 0
  BY <1>2, <1>4, CtxFields DEF Sound, Saned, Sane
<1> HIDE DEF old, com
<1>5. CASE Hit
  <2>1. obj = old BY <1>5 DEF Read
  <2>2. EIP158 => Known(old, k) BY <1>4, <1>5 DEF Known
  <2> HIDE DEF obj
  <2> QED BY <2>1, <2>2, <1>2 DEF obj, old
<1>6. CASE ~Hit
  <2> DEFINE org == [old.origin EXCEPT ![k] = com]
  <2>1. obj = [old EXCEPT !.origin = org] BY <1>6 DEF Read, com
  <2>2. /\ org \in [Slots -> Words \cup {Unset}] /\ org[k] = com
        /\ \A i \in Slots : i # k => org[i] = old.origin[i]
    BY <1>2, <1>3 DEF Object
  <2> HIDE DEF obj, org
  <2>3. /\ obj \in Object /\ ~obj.deleted /\ obj.bal = old.bal /\ obj.nonce = old.nonce /\ obj.suicided = old.suicided
        /\ obj.root = old.root /\ obj.pending = old.pending /\ obj.dirty = old.dirty
        /\ obj.code = old.code /\ obj.dirtyCode = old.dirtyCode /\ obj.origin = org
    BY <1>2, <2>1, <2>2 DEF Object
  <2>4. Plain(obj) = Plain(old)
    BY <2>3, NilAssumption, <1>2 DEF Store, Plain
  <2>5. EIP158 => (\A i \in Slots : obj.origin[i] = old.origin[i] \/ obj.origin[i] = obj.root[i])
    BY <2>2, <2>3, <1>3, <1>6
  <2>6. Known(obj, k) BY <2>2, <2>3, <1>3 DEF Known
  <2> QED BY <2>3, <2>4, <2>5, <2>6 DEF obj, old
<1> QED BY <1>5, <1>6

\* A read is a step that only caches.
LEMMA ReadStep ==
  ASSUME NEW s, Sound(Ctx, s), NEW a \in Addrs, IsLive(s.o, a), NEW k \in Slots
  PROVE  LET obj == Read(s.o[a], a, k, s.x)
         IN CacheStep(s, [s EXCEPT !.o[a] = obj], a, obj)
<1> DEFINE old == s.o[a]
           obj == Read(old, a, k, s.x)
<1>1. s \in Parts BY DEF Sound
<1>2. /\ obj \in Object /\ ~obj.deleted
      /\ obj.root = old.root /\ obj.pending = old.pending /\ obj.dirty = old.dirty
      /\ obj.code = old.code /\ obj.dirtyCode = old.dirtyCode
      /\ EIP158 => \A i \in Slots : obj.origin[i] = old.origin[i] \/ obj.origin[i] = obj.root[i]
  BY ReadObject
<1>3. [s EXCEPT !.o[a] = obj] = [s EXCEPT !.o = [s.o EXCEPT ![a] = obj]] OBVIOUS
<1> HIDE DEF obj
<1>4. CacheStep(s, [s EXCEPT !.o[a] = obj], a, obj) BY <1>1, <1>2, <1>3 DEF CacheStep
<1> QED BY <1>4 DEF obj

\* A StateDB that operations on one address have led to, from another whose history is known.
Reaches(g0, s0, s, a) == s0 \in Parts /\ \E h : Advance(Ctx, g0, s0, h, s, a)

\* It is sound.
LEMMA ReachesSound ==
  ASSUME NEW g0, NEW s0, NEW s, NEW a, Reaches(g0, s0, s, a)
  PROVE  Sound(Ctx, s) /\ s \in Parts BY DEF Reaches, Advance, Sound

\* The last entry dirties the address.
Dirtying(s, a) == Len(s.j) > 0 /\ a \in Dirtied(s.j[Len(s.j)])

\* A journalled write leads on.
LEMMA WriteOp ==
  ASSUME NEW g0, NEW s0, NEW s, NEW a, Reaches(g0, s0, s, a), NEW t, NEW e, NEW obj,
         WriteStep(s, t, e, obj), e.addr = a
  PROVE  Reaches(g0, s0, t, a) /\ t.o[a] = obj /\ IsLive(t.o, a) /\ Dirtying(t, a)
<1>1. PICK h : Advance(Ctx, g0, s0, h, s, a) BY DEF Reaches
<1>2. s0 \in Parts BY DEF Reaches
<1>3. Advance(Ctx, g0, s0, h, s, e.addr) BY <1>1
<1>4. \E i : Advance(Ctx, g0, s0, i, t, e.addr) BY <1>2, <1>3, AdvanceWrite
<1>5. Reaches(g0, s0, t, a) BY <1>2, <1>4 DEF Reaches
<1>6. Wrote(s, t, e, obj) /\ obj \in Object /\ ~obj.deleted BY DEF WriteStep
<1>7. t.o[a] = obj /\ Len(s.j) \in Nat /\ Len(t.j) = Len(s.j) + 1 /\ t.j[Len(t.j)] = e BY <1>6, WroteFacts
<1>8. a \in Dirtied(e) BY DEF WriteStep, Writes, Dirtied
<1> QED BY <1>5, <1>6, <1>7, <1>8, NilAssumption DEF IsLive, Dirtying

\* So does a write that no entry remembers.
LEMMA CacheOp ==
  ASSUME NEW g0, NEW s0, NEW s, NEW a, Reaches(g0, s0, s, a), NEW t, NEW obj,
         CacheStep(s, t, a, obj),
         EIP158 => \/ Plain(obj) = Plain(s.o[a])
                   \/ Len(s.j) > Len(s0.j) /\ s.j[Len(s.j)].op = "reset"
  PROVE  Reaches(g0, s0, t, a) /\ t.o[a] = obj /\ IsLive(t.o, a) /\ t.j = s.j /\ t.x = s.x
<1>1. PICK h : Advance(Ctx, g0, s0, h, s, a) BY DEF Reaches
<1>2. s0 \in Parts BY DEF Reaches
<1>3. \E i : Advance(Ctx, g0, s0, i, t, a) BY <1>1, <1>2, AdvanceCache
<1>4. Reaches(g0, s0, t, a) BY <1>2, <1>3 DEF Reaches
<1>5. /\ s \in Parts /\ t = [s EXCEPT !.o = [s.o EXCEPT ![a] = obj]] /\ a \in Addrs
      /\ obj \in Object /\ ~obj.deleted
  BY DEF CacheStep
<1>6. t.o[a] = obj /\ t.j = s.j /\ t.x = s.x BY <1>5 DEF Parts
<1> QED BY <1>4, <1>5, <1>6, NilAssumption DEF IsLive

\* SetBalance.
LEMMA BalanceOp ==
  ASSUME NEW g0, NEW s0, NEW s, NEW a \in Addrs, Reaches(g0, s0, s, a), IsLive(s.o, a), NEW v \in 0 .. MaxBal
  PROVE  LET t == JSetBalance(s, a, v)
         IN /\ Reaches(g0, s0, t, a) /\ IsLive(t.o, a) /\ Dirtying(t, a)
            /\ Plain(t.o[a]) = [Plain(s.o[a]) EXCEPT !.bal = v]
<1>1. s \in Parts BY ReachesSound
<1> DEFINE t == JSetBalance(s, a, v)
           p == [Plain(s.o[a]) EXCEPT !.bal = v]
<1>2. \E e, obj : WriteStep(s, t, e, obj) /\ e.addr = a /\ Plain(obj) = p BY <1>1, BalanceStep
<1> HIDE DEF t, p
<1>3. PICK e, obj : WriteStep(s, t, e, obj) /\ e.addr = a /\ Plain(obj) = p BY <1>2
<1>4. Reaches(g0, s0, t, a) /\ t.o[a] = obj /\ IsLive(t.o, a) /\ Dirtying(t, a) BY <1>3, WriteOp
<1> QED BY <1>3, <1>4 DEF t, p

\* SetNonce.
LEMMA NonceOp ==
  ASSUME NEW g0, NEW s0, NEW s, NEW a \in Addrs, Reaches(g0, s0, s, a), IsLive(s.o, a), NEW v \in 0 .. MaxNonce
  PROVE  LET t == JSetNonce(s, a, v)
         IN /\ Reaches(g0, s0, t, a) /\ IsLive(t.o, a) /\ Dirtying(t, a)
            /\ Plain(t.o[a]) = [Plain(s.o[a]) EXCEPT !.nonce = v]
<1>1. s \in Parts BY ReachesSound
<1> DEFINE t == JSetNonce(s, a, v)
           p == [Plain(s.o[a]) EXCEPT !.nonce = v]
<1>2. \E e, obj : WriteStep(s, t, e, obj) /\ e.addr = a /\ Plain(obj) = p BY <1>1, NonceStep
<1> HIDE DEF t, p
<1>3. PICK e, obj : WriteStep(s, t, e, obj) /\ e.addr = a /\ Plain(obj) = p BY <1>2
<1>4. Reaches(g0, s0, t, a) /\ t.o[a] = obj /\ IsLive(t.o, a) /\ Dirtying(t, a) BY <1>3, WriteOp
<1> QED BY <1>3, <1>4 DEF t, p

\* SetCode.
LEMMA CodeOp ==
  ASSUME NEW g0, NEW s0, NEW s, NEW a \in Addrs, Reaches(g0, s0, s, a), IsLive(s.o, a), ~s.o[a].code
  PROVE  LET t == JSetCode(s, a)
         IN /\ Reaches(g0, s0, t, a) /\ IsLive(t.o, a) /\ Dirtying(t, a)
            /\ Plain(t.o[a]) = [Plain(s.o[a]) EXCEPT !.code = TRUE]
<1>1. s \in Parts BY ReachesSound
<1> DEFINE t == JSetCode(s, a)
           p == [Plain(s.o[a]) EXCEPT !.code = TRUE]
<1>2. \E e, obj : WriteStep(s, t, e, obj) /\ e.addr = a /\ Plain(obj) = p BY <1>1, CodeStep
<1> HIDE DEF t, p
<1>3. PICK e, obj : WriteStep(s, t, e, obj) /\ e.addr = a /\ Plain(obj) = p BY <1>2
<1>4. Reaches(g0, s0, t, a) /\ t.o[a] = obj /\ IsLive(t.o, a) /\ Dirtying(t, a) BY <1>3, WriteOp
<1> QED BY <1>3, <1>4 DEF t, p

\* Suicide.
LEMMA SuicideOp ==
  ASSUME NEW g0, NEW s0, NEW s, NEW a \in Addrs, Reaches(g0, s0, s, a), IsLive(s.o, a)
  PROVE  LET t == JSuicide(s, a)
         IN /\ Reaches(g0, s0, t, a) /\ IsLive(t.o, a) /\ Dirtying(t, a)
            /\ Plain(t.o[a]) = Died(Plain(s.o[a]), TRUE, 0)
<1>1. s \in Parts BY ReachesSound
<1> DEFINE t == JSuicide(s, a)
           p == Died(Plain(s.o[a]), TRUE, 0)
<1>2. \E e, obj : WriteStep(s, t, e, obj) /\ e.addr = a /\ Plain(obj) = p BY <1>1, SuicideStep
<1> HIDE DEF t, p
<1>3. PICK e, obj : WriteStep(s, t, e, obj) /\ e.addr = a /\ Plain(obj) = p BY <1>2
<1>4. Reaches(g0, s0, t, a) /\ t.o[a] = obj /\ IsLive(t.o, a) /\ Dirtying(t, a) BY <1>3, WriteOp
<1> QED BY <1>3, <1>4 DEF t, p

\* touch.
LEMMA TouchOp ==
  ASSUME NEW g0, NEW s0, NEW s, NEW a \in Addrs, Reaches(g0, s0, s, a), IsLive(s.o, a)
  PROVE  LET t == Touch(s, a)
         IN Reaches(g0, s0, t, a) /\ IsLive(t.o, a) /\ Dirtying(t, a) /\ Plain(t.o[a]) = Plain(s.o[a])
<1>1. s \in Parts BY ReachesSound
<1> DEFINE t == Touch(s, a)
           p == Plain(s.o[a])
<1>2. \E e, obj : WriteStep(s, t, e, obj) /\ e.addr = a /\ Plain(obj) = p BY <1>1, TouchStep
<1> HIDE DEF t, p
<1>3. PICK e, obj : WriteStep(s, t, e, obj) /\ e.addr = a /\ Plain(obj) = p BY <1>2
<1>4. Reaches(g0, s0, t, a) /\ t.o[a] = obj /\ IsLive(t.o, a) /\ Dirtying(t, a) BY <1>3, WriteOp
<1> QED BY <1>3, <1>4 DEF t, p

\* GetState, for what it caches.
LEMMA ReadOp ==
  ASSUME NEW g0, NEW s0, NEW s, NEW a \in Addrs, Reaches(g0, s0, s, a), IsLive(s.o, a), NEW k \in Slots
  PROVE  LET t == [s EXCEPT !.o[a] = Read(s.o[a], a, k, s.x)]
         IN /\ Reaches(g0, s0, t, a) /\ IsLive(t.o, a) /\ t.j = s.j /\ t.x = s.x
            /\ EIP158 => Plain(t.o[a]) = Plain(s.o[a]) /\ Known(t.o[a], k)
<1> DEFINE obj == Read(s.o[a], a, k, s.x)
           t == [s EXCEPT !.o[a] = obj]
<1>1. Sound(Ctx, s) BY ReachesSound
<1>2. CacheStep(s, t, a, obj) BY <1>1, ReadStep
<1>3. EIP158 => Plain(obj) = Plain(s.o[a]) /\ Known(obj, k) BY <1>1, ReadObject
<1> HIDE DEF obj, t
<1>4. Reaches(g0, s0, t, a) /\ t.o[a] = obj /\ IsLive(t.o, a) /\ t.j = s.j /\ t.x = s.x BY <1>2, <1>3, CacheOp
<1> QED BY <1>3, <1>4 DEF t, obj

\* SetState.
LEMMA StateOp ==
  ASSUME NEW g0, NEW s0, NEW s1, NEW a \in Addrs, Reaches(g0, s0, s1, a), IsLive(s1.o, a),
         NEW k \in Slots, NEW w \in Words
  PROVE  LET t == JSetState(s1, a, k, w)
         IN /\ Reaches(g0, s0, t, a) /\ IsLive(t.o, a)
            /\ \/ Dirtying(t, a)
               \/ t.j = s1.j /\ t.x = s1.x /\ (EIP158 => Plain(t.o[a]) = Plain(s1.o[a]))
            /\ EIP158 => Plain(t.o[a]) = [Plain(s1.o[a]) EXCEPT !.store = [Store(s1.o[a]) EXCEPT ![k] = w]]
<1> DEFINE s == [s1 EXCEPT !.o[a] = Read(s1.o[a], a, k, s1.x)]
           old == s.o[a]
           prev == GetState(old, a, k, s.x)
           mem == <<k, prev>>
           u == Journal(s, "storage", a, mem)
           e == Made("storage", a, mem)
           obj == WithDirty(old, k, w)
           t == [o |-> [s.o EXCEPT ![a] = obj], j |-> u.j, d |-> u.d, x |-> s.x]
           p == [Plain(s1.o[a]) EXCEPT !.store = [Store(s1.o[a]) EXCEPT ![k] = w]]
<1>1. /\ Reaches(g0, s0, s, a) /\ IsLive(s.o, a) /\ s.j = s1.j /\ s.x = s1.x
      /\ EIP158 => Plain(old) = Plain(s1.o[a]) /\ Known(old, k)
  BY ReadOp
<1>2. JSetState(s1, a, k, w) = IF prev = w THEN s ELSE [u EXCEPT !.o[a].dirty[k] = w] BY DEF JSetState
<1>3. Sound(Ctx, s1) /\ s1 \in Parts BY ReachesSound
<1>4. s1.o[a] \in Object /\ ~s1.o[a].deleted /\ s1.o[a] # None BY <1>3, LiveObject
<1> HIDE DEF s
<1>5. Sound(Ctx, s) /\ s \in Parts BY <1>1, ReachesSound
<1>6. s.o \in [Addrs -> Object \cup {None}] /\ old \in Object /\ ~old.deleted /\ old # None BY <1>1, <1>5, LiveObject
<1>7. prev \in Words /\ (EIP158 => prev = Store(old)[k]) BY <1>1, <1>5, SlotRead
<1>8. EIP158 => Store(old) = Store(s1.o[a])
  BY <1>6, <1>4, <1>1 DEF Plain
<1>9. CASE prev = w
  <2>1. ASSUME EIP158 PROVE Plain(old) = p
    <3>1. Store(s1.o[a]) = [i \in Slots |-> Store(s1.o[a])[i]] /\ Store(s1.o[a])[k] = w
      BY <2>1, <1>7, <1>8, <1>9 DEF Store
    <3> DEFINE S == Store(s1.o[a])
    <3>2. S = [i \in Slots |-> S[i]] /\ S[k] = w BY <3>1
    <3>3. Plain(s1.o[a]) = [bal |-> s1.o[a].bal, nonce |-> s1.o[a].nonce, code |-> s1.o[a].code,
                            store |-> S, dead |-> s1.o[a].suicided] BY <1>4 DEF Plain
    <3> HIDE DEF S
    <3>4. [S EXCEPT ![k] = w] = S BY <3>2
    <3>5. [Plain(s1.o[a]) EXCEPT !.store = S] = Plain(s1.o[a]) BY <3>3
    <3>6. p = Plain(s1.o[a]) BY <3>4, <3>5 DEF S
    <3> QED BY <3>6, <2>1, <1>1
  <2> QED BY <2>1, <1>1, <1>2, <1>9
<1>10. CASE prev # w
  <2>1. e \in Entries /\ e.op = "storage" /\ e.prev = mem /\ e.addr = a
    <3>1. mem \in Slots \X Words BY <1>7
    <3> HIDE DEF mem
    <3>2. e \in Entry("storage", Slots \X Words) BY <3>1 DEF Entry, Made
    <3> QED BY <3>2 DEF Entries, Made
  <2>2. e.prev[1] = k /\ e.prev[2] = prev BY <2>1
  <2>3. Appended(s, u, e)
    <3> HIDE DEF mem
    <3> QED BY <1>5, <2>1, JournalParts
  <2> HIDE DEF u, e, mem, prev
  <2>4. /\ obj \in Object /\ obj.root = old.root
        /\ obj.origin = old.origin /\ obj.pending = old.pending /\ obj.dirty = [old.dirty EXCEPT ![k] = w]
        /\ obj.code = old.code /\ obj.dirtyCode = old.dirtyCode /\ obj.deleted = old.deleted
        /\ Plain(obj) = [Plain(old) EXCEPT !.store = [Store(old) EXCEPT ![k] = w]]
        /\ Plain(WithDirty(obj, k, Store(old)[k])) = Plain(old)
    <3> HIDE DEF old
    <3> QED BY <1>6, WithDirtyObject
  <2>5. Restored(obj, e) = WithDirty(obj, k, prev) BY <2>1, <2>2 DEF Restored, WithDirty
  <2>6. [u EXCEPT !.o[a].dirty[k] = w] = t
    <3> DEFINE m == [u.o[a] EXCEPT !.dirty = [u.o[a].dirty EXCEPT ![k] = w]]
               n == [u.o EXCEPT ![a] = m]
    <3>1. [u EXCEPT !.o[a].dirty[k] = w] = [u EXCEPT !.o = n] OBVIOUS
    <3>2. u = [o |-> s.o, j |-> u.j, d |-> u.d, x |-> s.x] BY <2>3 DEF Appended
    <3>3. u.o = s.o BY <3>2
    <3>4. n = [s.o EXCEPT ![a] = obj] BY <3>3 DEF WithDirty
    <3> HIDE DEF n
    <3>5. [u EXCEPT !.o = n] = [o |-> n, j |-> u.j, d |-> u.d, x |-> s.x] BY <3>2
    <3> QED BY <3>1, <3>4, <3>5
  <2> HIDE DEF obj
  <2>7. Becomes(old, obj, e)
    <3>1. e.op # "code" BY <2>1
    <3>2. \E v \in Words : obj.dirty = [old.dirty EXCEPT ![e.prev[1]] = v] BY <2>2, <2>4
    <3>3. EIP158 => Plain(Restored(obj, e)) = Plain(old) /\ Known(old, e.prev[1]) BY <2>2, <2>4, <2>5, <1>1, <1>7
    <3> QED BY <3>1, <3>2, <3>3, <2>1, <2>4, <1>6 DEF Becomes
  <2>8. WriteStep(s, t, e, obj)
    <3>1. Becomes(s.o[e.addr], obj, e) /\ IsLive(s.o, e.addr) BY <1>1, <2>1, <2>7
    <3>2. t = [o |-> [s.o EXCEPT ![e.addr] = obj], j |-> u.j, d |-> u.d, x |-> s.x] BY <2>1
    <3>3. e.op \in Writes /\ ~(e.addr = Ripemd /\ e.op = "touch") BY <2>1 DEF Writes
    <3>4. s \in Parts BY <1>5
    <3> HIDE DEF t, old
    <3>5. Writing(s, u, e, obj, t) BY <2>3, <3>1, <3>2, <3>3, <3>4 DEF Writing
    <3> QED BY <3>5, WriteBy
  <2>9. Reaches(g0, s0, t, a) /\ t.o[a] = obj /\ IsLive(t.o, a) /\ Dirtying(t, a)
    <3>1. e.addr = a BY <2>1
    <3> HIDE DEF t, old
    <3> QED BY <1>1, <2>8, <3>1, WriteOp
  <2>10. EIP158 => Plain(obj) = p BY <2>4, <1>1, <1>8
  <2>11. JSetState(s1, a, k, w) = t BY <1>2, <1>10, <2>6
  <2> QED BY <2>9, <2>10, <2>11
<1> QED BY <1>9, <1>10

\* createObject.
LEMMA CreateOp ==
  ASSUME NEW g0, NEW s0, NEW s, NEW a \in Addrs, Reaches(g0, s0, s, a), Vacant(s.o[a])
  PROVE  LET t == CreateObject(s, a)
         IN /\ Reaches(g0, s0, t, a) /\ IsLive(t.o, a) /\ t.o[a] = NewObject
            /\ Len(t.j) > Len(s0.j)
            /\ s.o[a] # None => t.j[Len(t.j)].op = "reset"
<1> DEFINE t == CreateObject(s, a)
<1>1. s \in Parts BY ReachesSound
<1>2. PICK e : /\ MakeStep(Ctx, s, t, e) /\ e.addr = a
               /\ s.o[a] # None => e.op = "reset"
  BY <1>1, CreateStep, CtxFields
<1>3. s0 \in Parts /\ \E h : Advance(Ctx, g0, s0, h, s, e.addr) BY <1>2 DEF Reaches
<1> HIDE DEF t
<1>4. PICK h : Advance(Ctx, g0, s0, h, s, e.addr) BY <1>3
<1>5. \E i : Advance(Ctx, g0, s0, i, t, e.addr) BY <1>2, <1>3, <1>4, AdvanceMake
<1>6. Reaches(g0, s0, t, a) BY <1>2, <1>3, <1>5 DEF Reaches
<1>7. Wrote(s, t, e, NewObject) BY <1>2 DEF MakeStep
<1>8. t.o[a] = NewObject /\ Len(t.j) = Len(s.j) + 1 /\ t.j[Len(t.j)] = e /\ Len(s.j) \in Nat BY <1>2, <1>7, WroteFacts
<1>9. Len(s0.j) <= Len(s.j) /\ Len(s0.j) \in Nat
  BY <1>3, LenProperties, <1>4 DEF Parts, Advance
<1>10. IsLive(t.o, a)
  <2>1. NewObject \in Object /\ NewObject # None BY NewIsObject, NilAssumption
  <2>2. ~NewObject.deleted BY DEF NewObject
  <2> QED BY <1>8, <2>1, <2>2 DEF IsLive
<1> QED BY <1>2, <1>6, <1>8, <1>9, <1>10 DEF t

\* A new account, as the EVM sees it.
FreshView == [bal |-> 0, nonce |-> 0, code |-> FALSE, store |-> Zeros, dead |-> FALSE]

\* The EVM sees a new object as that.
LEMMA NewSeen ==
  /\ NewObject \in Object /\ NewObject # None /\ ~NewObject.deleted /\ NewObject.bal = 0
  /\ NewObject.nonce = 0 /\ ~NewObject.code
  /\ Store(NewObject) = Zeros /\ Plain(NewObject) = FreshView
  BY NewIsObject, NilAssumption DEF NewObject, Store, NoWrites, Zeros, Plain, FreshView

\* What GetOrNewStateObject finds or makes.
Found(s, a) == IF IsLive(s.o, a) THEN s.o[a] ELSE NewObject

\* It is a live object, reached by operations of the StateDB.
LEMMA GetOrNewOp ==
  ASSUME NEW g0, NEW s0, NEW s, NEW a \in Addrs, Reaches(g0, s0, s, a)
  PROVE  LET t == GetOrNew(s, a)
         IN Reaches(g0, s0, t, a) /\ IsLive(t.o, a) /\ t.o[a] = Found(s, a)
<1>1. CASE IsLive(s.o, a)
  BY <1>1 DEF GetOrNew, Found
<1>2. CASE ~IsLive(s.o, a)
  <2>1. GetOrNew(s, a) = CreateObject(s, a) BY <1>2 DEF GetOrNew
  <2>2. Vacant(s.o[a]) BY <1>2 DEF IsLive, Vacant
  <2> DEFINE t == CreateObject(s, a)
  <2>3. Reaches(g0, s0, t, a) /\ IsLive(t.o, a) /\ t.o[a] = NewObject BY <2>2, CreateOp
  <2> HIDE DEF t
  <2> QED BY <1>2, <2>1, <2>3 DEF Found, t
<1> QED BY <1>1, <1>2

\* AddBalance.
LEMMA AddBalanceOp ==
  ASSUME NEW g0, NEW s0, NEW s1, NEW a \in Addrs, Reaches(g0, s0, s1, a), NEW v \in 0 .. MaxBal,
         Found(s1, a).bal + v <= MaxBal
  PROVE  LET t == JAddBalance(s1, a, v)
         IN /\ Reaches(g0, s0, t, a) /\ IsLive(t.o, a)
            /\ Dirtying(t, a) \/ (IsLive(s1.o, a) /\ t = s1)
            /\ Plain(t.o[a]) = [Plain(Found(s1, a)) EXCEPT !.bal = Found(s1, a).bal + v]
<1> DEFINE s == GetOrNew(s1, a)
           old == Found(s1, a)
           n == old.bal + v
<1>1. Reaches(g0, s0, s, a) /\ IsLive(s.o, a) /\ s.o[a] = old BY GetOrNewOp
<1> HIDE DEF s, old
<1>2. s \in Parts BY <1>1, ReachesSound
<1>3. old \in Object /\ ~old.deleted /\ old # None BY <1>1, <1>2, LiveObject
<1>4. n \in 0 .. MaxBal /\ old.bal \in 0 .. MaxBal BY <1>3, BoundsAssumption DEF Object, old
<1>5. CASE v # 0
  <2>1. JAddBalance(s1, a, v) = JSetBalance(s, a, s.o[a].bal + v) BY <1>5 DEF JAddBalance, s
  <2>2. JAddBalance(s1, a, v) = JSetBalance(s, a, n) BY <2>1, <1>1
  <2> DEFINE t == JSetBalance(s, a, n)
  <2> HIDE DEF n
  <2>3. Reaches(g0, s0, t, a) /\ IsLive(t.o, a) /\ Dirtying(t, a) /\ Plain(t.o[a]) = [Plain(s.o[a]) EXCEPT !.bal = n]
    BY <1>1, <1>4, BalanceOp
  <2> HIDE DEF t
  <2>4. Reaches(g0, s0, t, a) /\ IsLive(t.o, a) /\ Dirtying(t, a) /\ Plain(t.o[a]) = [Plain(old) EXCEPT !.bal = n]
    BY <1>1, <2>3
  <2> QED BY <2>2, <2>4 DEF t, n, old
<1>6. CASE v = 0
  <2>1. n = old.bal BY <1>3, <1>6 DEF Object
  <2>2. [Plain(old) EXCEPT !.bal = n] = Plain(old)
    <3>1. Plain(old) = [bal |-> old.bal, nonce |-> old.nonce, code |-> old.code, store |-> Store(old),
                        dead |-> old.suicided] BY <1>3, PlainType
    <3> HIDE DEF n
    <3> QED BY <3>1, <2>1
  <2>3. JAddBalance(s1, a, v) = IF IsEmpty(s.o[a]) THEN Touch(s, a) ELSE s BY <1>6 DEF JAddBalance, s
  <2> DEFINE t == JAddBalance(s1, a, v)
  <2>4. /\ Reaches(g0, s0, t, a) /\ IsLive(t.o, a) /\ Plain(t.o[a]) = Plain(old)
        /\ Dirtying(t, a) \/ (IsLive(s1.o, a) /\ t = s1)
    <3>1. CASE IsEmpty(s.o[a])
      <4> DEFINE u == Touch(s, a)
      <4>1. Reaches(g0, s0, u, a) /\ IsLive(u.o, a) /\ Dirtying(u, a) /\ Plain(u.o[a]) = Plain(s.o[a]) BY <1>1, TouchOp
      <4>2. t = u BY <2>3, <3>1
      <4> HIDE DEF t, u
      <4> QED BY <4>1, <4>2, <1>1
    <3>2. CASE ~IsEmpty(s.o[a])
      <4>1. t = s BY <2>3, <3>2
      <4>2. IsLive(s1.o, a)
        BY NewSeen, <3>2, <1>1 DEF IsEmpty, old, Found
      <4>3. s = s1 BY <4>2 DEF s, GetOrNew
      <4> HIDE DEF t
      <4> QED BY <4>1, <4>2, <4>3, <1>1
    <3> QED BY <3>1, <3>2
  <2> HIDE DEF t
  <2> QED BY <2>2, <2>4 DEF t, n, old
<1> QED BY <1>5, <1>6

\* CreateAccount.
LEMMA CreateAccountOp ==
  ASSUME NEW g0, NEW s0, NEW s, NEW a \in Addrs, Reaches(g0, s0, s, a), Vacant(s.o[a])
  PROVE  LET t == CreateAccount(s, a)
         IN /\ Reaches(g0, s0, t, a) /\ IsLive(t.o, a) /\ t.o[a].bal = Found(s, a).bal
            /\ Plain(t.o[a]) = [FreshView EXCEPT !.bal = Found(s, a).bal]
<1> DEFINE t == CreateObject(s, a)
           b == s.o[a].bal
           obj == WithBal(NewObject, b)
           u == [t EXCEPT !.o[a].bal = b]
<1>1. /\ Reaches(g0, s0, t, a) /\ IsLive(t.o, a) /\ t.o[a] = NewObject
      /\ Len(t.j) > Len(s0.j)
      /\ s.o[a] # None => t.j[Len(t.j)].op = "reset"
  BY CreateOp
<1>2. CreateAccount(s, a) = IF IsLive(s.o, a) THEN u ELSE t BY DEF CreateAccount
<1> HIDE DEF t
<1>3. CASE ~IsLive(s.o, a)
  <2>1. CreateAccount(s, a) = t /\ Found(s, a) = NewObject BY <1>2, <1>3 DEF Found
  <2>2. [FreshView EXCEPT !.bal = 0] = FreshView
    <3> DEFINE N == NewObject
    <3>1. N \in Object \cup {None} /\ N # None /\ ~N.deleted /\ N.bal = 0 /\ Plain(N) = FreshView BY NewSeen
    <3> HIDE DEF N
    <3>2. Plain(N) = [bal |-> N.bal, nonce |-> N.nonce, code |-> N.code, store |-> Store(N), dead |-> N.suicided]
      BY <3>1, PlainType
    <3>3. [Plain(N) EXCEPT !.bal = N.bal] = Plain(N) BY <3>2
    <3> QED BY <3>1, <3>3
  <2>3. t.o[a].bal = Found(s, a).bal /\ Plain(t.o[a]) = [FreshView EXCEPT !.bal = Found(s, a).bal]
    BY <1>1, <2>1, <2>2, NewSeen
  <2> QED BY <1>1, <2>1, <2>3
<1>4. CASE IsLive(s.o, a)
  <2>1. s \in Parts /\ t \in Parts BY <1>1, ReachesSound
  <2>2. s.o[a] \in Object /\ s.o[a] # None BY <1>4, <2>1, LiveObject
  <2>3. b \in 0 .. MaxBal /\ NewObject \in Object BY <2>2, NewIsObject DEF Object
  <2>4. Found(s, a).bal = b BY <1>4 DEF Found
  <2> HIDE DEF b
  <2>5. /\ obj \in Object /\ obj.nonce = NewObject.nonce /\ obj.code = NewObject.code /\ obj.root = NewObject.root
        /\ obj.origin = NewObject.origin /\ obj.pending = NewObject.pending /\ obj.dirty = NewObject.dirty
        /\ obj.dirtyCode = NewObject.dirtyCode /\ obj.suicided = NewObject.suicided
        /\ obj.deleted = NewObject.deleted
        /\ ~NewObject.deleted => Plain(obj) = [Plain(NewObject) EXCEPT !.bal = b]
    BY <2>3, WithBalance
  <2>6. Plain(obj) = [FreshView EXCEPT !.bal = b] /\ ~obj.deleted BY <2>5, NewSeen
  <2>7. obj.bal = b BY <2>3 DEF WithBal, Object
  <2>8. u = [t EXCEPT !.o = [t.o EXCEPT ![a] = obj]] BY <1>1 DEF WithBal
  <2> HIDE DEF obj, u
  <2>9. CacheStep(t, u, a, obj) BY <1>1, <2>1, <2>5, <2>6, <2>8 DEF CacheStep
  <2>10. Len(t.j) > Len(s0.j) /\ t.j[Len(t.j)].op = "reset" BY <1>1, <2>2
  <2>11. Reaches(g0, s0, u, a) /\ u.o[a] = obj /\ IsLive(u.o, a) BY <1>1, <2>9, <2>10, CacheOp
  <2>12. CreateAccount(s, a) = u BY <1>2, <1>4 DEF u
  <2> QED BY <2>4, <2>6, <2>7, <2>11, <2>12
<1> QED BY <1>3, <1>4

-----------------------------------------------------------------------------
(* The inductive invariant.                                                *)

\* The storage an account of a trie has.
RootOf(acct) == IF acct = None THEN Zeros ELSE acct.root

\* The parent's snapshot is that of the parent's trie.
Agrees(c) ==
  c.snap => \A a \in Addrs : c.flat[a].acct = c.base[a] /\ c.flat[a].slots = RootOf(c.base[a])

\* What the database holds; what is pending will be committed.
Lodged(c) ==
  /\ \A a \in Addrs : HasCode(c.base[a]) \/ HasCode(c.flat[a].acct) => a \in c.codes
  /\ c.pending \subseteq c.dirty

Stocked(c) == Lodged(c) /\ (Byzantium => c.trie = c.base)

\* What the snapshot will have for an account, given whether it is destructed.
LayerAcct(c, a, destruct) ==
  IF c.acc[a] # None THEN c.acc[a] ELSE IF destruct THEN None ELSE c.flat[a].acct

\* The trie and the next snapshot have an account.
Arrived(c, a, f) ==
  /\ f.seen = AccountView(c.trie[a])
  /\ c.snap => /\ LayerAcct(c, a, f.destruct) = c.trie[a]
               /\ \A k \in Slots : SlotOf(c, a, f.destruct, k) = RootOf(c.trie[a])[k]

\* What a transaction, or a copy, starts from.
Began(c, f) ==
  \A a \in Addrs :
    /\ f[a].seen # None => ~f[a].seen.dead
    /\ a \notin c.pending => Arrived(c, a, f[a])
    /\ c.snap /\ a \notin c.dirty => c.acc[a] = None /\ c.sto[a] = NoWrites /\ ~f[a].destruct

\* The entries that no revert under way will undo.
Bound == IF mode = "revert" THEN target ELSE Len(journal)

\* The accounts as the EVM sees them.
Worlds == [Addrs -> Seen \cup {None}]
SeenIn(f) == [a \in Addrs |-> f[a].seen]

\* The revisions, in the order they were taken.
Marks ==
  /\ mode \in {"run", "revert"} /\ target \in Nat /\ Bound <= Len(journal)
  /\ mode = "run" => target = 0
  /\ revisions \in Seq(Nat) /\ saved \in Seq(Worlds) /\ Len(saved) = Len(revisions)
  /\ \A i \in 1 .. Len(revisions) : revisions[i] <= Bound
  /\ \A i, k \in 1 .. Len(revisions) : i < k => revisions[i] <= revisions[k]

\* A history that explains what the StateDB holds, and what is remembered of it.
Chronicle(h) ==
  /\ Told(h, Live) /\ Began(Ctx, h[0])
  /\ Settled(h, journal, Bound)
  /\ \A i \in 1 .. Len(revisions) : Settled(h, journal, revisions[i])
  /\ \A i \in 1 .. Len(revisions) : saved[i] = SeenIn(h[revisions[i]])
  /\ mode = "revert" => goal = SeenIn(h[target])

Ranges == building \in SUBSET Addrs /\ txs \in 0 .. MaxTxs /\ blocks \in 0 .. MaxBlocks

Books ==
  /\ Sound(Ctx, Live) /\ Stocked(Ctx) /\ Marks /\ Ranges
  /\ EIP158 => Agrees(Ctx) /\ \E h \in Histories : Chronicle(h)

\* What the getters return is what the objects hold.
LEMMA ViewSeen ==
  ASSUME NEW s, Sound(Ctx, s) PROVE View(s.o, s.x) \in Worlds /\ (EIP158 => View(s.o, s.x) = SeenIn(Faces(s)))
<1>1. s \in Parts BY DEF Sound
<1>2. /\ Faces(s) \in [Addrs -> Facets]
      /\ \A a \in Addrs : Faces(s)[a] = Face(s.o[a], a \in s.x)
  BY <1>1, FacesType
<1>3. \A a \in Addrs : Faces(s)[a].seen = Plain(s.o[a]) BY <1>2 DEF Face
<1>4. ASSUME EIP158, NEW a \in Addrs
      PROVE  Plain(s.o[a]) =
               IF IsLive(s.o, a)
                 THEN [bal |-> s.o[a].bal, nonce |-> s.o[a].nonce, code |-> s.o[a].code,
                       store |-> [k \in Slots |-> GetState(s.o[a], a, k, s.x)], dead |-> s.o[a].suicided]
                 ELSE None
  <2>1. CASE IsLive(s.o, a)
    BY <1>4, <2>1, SlotRead, <1>1, LiveObject DEF Store
  <2>2. CASE ~IsLive(s.o, a) BY <2>2 DEF IsLive, Plain
  <2> QED BY <2>1, <2>2
<1>5. EIP158 => View(s.o, s.x) = [a \in Addrs |-> Plain(s.o[a])] BY <1>4 DEF View
<1>6. SeenIn(Faces(s)) = [a \in Addrs |-> Plain(s.o[a])] BY <1>3 DEF SeenIn
<1>7. ASSUME NEW a \in Addrs, IsLive(s.o, a)
      PROVE  [bal |-> s.o[a].bal, nonce |-> s.o[a].nonce, code |-> s.o[a].code,
              store |-> [k \in Slots |-> GetState(s.o[a], a, k, s.x)], dead |-> s.o[a].suicided] \in Seen
  BY <1>7, SlotRead, <1>1, LiveObject DEF Object, Seen
<1>8. View(s.o, s.x) \in Worlds BY <1>7 DEF View, Worlds
<1> QED BY <1>5, <1>6, <1>8

\* What is settled stays so, if the entries and the history before stay.
LEMMA SettledStays ==
  ASSUME NEW g, NEW h, NEW j, NEW k, NEW n \in Nat, \A i \in 1 .. n : k[i] = j[i],
         h[n] = g[n], h[0] = g[0], Settled(g, j, n)
  PROVE  Settled(h, k, n) BY DEF Settled

\* An operation dirties the address it changes.
LEMMA SettledOn ==
  ASSUME NEW c, NEW g, NEW s, NEW h, NEW t, NEW a \in Addrs, s \in Parts, Advance(c, g, s, h, t, a), EIP158,
         Told(g, s), Settled(g, s.j, Len(s.j)),
         Dirtying(t, a) \/ (t.j = s.j /\ Faces(t)[a] = Faces(s)[a]) PROVE Settled(h, t.j, Len(t.j))
<1>1. /\ Told(h, t) /\ t \in Parts /\ Len(s.j) <= Len(t.j)
      /\ \A i \in 1 .. Len(s.j) : t.j[i] = s.j[i]
      /\ \A n \in 0 .. Len(s.j) : h[n] = g[n]
      /\ \A b \in Addrs : b # a => Faces(t)[b] = Faces(s)[b]
  BY DEF Advance, Sound
<1>2. Len(s.j) \in Nat /\ Len(t.j) \in Nat BY <1>1, LenProperties DEF Parts
<1>3. h[Len(t.j)] = Faces(t) /\ g[Len(s.j)] = Faces(s) /\ h[0] = g[0] BY <1>1, <1>2 DEF Told
<1> SUFFICES ASSUME NEW b \in Addrs, \A i \in 1 .. Len(t.j) : b \notin Dirtied(t.j[i])
             PROVE  h[Len(t.j)][b] = h[0][b] BY DEF Settled
<1>4. \A i \in 1 .. Len(s.j) : b \notin Dirtied(s.j[i]) BY <1>1, <1>2
<1>5. g[Len(s.j)][b] = g[0][b] BY <1>4 DEF Settled
<1>6. Faces(t)[b] = Faces(s)[b]
  BY <1>2, <1>1 DEF Dirtying
<1> QED BY <1>3, <1>5, <1>6

\* An operation of the EVM starts from what the invariant says.
LEMMA StartOp ==
  ASSUME Books, NEW a \in Addrs PROVE \E g \in Histories : (EIP158 => Chronicle(g)) /\ Reaches(g, Live, Live, a)
<1>1. Sound(Ctx, Live) /\ Live \in Parts BY DEF Books, Sound
<1>2. \E g \in Histories : EIP158 => Chronicle(g)
  <2>1. CASE EIP158 BY <2>1 DEF Books
  <2>2. CASE ~EIP158
    <3>1. [n \in Nat |-> Faces(Live)] \in Histories BY <1>1, FacesType DEF Histories
    <3> QED BY <2>2, <3>1
  <2> QED BY <2>1, <2>2
<1>3. PICK g \in Histories : EIP158 => Chronicle(g) BY <1>2
<1>4. EIP158 => Told(g, Live) BY <1>3 DEF Chronicle
<1> DEFINE L == Live
           c == Ctx
<1>5. Sound(c, L) /\ (EIP158 => Told(g, L)) /\ L \in Parts BY <1>1, <1>4
<1> HIDE DEF L, c
<1>6. Advance(c, g, L, g, L, a) BY <1>5, AdvanceNone
<1>7. Reaches(g, Live, Live, a) BY <1>5, <1>6 DEF Reaches, L, c
<1> QED BY <1>3, <1>7

\* What SetLive leaves.
LEMMA LiveNext ==
  ASSUME NEW t \in Parts, SetLive(t)
  PROVE  Live' = t BY DEF SetLive, Live, Parts

\* What an operation on an address comes to, p being what the EVM sees there afterwards.
Acted(g, t, a, p) ==
  /\ g \in Histories /\ (EIP158 => Chronicle(g)) /\ Reaches(g, Live, t, a) /\ SetLive(t)
  /\ EIP158 => /\ Dirtying(t, a) \/ (t.j = journal /\ Faces(t)[a] = Faces(Live)[a])
               /\ Plain(t.o[a]) = p

\* It keeps the invariant.
LEMMA OpKeeps ==
  ASSUME Books, Running, NEW a \in Addrs, NEW g, NEW t, NEW p, Acted(g, t, a, p),
         UNCHANGED <<diskVars, flushVars, revVars>>, Ranges' PROVE Books'
<1>0. /\ g \in Histories /\ (EIP158 => Chronicle(g)) /\ Reaches(g, Live, t, a) /\ SetLive(t)
      /\ EIP158 => Dirtying(t, a) \/ (t.j = journal /\ Faces(t)[a] = Faces(Live)[a])
  BY DEF Acted
<1>1. PICK h : Advance(Ctx, g, Live, h, t, a) BY <1>0 DEF Reaches
<1>2. Live \in Parts /\ t \in Parts /\ Sound(Ctx, t) /\ h \in Histories
  BY <1>0, <1>1 DEF Reaches, Advance, Sound
<1>3. Live' = t /\ journal' = t.j BY <1>0, <1>2, LiveNext DEF SetLive
<1>4. Ctx' = Ctx BY DEF Ctx, diskVars, flushVars
<1>5. Live.j = journal BY DEF Live
<1>6. /\ Len(journal) \in Nat /\ Len(t.j) \in Nat /\ Len(journal) <= Len(t.j)
      /\ \A i \in 1 .. Len(journal) : t.j[i] = journal[i]
      /\ \A n \in 0 .. Len(journal) : h[n] = g[n]
  BY <1>1, <1>2, <1>5, LenProperties DEF Advance, Parts
<1>7. /\ mode = "run" /\ mode' = "run" /\ target' = target /\ revisions' = revisions /\ saved' = saved
      /\ goal' = goal
  BY DEF Running, revVars
<1>8. Marks /\ Bound = Len(journal) /\ Bound' = Len(t.j) BY <1>3, <1>7 DEF Books, Bound
<1>9. Marks'
  <2>1. /\ target \in Nat /\ Bound <= Len(journal) /\ target = 0
        /\ revisions \in Seq(Nat) /\ saved \in Seq(Worlds) /\ Len(saved) = Len(revisions)
        /\ \A i \in 1 .. Len(revisions) : revisions[i] <= Len(journal)
        /\ \A i, k \in 1 .. Len(revisions) : i < k => revisions[i] <= revisions[k]
    BY <1>7, <1>8 DEF Marks
  <2>2. \A i \in 1 .. Len(revisions) : revisions[i] <= Len(t.j)
    BY <2>1, ElementOfSeq, <1>6
  <2> QED BY <2>1, <2>2, <1>3, <1>6, <1>7, <1>8 DEF Marks
<1>10. Sound(Ctx', Live') /\ Stocked(Ctx') BY <1>2, <1>3, <1>4 DEF Books
<1>11. ASSUME EIP158 PROVE Agrees(Ctx') /\ Chronicle(h)'
  <2>1. /\ Agrees(Ctx) /\ Told(g, Live) /\ Began(Ctx, g[0]) /\ Settled(g, journal, Len(journal))
        /\ \A i \in 1 .. Len(revisions) : Settled(g, journal, revisions[i])
        /\ \A i \in 1 .. Len(revisions) : saved[i] = SeenIn(g[revisions[i]])
    BY <1>0, <1>8, <1>11 DEF Books, Chronicle
  <2>2. Told(h, t) BY <1>1, <1>11 DEF Advance
  <2>3. h[0] = g[0] BY <1>6
  <2>4. Settled(h, t.j, Len(t.j))
    <3>1. Settled(g, Live.j, Len(Live.j)) /\ (Dirtying(t, a) \/ (t.j = Live.j /\ Faces(t)[a] = Faces(Live)[a]))
      BY <2>1, <1>0, <1>5, <1>11
    <3> DEFINE L == Live
               c == Ctx
    <3>2. /\ Settled(g, L.j, Len(L.j)) /\ (Dirtying(t, a) \/ (t.j = L.j /\ Faces(t)[a] = Faces(L)[a]))
          /\ Told(g, L) /\ L \in Parts /\ Advance(c, g, L, h, t, a)
      BY <3>1, <2>1, <1>1, <1>2
    <3> HIDE DEF L, c
    <3> QED BY <3>2, <1>11, SettledOn
  <2>5. ASSUME NEW i \in 1 .. Len(revisions) PROVE Settled(h, t.j, revisions[i]) /\ saved[i] = SeenIn(h[revisions[i]])
    <3>1. revisions[i] \in 0 .. Len(journal)
      BY <1>8, ElementOfSeq, <1>6 DEF Marks
    <3>2. h[revisions[i]] = g[revisions[i]] BY <3>1, <1>6
    <3>3. \A k \in 1 .. revisions[i] : t.j[k] = journal[k] BY <3>1, <1>6
    <3>4. Settled(g, journal, revisions[i]) BY <2>1
    <3>5. Settled(h, t.j, revisions[i])
      <4> DEFINE n == revisions[i]
      <4>1. n \in Nat /\ h[n] = g[n] /\ (\A k \in 1 .. n : t.j[k] = journal[k]) /\ Settled(g, journal, n)
        BY <3>1, <3>2, <3>3, <3>4, <1>6
      <4> HIDE DEF n
      <4>2. Settled(h, t.j, n) BY <4>1, <2>3, SettledStays
      <4> QED BY <4>2 DEF n
    <3> QED BY <3>2, <3>5, <2>1
  <2>6. Chronicle(h)'
    <3>1. Told(h, Live') /\ Began(Ctx', h[0]) /\ Settled(h, journal', Bound')
      BY <2>1, <2>2, <2>3, <2>4, <1>3, <1>4, <1>8
    <3>2. /\ \A i \in 1 .. Len(revisions') : Settled(h, journal', revisions'[i])
          /\ \A i \in 1 .. Len(revisions') : saved'[i] = SeenIn(h[revisions'[i]])
          /\ mode' # "revert"
      BY <2>1, <2>5, <1>3, <1>7
    <3> QED BY <3>1, <3>2 DEF Chronicle
  <2> QED BY <2>1, <2>6, <1>4
<1> QED BY <1>2, <1>9, <1>10, <1>11 DEF Books

-----------------------------------------------------------------------------
(* The operations of the EVM, and what it sees of them.                    *)

\* The account at an address, as WorldState has it.
Found0(a) == IF IsLive(objs, a) THEN Plain(objs[a]) ELSE FreshView

\* The accounts that WorldState's operations leave.
Credited(p, v) == [p EXCEPT !.bal = @ + v]
Debited(p, v) == [p EXCEPT !.bal = @ - v]
Numbered(p, n) == [p EXCEPT !.nonce = n]
Programmed(p) == [p EXCEPT !.code = TRUE]
Stored1(p, k, w) == [p EXCEPT !.store[k] = w]
Born(n, b) == [FreshView EXCEPT !.nonce = n, !.bal = b]

\* What is known of a live account.
LEMMA LiveFound ==
  ASSUME Books, NEW a \in Addrs
  PROVE  /\ objs \in [Addrs -> Object \cup {None}] /\ Live \in Parts /\ Live.o = objs /\ Live.x = destructs
         /\ Live.j = journal
         /\ IsLive(objs, a) =>
              /\ objs[a] \in Object /\ objs[a] # None
              /\ Found0(a) = [bal |-> objs[a].bal, nonce |-> objs[a].nonce, code |-> objs[a].code,
                              store |-> Store(objs[a]), dead |-> objs[a].suicided]
              /\ Found0(a) = Plain(objs[a])
         /\ Found(Live, a).bal = BalanceOf(a) /\ Plain(Found(Live, a)) = Found0(a)
         /\ BalanceOf(a) \in 0 .. MaxBal
<1>1. Live \in Parts /\ Live.o = objs /\ Live.x = destructs /\ Live.j = journal BY DEF Books, Sound, Live
<1>2. objs \in [Addrs -> Object \cup {None}] BY <1>1 DEF Parts
<1>3. ASSUME IsLive(objs, a)
      PROVE  /\ objs[a] \in Object /\ objs[a] # None
             /\ Plain(objs[a]) = [bal |-> objs[a].bal, nonce |-> objs[a].nonce, code |-> objs[a].code,
                                  store |-> Store(objs[a]), dead |-> objs[a].suicided]
  BY <1>2, <1>3, PlainType DEF IsLive
<1>4. NewObject.bal = 0 /\ Plain(NewObject) = FreshView BY NewSeen
<1>5. Found(Live, a).bal = BalanceOf(a) /\ Plain(Found(Live, a)) = Found0(a) BY <1>1, <1>4 DEF Found, Found0, BalanceOf
<1>6. BalanceOf(a) \in 0 .. MaxBal BY <1>3, BoundsAssumption DEF BalanceOf, Object
<1> QED BY <1>1, <1>2, <1>3, <1>5, <1>6 DEF Found0

\* An account's view with another balance.
LEMMA Crediting ==
  ASSUME NEW p, NEW b, NEW v,
         \E n, c, s, d : p = [bal |-> b, nonce |-> n, code |-> c, store |-> s, dead |-> d]
  PROVE  Credited(p, v) = [p EXCEPT !.bal = b + v] /\ Debited(p, v) = [p EXCEPT !.bal = b - v] /\ p.bal = b
BY DEF Credited, Debited

\* The receiving half of a transfer.
LEMMA AddBalanceActs ==
  ASSUME Books, NEW a \in Addrs, NEW v \in Amounts, AddBalance(a, v)
  PROVE  \E g, t : Acted(g, t, a, Credited(Found0(a), v))
<1>1. BalanceOf(a) + v <= MaxBal /\ SetLive(JAddBalance(Live, a, v)) /\ v \in 0 .. MaxBal
  BY DEF AddBalance, Do, Leave, Amounts
<1>2. PICK g \in Histories : (EIP158 => Chronicle(g)) /\ Reaches(g, Live, Live, a) BY StartOp
<1>3. Found(Live, a).bal = BalanceOf(a) /\ Plain(Found(Live, a)) = Found0(a) /\ Live.j = journal BY LiveFound
<1>4. Found(Live, a).bal + v <= MaxBal BY <1>1, <1>3
<1> DEFINE t == JAddBalance(Live, a, v)
           F == Found(Live, a)
<1>5. /\ Reaches(g, Live, t, a)
      /\ Dirtying(t, a) \/ (IsLive(Live.o, a) /\ t = Live)
      /\ Plain(t.o[a]) = [Plain(F) EXCEPT !.bal = F.bal + v]
  BY <1>1, <1>2, <1>4, AddBalanceOp
<1>6. Credited(Found0(a), v) = [Plain(F) EXCEPT !.bal = F.bal + v]
  <2>1. \E n, c, s, d : Found0(a) = [bal |-> F.bal, nonce |-> n, code |-> c, store |-> s, dead |-> d]
    <3>1. CASE IsLive(objs, a)
      BY <3>1, LiveFound, <1>3 DEF BalanceOf
    <3>2. CASE ~IsLive(objs, a)
      <4>1. F.bal = 0 BY <3>2, <1>3 DEF BalanceOf
      <4>2. Found0(a) = [bal |-> 0, nonce |-> 0, code |-> FALSE, store |-> Zeros, dead |-> FALSE]
        BY <3>2 DEF Found0, FreshView
      <4> DEFINE C == FALSE
      <4>3. Found0(a) = [bal |-> 0, nonce |-> 0, code |-> C, store |-> Zeros, dead |-> C] BY <4>2
      <4> HIDE DEF C
      <4> QED BY <4>1, <4>3
    <3> QED BY <3>1, <3>2
  <2> DEFINE p == Found0(a)
             b == F.bal
  <2>2. \E n, c, s, d : p = [bal |-> b, nonce |-> n, code |-> c, store |-> s, dead |-> d] BY <2>1
  <2> HIDE DEF p, b
  <2>3. Credited(p, v) = [p EXCEPT !.bal = b + v] BY <2>2, Crediting
  <2>4. p = Plain(F) BY <1>3 DEF p
  <2> QED BY <2>3, <2>4 DEF p, b
<1>7. Dirtying(t, a) \/ (t.j = journal /\ Faces(t)[a] = Faces(Live)[a]) BY <1>3, <1>5
<1>8. SetLive(t) BY <1>1
<1> HIDE DEF t, F
<1>9. Acted(g, t, a, Credited(Found0(a), v)) BY <1>2, <1>5, <1>6, <1>7, <1>8 DEF Acted
<1> QED BY <1>9

\* The paying half.
LEMMA SubBalanceActs ==
  ASSUME Books, NEW a \in Addrs, NEW v \in Amounts, SubBalance(a, v)
  PROVE  /\ IsLive(objs, a) /\ Found0(a).bal >= v
         /\ \E g, t : Acted(g, t, a, Debited(Found0(a), v))
<1> DEFINE n == objs[a].bal - v
           t == JSetBalance(Live, a, n)
<1>1. v > 0 /\ BalanceOf(a) >= v /\ SetLive(t) /\ v \in 0 .. MaxBal BY DEF SubBalance, Do, Leave, Amounts
<1>2. PICK g \in Histories : (EIP158 => Chronicle(g)) /\ Reaches(g, Live, Live, a) BY StartOp
<1>3. IsLive(objs, a) /\ BalanceOf(a) = objs[a].bal BY <1>1, BoundsAssumption DEF BalanceOf
<1>4. /\ Found0(a) = [bal |-> objs[a].bal, nonce |-> objs[a].nonce, code |-> objs[a].code,
                      store |-> Store(objs[a]), dead |-> objs[a].suicided]
      /\ Found0(a) = Plain(objs[a])
      /\ Live.o = objs /\ Live.j = journal /\ BalanceOf(a) \in 0 .. MaxBal
  BY <1>3, LiveFound
<1>5. n \in 0 .. MaxBal BY <1>1, <1>3, <1>4, BoundsAssumption
<1> HIDE DEF n
<1>6. Reaches(g, Live, t, a) /\ Dirtying(t, a) /\ Plain(t.o[a]) = [Plain(Live.o[a]) EXCEPT !.bal = n]
  BY <1>2, <1>3, <1>4, <1>5, BalanceOp
<1>7. Found0(a).bal = objs[a].bal /\ Debited(Found0(a), v) = [Plain(objs[a]) EXCEPT !.bal = n]
  <2> DEFINE p == Found0(a)
             b == objs[a].bal
  <2>1. \E m, c, s, d : p = [bal |-> b, nonce |-> m, code |-> c, store |-> s, dead |-> d] BY <1>4
  <2>2. p = Plain(objs[a]) BY <1>4
  <2> HIDE DEF p, b
  <2>3. Debited(p, v) = [p EXCEPT !.bal = b - v] /\ p.bal = b BY <2>1, Crediting
  <2> QED BY <2>2, <2>3 DEF p, b, n
<1>8. Plain(t.o[a]) = Debited(Found0(a), v) BY <1>4, <1>6, <1>7
<1> HIDE DEF t
<1>9. Acted(g, t, a, Debited(Found0(a), v)) BY <1>1, <1>2, <1>6, <1>8 DEF Acted
<1> QED BY <1>1, <1>3, <1>7, <1>9

\* SetNonce.
LEMMA SetNonceActs ==
  ASSUME Books, NEW a \in Addrs, SetNonce(a)
  PROVE  \E n \in 0 .. MaxNonce : \E g, t : Acted(g, t, a, Numbered(Found0(a), n))
<1> DEFINE n == objs[a].nonce + 1
           t == JSetNonce(Live, a, n)
<1>1. IsLive(objs, a) /\ objs[a].nonce < MaxNonce /\ SetLive(t) BY DEF SetNonce, Do, Leave
<1>2. PICK g \in Histories : (EIP158 => Chronicle(g)) /\ Reaches(g, Live, Live, a) BY StartOp
<1>3. objs[a] \in Object /\ Found0(a) = Plain(objs[a]) /\ Live.o = objs BY <1>1, LiveFound
<1>4. n \in 0 .. MaxNonce BY <1>1, <1>3, BoundsAssumption DEF Object
<1> HIDE DEF n
<1>5. Reaches(g, Live, t, a) /\ Dirtying(t, a) /\ Plain(t.o[a]) = [Plain(Live.o[a]) EXCEPT !.nonce = n]
  BY <1>1, <1>2, <1>3, <1>4, NonceOp
<1>6. Plain(t.o[a]) = Numbered(Found0(a), n) BY <1>3, <1>5 DEF Numbered
<1> HIDE DEF t
<1>7. Acted(g, t, a, Numbered(Found0(a), n)) BY <1>1, <1>2, <1>5, <1>6 DEF Acted
<1> QED BY <1>4, <1>7

\* SetCode.
LEMMA SetCodeActs ==
  ASSUME Books, NEW a \in Addrs, SetCode(a) PROVE \E g, t : Acted(g, t, a, Programmed(Found0(a)))
<1> DEFINE t == JSetCode(Live, a)
<1>1. IsLive(objs, a) /\ ~objs[a].code /\ SetLive(t) BY DEF SetCode, Do, Leave, IsContract
<1>2. PICK g \in Histories : (EIP158 => Chronicle(g)) /\ Reaches(g, Live, Live, a) BY StartOp
<1>3. Found0(a) = Plain(objs[a]) /\ Live.o = objs BY <1>1, LiveFound
<1>4. Reaches(g, Live, t, a) /\ Dirtying(t, a) /\ Plain(t.o[a]) = [Plain(Live.o[a]) EXCEPT !.code = TRUE]
  BY <1>1, <1>2, <1>3, CodeOp
<1>5. Plain(t.o[a]) = Programmed(Found0(a)) BY <1>3, <1>4 DEF Programmed
<1> HIDE DEF t
<1>6. Acted(g, t, a, Programmed(Found0(a))) BY <1>1, <1>2, <1>4, <1>5 DEF Acted
<1> QED BY <1>6

\* SetState.
LEMMA SetStateActs ==
  ASSUME Books, NEW a \in Addrs, NEW k \in Slots, NEW w \in Words, SetState(a, k, w)
  PROVE  \E g, t : Acted(g, t, a, Stored1(Found0(a), k, w))
<1> DEFINE t == JSetState(Live, a, k, w)
           S == Store(objs[a])
<1>1. IsLive(objs, a) /\ SetLive(t) BY DEF SetState, Do, Leave, IsContract
<1>2. PICK g \in Histories : (EIP158 => Chronicle(g)) /\ Reaches(g, Live, Live, a) BY StartOp
<1>3. /\ Found0(a) = [bal |-> objs[a].bal, nonce |-> objs[a].nonce, code |-> objs[a].code,
                      store |-> S, dead |-> objs[a].suicided]
      /\ Found0(a) = Plain(objs[a]) /\ Live.o = objs /\ Live.j = journal /\ Live.x = destructs
      /\ objs[a] # None /\ Live \in Parts
  BY <1>1, LiveFound
<1>4. /\ Reaches(g, Live, t, a) /\ IsLive(t.o, a)
      /\ \/ Dirtying(t, a)
         \/ t.j = Live.j /\ t.x = Live.x /\ (EIP158 => Plain(t.o[a]) = Plain(Live.o[a]))
      /\ EIP158 => Plain(t.o[a]) = [Plain(Live.o[a]) EXCEPT !.store = [Store(Live.o[a]) EXCEPT ![k] = w]]
  BY <1>1, <1>2, <1>3, StateOp
<1> HIDE DEF t
<1>5. EIP158 => Plain(t.o[a]) = Stored1(Found0(a), k, w)
  <2>1. Stored1(Found0(a), k, w) = [Found0(a) EXCEPT !.store = [S EXCEPT ![k] = w]]
    <3> HIDE DEF S
    <3>1. Stored1(Found0(a), k, w) = [Found0(a) EXCEPT !.store = [Found0(a).store EXCEPT ![k] = w]] BY DEF Stored1
    <3>2. Found0(a).store = S BY <1>3
    <3> QED BY <3>1, <3>2
  <2> QED BY <2>1, <1>3, <1>4
<1>6. EIP158 => Dirtying(t, a) \/ (t.j = journal /\ Faces(t)[a] = Faces(Live)[a])
  <2>1. t \in Parts BY <1>4, ReachesSound
  <2>2. Faces(t)[a] = Face(t.o[a], a \in t.x) /\ Faces(Live)[a] = Face(objs[a], a \in destructs)
    BY <2>1, <1>3, FacesType
  <2>3. t.o[a] # None BY <1>4 DEF IsLive
  <2>4. ASSUME EIP158, t.j = Live.j, t.x = Live.x, Plain(t.o[a]) = Plain(Live.o[a])
        PROVE  t.j = journal /\ Faces(t)[a] = Faces(Live)[a] BY <2>2, <2>3, <2>4, <1>3 DEF Face
  <2> QED BY <2>4, <1>4
<1>7. Acted(g, t, a, Stored1(Found0(a), k, w)) BY <1>1, <1>2, <1>4, <1>5, <1>6 DEF Acted
<1> QED BY <1>7

\* SLOAD.
LEMMA LoadSlotActs ==
  ASSUME Books, NEW a \in Addrs, NEW k \in Slots, LoadSlot(a, k)
  PROVE  IsLive(objs, a) /\ \E g, t : Acted(g, t, a, Found0(a))
<1> DEFINE t == [Live EXCEPT !.o[a] = Read(Live.o[a], a, k, Live.x)]
<1>0. Live.o = objs /\ Live.j = journal /\ Live.x = destructs BY LiveFound
<1>1. IsLive(objs, a) /\ SetLive(t) BY <1>0 DEF LoadSlot, Do, Leave, IsContract
<1>2. PICK g \in Histories : (EIP158 => Chronicle(g)) /\ Reaches(g, Live, Live, a) BY StartOp
<1>3. Found0(a) = Plain(objs[a]) /\ objs[a] # None /\ Live \in Parts BY <1>1, LiveFound
<1>4. /\ Reaches(g, Live, t, a) /\ IsLive(t.o, a) /\ t.j = Live.j /\ t.x = Live.x
      /\ EIP158 => Plain(t.o[a]) = Plain(Live.o[a])
  BY <1>0, <1>1, <1>2, ReadOp
<1> HIDE DEF t
<1>5. EIP158 => t.j = journal /\ Faces(t)[a] = Faces(Live)[a]
  BY <1>4, ReachesSound, <1>0, <1>3, FacesType DEF IsLive, Face
<1>6. Acted(g, t, a, Found0(a)) BY <1>0, <1>1, <1>2, <1>3, <1>4, <1>5 DEF Acted
<1> QED BY <1>1, <1>6

\* Suicide.
LEMMA SuicideActs ==
  ASSUME Books, NEW a \in Addrs, Suicide(a) PROVE IsLive(objs, a) /\ \E g, t : Acted(g, t, a, Died(Found0(a), TRUE, 0))
<1> DEFINE t == JSuicide(Live, a)
           p == Died(Plain(objs[a]), TRUE, 0)
<1>1. IsLive(objs, a) /\ SetLive(t) BY DEF Suicide, Do, Leave, IsContract
<1>2. PICK g \in Histories : (EIP158 => Chronicle(g)) /\ Reaches(g, Live, Live, a) BY StartOp
<1>3. Found0(a) = Plain(objs[a]) /\ Live.o = objs BY <1>1, LiveFound
<1>4. Reaches(g, Live, t, a) /\ Dirtying(t, a) /\ Plain(t.o[a]) = p BY <1>1, <1>2, <1>3, SuicideOp
<1>5. p = Died(Found0(a), TRUE, 0) BY <1>3
<1> HIDE DEF t, p
<1>6. Acted(g, t, a, p) BY <1>1, <1>2, <1>4 DEF Acted
<1> QED BY <1>1, <1>5, <1>6

\* An object as its view has it.
LEMMA ViewBal ==
  ASSUME NEW s \in Parts, NEW a \in Addrs, IsLive(s.o, a), NEW b, NEW n,
         Plain(s.o[a]) = Born(n, b) PROVE s.o[a].bal = b /\ s.o[a].nonce = n
<1> DEFINE C == FALSE
           obj == s.o[a]
<1>1. Plain(obj) = [bal |-> obj.bal, nonce |-> obj.nonce, code |-> obj.code, store |-> Store(obj),
                    dead |-> obj.suicided] BY LiveObject
<1>2. Born(n, b) = [bal |-> b, nonce |-> n, code |-> C, store |-> Zeros, dead |-> C]
  <2> DEFINE F == [bal |-> 0, nonce |-> 0, code |-> C, store |-> Zeros, dead |-> C]
             G == [F EXCEPT !.nonce = n]
  <2>1. Born(n, b) = [G EXCEPT !.bal = b] BY DEF Born, FreshView
  <2> HIDE DEF C
  <2>2. G = [bal |-> 0, nonce |-> n, code |-> C, store |-> Zeros, dead |-> C] OBVIOUS
  <2> HIDE DEF G
  <2>3. [G EXCEPT !.bal = b] = [bal |-> b, nonce |-> n, code |-> C, store |-> Zeros, dead |-> C] BY <2>2
  <2> QED BY <2>1, <2>3
<1> HIDE DEF C, obj
<1>3. Plain(obj).bal = obj.bal /\ Plain(obj).nonce = obj.nonce BY <1>1
<1>4. Born(n, b).bal = b /\ Born(n, b).nonce = n BY <1>2
<1> QED BY <1>3, <1>4 DEF obj

\* The view of a created account.
LEMMA BornViews ==
  ASSUME NEW b, NEW v
  PROVE  /\ [FreshView EXCEPT !.bal = b] = Born(0, b)
         /\ [Born(0, b) EXCEPT !.nonce = 1] = Born(1, b)
         /\ [Born(1, b) EXCEPT !.bal = v] = Born(1, v)
<1> DEFINE C == FALSE
           F == [bal |-> 0, nonce |-> 0, code |-> C, store |-> Zeros, dead |-> C]
<1>1. FreshView = F /\ \A n, m : Born(n, m) = [[FreshView EXCEPT !.nonce = n] EXCEPT !.bal = m] BY DEF Born, FreshView
<1> HIDE DEF C
<1>2. ASSUME NEW n, NEW m PROVE Born(n, m) = [bal |-> m, nonce |-> n, code |-> C, store |-> Zeros, dead |-> C]
  <2> DEFINE G == [F EXCEPT !.nonce = n]
  <2>1. G = [bal |-> 0, nonce |-> n, code |-> C, store |-> Zeros, dead |-> C] OBVIOUS
  <2>2. Born(n, m) = [G EXCEPT !.bal = m] BY <1>1
  <2> HIDE DEF G
  <2> QED BY <2>1, <2>2
<1>3. [FreshView EXCEPT !.bal = b] = Born(0, b)
  <2>1. [F EXCEPT !.bal = b] = [bal |-> b, nonce |-> 0, code |-> C, store |-> Zeros, dead |-> C] OBVIOUS
  <2> QED BY <2>1, <1>1, <1>2
<1>4. [Born(0, b) EXCEPT !.nonce = 1] = Born(1, b)
  <2> DEFINE G == [bal |-> b, nonce |-> 0, code |-> C, store |-> Zeros, dead |-> C]
  <2>1. [G EXCEPT !.nonce = 1] = [bal |-> b, nonce |-> 1, code |-> C, store |-> Zeros, dead |-> C] OBVIOUS
  <2> QED BY <2>1, <1>2
<1>5. [Born(1, b) EXCEPT !.bal = v] = Born(1, v)
  <2> DEFINE G == [bal |-> b, nonce |-> 1, code |-> C, store |-> Zeros, dead |-> C]
  <2>1. [G EXCEPT !.bal = v] = [bal |-> v, nonce |-> 1, code |-> C, store |-> Zeros, dead |-> C] OBVIOUS
  <2> QED BY <2>1, <1>2
<1> QED BY <1>3, <1>4, <1>5

\* evm.create.
LEMMA CreateActs ==
  ASSUME Books, NEW a \in Addrs, NEW v \in Amounts, Create(a, v)
  PROVE  \E g, t : Acted(g, t, a, Born(1, BalanceOf(a) + v))
<1> DEFINE s1 == CreateAccount(Live, a)
           s2 == IF EIP158 THEN JSetNonce(s1, a, 1) ELSE s1
           t == JAddBalance(s2, a, v)
           b == BalanceOf(a)
<1>1. /\ IsLive(objs, a) =>
           /\ objs[a].nonce = 0 /\ ~objs[a].code
           /\ objs[a].root = Zeros /\ objs[a].pending = NoWrites /\ objs[a].dirty = NoWrites
      /\ b + v <= MaxBal /\ SetLive(t) /\ v \in 0 .. MaxBal
  BY DEF Create, Leave, Amounts
<1>2. PICK g \in Histories : (EIP158 => Chronicle(g)) /\ Reaches(g, Live, Live, a) BY StartOp
<1>3. Live.o = objs /\ Found(Live, a).bal = b /\ b \in 0 .. MaxBal BY LiveFound
<1>4. Vacant(Live.o[a]) BY <1>1, <1>3 DEF Vacant, IsLive
<1>5. Reaches(g, Live, s1, a) /\ IsLive(s1.o, a) /\ s1.o[a].bal = b /\ Plain(s1.o[a]) = Born(0, b)
  <2>1. /\ Reaches(g, Live, s1, a) /\ IsLive(s1.o, a) /\ s1.o[a].bal = Found(Live, a).bal
        /\ Plain(s1.o[a]) = [FreshView EXCEPT !.bal = Found(Live, a).bal]
    BY <1>2, <1>4, CreateAccountOp
  <2> HIDE DEF s1, b
  <2>2. [FreshView EXCEPT !.bal = b] = Born(0, b) BY BornViews
  <2> QED BY <2>1, <2>2, <1>3
<1> HIDE DEF s1
<1>6. /\ Reaches(g, Live, s2, a) /\ IsLive(s2.o, a) /\ s2.o[a].bal = b
      /\ EIP158 => Plain(s2.o[a]) = Born(1, b) /\ s2.o[a].nonce = 1 /\ Dirtying(s2, a)
  <2>1. CASE EIP158
    <3> DEFINE u == JSetNonce(s1, a, 1)
    <3>1. 1 \in 0 .. MaxNonce BY BoundsAssumption
    <3>2. /\ Reaches(g, Live, u, a) /\ IsLive(u.o, a) /\ Dirtying(u, a)
          /\ Plain(u.o[a]) = [Plain(s1.o[a]) EXCEPT !.nonce = 1]
      BY <1>5, <3>1, NonceOp
    <3>3. s2 = u BY <2>1
    <3> HIDE DEF u, s2, b
    <3>4. Plain(u.o[a]) = Born(1, b) BY <3>2, <1>5, BornViews
    <3>5. u \in Parts BY <3>2, ReachesSound
    <3>6. u.o[a].bal = b /\ u.o[a].nonce = 1 BY <3>2, <3>4, <3>5, ViewBal
    <3> QED BY <3>2, <3>3, <3>4, <3>6
  <2>2. CASE ~EIP158 BY <2>2, <1>5
  <2> QED BY <2>1, <2>2
<1> HIDE DEF s2
<1>7. Found(s2, a) = s2.o[a] BY <1>6 DEF Found
<1>8. /\ Reaches(g, Live, t, a)
      /\ Dirtying(t, a) \/ t = s2
      /\ Plain(t.o[a]) = [Plain(s2.o[a]) EXCEPT !.bal = b + v]
  <2>1. Found(s2, a).bal + v <= MaxBal BY <1>1, <1>6, <1>7
  <2>2. /\ Reaches(g, Live, t, a)
        /\ Dirtying(t, a) \/ (IsLive(s2.o, a) /\ t = s2)
        /\ Plain(t.o[a]) = [Plain(Found(s2, a)) EXCEPT !.bal = Found(s2, a).bal + v]
    BY <1>1, <1>6, <2>1, AddBalanceOp
  <2> HIDE DEF t, b
  <2> QED BY <2>2, <1>6, <1>7
<1> HIDE DEF t
<1>9. EIP158 => Dirtying(t, a) /\ Plain(t.o[a]) = Born(1, b + v)
  <2> DEFINE m == b + v
  <2>1. EIP158 => Plain(t.o[a]) = [Born(1, b) EXCEPT !.bal = m] BY <1>6, <1>8
  <2> HIDE DEF m
  <2>2. [Born(1, b) EXCEPT !.bal = m] = Born(1, m) BY BornViews
  <2> QED BY <2>1, <2>2, <1>6, <1>8 DEF m
<1>10. Acted(g, t, a, Born(1, BalanceOf(a) + v)) BY <1>1, <1>2, <1>8, <1>9 DEF Acted
<1> QED BY <1>10

-----------------------------------------------------------------------------
(* Snapshots and reverts.                                                  *)

\* Snapshot keeps the invariant.
LEMMA SnapshotKeeps ==
  ASSUME Books, Snapshot PROVE Books'
<1> DEFINE n == Len(revisions)
           V == View(objs, destructs)
<1>1. /\ mode = "run" /\ mode' = "run" /\ target' = target /\ goal' = goal
      /\ revisions' = Append(revisions, Len(journal)) /\ saved' = Append(saved, V)
      /\ journal' = journal /\ objs' = objs /\ dirties' = dirties /\ destructs' = destructs
      /\ UNCHANGED <<diskVars, flushVars, building, txs, blocks>>
  BY DEF Snapshot, Running, liveVars, evmVars
<1>2. Ctx' = Ctx /\ Live' = Live /\ Live.j = journal /\ Live.o = objs /\ Live.x = destructs
  BY <1>1 DEF Ctx, Live, diskVars, flushVars
<1>3. Sound(Ctx, Live) /\ Live \in Parts BY DEF Books, Sound
<1>4. Len(journal) \in Nat BY <1>2, <1>3, LenProperties DEF Parts
<1>5. /\ Bound = Len(journal) /\ Bound' = Len(journal) /\ target \in Nat /\ target = 0
      /\ revisions \in Seq(Nat) /\ saved \in Seq(Worlds) /\ Len(saved) = n
      /\ \A i \in 1 .. n : revisions[i] <= Len(journal)
      /\ \A i, k \in 1 .. n : i < k => revisions[i] <= revisions[k]
  BY <1>1 DEF Books, Marks, Bound
<1>6. V \in Worlds /\ (EIP158 => V = SeenIn(Faces(Live)))
  <2> DEFINE L == Live
  <2>1. Sound(Ctx, L) /\ L.o = objs /\ L.x = destructs BY <1>2, <1>3
  <2> HIDE DEF L
  <2>2. View(L.o, L.x) \in Worlds /\ (EIP158 => View(L.o, L.x) = SeenIn(Faces(L))) BY <2>1, ViewSeen
  <2> QED BY <2>1, <2>2 DEF L
<1> HIDE DEF V
<1>7. /\ n \in Nat /\ revisions' \in Seq(Nat) /\ saved' \in Seq(Worlds)
      /\ Len(revisions') = n + 1 /\ Len(saved') = n + 1
      /\ \A i \in 1 .. n : revisions'[i] = revisions[i] /\ saved'[i] = saved[i]
      /\ revisions'[n + 1] = Len(journal) /\ saved'[n + 1] = V
  BY <1>1, <1>4, <1>5, <1>6, AppendProperties, LenProperties
<1>8. \A i \in 1 .. n + 1 : i \in 1 .. n \/ i = n + 1 BY <1>7
<1>9. Marks'
  <2>1. \A i \in 1 .. n + 1 : revisions'[i] <= Len(journal) BY <1>4, <1>5, <1>7, <1>8
  <2>2. ASSUME NEW i \in 1 .. n + 1, NEW k \in 1 .. n + 1, i < k PROVE revisions'[i] <= revisions'[k]
    <3>1. i \in 1 .. n BY <2>2, <1>7
    <3> QED BY <2>2, <3>1, <1>5, <1>7, <1>8
  <2> QED BY <2>1, <2>2, <1>1, <1>4, <1>5, <1>7 DEF Marks
<1>10. Ranges' BY <1>1 DEF Books, Ranges
<1>11. ASSUME EIP158 PROVE Agrees(Ctx') /\ \E h \in Histories : Chronicle(h)'
  <2>1. PICK h \in Histories : Chronicle(h) BY <1>11 DEF Books
  <2>2. /\ Told(h, Live) /\ Began(Ctx, h[0]) /\ Settled(h, journal, Len(journal))
        /\ \A i \in 1 .. n : Settled(h, journal, revisions[i])
        /\ \A i \in 1 .. n : saved[i] = SeenIn(h[revisions[i]])
    BY <2>1, <1>5 DEF Chronicle
  <2>3. h[Len(journal)] = Faces(Live) BY <2>2, <1>2 DEF Told
  <2>4. \A i \in 1 .. n + 1 : Settled(h, journal, revisions'[i]) /\ saved'[i] = SeenIn(h[revisions'[i]])
    BY <2>2, <2>3, <1>6, <1>7, <1>8, <1>11
  <2>5. /\ Told(h, Live') /\ Began(Ctx', h[0]) /\ Settled(h, journal', Bound')
        /\ \A i \in 1 .. Len(revisions') : Settled(h, journal', revisions'[i])
        /\ \A i \in 1 .. Len(revisions') : saved'[i] = SeenIn(h[revisions'[i]])
        /\ mode' # "revert"
    BY <2>2, <2>4, <1>1, <1>2, <1>5, <1>7
  <2>6. Chronicle(h)' BY <2>5 DEF Chronicle
  <2> QED BY <2>1, <2>6, <1>2, <1>11 DEF Books
<1> QED BY <1>2, <1>3, <1>9, <1>10, <1>11 DEF Books

\* The first elements of a sequence.
LEMMA Shortened ==
  ASSUME NEW S, NEW q \in Seq(S), NEW i \in 1 .. Len(q)
  PROVE  LET p == SubSeq(q, 1, i - 1)
         IN /\ p \in Seq(S) /\ Len(p) = i - 1 /\ Len(q) \in Nat /\ i \in Nat
            /\ \A k \in 1 .. i - 1 : p[k] = q[k] /\ k \in 1 .. Len(q) /\ k < i
<1> DEFINE p == SubSeq(q, 1, i - 1)
<1>1. Len(q) \in Nat /\ \A k \in 1 .. Len(q) : q[k] \in S BY LenProperties, ElementOfSeq
<1>2. 1 \in Int /\ i - 1 \in Int /\ \A k \in 1 .. i - 1 : q[k] \in S BY <1>1
<1>3. /\ p \in Seq(S) /\ Len(p) = IF 1 <= i - 1 THEN (i - 1) - 1 + 1 ELSE 0
      /\ \A k \in 1 .. (i - 1) - 1 + 1 : p[k] = q[1 + k - 1]
  BY <1>2, SubSeqProperties
<1> HIDE DEF p
<1>4. Len(p) = i - 1 BY <1>1, <1>3
<1>5. ASSUME NEW k \in 1 .. i - 1 PROVE p[k] = q[k] /\ k \in 1 .. Len(q) /\ k < i
  BY <1>1, <1>3
<1> QED BY <1>1, <1>3, <1>4, <1>5 DEF p

\* RevertToSnapshot starts.
LEMMA StartRevertKeeps ==
  ASSUME Books, NEW i \in DOMAIN revisions, StartRevert(i) PROVE Books'
<1> DEFINE n == Len(revisions)
<1>1. /\ mode = "run" /\ mode' = "revert" /\ target' = revisions[i] /\ goal' = saved[i]
      /\ revisions' = SubSeq(revisions, 1, i - 1) /\ saved' = SubSeq(saved, 1, i - 1)
      /\ journal' = journal /\ objs' = objs /\ dirties' = dirties /\ destructs' = destructs
      /\ UNCHANGED <<diskVars, flushVars, building, txs, blocks>>
  BY DEF StartRevert, Running, liveVars, evmVars
<1>2. Ctx' = Ctx /\ Live' = Live /\ Live.j = journal BY <1>1 DEF Ctx, Live, diskVars, flushVars
<1>3. Sound(Ctx, Live) BY DEF Books
<1>4. /\ Bound = Len(journal) /\ Bound' = target'
      /\ revisions \in Seq(Nat) /\ saved \in Seq(Worlds) /\ Len(saved) = n
      /\ \A k \in 1 .. n : revisions[k] <= Len(journal)
      /\ \A j, k \in 1 .. n : j < k => revisions[j] <= revisions[k]
  BY <1>1 DEF Books, Marks, Bound
<1>5. i \in 1 .. n /\ revisions[i] \in Nat /\ i \in 1 .. Len(saved)
  BY <1>4, LenProperties, ElementOfSeq
<1>6. /\ revisions' \in Seq(Nat) /\ Len(revisions') = i - 1 /\ i \in Nat
      /\ \A k \in 1 .. i - 1 : revisions'[k] = revisions[k] /\ k \in 1 .. n /\ k < i
  <2> DEFINE q == revisions
             p == SubSeq(q, 1, i - 1)
  <2>1. q \in Seq(Nat) /\ i \in 1 .. Len(q) BY <1>4, <1>5
  <2>2. p = revisions' /\ Len(q) = n BY <1>1
  <2> HIDE DEF q
  <2>3. /\ p \in Seq(Nat) /\ Len(p) = i - 1 /\ Len(q) \in Nat /\ i \in Nat
        /\ \A k \in 1 .. i - 1 : p[k] = q[k] /\ k \in 1 .. Len(q) /\ k < i
    BY <2>1, Shortened
  <2> HIDE DEF p
  <2> QED BY <2>2, <2>3 DEF q
<1>7. /\ saved' \in Seq(Worlds) /\ Len(saved') = i - 1
      /\ \A k \in 1 .. i - 1 : saved'[k] = saved[k]
  BY <1>1, <1>4, <1>5, Shortened
<1>8. Marks' BY <1>1, <1>4, <1>5, <1>6, <1>7 DEF Marks
<1>9. Ranges' BY <1>1 DEF Books, Ranges
<1>10. ASSUME EIP158 PROVE Agrees(Ctx') /\ \E h \in Histories : Chronicle(h)'
  <2>1. PICK h \in Histories : Chronicle(h) BY <1>10 DEF Books
  <2>2. /\ Told(h, Live) /\ Began(Ctx, h[0])
        /\ \A k \in 1 .. n : Settled(h, journal, revisions[k])
        /\ \A k \in 1 .. n : saved[k] = SeenIn(h[revisions[k]])
    BY <2>1 DEF Chronicle
  <2>3. /\ Told(h, Live') /\ Began(Ctx', h[0]) /\ Settled(h, journal', Bound')
        /\ \A k \in 1 .. Len(revisions') : Settled(h, journal', revisions'[k])
        /\ \A k \in 1 .. Len(revisions') : saved'[k] = SeenIn(h[revisions'[k]])
        /\ goal' = SeenIn(h[target'])
    BY <2>2, <1>1, <1>2, <1>4, <1>5, <1>6, <1>7
  <2>4. Chronicle(h)' BY <2>3 DEF Chronicle
  <2> QED BY <2>1, <2>4, <1>2, <1>10 DEF Books
<1> QED BY <1>2, <1>3, <1>8, <1>9, <1>10 DEF Books

\* It ends.
LEMMA FinishRevertKeeps ==
  ASSUME Books, FinishRevert PROVE Books'
<1>1. /\ mode = "revert" /\ mode' = "run" /\ target' = 0 /\ Len(journal) = target
      /\ revisions' = revisions /\ saved' = saved
      /\ journal' = journal /\ objs' = objs /\ dirties' = dirties /\ destructs' = destructs
      /\ UNCHANGED <<diskVars, flushVars, building, txs, blocks>>
  BY DEF FinishRevert, liveVars, evmVars
<1>2. Ctx' = Ctx /\ Live' = Live BY <1>1 DEF Ctx, Live, diskVars, flushVars
<1>3. Bound = Len(journal) /\ Bound' = Len(journal) BY <1>1 DEF Bound
<1>4. Marks' BY <1>1, <1>3 DEF Books, Marks
<1>5. Ranges' BY <1>1 DEF Books, Ranges
<1>6. ASSUME EIP158 PROVE Agrees(Ctx') /\ \E h \in Histories : Chronicle(h)'
  <2>1. PICK h \in Histories : Chronicle(h) BY <1>6 DEF Books
  <2>2. Chronicle(h)' BY <2>1, <1>1, <1>2, <1>3 DEF Chronicle
  <2> QED BY <2>1, <2>2, <1>2, <1>6 DEF Books
<1> QED BY <1>2, <1>4, <1>5, <1>6 DEF Books

\* journalEntry.revert, by the kind of the entry.
LEMMA Undone ==
  ASSUME NEW s \in Parts, NEW e \in Entries, IsLive(s.o, e.addr)
  PROVE  \E O, X :
           /\ Undo(s, e) = [o |-> O, j |-> s.j, d |-> s.d, x |-> X]
           /\ \/ e.op = "create" /\ O = [s.o EXCEPT ![e.addr] = None] /\ X = s.x
              \/ /\ e.op = "reset" /\ O = [s.o EXCEPT ![e.addr] = e.prev.obj]
                 /\ X = IF e.prev.destruct THEN s.x ELSE s.x \ {e.addr}
              \/ e.op \in Writes /\ O = [s.o EXCEPT ![e.addr] = Restored(s.o[e.addr], e)] /\ X = s.x
<1> DEFINE a == e.addr
           old == s.o[a]
<1>1. s = [o |-> s.o, j |-> s.j, d |-> s.d, x |-> s.x] BY DEF Parts
<1>2. e.op \in Writes \cup {"create", "reset"} BY EntryKind
<1>3. ASSUME NEW O PROVE [s EXCEPT !.o = O] = [o |-> O, j |-> s.j, d |-> s.d, x |-> s.x] BY <1>1
<1>4. CASE e.op = "create"
  <2> DEFINE O == [s.o EXCEPT ![a] = None]
  <2>1. Undo(s, e) = [s EXCEPT !.o = O] BY <1>4 DEF Undo
  <2> HIDE DEF O
  <2>2. Undo(s, e) = [o |-> O, j |-> s.j, d |-> s.d, x |-> s.x] BY <2>1, <1>3
  <2> QED BY <2>2, <1>4 DEF O
<1>5. CASE e.op = "reset"
  <2> DEFINE O == [s.o EXCEPT ![a] = e.prev.obj]
             X == IF e.prev.destruct THEN s.x ELSE s.x \ {a}
             u == [s EXCEPT !.o = O]
  <2>1. Undo(s, e) = [u EXCEPT !.x = X]
    BY <1>5 DEF Undo, UndoReset
  <2> HIDE DEF O, X
  <2>2. u = [o |-> O, j |-> s.j, d |-> s.d, x |-> s.x] BY <1>3
  <2> HIDE DEF u
  <2>3. Undo(s, e) = [o |-> O, j |-> s.j, d |-> s.d, x |-> X] BY <2>1, <2>2
  <2> QED BY <2>3, <1>5 DEF O, X
<1>6. CASE e.op \in Writes
  <2> DEFINE N == Restored(old, e)
             O == [s.o EXCEPT ![a] = N]
  <2>1. Undo(s, e) = [s EXCEPT !.o = O]
    <3>1. CASE e.op = "suicide"
      <4>1. Undo(s, e) = [s EXCEPT !.o[a].suicided = e.prev[1], !.o[a].bal = e.prev[2]] BY <3>1 DEF Undo
      <4>2. N = [old EXCEPT !.suicided = e.prev[1], !.bal = e.prev[2]] BY <3>1 DEF Restored
      <4>3. [s EXCEPT !.o[a].suicided = e.prev[1], !.o[a].bal = e.prev[2]]
              = [s EXCEPT !.o = [[s.o EXCEPT ![a] = [old EXCEPT !.suicided = e.prev[1]]] EXCEPT ![a] =
                   [[s.o EXCEPT ![a] = [old EXCEPT !.suicided = e.prev[1]]][a] EXCEPT !.bal = e.prev[2]]]]
        <5> DEFINE m == [old EXCEPT !.suicided = e.prev[1]]
                   p == [s.o EXCEPT ![a] = m]
                   u == [s EXCEPT !.o = p]
        <5>1. [s EXCEPT !.o[a].suicided = e.prev[1], !.o[a].bal = e.prev[2]]
                = [u EXCEPT !.o = [u.o EXCEPT ![a] = [u.o[a] EXCEPT !.bal = e.prev[2]]]] OBVIOUS
        <5> HIDE DEF p
        <5>2. u = [o |-> p, j |-> s.j, d |-> s.d, x |-> s.x] BY <1>3
        <5> HIDE DEF u
        <5>3. u.o = p BY <5>2
        <5> DEFINE q == [p EXCEPT ![a] = [p[a] EXCEPT !.bal = e.prev[2]]]
        <5>4. [s EXCEPT !.o[a].suicided = e.prev[1], !.o[a].bal = e.prev[2]] = [u EXCEPT !.o = q] BY <5>1, <5>3
        <5> HIDE DEF q
        <5>5. [u EXCEPT !.o = q] = [o |-> q, j |-> s.j, d |-> s.d, x |-> s.x] BY <5>2
        <5>6. [s EXCEPT !.o = q] = [o |-> q, j |-> s.j, d |-> s.d, x |-> s.x] BY <1>3
        <5>7. [s EXCEPT !.o[a].suicided = e.prev[1], !.o[a].bal = e.prev[2]] = [s EXCEPT !.o = q] BY <5>4, <5>5, <5>6
        <5> QED BY <5>7 DEF q, p
      <4>4. s.o \in [Addrs -> Object \cup {None}] /\ a \in Addrs BY EntryKind DEF Parts
      <4>5. [s.o EXCEPT ![a] = [old EXCEPT !.suicided = e.prev[1]]][a] = [old EXCEPT !.suicided = e.prev[1]] BY <4>4
      <4>6. [[s.o EXCEPT ![a] = [old EXCEPT !.suicided = e.prev[1]]] EXCEPT ![a] =
                [[s.o EXCEPT ![a] = [old EXCEPT !.suicided = e.prev[1]]][a] EXCEPT !.bal = e.prev[2]]] = O
        <5> DEFINE m == [old EXCEPT !.suicided = e.prev[1]]
                   r == [m EXCEPT !.bal = e.prev[2]]
        <5>1. N = r BY <4>2
        <5> HIDE DEF m, N
        <5>2. [s.o EXCEPT ![a] = m][a] = m BY <4>4
        <5>3. [[s.o EXCEPT ![a] = m] EXCEPT ![a] = r] = [s.o EXCEPT ![a] = r]
          <6> HIDE DEF r
          <6> QED BY <4>4
        <5> QED BY <5>1, <5>2, <5>3 DEF m
      <4> HIDE DEF O, N
      <4> QED BY <4>1, <4>3, <4>6
    <3>2. CASE e.op = "balance"
      BY <3>2 DEF Undo, Restored
    <3>3. CASE e.op = "nonce"
      BY <3>3 DEF Undo, Restored
    <3>4. CASE e.op = "code"
      <4> DEFINE C == TRUE
      <4>1. Undo(s, e) = [s EXCEPT !.o[a].code = e.prev, !.o[a].dirtyCode = C] BY <3>4 DEF Undo
      <4>2. N = [old EXCEPT !.code = e.prev, !.dirtyCode = C] BY <3>4 DEF Restored
      <4> HIDE DEF C
      <4> DEFINE m == [old EXCEPT !.code = e.prev]
                 p == [s.o EXCEPT ![a] = m]
                 u == [s EXCEPT !.o = p]
                 r == [m EXCEPT !.dirtyCode = C]
                 q == [p EXCEPT ![a] = [p[a] EXCEPT !.dirtyCode = C]]
      <4>3. [s EXCEPT !.o[a].code = e.prev, !.o[a].dirtyCode = C]
              = [u EXCEPT !.o = [u.o EXCEPT ![a] = [u.o[a] EXCEPT !.dirtyCode = C]]] OBVIOUS
      <4>4. s.o \in [Addrs -> Object \cup {None}] /\ a \in Addrs BY EntryKind DEF Parts
      <4>5. N = r BY <4>2
      <4> HIDE DEF m, N
      <4>6. p[a] = m BY <4>4
      <4>7. [p EXCEPT ![a] = r] = [s.o EXCEPT ![a] = r]
        <5> HIDE DEF r
        <5> QED BY <4>4
      <4>8. q = O BY <4>5, <4>6, <4>7
      <4> HIDE DEF p
      <4>9. u = [o |-> p, j |-> s.j, d |-> s.d, x |-> s.x] BY <1>3
      <4> HIDE DEF u
      <4>10. u.o = p BY <4>9
      <4>11. Undo(s, e) = [u EXCEPT !.o = q] BY <4>1, <4>3, <4>10
      <4> HIDE DEF q
      <4>12. [u EXCEPT !.o = q] = [o |-> q, j |-> s.j, d |-> s.d, x |-> s.x] BY <4>9
      <4>13. [s EXCEPT !.o = q] = [o |-> q, j |-> s.j, d |-> s.d, x |-> s.x] BY <1>3
      <4> HIDE DEF O
      <4> QED BY <4>8, <4>11, <4>12, <4>13
    <3>5. CASE e.op = "storage"
      BY <3>5 DEF Undo, Restored
    <3>6. CASE e.op = "touch"
      <4>1. Undo(s, e) = s /\ N = old BY <3>6 DEF Undo, Restored
      <4>2. O = s.o BY <4>1 DEF Parts
      <4> HIDE DEF O
      <4>3. [s EXCEPT !.o = O] = [o |-> s.o, j |-> s.j, d |-> s.d, x |-> s.x] BY <1>3, <4>2
      <4> QED BY <4>1, <4>3, <1>1
    <3> QED BY <3>1, <3>2, <3>3, <3>4, <3>5, <3>6, <1>6 DEF Writes
  <2> HIDE DEF O
  <2>2. Undo(s, e) = [o |-> O, j |-> s.j, d |-> s.d, x |-> s.x] BY <2>1, <1>3
  <2> QED BY <2>2, <1>6 DEF O
<1> QED BY <1>2, <1>4, <1>5, <1>6

\* One turn of journal.revert's loop is such a step.
LEMMA UndoLastStep ==
  ASSUME NEW c, NEW s, Sound(c, s), Len(s.j) > 0 PROVE UndoStep(s, UndoLast(s), s.j[Len(s.j)])
<1> DEFINE e == s.j[Len(s.j)]
           u == Undo(s, e)
           J == SubSeq(s.j, 1, Len(s.j) - 1)
           D == [b \in Addrs |-> IF b \in Dirtied(e) THEN s.d[b] - 1 ELSE s.d[b]]
           t == UndoLast(s)
<1>1. s \in Parts /\ s.j \in Seq(Entries) BY DEF Sound, Parts
<1>2. Len(s.j) \in 1 .. Len(s.j) BY <1>1, LenProperties
<1>3. e \in Entries /\ IsLive(s.o, e.addr)
  BY <1>1, <1>2, ElementOfSeq DEF Sound, Named
<1>4. t = [u EXCEPT !.j = J, !.d = D] BY DEF UndoLast
<1> HIDE DEF e
<1>5. PICK O, X :
        /\ u = [o |-> O, j |-> s.j, d |-> s.d, x |-> X]
        /\ \/ e.op = "create" /\ O = [s.o EXCEPT ![e.addr] = None] /\ X = s.x
           \/ /\ e.op = "reset" /\ O = [s.o EXCEPT ![e.addr] = e.prev.obj]
              /\ X = IF e.prev.destruct THEN s.x ELSE s.x \ {e.addr}
           \/ e.op \in Writes /\ O = [s.o EXCEPT ![e.addr] = Restored(s.o[e.addr], e)] /\ X = s.x
  BY <1>1, <1>3, Undone
<1>6. t = [o |-> O, j |-> J, d |-> D, x |-> X]
  <2> DEFINE v == [u EXCEPT !.j = J]
  <2> HIDE DEF J, D, t
  <2>1. t = [v EXCEPT !.d = D] BY <1>4
  <2> HIDE DEF u
  <2>2. v = [o |-> O, j |-> J, d |-> s.d, x |-> X] BY <1>5
  <2> HIDE DEF v
  <2> QED BY <2>1, <2>2
<1> HIDE DEF t, u
<1>7. UndoStep(s, t, e) BY <1>1, <1>2, <1>5, <1>6 DEF UndoStep, e
<1> QED BY <1>7 DEF t, e

\* What a turn of the loop leaves.
LEMMA UndoEntryIs ==
  ASSUME Books, UndoEntry
  PROVE  /\ mode = "revert" /\ Len(journal) \in Nat /\ Len(journal) > target /\ target \in Nat
         /\ Live' = UndoLast(Live) /\ Ctx' = Ctx
         /\ UndoStep(Live, Live', journal[Len(journal)]) /\ Sound(Ctx, Live')
         /\ Len(journal') = Len(journal) - 1 /\ journal' = Live'.j
         /\ \A i \in 1 .. Len(journal') : journal'[i] = journal[i]
         /\ UNCHANGED <<revVars, evmVars>>
<1> DEFINE e == journal[Len(journal)]
           s == Live
           t == UndoLast(Live)
<1>1. /\ mode = "revert" /\ Len(journal) > target /\ SetLive(t)
      /\ dirty' = IF e.op = "create" THEN dirty \ {e.addr} ELSE dirty
      /\ UNCHANGED <<diskVars, pending, snapAcc, snapSto>> /\ UNCHANGED <<revVars, evmVars>>
  BY DEF UndoEntry
<1>2. Sound(Ctx, s) /\ s \in Parts /\ s.j = journal /\ target \in Nat BY DEF Books, Sound, Live, Marks
<1>3. Len(journal) \in Nat /\ Len(journal) > 0 /\ journal \in Seq(Entries) BY <1>1, <1>2, LenProperties DEF Parts
<1>4. UndoStep(s, t, e)
  <2> HIDE DEF s
  <2>1. UndoStep(s, UndoLast(s), s.j[Len(s.j)]) BY <1>2, <1>3, UndoLastStep
  <2> QED BY <2>1, <1>2 DEF s
<1> HIDE DEF t
<1>5. Sound(Ctx, t)
  <2> HIDE DEF s, e
  <2> QED BY <1>2, <1>4, UndoKeeps
<1>6. t \in Parts BY <1>5 DEF Sound
<1>7. Live' = t /\ journal' = t.j BY <1>1, <1>6, LiveNext DEF SetLive
<1>8. dirty' = dirty
  <2>1. Len(journal) \in 1 .. Len(journal) BY <1>3
  <2>2. e.op = "create" => e.addr \notin dirty
    BY <1>2, <2>1, CtxFields DEF Sound, Present
  <2> QED BY <2>2, <1>1
<1>9. Ctx' = Ctx BY <1>1, <1>8 DEF Ctx, diskVars
<1>10. Len(journal') = Len(journal) - 1 /\ \A i \in 1 .. Len(journal') : journal'[i] = journal[i]
  BY <1>2, <1>4, <1>7, <1>3, DropEntry DEF UndoStep
<1> QED BY <1>1, <1>2, <1>3, <1>4, <1>5, <1>7, <1>9, <1>10 DEF t

\* It keeps the invariant.
LEMMA UndoEntryKeeps ==
  ASSUME Books, UndoEntry PROVE Books'
<1> DEFINE e == journal[Len(journal)]
           s == Live
           t == Live'
<1>1. /\ mode = "revert" /\ Len(journal) \in Nat /\ Len(journal) > target /\ target \in Nat
      /\ Ctx' = Ctx /\ UndoStep(s, t, e) /\ Sound(Ctx, t)
      /\ Len(journal') = Len(journal) - 1 /\ journal' = t.j
      /\ \A i \in 1 .. Len(journal') : journal'[i] = journal[i]
      /\ UNCHANGED <<revVars, evmVars>>
  BY UndoEntryIs
<1>2. /\ mode' = mode /\ target' = target /\ revisions' = revisions /\ saved' = saved /\ goal' = goal
      /\ building' = building /\ txs' = txs /\ blocks' = blocks
  BY <1>1 DEF revVars, evmVars
<1>3. Sound(Ctx, s) /\ s.j = journal /\ Marks BY DEF Books, Live
<1>4. Bound = target /\ Bound' = target /\ target <= Len(journal') BY <1>1, <1>2 DEF Bound
<1>5. Marks' BY <1>1, <1>2, <1>3, <1>4 DEF Marks
<1>6. Ranges' BY <1>2 DEF Books, Ranges
<1>7. ASSUME EIP158 PROVE Agrees(Ctx') /\ \E h \in Histories : Chronicle(h)'
  <2>1. PICK h \in Histories : Chronicle(h) BY <1>7 DEF Books
  <2>2. /\ Told(h, s) /\ Began(Ctx, h[0]) /\ Settled(h, journal, target)
        /\ \A k \in 1 .. Len(revisions) : Settled(h, journal, revisions[k])
        /\ \A k \in 1 .. Len(revisions) : saved[k] = SeenIn(h[revisions[k]])
        /\ goal = SeenIn(h[target])
    BY <2>1, <1>1, <1>4 DEF Chronicle
  <2>3. e.op = "reset" => (e.addr \in t.x <=> e.prev.destruct)
    <3> SUFFICES ASSUME e.op = "reset" PROVE e.addr \in t.x <=> e.prev.destruct OBVIOUS
    <3>1. Marked(Ctx, s) /\ Len(s.j) \in 1 .. Len(s.j) BY <1>1, <1>3, <1>7 DEF Sound
    <3>2. t.x = IF e.prev.destruct THEN s.x ELSE s.x \ {e.addr} BY <1>1 DEF UndoStep, Writes
    <3>3. CASE Ctx.snap
      BY <3>1, <3>3, <1>3, <3>2 DEF Marked
    <3>4. CASE ~Ctx.snap
      BY <3>1, <3>4, <1>3, <3>2 DEF Marked
    <3> QED BY <3>3, <3>4
  <2>4. Told(h, t)
    <3> DEFINE c == Ctx
    <3>1. /\ Sound(c, s) /\ Sound(c, t) /\ UndoStep(s, t, e) /\ Told(h, s)
          /\ e.op = "reset" => (e.addr \in t.x <=> e.prev.destruct)
      BY <2>2, <2>3, <1>1, <1>3
    <3> HIDE DEF c, s, t, e
    <3> QED BY <3>1, ToldUndo
  <2>5. ASSUME NEW n \in 0 .. target, Settled(h, journal, n) PROVE Settled(h, journal', n)
    BY <1>1, <1>4, <2>5, SettledStays
  <2>6. \A k \in 1 .. Len(revisions) : revisions[k] \in 0 .. target
    BY <1>3, <1>4, ElementOfSeq, <1>1 DEF Marks
  <2>7. /\ Told(h, Live') /\ Began(Ctx', h[0]) /\ Settled(h, journal', Bound')
        /\ \A k \in 1 .. Len(revisions') : Settled(h, journal', revisions'[k])
        /\ \A k \in 1 .. Len(revisions') : saved'[k] = SeenIn(h[revisions'[k]])
        /\ goal' = SeenIn(h[target'])
    BY <2>2, <2>4, <2>5, <2>6, <1>1, <1>2, <1>4
  <2>8. Chronicle(h)' BY <2>7 DEF Chronicle
  <2> QED BY <2>1, <2>8, <1>1, <1>7 DEF Books
<1> QED BY <1>1, <1>5, <1>6, <1>7 DEF Books

-----------------------------------------------------------------------------
(* The ends of transactions and of blocks.                                 *)

\* Between two transactions.
Rest(c, s) ==
  /\ Sound(c, s) /\ Lodged(c) /\ s.j = << >>
  /\ EIP158 => Agrees(c) /\ Began(c, Faces(s))

\* A state between two transactions, no revert under way.
AtRest ==
  /\ Rest(Ctx, Live) /\ (Byzantium => trie = base) /\ Ranges
  /\ mode = "run" /\ target = 0 /\ revisions = << >> /\ saved = << >>

\* The invariant holds between two transactions.
LEMMA RestBooks == AtRest => Books
<1> SUFFICES ASSUME AtRest PROVE Books OBVIOUS
<1>0. /\ Rest(Ctx, Live) /\ (Byzantium => trie = base) /\ Ranges
      /\ mode = "run" /\ target = 0 /\ revisions = << >> /\ saved = << >>
  BY DEF AtRest
<1> DEFINE s == Live
           c == Ctx
           h == [n \in Nat |-> Faces(s)]
<1>1. Sound(c, s) /\ Lodged(c) /\ s.j = << >> /\ (EIP158 => Agrees(c) /\ Began(c, Faces(s))) BY <1>0 DEF Rest
<1>2. journal = << >> /\ c.trie = trie /\ c.base = base BY <1>1 DEF Live, Ctx
<1>3. Stocked(c) BY <1>0, <1>1, <1>2 DEF Stocked
<1>4. Bound = 0 /\ Len(journal) = 0 BY <1>0, <1>2 DEF Bound
<1>5. Marks
  BY <1>0, <1>4 DEF Marks
<1>6. \E i \in Histories : i[0] = Faces(s) /\ Told(i, s)
  <2>1. Faces(s) \in [Addrs -> Facets] BY <1>1, FacesType DEF Sound
  <2>2. h \in Histories /\ h[0] = Faces(s) BY <2>1 DEF Histories
  <2>3. h[Len(s.j)] = Faces(s) /\ Len(s.j) = 0 BY <1>1, <2>2
  <2> HIDE DEF h
  <2>4. Told(h, s) BY <2>3 DEF Told
  <2> QED BY <2>2, <2>4
<1>7. ASSUME EIP158 PROVE Agrees(Ctx) /\ \E i \in Histories : Chronicle(i)
  <2>1. PICK i \in Histories : i[0] = Faces(s) /\ Told(i, s) BY <1>6
  <2>2. Settled(i, journal, Bound) BY <1>4 DEF Settled
  <2>3. Began(c, i[0]) BY <1>1, <1>7, <2>1
  <2>4. Chronicle(i) BY <2>1, <2>2, <2>3, <1>0 DEF Chronicle
  <2> QED BY <2>4, <1>1, <1>7
<1> QED BY <1>0, <1>1, <1>3, <1>5, <1>7 DEF Books

\* So it does after a step that leads there.
LEMMA RestKeeps ==
  ASSUME Rest(Ctx', Live'), Byzantium => trie' = base', Ranges',
         mode' = "run", target' = 0, revisions' = << >>, saved' = << >> PROVE Books'
<1>1. AtRest' BY DEF AtRest
<1> QED BY <1>1, RestBooks, PTL

\* newObject, from an account.
LEMMA LoadedFacts ==
  ASSUME NEW acct \in Stored \cup {None}
  PROVE  LET obj == Loaded(acct)
         IN /\ acct = None => obj = None
            /\ acct # None =>
                 /\ obj \in Object /\ obj # None /\ ~obj.deleted /\ obj.code = acct.code /\ obj.root = acct.root
                 /\ obj.origin = NoWrites /\ obj.pending = NoWrites /\ obj.dirty = NoWrites
            /\ Plain(obj) = AccountView(acct)
<1> DEFINE obj == Loaded(acct)
<1>1. CASE acct = None BY <1>1 DEF Loaded, Plain, AccountView
<1>2. CASE acct # None
  <2> DEFINE C == FALSE
             N == [bal |-> acct.bal, nonce |-> acct.nonce, code |-> acct.code, root |-> acct.root,
                   origin |-> NoWrites, pending |-> NoWrites, dirty |-> NoWrites,
                   dirtyCode |-> C, suicided |-> C, deleted |-> C]
  <2>1. obj = N
    <3> DEFINE n0 == [bal |-> 0, nonce |-> 0, code |-> C, root |-> Zeros, origin |-> NoWrites,
                      pending |-> NoWrites, dirty |-> NoWrites,
                      dirtyCode |-> C, suicided |-> C, deleted |-> C]
               n1 == [n0 EXCEPT !.bal = acct.bal]
               n2 == [n1 EXCEPT !.nonce = acct.nonce]
               n3 == [n2 EXCEPT !.code = acct.code]
               n4 == [n3 EXCEPT !.root = acct.root]
    <3>1. obj = n4 BY <1>2 DEF Loaded, NewObject
    <3> HIDE DEF C
    <3>2. n1 = [bal |-> acct.bal, nonce |-> 0, code |-> C, root |-> Zeros, origin |-> NoWrites,
                pending |-> NoWrites, dirty |-> NoWrites, dirtyCode |-> C, suicided |-> C, deleted |-> C] OBVIOUS
    <3> HIDE DEF n1
    <3>3. n2 = [bal |-> acct.bal, nonce |-> acct.nonce, code |-> C, root |-> Zeros, origin |-> NoWrites,
                pending |-> NoWrites, dirty |-> NoWrites, dirtyCode |-> C, suicided |-> C, deleted |-> C] BY <3>2
    <3> HIDE DEF n2
    <3>4. n3 = [bal |-> acct.bal, nonce |-> acct.nonce, code |-> acct.code, root |-> Zeros, origin |-> NoWrites,
                pending |-> NoWrites, dirty |-> NoWrites, dirtyCode |-> C, suicided |-> C, deleted |-> C] BY <3>3
    <3> HIDE DEF n3
    <3>5. n4 = N BY <3>4
    <3> QED BY <3>1, <3>5
  <2>2. acct \in Stored BY <1>2
  <2>3. C \in BOOLEAN /\ ~C OBVIOUS
  <2> HIDE DEF C, obj
  <2>4. NoWrites \in [Slots -> Words \cup {Unset}] BY DEF NoWrites
  <2>5. obj \in Object BY <2>1, <2>2, <2>3, <2>4 DEF Object, Stored
  <2>6. /\ obj.bal = acct.bal /\ obj.nonce = acct.nonce /\ obj.code = acct.code /\ obj.root = acct.root
        /\ obj.origin = NoWrites /\ obj.pending = NoWrites /\ obj.dirty = NoWrites
    BY <2>1
  <2>7. obj.suicided = C /\ obj.deleted = C BY <2>1
  <2>8. obj # None /\ ~obj.deleted BY <2>3, <2>5, <2>7, NilAssumption
  <2>9. Store(obj) = acct.root
    BY <2>2, <2>6 DEF Stored, Store, NoWrites
  <2>10. Plain(obj) = [bal |-> acct.bal, nonce |-> acct.nonce, code |-> acct.code, store |-> acct.root,
                       dead |-> C] BY <2>6, <2>7, <2>8, <2>9 DEF Plain
  <2>11. Plain(obj) = AccountView(acct) BY <1>2, <2>10 DEF AccountView, C
  <2> QED BY <1>2, <2>5, <2>6, <2>8, <2>11 DEF obj
<1> QED BY <1>1, <1>2

\* stateObject.finalise.
LEMMA MoveFacts ==
  ASSUME NEW obj \in Object
  PROVE  LET m == MoveDirty(obj)
         IN /\ m \in Object /\ m.bal = obj.bal /\ m.nonce = obj.nonce /\ m.code = obj.code /\ m.root = obj.root
            /\ m.origin = obj.origin /\ m.dirtyCode = obj.dirtyCode /\ m.suicided = obj.suicided
            /\ m.deleted = obj.deleted /\ m.dirty = NoWrites
            /\ \A k \in Slots : m.pending[k] = IF obj.dirty[k] # Unset THEN obj.dirty[k] ELSE obj.pending[k]
            /\ Store(m) = Store(obj) /\ Plain(m) = Plain(obj)
<1> DEFINE P == [k \in Slots |-> IF obj.dirty[k] # Unset THEN obj.dirty[k] ELSE obj.pending[k]]
           m == MoveDirty(obj)
<1>1. m = [obj EXCEPT !.pending = P, !.dirty = NoWrites] BY DEF MoveDirty
<1>2. P \in [Slots -> Words \cup {Unset}] /\ NoWrites \in [Slots -> Words \cup {Unset}] BY DEF Object, NoWrites
<1>3. \A k \in Slots : P[k] = IF obj.dirty[k] # Unset THEN obj.dirty[k] ELSE obj.pending[k] OBVIOUS
<1> HIDE DEF P, m
<1>4. /\ m \in Object /\ m.bal = obj.bal /\ m.nonce = obj.nonce /\ m.code = obj.code /\ m.root = obj.root
      /\ m.origin = obj.origin /\ m.dirtyCode = obj.dirtyCode /\ m.suicided = obj.suicided
      /\ m.deleted = obj.deleted /\ m.dirty = NoWrites /\ m.pending = P
  <2>1. obj = [bal |-> obj.bal, nonce |-> obj.nonce, code |-> obj.code, root |-> obj.root, origin |-> obj.origin,
               pending |-> obj.pending, dirty |-> obj.dirty, dirtyCode |-> obj.dirtyCode,
               suicided |-> obj.suicided, deleted |-> obj.deleted] BY DEF Object
  <2> DEFINE m1 == [obj EXCEPT !.pending = P]
  <2>2. m1 = [bal |-> obj.bal, nonce |-> obj.nonce, code |-> obj.code, root |-> obj.root, origin |-> obj.origin,
              pending |-> P, dirty |-> obj.dirty, dirtyCode |-> obj.dirtyCode,
              suicided |-> obj.suicided, deleted |-> obj.deleted] BY <2>1
  <2>3. m = [m1 EXCEPT !.dirty = NoWrites] BY <1>1
  <2> HIDE DEF m1
  <2> DEFINE W == NoWrites
  <2>4. W \in [Slots -> Words \cup {Unset}] BY <1>2
  <2>8. m = [m1 EXCEPT !.dirty = W] BY <2>3
  <2> HIDE DEF W
  <2>5. m = [bal |-> obj.bal, nonce |-> obj.nonce, code |-> obj.code, root |-> obj.root, origin |-> obj.origin,
             pending |-> P, dirty |-> W, dirtyCode |-> obj.dirtyCode,
             suicided |-> obj.suicided, deleted |-> obj.deleted] BY <2>2, <2>8
  <2>6. m \in Object BY <2>4, <2>5, <1>2 DEF Object
  <2>7. /\ m.bal = obj.bal /\ m.nonce = obj.nonce /\ m.code = obj.code /\ m.root = obj.root
        /\ m.origin = obj.origin /\ m.dirtyCode = obj.dirtyCode /\ m.suicided = obj.suicided
        /\ m.deleted = obj.deleted /\ m.dirty = W /\ m.pending = P
    BY <2>5
  <2> QED BY <2>6, <2>7 DEF W
<1>5. Store(m) = Store(obj)
  BY <1>4, <1>3 DEF NoWrites, Object, Store
<1>6. Plain(m) = Plain(obj)
  BY <1>4, NilAssumption, <1>5 DEF Plain
<1> QED BY <1>3, <1>4, <1>5, <1>6 DEF m

\* stateObject.updateTrie and updateRoot.
LEMMA UpdateFacts ==
  ASSUME NEW obj \in Object
  PROVE  LET f == MoveDirty(obj)
             u == UpdateRoot(obj)
         IN /\ u \in Object /\ u.bal = obj.bal /\ u.nonce = obj.nonce /\ u.code = obj.code
            /\ u.dirtyCode = obj.dirtyCode /\ u.suicided = obj.suicided /\ u.deleted = obj.deleted
            /\ u.pending = NoWrites /\ u.dirty = NoWrites
            /\ \A k \in Changed(f) : u.origin[k] = f.pending[k] /\ u.root[k] = f.pending[k] /\ f.pending[k] \in Words
            /\ \A k \in Slots : k \notin Changed(f) => u.origin[k] = obj.origin[k] /\ u.root[k] = obj.root[k]
            /\ Store(u) = u.root
<1> DEFINE f == MoveDirty(obj)
           u == UpdateRoot(obj)
           C == Changed(f)
           O == [k \in Slots |-> IF k \in C THEN f.pending[k] ELSE f.origin[k]]
           R == [k \in Slots |-> IF k \in C THEN f.pending[k] ELSE f.root[k]]
<1>1. /\ f \in Object /\ f.bal = obj.bal /\ f.nonce = obj.nonce /\ f.code = obj.code /\ f.root = obj.root
      /\ f.origin = obj.origin /\ f.dirtyCode = obj.dirtyCode /\ f.suicided = obj.suicided
      /\ f.deleted = obj.deleted /\ f.dirty = NoWrites
  BY MoveFacts
<1>2. u = [f EXCEPT !.origin = O, !.root = R, !.pending = NoWrites] BY DEF UpdateRoot
<1> HIDE DEF f, u
<1>3. C \subseteq Slots /\ \A k \in C : f.pending[k] # Unset BY DEF Changed
<1> HIDE DEF C
<1>4. \A k \in C : f.pending[k] \in Words BY <1>1, <1>3 DEF Object
<1>5. O \in [Slots -> Words \cup {Unset}] /\ R \in [Slots -> Words] BY <1>1, <1>4 DEF Object
<1>6. /\ \A k \in C : O[k] = f.pending[k] /\ R[k] = f.pending[k]
      /\ \A k \in Slots : k \notin C => O[k] = f.origin[k] /\ R[k] = f.root[k]
  BY <1>3
<1> HIDE DEF O, R
<1>7. /\ u \in Object /\ u.bal = f.bal /\ u.nonce = f.nonce /\ u.code = f.code
      /\ u.dirtyCode = f.dirtyCode /\ u.suicided = f.suicided /\ u.deleted = f.deleted
      /\ u.pending = NoWrites /\ u.dirty = f.dirty /\ u.origin = O /\ u.root = R
  <2>1. f = [bal |-> f.bal, nonce |-> f.nonce, code |-> f.code, root |-> f.root, origin |-> f.origin,
             pending |-> f.pending, dirty |-> f.dirty, dirtyCode |-> f.dirtyCode,
             suicided |-> f.suicided, deleted |-> f.deleted] BY <1>1 DEF Object
  <2> DEFINE W == NoWrites
             m1 == [f EXCEPT !.origin = O]
             m2 == [m1 EXCEPT !.root = R]
  <2>2. u = [m2 EXCEPT !.pending = W] BY <1>2
  <2>3. W \in [Slots -> Words \cup {Unset}] BY DEF NoWrites
  <2> HIDE DEF W
  <2>4. m1 = [bal |-> f.bal, nonce |-> f.nonce, code |-> f.code, root |-> f.root, origin |-> O,
              pending |-> f.pending, dirty |-> f.dirty, dirtyCode |-> f.dirtyCode,
              suicided |-> f.suicided, deleted |-> f.deleted] BY <2>1
  <2> HIDE DEF m1
  <2>5. m2 = [bal |-> f.bal, nonce |-> f.nonce, code |-> f.code, root |-> R, origin |-> O,
              pending |-> f.pending, dirty |-> f.dirty, dirtyCode |-> f.dirtyCode,
              suicided |-> f.suicided, deleted |-> f.deleted] BY <2>4
  <2> HIDE DEF m2
  <2>6. u = [bal |-> f.bal, nonce |-> f.nonce, code |-> f.code, root |-> R, origin |-> O,
             pending |-> W, dirty |-> f.dirty, dirtyCode |-> f.dirtyCode,
             suicided |-> f.suicided, deleted |-> f.deleted] BY <2>2, <2>5
  <2>7. u \in Object BY <2>3, <2>6, <1>1, <1>5 DEF Object
  <2>8. /\ u.bal = f.bal /\ u.nonce = f.nonce /\ u.code = f.code
        /\ u.dirtyCode = f.dirtyCode /\ u.suicided = f.suicided /\ u.deleted = f.deleted
        /\ u.pending = W /\ u.dirty = f.dirty /\ u.origin = O /\ u.root = R
    BY <2>6
  <2> QED BY <2>7, <2>8 DEF W
<1>8. Store(u) = u.root
  BY <1>1, <1>7, <1>5 DEF Store, NoWrites
<1> QED BY <1>1, <1>4, <1>6, <1>7, <1>8 DEF f, u, C

\* The account that goes to the trie.
LEMMA AccountFacts ==
  ASSUME NEW obj \in Object
  PROVE  LET acct == AccountOf(obj)
         IN /\ acct \in Stored /\ acct # None /\ acct.code = obj.code /\ acct.root = obj.root
            /\ ~obj.suicided /\ ~obj.deleted /\ Store(obj) = obj.root => Plain(obj) = AccountView(acct)
<1> DEFINE acct == AccountOf(obj)
<1>1. acct = [bal |-> obj.bal, nonce |-> obj.nonce, code |-> obj.code, root |-> obj.root] BY DEF AccountOf
<1> HIDE DEF acct
<1>2. acct \in Stored BY <1>1 DEF Object, Stored
<1>3. acct.bal = obj.bal /\ acct.nonce = obj.nonce /\ acct.code = obj.code /\ acct.root = obj.root BY <1>1
<1>4. acct # None /\ obj # None BY <1>2, NilAssumption
<1>5. ASSUME ~obj.suicided, ~obj.deleted, Store(obj) = obj.root PROVE Plain(obj) = AccountView(acct)
  <2> DEFINE D == obj.suicided
             E == FALSE
  <2>1. D = E BY <1>5 DEF Object
  <2>2. Plain(obj) = [bal |-> obj.bal, nonce |-> obj.nonce, code |-> obj.code, store |-> obj.root, dead |-> D]
    BY <1>4, <1>5 DEF Plain
  <2>3. AccountView(acct) = [bal |-> obj.bal, nonce |-> obj.nonce, code |-> obj.code, store |-> obj.root, dead |-> E]
    BY <1>3, <1>4 DEF AccountView
  <2> HIDE DEF D, E
  <2> QED BY <2>1, <2>2, <2>3
<1> QED BY <1>2, <1>3, <1>4, <1>5 DEF acct

\* Slots that updateTrie leaves out have the value the trie has.
LEMMA UpdateSame ==
  ASSUME NEW c, NEW a, NEW D, NEW obj \in Object, ~obj.deleted, Sane(c, a, obj, D)
  PROVE  LET f == MoveDirty(obj)
             u == UpdateRoot(obj)
         IN /\ \A k \in Slots : u.origin[k] # Unset => u.origin[k] = u.root[k]
            /\ Plain(u) = Plain(obj)
<1> DEFINE f == MoveDirty(obj)
           u == UpdateRoot(obj)
           C == Changed(f)
<1>1. /\ f \in Object /\ f.root = obj.root /\ f.origin = obj.origin
      /\ \A k \in Slots : f.pending[k] = IF obj.dirty[k] # Unset THEN obj.dirty[k] ELSE obj.pending[k]
  BY MoveFacts
<1>2. /\ u \in Object /\ u.bal = obj.bal /\ u.nonce = obj.nonce /\ u.code = obj.code
      /\ u.suicided = obj.suicided /\ u.deleted = obj.deleted
      /\ \A k \in C : u.origin[k] = f.pending[k] /\ u.root[k] = f.pending[k]
      /\ \A k \in Slots : k \notin C => u.origin[k] = obj.origin[k] /\ u.root[k] = obj.root[k]
      /\ Store(u) = u.root
  BY UpdateFacts
<1> HIDE DEF f, u
<1>3. \A k \in Slots : k \in C <=> /\ f.pending[k] # Unset
                                   /\ f.pending[k] # IF f.origin[k] = Unset THEN 0 ELSE f.origin[k]
  BY DEF C, Changed
<1> HIDE DEF C
<1>4. \A k \in Slots :
        /\ obj.origin[k] # Unset => obj.origin[k] = obj.root[k]
        /\ obj.pending[k] # Unset \/ obj.dirty[k] # Unset => obj.origin[k] # Unset \/ obj.root[k] = 0
  BY DEF Sane, Known
<1>5. ASSUME NEW k \in Slots PROVE u.origin[k] # Unset => u.origin[k] = u.root[k] BY <1>2, <1>4
<1>6. ASSUME NEW k \in Slots PROVE u.root[k] = Store(obj)[k]
  <2>1. Store(obj)[k] = IF f.pending[k] # Unset THEN f.pending[k] ELSE obj.root[k] BY <1>1 DEF Store
  <2>2. CASE k \in C BY <2>1, <2>2, <1>2, <1>3
  <2>3. CASE k \notin C
    BY <2>3, <1>1, <1>3, <1>4, <2>1, <1>2
  <2> QED BY <2>2, <2>3
<1>7. Store(u) = Store(obj)
  BY <1>2, <1>6 DEF Object, Store
<1>8. Plain(u) = Plain(obj)
  BY <1>2, NilAssumption, <1>7 DEF Plain
<1> QED BY <1>5, <1>8 DEF u

\* What Finalise leaves, for IntermediateRoot: a deleted account is still in the trie.
Final(c, s) ==
  /\ c \in Contexts /\ s \in Parts /\ s.j = << >> /\ Counted(s) /\ Present(c, s) /\ Stocked(c)
  /\ \A a \in Addrs : s.o[a] # None => CodeKept(c, a, s.o[a])
  /\ \A a \in Addrs : Owes(c, a) =>
       \/ a \in c.dirty /\ IsLive(s.o, a) /\ s.o[a].code /\ s.o[a].dirtyCode
       \/ a \in c.pending /\ ~IsLive(s.o, a) /\ c.acc[a] = None
  /\ EIP158 => Saned(c, s) /\ Marked(c, s) /\ Agrees(c) /\ Began(c, Faces(s))

\* What Finalise does with an address: nothing, delete its object, move its dirty slots.
Alike(c, s, c2, s2, a) ==
  /\ c2.acc[a] = c.acc[a] /\ c2.sto[a] = c.sto[a] /\ (a \in s2.x <=> a \in s.x)
Skipped(c, s, c2, s2, a, f) ==
  /\ Alike(c, s, c2, s2, a) /\ s2.o[a] = s.o[a]
  /\ (a \in c2.pending <=> a \in c.pending) /\ (a \in c2.dirty <=> a \in c.dirty)
  /\ EIP158 => Faces(s)[a] = f[a]
Killed(c, s, c2, s2, a) ==
  /\ s.o[a] # None /\ s2.o[a] \in Object /\ s2.o[a].deleted
  /\ s2.o[a].code = s.o[a].code /\ s2.o[a].dirtyCode = s.o[a].dirtyCode
  /\ c2.acc[a] = None /\ c2.sto[a] = NoWrites /\ (c.snap => a \in s2.x) /\ (~c.snap => (a \in s2.x <=> a \in s.x))
  /\ a \in c2.pending /\ a \in c2.dirty
Moved(c, s, c2, s2, a) ==
  /\ Alike(c, s, c2, s2, a) /\ s.o[a] \in Object /\ s2.o[a] = MoveDirty(s.o[a]) /\ ~s.o[a].suicided
  /\ a \in c2.pending /\ a \in c2.dirty

FinalOf(c, s, c2, s2, f) ==
  /\ c2 \in Contexts /\ s2 \in Parts /\ s2.j = << >>
  /\ c2.snap = c.snap /\ c2.base = c.base /\ c2.trie = c.trie /\ c2.flat = c.flat /\ c2.codes = c.codes
  /\ \A a \in Addrs : a # Ripemd => s2.d[a] = 0
  /\ \A a \in Addrs : Skipped(c, s, c2, s2, a, f) \/ Killed(c, s, c2, s2, a) \/ Moved(c, s, c2, s2, a)

\* An empty journal counts nothing.
LEMMA CountedEmpty ==
  ASSUME NEW s \in Parts, s.j = << >>, \A a \in Addrs : a # Ripemd => s.d[a] = 0
  PROVE  Counted(s) /\ Named(s) /\ Ordered(s.j) /\ Slotted(s)
<1>1. << >> \in Seq(Entries) /\ Len(<< >>) = 0 OBVIOUS
<1>2. \A a \in Addrs : Count(s.j, a) = 0
  <2> TAKE a \in Addrs
  <2>1. s.j \in Seq(Entries) /\ Len(s.j) = 0 BY <1>1
  <2>2. Count(s.j, a) = 0 <=> \A i \in 1 .. Len(s.j) : a \notin Dirtied(s.j[i]) BY <2>1, CountZero
  <2>3. \A i \in 1 .. Len(s.j) : a \notin Dirtied(s.j[i]) BY <2>1
  <2> QED BY <2>2, <2>3
<1>3. \A a \in Addrs : s.d[a] \in Nat BY DEF Parts
<1>4. Counted(s)
  <2> SUFFICES ASSUME NEW a \in Addrs
               PROVE  /\ s.d[a] >= Count(s.j, a) /\ (a # Ripemd => s.d[a] = Count(s.j, a))
                      /\ \A i \in 1 .. Len(s.j) :
                           s.j[i].addr = Ripemd /\ s.j[i].op = "touch" => s.d[Ripemd] > Count(s.j, Ripemd)
    BY DEF Counted
  <2> QED BY <1>1, <1>2, <1>3
<1>5. Named(s) /\ Ordered(s.j) /\ Slotted(s) BY <1>1 DEF Named, Ordered, Slotted
<1> QED BY <1>4, <1>5

\* The books after Finalise.
LEMMA FinalBooks ==
  ASSUME NEW c, NEW s, NEW c2, NEW s2, NEW f, Sound(c, s), Stocked(c), FinalOf(c, s, c2, s2, f)
  PROVE  /\ c2 \in Contexts /\ s2 \in Parts /\ s2.j = << >> /\ Counted(s2) /\ Present(c2, s2) /\ Stocked(c2)
         /\ \A a \in Addrs : s2.o[a] # None => CodeKept(c2, a, s2.o[a])
         /\ \A a \in Addrs : Owes(c2, a) =>
              \/ a \in c2.dirty /\ IsLive(s2.o, a) /\ s2.o[a].code /\ s2.o[a].dirtyCode
              \/ a \in c2.pending /\ ~IsLive(s2.o, a) /\ c2.acc[a] = None
<1>1. /\ c2 \in Contexts /\ s2 \in Parts /\ s2.j = << >>
      /\ c2.snap = c.snap /\ c2.base = c.base /\ c2.trie = c.trie /\ c2.flat = c.flat /\ c2.codes = c.codes
      /\ \A a \in Addrs : a # Ripemd => s2.d[a] = 0
  BY DEF FinalOf
<1>2. ASSUME NEW a \in Addrs
      PROVE  Skipped(c, s, c2, s2, a, f) \/ Killed(c, s, c2, s2, a) \/ Moved(c, s, c2, s2, a) BY DEF FinalOf
<1>3. /\ c \in Contexts /\ s \in Parts /\ Coded(c, s)
      /\ \A a \in c.pending \cup c.dirty : s.o[a] # None
  BY DEF Sound, Present
<1>4. Counted(s2) BY <1>1, CountedEmpty
<1>5. c.pending \subseteq Addrs /\ c.dirty \subseteq Addrs /\ c2.pending \subseteq Addrs /\ c2.dirty \subseteq Addrs
  BY <1>1, <1>3 DEF Contexts
<1>6. ASSUME NEW a \in Addrs, Moved(c, s, c2, s2, a)
      PROVE  /\ s2.o[a] \in Object /\ s2.o[a] # None /\ s2.o[a].code = s.o[a].code
             /\ s2.o[a].dirtyCode = s.o[a].dirtyCode /\ s2.o[a].deleted = s.o[a].deleted /\ s.o[a] # None
  <2> DEFINE obj == s.o[a]
             m == MoveDirty(obj)
  <2>1. obj \in Object /\ s2.o[a] = m BY <1>6 DEF Moved
  <2> HIDE DEF obj
  <2>2. m \in Object /\ m.code = obj.code /\ m.dirtyCode = obj.dirtyCode /\ m.deleted = obj.deleted BY <2>1, MoveFacts
  <2> HIDE DEF m
  <2> QED BY <2>1, <2>2, NilAssumption DEF obj
<1>7. Present(c2, s2)
  <2>1. ASSUME NEW a \in c2.pending \cup c2.dirty PROVE s2.o[a] # None
    <3>1. a \in Addrs BY <1>5
    <3>2. CASE Skipped(c, s, c2, s2, a, f) BY <3>1, <3>2, <1>3 DEF Skipped
    <3>3. CASE Killed(c, s, c2, s2, a) BY <3>3, NilAssumption DEF Killed
    <3>4. CASE Moved(c, s, c2, s2, a) BY <3>1, <3>4, <1>6
    <3> QED BY <3>1, <3>2, <3>3, <3>4, <1>2
  <2> QED BY <2>1, <1>1 DEF Present
<1>8. Stocked(c2)
  <2>1. c2.pending \subseteq c2.dirty
    <3> SUFFICES ASSUME NEW a \in c2.pending PROVE a \in c2.dirty OBVIOUS
    <3>1. a \in Addrs /\ (a \in c.pending => a \in c.dirty) BY <1>5 DEF Stocked, Lodged
    <3> QED BY <3>1, <1>2 DEF Skipped, Killed, Moved
  <2> QED BY <2>1, <1>1 DEF Stocked, Lodged
<1>9. ASSUME NEW a \in Addrs, s2.o[a] # None PROVE CodeKept(c2, a, s2.o[a])
  <2>1. s.o[a] # None => CodeKept(c, a, s.o[a]) BY <1>3 DEF Coded
  <2>2. CASE Skipped(c, s, c2, s2, a, f) BY <2>1, <2>2, <1>1, <1>9 DEF Skipped, CodeKept
  <2>3. CASE Killed(c, s, c2, s2, a) BY <2>1, <2>3, <1>1, <1>9 DEF Killed, CodeKept
  <2>4. CASE Moved(c, s, c2, s2, a) BY <2>1, <2>4, <1>1, <1>6, <1>9 DEF CodeKept
  <2> QED BY <2>2, <2>3, <2>4, <1>2
<1>10. ASSUME NEW a \in Addrs, Owes(c2, a)
       PROVE  \/ a \in c2.dirty /\ IsLive(s2.o, a) /\ s2.o[a].code /\ s2.o[a].dirtyCode
              \/ a \in c2.pending /\ ~IsLive(s2.o, a) /\ c2.acc[a] = None
  <2>1. Owes(c, a) => a \in c.dirty /\ IsLive(s.o, a) /\ s.o[a].code /\ s.o[a].dirtyCode BY <1>3 DEF Coded
  <2>2. CASE Skipped(c, s, c2, s2, a, f)
    BY <2>2, <1>1, <1>10, <2>1 DEF Skipped, Alike, Owes, IsLive
  <2>3. CASE Killed(c, s, c2, s2, a) BY <2>3 DEF Killed, IsLive
  <2>4. CASE Moved(c, s, c2, s2, a)
    BY <2>4, <1>1, <1>10, <2>1, <1>6 DEF Moved, Alike, Owes, IsLive
  <2> QED BY <2>2, <2>3, <2>4, <1>2
<1> QED BY <1>1, <1>4, <1>7, <1>8, <1>9, <1>10

\* Finalise leaves each address as IntermediateRoot needs it.
LEMMA FinalAt ==
  ASSUME NEW c, NEW s, NEW c2, NEW s2, NEW f, NEW a \in Addrs, EIP158,
         Sound(c, s), Agrees(c), Began(c, f), FinalOf(c, s, c2, s2, f)
  PROVE  /\ IF s2.o[a] = None THEN Bare(c2, a) ELSE Sane(c2, a, s2.o[a], a \in s2.x)
         /\ ~c.snap => a \notin s2.x
         /\ s2.o[a] = None => a \notin s2.x
         /\ Faces(s2)[a].seen # None => ~Faces(s2)[a].seen.dead
         /\ a \notin c2.pending => Arrived(c2, a, Faces(s2)[a])
         /\ c2.snap /\ a \notin c2.dirty => c2.acc[a] = None /\ c2.sto[a] = NoWrites /\ ~Faces(s2)[a].destruct
<1>1. /\ c2 \in Contexts /\ s2 \in Parts
      /\ c2.snap = c.snap /\ c2.base = c.base /\ c2.trie = c.trie /\ c2.flat = c.flat
      /\ Skipped(c, s, c2, s2, a, f) \/ Killed(c, s, c2, s2, a) \/ Moved(c, s, c2, s2, a)
  BY DEF FinalOf
<1>2. /\ s \in Parts
      /\ IF s.o[a] = None THEN Bare(c, a) ELSE Sane(c, a, s.o[a], a \in s.x)
      /\ ~c.snap => s.x = {}
      /\ s.o[a] = None => a \notin s.x
  BY DEF Sound, Saned, Marked
<1>3. /\ f[a].seen # None => ~f[a].seen.dead
      /\ a \notin c.pending => Arrived(c, a, f[a])
      /\ c.snap /\ a \notin c.dirty => c.acc[a] = None /\ c.sto[a] = NoWrites /\ ~f[a].destruct
  BY DEF Began
<1>4. Faces(s)[a] = Face(s.o[a], a \in s.x) /\ Faces(s2)[a] = Face(s2.o[a], a \in s2.x) BY <1>1, <1>2, FacesType
<1>5. CASE Skipped(c, s, c2, s2, a, f)
  <2>1. /\ c2.acc[a] = c.acc[a] /\ c2.sto[a] = c.sto[a] /\ (a \in s2.x <=> a \in s.x)
        /\ s2.o[a] = s.o[a] /\ (a \in c2.pending <=> a \in c.pending) /\ (a \in c2.dirty <=> a \in c.dirty)
        /\ Faces(s)[a] = f[a]
    BY <1>5 DEF Skipped, Alike
  <2>2. Faces(s2)[a] = f[a]
    BY <2>1, <1>4
  <2>3. IF s2.o[a] = None THEN Bare(c2, a) ELSE Sane(c2, a, s2.o[a], a \in s2.x)
    <3>1. CASE s.o[a] = None BY <3>1, <2>1, <1>1, <1>2 DEF Bare
    <3>2. CASE s.o[a] # None
      BY <3>2, <1>2, <2>1, <1>1 DEF Sane, SlotOf
    <3> QED BY <3>1, <3>2
  <2>4. a \notin c2.pending => Arrived(c2, a, f[a]) BY <2>1, <1>1, <1>3 DEF Arrived, LayerAcct, SlotOf
  <2> QED BY <2>1, <2>2, <2>3, <2>4, <1>1, <1>2, <1>3
<1>6. CASE Killed(c, s, c2, s2, a)
  BY <1>6, NilAssumption, <1>1, <1>4, <1>2 DEF Killed, Plain, Sane, Face
<1>7. CASE Moved(c, s, c2, s2, a)
  <2> DEFINE obj == s.o[a]
             m == MoveDirty(obj)
             D == obj.suicided
  <2>1. /\ c2.acc[a] = c.acc[a] /\ c2.sto[a] = c.sto[a] /\ (a \in s2.x <=> a \in s.x)
        /\ obj \in Object /\ s2.o[a] = m /\ ~D
        /\ a \in c2.pending /\ a \in c2.dirty
    BY <1>7 DEF Moved, Alike
  <2>2. Faces(s2)[a] = Face(m, a \in s2.x) BY <1>4, <2>1
  <2>3. obj # None => Sane(c, a, obj, a \in s.x) BY <1>2
  <2> HIDE DEF D
  <2>4. D = obj.suicided BY DEF D
  <2> HIDE DEF obj
  <2>5. /\ m \in Object /\ m.root = obj.root /\ m.origin = obj.origin
        /\ m.deleted = obj.deleted /\ m.dirty = NoWrites
        /\ \A k \in Slots : m.pending[k] = IF obj.dirty[k] # Unset THEN obj.dirty[k] ELSE obj.pending[k]
        /\ Plain(m) = Plain(obj)
    BY <2>1, MoveFacts
  <2> HIDE DEF m
  <2>6. m # None /\ obj # None BY <2>1, <2>5, NilAssumption
  <2>7. Sane(c2, a, m, a \in s2.x)
    <3>1. Sane(c, a, obj, a \in s.x) BY <2>3, <2>6
    <3>2. CASE obj.deleted BY <3>1, <3>2, <2>1, <2>5, <1>1 DEF Sane
    <3>3. CASE ~obj.deleted
      <4>1. ASSUME NEW k \in Slots
            PROVE  /\ m.origin[k] # Unset => m.origin[k] = m.root[k]
                   /\ m.pending[k] # Unset \/ m.dirty[k] # Unset => Known(m, k)
                   /\ c2.snap => m.root[k] = SlotOf(c2, a, a \in s2.x, k)
                   /\ c2.snap /\ m.origin[k] = Unset =>
                        m.root[k] = IF a \in s2.x THEN 0 ELSE c2.flat[a].slots[k]
        BY <3>1, <3>3, <2>5, <2>1, <1>1 DEF Sane, NoWrites, Known, SlotOf
      <4> QED BY <4>1, <3>3, <2>5 DEF Sane
    <3> QED BY <3>2, <3>3
  <2>8. Faces(s2)[a].seen # None => ~Faces(s2)[a].seen.dead
    <3>1. Faces(s2)[a].seen = Plain(obj) BY <2>2, <2>5 DEF Face
    <3>2. CASE obj.deleted BY <3>1, <3>2 DEF Plain
    <3>3. CASE ~obj.deleted
      BY <3>3, <2>4, <2>6, <3>1, <2>1 DEF Plain
    <3> QED BY <3>2, <3>3
  <2> QED BY <2>1, <2>6, <2>7, <2>8, <1>1, <1>2
<1> QED BY <1>1, <1>5, <1>6, <1>7

\* What Finalise leaves is what IntermediateRoot needs.
LEMMA FinalKept ==
  ASSUME NEW c, NEW s, NEW c2, NEW s2, NEW f, Sound(c, s), Stocked(c),
         EIP158 => Agrees(c) /\ Began(c, f), FinalOf(c, s, c2, s2, f) PROVE Final(c2, s2)
<1>1. /\ c2 \in Contexts /\ s2 \in Parts /\ s2.j = << >> /\ Counted(s2) /\ Present(c2, s2) /\ Stocked(c2)
      /\ \A a \in Addrs : s2.o[a] # None => CodeKept(c2, a, s2.o[a])
      /\ \A a \in Addrs : Owes(c2, a) =>
           \/ a \in c2.dirty /\ IsLive(s2.o, a) /\ s2.o[a].code /\ s2.o[a].dirtyCode
           \/ a \in c2.pending /\ ~IsLive(s2.o, a) /\ c2.acc[a] = None
  BY FinalBooks
<1>2. ASSUME EIP158 PROVE Saned(c2, s2) /\ Marked(c2, s2) /\ Agrees(c2) /\ Began(c2, Faces(s2))
  <2>1. c2.snap = c.snap /\ c2.base = c.base /\ c2.flat = c.flat /\ Len(s2.j) = 0 /\ s2.x \in SUBSET Addrs
    BY <1>1 DEF FinalOf, Parts
  <2>2. Agrees(c2) BY <1>2, <2>1 DEF Agrees
  <2>3. ASSUME NEW a \in Addrs
        PROVE  /\ IF s2.o[a] = None THEN Bare(c2, a) ELSE Sane(c2, a, s2.o[a], a \in s2.x)
               /\ ~c.snap => a \notin s2.x
               /\ s2.o[a] = None => a \notin s2.x
               /\ Faces(s2)[a].seen # None => ~Faces(s2)[a].seen.dead
               /\ a \notin c2.pending => Arrived(c2, a, Faces(s2)[a])
               /\ c2.snap /\ a \notin c2.dirty => c2.acc[a] = None /\ c2.sto[a] = NoWrites /\ ~Faces(s2)[a].destruct
    BY <1>2, FinalAt
  <2>4. Saned(c2, s2) BY <2>1, <2>3 DEF Saned
  <2>5. Marked(c2, s2) BY <2>1, <2>3 DEF Marked
  <2>6. Began(c2, Faces(s2)) BY <2>3 DEF Began
  <2> QED BY <2>2, <2>4, <2>5, <2>6
<1> QED BY <1>1, <1>2 DEF Final

\* From Byzantium on, Finalise ends the transaction.
LEMMA ByzRests ==
  ASSUME NEW c, NEW s, Final(c, s), Byzantium PROVE Rest(c, s)
<1>1. /\ c \in Contexts /\ s \in Parts /\ s.j = << >> /\ Counted(s) /\ Present(c, s) /\ Stocked(c)
      /\ \A a \in Addrs : s.o[a] # None => CodeKept(c, a, s.o[a])
      /\ \A a \in Addrs : Owes(c, a) =>
           \/ a \in c.dirty /\ IsLive(s.o, a) /\ s.o[a].code /\ s.o[a].dirtyCode
           \/ a \in c.pending /\ ~IsLive(s.o, a) /\ c.acc[a] = None
      /\ EIP158 => Saned(c, s) /\ Marked(c, s) /\ Agrees(c) /\ Began(c, Faces(s))
  BY DEF Final
<1>2. Len(s.j) = 0 BY <1>1
<1>3. Named(s) /\ Ordered(s.j) /\ Slotted(s) BY <1>2 DEF Named, Ordered, Slotted
<1>4. c.trie = c.base /\ Lodged(c) BY <1>1 DEF Stocked
<1>5. ASSUME NEW a \in Addrs, Owes(c, a) PROVE a \in c.dirty /\ IsLive(s.o, a) /\ s.o[a].code /\ s.o[a].dirtyCode
  BY <1>4, <1>5, <1>1 DEF Owes, Lodged, HasCode
<1>6. Coded(c, s) BY <1>1, <1>2, <1>5 DEF Coded
<1>7. Sound(c, s) BY <1>1, <1>3, <1>6 DEF Sound
<1> QED BY <1>1, <1>4, <1>7 DEF Rest

\* What IntermediateRoot does with an address: nothing, remove its account, write it.
Untouched(c, s, c2, s2, a) ==
  /\ a \notin c.pending /\ s2.o[a] = s.o[a]
  /\ c2.trie[a] = c.trie[a] /\ c2.acc[a] = c.acc[a] /\ c2.sto[a] = c.sto[a]
Removed(c, s, c2, s2, a) ==
  /\ s.o[a] # None /\ s.o[a].deleted /\ s2.o[a] = s.o[a]
  /\ c2.trie[a] = None /\ c2.acc[a] = c.acc[a] /\ c2.sto[a] = c.sto[a]
Written(c, s, c2, s2, a) ==
  /\ a \in c.pending /\ s.o[a] \in Object /\ ~s.o[a].deleted /\ s2.o[a] = UpdateRoot(s.o[a])
  /\ c2.trie[a] = AccountOf(s2.o[a])
  /\ c2.acc[a] = IF c.snap THEN AccountOf(s2.o[a]) ELSE c.acc[a]
  /\ \A k \in Slots : c2.sto[a][k] = IF c.snap /\ k \in Changed(MoveDirty(s.o[a]))
                                        THEN s2.o[a].root[k] ELSE c.sto[a][k]

FlushOf(c, s, c2, s2) ==
  /\ c2 \in Contexts /\ s2 \in Parts /\ s2.j = << >> /\ s2.x = s.x /\ s2.d = s.d
  /\ c2.snap = c.snap /\ c2.base = c.base /\ c2.flat = c.flat /\ c2.codes = c.codes
  /\ c2.dirty = c.dirty /\ c2.pending = {}
  /\ \A a \in Addrs : Untouched(c, s, c2, s2, a) \/ Removed(c, s, c2, s2, a) \/ Written(c, s, c2, s2, a)

\* The object that is written, and its account.
LEMMA WrittenFacts ==
  ASSUME NEW c, NEW s, NEW c2, NEW s2, NEW a, Written(c, s, c2, s2, a)
  PROVE  /\ s.o[a] # None /\ s2.o[a] \in Object /\ s2.o[a] # None /\ s2.o[a].code = s.o[a].code
         /\ s2.o[a].dirtyCode = s.o[a].dirtyCode /\ ~s2.o[a].deleted /\ ~s.o[a].deleted
         /\ c2.trie[a] # None /\ c2.trie[a].code = s.o[a].code
         /\ c.snap => c2.acc[a] = c2.trie[a]
         /\ ~c.snap => c2.acc[a] = c.acc[a]
<1> DEFINE obj == s.o[a]
           u == UpdateRoot(obj)
           acct == AccountOf(u)
<1>1. /\ obj \in Object /\ ~obj.deleted /\ s2.o[a] = u /\ c2.trie[a] = acct
      /\ c2.acc[a] = IF c.snap THEN acct ELSE c.acc[a]
  BY DEF Written
<1> HIDE DEF obj
<1>2. u \in Object /\ u.code = obj.code /\ u.dirtyCode = obj.dirtyCode /\ u.deleted = obj.deleted BY <1>1, UpdateFacts
<1> HIDE DEF u
<1>3. acct # None /\ acct.code = u.code BY <1>2, AccountFacts
<1> HIDE DEF acct
<1> QED BY <1>1, <1>2, <1>3, NilAssumption DEF obj

\* The books after IntermediateRoot.
LEMMA FlushBooks ==
  ASSUME NEW c, NEW s, NEW c2, NEW s2, Final(c, s), FlushOf(c, s, c2, s2)
  PROVE  /\ c2 \in Contexts /\ s2 \in Parts /\ s2.j = << >> /\ Lodged(c2)
         /\ Named(s2) /\ Ordered(s2.j) /\ Slotted(s2) /\ Counted(s2) /\ Present(c2, s2) /\ Coded(c2, s2)
<1>1. /\ c2 \in Contexts /\ s2 \in Parts /\ s2.j = << >> /\ s2.d = s.d
      /\ c2.base = c.base /\ c2.flat = c.flat /\ c2.codes = c.codes /\ c2.dirty = c.dirty /\ c2.pending = {}
  BY DEF FlushOf
<1>2. ASSUME NEW a \in Addrs
      PROVE  Untouched(c, s, c2, s2, a) \/ Removed(c, s, c2, s2, a) \/ Written(c, s, c2, s2, a) BY DEF FlushOf
<1>3. /\ c \in Contexts /\ s \in Parts /\ s.j = << >> /\ Counted(s) /\ Present(c, s) /\ Lodged(c)
      /\ \A a \in Addrs : s.o[a] # None => CodeKept(c, a, s.o[a])
      /\ \A a \in Addrs : Owes(c, a) =>
           \/ a \in c.dirty /\ IsLive(s.o, a) /\ s.o[a].code /\ s.o[a].dirtyCode
           \/ a \in c.pending /\ ~IsLive(s.o, a) /\ c.acc[a] = None
  BY DEF Final, Stocked
<1>4. Len(s2.j) = 0 BY <1>1
<1>5. Named(s2) /\ Ordered(s2.j) /\ Slotted(s2) BY <1>4 DEF Named, Ordered, Slotted
<1>6. Counted(s2) BY <1>1, <1>3 DEF Counted
<1>7. Lodged(c2) BY <1>1, <1>3 DEF Lodged
<1>8. Present(c2, s2)
  <2>1. ASSUME NEW a \in c2.pending \cup c2.dirty PROVE s2.o[a] # None
    <3>1. a \in Addrs /\ s.o[a] # None BY <1>1, <1>3 DEF Contexts, Present
    <3>2. CASE Written(c, s, c2, s2, a) BY <3>2, WrittenFacts
    <3> QED BY <3>1, <3>2, <1>2 DEF Untouched, Removed
  <2> QED BY <2>1, <1>4 DEF Present
<1>9. ASSUME NEW a \in Addrs, s2.o[a] # None PROVE CodeKept(c2, a, s2.o[a])
  <2>1. CASE Untouched(c, s, c2, s2, a) BY <2>1, <1>1, <1>3, <1>9 DEF Untouched, CodeKept
  <2>2. CASE Removed(c, s, c2, s2, a) BY <2>2, <1>1, <1>3, <1>9 DEF Removed, CodeKept
  <2>3. CASE Written(c, s, c2, s2, a) BY <2>3, WrittenFacts, <1>1, <1>3 DEF CodeKept
  <2> QED BY <2>1, <2>2, <2>3, <1>2
<1>10. ASSUME NEW a \in Addrs, Owes(c2, a) PROVE a \in c2.dirty /\ IsLive(s2.o, a) /\ s2.o[a].code /\ s2.o[a].dirtyCode
  <2>1. a \notin c.codes /\ (HasCode(c2.trie[a]) \/ HasCode(c2.acc[a])) BY <1>1, <1>10 DEF Owes
  <2>2. CASE Untouched(c, s, c2, s2, a)
    BY <2>1, <2>2, <1>1, <1>3 DEF Untouched, Owes, IsLive
  <2>3. CASE Removed(c, s, c2, s2, a)
    BY <2>3, <2>1, <1>3 DEF Removed, IsLive, HasCode, Owes
  <2>4. CASE Written(c, s, c2, s2, a)
    <3>1. /\ s.o[a] # None /\ s2.o[a] # None /\ s2.o[a].code = s.o[a].code
          /\ s2.o[a].dirtyCode = s.o[a].dirtyCode /\ ~s2.o[a].deleted /\ ~s.o[a].deleted
          /\ c2.trie[a] # None /\ c2.trie[a].code = s.o[a].code
          /\ c.snap => c2.acc[a] = c2.trie[a]
          /\ ~c.snap => c2.acc[a] = c.acc[a]
      BY <2>4, WrittenFacts
    <3>2. a \in c.dirty BY <2>4, <1>3 DEF Written, Lodged
    <3>3. CASE HasCode(c2.trie[a]) \/ c.snap
      BY <3>1, <3>3, <2>1, <1>3, <3>2, <1>1 DEF HasCode, CodeKept, IsLive
    <3>4. CASE ~HasCode(c2.trie[a]) /\ ~c.snap
      BY <3>1, <3>4, <2>1, <1>1, <1>3 DEF Owes, IsLive
    <3> QED BY <3>3, <3>4
  <2> QED BY <2>2, <2>3, <2>4, <1>2
<1>11. Coded(c2, s2) BY <1>4, <1>9, <1>10 DEF Coded
<1> QED BY <1>1, <1>5, <1>6, <1>7, <1>8, <1>11

\* An address that IntermediateRoot writes.
LEMMA WrittenAt ==
  ASSUME NEW c, NEW s, NEW c2, NEW s2, NEW a \in Addrs, NEW D,
         c \in Contexts, c2 \in Contexts, c2.snap = c.snap, c2.base = c.base, c2.flat = c.flat,
         Written(c, s, c2, s2, a), Sane(c, a, s.o[a], D),
         Plain(s.o[a]) # None => ~Plain(s.o[a]).dead
  PROVE  /\ Sane(c2, a, s2.o[a], D) /\ Plain(s2.o[a]) = Plain(s.o[a])
         /\ Plain(s2.o[a]) = AccountView(c2.trie[a])
         /\ c2.snap => /\ LayerAcct(c2, a, D) = c2.trie[a]
                       /\ \A k \in Slots : SlotOf(c2, a, D, k) = RootOf(c2.trie[a])[k]
<1> DEFINE obj == s.o[a]
           f == MoveDirty(obj)
           u == UpdateRoot(obj)
           acct == AccountOf(u)
           C == Changed(f)
<1>1. /\ obj \in Object /\ ~obj.deleted /\ s2.o[a] = u /\ c2.trie[a] = acct
      /\ c2.acc[a] = IF c.snap THEN acct ELSE c.acc[a]
      /\ \A k \in Slots : c2.sto[a][k] = IF c.snap /\ k \in C THEN u.root[k] ELSE c.sto[a][k]
  BY DEF Written
<1>2. Sane(c, a, obj, D) /\ (Plain(obj) # None => ~Plain(obj).dead) OBVIOUS
<1> HIDE DEF obj
<1>3. /\ u \in Object /\ u.suicided = obj.suicided /\ u.deleted = obj.deleted
      /\ u.pending = NoWrites /\ u.dirty = NoWrites
      /\ \A k \in C : u.origin[k] = f.pending[k] /\ u.root[k] = f.pending[k] /\ f.pending[k] \in Words
      /\ \A k \in Slots : k \notin C => u.origin[k] = obj.origin[k] /\ u.root[k] = obj.root[k]
      /\ Store(u) = u.root
  BY <1>1, UpdateFacts
<1>4. /\ \A k \in Slots : u.origin[k] # Unset => u.origin[k] = u.root[k]
      /\ Plain(u) = Plain(obj)
  BY <1>1, <1>2, UpdateSame
<1> HIDE DEF f, u, C
<1>5. \A w \in Words : w # Unset BY WordsAssumption DEF Unset
<1>6. ~u.suicided
  <2> DEFINE X == obj.suicided
  <2>1. obj # None /\ X = obj.suicided BY <1>1, NilAssumption
  <2> HIDE DEF X
  <2>2. Plain(obj) = [bal |-> obj.bal, nonce |-> obj.nonce, code |-> obj.code, store |-> Store(obj), dead |-> X]
    BY <1>1, <2>1 DEF Plain
  <2>3. Plain(obj) # None BY <1>1, <2>1, PlainType
  <2>4. Plain(obj).dead = X BY <2>2
  <2> QED BY <2>1, <2>3, <2>4, <1>2, <1>3
<1>7. acct # None /\ acct.root = u.root /\ Plain(u) = AccountView(acct) BY <1>1, <1>3, <1>6, AccountFacts
<1> HIDE DEF acct
<1>8. ASSUME NEW k \in Slots
      PROVE  /\ u.origin[k] # Unset => u.origin[k] = u.root[k]
             /\ u.pending[k] = Unset /\ u.dirty[k] = Unset
             /\ c2.snap => u.root[k] = SlotOf(c2, a, D, k)
             /\ c2.snap /\ u.origin[k] = Unset => u.root[k] = IF D THEN 0 ELSE c2.flat[a].slots[k]
  <2>1. /\ c.snap => obj.root[k] = SlotOf(c, a, D, k)
        /\ c.snap /\ obj.origin[k] = Unset => obj.root[k] = IF D THEN 0 ELSE c.flat[a].slots[k]
    BY <1>1, <1>2 DEF Sane
  <2>2. u.pending[k] = Unset /\ u.dirty[k] = Unset BY <1>3 DEF NoWrites
  <2>3. CASE k \in C
    BY <2>3, <1>3, <1>5, <1>1, <2>2, <1>4 DEF SlotOf
  <2>4. CASE k \notin C
    BY <2>4, <1>1, <1>3, <2>1, <2>2, <1>4 DEF SlotOf
  <2> QED BY <2>3, <2>4
<1>9. Sane(c2, a, u, D) BY <1>1, <1>3, <1>8 DEF Sane
<1>10. ASSUME c2.snap
       PROVE  /\ LayerAcct(c2, a, D) = c2.trie[a]
              /\ \A k \in Slots : SlotOf(c2, a, D, k) = RootOf(c2.trie[a])[k]
  BY <1>1, <1>7, <1>10, <1>8 DEF LayerAcct, RootOf
<1> QED BY <1>1, <1>4, <1>7, <1>9, <1>10 DEF obj

\* IntermediateRoot leaves each address as it should be between two transactions.
LEMMA FlushAt ==
  ASSUME NEW c, NEW s, NEW c2, NEW s2, NEW a \in Addrs, EIP158, Final(c, s), FlushOf(c, s, c2, s2)
  PROVE  /\ IF s2.o[a] = None THEN Bare(c2, a) ELSE Sane(c2, a, s2.o[a], a \in s2.x)
         /\ s2.o[a] = None => a \notin s2.x
         /\ Faces(s2)[a].seen # None => ~Faces(s2)[a].seen.dead
         /\ Arrived(c2, a, Faces(s2)[a]) /\ Faces(s2)[a].seen = Faces(s)[a].seen
         /\ c2.snap /\ a \notin c2.dirty => c2.acc[a] = None /\ c2.sto[a] = NoWrites /\ ~Faces(s2)[a].destruct
<1>1. /\ c2 \in Contexts /\ s2 \in Parts /\ s2.x = s.x
      /\ c2.snap = c.snap /\ c2.base = c.base /\ c2.flat = c.flat /\ c2.dirty = c.dirty
      /\ Untouched(c, s, c2, s2, a) \/ Removed(c, s, c2, s2, a) \/ Written(c, s, c2, s2, a)
  BY DEF FlushOf
<1>2. /\ c \in Contexts /\ s \in Parts
      /\ IF s.o[a] = None THEN Bare(c, a) ELSE Sane(c, a, s.o[a], a \in s.x)
      /\ s.o[a] = None => a \notin s.x
      /\ c.pending \subseteq c.dirty
  BY DEF Final, Saned, Marked, Stocked, Lodged
<1>3. /\ Faces(s)[a].seen # None => ~Faces(s)[a].seen.dead
      /\ a \notin c.pending => Arrived(c, a, Faces(s)[a])
      /\ c.snap /\ a \notin c.dirty => c.acc[a] = None /\ c.sto[a] = NoWrites /\ ~Faces(s)[a].destruct
  BY DEF Final, Began
<1>4. Faces(s)[a] = Face(s.o[a], a \in s.x) /\ Faces(s2)[a] = Face(s2.o[a], a \in s.x) BY <1>1, <1>2, FacesType
<1>5. CASE Untouched(c, s, c2, s2, a)
  <2>1. /\ a \notin c.pending /\ s2.o[a] = s.o[a]
        /\ c2.trie[a] = c.trie[a] /\ c2.acc[a] = c.acc[a] /\ c2.sto[a] = c.sto[a]
    BY <1>5 DEF Untouched
  <2>2. Faces(s2)[a] = Faces(s)[a] BY <2>1, <1>4
  <2>3. IF s2.o[a] = None THEN Bare(c2, a) ELSE Sane(c2, a, s2.o[a], a \in s2.x)
    <3>1. CASE s.o[a] = None BY <3>1, <2>1, <1>1, <1>2 DEF Bare
    <3>2. CASE s.o[a] # None
      BY <3>2, <1>2, <2>1, <1>1 DEF Sane, SlotOf
    <3> QED BY <3>1, <3>2
  <2>4. Arrived(c2, a, Faces(s)[a]) BY <2>1, <1>1, <1>3 DEF Arrived, LayerAcct, SlotOf
  <2> QED BY <2>1, <2>2, <2>3, <2>4, <1>1, <1>2, <1>3
<1>6. CASE Removed(c, s, c2, s2, a)
  <2>1. /\ s.o[a] # None /\ s.o[a].deleted /\ s2.o[a] = s.o[a]
        /\ c2.trie[a] = None /\ c2.acc[a] = c.acc[a] /\ c2.sto[a] = c.sto[a]
    BY <1>6 DEF Removed
  <2>2. Faces(s2)[a].seen = None /\ Faces(s2)[a] = Faces(s)[a] /\ Faces(s2)[a].destruct = (a \in s.x)
    BY <2>1, <1>4 DEF Face, Plain
  <2>3. c.snap => a \in s.x /\ c.sto[a] = NoWrites /\ c.acc[a] = None BY <2>1, <1>2 DEF Sane
  <2>4. Sane(c2, a, s2.o[a], a \in s2.x) BY <2>1, <2>3, <1>1 DEF Sane
  <2>5. Arrived(c2, a, Faces(s2)[a])
    <3>1. Faces(s2)[a].seen = AccountView(c2.trie[a]) BY <2>1, <2>2 DEF AccountView
    <3>2. ASSUME c2.snap
          PROVE  /\ LayerAcct(c2, a, Faces(s2)[a].destruct) = c2.trie[a]
                 /\ \A k \in Slots : SlotOf(c2, a, Faces(s2)[a].destruct, k) = RootOf(c2.trie[a])[k]
      <4>1. a \in s.x /\ c2.sto[a] = NoWrites /\ c2.acc[a] = None BY <2>1, <2>3, <3>2, <1>1
      <4>2. Faces(s2)[a].destruct BY <4>1, <2>2
      <4>3. LayerAcct(c2, a, Faces(s2)[a].destruct) = c2.trie[a] BY <4>1, <4>2, <2>1 DEF LayerAcct
      <4>4. ASSUME NEW k \in Slots PROVE SlotOf(c2, a, Faces(s2)[a].destruct, k) = RootOf(c2.trie[a])[k]
        BY <4>1, <2>1, <4>2 DEF NoWrites, RootOf, Zeros, SlotOf
      <4> QED BY <4>3, <4>4
    <3> QED BY <3>1, <3>2 DEF Arrived
  <2> QED BY <2>1, <2>2, <2>4, <2>5, <1>1, <1>2, <1>3
<1>7. CASE Written(c, s, c2, s2, a)
  <2>1. /\ a \in c.pending /\ s.o[a] # None /\ s2.o[a] # None BY <1>7, WrittenFacts DEF Written
  <2>2. Sane(c, a, s.o[a], a \in s.x) BY <2>1, <1>2
  <2>3. Plain(s.o[a]) # None => ~Plain(s.o[a]).dead BY <1>3, <1>4 DEF Face
  <2> DEFINE D == a \in s.x
  <2>4. Sane(c, a, s.o[a], D) /\ Face(s2.o[a], D) = Faces(s2)[a] /\ Face(s.o[a], D) = Faces(s)[a]
        /\ D = (a \in s2.x)
    BY <2>2, <1>1, <1>4
  <2> HIDE DEF D
  <2>5. /\ Sane(c2, a, s2.o[a], D) /\ Plain(s2.o[a]) = Plain(s.o[a])
        /\ Plain(s2.o[a]) = AccountView(c2.trie[a])
        /\ c2.snap => /\ LayerAcct(c2, a, D) = c2.trie[a]
                      /\ \A k \in Slots : SlotOf(c2, a, D, k) = RootOf(c2.trie[a])[k]
    BY <2>3, <2>4, <1>1, <1>2, <1>7, WrittenAt
  <2>6. Faces(s2)[a] = Faces(s)[a] /\ Faces(s2)[a].seen = Plain(s2.o[a]) /\ Faces(s2)[a].destruct = D
    BY <2>1, <2>4, <2>5 DEF Face
  <2>7. Arrived(c2, a, Faces(s2)[a]) BY <2>5, <2>6 DEF Arrived
  <2> QED BY <2>1, <2>4, <2>5, <2>6, <2>7, <1>1, <1>2, <1>3
<1> QED BY <1>1, <1>5, <1>6, <1>7

\* IntermediateRoot ends a transaction, or a block.
LEMMA FlushRests ==
  ASSUME NEW c, NEW s, NEW c2, NEW s2, Final(c, s), FlushOf(c, s, c2, s2) PROVE Rest(c2, s2) /\ c2.pending = {}
<1>1. /\ c2 \in Contexts /\ s2 \in Parts /\ s2.j = << >> /\ Lodged(c2)
      /\ Named(s2) /\ Ordered(s2.j) /\ Slotted(s2) /\ Counted(s2) /\ Present(c2, s2) /\ Coded(c2, s2)
  BY FlushBooks
<1>2. c2.snap = c.snap /\ c2.base = c.base /\ c2.flat = c.flat /\ s2.x = s.x /\ c2.pending = {} BY DEF FlushOf
<1>3. ASSUME EIP158 PROVE Saned(c2, s2) /\ Marked(c2, s2) /\ Agrees(c2) /\ Began(c2, Faces(s2))
  <2>1. Agrees(c) /\ Marked(c, s) BY <1>3 DEF Final
  <2>2. Agrees(c2) BY <2>1, <1>2 DEF Agrees
  <2>3. ASSUME NEW a \in Addrs
        PROVE  /\ IF s2.o[a] = None THEN Bare(c2, a) ELSE Sane(c2, a, s2.o[a], a \in s2.x)
               /\ s2.o[a] = None => a \notin s2.x
               /\ Faces(s2)[a].seen # None => ~Faces(s2)[a].seen.dead
               /\ Arrived(c2, a, Faces(s2)[a]) /\ Faces(s2)[a].seen = Faces(s)[a].seen
               /\ c2.snap /\ a \notin c2.dirty => c2.acc[a] = None /\ c2.sto[a] = NoWrites /\ ~Faces(s2)[a].destruct
    BY <1>3, FlushAt
  <2>4. Len(s2.j) = 0 BY <1>1
  <2>5. Saned(c2, s2) BY <2>3, <2>4 DEF Saned
  <2>6. Marked(c2, s2) BY <2>1, <2>3, <2>4, <1>2 DEF Marked
  <2>7. Began(c2, Faces(s2)) BY <2>3 DEF Began
  <2> QED BY <2>2, <2>5, <2>6, <2>7
<1>4. Sound(c2, s2) BY <1>1, <1>3 DEF Sound
<1> QED BY <1>1, <1>2, <1>3, <1>4 DEF Rest

\* A StateDB that was just opened.
Opened(c, s) ==
  /\ c \in Contexts /\ s \in Parts /\ s.j = << >> /\ s.x = {}
  /\ c.base = c.trie /\ c.pending = {} /\ c.dirty = {}
  /\ \A a \in Addrs : s.d[a] = 0 /\ c.acc[a] = None /\ c.sto[a] = NoWrites
  /\ \A a \in Addrs : s.o[a] = Loaded(IF c.snap THEN c.flat[a].acct ELSE c.trie[a])

\* An object that is loaded from where the trie and the snapshot agree.
LEMMA LoadedSane ==
  ASSUME NEW c \in Contexts, NEW a \in Addrs, NEW D, ~D, c.snap => c.sto[a] = NoWrites,
         \A k \in Slots : c.snap => c.flat[a].slots[k] = RootOf(c.trie[a])[k],
         NEW obj, obj = Loaded(c.trie[a]) PROVE IF obj = None THEN Bare(c, a) ELSE Sane(c, a, obj, D)
<1>1. c.trie[a] \in Stored \cup {None} /\ c.flat[a].slots \in [Slots -> Words] /\ c.sto[a] \in [Slots -> Words \cup {Unset}]
  BY DEF Contexts
<1>2. CASE c.trie[a] = None
  BY <1>1, <1>2, LoadedFacts DEF RootOf, Zeros, Bare
<1>3. CASE c.trie[a] # None
  BY <1>1, <1>3, LoadedFacts DEF RootOf, SlotOf, NoWrites, Sane
<1> QED BY <1>2, <1>3

\* A StateDB that was just opened rests.
LEMMA OpenedRests ==
  ASSUME NEW c, NEW s, Opened(c, s), Lodged(c), EIP158 => Agrees(c) PROVE Rest(c, s)
<1>1. /\ c \in Contexts /\ s \in Parts /\ s.j = << >> /\ s.x = {}
      /\ c.base = c.trie /\ c.pending = {} /\ c.dirty = {}
      /\ \A a \in Addrs : s.d[a] = 0 /\ c.acc[a] = None /\ c.sto[a] = NoWrites
  BY DEF Opened
<1> DEFINE Acct(a) == IF c.snap THEN c.flat[a].acct ELSE c.trie[a]
<1>2. \A a \in Addrs : s.o[a] = Loaded(Acct(a)) /\ Acct(a) \in Stored \cup {None} BY <1>1 DEF Opened, Contexts
<1>3. ASSUME NEW a \in Addrs
      PROVE  /\ Acct(a) = None => s.o[a] = None
             /\ Acct(a) # None =>
                  /\ s.o[a] \in Object /\ s.o[a] # None /\ ~s.o[a].deleted
                  /\ s.o[a].code = Acct(a).code /\ s.o[a].root = Acct(a).root
                  /\ s.o[a].origin = NoWrites /\ s.o[a].pending = NoWrites /\ s.o[a].dirty = NoWrites
             /\ Plain(s.o[a]) = AccountView(Acct(a))
  BY <1>2, LoadedFacts
<1>4. \A a \in Addrs : HasCode(Acct(a)) \/ HasCode(c.trie[a]) => a \in c.codes BY <1>1 DEF Lodged
<1>5. Agrees(c) => \A a \in Addrs : Acct(a) = c.trie[a] BY <1>1 DEF Agrees
<1> HIDE DEF Acct
<1>6. Counted(s) /\ Named(s) /\ Ordered(s.j) /\ Slotted(s) BY <1>1, CountedEmpty
<1>7. Len(s.j) = 0 BY <1>1
<1>8. Present(c, s) BY <1>1, <1>7 DEF Present
<1>9. Coded(c, s)
  <2>1. ASSUME NEW a \in Addrs, s.o[a] # None PROVE CodeKept(c, a, s.o[a]) BY <2>1, <1>3, <1>4 DEF CodeKept, HasCode
  <2>2. ASSUME NEW a \in Addrs PROVE ~Owes(c, a) BY <1>1, <1>4 DEF Owes, HasCode
  <2> QED BY <2>1, <2>2, <1>7 DEF Coded
<1>10. ASSUME EIP158 PROVE Saned(c, s) /\ Marked(c, s) /\ Agrees(c) /\ Began(c, Faces(s))
  <2>1. Agrees(c) /\ \A a \in Addrs : Acct(a) = c.trie[a] BY <1>5, <1>10
  <2>2. ASSUME NEW a \in Addrs, c.snap PROVE c.flat[a].acct = c.trie[a] /\ c.flat[a].slots = RootOf(c.trie[a])
    BY <2>1, <2>2, <1>1 DEF Agrees
  <2>3. ASSUME NEW a \in Addrs, NEW k \in Slots, c.snap
        PROVE  SlotOf(c, a, FALSE, k) = RootOf(c.trie[a])[k] /\ c.flat[a].slots[k] = RootOf(c.trie[a])[k]
    BY <2>2, <2>3, <1>1 DEF SlotOf, NoWrites
  <2>4. ASSUME NEW a \in Addrs PROVE IF s.o[a] = None THEN Bare(c, a) ELSE Sane(c, a, s.o[a], a \in s.x)
    <3>1. s.o[a] = Loaded(c.trie[a]) BY <2>1, <1>2
    <3>2. \A k \in Slots : c.snap => c.flat[a].slots[k] = RootOf(c.trie[a])[k] BY <2>3
    <3> DEFINE D == a \in s.x
    <3>3. ~D BY <1>1
    <3> HIDE DEF D
    <3>4. IF s.o[a] = None THEN Bare(c, a) ELSE Sane(c, a, s.o[a], D) BY <3>1, <3>2, <3>3, <1>1, LoadedSane
    <3> QED BY <3>4 DEF D
  <2>5. Saned(c, s) BY <2>4, <1>7 DEF Saned
  <2>6. Marked(c, s) BY <1>1, <1>7 DEF Marked
  <2>7. ASSUME NEW a \in Addrs
        PROVE  /\ Faces(s)[a].seen # None => ~Faces(s)[a].seen.dead
               /\ Arrived(c, a, Faces(s)[a])
               /\ c.acc[a] = None /\ c.sto[a] = NoWrites /\ ~Faces(s)[a].destruct
    <3> DEFINE D == FALSE
    <3>1. D = (a \in s.x) BY <1>1
    <3>2. Faces(s)[a] = Face(s.o[a], a \in s.x) BY <1>1, FacesType
    <3>3. Plain(s.o[a]) = AccountView(c.trie[a]) BY <2>1, <1>3
    <3>4. Faces(s)[a].seen = AccountView(c.trie[a]) /\ Faces(s)[a].destruct = (a \in s.x) BY <3>2, <3>3 DEF Face
    <3>5. Faces(s)[a].seen # None => ~Faces(s)[a].seen.dead
      <4> DEFINE t == c.trie[a]
      <4>1. AccountView(t) = IF t = None THEN None
                             ELSE [bal |-> t.bal, nonce |-> t.nonce, code |-> t.code, store |-> t.root, dead |-> D]
        BY DEF AccountView
      <4>2. ~D OBVIOUS
      <4> HIDE DEF t, D
      <4>3. AccountView(t) # None => AccountView(t).dead = D BY <4>1
      <4> QED BY <4>2, <4>3, <3>4 DEF t
    <3>6. Arrived(c, a, Faces(s)[a])
      <4>1. ~Faces(s)[a].destruct BY <3>4, <1>1
      <4>2. c.snap => LayerAcct(c, a, Faces(s)[a].destruct) = c.trie[a] BY <4>1, <2>2, <1>1 DEF LayerAcct
      <4>3. ASSUME NEW k \in Slots, c.snap PROVE SlotOf(c, a, Faces(s)[a].destruct, k) = RootOf(c.trie[a])[k]
        BY <4>1, <4>3, <2>3 DEF SlotOf
      <4> QED BY <4>2, <4>3, <3>4 DEF Arrived
    <3> QED BY <3>4, <3>5, <3>6, <1>1
  <2>8. Began(c, Faces(s)) BY <2>7 DEF Began
  <2> QED BY <2>1, <2>5, <2>6, <2>8
<1>11. Sound(c, s) BY <1>1, <1>6, <1>8, <1>9, <1>10 DEF Sound
<1> QED BY <1>1, <1>10, <1>11 DEF Rest

\* The next block's StateDB is opened on what Commit stored.
OpenOf(c, s, c2, s2) ==
  /\ Opened(c2, s2) /\ c2.snap = c.snap /\ c2.trie = c.trie
  /\ c2.codes = c.codes \cup {a \in c.dirty : ~s.o[a].deleted /\ s.o[a].code /\ s.o[a].dirtyCode}
  /\ IF c.snap /\ c.trie # c.base
       THEN \A a \in Addrs : /\ c2.flat[a].acct = LayerAcct(c, a, a \in s.x)
                             /\ \A k \in Slots : c2.flat[a].slots[k] = SlotOf(c, a, a \in s.x, k)
       ELSE c2.flat = c.flat

\* It rests too.
LEMMA OpenRests ==
  ASSUME NEW c, NEW s, NEW c2, NEW s2, Rest(c, s), c.pending = {}, OpenOf(c, s, c2, s2) PROVE Rest(c2, s2)
<1>1. /\ c \in Contexts /\ s \in Parts /\ Coded(c, s) /\ Lodged(c)
      /\ EIP158 => Agrees(c) /\ Began(c, Faces(s))
  BY DEF Rest, Sound
<1>2. /\ Opened(c2, s2) /\ c2 \in Contexts /\ c2.base = c2.trie /\ c2.pending = {} /\ c2.dirty = {}
      /\ c2.snap = c.snap /\ c2.trie = c.trie
      /\ c2.codes = c.codes \cup {a \in c.dirty : ~s.o[a].deleted /\ s.o[a].code /\ s.o[a].dirtyCode}
  BY DEF OpenOf, Opened
<1>3. ASSUME NEW a \in Addrs, HasCode(c.trie[a]) \/ HasCode(c.acc[a]) PROVE a \in c2.codes
  BY <1>3, <1>1, <1>2 DEF Owes, Coded, IsLive
<1>4. Lodged(c2)
  <2>1. ASSUME NEW a \in Addrs, HasCode(c2.base[a]) \/ HasCode(c2.flat[a].acct) PROVE a \in c2.codes
    <3>1. CASE HasCode(c2.base[a]) BY <3>1, <1>2, <1>3
    <3>2. CASE HasCode(c2.flat[a].acct)
      BY <3>2, <1>1, <1>2, <1>3 DEF OpenOf, LayerAcct, HasCode, Lodged
    <3> QED BY <2>1, <3>1, <3>2
  <2> QED BY <2>1, <1>2 DEF Lodged
<1>5. ASSUME EIP158 PROVE Agrees(c2)
  <2>1. CASE c.snap /\ c.trie # c.base
    <3>1. ASSUME NEW a \in Addrs PROVE c2.flat[a].acct = c2.base[a] /\ c2.flat[a].slots = RootOf(c2.base[a])
      <4>1. Arrived(c, a, Faces(s)[a]) BY <1>1, <1>5 DEF Began
      <4> DEFINE D == a \in s.x
      <4>2. Faces(s)[a] = Face(s.o[a], D) BY <1>1, FacesType
      <4>3. /\ c2.flat[a].acct = LayerAcct(c, a, D)
            /\ \A k \in Slots : c2.flat[a].slots[k] = SlotOf(c, a, D, k)
        BY <2>1 DEF OpenOf
      <4> HIDE DEF D
      <4>4. Faces(s)[a].destruct = D BY <4>2 DEF Face
      <4>5. LayerAcct(c, a, D) = c.trie[a] /\ \A k \in Slots : SlotOf(c, a, D, k) = RootOf(c.trie[a])[k]
        BY <4>1, <4>4, <2>1 DEF Arrived
      <4>6. c2.flat[a].slots \in [Slots -> Words] /\ RootOf(c.trie[a]) \in [Slots -> Words]
        BY WordsAssumption, <1>1, <1>2 DEF Zeros, Contexts, RootOf, Stored
      <4>7. c2.flat[a].slots = RootOf(c.trie[a]) BY <4>3, <4>5, <4>6
      <4> QED BY <4>3, <4>5, <4>7, <1>2
    <3> QED BY <3>1 DEF Agrees
  <2>2. CASE ~c.snap BY <2>2, <1>2 DEF Agrees
  <2>3. CASE c.snap /\ c.trie = c.base
    BY <2>3, <1>2, <1>1, <1>5 DEF OpenOf, Agrees
  <2> QED BY <2>1, <2>2, <2>3
<1> QED BY <1>2, <1>4, <1>5, OpenedRests

\* The StateDB after a Finalise that comes to f, and after the flush of that.
FinCtx(f) == [snap |-> useSnap, base |-> base, trie |-> trie, flat |-> flat, codes |-> codes,
              pending |-> f.pending, dirty |-> f.dirty, acc |-> f.acc, sto |-> f.sto]
FinLive(f, d) == [o |-> f.o, j |-> << >>, d |-> d, x |-> f.destructs]
FlushCtx(f) == [snap |-> useSnap, base |-> base, trie |-> Flushed(f).trie, flat |-> flat, codes |-> codes,
                pending |-> {}, dirty |-> f.dirty, acc |-> Flushed(f).acc, sto |-> Flushed(f).sto]
FlushLive(f, d) == [o |-> Flushed(f).o, j |-> << >>, d |-> d, x |-> f.destructs]

\* The counts that clearJournalAndRefund leaves.
Cleared(d) == d \in [Addrs -> Nat] /\ \A a \in Addrs : a # Ripemd => d[a] = 0

\* An object that Finalise deletes.
Deleted(obj) == [obj EXCEPT !.deleted = TRUE]

\* It is the object, marked.
LEMMA DeletedFacts ==
  ASSUME NEW obj \in Object
  PROVE  /\ Deleted(obj) \in Object /\ Deleted(obj).deleted
         /\ Deleted(obj).code = obj.code /\ Deleted(obj).dirtyCode = obj.dirtyCode
<1> DEFINE D == TRUE
           m == [obj EXCEPT !.deleted = D]
<1>1. D \in BOOLEAN /\ D OBVIOUS
<1>2. Deleted(obj) = m BY DEF Deleted
<1> HIDE DEF D
<1>3. m \in Object /\ m.deleted = D /\ m.code = obj.code /\ m.dirtyCode = obj.dirtyCode BY <1>1 DEF Object
<1> HIDE DEF m
<1> QED BY <1>1, <1>2, <1>3

\* What Finalise comes to, address by address.
LEMMA FinalisedParts ==
  ASSUME Books
  PROVE  LET f == Finalised
             dead == {a \in Touched : Dies(a)}
         IN /\ f.pending = pending \cup Touched /\ f.dirty = dirty \cup Touched
            /\ f.destructs = IF useSnap THEN destructs \cup dead ELSE destructs
            /\ \A a \in Addrs : a \notin Touched =>
                 f.o[a] = objs[a] /\ f.acc[a] = snapAcc[a] /\ f.sto[a] = snapSto[a]
            /\ \A a \in dead : /\ objs[a] \in Object /\ f.o[a] \in Object /\ f.o[a].deleted
                               /\ f.o[a].code = objs[a].code /\ f.o[a].dirtyCode = objs[a].dirtyCode
                               /\ f.acc[a] = None /\ f.sto[a] = NoWrites
            /\ \A a \in Touched \ dead : /\ objs[a] \in Object /\ ~objs[a].suicided /\ f.o[a] = MoveDirty(objs[a])
                                         /\ f.acc[a] = snapAcc[a] /\ f.sto[a] = snapSto[a]
            /\ f.o \in [Addrs -> Object \cup {None}] /\ f.acc \in [Addrs -> Stored \cup {None}]
            /\ f.sto \in [Addrs -> [Slots -> Words \cup {Unset}]]
<1> DEFINE f == Finalised
           dead == {a \in Touched : Dies(a)}
           O == [a \in Addrs |-> IF a \in dead THEN [objs[a] EXCEPT !.deleted = TRUE]
                                 ELSE IF a \in Touched THEN MoveDirty(objs[a]) ELSE objs[a]]
           A == [a \in Addrs |-> IF a \in dead THEN None ELSE snapAcc[a]]
           S == [a \in Addrs |-> IF a \in dead THEN NoWrites ELSE snapSto[a]]
<1>1. /\ f.o = O /\ f.acc = A /\ f.sto = S
      /\ f.pending = pending \cup Touched /\ f.dirty = dirty \cup Touched
      /\ f.destructs = IF useSnap THEN destructs \cup dead ELSE destructs
  BY DEF Finalised, SlotsKept
<1>2. Ctx \in Contexts /\ Live \in Parts BY DEF Books, Sound
<1>3. /\ objs \in [Addrs -> Object \cup {None}] /\ snapAcc \in [Addrs -> Stored \cup {None}]
      /\ snapSto \in [Addrs -> [Slots -> Words \cup {Unset}]]
  BY <1>2 DEF Contexts, Parts, Ctx, Live
<1>4. dead \subseteq Touched /\ \A a \in Touched : a \in Addrs /\ objs[a] \in Object BY <1>3 DEF Touched
<1>5. \A a \in Touched \ dead : ~objs[a].suicided BY DEF Dies
<1> HIDE DEF f, dead
<1>6. ASSUME NEW a \in dead
      PROVE  O[a] \in Object /\ O[a].deleted /\ O[a].code = objs[a].code /\ O[a].dirtyCode = objs[a].dirtyCode
  BY <1>4, DeletedFacts DEF Deleted
<1>7. \A a \in Touched : a \notin dead => O[a] = MoveDirty(objs[a]) /\ O[a] \in Object BY <1>4, MoveFacts
<1>8. \A a \in Addrs : a \notin Touched => O[a] = objs[a] BY <1>4
<1>9. O \in [Addrs -> Object \cup {None}]
  <2>1. \A a \in Addrs : O[a] \in Object \cup {None} BY <1>3, <1>6, <1>7, <1>8
  <2>2. O = [a \in Addrs |-> O[a]] OBVIOUS
  <2> HIDE DEF O
  <2> QED BY <2>1, <2>2
<1>10. A \in [Addrs -> Stored \cup {None}] /\ S \in [Addrs -> [Slots -> Words \cup {Unset}]] BY <1>3 DEF NoWrites
<1>11. /\ \A a \in Addrs : a \notin dead => A[a] = snapAcc[a] /\ S[a] = snapSto[a]
       /\ \A a \in dead : A[a] = None /\ S[a] = NoWrites
  BY <1>4
<1> HIDE DEF O, A, S
<1> QED BY <1>1, <1>4, <1>5, <1>6, <1>7, <1>8, <1>9, <1>10, <1>11 DEF f, dead

\* An address that no entry dirties is as it was when the transaction began.
LEMMA Undirtied ==
  ASSUME Books, mode = "run", EIP158, NEW h, Chronicle(h), NEW a \in Addrs, a \notin Touched
  PROVE  Faces(Live)[a] = h[0][a]
<1>1. /\ Told(h, Live) /\ Settled(h, journal, Bound) /\ Bound = Len(journal)
      /\ Sound(Ctx, Live) /\ Live.j = journal /\ Live.d = dirties /\ Live.o = objs
  BY DEF Chronicle, Bound, Books, Live
<1>2. /\ Live \in Parts /\ Named(Live) /\ Counted(Live) /\ journal \in Seq(Entries) /\ dirties \in [Addrs -> Nat]
  BY <1>1 DEF Sound, Parts
<1>3. ASSUME NEW i \in 1 .. Len(journal) PROVE a \notin Dirtied(journal[i])
  <2>1. journal[i] \in Entries BY <1>2
  <2>2. Dirtied(journal[i]) = IF journal[i].op = "reset" THEN {} ELSE {journal[i].addr} BY <2>1, EntryKind
  <2>3. CASE objs[a] = None
    BY <1>1, <1>2, <2>2, <2>3 DEF Named, IsLive
  <2>4. CASE objs[a] # None
    BY <2>4, <1>2, <1>1, CountZero DEF Touched, Counted
  <2> QED BY <2>3, <2>4
<1>4. h[Len(journal)][a] = h[0][a] BY <1>1, <1>3 DEF Settled
<1> QED BY <1>1, <1>4 DEF Told

\* Finalise does this.
LEMMA FinalisedOf ==
  ASSUME Books, mode = "run", NEW h, EIP158 => Chronicle(h), NEW d, Cleared(d)
  PROVE  FinalOf(Ctx, Live, FinCtx(Finalised), FinLive(Finalised, d), h[0])
<1> DEFINE f == Finalised
           dead == {a \in Touched : Dies(a)}
           c == Ctx
           s == Live
           c2 == FinCtx(f)
           s2 == FinLive(f, d)
<1>1. /\ f.pending = pending \cup Touched /\ f.dirty = dirty \cup Touched
      /\ f.destructs = IF useSnap THEN destructs \cup dead ELSE destructs
      /\ \A a \in Addrs : a \notin Touched =>
           f.o[a] = objs[a] /\ f.acc[a] = snapAcc[a] /\ f.sto[a] = snapSto[a]
      /\ \A a \in dead : /\ objs[a] \in Object /\ f.o[a] \in Object /\ f.o[a].deleted
                         /\ f.o[a].code = objs[a].code /\ f.o[a].dirtyCode = objs[a].dirtyCode
                         /\ f.acc[a] = None /\ f.sto[a] = NoWrites
      /\ \A a \in Touched \ dead : /\ objs[a] \in Object /\ ~objs[a].suicided /\ f.o[a] = MoveDirty(objs[a])
                                   /\ f.acc[a] = snapAcc[a] /\ f.sto[a] = snapSto[a]
      /\ f.o \in [Addrs -> Object \cup {None}] /\ f.acc \in [Addrs -> Stored \cup {None}]
      /\ f.sto \in [Addrs -> [Slots -> Words \cup {Unset}]]
  BY FinalisedParts
<1> HIDE DEF f
<1>2. /\ c.snap = useSnap /\ c.base = base /\ c.trie = trie /\ c.flat = flat /\ c.codes = codes
      /\ c.pending = pending /\ c.dirty = dirty /\ c.acc = snapAcc /\ c.sto = snapSto
      /\ s.o = objs /\ s.j = journal /\ s.d = dirties /\ s.x = destructs
  BY CtxFields DEF Live
<1>3. /\ c2.snap = useSnap /\ c2.base = base /\ c2.trie = trie /\ c2.flat = flat /\ c2.codes = codes
      /\ c2.pending = f.pending /\ c2.dirty = f.dirty /\ c2.acc = f.acc /\ c2.sto = f.sto
      /\ s2.o = f.o /\ s2.j = << >> /\ s2.d = d /\ s2.x = f.destructs
  BY DEF FinCtx, FinLive
<1>4. c \in Contexts /\ s \in Parts BY DEF Books, Sound
<1>5. dead \subseteq Touched /\ Touched \subseteq Addrs BY DEF Touched
<1>6. c2 \in Contexts
  BY <1>2, <1>4, <1>1, <1>5 DEF Contexts, FinCtx
<1>7. s2 \in Parts
  BY <1>2, <1>4, <1>1, <1>5 DEF Parts, Cleared, FinLive
<1> HIDE DEF c, s, c2, s2
<1>8. ASSUME NEW a \in Addrs PROVE Skipped(c, s, c2, s2, a, h[0]) \/ Killed(c, s, c2, s2, a) \/ Moved(c, s, c2, s2, a)
  <2>1. CASE a \notin Touched
    BY <2>1, <1>5, <1>1, <1>2, <1>3, Undirtied DEF s, Skipped, Alike
  <2>2. CASE a \in dead
    BY <2>2, <1>5, <1>1, <1>2, NilAssumption, <1>3 DEF Killed
  <2>3. CASE a \in Touched /\ a \notin dead
    BY <2>3, <1>1, <1>2, <1>3 DEF Moved, Alike
  <2> QED BY <2>1, <2>2, <2>3, <1>5
<1>9. \A a \in Addrs : a # Ripemd => s2.d[a] = 0 BY <1>3 DEF Cleared
<1> QED BY <1>2, <1>3, <1>6, <1>7, <1>8, <1>9 DEF FinalOf, f, c, s, c2, s2

\* Finalise leaves what IntermediateRoot needs.
LEMMA FinalisedKept ==
  ASSUME Books, mode = "run", NEW d, Cleared(d) PROVE Final(FinCtx(Finalised), FinLive(Finalised, d))
<1> DEFINE c2 == FinCtx(Finalised)
           s2 == FinLive(Finalised, d)
<1>1. Sound(Ctx, Live) /\ Stocked(Ctx) /\ (EIP158 => Agrees(Ctx)) BY DEF Books
<1>2. CASE EIP158
  <2>1. PICK h \in Histories : Chronicle(h) BY <1>2 DEF Books
  <2>2. FinalOf(Ctx, Live, c2, s2, h[0]) BY <2>1, FinalisedOf
  <2>3. Began(Ctx, h[0]) BY <2>1 DEF Chronicle
  <2> HIDE DEF c2, s2
  <2>4. Final(c2, s2) BY <1>1, <2>2, <2>3, FinalKept
  <2> QED BY <2>4 DEF c2, s2
<1>3. CASE ~EIP158
  <2> DEFINE h == [n \in Nat |-> n]
  <2>1. FinalOf(Ctx, Live, c2, s2, h[0]) BY <1>3, FinalisedOf
  <2> HIDE DEF c2, s2, h
  <2>2. Final(c2, s2) BY <1>1, <1>3, <2>1, FinalKept
  <2> QED BY <2>2 DEF c2, s2
<1> QED BY <1>2, <1>3

\* What IntermediateRoot comes to, address by address.
LEMMA FlushedOf ==
  ASSUME NEW f, NEW d, Final(FinCtx(f), FinLive(f, d))
  PROVE  FlushOf(FinCtx(f), FinLive(f, d), FlushCtx(f), FlushLive(f, d))
<1> DEFINE c == FinCtx(f)
           s == FinLive(f, d)
           g == Flushed(f)
           c2 == FlushCtx(f)
           s2 == FlushLive(f, d)
           upd == {a \in f.pending : ~f.o[a].deleted}
           O == [a \in Addrs |-> IF a \in upd THEN UpdateRoot(f.o[a]) ELSE f.o[a]]
           T == [a \in Addrs |-> IF a \in upd THEN AccountOf(O[a]) ELSE IF a \in f.pending THEN None ELSE trie[a]]
           A == [a \in Addrs |-> IF useSnap /\ a \in upd THEN AccountOf(O[a]) ELSE f.acc[a]]
           S == [a \in Addrs |-> [k \in Slots |->
                   IF useSnap /\ a \in upd /\ k \in Changed(MoveDirty(f.o[a])) THEN O[a].root[k] ELSE f.sto[a][k]]]
<1>1. g.o = O /\ g.trie = T /\ g.acc = A /\ g.sto = S BY DEF Flushed
<1>2. /\ c.snap = useSnap /\ c.base = base /\ c.trie = trie /\ c.flat = flat /\ c.codes = codes
      /\ c.pending = f.pending /\ c.dirty = f.dirty /\ c.acc = f.acc /\ c.sto = f.sto
      /\ s.o = f.o /\ s.j = << >> /\ s.d = d /\ s.x = f.destructs
  BY DEF FinCtx, FinLive
<1>3. c \in Contexts /\ s \in Parts /\ \A a \in c.pending : s.o[a] # None BY DEF Final, Present
<1>4. /\ useSnap \in BOOLEAN /\ base \in [Addrs -> Stored \cup {None}] /\ trie \in [Addrs -> Stored \cup {None}]
      /\ flat \in [Addrs -> [acct : Stored \cup {None}, slots : [Slots -> Words]]]
      /\ codes \in SUBSET Addrs /\ f.pending \in SUBSET Addrs /\ f.dirty \in SUBSET Addrs
      /\ f.acc \in [Addrs -> Stored \cup {None}] /\ f.sto \in [Addrs -> [Slots -> Words \cup {Unset}]]
      /\ f.o \in [Addrs -> Object \cup {None}] /\ d \in [Addrs -> Nat] /\ f.destructs \in SUBSET Addrs
  BY <1>2, <1>3 DEF Contexts, Parts
<1>5. /\ c2.snap = useSnap /\ c2.base = base /\ c2.trie = T /\ c2.flat = flat /\ c2.codes = codes
      /\ c2.pending = {} /\ c2.dirty = f.dirty /\ c2.acc = A /\ c2.sto = S
      /\ s2.o = O /\ s2.j = << >> /\ s2.d = d /\ s2.x = f.destructs
  BY <1>1 DEF FlushCtx, FlushLive
<1>6. /\ \A a \in upd : a \in f.pending /\ a \in Addrs /\ ~f.o[a].deleted /\ f.o[a] \in Object
      /\ \A a \in f.pending : a \notin upd => f.o[a].deleted /\ f.o[a] # None
  BY <1>2, <1>3, <1>4
<1> HIDE DEF c, s, g, c2, s2, upd
<1>7. \A a \in Addrs : O[a] = IF a \in upd THEN UpdateRoot(f.o[a]) ELSE f.o[a] OBVIOUS
<1>8. \A a \in upd : O[a] \in Object BY <1>6, <1>7, UpdateFacts
<1>9. O \in [Addrs -> Object \cup {None}] BY <1>4, <1>7, <1>8
<1>10. \A a \in upd : O[a].root \in [Slots -> Words] /\ AccountOf(O[a]) \in Stored BY <1>8, AccountFacts DEF Object
<1> HIDE DEF O
<1>11. T \in [Addrs -> Stored \cup {None}] /\ A \in [Addrs -> Stored \cup {None}] BY <1>4, <1>10
<1>12. S \in [Addrs -> [Slots -> Words \cup {Unset}]] BY <1>4, <1>10
<1>13. /\ \A a \in Addrs : T[a] = IF a \in upd THEN AccountOf(O[a]) ELSE IF a \in f.pending THEN None ELSE trie[a]
       /\ \A a \in Addrs : A[a] = IF useSnap /\ a \in upd THEN AccountOf(O[a]) ELSE f.acc[a]
  OBVIOUS
<1>14. /\ \A a \in Addrs, k \in Slots :
            S[a][k] = IF useSnap /\ a \in upd /\ k \in Changed(MoveDirty(f.o[a])) THEN O[a].root[k] ELSE f.sto[a][k]
       /\ \A a \in Addrs : a \notin upd => S[a] = f.sto[a]
  <2>1. \A a \in Addrs, k \in Slots :
          S[a][k] = IF useSnap /\ a \in upd /\ k \in Changed(MoveDirty(f.o[a])) THEN O[a].root[k] ELSE f.sto[a][k]
    OBVIOUS
  <2>2. ASSUME NEW a \in Addrs, a \notin upd PROVE S[a] = f.sto[a]
    <3>1. S[a] \in [Slots -> Words \cup {Unset}] /\ f.sto[a] \in [Slots -> Words \cup {Unset}] BY <1>4, <1>12
    <3> HIDE DEF S
    <3>2. \A k \in Slots : S[a][k] = f.sto[a][k] BY <2>1, <2>2
    <3> QED BY <3>1, <3>2
  <2> QED BY <2>1, <2>2
<1> HIDE DEF T, A, S
<1>15. c2 \in Contexts BY <1>1, <1>4, <1>11, <1>12 DEF Contexts, FlushCtx, c2, g
<1>16. s2 \in Parts
  BY <1>1, <1>4, <1>9 DEF Parts, FlushLive, s2, g
<1>17. ASSUME NEW a \in Addrs PROVE Untouched(c, s, c2, s2, a) \/ Removed(c, s, c2, s2, a) \/ Written(c, s, c2, s2, a)
  <2>1. CASE a \notin f.pending
    <3>1. a \notin upd BY <2>1, <1>6
    <3> QED BY <2>1, <3>1, <1>2, <1>5, <1>7, <1>13, <1>14 DEF Untouched
  <2>2. CASE a \in f.pending /\ a \notin upd
    <3>1. f.o[a].deleted /\ f.o[a] # None BY <2>2, <1>6
    <3> QED BY <2>2, <3>1, <1>2, <1>5, <1>7, <1>13, <1>14 DEF Removed
  <2>3. CASE a \in upd
    <3>1. a \in f.pending /\ ~f.o[a].deleted /\ f.o[a] \in Object BY <2>3, <1>6
    <3>2. /\ s2.o[a] = UpdateRoot(s.o[a]) /\ c2.trie[a] = AccountOf(s2.o[a])
          /\ c2.acc[a] = IF c.snap THEN AccountOf(s2.o[a]) ELSE c.acc[a]
      BY <2>3, <1>2, <1>5, <1>7, <1>13
    <3>3. \A k \in Slots : c2.sto[a][k] = IF c.snap /\ k \in Changed(MoveDirty(s.o[a]))
                                            THEN s2.o[a].root[k] ELSE c.sto[a][k] BY <2>3, <1>2, <1>5, <1>14
    <3> QED BY <3>1, <3>2, <3>3, <1>2 DEF Written
  <2> QED BY <2>1, <2>2, <2>3
<1> QED BY <1>2, <1>5, <1>15, <1>16, <1>17 DEF FlushOf, c, s, c2, s2

\* The counts are cleared, or those of an empty journal.
LEMMA ClearedCounts ==
  ASSUME Books
  PROVE  /\ Cleared([a \in Addrs |-> 0])
         /\ journal = << >> => Cleared(dirties)
<1>1. Live.j = journal /\ Live.d = dirties /\ Live \in Parts /\ Counted(Live) BY DEF Books, Sound, Live
<1>2. journal \in Seq(Entries) /\ dirties \in [Addrs -> Nat] BY <1>1 DEF Parts
<1>3. ASSUME journal = << >>, NEW a \in Addrs, a # Ripemd PROVE dirties[a] = 0
  <2>1. Len(journal) = 0 BY <1>3
  <2>2. Count(journal, a) = 0
    <3>1. Count(journal, a) = 0 <=> \A i \in 1 .. Len(journal) : a \notin Dirtied(journal[i]) BY <1>2, CountZero
    <3>2. \A i \in 1 .. Len(journal) : a \notin Dirtied(journal[i]) BY <2>1
    <3> QED BY <3>1, <3>2
  <2>3. dirties[a] = Count(journal, a) BY <1>1, <1>3 DEF Counted
  <2> QED BY <2>2, <2>3
<1> QED BY <1>2, <1>3 DEF Cleared

\* The end of a transaction keeps the invariant.
LEMMA EndTxKeeps ==
  ASSUME Books, EndTx PROVE Books'
<1> DEFINE f == Finalised
           d == dirties'
<1>1. mode = "run" /\ mode' = "run" /\ target = 0 /\ target' = 0 /\ revisions' = << >> /\ saved' = << >>
  BY DEF EndTx, Running, ClearJournal, Books, Marks
<1>2. Cleared(d) /\ journal' = << >> BY ClearedCounts DEF EndTx, ClearJournal
<1>3. Ranges' BY BoundsAssumption DEF Books, Ranges, EndTx
<1>4. Byzantium => trie' = base' BY DEF EndTx, Books, Stocked, Ctx
<1>5. Final(FinCtx(f), FinLive(f, d)) BY <1>1, <1>2, FinalisedKept
<1> HIDE DEF d
<1>6. CASE Byzantium
  <2>1. Ctx' = FinCtx(f) /\ Live' = FinLive(f, d) BY <1>2, <1>6 DEF EndTx, Ctx, Live, FinCtx, FinLive, d
  <2>2. Rest(FinCtx(f), FinLive(f, d)) BY <1>5, <1>6, ByzRests
  <2>3. Rest(Ctx', Live') BY <2>1, <2>2
  <2> QED BY <2>3, <1>1, <1>3, <1>4, RestKeeps
<1>7. CASE ~Byzantium
  <2>1. Ctx' = FlushCtx(f) /\ Live' = FlushLive(f, d) BY <1>2, <1>7 DEF EndTx, Ctx, Live, FlushCtx, FlushLive, d
  <2>2. FlushOf(FinCtx(f), FinLive(f, d), FlushCtx(f), FlushLive(f, d)) BY <1>5, FlushedOf
  <2>3. Rest(FlushCtx(f), FlushLive(f, d)) BY <1>5, <2>2, FlushRests
  <2>4. Rest(Ctx', Live') BY <2>1, <2>3
  <2> QED BY <2>4, <1>1, <1>3, <1>4, RestKeeps
<1> QED BY <1>6, <1>7

\* The snapshot layer of the next block.
LEMMA NextLayerFacts ==
  ASSUME NEW f, NEW d, FlushCtx(f) \in Contexts
  PROVE  LET c == FlushCtx(f)
             l == NextLayer(f.destructs, Flushed(f).acc, Flushed(f).sto)
         IN /\ l \in [Addrs -> [acct : Stored \cup {None}, slots : [Slots -> Words]]]
            /\ \A a \in Addrs : /\ l[a].acct = LayerAcct(c, a, a \in f.destructs)
                                /\ \A k \in Slots : l[a].slots[k] = SlotOf(c, a, a \in f.destructs, k)
<1> DEFINE c == FlushCtx(f)
           acc == Flushed(f).acc
           sto == Flushed(f).sto
           destr == f.destructs
           l == NextLayer(destr, acc, sto)
           Acct(a) == IF acc[a] # None THEN acc[a] ELSE IF a \in destr THEN None ELSE flat[a].acct
           Sl(a) == [k \in Slots |-> IF sto[a][k] # Unset THEN sto[a][k]
                                     ELSE IF a \in destr THEN 0 ELSE flat[a].slots[k]]
<1>1. c.acc = acc /\ c.sto = sto /\ c.flat = flat /\ c \in Contexts BY DEF FlushCtx
<1>2. /\ acc \in [Addrs -> Stored \cup {None}] /\ sto \in [Addrs -> [Slots -> Words \cup {Unset}]]
      /\ flat \in [Addrs -> [acct : Stored \cup {None}, slots : [Slots -> Words]]]
  BY <1>1 DEF Contexts
<1>3. l = [a \in Addrs |-> [acct |-> Acct(a), slots |-> Sl(a)]] BY DEF NextLayer
<1> HIDE DEF c, acc, sto, destr, l
<1>4. ASSUME NEW a \in Addrs
      PROVE  /\ Acct(a) \in Stored \cup {None} /\ Sl(a) \in [Slots -> Words]
             /\ Acct(a) = LayerAcct(c, a, a \in destr)
             /\ \A k \in Slots : Sl(a)[k] = SlotOf(c, a, a \in destr, k)
  BY <1>2, WordsAssumption, <1>1 DEF LayerAcct, SlotOf
<1> HIDE DEF Acct, Sl
<1>5. l \in [Addrs -> [acct : Stored \cup {None}, slots : [Slots -> Words]]] BY <1>3, <1>4
<1>6. \A a \in Addrs : l[a].acct = Acct(a) /\ l[a].slots = Sl(a) BY <1>3
<1> QED BY <1>4, <1>5, <1>6 DEF c, acc, sto, destr, l

\* Commit opens the next block.
LEMMA CommitOpens ==
  ASSUME Books, Commit, NEW d,
         FlushCtx(Finalised) \in Contexts, FlushLive(Finalised, d) \in Parts
  PROVE  OpenOf(FlushCtx(Finalised), FlushLive(Finalised, d), Ctx', Live')
<1> DEFINE f == Finalised
           g == Flushed(f)
           c == FlushCtx(f)
           s == FlushLive(f, d)
           layer == NextLayer(f.destructs, g.acc, g.sto)
           c2 == Ctx'
           s2 == Live'
           Zs == [a \in Addrs |-> 0]
           As == [a \in Addrs |-> None]
           Ss == [a \in Addrs |-> NoWrites]
<1>1. /\ useSnap' = useSnap /\ trie' = g.trie /\ base' = g.trie
      /\ flat' = IF useSnap /\ g.trie # base THEN layer ELSE flat
      /\ codes' = codes \cup {a \in f.dirty : ~g.o[a].deleted /\ g.o[a].code /\ g.o[a].dirtyCode}
      /\ objs' = OpenObjects(g.trie, flat')
      /\ journal' = << >> /\ dirties' = Zs
      /\ pending' = {} /\ dirty' = {} /\ destructs' = {} /\ snapAcc' = As /\ snapSto' = Ss
  BY DEF Commit
<1>2. /\ c.snap = useSnap /\ c.base = base /\ c.trie = g.trie /\ c.flat = flat /\ c.codes = codes
      /\ c.pending = {} /\ c.dirty = f.dirty /\ c.acc = g.acc /\ c.sto = g.sto
      /\ s.o = g.o /\ s.j = << >> /\ s.d = d /\ s.x = f.destructs
  BY DEF FlushCtx, FlushLive
<1>3. c \in Contexts OBVIOUS
<1>4. /\ layer \in [Addrs -> [acct : Stored \cup {None}, slots : [Slots -> Words]]]
      /\ \A a \in Addrs : /\ layer[a].acct = LayerAcct(c, a, a \in s.x)
                          /\ \A k \in Slots : layer[a].slots[k] = SlotOf(c, a, a \in s.x, k)
  BY <1>2, <1>3, NextLayerFacts
<1>5. objs' = [a \in Addrs |-> Loaded(IF useSnap THEN flat'[a].acct ELSE g.trie[a])] BY <1>1 DEF OpenObjects
<1>6. /\ c2.snap = useSnap /\ c2.base = g.trie /\ c2.trie = g.trie /\ c2.flat = flat' /\ c2.codes = codes'
      /\ c2.pending = {} /\ c2.dirty = {} /\ c2.acc = As /\ c2.sto = Ss
      /\ s2.o = objs' /\ s2.j = << >> /\ s2.d = Zs /\ s2.x = {}
  BY <1>1 DEF Ctx, Live
<1> HIDE DEF f, g, c, s, layer
<1>7. /\ useSnap \in BOOLEAN /\ g.trie \in [Addrs -> Stored \cup {None}]
      /\ flat \in [Addrs -> [acct : Stored \cup {None}, slots : [Slots -> Words]]]
      /\ codes \in SUBSET Addrs /\ f.dirty \in SUBSET Addrs
  BY <1>2, <1>3 DEF Contexts
<1>8. flat' \in [Addrs -> [acct : Stored \cup {None}, slots : [Slots -> Words]]] BY <1>1, <1>4, <1>7
<1>9. codes' \in SUBSET Addrs BY <1>1, <1>7
<1>10. As \in [Addrs -> Stored \cup {None}] /\ Ss \in [Addrs -> [Slots -> Words \cup {Unset}]] /\ Zs \in [Addrs -> Nat]
  BY DEF NoWrites
<1>11. \A a \in Addrs : As[a] = None /\ Ss[a] = NoWrites /\ Zs[a] = 0 OBVIOUS
<1> HIDE DEF As, Ss, Zs
<1>12. c2 \in Contexts BY <1>1, <1>7, <1>8, <1>9, <1>10 DEF Contexts, Ctx
<1>13. ASSUME NEW a \in Addrs
       PROVE  /\ objs'[a] = Loaded(IF useSnap THEN flat'[a].acct ELSE g.trie[a])
              /\ objs'[a] \in Object \cup {None}
  <2> DEFINE acct == IF useSnap THEN flat'[a].acct ELSE g.trie[a]
  <2>1. acct \in Stored \cup {None} /\ objs'[a] = Loaded(acct) BY <1>5, <1>7, <1>8
  <2> HIDE DEF acct
  <2>2. Loaded(acct) \in Object \cup {None} BY <2>1, LoadedFacts
  <2> QED BY <2>1, <2>2 DEF acct
<1>14. s2 \in Parts
  <2>1. objs' \in [Addrs -> Object \cup {None}]
    BY <1>5, <1>13
  <2>2. << >> \in Seq(Entries) OBVIOUS
  <2> QED BY <2>1, <2>2, <1>1, <1>10 DEF Parts, Live
<1> HIDE DEF c2, s2
<1>15. Opened(c2, s2) BY <1>6, <1>11, <1>12, <1>13, <1>14 DEF Opened
<1>16. IF c.snap /\ c.trie # c.base
         THEN \A a \in Addrs : /\ c2.flat[a].acct = LayerAcct(c, a, a \in s.x)
                               /\ \A k \in Slots : c2.flat[a].slots[k] = SlotOf(c, a, a \in s.x, k)
         ELSE c2.flat = c.flat BY <1>1, <1>2, <1>4, <1>6
<1>17. c2.codes = c.codes \cup {a \in c.dirty : ~s.o[a].deleted /\ s.o[a].code /\ s.o[a].dirtyCode} BY <1>1, <1>2, <1>6
<1>18. OpenOf(c, s, c2, s2) BY <1>2, <1>6, <1>15, <1>16, <1>17 DEF OpenOf
<1> QED BY <1>18 DEF c, s, c2, s2, f

\* Commit keeps the invariant.
LEMMA CommitKeeps ==
  ASSUME Books, Commit PROVE Books'
<1> DEFINE f == Finalised
           d == [a \in Addrs |-> 0]
<1>1. mode = "run" /\ mode' = "run" /\ target' = 0 /\ revisions' = << >> /\ saved' = << >>
  BY DEF Commit, Running, Books, Marks
<1>2. Cleared(d) BY ClearedCounts
<1>3. Ranges' BY BoundsAssumption DEF Books, Ranges, Commit, Running
<1>4. trie' = base' BY DEF Commit
<1> HIDE DEF d
<1>5. Final(FinCtx(f), FinLive(f, d)) BY <1>1, <1>2, FinalisedKept
<1>6. FlushOf(FinCtx(f), FinLive(f, d), FlushCtx(f), FlushLive(f, d)) BY <1>5, FlushedOf
<1>7. Rest(FlushCtx(f), FlushLive(f, d)) /\ FlushCtx(f).pending = {} BY <1>5, <1>6, FlushRests
<1>8. FlushCtx(f) \in Contexts /\ FlushLive(f, d) \in Parts BY <1>6 DEF FlushOf
<1>9. OpenOf(FlushCtx(f), FlushLive(f, d), Ctx', Live') BY <1>8, CommitOpens
<1>10. Rest(Ctx', Live') BY <1>7, <1>9, OpenRests
<1> QED BY <1>1, <1>3, <1>4, <1>10, RestKeeps

\* A copy of a StateDB between transactions: what is neither pending nor dirty is
\* loaded again.
Copied(c, s, c2, s2, kept) ==
  /\ c2 \in Contexts /\ s2 \in Parts /\ s2.j = << >> /\ Cleared(s2.d) /\ s2.x = s.x
  /\ c2.snap = c.snap /\ c2.base = c.base /\ c2.trie = c.trie /\ c2.flat = c.flat /\ c2.codes = c.codes
  /\ c2.acc = c.acc /\ c2.sto = c.sto
  /\ kept \subseteq Addrs /\ c.pending \cup c.dirty \subseteq kept /\ \A a \in kept : s.o[a] # None
  /\ c2.dirty = kept /\ c2.pending \subseteq kept /\ c.pending \subseteq c2.pending
  /\ \A a \in Addrs : s2.o[a] = IF a \in kept THEN s.o[a]
                                ELSE Loaded(IF c.snap THEN c.flat[a].acct ELSE c.trie[a])

\* The books of a copy.
LEMMA CopiedBooks ==
  ASSUME NEW c, NEW s, NEW c2, NEW s2, NEW kept, Sound(c, s), Lodged(c), Copied(c, s, c2, s2, kept)
  PROVE  /\ Named(s2) /\ Ordered(s2.j) /\ Slotted(s2) /\ Counted(s2) /\ Present(c2, s2) /\ Coded(c2, s2)
         /\ Lodged(c2)
<1>1. /\ c2 \in Contexts /\ s2 \in Parts /\ s2.j = << >> /\ Cleared(s2.d)
      /\ c2.base = c.base /\ c2.trie = c.trie /\ c2.flat = c.flat /\ c2.codes = c.codes /\ c2.acc = c.acc
      /\ kept \subseteq Addrs /\ c.dirty \subseteq kept /\ \A a \in kept : s.o[a] # None
      /\ c2.dirty = kept /\ c2.pending \subseteq kept
      /\ \A a \in Addrs : s2.o[a] = IF a \in kept THEN s.o[a]
                                    ELSE Loaded(IF c.snap THEN c.flat[a].acct ELSE c.trie[a]) BY DEF Copied
<1>2. c \in Contexts /\ s \in Parts /\ Coded(c, s) BY DEF Sound
<1>3. Counted(s2) /\ Named(s2) /\ Ordered(s2.j) /\ Slotted(s2) BY <1>1, CountedEmpty DEF Cleared
<1>4. Len(s2.j) = 0 BY <1>1
<1>5. Present(c2, s2) BY <1>1, <1>4 DEF Present
<1>6. Lodged(c2) BY <1>1 DEF Lodged
<1>7. ASSUME NEW a \in Addrs, s2.o[a] # None PROVE CodeKept(c2, a, s2.o[a])
  <2>1. CASE a \in kept BY <2>1, <1>1, <1>2 DEF Coded, CodeKept
  <2>2. CASE a \notin kept
    <3> DEFINE acct == IF c.snap THEN c.flat[a].acct ELSE c.trie[a]
    <3>1. acct \in Stored \cup {None} /\ s2.o[a] = Loaded(acct) BY <2>2, <1>1, <1>2 DEF Contexts
    <3>2. acct = c.flat[a].acct \/ acct = c.trie[a] OBVIOUS
    <3> HIDE DEF acct
    <3>3. acct # None /\ s2.o[a].code = acct.code BY <3>1, <1>7, LoadedFacts
    <3>4. HasCode(acct) => a \in c.codes
      BY <2>2, <1>1, <1>2, <3>2 DEF Lodged, Coded, Owes
    <3> QED BY <3>3, <3>4, <1>1 DEF CodeKept, HasCode
  <2> QED BY <2>1, <2>2
<1>8. ASSUME NEW a \in Addrs, Owes(c2, a) PROVE a \in c2.dirty /\ IsLive(s2.o, a) /\ s2.o[a].code /\ s2.o[a].dirtyCode
  BY <1>1, <1>8, <1>2 DEF Owes, Coded, IsLive
<1>9. Coded(c2, s2) BY <1>4, <1>7, <1>8 DEF Coded
<1> QED BY <1>3, <1>5, <1>6, <1>9

\* Each address of a copy is as it should be between two transactions.
LEMMA CopiedAt ==
  ASSUME NEW c, NEW s, NEW c2, NEW s2, NEW kept, NEW a \in Addrs, Sound(c, s), EIP158,
         Began(c, Faces(s)), Copied(c, s, c2, s2, kept)
  PROVE  /\ Faces(s2)[a].seen = Faces(s)[a].seen
         /\ IF s2.o[a] = None THEN Bare(c2, a) ELSE Sane(c2, a, s2.o[a], a \in s2.x)
         /\ s2.o[a] = None => a \notin s2.x
         /\ Faces(s2)[a].seen # None => ~Faces(s2)[a].seen.dead
         /\ a \notin c2.pending => Arrived(c2, a, Faces(s2)[a])
         /\ c2.snap /\ a \notin c2.dirty => c2.acc[a] = None /\ c2.sto[a] = NoWrites /\ ~Faces(s2)[a].destruct
<1>1. /\ c2 \in Contexts /\ s2 \in Parts /\ s2.x = s.x
      /\ c2.snap = c.snap /\ c2.trie = c.trie /\ c2.flat = c.flat /\ c2.acc = c.acc /\ c2.sto = c.sto
      /\ c.dirty \subseteq kept /\ c.pending \subseteq kept /\ \A b \in kept : s.o[b] # None
      /\ c2.dirty = kept /\ c.pending \subseteq c2.pending
      /\ s2.o[a] = IF a \in kept THEN s.o[a] ELSE Loaded(IF c.snap THEN c.flat[a].acct ELSE c.trie[a])
  BY DEF Copied
<1>2. /\ c \in Contexts /\ s \in Parts
      /\ IF s.o[a] = None THEN Bare(c, a) ELSE Sane(c, a, s.o[a], a \in s.x)
      /\ s.o[a] = None => a \notin s.x /\ (~c.snap => s.x = {})
      /\ ~c.snap => s.x = {}
  BY DEF Sound, Saned, Marked
<1>3. /\ Faces(s)[a].seen # None => ~Faces(s)[a].seen.dead
      /\ a \notin c.pending => Arrived(c, a, Faces(s)[a])
      /\ c.snap /\ a \notin c.dirty => c.acc[a] = None /\ c.sto[a] = NoWrites /\ ~Faces(s)[a].destruct
  BY DEF Began
<1> DEFINE D == a \in s.x
<1>4. /\ Faces(s)[a] = Face(s.o[a], D) /\ Faces(s2)[a] = Face(s2.o[a], D) /\ (a \in s2.x) = D
      /\ IF s.o[a] = None THEN Bare(c, a) ELSE Sane(c, a, s.o[a], D)
      /\ s.o[a] = None => ~D
      /\ ~c.snap => ~D
  BY <1>1, <1>2, FacesType
<1> HIDE DEF D
<1>5. /\ Faces(s)[a].seen = Plain(s.o[a]) /\ Faces(s2)[a].seen = Plain(s2.o[a])
      /\ Faces(s)[a].destruct = D /\ Faces(s2)[a].destruct = D
  BY <1>4 DEF Face
<1>6. CASE a \in kept
  <2>1. s2.o[a] = s.o[a] /\ s.o[a] # None BY <1>1, <1>6
  <2> DEFINE obj == s.o[a]
             p == Faces(s)[a]
             q == Faces(s2)[a]
  <2>5. /\ Sane(c, a, obj, D) /\ s2.o[a] = obj
        /\ p.seen = q.seen /\ p.destruct = q.destruct
        /\ a \notin c2.pending => Arrived(c, a, p)
        /\ c2.snap = c.snap /\ c2.trie = c.trie /\ c2.flat = c.flat /\ c2.acc = c.acc /\ c2.sto = c.sto
    BY <2>1, <1>1, <1>3, <1>4, <1>5
  <2> HIDE DEF obj, p, q
  <2>6. Sane(c2, a, obj, D) BY <2>5 DEF Sane, SlotOf
  <2>7. a \notin c2.pending => Arrived(c2, a, q) BY <2>5 DEF Arrived, LayerAcct, SlotOf
  <2>2. Sane(c2, a, s2.o[a], D) BY <2>5, <2>6
  <2>3. a \notin c2.pending => Arrived(c2, a, Faces(s2)[a]) BY <2>7 DEF q
  <2>4. Faces(s2)[a].seen # None => ~Faces(s2)[a].seen.dead BY <2>1, <1>3, <1>5
  <2> QED BY <2>1, <2>2, <2>3, <2>4, <1>1, <1>4, <1>5, <1>6
<1>7. CASE a \notin kept
  <2>1. a \notin c.pending /\ a \notin c.dirty BY <1>1, <1>7
  <2>2. /\ Arrived(c, a, Faces(s)[a]) /\ ~D
        /\ c.snap => c.acc[a] = None /\ c.sto[a] = NoWrites
    BY <2>1, <1>3, <1>4, <1>5
  <2>3. /\ Plain(s.o[a]) = AccountView(c.trie[a])
        /\ c.snap => c.flat[a].acct = c.trie[a]
    BY <2>2, <1>5 DEF Arrived, LayerAcct
  <2>4. \A k \in Slots : c.snap => c.flat[a].slots[k] = RootOf(c.trie[a])[k] BY <2>2, <1>5 DEF Arrived, SlotOf, NoWrites
  <2>5. s2.o[a] = Loaded(c.trie[a]) BY <2>3, <1>1, <1>7
  <2>6. Plain(s2.o[a]) = AccountView(c.trie[a])
    BY <1>2, <2>5, LoadedFacts DEF Contexts
  <2>7. IF s2.o[a] = None THEN Bare(c2, a) ELSE Sane(c2, a, s2.o[a], D) BY <2>2, <2>4, <2>5, <1>1, LoadedSane
  <2>8. Arrived(c2, a, Faces(s2)[a]) BY <2>2, <2>3, <2>6, <1>1, <1>5 DEF Arrived, LayerAcct, SlotOf
  <2>9. Faces(s2)[a].seen # None => ~Faces(s2)[a].seen.dead BY <2>3, <2>6, <1>3, <1>5
  <2> QED BY <2>2, <2>3, <2>6, <2>7, <2>8, <2>9, <1>1, <1>4, <1>5
<1> QED BY <1>6, <1>7

\* A copy rests.
LEMMA CopiedRests ==
  ASSUME NEW c, NEW s, NEW c2, NEW s2, NEW kept, Sound(c, s), Lodged(c),
         EIP158 => Agrees(c) /\ Began(c, Faces(s)), Copied(c, s, c2, s2, kept) PROVE Rest(c2, s2)
<1>1. /\ Named(s2) /\ Ordered(s2.j) /\ Slotted(s2) /\ Counted(s2) /\ Present(c2, s2) /\ Coded(c2, s2)
      /\ Lodged(c2)
  BY CopiedBooks
<1>2. /\ c2 \in Contexts /\ s2 \in Parts /\ s2.j = << >> /\ s2.x = s.x
      /\ c2.snap = c.snap /\ c2.base = c.base /\ c2.flat = c.flat
  BY DEF Copied
<1>3. Len(s2.j) = 0 BY <1>2
<1>4. ASSUME EIP158 PROVE Saned(c2, s2) /\ Marked(c2, s2) /\ Agrees(c2) /\ Began(c2, Faces(s2))
  <2>1. Agrees(c) /\ Began(c, Faces(s)) /\ Marked(c, s) BY <1>4 DEF Sound
  <2>2. Agrees(c2) BY <2>1, <1>2 DEF Agrees
  <2>3. ASSUME NEW a \in Addrs
        PROVE  /\ IF s2.o[a] = None THEN Bare(c2, a) ELSE Sane(c2, a, s2.o[a], a \in s2.x)
               /\ s2.o[a] = None => a \notin s2.x
               /\ Faces(s2)[a].seen # None => ~Faces(s2)[a].seen.dead
               /\ a \notin c2.pending => Arrived(c2, a, Faces(s2)[a])
               /\ c2.snap /\ a \notin c2.dirty => c2.acc[a] = None /\ c2.sto[a] = NoWrites /\ ~Faces(s2)[a].destruct
    BY <1>4, <2>1, CopiedAt
  <2>4. Saned(c2, s2) BY <2>3, <1>3 DEF Saned
  <2>5. Marked(c2, s2) BY <2>1, <2>3, <1>2, <1>3 DEF Marked
  <2>6. Began(c2, Faces(s2)) BY <2>3 DEF Began
  <2> QED BY <2>2, <2>4, <2>5, <2>6
<1>5. Sound(c2, s2) BY <1>1, <1>2, <1>4 DEF Sound
<1> QED BY <1>1, <1>2, <1>4, <1>5 DEF Rest

\* Copy is such a copy.
LEMMA CopyCopies ==
  ASSUME Books, Copy PROVE Copied(Ctx, Live, Ctx', Live', Touched \cup pending \cup dirty)
<1> DEFINE kept == Touched \cup pending \cup dirty
           Zs == [a \in Addrs |-> 0]
<1>1. /\ useSnap' = useSnap /\ trie' = trie /\ base' = base /\ flat' = flat /\ codes' = codes
      /\ journal = << >> /\ journal' = << >> /\ destructs' = destructs /\ snapAcc' = snapAcc /\ snapSto' = snapSto
      /\ objs' = [a \in Addrs |-> IF a \in kept THEN objs[a] ELSE OpenObjects(trie, flat)[a]]
      /\ pending' = pending \cup Touched /\ dirty' = dirty \cup Touched /\ dirties' = Zs
  BY DEF Copy, diskVars
<1>2. Sound(Ctx, Live) /\ Lodged(Ctx) BY DEF Books, Stocked
<1>3. /\ Ctx \in Contexts /\ Live \in Parts /\ Present(Ctx, Live) /\ pending \subseteq dirty
  BY <1>2, CtxFields DEF Sound, Lodged
<1>4. /\ useSnap \in BOOLEAN /\ base \in [Addrs -> Stored \cup {None}] /\ trie \in [Addrs -> Stored \cup {None}]
      /\ flat \in [Addrs -> [acct : Stored \cup {None}, slots : [Slots -> Words]]]
      /\ codes \in SUBSET Addrs /\ pending \in SUBSET Addrs /\ dirty \in SUBSET Addrs
      /\ snapAcc \in [Addrs -> Stored \cup {None}] /\ snapSto \in [Addrs -> [Slots -> Words \cup {Unset}]]
      /\ objs \in [Addrs -> Object \cup {None}] /\ destructs \in SUBSET Addrs
  BY <1>3, CtxFields DEF Contexts, Parts, Live
<1>5. /\ kept \subseteq Addrs /\ \A a \in kept : objs[a] # None
      /\ dirty' = kept /\ pending' \subseteq kept /\ pending \subseteq pending' /\ pending \cup dirty \subseteq kept
  BY <1>3, CtxFields, <1>1, <1>4 DEF Present, Live, Touched
<1> HIDE DEF kept
<1>6. Zs \in [Addrs -> Nat] /\ Cleared(Zs) BY ClearedCounts DEF Cleared
<1> HIDE DEF Zs
<1>7. ASSUME NEW a \in Addrs
      PROVE  /\ objs'[a] = IF a \in kept THEN objs[a] ELSE Loaded(IF useSnap THEN flat[a].acct ELSE trie[a])
             /\ objs'[a] \in Object \cup {None}
  <2> DEFINE acct == IF useSnap THEN flat[a].acct ELSE trie[a]
  <2>1. acct \in Stored \cup {None} BY <1>4
  <2>2. OpenObjects(trie, flat)[a] = Loaded(acct) BY DEF OpenObjects
  <2> HIDE DEF acct
  <2>3. Loaded(acct) \in Object \cup {None} BY <2>1, LoadedFacts
  <2>4. objs'[a] = IF a \in kept THEN objs[a] ELSE Loaded(acct) BY <2>2, <1>1
  <2> QED BY <2>3, <2>4, <1>4 DEF acct
<1>8. Ctx' \in Contexts
  BY <1>5, <1>1, <1>4 DEF Contexts, Ctx
<1>9. Live' \in Parts
  <2>1. objs' \in [Addrs -> Object \cup {None}]
    BY <1>1, <1>7
  <2>2. << >> \in Seq(Entries) OBVIOUS
  <2> QED BY <2>1, <2>2, <1>1, <1>4, <1>6 DEF Parts, Live
<1>10. /\ Ctx'.snap = useSnap /\ Ctx'.base = base /\ Ctx'.trie = trie /\ Ctx'.flat = flat /\ Ctx'.codes = codes
       /\ Ctx'.pending = pending' /\ Ctx'.dirty = dirty' /\ Ctx'.acc = snapAcc /\ Ctx'.sto = snapSto
       /\ Live'.o = objs' /\ Live'.j = << >> /\ Live'.d = Zs /\ Live'.x = destructs
       /\ Live.o = objs /\ Live.x = destructs
  BY <1>1 DEF Ctx, Live
<1>11. Copied(Ctx, Live, Ctx', Live', kept) BY <1>5, <1>6, <1>7, <1>8, <1>9, <1>10, CtxFields DEF Copied
<1> QED BY <1>11 DEF kept

\* When the journal is empty, what it holds is what the transaction started from.
LEMMA BegunNow ==
  ASSUME Books, EIP158, journal = << >> PROVE Began(Ctx, Faces(Live))
<1>1. PICK h \in Histories : Chronicle(h) BY DEF Books
<1>2. Live.j = << >> BY DEF Live
<1>3. h[Len(Live.j)] = Faces(Live) /\ Len(Live.j) = 0 BY <1>1, <1>2 DEF Chronicle, Told
<1>4. h[0] = Faces(Live) /\ Began(Ctx, h[0]) BY <1>1, <1>3 DEF Chronicle
<1> QED BY <1>4

\* Copy keeps the invariant.
LEMMA CopyKeeps ==
  ASSUME Books, Copy PROVE Books'
<1>1. Sound(Ctx, Live) /\ Stocked(Ctx) /\ Lodged(Ctx) /\ (EIP158 => Agrees(Ctx)) BY DEF Books, Stocked
<1>2. /\ mode = "run" /\ mode' = "run" /\ target' = 0 /\ revisions' = << >> /\ saved' = << >>
      /\ journal = << >>
  <2>1. /\ mode = "run" /\ mode' = mode /\ target' = target /\ revisions = << >> /\ revisions' = revisions
        /\ saved' = saved /\ journal = << >>
    BY DEF Copy, Running, revVars
  <2>2. target = 0 /\ saved \in Seq(Worlds) /\ Len(saved) = Len(revisions) BY <2>1 DEF Books, Marks
  <2>3. saved = << >>
    BY <2>1, <2>2, EmptySeq
  <2> QED BY <2>1, <2>2, <2>3
<1>3. EIP158 => Began(Ctx, Faces(Live)) BY <1>2, BegunNow
<1>4. Copied(Ctx, Live, Ctx', Live', Touched \cup pending \cup dirty) BY CopyCopies
<1>5. Rest(Ctx', Live')
  <2> DEFINE c == Ctx
             s == Live
             c2 == Ctx'
             s2 == Live'
             kept == Touched \cup pending \cup dirty
  <2>1. /\ Sound(c, s) /\ Lodged(c) /\ (EIP158 => Agrees(c) /\ Began(c, Faces(s)))
        /\ Copied(c, s, c2, s2, kept)
    BY <1>1, <1>3, <1>4
  <2> HIDE DEF c, s, c2, s2, kept
  <2>2. Rest(c2, s2) BY <2>1, CopiedRests
  <2> QED BY <2>2 DEF c2, s2
<1>6. Byzantium => trie' = base' BY <1>1, CtxFields DEF Copy, diskVars, Stocked
<1>7. Ranges' BY DEF Books, Ranges, Copy, evmVars
<1> QED BY <1>2, <1>5, <1>6, <1>7, RestKeeps

-----------------------------------------------------------------------------
(* The invariant.                                                          *)

\* The first block's StateDB.
LEMMA InitBooks == Init => Books
<1> SUFFICES ASSUME Init PROVE Books OBVIOUS
<1> DEFINE Zs == [a \in Addrs |-> 0]
           As == [a \in Addrs |-> None]
           Ss == [a \in Addrs |-> NoWrites]
           F == [a \in Addrs |-> [acct |-> Genesis[a], slots |-> RootOf(Genesis[a])]]
           C == {a \in Addrs : HasCode(Genesis[a])}
<1>1. /\ useSnap \in BOOLEAN /\ base = Genesis /\ trie = Genesis /\ flat = F /\ codes = C
      /\ objs = OpenObjects(trie, flat) /\ journal = << >> /\ dirties = Zs
      /\ pending = {} /\ dirty = {} /\ destructs = {} /\ snapAcc = As /\ snapSto = Ss
      /\ revisions = << >> /\ mode = "run" /\ target = 0 /\ building = {} /\ txs = 0 /\ blocks = 0 /\ saved = << >>
  BY DEF Init, RootOf, HasCode
<1>2. Genesis \in [Addrs -> Stored \cup {None}] BY GenesisAssumption
<1>3. ASSUME NEW a \in Addrs PROVE RootOf(Genesis[a]) \in [Slots -> Words]
  BY <1>2, WordsAssumption DEF RootOf, Zeros, Stored
<1>4. /\ F \in [Addrs -> [acct : Stored \cup {None}, slots : [Slots -> Words]]]
      /\ \A a \in Addrs : F[a].acct = Genesis[a] /\ F[a].slots = RootOf(Genesis[a])
  BY <1>2, <1>3
<1>5. /\ As \in [Addrs -> Stored \cup {None}] /\ Ss \in [Addrs -> [Slots -> Words \cup {Unset}]] /\ Zs \in [Addrs -> Nat]
      /\ \A a \in Addrs : As[a] = None /\ Ss[a] = NoWrites /\ Zs[a] = 0
  BY DEF NoWrites
<1>6. C \subseteq Addrs /\ \A a \in Addrs : HasCode(Genesis[a]) => a \in C OBVIOUS
<1> HIDE DEF Zs, As, Ss, F, C
<1>7. Ctx \in Contexts BY <1>1, <1>2, <1>4, <1>5, <1>6 DEF Contexts, Ctx
<1>8. ASSUME NEW a \in Addrs
      PROVE  /\ objs[a] = Loaded(IF useSnap THEN flat[a].acct ELSE trie[a])
             /\ objs[a] \in Object \cup {None}
  <2> DEFINE acct == IF useSnap THEN flat[a].acct ELSE trie[a]
  <2>1. acct \in Stored \cup {None} BY <1>1, <1>2, <1>4
  <2>2. objs[a] = Loaded(acct) BY <1>1 DEF OpenObjects
  <2> HIDE DEF acct
  <2>3. Loaded(acct) \in Object \cup {None} BY <2>1, LoadedFacts
  <2> QED BY <2>2, <2>3 DEF acct
<1>9. Live \in Parts
  <2>1. objs \in [Addrs -> Object \cup {None}]
    BY <1>1, <1>8 DEF OpenObjects
  <2>2. << >> \in Seq(Entries) OBVIOUS
  <2> QED BY <2>1, <2>2, <1>1, <1>5 DEF Parts, Live
<1>10. Opened(Ctx, Live)
  BY <1>1, <1>5, <1>7, <1>8, <1>9, CtxFields DEF Live, Opened
<1>11. Lodged(Ctx) BY <1>1, <1>4, <1>6, CtxFields DEF Lodged
<1>12. Agrees(Ctx) BY <1>1, <1>4, CtxFields DEF Agrees
<1>13. Rest(Ctx, Live) BY <1>10, <1>11, <1>12, OpenedRests
<1>14. Ranges BY <1>1, BoundsAssumption DEF Ranges
<1>15. AtRest BY <1>1, <1>13, <1>14 DEF AtRest
<1> QED BY <1>15, RestBooks

\* An operation of the EVM keeps the ranges of what it does not touch.
LEMMA LeaveRanges ==
  ASSUME Books, NEW s, Leave(s), building' \in SUBSET Addrs
  PROVE  Running /\ UNCHANGED <<diskVars, flushVars, revVars>> /\ Ranges' BY DEF Leave, Books, Ranges

\* Each operation of the EVM keeps the invariant.
LEMMA ActsKeep ==
  ASSUME Books, NEW a \in Addrs, NEW p,
         \E g, t : Acted(g, t, a, p), NEW s, Leave(s), building' \in SUBSET Addrs PROVE Books'
<1>1. PICK g, t : Acted(g, t, a, p) OBVIOUS
<1>2. Running /\ UNCHANGED <<diskVars, flushVars, revVars>> /\ Ranges' BY LeaveRanges
<1> QED BY <1>1, <1>2, OpKeeps

\* An operation that starts no constructor.
LEMMA DoesKeep ==
  ASSUME Books, NEW a \in Addrs, NEW p, \E g, t : Acted(g, t, a, p), NEW s, Do(s) PROVE Books'
  BY ActsKeep DEF Do, Books, Ranges

\* Each step of the StateDB keeps the invariant.
LEMMA NextKeeps ==
  ASSUME Books, Next PROVE Books'
<1>1. ASSUME NEW a \in Addrs, NEW v \in Amounts, AddBalance(a, v) PROVE Books'
  BY <1>1, AddBalanceActs, DoesKeep DEF AddBalance
<1>2. ASSUME NEW a \in Addrs, NEW v \in Amounts, SubBalance(a, v) PROVE Books'
  BY <1>2, SubBalanceActs, DoesKeep DEF SubBalance
<1>3. ASSUME NEW a \in Addrs, NEW v \in Amounts, Create(a, v) PROVE Books'
  <2>1. \E g, t : Acted(g, t, a, Born(1, BalanceOf(a) + v)) BY <1>3, CreateActs
  <2>2. PICK s : Leave(s) /\ building' = building \cup {a} BY <1>3 DEF Create
  <2>3. building' \in SUBSET Addrs BY <2>2 DEF Books, Ranges
  <2> QED BY <2>1, <2>2, <2>3, ActsKeep
<1>4. ASSUME NEW a \in Addrs, SetNonce(a) PROVE Books'
  <2>1. PICK n \in 0 .. MaxNonce : \E g, t : Acted(g, t, a, Numbered(Found0(a), n)) BY <1>4, SetNonceActs
  <2>2. Do(JSetNonce(Live, a, objs[a].nonce + 1)) BY <1>4 DEF SetNonce
  <2> QED BY <2>1, <2>2, DoesKeep
<1>5. ASSUME NEW a \in Addrs, SetCode(a) PROVE Books'
  BY <1>5, SetCodeActs, DoesKeep DEF SetCode
<1>6. ASSUME NEW a \in Addrs, Suicide(a) PROVE Books'
  BY <1>6, SuicideActs, DoesKeep DEF Suicide
<1>7. ASSUME NEW a \in Addrs, NEW k \in Slots, LoadSlot(a, k) PROVE Books'
  BY <1>7, LoadSlotActs, DoesKeep DEF LoadSlot
<1>8. ASSUME NEW a \in Addrs, NEW k \in Slots, NEW w \in Words, SetState(a, k, w) PROVE Books'
  BY <1>8, SetStateActs, DoesKeep DEF SetState
<1>9. CASE Snapshot BY <1>9, SnapshotKeeps
<1>10. ASSUME NEW i \in DOMAIN revisions, StartRevert(i) PROVE Books' BY <1>10, StartRevertKeeps
<1>11. CASE UndoEntry BY <1>11, UndoEntryKeeps
<1>12. CASE FinishRevert BY <1>12, FinishRevertKeeps
<1>13. CASE EndTx BY <1>13, EndTxKeeps
<1>14. CASE Commit BY <1>14, CommitKeeps
<1>15. CASE Copy BY <1>15, CopyKeeps
<1> QED BY <1>1, <1>2, <1>3, <1>4, <1>5, <1>6, <1>7, <1>8, <1>9, <1>10, <1>11, <1>12, <1>13, <1>14, <1>15 DEF Next

\* The invariant holds in every reachable state.
THEOREM BooksHold == Spec => []Books
<1>1. Books /\ UNCHANGED vars => Books'
  <2> SUFFICES ASSUME Books, UNCHANGED vars PROVE Books' OBVIOUS
  <2> QED
    BY DEF vars, diskVars, liveVars, flushVars, revVars, evmVars, Books, Ctx, Live, Marks, Ranges, Bound, Chronicle
<1>2. Books /\ [Next]_vars => Books' BY <1>1, NextKeeps
<1> QED BY <1>2, InitBooks, PTL DEF Spec

-----------------------------------------------------------------------------
(* What the runs check, from the invariant.                                *)

\* What a step of journal.revert, or no step, does not need: any other step runs.
LEMMA RevertSteps ==
  ASSUME Next, mode = "revert" PROVE UndoEntry \/ FinishRevert
BY DEF Next, AddBalance, SubBalance, Create, SetNonce, SetCode, Suicide, LoadSlot, SetState, Do, Leave, Snapshot,
 StartRevert, EndTx, Commit, Copy, Running

\* NoNilObject: what is pending or dirty has an object, and so has what a revert undoes.
\* DirtyCountsEntries: the dirty counts are those of the entries. CodeStored: the code
\* of every committed contract is in the database.
LEMMA BooksMeanSound == Books => BooksSound
<1> SUFFICES ASSUME Books PROVE BooksSound OBVIOUS
<1>1. /\ Sound(Ctx, Live) /\ Stocked(Ctx) /\ Marks
      /\ Live.o = objs /\ Live.j = journal /\ Live.d = dirties
  BY DEF Books, Live
<1>2. /\ Present(Ctx, Live) /\ Named(Live) /\ Counted(Live) /\ Lodged(Ctx)
      /\ Live \in Parts /\ journal \in Seq(Entries)
  BY <1>1 DEF Sound, Stocked, Parts
<1>3. NoNilObject
  <2>1. \A a \in pending \cup dirty : objs[a] # None BY <1>1, <1>2, CtxFields DEF Present
  <2>2. ASSUME mode = "revert", Len(journal) > target PROVE IsLive(objs, journal[Len(journal)].addr)
    BY <1>1, <1>2, <2>2 DEF Marks, Named
  <2> QED BY <2>1, <2>2 DEF NoNilObject
<1>4. DirtyCountsEntries
  BY <1>1, <1>2 DEF EntryCount, Count, DirtyCountsEntries, Counted
<1>5. CodeStored BY <1>2, CtxFields DEF CodeStored, Lodged, HasCode
<1> QED BY <1>3, <1>4, <1>5 DEF BooksSound

\* The books of the journal are kept, whatever operations, reverts, ends of
\* transactions and of blocks, and copies a StateDB goes through.
THEOREM BooksAreSound == Spec => []BooksSound BY BooksHold, BooksMeanSound, PTL

\* The touch of the RIPEMD precompile outlives its own revert.
THEOREM TouchOutlivesRevert == Spec => TouchSurvivesRevert
<1> DEFINE T == \A i \in DOMAIN journal :
                  mode = "revert" /\ journal[i].addr = Ripemd /\ journal[i].op = "touch" => dirties'[Ripemd] > 0
<1>1. Books /\ [Next]_vars => [T]_vars
  <2> SUFFICES ASSUME Books, Next, NEW i \in DOMAIN journal, mode = "revert",
                      journal[i].addr = Ripemd, journal[i].op = "touch" PROVE dirties'[Ripemd] > 0 OBVIOUS
  <2>1. /\ Live \in Parts /\ Counted(Live) /\ Live.j = journal /\ Live.d = dirties BY DEF Books, Sound, Live
  <2>2. journal \in Seq(Entries) /\ dirties \in [Addrs -> Nat] /\ i \in 1 .. Len(journal) BY <2>1 DEF Parts
  <2>3. journal[i] \in Entries /\ Ripemd \in Addrs BY <2>2, EntryKind
  <2>4. dirties[Ripemd] > Count(journal, Ripemd) /\ Count(journal, Ripemd) \in Nat /\ dirties[Ripemd] \in Nat
    BY <2>1, <2>2, <2>3, CountZero DEF Counted
  <2>5. CASE FinishRevert BY <2>4, <2>5 DEF FinishRevert, liveVars
  <2>6. CASE UndoEntry
    <3> DEFINE e == journal[Len(journal)]
    <3>1. /\ UndoStep(Live, Live', e) /\ Len(journal) \in Nat /\ Len(journal) > 0 BY <2>2, <2>6, UndoEntryIs
    <3>2. Live'.d = dirties' BY DEF Live
    <3> HIDE DEF e
    <3>3. dirties'[Ripemd] = IF Ripemd \in Dirtied(e) THEN dirties[Ripemd] - 1 ELSE dirties[Ripemd]
      BY <2>1, <2>3, <3>1, <3>2 DEF UndoStep
    <3>4. Ripemd \in Dirtied(e) => Count(journal, Ripemd) # 0 BY <2>2, <3>1, CountZero DEF e
    <3> QED BY <2>4, <3>3, <3>4
  <2> QED BY <2>5, <2>6, RevertSteps
<1> QED BY <1>1, BooksHold, PTL DEF Spec, TouchSurvivesRevert

\* TypeOK: every part of the StateDB has its type.
LEMMA BooksType == Books => TypeOK
<1> SUFFICES ASSUME Books PROVE TypeOK OBVIOUS
<1>1. /\ Ctx \in Contexts /\ Live \in Parts /\ Marks /\ Ranges BY DEF Books, Sound
<1>2. /\ useSnap \in BOOLEAN /\ trie \in [Addrs -> Stored \cup {None}] /\ base \in [Addrs -> Stored \cup {None}]
      /\ flat \in [Addrs -> [acct : Stored \cup {None}, slots : [Slots -> Words]]]
      /\ codes \in SUBSET Addrs /\ pending \in SUBSET Addrs /\ dirty \in SUBSET Addrs
      /\ snapAcc \in [Addrs -> Stored \cup {None}] /\ snapSto \in [Addrs -> [Slots -> Words \cup {Unset}]]
  BY <1>1, CtxFields DEF Contexts
<1>3. /\ objs \in [Addrs -> Object \cup {None}] /\ journal \in Seq(Entries) /\ dirties \in [Addrs -> Nat]
      /\ destructs \in SUBSET Addrs
  BY <1>1 DEF Parts, Live
<1>4. \A i \in DOMAIN journal : journal[i].addr \in Addrs /\ Remembers(journal[i])
  <2> SUFFICES ASSUME NEW i \in DOMAIN journal PROVE journal[i].addr \in Addrs /\ Remembers(journal[i]) OBVIOUS
  <2> DEFINE e == journal[i]
  <2>1. e \in Entries BY <1>3
  <2> HIDE DEF e
  <2>2. /\ e.addr \in Addrs /\ e.op \in Writes \cup {"create", "reset"}
        /\ e.op \in {"create", "touch"} => e.prev = None
        /\ e.op = "reset" => e.prev \in Replaced
        /\ e.op = "suicide" => e.prev[1] \in BOOLEAN /\ e.prev[2] \in 0 .. MaxBal
        /\ e.op = "balance" => e.prev \in 0 .. MaxBal
        /\ e.op = "nonce" => e.prev \in 0 .. MaxNonce
        /\ e.op = "code" => e.prev \in BOOLEAN
        /\ e.op = "storage" => e.prev[1] \in Slots /\ e.prev[2] \in Words
    BY <2>1, EntryKind
  <2>3. e.op = "reset" => e.prev.obj \in Object /\ e.prev.destruct \in BOOLEAN BY <2>2 DEF Replaced
  <2>4. Remembers(e) BY <2>2, <2>3 DEF Remembers, Writes
  <2> QED BY <2>2, <2>4 DEF e
<1>5. /\ \A i \in DOMAIN revisions : revisions[i] \in 0 .. Len(journal)
      /\ mode \in {"run", "revert"} /\ target \in 0 .. Len(journal)
  <2>1. /\ mode \in {"run", "revert"} /\ target \in Nat /\ Bound <= Len(journal) /\ Len(journal) \in Nat
        /\ mode = "run" => target = 0
        /\ revisions \in Seq(Nat) /\ \A i \in 1 .. Len(revisions) : revisions[i] <= Bound
    BY <1>1, <1>3 DEF Marks
  <2>2. Bound \in Nat BY <2>1 DEF Bound
  <2>3. target \in 0 .. Len(journal) BY <2>1 DEF Bound
  <2>4. ASSUME NEW i \in DOMAIN revisions PROVE revisions[i] \in 0 .. Len(journal)
    BY <2>1, <2>2
  <2> QED BY <2>1, <2>3, <2>4
<1>6. building \in SUBSET Addrs /\ txs \in 0 .. MaxTxs /\ blocks \in 0 .. MaxBlocks BY <1>1 DEF Ranges
<1> QED BY <1>2, <1>3, <1>4, <1>5, <1>6 DEF TypeOK

\* What the getters return is what the objects hold.
LEMMA NowIs == Books /\ EIP158 => Now = SeenIn(Faces(Live)) /\ Now \in Worlds
<1> SUFFICES ASSUME Books, EIP158 PROVE Now = SeenIn(Faces(Live)) /\ Now \in Worlds OBVIOUS
<1> DEFINE s == Live
<1>1. Sound(Ctx, s) /\ s.o = objs /\ s.x = destructs BY DEF Books, Live
<1> HIDE DEF s
<1>2. View(s.o, s.x) \in Worlds /\ View(s.o, s.x) = SeenIn(Faces(s)) BY <1>1, ViewSeen
<1> QED BY <1>1, <1>2 DEF Now, s

\* NoLostWrite: an address that Finalise and IntermediateRoot will not visit is stored as
\* the EVM sees it.
LEMMA BooksLoseNothing == Books /\ EIP158 => NoLostWrite
<1> SUFFICES ASSUME Books, EIP158, mode = "run", NEW a \in Addrs, dirties[a] = 0, a \notin pending
             PROVE  Now[a] = AccountView(trie[a]) BY DEF NoLostWrite
<1>1. PICK h \in Histories : Chronicle(h) BY DEF Books
<1>2. a \notin Touched BY DEF Touched
<1>3. Faces(Live)[a] = h[0][a] BY <1>1, <1>2, Undirtied
<1>4. Arrived(Ctx, a, h[0][a]) BY <1>1, CtxFields DEF Chronicle, Began
<1>5. Faces(Live)[a].seen = AccountView(trie[a]) BY <1>3, <1>4, CtxFields DEF Arrived
<1>6. Now[a] = Faces(Live)[a].seen BY NowIs DEF SeenIn
<1> QED BY <1>5, <1>6

\* From EIP-158 on, what a transaction writes gets to the trie, and what gets to the trie
\* gets to the snapshot.
THEOREM WritesGetThere ==
  ASSUME EIP158 PROVE Spec => []WritesArrive
<1>1. Books => WritesArrive
  <2> SUFFICES ASSUME Books PROVE WritesArrive OBVIOUS
  <2>1. TypeOK /\ NoLostWrite BY BooksType, BooksLoseNothing
  <2>2. SnapAgrees
    BY CtxFields DEF Books, Agrees, SnapAgrees, RootOf
  <2> QED BY <2>1, <2>2 DEF WritesArrive
<1> QED BY <1>1, BooksHold, PTL

-----------------------------------------------------------------------------
(* From EIP-158 on, StateDB implements WorldState.                         *)

\* The accounts that StateDB promises: those that a running revert will reach.
World == IF mode = "revert" THEN goal ELSE Now

\* The account at an address, in both.
LEMMA AccountIs ==
  ASSUME Books, EIP158, mode = "run", NEW a \in Addrs
  PROVE  /\ Abstract!Account(a) = Found0(a) /\ (Abstract!Exists(a) <=> IsLive(objs, a))
         /\ Now[a] = Plain(objs[a]) /\ (IsLive(objs, a) => Now[a] = Found0(a))
         /\ Found0(a).bal = BalanceOf(a)
<1>1. Now = SeenIn(Faces(Live)) /\ Live \in Parts /\ Live.o = objs BY NowIs DEF Books, Sound, Live
<1>2. Now[a] = Plain(objs[a])
  <2>1. Faces(Live)[a] = Face(objs[a], a \in Live.x) BY <1>1, FacesType
  <2> QED BY <1>1, <2>1 DEF SeenIn, Face
<1>3. objs[a] \in Object \cup {None} BY LiveFound
<1>4. Plain(objs[a]) # None <=> IsLive(objs, a) BY <1>3, PlainType DEF IsLive
<1>5. Abstract!Exists(a) <=> Plain(objs[a]) # None BY <1>2 DEF Abstract!Exists
<1>6. Abstract!Fresh = FreshView BY DEF Abstract!Fresh, FreshView, Abstract!NoStore, Zeros
<1>7. Abstract!Account(a) = Found0(a) BY <1>2, <1>4, <1>5, <1>6 DEF Abstract!Account, Found0
<1>8. Found0(a).bal = BalanceOf(a)
  <2>1. CASE IsLive(objs, a)
    BY <2>1, LiveFound DEF BalanceOf
  <2>2. CASE ~IsLive(objs, a)
    BY <2>2 DEF FreshView, BalanceOf, Found0
  <2> QED BY <2>1, <2>2
<1> QED BY <1>2, <1>4, <1>5, <1>7, <1>8 DEF Found0

\* What an operation on an address does to the accounts.
LEMMA ActedPuts ==
  ASSUME Books, Books', EIP158, Running, NEW a \in Addrs, NEW g, NEW t, NEW p, Acted(g, t, a, p),
         UNCHANGED <<diskVars, flushVars, revVars>>
  PROVE  Now' = [Now EXCEPT ![a] = p] /\ mode = "run" /\ mode' = "run" /\ saved' = saved
<1>1. /\ Reaches(g, Live, t, a) /\ SetLive(t) /\ Plain(t.o[a]) = p BY DEF Acted
<1>2. t \in Parts /\ \A b \in Addrs : b # a => Faces(t)[b] = Faces(Live)[b]
  <2>1. PICK h : Advance(Ctx, g, Live, h, t, a) BY <1>1 DEF Reaches
  <2>2. t \in Parts BY <1>1, ReachesSound
  <2> DEFINE P == Faces(t)
             Q == Faces(Live)
  <2>3. \A b \in Addrs : b # a => P[b] = Q[b] BY <2>1 DEF Advance
  <2> QED BY <2>2, <2>3
<1>3. Live' = t BY <1>1, <1>2, LiveNext
<1>4. Now = SeenIn(Faces(Live)) /\ Now \in Worlds BY NowIs
<1>5. Now' = SeenIn(Faces(Live'))
  <2>1. (Books /\ EIP158)' OBVIOUS
  <2>2. (Now = SeenIn(Faces(Live)) /\ Now \in Worlds)' BY <2>1, NowIs, PTL
  <2> QED BY <2>2
<1>6. Now' = SeenIn(Faces(t)) BY <1>3, <1>5
<1> DEFINE N == Now
           M == SeenIn(Faces(t))
           f == Faces(t)
           l == Faces(Live)
<1>7. f[a] = Face(t.o[a], a \in t.x) BY <1>2, FacesType
<1>8. f[a].seen = p BY <1>1, <1>7 DEF Face
<1>9. N = [b \in Addrs |-> l[b].seen] /\ M = [b \in Addrs |-> f[b].seen] BY <1>4 DEF SeenIn
<1>10. \A b \in Addrs : b # a => f[b] = l[b] BY <1>2
<1> HIDE DEF N, M, f, l
<1>11. M = [N EXCEPT ![a] = p] BY <1>8, <1>9, <1>10
<1>12. mode = "run" /\ mode' = "run" /\ saved' = saved BY DEF Running, revVars
<1> QED BY <1>6, <1>11, <1>12 DEF N, M

\* A step of WorldState that writes an account.
Puts(a, p) == Now' = [Now EXCEPT ![a] = p] /\ mode = "run" /\ mode' = "run" /\ saved' = saved

\* It is a step of WorldState.
LEMMA PutsIs ==
  ASSUME NEW a, NEW p, Puts(a, p)
  PROVE  Abstract!Put(a, p) BY DEF Puts, Abstract!Put

\* An operation of the EVM is such a step.
LEMMA ActPuts ==
  ASSUME Books, Books', EIP158, NEW a \in Addrs, NEW p, \E g, t : Acted(g, t, a, p),
         NEW s, Leave(s), building' \in SUBSET Addrs PROVE Puts(a, p) /\ Abstract!Put(a, p)
<1>1. PICK g, t : Acted(g, t, a, p) OBVIOUS
<1>2. Running /\ UNCHANGED <<diskVars, flushVars, revVars>> BY LeaveRanges
<1>3. Puts(a, p) BY <1>1, <1>2, ActedPuts DEF Puts
<1> QED BY <1>3, PutsIs

\* The steps of WorldState.
LEMMA AbstractSteps ==
  ASSUME NEW a \in Addrs
  PROVE  /\ \A v \in Amounts : Abstract!AddBalance(a, v) => Abstract!Next
         /\ \A v \in Amounts : Abstract!SubBalance(a, v) => Abstract!Next
         /\ \A n \in 0 .. MaxNonce : Abstract!SetNonce(a, n) => Abstract!Next
         /\ \A n \in 0 .. MaxNonce, v \in Amounts : Abstract!Create(a, n, v) => Abstract!Next
         /\ Abstract!SetCode(a) => Abstract!Next
         /\ Abstract!Suicide(a) => Abstract!Next
         /\ \A k \in Slots, w \in Words : Abstract!SetState(a, k, w) => Abstract!Next
<1> DEFINE AA == Amounts \cup (0 .. MaxNonce)
<1>1. Amounts \subseteq AA /\ 0 .. MaxNonce \subseteq AA OBVIOUS
<1>2. \A v \in AA : Abstract!AddBalance(a, v) => Abstract!Next BY DEF Abstract!Next
<1>3. \A v \in AA : Abstract!SubBalance(a, v) => Abstract!Next BY DEF Abstract!Next
<1>4. \A n \in AA : Abstract!SetNonce(a, n) => Abstract!Next BY DEF Abstract!Next
<1>5. \A n \in AA, v \in AA : Abstract!Create(a, n, v) => Abstract!Next BY DEF Abstract!Next
<1>6. (Abstract!SetCode(a) => Abstract!Next) /\ (Abstract!Suicide(a) => Abstract!Next) BY DEF Abstract!Next
<1>7. \A k \in Slots, w \in Words : Abstract!SetState(a, k, w) => Abstract!Next BY DEF Abstract!Next
<1> HIDE DEF AA
<1> QED BY <1>1, <1>2, <1>3, <1>4, <1>5, <1>6, <1>7

\* Transfers.
LEMMA BalanceImplements ==
  ASSUME Books, Books', EIP158, NEW a \in Addrs, NEW v \in Amounts, AddBalance(a, v) \/ SubBalance(a, v)
  PROVE  Abstract!Next
<1> DEFINE p == Abstract!Account(a)
<1>1. CASE AddBalance(a, v)
  <2>1. \E g, t : Acted(g, t, a, Credited(Found0(a), v)) BY <1>1, AddBalanceActs
  <2>2. PICK s : Leave(s) /\ building' \in SUBSET Addrs BY <1>1 DEF AddBalance, Do, Books, Ranges
  <2>3. mode = "run" BY <2>2 DEF Leave, Running
  <2>4. Abstract!Put(a, Credited(Found0(a), v)) BY <2>1, <2>2, ActPuts
  <2>5. p = Found0(a) BY <2>3, AccountIs
  <2>6. Abstract!Put(a, Credited(p, v)) BY <2>4, <2>5
  <2> HIDE DEF p
  <2>7. Abstract!Put(a, [p EXCEPT !.bal = @ + v]) BY <2>6 DEF Credited
  <2>8. Abstract!AddBalance(a, v) BY <2>7 DEF Abstract!AddBalance, p
  <2> QED BY <2>8, AbstractSteps
<1>2. CASE SubBalance(a, v)
  <2>1. Found0(a).bal >= v /\ \E g, t : Acted(g, t, a, Debited(Found0(a), v)) BY <1>2, SubBalanceActs
  <2>2. PICK s : Leave(s) /\ building' \in SUBSET Addrs BY <1>2 DEF SubBalance, Do, Books, Ranges
  <2>3. mode = "run" BY <2>2 DEF Leave, Running
  <2>4. Abstract!Put(a, Debited(Found0(a), v)) BY <2>1, <2>2, ActPuts
  <2>5. p = Found0(a) BY <2>3, AccountIs
  <2>6. Abstract!Put(a, Debited(p, v)) /\ p.bal >= v BY <2>1, <2>4, <2>5
  <2> HIDE DEF p
  <2>7. Abstract!Put(a, [p EXCEPT !.bal = @ - v]) BY <2>6 DEF Debited
  <2>8. Abstract!SubBalance(a, v) BY <2>6, <2>7 DEF Abstract!SubBalance, p
  <2> QED BY <2>8, AbstractSteps
<1> QED BY <1>1, <1>2

\* Nonces and code.
LEMMA AccountImplements ==
  ASSUME Books, Books', EIP158, NEW a \in Addrs, SetNonce(a) \/ SetCode(a) \/ Suicide(a) PROVE Abstract!Next
<1> DEFINE p == Abstract!Account(a)
<1>1. PICK s : Leave(s) /\ building' \in SUBSET Addrs BY DEF SetNonce, SetCode, Suicide, Do, Books, Ranges
<1>2. mode = "run" BY <1>1 DEF Leave, Running
<1>3. p = Found0(a) /\ (Abstract!Exists(a) <=> IsLive(objs, a)) BY <1>2, AccountIs
<1>4. CASE SetNonce(a)
  <2>1. PICK n \in 0 .. MaxNonce : \E g, t : Acted(g, t, a, Numbered(Found0(a), n)) BY <1>4, SetNonceActs
  <2>2. Abstract!Put(a, Numbered(Found0(a), n)) BY <2>1, <1>1, ActPuts
  <2>3. Abstract!Put(a, Numbered(p, n)) BY <2>2, <1>3
  <2> HIDE DEF p
  <2>4. Abstract!Put(a, [p EXCEPT !.nonce = n]) BY <2>3 DEF Numbered
  <2>5. Abstract!SetNonce(a, n) BY <2>4 DEF Abstract!SetNonce, p
  <2> QED BY <2>5, AbstractSteps
<1>5. CASE SetCode(a)
  <2>1. \E g, t : Acted(g, t, a, Programmed(Found0(a))) BY <1>5, SetCodeActs
  <2>2. Abstract!Put(a, Programmed(Found0(a))) BY <2>1, <1>1, ActPuts
  <2>3. Abstract!Put(a, Programmed(p)) BY <2>2, <1>3
  <2> HIDE DEF p
  <2>4. Abstract!Put(a, [p EXCEPT !.code = TRUE]) BY <2>3 DEF Programmed
  <2>5. Abstract!SetCode(a) BY <2>4 DEF Abstract!SetCode, p
  <2> QED BY <2>5, AbstractSteps
<1>6. CASE Suicide(a)
  <2>1. IsLive(objs, a) /\ \E g, t : Acted(g, t, a, Died(Found0(a), TRUE, 0)) BY <1>6, SuicideActs
  <2>2. Abstract!Put(a, Died(Found0(a), TRUE, 0)) BY <2>1, <1>1, ActPuts
  <2>3. Abstract!Put(a, Died(p, TRUE, 0)) /\ Abstract!Exists(a) BY <2>1, <2>2, <1>3
  <2> HIDE DEF p
  <2>4. Abstract!Put(a, [p EXCEPT !.bal = 0, !.dead = TRUE]) BY <2>3 DEF Died
  <2>5. Abstract!Suicide(a) BY <2>3, <2>4 DEF Abstract!Suicide, p
  <2> QED BY <2>5, AbstractSteps
<1> QED BY <1>4, <1>5, <1>6

\* Storage.
LEMMA StorageImplements ==
  ASSUME Books, Books', EIP158, NEW a \in Addrs, NEW k \in Slots, NEW w \in Words, SetState(a, k, w) PROVE Abstract!Next
<1> DEFINE p == Abstract!Account(a)
<1>1. PICK s : Leave(s) /\ building' \in SUBSET Addrs BY DEF SetState, Do, Books, Ranges
<1>2. mode = "run" BY <1>1 DEF Leave, Running
<1>3. p = Found0(a) BY <1>2, AccountIs
<1>4. \E g, t : Acted(g, t, a, Stored1(Found0(a), k, w)) BY SetStateActs
<1>5. Abstract!Put(a, Stored1(Found0(a), k, w)) BY <1>1, <1>4, ActPuts
<1>6. Abstract!Put(a, Stored1(p, k, w)) BY <1>3, <1>5
<1> HIDE DEF p
<1>7. Abstract!Put(a, [p EXCEPT !.store[k] = w]) BY <1>6 DEF Stored1
<1>8. Abstract!SetState(a, k, w) BY <1>7 DEF Abstract!SetState, p
<1> QED BY <1>8, AbstractSteps

\* SLOAD changes nothing that the EVM sees.
LEMMA LoadImplements ==
  ASSUME Books, Books', EIP158, NEW a \in Addrs, NEW k \in Slots, LoadSlot(a, k) PROVE UNCHANGED Abstract!vars
<1>1. PICK s : Leave(s) /\ building' \in SUBSET Addrs BY DEF LoadSlot, Do, Books, Ranges
<1>2. mode = "run" BY <1>1 DEF Leave, Running
<1>3. IsLive(objs, a) /\ \E g, t : Acted(g, t, a, Found0(a)) BY LoadSlotActs
<1>4. Puts(a, Found0(a)) BY <1>1, <1>3, ActPuts
<1>5. Now[a] = Found0(a) /\ Now \in [Addrs -> Seen \cup {None}] BY <1>2, <1>3, AccountIs, NowIs DEF Worlds
<1> DEFINE N == Now
           q == Found0(a)
<1>6. Now' = [N EXCEPT ![a] = q] /\ N[a] = q /\ N \in [Addrs -> Seen \cup {None}] BY <1>4, <1>5 DEF Puts
<1> HIDE DEF N, q
<1>7. Now' = N BY <1>6
<1>8. Now' = Now /\ saved' = saved /\ mode = "run" /\ mode' = "run" BY <1>4, <1>7 DEF Puts, N
<1> QED BY <1>8 DEF Abstract!vars

\* A contract's creation.
LEMMA CreateImplements ==
  ASSUME Books, Books', EIP158, NEW a \in Addrs, NEW v \in Amounts, Create(a, v) PROVE Abstract!Next
<1>1. PICK s : Leave(s) /\ building' = building \cup {a} BY DEF Create
<1>2. mode = "run" /\ building' \in SUBSET Addrs BY <1>1 DEF Leave, Running, Books, Ranges
<1>3. \E g, t : Acted(g, t, a, Born(1, BalanceOf(a) + v)) BY CreateActs
<1>4. Abstract!Put(a, Born(1, BalanceOf(a) + v)) BY <1>1, <1>2, <1>3, ActPuts
<1>5. Abstract!Account(a).bal = BalanceOf(a)
  BY <1>2, AccountIs
<1>6. Abstract!Fresh = FreshView BY DEF Abstract!Fresh, FreshView, Abstract!NoStore, Zeros
<1> DEFINE b == Abstract!Account(a).bal + v
           fr == Abstract!Fresh
<1>7. Abstract!Put(a, [fr EXCEPT !.nonce = 1, !.bal = b])
  <2>1. Abstract!Put(a, Born(1, b)) BY <1>4, <1>5
  <2>2. Born(1, b) = [fr EXCEPT !.nonce = 1, !.bal = b] BY <1>6 DEF Born
  <2> HIDE DEF b, fr
  <2> QED BY <2>1, <2>2
<1>8. Abstract!Create(a, 1, v) BY <1>7 DEF Abstract!Create
<1>9. 1 \in 0 .. MaxNonce BY BoundsAssumption
<1> QED BY <1>8, <1>9, AbstractSteps

\* A snapshot.
LEMMA SnapshotImplements ==
  ASSUME Books, EIP158, Snapshot PROVE Abstract!Next
<1>1. /\ mode = "run" /\ mode' = "run" /\ saved' = Append(saved, Now) BY DEF Snapshot, Running, Now
<1>2. Now' = Now BY DEF Snapshot, Now, liveVars, diskVars, View, IsLive, GetState, Committed
<1>3. Abstract!Snapshot BY <1>1, <1>2 DEF Abstract!Snapshot
<1> QED BY <1>3 DEF Abstract!Next

\* A revert, when it starts.
LEMMA RevertImplements ==
  ASSUME Books, EIP158, NEW i \in DOMAIN revisions, StartRevert(i) PROVE Abstract!Next
<1>1. /\ mode = "run" /\ mode' = "revert" /\ goal' = saved[i] /\ saved' = SubSeq(saved, 1, i - 1)
  BY DEF StartRevert, Running
<1>2. i \in DOMAIN saved
  BY DEF Books, Marks
<1>3. Abstract!Revert(i) BY <1>1, <1>2 DEF Abstract!Revert
<1> QED BY <1>2, <1>3 DEF Abstract!Next

\* It is that of the accounts that a revert ends with.
LEMMA FinishImplements ==
  ASSUME Books, Books', EIP158, FinishRevert PROVE UNCHANGED Abstract!vars
<1>1. /\ mode = "revert" /\ mode' = "run" /\ Len(journal) = target /\ saved' = saved
      /\ UNCHANGED <<diskVars, liveVars>>
  BY DEF FinishRevert
<1>2. Now' = Now BY <1>1 DEF Now, liveVars, diskVars, View, IsLive, GetState, Committed
<1>3. PICK h \in Histories : Chronicle(h) BY DEF Books
<1>4. goal = SeenIn(h[target]) /\ h[Len(journal)] = Faces(Live) BY <1>1, <1>3 DEF Chronicle, Told, Live
<1>5. goal = Now BY <1>1, <1>4, NowIs
<1> QED BY <1>1, <1>2, <1>5 DEF Abstract!vars

\* A turn of journal.revert's loop is not seen.
LEMMA UndoImplements ==
  ASSUME Books, UndoEntry PROVE UNCHANGED Abstract!vars
  BY DEF UndoEntry, revVars, Abstract!vars

\* What the end of a transaction makes of an account: nothing, or nil if it destructed
\* itself or was left empty.
Ends(p, q) ==
  /\ q = None \/ q = p
  /\ p # None /\ p.dead => q = None
  /\ q = None => p = None \/ p.dead \/ (p.bal = 0 /\ p.nonce = 0 /\ ~p.code)

\* That is what Finalise does.
LEMMA FinalisedEnds ==
  ASSUME Books, EIP158, mode = "run", NEW d, Cleared(d), NEW a \in Addrs
  PROVE  Ends(Now[a], Faces(FinLive(Finalised, d))[a].seen)
<1> DEFINE f == Finalised
           dead == {b \in Touched : Dies(b)}
           s2 == FinLive(f, d)
           q == Faces(s2)[a].seen
           p == Now[a]
           obj == objs[a]
           D == obj.suicided
           C == obj.code
<1>1. s2 \in Parts
  BY FinalisedKept DEF Final
<1>2. q = Plain(f.o[a])
  <2>1. Faces(s2)[a] = Face(f.o[a], a \in s2.x) BY <1>1, FacesType DEF FinLive
  <2> QED BY <2>1 DEF Face
<1>3. p = Plain(obj) /\ obj \in Object \cup {None} BY AccountIs, LiveFound
<1>4. /\ a \notin Touched => f.o[a] = obj
      /\ a \in dead => f.o[a] \in Object /\ f.o[a].deleted /\ obj \in Object
      /\ a \in Touched /\ a \notin dead => obj \in Object /\ ~D /\ f.o[a] = MoveDirty(obj)
  BY FinalisedParts
<1>5. a \notin Touched => (p # None => ~p.dead)
  <2> SUFFICES ASSUME a \notin Touched PROVE p # None => ~p.dead OBVIOUS
  <2>1. PICK h \in Histories : Chronicle(h) BY DEF Books
  <2>2. Faces(Live)[a] = h[0][a] BY <2>1, Undirtied
  <2>3. h[0][a].seen # None => ~h[0][a].seen.dead BY <2>1 DEF Chronicle, Began
  <2>4. p = Faces(Live)[a].seen BY NowIs DEF SeenIn
  <2> QED BY <2>2, <2>3, <2>4
<1>6. a \in dead => D \/ IsEmpty(obj) BY DEF Dies
<1>7. D = obj.suicided /\ C = obj.code OBVIOUS
<1> HIDE DEF f, dead, s2, q, p, obj, D, C
<1>8. obj # None /\ ~obj.deleted =>
        /\ p # None /\ p.dead = D /\ p.bal = obj.bal /\ p.nonce = obj.nonce /\ p.code = C
  <2> SUFFICES ASSUME obj # None, ~obj.deleted
               PROVE  p # None /\ p.dead = D /\ p.bal = obj.bal /\ p.nonce = obj.nonce /\ p.code = C OBVIOUS
  <2>1. p = [bal |-> obj.bal, nonce |-> obj.nonce, code |-> C, store |-> Store(obj), dead |-> D]
    BY <1>3, <1>7, PlainType
  <2>2. p # None BY <1>3, PlainType
  <2> QED BY <2>1, <2>2
<1>9. obj = None \/ obj.deleted => p = None BY <1>3, PlainType
<1>10. CASE a \notin Touched
  BY <1>2, <1>3, <1>4, <1>10, <1>5 DEF Ends, q, p, s2, f
<1>11. CASE a \in dead
  <2>1. q = None BY <1>2, <1>4, <1>11, PlainType
  <2>2. p = None \/ p.dead \/ (p.bal = 0 /\ p.nonce = 0 /\ ~p.code)
    <3>1. CASE obj = None \/ obj.deleted BY <3>1, <1>9
    <3>2. CASE obj # None /\ ~obj.deleted /\ D BY <3>2, <1>8
    <3>3. CASE obj # None /\ ~obj.deleted /\ IsEmpty(obj)
      BY <3>3, <1>7, <1>8 DEF IsEmpty
    <3> QED BY <3>1, <3>2, <3>3, <1>6, <1>11
  <2>3. Ends(p, q) BY <2>1, <2>2 DEF Ends
  <2> QED BY <2>3 DEF q, p, s2, f
<1>12. CASE a \in Touched /\ a \notin dead
  <2>1. obj \in Object /\ ~D /\ f.o[a] = MoveDirty(obj) BY <1>4, <1>12
  <2>2. q = p BY <2>1, <1>2, <1>3, MoveFacts
  <2>3. p # None => ~p.dead BY <2>1, <1>8, <1>9
  <2>4. Ends(p, q) BY <2>2, <2>3 DEF Ends
  <2> QED BY <2>4 DEF q, p, s2, f
<1> QED BY <1>10, <1>11, <1>12

\* An end of transaction in WorldState.
LEMMA EndsImplement ==
  ASSUME Books, Books', EIP158, mode = "run", mode' = "run", saved' = << >>,
         \A a \in Addrs : Ends(Now[a], Now'[a]) PROVE Abstract!Next
<1>1. Now \in Worlds BY NowIs
<1>2. Now' \in Worlds
  <2>1. (Books /\ EIP158)' OBVIOUS
  <2>2. (Now = SeenIn(Faces(Live)) /\ Now \in Worlds)' BY <2>1, NowIs, PTL
  <2> QED BY <2>2 DEF Worlds, Seen
<1> DEFINE N == Now
           M == Now'
           W == {a \in Addrs : EIP158 /\ Abstract!Empty(a)}
           cleared == {a \in W : M[a] = None}
           gone(a) == a \in cleared \/ (Abstract!Exists(a) /\ Abstract!Account(a).dead)
<1>3. ASSUME NEW a \in Addrs
      PROVE  /\ Abstract!Exists(a) <=> N[a] # None
             /\ N[a] # None => Abstract!Account(a) = N[a]
             /\ N[a] = None => Abstract!Empty(a)
             /\ N[a] # None => (Abstract!Empty(a) <=> N[a].bal = 0 /\ N[a].nonce = 0 /\ ~N[a].code)
  <2>1. Abstract!Exists(a) <=> N[a] # None BY DEF Abstract!Exists
  <2>2. N[a] # None => Abstract!Account(a) = N[a] BY <2>1 DEF Abstract!Account
  <2>3. ASSUME N[a] = None PROVE Abstract!Empty(a)
    <3> DEFINE acct == Abstract!Account(a)
               C == FALSE
    <3>1. acct = [bal |-> 0, nonce |-> 0, code |-> C, store |-> Abstract!NoStore, dead |-> C]
      BY <2>1, <2>3 DEF Abstract!Account, Abstract!Fresh
    <3>2. ~C OBVIOUS
    <3> HIDE DEF C, acct
    <3>3. acct.bal = 0 /\ acct.nonce = 0 /\ acct.code = C BY <3>1
    <3> QED BY <3>2, <3>3 DEF Abstract!Empty, acct
  <2>4. N[a] # None => (Abstract!Empty(a) <=> N[a].bal = 0 /\ N[a].nonce = 0 /\ ~N[a].code) BY <2>2 DEF Abstract!Empty
  <2> QED BY <2>1, <2>2, <2>3, <2>4
<1>4. ASSUME NEW a \in Addrs PROVE Ends(N[a], M[a]) OBVIOUS
<1>5. ASSUME NEW a \in Addrs PROVE M[a] = IF gone(a) THEN None ELSE N[a]
  <2>1. /\ M[a] = None \/ M[a] = N[a]
        /\ N[a] # None /\ N[a].dead => M[a] = None
        /\ M[a] = None => N[a] = None \/ N[a].dead \/ (N[a].bal = 0 /\ N[a].nonce = 0 /\ ~N[a].code)
    BY <1>4 DEF Ends
  <2>2. a \in cleared <=> Abstract!Empty(a) /\ M[a] = None OBVIOUS
  <2> HIDE DEF N, M, cleared
  <2>3. CASE gone(a) BY <2>1, <2>2, <2>3, <1>3
  <2>4. CASE ~gone(a) BY <2>1, <2>2, <2>4, <1>3
  <2> QED BY <2>3, <2>4
<1>6. M = [a \in Addrs |-> IF gone(a) THEN None ELSE N[a]]
  <2>1. M = [a \in Addrs |-> M[a]] BY <1>2 DEF Worlds
  <2> HIDE DEF M, N, gone
  <2> QED BY <2>1, <1>5
<1>7. cleared \in SUBSET W OBVIOUS
<1>8. Abstract!EndTx
  BY <1>6, <1>7 DEF World, Abstract!EndTx
<1> QED BY <1>8 DEF Abstract!Next

\* What the getters return after a step.
LEMMA NowAfter ==
  ASSUME Books', EIP158
  PROVE  /\ Now' = SeenIn(Faces(Live')) /\ Now' \in Worlds
         /\ mode' = "run" => \A a \in Addrs :
              dirties'[a] = 0 /\ a \notin pending' => Now'[a] = AccountView(trie'[a])
<1>1. (Books /\ EIP158)' OBVIOUS
<1>2. (Now = SeenIn(Faces(Live)) /\ Now \in Worlds)' BY <1>1, NowIs, PTL
<1>3. Now' = SeenIn(Faces(Live')) /\ Now' \in Worlds BY <1>2 DEF Worlds, Seen
<1>4. NoLostWrite' BY <1>1, BooksLoseNothing, PTL
<1> QED BY <1>3, <1>4 DEF NoLostWrite

\* IntermediateRoot stores what Finalise leaves, and the getters return the same.
LEMMA FlushUnseen ==
  ASSUME NEW f, NEW d, Final(FinCtx(f), FinLive(f, d)), EIP158, NEW a \in Addrs
  PROVE  /\ Faces(FlushLive(f, d))[a].seen = Faces(FinLive(f, d))[a].seen
         /\ Faces(FinLive(f, d))[a].seen = AccountView(Flushed(f).trie[a])
<1> DEFINE c == FinCtx(f)
           s == FinLive(f, d)
           c2 == FlushCtx(f)
           s2 == FlushLive(f, d)
<1>1. Final(c, s) /\ FlushOf(c, s, c2, s2) /\ c2.trie = Flushed(f).trie BY FlushedOf DEF FlushCtx
<1> HIDE DEF c, s, c2, s2
<1>2. /\ IF s2.o[a] = None THEN Bare(c2, a) ELSE Sane(c2, a, s2.o[a], a \in s2.x)
      /\ s2.o[a] = None => a \notin s2.x
      /\ Faces(s2)[a].seen # None => ~Faces(s2)[a].seen.dead
      /\ Arrived(c2, a, Faces(s2)[a]) /\ Faces(s2)[a].seen = Faces(s)[a].seen
      /\ c2.snap /\ a \notin c2.dirty => c2.acc[a] = None /\ c2.sto[a] = NoWrites /\ ~Faces(s2)[a].destruct
  BY <1>1, FlushAt
<1>3. Faces(s)[a].seen = AccountView(c2.trie[a]) BY <1>2 DEF Arrived
<1> QED BY <1>1, <1>2, <1>3 DEF s, s2

\* The end of a transaction.
LEMMA EndTxImplements ==
  ASSUME Books, Books', EIP158, EndTx PROVE Abstract!Next
<1> DEFINE f == Finalised
           d == dirties'
<1>1. mode = "run" /\ mode' = "run" /\ saved' = << >> /\ journal' = << >> BY DEF EndTx, Running, ClearJournal
<1>2. Cleared(d) BY ClearedCounts DEF EndTx, ClearJournal
<1> HIDE DEF d
<1>3. Final(FinCtx(f), FinLive(f, d)) BY <1>1, <1>2, FinalisedKept
<1>4. ASSUME NEW a \in Addrs PROVE Faces(Live')[a].seen = Faces(FinLive(f, d))[a].seen
  <2>1. CASE Byzantium
    BY <1>1, <2>1 DEF EndTx, Live, FinLive, d
  <2>2. CASE ~Byzantium
    BY <1>1, <2>2, <1>3, FlushUnseen DEF EndTx, Live, FlushLive, d
  <2> QED BY <2>1, <2>2
<1>5. ASSUME NEW a \in Addrs PROVE Ends(Now[a], Now'[a])
  BY <1>1, <1>2, FinalisedEnds, NowAfter, <1>4 DEF SeenIn
<1> QED BY <1>1, <1>5, EndsImplement

\* The end of a block, seen as the end of a transaction.
LEMMA CommitImplements ==
  ASSUME Books, Books', EIP158, Commit PROVE Abstract!Next
<1> DEFINE f == Finalised
           d == [a \in Addrs |-> 0]
<1>1. /\ mode = "run" /\ mode' = "run" /\ saved' = << >> /\ dirties' = d /\ pending' = {}
      /\ trie' = Flushed(f).trie
  BY DEF Commit, Running
<1>2. Cleared(d) /\ \A a \in Addrs : d[a] = 0 BY ClearedCounts
<1> HIDE DEF d
<1>3. Final(FinCtx(f), FinLive(f, d)) BY <1>1, <1>2, FinalisedKept
<1>4. ASSUME NEW a \in Addrs PROVE Ends(Now[a], Now'[a])
  BY <1>1, <1>2, FinalisedEnds, <1>3, FlushUnseen, NowAfter
<1> QED BY <1>1, <1>4, EndsImplement

\* A copy is not seen.
LEMMA CopyImplements ==
  ASSUME Books, Books', EIP158, Copy PROVE UNCHANGED Abstract!vars
<1>1. mode = "run" /\ mode' = "run" /\ saved' = saved /\ journal = << >> BY DEF Copy, Running, revVars
<1>2. Sound(Ctx, Live) /\ Began(Ctx, Faces(Live)) BY <1>1, BegunNow DEF Books
<1>3. Copied(Ctx, Live, Ctx', Live', Touched \cup pending \cup dirty) BY CopyCopies
<1> DEFINE c == Ctx
           s == Live
           c2 == Ctx'
           s2 == Live'
           kept == Touched \cup pending \cup dirty
<1>4. Sound(c, s) /\ Began(c, Faces(s)) /\ Copied(c, s, c2, s2, kept) BY <1>2, <1>3
<1>5. Now = SeenIn(Faces(s)) /\ Now' = SeenIn(Faces(s2)) BY NowIs, NowAfter
<1> HIDE DEF c, s, c2, s2, kept
<1>6. \A a \in Addrs : Faces(s2)[a].seen = Faces(s)[a].seen BY <1>4, CopiedAt
<1>7. Now' = Now BY <1>5, <1>6 DEF SeenIn
<1> QED BY <1>1, <1>7 DEF Abstract!vars

\* The first state.
LEMMA InitImplements ==
  ASSUME Init, EIP158 PROVE Abstract!Init
<1>1. Books BY InitBooks
<1>2. mode = "run" /\ saved = << >> /\ journal = << >> /\ pending = {} BY DEF Init
<1>3. Now = SeenIn(Faces(Live)) /\ Now \in Worlds BY <1>1, NowIs
<1>4. Began(Ctx, Faces(Live)) BY <1>1, <1>2, BegunNow
<1> DEFINE N == Now
           AA == Amounts \cup (0 .. MaxNonce)
           Ws == [Slots -> Words]
           F == {FALSE}
           R == [bal : AA, nonce : AA, code : BOOLEAN, store : Ws, dead : F]
<1>5. ASSUME NEW a \in Addrs PROVE N[a] \in {None} \cup R
  <2>1. N[a] \in Seen \cup {None} /\ N[a] = Faces(Live)[a].seen BY <1>3 DEF Worlds, SeenIn
  <2>2. N[a] # None => ~N[a].dead BY <1>4, <2>1 DEF Began
  <2> HIDE DEF N
  <2>3. ASSUME N[a] # None PROVE N[a] \in R
    <3> DEFINE p == N[a]
    <3>1. p \in Seen /\ ~p.dead BY <2>1, <2>2, <2>3
    <3> HIDE DEF p
    <3>2. /\ p.bal \in 0 .. MaxBal /\ p.nonce \in 0 .. MaxNonce /\ p.code \in BOOLEAN /\ p.store \in Ws
          /\ p.dead \in BOOLEAN
          /\ p = [bal |-> p.bal, nonce |-> p.nonce, code |-> p.code, store |-> p.store, dead |-> p.dead]
      BY <3>1 DEF Seen
    <3>3. p.dead \in F BY <3>1, <3>2
    <3>4. p.bal \in AA /\ p.nonce \in AA BY <3>2 DEF Amounts
    <3> HIDE DEF F, AA, Ws
    <3>5. p \in R BY <3>2, <3>3, <3>4
    <3> QED BY <3>5 DEF p
  <2> QED BY <2>3
<1>6. N = [a \in Addrs |-> N[a]] BY <1>3 DEF Worlds
<1> HIDE DEF R
<1>7. N \in [Addrs -> {None} \cup R]
  <2> HIDE DEF N
  <2> QED BY <1>5, <1>6
<1> QED BY <1>2, <1>7 DEF Abstract!Init, R, AA, F, Ws, N

\* Each step of the StateDB is a step of WorldState, or none.
LEMMA StepImplements ==
  ASSUME Books, Books', EIP158, [Next]_vars PROVE [Abstract!Next]_Abstract!vars
<1>1. CASE UNCHANGED vars
  <2>1. Now' = Now /\ mode' = mode /\ goal' = goal /\ saved' = saved
    BY <1>1 DEF vars, diskVars, liveVars, flushVars, revVars, evmVars, Now, View, IsLive, GetState, Committed
  <2> QED BY <2>1 DEF Abstract!vars
<1>2. ASSUME NEW a \in Addrs, NEW v \in Amounts, AddBalance(a, v) \/ SubBalance(a, v) PROVE Abstract!Next
  BY <1>2, BalanceImplements
<1>3. ASSUME NEW a \in Addrs, NEW v \in Amounts, Create(a, v) PROVE Abstract!Next BY <1>3, CreateImplements
<1>4. ASSUME NEW a \in Addrs, SetNonce(a) \/ SetCode(a) \/ Suicide(a) PROVE Abstract!Next BY <1>4, AccountImplements
<1>5. ASSUME NEW a \in Addrs, NEW k \in Slots, LoadSlot(a, k) PROVE UNCHANGED Abstract!vars BY <1>5, LoadImplements
<1>6. ASSUME NEW a \in Addrs, NEW k \in Slots, NEW w \in Words, SetState(a, k, w) PROVE Abstract!Next
  BY <1>6, StorageImplements
<1>7. ASSUME Snapshot PROVE Abstract!Next BY <1>7, SnapshotImplements
<1>8. ASSUME NEW i \in DOMAIN revisions, StartRevert(i) PROVE Abstract!Next BY <1>8, RevertImplements
<1>9. ASSUME UndoEntry PROVE UNCHANGED Abstract!vars BY <1>9, UndoImplements
<1>10. ASSUME FinishRevert PROVE UNCHANGED Abstract!vars BY <1>10, FinishImplements
<1>11. ASSUME EndTx PROVE Abstract!Next BY <1>11, EndTxImplements
<1>12. ASSUME Commit PROVE Abstract!Next BY <1>12, CommitImplements
<1>13. ASSUME Copy PROVE UNCHANGED Abstract!vars BY <1>13, CopyImplements
<1> DEFINE A == Abstract!Next
           B == UNCHANGED Abstract!vars
<1>14. B => [Abstract!Next]_Abstract!vars OBVIOUS
<1>15. CASE Next
  <2> HIDE DEF A, B
  <2>1. A \/ B BY <1>2, <1>3, <1>4, <1>5, <1>6, <1>7, <1>8, <1>9, <1>10, <1>11, <1>12, <1>13, <1>15 DEF Next, A, B
  <2> QED BY <2>1, <1>14 DEF A
<1> QED BY <1>1, <1>15

\* From EIP-158 on, StateDB keeps the promise of WorldState: every getter returns what was
\* last written, and a revert returns every account to what it was.
THEOREM KeepsItsPromise ==
  ASSUME EIP158 PROVE Spec => KeepsPromise
<1>1. Init => Abstract!Init BY InitImplements
<1>2. Books /\ Books' /\ [Next]_vars => [Abstract!Next]_Abstract!vars BY StepImplements
<1> QED BY <1>1, <1>2, BooksHold, PTL DEF KeepsPromise, Abstract!Spec, Spec

=============================================================================
