------------------------------ MODULE Freezer ------------------------------
(***************************************************************************)
(* core/rawdb: old canonical blocks move from the key-value store into     *)
(* append-only tables (freezer_table.go), one for each kind of data, which *)
(* grow and shrink together (freezer.go).                                  *)
(*                                                                         *)
(* The freezer (chain_freezer.go) copies, syncs and only then deletes; a   *)
(* snap sync writes blocks to the tables directly, and a rewind cuts them. *)
(* A table is an index over data files of bounded size.  A power loss may  *)
(* take what was appended since the last sync from the end of any file;    *)
(* truncations, and what is in the key-value store, survive it.  On start  *)
(* every table is repaired by itself, and then all are cut to the          *)
(* shortest.  TruncateTail, which nothing calls, is left out.              *)
(***************************************************************************)
EXTENDS Integers, Sequences, SequencesExt

CONSTANTS Tables, HashTable,  \* kinds of data; all hashes have the same size
          MaxFileSize, MaxNumber, MaxVersion,
          FullImmutabilityThreshold, FreezerBatchLimit,
          MaxFaults           \* bound: rewinds, power losses and failing batches together

ASSUME FreezerAssumption ==
  /\ HashTable \in Tables /\ MaxFileSize >= MaxVersion /\ MaxVersion \in Nat \ {0}

VARIABLES tables,    \* [Tables -> table], files and fields
          kv,        \* blocks in the key-value store: [number -> version], 0 if none
          canon,     \* versions of the canonical blocks, the first is the genesis block
          freezing,  \* the round of the freezer
          inserting, \* the chain segment a snap sync is about to add
          spoilt,    \* blocks of the chain that the code is known to lose (see BlocksKept)
          faults

freezerVars == <<tables, kv, canon, freezing, inserting, spoilt, faults>>

Numbers == 0..MaxNumber
Files == 0..MaxNumber
Top == Len(canon) - 1
Least(a, b) == IF a < b THEN a ELSE b

-----------------------------------------------------------------------------
(* A table.                                                                *)

\* The first entry of an index tells where the table starts.
NewTable == [index |-> <<[file |-> 0, off |-> 0]>>, data |-> [f \in Files |-> <<>>],
             items |-> 0, headId |-> 0, headBytes |-> 0,
             safeIndex |-> 1, safeData |-> [f \in Files |-> 0]]

\* An item fills as many bytes as its version says.
Item(t, n, v) == [i \in 1..(IF t = HashTable THEN 1 ELSE v) |-> <<n, v>>]

\* freezerTableBatch.commit
Written(b) ==
  [table |-> [b.table EXCEPT !.data[b.table.headId] = @ \o b.data, !.index = @ \o b.index,
                             !.headBytes = @ + Len(b.data), !.items = @ + Len(b.index)],
   data |-> <<>>, index |-> <<>>]

\* advanceHead: the next file starts empty.  The old one is closed, and no Sync reaches it.
AdvanceHead(b) ==
  LET old == b.table.headId
  IN [b EXCEPT !.table = [@ EXCEPT !.data[old + 1] = <<>>, !.safeData[old + 1] = 0,
                                   !.headId = old + 1, !.headBytes = 0]]

\* appendItem, when the item fits into the head file
Buffered(b, bytes) ==
  [b EXCEPT !.data = @ \o bytes,
            !.index = Append(@, [file |-> b.table.headId, off |-> b.table.headBytes + Len(b.data) + Len(bytes)])]

Overflows(b, bytes) == b.table.headBytes + Len(b.data) + Len(bytes) > MaxFileSize

AppendItem(b, bytes) ==
  IF Overflows(b, bytes)
  THEN Buffered(AdvanceHead(Written(b)), bytes)
  ELSE Buffered(b, bytes)

\* Items put into a batch; only what goes into files that became full is written yet.
Batch(table, items) == FoldLeft(AppendItem, [table |-> table, data |-> <<>>, index |-> <<>>], items)

\* Truncate, which fills up a file that is shorter.
CutData(table, file, size) ==
  [table EXCEPT !.data[file] = [i \in 1..size |-> IF i <= Len(@) THEN @[i] ELSE <<0, 0>>],
                !.safeData[file] = Least(@, size)]

\* truncateHead
CutTable(table, items) ==
  IF table.items <= items THEN table
  ELSE LET last == table.index[items + 1]
       IN [CutData(table, last.file, last.off) EXCEPT
             !.index = SubSeq(@, 1, items + 1), !.safeIndex = Least(@, items + 1),
             !.items = items, !.headId = last.file, !.headBytes = last.off]

\* Sync knows the head file only.
Synced(table) == [table EXCEPT !.safeIndex = Len(table.index), !.safeData[table.headId] = Len(table.data[table.headId])]

\* retrieveItems: an item that starts a file starts at its first byte.
ReadItem(table, n) ==
  LET from == table.index[n + 1]
      to == table.index[n + 2]
      start == IF n = 0 \/ from.file # to.file THEN 0 ELSE from.off
  IN IF to.off <= Len(table.data[to.file]) THEN SubSeq(table.data[to.file], start + 1, to.off) ELSE <<>>

\* repair: entries beyond the end of the head file go, and then bytes beyond the last entry.
Repaired(table) ==
  LET fits == {i \in 1..Len(table.index) : table.index[i].off <= Len(table.data[table.index[i].file])}
      kept == CHOOSE i \in fits : \A j \in fits : j <= i
      last == table.index[kept]
  IN Synced([CutData(table, last.file, last.off) EXCEPT
               !.index = SubSeq(@, 1, kept), !.items = kept - 1, !.headId = last.file, !.headBytes = last.off])

-----------------------------------------------------------------------------
(* All tables.                                                             *)

Frozen == tables[HashTable].items  \* Freezer.frozen, while no batch is written

\* The first items of a batch, put to table t
Given(t, versions, many) == Batch(tables[t], [i \in 1..many |-> Item(t, Frozen + i - 1, versions[i])])

\* ModifyAncients
Extended(versions) == [t \in Tables |-> Written(Given(t, versions, Len(versions))).table]

\* Half of a batch stayed: bytes that the table does not count, or entries of its index.
BytesLeft(table) == Len(table.data[table.headId]) > table.headBytes
EntriesLeft(table) == Len(table.index) > table.items + 1

\* What is added to such a table cannot be read: offsets do not count the bytes, or items
\* are behind the place of their number.
Garbled(extended) ==
  {n \in Frozen..(extended[HashTable].items - 1) :
     \E t \in Tables : \/ EntriesLeft(tables[t])
                      \/ /\ BytesLeft(tables[t])
                         /\ extended[t].index[n + 2].file = tables[t].headId}

\* commit writes the bytes first, and counts what is written of both files.
HalfWritten(b, bytes, entries) ==
  [b.table EXCEPT !.data[b.table.headId] = @ \o SubSeq(b.data, 1, bytes), !.index = @ \o SubSeq(b.index, 1, entries)]

\* ModifyAncients takes back what the tables wrote of the items they were given: truncateHead
\* leaves a table alone that is not longer than it should be.
RolledBack(versions, given, written) ==
  [t \in Tables |->
     LET b == Given(t, versions, given[t])
     IN CutTable(IF t \in written THEN Written(b).table ELSE b.table, Frozen)]

\* The same when table t failed to write what it holds: some bytes, or all and some entries.
HalfRolledBack(t, versions, given, written) ==
  LET b == Given(t, versions, given[t])
      left == {<<bytes, 0>> : bytes \in 0..Len(b.data)} \cup {<<Len(b.data), e>> : e \in 1..(Len(b.index) - 1)}
  IN {[RolledBack(versions, given, written) EXCEPT ![t] = CutTable(HalfWritten(b, l[1], l[2]), Frozen)] : l \in left}

Readable(versions, i) == \A j \in 1..i : versions[j] # 0

\* Block i cannot be read.
Unreadable(versions) ==
  {RolledBack(versions, [t \in Tables |-> i - 1], {}) :
     i \in {j \in DOMAIN versions : Readable(versions, j - 1) /\ ~Readable(versions, j)}}

\* Table t fails to write what it holds before it starts a file with item i, which some
\* other tables have already.
AppendFails(versions) ==
  UNION {HalfRolledBack(t, versions, [u \in Tables |-> IF u \in ahead THEN i ELSE i - 1], {}) :
           <<t, i, ahead>> \in
             {<<u, j, others>> \in Tables \X (DOMAIN versions) \X (SUBSET Tables) :
                /\ Readable(versions, j) /\ u \notin others
                /\ Overflows(Given(u, versions, j - 1), Item(u, Frozen + j - 1, versions[j]))}}

\* A table fails to write when all items are there, which some tables have written.
CommitFails(versions) ==
  IF Readable(versions, Len(versions))
  THEN UNION {HalfRolledBack(t, versions, [u \in Tables |-> Len(versions)], written) :
                t \in Tables, written \in SUBSET Tables}
  ELSE {}

Fails(versions) == tables' \in Unreadable(versions) \cup AppendFails(versions) \cup CommitFails(versions)

\* Freezer.TruncateHead
Cut(items) == IF Frozen <= items THEN tables ELSE [t \in Tables |-> CutTable(tables[t], items)]

-----------------------------------------------------------------------------
(* The freezer.                                                            *)

NoRound == [stage |-> "none", first |-> 0, versions |-> <<>>, rewound |-> FALSE]
NoInsert == [stage |-> "none", versions |-> <<>>]

FreezerInit ==
  /\ tables = [t \in Tables |-> NewTable]
  /\ kv = [n \in Numbers |-> IF n = 0 THEN 1 ELSE 0] /\ canon = <<1>>
  /\ freezing = NoRound /\ inserting = NoInsert /\ spoilt = {}
  /\ faults = 0

\* A block arrives at the head.
ImportBlock(v) ==
  /\ inserting = NoInsert /\ Top < MaxNumber
  /\ canon' = Append(canon, v) /\ kv' = [kv EXCEPT ![Top + 1] = v]
  /\ UNCHANGED <<tables, freezing, inserting, spoilt, faults>>

\* What the next round freezes.
DueBlocks ==
  LET last == Least(Top - FullImmutabilityThreshold, Frozen + FreezerBatchLimit)
  IN [i \in 1..(last - Frozen + 1) |-> kv[Frozen + i - 1]]

Due == freezing = NoRound /\ inserting = NoInsert /\ Top - FullImmutabilityThreshold > Frozen

FreezeRange ==
  /\ Due /\ \A i \in DOMAIN DueBlocks : DueBlocks[i] # 0
  /\ tables' = Extended(DueBlocks)
  /\ spoilt' = spoilt \cup Garbled(tables')
  /\ freezing' = [stage |-> "written", first |-> Frozen, versions |-> DueBlocks, rewound |-> FALSE]
  /\ UNCHANGED <<kv, canon, inserting, faults>>

\* A block cannot be read, or a file cannot be written.
FreezeFails ==
  /\ Due /\ faults < MaxFaults /\ faults' = faults + 1
  /\ Fails(DueBlocks)
  /\ UNCHANGED <<kv, canon, freezing, inserting, spoilt>>

SyncFrozen ==
  /\ freezing.stage = "written"
  /\ tables' = [t \in Tables |-> Synced(tables[t])]
  /\ freezing' = [freezing EXCEPT !.stage = "synced"]
  /\ UNCHANGED <<kv, canon, inserting, spoilt, faults>>

RoundNumbers == freezing.first..(freezing.first + Len(freezing.versions) - 1)

\* The frozen blocks and all others of the same numbers are deleted, but the genesis block.
\* After a rewind these may be blocks of the new chain that no table holds.
DeleteRound ==
  /\ kv' = [n \in Numbers |-> IF n > 0 /\ n \in RoundNumbers THEN 0 ELSE kv[n]]
  /\ spoilt' = spoilt \cup {n \in RoundNumbers : freezing.rewound /\ n \in Frozen..Top}
  /\ freezing' = NoRound
  /\ UNCHANGED <<tables, canon, inserting, faults>>

\* mutant: the round deletes before it has synced
DeleteUnsynced == freezing.stage \in {"written", "synced"} /\ DeleteRound

DeleteFrozen == freezing.stage = "synced" /\ DeleteRound

\* writeAncient of InsertReceiptChain: the genesis block goes into empty tables first, and
\* then blocks beyond the head.
Inserting == inserting = NoInsert /\ freezing = NoRound

AddGenesis ==
  /\ Inserting /\ Frozen = 0 /\ Top = 0
  /\ tables' = Extended(canon)
  /\ spoilt' = spoilt \cup Garbled(tables')
  /\ UNCHANGED <<kv, canon, freezing, inserting, faults>>

InsertAncient(versions) ==
  /\ Inserting /\ Frozen = Top + 1 /\ Top + Len(versions) <= MaxNumber
  /\ tables' = Extended(versions)
  /\ spoilt' = spoilt \cup Garbled(tables')
  /\ inserting' = [stage |-> "written", versions |-> versions]
  /\ UNCHANGED <<kv, canon, freezing, faults>>

InsertFails(versions) ==
  /\ Inserting /\ faults < MaxFaults /\ faults' = faults + 1
  /\ \/ Frozen = 0 /\ Top = 0 /\ Fails(canon)
     \/ Frozen = Top + 1 /\ Top + Len(versions) <= MaxNumber /\ Fails(versions)
  /\ UNCHANGED <<kv, canon, freezing, inserting, spoilt>>

SyncInserted ==
  /\ inserting.stage = "written"
  /\ tables' = [t \in Tables |-> Synced(tables[t])]
  /\ inserting' = [inserting EXCEPT !.stage = "synced"]
  /\ UNCHANGED <<kv, canon, freezing, spoilt, faults>>

\* updateHead, and what follows when the chain was rewound in between
EndInsert ==
  /\ inserting.stage = "synced"
  /\ inserting' = NoInsert
  /\ IF Frozen = Top + 1 + Len(inserting.versions)
     THEN canon' = canon \o inserting.versions /\ UNCHANGED <<tables, spoilt>>
     ELSE tables' = Cut(Top + 1) /\ spoilt' = spoilt \cap 0..Top /\ UNCHANGED canon
  /\ UNCHANGED <<kv, freezing, faults>>

\* SetHead: blocks above the target leave the chain, wherever they are.  It does not wait
\* for a round of the freezer.
SetHead(target) ==
  /\ faults < MaxFaults /\ faults' = faults + 1
  /\ canon' = SubSeq(canon, 1, target + 1)
  /\ kv' = [n \in Numbers |-> IF n > target THEN 0 ELSE kv[n]]
  /\ tables' = Cut(target + 1)
  /\ spoilt' = spoilt \cap 0..target
  /\ freezing' = [freezing EXCEPT !.rewound = @ \/ freezing # NoRound]
  /\ UNCHANGED <<inserting>>

-----------------------------------------------------------------------------
(* Restarts.                                                               *)

\* What a power loss may take from a file: nothing that was synced.
Losses(table) ==
  LET unsynced == {f \in Files : Len(table.data[f]) > table.safeData[f]}
  IN [index : 0..(Len(table.index) - table.safeIndex),
      data : {lost \in [unsynced -> 0..MaxFileSize] :
                \A f \in unsynced : lost[f] <= Len(table.data[f]) - table.safeData[f]}]

After(table, lost) ==
  [table EXCEPT !.index = SubSeq(@, 1, Len(@) - lost.index),
                !.data = [f \in Files |-> IF f \in DOMAIN lost.data THEN SubSeq(@[f], 1, Len(@[f]) - lost.data[f])
                                         ELSE @[f]]]

\* NewFreezer, and NewBlockChain when the tables hold more than the chain
Reopened(repaired) ==
  LET least == CHOOSE n \in {repaired[t].items : t \in Tables} : \A t \in Tables : n <= repaired[t].items
  IN [t \in Tables |-> CutTable(repaired[t], Least(least, Top + 1))]

\* Blocks that lost their end with a file that was closed before it was synced: repair looks
\* at the last file only.
Torn(left, repaired) ==
  {n \in 0..Top :
     /\ n + 2 <= Len(left.index)
     /\ left.index[n + 2].off > Len(left.data[left.index[n + 2].file])
     /\ n < repaired.items \/ n + 2 <= left.safeIndex}

\* What a table is after the loss
Found(t, lost) ==
  LET left == After(tables[t], lost)
      repaired == Repaired(left)
  IN [of |-> t, table |-> repaired, torn |-> Torn(left, repaired)]

PowerLoss ==
  /\ faults < MaxFaults /\ faults' = faults + 1
  /\ \E found \in [Tables -> UNION {{Found(t, lost) : lost \in Losses(tables[t])} : t \in Tables}] :
       /\ \A t \in Tables : found[t].of = t
       /\ tables' = Reopened([t \in Tables |-> found[t].table])
       /\ spoilt' = (spoilt \cup UNION {found[t].torn : t \in Tables}) \cap 0..Top
  /\ freezing' = NoRound /\ inserting' = NoInsert
  /\ UNCHANGED <<kv, canon>>

Versions == 1..MaxVersion
FreezerNext ==
  \/ \E v \in Versions : ImportBlock(v)
  \/ FreezeRange \/ FreezeFails \/ SyncFrozen \/ DeleteFrozen
  \/ \E versions \in {<<v>> : v \in Versions} \cup (Versions \X Versions) : InsertAncient(versions) \/ InsertFails(versions)
  \/ AddGenesis \/ SyncInserted \/ EndInsert
  \/ \E target \in 0..(Top - 1) : SetHead(target)
  \/ PowerLoss

FreezerSpec == FreezerInit /\ [][FreezerNext]_freezerVars

-----------------------------------------------------------------------------
(* What the freezer promises.                                              *)

FreezerTypeOK ==
  /\ \A t \in Tables :
       /\ tables[t].items < Len(tables[t].index) /\ tables[t].headId \in Files
       /\ tables[t].headBytes \in 0..MaxFileSize
  /\ kv \in [Numbers -> 0..MaxVersion] /\ canon \in Seq(Versions)
  /\ spoilt \subseteq 0..(Top + Len(inserting.versions))
  /\ freezing.stage \in {"none", "written", "synced"} /\ inserting.stage \in {"none", "written", "synced"}

\* All tables hold the same blocks.
TablesAgree == \A t \in Tables : tables[t].items = Frozen

StillRead(n) ==
  IF n < Frozen THEN \A t \in Tables : ReadItem(tables[t], n) = Item(t, n, canon[n + 1])
  ELSE kv[n] = canon[n + 1]

\* Every block of the chain is in all tables or in the key-value store, and is read as
\* itself: what is frozen is read first.  Three kinds of blocks are excepted: those added to
\* a table on which a batch failed half way (Garbled), those whose end was in a file that was
\* closed unsynced when the power failed (Torn), and those of a chain imported after a rewind
\* that overtook a round of the freezer (DeleteRound).
BlocksKept == \A n \in (0..Top) \ spoilt : StillRead(n)

\* What the comments of the code promise, without exceptions: TLC refutes it in three ways.
AllBlocksKept == \A n \in 0..Top : StillRead(n)

\* The tables hold nothing beyond the head, but what is being inserted.
NothingBeyondHead == inserting = NoInsert => Frozen <= Top + 1

AncientsSound == FreezerTypeOK /\ TablesAgree /\ BlocksKept /\ NothingBeyondHead
=============================================================================
