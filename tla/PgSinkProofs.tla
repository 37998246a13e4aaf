----------------------------- MODULE PgSinkProofs -----------------------------
(***************************************************************************)
(* What every awaited call of the PostgreSQL sink leaves true, for any     *)
(* number of tables, blocks and thresholds.  The modules that drive the    *)
(* sink (PgStore, Indexer) build their own proofs on it.                   *)
(***************************************************************************)
EXTENDS PgSink, TLAPS

USE BlocksAssumption, TablesAssumption, BatchAssumption, ModesAssumption

(* The blocks held: table 1 has a row of each of them, which is in its     *)
(* buffer until it is in the open transaction.                             *)
Held == buf[1] \union txn[1]
OfTable(H, t) == {h \in H : t \in TablesOf[h]}
Inserted(t) ==
  sinkPc \in {"progress", "commit"} \/ (sinkPc = "insert" /\ t < table)
Highest(H, m) == m \in H /\ \A g \in H : g <= m
Working == alive /\ sinkPc # "failed"

(* The inductive invariant.  A flush never splits a block: the rows of the *)
(* held blocks are, table by table, all in the buffer or all in the open   *)
(* transaction, and those of the stored blocks all in the database.        *)
StoredWhole == \A t \in Tables : db[t] = OfTable(db[1], t)
HeldWhole ==
  Working => \A t \in Tables :
    /\ buf[t] = IF Inserted(t) THEN {} ELSE OfTable(Held, t)
    /\ txn[t] = IF Inserted(t) THEN OfTable(Held, t) ELSE {}
NoTransaction == ~Working => txn = Empty
FlushHasRows == Working /\ sinkPc # "idle" => Held # {}
HeldHasHighest == Working /\ Held # {} => \E m \in Held : Highest(Held, m)
SpanIsHighest ==
  Working /\ sinkPc \in {"begin", "insert", "progress", "commit"} => Highest(Held, span)

SinkInv ==
  /\ SinkTypeOK
  /\ StoredWhole /\ HeldWhole /\ NoTransaction
  /\ FlushHasRows /\ HeldHasHighest /\ SpanIsHighest

LEMMA FirstTable ==
  /\ 1 \in Tables
  /\ \A H \in SUBSET Blocks : OfTable(H, 1) = H
<1>1. TableCount \in Nat \ {0} /\ \A b \in Blocks : 1 \in TablesOf[b]
  BY TablesAssumption
<1>2. 1 \in Tables
  BY <1>1 DEF Tables
<1>3. ASSUME NEW H \in SUBSET Blocks PROVE OfTable(H, 1) = H
  BY <1>1, <1>3 DEF OfTable
<1>4. QED
  BY <1>2, <1>3

LEMMA SinkInvInit == SinkInit => SinkInv
<1> SUFFICES ASSUME SinkInit PROVE SinkInv
  OBVIOUS
<1>1. 1 \in Tables /\ Held = {} /\ db[1] = {}
  BY FirstTable DEF SinkInit, MemInit, Empty, Held
<1>2. SinkTypeOK
  BY <1>1 DEF SinkInit, MemInit, SinkTypeOK, Empty
<1>3. StoredWhole /\ HeldWhole
  BY <1>1 DEF SinkInit, MemInit, StoredWhole, HeldWhole, OfTable, Empty, Inserted
<1>4. QED
  BY <1>1, <1>2, <1>3 DEF SinkInit, MemInit, SinkInv, NoTransaction, FlushHasRows,
     HeldHasHighest, SpanIsHighest, Working

LEMMA SinkInvSame == SinkInv /\ UNCHANGED sinkVars => SinkInv'
BY DEF SinkInv, sinkVars, SinkTypeOK, StoredWhole, HeldWhole, NoTransaction, FlushHasRows,
   HeldHasHighest, SpanIsHighest, Working, Held, Inserted, Highest, OfTable, Empty

(* Between two flushes what is held is what is buffered.                   *)
LEMMA IdleHolds ==
  ASSUME SinkInv, alive, sinkPc \in {"idle", "connect", "begin"}
  PROVE  /\ Held = buf[1] /\ txn = Empty
         /\ \A t \in Tables : buf[t] = OfTable(Held, t)
<1>1. Working /\ \A t \in Tables : ~Inserted(t)
  BY DEF Working, Inserted
<1>2. \A t \in Tables : buf[t] = OfTable(Held, t) /\ txn[t] = {}
  BY <1>1 DEF SinkInv, HeldWhole
<1>3. txn = Empty
  BY <1>2 DEF SinkInv, SinkTypeOK, Empty
<1>4. Held = buf[1]
  BY <1>2, FirstTable DEF Held
<1>5. QED
  BY <1>2, <1>3, <1>4

(* write(block) adds the block to what is held, in every table it touches. *)
LEMMA WriteKeeps ==
  ASSUME SinkInv, NEW h \in Blocks, \A g \in Held : g < h, Write(h)
  PROVE  SinkInv' /\ Working' /\ Held' = Held \union {h} /\ UNCHANGED <<db, progress, mode>>
<1> DEFINE b == Plus(buf, RowsOf(h))
<1>1. alive /\ sinkPc = "idle"
  BY DEF Write
<1>2. /\ buf' = b /\ sinkPc' \in {"idle", "connect"}
      /\ UNCHANGED <<mode, alive, table, span, txn, db, progress>>
  BY <1>1 DEF Write, FlushAll
<1>3. /\ txn = Empty /\ Held = buf[1] /\ SinkTypeOK
      /\ \A t \in Tables : buf[t] = OfTable(Held, t)
  BY <1>1, IdleHolds DEF SinkInv
<1>4. b \in [Tables -> SUBSET Blocks]
  BY <1>3 DEF Plus, RowsOf, SinkTypeOK
<1>5. Held' = Held \union {h} /\ Held \subseteq Blocks
  BY <1>2, <1>3, FirstTable DEF Held, Plus, RowsOf, Empty, SinkTypeOK
<1>6. \A t \in Tables : buf'[t] = OfTable(Held', t)
  BY <1>2, <1>3, <1>5 DEF Plus, RowsOf, OfTable
<1>7. SinkTypeOK'
  BY <1>2, <1>3, <1>4 DEF SinkTypeOK
<1>8. StoredWhole'
  BY <1>2 DEF SinkInv, StoredWhole, OfTable
<1>9. HeldWhole' /\ Working' /\ NoTransaction'
  BY <1>1, <1>2, <1>3, <1>6 DEF HeldWhole, Working, NoTransaction, Inserted, Empty
<1>10. Highest(Held', h)
  BY <1>5 DEF Highest
<1>11. FlushHasRows' /\ HeldHasHighest' /\ SpanIsHighest'
  BY <1>2, <1>5, <1>10 DEF FlushHasRows, HeldHasHighest, SpanIsHighest, Highest
<1>12. QED
  BY <1>2, <1>5, <1>7, <1>8, <1>9, <1>11 DEF SinkInv

(* flush() changes nothing of what is held.                                *)
LEMMA FlushKeeps ==
  ASSUME SinkInv, Flush
  PROVE  /\ SinkInv' /\ Working' /\ Held' = Held /\ UNCHANGED <<db, progress, mode>>
         /\ sinkPc' = "idle" => Held' = {}
<1>1. /\ alive /\ sinkPc = "idle"
      /\ buf' = buf /\ sinkPc' = IF buf = Empty THEN "idle" ELSE "connect"
      /\ UNCHANGED <<mode, alive, table, span, txn, db, progress>>
  BY DEF Flush, FlushAll
<1>2. /\ txn = Empty /\ Held = buf[1] /\ SinkTypeOK
      /\ \A t \in Tables : buf[t] = OfTable(Held, t)
  BY <1>1, IdleHolds DEF SinkInv
<1>3. Held' = Held
  BY <1>1 DEF Held
<1>4. Held = {} => buf = Empty
  BY <1>2 DEF OfTable, Empty, SinkTypeOK
<1>5. SinkTypeOK' /\ StoredWhole'
  BY <1>1, <1>2 DEF SinkTypeOK, SinkInv, StoredWhole, OfTable
<1>6. HeldWhole' /\ Working' /\ NoTransaction'
  BY <1>1, <1>2, <1>3 DEF HeldWhole, Working, NoTransaction, Inserted, OfTable, Empty
<1>7. FlushHasRows' /\ HeldHasHighest' /\ SpanIsHighest'
  BY <1>1, <1>3, <1>4 DEF SinkInv, FlushHasRows, HeldHasHighest, SpanIsHighest, Highest, Working
<1>8. sinkPc' = "idle" => Held' = {}
  BY <1>1, <1>2, <1>3, FirstTable DEF Empty
<1>9. QED
  BY <1>1, <1>3, <1>5, <1>6, <1>7, <1>8 DEF SinkInv

------------------------------------------------------------------------------
(* The steps of a flush.                                                   *)
LEMMA ConnectKeeps ==
  ASSUME SinkInv, Connect
  PROVE  SinkInv' /\ Working' /\ Held' = Held /\ UNCHANGED <<db, progress, mode>>
<1>1. /\ alive /\ sinkPc = "connect" /\ sinkPc' = "begin" /\ Working
      /\ span' = CHOOSE h \in HeldHeights : \A g \in HeldHeights : g <= h
      /\ UNCHANGED <<mode, alive, buf, table, txn, db, progress>>
  BY DEF Connect, Working
<1>2. /\ txn = Empty /\ Held = buf[1] /\ SinkTypeOK
      /\ \A t \in Tables : buf[t] = OfTable(Held, t)
  BY <1>1, IdleHolds DEF SinkInv
<1>3. HeldHeights = Held /\ Held \subseteq Blocks
  BY <1>2, FirstTable DEF HeldHeights, OfTable, SinkTypeOK
<1>4. PICK m \in Held : Highest(Held, m)
  BY <1>1 DEF SinkInv, FlushHasRows, HeldHasHighest
<1>5. Highest(Held, span')
  BY <1>1, <1>3, <1>4 DEF Highest
<1>6. Held' = Held
  BY <1>1 DEF Held
<1>7. SinkTypeOK' /\ StoredWhole'
  BY <1>1, <1>2, <1>3, <1>5 DEF SinkTypeOK, SinkInv, StoredWhole, OfTable, Highest
<1>8. HeldWhole' /\ Working' /\ NoTransaction'
  BY <1>1, <1>2, <1>6 DEF HeldWhole, Working, NoTransaction, Inserted, OfTable, Empty
<1>9. FlushHasRows' /\ HeldHasHighest' /\ SpanIsHighest'
  BY <1>1, <1>5, <1>6 DEF SinkInv, FlushHasRows, HeldHasHighest, SpanIsHighest, Highest, Working
<1>10. QED
  BY <1>1, <1>6, <1>7, <1>8, <1>9 DEF SinkInv

LEMMA BeginKeeps ==
  ASSUME SinkInv, Begin
  PROVE  SinkInv' /\ Working' /\ Held' = Held /\ UNCHANGED <<db, progress, mode>>
<1>1. /\ alive /\ sinkPc = "begin" /\ sinkPc' = "insert" /\ table' = 1 /\ Working
      /\ UNCHANGED <<mode, alive, buf, span, txn, db, progress>>
  BY DEF Begin, Working
<1>2. /\ txn = Empty /\ Held = buf[1] /\ SinkTypeOK
      /\ \A t \in Tables : buf[t] = OfTable(Held, t)
  BY <1>1, IdleHolds DEF SinkInv
<1>3. Held' = Held /\ 1 \in Tables
  BY <1>1, FirstTable DEF Held
<1>4. SinkTypeOK' /\ StoredWhole'
  BY <1>1, <1>2, <1>3 DEF SinkTypeOK, SinkInv, StoredWhole, OfTable
<1>5. \A t \in Tables : ~Inserted(t)'
  BY <1>1 DEF Inserted, Tables
<1>6. HeldWhole' /\ Working' /\ NoTransaction'
  BY <1>1, <1>2, <1>3, <1>5 DEF HeldWhole, Working, NoTransaction, OfTable, Empty
<1>7. FlushHasRows' /\ HeldHasHighest' /\ SpanIsHighest'
  BY <1>1, <1>3 DEF SinkInv, FlushHasRows, HeldHasHighest, SpanIsHighest, Highest, Working
<1>8. QED
  BY <1>1, <1>3, <1>4, <1>6, <1>7 DEF SinkInv

(* The rows of one table move from its buffer to the transaction.          *)
LEMMA InsertKeeps ==
  ASSUME SinkInv, Insert
  PROVE  SinkInv' /\ Working' /\ Held' = Held /\ UNCHANGED <<db, progress, mode>>
<1>1. /\ alive /\ sinkPc = "insert" /\ Working /\ SinkTypeOK
      /\ txn' = [txn EXCEPT ![table] = @ \union buf[table]]
      /\ buf' = [buf EXCEPT ![table] = {}]
      /\ UNCHANGED <<mode, alive, span, db, progress>>
  BY DEF Insert, Cleared, Working, SinkInv
<1>2. \/ table < TableCount /\ table' = table + 1 /\ sinkPc' = "insert"
      \/ /\ table = TableCount /\ table' = table
         /\ sinkPc' \in {"progress", "commit"}
  BY <1>1 DEF Insert, MoreTables, SinkTypeOK, Tables
<1>3. \A t \in Tables : Inserted(t)' <=> Inserted(t) \/ t = table
  BY <1>1, <1>2 DEF Inserted, SinkTypeOK, Tables
<1>4. \A t \in Tables :
        /\ buf[t] = IF Inserted(t) THEN {} ELSE OfTable(Held, t)
        /\ txn[t] = IF Inserted(t) THEN OfTable(Held, t) ELSE {}
  BY <1>1 DEF SinkInv, HeldWhole
<1>5. ~Inserted(table)
  BY <1>1 DEF Inserted, SinkTypeOK, Tables
<1>6. \A t \in Tables :
        /\ buf'[t] = IF Inserted(t)' THEN {} ELSE OfTable(Held, t)
        /\ txn'[t] = IF Inserted(t)' THEN OfTable(Held, t) ELSE {}
  BY <1>1, <1>3, <1>4, <1>5 DEF SinkTypeOK
<1>7. Held' = Held
  <2>1. 1 \in Tables
    BY FirstTable
  <2>2. Held = OfTable(Held, 1)
    BY <1>4, <2>1 DEF Held
  <2>3. Held' = OfTable(Held, 1)
    <3> DEFINE old == OfTable(Held, 1)
    <3> HIDE DEF old
    <3>1. /\ buf'[1] = IF Inserted(1)' THEN {} ELSE old
          /\ txn'[1] = IF Inserted(1)' THEN old ELSE {}
      BY <1>6, <2>1 DEF old
    <3>2. buf'[1] \union txn'[1] = old
      BY <3>1
    <3>3. QED
      BY <3>2 DEF old, Held
  <2>4. QED
    BY <2>2, <2>3
<1>8. SinkTypeOK' /\ StoredWhole'
  <2>1. txn' \in [Tables -> SUBSET Blocks] /\ buf' \in [Tables -> SUBSET Blocks]
    BY <1>1 DEF SinkTypeOK
  <2>2. table' \in Tables /\ sinkPc' \in {"insert", "progress", "commit"}
    BY <1>1, <1>2 DEF SinkTypeOK, Tables
  <2>3. SinkTypeOK'
    BY <1>1, <2>1, <2>2 DEF SinkTypeOK
  <2>4. StoredWhole'
    BY <1>1 DEF SinkInv, StoredWhole, OfTable
  <2>5. QED
    BY <2>3, <2>4
<1>9. HeldWhole' /\ Working' /\ NoTransaction'
  BY <1>1, <1>2, <1>6, <1>7 DEF HeldWhole, Working, NoTransaction, OfTable
<1>10. FlushHasRows' /\ HeldHasHighest' /\ SpanIsHighest'
  BY <1>1, <1>2, <1>7 DEF SinkInv, FlushHasRows, HeldHasHighest, SpanIsHighest, Highest, Working
<1>11. QED
  BY <1>1, <1>7, <1>8, <1>9, <1>10 DEF SinkInv

LEMMA UpsertProgressKeeps ==
  ASSUME SinkInv, UpsertProgress
  PROVE  SinkInv' /\ Working' /\ Held' = Held /\ UNCHANGED <<db, progress, mode>>
<1>1. /\ alive /\ sinkPc = "progress" /\ sinkPc' = "commit" /\ Working /\ SinkTypeOK
      /\ UNCHANGED <<mode, alive, buf, table, span, txn, db, progress>>
  BY DEF UpsertProgress, Working, SinkInv
<1>2. Held' = Held /\ \A t \in Tables : Inserted(t)' <=> Inserted(t)
  BY <1>1 DEF Held, Inserted
<1>3. SinkTypeOK' /\ StoredWhole'
  BY <1>1 DEF SinkTypeOK, SinkInv, StoredWhole, OfTable
<1>4. HeldWhole' /\ Working' /\ NoTransaction'
  BY <1>1, <1>2 DEF SinkInv, HeldWhole, Working, NoTransaction, OfTable, Empty
<1>5. FlushHasRows' /\ HeldHasHighest' /\ SpanIsHighest'
  BY <1>1, <1>2 DEF SinkInv, FlushHasRows, HeldHasHighest, SpanIsHighest, Highest, Working
<1>6. QED
  BY <1>1, <1>2, <1>3, <1>4, <1>5 DEF SinkInv

(* COMMIT stores every row of what is held, and the height of the highest. *)
Stores ==
  /\ db' = [t \in Tables |-> db[t] \union OfTable(Held, t)]
  /\ progress' = IF mode = "batch-insert" THEN span ELSE progress
  /\ Held # {} /\ Highest(Held, span)

LEMMA CommitStores ==
  ASSUME SinkInv, Working, sinkPc = "commit", Committed
  PROVE  /\ Stores /\ buf = Empty /\ StoredWhole'
         /\ db' \in [Tables -> SUBSET Blocks]
         /\ progress' \in Blocks \union {NoProgress}
         /\ db'[1] = db[1] \union Held /\ Held \subseteq Blocks
<1>1. \A t \in Tables : buf[t] = {} /\ txn[t] = OfTable(Held, t)
  BY DEF SinkInv, HeldWhole, Inserted
<1>2. buf = Empty /\ SinkTypeOK /\ Held \subseteq Blocks
  BY <1>1, FirstTable DEF SinkInv, SinkTypeOK, Empty, Held
<1>3. db' = [t \in Tables |-> db[t] \union OfTable(Held, t)]
  BY <1>1 DEF Committed, Plus
<1>4. Held # {} /\ Highest(Held, span)
  BY DEF SinkInv, FlushHasRows, SpanIsHighest
<1>5. db'[1] = db[1] \union Held
  BY <1>2, <1>3, FirstTable
<1>6. StoredWhole'
  BY <1>2, <1>3, <1>5 DEF SinkInv, StoredWhole, OfTable
<1>7. db' \in [Tables -> SUBSET Blocks]
  BY <1>2, <1>3 DEF SinkTypeOK, OfTable
<1>8. progress' \in Blocks \union {NoProgress}
  BY <1>2 DEF Committed, SinkTypeOK
<1>9. Stores
  BY <1>3, <1>4 DEF Stores, Committed
<1>10. QED
  BY <1>2, <1>5, <1>6, <1>7, <1>8, <1>9

LEMMA CommitKeeps ==
  ASSUME SinkInv, Commit
  PROVE  SinkInv' /\ Working /\ Working' /\ Held' = {} /\ Stores /\ mode' = mode
<1>1. /\ alive /\ sinkPc = "commit" /\ sinkPc' = "idle" /\ Committed /\ txn' = Empty
      /\ Working /\ SinkTypeOK
      /\ UNCHANGED <<mode, alive, buf, table, span>>
  BY DEF Commit, Committed, Working, SinkInv
<1>2. /\ Stores /\ buf' = Empty /\ StoredWhole'
      /\ db' \in [Tables -> SUBSET Blocks]
      /\ progress' \in Blocks \union {NoProgress}
  BY <1>1, CommitStores
<1>3. Held' = {}
  BY <1>1, <1>2, FirstTable DEF Held, Empty
<1>4. SinkTypeOK' /\ HeldWhole' /\ Working' /\ NoTransaction'
  BY <1>1, <1>2, <1>3 DEF SinkTypeOK, HeldWhole, Working, NoTransaction, OfTable, Empty
<1>5. FlushHasRows' /\ HeldHasHighest' /\ SpanIsHighest'
  BY <1>1, <1>3 DEF FlushHasRows, HeldHasHighest, SpanIsHighest
<1>6. QED
  BY <1>1, <1>2, <1>3, <1>4, <1>5 DEF SinkInv

LEMMA SinkStepKeeps ==
  ASSUME SinkInv, SinkStep
  PROVE  /\ SinkInv' /\ Working /\ Working' /\ mode' = mode
         /\ \/ Held' = Held /\ UNCHANGED <<db, progress>> /\ sinkPc' # "idle"
            \/ Held' = {} /\ Stores
<1>1. Working
  BY DEF SinkStep, Connect, Begin, Insert, UpsertProgress, Commit, Working
<1>2. Connect \/ Begin \/ Insert \/ UpsertProgress => sinkPc' # "idle"
  BY DEF Connect, Begin, Insert, UpsertProgress
<1>3. QED
  BY <1>1, <1>2, ConnectKeeps, BeginKeeps, InsertKeeps, UpsertProgressKeeps, CommitKeeps DEF SinkStep

------------------------------------------------------------------------------
(* What fails or dies loses what is held, unless the COMMIT under way was  *)
(* executed; the database stays whole either way.                          *)
LEMMA FailsKeeps ==
  ASSUME SinkInv, FlushFails \/ Kill
  PROVE  /\ SinkInv' /\ ~Working' /\ mode' = mode
         /\ UNCHANGED <<db, progress>> \/ (Working /\ Stores)
<1>1. /\ alive /\ UNCHANGED <<mode, buf, table, span>> /\ txn' = Empty
      /\ ~Working' /\ SinkTypeOK
      /\ \/ UNCHANGED <<db, progress>>
         \/ sinkPc = "commit" /\ Committed
      /\ alive' \in BOOLEAN /\ sinkPc' \in {sinkPc, "failed"}
  BY DEF FlushFails, Kill, Working, RolledBack, Committed, memVars, SinkInv, SinkTypeOK
<1>2. /\ StoredWhole'
      /\ db' \in [Tables -> SUBSET Blocks]
      /\ progress' \in Blocks \union {NoProgress}
      /\ UNCHANGED <<db, progress>> \/ (Working /\ Stores)
  <2>1. CASE UNCHANGED <<db, progress>>
    BY <1>1, <2>1 DEF SinkInv, SinkTypeOK, StoredWhole, OfTable
  <2>2. CASE sinkPc = "commit" /\ Committed
    <3>1. Working
      BY <1>1, <2>2 DEF Working
    <3>2. QED
      BY <2>2, <3>1, CommitStores
  <2>3. QED
    BY <1>1, <2>1, <2>2
<1>3. SinkTypeOK' /\ NoTransaction'
  BY <1>1, <1>2 DEF SinkTypeOK, NoTransaction, Empty
<1>4. QED
  BY <1>1, <1>2, <1>3 DEF SinkInv, HeldWhole, FlushHasRows, HeldHasHighest, SpanIsHighest

(* A new process holds nothing.                                            *)
LEMMA RestartKeeps ==
  ASSUME SinkInv, Restart
  PROVE  /\ SinkInv' /\ ~Working /\ Working' /\ Held' = {}
         /\ UNCHANGED <<db, progress, mode>>
<1>1. /\ ~alive /\ alive' = TRUE /\ buf' = Empty /\ sinkPc' = "idle" /\ table' = 1
      /\ span' = NoProgress /\ txn' = txn /\ txn = Empty /\ SinkTypeOK
      /\ UNCHANGED <<db, progress, mode>>
  BY DEF Restart, dbVars, SinkInv, NoTransaction, Working
<1>2. Held' = {} /\ 1 \in Tables
  BY <1>1, FirstTable DEF Held, Empty
<1>3. SinkTypeOK' /\ StoredWhole'
  BY <1>1, <1>2 DEF SinkTypeOK, SinkInv, StoredWhole, OfTable, Empty
<1>4. HeldWhole' /\ NoTransaction' /\ Working'
  BY <1>1, <1>2 DEF HeldWhole, NoTransaction, Working, Inserted, OfTable, Empty
<1>5. QED
  BY <1>1, <1>2, <1>3, <1>4
     DEF SinkInv, FlushHasRows, HeldHasHighest, SpanIsHighest, Working
==============================================================================
