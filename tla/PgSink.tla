------------------------------- MODULE PgSink -------------------------------
(***************************************************************************)
(* The PostgreSQL sink: class PostgresSink of src/sink/postgres.ts with    *)
(* upsertProgress of src/db/progress.ts, and the database it writes to.    *)
(*                                                                         *)
(* A block is a set of rows, one per table it touches; a row is named by   *)
(* its height.  The tables are numbered in the order flushAll inserts      *)
(* them, and table 1 is core.blocks, where every block has a row.          *)
(*                                                                         *)
(* flushAll is a sequence of awaited calls: connect, ensureCorePartitions  *)
(* and BEGIN, one insert per table (after which that table's buffer is     *)
(* emptied), upsertProgress, COMMIT.  Each is an action here, because each *)
(* may fail and the process may die between any two of them.               *)
(*                                                                         *)
(* In block-atomic mode the rows of the one block being written take the   *)
(* place of the buffers, and no progress is kept.  The class has that      *)
(* mode; createSink looks for it under a name main() does not pass, so the *)
(* program itself always runs in batch-insert mode.                        *)
(***************************************************************************)
EXTENDS Integers, FiniteSets

CONSTANTS
  Blocks,     \* the heights that exist
  TableCount, \* the number of tables
  TablesOf,   \* the tables each block has rows in
  BatchSize,  \* the flush threshold of each buffer, this.batchSizes
  Modes       \* the modes a sink may be created with

Tables == 1..TableCount

ASSUME BlocksAssumption == Blocks \subseteq Nat
ASSUME TablesAssumption ==
  /\ TableCount \in Nat \ {0}
  /\ TablesOf \in [Blocks -> SUBSET Tables]
  /\ \A b \in Blocks : 1 \in TablesOf[b]
ASSUME BatchAssumption == BatchSize \in [Tables -> Nat \ {0}]
ASSUME ModesAssumption == Modes \subseteq {"batch-insert", "block-atomic"}

VARIABLES
  mode,      \* this.mode
  alive,     \* the process runs
  buf,       \* the rows held in memory, per table
  sinkPc,    \* the call flushAll (or persistBlockAtomic) awaits
  table,     \* the table being inserted
  span,      \* maxH of the rows being flushed
  txn,       \* the rows inserted by the open transaction, per table
  db,        \* the committed rows, per table
  progress   \* the committed core.indexer_progress.last_height

memVars == <<buf, sinkPc, table, span>>
dbVars == <<txn, db, progress>>
sinkVars == <<mode, alive, buf, sinkPc, table, span, txn, db, progress>>

NoProgress == -1
Empty == [t \in Tables |-> {}]
RowsOf(b) == [t \in Tables |-> IF t \in TablesOf[b] THEN {b} ELSE {}]
Plus(f, g) == [t \in Tables |-> f[t] \union g[t]]
HeldHeights == UNION {buf[t] : t \in Tables}

MemInit == buf = Empty /\ sinkPc = "idle" /\ table = 1 /\ span = NoProgress
SinkInit ==
  /\ mode \in Modes
  /\ alive = TRUE
  /\ MemInit
  /\ txn = Empty /\ db = Empty /\ progress = NoProgress

------------------------------------------------------------------------------
(* flushAll is entered with the buffers b; it returns at once if all are   *)
(* empty, and otherwise asks for a connection.                             *)
FlushAll(b) ==
  /\ buf' = b
  /\ sinkPc' = IF b = Empty THEN "idle" ELSE "connect"
  /\ UNCHANGED <<mode, alive, table, span, txn, db, progress>>

(* write(block): buffer its rows, and flush if a buffer is full.           *)
NeedFlush(b) == \E t \in Tables : Cardinality(b[t]) >= BatchSize[t]

Write(h) ==
  /\ alive /\ sinkPc = "idle"
  /\ LET b == Plus(buf, RowsOf(h))
     IN IF mode = "block-atomic" \/ NeedFlush(b)
          THEN FlushAll(b)
          ELSE /\ buf' = b
               /\ UNCHANGED <<mode, alive, sinkPc, table, span, txn, db, progress>>

(* flush(): called by followLoop and main when syncRange has returned; a   *)
(* no-op in block-atomic mode, where nothing is buffered.                  *)
FlushIfFull ==  \* mutant: what is below the threshold stays in memory
  /\ alive /\ sinkPc = "idle"
  /\ IF NeedFlush(buf) THEN FlushAll(buf) ELSE UNCHANGED sinkVars

Flush ==
  /\ alive /\ sinkPc = "idle"
  /\ FlushAll(buf)

(* pool.connect() has answered; the heights of the rows give the span.     *)
Connect ==
  /\ alive /\ sinkPc = "connect"
  /\ span' = CHOOSE h \in HeldHeights : \A g \in HeldHeights : g <= h
  /\ sinkPc' = "begin"
  /\ UNCHANGED <<mode, alive, buf, table, txn, db, progress>>

(* ensureCorePartitions and BEGIN have answered.                           *)
Begin ==
  /\ alive /\ sinkPc = "begin"
  /\ sinkPc' = "insert" /\ table' = 1
  /\ UNCHANGED <<mode, alive, buf, span, txn, db, progress>>

(* The insert of one table has answered, and its buffer is emptied: before *)
(* the transaction is committed.                                           *)
MoreTablesPastEnd == table <= TableCount   \* mutant
LastTableMissed == table + 1 < TableCount  \* mutant
MoreTables == table < TableCount

AllCleared == Empty  \* mutant
Cleared == [buf EXCEPT ![table] = {}]

Insert ==
  /\ alive /\ sinkPc = "insert"
  /\ txn' = [txn EXCEPT ![table] = @ \union buf[table]]
  /\ buf' = Cleared
  /\ IF MoreTables
       THEN table' = table + 1 /\ sinkPc' = sinkPc
       ELSE /\ table' = table
            /\ sinkPc' = IF mode = "batch-insert" THEN "progress" ELSE "commit"
  /\ UNCHANGED <<mode, alive, span, db, progress>>

(* upsertProgress has answered: the new last_height is part of the         *)
(* transaction, which from now on is waiting for its COMMIT.               *)
UpsertProgressOutside ==  \* mutant: not part of the transaction
  /\ alive /\ sinkPc = "progress"
  /\ sinkPc' = "commit"
  /\ progress' = span
  /\ UNCHANGED <<mode, alive, buf, table, span, txn, db>>

UpsertProgress ==
  /\ alive /\ sinkPc = "progress"
  /\ sinkPc' = "commit"
  /\ UNCHANGED <<mode, alive, buf, table, span, txn, db, progress>>

(* What the server does with COMMIT: the rows are added, those whose key   *)
(* exists are left alone, and last_height is overwritten.                  *)
Committed ==
  /\ db' = Plus(db, txn)
  /\ progress' = IF mode = "batch-insert" THEN span ELSE progress
  /\ txn' = Empty

RowsKept ==  \* mutant: no BEGIN, each insert commits by itself
  /\ db' = Plus(db, txn)
  /\ txn' = Empty /\ UNCHANGED progress

RolledBack == txn' = Empty /\ UNCHANGED <<db, progress>>

Commit ==
  /\ alive /\ sinkPc = "commit"
  /\ Committed
  /\ sinkPc' = "idle"
  /\ UNCHANGED <<mode, alive, buf, table, span>>

(* The awaited call rejects and flushAll rejects with it, after ROLLBACK.  *)
(* When it is the COMMIT, the server may have executed it all the same.    *)
(* The buffers stay as they are, and nothing uses them again: neither      *)
(* syncRange nor main catches the error, so the process is about to end.   *)
FlushFails ==
  /\ alive /\ sinkPc \notin {"idle", "failed"}
  /\ \/ RolledBack
     \/ sinkPc = "commit" /\ Committed
  /\ sinkPc' = "failed"
  /\ UNCHANGED <<mode, alive, buf, table, span>>

(* The process ends (an unhandled error; process.exit on SIGINT, SIGTERM): *)
(* the server rolls back, or has already executed a COMMIT under way.      *)
Kill ==
  /\ alive
  /\ alive' = FALSE
  /\ \/ RolledBack
     \/ sinkPc = "commit" /\ Committed
  /\ UNCHANGED memVars /\ UNCHANGED mode

(* A new process: empty buffers, the same database.                        *)
Restart ==
  /\ ~alive
  /\ alive' = TRUE
  /\ buf' = Empty /\ sinkPc' = "idle" /\ table' = 1 /\ span' = NoProgress
  /\ UNCHANGED dbVars /\ UNCHANGED mode

SinkStep == Connect \/ Begin \/ Insert \/ UpsertProgress \/ Commit

------------------------------------------------------------------------------
(* The variables of the sink have the shapes the code gives them.          *)
SinkTypeOK ==
  /\ mode \in Modes
  /\ alive \in BOOLEAN
  /\ buf \in [Tables -> SUBSET Blocks]
  /\ sinkPc \in {"idle", "connect", "begin", "insert", "progress", "commit",
                 "failed"}
  /\ table \in Tables
  /\ span \in Blocks \union {NoProgress}
  /\ txn \in [Tables -> SUBSET Blocks]
  /\ db \in [Tables -> SUBSET Blocks]
  /\ progress \in Blocks \union {NoProgress}
==============================================================================
