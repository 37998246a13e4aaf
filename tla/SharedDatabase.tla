--------------------------- MODULE SharedDatabase ---------------------------
(***************************************************************************)
(* Several indexer processes on one database with one progress id, at the  *)
(* same time: a container that is replaced while the old one still runs,   *)
(* or one that is started again before the server has noticed that the     *)
(* connection of its predecessor is gone.                                  *)
(*                                                                         *)
(* Each process resumes from the progress row, writes its blocks in        *)
(* ascending order and flushes them: ensureCorePartitions of src/db/       *)
(* partitions.ts under its advisory lock, statement by statement, and then *)
(* the transaction of flushAll (src/sink/postgres.ts), row by row.  What a *)
(* statement waits for is PostgreSQL's part: the advisory lock, table      *)
(* locks (an INSERT has one on the parent of the partitions until its      *)
(* transaction ends, CREATE TABLE ... PARTITION OF needs it alone), and    *)
(* rows with the same key that an open transaction has inserted or locked. *)
(***************************************************************************)
EXTENDS TableInsert, FiniteSets

CONSTANTS
  Processes,     \* the processes, one connection each
  Shown,         \* the tables of the model, among those of TableOrder
  RangeOrder,    \* those partitioned by height, in the order of partitions.ts
  MaxHeight,     \* bound of the model: the latest height of the chain
  TablesOf,      \* the tables each height has rows in
  HashModulus,   \* app.events.hash_modulus of each session (code: 16 if unset)
  MaxDead,       \* bound of the model: no kill when so many are dead
  BootModulus,   \* the hash partitions the database was created with (16)
  NoOwner        \* of the advisory lock

FIRST_BLOCK == 1
Heights == FIRST_BLOCK..MaxHeight

ASSUME SharedAssumption ==
  /\ Shown \subseteq TableNames /\ "blocks" \in Shown
  /\ RangeOrder \in Seq(Shown)
  /\ {RangeOrder[i] : i \in 1..Len(RangeOrder)} = Shown \intersect RANGE_TABLES
  /\ MaxHeight \in Nat /\ MaxDead \in Nat
  /\ TablesOf \in [Heights -> SUBSET Shown]
  /\ \A h \in Heights : "blocks" \in TablesOf[h]
  /\ HashModulus \in [Processes -> Nat \ {0}] /\ BootModulus \in Nat \ {0}
  /\ NoOwner \notin Processes

VARIABLES
  process,     \* "new", "up" or "dead"
  pc,          \* what the session of each process is at, or "idle"
  written,     \* the last height given to its sink
  flushed,     \* the last height it has committed: what lies above is buffered
  at,          \* ensureCorePartitions: the partition it is about to create
  tab,         \* the table being inserted, by its place in TableOrder; 0: none yet
  sent,        \* the rows its open transaction has sent
  txn,         \* those of them it has inserted or locked
  advisory,    \* the session that holds pg_advisory_lock(0x70617274)
  parts,       \* the partitions that exist
  db,          \* the committed rows: <<table, height>>
  progress     \* last_height of the one progress id

vars == <<process, pc, written, flushed, at, tab, sent, txn,
          advisory, parts, db, progress>>
memory == <<process, written, flushed>>
place == <<at, tab, sent>>
shared == <<advisory, parts, db, progress>>

NoProgress == -1

------------------------------------------------------------------------------
(* Partitions: a range of heights of one table, or a remainder of the hash *)
(* of events.  CREATE TABLE IF NOT EXISTS looks at the name only.          *)
RangePartition(t, from) == [table |-> t, name |-> from, modulus |-> 0]
HashPartition(modulus, r) == [table |-> "events", name |-> r, modulus |-> modulus]
SameName(p, q) == p.table = q.table /\ p.name = q.name
Overlap(p, q) ==
  /\ p.table = q.table
  /\ IF p.modulus = 0 THEN p.name = q.name
     ELSE \E x \in 0..(p.modulus * q.modulus) :
            x % p.modulus = p.name /\ x % q.modulus = q.name

Bootstrapped ==
  {RangePartition(t, 0) : t \in Shown \intersect RANGE_TABLES}
    \union {HashPartition(BootModulus, r) : r \in 0..(BootModulus - 1)}

(* A modulus above the one the database was created with asks for hash     *)
(* partitions that overlap those it has: then every flush fails.           *)
(*                                                                         *)
(* The partitions a flush asks for, in order: all hash partitions, then    *)
(* base after base those of every range table.                             *)
minH(p) == flushed[p] + 1
maxH(p) == written[p]
RangeCount(p) ==
  Len(RangeOrder) * ((EndBase(maxH(p)) - PartitionFrom(minH(p))) \div STEP + 1)
PartitionCount(p) == HashModulus[p] + RangeCount(p)
Wanted(p) ==
  IF at[p] <= HashModulus[p] THEN HashPartition(HashModulus[p], at[p] - 1)
  ELSE LET i == at[p] - HashModulus[p] - 1
       IN RangePartition(RangeOrder[(i % Len(RangeOrder)) + 1],
                         PartitionFrom(minH(p)) + STEP * (i \div Len(RangeOrder)))

------------------------------------------------------------------------------
(* What the statement of a session has to wait for.                        *)
Others(p) == Processes \ {p}

(* The rows it has buffered for a table; the tables it has rows for.       *)
RowsFor(p, t) == {h \in minH(p)..maxH(p) : t \in TablesOf[h]}
NextTables(p) == {i \in (tab[p] + 1)..Len(TableOrder) : RowsFor(p, TableOrder[i]) # {}}
NextTable(p) == CHOOSE i \in NextTables(p) : \A j \in NextTables(p) : i <= j

(* An INSERT sends the rows of its table in the order of the buffer, which *)
(* is the order of the heights.                                            *)
Left(p) ==
  {h \in RowsFor(p, TableOrder[tab[p]]) : <<TableOrder[tab[p]], h>> \notin sent[p]}
NextRowsAnyOrder(p) == Left(p)  \* mutant
NextRows(p) == {h \in Left(p) : \A g \in Left(p) : h <= g}

(* DO NOTHING needs no lock on a row that is committed; DO UPDATE does.    *)
Locks(row) == row \notin db \/ Flusher[row[1]].updated # {}

HasTableLock(q, t) == \E i \in 1..tab[q] : TableOrder[i] = t /\ RowsFor(q, t) # {}
AdvisoryGranted(p) == advisory \in {NoOwner, p}
UnlockedLate == advisory  \* mutant: released by nobody
Unlocked == NoOwner
LockHolders(p) == IF AdvisoryGranted(p) THEN {} ELSE {advisory}
TableHolders(p) == {q \in Others(p) : HasTableLock(q, Wanted(p).table)}
RowHolders(p, h) ==
  LET row == <<TableOrder[tab[p]], h>>
  IN {q \in Others(p) : row \in txn[q] /\ Locks(row)}
ProgressHolders(p) == {q \in Others(p) : pc[q] = "commit"}

(* A request for a table lock queues behind one that already waits.        *)
Ahead(p, t) ==
  {q \in Others(p) : pc[q] = "create" /\ Wanted(q).table = t /\ TableHolders(q) # {}}

WaitsFor(p) ==
  CASE pc[p] = "lock"     -> LockHolders(p)
    [] pc[p] = "create"   -> TableHolders(p)
    [] pc[p] = "table"    -> Ahead(p, TableOrder[NextTable(p)])
    [] pc[p] = "rows"     -> UNION {RowHolders(p, h) : h \in NextRows(p)}
    [] pc[p] = "progress" -> ProgressHolders(p)
    [] OTHER              -> {}

------------------------------------------------------------------------------
Init ==
  /\ process = [p \in Processes |-> "new"]
  /\ pc = [p \in Processes |-> "idle"]
  /\ written = [p \in Processes |-> FIRST_BLOCK - 1]
  /\ flushed = [p \in Processes |-> FIRST_BLOCK - 1]
  /\ at = [p \in Processes |-> 0]
  /\ tab = [p \in Processes |-> 0]
  /\ sent = [p \in Processes |-> {}]
  /\ txn = [p \in Processes |-> {}]
  /\ advisory = NoOwner
  /\ parts = Bootstrapped
  /\ db = {}
  /\ progress = NoProgress

Goes(p, from, to) == pc[p] = from /\ pc' = [pc EXCEPT ![p] = to]
Up(p) == process[p] = "up"

(* A process resumes above the progress it reads.                          *)
Start(p) ==
  /\ process[p] = "new"
  /\ process' = [process EXCEPT ![p] = "up"]
  /\ LET resumed == IF progress = NoProgress THEN FIRST_BLOCK - 1 ELSE progress
     IN /\ written' = [written EXCEPT ![p] = resumed]
        /\ flushed' = [flushed EXCEPT ![p] = resumed]
  /\ UNCHANGED <<pc, place, txn, shared>>

(* sink.write of the next block; whether it fills a buffer and flushes     *)
(* depends on the thresholds.                                              *)
WriteBlock(p) ==
  /\ Up(p) /\ written[p] < MaxHeight
  /\ \E to \in {"idle", "lock"} : Goes(p, "idle", to)
  /\ written' = [written EXCEPT ![p] = @ + 1]
  /\ UNCHANGED <<process, flushed, place, txn, shared>>

(* sink.flush after a round of following.                                  *)
FlushRound(p) ==
  /\ Up(p) /\ written[p] > flushed[p]
  /\ Goes(p, "idle", "lock")
  /\ UNCHANGED <<memory, place, txn, shared>>

------------------------------------------------------------------------------
(* ensureCorePartitions, before the transaction: each CREATE TABLE commits *)
(* by itself.  The statements of a dead process that were under way are    *)
(* executed all the same.                                                  *)
TakeLockUnasked(p) ==  \* mutant: no pg_advisory_lock
  /\ Goes(p, "lock", "check")
  /\ at' = [at EXCEPT ![p] = 1]
  /\ UNCHANGED <<memory, tab, sent, txn, shared>>
TakeLock(p) ==
  /\ WaitsFor(p) = {}
  /\ Goes(p, "lock", "check")
  /\ advisory' = p
  /\ at' = [at EXCEPT ![p] = 1]
  /\ UNCHANGED <<memory, tab, sent, txn, parts, db, progress>>

(* CREATE TABLE IF NOT EXISTS looks for the name, and is done if it is     *)
(* there; else it waits for the lock on the parent.                        *)
AfterPartition(p) == IF at[p] = PartitionCount(p) THEN "unlock" ELSE "check"
Exists(p) == \E q \in parts : SameName(q, Wanted(p))
Clashes(p) == \E q \in parts : SameName(q, Wanted(p)) \/ Overlap(q, Wanted(p))

SkipPartition(p) ==
  /\ Up(p) /\ pc[p] = "check" /\ Exists(p)
  /\ Goes(p, "check", AfterPartition(p))
  /\ at' = [at EXCEPT ![p] = @ + 1]
  /\ UNCHANGED <<memory, tab, sent, txn, shared>>

AskPartition(p) ==
  /\ Up(p) /\ pc[p] = "check" /\ ~Exists(p)
  /\ Goes(p, "check", "create")
  /\ UNCHANGED <<memory, place, txn, shared>>

CreatePartition(p) ==
  /\ pc[p] = "create" /\ WaitsFor(p) = {} /\ ~Clashes(p)
  /\ Goes(p, "create", AfterPartition(p))
  /\ parts' = parts \union {Wanted(p)}
  /\ at' = [at EXCEPT ![p] = @ + 1]
  /\ UNCHANGED <<memory, tab, sent, txn, advisory, db, progress>>

AfterTable(p) == IF NextTables(p) = {} THEN "progress" ELSE "table"

(* pg_advisory_unlock, and then BEGIN.                                     *)
Unlock(p) ==
  /\ Up(p)
  /\ Goes(p, "unlock", AfterTable(p))
  /\ advisory' = Unlocked
  /\ at' = [at EXCEPT ![p] = 0]
  /\ UNCHANGED <<memory, tab, sent, txn, parts, db, progress>>

------------------------------------------------------------------------------
(* The transaction.                                                        *)
StartTable(p) ==
  /\ Up(p) /\ pc[p] = "table" /\ WaitsFor(p) = {}
  /\ Goes(p, "table", "rows")
  /\ tab' = [tab EXCEPT ![p] = NextTable(p)]
  /\ UNCHANGED <<memory, at, sent, txn, shared>>

InsertRow(p, h) ==
  /\ pc[p] = "rows" /\ h \in NextRows(p) /\ RowHolders(p, h) = {}
  /\ LET row == <<TableOrder[tab[p]], h>>
     IN /\ sent' = [sent EXCEPT ![p] = @ \union {row}]
        /\ txn' = [txn EXCEPT ![p] = IF Locks(row) THEN @ \union {row} ELSE @]
  /\ Goes(p, "rows", IF Left(p) = {h} THEN AfterTable(p) ELSE "rows")
  /\ UNCHANGED <<memory, at, tab, shared>>

UpsertProgressOutside(p) ==  \* mutant: not part of the transaction
  /\ Up(p) /\ pc[p] = "progress" /\ WaitsFor(p) = {}
  /\ Goes(p, "progress", "commit")
  /\ progress' = maxH(p)
  /\ UNCHANGED <<memory, place, txn, advisory, parts, db>>
UpsertProgress(p) ==
  /\ Up(p) /\ pc[p] = "progress" /\ WaitsFor(p) = {}
  /\ Goes(p, "progress", "commit")
  /\ UNCHANGED <<memory, place, txn, shared>>

(* COMMIT or ROLLBACK ends the transaction, and the session's locks.       *)
ReleasedPartly(p) ==  \* mutant: no ROLLBACK, the row locks stay
  /\ tab' = [tab EXCEPT ![p] = 0]
  /\ sent' = [sent EXCEPT ![p] = {}]
  /\ UNCHANGED txn
Released(p) ==
  /\ tab' = [tab EXCEPT ![p] = 0]
  /\ sent' = [sent EXCEPT ![p] = {}]
  /\ txn' = [txn EXCEPT ![p] = {}]

(* Executed even if the process dies while it is under way.                *)
Commit(p) ==
  /\ Goes(p, "commit", "idle")
  /\ db' = db \union txn[p]
  /\ progress' = maxH(p)
  /\ flushed' = [flushed EXCEPT ![p] = written[p]]
  /\ Released(p)
  /\ UNCHANGED <<process, written, at, advisory, parts>>

------------------------------------------------------------------------------
(* Failures.  The flushers after that of the blocks set a lock_timeout of  *)
(* 5 s for the rest of the transaction; a clash of partitions is an error  *)
(* too.  The server rolls back; flushAll rethrows, and main ends the       *)
(* process.                                                                *)
Timed(p) ==
  LET started == 1..(IF pc[p] = "table" THEN NextTable(p) ELSE tab[p])
  IN \E i \in started : TableOrder[i] # "blocks" /\ RowsFor(p, TableOrder[i]) # {}

WaitTimesOut(p) ==
  /\ pc[p] \in {"table", "rows", "progress"} /\ WaitsFor(p) # {} /\ Timed(p)
  /\ Goes(p, pc[p], "failed")
  /\ Released(p)
  /\ UNCHANGED <<memory, at, shared>>

(* The finally clause of ensureCorePartitions unlocks all the same, if the *)
(* process is still there.                                                 *)
CreateFails(p) ==
  /\ pc[p] = "create" /\ WaitsFor(p) = {} /\ Clashes(p)
  /\ Goes(p, "create", "failed")
  /\ advisory' = IF Up(p) THEN Unlocked ELSE advisory
  /\ UNCHANGED <<memory, place, txn, parts, db, progress>>

Kill(p) ==
  /\ Up(p) /\ Cardinality({q \in Processes : process[q] = "dead"}) < MaxDead
  /\ process' = [process EXCEPT ![p] = "dead"]
  /\ UNCHANGED <<pc, written, flushed, place, txn, shared>>

(* The server ends a session when it notices that its client is gone; one  *)
(* that waits for a lock does not look.                                    *)
EndSession(p) ==
  /\ pc' = [pc EXCEPT ![p] = "ended"]
  /\ process' = [process EXCEPT ![p] = "dead"]
  /\ advisory' = IF advisory = p THEN NoOwner ELSE advisory
  /\ at' = [at EXCEPT ![p] = 0]
  /\ Released(p)
  /\ UNCHANGED <<written, flushed, parts, db, progress>>

GivesUp(p) == Up(p) /\ pc[p] = "failed" /\ EndSession(p)

SessionEnds(p) ==
  /\ process[p] = "dead" /\ pc[p] # "ended" /\ WaitsFor(p) = {}
  /\ EndSession(p)

SessionStep(p) ==
  \/ TakeLock(p) \/ SkipPartition(p) \/ AskPartition(p) \/ CreatePartition(p)
  \/ Unlock(p) \/ StartTable(p)
  \/ \E h \in Heights : InsertRow(p, h)
  \/ UpsertProgress(p) \/ Commit(p)
  \/ WaitTimesOut(p) \/ CreateFails(p) \/ GivesUp(p) \/ SessionEnds(p)

Next ==
  \E p \in Processes :
    Start(p) \/ WriteBlock(p) \/ FlushRound(p) \/ SessionStep(p) \/ Kill(p)

(* A statement that need not wait is executed, and its answer handled.     *)
Spec == Init /\ [][Next]_vars /\ \A p \in Processes : WF_vars(SessionStep(p))

------------------------------------------------------------------------------
TypeOK ==
  /\ process \in [Processes -> {"new", "up", "dead"}]
  /\ pc \in [Processes -> {"idle", "lock", "check", "create", "unlock",
                           "table", "rows", "progress", "commit", "failed", "ended"}]
  /\ written \in [Processes -> {FIRST_BLOCK - 1} \union Heights]
  /\ flushed \in [Processes -> {FIRST_BLOCK - 1} \union Heights]
  /\ at \in [Processes -> Nat]
  /\ tab \in [Processes -> 0..Len(TableOrder)]
  /\ sent \in [Processes -> SUBSET (Shown \X Heights)]
  /\ txn \in [Processes -> SUBSET (Shown \X Heights)]
  /\ advisory \in Processes \union {NoOwner}
  /\ \A r \in parts : r.table \in Shown \union {"events"}
  /\ db \subseteq Shown \X Heights
  /\ progress \in Heights \union {NoProgress}
  /\ \A p \in Processes : txn[p] \subseteq sent[p] /\ flushed[p] <= written[p]

(* No deadlock: there is never a circle of sessions each of which waits    *)
(* for the next, be it for the advisory lock, a table or a row.  (Waits    *)
(* that the lock_timeout would break count as well.)                       *)
NoDeadlock ==
  LET waiting == [p \in Processes |-> WaitsFor(p)]
  IN \A S \in (SUBSET Processes) \ {{}} : \E p \in S : waiting[p] \intersect S = {}

(* A partition that was missing when CREATE TABLE IF NOT EXISTS looked is  *)
(* still missing when it gets its lock: no flush fails because another     *)
(* process, living or dead, creates the same partition.                    *)
NoneCreatesTwice ==
  \A p \in Processes : pc[p] = "create" => \A q \in parts : ~SameName(q, Wanted(p))

(* Whichever process committed last, and whoever died: every row of every  *)
(* height from the first to the progress is committed.                     *)
ProgressCovered ==
  progress # NoProgress =>
    \A h \in FIRST_BLOCK..progress : \A t \in TablesOf[h] : <<t, h>> \in db

(* Every flush comes to an end, or its process does: no lock is left with  *)
(* a session that does not release it.                                     *)
FlushesEnd ==
  \A p \in Processes : (pc[p] # "idle") ~> (pc[p] \in {"idle", "ended"})
==============================================================================
