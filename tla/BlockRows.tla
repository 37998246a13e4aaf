----------------------------- MODULE BlockRows -----------------------------
(***************************************************************************)
(* What PgSink takes for one awaited call per table, taken apart: blocks   *)
(* become rows (TxRows), a flush first creates the partitions its heights  *)
(* need, one statement each and outside of the transaction, and then sends *)
(* every buffer in slices (TableInsert).  In block-atomic mode each block  *)
(* is a transaction of its own, with one unsliced statement per table.     *)
(* A run writes blocks in ascending order; a new run, in either mode, may  *)
(* index blocks again that are already stored (an explicit FROM without    *)
(* RESUME), and starts with empty buffers.  When to flush is left open     *)
(* here (PgSink has the thresholds, and says why main() has one mode only).*)
(***************************************************************************)
EXTENDS TxRows, TableInsert

CONSTANTS
  Modes,     \* the modes of the sink a run may be configured with
  Answers,   \* what the node and the decoder say of each height
  MaxRuns    \* bound of the model: runs after the first

Heights == DOMAIN Answers
ASSUME HeightsAssumption == Heights \subseteq Nat /\ MaxRuns \in Nat
ASSUME AnswersAssumption == \A h \in Heights : IsAnswer(Answers[h])

(* A transaction is in one block, once.                                    *)
ASSUME HashesAssumption ==
  \A g, h \in Heights : \A i \in DOMAIN Answers[g].txs, j \in DOMAIN Answers[h].txs :
    Answers[g].txs[i] = Answers[h].txs[j] => g = h /\ i = j
ASSUME ModesAssumption == Modes \subseteq {"batch-insert", "block-atomic"}

Rows == [h \in Heights |-> extractRows(h, Answers[h])]

VARIABLES
  mode,    \* how this run writes
  buf,     \* the buffered rows, per table; block-atomic: those of the block
  last,    \* the last height of this run
  runs,    \* runs started after the first
  pc,      \* "idle", "partitions", "insert", "commit" or "failed"
  base,    \* the partition being created
  table,   \* the table being created or inserted, by its place in TableOrder
  sent,    \* i of execBatchedInsert: its rows already sent
  parts,   \* the partitions that exist: <<table, first height>>
  txn,     \* the tables as the open transaction sees them
  db       \* the committed tables

vars == <<mode, buf, last, runs, pc, base, table, sent, parts, txn, db>>

NoHeight == -1
EmptyBuf == [t \in TableNames |-> <<>>]
EmptyDb == [t \in TableNames |-> {}]
Name == TableOrder[table]
BufferedHeights == {buf["blocks"][i].height : i \in DOMAIN buf["blocks"]}
minH == CHOOSE h \in BufferedHeights : \A g \in BufferedHeights : h <= g
maxH == CHOOSE h \in BufferedHeights : \A g \in BufferedHeights : h >= g

(* Of the delegation rows those with a null in a required column are not   *)
(* sent (flushStakeDeleg); insertStakeDeleg sends them all.                *)
Complete(row) == Null \notin {row.delegator_address, row.denom, row.amount}
CompleteRows(rows) == Kept(rows, {r \in Range(rows) : Complete(r)})
Sent(t) ==
  IF t = "delegation_events" /\ mode = "batch-insert"
    THEN CompleteRows(buf[t]) ELSE buf[t]

(* The schema comes with the partition of the first STEP heights.          *)
Init ==
  /\ mode \in Modes
  /\ buf = EmptyBuf /\ last = NoHeight /\ runs = 0
  /\ pc = "idle" /\ base = 0 /\ table = 1 /\ sent = 0
  /\ parts = RANGE_TABLES \X {0}
  /\ txn = EmptyDb /\ db = EmptyDb

------------------------------------------------------------------------------
(* persistBlockBuffered, without the flush it may lead to.                 *)
WriteBlock(h) ==
  /\ mode = "batch-insert" /\ pc = "idle" /\ h > last
  /\ last' = h
  /\ buf' = [t \in TableNames |-> buf[t] \o Rows[h][t]]
  /\ UNCHANGED <<mode, runs, pc, base, table, sent, parts, txn, db>>

(* persistBlockAtomic, up to the loop of ensureCorePartitions.             *)
WriteBlockAtomic(h) ==
  /\ mode = "block-atomic" /\ pc = "idle" /\ h > last
  /\ last' = h
  /\ buf' = Rows[h]
  /\ pc' = "partitions" /\ base' = PartitionFrom(h) /\ table' = 1
  /\ UNCHANGED <<mode, runs, sent, parts, txn, db>>

(* flushAll up to the loop of ensureCorePartitions.                        *)
StartFlush ==
  /\ mode = "batch-insert" /\ pc = "idle" /\ buf # EmptyBuf
  /\ pc' = "partitions" /\ base' = PartitionFrom(minH) /\ table' = 1
  /\ UNCHANGED <<mode, buf, last, runs, sent, parts, txn, db>>

(* createRangePartition for one table; CREATE TABLE commits by itself.     *)
CreatePartition ==
  /\ pc = "partitions" /\ base <= EndBase(maxH)
  /\ parts' = parts \union (RANGE_TABLES \intersect {Name}) \X {base}
  /\ IF table < Len(TableOrder)
       THEN table' = table + 1 /\ base' = base
       ELSE table' = 1 /\ base' = base + STEP
  /\ UNCHANGED <<mode, buf, last, runs, pc, sent, txn, db>>

BeginInserts ==
  /\ pc = "partitions" /\ base > EndBase(maxH)
  /\ pc' = "insert" /\ table' = 1 /\ sent' = 0 /\ txn' = db
  /\ UNCHANGED <<mode, buf, last, runs, base, parts, db>>

(* One statement: the next slice of the buffer (execBatchedInsert), or all *)
(* rows of the block (an inserter).  It succeeds only if every row of it   *)
(* has a partition to go to, and the client can send it.                   *)
Statement == IF mode = "batch-insert" THEN Flusher[Name] ELSE Inserter[Name]
SliceSize == Slice(Len(Sent(Name)) - sent, Statement)
NextSlice == SubSeq(Sent(Name), sent + 1, sent + SliceSize)
Placed(row) ==
  Name \in RANGE_TABLES => \E p \in parts : p[1] = Name /\ Covers(p[2], row.height)
AllPlaced == \A i \in DOMAIN NextSlice : Placed(NextSlice[i])

(* The inserters neither drop incomplete delegation rows nor, as           *)
(* execBatchedInsert does, turn the attributes of an event into JSON: the  *)
(* client sends an array as a PostgreSQL array, which a jsonb column does  *)
(* not accept.  (An empty array would be taken for an empty object; no     *)
(* event of the inputs is without attributes, and no call carries funds.)  *)
(* A statement that the schema refuses for a row (NOT NULL, CHECK) ends the*)
(* run before its commit: as far as the tables go, a NewRun at that point. *)
Insertable(row) ==
  /\ Name \in {"events", "wasm_events"} => row.attributes = <<>>
  /\ Name = "delegation_events" => Complete(row)
Accepted ==
  mode = "block-atomic" =>
    /\ Len(NextSlice) * Statement.columns <= MaxParameters
    /\ \A i \in DOMAIN NextSlice : Insertable(NextSlice[i])

InsertSlice ==
  /\ pc = "insert" /\ sent < Len(Sent(Name)) /\ AllPlaced /\ Accepted
  /\ txn' = [txn EXCEPT ![Name] = Inserted(@, NextSlice, Statement)]
  /\ sent' = sent + SliceSize
  /\ UNCHANGED <<mode, buf, last, runs, pc, base, table, parts, db>>

(* The catch clause of persistBlockAtomic: ROLLBACK, and the rejection of  *)
(* the write ends the run.                                                 *)
AtomicFails ==
  /\ pc = "insert" /\ sent < Len(Sent(Name)) /\ ~Accepted
  /\ pc' = "failed"
  /\ buf' = EmptyBuf /\ txn' = EmptyDb /\ sent' = 0
  /\ UNCHANGED <<mode, last, runs, base, table, parts, db>>

(* The flusher has returned: its buffer is emptied.                        *)
NextTableSentKept ==  \* mutant: the index is not reset
  /\ pc = "insert" /\ sent >= Len(Sent(Name))
  /\ buf' = [buf EXCEPT ![Name] = <<>>]
  /\ IF table < Len(TableOrder)
       THEN table' = table + 1 /\ pc' = pc
       ELSE table' = table /\ pc' = "commit"
  /\ UNCHANGED <<mode, last, runs, base, sent, parts, txn, db>>
NextTable ==
  /\ pc = "insert" /\ sent >= Len(Sent(Name))
  /\ buf' = [buf EXCEPT ![Name] = <<>>]
  /\ sent' = 0
  /\ IF table < Len(TableOrder)
       THEN table' = table + 1 /\ pc' = pc
       ELSE table' = table /\ pc' = "commit"
  /\ UNCHANGED <<mode, last, runs, base, parts, txn, db>>

Commit ==
  /\ pc = "commit"
  /\ pc' = "idle" /\ db' = txn /\ txn' = EmptyDb
  /\ UNCHANGED <<mode, buf, last, runs, base, table, sent, parts>>

(* The process ends, at any point, and another run begins.                 *)
NewRun ==
  /\ runs < MaxRuns
  /\ runs' = runs + 1 /\ mode' \in Modes
  /\ buf' = EmptyBuf /\ last' = NoHeight /\ txn' = EmptyDb
  /\ pc' = "idle" /\ base' = 0 /\ table' = 1 /\ sent' = 0
  /\ UNCHANGED <<parts, db>>

Next ==
  \/ \E h \in Heights : WriteBlock(h) \/ WriteBlockAtomic(h)
  \/ StartFlush
  \/ CreatePartition
  \/ BeginInserts
  \/ InsertSlice
  \/ AtomicFails
  \/ NextTable
  \/ Commit
  \/ NewRun

Spec == Init /\ [][Next]_vars

------------------------------------------------------------------------------
StoredHeights == {r.height : r \in db["blocks"]}

(* Types, and: sent never passes the end of its buffer.                    *)
TypeOK ==
  /\ mode \in Modes
  /\ \A t \in TableNames : \A i \in DOMAIN buf[t] : buf[t][i].height \in Heights
  /\ last \in Heights \union {NoHeight}
  /\ runs \in 0..MaxRuns
  /\ pc \in {"idle", "partitions", "insert", "commit", "failed"}
  /\ base \in Nat /\ table \in DOMAIN TableOrder
  /\ sent \in 0..Len(Sent(Name))
  /\ parts \subseteq RANGE_TABLES \X Nat
  /\ DOMAIN txn = TableNames /\ DOMAIN db = TableNames

(* However rows were sliced, split over flushes or indexed again: a table  *)
(* holds, for every key that occurs in the blocks stored, the row of its   *)
(* first occurrence and no other.  (A key never occurs in two blocks.)     *)
FirstRows(t, h) ==
  FirstOfKeys(IF t = "delegation_events" THEN CompleteRows(Rows[h][t]) ELSE Rows[h][t],
              Flusher[t])
TablesHoldFirstRows ==
  \A t \in TableNames : db[t] = UNION {FirstRows(t, h) : h \in StoredHeights}

(* "-1 for transaction-scoped events" (the schema): core.events says of a  *)
(* stored transaction what the node reported and nothing else, the events  *)
(* of the transaction in their order at -1, those of a log at its message. *)
(* A string of the node stands for itself or, in base64, for another text; *)
(* a text is stored as it is, however it was sent and however often it is  *)
(* normalized, unless it looks like base64 itself: "1404", say, is garbled.*)
(* (Logs of the same index share their keys, and only the first are kept.) *)
Readings(s) ==
  LET plain == Default(s, "")
  IN {plain} \union {Decoded[x] : x \in {plain} \intersect DOMAIN Decoded}
ReadsBack(stored, s) == \A text \in Readings(s) \ DOMAIN Decoded : stored = text

LogIndex(log) == Default(log.msg_index, 0)
EventAt(m, i, ev) == [msg |-> m, index |-> i - 1, ev |-> ev]
EventsOf(result) == {EventAt(-1, i, result.events[i]) : i \in DOMAIN result.events}
EventsOfLog(log) == {EventAt(LogIndex(log), i, log.events[i]) : i \in DOMAIN log.events}
Reported(result) ==
  EventsOf(result) \union
    IF result.raw_log = Null THEN {}
    ELSE UNION {EventsOfLog(result.raw_log[l]) : l \in DOMAIN result.raw_log}

Tells(row, said) ==
  /\ row.msg_index = said.msg /\ row.event_index = said.index
  /\ row.event_type = said.ev.type
  /\ DOMAIN row.attributes = DOMAIN said.ev.attributes
  /\ \A i \in DOMAIN row.attributes :
       /\ ReadsBack(row.attributes[i].key, said.ev.attributes[i].key)
       /\ ReadsBack(row.attributes[i].value, said.ev.attributes[i].value)

Apart(raw_log) ==
  raw_log # Null =>
    \A l \in DOMAIN raw_log :
      /\ LogIndex(raw_log[l]) # -1
      /\ \A k \in DOMAIN raw_log : LogIndex(raw_log[k]) = LogIndex(raw_log[l]) => k = l
EventsReadBack ==
  \A h \in StoredHeights : \A i \in DOMAIN Answers[h].txs :
    LET result == getTxsResults(Answers[h].results, Len(Answers[h].txs))[i]
        rows == {r \in db["events"] : r.tx_hash = Answers[h].txs[i]}
    IN Apart(result.raw_log) =>
         /\ \A said \in Reported(result) : \E r \in rows : Tells(r, said)
         /\ \A r \in rows : \E said \in Reported(result) : Tells(r, said)

(* Whatever heights a flush spans, and wherever an earlier run died while  *)
(* creating partitions, every row has a partition when it is sent.         *)
RowsHavePartitions == pc = "insert" /\ sent < Len(Sent(Name)) => AllPlaced

(* "Conflicts on (height, tx_hash, msg_index, event_type) are ignored to   *)
(* prevent duplicate inserts" (src/sink/pg/flushers/wasm_events.ts): what  *)
(* is ignored would be a duplicate of a row that is stored.                *)
OnlyDuplicatesIgnored ==
  \A h \in StoredHeights : \A i \in DOMAIN Rows[h]["wasm_events"] :
    Rows[h]["wasm_events"][i] \in db["wasm_events"]
==============================================================================
