---------------------------- MODULE TableInsert ----------------------------
(***************************************************************************)
(* How buffered rows get into a table: the flushers of src/sink/pg/flushers*)
(* (columns, limits and conflict clause of each table), the slicing of     *)
(* execBatchedInsert (src/sink/pg/batch.ts), what PostgreSQL does with one *)
(* statement of it, and the partitions of src/db/partitions.ts.            *)
(***************************************************************************)
EXTENDS Integers, Sequences

CONSTANTS
  LimitScale,  \* bound of the model: the limits are divided by it (code: 1)
  STEP         \* heights per partition (code: 1,000,000)

(* A flusher: how many columns it sends, at most how many rows and         *)
(* parameters per statement, the columns of its ON CONFLICT, and those     *)
(* that DO UPDATE overwrites (none is DO NOTHING).                         *)
MultiInsert(columns, maxRows, maxParams, key, updated) ==
  [columns |-> columns, maxRows |-> maxRows \div LimitScale,
   maxParams |-> maxParams \div LimitScale, key |-> key, updated |-> updated]

flushBlocks == MultiInsert(10, 5000, 30000, {"height"}, {})
flushTxs == MultiInsert(12, 1000, 20000, {"height", "tx_hash"}, {"log_summary"})
flushMsgs == MultiInsert(6, 500, 12000, {"height", "tx_hash", "msg_index"}, {})
flushEvents == MultiInsert(5, 10000, 20000, {"tx_hash", "msg_index", "event_index"}, {})
flushAttrs ==
  MultiInsert(5, 10000, 30000, {"tx_hash", "msg_index", "event_index", "key"}, {})
flushTransfers ==
  MultiInsert(7, 5000, 30000,
              {"height", "tx_hash", "msg_index", "from_addr", "to_addr", "denom"}, {})
flushStakeDeleg == MultiInsert(10, 5000, 30000, {"height", "tx_hash", "msg_index"}, {})
flushStakeDistr == MultiInsert(9, 5000, 30000, {"height", "tx_hash", "msg_index"}, {})
flushWasmExec == MultiInsert(10, 5000, 30000, {"height", "tx_hash", "msg_index"}, {})
flushWasmEvents ==
  MultiInsert(6, 5000, 30000, {"height", "tx_hash", "msg_index", "event_type"}, {})

(* The order of the inserts in flushAll (the governance tables, which get  *)
(* no rows, follow).                                                       *)
TableOrder ==
  <<"blocks", "transactions", "messages", "events", "event_attrs", "transfers",
    "delegation_events", "distribution_events", "executions", "wasm_events">>
TableNames == {TableOrder[i] : i \in DOMAIN TableOrder}

Flusher ==
  [blocks |-> flushBlocks, transactions |-> flushTxs, messages |-> flushMsgs,
   events |-> flushEvents, event_attrs |-> flushAttrs, transfers |-> flushTransfers,
   delegation_events |-> flushStakeDeleg, distribution_events |-> flushStakeDistr,
   executions |-> flushWasmExec, wasm_events |-> flushWasmEvents]

(* A statement can take at least one row, and PostgreSQL counts its        *)
(* parameters in 16 bits.                                                  *)
MaxParameters == 65535 \div LimitScale
ASSUME LimitsAssumption ==
  /\ LimitScale \in Nat \ {0} /\ STEP \in Nat \ {0}
  /\ \A t \in TableNames :
       /\ Flusher[t].maxRows >= 1
       /\ Flusher[t].maxParams >= Flusher[t].columns
       /\ Flusher[t].maxParams <= MaxParameters

(* The inserters of block-atomic mode: the same columns and conflict       *)
(* clauses, but all rows in one statement, whatever their number.          *)
Unlimited == 1000000
Unsliced(f) == [f EXCEPT !.maxRows = Unlimited, !.maxParams = Unlimited]

insertBlocks == Unsliced(flushBlocks)
insertTxs == Unsliced(flushTxs)
insertMsgs == Unsliced(flushMsgs)
insertEvents == Unsliced(flushEvents)
insertAttrs == Unsliced(flushAttrs)
insertTransfers == Unsliced(flushTransfers)
insertStakeDeleg == Unsliced(flushStakeDeleg)
insertStakeDistr == Unsliced(flushStakeDistr)
insertWasmExec == Unsliced(flushWasmExec)
insertWasmEvents == Unsliced(flushWasmEvents)

Inserter ==
  [blocks |-> insertBlocks, transactions |-> insertTxs, messages |-> insertMsgs,
   events |-> insertEvents, event_attrs |-> insertAttrs, transfers |-> insertTransfers,
   delegation_events |-> insertStakeDeleg, distribution_events |-> insertStakeDistr,
   executions |-> insertWasmExec, wasm_events |-> insertWasmEvents]

------------------------------------------------------------------------------
(* The inner loop of execBatchedInsert: the rows of the next statement.    *)
Fits(count, f) == count <= f.maxRows /\ count * f.columns <= f.maxParams

Slice(left, f) == CHOOSE count \in 0..left :
                    Fits(count, f) /\ (count = left \/ ~Fits(count + 1, f))

------------------------------------------------------------------------------
(* INSERT ... ON CONFLICT (key): of the rows with a key the first one is   *)
(* kept, and a later statement may overwrite some of its columns.  (A      *)
(* DO UPDATE with a key twice in its rows raises an error; only the        *)
(* transactions are updated, and a hash occurs once.)                      *)
KeyOf(row, f) == [c \in f.key |-> row[c]]

FirstOfKeys(rows, f) ==
  {rows[i] : i \in {j \in DOMAIN rows :
     \A k \in 1..(j - 1) : KeyOf(rows[k], f) # KeyOf(rows[j], f)}}

Overwritten(row, rows, f) ==
  LET same == {r \in FirstOfKeys(rows, f) : KeyOf(r, f) = KeyOf(row, f)}
  IN IF same = {} THEN row
     ELSE [c \in DOMAIN row |-> IF c \in f.updated THEN (CHOOSE r \in same : TRUE)[c]
                                                   ELSE row[c]]

InsertedLastWins(stored, rows, f) ==  \* mutant: DO UPDATE of every column
  {rows[i] : i \in {j \in DOMAIN rows :
     \A k \in (j + 1)..Len(rows) : KeyOf(rows[k], f) # KeyOf(rows[j], f)}}
    \union {r \in stored : \A i \in DOMAIN rows : KeyOf(rows[i], f) # KeyOf(r, f)}
Inserted(stored, rows, f) ==
  {Overwritten(r, rows, f) : r \in stored}
    \union {r \in FirstOfKeys(rows, f) : \A s \in stored : KeyOf(s, f) # KeyOf(r, f)}

------------------------------------------------------------------------------
(* Partitions: a range of STEP heights, named by its first height.         *)
RANGE_TABLES == TableNames \ {"events", "event_attrs"}

PartitionFrom(h) == (h \div STEP) * STEP
Covers(base, h) == h \in base..(base + STEP - 1)

EndBaseExclusive(maxH) == PartitionFrom(maxH) - STEP  \* mutant: base < endBase
EndBase(maxH) == PartitionFrom(maxH)
==============================================================================
