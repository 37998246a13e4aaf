------------------------------- MODULE PgStore -------------------------------
(***************************************************************************)
(* PgSink driven the way syncRange and followLoop drive it: one process at *)
(* a time writes blocks in ascending order, each write awaited before the  *)
(* next, asks for a flush now and then, may die at any moment, and is      *)
(* replaced by one that starts above the committed progress.               *)
(***************************************************************************)
EXTENDS PgSink

CONSTANT MaxRestarts  \* bound of the model: processes after the first

VARIABLES
  given,     \* the blocks this process has written
  restarts   \* processes started after the first

vars == <<mode, alive, buf, sinkPc, table, span, txn, db, progress, given, restarts>>

Init == SinkInit /\ given = {} /\ restarts = 0

(* tryFlush awaits sink.write of the next block that was not given up.     *)
GiveBlock(h) ==
  /\ h > progress
  /\ \A g \in given : g < h
  /\ Write(h)
  /\ given' = given \union {h}
  /\ UNCHANGED restarts

CallFlush == Flush /\ UNCHANGED <<given, restarts>>
SinkRuns == SinkStep /\ UNCHANGED <<given, restarts>>
SinkFails == FlushFails /\ UNCHANGED <<given, restarts>>
ProcessEnds == Kill /\ UNCHANGED <<given, restarts>>

ProcessStarts ==
  /\ restarts < MaxRestarts
  /\ Restart
  /\ restarts' = restarts + 1
  /\ given' = {}

Next ==
  \/ \E h \in Blocks : GiveBlock(h)
  \/ CallFlush
  \/ SinkRuns
  \/ SinkFails
  \/ ProcessEnds
  \/ ProcessStarts

Spec == Init /\ [][Next]_vars

------------------------------------------------------------------------------
Stored(h) == \A t \in TablesOf[h] : h \in db[t]

(* The sink's variables have their types, and what it was given is blocks. *)
TypeOK == SinkTypeOK /\ given \subseteq Blocks /\ restarts \in Nat

(* No reader of the database sees part of a block: wherever a flush fails  *)
(* or the process dies, all rows of a block are committed or none is.      *)
WholeBlocks ==
  \A h \in Blocks : Stored(h) \/ \A t \in Tables : h \notin db[t]

(* Emptying each buffer before the COMMIT drops no row while the process   *)
(* works: every row of an accepted block is buffered, inserted by the open *)
(* transaction, or committed.  And when a flush failed, anywhere, the      *)
(* progress does not pass the blocks whose rows went with it, so that a run*)
(* that resumes gets them again.                                           *)
NothingDropped ==
  /\ alive /\ sinkPc # "failed" =>
       \A h \in given : \A t \in TablesOf[h] : h \in buf[t] \union txn[t] \union db[t]
  /\ \A h \in given : h <= progress => Stored(h)

(* In batch-insert mode the thirteen inserts, the progress row and the     *)
(* COMMIT amount to one atomic step on whole blocks.  (Block-atomic mode   *)
(* promises less, and shows the store nothing.)                            *)
StoredBlocks == {h \in Blocks : mode = "batch-insert" /\ Stored(h)}
HeldBlocks ==
  IF mode = "batch-insert" /\ alive /\ sinkPc # "failed"
    THEN buf[1] \union txn[1] ELSE {}

Store == INSTANCE AtomicStore WITH
  stored <- StoredBlocks, held <- HeldBlocks, mark <- progress

ImplementsStore == Store!StoreSpec
==============================================================================
