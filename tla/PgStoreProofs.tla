---------------------------- MODULE PgStoreProofs ----------------------------
(***************************************************************************)
(* Proofs about PgStore, for every set of blocks, number of tables,        *)
(* thresholds and number of restarts.                                      *)
(***************************************************************************)
EXTENDS PgStore, PgSinkProofs

(* What the sink was given by a working process is held or stored, and     *)
(* what it holds was given by that process.  What it holds is beyond the   *)
(* progress, and stays beyond it when a failed flush has lost it.          *)
GivenKept ==
  Working => Held \subseteq given /\ given \subseteq Held \union db[1]
HeldBeyond == Working => \A h \in Held : h > progress
PassedIsStored == \A h \in given : h <= progress => h \in db[1]
StoreInv ==
  /\ SinkInv /\ GivenKept /\ HeldBeyond /\ PassedIsStored
  /\ given \subseteq Blocks /\ restarts \in Nat

LEMMA SinkRunsKeepsGiven ==
  ASSUME StoreInv, SinkInv', Working, UNCHANGED given,
         \/ Held' = Held /\ UNCHANGED <<db, progress>>
         \/ Held' = {} /\ Stores
  PROVE  GivenKept' /\ HeldBeyond' /\ PassedIsStored'
<1>1. CASE Held' = Held /\ UNCHANGED <<db, progress>>
  BY <1>1 DEF StoreInv, GivenKept, HeldBeyond, PassedIsStored
<1>2. CASE Held' = {} /\ Stores
  <2>1. Held \subseteq Blocks
    BY DEF StoreInv, GivenKept
  <2>2. db'[1] = db[1] \union Held
    BY <1>2, <2>1, FirstTable DEF Stores
  <2>3. QED
    BY <1>2, <2>2 DEF StoreInv, GivenKept, HeldBeyond, PassedIsStored
<1>3. QED
  BY <1>1, <1>2

LEMMA NextKeepsStoreInv == StoreInv /\ [Next]_vars => StoreInv'
<1> SUFFICES ASSUME StoreInv, [Next]_vars PROVE StoreInv'
  OBVIOUS
<1>1. SinkInv
  BY DEF StoreInv
<1>2. CASE UNCHANGED vars
  <2>1. SinkInv'
    BY <1>1, <1>2, SinkInvSame DEF vars, sinkVars
  <2>2. QED
    BY <1>2, <2>1 DEF vars, sinkVars, StoreInv, GivenKept, HeldBeyond, PassedIsStored,
       Working, Held
<1>3. ASSUME NEW h \in Blocks, GiveBlock(h) PROVE StoreInv'
  <2>1. /\ Write(h) /\ h > progress /\ \A g \in given : g < h
        /\ given' = given \union {h} /\ restarts' = restarts
    BY <1>3 DEF GiveBlock
  <2>2. Working
    BY <2>1 DEF Write, Working
  <2>3. \A g \in Held : g < h
    BY <2>1, <2>2 DEF StoreInv, GivenKept
  <2>4. SinkInv' /\ Held' = Held \union {h} /\ db' = db /\ progress' = progress
    BY <1>1, <2>1, <2>3, WriteKeeps
  <2>5. progress \in Int /\ h \in Int
    BY <1>1, BlocksAssumption DEF SinkInv, SinkTypeOK, NoProgress
  <2>6. HeldBeyond' /\ PassedIsStored'
    BY <2>1, <2>2, <2>4, <2>5 DEF StoreInv, HeldBeyond, PassedIsStored
  <2>7. QED
    BY <2>1, <2>2, <2>4, <2>6 DEF StoreInv, GivenKept
<1>4. CASE CallFlush
  <2>1. Working /\ Flush /\ UNCHANGED <<given, restarts>>
    BY <1>4 DEF CallFlush, Flush, Working
  <2>2. SinkInv' /\ Held' = Held /\ db' = db /\ progress' = progress
    BY <1>1, <2>1, FlushKeeps
  <2>3. QED
    BY <2>1, <2>2 DEF StoreInv, GivenKept, HeldBeyond, PassedIsStored
<1>5. CASE SinkRuns
  <2>1. SinkStep /\ UNCHANGED <<given, restarts>>
    BY <1>5 DEF SinkRuns
  <2>2. /\ SinkInv' /\ Working
        /\ \/ Held' = Held /\ UNCHANGED <<db, progress>>
           \/ Held' = {} /\ Stores
    BY <1>1, <2>1, SinkStepKeeps
  <2>3. QED
    BY <2>1, <2>2, SinkRunsKeepsGiven DEF StoreInv
<1>6. CASE SinkFails \/ ProcessEnds
  <2>1. (FlushFails \/ Kill) /\ UNCHANGED <<given, restarts>>
    BY <1>6 DEF SinkFails, ProcessEnds
  <2>2. /\ SinkInv' /\ ~Working'
        /\ UNCHANGED <<db, progress>> \/ (Working /\ Stores)
    BY <1>1, <2>1, FailsKeeps
  <2>3. CASE UNCHANGED <<db, progress>>
    BY <2>1, <2>2, <2>3 DEF StoreInv, GivenKept, HeldBeyond, PassedIsStored
  <2>4. CASE Working /\ Stores
    <3>1. Held \subseteq Blocks /\ given \subseteq Held \union db[1]
      BY <2>4 DEF StoreInv, GivenKept
    <3>2. db'[1] = db[1] \union Held
      BY <2>4, <3>1, FirstTable DEF Stores
    <3>3. QED
      BY <2>1, <2>2, <3>1, <3>2 DEF StoreInv, GivenKept, HeldBeyond, PassedIsStored
  <2>5. QED
    BY <2>2, <2>3, <2>4
<1>7. CASE ProcessStarts
  <2>1. Restart /\ given' = {} /\ restarts' = restarts + 1
    BY <1>7 DEF ProcessStarts
  <2>2. SinkInv' /\ Held' = {}
    BY <1>1, <2>1, RestartKeeps
  <2>3. QED
    BY <2>1, <2>2 DEF StoreInv, GivenKept, HeldBeyond, PassedIsStored
<1>8. QED
  BY <1>2, <1>3, <1>4, <1>5, <1>6, <1>7 DEF Next

(* At every await of every flush, and after every failure: the rows of the *)
(* stored blocks are all in the database, those of the held blocks are,    *)
(* table by table, all buffered or all in the open transaction.            *)
THEOREM Invariant == Spec => []StoreInv
<1>1. Init => StoreInv
  <2> SUFFICES ASSUME Init PROVE StoreInv
    OBVIOUS
  <2>1. SinkInv
    BY SinkInvInit DEF Init
  <2>2. Held = {}
    BY FirstTable DEF Init, SinkInit, MemInit, Empty, Held
  <2>3. QED
    BY <2>1, <2>2 DEF Init, StoreInv, GivenKept, HeldBeyond, PassedIsStored
<1>2. QED
  BY <1>1, NextKeepsStoreInv, PTL DEF Spec

(* The sink's variables keep their types: maxH of a flush, in particular,  *)
(* is always a block, because no flush starts without rows.                *)
THEOREM TypeCorrect == Spec => []TypeOK
<1>1. StoreInv => TypeOK
  BY DEF StoreInv, SinkInv, TypeOK
<1>2. QED
  BY <1>1, Invariant, PTL

LEMMA StoredAre ==
  ASSUME StoreInv, NEW h \in Blocks
  PROVE  /\ Stored(h) <=> h \in db[1]
         /\ \A t \in Tables : h \in db[t] => h \in db[1]
<1>1. /\ \A t \in Tables : db[t] = OfTable(db[1], t)
      /\ TablesOf[h] \subseteq Tables /\ 1 \in TablesOf[h]
  BY TablesAssumption DEF StoreInv, SinkInv, StoredWhole
<1>2. QED
  BY <1>1 DEF Stored, OfTable

(* All rows of a block are committed or none is, wherever a flush fails    *)
(* and whenever the process dies, an ambiguous COMMIT included.            *)
THEOREM WholeBlocksHolds == Spec => []WholeBlocks
<1>1. StoreInv => WholeBlocks
  BY StoredAre DEF WholeBlocks
<1>2. QED
  BY <1>1, Invariant, PTL

(* Emptying each buffer before the COMMIT drops no row of a block that the *)
(* sink has accepted as long as the process works, and wherever a flush    *)
(* fails the progress does not pass what was lost with it.                 *)
THEOREM NothingDroppedHolds == Spec => []NothingDropped
<1>1. ASSUME StoreInv PROVE NothingDropped
  <2>1. ASSUME Working, NEW h \in given, NEW t \in TablesOf[h]
        PROVE  h \in buf[t] \union txn[t] \union db[t]
    <3>1. h \in Blocks /\ t \in Tables
      BY <1>1, <2>1, TablesAssumption DEF StoreInv
    <3>2. h \in Held \/ h \in db[1]
      BY <1>1, <2>1 DEF StoreInv, GivenKept
    <3>3. CASE h \in Held
      BY <1>1, <2>1, <3>1, <3>3 DEF StoreInv, SinkInv, HeldWhole, OfTable
    <3>4. CASE h \in db[1]
      BY <1>1, <2>1, <3>1, <3>4 DEF StoreInv, SinkInv, StoredWhole, OfTable
    <3>5. QED
      BY <3>2, <3>3, <3>4
  <2>2. ASSUME NEW h \in given, h <= progress PROVE Stored(h)
    BY <1>1, <2>2, StoredAre DEF StoreInv, PassedIsStored
  <2>3. QED
    BY <2>1, <2>2 DEF NothingDropped, Working
<1>2. QED
  BY <1>1, Invariant, PTL

(***************************************************************************)
(* The refinement: in batch-insert mode the flush is one atomic step.      *)
(***************************************************************************)
StoreMaps ==
  /\ StoredBlocks = IF mode = "batch-insert" THEN db[1] ELSE {}
  /\ HeldBlocks = IF mode = "batch-insert" /\ Working THEN Held ELSE {}

LEMMA StoreMapping == StoreInv => StoreMaps
<1> SUFFICES ASSUME StoreInv PROVE StoreMaps
  OBVIOUS
<1>1. db[1] \subseteq Blocks
  BY FirstTable DEF StoreInv, SinkInv, SinkTypeOK
<1>2. \A h \in Blocks : Stored(h) <=> h \in db[1]
  BY StoredAre
<1>3. QED
  BY <1>1, <1>2 DEF StoreMaps, StoredBlocks, HeldBlocks, Working, Held

LEMMA StoreMappingNext == StoreInv' => StoreMaps'
BY StoreMapping, PTL

(* A COMMIT stores all that is held and moves the mark to its highest.     *)
LEMMA StoresIsStoreAll ==
  ASSUME StoreInv, StoreInv', Stores, Working, mode' = mode, ~Working' \/ Held' = {}
  PROVE  [Store!StoreNext]_(Store!storeVars)
<1>1. Held \subseteq Blocks
  BY DEF StoreInv, GivenKept
<1>2. db'[1] = db[1] \union Held
  BY <1>1, FirstTable DEF Stores
<1>3. CASE mode = "batch-insert"
  <2>1. /\ StoredBlocks = db[1] /\ HeldBlocks = Held
        /\ StoredBlocks' = db'[1] /\ HeldBlocks' = {}
    BY <1>3, StoreMapping, StoreMappingNext DEF StoreMaps
  <2>2. QED
    BY <1>2, <1>3, <2>1 DEF Stores, Highest, Store!StoreNext, Store!StoreAll
<1>4. CASE mode # "batch-insert"
  <2>1. /\ StoredBlocks = {} /\ HeldBlocks = {}
        /\ StoredBlocks' = {} /\ HeldBlocks' = {}
    BY <1>4, StoreMapping, StoreMappingNext DEF StoreMaps
  <2>2. progress' = progress
    BY <1>4 DEF Stores
  <2>3. QED
    BY <2>1, <2>2 DEF Store!storeVars
<1>5. QED
  BY <1>3, <1>4

(* Any other step keeps the stored blocks and the mark, and keeps, extends *)
(* or loses what is held.                                                  *)
LEMMA StepIsStoreStep ==
  ASSUME StoreInv, StoreInv', [Next]_vars
  PROVE  [Store!StoreNext]_(Store!storeVars)
<1>1. SinkInv /\ StoreMaps /\ StoreMaps'
  BY StoreMapping, StoreMappingNext DEF StoreInv
<1>2. ASSUME mode' = mode, UNCHANGED <<db, progress>>,
             Held' = Held /\ (Working' <=> Working)
      PROVE  UNCHANGED Store!storeVars
  BY <1>1, <1>2 DEF StoreMaps, Store!storeVars
<1>3. ASSUME mode' = mode, UNCHANGED <<db, progress>>, ~Working' \/ Held' = {}
      PROVE  Store!LoseHeld
  BY <1>1, <1>3 DEF StoreMaps, Store!LoseHeld
<1>4. CASE UNCHANGED vars
  BY <1>2, <1>4 DEF vars, Held, Working
<1>5. ASSUME NEW h \in Blocks, GiveBlock(h)
      PROVE  [Store!StoreNext]_(Store!storeVars)
  <2>1. h > progress /\ (\A g \in given : g < h) /\ Write(h) /\ Working
    BY <1>5 DEF GiveBlock, Write, Working
  <2>2. \A g \in Held : g < h
    BY <2>1 DEF StoreInv, GivenKept
  <2>3. /\ Held' = Held \union {h} /\ Working'
        /\ UNCHANGED <<db, progress, mode>>
    BY <1>1, <2>1, <2>2, WriteKeeps
  <2>4. CASE mode = "batch-insert"
    <3>1. /\ HeldBlocks = Held /\ HeldBlocks' = Held \union {h}
          /\ StoredBlocks' = StoredBlocks
      BY <1>1, <2>1, <2>3, <2>4 DEF StoreMaps
    <3>2. Store!Accept(h) /\ h \in HeldBlocks'
      BY <2>1, <2>2, <2>3, <3>1 DEF Store!Accept
    <3>3. QED
      BY <3>2 DEF Store!StoreNext
  <2>5. CASE mode # "batch-insert"
    BY <1>1, <2>3, <2>5 DEF StoreMaps, Store!storeVars
  <2>6. QED
    BY <2>4, <2>5
<1>6. CASE CallFlush
  <2>1. Flush /\ Working
    BY <1>6 DEF CallFlush, Flush, Working
  <2>2. Held' = Held /\ Working' /\ UNCHANGED <<db, progress, mode>>
    BY <1>1, <2>1, FlushKeeps
  <2>3. QED
    BY <1>2, <2>1, <2>2
<1>7. CASE SinkRuns
  <2>1. /\ Working /\ Working' /\ mode' = mode
        /\ \/ Held' = Held /\ UNCHANGED <<db, progress>>
           \/ Held' = {} /\ Stores
    BY <1>1, <1>7, SinkStepKeeps DEF SinkRuns
  <2>2. QED
    BY <1>2, <2>1, StoresIsStoreAll
<1>8. CASE SinkFails \/ ProcessEnds
  <2>1. /\ ~Working' /\ mode' = mode
        /\ UNCHANGED <<db, progress>> \/ (Working /\ Stores)
    BY <1>1, <1>8, FailsKeeps DEF SinkFails, ProcessEnds
  <2>2. QED
    BY <1>3, <2>1, StoresIsStoreAll DEF Store!StoreNext
<1>9. CASE ProcessStarts
  <2>1. Held' = {} /\ UNCHANGED <<db, progress, mode>>
    BY <1>1, <1>9, RestartKeeps DEF ProcessStarts
  <2>2. QED
    BY <1>3, <2>1 DEF Store!StoreNext
<1>10. QED
  BY <1>4, <1>5, <1>6, <1>7, <1>8, <1>9 DEF Next

(* The thirteen inserts, the progress row and the COMMIT of a batch flush  *)
(* amount to one atomic step on whole blocks that moves the progress to    *)
(* the highest of them.                                                    *)
THEOREM ImplementsStoreHolds == Spec => ImplementsStore
<1>1. Init => Store!StoreInit
  <2> SUFFICES ASSUME Init PROVE Store!StoreInit
    OBVIOUS
  <2>1. buf[1] = {} /\ txn[1] = {} /\ progress = -1
    BY FirstTable DEF Init, SinkInit, MemInit, Empty, NoProgress
  <2>2. \A h \in Blocks : ~Stored(h)
    BY FirstTable, TablesAssumption DEF Init, SinkInit, Stored, Empty
  <2>3. QED
    BY <2>1, <2>2 DEF Store!StoreInit, StoredBlocks, HeldBlocks
<1>2. StoreInv /\ StoreInv' /\ [Next]_vars => [Store!StoreNext]_(Store!storeVars)
  BY StepIsStoreStep
<1>3. QED
  BY <1>1, <1>2, Invariant, PTL DEF Spec, ImplementsStore, Store!StoreSpec
==============================================================================
