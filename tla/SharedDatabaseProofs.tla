------------------------- MODULE SharedDatabaseProofs -------------------------
(***************************************************************************)
(* Proofs about SharedDatabase, for every set of processes, heights, rows, *)
(* hash moduli and partition size.                                         *)
(***************************************************************************)
EXTENDS SharedDatabase, WellFoundedInduction, TLAPS

USE LimitsAssumption, SharedAssumption

TableCount == Len(TableOrder)

LEMMA TableOrderFacts ==
  /\ TableCount = 10 /\ Len(TableOrder) = 10
  /\ \A t \in TableNames : \E i \in 1..10 : TableOrder[i] = t
  /\ \A i \in 1..10 : TableOrder[i] \in TableNames
  /\ \A i, j \in 1..10 : TableOrder[i] = TableOrder[j] => i = j
<1>1. DOMAIN TableOrder = 1..10 /\ Len(TableOrder) = 10
  BY DEF TableOrder
<1>2. \A i, j \in 1..10 : TableOrder[i] = TableOrder[j] => i = j
  BY DEF TableOrder
<1>3. QED
  BY <1>1, <1>2 DEF TableNames, TableCount

LEMMA RowTables ==
  /\ Shown \subseteq TableNames
  /\ \A h \in Heights : \A t \in TablesOf[h] :
       t \in Shown /\ \E i \in 1..10 : TableOrder[i] = t
BY TableOrderFacts

(* A non-empty set of naturals has a least and, if bounded, a greatest     *)
(* element.                                                                *)
LEMMA HasLeast ==
  ASSUME NEW S \in SUBSET Nat, S # {}
  PROVE  \E m \in S : \A k \in S : m <= k
<1> DEFINE R == OpToRel(<, Nat)
<1>1. IsWellFoundedOn(R, Nat)
  BY NatLessThanWellFounded
<1>2. PICK x \in S : \A y \in S : ~ (<<y, x>> \in R)
  <2> HIDE DEF R
  <2>1. QED
    BY <1>1, WFMin
<1>3. \A y \in S : ~(y < x)
  BY <1>2 DEF OpToRel
<1>4. QED
  BY <1>3

(***************************************************************************)
(* The invariant: what each session has sent, by the statement it is at.   *)
(***************************************************************************)
InTransaction(p) == pc[p] \in {"table", "rows", "progress", "commit"}
Flushing(p) == pc[p] \in {"lock", "check", "create", "unlock"} \/ InTransaction(p)
Row(i, h) == <<TableOrder[i], h>>

(* The tables whose rows have all been sent.                               *)
Done(p, i) ==
  pc[p] \in {"progress", "commit"} \/ i < tab[p] \/ (i = tab[p] /\ pc[p] # "rows")

FlushHasRows(p) == Flushing(p) => flushed[p] < written[p]
NothingOpen(p) == ~InTransaction(p) => tab[p] = 0 /\ sent[p] = {} /\ txn[p] = {}
SentOfTables(p) ==
  \A i \in 1..10, h \in Heights : Row(i, h) \in sent[p] => i <= tab[p]
SentInOrder(p) ==
  pc[p] = "rows" =>
    /\ tab[p] # 0 /\ Left(p) # {}
    /\ \A h \in Heights : Row(tab[p], h) \in sent[p] => \A g \in Left(p) : h < g
TableAhead(p) == pc[p] = "table" => NextTables(p) # {}
SentAll(p) ==
  InTransaction(p) =>
    \A i \in 1..10 : Done(p, i) =>
      \A h \in RowsFor(p, TableOrder[i]) : Row(i, h) \in sent[p]
SentStored(p) == sent[p] \subseteq txn[p] \union db
FlushedStored(p) ==
  \A h \in 1..flushed[p] : \A t \in TablesOf[h] : <<t, h>> \in db

SessionInv(p) ==
  /\ FlushHasRows(p) /\ NothingOpen(p)
  /\ SentOfTables(p) /\ SentInOrder(p) /\ TableAhead(p)
  /\ SentAll(p) /\ SentStored(p) /\ FlushedStored(p)

(* Who is between pg_advisory_lock and pg_advisory_unlock.                 *)
AdvisoryHeld ==
  \A p \in Processes :
    /\ pc[p] \in {"check", "create", "unlock"} => advisory = p
    /\ advisory = p => pc[p] \in {"check", "create", "unlock", "failed"}

NewIsIdle == \A p \in Processes : process[p] = "new" => pc[p] = "idle"

Inv ==
  /\ TypeOK /\ NewIsIdle /\ AdvisoryHeld /\ NoneCreatesTwice /\ ProgressCovered
  /\ \A p \in Processes : SessionInv(p)

------------------------------------------------------------------------------
(* A session is not disturbed by what others commit.                       *)
SameSession(p) ==
  /\ pc'[p] = pc[p] /\ written'[p] = written[p] /\ flushed'[p] = flushed[p]
  /\ tab'[p] = tab[p] /\ sent'[p] = sent[p] /\ txn'[p] = txn[p]

LEMMA SameRows ==
  ASSUME NEW p, written'[p] = written[p], flushed'[p] = flushed[p]
  PROVE  \A t : RowsFor(p, t)' = RowsFor(p, t)
BY DEF RowsFor, minH, maxH

LEMMA SameSessionInv ==
  ASSUME NEW p \in Processes, SessionInv(p), SameSession(p), db \subseteq db'
  PROVE  SessionInv(p)'
<1>1. \A t : RowsFor(p, t)' = RowsFor(p, t)
  BY SameRows DEF SameSession
<1>2. Left(p)' = Left(p) /\ NextTables(p)' = NextTables(p)
  BY <1>1 DEF Left, NextTables, SameSession
<1>3. FlushHasRows(p)' /\ NothingOpen(p)' /\ SentOfTables(p)'
  BY DEF SessionInv, SameSession, FlushHasRows, NothingOpen, SentOfTables, Flushing,
     InTransaction, Row
<1>4. SentInOrder(p)' /\ TableAhead(p)'
  BY <1>2 DEF SessionInv, SameSession, SentInOrder, TableAhead, Row
<1>5. SentAll(p)'
  BY <1>1 DEF SessionInv, SameSession, SentAll, Done, InTransaction, Row
<1>6. SentStored(p)' /\ FlushedStored(p)'
  BY DEF SessionInv, SameSession, SentStored, FlushedStored
<1>7. QED
  BY <1>3, <1>4, <1>5, <1>6 DEF SessionInv

(* A session without an open transaction.                                  *)
LEMMA QuietSessionInv ==
  ASSUME NEW p \in Processes, ~InTransaction(p)', FlushHasRows(p)', FlushedStored(p)',
         tab'[p] = 0, sent'[p] = {}, txn'[p] = {}
  PROVE  SessionInv(p)'
BY DEF SessionInv, NothingOpen, SentOfTables, SentInOrder, TableAhead, SentAll, SentStored,
   InTransaction

LEMMA NextTableIsLeast ==
  ASSUME TypeOK, NEW p \in Processes, NextTables(p) # {}
  PROVE  /\ NextTable(p) \in NextTables(p)
         /\ \A i \in NextTables(p) : NextTable(p) <= i
         /\ NextTable(p) \in 1..10 /\ NextTable(p) > tab[p]
<1>1. tab[p] \in Nat
  <2>1. tab \in [Processes -> 0..Len(TableOrder)]
    BY DEF TypeOK
  <2> DEFINE n == Len(TableOrder)
  <2>2. n = 10
    BY TableOrderFacts
  <2> HIDE DEF n
  <2>3. tab[p] \in 0..10
    BY <2>1, <2>2 DEF n
  <2>4. QED
    BY <2>3
<1>2. NextTables(p) \in SUBSET Nat
  BY <1>1, TableOrderFacts DEF NextTables
<1>3. PICK i \in NextTables(p) : \A j \in NextTables(p) : i <= j
  BY <1>2, HasLeast
<1>4. /\ NextTable(p) \in NextTables(p)
      /\ \A j \in NextTables(p) : NextTable(p) <= j
  BY <1>3 DEF NextTable
<1>5. NextTables(p) \subseteq (tab[p] + 1)..10
  BY TableOrderFacts DEF NextTables
<1>6. NextTable(p) \in (tab[p] + 1)..10
  BY <1>4, <1>5
<1>7. NextTable(p) \in 1..10 /\ NextTable(p) > tab[p]
  BY <1>1, <1>6
<1>8. QED
  BY <1>4, <1>7

LEMMA WantedTable ==
  ASSUME TypeOK, NEW p \in Processes
  PROVE  Wanted(p).table \in Shown \union {"events"}
<1>1. CASE at[p] <= HashModulus[p]
  BY <1>1 DEF Wanted, HashPartition
<1>2. CASE ~(at[p] <= HashModulus[p])
  <2> DEFINE k == at[p] - HashModulus[p] - 1
             n == Len(RangeOrder)
  <2>1. n \in Nat /\ k \in Int
    BY DEF TypeOK
  <2>2. n # 0
    <3>1. "blocks" \in Shown \intersect RANGE_TABLES
      <4>1. "blocks" \in TableNames \ {"events", "event_attrs"}
        OBVIOUS
      <4>2. QED
        BY <4>1 DEF RANGE_TABLES
    <3>2. QED
      BY <2>1, <3>1
  <2>3. (k % n) + 1 \in 1..n
    <3> HIDE DEF k, n
    <3>1. QED
      BY <2>1, <2>2
  <2>4. RangeOrder[(k % n) + 1] \in Shown
    BY <2>3
  <2>5. QED
    BY <1>2, <2>4 DEF Wanted, RangePartition
<1>3. QED
  BY <1>1, <1>2
------------------------------------------------------------------------------
(***************************************************************************)
(* One step of one session: what there is to show about the others.        *)
(***************************************************************************)
OnlyMoves(p) ==
  \A q \in Processes \ {p} :
    SameSession(q) /\ at'[q] = at[q] /\ process'[q] = process[q]

LEMMA SameWanted ==
  ASSUME NEW p, at'[p] = at[p], written'[p] = written[p], flushed'[p] = flushed[p]
  PROVE  Wanted(p)' = Wanted(p)
BY DEF Wanted, minH, maxH

LEMMA SameNoneCreates ==
  ASSUME Inv, NEW p \in Processes, OnlyMoves(p), parts' = parts, pc'[p] # "create"
  PROVE  NoneCreatesTwice'
<1> SUFFICES ASSUME NEW q \in Processes, pc'[q] = "create", NEW r \in parts
             PROVE  ~SameName(r, Wanted(q)')
  BY DEF NoneCreatesTwice, SameName
<1>1. q # p /\ SameSession(q) /\ at'[q] = at[q]
  BY DEF OnlyMoves
<1>2. Wanted(q)' = Wanted(q) /\ pc[q] = "create"
  BY <1>1, SameWanted DEF SameSession
<1>3. QED
  BY <1>2 DEF Inv, NoneCreatesTwice

(* A step that leaves the partitions and does not ask for one.             *)
LEMMA StepKeepsInv ==
  ASSUME Inv, NEW p \in Processes, OnlyMoves(p), parts' = parts, pc'[p] # "create",
         db \subseteq db', TypeOK', AdvisoryHeld', ProgressCovered', SessionInv(p)',
         process'[p] = "new" => pc'[p] = "idle"
  PROVE  Inv'
<1>1. NoneCreatesTwice'
  BY SameNoneCreates
<1>2. \A q \in Processes : SessionInv(q)'
  <2>1. ASSUME NEW q \in Processes, q # p
        PROVE  SessionInv(q)'
    BY <2>1, SameSessionInv DEF Inv, OnlyMoves
  <2>2. QED
    BY <2>1
<1>3. NewIsIdle'
  BY DEF Inv, NewIsIdle, OnlyMoves, SameSession
<1>4. QED
  BY <1>1, <1>2, <1>3 DEF Inv

LEMMA InvInit == Init => Inv
<1> SUFFICES ASSUME Init PROVE Inv
  OBVIOUS
<1>1. TypeOK
  <2>1. \A r \in parts : r.table \in Shown \union {"events"}
    BY DEF Init, Bootstrapped, RangePartition, HashPartition
  <2>2. QED
    BY <2>1, TableOrderFacts DEF Init, TypeOK, Heights, FIRST_BLOCK, NoProgress
<1>2. NewIsIdle /\ AdvisoryHeld /\ NoneCreatesTwice /\ ProgressCovered
  BY DEF Init, NewIsIdle, AdvisoryHeld, NoneCreatesTwice, ProgressCovered, NoProgress
<1>3. \A p \in Processes : SessionInv(p)
  BY DEF Init, SessionInv, FlushHasRows, NothingOpen, SentOfTables, SentInOrder, TableAhead,
     SentAll, SentStored, FlushedStored, Flushing, InTransaction, FIRST_BLOCK
<1>4. QED
  BY <1>1, <1>2, <1>3 DEF Inv

LEMMA StartKeeps ==
  ASSUME Inv, NEW p \in Processes, Start(p)
  PROVE  Inv'
<1> DEFINE resumed == IF progress = NoProgress THEN FIRST_BLOCK - 1 ELSE progress
<1>1. /\ process[p] = "new" /\ process' = [process EXCEPT ![p] = "up"]
      /\ written' = [written EXCEPT ![p] = resumed]
      /\ flushed' = [flushed EXCEPT ![p] = resumed]
      /\ UNCHANGED <<pc, place, txn, shared>>
  BY DEF Start
<1>2. resumed \in {FIRST_BLOCK - 1} \union Heights
  BY DEF Inv, TypeOK
<1>3. pc[p] = "idle" /\ pc'[p] = "idle" /\ process'[p] = "up"
  BY <1>1 DEF Inv, NewIsIdle, TypeOK
<1>4. OnlyMoves(p)
  BY <1>1 DEF OnlyMoves, SameSession, place, Inv, TypeOK
<1>5. TypeOK'
  <2>1. \A q \in Processes : flushed'[q] <= written'[q]
    BY <1>1, <1>2 DEF Inv, TypeOK, Heights, FIRST_BLOCK
  <2>2. QED
    BY <1>1, <1>2, <2>1 DEF Inv, TypeOK, place, shared
<1>6. AdvisoryHeld' /\ ProgressCovered'
  BY <1>1 DEF Inv, AdvisoryHeld, ProgressCovered, shared
<1>7. FlushedStored(p)'
  <2>1. flushed'[p] = resumed
    BY <1>1 DEF Inv, TypeOK
  <2>2. CASE progress = NoProgress
    BY <2>1, <2>2 DEF FlushedStored, FIRST_BLOCK
  <2>3. CASE progress # NoProgress
    BY <1>1, <2>1, <2>3 DEF Inv, ProgressCovered, FlushedStored, shared, FIRST_BLOCK
  <2>4. QED
    BY <2>2, <2>3
<1>8. SessionInv(p)'
  <2>1. tab'[p] = 0 /\ sent'[p] = {} /\ txn'[p] = {}
    BY <1>1, <1>3 DEF Inv, SessionInv, NothingOpen, InTransaction, place
  <2>2. FlushHasRows(p)' /\ ~InTransaction(p)'
    BY <1>3 DEF FlushHasRows, Flushing, InTransaction
  <2>3. QED
    BY <1>7, <2>1, <2>2, QuietSessionInv
<1>9. QED
  BY <1>1, <1>3, <1>4, <1>5, <1>6, <1>8, StepKeepsInv DEF shared

LEMMA WriteBlockKeeps ==
  ASSUME Inv, NEW p \in Processes, WriteBlock(p)
  PROVE  Inv'
<1>1. PICK to \in {"idle", "lock"} : pc[p] = "idle" /\ pc' = [pc EXCEPT ![p] = to]
  BY DEF WriteBlock, Goes
<1>2. /\ process[p] = "up" /\ written[p] < MaxHeight
      /\ written' = [written EXCEPT ![p] = @ + 1]
      /\ UNCHANGED <<process, flushed, at, tab, sent, txn, advisory, parts, db, progress>>
  BY DEF WriteBlock, Up, place, shared
<1>3. /\ pc'[p] = to /\ written'[p] = written[p] + 1
      /\ written[p] \in Nat /\ flushed[p] \in Nat /\ flushed[p] <= written[p]
  BY <1>1, <1>2 DEF Inv, TypeOK, Heights, FIRST_BLOCK
<1>4. OnlyMoves(p)
  BY <1>1, <1>2 DEF OnlyMoves, SameSession, Inv, TypeOK
<1>5. TypeOK'
  <2>1. written[p] + 1 \in Heights
    BY <1>2, <1>3 DEF Heights, FIRST_BLOCK
  <2>2. \A q \in Processes : flushed'[q] <= written'[q]
    BY <1>2, <1>3 DEF Inv, TypeOK
  <2>3. QED
    BY <1>1, <1>2, <2>1, <2>2 DEF Inv, TypeOK
<1>6. AdvisoryHeld' /\ ProgressCovered'
  BY <1>1, <1>2 DEF Inv, TypeOK, AdvisoryHeld, ProgressCovered
<1>7. SessionInv(p)'
  <2>1. tab'[p] = 0 /\ sent'[p] = {} /\ txn'[p] = {}
    BY <1>1, <1>2 DEF Inv, SessionInv, NothingOpen, InTransaction
  <2>2. FlushHasRows(p)' /\ ~InTransaction(p)'
    BY <1>2, <1>3 DEF FlushHasRows, Flushing, InTransaction
  <2>3. FlushedStored(p)'
    BY <1>2 DEF Inv, SessionInv, FlushedStored
  <2>4. QED
    BY <2>1, <2>2, <2>3, QuietSessionInv
<1>8. QED
  BY <1>1, <1>2, <1>3, <1>4, <1>5, <1>6, <1>7, StepKeepsInv

(* A step that changes nothing but where a session without a transaction   *)
(* is, who has the advisory lock, and the processes that live.             *)
LEMMA QuietStepKeeps ==
  ASSUME Inv, NEW p \in Processes, ~InTransaction(p), NEW to, pc' = [pc EXCEPT ![p] = to],
         ~InTransaction(p)', FlushHasRows(p)', OnlyMoves(p), TypeOK', AdvisoryHeld',
         to # "create", process'[p] = "new" => to = "idle",
         UNCHANGED <<written, flushed, tab, sent, txn, parts, db, progress>>
  PROVE  Inv'
<1>1. tab'[p] = 0 /\ sent'[p] = {} /\ txn'[p] = {} /\ pc'[p] = to
  BY DEF Inv, SessionInv, NothingOpen, TypeOK
<1>2. FlushedStored(p)' /\ ProgressCovered'
  BY DEF Inv, SessionInv, FlushedStored, ProgressCovered
<1>3. QED
  BY <1>1, <1>2, QuietSessionInv, StepKeepsInv

LEMMA FlushRoundKeeps ==
  ASSUME Inv, NEW p \in Processes, FlushRound(p)
  PROVE  Inv'
<1>1. /\ process[p] = "up" /\ pc[p] = "idle" /\ pc' = [pc EXCEPT ![p] = "lock"]
      /\ flushed[p] < written[p]
      /\ UNCHANGED <<process, written, flushed, at, tab, sent, txn, advisory, parts, db, progress>>
  BY DEF FlushRound, Up, Goes, memory, place, shared, Inv, TypeOK, Heights, FIRST_BLOCK
<1>2. OnlyMoves(p) /\ TypeOK' /\ AdvisoryHeld'
  <2>1. OnlyMoves(p)
    BY <1>1 DEF OnlyMoves, SameSession, Inv, TypeOK
  <2>2. TypeOK'
    BY <1>1 DEF Inv, TypeOK
  <2>3. AdvisoryHeld'
    BY <1>1 DEF Inv, TypeOK, AdvisoryHeld
  <2>4. QED
    BY <2>1, <2>2, <2>3
<1>3. ~InTransaction(p) /\ ~InTransaction(p)' /\ FlushHasRows(p)'
  BY <1>1 DEF InTransaction, FlushHasRows, Inv, TypeOK
<1>4. QED
  BY <1>1, <1>2, <1>3, QuietStepKeeps

LEMMA TakeLockKeeps ==
  ASSUME Inv, NEW p \in Processes, TakeLock(p)
  PROVE  Inv'
<1>1. /\ pc[p] = "lock" /\ pc' = [pc EXCEPT ![p] = "check"] /\ WaitsFor(p) = {}
      /\ advisory' = p /\ at' = [at EXCEPT ![p] = 1]
      /\ UNCHANGED <<process, written, flushed, tab, sent, txn, parts, db, progress>>
  BY DEF TakeLock, Goes, memory
<1>2. advisory \in {NoOwner, p}
  BY <1>1 DEF WaitsFor, LockHolders, AdvisoryGranted
<1>3. OnlyMoves(p) /\ TypeOK' /\ AdvisoryHeld'
  <2>1. OnlyMoves(p)
    BY <1>1 DEF OnlyMoves, SameSession, Inv, TypeOK
  <2>2. TypeOK'
    BY <1>1 DEF Inv, TypeOK
  <2>3. AdvisoryHeld'
    BY <1>1, <1>2 DEF Inv, TypeOK, AdvisoryHeld
  <2>4. QED
    BY <2>1, <2>2, <2>3
<1>4. ~InTransaction(p) /\ ~InTransaction(p)' /\ FlushHasRows(p)'
  BY <1>1 DEF InTransaction, FlushHasRows, Flushing, Inv, SessionInv, TypeOK
<1>5. process[p] # "new"
  BY <1>1 DEF Inv, NewIsIdle
<1>6. QED
  BY <1>1, <1>3, <1>4, <1>5, QuietStepKeeps

LEMMA SkipPartitionKeeps ==
  ASSUME Inv, NEW p \in Processes, SkipPartition(p)
  PROVE  Inv'
<1>1. PICK to \in {"unlock", "check"} :
      /\ process[p] = "up" /\ pc[p] = "check" /\ pc' = [pc EXCEPT ![p] = to]
      /\ at' = [at EXCEPT ![p] = @ + 1]
      /\ UNCHANGED <<process, written, flushed, tab, sent, txn, advisory, parts, db, progress>>
  BY DEF SkipPartition, AfterPartition, Up, Goes, memory, shared
<1>2. OnlyMoves(p) /\ TypeOK' /\ AdvisoryHeld'
  <2>1. OnlyMoves(p)
    BY <1>1 DEF OnlyMoves, SameSession, Inv, TypeOK
  <2>2. TypeOK'
    BY <1>1 DEF Inv, TypeOK
  <2>3. AdvisoryHeld'
    BY <1>1 DEF Inv, TypeOK, AdvisoryHeld
  <2>4. QED
    BY <2>1, <2>2, <2>3
<1>3. ~InTransaction(p) /\ ~InTransaction(p)' /\ FlushHasRows(p)'
  BY <1>1 DEF InTransaction, FlushHasRows, Flushing, Inv, SessionInv, TypeOK
<1>4. QED
  BY <1>1, <1>2, <1>3, QuietStepKeeps

LEMMA AskPartitionKeeps ==
  ASSUME Inv, NEW p \in Processes, AskPartition(p)
  PROVE  Inv'
<1>1. /\ process[p] = "up" /\ pc[p] = "check" /\ pc' = [pc EXCEPT ![p] = "create"]
      /\ ~Exists(p)
      /\ UNCHANGED <<process, written, flushed, at, tab, sent, txn, advisory, parts, db, progress>>
  BY DEF AskPartition, Up, Goes, memory, place, shared
<1>2. TypeOK' /\ AdvisoryHeld' /\ NewIsIdle' /\ ProgressCovered'
  <2>1. TypeOK'
    BY <1>1 DEF Inv, TypeOK
  <2>2. AdvisoryHeld' /\ NewIsIdle' /\ ProgressCovered'
    BY <1>1 DEF Inv, TypeOK, AdvisoryHeld, NewIsIdle, ProgressCovered
  <2>3. QED
    BY <2>1, <2>2
<1>3. NoneCreatesTwice'
  <2> SUFFICES ASSUME NEW q \in Processes, pc'[q] = "create", NEW r \in parts
               PROVE  ~SameName(r, Wanted(q)')
    BY <1>1 DEF NoneCreatesTwice, SameName
  <2>1. Wanted(q)' = Wanted(q)
    BY <1>1, SameWanted
  <2>2. CASE q = p
    BY <1>1, <2>1, <2>2 DEF Exists
  <2>3. CASE q # p
    BY <1>1, <2>1, <2>3 DEF Inv, TypeOK, NoneCreatesTwice
  <2>4. QED
    BY <2>2, <2>3
<1>4. \A q \in Processes : SessionInv(q)'
  <2>1. ASSUME NEW q \in Processes, q # p
        PROVE  SessionInv(q)'
    BY <1>1, <2>1, SameSessionInv DEF Inv, SameSession, TypeOK
  <2>2. SessionInv(p)'
    <3>1. tab'[p] = 0 /\ sent'[p] = {} /\ txn'[p] = {} /\ flushed[p] < written[p]
      BY <1>1 DEF Inv, SessionInv, NothingOpen, FlushHasRows, Flushing, InTransaction
    <3>2. FlushHasRows(p)' /\ ~InTransaction(p)' /\ FlushedStored(p)'
      BY <1>1, <3>1 DEF Inv, TypeOK, SessionInv, FlushHasRows, FlushedStored, InTransaction
    <3>3. QED
      BY <3>1, <3>2, QuietSessionInv
  <2>3. QED
    BY <2>1, <2>2
<1>5. QED
  BY <1>2, <1>3, <1>4 DEF Inv

(* The one that holds the advisory lock creates what it found missing.     *)
LEMMA CreatePartitionKeeps ==
  ASSUME Inv, NEW p \in Processes, CreatePartition(p)
  PROVE  Inv'
<1>1. PICK to \in {"unlock", "check"} :
      /\ pc[p] = "create" /\ pc' = [pc EXCEPT ![p] = to]
      /\ parts' = parts \union {Wanted(p)} /\ at' = [at EXCEPT ![p] = @ + 1]
      /\ UNCHANGED <<process, written, flushed, tab, sent, txn, advisory, db, progress>>
  BY DEF CreatePartition, AfterPartition, Goes, memory
<1>2. TypeOK' /\ AdvisoryHeld' /\ NewIsIdle' /\ ProgressCovered'
  <2>1. TypeOK
    BY DEF Inv
  <2>2. \A r \in parts' : r.table \in Shown \union {"events"}
    BY <1>1, <2>1, WantedTable DEF TypeOK
  <2>3. TypeOK'
    BY <1>1, <2>1, <2>2 DEF TypeOK
  <2>4. AdvisoryHeld' /\ NewIsIdle' /\ ProgressCovered'
    BY <1>1 DEF Inv, TypeOK, AdvisoryHeld, NewIsIdle, ProgressCovered
  <2>5. QED
    BY <2>3, <2>4
<1>3. NoneCreatesTwice'
  <2>1. \A q \in Processes : pc'[q] # "create"
    BY <1>1 DEF Inv, TypeOK, AdvisoryHeld
  <2>2. QED
    BY <2>1 DEF NoneCreatesTwice
<1>4. \A q \in Processes : SessionInv(q)'
  <2>1. ASSUME NEW q \in Processes, q # p
        PROVE  SessionInv(q)'
    BY <1>1, <2>1, SameSessionInv DEF Inv, SameSession, TypeOK
  <2>2. SessionInv(p)'
    <3>1. tab'[p] = 0 /\ sent'[p] = {} /\ txn'[p] = {} /\ flushed[p] < written[p]
      BY <1>1 DEF Inv, SessionInv, NothingOpen, FlushHasRows, Flushing, InTransaction
    <3>2. FlushHasRows(p)' /\ ~InTransaction(p)' /\ FlushedStored(p)'
      BY <1>1, <3>1 DEF Inv, TypeOK, SessionInv, FlushHasRows, FlushedStored, InTransaction
    <3>3. QED
      BY <3>1, <3>2, QuietSessionInv
  <2>3. QED
    BY <2>1, <2>2
<1>5. QED
  BY <1>2, <1>3, <1>4 DEF Inv

LEMMA CreateFailsKeeps ==
  ASSUME Inv, NEW p \in Processes, CreateFails(p)
  PROVE  Inv'
<1>1. /\ pc[p] = "create" /\ pc' = [pc EXCEPT ![p] = "failed"]
      /\ advisory' \in {NoOwner, advisory}
      /\ UNCHANGED <<process, written, flushed, at, tab, sent, txn, parts, db, progress>>
  BY DEF CreateFails, Goes, memory, place, Unlocked
<1>2. OnlyMoves(p) /\ TypeOK' /\ AdvisoryHeld'
  <2>1. OnlyMoves(p)
    BY <1>1 DEF OnlyMoves, SameSession, Inv, TypeOK
  <2>2. TypeOK'
    BY <1>1 DEF Inv, TypeOK
  <2>3. AdvisoryHeld'
    <3>1. advisory = p
      BY <1>1 DEF Inv, AdvisoryHeld
    <3>2. \A q \in Processes : q # p => pc'[q] = pc[q] /\ pc[q] \notin {"check", "create", "unlock"}
      BY <1>1, <3>1 DEF Inv, TypeOK, AdvisoryHeld
    <3>3. p # NoOwner
      BY SharedAssumption
    <3>4. QED
      BY <1>1, <3>1, <3>2, <3>3 DEF Inv, TypeOK, AdvisoryHeld
  <2>4. QED
    BY <2>1, <2>2, <2>3
<1>3. ~InTransaction(p) /\ ~InTransaction(p)' /\ FlushHasRows(p)'
  BY <1>1 DEF InTransaction, FlushHasRows, Flushing, Inv, SessionInv, TypeOK
<1>4. process[p] # "new"
  BY <1>1 DEF Inv, NewIsIdle
<1>5. QED
  BY <1>1, <1>2, <1>3, <1>4, QuietStepKeeps

LEMMA KillKeeps ==
  ASSUME Inv, NEW p \in Processes, Kill(p)
  PROVE  Inv'
<1>1. /\ process[p] = "up" /\ process' = [process EXCEPT ![p] = "dead"]
      /\ UNCHANGED <<pc, written, flushed, at, tab, sent, txn, advisory, parts, db, progress>>
  BY DEF Kill, Up, place, shared
<1>2. TypeOK' /\ AdvisoryHeld' /\ NewIsIdle' /\ ProgressCovered'
  <2>1. TypeOK'
    BY <1>1 DEF Inv, TypeOK
  <2>2. AdvisoryHeld' /\ NewIsIdle' /\ ProgressCovered'
    BY <1>1 DEF Inv, TypeOK, AdvisoryHeld, NewIsIdle, ProgressCovered
  <2>3. QED
    BY <2>1, <2>2
<1>3. NoneCreatesTwice'
  <2> SUFFICES ASSUME NEW q \in Processes, pc[q] = "create", NEW r \in parts
               PROVE  ~SameName(r, Wanted(q)')
    BY <1>1 DEF NoneCreatesTwice, SameName
  <2>1. Wanted(q)' = Wanted(q)
    BY <1>1, SameWanted
  <2>2. QED
    BY <2>1 DEF Inv, NoneCreatesTwice
<1>4. \A q \in Processes : SessionInv(q)'
  BY <1>1, SameSessionInv DEF Inv, SameSession
<1>5. QED
  BY <1>2, <1>3, <1>4 DEF Inv

(* ROLLBACK and the end of a session.                                      *)
LEMMA EndsKeeps ==
  ASSUME Inv, NEW p \in Processes, EndSession(p)
  PROVE  Inv'
<1>1. /\ pc' = [pc EXCEPT ![p] = "ended"]
      /\ process' = [process EXCEPT ![p] = "dead"]
      /\ advisory' = IF advisory = p THEN NoOwner ELSE advisory
      /\ at' = [at EXCEPT ![p] = 0] /\ tab' = [tab EXCEPT ![p] = 0]
      /\ sent' = [sent EXCEPT ![p] = {}] /\ txn' = [txn EXCEPT ![p] = {}]
      /\ UNCHANGED <<written, flushed, parts, db, progress>>
  BY DEF EndSession, Released
<1>2. TypeOK'
  BY <1>1, TableOrderFacts DEF Inv, TypeOK
<1>3. AdvisoryHeld' /\ ProgressCovered'
  BY <1>1 DEF Inv, TypeOK, AdvisoryHeld, ProgressCovered
<1>4. OnlyMoves(p)
  BY <1>1 DEF OnlyMoves, SameSession, Inv, TypeOK
<1>5. pc'[p] = "ended" /\ process'[p] = "dead"
  BY <1>1 DEF Inv, TypeOK
<1>6. SessionInv(p)'
  <2>1. tab'[p] = 0 /\ sent'[p] = {} /\ txn'[p] = {}
    BY <1>1 DEF Inv, TypeOK
  <2>2. FlushHasRows(p)' /\ ~InTransaction(p)' /\ FlushedStored(p)'
    BY <1>1, <1>5 DEF FlushHasRows, Flushing, InTransaction, FlushedStored, Inv, SessionInv
  <2>3. QED
    BY <2>1, <2>2, QuietSessionInv
<1>7. QED
  BY <1>1, <1>2, <1>3, <1>4, <1>5, <1>6, StepKeepsInv

LEMMA WaitTimesOutKeeps ==
  ASSUME Inv, NEW p \in Processes, WaitTimesOut(p)
  PROVE  Inv'
<1>1. /\ pc[p] \in {"table", "rows", "progress"} /\ pc' = [pc EXCEPT ![p] = "failed"]
      /\ tab' = [tab EXCEPT ![p] = 0]
      /\ sent' = [sent EXCEPT ![p] = {}] /\ txn' = [txn EXCEPT ![p] = {}]
      /\ UNCHANGED <<process, written, flushed, at, advisory, parts, db, progress>>
  BY DEF WaitTimesOut, Goes, Released, memory, shared
<1>2. TypeOK'
  BY <1>1, TableOrderFacts DEF Inv, TypeOK
<1>3. AdvisoryHeld' /\ ProgressCovered'
  BY <1>1 DEF Inv, TypeOK, AdvisoryHeld, ProgressCovered
<1>4. OnlyMoves(p)
  BY <1>1 DEF OnlyMoves, SameSession, Inv, TypeOK
<1>5. pc'[p] = "failed" /\ process'[p] # "new"
  BY <1>1 DEF Inv, TypeOK, NewIsIdle
<1>6. SessionInv(p)'
  <2>1. tab'[p] = 0 /\ sent'[p] = {} /\ txn'[p] = {}
    BY <1>1 DEF Inv, TypeOK
  <2>2. FlushHasRows(p)' /\ ~InTransaction(p)' /\ FlushedStored(p)'
    BY <1>1, <1>5 DEF FlushHasRows, Flushing, InTransaction, FlushedStored, Inv, SessionInv
  <2>3. QED
    BY <2>1, <2>2, QuietSessionInv
<1>7. QED
  BY <1>1, <1>2, <1>3, <1>4, <1>5, <1>6, StepKeepsInv

(***************************************************************************)
(* The transaction.                                                        *)
(***************************************************************************)
LEMMA RowsForHeights ==
  ASSUME TypeOK, NEW p \in Processes, NEW t
  PROVE  RowsFor(p, t) \subseteq Heights
<1>1. /\ flushed[p] \in Nat /\ written[p] \in Nat /\ MaxHeight \in Nat
      /\ written[p] <= MaxHeight
  BY DEF TypeOK, Heights, FIRST_BLOCK
<1>2. (flushed[p] + 1)..written[p] \subseteq 1..MaxHeight
  BY <1>1
<1>3. QED
  BY <1>2 DEF RowsFor, minH, maxH, Heights, FIRST_BLOCK

LEMMA NoTableLeft ==
  ASSUME TypeOK, NEW p \in Processes, NextTables(p) = {}, NEW i \in 1..10, i > tab[p]
  PROVE  RowsFor(p, TableOrder[i]) = {}
<1>1. tab[p] \in 0..10
  BY TableOrderFacts DEF TypeOK
<1>2. i \in (tab[p] + 1)..Len(TableOrder)
  BY <1>1, TableOrderFacts
<1>3. QED
  BY <1>2 DEF NextTables

LEMMA LeftIsRest ==
  ASSUME NEW p
  PROVE  Left(p) = {h \in RowsFor(p, TableOrder[tab[p]]) : Row(tab[p], h) \notin sent[p]}
BY DEF Left, Row

LEMMA UnlockKeeps ==
  ASSUME Inv, NEW p \in Processes, Unlock(p)
  PROVE  Inv'
<1>1. PICK to \in {"progress", "table"} :
      /\ to = AfterTable(p)
      /\ process[p] = "up" /\ pc[p] = "unlock" /\ pc' = [pc EXCEPT ![p] = to]
      /\ advisory' = NoOwner /\ at' = [at EXCEPT ![p] = 0]
      /\ UNCHANGED <<process, written, flushed, tab, sent, txn, parts, db, progress>>
  BY DEF Unlock, Unlocked, AfterTable, Up, Goes, memory
<1>2. TypeOK'
  BY <1>1 DEF Inv, TypeOK
<1>3. AdvisoryHeld' /\ ProgressCovered'
  BY <1>1 DEF Inv, TypeOK, AdvisoryHeld, ProgressCovered
<1>4. OnlyMoves(p)
  BY <1>1 DEF OnlyMoves, SameSession, Inv, TypeOK
<1>5. /\ pc'[p] = to /\ tab[p] = 0 /\ sent[p] = {} /\ txn[p] = {}
      /\ flushed[p] < written[p] /\ FlushedStored(p)
  BY <1>1 DEF Inv, TypeOK, SessionInv, NothingOpen, FlushHasRows, Flushing, InTransaction
<1>6. SessionInv(p)'
  <2>1. \A t : RowsFor(p, t)' = RowsFor(p, t)
    BY <1>1, SameRows
  <2>2. NextTables(p)' = NextTables(p)
    BY <1>1, <2>1 DEF NextTables
  <2>3. FlushHasRows(p)' /\ NothingOpen(p)' /\ SentOfTables(p)' /\ SentInOrder(p)'
    BY <1>1, <1>5 DEF FlushHasRows, NothingOpen, InTransaction, SentOfTables, SentInOrder
  <2>4. TableAhead(p)'
    BY <1>1, <1>5, <2>2 DEF TableAhead, AfterTable
  <2>5. SentAll(p)'
    <3> SUFFICES ASSUME NEW i \in 1..10, Done(p, i)', NEW h \in RowsFor(p, TableOrder[i])
                 PROVE  Row(i, h) \in sent'[p]
      BY <2>1 DEF SentAll, Row
    <3>1. pc'[p] = "progress"
      BY <1>1, <1>5 DEF Done
    <3>2. NextTables(p) = {}
      BY <1>1, <1>5, <3>1 DEF AfterTable
    <3>3. i > tab[p] /\ TypeOK
      BY <1>5 DEF Inv
    <3>4. RowsFor(p, TableOrder[i]) = {}
      BY <3>2, <3>3, NoTableLeft
    <3>5. QED
      BY <3>4
  <2>6. SentStored(p)' /\ FlushedStored(p)'
    BY <1>1, <1>5 DEF SentStored, FlushedStored
  <2>7. QED
    BY <2>3, <2>4, <2>5, <2>6 DEF SessionInv
<1>7. QED
  BY <1>1, <1>2, <1>3, <1>4, <1>5, <1>6, StepKeepsInv

LEMMA StartTableKeeps ==
  ASSUME Inv, NEW p \in Processes, StartTable(p)
  PROVE  Inv'
<1> DEFINE n == NextTable(p)
<1>1. /\ process[p] = "up" /\ pc[p] = "table" /\ pc' = [pc EXCEPT ![p] = "rows"]
      /\ tab' = [tab EXCEPT ![p] = n]
      /\ UNCHANGED <<process, written, flushed, at, sent, txn, advisory, parts, db, progress>>
  BY DEF StartTable, Up, Goes, memory, shared
<1>2. /\ n \in NextTables(p) /\ n \in 1..10 /\ n > tab[p]
      /\ \A i \in NextTables(p) : n <= i
  <2>1. TypeOK /\ NextTables(p) # {}
    BY <1>1 DEF Inv, SessionInv, TableAhead
  <2>2. QED
    BY <2>1, NextTableIsLeast
<1> HIDE DEF n
<1>3. pc'[p] = "rows" /\ tab'[p] = n /\ tab[p] \in 0..10
  BY <1>1, TableOrderFacts DEF Inv, TypeOK
<1>4. TypeOK'
  BY <1>1, <1>2, TableOrderFacts DEF Inv, TypeOK
<1>5. AdvisoryHeld' /\ ProgressCovered'
  BY <1>1 DEF Inv, TypeOK, AdvisoryHeld, ProgressCovered
<1>6. OnlyMoves(p)
  BY <1>1 DEF OnlyMoves, SameSession, Inv, TypeOK
<1>7. SessionInv(p)'
  <2>1. \A t : RowsFor(p, t)' = RowsFor(p, t)
    BY <1>1, SameRows
  <2>2. FlushHasRows(p)' /\ NothingOpen(p)' /\ TableAhead(p)'
    BY <1>1, <1>3 DEF Inv, SessionInv, FlushHasRows, Flushing, InTransaction, NothingOpen,
       TableAhead
  <2>3. SentOfTables(p)'
    <3> SUFFICES ASSUME NEW i \in 1..10, NEW h \in Heights, Row(i, h) \in sent[p]
                 PROVE  i <= n
      BY <1>1, <1>3 DEF SentOfTables, Row
    <3>1. i <= tab[p]
      BY DEF Inv, SessionInv, SentOfTables
    <3>2. QED
      BY <1>2, <1>3, <3>1
  <2>4. \A h \in Heights : Row(n, h) \notin sent[p]
    <3>1. SentOfTables(p)
      BY DEF Inv, SessionInv
    <3>2. n \in 1..10 /\ ~(n <= tab[p])
      BY <1>2, <1>3
    <3>3. QED
      BY <3>1, <3>2 DEF SentOfTables
  <2>5. SentInOrder(p)'
    <3>1. Left(p)' = {h \in RowsFor(p, TableOrder[n]) : Row(n, h) \notin sent[p]}
      BY <1>1, <1>3, <2>1 DEF Left, Row
    <3>2. Left(p)' = RowsFor(p, TableOrder[n])
      BY <2>4, <3>1, RowsForHeights DEF Inv
    <3>3. Left(p)' # {}
      BY <1>2, <3>2 DEF NextTables
    <3>4. QED
      BY <1>1, <1>2, <1>3, <2>4, <3>3 DEF SentInOrder, Row
  <2>6. SentAll(p)'
    <3> SUFFICES ASSUME NEW i \in 1..10, Done(p, i)', NEW h \in RowsFor(p, TableOrder[i])
                 PROVE  Row(i, h) \in sent[p]
      BY <1>1, <2>1 DEF SentAll, Row
    <3>1. i < n
      BY <1>3 DEF Done
    <3>2. i \notin NextTables(p)
      BY <1>2, <3>1
    <3>3. i <= tab[p]
      BY <1>3, <3>2, TableOrderFacts DEF NextTables
    <3>4. Done(p, i) /\ InTransaction(p)
      BY <1>1, <1>3, <3>3 DEF Done, InTransaction
    <3>5. QED
      BY <3>4 DEF Inv, SessionInv, SentAll
  <2>7. SentStored(p)' /\ FlushedStored(p)'
    BY <1>1 DEF Inv, SessionInv, SentStored, FlushedStored
  <2>8. QED
    BY <2>2, <2>3, <2>5, <2>6, <2>7 DEF SessionInv
<1>8. QED
  BY <1>1, <1>3, <1>4, <1>5, <1>6, <1>7, StepKeepsInv

LEMMA UpsertProgressKeeps ==
  ASSUME Inv, NEW p \in Processes, UpsertProgress(p)
  PROVE  Inv'
<1>1. /\ process[p] = "up" /\ pc[p] = "progress" /\ pc' = [pc EXCEPT ![p] = "commit"]
      /\ UNCHANGED <<process, written, flushed, at, tab, sent, txn, advisory, parts, db, progress>>
  BY DEF UpsertProgress, Up, Goes, memory, place, shared
<1>2. TypeOK'
  BY <1>1 DEF Inv, TypeOK
<1>3. AdvisoryHeld' /\ ProgressCovered'
  BY <1>1 DEF Inv, TypeOK, AdvisoryHeld, ProgressCovered
<1>4. OnlyMoves(p) /\ pc'[p] = "commit"
  BY <1>1 DEF OnlyMoves, SameSession, Inv, TypeOK
<1>5. SessionInv(p)'
  <2>1. \A t : RowsFor(p, t)' = RowsFor(p, t)
    BY <1>1, SameRows
  <2>2. FlushHasRows(p)' /\ NothingOpen(p)' /\ SentOfTables(p)' /\ SentInOrder(p)' /\ TableAhead(p)'
    BY <1>1, <1>4 DEF Inv, SessionInv, FlushHasRows, Flushing, InTransaction, NothingOpen,
       SentOfTables, SentInOrder, TableAhead, Row
  <2>3. SentAll(p)'
    BY <1>1, <1>4, <2>1 DEF Inv, SessionInv, SentAll, Done, InTransaction, Row
  <2>4. SentStored(p)' /\ FlushedStored(p)'
    BY <1>1 DEF Inv, SessionInv, SentStored, FlushedStored
  <2>5. QED
    BY <2>2, <2>3, <2>4 DEF SessionInv
<1>6. QED
  BY <1>1, <1>2, <1>3, <1>4, <1>5, StepKeepsInv

(* At COMMIT every row the process holds is sent, and the progress moves   *)
(* to the last of them.                                                    *)
LEMMA CommitKeeps ==
  ASSUME Inv, NEW p \in Processes, Commit(p)
  PROVE  Inv'
<1>1. /\ pc[p] = "commit" /\ pc' = [pc EXCEPT ![p] = "idle"]
      /\ db' = db \union txn[p] /\ progress' = written[p]
      /\ flushed' = [flushed EXCEPT ![p] = written[p]]
      /\ tab' = [tab EXCEPT ![p] = 0]
      /\ sent' = [sent EXCEPT ![p] = {}] /\ txn' = [txn EXCEPT ![p] = {}]
      /\ UNCHANGED <<process, written, at, advisory, parts>>
  BY DEF Commit, Goes, Released, maxH
<1>2. /\ flushed[p] < written[p] /\ written[p] \in Heights /\ flushed[p] \in Nat
      /\ written[p] \in Nat
  BY <1>1 DEF Inv, TypeOK, SessionInv, FlushHasRows, Flushing, InTransaction, Heights, FIRST_BLOCK
<1>3. TypeOK'
  <2>1. \A q \in Processes : flushed'[q] <= written'[q]
    BY <1>1, <1>2 DEF Inv, TypeOK
  <2>2. db' \subseteq Shown \X Heights
    BY <1>1 DEF Inv, TypeOK
  <2>3. QED
    BY <1>1, <1>2, <2>1, <2>2, TableOrderFacts DEF Inv, TypeOK
<1>4. \A h \in 1..written[p] : \A t \in TablesOf[h] : <<t, h>> \in db'
  <2> SUFFICES ASSUME NEW h \in 1..written[p], NEW t \in TablesOf[h]
               PROVE  <<t, h>> \in db'
    OBVIOUS
  <2>1. CASE h <= flushed[p]
    BY <1>1, <1>2, <2>1 DEF Inv, SessionInv, FlushedStored
  <2>2. CASE h > flushed[p]
    <3>1. h \in minH(p)..maxH(p) /\ h \in Heights
      BY <1>2, <2>2 DEF minH, maxH, Heights, FIRST_BLOCK
    <3>2. PICK i \in 1..10 : TableOrder[i] = t
      BY <3>1, RowTables
    <3>3. h \in RowsFor(p, TableOrder[i])
      BY <3>1, <3>2 DEF RowsFor
    <3>4. Row(i, h) \in sent[p]
      BY <1>1, <3>3 DEF Inv, SessionInv, SentAll, Done, InTransaction
    <3>5. QED
      BY <1>1, <3>2, <3>4 DEF Inv, SessionInv, SentStored, Row
  <2>3. QED
    BY <1>2, <2>1, <2>2
<1>5. AdvisoryHeld' /\ ProgressCovered'
  BY <1>1, <1>4 DEF Inv, TypeOK, AdvisoryHeld, ProgressCovered, FIRST_BLOCK
<1>6. OnlyMoves(p) /\ pc'[p] = "idle"
  BY <1>1 DEF OnlyMoves, SameSession, Inv, TypeOK
<1>7. SessionInv(p)'
  <2>1. tab'[p] = 0 /\ sent'[p] = {} /\ txn'[p] = {} /\ flushed'[p] = written[p]
    BY <1>1 DEF Inv, TypeOK
  <2>2. FlushHasRows(p)' /\ ~InTransaction(p)' /\ FlushedStored(p)'
    BY <1>4, <1>6, <2>1 DEF FlushHasRows, Flushing, InTransaction, FlushedStored
  <2>3. QED
    BY <2>1, <2>2, QuietSessionInv
<1>8. QED
  BY <1>1, <1>3, <1>5, <1>6, <1>7, StepKeepsInv

LEMMA InsertRowKeeps ==
  ASSUME Inv, NEW p \in Processes, NEW h \in Heights, InsertRow(p, h)
  PROVE  Inv'
<1> DEFINE row == <<TableOrder[tab[p]], h>>
           last == Left(p) = {h}
<1>1. PICK to \in {"rows", "table", "progress"} :
      /\ to = IF last THEN AfterTable(p) ELSE "rows"
      /\ pc[p] = "rows" /\ pc' = [pc EXCEPT ![p] = to]
      /\ sent' = [sent EXCEPT ![p] = @ \union {row}]
      /\ txn' = [txn EXCEPT ![p] = IF Locks(row) THEN @ \union {row} ELSE @]
      /\ UNCHANGED <<process, written, flushed, at, tab, advisory, parts, db, progress>>
  BY DEF InsertRow, Goes, AfterTable, memory, shared
<1>2. /\ h \in Left(p) /\ \A g \in Left(p) : h <= g
  BY DEF InsertRow, NextRows
<1>3. tab[p] \in 1..10 /\ SessionInv(p) /\ InTransaction(p)
  BY <1>1, TableOrderFacts DEF Inv, TypeOK, SessionInv, SentInOrder, InTransaction
<1>4. h \in RowsFor(p, TableOrder[tab[p]]) /\ row \notin sent[p] /\ row = Row(tab[p], h)
  BY <1>2 DEF Left, Row
<1>5. row \in Shown \X Heights
  BY <1>4, RowTables DEF RowsFor
<1>6. /\ pc'[p] = to /\ sent'[p] = sent[p] \union {row}
      /\ txn'[p] = IF Locks(row) THEN txn[p] \union {row} ELSE txn[p]
  BY <1>1 DEF Inv, TypeOK
<1> HIDE DEF row
<1>7. TypeOK'
  <2>1. sent' \in [Processes -> SUBSET (Shown \X Heights)]
    BY <1>1, <1>5 DEF Inv, TypeOK
  <2>2. txn' \in [Processes -> SUBSET (Shown \X Heights)]
    BY <1>1, <1>5 DEF Inv, TypeOK
  <2>3. \A q \in Processes : txn'[q] \subseteq sent'[q] /\ flushed'[q] <= written'[q]
    BY <1>1, <1>6 DEF Inv, TypeOK
  <2>4. QED
    BY <1>1, <2>1, <2>2, <2>3 DEF Inv, TypeOK
<1>8. AdvisoryHeld' /\ ProgressCovered'
  BY <1>1 DEF Inv, TypeOK, AdvisoryHeld, ProgressCovered
<1>9. OnlyMoves(p) /\ process'[p] # "new"
  BY <1>1 DEF OnlyMoves, SameSession, Inv, TypeOK, NewIsIdle
<1>10. SessionInv(p)'
  <2>1. \A t : RowsFor(p, t)' = RowsFor(p, t)
    BY <1>1, SameRows
  <2>2. NextTables(p)' = NextTables(p)
    BY <1>1, <2>1 DEF NextTables
  <2>3. \A i \in 1..10, g \in Heights :
          Row(i, g) = row <=> i = tab[p] /\ g = h
    BY <1>3, <1>4, TableOrderFacts DEF Row
  <2>4. Left(p)' = Left(p) \ {h}
    <3>1. Left(p)' = {g \in RowsFor(p, TableOrder[tab[p]]) :
                        Row(tab[p], g) \notin sent[p] \union {row}}
      BY <1>1, <1>6, <2>1 DEF Left, Row
    <3>2. \A g \in RowsFor(p, TableOrder[tab[p]]) : g \in Heights
      BY RowsForHeights DEF Inv
    <3>3. QED
      BY <1>3, <2>3, <3>1, <3>2, LeftIsRest
  <2>5. FlushHasRows(p)' /\ NothingOpen(p)'
    BY <1>1, <1>3, <1>6 DEF SessionInv, FlushHasRows, Flushing, InTransaction, NothingOpen
  <2>6. TableAhead(p)'
    BY <1>1, <1>6, <2>2 DEF TableAhead, AfterTable
  <2>7. SentOfTables(p)'
    <3> SUFFICES ASSUME NEW i \in 1..10, NEW g \in Heights, Row(i, g) \in sent[p] \union {row}
                 PROVE  i <= tab[p]
      BY <1>1, <1>6 DEF SentOfTables, Row
    <3>1. QED
      BY <1>3, <2>3 DEF SessionInv, SentOfTables
  <2>8. SentInOrder(p)'
    <3> SUFFICES ASSUME ~last, pc'[p] = "rows"
                 PROVE  /\ tab[p] # 0 /\ Left(p) \ {h} # {}
                        /\ \A g \in Heights : Row(tab[p], g) \in sent[p] \union {row} =>
                             \A k \in Left(p) \ {h} : g < k
      BY <1>1, <1>6, <2>4 DEF SentInOrder, Row, AfterTable
    <3>1. Left(p) \ {h} # {}
      BY <1>2
    <3>2. ASSUME NEW g \in Heights, Row(tab[p], g) \in sent[p] \union {row},
                 NEW k \in Left(p) \ {h}
          PROVE  g < k
      <4>1. CASE g = h
        <5>1. k \in Nat /\ h \in Nat
          BY RowsForHeights DEF Left, Inv, Heights, FIRST_BLOCK
        <5>2. QED
          BY <1>2, <4>1, <5>1
      <4>2. CASE g # h
        <5>1. Row(tab[p], g) \in sent[p]
          BY <1>3, <2>3, <3>2, <4>2
        <5>2. QED
          BY <1>1, <1>3, <5>1 DEF SessionInv, SentInOrder
      <4>3. QED
        BY <4>1, <4>2
    <3>3. QED
      BY <1>3, <3>1, <3>2
  <2>9. SentAll(p)'
    <3> SUFFICES ASSUME NEW i \in 1..10, Done(p, i)', NEW g \in RowsFor(p, TableOrder[i])
                 PROVE  Row(i, g) \in sent'[p]
      BY <1>1, <2>1 DEF SentAll, Row
    <3>1. g \in Heights
      BY RowsForHeights DEF Inv
    <3>2. CASE i < tab[p]
      BY <1>3, <1>6, <3>2 DEF SessionInv, SentAll, Done
    <3>3. CASE i = tab[p]
      <4>1. last
        BY <1>1, <1>3, <1>6, <3>3 DEF Done
      <4>2. g = h \/ Row(i, g) \in sent[p]
        BY <3>3, <4>1, LeftIsRest
      <4>3. QED
        BY <1>4, <1>6, <3>3, <4>2
    <3>4. CASE i > tab[p]
      <4>1. to = "progress"
        BY <1>1, <1>3, <1>6, <3>4 DEF Done
      <4>2. NextTables(p) = {}
        BY <1>1, <4>1 DEF AfterTable
      <4>3. QED
        BY <3>4, <4>2, NoTableLeft DEF Inv
    <3>5. QED
      BY <1>3, <3>2, <3>3, <3>4
  <2>10. SentStored(p)' /\ FlushedStored(p)'
    <3>1. ~Locks(row) => row \in db
      BY DEF Locks
    <3>2. QED
      BY <1>1, <1>3, <1>6, <3>1 DEF SessionInv, SentStored, FlushedStored
  <2>11. QED
    BY <2>5, <2>6, <2>7, <2>8, <2>9, <2>10 DEF SessionInv
<1>11. QED
  BY <1>1, <1>6, <1>7, <1>8, <1>9, <1>10, StepKeepsInv

------------------------------------------------------------------------------
LEMMA NextKeeps == Inv /\ [Next]_vars => Inv'
<1> SUFFICES ASSUME Inv, [Next]_vars PROVE Inv'
  OBVIOUS
<1>1. CASE UNCHANGED vars
  <2>1. /\ TypeOK' /\ NewIsIdle' /\ AdvisoryHeld' /\ ProgressCovered'
    <3>1. TypeOK'
      BY <1>1 DEF Inv, TypeOK, vars
    <3>2. NewIsIdle' /\ AdvisoryHeld' /\ ProgressCovered'
      BY <1>1 DEF Inv, NewIsIdle, AdvisoryHeld, ProgressCovered, vars
    <3>3. QED
      BY <3>1, <3>2
  <2>2. NoneCreatesTwice'
    <3>1. \A p \in Processes : Wanted(p)' = Wanted(p)
      BY <1>1, SameWanted DEF vars
    <3>2. QED
      BY <1>1, <3>1 DEF Inv, NoneCreatesTwice, SameName, vars
  <2>3. \A p \in Processes : SessionInv(p)'
    BY <1>1, SameSessionInv DEF Inv, SameSession, vars
  <2>4. QED
    BY <2>1, <2>2, <2>3 DEF Inv
<1>2. ASSUME NEW p \in Processes, Start(p) \/ WriteBlock(p) \/ FlushRound(p) \/ Kill(p)
      PROVE  Inv'
  BY <1>2, StartKeeps, WriteBlockKeeps, FlushRoundKeeps, KillKeeps
<1>3. ASSUME NEW p \in Processes, SessionStep(p)
      PROVE  Inv'
  <2>1. CASE TakeLock(p) \/ SkipPartition(p) \/ AskPartition(p) \/ CreatePartition(p) \/ Unlock(p)
    BY <2>1, TakeLockKeeps, SkipPartitionKeeps, AskPartitionKeeps, CreatePartitionKeeps,
       UnlockKeeps
  <2>2. CASE StartTable(p) \/ UpsertProgress(p) \/ Commit(p)
    BY <2>2, StartTableKeeps, UpsertProgressKeeps, CommitKeeps
  <2>3. CASE \E h \in Heights : InsertRow(p, h)
    BY <2>3, InsertRowKeeps
  <2>4. CASE WaitTimesOut(p) \/ CreateFails(p)
    BY <2>4, WaitTimesOutKeeps, CreateFailsKeeps
  <2>5. CASE GivesUp(p) \/ SessionEnds(p)
    BY <2>5, EndsKeeps DEF GivesUp, SessionEnds
  <2>6. QED
    BY <1>3, <2>1, <2>2, <2>3, <2>4, <2>5 DEF SessionStep
<1>4. QED
  BY <1>1, <1>2, <1>3 DEF Next

(* The invariant holds of every state: whichever processes start, die and  *)
(* write, each session has sent what its statement says, only the holder   *)
(* of the advisory lock works on the partitions, and what a process takes  *)
(* for flushed is committed.                                               *)
THEOREM Invariant == Spec => []Inv
BY InvInit, NextKeeps, PTL DEF Spec

(* Types: each variable of the processes, of their sessions and of the     *)
(* database has the values of its declaration, for any number of processes.*)
THEOREM TypeCorrect == Spec => []TypeOK
<1>1. Inv => TypeOK
  BY DEF Inv
<1>2. QED
  BY <1>1, Invariant, PTL

(* Whoever committed last, and whoever died in between: every row of every *)
(* height up to the stored progress is committed.                          *)
THEOREM ProgressCoveredHolds == Spec => []ProgressCovered
<1>1. Inv => ProgressCovered
  BY DEF Inv
<1>2. QED
  BY <1>1, Invariant, PTL

(* Under the advisory lock, a partition that CREATE TABLE IF NOT EXISTS    *)
(* found missing is still missing when the statement gets its table lock.  *)
THEOREM NoneCreatesTwiceHolds == Spec => []NoneCreatesTwice
<1>1. Inv => NoneCreatesTwice
  BY DEF Inv
<1>2. QED
  BY <1>1, Invariant, PTL

------------------------------------------------------------------------------
(***************************************************************************)
(* No deadlock: the places where a session can wait have an order, and it  *)
(* only waits for sessions that are further on.  First the advisory lock;  *)
(* then table after table: the lock on the table before that of the        *)
(* session that creates a partition, and after that its rows in the order  *)
(* of their heights; then the row of the progress.                         *)
(***************************************************************************)
TableSpan == MaxHeight + 2
TablePlace(i) == i * TableSpan
TableIndex(t) == CHOOSE i \in 1..10 : TableOrder[i] = t
FirstLeft(p) == CHOOSE h \in Left(p) : \A g \in Left(p) : h <= g
ProgressPlace == 11 * TableSpan
LastPlace == 12 * TableSpan

WaitPlace(p) ==
  CASE pc[p] = "lock"     -> 0
    [] pc[p] = "create"   -> TablePlace(TableIndex(Wanted(p).table)) + 1
    [] pc[p] = "table"    -> TablePlace(NextTable(p))
    [] pc[p] = "rows"     -> TablePlace(tab[p]) + 1 + FirstLeft(p)
    [] pc[p] = "progress" -> ProgressPlace
    [] OTHER              -> LastPlace

LEMMA TableIndexIs ==
  ASSUME NEW i \in 1..10
  PROVE  TableIndex(TableOrder[i]) = i
BY TableOrderFacts DEF TableIndex

LEMMA PlacesApart ==
  ASSUME NEW i, NEW j, i \in 1..10, j \in 1..10, i < j
  PROVE  TablePlace(i) + TableSpan <= TablePlace(j)
<1>1. TableSpan \in Nat
  BY DEF TableSpan
<1>2. PICK d \in Nat : j = i + 1 + d
  OBVIOUS
<1>3. j * TableSpan = i * TableSpan + TableSpan + d * TableSpan /\ d * TableSpan >= 0
  BY <1>1, <1>2
<1>4. i * TableSpan \in Nat
  BY <1>1
<1>5. QED
  BY <1>1, <1>3, <1>4 DEF TablePlace

LEMMA PlacesEnd ==
  /\ ProgressPlace \in Nat /\ LastPlace \in Nat /\ TableSpan \in Nat /\ TableSpan >= 2
  /\ 1 < ProgressPlace /\ ProgressPlace < LastPlace
BY DEF ProgressPlace, LastPlace, TableSpan

LEMMA PlaceBefore ==
  ASSUME NEW i, i \in 1..10
  PROVE  /\ TablePlace(i) \in Nat /\ TablePlace(i) + TableSpan <= ProgressPlace
         /\ TablePlace(i) + TableSpan <= LastPlace
<1>1. TableSpan \in Nat
  BY DEF TableSpan
<1>2. i \in {1, 2, 3, 4, 5, 6, 7, 8, 9, 10}
  OBVIOUS
<1>3. QED
  BY <1>1, <1>2 DEF TablePlace, ProgressPlace, LastPlace

LEMMA FirstLeftIs ==
  ASSUME Inv, NEW p \in Processes, pc[p] = "rows"
  PROVE  /\ FirstLeft(p) \in Left(p) /\ FirstLeft(p) \in Heights
         /\ \A g \in Left(p) : FirstLeft(p) <= g
         /\ tab[p] \in 1..10
<1>1. Left(p) # {} /\ tab[p] \in 1..10
  BY TableOrderFacts DEF Inv, TypeOK, SessionInv, SentInOrder
<1>2. Left(p) \subseteq Heights
  BY RowsForHeights DEF Left, Inv
<1>3. PICK h \in Left(p) : \A g \in Left(p) : h <= g
  BY <1>1, <1>2, HasLeast DEF Heights, FIRST_BLOCK
<1>4. FirstLeft(p) \in Left(p) /\ \A g \in Left(p) : FirstLeft(p) <= g
  BY <1>3 DEF FirstLeft
<1>5. QED
  BY <1>1, <1>2, <1>4

LEMMA WantedIndex ==
  ASSUME Inv, NEW p \in Processes
  PROVE  \E i \in 1..10 : Wanted(p).table = TableOrder[i]
<1>1. Wanted(p).table \in Shown \union {"events"}
  BY WantedTable DEF Inv
<1>2. "events" \in TableNames
  BY DEF TableNames, TableOrder
<1>3. QED
  BY <1>1, <1>2, TableOrderFacts

LEMMA PlaceOK ==
  ASSUME Inv, NEW p \in Processes
  PROVE  WaitPlace(p) \in 0..LastPlace
<1>1. CASE pc[p] = "create"
  <2>1. PICK i \in 1..10 : Wanted(p).table = TableOrder[i]
    BY WantedIndex
  <2>2. WaitPlace(p) = TablePlace(i) + 1
    BY <1>1, <2>1, TableIndexIs DEF WaitPlace
  <2>3. QED
    BY <2>2, PlacesApart, PlacesEnd, PlaceBefore DEF TableSpan
<1>2. CASE pc[p] = "table"
  <2>1. NextTable(p) \in 1..10
    BY <1>2, NextTableIsLeast DEF Inv, SessionInv, TableAhead
  <2>2. WaitPlace(p) = TablePlace(NextTable(p))
    BY <1>2 DEF WaitPlace
  <2>3. QED
    BY <2>1, <2>2, PlacesApart, PlacesEnd, PlaceBefore
<1>3. CASE pc[p] = "rows"
  <2>1. tab[p] \in 1..10 /\ FirstLeft(p) \in 1..MaxHeight
    BY <1>3, FirstLeftIs DEF Heights, FIRST_BLOCK
  <2>2. WaitPlace(p) = TablePlace(tab[p]) + 1 + FirstLeft(p)
    BY <1>3 DEF WaitPlace
  <2>3. TablePlace(tab[p]) \in Nat /\ TablePlace(tab[p]) + TableSpan <= LastPlace
    BY <2>1, PlacesApart, PlacesEnd, PlaceBefore
  <2>4. QED
    BY <2>1, <2>2, <2>3, PlacesEnd DEF TableSpan
<1>4. CASE pc[p] \notin {"create", "table", "rows"}
  <2>1. WaitPlace(p) \in {0, ProgressPlace, LastPlace}
    BY <1>4 DEF WaitPlace
  <2>2. QED
    BY <2>1, PlacesApart, PlacesEnd, PlaceBefore
<1>5. QED
  BY <1>1, <1>2, <1>3, <1>4

(* Where a session is that has the lock on a table.                        *)
LEMMA HolderPlace ==
  ASSUME Inv, NEW q \in Processes, NEW i \in 1..10, i <= tab[q]
  PROVE  \/ WaitPlace(q) >= TablePlace(i) + TableSpan
         \/ pc[q] = "rows" /\ tab[q] = i /\ WaitPlace(q) = TablePlace(i) + 1 + FirstLeft(q)
<1>1. tab[q] \in 1..10 /\ InTransaction(q)
  BY TableOrderFacts DEF Inv, TypeOK, SessionInv, NothingOpen
<1>2. CASE pc[q] = "table"
  <2>1. NextTable(q) \in 1..10 /\ NextTable(q) > tab[q]
    BY <1>2, NextTableIsLeast DEF Inv, SessionInv, TableAhead
  <2>2. WaitPlace(q) = TablePlace(NextTable(q))
    BY <1>2 DEF WaitPlace
  <2>3. i < NextTable(q)
    BY <1>1, <2>1
  <2>4. QED
    BY <2>1, <2>2, <2>3, PlacesApart, PlacesEnd, PlaceBefore
<1>3. CASE pc[q] = "rows"
  <2>1. FirstLeft(q) \in 1..MaxHeight
    BY <1>3, FirstLeftIs DEF Heights, FIRST_BLOCK
  <2>2. WaitPlace(q) = TablePlace(tab[q]) + 1 + FirstLeft(q)
    BY <1>3 DEF WaitPlace
  <2>3. CASE tab[q] = i
    BY <1>3, <2>2, <2>3
  <2>4. CASE i < tab[q]
    <3>1. TablePlace(i) + TableSpan <= TablePlace(tab[q]) /\ TablePlace(tab[q]) \in Nat
      BY <1>1, <2>4, PlacesApart, PlacesEnd, PlaceBefore
    <3>2. TableSpan \in Nat /\ TablePlace(i) \in Nat
      BY PlacesEnd, PlaceBefore
    <3>3. QED
      BY <2>1, <2>2, <3>1, <3>2
  <2>5. QED
    BY <1>1, <2>3, <2>4
<1>4. CASE pc[q] = "progress"
  <2>1. WaitPlace(q) = ProgressPlace
    BY <1>4 DEF WaitPlace
  <2>2. TablePlace(i) + TableSpan <= ProgressPlace
    BY PlaceBefore
  <2>3. QED
    BY <2>1, <2>2
<1>5. CASE pc[q] = "commit"
  <2>1. WaitPlace(q) = LastPlace
    BY <1>5 DEF WaitPlace
  <2>2. TablePlace(i) + TableSpan <= LastPlace
    BY PlaceBefore
  <2>3. QED
    BY <2>1, <2>2
<1>6. QED
  BY <1>1, <1>2, <1>3, <1>4, <1>5 DEF InTransaction

LEMMA WaitsForward ==
  ASSUME Inv, NEW p \in Processes, NEW q \in Processes, q \in WaitsFor(p)
  PROVE  WaitPlace(p) < WaitPlace(q)
<1>1. CASE pc[p] = "lock"
  <2>1. advisory = q
    BY <1>1 DEF WaitsFor, LockHolders
  <2>2. pc[q] \in {"check", "create", "unlock", "failed"}
    BY <2>1 DEF Inv, AdvisoryHeld
  <2>3. WaitPlace(p) = 0
    BY <1>1 DEF WaitPlace
  <2>4. CASE pc[q] = "create"
    <3>1. PICK i \in 1..10 : Wanted(q).table = TableOrder[i]
      BY WantedIndex
    <3>2. WaitPlace(q) = TablePlace(i) + 1
      BY <2>4, <3>1, TableIndexIs DEF WaitPlace
    <3>3. QED
      BY <2>3, <3>2, PlacesApart, PlacesEnd, PlaceBefore
  <2>5. CASE pc[q] # "create"
    <3>1. WaitPlace(q) = LastPlace
      BY <2>2, <2>5 DEF WaitPlace
    <3>2. QED
      BY <2>3, <3>1, PlacesApart, PlacesEnd, PlaceBefore DEF TableSpan
  <2>6. QED
    BY <2>4, <2>5
<1>2. CASE pc[p] = "create"
  <2>1. HasTableLock(q, Wanted(p).table)
    BY <1>2 DEF WaitsFor, TableHolders
  <2>2. tab[q] \in 0..10
    BY TableOrderFacts DEF Inv, TypeOK
  <2>3. PICK i \in 1..10 : i <= tab[q] /\ TableOrder[i] = Wanted(p).table
    <3>1. PICK i \in 1..tab[q] : TableOrder[i] = Wanted(p).table
      BY <2>1 DEF HasTableLock
    <3>2. i \in 1..10 /\ i <= tab[q]
      BY <2>2, <3>1
    <3>3. QED
      BY <3>1, <3>2
  <2>4. WaitPlace(p) = TablePlace(i) + 1
    BY <1>2, <2>3, TableIndexIs DEF WaitPlace
  <2>5. CASE WaitPlace(q) >= TablePlace(i) + TableSpan
    <3>1. TablePlace(i) \in Nat /\ TableSpan >= 2 /\ WaitPlace(q) \in Int
      BY PlaceBefore, PlaceOK DEF TableSpan, LastPlace
    <3>2. QED
      BY <2>4, <2>5, <3>1, PlacesApart, PlacesEnd, PlaceBefore
  <2>6. CASE pc[q] = "rows" /\ WaitPlace(q) = TablePlace(i) + 1 + FirstLeft(q)
    <3>1. FirstLeft(q) \in 1..MaxHeight
      BY <2>6, FirstLeftIs DEF Heights, FIRST_BLOCK
    <3>2. QED
      BY <2>4, <2>6, <3>1, PlacesApart, PlacesEnd, PlaceBefore
  <2>7. QED
    BY <2>3, <2>5, <2>6, HolderPlace
<1>3. CASE pc[p] = "table"
  <2>1. NextTable(p) \in 1..10
    BY <1>3, NextTableIsLeast DEF Inv, SessionInv, TableAhead
  <2>2. pc[q] = "create" /\ Wanted(q).table = TableOrder[NextTable(p)]
    BY <1>3 DEF WaitsFor, Ahead
  <2>3. WaitPlace(q) = TablePlace(NextTable(p)) + 1
    BY <2>1, <2>2, TableIndexIs DEF WaitPlace
  <2>4. WaitPlace(p) = TablePlace(NextTable(p))
    BY <1>3 DEF WaitPlace
  <2>5. QED
    BY <2>1, <2>3, <2>4, PlacesApart, PlacesEnd, PlaceBefore
<1>4. CASE pc[p] = "rows"
  <2>1. PICK h \in NextRows(p) : q \in RowHolders(p, h)
    BY <1>4 DEF WaitsFor
  <2>2. /\ FirstLeft(p) \in Left(p) /\ FirstLeft(p) \in 1..MaxHeight
        /\ \A g \in Left(p) : FirstLeft(p) <= g
        /\ tab[p] \in 1..10
    BY <1>4, FirstLeftIs DEF Heights, FIRST_BLOCK
  <2>3. h \in Heights /\ h = FirstLeft(p)
    <3>1. h \in Left(p) /\ \A g \in Left(p) : h <= g
      BY <2>1 DEF NextRows
    <3>2. Left(p) \subseteq Heights
      BY RowsForHeights DEF Left, Inv
    <3>3. QED
      BY <2>2, <3>1, <3>2 DEF Heights, FIRST_BLOCK
  <2>4. Row(tab[p], h) \in sent[q]
    BY <2>1 DEF RowHolders, Row, Inv, TypeOK
  <2>5. tab[p] <= tab[q]
    BY <2>2, <2>3, <2>4 DEF Inv, SessionInv, SentOfTables
  <2>6. WaitPlace(p) = TablePlace(tab[p]) + 1 + h
    BY <1>4, <2>3 DEF WaitPlace
  <2>7. CASE WaitPlace(q) >= TablePlace(tab[p]) + TableSpan
    <3>1. TablePlace(tab[p]) \in Nat /\ WaitPlace(q) \in Int /\ h \in 1..MaxHeight
      BY <2>2, <2>3, PlacesApart, PlacesEnd, PlaceBefore, PlaceOK
    <3>2. QED
      BY <2>6, <2>7, <3>1 DEF TableSpan
  <2>8. CASE /\ pc[q] = "rows" /\ tab[q] = tab[p]
             /\ WaitPlace(q) = TablePlace(tab[p]) + 1 + FirstLeft(q)
    <3>1. FirstLeft(q) \in Left(q) /\ FirstLeft(q) \in Heights
      BY <2>8, FirstLeftIs
    <3>2. h < FirstLeft(q)
      BY <2>3, <2>4, <2>8, <3>1 DEF Inv, SessionInv, SentInOrder
    <3>3. TablePlace(tab[p]) \in Nat
      BY <2>2, PlacesApart, PlacesEnd, PlaceBefore
    <3>4. h \in Nat /\ FirstLeft(q) \in Nat
      BY <2>3, <3>1 DEF Heights, FIRST_BLOCK
    <3>5. QED
      BY <2>6, <2>8, <3>2, <3>3, <3>4
  <2>9. QED
    BY <2>2, <2>5, <2>7, <2>8, HolderPlace
<1>5. CASE pc[p] = "progress"
  <2>1. pc[q] = "commit"
    BY <1>5 DEF WaitsFor, ProgressHolders
  <2>2. WaitPlace(p) = ProgressPlace /\ WaitPlace(q) = LastPlace
    BY <1>5, <2>1 DEF WaitPlace
  <2>3. QED
    BY <2>2, PlacesApart, PlacesEnd, PlaceBefore DEF TableSpan
<1>6. QED
  <2>1. pc[p] \in {"lock", "create", "table", "rows", "progress"}
    BY DEF WaitsFor
  <2>2. QED
    BY <2>1, <1>1, <1>2, <1>3, <1>4, <1>5

(* There is never a circle of sessions that wait for one another: of any   *)
(* set of sessions, the one furthest on waits for none of the others.      *)
THEOREM NoDeadlockHolds == Spec => []NoDeadlock
<1>1. ASSUME Inv PROVE NoDeadlock
  <2> SUFFICES ASSUME NEW S \in SUBSET Processes, S # {}
               PROVE  \E p \in S : WaitsFor(p) \intersect S = {}
    <3> DEFINE waiting == [p \in Processes |-> WaitsFor(p)]
    <3>1. ASSUME NEW T \in (SUBSET Processes) \ {{}}
          PROVE  \E p \in T : waiting[p] \intersect T = {}
      <4>1. PICK p \in T : WaitsFor(p) \intersect T = {}
        OBVIOUS
      <4>2. waiting[p] = WaitsFor(p)
        OBVIOUS
      <4>3. QED
        BY <4>1, <4>2
    <3>2. QED
      BY <3>1 DEF NoDeadlock
  <2> DEFINE behind == {LastPlace - WaitPlace(p) : p \in S}
  <2>1. behind \in SUBSET Nat /\ behind # {}
    <3>1. LastPlace \in Nat
      BY PlacesEnd
    <3>2. \A p \in S : LastPlace - WaitPlace(p) \in Nat
      BY <1>1, <3>1, PlaceOK
    <3>3. QED
      BY <3>2
  <2>2. PICK m \in behind : \A k \in behind : m <= k
    <3> HIDE DEF behind
    <3>1. QED
      BY <2>1, HasLeast
  <2>3. PICK p \in S : m = LastPlace - WaitPlace(p)
    BY <2>2
  <2>4. \A q \in S : WaitPlace(q) <= WaitPlace(p)
    <3> SUFFICES ASSUME NEW q \in S PROVE WaitPlace(q) <= WaitPlace(p)
      OBVIOUS
    <3>1. LastPlace - WaitPlace(p) <= LastPlace - WaitPlace(q)
      BY <2>2, <2>3
    <3>2. WaitPlace(p) \in Int /\ WaitPlace(q) \in Int /\ LastPlace \in Int
      BY <1>1, PlaceOK, PlacesApart, PlacesEnd, PlaceBefore
    <3>3. QED
      BY <3>1, <3>2
  <2>5. ASSUME NEW q \in WaitsFor(p) \intersect S PROVE FALSE
    <3>1. WaitPlace(p) < WaitPlace(q)
      BY <1>1, WaitsForward
    <3>2. WaitPlace(p) \in Int /\ WaitPlace(q) \in Int
      BY <1>1, PlaceOK, PlacesApart, PlacesEnd, PlaceBefore
    <3>3. QED
      BY <2>4, <3>1, <3>2
  <2>6. QED
    BY <2>5
<1>2. QED
  BY <1>1, Invariant, PTL
==============================================================================
