------------------------------- MODULE Indexer -------------------------------
(***************************************************************************)
(* The whole program: main() of src/index.ts and followLoop() of           *)
(* src/runner/follow.ts, over syncRange (as OrderedFeed, which SyncRange   *)
(* implements), the PostgreSQL sink (PgSink) and a chain that grows.       *)
(*                                                                         *)
(* A process resolves where to start from the committed progress and the   *)
(* configuration, backfills up to the latest height it saw, and then       *)
(* follows the chain, flushing the sink after each round.  It may die at   *)
(* any moment and is started again by its container (restart:              *)
(* unless-stopped).                                                        *)
(***************************************************************************)
EXTENDS PgSink, OrderedFeed, ConfigResolve

CONSTANTS
  Settings,     \* what command line, environment and .env file may say
  InitialTip,   \* the latest height of the chain at first
  MaxTip,       \* bound of the model: the chain stops growing there
  MaxRestarts,  \* bound of the model: processes after the first
  MaxGivenUp    \* bound of the model: heights given up by one syncRange

(* The configurations a process can get past getConfig() with.             *)
ConfigsOf(settings) ==
  {c \in {getConfig(s.args, s.env, s.file) : s \in settings} : validateConfig(c)}

ASSUME IndexerAssumption ==
  /\ ConfigsOf(Settings) # {}
  /\ InitialTip \in Nat /\ MaxTip \in Nat
  /\ MaxRestarts \in Nat /\ MaxGivenUp \in Nat

(* Every height a range can hold is one the chain has or will have.        *)
ASSUME HeightsAssumption ==
  /\ 1..InitialTip \subseteq Blocks /\ 1..MaxTip \subseteq Blocks
  /\ \A c \in ConfigsOf(Settings) : c.to # NotSet => 1..c.to \subseteq Blocks

(* createSink is not told another mode by main().                          *)
ASSUME ModeAssumption == Modes = {"batch-insert"}

VARIABLES
  cfg,         \* the configuration, the same for every process
  mainPc,      \* where main() stands
  tip,         \* latest_block_height of the node
  next,        \* `next` of followLoop
  restarts,    \* processes started after the first
  indexedFrom, \* history: where the first process started
  everGivenUp  \* history: the heights given up by any process

mainVars == <<cfg, mainPc, tip, next, restarts, indexedFrom, everGivenUp>>
vars == <<cfg, mainPc, tip, next, restarts, indexedFrom, everGivenUp,
          mode, alive, buf, sinkPc, table, span, txn, db, progress,
          feedFrom, feedTo, cursor, delivering, feedStatus, delivered, givenUp>>

Init ==
  /\ cfg \in ConfigsOf(Settings)
  /\ mainPc = "boot"
  /\ tip = InitialTip
  /\ next = 0
  /\ restarts = 0
  /\ indexedFrom = NotSet
  /\ everGivenUp = {}
  /\ SinkInit
  /\ FeedStart(0, 0)

------------------------------------------------------------------------------
(* The node commits another block.                                         *)
ChainGrows ==
  /\ tip < MaxTip
  /\ tip' = tip + 1
  /\ UNCHANGED <<cfg, mainPc, next, restarts, indexedFrom, everGivenUp>>
  /\ UNCHANGED sinkVars /\ UNCHANGED feedVars

(* main() up to the call of syncRange: startFrom is last + 1 when there is *)
(* a progress row and resuming is wanted, else FROM or FIRST_BLOCK;        *)
(* endHeight is TO or the latest height.                                   *)
WantResume == cfg.from = NotSet \/ cfg.resume
ExplicitFrom == IF cfg.from # NotSet THEN cfg.from ELSE cfg.firstBlock
StartFromLast ==     \* mutant: the last block once more
  IF WantResume /\ progress # NoProgress THEN progress ELSE ExplicitFrom
StartFromScratch ==  \* mutant: the progress is not read
  ExplicitFrom
StartFrom ==
  IF WantResume /\ progress # NoProgress THEN progress + 1 ELSE ExplicitFrom
EndHeight == IF cfg.to = NotSet THEN tip ELSE cfg.to

Boot ==
  /\ alive /\ mainPc = "boot"
  /\ FeedCalled(StartFrom, EndHeight)
  /\ mainPc' = "backfill"
  /\ indexedFrom' = IF indexedFrom = NotSet THEN StartFrom ELSE indexedFrom
  /\ UNCHANGED <<cfg, tip, next, restarts, everGivenUp>>
  /\ UNCHANGED sinkVars

(* syncRange moves on: at once if no write is under way, else when the     *)
(* sink is done with it; the write it starts enters the sink.              *)
Syncing == mainPc \in {"backfill", "follow"}

SinkAnswered == alive /\ sinkPc = "idle"

FeedAdvances ==
  /\ SinkAnswered /\ Syncing
  /\ Advance
  /\ Cardinality(givenUp') <= MaxGivenUp
  /\ everGivenUp' = everGivenUp \union givenUp'
  /\ IF delivering' THEN Write(cursor') ELSE UNCHANGED sinkVars
  /\ UNCHANGED <<cfg, mainPc, tip, next, restarts, indexedFrom>>

(* Both ways for a process to end are bounded by the restarts left.        *)
SinkRuns ==
  /\ SinkStep
  /\ UNCHANGED mainVars /\ UNCHANGED feedVars

SinkFails ==
  /\ restarts < MaxRestarts
  /\ FlushFails
  /\ UNCHANGED mainVars /\ UNCHANGED feedVars

AfterRangeRepeats == feedTo  \* mutant
AfterRange == feedTo + 1

(* The backfill has returned: follow from endHeight + 1, or close.         *)
BackfillReturns ==
  /\ alive /\ mainPc = "backfill"
  /\ Return
  /\ IF cfg.follow THEN mainPc' = "poll" /\ next' = AfterRange
               ELSE mainPc' = "closing" /\ next' = next
  /\ UNCHANGED <<cfg, tip, restarts, indexedFrom, everGivenUp>>
  /\ UNCHANGED sinkVars

(* followLoop: fetchStatus shows new blocks, which are synced as a range;  *)
(* otherwise it sleeps and asks again.                                     *)
NewBlocksLate == next < tip  \* mutant
NewBlocks == next <= tip

PollFindsBlocks ==
  /\ alive /\ mainPc = "poll"
  /\ NewBlocks
  /\ FeedCalled(next, tip)
  /\ mainPc' = "follow"
  /\ UNCHANGED <<cfg, tip, next, restarts, indexedFrom, everGivenUp>>
  /\ UNCHANGED sinkVars

(* The round has returned: next moves on and the sink is flushed.          *)
RoundReturns ==
  /\ alive /\ mainPc = "follow"
  /\ Return
  /\ next' = AfterRange
  /\ Flush
  /\ mainPc' = "flushing"
  /\ UNCHANGED <<cfg, tip, restarts, indexedFrom, everGivenUp>>

FlushReturns ==
  /\ alive /\ mainPc = "flushing" /\ sinkPc = "idle"
  /\ mainPc' = "poll"
  /\ UNCHANGED <<cfg, tip, next, restarts, indexedFrom, everGivenUp>>
  /\ UNCHANGED sinkVars /\ UNCHANGED feedVars

(* main() after the backfill when it does not follow: decodePool.close,    *)
(* sink.flush, and sink.close, which finds nothing left to flush.          *)
CloseFlushes ==
  /\ alive /\ mainPc = "closing"
  /\ Flush
  /\ mainPc' = "closed"
  /\ UNCHANGED <<cfg, tip, next, restarts, indexedFrom, everGivenUp>>
  /\ UNCHANGED feedVars

(* The process ends: killed, or because a write or a flush failed.         *)
ProcessEnds ==
  /\ restarts < MaxRestarts
  /\ Kill
  /\ UNCHANGED mainVars /\ UNCHANGED feedVars

ErrorEnds ==
  /\ sinkPc = "failed"
  /\ Kill
  /\ UNCHANGED mainVars
  /\ IF delivering THEN Crash ELSE UNCHANGED feedVars

ProcessStarts ==
  /\ restarts < MaxRestarts
  /\ Restart
  /\ restarts' = restarts + 1
  /\ mainPc' = "boot"
  /\ UNCHANGED <<cfg, tip, next, indexedFrom, everGivenUp>>
  /\ UNCHANGED feedVars

Next ==
  \/ ChainGrows
  \/ Boot
  \/ FeedAdvances
  \/ SinkRuns
  \/ SinkFails
  \/ BackfillReturns
  \/ PollFindsBlocks
  \/ RoundReturns
  \/ FlushReturns
  \/ CloseFlushes
  \/ ProcessEnds
  \/ ErrorEnds
  \/ ProcessStarts

Spec == Init /\ [][Next]_vars

(***************************************************************************)
(* Every process keeps running what it can run, and the chain keeps        *)
(* growing (up to the bound).  Failures and kills are never forced.        *)
(***************************************************************************)
FairSpec ==
  /\ Spec
  /\ WF_vars(ChainGrows)
  /\ WF_vars(Boot)
  /\ WF_vars(FeedAdvances)
  /\ WF_vars(SinkRuns)
  /\ WF_vars(BackfillReturns)
  /\ WF_vars(PollFindsBlocks)
  /\ WF_vars(RoundReturns)
  /\ WF_vars(FlushReturns)
  /\ WF_vars(CloseFlushes)
  /\ WF_vars(ErrorEnds)
  /\ WF_vars(ProcessStarts)

------------------------------------------------------------------------------
Stored(h) == \A t \in TablesOf[h] : h \in db[t]
StoredOrGivenUp(h) == Stored(h) \/ h \in everGivenUp

TypeOK ==
  /\ mainPc \in {"boot", "backfill", "poll", "follow", "flushing", "closing",
                  "closed"}
  /\ tip \in Nat /\ next \in Nat /\ restarts \in Nat
  /\ indexedFrom \in Nat \union {NotSet}
  /\ everGivenUp \subseteq Nat
  /\ SinkTypeOK
  /\ feedStatus \in {"running", "returned", "crashed"}
  /\ feedFrom <= feedTo => cursor \in feedFrom..(feedTo + 1)

(* What resuming relies on: every height from the first one ever indexed   *)
(* up to the committed last_height is stored whole, or was given up by a   *)
(* syncRange - over crashes in mid-flush, lost buffers, backfill and       *)
(* follow rounds, and restarts.                                            *)
NoGap ==
  progress # NoProgress =>
    \A h \in indexedFrom..progress : StoredOrGivenUp(h)

(* With RESUME no block that is stored is ever fetched and written again.  *)
NothingStoredTwice ==
  [][WantResume /\ Len(delivered') > Len(delivered) => ~Stored(cursor')]_vars

(* With RESUME last_height never moves backwards, although upsertProgress  *)
(* overwrites it with whatever it is given.                                *)
ProgressMonotone == [][WantResume => progress' >= progress]_vars

(* A follow round starts at the first height no earlier range of this      *)
(* process has covered: none is skipped between two rounds, none repeated. *)
RoundsAdjoin ==
  [][mainPc = "poll" /\ mainPc' = "follow" =>
       feedFrom' = feedTo + 1 /\ feedFrom' <= feedTo']_vars

(* What the program has flushed is in the database.  When the flush that   *)
(* ends a follow round has returned, every height up to the end of the     *)
(* round - the backfill's tail included - is stored or given up; without   *)
(* FOLLOW, once the closing flush has returned, the whole range is.        *)
FlushedIsDurable ==
  [][/\ mainPc = "flushing" /\ mainPc' = "poll" =>
          \A h \in indexedFrom..(next - 1) : StoredOrGivenUp(h)
     /\ alive' /\ mainPc' = "closed" /\ sinkPc' = "idle" =>
          \A h \in feedFrom'..feedTo' : StoredOrGivenUp(h)']_vars

(* What may keep a block out of the database for good.  The process waits  *)
(* in a syncRange over an empty range, and the block lies beyond it; or it *)
(* polls with nothing new to find, and holds all rows of the block, which  *)
(* only the round of a new block would flush (the tail of a backfill).     *)
BehindEmptyRange(h) ==
  alive /\ mainPc = "backfill" /\ feedFrom > feedTo /\ h >= feedFrom
HeldForNextBlock(h) ==
  alive /\ mainPc = "poll" /\ next > tip /\ \A t \in TablesOf[h] : h \in buf[t]

(* With FOLLOW, once crashes have stopped, every block the chain has, from *)
(* the first one indexed on, is stored whole or was given up, and stays    *)
(* so, or one of the two causes above holds it back: whatever was lost in  *)
(* a crash is fetched again, and nothing the process has taken vanishes.   *)
EveryBlockIndexed ==
  cfg.follow =>
    <>[](\A h \in Blocks :
           indexedFrom \in 0..h /\ h <= tip =>
             StoredOrGivenUp(h) \/ BehindEmptyRange(h) \/ HeldForNextBlock(h))

(* main(): "performs range backfill, and if enabled, follows new blocks in *)
(* real-time": with FOLLOW every backfill ends, and following starts,      *)
(* unless the process ends first.                                          *)
FollowsAfterBackfill ==
  cfg.follow /\ mainPc = "backfill" ~> mainPc # "backfill" \/ ~alive

(* README: "Smart resumption from the last indexed block to prevent data   *)
(* loss": what lies at or below the resume point is in the database.       *)
NoDataLoss ==
  progress # NoProgress =>
    \A h \in indexedFrom..progress : Stored(h)
==============================================================================
