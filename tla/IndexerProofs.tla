---------------------------- MODULE IndexerProofs ----------------------------
(***************************************************************************)
(* Proofs about Indexer, for every configuration getConfig() lets through, *)
(* every chain, every number of tables, thresholds and restarts.           *)
(***************************************************************************)
EXTENDS Indexer, PgSinkProofs

USE BlocksAssumption, TablesAssumption, IndexerAssumption, HeightsAssumption, ModeAssumption

(***************************************************************************)
(* The invariant.  The frontier of the runner is the height it goes on     *)
(* with: what lies below it, back to where the first process started, is   *)
(* stored, held by the sink of the living process, or given up; nothing    *)
(* that is held lies above.                                                *)
(***************************************************************************)
Frontier == IF delivering THEN cursor + 1 ELSE cursor
Busy == Working /\ mainPc # "boot"

ChainInv == tip \in Nat /\ 1..tip \subseteq Blocks

FeedInv ==
  /\ feedFrom \in Nat /\ feedTo \in Nat /\ cursor \in Nat /\ delivering \in BOOLEAN
  /\ feedStatus \in {"running", "returned", "crashed"}
  /\ delivered \in Seq(Nat) /\ givenUp \subseteq Nat
  /\ feedFrom <= cursor
  /\ feedFrom <= feedTo => cursor <= feedTo + 1
  /\ delivering => cursor <= feedTo

CfgInv == validateConfig(cfg) /\ (cfg.to # NotSet => 1..cfg.to \subseteq Blocks)

MainInv ==
  /\ mainPc \in {"boot", "backfill", "poll", "follow", "flushing", "closing",
                  "closed"}
  /\ next \in Nat /\ restarts \in Nat /\ everGivenUp \subseteq Nat
  /\ indexedFrom \in {NotSet, ExplicitFrom}
  /\ mainPc # "boot" =>
       indexedFrom # NotSet /\ indexedFrom <= feedFrom /\ 1..feedTo \subseteq Blocks

(* Between two ranges the last one is done, and the next adjoins it.       *)
Rests ==
  /\ mainPc \in {"poll", "flushing", "closing", "closed"} =>
       feedFrom <= feedTo /\ cursor = feedTo + 1 /\ ~delivering
  /\ mainPc \in {"poll", "flushing"} => next = feedTo + 1

(* The sink works only while main() or the runner awaits it, and a flush   *)
(* that has returned leaves nothing held.                                  *)
SinkQuiet ==
  alive =>
    /\ mainPc \in {"boot", "poll", "closing"} \/ (Syncing /\ ~delivering) => sinkPc = "idle"
    /\ mainPc = "boot" => Held = {}
    /\ mainPc \in {"flushing", "closed"} /\ sinkPc = "idle" => Held = {}

DbCovers ==
  progress # NoProgress =>
    /\ indexedFrom # NotSet /\ indexedFrom <= progress
    /\ \A h \in indexedFrom..progress : h \in db[1] \union everGivenUp

ProcessCovers ==
  Busy =>
    /\ \A h \in indexedFrom..(Frontier - 1) : h \in db[1] \union Held \union everGivenUp
    /\ \A g \in Held : indexedFrom <= g /\ g < Frontier

(* With RESUME: nothing stored lies above the progress, and nothing held   *)
(* or still to come at or below it.                                        *)
Resumes ==
  WantResume =>
    /\ \A h \in db[1] : h <= progress
    /\ Busy => progress < Frontier /\ \A g \in Held : progress < g

IndexerInv ==
  /\ SinkInv /\ ChainInv /\ FeedInv /\ CfgInv /\ MainInv /\ Rests /\ SinkQuiet
  /\ DbCovers /\ ProcessCovers /\ Resumes

------------------------------------------------------------------------------
LEMMA ConfigFacts ==
  ASSUME CfgInv
  PROVE  /\ ExplicitFrom \in Nat \ {0} /\ ExplicitFrom # NotSet
         /\ WantResume \in BOOLEAN
         /\ cfg.to = NotSet \/ (cfg.to \in Nat /\ 1..cfg.to \subseteq Blocks)
BY DEF CfgInv, validateConfig, Positive, ExplicitFrom, WantResume, NotSet

LEMMA SinkFacts ==
  ASSUME SinkInv
  PROVE  /\ mode = "batch-insert" /\ db[1] \subseteq Blocks /\ Held \subseteq Blocks
         /\ progress \in Nat \union {NoProgress}
         /\ sinkPc \in {"idle", "connect", "begin", "insert", "progress", "commit", "failed"}
         /\ alive \in BOOLEAN
<1>1. SinkTypeOK /\ 1 \in Tables
  BY FirstTable DEF SinkInv
<1>2. db[1] \subseteq Blocks /\ buf[1] \subseteq Blocks /\ txn[1] \subseteq Blocks
  BY <1>1 DEF SinkTypeOK
<1>3. mode = "batch-insert" /\ progress \in Nat \union {NoProgress}
  BY <1>1 DEF SinkTypeOK
<1>4. QED
  BY <1>1, <1>2, <1>3 DEF SinkTypeOK, Held

LEMMA StoresAll ==
  ASSUME SinkInv, Stores
  PROVE  /\ db'[1] = db[1] \union Held
         /\ span \in Held /\ \A g \in Held : g <= span
         /\ progress' = span
<1>1. mode = "batch-insert" /\ Held \subseteq Blocks
  BY SinkFacts
<1>2. db'[1] = db[1] \union OfTable(Held, 1)
  BY FirstTable DEF Stores
<1>3. OfTable(Held, 1) = Held
  BY <1>1, FirstTable
<1>4. QED
  BY <1>1, <1>2, <1>3 DEF Stores, Highest

(* A step of the sink moves the progress only to a height up to which all  *)
(* is stored or given up, and with RESUME only forwards.                   *)
LEMMA DbStep ==
  ASSUME IndexerInv, UNCHANGED <<db, progress>> \/ (Working /\ Stores)
  PROVE  /\ progress' # NoProgress =>
              /\ indexedFrom # NotSet /\ indexedFrom <= progress'
              /\ \A h \in indexedFrom..progress' : h \in db'[1] \union everGivenUp
         /\ WantResume =>
              /\ \A h \in db'[1] : h <= progress'
              /\ progress <= progress'
              /\ Busy => progress' < Frontier
         /\ db[1] \subseteq db'[1]
<1>1. progress \in Nat \union {NoProgress} /\ db[1] \subseteq Blocks /\ Held \subseteq Blocks
  BY SinkFacts DEF IndexerInv
<1>2. CASE UNCHANGED <<db, progress>>
  BY <1>1, <1>2 DEF IndexerInv, DbCovers, Resumes, NoProgress
<1>3. CASE Working /\ Stores
  <2>1. /\ db'[1] = db[1] \union Held
        /\ span \in Held /\ \A g \in Held : g <= span
        /\ progress' = span
    BY <1>3, StoresAll DEF IndexerInv
  <2>2. Busy
    BY <1>3, <2>1 DEF Busy, Working, IndexerInv, SinkQuiet
  <2>3. /\ indexedFrom # NotSet /\ indexedFrom \in Nat /\ Frontier \in Nat /\ span \in Nat
        /\ indexedFrom <= span /\ span < Frontier
    <3>1. indexedFrom # NotSet /\ indexedFrom \in Nat
      BY <2>2, ConfigFacts DEF IndexerInv, MainInv, Busy
    <3>2. Frontier \in Nat
      BY DEF Frontier, IndexerInv, FeedInv
    <3>3. indexedFrom <= span /\ span < Frontier
      BY <2>1, <2>2 DEF IndexerInv, ProcessCovers
    <3>4. QED
      BY <1>1, <2>1, <3>1, <3>2, <3>3
  <2>4. \A h \in indexedFrom..span : h \in db'[1] \union everGivenUp
    <3>1. \A h \in indexedFrom..span : h \in indexedFrom..(Frontier - 1)
      BY <2>3
    <3>2. QED
      BY <2>1, <2>2, <3>1 DEF IndexerInv, ProcessCovers
  <2>5. ASSUME WantResume
        PROVE  (\A h \in db'[1] : h <= span) /\ progress <= span
    <3>1. progress < span /\ \A h \in db[1] : h <= progress
      BY <2>1, <2>2, <2>5 DEF IndexerInv, Resumes
    <3>2. progress \in Int /\ span \in Int
      BY <1>1, <2>3 DEF NoProgress
    <3>3. db[1] \subseteq Nat
      BY <1>1, BlocksAssumption
    <3>4. ASSUME NEW h \in db[1] PROVE h <= span
      <4>1. h \in Nat /\ h <= progress
        BY <3>1, <3>3
      <4>2. QED
        BY <3>1, <3>2, <4>1
    <3>5. \A h \in db'[1] : h <= span
      BY <2>1, <3>4
    <3>6. QED
      BY <3>1, <3>2, <3>5
  <2>6. QED
    BY <2>1, <2>3, <2>4, <2>5
<1>4. QED
  BY <1>2, <1>3

------------------------------------------------------------------------------
LEMMA InvInit == Init => IndexerInv
<1> SUFFICES ASSUME Init PROVE IndexerInv
  OBVIOUS
<1>1. SinkInv
  BY SinkInvInit DEF Init
<1>2. Held = {} /\ db[1] = {} /\ progress = NoProgress /\ sinkPc = "idle"
  BY FirstTable DEF Init, SinkInit, MemInit, Held, Empty
<1>3. CfgInv
  BY DEF Init, CfgInv, ConfigsOf
<1>4. ChainInv /\ FeedInv
  <2>1. ChainInv
    BY DEF Init, ChainInv
  <2>2. << >> \in Seq(Nat)
    OBVIOUS
  <2>3. delivered \in Seq(Nat)
    BY <2>2 DEF Init, FeedStart
  <2>4. /\ feedFrom = 0 /\ feedTo = 0 /\ cursor = 0 /\ delivering = FALSE
        /\ feedStatus = "running" /\ givenUp = {}
    BY DEF Init, FeedStart
  <2>5. 0 \in Nat /\ 0 <= 0 + 1 /\ 0 <= 0
    OBVIOUS
  <2>6. FeedInv
    <3>1. delivering \in BOOLEAN /\ (delivering => cursor <= feedTo)
      BY <2>4
    <3>2. feedFrom <= cursor /\ (feedFrom <= feedTo => cursor <= feedTo + 1)
      BY <2>4
    <3>3. QED
      BY <2>3, <2>4, <3>1, <3>2 DEF FeedInv
  <2>7. QED
    BY <2>1, <2>6
<1>5. MainInv /\ Rests
  BY DEF Init, MainInv, Rests
<1>6. SinkQuiet
  BY <1>2 DEF Init, SinkQuiet, Syncing
<1>7. DbCovers /\ ProcessCovers /\ Resumes
  BY <1>2 DEF Init, DbCovers, ProcessCovers, Busy, Resumes
<1>8. QED
  BY <1>1, <1>3, <1>4, <1>5, <1>6, <1>7 DEF IndexerInv

(* What no step of the sink or of main() changes.                          *)
LEMMA ConfigSame ==
  ASSUME cfg' = cfg
  PROVE  ExplicitFrom' = ExplicitFrom /\ WantResume' = WantResume /\ CfgInv' = CfgInv
BY DEF ExplicitFrom, WantResume, CfgInv, validateConfig, Positive

LEMMA SinkSame ==
  ASSUME UNCHANGED sinkVars
  PROVE  Held' = Held /\ Working' = Working
BY DEF sinkVars, Held, Working

LEMMA FeedSame ==
  ASSUME UNCHANGED feedVars
  PROVE  Frontier' = Frontier /\ FeedInv' = FeedInv
BY DEF feedVars, Frontier, FeedInv

LEMMA MainSame ==
  ASSUME UNCHANGED mainVars
  PROVE  ChainInv' = ChainInv /\ Syncing' = Syncing
BY DEF mainVars, ChainInv, Syncing

(* A step of the sink during which main() and the runner stand still (but  *)
(* for the status of a runner whose write was rejected).                   *)
FeedStands ==
  /\ UNCHANGED <<feedFrom, feedTo, cursor, delivering, delivered, givenUp>>
  /\ feedStatus' \in {feedStatus, "crashed"}

LEMMA StandsKeep ==
  ASSUME IndexerInv, UNCHANGED mainVars, FeedStands
  PROVE  /\ ChainInv' /\ FeedInv' /\ CfgInv' /\ MainInv' /\ Rests'
         /\ Frontier' = Frontier /\ WantResume' = WantResume
<1>1. ChainInv' /\ CfgInv' /\ ExplicitFrom' = ExplicitFrom /\ WantResume' = WantResume
  BY MainSame, ConfigSame DEF mainVars, IndexerInv
<1>2. FeedInv'
  <2>1. feedStatus' \in {"running", "returned", "crashed"}
    BY DEF FeedStands, IndexerInv, FeedInv
  <2>2. QED
    BY <2>1 DEF FeedStands, IndexerInv, FeedInv
<1>3. MainInv' /\ Rests'
  BY <1>1 DEF FeedStands, IndexerInv, MainInv, Rests, mainVars
<1>4. Frontier' = Frontier
  BY DEF Frontier, FeedStands
<1>5. QED
  BY <1>1, <1>2, <1>3, <1>4

LEMMA DbStepKeeps ==
  ASSUME IndexerInv, UNCHANGED mainVars, FeedStands,
         UNCHANGED <<db, progress>> \/ (Working /\ Stores)
  PROVE  DbCovers' /\ (WantResume => \A h \in db'[1] : h <= progress')
BY DbStep DEF DbCovers, mainVars

LEMMA SinkRunsKeeps ==
  ASSUME IndexerInv, SinkRuns
  PROVE  IndexerInv'
<1>1. SinkStep /\ UNCHANGED mainVars /\ UNCHANGED feedVars /\ FeedStands
  BY DEF SinkRuns, feedVars, FeedStands
<1>2. /\ SinkInv' /\ Working /\ Working'
      /\ \/ Held' = Held /\ UNCHANGED <<db, progress>> /\ sinkPc' # "idle"
         \/ Held' = {} /\ Stores
  BY <1>1, SinkStepKeeps DEF IndexerInv
<1>3. /\ ChainInv' /\ FeedInv' /\ CfgInv' /\ MainInv' /\ Rests'
      /\ Frontier' = Frontier /\ WantResume' = WantResume
  BY <1>1, StandsKeep
<1>4. DbCovers' /\ (WantResume => \A h \in db'[1] : h <= progress')
  BY <1>1, <1>2, DbStepKeeps
<1>5. sinkPc # "idle" /\ alive /\ UNCHANGED <<mainPc, delivering, indexedFrom, everGivenUp>>
  BY <1>1 DEF SinkStep, Connect, Begin, Insert, UpsertProgress, Commit, mainVars, feedVars
<1>6. SinkQuiet'
  <2>1. mainPc \notin {"boot", "poll", "closing"} /\ ~(Syncing /\ ~delivering)
    BY <1>5 DEF IndexerInv, SinkQuiet
  <2>2. sinkPc' = "idle" => Held' = {}
    BY <1>2
  <2>3. QED
    BY <1>5, <2>1, <2>2 DEF SinkQuiet, Syncing
<1>7. ProcessCovers'
  <2>1. CASE Held' = Held /\ UNCHANGED <<db, progress>>
    BY <1>2, <1>3, <1>5, <2>1 DEF IndexerInv, ProcessCovers, Busy
  <2>2. CASE Held' = {} /\ Stores
    <3>1. db'[1] = db[1] \union Held
      BY <2>2, StoresAll DEF IndexerInv
    <3>2. QED
      BY <1>2, <1>3, <1>5, <2>2, <3>1 DEF IndexerInv, ProcessCovers, Busy
  <2>3. QED
    BY <1>2, <2>1, <2>2
<1>8. Resumes'
  <2> SUFFICES ASSUME WantResume, Busy'
               PROVE  progress' < Frontier /\ \A g \in Held' : progress' < g
    BY <1>3, <1>4 DEF Resumes
  <2>1. Busy
    BY <1>2, <1>5 DEF Busy
  <2>2. progress' < Frontier
    BY <1>2, <2>1, DbStep
  <2>3. \A g \in Held' : progress' < g
    BY <1>2, <2>1 DEF IndexerInv, Resumes
  <2>4. QED
    BY <2>2, <2>3
<1>9. QED
  BY <1>2, <1>3, <1>4, <1>6, <1>7, <1>8 DEF IndexerInv

(* A failed call, or the end of the process.                               *)
LEMMA LostKeeps ==
  ASSUME IndexerInv, FlushFails \/ Kill, UNCHANGED mainVars, FeedStands
  PROVE  IndexerInv'
<1>1. /\ SinkInv' /\ ~Working'
      /\ UNCHANGED <<db, progress>> \/ (Working /\ Stores)
  BY FailsKeeps DEF IndexerInv
<1>2. /\ ChainInv' /\ FeedInv' /\ CfgInv' /\ MainInv' /\ Rests'
      /\ Frontier' = Frontier /\ WantResume' = WantResume
  BY StandsKeep
<1>3. DbCovers' /\ (WantResume => \A h \in db'[1] : h <= progress')
  BY <1>1, DbStepKeeps
<1>4. SinkQuiet'
  <2>1. CASE FlushFails
    <3>1. alive /\ sinkPc # "idle" /\ sinkPc' = "failed"
      BY <2>1 DEF FlushFails
    <3>2. mainPc \notin {"boot", "poll", "closing"} /\ ~(Syncing /\ ~delivering)
      BY <3>1 DEF IndexerInv, SinkQuiet
    <3>3. QED
      BY <3>1, <3>2 DEF SinkQuiet, Syncing, mainVars, FeedStands
  <2>2. CASE Kill
    BY <2>2 DEF Kill, SinkQuiet
  <2>3. QED
    BY <2>1, <2>2
<1>5. ProcessCovers' /\ Resumes'
  BY <1>1, <1>2, <1>3 DEF ProcessCovers, Resumes, Busy
<1>6. QED
  BY <1>1, <1>2, <1>3, <1>4, <1>5 DEF IndexerInv

LEMMA EndsKeep ==
  ASSUME IndexerInv, SinkFails \/ ProcessEnds \/ ErrorEnds
  PROVE  IndexerInv'
<1>1. (FlushFails \/ Kill) /\ UNCHANGED mainVars /\ FeedStands
  BY DEF SinkFails, ProcessEnds, ErrorEnds, Crash, feedVars, FeedStands
<1>2. QED
  BY <1>1, LostKeeps

LEMMA ProcessStartsKeeps ==
  ASSUME IndexerInv, ProcessStarts
  PROVE  IndexerInv'
<1>1. /\ Restart /\ restarts' = restarts + 1 /\ mainPc' = "boot"
      /\ UNCHANGED <<cfg, tip, next, indexedFrom, everGivenUp>> /\ UNCHANGED feedVars
  BY DEF ProcessStarts
<1>2. SinkInv' /\ Held' = {} /\ UNCHANGED <<db, progress>> /\ sinkPc' = "idle"
  BY <1>1, RestartKeeps DEF IndexerInv, Restart
<1>3. CfgInv' /\ ExplicitFrom' = ExplicitFrom /\ WantResume' = WantResume /\ FeedInv'
  BY <1>1, ConfigSame, FeedSame DEF IndexerInv
<1>4. ChainInv' /\ MainInv' /\ Rests'
  BY <1>1, <1>3 DEF IndexerInv, ChainInv, MainInv, Rests
<1>5. SinkQuiet'
  BY <1>1, <1>2 DEF SinkQuiet
<1>6. DbCovers' /\ ProcessCovers' /\ Resumes'
  BY <1>1, <1>2, <1>3 DEF IndexerInv, DbCovers, ProcessCovers, Resumes, Busy
<1>7. QED
  BY <1>2, <1>3, <1>4, <1>5, <1>6 DEF IndexerInv

------------------------------------------------------------------------------
LEMMA ChainGrowsKeeps ==
  ASSUME IndexerInv, ChainGrows
  PROVE  IndexerInv'
<1>1. /\ tip < MaxTip /\ tip' = tip + 1
      /\ UNCHANGED <<cfg, mainPc, next, restarts, indexedFrom, everGivenUp>>
      /\ UNCHANGED sinkVars /\ UNCHANGED feedVars
  BY DEF ChainGrows
<1>2. /\ SinkInv' /\ FeedInv' /\ CfgInv' /\ Frontier' = Frontier
      /\ Held' = Held /\ Working' = Working
      /\ ExplicitFrom' = ExplicitFrom /\ WantResume' = WantResume
  BY <1>1, SinkInvSame, SinkSame, FeedSame, ConfigSame DEF IndexerInv
<1>3. ChainInv'
  <2>1. 1..(tip + 1) \subseteq 1..MaxTip
    BY <1>1 DEF IndexerInv, ChainInv
  <2>2. QED
    BY <1>1, <2>1 DEF IndexerInv, ChainInv
<1>4. MainInv' /\ Rests' /\ SinkQuiet'
  BY <1>1, <1>2 DEF IndexerInv, MainInv, Rests, SinkQuiet, Syncing, feedVars, sinkVars
<1>5. DbCovers' /\ ProcessCovers' /\ Resumes'
  BY <1>1, <1>2 DEF IndexerInv, DbCovers, ProcessCovers, Resumes, Busy, sinkVars
<1>6. QED
  BY <1>2, <1>3, <1>4, <1>5 DEF IndexerInv

(* What a call of syncRange over from..to leaves true.                     *)
LEMMA CalledKeeps ==
  ASSUME NEW from \in Nat, NEW to \in Nat, FeedCalled(from, to)
  PROVE  FeedInv' /\ Frontier' = from /\ feedFrom' = from /\ feedTo' = to /\ ~delivering'
<1>1. /\ feedFrom' = from /\ feedTo' = to /\ cursor' = from /\ delivering' = FALSE
      /\ feedStatus' = "running" /\ delivered' = << >> /\ givenUp' = {}
  BY DEF FeedCalled
<1>2. << >> \in Seq(Nat)
  OBVIOUS
<1>3. delivered' \in Seq(Nat)
  BY <1>1, <1>2
<1>4. from <= from /\ (from <= to => from <= to + 1)
  OBVIOUS
<1>5. FeedInv'
  BY <1>1, <1>3, <1>4 DEF FeedInv
<1>6. QED
  BY <1>1, <1>5 DEF Frontier

LEMMA BootKeeps ==
  ASSUME IndexerInv, Boot
  PROVE  IndexerInv'
<1>1. /\ alive /\ mainPc = "boot" /\ mainPc' = "backfill"
      /\ FeedCalled(StartFrom, EndHeight)
      /\ indexedFrom' = IF indexedFrom = NotSet THEN StartFrom ELSE indexedFrom
      /\ UNCHANGED <<cfg, tip, next, restarts, everGivenUp>> /\ UNCHANGED sinkVars
  BY DEF Boot
<1>2. /\ ExplicitFrom \in Nat \ {0} /\ ExplicitFrom # NotSet
      /\ EndHeight \in Nat /\ 1..EndHeight \subseteq Blocks
  BY ConfigFacts DEF IndexerInv, EndHeight, ChainInv
<1>3. /\ sinkPc = "idle" /\ Held = {} /\ Working
      /\ progress \in Nat \union {NoProgress} /\ db[1] \subseteq Blocks
  BY <1>1, SinkFacts DEF IndexerInv, SinkQuiet, Working
<1>4. /\ StartFrom \in Nat /\ StartFrom # NotSet
      /\ indexedFrom' = ExplicitFrom /\ indexedFrom' <= StartFrom
      /\ \A h \in indexedFrom'..(StartFrom - 1) : h \in db[1] \union everGivenUp
      /\ WantResume => progress < StartFrom
  <2>1. CASE WantResume /\ progress # NoProgress
    <3>1. StartFrom = progress + 1 /\ progress \in Nat
      BY <1>3, <2>1 DEF StartFrom
    <3>2. indexedFrom = ExplicitFrom /\ indexedFrom <= progress /\ indexedFrom # NotSet
      BY <2>1 DEF IndexerInv, MainInv, DbCovers
    <3>3. indexedFrom' = indexedFrom
      BY <1>1, <3>2
    <3>4. \A h \in indexedFrom..progress : h \in db[1] \union everGivenUp
      BY <2>1 DEF IndexerInv, DbCovers
    <3>5. QED
      BY <1>2, <3>1, <3>2, <3>3, <3>4 DEF NotSet
  <2>2. CASE ~(WantResume /\ progress # NoProgress)
    <3>1. StartFrom = ExplicitFrom
      BY <2>2 DEF StartFrom
    <3>2. indexedFrom' = ExplicitFrom
      BY <1>1, <3>1 DEF IndexerInv, MainInv
    <3>3. WantResume => progress < StartFrom
      BY <1>2, <2>2, <3>1 DEF NoProgress
    <3>4. QED
      BY <1>2, <3>1, <3>2, <3>3
  <2>3. QED
    BY <2>1, <2>2
<1>5. FeedInv' /\ Frontier' = StartFrom /\ feedFrom' = StartFrom /\ feedTo' = EndHeight /\ ~delivering'
  BY <1>1, <1>2, <1>4, CalledKeeps
<1>6. /\ SinkInv' /\ Held' = Held /\ Working' = Working
      /\ CfgInv' /\ ExplicitFrom' = ExplicitFrom /\ WantResume' = WantResume
      /\ UNCHANGED <<alive, sinkPc, db, progress>>
  BY <1>1, SinkInvSame, SinkSame, ConfigSame DEF IndexerInv, sinkVars
<1>7. ChainInv' /\ Rests'
  BY <1>1 DEF IndexerInv, ChainInv, Rests
<1>8. MainInv'
  BY <1>1, <1>2, <1>4, <1>5, <1>6 DEF IndexerInv, MainInv
<1>9. SinkQuiet'
  BY <1>1, <1>3, <1>6 DEF SinkQuiet
<1>10. DbCovers'
  <2>1. progress # NoProgress => indexedFrom' = indexedFrom
    BY <1>1 DEF IndexerInv, DbCovers
  <2>2. QED
    BY <1>1, <1>6, <2>1 DEF IndexerInv, DbCovers
<1>11. ProcessCovers' /\ Resumes'
  BY <1>1, <1>3, <1>4, <1>5, <1>6 DEF IndexerInv, ProcessCovers, Resumes
<1>12. QED
  BY <1>5, <1>6, <1>7, <1>8, <1>9, <1>10, <1>11 DEF IndexerInv

LEMMA PollFindsBlocksKeeps ==
  ASSUME IndexerInv, PollFindsBlocks
  PROVE  IndexerInv' /\ feedFrom' = feedTo + 1 /\ feedFrom' <= feedTo'
<1>1. /\ alive /\ mainPc = "poll" /\ mainPc' = "follow" /\ next <= tip
      /\ FeedCalled(next, tip)
      /\ UNCHANGED <<cfg, tip, next, restarts, indexedFrom, everGivenUp>> /\ UNCHANGED sinkVars
  BY DEF PollFindsBlocks, NewBlocks
<1>2. /\ next \in Nat /\ tip \in Nat /\ next = feedTo + 1 /\ Frontier = next
      /\ feedFrom <= feedTo /\ feedFrom \in Nat /\ feedTo \in Nat
      /\ sinkPc = "idle"
  BY <1>1 DEF IndexerInv, MainInv, ChainInv, Rests, FeedInv, Frontier, SinkQuiet
<1>3. FeedInv' /\ Frontier' = next /\ feedFrom' = next /\ feedTo' = tip /\ ~delivering'
  BY <1>1, <1>2, CalledKeeps
<1>4. /\ SinkInv' /\ Held' = Held /\ Working' = Working
      /\ CfgInv' /\ ExplicitFrom' = ExplicitFrom /\ WantResume' = WantResume
      /\ UNCHANGED <<alive, sinkPc, db, progress>>
  BY <1>1, SinkInvSame, SinkSame, ConfigSame DEF IndexerInv, sinkVars
<1>5. ChainInv' /\ Rests' /\ SinkQuiet'
  BY <1>1, <1>2, <1>4 DEF IndexerInv, ChainInv, Rests, SinkQuiet
<1>6. MainInv'
  <2>1. indexedFrom \in Nat /\ indexedFrom <= feedFrom /\ indexedFrom # NotSet
    BY <1>1, ConfigFacts DEF IndexerInv, MainInv
  <2>2. indexedFrom <= next
    BY <1>2, <2>1
  <2>3. 1..tip \subseteq Blocks
    BY DEF IndexerInv, ChainInv
  <2>4. QED
    BY <1>1, <1>3, <1>4, <2>1, <2>2, <2>3 DEF IndexerInv, MainInv
<1>7. DbCovers' /\ ProcessCovers' /\ Resumes'
  BY <1>1, <1>2, <1>3, <1>4 DEF IndexerInv, DbCovers, ProcessCovers, Resumes, Busy
<1>8. QED
  BY <1>1, <1>2, <1>3, <1>4, <1>5, <1>6, <1>7 DEF IndexerInv

(* syncRange has returned: nothing of its range is outstanding.            *)
LEMMA ReturnFacts ==
  ASSUME IndexerInv, Return
  PROVE  /\ feedFrom <= feedTo /\ cursor = feedTo + 1 /\ ~delivering
         /\ UNCHANGED <<feedFrom, feedTo, cursor, delivering, delivered, givenUp>>
         /\ FeedInv' /\ Frontier' = Frontier /\ feedTo + 1 \in Nat
<1>1. /\ feedFrom <= feedTo /\ cursor = feedTo + 1 /\ ~delivering /\ feedStatus' = "returned"
      /\ UNCHANGED <<feedFrom, feedTo, cursor, delivering, delivered, givenUp>>
  BY DEF Return
<1>2. QED
  BY <1>1 DEF IndexerInv, FeedInv, Frontier

LEMMA BackfillReturnsKeeps ==
  ASSUME IndexerInv, BackfillReturns
  PROVE  IndexerInv'
<1>1. /\ alive /\ mainPc = "backfill" /\ Return /\ mainPc' \in {"poll", "closing"}
      /\ next' = IF cfg.follow THEN feedTo + 1 ELSE next
      /\ mainPc' = "poll" => cfg.follow
      /\ UNCHANGED <<cfg, tip, restarts, indexedFrom, everGivenUp>> /\ UNCHANGED sinkVars
  BY DEF BackfillReturns, AfterRange
<1>2. /\ feedFrom <= feedTo /\ cursor = feedTo + 1 /\ ~delivering
      /\ UNCHANGED <<feedFrom, feedTo, cursor, delivering, delivered, givenUp>>
      /\ FeedInv' /\ Frontier' = Frontier /\ feedTo + 1 \in Nat
  BY <1>1, ReturnFacts
<1>3. /\ SinkInv' /\ Held' = Held /\ Working' = Working
      /\ CfgInv' /\ ExplicitFrom' = ExplicitFrom /\ WantResume' = WantResume
      /\ UNCHANGED <<alive, sinkPc, db, progress>>
  BY <1>1, SinkInvSame, SinkSame, ConfigSame DEF IndexerInv, sinkVars
<1>4. sinkPc = "idle"
  BY <1>1, <1>2 DEF IndexerInv, SinkQuiet, Syncing
<1>5. ChainInv' /\ Rests' /\ SinkQuiet'
  BY <1>1, <1>2, <1>3, <1>4 DEF IndexerInv, ChainInv, Rests, SinkQuiet
<1>6. MainInv'
  BY <1>1, <1>2, <1>3 DEF IndexerInv, MainInv
<1>7. DbCovers' /\ ProcessCovers' /\ Resumes'
  BY <1>1, <1>2, <1>3 DEF IndexerInv, DbCovers, ProcessCovers, Resumes, Busy
<1>8. QED
  BY <1>2, <1>3, <1>5, <1>6, <1>7 DEF IndexerInv

LEMMA RoundReturnsKeeps ==
  ASSUME IndexerInv, RoundReturns
  PROVE  IndexerInv'
<1>1. /\ alive /\ mainPc = "follow" /\ Return /\ mainPc' = "flushing"
      /\ next' = feedTo + 1 /\ Flush
      /\ UNCHANGED <<cfg, tip, restarts, indexedFrom, everGivenUp>>
  BY DEF RoundReturns, AfterRange
<1>2. /\ feedFrom <= feedTo /\ cursor = feedTo + 1 /\ ~delivering
      /\ UNCHANGED <<feedFrom, feedTo, cursor, delivering, delivered, givenUp>>
      /\ FeedInv' /\ Frontier' = Frontier /\ feedTo + 1 \in Nat
  BY <1>1, ReturnFacts
<1>3. /\ SinkInv' /\ Working' /\ Held' = Held /\ UNCHANGED <<db, progress, mode>>
      /\ sinkPc' = "idle" => Held' = {}
  BY <1>1, FlushKeeps DEF IndexerInv
<1>4. CfgInv' /\ ExplicitFrom' = ExplicitFrom /\ WantResume' = WantResume /\ Working
  BY <1>1, ConfigSame DEF IndexerInv, Flush, Working
<1>5. ChainInv' /\ Rests' /\ SinkQuiet'
  BY <1>1, <1>2, <1>3 DEF IndexerInv, ChainInv, Rests, SinkQuiet, Syncing
<1>6. MainInv'
  BY <1>1, <1>2, <1>4 DEF IndexerInv, MainInv
<1>7. DbCovers' /\ ProcessCovers' /\ Resumes'
  BY <1>1, <1>2, <1>3, <1>4 DEF IndexerInv, DbCovers, ProcessCovers, Resumes, Busy
<1>8. QED
  BY <1>2, <1>3, <1>4, <1>5, <1>6, <1>7 DEF IndexerInv

LEMMA FlushReturnsKeeps ==
  ASSUME IndexerInv, FlushReturns
  PROVE  IndexerInv'
<1>1. /\ alive /\ mainPc = "flushing" /\ sinkPc = "idle" /\ mainPc' = "poll"
      /\ UNCHANGED <<cfg, tip, next, restarts, indexedFrom, everGivenUp>>
      /\ UNCHANGED sinkVars /\ UNCHANGED feedVars
  BY DEF FlushReturns
<1>2. /\ SinkInv' /\ FeedInv' /\ CfgInv' /\ Frontier' = Frontier
      /\ Held' = Held /\ Working' = Working
      /\ ExplicitFrom' = ExplicitFrom /\ WantResume' = WantResume
      /\ UNCHANGED <<alive, sinkPc, db, progress>>
  BY <1>1, SinkInvSame, SinkSame, FeedSame, ConfigSame DEF IndexerInv, sinkVars
<1>3. ChainInv' /\ Rests' /\ SinkQuiet'
  BY <1>1, <1>2 DEF IndexerInv, ChainInv, Rests, SinkQuiet, feedVars
<1>4. MainInv'
  BY <1>1, <1>2 DEF IndexerInv, MainInv, feedVars
<1>5. DbCovers' /\ ProcessCovers' /\ Resumes'
  BY <1>1, <1>2 DEF IndexerInv, DbCovers, ProcessCovers, Resumes, Busy
<1>6. QED
  BY <1>2, <1>3, <1>4, <1>5 DEF IndexerInv

LEMMA CloseFlushesKeeps ==
  ASSUME IndexerInv, CloseFlushes
  PROVE  IndexerInv'
<1>1. /\ alive /\ mainPc = "closing" /\ mainPc' = "closed" /\ Flush
      /\ UNCHANGED <<cfg, tip, next, restarts, indexedFrom, everGivenUp>>
      /\ UNCHANGED feedVars
  BY DEF CloseFlushes
<1>2. /\ SinkInv' /\ Working' /\ Held' = Held /\ UNCHANGED <<db, progress, mode>>
      /\ sinkPc' = "idle" => Held' = {}
  BY <1>1, FlushKeeps DEF IndexerInv
<1>3. /\ CfgInv' /\ ExplicitFrom' = ExplicitFrom /\ WantResume' = WantResume /\ Working
      /\ FeedInv' /\ Frontier' = Frontier
  BY <1>1, ConfigSame, FeedSame DEF IndexerInv, Flush, Working
<1>4. ChainInv' /\ Rests' /\ SinkQuiet'
  BY <1>1, <1>2 DEF IndexerInv, ChainInv, Rests, SinkQuiet, Syncing, feedVars
<1>5. MainInv'
  BY <1>1, <1>3 DEF IndexerInv, MainInv, feedVars
<1>6. DbCovers' /\ ProcessCovers' /\ Resumes'
  BY <1>1, <1>2, <1>3 DEF IndexerInv, DbCovers, ProcessCovers, Resumes, Busy
<1>7. QED
  BY <1>2, <1>3, <1>4, <1>5, <1>6 DEF IndexerInv

(* The runner moves from its frontier n to a height m: those in between    *)
(* are given up, and m is written to the sink or is what it goes on with.  *)
LEMMA FeedAdvancesKeeps ==
  ASSUME IndexerInv, FeedAdvances
  PROVE  /\ IndexerInv' /\ UNCHANGED <<db, progress>>
         /\ WantResume /\ Len(delivered') > Len(delivered) =>
              cursor' \in Blocks /\ cursor' \notin db[1]
<1> DEFINE n == Frontier
<1>1. /\ alive /\ sinkPc = "idle" /\ Syncing /\ Working /\ Busy
      /\ UNCHANGED <<cfg, mainPc, tip, next, restarts, indexedFrom>>
      /\ everGivenUp' = everGivenUp \union givenUp'
      /\ feedStatus = "running"
      /\ IF delivering' THEN Write(cursor') ELSE UNCHANGED sinkVars
      /\ UNCHANGED <<feedFrom, feedTo, feedStatus>>
  BY DEF FeedAdvances, SinkAnswered, Advance, Working, Busy, Syncing
<1>2. PICK m \in n..(feedTo + 1), starts \in BOOLEAN :
        /\ starts => m <= feedTo
        /\ cursor' = m
        /\ givenUp' = givenUp \union (n..(m - 1))
        /\ delivering' = starts
        /\ delivered' = IF starts THEN Append(delivered, m) ELSE delivered
  BY DEF FeedAdvances, Advance, Frontier
<1>3. /\ n \in Nat /\ m \in Nat /\ feedTo \in Nat /\ feedFrom \in Nat
      /\ n <= m /\ m <= feedTo + 1 /\ feedFrom <= n
  BY DEF Frontier, IndexerInv, FeedInv
<1> HIDE DEF n
<1>4. FeedInv'
  <2>1. delivered' \in Seq(Nat)
    <3>1. delivered \in Seq(Nat)
      BY DEF IndexerInv, FeedInv
    <3>2. Append(delivered, m) \in Seq(Nat)
      BY <1>3, <3>1
    <3>3. QED
      BY <1>2, <3>1, <3>2
  <2>2. givenUp' \subseteq Nat
    BY <1>2, <1>3 DEF IndexerInv, FeedInv
  <2>3. feedFrom' <= cursor' /\ (feedFrom' <= feedTo' => cursor' <= feedTo' + 1)
    BY <1>1, <1>2, <1>3
  <2>4. delivering' \in BOOLEAN /\ (delivering' => cursor' <= feedTo')
    BY <1>1, <1>2
  <2>5. QED
    BY <1>1, <1>2, <1>3, <2>1, <2>2, <2>3, <2>4 DEF FeedInv
<1>5. CfgInv' /\ ExplicitFrom' = ExplicitFrom /\ WantResume' = WantResume /\ ChainInv'
  BY <1>1, ConfigSame DEF IndexerInv, ChainInv
<1>6. MainInv' /\ Rests'
  <2>1. everGivenUp' \subseteq Nat
    BY <1>1, <1>4 DEF FeedInv, IndexerInv, MainInv
  <2>2. QED
    BY <1>1, <1>5, <2>1 DEF IndexerInv, MainInv, Rests, Syncing
<1>7. /\ indexedFrom \in Nat /\ indexedFrom <= n /\ 1..feedTo \subseteq Blocks
      /\ indexedFrom >= 1
  <2>1. /\ indexedFrom \in Nat /\ indexedFrom <= feedFrom /\ 1..feedTo \subseteq Blocks
        /\ indexedFrom >= 1
    BY <1>1, ConfigFacts DEF IndexerInv, MainInv, Busy
  <2>2. QED
    BY <1>3, <2>1
<1>8. \A g \in Held : g \in Nat /\ indexedFrom <= g /\ g < n
  BY <1>1, SinkFacts DEF n, IndexerInv, ProcessCovers
<1>9. \A h \in indexedFrom..(m - 1) : h \in db[1] \union Held \union everGivenUp'
  <2> SUFFICES ASSUME NEW h \in indexedFrom..(m - 1)
               PROVE  h \in db[1] \union Held \union everGivenUp'
    OBVIOUS
  <2>1. CASE h < n
    <3>1. h \in indexedFrom..(n - 1)
      BY <1>3, <1>7, <2>1
    <3>2. QED
      BY <1>1, <3>1 DEF n, IndexerInv, ProcessCovers
  <2>2. CASE h >= n
    BY <1>1, <1>2, <1>3, <1>7, <2>2
  <2>3. QED
    BY <1>3, <1>7, <2>1, <2>2
<1>10. ASSUME WantResume PROVE progress < n /\ \A g \in Held : progress < g
  BY <1>1, <1>10 DEF n, IndexerInv, Resumes
<1>11. CASE starts = TRUE
  <2>1. m \in Blocks /\ Write(m) /\ Frontier' = m + 1 /\ delivering'
    BY <1>1, <1>2, <1>3, <1>7, <1>11 DEF Frontier
  <2>2. \A g \in Held : g < m
    BY <1>3, <1>8
  <2>3. SinkInv' /\ Working' /\ Held' = Held \union {m} /\ UNCHANGED <<db, progress, mode>>
    BY <2>1, <2>2, WriteKeeps DEF IndexerInv
  <2>4. SinkQuiet'
    BY <1>1, <2>1 DEF SinkQuiet, Syncing
  <2>5. DbCovers'
    BY <1>1, <2>3 DEF IndexerInv, DbCovers
  <2>6. ProcessCovers'
    <3>1. ASSUME NEW h \in indexedFrom..m
          PROVE  h \in db[1] \union Held' \union everGivenUp'
      BY <1>3, <1>7, <1>9, <2>3
    <3>2. (m + 1) - 1 = m
      BY <1>3
    <3>3. \A g \in Held' : indexedFrom <= g /\ g < m + 1
      BY <1>3, <1>7, <1>8, <2>2, <2>3
    <3>4. QED
      BY <1>1, <2>1, <2>3, <3>1, <3>2, <3>3 DEF ProcessCovers
  <2>7. ASSUME WantResume PROVE progress < m /\ \A h \in db[1] : h <= progress
    <3>1. progress < n /\ progress \in Int
      BY <1>10, <2>7, SinkFacts DEF IndexerInv, NoProgress
    <3>2. QED
      BY <1>3, <2>7, <3>1 DEF IndexerInv, Resumes
  <2>8. Resumes'
    <3>1. progress \in Int
      BY SinkFacts DEF IndexerInv, NoProgress
    <3>2. WantResume => progress < m + 1 /\ \A g \in Held' : progress < g
      BY <1>3, <1>10, <2>3, <2>7, <3>1
    <3>3. QED
      BY <1>5, <2>1, <2>3, <2>7, <3>2 DEF Resumes
  <2>9. WantResume => m \notin db[1]
    <3>1. progress \in Int
      BY SinkFacts DEF IndexerInv, NoProgress
    <3>2. QED
      BY <1>3, <2>7, <3>1
  <2>10. QED
    BY <1>2, <1>4, <1>5, <1>6, <2>1, <2>3, <2>4, <2>5, <2>6, <2>8, <2>9 DEF IndexerInv
<1>12. CASE starts = FALSE
  <2>1. UNCHANGED sinkVars /\ Frontier' = m /\ ~delivering' /\ delivered' = delivered
    BY <1>1, <1>2, <1>12 DEF Frontier
  <2>2. SinkInv' /\ Held' = Held /\ Working' /\ UNCHANGED <<db, progress, sinkPc, alive>>
    BY <1>1, <2>1, SinkInvSame, SinkSame DEF IndexerInv, sinkVars
  <2>3. SinkQuiet'
    BY <1>1, <2>2 DEF SinkQuiet, Syncing
  <2>4. DbCovers'
    BY <1>1, <2>2 DEF IndexerInv, DbCovers
  <2>5. ProcessCovers'
    <3>1. \A g \in Held : g < m
      BY <1>3, <1>8
    <3>2. QED
      BY <1>1, <1>8, <1>9, <2>1, <2>2, <3>1 DEF ProcessCovers
  <2>6. Resumes'
    <3>1. progress \in Int
      BY SinkFacts DEF IndexerInv, NoProgress
    <3>2. WantResume => progress < m
      BY <1>3, <1>10, <3>1
    <3>3. QED
      BY <1>5, <1>10, <2>1, <2>2, <3>2 DEF IndexerInv, Resumes
  <2>7. ~(Len(delivered') > Len(delivered))
    <3>1. Len(delivered) \in Nat
      BY DEF IndexerInv, FeedInv
    <3>2. QED
      BY <2>1, <3>1
  <2>8. QED
    BY <1>4, <1>5, <1>6, <2>2, <2>3, <2>4, <2>5, <2>6, <2>7 DEF IndexerInv
<1>13. QED
  BY <1>2, <1>11, <1>12

------------------------------------------------------------------------------
LEMMA StutterKeeps ==
  ASSUME IndexerInv, UNCHANGED vars
  PROVE  IndexerInv'
<1>1. UNCHANGED mainVars /\ UNCHANGED sinkVars /\ UNCHANGED feedVars
  BY DEF vars, mainVars, sinkVars, feedVars
<1>2. /\ SinkInv' /\ FeedInv' /\ CfgInv' /\ ChainInv' /\ Frontier' = Frontier
      /\ Held' = Held /\ Working' = Working /\ Syncing' = Syncing
      /\ ExplicitFrom' = ExplicitFrom /\ WantResume' = WantResume
  BY <1>1, SinkInvSame, SinkSame, FeedSame, MainSame, ConfigSame DEF IndexerInv, mainVars
<1>3. MainInv' /\ Rests' /\ SinkQuiet'
  BY <1>1, <1>2 DEF IndexerInv, MainInv, Rests, SinkQuiet, mainVars, sinkVars, feedVars
<1>4. DbCovers' /\ ProcessCovers' /\ Resumes'
  BY <1>1, <1>2 DEF IndexerInv, DbCovers, ProcessCovers, Resumes, Busy, mainVars, sinkVars
<1>5. QED
  BY <1>2, <1>3, <1>4 DEF IndexerInv

LEMMA NextKeeps == IndexerInv /\ [Next]_vars => IndexerInv'
BY StutterKeeps, ChainGrowsKeeps, BootKeeps, FeedAdvancesKeeps, SinkRunsKeeps, EndsKeep,
   BackfillReturnsKeeps, PollFindsBlocksKeeps, RoundReturnsKeeps, FlushReturnsKeeps,
   CloseFlushesKeeps, ProcessStartsKeeps DEF Next

(* The invariant holds of every state, over every interleaving of the      *)
(* chain, the runner, the sink, failed flushes, kills and restarts.        *)
THEOREM Invariant == Spec => []IndexerInv
BY InvInit, NextKeeps, PTL DEF Spec

(* Types: each variable of the program keeps the values of its declaration,*)
(* the cursor of the runner, in particular, its range.                     *)
THEOREM TypeCorrect == Spec => []TypeOK
<1>1. IndexerInv => TypeOK
  <2> SUFFICES ASSUME IndexerInv PROVE TypeOK
    OBVIOUS
  <2>1. indexedFrom \in Nat \union {NotSet}
    BY ConfigFacts DEF IndexerInv, MainInv
  <2>2. feedFrom <= feedTo => cursor \in feedFrom..(feedTo + 1)
    BY DEF IndexerInv, FeedInv
  <2>3. QED
    BY <2>1, <2>2 DEF IndexerInv, TypeOK, ChainInv, FeedInv, MainInv, SinkInv
<1>2. QED
  BY <1>1, Invariant, PTL

LEMMA StoredBlock ==
  ASSUME SinkInv, NEW h \in Blocks
  PROVE  Stored(h) <=> h \in db[1]
<1>1. /\ \A t \in Tables : db[t] = OfTable(db[1], t)
      /\ TablesOf[h] \subseteq Tables /\ 1 \in TablesOf[h]
  BY TablesAssumption DEF SinkInv, StoredWhole
<1>2. QED
  BY <1>1 DEF Stored, OfTable

LEMMA CoveredAre ==
  ASSUME SinkInv, NEW h \in db[1] \union everGivenUp
  PROVE  StoredOrGivenUp(h)
BY StoredBlock, SinkFacts DEF StoredOrGivenUp

(* Resuming skips nothing: every height from the first one ever indexed up *)
(* to the committed last_height is stored whole or was given up.           *)
THEOREM NoGapHolds == Spec => []NoGap
<1>1. IndexerInv => NoGap
  BY CoveredAre DEF IndexerInv, DbCovers, NoGap
<1>2. QED
  BY <1>1, Invariant, PTL

(* With RESUME no block that is stored is fetched and written again.       *)
THEOREM NothingStoredTwiceHolds == Spec => NothingStoredTwice
<1>1. ASSUME IndexerInv, [Next]_vars
      PROVE  [WantResume /\ Len(delivered') > Len(delivered) => ~Stored(cursor')]_vars
  <2>1. CASE FeedAdvances
    BY <1>1, <2>1, FeedAdvancesKeeps, StoredBlock DEF IndexerInv
  <2>2. CASE delivered' = delivered
    <3>1. Len(delivered) \in Nat
      BY <1>1 DEF IndexerInv, FeedInv
    <3>2. QED
      BY <2>2, <3>1
  <2>3. CASE Boot \/ PollFindsBlocks
    <3>1. Len(delivered) \in Nat /\ delivered' = << >>
      BY <1>1, <2>3 DEF IndexerInv, FeedInv, Boot, PollFindsBlocks, FeedCalled
    <3>2. Len(delivered') = 0
      BY <3>1
    <3>3. QED
      BY <3>1, <3>2
  <2>4. \/ FeedAdvances \/ Boot \/ PollFindsBlocks \/ UNCHANGED vars
        \/ delivered' = delivered
    BY <1>1 DEF Next, ChainGrows, SinkRuns, SinkFails, BackfillReturns, RoundReturns, Return,
       FlushReturns, CloseFlushes, ProcessEnds, ErrorEnds, Crash, ProcessStarts, feedVars
  <2>5. QED
    BY <2>1, <2>2, <2>3, <2>4 DEF vars
<1>2. QED
  BY <1>1, Invariant, PTL DEF Spec, NothingStoredTwice

LEMMA DbMoves ==
  ASSUME IndexerInv, [Next]_vars
  PROVE  UNCHANGED <<db, progress>> \/ (Working /\ Stores)
<1>1. CASE SinkRuns
  BY <1>1, SinkStepKeeps DEF IndexerInv, SinkRuns
<1>2. CASE SinkFails \/ ProcessEnds \/ ErrorEnds
  BY <1>2, FailsKeeps DEF IndexerInv, SinkFails, ProcessEnds, ErrorEnds
<1>3. CASE FeedAdvances
  BY <1>3, FeedAdvancesKeeps
<1>4. CASE RoundReturns \/ CloseFlushes
  BY <1>4, FlushKeeps DEF IndexerInv, RoundReturns, CloseFlushes
<1>5. CASE ProcessStarts
  BY <1>5, RestartKeeps DEF IndexerInv, ProcessStarts
<1>6. CASE UNCHANGED vars \/ UNCHANGED sinkVars
  BY <1>6 DEF vars, sinkVars
<1>7. QED
  BY <1>1, <1>2, <1>3, <1>4, <1>5, <1>6 DEF Next, ChainGrows, Boot, BackfillReturns,
     PollFindsBlocks, FlushReturns

(* With RESUME last_height never moves backwards.                          *)
THEOREM ProgressMonotoneHolds == Spec => ProgressMonotone
<1>1. ASSUME IndexerInv, [Next]_vars
      PROVE  [WantResume => progress' >= progress]_vars
  <2>1. WantResume => progress <= progress'
    BY <1>1, DbMoves, DbStep
  <2>2. progress \in Int /\ progress' \in Int
    <3>1. IndexerInv'
      BY <1>1, NextKeeps
    <3>2. progress \in Nat \union {NoProgress}
      BY <1>1, SinkFacts DEF IndexerInv
    <3>3. SinkInv' => progress' \in Nat \union {NoProgress}
      BY DEF SinkInv, SinkTypeOK
    <3>4. QED
      BY <3>1, <3>2, <3>3 DEF IndexerInv, NoProgress
  <2>3. QED
    BY <2>1, <2>2
<1>2. QED
  BY <1>1, Invariant, PTL DEF Spec, ProgressMonotone

(* A follow round starts where the last range of this process ended.       *)
THEOREM RoundsAdjoinHolds == Spec => RoundsAdjoin
<1>1. ASSUME IndexerInv, [Next]_vars
      PROVE  [mainPc = "poll" /\ mainPc' = "follow" =>
                feedFrom' = feedTo + 1 /\ feedFrom' <= feedTo']_vars
  <2>1. CASE PollFindsBlocks
    BY <1>1, <2>1, PollFindsBlocksKeeps
  <2>2. mainPc = "poll" /\ mainPc' = "follow" => PollFindsBlocks
    BY <1>1 DEF Next, vars, mainVars, ChainGrows, Boot, FeedAdvances, SinkRuns, SinkFails,
       BackfillReturns, RoundReturns, FlushReturns, CloseFlushes, ProcessEnds, ErrorEnds,
       ProcessStarts
  <2>3. QED
    BY <2>1, <2>2
<1>2. QED
  BY <1>1, Invariant, PTL DEF Spec, RoundsAdjoin

LEMMA FlushedAre ==
  ASSUME IndexerInv
  PROVE  /\ alive /\ mainPc = "flushing" /\ sinkPc = "idle" =>
              \A h \in indexedFrom..(next - 1) : StoredOrGivenUp(h)
         /\ alive /\ mainPc = "closed" /\ sinkPc = "idle" =>
              \A h \in feedFrom..feedTo : StoredOrGivenUp(h)
<1> SUFFICES ASSUME alive, mainPc \in {"flushing", "closed"}, sinkPc = "idle"
             PROVE  /\ mainPc = "flushing" =>
                         \A h \in indexedFrom..(next - 1) : StoredOrGivenUp(h)
                    /\ mainPc = "closed" =>
                         \A h \in feedFrom..feedTo : StoredOrGivenUp(h)
  OBVIOUS
<1>1. Busy /\ Held = {}
  BY DEF Busy, Working, IndexerInv, SinkQuiet
<1>2. cursor = feedTo + 1 /\ ~delivering /\ feedTo \in Nat /\ feedFrom \in Nat
  BY DEF IndexerInv, Rests, FeedInv
<1>3. Frontier - 1 = feedTo
  BY <1>2 DEF Frontier
<1>4. \A h \in indexedFrom..feedTo : h \in db[1] \union everGivenUp
  BY <1>1, <1>3 DEF IndexerInv, ProcessCovers
<1>5. \A h \in indexedFrom..feedTo : StoredOrGivenUp(h)
  BY <1>4, CoveredAre DEF IndexerInv
<1>6. CASE mainPc = "flushing"
  <2>1. next - 1 = feedTo
    BY <1>2, <1>6 DEF IndexerInv, Rests
  <2>2. QED
    BY <1>5, <1>6, <2>1
<1>7. CASE mainPc = "closed"
  <2>1. indexedFrom \in Nat /\ indexedFrom <= feedFrom
    BY <1>7, ConfigFacts DEF IndexerInv, MainInv
  <2>2. \A h \in feedFrom..feedTo : h \in indexedFrom..feedTo
    BY <1>2, <2>1
  <2>3. QED
    BY <1>5, <1>7, <2>2
<1>8. QED
  BY <1>6, <1>7

ClosedAre ==
  alive /\ mainPc = "closed" /\ sinkPc = "idle" =>
    \A h \in feedFrom..feedTo : StoredOrGivenUp(h)

LEMMA ClosedAreAfter == IndexerInv' => ClosedAre'
<1>1. IndexerInv => ClosedAre
  BY FlushedAre DEF ClosedAre
<1>2. QED
  BY <1>1, PTL

(* What a flush that has returned was asked to make durable is in the      *)
(* database, or was given up: at the end of a follow round everything from *)
(* the first height on, at the end of a run without FOLLOW its range.      *)
THEOREM FlushedIsDurableHolds == Spec => FlushedIsDurable
<1>1. ASSUME IndexerInv, [Next]_vars, IndexerInv'
      PROVE  [/\ mainPc = "flushing" /\ mainPc' = "poll" =>
                   \A h \in indexedFrom..(next - 1) : StoredOrGivenUp(h)
              /\ alive' /\ mainPc' = "closed" /\ sinkPc' = "idle" =>
                   \A h \in feedFrom'..feedTo' : StoredOrGivenUp(h)']_vars
  <2>1. mainPc = "flushing" /\ mainPc' = "poll" => FlushReturns
    BY <1>1 DEF Next, vars, mainVars, ChainGrows, Boot, FeedAdvances, SinkRuns, SinkFails,
       BackfillReturns, PollFindsBlocks, RoundReturns, CloseFlushes, ProcessEnds, ErrorEnds,
       ProcessStarts
  <2>2. FlushReturns => alive /\ mainPc = "flushing" /\ sinkPc = "idle"
    BY DEF FlushReturns
  <2>3. mainPc = "flushing" /\ mainPc' = "poll" =>
          \A h \in indexedFrom..(next - 1) : StoredOrGivenUp(h)
    BY <1>1, <2>1, <2>2, FlushedAre
  <2>4. (alive /\ mainPc = "closed" /\ sinkPc = "idle" =>
             \A h \in feedFrom..feedTo : StoredOrGivenUp(h))'
    BY <1>1, ClosedAreAfter DEF ClosedAre
  <2>5. QED
    BY <2>3, <2>4
<1>2. QED
  BY <1>1, Invariant, PTL DEF Spec, FlushedIsDurable

(***************************************************************************)
(* The refinements.  With RESUME the whole program, whatever crashes and   *)
(* restarts happen, is one atomic store of whole blocks with a mark that   *)
(* covers them.  Without it a process may write stored blocks again and    *)
(* move the mark backwards; what is left is a store of whole blocks that   *)
(* loses none of them.                                                     *)
(***************************************************************************)
StoredBlocks == {h \in Blocks : Stored(h)}
HeldBlocks == IF Working THEN buf[1] \union txn[1] ELSE {}

Store == INSTANCE AtomicStore WITH
  stored <- StoredBlocks, held <- HeldBlocks, mark <- progress
Unmarked == INSTANCE BlockStore WITH
  stored <- StoredBlocks, held <- HeldBlocks \ StoredBlocks

ResumingImplementsStore == WantResume => Store!StoreSpec
ImplementsBlockStore == Unmarked!StoreSpec

StoreMaps == StoredBlocks = db[1] /\ HeldBlocks = IF Working THEN Held ELSE {}

LEMMA StoreMapping == IndexerInv => StoreMaps
<1> SUFFICES ASSUME IndexerInv PROVE StoreMaps
  OBVIOUS
<1>1. db[1] \subseteq Blocks /\ \A h \in Blocks : Stored(h) <=> h \in db[1]
  BY SinkFacts, StoredBlock DEF IndexerInv
<1>2. QED
  BY <1>1 DEF StoreMaps, StoredBlocks, HeldBlocks, Held

LEMMA StoreMappingNext == IndexerInv' => StoreMaps'
BY StoreMapping, PTL

(* A COMMIT stores all that is held and moves the mark to its highest.     *)
LEMMA StoresIsStoreAll ==
  ASSUME StoreMaps, StoreMaps', SinkInv, Stores, Working, ~Working' \/ Held' = {}
  PROVE  Store!StoreAll
<1>1. /\ StoredBlocks = db[1] /\ HeldBlocks = Held
      /\ StoredBlocks' = db'[1] /\ HeldBlocks' = {}
  BY DEF StoreMaps
<1>2. QED
  BY <1>1, StoresAll DEF Store!StoreAll

(* The block the runner hands to the sink lies above all that is held, and *)
(* with RESUME above the mark.                                             *)
LEMMA FeedDelivers ==
  ASSUME IndexerInv, FeedAdvances, delivering'
  PROVE  /\ cursor' \in Blocks /\ Write(cursor') /\ Working
         /\ \A g \in Held : g < cursor'
         /\ WantResume => cursor' > progress
<1> DEFINE n == Frontier
<1>1. /\ Syncing /\ Working /\ Busy /\ Write(cursor')
      /\ cursor' \in n..(feedTo + 1) /\ cursor' <= feedTo
  BY DEF FeedAdvances, SinkAnswered, Advance, Working, Busy, Syncing, Frontier
<1>2. /\ n \in Nat /\ feedTo \in Nat /\ feedFrom \in Nat /\ feedFrom <= n
  BY DEF Frontier, IndexerInv, FeedInv
<1>3. /\ indexedFrom \in Nat \ {0} /\ indexedFrom <= feedFrom
      /\ 1..feedTo \subseteq Blocks
  BY <1>1, ConfigFacts DEF IndexerInv, MainInv, Busy
<1>4. progress \in Int /\ Held \subseteq Nat
  <2>1. progress \in Int
    BY SinkFacts DEF IndexerInv, NoProgress
  <2>2. Held \subseteq Nat
    BY SinkFacts DEF IndexerInv
  <2>3. QED
    BY <2>1, <2>2
<1>5. (WantResume => progress < n) /\ \A g \in Held : g < n
  BY <1>1 DEF IndexerInv, ProcessCovers, Resumes
<1> HIDE DEF n
<1>6. cursor' \in 1..feedTo /\ cursor' \in Nat /\ n <= cursor'
  BY <1>1, <1>2, <1>3
<1>7. WantResume => cursor' > progress
  BY <1>2, <1>4, <1>5, <1>6
<1>8. \A g \in Held : g < cursor'
  BY <1>2, <1>4, <1>5, <1>6
<1>9. QED
  BY <1>1, <1>3, <1>6, <1>7, <1>8

AcceptedAbove(h) ==
  /\ HeldBlocks' = HeldBlocks \union {h} /\ UNCHANGED <<StoredBlocks, progress>>
  /\ \A g \in HeldBlocks : g < h
  /\ WantResume => h > progress

LEMMA StoreStep ==
  ASSUME IndexerInv, IndexerInv', [Next]_vars
  PROVE  \/ UNCHANGED Store!storeVars
         \/ \E h \in HeldBlocks' : AcceptedAbove(h)
         \/ Store!StoreAll
         \/ Store!LoseHeld
<1>1. SinkInv /\ StoreMaps /\ StoreMaps'
  BY StoreMapping, StoreMappingNext DEF IndexerInv
<1>2. ASSUME UNCHANGED <<db, progress>>, Held' = Held /\ (Working' <=> Working)
      PROVE  UNCHANGED Store!storeVars
  BY <1>1, <1>2 DEF StoreMaps, Store!storeVars
<1>3. ASSUME UNCHANGED <<db, progress>>, ~Working' \/ Held' = {}
      PROVE  Store!LoseHeld
  BY <1>1, <1>3 DEF StoreMaps, Store!LoseHeld
<1>4. CASE UNCHANGED sinkVars
  BY <1>2, <1>4, SinkSame DEF sinkVars
<1>5. CASE FeedAdvances /\ delivering'
  <2>1. /\ cursor' \in Blocks /\ Write(cursor') /\ Working
        /\ \A g \in Held : g < cursor'
        /\ WantResume => cursor' > progress
    BY <1>5, FeedDelivers
  <2>2. Held' = Held \union {cursor'} /\ Working' /\ UNCHANGED <<db, progress>>
    BY <1>1, <2>1, WriteKeeps
  <2>3. /\ HeldBlocks = Held /\ HeldBlocks' = Held \union {cursor'}
        /\ StoredBlocks' = StoredBlocks
    BY <1>1, <2>1, <2>2 DEF StoreMaps
  <2>4. AcceptedAbove(cursor') /\ cursor' \in HeldBlocks'
    BY <2>1, <2>2, <2>3 DEF AcceptedAbove
  <2>5. QED
    BY <2>4
<1>6. CASE SinkRuns
  <2>1. /\ Working /\ Working'
        /\ \/ Held' = Held /\ UNCHANGED <<db, progress>>
           \/ Held' = {} /\ Stores
    BY <1>1, <1>6, SinkStepKeeps DEF SinkRuns
  <2>2. QED
    BY <1>1, <1>2, <2>1, StoresIsStoreAll
<1>7. CASE RoundReturns \/ CloseFlushes
  <2>1. Flush /\ Working
    BY <1>7 DEF RoundReturns, CloseFlushes, Flush, Working
  <2>2. Held' = Held /\ Working' /\ UNCHANGED <<db, progress>>
    BY <1>1, <2>1, FlushKeeps
  <2>3. QED
    BY <1>2, <2>1, <2>2
<1>8. CASE SinkFails \/ ProcessEnds \/ ErrorEnds
  <2>1. ~Working' /\ (UNCHANGED <<db, progress>> \/ (Working /\ Stores))
    BY <1>1, <1>8, FailsKeeps DEF SinkFails, ProcessEnds, ErrorEnds
  <2>2. QED
    BY <1>1, <1>3, <2>1, StoresIsStoreAll
<1>9. CASE ProcessStarts
  <2>1. Held' = {} /\ UNCHANGED <<db, progress>>
    BY <1>1, <1>9, RestartKeeps DEF ProcessStarts
  <2>2. QED
    BY <1>3, <2>1
<1>10. FeedAdvances /\ ~delivering' => UNCHANGED sinkVars
  BY DEF FeedAdvances
<1>11. UNCHANGED vars => UNCHANGED sinkVars
  BY DEF vars, sinkVars
<1>12. QED
  BY <1>4, <1>5, <1>6, <1>7, <1>8, <1>9, <1>10, <1>11 DEF Next, ChainGrows, Boot,
     BackfillReturns, PollFindsBlocks, FlushReturns

LEMMA ResumingStep ==
  ASSUME IndexerInv, IndexerInv', [Next]_vars, WantResume
  PROVE  [Store!StoreNext]_(Store!storeVars)
<1>1. ASSUME NEW h \in HeldBlocks', AcceptedAbove(h) PROVE Store!Accept(h)
  BY <1>1 DEF AcceptedAbove, Store!Accept
<1>2. QED
  BY <1>1, StoreStep DEF Store!StoreNext

LEMMA UnmarkedStep ==
  ASSUME IndexerInv, IndexerInv', [Next]_vars
  PROVE  [Unmarked!StoreNext]_(Unmarked!storeVars)
<1>1. CASE UNCHANGED Store!storeVars
  BY <1>1 DEF Store!storeVars, Unmarked!storeVars
<1>2. ASSUME NEW h \in HeldBlocks', AcceptedAbove(h)
      PROVE  [Unmarked!StoreNext]_(Unmarked!storeVars)
  <2>1. CASE h \in StoredBlocks
    BY <1>2, <2>1 DEF AcceptedAbove, Unmarked!storeVars
  <2>2. CASE h \notin StoredBlocks
    <3>1. Unmarked!Accept(h) /\ h \in HeldBlocks' \ StoredBlocks'
      BY <1>2, <2>2 DEF AcceptedAbove, Unmarked!Accept
    <3>2. QED
      BY <3>1 DEF Unmarked!StoreNext
  <2>3. QED
    BY <2>1, <2>2
<1>3. CASE Store!StoreAll
  BY <1>3 DEF Store!StoreAll, Unmarked!StoreAll, Unmarked!StoreNext
<1>4. CASE Store!LoseHeld
  BY <1>4 DEF Store!LoseHeld, Unmarked!LoseHeld, Unmarked!StoreNext
<1>5. QED
  BY <1>1, <1>2, <1>3, <1>4, StoreStep

LEMMA NothingAtFirst == Init => StoredBlocks = {} /\ HeldBlocks = {} /\ progress = -1
<1> SUFFICES ASSUME Init PROVE StoredBlocks = {} /\ HeldBlocks = {} /\ progress = -1
  OBVIOUS
<1>1. IndexerInv
  BY InvInit
<1>2. Held = {} /\ db[1] = {} /\ progress = -1
  BY FirstTable DEF Init, SinkInit, MemInit, Held, Empty, NoProgress
<1>3. QED
  BY <1>1, <1>2, StoreMapping DEF StoreMaps

(* With RESUME, every block that main(), the runner and the sink together  *)
(* accept is above the mark and above what is held, blocks become visible  *)
(* whole and all at once with the mark that covers them, and a crash loses *)
(* what was held and nothing else - over any number of processes.          *)
THEOREM ResumingImplementsStoreHolds == Spec => ResumingImplementsStore
<1>1. Init => Store!StoreInit
  BY NothingAtFirst DEF Store!StoreInit
<1>2. WantResume /\ [Next]_vars => WantResume'
  BY DEF WantResume, Next, vars, mainVars, ChainGrows, Boot, FeedAdvances, SinkRuns, SinkFails,
     BackfillReturns, PollFindsBlocks, RoundReturns, FlushReturns, CloseFlushes, ProcessEnds,
     ErrorEnds, ProcessStarts
<1>3. IndexerInv /\ IndexerInv' /\ [Next]_vars /\ WantResume
        => [Store!StoreNext]_(Store!storeVars)
  BY ResumingStep
<1>4. QED
  BY <1>1, <1>2, <1>3, Invariant, PTL
     DEF Spec, ResumingImplementsStore, Store!StoreSpec

(* Whatever the configuration, a range that every process indexes anew     *)
(* included: blocks become visible whole, all of a flush at once, and a    *)
(* block that is stored stays stored.                                      *)
THEOREM ImplementsBlockStoreHolds == Spec => ImplementsBlockStore
<1>1. Init => Unmarked!StoreInit
  BY NothingAtFirst DEF Unmarked!StoreInit
<1>2. IndexerInv /\ IndexerInv' /\ [Next]_vars => [Unmarked!StoreNext]_(Unmarked!storeVars)
  BY UnmarkedStep
<1>3. QED
  BY <1>1, <1>2, Invariant, PTL DEF Spec, ImplementsBlockStore, Unmarked!StoreSpec
==============================================================================
