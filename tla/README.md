# Verification of chain-data-indexer

TLA+ models, TLC configurations and TLAPS proofs for the indexer in this
repository: a Node.js program that fetches the blocks of a Cosmos chain from an
RPC node, decodes their transactions in worker threads, turns them into rows and
stores them in PostgreSQL, first a range and then, if asked, every new block.

Source paths below are relative to the repository; `PROJECT.json` maps every
definition to the lines it models.

- [The system](#the-system)
- [Modules](#modules)
- [How the models correspond to the code](#how-the-models-correspond-to-the-code)
- [Runs](#runs)
- [Where code and documentation disagree](#where-code-and-documentation-disagree)
- [Fairness](#fairness)
- [Proofs](#proofs)
- [Not modelled](#not-modelled)
- [Plan](#plan)
- [Running it](#running-it)

## The system

One process, one JavaScript thread plus up to eight decoding threads, one
database. Everything on the main thread interleaves at `await`.

| Component | State | Operations | Talks to |
|---|---|---|---|
| main (`src/index.ts`) | resolved config, start and end height | boot, backfill, follow or close; SIGINT/SIGTERM | all of the below |
| configuration (`src/config.ts`, `src/config/`) | none | `getConfig` over command line, environment, `.env`, schema | main |
| follow loop (`src/runner/follow.ts`) | `next` | poll status, sync the new range, flush | `syncRange`, sink, RPC |
| range runner (`src/runner/syncRange.ts`) | `ready`, `nextToFlush`, `attempts`, `retryQueue`, `inFlight`, `nextHeight` | fetch, retry, give up, flush in order, refill slots | RPC, decode pool, sink |
| RPC client (`src/rpc/`) | token bucket, loop variable of each call | take a token, fetch with an abort timer, retry with backoff | the node |
| decode pool (`src/decode/`) | `idle`, `readyFlags`, `pending`; a proto root and two message queues per thread | submit, ready, answer, error, init timeout; load protos, decode | worker threads |
| assembly (`src/assemble`, `src/normalize`) | none | results aligned with transactions, events decoded, logs combined | range runner |
| PostgreSQL sink (`src/sink/postgres.ts`, `src/sink/pg/`) | one row buffer per table | write, flush: partitions, inserts table by table, progress, COMMIT | database |
| partitions (`src/db/partitions.ts`) | the partitions of the database, a session-level advisory lock | create what a span of heights needs | database, other indexers |
| progress row (`src/db/progress.ts`) | `core.indexer_progress.last_height` | read at boot, upsert in each flush | main, sink |
| database schema (`src/initdb/*.sql`) | tables, conflict keys, first partitions | | |
| line sinks, connection pool, utilities | see [Not modelled](#not-modelled) | | |

What is hard about it, and what makes each part correct:

- **Range runner.** Every `processHeight` ends in `tryFlush`, which awaits the
  sink between reading and advancing the cursor, so several calls stand in it at
  once. Heights finish out of order and fail; `maybeSpawn` is scheduled more
  often than there are slots. Correct: one write at a time, ascending, nothing
  passed that was neither written nor given up after all its retries; slots
  neither exceeded nor leaked; the promise resolves, and only when all is done.
- **Sink.** A flush is a dozen awaited calls; each may fail and the process may
  die between any two, even while the server executes the COMMIT. Buffers are
  emptied one by one before it. Correct: blocks are stored whole, no row is lost
  while the process lives, `last_height` is covered by rows.
- **Whole program.** The resume point is all that survives a process; in the
  next one it stands for everything below it. Backfill, rounds and flushes read
  the tip of the chain at different times. Correct: no gap below the resume
  point, rounds adjoin, what a returned flush covers is durable, every block is
  in the end stored.
- **Rows.** What flushes and slices do to the rows of a block depends on the
  limits of a statement, on conflict keys that may be coarser than the rows and
  on partitions that must exist. Correct: each table ends up with exactly the
  first row of every key, no matter how rows were split or indexed again.
- **Decode pool.** A thread is announced by its `ready` message, by the init
  timeout, by an error or by an answer, in any order, and takes jobs while it is
  still loading the protos. An attempt that `withTimeout` gives up leaves its
  jobs in the pool, where they compete with its own retry. Correct: never two
  jobs on a thread, no thread forgotten, a block made of the answers to its own
  transactions, the same message decoded the same way by every thread, and every
  height settled whatever becomes of the pool.
- **Several indexers.** A container may be replaced while the old one still runs,
  and the server may go on executing what a dead one has sent. They share the
  progress row, the partitions and their locks. Correct: no circle of waits, no
  partition created twice, progress covered by rows, every flush ends.
- **RPC client.** Concurrent takers share one bucket; retries and three timers
  per call. Correct: bucket within bounds, rate kept, retries exactly used up,
  calls end.

`PROJECT.json` lists the hazards at their lines with the properties that cover
them, and says of the uncovered ones why.

## Modules

```
 ConfigResolve   OrderedFeed          PgSink          TxRows     TableInsert
        \             |   \           /    \              \      /        \
         '------------+--- Indexer --'    PgStore         BlockRows    SharedDatabase
                      |                      |
                      |                 AtomicStore            BlockStore
                      |       (refined by PgStore, Indexer)  (by BlockRows, Indexer)
    SyncRange -- SyncRangeFeed                        DecodePool       RpcClient
          (SyncRange implements OrderedFeed)               |
                                                     ProcessHeight
```

| Module | Models |
|---|---|
| `SyncRange` | `syncRange()`, all of its state |
| `OrderedFeed` | what `syncRange()` promises its caller and sink: an abstract specification |
| `SyncRangeFeed` | the refinement mapping from `SyncRange` to `OrderedFeed` |
| `PgSink` | `PostgresSink` and the database, await by await, as actions for others to drive |
| `PgStore` | `PgSink` driven in the order the runner drives it, with restarts |
| `AtomicStore` | what the sink promises in batch-insert mode, and the program with RESUME: an abstract specification |
| `BlockStore` | what is left of it without progress, in either mode and when blocks are indexed again |
| `ConfigResolve` | `getConfig()` for FROM, TO, RESUME, FIRST_BLOCK and FOLLOW |
| `Indexer` | `main()` and `followLoop()` over `ConfigResolve`, `OrderedFeed`, `PgSink` and a growing chain |
| `TxRows` | from a node's answer to the rows of every table: `assembleTxObjects`, event normalisation, `pickLogs`, `extractRows` |
| `TableInsert` | the flushers and the inserters, `execBatchedInsert`, ON CONFLICT, partition ranges |
| `BlockRows` | buffers of rows, partition creation, slices and tables over several runs in either mode |
| `SharedDatabase` | several processes that flush to one database: `ensureCorePartitions` under its advisory lock, the flush transaction row by row, and what PostgreSQL lets wait for what |
| `DecodePool` | `createTxDecodePool`, the message handlers of its threads and what they make of a transaction; actions for others to drive |
| `ProcessHeight` | `processHeight` of `syncRange` over `DecodePool`: attempts, `withTimeout`, the assembly of a block |
| `RpcClient` | `getJson` over the token bucket, in time |
| `SyncRangeProofs`, `PgSinkProofs`, `PgStoreProofs`, `IndexerProofs`, `ProcessHeightProofs`, `SharedDatabaseProofs`, `RpcClientProofs`, `BlockRowsProofs` | theorems about the module each is named after; `PgStoreProofs` and `IndexerProofs` share the lemmas of `PgSinkProofs`. `IndexerProofs` and `BlockRowsProofs` also hold the mappings to `AtomicStore` and `BlockStore` |
| `MC*` | the values of constants for TLC |

The layers meet at three abstractions. `Indexer` uses `OrderedFeed` where the code
calls `syncRange`; that this is legitimate is what `ImplementsFeed` says, and it
is proved. `SyncRange` has one stage for the four awaits of a fetch;
`ProcessHeight` opens up the one that shares something with other heights. `PgSink`
has one action where the code inserts a table, and one for partitions and BEGIN;
`BlockRows` opens them up for the rows, `SharedDatabase` for the locks.

Bodies named "mutant" in the modules are plausible mistakes (a dropped guard, a
stale read, an off-by-one). Nothing in the specifications uses them; they are
kept next to what they alter because each property has been seen to fail when
its mutant takes the place of the original, which is listed in `PROJECT.json`.

## How the models correspond to the code

**SyncRange.** One action per stretch of code between two awaits.
`FetchSucceeds`/`FetchFails` is the end of the `try` or `catch` of
`processHeight` up to the first awaited `sink.write` of its `tryFlush`;
`WriteReturns` is the loop of `tryFlush` going on; `WriteFails` is a rejected
write, which nobody handles; `Finally` frees the slot and resolves or schedules;
`MaybeSpawn` is a macrotask, so it does not run while a `finally` callback
waits. `ready` is split into blocks (`ready`) and skip markers (`skips`).
`TryFlush(h, n, rdy, sk)` is the loop run by h from cursor n. The four awaits of
a fetch are one stage: they touch nothing another height reads. `out` is a
history variable.

**ProcessHeight.** `place` is where a height stands, `attempts` its failures.
`Fetches` is the end of the two fetches up to the `submit` of all transactions of
the block, `Assembles` the end of `Promise.all` with the assembly, and
`DecodeRejected`, `DecodeTimesOut` and `AssemblyFails` (an error or the timeout of
the assembly) the ways into the `catch`. Jobs carry the attempt they
belong to, which the code does not know: `Current` is what the attempt under way
waits for, and all others are what earlier ones have left behind. Which of the
queued heights goes first, and the slots, are `SyncRange`'s part.

**OrderedFeed.** `cursor` is `nextToFlush`, `delivering` an outstanding write,
`givenUp` the heights passed with a marker. One `Advance` is one pass of the
loop of `tryFlush`. An empty range has no `Return`: nothing in it ever runs a
`finally` callback.

**PgSink.** `sinkPc` names the call `flushAll` awaits: `connect`, `begin`
(partitions and BEGIN), `insert` (with `table`), `progress`, `commit`. `Insert`
also empties the buffer of its table, as the code does. `FlushFails` is any of
these rejecting, with a COMMIT that may have been executed all the same; `Kill`
is the end of the process at any point. Rows are named by their height and their
table. Thresholds are counted in blocks that have rows in a table, since how many
rows a block has only shifts them. Block-atomic mode is in the class, hence in
`PgStore`, but `main()` cannot reach it: `createSink` reads `cfg.pgMode` and
`main` passes `cfg.pg.mode`; `Indexer` is run in batch-insert mode only.

**ConfigResolve.** A source maps each option to an integer, a boolean or one of
the words `Unset`, `Blank`, `Flag`, `Latest`. `getConfig` merges the three
sources the way the code does, option by option (they differ: `TO=latest`
anywhere wins over a number, an empty string of the environment hides the
`.env` file, `--first-block` without a value is 1), and `validateConfig` is the
schema. `Indexer` starts in any configuration that passes; a process that does
not pass never does anything.

**Indexer.** `mainPc` is where `main()` or `followLoop()` stands. `Boot` is
everything up to the call of `syncRange`: status, progress, start and end.
`FeedAdvances` lets the runner go on once the sink has answered, and hands the
sink the next block. `RoundReturns` and `FlushReturns` are the end of a follow
round and its flush; `CloseFlushes` the end of a run without FOLLOW.
`ProcessEnds` is a signal or a crash, `ErrorEnds` an error that reaches
`main().catch`, `ProcessStarts` the container's restart. `SINK=postgres` is
assumed: with another sink there is nothing to resume.

**TxRows, TableInsert, BlockRows.** An answer of the node is three aligned
sequences, hashes, decoded messages and results; `extractRows` is a record with
one sequence of rows per table, built by one operator per table. Columns that no
key and no property depends on are left out. A flusher is a record of its
columns, limits and conflict key, as in its file. `Slice` is the inner loop of
`execBatchedInsert`; `Inserted` is what PostgreSQL does with one statement.
`BlockRows` creates partitions statement by statement before the transaction,
since CREATE TABLE commits by itself there. When a flush happens is left open:
the thresholds are in `PgSink`. In block-atomic mode (`WriteBlockAtomic`) the
rows of the block go through the inserters, one statement per table; `Accepted`
says which statements the client can send and the schema takes, and
`AtomicFails` is the `catch` of `persistBlockAtomic`.

**SharedDatabase.** `pc` is the statement the session of a process is at: `lock`
(the advisory lock), `check` and `create` (the two halves of CREATE TABLE IF NOT
EXISTS, between which it may wait), `unlock`, `table` and `rows` of the
transaction, `progress`, `commit`. `WaitsFor` is the set of sessions a statement
is waiting for; every action needs it to be empty. An INSERT locks the parent
of its partitions until the transaction ends, which CREATE TABLE ... PARTITION OF
waits for, and queues behind a CREATE that waits; rows wait for an open
transaction with the same key; ON CONFLICT DO UPDATE locks committed rows too.
`Timed` follows `SET LOCAL lock_timeout`: it is in force from the second flusher
on. `Kill` leaves the statement under way with the server, which executes it once
it can (`CreatePartition`, `InsertRow`, `Commit` of a dead process) and ends the
session only when it waits for nothing. Each process takes its modulus of hash
partitions from its own session.

**DecodePool.** A thread is `loading`, `up`, `failed` (dead, not yet announced)
or `dead`; `inbox` and `outbox` are its message queues, `root` is whether its
proto root is set. Loading ends with `ready` whether the protos could be loaded
or not, as `onInit` does. `decodeTxBase64` is what a thread makes of a kind of
transaction: its messages decoded by the built-in types, by the loaded protos or
left in base64; an empty transaction for bytes that are none; an error for a body
that does not decode. `Dispatch` is the end of the polling loop of `submit`.
Ids are drawn at random and unchecked in the code; of the ids not in use one
stands for all (`Drawn`), and drawing one in use is one of the faults `MaxFaults`
bounds, recorded in `collided`. `rootless` records that a thread was taken into
use by the init timeout, or could not load: properties that need neither say so.

**RpcClient.** Time is in ticks; timers do not fire early and may fire late. The
bucket is counted in parts of a token, such that a tick refills a whole number.
`elapsed` is capped where the bucket is full. The abort timer ends with the
headers: `reading` and `refused` wait for a body with no timer, as in the code.

## Runs

| Run | What it asks | Bounds, and why they suffice |
|---|---|---|
| `SyncRange` | the invariants of the runner, `RangeFinishes`, and that it implements `OrderedFeed` with its fairness | ranges 2..5, 2..2 and the empty 3..2; three slots, one retry. Four heights over three slots have a fresh height, retries and buffered blocks compete for a slot; one retry has first failure, retry and giving up |
| `PgStore` | whole blocks, nothing dropped; a batch flush is one atomic step | four blocks over three tables in all patterns that matter, thresholds 3/2/2, both modes, two restarts: two flushes in a process, failure in either, and a third process to read what is left |
| `SharedDatabase` | no circle of waits, no partition created twice, progress covered, flushes end | three processes, two heights, a second partition from height 2 on, one table with DO NOTHING and one with DO UPDATE; the third process is configured with two hash partitions where the database has one, so that its CREATE TABLE fails. Three sessions have a holder, a waiter and one that queues behind the waiter; one may be killed at any statement (`MaxDead`: no kill once a process is dead), and more may end by their own errors |
| `Indexer` | no gap at resume, nothing stored twice, progress monotone, rounds adjoin, what is flushed is durable, every block indexed | chain from 3 to 5 blocks, two restarts, one height given up per call; ten settings, which come down to three configurations: following, following from block 2, a fixed range indexed anew (checked by an assumption of `MCIndexer`) |
| `Indexer_hang` | *violated* | following only, one restart |
| `Indexer_loss` | *violated* | following only |
| `ProcessHeight` | no thread free twice or lost, blocks of their own answers, decoded alike, the pool drains, heights settle | a block of two transactions, one of them decoded by the protos only, or a block whose body does not decode; two threads, one retry, so that up to four jobs compete for two threads; one fault: a thread dies, or cannot load, or an id is drawn that is in use |
| `DecodePool_error` | *violated* | the same instance |
| `RpcClient` | bucket bounds, rate, retries, termination | three calls with one retry at one token per second and a burst of two: the third waits, retries compete with it; full jitter |
| `RpcClient_rate` | *violated* | four calls |
| `BlockRows` | tables hold first rows, events read back, partitions exist | heights 1, 2, 5 and 6 with partitions of 2 (a flush spans up to four partition bases, with a gap), limits divided by 500 (slices of one message, two transactions), three runs, each in either mode, that may die anywhere and index stored blocks again; an old node's answer with a log per message in base64, a new node's flat one, failed transactions, one without a result, and a block without events, which is the kind block-atomic mode can store |
| `BlockRows_ignored` | *violated* | as above |

All passing runs explore their state space completely. `RpcClient` and
`RpcClient_rate` check for deadlock (time always passes); the other systems
really stop: a range is done, a process has closed, the last restart is used up.

The properties, by question:

- *Is the hand-over to the sink in order and exclusive?* `SingleWriter`,
  `PassedOrGivenUp`, `EachHeightInOnePlace`, `ImplementsFairFeed`.
- *Do retries, slots and the promise add up?* `SlotsAccounted`,
  `CompleteOnReturn`, `NeverStalls`, `RangeFinishes`.
- *Does a height come through the pool with its own answers?*
  `BlockOfOwnAnswers`, `DecodedAlike`, `HeightsSettle`.
- *Are threads and callers matched?* `IdleIsFree`, `NoWorkerLost`, `PoolDrains`.
- *Can a crash be seen in the database?* `WholeBlocks`, `NothingDropped`,
  `ImplementsStore`.
- *Can several indexers be in each other's way?* `NoDeadlock`,
  `NoneCreatesTwice`, `ProgressCovered`, `FlushesEnd`.
- *May the next process trust the resume point?* `NoGap`, `NothingStoredTwice`,
  `ProgressMonotone`.
- *Do phases fit together as the chain grows?* `RoundsAdjoin`,
  `FlushedIsDurable`, `EveryBlockIndexed`.
- *Do the tables hold what the node said?* `TablesHoldFirstRows`,
  `EventsReadBack`, `RowsHavePartitions`.
- *Is the node spared, and does a call end?* `RateKeptAlone`, `RetriesUsed`,
  `CallEnds`.

`OutputOrdered` and `RetriesBounded` of `SyncRange` are proved and no longer run:
the first is part of what `ImplementsFairFeed` says, the second of what
`EachHeightInOnePlace` and `PassedOrGivenUp` say.

`NoDeadlock` looks at the waits themselves, so the 5 s `lock_timeout` is not what
makes it hold: it holds because partitions are created before the transaction
opens, under one lock, and because every transaction inserts its tables in the
same order and its rows by height. `NoneCreatesTwice` is what the advisory lock is
for: CREATE TABLE IF NOT EXISTS looks for the name before it waits for the parent.
`ProgressCovered` allows `last_height` to move backwards between processes; it
asks that what lies below it is there. `DecodedAlike` and `NoWorkerLost` exclude,
by name, the cases in which they fail: threads taken into use before they have
loaded or that could not load, dead threads, ids drawn twice.

`NoGap` counts a height as accounted for when it was given up: that these
heights are lost for good is the point of `Indexer_loss`. `EveryBlockIndexed`
asks of every height of the chain, one by one, that it is stored or given up, and
lets it wait in two places: behind a syncRange over an empty range that began above
it (`BehindEmptyRange`, see `Indexer_hang`), and in the buffers, with every row,
when following has nothing left to fetch (`HeldForNextBlock`): a backfill's tail is
flushed with the next round, and the chain of the model stops at its bound. A row
that is lost on the way, in the runner, in a buffer or in a transaction, breaks it.
That a round is flushed when it ends is `FlushedIsDurable`.

Four properties leave a case out because the code promises nothing there, and
another one, which fails, or the hazard's note says what happens in it: `PoolDrains`
and `NoWorkerLost` a thread that made an error (`ErrorsReject`), `BlockOfOwnAnswers`
what comes after an id is drawn twice, `RateKeptAlone` takers that wait together
(`RateKept`), `CallEnds` a call that waits for a body.
`NothingDropped` is about a sink that takes one call at a time, which is
`SingleWriter` and `CompleteOnReturn` of the runner.

## Where code and documentation disagree

Each is a run in which TLC finds the statement violated.

1. `Indexer_hang`, `FollowsAfterBackfill`. A restart at the tip of the chain
   calls `syncRange` with from = to + 1; nothing is spawned, no `finally`
   callback runs, the promise stays pending and following never starts
   (`src/runner/syncRange.ts:215`, against the comment of `main`).
2. `Indexer_loss`, `NoDataLoss`. A height given up after its retries lies below
   the next committed `last_height` and no later process fetches it
   (`src/runner/syncRange.ts:203`, against `README.md:36`).
3. `DecodePool_error`, `ErrorsReject`. After the error of a thread the pool goes
   on giving it jobs and ignores the others' answers (`src/decode/txPool.ts:134`,
   against the doc of `submit`).
4. `RpcClient_rate`, `RateKept`. A waiter reserves no token, so takers that
   overlap a wait exceed the rate (`src/rpc/ratelimit.ts:56`, against its
   header).
5. `BlockRows_ignored`, `OnlyDuplicatesIgnored`. The key of `wasm.events` is
   coarser than its rows; different events of one transaction are dropped
 (`src/sink/pg/flushers/wasm_events.ts:26`, against its comment at line 14).

Also seen while modelling, and part of the models rather than runs of their own:

- Buffers are emptied before the COMMIT (`src/sink/postgres.ts:734`), which the
  comment at line 652 denies. It is harmless as long as a failed flush ends the
  process, as it does today: the progress does not pass the rows that are lost
  (`NothingDropped`), and `NoGap` rests on that.
- Block-atomic mode cannot store a block with an event that has attributes: the
  inserters pass the array as it is, node-postgres sends it as a PostgreSQL array,
  and the jsonb column refuses that (`AtomicFails` in `BlockRows`). The
  transaction is rolled back whole, which is what `TablesHoldFirstRows` asks.
- The init timeout hands jobs to a thread that is still loading the protos; what
  only the protos list is then stored in base64 for good (`rootless`).
- A transaction whose body does not decode makes every attempt of its block fail,
  and the block is given up whole (`badBody`, and then `Indexer_loss`).
- A process configured with more hash partitions than the database was created
  with fails in every flush (`CreateFails`, which lets go of the advisory lock at
  once, as the `finally` of `ensureCorePartitions` does).
- A value that a node sends as text and that is canonical base64 of text, such as
  "1404", is decoded (`src/normalize/events/base64.ts:40`), and an encoded one of
  the transaction is decoded twice (`src/assemble/blockJson.ts:118`,
  `src/normalize/events/parse.ts:40`): garbled either way. `EventsReadBack` excludes
  such text and no other.

## Fairness

- `SyncRange!FairSpec`: weak fairness of `Next`. The event loop runs what is
  runnable; each await of a fetch is under `withTimeout`, so a fetch ends one
  way or the other, and a write ends since the sink answers or rejects. Which
  way is left open, so nothing forces a fetch to succeed.
- `Indexer!FairSpec`: each step of a live process is weakly fair, the container
  starts an ended process again (`restart: unless-stopped` in
  `docker-compose.yaml`), and the chain grows up to the bound. Signals and
  failures are never forced; restarts are bounded, so in every behaviour some
  process is the last one and is left alone.
- `ProcessHeight!FairSpec`: a thread handles its messages, events and timers
  reach the main thread, the polling loop of `submit` gets a free worker, and
  each height goes on: its fetch ends, and `withTimeout` ends a wait that nothing
  else ends. Loading is not fair, it may hang: that is what the init timeout is
  for. Nor are deaths.
- `SharedDatabase!Spec`: weak fairness of each session: a statement that waits
  for nobody is executed and its answer handled, and the server notices a dead
  client once its session waits for nothing. Starts, writes and kills are free.
- `RpcClient!FairSpec`: time passes and due timers fire. Nothing is assumed of
  the node.

## Proofs

TLAPS proves the safety properties of seven state machines for every value of
their constants. Where a theorem has the name of a property with `Holds` added,
the property is one a run checks (except the three refinements whose mappings are in
the proof modules, which TLC has confirmed on the instances of `Indexer` and
`BlockRows` but no run repeats); `TypeCorrect` is `Spec => []TypeOK` and
`Invariant` the inductive invariant of the module.

| Module | Theorems | For every |
|---|---|---|
| `SyncRangeProofs` | `TypeCorrect`, `Invariant`, `SingleWriterHolds`, `OutputOrderedHolds`, `PassedOrGivenUpHolds`, `RetriesBoundedHolds`, `EachHeightInOnePlaceHolds`, `SlotsAccountedHolds`, `CompleteOnReturnHolds`, `NeverStallsHolds`, `ImplementsFeedHolds` | set of ranges, concurrency of at least one, retry limit |
| `PgStoreProofs` | `TypeCorrect`, `Invariant`, `WholeBlocksHolds`, `NothingDroppedHolds`, `ImplementsStoreHolds` | set of blocks, number of tables, thresholds, modes, restarts |
| `IndexerProofs` | `TypeCorrect`, `Invariant`, `NoGapHolds`, `NothingStoredTwiceHolds`, `ProgressMonotoneHolds`, `RoundsAdjoinHolds`, `FlushedIsDurableHolds`, `ResumingImplementsStoreHolds`, `ImplementsBlockStoreHolds` | chain, setting of the options, thresholds, restarts and heights given up |
| `ProcessHeightProofs` | `TypeCorrect`, `Invariant`, `IdleIsFreeHolds`, `NoWorkerLostHolds`, `BlockOfOwnAnswersHolds`, `DecodedAlikeHolds` | number of threads, heights, transactions of each kind, retry limit, faults |
| `SharedDatabaseProofs` | `TypeCorrect`, `Invariant`, `ProgressCoveredHolds`, `NoneCreatesTwiceHolds`, `NoDeadlockHolds` | set of processes, heights, tables, partitions, deaths |
| `RpcClientProofs` | `TypeCorrect`, `RetriesUsedHolds`, `RateKeptAloneHolds` | set of calls, rate, burst, retry limit, timers, jitter |
| `BlockRowsProofs` | `TypeCorrect`, `Invariant`, `TablesHoldFirstRowsHolds`, `EventsReadBackHolds`, `RowsHavePartitionsHolds`, `ImplementsBlockStoreHolds`, `CommittedRowsStay`, `StatementsAdvance` | set of heights, answers of the node, modes, runs, size of a partition, limits that leave room for a row |

The assumptions are the named `ASSUME`s of the modules, which TLC evaluates in
every run: numbers are natural, limits and rates positive as the schema
enforces, every block has a row of `core.blocks`, jobs are the transactions of
the attempts, `NoJob` is no job, an answer has the shape of an answer
(`IsAnswer`: sequences, of any length, not necessarily the same), null is no
number, the empty string is not base64 and what is decoded is text. Three say more. `PoolAssumption` takes the set of threads to be finite.
`HashesAssumption` of `BlockRows` says that a transaction is in one block, once.
`Indexer!ModeAssumption` is batch-insert mode, the only one `main()` can reach.

**Range runner.** None of its properties is inductive by itself. That the write
under way is the cursor's (`SingleWriter`), say, fails to be preserved unless it
is known that no second entry for the cursor can appear in `ready` meanwhile,
which needs to know where that height can be. So `IInv` says where a height can
be:

- `BufferInv`: what is buffered lies strictly between cursor and `nextHeight`
  (the cursor's own entry is taken at once);
- `WriterInv`: one writer, at the cursor, whose height is nowhere else;
- `WorkInv`: heights fetched or queued are spawned and not passed, queued ones
  have failed and may be tried again;
- `OutInv`: the history of writes is ordered and reaches the cursor;
- `CoverInv`: no height spawned and not passed is forgotten.

There is one lemma per action (`FetchSucceedsKeepsIInv`, ...), and under these,
lemmas about `TryFlush`, split by what is at the cursor: nothing, or the height
that has just ended; while another call writes, the loop finds nothing. The
slots are counted: `maybeSpawn` starts as many heights as it takes slots, because
queued heights are distinct and not idle ones are never queued twice
(`FiniteSetTheorems`). `CompleteOnReturn` follows from `Quiet`: when the promise
resolves, `inFlight` is zero, so no height is under way, none is queued or fresh,
and by `CoverInv` the cursor is past the end. `ImplementsFeedHolds` maps every
step to a step of `OrderedFeed` or a stutter.

**Sink.** `SinkInv` says that a flush never splits a block: with `Held` the blocks
whose row of the first table is buffered or in the open transaction, the rows of
each table are in the transaction if the table has been inserted and in the
buffer if not, all of them (`HeldWhole`), and in the database blocks are whole
(`StoredWhole`). It also has what progress rests on: `span` is the highest height
held. `StoreInv` adds that what a working process was given is held or stored.
Every action of `PgSink` has a lemma that it keeps `SinkInv`; only `Commit` moves
blocks into the database (`CommitStores`), which is what `ImplementsStore` needs:
all other steps are stutters of `AtomicStore`, and `Commit`, also one whose
answer is lost, is its `StoreAll`.

**Whole program.** `IndexerInv` extends `SinkInv` by one idea, the frontier of the
runner: everything between where the first process started and the frontier is
stored, held or given up (`ProcessCovers`), everything up to the progress is
stored or given up (`DbCovers`), and with RESUME nothing stored lies above the
progress and nothing held or to come lies below it (`Resumes`). Around it, it
says that between two ranges the last one is done (`Rests`) and that the sink
works only while somebody awaits it (`SinkQuiet`); otherwise a height handed over
during a flush would be lost to the frontier. Since `Held` and the database move
only in one lemma (`DbStep`), an action of `main()` needs to say only what it does
to range and frontier.

The two refinements are read off the same lemmas (`StoreStep`): a step accepts one
block above all that is held, stores all that is held, loses it, or changes nothing.
That the block accepted is also above the mark, so that `AtomicStore` takes it, is
where `Resumes` and with it RESUME come in; without RESUME the mark may move
backwards (a range that every process indexes anew), and the promise is
`BlockStore`'s: stored blocks stay stored and none shows in part.

**Decode pool.** `PoolInv` knows where each thread and each job is: a thread
in the idle list is there once, with empty queues; a thread with a job has one,
in its inbox or as an answer in its outbox (`FreeInv`); while no id was drawn
twice, what `pending` keeps under the id of a message is its job, each job is
with one thread, and, unless a thread has died, a thread in use is idle, has a
job or an answer (`FlightInv`). That a job's answer is its own (`AnswerInv`) and
was decoded with the protos (`RootInv`) follows where answers are taken. A block
is assembled from the answers of the attempt under way, whatever earlier
attempts have left in the pool. Queues are handled by lemmas about appending and
taking the head (`QueueAppend`, `QueueTail`, `ReadyPosted`, `JobPosted`, ...).

**Several indexers.** `Inv` says what each session has sent, by the statement it
is at: of the tables before the present one everything, of the present one the
lowest heights, of the later ones nothing (`SentAll`, `SentInOrder`), and that
what it has sent is in its transaction or stored (`SentStored`): a row is skipped
only if another session has committed it. Hence what a session says of its
progress is covered when it commits. `NoneCreatesTwice` is inductive together
with `AdvisoryHeld`, who is between lock and unlock. `NoDeadlock` is proved by a
rank: `WaitPlace` numbers the places where a session can wait, the advisory lock,
then table after table the lock on the table, the lock that CREATE TABLE takes and
the rows by height, then the progress row; `WaitsForward` shows that a
session only waits for sessions at a higher place, so no circle exists.

**RPC client.** `TryInv` is type correctness with the count of attempts, which the
types alone do not give: a call sleeps only with a retry left. `RateInv` is the
rate: until takes overlap, one call waits at most, its token will be there when
its timer has run down, and for every window t what was granted in it and
what the bucket holds are together at most the capacity and t's refill
(`WithinBudget`); a grant moves a token from one to the other.

**Rows.** `IInv` has a witness: the set H of blocks that the flush under way, or
the next one, is about. A buffer is `MadeOf` these blocks when each of its rows is
a row of one of them, with the rows before it in its block also before it in the
buffer (`Closed`), and no row of them is missing (`Holds`). This survives appending
a block, and dropping the incomplete delegation rows. During the inserts
(`Inserting`) the tables before the present one are as they should be in the end,
the later ones as committed, and the present one has, besides the committed rows,
the first row of every key among the rows sent so far (`Firsts`). That one more
slice turns the `Firsts` of n rows into those of n + m (`InsertedRows`), wherever
the limits cut, rests on three facts about the conflict keys: every key contains
the height or the hash, so that rows of two blocks never conflict (`KeyOfOneBlock`,
with `HashesAssumption`); of two rows of a block with one key the one that comes
first in the block is first in every buffer; and the only columns that DO UPDATE
overwrites, those of `core.transactions`, get the value they have, as a
transaction has one row (`OneRowPerTx`). An interrupted flush leaves the tables as
committed and new partitions only, so any run may follow any other. For
`RowsHavePartitions`, `Partitioning` says which partitions exist when the loop of
`ensureCorePartitions` is at `base`; multiples of STEP cannot lie between one base
and the next (`PartitionsInOrder`), so none is missed. `StatementsAdvance` is why
the loop of `execBatchedInsert` ends: with limits that have room for a row no
slice is empty. The first part of the module is about what `extractRows` makes of
any answer: to which height and transaction each row belongs (`RowsOfBlock`).

Since a flush is about one H throughout, `ImplementsBlockStoreHolds` only needs that H
can be seen: the blocks of H that are not stored are those buffered or in the open
transaction (`PendingAre`, with `Quiet`: no transaction is open between two flushes).
Together with `TablesHoldFirstRows`, of which the blocks stored decide every row of
every table, it makes a flush atomic for any reader, and `CommittedRowsStay` follows.

`EventsReadBack` joins the two ends of a row's way. A row of `core.events` stands for a
place in the result the node gave for its transaction: the index of a log or -1, the
e-th event there (`Says`). The logs `assembleTxObjects` builds say what the result
says, the events of a log decoded once and those of the transaction twice (`LogsSay`,
through the concatenation of flattened events, `FlattenedParts`); the rows made of
them are one for each (log, event), in whatever order (`EventRowsAre`). As no two of
them have the key (hash, index, place) in common (`SaidOnce`) none is ignored as a
conflict in its block, and as hashes differ none is in another (`EventsStored`).
`SaidOnce` needs the logs to be told apart by their indexes, which is a condition of
the property (`Apart`), not an assumption: a node numbers them like the messages, but
the code does not check it, and two logs that claim the same index do lose events.
The property compares the row with what the node sent and not with what the code
makes of it: a string stands for itself or for what it encodes (`Readings`), and
whichever the node meant must be in the row unless it looks like base64 itself.
`TextReadsBack` is why decoding it once or twice makes no difference to such a text.

Library theorems with an operator as a parameter cannot be used here, so there is
no induction over data. Where one is tempting, the proofs take a least
counterexample of a set of naturals instead (`HasLeast`), also where a recursive
function is unfolded (`UpTo`, `FoldExists`).

Every invariant and action property that a run checks is proved. Only
model-checked:

- liveness (`RangeFinishes`, `ImplementsFairFeed`, `EveryBlockIndexed`,
  `PoolDrains`, `HeightsSettle`, `FlushesEnd`, `CallEnds`): fairness and ENABLED
  are out of the prover's reach, and with it the temporal half of
  `ImplementsFairFeed` (its safety is `ImplementsFeedHolds`);
- the five statements TLC refutes, see above.

## Not modelled

- The fields of decoded messages (`src/decode/decoders`, `dynamicProto.ts`):
  conversion of data. What is modelled is which way a message is decoded and
  when decoding fails.
- Governance rows: `extractGovFromBlock` has no caller, so no block has any.
- The line sinks (stdout, file), see the plan; the null sink does nothing and
  the ClickHouse sink throws.
- The helper functions of `src/initdb/030-util-partitions.sql`, which nothing but
  the bootstrap calls; the bootstrap is the initial state of `BlockRows` and
  `SharedDatabase`.
- The `statement_timeout` of a flush: like any other failure it is `FlushFails`
  in `PgSink`; `SharedDatabase` has the `lock_timeout` only, which bears on waits.
- Event attributes that are empty, and the funds of a contract call, as
  parameters of block-atomic mode.
- `decodePool.close()`: it runs when nothing is pending.
- The connection pool of `src/db/pg.ts`: every await of `PgSink` may fail, which
  covers what it can do.
- The clock going backwards, and the `unreachable` throw of `getJson`, which
  needs a negative number of retries; the schema refuses one.
- Sharding: `shards` and `shardId` are resolved and printed, nothing reads them.
- Statements of a batch flush that the schema refuses for a row (NOT NULL, CHECK):
  such a flush is `FlushFails` in `PgSink`, and a run that ends in `BlockRows`.
- Blocks whose height is not a number, and the return of `flushAll` for them.
- Progress reports, logging, key case, time stamps, views and indexes.

## Plan

Done, in the order of importance: `SyncRange` and its proofs; `PgSink`,
`PgStore`, `AtomicStore`, `BlockStore`; `Indexer`; `DecodePool` and `ProcessHeight`;
`SharedDatabase`; `RpcClient`; `TxRows`, `TableInsert`, `BlockRows` in both modes;
`ConfigResolve`.

To extend the model:

1. `LineSink`: the stdout and file sinks under `OrderedFeed`; order of lines,
   nothing left after `close`, a `drain` that never comes after an error.
2. `main()` with `decodePool.close()` and the sinks that have no progress.

To prove:

1. What `EventsReadBack` says of `core.events`, for `core.event_attrs`,
   `wasm.events` and `bank.transfers`, the other tables an event is spread over.
2. `ConfigResolve`: that options and environment resolve as the schema says, for
   every combination of sources (TLC has enumerated them).

A new question replaces a weaker one where the set of runs would otherwise grow
without saying more.

## Running it

```
tlc -config SyncRange.cfg MCSyncRange     # and so on, see "runs" in PROJECT.json
tlapm SyncRangeProofs.tla
```

Every run ends within a few minutes on two workers; so does each of the eight
proof modules, checked from nothing.
