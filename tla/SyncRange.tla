------------------------------ MODULE SyncRange ------------------------------
(***************************************************************************)
(* The range runner: syncRange() of src/runner/syncRange.ts.               *)
(*                                                                         *)
(* A range rangeFrom..rangeTo of heights is fetched out of order by up to  *)
(* Concurrency overlapping calls of processHeight and handed to the sink   *)
(* in order by tryFlush, which every one of those calls runs when it is    *)
(* done.  A failed height is queued again MaxBlockRetries times and then   *)
(* replaced by a skip marker.                                              *)
(*                                                                         *)
(* The code is single-threaded: the atomic steps below are the stretches   *)
(* of code between two awaits.                                             *)
(*   - the end of a height's fetch, decode and assembly, good or bad, up   *)
(*     to the first awaited sink.write of the tryFlush it runs;            *)
(*   - the return of that write, up to the next write or the end of        *)
(*     tryFlush;                                                           *)
(*   - the finally callback, which frees the slot and resolves the promise *)
(*     or schedules maybeSpawn;                                            *)
(*   - a run of maybeSpawn, a macrotask: it starts only when no finally    *)
(*     callback is waiting in the microtask queue.                         *)
(* Retrieval and decoding are one stage here ("fetching"): they touch      *)
(* nothing that another height reads.                                      *)
(***************************************************************************)
EXTENDS Integers, Sequences, FiniteSets

CONSTANTS
  Ranges,           \* the <<from, to>> pairs a caller may ask for
  Concurrency,      \* opts.concurrency
  MaxBlockRetries   \* opts.maxBlockRetries, 3 by default

ASSUME RangesAssumption == Ranges \subseteq Nat \X Nat
ASSUME ConcurrencyAssumption == Concurrency \in Nat \ {0}
ASSUME RetriesAssumption == MaxBlockRetries \in Nat

VARIABLES
  rangeFrom, rangeTo, \* opts.from and opts.to
  stage,        \* where the processHeight of each height stands
  writing,      \* the height whose block that processHeight is writing
  ready,        \* heights with an assembled block in the `ready` map
  skips,        \* heights with a skip marker in the `ready` map
  attempts,     \* failures of each height so far
  retryQueue,   \* failed heights waiting for a slot, oldest first
  nextHeight,   \* first height never spawned
  nextToFlush,  \* the height the sink must get next
  processed,    \* heights flushed or skipped
  inFlight,     \* slots taken
  wakeups,      \* calls of maybeSpawn scheduled and not yet run
  status,       \* of the promise: "running", "returned", "crashed"
  out           \* history: the heights given to sink.write, in order

vars == <<rangeFrom, rangeTo, stage, writing, ready, skips, attempts,
          retryQueue, nextHeight, nextToFlush, processed, inFlight, wakeups,
          status, out>>

Heights == rangeFrom..rangeTo
NoHeight == -1
Stages == {"idle", "fetching", "writing", "ending"}

Init ==
  /\ \E r \in Ranges : rangeFrom = r[1] /\ rangeTo = r[2]
  /\ stage = [h \in Heights |-> "idle"]
  /\ writing = [h \in Heights |-> NoHeight]
  /\ ready = {} /\ skips = {}
  /\ attempts = [h \in Heights |-> 0]
  /\ retryQueue = << >>
  /\ nextHeight = rangeFrom
  /\ nextToFlush = rangeFrom
  /\ processed = 0
  /\ inFlight = 0
  /\ wakeups = 1
  /\ status = "running"
  /\ out = << >>

------------------------------------------------------------------------------
(***************************************************************************)
(* tryFlush, run by the processHeight of h from cursor n with the `ready`  *)
(* map holding the blocks rdy and the markers sk: markers are dropped up   *)
(* to the first height m that has none; if m has a block it leaves the map *)
(* and its write starts, and nextToFlush moves past it only when the write *)
(* has returned.                                                           *)
(***************************************************************************)
TakenLate(rdy, m) == rdy  \* mutant: the entry leaves when the write returns
Taken(rdy, m) == rdy \ {m}

TryFlush(h, n, rdy, sk) ==
  \E m \in n..(rangeTo + 1) :
    /\ n..(m - 1) \subseteq sk
    /\ m \notin sk
    /\ skips' = sk \ (n..(m - 1))
    /\ ready' = Taken(rdy, m)
    /\ nextToFlush' = m
    /\ processed' = processed + (m - nextToFlush)
    /\ IF m \in rdy
         THEN /\ stage' = [stage EXCEPT ![h] = "writing"]
              /\ writing' = [writing EXCEPT ![h] = m]
              /\ out' = Append(out, m)
         ELSE /\ stage' = [stage EXCEPT ![h] = "ending"]
              /\ writing' = [writing EXCEPT ![h] = NoHeight]
              /\ out' = out

(* processHeight(h), good case: the assembled block enters `ready`.        *)
FetchSucceeds(h) ==
  /\ status = "running"
  /\ stage[h] = "fetching"
  /\ TryFlush(h, nextToFlush, ready \union {h}, skips)
  /\ UNCHANGED <<rangeFrom, rangeTo, attempts, retryQueue, nextHeight,
                 inFlight, wakeups, status>>

(* processHeight(h), catch clause: any of the four awaits rejected or      *)
(* timed out.  The height is queued again, or given up with a marker.      *)
RetryAllowedStrict(h) == attempts[h] + 1 < MaxBlockRetries  \* mutant
RetryAllowedEarly(h) == attempts[h] <= MaxBlockRetries      \* mutant: read before ++
RetryAllowed(h) == attempts[h] + 1 <= MaxBlockRetries

FetchFails(h) ==
  /\ status = "running"
  /\ stage[h] = "fetching"
  /\ attempts' = [attempts EXCEPT ![h] = @ + 1]
  /\ IF RetryAllowed(h)
       THEN /\ retryQueue' = Append(retryQueue, h)
            /\ TryFlush(h, nextToFlush, ready, skips)
       ELSE /\ retryQueue' = retryQueue
            /\ TryFlush(h, nextToFlush, ready, skips \union {h})
  /\ UNCHANGED <<rangeFrom, rangeTo, nextHeight, inFlight, wakeups, status>>

(* The awaited sink.write of h's tryFlush resolves, and the loop goes on.  *)
WriteReturns(h) ==
  /\ status = "running"
  /\ stage[h] = "writing"
  /\ TryFlush(h, nextToFlush + 1, ready, skips)
  /\ UNCHANGED <<rangeFrom, rangeTo, attempts, retryQueue, nextHeight,
                 inFlight, wakeups, status>>

(* The write rejects: processHeight(h) rejects with it, nobody handles the *)
(* promise its finally returns, and Node ends the process.                 *)
WriteFails(h) ==
  /\ status = "running"
  /\ stage[h] = "writing"
  /\ status' = "crashed"
  /\ UNCHANGED <<rangeFrom, rangeTo, stage, writing, ready, skips, attempts,
                 retryQueue, nextHeight, nextToFlush, processed, inFlight,
                 wakeups, out>>

(* The finally callback of processHeight(h).                               *)
AllDoneButRetries == nextHeight > rangeTo /\ inFlight - 1 = 0  \* mutant
AllDoneStale ==        \* mutant: inFlight read before it is decremented
  nextHeight > rangeTo /\ retryQueue = << >> /\ inFlight = 0
AllDone == nextHeight > rangeTo /\ retryQueue = << >> /\ inFlight - 1 = 0

Finally(h) ==
  /\ status = "running"
  /\ stage[h] = "ending"
  /\ stage' = [stage EXCEPT ![h] = "idle"]
  /\ inFlight' = inFlight - 1
  /\ IF AllDone
       THEN status' = "returned" /\ wakeups' = wakeups
       ELSE status' = status /\ wakeups' = wakeups + 1
  /\ UNCHANGED <<rangeFrom, rangeTo, writing, ready, skips, attempts,
                 retryQueue, nextHeight, nextToFlush, processed, out>>

(* maybeSpawn: fill the free slots, first from the retry queue, then with  *)
(* heights never tried.                                                    *)
LesserOf(a, b) == IF a <= b THEN a ELSE b
FreeSlots == LET f == Concurrency - inFlight IN IF f > 0 THEN f ELSE 0
FreshLeftTooMany ==    \* mutant: off by one at the end of the range
  IF nextHeight <= rangeTo + 1 THEN rangeTo + 2 - nextHeight ELSE 0
FreshLeft == IF nextHeight <= rangeTo THEN rangeTo + 1 - nextHeight ELSE 0
RetrySpawns == LesserOf(FreeSlots, Len(retryQueue))
FreshSpawnsUncounted == LesserOf(FreeSlots, FreshLeft)  \* mutant
FreshSpawns == LesserOf(FreeSlots - RetrySpawns, FreshLeft)
Spawned == {retryQueue[i] : i \in 1..RetrySpawns}
             \union (nextHeight..(nextHeight + FreshSpawns - 1))

QueueUnshifted == retryQueue  \* mutant: the retried heights stay queued
QueueLeft == SubSeq(retryQueue, RetrySpawns + 1, Len(retryQueue))

MaybeSpawn ==
  /\ status = "running"
  /\ wakeups > 0
  /\ \A h \in Heights : stage[h] # "ending"
  /\ wakeups' = wakeups - 1
  /\ retryQueue' = QueueLeft
  /\ nextHeight' = nextHeight + FreshSpawns
  /\ inFlight' = inFlight + RetrySpawns + FreshSpawns
  /\ stage' = [h \in Heights |-> IF h \in Spawned THEN "fetching" ELSE stage[h]]
  /\ UNCHANGED <<rangeFrom, rangeTo, writing, ready, skips, attempts,
                 nextToFlush, processed, status, out>>

Next ==
  \/ MaybeSpawn
  \/ \E h \in Heights :
       \/ FetchSucceeds(h)
       \/ FetchFails(h)
       \/ WriteReturns(h)
       \/ WriteFails(h)
       \/ Finally(h)

Spec == Init /\ [][Next]_vars

(***************************************************************************)
(* The event loop keeps running what is runnable.  Each fetch ends, one    *)
(* way or the other, because every await in it is under withTimeout; a     *)
(* write ends because the sink answers or rejects.  Which of the two it is *)
(* is left open.                                                           *)
(***************************************************************************)
FairSpec ==
  /\ Spec
  /\ WF_vars(Next)
------------------------------------------------------------------------------
SpawnsInRange == rangeFrom <= rangeTo => nextHeight <= rangeTo + 1

(* The variables have the shapes the code gives them.                      *)
TypeOK ==
  /\ rangeFrom \in Nat /\ rangeTo \in Nat
  /\ stage \in [Heights -> Stages]
  /\ writing \in [Heights -> Heights \union {NoHeight}]
  /\ ready \subseteq Heights
  /\ skips \subseteq Heights
  /\ attempts \in [Heights -> Nat]
  /\ retryQueue \in Seq(Heights)
  /\ nextHeight \in Nat
  /\ SpawnsInRange
  /\ nextToFlush \in Nat
  /\ processed \in Nat
  /\ inFlight \in Int
  /\ wakeups \in Nat
  /\ status \in {"running", "returned", "crashed"}
  /\ out \in Seq(Heights)

GaveUp(h) == attempts[h] > MaxBlockRetries
InQueue(h) == \E i \in 1..Len(retryQueue) : retryQueue[i] = h
BeingWritten(h) == \E g \in Heights : writing[g] = h
Wrote(h) == \E i \in 1..Len(out) : out[i] = h
AnyWriter == \E h \in Heights : stage[h] = "writing"

(* At most one sink.write is outstanding, although every processHeight     *)
(* runs tryFlush and tryFlush awaits the sink between reading nextToFlush  *)
(* and advancing it; and the write under way is that of nextToFlush.       *)
SingleWriter ==
  /\ \A g, h \in Heights :
       stage[g] = "writing" /\ stage[h] = "writing" => g = h
  /\ \A h \in Heights : stage[h] = "writing" => writing[h] = nextToFlush

(* The sink is given strictly increasing heights: none twice, none late,   *)
(* whatever the order in which they were fetched and retried.              *)
OutputOrdered ==
  \A i, j \in 1..Len(out) : i < j => out[i] < out[j]

(* No height the cursor has passed is forgotten: it was given to the sink, *)
(* or all its attempts failed.  The count of processed heights that        *)
(* syncRange returns is the number of heights the cursor has passed.       *)
PassedOrGivenUp ==
  /\ \A h \in rangeFrom..(nextToFlush - 1) : Wrote(h) <=> ~GaveUp(h)
  /\ processed = nextToFlush - rangeFrom

(* Every height is in exactly one place: not spawned, being fetched,       *)
(* queued for a retry, buffered, marked, being written, or passed.         *)
PlaceNames ==
  {"fresh", "fetching", "queued", "buffered", "marked", "written", "passed"}

Places(h) ==
  {p \in PlaceNames :
     \/ p = "fresh" /\ h >= nextHeight
     \/ p = "fetching" /\ stage[h] = "fetching"
     \/ p = "queued" /\ InQueue(h)
     \/ p = "buffered" /\ h \in ready
     \/ p = "marked" /\ h \in skips
     \/ p = "written" /\ BeingWritten(h)
     \/ p = "passed" /\ h < nextToFlush}

EachHeightInOnePlace ==
  \A h \in Heights : \E p \in PlaceNames : Places(h) = {p}

(* A height is tried again only while it has retries left, is queued once, *)
(* and is given up after exactly MaxBlockRetries + 1 failures.             *)
RetriesBounded ==
  /\ \A h \in Heights : InQueue(h) => attempts[h] \in 1..MaxBlockRetries
  /\ \A h \in Heights : attempts[h] <= MaxBlockRetries + 1
  /\ \A h \in Heights : h \in skips => GaveUp(h)
  /\ \A i, j \in 1..Len(retryQueue) : retryQueue[i] = retryQueue[j] => i = j

(* inFlight counts the processHeight calls that have not run their finally *)
(* callback, and never exceeds the concurrency.                            *)
SlotsAccounted ==
  /\ inFlight = Cardinality({h \in Heights : stage[h] # "idle"})
  /\ inFlight <= Concurrency

(* The promise resolves only when every height of the range is passed and  *)
(* nothing is buffered, queued or under way.                               *)
CompleteOnReturn ==
  status = "returned" =>
    /\ nextToFlush = rangeTo + 1
    /\ ready = {} /\ skips = {} /\ retryQueue = << >>
    /\ \A h \in Heights : stage[h] = "idle"

(* The runner of a non-empty range never runs dry: while it has not        *)
(* returned there is work left, and somebody - a call in flight or a       *)
(* scheduled maybeSpawn - to pick it up.                                   *)
NeverStalls ==
  status = "running" /\ rangeFrom <= rangeTo =>
    /\ inFlight > 0 \/ wakeups > 0
    /\ inFlight > 0 \/ retryQueue # << >> \/ nextHeight <= rangeTo

(* A non-empty range is always finished, unless a write fails.             *)
RangeFinishes ==
  rangeFrom <= rangeTo ~> status \in {"returned", "crashed"}
==============================================================================
