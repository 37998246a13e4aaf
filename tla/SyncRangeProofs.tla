--------------------------- MODULE SyncRangeProofs ---------------------------
(***************************************************************************)
(* Proofs about SyncRange, for every range, concurrency and retry limit.   *)
(***************************************************************************)
EXTENDS SyncRangeFeed, SequenceTheorems, FiniteSetTheorems, TLAPS

USE RangesAssumption, ConcurrencyAssumption, RetriesAssumption

(* What tryFlush assigns keeps its type.                                   *)
LEMMA TryFlushType ==
  ASSUME TypeOK, NEW h \in Heights, NEW n \in Nat, n >= nextToFlush,
         NEW rdy \in SUBSET Heights, NEW sk \in SUBSET Heights,
         TryFlush(h, n, rdy, sk)
  PROVE  /\ stage' \in [Heights -> Stages]
         /\ writing' \in [Heights -> Heights \union {NoHeight}]
         /\ ready' \subseteq Heights
         /\ skips' \subseteq Heights
         /\ nextToFlush' \in Nat
         /\ processed' \in Nat
         /\ out' \in Seq(Heights)
<1>1. PICK m \in n..(rangeTo + 1) :
        /\ skips' = sk \ (n..(m - 1))
        /\ ready' = rdy \ {m}
        /\ nextToFlush' = m
        /\ processed' = processed + (m - nextToFlush)
        /\ IF m \in rdy
             THEN /\ stage' = [stage EXCEPT ![h] = "writing"]
                  /\ writing' = [writing EXCEPT ![h] = m]
                  /\ out' = Append(out, m)
             ELSE /\ stage' = [stage EXCEPT ![h] = "ending"]
                  /\ writing' = [writing EXCEPT ![h] = NoHeight]
                  /\ out' = out
  BY DEF TryFlush, Taken
<1>2. m \in Nat /\ m >= nextToFlush /\ nextToFlush' \in Nat /\ processed' \in Nat
  BY <1>1 DEF TypeOK
<1>3. ready' \subseteq Heights /\ skips' \subseteq Heights
  BY <1>1
<1>4. CASE m \in rdy
  <2>1. m \in Heights
    BY <1>4
  <2>2. out' \in Seq(Heights)
    <3>1. out \in Seq(Heights) /\ out' = Append(out, m)
      BY <1>1, <1>4 DEF TypeOK
    <3>2. QED
      BY <2>1, <3>1, AppendProperties
  <2>3. QED
    BY <1>1, <1>2, <1>3, <1>4, <2>1, <2>2 DEF TypeOK, Stages
<1>5. CASE m \notin rdy
  BY <1>1, <1>2, <1>3, <1>5 DEF TypeOK, Stages
<1>6. QED
  BY <1>4, <1>5

(* What maybeSpawn takes: as many of the oldest queued heights as there    *)
(* are slots, then fresh heights.                                          *)
LEMMA SpawnCounts ==
  ASSUME TypeOK
  PROVE  /\ RetrySpawns \in 0..Len(retryQueue)
         /\ FreshSpawns \in Nat
         /\ FreshSpawns > 0 => nextHeight + FreshSpawns <= rangeTo + 1
         /\ RetrySpawns + FreshSpawns <= FreeSlots
         /\ FreeSlots \in Nat
<1>1. Len(retryQueue) \in Nat
  BY LenProperties DEF TypeOK
<1>2. /\ inFlight \in Int /\ Concurrency \in Nat
      /\ nextHeight \in Nat /\ rangeTo \in Nat
  BY DEF TypeOK
<1>3. FreeSlots \in Nat /\ FreshLeft \in Nat
  BY <1>2 DEF FreeSlots, FreshLeft
<1>4. RetrySpawns \in 0..Len(retryQueue) /\ FreeSlots - RetrySpawns \in Nat
  BY <1>1, <1>3 DEF RetrySpawns, LesserOf
<1>5. /\ FreshSpawns \in Nat
      /\ FreshSpawns <= FreeSlots - RetrySpawns
      /\ FreshSpawns <= FreshLeft
  BY <1>3, <1>4 DEF FreshSpawns, LesserOf
<1>6. FreshSpawns > 0 => nextHeight + FreshSpawns <= rangeTo + 1
  BY <1>2, <1>5 DEF FreshLeft
<1>7. QED
  BY <1>1, <1>3, <1>4, <1>5, <1>6

(* The queue that is left: the queued heights not taken, in order.         *)
LEMMA SpawnQueue ==
  ASSUME TypeOK, MaybeSpawn
  PROVE  /\ retryQueue' \in Seq(Heights)
         /\ Len(retryQueue') = Len(retryQueue) - RetrySpawns
         /\ \A i \in 1..Len(retryQueue') :
              retryQueue'[i] = retryQueue[i + RetrySpawns]
<1> DEFINE r == RetrySpawns
           k == Len(retryQueue)
<1>1. k \in Nat /\ r \in 0..k /\ \A i \in 1..k : retryQueue[i] \in Heights
  BY SpawnCounts, LenProperties, ElementOfSeq DEF TypeOK
<1>2. retryQueue' = SubSeq(retryQueue, r + 1, k)
  BY DEF MaybeSpawn, QueueLeft
<1>3. /\ SubSeq(retryQueue, r + 1, k) \in Seq(Heights)
      /\ Len(SubSeq(retryQueue, r + 1, k)) = IF r + 1 <= k THEN k - (r + 1) + 1 ELSE 0
      /\ \A i \in 1..(k - (r + 1) + 1) :
           SubSeq(retryQueue, r + 1, k)[i] = retryQueue[(r + 1) + i - 1]
  <2> HIDE DEF r, k
  <2>1. r + 1 \in Int /\ k \in Int /\ \A i \in (r + 1)..k : retryQueue[i] \in Heights
    BY <1>1
  <2>2. QED
    BY <2>1, SubSeqProperties
<1>4. QED
  <2> HIDE DEF r, k
  <2>1. Len(retryQueue') = k - r
    BY <1>1, <1>2, <1>3
  <2>2. ASSUME NEW i \in 1..(k - r)
        PROVE  retryQueue'[i] = retryQueue[i + r]
    BY <1>1, <1>2, <1>3
  <2>3. QED
    BY <1>2, <1>3, <2>1, <2>2 DEF r, k

(***************************************************************************)
(* Type correctness.                                                       *)
(***************************************************************************)

(* The variables of syncRange keep their types: in particular tryFlush     *)
(* only ever passes heights of the range to the sink, and maybeSpawn only  *)
(* queues and starts such heights.                                         *)
THEOREM TypeCorrect == Spec => []TypeOK
<1>1. Init => TypeOK
  BY EmptySeq DEF Init, TypeOK, Heights, Stages, NoHeight, SpawnsInRange
<1>2. ASSUME TypeOK, [Next]_vars PROVE TypeOK'
  <2>1. CASE UNCHANGED vars
    BY <1>2, <2>1 DEF TypeOK, vars, Heights, SpawnsInRange
  <2>2. CASE MaybeSpawn
    <3>1. retryQueue' \in Seq(Heights) /\ FreshSpawns \in Nat /\ RetrySpawns \in Nat
      BY <1>2, <2>2, SpawnCounts, SpawnQueue, LenProperties DEF TypeOK
    <3>2. stage' \in [Heights -> Stages]
      BY <1>2, <2>2 DEF MaybeSpawn, TypeOK, Stages
    <3>3. Heights' = Heights
      BY <2>2 DEF MaybeSpawn, Heights
    <3>4. nextHeight' \in Nat /\ (rangeFrom <= rangeTo => nextHeight' <= rangeTo + 1)
      BY <1>2, <2>2, <3>1, SpawnCounts DEF MaybeSpawn, TypeOK, SpawnsInRange
    <3>5. QED
      BY <1>2, <2>2, <3>1, <3>2, <3>3, <3>4 DEF MaybeSpawn, TypeOK, SpawnsInRange
  <2>3. ASSUME NEW h \in Heights, FetchSucceeds(h) PROVE TypeOK'
    <3>1. TryFlush(h, nextToFlush, ready \union {h}, skips) /\ Heights' = Heights
      BY <2>3 DEF FetchSucceeds, Heights
    <3>2. ready \union {h} \in SUBSET Heights /\ skips \in SUBSET Heights
          /\ nextToFlush \in Nat /\ nextToFlush >= nextToFlush
      BY <1>2 DEF TypeOK
    <3>3. /\ stage' \in [Heights -> Stages]
          /\ writing' \in [Heights -> Heights \union {NoHeight}]
          /\ ready' \subseteq Heights /\ skips' \subseteq Heights
          /\ nextToFlush' \in Nat /\ processed' \in Nat
          /\ out' \in Seq(Heights)
      BY <1>2, <3>1, <3>2, TryFlushType
    <3>4. QED
      BY <1>2, <2>3, <3>1, <3>3 DEF FetchSucceeds, TypeOK, SpawnsInRange
  <2>4. ASSUME NEW h \in Heights, FetchFails(h) PROVE TypeOK'
    <3>1. Heights' = Heights /\ attempts' \in [Heights -> Nat]
      BY <1>2, <2>4 DEF FetchFails, Heights, TypeOK
    <3>2. retryQueue' \in Seq(Heights)
      <4>1. retryQueue \in Seq(Heights)
        BY <1>2 DEF TypeOK
      <4>2. retryQueue' = retryQueue \/ retryQueue' = Append(retryQueue, h)
        BY <2>4 DEF FetchFails
      <4>3. QED
        BY <4>1, <4>2, AppendProperties
    <3>3. PICK sk \in SUBSET Heights : TryFlush(h, nextToFlush, ready, sk)
      BY <1>2, <2>4 DEF FetchFails, TypeOK
    <3>4. ready \in SUBSET Heights
          /\ nextToFlush \in Nat /\ nextToFlush >= nextToFlush
      BY <1>2 DEF TypeOK
    <3>5. /\ stage' \in [Heights -> Stages]
          /\ writing' \in [Heights -> Heights \union {NoHeight}]
          /\ ready' \subseteq Heights /\ skips' \subseteq Heights
          /\ nextToFlush' \in Nat /\ processed' \in Nat
          /\ out' \in Seq(Heights)
      BY <1>2, <3>3, <3>4, TryFlushType
    <3>6. QED
      BY <1>2, <2>4, <3>1, <3>2, <3>5 DEF FetchFails, TypeOK, SpawnsInRange
  <2>5. ASSUME NEW h \in Heights, WriteReturns(h) PROVE TypeOK'
    <3>1. TryFlush(h, nextToFlush + 1, ready, skips) /\ Heights' = Heights
      BY <2>5 DEF WriteReturns, Heights
    <3>2. ready \in SUBSET Heights /\ skips \in SUBSET Heights
          /\ nextToFlush + 1 \in Nat /\ nextToFlush + 1 >= nextToFlush
      BY <1>2 DEF TypeOK
    <3>3. /\ stage' \in [Heights -> Stages]
          /\ writing' \in [Heights -> Heights \union {NoHeight}]
          /\ ready' \subseteq Heights /\ skips' \subseteq Heights
          /\ nextToFlush' \in Nat /\ processed' \in Nat
          /\ out' \in Seq(Heights)
      BY <1>2, <3>1, <3>2, TryFlushType
    <3>4. QED
      BY <1>2, <2>5, <3>1, <3>3 DEF WriteReturns, TypeOK, SpawnsInRange
  <2>6. ASSUME NEW h \in Heights, WriteFails(h) PROVE TypeOK'
    BY <1>2, <2>6 DEF WriteFails, TypeOK, Heights, SpawnsInRange
  <2>7. ASSUME NEW h \in Heights, Finally(h) PROVE TypeOK'
    BY <1>2, <2>7 DEF Finally, TypeOK, Heights, Stages, SpawnsInRange
  <2>8. QED
    BY <1>2, <2>1, <2>2, <2>3, <2>4, <2>5, <2>6, <2>7 DEF Next
<1>3. QED
  BY <1>1, <1>2, PTL DEF Spec

(***************************************************************************)
(* The inductive invariant: where a height can be, and what the cursor     *)
(* knows about it.                                                         *)
(***************************************************************************)

(* What is buffered lies strictly between the cursor and nextHeight: the   *)
(* entry at the cursor, if any, is always taken at once.                   *)
BufferInv ==
  /\ rangeFrom <= nextToFlush /\ nextToFlush <= nextHeight
  /\ \A h \in ready \union skips :
       /\ nextToFlush < h /\ h < nextHeight
       /\ stage[h] # "fetching" /\ ~InQueue(h)
  /\ \A h \in ready : ~GaveUp(h)
  /\ \A h \in skips : GaveUp(h)

(* The write under way is that of the cursor, whose height is nowhere else.*)
WriterInv ==
  /\ \A g, h \in Heights :
       stage[g] = "writing" /\ stage[h] = "writing" => g = h
  /\ \A h \in Heights :
       writing[h] = IF stage[h] = "writing" THEN nextToFlush ELSE NoHeight
  /\ AnyWriter =>
       /\ nextToFlush \in Heights /\ nextToFlush < nextHeight
       /\ stage[nextToFlush] # "fetching"
       /\ ~InQueue(nextToFlush) /\ ~GaveUp(nextToFlush)

(* Heights under way or queued are spawned and not passed; what is queued  *)
(* has failed at least once and may be tried again.                        *)
WorkInv ==
  /\ \A h \in Heights :
       /\ stage[h] # "idle" => h < nextHeight
       /\ stage[h] = "fetching" =>
            nextToFlush <= h /\ ~InQueue(h) /\ ~GaveUp(h)
       /\ InQueue(h) =>
            /\ stage[h] \in {"idle", "ending"}
            /\ nextToFlush <= h /\ h < nextHeight
            /\ attempts[h] \in 1..MaxBlockRetries
       /\ attempts[h] <= MaxBlockRetries + 1
       /\ h >= nextHeight => attempts[h] = 0
  /\ \A i, j \in 1..Len(retryQueue) : retryQueue[i] = retryQueue[j] => i = j

(* The history of writes up to the cursor.                                 *)
OutInv ==
  /\ OutputOrdered
  /\ \A i \in 1..Len(out) : out[i] <= nextToFlush
  /\ AnyWriter <=> Wrote(nextToFlush)
  /\ PassedOrGivenUp

(* Nothing spawned and not passed is forgotten.                            *)
CoverInv ==
  \A h \in Heights : nextToFlush <= h /\ h < nextHeight =>
    \/ stage[h] = "fetching" \/ InQueue(h)
    \/ h \in ready \/ h \in skips
    \/ AnyWriter /\ h = nextToFlush

IInv == BufferInv /\ WriterInv /\ WorkInv /\ OutInv /\ CoverInv

------------------------------------------------------------------------------
(* tryFlush when the cursor's entry is missing: h's call just ends.        *)
LEMMA FlushNothing ==
  ASSUME TypeOK, NEW h \in Heights, NEW n \in Nat,
         NEW rdy \in SUBSET Heights, NEW sk \in SUBSET Heights,
         TryFlush(h, n, rdy, sk), n \notin rdy, n \notin sk
  PROVE  /\ skips' = sk /\ ready' = rdy
         /\ nextToFlush' = n
         /\ processed' = processed + (n - nextToFlush)
         /\ stage' = [stage EXCEPT ![h] = "ending"]
         /\ writing' = [writing EXCEPT ![h] = NoHeight]
         /\ out' = out
<1>1. PICK m \in n..(rangeTo + 1) :
        /\ n..(m - 1) \subseteq sk
        /\ skips' = sk \ (n..(m - 1))
        /\ ready' = rdy \ {m}
        /\ nextToFlush' = m
        /\ processed' = processed + (m - nextToFlush)
        /\ m \notin rdy =>
             /\ stage' = [stage EXCEPT ![h] = "ending"]
             /\ writing' = [writing EXCEPT ![h] = NoHeight]
             /\ out' = out
  BY DEF TryFlush, Taken
<1>2. m = n
  <2>1. m \in Nat /\ m >= n
    BY <1>1 DEF TypeOK
  <2>2. ~(m > n)
    BY <1>1, <2>1
  <2>3. QED
    BY <2>1, <2>2
<1>3. n..(m - 1) = {}
  BY <1>2
<1>4. QED
  BY <1>1, <1>2, <1>3

(* What tryFlush needs to know, run by h at cursor n while nobody else is  *)
(* writing: the invariant, but for h itself.                               *)
FreePre(h, n, rdy, sk) ==
  /\ h < nextHeight
  /\ \A g \in Heights : g # h => stage[g] # "writing" /\ writing[g] = NoHeight
  /\ rangeFrom <= n /\ n <= nextHeight
  /\ processed = nextToFlush - rangeFrom
  /\ \A x \in rdy \union sk :
       /\ n <= x /\ x < nextHeight /\ ~InQueue(x)'
       /\ x # h => stage[x] # "fetching"
  /\ \A x \in rdy : ~GaveUp(x)'
  /\ \A x \in sk : GaveUp(x)'
  /\ \A x \in Heights :
       /\ x # h /\ stage[x] # "idle" => x < nextHeight
       /\ x # h /\ stage[x] = "fetching" => n <= x /\ ~InQueue(x)' /\ ~GaveUp(x)'
       /\ InQueue(x)' =>
            /\ x # h /\ stage[x] \in {"idle", "ending"}
            /\ n <= x /\ x < nextHeight
            /\ attempts'[x] \in 1..MaxBlockRetries
       /\ attempts'[x] <= MaxBlockRetries + 1
       /\ x >= nextHeight => attempts'[x] = 0
       /\ n <= x /\ x < nextHeight =>
            \/ x # h /\ stage[x] = "fetching"
            \/ InQueue(x)' \/ x \in rdy \/ x \in sk
  /\ \A i, j \in 1..Len(retryQueue') : retryQueue'[i] = retryQueue'[j] => i = j
  /\ OutputOrdered
  /\ \A i \in 1..Len(out) : out[i] < n
  /\ \A x \in rangeFrom..(n - 1) : Wrote(x) <=> ~GaveUp(x)'

LEMMA FlushFree ==
  ASSUME TypeOK, TypeOK', NEW h \in Heights, NEW n \in Nat,
         NEW rdy \in SUBSET Heights, NEW sk \in SUBSET Heights,
         TryFlush(h, n, rdy, sk),
         UNCHANGED <<rangeFrom, rangeTo, nextHeight>>,
         FreePre(h, n, rdy, sk)
  PROVE  IInv'
<1>1. PICK m \in n..(rangeTo + 1) :
        /\ n..(m - 1) \subseteq sk
        /\ m \notin sk
        /\ skips' = sk \ (n..(m - 1))
        /\ ready' = rdy \ {m}
        /\ nextToFlush' = m
        /\ processed' = processed + (m - nextToFlush)
        /\ IF m \in rdy
             THEN /\ stage' = [stage EXCEPT ![h] = "writing"]
                  /\ writing' = [writing EXCEPT ![h] = m]
                  /\ out' = Append(out, m)
             ELSE /\ stage' = [stage EXCEPT ![h] = "ending"]
                  /\ writing' = [writing EXCEPT ![h] = NoHeight]
                  /\ out' = out
  BY DEF TryFlush, Taken
<1>2. Heights' = Heights /\ rangeFrom' = rangeFrom /\ nextHeight' = nextHeight
  BY DEF Heights
<1>3. /\ m \in Nat /\ rangeFrom \in Nat /\ nextHeight \in Nat /\ rangeTo \in Nat
      /\ Heights \subseteq Nat
      /\ \A x \in Heights : x >= rangeFrom /\ x <= rangeTo
      /\ \A x \in Nat : x >= rangeFrom /\ x <= rangeTo => x \in Heights
  BY DEF TypeOK, Heights
<1>4. \A x \in Nat : n <= x /\ x < m => x \in sk
  BY <1>1, <1>3
<1>5. m <= nextHeight
  <2>1. CASE m = n
    BY <2>1 DEF FreePre
  <2>2. CASE m # n
    <3>1. m - 1 \in sk /\ m - 1 \in Nat
      BY <1>3, <1>4, <2>2
    <3>2. m - 1 < nextHeight
      BY <3>1 DEF FreePre
    <3>3. QED
      BY <1>3, <3>1, <3>2
  <2>3. QED
    BY <2>1, <2>2
<1>6. \A x \in Heights : x # h => stage'[x] = stage[x] /\ writing'[x] = writing[x]
  BY <1>1 DEF TypeOK
<1>7. /\ m \in rdy => stage'[h] = "writing" /\ writing'[h] = m
      /\ m \notin rdy => stage'[h] = "ending" /\ writing'[h] = NoHeight
  BY <1>1 DEF TypeOK
<1>8. AnyWriter' <=> m \in rdy
  BY <1>2, <1>6, <1>7 DEF AnyWriter, FreePre
<1>9. \A x \in Nat : Wrote(x)' <=> (Wrote(x) \/ (m \in rdy /\ x = m))
  <2>1. CASE m \notin rdy
    <3>1. out' = out
      BY <1>1, <2>1
    <3>2. QED
      BY <2>1, <3>1 DEF Wrote
  <2>2. CASE m \in rdy
    <3>1. out \in Seq(Heights) /\ m \in Heights /\ out' = Append(out, m)
      BY <1>1, <2>2 DEF TypeOK
    <3>2. /\ Len(out) \in Nat /\ Len(out') = Len(out) + 1
          /\ \A i \in 1..Len(out) : out'[i] = out[i]
          /\ out'[Len(out) + 1] = m
      BY <3>1, AppendProperties, LenProperties
    <3>3. ASSUME NEW x \in Nat, Wrote(x)' PROVE Wrote(x) \/ x = m
      <4>1. PICK i \in 1..Len(out') : out'[i] = x
        BY <3>3 DEF Wrote
      <4>2. i \in 1..Len(out) \/ i = Len(out) + 1
        BY <3>2, <4>1
      <4>3. QED
        BY <3>2, <4>1, <4>2 DEF Wrote
    <3>4. ASSUME NEW x \in Nat, Wrote(x) \/ x = m PROVE Wrote(x)'
      <4>1. CASE Wrote(x)
        <5>1. PICK i \in 1..Len(out) : out[i] = x
          BY <4>1 DEF Wrote
        <5>2. i \in 1..Len(out') /\ out'[i] = x
          BY <3>2, <5>1
        <5>3. QED
          BY <5>2 DEF Wrote
      <4>2. CASE x = m
        <5>1. Len(out) + 1 \in 1..Len(out') /\ out'[Len(out) + 1] = x
          BY <3>2, <4>2
        <5>2. QED
          BY <5>1 DEF Wrote
      <4>3. QED
        BY <3>4, <4>1, <4>2
    <3>5. QED
      BY <2>2, <3>3, <3>4
  <2>3. QED
    BY <2>1, <2>2
<1>10. BufferInv'
  <2>1. rangeFrom' <= nextToFlush' /\ nextToFlush' <= nextHeight'
    BY <1>1, <1>2, <1>3, <1>5 DEF FreePre
  <2>2. ASSUME NEW x \in ready' \union skips'
        PROVE  /\ nextToFlush' < x /\ x < nextHeight'
               /\ stage'[x] # "fetching" /\ ~InQueue(x)'
    <3>1. x \in rdy \union sk /\ x # m /\ x \in Heights /\ x \in Nat
      BY <1>1, <1>3, <2>2
    <3>2. n <= x /\ x < nextHeight /\ ~InQueue(x)' /\ (x # h => stage[x] # "fetching")
      BY <3>1 DEF FreePre
    <3>3. x >= m
      <4>1. CASE x \in skips'
        BY <1>1, <1>3, <3>1, <3>2, <4>1
      <4>2. CASE x \in ready'
        <5>1. x \in rdy
          BY <1>1, <4>2
        <5>2. x \notin sk
          BY <3>1, <5>1 DEF FreePre
        <5>3. QED
          BY <1>3, <1>4, <3>1, <3>2, <5>2
      <4>3. QED
        BY <2>2, <4>1, <4>2
    <3>4. stage'[x] # "fetching"
      BY <1>6, <1>7, <3>1, <3>2
    <3>5. QED
      BY <1>1, <1>2, <1>3, <3>1, <3>2, <3>3, <3>4
  <2>3. (\A x \in ready' : ~GaveUp(x)') /\ (\A x \in skips' : GaveUp(x)')
    BY <1>1 DEF FreePre
  <2>4. QED
    BY <2>1, <2>2, <2>3 DEF BufferInv
<1>11. WriterInv'
  <2>1. \A x \in Heights : x # h => stage'[x] # "writing" /\ writing'[x] = NoHeight
    BY <1>6 DEF FreePre
  <2>2. ASSUME m \in rdy
        PROVE  /\ m \in Heights /\ m < nextHeight /\ stage'[m] # "fetching"
               /\ ~InQueue(m)' /\ ~GaveUp(m)'
    BY <1>6, <1>7, <2>2 DEF FreePre
  <2>3. QED
    BY <1>1, <1>2, <1>7, <1>8, <2>1, <2>2 DEF WriterInv
<1>12. WorkInv'
  <2>1. ASSUME NEW x \in Heights
        PROVE  /\ stage'[x] # "idle" => x < nextHeight
               /\ stage'[x] = "fetching" => m <= x /\ ~InQueue(x)' /\ ~GaveUp(x)'
               /\ InQueue(x)' =>
                    /\ stage'[x] \in {"idle", "ending"}
                    /\ m <= x /\ x < nextHeight
                    /\ attempts'[x] \in 1..MaxBlockRetries
               /\ attempts'[x] <= MaxBlockRetries + 1
               /\ x >= nextHeight => attempts'[x] = 0
    <3>1. x \in Nat
      BY <1>3
    <3>2. stage'[x] # "idle" => x < nextHeight
      BY <1>6 DEF FreePre
    <3>3. x \notin sk /\ n <= x => m <= x
      BY <1>3, <1>4, <3>1
    <3>4. stage'[x] = "fetching" => m <= x /\ ~InQueue(x)' /\ ~GaveUp(x)'
      BY <1>6, <1>7, <3>3 DEF FreePre
    <3>5. InQueue(x)' =>
            /\ stage'[x] \in {"idle", "ending"}
            /\ m <= x /\ x < nextHeight
            /\ attempts'[x] \in 1..MaxBlockRetries
      BY <1>6, <3>3 DEF FreePre
    <3>6. QED
      BY <3>2, <3>4, <3>5 DEF FreePre
  <2>2. \A i, j \in 1..Len(retryQueue') : retryQueue'[i] = retryQueue'[j] => i = j
    BY DEF FreePre
  <2>3. QED
    BY <1>1, <1>2, <2>1, <2>2 DEF WorkInv
<1>13. OutInv'
  <2>1. OutputOrdered' /\ \A i \in 1..Len(out') : out'[i] <= m /\ (out'[i] = m => m \in rdy)
    <3>1. /\ out \in Seq(Heights) /\ OutputOrdered
          /\ \A i \in 1..Len(out) : out[i] < n
      BY DEF TypeOK, FreePre
    <3>2. Len(out) \in Nat /\ \A i \in 1..Len(out) : out[i] \in Nat
      BY <1>3, <3>1, LenProperties, ElementOfSeq
    <3>3. CASE m \notin rdy
      BY <1>1, <1>3, <3>1, <3>2, <3>3 DEF OutputOrdered
    <3>4. CASE m \in rdy
      <4>1. m \in Heights /\ out' = Append(out, m)
        BY <1>1, <3>4
      <4>2. /\ Len(out') = Len(out) + 1
            /\ \A i \in 1..Len(out) : out'[i] = out[i]
            /\ out'[Len(out) + 1] = m
        BY <3>1, <4>1, AppendProperties
      <4>3. ASSUME NEW i \in 1..Len(out'), NEW j \in 1..Len(out'), i < j
            PROVE  out'[i] < out'[j]
        <5>1. i \in 1..Len(out)
          BY <3>2, <4>2, <4>3
        <5>2. CASE j = Len(out) + 1
          BY <1>3, <3>1, <3>2, <4>2, <5>1, <5>2
        <5>3. CASE j \in 1..Len(out)
          <6>1. out[i] < out[j]
            BY <3>1, <4>3, <5>1, <5>3 DEF OutputOrdered
          <6>2. QED
            BY <4>2, <5>1, <5>3, <6>1
        <5>4. QED
          BY <3>2, <4>2, <5>2, <5>3
      <4>4. ASSUME NEW i \in 1..Len(out')
            PROVE  out'[i] <= m
        <5>1. CASE i = Len(out) + 1
          BY <1>3, <4>2, <5>1
        <5>2. CASE i \in 1..Len(out)
          BY <1>3, <3>1, <3>2, <4>2, <5>2
        <5>3. QED
          BY <3>2, <4>2, <5>1, <5>2
      <4>5. QED
        BY <3>4, <4>3, <4>4 DEF OutputOrdered
    <3>5. QED
      BY <3>3, <3>4
  <2>2. AnyWriter' <=> Wrote(m)'
    <3>1. m \in rdy => Wrote(m)'
      BY <1>3, <1>9
    <3>2. Wrote(m)' => m \in rdy
      BY <2>1 DEF Wrote
    <3>3. QED
      BY <1>8, <3>1, <3>2
  <2>3. PassedOrGivenUp'
    <3>1. processed' = nextToFlush' - rangeFrom'
      BY <1>1, <1>2, <1>3 DEF FreePre, TypeOK
    <3>2. ASSUME NEW x \in rangeFrom..(m - 1)
          PROVE  Wrote(x)' <=> ~GaveUp(x)'
      <4>1. x \in Nat /\ x # m
        BY <1>3
      <4>2. CASE x < n
        <5>1. x \in rangeFrom..(n - 1)
          BY <1>3, <4>2
        <5>2. \A y \in rangeFrom..(n - 1) : Wrote(y) <=> ~GaveUp(y)'
          BY DEF FreePre
        <5>3. QED
          BY <1>9, <4>1, <5>1, <5>2
      <4>3. CASE ~(x < n)
        <5>1. x \in sk
          BY <1>3, <1>4, <4>1, <4>3
        <5>2. GaveUp(x)'
          BY <5>1 DEF FreePre
        <5>3. ~Wrote(x)
          <6>1. \A i \in 1..Len(out) : out[i] < n
            BY DEF FreePre
          <6>2. QED
            BY <4>3, <6>1 DEF Wrote
        <5>4. QED
          BY <1>9, <4>1, <5>2, <5>3
      <4>4. QED
        BY <4>2, <4>3
    <3>3. QED
      BY <1>1, <1>2, <3>1, <3>2 DEF PassedOrGivenUp
  <2>4. QED
    BY <1>1, <2>1, <2>2, <2>3 DEF OutInv, Wrote
<1>14. CoverInv'
  <2>1. ASSUME NEW x \in Heights, m <= x, x < nextHeight
        PROVE  \/ stage'[x] = "fetching" \/ InQueue(x)'
               \/ x \in ready' \/ x \in skips' \/ (AnyWriter' /\ x = m)
    <3>1. \/ x # h /\ stage[x] = "fetching"
          \/ InQueue(x)' \/ x \in rdy \/ x \in sk
      BY <1>3, <2>1 DEF FreePre
    <3>2. x \in sk => x \in skips'
      BY <1>1, <1>3, <2>1
    <3>3. x \in rdy /\ x # m => x \in ready'
      BY <1>1
    <3>4. x \in rdy /\ x = m => AnyWriter'
      BY <1>8
    <3>5. stage[x] = "fetching" /\ x # h => stage'[x] = "fetching"
      BY <1>6
    <3>6. QED
      BY <3>1, <3>2, <3>3, <3>4, <3>5
  <2>2. QED
    BY <1>1, <1>2, <2>1 DEF CoverInv
<1>15. QED
  BY <1>10, <1>11, <1>12, <1>13, <1>14 DEF IInv

------------------------------------------------------------------------------
(* The first states satisfy the invariant.                                 *)
LEMMA InitIInv == Init => IInv
<1> SUFFICES ASSUME Init PROVE IInv
  OBVIOUS
<1>1. TypeOK
  BY EmptySeq DEF Init, TypeOK, Heights, Stages, NoHeight, SpawnsInRange
<1>2. Len(retryQueue) = 0 /\ Len(out) = 0
  BY EmptySeq DEF Init
<1>3. /\ \A h \in Heights : ~InQueue(h)
      /\ \A h : ~Wrote(h)
      /\ ~AnyWriter
  BY <1>2 DEF Init, InQueue, Wrote, AnyWriter
<1>4. BufferInv /\ WriterInv
  BY <1>1, <1>3 DEF Init, BufferInv, WriterInv, TypeOK
<1>5. WorkInv
  BY <1>1, <1>2, <1>3 DEF Init, WorkInv, TypeOK, Heights
<1>6. OutInv
  BY <1>1, <1>2, <1>3 DEF Init, OutInv, OutputOrdered, PassedOrGivenUp, TypeOK
<1>7. CoverInv
  BY <1>1 DEF Init, CoverInv, TypeOK
<1>8. QED
  BY <1>4, <1>5, <1>6, <1>7 DEF IInv

(* The invariant is about these variables only.                            *)
LEMMA SameIInv ==
  ASSUME IInv,
         UNCHANGED <<rangeFrom, rangeTo, stage, writing, ready, skips, attempts,
                     retryQueue, nextHeight, nextToFlush, processed, out>>
  PROVE  IInv'
BY DEF IInv, BufferInv, WriterInv, WorkInv, OutInv, CoverInv, InQueue, GaveUp,
       AnyWriter, Wrote, OutputOrdered, PassedOrGivenUp, Heights

(* Which heights maybeSpawn starts: queued ones, which leave the queue,    *)
(* and fresh ones.                                                         *)
LEMMA SpawnedHeights ==
  ASSUME TypeOK, WorkInv, MaybeSpawn
  PROVE  /\ nextHeight' \in Nat /\ nextHeight <= nextHeight'
         /\ \A x \in Heights : InQueue(x)' <=> (InQueue(x) /\ x \notin Spawned)
         /\ \A x \in Heights : x \in Spawned <=>
              (InQueue(x) /\ x \in Spawned) \/ (nextHeight <= x /\ x < nextHeight')
         /\ \A i, j \in 1..Len(retryQueue') : retryQueue'[i] = retryQueue'[j] => i = j
<1> DEFINE r == RetrySpawns
           k == Len(retryQueue)
<1>1. /\ k \in Nat /\ r \in 0..k /\ FreshSpawns \in Nat
      /\ \A i \in 1..k : retryQueue[i] \in Heights
      /\ nextHeight \in Nat
  BY SpawnCounts, LenProperties, ElementOfSeq DEF TypeOK
<1>2. /\ Len(retryQueue') = k - r
      /\ \A i \in 1..(k - r) : retryQueue'[i] = retryQueue[i + r]
  BY SpawnQueue
<1>3. nextHeight' = nextHeight + FreshSpawns
  BY DEF MaybeSpawn
<1>4. \A x : x \in Spawned <=>
        (\E i \in 1..r : retryQueue[i] = x)
          \/ x \in nextHeight..(nextHeight + FreshSpawns - 1)
  BY DEF Spawned
<1>5. \A i, j \in 1..k : retryQueue[i] = retryQueue[j] => i = j
  BY DEF WorkInv
<1>6. \A x \in Heights : InQueue(x) => x < nextHeight
  BY DEF WorkInv
<1> HIDE DEF r, k
<1>7. Heights \subseteq Int
  BY DEF TypeOK, Heights
<1>8. ASSUME NEW x \in Heights
      PROVE  InQueue(x) <=> \E i \in 1..k : retryQueue[i] = x
  BY DEF InQueue, k
<1>9. ASSUME NEW x \in Heights
      PROVE  InQueue(x)' <=> \E i \in 1..(k - r) : retryQueue[i + r] = x
  <2>1. InQueue(x)' <=> \E i \in 1..Len(retryQueue') : retryQueue'[i] = x
    BY DEF InQueue
  <2>2. QED
    BY <1>2, <2>1
<1>10. ASSUME NEW x \in Heights
       PROVE  InQueue(x)' <=> (InQueue(x) /\ x \notin Spawned)
  <2>1. ASSUME InQueue(x)' PROVE InQueue(x) /\ x \notin Spawned
    <3>1. PICK i \in 1..(k - r) : retryQueue[i + r] = x
      BY <1>9, <2>1
    <3>2. i + r \in 1..k /\ i + r \notin 1..r
      BY <1>1, <3>1
    <3>3. InQueue(x)
      BY <1>8, <3>1, <3>2
    <3>4. \A j \in 1..r : retryQueue[j] # x
      BY <1>1, <1>5, <3>1, <3>2
    <3>5. x \notin nextHeight..(nextHeight + FreshSpawns - 1)
      BY <1>1, <1>6, <1>7, <3>3
    <3>6. QED
      BY <1>4, <3>3, <3>4, <3>5
  <2>2. ASSUME InQueue(x), x \notin Spawned PROVE InQueue(x)'
    <3>1. PICK i \in 1..k : retryQueue[i] = x
      BY <1>8, <2>2
    <3>2. i \notin 1..r
      BY <1>4, <2>2, <3>1
    <3>3. i - r \in 1..(k - r) /\ (i - r) + r = i
      BY <1>1, <3>1, <3>2
    <3>4. QED
      BY <1>9, <3>1, <3>3
  <2>3. QED
    BY <2>1, <2>2
<1>11. ASSUME NEW x \in Heights
       PROVE  x \in Spawned <=>
                (InQueue(x) /\ x \in Spawned) \/ (nextHeight <= x /\ x < nextHeight')
  <2>1. (\E i \in 1..r : retryQueue[i] = x) => InQueue(x)
    BY <1>1, <1>8
  <2>2. x \in nextHeight..(nextHeight + FreshSpawns - 1)
          <=> (nextHeight <= x /\ x < nextHeight')
    BY <1>1, <1>3, <1>7
  <2>3. QED
    BY <1>4, <2>1, <2>2
<1>12. ASSUME NEW i \in 1..Len(retryQueue'), NEW j \in 1..Len(retryQueue'),
              retryQueue'[i] = retryQueue'[j]
       PROVE  i = j
  <2>1. i + r \in 1..k /\ j + r \in 1..k /\ retryQueue[i + r] = retryQueue[j + r]
    BY <1>1, <1>2, <1>12
  <2>2. i + r = j + r
    BY <1>5, <2>1
  <2>3. QED
    BY <1>1, <1>2, <2>2
<1>13. QED
  BY <1>1, <1>3, <1>10, <1>11, <1>12

(* maybeSpawn keeps the invariant.                                         *)
LEMMA MaybeSpawnKeepsIInv ==
  ASSUME TypeOK, TypeOK', IInv, MaybeSpawn
  PROVE  IInv'
<1>1. /\ UNCHANGED <<rangeFrom, rangeTo, writing, ready, skips, attempts,
                     nextToFlush, processed, out>>
      /\ Heights' = Heights
      /\ \A x \in Heights : stage[x] # "ending"
      /\ \A x \in Heights : stage'[x] = IF x \in Spawned THEN "fetching" ELSE stage[x]
  BY DEF MaybeSpawn, Heights
<1>2. /\ nextHeight \in Nat /\ nextHeight' \in Nat /\ nextHeight <= nextHeight'
      /\ \A x \in Heights : InQueue(x)' <=> (InQueue(x) /\ x \notin Spawned)
      /\ \A x \in Heights : x \in Spawned <=>
           (InQueue(x) /\ x \in Spawned) \/ (nextHeight <= x /\ x < nextHeight')
      /\ \A i, j \in 1..Len(retryQueue') : retryQueue'[i] = retryQueue'[j] => i = j
  BY SpawnedHeights DEF IInv, TypeOK
<1>3. /\ Heights \subseteq Nat /\ nextToFlush \in Nat /\ MaxBlockRetries \in Nat
      /\ \A x \in Heights : attempts[x] \in Nat
      /\ \A x \in Heights : GaveUp(x)' <=> GaveUp(x)
      /\ ready \subseteq Heights /\ skips \subseteq Heights
  BY <1>1 DEF TypeOK, Heights, GaveUp
<1>4. ASSUME NEW x \in Heights, x \in Spawned
      PROVE  /\ stage[x] = "idle" /\ x \notin ready /\ x \notin skips
             /\ nextToFlush <= x /\ x < nextHeight' /\ ~InQueue(x)' /\ ~GaveUp(x)
             /\ ~(AnyWriter /\ x = nextToFlush)
  <2>1. CASE InQueue(x)
    <3>1. /\ stage[x] \in {"idle", "ending"} /\ nextToFlush <= x /\ x < nextHeight
          /\ attempts[x] \in 1..MaxBlockRetries
      BY <2>1 DEF IInv, WorkInv
    <3>2. x \notin ready /\ x \notin skips
      BY <2>1 DEF IInv, BufferInv
    <3>3. ~(AnyWriter /\ x = nextToFlush)
      BY <2>1 DEF IInv, WriterInv
    <3>4. QED
      BY <1>1, <1>2, <1>3, <1>4, <3>1, <3>2, <3>3 DEF GaveUp
  <2>2. CASE nextHeight <= x /\ x < nextHeight'
    <3>1. stage[x] = "idle" /\ attempts[x] = 0
      BY <1>2, <1>3, <2>2 DEF IInv, WorkInv
    <3>2. x \notin ready /\ x \notin skips /\ nextToFlush <= x
      BY <1>2, <1>3, <2>2 DEF IInv, BufferInv
    <3>3. ~(AnyWriter /\ x = nextToFlush)
      BY <1>2, <1>3, <2>2 DEF IInv, WriterInv
    <3>4. QED
      BY <1>2, <1>3, <1>4, <2>2, <3>1, <3>2, <3>3 DEF GaveUp
  <2>3. QED
    BY <1>2, <1>4, <2>1, <2>2
<1>5. AnyWriter' <=> AnyWriter
  BY <1>1, <1>4 DEF AnyWriter
<1>6. \A x : Wrote(x)' <=> Wrote(x)
  BY <1>1 DEF Wrote
<1>7. BufferInv'
  BY <1>1, <1>2, <1>3, <1>4 DEF IInv, BufferInv
<1>8. WriterInv'
  <2>1. \A x \in Heights : stage'[x] = "writing" <=> stage[x] = "writing"
    BY <1>1, <1>4
  <2>2. AnyWriter =>
          /\ nextToFlush \in Heights /\ nextToFlush < nextHeight'
          /\ stage'[nextToFlush] # "fetching"
          /\ ~InQueue(nextToFlush)' /\ ~GaveUp(nextToFlush)'
    BY <1>1, <1>2, <1>3, <1>4 DEF IInv, WriterInv
  <2>3. QED
    BY <1>1, <1>5, <2>1, <2>2 DEF IInv, WriterInv
<1>9. WorkInv'
  <2>1. ASSUME NEW x \in Heights
        PROVE  /\ stage'[x] # "idle" => x < nextHeight'
               /\ stage'[x] = "fetching" =>
                    nextToFlush <= x /\ ~InQueue(x)' /\ ~GaveUp(x)'
               /\ InQueue(x)' =>
                    /\ stage'[x] \in {"idle", "ending"}
                    /\ nextToFlush <= x /\ x < nextHeight'
                    /\ attempts[x] \in 1..MaxBlockRetries
               /\ attempts[x] <= MaxBlockRetries + 1
               /\ x >= nextHeight' => attempts[x] = 0
    <3>1. /\ stage[x] # "idle" => x < nextHeight
          /\ stage[x] = "fetching" =>
               nextToFlush <= x /\ ~InQueue(x) /\ ~GaveUp(x)
          /\ InQueue(x) =>
               /\ stage[x] \in {"idle", "ending"}
               /\ nextToFlush <= x /\ x < nextHeight
               /\ attempts[x] \in 1..MaxBlockRetries
          /\ attempts[x] <= MaxBlockRetries + 1
          /\ x >= nextHeight => attempts[x] = 0
      BY DEF IInv, WorkInv
    <3>2. x \in Nat
      BY <1>3
    <3>3. CASE x \in Spawned
      BY <1>1, <1>2, <1>3, <1>4, <3>1, <3>2, <3>3
    <3>4. CASE x \notin Spawned
      BY <1>1, <1>2, <1>3, <3>1, <3>2, <3>4
    <3>5. QED
      BY <3>3, <3>4
  <2>2. QED
    BY <1>1, <1>2, <2>1 DEF WorkInv
<1>10. OutInv'
  BY <1>1, <1>3, <1>5, <1>6 DEF IInv, OutInv, OutputOrdered, PassedOrGivenUp, TypeOK, GaveUp
<1>11. CoverInv'
  <2>1. ASSUME NEW x \in Heights, nextToFlush <= x, x < nextHeight'
        PROVE  \/ stage'[x] = "fetching" \/ InQueue(x)'
               \/ x \in ready \/ x \in skips \/ (AnyWriter /\ x = nextToFlush)
    BY <1>1, <1>2, <1>3, <2>1 DEF IInv, CoverInv
  <2>2. QED
    BY <1>1, <1>5, <2>1 DEF CoverInv
<1>12. QED
  BY <1>7, <1>8, <1>9, <1>10, <1>11 DEF IInv

(* finally and a failing write keep the invariant: they move no height.    *)
LEMMA FinallyKeepsIInv ==
  ASSUME TypeOK, IInv, NEW h \in Heights, Finally(h)
  PROVE  IInv'
<1>1. /\ UNCHANGED <<rangeFrom, rangeTo, writing, ready, skips, attempts,
                     retryQueue, nextHeight, nextToFlush, processed, out>>
      /\ Heights' = Heights
      /\ stage[h] = "ending" /\ stage' = [stage EXCEPT ![h] = "idle"]
  BY DEF Finally, Heights
<1>2. /\ \A x \in Heights : x # h => stage'[x] = stage[x]
      /\ stage'[h] = "idle"
  BY <1>1 DEF TypeOK
<1>3. /\ \A x : InQueue(x)' <=> InQueue(x)
      /\ \A x : GaveUp(x)' <=> GaveUp(x)
      /\ \A x : Wrote(x)' <=> Wrote(x)
      /\ AnyWriter' <=> AnyWriter
  BY <1>1, <1>2 DEF InQueue, GaveUp, Wrote, AnyWriter
<1>4. ready \subseteq Heights /\ skips \subseteq Heights
  BY DEF TypeOK
<1>5. BufferInv'
  BY <1>1, <1>2, <1>3, <1>4 DEF IInv, BufferInv
<1>6. WriterInv'
  BY <1>1, <1>2, <1>3 DEF IInv, WriterInv
<1>7. WorkInv'
  BY <1>1, <1>2, <1>3 DEF IInv, WorkInv
<1>8. OutInv'
  BY <1>1, <1>3 DEF IInv, OutInv, OutputOrdered, PassedOrGivenUp
<1>9. CoverInv'
  BY <1>1, <1>2, <1>3 DEF IInv, CoverInv
<1>10. QED
  BY <1>5, <1>6, <1>7, <1>8, <1>9 DEF IInv

(* A call that ends without a flush - its height went behind the cursor's  *)
(* missing entry, or back to the queue - keeps the invariant.              *)
LEMMA QuietEndKeepsIInv ==
  ASSUME TypeOK, TypeOK', IInv, NEW h \in Heights, stage[h] = "fetching",
         UNCHANGED <<rangeFrom, rangeTo, nextHeight, nextToFlush, processed, out>>,
         stage' = [stage EXCEPT ![h] = "ending"],
         writing' = [writing EXCEPT ![h] = NoHeight],
         \A x \in Heights : x # h => attempts'[x] = attempts[x],
         \A x \in Heights : x # h => (InQueue(x)' <=> InQueue(x)),
         \A i, j \in 1..Len(retryQueue') : retryQueue'[i] = retryQueue'[j] => i = j,
         attempts'[h] <= MaxBlockRetries + 1,
         \/ /\ ready' = ready \union {h} /\ skips' = skips /\ h # nextToFlush
            /\ ~GaveUp(h)' /\ ~InQueue(h)'
         \/ /\ ready' = ready /\ skips' = skips \union {h} /\ h # nextToFlush
            /\ GaveUp(h)' /\ ~InQueue(h)'
         \/ /\ ready' = ready /\ skips' = skips
            /\ attempts'[h] \in 1..MaxBlockRetries /\ InQueue(h)'
  PROVE  IInv'
<1>1. /\ Heights' = Heights /\ Heights \subseteq Nat
      /\ nextToFlush \in Nat /\ nextHeight \in Nat /\ MaxBlockRetries \in Nat
      /\ ready \subseteq Heights /\ skips \subseteq Heights
      /\ rangeFrom \in Nat
  BY DEF Heights, TypeOK
<1>2. /\ \A x \in Heights : x # h => stage'[x] = stage[x] /\ writing'[x] = writing[x]
      /\ stage'[h] = "ending" /\ writing'[h] = NoHeight
  BY DEF TypeOK
<1>3. /\ \A x \in Heights : x # h => (GaveUp(x)' <=> GaveUp(x))
      /\ \A x : Wrote(x)' <=> Wrote(x)
  BY DEF GaveUp, Wrote
<1>4. AnyWriter' <=> AnyWriter
  BY <1>1, <1>2 DEF AnyWriter
<1>5. /\ h < nextHeight /\ nextToFlush <= h /\ h \notin ready /\ h \notin skips
      /\ ~(AnyWriter /\ h = nextToFlush)
  BY DEF IInv, WorkInv, BufferInv, WriterInv
<1>6. BufferInv'
  <2>1. ASSUME NEW x \in ready \union skips
        PROVE  /\ nextToFlush < x /\ x < nextHeight /\ x # h /\ x \in Heights
               /\ stage'[x] # "fetching" /\ ~InQueue(x)'
    <3>1. x # h /\ x \in Heights
      BY <1>1, <1>5
    <3>2. nextToFlush < x /\ x < nextHeight /\ stage[x] # "fetching" /\ ~InQueue(x)
      BY DEF IInv, BufferInv
    <3>3. QED
      BY <1>2, <3>1, <3>2
  <2>2. h # nextToFlush /\ ~InQueue(h)' =>
          nextToFlush < h /\ h < nextHeight /\ stage'[h] # "fetching" /\ ~InQueue(h)'
    BY <1>1, <1>2, <1>5
  <2>3. \A x \in ready' \union skips' :
          \/ x \in ready \union skips
          \/ x = h /\ h # nextToFlush /\ ~InQueue(h)'
    OBVIOUS
  <2>4. (\A x \in ready : ~GaveUp(x)') /\ (\A x \in skips : GaveUp(x)')
    BY <1>3, <2>1 DEF IInv, BufferInv
  <2>5. (\A x \in ready' : ~GaveUp(x)') /\ (\A x \in skips' : GaveUp(x)')
    BY <2>4
  <2>6. rangeFrom <= nextToFlush /\ nextToFlush <= nextHeight
    BY DEF IInv, BufferInv
  <2>7. QED
    BY <2>1, <2>2, <2>3, <2>5, <2>6 DEF BufferInv
<1>7. WriterInv'
  <2>1. AnyWriter =>
          /\ nextToFlush \in Heights /\ nextToFlush < nextHeight
          /\ stage'[nextToFlush] # "fetching"
          /\ ~InQueue(nextToFlush)' /\ ~GaveUp(nextToFlush)'
    BY <1>2, <1>3, <1>5 DEF IInv, WriterInv
  <2>2. QED
    BY <1>1, <1>2, <1>4, <2>1 DEF IInv, WriterInv
<1>8. WorkInv'
  BY <1>1, <1>2, <1>3, <1>5 DEF IInv, WorkInv
<1>9. OutInv'
  <2>1. \A x \in rangeFrom..(nextToFlush - 1) : x # h
    BY <1>1, <1>5
  <2>2. \A x \in rangeFrom..(nextToFlush - 1) : x \in Heights
    <3>1. nextToFlush <= rangeTo + 1
      BY <1>1, <1>5 DEF Heights, TypeOK
    <3>2. QED
      BY <1>1, <3>1 DEF Heights, TypeOK
  <2>3. PassedOrGivenUp'
    BY <1>3, <2>1, <2>2 DEF IInv, OutInv, PassedOrGivenUp
  <2>4. QED
    BY <1>3, <1>4, <2>3 DEF IInv, OutInv, OutputOrdered
<1>10. CoverInv'
  <2>1. ASSUME NEW x \in Heights, nextToFlush <= x, x < nextHeight
        PROVE  \/ stage'[x] = "fetching" \/ InQueue(x)'
               \/ x \in ready' \/ x \in skips' \/ (AnyWriter /\ x = nextToFlush)
    BY <1>2, <2>1 DEF IInv, CoverInv
  <2>2. QED
    BY <1>1, <1>4, <2>1 DEF CoverInv
<1>11. QED
  BY <1>6, <1>7, <1>8, <1>9, <1>10 DEF IInv

(* A fetched height keeps the invariant, whether it is the one the cursor  *)
(* waits for or not.                                                       *)
LEMMA FetchSucceedsKeepsIInv ==
  ASSUME TypeOK, TypeOK', IInv, NEW h \in Heights, FetchSucceeds(h)
  PROVE  IInv'
<1>1. /\ UNCHANGED <<rangeFrom, rangeTo, attempts, retryQueue, nextHeight>>
      /\ stage[h] = "fetching"
      /\ TryFlush(h, nextToFlush, ready \union {h}, skips)
  BY DEF FetchSucceeds
<1>2. /\ nextToFlush \in Nat /\ ready \union {h} \in SUBSET Heights
      /\ skips \in SUBSET Heights /\ Heights \subseteq Nat /\ nextHeight \in Nat
      /\ MaxBlockRetries \in Nat /\ \A x \in Heights : attempts[x] \in Nat
  <2>1. Heights \subseteq Nat
    BY DEF TypeOK, Heights
  <2>2. QED
    BY <2>1 DEF TypeOK
<1>3. /\ \A x : InQueue(x)' <=> InQueue(x)
      /\ \A x : GaveUp(x)' <=> GaveUp(x)
  BY <1>1 DEF InQueue, GaveUp
<1>4. /\ h < nextHeight /\ nextToFlush <= h /\ h \notin skips /\ ~InQueue(h) /\ ~GaveUp(h)
      /\ nextToFlush \notin ready /\ nextToFlush \notin skips
      /\ ~(AnyWriter /\ h = nextToFlush)
  BY <1>1, <1>2 DEF IInv, WorkInv, BufferInv, WriterInv
<1>5. CASE h # nextToFlush
  <2>1. nextToFlush \notin ready \union {h}
    BY <1>4, <1>5
  <2>2. /\ skips' = skips /\ ready' = ready \union {h}
        /\ nextToFlush' = nextToFlush
        /\ processed' = processed + (nextToFlush - nextToFlush)
        /\ stage' = [stage EXCEPT ![h] = "ending"]
        /\ writing' = [writing EXCEPT ![h] = NoHeight]
        /\ out' = out
    BY <1>1, <1>2, <1>4, <2>1, FlushNothing
  <2>3. processed' = processed
    BY <1>2, <2>2 DEF TypeOK
  <2>4. \A i, j \in 1..Len(retryQueue') : retryQueue'[i] = retryQueue'[j] => i = j
    BY <1>1 DEF IInv, WorkInv
  <2>5. attempts'[h] <= MaxBlockRetries + 1 /\ \A x \in Heights : attempts'[x] = attempts[x]
    BY <1>1 DEF IInv, WorkInv
  <2>6. QED
    BY <1>1, <1>3, <1>4, <1>5, <2>2, <2>3, <2>4, <2>5, QuietEndKeepsIInv
<1>6. CASE h = nextToFlush
  <2>1. ~AnyWriter
    BY <1>4, <1>6
  <2>2. FreePre(h, nextToFlush, ready \union {h}, skips)
    <3>1. \A g \in Heights : stage[g] # "writing" /\ writing[g] = NoHeight
      BY <2>1 DEF AnyWriter, IInv, WriterInv
    <3>2. /\ rangeFrom <= nextToFlush /\ nextToFlush <= nextHeight
          /\ processed = nextToFlush - rangeFrom
      BY DEF IInv, BufferInv, OutInv, PassedOrGivenUp
    <3>3. /\ \A x \in ready \union skips :
               /\ nextToFlush <= x /\ x < nextHeight /\ ~InQueue(x)'
               /\ stage[x] # "fetching"
          /\ \A x \in ready : ~GaveUp(x)'
          /\ \A x \in skips : GaveUp(x)'
      <4>1. /\ \A x \in ready \union skips :
                 /\ nextToFlush < x /\ x < nextHeight
                 /\ stage[x] # "fetching" /\ ~InQueue(x)
            /\ \A x \in ready : ~GaveUp(x)
            /\ \A x \in skips : GaveUp(x)
        BY DEF IInv, BufferInv
      <4>2. \A x \in ready \union skips : x \in Nat
        BY <1>2
      <4>3. QED
        BY <1>2, <1>3, <4>1, <4>2
    <3>4. \A x \in Heights :
            /\ stage[x] # "idle" => x < nextHeight
            /\ stage[x] = "fetching" =>
                 nextToFlush <= x /\ ~InQueue(x)' /\ ~GaveUp(x)'
            /\ InQueue(x)' =>
                 /\ stage[x] \in {"idle", "ending"}
                 /\ nextToFlush <= x /\ x < nextHeight
                 /\ attempts'[x] \in 1..MaxBlockRetries
            /\ attempts'[x] <= MaxBlockRetries + 1
            /\ x >= nextHeight => attempts'[x] = 0
      BY <1>1, <1>3 DEF IInv, WorkInv
    <3>5. \A x \in Heights : nextToFlush <= x /\ x < nextHeight =>
            \/ x # h /\ stage[x] = "fetching"
            \/ InQueue(x)' \/ x \in ready \union {h} \/ x \in skips
      BY <1>3, <2>1 DEF IInv, CoverInv
    <3>6. \A i, j \in 1..Len(retryQueue') : retryQueue'[i] = retryQueue'[j] => i = j
      BY <1>1 DEF IInv, WorkInv
    <3>7. OutputOrdered /\ \A i \in 1..Len(out) : out[i] < nextToFlush
      <4>1. /\ OutputOrdered /\ ~Wrote(nextToFlush)
            /\ \A i \in 1..Len(out) : out[i] <= nextToFlush
        BY <2>1 DEF IInv, OutInv
      <4>2. \A i \in 1..Len(out) : out[i] \in Nat /\ out[i] # nextToFlush
        BY <1>2, <4>1, ElementOfSeq DEF TypeOK, Wrote
      <4>3. QED
        BY <1>2, <4>1, <4>2
    <3>8. \A x \in rangeFrom..(nextToFlush - 1) : Wrote(x) <=> ~GaveUp(x)'
      BY <1>3 DEF IInv, OutInv, PassedOrGivenUp
    <3>9. QED
      BY <1>2, <1>3, <1>4, <3>1, <3>2, <3>3, <3>4, <3>5, <3>6, <3>7, <3>8 DEF FreePre
  <2>3. QED
    BY <1>1, <1>2, <2>2, FlushFree
<1>7. QED
  BY <1>5, <1>6

(* A failed height keeps the invariant: it is queued once more, or marked  *)
(* as given up.                                                            *)
LEMMA FetchFailsKeepsIInv ==
  ASSUME TypeOK, TypeOK', IInv, NEW h \in Heights, FetchFails(h)
  PROVE  IInv'
<1>1. /\ UNCHANGED <<rangeFrom, rangeTo, nextHeight>>
      /\ stage[h] = "fetching"
      /\ attempts' = [attempts EXCEPT ![h] = @ + 1]
  BY DEF FetchFails
<1>2. /\ nextToFlush \in Nat /\ ready \in SUBSET Heights
      /\ skips \in SUBSET Heights /\ Heights \subseteq Nat /\ nextHeight \in Nat
      /\ MaxBlockRetries \in Nat /\ \A x \in Heights : attempts[x] \in Nat
      /\ retryQueue \in Seq(Heights) /\ Len(retryQueue) \in Nat
  BY LenProperties DEF TypeOK, Heights
<1>3. /\ \A x \in Heights : x # h => attempts'[x] = attempts[x]
      /\ attempts'[h] = attempts[h] + 1
      /\ \A x \in Heights : x # h => (GaveUp(x)' <=> GaveUp(x))
  BY <1>1 DEF GaveUp, TypeOK
<1>4. /\ h < nextHeight /\ nextToFlush <= h /\ h \notin skips /\ h \notin ready
      /\ ~InQueue(h) /\ ~GaveUp(h)
      /\ nextToFlush \notin ready /\ nextToFlush \notin skips
      /\ ~(AnyWriter /\ h = nextToFlush)
  BY <1>1, <1>2 DEF IInv, WorkInv, BufferInv, WriterInv
<1>5. attempts[h] <= MaxBlockRetries /\ attempts'[h] <= MaxBlockRetries + 1
  BY <1>2, <1>3, <1>4 DEF GaveUp
<1>6. \A i, j \in 1..Len(retryQueue) : retryQueue[i] = retryQueue[j] => i = j
  BY DEF IInv, WorkInv
<1>7. CASE RetryAllowed(h)
  <2>1. TryFlush(h, nextToFlush, ready, skips) /\ retryQueue' = Append(retryQueue, h)
    BY <1>7 DEF FetchFails
  <2>2. /\ skips' = skips /\ ready' = ready
        /\ nextToFlush' = nextToFlush
        /\ processed' = processed + (nextToFlush - nextToFlush)
        /\ stage' = [stage EXCEPT ![h] = "ending"]
        /\ writing' = [writing EXCEPT ![h] = NoHeight]
        /\ out' = out
    BY <1>2, <1>4, <2>1, FlushNothing
  <2>3. processed' = processed
    BY <1>2, <2>2 DEF TypeOK
  <2>4. /\ Len(retryQueue') = Len(retryQueue) + 1
        /\ \A i \in 1..Len(retryQueue) : retryQueue'[i] = retryQueue[i]
        /\ retryQueue'[Len(retryQueue) + 1] = h
    BY <1>2, <2>1, AppendProperties
  <2>5. \A x : InQueue(x)' <=> (InQueue(x) \/ x = h)
    <3>1. ASSUME NEW x, InQueue(x)' PROVE InQueue(x) \/ x = h
      <4>1. PICK i \in 1..Len(retryQueue') : retryQueue'[i] = x
        BY <3>1 DEF InQueue
      <4>2. QED
        BY <1>2, <2>4, <4>1 DEF InQueue
    <3>2. ASSUME NEW x, InQueue(x) PROVE InQueue(x)'
      <4>1. PICK i \in 1..Len(retryQueue) : retryQueue[i] = x
        BY <3>2 DEF InQueue
      <4>2. i \in 1..Len(retryQueue') /\ retryQueue'[i] = x
        BY <1>2, <2>4, <4>1
      <4>3. QED
        BY <4>2 DEF InQueue
    <3>3. InQueue(h)'
      <4>1. Len(retryQueue) + 1 \in 1..Len(retryQueue')
        BY <1>2, <2>4
      <4>2. QED
        BY <2>4, <4>1 DEF InQueue
    <3>4. QED
      BY <3>1, <3>2, <3>3
  <2>6. ASSUME NEW i \in 1..Len(retryQueue'), NEW j \in 1..Len(retryQueue'),
               retryQueue'[i] = retryQueue'[j]
        PROVE  i = j
    <3>1. \A k \in 1..Len(retryQueue) : retryQueue[k] # h
      BY <1>4 DEF InQueue
    <3>2. QED
      BY <1>2, <1>6, <2>4, <2>6, <3>1
  <2>7. attempts'[h] \in 1..MaxBlockRetries
    BY <1>2, <1>3, <1>7 DEF RetryAllowed
  <2>8. QED
    BY <1>1, <1>3, <1>5, <2>2, <2>3, <2>5, <2>6, <2>7, QuietEndKeepsIInv
<1>8. CASE ~RetryAllowed(h)
  <2>1. TryFlush(h, nextToFlush, ready, skips \union {h}) /\ retryQueue' = retryQueue
    BY <1>8 DEF FetchFails
  <2>2. \A x : InQueue(x)' <=> InQueue(x)
    BY <2>1 DEF InQueue
  <2>3. GaveUp(h)'
    BY <1>2, <1>3, <1>8 DEF GaveUp, RetryAllowed
  <2>4. CASE h # nextToFlush
    <3>1. /\ skips' = skips \union {h} /\ ready' = ready
          /\ nextToFlush' = nextToFlush
          /\ processed' = processed + (nextToFlush - nextToFlush)
          /\ stage' = [stage EXCEPT ![h] = "ending"]
          /\ writing' = [writing EXCEPT ![h] = NoHeight]
          /\ out' = out
      <4>1. nextToFlush \notin skips \union {h} /\ skips \union {h} \in SUBSET Heights
        BY <1>2, <1>4, <2>4
      <4>2. QED
        BY <1>2, <1>4, <2>1, <4>1, FlushNothing
    <3>2. processed' = processed
      BY <1>2, <3>1 DEF TypeOK
    <3>3. \A i, j \in 1..Len(retryQueue') : retryQueue'[i] = retryQueue'[j] => i = j
      BY <1>6, <2>1
    <3>4. QED
      BY <1>1, <1>3, <1>4, <1>5, <2>2, <2>3, <2>4, <3>1, <3>2, <3>3, QuietEndKeepsIInv
  <2>5. CASE h = nextToFlush
    <3>1. ~AnyWriter
      BY <1>4, <2>5
    <3>2. FreePre(h, nextToFlush, ready, skips \union {h})
      <4>1. \A g \in Heights : stage[g] # "writing" /\ writing[g] = NoHeight
        BY <3>1 DEF AnyWriter, IInv, WriterInv
      <4>2. /\ rangeFrom <= nextToFlush /\ nextToFlush <= nextHeight
            /\ processed = nextToFlush - rangeFrom
        BY DEF IInv, BufferInv, OutInv, PassedOrGivenUp
      <4>3. /\ \A x \in ready \union skips :
                 /\ nextToFlush <= x /\ x < nextHeight /\ ~InQueue(x)'
                 /\ stage[x] # "fetching"
            /\ \A x \in ready : ~GaveUp(x)'
            /\ \A x \in skips : GaveUp(x)'
        <5>1. /\ \A x \in ready \union skips :
                   /\ nextToFlush < x /\ x < nextHeight
                   /\ stage[x] # "fetching" /\ ~InQueue(x)
              /\ \A x \in ready : ~GaveUp(x)
              /\ \A x \in skips : GaveUp(x)
          BY DEF IInv, BufferInv
        <5>2. \A x \in ready \union skips : x \in Nat /\ x \in Heights /\ x # h
          BY <1>2, <1>4
        <5>3. QED
          BY <1>2, <1>3, <2>2, <5>1, <5>2
      <4>4. \A x \in Heights :
              /\ stage[x] # "idle" => x < nextHeight
              /\ x # h /\ stage[x] = "fetching" =>
                   nextToFlush <= x /\ ~InQueue(x)' /\ ~GaveUp(x)'
              /\ InQueue(x)' =>
                   /\ x # h /\ stage[x] \in {"idle", "ending"}
                   /\ nextToFlush <= x /\ x < nextHeight
                   /\ attempts'[x] \in 1..MaxBlockRetries
              /\ attempts'[x] <= MaxBlockRetries + 1
              /\ x >= nextHeight => attempts'[x] = 0
        BY <1>2, <1>3, <1>4, <1>5, <2>2 DEF IInv, WorkInv
      <4>5. \A x \in Heights : nextToFlush <= x /\ x < nextHeight =>
              \/ x # h /\ stage[x] = "fetching"
              \/ InQueue(x)' \/ x \in ready \/ x \in skips \union {h}
        BY <2>2, <3>1 DEF IInv, CoverInv
      <4>6. \A i, j \in 1..Len(retryQueue') : retryQueue'[i] = retryQueue'[j] => i = j
        BY <1>6, <2>1
      <4>7. OutputOrdered /\ \A i \in 1..Len(out) : out[i] < nextToFlush
        <5>1. /\ OutputOrdered /\ ~Wrote(nextToFlush)
              /\ \A i \in 1..Len(out) : out[i] <= nextToFlush
          BY <3>1 DEF IInv, OutInv
        <5>2. \A i \in 1..Len(out) : out[i] \in Nat /\ out[i] # nextToFlush
          BY <1>2, <5>1, ElementOfSeq DEF TypeOK, Wrote
        <5>3. QED
          BY <1>2, <5>1, <5>2
      <4>8. \A x \in rangeFrom..(nextToFlush - 1) : Wrote(x) <=> ~GaveUp(x)'
        <5>1. \A x \in rangeFrom..(nextToFlush - 1) : x \in Heights /\ x # h
          BY <2>5 DEF Heights, TypeOK
        <5>2. QED
          BY <1>3, <5>1 DEF IInv, OutInv, PassedOrGivenUp
      <4>9. QED
        BY <1>2, <1>4, <2>2, <2>3, <4>1, <4>2, <4>3, <4>4, <4>5, <4>6, <4>7, <4>8
           DEF FreePre
    <3>3. skips \union {h} \in SUBSET Heights
      BY <1>2
    <3>4. QED
      BY <1>1, <1>2, <2>1, <3>2, <3>3, FlushFree
  <2>6. QED
    BY <2>4, <2>5
<1>9. QED
  BY <1>7, <1>8

(* The return of the write moves the cursor by one, and on through what is *)
(* buffered behind it.                                                     *)
LEMMA WriteReturnsKeepsIInv ==
  ASSUME TypeOK, TypeOK', IInv, NEW h \in Heights, WriteReturns(h)
  PROVE  IInv'
<1> DEFINE n == nextToFlush + 1
<1>1. /\ UNCHANGED <<rangeFrom, rangeTo, attempts, retryQueue, nextHeight>>
      /\ stage[h] = "writing"
      /\ TryFlush(h, n, ready, skips)
  BY DEF WriteReturns
<1>2. /\ nextToFlush \in Nat /\ n \in Nat /\ ready \in SUBSET Heights
      /\ skips \in SUBSET Heights /\ Heights \subseteq Nat /\ nextHeight \in Nat
      /\ MaxBlockRetries \in Nat /\ \A x \in Heights : attempts[x] \in Nat
      /\ rangeFrom \in Nat
  <2>1. Heights \subseteq Nat
    BY DEF TypeOK, Heights
  <2>2. QED
    BY <2>1 DEF TypeOK
<1>3. /\ \A x : InQueue(x)' <=> InQueue(x)
      /\ \A x : GaveUp(x)' <=> GaveUp(x)
  BY <1>1 DEF InQueue, GaveUp
<1>4. AnyWriter
  BY <1>1 DEF AnyWriter
<1>5. /\ nextToFlush < nextHeight /\ stage[nextToFlush] # "fetching"
      /\ ~InQueue(nextToFlush) /\ ~GaveUp(nextToFlush)
      /\ \A g \in Heights : g # h => stage[g] # "writing" /\ writing[g] = NoHeight
  BY <1>1, <1>4 DEF IInv, WriterInv
<1>6. FreePre(h, n, ready, skips)
  <2>1. /\ h < nextHeight /\ rangeFrom <= n /\ n <= nextHeight
        /\ processed = nextToFlush - rangeFrom
    <3>1. h < nextHeight /\ rangeFrom <= nextToFlush /\ processed = nextToFlush - rangeFrom
      BY <1>1 DEF IInv, WorkInv, BufferInv, OutInv, PassedOrGivenUp
    <3>2. QED
      BY <1>2, <1>5, <3>1
  <2>2. /\ \A x \in ready \union skips :
             /\ n <= x /\ x < nextHeight /\ ~InQueue(x)'
             /\ stage[x] # "fetching"
        /\ \A x \in ready : ~GaveUp(x)'
        /\ \A x \in skips : GaveUp(x)'
    <3>1. /\ \A x \in ready \union skips :
               /\ nextToFlush < x /\ x < nextHeight
               /\ stage[x] # "fetching" /\ ~InQueue(x)
          /\ \A x \in ready : ~GaveUp(x)
          /\ \A x \in skips : GaveUp(x)
      BY DEF IInv, BufferInv
    <3>2. \A x \in ready \union skips : x \in Nat
      BY <1>2
    <3>3. QED
      BY <1>2, <1>3, <3>1, <3>2
  <2>3. ASSUME NEW x \in Heights
        PROVE  /\ stage[x] # "idle" => x < nextHeight
               /\ stage[x] = "fetching" => n <= x /\ ~InQueue(x)' /\ ~GaveUp(x)'
               /\ InQueue(x)' =>
                    /\ x # h /\ stage[x] \in {"idle", "ending"}
                    /\ n <= x /\ x < nextHeight
                    /\ attempts'[x] \in 1..MaxBlockRetries
               /\ attempts'[x] <= MaxBlockRetries + 1
               /\ x >= nextHeight => attempts'[x] = 0
    <3>1. /\ stage[x] # "idle" => x < nextHeight
          /\ stage[x] = "fetching" =>
               nextToFlush <= x /\ ~InQueue(x) /\ ~GaveUp(x)
          /\ InQueue(x) =>
               /\ stage[x] \in {"idle", "ending"}
               /\ nextToFlush <= x /\ x < nextHeight
               /\ attempts[x] \in 1..MaxBlockRetries
          /\ attempts[x] <= MaxBlockRetries + 1
          /\ x >= nextHeight => attempts[x] = 0
      BY DEF IInv, WorkInv
    <3>2. x \in Nat /\ (stage[x] = "fetching" \/ InQueue(x) => x # nextToFlush)
      BY <1>2, <1>5
    <3>3. InQueue(x) => x # h
      BY <1>1, <3>1
    <3>4. QED
      BY <1>1, <1>2, <1>3, <3>1, <3>2, <3>3
  <2>4. ASSUME NEW x \in Heights, n <= x, x < nextHeight
        PROVE  \/ x # h /\ stage[x] = "fetching"
               \/ InQueue(x)' \/ x \in ready \/ x \in skips
    <3>1. x \in Nat /\ nextToFlush <= x /\ x # nextToFlush
      BY <1>2, <2>4
    <3>2. \/ stage[x] = "fetching" \/ InQueue(x)
          \/ x \in ready \/ x \in skips
      BY <2>4, <3>1 DEF IInv, CoverInv
    <3>3. QED
      BY <1>1, <1>3, <3>2
  <2>5. \A i, j \in 1..Len(retryQueue') : retryQueue'[i] = retryQueue'[j] => i = j
    BY <1>1 DEF IInv, WorkInv
  <2>6. OutputOrdered /\ \A i \in 1..Len(out) : out[i] < n
    <3>1. OutputOrdered /\ \A i \in 1..Len(out) : out[i] <= nextToFlush
      BY DEF IInv, OutInv
    <3>2. \A i \in 1..Len(out) : out[i] \in Nat
      BY <1>2, ElementOfSeq DEF TypeOK
    <3>3. QED
      BY <1>2, <3>1, <3>2
  <2>7. ASSUME NEW x \in rangeFrom..(n - 1)
        PROVE  Wrote(x) <=> ~GaveUp(x)'
    <3>1. CASE x = nextToFlush
      BY <1>3, <1>4, <1>5, <3>1 DEF IInv, OutInv
    <3>2. CASE x # nextToFlush
      <4>1. x \in rangeFrom..(nextToFlush - 1)
        BY <1>2, <3>2
      <4>2. QED
        BY <1>3, <4>1 DEF IInv, OutInv, PassedOrGivenUp
    <3>3. QED
      BY <3>1, <3>2
  <2>8. QED
    BY <1>5, <2>1, <2>2, <2>3, <2>4, <2>5, <2>6, <2>7 DEF FreePre
<1>7. QED
  BY <1>1, <1>2, <1>6, FlushFree

(* A rejected write only ends the process.                                 *)
LEMMA WriteFailsKeepsIInv ==
  ASSUME TypeOK, IInv, NEW h \in Heights, WriteFails(h)
  PROVE  IInv'
<1>1. UNCHANGED <<rangeFrom, rangeTo, stage, writing, ready, skips, attempts,
                  retryQueue, nextHeight, nextToFlush, processed, out>>
  BY DEF WriteFails
<1>2. QED
  BY <1>1, SameIInv

(***************************************************************************)
(* The invariant holds in every state, and with it the safety properties.  *)
(***************************************************************************)

(* The inductive invariant is one.                                         *)
THEOREM Invariant == Spec => []IInv
<1>1. Init => IInv
  BY InitIInv
<1>2. ASSUME TypeOK, TypeOK', IInv, [Next]_vars PROVE IInv'
  <2>1. CASE UNCHANGED vars
    BY <1>2, <2>1, SameIInv DEF vars
  <2>2. CASE MaybeSpawn
    BY <1>2, <2>2, MaybeSpawnKeepsIInv
  <2>3. ASSUME NEW h \in Heights, FetchSucceeds(h) PROVE IInv'
    BY <1>2, <2>3, FetchSucceedsKeepsIInv
  <2>4. ASSUME NEW h \in Heights, FetchFails(h) PROVE IInv'
    BY <1>2, <2>4, FetchFailsKeepsIInv
  <2>5. ASSUME NEW h \in Heights, WriteReturns(h) PROVE IInv'
    BY <1>2, <2>5, WriteReturnsKeepsIInv
  <2>6. ASSUME NEW h \in Heights, WriteFails(h) PROVE IInv'
    BY <1>2, <2>6, WriteFailsKeepsIInv
  <2>7. ASSUME NEW h \in Heights, Finally(h) PROVE IInv'
    BY <1>2, <2>7, FinallyKeepsIInv
  <2>8. QED
    BY <1>2, <2>1, <2>2, <2>3, <2>4, <2>5, <2>6, <2>7 DEF Next
<1>3. QED
  BY <1>1, <1>2, TypeCorrect, PTL DEF Spec

(* At most one write of the sink is outstanding, and it is that of         *)
(* nextToFlush, although tryFlush is re-entered at every await.            *)
THEOREM SingleWriterHolds == Spec => []SingleWriter
<1>1. IInv => SingleWriter
  BY DEF IInv, WriterInv, SingleWriter
<1>2. QED
  BY <1>1, Invariant, PTL

(* The sink gets strictly increasing heights.                              *)
THEOREM OutputOrderedHolds == Spec => []OutputOrdered
<1>1. IInv => OutputOrdered
  BY DEF IInv, OutInv
<1>2. QED
  BY <1>1, Invariant, PTL

(* No height the cursor has passed is forgotten, and the returned count is *)
(* the number of heights passed.                                           *)
THEOREM PassedOrGivenUpHolds == Spec => []PassedOrGivenUp
<1>1. IInv => PassedOrGivenUp
  BY DEF IInv, OutInv
<1>2. QED
  BY <1>1, Invariant, PTL

(* Retries are bounded: a height fails at most MaxBlockRetries + 1 times   *)
(* and is queued at most once at a time.                                   *)
THEOREM RetriesBoundedHolds == Spec => []RetriesBounded
<1>1. IInv => RetriesBounded
  BY DEF IInv, WorkInv, BufferInv, RetriesBounded
<1>2. QED
  BY <1>1, Invariant, PTL

------------------------------------------------------------------------------
(* Where each height is, how the slots are counted, and what holds when    *)
(* the promise resolves or does not.                                       *)

(* Whose block is being written.                                           *)
LEMMA WrittenIsCursor ==
  ASSUME TypeOK, IInv, NEW h \in Heights
  PROVE  BeingWritten(h) <=> AnyWriter /\ h = nextToFlush
<1>1. h \in Nat /\ NoHeight # h
  BY DEF Heights, TypeOK, NoHeight
<1>2. \A g \in Heights :
        writing[g] = IF stage[g] = "writing" THEN nextToFlush ELSE NoHeight
  BY DEF IInv, WriterInv
<1>3. QED
  BY <1>1, <1>2 DEF BeingWritten, AnyWriter

(* Every height is in exactly one place: the buffer, the markers, the      *)
(* retry queue, a slot, the write under way, before or behind.             *)
THEOREM EachHeightInOnePlaceHolds == Spec => []EachHeightInOnePlace
<1>1. ASSUME TypeOK, IInv, NEW h \in Heights
      PROVE  \E p \in PlaceNames : Places(h) = {p}
  <2>1. /\ h \in Nat /\ nextToFlush \in Nat /\ nextHeight \in Nat
        /\ nextToFlush <= nextHeight
        /\ BeingWritten(h) <=> AnyWriter /\ h = nextToFlush
    BY <1>1, WrittenIsCursor DEF Heights, TypeOK, IInv, BufferInv
  <2>2. /\ h \in ready \union skips =>
             /\ nextToFlush < h /\ h < nextHeight
             /\ stage[h] # "fetching" /\ ~InQueue(h)
        /\ ~(h \in ready /\ h \in skips)
    BY <1>1 DEF IInv, BufferInv
  <2>3. /\ stage[h] = "fetching" =>
             nextToFlush <= h /\ h < nextHeight /\ ~InQueue(h)
        /\ InQueue(h) => nextToFlush <= h /\ h < nextHeight
    BY <1>1 DEF IInv, WorkInv
  <2>4. AnyWriter =>
          /\ nextToFlush < nextHeight
          /\ stage[nextToFlush] # "fetching" /\ ~InQueue(nextToFlush)
    BY <1>1 DEF IInv, WriterInv
  <2>5. nextToFlush <= h /\ h < nextHeight =>
          \/ stage[h] = "fetching" \/ InQueue(h)
          \/ h \in ready \/ h \in skips
          \/ AnyWriter /\ h = nextToFlush
    BY <1>1 DEF IInv, CoverInv
  <2> DEFINE fresh == h >= nextHeight
             fetching == stage[h] = "fetching"
             queued == InQueue(h)
             buffered == h \in ready
             marked == h \in skips
             written == BeingWritten(h)
             passed == h < nextToFlush
  <2>6. /\ fresh \/ fetching \/ queued \/ buffered \/ marked \/ written \/ passed
        /\ fresh => ~(fetching \/ queued \/ buffered \/ marked \/ written \/ passed)
        /\ fetching => ~(queued \/ buffered \/ marked \/ written \/ passed)
        /\ queued => ~(buffered \/ marked \/ written \/ passed)
        /\ buffered => ~(marked \/ written \/ passed)
        /\ marked => ~(written \/ passed)
        /\ written => ~passed
    BY <2>1, <2>2, <2>3, <2>4, <2>5
  <2>7. Places(h) =
          {p \in PlaceNames :
             \/ p = "fresh" /\ fresh
             \/ p = "fetching" /\ fetching
             \/ p = "queued" /\ queued
             \/ p = "buffered" /\ buffered
             \/ p = "marked" /\ marked
             \/ p = "written" /\ written
             \/ p = "passed" /\ passed}
    BY DEF Places
  <2> HIDE DEF fresh, fetching, queued, buffered, marked, written, passed
  <2>8. /\ fresh => Places(h) = {"fresh"}
        /\ fetching => Places(h) = {"fetching"}
        /\ queued => Places(h) = {"queued"}
        /\ buffered => Places(h) = {"buffered"}
        /\ marked => Places(h) = {"marked"}
        /\ written => Places(h) = {"written"}
        /\ passed => Places(h) = {"passed"}
    BY <2>6, <2>7 DEF PlaceNames
  <2>9. QED
    BY <2>6, <2>8 DEF PlaceNames
<1>2. TypeOK /\ IInv => EachHeightInOnePlace
  BY <1>1 DEF EachHeightInOnePlace
<1>3. QED
  BY <1>2, TypeCorrect, Invariant, PTL

------------------------------------------------------------------------------
(* The calls of processHeight that have not run their finally callback.    *)
Active == {h \in Heights : stage[h] # "idle"}

LEMMA ActiveFinite ==
  ASSUME TypeOK
  PROVE  IsFiniteSet(Active) /\ Cardinality(Active) \in Nat
<1>1. IsFiniteSet(Heights)
  BY FS_Interval DEF TypeOK, Heights
<1>2. Active \in SUBSET Heights
  BY DEF Active
<1>3. QED
  BY <1>1, <1>2, FS_Subset, FS_CardinalityType

(* tryFlush leaves the call that runs it writing or about to end.          *)
LEMMA TryFlushStage ==
  ASSUME NEW h \in Heights, NEW n, NEW rdy, NEW sk, TryFlush(h, n, rdy, sk)
  PROVE  \/ stage' = [stage EXCEPT ![h] = "writing"]
         \/ stage' = [stage EXCEPT ![h] = "ending"]
BY DEF TryFlush

(* A step of a call other than its finally callback keeps it active.       *)
LEMMA CallStaysActive ==
  ASSUME TypeOK, NEW h \in Heights, stage[h] # "idle", Heights' = Heights,
         \/ stage' = [stage EXCEPT ![h] = "writing"]
         \/ stage' = [stage EXCEPT ![h] = "ending"]
  PROVE  Active' = Active
BY DEF Active, TypeOK

(* The queued heights maybeSpawn takes are different heights, and there    *)
(* are RetrySpawns of them.                                                *)
LEMMA RetriedCount ==
  ASSUME TypeOK, WorkInv
  PROVE  LET Retried == {retryQueue[i] : i \in 1..RetrySpawns}
         IN  /\ IsFiniteSet(Retried)
             /\ Cardinality(Retried) = RetrySpawns
             /\ \A x \in Retried : x \in Heights /\ InQueue(x)
<1> DEFINE r == RetrySpawns
           Retried == {retryQueue[i] : i \in 1..r}
           f == [i \in 1..r |-> retryQueue[i]]
<1>1. r \in 0..Len(retryQueue) /\ Len(retryQueue) \in Nat
  BY SpawnCounts, LenProperties DEF TypeOK
<1>2. \A x \in Retried : x \in Heights /\ InQueue(x)
  BY <1>1, ElementOfSeq DEF TypeOK, InQueue
<1>3. \A i, j \in 1..r : retryQueue[i] = retryQueue[j] => i = j
  BY <1>1 DEF WorkInv
<1> HIDE DEF r
<1>4. f \in Surjection(1..r, Retried)
  BY DEF Surjection
<1>5. f \in Injection(1..r, Retried)
  BY <1>3 DEF Injection, IsInjective
<1>6. IsFiniteSet(1..r) /\ Cardinality(1..r) = r
  BY <1>1, FS_Interval
<1>7. IsFiniteSet(Retried) /\ Cardinality(Retried) = r
  <2> HIDE DEF f, Retried
  <2>1. QED
    BY <1>4, <1>5, <1>6, FS_Surjection
<1>8. QED
  BY <1>2, <1>7 DEF r

(* maybeSpawn starts idle heights only, as many as it counts.              *)
LEMMA SpawnedCount ==
  ASSUME TypeOK, IInv, MaybeSpawn
  PROVE  /\ Spawned \subseteq Heights
         /\ \A x \in Spawned : stage[x] = "idle"
         /\ IsFiniteSet(Spawned)
         /\ Cardinality(Spawned) = RetrySpawns + FreshSpawns
<1> DEFINE Retried == {retryQueue[i] : i \in 1..RetrySpawns}
           Fresh == nextHeight..(nextHeight + FreshSpawns - 1)
<1>1. /\ IsFiniteSet(Retried)
      /\ Cardinality(Retried) = RetrySpawns
      /\ \A x \in Retried : x \in Heights /\ InQueue(x)
  BY RetriedCount DEF IInv
<1>2. /\ FreshSpawns \in Nat /\ RetrySpawns \in Nat /\ nextHeight \in Nat
      /\ FreshSpawns > 0 => nextHeight + FreshSpawns <= rangeTo + 1
      /\ rangeFrom \in Nat /\ rangeTo \in Nat /\ nextToFlush \in Nat
      /\ rangeFrom <= nextToFlush /\ nextToFlush <= nextHeight
  BY SpawnCounts, LenProperties DEF TypeOK, IInv, BufferInv
<1>3. \A x \in Fresh : x \in Heights /\ x >= nextHeight
  BY <1>2 DEF Heights
<1>4. IsFiniteSet(Fresh) /\ Cardinality(Fresh) = FreshSpawns
  <2>1. nextHeight \in Int /\ nextHeight + FreshSpawns - 1 \in Int
    BY <1>2
  <2>2. QED
    BY <1>2, <2>1, FS_Interval
<1>5. \A x \in Heights : InQueue(x) => stage[x] \in {"idle", "ending"} /\ x < nextHeight
  BY DEF IInv, WorkInv
<1>6. \A x \in Heights : x >= nextHeight => stage[x] = "idle"
  <2>1. \A x \in Heights : stage[x] # "idle" => x < nextHeight
    BY DEF IInv, WorkInv
  <2>2. Heights \subseteq Int
    BY DEF Heights
  <2>3. QED
    BY <1>2, <2>1, <2>2
<1>7. \A x \in Heights : stage[x] # "ending"
  BY DEF MaybeSpawn
<1>8. Retried \intersect Fresh = {}
  <2>1. Heights \subseteq Int
    BY DEF Heights
  <2>2. QED
    BY <1>1, <1>2, <1>3, <1>5, <2>1
<1>9. Spawned = Retried \union Fresh
  BY DEF Spawned
<1>10. \A x \in Spawned : x \in Heights /\ stage[x] = "idle"
  BY <1>1, <1>3, <1>5, <1>6, <1>7, <1>9
<1>11. IsFiniteSet(Spawned) /\ Cardinality(Spawned) = RetrySpawns + FreshSpawns
  <2> HIDE DEF Retried, Fresh
  <2>1. IsFiniteSet(Spawned) /\ Cardinality(Spawned) =
          Cardinality(Retried) + Cardinality(Fresh) - Cardinality(Retried \intersect Fresh)
    BY <1>1, <1>4, <1>9, FS_Union
  <2>2. Cardinality(Retried \intersect Fresh) = 0
    BY <1>8, FS_EmptySet
  <2>3. QED
    BY <1>1, <1>2, <1>4, <2>1, <2>2
<1>12. QED
  BY <1>10, <1>11

(* inFlight counts the active calls, and never exceeds the concurrency.    *)
LEMMA NextKeepsSlots ==
  ASSUME TypeOK, IInv, SlotsAccounted, [Next]_vars
  PROVE  SlotsAccounted'
<1>1. /\ inFlight = Cardinality(Active) /\ IsFiniteSet(Active)
      /\ inFlight <= Concurrency
      /\ inFlight \in Int /\ Concurrency \in Int
  <2>1. inFlight \in Int /\ Concurrency \in Int
    <3>1. inFlight \in Int
      BY DEF TypeOK
    <3>2. QED
      BY <3>1, ConcurrencyAssumption
  <2>2. inFlight = Cardinality(Active) /\ inFlight <= Concurrency
    BY DEF SlotsAccounted, Active
  <2>3. QED
    BY <2>1, <2>2, ActiveFinite
<1>2. SUFFICES inFlight' = Cardinality(Active') /\ inFlight' <= Concurrency
  BY DEF Active, SlotsAccounted
<1>3. CASE UNCHANGED vars
  <2>1. Active' = Active
    BY <1>3 DEF vars, Active, Heights
  <2>2. QED
    BY <1>1, <1>3, <2>1 DEF vars
<1>4. CASE MaybeSpawn
  <2>1. /\ Spawned \subseteq Heights
        /\ \A x \in Spawned : stage[x] = "idle"
        /\ IsFiniteSet(Spawned)
        /\ Cardinality(Spawned) = RetrySpawns + FreshSpawns
    BY <1>4, SpawnedCount
  <2>2. Active' = Active \union Spawned /\ Active \intersect Spawned = {}
    BY <1>4, <2>1 DEF MaybeSpawn, Active, Heights
  <2>3. /\ RetrySpawns + FreshSpawns \in Nat
        /\ RetrySpawns + FreshSpawns <= FreeSlots
        /\ FreeSlots \in Nat
        /\ inFlight \in Int
    BY SpawnCounts, LenProperties DEF TypeOK
  <2>4. Cardinality(Active') = inFlight + (RetrySpawns + FreshSpawns)
    <3>1. Cardinality(Active') =
            Cardinality(Active) + Cardinality(Spawned) - Cardinality(Active \intersect Spawned)
      BY <1>1, <2>1, <2>2, FS_Union
    <3>2. Cardinality(Active \intersect Spawned) = 0
      BY <2>2, FS_EmptySet
    <3>3. QED
      BY <1>1, <2>1, <2>3, <3>1, <3>2
  <2>5. inFlight' = inFlight + (RetrySpawns + FreshSpawns)
    <3>1. RetrySpawns \in Nat /\ FreshSpawns \in Nat
      BY SpawnCounts, LenProperties DEF TypeOK
    <3>2. QED
      BY <1>4, <2>3, <3>1 DEF MaybeSpawn
  <2>6. inFlight + (RetrySpawns + FreshSpawns) <= Concurrency
    <3>1. FreeSlots <= Concurrency - inFlight
      BY <1>1 DEF FreeSlots
    <3>2. QED
      BY <1>1, <2>3, <3>1
  <2>7. QED
    BY <2>4, <2>5, <2>6
<1>5. ASSUME NEW h \in Heights,
             FetchSucceeds(h) \/ FetchFails(h) \/ WriteReturns(h) \/ WriteFails(h)
      PROVE  inFlight' = Cardinality(Active') /\ inFlight' <= Concurrency
  <2>1. inFlight' = inFlight /\ Heights' = Heights /\ stage[h] # "idle"
    BY <1>5 DEF FetchSucceeds, FetchFails, WriteReturns, WriteFails, Heights
  <2>2. \/ stage' = stage
        \/ stage' = [stage EXCEPT ![h] = "writing"]
        \/ stage' = [stage EXCEPT ![h] = "ending"]
    BY <1>5, TryFlushStage DEF FetchSucceeds, FetchFails, WriteReturns, WriteFails
  <2>3. Active' = Active
    BY <2>1, <2>2, CallStaysActive DEF Active
  <2>4. QED
    BY <1>1, <2>1, <2>3
<1>6. ASSUME NEW h \in Heights, Finally(h)
      PROVE  inFlight' = Cardinality(Active') /\ inFlight' <= Concurrency
  <2>1. h \in Active /\ Active' = Active \ {h} /\ inFlight' = inFlight - 1
    BY <1>6 DEF Finally, Active, Heights, TypeOK
  <2>2. Cardinality(Active') = Cardinality(Active) - 1
    BY <1>1, <2>1, FS_RemoveElement
  <2>3. QED
    BY <1>1, <2>1, <2>2
<1>7. QED
  BY <1>3, <1>4, <1>5, <1>6 DEF Next

THEOREM SlotsAccountedHolds == Spec => []SlotsAccounted
<1>1. Init => SlotsAccounted
  <2> SUFFICES ASSUME Init PROVE SlotsAccounted
    OBVIOUS
  <2>1. {h \in Heights : stage[h] # "idle"} = {}
    <3>1. \A h \in Heights : stage[h] = "idle"
      BY DEF Init
    <3>2. QED
      BY <3>1
  <2>2. inFlight = 0 /\ 0 <= Concurrency
    <3>1. inFlight = 0
      BY DEF Init
    <3>2. QED
      BY <3>1, ConcurrencyAssumption
  <2>3. QED
    BY <2>1, <2>2, FS_EmptySet DEF SlotsAccounted
<1>2. TypeOK /\ IInv /\ SlotsAccounted /\ [Next]_vars => SlotsAccounted'
  BY NextKeepsSlots
<1>3. QED
  BY <1>1, <1>2, TypeCorrect, Invariant, PTL DEF Spec

------------------------------------------------------------------------------
(* When the promise has resolved there was nothing left to start and no    *)
(* slot taken.                                                             *)
Quiet ==
  /\ rangeFrom <= rangeTo /\ nextHeight > rangeTo
  /\ retryQueue = << >> /\ inFlight = 0

LEMMA ReturnsQuiet == Spec => [](status = "returned" => Quiet)
<1> DEFINE J == status = "returned" => Quiet
<1>1. Init => J
  BY DEF Init
<1>2. TypeOK /\ J /\ [Next]_vars => J'
  <2> SUFFICES ASSUME TypeOK, J, [Next]_vars PROVE J'
    OBVIOUS
  <2>1. CASE UNCHANGED vars
    BY <2>1 DEF vars, Quiet
  <2>2. CASE MaybeSpawn
    BY <2>2 DEF MaybeSpawn
  <2>3. ASSUME NEW h \in Heights,
               FetchSucceeds(h) \/ FetchFails(h) \/ WriteReturns(h) \/ WriteFails(h)
        PROVE  J'
    BY <2>3 DEF FetchSucceeds, FetchFails, WriteReturns, WriteFails
  <2>4. ASSUME NEW h \in Heights, Finally(h) PROVE J'
    <3>1. rangeFrom <= rangeTo
      BY DEF Heights, TypeOK
    <3>2. status' = "returned" =>
            nextHeight > rangeTo /\ retryQueue = << >> /\ inFlight - 1 = 0
      BY <2>4 DEF Finally, AllDone
    <3>3. QED
      BY <2>4, <3>1, <3>2 DEF Finally, Quiet
  <2>5. QED
    BY <2>1, <2>2, <2>3, <2>4 DEF Next
<1>3. QED
  BY <1>1, <1>2, TypeCorrect, PTL DEF Spec

(* The promise resolves only when the whole range is passed: with nothing  *)
(* to start, queued or under way, the cursor is not waiting for anything,  *)
(* so it is at the end and nothing lies in the buffer beyond it.           *)
THEOREM CompleteOnReturnHolds == Spec => []CompleteOnReturn
<1>1. ASSUME TypeOK, IInv, SlotsAccounted, Quiet
      PROVE  /\ nextToFlush = rangeTo + 1
             /\ ready = {} /\ skips = {} /\ retryQueue = << >>
             /\ \A h \in Heights : stage[h] = "idle"
  <2>1. \A h \in Heights : stage[h] = "idle"
    <3>1. Cardinality(Active) = 0 /\ IsFiniteSet(Active)
      BY <1>1, ActiveFinite DEF Quiet, SlotsAccounted, Active
    <3>2. Active = {}
      BY <3>1, FS_EmptySet
    <3>3. QED
      BY <3>2 DEF Active
  <2>2. /\ rangeFrom \in Nat /\ rangeTo \in Nat /\ nextToFlush \in Nat
        /\ nextHeight \in Nat /\ nextHeight <= rangeTo + 1
        /\ rangeFrom <= nextToFlush /\ nextToFlush <= nextHeight
        /\ ready \subseteq Heights /\ skips \subseteq Heights
    BY <1>1 DEF TypeOK, SpawnsInRange, Quiet, IInv, BufferInv
  <2>3. nextToFlush > rangeTo
    <3> SUFFICES ASSUME nextToFlush <= rangeTo PROVE FALSE
      BY <2>2
    <3>1. nextToFlush \in Heights /\ nextToFlush < nextHeight
      BY <1>1, <2>2 DEF Heights, Quiet
    <3>2. nextToFlush \notin ready /\ nextToFlush \notin skips
      BY <1>1, <2>2 DEF IInv, BufferInv
    <3>3. ~InQueue(nextToFlush)
      BY <1>1, EmptySeq DEF Quiet, InQueue
    <3>4. ~AnyWriter /\ stage[nextToFlush] # "fetching"
      BY <2>1, <3>1 DEF AnyWriter
    <3>5. QED
      BY <1>1, <2>2, <3>1, <3>2, <3>3, <3>4 DEF IInv, CoverInv
  <2>4. \A x \in ready \union skips : FALSE
    <3>1. \A x \in ready \union skips : nextToFlush < x
      BY <1>1 DEF IInv, BufferInv
    <3>2. \A x \in Heights : x \in Int /\ x <= rangeTo
      BY <2>2 DEF Heights
    <3>3. QED
      BY <2>2, <2>3, <3>1, <3>2
  <2>5. QED
    BY <1>1, <2>1, <2>2, <2>3, <2>4 DEF Quiet
<1>2. TypeOK /\ IInv /\ SlotsAccounted /\ (status = "returned" => Quiet)
        => CompleteOnReturn
  BY <1>1 DEF CompleteOnReturn
<1>3. QED
  BY <1>2, TypeCorrect, Invariant, SlotsAccountedHolds, ReturnsQuiet, PTL

------------------------------------------------------------------------------
(* A call that is under way is counted.                                    *)
LEMMA ActiveCounted ==
  ASSUME TypeOK, SlotsAccounted, NEW h \in Heights, stage[h] # "idle"
  PROVE  inFlight \in Nat /\ inFlight > 0
<1>1. inFlight = Cardinality(Active) /\ h \in Active
  BY DEF SlotsAccounted, Active
<1>2. Cardinality(Active) # 0 /\ Cardinality(Active) \in Nat
  BY <1>1, ActiveFinite, FS_EmptySet
<1>3. QED
  BY <1>1, <1>2

(* With no slot taken and work left, maybeSpawn starts something.          *)
LEMMA SpawnsWhenIdle ==
  ASSUME TypeOK, inFlight = 0, retryQueue # << >> \/ nextHeight <= rangeTo
  PROVE  RetrySpawns + FreshSpawns > 0
<1>1. FreeSlots = Concurrency /\ Concurrency \in Nat /\ Concurrency > 0
  BY ConcurrencyAssumption DEF FreeSlots
<1>2. /\ Len(retryQueue) \in Nat
      /\ retryQueue # << >> => Len(retryQueue) > 0
  BY LenProperties, EmptySeq DEF TypeOK
<1>3. nextHeight \in Nat /\ rangeTo \in Nat
  BY DEF TypeOK
<1>4. RetrySpawns \in Nat /\ (Len(retryQueue) > 0 => RetrySpawns > 0)
  BY <1>1, <1>2 DEF RetrySpawns, LesserOf
<1>5. FreshSpawns \in Nat
  BY SpawnCounts
<1>6. nextHeight <= rangeTo /\ RetrySpawns = 0 => FreshSpawns > 0
  BY <1>1, <1>3 DEF FreshSpawns, FreshLeft, LesserOf
<1>7. QED
  BY <1>2, <1>4, <1>5, <1>6

(* The runner of a non-empty range never runs dry: until the promise is    *)
(* settled there is work left, and a call in flight or a scheduled         *)
(* maybeSpawn to pick it up.                                               *)
THEOREM NeverStallsHolds == Spec => []NeverStalls
<1>1. Init => NeverStalls
  <2> SUFFICES ASSUME Init PROVE NeverStalls
    OBVIOUS
  <2>1. wakeups = 1 /\ nextHeight = rangeFrom
    BY DEF Init
  <2>2. QED
    BY <2>1 DEF NeverStalls
<1>2. TypeOK /\ IInv /\ SlotsAccounted /\ NeverStalls /\ [Next]_vars => NeverStalls'
  <2> SUFFICES ASSUME TypeOK, IInv, SlotsAccounted, NeverStalls, [Next]_vars,
                      status' = "running", rangeFrom' <= rangeTo'
               PROVE  /\ inFlight' > 0 \/ wakeups' > 0
                      /\ inFlight' > 0 \/ retryQueue' # << >> \/ nextHeight' <= rangeTo'
    BY DEF NeverStalls
  <2>1. CASE UNCHANGED vars
    BY <2>1 DEF vars, NeverStalls
  <2>2. CASE MaybeSpawn
    <3>1. /\ RetrySpawns \in Nat /\ FreshSpawns \in Nat
          /\ inFlight \in Nat
      <4>1. inFlight = Cardinality(Active)
        BY DEF SlotsAccounted, Active
      <4>2. QED
        BY <4>1, ActiveFinite, SpawnCounts, LenProperties DEF TypeOK
    <3>2. inFlight = 0 => RetrySpawns + FreshSpawns > 0
      BY <2>2, SpawnsWhenIdle DEF NeverStalls, MaybeSpawn
    <3>3. inFlight' = inFlight + RetrySpawns + FreshSpawns
      BY <2>2 DEF MaybeSpawn
    <3>4. QED
      BY <3>1, <3>2, <3>3
  <2>3. ASSUME NEW h \in Heights,
               FetchSucceeds(h) \/ FetchFails(h) \/ WriteReturns(h) \/ WriteFails(h)
        PROVE  inFlight' > 0
    <3>1. stage[h] # "idle" /\ inFlight' = inFlight
      BY <2>3 DEF FetchSucceeds, FetchFails, WriteReturns, WriteFails
    <3>2. QED
      BY <3>1, ActiveCounted
  <2>4. ASSUME NEW h \in Heights, Finally(h)
        PROVE  /\ wakeups' > 0
               /\ inFlight' > 0 \/ retryQueue' # << >> \/ nextHeight' <= rangeTo'
    <3>1. /\ stage[h] # "idle" /\ ~AllDone
          /\ wakeups' = wakeups + 1 /\ inFlight' = inFlight - 1
          /\ UNCHANGED <<rangeTo, retryQueue, nextHeight>>
      BY <2>4 DEF Finally
    <3>2. inFlight \in Nat /\ inFlight > 0
      BY <3>1, ActiveCounted
    <3>3. wakeups \in Nat /\ nextHeight \in Nat /\ rangeTo \in Nat
      BY DEF TypeOK
    <3>4. QED
      BY <3>1, <3>2, <3>3 DEF AllDone
  <2>5. QED
    BY <2>1, <2>2, <2>3, <2>4 DEF Next
<1>3. QED
  BY <1>1, <1>2, TypeCorrect, Invariant, SlotsAccountedHolds, PTL DEF Spec

------------------------------------------------------------------------------
(* SyncRange implements OrderedFeed: each step of the runner is a step of  *)
(* the feed, or none, under the mapping of SyncRangeFeed.                  *)

PassedGivenUp == {h \in Heights : h < nextToFlush /\ GaveUp(h)}

(* The steps the feed does not see.                                        *)
LEMMA FeedStutters ==
  ASSUME UNCHANGED <<rangeFrom, rangeTo, nextToFlush, status, out>>,
         AnyWriter' <=> AnyWriter, PassedGivenUp' = PassedGivenUp
  PROVE  UNCHANGED Feed!feedVars
<1>1. AnyWriter' = AnyWriter
  BY DEF AnyWriter
<1>2. QED
  BY <1>1 DEF Feed!feedVars, PassedGivenUp

(* tryFlush run by the only call that may write is the feed's Advance.     *)
LEMMA FlushAdvances ==
  ASSUME TypeOK, NEW h \in Heights, NEW n \in Nat,
         NEW rdy \in SUBSET Heights, NEW sk \in SUBSET Heights,
         n = IF AnyWriter THEN nextToFlush + 1 ELSE nextToFlush,
         TryFlush(h, n, rdy, sk),
         status = "running", UNCHANGED <<rangeFrom, rangeTo, status>>,
         \A g \in Heights : g # h => stage[g] # "writing",
         \A x \in Heights : x < nextToFlush => (GaveUp(x)' <=> GaveUp(x)),
         \A x \in Heights : AnyWriter /\ x = nextToFlush => ~GaveUp(x)',
         \A x \in sk : GaveUp(x)'
  PROVE  Feed!Advance
<1>1. PICK m \in n..(rangeTo + 1) :
        /\ n..(m - 1) \subseteq sk
        /\ nextToFlush' = m
        /\ IF m \in rdy
             THEN /\ stage' = [stage EXCEPT ![h] = "writing"]
                  /\ out' = Append(out, m)
             ELSE /\ stage' = [stage EXCEPT ![h] = "ending"]
                  /\ out' = out
  BY DEF TryFlush
<1>2. /\ Heights' = Heights /\ Heights \subseteq Nat
      /\ nextToFlush \in Nat /\ m \in Nat /\ rangeTo \in Nat
      /\ nextToFlush <= n /\ n <= m /\ m <= rangeTo + 1
  BY <1>1 DEF Heights, TypeOK
<1>3. AnyWriter' <=> m \in rdy
  <2>1. \A g \in Heights : g # h => stage'[g] # "writing"
    BY <1>1 DEF TypeOK
  <2>2. stage'[h] = "writing" <=> m \in rdy
    BY <1>1 DEF TypeOK
  <2>3. QED
    BY <1>2, <2>1, <2>2 DEF AnyWriter
<1>4. m \in rdy => m <= rangeTo
  BY <1>2 DEF Heights
<1>5. PassedGivenUp' = PassedGivenUp \union (n..(m - 1))
  <2>1. ASSUME NEW x \in Heights
        PROVE  x < m /\ GaveUp(x)' <=> (x < nextToFlush /\ GaveUp(x)) \/ x \in n..(m - 1)
    <3>1. CASE x < nextToFlush
      BY <1>2, <2>1, <3>1
    <3>2. CASE x >= n
      BY <1>1, <1>2, <2>1, <3>2
    <3>3. CASE x >= nextToFlush /\ x < n
      <4>1. AnyWriter /\ x = nextToFlush
        BY <1>2, <2>1, <3>3
      <4>2. QED
        BY <1>2, <4>1, <3>3
    <3>4. QED
      BY <1>2, <3>1, <3>2, <3>3
  <2>2. n..(m - 1) \subseteq Heights
    BY <1>1
  <2>3. QED
    BY <1>1, <1>2, <2>1, <2>2 DEF PassedGivenUp
<1>6. AnyWriter' = (m \in rdy)
  <2>1. AnyWriter' \in BOOLEAN
    BY DEF AnyWriter
  <2>2. QED
    BY <1>3, <2>1
<1>7. out' = IF m \in rdy THEN Append(out, m) ELSE out
  BY <1>1
<1>8. n = IF AnyWriter THEN nextToFlush + 1 ELSE nextToFlush
  OBVIOUS
<1> DEFINE starts == m \in rdy
<1>9. /\ starts \in BOOLEAN
      /\ starts => m <= rangeTo
      /\ nextToFlush' = m
      /\ PassedGivenUp' = PassedGivenUp \union (n..(m - 1))
      /\ AnyWriter' = starts
      /\ out' = IF starts THEN Append(out, m) ELSE out
  BY <1>1, <1>4, <1>5, <1>6, <1>7
<1> HIDE DEF starts
<1>10. \E k \in n..(rangeTo + 1), s \in BOOLEAN :
         /\ s => k <= rangeTo
         /\ nextToFlush' = k
         /\ PassedGivenUp' = PassedGivenUp \union (n..(k - 1))
         /\ AnyWriter' = s
         /\ out' = IF s THEN Append(out, k) ELSE out
  BY <1>1, <1>9
<1>11. QED
  BY <1>8, <1>10 DEF Feed!Advance, PassedGivenUp

(* The first state.                                                        *)
LEMMA FeedStarts == Init => Feed!FeedInit
<1> SUFFICES ASSUME Init PROVE Feed!FeedInit
  OBVIOUS
<1>1. PICK r \in Ranges : rangeFrom = r[1] /\ rangeTo = r[2]
  BY DEF Init
<1>2. rangeFrom \in Nat /\ rangeTo \in Nat
  BY <1>1, RangesAssumption
<1>3. AnyWriter = FALSE
  BY DEF Init, AnyWriter
<1>4. PassedGivenUp = {}
  BY <1>2 DEF Init, PassedGivenUp, Heights
<1>5. QED
  BY <1>2, <1>3, <1>4 DEF Init, Feed!FeedInit, Feed!FeedStart, PassedGivenUp

(* A height under way is at or above the cursor; so what a failing fetch   *)
(* counts is behind nobody.                                                *)
LEMMA NewsAhead ==
  ASSUME TypeOK, IInv, NEW h \in Heights, stage[h] = "fetching",
         \A x \in Heights : x # h => attempts'[x] = attempts[x]
  PROVE  \A x \in Heights : x < nextToFlush => (GaveUp(x)' <=> GaveUp(x))
<1>1. nextToFlush <= h
  BY DEF IInv, WorkInv
<1>2. h \in Nat /\ nextToFlush \in Nat /\ Heights \subseteq Nat
  BY DEF Heights, TypeOK
<1>3. QED
  BY <1>1, <1>2 DEF GaveUp

(* A fetch that ends with nobody writing runs the feed's loop; while a     *)
(* write is under way it finds nothing at the cursor.                      *)
LEMMA FetchEndIsFeedStep ==
  ASSUME TypeOK, IInv, NEW h \in Heights,
         stage[h] = "fetching", status = "running",
         NEW rdy \in SUBSET Heights, NEW sk \in SUBSET Heights,
         TryFlush(h, nextToFlush, rdy, sk),
         UNCHANGED <<rangeFrom, rangeTo, status>>,
         AnyWriter => nextToFlush \notin rdy /\ nextToFlush \notin sk,
         \A x \in Heights : x # h => attempts'[x] = attempts[x],
         \A x \in sk : GaveUp(x)'
  PROVE  Feed!Advance \/ UNCHANGED Feed!feedVars
<1>1. nextToFlush \in Nat /\ Heights' = Heights /\ Heights \subseteq Nat
  BY DEF TypeOK, Heights
<1>2. \A x \in Heights : x < nextToFlush => (GaveUp(x)' <=> GaveUp(x))
  BY NewsAhead
<1>3. CASE AnyWriter
  <2>1. /\ nextToFlush' = nextToFlush
        /\ stage' = [stage EXCEPT ![h] = "ending"]
        /\ out' = out
    BY <1>1, <1>3, FlushNothing
  <2>2. AnyWriter' <=> AnyWriter
    BY <1>1, <2>1 DEF AnyWriter, TypeOK
  <2>3. PassedGivenUp' = PassedGivenUp
    BY <1>1, <1>2, <2>1 DEF PassedGivenUp
  <2>4. QED
    BY <2>1, <2>2, <2>3, FeedStutters
<1>4. CASE ~AnyWriter
  <2>1. \A g \in Heights : stage[g] # "writing"
    BY <1>4 DEF AnyWriter
  <2>2. nextToFlush = IF AnyWriter THEN nextToFlush + 1 ELSE nextToFlush
    BY <1>4
  <2>3. \A x \in Heights : AnyWriter /\ x = nextToFlush => ~GaveUp(x)'
    BY <1>4
  <2>4. QED
    BY <1>1, <1>2, <2>1, <2>2, <2>3, FlushAdvances
<1>5. QED
  BY <1>3, <1>4

(* Every step of the runner is a step of the feed, or none.                *)
LEMMA StepIsFeedStep ==
  ASSUME TypeOK, TypeOK', IInv, CompleteOnReturn', [Next]_vars
  PROVE  [Feed!FeedNext]_(Feed!feedVars)
<1>1. CASE UNCHANGED vars
  <2>1. PassedGivenUp' = PassedGivenUp /\ (AnyWriter' <=> AnyWriter)
    BY <1>1 DEF vars, PassedGivenUp, AnyWriter, Heights, GaveUp
  <2>2. QED
    BY <1>1, <2>1, FeedStutters DEF vars
<1>2. CASE MaybeSpawn
  <2>1. /\ UNCHANGED <<rangeFrom, rangeTo, nextToFlush, status, out, attempts>>
        /\ Heights' = Heights
        /\ \A x \in Heights : stage'[x] = IF x \in Spawned THEN "fetching" ELSE stage[x]
    BY <1>2 DEF MaybeSpawn, Heights
  <2>2. \A x \in Spawned : stage[x] = "idle"
    BY <1>2, SpawnedCount
  <2>3. AnyWriter' <=> AnyWriter
    BY <2>1, <2>2 DEF AnyWriter
  <2>4. PassedGivenUp' = PassedGivenUp
    BY <2>1 DEF PassedGivenUp, GaveUp
  <2>5. QED
    BY <2>1, <2>3, <2>4, FeedStutters
<1>3. ASSUME NEW h \in Heights, FetchSucceeds(h)
      PROVE  Feed!Advance \/ UNCHANGED Feed!feedVars
  <2>1. /\ stage[h] = "fetching" /\ status = "running"
        /\ TryFlush(h, nextToFlush, ready \union {h}, skips)
        /\ UNCHANGED <<rangeFrom, rangeTo, status, attempts>>
    BY <1>3 DEF FetchSucceeds
  <2>2. ready \union {h} \in SUBSET Heights /\ skips \in SUBSET Heights
    BY DEF TypeOK
  <2>3. AnyWriter => nextToFlush \notin ready \union {h} /\ nextToFlush \notin skips
    <3>1. nextToFlush \notin ready /\ nextToFlush \notin skips
      BY DEF IInv, BufferInv, TypeOK
    <3>2. AnyWriter => nextToFlush # h
      BY <2>1 DEF IInv, WriterInv
    <3>3. QED
      BY <3>1, <3>2
  <2>4. \A x \in skips : GaveUp(x)'
    BY <2>1 DEF IInv, BufferInv, GaveUp
  <2>5. QED
    BY <2>1, <2>2, <2>3, <2>4, FetchEndIsFeedStep
<1>4. ASSUME NEW h \in Heights, FetchFails(h)
      PROVE  Feed!Advance \/ UNCHANGED Feed!feedVars
  <2>1. /\ stage[h] = "fetching" /\ status = "running"
        /\ UNCHANGED <<rangeFrom, rangeTo, status>>
        /\ attempts' = [attempts EXCEPT ![h] = @ + 1]
    BY <1>4 DEF FetchFails
  <2>2. /\ \A x \in Heights : x # h => attempts'[x] = attempts[x]
        /\ attempts'[h] = attempts[h] + 1
        /\ ready \in SUBSET Heights /\ skips \in SUBSET Heights
        /\ attempts[h] \in Nat
    BY <2>1 DEF TypeOK
  <2>3. PICK sk \in SUBSET Heights :
          /\ TryFlush(h, nextToFlush, ready, sk)
          /\ sk = skips \/ (sk = skips \union {h} /\ ~RetryAllowed(h))
    BY <1>4, <2>2 DEF FetchFails
  <2>4. nextToFlush \notin ready /\ nextToFlush \notin skips
    BY DEF IInv, BufferInv, TypeOK
  <2>5. AnyWriter => nextToFlush # h
    BY <2>1 DEF IInv, WriterInv
  <2>6. ~RetryAllowed(h) => GaveUp(h)'
    BY <2>1, <2>2, RetriesAssumption DEF RetryAllowed, GaveUp
  <2>7. \A x \in skips : GaveUp(x)'
    <3>1. \A x \in skips : x \in Heights /\ GaveUp(x) /\ x # h
      BY <2>1, <2>2 DEF IInv, BufferInv
    <3>2. QED
      BY <2>2, <3>1 DEF GaveUp
  <2>8. QED
    BY <2>1, <2>2, <2>3, <2>4, <2>5, <2>6, <2>7, FetchEndIsFeedStep
<1>5. ASSUME NEW h \in Heights, WriteReturns(h)
      PROVE  Feed!Advance
  <2>1. /\ stage[h] = "writing" /\ status = "running"
        /\ TryFlush(h, nextToFlush + 1, ready, skips)
        /\ UNCHANGED <<rangeFrom, rangeTo, status, attempts>>
        /\ Heights' = Heights
    BY <1>5 DEF WriteReturns, Heights
  <2>2. AnyWriter /\ \A g \in Heights : g # h => stage[g] # "writing"
    BY <2>1 DEF AnyWriter, IInv, WriterInv
  <2>3. /\ nextToFlush + 1 \in Nat
        /\ ready \in SUBSET Heights /\ skips \in SUBSET Heights
        /\ nextToFlush + 1 = IF AnyWriter THEN nextToFlush + 1 ELSE nextToFlush
    BY <2>2 DEF TypeOK
  <2>4. \A x \in Heights : GaveUp(x)' <=> GaveUp(x)
    BY <2>1 DEF GaveUp
  <2>5. \A x \in Heights : AnyWriter /\ x = nextToFlush => ~GaveUp(x)'
    BY <2>2, <2>4 DEF IInv, WriterInv
  <2>6. \A x \in skips : GaveUp(x)'
    BY <2>3, <2>4 DEF IInv, BufferInv
  <2>7. QED
    BY <2>1, <2>2, <2>3, <2>4, <2>5, <2>6, FlushAdvances
<1>6. ASSUME NEW h \in Heights, WriteFails(h)
      PROVE  Feed!Crash
  <2>1. /\ stage[h] = "writing" /\ status = "running" /\ status' = "crashed"
        /\ UNCHANGED <<rangeFrom, rangeTo, stage, attempts, nextToFlush, out>>
        /\ Heights' = Heights
    BY <1>6 DEF WriteFails, Heights
  <2>2. AnyWriter /\ AnyWriter' = AnyWriter
    BY <2>1 DEF AnyWriter
  <2>3. PassedGivenUp' = PassedGivenUp
    BY <2>1 DEF PassedGivenUp, GaveUp
  <2>4. QED
    BY <2>1, <2>2, <2>3 DEF Feed!Crash, PassedGivenUp
<1>7. ASSUME NEW h \in Heights, Finally(h)
      PROVE  Feed!Return \/ UNCHANGED Feed!feedVars
  <2>1. /\ stage[h] = "ending" /\ status = "running"
        /\ status' = "returned" \/ status' = status
        /\ UNCHANGED <<rangeFrom, rangeTo, attempts, nextToFlush, out>>
        /\ stage' = [stage EXCEPT ![h] = "idle"]
        /\ Heights' = Heights
    BY <1>7 DEF Finally, Heights
  <2>2. AnyWriter' <=> AnyWriter
    BY <2>1 DEF AnyWriter, TypeOK
  <2>3. PassedGivenUp' = PassedGivenUp
    BY <2>1 DEF PassedGivenUp, GaveUp
  <2>4. CASE status' = status
    BY <2>1, <2>2, <2>3, <2>4, FeedStutters
  <2>5. CASE status' = "returned"
    <3>1. nextToFlush = rangeTo + 1 /\ \A x \in Heights : stage'[x] = "idle"
      BY <2>1, <2>5 DEF CompleteOnReturn
    <3>2. ~AnyWriter /\ AnyWriter' = AnyWriter
      BY <2>1, <2>2, <3>1 DEF AnyWriter
    <3>3. rangeFrom <= rangeTo
      BY DEF Heights, TypeOK
    <3>4. QED
      BY <2>1, <2>3, <2>5, <3>1, <3>2, <3>3 DEF Feed!Return, PassedGivenUp
  <2>6. QED
    BY <2>1, <2>4, <2>5
<1>8. QED
  BY <1>1, <1>2, <1>3, <1>4, <1>5, <1>6, <1>7 DEF Next, Feed!FeedNext

(* The runner implements the ordered feed the program is built on: in      *)
(* order, one delivery at a time, nothing passed that was neither          *)
(* delivered nor given up, and no return before the end.                   *)
THEOREM ImplementsFeedHolds == Spec => ImplementsFeed
<1>1. Init => Feed!FeedInit
  BY FeedStarts
<1>2. TypeOK /\ TypeOK' /\ IInv /\ CompleteOnReturn' /\ [Next]_vars
        => [Feed!FeedNext]_(Feed!feedVars)
  BY StepIsFeedStep
<1>3. QED
  BY <1>1, <1>2, TypeCorrect, Invariant, CompleteOnReturnHolds, PTL
     DEF Spec, ImplementsFeed, Feed!FeedSpec
==============================================================================
