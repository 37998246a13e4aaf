--------------------------- MODULE RpcClientProofs ----------------------------
(***************************************************************************)
(* Proofs about RpcClient, for every number of calls, rate, number of      *)
(* retries, timeout and backoff, and however finely a second is divided.   *)
(***************************************************************************)
EXTENDS RpcClient, FiniteSetTheorems, TLAPS

USE RateAssumption, RetryAssumption

(* A positive amount divided and rounded up is enough.                     *)
LEMMA CeilDivEnough ==
  ASSUME NEW a \in Nat, NEW b \in Nat \ {0}
  PROVE  CeilDiv(a, b) \in Nat /\ CeilDiv(a, b) * b >= a
<1>1. ((a + b - 1) \div b) * b >= a
  OBVIOUS
<1>2. a + b - 1 \in Nat
  OBVIOUS
<1>3. (a + b - 1) \div b \in Nat
  BY <1>2
<1>4. QED
  BY <1>1, <1>3 DEF CeilDiv

LEMMA PowerIsNatural ==
  ASSUME NEW n \in Nat PROVE 2^n \in Nat
<1>1. IsFiniteSet(1..n) /\ Cardinality(1..n) = n
  BY FS_Interval
<1>2. IsFiniteSet(SUBSET (1..n)) /\ Cardinality(SUBSET (1..n)) = 2^n
  BY <1>1, FS_SUBSET
<1>3. QED
  BY <1>2, FS_CardinalityType

(* The bucket holds more than a token, and fills up in FullAfter ticks.    *)
LEMMA BucketSize ==
  /\ Capacity \in Nat /\ Capacity >= Second
  /\ FullAfter \in Nat /\ FullAfter * Rps >= Capacity
<1>1. GreaterOf(1, Rps * 2) \in Nat \ {0}
  BY DEF GreaterOf
<1>2. Capacity \in Nat /\ Capacity >= Second
  <2> DEFINE k == GreaterOf(1, Rps * 2)
  <2> HIDE DEF k
  <2>1. k * Second \in Nat /\ k * Second >= Second
    <3>1. k \in Nat /\ k >= 1 /\ Second \in Nat
      BY <1>1 DEF k
    <3>2. QED
      BY <3>1
  <2>2. QED
    BY <2>1 DEF Capacity, k
<1>3. QED
  BY <1>2, CeilDivEnough DEF FullAfter

LEMMA RefillBounds ==
  ASSUME TypeOK
  PROVE  /\ Refilled \in 0..Capacity
         /\ LeftAfterWait \in 0..Capacity
         /\ Refilled >= Second => LeftAfterWait = Refilled - Second
         /\ Refilled < Second => WaitFor(Second - Refilled) \in Nat
                                 /\ WaitFor(Second - Refilled) * Rps >= Second - Refilled
<1>1. tokens \in 0..Capacity /\ elapsed \in Nat
  BY BucketSize DEF TypeOK
<1>2. elapsed * Rps \in Nat
  BY <1>1
<1>3. Refilled \in 0..Capacity
  BY <1>1, <1>2, BucketSize DEF Refilled, LesserOf
<1>4. /\ LeftAfterWait \in 0..Capacity
      /\ Refilled >= Second => LeftAfterWait = Refilled - Second
  BY <1>3, BucketSize DEF LeftAfterWait, GreaterOf
<1>5. ASSUME Refilled < Second
      PROVE  /\ WaitFor(Second - Refilled) \in Nat
             /\ WaitFor(Second - Refilled) * Rps >= Second - Refilled
  <2> DEFINE d == Second - Refilled
             w == CeilDiv(d, Rps)
  <2>1. d \in Nat
    BY <1>3, <1>5, BucketSize
  <2>2. w \in Nat /\ w * Rps >= d
    BY <2>1, CeilDivEnough
  <2>3. WaitFor(d) \in Nat /\ WaitFor(d) >= w
    BY <2>2 DEF WaitFor, GreaterOf
  <2>4. WaitFor(d) * Rps >= w * Rps
    BY <2>2, <2>3
  <2>5. QED
    <3> HIDE DEF d, w
    <3>1. WaitFor(d) * Rps \in Nat /\ w * Rps \in Nat
      BY <2>2, <2>3
    <3>2. QED
      BY <2>1, <2>2, <2>3, <2>4, <3>1 DEF d
<1>6. QED
  BY <1>3, <1>4, <1>5

(***************************************************************************)
(* Type correctness, with the count of attempts it needs.                  *)
(***************************************************************************)
CallState ==
  [phase : Phases, timer : Nat, attempt : 0..Retries, transient : BOOLEAN]
CallOK == call \in [Calls -> CallState]
BucketOK ==
  /\ tokens \in 0..Capacity /\ elapsed \in 0..FullAfter
  /\ recent \in [0..Second -> Nat] /\ overlapped \in BOOLEAN
UsedBy(r) ==
  /\ r.phase = "threw" /\ r.transient => r.attempt = Retries
  /\ r.phase = "sleeping" => r.transient /\ r.attempt < Retries
TryInv == TypeOK /\ RetriesUsed

LEMMA TryInvParts ==
  TryInv <=> BucketOK /\ CallOK /\ \A c \in Calls : UsedBy(call[c])
BY DEF TryInv, TypeOK, BucketOK, CallOK, CallState, RetriesUsed, UsedBy

LEMMA TryInvPartsNext ==
  TryInv' <=> BucketOK' /\ CallOK' /\ \A c \in Calls : UsedBy(call'[c])
BY DEF TryInv, TypeOK, BucketOK, CallOK, CallState, RetriesUsed, UsedBy

(* Steps that change the state of one call.                                *)
LEMMA OneCallKeeps ==
  ASSUME TryInv, NEW c \in Calls, NEW r \in CallState, UsedBy(r),
         call' = [call EXCEPT ![c] = r], BucketOK'
  PROVE  TryInv'
<1>1. CallOK /\ \A d \in Calls : UsedBy(call[d])
  BY TryInvParts
<1>2. CallOK' /\ \A d \in Calls : call'[d] = IF d = c THEN r ELSE call[d]
  BY <1>1 DEF CallOK
<1>3. \A d \in Calls : UsedBy(call'[d])
  BY <1>1, <1>2
<1>4. QED
  BY <1>2, <1>3, TryInvPartsNext

(* The backoff is never negative, whatever the jitter.                     *)
LEMMA DelaysAreNatural ==
  ASSUME NEW n \in Nat PROVE Delays(n) \subseteq Nat
<1> DEFINE base == Backoff * 2^n
           delta == (base * Jitter) \div 100
<1>1. base \in Nat
  BY PowerIsNatural
<1>2. delta \in 0..base
  <2> HIDE DEF base
  <2>1. base * Jitter \in Nat /\ base * Jitter <= base * 100 /\ (base * 100) \div 100 = base
    BY <1>1
  <2>2. QED
    BY <1>1, <2>1
<1>3. Delays(n) = (base - delta)..(base + delta)
  BY DEF Delays
<1>4. QED
  <2> HIDE DEF base, delta
  <2>1. QED
    BY <1>1, <1>2, <1>3

LEMMA TakeKeeps ==
  ASSUME TryInv, NEW c \in Calls, NEW n \in 0..Retries, Take(c, n)
  PROVE  TryInv'
<1>1. /\ Refilled \in 0..Capacity
      /\ Refilled < Second => WaitFor(Second - Refilled) \in Nat
  BY RefillBounds DEF TryInv
<1>2. BucketOK'
  <2>1. BucketOK
    BY TryInvParts
  <2>2. tokens' \in 0..Capacity /\ elapsed' = 0 /\ overlapped' \in BOOLEAN
    BY <1>1, <2>1, BucketSize DEF Take, BucketOK
  <2>3. recent' \in [0..Second -> Nat]
    BY <2>1 DEF Take, Granted, BucketOK
  <2>4. QED
    BY <2>2, <2>3, BucketSize DEF BucketOK
<1>3. PICK p \in {"fetching", "waiting"}, t \in Nat :
        call' = [call EXCEPT ![c] = [phase |-> p, timer |-> t, attempt |-> n,
                                     transient |-> FALSE]]
  BY <1>1 DEF Take, Granted
<1>4. [phase |-> p, timer |-> t, attempt |-> n, transient |-> FALSE] \in CallState
  BY DEF CallState, Phases
<1>5. UsedBy([phase |-> p, timer |-> t, attempt |-> n, transient |-> FALSE])
  BY DEF UsedBy
<1>6. QED
  BY <1>2, <1>3, <1>4, <1>5, OneCallKeeps

(* Steps that leave the bucket alone and the call in the same attempt.     *)
LEMMA MoveKeeps ==
  ASSUME TryInv, NEW c \in Calls, NEW p \in Phases, NEW d \in Nat, NEW tr \in BOOLEAN,
         MovesTo(c, p, d, tr), UNCHANGED bucketVars,
         p = "sleeping" => tr /\ call[c].attempt < Retries,
         p = "threw" /\ tr => call[c].attempt = Retries
  PROVE  TryInv'
<1> DEFINE r == [phase |-> p, timer |-> d, attempt |-> call[c].attempt, transient |-> tr]
<1>1. CallOK /\ BucketOK
  BY TryInvParts
<1>2. BucketOK'
  BY <1>1 DEF BucketOK, bucketVars
<1>3. call[c] \in CallState
  BY <1>1 DEF CallOK
<1>4. r \in CallState /\ UsedBy(r)
  BY <1>3 DEF CallState, UsedBy
<1>5. call' = [call EXCEPT ![c] = r]
  <2>1. call' = [[[call EXCEPT ![c].phase = p] EXCEPT ![c].timer = d]
                   EXCEPT ![c].transient = tr]
    BY DEF MovesTo
  <2>2. call' \in [Calls -> CallState] /\ \A e \in Calls : e # c => call'[e] = call[e]
    <3>1. call \in [Calls -> CallState]
      BY <1>1 DEF CallOK
    <3>2. /\ call' = [call EXCEPT ![c] = call'[c]]
          /\ call'[c] = [[[call[c] EXCEPT !.phase = p] EXCEPT !.timer = d]
                            EXCEPT !.transient = tr]
      BY <2>1, <3>1
    <3>3. call'[c] \in CallState
      BY <1>3, <3>2 DEF CallState
    <3>4. QED
      BY <3>1, <3>2, <3>3
  <2>3. call'[c] = r
    BY <1>1, <1>3, <2>1 DEF CallOK, CallState
  <2>4. QED
    BY <1>1, <2>2, <2>3 DEF CallOK
<1>6. QED
  <2> HIDE DEF r
  <2>1. QED
    BY <1>2, <1>4, <1>5, OneCallKeeps

LEMMA AttemptFailsKeeps ==
  ASSUME TryInv, NEW c \in Calls, NEW transient \in BOOLEAN,
         AttemptFails(c, transient), UNCHANGED bucketVars
  PROVE  TryInv'
<1>1. call[c].attempt \in 0..Retries
  BY DEF TryInv, TypeOK
<1>2. CASE transient /\ RetriesLeft(c)
  <2>1. PICK d \in Delays(call[c].attempt) : MovesTo(c, "sleeping", d, TRUE)
    BY <1>2 DEF AttemptFails
  <2>2. d \in Nat
    BY <1>1, DelaysAreNatural
  <2>3. QED
    BY <1>2, <2>1, <2>2, MoveKeeps DEF RetriesLeft, Phases
<1>3. CASE ~(transient /\ RetriesLeft(c))
  <2>1. MovesTo(c, "threw", 0, transient)
    BY <1>3 DEF AttemptFails
  <2>2. transient => call[c].attempt = Retries
    BY <1>1, <1>3 DEF RetriesLeft
  <2>3. QED
    BY <2>1, <2>2, MoveKeeps DEF Phases
<1>4. QED
  BY <1>2, <1>3

LEMMA TickKeeps ==
  ASSUME TryInv, Tick
  PROVE  TryInv'
<1>1. CallOK /\ BucketOK /\ \A c \in Calls : UsedBy(call[c])
  BY TryInvParts
<1>2. BucketOK'
  <2>1. FullAfter \in Nat /\ elapsed \in 0..FullAfter /\ recent \in [0..Second -> Nat]
    BY <1>1, BucketSize DEF BucketOK
  <2>2. elapsed' \in 0..FullAfter
    BY <2>1 DEF Tick, LesserOf
  <2>3. \A t \in 0..Second : t # 0 => t - 1 \in 0..Second
    OBVIOUS
  <2>4. recent' \in [0..Second -> Nat]
    BY <2>1, <2>3 DEF Tick
  <2>5. QED
    BY <1>1, <2>2, <2>4, BucketSize DEF BucketOK, Tick
<1>3. ASSUME NEW c \in Calls
      PROVE  call'[c] \in CallState /\ UsedBy(call'[c])
  <2>1. call[c] \in CallState /\ UsedBy(call[c])
    BY <1>1 DEF CallOK
  <2>2. PICK t \in Nat : call'[c] = [call[c] EXCEPT !.timer = t]
    <3>1. call'[c] = [call[c] EXCEPT !.timer = GreaterOf(0, call[c].timer - 1)]
      BY DEF Tick
    <3>2. GreaterOf(0, call[c].timer - 1) \in Nat
      BY <2>1 DEF CallState, GreaterOf
    <3>3. QED
      BY <3>1, <3>2
  <2>3. QED
    BY <2>1, <2>2 DEF CallState, UsedBy
<1>4. CallOK'
  BY <1>3 DEF CallOK, Tick
<1>5. QED
  BY <1>2, <1>3, <1>4, TryInvPartsNext

LEMMA NextKeepsTryInv == TryInv /\ [Next]_vars => TryInv'
<1> SUFFICES ASSUME TryInv, [Next]_vars PROVE TryInv'
  OBVIOUS
<1>1. CASE UNCHANGED vars
  BY <1>1 DEF TryInv, TypeOK, RetriesUsed, vars
<1>2. CASE Tick
  BY <1>2, TickKeeps
<1>3. ASSUME NEW c \in Calls, Start(c) PROVE TryInv'
  BY <1>3, TakeKeeps DEF Start
<1>4. ASSUME NEW c \in Calls, WaitEnds(c) PROVE TryInv'
  <2>1. LeftAfterWait \in 0..Capacity
    BY RefillBounds DEF TryInv
  <2>2. TypeOK'
    BY <1>4, <2>1, BucketSize DEF TryInv, TypeOK, WaitEnds, Granted, Phases
  <2>3. RetriesUsed'
    BY <1>4 DEF TryInv, TypeOK, RetriesUsed, WaitEnds, Granted
  <2>4. QED
    BY <2>2, <2>3 DEF TryInv
<1>5. ASSUME NEW c \in Calls, SleepEnds(c) PROVE TryInv'
  <2>1. call[c].attempt + 1 \in 0..Retries
    BY <1>5 DEF TryInv, TypeOK, RetriesUsed, SleepEnds
  <2>2. QED
    BY <1>5, <2>1, TakeKeeps DEF SleepEnds
<1>6. ASSUME NEW c \in Calls, HeadersArrive(c) \/ BodyArrives(c) PROVE TryInv'
  <2>1. PICK p \in {"reading", "refused", "returned"} : MovesTo(c, p, 0, FALSE)
    BY <1>6 DEF HeadersArrive, BodyArrives
  <2>2. UNCHANGED bucketVars
    BY <1>6 DEF HeadersArrive, BodyArrives
  <2>3. QED
    BY <2>1, <2>2, MoveKeeps DEF Phases
<1>7. ASSUME NEW c \in Calls, Aborts(c) \/ FetchFails(c) \/ BodyFails(c) \/ RefusalRead(c)
      PROVE  TryInv'
  <2>1. UNCHANGED bucketVars /\ \E transient \in BOOLEAN : AttemptFails(c, transient)
    BY <1>7 DEF Aborts, FetchFails, BodyFails, RefusalRead
  <2>2. QED
    BY <2>1, AttemptFailsKeeps
<1>8. QED
  BY <1>1, <1>2, <1>3, <1>4, <1>5, <1>6, <1>7 DEF Next, TimerFires, NodeAnswers

LEMMA InitTryInv == Init => TryInv
<1> SUFFICES ASSUME Init PROVE TryInv
  OBVIOUS
<1>1. BucketOK
  <2>1. recent \in [0..Second -> Nat]
    BY DEF Init
  <2>2. tokens \in 0..Capacity /\ elapsed \in 0..FullAfter
    BY BucketSize DEF Init
  <2>3. QED
    BY <2>1, <2>2 DEF Init, BucketOK
<1>2. CallOK /\ \A c \in Calls : UsedBy(call[c])
  BY DEF Init, CallOK, CallState, Phases, UsedBy
<1>3. QED
  BY <1>1, <1>2, TryInvParts

LEMMA TryInvariant == Spec => []TryInv
BY InitTryInv, NextKeepsTryInv, PTL DEF Spec

(* The bucket is never in debt and never over its capacity, and no call    *)
(* makes more attempts than its retries allow.                             *)
THEOREM TypeCorrect == Spec => []TypeOK
<1>1. TryInv => TypeOK
  BY DEF TryInv
<1>2. QED
  BY <1>1, TryInvariant, PTL

(* A failure worth retrying is thrown from the last attempt only.          *)
THEOREM RetriesUsedHolds == Spec => []RetriesUsed
<1>1. TryInv => RetriesUsed
  BY DEF TryInv
<1>2. QED
  BY <1>1, TryInvariant, PTL

(***************************************************************************)
(* The rate of calls that never wait together.                             *)
(***************************************************************************)

(* Until calls wait together at most one waits, and by the time its timer  *)
(* has run down the bucket holds its token.                                *)
Waits(c) == call[c].phase = "waiting"
OneWaits == \A c, d \in Calls : Waits(c) /\ Waits(d) => c = d
TokenComes ==
  \A c \in Calls : Waits(c) => Refilled + call[c].timer * Rps >= Second

(* What was granted and what the bucket holds together never exceed a full *)
(* bucket and its refill.                                                  *)
WithinBudget ==
  \A t \in 0..Second : recent[t] * Second + Refilled <= Capacity + Rps * t

RateInv == TryInv /\ (~overlapped => OneWaits /\ TokenComes /\ WithinBudget)

(* A token is taken out of a bucket that holds one.                        *)
LEMMA GrantInBudget ==
  ASSUME TryInv, WithinBudget, Refilled >= Second,
         tokens' = Refilled - Second, elapsed' = 0,
         recent' = [t \in 0..Second |-> recent[t] + 1]
  PROVE  WithinBudget' /\ Refilled' = Refilled - Second
<1>1. Refilled \in 0..Capacity /\ Capacity \in Nat /\ Second \in Nat
  BY RefillBounds, BucketSize DEF TryInv
<1>2. Refilled' = Refilled - Second
  BY <1>1 DEF Refilled, LesserOf
<1>3. ASSUME NEW t \in 0..Second
      PROVE  recent'[t] * Second + Refilled' <= Capacity + Rps * t
  <2>1. recent[t] \in Nat /\ recent'[t] = recent[t] + 1 /\ Rps * t \in Nat
    BY DEF TryInv, TypeOK
  <2>2. (recent[t] + 1) * Second = recent[t] * Second + Second /\ recent[t] * Second \in Nat
    BY <2>1
  <2>3. recent[t] * Second + Refilled <= Capacity + Rps * t
    BY DEF WithinBudget
  <2>4. QED
    BY <1>1, <1>2, <2>1, <2>2, <2>3
<1>4. QED
  BY <1>2, <1>3 DEF WithinBudget

(* take(1), called while nobody waits.                                     *)
LEMMA TakeKeepsRate ==
  ASSUME RateInv, TryInv', NEW c \in Calls, NEW n \in 0..Retries, ~Waits(c), Take(c, n)
  PROVE  RateInv'
<1> SUFFICES ASSUME ~overlapped' PROVE OneWaits' /\ TokenComes' /\ WithinBudget'
  BY DEF RateInv
<1>1. ~overlapped /\ \A d \in Calls : ~Waits(d)
  BY DEF Take, Waits
<1>2. WithinBudget /\ TryInv
  BY <1>1 DEF RateInv
<1>3. CallOK /\ Refilled \in 0..Capacity /\ Capacity \in Nat /\ Rps \in Nat
  BY <1>2, RefillBounds, BucketSize, TryInvParts DEF TryInv
<1>4. CASE Refilled >= Second /\ tokens' = Refilled - Second /\ Granted(c, n)
  <2>1. WithinBudget'
    BY <1>2, <1>4, GrantInBudget DEF Take, Granted
  <2>2. \A d \in Calls : ~Waits(d)'
    BY <1>1, <1>3, <1>4 DEF Granted, Waits, CallOK
  <2>3. QED
    BY <2>1, <2>2 DEF OneWaits, TokenComes
<1>5. CASE /\ Refilled < Second /\ tokens' = Refilled /\ recent' = recent
           /\ call' = [call EXCEPT ![c] = [phase |-> "waiting",
                         timer |-> WaitFor(Second - Refilled),
                         attempt |-> n, transient |-> FALSE]]
  <2>1. Refilled' = Refilled
    BY <1>3, <1>5 DEF Take, Refilled, LesserOf
  <2>2. WithinBudget'
    BY <1>2, <1>5, <2>1 DEF WithinBudget
  <2>3. \A d \in Calls : (Waits(d)' <=> d = c)
    BY <1>1, <1>3, <1>5 DEF Waits, CallOK
  <2>4. call'[c].timer = WaitFor(Second - Refilled)
    BY <1>3, <1>5 DEF CallOK
  <2>5. WaitFor(Second - Refilled) * Rps >= Second - Refilled
        /\ WaitFor(Second - Refilled) \in Nat
    BY <1>2, <1>5, RefillBounds DEF TryInv
  <2>6. Refilled' + call'[c].timer * Rps >= Second
    <3>1. WaitFor(Second - Refilled) * Rps \in Nat
      BY <2>5
    <3>2. QED
      BY <1>3, <2>1, <2>4, <2>5, <3>1
  <2>7. QED
    BY <2>2, <2>3, <2>6 DEF OneWaits, TokenComes
<1>6. QED
  BY <1>4, <1>5 DEF Take

(* The wait ends: the token is there, whoever else has taken before.       *)
LEMMA WaitEndsKeepsRate ==
  ASSUME RateInv, TryInv', NEW c \in Calls, WaitEnds(c)
  PROVE  RateInv'
<1> SUFFICES ASSUME ~overlapped' PROVE OneWaits' /\ TokenComes' /\ WithinBudget'
  BY DEF RateInv
<1>1. /\ ~overlapped /\ Waits(c) /\ call[c].timer = 0 /\ elapsed' = 0
      /\ tokens' = LeftAfterWait /\ Granted(c, call[c].attempt)
  BY DEF WaitEnds, Waits
<1>2. OneWaits /\ TokenComes /\ WithinBudget /\ TryInv /\ CallOK
  BY <1>1, TryInvParts DEF RateInv
<1>3. Refilled >= Second
  <2>1. Refilled + call[c].timer * Rps >= Second
    BY <1>1, <1>2 DEF TokenComes
  <2>2. Refilled \in Int /\ call[c].timer * Rps = 0
    BY <1>1, <1>2, RefillBounds DEF TryInv
  <2>3. QED
    BY <2>1, <2>2
<1>4. tokens' = Refilled - Second
  BY <1>1, <1>2, <1>3, RefillBounds DEF TryInv
<1>5. WithinBudget'
  BY <1>1, <1>2, <1>3, <1>4, GrantInBudget DEF Granted
<1>6. \A d \in Calls : ~Waits(d)'
  BY <1>1, <1>2 DEF Granted, Waits, CallOK, OneWaits
<1>7. QED
  BY <1>5, <1>6 DEF OneWaits, TokenComes

(* A tick adds what Rps tokens a second make in a tick, up to a full bucket.*)
LEMMA TickRefills ==
  ASSUME TryInv, Tick
  PROVE  /\ Refilled \in Int /\ Refilled' \in Int
         /\ Refilled' <= Capacity /\ Refilled' <= Refilled + Rps
         /\ Refilled' >= Refilled
         /\ Refilled' >= Refilled + Rps \/ Refilled' = Capacity
<1>1. /\ tokens \in 0..Capacity /\ elapsed \in 0..FullAfter /\ tokens' = tokens
      /\ elapsed' = IF elapsed + 1 <= FullAfter THEN elapsed + 1 ELSE FullAfter
  BY DEF TryInv, TypeOK, Tick, LesserOf
<1>2. /\ Capacity \in Nat /\ FullAfter \in Nat /\ FullAfter * Rps >= Capacity
      /\ elapsed \in Nat /\ Rps \in Nat
  BY <1>1, BucketSize
<1>3. (elapsed + 1) * Rps = elapsed * Rps + Rps /\ elapsed * Rps \in Nat
  BY <1>2
<1>4. CASE elapsed + 1 <= FullAfter
  BY <1>1, <1>2, <1>3, <1>4 DEF Refilled, LesserOf
<1>5. CASE ~(elapsed + 1 <= FullAfter)
  <2>1. elapsed = FullAfter /\ elapsed' = FullAfter
    BY <1>1, <1>2, <1>5
  <2>2. Refilled = Capacity /\ Refilled' = Capacity
    BY <1>1, <1>2, <1>3, <2>1 DEF Refilled, LesserOf
  <2>3. QED
    BY <1>2, <2>2
<1>6. QED
  BY <1>4, <1>5

LEMMA TickKeepsRate ==
  ASSUME RateInv, TryInv', Tick
  PROVE  RateInv'
<1> SUFFICES ASSUME ~overlapped' PROVE OneWaits' /\ TokenComes' /\ WithinBudget'
  BY DEF RateInv
<1>1. OneWaits /\ TokenComes /\ WithinBudget /\ TryInv /\ CallOK
  BY TryInvParts DEF RateInv, Tick
<1>2. /\ Refilled \in Int /\ Refilled' \in Int
      /\ Refilled' <= Capacity /\ Refilled' <= Refilled + Rps
      /\ Refilled' >= Refilled
      /\ Refilled' >= Refilled + Rps \/ Refilled' = Capacity
  BY <1>1, TickRefills
<1>3. ASSUME NEW c \in Calls
      PROVE  /\ Waits(c)' <=> Waits(c)
             /\ call[c].timer \in Nat
             /\ call'[c].timer = IF call[c].timer = 0 THEN 0 ELSE call[c].timer - 1
  <2>1. call[c] \in CallState /\ call'[c] = [call[c] EXCEPT !.timer = GreaterOf(0, @ - 1)]
    BY <1>1 DEF CallOK, Tick
  <2>2. QED
    BY <2>1 DEF CallState, GreaterOf, Waits
<1>4. OneWaits'
  BY <1>1, <1>3 DEF OneWaits
<1>5. ASSUME NEW c \in Calls, Waits(c)
      PROVE  Refilled' + call'[c].timer * Rps >= Second
  <2> DEFINE k == call[c].timer
  <2>1. Refilled + k * Rps >= Second /\ k \in Nat
    BY <1>1, <1>3, <1>5 DEF TokenComes
  <2>2. call'[c].timer = IF k = 0 THEN 0 ELSE k - 1
    BY <1>3
  <2> HIDE DEF k
  <2>3. Capacity >= Second /\ Capacity \in Nat /\ Second \in Nat /\ Rps \in Nat
    BY BucketSize
  <2>4. CASE k = 0
    <3>1. k * Rps = 0 /\ call'[c].timer * Rps = 0
      BY <2>2, <2>4
    <3>2. QED
      BY <1>2, <2>1, <2>3, <3>1
  <2>5. CASE k # 0
    <3>1. (k - 1) * Rps = k * Rps - Rps /\ (k - 1) * Rps \in Nat /\ k * Rps \in Nat
      BY <2>1, <2>5
    <3>2. call'[c].timer * Rps = k * Rps - Rps
      BY <2>2, <2>5, <3>1
    <3>3. QED
      BY <1>2, <2>1, <2>3, <3>1, <3>2
  <2>6. QED
    BY <2>4, <2>5
<1>6. TokenComes'
  BY <1>3, <1>5 DEF TokenComes
<1>7. ASSUME NEW t \in 0..Second
      PROVE  recent'[t] * Second + Refilled' <= Capacity + Rps * t
  <2>1. recent'[t] = IF t = 0 THEN 0 ELSE recent[t - 1]
    BY DEF Tick
  <2>2. CASE t = 0
    <3>1. recent'[t] * Second = 0 /\ Rps * t = 0
      BY <2>1, <2>2
    <3>2. QED
      BY <1>2, <3>1, BucketSize
  <2>3. CASE t # 0
    <3>1. t - 1 \in 0..Second
      BY <2>3
    <3>2. recent[t - 1] * Second + Refilled <= Capacity + Rps * (t - 1)
      BY <1>1, <3>1 DEF WithinBudget
    <3>3. Rps * (t - 1) = Rps * t - Rps /\ Rps * t \in Nat
      BY <3>1
    <3>4. recent[t - 1] * Second \in Nat
      BY <1>1, <3>1 DEF TryInv, TypeOK
    <3>5. QED
      BY <1>2, <2>1, <2>3, <3>2, <3>3, <3>4, BucketSize
  <2>4. QED
    BY <2>2, <2>3
<1>8. QED
  BY <1>4, <1>6, <1>7 DEF WithinBudget

(* Every other step leaves the bucket and the waiting calls alone.         *)
LEMMA MoveKeepsRate ==
  ASSUME RateInv, TryInv', UNCHANGED bucketVars, NEW c \in Calls,
         NEW p \in Phases \ {"waiting"}, NEW d, NEW tr, MovesTo(c, p, d, tr)
  PROVE  RateInv'
<1>1. CallOK
  BY TryInvParts DEF RateInv
<1>2. Refilled' = Refilled
  BY DEF bucketVars, Refilled, LesserOf
<1>3. \A e \in Calls : e # c => call'[e] = call[e]
  BY <1>1 DEF MovesTo, CallOK
<1>4. ~Waits(c)'
  BY <1>1 DEF MovesTo, CallOK, CallState, Waits
<1>5. QED
  BY <1>2, <1>3, <1>4
     DEF RateInv, OneWaits, TokenComes, WithinBudget, Waits, bucketVars

LEMMA NextKeepsRate == RateInv /\ TryInv' /\ [Next]_vars => RateInv'
<1> SUFFICES ASSUME RateInv, TryInv', [Next]_vars PROVE RateInv'
  OBVIOUS
<1>1. CASE UNCHANGED vars
  BY <1>1 DEF RateInv, TryInv, OneWaits, TokenComes, WithinBudget, Waits, Refilled, LesserOf, vars
<1>2. CASE Tick
  BY <1>2, TickKeepsRate
<1>3. ASSUME NEW c \in Calls, Start(c) PROVE RateInv'
  BY <1>3, TakeKeepsRate DEF Start, Waits
<1>4. ASSUME NEW c \in Calls, WaitEnds(c) PROVE RateInv'
  BY <1>4, WaitEndsKeepsRate
<1>5. ASSUME NEW c \in Calls, SleepEnds(c) PROVE RateInv'
  <2>1. call[c].attempt + 1 \in 0..Retries
    <3>1. call[c].attempt \in 0..Retries
      BY DEF RateInv, TryInv, TypeOK
    <3>2. call[c].attempt < Retries
      BY <1>5 DEF RateInv, TryInv, RetriesUsed, SleepEnds
    <3>3. QED
      BY <3>1, <3>2
  <2>2. QED
    BY <1>5, <2>1, TakeKeepsRate DEF SleepEnds, Waits
<1>6. ASSUME NEW c \in Calls, NodeAnswers(c) \/ Aborts(c) PROVE RateInv'
  <2>1. /\ UNCHANGED bucketVars
        /\ \E p \in Phases \ {"waiting"} : \E d, tr : MovesTo(c, p, d, tr)
    BY <1>6 DEF NodeAnswers, HeadersArrive, FetchFails, BodyArrives, BodyFails, RefusalRead,
       Aborts, AttemptFails, Phases
  <2>2. QED
    BY <2>1, MoveKeepsRate
<1>7. QED
  BY <1>1, <1>2, <1>3, <1>4, <1>5, <1>6 DEF Next, TimerFires

(* In any stretch of up to a second, calls that never waited together are  *)
(* granted no more requests than a full bucket and its refill allow: the   *)
(* throttling of ratelimit.ts is exact until two callers wait at once.     *)
THEOREM RateKeptAloneHolds == Spec => []RateKeptAlone
<1>1. Init => RateInv
  <2> SUFFICES ASSUME Init PROVE RateInv
    OBVIOUS
  <2>1. TryInv /\ \A c \in Calls : ~Waits(c)
    BY InitTryInv DEF Init, Waits
  <2>2. Refilled = Capacity
    BY BucketSize DEF Init, Refilled, LesserOf
  <2>3. WithinBudget
    <3>1. \A t \in 0..Second : recent[t] * Second = 0 /\ Rps * t \in Nat
      BY DEF Init
    <3>2. QED
      BY <2>2, <3>1, BucketSize DEF WithinBudget
  <2>4. QED
    BY <2>1, <2>3 DEF RateInv, OneWaits, TokenComes
<1>2. RateInv => RateKeptAlone
  <2> SUFFICES ASSUME RateInv, ~overlapped PROVE WithinRate
    BY DEF RateKeptAlone
  <2>1. WithinBudget /\ Refilled \in 0..Capacity
    BY RefillBounds DEF RateInv, TryInv
  <2>2. \A t \in 0..Second : recent[t] * Second \in Nat /\ Rps * t \in Nat
    BY DEF RateInv, TryInv, TypeOK
  <2>3. QED
    BY <2>1, <2>2, BucketSize DEF WithinRate, WithinBudget
<1>3. QED
  BY <1>1, <1>2, NextKeepsRate, TryInvariant, PTL DEF Spec
==============================================================================
