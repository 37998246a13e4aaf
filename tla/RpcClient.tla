----------------------------- MODULE RpcClient -------------------------------
(***************************************************************************)
(* The calls of getJson of one RPC client (src/rpc/client.ts) over their   *)
(* shared token bucket (src/rpc/ratelimit.ts).                             *)
(*                                                                         *)
(* Time passes in ticks, Second of them in a second; timers never fire     *)
(* early and may fire late.  The bucket is counted in parts of a token so  *)
(* that one tick refills a whole number of them: Second parts are a token  *)
(* and a tick refills Rps parts.  The calls are concurrent; each stretch   *)
(* of code between two awaits is one action.                               *)
(***************************************************************************)
EXTENDS Integers

CONSTANTS
  Calls,      \* the calls of getJson
  Rps,        \* max(1, floor(opts.rps)), tokens per second
  Second,     \* ticks in a second
  Retries,    \* opts.retries
  Timeout,    \* opts.timeoutMs, in ticks
  Backoff,    \* opts.backoffMs, in ticks
  Jitter      \* opts.backoffJitter, in hundredths

ASSUME RateAssumption == Rps \in Nat \ {0} /\ Second \in Nat \ {0}
ASSUME RetryAssumption ==
  Retries \in Nat /\ Timeout \in Nat /\ Backoff \in Nat /\ Jitter \in 0..100

VARIABLES
  tokens,     \* parts of a token in the bucket at the last refill
  elapsed,    \* ticks since then, up to what fills the bucket
  call,       \* where each call stands
  recent,     \* history: the grants of the last t ticks, for t up to a second
  overlapped  \* history: a take was called while another one waited

vars == <<tokens, elapsed, call, recent, overlapped>>

LesserOf(a, b) == IF a <= b THEN a ELSE b
GreaterOf(a, b) == IF a <= b THEN b ELSE a
CeilDiv(a, b) == (a + b - 1) \div b

Capacity == GreaterOf(1, Rps * 2) * Second
FullAfter == CeilDiv(Capacity, Rps)

Phases == {"new", "waiting", "fetching", "reading", "refused", "sleeping",
           "returned", "threw"}

Init ==
  /\ tokens = Capacity
  /\ elapsed = 0
  /\ call = [c \in Calls |-> [phase |-> "new", timer |-> 0, attempt |-> 0,
                              transient |-> FALSE]]
  /\ recent = [t \in 0..Second |-> 0]
  /\ overlapped = FALSE

------------------------------------------------------------------------------
(* The bucket.                                                             *)
RefilledPastFull == tokens + elapsed * Rps    \* mutant: no cap
Refilled == LesserOf(Capacity, tokens + elapsed * Rps)
WaitFor(deficit) == GreaterOf(1, CeilDiv(deficit, Rps))
LeftInDebt == Refilled - Second               \* mutant: no floor at 0
LeftAfterWait == GreaterOf(0, Refilled - Second)

(* A token is granted: the request starts and its abort timer is set.      *)
Granted(c, attempt) ==
  /\ recent' = [t \in 0..Second |-> recent[t] + 1]
  /\ call' = [call EXCEPT ![c] = [phase |-> "fetching", timer |-> Timeout,
                                 attempt |-> attempt, transient |-> FALSE]]

(* take(1), up to its return or its wait.                                  *)
Take(c, attempt) ==
  /\ elapsed' = 0
  /\ overlapped' =
       (overlapped \/ \E d \in Calls \ {c} : call[d].phase = "waiting")
  /\ \/ /\ Refilled >= Second
        /\ tokens' = Refilled - Second
        /\ Granted(c, attempt)
     \/ /\ Refilled < Second
        /\ tokens' = Refilled
        /\ recent' = recent
        /\ call' = [call EXCEPT ![c] = [phase |-> "waiting",
                      timer |-> WaitFor(Second - Refilled),
                      attempt |-> attempt, transient |-> FALSE]]

(* The wait of take is over: it takes what there is, and goes on.          *)
WaitEnds(c) ==
  /\ call[c].phase = "waiting" /\ call[c].timer = 0
  /\ elapsed' = 0
  /\ tokens' = LeftAfterWait
  /\ Granted(c, call[c].attempt)
  /\ UNCHANGED overlapped

------------------------------------------------------------------------------
(* getJson.                                                                *)
bucketVars == <<tokens, elapsed, recent, overlapped>>

Start(c) == call[c].phase = "new" /\ Take(c, 0)

(* The next round of the loop.                                             *)
SleepEnds(c) ==
  /\ call[c].phase = "sleeping" /\ call[c].timer = 0
  /\ Take(c, call[c].attempt + 1)

MovesTo(c, phase, timer, transient) ==
  call' = [call EXCEPT ![c].phase = phase, ![c].timer = timer,
                       ![c].transient = transient]

(* A retryable failure sleeps for the jittered backoff when attempts are   *)
(* left, and is thrown otherwise, as every other failure is.               *)
Delays(attempt) ==
  LET base == Backoff * 2^attempt
      delta == (base * Jitter) \div 100
  IN (base - delta)..(base + delta)

RetriesLeftEarly(c) == call[c].attempt + 1 < Retries   \* mutant: off by one
RetriesLeft(c) == call[c].attempt < Retries

AttemptFails(c, transient) ==
  IF transient /\ RetriesLeft(c)
    THEN \E d \in Delays(call[c].attempt) : MovesTo(c, "sleeping", d, TRUE)
    ELSE MovesTo(c, "threw", 0, transient)

(* The headers arrive: the abort timer is cleared, and the body is awaited *)
(* without one, that of a good answer or that of a refusal.                *)
HeadersArrive(c) ==
  /\ call[c].phase = "fetching"
  /\ \E phase \in {"reading", "refused"} : MovesTo(c, phase, 0, FALSE)
  /\ UNCHANGED bucketVars

AbortDueOnce(c) ==     \* mutant: the timer is armed for the first attempt only
  call[c].timer = 0 /\ call[c].attempt = 0
AbortDue(c) == call[c].timer = 0

Aborts(c) ==
  /\ call[c].phase = "fetching" /\ AbortDue(c)
  /\ AttemptFails(c, TRUE)
  /\ UNCHANGED bucketVars

(* The connection fails, with a code that is retried or with another.      *)
FetchFails(c) ==
  /\ call[c].phase = "fetching"
  /\ \E transient \in BOOLEAN : AttemptFails(c, transient)
  /\ UNCHANGED bucketVars

BodyArrives(c) ==
  /\ call[c].phase = "reading"
  /\ MovesTo(c, "returned", 0, FALSE)
  /\ UNCHANGED bucketVars

(* The body cannot be read or parsed.                                      *)
BodyFails(c) ==
  /\ call[c].phase = "reading"
  /\ \E transient \in BOOLEAN : AttemptFails(c, transient)
  /\ UNCHANGED bucketVars

(* The text of a refusal is read, or cannot be: a 5xx or 429 is retried,   *)
(* another status is not.                                                  *)
RefusalRead(c) ==
  /\ call[c].phase = "refused"
  /\ \E transient \in BOOLEAN : AttemptFails(c, transient)
  /\ UNCHANGED bucketVars

------------------------------------------------------------------------------
Tick ==
  /\ elapsed' = LesserOf(elapsed + 1, FullAfter)
  /\ call' = [c \in Calls |->
                [call[c] EXCEPT !.timer = GreaterOf(0, @ - 1)]]
  /\ recent' = [t \in 0..Second |-> IF t = 0 THEN 0 ELSE recent[t - 1]]
  /\ UNCHANGED <<tokens, overlapped>>

TimerFires(c) == WaitEnds(c) \/ SleepEnds(c) \/ Aborts(c)
NodeAnswers(c) ==
  \/ HeadersArrive(c) \/ FetchFails(c) \/ BodyArrives(c) \/ BodyFails(c)
  \/ RefusalRead(c)

Next ==
  \/ Tick
  \/ \E c \in Calls : Start(c) \/ TimerFires(c) \/ NodeAnswers(c)

Spec == Init /\ [][Next]_vars

(* Time passes and a timer that is due fires.  Nothing is assumed of the   *)
(* node, which may leave a request or a body without an answer.            *)
FairSpec ==
  /\ Spec
  /\ WF_vars(Tick)
  /\ \A c \in Calls : WF_vars(TimerFires(c))
------------------------------------------------------------------------------
(* The variables have the shapes the code gives them; the bucket is never  *)
(* in debt and never holds more than its capacity.                         *)
TypeOK ==
  /\ tokens \in 0..Capacity
  /\ elapsed \in 0..FullAfter
  /\ call \in [Calls -> [phase : Phases, timer : Nat, attempt : 0..Retries,
                         transient : BOOLEAN]]
  /\ recent \in [0..Second -> Nat]
  /\ overlapped \in BOOLEAN

WithinRate == \A t \in 0..Second : recent[t] * Second <= Capacity + Rps * t

(* Requests that never wait for the bucket together are throttled: in any  *)
(* stretch of up to a second there are no more of them than a full bucket  *)
(* and its refill allow, retries included, after any idle time.            *)
RateKeptAlone == ~overlapped => WithinRate

(* What the header of ratelimit.ts says of every caller: "Allows           *)
(* throttling of operations to a defined rate per second with a            *)
(* configurable burst multiplier" (ratelimit.ts:2-3).  (Fails: the waits   *)
(* are computed without reserving the token that is waited for, so calls   *)
(* that wait together are let through together.)                           *)
RateKept == WithinRate

(* A call throws a failure worth retrying only from its last attempt, the  *)
(* Retries + 1st, and sleeps only when there is an attempt left to make.   *)
RetriesUsed ==
  \A c \in Calls :
    /\ call[c].phase = "threw" /\ call[c].transient => call[c].attempt = Retries
    /\ call[c].phase = "sleeping" => call[c].transient /\ call[c].attempt < Retries

(* A call that was started ends, whatever the node answers or does not,    *)
(* but for one wait that has no timeout: that for the body of an answer.   *)
CallEnds ==
  \A c \in Calls :
    call[c].phase \in {"waiting", "fetching", "sleeping"}
      ~> call[c].phase \in {"returned", "threw", "reading", "refused"}
==============================================================================
