---------------------------- MODULE ProcessHeight ----------------------------
(***************************************************************************)
(* What syncRange does with a height before it is ready: processHeight of  *)
(* src/runner/syncRange.ts over the decode pool.  Each attempt submits the *)
(* transactions of its block at once and waits for all answers; withTimeout*)
(* abandons the wait but not the jobs, so that a retry competes for the    *)
(* threads with what the attempt before it has left behind.  (An attempt   *)
(* whose fetch fails submits nothing: such attempts are left to SyncRange.)*)
(***************************************************************************)
EXTENDS DecodePool

CONSTANTS
  TxsOf,            \* the transactions of each height, in order, by kind
  Ranges,           \* the ranges of heights syncRange may be called for
  MaxBlockRetries

Heights == DOMAIN TxsOf

(* The job of the i-th transaction of a height in its n-th attempt.        *)
JobOf(h, n, i) == <<h, n, i>>
JobsOf(h, n) == {JobOf(h, n, i) : i \in DOMAIN TxsOf[h]}

ASSUME HeightsAssumption ==
  /\ MaxBlockRetries \in Nat /\ Ranges \subseteq SUBSET Heights
  /\ Jobs = UNION {JobsOf(h, n) : h \in Heights, n \in 1..(MaxBlockRetries + 1)}
  /\ \A j \in Jobs : Kind[j] = TxsOf[j[1]][j[3]]

VARIABLES
  place,      \* "queued", "decoding", "ready", "skipped" or "outside"
  attempts,   \* failed attempts of each height
  block       \* the answers a ready block was assembled from

heightVars == <<place, attempts, block>>
vars == <<threadVars, poolVars, heightVars>>

Init ==
  /\ PoolInit
  /\ \E range \in Ranges :
       place = [h \in Heights |-> IF h \in range THEN "queued" ELSE "outside"]
  /\ attempts = [h \in Heights |-> 0]
  /\ block = [h \in Heights |-> << >>]

Current(h) == JobsOf(h, attempts[h] + 1)

(* The block and its results are there: all its transactions are submitted.*)
Fetches(h) ==
  /\ place[h] = "queued"
  /\ place' = [place EXCEPT ![h] = "decoding"]
  /\ Submit(Current(h))
  /\ UNCHANGED <<attempts, block>>

(* The answers are put together in the order of the transactions.          *)
BlockInAnyOrder(h) ==   \* mutant: in the order in which they came
  {b \in [DOMAIN TxsOf[h] -> {answer[j] : j \in Current(h)}] :
     {b[i] : i \in DOMAIN b} = {answer[j] : j \in Current(h)}}
BlockOf(h) ==
  {[i \in DOMAIN TxsOf[h] |-> answer[JobOf(h, attempts[h] + 1, i)]]}

Assembles(h) ==
  /\ place[h] = "decoding"
  /\ \A j \in Current(h) : job[j] = "resolved"
  /\ place' = [place EXCEPT ![h] = "ready"]
  /\ \E b \in BlockOf(h) : block' = [block EXCEPT ![h] = b]
  /\ UNCHANGED attempts /\ UNCHANGED threadVars /\ UNCHANGED poolVars

(* The catch of processHeight: the height is queued again, or skipped.     *)
AttemptFails(h) ==
  /\ attempts' = [attempts EXCEPT ![h] = @ + 1]
  /\ place' = [place EXCEPT
       ![h] = IF attempts[h] + 1 <= MaxBlockRetries THEN "queued" ELSE "skipped"]
  /\ UNCHANGED block /\ UNCHANGED threadVars /\ UNCHANGED poolVars

(* assembleBlockJsonFromParts throws, or runs into its own timeout.        *)
AssemblyFails(h) ==
  /\ place[h] = "decoding"
  /\ \A j \in Current(h) : job[j] = "resolved"
  /\ AttemptFails(h)

DecodeRejected(h) ==
  /\ place[h] = "decoding"
  /\ \E j \in Current(h) : job[j] = "rejected"
  /\ AttemptFails(h)

(* withTimeout runs from the call of submit on: it covers the wait for a   *)
(* thread as well as the decoding.                                         *)
TimeoutOfSent(h) == \E j \in Current(h) : job[j] = "sent"  \* mutant
TimeoutDue(h) == \E j \in Current(h) : ~Settled(j)

DecodeTimesOut(h) ==
  /\ place[h] = "decoding"
  /\ TimeoutDue(h)
  /\ AttemptFails(h)

PoolRuns == PoolStep /\ UNCHANGED heightVars

HeightStep(h) ==
  \/ Fetches(h) \/ Assembles(h)
  \/ AssemblyFails(h) \/ DecodeRejected(h) \/ DecodeTimesOut(h)

Next == PoolRuns \/ \E h \in Heights : HeightStep(h)

Spec == Init /\ [][Next]_vars

(***************************************************************************)
(* Threads run, their messages and the timers are delivered, the polling   *)
(* loop of submit is scheduled, and syncRange goes on with each height.    *)
(* Loading the protos may take for ever: the init timeout is there for it. *)
(***************************************************************************)
FairSpec ==
  /\ Spec
  /\ \A w \in Workers :
       /\ WF_vars(Decodes(w) /\ UNCHANGED heightVars)
       /\ WF_vars(PoolHears(w) /\ UNCHANGED heightVars)
  /\ WF_vars((\E j \in Jobs : Dispatch(j)) /\ UNCHANGED heightVars)
  /\ \A h \in Heights : WF_vars(HeightStep(h))

------------------------------------------------------------------------------
TypeOK ==
  /\ PoolTypeOK
  /\ place \in [Heights -> {"queued", "decoding", "ready", "skipped", "outside"}]
  /\ attempts \in [Heights -> 0..(MaxBlockRetries + 1)]
  /\ \A h \in Heights :
       block[h] = << >> \/ DOMAIN block[h] = DOMAIN TxsOf[h]

(* A block is assembled from the answers to the very jobs its last attempt *)
(* has submitted, each in its place, and never from an answer to what an   *)
(* abandoned attempt has left in the pool, in whatever order the threads   *)
(* answer (until an id is drawn twice).                                    *)
BlockOfOwnAnswers ==
  ~collided => \A h \in Heights : place[h] = "ready" =>
    \A i \in DOMAIN TxsOf[h] : block[h][i].job = JobOf(h, attempts[h] + 1, i)

(* Whether a message is stored decoded or in base64 depends on the message *)
(* alone, not on the thread it happens to meet - as long as every thread   *)
(* has loaded the protos and none was taken into use before it had.        *)
DecodedAlike ==
  ~rootless =>
    \A h \in Heights : place[h] = "ready" =>
      \A i \in DOMAIN TxsOf[h] :
        block[h][i].as = decodeTxBase64(Kind[block[h][i].job], TRUE)

(* Every height gets through, whatever becomes of the pool - threads dead, *)
(* jobs lost, ids drawn twice: it is ready or skipped in the end.          *)
HeightsSettle ==
  <>(\A h \in Heights : place[h] \in {"ready", "skipped", "outside"})
==============================================================================
