----------------------------- MODULE DecodePool ------------------------------
(***************************************************************************)
(* The pool of decoding threads: createTxDecodePool of src/decode/         *)
(* txPool.ts on the main thread, and the message handlers of each          *)
(* src/decode/txWorker.ts thread.                                          *)
(*                                                                         *)
(* The main thread runs its handlers one at a time; a thread runs          *)
(* concurrently with it and they share two message queues.  What the pool  *)
(* knows of a thread is its flag in readyFlags and its presence in `idle`: *)
(* it is told by a 'ready' message, by an answer, by the init timeout, or  *)
(* by an 'error' event, in whatever order these come.  The id of a job is  *)
(* random and nothing stops it from being one that is in use.              *)
(* What a thread makes of a transaction depends on the transaction and on  *)
(* whether the thread has loaded the protos.  The module has no behaviours *)
(* of its own: ProcessHeight gives it jobs.  close(), which ends the       *)
(* threads, is not modelled.                                               *)
(***************************************************************************)
EXTENDS Integers, Sequences, FiniteSets

CONSTANTS
  Workers,     \* the threads, 0..size-1
  Jobs,        \* the calls of submit, one transaction each
  Kind,        \* the transaction of each job, by how it decodes
  Ids,         \* the random 31-bit ids
  NoJob,       \* what `pending` holds at an id that is not in use
  MaxFaults    \* bound: threads that die or cannot load the protos, and a
               \* time when an id is drawn that is in use

(* How a transaction decodes: its messages are of a built-in type, of one  *)
(* that only the protos list, or of neither; the bytes are no transaction; *)
(* or its body or auth_info is broken.                                     *)
Kinds == {"known", "listed", "unlisted", "notTx", "badBody"}

ASSUME PoolAssumption ==
  /\ IsFiniteSet(Workers)
  /\ NoJob \notin Jobs /\ "ready" \notin Ids
  /\ Kind \in [Jobs -> Kinds]
  /\ MaxFaults \in Nat

VARIABLES
  thread,      \* of each worker: "loading" the protos, "up", "failed", "dead"
  root,        \* whether each thread has a proto root
  inbox,       \* decode messages posted to each thread
  outbox,      \* messages posted by each thread
  readyFlags,  \* the pool has heard of the worker; its readyPromise resolved
  idle,        \* workers free to take a job, longest free first
  pending,     \* the job whose promise is kept under each id
  job,         \* where each promise stands
  answer,      \* what each promise was settled with
  rootless,    \* history: a thread is in use that has not loaded the protos
  collided     \* history: an id was drawn while it was in use

threadVars == <<thread, root, inbox, outbox>>
poolVars == <<readyFlags, idle, pending, job, answer, rootless, collided>>

(* The answers to a transaction: its messages decoded by the built-in      *)
(* types, by the loaded protos, left in base64, an empty transaction, or   *)
(* an error.                                                               *)
Answers == {"known", "dynamic", "base64", "empty", "error"}

Message(id, j) == [id |-> id, job |-> j]
Answer(m, as) == [id |-> m.id, job |-> m.job, as |-> as]
ReadyMessage == [id |-> "ready", job |-> NoJob, as |-> "ready"]
NoAnswer == [job |-> NoJob, as |-> "none"]
IsReady(m) == m.id = "ready"
Settled(j) == job[j] \in {"resolved", "rejected"}

PoolInit ==
  /\ thread = [w \in Workers |-> "loading"]
  /\ root = [w \in Workers |-> FALSE]
  /\ inbox = [w \in Workers |-> << >>]
  /\ outbox = [w \in Workers |-> << >>]
  /\ readyFlags = [w \in Workers |-> FALSE]
  /\ idle = << >>
  /\ pending = [i \in Ids |-> NoJob]
  /\ job = [j \in Jobs |-> "new"]
  /\ answer = [j \in Jobs |-> NoAnswer]
  /\ rootless = FALSE
  /\ collided = FALSE

Gone(w) == thread[w] \in {"failed", "dead"}
MayFail ==
  Cardinality({w \in Workers : Gone(w) \/ (thread[w] = "up" /\ ~root[w])})
    + (IF collided THEN 1 ELSE 0) < MaxFaults

------------------------------------------------------------------------------
(* The threads.                                                            *)

(* onInit: the proto root is set, or the protos cannot be loaded: either   *)
(* way 'ready' is posted, and the pool makes no difference.                *)
LoadOutcomes == {TRUE, ~MayFail}
setProtoRoot(w, loaded) == [root EXCEPT ![w] = loaded]

LoadsAfterReady(w) ==  \* mutant: 'ready' is posted before the root is set
  /\ \/ /\ thread[w] = "loading"
        /\ outbox' = [outbox EXCEPT ![w] = Append(@, ReadyMessage)]
        /\ UNCHANGED root
     \/ /\ thread[w] = "up"
        /\ root' = [root EXCEPT ![w] = TRUE]
        /\ UNCHANGED outbox
  /\ thread' = [thread EXCEPT ![w] = "up"]
  /\ UNCHANGED inbox /\ UNCHANGED poolVars
Loads(w) ==
  /\ thread[w] = "loading"
  /\ \E loaded \in LoadOutcomes :
       /\ root' = setProtoRoot(w, loaded)
       /\ rootless' = (rootless \/ ~loaded)
  /\ thread' = [thread EXCEPT ![w] = "up"]
  /\ outbox' = [outbox EXCEPT ![w] = Append(@, ReadyMessage)]
  /\ UNCHANGED <<inbox, readyFlags, idle, pending, job, answer, collided>>

(* decodeMessage: by the built-in types, else by the loaded protos if they *)
(* list the type, else not at all.                                         *)
decodeAnyWithRoot(type) == IF type = "listed" THEN {"dynamic"} ELSE {}
decodeMessage(type, loaded) ==
  CASE type = "known" -> "known"
    [] type # "known" /\ loaded /\ decodeAnyWithRoot(type) # {} ->
         CHOOSE shape \in decodeAnyWithRoot(type) : TRUE
    [] OTHER -> "base64"

(* decodeTxBase64: bytes that are neither a TxRaw nor a Tx make an empty   *)
(* transaction; a body or auth_info that does not decode is an error.      *)
decodeBodyToShape(kind, loaded) ==
  IF kind = "badBody" THEN "error" ELSE decodeMessage(kind, loaded)
decodeTxBase64(kind, loaded) ==
  IF kind = "notTx" THEN "empty" ELSE decodeBodyToShape(kind, loaded)

(* onDecode, which also runs between two awaits of onInit.  The answer     *)
(* carries the id it was asked with.                                       *)
Decodes(w) ==
  /\ ~Gone(w)
  /\ inbox[w] # << >>
  /\ inbox' = [inbox EXCEPT ![w] = Tail(@)]
  /\ LET m == Head(inbox[w])
     IN outbox' = [outbox EXCEPT
          ![w] = Append(@, Answer(m, decodeTxBase64(Kind[m.job], root[w])))]
  /\ UNCHANGED <<thread, root>> /\ UNCHANGED poolVars

(* The thread dies of an uncaught error (a failed import, no memory): what *)
(* was posted to it is lost, what it posted is still delivered.            *)
Dies(w) ==
  /\ ~Gone(w) /\ MayFail
  /\ thread' = [thread EXCEPT ![w] = "failed"]
  /\ inbox' = [inbox EXCEPT ![w] = << >>]
  /\ UNCHANGED <<root, outbox>> /\ UNCHANGED poolVars

------------------------------------------------------------------------------
(* The pool.                                                               *)

(* The first news of a worker, whatever it is, makes it free for jobs.     *)
KnownAgain(w) ==       \* mutant: the flag is set and not looked at
  /\ readyFlags' = [readyFlags EXCEPT ![w] = TRUE]
  /\ idle' = Append(idle, w)
BecomesKnown(w) ==
  IF readyFlags[w]
    THEN UNCHANGED <<readyFlags, idle>>
    ELSE /\ readyFlags' = [readyFlags EXCEPT ![w] = TRUE]
         /\ idle' = Append(idle, w)

(* The timer of a worker that has not been heard of in INIT_TIMEOUT_MS.    *)
InitTimeoutUnresolved(w) ==  \* mutant: readyPromise is not resolved
  /\ ~readyFlags[w] /\ \A n \in 1..Len(idle) : idle[n] # w
  /\ idle' = Append(idle, w)
  /\ rootless' = TRUE
  /\ UNCHANGED threadVars
  /\ UNCHANGED <<readyFlags, pending, job, answer, collided>>
InitTimeout(w) ==
  /\ ~readyFlags[w]
  /\ BecomesKnown(w)
  /\ rootless' = TRUE
  /\ UNCHANGED threadVars /\ UNCHANGED <<pending, job, answer, collided>>

Receives(w, m) ==
  /\ outbox[w] # << >>
  /\ m = Head(outbox[w])
  /\ outbox' = [outbox EXCEPT ![w] = Tail(@)]
  /\ UNCHANGED <<thread, root, inbox, rootless, collided>>

OnReady(w) ==
  \E m \in {ReadyMessage} :
    /\ Receives(w, m)
    /\ BecomesKnown(w)
    /\ UNCHANGED <<pending, job, answer>>

(* An answer whose id is unknown is dropped, and the worker with it; else  *)
(* the promise kept under the id is settled and the worker is free.        *)
EntryOf(m) == {pending[m.id]} \ {NoJob}
FreedIfResolved(w, m) ==    \* mutant: a decoding error loses the worker
  IF m.as = "error" THEN idle ELSE Append(idle, w)
Freed(w, m) == Append(idle, w)
Outcome(m) == IF m.as = "error" THEN "rejected" ELSE "resolved"

OnAnswer(w) ==
  /\ outbox[w] # << >>
  /\ LET m == Head(outbox[w]) IN
     /\ ~IsReady(m)
     /\ Receives(w, m)
     /\ \/ /\ EntryOf(m) = {}
           /\ UNCHANGED <<idle, pending, job, answer>>
        \/ \E j \in EntryOf(m) :
             /\ pending' = [pending EXCEPT ![m.id] = NoJob]
             /\ idle' = Freed(w, m)
             /\ job' = [job EXCEPT ![j] = Outcome(m)]
             /\ answer' = [answer EXCEPT ![j] = [job |-> m.job, as |-> m.as]]
     /\ UNCHANGED readyFlags

(* The 'error' event of one worker rejects the jobs of all of them.        *)
KeptPending == {pending[i] : i \in Ids} \ {NoJob}

OnError(w) ==
  /\ thread[w] = "failed"
  /\ thread' = [thread EXCEPT ![w] = "dead"]
  /\ BecomesKnown(w)
  /\ pending' = [i \in Ids |-> NoJob]
  /\ job' = [j \in Jobs |-> IF j \in KeptPending THEN "rejected" ELSE job[j]]
  /\ UNCHANGED <<root, inbox, outbox, answer, rootless, collided>>

(* The calls of submit that one attempt makes at once.                     *)
Submit(js) ==
  /\ job' = [j \in Jobs |-> IF j \in js THEN "waiting" ELSE job[j]]
  /\ UNCHANGED threadVars
  /\ UNCHANGED <<readyFlags, idle, pending, answer, rootless, collided>>

(* The wait of submit is over: every worker is known and one is free.  A   *)
(* message posted to a thread that is gone is lost.                        *)
InUse(id) ==
  \/ pending[id] # NoJob
  \/ \E w \in Workers :
       \/ \E n \in 1..Len(inbox[w]) : inbox[w][n].id = id
       \/ \E n \in 1..Len(outbox[w]) : outbox[w][n].id = id

(* Of the ids that are not in use one stands for all.                      *)
Drawn ==
  LET used == {i \in Ids : InUse(i)}
  IN (IF MayFail \/ used = Ids THEN used ELSE {}) \union
     (IF used = Ids THEN {} ELSE {CHOOSE i \in Ids : i \notin used})

Posted(w, m) ==
  IF Gone(w) THEN inbox ELSE [inbox EXCEPT ![w] = Append(@, m)]

Dispatch(j) ==
  /\ job[j] = "waiting"
  /\ \A w \in Workers : readyFlags[w]
  /\ idle # << >>
  /\ idle' = Tail(idle)
  /\ \E id \in Drawn :
       /\ pending' = [pending EXCEPT ![id] = j]
       /\ collided' = (collided \/ InUse(id))
       /\ inbox' = Posted(Head(idle), Message(id, j))
  /\ job' = [job EXCEPT ![j] = "sent"]
  /\ UNCHANGED <<thread, root, outbox, readyFlags, answer, rootless>>

ThreadStep(w) == Loads(w) \/ Decodes(w) \/ Dies(w)
PoolHears(w) == InitTimeout(w) \/ OnReady(w) \/ OnAnswer(w) \/ OnError(w)

PoolStep ==
  \/ \E w \in Workers : ThreadStep(w) \/ PoolHears(w)
  \/ \E j \in Jobs : Dispatch(j)

------------------------------------------------------------------------------
(* The variables have the shapes the code gives them.                      *)
PoolTypeOK ==
  /\ thread \in [Workers -> {"loading", "up", "failed", "dead"}]
  /\ root \in [Workers -> BOOLEAN]
  /\ inbox \in [Workers -> Seq([id : Ids, job : Jobs])]
  /\ outbox \in [Workers ->
       Seq([id : Ids, job : Jobs, as : Answers] \union {ReadyMessage})]
  /\ readyFlags \in [Workers -> BOOLEAN]
  /\ idle \in Seq(Workers) /\ Len(idle) <= Cardinality(Workers)
  /\ pending \in [Ids -> Jobs \union {NoJob}]
  /\ job \in [Jobs -> {"new", "waiting", "sent", "resolved", "rejected"}]
  /\ answer \in [Jobs -> [job : Jobs, as : Answers] \union {NoAnswer}]
  /\ rootless \in BOOLEAN /\ collided \in BOOLEAN

IsIdle(w) == \E n \in 1..Len(idle) : idle[n] = w
Unread(w) == {n \in 1..Len(outbox[w]) : ~IsReady(outbox[w][n])}
Carried(w) == Len(inbox[w]) + Cardinality(Unread(w))
AnyError == \E w \in Workers : Gone(w)

(* A worker is in `idle` at most once, and only while it has nothing to do *)
(* and has answered everything: the timeout, a late 'ready', an 'error'    *)
(* and an answer never make it free twice.                                 *)
IdleIsFree ==
  /\ \A m, n \in 1..Len(idle) : idle[m] = idle[n] => m = n
  /\ \A w \in Workers : IsIdle(w) => readyFlags[w] /\ Carried(w) = 0
  /\ \A w \in Workers : Carried(w) <= 1

(* While no thread has died and no id was drawn twice, no worker is lost:  *)
(* one that the pool knows is free or has one job, sent and unsettled.     *)
NoWorkerLost ==
  ~AnyError /\ ~collided =>
    \A w \in Workers : readyFlags[w] => (IsIdle(w) <=> Carried(w) = 0)

(* The pool gets through whatever it is given, slow loading and jobs that  *)
(* nobody waits for any more included: again and again every call of       *)
(* submit is settled - unless a thread dies or an id is drawn twice.       *)
PoolDrains ==
  []<>(AnyError \/ collided \/ \A j \in Jobs : job[j] \notin {"waiting", "sent"})

(* What the doc of TxDecodePool says of submit - "A promise that resolves  *)
(* with the decoded transaction, or rejects on error" (txPool.ts:25) - of  *)
(* a pool that survives the error of a thread.  (Fails: a thread that died *)
(* goes on being given jobs, and the others' answers are not listened to.) *)
ErrorsReject ==
  \A j \in Jobs : job[j] = "waiting" ~> (Settled(j) \/ collided)
==============================================================================
