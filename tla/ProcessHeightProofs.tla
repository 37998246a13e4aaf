------------------------- MODULE ProcessHeightProofs -------------------------
(***************************************************************************)
(* Proofs about ProcessHeight and the decode pool under it, for any number *)
(* of threads, ids and heights, any blocks, any bound on the faults.       *)
(***************************************************************************)
EXTENDS ProcessHeight, SequenceTheorems, FiniteSetTheorems, TLAPS

(* The variables keep their types; that `idle` is no longer than there are *)
(* workers follows from FreeInv.                                           *)
PoolTypes ==
  /\ thread \in [Workers -> {"loading", "up", "failed", "dead"}]
  /\ root \in [Workers -> BOOLEAN]
  /\ inbox \in [Workers -> Seq([id : Ids, job : Jobs])]
  /\ outbox \in [Workers ->
       Seq([id : Ids, job : Jobs, as : Answers] \union {ReadyMessage})]
  /\ readyFlags \in [Workers -> BOOLEAN]
  /\ idle \in Seq(Workers)
  /\ pending \in [Ids -> Jobs \union {NoJob}]
  /\ job \in [Jobs -> {"new", "waiting", "sent", "resolved", "rejected"}]
  /\ answer \in [Jobs -> [job : Jobs, as : Answers] \union {NoAnswer}]
  /\ rootless \in BOOLEAN /\ collided \in BOOLEAN

HeightTypes ==
  /\ place \in [Heights -> {"queued", "decoding", "ready", "skipped", "outside"}]
  /\ attempts \in [Heights -> 0..(MaxBlockRetries + 1)]
  /\ \A h \in Heights :
       place[h] \in {"queued", "decoding"} => attempts[h] <= MaxBlockRetries
  /\ DOMAIN block = Heights
  /\ \A h \in Heights :
       block[h] = << >> \/ DOMAIN block[h] = DOMAIN TxsOf[h]

(* A worker has the message of a job, or has answered it and the pool has  *)
(* not heard the answer.                                                   *)
HasAnswer(w) == \E n \in 1..Len(outbox[w]) : ~IsReady(outbox[w][n])
InFlight(w, id, j) ==
  \/ \E n \in 1..Len(inbox[w]) : inbox[w][n].id = id /\ inbox[w][n].job = j
  \/ \E n \in 1..Len(outbox[w]) : outbox[w][n].id = id /\ outbox[w][n].job = j

IdleOnce == \A m, n \in 1..Len(idle) : idle[m] = idle[n] => m = n
AnswerOnce(w) == \A m, n \in 1..Len(outbox[w]) :
  ~IsReady(outbox[w][m]) /\ ~IsReady(outbox[w][n]) => m = n

(* What a worker that is free, or has a job, has in its queues.            *)
FreeInv ==
  /\ IdleOnce
  /\ \A w \in Workers : IsIdle(w) =>
       readyFlags[w] /\ inbox[w] = << >> /\ ~HasAnswer(w)
  /\ \A w \in Workers : inbox[w] # << >> =>
       readyFlags[w] /\ Len(inbox[w]) = 1 /\ ~HasAnswer(w)
  /\ \A w \in Workers : HasAnswer(w) => readyFlags[w]
  /\ \A w \in Workers : AnswerOnce(w)

(* While no id was drawn twice: what is kept under the id of a message is  *)
(* its job, or nothing once a thread has died.                             *)
FlightInv ==
  ~collided =>
    /\ \A w \in Workers, id \in Ids, j \in Jobs :
         InFlight(w, id, j) => pending[id] \in {j, NoJob}
    /\ \A v, w \in Workers, id \in Ids, i, j \in Jobs :
         InFlight(v, id, i) /\ InFlight(w, id, j) => v = w
    /\ ~AnyError =>
         /\ \A w \in Workers, id \in Ids, j \in Jobs :
              InFlight(w, id, j) => pending[id] = j
         /\ \A w \in Workers :
              readyFlags[w] => IsIdle(w) \/ inbox[w] # << >> \/ HasAnswer(w)

(* While no id was drawn twice every promise is resolved with its answer.  *)
AnswerInv ==
  ~collided => \A j \in Jobs : job[j] = "resolved" => answer[j].job = j

(* While all threads in use have loaded the protos: how they answer.       *)
RootInv ==
  ~rootless =>
    /\ \A w \in Workers : thread[w] = "loading" => ~readyFlags[w] /\ outbox[w] = << >>
    /\ \A w \in Workers : thread[w] = "up" => root[w]
    /\ \A w \in Workers : \A n \in 1..Len(outbox[w]) :
         ~IsReady(outbox[w][n]) =>
           outbox[w][n].as = decodeTxBase64(Kind[outbox[w][n].job], TRUE)
    /\ \A j \in Jobs : job[j] = "resolved" =>
         answer[j].as = decodeTxBase64(Kind[answer[j].job], TRUE)

PoolInv == PoolTypes /\ FreeInv /\ FlightInv /\ AnswerInv /\ RootInv
BlockInv == BlockOfOwnAnswers /\ DecodedAlike
Inv == PoolInv /\ HeightTypes /\ BlockInv

MessageType == [id : Ids, job : Jobs, as : Answers]
OutType == MessageType \union {ReadyMessage}

(* The answer to a transaction of any kind is one of Answers.              *)
LEMMA DecodesToAnswer ==
  ASSUME NEW kind \in Kinds, NEW loaded \in BOOLEAN
  PROVE  decodeTxBase64(kind, loaded) \in Answers
<1>1. (CHOOSE shape \in {"dynamic"} : TRUE) = "dynamic"
  OBVIOUS
<1>2. decodeMessage(kind, loaded) \in {"known", "dynamic", "base64"}
  BY <1>1 DEF decodeMessage, decodeAnyWithRoot, Kinds
<1>3. QED
  BY <1>2 DEF decodeTxBase64, decodeBodyToShape, Answers

(* The messages of a queue after a post and after a delivery.              *)
LEMMA QueueAppend ==
  ASSUME NEW S, NEW q \in Seq(S), NEW e \in S
  PROVE  /\ Append(q, e) \in Seq(S)
         /\ Len(Append(q, e)) = Len(q) + 1
         /\ \A n \in 1..Len(q) : Append(q, e)[n] = q[n]
         /\ Append(q, e)[Len(q) + 1] = e
         /\ Append(q, e) # << >>
BY AppendProperties

LEMMA QueueTail ==
  ASSUME NEW S, NEW q \in Seq(S), q # << >>
  PROVE  /\ Tail(q) \in Seq(S)
         /\ Head(q) \in S /\ Head(q) = q[1]
         /\ Len(q) \in Nat /\ Len(q) > 0
         /\ Len(Tail(q)) = Len(q) - 1
         /\ \A n \in 1..Len(Tail(q)) : Tail(q)[n] = q[n + 1]
<1>1. QED
  BY HeadTailProperties, EmptySeq

LEMMA ReadyIsNoAnswer ==
  /\ ReadyMessage \in OutType
  /\ \A m \in OutType : IsReady(m) <=> m = ReadyMessage
  /\ \A m \in OutType : ~IsReady(m) =>
       m \in MessageType /\ m.id \in Ids /\ m.job \in Jobs /\ m.as \in Answers
BY PoolAssumption DEF OutType, MessageType, ReadyMessage, IsReady

(* What a thread carries, by the way its queues have changed.              *)
LEMMA ReadyPosted ==
  ASSUME PoolTypes, NEW w \in Workers,
         outbox' = [outbox EXCEPT ![w] = Append(@, ReadyMessage)],
         inbox' = inbox
  PROVE  /\ \A v \in Workers : HasAnswer(v)' <=> HasAnswer(v)
         /\ \A v \in Workers, id \in Ids, j \in Jobs :
              InFlight(v, id, j)' <=> InFlight(v, id, j)
<1>1. outbox[w] \in Seq(OutType) /\ Len(outbox[w]) \in Nat
  BY DEF PoolTypes, OutType, MessageType
<1>2. /\ Len(outbox'[w]) = Len(outbox[w]) + 1
      /\ \A n \in 1..Len(outbox[w]) : outbox'[w][n] = outbox[w][n]
      /\ outbox'[w][Len(outbox[w]) + 1] = ReadyMessage
  BY <1>1, QueueAppend, ReadyIsNoAnswer DEF PoolTypes
<1>3. \A v \in Workers : v # w => outbox'[v] = outbox[v]
  BY DEF PoolTypes
<1>4. IsReady(ReadyMessage) /\ \A id \in Ids : ReadyMessage.id # id
  BY PoolAssumption DEF IsReady, ReadyMessage
<1>5. HasAnswer(w)' <=> HasAnswer(w)
  <2>1. HasAnswer(w) => HasAnswer(w)'
    BY <1>1, <1>2 DEF HasAnswer
  <2>2. HasAnswer(w)' => HasAnswer(w)
    <3> SUFFICES ASSUME NEW n \in 1..Len(outbox'[w]), ~IsReady(outbox'[w][n])
                 PROVE  HasAnswer(w)
      BY DEF HasAnswer
    <3>1. n # Len(outbox[w]) + 1
      BY <1>2, <1>4
    <3>2. QED
      BY <1>1, <1>2, <3>1 DEF HasAnswer
  <2>3. QED
    BY <2>1, <2>2
<1>6. ASSUME NEW id \in Ids, NEW j \in Jobs
      PROVE  InFlight(w, id, j)' <=> InFlight(w, id, j)
  <2>1. InFlight(w, id, j) => InFlight(w, id, j)'
    BY <1>1, <1>2 DEF InFlight
  <2>2. ASSUME NEW n \in 1..Len(outbox'[w]),
               outbox'[w][n].id = id, outbox'[w][n].job = j
        PROVE  InFlight(w, id, j)
    <3>1. n # Len(outbox[w]) + 1
      BY <1>2, <1>4, <2>2
    <3>2. QED
      BY <1>1, <1>2, <2>2, <3>1 DEF InFlight
  <2>3. QED
    BY <2>1, <2>2 DEF InFlight
<1>7. \A v \in Workers : v # w => (HasAnswer(v)' <=> HasAnswer(v))
  BY <1>3 DEF HasAnswer
<1>8. \A v \in Workers, id \in Ids, j \in Jobs :
        v # w => (InFlight(v, id, j)' <=> InFlight(v, id, j))
  BY <1>3 DEF InFlight
<1>9. QED
  BY <1>5, <1>6, <1>7, <1>8

LEMMA Decoded ==
  ASSUME PoolTypes, NEW w \in Workers, Decodes(w)
  PROVE  /\ HasAnswer(w)'
         /\ \A v \in Workers : v # w => (HasAnswer(v)' <=> HasAnswer(v))
         /\ \A v \in Workers, id \in Ids, j \in Jobs :
              InFlight(v, id, j)' <=> InFlight(v, id, j)
         /\ \A v \in Workers : v # w => inbox'[v] = inbox[v] /\ outbox'[v] = outbox[v]
         /\ \E as \in Answers :
              /\ as = decodeTxBase64(Kind[Head(inbox[w]).job], root[w])
              /\ Head(inbox[w]).job \in Jobs
              /\ outbox' = [outbox EXCEPT ![w] =
                   Append(@, Answer(Head(inbox[w]), as))]
              /\ Answer(Head(inbox[w]), as) \in OutType
              /\ ~IsReady(Answer(Head(inbox[w]), as))
<1> DEFINE q == inbox[w]
           o == outbox[w]
           m == Head(q)
           as == decodeTxBase64(Kind[m.job], root[w])
           a == Answer(m, as)
<1>1. /\ q \in Seq([id : Ids, job : Jobs]) /\ o \in Seq(OutType)
      /\ Len(o) \in Nat /\ Len(q) \in Nat
  <2>1. /\ q \in Seq([id : Ids, job : Jobs]) /\ o \in Seq(OutType)
    BY DEF PoolTypes, OutType, MessageType
  <2>2. QED
    BY <2>1, LenProperties
<1>2. /\ q # << >> /\ inbox' = [inbox EXCEPT ![w] = Tail(q)]
      /\ outbox' = [outbox EXCEPT ![w] = Append(o, a)]
  BY DEF Decodes
<1>3. m \in [id : Ids, job : Jobs]
  BY <1>1, <1>2, QueueTail
<1>4. as \in Answers
  BY <1>3, DecodesToAnswer, PoolAssumption DEF PoolTypes
<1>5. /\ a \in OutType /\ ~IsReady(a) /\ a.id = m.id /\ a.job = m.job
  BY <1>3, <1>4, PoolAssumption DEF Answer, OutType, MessageType, IsReady
<1>6. /\ Len(q) > 0 /\ m = q[1] /\ Len(Tail(q)) = Len(q) - 1
      /\ \A n \in 1..Len(Tail(q)) : Tail(q)[n] = q[n + 1]
  BY <1>1, <1>2, QueueTail
<1>7. /\ Len(Append(o, a)) = Len(o) + 1 /\ Append(o, a)[Len(o) + 1] = a
      /\ \A n \in 1..Len(o) : Append(o, a)[n] = o[n]
  BY <1>1, <1>5, QueueAppend
<1>8. /\ inbox'[w] = Tail(q) /\ outbox'[w] = Append(o, a)
      /\ \A v \in Workers : v # w => inbox'[v] = inbox[v] /\ outbox'[v] = outbox[v]
  BY <1>2 DEF PoolTypes
<1> HIDE DEF q, o, m, as, a
<1>9. ASSUME NEW id \in Ids, NEW j \in Jobs
      PROVE  InFlight(w, id, j)' <=> InFlight(w, id, j)
  <2>1. InFlight(w, id, j)' <=>
          \/ \E n \in 1..Len(Tail(q)) : Tail(q)[n].id = id /\ Tail(q)[n].job = j
          \/ \E n \in 1..Len(Append(o, a)) :
               Append(o, a)[n].id = id /\ Append(o, a)[n].job = j
    BY <1>8 DEF InFlight
  <2>2. InFlight(w, id, j) <=>
          \/ \E n \in 1..Len(q) : q[n].id = id /\ q[n].job = j
          \/ \E n \in 1..Len(o) : o[n].id = id /\ o[n].job = j
    BY DEF InFlight, q, o
  <2>3. (\E n \in 1..Len(Append(o, a)) :
           Append(o, a)[n].id = id /\ Append(o, a)[n].job = j) <=>
        \/ \E n \in 1..Len(o) : o[n].id = id /\ o[n].job = j
        \/ m.id = id /\ m.job = j
    BY <1>1, <1>5, <1>7
  <2>4. (\E n \in 1..Len(q) : q[n].id = id /\ q[n].job = j) <=>
        \/ \E n \in 1..Len(Tail(q)) : Tail(q)[n].id = id /\ Tail(q)[n].job = j
        \/ m.id = id /\ m.job = j
    <3>1. \A n \in 1..Len(q) : n = 1 \/ (n - 1 \in 1..Len(Tail(q)) /\ q[n] = Tail(q)[n - 1])
      BY <1>1, <1>6
    <3>2. \A n \in 1..Len(Tail(q)) : n + 1 \in 1..Len(q) /\ Tail(q)[n] = q[n + 1]
      BY <1>1, <1>6
    <3>3. 1 \in 1..Len(q) /\ q[1] = m
      BY <1>1, <1>6
    <3>4. QED
      BY <3>1, <3>2, <3>3
  <2>5. QED
    BY <2>1, <2>2, <2>3, <2>4
<1>10. HasAnswer(w)'
  BY <1>1, <1>5, <1>7, <1>8 DEF HasAnswer
<1>11. \A v \in Workers : v # w =>
         /\ HasAnswer(v)' <=> HasAnswer(v)
         /\ \A id \in Ids, j \in Jobs : InFlight(v, id, j)' <=> InFlight(v, id, j)
  BY <1>8 DEF HasAnswer, InFlight
<1>12. \A v \in Workers, id \in Ids, j \in Jobs :
         InFlight(v, id, j)' <=> InFlight(v, id, j)
  BY <1>9, <1>11
<1>13. /\ as \in Answers /\ as = decodeTxBase64(Kind[m.job], root[w])
       /\ m.job \in Jobs
       /\ outbox' = [outbox EXCEPT ![w] = Append(@, Answer(m, as))]
       /\ Answer(m, as) \in OutType /\ ~IsReady(Answer(m, as))
  BY <1>2, <1>3, <1>4, <1>5 DEF as, a, o
<1>14. m = Head(inbox[w])
  BY DEF m, q
<1>15. QED
  BY <1>8, <1>10, <1>11, <1>12, <1>13, <1>14

LEMMA AnswerTaken ==
  ASSUME PoolTypes, NEW w \in Workers, outbox[w] # << >>,
         outbox' = [outbox EXCEPT ![w] = Tail(@)], inbox' = inbox
  PROVE  /\ outbox'[w] \in Seq(OutType)
         /\ \A v \in Workers : v # w => outbox'[v] = outbox[v]
         /\ Head(outbox[w]) \in OutType /\ Head(outbox[w]) = outbox[w][1]
         /\ 1 \in 1..Len(outbox[w])
         /\ \A n \in 1..Len(outbox'[w]) :
              n + 1 \in 1..Len(outbox[w]) /\ outbox'[w][n] = outbox[w][n + 1]
         /\ \A n \in 1..Len(outbox[w]) : n # 1 =>
              n - 1 \in 1..Len(outbox'[w]) /\ outbox'[w][n - 1] = outbox[w][n]
<1>1. outbox[w] \in Seq(OutType)
  BY DEF PoolTypes, OutType, MessageType
<1>2. outbox'[w] = Tail(outbox[w]) /\ \A v \in Workers : v # w => outbox'[v] = outbox[v]
  BY DEF PoolTypes
<1> DEFINE o == outbox[w]
           t == outbox'[w]
<1>3. o \in Seq(OutType) /\ o # << >> /\ t = Tail(o)
  BY <1>1, <1>2
<1> HIDE DEF o, t
<1>4. /\ t \in Seq(OutType) /\ Head(o) \in OutType /\ Head(o) = o[1]
      /\ Len(o) \in Nat /\ Len(o) > 0 /\ Len(t) = Len(o) - 1
      /\ \A n \in 1..Len(t) : t[n] = o[n + 1]
  BY <1>3, QueueTail
<1>5. /\ \A n \in 1..Len(t) : n + 1 \in 1..Len(o) /\ t[n] = o[n + 1]
      /\ \A n \in 1..Len(o) : n # 1 => n - 1 \in 1..Len(t) /\ t[n - 1] = o[n]
      /\ 1 \in 1..Len(o)
  BY <1>4
<1>6. QED
  BY <1>2, <1>4, <1>5 DEF o, t

LEMMA ReadyTaken ==
  ASSUME PoolTypes, NEW w \in Workers, outbox[w] # << >>,
         Head(outbox[w]) = ReadyMessage,
         outbox' = [outbox EXCEPT ![w] = Tail(@)], inbox' = inbox
  PROVE  /\ \A v \in Workers : HasAnswer(v)' <=> HasAnswer(v)
         /\ \A v \in Workers, id \in Ids, j \in Jobs :
              InFlight(v, id, j)' <=> InFlight(v, id, j)
<1>1. IsReady(ReadyMessage) /\ \A id \in Ids : ReadyMessage.id # id
  BY PoolAssumption DEF IsReady, ReadyMessage
<1> DEFINE o == outbox[w]
           t == outbox'[w]
<1>2. /\ o[1] = ReadyMessage
      /\ \A n \in 1..Len(t) : n + 1 \in 1..Len(o) /\ t[n] = o[n + 1]
      /\ \A n \in 1..Len(o) : n # 1 => n - 1 \in 1..Len(t) /\ t[n - 1] = o[n]
      /\ \A v \in Workers : v # w => outbox'[v] = outbox[v]
  BY AnswerTaken
<1> HIDE DEF o, t
<1>3. (\E n \in 1..Len(t) : ~IsReady(t[n])) <=> (\E n \in 1..Len(o) : ~IsReady(o[n]))
  BY <1>1, <1>2
<1>4. ASSUME NEW id \in Ids, NEW j \in Jobs
      PROVE  (\E n \in 1..Len(t) : t[n].id = id /\ t[n].job = j) <=>
             (\E n \in 1..Len(o) : o[n].id = id /\ o[n].job = j)
  BY <1>1, <1>2
<1>5. HasAnswer(w)' <=> HasAnswer(w)
  BY <1>3 DEF HasAnswer, o, t
<1>6. \A id \in Ids, j \in Jobs : InFlight(w, id, j)' <=> InFlight(w, id, j)
  BY <1>4 DEF InFlight, o, t
<1>7. \A v \in Workers : v # w =>
        /\ HasAnswer(v)' <=> HasAnswer(v)
        /\ \A id \in Ids, j \in Jobs : InFlight(v, id, j)' <=> InFlight(v, id, j)
  BY <1>2 DEF HasAnswer, InFlight
<1>8. QED
  BY <1>5, <1>6, <1>7

(* After its answer has been heard a worker carries nothing.               *)
LEMMA LastTaken ==
  ASSUME PoolTypes, FreeInv, NEW w \in Workers, outbox[w] # << >>,
         ~IsReady(Head(outbox[w])),
         outbox' = [outbox EXCEPT ![w] = Tail(@)], inbox' = inbox
  PROVE  /\ HasAnswer(w) /\ inbox[w] = << >> /\ ~HasAnswer(w)'
         /\ InFlight(w, Head(outbox[w]).id, Head(outbox[w]).job)
         /\ \A id \in Ids, j \in Jobs : ~InFlight(w, id, j)'
         /\ \A v \in Workers : v # w =>
              /\ HasAnswer(v)' <=> HasAnswer(v)
              /\ \A id \in Ids, j \in Jobs : InFlight(v, id, j)' <=> InFlight(v, id, j)
<1>1. HasAnswer(w) /\ InFlight(w, Head(outbox[w]).id, Head(outbox[w]).job)
  BY AnswerTaken DEF HasAnswer, InFlight
<1>2. inbox[w] = << >>
  BY <1>1 DEF FreeInv
<1>3. \A n \in 1..Len(outbox[w]) : ~IsReady(outbox[w][n]) => n = 1
  BY AnswerTaken DEF FreeInv, AnswerOnce
<1>4. \A n \in 1..Len(outbox'[w]) : IsReady(outbox'[w][n])
  <2>1. ASSUME NEW n \in 1..Len(outbox'[w]) PROVE IsReady(outbox'[w][n])
    <3>1. n + 1 \in 1..Len(outbox[w]) /\ outbox'[w][n] = outbox[w][n + 1]
      BY AnswerTaken
    <3>2. n + 1 # 1
      OBVIOUS
    <3>3. QED
      BY <3>1, <3>2, <1>3
  <2>2. QED
    BY <2>1
<1>5. \A n \in 1..Len(outbox'[w]) : outbox'[w][n].id \notin Ids
  BY <1>4, PoolAssumption DEF IsReady
<1>6. \A n \in 1..Len(inbox'[w]) : FALSE
  BY <1>2
<1>7. \A id \in Ids, j \in Jobs : ~InFlight(w, id, j)'
  BY <1>5, <1>6 DEF InFlight
<1>8. \A v \in Workers : v # w =>
        /\ HasAnswer(v)' <=> HasAnswer(v)
        /\ \A id \in Ids, j \in Jobs : InFlight(v, id, j)' <=> InFlight(v, id, j)
  <2>1. \A v \in Workers : v # w => outbox'[v] = outbox[v] /\ inbox'[v] = inbox[v]
    BY AnswerTaken
  <2>2. QED
    BY <2>1 DEF HasAnswer, InFlight
<1>9. ~HasAnswer(w)'
  BY <1>4 DEF HasAnswer
<1>10. QED
  BY <1>1, <1>2, <1>7, <1>8, <1>9

(* A worker that is given a job has that alone.                            *)
LEMMA JobPosted ==
  ASSUME PoolTypes, NEW w \in Workers, inbox[w] = << >>,
         NEW m \in [id : Ids, job : Jobs],
         inbox' = Posted(w, m), outbox' = outbox
  PROVE  /\ inbox' \in [Workers -> Seq([id : Ids, job : Jobs])]
         /\ \A v \in Workers : v # w => inbox'[v] = inbox[v]
         /\ \A v \in Workers : HasAnswer(v)' <=> HasAnswer(v)
         /\ Gone(w) => inbox'[w] = << >>
         /\ ~Gone(w) => inbox'[w] # << >> /\ Len(inbox'[w]) = 1
         /\ \A v \in Workers, id \in Ids, j \in Jobs :
              InFlight(v, id, j)' =>
                InFlight(v, id, j) \/ (v = w /\ id = m.id /\ j = m.job)
<1>1. CASE Gone(w)
  BY <1>1 DEF Posted, PoolTypes, HasAnswer, InFlight
<1>2. CASE ~Gone(w)
  <2>1. /\ inbox' = [inbox EXCEPT ![w] = Append(<< >>, m)]
        /\ Append(<< >>, m) \in Seq([id : Ids, job : Jobs])
        /\ Append(<< >>, m) # << >> /\ Len(Append(<< >>, m)) = 1
        /\ Append(<< >>, m)[1] = m
    BY <1>2 DEF Posted
  <2>2. /\ inbox' \in [Workers -> Seq([id : Ids, job : Jobs])]
        /\ inbox'[w] = Append(<< >>, m)
        /\ \A v \in Workers : v # w => inbox'[v] = inbox[v]
    <3>1. inbox \in [Workers -> Seq([id : Ids, job : Jobs])]
      BY DEF PoolTypes
    <3> DEFINE q == Append(<< >>, m)
    <3>2. q \in Seq([id : Ids, job : Jobs]) /\ inbox' = [inbox EXCEPT ![w] = q]
      BY <2>1
    <3> HIDE DEF q
    <3>3. /\ inbox' \in [Workers -> Seq([id : Ids, job : Jobs])]
          /\ inbox'[w] = q
          /\ \A v \in Workers : v # w => inbox'[v] = inbox[v]
      BY <3>1, <3>2
    <3>4. QED
      BY <3>3 DEF q
  <2>3. \A n \in 1..Len(inbox'[w]) : inbox'[w][n] = m
    BY <2>1, <2>2
  <2>4. \A v \in Workers : HasAnswer(v)' <=> HasAnswer(v)
    BY DEF HasAnswer
  <2>5. ASSUME NEW id \in Ids, NEW j \in Jobs, InFlight(w, id, j)'
        PROVE  InFlight(w, id, j) \/ (id = m.id /\ j = m.job)
    BY <2>3, <2>5 DEF InFlight
  <2>6. ASSUME NEW v \in Workers, NEW id \in Ids, NEW j \in Jobs, InFlight(v, id, j)', v # w
        PROVE  InFlight(v, id, j)
    BY <2>2, <2>6 DEF InFlight
  <2>7. inbox'[w] # << >> /\ Len(inbox'[w]) = 1
    BY <2>1, <2>2
  <2>8. QED
    BY <1>2, <2>2, <2>4, <2>5, <2>6, <2>7
<1>3. QED
  BY <1>1, <1>2

(* The list of free workers.                                               *)
LEMMA IdleAppended ==
  ASSUME idle \in Seq(Workers), NEW w \in Workers, idle' = Append(idle, w)
  PROVE  /\ idle' \in Seq(Workers)
         /\ \A v \in Workers : IsIdle(v)' <=> IsIdle(v) \/ v = w
         /\ IdleOnce /\ ~IsIdle(w) => IdleOnce'
<1>1. /\ idle' \in Seq(Workers) /\ Len(idle) \in Nat /\ Len(idle') = Len(idle) + 1
      /\ \A n \in 1..Len(idle) : idle'[n] = idle[n]
      /\ idle'[Len(idle) + 1] = w
  BY QueueAppend, LenProperties
<1>2. \A n \in 1..Len(idle') : n \in 1..Len(idle) \/ n = Len(idle) + 1
  BY <1>1
<1>3. \A n \in 1..Len(idle) : n \in 1..Len(idle')
  BY <1>1
<1>4. Len(idle) + 1 \in 1..Len(idle')
  BY <1>1
<1>5. QED
  BY <1>1, <1>2, <1>3, <1>4 DEF IsIdle, IdleOnce

LEMMA IdleTaken ==
  ASSUME idle \in Seq(Workers), idle # << >>, idle' = Tail(idle), IdleOnce
  PROVE  /\ idle' \in Seq(Workers) /\ IdleOnce'
         /\ Head(idle) \in Workers /\ IsIdle(Head(idle))
         /\ \A v \in Workers : IsIdle(v)' <=> IsIdle(v) /\ v # Head(idle)
<1>1. /\ idle' \in Seq(Workers) /\ Head(idle) \in Workers /\ Head(idle) = idle[1]
      /\ Len(idle) \in Nat /\ Len(idle) > 0 /\ Len(idle') = Len(idle) - 1
      /\ \A n \in 1..Len(idle') : idle'[n] = idle[n + 1]
  BY QueueTail
<1>2. \A n \in 1..Len(idle') : n + 1 \in 1..Len(idle) /\ idle'[n] = idle[n + 1]
  BY <1>1
<1>3. \A n \in 1..Len(idle) : n # 1 => n - 1 \in 1..Len(idle') /\ idle'[n - 1] = idle[n]
  BY <1>1
<1>4. 1 \in 1..Len(idle) /\ \A n \in 1..Len(idle') : n + 1 # 1
  BY <1>1
<1>5. IdleOnce'
  <2>1. ASSUME NEW m \in 1..Len(idle'), NEW n \in 1..Len(idle'), idle'[m] = idle'[n]
        PROVE  m = n
    <3>1. m + 1 = n + 1
      BY <1>2, <2>1 DEF IdleOnce
    <3>2. QED
      BY <3>1
  <2>2. QED
    BY <2>1 DEF IdleOnce
<1>6. \A v \in Workers : IsIdle(v)' <=> IsIdle(v) /\ v # Head(idle)
  <2>1. ASSUME NEW v \in Workers, IsIdle(v)' PROVE IsIdle(v) /\ v # Head(idle)
    <3>1. PICK n \in 1..Len(idle') : idle'[n] = v
      BY <2>1 DEF IsIdle
    <3>2. n + 1 \in 1..Len(idle) /\ idle[n + 1] = v /\ n + 1 # 1
      BY <3>1, <1>2, <1>4
    <3>3. idle[n + 1] # idle[1]
      BY <3>2, <1>4 DEF IdleOnce
    <3>4. QED
      BY <3>2, <3>3, <1>1 DEF IsIdle
  <2>2. ASSUME NEW v \in Workers, IsIdle(v), v # Head(idle) PROVE IsIdle(v)'
    BY <2>2, <1>1, <1>3 DEF IsIdle
  <2>3. QED
    BY <2>1, <2>2
<1>7. QED
  BY <1>1, <1>4, <1>5, <1>6 DEF IsIdle

(* The first news of a worker makes it free, later ones change nothing.    *)
LEMMA Known ==
  ASSUME PoolTypes, NEW w \in Workers, BecomesKnown(w)
  PROVE  /\ readyFlags' \in [Workers -> BOOLEAN] /\ idle' \in Seq(Workers)
         /\ readyFlags'[w]
         /\ \A v \in Workers : v # w => (readyFlags'[v] <=> readyFlags[v])
         /\ \A v \in Workers : IsIdle(v)' <=> IsIdle(v) \/ (v = w /\ ~readyFlags[w])
         /\ IdleOnce /\ (~readyFlags[w] => ~IsIdle(w)) => IdleOnce'
<1>1. idle \in Seq(Workers) /\ readyFlags \in [Workers -> BOOLEAN]
  BY DEF PoolTypes
<1>2. CASE readyFlags[w]
  BY <1>1, <1>2 DEF BecomesKnown, IsIdle, IdleOnce
<1>3. CASE ~readyFlags[w]
  <2>1. idle' = Append(idle, w) /\ readyFlags' = [readyFlags EXCEPT ![w] = TRUE]
    BY <1>3 DEF BecomesKnown
  <2>2. /\ readyFlags' \in [Workers -> BOOLEAN] /\ readyFlags'[w]
        /\ \A v \in Workers : v # w => (readyFlags'[v] <=> readyFlags[v])
    BY <1>1, <2>1
  <2>3. QED
    BY <1>1, <1>3, <2>1, <2>2, IdleAppended
<1>4. QED
  BY <1>2, <1>3

------------------------------------------------------------------------------
(* Every step of the pool keeps the types.                                 *)
LEMMA PoolInitTypes == PoolInit => PoolTypes
<1> SUFFICES ASSUME PoolInit PROVE PoolTypes
  OBVIOUS
<1>1. /\ << >> \in Seq([id : Ids, job : Jobs])
      /\ << >> \in Seq([id : Ids, job : Jobs, as : Answers] \union {ReadyMessage})
      /\ << >> \in Seq(Workers)
  BY EmptySeq
<1>2. /\ inbox \in [Workers -> Seq([id : Ids, job : Jobs])]
      /\ outbox \in [Workers ->
           Seq([id : Ids, job : Jobs, as : Answers] \union {ReadyMessage})]
      /\ idle \in Seq(Workers)
  BY <1>1 DEF PoolInit
<1>3. QED
  BY <1>2 DEF PoolInit, PoolTypes

LEMMA LoadsTypes ==
  ASSUME PoolTypes, NEW w \in Workers, Loads(w)
  PROVE  PoolTypes'
<1>1. thread' \in [Workers -> {"loading", "up", "failed", "dead"}]
  BY DEF PoolTypes, Loads
<1>2. root' \in [Workers -> BOOLEAN] /\ rootless' \in BOOLEAN
  BY DEF PoolTypes, Loads, LoadOutcomes, setProtoRoot
<1>3. outbox' \in [Workers -> Seq(OutType)]
  <2>1. outbox[w] \in Seq(OutType) /\ outbox \in [Workers -> Seq(OutType)]
    BY DEF PoolTypes, OutType, MessageType
  <2>2. Append(outbox[w], ReadyMessage) \in Seq(OutType)
    BY <2>1, ReadyIsNoAnswer, QueueAppend
  <2>3. QED
    BY <2>1, <2>2 DEF Loads
<1>4. QED
  BY <1>1, <1>2, <1>3 DEF PoolTypes, Loads, OutType, MessageType

LEMMA DecodesTypes ==
  ASSUME PoolTypes, NEW w \in Workers, Decodes(w)
  PROVE  PoolTypes'
<1>1. outbox' \in [Workers -> Seq(OutType)]
  <2>1. PICK as \in Answers :
          /\ outbox' = [outbox EXCEPT ![w] = Append(@, Answer(Head(inbox[w]), as))]
          /\ Answer(Head(inbox[w]), as) \in OutType
    BY Decoded
  <2>2. outbox[w] \in Seq(OutType) /\ outbox \in [Workers -> Seq(OutType)]
    BY DEF PoolTypes, OutType, MessageType
  <2>3. Append(outbox[w], Answer(Head(inbox[w]), as)) \in Seq(OutType)
    BY <2>1, <2>2, QueueAppend
  <2>4. QED
    BY <2>1, <2>2, <2>3
<1>2. inbox' \in [Workers -> Seq([id : Ids, job : Jobs])]
  <2>1. /\ inbox \in [Workers -> Seq([id : Ids, job : Jobs])] /\ inbox[w] # << >>
        /\ inbox' = [inbox EXCEPT ![w] = Tail(@)]
    BY DEF PoolTypes, Decodes
  <2>2. Tail(inbox[w]) \in Seq([id : Ids, job : Jobs])
    BY <2>1, QueueTail
  <2>3. QED
    BY <2>1, <2>2
<1>3. QED
  BY <1>1, <1>2 DEF PoolTypes, Decodes, poolVars, OutType, MessageType

LEMMA DiesTypes ==
  ASSUME PoolTypes, NEW w \in Workers, Dies(w)
  PROVE  PoolTypes'
<1>1. inbox' \in [Workers -> Seq([id : Ids, job : Jobs])]
  <2>1. << >> \in Seq([id : Ids, job : Jobs])
    BY EmptySeq
  <2>2. QED
    BY <2>1 DEF PoolTypes, Dies
<1>2. QED
  BY <1>1 DEF PoolTypes, Dies, poolVars

LEMMA TakenTypes ==
  ASSUME PoolTypes, NEW w \in Workers, outbox[w] # << >>,
         outbox' = [outbox EXCEPT ![w] = Tail(@)]
  PROVE  outbox' \in [Workers -> Seq(OutType)]
<1>1. outbox \in [Workers -> Seq(OutType)]
  BY DEF PoolTypes, OutType, MessageType
<1>2. Tail(outbox[w]) \in Seq(OutType)
  BY <1>1, QueueTail
<1>3. QED
  BY <1>1, <1>2

LEMMA HearsTypes ==
  ASSUME PoolTypes, NEW w \in Workers, PoolHears(w)
  PROVE  PoolTypes'
<1>1. CASE InitTimeout(w)
  BY <1>1, Known DEF PoolTypes, InitTimeout, threadVars
<1>2. CASE OnReady(w)
  <2>1. /\ outbox' \in [Workers -> Seq(OutType)] /\ BecomesKnown(w)
        /\ UNCHANGED <<thread, root, inbox, rootless, collided, pending, job, answer>>
    BY <1>2, TakenTypes DEF OnReady, Receives
  <2>2. QED
    BY <2>1, Known DEF PoolTypes, OutType, MessageType
<1>3. CASE OnAnswer(w)
  <2> DEFINE m == Head(outbox[w])
  <2>1. /\ outbox[w] # << >> /\ ~IsReady(m)
        /\ outbox' = [outbox EXCEPT ![w] = Tail(@)]
        /\ UNCHANGED <<thread, root, inbox, rootless, collided, readyFlags>>
    BY <1>3 DEF OnAnswer, Receives
  <2>2. m \in OutType /\ outbox' \in [Workers -> Seq(OutType)]
    BY <2>1, AnswerTaken, TakenTypes
  <2>3. m \in MessageType /\ m.id \in Ids /\ m.job \in Jobs /\ m.as \in Answers
    BY <2>1, <2>2, ReadyIsNoAnswer
  <2>4. CASE UNCHANGED <<idle, pending, job, answer>>
    BY <2>1, <2>2, <2>4 DEF PoolTypes, OutType, MessageType
  <2>5. ASSUME NEW j \in EntryOf(m),
               pending' = [pending EXCEPT ![m.id] = NoJob],
               idle' = Freed(w, m),
               job' = [job EXCEPT ![j] = Outcome(m)],
               answer' = [answer EXCEPT ![j] = [job |-> m.job, as |-> m.as]]
        PROVE  PoolTypes'
    <3>1. j \in Jobs
      BY <2>3 DEF EntryOf, PoolTypes
    <3>2. pending' \in [Ids -> Jobs \union {NoJob}]
      BY <2>5 DEF PoolTypes
    <3>3. job' \in [Jobs -> {"new", "waiting", "sent", "resolved", "rejected"}]
      BY <2>5 DEF PoolTypes, Outcome
    <3>4. answer' \in [Jobs -> [job : Jobs, as : Answers] \union {NoAnswer}]
      <4>1. [job |-> m.job, as |-> m.as] \in [job : Jobs, as : Answers]
        BY <2>3
      <4>2. QED
        BY <4>1, <2>5 DEF PoolTypes
    <3>5. idle' \in Seq(Workers)
      BY <2>5, IdleAppended DEF PoolTypes, Freed
    <3>6. QED
      BY <2>1, <2>2, <3>2, <3>3, <3>4, <3>5 DEF PoolTypes, OutType, MessageType
  <2>6. QED
    BY <1>3, <2>4, <2>5 DEF OnAnswer
<1>4. CASE OnError(w)
  <2>1. /\ thread' \in [Workers -> {"loading", "up", "failed", "dead"}]
        /\ pending' \in [Ids -> Jobs \union {NoJob}]
        /\ job' \in [Jobs -> {"new", "waiting", "sent", "resolved", "rejected"}]
    BY <1>4 DEF PoolTypes, OnError
  <2>2. QED
    BY <1>4, <2>1, Known DEF PoolTypes, OnError
<1>5. QED
  BY <1>1, <1>2, <1>3, <1>4 DEF PoolHears

LEMMA DispatchTypes ==
  ASSUME PoolTypes, FreeInv, NEW j \in Jobs, Dispatch(j)
  PROVE  PoolTypes' /\ Head(idle) \in Workers /\ IsIdle(Head(idle))
<1>1. PICK id \in Drawn :
        /\ pending' = [pending EXCEPT ![id] = j]
        /\ collided' = (collided \/ InUse(id))
        /\ inbox' = Posted(Head(idle), Message(id, j))
  BY DEF Dispatch
<1>2. id \in Ids /\ Message(id, j) \in [id : Ids, job : Jobs]
  BY DEF Drawn, Message
<1>3. idle \in Seq(Workers) /\ idle # << >> /\ idle' = Tail(idle) /\ IdleOnce
  BY DEF PoolTypes, Dispatch, FreeInv, IdleOnce
<1>4. idle' \in Seq(Workers) /\ Head(idle) \in Workers /\ IsIdle(Head(idle))
  BY <1>3, IdleTaken
<1>5. outbox' = outbox /\ inbox[Head(idle)] = << >>
  BY <1>4 DEF Dispatch, FreeInv
<1>6. inbox' \in [Workers -> Seq([id : Ids, job : Jobs])]
  BY <1>1, <1>2, <1>4, <1>5, JobPosted
<1>7. /\ pending' \in [Ids -> Jobs \union {NoJob}]
      /\ job' \in [Jobs -> {"new", "waiting", "sent", "resolved", "rejected"}]
      /\ collided' \in BOOLEAN
  BY <1>1, <1>2 DEF PoolTypes, Dispatch, InUse
<1>8. QED
  BY <1>4, <1>6, <1>7 DEF PoolTypes, Dispatch

------------------------------------------------------------------------------
(* No worker is free while it carries something, and none carries two.     *)
LEMMA OnceAfterPost ==
  ASSUME PoolTypes, NEW w \in Workers, NEW m \in OutType,
         outbox' = [outbox EXCEPT ![w] = Append(@, m)],
         AnswerOnce(w), IsReady(m) \/ ~HasAnswer(w)
  PROVE  AnswerOnce(w)'
<1>1. outbox[w] \in Seq(OutType) /\ Len(outbox[w]) \in Nat
  <2>1. outbox[w] \in Seq(OutType)
    BY DEF PoolTypes, OutType, MessageType
  <2>2. QED
    BY <2>1, LenProperties
<1>2. outbox'[w] = Append(outbox[w], m)
  BY DEF PoolTypes
<1>3. /\ \A n \in 1..Len(outbox'[w]) : n \in 1..Len(outbox[w]) \/ n = Len(outbox[w]) + 1
      /\ \A n \in 1..Len(outbox[w]) : outbox'[w][n] = outbox[w][n]
      /\ outbox'[w][Len(outbox[w]) + 1] = m
  BY <1>1, <1>2, QueueAppend
<1>4. QED
  BY <1>3 DEF AnswerOnce, HasAnswer

LEMMA OnceAfterTaken ==
  ASSUME PoolTypes, NEW w \in Workers, outbox[w] # << >>,
         outbox' = [outbox EXCEPT ![w] = Tail(@)], inbox' = inbox,
         \A v \in Workers : AnswerOnce(v)
  PROVE  \A v \in Workers : AnswerOnce(v)'
<1>1. /\ \A n \in 1..Len(outbox'[w]) :
           n + 1 \in 1..Len(outbox[w]) /\ outbox'[w][n] = outbox[w][n + 1]
      /\ \A v \in Workers : v # w => outbox'[v] = outbox[v]
  BY AnswerTaken
<1>2. ASSUME NEW m \in 1..Len(outbox'[w]), NEW n \in 1..Len(outbox'[w]),
             ~IsReady(outbox'[w][m]), ~IsReady(outbox'[w][n])
      PROVE  m = n
  <2>1. m + 1 = n + 1
    BY <1>1, <1>2 DEF AnswerOnce
  <2>2. QED
    BY <2>1
<1>3. QED
  BY <1>1, <1>2 DEF AnswerOnce

LEMMA ThreadKeepsFree ==
  ASSUME PoolTypes, FreeInv, NEW w \in Workers, ThreadStep(w)
  PROVE  FreeInv'
<1>1. /\ UNCHANGED <<idle, readyFlags>>
      /\ IdleOnce' /\ \A v \in Workers : IsIdle(v)' <=> IsIdle(v)
  <2>1. UNCHANGED <<idle, readyFlags>>
    BY DEF ThreadStep, Loads, Decodes, Dies, poolVars
  <2>2. QED
    BY <2>1 DEF FreeInv, IdleOnce, IsIdle
<1>2. CASE Loads(w)
  <2>1. /\ inbox' = inbox
        /\ outbox' = [outbox EXCEPT ![w] = Append(@, ReadyMessage)]
    BY <1>2 DEF Loads
  <2>2. \A v \in Workers : HasAnswer(v)' <=> HasAnswer(v)
    BY <2>1, ReadyPosted
  <2>3. AnswerOnce(w)'
    BY <2>1, OnceAfterPost, ReadyIsNoAnswer DEF FreeInv
  <2>4. \A v \in Workers : AnswerOnce(v)'
    <3>1. \A v \in Workers : v # w => outbox'[v] = outbox[v]
      BY <2>1 DEF PoolTypes
    <3>2. QED
      BY <2>3, <3>1 DEF FreeInv, AnswerOnce
  <2>5. QED
    BY <1>1, <2>1, <2>2, <2>4 DEF FreeInv
<1>3. CASE Decodes(w)
  <2>1. inbox[w] # << >> /\ inbox' = [inbox EXCEPT ![w] = Tail(@)]
    BY <1>3 DEF Decodes
  <2>2. readyFlags[w] /\ Len(inbox[w]) = 1 /\ ~HasAnswer(w) /\ ~IsIdle(w)
    BY <2>1 DEF FreeInv
  <2>3. inbox'[w] = << >>
    <3>1. Tail(inbox[w]) \in Seq([id : Ids, job : Jobs]) /\ Len(Tail(inbox[w])) = 0
      <4>1. inbox[w] \in Seq([id : Ids, job : Jobs])
        BY DEF PoolTypes
      <4>2. QED
        BY <4>1, <2>1, <2>2, QueueTail
    <3>2. Tail(inbox[w]) = << >>
      BY <3>1, EmptySeq
    <3>3. QED
      BY <2>1, <3>2 DEF PoolTypes
  <2>4. /\ HasAnswer(w)'
        /\ \A v \in Workers : v # w =>
             /\ HasAnswer(v)' <=> HasAnswer(v)
             /\ inbox'[v] = inbox[v] /\ outbox'[v] = outbox[v]
    BY <1>3, Decoded
  <2>5. AnswerOnce(w)'
    <3>1. PICK as \in Answers :
            /\ outbox' = [outbox EXCEPT ![w] = Append(@, Answer(Head(inbox[w]), as))]
            /\ Answer(Head(inbox[w]), as) \in OutType
      BY <1>3, Decoded
    <3>2. AnswerOnce(w)
      BY DEF FreeInv
    <3>3. QED
      BY <3>1, <3>2, <2>2, OnceAfterPost
  <2>6. \A v \in Workers : AnswerOnce(v)'
    BY <2>4, <2>5 DEF FreeInv, AnswerOnce
  <2>7. QED
    BY <1>1, <2>2, <2>3, <2>4, <2>6 DEF FreeInv
<1>4. CASE Dies(w)
  <2>1. /\ outbox' = outbox /\ inbox'[w] = << >>
        /\ \A v \in Workers : v # w => inbox'[v] = inbox[v]
    BY <1>4 DEF Dies, PoolTypes
  <2>2. \A v \in Workers : (HasAnswer(v)' <=> HasAnswer(v)) /\ AnswerOnce(v)'
    BY <2>1 DEF HasAnswer, AnswerOnce, FreeInv
  <2>3. QED
    BY <1>1, <2>1, <2>2 DEF FreeInv
<1>5. QED
  BY <1>2, <1>3, <1>4 DEF ThreadStep

(* A worker becomes known while it carries nothing.                        *)
LEMMA KnownKeepsFree ==
  ASSUME PoolTypes, FreeInv, NEW w \in Workers, BecomesKnown(w), inbox' = inbox,
         \A v \in Workers : HasAnswer(v)' <=> HasAnswer(v),
         \A v \in Workers : AnswerOnce(v)'
  PROVE  FreeInv'
<1>1. ~readyFlags[w] => inbox[w] = << >> /\ ~HasAnswer(w) /\ ~IsIdle(w)
  BY DEF FreeInv
<1>2. IdleOnce
  BY DEF FreeInv
<1>3. /\ readyFlags'[w] /\ IdleOnce'
      /\ \A v \in Workers : v # w => (readyFlags'[v] <=> readyFlags[v])
      /\ \A v \in Workers : IsIdle(v)' <=> IsIdle(v) \/ (v = w /\ ~readyFlags[w])
  BY <1>1, <1>2, Known
<1>4. QED
  BY <1>1, <1>3 DEF FreeInv

LEMMA HearsKeepsFree ==
  ASSUME PoolTypes, FreeInv, NEW w \in Workers, PoolHears(w)
  PROVE  FreeInv'
<1>1. CASE UNCHANGED <<inbox, outbox>> /\ BecomesKnown(w)
  <2>1. \A v \in Workers : (HasAnswer(v)' <=> HasAnswer(v)) /\ AnswerOnce(v)'
    BY <1>1 DEF HasAnswer, AnswerOnce, FreeInv
  <2>2. QED
    BY <1>1, <2>1, KnownKeepsFree
<1>2. CASE OnReady(w)
  <2>1. /\ outbox[w] # << >> /\ Head(outbox[w]) = ReadyMessage
        /\ outbox' = [outbox EXCEPT ![w] = Tail(@)] /\ inbox' = inbox
        /\ BecomesKnown(w)
    BY <1>2 DEF OnReady, Receives
  <2>2. \A v \in Workers : HasAnswer(v)' <=> HasAnswer(v)
    BY <2>1, ReadyTaken
  <2>3. \A v \in Workers : AnswerOnce(v)'
    BY <2>1, OnceAfterTaken DEF FreeInv
  <2>4. QED
    BY <2>1, <2>2, <2>3, KnownKeepsFree
<1>3. CASE OnAnswer(w)
  <2>1. /\ outbox[w] # << >> /\ ~IsReady(Head(outbox[w]))
        /\ outbox' = [outbox EXCEPT ![w] = Tail(@)]
        /\ UNCHANGED <<inbox, readyFlags>>
        /\ idle' = idle \/ idle' = Append(idle, w)
    BY <1>3 DEF OnAnswer, Receives, Freed
  <2>2. /\ HasAnswer(w) /\ inbox[w] = << >> /\ ~HasAnswer(w)'
        /\ \A v \in Workers : v # w => (HasAnswer(v)' <=> HasAnswer(v))
    BY <2>1, LastTaken
  <2>3. readyFlags[w] /\ ~IsIdle(w)
    BY <2>2 DEF FreeInv
  <2>4. \A v \in Workers : AnswerOnce(v)'
    BY <2>1, OnceAfterTaken DEF FreeInv
  <2>5. IdleOnce' /\ \A v \in Workers : IsIdle(v)' => IsIdle(v) \/ v = w
    <3>1. CASE idle' = idle
      BY <3>1 DEF FreeInv, IdleOnce, IsIdle
    <3>2. CASE idle' = Append(idle, w)
      BY <3>2, <2>3, IdleAppended DEF FreeInv, PoolTypes
    <3>3. QED
      BY <3>1, <3>2, <2>1
  <2>6. QED
    BY <2>1, <2>2, <2>3, <2>4, <2>5 DEF FreeInv
<1>4. QED
  BY <1>1, <1>2, <1>3 DEF PoolHears, InitTimeout, OnError, threadVars

LEMMA DispatchKeepsFree ==
  ASSUME PoolTypes, FreeInv, NEW j \in Jobs, Dispatch(j)
  PROVE  FreeInv'
<1> DEFINE w == Head(idle)
<1>1. PICK id \in Drawn : inbox' = Posted(w, Message(id, j))
  BY DEF Dispatch
<1>2. Message(id, j) \in [id : Ids, job : Jobs]
  BY DEF Drawn, Message
<1>3. /\ w \in Workers /\ IsIdle(w)
      /\ IdleOnce' /\ \A v \in Workers : IsIdle(v)' <=> IsIdle(v) /\ v # w
  BY IdleTaken DEF PoolTypes, FreeInv, Dispatch
<1>4. /\ inbox[w] = << >> /\ ~HasAnswer(w) /\ outbox' = outbox
      /\ readyFlags' = readyFlags /\ \A v \in Workers : readyFlags[v]
  BY <1>3 DEF FreeInv, Dispatch
<1> HIDE DEF w
<1>5. /\ \A v \in Workers : v # w => inbox'[v] = inbox[v]
      /\ \A v \in Workers : HasAnswer(v)' <=> HasAnswer(v)
      /\ inbox'[w] # << >> => Len(inbox'[w]) = 1
  BY <1>1, <1>2, <1>3, <1>4, JobPosted
<1>6. \A v \in Workers : AnswerOnce(v)'
  BY <1>4 DEF FreeInv, AnswerOnce
<1>7. QED
  BY <1>3, <1>4, <1>5, <1>6 DEF FreeInv

------------------------------------------------------------------------------
(* What is kept under the id of a message.                                 *)
LEMMA ThreadKeepsFlight ==
  ASSUME PoolTypes, FreeInv, FlightInv, NEW w \in Workers, ThreadStep(w)
  PROVE  FlightInv'
<1>1. /\ UNCHANGED <<idle, readyFlags, pending, collided>>
      /\ \A v \in Workers : IsIdle(v)' <=> IsIdle(v)
  <2>1. UNCHANGED <<idle, readyFlags, pending, collided>>
    BY DEF ThreadStep, Loads, Decodes, Dies, poolVars
  <2>2. QED
    BY <2>1 DEF IsIdle
<1>2. CASE Loads(w)
  <2>1. /\ inbox' = inbox
        /\ outbox' = [outbox EXCEPT ![w] = Append(@, ReadyMessage)]
        /\ AnyError' <=> AnyError
    BY <1>2 DEF Loads, AnyError, Gone, PoolTypes
  <2>2. /\ \A v \in Workers : HasAnswer(v)' <=> HasAnswer(v)
        /\ \A v \in Workers, id \in Ids, j \in Jobs :
             InFlight(v, id, j)' <=> InFlight(v, id, j)
    BY <2>1, ReadyPosted
  <2>3. QED
    BY <1>1, <2>1, <2>2 DEF FlightInv
<1>3. CASE Decodes(w)
  <2>1. /\ HasAnswer(w)'
        /\ \A v \in Workers : v # w =>
             (HasAnswer(v)' <=> HasAnswer(v)) /\ inbox'[v] = inbox[v]
        /\ \A v \in Workers, id \in Ids, j \in Jobs :
             InFlight(v, id, j)' <=> InFlight(v, id, j)
    BY <1>3, Decoded
  <2>2. AnyError' <=> AnyError
    BY <1>3 DEF Decodes, AnyError, Gone
  <2>3. QED
    BY <1>1, <2>1, <2>2 DEF FlightInv
<1>4. CASE Dies(w)
  <2>1. AnyError'
    BY <1>4 DEF Dies, AnyError, Gone, PoolTypes
  <2>2. /\ outbox' = outbox /\ inbox'[w] = << >>
        /\ \A v \in Workers : v # w => inbox'[v] = inbox[v]
    BY <1>4 DEF Dies, PoolTypes
  <2>3. \A v \in Workers, id \in Ids, j \in Jobs :
          InFlight(v, id, j)' => InFlight(v, id, j)
    BY <2>2 DEF InFlight
  <2>4. QED
    BY <1>1, <2>1, <2>3 DEF FlightInv
<1>5. QED
  BY <1>2, <1>3, <1>4 DEF ThreadStep

(* The job an answer settles is the one it is the answer to.               *)
LEMMA AnswersItsJob ==
  ASSUME PoolTypes, FreeInv, FlightInv, ~collided, NEW w \in Workers,
         outbox[w] # << >>, ~IsReady(Head(outbox[w])),
         outbox' = [outbox EXCEPT ![w] = Tail(@)], inbox' = inbox
  PROVE  /\ Head(outbox[w]) \in MessageType
         /\ EntryOf(Head(outbox[w])) \subseteq {Head(outbox[w]).job}
         /\ ~AnyError => EntryOf(Head(outbox[w])) # {}
<1> DEFINE m == Head(outbox[w])
<1>1. InFlight(w, m.id, m.job)
  BY LastTaken
<1>2. m \in MessageType /\ m.id \in Ids /\ m.job \in Jobs
  BY AnswerTaken, ReadyIsNoAnswer
<1> HIDE DEF m
<1>3. pending[m.id] \in {m.job, NoJob} /\ (~AnyError => pending[m.id] = m.job)
  BY <1>1, <1>2 DEF FlightInv
<1>4. EntryOf(m) \subseteq {m.job} /\ (~AnyError => EntryOf(m) # {})
  BY <1>2, <1>3, PoolAssumption DEF EntryOf
<1>5. QED
  BY <1>2, <1>4 DEF m

LEMMA HearsKeepsFlight ==
  ASSUME PoolTypes, FreeInv, FlightInv, NEW w \in Workers, PoolHears(w)
  PROVE  FlightInv'
<1> SUFFICES ASSUME ~collided' PROVE FlightInv'
  BY DEF FlightInv
<1>1. ~collided
  BY DEF PoolHears, InitTimeout, OnReady, OnAnswer, OnError, Receives
<1>2. ASSUME BecomesKnown(w), UNCHANGED <<inbox, thread, pending>>,
             \A v \in Workers : HasAnswer(v)' <=> HasAnswer(v),
             \A v \in Workers, id \in Ids, j \in Jobs :
               InFlight(v, id, j)' <=> InFlight(v, id, j)
      PROVE  FlightInv'
  <2>1. /\ \A v \in Workers : v # w => (readyFlags'[v] <=> readyFlags[v])
        /\ \A v \in Workers : IsIdle(v)' <=> IsIdle(v) \/ (v = w /\ ~readyFlags[w])
    BY <1>2, Known
  <2>2. AnyError' <=> AnyError
    BY <1>2 DEF AnyError, Gone
  <2>3. QED
    BY <1>1, <1>2, <2>1, <2>2 DEF FlightInv
<1>3. CASE InitTimeout(w)
  <2>1. BecomesKnown(w) /\ UNCHANGED <<inbox, outbox, thread, pending>>
    BY <1>3 DEF InitTimeout, threadVars
  <2>2. QED
    BY <2>1, <1>2 DEF HasAnswer, InFlight
<1>4. CASE OnReady(w)
  <2>1. /\ outbox[w] # << >> /\ Head(outbox[w]) = ReadyMessage
        /\ outbox' = [outbox EXCEPT ![w] = Tail(@)]
        /\ BecomesKnown(w) /\ UNCHANGED <<inbox, thread, pending>>
    BY <1>4 DEF OnReady, Receives
  <2>2. QED
    BY <2>1, <1>2, ReadyTaken
<1>5. CASE OnError(w)
  <2>1. thread' = [thread EXCEPT ![w] = "dead"] /\ UNCHANGED <<inbox, outbox>>
    BY <1>5 DEF OnError
  <2>2. AnyError'
    BY <2>1 DEF AnyError, Gone, PoolTypes
  <2>3. \A v \in Workers, id \in Ids, j \in Jobs :
          InFlight(v, id, j)' <=> InFlight(v, id, j)
    BY <2>1 DEF InFlight
  <2>4. \A id \in Ids : pending'[id] = NoJob
    BY <1>5 DEF OnError
  <2>5. QED
    BY <1>1, <2>2, <2>3, <2>4 DEF FlightInv
<1>6. CASE OnAnswer(w)
  <2> DEFINE m == Head(outbox[w])
  <2>1. /\ outbox[w] # << >> /\ ~IsReady(m)
        /\ outbox' = [outbox EXCEPT ![w] = Tail(@)]
        /\ UNCHANGED <<inbox, thread, readyFlags>>
    BY <1>6 DEF OnAnswer, Receives
  <2>2. /\ InFlight(w, m.id, m.job)
        /\ \A id \in Ids, j \in Jobs : ~InFlight(w, id, j)'
        /\ \A v \in Workers : v # w =>
             /\ HasAnswer(v)' <=> HasAnswer(v)
             /\ \A id \in Ids, j \in Jobs :
                  InFlight(v, id, j)' <=> InFlight(v, id, j)
    BY <2>1, LastTaken
  <2>3. /\ m \in MessageType /\ EntryOf(m) \subseteq {m.job}
        /\ ~AnyError => EntryOf(m) # {}
    BY <2>1, <1>1, AnswersItsJob
  <2>4. m.id \in Ids /\ m.job \in Jobs
    BY <2>3 DEF MessageType
  <2>5. AnyError' <=> AnyError
    BY <2>1 DEF AnyError, Gone
  <2>6. \/ EntryOf(m) = {} /\ UNCHANGED <<idle, pending>>
        \/ pending' = [pending EXCEPT ![m.id] = NoJob] /\ idle' = Append(idle, w)
    BY <1>6 DEF OnAnswer, Freed
  <2> HIDE DEF m
  <2>7. \A v \in Workers, id \in Ids, j \in Jobs :
          v # w /\ InFlight(v, id, j) => id # m.id
    BY <2>2, <2>4, <1>1 DEF FlightInv
  <2>8. \A id \in Ids : id # m.id => pending'[id] = pending[id]
    BY <2>6 DEF PoolTypes
  <2>9. \A v \in Workers, id \in Ids, j \in Jobs :
          InFlight(v, id, j)' => v # w /\ InFlight(v, id, j) /\ pending'[id] = pending[id]
    BY <2>2, <2>7, <2>8
  <2>10. ~AnyError => \A v \in Workers : IsIdle(v)' <=> IsIdle(v) \/ v = w
    BY <2>3, <2>6, IdleAppended DEF PoolTypes
  <2>11. QED
    BY <1>1, <2>1, <2>2, <2>5, <2>9, <2>10 DEF FlightInv
<1>7. QED
  BY <1>3, <1>4, <1>5, <1>6 DEF PoolHears

LEMMA DispatchKeepsFlight ==
  ASSUME PoolTypes, FreeInv, FlightInv, NEW j \in Jobs, Dispatch(j)
  PROVE  FlightInv'
<1> SUFFICES ASSUME ~collided' PROVE FlightInv'
  BY DEF FlightInv
<1> DEFINE w == Head(idle)
<1>1. PICK id \in Drawn :
        /\ pending' = [pending EXCEPT ![id] = j]
        /\ collided' = (collided \/ InUse(id))
        /\ inbox' = Posted(w, Message(id, j))
  BY DEF Dispatch
<1>2. /\ id \in Ids /\ Message(id, j) \in [id : Ids, job : Jobs]
      /\ Message(id, j).id = id /\ Message(id, j).job = j
  BY DEF Drawn, Message
<1>3. /\ w \in Workers /\ IsIdle(w)
      /\ \A v \in Workers : IsIdle(v)' <=> IsIdle(v) /\ v # w
  BY IdleTaken DEF PoolTypes, FreeInv, Dispatch
<1>4. /\ inbox[w] = << >> /\ UNCHANGED <<outbox, thread, readyFlags>>
  BY <1>3 DEF FreeInv, Dispatch
<1> HIDE DEF w
<1>5. ~collided /\ \A v \in Workers, i \in Jobs : ~InFlight(v, id, i)
  BY <1>1 DEF InUse, InFlight
<1>6. /\ \A v \in Workers : v # w => inbox'[v] = inbox[v]
      /\ \A v \in Workers : HasAnswer(v)' <=> HasAnswer(v)
      /\ ~Gone(w) => inbox'[w] # << >>
      /\ \A v \in Workers, k \in Ids, i \in Jobs :
           InFlight(v, k, i)' => InFlight(v, k, i) \/ (v = w /\ k = id /\ i = j)
  BY <1>1, <1>2, <1>3, <1>4, JobPosted
<1>7. pending'[id] = j /\ \A k \in Ids : k # id => pending'[k] = pending[k]
  BY <1>1, <1>2 DEF PoolTypes
<1>8. (AnyError' <=> AnyError) /\ (~AnyError => ~Gone(w))
  BY <1>3, <1>4 DEF AnyError, Gone
<1>9. QED
  BY <1>3, <1>4, <1>5, <1>6, <1>7, <1>8 DEF FlightInv

------------------------------------------------------------------------------
(* What promises are resolved with.                                        *)
LEMMA PoolKeepsAnswers ==
  ASSUME PoolTypes, FreeInv, FlightInv, AnswerInv, PoolStep
  PROVE  AnswerInv'
<1>1. CASE UNCHANGED <<job, answer, collided>>
  BY <1>1 DEF AnswerInv
<1>2. ASSUME NEW w \in Workers, OnError(w)
      PROVE  AnswerInv'
  BY <1>2 DEF AnswerInv, OnError, PoolTypes
<1>3. ASSUME NEW w \in Workers, OnAnswer(w)
      PROVE  AnswerInv'
  <2> SUFFICES ASSUME ~collided' PROVE AnswerInv'
    BY DEF AnswerInv
  <2> DEFINE m == Head(outbox[w])
  <2>1. /\ outbox[w] # << >> /\ ~IsReady(m)
        /\ outbox' = [outbox EXCEPT ![w] = Tail(@)]
        /\ UNCHANGED <<inbox, collided>>
    BY <1>3 DEF OnAnswer, Receives
  <2>2. m \in MessageType /\ EntryOf(m) \subseteq {m.job}
    BY <2>1, AnswersItsJob
  <2>3. CASE UNCHANGED <<job, answer>>
    BY <2>1, <2>3 DEF AnswerInv
  <2>4. CASE \E j \in EntryOf(m) :
               /\ job' = [job EXCEPT ![j] = Outcome(m)]
               /\ answer' = [answer EXCEPT ![j] = [job |-> m.job, as |-> m.as]]
    <3>1. /\ m.job \in Jobs
          /\ job' = [job EXCEPT ![m.job] = Outcome(m)]
          /\ answer' = [answer EXCEPT ![m.job] = [job |-> m.job, as |-> m.as]]
      BY <2>2, <2>4 DEF MessageType
    <3>2. answer'[m.job].job = m.job
      BY <3>1 DEF PoolTypes
    <3>3. \A i \in Jobs : i # m.job => job'[i] = job[i] /\ answer'[i] = answer[i]
      BY <3>1 DEF PoolTypes
    <3>4. QED
      BY <2>1, <3>2, <3>3 DEF AnswerInv
  <2>5. QED
    BY <1>3, <2>3, <2>4 DEF OnAnswer
<1>4. ASSUME NEW j \in Jobs, Dispatch(j)
      PROVE  AnswerInv'
  BY <1>4 DEF AnswerInv, Dispatch, PoolTypes
<1>5. QED
  BY <1>1, <1>2, <1>3, <1>4 DEF PoolStep, ThreadStep, PoolHears, Loads, Decodes, Dies,
     InitTimeout, OnReady, Receives, poolVars

------------------------------------------------------------------------------
(* A thread decodes after it has loaded the protos.                        *)
AnsweredByRoot(m) == m.as = decodeTxBase64(Kind[m.job], TRUE)

LEMMA ThreadKeepsRoot ==
  ASSUME PoolTypes, FreeInv, RootInv, NEW w \in Workers, ThreadStep(w)
  PROVE  RootInv'
<1> SUFFICES ASSUME ~rootless' PROVE RootInv'
  BY DEF RootInv
<1>1. /\ ~rootless /\ UNCHANGED <<readyFlags, job, answer>>
  <2>1. UNCHANGED <<readyFlags, job, answer>>
    BY DEF ThreadStep, Loads, Decodes, Dies, poolVars
  <2>2. Loads(w) \/ rootless' = rootless
    BY DEF ThreadStep, Decodes, Dies, poolVars
  <2>3. ASSUME Loads(w), rootless PROVE rootless'
    <3>1. PICK loaded \in LoadOutcomes : rootless' = (rootless \/ ~loaded)
      BY <2>3 DEF Loads
    <3>2. rootless' = TRUE
      BY <2>3, <3>1
    <3>3. QED
      BY <3>2
  <2>4. ~rootless
    BY <2>2, <2>3
  <2>5. QED
    BY <2>1, <2>4
<1>2. /\ outbox \in [Workers -> Seq(OutType)]
      /\ outbox[w] \in Seq(OutType) /\ Len(outbox[w]) \in Nat
  <2>1. outbox \in [Workers -> Seq(OutType)]
    BY DEF PoolTypes, OutType, MessageType
  <2>2. QED
    BY <2>1, LenProperties
<1>3. ASSUME NEW m \in OutType, IsReady(m) \/ AnsweredByRoot(m),
             outbox' = [outbox EXCEPT ![w] = Append(@, m)]
      PROVE  /\ \A v \in Workers : v # w => outbox'[v] = outbox[v]
             /\ \A v \in Workers : \A n \in 1..Len(outbox'[v]) :
                  ~IsReady(outbox'[v][n]) => AnsweredByRoot(outbox'[v][n])
  <2>1. outbox'[w] = Append(outbox[w], m) /\ \A v \in Workers : v # w => outbox'[v] = outbox[v]
    BY <1>2, <1>3
  <2>2. /\ \A n \in 1..Len(outbox'[w]) : n \in 1..Len(outbox[w]) \/ n = Len(outbox[w]) + 1
        /\ \A n \in 1..Len(outbox[w]) : outbox'[w][n] = outbox[w][n]
        /\ outbox'[w][Len(outbox[w]) + 1] = m
    BY <1>2, <2>1, QueueAppend
  <2>3. \A v \in Workers : \A n \in 1..Len(outbox[v]) :
          ~IsReady(outbox[v][n]) => AnsweredByRoot(outbox[v][n])
    BY <1>1 DEF RootInv, AnsweredByRoot
  <2>4. QED
    BY <1>3, <2>1, <2>2, <2>3
<1>4. CASE Loads(w)
  <2>1. /\ thread[w] = "loading" /\ thread' = [thread EXCEPT ![w] = "up"]
        /\ outbox' = [outbox EXCEPT ![w] = Append(@, ReadyMessage)]
        /\ root' = [root EXCEPT ![w] = TRUE]
    BY <1>4 DEF Loads, setProtoRoot
  <2>2. /\ \A v \in Workers : v # w => outbox'[v] = outbox[v]
        /\ \A v \in Workers : \A n \in 1..Len(outbox'[v]) :
             ~IsReady(outbox'[v][n]) => AnsweredByRoot(outbox'[v][n])
    <3>1. ReadyMessage \in OutType /\ IsReady(ReadyMessage)
      BY ReadyIsNoAnswer
    <3>2. QED
      BY <2>1, <3>1, <1>3
  <2>3. /\ thread'[w] = "up" /\ root'[w] = TRUE
        /\ \A v \in Workers : v # w => thread'[v] = thread[v] /\ root'[v] = root[v]
    BY <2>1 DEF PoolTypes
  <2>4. QED
    BY <1>1, <2>2, <2>3 DEF RootInv, AnsweredByRoot
<1>5. CASE Decodes(w)
  <2>1. /\ inbox[w] # << >> /\ ~Gone(w) /\ UNCHANGED <<thread, root>>
    BY <1>5 DEF Decodes
  <2>2. readyFlags[w] /\ thread[w] = "up" /\ root[w] = TRUE
    <3>1. readyFlags[w]
      BY <2>1 DEF FreeInv
    <3>2. thread[w] = "up"
      BY <3>1, <1>1, <2>1 DEF RootInv, Gone, PoolTypes
    <3>3. QED
      BY <3>1, <3>2, <1>1 DEF RootInv, PoolTypes
  <2> DEFINE m == Head(inbox[w])
  <2>3. PICK as \in Answers :
          /\ as = decodeTxBase64(Kind[m.job], root[w])
          /\ outbox' = [outbox EXCEPT ![w] = Append(@, Answer(m, as))]
          /\ Answer(m, as) \in OutType
    BY <1>5, Decoded
  <2>4. AnsweredByRoot(Answer(m, as))
    BY <2>2, <2>3 DEF AnsweredByRoot, Answer
  <2> HIDE DEF m
  <2>5. /\ \A v \in Workers : v # w => outbox'[v] = outbox[v]
        /\ \A v \in Workers : \A n \in 1..Len(outbox'[v]) :
             ~IsReady(outbox'[v][n]) => AnsweredByRoot(outbox'[v][n])
    BY <2>3, <2>4, <1>3
  <2>6. QED
    BY <1>1, <2>1, <2>2, <2>5 DEF RootInv, AnsweredByRoot
<1>6. CASE Dies(w)
  <2>1. /\ thread'[w] = "failed" /\ UNCHANGED <<root, outbox>>
        /\ \A v \in Workers : v # w => thread'[v] = thread[v]
    BY <1>6 DEF Dies, PoolTypes
  <2>2. QED
    BY <1>1, <2>1 DEF RootInv
<1>7. QED
  BY <1>4, <1>5, <1>6 DEF ThreadStep

LEMMA HearsKeepsRoot ==
  ASSUME PoolTypes, RootInv, NEW w \in Workers, PoolHears(w)
  PROVE  RootInv'
<1> SUFFICES ASSUME ~rootless' PROVE RootInv'
  BY DEF RootInv
<1>1. ~rootless /\ ~InitTimeout(w) /\ UNCHANGED root
  BY DEF PoolHears, InitTimeout, OnReady, OnAnswer, OnError, Receives, threadVars
<1>2. ASSUME outbox[w] # << >>, outbox' = [outbox EXCEPT ![w] = Tail(@)],
             inbox' = inbox
      PROVE  /\ \A v \in Workers : v # w => outbox'[v] = outbox[v]
             /\ \A v \in Workers : \A n \in 1..Len(outbox'[v]) :
                  ~IsReady(outbox'[v][n]) => AnsweredByRoot(outbox'[v][n])
             /\ ~IsReady(Head(outbox[w])) => AnsweredByRoot(Head(outbox[w]))
  <2>1. /\ \A v \in Workers : v # w => outbox'[v] = outbox[v]
        /\ Head(outbox[w]) = outbox[w][1] /\ 1 \in 1..Len(outbox[w])
        /\ \A n \in 1..Len(outbox'[w]) :
             n + 1 \in 1..Len(outbox[w]) /\ outbox'[w][n] = outbox[w][n + 1]
    BY <1>2, AnswerTaken
  <2>2. \A v \in Workers : \A n \in 1..Len(outbox[v]) :
          ~IsReady(outbox[v][n]) => AnsweredByRoot(outbox[v][n])
    BY <1>1 DEF RootInv, AnsweredByRoot
  <2>3. QED
    BY <2>1, <2>2
<1>3. CASE OnReady(w)
  <2>1. /\ outbox[w] # << >> /\ outbox' = [outbox EXCEPT ![w] = Tail(@)]
        /\ UNCHANGED <<inbox, thread, job, answer>> /\ BecomesKnown(w)
    BY <1>3 DEF OnReady, Receives
  <2>2. thread[w] # "loading"
    BY <1>1, <2>1 DEF RootInv
  <2>3. \A v \in Workers : v # w => (readyFlags'[v] <=> readyFlags[v])
    BY <2>1, Known
  <2>4. QED
    BY <1>1, <2>1, <2>2, <2>3, <1>2 DEF RootInv, AnsweredByRoot
<1>4. CASE OnError(w)
  <2>1. /\ thread'[w] = "dead" /\ \A v \in Workers : v # w => thread'[v] = thread[v]
        /\ UNCHANGED <<outbox, answer>>
    BY <1>4 DEF OnError, PoolTypes
  <2>2. \A v \in Workers : v # w => (readyFlags'[v] <=> readyFlags[v])
    BY <1>4, Known DEF OnError
  <2>3. \A j \in Jobs : job'[j] = "resolved" => job[j] = "resolved"
    BY <1>4 DEF OnError
  <2>4. QED
    BY <1>1, <2>1, <2>2, <2>3 DEF RootInv
<1>5. CASE OnAnswer(w)
  <2> DEFINE m == Head(outbox[w])
  <2>1. /\ outbox[w] # << >> /\ ~IsReady(m)
        /\ outbox' = [outbox EXCEPT ![w] = Tail(@)]
        /\ UNCHANGED <<inbox, thread, readyFlags>>
    BY <1>5 DEF OnAnswer, Receives
  <2>2. /\ \A v \in Workers : v # w => outbox'[v] = outbox[v]
        /\ \A v \in Workers : \A n \in 1..Len(outbox'[v]) :
             ~IsReady(outbox'[v][n]) => AnsweredByRoot(outbox'[v][n])
        /\ AnsweredByRoot(m)
    BY <2>1, <1>2
  <2>3. thread[w] # "loading"
    BY <1>1, <2>1 DEF RootInv
  <2>4. \A j \in Jobs : job'[j] = "resolved" =>
          answer'[j].as = decodeTxBase64(Kind[answer'[j].job], TRUE)
    <3>1. CASE UNCHANGED <<job, answer>>
      BY <1>1, <3>1 DEF RootInv
    <3>2. ASSUME NEW j \in EntryOf(m),
                 job' = [job EXCEPT ![j] = Outcome(m)],
                 answer' = [answer EXCEPT ![j] = [job |-> m.job, as |-> m.as]]
          PROVE  \A i \in Jobs : job'[i] = "resolved" =>
                   answer'[i].as = decodeTxBase64(Kind[answer'[i].job], TRUE)
      <4> DEFINE a == [job |-> m.job, as |-> m.as]
      <4>1. a.as = decodeTxBase64(Kind[a.job], TRUE)
        BY <2>2 DEF AnsweredByRoot
      <4> HIDE DEF a
      <4>2. \A i \in Jobs : /\ i = j => answer'[i] = a
                            /\ i # j => job'[i] = job[i] /\ answer'[i] = answer[i]
        BY <3>2 DEF PoolTypes, a
      <4>3. QED
        BY <4>1, <4>2, <1>1 DEF RootInv
    <3>3. QED
      BY <1>5, <3>1, <3>2 DEF OnAnswer
  <2>5. QED
    BY <1>1, <2>1, <2>2, <2>3, <2>4 DEF RootInv, AnsweredByRoot
<1>6. QED
  BY <1>1, <1>3, <1>4, <1>5 DEF PoolHears

------------------------------------------------------------------------------
(* The pool keeps its invariant, whatever it is given.                     *)
LEMMA PoolInitInv == PoolInit => PoolInv
<1> SUFFICES ASSUME PoolInit PROVE PoolInv
  OBVIOUS
<1>1. \A w \in Workers : inbox[w] = << >> /\ outbox[w] = << >>
  BY DEF PoolInit
<1>2. \A w \in Workers : /\ ~HasAnswer(w) /\ AnswerOnce(w) /\ ~readyFlags[w]
                         /\ \A id \in Ids, j \in Jobs : ~InFlight(w, id, j)
  BY <1>1 DEF HasAnswer, AnswerOnce, InFlight, PoolInit
<1>3. IdleOnce /\ \A w \in Workers : ~IsIdle(w)
  BY DEF PoolInit, IdleOnce, IsIdle
<1>4. FreeInv
  BY <1>1, <1>2, <1>3 DEF FreeInv
<1>5. FlightInv
  BY <1>2 DEF FlightInv
<1>6. AnswerInv
  BY DEF PoolInit, AnswerInv
<1>7. RootInv
  BY <1>1, <1>2 DEF PoolInit, RootInv, HasAnswer
<1>8. QED
  BY <1>4, <1>5, <1>6, <1>7, PoolInitTypes DEF PoolInv

LEMMA PoolStepKeeps ==
  ASSUME PoolInv, PoolStep
  PROVE  PoolInv'
<1>1. AnswerInv'
  BY PoolKeepsAnswers DEF PoolInv
<1>2. ASSUME NEW w \in Workers, ThreadStep(w) PROVE PoolInv'
  <2>1. PoolTypes'
    BY <1>2, LoadsTypes, DecodesTypes, DiesTypes DEF PoolInv, ThreadStep
  <2>2. QED
    BY <1>1, <1>2, <2>1, ThreadKeepsFree, ThreadKeepsFlight, ThreadKeepsRoot DEF PoolInv
<1>3. ASSUME NEW w \in Workers, PoolHears(w) PROVE PoolInv'
  BY <1>1, <1>3, HearsTypes, HearsKeepsFree, HearsKeepsFlight, HearsKeepsRoot DEF PoolInv
<1>4. ASSUME NEW j \in Jobs, Dispatch(j) PROVE PoolInv'
  <2>1. RootInv'
    BY <1>4 DEF PoolInv, RootInv, Dispatch, PoolTypes
  <2>2. QED
    BY <1>1, <1>4, <2>1, DispatchTypes, DispatchKeepsFree, DispatchKeepsFlight DEF PoolInv
<1>5. QED
  BY <1>2, <1>3, <1>4 DEF PoolStep

LEMMA SubmitKeeps ==
  ASSUME PoolInv, NEW js \in SUBSET Jobs, Submit(js)
  PROVE  PoolInv'
<1>1. /\ job' \in [Jobs -> {"new", "waiting", "sent", "resolved", "rejected"}]
      /\ \A j \in Jobs : job'[j] = "resolved" => job[j] = "resolved"
  BY DEF PoolInv, PoolTypes, Submit
<1>2. UNCHANGED <<thread, root, inbox, outbox, readyFlags, idle, pending, answer,
                  rootless, collided>>
  BY DEF Submit, threadVars
<1>3. PoolTypes'
  BY <1>1, <1>2 DEF PoolInv, PoolTypes
<1>4. FreeInv'
  BY <1>2 DEF PoolInv, FreeInv, IdleOnce, AnswerOnce, HasAnswer, IsIdle
<1>5. FlightInv'
  BY <1>2 DEF PoolInv, FlightInv, InFlight, HasAnswer, IsIdle, AnyError, Gone
<1>6. AnswerInv' /\ RootInv'
  BY <1>1, <1>2 DEF PoolInv, AnswerInv, RootInv
<1>7. QED
  BY <1>3, <1>4, <1>5, <1>6 DEF PoolInv

LEMMA PoolRests ==
  ASSUME PoolInv, UNCHANGED <<threadVars, poolVars>>
  PROVE  PoolInv'
<1>1. UNCHANGED <<thread, root, inbox, outbox, readyFlags, idle, pending, job, answer,
                  rootless, collided>>
  BY DEF threadVars, poolVars
<1>2. PoolTypes' /\ AnswerInv' /\ RootInv'
  BY <1>1 DEF PoolInv, PoolTypes, AnswerInv, RootInv
<1>3. FreeInv'
  BY <1>1 DEF PoolInv, FreeInv, IdleOnce, AnswerOnce, HasAnswer, IsIdle
<1>4. FlightInv'
  BY <1>1 DEF PoolInv, FlightInv, InFlight, HasAnswer, IsIdle, AnyError, Gone
<1>5. QED
  BY <1>2, <1>3, <1>4 DEF PoolInv

------------------------------------------------------------------------------
(* The heights.                                                            *)
LEMMA HistoryKept ==
  ASSUME PoolStep
  PROVE  (collided => collided') /\ (rootless => rootless')
<1>1. ASSUME NEW w \in Workers, Loads(w), rootless PROVE rootless'
  <2>1. PICK loaded \in LoadOutcomes : rootless' = (rootless \/ ~loaded)
    BY <1>1 DEF Loads
  <2>2. rootless' = TRUE
    BY <1>1, <2>1
  <2>3. QED
    BY <2>2
<1>2. ASSUME NEW w \in Workers, ThreadStep(w) PROVE collided => collided'
  BY <1>2 DEF ThreadStep, Loads, Decodes, Dies, poolVars
<1>3. ASSUME NEW w \in Workers, Decodes(w) \/ Dies(w) PROVE rootless => rootless'
  BY <1>3 DEF Decodes, Dies, poolVars
<1>4. ASSUME NEW w \in Workers, PoolHears(w)
      PROVE  (collided => collided') /\ (rootless => rootless')
  BY <1>4 DEF PoolHears, InitTimeout, OnReady, OnAnswer, OnError, Receives
<1>5. ASSUME NEW j \in Jobs, Dispatch(j)
      PROVE  (collided => collided') /\ (rootless => rootless')
  <2>1. rootless' = rootless
    BY <1>5 DEF Dispatch
  <2>2. PICK id \in Drawn : collided' = (collided \/ InUse(id))
    BY <1>5 DEF Dispatch
  <2>3. ASSUME collided PROVE collided'
    <3>1. collided' = TRUE
      BY <2>2, <2>3
    <3>2. QED
      BY <3>1
  <2>4. QED
    BY <2>1, <2>3
<1>6. QED
  BY <1>1, <1>2, <1>3, <1>4, <1>5 DEF PoolStep, ThreadStep

(* The jobs of the attempt a height is at.                                 *)
LEMMA CurrentJobs ==
  ASSUME HeightTypes, NEW h \in Heights, place[h] \in {"queued", "decoding"}
  PROVE  /\ attempts[h] + 1 \in 1..(MaxBlockRetries + 1)
         /\ Current(h) \subseteq Jobs
         /\ \A i \in DOMAIN TxsOf[h] : JobOf(h, attempts[h] + 1, i) \in Current(h)
<1>1. attempts[h] + 1 \in 1..(MaxBlockRetries + 1)
  BY HeightsAssumption DEF HeightTypes
<1> DEFINE n == attempts[h] + 1
<1>2. JobsOf(h, n) \in {JobsOf(g, k) : g \in Heights, k \in 1..(MaxBlockRetries + 1)}
  BY <1>1
<1>3. JobsOf(h, n) \subseteq Jobs
  BY <1>2, HeightsAssumption
<1>4. \A i \in DOMAIN TxsOf[h] : JobOf(h, n, i) \in JobsOf(h, n)
  BY DEF JobsOf
<1>5. QED
  BY <1>1, <1>3, <1>4 DEF Current

LEMMA AttemptFailsKeeps ==
  ASSUME Inv, NEW h \in Heights, place[h] = "decoding", AttemptFails(h)
  PROVE  Inv'
<1>1. PoolInv'
  BY PoolRests DEF AttemptFails, Inv
<1>2. attempts[h] \in Nat /\ attempts[h] <= MaxBlockRetries
  BY HeightsAssumption DEF Inv, HeightTypes
<1>3. HeightTypes'
  <2>1. attempts' \in [Heights -> 0..(MaxBlockRetries + 1)]
    BY <1>2, HeightsAssumption DEF Inv, HeightTypes, AttemptFails
  <2>2. /\ place' \in [Heights -> {"queued", "decoding", "ready", "skipped", "outside"}]
        /\ place'[h] = "queued" => attempts'[h] <= MaxBlockRetries
        /\ place'[h] # "decoding"
        /\ \A g \in Heights : g # h => place'[g] = place[g] /\ attempts'[g] = attempts[g]
    BY DEF Inv, HeightTypes, AttemptFails
  <2>3. block' = block
    BY DEF AttemptFails
  <2>4. QED
    BY <2>1, <2>2, <2>3 DEF Inv, HeightTypes
<1>4. BlockInv'
  <2>1. UNCHANGED <<block, collided, rootless>>
    BY DEF AttemptFails, poolVars
  <2>2. \A g \in Heights : place'[g] = "ready" =>
          place[g] = "ready" /\ attempts'[g] = attempts[g]
    BY DEF Inv, HeightTypes, AttemptFails
  <2>3. QED
    BY <2>1, <2>2 DEF Inv, BlockInv, BlockOfOwnAnswers, DecodedAlike
<1>5. QED
  BY <1>1, <1>3, <1>4 DEF Inv

LEMMA FetchesKeeps ==
  ASSUME Inv, NEW h \in Heights, Fetches(h)
  PROVE  Inv'
<1>1. PoolInv'
  BY CurrentJobs, SubmitKeeps DEF Inv, Fetches
<1>2. /\ place' = [place EXCEPT ![h] = "decoding"] /\ place[h] = "queued"
      /\ UNCHANGED <<attempts, block, collided, rootless>>
  BY DEF Fetches, Submit
<1>3. \A g \in Heights : place'[g] = "ready" => place[g] = "ready"
  BY <1>2 DEF Inv, HeightTypes
<1>4. HeightTypes'
  BY <1>2 DEF Inv, HeightTypes
<1>5. BlockInv'
  BY <1>2, <1>3 DEF Inv, BlockInv, BlockOfOwnAnswers, DecodedAlike
<1>6. QED
  BY <1>1, <1>4, <1>5 DEF Inv

LEMMA AssemblesKeeps ==
  ASSUME Inv, NEW h \in Heights, Assembles(h)
  PROVE  Inv'
<1> DEFINE b == [i \in DOMAIN TxsOf[h] |-> answer[JobOf(h, attempts[h] + 1, i)]]
<1>1. PoolInv'
  BY PoolRests DEF Inv, Assembles
<1>2. /\ place[h] = "decoding" /\ place' = [place EXCEPT ![h] = "ready"]
      /\ block' = [block EXCEPT ![h] = b]
      /\ UNCHANGED <<attempts, collided, rootless>>
      /\ \A j \in Current(h) : job[j] = "resolved"
  BY DEF Assembles, BlockOf, poolVars
<1>3. /\ DOMAIN b = DOMAIN TxsOf[h]
      /\ \A i \in DOMAIN TxsOf[h] : b[i] = answer[JobOf(h, attempts[h] + 1, i)]
  OBVIOUS
<1> HIDE DEF b
<1>4. /\ block'[h] = b /\ DOMAIN block' = Heights /\ place'[h] = "ready"
      /\ \A g \in Heights : g # h => block'[g] = block[g] /\ place'[g] = place[g]
  BY <1>2 DEF Inv, HeightTypes
<1>5. HeightTypes'
  <2>1. place' \in [Heights -> {"queued", "decoding", "ready", "skipped", "outside"}]
    BY <1>2 DEF Inv, HeightTypes
  <2>2. QED
    BY <1>2, <1>3, <1>4, <2>1 DEF Inv, HeightTypes
<1>6. /\ attempts[h] + 1 \in 1..(MaxBlockRetries + 1)
      /\ \A i \in DOMAIN TxsOf[h] :
           /\ JobOf(h, attempts[h] + 1, i) \in Jobs
           /\ job[JobOf(h, attempts[h] + 1, i)] = "resolved"
  BY <1>2, CurrentJobs DEF Inv
<1>7. ASSUME ~collided, NEW i \in DOMAIN TxsOf[h]
      PROVE  b[i].job = JobOf(h, attempts[h] + 1, i)
  BY <1>3, <1>6, <1>7 DEF Inv, PoolInv, AnswerInv
<1>8. ASSUME ~rootless, NEW i \in DOMAIN TxsOf[h]
      PROVE  b[i].as = decodeTxBase64(Kind[b[i].job], TRUE)
  BY <1>3, <1>6, <1>8 DEF Inv, PoolInv, RootInv
<1>9. BlockOfOwnAnswers'
  <2>1. ASSUME ~collided, NEW g \in Heights, place'[g] = "ready",
               NEW i \in DOMAIN TxsOf[g]
        PROVE  block'[g][i].job = JobOf(g, attempts[g] + 1, i)
    <3>1. CASE g = h
      BY <2>1, <3>1, <1>4, <1>7
    <3>2. CASE g # h
      <4>1. block'[g] = block[g] /\ place[g] = "ready"
        BY <2>1, <3>2, <1>4
      <4>2. QED
        BY <2>1, <4>1 DEF Inv, BlockInv, BlockOfOwnAnswers
    <3>3. QED
      BY <3>1, <3>2
  <2>2. QED
    BY <2>1, <1>2 DEF BlockOfOwnAnswers
<1>10. DecodedAlike'
  <2>1. ASSUME ~rootless, NEW g \in Heights, place'[g] = "ready",
               NEW i \in DOMAIN TxsOf[g]
        PROVE  block'[g][i].as = decodeTxBase64(Kind[block'[g][i].job], TRUE)
    <3>1. CASE g = h
      BY <2>1, <3>1, <1>4, <1>8
    <3>2. CASE g # h
      <4>1. block'[g] = block[g] /\ place[g] = "ready"
        BY <2>1, <3>2, <1>4
      <4>2. QED
        BY <2>1, <4>1 DEF Inv, BlockInv, DecodedAlike
    <3>3. QED
      BY <3>1, <3>2
  <2>2. QED
    BY <2>1, <1>2 DEF DecodedAlike
<1>11. QED
  BY <1>1, <1>5, <1>9, <1>10 DEF Inv, BlockInv

LEMMA NextKeeps == Inv /\ [Next]_vars => Inv'
<1> SUFFICES ASSUME Inv, [Next]_vars PROVE Inv'
  OBVIOUS
<1>1. CASE PoolRuns
  <2>1. PoolStep /\ UNCHANGED <<place, attempts, block>>
    BY <1>1 DEF PoolRuns, heightVars
  <2>2. PoolInv' /\ (collided => collided') /\ (rootless => rootless')
    BY <2>1, PoolStepKeeps, HistoryKept DEF Inv
  <2>3. HeightTypes'
    BY <2>1 DEF Inv, HeightTypes
  <2>4. BlockInv'
    BY <2>1, <2>2 DEF Inv, BlockInv, BlockOfOwnAnswers, DecodedAlike
  <2>5. QED
    BY <2>2, <2>3, <2>4 DEF Inv
<1>2. ASSUME NEW h \in Heights, HeightStep(h) PROVE Inv'
  BY <1>2, FetchesKeeps, AssemblesKeeps, AttemptFailsKeeps
     DEF HeightStep, AssemblyFails, DecodeRejected, DecodeTimesOut
<1>3. CASE UNCHANGED vars
  <2>1. UNCHANGED <<threadVars, poolVars>> /\ UNCHANGED <<place, attempts, block>>
    BY <1>3 DEF vars, heightVars
  <2>2. PoolInv' /\ UNCHANGED <<collided, rootless>>
    BY <2>1, PoolRests DEF Inv, poolVars
  <2>3. QED
    BY <2>1, <2>2 DEF Inv, HeightTypes, BlockInv, BlockOfOwnAnswers, DecodedAlike
<1>4. QED
  BY <1>1, <1>2, <1>3 DEF Next

LEMMA InitInv == Init => Inv
<1> SUFFICES ASSUME Init PROVE Inv
  OBVIOUS
<1>1. PoolInv
  BY PoolInitInv DEF Init
<1>2. /\ \A h \in Heights : place[h] \in {"queued", "outside"}
      /\ place \in [Heights -> {"queued", "decoding", "ready", "skipped", "outside"}]
      /\ attempts = [h \in Heights |-> 0] /\ block = [h \in Heights |-> << >>]
  BY DEF Init
<1>3. HeightTypes
  BY <1>2, HeightsAssumption DEF HeightTypes
<1>4. BlockInv
  BY <1>2 DEF BlockInv, BlockOfOwnAnswers, DecodedAlike
<1>5. QED
  BY <1>1, <1>3, <1>4 DEF Inv

------------------------------------------------------------------------------
(* The inductive invariant: what the queues, the free list, the kept ids   *)
(* and the promises of the pool have to do with each other, and what the   *)
(* heights make of it.                                                     *)
THEOREM Invariant == Spec => []Inv
BY InitInv, NextKeeps, PTL DEF Spec

(* The variables have their types for any pool and any blocks; the list of *)
(* free workers is never longer than there are workers.                    *)
THEOREM TypeCorrect == Spec => []TypeOK
<1>1. Inv => TypeOK
  <2> SUFFICES ASSUME Inv PROVE TypeOK
    OBVIOUS
  <2>1. idle \in Seq(Workers) /\ IdleOnce /\ Len(idle) \in Nat
    <3>1. idle \in Seq(Workers) /\ IdleOnce
      BY DEF Inv, PoolInv, PoolTypes, FreeInv
    <3>2. QED
      BY <3>1, LenProperties
  <2>2. idle \in [1..Len(idle) -> Workers]
    BY <2>1, LenProperties
  <2>3. idle \in Injection(1..Len(idle), Workers)
    BY <2>1, <2>2 DEF IdleOnce, Injection, IsInjective
  <2>4. Cardinality(1..Len(idle)) <= Cardinality(Workers)
    BY <2>3, FS_Injection, PoolAssumption
  <2>5. Cardinality(1..Len(idle)) = Len(idle)
    <3>1. \A n \in Nat : Cardinality(1..n) = n
      BY FS_Interval
    <3>2. QED
      BY <2>1, <3>1
  <2>6. PoolTypes /\ Len(idle) <= Cardinality(Workers)
    BY <2>4, <2>5 DEF Inv, PoolInv
  <2>7. PoolTypeOK
    BY <2>6 DEF PoolTypes, PoolTypeOK
  <2>8. QED
    BY <2>7 DEF Inv, HeightTypes, TypeOK
<1>2. QED
  BY <1>1, Invariant, PTL

(* What a worker carries, counted.                                         *)
LEMMA CarriedCount ==
  ASSUME Inv, NEW w \in Workers
  PROVE  /\ Carried(w) \in 0..1
         /\ Carried(w) = 0 <=> inbox[w] = << >> /\ ~HasAnswer(w)
<1>1. /\ inbox[w] \in Seq([id : Ids, job : Jobs]) /\ outbox[w] \in Seq(OutType)
      /\ AnswerOnce(w)
      /\ inbox[w] # << >> => Len(inbox[w]) = 1 /\ ~HasAnswer(w)
  BY DEF Inv, PoolInv, PoolTypes, FreeInv, OutType, MessageType
<1>2. Unread(w) = {} <=> ~HasAnswer(w)
  BY DEF Unread, HasAnswer
<1>3. Unread(w) = {} \/ \E n : Unread(w) = {n}
  <2>1. \A m, n \in Unread(w) : m = n
    BY <1>1 DEF Unread, AnswerOnce
  <2>2. QED
    BY <2>1
<1>4. Cardinality(Unread(w)) \in {0, 1} /\ (Cardinality(Unread(w)) = 0 <=> Unread(w) = {})
  BY <1>3, FS_EmptySet, FS_Singleton
<1>5. Len(inbox[w]) = 0 <=> inbox[w] = << >>
  BY <1>1, EmptySeq
<1>6. inbox[w] # << >> => Len(inbox[w]) = 1 /\ Cardinality(Unread(w)) = 0
  BY <1>1, <1>2, <1>4
<1>7. /\ Len(inbox[w]) \in {0, 1} /\ Cardinality(Unread(w)) \in {0, 1}
      /\ Len(inbox[w]) = 1 => Cardinality(Unread(w)) = 0
  BY <1>4, <1>5, <1>6
<1>8. Len(inbox[w]) + Cardinality(Unread(w)) = 0 <=>
        inbox[w] = << >> /\ ~HasAnswer(w)
  BY <1>2, <1>4, <1>5, <1>7
<1>9. Len(inbox[w]) + Cardinality(Unread(w)) \in 0..1
  <2>1. CASE Len(inbox[w]) = 0
    BY <1>7, <2>1
  <2>2. CASE Len(inbox[w]) = 1
    BY <1>7, <2>2
  <2>3. QED
    BY <1>7, <2>1, <2>2
<1>10. QED
  BY <1>8, <1>9 DEF Carried

(* However news, answers, timeouts and errors come in: no worker is listed *)
(* as free twice, or while it has a job or an answer nobody has heard.     *)
THEOREM IdleIsFreeHolds == Spec => []IdleIsFree
<1>1. Inv => IdleIsFree
  <2> SUFFICES ASSUME Inv PROVE IdleIsFree
    OBVIOUS
  <2>1. FreeInv
    BY DEF Inv, PoolInv
  <2>2. QED
    BY <2>1, CarriedCount DEF FreeInv, IdleOnce, IdleIsFree
<1>2. QED
  BY <1>1, Invariant, PTL

(* No worker is lost while no thread has died and no id was drawn twice.   *)
THEOREM NoWorkerLostHolds == Spec => []NoWorkerLost
<1>1. Inv => NoWorkerLost
  <2> SUFFICES ASSUME Inv PROVE NoWorkerLost
    OBVIOUS
  <2>1. FreeInv /\ FlightInv
    BY DEF Inv, PoolInv
  <2>2. QED
    BY <2>1, CarriedCount DEF FreeInv, FlightInv, NoWorkerLost
<1>2. QED
  BY <1>1, Invariant, PTL

(* A block is put together from the answers to the jobs of its last        *)
(* attempt, each in its place, whatever abandoned attempts have left       *)
(* behind in the pool.                                                     *)
THEOREM BlockOfOwnAnswersHolds == Spec => []BlockOfOwnAnswers
<1>1. Inv => BlockOfOwnAnswers
  BY DEF Inv, BlockInv
<1>2. QED
  BY <1>1, Invariant, PTL

(* While every thread in use has loaded the protos, how a transaction is   *)
(* decoded depends on the transaction alone.                               *)
THEOREM DecodedAlikeHolds == Spec => []DecodedAlike
<1>1. Inv => DecodedAlike
  BY DEF Inv, BlockInv
<1>2. QED
  BY <1>1, Invariant, PTL
==============================================================================
