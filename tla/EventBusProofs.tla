--------------------------- MODULE EventBusProofs ---------------------------
(***************************************************************************)
(* Proofs about EventBus, for any number of consumers, events, handlers,   *)
(* attempts and entries, and for both answers to an empty history.         *)
(***************************************************************************)
EXTENDS EventBus, FiniteSetTheorems, WellFoundedInduction, TLAPS

USE EventBusAssumption

(***************************************************************************)
(* Type correctness.                                                       *)
(***************************************************************************)
(* An empty Redis and no process started: the types hold.                  *)
LEMMA InitTypeOK == Init => TypeOK
BY DEF Init, TypeOK, RedisTypeOK, TaskTypeOK, HistoryTypeOK, DispatchOK, Stages,
       Entry, Handlers

(* Publishing only extends the stream: what refers to an entry still does. *)
LEMMA PublishTypeOK ==
  ASSUME TypeOK, NEW e \in Events \union {Invalid}, Publish(e)
  PROVE  TypeOK'
<1>. USE DEF TypeOK, RedisTypeOK, TaskTypeOK, HistoryTypeOK, DispatchOK
<1>1. /\ stream' \in Seq(Events \union {Invalid})
      /\ Len(stream') = Len(stream) + 1
      /\ DOMAIN stream \subseteq DOMAIN stream'
      /\ \A m \in DOMAIN stream : stream'[m] = stream[m]
  BY DEF Publish
<1>2. notices' \subseteq ({"published"} \X Events) \union ({"dead"} \X Entry)
      /\ faults' \in 0..MaxFaults
  BY DEF Publish, Notice, Fault
<1>. QED
  BY SMTT(60), <1>1, <1>2 DEF Publish, taskVars, entryVars, Stages

(* A key that expires takes nothing but its counts with it.                *)
LEMMA ExpireTypeOK ==
  ASSUME TypeOK, NEW e \in Events, ExpireDedup(e)
  PROVE  TypeOK'
BY DEF TypeOK, RedisTypeOK, TaskTypeOK, HistoryTypeOK, DispatchOK, ExpireDedup,
       taskVars, entryVars

(* A failed attempt leaves the task with types, whoever failed.             *)
LEMMA AttemptFailsTypeOK ==
  ASSUME TaskTypeOK, NEW c \in Consumers, AttemptFails(c)
  PROVE  /\ at' \in [Consumers -> Stages]
         /\ attempt' \in [Consumers -> 0..MaxAttempts]
         /\ next' \in [Consumers -> 0..NumHandlers]
         /\ UNCHANGED <<batch, cur>>
<1>1. CASE attempt[c] < MaxAttempts
  <2>1. /\ at' = [at EXCEPT ![c] = "handle"]
        /\ attempt' = [attempt EXCEPT ![c] = attempt[c] + 1]
        /\ next' = [next EXCEPT ![c] = 1]
    BY <1>1 DEF AttemptFails, Goto, TaskTypeOK
  <2>. QED
    BY <1>1, <2>1 DEF TaskTypeOK, Stages, AttemptFails
<1>2. CASE attempt[c] = MaxAttempts
  <2>1. at' = [at EXCEPT ![c] = "drop"] /\ UNCHANGED <<attempt, next>>
    BY <1>2 DEF AttemptFails, Goto, TaskTypeOK
  <2>. QED
    BY <1>2, <2>1 DEF TaskTypeOK, Stages, AttemptFails
<1>. QED
  BY <1>1, <1>2 DEF AttemptFails

(* The steps of the consumer loop keep the types.                          *)
LEMMA ConsumeTypeOK ==
  ASSUME TypeOK, NEW c \in Consumers, Consume(c)
  PROVE  TypeOK'
<1>. USE DEF TypeOK, redisVars, entryVars
<1>1. CASE StartConsumerLoop(c)
  <2>1. RedisTypeOK'
    BY <1>1 DEF StartConsumerLoop, RedisTypeOK
  <2>2. TaskTypeOK'
    BY <1>1 DEF StartConsumerLoop, TaskTypeOK, RedisTypeOK, Stages, Goto
  <2>3. HistoryTypeOK'
    BY <1>1 DEF StartConsumerLoop, HistoryTypeOK, RedisTypeOK
  <2>4. \A d \in Consumers : DispatchOK(d)'
    BY <1>1 DEF StartConsumerLoop, DispatchOK, RedisTypeOK, TaskTypeOK, Goto
  <2>. QED
    BY <2>1, <2>2, <2>3, <2>4
<1>2. CASE EnsureGroup(c)
  <2>1. RedisTypeOK'
    BY <1>2 DEF EnsureGroup, RedisTypeOK
  <2>2. TaskTypeOK'
    BY <1>2 DEF EnsureGroup, TaskTypeOK, RedisTypeOK, Stages, Goto
  <2>3. HistoryTypeOK'
    BY <1>2 DEF EnsureGroup, HistoryTypeOK, RedisTypeOK
  <2>4. \A d \in Consumers : DispatchOK(d)'
    BY <1>2 DEF EnsureGroup, DispatchOK, RedisTypeOK, TaskTypeOK, Goto
  <2>. QED
    BY <2>1, <2>2, <2>3, <2>4
<1>3. CASE ConsumeHistory(c)
  <2>1. RedisTypeOK'
    BY <1>3 DEF ConsumeHistory, RedisTypeOK
  <2>2. TaskTypeOK'
    BY ZenonT(60), <1>3 DEF ConsumeHistory, TaskTypeOK, RedisTypeOK, Stages, Goto, Oldest
  <2>3. HistoryTypeOK'
    BY <1>3 DEF ConsumeHistory, HistoryTypeOK, RedisTypeOK
  <2>4. \A d \in Consumers : DispatchOK(d)'
    BY SMTT(60), <1>3 DEF ConsumeHistory, DispatchOK, RedisTypeOK, TaskTypeOK, Goto
  <2>. QED
    BY <2>1, <2>2, <2>3, <2>4
<1>4. CASE ConsumeNew(c)
  <2>1. RedisTypeOK'
    BY <1>4 DEF ConsumeNew, RedisTypeOK, Deliver, Fresh
  <2>2. TaskTypeOK'
    BY <1>4 DEF ConsumeNew, TaskTypeOK, RedisTypeOK, Stages, Goto, Deliver, Fresh
  <2>3. HistoryTypeOK'
    BY <1>4 DEF ConsumeNew, HistoryTypeOK, RedisTypeOK
  <2>4. \A d \in Consumers : DispatchOK(d)'
    BY <1>4 DEF ConsumeNew, DispatchOK, RedisTypeOK, TaskTypeOK, Goto
  <2>. QED
    BY <2>1, <2>2, <2>3, <2>4
<1>5. CASE RejectInvalid(c)
  <2>1. RedisTypeOK'
    BY <1>5 DEF RejectInvalid, RedisTypeOK
  <2>2. TaskTypeOK'
    BY SMTT(60), <1>5 DEF RejectInvalid, TaskTypeOK, RedisTypeOK, Stages, HeadOfBatch, Goto
  <2>3. HistoryTypeOK'
    BY <1>5 DEF RejectInvalid, HistoryTypeOK, RedisTypeOK
  <2>4. \A d \in Consumers : DispatchOK(d)'
    BY <1>5 DEF RejectInvalid, DispatchOK, RedisTypeOK, TaskTypeOK, HeadOfBatch, Goto
  <2>. QED
    BY <2>1, <2>2, <2>3, <2>4
<1>6. CASE ClaimDedup(c)
  <2>1. RedisTypeOK'
    BY <1>6 DEF ClaimDedup, RedisTypeOK, HeadOfBatch, TaskTypeOK
  <2>2. TaskTypeOK'
    <3>1. PICK m \in batch[c] : cur' = [cur EXCEPT ![c] = m] /\ UNCHANGED batch
      BY <1>6 DEF ClaimDedup, HeadOfBatch
    <3>2. cur' \in [Consumers -> 0..Len(stream)]
      BY <3>1 DEF TaskTypeOK, RedisTypeOK
    <3>3. CASE at' = [at EXCEPT ![c] = "skip"] /\ UNCHANGED <<attempt, next>>
      BY <1>6, <3>1, <3>2, <3>3 DEF ClaimDedup, TaskTypeOK, Stages
    <3>4. CASE /\ at' = [at EXCEPT ![c] = "handle"]
               /\ attempt' = [attempt EXCEPT ![c] = 1]
               /\ next' = [next EXCEPT ![c] = 1]
      BY <1>6, <3>1, <3>2, <3>4 DEF ClaimDedup, TaskTypeOK, Stages
    <3>. QED
      BY <1>6, <3>3, <3>4 DEF ClaimDedup, Goto
  <2>3. HistoryTypeOK'
    BY <1>6 DEF ClaimDedup, HistoryTypeOK, RedisTypeOK
  <2>4. \A d \in Consumers : DispatchOK(d)'
    BY SMTT(60), <1>6 DEF ClaimDedup, DispatchOK, RedisTypeOK, TaskTypeOK, HeadOfBatch, Goto
  <2>. QED
    BY <2>1, <2>2, <2>3, <2>4
<1>7. CASE SkipDuplicate(c)
  <2>1. RedisTypeOK'
    BY <1>7 DEF SkipDuplicate, RedisTypeOK, XAck
  <2>2. TaskTypeOK'
    BY <1>7 DEF SkipDuplicate, TaskTypeOK, RedisTypeOK, Stages, NextOfBatch, Between, Goto
  <2>3. HistoryTypeOK'
    BY <1>7 DEF SkipDuplicate, HistoryTypeOK, RedisTypeOK, XAck, DispatchOK
  <2>4. \A d \in Consumers : DispatchOK(d)'
    BY <1>7 DEF SkipDuplicate, DispatchOK, RedisTypeOK, TaskTypeOK, NextOfBatch, Between, Goto
  <2>. QED
    BY <2>1, <2>2, <2>3, <2>4
<1>8. CASE HandlerReturns(c)
  <2>. USE DEF HandlerReturns
  <2>1. /\ at[c] = "handle" /\ cur[c] \in DOMAIN stream
        /\ stream[cur[c]] \in Events /\ next[c] \in Handlers
    BY <1>8 DEF DispatchOK, TaskTypeOK, Handlers
  <2>2. RedisTypeOK'
    BY <1>8 DEF RedisTypeOK
  <2>3. TaskTypeOK'
    <3>1. CASE next[c] < NumHandlers
      <4>1. next' = [next EXCEPT ![c] = next[c] + 1] /\ UNCHANGED at
        BY <1>8, <2>1, <3>1 DEF Handlers
      <4>. QED
        BY SMTT(60), <1>8, <2>1, <3>1, <4>1 DEF TaskTypeOK, Handlers
    <3>2. CASE next[c] = NumHandlers
      BY SMTT(60), <1>8, <2>1, <3>2 DEF TaskTypeOK, Stages, Goto
    <3>. QED
      BY <1>8, <3>1, <3>2
  <2>4. HistoryTypeOK'
    <3>1. runs' \in [Events -> [Handlers -> Nat]]
      BY <1>8, <2>1 DEF HistoryTypeOK
    <3>. QED
      BY <1>8, <2>1, <3>1 DEF HistoryTypeOK, RedisTypeOK
  <2>5. \A d \in Consumers : DispatchOK(d)'
    <3>1. CASE next[c] < NumHandlers
      <4>1. next' = [next EXCEPT ![c] = next[c] + 1] /\ UNCHANGED at
        BY <1>8, <2>1, <3>1 DEF Handlers
      <4>. QED
        BY SMTT(60), <1>8, <2>1, <3>1, <4>1 DEF TaskTypeOK, DispatchOK, Handlers
    <3>2. CASE next[c] = NumHandlers
      BY SMTT(60), <1>8, <2>1, <3>2 DEF TaskTypeOK, DispatchOK, Goto
    <3>. QED
      BY <1>8, <3>1, <3>2
  <2>. QED
    BY <2>2, <2>3, <2>4, <2>5
<1>9. CASE HandlerRaises(c)
  <2>1. RedisTypeOK'
    BY <1>9 DEF HandlerRaises, RedisTypeOK
  <2>2. TaskTypeOK'
    BY <1>9, AttemptFailsTypeOK DEF HandlerRaises, TaskTypeOK
  <2>3. HistoryTypeOK'
    BY <1>9 DEF HandlerRaises, HistoryTypeOK, RedisTypeOK
  <2>4. \A d \in Consumers : DispatchOK(d)'
    BY SMTT(60), <1>9 DEF HandlerRaises, DispatchOK, RedisTypeOK, TaskTypeOK, AttemptFails, Goto
  <2>. QED
    BY <2>1, <2>2, <2>3, <2>4
<1>10. CASE AckDelivered(c)
  <2>1. RedisTypeOK'
    BY <1>10 DEF AckDelivered, RedisTypeOK, XAck
  <2>2. TaskTypeOK'
    BY SMTT(60), <1>10 DEF AckDelivered, TaskTypeOK, RedisTypeOK, Stages, NextOfBatch, Between, Goto
  <2>3. HistoryTypeOK'
    BY <1>10 DEF AckDelivered, HistoryTypeOK, RedisTypeOK, XAck, DispatchOK
  <2>4. \A d \in Consumers : DispatchOK(d)'
    BY <1>10 DEF AckDelivered, DispatchOK, RedisTypeOK, TaskTypeOK, NextOfBatch, Between, Goto
  <2>. QED
    BY <2>1, <2>2, <2>3, <2>4
<1>11. CASE AckDropped(c)
  <2>1. RedisTypeOK'
    BY <1>11 DEF AckDropped, RedisTypeOK, XAck
  <2>2. TaskTypeOK'
    BY <1>11 DEF AckDropped, TaskTypeOK, RedisTypeOK, Stages, Goto
  <2>3. HistoryTypeOK'
    BY <1>11 DEF AckDropped, HistoryTypeOK, RedisTypeOK, XAck, DispatchOK
  <2>4. \A d \in Consumers : DispatchOK(d)'
    BY <1>11 DEF AckDropped, DispatchOK, RedisTypeOK, TaskTypeOK, Goto
  <2>. QED
    BY <2>1, <2>2, <2>3, <2>4
<1>12. CASE DeadLetter(c)
  <2>1. RedisTypeOK'
    BY <1>12 DEF DeadLetter, RedisTypeOK, Notice, DispatchOK, Entry
  <2>2. TaskTypeOK'
    BY SMTT(60), <1>12 DEF DeadLetter, TaskTypeOK, RedisTypeOK, Stages, NextOfBatch, Between, Goto
  <2>3. HistoryTypeOK'
    BY <1>12 DEF DeadLetter, HistoryTypeOK, RedisTypeOK, Notice, Fault
  <2>4. \A d \in Consumers : DispatchOK(d)'
    BY <1>12 DEF DeadLetter, DispatchOK, RedisTypeOK, TaskTypeOK, NextOfBatch, Between, Goto
  <2>. QED
    BY <2>1, <2>2, <2>3, <2>4
<1>. QED
  BY <1>1, <1>2, <1>3, <1>4, <1>5, <1>6, <1>7, <1>8, <1>9, <1>10, <1>11, <1>12 DEF Consume

(* So do a failed Redis call and the end of a process.                     *)
LEMMA DisturbTypeOK ==
  ASSUME TypeOK, NEW c \in Consumers, Disturb(c)
  PROVE  TypeOK'
<1>. USE DEF TypeOK, redisVars, entryVars
<1>1. CASE EnsureGroupFails(c)
  <2>1. RedisTypeOK'
    BY <1>1 DEF EnsureGroupFails, RedisTypeOK
  <2>2. TaskTypeOK'
    BY <1>1 DEF EnsureGroupFails, TaskTypeOK, RedisTypeOK, Stages, Goto
  <2>3. HistoryTypeOK'
    BY <1>1 DEF EnsureGroupFails, HistoryTypeOK, RedisTypeOK, Fault
  <2>4. \A d \in Consumers : DispatchOK(d)'
    BY <1>1 DEF EnsureGroupFails, DispatchOK, RedisTypeOK, TaskTypeOK, Goto
  <2>. QED
    BY <2>1, <2>2, <2>3, <2>4
<1>2. CASE ConsumeNewFails(c)
  <2>1. RedisTypeOK'
    BY <1>2 DEF ConsumeNewFails, RedisTypeOK, Deliver, Fresh
  <2>2. TaskTypeOK'
    BY <1>2 DEF ConsumeNewFails, TaskTypeOK, RedisTypeOK, Stages, AbandonBatch, Between, Goto
  <2>3. HistoryTypeOK'
    BY <1>2 DEF ConsumeNewFails, HistoryTypeOK, RedisTypeOK, Fault
  <2>4. \A d \in Consumers : DispatchOK(d)'
    BY <1>2 DEF ConsumeNewFails, DispatchOK, RedisTypeOK, TaskTypeOK, AbandonBatch, Between, Goto
  <2>. QED
    BY <2>1, <2>2, <2>3, <2>4
<1>3. CASE ClaimDedupFails(c)
  <2>1. RedisTypeOK'
    BY <1>3 DEF ClaimDedupFails, RedisTypeOK, HeadOfBatch, TaskTypeOK
  <2>2. TaskTypeOK'
    BY <1>3 DEF ClaimDedupFails, TaskTypeOK, RedisTypeOK, Stages, AbandonBatch, Between, Goto
  <2>3. HistoryTypeOK'
    BY <1>3 DEF ClaimDedupFails, HistoryTypeOK, RedisTypeOK, Fault
  <2>4. \A d \in Consumers : DispatchOK(d)'
    BY <1>3 DEF ClaimDedupFails, DispatchOK, RedisTypeOK, TaskTypeOK, AbandonBatch, Between, Goto
  <2>. QED
    BY <2>1, <2>2, <2>3, <2>4
<1>4. CASE SkipDuplicateFails(c)
  <2>1. RedisTypeOK'
    BY <1>4 DEF SkipDuplicateFails, RedisTypeOK, XAckFails, XAck
  <2>2. TaskTypeOK'
    BY <1>4 DEF SkipDuplicateFails, TaskTypeOK, RedisTypeOK, Stages, AbandonBatch, Between, Goto
  <2>3. HistoryTypeOK'
    BY <1>4 DEF SkipDuplicateFails, HistoryTypeOK, RedisTypeOK, XAckFails, XAck, Fault, DispatchOK
  <2>4. \A d \in Consumers : DispatchOK(d)'
    BY <1>4 DEF SkipDuplicateFails, DispatchOK, RedisTypeOK, TaskTypeOK, AbandonBatch, Between, Goto
  <2>. QED
    BY <2>1, <2>2, <2>3, <2>4
<1>5. CASE AckDeliveredFails(c)
  <2>1. RedisTypeOK'
    BY <1>5 DEF AckDeliveredFails, RedisTypeOK, XAckFails, XAck
  <2>2. TaskTypeOK'
    BY <1>5, AttemptFailsTypeOK DEF AckDeliveredFails, TaskTypeOK
  <2>3. HistoryTypeOK'
    BY <1>5 DEF AckDeliveredFails, HistoryTypeOK, RedisTypeOK, XAckFails, XAck, Fault, DispatchOK
  <2>4. \A d \in Consumers : DispatchOK(d)'
    BY SMTT(60), <1>5 DEF AckDeliveredFails, DispatchOK, RedisTypeOK, TaskTypeOK, AttemptFails, Goto
  <2>. QED
    BY <2>1, <2>2, <2>3, <2>4
<1>6. CASE AckDroppedFails(c)
  <2>1. RedisTypeOK'
    BY <1>6 DEF AckDroppedFails, RedisTypeOK, XAckFails, XAck
  <2>2. TaskTypeOK'
    BY <1>6 DEF AckDroppedFails, TaskTypeOK, RedisTypeOK, Stages, AbandonBatch, Between, Goto
  <2>3. HistoryTypeOK'
    BY <1>6 DEF AckDroppedFails, HistoryTypeOK, RedisTypeOK, XAckFails, XAck, Fault, DispatchOK
  <2>4. \A d \in Consumers : DispatchOK(d)'
    BY <1>6 DEF AckDroppedFails, DispatchOK, RedisTypeOK, TaskTypeOK, AbandonBatch, Between, Goto
  <2>. QED
    BY <2>1, <2>2, <2>3, <2>4
<1>7. CASE DeadLetterFails(c)
  <2>1. RedisTypeOK'
    BY <1>7 DEF DeadLetterFails, RedisTypeOK, DispatchOK, Entry
  <2>2. TaskTypeOK'
    BY <1>7 DEF DeadLetterFails, TaskTypeOK, RedisTypeOK, Stages, AbandonBatch, Between, Goto
  <2>3. HistoryTypeOK'
    BY <1>7 DEF DeadLetterFails, HistoryTypeOK, RedisTypeOK, Fault
  <2>4. \A d \in Consumers : DispatchOK(d)'
    BY <1>7 DEF DeadLetterFails, DispatchOK, RedisTypeOK, TaskTypeOK, AbandonBatch, Between, Goto
  <2>. QED
    BY <2>1, <2>2, <2>3, <2>4
<1>8. CASE Stop(c)
  <2>1. RedisTypeOK'
    BY <1>8 DEF Stop, RedisTypeOK
  <2>2. TaskTypeOK'
    BY <1>8 DEF Stop, TaskTypeOK, RedisTypeOK, Stages, Between, Goto
  <2>3. HistoryTypeOK'
    BY <1>8 DEF Stop, HistoryTypeOK, RedisTypeOK, Fault
  <2>4. \A d \in Consumers : DispatchOK(d)'
    BY <1>8 DEF Stop, DispatchOK, RedisTypeOK, TaskTypeOK, Between, Goto
  <2>. QED
    BY <2>1, <2>2, <2>3, <2>4
<1>. QED
  BY <1>1, <1>2, <1>3, <1>4, <1>5, <1>6, <1>7, <1>8 DEF Disturb

(* The variables keep their types in every behaviour of the bus.           *)
THEOREM TypeCorrect == Spec => []TypeOK
<1>1. ASSUME TypeOK, [Next]_vars PROVE TypeOK'
  <2>1. CASE UNCHANGED vars
    BY <1>1, <2>1 DEF vars, redisVars, taskVars, entryVars, TypeOK, RedisTypeOK,
       TaskTypeOK, HistoryTypeOK, DispatchOK
  <2>2. CASE Next
    BY <1>1, <2>2, PublishTypeOK, ExpireTypeOK, ConsumeTypeOK, DisturbTypeOK
    DEF Next
  <2>. QED
    BY <1>1, <2>1, <2>2
<1>. QED
  BY <1>1, InitTypeOK, PTL DEF Spec
-----------------------------------------------------------------------------
(***************************************************************************)
(* One worker per event.  Inductive: the key of an event stands while a    *)
(* consumer works on it, so that a claim is refused to everybody else.     *)
(***************************************************************************)
WorkInv == WorkersClaimed /\ OneWorkerPerEvent

(* Consumers that work after the step worked before it, on the same event. *)
KeepsWorkers ==
  \A d \in Consumers :
    Working(d)' => Working(d) /\ (stream[cur[d]])' = stream[cur[d]]

(* A step after which no one works on more than before, under the same     *)
(* keys.                                                                   *)
LEMMA KeepsWorkersWorkInv ==
  ASSUME WorkInv, KeepsWorkers, dedup \subseteq dedup'
  PROVE  WorkInv'
BY DEF WorkInv, WorkersClaimed, OneWorkerPerEvent, KeepsWorkers

(* Every step of the loop but a claim takes up no new event.               *)
LEMMA ConsumeKeepsWorkers ==
  ASSUME TypeOK, NEW c \in Consumers, Consume(c), ~ClaimDedup(c)
  PROVE  KeepsWorkers /\ dedup' = dedup
<1>. USE DEF TypeOK, TaskTypeOK, KeepsWorkers, Working, redisVars, entryVars, Goto
<1>1. CASE StartConsumerLoop(c)
  BY <1>1 DEF StartConsumerLoop
<1>2. CASE EnsureGroup(c)
  BY <1>2 DEF EnsureGroup
<1>3. CASE ConsumeHistory(c)
  BY <1>3 DEF ConsumeHistory
<1>4. CASE ConsumeNew(c)
  BY <1>4 DEF ConsumeNew
<1>5. CASE RejectInvalid(c)
  BY <1>5 DEF RejectInvalid
<1>6. CASE SkipDuplicate(c)
  BY <1>6 DEF SkipDuplicate, NextOfBatch, Between
<1>7. CASE HandlerReturns(c)
  BY <1>7 DEF HandlerReturns
<1>8. CASE HandlerRaises(c)
  BY <1>8 DEF HandlerRaises, AttemptFails, DispatchOK
<1>9. CASE AckDelivered(c)
  BY <1>9 DEF AckDelivered, NextOfBatch, Between
<1>10. CASE AckDropped(c)
  BY <1>10 DEF AckDropped
<1>11. CASE DeadLetter(c)
  BY <1>11 DEF DeadLetter, NextOfBatch, Between
<1>. QED
  BY <1>1, <1>2, <1>3, <1>4, <1>5, <1>6, <1>7, <1>8, <1>9, <1>10, <1>11 DEF Consume

(* A failure takes up no event either; a claim whose reply is lost may     *)
(* leave a key behind.                                                     *)
LEMMA DisturbKeepsWorkers ==
  ASSUME TypeOK, NEW c \in Consumers, Disturb(c)
  PROVE  KeepsWorkers /\ dedup \subseteq dedup'
<1>. USE DEF TypeOK, TaskTypeOK, KeepsWorkers, Working, redisVars, entryVars, Goto,
         AbandonBatch, Between
<1>1. CASE EnsureGroupFails(c)
  BY <1>1 DEF EnsureGroupFails
<1>2. CASE ConsumeNewFails(c)
  BY <1>2 DEF ConsumeNewFails
<1>3. CASE ClaimDedupFails(c)
  BY <1>3 DEF ClaimDedupFails
<1>4. CASE SkipDuplicateFails(c)
  BY <1>4 DEF SkipDuplicateFails
<1>5. CASE AckDeliveredFails(c)
  BY <1>5 DEF AckDeliveredFails, AttemptFails, DispatchOK
<1>6. CASE AckDroppedFails(c)
  BY <1>6 DEF AckDroppedFails
<1>7. CASE DeadLetterFails(c)
  BY <1>7 DEF DeadLetterFails
<1>8. CASE Stop(c)
  BY <1>8 DEF Stop
<1>. QED
  BY <1>1, <1>2, <1>3, <1>4, <1>5, <1>6, <1>7, <1>8 DEF Disturb

(* A claim that succeeds is on an event nobody works on.                   *)
LEMMA ClaimWorkInv ==
  ASSUME TypeOK, WorkInv, NEW c \in Consumers, ClaimDedup(c)
  PROVE  WorkInv'
<1>1. PICK m \in Entry : HeadOfBatch(c, m) /\ cur' = [cur EXCEPT ![c] = m]
                         /\ dedup' = dedup \union {stream[m]}
                         /\ \/ stream[m] \in dedup /\ Goto(c, "skip")
                            \/ stream[m] \notin dedup /\ Goto(c, "handle")
  BY DEF ClaimDedup
<1>2. stream' = stream
  BY DEF ClaimDedup
<1>3. \A d \in Consumers \ {c} : /\ Working(d)' <=> Working(d)
                                /\ (stream[cur[d]])' = stream[cur[d]]
  BY <1>1, <1>2 DEF TypeOK, TaskTypeOK, Working, Goto
<1>4. CASE Goto(c, "skip")
  <2>1. ~Working(c)'
    BY <1>4 DEF TypeOK, TaskTypeOK, Working, Goto
  <2>. QED
    BY <1>1, <1>3, <2>1 DEF WorkInv, WorkersClaimed, OneWorkerPerEvent
<1>5. CASE stream[m] \notin dedup /\ Goto(c, "handle")
  <2>1. (stream[cur[c]])' = stream[m]
    BY <1>1, <1>2 DEF TypeOK, TaskTypeOK
  <2>2. \A d \in Consumers : Working(d) => stream[cur[d]] # stream[m]
    BY <1>5 DEF WorkInv, WorkersClaimed
  <2>. QED
    BY <1>1, <1>3, <2>1, <2>2 DEF WorkInv, WorkersClaimed, OneWorkerPerEvent
<1>. QED
  BY <1>1, <1>4, <1>5

(* A published entry is nobody's current entry.                            *)
LEMMA PublishKeepsWorkers ==
  ASSUME TypeOK, NEW e \in Events \union {Invalid}, Publish(e)
  PROVE  KeepsWorkers /\ dedup' = dedup
<1>1. \A m \in DOMAIN stream : stream'[m] = stream[m]
  BY DEF TypeOK, RedisTypeOK, Publish
<1>2. \A d \in Consumers : Working(d)' => cur[d] \in DOMAIN stream
  BY DEF TypeOK, DispatchOK, Publish, Working, taskVars, entryVars
<1>. QED
  BY <1>1, <1>2 DEF Publish, Working, KeepsWorkers, taskVars, entryVars

(* Every step keeps one worker per event, and the worker's key.            *)
LEMMA WorkInvStep ==
  ASSUME TypeOK, WorkInv, [Next]_vars
  PROVE  WorkInv'
<1>1. ASSUME NEW e \in Events \union {Invalid}, Publish(e) PROVE WorkInv'
  BY <1>1, PublishKeepsWorkers, KeepsWorkersWorkInv
<1>2. ASSUME NEW e \in Events, ExpireDedup(e) PROVE WorkInv'
  BY <1>2 DEF ExpireDedup, WorkInv, WorkersClaimed, OneWorkerPerEvent, Working,
     taskVars, entryVars
<1>3. ASSUME NEW c \in Consumers, Consume(c) PROVE WorkInv'
  BY <1>3, ClaimWorkInv, ConsumeKeepsWorkers, KeepsWorkersWorkInv
<1>4. ASSUME NEW c \in Consumers, Disturb(c) PROVE WorkInv'
  BY <1>4, DisturbKeepsWorkers, KeepsWorkersWorkInv
<1>5. CASE UNCHANGED vars
  BY <1>5 DEF vars, redisVars, taskVars, entryVars, WorkInv, WorkersClaimed,
     OneWorkerPerEvent, Working
<1>. QED
  BY <1>1, <1>2, <1>3, <1>4, <1>5 DEF Next

(* Two consumers never work on the same event at once.                     *)
THEOREM OneWorker == Spec => []OneWorkerPerEvent
<1>1. Init => WorkInv
  BY DEF Init, WorkInv, WorkersClaimed, OneWorkerPerEvent, Working
<1>2. WorkInv => OneWorkerPerEvent
  BY DEF WorkInv
<1>. QED
  BY <1>1, <1>2, WorkInvStep, TypeCorrect, PTL DEF Spec
-----------------------------------------------------------------------------
(***************************************************************************)
(* The handlers' calls are bounded.  RunsCounted ties the counts to the    *)
(* attempt and the handler at which the one worker of the event is.        *)
(***************************************************************************)
Calling(d) == at[d] \in {"handle", "ack"}

(* A step after which nobody calls handlers who did not before, and those  *)
(* who do are where they were.                                             *)
KeepsCallers ==
  /\ \A d \in Consumers :
       Calling(d)' => /\ at'[d] = at[d] /\ (stream[cur[d]])' = stream[cur[d]]
                      /\ attempt'[d] = attempt[d] /\ next'[d] = next[d]
  /\ runs' = runs
  /\ dedup \subseteq dedup'

(* A step that leaves counts and callers alone keeps them in agreement.    *)
LEMMA KeepsCallersRunsCounted ==
  ASSUME RunsCounted, KeepsCallers
  PROVE  RunsCounted'
BY DEF RunsCounted, CountsOK, CallerOK, KeepsCallers, Calling

(* The steps of the loop that neither claim, return nor fail leave them    *)
(* alone.                                                                  *)
LEMMA ConsumeKeepsCallers ==
  ASSUME TypeOK, NEW c \in Consumers, Consume(c),
         ~ClaimDedup(c), ~HandlerReturns(c), ~HandlerRaises(c)
  PROVE  KeepsCallers
<1>. USE DEF TypeOK, TaskTypeOK, KeepsCallers, Calling, redisVars, entryVars, Goto
<1>1. CASE StartConsumerLoop(c)
  BY <1>1 DEF StartConsumerLoop
<1>2. CASE EnsureGroup(c)
  BY <1>2 DEF EnsureGroup
<1>3. CASE ConsumeHistory(c)
  BY <1>3 DEF ConsumeHistory
<1>4. CASE ConsumeNew(c)
  BY <1>4 DEF ConsumeNew
<1>5. CASE RejectInvalid(c)
  BY <1>5 DEF RejectInvalid
<1>6. CASE SkipDuplicate(c)
  BY <1>6 DEF SkipDuplicate, NextOfBatch, Between
<1>7. CASE AckDelivered(c)
  BY <1>7 DEF AckDelivered, NextOfBatch, Between
<1>8. CASE AckDropped(c)
  BY <1>8 DEF AckDropped
<1>9. CASE DeadLetter(c)
  BY <1>9 DEF DeadLetter, NextOfBatch, Between
<1>. QED
  BY <1>1, <1>2, <1>3, <1>4, <1>5, <1>6, <1>7, <1>8, <1>9 DEF Consume

(* So do the failures, but the one of the xack after the handlers.         *)
LEMMA DisturbKeepsCallers ==
  ASSUME TypeOK, NEW c \in Consumers, Disturb(c), ~AckDeliveredFails(c)
  PROVE  KeepsCallers
<1>. USE DEF TypeOK, TaskTypeOK, KeepsCallers, Calling, redisVars, entryVars, Goto,
         AbandonBatch, Between
<1>1. CASE EnsureGroupFails(c)
  BY <1>1 DEF EnsureGroupFails
<1>2. CASE ConsumeNewFails(c)
  BY <1>2 DEF ConsumeNewFails
<1>3. CASE ClaimDedupFails(c)
  BY <1>3 DEF ClaimDedupFails
<1>4. CASE SkipDuplicateFails(c)
  BY <1>4 DEF SkipDuplicateFails
<1>5. CASE AckDroppedFails(c)
  BY <1>5 DEF AckDroppedFails
<1>6. CASE DeadLetterFails(c)
  BY <1>6 DEF DeadLetterFails
<1>7. CASE Stop(c)
  BY <1>7 DEF Stop
<1>. QED
  BY <1>1, <1>2, <1>3, <1>4, <1>5, <1>6, <1>7 DEF Disturb

(* So does a publication.                                                  *)
LEMMA PublishKeepsCallers ==
  ASSUME TypeOK, NEW e \in Events \union {Invalid}, Publish(e)
  PROVE  KeepsCallers
<1>1. \A m \in DOMAIN stream : stream'[m] = stream[m]
  BY DEF TypeOK, RedisTypeOK, Publish
<1>2. \A d \in Consumers : Calling(d)' => cur[d] \in DOMAIN stream
  BY DEF TypeOK, DispatchOK, Publish, Calling, taskVars, entryVars
<1>. QED
  BY <1>1, <1>2 DEF Publish, KeepsCallers, taskVars, entryVars

(* A fresh claim starts counting from zero.                                *)
LEMMA ClaimRunsCounted ==
  ASSUME TypeOK, RunsCounted, NEW c \in Consumers, ClaimDedup(c)
  PROVE  RunsCounted'
<1>. USE DEF TypeOK, TaskTypeOK
<1>1. PICK m \in Entry :
        /\ HeadOfBatch(c, m)
        /\ stream[m] # Invalid
        /\ cur' = [cur EXCEPT ![c] = m]
        /\ dedup' = dedup \union {stream[m]}
        /\ \/ /\ stream[m] \in dedup
              /\ Goto(c, "skip")
              /\ UNCHANGED <<attempt, next>>
           \/ /\ stream[m] \notin dedup
              /\ Goto(c, "handle")
              /\ attempt' = [attempt EXCEPT ![c] = 1]
              /\ next' = [next EXCEPT ![c] = 1]
  BY DEF ClaimDedup
<1>2. stream' = stream /\ runs' = runs
  BY DEF ClaimDedup
<1>3. CASE Goto(c, "skip") /\ UNCHANGED <<attempt, next>>
  <2>1. KeepsCallers
    BY <1>1, <1>2, <1>3 DEF KeepsCallers, Calling, Goto
  <2>. QED
    BY <2>1, KeepsCallersRunsCounted
<1>4. CASE /\ stream[m] \notin dedup
           /\ Goto(c, "handle")
           /\ attempt' = [attempt EXCEPT ![c] = 1]
           /\ next' = [next EXCEPT ![c] = 1]
  <2>1. stream[m] \in Events /\ m \in DOMAIN stream
    BY <1>1 DEF HeadOfBatch, RedisTypeOK
  <2>2. \A h \in Handlers : runs[stream[m]][h] = 0
    BY <1>4, <2>1 DEF RunsCounted, CountsOK
  <2>3. \A e \in Events : CountsOK(e)'
    BY <1>1, <1>2 DEF RunsCounted, CountsOK
  <2>4. /\ at'[c] = "handle" /\ (stream[cur[c]])' = stream[m]
        /\ attempt'[c] = 1 /\ next'[c] = 1
    BY <1>1, <1>2, <1>4 DEF Goto
  <2>5. \A h \in Handlers : runs'[stream[m]][h] <= 1 - (IF h < 1 THEN 0 ELSE 1)
    BY <1>2, <2>2 DEF Handlers
  <2>6. \A d \in Consumers \ {c} :
          /\ at'[d] = at[d] /\ (stream[cur[d]])' = stream[cur[d]]
          /\ attempt'[d] = attempt[d] /\ next'[d] = next[d]
    BY <1>1, <1>2, <1>4 DEF Goto
  <2>7. CallerOK(c)'
    BY <1>2, <2>4, <2>5 DEF CallerOK
  <2>8. \A d \in Consumers \ {c} : CallerOK(d)'
    BY ZenonT(60), <1>2, <2>6 DEF RunsCounted, CallerOK
  <2>. QED
    BY <2>3, <2>7, <2>8 DEF RunsCounted
<1>. QED
  BY <1>1, <1>3, <1>4

(* A return counts for the one consumer at the event, and for no other.    *)
LEMMA ReturnRunsCounted ==
  ASSUME TypeOK, WorkInv, RunsCounted, NEW c \in Consumers, HandlerReturns(c)
  PROVE  RunsCounted'
<1>. DEFINE e == stream[cur[c]]
            n == next[c]
<1>1. /\ at[c] = "handle" /\ e \in Events /\ n \in Handlers
      /\ attempt[c] \in 1..MaxAttempts /\ e \in dedup
  BY DEF HandlerReturns, TypeOK, TaskTypeOK, DispatchOK, Handlers, WorkInv,
         WorkersClaimed, Working
<1>2. /\ runs' = [runs EXCEPT ![e][n] = runs[e][n] + 1]
      /\ UNCHANGED <<stream, cur, attempt, dedup>>
  BY DEF HandlerReturns, redisVars
<1>3. runs \in [Events -> [Handlers -> Nat]]
  BY DEF TypeOK, HistoryTypeOK
<1>4. /\ \A f \in Events \ {e} : runs'[f] = runs[f]
      /\ \A h \in Handlers \ {n} : runs'[e][h] = runs[e][h]
      /\ runs'[e][n] = runs[e][n] + 1
  BY <1>1, <1>2, <1>3
<1>5. /\ \A h \in Handlers : runs[e][h] <= attempt[c] - (IF h < n THEN 0 ELSE 1)
      /\ n > 1 => runs[e][n] < runs[e][n - 1]
  BY <1>1 DEF RunsCounted, CallerOK
<1>6. \A h \in Handlers : runs[e][h] \in Nat /\ (h > 1 => h - 1 \in Handlers)
  BY SMTT(60), <1>1, <1>3 DEF Handlers
<1>7. \A h \in Handlers : h > 1 => runs[e][h] <= runs[e][h - 1]
  BY <1>1 DEF RunsCounted, CountsOK
<1>8. \A h \in Handlers :
        /\ runs'[e][h] <= attempt[c] - (IF h < n + 1 THEN 0 ELSE 1)
        /\ h > 1 => runs'[e][h] <= runs'[e][h - 1]
  BY SMTT(60), <1>1, <1>4, <1>5, <1>6, <1>7 DEF Handlers
<1>9. n < NumHandlers => runs'[e][n + 1] < runs'[e][n]
  <2>1. n < NumHandlers => n + 1 \in Handlers /\ (n + 1) - 1 = n /\ n + 1 > 1
    BY <1>1 DEF Handlers
  <2>2. n < NumHandlers => runs[e][n + 1] <= runs[e][n]
    BY SMTT(60), <1>7, <2>1
  <2>. QED
    <3>1. ASSUME n < NumHandlers PROVE runs'[e][n + 1] < runs'[e][n]
      <4>1. n + 1 # n /\ n + 1 \in Handlers
        BY <1>1, <2>1, <3>1 DEF Handlers
      <4>2. runs'[e][n + 1] = runs[e][n + 1] /\ runs'[e][n] = runs[e][n] + 1
        BY <1>4, <4>1
      <4>3. runs[e][n + 1] <= runs[e][n] /\ runs[e][n + 1] \in Nat /\ runs[e][n] \in Nat
        BY <1>1, <1>6, <2>2, <3>1, <4>1
      <4>. QED
        BY <4>2, <4>3
    <3>. QED
      BY <3>1
<1>10. \A f \in Events : CountsOK(f)'
  <2>1. \A h \in Handlers : runs'[e][h] <= MaxAttempts
    BY <1>1, <1>4, <1>5, <1>6, <1>8
  <2>. QED
    BY <1>1, <1>2, <1>4, <1>8, <2>1 DEF RunsCounted, CountsOK
<1>11. \A d \in Consumers \ {c} :
         Calling(d) => stream[cur[d]] # e /\ stream[cur[d]] \in Events
  BY <1>1 DEF WorkInv, OneWorkerPerEvent, Working, Calling, TypeOK, DispatchOK
<1>12. \A d \in Consumers \ {c} : at'[d] = at[d] /\ next'[d] = next[d]
  BY DEF HandlerReturns, Goto, TypeOK, TaskTypeOK
<1>13. \A d \in Consumers \ {c} : Calling(d) => runs'[stream[cur[d]]] = runs[stream[cur[d]]]
  BY <1>4, <1>11
<1>14. \A d \in Consumers \ {c} : CallerOK(d)'
  BY <1>2, <1>12, <1>13 DEF RunsCounted, CallerOK, Calling
<1>15. CallerOK(c)'
  <2>1. CASE n < NumHandlers
    <3>1. at'[c] = "handle" /\ next'[c] = n + 1
      BY <1>1, <2>1 DEF HandlerReturns, TypeOK, TaskTypeOK, Handlers
    <3>2. (n + 1) - 1 = n
      BY <1>1 DEF Handlers
    <3>. QED
      BY <1>2, <1>8, <1>9, <2>1, <3>1, <3>2 DEF CallerOK
  <2>2. CASE n = NumHandlers
    <3>1. at'[c] = "ack"
      BY <1>1, <2>2 DEF HandlerReturns, TypeOK, TaskTypeOK, Handlers, Goto
    <3>2. \A h \in Handlers : runs'[e][h] <= attempt[c]
      BY <1>1, <1>8, <2>2 DEF Handlers
    <3>. QED
      BY <1>2, <3>1, <3>2 DEF CallerOK
  <2>. QED
    BY <1>1, <2>1, <2>2 DEF Handlers
<1>. QED
  BY <1>10, <1>14, <1>15 DEF RunsCounted

(* A failed attempt leaves room for one more return of every handler, if   *)
(* there is another attempt.                                               *)
LEMMA AttemptFailsRunsCounted ==
  ASSUME TypeOK, RunsCounted, NEW c \in Consumers, Calling(c), AttemptFails(c),
         UNCHANGED <<stream, runs, dedup>>
  PROVE  RunsCounted'
<1>1. \A e \in Events : CountsOK(e)'
  BY DEF RunsCounted, CountsOK
<1>2. \A d \in Consumers \ {c} :
        at'[d] = at[d] /\ attempt'[d] = attempt[d] /\ next'[d] = next[d] /\ cur'[d] = cur[d]
  BY DEF AttemptFails, Goto, TypeOK, TaskTypeOK
<1>3. \A d \in Consumers \ {c} : CallerOK(d)'
  BY <1>2 DEF RunsCounted, CallerOK
<1>4. \A h \in Handlers : runs[stream[cur[c]]][h] <= attempt[c]
  <2>1. attempt[c] \in Nat
    BY DEF TypeOK, TaskTypeOK
  <2>2. \A h \in Handlers : runs[stream[cur[c]]][h] \in Nat
    BY DEF TypeOK, DispatchOK, Calling, HistoryTypeOK
  <2>. QED
    BY <2>1, <2>2 DEF RunsCounted, CallerOK, Calling
<1>5. CallerOK(c)'
  <2>1. CASE attempt[c] < MaxAttempts
    <3>1. /\ at'[c] = "handle" /\ attempt'[c] = attempt[c] + 1 /\ next'[c] = 1
          /\ cur'[c] = cur[c]
      BY <2>1 DEF AttemptFails, Goto, TypeOK, TaskTypeOK
    <3>2. \A h \in Handlers : ~(h < 1)
      BY DEF Handlers
    <3>3. attempt[c] \in Nat
      BY DEF TypeOK, TaskTypeOK
    <3>. QED
      <4>1. \A h \in Handlers :
              runs'[stream'[cur'[c]]][h] <= attempt'[c] - (IF h < next'[c] THEN 0 ELSE 1)
        <5>1. runs'[stream'[cur'[c]]] = runs[stream[cur[c]]]
          BY <3>1
        <5>2. ASSUME NEW h \in Handlers
              PROVE  attempt'[c] - (IF h < next'[c] THEN 0 ELSE 1) = attempt[c]
          <6>1. (IF h < next'[c] THEN 0 ELSE 1) = 1
            BY <3>1, <3>2
          <6>2. attempt'[c] - 1 = attempt[c]
            BY <3>1, <3>3
          <6>. QED
            BY <6>1, <6>2
        <5>. QED
          BY <1>4, <5>1, <5>2
      <4>2. ~(next'[c] > 1)
        BY <3>1
      <4>. QED
        BY <3>1, <4>1, <4>2 DEF CallerOK
  <2>2. CASE attempt[c] = MaxAttempts
    <3>1. at'[c] = "drop"
      BY <2>2 DEF AttemptFails, Goto, TypeOK, TaskTypeOK
    <3>. QED
      BY <3>1 DEF CallerOK
  <2>. QED
    BY <2>1, <2>2 DEF AttemptFails
<1>. QED
  BY <1>1, <1>3, <1>5 DEF RunsCounted

(* An expired key takes its counts with it, and nobody is calling.         *)
LEMMA ExpireRunsCounted ==
  ASSUME TypeOK, RunsCounted, NEW e \in Events, ExpireDedup(e)
  PROVE  RunsCounted'
<1>1. /\ runs' = [runs EXCEPT ![e] = [h \in Handlers |-> 0]]
      /\ dedup' = dedup \ {e}
      /\ UNCHANGED <<stream, taskVars>>
  BY DEF ExpireDedup
<1>2. runs'[e] = [h \in Handlers |-> 0] /\ \A f \in Events \ {e} : runs'[f] = runs[f]
  BY <1>1 DEF TypeOK, HistoryTypeOK
<1>3. CountsOK(e)'
  BY <1>2 DEF CountsOK, Handlers
<1>4. \A f \in Events \ {e} : CountsOK(f)'
  BY <1>1, <1>2 DEF RunsCounted, CountsOK
<1>5. \A d \in Consumers : Calling(d) => stream[cur[d]] \in Events \ {e}
  BY DEF ExpireDedup, Working, Calling, TypeOK, DispatchOK
<1>6. \A d \in Consumers : CallerOK(d)'
  BY <1>1, <1>2, <1>5 DEF RunsCounted, CallerOK, Calling, taskVars, entryVars
<1>. QED
  BY <1>3, <1>4, <1>6 DEF RunsCounted

(* Under one deduplication key no handler returns more often than there    *)
(* are attempts, nor a later handler more often than an earlier one.       *)
THEOREM RunsAreBounded == Spec => []RunsBounded
<1>1. Init => WorkInv /\ RunsCounted
  BY DEF Init, WorkInv, WorkersClaimed, OneWorkerPerEvent, Working, RunsCounted,
         CountsOK, CallerOK, Handlers
<1>2. ASSUME TypeOK, WorkInv, RunsCounted, [Next]_vars PROVE RunsCounted'
  <2>1. ASSUME NEW e \in Events \union {Invalid}, Publish(e) PROVE RunsCounted'
    BY <1>2, <2>1, PublishKeepsCallers, KeepsCallersRunsCounted
  <2>2. ASSUME NEW e \in Events, ExpireDedup(e) PROVE RunsCounted'
    BY <1>2, <2>2, ExpireRunsCounted
  <2>3. ASSUME NEW c \in Consumers, Consume(c) PROVE RunsCounted'
    <3>1. CASE HandlerRaises(c)
      <4>1. Calling(c) /\ AttemptFails(c) /\ UNCHANGED <<stream, runs, dedup>>
        BY <3>1 DEF HandlerRaises, Calling, redisVars
      <4>. QED
        BY <1>2, <4>1, AttemptFailsRunsCounted
    <3>2. CASE ~HandlerRaises(c)
      BY <1>2, <2>3, <3>2, ClaimRunsCounted, ReturnRunsCounted, ConsumeKeepsCallers,
         KeepsCallersRunsCounted
    <3>. QED
      BY <3>1, <3>2
  <2>4. ASSUME NEW c \in Consumers, Disturb(c) PROVE RunsCounted'
    <3>1. CASE AckDeliveredFails(c)
      <4>1. Calling(c) /\ AttemptFails(c) /\ UNCHANGED <<stream, runs, dedup>>
        BY <3>1 DEF AckDeliveredFails, Calling
      <4>. QED
        BY <1>2, <4>1, AttemptFailsRunsCounted
    <3>2. CASE ~AckDeliveredFails(c)
      BY <1>2, <2>4, <3>2, DisturbKeepsCallers, KeepsCallersRunsCounted
    <3>. QED
      BY <3>1, <3>2
  <2>5. CASE UNCHANGED vars
    BY <1>2, <2>5 DEF vars, redisVars, taskVars, entryVars, RunsCounted, CountsOK,
       CallerOK
  <2>. QED
    BY <1>2, <2>1, <2>2, <2>3, <2>4, <2>5 DEF Next
<1>3. ASSUME TypeOK, WorkInv, [Next]_vars PROVE WorkInv'
  BY <1>3, WorkInvStep
<1>4. RunsCounted => RunsBounded
  BY DEF RunsCounted, CountsOK, RunsBounded
<1>. QED
  BY <1>1, <1>2, <1>3, <1>4, TypeCorrect, PTL DEF Spec
-----------------------------------------------------------------------------
(***************************************************************************)
(* What a step of one consumer can do to the others is said once.          *)
(***************************************************************************)
(* A step of c leaves the other consumers where they were, and takes       *)
(* nothing back.                                                           *)
Frame(c) ==
  /\ stream' = stream
  /\ \A d \in Consumers \ {c} : /\ at'[d] = at[d] /\ cur'[d] = cur[d]
                                /\ batch'[d] = batch[d] /\ pel'[d] = pel[d]
  /\ handled \subseteq handled' /\ dlq \subseteq dlq'
  /\ group <= group'
  /\ faults' \in {faults, faults + 1}

(* Every step of the loop is such a step.                                  *)
LEMMA ConsumeFrame ==
  ASSUME TypeOK, NEW c \in Consumers, Consume(c)
  PROVE  Frame(c)
<1>. USE DEF TypeOK, RedisTypeOK, TaskTypeOK, HistoryTypeOK, Frame, redisVars, entryVars, Goto
<1>1. CASE StartConsumerLoop(c)
  BY <1>1 DEF StartConsumerLoop
<1>2. CASE EnsureGroup(c)
  BY <1>2 DEF EnsureGroup
<1>3. CASE ConsumeHistory(c)
  BY <1>3 DEF ConsumeHistory
<1>4. CASE ConsumeNew(c)
  BY <1>4 DEF ConsumeNew, Deliver
<1>5. CASE RejectInvalid(c)
  BY <1>5 DEF RejectInvalid
<1>6. CASE ClaimDedup(c)
  BY <1>6 DEF ClaimDedup
<1>7. CASE SkipDuplicate(c)
  BY <1>7 DEF SkipDuplicate, NextOfBatch, Between, XAck
<1>8. CASE HandlerReturns(c)
  BY SMTT(60), <1>8 DEF HandlerReturns
<1>9. CASE HandlerRaises(c)
  BY <1>9 DEF HandlerRaises, AttemptFails
<1>10. CASE AckDelivered(c)
  BY <1>10 DEF AckDelivered, NextOfBatch, Between, XAck
<1>11. CASE AckDropped(c)
  BY <1>11 DEF AckDropped, XAck
<1>12. CASE DeadLetter(c)
  BY <1>12 DEF DeadLetter, NextOfBatch, Between, Notice, Fault
<1>. QED
  BY <1>1, <1>2, <1>3, <1>4, <1>5, <1>6, <1>7, <1>8, <1>9, <1>10, <1>11, <1>12 DEF Consume

(* So is every failure, and it is counted.                                 *)
LEMMA DisturbFrame ==
  ASSUME TypeOK, NEW c \in Consumers, Disturb(c)
  PROVE  Frame(c) /\ faults' = faults + 1
<1>. USE DEF TypeOK, RedisTypeOK, TaskTypeOK, HistoryTypeOK, Frame, redisVars, entryVars, Goto,
         Fault, AbandonBatch, Between
<1>1. CASE EnsureGroupFails(c)
  BY <1>1 DEF EnsureGroupFails
<1>2. CASE ConsumeNewFails(c)
  BY SMTT(60), <1>2 DEF ConsumeNewFails, Deliver
<1>3. CASE ClaimDedupFails(c)
  BY <1>3 DEF ClaimDedupFails
<1>4. CASE SkipDuplicateFails(c)
  BY <1>4 DEF SkipDuplicateFails, XAckFails, XAck
<1>5. CASE AckDeliveredFails(c)
  BY <1>5 DEF AckDeliveredFails, AttemptFails, XAckFails, XAck
<1>6. CASE AckDroppedFails(c)
  BY SMTT(60), <1>6 DEF AckDroppedFails, XAckFails, XAck
<1>7. CASE DeadLetterFails(c)
  BY <1>7 DEF DeadLetterFails
<1>8. CASE Stop(c)
  BY <1>8 DEF Stop
<1>. QED
  BY <1>1, <1>2, <1>3, <1>4, <1>5, <1>6, <1>7, <1>8 DEF Disturb

(* A set that grows by one element at most, and not without a failure,     *)
(* stays within the failures.                                              *)
LEMMA Counted ==
  ASSUME NEW S, NEW T, NEW x, NEW m \in Int, NEW n \in Int,
         IsFiniteSet(S), Cardinality(S) <= m,
         \/ T \subseteq S /\ n >= m
         \/ T \subseteq S \union {x} /\ n = m + 1
  PROVE  IsFiniteSet(T) /\ Cardinality(T) <= n
<1>1. CASE T \subseteq S /\ n >= m
  BY <1>1, FS_Subset, FS_CardinalityType
<1>2. CASE T \subseteq S \union {x} /\ n = m + 1
  <2>1. IsFiniteSet(S \union {x}) /\ Cardinality(S \union {x}) <= Cardinality(S) + 1
    <3>1. /\ IsFiniteSet(S \union {x})
          /\ Cardinality(S \union {x}) = IF x \in S THEN Cardinality(S) ELSE Cardinality(S) + 1
      BY FS_AddElement
    <3>2. Cardinality(S) \in Int
      BY FS_CardinalityType
    <3>. QED
      BY <3>1, <3>2
  <2>2. IsFiniteSet(T) /\ Cardinality(T) <= Cardinality(S \union {x})
    BY <1>2, <2>1, FS_Subset
  <2>3. Cardinality(T) \in Int /\ Cardinality(S \union {x}) \in Int /\ Cardinality(S) \in Int
    BY <2>1, <2>2, FS_CardinalityType
  <2>. QED
    BY <1>2, <2>1, <2>2, <2>3
<1>. QED
  BY <1>1, <1>2

(* A publication moves nobody and settles nothing.                         *)
LEMMA PublishKnown ==
  ASSUME TypeOK, NEW e \in Events \union {Invalid}, Publish(e)
  PROVE  /\ \A f : Known(f) <=> Known(f)'
         /\ LostEvents' \subseteq LostEvents
         /\ \A m \in DOMAIN stream : stream'[m] = stream[m]
         /\ UNCHANGED <<group, pel, dedup, dlq, at, cur, batch, acked, handled>>
         /\ faults' \in {faults, faults + 1}
<1>1. /\ UNCHANGED <<group, pel, dedup, dlq, at, cur, batch, acked, handled>>
      /\ \A m \in DOMAIN stream : m \in DOMAIN stream' /\ stream'[m] = stream[m]
      /\ faults' \in {faults, faults + 1}
  BY DEF Publish, taskVars, entryVars, TypeOK, RedisTypeOK, Notice, Fault
<1>2. \A d \in Consumers : Dispatching(d) => cur[d] \in DOMAIN stream
  BY DEF TypeOK, DispatchOK, Dispatching
<1>3. \A d \in Consumers : (Working(d) <=> Working(d)') /\ (Live(d) <=> Live(d)')
  BY <1>1, <1>2 DEF Working, Dispatching, Live
<1>4. \A d \in Consumers : Working(d) => stream'[cur'[d]] = stream[cur[d]]
  BY <1>1, <1>2 DEF Working, Dispatching
<1>5. \A m \in handled \union dlq : stream'[m] = stream[m]
  BY <1>1 DEF TypeOK, RedisTypeOK, HistoryTypeOK
<1>6. \A f : BeingWorkedOn(f) <=> BeingWorkedOn(f)'
  BY <1>3, <1>4 DEF BeingWorkedOn
<1>7. \A f : Known(f) <=> Known(f)'
  BY <1>1, <1>5, <1>6 DEF Known
<1>8. \A f : ToCome(f) => ToCome(f)'
  BY <1>1, <1>3 DEF ToCome
<1>9. Given' = Given /\ Given \subseteq DOMAIN stream
  BY <1>1 DEF Given, TypeOK, RedisTypeOK, HistoryTypeOK
<1>10. LostEvents' \subseteq LostEvents
  BY <1>1, <1>7, <1>8, <1>9 DEF LostEvents
<1>. QED
  BY <1>1, <1>7, <1>10

-----------------------------------------------------------------------------
(***************************************************************************)
(* Handled and dead-lettered, one entry per failure at most.  An entry is  *)
(* in one consumer's hands, and in nobody's once it is a dead letter; so   *)
(* it can only be both if it was handled, and stays to be dispatched       *)
(* again: which costs a failure.                                           *)
(***************************************************************************)
Tidy(c) ==
  /\ ~Dispatching(c) => cur[c] = 0
  /\ batch[c] \ {cur[c]} \subseteq pel[c]
  /\ at[c] = "dead" => cur[c] \notin pel[c]

(* What a step of c does with the entries that c holds: it is given none   *)
(* but new ones, settles none but the one it is at, which it then lets go, *)
(* and lets none but those of X be dispatched again once handled.          *)
Hands(c, X) ==
  /\ Tidy(c)'
  /\ Held(c)' \subseteq Held(c) \union {m \in DOMAIN stream : m > group /\ m <= group'}
  /\ handled' \ handled \subseteq Held(c)
  /\ handled' = handled \/ dlq' = dlq
  /\ \A m \in dlq' \ dlq : m = cur[c] /\ at[c] = "dead" /\ m \notin Held(c)'
  /\ \A m \in Held(c) \intersect Held(c)' :
       m \in handled' /\ (at'[c] = "ack" => m # cur'[c])
         => (m \in handled /\ (at[c] = "ack" => m # cur[c])) \/ m \in X

(* The loop's own steps are of that kind.                                  *)
LEMMA ConsumeHands ==
  ASSUME TypeOK, HeldInv, NEW c \in Consumers, Consume(c)
  PROVE  Hands(c, {})
<1>. USE DEF TypeOK, RedisTypeOK, TaskTypeOK, HistoryTypeOK, Hands, Held, Tidy, Dispatching,
         redisVars, entryVars, Goto
<1>0. Tidy(c)
  BY DEF HeldInv
<1>1. CASE StartConsumerLoop(c)
  BY <1>0, <1>1 DEF StartConsumerLoop
<1>2. CASE EnsureGroup(c)
  BY <1>0, <1>2 DEF EnsureGroup
<1>3. CASE ConsumeHistory(c)
  <2>1. /\ batch' \in {batch, [batch EXCEPT ![c] = Oldest(pel[c])]}
        /\ \E stage \in {"take", "new"} : Goto(c, stage)
        /\ at[c] = "history"
        /\ UNCHANGED <<redisVars, entryVars, handled>>
    BY <1>3 DEF ConsumeHistory
  <2>2. Oldest(pel[c]) \subseteq pel[c]
    BY DEF Oldest
  <2>3. batch'[c] \subseteq pel'[c]
    BY <1>0, <2>1, <2>2
  <2>4. at'[c] \in {"take", "new"} /\ cur[c] = 0
    BY <1>0, <2>1
  <2>. QED
    BY <1>0, <2>1, <2>3, <2>4
<1>4. CASE ConsumeNew(c)
  BY SMTT(60), <1>0, <1>4 DEF ConsumeNew, Deliver, Fresh
<1>5. CASE RejectInvalid(c)
  BY <1>0, <1>5 DEF RejectInvalid, HeadOfBatch
<1>6. CASE ClaimDedup(c)
  BY <1>0, <1>6 DEF ClaimDedup, HeadOfBatch
<1>7. CASE SkipDuplicate(c)
  BY <1>0, <1>7 DEF SkipDuplicate, NextOfBatch, Between, XAck
<1>8. CASE HandlerReturns(c)
  BY <1>0, <1>8 DEF HandlerReturns
<1>9. CASE HandlerRaises(c)
  BY <1>0, <1>9 DEF HandlerRaises, AttemptFails
<1>10. CASE AckDelivered(c)
  BY <1>0, <1>10 DEF AckDelivered, NextOfBatch, Between, XAck
<1>11. CASE AckDropped(c)
  BY <1>0, <1>11 DEF AckDropped, XAck
<1>12. CASE DeadLetter(c)
  BY <1>0, <1>12 DEF DeadLetter, NextOfBatch, Between
<1>. QED
  BY <1>1, <1>2, <1>3, <1>4, <1>5, <1>6, <1>7, <1>8, <1>9, <1>10, <1>11, <1>12 DEF Consume

(* A failure puts the entry at hand at risk, and no other.                 *)
LEMMA DisturbHands ==
  ASSUME TypeOK, HeldInv, NEW c \in Consumers, Disturb(c)
  PROVE  Hands(c, {cur[c]})
<1>. USE DEF TypeOK, RedisTypeOK, TaskTypeOK, HistoryTypeOK, Hands, Held, Tidy, Dispatching,
         redisVars, entryVars, Goto, AbandonBatch, Between
<1>0. Tidy(c)
  BY DEF HeldInv
<1>1. CASE EnsureGroupFails(c)
  BY <1>0, <1>1 DEF EnsureGroupFails
<1>2. CASE ConsumeNewFails(c)
  BY <1>0, <1>2 DEF ConsumeNewFails, Deliver, Fresh
<1>3. CASE ClaimDedupFails(c)
  BY <1>0, <1>3 DEF ClaimDedupFails
<1>4. CASE SkipDuplicateFails(c)
  BY <1>0, <1>4 DEF SkipDuplicateFails, XAckFails, XAck
<1>5. CASE AckDeliveredFails(c)
  BY <1>0, <1>5 DEF AckDeliveredFails, AttemptFails, XAckFails, XAck
<1>6. CASE AckDroppedFails(c)
  BY <1>0, <1>6 DEF AckDroppedFails, XAckFails, XAck
<1>7. CASE DeadLetterFails(c)
  BY <1>0, <1>7 DEF DeadLetterFails
<1>8. CASE Stop(c)
  BY <1>0, <1>8 DEF Stop
<1>. QED
  BY <1>1, <1>2, <1>3, <1>4, <1>5, <1>6, <1>7, <1>8 DEF Disturb

(* So every entry stays in one consumer's hands at most.                   *)
LEMMA HandsKeepHeld ==
  ASSUME TypeOK, TypeOK', HeldInv, NEW c \in Consumers, NEW X, Frame(c), Hands(c, X)
  PROVE  HeldInv'
<1>0. \A d \in Consumers \ {c} :
        /\ Held(d)' = Held(d) /\ (Dispatching(d)' <=> Dispatching(d))
        /\ at'[d] = at[d] /\ cur'[d] = cur[d] /\ batch'[d] = batch[d] /\ pel'[d] = pel[d]
  BY DEF Frame, Held, Dispatching
<1>1. group \in Int /\ group' \in Int /\ group <= group'
  BY DEF TypeOK, RedisTypeOK, Frame
<1>2. \A d \in Consumers : Held(d) \subseteq DOMAIN stream /\ DOMAIN stream \subseteq Int
  BY DEF TypeOK, RedisTypeOK, DispatchOK, Held, Dispatching
<1>3. \A m \in dlq' \ dlq : m \in Held(c) /\ m \notin Held(c)'
  BY DEF Hands, Held, Dispatching
<1>4. \A m \in Held(c)' : m \in Held(c) \/ (m \in Int /\ m > group /\ m <= group')
  BY <1>2 DEF Hands
<1>5. handled \union dlq \subseteq DOMAIN stream
  BY DEF TypeOK, RedisTypeOK, HistoryTypeOK
<1>6. ASSUME NEW d \in Consumers, NEW m \in Held(d)'
      PROVE  m <= group' /\ m \notin dlq'
  <2>1. CASE d = c
    BY <1>1, <1>2, <1>3, <1>4, <1>6, <2>1 DEF HeldInv
  <2>2. CASE d # c
    <3>1. m \in Held(d) /\ m <= group /\ m \notin dlq /\ m \notin Held(c)
      BY <1>0, <1>6, <2>2 DEF HeldInv
    <3>. QED
      BY <1>1, <1>2, <1>3, <3>1
  <2>. QED
    BY <2>1, <2>2
<1>7. ASSUME NEW d \in Consumers \ {c}, NEW m \in Held(c)', m \in Held(d)'
      PROVE  FALSE
  <2>1. m \in Held(d) /\ m <= group /\ m \notin Held(c)
    BY <1>0, <1>7 DEF HeldInv
  <2>. QED
    BY <1>1, <1>4, <1>7, <2>1
<1>8. \A d, e \in Consumers : d # e => Held(d)' \intersect Held(e)' = {}
  <2>1. SUFFICES ASSUME NEW d \in Consumers, NEW e \in Consumers, d # e,
                        NEW m \in Held(d)', m \in Held(e)'
                 PROVE  FALSE
    OBVIOUS
  <2>2. CASE d = c \/ e = c
    BY <1>7, <2>1, <2>2
  <2>3. CASE d # c /\ e # c
    BY <1>0, <2>1, <2>3 DEF HeldInv
  <2>. QED
    BY <2>2, <2>3
<1>9. \A m \in handled' \union dlq' : m <= group'
  <2>1. \A m \in handled' \union dlq' : m \in handled \union dlq \/ m \in Held(c)
    BY <1>3 DEF Hands
  <2>2. \A m \in handled' \union dlq' : m \in Int /\ m <= group
    BY <1>2, <1>5, <2>1 DEF HeldInv
  <2>. QED
    BY <1>1, <2>2
<1>10. \A d \in Consumers : Tidy(d)'
  BY <1>0 DEF Hands, Tidy, HeldInv
<1>. QED
  BY <1>6, <1>8, <1>9, <1>10 DEF HeldInv, Tidy

(* And what is both, or may become both, is so already, or is one of X.    *)
LEMMA HandsSpreadBoth ==
  ASSUME TypeOK, HeldInv, NEW c \in Consumers, NEW X, Frame(c), Hands(c, X)
  PROVE  Both' \subseteq Both \union X
<1>0. \A d \in Consumers \ {c} :
        Held(d)' = Held(d) /\ at'[d] = at[d] /\ cur'[d] = cur[d]
  BY DEF Frame, Held, Dispatching
<1>1. /\ handled' \ handled \subseteq Held(c)
      /\ handled' = handled \/ dlq' = dlq
      /\ \A m \in dlq' \ dlq : m = cur[c] /\ at[c] = "dead"
      /\ \A m \in Held(c) \intersect Held(c)' :
           m \in handled' /\ (at'[c] = "ack" => m # cur'[c])
             => (m \in handled /\ (at[c] = "ack" => m # cur[c])) \/ m \in X
      /\ \A m \in Held(c)' : m \in Held(c) \/ (m \in DOMAIN stream /\ m > group)
  BY DEF Hands
<1>2. /\ \A m \in handled : m <= group
      /\ \A d \in Consumers : \A m \in Held(d) : m <= group /\ m \notin dlq
      /\ \A d \in Consumers \ {c} : Held(d) \intersect Held(c) = {}
  BY DEF HeldInv
<1>3. group \in Int /\ DOMAIN stream \subseteq Int
  BY DEF TypeOK, RedisTypeOK
<1>4. ASSUME NEW m \in handled', m \in dlq'
      PROVE  m \in Both
  <2>1. CASE m \in dlq
    BY <1>1, <1>2, <1>4, <2>1 DEF Both
  <2>2. CASE m \notin dlq
    <3>1. m = cur[c] /\ at[c] = "dead" /\ m \in handled
      BY <1>1, <1>4, <2>2
    <3>2. m \in Held(c)
      BY <3>1 DEF Held, Dispatching
    <3>. QED
      BY <3>1, <3>2 DEF Both, AtRisk
  <2>. QED
    BY <2>1, <2>2
<1>5. ASSUME NEW m \in handled', NEW d \in Consumers, m \in Held(d)',
             at'[d] = "ack" => m # cur'[d], m \notin X
      PROVE  m \in AtRisk
  <2>1. CASE d = c
    <3>1. m \in Held(c)
      BY <1>1, <1>2, <1>3, <1>5, <2>1
    <3>. QED
      BY <1>1, <1>5, <2>1, <3>1 DEF AtRisk
  <2>2. CASE d # c
    <3>1. m \in Held(d) /\ m \notin Held(c)
      BY <1>0, <1>2, <1>5, <2>2
    <3>2. m \in handled
      BY <1>1, <1>5, <3>1
    <3>. QED
      BY <1>0, <1>5, <2>2, <3>1, <3>2 DEF AtRisk
  <2>. QED
    BY <2>1, <2>2
<1>. QED
  BY <1>4, <1>5 DEF Both, AtRisk

(* What is both, or may become both, stays within the failures.            *)
LEMMA BothInvStep == TypeOK /\ TypeOK' /\ BothInv /\ [Next]_vars => BothInv'
<1>. SUFFICES ASSUME TypeOK, TypeOK', BothInv, [Next]_vars PROVE BothInv'
  OBVIOUS
<1>0. /\ faults \in Int /\ faults + 1 \in Int
      /\ HeldInv /\ IsFiniteSet(Both) /\ Cardinality(Both) <= faults
  BY DEF TypeOK, HistoryTypeOK, BothInv
<1>1. ASSUME NEW e \in Events \union {Invalid}, Publish(e) PROVE BothInv'
  <2>1. UNCHANGED <<group, pel, dlq, at, cur, batch, handled>> /\ faults' \in {faults, faults + 1}
    BY <1>1, PublishKnown
  <2>2. HeldInv' /\ Both' = Both
    BY <1>0, <2>1 DEF HeldInv, Held, Dispatching, Both, AtRisk
  <2>3. IsFiniteSet(Both') /\ Cardinality(Both') <= faults'
    BY <1>0, <2>1, <2>2, Counted
  <2>. QED
    BY <2>2, <2>3 DEF BothInv
<1>2. ASSUME NEW e \in Events, ExpireDedup(e) PROVE BothInv'
  BY <1>2 DEF ExpireDedup, BothInv, HeldInv, Held, Dispatching, Both, AtRisk, taskVars, entryVars
<1>3. ASSUME NEW c \in Consumers, Consume(c) PROVE BothInv'
  <2>1. Frame(c) /\ Hands(c, {})
    BY <1>0, <1>3, ConsumeFrame, ConsumeHands
  <2>2. HeldInv' /\ Both' \subseteq Both \union {}
    BY <1>0, <2>1, HandsKeepHeld, HandsSpreadBoth
  <2>3. faults' \in Int /\ faults' >= faults
    BY <1>0, <2>1 DEF Frame
  <2>4. IsFiniteSet(Both') /\ Cardinality(Both') <= faults'
    BY <1>0, <2>2, <2>3, Counted
  <2>. QED
    BY <2>2, <2>4 DEF BothInv
<1>4. ASSUME NEW c \in Consumers, Disturb(c) PROVE BothInv'
  <2>1. Frame(c) /\ faults' = faults + 1 /\ Hands(c, {cur[c]})
    BY <1>0, <1>4, DisturbFrame, DisturbHands
  <2>2. HeldInv' /\ Both' \subseteq Both \union {cur[c]}
    BY <1>0, <2>1, HandsKeepHeld, HandsSpreadBoth
  <2>3. IsFiniteSet(Both') /\ Cardinality(Both') <= faults + 1
    BY <1>0, <2>2, Counted
  <2>. QED
    BY <2>1, <2>2, <2>3 DEF BothInv
<1>5. CASE UNCHANGED vars
  BY <1>5 DEF vars, redisVars, taskVars, entryVars, BothInv, HeldInv, Held, Dispatching,
     Both, AtRisk
<1>. QED
  BY <1>1, <1>2, <1>3, <1>4, <1>5 DEF Next

(* Nothing is held or settled at the start; and an entry is one consumer's *)
(* at all times.                                                           *)
LEMMA InitBothInv == Init => BothInv
<1>1. Init => HeldInv /\ Both = {} /\ faults = 0
  BY DEF Init, HeldInv, Held, Dispatching, Both, AtRisk
<1>. QED
  BY <1>1, FS_EmptySet DEF BothInv

LEMMA HeldIsInvariant == Spec => []HeldInv
<1>1. BothInv => HeldInv
  BY DEF BothInv
<1>. QED
  BY <1>1, InitBothInv, BothInvStep, TypeCorrect, PTL DEF Spec

(* An entry ends up handled and dead-lettered only at the price of a       *)
(* failure each.                                                           *)
THEOREM HandledOrDead == Spec => []HandledXorDead
<1>1. BothInv /\ TypeOK => HandledXorDead
  <2>1. SUFFICES ASSUME BothInv, TypeOK PROVE HandledXorDead
    OBVIOUS
  <2>2. handled \intersect dlq \subseteq Both /\ faults \in Int
    BY <2>1 DEF Both, TypeOK, HistoryTypeOK
  <2>. QED
    BY <2>1, <2>2, Counted DEF BothInv, HandledXorDead
<1>. QED
  BY <1>1, InitBothInv, BothInvStep, TypeCorrect, PTL DEF Spec
-----------------------------------------------------------------------------
(***************************************************************************)
(* What consumers are given: a batch at a time, and nothing new while      *)
(* something is pending.                                                   *)
(***************************************************************************)
(* A set of numbers has a first one.                                       *)
LEMMA Earliest ==
  ASSUME NEW T \in SUBSET Nat, T # {}
  PROVE  \E x \in T : \A y \in T : x <= y
<1>. DEFINE Before == {p \in Nat \X Nat : p[1] < p[2]}
<1>1. IsWellFoundedOn(Before, Nat)
  BY NatLessThanWellFounded, Zenon DEF OpToRel
<1>. HIDE DEF Before
<1>2. \E x \in T : \A y \in T : <<y, x>> \notin Before
  BY <1>1, WFMin
<1>3. \A x, y \in Nat : <<y, x>> \notin Before => x <= y
  BY DEF Before
<1>. QED
  BY <1>2, <1>3

(* Pending entries have a first one, so that a history is read out.        *)
LEMMA SomeAreOldest ==
  ASSUME TypeOK, NEW c \in Consumers, pel[c] # {}
  PROVE  Oldest(pel[c]) # {}
<1>1. pel[c] \in SUBSET Nat
  BY DEF TypeOK, RedisTypeOK
<1>2. PICK m \in pel[c] : \A k \in pel[c] : m <= k
  BY <1>1, Earliest
<1>3. {k \in pel[c] : k <= m} = {m}
  BY <1>1, <1>2
<1>4. Cardinality({m}) = 1
  BY FS_Singleton
<1>5. Cardinality({k \in pel[c] : k <= m}) = 1
  BY <1>3, <1>4
<1>6. 1 <= BatchSize
  OBVIOUS
<1>. QED
  BY <1>2, <1>5, <1>6 DEF Oldest

(* What XREADGROUP hands over is a batch at most.                          *)
LEMMA FreshFits ==
  ASSUME TypeOK
  PROVE  IsFiniteSet(Fresh) /\ Cardinality(Fresh) <= BatchSize
<1>1. group + 1 \in Int /\ group + BatchSize \in Int
  BY DEF TypeOK, RedisTypeOK
<1>2. Fresh \subseteq (group + 1) .. (group + BatchSize)
  BY <1>1 DEF Fresh, TypeOK, RedisTypeOK
<1>3. /\ IsFiniteSet((group + 1) .. (group + BatchSize))
      /\ Cardinality((group + 1) .. (group + BatchSize)) =
           IF group + 1 > group + BatchSize THEN 0 ELSE (group + BatchSize) - (group + 1) + 1
  BY <1>1, FS_Interval
<1>4. Cardinality((group + 1) .. (group + BatchSize)) = BatchSize
  BY <1>3 DEF TypeOK, RedisTypeOK
<1>5. IsFiniteSet(Fresh) /\ Cardinality(Fresh) <= Cardinality((group + 1) .. (group + BatchSize))
  BY <1>2, <1>3, FS_Subset
<1>. QED
  BY <1>4, <1>5

(* The entries beyond the group up to where it gets are the ones handed    *)
(* over.                                                                   *)
LEMMA Delivered ==
  ASSUME TypeOK, NEW c \in Consumers, Deliver(c)
  PROVE  /\ pel'[c] = pel[c] \union Fresh
         /\ \A m \in DOMAIN stream : m > group /\ m <= group' <=> m \in Fresh
         /\ \A m \in Fresh : m \in DOMAIN stream
BY DEF Deliver, Fresh, TypeOK, RedisTypeOK

(* What a consumer has at hand or pending are finitely many entries.       *)
LEMMA HeldIsFinite ==
  ASSUME TypeOK, NEW c \in Consumers
  PROVE  IsFiniteSet(Held(c)) /\ Held(c) \subseteq DOMAIN stream
<1>1. Held(c) \subseteq DOMAIN stream
  BY DEF TypeOK, RedisTypeOK, DispatchOK, Held, Dispatching
<1>2. DOMAIN stream = 1 .. Len(stream) /\ Len(stream) \in Int
  BY DEF TypeOK, RedisTypeOK
<1>3. IsFiniteSet(1 .. Len(stream))
  BY <1>2, FS_Interval
<1>. QED
  BY <1>1, <1>2, <1>3, FS_Subset

(* What a step of c does to what c is given and acknowledges: it lets go   *)
(* only of the entry at hand, and of that by an acknowledgement; it takes  *)
(* up none but a pending one, and sets no key but that of a pending one;   *)
(* and what it holds afterwards it held before, or is one batch.           *)
Gives(c) ==
  /\ \/ acked' = acked
     \/ Dispatching(c) /\ acked' = acked \union {cur[c]}
  /\ pel[c] \subseteq pel'[c] \union acked'
  /\ Dispatching(c)' => cur'[c] \in pel[c] \/ (Dispatching(c) /\ cur'[c] = cur[c])
  /\ at'[c] \in {"off", "ensure", "new"} => pel'[c] = {}
  /\ \A e \in dedup' \ dedup : \E m \in pel[c] : stream[m] = e
  /\ Held(c)' \subseteq Held(c) \/ Held(c)' \subseteq Fresh

LEMMA ConsumeGives ==
  ASSUME TypeOK, HeldInv, GivenInv, NEW c \in Consumers, Consume(c)
  PROVE  Gives(c)
<1>. USE DEF TypeOK, RedisTypeOK, TaskTypeOK, HistoryTypeOK, Gives, Held, Tidy, Dispatching,
         redisVars, entryVars, Goto
<1>0. Tidy(c) /\ (at[c] \in {"off", "ensure", "new"} => pel[c] = {})
  BY DEF HeldInv, GivenInv
<1>1. CASE StartConsumerLoop(c)
  BY <1>0, <1>1 DEF StartConsumerLoop
<1>2. CASE EnsureGroup(c)
  BY <1>0, <1>2 DEF EnsureGroup
<1>3. CASE ConsumeHistory(c)
  <2>1. at'[c] = "new" => pel[c] = {}
    BY <1>3, SomeAreOldest DEF ConsumeHistory
  <2>. QED
    BY <1>0, <1>3, <2>1 DEF ConsumeHistory
<1>4. CASE ConsumeNew(c)
  BY SMTT(60), <1>0, <1>4 DEF ConsumeNew, Deliver
<1>5. CASE RejectInvalid(c)
  BY <1>0, <1>5 DEF RejectInvalid, HeadOfBatch
<1>6. CASE ClaimDedup(c)
  BY <1>0, <1>6 DEF ClaimDedup, HeadOfBatch
<1>7. CASE SkipDuplicate(c)
  BY <1>0, <1>7 DEF SkipDuplicate, NextOfBatch, Between, XAck
<1>8. CASE HandlerReturns(c)
  BY <1>0, <1>8 DEF HandlerReturns
<1>9. CASE HandlerRaises(c)
  BY <1>0, <1>9 DEF HandlerRaises, AttemptFails
<1>10. CASE AckDelivered(c)
  BY <1>0, <1>10 DEF AckDelivered, NextOfBatch, Between, XAck
<1>11. CASE AckDropped(c)
  BY <1>0, <1>11 DEF AckDropped, XAck
<1>12. CASE DeadLetter(c)
  BY <1>0, <1>12 DEF DeadLetter, NextOfBatch, Between
<1>. QED
  BY <1>1, <1>2, <1>3, <1>4, <1>5, <1>6, <1>7, <1>8, <1>9, <1>10, <1>11, <1>12 DEF Consume

LEMMA DisturbGives ==
  ASSUME TypeOK, HeldInv, GivenInv, NEW c \in Consumers, Disturb(c)
  PROVE  Gives(c)
<1>. USE DEF TypeOK, RedisTypeOK, TaskTypeOK, HistoryTypeOK, Gives, Held, Tidy, Dispatching,
         redisVars, entryVars, Goto, AbandonBatch, Between
<1>0. Tidy(c) /\ (at[c] \in {"off", "ensure", "new"} => pel[c] = {})
  BY DEF HeldInv, GivenInv
<1>1. CASE EnsureGroupFails(c)
  BY <1>0, <1>1 DEF EnsureGroupFails
<1>2. CASE ConsumeNewFails(c)
  BY SMTT(60), <1>0, <1>2 DEF ConsumeNewFails, Deliver
<1>3. CASE ClaimDedupFails(c)
  BY <1>0, <1>3 DEF ClaimDedupFails, HeadOfBatch
<1>4. CASE SkipDuplicateFails(c)
  BY <1>0, <1>4 DEF SkipDuplicateFails, XAckFails, XAck
<1>5. CASE AckDeliveredFails(c)
  BY <1>0, <1>5 DEF AckDeliveredFails, AttemptFails, XAckFails, XAck
<1>6. CASE AckDroppedFails(c)
  BY <1>0, <1>6 DEF AckDroppedFails, XAckFails, XAck
<1>7. CASE DeadLetterFails(c)
  BY <1>0, <1>7 DEF DeadLetterFails
<1>8. CASE Stop(c)
  BY <1>0, <1>8 DEF Stop
<1>. QED
  BY <1>1, <1>2, <1>3, <1>4, <1>5, <1>6, <1>7, <1>8 DEF Disturb

(* What has been given stays given: pending until it is acknowledged.      *)
LEMMA GivenGrows ==
  ASSUME TypeOK, NEW c \in Consumers, Frame(c), Gives(c)
  PROVE  Given \subseteq Given'
<1>1. \A d \in Consumers \ {c} : pel'[d] = pel[d]
  BY DEF Frame
<1>2. acked \subseteq acked' /\ pel[c] \subseteq pel'[c] \union acked'
  BY DEF Gives
<1>3. ASSUME NEW d \in Consumers, NEW m \in pel[d] PROVE m \in Given'
  BY <1>1, <1>2, <1>3 DEF Given
<1>. QED
  BY <1>2, <1>3 DEF Given

(* A step of that kind keeps what is given within bounds.                  *)
LEMMA GivesKeepGiven ==
  ASSUME TypeOK, TypeOK', HeldInv, GivenInv, NEW c \in Consumers, Frame(c), Gives(c)
  PROVE  GivenInv'
<1>0. /\ stream' = stream /\ group <= group' /\ group \in Int /\ group' \in Int
      /\ \A d \in Consumers \ {c} : /\ Held(d)' = Held(d) /\ (Dispatching(d)' <=> Dispatching(d))
                                    /\ at'[d] = at[d] /\ cur'[d] = cur[d] /\ pel'[d] = pel[d]
  BY DEF Frame, Held, Dispatching, TypeOK, RedisTypeOK
<1>1. \A m \in acked' : m <= group'
  <2>1. \A m \in acked' : m \in acked \/ m \in Held(c)
    BY DEF Gives, Held
  <2>2. \A m \in acked' : m \in Int /\ m <= group
    BY <2>1, HeldIsFinite DEF HeldInv, GivenInv, TypeOK, RedisTypeOK, HistoryTypeOK
  <2>. QED
    BY <1>0, <2>2
<1>2. ASSUME NEW e \in dedup' PROVE \E m \in Given' : stream'[m] = e
  <2>1. \E m \in Given : stream[m] = e
    BY <1>2 DEF GivenInv, Gives, Given
  <2>. QED
    BY <1>0, <2>1, GivenGrows
<1>3. ASSUME NEW d \in Consumers, Dispatching(d)' PROVE cur'[d] \in Given'
  <2>1. cur'[d] \in Given
    BY <1>0, <1>3 DEF Gives, GivenInv, Given
  <2>. QED
    BY <2>1, GivenGrows
<1>4. ASSUME NEW d \in Consumers, at'[d] \in {"off", "ensure", "new"} PROVE pel'[d] = {}
  BY <1>0, <1>4 DEF Gives, GivenInv
<1>5. ASSUME NEW d \in Consumers PROVE Cardinality(Held(d)') <= BatchSize
  <2>1. CASE d # c
    BY <1>0, <2>1 DEF GivenInv
  <2>2. CASE Held(c)' \subseteq Held(c)
    <3>1. /\ Cardinality(Held(c)') <= Cardinality(Held(c)) /\ Cardinality(Held(c)) <= BatchSize
          /\ Cardinality(Held(c)') \in Int /\ Cardinality(Held(c)) \in Int
      BY <2>2, HeldIsFinite, FS_Subset, FS_CardinalityType DEF GivenInv
    <3>2. Cardinality(Held(c)') <= BatchSize
      BY <3>1
    <3>. QED
      BY <2>1, <3>2
  <2>3. CASE Held(c)' \subseteq Fresh
    <3>1. /\ Cardinality(Held(c)') <= Cardinality(Fresh) /\ Cardinality(Fresh) <= BatchSize
          /\ Cardinality(Held(c)') \in Int /\ Cardinality(Fresh) \in Int
      BY <2>3, FreshFits, FS_Subset, FS_CardinalityType
    <3>2. Cardinality(Held(c)') <= BatchSize
      BY <3>1
    <3>. QED
      BY <2>1, <3>2
  <2>. QED
    BY <2>1, <2>2, <2>3 DEF Gives
<1>. QED
  BY <1>1, <1>2, <1>3, <1>4, <1>5 DEF GivenInv
-----------------------------------------------------------------------------
(***************************************************************************)
(* A failure loses one event at most, a process that ends one batch.       *)
(***************************************************************************)
(* c stays at its event, or the event is settled, or it is one of X; and   *)
(* the keys it sets are of the event it is at, or of one of X.             *)
Minds(c, X) ==
  /\ Working(c) => \/ Working(c)' /\ cur'[c] = cur[c]
                   \/ cur[c] \in handled' \union dlq'
                   \/ stream[cur[c]] \in X
  /\ \A e \in dedup' \ dedup : (Working(c)' /\ stream'[cur'[c]] = e) \/ e \in X

(* What c has pending comes again, and what is handed over comes for the   *)
(* first time, but for the entry at hand, duplicates, what is no event,    *)
(* and the events of X.                                                    *)
Redelivers(c, X) ==
  /\ \A m \in DOMAIN stream :
       m > group /\ m <= group' => m \in pel'[c] /\ at'[c] \in {"take", "history"}
  /\ \A m \in pel'[c] \ pel[c] :
       m \in DOMAIN stream /\ m > group /\ m <= group'
  /\ \A m \in pel[c] : Live(c) /\ (at[c] = "skip" => m # cur[c]) =>
       \/ m \in pel'[c] /\ Live(c)' /\ (at'[c] = "skip" => m # cur'[c])
       \/ stream[m] \in dedup \union X \/ stream[m] \notin Events
       \/ Working(c) /\ m = cur[c]

(* Then no event but those of X is lost by the step.                       *)
LEMMA LossSpreads ==
  ASSUME TypeOK, TypeOK', GivenInv, NEW c \in Consumers, NEW X,
         Frame(c), Gives(c), Minds(c, X), Redelivers(c, X)
  PROVE  LostEvents' \subseteq LostEvents \union X
<1>1. SUFFICES ASSUME NEW e \in LostEvents', e \notin X
               PROVE  e \in LostEvents
  OBVIOUS
<1>2. /\ e \in Events /\ ~Known(e)' /\ ~ToCome(e)' /\ stream' = stream
      /\ \E m \in Given' : stream[m] = e
  BY <1>1 DEF LostEvents, Frame
<1>3. /\ ~BeingWorkedOn(e)' /\ \A m \in handled' \union dlq' : stream[m] # e
  BY <1>2 DEF Known
<1>4. \A d \in Consumers \ {c} : (Working(d)' <=> Working(d)) /\ (Live(d)' <=> Live(d))
  BY DEF Frame, Working, Live
<1>5. ~BeingWorkedOn(e)
  <2>1. ASSUME NEW d \in Consumers, Working(d), stream[cur[d]] = e
        PROVE  FALSE
    <3>1. CASE d = c
      BY <1>1, <1>3, <2>1, <3>1 DEF Minds, Frame, BeingWorkedOn
    <3>2. CASE d # c
      BY <1>3, <1>4, <2>1, <3>2 DEF Frame, BeingWorkedOn
    <3>. QED
      BY <3>1, <3>2
  <2>. QED
    BY <2>1 DEF BeingWorkedOn
<1>6. ~Known(e)
  BY <1>3, <1>5 DEF Known, Frame
<1>7. e \in dedup' => e \in dedup
  BY <1>1, <1>3 DEF Minds, BeingWorkedOn
<1>8. group \in Int /\ group' \in Int /\ DOMAIN stream \subseteq Int
  BY DEF TypeOK, RedisTypeOK
<1>9. ASSUME NEW m \in DOMAIN stream, stream[m] = e, e \notin dedup'
      PROVE  /\ ~(m > group')
             /\ \A d \in Consumers : ~(Live(d)' /\ m \in pel'[d] /\ (at'[d] = "skip" => m # cur'[d]))
  BY <1>2, <1>9 DEF ToCome
<1>10. ASSUME NEW m \in DOMAIN stream, stream[m] = e, m > group, m <= group'
       PROVE  e \in dedup'
  BY <1>9, <1>10 DEF Redelivers, Live
<1>11. ~ToCome(e)
  <2>1. SUFFICES ASSUME e \notin dedup, NEW m \in DOMAIN stream, stream[m] = e,
                        \/ m > group
                        \/ \E d \in Consumers :
                             Live(d) /\ m \in pel[d] /\ (at[d] = "skip" => m # cur[d])
                 PROVE  FALSE
    BY DEF ToCome
  <2>2. e \notin dedup'
    BY <1>7, <2>1
  <2>3. CASE m > group
    BY <1>8, <1>9, <1>10, <2>1, <2>2, <2>3
  <2>4. ASSUME NEW d \in Consumers, Live(d), m \in pel[d], at[d] = "skip" => m # cur[d]
        PROVE  FALSE
    <3>1. CASE d = c
      <4>1. ~(Working(c) /\ m = cur[c])
        BY <1>5, <2>1 DEF BeingWorkedOn
      <4>2. m \in pel'[c] /\ Live(c)' /\ (at'[c] = "skip" => m # cur'[c])
        BY <1>1, <1>2, <2>1, <2>4, <3>1, <4>1 DEF Redelivers
      <4>. QED
        BY <1>9, <2>1, <2>2, <4>2
    <3>2. CASE d # c
      BY <1>4, <1>9, <2>1, <2>2, <2>4, <3>2 DEF Frame
    <3>. QED
      BY <3>1, <3>2
  <2>. QED
    BY <2>1, <2>3, <2>4
<1>12. \E m \in Given : stream[m] = e
  <2>1. PICK m \in Given' : stream[m] = e
    BY <1>2
  <2>2. CASE e \in dedup'
    BY <1>7, <2>2 DEF GivenInv
  <2>3. CASE m \in pel'[c] \ pel[c]
    <3>1. m \in DOMAIN stream /\ m > group /\ m <= group'
      BY <2>3 DEF Redelivers
    <3>2. e \in dedup'
      BY <1>10, <2>1, <3>1
    <3>. QED
      BY <2>2, <3>2
  <2>4. CASE m \in acked'
    BY <2>1, <2>4 DEF Gives, Given, GivenInv
  <2>5. CASE \E d \in Consumers : m \in pel[d]
    BY <2>1, <2>5 DEF Given
  <2>6. \/ m \in pel'[c] \ pel[c] \/ m \in acked' \/ \E d \in Consumers : m \in pel[d]
    BY <2>1 DEF Given, Frame
  <2>. QED
    BY <2>3, <2>4, <2>5, <2>6
<1>. QED
  BY <1>2, <1>6, <1>11, <1>12 DEF LostEvents

(* The loop minds its event to the end.                                    *)
LEMMA ConsumeMinds ==
  ASSUME TypeOK, HandledFirst, NEW c \in Consumers, Consume(c)
  PROVE  Minds(c, {}) /\ HandledFirst'
<1>0. Frame(c)
  BY ConsumeFrame
<1>a. SUFFICES Minds(c, {}) /\ (at'[c] = "ack" => cur'[c] \in handled')
  BY <1>0 DEF HandledFirst, Frame
<1>. USE DEF TypeOK, RedisTypeOK, TaskTypeOK, Minds, Working, HandledFirst,
         redisVars, entryVars, Goto
<1>1. CASE StartConsumerLoop(c)
  BY <1>1 DEF StartConsumerLoop
<1>2. CASE EnsureGroup(c)
  BY <1>2 DEF EnsureGroup
<1>3. CASE ConsumeHistory(c)
  BY <1>3 DEF ConsumeHistory
<1>4. CASE ConsumeNew(c)
  BY <1>4 DEF ConsumeNew
<1>5. CASE RejectInvalid(c)
  BY <1>5 DEF RejectInvalid, HeadOfBatch
<1>6. CASE ClaimDedup(c)
  BY <1>6 DEF ClaimDedup, HeadOfBatch
<1>7. CASE SkipDuplicate(c)
  BY <1>7 DEF SkipDuplicate, NextOfBatch, Between
<1>8. CASE HandlerReturns(c)
  BY <1>8 DEF HandlerReturns
<1>9. CASE HandlerRaises(c)
  BY <1>9 DEF HandlerRaises, AttemptFails, DispatchOK
<1>10. CASE AckDelivered(c)
  BY <1>10 DEF AckDelivered, NextOfBatch, Between
<1>11. CASE AckDropped(c)
  BY <1>11 DEF AckDropped
<1>12. CASE DeadLetter(c)
  BY <1>12 DEF DeadLetter, NextOfBatch, Between
<1>. QED
  BY <1>1, <1>2, <1>3, <1>4, <1>5, <1>6, <1>7, <1>8, <1>9, <1>10, <1>11, <1>12 DEF Consume

(* A failure costs the event at hand, and no other.                        *)
LEMMA DisturbMinds ==
  ASSUME TypeOK, HandledFirst, NEW c \in Consumers, Disturb(c)
  PROVE  (\E x : Minds(c, {x})) /\ HandledFirst'
<1>0. Frame(c)
  BY DisturbFrame
<1>a. SUFFICES (\E x : Minds(c, {x})) /\ at'[c] # "ack"
  BY <1>0 DEF HandledFirst, Frame
<1>. USE DEF TypeOK, RedisTypeOK, TaskTypeOK, redisVars, entryVars, Goto,
         AbandonBatch, Between
<1>1. CASE ~ClaimDedupFails(c)
  <2>1. dedup' = dedup
    BY <1>1 DEF Disturb, EnsureGroupFails, ConsumeNewFails, SkipDuplicateFails,
       AckDeliveredFails, AckDroppedFails, DeadLetterFails, Stop
  <2>2. Minds(c, {stream[cur[c]]})
    BY <2>1 DEF Minds
  <2>3. at'[c] # "ack"
    <3>1. CASE EnsureGroupFails(c)
      BY <3>1 DEF EnsureGroupFails
    <3>2. CASE ConsumeNewFails(c)
      BY <3>2 DEF ConsumeNewFails
    <3>3. CASE SkipDuplicateFails(c)
      BY <3>3 DEF SkipDuplicateFails
    <3>4. CASE AckDeliveredFails(c)
      BY <3>4 DEF AckDeliveredFails, AttemptFails
    <3>5. CASE AckDroppedFails(c)
      BY <3>5 DEF AckDroppedFails
    <3>6. CASE DeadLetterFails(c)
      BY <3>6 DEF DeadLetterFails
    <3>7. CASE Stop(c)
      BY <3>7 DEF Stop
    <3>. QED
      BY <1>1, <3>1, <3>2, <3>3, <3>4, <3>5, <3>6, <3>7 DEF Disturb
  <2>. QED
    BY <2>2, <2>3
<1>2. CASE ClaimDedupFails(c)
  <2>1. PICK m \in Entry : HeadOfBatch(c, m) /\ dedup' \in {dedup, dedup \union {stream[m]}}
    BY <1>2 DEF ClaimDedupFails
  <2>2. Minds(c, {stream[m]})
    BY <2>1 DEF Minds, Working, HeadOfBatch
  <2>. QED
    BY <1>2, <2>2 DEF ClaimDedupFails
<1>. QED
  BY <1>1, <1>2

(* The loop comes back to what it has pending.                             *)
LEMMA ConsumeRedelivers ==
  ASSUME TypeOK, HeldInv, NEW c \in Consumers, Consume(c), ~EnsureGroup(c)
  PROVE  Redelivers(c, {})
<1>. USE DEF TypeOK, RedisTypeOK, TaskTypeOK, HistoryTypeOK, Redelivers, Live, Working, Tidy,
         Dispatching, redisVars, entryVars, Goto
<1>0. Tidy(c) /\ group \in Int
  BY DEF HeldInv
<1>1. CASE StartConsumerLoop(c)
  BY <1>0, <1>1 DEF StartConsumerLoop
<1>3. CASE ConsumeHistory(c)
  BY <1>0, <1>3 DEF ConsumeHistory
<1>4. CASE ConsumeNew(c)
  BY <1>0, <1>4, Delivered DEF ConsumeNew
<1>5. CASE RejectInvalid(c)
  BY <1>0, <1>5 DEF RejectInvalid
<1>6. CASE ClaimDedup(c)
  BY <1>0, <1>6 DEF ClaimDedup, HeadOfBatch
<1>7. CASE SkipDuplicate(c)
  BY <1>0, <1>7 DEF SkipDuplicate, NextOfBatch, Between, XAck
<1>8. CASE HandlerReturns(c)
  BY <1>0, <1>8 DEF HandlerReturns
<1>9. CASE HandlerRaises(c)
  BY <1>0, <1>9 DEF HandlerRaises, AttemptFails
<1>10. CASE AckDelivered(c)
  BY <1>0, <1>10 DEF AckDelivered, NextOfBatch, Between, XAck
<1>11. CASE AckDropped(c)
  BY <1>0, <1>11 DEF AckDropped, XAck
<1>12. CASE DeadLetter(c)
  BY <1>0, <1>12 DEF DeadLetter, NextOfBatch, Between
<1>. QED
  BY <1>1, <1>3, <1>4, <1>5, <1>6, <1>7, <1>8, <1>9, <1>10, <1>11, <1>12 DEF Consume

(* So it does after a failure, ...                                         *)
LEMMA DisturbRedelivers ==
  ASSUME TypeOK, HeldInv, GivenInv, NEW c \in Consumers, Disturb(c), ~Stop(c), NEW X
  PROVE  Redelivers(c, X)
<1>. USE DEF TypeOK, RedisTypeOK, TaskTypeOK, HistoryTypeOK, Redelivers, Live, Working, Tidy,
         Dispatching, redisVars, entryVars, Goto, AbandonBatch, Between
<1>0. Tidy(c) /\ group \in Int /\ (at[c] \in {"off", "ensure", "new"} => pel[c] = {})
  BY DEF HeldInv, GivenInv
<1>1. CASE EnsureGroupFails(c)
  BY <1>0, <1>1 DEF EnsureGroupFails
<1>2. CASE ConsumeNewFails(c)
  BY <1>0, <1>2, Delivered DEF ConsumeNewFails
<1>3. CASE ClaimDedupFails(c)
  BY <1>0, <1>3 DEF ClaimDedupFails
<1>4. CASE SkipDuplicateFails(c)
  BY <1>0, <1>4 DEF SkipDuplicateFails, XAckFails, XAck
<1>5. CASE AckDeliveredFails(c)
  BY <1>0, <1>5 DEF AckDeliveredFails, AttemptFails, XAckFails, XAck
<1>6. CASE AckDroppedFails(c)
  BY <1>0, <1>6 DEF AckDroppedFails, XAckFails, XAck
<1>7. CASE DeadLetterFails(c)
  BY <1>0, <1>7 DEF DeadLetterFails
<1>. QED
  BY <1>1, <1>2, <1>3, <1>4, <1>5, <1>6, <1>7 DEF Disturb

(* ... and when its process ends it loses what it holds.                   *)
LEMMA StopLoses ==
  ASSUME TypeOK, NEW c \in Consumers, Stop(c)
  PROVE  LET X == {stream[m] : m \in Held(c)}
         IN  Minds(c, X) /\ Redelivers(c, X)
<1>. DEFINE X == {stream[m] : m \in Held(c)}
<1>1. UNCHANGED redisVars
  BY DEF Stop
<1>2. Working(c) => cur[c] \in Held(c)
  BY DEF Working, Held, Dispatching
<1>3. Minds(c, X)
  BY <1>1, <1>2 DEF Minds, redisVars
<1>4. \A m \in pel[c] : stream[m] \in X
  BY DEF Held
<1>5. group \in Int /\ DOMAIN stream \subseteq Int
  BY DEF TypeOK, RedisTypeOK
<1>6. Redelivers(c, X)
  BY <1>1, <1>4, <1>5 DEF Redelivers, redisVars
<1>. QED
  BY <1>3, <1>6

(* A set that grows by what a finite set T maps to.                        *)
LEMMA Imaged ==
  ASSUME NEW S, NEW T, NEW U, NEW f, IsFiniteSet(S), IsFiniteSet(T),
         \A u \in U : u \in S \/ \E m \in T : u = f[m]
  PROVE  /\ IsFiniteSet(U) /\ Cardinality(U) <= Cardinality(S) + Cardinality(T)
         /\ Cardinality(U) \in Int /\ Cardinality(S) \in Int /\ Cardinality(T) \in Int
<1>. DEFINE X == {f[m] : m \in T}
            g == [m \in T |-> f[m]]
<1>1. g \in Surjection(T, X)
  BY DEF Surjection
<1>2. IsFiniteSet(X) /\ Cardinality(X) <= Cardinality(T)
  BY <1>1, FS_Surjection, Zenon
<1>. HIDE DEF X
<1>3. /\ IsFiniteSet(S \union X)
      /\ Cardinality(S \union X) = Cardinality(S) + Cardinality(X) - Cardinality(S \intersect X)
  BY <1>2, FS_Union
<1>4. IsFiniteSet(S \intersect X)
  BY <1>2, FS_Subset
<1>5. U \subseteq S \union X
  BY DEF X
<1>6. IsFiniteSet(U) /\ Cardinality(U) <= Cardinality(S \union X)
  BY <1>3, <1>5, FS_Subset
<1>7. /\ Cardinality(U) \in Nat /\ Cardinality(S) \in Nat /\ Cardinality(T) \in Nat
      /\ Cardinality(X) \in Nat /\ Cardinality(S \union X) \in Nat
      /\ Cardinality(S \intersect X) \in Nat
  BY <1>2, <1>3, <1>4, <1>6, FS_CardinalityType
<1>. QED
  BY <1>2, <1>3, <1>6, <1>7

(* A failure that is no end of a process, and one that is.                 *)
LEMMA OneMore ==
  ASSUME NEW lost \in Int, NEW lost1 \in Int, NEW held \in Int, NEW f \in Int, NEW n \in Nat,
         lost <= f + (BatchSize - 1) * n
  PROVE  /\ lost1 <= lost + 1 => lost1 <= f + 1 + (BatchSize - 1) * n
         /\ lost1 <= lost + held /\ held <= BatchSize => lost1 <= f + 1 + (BatchSize - 1) * (n + 1)
<1>1. (BatchSize - 1) * n \in Int /\ (BatchSize - 1) * (n + 1) = (BatchSize - 1) * n + (BatchSize - 1)
  OBVIOUS
<1>. QED
  BY <1>1

(* Processes end one by one, and only there.                               *)
LEMMA StopEnds ==
  ASSUME TypeOK, NEW c \in Consumers, Stop(c)
  PROVE  Ended' = Ended \union {c} /\ c \notin Ended
BY DEF Stop, Between, Goto, Live, Ended, TypeOK, TaskTypeOK

LEMMA NoneEnds ==
  ASSUME TypeOK, NEW c \in Consumers, Consume(c) \/ (Disturb(c) /\ ~Stop(c))
  PROVE  Ended' = Ended
<1>1. Frame(c)
  BY ConsumeFrame, DisturbFrame
<1>2. at[c] # "stopped" /\ at'[c] # "stopped"
  <2>. USE DEF TypeOK, TaskTypeOK, Goto, Between, NextOfBatch, AbandonBatch
  <2>1. CASE Consume(c)
    <3>1. CASE StartConsumerLoop(c) \/ EnsureGroup(c) \/ ConsumeHistory(c) \/ ConsumeNew(c)
      BY <3>1 DEF StartConsumerLoop, EnsureGroup, ConsumeHistory, ConsumeNew
    <3>2. CASE RejectInvalid(c) \/ ClaimDedup(c) \/ SkipDuplicate(c)
      BY <3>2 DEF RejectInvalid, ClaimDedup, SkipDuplicate, HeadOfBatch
    <3>3. CASE HandlerReturns(c) \/ HandlerRaises(c)
      BY <3>3 DEF HandlerReturns, HandlerRaises, AttemptFails
    <3>4. CASE AckDelivered(c) \/ AckDropped(c) \/ DeadLetter(c)
      BY <3>4 DEF AckDelivered, AckDropped, DeadLetter
    <3>. QED
      BY <2>1, <3>1, <3>2, <3>3, <3>4 DEF Consume
  <2>2. CASE Disturb(c) /\ ~Stop(c)
    <3>1. CASE EnsureGroupFails(c) \/ ConsumeNewFails(c) \/ ClaimDedupFails(c)
      BY <3>1 DEF EnsureGroupFails, ConsumeNewFails, ClaimDedupFails, HeadOfBatch
    <3>2. CASE SkipDuplicateFails(c) \/ AckDroppedFails(c) \/ DeadLetterFails(c)
      BY <3>2 DEF SkipDuplicateFails, AckDroppedFails, DeadLetterFails
    <3>3. CASE AckDeliveredFails(c)
      BY <3>3 DEF AckDeliveredFails, AttemptFails
    <3>. QED
      BY <2>2, <3>1, <3>2, <3>3 DEF Disturb
  <2>. QED
    BY <2>1, <2>2
<1>. QED
  BY <1>1, <1>2 DEF Ended, Frame

(* Before the group there is nothing to lose; and it begins at its end.    *)
LEMMA GroupBegins ==
  ASSUME TypeOK, TypeOK', HeldInv, GivenInv, NEW c \in Consumers, EnsureGroup(c), group = -1
  PROVE  LostEvents' = {}
<1>1. UNCHANGED <<acked, pel>>
  BY DEF EnsureGroup
<1>2. \A m \in Given : m \in Nat /\ m >= 1 /\ m <= group
  BY DEF Given, GivenInv, HeldInv, Held, TypeOK, RedisTypeOK, HistoryTypeOK
<1>3. Given' = {}
  BY <1>1, <1>2 DEF Given
<1>. QED
  BY <1>3 DEF LostEvents

(* What is given is as before when neither Redis nor a task has moved.     *)
LEMMA SameGiven ==
  ASSUME GivenInv, UNCHANGED <<stream, group, pel, at, cur, acked>>, dedup' \subseteq dedup
  PROVE  GivenInv'
<1>1. Given' = Given
  BY DEF Given
<1>2. \A c \in Consumers : Held(c)' = Held(c) /\ Dispatching(c)' = Dispatching(c)
  BY DEF Held, Dispatching
<1>. QED
  BY <1>1, <1>2 DEF GivenInv

(* The loss stays within the failures.                                     *)
LEMMA LossInvStep == TypeOK /\ TypeOK' /\ HeldInv /\ LossInv /\ [Next]_vars => LossInv'
<1>. SUFFICES ASSUME TypeOK, TypeOK', HeldInv, LossInv, [Next]_vars PROVE LossInv'
  OBVIOUS
<1>0. /\ faults \in Int /\ HandledFirst /\ GivenInv /\ IsFiniteSet(Ended)
      /\ IsFiniteSet(LostEvents) /\ Cardinality(LostEvents) \in Int
      /\ Cardinality(Ended) \in Nat /\ Cardinality(Ended) <= faults
      /\ Cardinality(LostEvents) <= faults + (BatchSize - 1) * Cardinality(Ended)
  BY FS_CardinalityType DEF LossInv, LossBoundedByFaults, TypeOK, HistoryTypeOK
<1>1. ASSUME LostEvents' \subseteq LostEvents, Ended' = Ended, HandledFirst', GivenInv',
             faults' \in {faults, faults + 1}
      PROVE  LossInv'
  <2>1. IsFiniteSet(LostEvents') /\ Cardinality(LostEvents') <= Cardinality(LostEvents)
    BY <1>0, <1>1, FS_Subset
  <2>2. Cardinality(LostEvents') \in Int
    BY <2>1, FS_CardinalityType
  <2>3. (BatchSize - 1) * Cardinality(Ended) \in Int
    BY <1>0
  <2>4. /\ Cardinality(LostEvents') <= faults' + (BatchSize - 1) * Cardinality(Ended)
        /\ Cardinality(Ended) <= faults'
    BY <1>0, <1>1, <2>1, <2>2, <2>3
  <2>. QED
    BY <1>0, <1>1, <2>1, <2>4 DEF LossInv, LossBoundedByFaults
<1>2. ASSUME NEW e \in Events \union {Invalid}, Publish(e) PROVE LossInv'
  <2>1. HandledFirst' /\ Ended' = Ended /\ LostEvents' \subseteq LostEvents
    BY <1>0, <1>2, PublishKnown DEF HandledFirst, Ended
  <2>2. /\ UNCHANGED <<group, pel, dedup, at, cur, acked>> /\ faults' \in {faults, faults + 1}
        /\ \A m \in DOMAIN stream : stream'[m] = stream[m]
    BY <1>2, PublishKnown
  <2>3. Given' = Given /\ Given \subseteq DOMAIN stream
    BY <2>2 DEF Given, TypeOK, RedisTypeOK, HistoryTypeOK
  <2>4. GivenInv'
    BY <1>0, <2>2, <2>3 DEF GivenInv, Held, Dispatching
  <2>. QED
    BY <1>1, <2>1, <2>2, <2>4
<1>3. ASSUME NEW e \in Events, ExpireDedup(e) PROVE LossInv'
  <2>1. /\ UNCHANGED <<stream, group, pel, at, cur, dlq, acked, handled, faults>>
        /\ dedup' = dedup \ {e}
    BY <1>3 DEF ExpireDedup, taskVars, entryVars
  <2>2. HandledFirst' /\ Ended' = Ended /\ GivenInv'
    BY <1>0, <2>1, SameGiven DEF HandledFirst, Ended
  <2>3. LostEvents' \subseteq LostEvents
    BY <2>1 DEF LostEvents, Given, Known, BeingWorkedOn, Working, ToCome, Live
  <2>. QED
    BY <1>1, <2>1, <2>2, <2>3
<1>4. ASSUME NEW c \in Consumers, Consume(c) PROVE LossInv'
  <2>1. Frame(c) /\ Minds(c, {}) /\ HandledFirst' /\ Gives(c) /\ Ended' = Ended
    BY <1>0, <1>4, ConsumeFrame, ConsumeMinds, ConsumeGives, NoneEnds
  <2>2. GivenInv' /\ faults' \in {faults, faults + 1}
    BY <1>0, <2>1, GivesKeepGiven DEF Frame
  <2>3. LostEvents' \subseteq LostEvents
    <3>1. CASE ~EnsureGroup(c)
      BY <1>0, <1>4, <2>1, <3>1, ConsumeRedelivers, LossSpreads
    <3>2. CASE EnsureGroup(c) /\ group = -1
      BY <1>0, <3>2, GroupBegins
    <3>3. CASE EnsureGroup(c) /\ group # -1
      <4>1. UNCHANGED <<stream, group, pel, dedup, dlq, acked, handled, cur>>
        BY <3>3 DEF EnsureGroup, entryVars
      <4>2. \A d \in Consumers : (Working(d)' <=> Working(d)) /\ (Live(d)' <=> Live(d))
                                 /\ (at'[d] = "skip" <=> at[d] = "skip")
        BY <3>3, <4>1 DEF EnsureGroup, Goto, Working, Live, TypeOK, TaskTypeOK
      <4>. QED
        BY <4>1, <4>2 DEF LostEvents, Given, Known, BeingWorkedOn, ToCome
    <3>. QED
      BY <3>1, <3>2, <3>3
  <2>. QED
    BY <1>1, <2>1, <2>2, <2>3
<1>5. ASSUME NEW c \in Consumers, Disturb(c), ~Stop(c) PROVE LossInv'
  <2>1. /\ Frame(c) /\ HandledFirst' /\ faults' = faults + 1 /\ Gives(c)
        /\ Ended' = Ended
    BY <1>0, <1>5, DisturbFrame, DisturbMinds, DisturbGives, NoneEnds
  <2>2. PICK x : Minds(c, {x})
    BY <1>0, <1>5, DisturbMinds
  <2>3. GivenInv' /\ Redelivers(c, {x})
    BY <1>0, <1>5, <2>1, GivesKeepGiven, DisturbRedelivers
  <2>4. LostEvents' \subseteq LostEvents \union {x}
    BY <1>0, <2>1, <2>2, <2>3, LossSpreads
  <2>5. IsFiniteSet(LostEvents') /\ Cardinality(LostEvents') <= Cardinality(LostEvents) + 1
    <3>1. /\ IsFiniteSet(LostEvents \union {x})
          /\ Cardinality(LostEvents \union {x}) \in {Cardinality(LostEvents), Cardinality(LostEvents) + 1}
      BY <1>0, FS_AddElement
    <3>2. IsFiniteSet(LostEvents') /\ Cardinality(LostEvents') <= Cardinality(LostEvents \union {x})
      BY <2>4, <3>1, FS_Subset
    <3>3. Cardinality(LostEvents') \in Int
      BY <3>2, FS_CardinalityType
    <3>. QED
      BY <1>0, <3>1, <3>2, <3>3
  <2>6. Cardinality(LostEvents') \in Int
    BY <2>5, FS_CardinalityType
  <2>7. Cardinality(LostEvents') <= faults + 1 + (BatchSize - 1) * Cardinality(Ended)
    BY <1>0, <2>5, <2>6, OneMore
  <2>8. Cardinality(Ended) <= faults + 1
    BY <1>0
  <2>. QED
    BY <1>0, <2>1, <2>3, <2>5, <2>7, <2>8 DEF LossInv, LossBoundedByFaults
<1>6. ASSUME NEW c \in Consumers, Stop(c) PROVE LossInv'
  <2>1. /\ Frame(c) /\ HandledFirst' /\ faults' = faults + 1 /\ Gives(c)
        /\ Ended' = Ended \union {c} /\ c \notin Ended
    BY <1>0, <1>6, DisturbFrame, DisturbMinds, DisturbGives, StopEnds DEF Disturb
  <2>2. GivenInv'
    BY <1>0, <2>1, GivesKeepGiven
  <2>3. LostEvents' \subseteq LostEvents \union {stream[m] : m \in Held(c)}
    BY <1>0, <1>6, <2>1, StopLoses, LossSpreads
  <2>4. IsFiniteSet(Held(c)) /\ Cardinality(Held(c)) <= BatchSize
    BY <1>0, HeldIsFinite DEF GivenInv
  <2>5. /\ IsFiniteSet(LostEvents')
        /\ Cardinality(LostEvents') <= Cardinality(LostEvents) + Cardinality(Held(c))
        /\ Cardinality(LostEvents') \in Int /\ Cardinality(Held(c)) \in Int
    <3>. DEFINE U == LostEvents'
                S == LostEvents
                T == Held(c)
    <3>1. \A u \in U : u \in S \/ \E m \in T : u = stream[m]
      BY <2>3
    <3>2. IsFiniteSet(S) /\ IsFiniteSet(T)
      BY <1>0, <2>4
    <3>. HIDE DEF U, S, T
    <3>3. /\ IsFiniteSet(U) /\ Cardinality(U) <= Cardinality(S) + Cardinality(T)
          /\ Cardinality(U) \in Int /\ Cardinality(S) \in Int /\ Cardinality(T) \in Int
      BY <3>1, <3>2, Imaged, Zenon
    <3>. QED
      BY <3>3 DEF U, S, T
  <2>6. IsFiniteSet(Ended') /\ Cardinality(Ended') = Cardinality(Ended) + 1
    BY <1>0, <2>1, FS_AddElement
  <2>7. Cardinality(LostEvents') <= faults + 1 + (BatchSize - 1) * (Cardinality(Ended) + 1)
    BY <1>0, <2>4, <2>5, OneMore
  <2>8. Cardinality(Ended) + 1 <= faults + 1
    BY <1>0
  <2>. QED
    BY <2>1, <2>2, <2>5, <2>6, <2>7, <2>8 DEF LossInv, LossBoundedByFaults
<1>7. CASE UNCHANGED vars
  <2>1. UNCHANGED <<stream, group, pel, dedup, dlq, acked, handled, at, cur, faults>>
    BY <1>7 DEF vars, redisVars, taskVars, entryVars
  <2>2. /\ LostEvents' = LostEvents /\ Ended' = Ended
    BY <2>1 DEF LostEvents, Given, Known, BeingWorkedOn, Working, ToCome, Live, Ended
  <2>3. HandledFirst' /\ GivenInv'
    BY <1>0, <2>1, SameGiven DEF HandledFirst
  <2>. QED
    BY <1>1, <2>1, <2>2, <2>3
<1>. QED
  BY <1>2, <1>3, <1>4, <1>5, <1>6, <1>7 DEF Next

(* At the start nothing is claimed, delivered or acknowledged.             *)
LEMMA InitLossInv == Init => LossInv /\ KnownInv
<1>. SUFFICES ASSUME Init PROVE LossInv /\ KnownInv
  OBVIOUS
<1>1. /\ \A c \in Consumers : Held(c) = {}
      /\ Given = {} /\ Ended = {} /\ HandledFirst /\ KnownInv
  BY DEF Init, Held, Dispatching, Given, Ended, HandledFirst, KnownInv
<1>2. LostEvents = {}
  BY <1>1 DEF LostEvents
<1>3. GivenInv
  <2>1. Cardinality({}) = 0 /\ 0 <= BatchSize
    BY FS_EmptySet
  <2>2. \A c \in Consumers : Cardinality(Held(c)) <= BatchSize
    BY <1>1, <2>1
  <2>3. \A c \in Consumers : ~Dispatching(c) /\ pel[c] = {}
    BY DEF Init, Dispatching
  <2>. QED
    BY <2>2, <2>3 DEF Init, GivenInv
<1>4. /\ IsFiniteSet(LostEvents) /\ Cardinality(LostEvents) = 0
      /\ IsFiniteSet(Ended) /\ Cardinality(Ended) = 0
  BY <1>1, <1>2, FS_EmptySet
<1>5. Cardinality(LostEvents) <= faults + (BatchSize - 1) * Cardinality(Ended)
  BY <1>4 DEF Init
<1>. QED
  BY <1>1, <1>3, <1>4, <1>5 DEF LossInv, LossBoundedByFaults, Init

(* Of what consumers were given, a failure of Redis loses one event at     *)
(* most, and a process that ends no more than a batch.                     *)
THEOREM LossIsBounded == Spec => []LossBoundedByFaults
<1>1. LossInv => LossBoundedByFaults
  BY DEF LossInv
<1>. QED
  BY <1>1, InitLossInv, LossInvStep, HeldIsInvariant, TypeCorrect, PTL DEF Spec
-----------------------------------------------------------------------------
(***************************************************************************)
(* At least once, as far as there is no failure.  No event is lost then,   *)
(* so that a key that stands is of an event somebody is at or has settled, *)
(* and a duplicate is skipped for a good reason.                           *)
(***************************************************************************)
(* A step of the loop that minds its event takes no event back.            *)
LEMMA KnownStays ==
  ASSUME NEW c \in Consumers, Frame(c), Minds(c, {}), NEW e, Known(e)
  PROVE  Known(e)'
<1>1. CASE \E k \in handled \union dlq : stream[k] = e
  BY <1>1 DEF Known, Frame
<1>2. CASE BeingWorkedOn(e)
  <2>1. PICK d \in Consumers : Working(d) /\ stream[cur[d]] = e
    BY <1>2 DEF BeingWorkedOn
  <2>2. CASE d = c
    BY <2>1, <2>2 DEF Minds, Frame, Known, BeingWorkedOn
  <2>3. CASE d # c
    BY <2>1, <2>3 DEF Frame, Known, BeingWorkedOn, Working
  <2>. QED
    BY <2>2, <2>3
<1>. QED
  BY <1>1, <1>2 DEF Known

(* What the loop acknowledges it has skipped, delivered or given up; and   *)
(* what it is about to skip has its key.                                   *)
LEMMA ConsumeAcks ==
  ASSUME TypeOK, HandledFirst, NEW c \in Consumers, Consume(c)
  PROVE  /\ \A m \in acked' \ acked :
              m = cur[c] /\ (at[c] \in {"skip", "drop"} \/ m \in handled)
         /\ \/ at'[c] # "skip"
            \/ \E m \in DOMAIN stream : cur'[c] = m /\ stream[m] \in dedup
<1>. USE DEF TypeOK, RedisTypeOK, TaskTypeOK, HandledFirst, redisVars, entryVars, Goto
<1>1. CASE StartConsumerLoop(c)
  BY <1>1 DEF StartConsumerLoop
<1>2. CASE EnsureGroup(c)
  BY <1>2 DEF EnsureGroup
<1>3. CASE ConsumeHistory(c)
  BY <1>3 DEF ConsumeHistory
<1>4. CASE ConsumeNew(c)
  BY <1>4 DEF ConsumeNew
<1>5. CASE RejectInvalid(c)
  BY <1>5 DEF RejectInvalid
<1>6. CASE ClaimDedup(c)
  BY <1>6 DEF ClaimDedup, HeadOfBatch
<1>7. CASE SkipDuplicate(c)
  BY <1>7 DEF SkipDuplicate, NextOfBatch, Between, XAck
<1>8. CASE HandlerReturns(c)
  BY <1>8 DEF HandlerReturns
<1>9. CASE HandlerRaises(c)
  BY <1>9 DEF HandlerRaises, AttemptFails
<1>10. CASE AckDelivered(c)
  BY <1>10 DEF AckDelivered, NextOfBatch, Between, XAck
<1>11. CASE AckDropped(c)
  BY <1>11 DEF AckDropped, XAck
<1>12. CASE DeadLetter(c)
  BY <1>12 DEF DeadLetter, NextOfBatch, Between
<1>. QED
  BY <1>1, <1>2, <1>3, <1>4, <1>5, <1>6, <1>7, <1>8, <1>9, <1>10, <1>11, <1>12 DEF Consume

(* Without a failure so far, every key stands for something.               *)
LEMMA ClaimedIsKnown ==
  ASSUME TypeOK, LossInv, faults = 0, NEW e \in dedup
  PROVE  Known(e)
<1>1. LostEvents = {}
  <2>1. /\ IsFiniteSet(LostEvents) /\ Cardinality(LostEvents) \in Nat
        /\ IsFiniteSet(Ended) /\ Cardinality(Ended) \in Nat
    BY FS_CardinalityType DEF LossInv
  <2>2. Cardinality(Ended) = 0
    BY <2>1 DEF LossInv
  <2>3. Cardinality(LostEvents) = 0
    BY <2>1, <2>2 DEF LossInv, LossBoundedByFaults
  <2>. QED
    BY <2>1, <2>3, FS_EmptySet
<1>2. e \in Events /\ ~ToCome(e) /\ \E m \in Given : stream[m] = e
  BY DEF TypeOK, RedisTypeOK, ToCome, LossInv, GivenInv
<1>. QED
  BY <1>1, <1>2 DEF LostEvents

(* Until the first failure nothing is acknowledged or skipped for naught.  *)
LEMMA KnownInvStep == TypeOK /\ LossInv /\ KnownInv /\ [Next]_vars => KnownInv'
<1>. SUFFICES ASSUME TypeOK, LossInv, KnownInv, [Next]_vars, faults' = 0
              PROVE  /\ \A d \in Consumers : at'[d] = "skip" => Known((stream[cur[d]]))'
                     /\ \A m \in acked' : stream'[m] \in Events => Known(stream[m])'
  BY DEF KnownInv
<1>0. faults \in Nat
  BY DEF TypeOK, HistoryTypeOK
<1>1. ASSUME NEW e \in Events \union {Invalid}, Publish(e) PROVE KnownInv'
  <2>1. faults = 0
    BY <1>0, <1>1, PublishKnown
  <2>2. /\ UNCHANGED <<at, cur, acked>>
        /\ \A f : Known(f) <=> Known(f)'
        /\ \A m \in DOMAIN stream : stream'[m] = stream[m]
    BY <1>1, PublishKnown
  <2>3. acked \subseteq DOMAIN stream
    BY DEF TypeOK, HistoryTypeOK
  <2>4. \A d \in Consumers : at[d] = "skip" => cur[d] \in DOMAIN stream
    BY DEF TypeOK, DispatchOK
  <2>5. \A d \in Consumers : at'[d] = "skip" => Known(stream[cur[d]])'
    <3>1. SUFFICES ASSUME NEW d \in Consumers, at'[d] = "skip"
                   PROVE  Known(stream[cur[d]])'
      OBVIOUS
    <3>2. Known(stream[cur[d]]) /\ (stream[cur[d]])' = stream[cur[d]]
      BY <2>1, <2>2, <2>4, <3>1 DEF KnownInv
    <3>3. PICK f : f = stream[cur[d]]
      OBVIOUS
    <3>4. Known(f)' /\ f = (stream[cur[d]])'
      BY <2>2, <3>2, <3>3
    <3>. QED
      BY <3>4 DEF Known, BeingWorkedOn
  <2>6. \A m \in acked' : stream'[m] \in Events => Known(stream[m])'
    BY <2>1, <2>2, <2>3 DEF KnownInv, Known, BeingWorkedOn
  <2>. QED
    BY <2>5, <2>6 DEF KnownInv
<1>2. ASSUME NEW e \in Events, ExpireDedup(e) PROVE KnownInv'
  BY <1>2 DEF ExpireDedup, KnownInv, Known, BeingWorkedOn, Working, taskVars, entryVars
<1>3. ASSUME NEW c \in Consumers, Consume(c) PROVE KnownInv'
  <2>1. Frame(c) /\ Minds(c, {})
    BY <1>3, ConsumeFrame, ConsumeMinds DEF LossInv
  <2>2. faults = 0 /\ stream' = stream
    BY <1>0, <2>1 DEF Frame
  <2>3. \A f : Known(f) => Known(f)'
    BY <2>1, KnownStays
  <2>4. /\ \A m \in acked' \ acked :
             m = cur[c] /\ (at[c] \in {"skip", "drop"} \/ m \in handled)
        /\ \/ at'[c] # "skip"
           \/ \E m \in DOMAIN stream : cur'[c] = m /\ stream[m] \in dedup
    BY <1>3, ConsumeAcks DEF LossInv
  <2>5. ASSUME NEW m \in acked', stream[m] \in Events PROVE Known(stream[m])
    <3>1. CASE m \in acked
      BY <2>2, <2>5, <3>1 DEF KnownInv
    <3>2. CASE m = cur[c] /\ at[c] = "skip"
      BY <2>2, <3>2 DEF KnownInv
    <3>3. CASE m = cur[c] /\ at[c] = "drop"
      BY <2>5, <3>3 DEF Known, BeingWorkedOn, Working
    <3>4. CASE m \in handled
      BY <3>4 DEF Known
    <3>. QED
      BY <2>4, <3>1, <3>2, <3>3, <3>4
  <2>6. ASSUME NEW d \in Consumers, at'[d] = "skip" PROVE Known(stream[cur'[d]])
    <3>1. CASE d = c
      BY <2>2, <2>4, <2>6, <3>1, ClaimedIsKnown
    <3>2. CASE d # c
      BY <2>1, <2>2, <2>6, <3>2 DEF Frame, KnownInv
    <3>. QED
      BY <3>1, <3>2
  <2>7. \A m \in acked' : stream'[m] \in Events => Known(stream[m])'
    BY <2>2, <2>3, <2>5 DEF Known, BeingWorkedOn
  <2>8. \A d \in Consumers : at'[d] = "skip" => Known(stream[cur[d]])'
    BY <2>2, <2>3, <2>6 DEF Known, BeingWorkedOn
  <2>. QED
    BY <2>7, <2>8 DEF KnownInv
<1>4. ASSUME NEW c \in Consumers, Disturb(c) PROVE KnownInv'
  BY <1>0, <1>4, DisturbFrame
<1>5. CASE UNCHANGED vars
  BY <1>5 DEF vars, redisVars, taskVars, entryVars, KnownInv, Known, BeingWorkedOn, Working
<1>. QED
  BY <1>1, <1>2, <1>3, <1>4, <1>5 DEF Next, KnownInv

(* Until the first failure, an entry is acknowledged only if its handlers  *)
(* ran, it is in the dead letters, or somebody is at it.                   *)
THEOREM AtLeastOnceUntilAFault == Spec => [](faults = 0 => AtLeastOnce)
<1>1. TypeOK /\ KnownInv => (faults = 0 => AtLeastOnce)
  BY SMTT(60) DEF KnownInv, Known, AtLeastOnce, Accounted
<1>. QED
  BY <1>1, InitLossInv, LossInvStep, HeldIsInvariant, KnownInvStep, TypeCorrect, PTL DEF Spec
=============================================================================
