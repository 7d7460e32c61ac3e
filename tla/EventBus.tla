------------------------------ MODULE EventBus ------------------------------
(***************************************************************************)
(* The event bus of the backend (modules/events/infrastructure): one Redis *)
(* stream, its consumer group, the deduplication keys and the dead-letter  *)
(* stream, and the consumer tasks of the processes that read the stream.   *)
(*                                                                         *)
(* A consumer is one incarnation of the process: EventBus.__init__ draws a *)
(* random consumer name, so the name of a process that ended never comes   *)
(* back, and nothing in the code claims the entries it left pending.       *)
(*                                                                         *)
(* Every await of the consumer task is a step of its own; each one may be  *)
(* where the process ends, and each Redis call may fail, before or after   *)
(* Redis carried it out (the reply was lost).                              *)
(*                                                                         *)
(* External, modelled from how the code uses it: Redis (streams, groups,   *)
(* SET NX EX).  The trimming of the streams (MAXLEN) is left out, and so is*)
(* the time a backoff lasts.                                               *)
(***************************************************************************)
EXTENDS Integers, FiniteSets, Sequences

CONSTANTS
  Consumers,       \* process incarnations, each with its consumer name
  Events,          \* identifiers of well-formed envelopes
  Invalid,         \* an entry that is not an envelope
  NumHandlers,     \* handlers subscribed to the type, called in order
  MaxAttempts,     \* max_delivery_attempts
  BatchSize,       \* batch_size, the COUNT of XREADGROUP
  EmptyHistoryIsTruthy,
                   \* what XREADGROUP ... 0 answers when nothing is pending:
                   \* FALSE: nothing; TRUE: the stream with an empty list
  MaxEntries,      \* bound: entries ever added to the stream
  MaxFaults        \* bound: Redis failures and process ends

ASSUME EventBusAssumption ==
  /\ Invalid \notin Events
  /\ NumHandlers \in Nat \ {0}
  /\ MaxAttempts \in Nat \ {0}
  /\ BatchSize   \in Nat \ {0}
  /\ EmptyHistoryIsTruthy \in BOOLEAN
  /\ MaxEntries  \in Nat
  /\ MaxFaults   \in Nat

VARIABLES
  (* Redis *)
  stream,          \* the entries of the stream, in order of arrival
  group,           \* last-delivered entry of the group, -1 before its creation
  pel,             \* pending entries of each consumer
  dedup,           \* events whose event:dedup:<id> key exists
  dlq,             \* entries copied to events:dlq
  notices,         \* meta-events: <<"published", id>> and <<"dead", entry>>
  (* the processes *)
  at,              \* the await the consumer task is suspended in (see below)
  batch,           \* entries of the last answer not yet dispatched to the end
  cur,             \* entry being dispatched, 0: none
  attempt,         \* number of the present delivery attempt
  next,            \* number of the handler being called
  (* history *)
  acked,           \* entries the group has acknowledged
  runs,            \* calls of each handler that returned, under the event's
                   \* present deduplication key
  handled,         \* entries all of whose handlers returned in one attempt
  faults           \* Redis failures and process ends so far

redisVars == <<stream, group, pel, dedup, dlq, notices>>
entryVars == <<cur, attempt, next>>
taskVars  == <<at, batch, entryVars>>
vars == <<redisVars, taskVars, acked, runs, handled, faults>>

Entry    == 1..MaxEntries
Handlers == 1..NumHandlers
-----------------------------------------------------------------------------
(***************************************************************************)
(* The consumer task.  "at" is the await it is suspended in:               *)
(*   off      not started            ensure    xgroup_create               *)
(*   history  xreadgroup ... 0       new       xreadgroup ... >            *)
(*   take     SET NX of the next entry of the batch                        *)
(*   skip     xack of a duplicate    handle    handler number "next"       *)
(*   ack      xack of a delivered entry                                    *)
(*   drop     xack of an entry about to be dead-lettered                   *)
(*   dead     xadd to events:dlq                                           *)
(*   failed   the task ended with an exception   stopped  the process ended*)
(***************************************************************************)
Live(c) == at[c] \notin {"off", "failed", "stopped"}

\* The consumer holds the claim on the event of its current entry.
Working(c) ==
  \/ at[c] \in {"handle", "ack"}
  \/ at[c] \in {"drop", "dead"} /\ stream[cur[c]] # Invalid

Goto(c, stage) == at' = [at EXCEPT ![c] = stage]

\* Between two dispatches, with what is left of the batch.
Between(c, stage, rest) ==
  /\ Goto(c, stage)
  /\ batch'   = [batch EXCEPT ![c] = rest]
  /\ cur'     = [cur EXCEPT ![c] = 0]
  /\ attempt' = [attempt EXCEPT ![c] = 0]
  /\ next'    = [next EXCEPT ![c] = 0]

\* End of the dispatch of one entry: the next one of the batch, or the top of
\* the loop, which reads the history again whatever the batch came from.
NextOfBatch(c) ==
  LET rest == batch[c] \ {cur[c]}
  IN  Between(c, IF rest = {} THEN "history" ELSE "take", rest)

\* An exception that leaves _dispatch: the loop drops the batch, sleeps and
\* starts over.
AbandonBatch(c) == Between(c, "history", {})

Fault == faults < MaxFaults /\ faults' = faults + 1

XAck(c) ==
  /\ pel'   = [pel EXCEPT ![c] = @ \ {cur[c]}]
  /\ acked' = acked \union {cur[c]}

\* XACK failed: Redis may or may not have carried it out.
XAckFails(c) == Fault /\ (XAck(c) \/ UNCHANGED <<pel, acked>>)

\* A meta-event; when its XADD fails the failure is only logged.
Notice(kind, x) ==
  \/ notices' = notices \union {<<kind, x>>} /\ UNCHANGED faults
  \/ Fault /\ UNCHANGED notices

\* The (at most BatchSize) oldest members of a set of entries.
Oldest(S) == {m \in S : Cardinality({k \in S : k <= m}) <= BatchSize}
-----------------------------------------------------------------------------
Init ==
  /\ stream = <<>>
  /\ group = -1
  /\ pel = [c \in Consumers |-> {}]
  /\ dedup = {}
  /\ dlq = {}
  /\ notices = {}
  /\ at = [c \in Consumers |-> "off"]
  /\ batch = [c \in Consumers |-> {}]
  /\ cur = [c \in Consumers |-> 0]
  /\ attempt = [c \in Consumers |-> 0]
  /\ next = [c \in Consumers |-> 0]
  /\ acked = {}
  /\ runs = [e \in Events |-> [h \in Handlers |-> 0]]
  /\ handled = {}
  /\ faults = 0

(***************************************************************************)
(* publish: XADD, then the meta-event, whose failure is only logged.  The  *)
(* same envelope may be published again; a foreign or outdated producer    *)
(* may add an entry that is no envelope.                                   *)
(***************************************************************************)
Publish(e) ==
  /\ Len(stream) < MaxEntries
  /\ stream' = Append(stream, e)
  /\ IF e = Invalid THEN UNCHANGED <<notices, faults>> ELSE Notice("published", e)
  /\ UNCHANGED <<group, pel, dedup, dlq, taskVars, acked, runs, handled>>

(* The key event:dedup:<id> reaches its TTL (24 h), never while a dispatch *)
(* of the event is under way: those last seconds.                          *)
ExpireDedup(e) ==
  /\ e \in dedup
  /\ \A c \in Consumers : Working(c) => stream[cur[c]] # e
  /\ dedup' = dedup \ {e}
  /\ runs' = [runs EXCEPT ![e] = [h \in Handlers |-> 0]]
  /\ UNCHANGED <<stream, group, pel, dlq, notices, taskVars, acked, handled, faults>>

StartConsumerLoop(c) ==
  /\ at[c] = "off"
  /\ Goto(c, "ensure")
  /\ UNCHANGED <<redisVars, batch, entryVars, acked, runs, handled, faults>>

(* _ensure_group: the group starts at "$", the end of the stream as it is; *)
(* a group that already exists (BUSYGROUP) is left alone.                  *)
EnsureGroup(c) ==
  /\ at[c] = "ensure"
  /\ group' = IF group = -1 THEN Len(stream) ELSE group
  /\ Goto(c, "history")
  /\ UNCHANGED <<batch, entryVars, stream, pel, dedup, dlq, notices, acked, runs, handled, faults>>

(* Any other failure of xgroup_create is raised outside the loop's try: it *)
(* ends the task, and the process goes on without consuming.               *)
EnsureGroupFails(c) ==
  /\ at[c] = "ensure"
  /\ Fault
  /\ Goto(c, "failed")
  /\ UNCHANGED <<redisVars, batch, entryVars, acked, runs, handled>>

(* _consume_once(..., "0"): the consumer's own pending entries, oldest     *)
(* first.  An empty answer sends the loop on to the new entries only if it *)
(* is falsy.                                                               *)
ConsumeHistory(c) ==
  /\ at[c] = "history"
  /\ LET pending == Oldest(pel[c])
     IN  \/ /\ pending # {}
            /\ Goto(c, "take")
            /\ batch' = [batch EXCEPT ![c] = pending]
         \/ /\ pending = {}
            /\ ~EmptyHistoryIsTruthy
            /\ Goto(c, "new")
            /\ UNCHANGED batch
  /\ UNCHANGED <<redisVars, entryVars, acked, runs, handled, faults>>

Fresh == {m \in DOMAIN stream : m > group /\ m <= group + BatchSize}

Deliver(c) ==
  /\ group' = IF group + BatchSize < Len(stream) THEN group + BatchSize
                                                ELSE Len(stream)
  /\ pel' = [pel EXCEPT ![c] = @ \union Fresh]

(* _consume_once(..., ">"): entries no consumer of the group has been      *)
(* given; none before the block time is over sends the loop back.          *)
ConsumeNew(c) ==
  /\ at[c] = "new"
  /\ Deliver(c)
  /\ Goto(c, IF Fresh = {} THEN "history" ELSE "take")
  /\ batch' = [batch EXCEPT ![c] = Fresh]
  /\ UNCHANGED <<entryVars, stream, dedup, dlq, notices, acked, runs, handled, faults>>

(* xreadgroup fails: the entries may have been delivered all the same.     *)
ConsumeNewFails(c) ==
  /\ at[c] = "new"
  /\ Fault
  /\ Deliver(c) \/ UNCHANGED <<group, pel>>
  /\ AbandonBatch(c)
  /\ UNCHANGED <<stream, dedup, dlq, notices, acked, runs, handled>>
-----------------------------------------------------------------------------
(***************************************************************************)
(* _dispatch of the oldest entry of the batch.                             *)
(***************************************************************************)
HeadOfBatch(c, m) ==
  /\ at[c] = "take"
  /\ m \in batch[c]
  /\ \A k \in batch[c] : m <= k

(* The entry does not parse: it will be acknowledged, then dead-lettered.  *)
RejectInvalid(c) ==
  /\ \E m \in Entry :
       /\ HeadOfBatch(c, m)
       /\ stream[m] = Invalid
       /\ cur' = [cur EXCEPT ![c] = m]
  /\ Goto(c, "drop")
  /\ UNCHANGED <<redisVars, batch, attempt, next, acked, runs, handled, faults>>

\* Mutant: the keys are set for the whole batch when its first entry is taken.
ClaimBatch(c) ==
  /\ \E m \in Entry :
       /\ HeadOfBatch(c, m)
       /\ stream[m] # Invalid
       /\ cur' = [cur EXCEPT ![c] = m]
       /\ IF stream[m] \in dedup
            THEN Goto(c, "skip") /\ UNCHANGED <<attempt, next>>
            ELSE /\ Goto(c, "handle")
                 /\ attempt' = [attempt EXCEPT ![c] = 1]
                 /\ next' = [next EXCEPT ![c] = 1]
       /\ dedup' = dedup \union ({stream[k] : k \in batch[c]} \ {Invalid})
  /\ UNCHANGED <<batch, stream, group, pel, dlq, notices, acked, runs, handled, faults>>

\* Mutant: SET without NX, so that every claim succeeds.
ClaimWithoutNX(c) ==
  /\ \E m \in Entry :
       /\ HeadOfBatch(c, m)
       /\ stream[m] # Invalid
       /\ cur' = [cur EXCEPT ![c] = m]
       /\ dedup' = dedup \union {stream[m]}
  /\ Goto(c, "handle")
  /\ attempt' = [attempt EXCEPT ![c] = 1]
  /\ next' = [next EXCEPT ![c] = 1]
  /\ UNCHANGED <<batch, stream, group, pel, dlq, notices, acked, runs, handled, faults>>

(* _claim_dedup: SET NX decides between a first delivery and a duplicate.  *)
ClaimDedup(c) ==
  /\ \E m \in Entry :
       /\ HeadOfBatch(c, m)
       /\ stream[m] # Invalid
       /\ cur' = [cur EXCEPT ![c] = m]
       /\ \/ /\ stream[m] \in dedup
             /\ Goto(c, "skip")
             /\ UNCHANGED <<attempt, next>>
          \/ /\ stream[m] \notin dedup
             /\ Goto(c, "handle")
             /\ attempt' = [attempt EXCEPT ![c] = 1]
             /\ next' = [next EXCEPT ![c] = 1]
       /\ dedup' = dedup \union {stream[m]}
  /\ UNCHANGED <<batch, stream, group, pel, dlq, notices, acked, runs, handled, faults>>

ClaimDedupFails(c) ==
  /\ \E m \in Entry :
       /\ HeadOfBatch(c, m)
       /\ stream[m] # Invalid
       /\ dedup' \in {dedup, dedup \union {stream[m]}}
  /\ Fault
  /\ AbandonBatch(c)
  /\ UNCHANGED <<stream, group, pel, dlq, notices, acked, runs, handled>>

\* Mutant: a duplicate is skipped, but not acknowledged.
SkipWithoutAck(c) ==
  /\ at[c] = "skip"
  /\ NextOfBatch(c)
  /\ UNCHANGED <<redisVars, acked, runs, handled, faults>>

SkipDuplicate(c) ==
  /\ at[c] = "skip"
  /\ XAck(c)
  /\ NextOfBatch(c)
  /\ UNCHANGED <<stream, group, dedup, dlq, notices, runs, handled, faults>>

SkipDuplicateFails(c) ==
  /\ at[c] = "skip"
  /\ XAckFails(c)
  /\ AbandonBatch(c)
  /\ UNCHANGED <<stream, group, dedup, dlq, notices, runs, handled>>

\* Mutant: one handler too many is called.
CallOneMore(c) ==
  /\ at[c] = "handle"
  /\ runs' = [runs EXCEPT ![stream[cur[c]]][next[c]] = @ + 1]
  /\ \/ /\ next[c] <= NumHandlers
        /\ next' = [next EXCEPT ![c] = @ + 1]
        /\ UNCHANGED <<at, handled>>
     \/ /\ next[c] > NumHandlers
        /\ Goto(c, "ack")
        /\ handled' = handled \union {cur[c]}
        /\ UNCHANGED next
  /\ UNCHANGED <<redisVars, batch, cur, attempt, acked, faults>>

(* A handler returns: the next one is called, or the entry acknowledged.   *)
HandlerReturns(c) ==
  /\ at[c] = "handle"
  /\ runs' = [runs EXCEPT ![stream[cur[c]]][next[c]] = @ + 1]
  /\ \/ /\ next[c] < NumHandlers
        /\ next' = [next EXCEPT ![c] = @ + 1]
        /\ UNCHANGED <<at, handled>>
     \/ /\ next[c] = NumHandlers
        /\ Goto(c, "ack")
        /\ handled' = handled \union {cur[c]}
        /\ UNCHANGED next
  /\ UNCHANGED <<redisVars, batch, cur, attempt, acked, faults>>

\* Mutant: range(1, max + 2), one attempt too many.
RetryOnceMore(c) ==
  /\ \/ /\ attempt[c] <= MaxAttempts
        /\ Goto(c, "handle")
        /\ attempt' = [attempt EXCEPT ![c] = @ + 1]
        /\ next' = [next EXCEPT ![c] = 1]
     \/ /\ attempt[c] > MaxAttempts
        /\ Goto(c, "drop")
        /\ UNCHANGED <<attempt, next>>
  /\ UNCHANGED <<batch, cur>>

(* An attempt fails: after the backoff every handler is called again, from *)
(* the first one; after the last attempt the entry will be dropped.        *)
AttemptFails(c) ==
  /\ \/ /\ attempt[c] < MaxAttempts
        /\ Goto(c, "handle")
        /\ attempt' = [attempt EXCEPT ![c] = @ + 1]
        /\ next' = [next EXCEPT ![c] = 1]
     \/ /\ attempt[c] = MaxAttempts
        /\ Goto(c, "drop")
        /\ UNCHANGED <<attempt, next>>
  /\ UNCHANGED <<batch, cur>>

HandlerRaises(c) ==
  /\ at[c] = "handle"
  /\ AttemptFails(c)
  /\ UNCHANGED <<redisVars, acked, runs, handled, faults>>

\* Mutant: the return after the xack is missing.
AckWithoutReturn(c) ==
  /\ at[c] = "ack"
  /\ XAck(c)
  /\ AttemptFails(c)
  /\ UNCHANGED <<stream, group, dedup, dlq, notices, runs, handled, faults>>

AckDelivered(c) ==
  /\ at[c] = "ack"
  /\ XAck(c)
  /\ NextOfBatch(c)
  /\ UNCHANGED <<stream, group, dedup, dlq, notices, runs, handled, faults>>

(* The xack stands inside the try of the handlers: its failure counts as   *)
(* a failed attempt, though every handler has returned.                    *)
AckDeliveredFails(c) ==
  /\ at[c] = "ack"
  /\ XAckFails(c)
  /\ AttemptFails(c)
  /\ UNCHANGED <<stream, group, dedup, dlq, notices, runs, handled>>

\* Mutant: the dead-letter copy is forgotten.
AckAndForget(c) ==
  /\ at[c] = "drop"
  /\ XAck(c)
  /\ NextOfBatch(c)
  /\ UNCHANGED <<stream, group, dedup, dlq, notices, runs, handled, faults>>

(* The entry is acknowledged first and copied to events:dlq afterwards.    *)
AckDropped(c) ==
  /\ at[c] = "drop"
  /\ XAck(c)
  /\ Goto(c, "dead")
  /\ UNCHANGED <<batch, entryVars, stream, group, dedup, dlq, notices, runs, handled, faults>>

AckDroppedFails(c) ==
  /\ at[c] = "drop"
  /\ XAckFails(c)
  /\ AbandonBatch(c)
  /\ UNCHANGED <<stream, group, dedup, dlq, notices, runs, handled>>

(* _dead_letter: XADD to events:dlq, then a notice on a best-effort basis. *)
DeadLetter(c) ==
  /\ at[c] = "dead"
  /\ dlq' = dlq \union {cur[c]}
  /\ Notice("dead", cur[c])
  /\ NextOfBatch(c)
  /\ UNCHANGED <<stream, group, pel, dedup, acked, runs, handled>>

DeadLetterFails(c) ==
  /\ at[c] = "dead"
  /\ Fault
  /\ dlq' \in {dlq, dlq \union {cur[c]}}
  /\ AbandonBatch(c)
  /\ UNCHANGED <<stream, group, pel, dedup, notices, acked, runs, handled>>

(* The process ends in any of its awaits: stop() cancels the tasks, and a  *)
(* cancellation is no Exception that a retry or the loop would catch; a    *)
(* crash leaves Redis in the same state.                                   *)
Stop(c) ==
  /\ Live(c)
  /\ Fault
  /\ Between(c, "stopped", {})
  /\ UNCHANGED <<redisVars, acked, runs, handled>>
-----------------------------------------------------------------------------
(* What the loop does by itself, without failures.                         *)
Consume(c) ==
  \/ StartConsumerLoop(c) \/ EnsureGroup(c)
  \/ ConsumeHistory(c)    \/ ConsumeNew(c)
  \/ RejectInvalid(c)     \/ ClaimDedup(c)   \/ SkipDuplicate(c)
  \/ HandlerReturns(c)    \/ HandlerRaises(c)
  \/ AckDelivered(c)      \/ AckDropped(c)   \/ DeadLetter(c)

Disturb(c) ==
  \/ EnsureGroupFails(c)   \/ ConsumeNewFails(c) \/ ClaimDedupFails(c)
  \/ SkipDuplicateFails(c) \/ AckDeliveredFails(c)
  \/ AckDroppedFails(c)    \/ DeadLetterFails(c) \/ Stop(c)

Next ==
  \/ \E e \in Events \union {Invalid} : Publish(e)
  \/ \E e \in Events : ExpireDedup(e)
  \/ \E c \in Consumers : Consume(c) \/ Disturb(c)

Spec == Init /\ [][Next]_vars

(* asyncio keeps running a ready task, and the handlers return or raise.   *)
FairSpec == Spec /\ \A c \in Consumers : WF_vars(Consume(c))
-----------------------------------------------------------------------------
(***************************************************************************)
(* Properties.                                                             *)
(***************************************************************************)
Stages == {"off", "ensure", "history", "new", "take", "skip", "handle",
           "ack", "drop", "dead", "failed", "stopped"}

RedisTypeOK ==
  /\ stream \in Seq(Events \union {Invalid})
  /\ Len(stream) <= MaxEntries
  /\ group \in -1..Len(stream)
  /\ pel \in [Consumers -> SUBSET DOMAIN stream]
  /\ dedup \subseteq Events
  /\ dlq \subseteq DOMAIN stream
  /\ notices \subseteq ({"published"} \X Events) \union ({"dead"} \X Entry)

TaskTypeOK ==
  /\ at \in [Consumers -> Stages]
  /\ batch \in [Consumers -> SUBSET DOMAIN stream]
  /\ cur \in [Consumers -> 0..Len(stream)]
  /\ attempt \in [Consumers -> 0..MaxAttempts]
  /\ next \in [Consumers -> 0..NumHandlers]

HistoryTypeOK ==
  /\ acked \subseteq DOMAIN stream
  /\ runs \in [Events -> [Handlers -> Nat]]
  /\ handled \subseteq DOMAIN stream
  /\ faults \in 0..MaxFaults

(* A consumer that dispatches an entry has one, and knows where it is.     *)
DispatchOK(c) ==
  /\ at[c] \in {"skip", "handle", "ack", "drop", "dead"} => cur[c] \in DOMAIN stream
  /\ at[c] \in {"skip", "handle", "ack"} => stream[cur[c]] \in Events
  /\ at[c] \in {"handle", "ack"} => attempt[c] >= 1
  /\ at[c] = "handle" => next[c] >= 1

(* Types of the variables, in every stage of a dispatch.                   *)
TypeOK ==
  /\ RedisTypeOK /\ TaskTypeOK /\ HistoryTypeOK
  /\ \A c \in Consumers : DispatchOK(c)

(* Two consumers never work on the same event at once, not even when the   *)
(* event was published twice or an entry was read again: SET NX lets one   *)
(* of them in and nothing takes the key away under its feet.               *)
OneWorkerPerEvent ==
  \A c, d \in Consumers :
    Working(c) /\ Working(d) /\ stream[cur[c]] = stream[cur[d]]
      => c = d

(* Under one deduplication key no handler returns more often than there    *)
(* are attempts, and a later handler never more often than an earlier one, *)
(* over any sequence of redeliveries, republications and failures.         *)
RunsBounded ==
  \A e \in Events : \A h \in Handlers :
    /\ runs[e][h] <= MaxAttempts
    /\ h > 1 => runs[e][h] <= runs[e][h - 1]

\* The entry, or another one with the same event, was handled or copied to
\* events:dlq.
Accounted(m) ==
  \/ m \in handled \union dlq
  \/ \E k \in handled \union dlq : stream[k] = stream[m] /\ stream[m] # Invalid

BeingWorkedOn(e) == \E c \in Consumers : Working(c) /\ stream[cur[c]] = e

\* Handled or dead-lettered, or somebody is at it.
Known(e) == BeingWorkedOn(e) \/ \E k \in handled \union dlq : stream[k] = e

\* The entries some consumer of the group has been given.
Given == acked \union UNION {pel[c] : c \in Consumers}

(* An entry of the event will yet be dispatched, and not as a duplicate:   *)
(* it has no key, and an entry that no consumer has been given, or that a  *)
(* running consumer has pending and is not about to acknowledge.           *)
ToCome(e) ==
  /\ e \notin dedup
  /\ \E m \in DOMAIN stream :
       /\ stream[m] = e
       /\ \/ m > group
          \/ \E c \in Consumers :
               Live(c) /\ m \in pel[c] /\ (at[c] = "skip" => m # cur[c])

(* Given to a consumer, neither delivered nor dead-lettered, nobody at it, *)
(* and no redelivery that would not be skipped: claimed by a dispatch that *)
(* was broken off, or pending for a process that ended, whose name nobody  *)
(* takes again.                                                            *)
LostEvents ==
  {e \in Events : (\E m \in Given : stream[m] = e) /\ ~Known(e) /\ ~ToCome(e)}

Ended == {c \in Consumers : at[c] = "stopped"}

(* A failure of Redis loses one event at most, the one at hand, because    *)
(* the loop claims entry by entry and comes back to what it leaves         *)
(* pending; a process that ends loses what it has been given, one batch at *)
(* most, because the loop reads new entries only when nothing is pending.  *)
LossBoundedByFaults ==
  Cardinality(LostEvents) <= faults + (BatchSize - 1) * Cardinality(Ended)

(* An entry ends up both handled and dead-lettered only at the price of a  *)
(* failure each: an xack failed after its handlers had run, and the        *)
(* attempts that this cost it were used up.                                *)
HandledXorDead == Cardinality(handled \intersect dlq) <= faults

(* An entry of the group is acknowledged only if all handlers have run for *)
(* its event, a dead-letter copy exists, or a consumer is still at it:     *)
(* what "at-least-once" (lines 3-4) comes to.  It holds without failures,  *)
(* and one failure is enough to break it.                                  *)
AtLeastOnce ==
  \A m \in acked :
    stream[m] \in Events => Accounted(m) \/ BeingWorkedOn(stream[m])

Settled(m) == m \in acked /\ Accounted(m)

(* Without failures an entry the group has not delivered yet ends up       *)
(* handled or dead-lettered, and acknowledged.                             *)
NewEntriesSettle ==
  \A m \in Entry :
    (group # -1 /\ m \in DOMAIN stream /\ m > group) ~> Settled(m)
-----------------------------------------------------------------------------
(***************************************************************************)
(* The inductive strengthening of OneWorkerPerEvent and RunsBounded.       *)
(***************************************************************************)

(* The key of an event stands as long as a consumer works on the event.    *)
WorkersClaimed == \A c \in Consumers : Working(c) => stream[cur[c]] \in dedup

(* The handlers of an event without a key have not run; a consumer that    *)
(* calls them has had each return once per attempt that got that far.      *)
CountsOK(e) ==
  \A h \in Handlers :
    /\ e \notin dedup => runs[e][h] = 0
    /\ runs[e][h] <= MaxAttempts
    /\ h > 1 => runs[e][h] <= runs[e][h - 1]

CallerOK(c) ==
  LET r == runs[stream[cur[c]]]
  IN  /\ at[c] = "handle" =>
           /\ \A h \in Handlers : r[h] <= attempt[c] - (IF h < next[c] THEN 0 ELSE 1)
           /\ next[c] > 1 => r[next[c]] < r[next[c] - 1]
      /\ at[c] = "ack" => \A h \in Handlers : r[h] <= attempt[c]

RunsCounted ==
  /\ \A e \in Events : CountsOK(e)
  /\ \A c \in Consumers : CallerOK(c)

IInv == TypeOK /\ WorkersClaimed /\ OneWorkerPerEvent /\ RunsCounted
-----------------------------------------------------------------------------
(***************************************************************************)
(* The inductive strengthening of HandledXorDead.                          *)
(***************************************************************************)
Dispatching(c) == at[c] \in {"skip", "handle", "ack", "drop", "dead"}

(* The entries a consumer has or has been given.                           *)
Held(c) == pel[c] \union {m \in {cur[c]} : Dispatching(c)}

(* An entry is one consumer's, and nobody's once it is in events:dlq.      *)
HeldInv ==
  /\ \A c \in Consumers :
       /\ ~Dispatching(c) => cur[c] = 0
       /\ batch[c] \ {cur[c]} \subseteq pel[c]
       /\ \A m \in Held(c) : m <= group /\ m \notin dlq
       /\ at[c] = "dead" => cur[c] \notin pel[c]
  /\ \A c, d \in Consumers : c # d => Held(c) \intersect Held(d) = {}
  /\ \A m \in handled \union dlq : m <= group

(* Handled, and yet to be dispatched again.                                *)
AtRisk == {m \in handled : \E c \in Consumers : m \in Held(c) /\ (at[c] = "ack" => m # cur[c])}

Both == (handled \intersect dlq) \union AtRisk

BothInv == HeldInv /\ IsFiniteSet(Both) /\ Cardinality(Both) <= faults
-----------------------------------------------------------------------------
(***************************************************************************)
(* The inductive strengthening of LossBoundedByFaults and AtLeastOnce.     *)
(***************************************************************************)
(* What is acknowledged as delivered was.                                  *)
HandledFirst == \A c \in Consumers : at[c] = "ack" => cur[c] \in handled

(* A key is of an event some consumer was given; a consumer reads new      *)
(* entries with none pending, so that it holds one batch at most.          *)
GivenInv ==
  /\ \A m \in acked : m <= group
  /\ \A e \in dedup : \E m \in Given : stream[m] = e
  /\ \A c \in Consumers :
       /\ Dispatching(c) => cur[c] \in Given
       /\ at[c] \in {"off", "ensure", "new"} => pel[c] = {}
       /\ Cardinality(Held(c)) <= BatchSize

LossInv ==
  /\ HandledFirst /\ GivenInv
  /\ IsFiniteSet(Ended) /\ Cardinality(Ended) <= faults
  /\ IsFiniteSet(LostEvents) /\ LossBoundedByFaults

(* Until the first failure, whatever was skipped or acknowledged is known. *)
KnownInv ==
  faults = 0 =>
    /\ \A c \in Consumers : at[c] = "skip" => Known(stream[cur[c]])
    /\ \A m \in acked : stream[m] \in Events => Known(stream[m])
=============================================================================
