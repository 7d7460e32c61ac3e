# A TLA+ specification of the Sophie / Neg-o-IA backend

TLA+ models of the concurrent core of the backend (`src/backend/app`), checked
with TLC on small instances and, for most of them, proved with TLAPS for every
instance. Paths below are relative to
`src/backend/app/modules/` unless they start with `src/`.

The backend is one asyncio process per worker over Redis and Postgres. Its
coroutines run one at a time and interleave at every `await`; processes meet in
Redis and Postgres only. So an action here is what the code does between two
awaits, and everything another coroutine, another process or a failure may do
fits in between.

## 1. Inventory

| Component | State | Operations | Meets | What is hard |
|---|---|---|---|---|
| Event bus (`events/`) | Redis streams, consumer group with pending lists, `event:dedup:*`, `events:dlq`; per process a consumer task | publish, start, stop, history and new reads, dispatch, claim, retry, acknowledge, dead-letter | every component publishes; automation subscribes | redelivery, lost replies, process ends, retries of handlers that have run, two processes given one event |
| Voice session (`voice/`) | state machine, audio buffer, turn clock, session age | session start/stop, turn start/end, chunks, recovery, expiry | conversation (`chat`), STT and TTS providers, connections | a turn spans three services, each may fail; frames still come after a close; limits in every state |
| Connections (`api/websocket.py`, and the endpoints of `conversation/` and `voice/`) | the registry, the counter of voice slots | admit, reserve, accept, connect, serve, disconnect, shutdown | identity (tickets), rate limiter | raises between taking and giving back; shutdown in the middle; limits tested after awaits |
| Conversation (`conversation/`) | per session two Redis keys with a TTL each, an index per user | start, chat, reset, rename, delete, list | brain, memory, knowledge, tools, event bus, voice | read-modify-write over several awaits; cancellation; three keys that expire apart |
| Model router (`brain/infrastructure`) | two circuit breakers | complete with retries and fallback | two providers, the answer cache | requests that overlap with one breaker; late verdicts; trials without verdict |
| ChatGPT plan (`brain/chatgpt_plan.py`, `brain/siwc_client.py`) | one encrypted credential row per user, the grant at the provider | connect by the command line, save, renew under the row's lock, disconnect | the OAuth provider, the model router | the provider rotates a token the transaction may fail to keep; a save, a renewal and a disconnection at once |
| Tool manager (`tool_manager/`) | circuit per user and tool, semaphore, idempotency keys | execute: confirm, look up, wait, run, record | its route, conversation, planner, automation, memory, knowledge | two calls with one key; verdicts after the circuit opened; cancellation in every await |
| Planner (`planner/`) | plans with revisions, in Redis | create, replan, execute step by step | tool manager, conversation | read-modify-write of a plan; a plan replanned or lapsed while it runs |
| Automation (`automation/`) | rules | create, enable, disable, delete, evaluate | event bus, tool manager | rules changed while they are evaluated; redelivered events; rules that set off rules |
| Identity (`security/`) | users, sessions, devices, WebSocket tickets | register, log in, authenticate, log out, revoke, issue and redeem | connections, every router | transactions under READ COMMITTED; the cap under concurrent logins; revocation between issue and redemption |
| Rate limiter (`api/rate_limit.py`) | windows in Redis, or in each process | allow, probe | connections, HTTP, login | Redis going away and coming back; calls counted after their window |
| Memory (`memory/`) | rows with expiry, a policy per user | remember, search, purge, delete, capture a conversation | conversation, tool manager, event bus | merging with an expired row; a purge and a write that are two transactions |
| Knowledge (`knowledge/`) | documents and their chunks | ingest, search, delete | conversation, tool manager, event bus | where chunks begin and end; two ingestions of one text |
| Reasoning (`reasoning/`) | none | resolve the intent of a text | conversation, planner | which intents count as asked for |
| Learning, scheduler, vision, monitoring, database | rows or nothing | single transactions, reads | | no protocol of their own |
| Configuration and start (`src/backend/app/main.py`, `core/`) | settings | start, stop | all | order of start and stop |
| Frontend (`src/frontend`) | views | | | the client the voice protocol is for |

What makes each correct:

- Event bus: an event is worked on by one consumer at a time; what it costs when
  something fails (duplicated runs, lost events) is bounded; without failures
  every new entry is handled or dead-lettered.
- Voice session: a client sees the phases of the protocol in order, gets one
  answer per turn, and no service is asked after the server closed; the session
  ends by itself.
- Connections: counters and registry agree with what is really open, and all is
  given back.
- Conversation: a session stays its creator's, holds what was confirmed and not
  removed, questions before answers, and can be listed.
- Model router: a breaker is open exactly after the threshold of failures,
  shields its provider while it cools down, and closes when the provider is
  back.

- Tools, planner, automation: what needs the user's confirmation has it; one key
  is one execution; circuits count what they should; automation ends.
- Memory: what was told to be kept is kept until its date or its deletion.
- Identity: one active session per device, at most the cap of them; a ticket
  opens one socket, for a session that is active.
- Rate limiter: how much a key is allowed in a window, whatever Redis does.
- ChatGPT plan: the stored token is the one the provider takes, and stays with
  its account.
- Knowledge: the chunks cover their text.

The hazards behind these properties, each at its line, are in `PROJECT.json`.

## 2. Plan

Done, in this order: (1) EventBus, (2) VoiceProtocol and VoiceSession,
(3) Connections, (4) Conversation, (5) ModelRouter, (6) LongTermMemory,
ToolManager, Planner and Automation, composed in Assistant, (7) Identity,
(8) RateLimiter, ChatGPTPlan and Knowledge. Proofs about each of them (section 7).

```
LongTermMemory <- ToolManager <- Planner    <-\
                              <- Automation <-- Assistant <- MCAssistant, AssistantProofs
Identity, RateLimiter, ChatGPTPlan, Knowledge <- MCServices  (no state in common)
Identity, RateLimiter                      <- SecurityProofs
MCServices, SecurityProofs                 <- ServicesProofs
VoiceProtocol <- VoiceSession                               (refinement)
```

What is left, in the order of what it would add:

1. Identity composed with Connections, to say how long a connection outlives the
   session it was opened for.
2. Liveness of the tool manager: that nobody who queues for its semaphore is
   passed over, which takes three callers and a state space of its own.
3. Proofs of the parts of the liveness properties that are safety: what each step
   of a recovery establishes.

No module meant for proofs declares a RECURSIVE operator.

## 3. Modules

### EventBus

One stream, one group, the consumer task of each process incarnation. `at[c]` is
the await the task is suspended in; `batch`, `cur`, `attempt`, `next` are the
local variables of `_consume_once` and `_dispatch`. Each await is an action and,
where Redis is called, a second action for its failure, in which Redis may have
carried the call out (`ClaimDedupFails`, `AckDroppedFails`, ...). `Stop` ends a
process in any await; since the consumer name is random
(`events/infrastructure/__init__.py:47`) a new process is a new member of
`Consumers`. `Publish` may add the same envelope again, or an entry that is no
envelope. An event is lost (`LostEvents`) when some consumer was given an entry
of it, it is neither handled nor in the dead letters, nobody is at it, and no entry
of it will be dispatched but as a duplicate (`ToCome`): because its key was set by a
dispatch that was broken off, or because it is pending for a process that ended,
claimed or not. `ExpireDedup` is the 24 h TTL, which never falls into a dispatch that
takes seconds. Left out: trimming by MAXLEN, and the audit record that
`publish_event` writes beside the stream.

The constant `EmptyHistoryIsTruthy` is what the Redis client answers to
`XREADGROUP ... 0` when nothing is pending. A Redis server answers
`[[stream, []]]`, which is truthy in Python (TRUE). With FALSE the modules
show what the rest of the design does once that is out of the way.

### VoiceProtocol and VoiceSession

`VoiceProtocol` is what a client may rely on: phases opened, ready, recording,
answering, over. `VoiceSession` is one connection: the table `_TRANSITIONS` as a
set of triples, the loop, every handler and the turn through its services, cut
at their awaits. `closed` is set when the server sends a close frame without
leaving the loop (`voice/router.py:215, 270, 281, 290`), after which frames may
still be received but sends raise. `Phase` is the refinement mapping.

### Connections

The life of each socket of the three endpoints: the awaits before and after the
serving loop. `lostSlots` and `ghosts` remember what a raise outside of a `try`
costs (`voice/router.py:517`, `api/websocket.py:147`).

### Conversation

Redis as three keys per session and user, each with a remaining life, and
requests that run `chat`, `reset`, `rename`, `delete` or `list` one Redis call
per step, with what each has read so far (`seenMessages`, `seenOwner`,
`seenCount`). Each call may fail before or after its effect; `Fail` is also the
cancellation by the voice timeout. `Lapse` expires keys at any moment, also between
two calls of one request: then a chat writes back messages that have expired, and a
chat or a reset writes metadata without a `user_id`, under which nobody may read or
delete what is stored until it expires in its turn. The same comes of a chat that
overlaps a delete. `confirmed`, `removed`, `expired`, `overlapped` and `interrupted`
(the requests that were past finding their session when a key of it went away) are
history variables the properties need. Left out: texts, names, the
index over all sessions, requests without a user.

### ModelRouter

Two breakers and the requests that share them. `failures` and `_half_open_trial`
as in the code; `circuit` folds `_opened_at` and the clock into closed, cooling
and cooled. The counter is kept up to the threshold, which is all the code
compares it with. `streak` is the history variable that states what the breaker
is meant to count. The adapters and the cache have no control of interest.

### LongTermMemory

The table `memory.entries` of one user: a row is its content and its source,
which is what the unique constraint says, and the tick it expires at. Each action
is one transaction; a request that makes several (purge, then search or write) is
told by its caller. `told` remembers the date the last `remember` of a row
returned. Left out: importance, attributes, similarity.

### ToolManager, Planner, Automation, Assistant

`ToolManager` is `execute_tool` cut at its awaits: the GET of the key, which is of
the tool and the caller's key (`CacheKey`), the circuit's test and the entry to the
semaphore, one step as no await stands between them when there is a place; the wait
(first come, first served), the handler's two transactions, its event,
the SET of the key. `HandlerFails` is an exception or the timeout, before or after
the handler has committed; `Cancel` is the cancellation of the caller, which
gives no verdict to the circuit. `Planner` keeps one plan in Redis and what each
caller has read of it. `Automation` reads its rules once per evaluation
(`pending`) and takes them one by one; an event may be delivered again.
`Assistant` puts the callers together: the route, the chat (`SuggestedTool` and
`ExplicitAction` are what `resolve_intent` makes of a message), plans, rules by
way of `bus`, the routes of the memory and the capture of conversations. A caller
has one activity, `via` names it, `consent` holds those whose user confirmed it.
`excused` are the keys for which the code does not promise one execution: calls
that overlapped, failed, were cancelled, or whose record was lost or ran out.

Left out: outputs of tools that read, argument templates, the events of the tool
manager itself (no handler is registered for them), users other than one, who
share no more than the semaphore.

### Identity

Logins as the transactions they are, one statement per step, under PostgreSQL's
READ COMMITTED: `TakeDevice` writes (or inserts) the row of the device and holds
it, `ReadDevice` and `CountSessions` see what is committed when they run,
`CommitLogin` makes everything visible. `Authenticate` reads the session and
commits its `last_seen_at` in one step. A request authenticates in a transaction
of its own, so its session may be revoked before it acts. Tickets are taken with
GETDEL, then their session is looked up. `overlooked` and `stale` are history.

### RateLimiter

The calls of one key in several processes: the window is computed first, the
answer comes after the awaits, by Redis or by the memory of the process.
`RedisFails` may have counted the call already. `late` counts calls answered
after their window.

### ChatGPTPlan

The row, its lock (`holder`), the grants at the provider and what each call has
read. Renewal holds the lock across the request to the provider; `RefreshLost` is
an answer that does not reach the row, and with it the only valid token.
`ProviderEnds` ends a grant, expired or revoked there, stored or not, at any moment
(`brain/chatgpt_plan.py:254-260, 484-486`); a refresh is refused for that as for a
token that was replaced, and either deletes the row. The
first save finds no row to lock: two first saves may pass each other, the later
one winning, which is why `AccountIsKept` speaks of saves that found a row.

### Knowledge

`ChunkText` is `chunk_text` over lengths and spaces, as a recursive function, for
chunks of more than one character (a chunk of one may be a space, which the code
drops); documents are stored with their chunks in one transaction.

## 4. Runs

| Run | Asks | Bounds, and why they are enough |
|---|---|---|
| `eventbus` | safety under failures: `OneWorkerPerEvent`, `RunsBounded`, `LossBoundedByFaults`, `HandledXorDead` | 2 consumers, 2 events, 3 entries, 2 handlers, 2 attempts, 2 failures: an event published twice and given to both processes, a batch of two, a retry that re-runs the first handler, a failure after a failure. Consumers and events are symmetric; no liveness in this run |
| `eventbus_live` | `NewEntriesSettle`, `AtLeastOnce` without failures | 2 entries, 1 handler: liveness needs no more than a duplicate and a dead letter |
| `eventbus_history` | violated: the history answer keeps the loop from new entries | as above, `EmptyHistoryIsTruthy = TRUE` |
| `eventbus_faulty` | violated: one failure loses an event | as above, 1 failure |
| `voice_session` | the session's safety, refinement of `VoiceProtocol`, `SessionEnds` | 3 turns (a turn after a failed one after a good one), chunks of 0 to 3 bytes with limits 2 and 3: each limit is met and exceeded |
| `connections` | accounting and `Drained` | 2 + 1 + 3 sockets for 3 places and 2 slots: each limit is exceeded, with one raise and a shutdown anywhere |
| `conversation` | history, ownership, index | 3 requests of 2 users on one session: two writers and one that deletes or lists; window 3, so a chat fills it and the next cuts it; keys live 2 lapses of 3, so any of them may go in the middle of a request, and again after it. States that differ only in what no later step or property looks at are one (`VIEW`) |
| `conversation_overlap` | violated: a confirmed message is lost | 2 requests |
| `model_router` | breakers and recovery | 2 requests, threshold 2, 1 retry, 3 outages: a late failure during a trial, a reopening, both providers down |
| `model_router_late` | violated: a late success closes a cooling circuit | as above |
| `tools` | confirmation, keys, circuits, feedback, memory | 2 callers of every kind, 1 slot (so one queues), circuit threshold 2 (the second start is one failure away), 2 texts that differ in case, 1 rule, 2 replans, a clock of 1 tick that retention 1 just reaches, 1 incident (expiry, deletion, policy, rule or plan changing) at any point |
| `services` | sessions and tickets; limits; credential; chunks | 3 logins on 2 devices with cap 1, 1 request at a time, 1 ticket, 2 sockets; 3 calls in 2 processes with limit 1, 2 windows, 2 failures, 1 restart; 2 authorizations by 2 accounts, 3 calls, 3 rotations, and the provider ending either; texts up to 12 with chunks of 9 and overlap 2, so a text has one to several chunks and every place of its spaces |

The four parts of `services` share no state: a behaviour moves one and leaves the
others where they began, so the states are those of each added up. Callers and
rules (`tools`), logins, devices and calls (`services`) are symmetric. In `tools`
a second incident or a third caller is out of reach of the time a run has; its
invariants are proved for any number of both.

One session is enough in `conversation`: sessions share nothing but the index
of their user, whose entries are independent of each other.

Deadlock is not checked where the system may really stop: bounded publications,
requests served once, connections that ended. `model_router` runs for ever and
is checked for deadlock.

### Fairness

- EventBus: weak fairness of the consumer loop. asyncio runs ready tasks, and a
  handler returns or raises. None for publications, expiry, or failures.
- VoiceSession: a service await comes to an end because it has a timeout
  (`voice/application/__init__.py:62, 87`, `voice/router.py:357`); the session's age
  passes; the loop then sees it. The client is not assumed to do anything.
- Connections: every step of an endpoint, since each loop ends by its own limit
  or with the client.
- ModelRouter: requests keep coming and go on, cooldowns and outages end.
  `Succeeds` is strongly fair: callers may cancel, but not each and every time
  while the provider is up.

## 5. Properties

Each module has one type invariant; the other properties are commented where
they are defined. The ones a reader should look at first:

- `LossBoundedByFaults`: the code does lose events, as the key is set before the
  handlers run and nothing claims what is pending for a process that ended; but one
  at most per failure of Redis and one batch at most per process that ended. The
  bound is met: one process that stops with a batch of two loses both. Claiming a
  batch at once would break it.
- `HandledXorDead`: an entry is both handled and dead-lettered only because the
  `xack` stands inside the handlers' `try`, and at the price of a failure each.
- `TurnAccounting`: one answer per turn and one request per service, over every
  mix of failures and refusals.
- `SlotsAccounted`: the counter of voice sessions is the number of holders on all
  paths but the one where `accept` raises, which is accounted for by name.
- `SerialIsExact`: requests one at a time lose nothing, and bring nothing back but
  what expired in the middle of a chat; the price of overlapping is stated and not
  hidden. `NoOrphans` and `Listed` say in the same way what leaves a session without
  an owner, or in no list: keys that go away amid a chat or a reset, and no more.
- `PrimaryRecovers`: no mix of late failures, trials without a verdict and
  restarted cooldowns keeps the circuit open for good.

- `OncePerKey`: GET before and SET after is not a lock, and the property says
  exactly what breaks it. Everything else, replans that reuse a revision
  included, rests on it.
- `NoFeedback`: nothing bounds chains of rules; they end because no tool that may
  run unattended publishes an event that triggers rules.
- `ToldIsKept`: purge and write are two transactions; only a row that expires
  between them is told a date that has passed. A chat that answers from the cache
  may speak of a memory that was deleted since, which the property allows by name.
- `CapHolds`: the cap is exceeded by logins that overlap on different devices, by
  those sessions and no others. `OneSessionPerDevice` is not, though no constraint
  says so: the write to the device row does.
- `CredentialSound`: under the lock a refusal means a lost answer or a grant the
  provider ended, never another renewal.
- `WindowBound`: the limit is per process once Redis has failed; one more limit
  per failure, process and restart is the most that costs.

Some remarks on what the models show and no property forbids, because the code
does it: a rule that is disabled or deleted after it was read still runs once; a
connection stays open when its session is revoked; calls that queued for a tool run
though its circuit opened meanwhile; after its cooldown a breaker lets every request
through and not one trial alone; a process whose `xgroup_create` failed goes on
without a consumer. And where a property excuses a case by name (overlapping calls
in `OncePerKey`, logins that do not see each other in `CapHolds`, a tick between
purge and write in `ToldIsKept`, interrupted requests in `NoOrphans`), that case does
happen: the property says that it is the only one.

Each property of a passing run has a mutant in its module (`\* Mutant: ...`), a
plausible bug in the mapped definition, which makes TLC find it violated.

## 6. Disagreements with the documentation

1. `eventbus_history`. The loop turns to new entries only if the history answers
   something falsy (`events/infrastructure/__init__.py:140`). `CURRENT_STATE.md`
   calls the bus "real and working". The unit tests call `_consume_once`
   directly and never run the loop.
2. `eventbus_faulty`. "at-least-once" and "nunca perde evento" do not survive one
   failure between the deduplication key and the handlers.
3. `conversation_overlap`. "falha de storage é explícita", but of two chats at
   once one loses a confirmed message silently.
4. `model_router_late`. "closed -> open -> half_open", but a late success closes
   an open circuit without a trial.

## 7. Proofs

All proofs are for arbitrary constants under the named assumptions
(`EventBusAssumption`, `VoiceAssumption`, `ConnectionsAssumption`,
`ConversationAssumption`, `RouterAssumption`, `ToolAssumption`,
`MemoryAssumption`, `PlannerAssumption`, `AssistantAssumption`,
`NamesAssumption`, `SessionCapAssumption`, `LimiterAssumption`,
`PlanAssumption`, `ChunkAssumption`), which TLC evaluates in the runs. They say that limits are
natural numbers (positive where the settings demand it), that sets of processes,
callers and sockets are finite, that the marks for nobody and nothing are not
names, and that a system with requests has a session for them to name. Bounds on
counters (failures, outages, publications, clock) are constants too, so that the
theorems hold for any number of each.

The inductive invariants are stated in the component's module, next to its
properties, and were checked by TLC before they were proved.

### EventBusProofs

`TypeCorrect`, `OneWorker`, `RunsAreBounded`. The inductive invariant is `IInv ==
TypeOK /\ WorkersClaimed /\ OneWorkerPerEvent /\ RunsCounted`.
`OneWorkerPerEvent` is not inductive alone: a claim succeeds because the key is
absent, so one must know that the key stands as long as someone works on the event
(`WorkersClaimed`). `RunsBounded` needs the count of the caller itself: in attempt
`n`, before handler `k`, the handlers before `k` have returned at most `n` times
and the others at most `n - 1` (`RunsCounted`); that the counts are of one caller
is `OneWorkerPerEvent`. Most steps keep workers and callers as they are, which two
lemmas say once (`KeepsWorkersWorkInv`, `KeepsCallersRunsCounted`); what is left
are claim, return, failed attempt and expiry.

`LossIsBounded`. `LossInv` adds that what is about to be acknowledged was handled
(`HandledFirst`), and what a consumer is given (`GivenInv`): a batch at most, since
it reads new entries with none pending, and a key belongs to an event that some
consumer was given. That an entry is in one consumer's hands is `HeldInv`, below. An
event is lost when the last consumer that minds it leaves: a failure makes one leave
the entry at hand, which `Minds` names, while the others it holds will be read again
(`Redelivers`, for which the history of a consumer with pending entries is not empty,
`SomeAreOldest`); an end makes it leave all it holds, a batch (`StopLoses`). Every
other step loses none.

`AtLeastOnceUntilAFault` is the documented promise with the condition under which
the code keeps it: `faults = 0 => AtLeastOnce`. An entry is also acknowledged when
it is skipped as a duplicate, so `KnownInv` says that whoever is about to skip does
so because another entry of the event was handled, is a dead letter, or is being
worked on.

`HandledOrDead`. `HandledXorDead` says nothing about the way there, so `BothInv`
counts the entries that are at risk with those that are both: an entry that was
handled and is still in some consumer's hands (`AtRisk`). An entry comes to be at
risk by a failed `xack`, which is a failure; to be both, it must have been at risk.
That these are different entries for different failures needs that an entry is in
one consumer's hands and in nobody's once it is a dead letter (`HeldInv`).

### ModelRouterProofs

`Invariance`, `TypeCorrect`, `OpenOnStreak`, `Shielded`. `IInv == TypeOK /\
CounterIsStreak /\ BackoffHasAttempt`: while closed, the counter is the streak and
below the threshold; while open, the streak is at it, whatever the counter does,
which a failed trial leaves dirty. `Shielded` is an action property: every way to a
provider asks its breaker or comes from that provider.

### VoiceSessionProofs

`TypeCorrect`, `AudioIsDropped`, `TurnsAreAccounted`, `ClosedIsClosed`,
`ImplementsSteps`. `IInv == TypeOK /\ AudioOnlyWhileListening /\ TurnAccounting /\
CallsOK`; `CallsOK` says which service the turn at hand has still to ask, without
which "at most once per turn" is not kept by the step that asks. The lemmas `Table`
and `Shortcuts` evaluate `_TRANSITIONS` once and for all. `ImplementsSteps` is the
step simulation of `VoiceProtocol`: each action opens, records, answers or closes,
or is nothing to the client.

### ConnectionsProofs

`TypeCorrect`, `SlotsAreAccounted`, `RegistryIsAccounted`. `IInv == TypeOK /\
PathOK /\ SlotsAccounted /\ RegistryAccounted`; `PathOK` says that what was lost is
gone for good, so that no socket counts twice, and which endpoint a stage belongs
to. Cardinalities go by FiniteSetTheorems.

### ConversationProofs

All six invariants, in three layers.

- `TypeCorrect`. The window is the only limit a history has: the lemmas about the
  last `MAX_MESSAGES` of a sequence serve all that follows.
- `SessionsInv` (`SessionsHaveOneOwner`, `QuestionsComeFirst`). What a chat writes back is what it read a while ago, so
  these properties are about the requests as much as about the store: what a
  request holds is in order and of its session (`Proper`), what it has yet to
  append is nowhere, neither stored nor held by another (`Unsaid`), and at each
  stage it has established whose session it is at (`Staged`). Then an append
  breaks no order although it may bring back what another has removed. To this
  `EstrangedInv` (`NothingIsOrphaned`) adds that a request about to write a record
  without an owner was interrupted, or found such a record (`Deprived`).
- `ConversationInv` (`OneByOneLosesNothing`, `OneByOneIsListed`). What a chat holds
  and what the store holds by the time of the write may differ only by messages
  that were removed, that expired, or whose requests overlapped (`Differ`); and
  requests under way together have overlapped (`Together`). With no overlap at all
  what a request holds was not removed, and expired only while it was held (`Alone`),
  and an index outlives the history it lists but for an interrupted one
  (`SerialInv`): the write refreshes both, and rename and reset, which
  refresh neither, refresh no history.

### SecurityProofs

Identity: `OnePerDevice`, `TicketsAdmitOnce`. `IInv == IdentityTypeOK /\ DevicesInv
/\ NamedSessions /\ TicketsGone`. One session per device needs that one login at a
time holds the row of a device (`DeviceMutex`) and that it knows all that is live
there from its read to its commit (`DropsAll`): a session comes to life by a commit
only, and a commit on the same device would need the row. For tickets,
`TicketsGone` says that a presented ticket is not in Redis and is not drawn again,
and that a session that was over when the ticket was taken is never live
afterwards.

`CapIsKept`. The order of births is what the count goes by, so `CapInv` says that a
login past its insert has a place in it (`BornInv`), and that what it will leave of
what it counted is within the cap (`LeavesInv`). At the commit every live session
is one of those or is excused as overlooked.

Rate limiter: `WindowIsBounded`. Calls of the current window are counted in Redis,
in the memory of a process, or in a memory that a restart has wiped. `LimiterInv`
bounds the three apart (`NowInv`), once by restarts and once by failures, since
`Memories` is the smaller. For the latter every process that counts in memory, is
about to, or will until it probes Redis, is one that fell by a failure of its own
(`Fallen`, `FallenInv`); a restart frees the process and leaves the failure behind
to pay for the memory that is gone. A window that has passed keeps its bound
(`PastInv`) because only calls that are late add to it, and one to come is empty
(`FutureInv`).

### ServicesProofs

ChatGPT plan: `CredentialIsSound`. `PlanInv` adds to the types: who compares or
renews holds the lock and the row is what it read (`LockHeld`); a grant not stored
yet is as the provider gave it (`Unused`); what is being revoked was saved and is no
longer stored (`Stored`). So a renewal changes the provider's token and the stored
one together, a revocation by this program never hits the stored grant, and a refused
refresh means that the stored token was not the newest, as an answer was lost, or
that the provider had ended the grant (`EndsStep` is its step, at any moment).

Knowledge: `ChunksCoverTheirText`, for any text, size and overlap. `ChunkText` is a
recursive function, so two things are proved first, both by looking at the last
position of the text for which they would fail (`Greatest`): that there is a
function with this recursion (`LoopIsDefined`), and that from any position on it
returns chunks that cover the rest (`TextIsCovered`). The steps are about the loop
of the code: a chunk is not empty and is cut at a space, at its full length or at
the end of the text (`EndOfChunk`); the next begins after it has begun and not after
it ends (`NextOfChunk`); and a word that a chunk cuts, if the overlap can hold it,
begins at or after the next one (`CutWord`), since it neither has a space in it nor
is as long as a chunk. The proof needs nothing of the overlap but that it is less
than a chunk, which `chunk_text` demands.

The composition: `TypeCorrect`, the type invariant of the run, from
`PartsRunAlone`: a behaviour of the four together is a behaviour of each.

### AssistantProofs

`WritesAreConfirmed`, `RulesAreNotFed`, `KeysRunOnce`, `CircuitsCount`,
`WhatIsToldIsKept`, `TypeCorrect`. The actions of four modules are cut to three
lemmas about how a step may move one caller: it begins or ends outside the calls
(`Outside`), it goes on within one, or it comes back.

- `ConsentInv`: from the moment a call is past its confirmation, its user gave it
  and it is no rule's; then no rule writes, and only writing publishes a trigger.
- `KeyInv`: a key that was used and is not excused is either kept in Redis or with
  exactly one caller between its start and its record, and who waits for the
  semaphore with it has not used it; then a second start is impossible.
- `CircuitInv`: the counter is the streak modulo the threshold, by the lemmas
  `Division`, `Remainder` and `NextRemainder`.
- `ToldInv`: a row that is not deleted is as it was last told, or gone with its date.
  Each transaction of the memory keeps that, keeps every date that lies ahead, and
  makes nothing expire (`Keeps`, `Timeless`); only a tick does, and it marks the
  callers between purge and write. No other call has the key of a chat that
  remembers, so what is found under such a key was made by one.
- `TypeCorrect` is more than types: that the semaphore is never held by more callers than
  it has places, and that its queue holds each waiter once, which a cancelled waiter
  leaves from the middle; and that a plan in hand can be saved
  once more without running past the revisions (`PlanInv`).

### Only model-checked

- Liveness, and refinement under fairness: beyond the prover, as is ENABLED
  (`NewEntriesSettle`, `SessionEnds`, `Drained`, `PrimaryRecovers`, and the fair
  part of the refinement of `VoiceProtocol`; its steps are proved).
- `ClosesThroughTrial`, `ConfirmedIsStored` and the two others that runs refute.

Every invariant of every passing run is a theorem; `AtLeastOnce` as far as nothing
has failed, which is what the run that checks it assumes.

## 8. Not modelled

Components with status `not_modelled` in `PROJECT.json` carry the reason. In
short: learning, vision, monitoring and database administration are single calls
or transactions without a protocol; configuration is read once, and its limits
are the constants of the modules; the frontend is views and a proxy. Of the
modelled ones: the matching of texts to intents, similarity and search order,
ciphers and signatures, passwords and cookies, the wording of answers, and the
audit table, which no decision reads. The short-term memory in Redis is left out
because nothing in the program writes to it. Transactions of the long-term memory
are atomic actions: each is one or two statements on rows of one user.
