---------------------------- MODULE ToolManager ----------------------------
(***************************************************************************)
(* ToolManagerService.execute_tool, as the calls of several callers        *)
(* interleave in one process: confirmation, idempotency key, circuit,      *)
(* semaphore, the handler under its timeout, and the record of the         *)
(* outcome.  Keys live in Redis, circuits and the semaphore in the         *)
(* process.  Callers are made by Planner, Automation and Assistant, which  *)
(* extend this module: a caller has one activity and makes its calls one   *)
(* after the other.                                                        *)
(*                                                                         *)
(* Left out: the outputs of the tools that read, the events of the tool    *)
(* manager itself (nothing acts on them), and other users, who share only  *)
(* the semaphore.                                                          *)
(***************************************************************************)
EXTENDS LongTermMemory, Sequences, SequencesExt

CONSTANTS
  Callers,
  CircuitFailures,   \* tool_circuit_failures
  MaxConcurrency     \* tool_max_concurrency

ASSUME ToolAssumption ==
  /\ IsFiniteSet(Callers)
  /\ CircuitFailures \in Nat \ {0}
  /\ MaxConcurrency \in Nat \ {0}

VARIABLES
  (* Redis and the process *)
  idempotent,      \* keys of which an output is kept
  failures,        \* of each circuit
  open,            \* open_until lies ahead
  waiting,         \* callers queued for the semaphore
  (* the callers *)
  via,             \* who calls: see Assistant
  at,              \* the await a caller is in (see below)
  job,             \* its call
  answer,          \* how its call ended
  bus,             \* trigger events published: <<caller, type, via>>
  (* history *)
  consent,         \* callers whose user confirmed what they do
  started,         \* keys of the calls that reached the handler
  repeated,        \* those that did so more than once
  excused,         \* keys that overlapped, failed, or lost their record
  streak,          \* failures of each tool since its last success
  ticked           \* callers who saw a tick since their purge

toolVars    == <<idempotent, failures, open, waiting>>
callVars    == <<via, at, job, answer>>
toolHistory == <<consent, started, repeated, excused, streak, ticked>>

ToolNames == {"memory.search", "memory.remember", "knowledge.search",
              "knowledge.list_documents", "system.health"}

RequiresConfirmation(t) == t = "memory.remember"

AutomationSafe(t) == t \in ToolNames \ {"memory.remember"}

NoKey  == <<"none">>

\* _idempotency_cache_key: a key stands for a call of one tool.
CacheKey(tool, key) == IF key = NoKey THEN NoKey ELSE <<tool, key>>

NoJob  == [tool |-> "system.health", key |-> NoKey,
           row |-> CHOOSE m \in Row : TRUE, days |-> NoRetention]

(***************************************************************************)
(*   idle   not begun          lookup  GET of the idempotency key          *)
(*   wait   the semaphore      purge   the handler's first transaction     *)
(*   act    the transaction that does the work                             *)
(*   ran    the handler's event                                            *)
(*   record SET of the idempotency key                                     *)
(*   back   the call has ended, its caller goes on                         *)
(*   done   the caller has ended                                           *)
(* Planner and Automation have stages of their own.                        *)
(***************************************************************************)
Managed(c)   == via[c] \in {"api", "chat", "execute", "rules"}
InHandler(c) == at[c] \in {"purge", "act", "ran"} /\ Managed(c)
InCall(c)    == InHandler(c) \/ at[c] \in {"wait", "record"}
FreeSlot     == Cardinality({c \in Callers : InHandler(c)}) < MaxConcurrency
UsesMemory(c) == job[c].tool \in {"memory.search", "memory.remember"}

Goto(c, stage) == at' = [at EXCEPT ![c] = stage]

Return(c, outcome) ==
  /\ Goto(c, "back")
  /\ answer' = [answer EXCEPT ![c] = outcome]

Begin(c, who) ==
  /\ at[c] = "idle"
  /\ via' = [via EXCEPT ![c] = who]

\* Mutant: no key is ever found.
NeverKept(k) == FALSE

Kept(k) == k \in idempotent

(* The caller ends, and its frame with it.                                 *)
End(c) ==
  /\ Goto(c, "done")
  /\ via' = [via EXCEPT ![c] = "nobody"]
  /\ job' = [job EXCEPT ![c] = NoJob]
  /\ answer' = [answer EXCEPT ![c] = "none"]
  /\ consent' = consent \ {c}
  /\ ticked' = ticked \ {c}

Excuse(c) == excused' = excused \union ({job[c].key} \ {NoKey})

(* Another call with the key of c is past its GET and not yet recorded.    *)
Overlaps(c) == \E d \in Callers \ {c} : InCall(d) /\ job[d].key = job[c].key

(* The process as it starts, or after n failures of each tool and with     *)
(* events on the bus.                                                      *)
ToolInit(n, events) ==
  /\ idempotent = {}
  /\ failures = [t \in ToolNames |-> n]
  /\ open = [t \in ToolNames |-> FALSE]
  /\ waiting = <<>>
  /\ via = [c \in Callers |-> "nobody"]
  /\ at = [c \in Callers |-> "idle"]
  /\ job = [c \in Callers |-> NoJob]
  /\ answer = [c \in Callers |-> "none"]
  /\ bus = events
  /\ consent = {}
  /\ started = {}
  /\ repeated = {}
  /\ excused = {}
  /\ streak = [t \in ToolNames |-> n]
  /\ ticked = {}

(* The call begins: an unknown tool and a missing confirmation are refused *)
(* before anything else.                                                   *)
Request(c, tool, key, m, confirmed) ==
  /\ job' = [job EXCEPT ![c] = [tool |-> tool, key |-> CacheKey(tool, key), row |-> m,
                                 days |-> NoRetention]]
  /\ \/ /\ tool \in ToolNames /\ (RequiresConfirmation(tool) => confirmed)
        /\ Goto(c, "lookup") /\ UNCHANGED answer
     \/ tool \notin ToolNames /\ Return(c, "not_found")
     \/ tool \in ToolNames /\ RequiresConfirmation(tool) /\ ~confirmed /\ Return(c, "confirm")

Start(c) ==
  /\ started' = started \union {job[c].key}
  /\ repeated' = repeated \union ({job[c].key} \intersect started)

(* The call takes a slot, or queues.                                       *)
EnterOrWait(c) ==
  IF FreeSlot /\ waiting = <<>>
    THEN /\ Goto(c, "purge")
         /\ Start(c)
         /\ UNCHANGED waiting
    ELSE /\ Goto(c, "wait")
         /\ waiting' = Append(waiting, c)
         /\ UNCHANGED <<started, repeated>>

(* The answer of the GET, or its failure, which counts as a miss; then the *)
(* circuit and the semaphore, without an await in between.                 *)
Lookup(c) ==
  /\ at[c] = "lookup"
  /\ \/ /\ Kept(job[c].key)
        /\ Return(c, "cached")
        /\ UNCHANGED <<waiting, started, repeated, excused>>
     \/ /\ \/ ~Kept(job[c].key) /\ ~Overlaps(c) /\ UNCHANGED excused
           \/ ~Kept(job[c].key) /\ Overlaps(c) /\ Excuse(c)
           \/ job[c].key # NoKey /\ Kept(job[c].key) /\ Excuse(c)
        /\ IF open[job[c].tool]
             THEN Return(c, "circuit_open") /\ UNCHANGED <<waiting, started, repeated>>
             ELSE EnterOrWait(c) /\ UNCHANGED answer
  /\ UNCHANGED <<idempotent, failures, open, via, job, bus, consent, streak, ticked, memoryVars>>

(* A slot is free for the first in the queue.                              *)
Admit(c) ==
  /\ at[c] = "wait"
  /\ Head(waiting) = c /\ FreeSlot
  /\ waiting' = Tail(waiting)
  /\ Goto(c, "purge")
  /\ Start(c)
  /\ UNCHANGED <<idempotent, failures, open, via, job, answer, bus, consent, excused,
                 streak, ticked, memoryVars>>
-----------------------------------------------------------------------------
(***************************************************************************)
(* The handler, and what the callers of the memory alone share with it.    *)
(***************************************************************************)
Purge(c) ==
  /\ at[c] = "purge"
  /\ Goto(c, "act")
  /\ ticked' = ticked \ {c}
  /\ IF UsesMemory(c) THEN PurgeExpired ELSE UNCHANGED memoryVars
  /\ UNCHANGED <<toolVars, via, job, answer, bus, consent, started, repeated, excused, streak>>

(* Remembering commits here; the tools that read change nothing.           *)
Act(c) ==
  /\ at[c] = "act"
  /\ Goto(c, "ran")
  /\ IF job[c].tool = "memory.remember"
       THEN Remember(job[c].row, job[c].days) ELSE UNCHANGED memoryVars
  /\ UNCHANGED <<toolVars, via, job, answer, bus, toolHistory>>

\* Mutant: a search is an event of the memory like any other.
AnyMemoryTriggers(tool) == {"memory.long_term.written"}

(* The handler's event; only that of remember is a trigger of automation.  *)
(* It may be lost.                                                         *)
Triggers(tool) == IF tool = "memory.remember" THEN {"memory.long_term.written"} ELSE {}

Notify(c) ==
  \/ UNCHANGED bus
  \/ Triggers(job[c].tool) # {} /\ bus' = bus \union ({c} \X Triggers(job[c].tool) \X {via[c]})

\* Mutant: a success leaves the failures that went before.
ClearOpenOnly(t) ==
  /\ open' = [open EXCEPT ![t] = FALSE]
  /\ UNCHANGED failures
  /\ streak' = [streak EXCEPT ![t] = 0]

ClearCircuit(t) ==
  /\ failures' = [failures EXCEPT ![t] = 0]
  /\ open' = [open EXCEPT ![t] = FALSE]
  /\ streak' = [streak EXCEPT ![t] = 0]

\* Mutant: the circuit opens one failure late.
CountFailureLate(t) ==
  /\ IF failures[t] + 1 > CircuitFailures
       THEN /\ failures' = [failures EXCEPT ![t] = 0]
            /\ open' = [open EXCEPT ![t] = TRUE]
       ELSE /\ failures' = [failures EXCEPT ![t] = @ + 1]
            /\ UNCHANGED open
  /\ streak' = [streak EXCEPT ![t] = @ + 1]

(* The CircuitFailures-th failure opens the circuit and starts the count   *)
(* again, also while it is open.                                           *)
CountFailure(t) ==
  /\ IF failures[t] + 1 >= CircuitFailures
       THEN /\ failures' = [failures EXCEPT ![t] = 0]
            /\ open' = [open EXCEPT ![t] = TRUE]
       ELSE /\ failures' = [failures EXCEPT ![t] = @ + 1]
            /\ UNCHANGED open
  /\ streak' = [streak EXCEPT ![t] = @ + 1]

Succeed(c) ==
  /\ at[c] = "ran" /\ Managed(c)
  /\ Goto(c, "record")
  /\ Notify(c)
  /\ ClearCircuit(job[c].tool)
  /\ UNCHANGED <<idempotent, waiting, via, job, answer, consent, started, repeated, excused, ticked,
                 memoryVars>>

(* The handler raises, or its timeout does, before or after it has         *)
(* committed.                                                              *)
HandlerFails(c) ==
  /\ InHandler(c)
  /\ Return(c, "failed")
  /\ IF at[c] = "ran" THEN Notify(c) ELSE UNCHANGED bus
  /\ CountFailure(job[c].tool)
  /\ Excuse(c)
  /\ UNCHANGED <<idempotent, waiting, via, job, consent, started, repeated, ticked, memoryVars>>

(* SET NX of the key; its failure is swallowed.                            *)
Record(c) ==
  /\ at[c] = "record"
  /\ Return(c, "ok")
  /\ \/ job[c].key # NoKey /\ idempotent' = idempotent \union {job[c].key} /\ UNCHANGED excused
     \/ UNCHANGED idempotent /\ Excuse(c)
  /\ UNCHANGED <<failures, open, waiting, via, job, bus, consent, started, repeated, streak, ticked,
                 memoryVars>>

(* The caller is cancelled in one of the awaits above: no verdict for the  *)
(* circuit, and the slot is given back.  A SET under way may be done.      *)
Cancel(c) ==
  /\ at[c] = "lookup" \/ InCall(c)
  /\ Return(c, "cancelled")
  /\ \/ at[c] # "wait" /\ UNCHANGED waiting
     \/ at[c] = "wait" /\ \E i \in DOMAIN waiting : waiting[i] = c /\ waiting' = RemoveAt(waiting, i)
  /\ Excuse(c)
  /\ \/ UNCHANGED idempotent
     \/ /\ at[c] = "record" /\ job[c].key # NoKey
        /\ idempotent' = idempotent \union {job[c].key}
  /\ UNCHANGED <<failures, open, via, job, bus, consent, started, repeated,
                 streak, ticked, memoryVars>>

(* The cooldown ends; a key reaches the end of its day.                    *)
CoolDown(t) ==
  /\ open[t]
  /\ open' = [open EXCEPT ![t] = FALSE]
  /\ UNCHANGED <<idempotent, failures, waiting, callVars, bus, toolHistory, memoryVars>>

KeyExpires(k) ==
  /\ k \in idempotent
  /\ idempotent' = idempotent \ {k}
  /\ excused' = excused \union {k}
  /\ UNCHANGED <<failures, open, waiting, callVars, bus, consent, started, repeated, streak, ticked,
                 memoryVars>>

Execute(c) ==
  \/ Lookup(c) \/ Admit(c) \/ Purge(c) \/ Act(c) \/ Succeed(c)
  \/ HandlerFails(c) \/ Record(c) \/ Cancel(c)
-----------------------------------------------------------------------------
Stages == {"idle", "lookup", "wait", "purge", "act", "ran", "record", "back", "done"}
Outcomes == {"none", "ok", "cached", "failed", "not_found", "confirm", "circuit_open",
             "cancelled"}

ToolTypeOK ==
  /\ failures \in [ToolNames -> 0..CircuitFailures - 1]
  /\ open \in [ToolNames -> BOOLEAN]
  /\ waiting \in Seq(Callers)
  /\ \A c \in Callers : at[c] = "wait" <=> c \in ToSet(waiting)
  /\ Cardinality({c \in Callers : InHandler(c)}) <= MaxConcurrency
  /\ answer \in [Callers -> Outcomes]
  /\ repeated \subseteq started

(* A key stands for one execution: when a second call gets as far as the   *)
(* handler, the two overlapped, one of them failed or was cancelled, or    *)
(* the record of the first was lost or had reached its end.                *)
OncePerKey == repeated \subseteq excused \union {NoKey}

(* The circuit counts the failures since the last success, whatever calls  *)
(* overlap: it has opened once per CircuitFailures of them, and is not     *)
(* open without that many.                                                 *)
CircuitCounts ==
  \A t \in ToolNames :
    /\ failures[t] = streak[t] % CircuitFailures
    /\ open[t] => streak[t] >= CircuitFailures
=============================================================================
