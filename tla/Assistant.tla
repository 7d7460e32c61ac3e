------------------------------ MODULE Assistant ------------------------------
(***************************************************************************)
(* The callers of the tool manager together: its route, the chat, which    *)
(* acts on what a message asks for (ReasoningService.resolve_intent and    *)
(* ConversationService._handle_capability), the planner, automation by way *)
(* of the event bus, and beside them the routes of the long-term memory    *)
(* and the capture of conversations.  A caller has one activity.           *)
(*                                                                         *)
(* Every step between two awaits is an action; a caller that waits for the *)
(* memory alone uses the stages "purge" and "act" of the tool manager.     *)
(***************************************************************************)
EXTENDS Planner, Automation

CONSTANTS
  Intents,         \* what messages and plans ask for
  ApiTools,        \* tools the route is asked for, known or not
  MemoryTools,     \* what the routes of the memory are asked for
  ApiKeys,         \* idempotency keys clients choose
  Fold,            \* text.casefold() of a remembered text
  MaxIncidents     \* bound: incidents

AllIntents == {"memory.remember", "memory.search", "knowledge.search", "system.health",
               "planning", "chat"}

ASSUME AssistantAssumption ==
  /\ Intents \subseteq AllIntents
  /\ Contents = DOMAIN Fold /\ Contents # {}
  /\ MemoryTools \subseteq {"memory.remember", "memory.search"}
  /\ CircuitFailures > 1
  /\ MaxIncidents \in Nat

VARIABLES
  incidents        \* what happened beside the callers, counted

vars == <<toolVars, callVars, bus, toolHistory, memoryVars, planVars, ruleVars, incidents>>

(* resolve_intent: the suggested tool, and whether the user asked for it   *)
(* in so many words.                                                       *)
SuggestedTool(i) == IF i \in ToolNames THEN i ELSE NoStep
ExplicitAction(i) == i = "memory.remember"

(* Outside chats one text stands for all.                                  *)
Text == CHOOSE x \in Contents : TRUE

Written == "memory.long_term.written"

(* The system as it starts, or in use: one failure of each tool, an event  *)
(* delivered and perhaps to be delivered again, a plan and rules.          *)
Init ==
  /\ MemoryInit
  /\ \/ ToolInit(0, {}) /\ PlannerInit({}) /\ AutomationInit(NoRule)
     \/ /\ ToolInit(1, {<<"earlier", Written, "memory">>})
        /\ PlannerInit({<<Text, "explicit_tool">>})
        /\ AutomationInit([trigger |-> Written, tool |-> "memory.search"])
  /\ incidents = 0

\* What the beginning of an activity leaves alone.
Starting == UNCHANGED <<toolVars, bus, started, repeated, excused, streak, ticked, memoryVars,
                        planVars, ruleVars>>

Consent(c, yes) == consent' = IF yes THEN consent \union {c} ELSE consent

(* POST /tool-manager/execute.                                             *)
CallTool(c, tool, key, x, confirmed) ==
  /\ Begin(c, "api")
  /\ Consent(c, confirmed)
  /\ Request(c, tool, key, <<x, "explicit_tool">>, confirmed)
  /\ Starting

(* A chat message with the intent i: a plan is made, a tool is called, or  *)
(* the model answers and the message may be captured.  The key is the      *)
(* session, here one, and the casefolded text, so a message names the same *)
(* call for a day.  What fails before it has any effect is not begun.      *)
Chat(c, i, x) ==
  /\ Begin(c, "chat")
  /\ Consent(c, ExplicitAction(i))
  /\ \/ /\ SuggestedTool(i) # NoStep
        /\ Request(c, SuggestedTool(i), <<"chat", i, Fold[x]>>, <<x, "explicit_tool">>,
                   ExplicitAction(i))
        /\ Starting
     \/ /\ i = "planning"
        /\ SavePlan(NoStep, <<x, "explicit_tool">>)
        /\ Goto(c, "respond")
        /\ Apart /\ UNCHANGED <<job, answer, ticked, ruleVars>>
     \/ /\ i = "chat"
        /\ job' = [job EXCEPT ![c] = [NoJob EXCEPT !.tool = "memory.remember",
                                                  !.row = <<x, "conversation">>]]
        /\ Goto(c, "context")
        /\ Starting /\ UNCHANGED answer

(* get_context searches the memory, which purges it; then the model        *)
(* answers, or the chat ends with the fallback reply and no event.         *)
ReadContext(c) ==
  /\ at[c] = "context"
  /\ PurgeExpired
  /\ \/ Goto(c, "policy") /\ UNCHANGED <<via, job, answer, consent, ticked>>
     \/ End(c)
  /\ UNCHANGED <<toolVars, bus, started, repeated, excused, streak, planVars, ruleVars>>

(* maybe_capture_conversation: purge, read the policy, and remember the    *)
(* message with the policy's retention.  A message that is short or looks  *)
(* like a secret is not captured.                                          *)
ReadPolicy(c) ==
  /\ at[c] = "policy"
  /\ PurgeExpired
  /\ \/ /\ autoCapture
        /\ Goto(c, "purge")
        /\ via' = [via EXCEPT ![c] = "capture"]
        /\ job' = [job EXCEPT ![c].days = RetentionDays]
     \/ Goto(c, "respond") /\ UNCHANGED <<via, job>>
  /\ UNCHANGED <<answer, toolVars, bus, toolHistory, planVars, ruleVars>>

(* POST /memory/long-term and GET /memory/search.                          *)
UseMemory(c, tool, x, days) ==
  /\ Begin(c, "memory")
  /\ job' = [job EXCEPT ![c] = [NoJob EXCEPT !.tool = tool, !.row = <<x, "manual">>,
                                            !.days = days]]
  /\ Goto(c, "purge")
  /\ Starting /\ UNCHANGED <<answer, consent>>

(* Their end, with or without success; a capture only ends itself.         *)
MemoryReturns(c) ==
  /\ via[c] \in {"memory", "capture"}
  /\ \/ at[c] = "ran" /\ Notify(c)
     \/ at[c] \in {"purge", "act"} /\ UNCHANGED bus
  /\ \/ via[c] = "memory" /\ End(c)
     \/ via[c] = "capture" /\ Goto(c, "respond") /\ UNCHANGED <<via, job, answer, consent, ticked>>
  /\ UNCHANGED <<toolVars, started, repeated, excused, streak, memoryVars, planVars, ruleVars>>

(* The chat has its reply, whatever became of the call, and says so to the *)
(* bus, which may lose it.                                                 *)
Respond(c) ==
  /\ at[c] = "respond" \/ (at[c] = "back" /\ via[c] = "chat" /\ answer[c] # "cancelled")
  /\ End(c)
  /\ bus' \in {bus, bus \union {<<c, "conversation.message.responded", "chat">>}}
  /\ UNCHANGED <<toolVars, started, repeated, excused, streak, memoryVars, planVars, ruleVars>>

CallEnds(c) ==
  /\ at[c] = "back"
  /\ via[c] = "api" \/ (via[c] = "chat" /\ answer[c] = "cancelled")
  /\ End(c)
  /\ UNCHANGED <<toolVars, bus, started, repeated, excused, streak, memoryVars, planVars, ruleVars>>

(* DELETE of a memory, PATCH of the policy, and time.                      *)
UserActs ==
  /\ \/ \E m \in Row : DeleteMemory(m)
     \/ \E on \in BOOLEAN : SetPolicy(on)
  /\ UNCHANGED <<toolVars, callVars, bus, toolHistory, planVars, ruleVars>>

(* POST /knowledge/documents: here no more than its event, a trigger that  *)
(* no caller above publishes.                                              *)
IngestKnowledge ==
  /\ bus' = bus \union {<<"user", "knowledge.document.ingested", "knowledge">>}
  /\ UNCHANGED <<toolVars, callVars, toolHistory, memoryVars, planVars, ruleVars>>

Tick ==
  /\ MemoryTick
  /\ ticked' = ticked \union {c \in Callers : at[c] \in {"act", "ran"}}
  /\ UNCHANGED <<toolVars, callVars, bus, consent, started, repeated, excused, streak, planVars,
                 ruleVars>>
-----------------------------------------------------------------------------
Activity(c) ==
  \/ \E t \in ApiTools, k \in ({"api"} \X ApiKeys) \union {NoKey}, yes \in BOOLEAN :
       CallTool(c, t, k, Text, yes)
  \/ \E i \in Intents, x \in Contents : Chat(c, i, x)
  \/ \E t \in MemoryTools, days \in {NoRetention, RetentionDays} : UseMemory(c, t, Text, days)
  \/ \E i \in Intents : CreatePlan(c, SuggestedTool(i), <<Text, "explicit_tool">>) /\ UNCHANGED ruleVars
  \/ Replan(c) /\ UNCHANGED ruleVars
  \/ \E yes \in BOOLEAN : ExecutePlan(c, yes) /\ UNCHANGED ruleVars
  \/ \E e \in bus : HandleEvent(c, e) /\ UNCHANGED planVars
  \/ \E type \in TriggerEvents : EvaluateRoute(c, type) /\ UNCHANGED planVars

Continue(c) ==
  \/ Execute(c) /\ UNCHANGED <<planVars, ruleVars>>
  \/ PlannerStep(c) /\ UNCHANGED ruleVars
  \/ (ApplyRule(c) \/ FinishRules(c)) /\ UNCHANGED planVars
  \/ ReadContext(c) \/ ReadPolicy(c) \/ MemoryReturns(c) \/ Respond(c) \/ CallEnds(c)

Incident ==
  \/ \E t \in ToolNames : CoolDown(t) /\ UNCHANGED <<planVars, ruleVars>>
  \/ \E k \in idempotent : KeyExpires(k) /\ UNCHANGED <<planVars, ruleVars>>
  \/ PlanLapses /\ UNCHANGED ruleVars
  \/ \E r \in Rules, e \in TriggerEvents, t \in ToolNames :
       CreateRule(r, e, t) /\ UNCHANGED planVars
  \/ \E r \in Rules, s \in {"enabled", "disabled", "deleted"} :
       SetStatus(r, s) /\ UNCHANGED planVars
  \/ UserActs \/ IngestKnowledge \/ Tick

Next ==
  \/ (\E c \in Callers : Activity(c) \/ Continue(c)) /\ UNCHANGED incidents
  \/ Incident /\ incidents < MaxIncidents /\ incidents' = incidents + 1

Spec == Init /\ [][Next]_vars
-----------------------------------------------------------------------------
(***************************************************************************)
(* Properties.                                                             *)
(***************************************************************************)
AssistantStages == Stages \union {"save", "step", "rules", "context", "policy", "respond"}

TypeOK ==
  /\ at \in [Callers -> AssistantStages]
  /\ MemoryTypeOK /\ ToolTypeOK /\ PlannerTypeOK /\ AutomationTypeOK

(* What needs the user's confirmation runs only for a caller whose user    *)
(* gave it for this very activity: no plan, no rule and no cached answer   *)
(* stands in for it.                                                       *)
ConfirmedWrites ==
  \A c \in Callers :
    InHandler(c) /\ job[c].tool = "memory.remember" => c \in consent /\ via[c] # "rules"

(* Automation does not feed itself: no evaluation of rules puts an event   *)
(* on the bus that triggers rules.                                         *)
NoFeedback == \A e \in bus : e[3] # "rules"

(* For the proofs: a call that needs confirmation has it from its start,   *)
(* and is no rule's.                                                       *)
Acting(c) == Managed(c) /\ at[c] \in {"lookup", "wait", "purge", "act", "ran", "record"}

ConsentInv ==
  /\ DOMAIN at = Callers /\ DOMAIN via = Callers /\ DOMAIN job = Callers
  /\ \A c \in Callers :
       Acting(c) /\ job[c].tool = "memory.remember" => c \in consent /\ via[c] # "rules"
  /\ NoFeedback

(* A key that has been used and is excused by nothing is kept, or with the *)
(* one caller that uses it; who waits with it has not used it.             *)
KeyInv ==
  /\ \A c \in Callers : at[c] \in {"lookup", "wait", "record"} => Managed(c)
  /\ \A c, d \in Callers :
       c # d /\ InCall(c) /\ InCall(d) /\ job[c].key = job[d].key =>
         job[c].key \in excused \union {NoKey}
  /\ \A c \in Callers :
       at[c] = "wait" /\ job[c].key \in started => job[c].key \in excused \union {NoKey}
  /\ \A k \in started :
       \/ k \in excused \union idempotent \union {NoKey}
       \/ \E c \in Callers : InCall(c) /\ at[c] # "wait" /\ job[c].key = k
  /\ OncePerKey

CircuitInv ==
  /\ failures \in [ToolNames -> Nat] /\ streak \in [ToolNames -> Nat]
  /\ DOMAIN open = ToolNames
  /\ CircuitCounts

(* A text that differs from one with this folding in letter case at most   *)
(* has been remembered by a tool.                                          *)
Made(f) == \E x \in Contents : Fold[x] = f /\ told[<<x, "explicit_tool">>] # Absent

(* What a caller was told is remembered can be recalled until the date it  *)
(* was told or the user's deletion.  It is told a date that has passed     *)
(* only if the row expired after its own purge.  A chat that answers "kept *)
(* in memory" from the cache rests on a memory that was made, though       *)
(* perhaps of a text in other letter case, and perhaps deleted since.      *)
ToldIsKept ==
  /\ \A m \in Row : told[m] > clock /\ m \notin deleted => m \in Recalled
  /\ \A c \in Callers :
       at[c] = "ran" /\ job[c].tool = "memory.remember" =>
         told[job[c].row] > clock \/ c \in ticked
  /\ \A c \in Callers :
       via[c] = "chat" /\ job[c].tool = "memory.remember" /\ answer[c] \in {"ok", "cached"} =>
         Made(Fold[job[c].row[1]])

(* For its proof: a row is as it was told, or expired and purged, or       *)
(* deleted; ...                                                            *)
MemoryInv ==
  /\ clock \in 0..MaxClock
  /\ expiry \in [Row -> Int] /\ told \in [Row -> Int]
  /\ \A m \in Row :
       IF m \in deleted THEN expiry[m] = Absent
       ELSE expiry[m] = told[m] \/ (expiry[m] = Absent /\ told[m] <= clock)

ChatKey(x) == CacheKey("memory.remember", <<"chat", "memory.remember", Fold[x]>>)

(* ... while a caller that remembers is between its transactions, nothing  *)
(* expires without a tick; and no other call has the key of such a chat.   *)
CallerInv(c) ==
  /\ job[c].row \in Row /\ job[c].days \in {NoRetention, RetentionDays}
  /\ job[c].tool = "memory.remember" /\ c \notin ticked =>
       /\ at[c] = "act" => \A m \in Row : ~Expired(m)
       /\ at[c] = "ran" => told[job[c].row] > clock
  /\ at[c] = "idle" \/ (via[c] = "chat" /\ at[c] # "back") => answer[c] = "none"
  /\ Acting(c) /\ (\E x \in Contents : job[c].key = ChatKey(x)) =>
       via[c] = "chat" /\ job[c].tool = "memory.remember"
  /\ via[c] = "chat" /\ job[c].tool = "memory.remember" =>
       /\ Acting(c) => job[c].row[2] = "explicit_tool" /\ job[c].key = ChatKey(job[c].row[1])
       /\ at[c] \in {"ran", "record"} => told[job[c].row] # Absent
       /\ answer[c] \in {"ok", "cached"} => Made(Fold[job[c].row[1]])

ToldInv ==
  /\ MemoryInv
  /\ planned \subseteq Row
  /\ DOMAIN answer = Callers
  /\ \A c \in Callers : CallerInv(c)
  /\ \A x \in Contents : ChatKey(x) \in idempotent => Made(Fold[x])

(* For the types: nobody queues twice, plans are as long as they may be,   *)
(* and who is about to save a replan has read a plan that may have one.    *)
QueueInv ==
  /\ waiting \in Seq(Callers)
  /\ \A i, j \in DOMAIN waiting : waiting[i] = waiting[j] => i = j

PlanOK(p) ==
  /\ p.revision \in -1..MaxReplans
  /\ p.steps \in Seq(ToolNames \union {NoStep}) /\ Len(p.steps) <= MaxSteps

PlanInv ==
  /\ PlanOK(plan)
  /\ DOMAIN readPlan = Callers /\ step \in [Callers -> 0..MaxSteps + 1]
  /\ \A c \in Callers :
       /\ PlanOK(readPlan[c])
       /\ at[c] = "save" => readPlan[c].revision < MaxReplans
=============================================================================
