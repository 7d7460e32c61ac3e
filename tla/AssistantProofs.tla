--------------------------- MODULE AssistantProofs ---------------------------
(***************************************************************************)
(* Confirmation and automation, for any callers, rules, contents, keys and *)
(* limits: consent is given where an activity begins, the call is refused  *)
(* without it, and a rule never gets as far as asking.  Then the keys, the *)
(* circuits, the memory, and the types.                                    *)
(***************************************************************************)
EXTENDS Assistant, FiniteSetTheorems, SequenceTheorems, TLAPS

(* No call is under way, and what is on the bus is no rule's.              *)
LEMMA InitInv == Init => ConsentInv
BY DEF Init, ToolInit, ConsentInv, Acting, Managed, NoFeedback, Written

(* A step that moves one caller only and leaves it confirmed.              *)
LEMMA OneCaller ==
  ASSUME ConsentInv, NEW c \in Callers,
         DOMAIN at' = Callers, DOMAIN via' = Callers, DOMAIN job' = Callers,
         \A d \in Callers \ {c} :
           /\ at'[d] = at[d] /\ via'[d] = via[d] /\ job'[d] = job[d]
           /\ d \in consent => d \in consent',
         Acting(c)' /\ job'[c].tool = "memory.remember" => c \in consent' /\ via'[c] # "rules",
         NoFeedback'
  PROVE  ConsentInv'
<1>1. ASSUME NEW d \in Callers, Acting(d)', job'[d].tool = "memory.remember"
      PROVE  d \in consent' /\ via'[d] # "rules"
  <2>1. CASE d = c
    BY <1>1, <2>1
  <2>2. CASE d # c
    BY <1>1, <2>2 DEF ConsentInv, Acting, Managed
  <2>3. QED
    BY <2>1, <2>2
<1>2. QED
  BY <1>1 DEF ConsentInv

(* A call that is refused or begins, for an activity that is consented to  *)
(* where its tool needs it.                                                *)
LEMMA Requested ==
  ASSUME ConsentInv, NEW c \in Callers, NEW tool, NEW key, NEW m, NEW confirmed \in BOOLEAN,
         Request(c, tool, key, m, confirmed),
         DOMAIN via' = Callers,
         \A d \in Callers \ {c} : via'[d] = via[d] /\ (d \in consent => d \in consent'),
         tool = "memory.remember" /\ confirmed => c \in consent' /\ via'[c] # "rules",
         bus' = bus
  PROVE  ConsentInv'
<1>1. /\ job' = [job EXCEPT ![c] = [tool |-> tool, key |-> CacheKey(tool, key), row |-> m,
                                     days |-> NoRetention]]
      /\ \/ at' = [at EXCEPT ![c] = "back"]
         \/ at' = [at EXCEPT ![c] = "lookup"] /\ (tool = "memory.remember" => confirmed)
  BY DEF Request, Goto, Return, RequiresConfirmation
<1>2. /\ DOMAIN at' = Callers /\ DOMAIN job' = Callers
      /\ \A d \in Callers \ {c} : at'[d] = at[d] /\ job'[d] = job[d]
      /\ job'[c].tool = tool /\ (at'[c] = "back" \/ at'[c] = "lookup")
      /\ at'[c] = "lookup" /\ tool = "memory.remember" => confirmed
  BY <1>1 DEF ConsentInv
<1>3. NoFeedback'
  BY DEF ConsentInv, NoFeedback
<1>4. QED
  BY <1>2, <1>3, OneCaller DEF Acting

(* An activity ends.                                                       *)
LEMMA Ended ==
  ASSUME ConsentInv, NEW c \in Callers, End(c),
         \A e \in bus' : e \in bus \/ e[3] # "rules"
  PROVE  ConsentInv'
<1>1. /\ at' = [at EXCEPT ![c] = "done"] /\ via' = [via EXCEPT ![c] = "nobody"]
      /\ job' = [job EXCEPT ![c] = NoJob] /\ consent' = consent \ {c}
  BY DEF End, Goto
<1>2. /\ DOMAIN at' = Callers /\ DOMAIN via' = Callers /\ DOMAIN job' = Callers
      /\ \A d \in Callers \ {c} :
           /\ at'[d] = at[d] /\ via'[d] = via[d] /\ job'[d] = job[d]
           /\ d \in consent => d \in consent'
      /\ at'[c] = "done"
  BY <1>1 DEF ConsentInv
<1>3. NoFeedback'
  BY DEF ConsentInv, NoFeedback
<1>4. QED
  BY <1>2, <1>3, OneCaller DEF Acting

(* A caller goes on to a stage outside the calls, or outside the tools.    *)
LEMMA Moved ==
  ASSUME ConsentInv, NEW c \in Callers, NEW stage, NEW who,
         at' = [at EXCEPT ![c] = stage],
         via' = [via EXCEPT ![c] = who] \/ UNCHANGED via,
         DOMAIN job' = Callers, \A d \in Callers \ {c} : job'[d] = job[d],
         \/ stage \in {"save", "step", "rules", "context", "policy", "respond", "back"}
         \/ who \in {"memory", "capture"} /\ via'[c] = who,
         consent \subseteq consent', bus' = bus
  PROVE  ConsentInv'
<1>1. /\ DOMAIN at' = Callers /\ DOMAIN via' = Callers
      /\ \A d \in Callers \ {c} : at'[d] = at[d] /\ via'[d] = via[d]
      /\ at'[c] = stage
  BY DEF ConsentInv
<1>2. ~ Acting(c)'
  BY <1>1 DEF Acting, Managed
<1>3. NoFeedback'
  BY DEF ConsentInv, NoFeedback
<1>4. QED
  BY <1>1, <1>2, <1>3, OneCaller

-----------------------------------------------------------------------------
(* The beginning of each activity.                                         *)
LEMMA ActivityStep ==
  ASSUME ConsentInv, NEW c \in Callers, Activity(c)
  PROVE  ConsentInv'
<1>1. ASSUME NEW t \in ApiTools, NEW k, NEW yes \in BOOLEAN, CallTool(c, t, k, Text, yes)
      PROVE  ConsentInv'
  <2>1. /\ via' = [via EXCEPT ![c] = "api"]
        /\ consent' = IF yes THEN consent \union {c} ELSE consent
        /\ Request(c, t, k, <<Text, "explicit_tool">>, yes)
        /\ bus' = bus
    BY <1>1 DEF CallTool, Begin, Consent, Starting
  <2>2. /\ DOMAIN via' = Callers /\ via'[c] # "rules"
        /\ \A d \in Callers \ {c} : via'[d] = via[d] /\ (d \in consent => d \in consent')
        /\ yes => c \in consent'
    BY <2>1 DEF ConsentInv
  <2>3. QED
    BY <2>1, <2>2, Requested
<1>2. ASSUME NEW i \in Intents, NEW x \in Contents, Chat(c, i, x)
      PROVE  ConsentInv'
  <2>1. /\ via' = [via EXCEPT ![c] = "chat"] /\ consent \subseteq consent'
        /\ ExplicitAction(i) => c \in consent'
        /\ bus' = bus
    BY <1>2 DEF Chat, Begin, Consent, Starting, Apart
  <2>2. CASE Request(c, SuggestedTool(i), <<"chat", i, Fold[x]>>, <<x, "explicit_tool">>,
                     ExplicitAction(i))
    <3>1. /\ DOMAIN via' = Callers /\ via'[c] # "rules"
          /\ \A d \in Callers \ {c} : via'[d] = via[d] /\ (d \in consent => d \in consent')
      BY <2>1 DEF ConsentInv
    <3>2. ExplicitAction(i) \in BOOLEAN
      BY DEF ExplicitAction
    <3>3. QED
      BY <2>1, <2>2, <3>1, <3>2, Requested
  <2>3. CASE Goto(c, "respond") /\ UNCHANGED job
    BY <2>1, <2>3, Moved DEF Goto, ConsentInv
  <2>4. CASE /\ Goto(c, "context")
             /\ job' = [job EXCEPT ![c] = [NoJob EXCEPT !.tool = "memory.remember",
                                                       !.row = <<x, "conversation">>]]
    <3>1. DOMAIN job' = Callers /\ \A d \in Callers \ {c} : job'[d] = job[d]
      BY <2>4 DEF ConsentInv
    <3>2. QED
      BY <2>1, <2>4, <3>1, Moved DEF Goto
  <2>5. QED
    BY <1>2, <2>2, <2>3, <2>4 DEF Chat
<1>3. ASSUME NEW t \in MemoryTools, NEW days, UseMemory(c, t, Text, days)
      PROVE  ConsentInv'
  <2>1. /\ via' = [via EXCEPT ![c] = "memory"] /\ at' = [at EXCEPT ![c] = "purge"]
        /\ UNCHANGED <<consent, bus>>
    BY <1>3 DEF UseMemory, Begin, Goto, Starting
  <2>2. /\ DOMAIN job' = Callers /\ \A d \in Callers \ {c} : job'[d] = job[d]
        /\ via'[c] = "memory"
    BY <1>3, <2>1 DEF UseMemory, ConsentInv
  <2>3. QED
    BY <2>1, <2>2, Moved
<1>4. ASSUME NEW i \in Intents, CreatePlan(c, SuggestedTool(i), <<Text, "explicit_tool">>)
      PROVE  ConsentInv'
  BY <1>4, Ended DEF CreatePlan, Apart
<1>5. CASE Replan(c)
  BY <1>5, Moved DEF Replan, ReadPlan, Begin, Goto, Apart, ConsentInv
<1>6. ASSUME NEW yes \in BOOLEAN, ExecutePlan(c, yes) PROVE ConsentInv'
  BY <1>6, Moved DEF ExecutePlan, ReadPlan, Begin, Goto, Apart, ConsentInv
<1>7. ASSUME NEW type, NEW e, Evaluate(c, type, e) PROVE ConsentInv'
  BY <1>7, Moved DEF Evaluate, Begin, Goto, Aside, toolHistory, ConsentInv
<1>8. QED
  BY <1>1, <1>2, <1>3, <1>4, <1>5, <1>6, <1>7 DEF Activity, HandleEvent, EvaluateRoute

-----------------------------------------------------------------------------
(* The events of the memory carry who asked for it.                        *)
LEMMA Notified ==
  ASSUME ConsentInv, NEW c \in Callers, Notify(c),
         job[c].tool = "memory.remember" => via[c] # "rules"
  PROVE  NoFeedback'
<1>1. CASE UNCHANGED bus
  BY <1>1 DEF ConsentInv, NoFeedback
<1>2. CASE Triggers(job[c].tool) # {} /\ bus' = bus \union ({c} \X Triggers(job[c].tool) \X {via[c]})
  <2>1. job[c].tool = "memory.remember"
    BY <1>2 DEF Triggers
  <2>2. \A e \in {c} \X Triggers(job[c].tool) \X {via[c]} : e[3] = via[c]
    OBVIOUS
  <2>3. QED
    BY <1>2, <2>1, <2>2 DEF ConsentInv, NoFeedback
<1>3. QED
  BY <1>1, <1>2 DEF Notify

(* A call goes on within its tool, or is back.                             *)
LEMMA WithinCall ==
  ASSUME ConsentInv, NEW c \in Callers, NEW stage,
         at' = [at EXCEPT ![c] = stage], UNCHANGED <<via, job>>, consent \subseteq consent',
         Managed(c) => Acting(c) \/ stage = "back",
         NoFeedback'
  PROVE  ConsentInv'
<1>1. /\ DOMAIN at' = Callers /\ at'[c] = stage
      /\ \A d \in Callers \ {c} : at'[d] = at[d]
  BY DEF ConsentInv
<1>2. Acting(c)' /\ job'[c].tool = "memory.remember" => c \in consent' /\ via'[c] # "rules"
  BY <1>1 DEF ConsentInv, Acting, Managed
<1>3. QED
  BY <1>1, <1>2, OneCaller DEF ConsentInv

LEMMA ExecuteStepInv ==
  ASSUME ConsentInv, NEW c \in Callers, Execute(c)
  PROVE  ConsentInv'
<1>. DEFINE Quiet == UNCHANGED <<via, job, consent, bus>>
<1>1. ASSUME Quiet PROVE NoFeedback' /\ UNCHANGED <<via, job>> /\ consent \subseteq consent'
  BY <1>1 DEF ConsentInv, NoFeedback
<1>2. CASE Lookup(c)
  <2>1. Quiet /\ at[c] = "lookup"
    BY <1>2 DEF Lookup
  <2>2. PICK stage \in {"back", "purge", "wait"} : at' = [at EXCEPT ![c] = stage]
    BY <1>2 DEF Lookup, Return, EnterOrWait, Goto
  <2>3. QED
    BY <1>1, <2>1, <2>2, WithinCall DEF Acting
<1>3. CASE Admit(c)
  <2>1. Quiet /\ at[c] = "wait" /\ at' = [at EXCEPT ![c] = "purge"]
    BY <1>3 DEF Admit, Goto
  <2>2. QED
    BY <1>1, <2>1, WithinCall DEF Acting
<1>4. CASE Purge(c)
  <2>1. Quiet /\ at[c] = "purge" /\ at' = [at EXCEPT ![c] = "act"]
    BY <1>4 DEF Purge, Goto
  <2>2. QED
    BY <1>1, <2>1, WithinCall DEF Acting
<1>5. CASE Act(c)
  <2>1. Quiet /\ at[c] = "act" /\ at' = [at EXCEPT ![c] = "ran"]
    BY <1>5 DEF Act, Goto, toolHistory
  <2>2. QED
    BY <1>1, <2>1, WithinCall DEF Acting
<1>6. CASE Succeed(c)
  <2>1. /\ at[c] = "ran" /\ Managed(c) /\ Notify(c)
        /\ at' = [at EXCEPT ![c] = "record"] /\ UNCHANGED <<via, job, consent>>
    BY <1>6 DEF Succeed, Goto
  <2>2. NoFeedback'
    BY <2>1, Notified DEF ConsentInv, Acting
  <2>3. QED
    BY <2>1, <2>2, WithinCall DEF Acting
<1>7. CASE HandlerFails(c)
  <2>1. /\ InHandler(c) /\ (IF at[c] = "ran" THEN Notify(c) ELSE UNCHANGED bus)
        /\ at' = [at EXCEPT ![c] = "back"] /\ UNCHANGED <<via, job, consent>>
    BY <1>7 DEF HandlerFails, Return, Goto
  <2>2. NoFeedback'
    <3>1. CASE at[c] = "ran"
      BY <2>1, <3>1, Notified DEF ConsentInv, Acting, InHandler
    <3>2. CASE at[c] # "ran"
      BY <2>1, <3>2 DEF ConsentInv, NoFeedback
    <3>3. QED
      BY <3>1, <3>2
  <2>3. QED
    BY <2>1, <2>2, WithinCall
<1>8. CASE Record(c) \/ Cancel(c)
  <2>1. Quiet /\ at' = [at EXCEPT ![c] = "back"]
    BY <1>8 DEF Record, Cancel, Return, Goto
  <2>2. QED
    BY <1>1, <2>1, WithinCall
<1>9. QED
  BY <1>2, <1>3, <1>4, <1>5, <1>6, <1>7, <1>8 DEF Execute

(* The other steps of an activity.                                         *)
LEMMA ContinueStep ==
  ASSUME ConsentInv, NEW c \in Callers, Continue(c)
  PROVE  ConsentInv'
<1>1. CASE Execute(c)
  BY <1>1, ExecuteStepInv
<1>2. CASE SaveReplan(c) \/ FinishPlan(c)
  BY <1>2, Ended DEF SaveReplan, FinishPlan, EndPlan, Apart
<1>3. CASE ExecuteStep(c)
  <2>1. /\ via[c] = "execute" /\ UNCHANGED <<via, consent, bus>>
        /\ \E tool, key, m : Request(c, tool, key, m, Confirmed(c))
    BY <1>3 DEF ExecuteStep, Apart
  <2>2. Confirmed(c) \in BOOLEAN /\ (Confirmed(c) => c \in consent')
    BY <2>1 DEF Confirmed
  <2>3. QED
    BY <2>1, <2>2, Requested DEF ConsentInv
<1>4. CASE ApplyRule(c)
  <2>1. via[c] = "rules" /\ UNCHANGED <<via, consent, bus>>
    BY <1>4 DEF ApplyRule, Aside, toolHistory
  <2>2. CASE Goto(c, "rules") /\ UNCHANGED job
    BY <2>1, <2>2, Moved DEF Goto, ConsentInv
  <2>3. ASSUME NEW r, Unattended(rule[r].tool),
               Request(c, rule[r].tool, <<"rule", r, event[c]>>, NoJob.row, FALSE)
        PROVE  ConsentInv'
    BY <2>1, <2>3, Requested DEF ConsentInv
  <2>4. QED
    BY <1>4, <2>2, <2>3 DEF ApplyRule
<1>5. CASE FinishRules(c) \/ CallEnds(c)
  BY <1>5, Ended DEF FinishRules, CallEnds
<1>6. CASE ReadContext(c)
  <2>1. CASE Goto(c, "policy") /\ UNCHANGED <<via, job, consent>>
    BY <1>6, <2>1, Moved DEF ReadContext, Goto, ConsentInv
  <2>2. CASE End(c)
    BY <1>6, <2>2, Ended DEF ReadContext
  <2>3. QED
    BY <1>6, <2>1, <2>2 DEF ReadContext
<1>7. CASE ReadPolicy(c)
  <2>1. UNCHANGED <<consent, bus>>
    BY <1>7 DEF ReadPolicy, toolHistory
  <2>2. CASE /\ Goto(c, "purge") /\ via' = [via EXCEPT ![c] = "capture"]
             /\ job' = [job EXCEPT ![c].days = RetentionDays]
    <3>1. /\ DOMAIN job' = Callers /\ \A d \in Callers \ {c} : job'[d] = job[d]
          /\ via'[c] = "capture"
      BY <2>2 DEF ConsentInv
    <3>2. QED
      BY <2>1, <2>2, <3>1, Moved DEF Goto
  <2>3. CASE Goto(c, "respond") /\ UNCHANGED <<via, job>>
    BY <2>1, <2>3, Moved DEF Goto, ConsentInv
  <2>4. QED
    BY <1>7, <2>2, <2>3 DEF ReadPolicy
<1>8. CASE MemoryReturns(c)
  <2>1. via[c] \in {"memory", "capture"} /\ (Notify(c) \/ UNCHANGED bus)
    BY <1>8 DEF MemoryReturns
  <2>2. NoFeedback'
    BY <2>1, Notified DEF ConsentInv, NoFeedback
  <2>3. CASE End(c)
    <3>1. \A e \in bus' : e \in bus \/ e[3] # "rules"
      BY <2>2 DEF NoFeedback
    <3>2. QED
      BY <2>3, <3>1, Ended
  <2>4. CASE Goto(c, "respond") /\ UNCHANGED <<via, job, consent>>
    BY <2>1, <2>2, <2>4, WithinCall DEF Goto, Managed
  <2>5. QED
    BY <1>8, <2>3, <2>4 DEF MemoryReturns
<1>9. CASE Respond(c)
  <2>1. \A e \in bus' : e \in bus \/ e[3] # "rules"
    BY <1>9 DEF Respond
  <2>2. QED
    BY <1>9, <2>1, Ended DEF Respond
<1>10. QED
  BY <1>1, <1>2, <1>3, <1>4, <1>5, <1>6, <1>7, <1>8, <1>9 DEF Continue, PlannerStep

(* What happens beside the callers moves none of them.                     *)
LEMMA IncidentStep == ASSUME ConsentInv, Incident PROVE ConsentInv'
<1>1. UNCHANGED <<at, via, job, consent>>
  BY DEF Incident, CoolDown, KeyExpires, PlanLapses, CreateRule, SetStatus, UserActs,
     IngestKnowledge, Tick, Apart, Aside, callVars, toolHistory
<1>2. NoFeedback'
  <2>1. CASE IngestKnowledge
    BY <2>1 DEF IngestKnowledge, ConsentInv, NoFeedback
  <2>2. CASE UNCHANGED bus
    BY <2>2 DEF ConsentInv, NoFeedback
  <2>3. QED
    BY <2>1, <2>2 DEF Incident, CoolDown, KeyExpires, PlanLapses, CreateRule, SetStatus,
       UserActs, Tick, Apart, Aside
<1>3. QED
  BY <1>1, <1>2 DEF ConsentInv, Acting, Managed

-----------------------------------------------------------------------------
(* Every step of a caller moves that caller alone.                         *)
Alone(c) ==
  /\ DOMAIN at' = Callers /\ DOMAIN via' = Callers /\ DOMAIN job' = Callers
  /\ \A d \in Callers \ {c} : at'[d] = at[d] /\ via'[d] = via[d] /\ job'[d] = job[d]

LEMMA Requesting ==
  ASSUME ConsentInv, NEW c \in Callers, NEW tool, NEW key, NEW m, NEW yes,
         Request(c, tool, key, m, yes)
  PROVE  /\ DOMAIN at' = Callers /\ DOMAIN job' = Callers
         /\ \A d \in Callers \ {c} : at'[d] = at[d] /\ job'[d] = job[d]
         /\ at'[c] \in {"lookup", "back"}
BY DEF ConsentInv, Request, Goto, Return

(* Outside the calls: a step that begins or ends an activity, or prepares  *)
(* a call.                                                                 *)
Outside(c) ==
  /\ Alone(c)
  /\ ~InCall(c) /\ ~InCall(c)'
  /\ at'[c] \in {"lookup", "wait", "record"} => Managed(c)'
  /\ UNCHANGED <<started, repeated, excused, idempotent>>

LEMMA ActivityOutside ==
  ASSUME ConsentInv, NEW c \in Callers, Activity(c)
  PROVE  Outside(c)
<1>. USE DEF Outside, Alone, ConsentInv, InCall, InHandler, Managed, toolVars
<1>1. ASSUME NEW t \in ApiTools, NEW k, NEW yes \in BOOLEAN, CallTool(c, t, k, Text, yes)
      PROVE  Outside(c)
  <2>1. /\ at[c] = "idle" /\ via' = [via EXCEPT ![c] = "api"]
        /\ Request(c, t, k, <<Text, "explicit_tool">>, yes)
        /\ UNCHANGED <<started, repeated, excused, idempotent>>
    BY <1>1 DEF CallTool, Begin, Starting
  <2>2. QED
    BY <2>1, Requesting
<1>2. ASSUME NEW i \in Intents, NEW x \in Contents, Chat(c, i, x)
      PROVE  Outside(c)
  <2>1. /\ at[c] = "idle" /\ via' = [via EXCEPT ![c] = "chat"]
        /\ UNCHANGED <<started, repeated, excused, idempotent>>
    BY <1>2 DEF Chat, Begin, Starting, Apart
  <2>2. CASE Request(c, SuggestedTool(i), <<"chat", i, Fold[x]>>, <<x, "explicit_tool">>,
                     ExplicitAction(i))
    BY <2>1, <2>2, Requesting
  <2>3. CASE Goto(c, "respond") /\ UNCHANGED job
    BY <2>1, <2>3 DEF Goto
  <2>4. CASE /\ Goto(c, "context")
             /\ job' = [job EXCEPT ![c] = [NoJob EXCEPT !.tool = "memory.remember",
                                                       !.row = <<x, "conversation">>]]
    BY <2>1, <2>4 DEF Goto
  <2>5. QED
    BY <1>2, <2>2, <2>3, <2>4 DEF Chat
<1>3. ASSUME NEW t \in MemoryTools, NEW days, UseMemory(c, t, Text, days)
      PROVE  Outside(c)
  BY <1>3 DEF UseMemory, Begin, Goto, Starting
<1>4. ASSUME NEW i \in Intents, CreatePlan(c, SuggestedTool(i), <<Text, "explicit_tool">>)
      PROVE  Outside(c)
  BY <1>4 DEF CreatePlan, End, Goto, Apart
<1>5. CASE Replan(c)
  BY <1>5 DEF Replan, ReadPlan, Begin, Goto, Apart
<1>6. ASSUME NEW yes \in BOOLEAN, ExecutePlan(c, yes) PROVE Outside(c)
  BY <1>6 DEF ExecutePlan, ReadPlan, Begin, Goto, Apart
<1>7. ASSUME NEW type, NEW e, Evaluate(c, type, e) PROVE Outside(c)
  BY <1>7 DEF Evaluate, Begin, Goto, Aside, toolHistory
<1>8. QED
  BY <1>1, <1>2, <1>3, <1>4, <1>5, <1>6, <1>7 DEF Activity, HandleEvent, EvaluateRoute

LEMMA ContinueOutside ==
  ASSUME ConsentInv, NEW c \in Callers, Continue(c), ~Execute(c)
  PROVE  Outside(c)
<1>. USE DEF Outside, Alone, ConsentInv, InCall, InHandler, Managed, toolVars
<1>1. CASE SaveReplan(c) \/ FinishPlan(c)
  BY <1>1 DEF SaveReplan, FinishPlan, EndPlan, End, Goto, Apart
<1>2. CASE ExecuteStep(c)
  <2>1. /\ via[c] = "execute" /\ at[c] \in {"step", "back"}
        /\ UNCHANGED <<via, started, repeated, excused, idempotent>>
        /\ \E tool, key, m : Request(c, tool, key, m, Confirmed(c))
    BY <1>2 DEF ExecuteStep, Apart
  <2>2. QED
    BY <2>1, Requesting
<1>3. CASE ApplyRule(c)
  <2>1. /\ via[c] = "rules" /\ at[c] \in {"rules", "back"}
        /\ UNCHANGED <<via, started, repeated, excused, idempotent>>
    BY <1>3 DEF ApplyRule, Aside, toolHistory
  <2>2. CASE Goto(c, "rules") /\ UNCHANGED job
    BY <2>1, <2>2 DEF Goto
  <2>3. ASSUME NEW r, Request(c, rule[r].tool, <<"rule", r, event[c]>>, NoJob.row, FALSE)
        PROVE  Outside(c)
    BY <2>1, <2>3, Requesting
  <2>4. QED
    BY <1>3, <2>2, <2>3 DEF ApplyRule
<1>4. CASE FinishRules(c) \/ CallEnds(c) \/ Respond(c)
  BY <1>4 DEF FinishRules, CallEnds, Respond, End, Goto
<1>5. CASE ReadContext(c)
  BY <1>5 DEF ReadContext, End, Goto
<1>6. CASE ReadPolicy(c)
  BY <1>6 DEF ReadPolicy, Goto, toolHistory
<1>7. CASE MemoryReturns(c)
  BY <1>7 DEF MemoryReturns, End, Goto
<1>8. QED
  BY <1>1, <1>2, <1>3, <1>4, <1>5, <1>6, <1>7 DEF Continue, PlannerStep

-----------------------------------------------------------------------------
(* A step by which no call gets to the handler: a call that goes on keeps  *)
(* its key, one that is over leaves it kept or excused.                    *)
LEMMA KeyKept ==
  ASSUME KeyInv, NEW c \in Callers, Alone(c),
         UNCHANGED <<started, repeated>>, excused \subseteq excused',
         idempotent \subseteq idempotent' \union excused',
         at'[c] \in {"lookup", "wait", "record"} => Managed(c)',
         InCall(c)' => /\ InCall(c) /\ at[c] # "wait" /\ at'[c] # "wait"
                       /\ job'[c].key = job[c].key,
         InCall(c) /\ at[c] # "wait" /\ ~InCall(c)' =>
           job[c].key \in excused' \union idempotent' \union {NoKey},
         at'[c] # "wait"
  PROVE  KeyInv'
<1>1. \A d \in Callers \ {c} : InCall(d)' <=> InCall(d)
  BY DEF Alone, InCall, InHandler, Managed
<1>2. \A d \in Callers : at'[d] \in {"lookup", "wait", "record"} => Managed(d)'
  BY DEF KeyInv, Alone, Managed
<1>3. \A d, e \in Callers :
        d # e /\ InCall(d)' /\ InCall(e)' /\ job'[d].key = job'[e].key =>
          job'[d].key \in excused' \union {NoKey}
  BY <1>1 DEF KeyInv, Alone
<1>4. \A d \in Callers :
        at'[d] = "wait" /\ job'[d].key \in started' => job'[d].key \in excused' \union {NoKey}
  BY DEF KeyInv, Alone
<1>5. ASSUME NEW k \in started', k \notin excused' \union idempotent' \union {NoKey}
      PROVE  \E d \in Callers : InCall(d)' /\ at'[d] # "wait" /\ job'[d].key = k
  <2>1. PICK d \in Callers : InCall(d) /\ at[d] # "wait" /\ job[d].key = k
    BY <1>5 DEF KeyInv
  <2>2. CASE d = c
    BY <1>5, <2>1, <2>2
  <2>3. CASE d # c
    BY <1>1, <2>1, <2>3 DEF Alone
  <2>4. QED
    BY <2>2, <2>3
<1>6. OncePerKey'
  BY DEF KeyInv, OncePerKey
<1>7. QED
  BY <1>2, <1>3, <1>4, <1>5, <1>6 DEF KeyInv

(* A call takes its place: it queues, or reaches the handler, and then its *)
(* key has been used before only if it is excused.                         *)
LEMMA KeyEntered ==
  ASSUME KeyInv, NEW c \in Callers, Alone(c), Managed(c)',
         at[c] = "lookup" \/ at[c] = "wait",
         \/ at'[c] = "purge" /\ Start(c)
         \/ at'[c] = "wait" /\ UNCHANGED <<started, repeated>>,
         UNCHANGED <<idempotent, job>>, excused \subseteq excused',
         job[c].key \in started => job[c].key \in excused' \union {NoKey},
         \A d \in Callers \ {c} :
           InCall(d) /\ job[d].key = job[c].key => job[c].key \in excused' \union {NoKey}
  PROVE  KeyInv'
<1>1. \A d \in Callers \ {c} : InCall(d)' <=> InCall(d)
  BY DEF Alone, InCall, InHandler, Managed
<1>2. \A d \in Callers : at'[d] \in {"lookup", "wait", "record"} => Managed(d)'
  BY DEF KeyInv, Alone, Managed
<1>3. \A d, e \in Callers :
        d # e /\ InCall(d)' /\ InCall(e)' /\ job'[d].key = job'[e].key =>
          job'[d].key \in excused' \union {NoKey}
  BY <1>1 DEF KeyInv
<1>4. ASSUME NEW d \in Callers, at'[d] = "wait", job'[d].key \in started'
      PROVE  job'[d].key \in excused' \union {NoKey}
  <2>1. CASE d = c
    BY <1>4, <2>1
  <2>2. CASE d # c
    <3>1. at[d] = "wait" /\ InCall(d)
      BY <1>4, <2>2 DEF Alone, InCall
    <3>2. job[d].key \in started \/ job[d].key = job[c].key
      BY <1>4 DEF Start
    <3>3. QED
      BY <2>2, <3>1, <3>2 DEF KeyInv
  <2>3. QED
    BY <2>1, <2>2
<1>5. ASSUME NEW k \in started', k \notin excused' \union idempotent' \union {NoKey}
      PROVE  \E d \in Callers : InCall(d)' /\ at'[d] # "wait" /\ job'[d].key = k
  <2>1. CASE k \in started
    <3>1. PICK d \in Callers : InCall(d) /\ at[d] # "wait" /\ job[d].key = k
      BY <1>5, <2>1 DEF KeyInv
    <3>2. d # c
      BY <3>1 DEF InCall, InHandler
    <3>3. QED
      BY <1>1, <3>1, <3>2 DEF Alone
  <2>2. CASE k \notin started
    <3>1. k = job[c].key /\ at'[c] = "purge"
      BY <2>2 DEF Start
    <3>2. InCall(c)'
      BY <3>1 DEF InCall, InHandler
    <3>3. QED
      BY <3>1, <3>2
  <2>3. QED
    BY <2>1, <2>2
<1>6. OncePerKey'
  BY DEF KeyInv, OncePerKey, Start
<1>7. QED
  BY <1>2, <1>3, <1>4, <1>5, <1>6 DEF KeyInv

LEMMA KeyLookup ==
  ASSUME ConsentInv, KeyInv, NEW c \in Callers, Lookup(c)
  PROVE  KeyInv'
<1>1. at[c] = "lookup" /\ Managed(c) /\ ~InCall(c) /\ UNCHANGED <<idempotent, via, job>>
  BY DEF Lookup, KeyInv, InCall, InHandler
<1>2. PICK stage \in {"back", "purge", "wait"} :
        /\ at' = [at EXCEPT ![c] = stage]
        /\ \/ stage = "purge" /\ Start(c)
           \/ stage = "wait" /\ UNCHANGED <<started, repeated>>
           \/ stage = "back" /\ UNCHANGED <<started, repeated>>
  BY DEF Lookup, Return, EnterOrWait, Goto, Kept, Excuse
<1>3. Alone(c) /\ at'[c] = stage /\ Managed(c)'
  BY <1>1, <1>2 DEF Alone, ConsentInv, Managed
<1>4. excused \subseteq excused'
  BY DEF Lookup, Excuse
<1>5. CASE stage = "back"
  <2>1. ~InCall(c)'
    BY <1>3, <1>5 DEF InCall, InHandler
  <2>2. QED
    BY <1>1, <1>2, <1>3, <1>4, <1>5, <2>1, KeyKept
<1>6. CASE stage # "back"
  <2>1. \/ ~Kept(job[c].key) /\ ~Overlaps(c)
        \/ excused' = excused \union ({job[c].key} \ {NoKey})
    BY <1>2, <1>3, <1>6 DEF Lookup, Return, Goto, Excuse
  <2>2. job[c].key \in started => job[c].key \in excused' \union {NoKey}
    BY <1>1, <1>4, <2>1 DEF KeyInv, Kept, Overlaps
  <2>3. \A d \in Callers \ {c} :
          InCall(d) /\ job[d].key = job[c].key => job[c].key \in excused' \union {NoKey}
    BY <2>1 DEF Overlaps
  <2>4. QED
    BY <1>1, <1>2, <1>3, <1>4, <1>6, <2>2, <2>3, KeyEntered
<1>7. QED
  BY <1>5, <1>6

LEMMA KeyAdmit ==
  ASSUME ConsentInv, KeyInv, NEW c \in Callers, Admit(c)
  PROVE  KeyInv'
<1>1. /\ at[c] = "wait" /\ at' = [at EXCEPT ![c] = "purge"] /\ Start(c)
      /\ UNCHANGED <<idempotent, via, job, excused>>
  BY DEF Admit, Goto
<1>2. Alone(c) /\ at'[c] = "purge" /\ Managed(c)' /\ InCall(c)
  BY <1>1 DEF Alone, ConsentInv, KeyInv, Managed, InCall
<1>3. job[c].key \in started => job[c].key \in excused' \union {NoKey}
  BY <1>1 DEF KeyInv
<1>4. \A d \in Callers \ {c} :
        InCall(d) /\ job[d].key = job[c].key => job[c].key \in excused' \union {NoKey}
  BY <1>1, <1>2 DEF KeyInv
<1>5. QED
  BY <1>1, <1>2, <1>3, <1>4, KeyEntered

(* A call goes on, or comes back.                                          *)
LEMMA KeyCall ==
  ASSUME ConsentInv, KeyInv, NEW c \in Callers,
         \/ Purge(c) \/ Act(c) \/ Succeed(c) \/ HandlerFails(c) \/ Record(c) \/ Cancel(c)
  PROVE  KeyInv'
<1>1. UNCHANGED <<via, job, started, repeated>>
  BY DEF Purge, Act, Succeed, HandlerFails, Record, Cancel, toolHistory
<1>2. /\ excused \subseteq excused' /\ idempotent \subseteq idempotent'
  BY DEF Purge, Act, Succeed, HandlerFails, Record, Cancel, Excuse, toolVars, toolHistory
<1>3. \/ /\ at[c] \in {"purge", "act", "ran"} /\ UNCHANGED excused
         /\ \/ at' = [at EXCEPT ![c] = "act"] \/ at' = [at EXCEPT ![c] = "ran"]
            \/ at' = [at EXCEPT ![c] = "record"] /\ Managed(c)
      \/ /\ at' = [at EXCEPT ![c] = "back"]
         /\ job[c].key \in excused' \union idempotent' \union {NoKey}
  BY DEF Purge, Act, Succeed, HandlerFails, Record, Cancel, Excuse, Goto, Return, toolHistory
<1>4. Alone(c)
  BY <1>1, <1>3 DEF Alone, ConsentInv
<1>5. CASE at'[c] = "back"
  <2>1. ~InCall(c)'
    BY <1>5 DEF InCall, InHandler
  <2>2. job[c].key \in excused' \union idempotent' \union {NoKey}
    BY <1>3, <1>5 DEF ConsentInv
  <2>3. QED
    BY <1>1, <1>2, <1>4, <1>5, <2>1, <2>2, KeyKept
<1>6. CASE at'[c] # "back"
  <2>1. /\ at[c] \in {"purge", "act", "ran"} /\ at'[c] \in {"act", "ran", "record"}
        /\ at'[c] = "record" => Managed(c)
    BY <1>3, <1>6 DEF ConsentInv
  <2>2. /\ InCall(c)' <=> InCall(c)
        /\ at'[c] \in {"lookup", "wait", "record"} => Managed(c)'
    BY <1>1, <2>1 DEF InCall, InHandler, Managed
  <2>3. QED
    BY <1>1, <1>2, <1>4, <2>1, <2>2, KeyKept
<1>7. QED
  BY <1>5, <1>6

LEMMA KeyIncident == ASSUME KeyInv, Incident PROVE KeyInv'
<1>1. UNCHANGED <<at, via, job, started, repeated>>
  BY DEF Incident, CoolDown, KeyExpires, PlanLapses, CreateRule, SetStatus, UserActs,
     IngestKnowledge, Tick, Apart, Aside, callVars, toolHistory
<1>2. excused \subseteq excused' /\ idempotent \subseteq idempotent' \union excused'
  BY DEF Incident, CoolDown, KeyExpires, PlanLapses, CreateRule, SetStatus, UserActs,
     IngestKnowledge, Tick, Apart, Aside, toolVars, toolHistory
<1>3. \A c \in Callers : (InCall(c)' <=> InCall(c)) /\ (Managed(c)' <=> Managed(c))
  BY <1>1 DEF InCall, InHandler, Managed
<1>4. QED
  BY <1>1, <1>2, <1>3 DEF KeyInv, OncePerKey

-----------------------------------------------------------------------------
(* Division with a remainder.                                              *)
LEMMA Division ==
  ASSUME NEW n \in Nat \ {0}, NEW s \in Nat
  PROVE  s % n \in 0 .. n - 1 /\ s \div n \in Int /\ s = n * (s \div n) + (s % n) /\ s % n <= s
<1>1. n > 0
  OBVIOUS
<1>2. s = n * (s \div n) + (s % n)
  BY <1>1, Z3
<1>3. s % n \in 0 .. n - 1 /\ s \div n \in Int
  BY <1>1, Z3
<1>4. s % n <= s
  BY <1>1, Z3
<1>5. QED
  BY <1>2, <1>3, <1>4

LEMMA Remainder ==
  ASSUME NEW n \in Nat \ {0}, NEW q \in Int, NEW r \in 0 .. n - 1, NEW s \in Int, s = n * q + r
  PROVE  s % n = r
BY SMTT(60)

LEMMA NextRemainder ==
  ASSUME NEW n \in Nat \ {0}, NEW s \in Nat
  PROVE  (s + 1) % n = IF (s % n) + 1 >= n THEN 0 ELSE (s % n) + 1
<1>. DEFINE q == s \div n
            r == s % n
<1>1. q \in Int /\ r \in 0 .. n - 1 /\ s = n * q + r
  BY Division
<1>2. n * q \in Int
  BY <1>1
<1>3. CASE r + 1 >= n
  <2>1. s + 1 = n * q + n
    BY <1>1, <1>3
  <2>. HIDE DEF q, r
  <2>2. s + 1 = n * (q + 1) + 0 /\ q + 1 \in Int /\ 0 \in 0 .. n - 1
    BY <1>1, <2>1
  <2>3. (s + 1) % n = 0
    BY <2>2, Remainder
  <2>4. QED
    BY <1>3, <2>3 DEF r
<1>4. CASE ~(r + 1 >= n)
  <2>. HIDE DEF q, r
  <2>1. s + 1 = n * q + (r + 1)
    BY <1>1, <1>2
  <2>2. r + 1 \in 0 .. n - 1
    BY <1>1, <1>4
  <2>3. (s + 1) % n = r + 1
    BY <1>1, <2>1, <2>2, Remainder
  <2>4. QED
    BY <1>4, <2>3 DEF r
<1>5. QED
  BY <1>3, <1>4

(* One more failure of a tool.                                             *)
LEMMA CircuitFails ==
  ASSUME CircuitInv, NEW t, CountFailure(t)
  PROVE  CircuitInv'
<1>. USE ToolAssumption
<1>1. CASE t \notin ToolNames
  BY <1>1 DEF CircuitInv, CircuitCounts, CountFailure
<1>2. CASE t \in ToolNames
  <2>. DEFINE f == failures[t]
              s == streak[t]
              last == f + 1 >= CircuitFailures
  <2>1. f \in Nat /\ s \in Nat /\ f = s % CircuitFailures
    BY <1>2 DEF CircuitInv, CircuitCounts
  <2>2. f <= s /\ (s + 1) % CircuitFailures = IF last THEN 0 ELSE f + 1
    <3>. HIDE DEF f, s
    <3>1. s % CircuitFailures <= s
      BY <2>1, Division
    <3>2. (s + 1) % CircuitFailures =
            IF (s % CircuitFailures) + 1 >= CircuitFailures
            THEN 0 ELSE (s % CircuitFailures) + 1
      BY <2>1, NextRemainder
    <3>3. QED
      BY <2>1, <3>1, <3>2
  <2>3. /\ failures' = [failures EXCEPT ![t] = IF last THEN 0 ELSE f + 1]
        /\ streak' = [streak EXCEPT ![t] = s + 1]
        /\ \/ last /\ open' = [open EXCEPT ![t] = TRUE]
           \/ ~last /\ open' = open
    BY DEF CountFailure
  <2>. HIDE DEF f, s, last
  <2>4. /\ failures' \in [ToolNames -> Nat] /\ streak' \in [ToolNames -> Nat]
        /\ DOMAIN open' = ToolNames
    <3>1. (IF last THEN 0 ELSE f + 1) \in Nat /\ s + 1 \in Nat
      BY <2>1
    <3>2. QED
      BY <2>3, <3>1 DEF CircuitInv
  <2>5. /\ failures'[t] = streak'[t] % CircuitFailures
        /\ open'[t] => streak'[t] >= CircuitFailures
    <3>1. failures'[t] = (IF last THEN 0 ELSE f + 1) /\ streak'[t] = s + 1
      BY <1>2, <2>3 DEF CircuitInv
    <3>2. last => s + 1 >= CircuitFailures
      BY <2>1, <2>2 DEF last
    <3>3. ~last => (open'[t] => s >= CircuitFailures)
      BY <1>2, <2>3 DEF CircuitInv, CircuitCounts, s
    <3>4. s + 1 >= CircuitFailures \/ ~open'[t]
      BY <2>1, <3>2, <3>3
    <3>5. QED
      BY <2>2, <3>1, <3>4
  <2>6. ASSUME NEW u \in ToolNames \ {t}
        PROVE  failures'[u] = failures[u] /\ streak'[u] = streak[u] /\ open'[u] = open[u]
    BY <2>3 DEF CircuitInv
  <2>7. CircuitCounts'
    BY <2>5, <2>6 DEF CircuitInv, CircuitCounts
  <2>8. QED
    BY <2>4, <2>7 DEF CircuitInv
<1>3. QED
  BY <1>1, <1>2

(* A success.                                                              *)
LEMMA CircuitClears ==
  ASSUME CircuitInv, NEW t, ClearCircuit(t)
  PROVE  CircuitInv'
<1>1. 0 % CircuitFailures = 0
  BY ToolAssumption, Remainder, CircuitFailures \in Nat \ {0}, 0 = CircuitFailures * 0 + 0
<1>2. QED
  BY <1>1 DEF CircuitInv, CircuitCounts, ClearCircuit

LEMMA CircuitStep ==
  ASSUME CircuitInv, [Next]_vars
  PROVE  CircuitInv'
<1>1. ASSUME UNCHANGED <<failures, open, streak>> PROVE CircuitInv'
  BY <1>1 DEF CircuitInv, CircuitCounts
<1>2. ASSUME NEW c \in Callers, Activity(c) PROVE UNCHANGED <<failures, open, streak>>
  BY <1>2 DEF Activity, CallTool, Chat, UseMemory, CreatePlan, Replan, ExecutePlan, HandleEvent,
     EvaluateRoute, Evaluate, ReadPlan, Starting, Apart, Aside, toolVars, toolHistory
<1>3. ASSUME NEW c \in Callers, Continue(c) PROVE CircuitInv'
  <2>1. CASE Succeed(c)
    BY <2>1, CircuitClears DEF Succeed
  <2>2. CASE HandlerFails(c)
    BY <2>2, CircuitFails DEF HandlerFails
  <2>3. CASE Lookup(c) \/ Admit(c) \/ Purge(c) \/ Act(c) \/ Record(c) \/ Cancel(c)
    BY <1>1, <2>3 DEF Lookup, Admit, Purge, Act, Record, Cancel, toolVars, toolHistory
  <2>4. CASE ~Execute(c)
    BY <1>1, <1>3, <2>4 DEF Continue, PlannerStep, SaveReplan, ExecuteStep, FinishPlan, ApplyRule,
       FinishRules, ReadContext, ReadPolicy, MemoryReturns, Respond, CallEnds, Apart, Aside,
       toolVars, toolHistory
  <2>5. QED
    BY <2>1, <2>2, <2>3, <2>4 DEF Execute
<1>4. CASE Incident
  <2>1. ASSUME NEW t \in ToolNames, CoolDown(t) PROVE CircuitInv'
    BY <2>1 DEF CoolDown, toolHistory, CircuitInv, CircuitCounts
  <2>2. CASE ~ \E t \in ToolNames : CoolDown(t)
    BY <1>1, <1>4, <2>2 DEF Incident, KeyExpires, PlanLapses, CreateRule, SetStatus, UserActs,
       IngestKnowledge, Tick, Apart, Aside, toolVars, toolHistory
  <2>3. QED
    BY <2>1, <2>2
<1>5. CASE UNCHANGED vars
  BY <1>1, <1>5 DEF vars, toolVars, toolHistory
<1>6. QED
  BY <1>1, <1>2, <1>3, <1>4, <1>5 DEF Next

-----------------------------------------------------------------------------
Inv == ConsentInv /\ KeyInv /\ CircuitInv

LEMMA InitAll == Init => Inv
<1>. SUFFICES ASSUME Init PROVE Inv
  OBVIOUS
<1>1. PICK n \in {0, 1} : \E events : ToolInit(n, events)
  BY DEF Init
<1>2. KeyInv
  BY <1>1 DEF ToolInit, KeyInv, InCall, InHandler, OncePerKey
<1>3. n % CircuitFailures = n
  <2>1. /\ CircuitFailures \in Nat \ {0} /\ n \in 0 .. CircuitFailures - 1
        /\ n = CircuitFailures * 0 + n
    BY ToolAssumption, AssistantAssumption
  <2>2. QED
    BY <2>1, Remainder
<1>4. CircuitInv
  BY <1>1, <1>3 DEF ToolInit, CircuitInv, CircuitCounts
<1>5. QED
  BY <1>2, <1>4, InitInv DEF Inv

(* Consent holds from the start of an activity to its end, the keys in use *)
(* are kept apart, and the circuits count.                                 *)
THEOREM Invariance == Spec => []Inv
<1>1. ASSUME Inv, [Next]_vars PROVE Inv'
  <2>1. ASSUME NEW c \in Callers, Activity(c) PROVE ConsentInv' /\ KeyInv'
    <3>1. ConsentInv' /\ Outside(c)
      BY <1>1, <2>1, ActivityStep, ActivityOutside DEF Inv
    <3>2. at'[c] # "wait"
      BY <3>1 DEF Outside, InCall
    <3>3. QED
      BY <1>1, <3>1, <3>2, KeyKept DEF Inv, Outside
  <2>2. ASSUME NEW c \in Callers, Continue(c) PROVE ConsentInv' /\ KeyInv'
    <3>1. ConsentInv'
      BY <1>1, <2>2, ContinueStep DEF Inv
    <3>2. CASE Execute(c)
      BY <1>1, <3>1, <3>2, KeyLookup, KeyAdmit, KeyCall DEF Inv, Execute
    <3>3. CASE ~Execute(c)
      <4>1. Outside(c) /\ at'[c] # "wait"
        BY <1>1, <2>2, <3>3, ContinueOutside DEF Inv, Outside, InCall
      <4>2. QED
        BY <1>1, <3>1, <4>1, KeyKept DEF Inv, Outside
    <3>4. QED
      BY <3>2, <3>3
  <2>3. CASE Incident
    BY <1>1, <2>3, IncidentStep, KeyIncident, CircuitStep DEF Inv
  <2>4. CASE UNCHANGED vars
    <3>1. ConsentInv'
      BY <1>1, <2>4 DEF Inv, vars, callVars, toolHistory, ConsentInv, Acting, Managed, NoFeedback
    <3>2. KeyInv'
      BY <1>1, <2>4 DEF Inv, vars, toolVars, callVars, toolHistory, KeyInv, InCall, InHandler,
         Managed, OncePerKey
    <3>3. QED
      BY <1>1, <3>1, <3>2, CircuitStep DEF Inv
  <2>5. QED
    BY <1>1, <2>1, <2>2, <2>3, <2>4, CircuitStep DEF Next, Inv
<1>2. QED
  BY <1>1, InitAll, PTL DEF Spec

(* What writes to the memory through the tool manager was confirmed by the *)
(* user of this very activity, for every mix of plans, rules, cached       *)
(* answers, failures and cancellations (execute_tool, execute_plan,        *)
(* evaluate_rules, _handle_capability).                                    *)
THEOREM WritesAreConfirmed == Spec => []ConfirmedWrites
<1>1. Inv => ConfirmedWrites
  BY DEF Inv, ConsentInv, ConfirmedWrites, Acting, InHandler
<1>2. QED
  BY <1>1, Invariance, PTL

(* No evaluation of rules sets off another (evaluate_rules, _publish).     *)
THEOREM RulesAreNotFed == Spec => []NoFeedback
<1>1. Inv => NoFeedback
  BY DEF Inv, ConsentInv
<1>2. QED
  BY <1>1, Invariance, PTL

(* A key runs its tool once, unless calls with it overlapped, one failed   *)
(* or was cancelled, or its record was lost or ran out (execute_tool,      *)
(* _idempotency_get, _idempotency_set).                                    *)
THEOREM KeysRunOnce == Spec => []OncePerKey
<1>1. Inv => OncePerKey
  BY DEF Inv, KeyInv
<1>2. QED
  BY <1>1, Invariance, PTL

(* The counter of a circuit is the failures since the last success, modulo *)
(* the threshold, and an open circuit has seen that many (execute_tool,    *)
(* _record_failure), for any threshold and any overlap of calls.           *)
THEOREM CircuitsCount == Spec => []CircuitCounts
<1>1. Inv => CircuitCounts
  BY DEF Inv, CircuitInv
<1>2. QED
  BY <1>1, Invariance, PTL
-----------------------------------------------------------------------------
(***************************************************************************)
(* What is told to be remembered is kept, for any callers, contents,       *)
(* retention and time: the transactions of the memory first, each alone,   *)
(* then the callers between whose awaits they fall.                        *)
(***************************************************************************)
(* What every step does for what has been told.                            *)
Keeps ==
  /\ MemoryInv'
  /\ \A m \in Row : told[m] # Absent => told'[m] # Absent

(* And every step but a tick.                                              *)
Timeless ==
  /\ (\A m \in Row : ~Expired(m)) => \A m \in Row : ~Expired(m)'
  /\ \A m \in Row : told[m] > clock => told'[m] > clock'

LEMMA Untouched == MemoryInv /\ UNCHANGED memoryVars => Keeps /\ Timeless
BY DEF memoryVars, MemoryInv, Keeps, Timeless, Expired

LEMMA Purged ==
  ASSUME MemoryInv, PurgeExpired
  PROVE  Keeps /\ Timeless /\ \A m \in Row : ~Expired(m)'
BY MemoryAssumption DEF PurgeExpired, MemoryInv, Keeps, Timeless, Expired, Absent

LEMMA Remembered ==
  ASSUME MemoryInv, NEW m \in Row, NEW days \in {NoRetention, RetentionDays}, Remember(m, days)
  PROVE  /\ Keeps /\ Timeless /\ told'[m] # Absent
         /\ (\A k \in Row : ~Expired(k)) => told'[m] > clock'
<1>. DEFINE r == Renewed(m, days)
<1>1. /\ r \in Int /\ r # Absent
      /\ expiry[m] = Absent \/ expiry[m] > clock => r > clock
      /\ r > clock \/ r = expiry[m]
  BY MemoryAssumption DEF MemoryInv, Renewed, ExpiresAt, Forever, Absent, NoRetention
<1>2. /\ expiry' = [expiry EXCEPT ![m] = r] /\ told' = [told EXCEPT ![m] = r]
      /\ deleted' = deleted \ {m} /\ clock' = clock
  BY DEF Remember
<1>. HIDE DEF r
<1>3. /\ expiry'[m] = r /\ told'[m] = r
      /\ \A k \in Row \ {m} : expiry'[k] = expiry[k] /\ told'[k] = told[k]
  BY <1>2 DEF MemoryInv
<1>4. MemoryInv'
  <2>1. expiry' \in [Row -> Int] /\ told' \in [Row -> Int] /\ clock' \in 0..MaxClock
    BY <1>1, <1>2 DEF MemoryInv
  <2>2. ASSUME NEW k \in Row
        PROVE  IF k \in deleted' THEN expiry'[k] = Absent
               ELSE expiry'[k] = told'[k] \/ (expiry'[k] = Absent /\ told'[k] <= clock')
    BY <1>2, <1>3 DEF MemoryInv
  <2>3. QED
    BY <2>1, <2>2 DEF MemoryInv, Absent
<1>5. \A k \in Row : told[k] # Absent => told'[k] # Absent
  BY <1>1, <1>3
<1>6. (\A k \in Row : ~Expired(k)) => \A k \in Row : ~Expired(k)'
  <2>. SUFFICES ASSUME \A k \in Row : ~Expired(k), NEW k \in Row PROVE ~Expired(k)'
    OBVIOUS
  <2>1. expiry[m] = Absent \/ expiry[m] > clock
    BY DEF Expired, MemoryInv
  <2>2. CASE k = m
    BY <1>1, <1>2, <1>3, <2>1, <2>2 DEF Expired, MemoryInv
  <2>3. CASE k # m
    BY <1>2, <1>3, <2>3 DEF Expired, Absent
  <2>4. QED
    BY <2>2, <2>3
<1>7. ASSUME NEW k \in Row, told[k] > clock PROVE told'[k] > clock'
  <2>1. CASE k = m
    <3>1. expiry[m] = Absent \/ expiry[m] = told[m]
      BY DEF MemoryInv
    <3>2. QED
      BY <1>1, <1>2, <1>3, <1>7, <2>1, <3>1
  <2>2. CASE k # m
    BY <1>2, <1>3, <1>7, <2>2
  <2>3. QED
    BY <2>1, <2>2
<1>8. (\A k \in Row : ~Expired(k)) => told'[m] > clock'
  BY <1>1, <1>2, <1>3 DEF Expired, MemoryInv
<1>9. QED
  BY <1>1, <1>3, <1>4, <1>5, <1>6, <1>7, <1>8 DEF Keeps, Timeless

LEMMA Forgotten ==
  ASSUME MemoryInv, NEW m \in Row, DeleteMemory(m)
  PROVE  Keeps /\ Timeless
BY DEF DeleteMemory, MemoryInv, Keeps, Timeless, Expired, Absent

LEMMA Ticked == ASSUME MemoryInv, MemoryTick PROVE Keeps
BY MemoryAssumption DEF MemoryTick, MemoryInv, Keeps, Absent
-----------------------------------------------------------------------------
(* A step of one caller leaves the answers of the others, and what they    *)
(* know of the time.                                                       *)
Heard(c) ==
  /\ DOMAIN answer' = Callers
  /\ \A d \in Callers \ {c} : answer'[d] = answer[d] /\ (d \in ticked => d \in ticked')

LEMMA MadeStays == ASSUME Keeps, NEW f, Made(f) PROVE Made(f)'
<1>1. PICK x \in Contents : Fold[x] = f /\ told[<<x, "explicit_tool">>] # Absent
  BY DEF Made
<1>2. <<x, "explicit_tool">> \in Row
  BY DEF Row, Sources
<1>3. QED
  BY <1>1, <1>2 DEF Keeps, Made, Absent

(* A caller that does not move itself.                                     *)
LEMMA CallerStays ==
  ASSUME ToldInv, NEW d \in Callers, Keeps,
         at'[d] = at[d], via'[d] = via[d], job'[d] = job[d], answer'[d] = answer[d],
         d \in ticked => d \in ticked',
         Timeless \/ (at[d] \in {"act", "ran"} => d \in ticked')
  PROVE  CallerInv(d)'
<1>1. CallerInv(d) /\ job[d].row \in Row
  BY DEF ToldInv, CallerInv
<1>2. /\ job'[d].row \in Row /\ job'[d].days \in {NoRetention, RetentionDays}
      /\ at'[d] = "idle" \/ (via'[d] = "chat" /\ at'[d] # "back") => answer'[d] = "none"
  BY <1>1 DEF CallerInv
<1>3. job'[d].tool = "memory.remember" /\ d \notin ticked' =>
        /\ at'[d] = "act" => \A m \in Row : ~Expired(m)'
        /\ at'[d] = "ran" => told'[job'[d].row] > clock'
  BY <1>1 DEF CallerInv, Timeless
<1>4. Acting(d)' /\ (\E x \in Contents : job'[d].key = ChatKey(x)) =>
        via'[d] = "chat" /\ job'[d].tool = "memory.remember"
  BY <1>1 DEF CallerInv, Acting, Managed
<1>5. via'[d] = "chat" /\ job'[d].tool = "memory.remember" =>
        /\ Acting(d)' => job'[d].row[2] = "explicit_tool" /\ job'[d].key = ChatKey(job'[d].row[1])
        /\ at'[d] \in {"ran", "record"} => told'[job'[d].row] # Absent
  BY <1>1 DEF CallerInv, Acting, Managed, Keeps
<1>6. via'[d] = "chat" /\ job'[d].tool = "memory.remember" /\ answer'[d] \in {"ok", "cached"} =>
        \E x \in Contents : /\ Fold[x] = Fold[job'[d].row[1]]
                            /\ told'[<<x, "explicit_tool">>] # Absent
  <2>1. \A x \in Contents : <<x, "explicit_tool">> \in Row
    BY DEF Row, Sources
  <2>2. via[d] = "chat" /\ job[d].tool = "memory.remember" /\ answer[d] \in {"ok", "cached"} =>
          \E x \in Contents : Fold[x] = Fold[job[d].row[1]] /\ told[<<x, "explicit_tool">>] # Absent
    BY <1>1 DEF CallerInv, Made
  <2>3. QED
    BY <2>1, <2>2 DEF Keeps
<1>7. QED
  BY <1>2, <1>3, <1>4, <1>5, <1>6
     DEF CallerInv, Made, ChatKey, Expired, Absent, NoRetention, Row, Sources

(* A step of one caller that is right about it is right about all.         *)
LEMMA Frame ==
  ASSUME ToldInv, NEW c \in Callers, Alone(c), Heard(c), Keeps, Timeless, planned' \subseteq Row,
         CallerInv(c)',
         \A x \in Contents :
           ChatKey(x) \in idempotent' => ChatKey(x) \in idempotent \/ Made(Fold[x])'
  PROVE  ToldInv'
<1>1. \A d \in Callers \ {c} : CallerInv(d)'
  BY CallerStays DEF Alone, Heard
<1>2. \A x \in Contents : ChatKey(x) \in idempotent' => Made(Fold[x])'
  BY MadeStays DEF ToldInv
<1>3. QED
  BY <1>1, <1>2 DEF ToldInv, Keeps, Heard, ChatKey

(* A caller between two calls, or none yet.                                *)
LEMMA Calm ==
  ASSUME NEW c \in Callers, ~Acting(c)', at'[c] \notin {"act", "ran", "record"},
         job'[c].row \in Row, job'[c].days \in {NoRetention, RetentionDays},
         answer'[c] = "none" \/ (at'[c] # "idle" /\ via'[c] # "chat")
  PROVE  CallerInv(c)'
BY DEF CallerInv, Row, Sources, NoRetention

(* A call that begins, or is refused.                                      *)
LEMMA RequestInv ==
  ASSUME ConsentInv, ToldInv, NEW c \in Callers, NEW tool, NEW key, NEW m \in Row, NEW yes,
         Request(c, tool, key, m, yes),
         (\E x \in Contents : CacheKey(tool, key) = ChatKey(x)) => via'[c] = "chat" /\ tool = "memory.remember",
         via'[c] = "chat" =>
           /\ answer[c] = "none"
           /\ tool = "memory.remember" =>
                m[2] = "explicit_tool" /\ CacheKey(tool, key) = ChatKey(m[1])
  PROVE  /\ CallerInv(c)'
         /\ DOMAIN answer' = Callers /\ \A d \in Callers \ {c} : answer'[d] = answer[d]
<1>1. /\ job'[c] = [tool |-> tool, key |-> CacheKey(tool, key), row |-> m, days |-> NoRetention]
      /\ DOMAIN answer' = Callers /\ \A d \in Callers \ {c} : answer'[d] = answer[d]
      /\ \/ at'[c] = "lookup" /\ answer'[c] = answer[c]
         \/ at'[c] = "back" /\ answer'[c] \in {"not_found", "confirm"}
  BY DEF Request, Return, Goto, ConsentInv, ToldInv
<1>2. QED
  BY <1>1 DEF CallerInv, Acting, ChatKey, Row, Sources, NoRetention
-----------------------------------------------------------------------------
LEMMA TextIsContent == Text \in Contents /\ NoJob.row \in Row /\ <<Text, "explicit_tool">> \in Row
<1>1. PICK x : x \in Contents
  BY AssistantAssumption
<1>2. <<x, "manual">> \in Row
  BY <1>1 DEF Row, Sources
<1>3. Text \in Contents /\ NoJob.row \in Row
  BY <1>1, <1>2 DEF Text, NoJob
<1>4. QED
  BY <1>3 DEF Row, Sources

LEMMA ActivityTold ==
  ASSUME ConsentInv, ToldInv, NEW c \in Callers, Activity(c)
  PROVE  ToldInv'
<1>1. Outside(c) /\ Alone(c) /\ idempotent' = idempotent
  BY ActivityOutside DEF Outside
<1>2. UNCHANGED memoryVars
  BY DEF Activity, CallTool, Chat, UseMemory, CreatePlan, Replan, ExecutePlan, HandleEvent,
     EvaluateRoute, Evaluate, ReadPlan, Starting, Apart, Aside
<1>3. Keeps /\ Timeless
  BY <1>2, Untouched DEF ToldInv
<1>4. /\ at[c] = "idle" /\ answer[c] = "none" /\ DOMAIN answer = Callers
      /\ job[c].row \in Row /\ job[c].days \in {NoRetention, RetentionDays}
  <2>1. at[c] = "idle"
    BY DEF Activity, CallTool, Chat, UseMemory, CreatePlan, Replan, ExecutePlan, HandleEvent,
       EvaluateRoute, Evaluate, ReadPlan, Begin
  <2>2. QED
    BY <2>1 DEF ToldInv, CallerInv
<1>5. planned' \subseteq Row /\ \A d \in Callers \ {c} : d \in ticked => d \in ticked'
  <2>1. \/ UNCHANGED planned
        \/ \E x \in Contents : planned' = {<<x, "explicit_tool">>}
    BY TextIsContent DEF Activity, CallTool, Chat, UseMemory, CreatePlan, Replan, ExecutePlan,
       HandleEvent, EvaluateRoute, ReadPlan, SavePlan, Starting, planVars
  <2>2. \A d \in Callers \ {c} : d \in ticked => d \in ticked'
    BY DEF Activity, CallTool, Chat, UseMemory, CreatePlan, Replan, ExecutePlan, HandleEvent,
       EvaluateRoute, Evaluate, ReadPlan, End, Starting, Apart, Aside, toolHistory
  <2>3. QED
    BY <2>1, <2>2 DEF ToldInv, Row, Sources
<1>. DEFINE Right == /\ CallerInv(c)'
                     /\ DOMAIN answer' = Callers
                     /\ \A d \in Callers \ {c} : answer'[d] = answer[d]
<1>6. ASSUME NEW t \in ApiTools, NEW k \in ({"api"} \X ApiKeys) \union {NoKey},
             NEW yes \in BOOLEAN, CallTool(c, t, k, Text, yes)
      PROVE  Right
  <2>1. Request(c, t, k, <<Text, "explicit_tool">>, yes) /\ via'[c] = "api"
    BY <1>6 DEF CallTool, Begin, ConsentInv
  <2>2. ~ \E x \in Contents : CacheKey(t, k) = ChatKey(x)
    BY DEF ChatKey, CacheKey, NoKey
  <2>3. QED
    BY <2>1, <2>2, TextIsContent, RequestInv
<1>7. ASSUME NEW i \in Intents, NEW x \in Contents, Chat(c, i, x)
      PROVE  Right
  <2>1. via'[c] = "chat" /\ <<x, "explicit_tool">> \in Row /\ <<x, "conversation">> \in Row
    BY <1>7 DEF Chat, Begin, ConsentInv, Row, Sources
  <2>2. CASE /\ SuggestedTool(i) # NoStep
             /\ Request(c, SuggestedTool(i), <<"chat", i, Fold[x]>>, <<x, "explicit_tool">>,
                        ExplicitAction(i))
    <3>1. SuggestedTool(i) = i
      BY <2>2 DEF SuggestedTool
    <3>2. /\ (\E y \in Contents : CacheKey(i, <<"chat", i, Fold[x]>>) = ChatKey(y)) =>
               i = "memory.remember"
          /\ i = "memory.remember" => CacheKey(i, <<"chat", i, Fold[x]>>) = ChatKey(x)
      BY DEF ChatKey, CacheKey, NoKey
    <3>3. <<x, "explicit_tool">>[1] = x /\ <<x, "explicit_tool">>[2] = "explicit_tool"
      OBVIOUS
    <3>4. QED
      BY <1>4, <2>1, <2>2, <3>1, <3>2, <3>3, RequestInv
  <2>3. CASE Goto(c, "respond") /\ UNCHANGED <<job, answer>>
    BY <1>4, <2>3, Calm DEF Goto, ConsentInv, Acting
  <2>4. CASE /\ Goto(c, "context") /\ UNCHANGED answer
             /\ job' = [job EXCEPT ![c] = [NoJob EXCEPT !.tool = "memory.remember",
                                                       !.row = <<x, "conversation">>]]
    <3>1. at'[c] = "context" /\ job'[c].row \in Row /\ job'[c].days = NoRetention
      BY <2>1, <2>4 DEF Goto, ConsentInv, NoJob
    <3>2. QED
      BY <1>4, <2>4, <3>1, Calm DEF Acting
  <2>5. QED
    BY <1>7, <2>2, <2>3, <2>4 DEF Chat
<1>8. ASSUME NEW t \in MemoryTools, NEW days \in {NoRetention, RetentionDays},
             UseMemory(c, t, Text, days)
      PROVE  Right
  <2>1. /\ at'[c] = "purge" /\ via'[c] = "memory" /\ job'[c].row = <<Text, "manual">>
        /\ job'[c].days = days /\ answer' = answer
    BY <1>8 DEF UseMemory, Begin, Goto, ConsentInv, NoJob
  <2>2. job'[c].row \in Row
    BY <2>1, TextIsContent DEF Row, Sources
  <2>3. QED
    BY <1>4, <2>1, <2>2, Calm DEF Acting, Managed
<1>9. ASSUME NEW i \in Intents, CreatePlan(c, SuggestedTool(i), <<Text, "explicit_tool">>)
      PROVE  Right
  <2>1. /\ at'[c] = "done" /\ job'[c] = NoJob /\ answer'[c] = "none" /\ DOMAIN answer' = Callers
        /\ \A d \in Callers \ {c} : answer'[d] = answer[d]
    BY <1>4, <1>9 DEF CreatePlan, End, Goto, ConsentInv
  <2>2. QED
    BY <2>1, TextIsContent, Calm DEF Acting, NoJob
<1>10. ASSUME NEW stage \in {"save", "step", "rules"}, Goto(c, stage), UNCHANGED <<job, answer>>
       PROVE  Right
  BY <1>4, <1>10, Calm DEF Goto, ConsentInv, Acting
<1>11. Right
  BY <1>6, <1>7, <1>8, <1>9, <1>10 DEF Activity, Replan, ExecutePlan, ReadPlan, HandleEvent,
     EvaluateRoute, Evaluate
<1>12. QED
  BY <1>1, <1>3, <1>5, <1>11, Frame DEF Heard
-----------------------------------------------------------------------------
(* Between the calls.                                                      *)
LEMMA ContinueTold ==
  ASSUME ConsentInv, KeyInv, ToldInv, NEW c \in Callers, Continue(c), ~Execute(c)
  PROVE  ToldInv'
<1>1. Outside(c) /\ Alone(c) /\ idempotent' = idempotent
  BY ContinueOutside DEF Outside
<1>2. UNCHANGED memoryVars \/ PurgeExpired
  BY DEF Continue, PlannerStep, SaveReplan, ExecuteStep, FinishPlan, ApplyRule, FinishRules,
     ReadContext, ReadPolicy, MemoryReturns, Respond, CallEnds, Apart, Aside
<1>3. Keeps /\ Timeless
  BY <1>2, Untouched, Purged DEF ToldInv
<1>4. /\ DOMAIN answer = Callers /\ planned \subseteq Row
      /\ job[c].row \in Row /\ job[c].days \in {NoRetention, RetentionDays}
  BY DEF ToldInv, CallerInv
<1>5. planned' = planned /\ \A d \in Callers \ {c} : d \in ticked => d \in ticked'
  BY DEF Continue, PlannerStep, SaveReplan, ExecuteStep, FinishPlan, ApplyRule, FinishRules,
     ReadContext, ReadPolicy, MemoryReturns, Respond, CallEnds, EndPlan, End, Apart, Aside,
     planVars, toolHistory
<1>. DEFINE Right == /\ CallerInv(c)'
                     /\ DOMAIN answer' = Callers
                     /\ \A d \in Callers \ {c} : answer'[d] = answer[d]
<1>6. ASSUME End(c) PROVE Right
  <2>1. /\ at'[c] = "done" /\ job'[c] = NoJob /\ answer'[c] = "none" /\ DOMAIN answer' = Callers
        /\ \A d \in Callers \ {c} : answer'[d] = answer[d]
    BY <1>4, <1>6 DEF End, Goto, ConsentInv
  <2>2. QED
    BY <2>1, TextIsContent, Calm DEF Acting, NoJob
<1>7. ASSUME ExecuteStep(c) PROVE Right
  <2>1. PICK m \in planned : \E tool, rev, j :
          Request(c, tool, <<"plan", rev, j>>, m, Confirmed(c))
    BY <1>7 DEF ExecuteStep
  <2>2. via'[c] = "execute" /\ m \in Row
    BY <1>4, <1>7 DEF ExecuteStep
  <2>3. PICK tool, rev, j : Request(c, tool, <<"plan", rev, j>>, m, Confirmed(c))
    BY <2>1
  <2>4. ~ \E x \in Contents : CacheKey(tool, <<"plan", rev, j>>) = ChatKey(x)
    BY DEF ChatKey, CacheKey, NoKey
  <2>5. QED
    BY <2>2, <2>3, <2>4, RequestInv
<1>8. ASSUME ApplyRule(c) PROVE Right
  <2>1. via'[c] = "rules"
    BY <1>8 DEF ApplyRule
  <2>2. CASE Goto(c, "rules") /\ UNCHANGED <<job, answer>>
    BY <1>4, <2>1, <2>2, Calm DEF Goto, ConsentInv, Acting
  <2>3. ASSUME NEW r, Request(c, rule[r].tool, <<"rule", r, event[c]>>, NoJob.row, FALSE)
        PROVE  Right
    <3>1. ~ \E x \in Contents : CacheKey(rule[r].tool, <<"rule", r, event[c]>>) = ChatKey(x)
      BY DEF ChatKey, CacheKey, NoKey
    <3>2. QED
      BY <2>1, <2>3, <3>1, TextIsContent, RequestInv
  <2>4. QED
    BY <1>8, <2>2, <2>3 DEF ApplyRule
<1>9. ASSUME ReadContext(c) PROVE Right
  <2>1. CASE End(c)
    BY <1>6, <2>1
  <2>2. CASE Goto(c, "policy") /\ UNCHANGED <<via, job, answer>>
    <3>1. at[c] = "context" /\ at'[c] = "policy" /\ via'[c] = via[c]
      BY <1>9, <2>2 DEF ReadContext, Goto, ConsentInv
    <3>2. answer'[c] = "none" \/ via'[c] # "chat"
      BY <2>2, <3>1 DEF ToldInv, CallerInv
    <3>3. QED
      BY <1>4, <2>2, <3>1, <3>2, Calm DEF Acting
  <2>3. QED
    BY <1>9, <2>1, <2>2 DEF ReadContext
<1>10. ASSUME ReadPolicy(c) PROVE Right
  <2>1. CASE /\ Goto(c, "purge")
             /\ via' = [via EXCEPT ![c] = "capture"]
             /\ job' = [job EXCEPT ![c].days = RetentionDays]
    <3>1. /\ at'[c] = "purge" /\ via'[c] = "capture"
          /\ job'[c].row = job[c].row /\ job'[c].days = RetentionDays
      <4>1. job'[c] = [job[c] EXCEPT !.days = RetentionDays]
        BY <2>1 DEF ConsentInv
      <4>2. QED
        BY <2>1, <4>1 DEF Goto, ConsentInv
    <3>2. QED
      BY <1>4, <1>10, <3>1, Calm DEF ReadPolicy, Acting, Managed
  <2>2. CASE Goto(c, "respond") /\ UNCHANGED <<via, job>>
    <3>1. at[c] = "policy" /\ at'[c] = "respond" /\ via'[c] = via[c] /\ answer' = answer
      BY <1>10, <2>2 DEF ReadPolicy, Goto, ConsentInv
    <3>2. answer'[c] = "none" \/ via'[c] # "chat"
      BY <3>1 DEF ToldInv, CallerInv
    <3>3. QED
      BY <1>4, <2>2, <3>1, <3>2, Calm DEF Acting
  <2>3. QED
    BY <1>10, <2>1, <2>2 DEF ReadPolicy
<1>11. ASSUME MemoryReturns(c) PROVE Right
  <2>1. CASE End(c)
    BY <1>6, <2>1
  <2>2. CASE via[c] = "capture" /\ Goto(c, "respond") /\ UNCHANGED <<via, job, answer>>
    BY <1>4, <2>2, Calm DEF Goto, ConsentInv, Acting
  <2>3. QED
    BY <1>11, <2>1, <2>2 DEF MemoryReturns
<1>12. Right
  BY <1>6, <1>7, <1>8, <1>9, <1>10, <1>11 DEF Continue, PlannerStep, SaveReplan, FinishPlan,
     EndPlan, FinishRules, Respond, CallEnds
<1>13. QED
  BY <1>1, <1>3, <1>4, <1>5, <1>12, Frame DEF Heard
-----------------------------------------------------------------------------
(* What a chat's call has recorded, or is about to, was made.              *)
LEMMA RowMade ==
  ASSUME KeyInv, ToldInv, NEW c \in Callers, at[c] = "record",
         via[c] = "chat", job[c].tool = "memory.remember"
  PROVE  Made(Fold[job[c].row[1]])
<1>1. /\ job[c].row \in Row /\ told[job[c].row] # Absent
      /\ job[c].row[2] = "explicit_tool"
  BY DEF ToldInv, CallerInv, Acting, Managed
<1>2. job[c].row[1] \in Contents /\ job[c].row = <<job[c].row[1], "explicit_tool">>
  BY <1>1 DEF Row
<1>3. QED
  BY <1>1, <1>2 DEF Made

LEMMA RecordMade ==
  ASSUME KeyInv, ToldInv, NEW c \in Callers, at[c] = "record",
         NEW x \in Contents, job[c].key = ChatKey(x)
  PROVE  Made(Fold[x])
<1>1. Acting(c) /\ CallerInv(c)
  BY DEF KeyInv, ToldInv, Acting
<1>2. via[c] = "chat" /\ job[c].tool = "memory.remember"
  BY <1>1 DEF CallerInv
<1>3. job[c].key = ChatKey(job[c].row[1])
  BY <1>1, <1>2 DEF CallerInv
<1>4. /\ ChatKey(x)[2][3] = Fold[x]
      /\ ChatKey(job[c].row[1])[2][3] = Fold[job[c].row[1]]
  BY DEF ChatKey, CacheKey, NoKey
<1>5. Fold[x] = Fold[job[c].row[1]]
  BY <1>3, <1>4
<1>6. QED
  BY <1>2, <1>5, RowMade

(* A call comes back: with an answer only if it was made.                  *)
LEMMA CallReturns ==
  ASSUME ConsentInv, ToldInv, NEW c \in Callers, NEW outcome, outcome # "none",
         Return(c, outcome), UNCHANGED <<via, job, told>>,
         via[c] = "chat" /\ job[c].tool = "memory.remember" /\ outcome \in {"ok", "cached"} =>
           Made(Fold[job[c].row[1]])
  PROVE  CallerInv(c)' /\ Alone(c) /\ DOMAIN answer' = Callers
         /\ \A d \in Callers \ {c} : answer'[d] = answer[d]
<1>1. /\ at'[c] = "back" /\ answer'[c] = outcome /\ Alone(c) /\ DOMAIN answer' = Callers
      /\ \A d \in Callers \ {c} : answer'[d] = answer[d]
  BY DEF Return, Goto, ConsentInv, ToldInv, Alone
<1>2. job[c].row \in Row /\ job[c].days \in {NoRetention, RetentionDays}
  BY DEF ToldInv, CallerInv
<1>3. QED
  BY <1>1, <1>2 DEF CallerInv, Acting, Made, Absent, NoRetention, Row, Sources

(* A call goes on.                                                         *)
LEMMA CallGoesOn ==
  ASSUME ConsentInv, ToldInv, NEW c \in Callers, NEW stage,
         Goto(c, stage), UNCHANGED <<via, job, answer>>, Keeps,
         \/ Acting(c) /\ stage \in {"wait", "purge"}
         \/ at[c] \in {"purge", "act"} /\ stage \in {"act", "ran"}
         \/ Acting(c) /\ at[c] = "ran" /\ stage = "record",
         job[c].tool = "memory.remember" /\ c \notin ticked' =>
           /\ stage = "act" => \A m \in Row : ~Expired(m)'
           /\ stage = "ran" => told'[job[c].row] > clock',
         job[c].tool = "memory.remember" /\ stage = "ran" => told'[job[c].row] # Absent
  PROVE  CallerInv(c)' /\ Alone(c)
<1>1. /\ at'[c] = stage /\ via'[c] = via[c] /\ job'[c] = job[c] /\ answer'[c] = answer[c]
      /\ Alone(c)
  BY DEF Goto, ConsentInv, Alone
<1>2. CallerInv(c) /\ job[c].row \in Row
  BY DEF ToldInv, CallerInv
<1>3. at[c] \in {"lookup", "wait", "purge", "act", "ran", "record"}
  BY DEF Acting
<1>4. Acting(c)' => Acting(c)
  BY <1>1, <1>3 DEF Acting, Managed
<1>5. via[c] = "chat" => answer'[c] = "none"
  BY <1>1, <1>2, <1>3 DEF CallerInv
<1>6. /\ job'[c].row \in Row /\ job'[c].days \in {NoRetention, RetentionDays}
      /\ at'[c] = "idle" \/ (via'[c] = "chat" /\ at'[c] # "back") => answer'[c] = "none"
  BY <1>1, <1>2, <1>5 DEF CallerInv
<1>7. job'[c].tool = "memory.remember" /\ c \notin ticked' =>
        /\ at'[c] = "act" => \A m \in Row : ~Expired(m)'
        /\ at'[c] = "ran" => told'[job'[c].row] > clock'
  BY <1>1
<1>8. Acting(c)' /\ (\E x \in Contents : job'[c].key = ChatKey(x)) =>
        via'[c] = "chat" /\ job'[c].tool = "memory.remember"
  BY <1>1, <1>2, <1>4 DEF CallerInv
<1>9. via'[c] = "chat" /\ job'[c].tool = "memory.remember" =>
        /\ Acting(c)' => job'[c].row[2] = "explicit_tool" /\ job'[c].key = ChatKey(job'[c].row[1])
        /\ at'[c] \in {"ran", "record"} => told'[job'[c].row] # Absent
        /\ answer'[c] \notin {"ok", "cached"}
  BY <1>1, <1>2, <1>4, <1>5 DEF CallerInv, Keeps
<1>10. QED
  BY <1>1, <1>6, <1>7, <1>8, <1>9 DEF CallerInv, ChatKey, Absent, NoRetention, Expired, Row, Sources
LEMMA ExecuteTold ==
  ASSUME ConsentInv, KeyInv, ToldInv, NEW c \in Callers, Execute(c), UNCHANGED planned
  PROVE  ToldInv'
<1>1. /\ MemoryInv /\ UNCHANGED <<via, job>> /\ DOMAIN answer = Callers
      /\ job[c].row \in Row /\ job[c].days \in {NoRetention, RetentionDays}
  BY DEF ToldInv, CallerInv, Execute, Lookup, Admit, Purge, Act, Succeed, HandlerFails, Record,
     Cancel
<1>2. \A d \in Callers \ {c} : d \in ticked => d \in ticked'
  BY DEF Execute, Lookup, Admit, Purge, Act, Succeed, HandlerFails, Record, Cancel, toolHistory
<1>3. at[c] \in {"lookup", "wait", "record"} => Acting(c)
  BY DEF KeyInv, Acting
<1>4. ASSUME UNCHANGED memoryVars PROVE Keeps /\ Timeless /\ told' = told
  BY <1>1, <1>4, Untouched DEF memoryVars
<1>. DEFINE Right == /\ CallerInv(c)' /\ Alone(c) /\ Keeps /\ Timeless
                     /\ DOMAIN answer' = Callers
                     /\ \A d \in Callers \ {c} : answer'[d] = answer[d]
                     /\ \A x \in Contents :
                          ChatKey(x) \in idempotent' => ChatKey(x) \in idempotent \/ Made(Fold[x])'
<1>5. ASSUME Lookup(c) PROVE Right
  <2>1. /\ at[c] = "lookup" /\ UNCHANGED idempotent /\ Keeps /\ Timeless /\ told' = told
    BY <1>4, <1>5 DEF Lookup
  <2>2. CASE Kept(job[c].key) /\ Return(c, "cached")
    <3>1. ASSUME via[c] = "chat", job[c].tool = "memory.remember"
          PROVE  Made(Fold[job[c].row[1]])
      <4>1. job[c].key = ChatKey(job[c].row[1]) /\ job[c].row[1] \in Contents
        BY <1>1, <1>3, <2>1, <3>1 DEF ToldInv, CallerInv, Row
      <4>2. QED
        BY <2>2, <4>1 DEF Kept, ToldInv
    <3>2. QED
      BY <1>1, <2>1, <2>2, <3>1, CallReturns
  <2>3. CASE Return(c, "circuit_open")
    BY <1>1, <2>1, <2>3, CallReturns
  <2>4. ASSUME NEW stage \in {"wait", "purge"}, Goto(c, stage), UNCHANGED answer PROVE Right
    BY <1>1, <1>3, <2>1, <2>4, CallGoesOn
  <2>5. QED
    BY <1>5, <2>2, <2>3, <2>4 DEF Lookup, EnterOrWait
<1>6. ASSUME Admit(c) PROVE Right
  BY <1>1, <1>3, <1>4, <1>6, CallGoesOn DEF Admit
<1>7. ASSUME Purge(c) PROVE Right
  <2>1. /\ at[c] = "purge" /\ Goto(c, "act") /\ UNCHANGED <<answer, idempotent>>
        /\ IF UsesMemory(c) THEN PurgeExpired ELSE UNCHANGED memoryVars
    BY <1>7 DEF Purge, toolVars
  <2>2. /\ Keeps /\ Timeless
        /\ job[c].tool = "memory.remember" => \A m \in Row : ~Expired(m)'
    BY <1>1, <1>4, <2>1, Purged DEF UsesMemory
  <2>3. QED
    BY <1>1, <2>1, <2>2, CallGoesOn
<1>8. ASSUME Act(c) PROVE Right
  <2>1. at[c] = "act" /\ Goto(c, "ran") /\ UNCHANGED <<answer, idempotent, ticked>>
    BY <1>8 DEF Act, toolVars, toolHistory
  <2>2. CASE job[c].tool = "memory.remember"
    <3>1. /\ Keeps /\ Timeless /\ told'[job[c].row] # Absent
          /\ (\A m \in Row : ~Expired(m)) => told'[job[c].row] > clock'
      BY <1>1, <1>8, <2>2, Remembered DEF Act
    <3>2. c \notin ticked' => \A m \in Row : ~Expired(m)
      BY <2>1, <2>2 DEF ToldInv, CallerInv
    <3>3. QED
      BY <1>1, <2>1, <3>1, <3>2, CallGoesOn
  <2>3. CASE job[c].tool # "memory.remember"
    BY <1>1, <1>4, <1>8, <2>1, <2>3, CallGoesOn DEF Act
  <2>4. QED
    BY <2>2, <2>3
<1>9. ASSUME Succeed(c) PROVE Right
  <2>1. Acting(c)
    BY <1>9 DEF Succeed, Acting
  <2>2. QED
    BY <1>1, <1>4, <1>9, <2>1, CallGoesOn DEF Succeed
<1>10. ASSUME HandlerFails(c) PROVE Right
  BY <1>1, <1>4, <1>10, CallReturns DEF HandlerFails
<1>11. ASSUME at[c] = "record", NEW x \in Contents, ChatKey(x) \in idempotent \union {job[c].key},
              Keeps
       PROVE  ChatKey(x) \in idempotent \/ Made(Fold[x])'
  BY <1>11, RecordMade, MadeStays
<1>12. ASSUME Record(c) PROVE Right
  <2>1. /\ at[c] = "record" /\ Return(c, "ok") /\ UNCHANGED memoryVars
        /\ idempotent' \subseteq idempotent \union {job[c].key}
    BY <1>12 DEF Record
  <2>2. QED
    BY <1>1, <1>4, <1>11, <2>1, RowMade, CallReturns
<1>13. ASSUME Cancel(c) PROVE Right
  <2>1. /\ Return(c, "cancelled") /\ UNCHANGED memoryVars
        /\ \/ UNCHANGED idempotent
           \/ at[c] = "record" /\ idempotent' = idempotent \union {job[c].key}
    BY <1>13 DEF Cancel
  <2>2. QED
    BY <1>1, <1>4, <1>11, <2>1, CallReturns
<1>14. Right
  BY <1>5, <1>6, <1>7, <1>8, <1>9, <1>10, <1>12, <1>13 DEF Execute
<1>15. planned' \subseteq Row
  BY DEF ToldInv
<1>16. QED
  BY <1>2, <1>14, <1>15, Frame DEF Heard
-----------------------------------------------------------------------------
(* Beside the callers; and nothing at all.                                 *)
LEMMA StillTold ==
  ASSUME ToldInv, UNCHANGED <<callVars, planned>>, idempotent' \subseteq idempotent, Keeps,
         ticked \subseteq ticked',
         Timeless \/ (\A d \in Callers : at[d] \in {"act", "ran"} => d \in ticked')
  PROVE  ToldInv'
<1>1. \A d \in Callers : CallerInv(d)'
  BY CallerStays DEF callVars
<1>2. \A x \in Contents : ChatKey(x) \in idempotent' => Made(Fold[x])'
  BY MadeStays DEF ToldInv
<1>3. QED
  BY <1>1, <1>2 DEF ToldInv, Keeps, callVars, ChatKey

LEMMA IncidentTold == ASSUME ToldInv, Incident PROVE ToldInv'
<1>1. /\ UNCHANGED <<callVars, planned>> /\ idempotent' \subseteq idempotent
      /\ ticked \subseteq ticked'
  BY DEF Incident, CoolDown, KeyExpires, PlanLapses, CreateRule, SetStatus, UserActs,
     IngestKnowledge, Tick, Apart, Aside, toolVars, toolHistory, planVars
<1>2. MemoryInv
  BY DEF ToldInv
<1>3. CASE Tick
  BY <1>1, <1>2, <1>3, Ticked, StillTold DEF Tick
<1>4. CASE UserActs
  <2>1. ASSUME NEW on, SetPolicy(on) PROVE Keeps /\ Timeless
    BY <1>2, <2>1 DEF SetPolicy, MemoryInv, Keeps, Timeless, Expired
  <2>2. Keeps /\ Timeless
    BY <1>2, <1>4, <2>1, Forgotten DEF UserActs
  <2>3. QED
    BY <1>1, <2>2, StillTold
<1>5. CASE UNCHANGED memoryVars
  BY <1>1, <1>2, <1>5, Untouched, StillTold
<1>6. QED
  BY <1>3, <1>4, <1>5 DEF Incident, CoolDown, KeyExpires, PlanLapses, CreateRule, SetStatus,
     IngestKnowledge, Apart, Aside

LEMMA InitTold == Init => ToldInv
<1>. SUFFICES ASSUME Init PROVE ToldInv
  OBVIOUS
<1>1. MemoryInv
  BY MemoryAssumption DEF Init, MemoryInit, MemoryInv, Absent
<1>2. PICK n \in {0, 1} : \E events : ToolInit(n, events)
  BY DEF Init
<1>3. /\ planned \subseteq Row /\ DOMAIN answer = Callers
      /\ \A x \in Contents : ChatKey(x) \in idempotent => Made(Fold[x])
  BY <1>2, TextIsContent DEF Init, PlannerInit, ToolInit
<1>4. ASSUME NEW c \in Callers PROVE CallerInv(c)
  <2>1. /\ at[c] = "idle" /\ via[c] = "nobody" /\ answer[c] = "none" /\ job[c] = NoJob
    BY <1>2 DEF ToolInit
  <2>2. NoJob.row \in Row /\ NoJob.days = NoRetention
    BY TextIsContent DEF NoJob
  <2>3. QED
    BY <2>1, <2>2 DEF CallerInv, Acting
<1>5. QED
  BY <1>1, <1>3, <1>4 DEF ToldInv

(* Rows are as they were told, and answers rest on what was made.          *)
THEOREM ToldInvariance == Spec => []ToldInv
<1>1. ASSUME Inv, ToldInv, [Next]_vars PROVE ToldInv'
  <2>1. ASSUME NEW c \in Callers, Activity(c) PROVE ToldInv'
    BY <1>1, <2>1, ActivityTold DEF Inv
  <2>2. ASSUME NEW c \in Callers, Continue(c) PROVE ToldInv'
    <3>1. UNCHANGED planned
      BY <2>2 DEF Continue, PlannerStep, SaveReplan, ExecuteStep, FinishPlan, ReadContext,
         ReadPolicy, MemoryReturns, Respond, CallEnds, planVars
    <3>2. QED
      BY <1>1, <2>2, <3>1, ExecuteTold, ContinueTold DEF Inv
  <2>3. CASE Incident
    BY <1>1, <2>3, IncidentTold
  <2>4. CASE UNCHANGED vars
    <3>1. UNCHANGED <<callVars, planned, idempotent, ticked, memoryVars>>
      BY <2>4 DEF vars, toolVars, toolHistory, planVars
    <3>2. QED
      BY <1>1, <3>1, Untouched, StillTold DEF ToldInv
  <2>5. QED
    BY <1>1, <2>1, <2>2, <2>3, <2>4 DEF Next
<1>2. QED
  BY <1>1, InitTold, Invariance, PTL DEF Spec

(* What a caller was told is kept can be recalled until its date or the    *)
(* user's deletion; the date lies ahead unless time passed between purge   *)
(* and write; and a chat that says so, from the cache or not, speaks of a  *)
(* memory that was made (remember, purge_expired, search, execute_tool,    *)
(* _handle_capability), for any clock, retention, texts and overlap.       *)
THEOREM WhatIsToldIsKept == Spec => []ToldIsKept
<1>1. ToldInv => ToldIsKept
  <2>. SUFFICES ASSUME ToldInv PROVE ToldIsKept
    OBVIOUS
  <2>1. ASSUME NEW m \in Row, told[m] > clock, m \notin deleted PROVE m \in Recalled
    <3>1. expiry[m] = told[m]
      BY <2>1 DEF ToldInv, MemoryInv
    <3>2. QED
      BY <2>1, <3>1 DEF Recalled, Alive
  <2>2. QED
    BY <2>1 DEF ToldInv, CallerInv, ToldIsKept
<1>2. QED
  BY <1>1, ToldInvariance, PTL
-----------------------------------------------------------------------------
(***************************************************************************)
(* The types: among them that the semaphore lets no more into the handler  *)
(* than it may and that its queue is who waits, that a circuit never       *)
(* reaches its threshold, and that revisions and steps of a plan stay      *)
(* within their limits.  Each part by itself.                              *)
(***************************************************************************)
LEMMA PlanFrame ==
  ASSUME NEW p, PlanOK(p)
  PROVE  /\ p.revision \in -1..MaxReplans /\ Len(p.steps) \in 0..MaxSteps
         /\ p.steps \in Seq(ToolNames \union {NoStep})
         /\ \A j \in 1..Len(p.steps) : p.steps[j] \in ToolNames \union {NoStep}
BY PlannerAssumption DEF PlanOK

(* Steps are cut off beyond the limit.                                     *)
LEMMA Cut ==
  ASSUME NEW s \in Seq(ToolNames \union {NoStep})
  PROVE  Truncated(s) \in Seq(ToolNames \union {NoStep}) /\ Len(Truncated(s)) <= MaxSteps
<1>. USE PlannerAssumption
<1>. DEFINE n == IF Len(s) < MaxSteps THEN Len(s) ELSE MaxSteps
<1>1. n \in 0..MaxSteps /\ n <= Len(s) /\ Len(s) \in Nat
  OBVIOUS
<1>2. \A i \in 1..n : s[i] \in ToolNames \union {NoStep}
  BY <1>1
<1>. HIDE DEF n
<1>3. /\ SubSeq(s, 1, n) \in Seq(ToolNames \union {NoStep})
      /\ Len(SubSeq(s, 1, n)) = IF 1 <= n THEN n - 1 + 1 ELSE 0
  <2>1. 1 \in Int /\ n \in Int
    BY <1>1
  <2>. QED
    BY <1>2, <2>1, SubSeqProperties
<1>4. Truncated(s) = SubSeq(s, 1, n)
  BY DEF Truncated, n
<1>. QED
  BY <1>1, <1>3, <1>4

LEMMA FirstPlanOK == ASSUME NEW t \in ToolNames \union {NoStep} PROVE PlanOK(FirstPlan(t))
<1>1. <<t, NoStep>> \in Seq(ToolNames \union {NoStep})
  OBVIOUS
<1>2. PICK s : s = StepsFor(t)
  OBVIOUS
<1>3. s \in Seq(ToolNames \union {NoStep}) /\ Len(s) <= MaxSteps
  BY <1>1, <1>2, Cut DEF StepsFor
<1>4. PlanOK([revision |-> 0, steps |-> s])
  BY <1>3, PlannerAssumption DEF PlanOK
<1>. QED
  BY <1>2, <1>4 DEF FirstPlan

LEMMA NoPlanOK == PlanOK(NoPlan)
<1>1. <<>> \in Seq(ToolNames \union {NoStep}) /\ Len(<<>>) = 0
  OBVIOUS
<1>. QED
  BY <1>1, PlannerAssumption DEF NoPlan, PlanOK

(* The successor of a plan that may have one.                              *)
LEMMA ReplanOK ==
  ASSUME NEW p, PlanOK(p), p.revision < MaxReplans
  PROVE  PlanOK([revision |-> p.revision + 1, steps |-> Truncated(<<NoStep>> \o p.steps)])
<1>. DEFINE S == ToolNames \union {NoStep}
<1>1. <<NoStep>> \in Seq(S) /\ p.steps \in Seq(S)
  BY DEF PlanOK
<1>2. <<NoStep>> \o p.steps \in Seq(S)
  BY <1>1, ConcatProperties
<1>3. PICK t : t = Truncated(<<NoStep>> \o p.steps)
  OBVIOUS
<1>4. t \in Seq(S) /\ Len(t) <= MaxSteps
  BY <1>2, <1>3, Cut
<1>5. PlanOK([revision |-> p.revision + 1, steps |-> t])
  BY <1>4, PlannerAssumption DEF PlanOK
<1>. QED
  BY <1>3, <1>5

(* The plan and what was read of it.                                       *)
LEMMA PlanStep ==
  ASSUME PlanInv, ConsentInv, Next
  PROVE  PlanInv'
<1>. USE PlannerAssumption
<1>1. ASSUME UNCHANGED <<plan, readPlan, step>>,
             \A c \in Callers : at'[c] = "save" => at[c] = "save"
      PROVE  PlanInv'
  BY <1>1 DEF PlanInv, PlanOK
<1>2. ASSUME NEW c \in Callers, NEW who, NEW stage, ReadPlan(c, who, stage),
             stage = "save" => plan.revision < MaxReplans
      PROVE  PlanInv'
  <2>1. /\ readPlan' = [readPlan EXCEPT ![c] = plan] /\ step' = [step EXCEPT ![c] = 1]
        /\ at' = [at EXCEPT ![c] = stage] /\ plan' = plan
    BY <1>2 DEF ReadPlan, Goto
  <2>2. 1 \in 0..MaxSteps + 1
    OBVIOUS
  <2>3. DOMAIN readPlan' = Callers /\ step' \in [Callers -> 0..MaxSteps + 1]
    BY <2>1, <2>2 DEF PlanInv
  <2>4. ASSUME NEW d \in Callers
        PROVE  PlanOK(readPlan'[d]) /\ (at'[d] = "save" => readPlan'[d].revision < MaxReplans)
    <3>1. CASE d = c
      BY <1>2, <2>1, <3>1 DEF PlanInv, ConsentInv
    <3>2. CASE d # c
      BY <2>1, <3>2 DEF PlanInv, ConsentInv
    <3>. QED
      BY <3>1, <3>2
  <2>. QED
    BY <2>1, <2>3, <2>4 DEF PlanInv, PlanOK
<1>3. ASSUME NEW c \in Callers, EndPlan(c), PlanOK(plan)' PROVE PlanInv'
  <2>1. /\ readPlan' = [readPlan EXCEPT ![c] = NoPlan] /\ step' = [step EXCEPT ![c] = 0]
        /\ at' = [at EXCEPT ![c] = "done"]
    BY <1>3 DEF EndPlan, End, Goto
  <2>2. 0 \in 0..MaxSteps + 1
    OBVIOUS
  <2>3. DOMAIN readPlan' = Callers /\ step' \in [Callers -> 0..MaxSteps + 1]
    BY <2>1, <2>2 DEF PlanInv
  <2>4. ASSUME NEW d \in Callers
        PROVE  PlanOK(readPlan'[d]) /\ (at'[d] = "save" => readPlan'[d].revision < MaxReplans)
    <3>1. CASE d = c
      BY <2>1, <3>1, NoPlanOK DEF PlanInv, ConsentInv
    <3>2. CASE d # c
      BY <2>1, <3>2 DEF PlanInv, ConsentInv
    <3>. QED
      BY <3>1, <3>2
  <2>. QED
    BY <1>3, <2>3, <2>4 DEF PlanInv
<1>4. ASSUME NEW c \in Callers, Activity(c) PROVE PlanInv'
  <2>. USE DEF ConsentInv
  <2>1. ASSUME NEW t, NEW k, NEW yes, CallTool(c, t, k, Text, yes) PROVE PlanInv'
    BY <1>1, <2>1 DEF CallTool, Starting, Request, Return, Goto, planVars
  <2>2. ASSUME NEW i, NEW x, Chat(c, i, x), UNCHANGED planVars PROVE PlanInv'
    BY <1>1, <2>2 DEF Chat, Request, Return, Goto, planVars, SavePlan
  <2>3. ASSUME NEW t \in ToolNames \union {NoStep}, NEW m, SavePlan(t, m),
               \A d \in Callers : at'[d] = "save" => at[d] = "save"
        PROVE  PlanInv'
    <3>1. plan' = FirstPlan(t) /\ UNCHANGED <<readPlan, step>>
      BY <2>3 DEF SavePlan
    <3>2. PlanOK(plan')
      BY <3>1, FirstPlanOK
    <3>. QED
      BY <2>3, <3>1, <3>2 DEF PlanInv, PlanOK
  <2>4. ASSUME NEW i, NEW x, Chat(c, i, x), ~UNCHANGED planVars PROVE PlanInv'
    <3>1. SavePlan(NoStep, <<x, "explicit_tool">>) /\ at' = [at EXCEPT ![c] = "respond"]
      BY <2>4 DEF Chat, Starting, Goto
    <3>2. \A d \in Callers : at'[d] = "save" => at[d] = "save"
      BY <3>1
    <3>. QED
      BY <2>3, <3>1, <3>2
  <2>5. ASSUME NEW t, NEW days, UseMemory(c, t, Text, days) PROVE PlanInv'
    BY <1>1, <2>5 DEF UseMemory, Starting, Goto, planVars
  <2>6. ASSUME NEW i, CreatePlan(c, SuggestedTool(i), <<Text, "explicit_tool">>) PROVE PlanInv'
    <3>1. SuggestedTool(i) \in ToolNames \union {NoStep}
      BY DEF SuggestedTool
    <3>2. SavePlan(SuggestedTool(i), <<Text, "explicit_tool">>) /\ at' = [at EXCEPT ![c] = "done"]
      BY <2>6 DEF CreatePlan, End, Goto
    <3>3. \A d \in Callers : at'[d] = "save" => at[d] = "save"
      BY <3>2
    <3>. QED
      BY <2>3, <3>1, <3>2, <3>3
  <2>7. CASE Replan(c)
    BY <1>2, <2>7 DEF Replan
  <2>8. ASSUME NEW yes, ExecutePlan(c, yes) PROVE PlanInv'
    BY <1>2, <2>8 DEF ExecutePlan
  <2>9. ASSUME NEW type, NEW e, Evaluate(c, type, e), UNCHANGED planVars PROVE PlanInv'
    BY <1>1, <2>9 DEF Evaluate, Goto, planVars
  <2>. QED
    BY <1>4, <2>1, <2>2, <2>4, <2>5, <2>6, <2>7, <2>8, <2>9
       DEF Activity, HandleEvent, EvaluateRoute
<1>5. ASSUME NEW c \in Callers, Continue(c) PROVE PlanInv'
  <2>. USE DEF ConsentInv
  <2>1. CASE SaveReplan(c)
    <3>1. /\ at[c] = "save" /\ EndPlan(c)
          /\ plan' = [revision |-> readPlan[c].revision + 1,
                      steps |-> Truncated(<<NoStep>> \o readPlan[c].steps)]
      BY <2>1 DEF SaveReplan
    <3>2. PlanOK(readPlan[c]) /\ readPlan[c].revision < MaxReplans
      BY <3>1 DEF PlanInv
    <3>3. PlanOK(plan')
      BY <3>1, <3>2, ReplanOK
    <3>. QED
      BY <1>3, <3>1, <3>3 DEF PlanOK
  <2>2. CASE FinishPlan(c)
    BY <1>3, <2>2 DEF FinishPlan, PlanInv, PlanOK
  <2>3. CASE ExecuteStep(c)
    <3>1. PICK j \in ToolSteps(c, step[c]) :
            /\ step' = [step EXCEPT ![c] = j + 1]
            /\ UNCHANGED <<plan, readPlan>>
            /\ at' \in {[at EXCEPT ![c] = "lookup"], [at EXCEPT ![c] = "back"]}
      BY <2>3 DEF ExecuteStep, Request, Return, Goto
    <3>2. j + 1 \in 0..MaxSteps + 1
      <4>1. Len(readPlan[c].steps) \in 0..MaxSteps /\ step[c] \in Nat
        BY PlanFrame DEF PlanInv
      <4>2. j \in step[c]..Len(readPlan[c].steps)
        BY DEF ToolSteps
      <4>. QED
        BY <4>1, <4>2
    <3>3. step' \in [Callers -> 0..MaxSteps + 1]
      BY <3>1, <3>2 DEF PlanInv
    <3>4. \A d \in Callers : at'[d] = "save" => at[d] = "save"
      BY <3>1
    <3>. QED
      BY <3>1, <3>3, <3>4 DEF PlanInv, PlanOK
  <2>4. CASE Execute(c) /\ UNCHANGED planVars
    <3>1. \E stage \in Stages : at' = [at EXCEPT ![c] = stage]
      BY <2>4 DEF Execute, Lookup, Admit, Purge, Act, Succeed, HandlerFails, Record, Cancel,
         EnterOrWait, Return, Goto, Stages
    <3>2. "save" \notin Stages
      BY DEF Stages
    <3>. QED
      BY <1>1, <2>4, <3>1, <3>2 DEF planVars
  <2>5. CASE (ApplyRule(c) \/ FinishRules(c)) /\ UNCHANGED planVars
    BY <1>1, <2>5 DEF ApplyRule, FinishRules, Request, Return, End, Goto, planVars
  <2>6. CASE ReadContext(c) \/ ReadPolicy(c) \/ MemoryReturns(c) \/ Respond(c) \/ CallEnds(c)
    BY <1>1, <2>6 DEF ReadContext, ReadPolicy, MemoryReturns, Respond, CallEnds, End, Goto,
       planVars
  <2>. QED
    BY <1>5, <2>1, <2>2, <2>3, <2>4, <2>5, <2>6 DEF Continue, PlannerStep
<1>6. CASE Incident
  <2>1. CASE PlanLapses
    <3>1. plan' = NoPlan /\ UNCHANGED <<readPlan, step, at>>
      BY <2>1 DEF PlanLapses, callVars
    <3>2. PlanOK(plan')
      BY <3>1, NoPlanOK
    <3>. QED
      BY <3>1, <3>2 DEF PlanInv, PlanOK
  <2>2. CASE ~PlanLapses
    <3>1. UNCHANGED <<plan, readPlan, step, at>>
      BY <1>6, <2>2 DEF Incident, CoolDown, KeyExpires, CreateRule, SetStatus, UserActs,
         IngestKnowledge, Tick, planVars, callVars
    <3>. QED
      BY <1>1, <3>1
  <2>. QED
    BY <2>1, <2>2
<1>. QED
  BY <1>4, <1>5, <1>6 DEF Next
(* The stages, and the outcomes of calls.                                  *)
StagesOK == at \in [Callers -> AssistantStages] /\ answer \in [Callers -> Outcomes]

LEMMA StageStep ==
  ASSUME StagesOK, Next
  PROVE  StagesOK'
<1>. USE DEF StagesOK
<1>1. ASSUME NEW c \in Callers, NEW stage \in AssistantStages, NEW outcome \in Outcomes,
             at' = [at EXCEPT ![c] = stage],
             answer' = answer \/ answer' = [answer EXCEPT ![c] = outcome]
      PROVE  StagesOK'
  BY SMTT(60), <1>1
<1>2. ASSUME NEW c \in Callers, Activity(c)
      PROVE  \E stage \in AssistantStages, outcome \in Outcomes :
               /\ at' = [at EXCEPT ![c] = stage]
               /\ answer' = answer \/ answer' = [answer EXCEPT ![c] = outcome]
  <2>. USE DEF AssistantStages, Stages, Outcomes, Goto
  <2>1. CASE \E tool, key, m, yes : Request(c, tool, key, m, yes)
    BY <2>1 DEF Request, Return
  <2>2. CASE End(c)
    BY <2>2 DEF End
  <2>3. CASE /\ UNCHANGED answer
             /\ \E stage \in {"respond", "context", "purge", "save", "step", "rules"} : Goto(c, stage)
    BY <2>3
  <2>. QED
    BY <1>2, <2>1, <2>2, <2>3 DEF Activity, CallTool, Chat, UseMemory, CreatePlan, Replan,
       ExecutePlan, HandleEvent, EvaluateRoute, Evaluate, ReadPlan
<1>3. ASSUME NEW c \in Callers, Continue(c)
      PROVE  \E stage \in AssistantStages, outcome \in Outcomes :
               /\ at' = [at EXCEPT ![c] = stage]
               /\ answer' = answer \/ answer' = [answer EXCEPT ![c] = outcome]
  <2>. USE DEF AssistantStages, Stages, Outcomes, Goto
  <2>1. CASE Execute(c)
    BY <2>1 DEF Execute, Lookup, Admit, Purge, Act, Succeed, HandlerFails, Record, Cancel,
       EnterOrWait, Return
  <2>2. CASE \E tool, key, m, yes : Request(c, tool, key, m, yes)
    BY <2>2 DEF Request, Return
  <2>3. CASE End(c)
    BY <2>3 DEF End
  <2>4. CASE /\ UNCHANGED answer
             /\ \E stage \in {"rules", "policy", "purge", "respond"} : Goto(c, stage)
    BY <2>4
  <2>5. CASE ReadContext(c) \/ ReadPolicy(c) \/ MemoryReturns(c) \/ Respond(c) \/ CallEnds(c)
    BY <2>3, <2>4, <2>5 DEF ReadContext, ReadPolicy, MemoryReturns, Respond, CallEnds
  <2>6. CASE PlannerStep(c)
    BY <2>2, <2>3, <2>6 DEF PlannerStep, SaveReplan, ExecuteStep, FinishPlan, EndPlan
  <2>7. CASE ApplyRule(c) \/ FinishRules(c)
    BY <2>2, <2>3, <2>4, <2>7 DEF ApplyRule, FinishRules
  <2>. QED
    BY <1>3, <2>1, <2>5, <2>6, <2>7 DEF Continue
<1>4. CASE Incident
  BY <1>4 DEF Incident, CoolDown, KeyExpires, PlanLapses, CreateRule, SetStatus, UserActs,
     IngestKnowledge, Tick, Aside, Apart, callVars
<1>. QED
  BY <1>1, <1>2, <1>3, <1>4 DEF Next

(* The rows of the memory, between absence and what has no end.            *)
LEMMA MemoryTypes ==
  ASSUME MemoryTypeOK, ToldInv, Next
  PROVE  MemoryTypeOK'
<1>. USE MemoryAssumption
<1>. DEFINE Dates == {Absent} \union 0..Forever
<1>0. /\ Absent \in Dates /\ Forever \in Dates /\ MaxClock + RetentionDays \in Dates
      /\ clock \in 0..MaxClock /\ expiry \in [Row -> Dates] /\ told \in [Row -> Dates]
  BY DEF MemoryTypeOK, Absent, Forever
<1>1. ASSUME UNCHANGED memoryVars PROVE MemoryTypeOK'
  BY <1>1 DEF memoryVars, MemoryTypeOK
<1>2. ASSUME PurgeExpired PROVE MemoryTypeOK'
  <2>1. \A m \in Row : (IF Expired(m) THEN Absent ELSE expiry[m]) \in Dates
    BY <1>0
  <2>2. expiry' \in [Row -> Dates]
    BY <1>2, <2>1 DEF PurgeExpired
  <2>. QED
    BY <1>2, <2>2 DEF PurgeExpired, MemoryTypeOK
<1>3. ASSUME NEW m \in Row, NEW days \in {NoRetention, RetentionDays}, Remember(m, days)
      PROVE  MemoryTypeOK'
  <2>1. Renewed(m, days) \in Dates
    <3>1. expiry[m] \in Dates
      BY <1>0
    <3>2. clock + RetentionDays \in Dates
      BY <1>0 DEF Forever
    <3>. QED
      BY <1>0, <3>1, <3>2 DEF Renewed, ExpiresAt
  <2>. HIDE DEF Dates
  <2>2. expiry' \in [Row -> Dates] /\ told' \in [Row -> Dates] /\ deleted' \subseteq deleted
        /\ UNCHANGED <<clock, autoCapture>>
    BY <1>0, <1>3, <2>1 DEF Remember
  <2>. QED
    BY <2>2 DEF MemoryTypeOK, Dates
<1>4. ASSUME NEW c \in Callers, Activity(c) PROVE UNCHANGED memoryVars
  BY <1>4 DEF Activity, CallTool, Chat, UseMemory, CreatePlan, Replan, ExecutePlan, HandleEvent,
     EvaluateRoute, Evaluate, ReadPlan, Starting, Apart, Aside
<1>5. ASSUME NEW c \in Callers, Continue(c) PROVE MemoryTypeOK'
  <2>1. CASE Act(c)
    <3>1. job[c].row \in Row /\ job[c].days \in {NoRetention, RetentionDays}
      BY DEF ToldInv, CallerInv
    <3>. QED
      BY <1>1, <1>3, <2>1, <3>1 DEF Act
  <2>2. CASE Execute(c) /\ ~Act(c)
    BY <1>1, <1>2, <2>2 DEF Execute, Lookup, Admit, Purge, Succeed, HandlerFails, Record, Cancel
  <2>3. CASE ~Execute(c)
    BY <1>1, <1>2, <1>5, <2>3 DEF Continue, PlannerStep, SaveReplan, ExecuteStep, FinishPlan,
       ApplyRule, FinishRules, ReadContext, ReadPolicy, MemoryReturns, Respond, CallEnds, Apart,
       Aside
  <2>. QED
    BY <2>1, <2>2, <2>3
<1>6. CASE Incident
  <2>1. ASSUME NEW m \in Row, DeleteMemory(m) PROVE MemoryTypeOK'
    <3>1. expiry' \in [Row -> Dates]
      BY <1>0, <2>1 DEF DeleteMemory
    <3>. QED
      BY <2>1, <3>1 DEF DeleteMemory, MemoryTypeOK
  <2>2. ASSUME NEW on \in BOOLEAN, SetPolicy(on) PROVE MemoryTypeOK'
    BY <2>2 DEF SetPolicy, MemoryTypeOK
  <2>3. CASE Tick
    BY <2>3 DEF Tick, MemoryTick, MemoryTypeOK
  <2>. QED
    BY <1>1, <1>6, <2>1, <2>2, <2>3 DEF Incident, CoolDown, KeyExpires, PlanLapses, CreateRule,
       SetStatus, UserActs, IngestKnowledge, Apart, Aside
<1>. QED
  BY <1>4, <1>1, <1>5, <1>6 DEF Next

(* The rules: one that is there has a trigger and a tool.                  *)
LEMMA RuleStep ==
  ASSUME AutomationTypeOK, Next
  PROVE  AutomationTypeOK'
<1>. USE DEF AutomationTypeOK
<1>1. ASSUME UNCHANGED ruleVars PROVE AutomationTypeOK'
  BY <1>1 DEF ruleVars
<1>2. ASSUME NEW c \in Callers, NEW S \in SUBSET Rules,
             pending' = [pending EXCEPT ![c] = S], UNCHANGED <<rule, status>>
      PROVE  AutomationTypeOK'
  BY <1>2
<1>3. ASSUME NEW c \in Callers, Activity(c) PROVE AutomationTypeOK'
  <2>1. ASSUME NEW type, NEW e, Evaluate(c, type, e) PROVE AutomationTypeOK'
    <3>1. {r \in Rules : status[r] = "enabled" /\ rule[r].trigger = type} \in SUBSET Rules
      OBVIOUS
    <3>. QED
      BY <1>2, <2>1, <3>1 DEF Evaluate
  <2>. QED
    BY <1>1, <1>3, <2>1 DEF Activity, CallTool, Chat, UseMemory, CreatePlan, Replan, ExecutePlan,
       HandleEvent, EvaluateRoute, Starting
<1>4. ASSUME NEW c \in Callers, Continue(c) PROVE AutomationTypeOK'
  <2>1. CASE ApplyRule(c)
    <3>1. PICK r \in pending[c] : pending' = [pending EXCEPT ![c] = pending[c] \ {r}]
      BY <2>1 DEF ApplyRule
    <3>2. pending[c] \ {r} \in SUBSET Rules /\ UNCHANGED <<rule, status>>
      BY <2>1 DEF ApplyRule
    <3>. QED
      BY <1>2, <3>1, <3>2
  <2>2. CASE FinishRules(c)
    BY <1>2, <2>2 DEF FinishRules
  <2>. QED
    BY <1>1, <1>4, <2>1, <2>2 DEF Continue, ReadContext, ReadPolicy, MemoryReturns, Respond, CallEnds
<1>5. CASE Incident
  <2>1. ASSUME NEW r \in Rules, NEW e \in TriggerEvents, NEW t \in ToolNames, CreateRule(r, e, t)
        PROVE  AutomationTypeOK'
    <3>1. /\ rule' = [rule EXCEPT ![r] = [trigger |-> e, tool |-> t]]
          /\ status' = [status EXCEPT ![r] = "enabled"] /\ pending' = pending
      BY <2>1 DEF CreateRule
    <3>2. [trigger |-> e, tool |-> t] # NoRule
      BY DEF TriggerEvents, NoRule
    <3>. QED
      BY <3>1, <3>2
  <2>2. ASSUME NEW r \in Rules, NEW s \in {"enabled", "disabled", "deleted"}, SetStatus(r, s)
        PROVE  AutomationTypeOK'
    <3>1. /\ status[r] # "none" /\ status' = [status EXCEPT ![r] = s]
          /\ UNCHANGED <<rule, pending>>
      BY <2>2 DEF SetStatus
    <3>. QED
      BY <3>1
  <2>. QED
    BY <1>1, <1>5, <2>1, <2>2 DEF Incident, UserActs, IngestKnowledge, Tick
<1>. QED
  BY <1>3, <1>4, <1>5 DEF Next
(* The semaphore and its queue.                                            *)
Queued == \A c \in Callers : at[c] = "wait" <=> \E i \in DOMAIN waiting : waiting[i] = c

Holders == {c \in Callers : InHandler(c)}

SlotsOK == QueueInv /\ Queued /\ Cardinality(Holders) <= MaxConcurrency

(* Fewer hold a slot, and who waits still does.                            *)
LEMMA SlotsStay ==
  ASSUME SlotsOK, UNCHANGED waiting,
         \A c \in Callers : InHandler(c)' => InHandler(c),
         \A c \in Callers : at'[c] = "wait" <=> at[c] = "wait"
  PROVE  SlotsOK'
<1>1. QueueInv' /\ Queued'
  BY DEF SlotsOK, QueueInv, Queued
<1>2. IsFiniteSet(Holders) /\ Holders' \subseteq Holders
  <2>1. Holders \subseteq Callers /\ Holders' \subseteq Holders
    BY DEF Holders
  <2>. QED
    BY <2>1, FS_Subset, ToolAssumption
<1>3. /\ Cardinality(Holders') \in Nat /\ Cardinality(Holders) \in Nat
      /\ Cardinality(Holders') <= Cardinality(Holders)
  BY <1>2, FS_Subset, FS_CardinalityType
<1>. QED
  BY <1>1, <1>3, ToolAssumption DEF SlotsOK

(* One caller takes a slot that is free, or gives it back.                 *)
LEMMA SlotTaken ==
  ASSUME SlotsOK, NEW c \in Callers, QueueInv', Queued',
         \A d \in Callers \ {c} : InHandler(d)' => InHandler(d),
         FreeSlot \/ InHandler(c) \/ ~InHandler(c)'
  PROVE  SlotsOK'
<1>1. IsFiniteSet(Holders) /\ Cardinality(Holders) \in Nat
  <2>1. Holders \subseteq Callers
    BY DEF Holders
  <2>. QED
    BY <2>1, FS_Subset, FS_CardinalityType, ToolAssumption
<1>2. CASE FreeSlot
  <2>1. Holders' \subseteq Holders \union {c}
    BY DEF Holders
  <2>2. /\ IsFiniteSet(Holders \union {c})
        /\ Cardinality(Holders \union {c}) =
             IF c \in Holders THEN Cardinality(Holders) ELSE Cardinality(Holders) + 1
    BY <1>1, FS_AddElement
  <2>3. /\ Cardinality(Holders') \in Nat
        /\ Cardinality(Holders') <= Cardinality(Holders \union {c})
    BY <2>1, <2>2, FS_Subset, FS_CardinalityType
  <2>4. Cardinality(Holders) < MaxConcurrency
    BY <1>2 DEF FreeSlot, Holders
  <2>. QED
    BY <1>1, <2>2, <2>3, <2>4, ToolAssumption DEF SlotsOK
<1>3. CASE InHandler(c) \/ ~InHandler(c)'
  <2>1. Holders' \subseteq Holders
    BY <1>3 DEF Holders
  <2>2. /\ Cardinality(Holders') \in Nat
        /\ Cardinality(Holders') <= Cardinality(Holders)
    BY <1>1, <2>1, FS_Subset, FS_CardinalityType
  <2>. QED
    BY <1>1, <2>2, ToolAssumption DEF SlotsOK
<1>. QED
  BY <1>2, <1>3

(* The queue: its end, its head, and who leaves it from the middle.        *)
LEMMA Enqueued ==
  ASSUME NEW s \in Seq(Callers), NEW c \in Callers,
         \A i, j \in DOMAIN s : s[i] = s[j] => i = j,
         ~ \E i \in DOMAIN s : s[i] = c
  PROVE  LET t == Append(s, c)
         IN  /\ t \in Seq(Callers)
             /\ \A i, j \in DOMAIN t : t[i] = t[j] => i = j
             /\ \A d \in Callers :
                  (\E i \in DOMAIN t : t[i] = d) <=> d = c \/ \E i \in DOMAIN s : s[i] = d
<1>. DEFINE n == Len(s)
<1>1. PICK t : t = Append(s, c)
  OBVIOUS
<1>2. /\ t \in Seq(Callers) /\ n \in Nat /\ DOMAIN s = 1..n /\ DOMAIN t = 1..n + 1
      /\ \A i \in 1..n : t[i] = s[i]
      /\ t[n + 1] = c
  BY <1>1
<1>3. \A i, j \in DOMAIN t : t[i] = t[j] => i = j
  <2>1. SUFFICES ASSUME NEW i \in 1..n + 1, NEW j \in 1..n + 1, t[i] = t[j] PROVE i = j
    BY <1>2
  <2>. QED
    BY <1>2, <2>1
<1>4. ASSUME NEW d \in Callers
      PROVE  (\E i \in DOMAIN t : t[i] = d) <=> d = c \/ \E i \in DOMAIN s : s[i] = d
  BY <1>2
<1>. QED
  BY <1>1, <1>2, <1>3, <1>4

Distinct(s) == \A i, j \in DOMAIN s : s[i] = s[j] => i = j

Among(d, s) == \E i \in DOMAIN s : s[i] = d

Gap(s, t, k) ==
  /\ Len(t) = Len(s) - 1
  /\ \A i \in 1..Len(t) : t[i] = IF i < k THEN s[i] ELSE s[i + 1]

LEMMA Left ==
  ASSUME NEW s \in Seq(Callers), NEW t \in Seq(Callers), NEW k \in DOMAIN s,
         Distinct(s), Gap(s, t, k)
  PROVE  Distinct(t) /\ \A d \in Callers : Among(d, t) <=> d # s[k] /\ Among(d, s)
<1>. USE DEF Distinct, Among, Gap
<1>. DEFINE n == Len(s)
<1>1. n \in Nat /\ DOMAIN s = 1..n /\ DOMAIN t = 1..n - 1 /\ k \in 1..n /\ Len(t) = n - 1
  OBVIOUS
<1>2. \A i \in 1..n - 1 : t[i] = IF i < k THEN s[i] ELSE s[i + 1]
  BY <1>1
<1>3. \A i, j \in 1..n : s[i] = s[j] => i = j
  BY <1>1
<1>. HIDE DEF n
<1>4. ASSUME NEW i \in 1..n - 1, NEW j \in 1..n - 1, t[i] = t[j] PROVE i = j
  <2>1. /\ t[i] = s[IF i < k THEN i ELSE i + 1] /\ t[j] = s[IF j < k THEN j ELSE j + 1]
        /\ (IF i < k THEN i ELSE i + 1) \in 1..n /\ (IF j < k THEN j ELSE j + 1) \in 1..n
    BY <1>1, <1>2
  <2>2. (IF i < k THEN i ELSE i + 1) = (IF j < k THEN j ELSE j + 1)
    BY <1>3, <1>4, <2>1
  <2>. QED
    BY <1>1, <2>2
<1>5. ASSUME NEW d \in Callers, NEW i \in 1..n - 1, t[i] = d
      PROVE  d # s[k] /\ \E j \in 1..n : s[j] = d
  <2>1. PICK j \in 1..n : j = IF i < k THEN i ELSE i + 1
    BY <1>1
  <2>2. j # k /\ s[j] = d
    BY <1>1, <1>2, <1>5, <2>1
  <2>. QED
    BY <1>1, <1>3, <2>1, <2>2
<1>6. ASSUME NEW d \in Callers, d # s[k], NEW j \in 1..n, s[j] = d
      PROVE  \E i \in 1..n - 1 : t[i] = d
  <2>1. j # k
    BY <1>6
  <2>2. PICK i \in 1..n - 1 : i = IF j < k THEN j ELSE j - 1
    BY <1>1, <2>1
  <2>3. t[i] = s[j]
    BY <1>1, <1>2, <2>1, <2>2
  <2>. QED
    BY <1>6, <2>3
<1>. QED
  BY <1>1, <1>4, <1>5, <1>6

LEMMA TailLeft ==
  ASSUME NEW s \in Seq(Callers), s # <<>>
  PROVE  /\ Tail(s) \in Seq(Callers) /\ Len(Tail(s)) = Len(s) - 1
         /\ 1 \in DOMAIN s /\ Head(s) = s[1]
         /\ \A i \in 1..Len(Tail(s)) : Tail(s)[i] = IF i < 1 THEN s[i] ELSE s[i + 1]
<1>1. /\ Tail(s) \in Seq(Callers) /\ Len(Tail(s)) = Len(s) - 1
      /\ \A i \in 1..Len(Tail(s)) : Tail(s)[i] = s[i + 1]
  BY HeadTailProperties
<1>2. 1 \in DOMAIN s /\ Head(s) = s[1]
  OBVIOUS
<1>. QED
  BY <1>1, <1>2

LEMMA RemoveLeft ==
  ASSUME NEW s \in Seq(Callers), NEW k \in DOMAIN s
  PROVE  /\ RemoveAt(s, k) \in Seq(Callers) /\ Len(RemoveAt(s, k)) = Len(s) - 1
         /\ \A i \in 1..Len(RemoveAt(s, k)) :
              RemoveAt(s, k)[i] = IF i < k THEN s[i] ELSE s[i + 1]
<1>. DEFINE n == Len(s)
<1>1. n \in Nat /\ k \in 1..n /\ \A i \in 1..n : s[i] \in Callers
  OBVIOUS
<1>2. PICK a : a = SubSeq(s, 1, k - 1)
  OBVIOUS
<1>3. PICK b : b = SubSeq(s, k + 1, n)
  OBVIOUS
<1>. HIDE DEF n
<1>4. a \in Seq(Callers) /\ Len(a) = k - 1 /\ \A i \in 1..k - 1 : a[i] = s[i]
  <2>1. 1 \in Int /\ k - 1 \in Int /\ \A i \in 1..k - 1 : s[i] \in Callers
    BY <1>1
  <2>2. /\ SubSeq(s, 1, k - 1) \in Seq(Callers)
        /\ Len(SubSeq(s, 1, k - 1)) = IF 1 <= k - 1 THEN (k - 1) - 1 + 1 ELSE 0
        /\ \A i \in 1..(k - 1) - 1 + 1 : SubSeq(s, 1, k - 1)[i] = s[1 + i - 1]
    BY <2>1, SubSeqProperties
  <2>3. /\ a \in Seq(Callers)
        /\ Len(a) = IF 1 <= k - 1 THEN (k - 1) - 1 + 1 ELSE 0
        /\ \A i \in 1..(k - 1) - 1 + 1 : a[i] = s[1 + i - 1]
    BY <1>2, <2>2, Zenon
  <2>. QED
    BY <1>1, <2>3
<1>5. b \in Seq(Callers) /\ Len(b) = n - k /\ \A i \in 1..n - k : b[i] = s[k + i]
  <2>1. k + 1 \in Int /\ n \in Int /\ \A i \in k + 1..n : s[i] \in Callers
    BY <1>1
  <2>2. /\ SubSeq(s, k + 1, n) \in Seq(Callers)
        /\ Len(SubSeq(s, k + 1, n)) = IF k + 1 <= n THEN n - (k + 1) + 1 ELSE 0
        /\ \A i \in 1..n - (k + 1) + 1 : SubSeq(s, k + 1, n)[i] = s[k + 1 + i - 1]
    BY <2>1, SubSeqProperties
  <2>3. /\ b \in Seq(Callers)
        /\ Len(b) = IF k + 1 <= n THEN n - (k + 1) + 1 ELSE 0
        /\ \A i \in 1..n - (k + 1) + 1 : b[i] = s[k + 1 + i - 1]
    BY <1>3, <2>2, Zenon
  <2>. QED
    BY <1>1, <2>3
<1>6. PICK t : t = a \o b
  OBVIOUS
<1>7. /\ t \in Seq(Callers) /\ Len(t) = (k - 1) + (n - k)
      /\ \A i \in 1..(k - 1) + (n - k) : t[i] = IF i <= k - 1 THEN a[i] ELSE b[i - (k - 1)]
  <2>1. /\ a \o b \in Seq(Callers) /\ Len(a \o b) = Len(a) + Len(b)
        /\ \A i \in 1..Len(a) + Len(b) :
             (a \o b)[i] = IF i <= Len(a) THEN a[i] ELSE b[i - Len(a)]
    BY <1>4, <1>5, ConcatProperties, Zenon
  <2>. QED
    BY <1>4, <1>5, <1>6, <2>1, Zenon
<1>8. Len(t) = n - 1 /\ \A i \in 1..Len(t) : t[i] = IF i < k THEN s[i] ELSE s[i + 1]
  <2>1. Len(t) = n - 1
    BY <1>1, <1>7
  <2>2. ASSUME NEW i \in 1..n - 1 PROVE t[i] = IF i < k THEN s[i] ELSE s[i + 1]
    <3>1. CASE i < k
      <4>1. i \in 1..k - 1 /\ t[i] = a[i]
        BY <1>1, <1>7, <3>1
      <4>. QED
        BY <1>4, <3>1, <4>1
    <3>2. CASE ~(i < k)
      <4>1. i - (k - 1) \in 1..n - k /\ t[i] = b[i - (k - 1)] /\ k + (i - (k - 1)) = i + 1
        BY SMTT(60), <1>1, <1>7, <3>2
      <4>. QED
        BY <1>5, <3>2, <4>1
    <3>. QED
      BY <3>1, <3>2
  <2>. QED
    BY <2>1, <2>2
<1>9. RemoveAt(s, k) = t
  BY <1>2, <1>3, <1>6 DEF RemoveAt, n
<1>. QED
  BY <1>7, <1>8, <1>9, Zenon DEF n
LEMMA SlotStep ==
  ASSUME SlotsOK, ConsentInv, KeyInv, Next
  PROVE  SlotsOK'
<1>1. ASSUME NEW c \in Callers, Outside(c), UNCHANGED waiting PROVE SlotsOK'
  <2>1. \A d \in Callers : InHandler(d)' => InHandler(d)
    BY <1>1 DEF Outside, Alone, InCall, InHandler, Managed
  <2>2. \A d \in Callers : at'[d] = "wait" <=> at[d] = "wait"
    BY <1>1 DEF Outside, Alone, InCall
  <2>. QED
    BY <1>1, <2>1, <2>2, SlotsStay
<1>2. ASSUME NEW c \in Callers, Activity(c) PROVE SlotsOK'
  <2>1. UNCHANGED waiting
    BY <1>2 DEF Activity, CallTool, Chat, UseMemory, CreatePlan, Replan, ExecutePlan, HandleEvent,
       EvaluateRoute, Evaluate, ReadPlan, Starting, Apart, Aside, toolVars
  <2>. QED
    BY <1>1, <1>2, <2>1, ActivityOutside
<1>3. ASSUME NEW c \in Callers, Continue(c), ~Execute(c) PROVE SlotsOK'
  <2>1. UNCHANGED waiting
    BY <1>3 DEF Continue, PlannerStep, SaveReplan, ExecuteStep, FinishPlan, ApplyRule,
       FinishRules, ReadContext, ReadPolicy, MemoryReturns, Respond, CallEnds, Apart, Aside,
       toolVars
  <2>. QED
    BY <1>1, <1>3, <2>1, ContinueOutside
<1>4. ASSUME NEW c \in Callers, Execute(c) PROVE SlotsOK'
  <2>. USE DEF ConsentInv
  (* The caller goes on, or returns, without the queue.                    *)
  <2>1. ASSUME NEW stage \in Stages, at' = [at EXCEPT ![c] = stage], UNCHANGED <<via, waiting>>,
               at[c] # "wait" /\ stage # "wait",
               stage \in {"purge", "act", "ran"} => FreeSlot \/ InHandler(c) \/ ~Managed(c)
        PROVE  SlotsOK'
    <3>1. QueueInv' /\ Queued'
      BY <2>1 DEF SlotsOK, QueueInv, Queued
    <3>2. \A d \in Callers \ {c} : InHandler(d)' => InHandler(d)
      BY <2>1 DEF InHandler, Managed
    <3>3. FreeSlot \/ InHandler(c) \/ ~InHandler(c)'
      BY <2>1 DEF InHandler, Managed
    <3>. QED
      BY <3>1, <3>2, <3>3, SlotTaken
  (* The caller leaves the queue.                                          *)
  <2>2. ASSUME NEW stage \in {"purge", "back"}, at' = [at EXCEPT ![c] = stage], UNCHANGED via,
               NEW i \in DOMAIN waiting, waiting[i] = c, at[c] = "wait",
               waiting' \in Seq(Callers), Len(waiting') = Len(waiting) - 1,
               \A j \in 1..Len(waiting') :
                 waiting'[j] = IF j < i THEN waiting[j] ELSE waiting[j + 1],
               stage = "purge" => FreeSlot
        PROVE  SlotsOK'
    <3>1. /\ \A j, k \in DOMAIN waiting' : waiting'[j] = waiting'[k] => j = k
          /\ \A d \in Callers : (\E j \in DOMAIN waiting' : waiting'[j] = d)
                                  <=> d # c /\ \E j \in DOMAIN waiting : waiting[j] = d
      <4>1. PICK s \in Seq(Callers) : s = waiting
        BY DEF SlotsOK, QueueInv
      <4>2. PICK t \in Seq(Callers) : t = waiting'
        BY <2>2
      <4>3. Distinct(s) /\ i \in DOMAIN s /\ s[i] = c /\ Gap(s, t, i)
        BY <2>2, <4>1, <4>2 DEF SlotsOK, QueueInv, Distinct, Gap
      <4>4. Distinct(t) /\ \A d \in Callers : Among(d, t) <=> d # s[i] /\ Among(d, s)
        BY <4>3, Left
      <4>. QED
        BY <4>1, <4>2, <4>3, <4>4 DEF Distinct, Among
    <3>2. QueueInv'
      BY <2>2, <3>1 DEF QueueInv
    <3>3. Queued'
      <4>1. \A d \in Callers : at'[d] = "wait" <=> d # c /\ at[d] = "wait"
        BY <2>2
      <4>. QED
        BY <3>1, <4>1 DEF SlotsOK, Queued
    <3>4. \A d \in Callers \ {c} : InHandler(d)' => InHandler(d)
      BY <2>2 DEF InHandler, Managed
    <3>5. FreeSlot \/ ~InHandler(c)'
      BY <2>2 DEF InHandler
    <3>. QED
      BY <3>2, <3>3, <3>4, <3>5, SlotTaken
  <2>3. CASE Lookup(c)
    <3>1. at[c] = "lookup" /\ UNCHANGED via
      BY <2>3 DEF Lookup
    <3>2. CASE at' = [at EXCEPT ![c] = "back"] /\ UNCHANGED waiting
      BY <2>1, <3>1, <3>2 DEF Stages
    <3>3. CASE FreeSlot /\ at' = [at EXCEPT ![c] = "purge"] /\ UNCHANGED waiting
      BY <2>1, <3>1, <3>3 DEF Stages
    <3>4. CASE at' = [at EXCEPT ![c] = "wait"] /\ waiting' = Append(waiting, c)
      <4>1. ~ \E i \in DOMAIN waiting : waiting[i] = c
        BY <3>1 DEF SlotsOK, Queued
      <4>2. /\ waiting' \in Seq(Callers)
            /\ \A i, j \in DOMAIN waiting' : waiting'[i] = waiting'[j] => i = j
            /\ \A d \in Callers : (\E i \in DOMAIN waiting' : waiting'[i] = d)
                                    <=> d = c \/ \E i \in DOMAIN waiting : waiting[i] = d
        BY SMTT(60), <3>4, <4>1, Enqueued DEF SlotsOK, QueueInv
      <4>3. \A d \in Callers : at'[d] = "wait" <=> d = c \/ at[d] = "wait"
        BY <3>4
      <4>4. QueueInv' /\ Queued'
        BY <4>2, <4>3 DEF SlotsOK, QueueInv, Queued
      <4>5. \A d \in Callers \ {c} : InHandler(d)' => InHandler(d)
        BY <3>1, <3>4 DEF InHandler, Managed
      <4>6. ~InHandler(c)'
        BY <3>4 DEF InHandler
      <4>. QED
        BY <4>4, <4>5, <4>6, SlotTaken
    <3>. QED
      BY <2>3, <3>2, <3>3, <3>4 DEF Lookup, Return, Goto, EnterOrWait
  <2>4. CASE Admit(c)
    <3>1. /\ at[c] = "wait" /\ Head(waiting) = c /\ FreeSlot /\ waiting' = Tail(waiting)
          /\ at' = [at EXCEPT ![c] = "purge"] /\ UNCHANGED via
      BY <2>4 DEF Admit, Goto
    <3>2. PICK s \in Seq(Callers) : s = waiting
      BY DEF SlotsOK, QueueInv
    <3>3. s # <<>>
      BY <3>1, <3>2 DEF SlotsOK, Queued
    <3>4. /\ Tail(s) \in Seq(Callers) /\ Len(Tail(s)) = Len(s) - 1
          /\ 1 \in DOMAIN s /\ Head(s) = s[1]
          /\ \A i \in 1..Len(Tail(s)) : Tail(s)[i] = IF i < 1 THEN s[i] ELSE s[i + 1]
      BY <3>3, TailLeft
    <3>. QED
      BY <2>2, <3>1, <3>2, <3>4
  <2>5. CASE Cancel(c)
    <3>1. at' = [at EXCEPT ![c] = "back"] /\ UNCHANGED via
      BY <2>5 DEF Cancel, Return, Goto
    <3>2. CASE at[c] # "wait" /\ UNCHANGED waiting
      BY <2>1, <3>1, <3>2 DEF Stages
    <3>3. ASSUME at[c] = "wait", NEW i \in DOMAIN waiting, waiting[i] = c,
                 waiting' = RemoveAt(waiting, i)
          PROVE  SlotsOK'
      <4>1. /\ waiting' \in Seq(Callers) /\ Len(waiting') = Len(waiting) - 1
            /\ \A j \in 1..Len(waiting') :
                 waiting'[j] = IF j < i THEN waiting[j] ELSE waiting[j + 1]
        BY <3>3, RemoveLeft DEF SlotsOK, QueueInv
      <4>. QED
        BY <2>2, <3>1, <3>3, <4>1
    <3>. QED
      BY <2>5, <3>2, <3>3 DEF Cancel
  <2>6. CASE Purge(c) \/ Act(c)
    <3>1. /\ at[c] \in {"purge", "act"} /\ UNCHANGED <<via, waiting>>
          /\ \E stage \in {"act", "ran"} : at' = [at EXCEPT ![c] = stage]
      BY <2>6 DEF Purge, Act, Goto, toolVars
    <3>2. InHandler(c) \/ ~Managed(c)
      BY <3>1 DEF InHandler
    <3>. QED
      BY <2>1, <3>1, <3>2 DEF Stages
  <2>7. CASE Succeed(c) \/ HandlerFails(c) \/ Record(c)
    <3>1. /\ at[c] # "wait" /\ UNCHANGED <<via, waiting>>
          /\ \E stage \in {"record", "back"} : at' = [at EXCEPT ![c] = stage]
      BY <2>7 DEF Succeed, HandlerFails, Record, InHandler, Return, Goto
    <3>. QED
      BY <2>1, <3>1 DEF Stages
  <2>. QED
    BY <1>4, <2>3, <2>4, <2>5, <2>6, <2>7 DEF Execute
<1>5. CASE Incident
  <2>1. UNCHANGED <<at, via, waiting>>
    BY <1>5 DEF Incident, CoolDown, KeyExpires, PlanLapses, CreateRule, SetStatus, UserActs,
       IngestKnowledge, Tick, Apart, Aside, callVars, toolVars
  <2>. QED
    BY <2>1, SlotsStay DEF InHandler, Managed
<1>. QED
  BY <1>2, <1>3, <1>4, <1>5 DEF Next

(* The circuits, within their threshold; and what ran twice has run.       *)
CircuitsOK ==
  /\ open \in [ToolNames -> BOOLEAN]
  /\ repeated \subseteq started

LEMMA OpenStep ==
  ASSUME CircuitsOK, Next
  PROVE  CircuitsOK'
<1>. USE DEF CircuitsOK
<1>1. ASSUME NEW c \in Callers, Activity(c) PROVE UNCHANGED <<open, started, repeated>>
  BY <1>1 DEF Activity, CallTool, Chat, UseMemory, CreatePlan, Replan, ExecutePlan, HandleEvent,
     EvaluateRoute, Evaluate, ReadPlan, Starting, Apart, Aside, toolVars, toolHistory
<1>2. ASSUME NEW c \in Callers, Continue(c) PROVE CircuitsOK'
  <2>1. CASE Lookup(c) \/ Admit(c)
    BY <2>1 DEF Lookup, Admit, EnterOrWait, Start
  <2>2. CASE Succeed(c) \/ HandlerFails(c)
    BY <2>2 DEF Succeed, HandlerFails, ClearCircuit, CountFailure
  <2>3. CASE Purge(c) \/ Act(c) \/ Record(c) \/ Cancel(c)
    BY <2>3 DEF Purge, Act, Record, Cancel, toolVars, toolHistory
  <2>4. CASE ~Execute(c)
    BY <1>2, <2>4 DEF Continue, PlannerStep, SaveReplan, ExecuteStep, FinishPlan, ApplyRule,
       FinishRules, ReadContext, ReadPolicy, MemoryReturns, Respond, CallEnds, Apart, Aside,
       toolVars, toolHistory
  <2>. QED
    BY <2>1, <2>2, <2>3, <2>4 DEF Execute
<1>3. CASE Incident
  BY <1>3 DEF Incident, CoolDown, KeyExpires, PlanLapses, CreateRule, SetStatus, UserActs,
     IngestKnowledge, Tick, Apart, Aside, toolVars, toolHistory
<1>. QED
  BY <1>1, <1>2, <1>3 DEF Next

(* The count of a circuit is a remainder.                                  *)
LEMMA CircuitRange == ASSUME CircuitInv PROVE failures \in [ToolNames -> 0..CircuitFailures - 1]
<1>1. \A t \in ToolNames : failures[t] \in 0..CircuitFailures - 1
  <2>1. SUFFICES ASSUME NEW t \in ToolNames PROVE streak[t] % CircuitFailures \in 0..CircuitFailures - 1
    BY DEF CircuitInv, CircuitCounts
  <2>2. streak[t] \in Nat
    BY DEF CircuitInv
  <2>. QED
    BY <2>2, Division, ToolAssumption
<1>. QED
  BY <1>1 DEF CircuitInv

(* The parts make the whole.                                               *)
Typed == StagesOK /\ MemoryTypeOK /\ SlotsOK /\ CircuitsOK /\ PlanInv /\ AutomationTypeOK

LEMMA TypedIsTypeOK == ASSUME Typed, CircuitInv, ToldInv PROVE TypeOK
<1>1. PlannerTypeOK
  <2>1. planned \subseteq Row /\ PlanOK(plan) /\ step \in [Callers -> 0..MaxSteps + 1]
    BY DEF Typed, PlanInv, ToldInv
  <2>2. \A c \in Callers : PlanOK(readPlan[c])
    BY DEF Typed, PlanInv
  <2>. QED
    BY <2>1, <2>2 DEF PlannerTypeOK, PlanOK
<1>2. ToolTypeOK
  <2>1. failures \in [ToolNames -> 0..CircuitFailures - 1]
    BY CircuitRange
  <2>2. \A c \in Callers : at[c] = "wait" <=> c \in ToSet(waiting)
    BY DEF Typed, SlotsOK, Queued, ToSet
  <2>3. waiting \in Seq(Callers) /\ Cardinality({c \in Callers : InHandler(c)}) <= MaxConcurrency
    BY DEF Typed, SlotsOK, QueueInv, Holders
  <2>. QED
    BY <2>1, <2>2, <2>3 DEF Typed, StagesOK, CircuitsOK, ToolTypeOK
<1>. QED
  BY <1>1, <1>2 DEF Typed, StagesOK, TypeOK

LEMMA InitTyped == Init => Typed
<1>. SUFFICES ASSUME Init PROVE Typed
  OBVIOUS
<1>1. MemoryTypeOK
  BY MemoryAssumption DEF Init, MemoryInit, MemoryTypeOK, Absent
<1>2. PICK n \in {0, 1} : \E events : ToolInit(n, events)
  BY DEF Init
<1>3. /\ at = [c \in Callers |-> "idle"] /\ answer = [c \in Callers |-> "none"]
      /\ waiting = <<>> /\ open = [t \in ToolNames |-> FALSE] /\ repeated = {}
  BY <1>2 DEF ToolInit
<1>4. StagesOK /\ CircuitsOK
  BY <1>3 DEF StagesOK, CircuitsOK, AssistantStages, Stages, Outcomes
<1>5. SlotsOK
  <2>1. Holders = {}
    BY <1>3 DEF Holders, InHandler
  <2>2. Cardinality(Holders) = 0
    BY <2>1, FS_EmptySet
  <2>. QED
    BY <1>3, <2>2, ToolAssumption DEF SlotsOK, QueueInv, Queued
<1>6. PlanInv
  <2>1. /\ plan = NoPlan \/ plan = FirstPlan("memory.remember")
        /\ readPlan = [c \in Callers |-> NoPlan] /\ step = [c \in Callers |-> 0]
    BY DEF Init, PlannerInit
  <2>2. PlanOK(plan)
    BY <2>1, NoPlanOK, FirstPlanOK DEF ToolNames
  <2>. QED
    BY <1>3, <2>1, <2>2, NoPlanOK, PlannerAssumption DEF PlanInv
<1>7. AutomationTypeOK
  BY DEF Init, AutomationInit, AutomationTypeOK, NoRule, TriggerEvents, ToolNames, Written
<1>. QED
  BY <1>1, <1>4, <1>5, <1>6, <1>7 DEF Typed

(* What is where it should be: among the rest, the semaphore's slots and   *)
(* its queue, the counts of the circuits, revisions and lengths of plans,  *)
(* and rules that are there with what they trigger (execute_tool,          *)
(* _record_failure, replan, _steps_for_resolution, create_rule).           *)
THEOREM TypeCorrect == Spec => []TypeOK
<1>1. Inv /\ ToldInv /\ Typed /\ [Next]_vars => Typed'
  <2>. SUFFICES ASSUME Inv, ToldInv, Typed, [Next]_vars PROVE Typed'
    OBVIOUS
  <2>1. CASE Next
    <3>1. StagesOK' /\ MemoryTypeOK' /\ CircuitsOK' /\ AutomationTypeOK'
      BY <2>1, StageStep, MemoryTypes, OpenStep, RuleStep DEF Typed
    <3>2. SlotsOK' /\ PlanInv'
      BY <2>1, SlotStep, PlanStep DEF Typed, Inv
    <3>. QED
      BY <3>1, <3>2 DEF Typed
  <2>2. CASE UNCHANGED vars
    <3>. USE DEF vars, toolVars, callVars, toolHistory, memoryVars, planVars, ruleVars
    <3>1. StagesOK' /\ MemoryTypeOK' /\ CircuitsOK' /\ AutomationTypeOK'
      BY <2>2 DEF Typed, StagesOK, MemoryTypeOK, CircuitsOK, AutomationTypeOK
    <3>2. PlanInv'
      BY <2>2 DEF Typed, PlanInv, PlanOK
    <3>3. SlotsOK'
      BY <2>2, SlotsStay DEF Typed, InHandler, Managed
    <3>. QED
      BY <3>1, <3>2, <3>3 DEF Typed
  <2>. QED
    BY <2>1, <2>2
<1>2. Inv /\ ToldInv /\ Typed => TypeOK
  BY TypedIsTypeOK DEF Inv
<1>. QED
  BY <1>1, <1>2, InitTyped, Invariance, ToldInvariance, PTL DEF Spec
=============================================================================
