----------------------------- MODULE Automation -----------------------------
(***************************************************************************)
(* AutomationService: a user's rules, and their evaluation by a handler of *)
(* the event bus or by the route /automation/evaluate.  An evaluation      *)
(* reads the rules once and takes them one after the other; whatever one   *)
(* of them raises is swallowed.  The bus may deliver an event again.       *)
(*                                                                         *)
(* Left out: names, arguments and their templates (an argument that cannot *)
(* be resolved ends in the handler's ValueError or before the call), the   *)
(* order of the rules, and last_triggered_at.                              *)
(***************************************************************************)
EXTENDS ToolManager

CONSTANTS
  Rules            \* rule identifiers (uuid4, never drawn twice)

TriggerEvents == {"conversation.message.responded", "memory.long_term.written",
                  "knowledge.document.ingested"}

VARIABLES
  rule,            \* trigger and tool of each rule, fixed when created
  status,          \* "none", "enabled", "disabled" or "deleted"
  event,           \* the event a caller evaluates
  pending          \* the rules it has read and not yet taken

ruleVars == <<rule, status, event, pending>>

NoRule  == [trigger |-> "none", tool |-> "none"]
NoEvent == <<"none">>        \* an evaluation without an event_id

(* No rules yet, or each with the same trigger and tool.                   *)
AutomationInit(some) ==
  /\ rule = [r \in Rules |-> some]
  /\ status = [r \in Rules |-> IF some = NoRule THEN "none" ELSE "enabled"]
  /\ event = [c \in Callers |-> NoEvent]
  /\ pending = [c \in Callers |-> {}]

\* What the actions of this module leave alone.
Aside == UNCHANGED <<toolVars, bus, toolHistory, memoryVars>>

Unattended(t) == AutomationSafe(t) /\ ~RequiresConfirmation(t)

(* create_rule: an allowed trigger and a tool that may run unattended.     *)
CreateRule(r, trigger, tool) ==
  /\ status[r] = "none"
  /\ trigger \in TriggerEvents
  /\ Unattended(tool)
  /\ rule' = [rule EXCEPT ![r] = [trigger |-> trigger, tool |-> tool]]
  /\ status' = [status EXCEPT ![r] = "enabled"]
  /\ Aside /\ UNCHANGED <<event, pending, callVars>>

(* set_enabled and delete of a rule that is there.                         *)
SetStatus(r, s) ==
  /\ status[r] \in {"enabled", "disabled"}
  /\ status' = [status EXCEPT ![r] = s]
  /\ Aside /\ UNCHANGED <<rule, event, pending, callVars>>

(* list_for_event, from handle_event or from the route, which may name an  *)
(* event or not.                                                           *)
Evaluate(c, type, e) ==
  /\ Begin(c, "rules")
  /\ event' = [event EXCEPT ![c] = e]
  /\ pending' = [pending EXCEPT ![c] =
                   {r \in Rules : status[r] = "enabled" /\ rule[r].trigger = type}]
  /\ Goto(c, "rules")
  /\ Aside /\ UNCHANGED <<rule, status, job, answer>>

HandleEvent(c, e) == e \in bus /\ Evaluate(c, e[2], e)

EvaluateRoute(c, type) == type \in TriggerEvents /\ Evaluate(c, type, NoEvent)

(* The next rule that was read, if its tool is still one that may run      *)
(* unattended; the outcome of the one before makes no difference.          *)
ApplyRule(c) ==
  /\ at[c] \in {"rules", "back"} /\ via[c] = "rules" /\ answer[c] # "cancelled"
  /\ \E r \in pending[c] :
       /\ pending' = [pending EXCEPT ![c] = @ \ {r}]
       /\ IF Unattended(rule[r].tool)
            THEN Request(c, rule[r].tool, <<"rule", r, event[c]>>, NoJob.row, FALSE)
            ELSE Goto(c, "rules") /\ UNCHANGED <<job, answer>>
  /\ Aside /\ UNCHANGED <<rule, status, event, via>>

FinishRules(c) ==
  /\ at[c] \in {"rules", "back"} /\ via[c] = "rules"
  /\ pending[c] = {} \/ answer[c] = "cancelled"
  /\ End(c)
  /\ event' = [event EXCEPT ![c] = NoEvent]
  /\ pending' = [pending EXCEPT ![c] = {}]
  /\ UNCHANGED <<rule, status, toolVars, bus, started, repeated, excused, streak, memoryVars>>

AutomationTypeOK ==
  /\ rule \in [Rules -> [trigger : TriggerEvents \union {"none"},
                         tool : ToolNames \union {"none"}]]
  /\ status \in [Rules -> {"none", "enabled", "disabled", "deleted"}]
  /\ \A r \in Rules : status[r] = "none" <=> rule[r] = NoRule
  /\ pending \in [Callers -> SUBSET Rules]
=============================================================================
