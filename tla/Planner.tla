------------------------------- MODULE Planner -------------------------------
(***************************************************************************)
(* PlannerService: a plan in Redis, made from what a text asks for,        *)
(* replanned (one step in front, one revision up) and executed step by     *)
(* step through the tool manager.  replan reads the plan and writes its    *)
(* successor; execute reads it once and goes on with what it has read.     *)
(*                                                                         *)
(* One plan.  A step is the name of its tool, or "none" for a step without *)
(* one.  Left out: the descriptions and the planner's events.              *)
(***************************************************************************)
EXTENDS ToolManager

CONSTANTS
  MaxSteps,        \* planner_max_steps
  MaxReplans       \* planner_max_replans

ASSUME PlannerAssumption == MaxSteps \in Nat \ {0} /\ MaxReplans \in Nat

VARIABLES
  plan,            \* the plan in Redis
  planned,         \* the row its text is about; history once it has lapsed
  readPlan,        \* what a caller has read
  step             \* the step a caller executes

planVars == <<plan, planned, readPlan, step>>

NoStep == "none"
NoPlan == [revision |-> -1, steps |-> <<>>]

Truncated(steps) == SubSeq(steps, 1, IF Len(steps) < MaxSteps THEN Len(steps) ELSE MaxSteps)

(* _steps_for_resolution: the tool and the response, or two steps without. *)
StepsFor(tool) == Truncated(<<tool, NoStep>>)

FirstPlan(tool) == [revision |-> 0, steps |-> StepsFor(tool)]

(* No plan yet, or the first one about the row m.                          *)
PlannerInit(m) ==
  /\ planned = m
  /\ plan = IF m = {} THEN NoPlan ELSE FirstPlan("memory.remember")
  /\ readPlan = [c \in Callers |-> NoPlan]
  /\ step = [c \in Callers |-> 0]

\* What the activities of this module leave alone.
Apart == UNCHANGED <<toolVars, bus, started, repeated, excused, streak, memoryVars>>

EndPlan(c) ==
  /\ End(c)
  /\ readPlan' = [readPlan EXCEPT ![c] = NoPlan]
  /\ step' = [step EXCEPT ![c] = 0]

(* create_plan saves revision 0; a plan is created once.                   *)
SavePlan(tool, m) ==
  /\ planned = {}
  /\ planned' = {m}
  /\ plan' = FirstPlan(tool)
  /\ UNCHANGED <<readPlan, step>>

CreatePlan(c, tool, m) ==
  /\ at[c] = "idle"
  /\ SavePlan(tool, m)
  /\ End(c) /\ Apart

(* replan and execute_plan read the plan first.                            *)
ReadPlan(c, who, stage) ==
  /\ Begin(c, who)
  /\ readPlan' = [readPlan EXCEPT ![c] = plan]
  /\ step' = [step EXCEPT ![c] = 1]
  /\ Goto(c, stage)
  /\ Apart /\ UNCHANGED <<plan, planned, job, answer, ticked>>

\* A replan beyond the last one, or of a plan that is not there, is refused.
Replan(c) ==
  /\ plan # NoPlan /\ plan.revision < MaxReplans
  /\ ReadPlan(c, "replan", "save")
  /\ UNCHANGED consent

\* With or without the user's confirmation of the tool steps.
ExecutePlan(c, confirmed) ==
  /\ plan # NoPlan
  /\ ReadPlan(c, "execute", "step")
  /\ consent' = IF confirmed THEN consent \union {c} ELSE consent

(* The successor of the plan that was read, whatever is there by now.      *)
SaveReplan(c) ==
  /\ at[c] = "save"
  /\ plan' = [revision |-> readPlan[c].revision + 1,
              steps |-> Truncated(<<NoStep>> \o readPlan[c].steps)]
  /\ EndPlan(c)
  /\ Apart /\ UNCHANGED planned

PlanLapses ==
  /\ plan # NoPlan
  /\ plan' = NoPlan
  /\ Apart /\ UNCHANGED <<planned, readPlan, step, callVars, consent, ticked>>

(* The steps of c from the i-th on that have a tool.                       *)
ToolSteps(c, i) == {j \in i..Len(readPlan[c].steps) : readPlan[c].steps[j] # NoStep}

\* Mutant: the planner confirms what its plan says.
FabricatedConsent(c) == TRUE

Confirmed(c) == c \in consent

(* The next step with a tool is executed; those without are completed on   *)
(* the way.                                                                *)
ExecuteStep(c) ==
  /\ via[c] = "execute"
  /\ \/ at[c] = "step"
     \/ at[c] = "back" /\ answer[c] \in {"ok", "cached"}
  /\ \E j \in ToolSteps(c, step[c]) :
       /\ \A i \in ToolSteps(c, step[c]) : j <= i
       /\ step' = [step EXCEPT ![c] = j + 1]
       /\ \E m \in planned :
            Request(c, readPlan[c].steps[j], <<"plan", readPlan[c].revision, j>>,
                    m, Confirmed(c))
  /\ Apart /\ UNCHANGED <<plan, planned, readPlan, via, consent, ticked>>

(* The plan is completed, or a step lacked its confirmation or failed.     *)
FinishPlan(c) ==
  /\ via[c] = "execute"
  /\ \/ at[c] = "back" /\ answer[c] \notin {"ok", "cached"}
     \/ at[c] \in {"step", "back"} /\ ToolSteps(c, step[c]) = {}
  /\ EndPlan(c)
  /\ Apart /\ UNCHANGED <<plan, planned>>

PlannerStep(c) == SaveReplan(c) \/ ExecuteStep(c) \/ FinishPlan(c)

PlannerTypeOK ==
  /\ plan.revision \in -1..MaxReplans
  /\ planned \subseteq Row
  /\ \A c \in Callers :
       /\ readPlan[c].revision \in -1..MaxReplans
       /\ Len(readPlan[c].steps) <= MaxSteps
       /\ step[c] \in 0..MaxSteps + 1
=============================================================================
