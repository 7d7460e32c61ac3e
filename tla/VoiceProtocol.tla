---------------------------- MODULE VoiceProtocol ----------------------------
(***************************************************************************)
(* What the client of /ws/voice may rely on, whatever the transcription,   *)
(* the conversation and the synthesis do: a turn that was accepted is      *)
(* answered once, by the completed response or by an error that names it,  *)
(* before the next turn begins, unless the connection is over.  It is what *)
(* the table of transitions of modules/voice/domain promises; VoiceSession *)
(* is shown to implement it.                                               *)
(***************************************************************************)
EXTENDS Naturals

VARIABLES
  phase,           \* of the connection, as the client sees it
  turns,           \* turns accepted so far
  answers          \* turns answered so far

vars == <<phase, turns, answers>>

Phases == {"opened", "ready", "recording", "answering", "over"}

Init == phase = "opened" /\ turns = 0 /\ answers = 0

StartSession ==
  /\ phase = "opened"
  /\ phase' = "ready"
  /\ UNCHANGED <<turns, answers>>

StartTurn ==
  /\ phase = "ready"
  /\ phase' = "recording"
  /\ turns' = turns + 1
  /\ UNCHANGED answers

EndTurn ==
  /\ phase = "recording"
  /\ phase' = "answering"
  /\ UNCHANGED <<turns, answers>>

(* An empty or late turn is answered, by an error, as soon as it ends.     *)
Answer ==
  /\ phase \in {"recording", "answering"}
  /\ phase' = "ready"
  /\ answers' = answers + 1
  /\ UNCHANGED turns

Close ==
  /\ phase # "over"
  /\ phase' = "over"
  /\ UNCHANGED <<turns, answers>>

Next == StartSession \/ StartTurn \/ EndTurn \/ Answer \/ Close

(* A turn does not stay in the works for ever, nor does the connection.    *)
Spec ==
  /\ Init /\ [][Next]_vars
  /\ WF_vars(phase = "answering" /\ (Answer \/ Close))
  /\ WF_vars(Close)
=============================================================================
