---------------------------- MODULE VoiceSession ----------------------------
(***************************************************************************)
(* One connection to /ws/voice from its acceptance to its end (modules/    *)
(* voice): the loop that receives frames, the state machine of the session,*)
(* the audio it buffers and the turn it runs through transcription,        *)
(* conversation and synthesis.  How many such connections there are, and   *)
(* what they hold, is the subject of Connections.                          *)
(*                                                                         *)
(* A handler is cut at the awaits of the services; the sends in between    *)
(* belong to the step they end, and may raise once the peer is gone, which *)
(* ends the connection.  Frames the client sent before the server closed   *)
(* may still be received after it.                                         *)
(*                                                                         *)
(* Left out: the wording of messages, the interaction identifier beyond    *)
(* its validity, and the time a service takes within its timeout.          *)
(***************************************************************************)
EXTENDS Naturals

CONSTANTS
  MaxChunk,        \* voice_max_chunk_bytes
  MaxAudio,        \* voice_max_turn_bytes
  MaxTurns         \* bound: turns of one session

ASSUME VoiceAssumption ==
  /\ MaxChunk \in Nat \ {0}
  /\ MaxAudio \in Nat \ {0}
  /\ MaxTurns \in Nat

VARIABLES
  state,           \* session.state
  at,              \* the await the handler is suspended in
  sessionId,       \* whether session.session_id is set
  audio,           \* bytes of session.audio
  turnClock,       \* turn_started_at: none, within or over the limit
  expired,         \* voice_session_max_seconds have passed
  closed,          \* the server sent a close frame, the loop still receives
  peer,            \* whether the client is there
  turns,           \* turns accepted
  answers,         \* turns answered, by a completed response or an error
  calls            \* requests made to each service

vars == <<state, at, sessionId, audio, turnClock, expired, closed, peer,
          turns, answers, calls>>

session  == <<state, sessionId, audio, turnClock>>
history  == <<turns, answers, calls>>

Services == {"transcribe", "chat", "synthesize"}
-----------------------------------------------------------------------------
(***************************************************************************)
(* _TRANSITIONS.  "error" and "response.started" stand in the table of the *)
(* code, and no caller uses them.                                          *)
(***************************************************************************)
States == {"CONNECTED", "SESSION_READY", "LISTENING", "TRANSCRIBING", "THINKING",
           "SYNTHESIZING", "RESPONDING", "IDLE", "CLOSED", "ERROR"}

Transitions ==
  {<<"CONNECTED",    "session.start",      "SESSION_READY">>,
   <<"SESSION_READY","turn.start",         "LISTENING">>,
   <<"IDLE",         "turn.start",         "LISTENING">>,
   <<"LISTENING",    "turn.end",           "TRANSCRIBING">>,
   <<"TRANSCRIBING", "transcript.final",   "THINKING">>,
   <<"THINKING",     "response.text",      "SYNTHESIZING">>,
   <<"SYNTHESIZING", "response.audio",     "RESPONDING">>,
   <<"RESPONDING",   "response.completed", "IDLE">>,
   <<"ERROR",        "recover",            "IDLE">>}
  \union {<<s, "turn.error", "IDLE">> :
            s \in {"TRANSCRIBING", "THINKING", "SYNTHESIZING", "RESPONDING"}}
  \union {<<s, "session.stop", "CLOSED">> : s \in States \ {"CLOSED"}}

Allowed(s, event) == \E t \in Transitions : t[1] = s /\ t[2] = event

\* transition_voice_state, where it does not raise.
After(s, event) == CHOOSE s2 \in States : <<s, event, s2>> \in Transitions

Transition(event) == Allowed(state, event) /\ state' = After(state, event)

\* The states of a turn in the works.
InTurn == {"LISTENING", "TRANSCRIBING", "THINKING", "SYNTHESIZING", "RESPONDING"}
-----------------------------------------------------------------------------
(***************************************************************************)
(* Steps.                                                                  *)
(***************************************************************************)
Init ==
  /\ state = "CONNECTED"
  /\ at = "receive"
  /\ sessionId = FALSE
  /\ audio = 0
  /\ turnClock = "none"
  /\ expired = FALSE
  /\ closed = FALSE
  /\ peer = TRUE
  /\ turns = 0
  /\ answers = 0
  /\ calls = [s \in Services |-> 0]

\* The loop takes a frame; before each one it looks at the session's age.
Receiving == at = "receive" /\ ~expired

\* What is sent goes out, as far as the server can tell.
Sending == ~closed /\ UNCHANGED <<expired, closed, peer>>

Call(service) ==
  /\ at' = service
  /\ calls' = [calls EXCEPT ![service] = @ + 1]

(* voice.session.start with a session that is the ticket's and the user's; *)
(* session_id is set before interaction_id is looked at.                   *)
HandleSessionStart ==
  /\ Receiving /\ Sending
  /\ state = "CONNECTED"
  /\ sessionId' = TRUE
  /\ Transition("session.start") \/ UNCHANGED state
  /\ UNCHANGED <<at, audio, turnClock, history>>

(* SESSION_MISMATCH, SESSION_NOT_FOUND: an error, then the close frame;    *)
(* the loop goes on to receive.                                            *)
RefuseSessionStart ==
  /\ Receiving
  /\ ~closed /\ closed' = TRUE
  /\ state = "CONNECTED"
  /\ UNCHANGED <<session, at, expired, peer, history>>

\* Mutant: a turn in progress may be started over.
RestartTurn ==
  /\ Receiving /\ Sending
  /\ turns < MaxTurns
  /\ state \in {"SESSION_READY", "IDLE", "LISTENING"}
  /\ audio' = 0
  /\ turnClock' = "within"
  /\ state' = "LISTENING"
  /\ turns' = turns + 1
  /\ UNCHANGED <<at, sessionId, answers, calls>>

HandleTurnStart ==
  /\ Receiving /\ Sending
  /\ turns < MaxTurns
  /\ state \in {"SESSION_READY", "IDLE"}
  /\ audio' = 0
  /\ turnClock' = "within"
  /\ Transition("turn.start")
  /\ turns' = turns + 1
  /\ UNCHANGED <<at, sessionId, answers, calls>>

(* A valid chunk is buffered, without an answer.                           *)
HandleAudioChunk(size) ==
  /\ Receiving
  /\ state = "LISTENING"
  /\ size <= MaxChunk
  /\ turnClock # "over"
  /\ audio + size <= MaxAudio
  /\ audio' = audio + size
  /\ UNCHANGED <<state, sessionId, turnClock, at, expired, closed, peer, history>>

(* AUDIO_CHUNK_TOO_LARGE, TURN_TIMEOUT, AUDIO_TURN_TOO_LARGE: an error and *)
(* the close frame; session and buffer stay as they are.                   *)
RefuseAudioChunk(size) ==
  /\ Receiving
  /\ state = "LISTENING"
  /\ size > MaxChunk \/ turnClock = "over" \/ audio + size > MaxAudio
  /\ ~closed /\ closed' = TRUE
  /\ UNCHANGED <<session, at, expired, peer, history>>

\* Mutant: the error is sent, and the session stays where it was.
RecoverWithoutState ==
  /\ Sending
  /\ audio' = 0
  /\ turnClock' = "none"
  /\ at' = "receive"
  /\ answers' = answers + 1
  /\ UNCHANGED <<state, sessionId, turns>>

(* _recover_turn: LISTENING has no turn.error, and goes by way of ERROR.   *)
RecoverTurn ==
  /\ Sending
  /\ audio' = 0
  /\ turnClock' = "none"
  /\ \/ Transition("turn.error")
     \/ ~Allowed(state, "turn.error") /\ state' = After("ERROR", "recover")
  /\ at' = "receive"
  /\ answers' = answers + 1
  /\ UNCHANGED <<sessionId, turns>>

(* voice.turn.end without audio, or too late.                              *)
RejectTurn ==
  /\ Receiving
  /\ state = "LISTENING"
  /\ audio = 0 \/ turnClock = "over"
  /\ RecoverTurn
  /\ UNCHANGED calls

\* Mutant: the buffer is copied and kept.
HandleTurnKeepsAudio ==
  /\ Receiving /\ Sending
  /\ state = "LISTENING"
  /\ audio > 0 /\ turnClock # "over"
  /\ turnClock' = "none"
  /\ Transition("turn.end")
  /\ Call("transcribe")
  /\ UNCHANGED <<sessionId, audio, turns, answers>>

\* Mutant: a send that raises is only logged.
HandleTurnUnheard ==
  /\ Receiving
  /\ state = "LISTENING"
  /\ audio > 0 /\ turnClock # "over"
  /\ audio' = 0
  /\ turnClock' = "none"
  /\ Transition("turn.end")
  /\ Call("transcribe")
  /\ UNCHANGED <<sessionId, turns, answers, expired, closed, peer>>

(* voice.turn.end: the buffer is handed over and emptied.                  *)
HandleTurn ==
  /\ Receiving /\ Sending
  /\ state = "LISTENING"
  /\ audio > 0 /\ turnClock # "over"
  /\ audio' = 0
  /\ turnClock' = "none"
  /\ Transition("turn.end")
  /\ Call("transcribe")
  /\ UNCHANGED <<sessionId, turns, answers>>

Transcribed ==
  /\ at = "transcribe" /\ Sending
  /\ Transition("transcript.final")
  /\ Call("chat")
  /\ UNCHANGED <<sessionId, audio, turnClock, turns, answers>>

Conversed ==
  /\ at = "chat" /\ Sending
  /\ Transition("response.text")
  /\ Call("synthesize")
  /\ UNCHANGED <<sessionId, audio, turnClock, turns, answers>>

(* response.audio, the audio itself and response.completed in a row.       *)
Synthesized ==
  /\ at = "synthesize" /\ Sending
  /\ Allowed(state, "response.audio")
  /\ state' = After(After(state, "response.audio"), "response.completed")
  /\ at' = "receive"
  /\ answers' = answers + 1
  /\ UNCHANGED <<sessionId, audio, turnClock, turns, calls>>

\* Mutant: a service that failed is asked again.
AskAgain ==
  /\ at \in Services /\ Sending
  /\ calls[at] < 2 * MaxTurns
  /\ Call(at)
  /\ UNCHANGED <<session, turns, answers>>

(* STT_FAILED, STT_EMPTY, CONVERSATION_FAILED, TTS_FAILED: a refusal, an   *)
(* error or the timeout of the service at hand.                            *)
ServiceFails ==
  /\ at \in Services
  /\ RecoverTurn
  /\ UNCHANGED calls

(* A message that is not valid, or not valid now: an error, the session    *)
(* unchanged.                                                              *)
RejectMessage ==
  /\ Receiving /\ Sending
  /\ UNCHANGED <<session, at, history>>

End == at' = "ended" /\ UNCHANGED <<session, expired, closed, peer, history>>

(* voice.session.stop, valid in every state: CLOSED, an answer, the end.   *)
HandleSessionStop ==
  /\ Receiving
  /\ Transition("session.stop")
  /\ at' = "ended"
  /\ UNCHANGED <<sessionId, audio, turnClock, expired, closed, peer, history>>

\* Mutant: only silence is looked at, never the age of the session.
TimeOutOnSilence == at = "receive" /\ ~expired /\ End

(* The client was silent for too long, or the session is too old.          *)
TimeOut == at = "receive" /\ End

(* receive() answers that the client, or the server, closed.               *)
Disconnected == at = "receive" /\ (closed \/ ~peer) /\ End

(* A send raises: the exception leaves the loop.                           *)
SendRaises == at # "ended" /\ (closed \/ ~peer) /\ End

(* owns_session or the transcription raises what no handler expects.       *)
HandlerRaises ==
  /\ \/ Receiving /\ state = "CONNECTED"
     \/ at = "transcribe"
  /\ End

PeerLeaves ==
  /\ peer
  /\ peer' = FALSE
  /\ UNCHANGED <<session, at, expired, closed, history>>

TurnRunsLate ==
  /\ turnClock = "within"
  /\ turnClock' = "over"
  /\ UNCHANGED <<state, sessionId, audio, at, expired, closed, peer, history>>

SessionExpires ==
  /\ at # "ended"
  /\ ~expired /\ expired' = TRUE
  /\ UNCHANGED <<session, at, closed, peer, history>>
-----------------------------------------------------------------------------
Sizes == {0, 1, MaxChunk, MaxChunk + 1}

\* What the client sends.
Receive ==
  \/ HandleSessionStart \/ RefuseSessionStart \/ HandleTurnStart
  \/ \E size \in Sizes : HandleAudioChunk(size) \/ RefuseAudioChunk(size)
  \/ RejectTurn \/ HandleTurn \/ RejectMessage \/ HandleSessionStop

\* What comes without the client: every service has a timeout.
Serve == Transcribed \/ Conversed \/ Synthesized \/ ServiceFails \/ SendRaises

Next ==
  \/ Receive \/ Serve \/ HandlerRaises
  \/ TimeOut \/ Disconnected
  \/ PeerLeaves \/ TurnRunsLate \/ SessionExpires

Spec == Init /\ [][Next]_vars

(* Time passes, wait_for comes back, and asyncio runs what is ready.       *)
FairSpec ==
  /\ Spec
  /\ WF_vars(at \in Services /\ Serve)
  /\ WF_vars(SessionExpires)
  /\ WF_vars(expired /\ TimeOut)
-----------------------------------------------------------------------------
(***************************************************************************)
(* Properties.                                                             *)
(***************************************************************************)

(* Types, and the state the session is in at each await.                   *)
TypeOK ==
  /\ state \in States
  /\ at \in Services \union {"receive", "ended"}
  /\ sessionId \in BOOLEAN
  /\ audio \in 0..MaxAudio
  /\ turnClock \in {"none", "within", "over"}
  /\ expired \in BOOLEAN /\ closed \in BOOLEAN /\ peer \in BOOLEAN
  /\ turns \in 0..MaxTurns
  /\ answers \in Nat
  /\ calls \in [Services -> Nat]
  /\ at = "transcribe" => state = "TRANSCRIBING"
  /\ at = "chat" => state = "THINKING"
  /\ at = "synthesize" => state = "SYNTHESIZING"
  /\ at = "receive" => state \in {"CONNECTED", "SESSION_READY", "LISTENING", "IDLE"}

(* "Audio is held in memory for the active turn and is discarded after     *)
(* processing" (README.md:51): no bytes are held, and no turn clock runs,  *)
(* outside LISTENING, over any mix of turns, errors and refusals.          *)
AudioOnlyWhileListening ==
  at # "ended" /\ state # "LISTENING" => audio = 0 /\ turnClock = "none"

(* Every turn is answered exactly once, and the services of a turn are     *)
(* asked at most once each, in order: no failure makes a transcript go to  *)
(* the conversation twice, and none leaves a turn without an answer.       *)
TurnAccounting ==
  /\ answers <= turns
  /\ at # "ended" => turns = answers + (IF state \in InTurn THEN 1 ELSE 0)
  /\ calls["transcribe"] <= turns
  /\ calls["chat"] <= calls["transcribe"]
  /\ calls["synthesize"] <= calls["chat"]

(* Once the server has closed over a limit, nothing the client sent before  *)
(* reaches a service any more.                                             *)
NoServiceAfterClose == [][closed => calls' = calls]_vars

(* The session promises what VoiceProtocol says.                           *)
Phase ==
  CASE at = "ended" \/ closed -> "over"
    [] at # "ended" /\ ~closed /\ state = "CONNECTED" -> "opened"
    [] at # "ended" /\ ~closed /\ state \in {"SESSION_READY", "IDLE"} -> "ready"
    [] at # "ended" /\ ~closed /\ state = "LISTENING" -> "recording"
    [] OTHER -> "answering"

Protocol == INSTANCE VoiceProtocol WITH phase <- Phase

ImplementsProtocol == Protocol!Spec

(* Whatever the client does, the connection ends and gives back its slot.  *)
SessionEnds == <>(at = "ended")
-----------------------------------------------------------------------------
(***************************************************************************)
(* The inductive strengthening of TurnAccounting: a service is asked only  *)
(* in a turn that is not answered yet, and after the one before it.        *)
(***************************************************************************)
CallsOK ==
  /\ at = "receive" => calls["transcribe"] <= answers
  /\ at = "transcribe" => calls["chat"] < calls["transcribe"]
  /\ at = "chat" => calls["synthesize"] < calls["chat"]

IInv == TypeOK /\ AudioOnlyWhileListening /\ TurnAccounting /\ CallsOK
=============================================================================
