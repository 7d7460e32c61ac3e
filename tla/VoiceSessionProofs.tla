-------------------------- MODULE VoiceSessionProofs --------------------------
(***************************************************************************)
(* What holds of VoiceSession for any limits and any number of turns.      *)
(***************************************************************************)
EXTENDS VoiceSession, TLAPS

(* What _TRANSITIONS makes of the state, event by event.                   *)
LEMMA Table ==
  ASSUME state \in States, NEW event, Transition(event)
  PROVE  /\ state' \in States
         /\ event = "session.start" => state = "CONNECTED" /\ state' = "SESSION_READY"
         /\ event = "turn.start" => state \in {"SESSION_READY", "IDLE"} /\ state' = "LISTENING"
         /\ event = "turn.end" => state = "LISTENING" /\ state' = "TRANSCRIBING"
         /\ event = "transcript.final" => state = "TRANSCRIBING" /\ state' = "THINKING"
         /\ event = "response.text" => state = "THINKING" /\ state' = "SYNTHESIZING"
         /\ event = "turn.error" => /\ state \in InTurn \ {"LISTENING"}
                                    /\ state' = "IDLE"
         /\ event = "session.stop" => state' = "CLOSED"
<1>1. PICK t \in Transitions : t[1] = state /\ t[2] = event
  BY DEF Transition, Allowed
<1>2. t = <<state, event, t[3]>> /\ t[3] \in States
  BY <1>1 DEF Transitions, States
<1>3. <<state, event, state'>> \in Transitions /\ state' \in States
  BY <1>1, <1>2 DEF Transition, After
<1>4. QED
  BY <1>3 DEF Transitions, States, InTurn

(* The three ways through the table that take no Transition of their own.  *)
LEMMA Shortcuts ==
  /\ After("ERROR", "recover") = "IDLE"
  /\ After(After("SYNTHESIZING", "response.audio"), "response.completed") = "IDLE"
  /\ Allowed("TRANSCRIBING", "turn.error") /\ Allowed("THINKING", "turn.error")
  /\ Allowed("SYNTHESIZING", "turn.error")
  /\ ~Allowed("LISTENING", "turn.error")
<1>1. After("ERROR", "recover") = "IDLE"
  <2>1. <<"ERROR", "recover", "IDLE">> \in Transitions /\ "IDLE" \in States
    BY DEF Transitions, States
  <2>2. \A s \in States : <<"ERROR", "recover", s>> \in Transitions => s = "IDLE"
    BY DEF Transitions
  <2>3. QED
    BY <2>1, <2>2 DEF After
<1>2. After("SYNTHESIZING", "response.audio") = "RESPONDING"
  <2>1. <<"SYNTHESIZING", "response.audio", "RESPONDING">> \in Transitions /\ "RESPONDING" \in States
    BY DEF Transitions, States
  <2>2. \A s \in States : <<"SYNTHESIZING", "response.audio", s>> \in Transitions => s = "RESPONDING"
    BY DEF Transitions
  <2>3. QED
    BY <2>1, <2>2 DEF After
<1>3. After("RESPONDING", "response.completed") = "IDLE"
  <2>1. <<"RESPONDING", "response.completed", "IDLE">> \in Transitions /\ "IDLE" \in States
    BY DEF Transitions, States
  <2>2. \A s \in States : <<"RESPONDING", "response.completed", s>> \in Transitions => s = "IDLE"
    BY DEF Transitions
  <2>3. QED
    BY <2>1, <2>2 DEF After
<1>4. /\ <<"TRANSCRIBING", "turn.error", "IDLE">> \in Transitions
      /\ <<"THINKING", "turn.error", "IDLE">> \in Transitions
      /\ <<"SYNTHESIZING", "turn.error", "IDLE">> \in Transitions
  BY DEF Transitions
<1>5. ~Allowed("LISTENING", "turn.error")
  BY DEF Transitions, Allowed
<1>6. QED
  BY <1>1, <1>2, <1>3, <1>4, <1>5 DEF Allowed

(* _recover_turn ends in IDLE by either way.                               *)
LEMMA Recovered ==
  ASSUME state \in States, RecoverTurn
  PROVE  state' = "IDLE"
<1>1. CASE Transition("turn.error")
  BY <1>1, Table
<1>2. CASE state' = After("ERROR", "recover")
  BY <1>2, Shortcuts
<1>3. QED
  BY <1>1, <1>2 DEF RecoverTurn

(* A connection just accepted has no turn, no audio and asked nothing.     *)
LEMMA InitInv == Init => IInv
<1>. USE VoiceAssumption DEF Init
<1>1. ASSUME Init PROVE TypeOK
  <2>1. calls \in [Services -> Nat]
    BY <1>1
  <2>2. sessionId \in BOOLEAN /\ expired \in BOOLEAN /\ closed \in BOOLEAN /\ peer \in BOOLEAN
    BY <1>1, Zenon
  <2>3. QED
    BY <1>1, <2>1, <2>2 DEF TypeOK, States, Services
<1>2. ASSUME Init PROVE AudioOnlyWhileListening /\ TurnAccounting /\ CallsOK
  BY <1>2 DEF AudioOnlyWhileListening, TurnAccounting, CallsOK, Services, InTurn
<1>3. QED
  BY <1>1, <1>2 DEF IInv

(* A step of the loop keeps types, audio and accounts.                     *)
LEMMA ReceiveStep ==
  ASSUME IInv, Receive
  PROVE  IInv'
<1>. USE VoiceAssumption
     DEF IInv, TypeOK, AudioOnlyWhileListening, TurnAccounting, CallsOK,
         States, Services, InTurn, Receiving, Sending, session, history, Call
<1>1. CASE HandleSessionStart
  <2>1. state' = state \/ state' = "SESSION_READY"
    BY <1>1, Table DEF HandleSessionStart
  <2>2. QED
    BY <1>1, <2>1 DEF HandleSessionStart
<1>2. CASE RefuseSessionStart
  BY <1>2 DEF RefuseSessionStart
<1>3. CASE HandleTurnStart
  <2>1. state' = "LISTENING"
    BY <1>3, Table DEF HandleTurnStart
  <2>2. QED
    BY <1>3, <2>1 DEF HandleTurnStart
<1>4. ASSUME NEW size \in Sizes, HandleAudioChunk(size) PROVE IInv'
  <2>1. size \in Nat
    BY DEF Sizes
  <2>2. QED
    BY <1>4, <2>1 DEF HandleAudioChunk
<1>5. ASSUME NEW size \in Sizes, RefuseAudioChunk(size) PROVE IInv'
  BY <1>5 DEF RefuseAudioChunk
<1>6. CASE RejectTurn
  <2>1. state' = "IDLE"
    BY <1>6, Recovered DEF RejectTurn
  <2>2. QED
    BY <1>6, <2>1 DEF RejectTurn, RecoverTurn
<1>7. CASE HandleTurn
  <2>1. state' = "TRANSCRIBING"
    BY <1>7, Table DEF HandleTurn
  <2>2. QED
    BY <1>7, <2>1 DEF HandleTurn
<1>8. CASE RejectMessage
  BY <1>8 DEF RejectMessage
<1>9. CASE HandleSessionStop
  <2>1. state' = "CLOSED"
    BY <1>9, Table DEF HandleSessionStop
  <2>2. QED
    BY <1>9, <2>1 DEF HandleSessionStop
<1>10. QED
  BY <1>1, <1>2, <1>3, <1>4, <1>5, <1>6, <1>7, <1>8, <1>9 DEF Receive

(* So does every answer of a service, and every failure.                   *)
LEMMA ServeStep ==
  ASSUME IInv, Serve
  PROVE  IInv'
<1>. USE DEF IInv, TypeOK, AudioOnlyWhileListening, TurnAccounting, CallsOK,
             States, Services, InTurn, Sending, session, history, Call
<1>1. CASE Transcribed
  <2>1. state' = "THINKING"
    BY <1>1, Table DEF Transcribed
  <2>2. QED
    BY <1>1, <2>1 DEF Transcribed
<1>2. CASE Conversed
  <2>1. state' = "SYNTHESIZING"
    BY <1>2, Table DEF Conversed
  <2>2. QED
    BY <1>2, <2>1 DEF Conversed
<1>3. CASE Synthesized
  <2>1. state' = "IDLE"
    BY <1>3, Shortcuts DEF Synthesized
  <2>2. QED
    BY <1>3, <2>1 DEF Synthesized
<1>4. CASE ServiceFails
  <2>1. state' = "IDLE"
    BY <1>4, Recovered DEF ServiceFails
  <2>2. QED
    BY <1>4, <2>1 DEF ServiceFails, RecoverTurn
<1>5. CASE SendRaises
  BY <1>5 DEF SendRaises, End
<1>6. QED
  BY <1>1, <1>2, <1>3, <1>4, <1>5 DEF Serve

(* Every step preserves IInv.                                              *)
LEMMA InvNext ==
  ASSUME IInv, [Next]_vars
  PROVE  IInv'
<1>. USE DEF IInv, TypeOK, AudioOnlyWhileListening, TurnAccounting, CallsOK,
             States, Services, InTurn, session, history
<1>1. CASE Receive \/ Serve
  BY <1>1, ReceiveStep, ServeStep
<1>2. CASE HandlerRaises \/ TimeOut \/ Disconnected
  BY <1>2 DEF HandlerRaises, TimeOut, Disconnected, End, Receiving
<1>3. CASE PeerLeaves \/ TurnRunsLate \/ SessionExpires
  BY ZenonT(60), <1>3 DEF PeerLeaves, TurnRunsLate, SessionExpires
<1>4. CASE UNCHANGED vars
  BY <1>4 DEF vars
<1>5. QED
  BY <1>1, <1>2, <1>3, <1>4 DEF Next

(* IInv holds throughout.                                                  *)
THEOREM Invariance == Spec => []IInv
  BY InitInv, InvNext, PTL DEF Spec

(* The session is in the state its suspended handler expects, whatever the *)
(* limits and the number of turns.                                         *)
THEOREM TypeCorrect == Spec => []TypeOK
<1>1. IInv => TypeOK
  BY DEF IInv
<1>2. QED
  BY <1>1, Invariance, PTL

(* Audio is held during the recording of a turn only (README.md:51).       *)
THEOREM AudioIsDropped == Spec => []AudioOnlyWhileListening
<1>1. IInv => AudioOnlyWhileListening
  BY DEF IInv
<1>2. QED
  BY <1>1, Invariance, PTL

(* Each turn is answered once and asks each service once at most, in every *)
(* mix of refusals, failures and late turns.                               *)
THEOREM TurnsAreAccounted == Spec => []TurnAccounting
<1>1. IInv => TurnAccounting
  BY DEF IInv
<1>2. QED
  BY <1>1, Invariance, PTL

(* No service is asked once the server has closed: every way to one goes   *)
(* through a send, which raises by then.                                   *)
THEOREM ClosedIsClosed == Spec => NoServiceAfterClose
<1>1. ASSUME IInv, [Next]_vars PROVE [closed => calls' = calls]_vars
  <2>. USE DEF session, history
  <2>1. CASE Receive
    BY <2>1 DEF Receive, HandleSessionStart, RefuseSessionStart, HandleTurnStart,
                HandleAudioChunk, RefuseAudioChunk, RejectTurn, HandleTurn,
                RejectMessage, HandleSessionStop, Sending
  <2>2. CASE Serve
    BY <2>2 DEF Serve, Transcribed, Conversed, Synthesized, ServiceFails, SendRaises,
                End, Sending
  <2>3. CASE HandlerRaises \/ TimeOut \/ Disconnected
    BY <2>3 DEF HandlerRaises, TimeOut, Disconnected, End
  <2>4. CASE PeerLeaves \/ TurnRunsLate \/ SessionExpires
    BY <2>4 DEF PeerLeaves, TurnRunsLate, SessionExpires
  <2>5. QED
    BY <1>1, <2>1, <2>2, <2>3, <2>4 DEF Next
<1>2. QED
  BY <1>1, Invariance, PTL DEF Spec, NoServiceAfterClose
-----------------------------------------------------------------------------
(***************************************************************************)
(* The step part of ImplementsProtocol; its fairness is left to TLC.       *)
(***************************************************************************)
ProtocolStep == [Protocol!Next]_(Protocol!vars)

\* The other phases, while the connection is neither ended nor closed.
OpenPhase(s) ==
  CASE s = "CONNECTED" -> "opened"
    [] s \in {"SESSION_READY", "IDLE"} -> "ready"
    [] s = "LISTENING" -> "recording"
    [] OTHER -> "answering"

(* The phase in plain terms, now and after the step.                       *)
LEMMA PhaseIs ==
  /\ Phase = IF at = "ended" \/ closed THEN "over" ELSE OpenPhase(state)
  /\ Phase' = IF at' = "ended" \/ closed' THEN "over" ELSE OpenPhase(state')
  BY DEF Phase, OpenPhase

(* A step that leaves turns and answers and makes the connection be over   *)
(* is a Close, or nothing.                                                 *)
LEMMA Closing ==
  ASSUME UNCHANGED <<turns, answers>>, Phase' = "over"
  PROVE  ProtocolStep
<1>1. CASE Phase = "over"
  BY <1>1 DEF ProtocolStep, Protocol!vars
<1>2. CASE Phase # "over"
  BY <1>2 DEF ProtocolStep, Protocol!Next, Protocol!Close
<1>3. QED
  BY <1>1, <1>2

(* A step that leaves the phase too is nothing to the client.              *)
LEMMA Stuttering ==
  ASSUME UNCHANGED <<turns, answers>>, Phase' = Phase
  PROVE  ProtocolStep
  BY DEF ProtocolStep, Protocol!vars

(* A turn answered by an error.                                            *)
LEMMA Answering ==
  ASSUME IInv, RecoverTurn, at # "ended",
         state \in {"LISTENING", "TRANSCRIBING", "THINKING", "SYNTHESIZING"}
  PROVE  ProtocolStep
<1>1. state' = "IDLE" /\ at' = "receive" /\ ~closed /\ ~closed'
  BY Recovered DEF IInv, TypeOK, RecoverTurn, Sending
<1>2. Phase \in {"recording", "answering"} /\ Phase' = "ready"
  BY <1>1, PhaseIs DEF OpenPhase
<1>3. answers' = answers + 1 /\ turns' = turns
  BY DEF RecoverTurn
<1>4. QED
  BY <1>2, <1>3 DEF ProtocolStep, Protocol!Next, Protocol!Answer

(* What the client sends moves the phase as the protocol says.             *)
LEMMA ReceiveProtocol ==
  ASSUME IInv, Receive
  PROVE  ProtocolStep
<1>. USE DEF Receiving, Sending, session, history
<1>0. state \in States
  BY DEF IInv, TypeOK
<1>1. CASE HandleSessionStart
  <2>1. Phase = "opened" /\ UNCHANGED <<turns, answers>>
    BY <1>1, PhaseIs DEF HandleSessionStart, OpenPhase
  <2>2. Phase' = "ready" \/ Phase' = "opened"
    BY <1>0, <1>1, PhaseIs, Table DEF HandleSessionStart, OpenPhase
  <2>3. QED
    BY <2>1, <2>2, Stuttering DEF ProtocolStep, Protocol!Next, Protocol!StartSession
<1>2. CASE RefuseSessionStart
  BY <1>2, PhaseIs, Closing DEF RefuseSessionStart
<1>3. CASE HandleTurnStart
  <2>1. Phase = "ready" /\ turns' = turns + 1 /\ answers' = answers
    BY <1>3, PhaseIs DEF HandleTurnStart, OpenPhase
  <2>2. Phase' = "recording"
    BY <1>0, <1>3, PhaseIs, Table DEF HandleTurnStart, OpenPhase
  <2>3. QED
    BY <2>1, <2>2 DEF ProtocolStep, Protocol!Next, Protocol!StartTurn
<1>4. ASSUME NEW size \in Sizes, HandleAudioChunk(size) PROVE ProtocolStep
  BY <1>4, PhaseIs, Stuttering DEF HandleAudioChunk
<1>5. ASSUME NEW size \in Sizes, RefuseAudioChunk(size) PROVE ProtocolStep
  BY <1>5, PhaseIs, Closing DEF RefuseAudioChunk
<1>6. CASE RejectTurn
  BY <1>6, Answering DEF RejectTurn
<1>7. CASE HandleTurn
  <2>1. Phase = "recording" /\ UNCHANGED <<turns, answers>>
    BY <1>7, PhaseIs DEF HandleTurn, OpenPhase
  <2>2. Phase' = "answering"
    BY <1>0, <1>7, PhaseIs, Table DEF HandleTurn, Call, OpenPhase
  <2>3. QED
    BY <2>1, <2>2 DEF ProtocolStep, Protocol!Next, Protocol!EndTurn
<1>8. CASE RejectMessage
  BY <1>8, PhaseIs, Stuttering DEF RejectMessage
<1>9. CASE HandleSessionStop
  BY <1>9, PhaseIs, Closing DEF HandleSessionStop
<1>10. QED
  BY <1>1, <1>2, <1>3, <1>4, <1>5, <1>6, <1>7, <1>8, <1>9 DEF Receive

(* And so do the answers of the services.                                  *)
LEMMA ServeProtocol ==
  ASSUME IInv, Serve
  PROVE  ProtocolStep
<1>. USE DEF Sending, session, history
<1>0. state \in States
  BY DEF IInv, TypeOK
<1>1. CASE Transcribed \/ Conversed
  <2>1. Phase = "answering" /\ UNCHANGED <<turns, answers>>
    BY <1>1, PhaseIs DEF Transcribed, Conversed, OpenPhase, IInv, TypeOK
  <2>2. Phase' = "answering"
    BY <1>0, <1>1, PhaseIs, Table DEF Transcribed, Conversed, Call, OpenPhase
  <2>3. QED
    BY <2>1, <2>2, Stuttering
<1>2. CASE Synthesized
  <2>1. state = "SYNTHESIZING"
    BY <1>2 DEF Synthesized, IInv, TypeOK
  <2>2. state' = "IDLE"
    BY <1>2, <2>1, Shortcuts DEF Synthesized
  <2>3. Phase = "answering" /\ Phase' = "ready"
    BY <1>2, <2>1, <2>2, PhaseIs DEF Synthesized, OpenPhase
  <2>4. QED
    BY <1>2, <2>3 DEF Synthesized, ProtocolStep, Protocol!Next, Protocol!Answer
<1>3. CASE ServiceFails
  <2>1. state \in {"TRANSCRIBING", "THINKING", "SYNTHESIZING"} /\ at # "ended"
    BY <1>3 DEF ServiceFails, Services, IInv, TypeOK
  <2>2. QED
    BY <1>3, <2>1, Answering DEF ServiceFails
<1>4. CASE SendRaises
  BY <1>4, PhaseIs, Closing DEF SendRaises, End
<1>5. QED
  BY <1>1, <1>2, <1>3, <1>4 DEF Serve

(* A connection to /ws/voice does step by step what VoiceProtocol promises *)
(* the client, for any limits and any number of turns.                     *)
THEOREM ImplementsSteps == Spec => Protocol!Init /\ [][Protocol!Next]_(Protocol!vars)
<1>1. ASSUME Init PROVE Protocol!Init
  BY <1>1, PhaseIs DEF Init, OpenPhase, Protocol!Init
<1>2. ASSUME IInv, [Next]_vars PROVE [Protocol!Next]_(Protocol!vars)
  <2>. USE DEF session, history
  <2>1. CASE Receive \/ Serve
    BY <1>2, <2>1, ReceiveProtocol, ServeProtocol DEF ProtocolStep
  <2>2. CASE HandlerRaises \/ TimeOut \/ Disconnected
    BY <2>2, PhaseIs, Closing DEF HandlerRaises, TimeOut, Disconnected, End, ProtocolStep
  <2>3. CASE PeerLeaves \/ TurnRunsLate \/ SessionExpires
    BY <2>3, PhaseIs, Stuttering DEF PeerLeaves, TurnRunsLate, SessionExpires, ProtocolStep
  <2>4. CASE UNCHANGED vars
    BY <2>4, PhaseIs, Stuttering DEF vars, ProtocolStep
  <2>5. QED
    BY <1>2, <2>1, <2>2, <2>3, <2>4 DEF Next
<1>3. QED
  BY <1>1, <1>2, Invariance, PTL DEF Spec
=============================================================================
