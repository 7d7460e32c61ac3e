--------------------------- MODULE MCVoiceSession ---------------------------
(* A session of three turns, with room for two bytes a frame and three a   *)
(* turn: chunks that fit alone and not together, and chunks that do not.   *)
EXTENDS VoiceSession
=============================================================================
