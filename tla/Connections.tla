----------------------------- MODULE Connections -----------------------------
(***************************************************************************)
(* The WebSocket connections of one process: the registry ConnectionManager*)
(* shares between /ws, /ws/conversation and /ws/voice, the slots of voice  *)
(* sessions, and the path of each connection from its request to its end.  *)
(* What happens while a connection is served is left out here (for voice   *)
(* see VoiceSession).                                                      *)
(*                                                                         *)
(* A socket is one connection and is not used again.  Every await of an    *)
(* endpoint outside its serving loop is a step, and may raise when the     *)
(* client has gone.  The lock of the voice slots is never contended across *)
(* an await, so taking or giving back a slot is one step.                  *)
(***************************************************************************)
EXTENDS Integers, FiniteSets

CONSTANTS
  Plain,           \* connections to /ws
  Chat,            \* connections to /ws/conversation
  Voice,           \* connections to /ws/voice
  MaxConnections,  \* ws_max_connections
  MaxSlots,        \* voice_max_concurrent_sessions
  MaxFaults        \* bound: awaits that raise

ASSUME ConnectionsAssumption ==
  /\ Plain \intersect Chat = {} /\ Plain \intersect Voice = {}
  /\ Chat \intersect Voice = {}
  /\ IsFiniteSet(Plain \union Chat \union Voice)
  /\ MaxConnections \in Nat
  /\ MaxSlots \in Nat
  /\ MaxFaults \in Nat

Sockets == Plain \union Chat \union Voice

VARIABLES
  at,              \* where the endpoint of each socket is (see below)
  connections,     \* connection_manager._connections
  slots,           \* _active_voice_sessions
  down,            \* lifespan has run disconnect_all
  lostSlots,       \* sockets that ended without giving back their slot
  ghosts           \* sockets that ended without leaving the registry

vars == <<at, connections, slots, down, lostSlots, ghosts>>
lost == <<lostSlots, ghosts>>

(***************************************************************************)
(*   new       authenticate_ws and the rate limit                          *)
(*   admitted  voice only: about to take a slot                            *)
(*   accepting ws.accept()            greeting  /ws: the lifecycle message *)
(*   open      the serving loop       farewell  /ws: the last message      *)
(*   gone      the endpoint returned                                       *)
(***************************************************************************)
Stages == {"new", "admitted", "accepting", "greeting", "open", "farewell", "gone"}

Goto(s, stage) == at' = [at EXCEPT ![s] = stage]

Fault == Cardinality(lostSlots) + Cardinality(ghosts) < MaxFaults

Init ==
  /\ at = [s \in Sockets |-> "new"]
  /\ connections = {}
  /\ slots = 0
  /\ down = FALSE
  /\ lostSlots = {}
  /\ ghosts = {}

(* Neither the ticket nor the rate limit stands in the way.                *)
Admit(s) ==
  /\ at[s] = "new" /\ ~down
  /\ Goto(s, IF s \in Voice THEN "admitted" ELSE "accepting")
  /\ UNCHANGED <<connections, slots, down, lost>>

Refuse(s) ==
  /\ at[s] = "new"
  /\ Goto(s, "gone")
  /\ UNCHANGED <<connections, slots, down, lost>>

\* Mutant: the limit is compared with > instead of >=.
TakeOneSlotMore(s) ==
  /\ at[s] = "admitted"
  /\ slots <= MaxSlots
  /\ slots' = slots + 1
  /\ Goto(s, "accepting")
  /\ UNCHANGED <<connections, down, lost>>

ReserveVoiceSession(s) ==
  /\ at[s] = "admitted"
  /\ slots < MaxSlots
  /\ slots' = slots + 1
  /\ Goto(s, "accepting")
  /\ UNCHANGED <<connections, down, lost>>

VoiceLimitReached(s) ==
  /\ at[s] = "admitted"
  /\ slots >= MaxSlots
  /\ Goto(s, "gone")
  /\ UNCHANGED <<connections, slots, down, lost>>

\* Mutants: no slot is given back; every connection gives one back.
KeepSlot(s) == UNCHANGED slots
ReleaseAlways(s) == slots' = slots - 1

\* _release_voice_session, for the connections that hold a slot.
Release(s) ==
  slots' = IF s \in Voice /\ slots > 0 THEN slots - 1 ELSE slots

(* connection_manager.connect, right after the accept.                     *)
Connect(s) ==
  /\ at[s] = "accepting"
  /\ Cardinality(connections) < MaxConnections
  /\ connections' = connections \union {s}
  /\ Goto(s, IF s \in Plain THEN "greeting" ELSE "open")
  /\ UNCHANGED <<slots, down, lost>>

ConnectRefused(s) ==
  /\ at[s] = "accepting"
  /\ Cardinality(connections) >= MaxConnections
  /\ Release(s)
  /\ Goto(s, "gone")
  /\ UNCHANGED <<connections, down, lost>>

(* accept() raises outside any try: a voice slot stays taken.              *)
AcceptFails(s) ==
  /\ at[s] = "accepting"
  /\ Fault
  /\ Goto(s, "gone")
  /\ lostSlots' = lostSlots \union ({s} \intersect Voice)
  /\ UNCHANGED <<connections, slots, down, ghosts>>

Greet(s) ==
  /\ at[s] = "greeting"
  /\ Goto(s, "open")
  /\ UNCHANGED <<connections, slots, down, lost>>

(* The first message of /ws is sent before its try.                        *)
GreetFails(s) ==
  /\ at[s] = "greeting"
  /\ Fault
  /\ Goto(s, "gone")
  /\ ghosts' = ghosts \union ({s} \intersect connections)
  /\ UNCHANGED <<connections, slots, down, lostSlots>>

\* Mutant: the endpoint ends without leaving the registry.
LeaveOpen(s) == UNCHANGED connections

Disconnect(s) == connections' = connections \ {s}

(* The loop ends, by return or exception; /ws says farewell before it      *)
(* leaves the registry, the others leave at once.                          *)
Finish(s) ==
  /\ at[s] = "open"
  /\ IF s \in Plain
       THEN Goto(s, "farewell") /\ UNCHANGED <<connections, slots>>
       ELSE Goto(s, "gone") /\ Disconnect(s) /\ Release(s)
  /\ UNCHANGED <<down, lost>>

(* Whether or not the farewell could be sent.                              *)
Farewell(s) ==
  /\ at[s] = "farewell"
  /\ Disconnect(s)
  /\ Goto(s, "gone")
  /\ UNCHANGED <<slots, down, lost>>

(* disconnect_all, when the application stops: the registry is emptied at  *)
(* once, and the endpoints come to their end one by one.                   *)
DisconnectAll ==
  /\ ~down /\ down' = TRUE
  /\ connections' = {}
  /\ ghosts' = {}
  /\ UNCHANGED <<at, slots, lostSlots>>

Advance(s) ==
  \/ Admit(s) \/ Refuse(s)
  \/ ReserveVoiceSession(s) \/ VoiceLimitReached(s)
  \/ Connect(s) \/ ConnectRefused(s) \/ Greet(s)
  \/ Finish(s) \/ Farewell(s)

Next ==
  \/ \E s \in Sockets : Advance(s) \/ AcceptFails(s) \/ GreetFails(s)
  \/ DisconnectAll

Spec == Init /\ [][Next]_vars

(* Every loop ends: by the idle limit, the session limit or the client.    *)
FairSpec == Spec /\ \A s \in Sockets : WF_vars(Advance(s))
-----------------------------------------------------------------------------
(***************************************************************************)
(* Properties.                                                             *)
(***************************************************************************)
TypeOK ==
  /\ at \in [Sockets -> Stages]
  /\ connections \subseteq Sockets
  /\ slots \in Nat
  /\ down \in BOOLEAN
  /\ lostSlots \subseteq Voice
  /\ ghosts \subseteq Plain

\* Voice connections that hold a slot, and connections in the registry.
Holders    == {s \in Voice : at[s] \in {"accepting", "open"}}
Registered == {s \in Sockets : at[s] \in {"greeting", "open", "farewell"}}

(* The counter of voice sessions tells how many connections hold a slot:   *)
(* no path through the endpoint takes one and keeps it, or gives one back  *)
(* twice, except an accept that raises, and the limit holds.               *)
SlotsAccounted ==
  /\ slots = Cardinality(Holders) + Cardinality(lostSlots)
  /\ slots <= MaxSlots

(* The registry is the connections being served, whatever the order of     *)
(* ends and shutdown, except for a greeting that raises; so many at most.  *)
RegistryAccounted ==
  /\ connections \subseteq Registered \union ghosts
  /\ ~down => connections = Registered \union ghosts
  /\ Cardinality(connections) <= MaxConnections

(* In the end everything is given back, but for what the raises have cost. *)
Drained ==
  <>[](slots = Cardinality(lostSlots) /\ connections = ghosts)
-----------------------------------------------------------------------------
(***************************************************************************)
(* The inductive strengthening of SlotsAccounted and RegistryAccounted.    *)
(***************************************************************************)

(* Each stage belongs to its endpoints, and what was lost is gone.         *)
PathOK ==
  /\ \A s \in Sockets :
       /\ at[s] = "admitted" => s \in Voice
       /\ at[s] \in {"greeting", "farewell"} => s \in Plain
  /\ \A s \in lostSlots \union ghosts : at[s] = "gone"

IInv == TypeOK /\ PathOK /\ SlotsAccounted /\ RegistryAccounted
=============================================================================
