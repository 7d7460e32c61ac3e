-------------------------- MODULE ConnectionsProofs --------------------------
(***************************************************************************)
(* What holds of Connections for any finite sets of sockets, any limits    *)
(* and any number of awaits that raise.                                    *)
(***************************************************************************)
EXTENDS Connections, FiniteSetTheorems, TLAPS

(* Every set counted here is finite.                                       *)
LEMMA Finite ==
  ASSUME TypeOK
  PROVE  /\ IsFiniteSet(Sockets) /\ IsFiniteSet(connections)
         /\ IsFiniteSet(Holders) /\ IsFiniteSet(lostSlots)
<1>1. IsFiniteSet(Sockets)
  BY ConnectionsAssumption DEF Sockets
<1>2. /\ connections \subseteq Sockets
      /\ Holders \subseteq Sockets
      /\ lostSlots \subseteq Sockets
  BY DEF TypeOK, Holders, Sockets
<1>3. QED
  BY <1>1, <1>2, FS_Subset

(* Nothing is open before the first request.                               *)
LEMMA InitInv == Init => IInv
<1>1. SUFFICES ASSUME Init PROVE IInv
  OBVIOUS
<1>2. TypeOK /\ PathOK
  BY <1>1 DEF Init, TypeOK, PathOK, Stages, Sockets
<1>3. Holders = {} /\ Registered = {} /\ lostSlots = {} /\ connections = {}
  BY <1>1 DEF Init, Holders, Registered, Sockets
<1>4. QED
  BY <1>1, <1>2, <1>3, FS_EmptySet, ConnectionsAssumption
  DEF IInv, Init, SlotsAccounted, RegistryAccounted

(* Stages and types are kept by every step; the raises lose only sockets   *)
(* that are gone for good.                                                 *)
LEMMA PathStep ==
  ASSUME IInv, Next
  PROVE  TypeOK' /\ PathOK'
<1>. USE ConnectionsAssumption DEF IInv, TypeOK, PathOK, Stages, Goto, lost
<1>0. Plain \subseteq Sockets /\ Chat \subseteq Sockets /\ Voice \subseteq Sockets
  BY DEF Sockets
<1>1. ASSUME NEW s \in Sockets, Advance(s) PROVE TypeOK' /\ PathOK'
  <2>. USE <1>0
  <2>1. CASE Admit(s)              BY <2>1 DEF Admit
  <2>2. CASE Refuse(s)             BY <2>2 DEF Refuse
  <2>3. CASE ReserveVoiceSession(s) BY <2>3 DEF ReserveVoiceSession
  <2>4. CASE VoiceLimitReached(s)  BY <2>4 DEF VoiceLimitReached
  <2>5. CASE Connect(s)            BY <2>5 DEF Connect
  <2>6. CASE ConnectRefused(s)     BY <2>6 DEF ConnectRefused, Release
  <2>7. CASE Greet(s)              BY <2>7 DEF Greet
  <2>8. CASE Finish(s)             BY <2>8 DEF Finish, Disconnect, Release
  <2>9. CASE Farewell(s)           BY <2>9 DEF Farewell, Disconnect
  <2>10. QED
    BY <1>1, <2>1, <2>2, <2>3, <2>4, <2>5, <2>6, <2>7, <2>8, <2>9 DEF Advance
<1>2. ASSUME NEW s \in Sockets, AcceptFails(s) PROVE TypeOK' /\ PathOK'
  BY <1>0, <1>2 DEF AcceptFails
<1>3. ASSUME NEW s \in Sockets, GreetFails(s) PROVE TypeOK' /\ PathOK'
  BY <1>0, <1>3 DEF GreetFails
<1>4. CASE DisconnectAll
  BY <1>4 DEF DisconnectAll
<1>5. QED
  BY <1>1, <1>2, <1>3, <1>4 DEF Next

(* A step that neither takes nor gives back a slot.                        *)
LEMMA SameSlots ==
  ASSUME SlotsAccounted, Holders' = Holders, UNCHANGED <<slots, lostSlots>>
  PROVE  SlotsAccounted'
  BY DEF SlotsAccounted

(* The sockets at a stage after one of them has moved.                     *)
LEMMA HoldersAfter ==
  ASSUME TypeOK, NEW s \in Sockets, NEW g, Goto(s, g)
  PROVE  Holders' = IF s \in Voice /\ g \in {"accepting", "open"}
                      THEN Holders \union {s} ELSE Holders \ {s}
  BY DEF TypeOK, Holders, Goto, Sockets

(* A slot is given back by a socket that holds one.                        *)
LEMMA GiveBack ==
  ASSUME IInv, NEW s \in Sockets, Release(s), lostSlots' = lostSlots,
         s \in Voice => s \in Holders,
         Holders' = Holders \ {s}
  PROVE  SlotsAccounted'
<1>1. /\ IsFiniteSet(Holders) /\ IsFiniteSet(lostSlots)
      /\ Cardinality(Holders) \in Nat /\ Cardinality(lostSlots) \in Nat
  BY Finite, FS_CardinalityType DEF IInv
<1>2. CASE s \in Voice
  <2>1. Cardinality(Holders \ {s}) = Cardinality(Holders) - 1
    BY <1>1, <1>2, FS_RemoveElement
  <2>2. Cardinality(Holders) > 0
    BY <1>1, <1>2, FS_EmptySet
  <2>3. QED
    BY <1>1, <1>2, <2>1, <2>2, ConnectionsAssumption DEF IInv, SlotsAccounted, Release
<1>3. CASE s \notin Voice
  <2>1. Holders' = Holders
    BY <1>3 DEF Holders
  <2>2. QED
    BY <1>3, <2>1 DEF IInv, SlotsAccounted, Release, TypeOK
<1>4. QED
  BY <1>2, <1>3

(* The counter goes with the holders in every step.                        *)
LEMMA SlotsStep ==
  ASSUME IInv, Next
  PROVE  SlotsAccounted'
<1>. USE DEF IInv
<1>1. /\ IsFiniteSet(Holders) /\ IsFiniteSet(lostSlots)
      /\ Cardinality(Holders) \in Nat /\ Cardinality(lostSlots) \in Nat
  BY Finite, FS_CardinalityType
<1>2. ASSUME NEW s \in Sockets, Advance(s) PROVE SlotsAccounted'
  <2>1. CASE Admit(s) \/ Refuse(s) \/ VoiceLimitReached(s)
    <3>1. Holders' = Holders
      BY <2>1 DEF Admit, Refuse, VoiceLimitReached, Holders, Goto, TypeOK, Sockets
    <3>2. QED
      BY <2>1, <3>1, SameSlots DEF Admit, Refuse, VoiceLimitReached, lost
  <2>2. CASE ReserveVoiceSession(s)
    <3>1. s \in Voice /\ s \notin Holders
      BY <2>2 DEF ReserveVoiceSession, PathOK, Holders
    <3>2. Holders' = Holders \union {s}
      BY <2>2, <3>1, HoldersAfter DEF ReserveVoiceSession
    <3>3. Cardinality(Holders') = Cardinality(Holders) + 1
      BY <1>1, <3>1, <3>2, FS_AddElement
    <3>4. QED
      BY <1>1, <2>2, <3>3, ConnectionsAssumption
      DEF ReserveVoiceSession, SlotsAccounted, TypeOK, lost
  <2>3. CASE Connect(s) \/ Greet(s) \/ Farewell(s)
    <3>1. Holders' = Holders
      BY <2>3, ConnectionsAssumption
      DEF Connect, Greet, Farewell, Holders, Goto, TypeOK, PathOK, Sockets
    <3>2. QED
      BY <2>3, <3>1, SameSlots DEF Connect, Greet, Farewell, lost
  <2>4. CASE ConnectRefused(s)
    <3>1. Holders' = Holders \ {s}
      BY <2>4, HoldersAfter DEF ConnectRefused
    <3>2. s \in Voice => s \in Holders
      BY <2>4 DEF ConnectRefused, Holders
    <3>3. QED
      BY <2>4, <3>1, <3>2, GiveBack DEF ConnectRefused, lost
  <2>5. CASE Finish(s)
    <3>1. CASE s \in Plain
      <4>1. Holders' = Holders
        BY <2>5, <3>1, ConnectionsAssumption DEF Finish, Holders, Goto, TypeOK, Sockets
      <4>2. QED
        BY <2>5, <3>1, <4>1, SameSlots DEF Finish, lost
    <3>2. CASE s \notin Plain
      <4>1. Holders' = Holders \ {s}
        BY <2>5, <3>2, HoldersAfter DEF Finish
      <4>2. s \in Voice => s \in Holders
        BY <2>5 DEF Finish, Holders
      <4>3. QED
        BY <2>5, <3>2, <4>1, <4>2, GiveBack DEF Finish, lost
    <3>3. QED
      BY <3>1, <3>2
  <2>6. QED
    BY <1>2, <2>1, <2>2, <2>3, <2>4, <2>5 DEF Advance
<1>3. ASSUME NEW s \in Sockets, AcceptFails(s) PROVE SlotsAccounted'
  <2>1. Holders' = Holders \ {s} /\ slots' = slots
    BY <1>3, HoldersAfter DEF AcceptFails
  <2>2. CASE s \in Voice
    <3>1. s \in Holders /\ s \notin lostSlots
      BY <1>3, <2>2 DEF AcceptFails, Holders, PathOK
    <3>2. lostSlots' = lostSlots \union {s}
      BY <1>3, <2>2 DEF AcceptFails
    <3>3. /\ Cardinality(Holders \ {s}) = Cardinality(Holders) - 1
          /\ Cardinality(lostSlots \union {s}) = Cardinality(lostSlots) + 1
      BY <1>1, <3>1, FS_AddElement, FS_RemoveElement
    <3>4. QED
      BY <1>1, <2>1, <3>2, <3>3 DEF SlotsAccounted, TypeOK
  <2>3. CASE s \notin Voice
    <3>1. Holders' = Holders /\ lostSlots' = lostSlots
      BY <1>3, <2>1, <2>3 DEF Holders, AcceptFails
    <3>2. QED
      BY <2>1, <3>1, SameSlots
  <2>4. QED
    BY <2>2, <2>3
<1>4. ASSUME NEW s \in Sockets, GreetFails(s) PROVE SlotsAccounted'
  <2>1. Holders' = Holders
    BY <1>4 DEF GreetFails, Holders, Goto, TypeOK, Sockets
  <2>2. QED
    BY <1>4, <2>1, SameSlots DEF GreetFails
<1>5. CASE DisconnectAll
  BY <1>5, SameSlots DEF DisconnectAll, Holders
<1>6. QED
  BY <1>2, <1>3, <1>4, <1>5 DEF Next

(* The registered sockets after one of them has moved.                     *)
LEMMA RegisteredAfter ==
  ASSUME TypeOK, NEW s \in Sockets, NEW g, Goto(s, g)
  PROVE  Registered' = IF g \in {"greeting", "open", "farewell"}
                         THEN Registered \union {s} ELSE Registered \ {s}
  BY DEF TypeOK, Registered, Goto

(* A socket that leaves the registry was served until now, and is no ghost.*)
LEMMA LeaveRegistry ==
  ASSUME IInv, NEW s \in Sockets, at[s] # "gone", Disconnect(s),
         Registered' = Registered \ {s}, UNCHANGED <<down, ghosts>>
  PROVE  RegistryAccounted'
<1>1. s \notin ghosts
  BY DEF IInv, PathOK
<1>2. IsFiniteSet(connections) /\ Cardinality(connections) \in Nat
  BY Finite, FS_CardinalityType DEF IInv
<1>3. connections' \subseteq connections
  BY DEF Disconnect
<1>4. Cardinality(connections') \in Nat /\ Cardinality(connections') <= Cardinality(connections)
  BY <1>2, <1>3, FS_Subset, FS_CardinalityType
<1>5. Cardinality(connections') <= MaxConnections
  BY <1>2, <1>4, ConnectionsAssumption DEF IInv, RegistryAccounted
<1>6. QED
  BY <1>1, <1>5 DEF IInv, RegistryAccounted, Disconnect

(* The registry goes with the sockets being served in every step.          *)
LEMMA RegistryStep ==
  ASSUME IInv, Next
  PROVE  RegistryAccounted'
<1>. USE DEF IInv
<1>1. IsFiniteSet(connections) /\ Cardinality(connections) \in Nat
  BY Finite, FS_CardinalityType
<1>2. ASSUME NEW s \in Sockets, Advance(s) PROVE RegistryAccounted'
  <2>1. CASE \/ Admit(s) \/ Refuse(s) \/ ReserveVoiceSession(s) \/ VoiceLimitReached(s)
             \/ ConnectRefused(s) \/ Greet(s)
    <3>1. Registered' = Registered
      BY <2>1 DEF Admit, Refuse, ReserveVoiceSession, VoiceLimitReached,
                  ConnectRefused, Greet, Registered, Goto, TypeOK
    <3>2. UNCHANGED <<connections, down, ghosts>>
      BY <2>1 DEF Admit, Refuse, ReserveVoiceSession, VoiceLimitReached,
                  ConnectRefused, Greet, lost
    <3>3. QED
      BY <3>1, <3>2 DEF RegistryAccounted
  <2>2. CASE Connect(s)
    <3>1. Registered' = Registered \union {s} /\ connections' = connections \union {s}
      BY <2>2, RegisteredAfter DEF Connect
    <3>2. Cardinality(connections') \in Nat /\ Cardinality(connections') <= Cardinality(connections) + 1
      BY <1>1, <3>1, FS_AddElement
    <3>3. Cardinality(connections') <= MaxConnections
      BY <1>1, <2>2, <3>2, ConnectionsAssumption DEF Connect
    <3>4. QED
      BY <2>2, <3>1, <3>3 DEF Connect, RegistryAccounted, lost
  <2>3. CASE Finish(s)
    <3>1. CASE s \in Plain
      <4>1. Registered' = Registered /\ UNCHANGED <<connections, down, ghosts>>
        BY <2>3, <3>1 DEF Finish, Registered, Goto, TypeOK, lost
      <4>2. QED
        BY <4>1 DEF RegistryAccounted
    <3>2. CASE s \notin Plain
      <4>1. Registered' = Registered \ {s}
        BY <2>3, <3>2, RegisteredAfter DEF Finish
      <4>2. QED
        BY <2>3, <3>2, <4>1, LeaveRegistry DEF Finish, lost
    <3>3. QED
      BY <3>1, <3>2
  <2>4. CASE Farewell(s)
    <3>1. Registered' = Registered \ {s}
      BY <2>4, RegisteredAfter DEF Farewell
    <3>2. QED
      BY <2>4, <3>1, LeaveRegistry DEF Farewell, lost
  <2>5. QED
    BY <1>2, <2>1, <2>2, <2>3, <2>4 DEF Advance
<1>3. ASSUME NEW s \in Sockets, AcceptFails(s) PROVE RegistryAccounted'
  <2>1. Registered' = Registered
    BY <1>3 DEF AcceptFails, Registered, Goto, TypeOK
  <2>2. QED
    BY <1>3, <2>1 DEF AcceptFails, RegistryAccounted
<1>4. ASSUME NEW s \in Sockets, GreetFails(s) PROVE RegistryAccounted'
  <2>1. Registered' = Registered \ {s} /\ s \in Registered
    BY <1>4, RegisteredAfter DEF GreetFails, Registered
  <2>2. QED
    BY <1>4, <2>1 DEF GreetFails, RegistryAccounted
<1>5. CASE DisconnectAll
  BY <1>5, FS_EmptySet, ConnectionsAssumption DEF DisconnectAll, RegistryAccounted
<1>6. QED
  BY <1>2, <1>3, <1>4, <1>5 DEF Next

(* IInv holds throughout.                                                  *)
THEOREM Invariance == Spec => []IInv
<1>1. ASSUME IInv, [Next]_vars PROVE IInv'
  <2>1. CASE Next
    BY <1>1, <2>1, PathStep, SlotsStep, RegistryStep DEF IInv
  <2>2. CASE UNCHANGED vars
    BY <1>1, <2>2
    DEF vars, lost, IInv, TypeOK, PathOK, SlotsAccounted, RegistryAccounted,
        Holders, Registered
  <2>3. QED
    BY <1>1, <2>1, <2>2
<1>2. QED
  BY <1>1, InitInv, PTL DEF Spec

(* Every socket is at a stage of its endpoint, and the registry, the lost  *)
(* slots and the ghosts are made of sockets that may be in them.           *)
THEOREM TypeCorrect == Spec => []TypeOK
<1>1. IInv => TypeOK
  BY DEF IInv
<1>2. QED
  BY <1>1, Invariance, PTL

(* The counter of voice sessions is the number of connections that hold a  *)
(* slot, and of those whose accept raised, and stays within its limit, for *)
(* any number of connections (_reserve_voice_session and its callers).     *)
THEOREM SlotsAreAccounted == Spec => []SlotsAccounted
<1>1. IInv => SlotsAccounted
  BY DEF IInv
<1>2. QED
  BY <1>1, Invariance, PTL

(* The registry is the connections being served, but for a greeting that   *)
(* raised, and stays within its limit (ConnectionManager).                 *)
THEOREM RegistryIsAccounted == Spec => []RegistryAccounted
<1>1. IInv => RegistryAccounted
  BY DEF IInv
<1>2. QED
  BY <1>1, Invariance, PTL
=============================================================================
