--------------------------- MODULE SecurityProofs ---------------------------
(***************************************************************************)
(* What holds of Identity for any logins, devices, requests, tickets and   *)
(* sockets, and any cap; and of RateLimiter for any calls, processes and   *)
(* limit.                                                                  *)
(***************************************************************************)
EXTENDS Identity, RateLimiter, FiniteSetTheorems, SequenceTheorems, TLAPS

(* Nobody has logged in.                                                   *)
LEMMA InitInv == IdentityInit => IInv
<1>. SUFFICES ASSUME IdentityInit PROVE IInv
  OBVIOUS
<1>1. IdentityTypeOK
  BY DEF IdentityInit, IdentityTypeOK, NoTicket
<1>2. DevicesInv
  BY DEF IdentityInit, DevicesInv, SessionsDone, DeviceMutex, DropsAll, DropsDone,
         OneSessionPerDevice, Holds, Live
<1>3. NamedSessions /\ TicketsGone
  BY DEF IdentityInit, NamedSessions, TicketsGone, Presented
<1>4. QED
  BY <1>1, <1>2, <1>3 DEF IInv

(* The steps of logins keep the types.                                     *)
LEMMA LoginTypes ==
  ASSUME IdentityTypeOK, NEW l \in Logins,
         \/ \E d \in Devices : Login(l, d)
         \/ TakeDevice(l) \/ ReadDevice(l) \/ CountSessions(l) \/ CommitLogin(l) \/ RollBack(l)
  PROVE  IdentityTypeOK'
<1>. USE DEF IdentityTypeOK, ticketVars
<1>1. CASE \E d \in Devices : Login(l, d)
  BY <1>1 DEF Login
<1>2. CASE TakeDevice(l)
  BY <1>2 DEF TakeDevice
<1>3. CASE ReadDevice(l)
  BY <1>3 DEF ReadDevice, Live
<1>4. CASE CountSessions(l)
  BY <1>4 DEF CountSessions, Live, Older
<1>5. CASE CommitLogin(l)
  <2>1. session' \in [Logins -> {"none", "live", "revoked", "lapsed"}]
    BY <1>5 DEF CommitLogin
  <2>2. /\ stage[l] = "commit"
        /\ devices' = devices \union {device[l]}
        /\ stage' = [stage EXCEPT ![l] = "done"]
        /\ dropping' = [dropping EXCEPT ![l] = {}]
        /\ seen' = [seen EXCEPT ![l] = {}]
        /\ overlooked' = {m \in Logins : session'[m] = "live"} \ seen[l]
        /\ UNCHANGED <<registered, device, known, actor, ticket, socket, stale>>
    BY <1>5 DEF CommitLogin
  <2>3. devices' \subseteq Devices
    BY <2>2
  <2>4. QED
    BY <2>1, <2>2, <2>3
<1>6. CASE RollBack(l)
  BY <1>6 DEF RollBack
<1>7. QED
  BY <1>1, <1>2, <1>3, <1>4, <1>5, <1>6

(* So do the others.                                                       *)
LEMMA OtherTypes ==
  ASSUME IdentityTypeOK, IdentityNext,
         ~ \E l \in Logins :
           \/ \E d \in Devices : Login(l, d)
           \/ TakeDevice(l) \/ ReadDevice(l) \/ CountSessions(l) \/ CommitLogin(l) \/ RollBack(l)
  PROVE  IdentityTypeOK'
<1>. USE DEF IdentityTypeOK, loginVars, ticketVars
<1>1. CASE Register
  BY <1>1 DEF Register, CreateUser
<1>2. ASSUME NEW l \in Logins, Lapse(l) PROVE IdentityTypeOK'
  BY <1>2 DEF Lapse
<1>3. ASSUME NEW q \in Requests, NEW l \in Logins, Authenticate(q, l) \/ RevokeSession(q, l)
      PROVE IdentityTypeOK'
  BY <1>3 DEF Authenticate, RevokeSession, EndRequest, Revoke
<1>4. ASSUME NEW q \in Requests, Logout(q) \/ RevokeOthers(q) \/ OtherRequest(q)
      PROVE IdentityTypeOK'
  BY <1>4 DEF Logout, RevokeOthers, OtherRequest, EndRequest, Revoke
<1>5. ASSUME NEW q \in Requests, NEW t \in Tickets, NEW p \in Purposes, IssueTicket(q, t, p)
      PROVE IdentityTypeOK'
  BY <1>5 DEF IssueTicket, EndRequest, PutTicket
<1>6. ASSUME NEW t \in Tickets, TicketExpires(t) PROVE IdentityTypeOK'
  BY <1>6 DEF TicketExpires, NoTicket
<1>7. ASSUME NEW w \in Sockets, ValidateTicket(w) PROVE IdentityTypeOK'
  <2>1. PICK a \in {"admitted", "refused"} : socket' = [socket EXCEPT ![w].at = a]
    BY <1>7 DEF ValidateTicket
  <2>2. socket' \in [Sockets -> [at : {"idle", "validating", "admitted", "refused"},
                               ticket : Tickets \union {Nobody},
                               session : Logins \union {Nobody}]]
    <3>. SUFFICES ASSUME NEW x \in Sockets
                  PROVE  [socket[x] EXCEPT !.at = a]
                           \in [at : {"idle", "validating", "admitted", "refused"},
                               ticket : Tickets \union {Nobody},
                               session : Logins \union {Nobody}]
      BY <2>1
    <3>1. socket[x] \in [at : {"idle", "validating", "admitted", "refused"},
                         ticket : Tickets \union {Nobody},
                         session : Logins \union {Nobody}]
      OBVIOUS
    <3>. QED
      BY <3>1
  <2>3. QED
    BY <1>7, <2>2 DEF ValidateTicket
<1>8. ASSUME NEW w \in Sockets, NEW t \in Tickets, NEW p \in Purposes, Present(w, t, p)
      PROVE IdentityTypeOK'
  BY <1>8 DEF Present, TakeTicket, NoTicket
<1>9. QED
  BY <1>1, <1>2, <1>3, <1>4, <1>5, <1>6, <1>7, <1>8 DEF IdentityNext

(* A step that leaves the logins alone makes no session live, forgets none *)
(* and keeps what is known of the devices.                                 *)
LEMMA SessionsEnd ==
  ASSUME IdentityTypeOK, DevicesInv, UNCHANGED <<stage, device, dropping>>,
         session' \in [Logins -> {"none", "live", "revoked", "lapsed"}],
         \A l \in Logins : session'[l] = session[l]
                           \/ (session[l] # "none" /\ session'[l] \in {"revoked", "lapsed"})
  PROVE  DevicesInv' /\ Live' \subseteq Live
<1>1. Live' \subseteq Live
  BY DEF Live
<1>2. SessionsDone' /\ DeviceMutex'
  BY DEF DevicesInv, SessionsDone, DeviceMutex, Holds
<1>3. DropsAll' /\ DropsDone' /\ OneSessionPerDevice'
  BY <1>1 DEF DevicesInv, DropsAll, DropsDone, OneSessionPerDevice
<1>4. QED
  BY <1>1, <1>2, <1>3 DEF DevicesInv

(* One session per device, along the steps of a login: the first writer of *)
(* a device's row is alone until it commits.                               *)
LEMMA LoginDevices ==
  ASSUME IdentityTypeOK, DevicesInv, NEW l \in Logins,
         \/ \E d \in Devices : Login(l, d)
         \/ TakeDevice(l) \/ ReadDevice(l) \/ CountSessions(l) \/ CommitLogin(l) \/ RollBack(l)
  PROVE  DevicesInv'
<1>. USE DEF IdentityTypeOK, DevicesInv
<1>1. CASE \E d \in Devices : Login(l, d)
  <2>. PICK d \in Devices : Login(l, d)
    BY <1>1
  <2>1. /\ stage[l] = "idle" /\ l \notin Live
        /\ stage' = [stage EXCEPT ![l] = "device"] /\ device' = [device EXCEPT ![l] = d]
        /\ UNCHANGED <<session, dropping>>
    BY DEF Login, SessionsDone, Live
  <2>2. SessionsDone' /\ DeviceMutex'
    BY <2>1 DEF SessionsDone, DeviceMutex, Holds
  <2>3. DropsAll' /\ DropsDone' /\ OneSessionPerDevice'
    BY <2>1 DEF DropsAll, DropsDone, SessionsDone, OneSessionPerDevice, Live
  <2>4. QED
    BY <2>2, <2>3
<1>2. CASE TakeDevice(l)
  <2>1. /\ stage[l] = "device" /\ Free(device[l])
        /\ UNCHANGED <<session, dropping, device>>
    BY <1>2 DEF TakeDevice
  <2>. PICK next \in {"read", "failed"} : stage' = [stage EXCEPT ![l] = next]
    BY <1>2 DEF TakeDevice
  <2>2. SessionsDone'
    BY <2>1 DEF SessionsDone
  <2>3. DeviceMutex'
    BY <2>1 DEF DeviceMutex, Holds, Free
  <2>4. DropsAll' /\ DropsDone' /\ OneSessionPerDevice'
    BY <2>1 DEF DropsAll, DropsDone, SessionsDone, OneSessionPerDevice, Live
  <2>5. QED
    BY <2>2, <2>3, <2>4
<1>3. CASE ReadDevice(l)
  <2>1. /\ stage[l] = "read" /\ stage' = [stage EXCEPT ![l] = "count"]
        /\ dropping' = [dropping EXCEPT ![l] = {m \in Live : device[m] = device[l]}]
        /\ UNCHANGED <<session, device>>
    BY <1>3 DEF ReadDevice
  <2>2. SessionsDone' /\ DeviceMutex'
    BY <2>1 DEF SessionsDone, DeviceMutex, Holds
  <2>3. DropsAll' /\ DropsDone' /\ OneSessionPerDevice'
    BY <2>1 DEF DropsAll, DropsDone, SessionsDone, OneSessionPerDevice, Live
  <2>4. QED
    BY <2>2, <2>3
<1>4. CASE CountSessions(l)
  <2>1. /\ stage[l] = "count" /\ stage' = [stage EXCEPT ![l] = "commit"]
        /\ UNCHANGED <<session, device>>
    BY <1>4 DEF CountSessions
  <2>2. PICK S \in SUBSET (Live \union {l}) : dropping' = [dropping EXCEPT ![l] = @ \union S]
    BY <1>4 DEF CountSessions, Older
  <2>3. SessionsDone' /\ DeviceMutex'
    BY <2>1 DEF SessionsDone, DeviceMutex, Holds
  <2>4. DropsAll' /\ DropsDone' /\ OneSessionPerDevice'
    BY <2>1, <2>2 DEF DropsAll, DropsDone, SessionsDone, OneSessionPerDevice, Live
  <2>5. QED
    BY <2>3, <2>4
<1>5. CASE CommitLogin(l)
  <2>1. /\ stage[l] = "commit" /\ stage' = [stage EXCEPT ![l] = "done"]
        /\ session' = [m \in Logins |-> IF m \in dropping[l] THEN "revoked"
                                        ELSE IF m = l THEN "live" ELSE session[m]]
        /\ dropping' = [dropping EXCEPT ![l] = {}]
        /\ device' = device
    BY <1>5 DEF CommitLogin
  <2>2. Live' \subseteq (Live \ dropping[l]) \union {l}
    BY <2>1 DEF Live
  <2>3. \A m \in Live' : m = l \/ device[m] # device[l]
    BY <2>1, <2>2 DEF DropsAll
  <2>4. SessionsDone' /\ DropsDone'
    BY <2>1 DEF SessionsDone, DropsDone
  <2>5. DeviceMutex'
    BY <2>1 DEF DeviceMutex, Holds
  <2>6. DropsAll'
    <3>. SUFFICES ASSUME NEW k \in Logins, stage'[k] \in {"count", "commit"},
                         NEW m \in Live', device[m] = device[k]
                  PROVE  m \in dropping[k]
      BY <2>1 DEF DropsAll
    <3>1. k # l /\ stage[k] \in {"count", "commit"} /\ device[k] # device[l]
      BY <2>1 DEF DeviceMutex, Holds
    <3>2. m \in Live
      BY <2>2, <3>1
    <3>3. QED
      BY <3>1, <3>2 DEF DropsAll
  <2>7. OneSessionPerDevice'
    BY <2>1, <2>2, <2>3 DEF OneSessionPerDevice
  <2>8. QED
    BY <2>4, <2>5, <2>6, <2>7
<1>6. CASE RollBack(l)
  <2>1. /\ stage[l] \in {"device", "read", "count", "commit"}
        /\ stage' = [stage EXCEPT ![l] = "failed"]
        /\ dropping' = [dropping EXCEPT ![l] = {}]
        /\ UNCHANGED <<session, device>>
    BY <1>6 DEF RollBack
  <2>2. SessionsDone' /\ DeviceMutex'
    BY <2>1 DEF SessionsDone, DeviceMutex, Holds
  <2>3. DropsAll' /\ DropsDone' /\ OneSessionPerDevice'
    BY <2>1 DEF DropsAll, DropsDone, SessionsDone, OneSessionPerDevice, Live
  <2>4. QED
    BY <2>2, <2>3
<1>7. QED
  BY <1>1, <1>2, <1>3, <1>4, <1>5, <1>6

(* The others leave logins alone.                                          *)
LEMMA OtherDevices ==
  ASSUME IdentityTypeOK, DevicesInv, IdentityNext,
         ~ \E l \in Logins :
           \/ \E d \in Devices : Login(l, d)
           \/ TakeDevice(l) \/ ReadDevice(l) \/ CountSessions(l) \/ CommitLogin(l) \/ RollBack(l)
  PROVE  /\ DevicesInv' /\ Live' \subseteq Live
         /\ \A l \in Logins : session[l] # "none" => session'[l] # "none"
<1>1. UNCHANGED <<stage, device, dropping>>
  BY DEF IdentityNext, Register, Lapse, Authenticate, RevokeSession, Logout, RevokeOthers,
         OtherRequest, IssueTicket, TicketExpires, ValidateTicket, Present, loginVars
<1>2. session' \in [Logins -> {"none", "live", "revoked", "lapsed"}]
  BY OtherTypes DEF IdentityTypeOK
<1>3. \A l \in Logins : session'[l] = session[l]
                         \/ (session[l] # "none" /\ session'[l] \in {"revoked", "lapsed"})
  BY DEF IdentityNext, Register, Lapse, Authenticate, RevokeSession, Logout, RevokeOthers,
         OtherRequest, IssueTicket, TicketExpires, ValidateTicket, Present, Revoke, IdentityTypeOK
<1>4. QED
  BY <1>1, <1>2, <1>3, SessionsEnd

(* A login makes no session live again that is over, and forgets none.     *)
LEMMA LoginSessions ==
  ASSUME IdentityTypeOK, DevicesInv, NEW l \in Logins,
         \/ \E d \in Devices : Login(l, d)
         \/ TakeDevice(l) \/ ReadDevice(l) \/ CountSessions(l) \/ CommitLogin(l) \/ RollBack(l)
  PROVE  /\ \A m \in Logins : session[m] # "none" =>
              session'[m] # "none" /\ (m \notin Live => m \notin Live')
         /\ UNCHANGED <<actor, ticket, socket, stale>>
<1>1. CASE CommitLogin(l)
  <2>1. /\ stage[l] = "commit"
        /\ session' = [m \in Logins |-> IF m \in dropping[l] THEN "revoked"
                                        ELSE IF m = l THEN "live" ELSE session[m]]
    BY <1>1 DEF CommitLogin
  <2>2. session[l] = "none"
    BY <2>1 DEF DevicesInv, SessionsDone, IdentityTypeOK
  <2>3. QED
    BY <1>1, <2>1, <2>2 DEF Live, CommitLogin, ticketVars, IdentityTypeOK
<1>2. CASE ~CommitLogin(l)
  BY <1>2 DEF Login, TakeDevice, ReadDevice, CountSessions, RollBack, ticketVars, Live
<1>3. QED
  BY <1>1, <1>2

(* What requests and tickets name is known, and a presented ticket is gone *)
(* for good: no step but a presentation touches it.                        *)
LEMMA TicketStep ==
  ASSUME IInv, IdentityNext
  PROVE  NamedSessions' /\ TicketsGone'
<1>. USE DEF IInv, IdentityTypeOK
<1>1. ASSUME NEW l \in Logins,
             \/ \E d \in Devices : Login(l, d)
             \/ TakeDevice(l) \/ ReadDevice(l) \/ CountSessions(l) \/ CommitLogin(l) \/ RollBack(l)
      PROVE  NamedSessions' /\ TicketsGone'
  <2>1. /\ \A m \in Logins : session[m] # "none" =>
             session'[m] # "none" /\ (m \notin Live => m \notin Live')
        /\ UNCHANGED <<actor, ticket, socket, stale>>
    BY <1>1, LoginSessions
  <2>2. NamedSessions'
    BY <2>1 DEF NamedSessions
  <2>3. TicketsGone'
    BY <2>1 DEF TicketsGone, Presented
  <2>4. QED
    BY <2>2, <2>3
<1>2. ASSUME ~ \E l \in Logins :
               \/ \E d \in Devices : Login(l, d)
               \/ TakeDevice(l) \/ ReadDevice(l) \/ CountSessions(l) \/ CommitLogin(l)
               \/ RollBack(l)
      PROVE  NamedSessions' /\ TicketsGone'
  <2>1. /\ Live' \subseteq Live
        /\ \A l \in Logins : session[l] # "none" => session'[l] # "none"
    BY <1>2, OtherDevices
  <2>2. CASE UNCHANGED ticketVars
    <3>1. TicketsGone'
      BY <2>1, <2>2 DEF TicketsGone, Presented, ticketVars
    <3>2. \A q \in Requests : actor'[q] # Nobody => actor'[q] = actor[q] \/ actor'[q] \in Live
      BY <1>2, <2>2 DEF IdentityNext, Register, Lapse, Authenticate, RevokeSession, Logout,
           RevokeOthers, OtherRequest, EndRequest, IssueTicket, TicketExpires, ValidateTicket,
           Present
    <3>3. NamedSessions'
      BY <2>1, <2>2, <3>2 DEF NamedSessions, ticketVars, Live
    <3>4. QED
      BY <3>1, <3>3
  <2>3. ASSUME NEW q \in Requests, NEW t \in Tickets, NEW p \in Purposes, IssueTicket(q, t, p)
        PROVE  NamedSessions' /\ TicketsGone'
    BY <2>1, <2>3, NamesAssumption
    DEF IssueTicket, EndRequest, PutTicket, NamedSessions, TicketsGone, Presented
  <2>4. ASSUME NEW t \in Tickets, TicketExpires(t) PROVE NamedSessions' /\ TicketsGone'
    BY <2>1, <2>4 DEF TicketExpires, NamedSessions, TicketsGone, Presented
  <2>5. ASSUME NEW w \in Sockets, ValidateTicket(w) PROVE NamedSessions' /\ TicketsGone'
    <3>. DEFINE Shown == {"validating", "admitted"}
    <3>1. PICK a \in {"admitted", "refused"} : socket' = [socket EXCEPT ![w].at = a]
      BY <2>5 DEF ValidateTicket
    <3>2. /\ socket[w].at \in Shown /\ UNCHANGED <<session, actor, ticket, stale>>
          /\ socket'[w].at = "admitted" => socket[w].session \in Live
      BY ZenonT(60), <2>5 DEF ValidateTicket, Presented
    <3>3. \A v \in Sockets :
            /\ socket'[v].ticket = socket[v].ticket
            /\ socket'[v].session = socket[v].session
            /\ v # w => socket'[v].at = socket[v].at
            /\ socket'[v].at \in Shown => socket[v].at \in Shown
      BY <3>1, <3>2 DEF Presented
    <3>4. NamedSessions'
      BY <3>2 DEF NamedSessions
    <3>5. TicketsGone'
      <4>. SUFFICES ASSUME NEW v \in Sockets, socket'[v].at \in Shown
                    PROVE  /\ socket[v].ticket \in Tickets /\ ticket[socket[v].ticket] = NoTicket
                           /\ socket[v].session \in Logins /\ session[socket[v].session] # "none"
                           /\ stale[v] => /\ socket'[v].at = "validating"
                                         /\ socket[v].session \notin Live
                           /\ \A u \in Sockets \ {v} : socket'[u].at \in Shown =>
                                socket[u].ticket # socket[v].ticket
        BY <3>2, <3>3 DEF TicketsGone, Live, Presented
      <4>1. /\ socket[v].at \in Shown
            /\ \A u \in Sockets : socket'[u].at \in Shown => socket[u].at \in Shown
        BY <3>3
      <4>2. stale[v] => socket'[v].at = "validating"
        BY <4>1, <3>2, <3>3 DEF TicketsGone, Presented
      <4>3. QED
        BY <4>1, <4>2 DEF TicketsGone, Presented
    <3>6. QED
      BY <3>4, <3>5
  <2>6. ASSUME NEW w \in Sockets, NEW t \in Tickets, NEW p \in Purposes, Present(w, t, p)
        PROVE  NamedSessions' /\ TicketsGone'
    <3>. DEFINE Shown == {"validating", "admitted"}
    <3>1. /\ socket[w].at = "idle" /\ ticket' = [ticket EXCEPT ![t] = NoTicket]
          /\ stale' = [stale EXCEPT ![w] = ticket[t].session \notin Live]
          /\ UNCHANGED <<session, actor>>
      BY <2>6 DEF Present, TakeTicket
    <3>2. PICK a \in {"validating", "refused"} :
            /\ socket' = [socket EXCEPT ![w] = [at |-> a, ticket |-> t,
                                               session |-> ticket[t].session]]
            /\ a = "validating" => ticket[t] # NoTicket
      BY <2>6 DEF Present
    <3>3. NamedSessions'
      BY <3>1 DEF NamedSessions
    <3>4. ASSUME NEW v \in Sockets, v # w
          PROVE  socket'[v] = socket[v] /\ stale'[v] = stale[v]
      BY <3>1, <3>2, <3>4
    <3>5. socket'[w].at \in Shown =>
            /\ socket'[w].ticket = t /\ ticket[t] # NoTicket /\ ticket'[t] = NoTicket
            /\ socket'[w].session = ticket[t].session /\ socket'[w].at = "validating"
            /\ stale'[w] => ticket[t].session \notin Live'
      BY <3>1, <3>2 DEF Presented, Live
    <3>6. \A v \in Sockets : socket[v].at \in Shown /\ ticket[t] # NoTicket => socket[v].ticket # t
      BY DEF TicketsGone, Presented
    <3>7. TicketsGone'
      <4>1. ASSUME socket'[w].at \in Shown
            PROVE  /\ ticket[t].session \in Logins /\ session[ticket[t].session] # "none"
                   /\ \A v \in Sockets \ {w} : socket'[v].at \in Shown => socket'[v].ticket # t
        BY <4>1, <3>4, <3>5, <3>6 DEF NamedSessions
      <4>2. ASSUME NEW v \in Sockets, v # w, socket[v].at \in Shown
            PROVE  /\ socket[v].ticket \in Tickets /\ ticket'[socket[v].ticket] = NoTicket
                   /\ socket[v].session \in Logins /\ session'[socket[v].session] # "none"
                   /\ stale[v] => socket[v].at = "validating" /\ socket[v].session \notin Live'
                   /\ \A u \in Sockets \ {v, w} :
                        socket[u].at \in Shown => socket[u].ticket # socket[v].ticket
        BY <4>2, <3>1 DEF TicketsGone, Presented, Live
      <4>3. SUFFICES ASSUME NEW v \in Sockets, socket'[v].at \in Shown
                     PROVE  /\ socket'[v].ticket \in Tickets
                            /\ ticket'[socket'[v].ticket] = NoTicket
                            /\ socket'[v].session \in Logins
                            /\ session'[socket'[v].session] # "none"
                            /\ stale'[v] => /\ socket'[v].at = "validating"
                                           /\ socket'[v].session \notin Live'
                            /\ \A u \in Sockets \ {v} : socket'[u].at \in Shown =>
                                 socket'[u].ticket # socket'[v].ticket
        BY DEF TicketsGone, Presented
      <4>4. CASE v = w
        BY <3>1, <3>5, <4>1, <4>3, <4>4
      <4>5. CASE v # w
        <5>1. socket[v].at \in Shown /\ socket'[v] = socket[v] /\ stale'[v] = stale[v]
          BY <3>4, <4>3, <4>5
        <5>2. \A u \in Sockets \ {v, w} :
                socket'[u].at \in Shown => socket'[u].ticket # socket[v].ticket
          BY <3>4, <4>2, <4>5, <5>1
        <5>3. socket'[w].at \in Shown => socket'[w].ticket # socket[v].ticket
          BY <3>5, <3>6, <5>1
        <5>4. QED
          BY <4>2, <4>5, <5>1, <5>2, <5>3
      <4>6. QED
        BY <4>4, <4>5
    <3>8. QED
      BY <3>3, <3>7
  <2>7. QED
    BY <1>2, <2>2, <2>3, <2>4, <2>5, <2>6 DEF IdentityNext, Register, Lapse, Authenticate,
         RevokeSession, Logout, RevokeOthers, OtherRequest
<1>3. QED
  BY <1>1, <1>2

(* The inductive invariant.                                                *)
THEOREM Invariance == IdentitySpec => []IInv
<1>1. ASSUME IInv, IdentityNext PROVE IInv'
  <2>1. IdentityTypeOK'
    BY <1>1, LoginTypes, OtherTypes DEF IInv
  <2>2. DevicesInv'
    BY <1>1, LoginDevices, OtherDevices DEF IInv
  <2>3. QED
    BY <1>1, <2>1, <2>2, TicketStep DEF IInv
<1>2. ASSUME IInv, UNCHANGED identityVars PROVE IInv'
  BY <1>2 DEF IInv, IdentityTypeOK, DevicesInv, SessionsDone, DeviceMutex, DropsAll, DropsDone,
     OneSessionPerDevice, NamedSessions, TicketsGone, Presented, Holds, Live, identityVars,
     loginVars, ticketVars
<1>3. QED
  BY <1>1, <1>2, InitInv, PTL DEF IdentitySpec

(* Two active sessions never share a device, for any number of logins that *)
(* overlap in any way.                                                     *)
THEOREM OnePerDevice == IdentitySpec => []OneSessionPerDevice
<1>1. IInv => OneSessionPerDevice
  BY DEF IInv, DevicesInv
<1>2. QED
  BY <1>1, Invariance, PTL

(* A ticket admits one socket, and only while its session is active.       *)
THEOREM TicketsAdmitOnce == IdentitySpec => []TicketsOnce
<1>1. IInv => TicketsOnce
  BY DEF IInv, TicketsGone, TicketsOnce, Presented
<1>2. QED
  BY <1>1, Invariance, PTL
-----------------------------------------------------------------------------
(***************************************************************************)
(* The cap.  The sessions a login leaves are each among the SessionCap     *)
(* newest of those it saw; so they are no more than that.                  *)
(***************************************************************************)
(* A set of naturals has a least element.                                  *)
LEMMA Least ==
  ASSUME NEW T \in SUBSET Nat, T # {}
  PROVE  \E x \in T : \A y \in T : x <= y
<1>. DEFINE R == {p \in Nat \X Nat : p[1] < p[2]}
<1>1. IsWellFoundedOn(R, Nat)
  BY NatLessThanWellFounded, Zenon DEF OpToRel
<1>. HIDE DEF R
<1>2. \E x \in T : \A y \in T : <<y, x>> \notin R
  BY <1>1, WFMin
<1>3. \A x, y \in Nat : <<y, x>> \notin R => x <= y
  BY DEF R
<1>. QED
  BY <1>2, <1>3

(* In a set of logins that are all born, no more than SessionCap have less *)
(* than SessionCap newer than them: count those newer than the oldest.     *)
LEMMA CapOfOrder ==
  ASSUME born \in Seq(Logins), NEW S \in SUBSET Logins,
         \A l \in S : \E i \in DOMAIN born : born[i] = l
  PROVE  /\ IsFiniteSet(S)
         /\ Cardinality(S \ Older(S)) <= SessionCap
<1>. DEFINE first[l \in S] == CHOOSE i \in DOMAIN born : born[i] = l
            T == S \ Older(S)
<1>1. \A l \in S : first[l] \in DOMAIN born /\ born[first[l]] = l
  OBVIOUS
<1>2. DOMAIN born = 1 .. Len(born) /\ Len(born) \in Nat /\ SessionCap \in Nat \ {0}
  BY SessionCapAssumption
<1>3. IsFiniteSet(S)
  <2>1. first \in Injection(S, 1 .. Len(born))
    BY <1>1, <1>2 DEF Injection, IsInjective
  <2>. QED
    BY <1>2, <2>1, FS_Interval, FS_Injection
<1>. HIDE DEF first
<1>4. IsFiniteSet(T) /\ Cardinality(T) \in Nat
  BY <1>3, FS_Subset, FS_CardinalityType
<1>5. CASE T = {}
  <2>1. Cardinality(T) = 0
    BY <1>5, FS_EmptySet
  <2>. QED
    BY <1>2, <1>3, <2>1
<1>6. CASE T # {}
  <2>. DEFINE I == {first[l] : l \in T}
  <2>1. PICK a \in T : \A l \in T : first[a] <= first[l]
    <3>1. I \in SUBSET Nat /\ I # {}
      BY <1>1, <1>2, <1>6
    <3>2. \E x \in I : \A y \in I : x <= y
      BY <3>1, Least
    <3>. QED
      BY <3>2
  <2>. DEFINE N == {m \in S : Newer(m, a)}
  <2>2. T \ {a} \subseteq N
    <3>1. SUFFICES ASSUME NEW l \in T, l # a PROVE Newer(l, a)
      OBVIOUS
    <3>2. first[a] < first[l]
      BY <1>1, <1>2, <2>1, <3>1
    <3>. QED
      BY <1>1, <3>2 DEF Newer
  <2>3. IsFiniteSet(N) /\ Cardinality(N) \in Nat /\ Cardinality(N) < SessionCap
    <3>1. IsFiniteSet(N) /\ Cardinality(N) \in Nat
      BY <1>3, FS_Subset, FS_CardinalityType
    <3>2. ~(Cardinality(N) >= SessionCap)
      BY DEF Older
    <3>. QED
      BY <1>2, <3>1, <3>2
  <2>4. IsFiniteSet(T \ {a}) /\ Cardinality(T \ {a}) = Cardinality(T) - 1
    BY <1>4, FS_RemoveElement
  <2>5. Cardinality(T \ {a}) <= Cardinality(N)
    BY <2>2, <2>3, FS_Subset
  <2>. QED
    BY <1>2, <1>3, <1>4, <2>3, <2>4, <2>5
<1>. QED
  BY <1>5, <1>6

(* A login that is taken out of the order leaves the others in.            *)
LEMMA WithoutKeeps ==
  ASSUME NEW s \in Seq(Logins), NEW l \in Logins
  PROVE  /\ Without(s, l) \in Seq(Logins)
         /\ \A m \in Logins \ {l} : (\E i \in DOMAIN s : s[i] = m)
              => \E i \in DOMAIN Without(s, l) : Without(s, l)[i] = m
<1>1. CASE ~ \E i \in DOMAIN s : s[i] = l
  BY <1>1 DEF Without
<1>2. CASE \E i \in DOMAIN s : s[i] = l
  <2>1. PICK k \in 1 .. Len(s) :
          /\ s[k] = l
          /\ Without(s, l) = [i \in 1 .. Len(s) - 1 |-> IF i < k THEN s[i] ELSE s[i + 1]]
    <3>1. PICK k \in DOMAIN s : k = (CHOOSE j \in DOMAIN s : s[j] = l) /\ s[k] = l
      BY <1>2, Zenon
    <3>2. Without(s, l) = [i \in 1 .. Len(s) - 1 |-> IF i < k THEN s[i] ELSE s[i + 1]]
      BY <1>2, <3>1, Zenon DEF Without
    <3>3. k \in 1 .. Len(s)
      BY LenProperties
    <3>. QED
      BY <3>1, <3>2, <3>3, Zenon
  <2>2. PICK r : r = [i \in 1 .. Len(s) - 1 |-> IF i < k THEN s[i] ELSE s[i + 1]]
    OBVIOUS
  <2>3. r \in Seq(Logins) /\ Len(r) = Len(s) - 1
    <3>1. Len(s) - 1 \in Nat /\ DOMAIN r = 1 .. Len(s) - 1
      BY <2>2
    <3>2. \A i \in 1 .. Len(s) - 1 : r[i] \in Logins
      BY <2>2
    <3>3. r \in [1 .. Len(s) - 1 -> Logins]
      BY <2>2, <3>2
    <3>. QED
      BY <3>1, <3>3, IsASeq, LenProperties
  <2>4. /\ \A i \in 1 .. k - 1 : r[i] = s[i]
        /\ \A i \in k .. Len(s) - 1 : r[i] = s[i + 1]
    BY <2>2
  <2>5. \A i \in DOMAIN s \ {k} : \E j \in DOMAIN r : r[j] = s[i]
    <3>1. ASSUME NEW i \in 1 .. Len(s), i < k
          PROVE  i \in DOMAIN r /\ r[i] = s[i]
      BY <2>3, <2>4, <3>1
    <3>2. ASSUME NEW i \in 1 .. Len(s), i > k
          PROVE  i - 1 \in DOMAIN r /\ r[i - 1] = s[i]
      <4>1. i - 1 \in k .. Len(s) - 1 /\ (i - 1) + 1 = i
        BY <3>2
      <4>. QED
        BY <2>3, <2>4, <4>1
    <3>. QED
      BY <3>1, <3>2
  <2>6. \A m \in Logins \ {l} : (\E i \in DOMAIN s : s[i] = m) => \E j \in DOMAIN r : r[j] = m
    BY <2>1, <2>5, Zenon
  <2>7. Without(s, l) = r
    BY <2>1, <2>2, Zenon
  <2>. QED
    BY <2>3, <2>6, <2>7, Zenon
<1>. QED
  BY <1>1, <1>2

(* Nobody has logged in.                                                   *)
LEMMA InitCapInv == IdentityInit => CapInv
<1>. SUFFICES ASSUME IdentityInit PROVE CapInv
  OBVIOUS
<1>1. Live \ overlooked = {} /\ BornInv /\ LeavesInv
  BY DEF IdentityInit, Live, BornInv, LeavesInv
<1>. QED
  BY <1>1, FS_EmptySet, SessionCapAssumption DEF CapInv, CapHolds

(* Where logins only end, rows keep their places and counts shrink.        *)
LEMMA CapKept ==
  ASSUME CapInv, BornInv', LeavesInv', overlooked' = overlooked, Live' \subseteq Live
  PROVE  CapInv'
<1>. DEFINE S == Live \ overlooked
            T == Live' \ overlooked'
<1>1. T \in SUBSET S /\ IsFiniteSet(S) /\ Cardinality(S) <= SessionCap
  BY DEF CapInv, CapHolds
<1>2. IsFiniteSet(T) /\ Cardinality(T) <= Cardinality(S)
  BY <1>1, FS_Subset
<1>3. Cardinality(T) \in Int /\ Cardinality(S) \in Int /\ SessionCap \in Int
  BY <1>1, <1>2, FS_CardinalityType, SessionCapAssumption
<1>. QED
  BY <1>1, <1>2, <1>3 DEF CapInv, CapHolds

(* The steps of a login keep the cap.                                      *)
LEMMA LoginCap ==
  ASSUME IdentityTypeOK, DevicesInv, CapInv, NEW l \in Logins,
         \/ \E d \in Devices : Login(l, d)
         \/ TakeDevice(l) \/ ReadDevice(l) \/ CountSessions(l) \/ CommitLogin(l) \/ RollBack(l)
  PROVE  CapInv'
<1>. USE DEF IdentityTypeOK
<1>0. BornInv /\ LeavesInv
  BY DEF CapInv
<1>1. CASE \E d \in Devices : Login(l, d)
  <2>. PICK d \in Devices : Login(l, d)
    BY <1>1
  <2>1. BornInv' /\ LeavesInv' /\ Live' = Live /\ overlooked' = overlooked
    <3>1. stage' = [stage EXCEPT ![l] = "device"]
          /\ UNCHANGED <<born, dropping, seen, overlooked, session>>
      BY DEF Login
    <3>. QED
      BY <1>0, <3>1 DEF BornInv, LeavesInv, Live
  <2>. QED
    BY <2>1, CapKept
<1>2. CASE TakeDevice(l)
  <2>1. BornInv' /\ LeavesInv' /\ Live' = Live /\ overlooked' = overlooked
    BY <1>0, <1>2 DEF TakeDevice, BornInv, LeavesInv, Live
  <2>. QED
    BY <2>1, CapKept
<1>3. CASE ReadDevice(l)
  <2>1. LeavesInv' /\ Live' = Live /\ overlooked' = overlooked
    BY <1>0, <1>3 DEF ReadDevice, LeavesInv, Live
  <2>2. /\ born' = Append(born, l) /\ stage' = [stage EXCEPT ![l] = "count"]
    BY <1>3 DEF ReadDevice
  <2>3. /\ born' \in Seq(Logins) /\ Len(born') = Len(born) + 1
        /\ \A i \in 1 .. Len(born) : born'[i] = born[i]
        /\ born'[Len(born) + 1] = l
    BY <1>0, <2>2, AppendProperties DEF BornInv
  <2>4. \A m \in Logins : (m = l \/ \E i \in DOMAIN born : born[i] = m)
                           => \E i \in DOMAIN born' : born'[i] = m
    <3>1. Len(born) \in Nat /\ DOMAIN born = 1 .. Len(born) /\ DOMAIN born' = 1 .. Len(born) + 1
      BY <1>0, <2>3 DEF BornInv
    <3>2. Len(born) + 1 \in DOMAIN born' /\ DOMAIN born \subseteq DOMAIN born'
      BY <3>1
    <3>. QED
      BY <2>3, <3>1, <3>2
  <2>5. BornInv'
    BY <1>0, <2>2, <2>3, <2>4 DEF BornInv
  <2>. QED
    BY <2>1, <2>5, CapKept
<1>4. CASE CountSessions(l)
  <2>. DEFINE active == (Live \ dropping[l]) \union {l}
  <2>1. /\ stage[l] = "count" /\ stage' = [stage EXCEPT ![l] = "commit"]
        /\ seen' = [seen EXCEPT ![l] = active]
        /\ dropping' = [dropping EXCEPT ![l] = dropping[l] \union Older(active)]
        /\ UNCHANGED <<born, session, overlooked>>
    BY <1>4 DEF CountSessions
  <2>2. \A m \in active : \E i \in DOMAIN born : born[i] = m
    BY <1>0, <2>1 DEF BornInv, DevicesInv, SessionsDone, Live
  <2>3. active \in SUBSET Logins
    BY DEF Live
  <2>4. IsFiniteSet(active) /\ Cardinality(active \ Older(active)) <= SessionCap
    BY <1>0, <2>2, <2>3, CapOfOrder DEF BornInv
  <2>5. seen'[l] = active /\ dropping'[l] = dropping[l] \union Older(active)
    BY <2>1
  <2>. HIDE DEF active
  <2>6. /\ IsFiniteSet(seen'[l] \ dropping'[l])
        /\ Cardinality(seen'[l] \ dropping'[l]) <= SessionCap
    <3>1. seen'[l] \ dropping'[l] \in SUBSET (active \ Older(active))
      BY <2>5
    <3>2. IsFiniteSet(active \ Older(active))
      BY <2>4, FS_Subset
    <3>3. /\ IsFiniteSet(seen'[l] \ dropping'[l])
          /\ Cardinality(seen'[l] \ dropping'[l]) <= Cardinality(active \ Older(active))
      BY <3>1, <3>2, FS_Subset
    <3>4. /\ Cardinality(seen'[l] \ dropping'[l]) \in Int
          /\ Cardinality(active \ Older(active)) \in Int /\ SessionCap \in Int
      BY <3>2, <3>3, FS_CardinalityType, SessionCapAssumption
    <3>. QED
      BY <2>4, <3>3, <3>4
  <2>7. \A m \in Logins \ {l} : seen'[m] = seen[m] /\ dropping'[m] = dropping[m] /\ stage'[m] = stage[m]
    BY <2>1
  <2>8. LeavesInv'
    BY <1>0, <2>6, <2>7 DEF LeavesInv
  <2>9. BornInv' /\ Live' = Live /\ overlooked' = overlooked
    BY <1>0, <2>1 DEF BornInv, Live
  <2>. QED
    BY <2>8, <2>9, CapKept
<1>5. CASE CommitLogin(l)
  <2>1. /\ stage[l] = "commit"
        /\ session' = [m \in Logins |-> IF m \in dropping[l] THEN "revoked"
                                        ELSE IF m = l THEN "live" ELSE session[m]]
        /\ stage' = [stage EXCEPT ![l] = "done"]
        /\ dropping' = [dropping EXCEPT ![l] = {}]
        /\ seen' = [seen EXCEPT ![l] = {}]
        /\ overlooked' = {m \in Logins : session'[m] = "live"} \ seen[l]
        /\ born' = born
    BY <1>5 DEF CommitLogin
  <2>2. BornInv' /\ LeavesInv'
    BY <1>0, <2>1 DEF BornInv, LeavesInv
  <2>. DEFINE S == seen[l] \ dropping[l]
              T == Live' \ overlooked'
  <2>3. IsFiniteSet(S) /\ Cardinality(S) <= SessionCap
    BY <1>0, <2>1 DEF LeavesInv
  <2>4. T \in SUBSET S
    BY <2>1 DEF Live
  <2>5. IsFiniteSet(T) /\ Cardinality(T) <= Cardinality(S)
    BY <2>3, <2>4, FS_Subset
  <2>6. Cardinality(T) \in Int /\ Cardinality(S) \in Int /\ SessionCap \in Int
    BY <2>3, <2>5, FS_CardinalityType, SessionCapAssumption
  <2>. QED
    BY <2>2, <2>3, <2>5, <2>6 DEF CapInv, CapHolds
<1>6. CASE RollBack(l)
  <2>1. /\ stage' = [stage EXCEPT ![l] = "failed"] /\ born' = Without(born, l)
        /\ dropping' = [dropping EXCEPT ![l] = {}] /\ seen' = [seen EXCEPT ![l] = {}]
        /\ UNCHANGED <<overlooked, session>>
    BY <1>6 DEF RollBack
  <2>2. /\ Without(born, l) \in Seq(Logins)
        /\ \A m \in Logins \ {l} : (\E i \in DOMAIN born : born[i] = m)
             => \E i \in DOMAIN Without(born, l) : Without(born, l)[i] = m
    BY <1>0, WithoutKeeps DEF BornInv
  <2>3. BornInv'
    BY <1>0, <2>1, <2>2 DEF BornInv
  <2>4. LeavesInv' /\ Live' = Live
    BY <1>0, <2>1 DEF LeavesInv, Live
  <2>. QED
    BY <2>1, <2>3, <2>4, CapKept
<1>. QED
  BY <1>1, <1>2, <1>3, <1>4, <1>5, <1>6

(* So do the others: they only end sessions.                               *)
LEMMA OtherCap ==
  ASSUME IdentityTypeOK, CapInv, IdentityNext,
         ~ \E l \in Logins :
           \/ \E d \in Devices : Login(l, d)
           \/ TakeDevice(l) \/ ReadDevice(l) \/ CountSessions(l) \/ CommitLogin(l) \/ RollBack(l)
  PROVE  CapInv'
<1>. USE DEF IdentityTypeOK, loginVars, ticketVars
<1>. DEFINE Ends == UNCHANGED <<stage, born, dropping, seen, overlooked>> /\ Live' \subseteq Live
<1>0. ASSUME Ends PROVE CapInv'
  <2>1. BornInv' /\ LeavesInv'
    BY <1>0 DEF CapInv, BornInv, LeavesInv
  <2>. QED
    BY <1>0, <2>1, CapKept
<1>1. ASSUME Register PROVE Ends
  BY <1>1 DEF Register, Live
<1>2. ASSUME NEW l \in Logins, Lapse(l) PROVE Ends
  BY <1>2 DEF Lapse, Live
<1>3. ASSUME NEW q \in Requests, NEW l \in Logins, Authenticate(q, l) \/ RevokeSession(q, l)
      PROVE Ends
  BY <1>3 DEF Authenticate, RevokeSession, Revoke, Live
<1>4. ASSUME NEW q \in Requests, Logout(q) \/ RevokeOthers(q) \/ OtherRequest(q)
      PROVE Ends
  BY <1>4 DEF Logout, RevokeOthers, OtherRequest, Revoke, Live
<1>5. ASSUME NEW q \in Requests, NEW t \in Tickets, NEW p \in Purposes, IssueTicket(q, t, p)
      PROVE Ends
  BY <1>5 DEF IssueTicket, Live
<1>6. ASSUME NEW t \in Tickets, TicketExpires(t) PROVE Ends
  BY <1>6 DEF TicketExpires, Live
<1>7. ASSUME NEW w \in Sockets, ValidateTicket(w) PROVE Ends
  BY <1>7 DEF ValidateTicket, Live
<1>8. ASSUME NEW w \in Sockets, NEW t \in Tickets, NEW p \in Purposes, Present(w, t, p)
      PROVE Ends
  BY <1>8 DEF Present, Live
<1>. QED
  BY <1>0, <1>1, <1>2, <1>3, <1>4, <1>5, <1>6, <1>7, <1>8 DEF IdentityNext

(* The active sessions are at most the cap, but for those whose logins     *)
(* committed between the count and the commit of the last login.           *)
THEOREM CapIsKept == IdentitySpec => []CapHolds
<1>1. IInv /\ CapInv /\ [IdentityNext]_identityVars => CapInv'
  <2>1. CASE UNCHANGED identityVars
    BY <2>1 DEF identityVars, loginVars, ticketVars, CapInv, BornInv, LeavesInv, CapHolds, Live
  <2>2. CASE IdentityNext
    BY <2>2, LoginCap, OtherCap DEF IInv
  <2>. QED
    BY <2>1, <2>2
<1>2. CapInv => CapHolds
  BY DEF CapInv
<1>. QED
  BY <1>1, <1>2, InitCapInv, Invariance, PTL DEF IdentitySpec

-----------------------------------------------------------------------------
(***************************************************************************)
(* The window's bound.  A process that counts in memory fell there by a    *)
(* failure of Redis, and stays until it restarts; so the counts that let   *)
(* calls through are as many as the failures and as the memories.          *)
(***************************************************************************)
(* What is needed of products by the limit.                                *)
LEMMA Products ==
  ASSUME NEW a \in Int, NEW b \in Int
  PROVE  /\ Limit * a \in Int /\ Limit * b \in Int
         /\ a <= b => Limit * a <= Limit * b
         /\ Limit * (a + b) = Limit * a + Limit * b
         /\ Limit * 0 = 0 /\ Limit * 1 = Limit
  BY LimiterAssumption

(* The counts are numbers.                                                 *)
LEMMA Numbers ==
  ASSUME LimiterTypeOK, CallsOK, NEW w \in Windows
  PROVE  /\ OnTime(w) \in Int /\ InRedis(w) \in 0 .. Limit /\ Limit \in Nat
         /\ IsFiniteSet(InMemory(w)) /\ Cardinality(InMemory(w)) \in Nat
         /\ Cardinality(InMemory(w)) <= Limit * Cardinality(Processes)
         /\ Cardinality(Processes) \in Nat
<1>. USE LimiterAssumption
<1>1. OnTime(w) \in Int /\ InRedis(w) \in 0 .. Limit
  BY DEF LimiterTypeOK, OnTime, InRedis
<1>2. IsFiniteSet(1 .. Limit) /\ Cardinality(1 .. Limit) = Limit
  BY FS_Interval
<1>3. /\ IsFiniteSet(Processes \X (1 .. Limit))
      /\ Cardinality(Processes \X (1 .. Limit)) = Cardinality(Processes) * Limit
  BY <1>2, FS_Product
<1>4. InMemory(w) \in SUBSET (Processes \X (1 .. Limit))
  BY DEF InMemory
<1>5. /\ IsFiniteSet(InMemory(w))
      /\ Cardinality(InMemory(w)) <= Cardinality(Processes \X (1 .. Limit))
  BY <1>3, <1>4, FS_Subset
<1>6. Cardinality(InMemory(w)) \in Nat /\ Cardinality(Processes) \in Nat
  BY <1>5, FS_CardinalityType
<1>7. Cardinality(Processes) * Limit = Limit * Cardinality(Processes)
  BY <1>6
<1>. QED
  BY <1>1, <1>3, <1>5, <1>6, <1>7

(* Whoever has counted in memory has fallen.                               *)
LEMMA FallenCount ==
  ASSUME LimiterTypeOK, CallsOK, FallenInv, NEW w \in Windows
  PROVE  /\ Cardinality(Fallen) \in Nat
         /\ Cardinality(InMemory(w)) <= Limit * Cardinality(Fallen)
<1>. USE LimiterAssumption
<1>1. IsFiniteSet(Fallen) /\ Cardinality(Fallen) \in Nat
  BY FS_CardinalityType DEF FallenInv
<1>2. IsFiniteSet(1 .. Limit) /\ Cardinality(1 .. Limit) = Limit
  BY FS_Interval
<1>3. /\ IsFiniteSet(Fallen \X (1 .. Limit))
      /\ Cardinality(Fallen \X (1 .. Limit)) = Cardinality(Fallen) * Limit
  BY <1>1, <1>2, FS_Product
<1>4. InMemory(w) \in SUBSET (Fallen \X (1 .. Limit))
  <2>1. SUFFICES ASSUME NEW p \in Processes, NEW n \in 1 .. Limit, n <= memory[p][w]
                 PROVE  p \in Fallen
    BY DEF InMemory
  <2>2. memory[p][w] > 0
    BY <2>1 DEF LimiterTypeOK
  <2>. QED
    BY <2>2 DEF Fallen
<1>5. Cardinality(InMemory(w)) <= Cardinality(Fallen \X (1 .. Limit))
  BY <1>3, <1>4, FS_Subset
<1>6. Cardinality(Fallen) * Limit = Limit * Cardinality(Fallen)
  BY <1>1
<1>. QED
  BY <1>1, <1>3, <1>5, <1>6

(* The window that lasts is within the bound.                              *)
LEMMA NowBounded ==
  ASSUME LimiterTypeOK, CallsOK, FallenInv, NowInv
  PROVE  OnTime(now) <= Limit * (1 + Memories)
<1>. USE LimiterAssumption
<1>. DEFINE m == Cardinality(InMemory(now))
            f == Cardinality(Fallen)
            P == Cardinality(Processes)
            r == InRedis(now)
            t == OnTime(now)
<1>0. now \in Windows /\ faults \in Nat /\ restarts \in Nat
  BY DEF LimiterTypeOK, CallsOK
<1>1. /\ t \in Int /\ r \in Int /\ 0 <= r /\ r <= Limit /\ m \in Nat /\ P \in Nat
      /\ m <= Limit * P
  BY <1>0, Numbers
<1>2. f \in Nat /\ m <= Limit * f /\ f <= faults
  BY <1>0, FallenCount DEF FallenInv
<1>3. /\ failClosed => t <= r
      /\ t <= r + m + Limit * restarts
      /\ t <= r + m + Limit * (faults - f)
  BY DEF NowInv
<1>. HIDE DEF m, f, P, r, t
<1>4. CASE failClosed
  <2>1. Limit * (1 + Memories) = Limit
    BY <1>4 DEF Memories
  <2>. QED
    BY <1>1, <1>3, <1>4, <2>1 DEF t
<1>5. CASE ~failClosed
  <2>1. t <= Limit * (1 + (P + restarts))
    <3>1. Limit * (1 + (P + restarts)) = Limit + (Limit * P + Limit * restarts)
      BY <1>0, <1>1, Products
    <3>2. Limit * P \in Int /\ Limit * restarts \in Int
      BY <1>0, <1>1, Products
    <3>. QED
      BY <1>0, <1>1, <1>3, <3>1, <3>2
  <2>2. t <= Limit * (1 + faults)
    <3>1. Limit * (1 + faults) = Limit + (Limit * f + Limit * (faults - f))
      <4>1. faults - f \in Int /\ faults = f + (faults - f)
        BY <1>0, <1>2
      <4>2. Limit * faults = Limit * f + Limit * (faults - f)
        BY <1>2, <4>1, Products
      <4>3. Limit * (1 + faults) = Limit * 1 + Limit * faults
        BY <1>0, Products
      <4>. QED
        BY <4>2, <4>3
    <3>2. Limit * f \in Int /\ Limit * (faults - f) \in Int
      BY <1>0, <1>2, Products
    <3>. QED
      BY <1>0, <1>1, <1>2, <1>3, <3>1, <3>2
  <2>3. Memories = faults \/ Memories = P + restarts
    BY <1>5 DEF Memories, P
  <2>. QED
    BY <2>1, <2>2, <2>3 DEF t
<1>. QED
  BY <1>4, <1>5

(* The bound of a window only rises.                                       *)
LEMMA BoundRises ==
  ASSUME CallsOK, failClosed' = failClosed,
         faults' \in Nat, faults <= faults', restarts' \in Nat, restarts <= restarts'
  PROVE  /\ Limit * (1 + Memories) \in Int /\ Limit * (1 + Memories') \in Int
         /\ Limit * (1 + Memories) <= Limit * (1 + Memories')
<1>. USE LimiterAssumption
<1>1. Cardinality(Processes) \in Nat
  BY FS_CardinalityType
<1>2. 1 + Memories \in Int /\ 1 + Memories' \in Int /\ 1 + Memories <= 1 + Memories'
  BY <1>1 DEF CallsOK, Memories
<1>. QED
  BY <1>2, Products

(* At the start nothing is counted and nobody has fallen.                  *)
LEMMA InitLimiterInv == LimiterInit => LimiterInv
<1>. USE LimiterAssumption
<1>. SUFFICES ASSUME LimiterInit PROVE LimiterInv
  OBVIOUS
<1>1. LimiterTypeOK /\ CallsOK /\ FutureInv /\ PastInv
  BY DEF LimiterInit, LimiterTypeOK, CallsOK, FutureInv, PastInv, Windows
<1>2. Fallen = {} /\ InMemory(now) = {}
  BY DEF LimiterInit, Fallen, InMemory, Windows
<1>3. OnTime(now) = 0 /\ InRedis(now) = 0
  BY DEF LimiterInit, OnTime, InRedis, Windows
<1>4. FallenInv /\ Cardinality(Fallen) = 0 /\ Cardinality(InMemory(now)) = 0
  <2>1. IsFiniteSet({}) /\ Cardinality({}) = 0
    BY FS_EmptySet
  <2>2. faults = 0
    BY DEF LimiterInit
  <2>. QED
    BY <1>2, <2>1, <2>2 DEF FallenInv
<1>5. NowInv
  BY <1>3, <1>4, Products DEF NowInv, LimiterInit
<1>. QED
  BY <1>1, <1>4, <1>5 DEF LimiterInv

(* A step within a window: what it lets through it counts, and one process *)
(* at most falls, by a failure.                                            *)
Spends ==
  /\ UNCHANGED <<failClosed, now, restarts>>
  /\ \/ Fallen' \subseteq Fallen /\ faults' \in {faults, faults + 1}
     \/ \E p : Fallen' \subseteq Fallen \union {p} /\ faults' = faults + 1
  /\ \/ /\ OnTime(now)' = OnTime(now) /\ InRedis(now) <= InRedis(now)'
        /\ InMemory(now)' = InMemory(now)
     \/ /\ OnTime(now)' = OnTime(now) + 1 /\ InRedis(now)' = InRedis(now) + 1
        /\ InMemory(now)' = InMemory(now)
     \/ /\ ~failClosed
        /\ OnTime(now)' = OnTime(now) + 1 /\ InRedis(now)' = InRedis(now)
        /\ \E k : k \notin InMemory(now) /\ InMemory(now)' = InMemory(now) \union {k}
  /\ \A w \in Windows : w < now => OnTime(w)' = OnTime(w)

(* A set that gains one element at most has at most one more.              *)
LEMMA OneMore ==
  ASSUME NEW S, NEW T, IsFiniteSet(S)
  PROVE  /\ Cardinality(S) \in Nat
         /\ T \subseteq S => IsFiniteSet(T) /\ Cardinality(T) \in Nat
                              /\ Cardinality(T) <= Cardinality(S)
         /\ \A x : T \subseteq S \union {x} =>
              IsFiniteSet(T) /\ Cardinality(T) \in Nat /\ Cardinality(T) <= Cardinality(S) + 1
         /\ \A x : x \notin S /\ T = S \union {x} =>
              IsFiniteSet(T) /\ Cardinality(T) = Cardinality(S) + 1
<1>1. Cardinality(S) \in Nat
  BY FS_CardinalityType
<1>2. ASSUME T \subseteq S
      PROVE  IsFiniteSet(T) /\ Cardinality(T) \in Nat /\ Cardinality(T) <= Cardinality(S)
  BY <1>2, FS_Subset, FS_CardinalityType
<1>3. ASSUME NEW x
      PROVE  /\ IsFiniteSet(S \union {x})
             /\ Cardinality(S \union {x}) = IF x \in S THEN Cardinality(S) ELSE Cardinality(S) + 1
  BY FS_AddElement
<1>4. ASSUME NEW x, T \subseteq S \union {x}
      PROVE  IsFiniteSet(T) /\ Cardinality(T) \in Nat /\ Cardinality(T) <= Cardinality(S) + 1
  <2>1. /\ IsFiniteSet(T) /\ Cardinality(T) \in Nat
        /\ Cardinality(T) <= Cardinality(S \union {x})
    BY <1>3, <1>4, FS_Subset, FS_CardinalityType
  <2>2. Cardinality(S \union {x}) \in Int /\ Cardinality(S \union {x}) <= Cardinality(S) + 1
    BY <1>1, <1>3
  <2>. QED
    BY <1>1, <2>1, <2>2
<1>. QED
  BY <1>1, <1>2, <1>3, <1>4

(* What is let through and counted leaves a bound where it was.            *)
LEMMA Sums ==
  ASSUME NEW t \in Int, NEW r \in Int, NEW m \in Int,
         NEW tt \in Int, NEW rr \in Int, NEW mm \in Int,
         NEW a \in Int, NEW b \in Int, a <= b,
         tt - t <= (rr - r) + (mm - m), t <= r + m + a
  PROVE  tt <= rr + mm + b
OBVIOUS

(* Such a step keeps the invariant.                                        *)
LEMMA SpendsKeeps ==
  ASSUME LimiterInv, LimiterTypeOK', CallsOK', FutureInv', Spends
  PROVE  LimiterInv'
<1>. USE LimiterAssumption
<1>. DEFINE m == Cardinality(InMemory(now))
            f == Cardinality(Fallen)
            r == InRedis(now)
            t == OnTime(now)
<1>0. /\ LimiterTypeOK /\ CallsOK /\ FallenInv /\ NowInv /\ PastInv /\ now \in Windows
      /\ faults \in Nat /\ restarts \in Nat /\ faults' \in Nat
  BY DEF LimiterInv, LimiterTypeOK, CallsOK
<1>1. /\ t \in Int /\ r \in Int /\ m \in Nat /\ IsFiniteSet(InMemory(now))
      /\ f \in Nat /\ IsFiniteSet(Fallen) /\ f <= faults
  BY <1>0, Numbers, FallenCount DEF FallenInv
<1>2. now' = now /\ failClosed' = failClosed /\ restarts' = restarts /\ faults <= faults'
  BY <1>0 DEF Spends
<1>3. r' \in Int
  BY <1>0, <1>2 DEF InRedis, LimiterTypeOK
<1>4. FallenInv' /\ f' \in Nat /\ faults - f <= faults' - f'
  <2>1. CASE Fallen' \subseteq Fallen /\ faults' \in {faults, faults + 1}
    <3>1. IsFiniteSet(Fallen') /\ f' \in Nat /\ f' <= f
      BY <1>1, <2>1, OneMore
    <3>. QED
      BY <1>0, <1>1, <2>1, <3>1 DEF FallenInv
  <2>2. CASE \E p : Fallen' \subseteq Fallen \union {p} /\ faults' = faults + 1
    <3>1. IsFiniteSet(Fallen') /\ f' \in Nat /\ f' <= f + 1
      BY <1>1, <2>2, OneMore
    <3>. QED
      BY <1>0, <1>1, <2>2, <3>1 DEF FallenInv
  <2>. QED
    BY <2>1, <2>2 DEF Spends
<1>5. /\ m' \in Nat
      /\ t' - t <= (r' - r) + (m' - m)
      /\ failClosed => t' - t <= r' - r
  <2>1. CASE t' = t /\ r <= r' /\ InMemory(now)' = InMemory(now)
    BY <1>1, <1>3, <2>1
  <2>2. CASE t' = t + 1 /\ r' = r + 1 /\ InMemory(now)' = InMemory(now)
    BY <1>1, <1>3, <2>2
  <2>3. CASE /\ ~failClosed
             /\ t' = t + 1 /\ r' = r
             /\ \E k : k \notin InMemory(now) /\ InMemory(now)' = InMemory(now) \union {k}
    <3>1. m' = m + 1
      BY <1>1, <2>3, OneMore
    <3>. QED
      BY <1>1, <1>3, <2>3, <3>1
  <2>. QED
    BY <2>1, <2>2, <2>3 DEF Spends
<1>6. t' \in Int
  BY <1>1 DEF Spends
<1>7. /\ failClosed => t <= r
      /\ t <= r + m + Limit * restarts
      /\ t <= r + m + Limit * (faults - f)
  BY <1>0 DEF NowInv
<1>8. /\ faults - f \in Int /\ faults' - f' \in Int
      /\ Limit * (faults - f) \in Int /\ Limit * (faults' - f') \in Int
      /\ Limit * (faults - f) <= Limit * (faults' - f')
      /\ Limit * restarts \in Int
  <2>1. faults - f \in Int /\ faults' - f' \in Int
    BY <1>0, <1>1, <1>4
  <2>. QED
    BY <1>0, <1>4, <2>1, Products
<1>9. PastInv'
  <2>1. /\ Limit * (1 + Memories) \in Int /\ Limit * (1 + Memories') \in Int
        /\ Limit * (1 + Memories) <= Limit * (1 + Memories')
    BY <1>0, <1>2, BoundRises
  <2>2. ASSUME NEW w \in Windows, w < now PROVE OnTime(w)' <= Limit * (1 + Memories')
    <3>1. OnTime(w)' = OnTime(w) /\ OnTime(w) <= Limit * (1 + Memories) /\ OnTime(w) \in Int
      BY <1>0, <2>2, Numbers DEF Spends, PastInv
    <3>. QED
      BY <2>1, <3>1
  <2>. QED
    BY <1>2, <2>2 DEF PastInv
<1>10. NowInv'
  <2>1. /\ failClosed => t' <= r'
        /\ t' <= r' + m' + Limit * restarts
        /\ t' <= r' + m' + Limit * (faults' - f')
    <3>1. failClosed => t' <= r'
      BY <1>1, <1>3, <1>5, <1>6, <1>7
    <3>2. t' <= r' + m' + Limit * restarts
      BY <1>1, <1>3, <1>5, <1>6, <1>7, <1>8, Sums
    <3>3. t' <= r' + m' + Limit * (faults' - f')
      BY <1>1, <1>3, <1>5, <1>6, <1>7, <1>8, Sums
    <3>. QED
      BY <3>1, <3>2, <3>3
  <2>. QED
    BY <1>2, <2>1 DEF NowInv
<1>. QED
  BY <1>0, <1>4, <1>9, <1>10 DEF LimiterInv

(* What moving a call does to it, and to no other.                         *)
Stages == {"idle", "probe", "redis", "fallback", "allowed", "denied", "lost"}

LEMMA Moved ==
  ASSUME LimiterTypeOK, NEW c \in Calls, NEW to \in Stages, To(c, to)
  PROVE  /\ call' \in [Calls -> [at : Stages, process : Processes \union {"none"},
                                 window : Windows]]
         /\ \A d \in Calls \ {c} : call'[d] = call[d]
         /\ call'[c].at = to /\ call'[c].process = call[c].process
         /\ call'[c].window = call[c].window
BY DEF LimiterTypeOK, To, Stages

(* What an answer does to the history.                                     *)
LEMMA Answered ==
  ASSUME LimiterTypeOK, NEW c \in Calls, NEW count \in Nat, Answer(c, count)
  PROVE  /\ \E to \in {"allowed", "denied"} : To(c, to)
         /\ allowed' \in [Windows -> Nat] /\ late' \in [Windows -> Nat]
         /\ \A w \in Windows : w # call[c].window \/ count > Limit =>
              allowed'[w] = allowed[w] /\ late'[w] = late[w]
         /\ count <= Limit =>
              LET w == call[c].window
              IN  allowed'[w] = allowed[w] + 1
                  /\ late'[w] = late[w] + (IF w < now THEN 1 ELSE 0)
<1>. USE LimiterAssumption
<1>. DEFINE w == call[c].window
            a == IF count <= Limit THEN 1 ELSE 0
            b == IF count <= Limit /\ w < now THEN 1 ELSE 0
<1>1. /\ allowed' = [allowed EXCEPT ![w] = allowed[w] + a]
      /\ late' = [late EXCEPT ![w] = late[w] + b]
      /\ \E to \in {"allowed", "denied"} : To(c, to)
  BY DEF Answer
<1>2. w \in Windows /\ a \in Nat /\ b \in Nat
  BY DEF LimiterTypeOK
<1>3. allowed' \in [Windows -> Nat] /\ late' \in [Windows -> Nat]
  BY <1>1, <1>2 DEF LimiterTypeOK
<1>4. /\ \A v \in Windows \ {w} : allowed'[v] = allowed[v] /\ late'[v] = late[v]
      /\ allowed'[w] = allowed[w] + a /\ late'[w] = late[w] + b
  BY <1>1, <1>2 DEF LimiterTypeOK
<1>5. count > Limit => a = 0 /\ b = 0
  OBVIOUS
<1>6. count <= Limit => a = 1 /\ b = IF w < now THEN 1 ELSE 0
  OBVIOUS
<1>7. allowed[w] \in Nat /\ late[w] \in Nat
  BY <1>2 DEF LimiterTypeOK
<1>. HIDE DEF w, a, b
<1>8. count > Limit => allowed'[w] = allowed[w] /\ late'[w] = late[w]
  BY <1>4, <1>5, <1>7
<1>. QED
  BY <1>1, <1>3, <1>4, <1>6, <1>8, Zenon DEF w

(* The variables keep their types, calls are of windows that have begun,   *)
(* and a limiter that fails closed keeps nothing in memory.                *)
Framed == LimiterTypeOK /\ CallsOK /\ FutureInv

LEMMA FramedStep == Framed /\ LimiterNext => Framed'
<1>. USE LimiterAssumption
<1>. SUFFICES ASSUME Framed, LimiterNext PROVE Framed'
  OBVIOUS
<1>0. LimiterTypeOK /\ CallsOK /\ FutureInv
  BY DEF Framed
<1>a. \A c \in Calls : /\ call[c].window \in Windows /\ call[c].window <= now
                       /\ call[c].at \in Stages
                       /\ call[c].process \in Processes \union {"none"}
  BY <1>0 DEF LimiterTypeOK, FutureInv, Stages
<1>b. now \in Windows /\ Windows \subseteq Int
  BY <1>0 DEF LimiterTypeOK, Windows
(* A call moves on: with the process and the window it had.                *)
<1>c. ASSUME NEW c \in Calls, NEW to \in Stages, To(c, to),
             call[c].at \in {"probe", "redis", "fallback"}, UNCHANGED now
      PROVE  /\ call' \in [Calls -> [at : Stages, process : Processes \union {"none"},
                                     window : Windows]]
             /\ \A d \in Calls :
                  call'[d].at \in {"probe", "redis", "fallback"} => call'[d].process \in Processes
             /\ \A d \in Calls : call'[d].window <= now'
  <2>1. /\ call' \in [Calls -> [at : Stages, process : Processes \union {"none"},
                                window : Windows]]
        /\ \A d \in Calls \ {c} : call'[d] = call[d]
        /\ call'[c].process = call[c].process /\ call'[c].window = call[c].window
    BY <1>0, <1>c, Moved
  <2>2. \A d \in Calls : call'[d].process = call[d].process /\ call'[d].window = call[d].window
    BY <2>1
  <2>3. call[c].process \in Processes
    BY <1>0, <1>c DEF CallsOK
  <2>4. \A d \in Calls :
          call'[d].at \in {"probe", "redis", "fallback"} => call'[d].process \in Processes
    BY <1>0, <2>1, <2>3 DEF CallsOK
  <2>. QED
    BY <1>a, <1>c, <2>1, <2>2, <2>4
<1>1. ASSUME NEW c \in Calls, NEW p \in Processes, Allow(c, p) PROVE Framed'
  <2>. DEFINE there == IF available[p] THEN "redis" ELSE IF recheck[p] THEN "probe" ELSE "fallback"
  <2>1. /\ call' = [call EXCEPT ![c] = [at |-> there, process |-> p, window |-> now]]
        /\ UNCHANGED <<failClosed, now, counter, memory, available, recheck, allowed, late,
                       faults, restarts>>
    BY <1>1 DEF Allow
  <2>2. PICK to \in {"redis", "probe", "fallback"} : to = there
    OBVIOUS
  <2>3. call' = [call EXCEPT ![c] = [at |-> to, process |-> p, window |-> now]]
    BY <2>1, <2>2
  <2>4. call' \in [Calls -> [at : Stages, process : Processes \union {"none"}, window : Windows]]
    BY <1>0, <1>b, <2>3 DEF LimiterTypeOK, Stages
  <2>5. \A d \in Calls : d # c => call'[d] = call[d]
    BY <1>0, <2>3 DEF LimiterTypeOK
  <2>6. call'[c].process = p /\ call'[c].window = now
    BY <1>0, <2>3 DEF LimiterTypeOK
  <2>7. LimiterTypeOK'
    BY <1>0, <2>1, <2>4 DEF LimiterTypeOK, Stages
  <2>8. CallsOK'
    BY <1>0, <2>1, <2>5, <2>6 DEF CallsOK
  <2>9. FutureInv'
    BY <1>0, <1>b, <2>1, <2>5, <2>6 DEF FutureInv
  <2>. QED
    BY <2>7, <2>8, <2>9 DEF Framed
<1>2. ASSUME NEW c \in Calls, Probe(c) PROVE Framed'
  <2>1. /\ call[c].at = "probe"
        /\ \E to \in {"redis", "fallback"} : To(c, to)
        /\ \E b \in BOOLEAN : available' = [available EXCEPT ![call[c].process] = b]
                               \/ available' = available
        /\ recheck' = [recheck EXCEPT ![call[c].process] = FALSE]
        /\ faults' \in {faults, faults + 1}
        /\ UNCHANGED <<failClosed, now, counter, memory, allowed, late, restarts>>
    BY <1>2 DEF Probe, Fault
  <2>2. /\ call' \in [Calls -> [at : Stages, process : Processes \union {"none"},
                                window : Windows]]
        /\ \A d \in Calls :
             call'[d].at \in {"probe", "redis", "fallback"} => call'[d].process \in Processes
        /\ \A d \in Calls : call'[d].window <= now'
    BY <1>c, <2>1 DEF Stages
  <2>3. available' \in [Processes -> BOOLEAN] /\ recheck' \in [Processes -> BOOLEAN]
    BY <1>0, <2>1 DEF LimiterTypeOK
  <2>4. LimiterTypeOK'
    BY <1>0, <2>1, <2>2, <2>3 DEF LimiterTypeOK, Stages
  <2>5. CallsOK' /\ FutureInv'
    BY <1>0, <2>1, <2>2 DEF CallsOK, FutureInv
  <2>. QED
    BY <2>4, <2>5 DEF Framed
<1>3. ASSUME NEW c \in Calls, AllowRedis(c) PROVE Framed'
  <2>. DEFINE w == call[c].window
              n == counter[w] + 1
  <2>1. /\ call[c].at = "redis" /\ counter' = [counter EXCEPT ![w] = n]
        /\ Answer(c, counter'[w])
        /\ UNCHANGED <<failClosed, now, memory, available, recheck, faults, restarts>>
    BY <1>3 DEF AllowRedis
  <2>2. n \in Nat /\ counter' \in [Windows -> Nat] /\ counter'[w] = n
    BY <1>0, <1>a, <2>1 DEF LimiterTypeOK
  <2>3. /\ \E to \in {"allowed", "denied"} : To(c, to)
        /\ allowed' \in [Windows -> Nat] /\ late' \in [Windows -> Nat]
        /\ \A v \in Windows : v # w => allowed'[v] = allowed[v] /\ late'[v] = late[v]
    BY <1>0, <2>1, <2>2, Answered
  <2>4. /\ call' \in [Calls -> [at : Stages, process : Processes \union {"none"},
                                window : Windows]]
        /\ \A d \in Calls :
             call'[d].at \in {"probe", "redis", "fallback"} => call'[d].process \in Processes
        /\ \A d \in Calls : call'[d].window <= now'
    BY <1>c, <2>1, <2>3 DEF Stages
  <2>5. w \in Windows /\ w <= now
    BY <1>a
  <2>. HIDE DEF w, n
  <2>6. LimiterTypeOK'
    BY <1>0, <2>1, <2>2, <2>3, <2>4 DEF LimiterTypeOK, Stages
  <2>7. CallsOK'
    BY <1>0, <2>1, <2>4 DEF CallsOK
  <2>8. FutureInv'
    BY <1>0, <1>b, <2>1, <2>3, <2>4, <2>5 DEF FutureInv
  <2>. QED
    BY <2>6, <2>7, <2>8 DEF Framed
<1>4. ASSUME NEW c \in Calls, RedisFails(c) PROVE Framed'
  <2>1. /\ call[c].at = "redis" /\ To(c, "fallback") /\ faults' = faults + 1
        /\ \E n \in {0, 1} : counter' = [counter EXCEPT ![call[c].window] = counter[call[c].window] + n]
        /\ available' = [available EXCEPT ![call[c].process] = FALSE]
        /\ UNCHANGED <<failClosed, now, memory, recheck, allowed, late, restarts>>
    BY <1>4 DEF RedisFails, Fault
  <2>2. /\ call' \in [Calls -> [at : Stages, process : Processes \union {"none"},
                                window : Windows]]
        /\ \A d \in Calls :
             call'[d].at \in {"probe", "redis", "fallback"} => call'[d].process \in Processes
        /\ \A d \in Calls : call'[d].window <= now'
    BY <1>c, <2>1 DEF Stages
  <2>3. available' \in [Processes -> BOOLEAN] /\ counter' \in [Windows -> Nat]
    <3>1. PICK n \in {0, 1} :
            counter' = [counter EXCEPT ![call[c].window] = counter[call[c].window] + n]
      BY <2>1
    <3>2. counter \in [Windows -> Nat] /\ counter[call[c].window] + n \in Nat
      BY <1>0, <1>a DEF LimiterTypeOK
    <3>3. counter' \in [Windows -> Nat]
      BY <3>1, <3>2
    <3>. QED
      BY <1>0, <2>1, <3>3 DEF LimiterTypeOK
  <2>4. LimiterTypeOK'
    BY <1>0, <2>1, <2>2, <2>3 DEF LimiterTypeOK, Stages
  <2>5. CallsOK' /\ FutureInv'
    BY <1>0, <2>1, <2>2 DEF CallsOK, FutureInv
  <2>. QED
    BY <2>4, <2>5 DEF Framed
<1>5. ASSUME NEW c \in Calls, Deny(c) PROVE Framed'
  <2>1. /\ call[c].at = "fallback" /\ To(c, "denied")
        /\ UNCHANGED <<failClosed, now, counter, memory, available, recheck, allowed, late,
                       faults, restarts>>
    BY <1>5 DEF Deny
  <2>2. /\ call' \in [Calls -> [at : Stages, process : Processes \union {"none"},
                                window : Windows]]
        /\ \A d \in Calls :
             call'[d].at \in {"probe", "redis", "fallback"} => call'[d].process \in Processes
        /\ \A d \in Calls : call'[d].window <= now'
    BY <1>c, <2>1 DEF Stages
  <2>3. LimiterTypeOK'
    BY <1>0, <2>1, <2>2 DEF LimiterTypeOK, Stages
  <2>4. CallsOK' /\ FutureInv'
    BY <1>0, <2>1, <2>2 DEF CallsOK, FutureInv
  <2>. QED
    BY <2>3, <2>4 DEF Framed
<1>6. ASSUME NEW c \in Calls, AllowMemory(c) PROVE Framed'
  <2>. DEFINE p == call[c].process
              w == call[c].window
              kept == Pruned(memory[p], w)
              n == kept[w] + 1
  <2>1. /\ call[c].at = "fallback" /\ ~failClosed
        /\ memory' = [memory EXCEPT ![p] = [kept EXCEPT ![w] = n]]
        /\ Answer(c, n)
        /\ UNCHANGED <<failClosed, now, counter, available, recheck, faults, restarts>>
    BY <1>6 DEF AllowMemory
  <2>2. w \in Windows /\ w <= now /\ p \in Processes
    BY <1>0, <1>a, <2>1 DEF CallsOK
  <2>3. kept \in [Windows -> Nat] /\ \A v \in Windows : kept[v] \in {0, memory[p][v]}
    BY <1>0, <2>2 DEF LimiterTypeOK, Pruned
  <2>. HIDE DEF kept
  <2>4. n \in Nat /\ [kept EXCEPT ![w] = n] \in [Windows -> Nat]
    BY <2>2, <2>3
  <2>5. /\ \E to \in {"allowed", "denied"} : To(c, to)
        /\ allowed' \in [Windows -> Nat] /\ late' \in [Windows -> Nat]
        /\ \A v \in Windows : v # w => allowed'[v] = allowed[v] /\ late'[v] = late[v]
    BY <1>0, <2>1, <2>4, Answered
  <2>6. /\ call' \in [Calls -> [at : Stages, process : Processes \union {"none"},
                                window : Windows]]
        /\ \A d \in Calls :
             call'[d].at \in {"probe", "redis", "fallback"} => call'[d].process \in Processes
        /\ \A d \in Calls : call'[d].window <= now'
    BY <1>c, <2>1, <2>5 DEF Stages
  <2>. HIDE DEF w, n, p
  <2>7. memory' \in [Processes -> [Windows -> Nat]]
    BY <1>0, <2>1, <2>2, <2>4 DEF LimiterTypeOK
  <2>8. \A q \in Processes : \A v \in Windows : v # w => memory'[q][v] \in {0, memory[q][v]}
    BY <1>0, <2>1, <2>2, <2>3, <2>4 DEF LimiterTypeOK
  <2>9. LimiterTypeOK'
    BY <1>0, <2>1, <2>5, <2>6, <2>7 DEF LimiterTypeOK, Stages
  <2>10. CallsOK'
    BY <1>0, <2>1, <2>6 DEF CallsOK
  <2>11. FutureInv'
    BY <1>0, <1>b, <2>1, <2>2, <2>5, <2>6, <2>8 DEF FutureInv
  <2>. QED
    BY <2>9, <2>10, <2>11 DEF Framed
<1>7. ASSUME NextWindow PROVE Framed'
  <2>1. /\ now < MaxWindow /\ now' = now + 1
        /\ UNCHANGED <<failClosed, counter, memory, available, recheck, call, allowed, late,
                       faults, restarts>>
    BY <1>7 DEF NextWindow
  <2>2. now' \in Windows
    BY <1>b, <2>1 DEF Windows
  <2>3. LimiterTypeOK'
    BY <1>0, <2>1, <2>2 DEF LimiterTypeOK
  <2>4. CallsOK'
    BY <1>0, <2>1 DEF CallsOK
  <2>5. FutureInv'
    <3>1. \A w \in Windows : w > now' => w > now
      BY <1>b, <2>1
    <3>2. ASSUME NEW c \in Calls PROVE call[c].window <= now'
      <4>1. call[c].window \in Int /\ call[c].window <= now /\ now \in Int
        BY <1>a, <1>b
      <4>. QED
        BY <2>1, <4>1
    <3>. QED
      BY <1>0, <2>1, <3>1, <3>2 DEF FutureInv
  <2>. QED
    BY <2>3, <2>4, <2>5 DEF Framed
<1>8. ASSUME NEW w \in Windows, WindowExpires(w) PROVE Framed'
  BY <1>0, <1>8 DEF WindowExpires, Framed, LimiterTypeOK, CallsOK, FutureInv
<1>9. ASSUME NEW p \in Processes, RecheckDue(p) PROVE Framed'
  BY <1>0, <1>9 DEF RecheckDue, Framed, LimiterTypeOK, CallsOK, FutureInv
<1>10. ASSUME NEW p \in Processes, Restart(p) PROVE Framed'
  <2>. DEFINE none == [w \in Windows |-> 0]
  <2>1. /\ restarts' = restarts + 1
        /\ memory' = [memory EXCEPT ![p] = none]
        /\ available' = [available EXCEPT ![p] = FALSE]
        /\ recheck' = [recheck EXCEPT ![p] = TRUE]
        /\ call' = [c \in Calls |-> IF call[c].process = p /\ call[c].at \notin {"allowed", "denied"}
                                      THEN [call[c] EXCEPT !.at = "lost"] ELSE call[c]]
        /\ UNCHANGED <<failClosed, now, counter, allowed, late, faults>>
    BY <1>10 DEF Restart
  <2>2. \A c \in Calls : call'[c] \in {call[c], [call[c] EXCEPT !.at = "lost"]}
    BY <2>1
  <2>3. \A c \in Calls :
          /\ call'[c] \in [at : Stages, process : Processes \union {"none"}, window : Windows]
          /\ call'[c].process = call[c].process /\ call'[c].window = call[c].window
          /\ call'[c].at \in {call[c].at, "lost"}
    BY <1>0, <2>2 DEF LimiterTypeOK, Stages
  <2>4. call' \in [Calls -> [at : Stages, process : Processes \union {"none"}, window : Windows]]
    BY <2>1, <2>3
  <2>5. none \in [Windows -> Nat] /\ \A w \in Windows : none[w] = 0
    OBVIOUS
  <2>. HIDE DEF none
  <2>6. /\ memory' \in [Processes -> [Windows -> Nat]]
        /\ \A q \in Processes : \A w \in Windows : memory'[q][w] \in {0, memory[q][w]}
    BY <1>0, <2>1, <2>5 DEF LimiterTypeOK
  <2>7. available' \in [Processes -> BOOLEAN] /\ recheck' \in [Processes -> BOOLEAN]
    BY <1>0, <2>1 DEF LimiterTypeOK
  <2>8. /\ UNCHANGED <<failClosed, now, counter, allowed, late, faults>>
        /\ restarts' = restarts + 1
    BY <2>1
  <2>9. LimiterTypeOK'
    BY <1>0, <2>4, <2>6, <2>7, <2>8 DEF LimiterTypeOK, Stages
  <2>10. CallsOK'
    BY <1>0, <2>3, <2>6, <2>8 DEF CallsOK
  <2>11. FutureInv'
    BY <1>0, <2>3, <2>6, <2>8 DEF FutureInv
  <2>. QED
    BY <2>9, <2>10, <2>11 DEF Framed
<1>. QED
  BY <1>1, <1>2, <1>3, <1>4, <1>5, <1>6, <1>7, <1>8, <1>9, <1>10 DEF LimiterNext
(* No call is counted, and no count is touched.                            *)
LEMMA NothingCounted ==
  ASSUME UNCHANGED <<now, memory, allowed, late>>
  PROVE  /\ OnTime(now)' = OnTime(now) /\ InMemory(now)' = InMemory(now)
         /\ \A w \in Windows : OnTime(w)' = OnTime(w)
BY DEF OnTime, InMemory

(* A process falls only by what happens to it.                             *)
LEMMA Falls ==
  ASSUME NEW p, NEW c,
         \A q \in Processes \ {p} :
           memory'[q] = memory[q] /\ available'[q] = available[q] /\ recheck'[q] = recheck[q],
         \A d \in Calls \ {c} : call'[d] = call[d],
         call'[c].process = p
  PROVE  /\ Fallen' \subseteq Fallen \union {p}
         /\ p \notin Fallen' \/ p \in Fallen => Fallen' \subseteq Fallen
<1>1. ASSUME NEW q \in Processes \ {p}, q \in Fallen' PROVE q \in Fallen
  <2>1. CASE \E w \in Windows : memory'[q][w] > 0
    BY <2>1 DEF Fallen
  <2>2. CASE \E d \in Calls : call'[d].at = "fallback" /\ call'[d].process = q
    BY <2>2 DEF Fallen
  <2>3. CASE ~available'[q] /\ ~recheck'[q]
    BY <2>3 DEF Fallen
  <2>. QED
    BY <1>1, <2>1, <2>2, <2>3 DEF Fallen
<1>2. Fallen' \subseteq Processes
  BY DEF Fallen
<1>. QED
  BY <1>1, <1>2

(* Every step of a call, of Redis or of the probe's timer is of that kind. *)
LEMMA AllowSpends ==
  ASSUME LimiterInv, NEW c \in Calls, NEW p \in Processes, Allow(c, p)
  PROVE  Spends
<1>0. LimiterTypeOK /\ now \in Windows
  BY DEF LimiterInv, LimiterTypeOK
<1>1. UNCHANGED <<failClosed, now, counter, memory, available, recheck, allowed, late,
                  faults, restarts>>
  BY DEF Allow
<1>2. /\ \A d \in Calls \ {c} : call'[d] = call[d]
      /\ call'[c].process = p
      /\ call'[c].at = "fallback" => ~available[p] /\ ~recheck[p]
  BY <1>0 DEF Allow, LimiterTypeOK
<1>3. p \in Fallen' => p \in Fallen
  BY <1>1, <1>2 DEF Fallen
<1>4. Fallen' \subseteq Fallen
  BY <1>1, <1>2, <1>3, Falls
<1>5. InRedis(now)' = InRedis(now) /\ InRedis(now) \in Int
  BY <1>0, <1>1, LimiterAssumption DEF InRedis, LimiterTypeOK
<1>. QED
  BY <1>1, <1>4, <1>5, NothingCounted DEF Spends

LEMMA ProbeSpends ==
  ASSUME LimiterInv, NEW c \in Calls, Probe(c)
  PROVE  Spends
<1>. DEFINE p == call[c].process
<1>0. LimiterTypeOK /\ CallsOK /\ now \in Windows
  BY DEF LimiterInv, LimiterTypeOK
<1>1. /\ call[c].at = "probe" /\ p \in Processes
      /\ recheck' = [recheck EXCEPT ![p] = FALSE]
      /\ UNCHANGED <<failClosed, now, counter, memory, allowed, late, restarts>>
  BY <1>0 DEF Probe, CallsOK
<1>2. \/ recheck[p] /\ faults' = faults /\ available' = [available EXCEPT ![p] = TRUE]
      \/ recheck[p] /\ faults' = faults + 1 /\ available' = [available EXCEPT ![p] = FALSE]
      \/ ~recheck[p] /\ faults' = faults /\ available' = available
  BY DEF Probe, Fault
<1>3. PICK to \in {"redis", "fallback"} :
        To(c, to) /\ to = IF available'[p] THEN "redis" ELSE "fallback"
  BY DEF Probe
<1>4. /\ \A d \in Calls \ {c} : call'[d] = call[d]
      /\ call'[c].at = to /\ call'[c].process = p
  BY <1>0, <1>3, Moved DEF Stages
<1>5. /\ \A q \in Processes \ {p} : available'[q] = available[q] /\ recheck'[q] = recheck[q]
      /\ recheck'[p] = FALSE
  BY <1>0, <1>1, <1>2 DEF LimiterTypeOK
<1>. HIDE DEF p
<1>6. /\ Fallen' \subseteq Fallen \union {p}
      /\ p \notin Fallen' \/ p \in Fallen => Fallen' \subseteq Fallen
  <2>1. \A q \in Processes \ {p} :
          memory'[q] = memory[q] /\ available'[q] = available[q] /\ recheck'[q] = recheck[q]
    BY <1>1, <1>5
  <2>2. (\A d \in Calls \ {c} : call'[d] = call[d]) /\ call'[c].process = p
    BY <1>4
  <2>. QED
    BY <2>1, <2>2, Falls
<1>7. InRedis(now)' = InRedis(now) /\ InRedis(now) \in Int
  BY <1>0, <1>1, LimiterAssumption DEF InRedis, LimiterTypeOK
<1>8. \/ Fallen' \subseteq Fallen /\ faults' \in {faults, faults + 1}
      \/ \E q : Fallen' \subseteq Fallen \union {q} /\ faults' = faults + 1
  <2>1. faults' = faults => Fallen' \subseteq Fallen
    <3>1. CASE recheck[p] /\ faults' = faults /\ available' = [available EXCEPT ![p] = TRUE]
      <4>1. available'[p] /\ call'[c].at = "redis"
        BY <1>0, <1>1, <1>3, <1>4, <3>1 DEF LimiterTypeOK
      <4>2. p \in Fallen' => p \in Fallen
        BY <1>1, <1>4, <4>1 DEF Fallen
      <4>. QED
        BY <1>6, <4>2
    <3>2. CASE ~recheck[p] /\ faults' = faults /\ available' = available
      <4>1. p \in Fallen' => p \in Fallen
        BY <1>1, <1>3, <1>4, <3>2 DEF Fallen
      <4>. QED
        BY <1>6, <4>1
    <3>3. CASE faults' = faults + 1
      BY <1>0, <3>3 DEF CallsOK
    <3>. QED
      BY <1>2, <3>1, <3>2, <3>3
  <2>. QED
    BY <1>2, <1>6, <2>1
<1>. QED
  BY <1>1, <1>7, <1>8, NothingCounted DEF Spends

(* The calls are of windows that have begun.                               *)
LEMMA CallsStand ==
  ASSUME LimiterInv, NEW c \in Calls
  PROVE  /\ LimiterTypeOK /\ now \in Windows /\ Windows \subseteq Int
         /\ call[c].window \in Windows /\ call[c].window <= now
<1>1. LimiterTypeOK /\ FutureInv
  BY DEF LimiterInv
<1>2. now \in Windows /\ call[c].window \in Windows
  BY <1>1 DEF LimiterTypeOK
<1>3. call[c].window <= now
  BY <1>1 DEF FutureInv
<1>. QED
  BY <1>1, <1>2, <1>3 DEF Windows

LEMMA AllowRedisSpends ==
  ASSUME LimiterInv, NEW c \in Calls, AllowRedis(c)
  PROVE  Spends
<1>. USE LimiterAssumption
<1>. DEFINE w == call[c].window
            n == counter[w] + 1
<1>0. LimiterTypeOK /\ now \in Windows /\ w \in Windows /\ w <= now /\ Windows \subseteq Int
  BY CallsStand
<1>1. /\ counter' = [counter EXCEPT ![w] = n]
      /\ Answer(c, counter'[w])
      /\ UNCHANGED <<failClosed, now, memory, available, recheck, faults, restarts>>
  BY DEF AllowRedis
<1>2. n \in Nat /\ counter'[w] = n /\ counter[w] \in Nat
      /\ \A v \in Windows \ {w} : counter'[v] = counter[v] /\ counter[v] \in Nat
  <2>1. counter \in [Windows -> Nat]
    BY <1>0 DEF LimiterTypeOK
  <2>2. counter[w] \in Nat /\ \A v \in Windows : counter[v] \in Nat
    BY <1>0, <2>1
  <2>3. counter'[w] = n /\ \A v \in Windows \ {w} : counter'[v] = counter[v]
    BY <1>0, <1>1, <2>1
  <2>. QED
    BY <2>2, <2>3
<1>3. /\ \E to \in {"allowed", "denied"} : To(c, to)
      /\ \A v \in Windows : v # w \/ n > Limit =>
           allowed'[v] = allowed[v] /\ late'[v] = late[v]
      /\ n <= Limit => /\ allowed'[w] = allowed[w] + 1
                       /\ late'[w] = late[w] + (IF w < now THEN 1 ELSE 0)
  BY <1>0, <1>1, <1>2, Answered
<1>4. Fallen' \subseteq Fallen
  <2>1. PICK to \in {"allowed", "denied"} : To(c, to)
    BY <1>3
  <2>2. /\ \A d \in Calls \ {c} : call'[d] = call[d]
        /\ call'[c].at = to /\ call'[c].process = call[c].process
    BY <1>0, <2>1, Moved DEF Stages
  <2>3. \A d \in Calls : call'[d].at = "fallback" => call'[d] = call[d]
    BY <2>2
  <2>. QED
    BY <1>1, <2>3 DEF Fallen
<1>5. \A v \in Windows : allowed[v] \in Nat /\ late[v] \in Nat
  BY <1>0 DEF LimiterTypeOK
<1>. HIDE DEF w, n
<1>6. \A v \in Windows : v < now => OnTime(v)' = OnTime(v)
  <2>1. SUFFICES ASSUME NEW v \in Windows, v < now
                 PROVE  allowed'[v] - late'[v] = allowed[v] - late[v]
    BY DEF OnTime
  <2>2. CASE v # w \/ n > Limit
    BY <1>3, <2>2
  <2>3. CASE v = w /\ n <= Limit
    <3>1. allowed'[v] = allowed[v] + 1 /\ late'[v] = late[v] + 1
      BY <1>3, <2>1, <2>3
    <3>. QED
      BY <1>5, <3>1
  <2>. QED
    BY <1>2, <2>2, <2>3
<1>7. InMemory(now)' = InMemory(now)
  BY <1>1 DEF InMemory
<1>8. \/ OnTime(now)' = OnTime(now) /\ InRedis(now) <= InRedis(now)'
      \/ OnTime(now)' = OnTime(now) + 1 /\ InRedis(now)' = InRedis(now) + 1
  <2>1. now' = now /\ counter[now] \in Nat
    BY <1>0, <1>1 DEF LimiterTypeOK
  <2>2. CASE w # now
    <3>1. counter'[now] = counter[now]
      BY <1>0, <1>2, <2>2
    <3>2. allowed'[now] = allowed[now] /\ late'[now] = late[now]
      BY <1>0, <1>3, <2>2
    <3>. QED
      BY <2>1, <3>1, <3>2 DEF OnTime, InRedis
  <2>3. CASE w = now /\ n <= Limit
    <3>1. counter'[now] = counter[now] + 1 /\ counter[now] + 1 <= Limit
      BY <1>2, <2>3 DEF n
    <3>2. allowed'[now] = allowed[now] + 1 /\ late'[now] = late[now]
      BY <1>0, <1>3, <1>5, <2>3
    <3>3. InRedis(now)' = InRedis(now) + 1
      BY <2>1, <3>1 DEF InRedis
    <3>4. OnTime(now)' = OnTime(now) + 1
      BY <1>0, <1>5, <2>1, <3>2 DEF OnTime
    <3>. QED
      BY <3>3, <3>4
  <2>4. CASE w = now /\ n > Limit
    <3>1. counter'[now] = counter[now] + 1
      BY <1>2, <2>4 DEF n
    <3>2. allowed'[now] = allowed[now] /\ late'[now] = late[now]
      BY <1>0, <1>3, <2>4
    <3>. QED
      BY <2>1, <3>1, <3>2 DEF OnTime, InRedis
  <2>. QED
    BY <1>2, <2>2, <2>3, <2>4
<1>. QED
  BY <1>1, <1>4, <1>6, <1>7, <1>8 DEF Spends

LEMMA RedisFailsSpends ==
  ASSUME LimiterInv, NEW c \in Calls, RedisFails(c)
  PROVE  Spends
<1>. USE LimiterAssumption
<1>. DEFINE p == call[c].process
            w == call[c].window
<1>0. LimiterTypeOK /\ now \in Windows /\ w \in Windows
  BY DEF LimiterInv, LimiterTypeOK
<1>1. /\ To(c, "fallback") /\ faults' = faults + 1
      /\ \E n \in {0, 1} : counter' = [counter EXCEPT ![w] = counter[w] + n]
      /\ available' = [available EXCEPT ![p] = FALSE]
      /\ UNCHANGED <<failClosed, now, memory, recheck, allowed, late, restarts>>
  BY DEF RedisFails, Fault
<1>2. /\ \A d \in Calls \ {c} : call'[d] = call[d]
      /\ call'[c].process = p
  BY <1>0, <1>1, Moved DEF Stages
<1>3. \A q \in Processes \ {p} : available'[q] = available[q]
  BY <1>0, <1>1 DEF LimiterTypeOK
<1>4. counter[now] \in Nat /\ counter'[now] \in Nat /\ counter[now] <= counter'[now]
  <2>1. PICK n \in {0, 1} : counter' = [counter EXCEPT ![w] = counter[w] + n]
    BY <1>1
  <2>2. counter[now] \in Nat /\ counter'[now] = IF now = w THEN counter[now] + n ELSE counter[now]
    BY <1>0, <2>1 DEF LimiterTypeOK
  <2>. QED
    BY <2>2
<1>. HIDE DEF p, w
<1>5. Fallen' \subseteq Fallen \union {p}
  <2>1. \A q \in Processes \ {p} :
          memory'[q] = memory[q] /\ available'[q] = available[q] /\ recheck'[q] = recheck[q]
    BY <1>1, <1>3
  <2>. QED
    BY <1>2, <2>1, Falls
<1>6. InRedis(now) <= InRedis(now)'
  BY <1>1, <1>4 DEF InRedis
<1>. QED
  BY <1>1, <1>5, <1>6, NothingCounted DEF Spends

LEMMA DenySpends ==
  ASSUME LimiterInv, NEW c \in Calls, Deny(c)
  PROVE  Spends
<1>0. LimiterTypeOK /\ now \in Windows
  BY DEF LimiterInv, LimiterTypeOK
<1>1. /\ To(c, "denied")
      /\ UNCHANGED <<failClosed, now, counter, memory, available, recheck, allowed, late,
                     faults, restarts>>
  BY DEF Deny
<1>2. \A d \in Calls : call'[d].at = "fallback" => call'[d] = call[d]
  BY <1>0, <1>1, Moved DEF Stages
<1>3. Fallen' \subseteq Fallen
  BY <1>1, <1>2 DEF Fallen
<1>4. InRedis(now)' = InRedis(now) /\ InRedis(now) \in Int
  BY <1>0, <1>1, LimiterAssumption DEF InRedis, LimiterTypeOK
<1>. QED
  BY <1>1, <1>3, <1>4, NothingCounted DEF Spends

LEMMA WindowExpiresSpends ==
  ASSUME LimiterInv, NEW w \in Windows, WindowExpires(w)
  PROVE  Spends
<1>0. LimiterTypeOK /\ now \in Windows /\ Windows \subseteq Int
  BY DEF LimiterInv, LimiterTypeOK, Windows
<1>1. /\ w < now /\ counter' = [counter EXCEPT ![w] = 0]
      /\ UNCHANGED <<failClosed, now, memory, available, recheck, call, allowed, late,
                     faults, restarts>>
  BY DEF WindowExpires
<1>2. Fallen' \subseteq Fallen
  BY <1>1 DEF Fallen
<1>3. counter'[now] = counter[now] /\ counter[now] \in Nat
  BY <1>0, <1>1 DEF LimiterTypeOK
<1>4. InRedis(now)' = InRedis(now) /\ InRedis(now) \in Int
  BY <1>1, <1>3, LimiterAssumption DEF InRedis
<1>. QED
  BY <1>1, <1>2, <1>4, NothingCounted DEF Spends

LEMMA RecheckDueSpends ==
  ASSUME LimiterInv, NEW p \in Processes, RecheckDue(p)
  PROVE  Spends
<1>0. LimiterTypeOK /\ now \in Windows
  BY DEF LimiterInv, LimiterTypeOK
<1>1. /\ recheck' = [recheck EXCEPT ![p] = TRUE]
      /\ UNCHANGED <<failClosed, now, counter, memory, available, call, allowed, late,
                     faults, restarts>>
  BY DEF RecheckDue
<1>2. \A q \in Processes : ~recheck'[q] => ~recheck[q]
  BY <1>0, <1>1 DEF LimiterTypeOK
<1>3. Fallen' \subseteq Fallen
  BY <1>1, <1>2 DEF Fallen
<1>4. InRedis(now)' = InRedis(now) /\ InRedis(now) \in Int
  BY <1>0, <1>1, LimiterAssumption DEF InRedis, LimiterTypeOK
<1>. QED
  BY <1>1, <1>3, <1>4, NothingCounted DEF Spends

(* A count in memory: the process has fallen already.                      *)
LEMMA AllowMemorySpends ==
  ASSUME LimiterInv, NEW c \in Calls, AllowMemory(c)
  PROVE  Spends
<1>. USE LimiterAssumption
<1>. DEFINE p == call[c].process
            w == call[c].window
            kept == Pruned(memory[p], w)
            n == kept[w] + 1
<1>0. /\ LimiterTypeOK /\ CallsOK /\ now \in Windows /\ w \in Windows /\ w <= now
      /\ Windows \subseteq Int
  BY CallsStand DEF LimiterInv
<1>1. /\ call[c].at = "fallback" /\ ~failClosed
      /\ memory' = [memory EXCEPT ![p] = [kept EXCEPT ![w] = n]]
      /\ Answer(c, n)
      /\ UNCHANGED <<failClosed, now, counter, available, recheck, faults, restarts>>
  BY DEF AllowMemory
<1>2. p \in Processes /\ p \in Fallen
  BY <1>0, <1>1 DEF CallsOK, Fallen
<1>3. /\ kept \in [Windows -> Nat]
      /\ kept[now] = memory[p][now] /\ kept[w] = memory[p][w] /\ memory[p][now] \in Nat
  <2>1. memory[p] \in [Windows -> Nat]
    BY <1>0, <1>2 DEF LimiterTypeOK
  <2>2. \A v \in Windows : kept[v] = IF v >= w THEN memory[p][v] ELSE 0
    BY DEF Pruned, Kept
  <2>3. kept \in [Windows -> Nat]
    BY <2>1 DEF Pruned
  <2>. HIDE DEF kept
  <2>. QED
    BY <1>0, <2>1, <2>2, <2>3
<1>. HIDE DEF kept
<1>4. n \in Nat
  <2>1. kept[w] \in Nat
    BY <1>0, <1>3
  <2>. QED
    BY <2>1
<1>5. /\ \E to \in {"allowed", "denied"} : To(c, to)
      /\ \A v \in Windows : v # w \/ n > Limit =>
           allowed'[v] = allowed[v] /\ late'[v] = late[v]
      /\ n <= Limit => /\ allowed'[w] = allowed[w] + 1
                       /\ late'[w] = late[w] + (IF w < now THEN 1 ELSE 0)
  BY <1>0, <1>1, <1>4, Answered
<1>6. \A v \in Windows : allowed[v] \in Nat /\ late[v] \in Nat
  BY <1>0 DEF LimiterTypeOK
<1>7. (\A d \in Calls \ {c} : call'[d] = call[d]) /\ call'[c].process = p
  BY SMTT(60), <1>0, <1>5, Moved DEF Stages
<1>8. /\ \A q \in Processes \ {p} : memory'[q] = memory[q]
      /\ memory'[p][now] = IF w = now THEN n ELSE memory[p][now]
  BY <1>0, <1>1, <1>2, <1>3 DEF LimiterTypeOK
<1>. HIDE DEF p, w, n
<1>9. Fallen' \subseteq Fallen
  <2>1. \A q \in Processes \ {p} :
          memory'[q] = memory[q] /\ available'[q] = available[q] /\ recheck'[q] = recheck[q]
    BY <1>1, <1>8
  <2>. QED
    BY <1>2, <1>7, <2>1, Falls
<1>10. \A v \in Windows : v < now => OnTime(v)' = OnTime(v)
  <2>1. SUFFICES ASSUME NEW v \in Windows, v < now
                 PROVE  allowed'[v] - late'[v] = allowed[v] - late[v]
    BY DEF OnTime
  <2>2. CASE v # w \/ n > Limit
    BY <1>5, <2>2
  <2>3. CASE v = w /\ n <= Limit
    <3>1. allowed'[v] = allowed[v] + 1 /\ late'[v] = late[v] + 1
      BY <1>5, <2>1, <2>3
    <3>. QED
      BY <1>6, <3>1
  <2>. QED
    BY <1>4, <2>2, <2>3
<1>11. InRedis(now)' = InRedis(now) /\ InRedis(now) \in Int
  BY <1>0, <1>1 DEF InRedis, LimiterTypeOK
<1>12. \A q \in Processes, v \in 1 .. Limit :
         <<q, v>> \in InMemory(now)' <=> v <= memory'[q][now]
  BY <1>1 DEF InMemory
<1>13. \A q \in Processes, v \in 1 .. Limit :
         <<q, v>> \in InMemory(now) <=> v <= memory[q][now]
  BY DEF InMemory
<1>14. /\ InMemory(now) \subseteq Processes \X (1 .. Limit)
       /\ InMemory(now)' \subseteq Processes \X (1 .. Limit)
  BY DEF InMemory
<1>15. CASE w = now /\ n <= Limit
  <2>1. n = memory[p][now] + 1 /\ memory'[p][now] = n
    BY <1>3, <1>8, <1>15 DEF n
  <2>2. n \in 1 .. Limit
    BY <1>3, <1>15, <2>1
  <2>3. \A v \in 1 .. Limit : v <= memory'[p][now] <=> v <= memory[p][now] \/ v = n
    BY <1>3, <2>1
  <2>4. \A q \in Processes, v \in 1 .. Limit :
          <<q, v>> \in InMemory(now)' <=> <<q, v>> \in InMemory(now) \/ <<q, v>> = <<p, n>>
    BY <1>2, <1>8, <1>12, <1>13, <2>3
  <2>5. <<p, n>> \notin InMemory(now)
    BY <1>2, <1>3, <1>13, <2>1, <2>2
  <2>6. InMemory(now)' = InMemory(now) \union {<<p, n>>}
    BY <1>2, <1>14, <2>2, <2>4
  <2>7. OnTime(now)' = OnTime(now) + 1
    <3>1. allowed'[now] = allowed[now] + 1 /\ late'[now] = late[now]
      BY <1>0, <1>5, <1>6, <1>15
    <3>. QED
      BY <1>0, <1>1, <1>6, <3>1 DEF OnTime
  <2>. QED
    BY <1>1, <1>9, <1>10, <1>11, <2>5, <2>6, <2>7 DEF Spends
<1>16. CASE w # now \/ n > Limit
  <2>1. \A v \in 1 .. Limit : v <= memory'[p][now] <=> v <= memory[p][now]
    <3>1. CASE w # now
      BY <1>8, <3>1
    <3>2. CASE w = now /\ n > Limit
      <4>1. memory'[p][now] = memory[p][now] + 1 /\ memory[p][now] + 1 > Limit
        BY <1>3, <1>8, <3>2 DEF n
      <4>. QED
        BY <1>3, <4>1
    <3>. QED
      BY <1>16, <3>1, <3>2
  <2>2. \A q \in Processes, v \in 1 .. Limit :
          <<q, v>> \in InMemory(now)' <=> <<q, v>> \in InMemory(now)
    BY <1>2, <1>8, <1>12, <1>13, <2>1
  <2>3. InMemory(now)' = InMemory(now)
    BY <1>14, <2>2
  <2>4. OnTime(now)' = OnTime(now)
    <3>1. allowed'[now] = allowed[now] /\ late'[now] = late[now]
      BY <1>0, <1>5, <1>16
    <3>. QED
      BY <1>1, <3>1 DEF OnTime
  <2>. QED
    BY <1>1, <1>9, <1>10, <1>11, <2>3, <2>4 DEF Spends
<1>. QED
  BY <1>4, <1>15, <1>16

(* What a restart takes from memory it may take from what pays for it.     *)
LEMMA Exchange ==
  ASSUME NEW t \in Int, NEW r \in Int, NEW m \in Int, NEW mm \in Int,
         NEW a \in Int, NEW b \in Int, m <= mm + Limit, a + Limit <= b, t <= r + m + a
  PROVE  t <= r + mm + b
BY LimiterAssumption

LEMMA Stands ==
  ASSUME LimiterInv
  PROVE  /\ LimiterTypeOK /\ CallsOK /\ FutureInv /\ FallenInv /\ NowInv /\ PastInv
         /\ now \in Windows /\ Windows \subseteq Int /\ faults \in Nat /\ restarts \in Nat
<1>1. LimiterTypeOK /\ CallsOK /\ FutureInv /\ FallenInv /\ NowInv /\ PastInv
  BY DEF LimiterInv
<1>2. now \in Windows
  BY <1>1 DEF LimiterTypeOK
<1>3. faults \in Nat /\ restarts \in Nat
  BY <1>1 DEF CallsOK
<1>. QED
  BY <1>1, <1>2, <1>3 DEF Windows

(* A restart: the counts of one process are gone, which its restart pays   *)
(* for, and so does the failure by which it fell.                          *)
LEMMA RestartKeeps ==
  ASSUME LimiterInv, LimiterTypeOK', CallsOK', FutureInv', NEW p \in Processes, Restart(p)
  PROVE  LimiterInv'
<1>. USE LimiterAssumption
<1>. DEFINE m == Cardinality(InMemory(now))
            f == Cardinality(Fallen)
            r == InRedis(now)
            t == OnTime(now)
<1>0. /\ LimiterTypeOK /\ CallsOK /\ FallenInv /\ NowInv /\ PastInv /\ now \in Windows
      /\ faults \in Nat /\ restarts \in Nat
  BY DEF LimiterInv, LimiterTypeOK, CallsOK
<1>1. /\ t \in Int /\ r \in Int /\ m \in Nat /\ IsFiniteSet(InMemory(now))
      /\ f \in Nat /\ IsFiniteSet(Fallen) /\ f <= faults
  BY <1>0, Numbers, FallenCount DEF FallenInv
<1>2. /\ restarts' = restarts + 1
      /\ memory' = [memory EXCEPT ![p] = [w \in Windows |-> 0]]
      /\ available' = [available EXCEPT ![p] = FALSE]
      /\ recheck' = [recheck EXCEPT ![p] = TRUE]
      /\ UNCHANGED <<failClosed, now, counter, allowed, late, faults>>
  BY DEF Restart
<1>3. \A c \in Calls : call'[c].at = "fallback" => call'[c] = call[c] /\ call'[c].process # p
  <2>1. SUFFICES ASSUME NEW c \in Calls, call'[c].at = "fallback"
                 PROVE  call'[c] = call[c] /\ call'[c].process # p
    OBVIOUS
  <2>2. call[c] \in [at : Stages, process : Processes \union {"none"}, window : Windows]
    BY <1>0 DEF LimiterTypeOK, Stages
  <2>3. call'[c] = IF call[c].process = p /\ call[c].at \notin {"allowed", "denied"}
                     THEN [call[c] EXCEPT !.at = "lost"] ELSE call[c]
    BY DEF Restart
  <2>4. ~(call[c].process = p /\ call[c].at \notin {"allowed", "denied"})
    BY <2>1, <2>2, <2>3
  <2>. QED
    BY <2>1, <2>3, <2>4
<1>4. /\ \A q \in Processes \ {p} :
           memory'[q] = memory[q] /\ available'[q] = available[q] /\ recheck'[q] = recheck[q]
      /\ recheck'[p] /\ \A w \in Windows : memory'[p][w] = 0
  BY <1>0, <1>2 DEF LimiterTypeOK
<1>5. Fallen' \subseteq Fallen \ {p}
  <2>1. p \notin Fallen'
    BY <1>3, <1>4 DEF Fallen
  <2>2. ASSUME NEW q \in Processes \ {p}, q \in Fallen' PROVE q \in Fallen
    <3>1. CASE \E w \in Windows : memory'[q][w] > 0
      BY <1>4, <3>1 DEF Fallen
    <3>2. CASE \E d \in Calls : call'[d].at = "fallback" /\ call'[d].process = q
      BY <1>3, <3>2 DEF Fallen
    <3>3. CASE ~available'[q] /\ ~recheck'[q]
      BY <1>4, <3>3 DEF Fallen
    <3>. QED
      BY <2>2, <3>1, <3>2, <3>3 DEF Fallen
  <2>3. Fallen' \subseteq Processes
    BY DEF Fallen
  <2>. QED
    BY <2>1, <2>2, <2>3
<1>6. /\ IsFiniteSet(Fallen') /\ f' \in Nat /\ f' <= f
      /\ p \in Fallen => f' <= f - 1
  <2>1. IsFiniteSet(Fallen') /\ f' \in Nat /\ f' <= f
    BY <1>1, <1>5, OneMore
  <2>2. ASSUME p \in Fallen PROVE f' <= f - 1
    <3>1. IsFiniteSet(Fallen \ {p}) /\ Cardinality(Fallen \ {p}) = f - 1
      BY <1>1, <2>2, FS_RemoveElement
    <3>2. f' <= Cardinality(Fallen \ {p})
      BY <1>5, <3>1, FS_Subset
    <3>. QED
      BY <3>1, <3>2
  <2>. QED
    BY <2>1, <2>2
<1>7. FallenInv'
  BY <1>0, <1>1, <1>2, <1>6 DEF FallenInv
<1>8. t' = t /\ r' = r
  BY <1>2 DEF OnTime, InRedis
<1>9. /\ m' \in Nat /\ m <= m' + Limit
      /\ p \notin Fallen => m' = m
  <2>. DEFINE mine == {p} \X (1 .. Limit)
  <2>1. IsFiniteSet(mine) /\ Cardinality(mine) = Limit
    <3>1. IsFiniteSet({p}) /\ Cardinality({p}) = 1
      BY FS_Singleton
    <3>2. IsFiniteSet(1 .. Limit) /\ Cardinality(1 .. Limit) = Limit
      BY FS_Interval
    <3>3. IsFiniteSet(mine) /\ Cardinality(mine) = Cardinality({p}) * Cardinality(1 .. Limit)
      BY <3>1, <3>2, FS_Product, Zenon
    <3>. QED
      BY <3>1, <3>2, <3>3
  <2>2. InMemory(now)' = {k \in InMemory(now) : k[1] # p}
    <3>1. \A q \in Processes, n \in 1 .. Limit :
            n <= memory'[q][now] <=> n <= memory[q][now] /\ q # p
      BY <1>0, <1>4
    <3>2. InMemory(now)' = {k \in Processes \X (1 .. Limit) : k[2] <= memory'[k[1]][now]}
      BY <1>2 DEF InMemory
    <3>3. \A k \in Processes \X (1 .. Limit) :
            k[2] <= memory'[k[1]][now] <=> k[2] <= memory[k[1]][now] /\ k[1] # p
      BY <3>1
    <3>. QED
      BY <3>2, <3>3 DEF InMemory
  <2>3. InMemory(now) \subseteq InMemory(now)' \union mine /\ InMemory(now)' \subseteq InMemory(now)
    BY <2>2 DEF InMemory
  <2>4. IsFiniteSet(InMemory(now)') /\ m' \in Nat
    BY <1>1, <2>3, FS_Subset, FS_CardinalityType
  <2>. HIDE DEF mine
  <2>5. m <= m' + Limit
    <3>1. /\ IsFiniteSet(InMemory(now)' \union mine)
          /\ Cardinality(InMemory(now)' \union mine)
               = m' + Limit - Cardinality(InMemory(now)' \cap mine)
      BY <2>1, <2>4, FS_Union
    <3>2. m <= Cardinality(InMemory(now)' \union mine)
      BY <2>3, <3>1, FS_Subset
    <3>3. Cardinality(InMemory(now)' \cap mine) \in Nat
      BY <2>4, FS_Intersection, FS_CardinalityType
    <3>. QED
      BY <1>1, <2>4, <3>1, <3>2, <3>3
  <2>6. p \notin Fallen => InMemory(now)' = InMemory(now)
    <3>1. SUFFICES ASSUME p \notin Fallen, NEW k \in InMemory(now) PROVE k[1] # p
      BY <2>2
    <3>2. ~(memory[p][now] > 0) /\ memory[p][now] \in Nat
      BY <1>0, <3>1 DEF Fallen, LimiterTypeOK
    <3>3. k[2] \in 1 .. Limit /\ k[2] <= memory[k[1]][now]
      BY DEF InMemory
    <3>. QED
      BY <3>2, <3>3
  <2>. QED
    BY <2>4, <2>5, <2>6
<1>10. /\ failClosed => t <= r
       /\ t <= r + m + Limit * restarts
       /\ t <= r + m + Limit * (faults - f)
  BY <1>0 DEF NowInv
<1>11. /\ failClosed => t' <= r'
       /\ t' <= r' + m' + Limit * restarts'
       /\ t' <= r' + m' + Limit * (faults' - f')
  <2>1. failClosed => t' <= r'
    BY <1>8, <1>10
  <2>2. t' <= r' + m' + Limit * restarts'
    <3>1. /\ Limit * restarts' = Limit * restarts + Limit
          /\ Limit * restarts \in Int /\ Limit * restarts' \in Int
      BY <1>0, <1>2, Products
    <3>. QED
      BY <1>1, <1>8, <1>9, <1>10, <3>1, Exchange
  <2>3. t' <= r' + m' + Limit * (faults' - f')
    <3>. DEFINE a == faults - f
                b == faults' - f'
    <3>1. a \in Int /\ b \in Int /\ a <= b /\ (p \in Fallen => a + 1 <= b)
      <4>1. faults' = faults /\ f' \in Nat /\ f' <= f /\ (p \in Fallen => f' <= f - 1)
        BY <1>2, <1>6
      <4>. QED
        BY <1>0, <1>1, <4>1
    <3>. HIDE DEF a, b
    <3>2. /\ Limit * a \in Int /\ Limit * b \in Int /\ Limit * a <= Limit * b
          /\ p \in Fallen => Limit * a + Limit <= Limit * b
      <4>1. a + 1 \in Int /\ Limit * (a + 1) = Limit * a + Limit
        BY <3>1, Products
      <4>2. p \in Fallen => Limit * (a + 1) <= Limit * b
        BY <3>1, <4>1, Products
      <4>. QED
        BY <3>1, <4>1, <4>2, Products
    <3>3. t <= r + m + Limit * a
      BY <1>10 DEF a
    <3>4. t' <= r' + m' + Limit * b
      <4>1. CASE p \in Fallen
        BY <1>1, <1>8, <1>9, <3>2, <3>3, <4>1, Exchange
      <4>2. CASE p \notin Fallen
        BY <1>1, <1>8, <1>9, <3>2, <3>3, <4>2
      <4>. QED
        BY <4>1, <4>2
    <3>. QED
      BY <3>4 DEF b
  <2>. QED
    BY <2>1, <2>2, <2>3
<1>12. NowInv'
  BY <1>2, <1>11 DEF NowInv, m, f, r, t
<1>13. PastInv'
  <2>1. /\ Limit * (1 + Memories) \in Int /\ Limit * (1 + Memories') \in Int
        /\ Limit * (1 + Memories) <= Limit * (1 + Memories')
    BY <1>0, <1>2, BoundRises
  <2>2. ASSUME NEW w \in Windows, w < now PROVE OnTime(w)' <= Limit * (1 + Memories')
    <3>1. OnTime(w)' = OnTime(w) /\ OnTime(w) <= Limit * (1 + Memories) /\ OnTime(w) \in Int
      BY <1>0, <1>2, <2>2, Numbers DEF PastInv, OnTime
    <3>. QED
      BY <2>1, <3>1
  <2>. QED
    BY <1>2, <2>2 DEF PastInv
<1>. QED
  BY <1>7, <1>12, <1>13 DEF LimiterInv

(* A window passes: it was within its bound, and the next one is empty.    *)
LEMMA NextWindowKeeps ==
  ASSUME LimiterInv, LimiterTypeOK', CallsOK', FutureInv', NextWindow
  PROVE  LimiterInv'
<1>. USE LimiterAssumption
<1>0. /\ LimiterTypeOK /\ CallsOK /\ FutureInv /\ FallenInv /\ NowInv /\ PastInv
      /\ now \in Windows /\ Windows \subseteq Int /\ faults \in Nat /\ restarts \in Nat
  BY Stands
<1>1. /\ now' = now + 1
      /\ UNCHANGED <<failClosed, counter, memory, available, recheck, call, allowed, late,
                     faults, restarts>>
  BY DEF NextWindow
<1>2. now' \in Windows
  BY DEF LimiterTypeOK
<1>3. Fallen' = Fallen
  BY <1>1 DEF Fallen
<1>4. /\ Memories' = Memories
      /\ \A w \in Windows : /\ OnTime(w)' = OnTime(w) /\ InRedis(w)' = InRedis(w)
                            /\ InMemory(w)' = InMemory(w)
  BY <1>1 DEF Memories, OnTime, InRedis, InMemory
<1>5. FallenInv'
  BY <1>0, <1>1, <1>3 DEF FallenInv
<1>6. PastInv'
  <2>1. SUFFICES ASSUME NEW w \in Windows, w < now' PROVE OnTime(w)' <= Limit * (1 + Memories')
    BY DEF PastInv
  <2>2. CASE w = now
    BY <1>0, <1>4, <2>2, NowBounded
  <2>3. CASE w < now
    BY <1>0, <1>4, <2>3 DEF PastInv
  <2>. QED
    BY <1>0, <1>1, <2>1, <2>2, <2>3
<1>7. NowInv'
  <2>. DEFINE v == now'
  <2>1. OnTime(v) = 0
    <3>1. now < v
      BY <1>0, <1>1
    <3>2. allowed[v] = 0 /\ late[v] = 0
      BY <1>0, <1>2, <3>1 DEF FutureInv
    <3>. QED
      BY <3>2 DEF OnTime
  <2>2. InRedis(v) \in 0 .. Limit /\ Cardinality(InMemory(v)) \in Nat
    BY <1>0, <1>2, Numbers
  <2>3. Cardinality(Fallen) \in Nat /\ Cardinality(Fallen) <= faults
    BY <1>0, FallenCount DEF FallenInv
  <2>4. Limit * restarts \in Nat
    BY <1>0
  <2>5. Limit * (faults - Cardinality(Fallen)) \in Nat
    <3>1. faults - Cardinality(Fallen) \in Nat
      BY <1>0, <2>3
    <3>. QED
      BY <3>1
  <2>6. /\ OnTime(now)' = OnTime(v) /\ InRedis(now)' = InRedis(v)
        /\ InMemory(now)' = InMemory(v)
    BY <1>1 DEF OnTime, InRedis, InMemory
  <2>. HIDE DEF v
  <2>7. /\ OnTime(now)' <= InRedis(now)'
        /\ OnTime(now)' <= InRedis(now)' + Cardinality(InMemory(now)') + Limit * restarts'
        /\ OnTime(now)' <= InRedis(now)' + Cardinality(InMemory(now)')
                             + Limit * (faults' - Cardinality(Fallen'))
    <3>1. restarts' = restarts /\ faults' = faults
      BY <1>1
    <3>. QED
      BY <1>3, <2>1, <2>2, <2>4, <2>5, <2>6, <3>1
  <2>. QED
    BY <2>7 DEF NowInv
<1>. QED
  BY <1>5, <1>6, <1>7 DEF LimiterInv

LEMMA LimiterInvStep == LimiterInv /\ [LimiterNext]_limiterVars => LimiterInv'
<1>. SUFFICES ASSUME LimiterInv, [LimiterNext]_limiterVars PROVE LimiterInv'
  OBVIOUS
<1>1. CASE UNCHANGED limiterVars
  <2>1. UNCHANGED <<failClosed, now, counter, memory, available, recheck, call, allowed,
                    late, faults, restarts>>
    BY <1>1 DEF limiterVars
  <2>2. Fallen' = Fallen /\ Memories' = Memories
    BY <2>1 DEF Fallen, Memories
  <2>3. /\ OnTime(now)' = OnTime(now) /\ InRedis(now)' = InRedis(now)
        /\ InMemory(now)' = InMemory(now)
        /\ \A w \in Windows : OnTime(w)' = OnTime(w)
    BY <2>1 DEF OnTime, InRedis, InMemory
  <2>4. LimiterTypeOK' /\ CallsOK' /\ FutureInv'
    BY <2>1 DEF LimiterInv, LimiterTypeOK, CallsOK, FutureInv
  <2>5. FallenInv' /\ NowInv' /\ PastInv'
    BY <2>1, <2>2, <2>3 DEF LimiterInv, FallenInv, NowInv, PastInv
  <2>. QED
    BY <2>4, <2>5 DEF LimiterInv
<1>2. CASE LimiterNext
  <2>1. LimiterTypeOK' /\ CallsOK' /\ FutureInv'
    BY <1>2, FramedStep DEF LimiterInv, Framed
  <2>2. ASSUME NEW c \in Calls, NEW p \in Processes, Allow(c, p) PROVE LimiterInv'
    BY <2>1, <2>2, AllowSpends, SpendsKeeps
  <2>3. ASSUME NEW c \in Calls, Probe(c) PROVE LimiterInv'
    BY <2>1, <2>3, ProbeSpends, SpendsKeeps
  <2>4. ASSUME NEW c \in Calls, AllowRedis(c) PROVE LimiterInv'
    BY <2>1, <2>4, AllowRedisSpends, SpendsKeeps
  <2>5. ASSUME NEW c \in Calls, RedisFails(c) PROVE LimiterInv'
    BY <2>1, <2>5, RedisFailsSpends, SpendsKeeps
  <2>6. ASSUME NEW c \in Calls, Deny(c) PROVE LimiterInv'
    BY <2>1, <2>6, DenySpends, SpendsKeeps
  <2>7. ASSUME NEW c \in Calls, AllowMemory(c) PROVE LimiterInv'
    BY <2>1, <2>7, AllowMemorySpends, SpendsKeeps
  <2>8. ASSUME NextWindow PROVE LimiterInv'
    BY <2>1, <2>8, NextWindowKeeps
  <2>9. ASSUME NEW w \in Windows, WindowExpires(w) PROVE LimiterInv'
    BY <2>1, <2>9, WindowExpiresSpends, SpendsKeeps
  <2>10. ASSUME NEW p \in Processes, RecheckDue(p) PROVE LimiterInv'
    BY <2>1, <2>10, RecheckDueSpends, SpendsKeeps
  <2>11. ASSUME NEW p \in Processes, Restart(p) PROVE LimiterInv'
    BY <2>1, <2>11, RestartKeeps
  <2>. QED
    BY <1>2, <2>2, <2>3, <2>4, <2>5, <2>6, <2>7, <2>8, <2>9, <2>10, <2>11 DEF LimiterNext
<1>. QED
  BY <1>1, <1>2

(* No window's bound is passed: what has ended was bounded when it ended,  *)
(* what lasts is within what its counts let through, and what has not      *)
(* begun has let nothing through.                                          *)
LEMMA LimiterInvBounds == LimiterInv => WindowBound
<1>. USE LimiterAssumption
<1>. SUFFICES ASSUME LimiterInv, NEW w \in Windows
              PROVE  OnTime(w) <= Limit * (1 + Memories)
  BY DEF WindowBound
<1>0. /\ LimiterTypeOK /\ CallsOK /\ FutureInv /\ FallenInv /\ NowInv /\ PastInv
      /\ now \in Windows /\ Windows \subseteq Int /\ faults \in Nat /\ restarts \in Nat
  BY Stands
<1>1. CASE w < now
  BY <1>0, <1>1 DEF PastInv
<1>2. CASE w = now
  BY <1>0, <1>2, NowBounded
<1>3. CASE w > now
  <2>1. OnTime(w) = 0
    BY <1>0, <1>3 DEF FutureInv, OnTime
  <2>2. Cardinality(Processes) \in Nat
    BY FS_CardinalityType
  <2>3. 1 + Memories \in Nat
    BY <1>0, <2>2 DEF Memories
  <2>4. Limit * (1 + Memories) \in Nat
    BY <2>3
  <2>. QED
    BY <2>1, <2>4
<1>. QED
  BY <1>0, <1>1, <1>2, <1>3

(* The counts of every window, before, in and after it.                    *)
THEOREM LimiterInvariance == LimiterSpec => []LimiterInv
<1>1. LimiterInv /\ [LimiterNext]_limiterVars => LimiterInv'
  BY LimiterInvStep
<1>. QED
  BY <1>1, InitLimiterInv, PTL DEF LimiterSpec

(* What a key is allowed in one window is the limit, and the limit again   *)
(* for each failure of Redis, up to one memory for each process and for    *)
(* each restart; nothing on top when the limiter fails closed.             *)
THEOREM WindowIsBounded == LimiterSpec => []WindowBound
<1>1. LimiterInv => WindowBound
  BY LimiterInvBounds
<1>. QED
  BY <1>1, LimiterInvariance, PTL
=============================================================================
