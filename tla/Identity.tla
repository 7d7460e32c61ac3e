------------------------------ MODULE Identity ------------------------------
(***************************************************************************)
(* Sessions of one user: logins, the revocations, and the tickets that     *)
(* open a WebSocket.  A login is one transaction under READ COMMITTED,     *)
(* PostgreSQL's default, which the code does not change: each statement    *)
(* sees what was committed when it ran, and a row that is updated, or a    *)
(* unique key that is inserted, makes the next writer wait.                *)
(*                                                                         *)
(* Left out: passwords and their hashing, the cookie and its origin check, *)
(* service keys, and the row locks of sessions: every update of a session  *)
(* by a login sets revoked_at, so their order does not matter (a deadlock  *)
(* among them rolls one login back, which RollBack allows).  The read of a *)
(* session and the touch of its last_seen_at are one step.                 *)
(***************************************************************************)
EXTENDS Integers, FiniteSets, Sequences

CONSTANTS
  Logins,          \* login requests; a session is named after its login
  Devices,
  SessionCap,      \* auth_max_active_sessions
  Requests,        \* authenticated requests
  Tickets,         \* ticket tokens, never drawn twice
  Sockets          \* WebSocket handshakes

ASSUME SessionCapAssumption == SessionCap \in Nat \ {0}
ASSUME NamesAssumption == "none" \notin Logins \union Tickets

Purposes == {"conversation", "voice"}

VARIABLES
  registered,      \* the user has a row
  devices,         \* the device rows, committed
  session,         \* "none", "live", "revoked" or "lapsed" (expired or idle)
  born,            \* the sessions in the order of created_at
  stage,           \* where each login is
  device,          \* the device it names
  known,           \* its lookup found the device
  dropping,        \* the sessions it will revoke
  seen,            \* the sessions its count of the active ones saw
  actor,           \* the session each request was authenticated by, or "none"
  ticket,          \* each ticket in Redis: its session and purpose
  socket,          \* each handshake: its stage and the ticket it presented
  overlooked,      \* history: live after the last commit and unseen by it
  stale            \* history: the session was dead before the ticket was presented

loginVars    == <<registered, devices, born, stage, device, known, dropping, seen, overlooked>>
ticketVars   == <<ticket, socket, stale>>
identityVars == <<loginVars, session, actor, ticketVars>>

Nobody   == "none"
NoTicket == [session |-> Nobody, purpose |-> Nobody]
Live     == {l \in Logins : session[l] = "live"}

IdentityInit ==
  /\ registered = FALSE /\ devices = {} /\ born = <<>> /\ overlooked = {}
  /\ session = [l \in Logins |-> "none"]
  /\ stage = [l \in Logins |-> "idle"]
  /\ device = [l \in Logins |-> Nobody]
  /\ known = [l \in Logins |-> FALSE]
  /\ dropping = [l \in Logins |-> {}]
  /\ seen = [l \in Logins |-> {}]
  /\ actor = [q \in Requests |-> Nobody]
  /\ ticket = [t \in Tickets |-> NoTicket]
  /\ socket = [w \in Sockets |-> [at |-> "idle", ticket |-> Nobody, session |-> Nobody]]
  /\ stale = [w \in Sockets |-> FALSE]

-----------------------------------------------------------------------------
(* The unique user name makes a second one fail.                           *)
CreateUser ==
  /\ ~registered
  /\ registered' = TRUE

(* /register, where it is enabled, or create-user of the command line.     *)
Register ==
  /\ CreateUser
  /\ UNCHANGED <<devices, born, stage, device, known, dropping, seen, overlooked>>
  /\ UNCHANGED <<session, actor, ticketVars>>

(* The password is right; the device is looked up by its name.             *)
Login(l, d) ==
  /\ registered /\ stage[l] = "idle"
  /\ stage' = [stage EXCEPT ![l] = "device"]
  /\ device' = [device EXCEPT ![l] = d]
  /\ known' = [known EXCEPT ![l] = d \in devices]
  /\ UNCHANGED <<registered, devices, born, dropping, seen, overlooked>>
  /\ UNCHANGED <<session, actor, ticketVars>>

\* A login that has written the row of d and has not ended.
Holds(l, d) == device[l] = d /\ stage[l] \in {"read", "count", "commit"}

Free(d) == \A l \in Logins : ~Holds(l, d)

\* Mutant: a known device is read and not written, so nothing is waited for.
Unwritten(l) ==
  /\ stage[l] = "device"
  /\ stage' = [stage EXCEPT ![l] = IF known[l] \/ device[l] \notin devices THEN "read"
                                                                        ELSE "failed"]
  /\ UNCHANGED <<registered, devices, born, device, known, dropping, seen, overlooked>>
  /\ UNCHANGED <<session, actor, ticketVars>>

(* get_or_create_device: last_seen_at of the row that was found, or a new  *)
(* row; two first logins of a device collide and one of them fails.        *)
TakeDevice(l) ==
  /\ stage[l] = "device"
  /\ Free(device[l])
  /\ stage' = [stage EXCEPT ![l] = IF known[l] \/ device[l] \notin devices THEN "read"
                                                                        ELSE "failed"]
  /\ UNCHANGED <<registered, devices, born, device, known, dropping, seen, overlooked>>
  /\ UNCHANGED <<session, actor, ticketVars>>

(* persist_session: what is active on the device, then the insertion.      *)
ReadDevice(l) ==
  /\ stage[l] = "read"
  /\ dropping' = [dropping EXCEPT ![l] = {m \in Live : device[m] = device[l]}]
  /\ born' = Append(born, l)
  /\ stage' = [stage EXCEPT ![l] = "count"]
  /\ UNCHANGED <<registered, devices, device, known, seen, overlooked>>
  /\ UNCHANGED <<session, actor, ticketVars>>

Newer(m, l) == \E i, j \in DOMAIN born : i < j /\ born[i] = l /\ born[j] = m

\* Mutant: the new session itself is not counted.
OlderByOne(S) == {l \in S : Cardinality({m \in S : Newer(m, l)}) > SessionCap}

\* S beyond the cap, from the newest on.
Older(S) == {l \in S : Cardinality({m \in S : Newer(m, l)}) >= SessionCap}

(* ... then the count of the active sessions, its own among them.          *)
CountSessions(l) ==
  /\ stage[l] = "count"
  /\ LET active == (Live \ dropping[l]) \union {l} IN
       /\ seen' = [seen EXCEPT ![l] = active]
       /\ dropping' = [dropping EXCEPT ![l] = @ \union Older(active)]
  /\ stage' = [stage EXCEPT ![l] = "commit"]
  /\ UNCHANGED <<registered, devices, born, device, known, overlooked>>
  /\ UNCHANGED <<session, actor, ticketVars>>

CommitLogin(l) ==
  /\ stage[l] = "commit"
  /\ session' = [m \in Logins |-> IF m \in dropping[l] THEN "revoked"
                                  ELSE IF m = l THEN "live" ELSE session[m]]
  /\ devices' = devices \union {device[l]}
  /\ stage' = [stage EXCEPT ![l] = "done"]
  /\ dropping' = [dropping EXCEPT ![l] = {}]
  /\ seen' = [seen EXCEPT ![l] = {}]
  /\ overlooked' = {m \in Logins : session'[m] = "live"} \ seen[l]
  /\ UNCHANGED <<registered, born, device, known, actor, ticketVars>>

\* A login is born once at most.
Without(s, l) ==
  IF \E i \in DOMAIN s : s[i] = l
    THEN LET k == CHOOSE j \in DOMAIN s : s[j] = l
         IN  [i \in 1 .. Len(s) - 1 |-> IF i < k THEN s[i] ELSE s[i + 1]]
    ELSE s

(* A failure, or a deadlock, before the commit.                            *)
RollBack(l) ==
  /\ stage[l] \in {"device", "read", "count", "commit"}
  /\ stage' = [stage EXCEPT ![l] = "failed"]
  /\ born' = Without(born, l)
  /\ dropping' = [dropping EXCEPT ![l] = {}]
  /\ seen' = [seen EXCEPT ![l] = {}]
  /\ UNCHANGED <<registered, devices, device, known, overlooked, session, actor, ticketVars>>

-----------------------------------------------------------------------------
(* Time: expires_at or the idle limit.                                     *)
Lapse(l) ==
  /\ session[l] = "live"
  /\ session' = [session EXCEPT ![l] = "lapsed"]
  /\ UNCHANGED <<loginVars, actor, ticketVars>>

(* authenticate_session, a transaction of its own before the request's.    *)
Authenticate(q, l) ==
  /\ actor[q] = Nobody
  /\ l \in Live
  /\ actor' = [actor EXCEPT ![q] = l]
  /\ UNCHANGED <<loginVars, session, ticketVars>>

EndRequest(q) == actor[q] # Nobody /\ actor' = [actor EXCEPT ![q] = Nobody]

Revoke(S) == session' = [l \in Logins |-> IF l \in S /\ session[l] # "none"
                                            THEN "revoked" ELSE session[l]]

Logout(q) ==
  /\ EndRequest(q)
  /\ Revoke({actor[q]})
  /\ UNCHANGED <<loginVars, ticketVars>>

(* /sessions/{id} of another session.                                      *)
RevokeSession(q, l) ==
  /\ l # actor[q]
  /\ EndRequest(q)
  /\ Revoke({l})
  /\ UNCHANGED <<loginVars, ticketVars>>

RevokeOthers(q) ==
  /\ EndRequest(q)
  /\ Revoke(Logins \ {actor[q]})
  /\ UNCHANGED <<loginVars, ticketVars>>

(* issue_ws_ticket: a new token, bound to the session it is issued for.    *)
PutTicket(t, l, purpose) ==
  /\ ticket[t] = NoTicket /\ \A w \in Sockets : socket[w].ticket # t
  /\ ticket' = [ticket EXCEPT ![t] = [session |-> l, purpose |-> purpose]]

(* /ws-ticket: a voice ticket only for a conversation of the user's.       *)
IssueTicket(q, t, purpose) ==
  /\ EndRequest(q)
  /\ PutTicket(t, actor[q], purpose)
  /\ UNCHANGED <<loginVars, session, socket, stale>>

(* Any request that changes nothing here.                                  *)
OtherRequest(q) ==
  /\ EndRequest(q)
  /\ UNCHANGED <<loginVars, session, ticketVars>>

TicketExpires(t) ==
  /\ ticket[t] # NoTicket
  /\ ticket' = [ticket EXCEPT ![t] = NoTicket]
  /\ UNCHANGED <<loginVars, session, actor, socket, stale>>

\* Mutant: the ticket is read and stays.
Peek(t) == UNCHANGED ticket

TakeTicket(t) == ticket' = [ticket EXCEPT ![t] = NoTicket]

(* redeem_ws_ticket: GETDEL, then the purpose of the endpoint.             *)
Present(w, t, expected) ==
  /\ socket[w].at = "idle"
  /\ TakeTicket(t)
  /\ socket' = [socket EXCEPT ![w] =
       [at |-> IF ticket[t] # NoTicket /\ ticket[t].purpose = expected
                 THEN "validating" ELSE "refused",
        ticket |-> t, session |-> ticket[t].session]]
  /\ stale' = [stale EXCEPT ![w] = ticket[t].session \notin Live]
  /\ UNCHANGED <<loginVars, session, actor>>

(* ... then the session it was issued for, which may also not be readable. *)
ValidateTicket(w) ==
  /\ socket[w].at = "validating"
  /\ \E admitted \in {socket[w].session \in Live, FALSE} :
       socket' = [socket EXCEPT ![w].at = IF admitted THEN "admitted" ELSE "refused"]
  /\ UNCHANGED <<loginVars, session, actor, ticket, stale>>

IdentityNext ==
  \/ Register
  \/ \E l \in Logins :
       \/ \E d \in Devices : Login(l, d)
       \/ TakeDevice(l) \/ ReadDevice(l) \/ CountSessions(l) \/ CommitLogin(l)
       \/ RollBack(l) \/ Lapse(l)
  \/ \E q \in Requests :
       \/ \E l \in Logins : Authenticate(q, l) \/ RevokeSession(q, l)
       \/ Logout(q) \/ RevokeOthers(q) \/ OtherRequest(q)
       \/ \E t \in Tickets, p \in Purposes : IssueTicket(q, t, p)
  \/ \E t \in Tickets : TicketExpires(t)
  \/ \E w \in Sockets : ValidateTicket(w) \/ \E t \in Tickets, p \in Purposes : Present(w, t, p)

IdentitySpec == IdentityInit /\ [][IdentityNext]_identityVars

-----------------------------------------------------------------------------
IdentityTypeOK ==
  /\ registered \in BOOLEAN
  /\ devices \subseteq Devices
  /\ session \in [Logins -> {"none", "live", "revoked", "lapsed"}]
  /\ stage \in [Logins -> {"idle", "device", "read", "count", "commit", "done", "failed"}]
  /\ device \in [Logins -> Devices \union {Nobody}]
  /\ \A l \in Logins : stage[l] # "idle" => device[l] \in Devices
  /\ known \in [Logins -> BOOLEAN]
  /\ dropping \in [Logins -> SUBSET Logins]
  /\ seen \in [Logins -> SUBSET Logins]
  /\ actor \in [Requests -> Logins \union {Nobody}]
  /\ ticket \in [Tickets -> [session : Logins \union {Nobody},
                             purpose : Purposes \union {Nobody}]]
  /\ socket \in [Sockets -> [at : {"idle", "validating", "admitted", "refused"},
                             ticket : Tickets \union {Nobody},
                             session : Logins \union {Nobody}]]
  /\ overlooked \subseteq Logins
  /\ stale \in [Sockets -> BOOLEAN]

(* For the proofs.  A session is there once its login has committed.       *)
SessionsDone == \A l \in Logins : session[l] # "none" => stage[l] = "done"

\* One login at a time has the row of a device.
DeviceMutex == \A l, m \in Logins : Holds(l, device[l]) /\ Holds(m, device[l]) => l = m

\* Between its read and its commit, a login knows all that is live on its device.
DropsAll ==
  \A l \in Logins : stage[l] \in {"count", "commit"} =>
    {m \in Live : device[m] = device[l]} \subseteq dropping[l]

\* What it drops is there, but for itself.
DropsDone == \A l \in Logins : \A m \in dropping[l] \ {l} : stage[m] = "done"

\* Requests and tickets name sessions that are or were there.
NamedSessions ==
  /\ \A q \in Requests : actor[q] # Nobody => session[actor[q]] # "none"
  /\ \A t \in Tickets : ticket[t] # NoTicket =>
       ticket[t].session \in Logins /\ session[ticket[t].session] # "none"

Presented(w) == socket[w].at \in {"validating", "admitted"}

\* A ticket that was presented is gone and is not drawn again.
TicketsGone ==
  \A w \in Sockets : Presented(w) =>
    /\ socket[w].ticket \in Tickets /\ ticket[socket[w].ticket] = NoTicket
    /\ socket[w].session \in Logins /\ session[socket[w].session] # "none"
    /\ stale[w] => socket[w].at = "validating" /\ socket[w].session \notin Live
    /\ \A v \in Sockets \ {w} : Presented(v) => socket[v].ticket # socket[w].ticket

(* Two active sessions never share a device, however its logins overlap:   *)
(* nothing in the table says so; the device's row, written before the      *)
(* sessions are read, makes the second login wait for the first            *)
(* (get_or_create_device, persist_session).                                *)
OneSessionPerDevice ==
  \A l, m \in Live : device[l] = device[m] => l = m

(* The active sessions are at most auth_max_active_sessions, but for those *)
(* whose logins committed between the count and the commit of the last     *)
(* login: two logins that overlap on different devices do exceed the cap   *)
(* (persist_session).                                                      *)
CapHolds == Cardinality(Live \ overlooked) <= SessionCap

\* A login that has inserted its session has a place among them.
BornInv ==
  /\ born \in Seq(Logins)
  /\ \A l \in Logins : stage[l] \in {"count", "commit", "done"} =>
       \E i \in DOMAIN born : born[i] = l

\* What a login will leave of the sessions it has counted.
LeavesInv ==
  \A l \in Logins : stage[l] = "commit" =>
    /\ IsFiniteSet(seen[l] \ dropping[l])
    /\ Cardinality(seen[l] \ dropping[l]) <= SessionCap

CapInv ==
  /\ BornInv /\ LeavesInv
  /\ IsFiniteSet(Live \ overlooked) /\ CapHolds

DevicesInv == SessionsDone /\ DeviceMutex /\ DropsAll /\ DropsDone /\ OneSessionPerDevice
IInv == IdentityTypeOK /\ DevicesInv /\ NamedSessions /\ TicketsGone

(* A ticket admits one socket, and none at all once its session is over,   *)
(* whether that happened before the ticket was issued or after             *)
(* (issue_ws_ticket, redeem_ws_ticket).                                    *)
TicketsOnce ==
  \A w \in Sockets : socket[w].at = "admitted" =>
    /\ ~stale[w]
    /\ \A v \in Sockets \ {w} : socket[v].at = "admitted" => socket[v].ticket # socket[w].ticket
=============================================================================
