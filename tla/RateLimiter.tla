---------------------------- MODULE RateLimiter ----------------------------
(***************************************************************************)
(* RateLimiter: a fixed window, counted in Redis by all processes or, when *)
(* Redis fails and the limiter may not deny (fail_closed, production), in  *)
(* the memory of each.  The calls are those of one key.  Used by the       *)
(* middleware, by the login (one key per address, one per account) and by  *)
(* make_rate_limit_dependency.                                             *)
(*                                                                         *)
(* Left out: the key and its hash, the headers, and the first 30 seconds   *)
(* of the host's monotonic clock, in which Redis is not probed.            *)
(***************************************************************************)
EXTENDS Integers, FiniteSets

CONSTANTS
  Calls,           \* calls of allow
  Processes,
  Limit,
  MaxWindow,       \* bound: windows 0 .. MaxWindow
  MaxFaults,       \* bound: failures of Redis
  MaxRestarts      \* bound: restarts of processes

ASSUME LimiterAssumption ==
  /\ Limit \in Nat
  /\ IsFiniteSet(Processes) /\ "none" \notin Processes
  /\ MaxWindow \in Nat /\ MaxFaults \in Nat /\ MaxRestarts \in Nat

Windows == 0 .. MaxWindow

VARIABLES
  failClosed,      \* fixed when the limiter is made
  now,             \* the window of the clock
  counter,         \* the keys of Redis, 0 for none
  memory,          \* the counts of each process
  available,       \* _redis_available of each process, None being FALSE
  recheck,         \* 30 seconds have passed since its last probe
  call,            \* each call: its stage, process and window
  allowed,         \* history: calls allowed, of each window
  late,            \* history: those of them counted after their window
  faults, restarts \* history: failures of Redis, restarts

limiterVars == <<failClosed, now, counter, memory, available, recheck, call,
                 allowed, late, faults, restarts>>

LimiterInit ==
  /\ failClosed \in BOOLEAN
  /\ now = 0
  /\ counter = [w \in Windows |-> 0]
  /\ memory = [p \in Processes |-> [w \in Windows |-> 0]]
  /\ available = [p \in Processes |-> FALSE]
  /\ recheck = [p \in Processes |-> TRUE]
  /\ call = [c \in Calls |-> [at |-> "idle", process |-> "none", window |-> 0]]
  /\ allowed = [w \in Windows |-> 0]
  /\ late = [w \in Windows |-> 0]
  /\ faults = 0 /\ restarts = 0

Fault == faults < MaxFaults /\ faults' = faults + 1

To(c, stage) == call' = [call EXCEPT ![c].at = stage]

(* The answer: how many calls the window has had, this one included.       *)
Answer(c, count) ==
  LET w == call[c].window
      yes == count <= Limit
  IN  /\ To(c, IF yes THEN "allowed" ELSE "denied")
      /\ allowed' = [allowed EXCEPT ![w] = @ + (IF yes THEN 1 ELSE 0)]
      /\ late' = [late EXCEPT ![w] = @ + (IF yes /\ w < now THEN 1 ELSE 0)]

(* allow: the window is computed first; what follows may take a while.     *)
Allow(c, p) ==
  /\ call[c].at = "idle"
  /\ call' = [call EXCEPT ![c] =
       [at |-> IF available[p] THEN "redis" ELSE IF recheck[p] THEN "probe" ELSE "fallback",
        process |-> p, window |-> now]]
  /\ UNCHANGED <<failClosed, now, counter, memory, available, recheck, allowed, late,
                 faults, restarts>>

(* _redis_alive, behind its lock: one of the callers pings, those that     *)
(* waited take what it found.                                              *)
Probe(c) ==
  /\ call[c].at = "probe"
  /\ LET p == call[c].process IN
       /\ \/ recheck[p] /\ UNCHANGED faults /\ available' = [available EXCEPT ![p] = TRUE]
          \/ recheck[p] /\ Fault /\ available' = [available EXCEPT ![p] = FALSE]
          \/ ~recheck[p] /\ UNCHANGED <<faults, available>>
       /\ recheck' = [recheck EXCEPT ![p] = FALSE]
       /\ To(c, IF available'[p] THEN "redis" ELSE "fallback")
  /\ UNCHANGED <<failClosed, now, counter, memory, allowed, late, restarts>>

(* _allow_redis: INCR, and EXPIRE when it is the first.                    *)
AllowRedis(c) ==
  /\ call[c].at = "redis"
  /\ counter' = [counter EXCEPT ![call[c].window] = @ + 1]
  /\ Answer(c, counter'[call[c].window])
  /\ UNCHANGED <<failClosed, now, memory, available, recheck, faults, restarts>>

(* INCR fails, or its answer is lost, or EXPIRE fails: the call may have   *)
(* been counted, and is counted again in memory.                           *)
RedisFails(c) ==
  /\ call[c].at = "redis"
  /\ Fault
  /\ \E counted \in {0, 1} :
       counter' = [counter EXCEPT ![call[c].window] = @ + counted]
  /\ available' = [available EXCEPT ![call[c].process] = FALSE]
  /\ To(c, "fallback")
  /\ UNCHANGED <<failClosed, now, memory, recheck, allowed, late, restarts>>

\* Mutant: <= in place of <, the current window goes too.
KeptAfter(w, window) == w > window

Kept(w, window) == w >= window

(* _prune_memory.                                                          *)
Pruned(counts, window) == [w \in Windows |-> IF Kept(w, window) THEN counts[w] ELSE 0]

Deny(c) ==
  /\ call[c].at = "fallback" /\ failClosed
  /\ To(c, "denied")
  /\ UNCHANGED <<failClosed, now, counter, memory, available, recheck, allowed, late,
                 faults, restarts>>

(* _allow_memory.                                                          *)
AllowMemory(c) ==
  /\ call[c].at = "fallback" /\ ~failClosed
  /\ LET p == call[c].process
         w == call[c].window
         kept == Pruned(memory[p], w)
     IN  /\ memory' = [memory EXCEPT ![p] = [kept EXCEPT ![w] = @ + 1]]
         /\ Answer(c, kept[w] + 1)
  /\ UNCHANGED <<failClosed, now, counter, available, recheck, faults, restarts>>

(* The clock, and Redis dropping the key of a window that is over: its     *)
(* sixty seconds count from the first call.                                *)
NextWindow ==
  /\ now < MaxWindow
  /\ now' = now + 1
  /\ UNCHANGED <<failClosed, counter, memory, available, recheck, call, allowed, late,
                 faults, restarts>>

WindowExpires(w) ==
  /\ w < now /\ counter[w] > 0
  /\ counter' = [counter EXCEPT ![w] = 0]
  /\ UNCHANGED <<failClosed, now, memory, available, recheck, call, allowed, late,
                 faults, restarts>>

RecheckDue(p) ==
  /\ ~recheck[p]
  /\ recheck' = [recheck EXCEPT ![p] = TRUE]
  /\ UNCHANGED <<failClosed, now, counter, memory, available, call, allowed, late,
                 faults, restarts>>

(* A process starts again: its counts and its calls are gone.              *)
Restart(p) ==
  /\ restarts < MaxRestarts
  /\ restarts' = restarts + 1
  /\ memory' = [memory EXCEPT ![p] = [w \in Windows |-> 0]]
  /\ available' = [available EXCEPT ![p] = FALSE]
  /\ recheck' = [recheck EXCEPT ![p] = TRUE]
  /\ call' = [c \in Calls |-> IF call[c].process = p /\ call[c].at \notin {"allowed", "denied"}
                                THEN [call[c] EXCEPT !.at = "lost"] ELSE call[c]]
  /\ UNCHANGED <<failClosed, now, counter, allowed, late, faults>>

LimiterNext ==
  \/ \E c \in Calls :
       \/ \E p \in Processes : Allow(c, p)
       \/ Probe(c) \/ AllowRedis(c) \/ RedisFails(c) \/ Deny(c) \/ AllowMemory(c)
  \/ NextWindow \/ \E w \in Windows : WindowExpires(w)
  \/ \E p \in Processes : RecheckDue(p) \/ Restart(p)

LimiterSpec == LimiterInit /\ [][LimiterNext]_limiterVars

-----------------------------------------------------------------------------
LimiterTypeOK ==
  /\ failClosed \in BOOLEAN
  /\ now \in Windows
  /\ counter \in [Windows -> Nat]
  /\ memory \in [Processes -> [Windows -> Nat]]
  /\ available \in [Processes -> BOOLEAN]
  /\ recheck \in [Processes -> BOOLEAN]
  /\ call \in [Calls -> [at : {"idle", "probe", "redis", "fallback", "allowed", "denied",
                               "lost"},
                         process : Processes \union {"none"}, window : Windows]]
  /\ allowed \in [Windows -> Nat]
  /\ late \in [Windows -> Nat]

\* Calls of a window that were counted while it lasted.
OnTime(w) == allowed[w] - late[w]

\* The counts that may come on top of the one in Redis.
Memories ==
  LET processes == Cardinality(Processes) + restarts
  IN  IF failClosed THEN 0 ELSE IF faults < processes THEN faults ELSE processes

(* What a key is allowed in one window: the limit in Redis, and the limit  *)
(* again for each failure of Redis, which makes one process count in its   *)
(* memory, up to one memory for each process and one for each restart; a   *)
(* limiter that fails closed allows the limit and no more.  A call that is *)
(* counted after its window has passed is on top: its count may be gone    *)
(* from Redis and from memory (allow, _allow_redis, _allow_memory,         *)
(* _prune_memory).                                                         *)
WindowBound ==
  \A w \in Windows : OnTime(w) <= Limit * (1 + Memories)

-----------------------------------------------------------------------------
(* For the proof.  What the counts of a window have let through at most.   *)
InRedis(w)  == IF counter[w] < Limit THEN counter[w] ELSE Limit
InMemory(w) == {k \in Processes \X (1 .. Limit) : k[2] <= memory[k[1]][w]}

\* The processes that count in memory, or may before they ask Redis again.
Fallen ==
  {p \in Processes :
     \/ \E w \in Windows : memory[p][w] > 0
     \/ \E c \in Calls : call[c].at = "fallback" /\ call[c].process = p
     \/ ~available[p] /\ ~recheck[p]}

FallenInv == IsFiniteSet(Fallen) /\ Cardinality(Fallen) <= faults

\* Each process that fell, fell by a failure; its counts go with a restart.
NowInv ==
  LET counted == InRedis(now) + Cardinality(InMemory(now))
  IN  /\ failClosed => OnTime(now) <= InRedis(now)
      /\ OnTime(now) <= counted + Limit * restarts
      /\ OnTime(now) <= counted + Limit * (faults - Cardinality(Fallen))

PastInv == \A w \in Windows : w < now => OnTime(w) <= Limit * (1 + Memories)

FutureInv ==
  /\ \A w \in Windows : w > now =>
       allowed[w] = 0 /\ late[w] = 0 /\ \A p \in Processes : memory[p][w] = 0
  /\ \A c \in Calls : call[c].window <= now

CallsOK ==
  /\ faults \in Nat /\ restarts \in Nat
  /\ \A c \in Calls :
       call[c].at \in {"probe", "redis", "fallback"} => call[c].process \in Processes
  /\ failClosed => \A p \in Processes, w \in Windows : memory[p][w] = 0

LimiterInv == LimiterTypeOK /\ CallsOK /\ FutureInv /\ FallenInv /\ NowInv /\ PastInv
=============================================================================
