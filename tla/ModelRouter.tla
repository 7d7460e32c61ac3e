----------------------------- MODULE ModelRouter -----------------------------
(***************************************************************************)
(* The model router of the brain: a circuit breaker for the primary and    *)
(* one for the fallback model, the retries, and the requests that share    *)
(* them (modules/brain/infrastructure).                                    *)
(*                                                                         *)
(* A request is a coroutine, suspended while a provider works on it and    *)
(* during a backoff; the breakers change under it.  A request that the     *)
(* cache answers touches none of this, and no more do the local mock and   *)
(* the ChatGPT plan, which have neither breaker nor retry.                 *)
(*                                                                         *)
(* Time is what separates an open circuit that cools down from one that    *)
(* has.  The failure counter is kept up to the threshold: the code only    *)
(* ever compares it with it.                                               *)
(***************************************************************************)
EXTENDS Naturals

CONSTANTS
  Requests,        \* requests that may be under way at once
  Threshold,       \* brain_circuit_failures, at least 1
  Retries,         \* brain_retry_attempts
  MaxOutages       \* bound: times a provider goes down

ASSUME RouterAssumption ==
  /\ Threshold \in Nat \ {0}
  /\ Retries \in Nat
  /\ MaxOutages \in Nat

Providers == {"primary", "fallback"}

VARIABLES
  (* the breaker of each provider *)
  failures,        \* _failures
  circuit,         \* _opened_at: closed, or open and cooling or cooled
  trial,           \* _half_open_trial
  (* the requests *)
  at,              \* idle, at a provider (call), in a backoff, or between
                   \* the two providers (next)
  provider,        \* the provider it is at
  attempt,         \* number of the present attempt
  (* the providers *)
  up,
  outages,
  (* history *)
  streak           \* failures recorded since the last success, up to Threshold

breakers == <<failures, circuit, trial>>
requests == <<at, provider, attempt>>
world    == <<up, outages>>
vars     == <<breakers, requests, world, streak>>

CapAdd(n) == IF n < Threshold THEN n + 1 ELSE Threshold

Init ==
  /\ failures = [p \in Providers |-> 0]
  /\ circuit = [p \in Providers |-> "closed"]
  /\ trial = [p \in Providers |-> FALSE]
  /\ at = [r \in Requests |-> "idle"]
  /\ provider = [r \in Requests |-> "primary"]
  /\ attempt = [r \in Requests |-> 0]
  /\ up = [p \in Providers |-> TRUE]
  /\ outages = 0
  /\ streak = [p \in Providers |-> 0]
-----------------------------------------------------------------------------
(***************************************************************************)
(* CircuitBreaker.  Its lock is never held across an await.                *)
(***************************************************************************)

\* Mutant: an open circuit lets requests through without cooling down.
NeverBars(p) ==
  /\ trial' = [trial EXCEPT ![p] = circuit[p] # "closed"]
  /\ UNCHANGED <<failures, circuit>>

\* can_execute, answering True: from cooled on, for every request that asks.
LetsThrough(p) ==
  /\ \/ circuit[p] = "closed" /\ UNCHANGED trial
     \/ circuit[p] = "cooled" /\ trial' = [trial EXCEPT ![p] = TRUE]
  /\ UNCHANGED <<failures, circuit>>

\* can_execute, answering False.
Bars(p) == circuit[p] = "cooling"

\* Mutant: a success resets the counter and leaves the circuit as it is.
RecordSuccessCount(p) ==
  /\ failures' = [failures EXCEPT ![p] = 0]
  /\ streak' = [streak EXCEPT ![p] = 0]
  /\ UNCHANGED <<circuit, trial>>

RecordSuccess(p) ==
  /\ failures' = [failures EXCEPT ![p] = 0]
  /\ circuit' = [circuit EXCEPT ![p] = "closed"]
  /\ trial' = [trial EXCEPT ![p] = FALSE]
  /\ streak' = [streak EXCEPT ![p] = 0]

\* Mutant: the threshold is compared with > instead of >=.
RecordFailureLate(p) ==
  /\ streak' = [streak EXCEPT ![p] = CapAdd(@)]
  /\ \/ /\ trial[p] \/ failures[p] >= Threshold
        /\ circuit' = [circuit EXCEPT ![p] = "cooling"]
        /\ trial' = [trial EXCEPT ![p] = FALSE]
        /\ failures' = [failures EXCEPT ![p] = 0]
     \/ /\ ~trial[p] /\ failures[p] < Threshold
        /\ failures' = [failures EXCEPT ![p] = @ + 1]
        /\ UNCHANGED <<circuit, trial>>

\* A failure during a trial opens the circuit again, and the counter stays;
\* one that reaches the threshold opens it, and the counter starts over.
RecordFailure(p) ==
  /\ streak' = [streak EXCEPT ![p] = CapAdd(@)]
  /\ \/ /\ trial[p]
        /\ failures' = [failures EXCEPT ![p] = CapAdd(@)]
        /\ circuit' = [circuit EXCEPT ![p] = "cooling"]
        /\ trial' = [trial EXCEPT ![p] = FALSE]
     \/ /\ ~trial[p] /\ failures[p] + 1 >= Threshold
        /\ failures' = [failures EXCEPT ![p] = 0]
        /\ circuit' = [circuit EXCEPT ![p] = "cooling"]
        /\ UNCHANGED trial
     \/ /\ ~trial[p] /\ failures[p] + 1 < Threshold
        /\ failures' = [failures EXCEPT ![p] = @ + 1]
        /\ UNCHANGED <<circuit, trial>>

(* The cooldown is over.                                                   *)
CoolDown(p) ==
  /\ circuit[p] = "cooling"
  /\ circuit' = [circuit EXCEPT ![p] = "cooled"]
  /\ UNCHANGED <<failures, trial, requests, world, streak>>
-----------------------------------------------------------------------------
(***************************************************************************)
(* _complete_with_resilience.                                              *)
(***************************************************************************)
Call(r, p, n) ==
  /\ at' = [at EXCEPT ![r] = "call"]
  /\ provider' = [provider EXCEPT ![r] = p]
  /\ attempt' = [attempt EXCEPT ![r] = n]

\* The request is over, with an answer, an error or a cancellation.
Leave(r) ==
  /\ at' = [at EXCEPT ![r] = "idle"]
  /\ provider' = [provider EXCEPT ![r] = "primary"]
  /\ attempt' = [attempt EXCEPT ![r] = 0]

\* The fallback's turn, unless its circuit bars it too.
TryFallback(r) ==
  \/ LetsThrough("fallback") /\ Call(r, "fallback", 1)
  \/ Bars("fallback") /\ Leave(r) /\ UNCHANGED breakers

(* A request the cache does not answer.                                    *)
Begin(r) ==
  /\ at[r] = "idle"
  /\ \/ LetsThrough("primary") /\ Call(r, "primary", 1)
     \/ Bars("primary") /\ TryFallback(r)
  /\ UNCHANGED <<world, streak>>

(* The provider answers.                                                   *)
Succeeds(r) ==
  /\ at[r] = "call"
  /\ up[provider[r]]
  /\ RecordSuccess(provider[r])
  /\ Leave(r)
  /\ UNCHANGED world

\* Mutant: the attempts are not counted.
BackoffAlways(r) ==
  /\ at[r] = "call"
  /\ ~up[provider[r]]
  /\ at' = [at EXCEPT ![r] = "backoff"]
  /\ UNCHANGED <<breakers, provider, attempt, world, streak>>

(* A network error, a timeout or a transient status, with attempts left:   *)
(* a backoff, and another attempt that no breaker is asked about.          *)
Backoff(r) ==
  /\ at[r] = "call"
  /\ ~up[provider[r]]
  /\ attempt[r] <= Retries
  /\ at' = [at EXCEPT ![r] = "backoff"]
  /\ UNCHANGED <<breakers, provider, attempt, world, streak>>

Retry(r) ==
  /\ at[r] = "backoff"
  /\ Call(r, provider[r], attempt[r] + 1)
  /\ UNCHANGED <<breakers, world, streak>>

(* The last attempt on the primary fails: the failure is recorded, and the *)
(* fallback tried in a step of its own.  The code goes on without a pause, *)
(* as no lock is contended: the model allows steps of others in between.   *)
PrimaryFails(r) ==
  /\ at[r] = "call" /\ provider[r] = "primary"
  /\ ~up["primary"]
  /\ attempt[r] > Retries
  /\ RecordFailure("primary")
  /\ at' = [at EXCEPT ![r] = "next"]
  /\ UNCHANGED <<provider, attempt, world>>

GoToFallback(r) ==
  /\ at[r] = "next"
  /\ TryFallback(r)
  /\ UNCHANGED <<world, streak>>

(* The last attempt on the fallback fails: ModelError.                     *)
FallbackFails(r) ==
  /\ at[r] = "call" /\ provider[r] = "fallback"
  /\ ~up["fallback"]
  /\ attempt[r] > Retries
  /\ RecordFailure("fallback")
  /\ Leave(r)
  /\ UNCHANGED world

(* ProviderError (a status 4xx, an invalid payload), or a cancellation by  *)
(* the caller's timeout: the request ends and no breaker hears of it.      *)
Abort(r) ==
  /\ at[r] \in {"call", "backoff"}
  /\ Leave(r)
  /\ UNCHANGED <<breakers, world, streak>>

GoesDown(p) ==
  /\ up[p]
  /\ outages < MaxOutages
  /\ up' = [up EXCEPT ![p] = FALSE]
  /\ outages' = outages + 1
  /\ UNCHANGED <<breakers, requests, streak>>

ComesUp(p) ==
  /\ ~up[p]
  /\ up' = [up EXCEPT ![p] = TRUE]
  /\ UNCHANGED <<breakers, requests, outages, streak>>
-----------------------------------------------------------------------------
Proceed(r) ==
  \/ Succeeds(r) \/ Backoff(r) \/ Retry(r)
  \/ PrimaryFails(r) \/ GoToFallback(r) \/ FallbackFails(r)

Next ==
  \/ \E r \in Requests : Begin(r) \/ Proceed(r) \/ Abort(r)
  \/ \E p \in Providers : CoolDown(p) \/ GoesDown(p) \/ ComesUp(p)

Spec == Init /\ [][Next]_vars

(* Requests keep coming, their clients' timeouts let them through now and  *)
(* then (each provider call has a timeout of its own), a cooldown ends,    *)
(* and so does an outage.                                                  *)
FairSpec ==
  /\ Spec
  /\ \A r \in Requests : WF_vars(Begin(r)) /\ SF_vars(Succeeds(r)) /\ WF_vars(Proceed(r))
  /\ \A p \in Providers : WF_vars(CoolDown(p)) /\ WF_vars(ComesUp(p))
-----------------------------------------------------------------------------
(***************************************************************************)
(* Properties.                                                             *)
(***************************************************************************)
TypeOK ==
  /\ failures \in [Providers -> 0..Threshold]
  /\ circuit \in [Providers -> {"closed", "cooling", "cooled"}]
  /\ trial \in [Providers -> BOOLEAN]
  /\ at \in [Requests -> {"idle", "call", "backoff", "next"}]
  /\ provider \in [Requests -> Providers]
  /\ attempt \in [Requests -> 0..Retries + 1]
  /\ up \in [Providers -> BOOLEAN]
  /\ outages \in 0..MaxOutages
  /\ streak \in [Providers -> 0..Threshold]

(* "Falhas consecutivas" (line 52): a circuit is open exactly when as many *)
(* failures as the threshold were recorded since the last success, however *)
(* the requests that recorded them overlapped and however often the        *)
(* counter started over.                                                   *)
OpenIffStreak ==
  \A p \in Providers : circuit[p] # "closed" <=> streak[p] = Threshold

(* A circuit that cools down gets no request that was not at it already.   *)
CoolingShields ==
  [][\A r \in Requests, p \in Providers :
       circuit[p] = "cooling" /\ at'[r] = "call" /\ provider'[r] = p
         => provider[r] = p /\ at[r] \in {"call", "backoff"}]_vars

(* Once the outages are over the primary's circuit closes again: no mix of *)
(* late failures, trials that end without a verdict and restarted          *)
(* cooldowns keeps it open for ever.                                       *)
PrimaryRecovers == []<>(circuit["primary"] = "closed")

(* "closed -> open -> half_open" (docs/ARQUITETURA.md:83): a circuit that  *)
(* is open closes only after a trial.  A late success closes it at once.   *)
ClosesThroughTrial ==
  [][\A p \in Providers :
       circuit[p] = "cooling" => circuit'[p] # "closed"]_vars

(* The inductive strengthening of OpenIffStreak: a closed circuit's counter*)
(* is the streak, and only an open circuit is on trial.                    *)
CounterIsStreak ==
  \A p \in Providers :
    IF circuit[p] = "closed" THEN failures[p] = streak[p] /\ ~trial[p] /\ streak[p] < Threshold
                             ELSE streak[p] = Threshold

(* A backoff is only taken with an attempt left.                           *)
BackoffHasAttempt ==
  \A r \in Requests : at[r] = "backoff" => attempt[r] \in 0..Retries

IInv == TypeOK /\ CounterIsStreak /\ BackoffHasAttempt
=============================================================================
