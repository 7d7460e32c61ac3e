-------------------------- MODULE ModelRouterProofs --------------------------
(***************************************************************************)
(* What holds of ModelRouter for any set of requests, any threshold, any   *)
(* number of retries and of outages.                                       *)
(***************************************************************************)
EXTENDS ModelRouter, TLAPS

(* What IInv says of the requests, and of the breakers.                    *)
RequestsOK ==
  /\ at \in [Requests -> {"idle", "call", "backoff", "next"}]
  /\ provider \in [Requests -> Providers]
  /\ attempt \in [Requests -> 0..Retries + 1]
  /\ BackoffHasAttempt

BreakersOK ==
  /\ failures \in [Providers -> 0..Threshold]
  /\ circuit \in [Providers -> {"closed", "cooling", "cooled"}]
  /\ trial \in [Providers -> BOOLEAN]
  /\ streak \in [Providers -> 0..Threshold]
  /\ CounterIsStreak

WorldOK ==
  /\ up \in [Providers -> BOOLEAN]
  /\ outages \in 0..MaxOutages

(* IInv by what its conjuncts are about: the requests, the breakers of the *)
(* router, and the providers.                                              *)
LEMMA Parts == IInv <=> RequestsOK /\ BreakersOK /\ WorldOK
  BY DEF IInv, TypeOK, RequestsOK, BreakersOK, WorldOK

(* The same of the next state.                                             *)
LEMMA PartsNext == IInv' <=> RequestsOK' /\ BreakersOK' /\ WorldOK'
  BY DEF IInv, TypeOK, RequestsOK, BreakersOK, WorldOK

(* A recorded success leaves counter, circuit and streak of its provider   *)
(* in agreement, and the other provider's alone (record_success).          *)
LEMMA SuccessKeeps ==
  ASSUME BreakersOK, NEW p \in Providers, RecordSuccess(p)
  PROVE  BreakersOK'
<1>1. Threshold \in Nat \ {0}
  BY RouterAssumption
<1>2. /\ failures' = [failures EXCEPT ![p] = 0]
      /\ circuit' = [circuit EXCEPT ![p] = "closed"]
      /\ trial' = [trial EXCEPT ![p] = FALSE]
      /\ streak' = [streak EXCEPT ![p] = 0]
  BY DEF RecordSuccess
<1>3. QED
  BY <1>1, <1>2 DEF BreakersOK, CounterIsStreak

(* A recorded failure does too: it counts up to the threshold, or opens.   *)
LEMMA FailureKeeps ==
  ASSUME BreakersOK, NEW p \in Providers, RecordFailure(p)
  PROVE  BreakersOK'
<1>1. Threshold \in Nat \ {0}
  BY RouterAssumption
<1>2. /\ failures \in [Providers -> 0..Threshold]
      /\ streak \in [Providers -> 0..Threshold]
      /\ circuit \in [Providers -> {"closed", "cooling", "cooled"}]
      /\ trial \in [Providers -> BOOLEAN]
  BY DEF BreakersOK
<1>3. /\ CapAdd(failures[p]) \in 0..Threshold
      /\ CapAdd(streak[p]) \in 0..Threshold
      /\ streak[p] < Threshold => CapAdd(streak[p]) = streak[p] + 1
      /\ streak[p] = Threshold => CapAdd(streak[p]) = Threshold
  BY <1>1, <1>2 DEF CapAdd
<1>4. streak' = [streak EXCEPT ![p] = CapAdd(streak[p])]
  BY DEF RecordFailure
<1>5. CASE /\ trial[p]
           /\ failures' = [failures EXCEPT ![p] = CapAdd(failures[p])]
           /\ circuit' = [circuit EXCEPT ![p] = "cooling"]
           /\ trial' = [trial EXCEPT ![p] = FALSE]
  BY <1>1, <1>2, <1>3, <1>4, <1>5 DEF BreakersOK, CounterIsStreak
<1>6. CASE /\ ~trial[p] /\ failures[p] + 1 >= Threshold
           /\ failures' = [failures EXCEPT ![p] = 0]
           /\ circuit' = [circuit EXCEPT ![p] = "cooling"]
           /\ trial' = trial
  BY <1>1, <1>2, <1>3, <1>4, <1>6 DEF BreakersOK, CounterIsStreak
<1>7. CASE /\ ~trial[p] /\ failures[p] + 1 < Threshold
           /\ failures' = [failures EXCEPT ![p] = failures[p] + 1]
           /\ circuit' = circuit
           /\ trial' = trial
  BY <1>1, <1>2, <1>3, <1>4, <1>7 DEF BreakersOK, CounterIsStreak
<1>8. QED
  BY <1>5, <1>6, <1>7 DEF RecordFailure

(* can_execute changes nothing but the trial of an open circuit.           *)
LEMMA LetsThroughKeeps ==
  ASSUME BreakersOK, NEW p \in Providers, LetsThrough(p), UNCHANGED streak
  PROVE  BreakersOK'
<1>1. CASE circuit[p] = "closed" /\ UNCHANGED trial
  BY <1>1 DEF BreakersOK, CounterIsStreak, LetsThrough
<1>2. CASE circuit[p] = "cooled" /\ trial' = [trial EXCEPT ![p] = TRUE]
  BY <1>2 DEF BreakersOK, CounterIsStreak, LetsThrough
<1>3. QED
  BY <1>1, <1>2 DEF LetsThrough

(* A step that touches no breaker keeps them in agreement.                 *)
LEMMA BreakersStutter ==
  ASSUME BreakersOK, UNCHANGED <<breakers, streak>>
  PROVE  BreakersOK'
  BY DEF BreakersOK, CounterIsStreak, breakers

(* A request that calls a provider keeps its type.                         *)
LEMMA CallOK ==
  ASSUME RequestsOK, NEW r \in Requests, NEW p \in Providers,
         NEW n \in 0..Retries + 1, Call(r, p, n)
  PROVE  RequestsOK'
  BY DEF RequestsOK, BackoffHasAttempt, Call

(* So does one that leaves.                                                *)
LEMMA LeaveOK ==
  ASSUME RequestsOK, NEW r \in Requests, Leave(r)
  PROVE  RequestsOK'
  BY RouterAssumption DEF RequestsOK, BackoffHasAttempt, Leave, Providers

(* What asking for the fallback keeps.                                     *)
LEMMA TryFallbackKeeps ==
  ASSUME RequestsOK, BreakersOK, NEW r \in Requests, TryFallback(r), UNCHANGED streak
  PROVE  RequestsOK' /\ BreakersOK'
<1>1. /\ "fallback" \in Providers
      /\ 1 \in 0..Retries + 1
  BY RouterAssumption DEF Providers
<1>2. CASE LetsThrough("fallback") /\ Call(r, "fallback", 1)
  BY <1>1, <1>2, CallOK, LetsThroughKeeps
<1>3. CASE Bars("fallback") /\ Leave(r) /\ UNCHANGED breakers
  BY <1>3, LeaveOK, BreakersStutter
<1>4. QED
  BY <1>2, <1>3 DEF TryFallback

(* IInv holds before the first request.                                    *)
LEMMA InvInit == ASSUME Init PROVE IInv
  BY RouterAssumption DEF Init, IInv, TypeOK, CounterIsStreak, BackoffHasAttempt, Providers

(* Every step preserves IInv.                                              *)
LEMMA InvNext == ASSUME IInv, [Next]_vars PROVE IInv'
<1>0. RequestsOK /\ BreakersOK /\ WorldOK
  BY Parts
<1> SUFFICES RequestsOK' /\ BreakersOK' /\ WorldOK'
  BY PartsNext
<1>w. ASSUME UNCHANGED world PROVE WorldOK'
  BY <1>0, <1>w DEF WorldOK, world
<1>p. /\ "primary" \in Providers
      /\ "fallback" \in Providers
      /\ 1 \in 0..Retries + 1
  BY RouterAssumption DEF Providers
<1>1. ASSUME NEW r \in Requests, Begin(r)
      PROVE  RequestsOK' /\ BreakersOK' /\ WorldOK'
  <2>1. UNCHANGED world /\ UNCHANGED streak
    BY <1>1 DEF Begin
  <2>2. CASE LetsThrough("primary") /\ Call(r, "primary", 1)
    BY <1>0, <1>p, <1>w, <2>1, <2>2, CallOK, LetsThroughKeeps
  <2>3. CASE TryFallback(r)
    BY <1>0, <1>w, <2>1, <2>3, TryFallbackKeeps
  <2>4. QED
    BY <1>1, <2>2, <2>3 DEF Begin
<1>2. ASSUME NEW r \in Requests, Succeeds(r)
      PROVE  RequestsOK' /\ BreakersOK' /\ WorldOK'
  <2>1. provider[r] \in Providers
    BY <1>0 DEF RequestsOK
  <2>2. RecordSuccess(provider[r]) /\ Leave(r) /\ UNCHANGED world
    BY <1>2 DEF Succeeds
  <2>3. QED
    BY <1>0, <1>w, <2>1, <2>2, LeaveOK, SuccessKeeps
<1>3. ASSUME NEW r \in Requests, Backoff(r)
      PROVE  RequestsOK' /\ BreakersOK' /\ WorldOK'
  <2>1. /\ at' = [at EXCEPT ![r] = "backoff"]
        /\ provider' = provider
        /\ attempt' = attempt
        /\ attempt[r] <= Retries
        /\ UNCHANGED <<breakers, streak>>
        /\ UNCHANGED world
    BY <1>3 DEF Backoff
  <2>2. RequestsOK'
    BY <1>0, <2>1, RouterAssumption DEF RequestsOK, BackoffHasAttempt
  <2>3. QED
    BY <1>0, <1>w, <2>1, <2>2, BreakersStutter
<1>4. ASSUME NEW r \in Requests, Retry(r)
      PROVE  RequestsOK' /\ BreakersOK' /\ WorldOK'
  <2>1. /\ at[r] = "backoff"
        /\ Call(r, provider[r], attempt[r] + 1)
        /\ UNCHANGED <<breakers, streak>>
        /\ UNCHANGED world
    BY <1>4 DEF Retry
  <2>2. provider[r] \in Providers /\ attempt[r] + 1 \in 0..Retries + 1
    BY <1>0, <2>1, RouterAssumption DEF RequestsOK, BackoffHasAttempt
  <2>3. QED
    BY <1>0, <1>w, <2>1, <2>2, CallOK, BreakersStutter
<1>5. ASSUME NEW r \in Requests, PrimaryFails(r)
      PROVE  RequestsOK' /\ BreakersOK' /\ WorldOK'
  <2>1. /\ RecordFailure("primary")
        /\ at' = [at EXCEPT ![r] = "next"]
        /\ provider' = provider
        /\ attempt' = attempt
        /\ UNCHANGED world
    BY <1>5 DEF PrimaryFails
  <2>2. RequestsOK'
    BY <1>0, <2>1 DEF RequestsOK, BackoffHasAttempt
  <2>3. QED
    BY <1>0, <1>w, <1>p, <2>1, <2>2, FailureKeeps
<1>6. ASSUME NEW r \in Requests, GoToFallback(r)
      PROVE  RequestsOK' /\ BreakersOK' /\ WorldOK'
  <2>1. TryFallback(r) /\ UNCHANGED world /\ UNCHANGED streak
    BY <1>6 DEF GoToFallback
  <2>2. QED
    BY <1>0, <1>w, <2>1, TryFallbackKeeps
<1>7. ASSUME NEW r \in Requests, FallbackFails(r)
      PROVE  RequestsOK' /\ BreakersOK' /\ WorldOK'
  <2>1. RecordFailure("fallback") /\ Leave(r) /\ UNCHANGED world
    BY <1>7 DEF FallbackFails
  <2>2. QED
    BY <1>0, <1>w, <1>p, <2>1, LeaveOK, FailureKeeps
<1>8. ASSUME NEW r \in Requests, Abort(r)
      PROVE  RequestsOK' /\ BreakersOK' /\ WorldOK'
  <2>1. Leave(r) /\ UNCHANGED <<breakers, streak>> /\ UNCHANGED world
    BY <1>8 DEF Abort
  <2>2. QED
    BY <1>0, <1>w, <2>1, LeaveOK, BreakersStutter
<1>r. ASSUME UNCHANGED requests PROVE RequestsOK'
  BY <1>0, <1>r DEF RequestsOK, BackoffHasAttempt, requests
<1>9. ASSUME NEW p \in Providers, CoolDown(p)
      PROVE  RequestsOK' /\ BreakersOK' /\ WorldOK'
  <2>1. /\ circuit[p] = "cooling"
        /\ circuit' = [circuit EXCEPT ![p] = "cooled"]
        /\ UNCHANGED <<failures, trial, streak>>
        /\ UNCHANGED requests
        /\ UNCHANGED world
    BY <1>9 DEF CoolDown
  <2>2. BreakersOK'
    BY <1>0, <2>1 DEF BreakersOK, CounterIsStreak
  <2>3. QED
    BY <1>r, <1>w, <2>1, <2>2
<1>10. ASSUME NEW p \in Providers, GoesDown(p) \/ ComesUp(p)
       PROVE  RequestsOK' /\ BreakersOK' /\ WorldOK'
  <2>1. UNCHANGED <<breakers, streak>> /\ UNCHANGED requests
    BY <1>10 DEF GoesDown, ComesUp
  <2>2. WorldOK'
    <3>1. CASE GoesDown(p)
      <4>1. /\ up' = [up EXCEPT ![p] = FALSE]
            /\ outages < MaxOutages
            /\ outages' = outages + 1
        BY <3>1 DEF GoesDown
      <4>2. outages' \in 0..MaxOutages
        BY <1>0, <4>1, RouterAssumption DEF WorldOK
      <4>3. QED
        BY <1>0, <4>1, <4>2 DEF WorldOK
    <3>2. CASE ComesUp(p)
      BY <1>0, <3>2 DEF WorldOK, ComesUp
    <3>3. QED
      BY <1>10, <3>1, <3>2
  <2>3. QED
    BY <1>0, <1>r, <2>1, <2>2, BreakersStutter
<1>11. CASE UNCHANGED vars
  BY <1>0, <1>r, <1>w, <1>11, BreakersStutter DEF vars
<1>12. QED
  BY <1>1, <1>2, <1>3, <1>4, <1>5, <1>6, <1>7, <1>8, <1>9, <1>10, <1>11
  DEF Next, Proceed

(* IInv holds throughout.                                                  *)
THEOREM Invariance == Spec => []IInv
<1>1. Init => IInv
  BY InvInit
<1>2. IInv /\ [Next]_vars => IInv'
  BY InvNext
<1>3. QED
  BY <1>1, <1>2, PTL DEF Spec

(* Type correctness: the counters stay within the threshold, the attempts  *)
(* within the retries.                                                     *)
THEOREM TypeCorrect == Spec => []TypeOK
<1>1. IInv => TypeOK
  BY DEF IInv
<1>2. QED
  BY <1>1, Invariance, PTL

(* A breaker is open exactly when the threshold of failures was recorded   *)
(* since the last success, whatever the number of concurrent requests      *)
(* (record_success and record_failure).                                    *)
THEOREM OpenOnStreak == Spec => []OpenIffStreak
<1>1. IInv => OpenIffStreak
  <2>1. Threshold \in Nat
    BY RouterAssumption
  <2>2. QED
    BY <2>1 DEF IInv, TypeOK, CounterIsStreak, OpenIffStreak
<1>2. QED
  BY <1>1, Invariance, PTL

(* While a breaker cools down no request is sent to its provider that was  *)
(* not already with it (can_execute, and the retries that do not ask it).  *)
THEOREM Shielded == Spec => CoolingShields
<1> DEFINE Shields(r, p) ==
      circuit[p] = "cooling" /\ at'[r] = "call" /\ provider'[r] = p
        => provider[r] = p /\ at[r] \in {"call", "backoff"}
<1>1. ASSUME IInv, [Next]_vars, NEW r \in Requests, NEW p \in Providers
      PROVE  Shields(r, p)
  <2>0. RequestsOK
    BY <1>1, Parts
  <2>1. ASSUME NEW q \in Requests, NEW o \in Providers, NEW n,
               LetsThrough(o), Call(q, o, n)
        PROVE  Shields(r, p)
    <3>1. circuit[o] # "cooling"
      BY <2>1 DEF LetsThrough
    <3>2. /\ at' = [at EXCEPT ![q] = "call"]
          /\ provider' = [provider EXCEPT ![q] = o]
      BY <2>1 DEF Call
    <3>3. QED
      BY <2>0, <3>1, <3>2 DEF RequestsOK
  <2>2. ASSUME NEW q \in Requests, Leave(q) PROVE Shields(r, p)
    BY <2>0, <2>2 DEF Leave, RequestsOK
  <2>3. ASSUME NEW q \in Requests, TryFallback(q) PROVE Shields(r, p)
    BY <2>1, <2>2, <2>3 DEF TryFallback, Providers
  <2>4. ASSUME UNCHANGED <<at, provider>> PROVE Shields(r, p)
    BY <2>4
  <2>5. ASSUME NEW q \in Requests, Begin(q) PROVE Shields(r, p)
    BY <2>1, <2>3, <2>5 DEF Begin, Providers
  <2>6. ASSUME NEW q \in Requests, Proceed(q) PROVE Shields(r, p)
    <3>1. CASE Succeeds(q)
      BY <2>2, <3>1 DEF Succeeds
    <3>2. CASE Backoff(q)
      BY <2>0, <3>2 DEF Backoff, RequestsOK
    <3>3. CASE Retry(q)
      BY <2>0, <3>3 DEF Retry, Call, RequestsOK
    <3>4. CASE PrimaryFails(q)
      BY <2>0, <3>4 DEF PrimaryFails, RequestsOK
    <3>5. CASE GoToFallback(q)
      BY <2>3, <3>5 DEF GoToFallback
    <3>6. CASE FallbackFails(q)
      BY <2>2, <3>6 DEF FallbackFails
    <3>7. QED
      BY <2>6, <3>1, <3>2, <3>3, <3>4, <3>5, <3>6 DEF Proceed
  <2>7. ASSUME NEW q \in Requests, Abort(q) PROVE Shields(r, p)
    BY <2>2, <2>7 DEF Abort
  <2>8. ASSUME NEW o \in Providers, CoolDown(o) \/ GoesDown(o) \/ ComesUp(o)
        PROVE  Shields(r, p)
    BY <2>4, <2>8 DEF CoolDown, GoesDown, ComesUp, requests
  <2>9. CASE UNCHANGED vars
    BY <2>4, <2>9 DEF vars, requests
  <2>10. QED
    BY <1>1, <2>5, <2>6, <2>7, <2>8, <2>9 DEF Next
<1>2. IInv /\ [Next]_vars => [\A r \in Requests, p \in Providers : Shields(r, p)]_vars
  BY <1>1
<1>3. QED
  BY <1>2, Invariance, PTL DEF Spec, CoolingShields
=============================================================================
