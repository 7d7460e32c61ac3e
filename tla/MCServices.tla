----------------------------- MODULE MCServices -----------------------------
(***************************************************************************)
(* Four components that share no state, each explored for itself: a        *)
(* behaviour moves one of them and leaves the others where they began.     *)
(***************************************************************************)
EXTENDS Identity, RateLimiter, ChatGPTPlan, Knowledge, TLC

VARIABLE part

OthersRest ==
  /\ part # "identity" => UNCHANGED identityVars
  /\ part # "limiter"  => UNCHANGED limiterVars
  /\ part # "plan"     => UNCHANGED planVars
  /\ part # "vault"    => UNCHANGED vaultVars

Init ==
  /\ part \in {"identity", "limiter", "plan", "vault"}
  /\ IdentityInit /\ LimiterInit /\ PlanInit /\ VaultInit
  /\ part # "limiter" => failClosed
  /\ part # "vault" => text = [length |-> 1, spaces |-> {}]

Next ==
  /\ \/ part = "identity" /\ IdentityNext
     \/ part = "limiter" /\ LimiterNext
     \/ part = "plan" /\ PlanNext
     \/ part = "vault" /\ VaultNext
  /\ OthersRest
  /\ UNCHANGED part

Spec == Init /\ [][Next]_<<part, identityVars, limiterVars, planVars, vaultVars>>

TypeOK == IdentityTypeOK /\ LimiterTypeOK /\ PlanTypeOK /\ VaultTypeOK

\* Components share their model values: fewer permutations, all of them sound.
Symmetry == UNION {Permutations(S) : S \in {Logins, Devices, PlanCalls}}
=============================================================================
