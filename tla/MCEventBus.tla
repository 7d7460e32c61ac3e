----------------------------- MODULE MCEventBus -----------------------------
(* Instances of EventBus for TLC.                                          *)
EXTENDS EventBus, TLC

(* Consumers and events are interchangeable.                               *)
Symmetry == Permutations(Consumers) \union Permutations(Events)
=============================================================================
