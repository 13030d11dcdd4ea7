---------------------------- MODULE MCEventRing ----------------------------
(* An instance of EventRing for TLC. *)
EXTENDS EventRing, TLC

Symmetry == Permutations(Event)
=============================================================================
