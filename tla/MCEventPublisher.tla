-------------------------- MODULE MCEventPublisher --------------------------
(* Small instances of EventPublisher. *)
EXTENDS EventPublisher, TLC

CONSTANTS e1, e2

Symmetry == Permutations(Emitters)
=============================================================================
