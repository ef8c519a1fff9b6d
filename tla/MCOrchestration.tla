-------------------------- MODULE MCOrchestration --------------------------
(* Small instances of Orchestration for TLC. *)
EXTENDS Orchestration, TLC

CONSTANTS c1, c2

OneCoordinator == {c1}
TwoCoordinators == {c1, c2}
Symmetry == Permutations(TwoCoordinators)
=============================================================================
