--------------------------- MODULE MCOrchestrator ---------------------------
(***************************************************************************)
(* The goroutines of Orchestrator are interchangeable.                     *)
(***************************************************************************)
EXTENDS Orchestrator, TLC

Symmetry == Permutations(Runs)
=============================================================================
