----------------------------- MODULE MCStepLog -----------------------------
(***************************************************************************)
(* The step log with its interchangeable sessions and renders.             *)
(***************************************************************************)
EXTENDS StepLog, TLC

Symmetry == Permutations(Sessions) \cup Permutations(Renders)
=============================================================================
