------------------------ MODULE OrchestratorClaims ------------------------
(***************************************************************************)
(* A statement the comments of the repository make about the orchestrator  *)
(* which the code does not keep.  It has a run whose counterexample shows  *)
(* how it fails; the README tells the story.                               *)
(***************************************************************************)
EXTENDS Orchestrator

\* loop.go:186-188 says a consumed flag cannot leak and "spuriously stop the
\* issue's next run": a stop flag only exists while its issue is in the ledger.
\* (A Stop between consumeStopping and clearCancel sets it again.)
StopFlagOwned == stopping \subseteq active
=============================================================================
