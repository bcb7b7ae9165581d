--------------------------- MODULE PipelineClaims ---------------------------
(***************************************************************************)
(* A statement the comments of the repository make about the issue         *)
(* snapshot which the code does not keep.  It has a run whose              *)
(* counterexample shows how it fails; the README tells the story.          *)
(***************************************************************************)
EXTENDS Pipeline

\* resume.go: the prompt after ai-needs-info is the diff "against the snapshot
\* the paused session last saw".  (Every opening records the text it fetched, also
\* when the session is only told to continue, or never starts.)
SnapshotWasSeen == marker = "needsInfo" /\ snap > 0 => snap = told
=============================================================================
