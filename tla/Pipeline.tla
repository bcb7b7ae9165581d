------------------------------ MODULE Pipeline ------------------------------
(***************************************************************************)
(* What happens inside one issue's runs: the entry session and its Q&A     *)
(* rounds (pipeline_entry.go), plan and execute (pipeline_feature.go), the *)
(* acceptance checklist beside them (uat.go), ship and the code review     *)
(* (codereview.go), and the chain of sessions on disk from which a later   *)
(* run continues (sessions.go, claude.go).                                 *)
(*                                                                         *)
(* A step is one write to the log directory, one answer of an agent or one *)
(* GitHub call, with a crash possible between any two.  Left out: prompts  *)
(* but for whether they carry the issue's text, pull-request comments,     *)
(* pushes whose failure is swallowed, usage and log files.  Each session   *)
(* has an id, counted from 1 in the order they start; 0 is no session.     *)
(***************************************************************************)
EXTENDS Integers, Sequences

CONSTANTS MaxQARounds, \* cfg.MaxQARounds
          Rounds,      \* cfg.Models.CodeReview.Rounds; 0 when there is no review
          UatOn,       \* the UAT step has a target
          MaxSessions, \* bound: sessions with an id
          MaxText,     \* bound: versions of the issue's text
          MaxRuns,     \* bound: runs of the issue
          MaxMishaps   \* bound: crashes, losses of the worktree, and resumed
                       \* sessions that go on under another id

ASSUME PipelineAssumption ==
  /\ {MaxQARounds, Rounds, MaxSessions, MaxText, MaxRuns, MaxMishaps} \subseteq Nat
  /\ MaxText > 0
  /\ UatOn \in BOOLEAN

VARIABLES
  label,    \* GitHub: the issue's state label, "none" when it is eligible
  text,     \* GitHub: the version of the issue's body and comments
  lists,    \* GitHub: how many acceptance checklists the issue carries
  have,     \* worktree: of "spec", "plan" and "commits" (ahead of the base)
  chain,    \* disk: sessions.jsonl, the nodes in order
  file,     \* disk: the legacy single-record session file
  marker,   \* disk: state
  snap,     \* disk: issue-snapshot, as a version of text, 0 for none
  round,    \* disk: codereview-round
  reviewed, \* disk: codereview-done exists
  at,       \* where the run is; "off" without one, "down" without a daemon
  call,     \* the checkpointed agent call under way
  sid,      \* the session that answered or is answering
  er,       \* the answer being acted on
  rnd,      \* Q&A rounds sent to the entry session
  misses,   \* specMisses
  kind,     \* the pipeline's kind: SetKind's argument, later ship's
  held,     \* the nodes SetHeadKind has in memory
  out,      \* the outcome the run is heading for
  rev,      \* the review round
  uat,      \* where the UAT goroutine is
  ids, runs, mishaps, \* what is used of the bounds
  reached,  \* history: the furthest stage checkpointed
  finished, \* history: the sessions whose stage was checkpointed as complete
  told      \* history: the text the entry session has been given

github == <<label, text, lists>>
lineage == <<chain, file>>
disk == <<lineage, marker, snap, round, reviewed>>
locals == <<call, sid, er, rnd, misses, rev>>
memory == <<locals, kind, held, out>>
bounds == <<ids, runs, mishaps>>
history == <<reached, finished, told>>
vars == <<github, have, disk, at, memory, uat, bounds, history>>

EntryLike == {"entry", "brainstorm", "debug"}
Rank(s) == CASE s \in EntryLike -> 1 [] s = "plan" -> 2
             [] s = "execute" -> 3 [] s = "codereview" -> 4 [] OTHER -> 0

\* The artifact a stage builds from (SessionNode.Artifact).
Artifact(s) == IF s = "plan" THEN "spec" ELSE "plan"

Node(i, s, k) == [id |-> i, stage |-> s, kind |-> k]
NoNode == Node(0, "none", "")
Call(s, r, p) == [stage |-> s, resume |-> r, prompt |-> p]
NoCall == Call("none", 0, "none")

\* HeadSession, and ResumePoint with its fallback on the legacy file, whose
\* pre-call form names a stage that never returned.
HeadNode == IF chain = <<>> THEN NoNode ELSE chain[Len(chain)]
ResumePoint == IF chain # <<>> THEN HeadNode
               ELSE IF file.pre THEN Node(0, file.stage, file.kind)
               ELSE Node(file.id, file.stage, file.kind)

\* resumePrompt: the added lines after ai-needs-info, else "continue".
ResumePrompt(prior) ==
  IF prior = "needsInfo" /\ snap > 0 /\ snap < text THEN "diff" ELSE "continue"

\* ResumePipeline: the call a run opens with, given the node it continues from.
\* A node without an id runs its stage afresh from the artifact, or failing
\* that the whole pipeline.
Opening(node, prompt) ==
  IF node.id # 0 THEN Call(node.stage, node.id, prompt)
  ELSE IF node.stage \in {"plan", "execute"} /\ Artifact(node.stage) \in have
       THEN Call(node.stage, 0, "full")
       ELSE Call("entry", 0, "full")

\* The kind a call's checkpoint carries.
CheckpointKind(s) == CASE s = "entry" -> "" [] s = "debug" -> "bug"
                       [] s = "codereview" -> kind [] OTHER -> "feature"

ResolvedKind == IF HeadNode.kind = "" THEN "bug" ELSE HeadNode.kind

Goto(l) == at' = l
Spawn(c) == Goto("spawn") /\ call' = c

\* The pipeline or the review returns, and its locals are gone; what is left waits
\* for the UAT session.
NoLocals == /\ call' = NoCall /\ sid' = 0 /\ er' = "none" /\ rnd' = 0
            /\ misses' = 0 /\ rev' = 0
Return(o) == Goto("join") /\ out' = o /\ NoLocals
Stay == UNCHANGED <<locals, out>>

-----------------------------------------------------------------------------
(***************************************************************************)
(* Agent.Call with a checkpoint                                            *)
(***************************************************************************)

\* handleIssue: the marker is read before it is overwritten; a failed tool
\* parks; a chain that ends in a code review goes straight to ship; an entry
\* session's opening takes a snapshot of the issue first.
Pick ==
  LET node == ResumePoint
      c == Opening(node, ResumePrompt(marker))
  IN /\ at = "off" /\ label = "none" /\ runs < MaxRuns
     /\ runs' = runs + 1
     /\ label' = "wip" /\ marker' = "wip"
     /\ \/ Return("park") /\ UNCHANGED <<kind, snap>>
        \/ /\ node.stage = "codereview"
           /\ Goto("ship") /\ kind' = node.kind
           /\ Stay /\ UNCHANGED snap
        \/ /\ node.stage # "codereview"
           /\ Spawn(c)
           /\ snap' = IF c.stage \in EntryLike THEN text ELSE snap
           /\ UNCHANGED <<sid, er, rnd, misses, rev, kind, out>>
     /\ UNCHANGED <<text, lists, have, lineage, round, reviewed, held, uat, ids,
                    mishaps, history>>

\* The CLI ends before it named its session.  A plan or execute session that
\* cannot be resumed is run afresh from its artifact; anything else parks.
Dies ==
  /\ at = "spawn"
  /\ IF /\ call.stage \in {"plan", "execute"} /\ call.resume # 0
        /\ Artifact(call.stage) \in have
     THEN /\ Spawn(Call(call.stage, 0, "full"))
          /\ UNCHANGED <<sid, er, rnd, misses, rev, out>>
     ELSE Return("park")
  /\ UNCHANGED <<github, have, disk, kind, held, uat, bounds, history>>

\* The session names itself, and recordChainNode writes it down unless it
\* already is the head.  A resumed session may go on under a new id.
Streams ==
  /\ at = "spawn"
  /\ \E i \in ({call.resume} \ {0}) \cup {ids + 1} :
       LET node == Node(i, call.stage, CheckpointKind(call.stage))
       IN /\ i <= MaxSessions
          /\ IF call.resume \in {0, i} THEN UNCHANGED mishaps
             ELSE mishaps < MaxMishaps /\ mishaps' = mishaps + 1
          /\ sid' = i
          /\ ids' = IF i > ids THEN i ELSE ids
          /\ chain' = IF HeadNode.id = i /\ HeadNode.stage = call.stage
                      THEN chain ELSE Append(chain, node)
          /\ file' = [id |-> i, stage |-> call.stage, kind |-> node.kind,
                      pre |-> FALSE]
  /\ Goto("turn")
  /\ reached' = IF call.stage = "codereview" THEN 4 ELSE reached
  /\ told' = IF call.stage \in EntryLike /\ call.prompt \in {"full", "diff"}
             THEN text ELSE told
  /\ UNCHANGED <<github, have, marker, snap, round, reviewed, call, er, rnd,
                 misses, kind, held, out, rev, uat, runs, finished>>

\* External: the session commits a spec, a plan or code while it works.
Commits ==
  /\ at = "turn"
  /\ \E f \in CASE call.stage \in EntryLike -> {"spec", "commits"}
                [] call.stage = "plan" -> {"plan"}
                [] OTHER -> {"commits"} :
       have' = have \cup {f, "commits"}
  /\ UNCHANGED <<github, disk, at, memory, uat, bounds, history>>

\* The call fails after the session was named, or answers off its contract, or
\* says it is incomplete; a review whose push fails ends the same way.
TurnFails ==
  /\ at = "turn"
  /\ Return("park")
  /\ UNCHANGED <<github, have, disk, kind, held, uat, bounds, history>>

-----------------------------------------------------------------------------
(***************************************************************************)
(* The entry session: openEntry, entryLoop, afterFix                       *)
(***************************************************************************)

\* An entry turn answers; the opening one passes the confidence gate or the
\* run ends asking the human.
EntryAnswers ==
  /\ at = "turn" /\ call.stage \in EntryLike
  /\ \/ rnd = 0 /\ Return("needsInfo")
     \/ /\ er' \in {"fix", "spec", "done", "question"}
        /\ Goto("loop")
        /\ UNCHANGED <<call, sid, rnd, misses, rev, out>>
  /\ UNCHANGED <<github, have, disk, kind, held, uat, bounds, history>>

\* The session entryLoop was entered with: every round resumes that one, also
\* when its answers come from forks of it.
Entered == IF rnd = 0 THEN sid ELSE call.resume

\* Mutant: the budget of rounds is not looked at.
RoundUnbounded ==
  /\ Spawn(Call("entry", Entered, "reply"))
  /\ misses' = IF er = "spec" THEN misses + 1 ELSE 0
  /\ er' = "none"
  /\ UNCHANGED <<sid, rnd, rev, out>>

\* The session is sent a reply, unless the rounds are used up.
NextRound ==
  \/ /\ rnd < MaxQARounds
     /\ rnd' = rnd + 1
     /\ Spawn(Call("entry", Entered, "reply"))
     /\ misses' = IF er = "spec" THEN misses + 1 ELSE 0
     /\ er' = "none"
     /\ UNCHANGED <<sid, rev, out>>
  \/ rnd >= MaxQARounds /\ Return("park")

\* The budget of rounds, and the answerer or done-confirm call, which may fail.
Reply == NextRound \/ Return("park")

\* entryLoop: a spec on disk or a fix is a verdict; a claim of being done is
\* put to the product owner; a second spec not found (one that is on disk may be
\* older than the run and misnamed) ends the run.
Loop ==
  /\ at = "loop"
  /\ \/ /\ er = "fix" \/ (er = "spec" /\ "spec" \in have)
        /\ kind' = IF er = "fix" THEN "bug" ELSE "feature"
        /\ Goto("stamp")
        /\ Stay
     \/ /\ er = "spec"
        /\ IF misses > 0 THEN Return("park") ELSE Reply
        /\ UNCHANGED kind
     \/ /\ er \in {"done", "question"}
        /\ \/ Reply
           \/ er = "done" /\ Return("alreadyDone")
        /\ UNCHANGED kind
  /\ UNCHANGED <<github, have, disk, held, uat, bounds, history>>

\* SetHeadKind rewrites the file: it is emptied first and then written.
Truncate ==
  /\ at = "stamp"
  /\ held' = [chain EXCEPT ![Len(chain)].kind = kind]
  /\ chain' = <<>>
  /\ Goto("rewrite")
  /\ Stay
  /\ UNCHANGED <<github, have, file, marker, snap, round, reviewed, kind, uat,
                 bounds, history>>

Rewrite ==
  LET head == held[Len(held)]
  IN /\ at = "rewrite"
     /\ chain' = held
     /\ file' = [id |-> head.id, stage |-> head.stage, kind |-> kind, pre |-> FALSE]
     /\ held' = <<>>
     /\ Goto(IF kind = "feature" THEN "specDone" ELSE "fixed")
     /\ Stay
     /\ UNCHANGED <<github, have, marker, snap, round, reviewed, kind, uat, bounds,
                    history>>

\* afterFix: the gate again on a later turn's score, the count of commits (which
\* fails open), then the checklist.
AfterFix ==
  /\ at = "fixed"
  /\ \/ /\ rnd > 0 \/ "commits" \notin have
        /\ Return("needsInfo")
        /\ UNCHANGED uat
     \/ /\ Return("ship")
        /\ uat' = IF UatOn THEN "check" ELSE "off"
  /\ kind' = ""
  /\ UNCHANGED <<github, have, disk, held, bounds, reached, finished, told>>

-----------------------------------------------------------------------------
(***************************************************************************)
(* Plan and execute                                                        *)
(***************************************************************************)

\* Mutant: no pending node is written.
CheckpointNothing(stage) ==
  UNCHANGED chain /\ reached' = Rank(stage) /\ finished' = finished \cup {sid}

\* Mutant: the pending node carries the session that has just completed.
CheckpointPrevious(stage) ==
  /\ chain' = Append(chain, Node(sid, stage, "feature"))
  /\ reached' = Rank(stage)
  /\ finished' = finished \cup {sid}

\* CheckpointStage: a node without an id, so that a crash before the stage's
\* session is named runs the stage, and never resumes the completed session.
CheckpointStage(stage) ==
  /\ chain' = Append(chain, Node(0, stage, "feature"))
  /\ reached' = Rank(stage)
  /\ finished' = finished \cup {sid}

\* The spec is there: the plan stage is pending, and UAT starts beside it.
SpecDone ==
  /\ at = "specDone"
  /\ CheckpointStage("plan")
  /\ uat' = IF UatOn THEN "check" ELSE "off"
  /\ Spawn(Call("plan", 0, "full"))
  /\ sid' = 0 /\ er' = "none" /\ rnd' = 0 /\ misses' = 0 /\ kind' = ""
  /\ UNCHANGED <<github, have, file, marker, snap, round, reviewed, rev, held, out,
                 bounds, told>>

\* A plan session is ready only with its plan on disk.
PlanAnswers ==
  /\ at = "turn" /\ call.stage = "plan"
  /\ "plan" \in have
  /\ Goto("planDone")
  /\ UNCHANGED <<github, have, disk, memory, uat, bounds, history>>

PlanDone ==
  /\ at = "planDone"
  /\ CheckpointStage("execute")
  /\ Spawn(Call("execute", 0, "full"))
  /\ sid' = 0
  /\ UNCHANGED <<github, have, file, marker, snap, round, reviewed, er, rnd, misses,
                 rev, kind, held, out, uat, bounds, told>>

\* checkExecuteResult: complete.
ExecuteAnswers ==
  /\ at = "turn" /\ call.stage = "execute"
  /\ Return("ship")
  /\ UNCHANGED <<github, have, disk, kind, held, uat, bounds, reached, finished,
                 told>>

-----------------------------------------------------------------------------
(***************************************************************************)
(* The acceptance checklist: a goroutine of its own beside plan and        *)
(* execute, a plain call after a fix; its failures are swallowed.          *)
(***************************************************************************)

\* What a step of the UAT session leaves alone.
BesideUat == UNCHANGED <<label, text, have, disk, at, memory, bounds, history>>

\* Mutant: a session is spent without a look at the issue.
UatUnchecked ==
  /\ uat = "check"
  /\ uat' \in {"off", "post"}
  /\ UNCHANGED lists /\ BesideUat

\* UATSurfaces and the session: a failed fetch, a checklist already there, or a
\* session without one ends the step.
UatCheck ==
  /\ uat = "check"
  /\ uat' \in IF lists > 0 THEN {"off"} ELSE {"off", "post"}
  /\ UNCHANGED lists /\ BesideUat

\* A comment that seems to fail may have landed; it is not sent again.
UatPost ==
  /\ uat = "post"
  /\ uat' = "off"
  /\ lists' \in {lists, lists + 1}
  /\ BesideUat

UatStep == UatCheck \/ UatPost

\* Mutant: nobody waits for the UAT session.
JoinAtOnce ==
  /\ at = "join"
  /\ Goto(IF out = "ship" THEN "ship" ELSE "finish")
  /\ kind' = IF out = "ship" THEN ResolvedKind ELSE kind
  /\ Stay /\ UNCHANGED <<github, have, disk, held, uat, bounds, history>>

\* Every way out of the pipeline waits for the UAT session; then handleIssue
\* looks at the verdict.
Join ==
  /\ at = "join" /\ uat = "off"
  /\ Goto(IF out = "ship" THEN "ship" ELSE "finish")
  /\ kind' = IF out = "ship" THEN ResolvedKind ELSE kind
  /\ Stay /\ UNCHANGED <<github, have, disk, held, uat, bounds, history>>

-----------------------------------------------------------------------------
(***************************************************************************)
(* Ship and the post-ship code review                                      *)
(***************************************************************************)

\* ship up to the pull request, whose failures park.
Ship ==
  /\ at = "ship"
  /\ \/ Return("park")
     \/ "commits" \in have /\ Goto("review") /\ Stay
  /\ UNCHANGED <<github, have, disk, kind, held, uat, bounds, history>>

\* The review session to go on with: the head, unless it completed a round.
CutShort == IF HeadNode.stage = "codereview" /\ HeadNode.id # round.id
            THEN HeadNode.id ELSE 0
ReviewOver == reviewed \/ round.n >= Rounds

\* CodeReview.Run: off or over, or the pull request is not found, or the round
\* after the last complete one begins.
Review ==
  /\ at = "review"
  /\ \/ ReviewOver /\ Return("shipped")
     \/ /\ ~ReviewOver
        /\ \/ Return("park")
           \/ /\ Spawn(Call("codereview", CutShort,
                            IF CutShort = 0 THEN "full" ELSE "continue"))
              /\ rev' = round.n + 1
              /\ UNCHANGED <<sid, er, rnd, misses, out>>
  /\ UNCHANGED <<github, have, disk, kind, held, uat, bounds, history>>

\* A round has answered, its commits are pushed: "fixed", or clean or blocked.
ReviewAnswers ==
  /\ at = "turn" /\ call.stage = "codereview"
  /\ er' \in {"fixed", "over"}
  /\ Goto("record")
  /\ UNCHANGED <<github, have, disk, call, sid, rnd, misses, kind, held, out, rev,
                 uat, bounds, history>>

\* Mutant: the round in progress is recorded as the last complete one was.
RecordSameRound ==
  /\ at = "record"
  /\ round' = [n |-> round.n, id |-> sid]
  /\ finished' = finished \cup {sid}
  /\ er' = "none" /\ sid' = 0
  /\ IF er = "over" \/ rev = Rounds
     THEN Goto("reviewed") /\ UNCHANGED <<call, rev>>
     ELSE Spawn(Call("codereview", 0, "full")) /\ rev' = rev + 1
  /\ UNCHANGED <<github, have, lineage, marker, snap, reviewed, rnd, misses, kind,
                 held, out, uat, bounds, reached, told>>

\* recordCodeReviewRound; another round begins with a session of its own.
RecordRound ==
  /\ at = "record"
  /\ round' = [n |-> rev, id |-> sid]
  /\ finished' = finished \cup {sid}
  /\ er' = "none" /\ sid' = 0
  /\ IF er = "over" \/ rev = Rounds
     THEN Goto("reviewed") /\ UNCHANGED <<call, rev>>
     ELSE Spawn(Call("codereview", 0, "full")) /\ rev' = rev + 1
  /\ UNCHANGED <<github, have, lineage, marker, snap, reviewed, rnd, misses, kind,
                 held, out, uat, bounds, reached, told>>

\* The codereview-done marker.
RecordReviewed ==
  /\ at = "reviewed"
  /\ reviewed' = TRUE
  /\ Return("shipped")
  /\ UNCHANGED <<github, have, lineage, marker, snap, round, kind, held, uat, bounds,
                 history>>

-----------------------------------------------------------------------------
(***************************************************************************)
(* The end of a run, the human, crashes                                    *)
(***************************************************************************)

\* What a process has in memory before a run begins.
Forget == NoLocals /\ kind' = "" /\ held' = <<>> /\ out' = "none"

Outcome == CASE out = "park" -> "rework" [] out = "needsInfo" -> "needsInfo"
             [] OTHER -> "done"

\* The outcome's label swap and marker (Orchestrator has them step by step); a
\* swap that fails leaves wip, and only a park records its marker all the same.
Finish ==
  /\ at = "finish"
  /\ Goto("off")
  /\ \/ label' = Outcome /\ marker' = Outcome
     \/ UNCHANGED label /\ marker' = IF out = "park" THEN "rework" ELSE marker
  /\ Forget
  /\ UNCHANGED <<text, lists, have, lineage, snap, round, reviewed, uat, bounds,
                 history>>

\* External: a human takes the label off, after writing on the issue or not.
Requeue ==
  /\ label \in {"rework", "needsInfo"}
  /\ label' = "none"
  /\ text' \in {text, text + 1} \cap 1..MaxText
  /\ UNCHANGED <<lists, have, disk, at, memory, uat, bounds, history>>

\* External: the worktree is deleted between two runs; the next Create starts the
\* branch again.
Vanish ==
  /\ at = "off" /\ have # {}
  /\ mishaps < MaxMishaps /\ mishaps' = mishaps + 1
  /\ have' = {}
  /\ reached' = 0
  /\ UNCHANGED <<github, disk, at, memory, uat, ids, runs, finished, told>>

Crash ==
  /\ at # "down"
  /\ mishaps < MaxMishaps /\ mishaps' = mishaps + 1
  /\ Goto("down")
  /\ uat' = "off"
  /\ Forget
  /\ UNCHANGED <<github, have, disk, ids, runs, history>>

\* A new daemon, whose sweep takes wip off and clears the marker.
Recover ==
  /\ at = "down"
  /\ Goto("off")
  /\ IF label = "wip" THEN label' = "none" /\ marker' = "none"
                      ELSE UNCHANGED <<label, marker>>
  /\ UNCHANGED <<text, lists, have, lineage, snap, round, reviewed, memory, uat,
                 bounds, history>>

-----------------------------------------------------------------------------

NoFile == [id |-> 0, stage |-> "none", kind |-> "", pre |-> FALSE]

\* A new issue, or one from before the merged entry stage: a chain that ends in a
\* brainstorm or debug session, or only a session file, whose pre-call form goes
\* with the spec it names.  Or one in review whose round marker is only a number.
Init ==
  /\ label = "none" /\ text = 1 /\ lists = 0
  /\ \/ chain = <<>> /\ file = NoFile /\ have = {} /\ ids = 0
     \/ \E s \in {"brainstorm", "debug"} :
          LET k == IF s = "debug" THEN "bug" ELSE "feature"
          IN /\ chain = IF s = "debug" THEN <<>> ELSE <<Node(1, s, k)>>
             /\ file = [id |-> 1, stage |-> s, kind |-> k, pre |-> FALSE]
             /\ have = {} /\ ids = 1
     \/ /\ chain = <<>> /\ ids = 1
        /\ file = [id |-> 1, stage |-> "plan", kind |-> "feature", pre |-> TRUE]
        /\ have = {"spec", "commits"}
     \/ \E k \in {"bug", "feature"} :
          /\ chain = <<Node(1, "codereview", k)>> /\ ids = 1
          /\ file = [id |-> 1, stage |-> "codereview", kind |-> k, pre |-> FALSE]
          /\ have = {"commits"}
  /\ IF HeadNode.stage = "codereview"
     THEN round = [n |-> 1, id |-> 0] /\ reached = 4
     ELSE round = [n |-> 0, id |-> 0] /\ reached = 0
  /\ marker = "none" /\ snap = 0
  /\ reviewed = FALSE
  /\ at = "off" /\ call = NoCall /\ sid = 0 /\ er = "none" /\ rnd = 0
  /\ misses = 0 /\ kind = "" /\ held = <<>> /\ out = "none" /\ rev = 0
  /\ uat = "off" /\ runs = 0 /\ mishaps = 0
  /\ finished = {} /\ told = IF ids = 0 THEN 0 ELSE 1

\* What the goroutine of a run does.
RunStep ==
  \/ Dies \/ Streams \/ TurnFails \/ EntryAnswers \/ Loop \/ Truncate \/ Rewrite
  \/ AfterFix \/ SpecDone \/ PlanAnswers \/ PlanDone \/ ExecuteAnswers
  \/ Join \/ Ship \/ Review \/ ReviewAnswers \/ RecordRound \/ RecordReviewed
  \/ Finish

Next ==
  \/ RunStep \/ UatStep \/ Pick \/ Commits
  \/ Requeue \/ Vanish \/ Crash \/ Recover

Spec == Init /\ [][Next]_vars

\* A call of an agent ends, by its result, its limits or a cancellation; the
\* goroutines run.  Picks, people and crashes owe nothing.
FairSpec == Spec /\ WF_vars(RunStep) /\ WF_vars(UatStep)

-----------------------------------------------------------------------------
(***************************************************************************)
(* Properties                                                              *)
(***************************************************************************)

\* A call begins (or begins again) in this step.
Spawned == at' = "spawn" /\ (at # "spawn" \/ call' # call)

\* A re-entry past the spec does not design again, past the plan does not plan
\* again, and a run whose review began only goes on with the review, whatever
\* crashed or failed in between (the pending nodes and ResumePoint), unless the
\* worktree with the artifacts is gone.
NoStageAgain == [][Spawned => Rank(call'.stage) >= reached]_vars

\* A session whose stage or review round was recorded as complete is never
\* resumed (pending nodes carry no id; the round marker names its session).
CompleteStaysClosed == [][Spawned => call'.resume \notin finished \/ call'.resume = 0]_vars

\* Review rounds are recorded one after the other and within their number, and
\* once the review has ended no session is spent on it (codereview-round,
\* codereview-done).
ReviewProgress ==
  [][/\ round'.n # round.n => round'.n = round.n + 1 /\ round'.n <= Rounds
     /\ Spawned /\ call'.stage = "codereview" => ~reviewed /\ rev' = round'.n + 1]_vars

\* An issue gets one acceptance checklist, however often its runs fail, crash and
\* begin again (the check before the session).
OneChecklist == lists <= 1

\* The UAT session never outlives the pipeline beside which it began (the wait on
\* every exit of entryLoop).
UatInsidePipeline ==
  uat # "off" => at \in {"spawn", "turn", "planDone", "join"}

\* Every run ends, and its Q&A rounds do (MaxQARounds, the second missing spec).
RunEnds == at \notin {"off", "down"} ~> at \in {"off", "down"}
=============================================================================
