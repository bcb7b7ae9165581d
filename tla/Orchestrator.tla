--------------------------- MODULE Orchestrator ---------------------------
(***************************************************************************)
(* The daemon's core: the poll loop (worker/engine/runloop.go), the slot   *)
(* ledger (slots.go), the per-issue goroutines it starts (loop.go and      *)
(* pipeline_mergeresolve.go) and the dashboard's Stop and Continue, over   *)
(* the GitHub labels that are the system's only durable queue.             *)
(*                                                                         *)
(* A step is one GitHub call, one critical section of Orchestrator.mu or   *)
(* one write of a state marker, so that every other goroutine, the human   *)
(* and a crash may come in between.  What the model leaves out of every    *)
(* handler: comments, titles, log lines and the park-cause file, which     *)
(* nothing in the program reads back; the eligible label, which every      *)
(* issue here wears; the inside of a pipeline, of a code review and of a   *)
(* merge, of which only the result is kept.                                *)
(***************************************************************************)
EXTENDS Integers, FiniteSets

CONSTANTS Issues,      \* issue numbers; a smaller number is an older issue
          Runs,        \* goroutines of runGuarded
          NoRun,       \* absence of a goroutine
          TicketsPerCycle,
          MergeOn,     \* mergeResolveLabel is configured
          Acts,        \* bound: what a human does, of "stop", "continue",
                       \* "requeue" and "merge"
          MaxFaults,   \* bound: GitHub or git calls that fail for good
          MaxClicks,   \* bound: things a human does
          MaxStops     \* bound: crashes and shutdowns of the daemon

ASSUME ConstantsAssumption ==
  /\ Issues \subseteq Nat \ {0}
  /\ IsFiniteSet(Issues)
  /\ NoRun \notin Runs
  /\ TicketsPerCycle \in Int
  /\ MergeOn \in BOOLEAN
  /\ Acts \subseteq {"stop", "continue", "requeue", "merge"}
  /\ MaxFaults \in Nat
  /\ MaxClicks \in Nat
  /\ MaxStops \in Nat

None == "none"
State == {"wip", "rework", "needsInfo", "stopped", "done"}
Label == State \cup {"merge"}

VARIABLES
  labels,     \* GitHub: the labels an issue wears
  closed,     \* GitHub: the closed issues
  marker,     \* disk: <logDir>/state
  mergePrior, \* disk: <logDir>/mergeresolve-prior
  worktree,   \* disk: issues with a worktree
  review,     \* disk: issues whose session chain ends in a code review
  active,     \* Orchestrator.active
  inFlight,   \* Orchestrator.inFlight, the WaitGroup's counter
  cancels,    \* Orchestrator.cancels
  stopping,   \* Orchestrator.stopping
  pc,         \* where each goroutine is; "idle" when it does not exist
  issue,      \* the issue a goroutine works on, 0 when it does not exist
  kind,       \* "pipeline" or "merge"
  prior,      \* handleMergeResolve's local variable prior
  out,        \* the outcome a goroutine is carrying out
  cancelled,  \* goroutines whose own context Stop cancelled
  lpc,        \* where RunLoop is
  sweep,      \* RunLoop's parameter sweep: the orphan sweep is still due
  todo,       \* the issues a stage of the loop has yet to handle
  seen,       \* the state label each issue wore in the merge listing
  free,       \* ProcessOnce's local variable free
  cont,       \* where the Continue request for an issue is
  shutdown,   \* the daemon's context is cancelled
  faults, clicks, stops, \* what is left of the bounds
  heard,      \* history: goroutines a Stop reached while at work
  worn,       \* history: the state labels an issue wore before a merge run that
              \* is unfinished, without those a human has taken off since
  astray      \* history: issues whose recorded prior label went out of date

github == <<labels, closed>>
disk == <<marker, mergePrior, worktree, review>>
ledger == <<active, inFlight, cancels, stopping>>
locals == <<issue, kind, prior>>
loop == <<lpc, sweep, todo, seen, free>>
env == <<cont, shutdown, clicks, stops>>
past == <<worn, astray>>
vars == <<github, disk, ledger, pc, locals, out, cancelled, loop, env, faults,
          heard, past>>

(***************************************************************************)
(* Helpers                                                                 *)
(***************************************************************************)

Slots == IF TicketsPerCycle < 1 THEN 1 ELSE TicketsPerCycle

FreeSlots == IF Cardinality(active) >= Slots THEN 0
             ELSE Slots - Cardinality(active)

\* StateLabels.Current: the first state label in the order of StateLabels.All.
Current(ls) == IF "wip" \in ls THEN "wip"
               ELSE IF "rework" \in ls THEN "rework"
               ELSE IF "needsInfo" \in ls THEN "needsInfo"
               ELSE IF "stopped" \in ls THEN "stopped"
               ELSE IF "done" \in ls THEN "done" ELSE None

\* Mutant: the budget is one short.
SelectOneLess(S, limit) == {i \in S : Cardinality({j \in S : j < i}) < limit - 1}

\* The issues with a position below limit in S, oldest first.
SelectIssues(S, limit) == {i \in S : Cardinality({j \in S : j < i}) < limit}

Oldest(i, S) == i \in S /\ \A j \in S : i <= j
Newest(i, S) == i \in S /\ \A j \in S : j <= i

Live(r) == pc[r] # "idle"
Up == lpc \notin {"down", "exited"}
Done(r) == shutdown \/ r \in cancelled
BailOnCancel(r) == issue[r] \in stopping \/ Done(r)

Goto(r, l) == pc' = [pc EXCEPT ![r] = l]

\* One `gh issue edit`: labels is a set, so taking off an absent label works.
Edit(i, remove, add) ==
  labels' = [labels EXCEPT ![i] = (@ \ remove) \cup add]

\* A call succeeds only under a live context (done: the context is cancelled).
Succeeds(done) == ~done /\ UNCHANGED faults

\* A call under a cancelled context is refused; under a live one it fails when
\* the retries run out, and then the edit may have landed all the same.
Fails(done) ==
  IF done THEN UNCHANGED faults ELSE faults > 0 /\ faults' = faults - 1
EditFails(done, i, remove, add) ==
  /\ Fails(done)
  /\ \/ UNCHANGED labels
     \/ ~done /\ Edit(i, remove, add)

-----------------------------------------------------------------------------
(***************************************************************************)
(* The goroutine of runGuarded: start, the handler fn, the deferred         *)
(* handler, clearCancel, release.                                          *)
(***************************************************************************)

\* What every step of a goroutine before its release leaves alone.
Elsewhere == UNCHANGED <<active, inFlight, cancelled, loop, env>>

\* The label an outcome puts in place of wip.
OutLabel(o) == CASE o \in {"shipped", "alreadyDone"} -> "done"
                 [] o \in {"park", "panic"} -> "rework"
                 [] o = "needsInfo" -> "needsInfo"
                 [] o = "stopped" -> "stopped"

\* What goroutine r puts in place of wip, as a set.
Target(r) == IF out[r] = "restore" THEN {prior[r]} \ {None}
             ELSE {OutLabel(out[r])}

\* Outcome o begins with the label swap, or, when a merge run parks or
\* restores, with the trigger label.
Conclude(r, o) ==
  /\ out' = [out EXCEPT ![r] = o]
  /\ Goto(r, IF kind[r] = "merge" /\ o # "stopped" THEN "strip" ELSE "swap")

\* The start of the goroutine: setCancel, and fn is called.
Start(r) ==
  /\ pc[r] = "start"
  /\ cancels' = [cancels EXCEPT ![issue[r]] = r]
  /\ Goto(r, IF kind[r] = "merge" THEN "prior" ELSE "wear")
  /\ UNCHANGED <<github, disk, stopping, locals, out, faults, heard, past>>
  /\ Elsewhere

\* handleMergeResolve up to its first GitHub call, with p the label to restore:
\* an issue listed with wip is left for the sweep, else p is recorded
\* (WriteMarker writes nothing for "").  The history notes the labels the issue
\* wears, if any, and whether the listing had shown the right one.
Settle(r, p) ==
  LET i == issue[r]
  IN /\ pc[r] = "prior"
     /\ IF prior[r] = "wip"
        THEN Goto(r, "deferred") /\ UNCHANGED <<prior, mergePrior, past>>
        ELSE /\ Goto(r, "wear")
             /\ prior' = [prior EXCEPT ![r] = p]
             /\ mergePrior' = IF p = None THEN mergePrior
                              ELSE [mergePrior EXCEPT ![i] = p]
             /\ worn' = IF labels[i] \cap State = {} THEN worn
                        ELSE [worn EXCEPT ![i] = labels[i] \cap State]
             /\ astray' = IF prior[r] # Current(labels[i]) THEN astray \cup {i}
                          ELSE IF prior[r] = None THEN astray ELSE astray \ {i}
     /\ UNCHANGED <<github, marker, worktree, review, cancels, stopping, issue,
                    kind, out, faults, heard>>
     /\ Elsewhere

\* Mutant: the prior label a crashed run recorded is not read back.
SettleWithoutMarker(r) == Settle(r, prior[r])

\* The label to restore is the one in the listing, else the one on record.
SettlePrior(r) ==
  Settle(r, IF prior[r] = None THEN mergePrior[issue[r]] ELSE prior[r])

\* AddLabel(wip), or SwapLabels(prior, wip) in a merge run that has a prior; a
\* failure ends fn, and the issue is not parked.
WearWip(r) ==
  LET remove == IF kind[r] = "merge" THEN {prior[r]} \ {None} ELSE {}
  IN /\ pc[r] = "wear"
     /\ \/ /\ Succeeds(Done(r))
           /\ Edit(issue[r], remove, {"wip"})
           /\ Goto(r, "recordWip")
        \/ /\ EditFails(Done(r), issue[r], remove, {"wip"})
           /\ Goto(r, "deferred")
     /\ UNCHANGED <<closed, disk, cancels, stopping, locals, out, heard, past>>
     /\ Elsewhere

RecordWip(r) ==
  /\ pc[r] = "recordWip"
  /\ marker' = [marker EXCEPT ![issue[r]] = "wip"]
  /\ Goto(r, IF kind[r] = "merge" THEN "merge" ELSE "prepare")
  /\ UNCHANGED <<github, mergePrior, worktree, review, cancels, stopping,
                 locals, out, faults, heard, past>>
  /\ Elsewhere

\* Worktree.Create and FetchIssueContent.  A failure is an abort, which parks
\* whatever the cause.  A chain that ends in a code review skips the pipeline.
Prepare(r) ==
  LET i == issue[r]
  IN /\ pc[r] = "prepare"
     /\ \/ /\ Succeeds(Done(r))
           /\ worktree' = worktree \cup {i}
           /\ Goto(r, IF i \in review THEN "ship" ELSE "pipeline")
           /\ UNCHANGED out
        \/ /\ Fails(Done(r))
           /\ worktree' \in {worktree, worktree \cup {i}}
           /\ Conclude(r, "park")
     /\ UNCHANGED <<github, marker, mergePrior, review, cancels, stopping,
                    locals, heard, past>>
     /\ Elsewhere

\* Mutant: the verdict of a cancelled pipeline counts.
PipelineWithoutBail(r) ==
  /\ pc[r] = "pipeline"
  /\ \/ Goto(r, "ship") /\ UNCHANGED out
     \/ \E o \in {"alreadyDone", "needsInfo", "park"} : Conclude(r, o)
  /\ UNCHANGED <<github, disk, cancels, stopping, locals, faults, heard, past>>
  /\ Elsewhere

\* RunPipeline or ResumePipeline returns, and handleIssue looks for a
\* cancellation before it looks at the verdict; or the pipeline panics.
Pipeline(r) ==
  /\ pc[r] = "pipeline"
  /\ \/ Goto(r, "panicked") /\ UNCHANGED out
     \/ /\ BailOnCancel(r)
        /\ Goto(r, "deferred")
        /\ UNCHANGED out
     \/ /\ ~BailOnCancel(r)
        /\ \/ Goto(r, "ship") /\ UNCHANGED out
           \/ \E o \in {"alreadyDone", "needsInfo", "park"} : Conclude(r, o)
  /\ UNCHANGED <<github, disk, cancels, stopping, locals, faults, heard, past>>
  /\ Elsewhere

\* ship up to the pull request.  Its failures (no commits, push, CreatePR) park
\* unless the run was cancelled.
Ship(r) ==
  /\ pc[r] = "ship"
  /\ IF BailOnCancel(r)
     THEN Goto(r, "deferred") /\ UNCHANGED out
     ELSE \/ Goto(r, "review") /\ UNCHANGED out
          \/ Conclude(r, "park")
  /\ UNCHANGED <<github, disk, cancels, stopping, locals, faults, heard, past>>
  /\ Elsewhere

\* The post-ship code review, which may be off: it passes, fails or panics,
\* and it may have recorded its session.
Review(r) ==
  /\ pc[r] = "review"
  /\ review' \in {review, review \cup {issue[r]}}
  /\ \/ Conclude(r, "shipped")
     \/ IF BailOnCancel(r) THEN Goto(r, "deferred") /\ UNCHANGED out
                           ELSE Conclude(r, "park")
     \/ Goto(r, "panicked") /\ UNCHANGED out
  /\ UNCHANGED <<github, marker, mergePrior, worktree, cancels, stopping,
                 locals, faults, heard, past>>
  /\ Elsewhere

\* RunMergeResolve returns; only a Stop, not a shutdown, is looked for before
\* the outcome.  Without a worktree the run parks at once.
Merge(r) ==
  /\ pc[r] = "merge"
  /\ \/ Goto(r, "panicked") /\ UNCHANGED out
     \/ issue[r] \notin worktree /\ Conclude(r, "park")
     \/ /\ issue[r] \in worktree
        /\ IF issue[r] \in stopping
           THEN Goto(r, "deferred") /\ UNCHANGED out
           ELSE \/ Goto(r, "push") /\ UNCHANGED out
                \/ Conclude(r, "park")
  /\ UNCHANGED <<github, disk, cancels, stopping, locals, faults, heard, past>>
  /\ Elsewhere

\* The push of the merge; any failure parks.
Push(r) ==
  /\ pc[r] = "push"
  /\ \/ Succeeds(Done(r)) /\ Conclude(r, "restore")
     \/ Fails(Done(r)) /\ Conclude(r, "park")
  /\ UNCHANGED <<github, disk, cancels, stopping, locals, heard, past>>
  /\ Elsewhere

\* A merge run takes off the trigger label first, under a context that cannot
\* be cancelled; finishMergeResolve gives up on failure, parkMergeResolve goes on.
StripTrigger(r) ==
  /\ pc[r] = "strip"
  /\ \/ /\ Succeeds(FALSE)
        /\ Edit(issue[r], {"merge"}, {})
        /\ Goto(r, "swap")
     \/ /\ EditFails(FALSE, issue[r], {"merge"}, {})
        /\ Goto(r, IF out[r] = "restore" THEN "deferred" ELSE "swap")
  /\ UNCHANGED <<closed, disk, cancels, stopping, locals, out, heard, past>>
  /\ Elsewhere

\* The deferred handler itself calls park (on a panic) and pause.
FromDeferred(o) == o \in {"panic", "stopped"}

\* The context of an outcome's swap: ship's is the run's own, pause's is the
\* daemon's, every other one cannot be cancelled.
SwapDone(r) == CASE out[r] = "shipped" -> Done(r)
                 [] out[r] = "stopped" -> shutdown
                 [] OTHER -> FALSE

\* Mutant: pause records ai-stopped though its swap failed.
SwapThenAlwaysRecord(r) ==
  LET i == issue[r]
  IN /\ pc[r] = "swap"
     /\ \/ Succeeds(SwapDone(r)) /\ Edit(i, {"wip"}, Target(r))
        \/ EditFails(SwapDone(r), i, {"wip"}, Target(r))
     /\ Goto(r, "record")
     /\ UNCHANGED <<closed, disk, cancels, stopping, locals, out, heard, past>>
     /\ Elsewhere

\* The outcome's SwapLabels(wip, ...).  park and parkMergeResolve ignore a
\* failure, the others then record nothing.
SwapOutcome(r) ==
  LET i == issue[r]
  IN /\ pc[r] = "swap"
     /\ \/ /\ Succeeds(SwapDone(r))
           /\ Edit(i, {"wip"}, Target(r))
           /\ Goto(r, "record")
        \/ /\ EditFails(SwapDone(r), i, {"wip"}, Target(r))
           /\ Goto(r, CASE out[r] \in {"park", "panic"} -> "record"
                        [] out[r] = "stopped" -> "unwind"
                        [] OTHER -> "deferred")
     /\ UNCHANGED <<closed, disk, cancels, stopping, locals, out, heard, past>>
     /\ Elsewhere

\* RecordState (ClearState when nothing is restored); a merge run that parks
\* or restores also forgets its prior label.
RecordOutcome(r) ==
  LET i == issue[r]
  IN /\ pc[r] = "record"
     /\ marker' = [marker EXCEPT ![i] = IF out[r] = "restore" THEN prior[r]
                                        ELSE OutLabel(out[r])]
     /\ IF kind[r] = "merge" /\ out[r] # "stopped"
        THEN /\ mergePrior' = [mergePrior EXCEPT ![i] = None]
             /\ worn' = [worn EXCEPT ![i] = {}]
             /\ astray' = astray \ {i}
        ELSE UNCHANGED <<mergePrior, past>>
     /\ Goto(r, CASE out[r] = "alreadyDone" -> "close"
                  [] FromDeferred(out[r]) -> "unwind"
                  [] OTHER -> "deferred")
     /\ UNCHANGED <<github, worktree, review, cancels, stopping, locals, out,
                    faults, heard>>
     /\ Elsewhere

CloseIssue(r) ==
  /\ pc[r] = "close"
  /\ \/ Succeeds(FALSE) /\ closed' = closed \cup {issue[r]}
     \/ Fails(FALSE) /\ closed' \in {closed, closed \cup {issue[r]}}
  /\ Goto(r, "deferred")
  /\ UNCHANGED <<labels, disk, cancels, stopping, locals, out, heard, past>>
  /\ Elsewhere

\* The deferred handler after a panic: consumeStopping, then onPanic parks.
Panicked(r) ==
  /\ pc[r] = "panicked"
  /\ stopping' = stopping \ {issue[r]}
  /\ Conclude(r, "panic")
  /\ UNCHANGED <<github, disk, cancels, locals, faults, heard, past>>
  /\ Elsewhere

\* Mutant: the flag is consumed and the issue is not paused.
DeferredWithoutPause(r) ==
  /\ pc[r] = "deferred"
  /\ stopping' = stopping \ {issue[r]}
  /\ Goto(r, "unwind")
  /\ UNCHANGED <<github, disk, cancels, locals, out, faults, heard, past>>
  /\ Elsewhere

\* The deferred handler otherwise: consumeStopping decides whether to pause.
Deferred(r) ==
  /\ pc[r] = "deferred"
  /\ IF issue[r] \in stopping
     THEN /\ stopping' = stopping \ {issue[r]}
          /\ Conclude(r, "stopped")
     ELSE Goto(r, "unwind") /\ UNCHANGED <<stopping, out>>
  /\ UNCHANGED <<github, disk, cancels, locals, faults, heard, past>>
  /\ Elsewhere

ClearCancel(r) ==
  /\ pc[r] = "unwind"
  /\ cancels' = [cancels EXCEPT ![issue[r]] = NoRun]
  /\ Goto(r, "release")
  /\ UNCHANGED <<github, disk, stopping, locals, out, faults, heard, past>>
  /\ Elsewhere

\* Mutant: the wait group is never told of the end.
CountNever == UNCHANGED inFlight

\* inFlight.Done
CountDown == inFlight' = inFlight - 1

\* cancel and release; the goroutine is gone (its locals are reset).  Done comes
\* after the critical section; only Wait could see what lies between the two.
Release(r) ==
  /\ pc[r] = "release"
  /\ active' = active \ {issue[r]}
  /\ CountDown
  /\ Goto(r, "idle")
  /\ cancelled' = cancelled \ {r}
  /\ issue' = [issue EXCEPT ![r] = 0]
  /\ kind' = [kind EXCEPT ![r] = None]
  /\ prior' = [prior EXCEPT ![r] = None]
  /\ out' = [out EXCEPT ![r] = None]
  /\ heard' = heard \ {r}
  /\ UNCHANGED <<github, disk, cancels, stopping, loop, env, faults, past>>

RunStep(r) ==
  \/ Start(r) \/ SettlePrior(r) \/ WearWip(r) \/ RecordWip(r) \/ Prepare(r)
  \/ Pipeline(r) \/ Ship(r) \/ Review(r) \/ Merge(r) \/ Push(r)
  \/ StripTrigger(r) \/ SwapOutcome(r) \/ RecordOutcome(r) \/ CloseIssue(r)
  \/ Panicked(r) \/ Deferred(r) \/ ClearCancel(r) \/ Release(r)

-----------------------------------------------------------------------------
(***************************************************************************)
(* RunLoop: the orphan sweep while it is due, the merge-resolve scan, the  *)
(* pipeline cycle, the wait.  The listings are made under the daemon's     *)
(* context, and a stage that fails just ends.                              *)
(***************************************************************************)

\* What every step of the loop leaves alone; a launch is the exception.
OutsideLoop == UNCHANGED <<closed, mergePrior, worktree, review, cancels,
                           stopping, out, cancelled, env, heard, past>>
NoLaunch == UNCHANGED <<active, inFlight, pc, locals>>

\* A listing has answered: the loop goes to next with the issues S it shows.
Listed(next, S) == lpc' = next /\ todo' = S /\ Succeeds(shutdown)
ListingFails(next) == lpc' = next /\ todo' = {} /\ Fails(shutdown)

SweepList ==
  /\ lpc = "sweepList"
  /\ \/ Listed("sweepFilter", {i \in Issues \ closed : "wip" \in labels[i]})
     \/ ListingFails("mergeList")
  /\ UNCHANGED <<labels, marker, sweep, seen, free>>
  /\ NoLaunch /\ OutsideLoop

\* Mutant: the sweep takes the listing as it is.
SweepFilterNothing ==
  /\ lpc = "sweepFilter"
  /\ lpc' = "sweepStrip"
  /\ UNCHANGED <<labels, marker, sweep, todo, seen, free, faults>>
  /\ NoLaunch /\ OutsideLoop

\* filterInactive, a critical section after the listing.
SweepFilter ==
  /\ lpc = "sweepFilter"
  /\ lpc' = "sweepStrip"
  /\ todo' = todo \ active
  /\ UNCHANGED <<labels, marker, sweep, seen, free, faults>>
  /\ NoLaunch /\ OutsideLoop

\* Mutant: a sweep that fails is not tried again.
SweepOnlyOnce ==
  /\ lpc = "sweepStrip"
  /\ \/ /\ todo = {} \/ Fails(shutdown)
        /\ lpc' = "mergeList"
        /\ sweep' = FALSE
        /\ todo' = {}
        /\ UNCHANGED labels /\ (todo = {} => UNCHANGED faults)
     \/ \E i \in todo : /\ Newest(i, todo)
                        /\ Succeeds(shutdown)
                        /\ Edit(i, {"wip"}, {})
                        /\ lpc' = "sweepClear"
                        /\ UNCHANGED <<todo, sweep>>
  /\ UNCHANGED <<marker, seen, free>>
  /\ NoLaunch /\ OutsideLoop

\* RemoveLabel(wip) for the next orphan (gh lists the newest first); the sweep
\* is over when none is left, and stays due when a removal fails.
SweepStrip ==
  /\ lpc = "sweepStrip"
  /\ IF todo = {}
     THEN /\ lpc' = "mergeList"
          /\ sweep' = FALSE
          /\ UNCHANGED <<labels, todo, faults>>
     ELSE \E i \in todo :
            /\ Newest(i, todo)
            /\ \/ /\ Succeeds(shutdown)
                  /\ Edit(i, {"wip"}, {})
                  /\ lpc' = "sweepClear"
                  /\ UNCHANGED todo
               \/ /\ EditFails(shutdown, i, {"wip"}, {})
                  /\ lpc' = "mergeList"
                  /\ todo' = {}
            /\ UNCHANGED sweep
  /\ UNCHANGED <<marker, seen, free>>
  /\ NoLaunch /\ OutsideLoop

SweepClear ==
  /\ lpc = "sweepClear"
  /\ \E i \in todo : /\ Newest(i, todo)
                     /\ marker' = [marker EXCEPT ![i] = None]
                     /\ todo' = todo \ {i}
  /\ lpc' = "sweepStrip"
  /\ UNCHANGED <<labels, sweep, seen, free, faults>>
  /\ NoLaunch /\ OutsideLoop

\* ProcessMergeResolves asks GitHub only when it is configured and a slot is
\* free; the listing carries each issue's labels.
MergeList ==
  /\ lpc = "mergeList"
  /\ \/ /\ MergeOn /\ FreeSlots > 0
        /\ Listed("mergeFilter",
                  {i \in Issues \ closed : "merge" \in labels[i]})
        /\ seen' = [i \in Issues |-> IF "merge" \in labels[i]
                                     THEN Current(labels[i]) ELSE None]
     \/ /\ MergeOn /\ FreeSlots > 0
        /\ ListingFails("onceFree")
        /\ UNCHANGED seen
     \/ /\ ~MergeOn \/ FreeSlots = 0
        /\ lpc' = "onceFree"
        /\ UNCHANGED <<todo, seen, faults>>
  /\ UNCHANGED <<labels, marker, sweep, free>>
  /\ NoLaunch /\ OutsideLoop

\* filterInactive, then DefaultBranch, which can fail.
MergeFilter ==
  /\ lpc = "mergeFilter"
  /\ \/ lpc' = "mergeLaunch" /\ todo' = todo \ active /\ Succeeds(shutdown)
     \/ ListingFails("onceFree")
  /\ UNCHANGED <<labels, marker, sweep, seen, free>>
  /\ NoLaunch /\ OutsideLoop

\* Mutants: the budget has one slot too many; a launch does not enter the ledger.
AcquireOneMore(i) == i \notin active /\ Cardinality(active) <= Slots
LaunchUnrecorded(i, k, p) ==
  /\ inFlight' = inFlight + 1
  /\ UNCHANGED active
  /\ \E r \in Runs : /\ ~Live(r)
                    /\ Goto(r, "start")
                    /\ issue' = [issue EXCEPT ![r] = i]
                    /\ kind' = [kind EXCEPT ![r] = k]
                    /\ prior' = [prior EXCEPT ![r] = p]

\* tryAcquire's condition, and what it and the go statement of runGuarded do.
CanAcquire(i) == i \notin active /\ Cardinality(active) < Slots
Launch(i, k, p) ==
  /\ active' = active \cup {i}
  /\ inFlight' = inFlight + 1
  /\ \E r \in Runs : /\ ~Live(r)
                    /\ Goto(r, "start")
                    /\ issue' = [issue EXCEPT ![r] = i]
                    /\ kind' = [kind EXCEPT ![r] = k]
                    /\ prior' = [prior EXCEPT ![r] = p]

\* One turn of a launching loop over todo: issue i is launched if it can be.
TryLaunch(i, k, p) ==
  /\ todo' = todo \ {i}
  /\ IF CanAcquire(i) THEN Launch(i, k, p) ELSE NoLaunch

MergeLaunch ==
  /\ lpc = "mergeLaunch"
  /\ IF todo = {}
     THEN /\ lpc' = "onceFree"
          /\ UNCHANGED todo
          /\ NoLaunch
     ELSE /\ \E i \in todo : Newest(i, todo) /\ TryLaunch(i, "merge", seen[i])
          /\ UNCHANGED lpc
  /\ UNCHANGED <<labels, marker, sweep, seen, free, faults>>
  /\ OutsideLoop

\* ProcessOnce reads the free slots first, and uses the number later.
OnceFree ==
  /\ lpc = "onceFree"
  /\ free' = FreeSlots
  /\ lpc' = IF FreeSlots = 0 THEN "tick" ELSE "onceList"
  /\ seen' = [i \in Issues |-> None]
  /\ UNCHANGED <<labels, marker, sweep, todo, faults>>
  /\ NoLaunch /\ OutsideLoop

\* ListEligibleIssues: the open issues without a state label.
OnceList ==
  /\ lpc = "onceList"
  /\ \/ Listed("onceFilter",
               {i \in Issues \ closed : labels[i] \cap State = {}})
     \/ ListingFails("tick")
  /\ UNCHANGED <<labels, marker, sweep, seen, free>>
  /\ NoLaunch /\ OutsideLoop

\* filterInactive, selectIssues and DefaultBranch, which can fail.
OnceFilter ==
  /\ lpc = "onceFilter"
  /\ \/ /\ lpc' = "onceLaunch"
        /\ todo' = SelectIssues(todo \ active, free)
        /\ Succeeds(shutdown)
     \/ ListingFails("tick")
  /\ UNCHANGED <<labels, marker, sweep, seen, free>>
  /\ NoLaunch /\ OutsideLoop

OnceLaunch ==
  /\ lpc = "onceLaunch"
  /\ IF todo = {}
     THEN /\ lpc' = "tick"
          /\ free' = 0
          /\ UNCHANGED todo
          /\ NoLaunch
     ELSE /\ \E i \in todo : Oldest(i, todo) /\ TryLaunch(i, "pipeline", None)
          /\ UNCHANGED <<lpc, free>>
  /\ UNCHANGED <<labels, marker, sweep, seen, faults>>
  /\ OutsideLoop

\* The select at the end of a cycle, and o.Wait on the way out.
Tick ==
  /\ lpc = "tick"
  /\ lpc' = IF shutdown THEN "drain" ELSE IF sweep THEN "sweepList" ELSE "mergeList"
  /\ free' = 0
  /\ UNCHANGED <<labels, marker, sweep, todo, seen, faults>>
  /\ NoLaunch /\ OutsideLoop

Drain ==
  /\ lpc = "drain"
  /\ inFlight = 0
  /\ lpc' = "exited"
  /\ UNCHANGED <<labels, marker, sweep, todo, seen, free, faults>>
  /\ NoLaunch /\ OutsideLoop

LoopStep ==
  \/ SweepList \/ SweepFilter \/ SweepStrip \/ SweepClear
  \/ MergeList \/ MergeFilter \/ MergeLaunch
  \/ OnceFree \/ OnceList \/ OnceFilter \/ OnceLaunch \/ Tick \/ Drain

-----------------------------------------------------------------------------
(***************************************************************************)
(* The dashboard's buttons, the human on GitHub, and the end and the start *)
(* of the process.                                                         *)
(***************************************************************************)

Click(a) == a \in Acts /\ clicks > 0 /\ clicks' = clicks - 1

\* Where a Stop must decide the outcome of goroutine r: its agents are at work.
AtWork(r) == \/ pc[r] \in {"pipeline", "ship", "review"}
             \/ pc[r] = "merge" /\ issue[r] \in worktree

\* Stop: the issue is flagged and the goroutine registered for it cancelled;
\* without one it changes nothing (ErrNotRunning).
Stop(i) ==
  LET r == cancels[i]
  IN /\ Click("stop")
     /\ Up
     /\ r # NoRun
     /\ stopping' = stopping \cup {i}
     /\ cancelled' = cancelled \cup {r}
     /\ heard' = IF AtWork(r) THEN heard \cup {r} ELSE heard
     /\ UNCHANGED <<github, disk, active, inFlight, cancels, pc, locals, out,
                    loop, cont, shutdown, stops, faults, past>>

\* The history when a human has state label l taken off issue i.
Disown(i, l) ==
  /\ worn' = [worn EXCEPT ![i] = @ \ {l}]
  /\ astray' = IF mergePrior[i] = l THEN astray \cup {i} ELSE astray

\* Continue in three steps: it asks the ledger, removes ai-stopped, clears the
\* marker.  The button shows on an issue that looks stopped.
ContinueCheck(i) ==
  /\ Click("continue")
  /\ Up /\ ~shutdown
  /\ cont[i] = "idle"
  /\ marker[i] = "stopped" \/ "stopped" \in labels[i]
  /\ i \notin active
  /\ cont' = [cont EXCEPT ![i] = "remove"]
  /\ UNCHANGED <<github, disk, ledger, pc, locals, out, cancelled, loop,
                 shutdown, stops, faults, heard, past>>

ContinueRemove(i) ==
  /\ cont[i] = "remove"
  /\ \/ /\ Succeeds(shutdown)
        /\ Edit(i, {"stopped"}, {})
        /\ cont' = [cont EXCEPT ![i] = "clear"]
     \/ /\ EditFails(shutdown, i, {"stopped"}, {})
        /\ cont' = [cont EXCEPT ![i] = "idle"]
  /\ IF labels' = labels THEN UNCHANGED past ELSE Disown(i, "stopped")
  /\ UNCHANGED <<closed, disk, ledger, pc, locals, out, cancelled, loop,
                 shutdown, clicks, stops, heard>>

ContinueClear(i) ==
  /\ cont[i] = "clear"
  /\ marker' = [marker EXCEPT ![i] = None]
  /\ cont' = [cont EXCEPT ![i] = "idle"]
  /\ UNCHANGED <<github, mergePrior, worktree, review, ledger, pc, locals, out,
                 cancelled, loop, shutdown, clicks, stops, faults, heard, past>>

\* A human takes ai-rework or ai-needs-info off to queue another attempt.
Requeue(i) ==
  /\ Click("requeue")
  /\ \E l \in labels[i] \cap {"rework", "needsInfo"} :
       Edit(i, {l}, {}) /\ Disown(i, l)
  /\ UNCHANGED <<closed, disk, ledger, pc, locals, out, cancelled, loop, cont,
                 shutdown, stops, faults, heard>>

\* A human asks for a merge with the trigger label.
RequestMerge(i) ==
  /\ Click("merge")
  /\ MergeOn
  /\ Edit(i, {}, {"merge"})
  /\ UNCHANGED <<closed, disk, ledger, pc, locals, out, cancelled, loop, cont,
                 shutdown, stops, faults, heard, past>>

HumanStep(i) ==
  \/ Stop(i) \/ ContinueCheck(i) \/ Requeue(i) \/ RequestMerge(i)

\* The first signal cancels the daemon's context.
Shutdown ==
  /\ stops > 0 /\ stops' = stops - 1
  /\ Up /\ ~shutdown
  /\ shutdown' = TRUE
  /\ UNCHANGED <<github, disk, ledger, pc, locals, out, cancelled, loop, cont,
                 clicks, faults, heard, past>>

\* The memory of a process that has just begun, or is no more.
FreshMemory ==
  /\ active' = {} /\ inFlight' = 0
  /\ cancels' = [i \in Issues |-> NoRun] /\ stopping' = {}
  /\ pc' = [r \in Runs |-> "idle"] /\ issue' = [r \in Runs |-> 0]
  /\ kind' = [r \in Runs |-> None] /\ prior' = [r \in Runs |-> None]
  /\ out' = [r \in Runs |-> None]
  /\ cancelled' = {} /\ heard' = {}
  /\ todo' = {} /\ seen' = [i \in Issues |-> None] /\ free' = 0
  /\ cont' = [i \in Issues |-> "idle"] /\ shutdown' = FALSE

\* The process is killed: a second signal, a crash, a power cut.
Crash ==
  /\ stops > 0 /\ stops' = stops - 1
  /\ Up
  /\ lpc' = "down" /\ sweep' = TRUE
  /\ FreshMemory
  /\ UNCHANGED <<github, disk, clicks, faults, past>>

\* A new process: main calls RunLoop with the sweep due.
Boot ==
  /\ ~Up
  /\ lpc' = "sweepList" /\ sweep' = TRUE
  /\ FreshMemory
  /\ UNCHANGED <<github, disk, clicks, stops, faults, past>>

-----------------------------------------------------------------------------

Init ==
  /\ labels = [i \in Issues |-> {}] /\ closed = {}
  /\ marker = [i \in Issues |-> None] /\ mergePrior = [i \in Issues |-> None]
  /\ worktree = {} /\ review = {}
  /\ active = {} /\ inFlight = 0
  /\ cancels = [i \in Issues |-> NoRun] /\ stopping = {}
  /\ pc = [r \in Runs |-> "idle"] /\ issue = [r \in Runs |-> 0]
  /\ kind = [r \in Runs |-> None] /\ prior = [r \in Runs |-> None]
  /\ out = [r \in Runs |-> None] /\ cancelled = {}
  /\ lpc = "sweepList" /\ sweep = TRUE
  /\ todo = {} /\ seen = [i \in Issues |-> None] /\ free = 0
  /\ cont = [i \in Issues |-> "idle"] /\ shutdown = FALSE
  /\ faults = MaxFaults /\ clicks = MaxClicks /\ stops = MaxStops
  /\ heard = {} /\ worn = [i \in Issues |-> {}] /\ astray = {}

Next ==
  \/ LoopStep
  \/ \E r \in Runs : RunStep(r)
  \/ \E i \in Issues : HumanStep(i) \/ ContinueRemove(i) \/ ContinueClear(i)
  \/ Shutdown \/ Crash \/ Boot

Spec == Init /\ [][Next]_vars

\* The Go scheduler runs the loop, every goroutine and every request again and
\* again, and no call blocks for ever: gh and git calls run out of retries and
\* the agents have time limits.  Nothing is owed by the human, nor by whoever
\* crashes, stops or starts the process.
Fairness ==
  /\ WF_vars(LoopStep)
  /\ \A r \in Runs : WF_vars(RunStep(r))
  /\ \A i \in Issues : WF_vars(ContinueRemove(i) \/ ContinueClear(i))

FairSpec == Spec /\ Fairness

-----------------------------------------------------------------------------
(***************************************************************************)
(* Properties                                                              *)
(***************************************************************************)

Kind == {"pipeline", "merge"}
Outcome == {"shipped", "alreadyDone", "needsInfo", "park", "panic", "stopped",
            "restore"}
RunPlace == {"idle", "start", "prior", "wear", "recordWip", "prepare",
             "pipeline", "ship", "review", "merge", "push", "strip", "swap",
             "record", "close", "panicked", "deferred", "unwind", "release"}
LoopPlace == {"sweepList", "sweepFilter", "sweepStrip", "sweepClear",
              "mergeList", "mergeFilter", "mergeLaunch", "onceFree",
              "onceList", "onceFilter", "onceLaunch", "tick", "drain",
              "exited", "down"}
StateOrNone == State \cup {None}

\* Every variable has the values its Go counterpart can take.
TypeOK ==
  /\ labels \in [Issues -> SUBSET Label] /\ closed \subseteq Issues
  /\ marker \in [Issues -> StateOrNone] /\ mergePrior \in [Issues -> StateOrNone]
  /\ worktree \subseteq Issues /\ review \subseteq Issues
  /\ active \subseteq Issues /\ inFlight \in Nat
  /\ cancels \in [Issues -> Runs \cup {NoRun}] /\ stopping \subseteq Issues
  /\ pc \in [Runs -> RunPlace] /\ issue \in [Runs -> Issues \cup {0}]
  /\ kind \in [Runs -> Kind \cup {None}] /\ prior \in [Runs -> StateOrNone]
  /\ out \in [Runs -> Outcome \cup {None}] /\ cancelled \subseteq Runs
  /\ lpc \in LoopPlace /\ sweep \in BOOLEAN
  /\ todo \subseteq Issues /\ seen \in [Issues -> StateOrNone] /\ free \in Nat
  /\ cont \in [Issues -> {"idle", "remove", "clear"}] /\ shutdown \in BOOLEAN
  /\ faults \in Nat /\ clicks \in Nat /\ stops \in Nat
  /\ heard \subseteq Runs /\ worn \in [Issues -> SUBSET State]
  /\ astray \subseteq Issues


\* Two goroutines never work on the same issue, whatever the listings showed
\* (filterInactive, tryAcquire, release deferred first).
OneRunPerIssue ==
  \A r, s \in Runs : Live(r) /\ Live(s) /\ r # s => issue[r] # issue[s]

\* ticketsPerCycle bounds the goroutines at work at any moment, pipelines and
\* merges of every cycle together (slots, tryAcquire).
WithinBudget == Cardinality({r \in Runs : Live(r)}) <= Slots

\* RunLoop returns, and main gives up the workDir lock, only when no goroutine
\* is left that could still write labels or markers (Wait before the return).
DrainedBeforeExit == lpc = "exited" => \A r \in Runs : ~Live(r)

\* The orphan sweep, even one repeated while pipelines run, never touches the
\* labels of an issue a goroutine of this process works on (SweepOrphans filters
\* the listing through the ledger).
SweepSparesLive ==
  [][SweepStrip => \A r \in Runs : Live(r) => labels'[issue[r]] = labels[issue[r]]]_vars

\* A Stop that reaches a run at work is its outcome: the run ends as stopped, or
\* as a panic, and never records another one (bailOnCancel, the deferred handler).
StopWins ==
  \A r \in heard : pc[r] \in {"record", "unwind"} => out[r] \in {"stopped", "panic"}

\* The local marker goes from wip to stopped, needs-info, done or nothing only
\* after GitHub took the wip label off; only a park may run ahead of its swap.
\* (pause, finishDone, finishNeedsInfo, ship and the sweep return on a failed
\* edit before they record.)  The clearing of a Continue that lost a race is not
\* meant here.
MarkerFollowsLabel ==
  [][\A i \in Issues : marker[i] = "wip" /\ marker'[i] \notin {"wip", "rework"}
                         /\ ~ContinueClear(i)
       => "wip" \notin labels[i]]_vars

\* While the process is up, nothing failed and no sweep is due, an open issue wears
\* wip only for a goroutine that will take it off: no path through a handler
\* drops the issue with its label on (runGuarded's deferred handler).
NoStrandedWip ==
  Up /\ ~sweep /\ ~shutdown /\ faults = MaxFaults
    => \A i \in Issues \ closed : "wip" \in labels[i] => i \in active

\* A merge run that succeeds puts back the state labels the issue wore before
\* it, and no other, though it began in a process that crashed, was stopped or
\* failed in between (handleMergeResolve's prior and its marker on disk).
\* Excepted are the issues astray: their listing was older than their labels, or
\* a human took off a label while the marker of an unfinished merge named it.
MergeRestores ==
  [][\A r \in Runs :
       /\ pc[r] = "swap" /\ out[r] = "restore" /\ pc'[r] = "record"
       /\ issue[r] \notin astray
       => labels'[issue[r]] \cap State = worn[issue[r]]]_vars

\* The abstract pool: a run is a goroutine, its hold the issue it works on.
Pool == INSTANCE SlotPool WITH
          at <- issue,
          status <- IF Up THEN "up" ELSE lpc

\* The ledger, the goroutines, the loop and its crashes implement the pool.
PoolSpec == Pool!Spec

Eligible(i) == i \notin closed /\ labels[i] \cap State = {}

\* An issue that waits without a state label is run, unless the process ends
\* first: neither the budget, nor older issues, nor a failed listing keeps it
\* waiting for ever (ProcessOnce tops up the budget in every cycle).
EligibleIsTaken ==
  \A i \in Issues : Up /\ Eligible(i) ~> i \in active \/ shutdown \/ ~Up

\* An issue a dead process left with wip loses the label, though the sweep may
\* fail at first, unless this process ends too (RunLoop's retried sweep).
OrphansRecovered ==
  \A i \in Issues : Up /\ sweep /\ "wip" \in labels[i] /\ i \notin closed \cup active
                      ~> "wip" \notin labels[i] \/ shutdown \/ ~Up

\* After the first signal RunLoop returns: every goroutine unwinds and releases
\* its slot, and nothing new is launched (RunLoop's Wait, release).
ShutdownExits == shutdown ~> ~Up
=============================================================================
