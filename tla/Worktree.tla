------------------------------ MODULE Worktree ------------------------------
(***************************************************************************)
(* The git side of the runs: one repository with a worktree and a branch   *)
(* per issue (worktree.go), Create's way with the leftovers of earlier     *)
(* runs, the pushes, and the merge of the base branch with its one session *)
(* (RunMergeResolve).  Several issues share the repository, its mutex and  *)
(* `git worktree prune`; an issue has one run at a time (Orchestrator).    *)
(*                                                                         *)
(* A step is one git command, with all it does.  A Stop or a shutdown      *)
(* kills the command under way and lets every later one fail at once; a    *)
(* crash comes between two.  A branch is the set of its commits and the    *)
(* version of the base branch in it.  Left out: what is in the files, and  *)
(* a branch that a session rewrites.  The workDir lies in no checkout.     *)
(***************************************************************************)
EXTENDS Integers, FiniteSets

CONSTANTS Issues,
          Nobody,      \* the holder of a free mutex
          MaxAttempts, \* GitHubRetry.MaxAttempts; 0 is unbounded
          MaxBase,     \* bound: versions of the base branch
          MaxWork,     \* bound: commits
          MaxRuns,     \* bound: runs
          MaxMishaps   \* bound: crashes, stops, lost directories, failed commands

ASSUME WorktreeAssumption ==
  /\ {MaxAttempts, MaxBase, MaxWork, MaxRuns, MaxMishaps} \subseteq Nat
  /\ MaxBase > 0
  /\ Nobody \notin Issues

VARIABLES
  base,     \* origin: the version of the base branch
  remote,   \* origin: each issue's branch
  track,    \* repository: origin/<base> as last fetched
  branch,   \* repository: each issue's branch
  linked,   \* repository: the registered worktrees, each on its issue's branch
  locked,   \* repository: those whose registration git has locked in the making
  dir,      \* what is at the worktree's path
  head,     \* MERGE_HEAD, as a version of the base; 0 for none
  unmerged, \* the issues with conflict entries
  mu,       \* Worktree.mu's holder
  at,       \* where an issue's run is, "off" without one
  flow,     \* which of the two flows the run is
  tries,    \* RetryPolicy.Do's attempt - 1
  stopped,  \* the runs whose context is cancelled
  asked,    \* the merge a run is to conclude, as a version of the base
  runs, made, mishaps, \* what is used of the bounds
  gaveUp,   \* history: the runs whose session aborted the merge
  hurt,     \* history: the runs with a git failure that was swallowed
  lost,     \* history: the issues with commits in a branch that was deleted
  taken,    \* history: the issues whose worktree somebody removed
  shot,     \* history: the issues whose worktree Create removed under a Stop
  misread   \* history: the same, after a rev-parse that failed by itself

origin == <<base, remote>>
repo == <<track, branch, linked, locked>>
tree == <<dir, head, unmerged>>
run == <<mu, at, flow, tries, stopped, asked, gaveUp, hurt>>
bounds == <<runs, made, mishaps>>
past == <<lost, taken, shot, misread>>
vars == <<origin, repo, tree, run, bounds, past>>

None == [work |-> {}, base |-> -1]
Fresh == [work |-> {}, base |-> track]
Ancestor(a, b) == a.work \subseteq b.work /\ a.base <= b.base

\* What rev-parse takes for a checkout: also one whose making was cut short.
Checkout == {"half", "tree"}

Larger(a, b) == IF a > b THEN a ELSE b

\* CommitCount: commits that origin/<base> does not have.
Ahead(i) == branch[i].work # {}

Goto(i, l) == at' = [at EXCEPT ![i] = l]
Unlock(i) == mu' = IF mu = i THEN Nobody ELSE mu

\* Create or Fetch returns (the deferred unlock), or another step ends; the
\* next attempt counts anew.
Leave(i, l) == /\ Goto(i, l) /\ Unlock(i) /\ tries' = [tries EXCEPT ![i] = 0]
               /\ UNCHANGED <<flow, stopped, asked, gaveUp, hurt>>

\* The run returns, whatever becomes of the issue's labels; what it had in
\* memory is gone.
End(i) == /\ Goto(i, "off") /\ Unlock(i)
          /\ tries' = [tries EXCEPT ![i] = 0]
          /\ asked' = [asked EXCEPT ![i] = 0]
          /\ stopped' = stopped \ {i} /\ gaveUp' = gaveUp \ {i}
          /\ hurt' = hurt \ {i}
          /\ UNCHANGED flow

Still(i, l) == Goto(i, l) /\ UNCHANGED <<mu, flow, tries, stopped, asked, gaveUp, hurt>>

\* A command fails for good and its error ends the run.
Fails(i) == End(i) /\ UNCHANGED <<origin, repo, tree, bounds, past>>

\* A failure that is swallowed.
Swallow(i, l) ==
  /\ Goto(i, l) /\ hurt' = hurt \cup {i}
  /\ i \in stopped \/ mishaps < MaxMishaps
  /\ mishaps' = IF i \in stopped THEN mishaps ELSE mishaps + 1
  /\ UNCHANGED <<mu, flow, tries, stopped, asked, gaveUp, origin, repo, tree,
                 runs, made, past>>

-----------------------------------------------------------------------------
(***************************************************************************)
(* A run begins; the mutex; fetch with its retries                         *)
(***************************************************************************)

\* handleIssue calls Create; handleMergeResolve wants something at the path.
Begin(i) ==
  /\ at[i] = "off" /\ runs < MaxRuns
  /\ \E f \in {"pipeline", "merge"} :
       /\ f = "merge" => dir[i] # "none"
       /\ flow' = [flow EXCEPT ![i] = f]
  /\ Goto(i, "lock")
  /\ runs' = runs + 1
  /\ UNCHANGED <<origin, repo, tree, mu, tries, stopped, asked, gaveUp, hurt, made,
                 mishaps, past>>

\* Not cut short by a cancellation.
Lock(i) ==
  /\ at[i] = "lock" /\ mu = Nobody
  /\ mu' = i
  /\ Goto(i, "fetch")
  /\ UNCHANGED <<origin, repo, tree, flow, tries, stopped, asked, gaveUp, hurt, bounds,
                 past>>

\* RetryPolicy.Do: after a transient failure another attempt, unless they are
\* used up or the context is done.  (Without a limit the count stays.)
MayRetry(i) == i \notin stopped /\ (MaxAttempts = 0 \/ tries[i] + 1 < MaxAttempts)
Retry(i) ==
  /\ MayRetry(i)
  /\ tries' = [tries EXCEPT ![i] = IF MaxAttempts = 0 THEN 0 ELSE @ + 1]
  /\ UNCHANGED <<origin, repo, tree, mu, at, flow, stopped, asked, gaveUp, hurt,
                 bounds, past>>

\* Mutant: a failed fetch returns with the mutex held.
FetchKeepsLock(i) ==
  /\ at[i] = "fetch"
  /\ \/ /\ i \notin stopped
        /\ track' = base
        /\ IF flow[i] = "merge" THEN Leave(i, "merge") ELSE Still(i, "add")
        /\ UNCHANGED <<origin, branch, linked, locked, tree, bounds, past>>
     \/ Retry(i)
     \/ /\ Goto(i, "off") /\ stopped' = stopped \ {i}
        /\ UNCHANGED <<mu, tries, flow, asked, gaveUp, hurt, origin, repo, tree,
                       bounds, past>>

Fetch(i) ==
  /\ at[i] = "fetch"
  /\ \/ /\ i \notin stopped
        /\ track' = base
        /\ IF flow[i] = "merge" THEN Leave(i, "merge") ELSE Still(i, "add")
        /\ UNCHANGED <<origin, branch, linked, locked, tree, bounds, past>>
     \/ Retry(i)
     \/ Fails(i)

-----------------------------------------------------------------------------
(***************************************************************************)
(* Create                                                                  *)
(***************************************************************************)

CanAdd(i) == branch[i] = None /\ dir[i] = "none" /\ i \notin linked \cup locked

\* External: `git worktree add path -b branch`, as far as it gets when it is
\* killed: the branch, then a registration that is locked until the add is done
\* and has no branch yet, with the directory or before it, then the checkout.
AddCut(i) ==
  /\ CanAdd(i)
  /\ branch' = [branch EXCEPT ![i] = Fresh]
  /\ \/ UNCHANGED <<linked, locked, dir>>
     \/ /\ locked' = locked \cup {i} /\ UNCHANGED linked
        /\ \E d \in {"none", "plain"} : dir' = [dir EXCEPT ![i] = d]
     \/ /\ locked' = locked \cup {i} /\ linked' = linked \cup {i}
        /\ dir' = [dir EXCEPT ![i] = "half"]

\* Mutant: `-B`, which resets a branch that is there.
AddReset(i) ==
  /\ at[i] \in {"add", "readd"}
  /\ IF i \notin stopped /\ dir[i] = "none" /\ i \notin linked \cup locked
     THEN /\ branch' = [branch EXCEPT ![i] = Fresh]
          /\ linked' = linked \cup {i} /\ dir' = [dir EXCEPT ![i] = "tree"]
          /\ Leave(i, "work")
          /\ UNCHANGED <<origin, track, locked, head, unmerged, bounds, past>>
     ELSE /\ IF at[i] = "add" /\ i \notin stopped THEN Still(i, "look") ELSE End(i)
          /\ UNCHANGED <<origin, repo, tree, bounds, past>>

\* The add, or the one after the leftovers were cleared.  A branch or a path in
\* the way ("already exists") is looked at the first time; git makes the branch
\* before it finds the path taken or registered.  Any other failure ends the run,
\* as does a path that is only registered ("missing but locked").
Add(i) ==
  /\ at[i] \in {"add", "readd"}
  /\ \/ /\ CanAdd(i) /\ i \notin stopped
        /\ branch' = [branch EXCEPT ![i] = Fresh]
        /\ linked' = linked \cup {i}
        /\ dir' = [dir EXCEPT ![i] = "tree"]
        /\ Leave(i, "work")
        /\ UNCHANGED <<origin, track, locked, head, unmerged, bounds, past>>
     \/ /\ ~CanAdd(i) /\ i \notin stopped
        /\ branch' = [branch EXCEPT ![i] = IF @ = None THEN Fresh ELSE @]
        /\ IF at[i] = "add" /\ (branch[i] # None \/ dir[i] # "none")
           THEN Still(i, "look") ELSE End(i)
        /\ UNCHANGED <<origin, track, linked, locked, tree, bounds, past>>
     \/ /\ i \in stopped /\ AddCut(i) /\ End(i)
        /\ UNCHANGED <<origin, track, head, unmerged, bounds, past>>
     \/ Fails(i)

\* Mutant: whatever is at the path is taken for a checkout.
IsThere(i, failed) == ~failed

\* Mutant: nothing is reused.
IsNever(i, failed) == FALSE

\* isWorktree: a rev-parse that fails, for whatever reason, says the same as one
\* that finds no checkout.
IsWorktree(i, failed) == dir[i] \in Checkout /\ ~failed

\* os.Stat, isWorktree: a checkout is reused, RemoveAll clears what is none.  The
\* rev-parse fails under a Stop, and may fail by itself.
Look(i) ==
  /\ at[i] = "look"
  /\ \/ \E failed \in BOOLEAN :
          /\ dir[i] # "none"
          /\ IF i \in stopped THEN failed ELSE failed => mishaps < MaxMishaps
          /\ mishaps' = IF failed /\ i \notin stopped THEN mishaps + 1 ELSE mishaps
          /\ \/ /\ IsWorktree(i, failed)
                /\ Leave(i, "work")
                /\ UNCHANGED <<dir, shot, misread>>
             \/ /\ ~IsWorktree(i, failed)
                /\ dir' = [dir EXCEPT ![i] = "none"]
                /\ LET gone == {j \in {i} : failed /\ dir[i] \in Checkout}
                   IN /\ shot' = shot \cup (gone \cap stopped)
                      /\ misread' = misread \cup (gone \ stopped)
                /\ Still(i, "prune")
          /\ UNCHANGED <<origin, repo, head, unmerged, runs, made, lost, taken>>
     \/ /\ dir[i] = "none" /\ Still(i, "prune")
        /\ UNCHANGED <<origin, repo, tree, bounds, past>>
     \/ dir[i] # "none" /\ Fails(i)

\* Mutant: no prune.
PruneNothing(i) ==
  /\ at[i] = "prune" /\ Still(i, "delete")
  /\ UNCHANGED <<origin, repo, tree, bounds, past>>

\* `git worktree prune`, of every issue: a registration goes without a checkout,
\* but not a locked one.  With it go its MERGE_HEAD and its index.
Prune(i) ==
  /\ at[i] = "prune"
  /\ \/ LET kept == {j \in linked : dir[j] \in Checkout \/ j \in locked}
        IN /\ i \notin stopped
           /\ linked' = kept
           /\ head' = [j \in Issues |-> IF j \in kept THEN head[j] ELSE 0]
           /\ unmerged' = unmerged \cap kept
           /\ Still(i, "delete")
           /\ UNCHANGED <<origin, track, branch, locked, dir, bounds, past>>
     \/ Swallow(i, "delete")

\* `git branch -D`, which git refuses for a branch that a worktree is on.
Delete(i) ==
  /\ at[i] = "delete"
  /\ \/ /\ i \notin stopped /\ i \notin linked
        /\ branch' = [branch EXCEPT ![i] = None]
        /\ lost' = IF branch[i].work = {} THEN lost ELSE lost \cup {i}
        /\ Still(i, "readd")
        /\ UNCHANGED <<origin, track, linked, locked, tree, bounds, taken, shot, misread>>
     \/ /\ i \notin stopped /\ i \in linked
        /\ Still(i, "readd")
        /\ UNCHANGED <<origin, repo, tree, bounds, past>>
     \/ Swallow(i, "readd")

-----------------------------------------------------------------------------
(***************************************************************************)
(* Sessions                                                                *)
(***************************************************************************)

\* External: what a session does in its checkout.  It commits, which concludes a
\* merge once the conflicts are resolved; it resolves them; it commits around
\* them; it gives the merge up.
Session(i) ==
  /\ at[i] \in {"work", "session"} /\ dir[i] \in Checkout
  /\ \/ /\ i \notin unmerged /\ made < MaxWork
        /\ made' = made + 1
        /\ branch' = [branch EXCEPT ![i] = [work |-> @.work \cup {made'},
                                           base |-> Larger(@.base, head[i])]]
        /\ head' = [head EXCEPT ![i] = 0]
        /\ UNCHANGED <<unmerged, gaveUp>>
     \/ /\ head[i] # 0
        /\ branch' = [branch EXCEPT ![i].base = Larger(@, head[i])]
        /\ head' = [head EXCEPT ![i] = 0]
        /\ UNCHANGED <<unmerged, gaveUp, made>>
     \/ /\ i \in unmerged
        /\ unmerged' = unmerged \ {i}
        /\ UNCHANGED <<branch, head, gaveUp, made>>
     \/ /\ head[i] # 0
        /\ head' = [head EXCEPT ![i] = 0]
        /\ unmerged' = unmerged \ {i}
        /\ gaveUp' = gaveUp \cup {i}
        /\ UNCHANGED <<branch, made>>
  /\ UNCHANGED <<origin, track, linked, locked, dir, mu, at, flow, tries, stopped, asked,
                 hurt, runs, mishaps, past>>

\* `git push` without force: refused unless origin's branch is an ancestor.
Pushed(i) ==
  /\ i \notin stopped /\ Ancestor(remote[i], branch[i])
  /\ remote' = [remote EXCEPT ![i] = branch[i]]

\* The pushes after the spec, the plan and execute, whose failure is swallowed
\* (pushSpecPR, pushPlanUpdate, pushAfterExecute).
PushOnTheWay(i) ==
  /\ at[i] = "work"
  /\ Pushed(i)
  /\ UNCHANGED <<base, repo, tree, run, bounds, past>>

\* The pipeline comes to its verdict: to be shipped, or the run ends.  ship wants
\* a commit that origin/<base> does not have.
Verdict(i) ==
  /\ at[i] = "work"
  /\ \/ /\ i \notin stopped /\ Ahead(i)
        /\ Still(i, "push")
        /\ UNCHANGED <<origin, repo, tree, bounds, past>>
     \/ Fails(i)

Push(i) ==
  /\ at[i] = "push"
  /\ \/ /\ Pushed(i) /\ End(i)
        /\ UNCHANGED <<base, repo, tree, bounds, past>>
     \/ Retry(i)
     \/ Fails(i)

-----------------------------------------------------------------------------
(***************************************************************************)
(* RunMergeResolve                                                         *)
(***************************************************************************)

ToSession(i, v) ==
  /\ Goto(i, "session") /\ asked' = [asked EXCEPT ![i] = v]
  /\ UNCHANGED <<mu, flow, tries, stopped, gaveUp, hurt>>

\* A merge in progress is continued.  Else `git merge`: clean, or stopped on
\* conflicts, or refused because of conflict entries that are there, which looks
\* like a conflict; any other failure ends the run, as everything does at a path
\* that is no checkout.
Merge(i) ==
  /\ at[i] = "merge"
  /\ \/ /\ dir[i] \in Checkout /\ i \notin stopped
        /\ \/ /\ head[i] # 0 \/ i \in unmerged
              /\ ToSession(i, head[i])
              /\ UNCHANGED <<branch, head, unmerged>>
           \/ /\ head[i] = 0 /\ i \notin unmerged
              /\ branch' = [branch EXCEPT ![i].base = Larger(@, track)]
              /\ Goto(i, "push") /\ asked' = [asked EXCEPT ![i] = track]
              /\ UNCHANGED <<mu, flow, tries, stopped, gaveUp, hurt, head, unmerged>>
           \/ /\ head[i] = 0 /\ i \notin unmerged
              /\ Ahead(i) /\ branch[i].base < track
              /\ head' = [head EXCEPT ![i] = track]
              /\ unmerged' = unmerged \cup {i}
              /\ ToSession(i, track)
              /\ UNCHANGED branch
        /\ UNCHANGED <<origin, track, linked, locked, dir, bounds, past>>
     \/ Fails(i)

\* Mutant: only the conflict entries are looked at.
ConcludedUnlessUnmerged(i) == i \notin unmerged

\* MergeInProgress and HasUnmergedPaths after the session.
Concluded(i) == head[i] = 0 /\ i \notin unmerged

\* The session has ended.  It passes if git says so and it does not itself say
\* "blocked"; one that gave up says so, or anything else.
Resolved(i) ==
  /\ at[i] = "session"
  /\ \/ /\ i \notin stopped /\ Concluded(i)
        /\ Still(i, "push")
        /\ UNCHANGED <<origin, repo, tree, bounds, past>>
     \/ Fails(i)

-----------------------------------------------------------------------------
(***************************************************************************)
(* Stops, crashes, people                                                  *)
(***************************************************************************)

\* A Stop, or a shutdown of all.
Stop ==
  /\ mishaps < MaxMishaps /\ mishaps' = mishaps + 1
  /\ \E i \in Issues : at[i] # "off" /\ i \notin stopped /\ stopped' = stopped \cup {i}
  /\ UNCHANGED <<origin, repo, tree, mu, at, flow, tries, asked, gaveUp, hurt, runs,
                 made, past>>

\* The process is killed; a `git worktree add` goes as far as it goes.
Crash ==
  /\ mishaps < MaxMishaps /\ mishaps' = mishaps + 1
  /\ \E i \in Issues : at[i] # "off"
  /\ at' = [i \in Issues |-> "off"] /\ mu' = Nobody
  /\ tries' = [i \in Issues |-> 0] /\ asked' = [i \in Issues |-> 0]
  /\ stopped' = {} /\ gaveUp' = {} /\ hurt' = {}
  /\ \/ UNCHANGED <<branch, linked, locked, dir>>
     \/ \E i \in Issues : at[i] \in {"add", "readd"} /\ AddCut(i)
  /\ UNCHANGED <<flow, origin, track, head, unmerged, runs, made, past>>

\* External: somebody deletes an issue's directory between two runs, or what makes
\* it a checkout.
TakeAway(i) ==
  /\ at[i] = "off" /\ dir[i] \in Checkout
  /\ mishaps < MaxMishaps /\ mishaps' = mishaps + 1
  /\ \E d \in {"none", "plain"} : dir' = [dir EXCEPT ![i] = d]
  /\ taken' = taken \cup {i}
  /\ UNCHANGED <<origin, repo, head, unmerged, run, runs, made, lost, shot, misread>>

\* External: others push to the base branch.
BaseMoves ==
  /\ base < MaxBase /\ base' = base + 1
  /\ UNCHANGED <<remote, repo, tree, run, bounds, past>>

-----------------------------------------------------------------------------

Init ==
  /\ base = 1 /\ track = 1
  /\ branch = [i \in Issues |-> None] /\ remote = [i \in Issues |-> None]
  /\ linked = {} /\ locked = {} /\ dir = [i \in Issues |-> "none"]
  /\ head = [i \in Issues |-> 0] /\ unmerged = {}
  /\ mu = Nobody /\ at = [i \in Issues |-> "off"]
  /\ flow = [i \in Issues |-> "pipeline"] /\ tries = [i \in Issues |-> 0]
  /\ asked = [i \in Issues |-> 0]
  /\ stopped = {} /\ gaveUp = {} /\ hurt = {}
  /\ runs = 0 /\ made = 0 /\ mishaps = 0
  /\ lost = {} /\ taken = {} /\ shot = {} /\ misread = {}

\* What a run's goroutine does by itself, without the mutex's turn.
RunStep(i) ==
  \/ Fetch(i) \/ Add(i) \/ Look(i) \/ Prune(i) \/ Delete(i) \/ Verdict(i) \/ Push(i)
  \/ Merge(i) \/ Resolved(i)

Next ==
  \/ \E i \in Issues : \/ Begin(i) \/ Lock(i) \/ RunStep(i) \/ Session(i)
                       \/ PushOnTheWay(i) \/ TakeAway(i)
  \/ Stop \/ Crash \/ BaseMoves

Spec == Init /\ [][Next]_vars

\* The goroutines run, commands and sessions end, and Go's mutex starves nobody.
\* With unbounded attempts WF of RunStep says too that an outage ends.
FairSpec == Spec /\ \A i \in Issues : WF_vars(RunStep(i)) /\ SF_vars(Lock(i))

-----------------------------------------------------------------------------
(***************************************************************************)
(* Properties                                                              *)
(***************************************************************************)

\* A checkout at an issue's path is registered and has the issue's branch, and a
\* run never loses its checkout to the cleanup of another issue's Create.
WorksInCheckout ==
  \A i \in Issues :
    /\ dir[i] \in Checkout => i \in linked
    /\ i \in linked => branch[i] # None
    /\ at[i] = "work" => dir[i] \in Checkout

\* Commits of an issue are given up only when its directory was lost: a branch is
\* never deleted or reset because a run was parked, stopped elsewhere or crashed.
\* (The reuse in Create.  Create itself may have removed it, after a rev-parse that
\* failed or was killed; the loss under a Stop has its own statement below.)
Gone == taken \cup shot \cup misread
KeptUnlessGone == lost \subseteq Gone

\* The repository, with its worktrees, leftovers, retries and crashes, implements
\* the commit store: whichever command a run is at, an issue's commits are added,
\* pushed or given up as the store allows.
Store == INSTANCE CommitStore WITH
           Commits <- 1 .. MaxWork,
           here <- [i \in Issues |-> branch[i].work],
           published <- [i \in Issues |-> remote[i].work],
           excused <- Gone
StoreSpec == Store!Spec

\* As long as an issue's commits were not given up, origin's branch is an
\* ancestor of its own, so that no push is refused, whatever was pushed when.
FastForward ==
  \A i \in Issues \ lost : branch[i] # None => Ancestor(remote[i], branch[i])

\* The cleanup of leftovers makes the second add succeed, unless git failed in it
\* (prune before branch -D), or an add of the issue was killed once after it had
\* registered the worktree: git's lock outlives the add, prune spares what is
\* locked, and without a checkout at the path no later run gets one.
LeftoversCleared ==
  \A i \in Issues :
    at[i] = "readd" /\ i \notin hurt \cup stopped \cup locked => CanAdd(i)

\* A merge run pushes only a branch that has the merge it was to conclude, and
\* with no merge left open, unless its session aborted and did not say so (git's
\* state is then that of a clean merge).
PushIsMerged ==
  \A i \in Issues : at[i] = "push" /\ flow[i] = "merge" /\ i \notin gaveUp =>
    /\ head[i] = 0 /\ i \notin unmerged
    /\ branch[i].base >= asked[i]

\* Every run ends: the mutex is given back on every way out of Create and Fetch.
WorktreeRunEnds == \A i \in Issues : at[i] # "off" ~> at[i] = "off"

\* worktree.go, Create: a live worktree is reused "so partial progress is continued
\* rather than discarded"; docs/dashboard.md: after a Stop "the worktree, branch,
\* logs" and session "are all preserved".
\* (A rev-parse that a Stop kills counts as "no worktree".)
StopIsNotDestructive == lost \subseteq taken \cup misread
=============================================================================
