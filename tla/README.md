# TLA+ models of loope

loope is a daemon that watches the issues of a GitHub repository, runs a coding
agent (the `claude` CLI) on each eligible one in a git worktree of its own, and
ships the result as a pull request. GitHub's labels are its only durable queue, a
few files per issue its only memory, and one process owns a work directory. These
modules model what is hard about that: goroutines of many issues that share a slot
budget, a human who edits labels and presses Stop at any moment, calls that fail
after they took effect, and crashes between any two writes.

## The system

| part | source (`src/worker` unless named) | state | operations |
|---|---|---|---|
| poll loop | `engine/runloop.go` | `sweep` still due | sweep, merge scan, pipeline cycle, wait, drain |
| slot ledger | `engine/slots.go` | `active`, `inFlight` | `tryAcquire`, `release`, `freeSlots`, `filterInactive`, `Wait` |
| orchestrator | `engine/loop.go` | `cancels`, `stopping`; labels on GitHub; `state` marker | `ProcessOnce`, `runGuarded`, `handleIssue`, `ship`, the outcomes (`park`, `pause`, `finishDone`, `finishNeedsInfo`), `Stop`, `Continue`, `SweepOrphans` |
| merge-resolve | `engine/pipeline_mergeresolve.go` | trigger label, `mergeresolve-prior` | `ProcessMergeResolves`, `handleMergeResolve`, `finishMergeResolve`, `parkMergeResolve`, `RunMergeResolve` |
| pipeline | `engine/pipeline_entry.go`, `pipeline_feature.go`, `resume.go` | where a run is; what the worktree holds | entry session and Q&A rounds, plan, execute, resumption |
| UAT checklist | `engine/uat.go` | one comment on the issue | check, session, comment, wait |
| code review | `engine/codereview.go` | `codereview-round`, `codereview-done` | rounds, resumption of a round |
| session chain | `shared/sessions.go`, `shared/agentcall.go` | `sessions.jsonl`, the legacy session file, `issue-snapshot` | append, pending nodes, stamp the kind, resume point |
| agent adapter | `infra/claude.go` | the run's `seq`; the files of each call | `Call`, `nextSeq`, in-flight checkpoint, salvage |
| GitHub adapter | `infra/github.go`, `shared/retry.go` | none | labels, listings, comments, pull requests, retries |
| worktree adapter | `infra/worktree.go` | worktrees and branches | `Create` with its reclaim, push, merge, commit count |
| work directory lock | `daemon.go` | `daemon.lock` | acquire, take over, release |
| entry point | `main.go` | signals | lock, sweep and loop, drain, release |
| log rotation | `logrotate.go` | `daemon.log`, `.1` | rotate |
| telemetry | `telemetry/*.go`, `src/telemetry-server`, `src/shared/wire.go` | offsets, pending lines; ring, last-seen times | tail, push, ingest, expire, evict |
| dashboard | `web/*.go` | listing with its TTL, `artifactCache`, `prTried`, `titleTried` | build tickets, write titles and links back, Stop and Continue handlers |

How they interact: `main` takes the lock and calls `RunLoop`, which polls GitHub
and launches one goroutine per picked issue (`runGuarded`). The goroutine swaps
labels, writes markers, and calls the pipeline, which calls agents; every agent
call writes the session chain through the agent adapter. The dashboard's handlers
call `Stop` and `Continue` concurrently with all of it. The ledger's mutex `mu` is
the only lock between them. Telemetry only reads the log directory; the dashboard
reads it while agents write, and writes the markers `title` and `pr` into it, of
which `ship` reads the second.

What is hard: listings that are stale when they are used; labels that lag behind
the ledger; a Stop, a panic and a shutdown that reach a run at any point of its
outcome; label swaps that fail, or fail after they landed; a crash between a label
and its marker, between a stage's answer and the next session's id, or inside the
lock file's creation. PROJECT.json lists each at its line under `hazards`.

What makes each part correct:

- *ledger and loop*: one run per issue, never more than `ticketsPerCycle`, no exit
  with a run alive, the sweep spares live runs, a queued issue is taken;
- *orchestrator*: a Stop is the outcome of the run it reaches, no path drops an
  issue with ai-wip on, the local marker does not run ahead of GitHub, orphans lose
  ai-wip;
- *merge-resolve*: the label worn before is put back, and only that;
- *pipeline and chain*: nothing recorded as done is done again or re-entered,
  rounds are bounded;
- *UAT*: at most one checklist, no session after its pipeline;
- *review*: rounds in order, none after the end;
- *worktree adapter*: commits are not discarded while their worktree is there,
  leftovers that git lets go do not block an issue, pushes stay fast-forwards, what is announced as
  merged is merged, the mutex comes back;
- *lock*: one owner, and it is not lost to a dead one;
- *log rotation and telemetry*: the newest lines stay on disk, none is skipped across a
  rotation, lines reach the server in order and at least once up to the cap, the
  dashboard catches up;
- *step log*: a number is one call's, numbers are in the order of the calls, the
  cache hides nothing that was on disk;
- *dashboard*: its listing never goes back, what the daemon did last is shown, what
  it writes back does not silence `ship`, titles settle, links are found.

## The modules

**`SlotPool`** is what the ledger promises, with nothing said of how: runs hold
issues, at most `Slots`, never one twice, new ones only while the process is up, an
orderly exit only of an empty pool. **`CommitStore`** is the same for commits: an
issue's branch only gains them, origin is only pushed forward, and a branch is given up
only when its worktree was removed.

**`Orchestrator`** is the core: `runloop.go`, `slots.go`, `loop.go` and
`pipeline_mergeresolve.go` over GitHub's labels. Its steps are single GitHub calls,
critical sections of `mu` and marker writes.

| TLA+ | code |
|---|---|
| `labels`, `closed` | the issue on GitHub; the eligible label is always worn |
| `marker`, `mergePrior` | `<logDir>/state`, `<logDir>/mergeresolve-prior` |
| `worktree`, `review` | the worktree directory; a chain that ends in a code review |
| `active`, `inFlight`, `cancels`, `stopping` | the fields of `Orchestrator` |
| `pc[r]`, `issue`, `kind`, `prior`, `out` | one goroutine of `runGuarded` and its locals |
| `cancelled`, `shutdown` | the run's own context, the daemon's context |
| `lpc`, `sweep`, `todo`, `seen`, `free` | `RunLoop` and the locals of its stages |
| `cont` | a Continue request between its steps |
| `faults`, `clicks`, `stops` | what is left of the bounds |
| `heard` | history: a Stop reached this run |
| `worn`, `astray` | history: the state labels an issue wore before a merge that is unfinished, without those a human has taken off; the issues whose recorded prior label went out of date |

A goroutine goes `start` → (`prior`) → `wear` → `recordWip` → `prepare` →
`pipeline` → `ship` → `review` (or `merge` → `push`) → (`strip` →) `swap` →
`record` (→ `close`) → `deferred` → `unwind` → `release`. `deferred` is the handler
that owns panic recovery and the stop outcome; `unwind` and `release` are
`clearCancel` and `release`. The inside of a pipeline, a review and a merge is its
result here. A GitHub call succeeds, is refused under a cancelled context, or
fails when its retries run out, and an edit that fails may have landed. Issues are
numbers, a smaller one is older, because `selectIssues` orders by number; `gh`
lists the newest first, so the sweep and the merge scan go downwards.

**`Pipeline`** is the inside: all runs of one issue, one after the other, a step
being a write to the log directory, an agent's answer or a GitHub call. Sessions
are numbered in the order they start. `chain` is `sessions.jsonl`, `file` the
legacy record, `call` the checkpointed agent call under way, `held` the copy
`SetHeadKind` has in memory between emptying the file and writing it, `uat` the
goroutine beside the pipeline; `reached`, `finished` and `told` are
history. It begins with a new issue or with the logs of a version without the
merged entry stage, which `ResumePipeline` and `ResumePoint` still serve. A resumed
session may go on under a new id, as the chain's `Parent` allows for. The outcome's
label swap and marker are one step here (`Finish`) and several in `Orchestrator`;
a Stop, which leaves the pipeline by the same exits as a failure, is only in
`Orchestrator`.

**`DaemonLock`** is `acquireLock` in `daemon.go`, system call by system call, for
daemons that start on one work directory and die anywhere. A lock file is named by
its creator, so that a write to a file that has lost its path is kept apart from
the file at the path. `PidAlive` is `pidAlive`: signal 0 finds the daemon of that pid, or
whatever other process bears the pid of one that is dead (`reused`: after a reboot or a
wrap-around a stranger, in a restarted container the daemon that starts itself; an EPERM
counts as alive). `raced` and `misled` are history: two processes were in `acquireLock` at
once; a daemon was turned away by a pid that was not a daemon's any more.

**`StepLog`** is the numbering of agent calls and the files they leave, and the
dashboard's reading of them through `artifactCache`. A file is who wrote it and how
long it is (`file`), so two calls in one file show. A session goes `Begin` (`nextSeq`, which
reads the directory once per `*Claude`, so anew after `NewRun`) → `Open` → `Write` of the prompt, →
`Stream` → `Return` → `Open` → `Write` of the answer, each of which may fail or be the last; a render `List` → per file `Look`
(the size) → `ReadFile` → `Store` → `Show`, with the writers between any two.
`answered`, `ended`, `spoilt` and `blind` are history; `blind` is a numbering whose
`ReadDir` failed. One number's files are shown, the other numbers only take time.

**`Dashboard`** is one issue between GitHub, its log directory, the server and its
own run. The run is here its writes to GitHub and to the directory (`PickUp` →
`Label` → `RecordWip` → `RecordTitle` → the work with the spec's and ship's pull request and
comment → an outcome), which die with the daemon anywhere. A request goes `Scan` → `Lock`
→ (`Fetch` → `Fetched`) → `PersistTitle` → `SkipPR`, `NoPR` or `FoundPR` → `KeepPR`, or, for an
issue off the listing, `AskTitle` → `KeepTitle`; `Continue` clears the marker and renders at once.
`mu` is the server's mutex, held across the listing. A title is the number of its
renaming. `aside`, `hushed`, `refused` and `want` are history, and name what the
properties except.

**`Telemetry`** is the daemon log's way to the fleet dashboard: `RotatingFile`,
`LogTailer`, `TelemetryExporter` and the server's entry of one worker. A file is its
inode (`path`, `backup`, `handle`, `last`, `opened`), because `os.SameFile` compares
inodes and a file system uses them again; a line is the number of its writing, and
has length one. The exporter's tick is `Open` → (`Drain` →) `Read` → `PushOnce` →
`IngestPush` → `Acked`, with the writer between any two; `GiveUp` is a timeout or a
refusal, after which the server may still see the push (`late`). `mark`, `turns`,
`slack`, `taken` and `foreign` are history; `foreign` marks a `.1` with a reused inode that
is not the file the tailer remembers. A line half written, which `readLines`
leaves for the next call, does not occur; sizes of contents, usage and the pages are
left out. It begins with a full log and the directories of an earlier run.

**`Worktree`** is the git side of a run: `Create` command by command with its way
round the leftovers of earlier runs, `Fetch` under the repository's mutex, the pushes,
and `RunMergeResolve`. `branch` and `remote` are an issue's branch here and at origin, a
branch being the set of its commits and the version of the base branch in it;
`linked` is git's register of worktrees, `dir` what is at the path (`"half"` when `git
worktree add` was killed in its checkout, which `rev-parse` takes for a whole one), `locked`
the registrations that git has locked while it makes the worktree, which outlives an add
that is killed,
`head` and `unmerged` are `MERGE_HEAD` and the conflict entries. A pipeline run goes
`lock` → `fetch` → `add` (→ `look` → `prune` → `delete` → `readd`) → `work` → `push`, a merge run
`lock` → `fetch` → `merge` (→ `session`) → `push`. A Stop kills the command under way and
no later one starts, which is what `ExecRunner` does with a cancelled context; a
crash ends every run at once. Sessions commit, resolve, conclude or abort as they
like but do not rewrite commits. That an issue has one run at a time is taken from
`Orchestrator`, where it is proved. `gaveUp`, `hurt`, `lost`, `taken`, `shot` and `misread` are history;
the last two are the worktrees that `Create` removed because `rev-parse` failed, under a
Stop and by itself (`isWorktree` tells neither from "no checkout").
`CommitStore` is what the repository promises: the mapping takes a branch for its
commits, `remote` for what is published, `taken`, `shot` and `misread` for the excuses.
The review's pushes are like ship's and left out, and so is a work directory that
lies inside another checkout, where `rev-parse` would take any directory for one.

**`MCOrchestrator`** and **`MCStepLog`** add the symmetry of goroutines, and of sessions
and renders. **`OrchestratorClaims`**, **`PipelineClaims`** and `StopIsNotDestructive` of
`Worktree` state what comments and documents say and the code does not keep.
**`SlotPoolProofs`**, **`OrchestratorProofs`**, **`DaemonLockProofs`**, **`PipelineProofs`**,
**`WorktreeProofs`**, **`TelemetryProofs`**, **`StepLogProofs`** and **`DashboardProofs`** hold the
proofs. Operators commented as mutants are bugs somebody could write; each
property is known to catch one of them.

## The runs

| run | asks | instance |
|---|---|---|
| `budget` | the refinement of `SlotPool` (exclusion, budget, drain), merges included | 2 issues, 2 goroutines, 1 slot, merges on, 2 clicks (merge requests), 1 crash or shutdown |
| `outcomes` | `StopWins`, `NoStrandedWip`, `MarkerFollowsLabel`, `OneRunPerIssue`, `MergeRestores` | 1 issue, 2 goroutines, 2 slots, every human act (2 of them), 1 fault, 1 crash or shutdown; 3.3 million states |
| `progress` | queued issues are taken, orphans recovered, live runs spared, shutdown ends | 2 issues, 1 goroutine, 1 slot, 1 fault, 1 requeue, 1 crash or shutdown |
| `lock` | ownership, take-over, not everybody refused | 3 daemons, a stale lock or none, dead pids used again at any moment |
| `pipeline` | `NoStageAgain`, `CompleteStaysClosed`, `ReviewProgress`, `OneChecklist`, `UatInsidePipeline`, `RunEnds` | 2 reply rounds, 2 review rounds, 3 runs, 2 texts, 5 sessions, 1 mishap |
| `telemetry` | `NewestKept`, `NothingSkipped`, `TakenInOrder`, `KeptUntilTaken`, `PendingDrains`, `ArchiveCurrent` | 3 inodes, files of 2 lines, 2 lines a push, 3 retained, a ring of 2, 4 new lines, 2 directories of which 1 is kept, 1 fault (a call, a scan, one directory of it, an answer), 1 upset (death or silence), 1 touch |
| `worktree` | the refinement of `CommitStore` (commits kept), checkouts of running issues, fast-forward pushes, leftovers cleared, merged when announced, every run ends | 2 issues, 3 runs, 2 attempts, 2 versions of the base, 1 commit, 2 mishaps (stop, crash, lost directory, failed `rev-parse`, prune or `branch -D`) |
| `steplog` | `StepIsOneCall`, `StepsInOrder`, `ReadsAreFresh`, `EndedIsShown` | 2 sessions, 2 renders, 2 calls, 2 runs, 1 transcript write, 1 fault; 1.8 million states |
| `dashboard` | `OutcomeShown`, `AnnouncedWhenDone`, `ListingAdvances`, `TitleSettles`, `LinkFound` | 2 requests, 1 run, 1 trouble (renaming, relabelling, failed call or death); 1.2 million states |
| `claim_*` | one statement of the repository each, refuted | the smallest instance that refutes it |

Type invariants have no run of their own: they are parts of the inductive invariants
proved below, as are `WithinBudget`, `DrainedBeforeExit`, `LockNamesOwner`,
`KeptUnlessGone`, `MutexExact` and `MemoryBounded`.

Why the bounds are enough. Two issues and two goroutines make every race between a
listing, a launch and a release; a third issue adds nothing that the ledger tells
apart. One slot for two issues makes the budget bind, with a goroutine to spare
that only the budget keeps idle; two slots make real concurrency. One fault and one
crash fall at every point of every handler; the hazards listed need one of each.
Two clicks are a Stop and a Continue, or a Stop and a merge request. In `pipeline`,
three runs are a run that is cut short, one that goes on and one that goes on from
that; a mishap is a crash, a lost worktree or a forked session id; five sessions
are entry, plan, execute and two review rounds, two reply rounds are what it takes to reply
to a session that has forked. The starting states have the logs of older versions, a round
marker without a session among them. With two mishaps and five sessions
the same six properties hold too (some 200 s). In `telemetry`, four lines after a
full file make two rotations between two ticks, which is when a third inode is
needed and the first may come back; a push of two lines is less than a file that
failed to rotate, so a remainder can be too large; three retained lines are fewer
than two pushes' worth, so the cap bites. In `worktree`,
three runs are one that leaves something behind, one that meets it and one that
meets what that one left; two mishaps are, say, a lost directory and a cleanup that
fails. Two commits and one mishap were checked as well (348,976 states), and so
were unlimited attempts. In `telemetry`, nine lines in files of two and ten in files of
three were checked once as well, for the safety properties. In `steplog`, two sessions are the pipeline and UAT, the
only two that call at once, two renders are what it takes to fill the cache with
something older, and two runs make the second number after the first's files. In
`dashboard`, two requests race for the listing and for what they write back; one
request with two runs and two troubles was checked for the safety properties too.
`SlotPool` and `CommitStore` have no run of their own: their promises are proved below,
and `budget` and `worktree` check that `Orchestrator` and `Worktree` implement them.

`CHECK_DEADLOCK FALSE` is said of `DaemonLock`, `Pipeline`, `Worktree`, `StepLog` and
`Dashboard`: there every process ends, and an issue that is done, or whose runs or calls
are used up, is left alone. In
`Orchestrator` a daemon that exits or dies can boot again, and in `Telemetry` the
ticker goes on, so these never stop.

Fairness. `Orchestrator` assumes weak fairness of the loop, of each goroutine and
of each Continue request once begun: the Go scheduler runs them, `gh` and `git`
calls give up after their retries, agents have time limits or are killed with their
context. Faults are bounded, so that a listing does not fail for ever: with
GitHub down for good nothing is taken, and the code promises no more. Nothing is
assumed of humans, of signals or of whoever starts the daemon, which is why the
liveness properties end in "or the process ends". `Pipeline` assumes that agents'
calls end and the two goroutines run; `DaemonLock` that system calls return;
`Worktree` that commands and sessions end and that Go's mutex starves nobody
(strong fairness of `Lock`); with the default of unlimited attempts it would also say
that an outage ends, and until it does, a run that waits for the mutex does not even
heed a Stop. `Telemetry` that the exporter's ticker goes on and the server's handler ends, with
finitely many pushes lost. Nothing there brings a dead daemon back. `Dashboard` that an open
page polls (every three seconds), that each request it makes goes on, and that the TTL
passes. `StepLog` claims safety only.

## The proofs

`SlotPoolProofs`: `Exclusive`, `Bounded` and `EmptyAtExit` for any set of issues,
of runs and any number of slots (`PoolAssumption`, which `OrchestratorProofs` shows of
its instance). The invariant adds that what runs hold is finite and that a process
that is not up has no run. `Begin`'s guard counts the issues held and the bound
speaks of runs; the two agree only because no issue is held twice.

`DaemonLockProofs`: `SoleOwner` and `LockNamesOwner` for any number of daemons that
die anywhere. The invariant says, as long as no two of them were ever in
`acquireLock` together, that an owner's lock is the file at the path with its pid
in it, and that a process about to remove a lock has seen a dead or empty one. It is
needed because `SoleOwner` alone does not say why the next daemon is refused.
`SomebodyWins` needs another one (`Traces`) and no such condition: a file at the path
that is not the stale one is a winner's, and a refusal is due to a pid that was
written, whose daemon lives or whose pid another process bears (`misled`). That last case
has to be excepted: with it every daemon can be turned away and nobody own the directory.
`SoleOwner` needs no exception, a reused pid only refuses.

`OrchestratorProofs`: from `ConstantsAssumption` alone, for any finite set of issues and
any set of goroutines,

- `TypeCorrect`, `OneRun`, `Budget`, `Drained`, `SweepIsSafe`: the invariants
  `TypeOK`, `OneRunPerIssue`, `WithinBudget`, `DrainedBeforeExit` and the action
  property `SweepSparesLive`;
- `ImplementsPool`: every step of the orchestrator is a step of `SlotPool` or
  leaves it alone, under the mapping `at <- issue` and the process's status.

The inductive invariant `IInv` is `TypeOK` with three more facts. *LedgerExact*:
`active` is the set of issues of live goroutines, each live one has its own, and
`inFlight` is its size, at most the slots; no property alone is inductive, since `tryAcquire` looks at
`active` and the properties speak of goroutines. *SweepListClean*: in the sweep's
loop `todo` has no live issue, which holds because only the loop itself launches.
*OutcomeKnown*: past the point where an outcome is chosen it is one, which types
the label it puts on. A lemma per group of actions says what the group does to the
ledger (nothing, launch, release, reset), and the theorems follow from those.

A second invariant on top of it, `FateInv`, gives `StopIsHeard`, `NothingStranded` and
`MarkerIsBehind` (`StopWins`, `NoStrandedWip`, `MarkerFollowsLabel`). It says of each goroutine what its
place tells of Stop, outcome and labels: its context is cancelled only while the
flag is up or consumed, and ai-wip stays on only where the path ahead takes it off. It
says of the issues without a goroutine that ai-wip on them is on the sweep's list,
and that a merge never remembers ai-wip as the label to restore.

A third, `PriorInv`, gives `PriorIsRestored` (`MergeRestores`): while an issue is not
astray, the label on record is one it wore, and each label it wore is on record or still
on GitHub; a merge between its prior and its swap has both exactly. Neither half is
inductive alone: a crash leaves the one on disk and the other on GitHub. The proof reads
`Current` as the chain of tests it is, since only the first state label is recorded.

About the picks: `OldestAreSelected` says that `SelectIssues` takes exactly as many as
there are, up to the free slots, and the oldest of them (the positions of a finite set
are a bijection, `RankBijection`); with `PicksFit`, that the picks left never outnumber
the slots left, `EveryPickStarts` concludes that `tryAcquire` refuses none of them: the
number read before the listing is still good when it is used, since only the loop itself
launches.

`ShutdownComesNearer` is the half of `ShutdownExits` that needs no fairness. `RunDistance`
counts the places a goroutine has ahead, `LoopDistance` those of the loop. Each step of a
goroutine lowers the one, each step of a loop with a cancelled context the other (or
takes an issue off the finite list it is working through), nobody raises either, nothing is launched during
the drain, and when no goroutine is left the counter `Wait` waits for is 0. The outcome is
part of the distance: `strip`, `swap` and `record` come before the deferred handler, or
after it when the handler itself parks or pauses, and cannot do both for ever.

`PipelineProofs`: the five safety properties of the run. `PInv` says which node heads the
chain at each place (`SessionInv`, `HeadInv`), that the stage at work, and the one a later
run would open with, is at least the furthest checkpointed (`ReachedInv`), where the UAT
goroutine can be, and which review round is under way. `NoStageAgain` alone does not
carry over a crash: it speaks of a stage at work, and the chain decides the next one.
`RunsShorten` is the safety half of `RunEnds`: `Left`, a bound of the steps a run still
has, counts the reply rounds, the review rounds and the repeated openings that are left, is
at most `Longest`, falls with every step of the run and is raised by nothing but the
pick of a new run. `RoundsInv` says that the counters stay within their limits.

`WorktreeProofs`: `WorksInCheckout`, `FastForward`, `LeftoversCleared`, `PushIsMerged` and
`KeptUnlessGone`, for any number of issues, runs, attempts and
mishaps. `GitInv` is a conjunction per issue (`Placed`, `Kept`, `Based`, `Forward`, `Cleared`, `Merged`), so
that a step of one issue leaves the others' alone but for the base branch, which only
moves on, and a prune, which takes the registrations without a checkout that are not locked.
On top of it `ImplementsStore` shows the refinement of `CommitStore` action by action
(a `branch -D` that finds commits is a step of the store only because `GitInv` says that
the worktree was removed before, which `Gone` lists: by somebody, or by a `Create` whose
`rev-parse` failed; a commit is new because `Numbered` says that they are
numbered as they are made), and `CommitsSeparate` carries the store's own promise over:
no commit on two issues' branches, nothing on origin that its branch has not.
`MutexIsExact` says that the mutex is held exactly inside `Create` and `Fetch`, on every
way out of them, and `RunsComeNearer`, the safety half of `WorktreeRunEnds`, that each
step of a run passes a place or uses up an attempt and that nobody takes it back
(`MutexInv` is the invariant of both).

`TelemetryProofs`: `NewestKept`, `NothingSkipped`, `TakenInOrder`, `KeptUntilTaken` for any number of inodes, lines and
faults, and any sizes of files, pushes and rings. `TInv` says what two log files hold
together (`FilesInv`: they end with the newest line, and the first begins where the other
ends), that what is held is in order and newer than all that was sent (`HeldInv`, `SentInv`),
and that what is yet to be read is newer still (`FreshInv`) and complete (`SkipInv`).
`MemoryIsBounded` adds the limits: what one push reads, with the remainder of the `.1`, what is
held and sent, and the server's ring. That the archive keeps to `MaxDirs` is not proved: it
needs the type of a `SelectSeq`, of which the library has no theorem.

`StepLogProofs`: all four properties. `StepInv` says that numbers follow the order of calls
and files bear their call's number (`NumberInv`), that a session's files ahead are not
yet written (`FileInv`), and that what the cache or a render holds of a file is at most its size
and at least what it was when looked at (`ReadInv`).

`DashboardProofs`: `ListingAdvances` (who refreshes the listing holds the mutex: `ListInv`), `OutcomeShown` (a
marker that has not parted from the label says the same, and a ticket keeps it:
`ShownInv`), and `AnnouncedWhenDone` (a marker the run finds stands for a comment, or for one
of the named losses: `LinkInv`).

Every theorem rests on the `ASSUME` of its module alone, which fixes the types of its
constants and no bound. Only model-checked: all liveness (`EligibleIsTaken`,
`OrphansRecovered`, `ShutdownExits`, `TakenOver`, `RunEnds`, `WorktreeRunEnds`, `PendingDrains`, `ArchiveCurrent`,
`TitleSettles`, `LinkFound`), which the prover cannot do under fairness. Of `ShutdownExits`,
`RunEnds` and `WorktreeRunEnds` it is proved that nothing goes round in a circle; that
somebody takes the steps is TLC's.

## What the runs found

- **A stop flag leaks** (`claim_stop_flag`, `loop.go:110`). The deferred handler
  consumes the flag; `clearCancel` comes later. A Stop between the two finds the
  cancel function, sets the flag, and nobody consumes it: the issue's next run bails
  out of its pipeline and is paused. The comment at `loop.go:186-188` says that a flag
  cannot leak.
- **A Stop can destroy a worktree** (`claim_reuse`, `worktree.go:80`). `isWorktree` says
  no whenever its `rev-parse` fails, also because a Stop or a shutdown has just
  cancelled it, and `Create` then removes the directory with whatever was not yet
  committed. The prune and the `branch -D` fail under the same context, but the next
  run finds a bare branch and deletes it: the commits that were not pushed are gone,
  and after an earlier push no later one is accepted. The same
  happens without a Stop when `rev-parse` fails by itself (no process to be had, an I/O
  error, git's check of the directory's owner), since `worktree.go:105` asks only whether
  there was an error. `KeptUnlessGone`, which is proved, says that these two and a
  directory somebody removed are the only ways.
- **The snapshot is not what the session saw** (`claim_snapshot`,
  `pipeline_entry.go:105`). Every opening records the text it fetched, also when the
  session is told only `continue` (after ai-rework) or dies before it starts. When
  that session later asks for information, the diff of the answer leaves out what
  the human wrote before.

Behaviour the models show and no run states. Among the hazards with a note: a
Stop during `Prepare` parks through `abort`; a shutdown during a merge's push parks;
`pause` can add ai-stopped beside another outcome's label; the merge scan takes a
stopped issue; a Continue can clear the marker of a run that just began. The tailer
reads at most one push of a rotated file and resets its offset, so the rest of a
larger remainder is never sent, though `telemetry_tailer.go:41-44` and
`telemetry_exporter.go:22-24` say that it is. A rotation whose backing out fails too
leaves no file at the path, so that every later rename fails, though
`logrotate.go:73-74` expects a later attempt to succeed.
`pidAlive` (`daemon.go:74-77`) takes any process that bears the lock's pid for its owner. A
stale lock whose pid is in use again refuses every daemon as long as that process
lives, which in a container restarted with its volume is the daemon's own pid 1 and so for
ever, though `daemon.go:21-22` and `docs/operations.md:22-23` say that a stale lock is taken
over; somebody has to delete the file (`misled`, which `TakenOver` and `SomebodyWins` except).
A `git worktree add` that is killed leaves git's own `locked` file in the registration (the
process group gets SIGKILL, `runner.go:46-48`). The half-made checkout is reused as long as
`rev-parse` finds it. Without it, `git worktree prune` (`worktree.go:92`) spares the
registration, `branch -D` is refused when the registration is already on the branch, and
the second add fails ("missing but locked", or "already exists"), in this run and in every later one until a human
unlocks it (`locked`, which `LeftoversCleared` excepts).
Two daemons that start at the same moment can both own a work directory: the lock
is created and then written (`daemon.go:62`), and who reads it in between takes it for
garbage, which `SoleOwner` excludes by name. `SetHeadKind` rewrites the chain in place
(`sessions.go:143`), so that a crash can lose it; the legacy session file still leads
to the right session (`NoStageAgain`). `handleIssue` calls `Create` for every run,
though `worktree.go:61-64` says that rework never does and that a leftover is stale: when
the directory of a parked issue is gone, `branch -D` discards commits that the branch
still had. A merge left in progress is continued as it is (`RunMergeResolve`), so that
after a further fetch the announced "Merged `origin/<base>`" may be an older version of
it; `asked` is therefore the version the session was given. A session that aborts the
merge and does not answer "blocked" passes. A pipeline run does not look for an open
merge, and its pushes and its ship succeed beside one.
A listing is filtered through the ledger after it has returned, so a run that was alive
when GitHub answered and has parked and released its slot since passes the filter and
is picked once more, which `docs/operations.md:32-35` excludes; two at once cannot
happen (`OneRunPerIssue`, proved). In the same way a merge's listing is stale when a
human removes a label meanwhile, and the restore puts it back; so is the prior on record
when a human takes off the label it names after a merge that crashed. These two are the
issues `astray`, which `MergeRestores` excepts. After a merge that crashed the sweep takes
ai-wip off, so that until the merge scan comes by the issue wears no state label and
is eligible, also one that was ai-done.
When two rotations fall into one call of the tailer and the file system reuses the
remembered inode, `drainRotated` reads a newer `.1` for the old one, and lines are sent
out of order or twice, though `telemetry_tailer.go:93-95` says a file is never misread
(`NeverMisread` excludes it).

*The step log.* A call that fails or is killed leaves a prompt without a `.json`, which
the page shows as running for ever (`tracker.go:400`); a prompt that could not be written
is shown as ok (`tracker.go:402`). `nextSeq` starts at 1 again when `ReadDir` fails
(`claude.go:225`) and the call writes over the files of the first (`blind`).

*The dashboard.* Its `backfillPR` writes the marker that `ship` reads as "announced"
(`serve.go:289`, `loop.go:554`): after a death or a failed call between `CreatePR` and the
comment, the link never reaches the issue (`hushed`). A lookup that fails for good, a
lost login for one, is remembered as "genuinely has no PR" (`serve.go:279`). A crash between a label and
its marker, or a human's relabelling, leaves a marker that the page prefers to
GitHub, though `tracker.go:547-552` calls it the fresher one. ai-needs-info is in neither
`pickStateLabel` nor `stateKind`, so it is shown as queued. After Continue the
fragment may still show ai-stopped from a listing younger than the TTL
(`serve.go:330-332`). `persistTitles` can write an older title over a newer one, which the
next poll heals (`TitleSettles`). A ticket known by its label only gets a log directory
from `backfillPR`.

`docs/how-it-works.md:216` and `243-248` still say that a run after ai-needs-info
or ai-rework starts a new conversation; `ResumePipeline` resumes the old one.

## Not modelled

Page limits of listings, the escaping and the byte budgets of telemetry's contents, the
usage snapshot and the delays of retries. The moment in which a killed `git worktree add` has
made the worktree's `HEAD` but not yet pointed it at the branch: `rev-parse` then takes
the directory for a checkout, and the run works on no branch at all. Configuration decoding, preflight, prompts,
rendering, image download, the usage hook and the status line are pure I/O or text.
Comments other than the checklist and the link, park causes, transcripts and usage
files are written for people and read by nothing modelled. A pull request that was
closed leaves its `pr` marker, and an agent can survive its daemon: in the models a branch
has at most one pull request, and sessions end with the daemon, because the code sets
no bound on what a survivor writes.

## What could follow

An abstract log of which the server holds a window, implemented by `Telemetry`;
`Orchestrator` and `Dashboard` composed over one set of markers, of which each now has the
other's part in outline; the safety halves of `EligibleIsTaken` and `OrphansRecovered`.
