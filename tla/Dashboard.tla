----------------------------- MODULE Dashboard -----------------------------
(***************************************************************************)
(* One issue on the daemon's dashboard.  The web server (worker/web/        *)
(* serve.go, tracker.go) builds the issue's ticket from its log directory   *)
(* and from a cached listing of GitHub, and writes titles and pull-request *)
(* links back into that directory, into which the issue's runs              *)
(* (worker/engine) write as well.  Requests are served concurrently.       *)
(*                                                                         *)
(* A title is the number of its renaming, 0 when there is none.  A run is  *)
(* here what it does to GitHub and to the directory: Orchestrator and      *)
(* Pipeline have the rest of it.                                           *)
(***************************************************************************)
EXTENDS Integers

CONSTANTS
  Requests,    \* requests the server handles at the same time
  MaxRuns,     \* bound: runs of the issue
  MaxTrouble   \* bound: renamings and label edits by a human, GitHub calls that
               \* fail and deaths of the daemon, all together

ASSUME DashboardAssumption ==
  /\ Requests # {} /\ "free" \notin Requests
  /\ MaxRuns \in Nat /\ MaxTrouble \in Nat

Parked == {"ai-rework", "ai-needs-info", "ai-stopped"}
NoList == [ready |-> FALSE, listed |-> FALSE, title |-> 0, label |-> "none"]
NoTicket == [shown |-> FALSE, title |-> 0, state |-> "", pr |-> FALSE]

VARIABLES
  label,      \* GitHub: the state label
  eligible,   \* GitHub: the eligible label is on
  title,      \* GitHub: the title
  pr,         \* GitHub: the branch has a pull request
  announced,  \* GitHub: its link is in a comment
  logged,     \* disk: the log directory is there
  state,      \* disk: the marker "state", "" when absent
  titleFile,  \* disk: the marker "title"
  prFile,     \* disk: the marker "pr"
  run,        \* where the issue's run is
  saw,        \* the title in the run's listing
  had,        \* ship's alreadyAnnounced
  list,       \* Server.ghIssues and ghReady
  expired,    \* the list is older than the TTL
  mu,         \* who holds Server.mu across a listing
  prTried, titleTried,
  pc,         \* where each request is
  tk,         \* the ticket it builds
  answer,     \* what GitHub told it
  runs, trouble,  \* what is left of the bounds
  aside,      \* history: label and marker have parted, by a human or a crash
  hushed,     \* history: a pr marker, or a lost comment, without a link on GitHub
  refused,    \* history: this process took GitHub's answer that there is no PR
  want        \* history: the state a request is to show, "" for any

github == <<label, eligible, title, pr, announced>>
disk == <<logged, state, titleFile, prFile>>
cache == <<list, expired, mu, prTried, titleTried>>
request == <<pc, tk, answer, want>>
bounds == <<runs, trouble>>
history == <<aside, hushed, refused>>
vars == <<github, disk, run, saw, had, cache, request, bounds, history>>

Free == "free"
Spend(b) == b > 0 /\ b' = b - 1

Init ==
  /\ label = "none" /\ eligible = TRUE /\ title = 1 /\ pr = FALSE /\ announced = FALSE
  /\ logged = FALSE /\ state = "" /\ titleFile = 0 /\ prFile = FALSE
  /\ run = "idle" /\ saw = 0 /\ had = FALSE
  /\ list = NoList /\ expired = FALSE /\ mu = Free /\ prTried = FALSE /\ titleTried = FALSE
  /\ pc = [q \in Requests |-> "idle"]
  /\ tk = [q \in Requests |-> NoTicket]
  /\ answer = [q \in Requests |-> NoList]
  /\ want = [q \in Requests |-> ""]
  /\ runs = MaxRuns /\ trouble = MaxTrouble
  /\ aside = FALSE /\ hushed = FALSE /\ refused = FALSE

-----------------------------------------------------------------------------
(* The issue's run *)

dashboard == <<cache, request, refused>>

\* The poll loop lists the issue.
PickUp ==
  /\ run = "idle" /\ label = "none" /\ eligible /\ Spend(runs)
  /\ run' = "label" /\ saw' = title
  /\ hushed' = (prFile /\ ~announced)
  /\ UNCHANGED <<github, disk, had, dashboard, trouble, aside>>

\* AddLabel, or a failure of it, which ends the run; it may have landed all the same.
Label ==
  /\ run = "label"
  /\ \/ label' = "ai-wip" /\ run' = "state" /\ UNCHANGED <<trouble, aside>>
     \/ /\ Spend(trouble) /\ run' = "idle"
        /\ label' \in {label, "ai-wip"}
        /\ aside' = (aside \/ label' = "ai-wip")
  /\ UNCHANGED <<eligible, title, pr, announced, disk, saw, had, dashboard, runs, hushed>>

\* RecordState, which makes the directory when there is none.
Record(s) == state' = s /\ logged' = TRUE /\ aside' = FALSE

RecordWip ==
  /\ run = "state" /\ Record("ai-wip")
  /\ run' = "title"
  /\ UNCHANGED <<github, titleFile, prFile, saw, had, dashboard, bounds, hushed>>

RecordTitle ==
  /\ run = "title"
  /\ titleFile' = saw /\ logged' = TRUE /\ saw' = 0
  /\ run' = "work"
  /\ UNCHANGED <<github, state, prFile, had, dashboard, bounds, history>>

\* What the work comes to: a spec to push, a branch to ship, or a swap of ai-wip
\* for the label of another outcome.
Outcome == [done |-> "ai-done", close |-> "ai-done", park |-> "ai-rework", ask |-> "ai-needs-info",
            pause |-> "ai-stopped"]
Work ==
  /\ run = "work"
  /\ run' \in {"spec", "ship", "close", "park", "ask", "pause"}
  /\ UNCHANGED <<github, disk, saw, had, dashboard, bounds, history>>

\* CreatePR opens the pull request or finds the one there is.  It may fail, and
\* may have landed although it failed.
CreatePR(then, otherwise) ==
  \/ pr' = TRUE /\ run' \in then /\ UNCHANGED trouble
  \/ pr' \in {pr, TRUE} /\ run' \in otherwise /\ Spend(trouble)

\* The comment with the link; its failure is logged or ignored.
Announce ==
  \/ announced' = TRUE /\ UNCHANGED <<hushed, trouble>>
  \/ Spend(trouble) /\ hushed' = TRUE /\ UNCHANGED announced

\* pushSpecPR.
SpecCreate ==
  /\ run = "spec" /\ CreatePR({"specComment"}, {"work"})
  /\ UNCHANGED <<label, eligible, title, announced, disk, saw, had, dashboard, runs, aside, hushed>>

SpecComment ==
  /\ run = "specComment" /\ Announce
  /\ run' = "specRecord"
  /\ UNCHANGED <<label, eligible, title, pr, disk, saw, had, dashboard, runs, aside>>

SpecRecord ==
  /\ run = "specRecord"
  /\ prFile' = TRUE /\ logged' = TRUE
  /\ run' = "work"
  /\ UNCHANGED <<github, state, titleFile, saw, had, dashboard, bounds, history>>

\* ship, from HasPR on.
ShipLook ==
  /\ run = "ship"
  /\ had' = prFile
  /\ run' = "shipCreate"
  /\ UNCHANGED <<github, disk, saw, dashboard, bounds, history>>

ShipCreate ==
  /\ run = "shipCreate" /\ CreatePR({"shipComment"}, {"park", "pause"})
  /\ UNCHANGED <<label, eligible, title, announced, disk, saw, had, dashboard, runs, aside, hushed>>

\* Mutant: HasPR is asked after CreatePR.
ShipCommentLate ==
  /\ run = "shipComment"
  /\ IF prFile THEN UNCHANGED <<announced, hushed, trouble>> ELSE Announce
  /\ run' = "shipRecord"
  /\ UNCHANGED <<label, eligible, title, pr, disk, saw, had, dashboard, runs, aside>>

ShipComment ==
  /\ run = "shipComment"
  /\ IF had THEN UNCHANGED <<announced, hushed, trouble>> ELSE Announce
  /\ run' = "shipRecord"
  /\ UNCHANGED <<label, eligible, title, pr, disk, saw, had, dashboard, runs, aside>>

\* RecordPR, unless there is a link already; then the review, which may fail and park the issue.
ShipRecord ==
  /\ run = "shipRecord"
  /\ prFile' = TRUE /\ logged' = TRUE /\ had' = FALSE
  /\ run' \in {"done", "park", "pause"}
  /\ UNCHANGED <<github, state, titleFile, saw, dashboard, bounds, history>>

\* The swap to the outcome's label.  When it fails, landed or not, park records its
\* state all the same, and the other outcomes nothing.
Swap ==
  /\ run \in DOMAIN Outcome
  /\ \/ label' = Outcome[run] /\ run' = Outcome[run] /\ UNCHANGED <<trouble, aside>>
     \/ /\ Spend(trouble) /\ label' \in {label, Outcome[run]}
        /\ aside' = TRUE
        /\ run' = IF run = "park" THEN "ai-rework" ELSE "idle"
  /\ UNCHANGED <<eligible, title, pr, announced, disk, saw, had, dashboard, runs, hushed>>

RecordOutcome ==
  /\ run \in {Outcome[o] : o \in DOMAIN Outcome}
  /\ state' = run /\ logged' = TRUE
  /\ run' = "idle"
  /\ UNCHANGED <<github, titleFile, prFile, saw, had, dashboard, bounds, history>>

RunStep ==
  \/ PickUp \/ Label \/ RecordWip \/ RecordTitle \/ Work
  \/ SpecCreate \/ SpecComment \/ SpecRecord
  \/ ShipLook \/ ShipCreate \/ ShipComment \/ ShipRecord \/ Swap \/ RecordOutcome

-----------------------------------------------------------------------------
(* A death of the daemon, the boot after it, and what humans do *)

Crash ==
  /\ Spend(trouble)
  /\ run' = "boot" /\ saw' = 0 /\ had' = FALSE
  /\ aside' = (aside \/ run # "idle")
  /\ list' = NoList /\ expired' = FALSE /\ mu' = Free
  /\ prTried' = FALSE /\ titleTried' = FALSE /\ refused' = FALSE
  /\ pc' = [q \in Requests |-> "idle"] /\ tk' = [q \in Requests |-> NoTicket]
  /\ answer' = [q \in Requests |-> NoList] /\ want' = [q \in Requests |-> ""]
  /\ UNCHANGED <<github, disk, runs, hushed>>

\* SweepOrphans, tried again until it succeeds.
Boot ==
  /\ run = "boot"
  /\ IF label = "ai-wip" THEN label' = "none" /\ run' = "clear"
                         ELSE run' = "idle" /\ UNCHANGED label
  /\ UNCHANGED <<eligible, title, pr, announced, disk, saw, had, dashboard, bounds,
                 aside, hushed>>

ClearState ==
  /\ run = "clear"
  /\ state' = "" /\ run' = "idle"
  /\ UNCHANGED <<github, logged, titleFile, prFile, saw, had, dashboard, bounds, history>>

untouched == <<pr, announced, disk, run, saw, had, dashboard, runs, hushed>>

Rename ==
  /\ Spend(trouble)
  /\ title' = title + 1
  /\ UNCHANGED <<label, eligible, aside, untouched>>

Requeue ==
  /\ label \in Parked \cup {"ai-done"} /\ Spend(trouble)
  /\ label' = "none" /\ aside' = TRUE
  /\ UNCHANGED <<eligible, title, untouched>>

Withhold ==
  /\ Spend(trouble)
  /\ eligible' = ~eligible
  /\ UNCHANGED <<label, title, aside, untouched>>

Expire ==
  /\ list.ready /\ ~expired
  /\ expired' = TRUE
  /\ UNCHANGED <<github, disk, run, saw, had, list, mu, prTried, titleTried, request,
                 bounds, history>>

-----------------------------------------------------------------------------
(* A request: mutate's Continue, perhaps, and load *)

issue == <<github, run, saw, had, runs, hushed>>
Goto(q, l) == pc' = [pc EXCEPT ![q] = l]

\* The Continue button of a ticket shown as stopped: RemoveLabel, which is no
\* error for a label that is not there, and then ClearState.
Continue(q) ==
  /\ pc[q] = "idle" /\ "ai-stopped" \in {label, state} /\ run \in {"idle", "boot", "clear"}
  /\ label' = IF label = "ai-stopped" THEN "none" ELSE label
  /\ Goto(q, "clear")
  /\ UNCHANGED <<eligible, title, pr, announced, disk, run, saw, had, cache, tk,
                 answer, want, bounds, history>>

Cleared(q) ==
  /\ pc[q] = "clear"
  /\ state' = "" /\ aside' = (aside \/ label # "none")
  /\ Goto(q, "idle")
  /\ UNCHANGED <<issue, logged, titleFile, prFile, cache, tk, answer, want, trouble, refused>>

\* scanLogs.
Scan(q) ==
  /\ pc[q] = "idle"
  /\ tk' = [tk EXCEPT ![q] = [shown |-> logged, title |-> titleFile,
                              state |-> state, pr |-> prFile]]
  /\ want' = [want EXCEPT ![q] = IF run = "idle" /\ ~aside /\ label # "none"
                                 THEN label ELSE ""]
  /\ Goto(q, "issues")
  /\ UNCHANGED <<issue, disk, cache, answer, trouble, aside, refused>>

\* pickStateLabel, which does not know ai-needs-info and falls to the eligible label.
Pick(l) == IF l \in {"none", "ai-needs-info"} THEN "eligible" ELSE l

\* Mutant: what GitHub said last is preferred to the marker.
OverlayListed(t, a) ==
  IF a.listed
  THEN [t EXCEPT !.shown = TRUE, !.title = a.title, !.state = Pick(a.label)]
  ELSE t

\* overlayIssues: ticket t under the list a.
Overlay(t, a) ==
  IF a.listed
  THEN [shown |-> TRUE, title |-> a.title, pr |-> t.pr,
        state |-> IF t.state = "" THEN Pick(a.label) ELSE t.state]
  ELSE t

\* The list a is known; a title that is not the one on disk goes to persistTitles.
Listed(q, a) ==
  LET t == Overlay(tk[q], a) IN
  /\ tk' = [tk EXCEPT ![q] = t]
  /\ answer' = [answer EXCEPT ![q] = NoList]
  /\ Goto(q, IF tk[q].shown /\ t.title # tk[q].title THEN "persist" ELSE "pr")

\* Mutant: the list is fetched without the mutex.
LockNothing(q) ==
  /\ pc[q] = "issues"
  /\ IF list.ready /\ ~expired THEN Listed(q, list)
                               ELSE Goto(q, "fetch") /\ UNCHANGED <<tk, answer>>
  /\ UNCHANGED <<issue, disk, cache, want, trouble, aside, refused>>

\* issues: the mutex is held from here until the list is known.
Lock(q) ==
  /\ pc[q] = "issues" /\ mu = Free
  /\ IF list.ready /\ ~expired
     THEN Listed(q, list) /\ UNCHANGED mu
     ELSE Goto(q, "fetch") /\ mu' = q /\ UNCHANGED <<tk, answer>>
  /\ UNCHANGED <<issue, disk, list, expired, prTried, titleTried, want, trouble,
                 aside, refused>>

\* GitHub answers the listing, which holds the issue while it is eligible.
Fetch(q) ==
  /\ pc[q] = "fetch"
  /\ answer' = [answer EXCEPT ![q] =
       IF eligible THEN [ready |-> TRUE, listed |-> TRUE, title |-> title, label |-> label]
                   ELSE [NoList EXCEPT !.ready = TRUE]]
  /\ Goto(q, "fetched")
  /\ UNCHANGED <<issue, disk, cache, tk, want, trouble, aside, refused>>

Fetched(q) ==
  /\ pc[q] = "fetched"
  /\ list' = answer[q] /\ expired' = FALSE
  /\ mu' = Free
  /\ Listed(q, answer[q])
  /\ UNCHANGED <<issue, disk, prTried, titleTried, want, trouble, aside, refused>>

\* The listing fails: the last list serves, or the ticket is of the logs alone.
FetchFails(q) ==
  /\ pc[q] = "fetch" /\ Spend(trouble)
  /\ mu' = Free
  /\ IF list.ready THEN Listed(q, list) ELSE Goto(q, "pr") /\ UNCHANGED <<tk, answer>>
  /\ UNCHANGED <<issue, disk, list, expired, prTried, titleTried, want, aside, refused>>

\* Mutant: only a title that is missing is written.
PersistMissing(q) ==
  /\ pc[q] = "persist"
  /\ titleFile' = IF titleFile = 0 THEN tk[q].title ELSE titleFile
  /\ logged' = TRUE
  /\ Goto(q, "pr")
  /\ UNCHANGED <<issue, state, prFile, cache, tk, answer, want, trouble, aside, refused>>

PersistTitle(q) ==
  /\ pc[q] = "persist"
  /\ titleFile' = tk[q].title /\ logged' = TRUE
  /\ Goto(q, "pr")
  /\ UNCHANGED <<issue, state, prFile, cache, tk, answer, want, trouble, aside, refused>>

\* The page is out when the ticket t has a title or none is to be looked for.
Untitled(t) == t.shown /\ t.title = 0 /\ ~titleTried
Onward(q, t) ==
  /\ Goto(q, IF Untitled(t) THEN "title" ELSE "idle")
  /\ tk' = [tk EXCEPT ![q] = IF Untitled(t) THEN t ELSE NoTicket]
  /\ want' = [want EXCEPT ![q] = ""]

\* backfillPR.  No ticket, a link, or an answer of before: nothing is asked.
SkipPR(q) ==
  /\ pc[q] = "pr" /\ (~tk[q].shown \/ tk[q].pr \/ prTried)
  /\ Onward(q, tk[q])
  /\ UNCHANGED <<issue, disk, cache, answer, trouble, aside, refused>>

AskPR(q) == pc[q] = "pr" /\ tk[q].shown /\ ~tk[q].pr /\ ~prTried

\* Mutant: a call that failed for the moment is remembered as an answer.
NoPRRemembered(q) ==
  /\ AskPR(q)
  /\ \/ ~pr /\ refused' = TRUE /\ UNCHANGED trouble
     \/ Spend(trouble) /\ UNCHANGED refused
  /\ prTried' = TRUE
  /\ Onward(q, tk[q])
  /\ UNCHANGED <<issue, disk, list, expired, mu, titleTried, answer, aside>>

\* There is no pull request, or the call fails for good: that is remembered.  A
\* call that fails for the moment is not.
NoPR(q) ==
  /\ AskPR(q)
  /\ \/ ~pr /\ prTried' = TRUE /\ refused' = TRUE /\ UNCHANGED trouble
     \/ Spend(trouble) /\ prTried' = TRUE /\ refused' = TRUE
     \/ Spend(trouble) /\ UNCHANGED <<prTried, refused>>
  /\ Onward(q, tk[q])
  /\ UNCHANGED <<issue, disk, list, expired, mu, titleTried, answer, aside>>

FoundPR(q) ==
  /\ AskPR(q) /\ pr
  /\ Goto(q, "keepPR")
  /\ UNCHANGED <<issue, disk, cache, tk, answer, want, trouble, aside, refused>>

\* A run whose ship has looked for the marker is not kept from announcing.
Shipping == run \in {"shipCreate", "shipComment", "shipRecord"}
KeepPR(q) ==
  /\ pc[q] = "keepPR"
  /\ prTried' = TRUE /\ prFile' = TRUE /\ logged' = TRUE
  /\ hushed' = (hushed \/ ~(announced \/ Shipping))
  /\ Onward(q, tk[q])
  /\ UNCHANGED <<github, run, saw, had, runs, state, titleFile,
                 list, expired, mu, titleTried, answer, trouble, aside, refused>>

\* backfillTitle.
AskTitle(q) ==
  /\ pc[q] = "title"
  /\ \/ /\ tk' = [tk EXCEPT ![q].title = title]
        /\ Goto(q, "keepTitle") /\ UNCHANGED <<titleTried, trouble>>
     \/ /\ Spend(trouble) /\ titleTried' \in {titleTried, TRUE}
        /\ Goto(q, "idle") /\ tk' = [tk EXCEPT ![q] = NoTicket]
  /\ UNCHANGED <<issue, disk, list, expired, mu, prTried, answer, want, aside, refused>>

KeepTitle(q) ==
  /\ pc[q] = "keepTitle"
  /\ titleTried' = TRUE /\ titleFile' = tk[q].title /\ logged' = TRUE
  /\ Goto(q, "idle") /\ tk' = [tk EXCEPT ![q] = NoTicket]
  /\ UNCHANGED <<issue, state, prFile, list, expired, mu, prTried, answer, want,
                 trouble, aside, refused>>

Serve(q) ==
  \/ Cleared(q) \/ Scan(q) \/ Lock(q) \/ Fetch(q) \/ Fetched(q) \/ FetchFails(q)
  \/ PersistTitle(q) \/ SkipPR(q) \/ NoPR(q) \/ FoundPR(q) \/ KeepPR(q)
  \/ AskTitle(q) \/ KeepTitle(q)

Next ==
  \/ RunStep \/ Crash \/ Boot \/ ClearState
  \/ Rename \/ Requeue \/ Withhold \/ Expire
  \/ \E q \in Requests : Continue(q) \/ Serve(q)

Spec == Init /\ [][Next]_vars

\* An open page polls every three seconds, each request goes on, and time passes.
\* Each of these steps changes pc, and the last changes expired.
FairSpec ==
  /\ Spec /\ WF_expired(Expire)
  /\ \A q \in Requests : WF_pc(Serve(q))

-----------------------------------------------------------------------------
(* Properties *)

\* The list never goes back to an older one while the process lives, although
\* requests refresh it together (issues holds mu across the call).
ListingAdvances ==
  [][list.listed /\ list'.listed /\ list'.ready => list.title <= list'.title]_vars

\* A request that began after the daemon's last change of the label, with nothing
\* under way and no human or crash in between, shows that change, however old the
\* listing is (overlayIssues).
OutcomeShown ==
  \A q \in Requests :
    pc[q] \in {"persist", "pr", "keepPR"} /\ want[q] # ""
      => tk[q].shown /\ tk[q].state = want[q]

\* Before ship marks an issue done the link of its pull request is in a comment.
\* Not so when that comment failed, or when the pull request had been recorded
\* before ship looked without one: by the dashboard, after a death or a failed call
\* between CreatePR and the comment.
AnnouncedWhenDone == run = "done" => announced \/ hushed

\* The title on disk becomes GitHub's, although runs and requests write older
\* listings' titles in any order (persistTitles, RecordTitle).
TitleSettles == <>[](eligible /\ logged => titleFile = title)

\* A pull request that no marker records is found, unless this process had already
\* been told that there is none (backfillPR).
LinkFound == <>[](pr /\ logged => prFile \/ refused)
=============================================================================
