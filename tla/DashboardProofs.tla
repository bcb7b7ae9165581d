-------------------------- MODULE DashboardProofs --------------------------
(***************************************************************************)
(* The dashboard's three safety properties for any number of requests, runs *)
(* and troubles, each from an invariant of its own.                         *)
(***************************************************************************)
EXTENDS Dashboard, TLAPS

-----------------------------------------------------------------------------
(* The list never goes back *)

\* A request that refreshes the list holds the mutex, so what it was told is no
\* older than the list it replaces.
ListInv ==
  /\ title \in Nat /\ list.title \in 0 .. title
  /\ pc = [q \in Requests |-> pc[q]] /\ answer = [q \in Requests |-> answer[q]]
  /\ \A q \in Requests : answer[q].title \in 0 .. title
  /\ \A q \in Requests : pc[q] \in {"fetch", "fetched"} => mu = q
  /\ \A q \in Requests : pc[q] = "fetched" /\ answer[q].listed => list.title <= answer[q].title

listing == <<title, list, answer, pc, mu>>

LEMMA EmptyList == NoList.title = 0 /\ ~NoList.listed /\ ~NoList.ready
  BY DEF NoList

LEMMA ListInit == Init => ListInv
  <1> SUFFICES ASSUME Init PROVE ListInv
    OBVIOUS
  <1>0. title = 1 /\ list = NoList
    BY DEF Init
  <1>1. title \in Nat /\ list.title \in 0 .. title
    BY <1>0, EmptyList
  <1>2. pc = [q \in Requests |-> pc[q]] /\ answer = [q \in Requests |-> answer[q]]
    BY DEF Init
  <1>3. \A q \in Requests : answer[q] = NoList /\ pc[q] = "idle"
    BY DEF Init
  <1> QED BY <1>0, <1>1, <1>2, <1>3, EmptyList DEF ListInv

\* What leaves the list, the requests and the title alone.
LEMMA ListKept ==
  ASSUME ListInv, UNCHANGED listing
  PROVE  ListInv' /\ list' = list
  BY DEF ListInv, listing

LEMMA ListRun ==
  ASSUME ListInv, RunStep
  PROVE  ListInv' /\ list' = list
  <1> USE DEF github, cache, request, dashboard
  <1>1. UNCHANGED listing
    <2> USE DEF listing
    <2>1. CASE PickUp BY <2>1 DEF PickUp
    <2>2. CASE Label BY <2>2 DEF Label
    <2>3. CASE RecordWip \/ RecordTitle \/ Work BY <2>3 DEF RecordWip, RecordTitle, Work
    <2>4. CASE SpecCreate \/ ShipCreate BY <2>4 DEF SpecCreate, ShipCreate
    <2>5. CASE SpecComment \/ ShipComment BY <2>5 DEF SpecComment, ShipComment
    <2>6. CASE SpecRecord \/ ShipLook \/ ShipRecord BY <2>6 DEF SpecRecord, ShipLook, ShipRecord
    <2>7. CASE Swap \/ RecordOutcome BY <2>7 DEF Swap, RecordOutcome
    <2> QED BY <2>1, <2>2, <2>3, <2>4, <2>5, <2>6, <2>7 DEF RunStep
  <1> QED BY <1>1, ListKept

\* The boot, the humans, and time.
LEMMA ListOthers ==
  ASSUME ListInv, Boot \/ ClearState \/ Rename \/ Requeue \/ Withhold \/ Expire
  PROVE  ListInv' /\ list' = list
  <1> USE DEF github, cache, request, dashboard, untouched
  <1>1. CASE Rename
    BY <1>1 DEF Rename, ListInv, Spend
  <1>2. CASE Boot \/ ClearState
    BY <1>2, ListKept DEF Boot, ClearState, ListInv, listing
  <1>3. CASE Requeue \/ Withhold \/ Expire
    BY <1>3, ListKept DEF Requeue, Withhold, Expire, ListInv, listing
  <1> QED BY <1>1, <1>2, <1>3

\* The ticket's list is taken over, q goes on to "persist" or "pr".
LEMMA ListTaken ==
  ASSUME ListInv, NEW q \in Requests, NEW a, Listed(q, a)
  PROVE  /\ answer' = [answer EXCEPT ![q] = NoList]
         /\ \/ pc' = [pc EXCEPT ![q] = "persist"]
            \/ pc' = [pc EXCEPT ![q] = "pr"]
  BY DEF Listed, Goto

\* A request that asks GitHub for the list, or has its answer.
LEMMA ListServe ==
  ASSUME ListInv, NEW q \in Requests, Lock(q) \/ Fetch(q) \/ Fetched(q) \/ FetchFails(q)
  PROVE  ListInv' /\ (list.listed /\ list'.listed => list.title <= list'.title)
  <1> USE DEF issue, github, cache, ListInv, NoList
  <1>1. CASE Lock(q)
    <2>1. UNCHANGED <<title, list>> BY <1>1 DEF Lock
    <2>2. CASE Listed(q, list) /\ UNCHANGED mu
      BY <2>1, <2>2, <1>1, ListTaken DEF Lock
    <2>3. CASE Goto(q, "fetch") /\ mu' = q /\ UNCHANGED answer
      BY <2>1, <2>3, <1>1, DashboardAssumption DEF Lock, Goto, Free
    <2> QED BY <1>1, <2>2, <2>3 DEF Lock
  <1>2. CASE Fetch(q)
    <2> DEFINE yes == [ready |-> TRUE, listed |-> TRUE, title |-> title, label |-> label]
               no == [NoList EXCEPT !.ready = TRUE]
    <2>0. yes.title = title /\ no.title = 0 /\ ~no.listed
      BY DEF NoList
    <2>1. answer' = [answer EXCEPT ![q] = yes] \/ answer' = [answer EXCEPT ![q] = no]
      BY <1>2 DEF Fetch
    <2>2. pc' = [pc EXCEPT ![q] = "fetched"] /\ UNCHANGED <<title, list, mu>> /\ mu = q
      BY <1>2 DEF Fetch, Goto
    <2> HIDE DEF yes, no
    <2> QED BY <2>0, <2>1, <2>2
  <1>3. CASE Fetched(q)
    BY <1>3, ListTaken DEF Fetched
  <1>4. CASE FetchFails(q)
    <2>1. UNCHANGED <<title, list>> /\ mu' = Free BY <1>4 DEF FetchFails
    <2>2. CASE Listed(q, list)
      BY <2>1, <2>2, <1>4, ListTaken DEF FetchFails
    <2>3. CASE Goto(q, "pr") /\ UNCHANGED answer
      BY <2>1, <2>3, <1>4 DEF FetchFails, Goto
    <2> QED BY <1>4, <2>2, <2>3 DEF FetchFails
  <1> QED BY <1>1, <1>2, <1>3, <1>4

\* A request before and after that.
LEMMA ListAround ==
  ASSUME ListInv, NEW q \in Requests,
         \/ Continue(q) \/ Cleared(q) \/ Scan(q) \/ PersistTitle(q) \/ SkipPR(q) \/ NoPR(q)
         \/ FoundPR(q) \/ KeepPR(q) \/ AskTitle(q) \/ KeepTitle(q)
  PROVE  ListInv' /\ list' = list
  <1> USE DEF issue, github, cache, Goto
  <1>1. UNCHANGED <<title, list, answer, mu>>
    BY DEF Continue, Cleared, Scan, PersistTitle, SkipPR, NoPR, FoundPR, KeepPR, AskTitle, KeepTitle
  <1>2. PICK l : pc' = [pc EXCEPT ![q] = l] /\ l \notin {"fetch", "fetched"}
    <2>1. CASE Continue(q) \/ Cleared(q) \/ Scan(q)
      BY <2>1 DEF Continue, Cleared, Scan
    <2>2. CASE PersistTitle(q) \/ FoundPR(q)
      BY <2>2 DEF PersistTitle, FoundPR
    <2>3. CASE AskTitle(q) \/ KeepTitle(q)
      BY <2>3 DEF AskTitle, KeepTitle
    <2>4. CASE SkipPR(q) \/ NoPR(q) \/ KeepPR(q)
      <3>1. Onward(q, tk[q])
        BY <2>4 DEF SkipPR, NoPR, KeepPR
      <3>2. pc' = [pc EXCEPT ![q] = "title"] \/ pc' = [pc EXCEPT ![q] = "idle"]
        BY <3>1 DEF Onward
      <3> QED BY <3>2
    <2> QED BY <2>1, <2>2, <2>3, <2>4
  <1> QED BY <1>1, <1>2 DEF ListInv

LEMMA ListCrash ==
  ASSUME ListInv, Crash
  PROVE  ListInv' /\ ~list'.ready
  <1>1. title' = title /\ list' = NoList
    BY DEF Crash, github
  <1>2. pc' = [q \in Requests |-> "idle"] /\ answer' = [q \in Requests |-> NoList]
    BY DEF Crash
  <1>3. title' \in Nat /\ NoList.title \in 0 .. title'
    BY <1>1, EmptyList DEF ListInv
  <1> QED BY <1>1, <1>2, <1>3, EmptyList DEF ListInv

LEMMA ListNext ==
  ASSUME ListInv, [Next]_vars
  PROVE  /\ ListInv'
         /\ list.listed /\ list'.listed /\ list'.ready => list.title <= list'.title
  <1>0. list.title <= list.title
    BY DEF ListInv
  <1>1. CASE UNCHANGED vars
    BY <1>0, <1>1, ListKept DEF vars, github, cache, request, listing, ListInv
  <1>2. CASE RunStep
    BY <1>0, <1>2, ListRun
  <1>3. CASE Boot \/ ClearState \/ Rename \/ Requeue \/ Withhold \/ Expire
    BY <1>0, <1>3, ListOthers
  <1>4. CASE Crash
    BY <1>4, ListCrash
  <1>5. ASSUME NEW q \in Requests, Continue(q) \/ Serve(q)
        PROVE  /\ ListInv'
               /\ list.listed /\ list'.listed => list.title <= list'.title
    BY <1>0, <1>5, ListServe, ListAround DEF Serve
  <1> QED BY <1>1, <1>2, <1>3, <1>4, <1>5 DEF Next

\* The list the dashboard keeps never goes back to an older one, however many
\* requests refresh it (Server.issues).
THEOREM ListAdvances == Spec => ListingAdvances
  <1>1. Init => ListInv
    BY ListInit
  <1>2. ListInv /\ [Next]_vars => ListInv'
    BY ListNext
  <1>3. ListInv /\ [Next]_vars
          => [list.listed /\ list'.listed /\ list'.ready => list.title <= list'.title]_vars
    BY ListNext
  <1> QED BY <1>1, <1>2, <1>3, PTL DEF Spec, ListingAdvances

-----------------------------------------------------------------------------
(* What a request shows *)

\* Where label and marker have not parted the marker says what the label says,
\* or is about to; and a ticket scanned then keeps it under every list.
MarkerInv ==
  /\ tk = [q \in Requests |-> tk[q]] /\ want = [q \in Requests |-> want[q]]
  /\ pc = [q \in Requests |-> pc[q]]
  /\ run \in {"idle", "boot"} /\ ~aside /\ label # "none" => logged /\ state = label
  /\ run \in {"label", "clear"} => label = "none"
  /\ run \in {Outcome[o] : o \in DOMAIN Outcome} /\ ~aside => label = run

Tells(q) ==
  pc[q] \in {"issues", "fetch", "fetched", "persist", "pr", "keepPR"} /\ want[q] # ""
    => tk[q].shown /\ tk[q].state = want[q]

ShownInv == MarkerInv /\ \A q \in Requests : Tells(q)

\* The labels a run ends with.
LEMMA Ends == {Outcome[o] : o \in DOMAIN Outcome} = {"ai-done", "ai-rework", "ai-needs-info", "ai-stopped"}
  BY DEF Outcome

LEMMA ShownInit == Init => ShownInv
  <1> SUFFICES ASSUME Init PROVE ShownInv
    OBVIOUS
  <1>1. label = "none" /\ run = "idle"
    BY DEF Init
  <1>2. /\ tk = [q \in Requests |-> tk[q]] /\ want = [q \in Requests |-> want[q]]
        /\ pc = [q \in Requests |-> pc[q]]
    BY DEF Init
  <1>3. \A q \in Requests : want[q] = ""
    BY DEF Init
  <1> QED BY <1>1, <1>2, <1>3, Ends DEF ShownInv, MarkerInv, Tells

LEMMA ShownRun ==
  ASSUME ShownInv, RunStep
  PROVE  ShownInv'
  <1> USE DEF github, disk, dashboard, cache, request, bounds, history, MarkerInv
  <1>1. UNCHANGED request
    BY DEF RunStep, PickUp, Label, RecordWip, RecordTitle, Work, SpecCreate, SpecComment,
           SpecRecord, ShipLook, ShipCreate, ShipComment, ShipRecord, Swap, RecordOutcome
  <1>2. MarkerInv'
    <2> USE <1>1 DEF ShownInv, Outcome
    <2>1. CASE PickUp BY <2>1 DEF PickUp
    <2>2. CASE Label
      <3>1. label = "none"
        BY <2>2 DEF Label
      <3>2. (run' = "state" \/ label' = "none" \/ aside') /\ run' \in {"state", "idle"}
        BY <2>2, <3>1 DEF Label
      <3> QED BY <2>2, <3>1, <3>2, Ends DEF Label
    <2>3. CASE RecordWip \/ RecordTitle \/ Work BY <2>3 DEF RecordWip, RecordTitle, Work, Record
    <2>4. CASE SpecCreate \/ ShipCreate
      <3>1. UNCHANGED <<label, logged, state, aside>>
            /\ run' \in {"specComment", "work", "shipComment", "park", "pause"}
        BY <2>4 DEF SpecCreate, ShipCreate, CreatePR
      <3> QED BY <3>1, Ends
    <2>5. CASE SpecComment \/ ShipComment BY <2>5 DEF SpecComment, ShipComment
    <2>6. CASE SpecRecord \/ ShipLook \/ ShipRecord BY <2>6 DEF SpecRecord, ShipLook, ShipRecord
    <2>7. CASE Swap BY <2>7 DEF Swap
    <2>8. CASE RecordOutcome BY <2>8 DEF RecordOutcome
    <2> QED BY <2>1, <2>2, <2>3, <2>4, <2>5, <2>6, <2>7, <2>8 DEF RunStep
  <1> QED BY <1>1, <1>2 DEF ShownInv, Tells

LEMMA ShownOthers ==
  ASSUME ShownInv, Crash \/ Boot \/ ClearState \/ Rename \/ Requeue \/ Withhold \/ Expire
  PROVE  ShownInv'
  <1> USE DEF github, disk, dashboard, cache, request, bounds, history, untouched, ShownInv,
              MarkerInv, Tells, Outcome
  <1>1. CASE Crash
    <2>1. run' = "boot" /\ (~aside' => ~aside /\ run = "idle") /\ UNCHANGED <<label, logged, state>>
      BY <1>1 DEF Crash
    <2>2. /\ tk' = [q \in Requests |-> tk'[q]] /\ want' = [q \in Requests |-> want'[q]]
          /\ pc' = [q \in Requests |-> pc'[q]] /\ \A q \in Requests : want'[q] = ""
      BY <1>1 DEF Crash
    <2> QED BY <2>1, <2>2, Ends
  <1>2. CASE Boot
    <2>1. UNCHANGED <<logged, state, aside, tk, want, pc>>
      BY <1>2 DEF Boot
    <2>2. \/ run' = "clear" /\ label' = "none"
          \/ run' = "idle" /\ label' = label /\ run = "boot"
      BY <1>2 DEF Boot
    <2> QED BY <2>1, <2>2, Ends
  <1>3. CASE ClearState
    <2>1. run = "clear" /\ run' = "idle" /\ UNCHANGED <<label, logged, aside, tk, want, pc>>
      BY <1>3 DEF ClearState
    <2> QED BY <2>1, Ends
  <1>4. CASE Rename \/ Withhold BY <1>4 DEF Rename, Withhold
  <1>5. CASE Requeue BY <1>5 DEF Requeue, Parked
  <1>6. CASE Expire BY <1>6 DEF Expire
  <1> QED BY <1>1, <1>2, <1>3, <1>4, <1>5, <1>6

\* A state the ticket has stands under every list.
LEMMA ShownTaken ==
  ASSUME MarkerInv, NEW q \in Requests, NEW a, Listed(q, a), pc[q] \in {"issues", "fetch", "fetched"},
         Tells(q)
  PROVE  /\ tk' = [p \in Requests |-> tk'[p]] /\ pc' = [p \in Requests |-> pc'[p]]
         /\ \A p \in Requests \ {q} : tk'[p] = tk[p] /\ pc'[p] = pc[p]
         /\ want[q] # "" => tk'[q].shown /\ tk'[q].state = want[q]
  <1>1. tk' = [tk EXCEPT ![q] = Overlay(tk[q], a)]
    BY DEF Listed
  <1>2. \/ pc' = [pc EXCEPT ![q] = "persist"]
        \/ pc' = [pc EXCEPT ![q] = "pr"]
    BY DEF Listed, Goto
  <1>3. want[q] # "" => Overlay(tk[q], a).shown /\ Overlay(tk[q], a).state = want[q]
    <2> SUFFICES ASSUME want[q] # "" PROVE Overlay(tk[q], a).shown /\ Overlay(tk[q], a).state = want[q]
      OBVIOUS
    <2>1. tk[q].shown /\ tk[q].state = want[q]
      BY DEF Tells
    <2>2. CASE ~a.listed
      BY <2>1, <2>2 DEF Overlay
    <2>3. CASE a.listed
      BY <2>1, <2>3 DEF Overlay
    <2> QED BY <2>2, <2>3
  <1> QED BY <1>1, <1>2, <1>3 DEF MarkerInv

LEMMA ShownServe ==
  ASSUME ShownInv, NEW q \in Requests, Continue(q) \/ Serve(q)
  PROVE  ShownInv'
  <1> USE DEF issue, github, disk, cache, bounds, history
  <1>1. CASE Continue(q)
    BY <1>1 DEF Continue, ShownInv, MarkerInv, Tells, Goto, Outcome
  <1>2. CASE Cleared(q)
    BY <1>2 DEF Cleared, ShownInv, MarkerInv, Tells, Goto
  <1>3. CASE Scan(q)
    BY <1>3 DEF Scan, ShownInv, MarkerInv, Tells, Goto
  <1>4. CASE Lock(q) \/ Fetched(q) \/ FetchFails(q)
    <2>1. UNCHANGED <<label, logged, state, run, aside, want>> /\ pc[q] \in {"issues", "fetch", "fetched"}
      BY <1>4 DEF Lock, Fetched, FetchFails
    <2>2. CASE \E a : Listed(q, a)
      BY <2>1, <2>2, ShownTaken DEF ShownInv, MarkerInv, Tells
    <2>3. CASE (Goto(q, "fetch") \/ Goto(q, "pr")) /\ UNCHANGED tk
      BY <2>1, <2>3 DEF ShownInv, MarkerInv, Tells, Goto
    <2> QED BY <1>4, <2>2, <2>3 DEF Lock, Fetched, FetchFails
  <1>5. CASE Fetch(q)
    BY <1>5 DEF Fetch, ShownInv, MarkerInv, Tells, Goto
  <1>6. CASE PersistTitle(q) \/ FoundPR(q)
    <2>1. UNCHANGED <<label, state, run, aside, tk, want>> /\ (logged => logged')
      BY <1>6 DEF PersistTitle, FoundPR
    <2>2. pc[q] \in {"persist", "pr"} /\ \E l : pc' = [pc EXCEPT ![q] = l]
      BY <1>6 DEF PersistTitle, FoundPR, AskPR, Goto
    <2> QED BY <2>1, <2>2 DEF ShownInv, MarkerInv, Tells
  <1>7. CASE SkipPR(q) \/ NoPR(q) \/ KeepPR(q)
    <2>1. UNCHANGED <<label, state, run, aside>> /\ (logged => logged')
      BY <1>7 DEF SkipPR, NoPR, KeepPR
    <2>2. Onward(q, tk[q])
      BY <1>7 DEF SkipPR, NoPR, KeepPR
    <2>3. /\ \E l : pc' = [pc EXCEPT ![q] = l]
          /\ \E t : tk' = [tk EXCEPT ![q] = t]
          /\ want' = [want EXCEPT ![q] = ""]
      BY <2>2 DEF Onward, Goto
    <2> QED BY <2>1, <2>3 DEF ShownInv, MarkerInv, Tells
  <1>8. CASE AskTitle(q) \/ KeepTitle(q)
    BY <1>8 DEF AskTitle, KeepTitle, ShownInv, MarkerInv, Tells, Goto
  <1> QED BY <1>1, <1>2, <1>3, <1>4, <1>5, <1>6, <1>7, <1>8 DEF Serve

\* What a page shows of an issue the daemon has settled is what the daemon last
\* did, however old its listing (overlayIssues).
THEOREM OutcomeIsShown == Spec => []OutcomeShown
  <1>1. ASSUME ShownInv, [Next]_vars PROVE ShownInv'
    <2>1. CASE UNCHANGED vars
      BY <1>1, <2>1 DEF vars, github, disk, request, history, ShownInv, MarkerInv, Tells
    <2>2. CASE RunStep
      BY <1>1, <2>2, ShownRun
    <2>3. CASE Crash \/ Boot \/ ClearState \/ Rename \/ Requeue \/ Withhold \/ Expire
      BY <1>1, <2>3, ShownOthers
    <2>4. CASE \E q \in Requests : Continue(q) \/ Serve(q)
      BY <1>1, <2>4, ShownServe
    <2> QED BY <1>1, <2>1, <2>2, <2>3, <2>4 DEF Next
  <1>2. ShownInv => OutcomeShown
    BY DEF ShownInv, Tells, OutcomeShown
  <1> QED BY ShownInit, <1>1, <1>2, PTL DEF Spec

-----------------------------------------------------------------------------
(* The link is announced *)

\* A pr marker the run has found, or will find, stands for a comment, or for one
\* that was lost; and so does every record the run makes.
LinkInv ==
  /\ run \in {"label", "state", "title", "work", "spec", "specComment", "ship"} /\ prFile
       => announced \/ hushed
  /\ run \in {"shipCreate", "shipComment"} /\ had => announced \/ hushed
  /\ run \in {"specRecord", "shipRecord", "done"} => announced \/ hushed

LEMMA LinkRun ==
  ASSUME LinkInv, RunStep
  PROVE  LinkInv'
  <1> USE DEF github, disk, bounds, history, LinkInv
  <1>1. CASE PickUp BY <1>1 DEF PickUp
  <1>2. CASE Label BY <1>2 DEF Label
  <1>3. CASE RecordWip BY <1>3 DEF RecordWip
  <1>4. CASE RecordTitle BY <1>4 DEF RecordTitle
  <1>5. CASE Work BY <1>5 DEF Work
  <1>6. CASE SpecCreate BY <1>6 DEF SpecCreate, CreatePR
  <1>7. CASE SpecComment BY <1>7 DEF SpecComment, Announce
  <1>8. CASE SpecRecord BY <1>8 DEF SpecRecord
  <1>9. CASE ShipLook BY <1>9 DEF ShipLook
  <1>10. CASE ShipCreate BY <1>10 DEF ShipCreate, CreatePR
  <1>11. CASE ShipComment BY <1>11 DEF ShipComment, Announce
  <1>12. CASE ShipRecord BY <1>12 DEF ShipRecord
  <1>13. CASE Swap BY <1>13 DEF Swap, Outcome
  <1>14. CASE RecordOutcome BY <1>14 DEF RecordOutcome
  <1> QED BY <1>1, <1>2, <1>3, <1>4, <1>5, <1>6, <1>7, <1>8, <1>9, <1>10, <1>11, <1>12,
             <1>13, <1>14 DEF RunStep

\* Of all else only backfillPR writes the marker.
LEMMA LinkOthers ==
  ASSUME LinkInv,
         \/ Crash \/ Boot \/ ClearState \/ Rename \/ Requeue \/ Withhold \/ Expire
         \/ \E q \in Requests : Continue(q) \/ Serve(q)
  PROVE  LinkInv'
  <1> USE DEF github, disk, bounds, history, LinkInv
  <1>1. CASE Crash \/ Boot \/ ClearState
    BY <1>1 DEF Crash, Boot, ClearState
  <1>2. CASE Rename \/ Requeue \/ Withhold \/ Expire
    BY <1>2 DEF Rename, Requeue, Withhold, Expire, untouched
  <1>3. ASSUME NEW q \in Requests, KeepPR(q) PROVE LinkInv'
    BY <1>3 DEF KeepPR, Shipping
  <1>4. ASSUME NEW q \in Requests,
               \/ Continue(q) \/ Cleared(q) \/ Scan(q) \/ Lock(q) \/ Fetch(q) \/ Fetched(q)
               \/ FetchFails(q) \/ PersistTitle(q) \/ SkipPR(q) \/ NoPR(q) \/ FoundPR(q)
               \/ AskTitle(q) \/ KeepTitle(q)
        PROVE  LinkInv'
    <2>1. UNCHANGED <<run, prFile, had, announced, hushed>>
      BY <1>4 DEF Continue, Cleared, Scan, Lock, Fetch, Fetched, FetchFails, PersistTitle, SkipPR,
                  NoPR, FoundPR, AskTitle, KeepTitle, issue
    <2> QED BY <2>1
  <1> QED BY <1>1, <1>2, <1>3, <1>4 DEF Serve

\* An issue is marked done by ship only with the link of its pull request in a
\* comment, or with one lost on the way (ship, pushSpecPR, backfillPR).
THEOREM Announced == Spec => []AnnouncedWhenDone
  <1>1. Init => LinkInv
    BY DEF Init, LinkInv
  <1>2. ASSUME LinkInv, [Next]_vars PROVE LinkInv'
    <2>1. CASE UNCHANGED vars
      BY <1>2, <2>1 DEF vars, github, disk, history, LinkInv
    <2> QED BY <1>2, <2>1, LinkRun, LinkOthers DEF Next
  <1>3. LinkInv => AnnouncedWhenDone
    BY DEF LinkInv, AnnouncedWhenDone
  <1> QED BY <1>1, <1>2, <1>3, PTL DEF Spec
=============================================================================
