------------------------- MODULE OrchestratorProofs -------------------------
(***************************************************************************)
(* Theorems about Orchestrator, for every set of issues, every number of   *)
(* goroutines and slots, and every bound.                                  *)
(*                                                                         *)
(* The inductive invariant is IInv: the types, what the places of the      *)
(* goroutines say of their outcome, the agreement between the ledger and   *)
(* the goroutines, and what the sweep knows of its work list.  FateInv     *)
(* adds, for StopWins, NoStrandedWip and MarkerFollowsLabel, what the      *)
(* place of a goroutine says of stop requests, outcome and labels, and     *)
(* which wip labels the sweep has yet to take off.  PriorInv, for          *)
(* MergeRestores, relates the label on record and those on GitHub to what  *)
(* was worn; PicksFit, for EveryPickStarts, the list of picks to the free  *)
(* slots.  RunDistance and LoopDistance measure how far a goroutine and    *)
(* the loop are from their ends.                                           *)
(***************************************************************************)
EXTENDS Orchestrator, FiniteSetTheorems, TLAPS

USE DEF github, disk, ledger, locals, loop, env, CountDown

-----------------------------------------------------------------------------

\* A goroutine that carries out an outcome has one.
OutcomeKnown ==
  \A r \in Runs : pc[r] \in {"strip", "swap", "record", "close"} => out[r] \in Outcome

\* The ledger holds exactly the issues of the goroutines, one each; the wait
\* group counts them; a process that is gone has none.
LedgerExact ==
  /\ \A r \in Runs : Live(r) <=> issue[r] # 0
  /\ \A r \in Runs : Live(r) => issue[r] \in active
  /\ \A i \in active : \E r \in Runs : issue[r] = i
  /\ OneRunPerIssue
  /\ inFlight = Cardinality(active)
  /\ Cardinality(active) <= Slots
  /\ ~Up => active = {}

\* Since its filter the sweep's work list and the ledger are disjoint.
SweepListClean == lpc \in {"sweepStrip", "sweepClear"} => todo \cap active = {}

IInv == TypeOK /\ OutcomeKnown /\ LedgerExact /\ SweepListClean

-----------------------------------------------------------------------------

LEMMA SlotsPositive == Slots \in Nat \ {0}
  BY ConstantsAssumption DEF Slots

LEMMA OutLabelType == \A o \in Outcome \ {"restore"} : OutLabel(o) \in State
  BY DEF Outcome, OutLabel, State

LEMMA CurrentType == \A ls : Current(ls) \in StateOrNone
  BY DEF Current, StateOrNone, State, None

\* A set that at most grew by an element of T is still a subset of T.
LEMMA Grown ==
  ASSUME NEW S, NEW T, NEW U, NEW x \in T, S \subseteq T, U = S \/ U = S \cup {x}
  PROVE  U \subseteq T
  OBVIOUS

\* The ledger is a finite set.
LEMMA ActiveFinite ==
  ASSUME IInv
  PROVE  IsFiniteSet(active) /\ Cardinality(active) \in Nat
  <1>1. active \in SUBSET Issues /\ IsFiniteSet(Issues)
    BY ConstantsAssumption DEF IInv, TypeOK
  <1>2. IsFiniteSet(active)
    BY <1>1, FS_Subset
  <1> QED BY <1>2, FS_CardinalityType

\* The initial state.
LEMMA InitIInv == Init => IInv
  <1> SUFFICES ASSUME Init PROVE IInv
    OBVIOUS
  <1> USE ConstantsAssumption DEF Init
  <1>1. TypeOK
    BY DEF TypeOK, StateOrNone, Label, State, Kind, Outcome, RunPlace, LoopPlace, None
  <1>2. OutcomeKnown
    BY DEF OutcomeKnown
  <1>3. LedgerExact
    BY SlotsPositive, FS_EmptySet DEF LedgerExact, Live, OneRunPerIssue, Up
  <1>4. SweepListClean
    BY DEF SweepListClean
  <1> QED BY <1>1, <1>2, <1>3, <1>4 DEF IInv

-----------------------------------------------------------------------------
(***************************************************************************)
(* Types                                                                   *)
(***************************************************************************)

\* A step of a goroutine keeps the types.
LEMMA RunStepType ==
  ASSUME IInv, NEW r \in Runs, RunStep(r)
  PROVE  TypeOK'
  <1> USE ConstantsAssumption
      DEF StateOrNone, Label, State, Kind, RunPlace, None,
          Elsewhere, past, Goto, Edit, EditFails, Succeeds, Fails
  <1>1. CASE Start(r)
    BY <1>1 DEF IInv, TypeOK, Start
  <1>2. CASE SettlePrior(r)
    <2>1. CASE prior[r] = "wip"
      BY <1>2, <2>1 DEF IInv, TypeOK, SettlePrior, Settle
    <2>2. CASE prior[r] # "wip"
      <3>1. issue[r] \in Issues
        BY <1>2 DEF IInv, TypeOK, SettlePrior, Settle, LedgerExact, Live
      <3> DEFINE p == IF prior[r] = None THEN mergePrior[issue[r]] ELSE prior[r]
      <3>2. p \in StateOrNone /\ prior' = [prior EXCEPT ![r] = p]
        BY <1>2, <2>2, <3>1 DEF IInv, TypeOK, SettlePrior, Settle
      <3> HIDE DEF p
      <3>4. prior' \in [Runs -> StateOrNone]
        BY <3>2 DEF IInv, TypeOK
      <3>3. mergePrior' \in [Issues -> StateOrNone]
        BY <1>2, <2>2, <3>1 DEF IInv, TypeOK, SettlePrior, Settle
      <3>5. worn' \in [Issues -> SUBSET State]
        BY <1>2, <2>2, <3>1 DEF IInv, TypeOK, SettlePrior, Settle
      <3>6. astray' \in {astray \cup {issue[r]}, astray, astray \ {issue[r]}}
        BY <1>2, <2>2 DEF SettlePrior, Settle
      <3>7. astray' \subseteq Issues
        BY <3>1, <3>6 DEF IInv, TypeOK
      <3> QED BY <1>2, <2>2, <3>4, <3>3, <3>5, <3>7 DEF IInv, TypeOK, SettlePrior, Settle
    <2> QED BY <2>1, <2>2
  <1>3. CASE WearWip(r)
    BY <1>3 DEF IInv, TypeOK, WearWip
  <1>4. CASE RecordWip(r)
    BY <1>4 DEF IInv, TypeOK, RecordWip
  <1>5. CASE Prepare(r)
    <2>1. /\ pc' \in [Runs -> RunPlace] /\ out' \in [Runs -> Outcome \cup {None}]
          /\ faults' \in Nat /\ issue[r] # 0
      BY <1>5 DEF IInv, TypeOK, Prepare, Conclude, Outcome, LedgerExact, Live
    <2>2. issue[r] \in Issues /\ worktree \subseteq Issues
      BY <2>1 DEF IInv, TypeOK
    <2>3. worktree' = worktree \/ worktree' = worktree \cup {issue[r]}
      BY <1>5 DEF IInv, TypeOK, Prepare
    <2>4. worktree' \subseteq Issues
      BY <2>2, <2>3, Grown
    <2> QED BY <1>5, <2>1, <2>4 DEF IInv, TypeOK, Prepare
  <1>6. CASE Pipeline(r)
    BY <1>6 DEF IInv, TypeOK, Pipeline, Conclude, Outcome
  <1>7. CASE Ship(r)
    BY <1>7 DEF IInv, TypeOK, Ship, Conclude, Outcome
  <1>8. CASE Review(r)
    <2>1. issue[r] \in Issues
      BY <1>8 DEF IInv, TypeOK, Review, LedgerExact, Live
    <2> QED BY <1>8, <2>1 DEF IInv, TypeOK, Review, Conclude, Outcome
  <1>9. CASE Merge(r)
    BY <1>9 DEF IInv, TypeOK, Merge, Conclude, Outcome
  <1>10. CASE Push(r)
    BY <1>10 DEF IInv, TypeOK, Push, Conclude, Outcome
  <1>11. CASE StripTrigger(r)
    BY <1>11 DEF IInv, TypeOK, StripTrigger
  <1>12. CASE SwapOutcome(r)
    BY <1>12, OutLabelType DEF IInv, TypeOK, SwapOutcome, Target, OutcomeKnown
  <1>13. CASE RecordOutcome(r)
    <2>1. issue[r] \in Issues /\ out[r] \in Outcome
      BY <1>13 DEF IInv, TypeOK, RecordOutcome, LedgerExact, Live, OutcomeKnown
    <2>2. marker' \in [Issues -> StateOrNone] /\ pc' \in [Runs -> RunPlace]
      BY <1>13, <2>1, OutLabelType DEF IInv, TypeOK, RecordOutcome
    <2>3. /\ mergePrior' \in [Issues -> StateOrNone]
          /\ worn' \in [Issues -> SUBSET State] /\ astray' \subseteq Issues
      BY <1>13, <2>1 DEF IInv, TypeOK, RecordOutcome
    <2> QED BY <1>13, <2>2, <2>3 DEF IInv, TypeOK, RecordOutcome
  <1>14. CASE CloseIssue(r)
    <2>1. issue[r] \in Issues /\ closed \subseteq Issues
      BY <1>14 DEF IInv, TypeOK, CloseIssue, LedgerExact, Live
    <2>2. closed' = closed \/ closed' = closed \cup {issue[r]}
      BY <1>14 DEF IInv, TypeOK, CloseIssue
    <2>3. closed' \subseteq Issues
      BY <2>1, <2>2, Grown
    <2> QED BY <1>14, <2>3 DEF IInv, TypeOK, CloseIssue
  <1>15. CASE Panicked(r)
    BY <1>15 DEF IInv, TypeOK, Panicked, Conclude, Outcome
  <1>16. CASE Deferred(r)
    <2>1. stopping' = stopping \/ stopping' = stopping \ {issue[r]}
      BY <1>16 DEF Deferred
    <2> stopping \subseteq Issues
      BY DEF IInv, TypeOK
    <2>2. stopping' \subseteq Issues
      BY <2>1
    <2>3. pc' \in [Runs -> RunPlace]
      BY <1>16 DEF IInv, TypeOK, Deferred, Conclude
    <2>4. out' \in [Runs -> Outcome \cup {None}]
      BY <1>16 DEF IInv, TypeOK, Deferred, Conclude, Outcome
    <2> QED BY <1>16, <2>2, <2>3, <2>4 DEF IInv, TypeOK, Deferred
  <1>17. CASE ClearCancel(r)
    BY <1>17 DEF IInv, TypeOK, ClearCancel
  <1>18. CASE Release(r)
    <2>1. issue[r] \in active
      BY <1>18 DEF IInv, TypeOK, Release, LedgerExact, Live
    <2>2. Cardinality(active) \in Nat \ {0}
      BY <2>1, ActiveFinite, FS_EmptySet
    <2>3. inFlight' \in Nat
      BY <1>18, <2>2 DEF IInv, TypeOK, Release, LedgerExact
    <2> QED BY <1>18, <2>3 DEF IInv, TypeOK, Release
  <1> QED BY <1>1, <1>2, <1>3, <1>4, <1>5, <1>6, <1>7, <1>8, <1>9, <1>10, <1>11,
             <1>12, <1>13, <1>14, <1>15, <1>16, <1>17, <1>18 DEF RunStep

\* A launch writes a goroutine of the right types into the slots.
LEMMA LaunchType ==
  ASSUME IInv, NEW i \in Issues, NEW k \in Kind, NEW p \in StateOrNone, Launch(i, k, p)
  PROVE  /\ pc' \in [Runs -> RunPlace] /\ active' \subseteq Issues /\ inFlight' \in Nat
         /\ issue' \in [Runs -> Issues \cup {0}]
         /\ kind' \in [Runs -> Kind \cup {None}] /\ prior' \in [Runs -> StateOrNone]
  BY DEF IInv, TypeOK, Launch, Goto, RunPlace

\* A step of the loop keeps the types.
LEMMA LoopStepType ==
  ASSUME IInv, LoopStep
  PROVE  TypeOK'
  <1> USE ConstantsAssumption, SlotsPositive
      DEF past, NoLaunch, OutsideLoop, LoopPlace, Listed, ListingFails, Edit, EditFails,
          Succeeds, Fails
  <1>1. CASE SweepList
    <2>1. todo' \subseteq Issues /\ faults' \in Nat
      BY <1>1 DEF IInv, TypeOK, SweepList
    <2> QED BY <1>1, <2>1 DEF IInv, TypeOK, SweepList
  <1>2. CASE SweepFilter
    BY <1>2 DEF IInv, TypeOK, SweepFilter
  <1>3. CASE SweepStrip
    <2>1. labels' \in [Issues -> SUBSET Label]
      <3>1. labels' = labels \/ \E i \in todo : Edit(i, {"wip"}, {})
        BY <1>3 DEF SweepStrip
      <3> QED BY <3>1 DEF IInv, TypeOK
    <2>2. todo' = todo \/ todo' = {}
      BY <1>3 DEF SweepStrip
    <2>3. faults' \in Nat
      BY <1>3 DEF IInv, TypeOK, SweepStrip
    <2>4. lpc' \in LoopPlace /\ sweep' \in BOOLEAN
      BY <1>3 DEF IInv, TypeOK, SweepStrip
    <2> QED BY <1>3, <2>1, <2>2, <2>3, <2>4 DEF IInv, TypeOK, SweepStrip
  <1>4. CASE SweepClear
    BY <1>4 DEF IInv, TypeOK, SweepClear, StateOrNone
  <1>5. CASE MergeList
    <2>1. seen' \in [Issues -> StateOrNone]
      BY <1>5, CurrentType DEF IInv, TypeOK, MergeList, StateOrNone
    <2> todo \subseteq Issues
      BY DEF IInv, TypeOK
    <2>2. todo' \subseteq Issues
      BY <1>5 DEF MergeList
    <2>3. faults' \in Nat
      BY <1>5 DEF IInv, TypeOK, MergeList
    <2>4. lpc' \in LoopPlace
      BY <1>5 DEF MergeList
    <2>5. UNCHANGED <<labels, marker, sweep, free>> /\ NoLaunch /\ OutsideLoop
      BY <1>5 DEF MergeList
    <2> QED BY <2>1, <2>2, <2>3, <2>4, <2>5 DEF IInv, TypeOK
  <1>6. CASE MergeFilter
    <2> todo \subseteq Issues
      BY DEF IInv, TypeOK
    <2>1. todo' \subseteq Issues
      BY <1>6 DEF MergeFilter
    <2>2. faults' \in Nat
      BY <1>6 DEF IInv, TypeOK, MergeFilter
    <2> QED BY <1>6, <2>1, <2>2 DEF IInv, TypeOK, MergeFilter
  <1>7. CASE MergeLaunch
    <2>1. CASE todo = {}
      BY <1>7, <2>1 DEF IInv, TypeOK, MergeLaunch
    <2>2. CASE todo # {}
      <3>1. PICK i \in todo : TryLaunch(i, "merge", seen[i])
        BY <1>7, <2>2 DEF MergeLaunch
      <3>2. i \in Issues /\ "merge" \in Kind /\ seen[i] \in StateOrNone
        BY DEF IInv, TypeOK, Kind
      <3> DEFINE k == "merge" p == seen[i]
      <3>3. /\ pc' \in [Runs -> RunPlace] /\ active' \subseteq Issues /\ inFlight' \in Nat
            /\ issue' \in [Runs -> Issues \cup {0}]
            /\ kind' \in [Runs -> Kind \cup {None}] /\ prior' \in [Runs -> StateOrNone]
        <4>1. CASE CanAcquire(i)
          <5> HIDE DEF k, p
          <5>1. Launch(i, k, p)
            BY <3>1, <4>1 DEF TryLaunch, k, p
          <5>2. k \in Kind /\ p \in StateOrNone
            BY <3>2 DEF k, p
          <5> QED BY <3>2, <5>1, <5>2, LaunchType
        <4>2. CASE ~CanAcquire(i)
          BY <3>1, <4>2 DEF IInv, TypeOK, TryLaunch
        <4> QED BY <4>1, <4>2
      <3>4. todo' \subseteq Issues
        BY <3>1 DEF IInv, TypeOK, TryLaunch
      <3> QED BY <1>7, <2>2, <3>3, <3>4 DEF IInv, TypeOK, MergeLaunch
    <2> QED BY <2>1, <2>2
  <1>8. CASE OnceFree
    <2>1. FreeSlots \in Nat
      BY ActiveFinite DEF FreeSlots
    <2> QED BY <1>8, <2>1 DEF IInv, TypeOK, OnceFree, StateOrNone
  <1>9. CASE OnceList
    <2>1. todo' \subseteq Issues /\ faults' \in Nat
      BY <1>9 DEF IInv, TypeOK, OnceList
    <2> QED BY <1>9, <2>1 DEF IInv, TypeOK, OnceList
  <1>10. CASE OnceFilter
    <2> todo \subseteq Issues
      BY DEF IInv, TypeOK
    <2>1. todo' \subseteq todo
      BY <1>10 DEF OnceFilter, SelectIssues
    <2>2. faults' \in Nat
      BY <1>10 DEF IInv, TypeOK, OnceFilter
    <2> QED BY <1>10, <2>1, <2>2 DEF IInv, TypeOK, OnceFilter
  <1>11. CASE OnceLaunch
    <2>1. CASE todo = {}
      <3>1. lpc' = "tick" /\ free' = 0 /\ UNCHANGED todo /\ NoLaunch
        BY <1>11, <2>1 DEF OnceLaunch
      <3> QED BY <1>11, <3>1 DEF IInv, TypeOK, OnceLaunch
    <2>2. CASE todo # {}
      <3>1. PICK i \in todo : TryLaunch(i, "pipeline", None)
        BY <1>11, <2>2 DEF OnceLaunch
      <3>2. i \in Issues /\ "pipeline" \in Kind /\ None \in StateOrNone
        BY DEF IInv, TypeOK, Kind, StateOrNone
      <3> DEFINE k == "pipeline" p == None
      <3>3. /\ pc' \in [Runs -> RunPlace] /\ active' \subseteq Issues /\ inFlight' \in Nat
            /\ issue' \in [Runs -> Issues \cup {0}]
            /\ kind' \in [Runs -> Kind \cup {None}] /\ prior' \in [Runs -> StateOrNone]
        <4>1. CASE CanAcquire(i)
          <5> HIDE DEF k, p
          <5>1. Launch(i, k, p)
            BY <3>1, <4>1 DEF TryLaunch, k, p
          <5>2. k \in Kind /\ p \in StateOrNone
            BY <3>2 DEF k, p
          <5> QED BY <3>2, <5>1, <5>2, LaunchType
        <4>2. CASE ~CanAcquire(i)
          BY <3>1, <4>2 DEF IInv, TypeOK, TryLaunch
        <4> QED BY <4>1, <4>2
      <3>4. todo' \subseteq Issues
        BY <3>1 DEF IInv, TypeOK, TryLaunch
      <3> QED BY <1>11, <2>2, <3>3, <3>4 DEF IInv, TypeOK, OnceLaunch
    <2> QED BY <2>1, <2>2
  <1>12. CASE Tick
    BY <1>12 DEF IInv, TypeOK, Tick
  <1>13. CASE Drain
    BY <1>13 DEF IInv, TypeOK, Drain
  <1> QED BY <1>1, <1>2, <1>3, <1>4, <1>5, <1>6, <1>7, <1>8, <1>9, <1>10, <1>11,
             <1>12, <1>13 DEF LoopStep

\* What the humans, the signals, a crash and a boot do keeps the types.
LEMMA OutsideType ==
  ASSUME IInv,
         \/ \E i \in Issues : HumanStep(i) \/ ContinueRemove(i) \/ ContinueClear(i)
         \/ Shutdown \/ Crash \/ Boot
  PROVE  TypeOK'
  <1> USE ConstantsAssumption DEF past, Click, Edit, EditFails, Succeeds, Fails
  <1>1. ASSUME NEW i \in Issues, Stop(i) PROVE TypeOK'
    BY <1>1 DEF IInv, TypeOK, Stop
  <1>2. ASSUME NEW i \in Issues, ContinueCheck(i) PROVE TypeOK'
    BY <1>2 DEF IInv, TypeOK, ContinueCheck
  <1>3. ASSUME NEW i \in Issues, Requeue(i) PROVE TypeOK'
    BY <1>3 DEF IInv, TypeOK, Requeue, Disown, Label, State, StateOrNone, past
  <1>4. ASSUME NEW i \in Issues, RequestMerge(i) PROVE TypeOK'
    BY <1>4 DEF IInv, TypeOK, RequestMerge, Label
  <1>5. ASSUME NEW i \in Issues, ContinueRemove(i) PROVE TypeOK'
    <2>1. worn' \in [Issues -> SUBSET State] /\ astray' \subseteq Issues
      <3>1. CASE Disown(i, "stopped")
        BY <1>5, <3>1 DEF IInv, TypeOK, Disown
      <3>2. CASE UNCHANGED past
        BY <3>2 DEF IInv, TypeOK
      <3> QED BY <1>5, <3>1, <3>2 DEF ContinueRemove
    <2>2. labels' \in [Issues -> SUBSET Label] /\ faults' \in Nat
      BY <1>5 DEF IInv, TypeOK, ContinueRemove, Label, State
    <2> QED BY <1>5, <2>1, <2>2 DEF IInv, TypeOK, ContinueRemove
  <1>6. ASSUME NEW i \in Issues, ContinueClear(i) PROVE TypeOK'
    BY <1>6 DEF IInv, TypeOK, ContinueClear, StateOrNone
  <1>7. CASE Shutdown
    BY <1>7 DEF IInv, TypeOK, Shutdown
  <1>8. CASE Crash
    <2>1. stops' \in Nat
      BY <1>8 DEF IInv, TypeOK, Crash
    <2> QED BY <1>8, <2>1 DEF IInv, TypeOK, Crash, FreshMemory, LoopPlace, RunPlace, StateOrNone
  <1>9. CASE Boot
    BY <1>9 DEF IInv, TypeOK, Boot, FreshMemory, LoopPlace, RunPlace, StateOrNone
  <1> QED BY <1>1, <1>2, <1>3, <1>4, <1>5, <1>6, <1>7, <1>8, <1>9 DEF HumanStep

-----------------------------------------------------------------------------
(***************************************************************************)
(* The outcome of a goroutine                                              *)
(***************************************************************************)

\* A goroutine settles its outcome before it carries it out.
LEMMA RunStepOutcome ==
  ASSUME IInv, NEW r \in Runs, RunStep(r)
  PROVE  OutcomeKnown'
  <1> DEFINE Places == {"strip", "swap", "record", "close"}
  <1>1. TypeOK /\ \A s \in Runs : pc[s] \in Places => out[s] \in Outcome
    BY DEF IInv, OutcomeKnown
  <1>2. \/ \E o \in Outcome : Conclude(r, o)
        \/ /\ UNCHANGED out
           /\ \E l : Goto(r, l) /\ (l \in Places => pc[r] \in Places)
        \/ /\ Goto(r, "idle")
           /\ out' = [out EXCEPT ![r] = None]
    <2>1. CASE Start(r) \/ SettlePrior(r) \/ WearWip(r) \/ RecordWip(r)
      BY <2>1 DEF Start, SettlePrior, Settle, WearWip, RecordWip, Goto
    <2>2. CASE Prepare(r) \/ Pipeline(r) \/ Ship(r)
      BY <2>2 DEF Prepare, Pipeline, Ship, Goto, Outcome
    <2>3. CASE Review(r) \/ Merge(r) \/ Push(r)
      BY <2>3 DEF Review, Merge, Push, Goto, Outcome
    <2>4. CASE StripTrigger(r) \/ SwapOutcome(r) \/ RecordOutcome(r) \/ CloseIssue(r)
      BY <2>4 DEF StripTrigger, SwapOutcome, RecordOutcome, CloseIssue, Goto
    <2>5. CASE Panicked(r) \/ Deferred(r) \/ ClearCancel(r) \/ Release(r)
      BY <2>5 DEF Panicked, Deferred, ClearCancel, Release, Goto, Outcome
    <2> QED BY <2>1, <2>2, <2>3, <2>4, <2>5 DEF RunStep
  <1>3. CASE \E o \in Outcome : Conclude(r, o)
    BY <1>1, <1>3 DEF OutcomeKnown, Conclude, Goto, TypeOK
  <1>4. CASE /\ UNCHANGED out
             /\ \E l : Goto(r, l) /\ (l \in Places => pc[r] \in Places)
    BY <1>1, <1>4 DEF OutcomeKnown, Goto, TypeOK
  <1>5. CASE Goto(r, "idle") /\ out' = [out EXCEPT ![r] = None]
    BY <1>1, <1>5 DEF OutcomeKnown, Goto, TypeOK
  <1> QED BY <1>2, <1>3, <1>4, <1>5

-----------------------------------------------------------------------------
(***************************************************************************)
(* The ledger                                                              *)
(***************************************************************************)

\* A step that leaves the ledger, the goroutines' issues and lives and the loop
\* alone keeps the agreement.
LEMMA LedgerFrame ==
  ASSUME LedgerExact, SweepListClean,
         UNCHANGED <<active, inFlight, issue, lpc, todo>>,
         \A s \in Runs : Live(s)' <=> Live(s)
  PROVE  LedgerExact' /\ SweepListClean'
  BY DEF LedgerExact, SweepListClean, OneRunPerIssue, Slots, Up

\* Until its release a goroutine stays alive and keeps its issue and its slot.
LEMMA RunStepFrame ==
  ASSUME NEW r \in Runs, RunStep(r), ~Release(r)
  PROVE  /\ UNCHANGED <<active, inFlight, issue, lpc, todo>>
         /\ Live(r)
         /\ \E l : l # "idle" /\ Goto(r, l)
  <1>1. CASE Start(r) \/ SettlePrior(r) \/ WearWip(r) \/ RecordWip(r)
    BY <1>1 DEF Start, SettlePrior, Settle, WearWip, RecordWip, Goto, Live, Elsewhere
  <1>2. CASE Prepare(r) \/ Pipeline(r) \/ Ship(r)
    BY <1>2 DEF Prepare, Pipeline, Ship, Goto, Live, Elsewhere, Conclude
  <1>3. CASE Review(r) \/ Merge(r) \/ Push(r)
    BY <1>3 DEF Review, Merge, Push, Goto, Live, Elsewhere, Conclude
  <1>4. CASE StripTrigger(r) \/ SwapOutcome(r) \/ RecordOutcome(r) \/ CloseIssue(r)
    BY <1>4 DEF StripTrigger, SwapOutcome, RecordOutcome, CloseIssue, Goto, Live, Elsewhere
  <1>5. CASE Panicked(r) \/ Deferred(r) \/ ClearCancel(r)
    BY <1>5 DEF Panicked, Deferred, ClearCancel, Goto, Live, Elsewhere, Conclude
  <1> QED BY <1>1, <1>2, <1>3, <1>4, <1>5 DEF RunStep

\* A goroutine's step keeps ledger and goroutines in agreement.
LEMMA RunStepLedger ==
  ASSUME IInv, NEW r \in Runs, RunStep(r)
  PROVE  LedgerExact' /\ SweepListClean'
  <1>1. CASE Release(r)
    <2>1. /\ pc \in [Runs -> RunPlace] /\ issue \in [Runs -> Issues \cup {0}]
          /\ LedgerExact /\ SweepListClean
      BY DEF IInv, TypeOK
    <2>2. /\ Live(r) /\ issue[r] \in active
          /\ pc' = [pc EXCEPT ![r] = "idle"] /\ issue' = [issue EXCEPT ![r] = 0]
          /\ active' = active \ {issue[r]} /\ inFlight' = inFlight - 1
          /\ lpc' = lpc /\ todo' = todo
      BY <1>1, <2>1 DEF Release, Goto, LedgerExact, Live
    <2>3. Cardinality(active') = Cardinality(active) - 1
      BY <2>2, ActiveFinite, FS_RemoveElement
    <2>4. \A s \in Runs : Live(s)' <=> issue'[s] # 0
      BY <2>1, <2>2 DEF LedgerExact, Live
    <2>5. \A s \in Runs : Live(s)' => issue'[s] \in active'
      BY <2>1, <2>2 DEF LedgerExact, Live, OneRunPerIssue
    <2>6. \A i \in active' : \E s \in Runs : issue'[s] = i
      BY <2>1, <2>2 DEF LedgerExact
    <2>7. OneRunPerIssue'
      BY <2>1, <2>2 DEF LedgerExact, OneRunPerIssue, Live
    <2>8. inFlight' = Cardinality(active') /\ Cardinality(active') <= Slots
      BY <2>1, <2>2, <2>3, ActiveFinite, SlotsPositive DEF LedgerExact
    <2>9. (~Up => active = {})'
      BY <2>1, <2>2 DEF LedgerExact, Up
    <2>10. SweepListClean'
      BY <2>1, <2>2 DEF SweepListClean
    <2> QED BY <2>4, <2>5, <2>6, <2>7, <2>8, <2>9, <2>10 DEF LedgerExact, Slots
  <1>2. CASE ~Release(r)
    <2>1. /\ UNCHANGED <<active, inFlight, issue, lpc, todo>>
          /\ Live(r)
          /\ \E l : l # "idle" /\ Goto(r, l)
      BY <1>2, RunStepFrame
    <2>2. \A s \in Runs : Live(s)' <=> Live(s)
      BY <2>1 DEF IInv, TypeOK, Goto, Live
    <2> QED BY <2>1, <2>2, LedgerFrame DEF IInv
  <1> QED BY <1>1, <1>2

\* tryAcquire and the go statement keep them in agreement.
LEMMA LaunchLedger ==
  ASSUME IInv, NEW i \in Issues, NEW k, NEW p, CanAcquire(i), Launch(i, k, p),
         UNCHANGED <<lpc, out>>, lpc \in {"mergeLaunch", "onceLaunch"}
  PROVE  LedgerExact' /\ SweepListClean' /\ OutcomeKnown'
  <1>1. /\ pc \in [Runs -> RunPlace] /\ issue \in [Runs -> Issues \cup {0}]
        /\ LedgerExact /\ OutcomeKnown /\ i # 0
    BY ConstantsAssumption DEF IInv, TypeOK
  <1>2. PICK r \in Runs : /\ ~Live(r)
                          /\ pc' = [pc EXCEPT ![r] = "start"]
                          /\ issue' = [issue EXCEPT ![r] = i]
    BY DEF Launch, Goto
  <1>3. active' = active \cup {i} /\ inFlight' = inFlight + 1 /\ i \notin active
    BY DEF Launch, CanAcquire
  <1>4. Cardinality(active') = Cardinality(active) + 1
    BY <1>3, ActiveFinite, FS_AddElement
  <1>5. \A s \in Runs : Live(s)' <=> issue'[s] # 0
    BY <1>1, <1>2 DEF LedgerExact, Live
  <1>6. \A s \in Runs : Live(s)' => issue'[s] \in active'
    BY <1>1, <1>2, <1>3 DEF LedgerExact, Live
  <1>7. ASSUME NEW j \in active' PROVE \E s \in Runs : issue'[s] = j
    <2>1. CASE j = i
      BY <1>1, <1>2, <2>1
    <2>2. CASE j \in active
      <3>1. PICK s \in Runs : issue[s] = j
        BY <1>1, <2>2 DEF LedgerExact
      <3>2. j # 0
        BY <2>2, ConstantsAssumption DEF IInv, TypeOK
      <3>3. s # r
        BY <1>1, <1>2, <3>1, <3>2 DEF LedgerExact
      <3> QED BY <1>1, <1>2, <3>1, <3>3
    <2> QED BY <1>3, <1>7, <2>1, <2>2
  <1>8. OneRunPerIssue'
    BY <1>1, <1>2, <1>3 DEF LedgerExact, OneRunPerIssue, Live
  <1>9. inFlight' = Cardinality(active') /\ Cardinality(active') <= Slots
    BY <1>1, <1>3, <1>4, ActiveFinite, SlotsPositive DEF LedgerExact, CanAcquire
  <1>10. (~Up => active = {})'
    BY DEF Up
  <1>11. SweepListClean'
    BY DEF SweepListClean
  <1>12. OutcomeKnown'
    BY <1>1, <1>2 DEF OutcomeKnown
  <1> QED BY <1>5, <1>6, <1>7, <1>8, <1>9, <1>10, <1>11, <1>12 DEF LedgerExact, Slots

\* A step of the loop that launches nothing keeps them in agreement.
LEMMA NoLaunchLedger ==
  ASSUME LedgerExact, OutcomeKnown, NoLaunch, UNCHANGED out, Up' \/ (Up /\ active = {}),
         SweepListClean'
  PROVE  LedgerExact' /\ SweepListClean' /\ OutcomeKnown'
  BY DEF LedgerExact, OutcomeKnown, NoLaunch, OneRunPerIssue, Live, Slots

\* A step of the loop keeps them in agreement.
LEMMA LoopStepLedger ==
  ASSUME IInv, LoopStep
  PROVE  LedgerExact' /\ SweepListClean' /\ OutcomeKnown'
  <1> USE DEF Listed, ListingFails
  <1>1. LedgerExact /\ SweepListClean /\ OutcomeKnown /\ UNCHANGED out
    BY DEF IInv, LoopStep, OutsideLoop, SweepList, SweepFilter, SweepStrip, SweepClear,
           MergeList, MergeFilter, MergeLaunch, OnceFree, OnceList, OnceFilter,
           OnceLaunch, Tick, Drain
  <1>2. CASE SweepList \/ SweepFilter \/ SweepStrip \/ SweepClear
    <2>1. NoLaunch /\ Up'
      BY <1>2 DEF SweepList, SweepFilter, SweepStrip, SweepClear, Up
    <2>2. SweepListClean'
      BY <1>1, <1>2 DEF SweepList, SweepFilter, SweepStrip, SweepClear, SweepListClean,
                        NoLaunch
    <2> QED BY <1>1, <2>1, <2>2, NoLaunchLedger DEF SweepListClean
  <1>3. CASE MergeList \/ MergeFilter \/ OnceFree \/ OnceList \/ OnceFilter
    <2>1. NoLaunch /\ Up' /\ lpc' \notin {"sweepStrip", "sweepClear"}
      BY <1>3 DEF MergeList, MergeFilter, OnceFree, OnceList, OnceFilter, Up
    <2> QED BY <1>1, <2>1, NoLaunchLedger DEF SweepListClean
  <1>4. CASE Tick
    <2>1. NoLaunch /\ Up' /\ lpc' \notin {"sweepStrip", "sweepClear"}
      BY <1>4 DEF Tick, Up
    <2> QED BY <1>1, <2>1, NoLaunchLedger DEF SweepListClean
  <1>5. CASE Drain
    <2>1. active = {}
      BY <1>1, <1>5, ActiveFinite, FS_EmptySet DEF Drain, LedgerExact
    <2>2. NoLaunch /\ Up /\ lpc' = "exited"
      BY <1>5 DEF Drain, Up
    <2> QED BY <1>1, <2>1, <2>2, NoLaunchLedger DEF SweepListClean
  <1>6. ASSUME NEW i \in Issues, NEW k, NEW p, TryLaunch(i, k, p),
               lpc \in {"mergeLaunch", "onceLaunch"}, UNCHANGED lpc
        PROVE  LedgerExact' /\ SweepListClean' /\ OutcomeKnown'
    <2>1. CASE CanAcquire(i)
      BY <1>1, <1>6, <2>1, LaunchLedger DEF TryLaunch
    <2>2. CASE ~CanAcquire(i)
      <3>1. NoLaunch /\ Up' /\ SweepListClean'
        BY <1>6, <2>2 DEF TryLaunch, Up, SweepListClean
      <3> QED BY <1>1, <3>1, NoLaunchLedger DEF SweepListClean
    <2> QED BY <2>1, <2>2
  <1>7. CASE MergeLaunch
    <2>1. CASE todo = {}
      <3>1. NoLaunch /\ Up' /\ SweepListClean'
        BY <1>7, <2>1 DEF MergeLaunch, Up, SweepListClean
      <3> QED BY <1>1, <3>1, NoLaunchLedger DEF SweepListClean
    <2>2. CASE todo # {}
      BY <1>6, <1>7, <2>2 DEF MergeLaunch, IInv, TypeOK
    <2> QED BY <2>1, <2>2
  <1>8. CASE OnceLaunch
    <2>1. CASE todo = {}
      <3>1. NoLaunch /\ Up' /\ SweepListClean'
        BY <1>8, <2>1 DEF OnceLaunch, Up, SweepListClean
      <3> QED BY <1>1, <3>1, NoLaunchLedger DEF SweepListClean
    <2>2. CASE todo # {}
      BY <1>6, <1>8, <2>2 DEF OnceLaunch, IInv, TypeOK
    <2> QED BY <2>1, <2>2
  <1> QED BY <1>2, <1>3, <1>4, <1>5, <1>7, <1>8 DEF LoopStep

\* A new process begins, and a dead one ends, with an empty ledger.
LEMMA FreshLedger ==
  ASSUME FreshMemory, lpc' \in {"down", "sweepList"}
  PROVE  LedgerExact' /\ SweepListClean' /\ OutcomeKnown'
  <1>1. \A r \in Runs : ~Live(r)' /\ issue'[r] = 0
    BY DEF FreshMemory, Live
  <1>2. inFlight' = Cardinality(active') /\ Cardinality(active') <= Slots
    BY SlotsPositive, FS_EmptySet DEF FreshMemory
  <1>3. LedgerExact'
    BY <1>1, <1>2 DEF LedgerExact, OneRunPerIssue, FreshMemory, Slots
  <1>4. SweepListClean'
    BY DEF SweepListClean
  <1>5. OutcomeKnown'
    BY DEF OutcomeKnown, FreshMemory
  <1> QED BY <1>3, <1>4, <1>5

\* Neither the humans nor a signal touch the ledger and the goroutines.
LEMMA OutsideLedger ==
  ASSUME IInv,
         \/ \E i \in Issues : HumanStep(i) \/ ContinueRemove(i) \/ ContinueClear(i)
         \/ Shutdown \/ Crash \/ Boot
  PROVE  LedgerExact' /\ SweepListClean' /\ OutcomeKnown'
  <1>1. CASE Crash \/ Boot
    BY <1>1, FreshLedger DEF Crash, Boot
  <1>2. CASE Shutdown \/ \E i \in Issues : HumanStep(i) \/ ContinueRemove(i) \/ ContinueClear(i)
    <2>1. UNCHANGED <<active, inFlight, issue, lpc, todo, pc, out>>
      BY <1>2 DEF Shutdown, HumanStep, Stop, ContinueCheck, Requeue, RequestMerge,
                  ContinueRemove, ContinueClear
    <2>2. LedgerExact' /\ SweepListClean'
      BY <2>1, LedgerFrame DEF IInv, Live
    <2>3. OutcomeKnown'
      BY <2>1 DEF IInv, OutcomeKnown
    <2> QED BY <2>2, <2>3
  <1> QED BY <1>1, <1>2

-----------------------------------------------------------------------------
(***************************************************************************)
(* The theorems                                                            *)
(***************************************************************************)

\* IInv is inductive.
LEMMA NextIInv == IInv /\ [Next]_vars => IInv'
  <1> SUFFICES ASSUME IInv, [Next]_vars PROVE IInv'
    OBVIOUS
  <1>1. CASE LoopStep
    BY <1>1, LoopStepType, LoopStepLedger DEF IInv
  <1>2. ASSUME NEW r \in Runs, RunStep(r) PROVE IInv'
    BY <1>2, RunStepType, RunStepLedger, RunStepOutcome DEF IInv
  <1>3. CASE \/ \E i \in Issues : HumanStep(i) \/ ContinueRemove(i) \/ ContinueClear(i)
             \/ Shutdown \/ Crash \/ Boot
    BY <1>3, OutsideType, OutsideLedger DEF IInv
  <1>4. CASE UNCHANGED vars
    BY <1>4 DEF IInv, vars, past, TypeOK, OutcomeKnown, LedgerExact, SweepListClean,
                OneRunPerIssue, Live, Slots, Up
  <1> QED BY <1>1, <1>2, <1>3, <1>4 DEF Next

\* The strengthened invariant holds of every reachable state.
THEOREM Invariance == Spec => []IInv
  BY InitIInv, NextIInv, PTL DEF Spec

\* Every variable keeps the values its Go counterpart can take.
THEOREM TypeCorrect == Spec => []TypeOK
  <1>1. IInv => TypeOK
    BY DEF IInv
  <1> QED BY <1>1, Invariance, PTL

\* No two goroutines ever work on one issue.
THEOREM OneRun == Spec => []OneRunPerIssue
  <1>1. IInv => OneRunPerIssue
    BY DEF IInv, LedgerExact
  <1> QED BY <1>1, Invariance, PTL

\* Whatever the cycles launch, at most ticketsPerCycle goroutines are alive:
\* their issues inject them into the ledger.
THEOREM Budget == Spec => []WithinBudget
  <1>1. ASSUME IInv PROVE WithinBudget
    <2> DEFINE Busy == {r \in Runs : Live(r)}
               f == [r \in Busy |-> issue[r]]
    <2>1. f \in [Busy -> active] /\ \A r, s \in Busy : f[r] = f[s] => r = s
      BY <1>1 DEF IInv, LedgerExact, OneRunPerIssue
    <2>2. f \in Injection(Busy, active)
      BY <2>1 DEF Injection, IsInjective
    <2>3. IsFiniteSet(active)
      BY <1>1, ActiveFinite
    <2>4. IsFiniteSet(Busy) /\ Cardinality(Busy) <= Cardinality(active)
      BY <2>2, <2>3, FS_Injection
    <2>5. Cardinality(Busy) \in Nat
      BY <2>4, FS_CardinalityType
    <2> HIDE DEF Busy
    <2>6. Cardinality(Busy) <= Slots
      BY <1>1, <2>4, <2>5, ActiveFinite, SlotsPositive DEF IInv, LedgerExact
    <2> QED BY <2>6 DEF WithinBudget, Busy
  <1> QED BY <1>1, Invariance, PTL

\* RunLoop has returned only when no goroutine is left.
THEOREM Drained == Spec => []DrainedBeforeExit
  <1>1. IInv => DrainedBeforeExit
    BY DEF IInv, LedgerExact, DrainedBeforeExit, Up
  <1> QED BY <1>1, Invariance, PTL

\* The sweep never edits the labels of an issue that is being worked on.
THEOREM SweepIsSafe == Spec => SweepSparesLive
  <1>1. ASSUME IInv, SweepStrip, NEW r \in Runs, Live(r)
        PROVE  labels'[issue[r]] = labels[issue[r]]
    <2>1. issue[r] \in active /\ todo \cap active = {} /\ issue[r] \in Issues
      BY <1>1 DEF IInv, LedgerExact, SweepListClean, SweepStrip, TypeOK
    <2>2. labels' = labels \/ \E i \in todo : labels' = [labels EXCEPT ![i] = (@ \ {"wip"}) \cup {}]
      BY <1>1 DEF SweepStrip, EditFails, Edit
    <2> QED BY <1>1, <2>1, <2>2 DEF IInv, TypeOK
  <1>2. IInv => [SweepStrip => \A r \in Runs : Live(r) => labels'[issue[r]] = labels[issue[r]]]_vars
    BY <1>1
  <1> QED BY <1>2, Invariance, PTL DEF SweepSparesLive

-----------------------------------------------------------------------------
(***************************************************************************)
(* The orchestrator implements the slot pool                               *)
(***************************************************************************)

\* What the pool holds is the ledger.
LEMMA HeldIsActive ==
  ASSUME IInv
  PROVE  Pool!Held = active
  <1>1. \A r \in Pool!Busy : issue[r] \in active
    BY DEF IInv, LedgerExact, Pool!Busy
  <1>2. \A i \in active : \E r \in Pool!Busy : issue[r] = i
    BY ConstantsAssumption DEF IInv, TypeOK, LedgerExact, Pool!Busy
  <1> QED BY <1>1, <1>2 DEF Pool!Held

LEMMA PoolCardinality == \A S : Pool!Cardinality(S) = Cardinality(S)
  BY DEF Pool!Cardinality, Cardinality

LEMMA PoolInit == Init => Pool!Init
  BY DEF Init, Pool!Init, Up

\* A launch begins a run of the pool.
LEMMA LaunchBegins ==
  ASSUME IInv, NEW i \in Issues, NEW k, NEW p, CanAcquire(i), Launch(i, k, p), Up,
         UNCHANGED lpc
  PROVE  Pool!Next
  <1>1. PICK r \in Runs : ~Live(r) /\ issue' = [issue EXCEPT ![r] = i]
    BY DEF Launch
  <1>2. issue[r] = 0
    BY <1>1 DEF IInv, LedgerExact
  <1>3. i \notin Pool!Held /\ Cardinality(Pool!Held) < Slots
    BY HeldIsActive DEF CanAcquire
  <1>4. Pool!Begin(r, i)
    BY <1>1, <1>2, <1>3, PoolCardinality DEF Pool!Begin, Up
  <1> QED BY <1>4 DEF Pool!Next

\* Every step is a step of the pool, or leaves it alone.
LEMMA PoolNext ==
  ASSUME IInv, [Next]_vars
  PROVE  [Pool!Next]_(Pool!vars)
  <1> DEFINE Still == UNCHANGED <<issue, lpc>>
  <1>0. ASSUME Still PROVE UNCHANGED Pool!vars
    BY <1>0 DEF Pool!vars, Up
  <1>1. ASSUME NEW r \in Runs, RunStep(r) PROVE [Pool!Next]_(Pool!vars)
    <2>1. CASE Release(r)
      <3>1. issue[r] # 0 /\ issue' = [issue EXCEPT ![r] = 0] /\ UNCHANGED lpc
        BY <2>1 DEF Release, Live, IInv, LedgerExact
      <3>2. Pool!End(r)
        BY <3>1 DEF Pool!End, Up
      <3> QED BY <3>2 DEF Pool!Next
    <2>2. CASE ~Release(r)
      BY <1>0, <1>1, <2>2, RunStepFrame
    <2> QED BY <2>1, <2>2
  <1>2. ASSUME NoLaunch, Up, Up' PROVE UNCHANGED Pool!vars
    BY <1>2 DEF NoLaunch, Pool!vars
  <1>3. CASE SweepList \/ SweepFilter \/ SweepStrip \/ SweepClear
    <2>1. NoLaunch /\ Up /\ Up'
      BY <1>3 DEF SweepList, SweepFilter, SweepStrip, SweepClear, Up, Listed, ListingFails
    <2> QED BY <1>2, <2>1
  <1>4. CASE MergeList \/ MergeFilter \/ OnceFree \/ OnceList \/ OnceFilter \/ Tick
    <2>1. NoLaunch /\ Up /\ Up'
      BY <1>4 DEF MergeList, MergeFilter, OnceFree, OnceList, OnceFilter, Tick, Up, Listed,
                  ListingFails
    <2> QED BY <1>2, <2>1
  <1>5. ASSUME NEW i \in Issues, NEW k, NEW p, TryLaunch(i, k, p), Up, UNCHANGED lpc
        PROVE  [Pool!Next]_(Pool!vars)
    <2>1. CASE CanAcquire(i)
      BY <1>5, <2>1, LaunchBegins DEF TryLaunch
    <2>2. CASE ~CanAcquire(i)
      BY <1>0, <1>5, <2>2 DEF TryLaunch, NoLaunch
    <2> QED BY <2>1, <2>2
  <1>6. CASE MergeLaunch
    <2>1. CASE todo = {}
      BY <1>2, <1>6, <2>1 DEF MergeLaunch, Up
    <2>2. CASE todo # {}
      BY <1>5, <1>6, <2>2 DEF MergeLaunch, Up, IInv, TypeOK
    <2> QED BY <2>1, <2>2
  <1>7. CASE OnceLaunch
    <2>1. CASE todo = {}
      BY <1>2, <1>7, <2>1 DEF OnceLaunch, Up
    <2>2. CASE todo # {}
      BY <1>5, <1>7, <2>2 DEF OnceLaunch, Up, IInv, TypeOK
    <2> QED BY <2>1, <2>2
  <1>8. CASE Drain
    <2>1. active = {}
      BY <1>8, ActiveFinite, FS_EmptySet DEF Drain, IInv, LedgerExact
    <2>2. Pool!Busy = {}
      BY <2>1 DEF IInv, LedgerExact, Pool!Busy
    <2>3. Pool!Exit
      BY <1>8, <2>2 DEF Drain, Pool!Exit, Up, NoLaunch
    <2> QED BY <2>3 DEF Pool!Next
  <1>9. CASE Crash
    <2>1. Pool!Die
      BY <1>9 DEF Crash, FreshMemory, Pool!Die, Up
    <2> QED BY <2>1 DEF Pool!Next
  <1>10. CASE Boot
    <2>1. issue \in [Runs -> Issues \cup {0}] /\ \A r \in Runs : issue[r] = 0
      BY <1>10 DEF Boot, IInv, TypeOK, LedgerExact
    <2>2. UNCHANGED issue
      BY <1>10, <2>1 DEF Boot, FreshMemory
    <2>3. Pool!Restart
      BY <1>10, <2>2 DEF Boot, Pool!Restart, Up, IInv, TypeOK, LoopPlace
    <2> QED BY <2>3 DEF Pool!Next
  <1>11. CASE Shutdown \/ \E i \in Issues : HumanStep(i) \/ ContinueRemove(i) \/ ContinueClear(i)
    <2>1. Still
      BY <1>11 DEF Shutdown, HumanStep, Stop, ContinueCheck, Requeue, RequestMerge,
                   ContinueRemove, ContinueClear
    <2> QED BY <1>0, <2>1
  <1>12. CASE UNCHANGED vars
    BY <1>0, <1>12 DEF vars
  <1> QED BY <1>1, <1>3, <1>4, <1>6, <1>7, <1>8, <1>9, <1>10, <1>11, <1>12
          DEF Next, LoopStep

\* What the pool's own theorems assume holds of its instance here.
LEMMA PoolConstants == Pool!PoolAssumption
  BY SlotsPositive, ConstantsAssumption DEF Pool!PoolAssumption

\* The ledger with its goroutines, the loop, its crashes and its drain do only
\* what the abstract slot pool allows.
THEOREM ImplementsPool == Spec => PoolSpec
  BY PoolInit, PoolNext, Invariance, PTL DEF Spec, PoolSpec, Pool!Spec

-----------------------------------------------------------------------------
(***************************************************************************)
(* Where a stop and the wip label end: the inductive invariant FateInv      *)
(***************************************************************************)

\* The deferred handler of r has consumed the flag, and what follows is decided.
Past(r) ==
  \/ pc[r] \in {"unwind", "release"}
  \/ pc[r] \in {"strip", "swap", "record"} /\ FromDeferred(out[r])

\* Where a goroutine that a Stop reached at work can still be, and with what.
HeardFate(r) ==
  /\ r \in cancelled
  /\ pc[r] \in {"pipeline", "ship", "review", "merge", "panicked", "deferred",
                "strip", "swap", "record", "unwind", "release"}
  /\ pc[r] = "merge" => issue[r] \in worktree
  /\ pc[r] \in {"strip", "swap"} => out[r] \in {"shipped", "stopped", "panic"}
  /\ pc[r] \in {"record", "unwind"} => out[r] \in {"stopped", "panic"}

\* The goroutine is on a path that takes the wip label off.
WillStrip(r) ==
  \/ pc[r] \in {"recordWip", "prepare", "pipeline", "ship", "review", "merge",
                "push", "strip", "swap", "panicked"}
  \/ pc[r] = "deferred" /\ issue[r] \in stopping

\* The process is up, was not told to end, and no call ever failed.
Clean == Up /\ ~shutdown /\ faults = MaxFaults

\* What is known of goroutine r: its context is cancelled only while its issue is
\* flagged or the flag consumed; a merge never restores wip; an outcome that is
\* recorded, but for a park, has taken wip off; and wip stays on only for a
\* goroutine that will take it off.
RunFate(r) ==
  /\ r \in cancelled => Live(r) /\ (Past(r) \/ issue[r] \in stopping)
  /\ r \in heard => HeardFate(r)
  /\ (\/ pc[r] \in {"wear", "recordWip", "merge", "push"} \/ out[r] = "restore"
      \/ pc[r] = "start" /\ kind[r] # "merge")
       => prior[r] # "wip"
  /\ pc[r] = "record" /\ out[r] \notin {"park", "panic"}
       => "wip" \notin labels[issue[r]]
  /\ Clean /\ Live(r) /\ issue[r] \notin closed /\ "wip" \in labels[issue[r]]
       => WillStrip(r)
  /\ Live(r) \/ out[r] = None

\* A registered goroutine is alive, between its setCancel and its clearCancel.
CancelsExact ==
  \A i \in Issues : cancels[i] # NoRun
    => issue[cancels[i]] = i /\ pc[cancels[i]] \notin {"start", "release"}

\* What is known of the issues no goroutine works on: the sweep clears a marker
\* after the label, and wip on them is on the sweep's list.
LoopFate ==
  /\ lpc = "sweepClear" => \A i \in todo : Newest(i, todo) => "wip" \notin labels[i]
  /\ Clean /\ sweep => lpc \in {"sweepList", "sweepFilter", "sweepStrip", "sweepClear"}
  /\ Clean => \A i \in Issues \ (closed \cup active) :
                "wip" \in labels[i] => sweep /\ (lpc # "sweepList" => i \in todo)

FateInv ==
  /\ IInv
  /\ \A r \in Runs : RunFate(r)
  /\ CancelsExact
  /\ LoopFate
  /\ \A i \in Issues : mergePrior[i] # "wip"
  /\ faults <= MaxFaults

LEMMA InitFate == Init => FateInv
  <1> SUFFICES ASSUME Init PROVE FateInv
    OBVIOUS
  <1>1. \A r \in Runs : RunFate(r)
    BY DEF Init, RunFate, Live, None
  <1>2. CancelsExact
    BY DEF Init, CancelsExact
  <1>3. LoopFate
    BY DEF Init, LoopFate
  <1>4. (\A i \in Issues : mergePrior[i] # "wip") /\ faults <= MaxFaults
    BY ConstantsAssumption DEF Init, None
  <1> QED BY <1>1, <1>2, <1>3, <1>4, InitIInv DEF FateInv

\* A call fails under a cancelled context, or a fault is spent for good.
LEMMA FailsSpends ==
  ASSUME FateInv, NEW d \in BOOLEAN, Fails(d)
  PROVE  faults' <= MaxFaults /\ ((d /\ UNCHANGED faults) \/ faults' # MaxFaults)
  <1>1. faults \in Nat /\ MaxFaults \in Nat /\ faults <= MaxFaults
    BY ConstantsAssumption DEF FateInv, IInv, TypeOK
  <1> QED BY <1>1 DEF Fails

\* No step gives a fault back.
LEMMA RunStepFaults ==
  ASSUME FateInv, NEW r \in Runs, RunStep(r)
  PROVE  faults' <= MaxFaults /\ (Clean' => Clean /\ UNCHANGED faults)
  <1>1. UNCHANGED <<lpc, shutdown>>
    BY DEF RunStep, Start, SettlePrior, Settle, WearWip, RecordWip, Prepare, Pipeline,
           Ship, Review, Merge, Push, StripTrigger, SwapOutcome, RecordOutcome, CloseIssue,
           Panicked, Deferred, ClearCancel, Release, Elsewhere
  <1>2. UNCHANGED faults \/ \E d \in BOOLEAN : Fails(d)
    <2>1. CASE Start(r) \/ SettlePrior(r) \/ RecordWip(r) \/ Pipeline(r) \/ Ship(r)
      BY <2>1 DEF Start, SettlePrior, Settle, RecordWip, Pipeline, Ship
    <2>2. CASE Review(r) \/ Merge(r) \/ RecordOutcome(r) \/ Panicked(r) \/ Deferred(r)
      BY <2>2 DEF Review, Merge, RecordOutcome, Panicked, Deferred
    <2>3. CASE ClearCancel(r) \/ Release(r)
      BY <2>3 DEF ClearCancel, Release
    <2>4. CASE WearWip(r) \/ Prepare(r) \/ Push(r) \/ StripTrigger(r) \/ SwapOutcome(r)
               \/ CloseIssue(r)
      <3>1. Done(r) \in BOOLEAN /\ SwapDone(r) \in BOOLEAN
        BY DEF Done, SwapDone, FateInv, IInv, TypeOK
      <3> QED BY <2>4, <3>1 DEF WearWip, Prepare, Push, StripTrigger, SwapOutcome, CloseIssue,
                                Succeeds, EditFails
    <2> QED BY <2>1, <2>2, <2>3, <2>4 DEF RunStep
  <1>3. faults' <= MaxFaults /\ (UNCHANGED faults \/ faults' # MaxFaults)
    BY <1>2, FailsSpends DEF FateInv
  <1> QED BY <1>1, <1>3 DEF Clean, Up

\* What a goroutine's step leaves alone of the other goroutines.
LEMMA RunStepOthers ==
  ASSUME FateInv, NEW r \in Runs, RunStep(r)
  PROVE  /\ worktree \subseteq worktree' /\ closed \subseteq closed'
         /\ \A s \in Runs \ {r} :
              /\ pc'[s] = pc[s] /\ out'[s] = out[s] /\ prior'[s] = prior[s]
              /\ issue'[s] = issue[s] /\ kind'[s] = kind[s]
              /\ s \in cancelled' <=> s \in cancelled
              /\ s \in heard' <=> s \in heard
         /\ \A i \in Issues \ {issue[r]} :
              labels'[i] = labels[i] /\ (i \in stopping' <=> i \in stopping)
  <1> USE DEF Elsewhere, Goto, Conclude, Edit, EditFails, Succeeds, Fails
  <1>0. TypeOK
    BY DEF FateInv, IInv
  <1>1. CASE Start(r) \/ SettlePrior(r) \/ RecordWip(r)
    <2>1. UNCHANGED <<worktree, closed, labels, stopping, cancelled, heard, out, issue, kind>>
      BY <1>1 DEF Start, SettlePrior, Settle, RecordWip
    <2>2. \A s \in Runs \ {r} : pc'[s] = pc[s] /\ prior'[s] = prior[s]
      BY <1>0, <1>1 DEF Start, SettlePrior, Settle, RecordWip, TypeOK
    <2> QED BY <2>1, <2>2
  <1>2. CASE WearWip(r)
    BY <1>0, <1>2 DEF WearWip, TypeOK
  <1>3. CASE Prepare(r) \/ Pipeline(r) \/ Ship(r)
    BY <1>0, <1>3 DEF Prepare, Pipeline, Ship, TypeOK
  <1>4. CASE Review(r) \/ Merge(r) \/ Push(r)
    BY <1>0, <1>4 DEF Review, Merge, Push, TypeOK
  <1>5. CASE StripTrigger(r) \/ SwapOutcome(r)
    BY <1>0, <1>5 DEF StripTrigger, SwapOutcome, TypeOK
  <1>6. CASE RecordOutcome(r) \/ CloseIssue(r)
    BY <1>0, <1>6 DEF RecordOutcome, CloseIssue, TypeOK
  <1>7. CASE Panicked(r) \/ Deferred(r)
    BY <1>0, <1>7 DEF Panicked, Deferred, TypeOK
  <1>8. CASE ClearCancel(r) \/ Release(r)
    BY <1>0, <1>8 DEF ClearCancel, Release, TypeOK
  <1> QED BY <1>1, <1>2, <1>3, <1>4, <1>5, <1>6, <1>7, <1>8 DEF RunStep

\* The other goroutines keep their fate.
LEMMA OthersFate ==
  ASSUME FateInv, NEW r \in Runs, RunStep(r), NEW s \in Runs \ {r}
  PROVE  RunFate(s)'
  <1>1. RunFate(s) /\ (Live(s) => issue[s] # issue[r] /\ issue[s] \in Issues)
    <2>1. Live(r) /\ issue[r] # 0
      BY RunStepFrame DEF Release, Live, FateInv, IInv, LedgerExact
    <2> QED BY <2>1 DEF FateInv, IInv, LedgerExact, OneRunPerIssue, TypeOK
  <1>2. Live(s)' <=> Live(s)
    BY RunStepOthers DEF Live
  <1>3. Past(s)' <=> Past(s)
    BY RunStepOthers DEF Past
  <1>4. /\ s \in cancelled' => Live(s)' /\ (Past(s)' \/ issue'[s] \in stopping')
        /\ s \in heard' => HeardFate(s)'
    BY <1>1, <1>2, <1>3, RunStepOthers DEF RunFate, HeardFate, Live
  <1>5. (\/ pc'[s] \in {"wear", "recordWip", "merge", "push"} \/ out'[s] = "restore"
         \/ pc'[s] = "start" /\ kind'[s] # "merge")
          => prior'[s] # "wip"
    BY <1>1, RunStepOthers DEF RunFate
  <1>6. pc'[s] = "record" /\ out'[s] \notin {"park", "panic"} => "wip" \notin labels'[issue'[s]]
    BY <1>1, RunStepOthers DEF RunFate, Live
  <1>7. Clean' /\ Live(s)' /\ issue'[s] \notin closed' /\ "wip" \in labels'[issue'[s]]
          => WillStrip(s)'
    <2>1. WillStrip(s) => Live(s)
      BY DEF WillStrip, Live
    <2>2. Live(s) => (WillStrip(s)' <=> WillStrip(s))
      BY <1>1, RunStepOthers DEF WillStrip
    <2> QED BY <1>1, <1>2, <2>1, <2>2, RunStepOthers, RunStepFaults DEF RunFate
  <1>8. Live(s)' \/ out'[s] = None
    BY <1>1, <1>2, RunStepOthers DEF RunFate
  <1> QED BY <1>4, <1>5, <1>6, <1>7, <1>8 DEF RunFate

\* A goroutine that has not settled an outcome keeps its fate.
LEMMA EarlyFate ==
  ASSUME FateInv, NEW r \in Runs,
         Start(r) \/ SettlePrior(r) \/ WearWip(r) \/ RecordWip(r) \/ Prepare(r)
  PROVE  RunFate(r)'
  <1> USE DEF Elsewhere, Goto, Conclude, Edit, EditFails, Succeeds, Fails
  <1>0. /\ TypeOK /\ RunFate(r) /\ RunStep(r)
        /\ (Clean' => Clean /\ UNCHANGED faults)
        /\ Live(r) => issue[r] \in Issues
    BY RunStepFaults DEF FateInv, IInv, RunStep, LedgerExact, TypeOK
  <1>1. CASE Start(r)
    BY <1>0, <1>1 DEF Start, RunFate, Past, HeardFate, WillStrip, Live, TypeOK
  <1>2. CASE SettlePrior(r)
    <2>1. mergePrior[issue[r]] # "wip"
      BY <1>0, <1>2 DEF SettlePrior, Settle, FateInv, Live
    <2>2. prior'[r] # "wip" \/ (pc'[r] = "deferred" /\ UNCHANGED prior)
      <3>1. CASE prior[r] = "wip"
        BY <1>0, <1>2, <3>1 DEF SettlePrior, Settle, TypeOK
      <3>2. CASE prior[r] # "wip"
        <4> DEFINE p == IF prior[r] = None THEN mergePrior[issue[r]] ELSE prior[r]
        <4>1. p # "wip"
          BY <2>1, <3>2
        <4>2. prior' = [prior EXCEPT ![r] = p]
          BY <1>2, <3>2 DEF SettlePrior, Settle
        <4>3. prior \in [Runs -> StateOrNone]
          BY <1>0 DEF TypeOK
        <4> HIDE DEF p
        <4>4. prior'[r] = p
          BY <4>2, <4>3
        <4> QED BY <4>1, <4>4
      <3> QED BY <3>1, <3>2
    <2>3. /\ pc'[r] \in {"wear", "deferred"} /\ pc[r] = "prior"
          /\ UNCHANGED <<out, issue, labels, closed, cancelled, heard, stopping, worktree>>
      BY <1>0, <1>2 DEF SettlePrior, Settle, TypeOK
    <2> QED BY <1>0, <2>2, <2>3 DEF RunFate, Past, HeardFate, WillStrip, Live
  <1>3. CASE WearWip(r)
    <2>1. /\ pc[r] = "wear" /\ pc'[r] \in {"recordWip", "deferred"}
          /\ UNCHANGED <<out, prior, issue, closed, cancelled, heard, stopping, worktree>>
      BY <1>0, <1>3 DEF WearWip, TypeOK
    <2>2. pc'[r] = "deferred" /\ Clean' => labels' = labels
      BY <1>0, <1>3, FailsSpends DEF WearWip, TypeOK, Clean, Done
    <2> QED BY <1>0, <2>1, <2>2 DEF RunFate, Past, HeardFate, WillStrip, Live
  <1>4. CASE RecordWip(r)
    BY <1>0, <1>4 DEF RecordWip, RunFate, Past, HeardFate, WillStrip, Live, TypeOK
  <1>5. CASE Prepare(r)
    BY <1>0, <1>5 DEF Prepare, RunFate, Past, HeardFate, WillStrip, Live, TypeOK, FromDeferred
  <1> QED BY <1>1, <1>2, <1>3, <1>4, <1>5

\* A goroutine at work, or that tells the outcome of its work, keeps its fate: a
\* Stop that reached it leads to its deferred handler.
LEMMA WorkFate ==
  ASSUME FateInv, NEW r \in Runs,
         Pipeline(r) \/ Ship(r) \/ Review(r) \/ Merge(r) \/ Push(r)
  PROVE  RunFate(r)'
  <1> USE DEF Elsewhere, Goto, Conclude, Succeeds, Fails
  <1>0. /\ TypeOK /\ RunFate(r) /\ RunStep(r)
        /\ (Clean' => Clean /\ UNCHANGED faults)
    BY RunStepFaults DEF FateInv, IInv, RunStep
  <1>1. r \in cancelled /\ ~Past(r) => issue[r] \in stopping
    BY <1>0 DEF RunFate
  <1>2. CASE Pipeline(r)
    BY <1>0, <1>1, <1>2
       DEF Pipeline, BailOnCancel, Done, Clean, RunFate, Past, HeardFate, WillStrip, Live, TypeOK,
           FromDeferred
  <1>3. CASE Ship(r)
    BY <1>0, <1>1, <1>3
       DEF Ship, BailOnCancel, Done, Clean, RunFate, Past, HeardFate, WillStrip, Live, TypeOK,
           FromDeferred
  <1>4. CASE Review(r)
    BY <1>0, <1>1, <1>4
       DEF Review, BailOnCancel, Done, Clean, RunFate, Past, HeardFate, WillStrip, Live, TypeOK,
           FromDeferred
  <1>5. CASE Merge(r)
    BY <1>0, <1>1, <1>5
       DEF Merge, Clean, RunFate, Past, HeardFate, WillStrip, Live, TypeOK, FromDeferred
  <1>6. CASE Push(r)
    BY <1>0, <1>1, <1>6
       DEF Push, Clean, RunFate, Past, HeardFate, WillStrip, Live, TypeOK, FromDeferred
  <1> QED BY <1>2, <1>3, <1>4, <1>5, <1>6

\* The label swap of an outcome: with the run's own context cancelled it fails,
\* and then the flag is still there for the deferred handler.
LEMMA SwapFate ==
  ASSUME FateInv, NEW r \in Runs, StripTrigger(r) \/ SwapOutcome(r)
  PROVE  RunFate(r)'
  <1> USE DEF Elsewhere, Goto, Edit, EditFails, Succeeds
  <1>0. /\ TypeOK /\ RunFate(r) /\ RunStep(r) /\ issue[r] \in Issues
        /\ out[r] \in Outcome
        /\ (Clean' => Clean /\ UNCHANGED faults)
    BY RunStepFaults DEF FateInv, IInv, RunStep, LedgerExact, Live, StripTrigger, SwapOutcome,
                         OutcomeKnown, TypeOK
  <1>1. CASE StripTrigger(r)
    <2>1. /\ pc[r] = "strip" /\ pc'[r] \in {"swap", "deferred"}
          /\ UNCHANGED <<out, prior, issue, closed, cancelled, heard, stopping, worktree>>
      BY <1>0, <1>1 DEF StripTrigger, TypeOK
    <2>2. pc'[r] = "deferred" => out[r] = "restore" /\ ~Clean'
      BY <1>0, <1>1, FailsSpends DEF StripTrigger, TypeOK, Clean, Fails
    <2>3. "wip" \in labels'[issue[r]] => "wip" \in labels[issue[r]]
      <3>1. \/ labels' = labels
            \/ labels' = [labels EXCEPT ![issue[r]] = (@ \ {"merge"}) \cup {}]
        BY <1>1 DEF StripTrigger
      <3> QED BY <1>0, <3>1 DEF TypeOK
    <2> QED BY <1>0, <2>1, <2>2, <2>3
            DEF RunFate, Past, HeardFate, WillStrip, Live, FromDeferred
  <1>2. CASE SwapOutcome(r)
    <2>1. /\ pc[r] = "swap" /\ pc'[r] \in {"record", "unwind", "deferred"}
          /\ UNCHANGED <<out, prior, issue, closed, cancelled, heard, stopping, worktree,
                         shutdown>>
      BY <1>0, <1>2 DEF SwapOutcome, TypeOK
    <2>2. "wip" \notin Target(r)
      <3>1. out[r] = "restore" => prior[r] # "wip"
        BY <1>0 DEF RunFate
      <3>2. out[r] # "restore" => OutLabel(out[r]) # "wip"
        BY <1>0 DEF OutLabel, Outcome
      <3> QED BY <3>1, <3>2 DEF Target
    <2>3. \/ pc'[r] = "record" /\ "wip" \notin labels'[issue[r]] /\ ~SwapDone(r)
          \/ /\ Fails(SwapDone(r))
             /\ SwapDone(r) => labels' = labels
             /\ pc'[r] = CASE out[r] \in {"park", "panic"} -> "record"
                           [] out[r] = "stopped" -> "unwind"
                           [] OTHER -> "deferred"
      BY <1>0, <1>2, <2>2 DEF SwapOutcome, TypeOK
    <2>4. r \in cancelled /\ out[r] = "shipped" => SwapDone(r) /\ issue[r] \in stopping
      BY <1>0, <2>1 DEF SwapDone, Done, RunFate, Past, FromDeferred
    <2>5. CASE pc'[r] = "record" /\ "wip" \notin labels'[issue[r]] /\ ~SwapDone(r)
      <3>1. r \in heard => out[r] \in {"stopped", "panic"}
        BY <1>0, <2>1, <2>4, <2>5 DEF RunFate, HeardFate
      <3> QED BY <1>0, <2>1, <2>5, <3>1
              DEF RunFate, Past, HeardFate, WillStrip, Live, FromDeferred
    <2>6. CASE /\ Fails(SwapDone(r)) /\ pc'[r] = "record"
               /\ "wip" \in labels'[issue[r]] \/ SwapDone(r)
      <3>1. out[r] \in {"park", "panic"} /\ SwapDone(r) = FALSE
        BY <2>3, <2>6 DEF SwapDone
      <3>2. ~Clean'
        BY <2>6, <3>1, FailsSpends DEF Clean
      <3>3. r \in heard => out[r] = "panic"
        BY <1>0, <2>1, <3>1 DEF RunFate, HeardFate
      <3> QED BY <1>0, <2>1, <2>6, <3>1, <3>2, <3>3
              DEF RunFate, Past, HeardFate, WillStrip, Live, FromDeferred
    <2>7. CASE Fails(SwapDone(r)) /\ pc'[r] = "unwind"
      <3>1. out[r] = "stopped"
        BY <2>3, <2>7
      <3>2. ~Clean'
        BY <2>1, <2>7, <3>1, FailsSpends DEF Clean, SwapDone, FateInv, IInv, TypeOK
      <3> QED BY <1>0, <2>1, <2>7, <3>1, <3>2
              DEF RunFate, Past, HeardFate, WillStrip, Live, FromDeferred
    <2>8. CASE Fails(SwapDone(r)) /\ pc'[r] = "deferred"
      <3>1. out[r] \notin {"park", "panic", "stopped"}
        BY <2>3, <2>8
      <3>2. ~Past(r) /\ (r \in cancelled => issue[r] \in stopping)
        BY <1>0, <2>1, <3>1 DEF RunFate, Past, FromDeferred
      <3>3. Clean' => out[r] = "shipped" /\ r \in cancelled
        BY <2>1, <2>8, FailsSpends DEF Clean, SwapDone, Done, FateInv, IInv, TypeOK
      <3> QED BY <1>0, <2>1, <2>8, <3>1, <3>2, <3>3
              DEF RunFate, Past, HeardFate, WillStrip, Live, FromDeferred
    <2> QED BY <2>1, <2>3, <2>5, <2>6, <2>7, <2>8
  <1> QED BY <1>1, <1>2

\* The end of a goroutine keeps its fate: the record of its outcome, the deferred
\* handler and the release.
LEMMA EndFate ==
  ASSUME FateInv, NEW r \in Runs,
         \/ RecordOutcome(r) \/ CloseIssue(r) \/ Panicked(r) \/ Deferred(r)
         \/ ClearCancel(r) \/ Release(r)
  PROVE  RunFate(r)'
  <1> USE DEF Elsewhere, Goto, Conclude
  <1>0. /\ TypeOK /\ RunFate(r) /\ RunStep(r) /\ issue[r] \in Issues
        /\ (Clean' => Clean /\ UNCHANGED faults)
    BY RunStepFaults DEF FateInv, IInv, RunStep, LedgerExact, Live, TypeOK, RecordOutcome,
                         CloseIssue, Panicked, Deferred, ClearCancel, Release
  <1>1. CASE RecordOutcome(r)
    <2>1. /\ pc[r] = "record" /\ pc'[r] \in {"close", "unwind", "deferred"}
          /\ pc'[r] = "unwind" <=> FromDeferred(out[r])
          /\ UNCHANGED <<out, prior, issue, labels, closed, cancelled, heard, stopping, worktree>>
      BY <1>0, <1>1 DEF RecordOutcome, FromDeferred, TypeOK
    <2>2. out[r] \in {"park", "panic"} /\ Clean'
            => "wip" \notin labels[issue[r]] \/ issue[r] \in closed
      BY <1>0, <2>1 DEF RunFate, WillStrip, Live
    <2> QED BY <1>0, <2>1, <2>2 DEF RunFate, Past, HeardFate, WillStrip, Live, FromDeferred
  <1>2. CASE CloseIssue(r)
    <2>1. /\ pc[r] = "close" /\ pc'[r] = "deferred" /\ closed \subseteq closed'
          /\ UNCHANGED <<out, prior, issue, labels, cancelled, heard, stopping, worktree>>
      BY <1>0, <1>2 DEF CloseIssue, TypeOK
    <2> QED BY <1>0, <2>1 DEF RunFate, Past, HeardFate, WillStrip, Live
  <1>3. CASE Panicked(r)
    BY <1>0, <1>3 DEF Panicked, RunFate, Past, HeardFate, WillStrip, Live, TypeOK, FromDeferred
  <1>4. CASE Deferred(r)
    BY <1>0, <1>4 DEF Deferred, RunFate, Past, HeardFate, WillStrip, Live, TypeOK, FromDeferred
  <1>5. CASE ClearCancel(r)
    BY <1>0, <1>5 DEF ClearCancel, RunFate, Past, HeardFate, WillStrip, Live, TypeOK
  <1>6. CASE Release(r)
    BY <1>0, <1>6 DEF Release, RunFate, Live, TypeOK, None
  <1> QED BY <1>1, <1>2, <1>3, <1>4, <1>5, <1>6

\* A goroutine's step keeps the rest of the invariant: at its release wip is off
\* or still its own.
LEMMA RunStepFate ==
  ASSUME FateInv, NEW r \in Runs, RunStep(r)
  PROVE  FateInv'
  <1>0. TypeOK /\ Live(r) /\ issue[r] \in active /\ issue[r] \in Issues
    BY RunStepFrame DEF FateInv, IInv, LedgerExact, TypeOK, Release, Live
  <1>1. IInv' /\ faults' <= MaxFaults
    BY RunStepFaults, NextIInv DEF FateInv, Next
  <1>2. \A s \in Runs : RunFate(s)'
    BY OthersFate, EarlyFate, WorkFate, SwapFate, EndFate DEF RunStep
  <1>3. CancelsExact'
    <2>1. CASE Start(r)
      BY <1>0, <2>1 DEF Start, Goto, CancelsExact, FateInv, TypeOK
    <2>2. CASE ClearCancel(r)
      BY <1>0, <2>2, ConstantsAssumption DEF ClearCancel, Goto, CancelsExact, FateInv, TypeOK
    <2>3. CASE Release(r)
      BY <1>0, <2>3 DEF Release, Goto, CancelsExact, FateInv, TypeOK
    <2>4. CASE ~(Start(r) \/ ClearCancel(r) \/ Release(r))
      <3>1. UNCHANGED <<cancels, issue>> /\ pc'[r] \notin {"start", "release"}
        BY <1>0, <2>4, RunStepFrame DEF RunStep, SettlePrior, Settle, WearWip, RecordWip, Prepare,
           Pipeline, Ship, Review, Merge, Push, StripTrigger, SwapOutcome, RecordOutcome,
           CloseIssue, Panicked, Deferred, Conclude, Goto, TypeOK
      <3> QED BY <1>0, <3>1, RunStepOthers DEF CancelsExact, FateInv, TypeOK
    <2> QED BY <2>1, <2>2, <2>3, <2>4
  <1>4. \A i \in Issues : mergePrior'[i] # "wip"
    <2>1. CASE SettlePrior(r)
      <3> DEFINE p == IF prior[r] = None THEN mergePrior[issue[r]] ELSE prior[r]
      <3>1. mergePrior \in [Issues -> StateOrNone] /\ \A i \in Issues : mergePrior[i] # "wip"
        BY <1>0 DEF FateInv, TypeOK
      <3>2. \/ UNCHANGED mergePrior
            \/ prior[r] # "wip" /\ mergePrior' = [mergePrior EXCEPT ![issue[r]] = p]
        BY <2>1 DEF SettlePrior, Settle
      <3>3. prior[r] # "wip" => p # "wip"
        BY <1>0, <3>1
      <3> HIDE DEF p
      <3> QED BY <1>0, <3>1, <3>2, <3>3
    <2>2. CASE RecordOutcome(r)
      BY <1>0, <2>2 DEF RecordOutcome, FateInv, TypeOK, None
    <2>3. CASE ~(SettlePrior(r) \/ RecordOutcome(r))
      <3>1. UNCHANGED mergePrior
        BY <2>3 DEF RunStep, Start, WearWip, RecordWip, Prepare, Pipeline, Ship, Review, Merge,
           Push, StripTrigger, SwapOutcome, CloseIssue, Panicked, Deferred, ClearCancel, Release
      <3> QED BY <3>1 DEF FateInv
    <2> QED BY <2>1, <2>2, <2>3
  <1>5. LoopFate'
    <2>1. UNCHANGED <<lpc, todo, sweep>>
      BY DEF RunStep, Start, SettlePrior, Settle, WearWip, RecordWip, Prepare, Pipeline, Ship, Review,
             Merge, Push, StripTrigger, SwapOutcome, RecordOutcome, CloseIssue, Panicked,
             Deferred, ClearCancel, Release, Elsewhere
    <2>2. lpc = "sweepClear" => \A i \in todo : labels'[i] = labels[i]
      BY <1>0, RunStepOthers DEF FateInv, IInv, SweepListClean, TypeOK
    <2>3. ASSUME Clean', NEW i \in Issues \ (closed' \cup active'), "wip" \in labels'[i]
          PROVE  i \notin closed \cup active /\ "wip" \in labels[i]
      <3>1. CASE Release(r)
        <4>1. i # issue[r]
          BY <1>0, <2>3, <3>1, RunStepFaults DEF Release, FateInv, RunFate, WillStrip
        <4> QED BY <2>3, <3>1, <4>1 DEF Release
      <3>2. CASE ~Release(r)
        BY <1>0, <2>3, <3>2, RunStepOthers, RunStepFrame
      <3> QED BY <3>1, <3>2
    <2> QED BY <2>1, <2>2, <2>3, RunStepFaults DEF LoopFate, FateInv, Newest
  <1> QED BY <1>1, <1>2, <1>3, <1>4, <1>5 DEF FateInv

\* No step of the loop gives a fault back, and none touches what OutsideLoop lists.
LEMMA LoopStepFaults ==
  ASSUME FateInv, LoopStep
  PROVE  /\ OutsideLoop /\ Up
         /\ faults' <= MaxFaults /\ (Clean' => Clean /\ UNCHANGED faults)
  <1>1. OutsideLoop /\ Up
    <2>1. CASE SweepList \/ SweepFilter \/ SweepStrip \/ SweepClear
      BY <2>1 DEF SweepList, SweepFilter, SweepStrip, SweepClear, Up
    <2>2. CASE MergeList \/ MergeFilter \/ MergeLaunch \/ OnceFree
      BY <2>2 DEF MergeList, MergeFilter, MergeLaunch, OnceFree, Up
    <2>3. CASE OnceList \/ OnceFilter \/ OnceLaunch \/ Tick \/ Drain
      BY <2>3 DEF OnceList, OnceFilter, OnceLaunch, Tick, Drain, Up
    <2> QED BY <2>1, <2>2, <2>3 DEF LoopStep
  <1>2. UNCHANGED faults \/ Fails(shutdown)
    <2>1. CASE SweepList \/ SweepFilter \/ SweepClear
      BY <2>1 DEF SweepList, SweepFilter, SweepClear, Listed, ListingFails, Succeeds
    <2>2. CASE SweepStrip
      BY <2>2 DEF SweepStrip, Succeeds, EditFails
    <2>3. CASE MergeList \/ MergeFilter \/ MergeLaunch \/ OnceFree
      BY <2>3 DEF MergeList, MergeFilter, MergeLaunch, OnceFree, Listed, ListingFails, Succeeds
    <2>4. CASE OnceList \/ OnceFilter \/ OnceLaunch \/ Tick \/ Drain
      BY <2>4 DEF OnceList, OnceFilter, OnceLaunch, Tick, Drain, Listed, ListingFails, Succeeds
    <2> QED BY <2>1, <2>2, <2>3, <2>4 DEF LoopStep
  <1>3. shutdown \in BOOLEAN /\ UNCHANGED shutdown
    BY <1>1 DEF OutsideLoop, FateInv, IInv, TypeOK
  <1>4. /\ faults' <= MaxFaults
        /\ UNCHANGED faults \/ shutdown \/ faults' # MaxFaults
    BY <1>2, <1>3, FailsSpends DEF FateInv
  <1> QED BY <1>1, <1>3, <1>4 DEF Clean

\* A step of the loop edits labels only of issues no goroutine works on.
LEMMA LoopStepLabels ==
  ASSUME FateInv, LoopStep
  PROVE  \A i \in active : labels'[i] = labels[i]
  <1>1. CASE SweepStrip
    <2>1. labels' = labels \/ \E i \in todo : labels' = [labels EXCEPT ![i] = (@ \ {"wip"}) \cup {}]
      BY <1>1 DEF SweepStrip, EditFails, Edit
    <2> QED BY <1>1, <2>1 DEF SweepStrip, FateInv, IInv, TypeOK, SweepListClean
  <1>2. CASE SweepList \/ SweepFilter \/ SweepClear \/ MergeList \/ MergeFilter \/ MergeLaunch
    BY <1>2 DEF SweepList, SweepFilter, SweepClear, MergeList, MergeFilter, MergeLaunch
  <1>3. CASE OnceFree \/ OnceList \/ OnceFilter \/ OnceLaunch \/ Tick \/ Drain
    BY <1>3 DEF OnceFree, OnceList, OnceFilter, OnceLaunch, Tick, Drain
  <1> QED BY <1>1, <1>2, <1>3 DEF LoopStep

\* A step of the loop that launches nothing keeps the fate of every goroutine.
LEMMA LoopStillFate ==
  ASSUME FateInv, LoopStep, NoLaunch
  PROVE  (\A r \in Runs : RunFate(r)') /\ CancelsExact'
  <1>1. UNCHANGED <<pc, issue, kind, prior, out, cancelled, heard, stopping, worktree, closed,
                    cancels>>
    BY LoopStepFaults DEF NoLaunch, OutsideLoop
  <1>2. ASSUME NEW r \in Runs PROVE RunFate(r)'
    <2>1. Live(r) => labels'[issue[r]] = labels[issue[r]]
      BY LoopStepLabels DEF FateInv, IInv, LedgerExact
    <2>2. RunFate(r) /\ (Clean' => Clean)
      BY LoopStepFaults DEF FateInv
    <2> QED BY <1>1, <2>1, <2>2 DEF RunFate, Past, HeardFate, WillStrip, Live
  <1> QED BY <1>1, <1>2 DEF CancelsExact, FateInv

\* A launched goroutine begins without a Stop, and without wip on its issue.
LEMMA LaunchFate ==
  ASSUME FateInv, LoopStep, NEW i \in Issues, NEW k, NEW p, CanAcquire(i), Launch(i, k, p),
         k = "merge" \/ p = None, UNCHANGED labels,
         Clean => i \in closed \/ "wip" \notin labels[i]
  PROVE  (\A r \in Runs : RunFate(r)') /\ CancelsExact'
  <1>1. PICK q \in Runs :
          /\ ~Live(q)
          /\ pc' = [pc EXCEPT ![q] = "start"] /\ issue' = [issue EXCEPT ![q] = i]
          /\ kind' = [kind EXCEPT ![q] = k] /\ prior' = [prior EXCEPT ![q] = p]
    BY DEF Launch, Goto
  <1>2. UNCHANGED <<out, cancelled, heard, stopping, worktree, closed, cancels>>
    BY LoopStepFaults DEF OutsideLoop
  <1>3. TypeOK /\ \A r \in Runs : RunFate(r)
    BY DEF FateInv, IInv
  <1>4. RunFate(q)'
    <2>1. q \notin cancelled /\ q \notin heard /\ out[q] = None
      BY <1>1, <1>3 DEF RunFate, HeardFate
    <2>2. pc'[q] = "start" /\ issue'[q] = i /\ kind'[q] = k /\ prior'[q] = p
      BY <1>1, <1>3 DEF TypeOK
    <2>3. Clean' => Clean
      BY LoopStepFaults
    <2> QED BY <1>2, <2>1, <2>2, <2>3 DEF RunFate, Live, None
  <1>5. ASSUME NEW r \in Runs, r # q PROVE RunFate(r)'
    <2>1. pc'[r] = pc[r] /\ issue'[r] = issue[r] /\ kind'[r] = kind[r] /\ prior'[r] = prior[r]
      BY <1>1, <1>3, <1>5 DEF TypeOK
    <2>2. Clean' => Clean
      BY LoopStepFaults
    <2> QED BY <1>2, <1>3, <2>1, <2>2 DEF RunFate, Past, HeardFate, WillStrip, Live
  <1>6. CancelsExact'
    <2>1. issue[q] = 0 /\ 0 \notin Issues
      BY <1>1, ConstantsAssumption DEF FateInv, IInv, LedgerExact
    <2> QED BY <1>1, <1>2, <1>3, <2>1 DEF CancelsExact, FateInv, TypeOK
  <1> QED BY <1>4, <1>5, <1>6

\* While no call fails wip on an issue without a goroutine stays on the list of the
\* sweep, and the sweep takes it off before it clears the marker.
LEMMA SweepFate ==
  ASSUME FateInv, SweepList \/ SweepFilter \/ SweepStrip \/ SweepClear
  PROVE  LoopFate'
  <1>0. /\ TypeOK /\ LoopFate /\ todo \subseteq Issues /\ Issues \subseteq Nat
        /\ (Clean' => Clean /\ UNCHANGED faults)
        /\ UNCHANGED <<active, closed, shutdown>>
    BY LoopStepFaults, ConstantsAssumption
       DEF FateInv, IInv, TypeOK, LoopStep, OutsideLoop, NoLaunch, SweepList, SweepFilter,
           SweepStrip, SweepClear
  <1>1. Fails(shutdown) => ~Clean'
    <2>1. shutdown \in BOOLEAN
      BY <1>0 DEF TypeOK
    <2> QED BY <1>0, <2>1, FailsSpends DEF Clean
  <1>2. CASE SweepList
    BY <1>0, <1>1, <1>2 DEF SweepList, Listed, ListingFails, LoopFate
  <1>3. CASE SweepFilter
    BY <1>0, <1>3 DEF SweepFilter, LoopFate
  <1>4. CASE SweepStrip
    <2>1. CASE todo = {}
      BY <1>0, <1>4, <2>1 DEF SweepStrip, LoopFate
    <2>2. CASE todo # {}
      <3>1. PICK i \in todo :
              /\ Newest(i, todo) /\ UNCHANGED sweep
              /\ \/ /\ labels' = [labels EXCEPT ![i] = (@ \ {"wip"}) \cup {}]
                    /\ lpc' = "sweepClear" /\ UNCHANGED todo
                 \/ /\ Fails(shutdown)
                    /\ lpc' = "mergeList"
        BY <1>4, <2>2 DEF SweepStrip, Edit, EditFails
      <3>2. \A j \in todo : Newest(j, todo) => j = i
        BY <1>0, <3>1 DEF Newest
      <3>3. CASE lpc' = "sweepClear"
        <4>1. /\ UNCHANGED <<todo, sweep>> /\ lpc = "sweepStrip"
              /\ labels' = [labels EXCEPT ![i] = (@ \ {"wip"}) \cup {}]
          BY <1>4, <3>1, <3>3 DEF SweepStrip
        <4>2. "wip" \notin labels'[i] /\ \A j \in Issues : "wip" \in labels'[j] => "wip" \in labels[j]
          BY <1>0, <3>1, <4>1 DEF TypeOK
        <4> QED BY <1>0, <3>2, <3>3, <4>1, <4>2 DEF LoopFate
      <3>4. CASE lpc' = "mergeList"
        BY <1>1, <3>1, <3>4 DEF LoopFate
      <3> QED BY <3>1, <3>3, <3>4
    <2> QED BY <2>1, <2>2
  <1>5. CASE SweepClear
    BY <1>0, <1>5 DEF SweepClear, LoopFate
  <1> QED BY <1>2, <1>3, <1>4, <1>5

\* The stages behind the sweep begin, while no call fails, without wip on any issue
\* that has no goroutine.
LEMMA BehindSweepFate ==
  ASSUME FateInv, LoopStep, lpc \notin {"sweepList", "sweepFilter", "sweepStrip", "sweepClear"}
  PROVE  LoopFate'
  <1>1. LoopFate /\ (Clean' => Clean) /\ UNCHANGED closed
    BY LoopStepFaults DEF FateInv, OutsideLoop
  <1>2. UNCHANGED <<labels, sweep>> /\ active \subseteq active' /\ lpc' # "sweepClear"
    <2>1. CASE MergeList \/ MergeFilter \/ OnceFree \/ OnceList \/ OnceFilter \/ Tick \/ Drain
      BY <2>1 DEF MergeList, MergeFilter, OnceFree, OnceList, OnceFilter, Tick, Drain, NoLaunch,
                  Listed, ListingFails
    <2>2. CASE MergeLaunch \/ OnceLaunch
      BY <2>2 DEF MergeLaunch, OnceLaunch, NoLaunch, TryLaunch, Launch
    <2>3. ~(SweepList \/ SweepFilter \/ SweepStrip \/ SweepClear)
      BY DEF SweepList, SweepFilter, SweepStrip, SweepClear
    <2> QED BY <2>1, <2>2, <2>3 DEF LoopStep
  <1> QED BY <1>1, <1>2 DEF LoopFate

LEMMA LoopStepFate ==
  ASSUME FateInv, LoopStep
  PROVE  FateInv'
  <1>1. IInv' /\ faults' <= MaxFaults /\ \A i \in Issues : mergePrior'[i] # "wip"
    BY LoopStepFaults, NextIInv DEF FateInv, Next, OutsideLoop
  <1>2. LoopFate'
    BY SweepFate, BehindSweepFate DEF LoopStep, MergeList, MergeFilter, MergeLaunch, OnceFree,
                                      OnceList, OnceFilter, OnceLaunch, Tick, Drain
  <1>3. ASSUME NEW i \in todo, NEW k, NEW p, TryLaunch(i, k, p), k = "merge" \/ p = None,
               UNCHANGED labels, lpc \in {"mergeLaunch", "onceLaunch"}
        PROVE  (\A r \in Runs : RunFate(r)') /\ CancelsExact'
    <2>1. CASE CanAcquire(i)
      <3>1. i \in Issues /\ (Clean => i \in closed \/ "wip" \notin labels[i])
        BY <1>3, <2>1 DEF FateInv, IInv, TypeOK, LoopFate, CanAcquire
      <3> QED BY <1>3, <2>1, <3>1, LaunchFate DEF TryLaunch
    <2>2. CASE ~CanAcquire(i)
      BY <1>3, <2>2, LoopStillFate DEF TryLaunch
    <2> QED BY <2>1, <2>2
  <1>4. (\A r \in Runs : RunFate(r)') /\ CancelsExact'
    <2>1. CASE MergeLaunch /\ todo # {}
      BY <1>3, <2>1 DEF MergeLaunch
    <2>2. CASE OnceLaunch /\ todo # {}
      BY <1>3, <2>2 DEF OnceLaunch
    <2>3. CASE ~((MergeLaunch \/ OnceLaunch) /\ todo # {})
      <3>1. NoLaunch
        BY <2>3 DEF LoopStep, SweepList, SweepFilter, SweepStrip, SweepClear, MergeList,
                    MergeFilter, MergeLaunch, OnceFree, OnceList, OnceFilter, OnceLaunch, Tick,
                    Drain
      <3> QED BY <3>1, LoopStillFate
    <2> QED BY <2>1, <2>2, <2>3
  <1> QED BY <1>1, <1>2, <1>4 DEF FateInv

\* A Stop flags the issue as it cancels its goroutine; the other requests and the
\* humans touch no wip label, and a new process begins with the sweep due.
LEMMA OutsideFate ==
  ASSUME FateInv,
         \/ \E i \in Issues : HumanStep(i) \/ ContinueRemove(i) \/ ContinueClear(i)
         \/ Shutdown \/ Crash \/ Boot
  PROVE  FateInv'
  <1>0. IInv' /\ TypeOK
    BY NextIInv DEF FateInv, Next, IInv
  <1>1. CASE Crash \/ Boot
    <2>1. UNCHANGED <<labels, closed, mergePrior, faults>> /\ lpc' \in {"down", "sweepList"} /\ sweep'
      BY <1>1 DEF Crash, Boot
    <2>2. FreshMemory
      BY <1>1 DEF Crash, Boot
    <2>3. \A r \in Runs : RunFate(r)'
      BY <2>2 DEF FreshMemory, RunFate, Live, None
    <2>4. CancelsExact'
      BY <2>2 DEF FreshMemory, CancelsExact
    <2>5. LoopFate'
      BY <2>1 DEF LoopFate, Clean, Up
    <2> QED BY <1>0, <2>1, <2>3, <2>4, <2>5 DEF FateInv
  <1>2. ASSUME NEW i \in Issues, Stop(i) PROVE FateInv'
    <2>1. PICK q \in Runs :
            /\ cancels[i] = q /\ issue[q] = i /\ pc[q] \notin {"start", "release"}
            /\ stopping' = stopping \cup {i} /\ cancelled' = cancelled \cup {q}
            /\ heard' = IF AtWork(q) THEN heard \cup {q} ELSE heard
      BY <1>0, <1>2 DEF Stop, FateInv, CancelsExact, TypeOK
    <2>2. UNCHANGED <<github, disk, active, inFlight, cancels, pc, locals, out, loop, shutdown,
                      faults>>
      BY <1>2 DEF Stop
    <2>3. Live(q)
      BY <2>1, ConstantsAssumption DEF FateInv, IInv, LedgerExact
    <2>4. \A r \in Runs : RunFate(r)'
      BY <2>1, <2>2, <2>3 DEF FateInv, RunFate, Past, HeardFate, WillStrip, Live, AtWork, Clean, Up
    <2>5. CancelsExact' /\ LoopFate'
      BY <2>2 DEF FateInv, CancelsExact, LoopFate, Clean, Up, Newest
    <2> QED BY <1>0, <2>2, <2>4, <2>5 DEF FateInv
  <1>3. CASE \/ Shutdown
             \/ \E i \in Issues : \/ ContinueCheck(i) \/ Requeue(i) \/ RequestMerge(i)
                                  \/ ContinueRemove(i) \/ ContinueClear(i)
    <2>1. /\ UNCHANGED <<closed, mergePrior, worktree, active, cancels, stopping, pc, locals, out,
                         cancelled, loop, heard>>
          /\ shutdown => shutdown'
      BY <1>3 DEF Shutdown, ContinueCheck, Requeue, RequestMerge, ContinueRemove, ContinueClear
    <2>2. \A i \in Issues : "wip" \in labels'[i] <=> "wip" \in labels[i]
      BY <1>0, <1>3 DEF Shutdown, ContinueCheck, Requeue, RequestMerge, ContinueRemove,
                        ContinueClear, Edit, EditFails, TypeOK
    <2>3. faults' <= MaxFaults /\ (UNCHANGED faults \/ shutdown \/ faults' # MaxFaults)
      BY <1>0, <1>3, FailsSpends DEF Shutdown, ContinueCheck, Requeue, RequestMerge,
         ContinueRemove, ContinueClear, EditFails, Succeeds, FateInv, TypeOK
    <2>4. Clean' => Clean
      BY <2>1, <2>3 DEF Clean, Up
    <2>5. \A r \in Runs : RunFate(r)'
      <3>1. ASSUME NEW r \in Runs PROVE RunFate(r)'
        <4>1. RunFate(r) /\ (Live(r) => issue[r] \in Issues)
          BY <1>0 DEF FateInv, IInv, LedgerExact, TypeOK
        <4> QED BY <2>1, <2>2, <2>4, <4>1 DEF RunFate, Past, HeardFate, WillStrip, Live
      <3> QED BY <3>1
    <2>6. CancelsExact' /\ LoopFate'
      BY <1>0, <2>1, <2>2, <2>4 DEF FateInv, CancelsExact, LoopFate, Newest, TypeOK
    <2> QED BY <1>0, <2>1, <2>3, <2>5, <2>6 DEF FateInv
  <1> QED BY <1>1, <1>2, <1>3 DEF HumanStep

\* FateInv is inductive.
LEMMA NextFate == FateInv /\ [Next]_vars => FateInv'
  <1> SUFFICES ASSUME FateInv, [Next]_vars PROVE FateInv'
    OBVIOUS
  <1>1. CASE UNCHANGED vars
    <2>1. IInv'
      BY <1>1, NextIInv DEF FateInv
    <2> QED BY <1>1, <2>1 DEF FateInv, vars, past, RunFate, Past, HeardFate, WillStrip, Live, Clean, Up,
                              CancelsExact, LoopFate, Newest
  <1> QED BY <1>1, RunStepFate, LoopStepFate, OutsideFate DEF Next

\* A Stop that reaches a run at work is its outcome.
THEOREM StopIsHeard == Spec => []StopWins
  <1>1. FateInv => StopWins
    BY DEF FateInv, IInv, TypeOK, RunFate, HeardFate, StopWins
  <1> QED BY <1>1, InitFate, NextFate, PTL DEF Spec

\* No path through a handler leaves an issue with wip and without a goroutine,
\* while the process is up, nothing failed and no sweep is due.
THEOREM NothingStranded == Spec => []NoStrandedWip
  <1>1. FateInv => NoStrandedWip
    BY DEF FateInv, LoopFate, NoStrandedWip, Clean
  <1> QED BY <1>1, InitFate, NextFate, PTL DEF Spec

\* The local marker leaves wip behind only after GitHub did, but for a park.
THEOREM MarkerIsBehind == Spec => MarkerFollowsLabel
  <1>1. ASSUME FateInv, Next, NEW i \in Issues, marker[i] = "wip",
               marker'[i] \notin {"wip", "rework"}, ~ContinueClear(i)
        PROVE  "wip" \notin labels[i]
    <2>0. TypeOK /\ marker' # marker
      BY <1>1 DEF FateInv, IInv
    <2>1. ASSUME NEW r \in Runs, RunStep(r) PROVE "wip" \notin labels[i]
      <3>1. RecordWip(r) \/ RecordOutcome(r)
        BY <2>0, <2>1 DEF RunStep, Start, SettlePrior, Settle, WearWip, Prepare, Pipeline, Ship, Review,
           Merge, Push, StripTrigger, SwapOutcome, CloseIssue, Panicked, Deferred, ClearCancel,
           Release
      <3>2. RecordOutcome(r) /\ issue[r] = i /\ out[r] \notin {"park", "panic"}
        BY <1>1, <2>0, <3>1 DEF RecordWip, RecordOutcome, OutLabel, TypeOK
      <3> QED BY <1>1, <3>2 DEF RecordOutcome, FateInv, RunFate
    <2>2. CASE LoopStep
      <3>1. SweepClear
        BY <2>0, <2>2 DEF LoopStep, SweepList, SweepFilter, SweepStrip, MergeList, MergeFilter,
           MergeLaunch, OnceFree, OnceList, OnceFilter, OnceLaunch, Tick, Drain
      <3> QED BY <1>1, <2>0, <3>1 DEF SweepClear, FateInv, LoopFate, TypeOK
    <2>3. CASE Shutdown \/ Crash \/ Boot
      BY <2>0, <2>3 DEF Shutdown, Crash, Boot
    <2>4. ASSUME NEW j \in Issues, HumanStep(j) \/ ContinueRemove(j) \/ ContinueClear(j)
          PROVE  "wip" \notin labels[i]
      <3>1. ContinueClear(j)
        BY <2>0, <2>4 DEF HumanStep, Stop, ContinueCheck, Requeue, RequestMerge, ContinueRemove
      <3> QED BY <1>1, <2>0, <3>1 DEF ContinueClear, TypeOK
    <2> QED BY <1>1, <2>1, <2>2, <2>3, <2>4 DEF Next
  <1>2. FateInv /\ [Next]_vars =>
          [\A i \in Issues : marker[i] = "wip" /\ marker'[i] \notin {"wip", "rework"}
                               /\ ~ContinueClear(i)
             => "wip" \notin labels[i]]_vars
    BY <1>1 DEF vars
  <1> QED BY <1>2, InitFate, NextFate, PTL DEF Spec, MarkerFollowsLabel

-----------------------------------------------------------------------------
(***************************************************************************)
(* The label a merge puts back.                                            *)
(*                                                                         *)
(* Of an issue that is not astray, the label on record was worn before the *)
(* unfinished merge, and what was worn is on record or still on GitHub:    *)
(* whatever else happens to the issue in the meantime.  While a merge is   *)
(* under way, the two together are exactly what was worn.                  *)
(***************************************************************************)

\* The state labels of issue i but wip, and the label on record for it.
Apart(i) == (labels[i] \cap State) \ {"wip"}
Recorded(i) == {mergePrior[i]} \ {None}

IssuePrior(i) ==
  i \notin astray => /\ Recorded(i) \subseteq worn[i]
                     /\ worn[i] \subseteq Recorded(i) \cup Apart(i)

\* Goroutine r is a merge that has settled what to restore and may yet do it.
Restoring(r) ==
  \/ pc[r] \in {"wear", "recordWip"} /\ kind[r] = "merge"
  \/ pc[r] \in {"merge", "push"}
  \/ pc[r] \in {"strip", "swap"} /\ out[r] = "restore"

RunPrior(r) ==
  Restoring(r) /\ issue[r] \notin astray
    => /\ worn[issue[r]] = Recorded(issue[r]) \cup Apart(issue[r])
       /\ {prior[r]} \ {None} = Recorded(issue[r])

PriorInv ==
  /\ \A i \in Issues : IssuePrior(i)
  /\ \A r \in Runs : RunPrior(r)

\* An issue with wip looks like one in progress, whatever else it wears.
LEMMA CurrentWip == \A ls : "wip" \in ls => Current(ls) = "wip"
  BY DEF Current

\* What is on record and in the history changes in two places only.
LEMMA RunStepRecords ==
  ASSUME NEW r \in Runs, RunStep(r), ~SettlePrior(r), ~RecordOutcome(r)
  PROVE  UNCHANGED <<mergePrior, worn, astray>>
  BY DEF RunStep, Start, WearWip, RecordWip, Prepare, Pipeline, Ship, Review, Merge, Push,
         StripTrigger, SwapOutcome, CloseIssue, Panicked, Deferred, ClearCancel, Release, past

\* A goroutine edits labels in three places only.
LEMMA RunStepEdits ==
  ASSUME NEW r \in Runs, RunStep(r), ~WearWip(r), ~StripTrigger(r), ~SwapOutcome(r)
  PROVE  UNCHANGED labels
  BY DEF RunStep, Start, SettlePrior, Settle, RecordWip, Prepare, Pipeline, Ship, Review, Merge,
         Push, RecordOutcome, CloseIssue, Panicked, Deferred, ClearCancel, Release

\* A step of a goroutine changes nothing for the other issues and goroutines.
LEMMA OthersPrior ==
  ASSUME FateInv, PriorInv, NEW r \in Runs, RunStep(r)
  PROVE  /\ \A i \in Issues \ {issue[r]} : IssuePrior(i)'
         /\ \A s \in Runs \ {r} : RunPrior(s)'
  <1>0. TypeOK /\ Live(r) /\ issue[r] \in Issues
    BY RunStepFrame DEF FateInv, IInv, LedgerExact, TypeOK, Release, Live
  <1>1. ASSUME NEW i \in Issues \ {issue[r]}
        PROVE  /\ mergePrior'[i] = mergePrior[i] /\ worn'[i] = worn[i]
               /\ i \in astray' <=> i \in astray
    <2>1. CASE SettlePrior(r)
      BY <1>0, <2>1 DEF SettlePrior, Settle, TypeOK, past
    <2>2. CASE RecordOutcome(r)
      BY <1>0, <2>2 DEF RecordOutcome, TypeOK, past
    <2> QED BY <2>1, <2>2, RunStepRecords
  <1>2. \A i \in Issues \ {issue[r]} : Apart(i)' = Apart(i) /\ Recorded(i)' = Recorded(i)
    BY <1>1, RunStepOthers DEF Apart, Recorded
  <1>3. \A i \in Issues \ {issue[r]} : IssuePrior(i)'
    BY <1>1, <1>2 DEF PriorInv, IssuePrior
  <1>4. ASSUME NEW s \in Runs \ {r} PROVE RunPrior(s)'
    <2>1. Restoring(s)' => Restoring(s) /\ Live(s)
      BY RunStepOthers DEF Restoring, Live
    <2>2. Live(s) => issue[s] \in Issues \ {issue[r]}
      BY <1>0 DEF FateInv, IInv, LedgerExact, OneRunPerIssue, TypeOK
    <2> QED BY <1>1, <1>2, <2>1, <2>2, RunStepOthers DEF PriorInv, RunPrior
  <1> QED BY <1>3, <1>4

\* When a merge settles what to restore, either the listing had shown it, or the
\* issue wears nothing and the record knows; else the issue goes astray.
LEMMA SettleKnows ==
  ASSUME FateInv, PriorInv, NEW r \in Runs, SettlePrior(r)
  PROVE  IssuePrior(issue[r])' /\ RunPrior(r)'
  <1> DEFINE i == issue[r]
             p == IF prior[r] = None THEN mergePrior[i] ELSE prior[r]
  <1>0. TypeOK /\ i \in Issues /\ pc[r] = "prior"
    BY DEF FateInv, IInv, LedgerExact, TypeOK, SettlePrior, Settle, Live
  <1>1. CASE prior[r] = "wip"
    <2>1. UNCHANGED <<mergePrior, worn, astray, labels>> /\ pc'[r] = "deferred" /\ i' = i
      BY <1>0, <1>1 DEF SettlePrior, Settle, Goto, TypeOK, past
    <2> QED BY <1>0, <2>1 DEF PriorInv, IssuePrior, RunPrior, Restoring, Apart, Recorded
  <1>2. CASE prior[r] # "wip"
    <2>1. /\ i' = i /\ UNCHANGED labels /\ prior'[r] = p
          /\ mergePrior'[i] = IF p = None THEN mergePrior[i] ELSE p
          /\ worn'[i] = IF labels[i] \cap State = {} THEN worn[i] ELSE labels[i] \cap State
          /\ prior[r] # Current(labels[i]) => i \in astray'
          /\ prior[r] = None /\ i \in astray => i \in astray'
      <3>1. /\ prior' = [prior EXCEPT ![r] = p] /\ UNCHANGED <<labels, issue>>
            /\ mergePrior' = IF p = None THEN mergePrior ELSE [mergePrior EXCEPT ![i] = p]
            /\ worn' = IF labels[i] \cap State = {} THEN worn
                       ELSE [worn EXCEPT ![i] = labels[i] \cap State]
        BY <1>2 DEF SettlePrior, Settle
      <3>2. /\ prior[r] # Current(labels[i]) => i \in astray'
            /\ prior[r] = None /\ i \in astray => i \in astray'
        <4>1. astray' = IF prior[r] # Current(labels[i]) THEN astray \cup {i}
                        ELSE IF prior[r] = None THEN astray ELSE astray \ {i}
          BY <1>2 DEF SettlePrior, Settle
        <4> HIDE DEF i, p
        <4> QED BY <4>1
      <3> HIDE DEF p
      <3> QED BY <1>0, <3>1, <3>2 DEF TypeOK
    <2>2. p # None => mergePrior'[i] = p
      BY <2>1
    <2>3. p = None => mergePrior'[i] = None
      BY <2>1
    <2> HIDE DEF p
    <2>4. {prior'[r]} \ {None} = Recorded(i)'
      BY <2>1, <2>2, <2>3 DEF Recorded
    <2>5. ASSUME i \notin astray'
          PROVE  worn'[i] = Recorded(i)' \cup Apart(i)'
      <3>1. prior[r] = Current(labels[i])
        BY <2>1, <2>5
      <3>2. CASE labels[i] \cap State = {}
        <4>1. prior[r] = None
          BY <3>1, <3>2 DEF Current, State
        <4>2. i \notin astray /\ Apart(i) = {} /\ p = mergePrior[i]
          BY <2>1, <2>5, <3>2, <4>1 DEF Apart, p
        <4>3. worn[i] = Recorded(i)
          BY <1>0, <4>2 DEF PriorInv, IssuePrior
        <4>4. Recorded(i)' = Recorded(i) /\ Apart(i)' = {}
          BY <2>1, <2>2, <2>3, <4>2 DEF Recorded, Apart
        <4> QED BY <2>1, <3>2, <4>3, <4>4
      <3>3. CASE labels[i] \cap State # {}
        <4>1. prior[r] # None /\ prior[r] \in labels[i] \cap State
          BY <3>1, <3>3 DEF Current, State, None
        <4>2. "wip" \notin labels[i]
          BY <1>2, <3>1, CurrentWip
        <4>3. Recorded(i)' = {prior[r]} /\ Apart(i)' = labels[i] \cap State
          BY <2>1, <2>2, <4>1, <4>2 DEF Recorded, Apart, p
        <4> QED BY <2>1, <3>3, <4>1, <4>3
      <3> QED BY <3>2, <3>3
    <2> QED BY <2>1, <2>4, <2>5 DEF IssuePrior, RunPrior
  <1> QED BY <1>1, <1>2

\* wip takes the place of the label on record, which stays on record.
LEMMA WearKeeps ==
  ASSUME FateInv, PriorInv, NEW r \in Runs, WearWip(r)
  PROVE  IssuePrior(issue[r])' /\ RunPrior(r)'
  <1> DEFINE i == issue[r]
             remove == IF kind[r] = "merge" THEN {prior[r]} \ {None} ELSE {}
  <1>0. TypeOK /\ i \in Issues /\ pc[r] = "wear"
    BY DEF FateInv, IInv, LedgerExact, TypeOK, WearWip, Live
  <1>1. UNCHANGED <<mergePrior, worn, astray, issue, kind, prior>>
    BY DEF WearWip, past
  <1>2. labels' = labels \/ labels' = [labels EXCEPT ![i] = (@ \ remove) \cup {"wip"}]
    BY DEF WearWip, Edit, EditFails
  <1> HIDE DEF remove
  <1>3. Apart(i)' = Apart(i) \/ Apart(i)' = Apart(i) \ remove
    BY <1>0, <1>1, <1>2 DEF Apart, TypeOK
  <1>4. Recorded(i)' = Recorded(i)
    BY <1>1 DEF Recorded
  <1>5. pc'[r] \in {"recordWip", "deferred"}
    BY <1>0 DEF WearWip, Goto, TypeOK
  <1>6. CASE kind[r] = "merge"
    <2>1. i \notin astray => /\ worn[i] = Recorded(i) \cup Apart(i)
                             /\ remove = Recorded(i) /\ {prior[r]} \ {None} = Recorded(i)
      BY <1>0, <1>6 DEF PriorInv, RunPrior, Restoring, remove
    <2> QED BY <1>1, <1>3, <1>4, <2>1 DEF IssuePrior, RunPrior
  <1>7. CASE kind[r] # "merge"
    <2>1. Apart(i)' = Apart(i)
      BY <1>3, <1>7 DEF remove
    <2>2. ~Restoring(r)'
      BY <1>1, <1>5, <1>7 DEF Restoring
    <2> QED BY <1>0, <1>1, <1>4, <2>1, <2>2 DEF PriorInv, IssuePrior, RunPrior
  <1> QED BY <1>6, <1>7

\* The steps between leave alone what is worn and on record, and a merge that
\* gives up restores nothing any more.
LEMMA WorkKeeps ==
  ASSUME FateInv, PriorInv, NEW r \in Runs, RunStep(r),
         ~SettlePrior(r), ~WearWip(r), ~SwapOutcome(r), ~RecordOutcome(r)
  PROVE  (\A i \in Issues : IssuePrior(i)') /\ RunPrior(r)'
  <1>0. TypeOK /\ Live(r) /\ issue[r] \in Issues /\ UNCHANGED <<mergePrior, worn, astray>>
    BY RunStepFrame, RunStepRecords DEF FateInv, IInv, LedgerExact, TypeOK, Release, Live
  <1>1. \A i \in Issues : Apart(i)' = Apart(i) /\ Recorded(i)' = Recorded(i)
    <2>1. UNCHANGED labels \/ labels' = [labels EXCEPT ![issue[r]] = (@ \ {"merge"}) \cup {}]
      BY RunStepEdits DEF StripTrigger, Edit, EditFails
    <2>2. \A i \in Issues : Apart(i)' = Apart(i)
      BY <1>0, <2>1 DEF Apart, State, TypeOK
    <2> QED BY <1>0, <2>2 DEF Recorded
  <1>2. Restoring(r)' => Restoring(r) /\ UNCHANGED <<issue, prior>>
    <2>1. CASE Start(r) \/ RecordWip(r) \/ Prepare(r) \/ Pipeline(r) \/ Ship(r)
      BY <1>0, <2>1 DEF Start, RecordWip, Prepare, Pipeline, Ship, Goto, Conclude, Restoring, TypeOK
    <2>2. CASE Review(r) \/ Merge(r) \/ Push(r) \/ StripTrigger(r) \/ CloseIssue(r)
      BY <1>0, <2>2 DEF Review, Merge, Push, StripTrigger, CloseIssue, Goto, Conclude, Restoring,
                        TypeOK
    <2>3. CASE Panicked(r) \/ Deferred(r) \/ ClearCancel(r) \/ Release(r)
      BY <1>0, <2>3 DEF Panicked, Deferred, ClearCancel, Release, Goto, Conclude, Restoring, TypeOK
    <2> QED BY <2>1, <2>2, <2>3 DEF RunStep
  <1>3. \A i \in Issues : IssuePrior(i)'
    BY <1>0, <1>1 DEF PriorInv, IssuePrior
  <1>4. RunPrior(r)'
    BY <1>0, <1>1, <1>2 DEF PriorInv, RunPrior
  <1> QED BY <1>3, <1>4

\* An outcome's swap takes only wip off, and its record, but for a stopped one,
\* closes the account of a merge.
LEMMA OutcomeKeeps ==
  ASSUME FateInv, PriorInv, NEW r \in Runs, SwapOutcome(r) \/ RecordOutcome(r)
  PROVE  IssuePrior(issue[r])' /\ RunPrior(r)'
  <1> DEFINE i == issue[r]
  <1>0. TypeOK /\ i \in Issues /\ UNCHANGED issue
    BY DEF FateInv, IInv, LedgerExact, TypeOK, SwapOutcome, RecordOutcome, Live
  <1>1. ~Restoring(r)'
    BY <1>0 DEF SwapOutcome, RecordOutcome, Goto, Restoring, TypeOK
  <1>2. CASE SwapOutcome(r)
    <2>1. labels' = labels \/ labels' = [labels EXCEPT ![i] = (@ \ {"wip"}) \cup Target(r)]
      BY <1>2 DEF SwapOutcome, Edit, EditFails
    <2>2. Apart(i) \subseteq Apart(i)'
      BY <1>0, <2>1 DEF Apart, TypeOK
    <2>3. UNCHANGED <<mergePrior, worn, astray>>
      BY <1>2 DEF SwapOutcome, past
    <2> QED BY <1>0, <1>1, <2>2, <2>3 DEF PriorInv, IssuePrior, RunPrior, Recorded
  <1>3. CASE RecordOutcome(r)
    <2>1. CASE kind[r] = "merge" /\ out[r] # "stopped"
      <3>1. mergePrior'[i] = None /\ worn'[i] = {}
        BY <1>0, <1>3, <2>1 DEF RecordOutcome, TypeOK
      <3> QED BY <1>0, <1>1, <3>1 DEF IssuePrior, RunPrior, Recorded
    <2>2. CASE ~(kind[r] = "merge" /\ out[r] # "stopped")
      BY <1>0, <1>1, <1>3, <2>2 DEF RecordOutcome, past, PriorInv, IssuePrior, RunPrior, Recorded,
                                    Apart
    <2> QED BY <2>1, <2>2
  <1> QED BY <1>2, <1>3

LEMMA RunStepPrior ==
  ASSUME FateInv, PriorInv, NEW r \in Runs, RunStep(r)
  PROVE  PriorInv'
  <1>1. SettlePrior(r) \/ WearWip(r) \/ SwapOutcome(r) \/ RecordOutcome(r) => UNCHANGED issue
    BY DEF SettlePrior, Settle, WearWip, SwapOutcome, RecordOutcome
  <1>2. (\A i \in Issues : IssuePrior(i)') /\ RunPrior(r)'
    BY <1>1, OthersPrior, SettleKnows, WearKeeps, WorkKeeps, OutcomeKeeps
  <1> QED BY <1>2, OthersPrior DEF PriorInv

\* The loop takes only wip off, and what it launches has settled nothing yet.
LEMMA LoopStepPrior ==
  ASSUME FateInv, PriorInv, LoopStep
  PROVE  PriorInv'
  <1>0. TypeOK /\ UNCHANGED <<mergePrior, worn, astray, out>>
    BY LoopStepFaults DEF FateInv, IInv, OutsideLoop, past
  <1>1. \A i \in Issues : Apart(i)' = Apart(i) /\ Recorded(i)' = Recorded(i)
    <2>1. labels' = labels \/ \E i \in todo : labels' = [labels EXCEPT ![i] = (@ \ {"wip"}) \cup {}]
      BY DEF LoopStep, SweepList, SweepFilter, SweepStrip, SweepClear, MergeList, MergeFilter,
             MergeLaunch, OnceFree, OnceList, OnceFilter, OnceLaunch, Tick, Drain, EditFails, Edit
    <2> QED BY <1>0, <2>1 DEF Apart, Recorded, TypeOK
  <1>2. ASSUME NEW r \in Runs
        PROVE  /\ Restoring(r)' => Restoring(r) /\ prior'[r] = prior[r] /\ issue'[r] = issue[r]
               /\ Live(r) => pc'[r] = pc[r]
    <2>1. CASE NoLaunch
      BY <1>0, <2>1 DEF NoLaunch, Restoring
    <2>2. CASE \E i, k, p : Launch(i, k, p)
      BY <1>0, <2>2 DEF Launch, Goto, Restoring, Live, TypeOK
    <2>3. NoLaunch \/ \E i, k, p : Launch(i, k, p)
      BY DEF LoopStep, SweepList, SweepFilter, SweepStrip, SweepClear, MergeList, MergeFilter,
             MergeLaunch, OnceFree, OnceList, OnceFilter, OnceLaunch, Tick, Drain, TryLaunch
    <2> QED BY <2>1, <2>2, <2>3
  <1>3. \A i \in Issues : IssuePrior(i)'
    BY <1>0, <1>1 DEF PriorInv, IssuePrior
  <1>4. ASSUME NEW r \in Runs PROVE RunPrior(r)'
    <2>1. Restoring(r) => issue[r] \in Issues
      BY <1>0 DEF FateInv, IInv, LedgerExact, Live, Restoring, TypeOK
    <2> QED BY <1>0, <1>1, <1>2, <2>1 DEF PriorInv, RunPrior
  <1> QED BY <1>3, <1>4 DEF PriorInv

\* A label a human takes off is no more among those to put back, unless it is the
\* one on record: then the issue goes astray.
LEMMA DisownKeeps ==
  ASSUME FateInv, PriorInv, NEW i \in Issues, NEW l \in State \ {"wip"},
         labels' = [labels EXCEPT ![i] = (@ \ {l}) \cup {}], Disown(i, l),
         UNCHANGED <<mergePrior, pc, kind, out, issue, prior>>
  PROVE  PriorInv'
  <1>0. TypeOK /\ l # None
    BY DEF FateInv, IInv, State, None
  <1>1. /\ \A j \in Issues : Recorded(j)' = Recorded(j)
        /\ \A j \in Issues \ {i} : /\ Apart(j)' = Apart(j) /\ worn'[j] = worn[j]
                                   /\ j \in astray' <=> j \in astray
        /\ Apart(i)' = Apart(i) \ {l} /\ worn'[i] = worn[i] \ {l}
        /\ i \notin astray' => i \notin astray /\ l \notin Recorded(i)
    BY <1>0 DEF Disown, Apart, Recorded, TypeOK
  <1>2. ASSUME NEW j \in Issues PROVE IssuePrior(j)'
    <2>1. CASE j = i
      BY <1>1, <2>1 DEF PriorInv, IssuePrior
    <2>2. CASE j # i
      BY <1>1, <2>2 DEF PriorInv, IssuePrior
    <2> QED BY <2>1, <2>2
  <1>3. ASSUME NEW r \in Runs PROVE RunPrior(r)'
    <2>1. (Restoring(r)' => Restoring(r)) /\ (Restoring(r) => issue[r] \in Issues)
      BY <1>0 DEF FateInv, IInv, LedgerExact, Live, Restoring, TypeOK
    <2>2. CASE issue[r] = i
      BY <1>1, <2>1, <2>2 DEF PriorInv, RunPrior
    <2>3. CASE issue[r] # i
      BY <1>1, <2>1, <2>3 DEF PriorInv, RunPrior
    <2> QED BY <2>2, <2>3
  <1> QED BY <1>2, <1>3 DEF PriorInv

\* The dashboard, the humans, the signals, a crash and a boot.
LEMMA OutsidePrior ==
  ASSUME FateInv, PriorInv,
         \/ \E i \in Issues : HumanStep(i) \/ ContinueRemove(i) \/ ContinueClear(i)
         \/ Shutdown \/ Crash \/ Boot
  PROVE  PriorInv'
  <1>0. TypeOK
    BY DEF FateInv, IInv
  <1>1. ASSUME UNCHANGED <<mergePrior, worn, astray>>,
               \A i \in Issues : Apart(i)' = Apart(i),
               \A r \in Runs : Restoring(r)' => /\ Restoring(r) /\ issue'[r] = issue[r]
                                                /\ prior'[r] = prior[r]
        PROVE  PriorInv'
    <2>1. \A i \in Issues : IssuePrior(i)' /\ Recorded(i)' = Recorded(i)
      BY <1>1 DEF PriorInv, IssuePrior, Recorded
    <2>2. ASSUME NEW r \in Runs PROVE RunPrior(r)'
      <3>1. Restoring(r) => issue[r] \in Issues
        BY <1>0 DEF FateInv, IInv, LedgerExact, Live, Restoring, TypeOK
      <3> QED BY <1>1, <2>1, <3>1 DEF PriorInv, RunPrior
    <2> QED BY <2>1, <2>2 DEF PriorInv
  <1>2. CASE Crash \/ Boot
    <2>1. UNCHANGED <<mergePrior, worn, astray, labels>> /\ \A r \in Runs : ~Restoring(r)'
      BY <1>2 DEF Crash, Boot, FreshMemory, Restoring, past, None
    <2> QED BY <1>1, <2>1 DEF Apart
  <1>3. CASE Shutdown \/ \E i \in Issues : Stop(i) \/ ContinueCheck(i) \/ ContinueClear(i)
    <2>1. UNCHANGED <<mergePrior, worn, astray, labels, pc, kind, out, issue, prior>>
      BY <1>3 DEF Shutdown, Stop, ContinueCheck, ContinueClear, past
    <2> QED BY <1>1, <2>1 DEF Apart, Restoring
  <1>4. ASSUME NEW i \in Issues, RequestMerge(i) PROVE PriorInv'
    <2>1. /\ UNCHANGED <<mergePrior, worn, astray, pc, kind, out, issue, prior>>
          /\ labels' = [labels EXCEPT ![i] = (@ \ {}) \cup {"merge"}]
      BY <1>4 DEF RequestMerge, Edit, past
    <2>2. \A j \in Issues : Apart(j)' = Apart(j)
      BY <1>0, <2>1 DEF Apart, State, TypeOK
    <2> QED BY <1>1, <2>1, <2>2 DEF Restoring
  <1>5. ASSUME NEW i \in Issues, Requeue(i) PROVE PriorInv'
    <2>1. PICK l \in {"rework", "needsInfo"} :
            labels' = [labels EXCEPT ![i] = (@ \ {l}) \cup {}] /\ Disown(i, l)
      BY <1>5 DEF Requeue, Edit
    <2> QED BY <1>5, <2>1, DisownKeeps DEF Requeue, State
  <1>6. ASSUME NEW i \in Issues, ContinueRemove(i) PROVE PriorInv'
    <2>1. UNCHANGED <<mergePrior, pc, kind, out, issue, prior>>
      BY <1>6 DEF ContinueRemove
    <2>2. CASE labels' = labels
      BY <1>1, <1>6, <2>1, <2>2 DEF ContinueRemove, Apart, Restoring, past
    <2>3. CASE labels' # labels
      BY <1>6, <2>1, <2>3, DisownKeeps DEF ContinueRemove, Edit, EditFails, State
    <2> QED BY <2>2, <2>3
  <1> QED BY <1>2, <1>3, <1>4, <1>5, <1>6 DEF HumanStep

\* Together with FateInv, PriorInv is inductive.
LEMMA InitPrior == Init => PriorInv
  BY DEF Init, PriorInv, IssuePrior, RunPrior, Restoring, Recorded

LEMMA NextPrior == FateInv /\ PriorInv /\ [Next]_vars => PriorInv'
  <1> SUFFICES ASSUME FateInv, PriorInv, [Next]_vars PROVE PriorInv'
    OBVIOUS
  <1>1. CASE UNCHANGED vars
    BY <1>1 DEF vars, past, PriorInv, IssuePrior, RunPrior, Restoring, Recorded, Apart
  <1> QED BY <1>1, RunStepPrior, LoopStepPrior, OutsidePrior DEF Next

\* A merge that succeeds puts back the state labels the issue wore before it,
\* whatever crashed, failed or was stopped since, unless the issue went astray.
THEOREM PriorIsRestored == Spec => MergeRestores
  <1>1. ASSUME FateInv, PriorInv, Next, NEW r \in Runs, pc[r] = "swap",
               out[r] = "restore", pc'[r] = "record", issue[r] \notin astray
        PROVE  labels'[issue[r]] \cap State = worn[issue[r]]
    <2>0. TypeOK /\ Live(r) /\ issue[r] \in Issues
      BY <1>1 DEF FateInv, IInv, LedgerExact, Live, TypeOK
    <2>1. SwapOutcome(r)
      <3>1. ASSUME NEW s \in Runs, RunStep(s) PROVE SwapOutcome(r)
        <4>1. s = r
          BY <1>1, <3>1, RunStepOthers
        <4> QED BY <1>1, <3>1, <4>1 DEF RunStep, Start, SettlePrior, Settle, WearWip, RecordWip,
                   Prepare, Pipeline, Ship, Review, Merge, Push, StripTrigger, RecordOutcome,
                   CloseIssue, Panicked, Deferred, ClearCancel, Release
      <3>2. CASE LoopStep
        <4>1. NoLaunch \/ \E i, k, p : Launch(i, k, p)
          BY <3>2 DEF LoopStep, SweepList, SweepFilter, SweepStrip, SweepClear, MergeList,
             MergeFilter, MergeLaunch, OnceFree, OnceList, OnceFilter, OnceLaunch, Tick, Drain,
             TryLaunch
        <4> QED BY <1>1, <2>0, <4>1 DEF NoLaunch, Launch, Goto, TypeOK
      <3>3. CASE \/ \E i \in Issues : HumanStep(i) \/ ContinueRemove(i) \/ ContinueClear(i)
                 \/ Shutdown \/ Crash \/ Boot
        <4>1. UNCHANGED pc \/ pc' = [s \in Runs |-> "idle"]
          BY <3>3 DEF HumanStep, Stop, ContinueCheck, Requeue, RequestMerge, ContinueRemove,
             ContinueClear, Shutdown, Crash, Boot, FreshMemory
        <4> QED BY <1>1, <4>1
      <3> QED BY <1>1, <3>1, <3>2, <3>3 DEF Next
    <2>2. labels' = [labels EXCEPT ![issue[r]] = (@ \ {"wip"}) \cup ({prior[r]} \ {None})]
      BY <1>1, <2>0, <2>1 DEF SwapOutcome, Edit, Target, Goto, TypeOK
    <2>3. worn[issue[r]] = ({prior[r]} \ {None}) \cup Apart(issue[r])
      BY <1>1 DEF PriorInv, RunPrior, Restoring
    <2>4. prior[r] \in State \cup {None}
      BY <2>0 DEF TypeOK, StateOrNone
    <2> QED BY <2>0, <2>2, <2>3, <2>4 DEF Apart, TypeOK
  <1>2. FateInv /\ PriorInv /\ [Next]_vars =>
          [\A r \in Runs :
             /\ pc[r] = "swap" /\ out[r] = "restore" /\ pc'[r] = "record"
             /\ issue[r] \notin astray
             => labels'[issue[r]] \cap State = worn[issue[r]]]_vars
    BY <1>1 DEF vars
  <1> QED BY <1>2, InitFate, NextFate, InitPrior, NextPrior, PTL DEF Spec, MergeRestores

-----------------------------------------------------------------------------
(***************************************************************************)
(* The picks of a pipeline cycle.                                          *)
(*                                                                         *)
(* PicksFit holds between the steps of a cycle, though goroutines end in   *)
(* between, because nothing but the loop itself launches.                  *)
(***************************************************************************)

Rank(i, S) == Cardinality({j \in S : j < i})

\* The ranks in a finite set are the numbers below its size, one each.
LEMMA RankBijection ==
  ASSUME NEW S \in SUBSET Nat, IsFiniteSet(S)
  PROVE  /\ Cardinality(S) \in Nat
         /\ \A i \in S : Rank(i, S) \in 0 .. Cardinality(S) - 1
         /\ \A i, j \in S : i < j => Rank(i, S) < Rank(j, S)
         /\ \A n \in 0 .. Cardinality(S) - 1 : \E i \in S : Rank(i, S) = n
  <1> DEFINE Below(i) == {j \in S : j < i}
  <1>1. \A i : /\ IsFiniteSet(Below(i)) /\ Cardinality(Below(i)) \in Nat
               /\ Rank(i, S) = Cardinality(Below(i))
    BY FS_Subset, FS_CardinalityType DEF Rank
  <1>2. Cardinality(S) \in Nat
    BY FS_CardinalityType
  <1>3. ASSUME NEW i \in S, NEW T, IsFiniteSet(T), Below(i) \subseteq T, i \in T
        PROVE  Rank(i, S) < Cardinality(T)
    <2>1. i \notin Below(i)
      OBVIOUS
    <2>2. Below(i) \in SUBSET T /\ Below(i) # T
      BY <1>3, <2>1
    <2> HIDE DEF Below
    <2>3. Cardinality(Below(i)) <= Cardinality(T) /\ Cardinality(T) # Cardinality(Below(i))
      BY <1>3, <2>2, FS_Subset
    <2>4. Cardinality(T) \in Nat
      BY <1>3, FS_CardinalityType
    <2> QED BY <1>1, <2>3, <2>4
  <1>4. \A i \in S : Rank(i, S) \in 0 .. Cardinality(S) - 1
    <2>1. ASSUME NEW i \in S PROVE Rank(i, S) \in 0 .. Cardinality(S) - 1
      <3>1. Rank(i, S) < Cardinality(S) /\ Rank(i, S) \in Nat
        BY <1>1, <1>3
      <3> HIDE DEF Below
      <3> QED BY <1>2, <3>1
    <2> QED BY <2>1
  <1>5. ASSUME NEW i \in S, NEW j \in S, i < j PROVE Rank(i, S) < Rank(j, S)
    <2>1. Below(i) \subseteq Below(j) /\ i \in Below(j)
      <3>1. i \in Nat /\ j \in Nat /\ \A x \in S : x \in Nat
        OBVIOUS
      <3>2. \A x \in S : x < i => x < j
        BY <1>5, <3>1
      <3> QED BY <1>5, <3>2
    <2> HIDE DEF Below
    <2> QED BY <1>1, <1>3, <2>1
  <1>6. ASSUME NEW n \in 0 .. Cardinality(S) - 1 PROVE \E i \in S : Rank(i, S) = n
    <2> DEFINE T == 0 .. Cardinality(S) - 1
               f == [i \in S |-> Rank(i, S)]
    <2>1. f \in [S -> T] /\ \A i, j \in S : f[i] = f[j] => i = j
      <3>1. \A i, j \in S : f[i] = f[j] => i = j
        <4>1. ASSUME NEW i \in S, NEW j \in S, i # j PROVE f[i] # f[j]
          <5>1. i < j \/ j < i
            BY <4>1
          <5>2. Rank(i, S) < Rank(j, S) \/ Rank(j, S) < Rank(i, S)
            BY <1>5, <5>1
          <5>3. Rank(i, S) \in Nat /\ Rank(j, S) \in Nat
            BY <1>1
          <5>4. Rank(i, S) # Rank(j, S)
            BY <5>2, <5>3
          <5> QED BY <5>4
        <4> QED BY <4>1
      <3> QED BY <1>4, <3>1
    <2>2. f \in Injection(S, T)
      BY <2>1 DEF Injection, IsInjective
    <2>3. IsFiniteSet(T) /\ Cardinality(T) = Cardinality(S)
      BY <1>2, <1>6, FS_Interval
    <2>4. f \in Surjection(S, T)
      BY <2>2, <2>3, FS_Injection
    <2> QED BY <2>4 DEF Surjection
  <1> QED BY <1>2, <1>4, <1>5, <1>6

\* selectIssues picks as many issues as the limit allows, and none that is younger
\* than one it leaves out.
THEOREM OldestAreSelected ==
  ASSUME NEW S \in SUBSET Nat, IsFiniteSet(S), NEW limit \in Nat
  PROVE  LET picks == SelectIssues(S, limit)
         IN  /\ Cardinality(picks) = IF Cardinality(S) > limit THEN limit ELSE Cardinality(S)
             /\ \A i \in picks, j \in S \ picks : i < j
  <1> DEFINE picks == SelectIssues(S, limit)
             size == IF Cardinality(S) > limit THEN limit ELSE Cardinality(S)
             T == 0 .. size - 1
             f == [i \in picks |-> Rank(i, S)]
  <1>1. /\ Cardinality(S) \in Nat
        /\ \A i \in S : Rank(i, S) \in 0 .. Cardinality(S) - 1
        /\ \A i, j \in S : i < j => Rank(i, S) < Rank(j, S)
        /\ \A n \in 0 .. Cardinality(S) - 1 : \E i \in S : Rank(i, S) = n
    BY RankBijection
  <1>2. picks = {i \in S : Rank(i, S) < limit}
    BY DEF SelectIssues, Rank
  <1> HIDE DEF picks
  <1>3. \A i \in S : i \in picks <=> Rank(i, S) \in T
    BY <1>1, <1>2
  <1>4. f \in [picks -> T] /\ picks \subseteq S
    BY <1>2, <1>3
  <1>5. \A i, j \in picks : f[i] = f[j] => i = j
    <2>1. ASSUME NEW i \in picks, NEW j \in picks, i # j PROVE f[i] # f[j]
      <3>1. i \in S /\ j \in S /\ (i < j \/ j < i)
        BY <1>4, <2>1
      <3>2. Rank(i, S) < Rank(j, S) \/ Rank(j, S) < Rank(i, S)
        BY <1>1, <3>1
      <3>3. Rank(i, S) # Rank(j, S)
        BY <1>1, <3>1, <3>2
      <3> QED BY <3>3
    <2> QED BY <2>1
  <1>6. f \in Injection(picks, T)
    BY <1>4, <1>5 DEF Injection, IsInjective
  <1>7. f \in Surjection(picks, T)
    <2>1. \A n \in T : \E i \in picks : f[i] = n
      <3>1. ASSUME NEW n \in T PROVE \E i \in picks : f[i] = n
        <4>1. PICK i \in S : Rank(i, S) = n
          BY <1>1
        <4> QED BY <1>3, <4>1
      <3> QED BY <3>1
    <2> QED BY <1>4, <2>1 DEF Surjection
  <1>8. IsFiniteSet(T) /\ Cardinality(T) = size
    <2>1. size \in Nat
      BY <1>1
    <2> HIDE DEF size
    <2> QED BY <2>1, FS_Interval
  <1>9. Cardinality(picks) = Cardinality(T)
    BY <1>6, <1>7, <1>8, FS_Injection
  <1>10. ASSUME NEW i \in picks, NEW j \in S \ picks PROVE i < j
    <2>1. i \in S /\ Rank(i, S) < Rank(j, S)
      BY <1>1, <1>2
    <2>2. ~(j < i) /\ i # j
      BY <1>1, <1>10, <2>1
    <2> QED BY <2>1, <2>2
  <1> QED BY <1>8, <1>9, <1>10 DEF picks

\* What a cycle has read or picked still fits into the ledger.
PicksFit ==
  /\ lpc \in {"onceList", "onceFilter"} => Cardinality(active) + free <= Slots
  /\ lpc = "onceLaunch" => /\ todo \cap active = {}
                           /\ Cardinality(todo) + Cardinality(active) <= Slots

LEMMA TodoFinite ==
  ASSUME IInv
  PROVE  /\ IsFiniteSet(todo) /\ Cardinality(todo) \in Nat
         /\ IsFiniteSet(active) /\ Cardinality(active) \in Nat
         /\ Cardinality(active) <= Slots /\ Slots \in Nat /\ todo \in SUBSET Nat
  <1>1. todo \in SUBSET Issues /\ IsFiniteSet(Issues) /\ Issues \subseteq Nat
    BY ConstantsAssumption DEF IInv, TypeOK
  <1>2. IsFiniteSet(todo)
    BY <1>1, FS_Subset
  <1> QED BY <1>1, <1>2, ActiveFinite, SlotsPositive, FS_CardinalityType DEF IInv, LedgerExact

\* A pick that a launch takes moves from the list to the ledger.
LEMMA LaunchFits ==
  ASSUME IInv, PicksFit, OnceLaunch, todo # {}
  PROVE  /\ PicksFit'
         /\ \E i \in todo : i \notin active /\ active' = active \cup {i}
  <1>1. PICK i \in todo : TryLaunch(i, "pipeline", None)
    BY DEF OnceLaunch
  <1>2. /\ lpc = "onceLaunch" /\ UNCHANGED lpc /\ todo' = todo \ {i}
        /\ todo \cap active = {} /\ i \notin active
        /\ Cardinality(todo) + Cardinality(active) <= Slots
    BY <1>1 DEF OnceLaunch, TryLaunch, PicksFit
  <1>3. Cardinality(todo \ {i}) = Cardinality(todo) - 1 /\ Cardinality(todo \ {i}) \in Nat
    BY <1>1, TodoFinite, FS_RemoveElement, FS_CardinalityType
  <1>4. CanAcquire(i)
    BY <1>2, <1>3, TodoFinite DEF CanAcquire
  <1>5. active' = active \cup {i}
    BY <1>1, <1>4 DEF TryLaunch, Launch
  <1>6. Cardinality(active \cup {i}) = Cardinality(active) + 1
    BY <1>2, TodoFinite, FS_AddElement
  <1>7. PicksFit'
    BY <1>2, <1>3, <1>5, <1>6, TodoFinite DEF PicksFit, Slots
  <1> QED BY <1>2, <1>5, <1>7

LEMMA LoopStepFits ==
  ASSUME IInv, PicksFit, LoopStep
  PROVE  PicksFit'
  <1>1. CASE OnceFree
    <2>1. Cardinality(active) + FreeSlots <= Slots
      BY TodoFinite DEF FreeSlots
    <2> QED BY <1>1, <2>1 DEF OnceFree, NoLaunch, PicksFit, Slots
  <1>2. CASE OnceList
    BY <1>2 DEF OnceList, NoLaunch, Listed, ListingFails, PicksFit, Slots
  <1>3. CASE OnceFilter
    <2>1. CASE lpc' = "tick"
      BY <2>1 DEF PicksFit
    <2>2. CASE lpc' # "tick"
      <3>1. /\ lpc' = "onceLaunch" /\ UNCHANGED active
            /\ todo' = SelectIssues(todo \ active, free)
            /\ Cardinality(active) + free <= Slots /\ free \in Nat
        BY <1>3, <2>2 DEF OnceFilter, ListingFails, NoLaunch, PicksFit, IInv, TypeOK
      <3>2. todo \ active \in SUBSET Nat /\ IsFiniteSet(todo \ active)
        BY TodoFinite, FS_Subset
      <3>3. Cardinality(todo') <= free
        BY <3>1, <3>2, OldestAreSelected, FS_CardinalityType
      <3>4. todo' \subseteq todo \ active
        BY <3>1 DEF SelectIssues
      <3>5. IsFiniteSet(todo') /\ Cardinality(todo') \in Nat
        BY <3>2, <3>4, FS_Subset, FS_CardinalityType
      <3>6. Slots' = Slots /\ Cardinality(todo') + Cardinality(active) <= Slots
        BY <3>1, <3>3, <3>5, TodoFinite DEF Slots
      <3>7. todo' \cap active' = {}
        BY <3>1, <3>4
      <3> QED BY <3>1, <3>6, <3>7 DEF PicksFit
    <2> QED BY <2>1, <2>2
  <1>4. CASE OnceLaunch /\ todo # {}
    BY <1>4, LaunchFits
  <1>5. CASE OnceLaunch /\ todo = {}
    BY <1>5 DEF OnceLaunch, PicksFit
  <1>6. CASE SweepList \/ SweepFilter \/ SweepStrip \/ SweepClear \/ MergeList \/ MergeFilter
    BY <1>6 DEF SweepList, SweepFilter, SweepStrip, SweepClear, MergeList, MergeFilter, Listed,
                ListingFails, PicksFit
  <1>7. CASE MergeLaunch \/ Tick \/ Drain
    BY <1>7 DEF MergeLaunch, Tick, Drain, PicksFit
  <1> QED BY <1>1, <1>2, <1>3, <1>4, <1>5, <1>6, <1>7 DEF LoopStep

LEMMA NextFits == IInv /\ PicksFit /\ [Next]_vars => PicksFit'
  <1> SUFFICES ASSUME IInv, PicksFit, [Next]_vars PROVE PicksFit'
    OBVIOUS
  <1>1. ASSUME NEW r \in Runs, RunStep(r) PROVE PicksFit'
    <2>1. UNCHANGED <<lpc, todo, free>> /\ active' \in SUBSET active
      <3>1. UNCHANGED <<lpc, todo, free>>
        BY <1>1 DEF RunStep, Start, SettlePrior, Settle, WearWip, RecordWip, Prepare, Pipeline,
           Ship, Review, Merge, Push, StripTrigger, SwapOutcome, RecordOutcome, CloseIssue,
           Panicked, Deferred, ClearCancel, Release, Elsewhere
      <3>2. active' = active \/ active' = active \ {issue[r]}
        BY <1>1, RunStepFrame DEF Release
      <3> QED BY <3>1, <3>2
    <2>2. Cardinality(active') <= Cardinality(active) /\ Cardinality(active') \in Nat
      BY <2>1, TodoFinite, FS_Subset, FS_CardinalityType
    <2>3. free \in Nat
      BY DEF IInv, TypeOK
    <2> QED BY <2>1, <2>2, <2>3, TodoFinite DEF PicksFit, Slots
  <1>2. CASE Crash \/ Boot
    BY <1>2 DEF Crash, Boot, PicksFit
  <1>3. CASE Shutdown \/ UNCHANGED vars
    BY <1>3 DEF Shutdown, vars, PicksFit, Slots
  <1>4. ASSUME NEW i \in Issues, HumanStep(i) \/ ContinueRemove(i) \/ ContinueClear(i)
        PROVE  PicksFit'
    BY <1>4 DEF HumanStep, Stop, ContinueCheck, Requeue, RequestMerge, ContinueRemove,
                ContinueClear, PicksFit, Slots
  <1> QED BY <1>1, <1>2, <1>3, <1>4, LoopStepFits DEF Next

\* ProcessOnce starts every issue it picks: tryAcquire never refuses one, although
\* the free slots were read before the listing, and goroutines end meanwhile.
THEOREM EveryPickStarts ==
  Spec => [][OnceLaunch /\ todo # {}
               => \E i \in todo : i \notin active /\ active' = active \cup {i}]_vars
  <1>1. Init => PicksFit
    BY DEF Init, PicksFit
  <1>2. IInv /\ PicksFit => [OnceLaunch /\ todo # {}
               => \E i \in todo : i \notin active /\ active' = active \cup {i}]_vars
    BY LaunchFits
  <1> QED BY <1>1, <1>2, NextFits, Invariance, PTL DEF Spec
-----------------------------------------------------------------------------
(***************************************************************************)
(* Why a shutdown ends.  That it does needs fairness and is TLC's          *)
(* (ShutdownExits); what keeps a goroutine, or the loop once the context   *)
(* is cancelled, from going round in a circle needs none.                  *)
(***************************************************************************)

\* How many places are ahead of a goroutine at most.  An outcome the deferred
\* handler has begun is near the end, every other one has that handler ahead.
RunDistance(l, o) ==
  CASE l = "start" -> 17 [] l = "prior" -> 16 [] l = "wear" -> 15
    [] l = "recordWip" -> 14 [] l = "prepare" -> 13 [] l = "pipeline" -> 12
    [] l \in {"ship", "merge"} -> 11 [] l \in {"review", "push"} -> 10
    [] l = "strip" -> IF FromDeferred(o) THEN 5 ELSE 9
    [] l = "swap" -> IF FromDeferred(o) THEN 4 ELSE 8
    [] l = "record" -> IF FromDeferred(o) THEN 3 ELSE 7
    [] l \in {"close", "panicked"} -> 6 [] l = "deferred" -> 5
    [] l = "unwind" -> 2 [] l = "release" -> 1 [] OTHER -> 0

RunNearer(r) == RunDistance(pc'[r], out'[r]) < RunDistance(pc[r], out[r])
RunStays(r) == pc'[r] = pc[r] /\ out'[r] = out[r]

\* How many places are ahead of the loop, once its context is cancelled.
LoopDistance(l) ==
  CASE l \in {"sweepList", "sweepFilter"} -> 10 [] l = "sweepClear" -> 9
    [] l = "sweepStrip" -> 8 [] l \in {"mergeList", "mergeFilter"} -> 7
    [] l = "mergeLaunch" -> 6 [] l = "onceFree" -> 5
    [] l \in {"onceList", "onceFilter"} -> 4 [] l = "onceLaunch" -> 3
    [] l = "tick" -> 2 [] l = "drain" -> 1 [] OTHER -> 0

\* The loop comes nearer to its return, or handles one more of its issues.
LoopNearer ==
  \/ LoopDistance(lpc') < LoopDistance(lpc)
  \/ lpc' = lpc /\ todo' \subseteq todo /\ todo' # todo

LEMMA RunDistances ==
  /\ \A o : /\ RunDistance("start", o) = 17 /\ RunDistance("prior", o) = 16
            /\ RunDistance("wear", o) = 15 /\ RunDistance("recordWip", o) = 14
            /\ RunDistance("prepare", o) = 13 /\ RunDistance("pipeline", o) = 12
            /\ RunDistance("ship", o) = 11 /\ RunDistance("merge", o) = 11
            /\ RunDistance("review", o) = 10 /\ RunDistance("push", o) = 10
            /\ RunDistance("close", o) = 6 /\ RunDistance("panicked", o) = 6
            /\ RunDistance("deferred", o) = 5 /\ RunDistance("unwind", o) = 2
            /\ RunDistance("release", o) = 1 /\ RunDistance("idle", o) = 0
  /\ \A o : /\ RunDistance("strip", o) = IF FromDeferred(o) THEN 5 ELSE 9
            /\ RunDistance("swap", o) = IF FromDeferred(o) THEN 4 ELSE 8
            /\ RunDistance("record", o) = IF FromDeferred(o) THEN 3 ELSE 7
  BY DEF RunDistance

\* Every step of a goroutine brings it nearer to its release.
LEMMA RunStepNearer ==
  ASSUME TypeOK, NEW r \in Runs, RunStep(r)
  PROVE  RunNearer(r)
  <1>1. pc \in [Runs -> RunPlace] /\ out \in [Runs -> Outcome \cup {None}]
    BY DEF TypeOK
  <1> USE <1>1, RunDistances DEF RunNearer, Goto
  <1>2. CASE Start(r) \/ SettlePrior(r) \/ WearWip(r) \/ RecordWip(r)
    BY <1>2 DEF Start, SettlePrior, Settle, WearWip, RecordWip
  <1>3. CASE Prepare(r) \/ Pipeline(r) \/ Ship(r)
    BY <1>3 DEF Prepare, Pipeline, Ship, Conclude, FromDeferred
  <1>4. CASE Review(r) \/ Merge(r) \/ Push(r)
    BY <1>4 DEF Review, Merge, Push, Conclude, FromDeferred
  <1>5. CASE StripTrigger(r)
    <2>1. /\ pc[r] = "strip" /\ out' = out
          /\ \/ pc'[r] = "swap"
             \/ pc'[r] = "deferred" /\ out[r] = "restore"
      BY <1>5 DEF StripTrigger
    <2> QED BY <2>1 DEF FromDeferred
  <1>6. CASE SwapOutcome(r)
    <2>1. /\ pc[r] = "swap" /\ out' = out
          /\ \/ pc'[r] = "record" \/ pc'[r] = "unwind"
             \/ pc'[r] = "deferred" /\ out[r] \notin {"park", "panic", "stopped"}
      BY <1>6 DEF SwapOutcome
    <2> QED BY <2>1 DEF FromDeferred
  <1>7. CASE RecordOutcome(r)
    <2>1. /\ pc[r] = "record" /\ out' = out
          /\ \/ pc'[r] = "close" /\ out[r] = "alreadyDone"
             \/ pc'[r] = "unwind"
             \/ pc'[r] = "deferred" /\ ~FromDeferred(out[r])
      BY <1>7 DEF RecordOutcome
    <2> QED BY <2>1 DEF FromDeferred
  <1>8. CASE Panicked(r) \/ Deferred(r)
    BY <1>8 DEF Panicked, Deferred, Conclude, FromDeferred
  <1>9. CASE CloseIssue(r) \/ ClearCancel(r) \/ Release(r)
    <2>1. \/ pc[r] = "close" /\ pc'[r] = "deferred"
          \/ pc[r] = "unwind" /\ pc'[r] = "release"
          \/ pc[r] = "release" /\ pc'[r] = "idle"
      BY <1>9 DEF CloseIssue, ClearCancel, Release
    <2> QED BY <2>1
  <1> QED BY <1>2, <1>3, <1>4, <1>5, <1>6, <1>7, <1>8, <1>9 DEF RunStep

\* A step of one goroutine leaves the others, and the loop, where they are.
LEMMA RunStepStays ==
  ASSUME TypeOK, NEW s \in Runs, RunStep(s)
  PROVE  /\ \A r \in Runs \ {s} : RunStays(r)
         /\ UNCHANGED <<lpc, todo>>
         /\ Live(s)
  <1> USE DEF TypeOK, RunStays, Goto, Live
  <1>1. CASE Start(s) \/ SettlePrior(s) \/ WearWip(s) \/ RecordWip(s)
    BY <1>1 DEF Start, SettlePrior, Settle, WearWip, RecordWip, Elsewhere
  <1>2. CASE Prepare(s) \/ Pipeline(s) \/ Ship(s)
    BY <1>2 DEF Prepare, Pipeline, Ship, Conclude, Elsewhere
  <1>3. CASE Review(s) \/ Merge(s) \/ Push(s)
    BY <1>3 DEF Review, Merge, Push, Conclude, Elsewhere
  <1>4. CASE StripTrigger(s) \/ SwapOutcome(s)
    BY <1>4 DEF StripTrigger, SwapOutcome, Elsewhere
  <1>5. CASE RecordOutcome(s) \/ CloseIssue(s)
    BY <1>5 DEF RecordOutcome, CloseIssue, Elsewhere
  <1>6. CASE Panicked(s) \/ Deferred(s)
    BY <1>6 DEF Panicked, Deferred, Conclude, Elsewhere
  <1>7. CASE ClearCancel(s) \/ Release(s)
    BY <1>7 DEF ClearCancel, Release, Elsewhere
  <1> QED BY <1>1, <1>2, <1>3, <1>4, <1>5, <1>6, <1>7 DEF RunStep

LEMMA LoopDistances ==
  /\ LoopDistance("sweepList") = 10 /\ LoopDistance("sweepFilter") = 10
  /\ LoopDistance("sweepClear") = 9 /\ LoopDistance("sweepStrip") = 8
  /\ LoopDistance("mergeList") = 7 /\ LoopDistance("mergeFilter") = 7
  /\ LoopDistance("mergeLaunch") = 6 /\ LoopDistance("onceFree") = 5
  /\ LoopDistance("onceList") = 4 /\ LoopDistance("onceFilter") = 4
  /\ LoopDistance("onceLaunch") = 3 /\ LoopDistance("tick") = 2
  /\ LoopDistance("drain") = 1 /\ LoopDistance("exited") = 0
  BY DEF LoopDistance

\* Under a cancelled context every listing is refused, and the loop falls through
\* its stages to the drain.
LEMMA LoopStepNearer ==
  ASSUME TypeOK, shutdown, LoopStep
  PROVE  LoopNearer
  <1> USE LoopDistances DEF LoopNearer
  <1>1. CASE SweepList
    <2>1. lpc = "sweepList" /\ lpc' = "mergeList"
      BY <1>1 DEF SweepList, Listed, ListingFails, Succeeds
    <2> QED BY <2>1
  <1>2. CASE SweepFilter \/ SweepClear
    BY <1>2 DEF SweepFilter, SweepClear
  <1>3. CASE SweepStrip
    <2>1. lpc = "sweepStrip" /\ lpc' = "mergeList"
      BY <1>3 DEF SweepStrip, Succeeds
    <2> QED BY <2>1
  <1>4. CASE MergeList \/ MergeFilter
    <2>1. lpc \in {"mergeList", "mergeFilter"} /\ lpc' = "onceFree"
      BY <1>4 DEF MergeList, MergeFilter, Listed, ListingFails, Succeeds
    <2> QED BY <2>1
  <1>5. CASE OnceFree
    BY <1>5 DEF OnceFree
  <1>6. CASE OnceList \/ OnceFilter
    <2>1. lpc \in {"onceList", "onceFilter"} /\ lpc' = "tick"
      BY <1>6 DEF OnceList, OnceFilter, Listed, ListingFails, Succeeds
    <2> QED BY <2>1
  <1>7. CASE MergeLaunch \/ OnceLaunch
    BY <1>7 DEF MergeLaunch, OnceLaunch, TryLaunch
  <1>8. CASE Tick \/ Drain
    BY <1>8 DEF Tick, Drain
  <1> QED BY <1>1, <1>2, <1>3, <1>4, <1>5, <1>6, <1>7, <1>8 DEF LoopStep

\* A step of the loop leaves every goroutine that lives where it is, and only the
\* launching stages start one.
LEMMA LoopStepStays ==
  ASSUME TypeOK, LoopStep
  PROVE  /\ \A r \in Runs : Live(r) => RunStays(r)
         /\ lpc = "drain" => \A r \in Runs : Live(r)' => Live(r)
  <1> USE DEF TypeOK, RunStays, Goto, Live, OutsideLoop, NoLaunch
  <1>1. CASE SweepList \/ SweepFilter \/ SweepStrip \/ SweepClear
    BY <1>1 DEF SweepList, SweepFilter, SweepStrip, SweepClear
  <1>2. CASE MergeList \/ MergeFilter \/ OnceFree \/ OnceList \/ OnceFilter
    BY <1>2 DEF MergeList, MergeFilter, OnceFree, OnceList, OnceFilter
  <1>3. CASE MergeLaunch \/ OnceLaunch
    BY <1>3 DEF MergeLaunch, OnceLaunch, TryLaunch, Launch
  <1>4. CASE Tick \/ Drain
    BY <1>4 DEF Tick, Drain
  <1> QED BY <1>1, <1>2, <1>3, <1>4 DEF LoopStep

\* What the human and the first signal do moves nothing; a crash and a start leave
\* no goroutine.
LEMMA OutsideStays ==
  ASSUME TypeOK,
         \/ \E i \in Issues : HumanStep(i) \/ ContinueRemove(i) \/ ContinueClear(i)
         \/ Shutdown \/ Crash \/ Boot
  PROVE  \/ UNCHANGED <<pc, out, lpc, todo>>
         \/ ~Up /\ \A r \in Runs : ~Live(r)'
         \/ ~Up' /\ lpc' # "drain" /\ \A r \in Runs : pc'[r] = "idle" /\ ~Live(r)'
  <1>1. CASE \E i \in Issues : HumanStep(i) \/ ContinueRemove(i) \/ ContinueClear(i)
    BY <1>1 DEF HumanStep, Stop, ContinueCheck, Requeue, RequestMerge, ContinueRemove,
                ContinueClear
  <1>2. CASE Shutdown
    BY <1>2 DEF Shutdown
  <1>3. CASE Crash \/ Boot
    BY <1>3 DEF Crash, Boot, FreshMemory, Live, Up
  <1> QED BY <1>1, <1>2, <1>3

\* Every step of a goroutine brings it nearer to its release, and nothing that
\* others do takes it back; once the context is cancelled every step of the loop
\* brings it nearer to its return, and nobody takes it back; from the drain on no
\* goroutine is started, and when the last has gone the wait is over (runGuarded's
\* deferred calls, RunLoop, the WaitGroup).
THEOREM ShutdownComesNearer ==
  Spec =>
    /\ [][/\ \A r \in Runs :
               /\ RunStep(r) => RunNearer(r)
               /\ Live(r) => RunNearer(r) \/ RunStays(r)
          /\ shutdown /\ LoopStep => LoopNearer
          /\ shutdown /\ Up => LoopNearer \/ UNCHANGED <<lpc, todo>> \/ ~Up'
          /\ lpc = "drain" => \A r \in Runs : Live(r)' => Live(r)]_vars
    /\ [](lpc = "drain" /\ (\A r \in Runs : ~Live(r)) => inFlight = 0)
  <1> DEFINE Onward ==
        /\ \A r \in Runs :
             /\ RunStep(r) => RunNearer(r)
             /\ Live(r) => RunNearer(r) \/ RunStays(r)
        /\ shutdown /\ LoopStep => LoopNearer
        /\ shutdown /\ Up => LoopNearer \/ UNCHANGED <<lpc, todo>> \/ ~Up'
        /\ lpc = "drain" => \A r \in Runs : Live(r)' => Live(r)
  <1>1. ASSUME IInv, Next PROVE Onward
    <2>1. TypeOK /\ (~Up => \A r \in Runs : ~Live(r))
      BY <1>1 DEF IInv, LedgerExact
    <2>2. CASE LoopStep
      BY <2>1, <2>2, LoopStepNearer, LoopStepStays, RunStepNearer
    <2>3. ASSUME NEW s \in Runs, RunStep(s) PROVE Onward
      <3>1. \A r \in Runs : Live(r)' => Live(r)
        BY <2>1, <2>3, RunStepStays DEF RunStays, Live
      <3> QED BY <2>1, <2>3, <3>1, RunStepStays, RunStepNearer, LoopStepNearer
    <2>4. CASE \/ \E i \in Issues : HumanStep(i) \/ ContinueRemove(i) \/ ContinueClear(i)
               \/ Shutdown \/ Crash \/ Boot
      <3>1. \/ UNCHANGED <<pc, out, lpc, todo>>
            \/ ~Up /\ \A r \in Runs : ~Live(r)'
            \/ ~Up' /\ lpc' # "drain" /\ \A r \in Runs : pc'[r] = "idle" /\ ~Live(r)'
        BY <2>1, <2>4, OutsideStays
      <3>2. ASSUME NEW r \in Runs, Live(r), pc'[r] = "idle" PROVE RunNearer(r)
        <4>1. pc[r] \in RunPlace \ {"idle"} /\ RunDistance(pc'[r], out'[r]) = 0
          BY <2>1, <3>2, RunDistances DEF TypeOK, Live
        <4> QED BY <4>1, RunDistances DEF RunNearer, RunPlace
      <3> QED BY <2>1, <3>1, <3>2, RunStepNearer, LoopStepNearer DEF RunStays, Live
    <2> QED BY <1>1, <2>2, <2>3, <2>4 DEF Next
  <1>2. IInv /\ [Next]_vars => [Onward]_vars
    BY <1>1
  <1>3. ASSUME IInv, \A r \in Runs : ~Live(r) PROVE inFlight = 0
    <2>1. active = {}
      BY <1>3, ConstantsAssumption DEF IInv, LedgerExact, TypeOK
    <2> QED BY <1>3, <2>1, FS_EmptySet DEF IInv, LedgerExact
  <1> QED BY <1>2, <1>3, Invariance, PTL DEF Spec
=============================================================================
