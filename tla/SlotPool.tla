------------------------------ MODULE SlotPool ------------------------------
(***************************************************************************)
(* What the slot ledger promises (the head comment and the functions of    *)
(* worker/engine/slots.go, and runloop.go's drain), with nothing said of   *)
(* how: at most Slots runs at a time, never two of them on one issue, new  *)
(* ones only in a process that is up, and an orderly exit only of an empty *)
(* pool.  Only the death of the process takes runs away unfinished.        *)
(***************************************************************************)
EXTENDS Integers, FiniteSets

CONSTANTS Issues, Runs, Slots

\* What the theorems assume; Orchestrator's instance has it.
PoolAssumption == Issues \subseteq Nat \ {0} /\ Slots \in Nat \ {0}

VARIABLES at,     \* the issue each run works on, 0 for none
          status  \* of the process: "up", "exited" or "down"

vars == <<at, status>>

Busy == {r \in Runs : at[r] # 0}
Held == {at[r] : r \in Busy}

\* tryAcquire: the issue is not held and the budget is not used up.
Begin(r, i) ==
  /\ status = "up"
  /\ at[r] = 0
  /\ i \notin Held
  /\ Cardinality(Held) < Slots
  /\ at' = [at EXCEPT ![r] = i]
  /\ UNCHANGED status

\* release
End(r) ==
  /\ at[r] # 0
  /\ at' = [at EXCEPT ![r] = 0]
  /\ UNCHANGED status

\* RunLoop returns after Wait.
Exit ==
  /\ status = "up"
  /\ Busy = {}
  /\ status' = "exited"
  /\ UNCHANGED at

Die ==
  /\ status = "up"
  /\ status' = "down"
  /\ at' = [r \in Runs |-> 0]

Restart ==
  /\ status # "up"
  /\ status' = "up"
  /\ UNCHANGED at

Init == at = [r \in Runs |-> 0] /\ status = "up"

Next ==
  \/ \E r \in Runs : End(r) \/ \E i \in Issues : Begin(r, i)
  \/ Exit \/ Die \/ Restart

Spec == Init /\ [][Next]_vars

PoolTypeOK ==
  /\ at \in [Runs -> Issues \cup {0}]
  /\ status \in {"up", "exited", "down"}

\* Two runs never hold the same issue (tryAcquire refuses a busy issue).
Exclusive == \A r, s \in Busy : at[r] = at[s] => r = s

\* The budget holds at every moment (tryAcquire refuses at a full ledger).
Bounded == IsFiniteSet(Busy) /\ Cardinality(Busy) <= Slots

\* A process that has left RunLoop has no run (Wait).
EmptyAtExit == status = "exited" => Busy = {}
=============================================================================
