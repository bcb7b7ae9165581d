---------------------------- MODULE CommitStore ----------------------------
(***************************************************************************)
(* What the repository promises the runs and the people who read their     *)
(* branches (the comments of worker/infra/worktree.go), with nothing said  *)
(* of worktrees, locks, retries or leftovers: an issue's branch only gains *)
(* commits, no other issue's work changes it, what origin shows of it was  *)
(* never more than a part of it when it was replaced, and it is thrown     *)
(* away only when there is an excuse.                                      *)
(***************************************************************************)
CONSTANTS Issues, Commits

VARIABLES here,      \* the commits of each issue's branch; {} without one
          published, \* the commits of the branch that origin has
          excused    \* the issues whose worktree was removed

vars == <<here, published, excused>>

\* A session commits.
Commit(i) ==
  /\ \E c \in Commits : /\ \A j \in Issues : c \notin here[j] \cup published[j]
                        /\ here' = [here EXCEPT ![i] = @ \cup {c}]
  /\ UNCHANGED <<published, excused>>

\* git push without force
Publish(i) ==
  /\ published[i] \subseteq here[i]
  /\ published' = [published EXCEPT ![i] = here[i]]
  /\ UNCHANGED <<here, excused>>

\* Somebody, or a Create whose look at it failed, removes the worktree.
Excuse(i) ==
  /\ excused' = excused \cup {i}
  /\ UNCHANGED <<here, published>>

\* git branch -D
GiveUp(i) ==
  /\ i \in excused
  /\ here' = [here EXCEPT ![i] = {}]
  /\ UNCHANGED <<published, excused>>

Init == /\ here = [i \in Issues |-> {}] /\ published = [i \in Issues |-> {}]
        /\ excused = {}

Next == \E i \in Issues : Commit(i) \/ Publish(i) \/ Excuse(i) \/ GiveUp(i)

Spec == Init /\ [][Next]_vars

\* No commit is on the branches of two issues, and unless there was an excuse
\* origin shows no commit that the issue's own branch has not.
Separate ==
  /\ \A i, j \in Issues :
       i # j => (here[i] \cup published[i]) \cap (here[j] \cup published[j]) = {}
  /\ \A i \in Issues \ excused : published[i] \subseteq here[i]
=============================================================================
