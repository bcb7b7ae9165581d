--------------------------- MODULE WorktreeProofs ---------------------------
(***************************************************************************)
(* What becomes of commits, leftovers, pushes and merges, for any number of *)
(* issues, runs, commits and mishaps.  Each issue has an invariant of its   *)
(* own; of another issue's steps only the prune and a fetch reach into it.  *)
(* On top of it Numbered, that commits are numbered as they are made, gives *)
(* the refinement of CommitStore, and MutexInv, what the mutex and the      *)
(* attempts are at each place, that runs do not go round in a circle.       *)
(***************************************************************************)
EXTENDS Worktree, TLAPS

GitBranch == [work : SUBSET Nat, base : Int]
Paths == {"none", "plain", "half", "tree"}

Types ==
  /\ base \in Nat /\ track \in Nat /\ 1 <= track /\ track <= base /\ made \in Nat
  /\ branch \in [Issues -> GitBranch] /\ remote \in [Issues -> GitBranch]
  /\ linked \subseteq Issues /\ locked \subseteq Issues /\ lost \subseteq Issues /\ dir \in [Issues -> Paths]
  /\ head \in [Issues -> Nat] /\ asked \in [Issues -> Nat]
  /\ at = [i \in Issues |-> at[i]] /\ flow = [i \in Issues |-> flow[i]]

\* A checkout is registered and has its branch; work and sessions are in one.
Placed(i) ==
  /\ dir[i] \in Checkout => i \in linked
  /\ i \in linked => branch[i] # None
  /\ at[i] \in {"work", "session"} => dir[i] \in Checkout
  /\ at[i] \in {"add", "look", "prune", "delete", "readd", "work"} => flow[i] # "merge"

\* Commits lie in a checkout until it is taken away, by somebody or by a Create
\* whose rev-parse failed, and are only given up then.
Kept(i) ==
  /\ branch[i].work # {} /\ i \notin Gone => dir[i] \in Checkout
  /\ i \in lost => i \in Gone

\* Nothing is ahead of the base branch as it was last fetched.
Based(i) ==
  /\ branch[i] = None \/ 1 <= branch[i].base
  /\ branch[i].base <= track /\ remote[i].base <= track /\ head[i] <= track

\* Origin's branch is behind the branch, or has no commits when there is none.
Forward(i) ==
  i \notin lost => IF branch[i] = None THEN remote[i].work = {}
                                       ELSE Ancestor(remote[i], branch[i])

\* How far the cleanup is; of a worktree that git has locked it clears nothing.
Cleared(i) ==
  /\ at[i] \in {"prune", "delete", "readd"} => dir[i] = "none"
  /\ at[i] \in {"delete", "readd"} /\ i \notin hurt \cup locked => i \notin linked
  /\ at[i] = "readd" /\ i \notin hurt \cup locked => branch[i] = None

\* A merge that was asked for is under way or in the branch.
Merged(i) ==
  /\ at[i] = "session" /\ i \notin gaveUp
       => head[i] = asked[i] \/ (head[i] = 0 /\ asked[i] <= branch[i].base)
  /\ at[i] = "push" /\ flow[i] = "merge" /\ i \notin gaveUp
       => head[i] = 0 /\ i \notin unmerged /\ asked[i] <= branch[i].base

Good(i) == Placed(i) /\ Kept(i) /\ Based(i) /\ Forward(i) /\ Cleared(i) /\ Merged(i)

GitInv == Types /\ \A i \in Issues : Good(i)

\* What a step of another issue's run leaves to this issue.
Same(i) ==
  /\ at'[i] = at[i] /\ flow'[i] = flow[i] /\ asked'[i] = asked[i]
  /\ dir'[i] = dir[i] /\ head'[i] = head[i]
  /\ branch'[i] = branch[i] /\ remote'[i] = remote[i]
  /\ (i \in linked' <=> i \in linked) /\ (i \in unmerged' <=> i \in unmerged)
  /\ (i \in locked' <=> i \in locked)
  /\ (i \in gaveUp' <=> i \in gaveUp) /\ (i \in hurt' <=> i \in hurt)
  /\ (i \in lost' <=> i \in lost)
  /\ (i \in taken' <=> i \in taken) /\ (i \in shot' <=> i \in shot)
  /\ (i \in misread' <=> i \in misread)

LEMMA Elsewhere ==
  ASSUME Types, NEW j \in Issues, Good(j), Same(j), track' \in Nat, track <= track'
  PROVE  Good(j)'
  <1>1. Placed(j)' BY DEF Good, Placed, Same
  <1>2. Kept(j)' BY DEF Good, Kept, Gone, Same
  <1>3. Based(j)' BY DEF Good, Based, Same, Types, GitBranch
  <1>4. Forward(j)' BY DEF Good, Forward, Same, Ancestor
  <1>5. Cleared(j)' BY DEF Good, Cleared, Same
  <1>6. Merged(j)' BY DEF Good, Merged, Same
  <1> QED BY <1>1, <1>2, <1>3, <1>4, <1>5, <1>6 DEF Good

\* A step of issue i's run.
LEMMA OneIssue ==
  ASSUME GitInv, NEW i \in Issues, Types', track <= track',
         \A j \in Issues \ {i} : Same(j), Good(i)'
  PROVE  GitInv'
  <1>1. ASSUME NEW j \in Issues, j # i PROVE Good(j)'
    BY <1>1, Elsewhere DEF GitInv, Types
  <1> QED BY <1>1 DEF GitInv

LEMMA InitGood == Init => GitInv
  <1> SUFFICES ASSUME Init PROVE GitInv
    OBVIOUS
  <1> USE DEF Init, None
  <1>1. Types
    BY DEF Types, GitBranch, Paths
  <1>2. ASSUME NEW i \in Issues PROVE Good(i)
    <2>1. /\ dir[i] = "none" /\ i \notin linked /\ at[i] = "off" /\ branch[i] = None /\ remote[i] = None
          /\ head[i] = 0 /\ track = 1 /\ i \notin lost
      OBVIOUS
    <2>2. None.work = {} /\ None.base = -1
      BY DEF None
    <2> QED BY <2>1, <2>2 DEF Good, Placed, Kept, Gone, Based, Forward, Cleared, Merged, Checkout
  <1> QED BY <1>1, <1>2 DEF GitInv

-----------------------------------------------------------------------------
(* The steps *)

\* A run ends without having changed anything.
LEMMA GoodFails ==
  ASSUME GitInv, NEW i \in Issues, Fails(i)
  PROVE  GitInv'
  <1> USE DEF Fails, End, Goto, origin, repo, tree, bounds, past
  <1>1. Types'
    BY DEF GitInv, Types
  <1>2. \A j \in Issues \ {i} : Same(j)
    BY DEF Same, GitInv, Types
  <1>3. Good(i)'
    BY DEF Good, Placed, Kept, Based, Forward, Cleared, Merged, Ancestor, Gone, GitInv, Types, GitBranch
  <1> QED BY <1>1, <1>2, <1>3, OneIssue DEF GitInv, Types

\* A run ends without more than a failure to show for it, or goes on.
LEMMA GoodBegin ==
  ASSUME GitInv, NEW i \in Issues, Begin(i) \/ Lock(i) \/ Retry(i)
  PROVE  GitInv'
  <1> USE DEF Begin, Lock, Retry, Goto, origin, repo, tree, bounds, past
  <1>1. Types'
    BY DEF GitInv, Types
  <1>2. \A j \in Issues \ {i} : Same(j)
    BY DEF Same, GitInv, Types
  <1>3. /\ at'[i] \in {"lock", "fetch", at[i]} /\ UNCHANGED <<branch, remote, linked, locked, dir, head, unmerged, asked,
                                              gaveUp, hurt, lost, taken, shot, misread, track>>
        /\ at'[i] \in {"push", "work", "session"} => flow'[i] = flow[i]
    BY DEF GitInv, Types
  <1>4. Good(i)'
    BY <1>3 DEF GitInv, Good, Placed, Kept, Based, Forward, Cleared, Merged, Ancestor, Gone
  <1> QED BY <1>1, <1>2, <1>4, OneIssue DEF GitInv, Types

LEMMA GoodFetch ==
  ASSUME GitInv, NEW i \in Issues, Fetch(i)
  PROVE  GitInv'
  <1>1. CASE Retry(i) \/ Fails(i)
    BY <1>1, GoodBegin, GoodFails
  <1>2. CASE ~(Retry(i) \/ Fails(i))
    <2> USE DEF Fetch, Leave, Still, Goto, origin, bounds, past, tree
    <2>1. Types' /\ track <= track'
      BY <1>2 DEF GitInv, Types
    <2>2. \A j \in Issues \ {i} : Same(j)
      BY <1>2 DEF Same, GitInv, Types
    <2>3. Good(i)'
      <3>1. /\ at'[i] \in {"merge", "add"} /\ (at'[i] = "add" => flow'[i] # "merge")
            /\ UNCHANGED <<branch, remote, linked, locked, dir, head, unmerged, lost, taken, shot, misread>>
        BY <1>2 DEF GitInv, Types
      <3> QED BY <2>1, <3>1 DEF GitInv, Types, GitBranch, Good, Placed, Kept, Based, Forward, Cleared,
                                Merged, Ancestor, Gone
    <2> QED BY <2>1, <2>2, <2>3, OneIssue
  <1> QED BY <1>1, <1>2

\* The branch that `git worktree add` makes.
LEMMA FreshBranch ==
  ASSUME Types
  PROVE  Fresh \in GitBranch /\ Fresh # None /\ Fresh.work = {} /\ Fresh.base = track
  BY DEF Types, Fresh, None, GitBranch

LEMMA GoodAdd ==
  ASSUME GitInv, NEW i \in Issues, Add(i)
  PROVE  GitInv'
  <1> USE DEF Goto, origin, bounds, past, tree
  <1>1. CASE Fails(i)
    BY <1>1, GoodFails
  <1>2. CASE CanAdd(i) /\ i \notin stopped /\ at[i] \in {"add", "readd"} /\ Leave(i, "work")
             /\ branch' = [branch EXCEPT ![i] = Fresh] /\ linked' = linked \cup {i}
             /\ dir' = [dir EXCEPT ![i] = "tree"]
             /\ UNCHANGED <<origin, track, locked, head, unmerged, bounds, past>>
    <2> USE <1>2, FreshBranch DEF Leave
    <2>1. Types'
      BY DEF GitInv, Types, Paths
    <2>2. \A j \in Issues \ {i} : Same(j)
      BY DEF Same, GitInv, Types
    <2>3. Good(i)'
      BY DEF GitInv, Types, GitBranch, Good, Placed, Kept, Based, Forward, Cleared, Merged, Ancestor, Gone,
             Checkout, CanAdd
    <2> QED BY <2>1, <2>2, <2>3, OneIssue DEF GitInv, Types
  <1>3. CASE ~CanAdd(i) /\ i \notin stopped /\ at[i] \in {"add", "readd"}
             /\ branch' = [branch EXCEPT ![i] = IF @ = None THEN Fresh ELSE @]
             /\ (IF at[i] = "add" /\ (branch[i] # None \/ dir[i] # "none") THEN Still(i, "look") ELSE End(i))
             /\ UNCHANGED <<origin, track, linked, locked, tree, bounds, past>>
    <2> USE <1>3, FreshBranch DEF Still, End
    <2>1. Types'
      BY DEF GitInv, Types
    <2>2. \A j \in Issues \ {i} : Same(j)
      BY DEF Same, GitInv, Types
    <2>3. Good(i)'
      <3>1. at'[i] \in {"look", "off"}
        BY DEF GitInv, Types
      <3>2. branch'[i] = IF branch[i] = None THEN Fresh ELSE branch[i]
        BY DEF GitInv, Types
      <3> QED BY <3>1, <3>2 DEF GitInv, Types, GitBranch, Good, Placed, Kept, Based, Forward, Cleared,
                                Merged, Ancestor, Gone
    <2> QED BY <2>1, <2>2, <2>3, OneIssue DEF GitInv, Types
  <1>4. CASE i \in stopped /\ AddCut(i) /\ End(i)
             /\ UNCHANGED <<origin, track, head, unmerged, bounds, past>>
    <2> USE <1>4, FreshBranch DEF End, AddCut
    <2>1. Types'
      BY DEF GitInv, Types, Paths
    <2>2. \A j \in Issues \ {i} : Same(j)
      BY DEF Same, GitInv, Types
    <2>3. Good(i)'
      <3>1. at'[i] = "off" /\ branch'[i] = Fresh /\ (dir'[i] \in Checkout => i \in linked')
        BY DEF GitInv, Types, CanAdd, Checkout
      <3> QED BY <3>1 DEF GitInv, Types, GitBranch, Good, Placed, Kept, Based, Forward, Cleared,
                          Merged, Ancestor, Gone, CanAdd, Checkout
    <2> QED BY <2>1, <2>2, <2>3, OneIssue DEF GitInv, Types
  <1> QED BY <1>1, <1>2, <1>3, <1>4 DEF Add

LEMMA GoodLook ==
  ASSUME GitInv, NEW i \in Issues, Look(i)
  PROVE  GitInv'
  <1> USE DEF Goto, origin, repo, tree, bounds, past
  <1>1. CASE Fails(i)
    BY <1>1, GoodFails
  <1>2. CASE ~Fails(i)
    <2> USE <1>2 DEF Look, Leave, Still
    <2>1. Types'
      BY DEF GitInv, Types, Paths
    <2>2. \A j \in Issues \ {i} : Same(j)
      BY DEF Same, GitInv, Types
    <2>3. Good(i)'
      <3>1. /\ UNCHANGED <<branch, remote, linked, locked, head, unmerged, lost, taken, track>>
        OBVIOUS
      <3>2. \/ at'[i] = "work" /\ dir[i] \in Checkout /\ dir'[i] = dir[i] /\ Gone' = Gone
            \/ at'[i] = "prune" /\ dir'[i] = "none" /\ dir[i] \notin Checkout /\ Gone' = Gone
            \/ at'[i] = "prune" /\ dir'[i] = "none" /\ Gone' = Gone \cup {i}
        BY DEF GitInv, Types, IsWorktree, Checkout, Gone
      <3> QED BY <3>1, <3>2 DEF GitInv, Types, Good, Placed, Kept, Based, Forward, Cleared,
                          Merged, Ancestor, Gone, Checkout
    <2> QED BY <2>1, <2>2, <2>3, OneIssue DEF GitInv, Types
  <1> QED BY <1>1, <1>2

\* A failure that is swallowed.
LEMMA GoodSwallow ==
  ASSUME GitInv, NEW i \in Issues,
         \/ at[i] = "prune" /\ Swallow(i, "delete")
         \/ at[i] = "delete" /\ Swallow(i, "readd")
  PROVE  GitInv'
  <1> USE DEF Swallow, Goto, origin, repo, tree, past
  <1>1. Types'
    BY DEF GitInv, Types
  <1>2. \A j \in Issues \ {i} : Same(j)
    BY DEF Same, GitInv, Types
  <1>3. Good(i)'
    BY DEF Good, Placed, Kept, Based, Forward, Cleared, Merged, Ancestor, Gone, GitInv, Types
  <1> QED BY <1>1, <1>2, <1>3, OneIssue DEF GitInv, Types

\* The prune reaches into every issue without a checkout.
LEMMA GoodPrune ==
  ASSUME GitInv, NEW i \in Issues, Prune(i)
  PROVE  GitInv'
  <1> USE DEF Goto, origin, repo, tree, bounds, past
  <1>1. CASE Swallow(i, "delete")
    BY <1>1, GoodSwallow DEF Prune
  <1>2. CASE ~Swallow(i, "delete")
    <2> USE <1>2 DEF Prune, Still
    <2>1. Types'
      BY DEF GitInv, Types
    <2>2. ASSUME NEW j \in Issues PROVE Good(j)'
      <3>1. /\ UNCHANGED <<branch, remote, locked, dir, track, flow, asked, gaveUp, hurt, lost, taken, shot, misread>>
            /\ linked' = {k \in linked : dir[k] \in Checkout \/ k \in locked}
            /\ j # i => at'[j] = at[j]
            /\ j = i => at[j] = "prune" /\ at'[j] = "delete"
        BY DEF GitInv, Types
      <3>2. j \in linked' => head'[j] = head[j] /\ (j \in unmerged' <=> j \in unmerged)
        BY <3>1
      <3>3. j \notin linked' => head'[j] = 0 /\ j \notin unmerged'
        BY <3>1
      <3>4. Placed(j)'
        BY <3>1 DEF GitInv, Good, Placed, Cleared, Checkout
      <3>5. Kept(j)' /\ Forward(j)'
        BY <3>1 DEF GitInv, Good, Kept, Gone, Forward, Ancestor, Placed
      <3>6. Based(j)'
        BY <3>1, <3>2, <3>3, <2>1 DEF GitInv, Good, Based, Types
      <3>7. Cleared(j)'
        BY <3>1 DEF GitInv, Good, Cleared, Checkout
      <3>8. Merged(j)'
        <4>1. at'[j] = "session" => j \in linked'
          BY <3>1 DEF GitInv, Good, Placed
        <4> QED BY <4>1, <3>1, <3>2, <3>3 DEF GitInv, Good, Merged
      <3> QED BY <3>4, <3>5, <3>6, <3>7, <3>8 DEF Good
    <2> QED BY <2>1, <2>2 DEF GitInv
  <1> QED BY <1>1, <1>2

LEMMA GoodDelete ==
  ASSUME GitInv, NEW i \in Issues, Delete(i)
  PROVE  GitInv'
  <1> USE DEF Goto, origin, repo, tree, bounds, past
  <1>1. CASE Swallow(i, "readd")
    BY <1>1, GoodSwallow DEF Delete
  <1>2. CASE ~Swallow(i, "readd")
    <2> USE <1>2 DEF Delete, Still
    <2>0. None \in GitBranch /\ None.work = {} /\ None.base = -1
      BY DEF None, GitBranch
    <2>1. Types'
      BY <2>0 DEF GitInv, Types
    <2>2. \A j \in Issues \ {i} : Same(j)
      BY DEF Same, GitInv, Types
    <2>3. Good(i)'
      <3>1. /\ at[i] = "delete" /\ at'[i] = "readd"
            /\ UNCHANGED <<remote, linked, locked, dir, head, unmerged, hurt, taken, shot, misread, track>>
            /\ \/ i \notin linked /\ branch'[i] = None
                  /\ lost' = IF branch[i].work = {} THEN lost ELSE lost \cup {i}
               \/ i \in linked /\ branch' = branch /\ lost' = lost
        BY DEF GitInv, Types
      <3> QED BY <2>0, <3>1 DEF GitInv, Types, Good, Placed, Kept, Based, Forward, Cleared,
                          Merged, Ancestor, Gone
    <2> QED BY <2>1, <2>2, <2>3, OneIssue DEF GitInv, Types
  <1> QED BY <1>1, <1>2

LEMMA GoodSession ==
  ASSUME GitInv, NEW i \in Issues, Session(i)
  PROVE  GitInv'
  <1> USE DEF origin, bounds, past
  <1>0. dir[i] \in Checkout /\ at[i] \in {"work", "session"} /\ branch[i] # None /\ 1 <= branch[i].base
    BY DEF Session, GitInv, Good, Placed, Based
  <1>1. PICK w \in SUBSET Nat, b \in Int :
          /\ branch' = [branch EXCEPT ![i] = [work |-> w, base |-> b]]
          /\ branch[i].work \subseteq w /\ (b = branch[i].base \/ b = head[i]) /\ branch[i].base <= b
          /\ \/ head'[i] = head[i] /\ b = branch[i].base
             \/ head'[i] = 0 /\ (head[i] <= b \/ i \in gaveUp')
    <2> USE DEF GitInv, Types, GitBranch, Larger
    <2>0. branch[i] \in GitBranch /\ head[i] \in Nat /\ branch[i].base \in Int
      OBVIOUS
    <2> DEFINE larger == Larger(branch[i].base, head[i])
    <2>1. CASE /\ made' = made + 1 /\ head' = [head EXCEPT ![i] = 0]
               /\ branch' = [branch EXCEPT ![i] = [work |-> @.work \cup {made'},
                                                  base |-> Larger(@.base, head[i])]]
      <3>1. branch' = [branch EXCEPT ![i] = [work |-> branch[i].work \cup {made'}, base |-> larger]]
        BY <2>1
      <3>2. /\ branch[i].work \cup {made'} \in SUBSET Nat /\ larger \in Int
            /\ branch[i].work \subseteq branch[i].work \cup {made'}
            /\ larger = branch[i].base \/ larger = head[i]
            /\ branch[i].base <= larger /\ head[i] <= larger /\ head'[i] = 0
        BY <2>0, <2>1
      <3> HIDE DEF larger
      <3> QED BY <3>1, <3>2
    <2>2. CASE head[i] # 0 /\ branch' = [branch EXCEPT ![i].base = Larger(@, head[i])]
               /\ head' = [head EXCEPT ![i] = 0]
      <3>1. [branch[i] EXCEPT !.base = larger] = [work |-> branch[i].work, base |-> larger]
        BY <2>0
      <3>2. branch' = [branch EXCEPT ![i] = [branch[i] EXCEPT !.base = larger]]
        BY <2>2
      <3>3. /\ branch[i].work \in SUBSET Nat /\ larger \in Int
            /\ larger = branch[i].base \/ larger = head[i]
            /\ branch[i].base <= larger /\ head[i] <= larger /\ head'[i] = 0
        BY <2>0, <2>2
      <3> HIDE DEF larger
      <3> QED BY <3>1, <3>2, <3>3
    <2>3. CASE branch' = branch /\ (head' = head \/ (head' = [head EXCEPT ![i] = 0] /\ i \in gaveUp'))
      <3>1. branch[i] = [work |-> branch[i].work, base |-> branch[i].base]
        BY <2>0
      <3>2. branch' = [branch EXCEPT ![i] = branch[i]]
        BY <2>3
      <3>3. branch[i].work \in SUBSET Nat /\ branch[i].base \in Int
            /\ (head'[i] = head[i] \/ (head'[i] = 0 /\ i \in gaveUp'))
        BY <2>0, <2>3
      <3>4. branch' = [branch EXCEPT ![i] = [work |-> branch[i].work, base |-> branch[i].base]]
        BY <3>1, <3>2
      <3>5. branch[i].base <= branch[i].base
        BY <2>0
      <3> DEFINE w == branch[i].work  b == branch[i].base
      <3>6. /\ w \in SUBSET Nat /\ b \in Int /\ branch' = [branch EXCEPT ![i] = [work |-> w, base |-> b]]
            /\ branch[i].work \subseteq w /\ b = branch[i].base /\ branch[i].base <= b
            /\ (head'[i] = head[i] \/ (head'[i] = 0 /\ i \in gaveUp'))
        BY <3>3, <3>4, <3>5
      <3> HIDE DEF GitInv, Types, GitBranch, w, b
      <3> QED BY <3>6
    <2> QED BY <2>1, <2>2, <2>3 DEF Session
  <1>2. /\ UNCHANGED <<base, remote, track, linked, locked, dir, mu, at, flow, asked, hurt, lost, taken, shot, misread>>
        /\ gaveUp \subseteq gaveUp' /\ gaveUp' \subseteq gaveUp \cup {i}
        /\ unmerged' = unmerged \/ unmerged' = unmerged \ {i}
        /\ head' = head \/ head' = [head EXCEPT ![i] = 0]
        /\ made' \in Nat
    BY DEF Session, GitInv, Types
  <1>3. Types'
    <2>1. lost' \subseteq Issues
      BY <1>2 DEF GitInv, Types
    <2>2. branch' \in [Issues -> GitBranch]
      BY <1>1 DEF GitInv, Types, GitBranch
    <2>3. head' \in [Issues -> Nat]
      BY <1>2 DEF GitInv, Types
    <2> QED BY <1>2, <2>1, <2>2, <2>3 DEF GitInv, Types
  <1>4. \A j \in Issues \ {i} : Same(j)
    BY <1>1, <1>2 DEF Same, GitInv, Types
  <1>5. branch'[i].base >= 1 /\ branch'[i] # None /\ branch[i].work \subseteq branch'[i].work
        /\ branch[i].base <= branch'[i].base /\ branch'[i].base <= track
    BY <1>0, <1>1, <1>2, <1>3 DEF GitInv, Types, GitBranch, None, Good, Based
  <1>6. Placed(i)' /\ Kept(i)' /\ Cleared(i)'
    BY <1>0, <1>2, <1>5 DEF GitInv, Good, Placed, Kept, Gone, Cleared
  <1>7. Based(i)'
    BY <1>2, <1>5, <1>3 DEF GitInv, Good, Based, Types
  <1>8. Forward(i)'
    BY <1>0, <1>2, <1>5, <1>3 DEF GitInv, Good, Forward, Ancestor, Types, GitBranch
  <1>9. Merged(i)'
    BY <1>0, <1>1, <1>2, <1>3, <1>5 DEF GitInv, Good, Merged, Types, GitBranch
  <1> QED BY <1>2, <1>3, <1>4, <1>6, <1>7, <1>8, <1>9, OneIssue DEF GitInv, Types, Good

\* The pushes, and the verdict before the last of them.
LEMMA GoodPush ==
  ASSUME GitInv, NEW i \in Issues, PushOnTheWay(i) \/ Verdict(i) \/ Push(i)
  PROVE  GitInv'
  <1> USE DEF Goto, origin, repo, tree, bounds, past
  <1>1. CASE Retry(i) \/ Fails(i)
    BY <1>1, GoodBegin, GoodFails
  <1>2. CASE PushOnTheWay(i)
    <2> USE <1>2 DEF PushOnTheWay, Pushed, run
    <2>1. Types'
      BY DEF GitInv, Types
    <2>2. \A j \in Issues \ {i} : Same(j)
      BY DEF Same, GitInv, Types
    <2>3. Good(i)'
      <3>1. branch[i] # None /\ remote'[i] = branch[i]
        BY DEF GitInv, Good, Placed, Types
      <3> QED BY <3>1 DEF GitInv, Types, GitBranch, Good, Placed, Kept, Based, Forward, Cleared,
                          Merged, Ancestor, Gone
    <2> QED BY <2>1, <2>2, <2>3, OneIssue DEF GitInv, Types
  <1>3. CASE at[i] = "push" /\ Pushed(i) /\ End(i) /\ UNCHANGED <<base, repo, tree, bounds, past>>
    <2> USE <1>3 DEF Pushed, End
    <2>1. Types'
      BY DEF GitInv, Types
    <2>2. \A j \in Issues \ {i} : Same(j)
      BY DEF Same, GitInv, Types
    <2>3. Good(i)'
      <3>1. remote'[i] = branch[i] /\ at'[i] = "off"
        BY DEF GitInv, Types
      <3>2. branch[i] = None => branch[i].work = {}
        BY DEF None
      <3> QED BY <3>1, <3>2 DEF GitInv, Types, GitBranch, Good, Placed, Kept, Based, Forward, Cleared,
                                Merged, Ancestor, Gone
    <2> QED BY <2>1, <2>2, <2>3, OneIssue DEF GitInv, Types
  <1>4. CASE at[i] = "work" /\ Still(i, "push") /\ UNCHANGED <<origin, repo, tree, bounds, past>>
             /\ flow[i] # "merge"
    <2> USE <1>4 DEF Still
    <2>1. Types'
      BY DEF GitInv, Types
    <2>2. \A j \in Issues \ {i} : Same(j)
      BY DEF Same, GitInv, Types
    <2>3. Good(i)'
      BY DEF GitInv, Types, Good, Placed, Kept, Based, Forward, Cleared, Merged, Ancestor, Gone
    <2> QED BY <2>1, <2>2, <2>3, OneIssue DEF GitInv, Types
  <1>5. at[i] = "work" => flow[i] # "merge"
    BY DEF GitInv, Good, Placed
  <1> QED BY <1>1, <1>2, <1>3, <1>4, <1>5 DEF Verdict, Push

LEMMA GoodMerge ==
  ASSUME GitInv, NEW i \in Issues, Merge(i)
  PROVE  GitInv'
  <1> USE DEF Goto, origin, bounds, past
  <1>1. CASE Fails(i)
    BY <1>1, GoodFails
  <1>2. CASE ~Fails(i)
    <2>0. /\ at[i] = "merge" /\ dir[i] \in Checkout /\ branch[i] # None /\ 1 <= branch[i].base
          /\ branch[i] \in GitBranch /\ track \in Nat /\ head[i] \in Nat
      BY <1>2 DEF Merge, GitInv, Good, Placed, Based, Types
    <2>1. CASE ToSession(i, head[i]) /\ UNCHANGED <<branch, head, unmerged>>
               /\ UNCHANGED <<origin, track, linked, locked, dir, bounds, past>>
      <3> USE <2>0, <2>1 DEF ToSession
      <3>1. Types'
        BY DEF GitInv, Types
      <3>2. \A j \in Issues \ {i} : Same(j)
        BY DEF Same, GitInv, Types
      <3>3. at'[i] = "session" /\ asked'[i] = head[i]
        BY DEF GitInv, Types
      <3>4. Good(i)'
        BY <3>3 DEF GitInv, Good, Placed, Kept, Based, Forward, Cleared, Merged, Ancestor, Gone
      <3> QED BY <3>1, <3>2, <3>4, OneIssue DEF GitInv, Types
    <2>2. CASE /\ head[i] = 0 /\ i \notin unmerged
               /\ branch' = [branch EXCEPT ![i].base = Larger(@, track)]
               /\ Goto(i, "push") /\ asked' = [asked EXCEPT ![i] = track]
               /\ UNCHANGED <<mu, flow, tries, stopped, gaveUp, hurt, head, unmerged>>
               /\ UNCHANGED <<origin, track, linked, locked, dir, bounds, past>>
      <3> DEFINE b == Larger(branch[i].base, track)
      <3>1. [branch[i] EXCEPT !.base = b] = [work |-> branch[i].work, base |-> b]
        BY <2>0 DEF GitBranch
      <3>2. branch' = [branch EXCEPT ![i] = [branch[i] EXCEPT !.base = b]]
        BY <2>2
      <3>3. /\ b \in Int /\ branch[i].base <= b /\ track <= b /\ (branch[i].base <= track => b = track)
            /\ branch[i].base \in Int /\ branch[i].work \in SUBSET Nat
        BY <2>0 DEF Larger, GitBranch
      <3> HIDE DEF b
      <3>4. branch' = [branch EXCEPT ![i] = [work |-> branch[i].work, base |-> b]]
        BY <3>1, <3>2
      <3>5. Types'
        <4>1. lost' \subseteq Issues
          BY <2>2 DEF past, GitInv, Types
        <4>2. branch' \in [Issues -> GitBranch]
          BY <3>3, <3>4 DEF GitInv, Types, GitBranch
        <4>3. asked' \in [Issues -> Nat]
          BY <2>0, <2>2 DEF GitInv, Types
        <4> QED BY <2>0, <2>2, <4>1, <4>2, <4>3 DEF GitInv, Types, Goto
      <3>6. \A j \in Issues \ {i} : Same(j)
        BY <2>2, <3>4 DEF Same, GitInv, Types
      <3>7. /\ branch'[i].work = branch[i].work /\ branch'[i].base = b /\ branch'[i] # None
            /\ at'[i] = "push" /\ asked'[i] = track
        BY <2>0, <2>2, <3>3, <3>4 DEF GitInv, Types, None
      <3>8. Good(i)'
        BY <2>0, <2>2, <3>3, <3>7 DEF GitInv, Types, GitBranch, Good, Placed, Kept, Based, Forward,
                                      Cleared, Merged, Ancestor, Gone
      <3> QED BY <2>2, <3>5, <3>6, <3>8, OneIssue DEF GitInv, Types
    <2>3. CASE /\ head' = [head EXCEPT ![i] = track] /\ unmerged' = unmerged \cup {i}
               /\ ToSession(i, track)
               /\ UNCHANGED <<branch, origin, track, linked, locked, dir, bounds, past>>
      <3> USE <2>0, <2>3 DEF ToSession
      <3>1. Types'
        BY DEF GitInv, Types
      <3>2. \A j \in Issues \ {i} : Same(j)
        BY DEF Same, GitInv, Types
      <3>3. at'[i] = "session" /\ asked'[i] = track /\ head'[i] = track
        BY DEF GitInv, Types
      <3>4. Good(i)'
        BY <3>3 DEF GitInv, Good, Placed, Kept, Based, Forward, Cleared, Merged, Ancestor, Gone
      <3> QED BY <3>1, <3>2, <3>4, OneIssue DEF GitInv, Types
    <2> QED BY <1>2, <2>1, <2>2, <2>3 DEF Merge
  <1> QED BY <1>1, <1>2

LEMMA GoodResolved ==
  ASSUME GitInv, NEW i \in Issues, Resolved(i)
  PROVE  GitInv'
  <1> USE DEF Goto, origin, repo, tree, bounds, past
  <1>1. CASE Fails(i)
    BY <1>1, GoodFails
  <1>2. CASE ~Fails(i)
    <2> USE <1>2 DEF Resolved, Still, Concluded
    <2>1. Types'
      BY DEF GitInv, Types
    <2>2. \A j \in Issues \ {i} : Same(j)
      BY DEF Same, GitInv, Types
    <2>3. Good(i)'
      <3>1. at'[i] = "push" /\ at[i] = "session" /\ head[i] = 0 /\ i \notin unmerged
        BY DEF GitInv, Types
      <3>2. i \notin gaveUp => asked[i] <= branch[i].base
        <4>1. branch[i] # None /\ 1 <= branch[i].base
          BY <3>1 DEF GitInv, Good, Placed, Based
        <4> QED BY <3>1, <4>1 DEF GitInv, Types, GitBranch, Good, Merged
      <3> QED BY <3>1, <3>2 DEF GitInv, Types, Good, Placed, Kept, Based, Forward, Cleared, Merged, Ancestor, Gone
    <2> QED BY <2>1, <2>2, <2>3, OneIssue DEF GitInv, Types
  <1> QED BY <1>1, <1>2

LEMMA GoodTakeAway ==
  ASSUME GitInv, NEW i \in Issues, TakeAway(i)
  PROVE  GitInv'
  <1> USE DEF TakeAway, origin, repo, run
  <1>1. Types'
    BY DEF GitInv, Types, Paths
  <1>2. \A j \in Issues \ {i} : Same(j)
    BY DEF Same, GitInv, Types
  <1>3. Good(i)'
    <2>1. dir'[i] \in {"none", "plain"} /\ at[i] = "off" /\ i \in taken'
      BY DEF GitInv, Types
    <2> QED BY <2>1 DEF GitInv, Good, Placed, Kept, Based, Forward, Cleared, Merged, Ancestor, Gone, Checkout
  <1> QED BY <1>1, <1>2, <1>3, OneIssue DEF GitInv, Types

\* A Stop, and a base branch that moves, leave every issue as it is.
LEMMA GoodStop ==
  ASSUME GitInv, Stop \/ BaseMoves \/ UNCHANGED vars
  PROVE  GitInv'
  <1> USE DEF Stop, BaseMoves, vars, origin, repo, tree, run, bounds, past
  <1>1. Types' /\ track' = track
    BY DEF GitInv, Types
  <1>2. \A j \in Issues : Same(j)
    BY DEF Same
  <1> QED BY <1>1, <1>2, Elsewhere DEF GitInv, Types

LEMMA GoodCrash ==
  ASSUME GitInv, Crash
  PROVE  GitInv'
  <1> USE FreshBranch DEF Crash, origin
  <1>1. Types'
    <2>1. /\ branch' \in [Issues -> GitBranch] /\ dir' \in [Issues -> Paths]
          /\ linked' \subseteq Issues /\ locked' \subseteq Issues
      <3>1. CASE UNCHANGED <<branch, linked, locked, dir>>
        BY <3>1 DEF GitInv, Types
      <3>2. ASSUME NEW i \in Issues, AddCut(i)
            PROVE  /\ branch' \in [Issues -> GitBranch] /\ dir' \in [Issues -> Paths]
                   /\ linked' \subseteq Issues /\ locked' \subseteq Issues
        BY <3>2 DEF AddCut, GitInv, Types, Paths
      <3> QED BY <3>1, <3>2
    <2>2. lost' \subseteq Issues
      BY DEF past, GitInv, Types
    <2> QED BY <2>1, <2>2 DEF past, GitInv, Types
  <1>2. ASSUME NEW j \in Issues PROVE Good(j)'
    <2>1. /\ at'[j] = "off"
          /\ UNCHANGED <<remote, track, head, lost, taken, shot, misread>>
      BY DEF past
    <2>2. CASE branch'[j] = branch[j] /\ dir'[j] = dir[j] /\ (j \in linked' <=> j \in linked)
      BY <2>1, <2>2 DEF GitInv, Good, Placed, Kept, Based, Forward, Cleared, Merged, Ancestor, Gone
    <2>3. CASE branch[j] = None /\ branch'[j] = Fresh /\ (dir'[j] \in Checkout => j \in linked')
      BY <2>1, <2>3 DEF GitInv, Types, GitBranch, Good, Placed, Kept, Based, Forward, Cleared, Merged,
                        Ancestor, Gone, Checkout
    <2>4. (branch'[j] = branch[j] /\ dir'[j] = dir[j] /\ (j \in linked' <=> j \in linked))
          \/ (branch[j] = None /\ branch'[j] = Fresh /\ (dir'[j] \in Checkout => j \in linked'))
      BY DEF AddCut, CanAdd, GitInv, Types, Checkout
    <2> QED BY <2>2, <2>3, <2>4
  <1> QED BY <1>1, <1>2 DEF GitInv

-----------------------------------------------------------------------------
(* What follows *)

LEMMA GitInvariance == Spec => []GitInv
  <1>1. ASSUME GitInv, [Next]_vars PROVE GitInv'
    <2>1. CASE UNCHANGED vars
      BY <1>1, <2>1, GoodStop
    <2>2. CASE Stop \/ Crash \/ BaseMoves
      BY <1>1, <2>2, GoodStop, GoodCrash
    <2>3. ASSUME NEW i \in Issues, Begin(i) \/ Lock(i) \/ Session(i) \/ PushOnTheWay(i) \/ TakeAway(i)
          PROVE  GitInv'
      BY <1>1, <2>3, GoodBegin, GoodSession, GoodPush, GoodTakeAway
    <2>4. ASSUME NEW i \in Issues, RunStep(i)
          PROVE  GitInv'
      BY <1>1, <2>4, GoodFetch, GoodAdd, GoodLook, GoodPrune, GoodDelete, GoodPush, GoodMerge,
         GoodResolved DEF RunStep
    <2> QED BY <1>1, <2>1, <2>2, <2>3, <2>4 DEF Next
  <1> QED BY InitGood, <1>1, PTL DEF Spec

\* A run works in a checkout that is registered and has its issue's branch, and
\* loses it to no other issue's cleanup (Create, git worktree prune).
THEOREM InCheckout == Spec => []WorksInCheckout
  <1>1. GitInv => WorksInCheckout
    BY DEF GitInv, Good, Placed, WorksInCheckout
  <1> QED BY <1>1, GitInvariance, PTL

\* A branch with commits is deleted only after its directory was removed, by
\* somebody or by a Create whose rev-parse failed or was killed (isWorktree).
THEOREM CommitsKept == Spec => []KeptUnlessGone
  <1>1. GitInv => KeptUnlessGone
    BY DEF GitInv, Types, Good, Kept, KeptUnlessGone
  <1> QED BY <1>1, GitInvariance, PTL

\* Origin's branch is an ancestor of the issue's own, so no push is refused, as
\* long as its commits were not given up (Push).
THEOREM PushesForward == Spec => []FastForward
  <1>1. GitInv => FastForward
    BY DEF GitInv, Good, Forward, FastForward
  <1> QED BY <1>1, GitInvariance, PTL

\* After the cleanup the second add finds nothing in its way, unless git failed in
\* the cleanup or keeps its lock of an add that was killed (the order of prune and
\* branch -D in Create).
THEOREM CleanupSuffices == Spec => []LeftoversCleared
  <1>1. GitInv => LeftoversCleared
    BY DEF GitInv, Good, Cleared, LeftoversCleared, CanAdd
  <1> QED BY <1>1, GitInvariance, PTL

\* A merge run pushes only a branch that has the merge it was to conclude
\* (RunMergeResolve's checks of git's state).
THEOREM MergesArePushed == Spec => []PushIsMerged
  <1>1. GitInv => PushIsMerged
    BY DEF GitInv, Types, GitBranch, Good, Merged, PushIsMerged
  <1> QED BY <1>1, GitInvariance, PTL

-----------------------------------------------------------------------------
(***************************************************************************)
(* The commit store.  To the store a branch is the set of its commits, so  *)
(* most git commands are none of its steps.                                *)
(***************************************************************************)

Works == [j \in Issues |-> branch[j].work]
Shown == [j \in Issues |-> remote[j].work]

\* Commits are numbered in the order they are made.
Numbered ==
  made <= MaxWork /\ \A j \in Issues : Works[j] \cup Shown[j] \subseteq 1 .. made

\* What a step is to the store.
Nothing == UNCHANGED <<Works, Shown, Gone, made>>
Committed(i) ==
  /\ made < MaxWork /\ made' = made + 1
  /\ Works' = [Works EXCEPT ![i] = @ \cup {made + 1}]
  /\ UNCHANGED <<Shown, Gone>>
Published(i) ==
  /\ Shown[i] \subseteq Works[i] /\ Shown' = [Shown EXCEPT ![i] = Works[i]]
  /\ UNCHANGED <<Works, Gone, made>>
Excused(i) == Gone' = Gone \cup {i} /\ UNCHANGED <<Works, Shown, made>>
GivenUp(i) ==
  /\ i \in Gone /\ Works' = [Works EXCEPT ![i] = {}]
  /\ UNCHANGED <<Shown, Gone, made>>

StoreMove ==
  Nothing \/ \E i \in Issues : Committed(i) \/ Published(i) \/ Excused(i) \/ GivenUp(i)

LEMMA NothingMoves ==
  ASSUME \A j \in Issues : branch'[j].work = branch[j].work,
         UNCHANGED <<remote, taken, shot, misread, made>>
  PROVE  StoreMove
  BY DEF StoreMove, Nothing, Works, Shown, Gone

\* A branch without a commit, or none.
LEMMA NoWork == None.work = {} /\ Fresh.work = {}
  BY DEF None, Fresh

LEMMA MoveOfTheAdd ==
  ASSUME GitInv, NEW i \in Issues, Add(i)
  PROVE  StoreMove
  <1> USE NoWork DEF Goto, Leave, Still, Fails, End, origin, repo, tree, bounds, past
  <1>1. UNCHANGED <<remote, taken, shot, misread, made>>
    BY DEF Add
  <1>2. \A j \in Issues : branch'[j].work = branch[j].work
    BY DEF Add, AddCut, CanAdd, GitInv, Types
  <1> QED BY <1>1, <1>2, NothingMoves

LEMMA MoveOfTheCrash ==
  ASSUME GitInv, Crash
  PROVE  StoreMove
  <1> USE NoWork DEF Crash, origin, past
  <1>1. UNCHANGED <<remote, taken, shot, misread, made>>
    OBVIOUS
  <1>2. \A j \in Issues : branch'[j].work = branch[j].work
    BY DEF AddCut, CanAdd, GitInv, Types
  <1> QED BY <1>1, <1>2, NothingMoves

\* git merge, and the commit that concludes it, add no work of the issue's own.
LEMMA MoveOfTheMerge ==
  ASSUME GitInv, NEW i \in Issues, Merge(i)
  PROVE  StoreMove
  <1> USE DEF Fails, End, ToSession, Goto, origin, repo, tree, bounds, past
  <1>1. UNCHANGED <<remote, taken, shot, misread, made>>
    BY DEF Merge
  <1>2. branch' = branch \/ branch' = [branch EXCEPT ![i].base = Larger(@, track)]
    BY DEF Merge
  <1>3. \A j \in Issues : branch'[j].work = branch[j].work
    BY <1>2 DEF GitInv, Types, GitBranch
  <1> QED BY <1>1, <1>3, NothingMoves

LEMMA MoveOfTheSession ==
  ASSUME GitInv, NEW i \in Issues, Session(i)
  PROVE  StoreMove
  <1>1. UNCHANGED <<remote, taken, shot, misread>>
    BY DEF Session, origin, past
  <1>2. CASE /\ made < MaxWork /\ made' = made + 1
             /\ branch' = [branch EXCEPT ![i] = [work |-> @.work \cup {made'},
                                                base |-> Larger(@.base, head[i])]]
    <2>1. \A j \in Issues : branch'[j].work = IF j = i THEN branch[j].work \cup {made + 1}
                                                     ELSE branch[j].work
      BY <1>2 DEF GitInv, Types
    <2>2. Works' = [Works EXCEPT ![i] = @ \cup {made + 1}]
      BY <2>1 DEF Works
    <2>3. Committed(i)
      BY <1>1, <1>2, <2>2 DEF Committed, Shown, Gone
    <2> QED BY <2>3 DEF StoreMove
  <1>3. CASE made' = made /\ (branch' = branch \/ branch' = [branch EXCEPT ![i].base = Larger(@, head[i])])
    <2>1. \A j \in Issues : branch'[j].work = branch[j].work
      BY <1>3 DEF GitInv, Types, GitBranch
    <2> QED BY <1>1, <1>3, <2>1, NothingMoves
  <1> QED BY <1>2, <1>3 DEF Session

LEMMA MoveOfThePush ==
  ASSUME GitInv, NEW i \in Issues, PushOnTheWay(i) \/ Push(i)
  PROVE  StoreMove
  <1> USE DEF Fails, End, Retry, origin, repo, tree, run, bounds, past
  <1>1. CASE Pushed(i) /\ UNCHANGED <<branch, taken, shot, misread, made>>
    <2>1. remote[i].work \subseteq branch[i].work /\ remote' = [remote EXCEPT ![i] = branch[i]]
      BY <1>1 DEF Pushed, Ancestor
    <2>2. Shown' = [Shown EXCEPT ![i] = Works[i]]
      BY <1>1, <2>1 DEF Shown, Works, GitInv, Types
    <2>3. Published(i)
      BY <1>1, <2>1, <2>2 DEF Published, Shown, Works, Gone
    <2> QED BY <2>3 DEF StoreMove
  <1>2. CASE UNCHANGED <<branch, remote, taken, shot, misread, made>>
    BY <1>2, NothingMoves
  <1> QED BY <1>1, <1>2 DEF PushOnTheWay, Push

\* A Create whose rev-parse fails removes a live checkout.
LEMMA MoveOfTheLook ==
  ASSUME NEW i \in Issues, Look(i) \/ TakeAway(i)
  PROVE  StoreMove
  <1> USE DEF Goto, Leave, Still, Fails, End, origin, repo, tree, run, bounds, past
  <1>1. UNCHANGED <<branch, remote, made>>
    BY DEF Look, TakeAway
  <1>2. Gone' = Gone \/ Gone' = Gone \cup {i}
    BY DEF Look, TakeAway, Gone
  <1>3. UNCHANGED <<Works, Shown, made>>
    BY <1>1 DEF Works, Shown
  <1> QED BY <1>2, <1>3 DEF StoreMove, Nothing, Excused

\* The branch of an issue whose worktree is gone holds commits only if somebody,
\* or a Create, removed it.
LEMMA MoveOfTheDelete ==
  ASSUME GitInv, NEW i \in Issues, Delete(i)
  PROVE  StoreMove
  <1> USE DEF Goto, Still, Swallow, origin, repo, tree, bounds, past
  <1>1. UNCHANGED <<remote, taken, shot, misread, made>>
    BY DEF Delete
  <1>2. CASE branch' = branch
    BY <1>1, <1>2, NothingMoves
  <1>3. CASE branch' = [branch EXCEPT ![i] = None]
    <2>1. \A j \in Issues : branch'[j].work = IF j = i THEN {} ELSE branch[j].work
      BY <1>3, NoWork DEF GitInv, Types
    <2>2. CASE branch[i].work = {}
      BY <1>1, <2>1, <2>2, NothingMoves
    <2>3. CASE branch[i].work # {}
      <3>1. dir[i] = "none"
        BY DEF Delete, GitInv, Good, Cleared
      <3>2. i \in Gone
        BY <2>3, <3>1 DEF GitInv, Good, Kept, Checkout, Gone
      <3>3. Works' = [Works EXCEPT ![i] = {}]
        BY <2>1 DEF Works
      <3> QED BY <1>1, <3>2, <3>3 DEF StoreMove, GivenUp, Shown, Gone
    <2> QED BY <2>2, <2>3
  <1> QED BY <1>2, <1>3 DEF Delete

\* The steps that touch no commit.
LEMMA MoveOfTheRest ==
  ASSUME \/ \E i \in Issues : \/ Begin(i) \/ Lock(i) \/ Fetch(i) \/ Prune(i)
                              \/ Verdict(i) \/ Resolved(i)
         \/ Stop \/ BaseMoves \/ UNCHANGED vars
  PROVE  StoreMove
  <1>1. UNCHANGED <<branch, remote, taken, shot, misread, made>>
    BY DEF Begin, Lock, Fetch, Retry, Prune, Swallow, Verdict, Resolved, Fails, Stop, BaseMoves, vars,
           origin, repo, bounds, past
  <1> QED BY <1>1, NothingMoves

LEMMA EveryStepMoves ==
  ASSUME GitInv, [Next]_vars
  PROVE  StoreMove
  BY MoveOfTheAdd, MoveOfTheCrash, MoveOfTheMerge, MoveOfTheSession, MoveOfThePush, MoveOfTheLook,
     MoveOfTheDelete, MoveOfTheRest DEF Next, RunStep

LEMMA NumberedStep ==
  ASSUME GitInv, Numbered, StoreMove
  PROVE  Numbered'
  <1>0. made \in Nat /\ MaxWork \in Nat
    BY WorktreeAssumption DEF GitInv, Types
  <1>1. CASE Nothing
    BY <1>1 DEF Nothing, Numbered
  <1>2. ASSUME NEW i \in Issues, Committed(i) PROVE Numbered'
    <2>1. 1 .. made \subseteq 1 .. (made + 1) /\ made + 1 \in 1 .. (made + 1) /\ made + 1 <= MaxWork
      BY <1>0, <1>2 DEF Committed
    <2>2. \A j \in Issues : Works'[j] \subseteq Works[j] \cup {made + 1} /\ Shown'[j] = Shown[j]
      BY <1>2 DEF Committed, Works
    <2> QED BY <1>2, <2>1, <2>2 DEF Committed, Numbered
  <1>3. ASSUME NEW i \in Issues, Published(i) \/ Excused(i) \/ GivenUp(i) PROVE Numbered'
    <2>1. \A j \in Issues : Works'[j] \cup Shown'[j] \subseteq Works[j] \cup Shown[j]
      BY <1>3 DEF Published, Excused, GivenUp, Works, Shown
    <2>2. made' = made
      BY <1>3 DEF Published, Excused, GivenUp
    <2> QED BY <2>1, <2>2 DEF Numbered
  <1> QED BY <1>1, <1>2, <1>3 DEF StoreMove

LEMMA StoreOfTheRepository ==
  ASSUME GitInv, Numbered, StoreMove
  PROVE  [Store!Next]_(Store!vars)
  <1> USE DEF Works, Shown, Gone
  <1>1. CASE Nothing
    BY <1>1 DEF Nothing, Store!vars
  <1>2. ASSUME NEW i \in Issues, Committed(i) PROVE Store!Commit(i)
    <2>1. made + 1 \in 1 .. MaxWork /\ \A j \in Issues : made + 1 \notin Works[j] \cup Shown[j]
      BY <1>2, WorktreeAssumption DEF Committed, Numbered, GitInv, Types
    <2> QED BY <1>2, <2>1 DEF Committed, Store!Commit
  <1>3. ASSUME NEW i \in Issues, Published(i) PROVE Store!Publish(i)
    BY <1>3 DEF Published, Store!Publish
  <1>4. ASSUME NEW i \in Issues, Excused(i) PROVE Store!Excuse(i)
    BY <1>4 DEF Excused, Store!Excuse
  <1>5. ASSUME NEW i \in Issues, GivenUp(i) PROVE Store!GiveUp(i)
    BY <1>5 DEF GivenUp, Store!GiveUp
  <1> QED BY <1>1, <1>2, <1>3, <1>4, <1>5 DEF StoreMove, Store!Next

LEMMA InitStored == Init => Numbered /\ Store!Init
  BY NoWork, WorktreeAssumption DEF Init, Numbered, Works, Shown, Store!Init, Gone

\* The repository, with its worktrees, leftovers, retries, Stops and crashes,
\* implements the commit store: each git command commits to one issue's branch,
\* pushes it forward, removes its worktree, gives it up after that, or is none
\* of the store's business (worktree.go).
THEOREM ImplementsStore == Spec => StoreSpec
  <1>1. GitInv /\ Numbered /\ [Next]_vars => Numbered' /\ [Store!Next]_(Store!vars)
    BY EveryStepMoves, NumberedStep, StoreOfTheRepository
  <1> QED BY <1>1, InitStored, GitInvariance, PTL DEF Spec, StoreSpec, Store!Spec

-----------------------------------------------------------------------------
(* What the store keeps of itself *)

LEMMA SeparateStep ==
  ASSUME Store!Separate, [Store!Next]_(Store!vars)
  PROVE  Store!Separate'
  <1> USE DEF Store!Separate, Works, Shown
  <1>1. CASE UNCHANGED Store!vars
    BY <1>1 DEF Store!vars
  <1>2. ASSUME NEW i \in Issues, Store!Commit(i) PROVE Store!Separate'
    <2>1. PICK c \in 1 .. MaxWork : /\ \A j \in Issues : c \notin Works[j] \cup Shown[j]
                                   /\ Works' = [Works EXCEPT ![i] = @ \cup {c}]
      BY <1>2 DEF Store!Commit
    <2>2. Shown' = Shown /\ Gone' = Gone
      BY <1>2 DEF Store!Commit, Gone
    <2>3. \A j \in Issues : Works'[j] = IF j = i THEN Works[j] \cup {c} ELSE Works[j]
      BY <2>1
    <2>4. \A j, k \in Issues : j # k => (Works[j] \cup Shown[j]) \cap (Works[k] \cup Shown[k]) = {}
      OBVIOUS
    <2>5. \A j, k \in Issues :
            j # k => (Works'[j] \cup Shown'[j]) \cap (Works'[k] \cup Shown'[k]) = {}
      <3> HIDE DEF Works, Shown
      <3> QED BY <2>1, <2>2, <2>3, <2>4
    <2>6. \A j \in Issues \ Gone : Shown'[j] \subseteq Works'[j]
      <3>1. \A j \in Issues \ Gone : Shown[j] \subseteq Works[j]
        BY DEF Gone
      <3>2. ASSUME NEW j \in Issues \ Gone PROVE Shown'[j] \subseteq Works'[j]
        <4>1. Shown[j] \subseteq Works[j] /\ Shown'[j] = Shown[j] /\ Works[j] \subseteq Works'[j]
          <5> HIDE DEF Works, Shown, Gone, Store!Separate
          <5> QED BY <2>2, <2>3, <3>1
        <4> QED BY <4>1
      <3> QED BY <3>2
    <2> QED BY <2>2, <2>5, <2>6 DEF Gone
  <1>3. ASSUME NEW i \in Issues, Store!Publish(i) PROVE Store!Separate'
    <2>1. Shown' = [Shown EXCEPT ![i] = Works[i]] /\ Works' = Works /\ Gone' = Gone
      BY <1>3 DEF Store!Publish, Gone
    <2>2. \A j \in Issues : Shown'[j] = IF j = i THEN Works[j] ELSE Shown[j]
      BY <2>1
    <2>3. \A j, k \in Issues : j # k => (Works[j] \cup Shown[j]) \cap (Works[k] \cup Shown[k]) = {}
      OBVIOUS
    <2>4. \A j, k \in Issues :
            j # k => (Works'[j] \cup Shown'[j]) \cap (Works'[k] \cup Shown'[k]) = {}
      <3> HIDE DEF Works, Shown
      <3> QED BY <2>1, <2>2, <2>3
    <2>5. \A j \in Issues \ Gone : Shown'[j] \subseteq Works'[j]
      <3>1. \A j \in Issues \ Gone : Shown[j] \subseteq Works[j]
        BY DEF Gone
      <3> HIDE DEF Works, Shown
      <3> QED BY <2>1, <2>2, <3>1
    <2> QED BY <2>1, <2>4, <2>5 DEF Gone
  <1>4. ASSUME NEW i \in Issues, Store!Excuse(i) PROVE Store!Separate'
    BY <1>4 DEF Store!Excuse
  <1>5. ASSUME NEW i \in Issues, Store!GiveUp(i) PROVE Store!Separate'
    BY <1>5 DEF Store!GiveUp
  <1> QED BY <1>1, <1>2, <1>3, <1>4, <1>5 DEF Store!Next

\* No commit is on the branches of two issues, here or on origin, and origin shows
\* nothing that the issue's own branch has not, unless its worktree was removed,
\* by somebody or by a Create whose rev-parse failed (one worktree and branch per
\* issue; git push without force).
THEOREM CommitsSeparate == Spec => []Store!Separate
  <1>1. Store!Init => Store!Separate
    BY DEF Store!Init, Store!Separate
  <1>2. StoreSpec => []Store!Separate
    BY <1>1, SeparateStep, PTL DEF StoreSpec, Store!Spec
  <1> QED BY <1>2, ImplementsStore, PTL

-----------------------------------------------------------------------------
(***************************************************************************)
(* Why runs end.  That they do needs fairness and is TLC's; what keeps one *)
(* from going round in a circle, or from waiting for ever for the mutex,   *)
(* needs none.                                                             *)
(***************************************************************************)

\* The places of Create and Fetch between Lock and the deferred Unlock.
Inside == {"fetch", "add", "look", "prune", "delete", "readd"}

MutexExact == \A i \in Issues : mu = i <=> at[i] \in Inside

Places == Inside \cup {"off", "lock", "merge", "work", "session", "push"}

\* The mutex, and the attempts, which are counted only when they are limited.
MutexInv ==
  /\ tries \in [Issues -> Nat] /\ at \in [Issues -> Places]
  /\ MaxAttempts = 0 => \A i \in Issues : tries[i] = 0
  /\ mu \in Issues \cup {Nobody} /\ MutexExact

\* How many places are ahead of a run at most.
Distance(l) ==
  CASE l = "lock" -> 10 [] l = "fetch" -> 9 [] l = "add" -> 8 [] l = "look" -> 7
    [] l = "prune" -> 6 [] l = "delete" -> 5 [] l = "readd" -> 4 [] l = "merge" -> 4
    [] l \in {"work", "session"} -> 2 [] l = "push" -> 1 [] OTHER -> 0

\* A run comes nearer to its end, or uses up an attempt at the same command.
Nearer(i) ==
  \/ Distance(at'[i]) < Distance(at[i])
  \/ at'[i] = at[i] /\ tries[i] < tries'[i] /\ tries'[i] < MaxAttempts

LEMMA Distances ==
  /\ Distance("lock") = 10 /\ Distance("fetch") = 9 /\ Distance("add") = 8
  /\ Distance("look") = 7 /\ Distance("prune") = 6 /\ Distance("delete") = 5
  /\ Distance("readd") = 4 /\ Distance("merge") = 4 /\ Distance("work") = 2
  /\ Distance("session") = 2 /\ Distance("push") = 1 /\ Distance("off") = 0
  BY DEF Distance

\* Where a step of a run may take it, and what it does to the mutex.
Onward(i) ==
  /\ at' = [at EXCEPT ![i] = at'[i]]
  /\ \/ at[i] = "lock" /\ at'[i] = "fetch"
     \/ at[i] = "fetch" /\ at'[i] \in {"merge", "add", "off"}
     \/ at[i] = "add" /\ at'[i] \in {"work", "look", "off"}
     \/ at[i] = "look" /\ at'[i] \in {"work", "prune", "off"}
     \/ at[i] = "prune" /\ at'[i] = "delete"
     \/ at[i] = "delete" /\ at'[i] = "readd"
     \/ at[i] = "readd" /\ at'[i] \in {"work", "off"}
     \/ at[i] = "merge" /\ at'[i] \in {"session", "push", "off"}
     \/ at[i] \in {"work", "session"} /\ at'[i] \in {"push", "off"}
     \/ at[i] = "push" /\ at'[i] = "off"
  /\ tries' = tries \/ tries' = [tries EXCEPT ![i] = 0]
  /\ IF at[i] = "lock" THEN mu = Nobody /\ mu' = i
     ELSE IF at'[i] \in Inside THEN mu' = mu
     ELSE mu' = IF mu = i THEN Nobody ELSE mu

LEMMA RunGoesOn ==
  ASSUME MutexInv, NEW i \in Issues, Lock(i) \/ RunStep(i)
  PROVE  Onward(i) \/ Retry(i)
  <1> USE DEF MutexInv, MutexExact, Onward, Inside, Places, Goto, Unlock, Leave, End, Still, Fails, Swallow
  <1>1. CASE Lock(i)
    BY <1>1 DEF Lock
  <1>2. CASE Fetch(i)
    BY <1>2 DEF Fetch
  <1>3. CASE Add(i)
    BY <1>3 DEF Add
  <1>4. CASE Look(i)
    BY <1>4 DEF Look
  <1>5. CASE Prune(i) \/ Delete(i)
    BY <1>5 DEF Prune, Delete
  <1>6. CASE Verdict(i) \/ Resolved(i)
    BY <1>6 DEF Verdict, Resolved
  <1>7. CASE Push(i)
    BY <1>7 DEF Push
  <1>8. CASE Merge(i)
    BY <1>8 DEF Merge, ToSession
  <1> QED BY <1>1, <1>2, <1>3, <1>4, <1>5, <1>6, <1>7, <1>8 DEF RunStep

\* Of the other steps only Begin and a crash move a run.
LEMMA OthersStay ==
  ASSUME MutexInv,
         \/ \E i \in Issues : Session(i) \/ PushOnTheWay(i) \/ TakeAway(i)
         \/ Stop \/ BaseMoves \/ UNCHANGED vars
  PROVE  UNCHANGED <<at, tries, mu>>
  BY DEF Session, PushOnTheWay, TakeAway, Stop, BaseMoves, vars, run

LEMMA MutexStep ==
  ASSUME MutexInv, [Next]_vars
  PROVE  MutexInv'
  <1> USE WorktreeAssumption DEF MutexInv, MutexExact, Inside, Places
  <1>1. ASSUME NEW i \in Issues, Onward(i) PROVE MutexInv'
    <2>1. \A j \in Issues \ {i} : at'[j] = at[j]
      BY <1>1 DEF Onward
    <2>2. tries' \in [Issues -> Nat] /\ at' \in [Issues -> Places]
          /\ (MaxAttempts = 0 => \A j \in Issues : tries'[j] = 0)
      BY <1>1 DEF Onward
    <2>3. mu' \in Issues \cup {Nobody} /\ (mu' = i <=> at'[i] \in Inside)
      BY <1>1 DEF Onward
    <2>4. ASSUME NEW j \in Issues \ {i} PROVE mu' = j <=> at'[j] \in Inside
      BY <1>1, <2>1 DEF Onward
    <2> QED BY <2>2, <2>3, <2>4
  <1>2. ASSUME NEW i \in Issues, Retry(i) PROVE MutexInv'
    BY <1>2 DEF Retry
  <1>3. ASSUME NEW i \in Issues, Begin(i) PROVE MutexInv'
    BY <1>3 DEF Begin, Goto
  <1>4. CASE Crash
    BY <1>4 DEF Crash
  <1>5. CASE UNCHANGED <<at, tries, mu>>
    BY <1>5
  <1> QED BY <1>1, <1>2, <1>3, <1>4, <1>5, RunGoesOn, OthersStay DEF Next

LEMMA MutexInvariance == Spec => []MutexInv
  <1>1. Init => MutexInv
    BY WorktreeAssumption DEF Init, MutexInv, MutexExact, Inside, Places
  <1> QED BY <1>1, MutexStep, PTL DEF Spec

\* The mutex is held exactly while a run is inside Create or Fetch: never two are,
\* and every way out of them, failures, Stops and crashes included, gives it back.
THEOREM MutexIsExact == Spec => []MutexExact
  <1>1. MutexInv => MutexExact
    BY DEF MutexInv
  <1> QED BY <1>1, MutexInvariance, PTL

\* A step of run k, as any run i sees it.
LEMMA StepIsNearer ==
  ASSUME MutexInv, NEW k \in Issues, Onward(k) \/ Retry(k), NEW i \in Issues
  PROVE  /\ Nearer(i) \/ (at'[i] = at[i] /\ tries'[i] = tries[i])
         /\ MaxAttempts > 0 /\ i = k => Nearer(i)
  <1>1. CASE Onward(k)
    <2>1. Nearer(k)
      BY <1>1, Distances DEF Onward, Nearer
    <2>2. i # k => at'[i] = at[i] /\ tries'[i] = tries[i]
      BY <1>1 DEF Onward, MutexInv
    <2> QED BY <2>1, <2>2
  <1>2. CASE Retry(k)
    <2>1. MaxAttempts > 0 => Nearer(k)
      BY <1>2, WorktreeAssumption DEF Retry, MayRetry, Nearer, MutexInv
    <2>2. at' = at /\ (i # k \/ MaxAttempts = 0 => tries'[i] = tries[i])
      BY <1>2 DEF Retry, MutexInv
    <2> QED BY <2>1, <2>2, WorktreeAssumption
  <1> QED BY <1>1, <1>2

\* Every step of a run's goroutine brings it nearer to its end, when attempts are
\* limited, and nothing that others do takes it back: there is no circle in Create,
\* in a push that is retried or in a merge, whatever fails (RetryPolicy.Do).
THEOREM RunsComeNearer ==
  Spec => [][\A i \in Issues :
               /\ at[i] # "off" => Nearer(i) \/ (at'[i] = at[i] /\ tries'[i] = tries[i])
               /\ MaxAttempts > 0 /\ RunStep(i) => Nearer(i)]_vars
  <1>1. ASSUME MutexInv, [Next]_vars, NEW i \in Issues, at[i] # "off"
        PROVE  Nearer(i) \/ (at'[i] = at[i] /\ tries'[i] = tries[i])
    <2>1. ASSUME NEW k \in Issues, Lock(k) \/ RunStep(k)
          PROVE  Nearer(i) \/ (at'[i] = at[i] /\ tries'[i] = tries[i])
      BY <1>1, <2>1, RunGoesOn, StepIsNearer
    <2>2. ASSUME NEW k \in Issues, Begin(k)
          PROVE  at'[i] = at[i] /\ tries'[i] = tries[i]
      BY <1>1, <2>2 DEF Begin, Goto, MutexInv
    <2>3. CASE Crash
      <3>1. at'[i] = "off" /\ at[i] \in Places \ {"off"}
        BY <1>1, <2>3 DEF Crash, MutexInv
      <3> QED BY <3>1, Distances DEF Nearer, Places, Inside
    <2>4. CASE UNCHANGED <<at, tries, mu>>
      BY <2>4
    <2> QED BY <1>1, <2>1, <2>2, <2>3, <2>4, OthersStay DEF Next
  <1>2. ASSUME MutexInv, NEW i \in Issues, MaxAttempts > 0, RunStep(i) PROVE Nearer(i)
    BY <1>2, RunGoesOn, StepIsNearer
  <1>3. MutexInv /\ [Next]_vars =>
          [\A i \in Issues :
             /\ at[i] # "off" => Nearer(i) \/ (at'[i] = at[i] /\ tries'[i] = tries[i])
             /\ MaxAttempts > 0 /\ RunStep(i) => Nearer(i)]_vars
    BY <1>1, <1>2
  <1> QED BY <1>3, MutexInvariance, PTL DEF Spec
=============================================================================
