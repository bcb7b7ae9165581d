----------------------------- MODULE DaemonLock -----------------------------
(***************************************************************************)
(* acquireLock (worker/daemon.go): daemons that start on one workDir and    *)
(* claim logs/daemon.lock.  A step is one system call.  A lock file is      *)
(* named by the process that created it; the path holds one file or none,   *)
(* and a write goes to the file a process has open, even when the path has  *)
(* lost it since.  A dead daemon's pid may be borne by another process: a   *)
(* stranger, or (after a reboot, or as pid 1 of a restarted container) the  *)
(* very daemon that starts.                                                *)
(***************************************************************************)

CONSTANTS Procs,    \* processes, named by their pids
          Stale,    \* the creator, long dead, of a lock file left behind
          Absent    \* no lock file

ASSUME LockAssumption == Stale \notin Procs /\ Absent \notin Procs /\ Absent # Stale

VARIABLES pc,       \* where each process is
          file,     \* the file at the path, by its creator
          written,  \* the files that hold their creator's pid
          got,      \* the pid each process has read from the path
          reused,   \* the dead daemons whose pid another process bears
          raced,    \* history: two processes were in acquireLock at once
          misled    \* history: the daemons a reused pid has turned away

vars == <<pc, file, written, got, reused, raced, misled>>

Claiming == {"first", "read", "probe", "remove", "second", "write"}
Running(q) == q \in Procs /\ pc[q] \in Claiming \cup {"owner"}
Dead(q) == q \in Procs => pc[q] \in {"refused", "gone"}

\* pidAlive: signal 0 finds a process, or is refused; whose it is it cannot say.
PidAlive(q) == Running(q) \/ q \in reused
Goto(p, l) == pc' = [pc EXCEPT ![p] = l]

Begin(p) ==
  /\ pc[p] = "off"
  /\ Goto(p, "first")
  /\ raced' = (raced \/ \E q \in Procs : pc[q] \in Claiming)
  /\ UNCHANGED <<file, written, got, reused, misled>>

\* tryClaimLock's open with O_EXCL: the first call that finds the file goes on
\* to read it, the second gives up.
Claim(p) ==
  /\ pc[p] \in {"first", "second"}
  /\ IF file = Absent
     THEN file' = p /\ Goto(p, "write")
     ELSE UNCHANGED file /\ Goto(p, IF pc[p] = "first" THEN "read" ELSE "refused")
  /\ UNCHANGED <<written, got, reused, raced, misled>>

\* tryClaimLock's write of the pid; when it fails the empty file stays.
Write(p) ==
  /\ pc[p] = "write"
  /\ \/ written' = written \cup {p} /\ Goto(p, "owner")
     \/ UNCHANGED written /\ Goto(p, "gone")
  /\ UNCHANGED <<file, got, reused, raced, misled>>

\* Mutant: a lock without a pid counts as owned.
ReadStrict(p) ==
  /\ pc[p] = "read"
  /\ IF file \in written
     THEN got' = [got EXCEPT ![p] = file] /\ Goto(p, "probe")
     ELSE UNCHANGED got /\ Goto(p, "refused")
  /\ UNCHANGED <<file, written, reused, raced, misled>>

\* A lock that is gone, empty or garbage is taken over, one with a pid probed.
Read(p) ==
  /\ pc[p] = "read"
  /\ IF file \in written
     THEN got' = [got EXCEPT ![p] = file] /\ Goto(p, "probe")
     ELSE UNCHANGED got /\ Goto(p, "remove")
  /\ UNCHANGED <<file, written, reused, raced, misled>>

\* Mutants: every pid counts as dead, or as alive.
ProbeNone(p) ==
  /\ pc[p] = "probe" /\ Goto(p, "remove")
  /\ UNCHANGED <<file, written, got, reused, raced, misled>>
ProbeAny(p) ==
  /\ pc[p] = "probe" /\ Goto(p, "refused")
  /\ UNCHANGED <<file, written, got, reused, raced, misled>>

Probe(p) ==
  /\ pc[p] = "probe"
  /\ Goto(p, IF PidAlive(got[p]) THEN "refused" ELSE "remove")
  /\ misled' = misled \cup {q \in {p} : PidAlive(got[p]) /\ ~Running(got[p])}
  /\ UNCHANGED <<file, written, got, reused, raced>>

\* os.Remove takes away whatever file the path holds by now.
Remove(p) ==
  /\ pc[p] = "remove"
  /\ file' = Absent
  /\ Goto(p, "second")
  /\ UNCHANGED <<written, got, reused, raced, misled>>

\* main returns, and its deferred release removes the file at the path.
Release(p) ==
  /\ pc[p] = "owner"
  /\ file' = Absent
  /\ Goto(p, "gone")
  /\ UNCHANGED <<written, got, reused, raced, misled>>

\* The process is killed; its file stays.
Die(p) ==
  /\ Running(p)
  /\ Goto(p, "gone")
  /\ UNCHANGED <<file, written, got, reused, raced, misled>>

\* The system gives a dead daemon's pid to another process, which may end.
Reuse(q) == Dead(q) /\ q \notin reused /\ reused' = reused \cup {q}
Vacate(q) == q \in reused /\ reused' = reused \ {q}
Others == /\ \E q \in Procs \cup {Stale} : Reuse(q) \/ Vacate(q)
          /\ UNCHANGED <<pc, file, written, got, raced, misled>>

Acquire(p) == Claim(p) \/ Write(p) \/ Read(p) \/ Probe(p) \/ Remove(p)

\* The path starts empty, or with what a dead daemon left: its pid, or nothing.
Init ==
  /\ pc = [p \in Procs |-> "off"]
  /\ \/ file = Absent /\ written = {}
     \/ file = Stale /\ written \in {{}, {Stale}}
  /\ got = [p \in Procs |-> Absent]
  /\ reused = {}
  /\ raced = FALSE
  /\ misled = {}

Next == Others \/ \E p \in Procs : Begin(p) \/ Acquire(p) \/ Release(p) \/ Die(p)

Spec == Init /\ [][Next]_vars

\* System calls return; nobody has to start, stop or die.
FairSpec == Spec /\ \A p \in Procs : WF_vars(Acquire(p))

-----------------------------------------------------------------------------

LockTypeOK ==
  /\ pc \in [Procs -> Claiming \cup {"off", "owner", "refused", "gone"}]
  /\ file \in Procs \cup {Stale, Absent}
  /\ written \subseteq Procs \cup {Stale}
  /\ got \in [Procs -> Procs \cup {Stale, Absent}]
  /\ reused \subseteq {q \in Procs \cup {Stale} : Dead(q)}
  /\ raced \in BOOLEAN
  /\ misled \subseteq Procs

Owners == {p \in Procs : pc[p] = "owner"}

\* As long as no two daemons ever started at the same moment, at most one owns
\* the workDir, whatever dies or fails in between (acquireLock's refusal).
SoleOwner == ~raced => \A p, q \in Owners : p = q

\* Under the same condition the file on disk names the owner, so that the next
\* daemon is refused and the owner's release removes its own lock.
LockNamesOwner == ~raced => \A p \in Owners : file = p /\ p \in written

\* However many daemons race, not all of them are turned away: while no daemon
\* has died, stopped or failed to write, a refusal is due to an owner.  The one
\* exception is pidAlive's: a daemon that found the pid of a dead one in use.
SomebodyWins ==
  /\ \A p \in Procs : pc[p] \in {"off", "owner", "refused"}
  /\ \E p \in Procs : pc[p] = "refused" /\ p \notin misled
  => Owners # {}

\* A daemon that starts when no other one runs gets the workDir, whatever lock
\* its predecessor left: a lock that is empty, or names a pid nobody bears, is
\* taken over.  One whose pid some other process bears by now is not (misled).
TakenOver ==
  \A p \in Procs : pc[p] = "first" /\ (\A q \in Procs \ {p} : ~Running(q))
                     ~> pc[p] \in {"owner", "gone"} \/ raced \/ p \in misled
=============================================================================
