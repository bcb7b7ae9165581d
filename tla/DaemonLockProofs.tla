-------------------------- MODULE DaemonLockProofs --------------------------
(***************************************************************************)
(* SoleOwner, LockNamesOwner and SomebodyWins for every number of daemons.  *)
(* The inductive invariant of the first two says, of starts that never      *)
(* overlapped, what a daemon on its way through acquireLock already knows   *)
(* of the others; that of the third, Traces, what a refusal shows.          *)
(***************************************************************************)
EXTENDS DaemonLock, TLAPS

\* A daemon past its look at the file has no owner beside it, one that probes
\* a pid probes the owner's, one that writes has its own file at the path.
Knows(p) ==
  /\ pc[p] \in {"remove", "second", "write"} => Owners = {}
  /\ pc[p] = "probe" => \A q \in Owners : got[p] = q
  /\ pc[p] = "write" => file = p

IInv ==
  /\ LockTypeOK
  /\ ~raced => /\ \A p, q \in Procs : pc[p] \in Claiming /\ pc[q] \in Claiming => p = q
               /\ \A p \in Owners : file = p /\ p \in written
               /\ \A p \in Procs : Knows(p)

LEMMA InitIInv == Init => IInv
  BY LockAssumption DEF Init, IInv, LockTypeOK, Claiming, Owners, Knows

\* Every step keeps the types.
LEMMA NextType ==
  ASSUME LockTypeOK, NEW p \in Procs,
         Begin(p) \/ Acquire(p) \/ Release(p) \/ Die(p)
  PROVE  LockTypeOK'
  <1> USE LockAssumption DEF LockTypeOK, Claiming, Goto, Dead
  <1>1. CASE Begin(p)
    BY <1>1 DEF Begin
  <1>2. CASE Claim(p)
    BY <1>2 DEF Claim
  <1>3. CASE Write(p)
    BY <1>3 DEF Write
  <1>4. CASE Read(p)
    BY <1>4 DEF Read
  <1>5. CASE Probe(p)
    BY <1>5 DEF Probe
  <1>6. CASE Remove(p)
    BY <1>6 DEF Remove
  <1>7. CASE Release(p)
    BY <1>7 DEF Release
  <1>8. CASE Die(p)
    BY <1>8 DEF Die, Running
  <1> QED BY <1>1, <1>2, <1>3, <1>4, <1>5, <1>6, <1>7, <1>8 DEF Acquire

\* A pid that is given away, or freed, is a dead daemon's.
LEMMA OthersType == LockTypeOK /\ Others => LockTypeOK'
  BY DEF LockTypeOK, Others, Reuse, Vacate, Dead

LEMMA NextIInv == IInv /\ [Next]_vars => IInv'
  <1> SUFFICES ASSUME IInv, [Next]_vars PROVE IInv'
    OBVIOUS
  <1>1. CASE UNCHANGED vars
    BY <1>1 DEF IInv, vars, LockTypeOK, Owners, Knows, Dead
  <1>2. ASSUME NEW p \in Procs, Begin(p) \/ Acquire(p) \/ Release(p) \/ Die(p)
        PROVE  IInv'
    <2>1. LockTypeOK'
      BY <1>2, NextType DEF IInv
    <2>2. CASE raced'
      BY <2>1, <2>2 DEF IInv
    <2>3. CASE ~raced'
      <3> USE DEF IInv, LockTypeOK, Claiming, Owners, Knows, Goto
      <3>1. CASE Begin(p)
        BY <2>1, <2>3, <3>1 DEF Begin
      <3>2. CASE Claim(p)
        <4>1. CASE file = Absent
          <5>1. Owners = {}
            BY <2>3, <3>2, <4>1, LockAssumption DEF Claim
          <5> QED BY <2>1, <2>3, <3>2, <4>1, <5>1 DEF Claim
        <4>2. CASE file # Absent
          BY <2>1, <2>3, <3>2, <4>2 DEF Claim
        <4> QED BY <4>1, <4>2
      <3>3. CASE Write(p)
        BY <2>1, <2>3, <3>3 DEF Write
      <3>4. CASE Read(p)
        BY <2>1, <2>3, <3>4 DEF Read
      <3>5. CASE Probe(p)
        BY <2>1, <2>3, <3>5 DEF Probe, PidAlive, Running
      <3>6. CASE Remove(p)
        BY <2>1, <2>3, <3>6 DEF Remove
      <3>7. CASE Release(p)
        BY <2>1, <2>3, <3>7 DEF Release
      <3>8. CASE Die(p)
        BY <2>1, <2>3, <3>8 DEF Die, Running
      <3> QED BY <1>2, <3>1, <3>2, <3>3, <3>4, <3>5, <3>6, <3>7, <3>8 DEF Acquire
    <2> QED BY <2>2, <2>3
  <1>3. CASE Others
    BY <1>3, OthersType DEF Others, IInv, Owners, Knows
  <1> QED BY <1>1, <1>2, <1>3 DEF Next

\* Daemons whose starts never overlap exclude each other, through any deaths.
THEOREM OwnerIsSole == Spec => []SoleOwner
  <1>1. IInv => SoleOwner
    BY DEF IInv, SoleOwner
  <1> QED BY InitIInv, NextIInv, <1>1, PTL DEF Spec

\* The lock file of an owner whose start nobody disturbed names it.
THEOREM LockIsOwners == Spec => []LockNamesOwner
  <1>1. IInv => LockNamesOwner
    BY DEF IInv, LockNamesOwner
  <1> QED BY InitIInv, NextIInv, <1>1, PTL DEF Spec

-----------------------------------------------------------------------------
(* Somebody wins: here nothing is said of when the daemons start. *)

\* A daemon that holds the lock, is about to or did.
Won(q) == pc[q] \in {"write", "owner", "gone"}

\* A file at the path is a winner's or the stale one, and the stale one is gone
\* once somebody has removed it; a refusal is due to a winner, or to a pid that a
\* process bears which is no daemon.
Traces ==
  /\ \A q \in Procs : q \in written => pc[q] \in {"owner", "gone"}
  /\ file \in Procs => Won(file)
  /\ \A p \in Procs : /\ pc[p] = "second" => file # Stale
                      /\ pc[p] = "probe" => got[p] \in written
                      /\ pc[p] = "refused" => p \in misled \/ \E q \in Procs : Won(q)

LEMMA InitTraces == Init => LockTypeOK /\ Traces
  BY LockAssumption DEF Init, LockTypeOK, Traces, Claiming

\* Nobody who has won loses that, and nobody is refused but by a winner or misled.
LEMMA NextTraces ==
  ASSUME LockTypeOK, Traces, NEW p \in Procs,
         Begin(p) \/ Acquire(p) \/ Release(p) \/ Die(p)
  PROVE  Traces'
  <1> USE DEF LockTypeOK, Traces, Claiming, Won, Goto
  <1>1. ASSUME NEW q \in Procs, Won(q) PROVE Won(q)'
    BY <1>1 DEF Begin, Acquire, Claim, Write, Read, Probe, Remove, Release, Die
  <1>2. CASE Begin(p)
    BY <1>1, <1>2 DEF Begin
  <1>3. CASE Claim(p)
    <2>1. CASE file = Absent
      BY <1>1, <1>3, <2>1, LockAssumption DEF Claim
    <2>2. CASE file # Absent
      <3>1. pc[p] = "second" => Won(file) /\ file \in Procs
        BY <1>3, <2>2
      <3> QED BY <1>1, <1>3, <2>2, <3>1 DEF Claim
    <2> QED BY <2>1, <2>2
  <1>4. CASE Write(p)
    BY <1>1, <1>4 DEF Write
  <1>5. CASE Read(p)
    BY <1>1, <1>5 DEF Read
  <1>6. CASE Probe(p)
    <2>1. Running(got[p]) => got[p] \in Procs /\ Won(got[p])
      BY <1>6 DEF Probe, Running
    <2>2. pc'[p] = "refused" => p \in misled' \/ Running(got[p])
      BY <1>6 DEF Probe
    <2> QED BY <1>1, <1>6, <2>1, <2>2 DEF Probe
  <1>7. CASE Remove(p)
    BY <1>1, <1>7, LockAssumption DEF Remove
  <1>8. CASE Release(p)
    BY <1>1, <1>8, LockAssumption DEF Release
  <1>9. CASE Die(p)
    BY <1>1, <1>9 DEF Die, Running
  <1> QED BY <1>2, <1>3, <1>4, <1>5, <1>6, <1>7, <1>8, <1>9 DEF Acquire

\* Daemons that race are not all turned away, however many they are, unless the
\* pid in the lock they found is borne by a process that is none of them.
THEOREM OneWins == Spec => []SomebodyWins
  <1>1. LockTypeOK /\ Traces /\ [Next]_vars => (LockTypeOK /\ Traces)'
    <2>1. UNCHANGED vars /\ LockTypeOK /\ Traces => (LockTypeOK /\ Traces)'
      BY DEF vars, LockTypeOK, Traces, Won, Dead
    <2>2. Others /\ LockTypeOK /\ Traces => (LockTypeOK /\ Traces)'
      BY OthersType DEF Others, Traces, Won
    <2> QED BY <2>1, <2>2, NextType, NextTraces DEF Next
  <1>2. LockTypeOK /\ Traces => SomebodyWins
    BY DEF Traces, Won, SomebodyWins, Owners
  <1> QED BY InitTraces, <1>1, <1>2, PTL DEF Spec
=============================================================================
