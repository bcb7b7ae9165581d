--------------------------- MODULE SlotPoolProofs ---------------------------
(***************************************************************************)
(* What the pool promises, for every set of issues and runs and any number *)
(* of slots.                                                               *)
(***************************************************************************)
EXTENDS SlotPool, FiniteSetTheorems, TLAPS

IInv ==
  /\ PoolTypeOK
  /\ Exclusive
  /\ IsFiniteSet(Busy)
  /\ Cardinality(Busy) <= Slots
  /\ status # "up" => Busy = {}

LEMMA InitIInv ==
  ASSUME PoolAssumption, Init
  PROVE  IInv
  <1>1. Busy = {}
    BY DEF Init, Busy
  <1> QED BY <1>1, FS_EmptySet DEF PoolAssumption, Init, IInv, PoolTypeOK, Exclusive

\* A run begins in a process that is up, on an issue no other run holds.
LEMMA BeginIInv ==
  ASSUME PoolAssumption, IInv, NEW r \in Runs, NEW i \in Issues, Begin(r, i)
  PROVE  IInv'
  <1>1. Busy' = Busy \cup {r} /\ r \notin Busy
    BY DEF PoolAssumption, IInv, PoolTypeOK, Begin, Busy
  <1>2. Cardinality(Busy) <= Cardinality(Held) /\ IsFiniteSet(Held)
    <2> DEFINE f == [s \in Busy |-> at[s]]
    <2>1. f \in Injection(Busy, Held) /\ f \in Surjection(Busy, Held)
      BY DEF IInv, Exclusive, Held, Injection, IsInjective, Surjection
    <2>2. IsFiniteSet(Held)
      BY <2>1, FS_Surjection DEF IInv
    <2> QED BY <2>1, <2>2, FS_Injection
  <1>3. IsFiniteSet(Busy') /\ Cardinality(Busy') = Cardinality(Busy) + 1
    BY <1>1, FS_AddElement DEF IInv
  <1>4. Cardinality(Busy') <= Slots
    BY <1>2, <1>3, FS_CardinalityType DEF PoolAssumption, IInv, Begin
  <1>5. PoolTypeOK' /\ Exclusive'
    BY <1>1 DEF IInv, PoolTypeOK, Exclusive, Begin, Held, Busy
  <1> QED BY <1>3, <1>4, <1>5 DEF IInv, Begin

\* A run ends.
LEMMA EndIInv ==
  ASSUME PoolAssumption, IInv, NEW r \in Runs, End(r)
  PROVE  IInv'
  <1>1. Busy' = Busy \ {r} /\ r \in Busy
    BY DEF IInv, PoolTypeOK, End, Busy
  <1>2. IsFiniteSet(Busy') /\ Cardinality(Busy') = Cardinality(Busy) - 1
    BY <1>1, FS_RemoveElement DEF IInv
  <1>3. Cardinality(Busy') <= Slots
    BY <1>2, FS_CardinalityType DEF PoolAssumption, IInv
  <1>4. PoolTypeOK' /\ Exclusive'
    BY <1>1 DEF IInv, PoolTypeOK, Exclusive, End, Busy
  <1> QED BY <1>1, <1>2, <1>3, <1>4 DEF IInv, End

LEMMA NextIInv ==
  ASSUME PoolAssumption, IInv, [Next]_vars
  PROVE  IInv'
  <1>1. CASE Exit \/ Restart \/ UNCHANGED vars
    <2>1. UNCHANGED Busy /\ UNCHANGED at
      BY <1>1 DEF Exit, Restart, vars, Busy
    <2> QED BY <1>1, <2>1 DEF IInv, PoolTypeOK, Exclusive, Exit, Restart, vars
  <1>2. CASE Die
    <2>1. Busy' = {}
      BY <1>2 DEF Die, Busy
    <2> QED BY <1>2, <2>1, FS_EmptySet DEF PoolAssumption, IInv, PoolTypeOK, Exclusive, Die
  <1> QED BY <1>1, <1>2, BeginIInv, EndIInv DEF Next

\* In the pool no issue is held twice.
THEOREM PoolExclusive ==
  ASSUME PoolAssumption
  PROVE  Spec => []Exclusive
  <1>1. IInv => Exclusive
    BY DEF IInv
  <1>2. Init => IInv
    BY InitIInv
  <1>3. IInv /\ [Next]_vars => IInv'
    BY NextIInv
  <1> QED BY <1>1, <1>2, <1>3, PTL DEF Spec

\* The pool never holds more runs than slots.
THEOREM PoolBounded ==
  ASSUME PoolAssumption
  PROVE  Spec => []Bounded
  <1>1. IInv => Bounded
    BY DEF IInv, Bounded
  <1>2. Init => IInv
    BY InitIInv
  <1>3. IInv /\ [Next]_vars => IInv'
    BY NextIInv
  <1> QED BY <1>1, <1>2, <1>3, PTL DEF Spec

\* A process that has left in order leaves an empty pool.
THEOREM PoolEmptyAtExit ==
  ASSUME PoolAssumption
  PROVE  Spec => []EmptyAtExit
  <1>1. IInv => EmptyAtExit
    BY DEF IInv, EmptyAtExit
  <1>2. Init => IInv
    BY InitIInv
  <1>3. IInv /\ [Next]_vars => IInv'
    BY NextIInv
  <1> QED BY <1>1, <1>2, <1>3, PTL DEF Spec
=============================================================================
