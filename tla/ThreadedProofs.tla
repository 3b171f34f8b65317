--------------------------- MODULE ThreadedProofs ---------------------------
(***************************************************************************)
(* Proofs about Atomic, for any set of threads, any set of values and any  *)
(* set of operations on them, and about Mutex, for any set of threads.     *)
(***************************************************************************)
EXTENDS Atomic, Mutex, FiniteSetTheorems, TLAPS

-----------------------------------------------------------------------------
(* Atomic *)

\* The lock is held whenever a thread is inside, no two threads are inside,
\* and the copy a thread works on is still the value when it writes it back.
InsideLocked == \A t \in Inside : locked

SeenIsCurrent == \A t \in Threads : pc[t] = "store" => seen[t] = data

AtomicIInv ==
  /\ AtomicTypeOK
  /\ InsideLocked
  /\ MutualExclusion
  /\ SeenIsCurrent

-----------------------------------------------------------------------------

\* Every variable of the spin lock keeps its type.
THEOREM AtomicTypeCorrect == AtomicSpec => []AtomicTypeOK
<1>1. AtomicInit => AtomicTypeOK
  BY InitialAssumption DEF AtomicInit, AtomicTypeOK, AtomicPlaces
<1>2. AtomicTypeOK /\ [AtomicNext]_atomicVars => AtomicTypeOK'
  <2> SUFFICES ASSUME AtomicTypeOK, [AtomicNext]_atomicVars
               PROVE  AtomicTypeOK'
    OBVIOUS
  <2> USE DEF AtomicTypeOK, AtomicPlaces, Go, ThreadsAt
  <2>1. ASSUME NEW t \in Threads, NEW f \in Operations, Call(t, f)
        PROVE  AtomicTypeOK'
    BY <2>1 DEF Call
  <2>2. ASSUME NEW t \in Threads, SeeFree(t)
        PROVE  AtomicTypeOK'
    BY <2>2 DEF SeeFree
  <2>3. ASSUME NEW t \in Threads, TestAndSet(t)
        PROVE  AtomicTypeOK'
    BY <2>3 DEF TestAndSet
  <2>4. ASSUME NEW t \in Threads, Load(t)
        PROVE  AtomicTypeOK'
    BY <2>4 DEF Load
  <2>5. ASSUME NEW t \in Threads, Throw(t)
        PROVE  AtomicTypeOK'
    BY <2>5 DEF Throw
  <2>6. ASSUME NEW t \in Threads, Store(t)
        PROVE  AtomicTypeOK'
    <3>1. op[t] \in [Values -> Values]
      BY OperationsAssumption
    <3>2. op[t][seen[t]] \in Values
      BY <3>1
    <3> QED
      BY <2>6, <3>2 DEF Store
  <2>7. ASSUME NEW t \in Threads, ReleaseLock(t)
        PROVE  AtomicTypeOK'
    BY <2>7 DEF ReleaseLock
  <2>8. CASE UNCHANGED atomicVars
    BY <2>8 DEF atomicVars
  <2> QED
    BY <2>1, <2>2, <2>3, <2>4, <2>5, <2>6, <2>7, <2>8 DEF AtomicNext, AtomicStep
<1>3. QED
  BY <1>1, <1>2, PTL DEF AtomicSpec

\* The strengthened invariant holds in every reachable state.
LEMMA AtomicInvariance == AtomicSpec => []AtomicIInv
<1>1. AtomicInit => AtomicIInv
  BY InitialAssumption
  DEF AtomicInit, AtomicIInv, AtomicTypeOK, AtomicPlaces, InsideLocked, MutualExclusion,
      SeenIsCurrent, Inside, ThreadsAt
<1>2. AtomicTypeOK /\ AtomicTypeOK' /\ AtomicIInv /\ [AtomicNext]_atomicVars => AtomicIInv'
  <2> SUFFICES ASSUME AtomicTypeOK, AtomicTypeOK', AtomicIInv, [AtomicNext]_atomicVars
               PROVE  InsideLocked' /\ MutualExclusion' /\ SeenIsCurrent'
    BY DEF AtomicIInv
  <2> USE DEF AtomicTypeOK, AtomicPlaces, AtomicIInv, InsideLocked, MutualExclusion,
              SeenIsCurrent, Inside, Go, ThreadsAt
  <2>1. ASSUME NEW t \in Threads, NEW f \in Operations, Call(t, f)
        PROVE  InsideLocked' /\ MutualExclusion' /\ SeenIsCurrent'
    BY <2>1 DEF Call
  <2>2. ASSUME NEW t \in Threads, SeeFree(t)
        PROVE  InsideLocked' /\ MutualExclusion' /\ SeenIsCurrent'
    BY <2>2 DEF SeeFree
  <2>3. ASSUME NEW t \in Threads, TestAndSet(t)
        PROVE  InsideLocked' /\ MutualExclusion' /\ SeenIsCurrent'
    BY <2>3 DEF TestAndSet
  <2>4. ASSUME NEW t \in Threads, Load(t)
        PROVE  InsideLocked' /\ MutualExclusion' /\ SeenIsCurrent'
    BY <2>4 DEF Load
  <2>5. ASSUME NEW t \in Threads, Throw(t)
        PROVE  InsideLocked' /\ MutualExclusion' /\ SeenIsCurrent'
    BY <2>5 DEF Throw
  <2>6. ASSUME NEW t \in Threads, Store(t)
        PROVE  InsideLocked' /\ MutualExclusion' /\ SeenIsCurrent'
    BY <2>6 DEF Store
  <2>7. ASSUME NEW t \in Threads, ReleaseLock(t)
        PROVE  InsideLocked' /\ MutualExclusion' /\ SeenIsCurrent'
    BY <2>7 DEF ReleaseLock
  <2>8. CASE UNCHANGED atomicVars
    BY <2>8 DEF atomicVars
  <2> QED
    BY <2>1, <2>2, <2>3, <2>4, <2>5, <2>6, <2>7, <2>8 DEF AtomicNext, AtomicStep
<1>3. QED
  BY <1>1, <1>2, AtomicTypeCorrect, PTL DEF AtomicSpec

\* Two threads are never between capture() and release() of the same Atomic.
THEOREM AtomicExclusion == AtomicSpec => []MutualExclusion
<1>1. AtomicIInv => MutualExclusion
  BY DEF AtomicIInv
<1>2. QED
  BY <1>1, AtomicInvariance, PTL

\* The spin lock implements the atomic cell: each operation takes effect in
\* one step, between its call and its return.
THEOREM AtomicRefinement == AtomicSpec => ImplementsCell
<1>1. AtomicInit => Cell!Init
  BY DEF AtomicInit, PhaseAt, Cell!Init
<1>2. AtomicIInv /\ [AtomicNext]_atomicVars => [Cell!Next]_Cell!vars
  <2> SUFFICES ASSUME AtomicIInv, [AtomicNext]_atomicVars
               PROVE  [Cell!Next]_Cell!vars
    OBVIOUS
  <2> USE DEF AtomicIInv, AtomicTypeOK, AtomicPlaces, Go, ThreadsAt, PhaseAt, Cell!vars,
              Cell!Next
  <2>1. ASSUME NEW t \in Threads, NEW f \in Operations, Call(t, f)
        PROVE  [Cell!Next]_Cell!vars
    <3>1. Cell!Call(t, f)
      BY <2>1 DEF Call, Cell!Call
    <3> QED
      BY <3>1
  <2>2. ASSUME NEW t \in Threads, SeeFree(t)
        PROVE  [Cell!Next]_Cell!vars
    BY <2>2 DEF SeeFree
  <2>3. ASSUME NEW t \in Threads, TestAndSet(t)
        PROVE  [Cell!Next]_Cell!vars
    BY <2>3 DEF TestAndSet
  <2>4. ASSUME NEW t \in Threads, Load(t)
        PROVE  [Cell!Next]_Cell!vars
    BY <2>4 DEF Load
  <2>5. ASSUME NEW t \in Threads, Throw(t)
        PROVE  [Cell!Next]_Cell!vars
    <3>1. Cell!Throw(t)
      BY <2>5 DEF Throw, Cell!Throw
    <3> QED
      BY <3>1
  <2>6. ASSUME NEW t \in Threads, Store(t)
        PROVE  [Cell!Next]_Cell!vars
    <3>1. seen[t] = data
      BY <2>6 DEF Store, SeenIsCurrent
    <3>2. Cell!Apply(t)
      BY <2>6, <3>1 DEF Store, Cell!Apply
    <3> QED
      BY <3>2
  <2>7. ASSUME NEW t \in Threads, ReleaseLock(t)
        PROVE  [Cell!Next]_Cell!vars
    <3>1. Cell!Return(t)
      BY <2>7 DEF ReleaseLock, Cell!Return
    <3> QED
      BY <3>1
  <2>8. CASE UNCHANGED atomicVars
    BY <2>8 DEF atomicVars
  <2> QED
    BY <2>1, <2>2, <2>3, <2>4, <2>5, <2>6, <2>7, <2>8 DEF AtomicNext, AtomicStep
<1>3. QED
  BY <1>1, <1>2, AtomicInvariance, PTL DEF AtomicSpec, ImplementsCell, Cell!Spec

-----------------------------------------------------------------------------
(* Mutex *)

\* A thread inside tryCapture() that found itself the owner still holds the
\* mutex: only its own release() ends that.
ReclaimHolds == \A t \in Threads : pc[t] = "reclaim" => t \in holds

IInv ==
  /\ OwnerReleases
  /\ OwnerNeverWaits
  /\ ReclaimHolds

\* Every variable of the Mutex keeps its type, whatever its threads call.
THEOREM TypeCorrect == Spec => []TypeOK
<1>1. Init => TypeOK
  BY DEF Init, TypeOK, Places
<1>2. TypeOK /\ [Next]_vars => TypeOK'
  <2> SUFFICES ASSUME TypeOK, [Next]_vars PROVE TypeOK'
    OBVIOUS
  <2> USE DEF TypeOK, Go, ThreadsAt, Places, Capturing, Releasing
  <2>1. ASSUME NEW t \in Threads, Capture(t) PROVE TypeOK'
    BY <2>1 DEF Capture
  <2>2. ASSUME NEW t \in Threads, TryCapture(t) PROVE TypeOK'
    BY <2>2 DEF TryCapture
  <2>3. ASSUME NEW t \in Threads, Release(t) PROVE TypeOK'
    BY <2>3 DEF Release
  <2>4. ASSUME NEW t \in Threads, BoxCall(t) PROVE TypeOK'
    BY <2>4 DEF BoxCall
  <2>5. ASSUME NEW t \in Threads, ThreadStep(t) PROVE TypeOK'
    <3>1. CASE CheckOwner(t)  BY <3>1 DEF CheckOwner
    <3>2. CASE WaitEntry(t)  BY <3>2 DEF WaitEntry
    <3>3. CASE WaitOver(t)  BY <3>3 DEF WaitOver
    <3>4. CASE Claim(t)  BY <3>4 DEF Claim
    <3>5. CASE TryOwner(t)  BY <3>5 DEF TryOwner
    <3>6. CASE Reclaim(t)  BY <3>6 DEF Reclaim
    <3>7. CASE ReleaseOwner(t)  BY <3>7 DEF ReleaseOwner
    <3>8. CASE Clear(t)  BY <3>8 DEF Clear
    <3>9. CASE BoxCheck(t)  BY <3>9 DEF BoxCheck
    <3>10. CASE BoxWaitOver(t)  BY <3>10 DEF BoxWaitOver
    <3>11. CASE Access(t)  BY <3>11 DEF Access
    <3> QED
      BY <2>5, <3>1, <3>2, <3>3, <3>4, <3>5, <3>6, <3>7, <3>8, <3>9, <3>10, <3>11
      DEF ThreadStep
  <2>6. CASE UNCHANGED vars
    BY <2>6 DEF vars
  <2> QED
    BY <2>1, <2>2, <2>3, <2>4, <2>5, <2>6 DEF Next
<1> QED
  BY <1>1, <1>2, PTL DEF Spec

-----------------------------------------------------------------------------

\* The steps of the member functions preserve the inductive invariant.  An
\* owner comes to be by Claim or Reclaim, both of a thread with a release() to
\* come; it begins to wait only where it has read that it is not the owner,
\* and until it is through only its own steps make it one.
LEMMA ThreadStepPreserves ==
  ASSUME TypeOK, IInv, NEW t \in Threads, ThreadStep(t)
  PROVE  IInv'
<1> USE NoneAssumption
    DEF IInv, OwnerReleases, OwnerNeverWaits, ReclaimHolds, IsCaptured,
        IsCurrentOwner, Releasing, TypeOK, Go, ThreadsAt
<1>1. CASE CheckOwner(t)  BY <1>1 DEF CheckOwner
<1>2. CASE WaitEntry(t)  BY <1>2 DEF WaitEntry
<1>3. CASE WaitOver(t)  BY <1>3 DEF WaitOver
<1>4. CASE Claim(t)  BY <1>4 DEF Claim
<1>5. CASE TryOwner(t)  BY <1>5 DEF TryOwner
<1>6. CASE Reclaim(t)  BY <1>6 DEF Reclaim
<1>7. CASE ReleaseOwner(t)  BY <1>7 DEF ReleaseOwner
<1>8. CASE Clear(t)  BY <1>8 DEF Clear
<1>9. CASE BoxCheck(t)  BY <1>9 DEF BoxCheck
<1>10. CASE BoxWaitOver(t)  BY <1>10 DEF BoxWaitOver
<1>11. CASE Access(t)  BY <1>11 DEF Access
<1> QED
  BY <1>1, <1>2, <1>3, <1>4, <1>5, <1>6, <1>7, <1>8, <1>9, <1>10, <1>11
  DEF ThreadStep

\* The inductive invariant holds of every reachable state.
THEOREM Invariance == Spec => []IInv
<1>1. Init => IInv
  BY DEF Init, IInv, OwnerReleases, OwnerNeverWaits, ReclaimHolds, IsCaptured
<1>2. TypeOK /\ IInv /\ [Next]_vars => IInv'
  <2> SUFFICES ASSUME TypeOK, IInv, [Next]_vars PROVE IInv'
    OBVIOUS
  <2> USE NoneAssumption
      DEF IInv, OwnerReleases, OwnerNeverWaits, ReclaimHolds, IsCaptured,
          Releasing, TypeOK, Go, ThreadsAt
  <2>1. ASSUME NEW t \in Threads, Capture(t) PROVE IInv'
    BY <2>1 DEF Capture
  <2>2. ASSUME NEW t \in Threads, TryCapture(t) PROVE IInv'
    BY <2>2 DEF TryCapture
  <2>3. ASSUME NEW t \in Threads, Release(t) PROVE IInv'
    BY <2>3 DEF Release
  <2>4. ASSUME NEW t \in Threads, BoxCall(t) PROVE IInv'
    BY <2>4 DEF BoxCall
  <2>5. ASSUME NEW t \in Threads, ThreadStep(t) PROVE IInv'
    BY <2>5, ThreadStepPreserves
  <2>6. CASE UNCHANGED vars
    BY <2>6 DEF vars
  <2> QED
    BY <2>1, <2>2, <2>3, <2>4, <2>5, <2>6 DEF Next
<1> QED
  BY <1>1, <1>2, TypeCorrect, PTL DEF Spec

\* The mutex is never captured by a thread that will not release it: the
\* recorded owner still holds it or is on its way out of release().
THEOREM OwnersRelease == Spec => []OwnerReleases
<1>1. IInv => OwnerReleases
  BY DEF IInv
<1> QED
  BY <1>1, Invariance, PTL

\* No thread waits for a mutex of which it is the owner.
THEOREM OwnersNeverWait == Spec => []OwnerNeverWaits
<1>1. IInv => OwnerNeverWaits
  BY DEF IInv
<1> QED
  BY <1>1, Invariance, PTL

-----------------------------------------------------------------------------

\* As long as no capture() overlapped, the thread inside capture() is alone
\* with the mutex, whoever holds it is its recorded owner, a thread about to
\* claim it finds no other holder, and one about to clear it is the owner.
Serialised ==
  ~overlapped =>
    /\ \A t, u \in Threads :
         t # u /\ pc[t] \in Capturing => pc[u] \notin Capturing \cup Releasing
    /\ \A t \in holds : current = t
    /\ \A t \in Threads : pc[t] = "claim" => holds \subseteq {t}
    /\ \A t \in Threads : pc[t] = "clear" => current = t
    /\ \A t \in Threads : pc[t] \in Releasing => t \notin holds

\* The steps of the member functions keep the threads serialised.
LEMMA ThreadStepSerialises ==
  ASSUME TypeOK, IInv, Serialised, NEW t \in Threads, ThreadStep(t)
  PROVE  Serialised'
<1> USE NoneAssumption
    DEF Serialised, IInv, ReclaimHolds, IsCaptured, IsCurrentOwner, Capturing,
        Releasing, TypeOK, Go, ThreadsAt
<1>1. CASE CheckOwner(t)  BY <1>1 DEF CheckOwner
<1>2. CASE WaitEntry(t)  BY <1>2 DEF WaitEntry
<1>3. CASE WaitOver(t)  BY <1>3 DEF WaitOver
<1>4. CASE Claim(t)  BY <1>4 DEF Claim
<1>5. CASE TryOwner(t)  BY <1>5 DEF TryOwner
<1>6. CASE Reclaim(t)  BY <1>6 DEF Reclaim
<1>7. CASE ReleaseOwner(t)  BY <1>7 DEF ReleaseOwner
<1>8. CASE Clear(t)  BY <1>8 DEF Clear
<1>9. CASE BoxCheck(t)  BY <1>9 DEF BoxCheck
<1>10. CASE BoxWaitOver(t)  BY <1>10 DEF BoxWaitOver
<1>11. CASE Access(t)  BY <1>11 DEF Access
<1> QED
  BY <1>1, <1>2, <1>3, <1>4, <1>5, <1>6, <1>7, <1>8, <1>9, <1>10, <1>11
  DEF ThreadStep

\* The threads are serialised in every reachable state.
LEMMA StaysSerialised == Spec => []Serialised
<1>1. Init => Serialised
  BY DEF Init, Serialised, Capturing, Releasing
<1>2. TypeOK /\ IInv /\ Serialised /\ [Next]_vars => Serialised'
  <2> SUFFICES ASSUME TypeOK, IInv, Serialised, [Next]_vars PROVE Serialised'
    OBVIOUS
  <2> USE DEF Serialised, Capturing, Releasing, TypeOK, Go, ThreadsAt
  <2>1. ASSUME NEW t \in Threads, Capture(t) PROVE Serialised'
    BY <2>1 DEF Capture
  <2>2. ASSUME NEW t \in Threads, TryCapture(t) PROVE Serialised'
    BY <2>2 DEF TryCapture
  <2>3. ASSUME NEW t \in Threads, Release(t) PROVE Serialised'
    <3>1. /\ pc[t] = "idle"
          /\ pc' = [u \in Threads |-> IF u = t THEN "release" ELSE pc[u]]
          /\ holds' = holds \ {t} /\ current' = current
      BY <2>3 DEF Release
    <3>2. SUFFICES ASSUME ~overlapped' PROVE Serialised'
      OBVIOUS
    <3>3. ~overlapped /\ \A u \in Threads \ {t} : pc[u] \notin Capturing
      BY <2>3, <3>2 DEF Release
    <3> QED
      BY <3>1, <3>3
  <2>4. ASSUME NEW t \in Threads, BoxCall(t) PROVE Serialised'
    BY <2>4 DEF BoxCall
  <2>5. ASSUME NEW t \in Threads, ThreadStep(t) PROVE Serialised'
    BY <2>5, ThreadStepSerialises
  <2>6. CASE UNCHANGED vars
    BY <2>6 DEF vars
  <2> QED
    BY <2>1, <2>2, <2>3, <2>4, <2>5, <2>6 DEF Next
<1> QED
  BY <1>1, <1>2, TypeCorrect, Invariance, PTL DEF Spec

\* The Mutex excludes as long as no capture() overlaps with another one or
\* with a release(): what its callers have to see to themselves.
THEOREM ExcludesWhenSerialised == Spec => []ExclusiveUnlessOverlapped
<1>1. Serialised => ExclusiveUnlessOverlapped
  <2> SUFFICES ASSUME Serialised, ~overlapped PROVE Cardinality(holds) <= 1
    BY DEF ExclusiveUnlessOverlapped
  <2>1. holds = {} \/ holds = {current}
    BY DEF Serialised
  <2>2. Cardinality({}) = 0 /\ Cardinality({current}) = 1
    BY FS_EmptySet, FS_Singleton, Zenon
  <2>3. Cardinality(holds) \in {0, 1}
    BY <2>1, <2>2
  <2> QED
    BY <2>3
<1> QED
  BY <1>1, StaysSerialised, PTL
=============================================================================
