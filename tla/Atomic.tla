------------------------------ MODULE Atomic ------------------------------
(***************************************************************************)
(* Threaded::Atomic<T> of ctl/legacy/threaddata.hpp (CTL::Atomic of the    *)
(* new CTL is the same algorithm): a value behind a test-and-test-and-set  *)
(* spin lock.  Every public operation captures the lock, reads the value,  *)
(* writes it back and releases the lock; nothing releases the lock when    *)
(* the operation in between throws.                                        *)
(***************************************************************************)
EXTENDS FiniteSets, Threaded

CONSTANTS
  Values,
  Operations,     \* functions from Values to Values
  InitialValue,
  NoAnswer

ASSUME OperationsAssumption == Operations \subseteq [Values -> Values]
ASSUME InitialAssumption == InitialValue \in Values

VARIABLES
  locked,   \* volatile bool locked
  data,     \* T data
  op,       \* the operation each thread runs
  seen,     \* the copy of data each thread works on
  leaked    \* history: an operation threw between capture() and release()

atomicVars == <<locked, data, pc, op, seen, leaked>>

AtomicPlaces == {"idle", "spin", "grab", "operate", "store", "leave"}

AtomicTypeOK ==
  /\ locked \in BOOLEAN
  /\ data \in Values
  /\ pc \in [Threads -> AtomicPlaces]
  /\ op \in [Threads -> Operations]
  /\ seen \in [Threads -> Values]
  /\ leaked \in BOOLEAN

AtomicInit ==
  /\ locked = FALSE
  /\ data = InitialValue
  /\ pc = [t \in Threads |-> "idle"]
  /\ op \in [Threads -> Operations]
  /\ seen = [t \in Threads |-> InitialValue]
  /\ leaked = FALSE

-----------------------------------------------------------------------------

\* operator=, modify(), value(), ++, += ...: the call of capture().
Call(t, f) ==
  /\ Go(t, "idle", "spin")
  /\ op' = [op EXCEPT ![t] = f]
  /\ UNCHANGED <<locked, data, seen, leaked>>

\* acquireLock(): the inner loop ends when getLock() reads FALSE.
SeeFree(t) ==
  /\ ~locked
  /\ Go(t, "spin", "grab")
  /\ UNCHANGED <<locked, data, op, seen, leaked>>

\* Mutant of acquireLock(): the answer of the test-and-set is not looked at.
MutTestAndSet(t) ==
  /\ Go(t, "grab", "operate")
  /\ locked' = TRUE
  /\ UNCHANGED <<data, op, seen, leaked>>

\* acquireLock(): __atomic_test_and_set, and the outer loop on its answer.
TestAndSet(t) ==
  /\ Go(t, "grab", IF locked THEN "spin" ELSE "operate")
  /\ locked' = TRUE
  /\ UNCHANGED <<data, op, seen, leaked>>

\* The operation reads data.
Load(t) ==
  /\ Go(t, "operate", "store")
  /\ seen' = [seen EXCEPT ![t] = data]
  /\ UNCHANGED <<locked, data, op, leaked>>

\* The operation throws: the exception leaves the member function between
\* capture() and release().
Throw(t) ==
  /\ Go(t, "store", "idle")
  /\ leaked' = TRUE
  /\ UNCHANGED <<locked, data, op, seen>>

\* The operation writes data.
Store(t) ==
  /\ Go(t, "store", "leave")
  /\ data' = op[t][seen[t]]
  /\ UNCHANGED <<locked, op, seen, leaked>>

\* Mutant of releaseLock(): the flag is not cleared.
MutReleaseLock(t) ==
  /\ Go(t, "leave", "idle")
  /\ UNCHANGED <<locked, data, op, seen, leaked>>

\* releaseLock(): __atomic_clear.
ReleaseLock(t) ==
  /\ Go(t, "leave", "idle")
  /\ locked' = FALSE
  /\ UNCHANGED <<data, op, seen, leaked>>

AtomicStep(t) ==
  \/ SeeFree(t)
  \/ TestAndSet(t)
  \/ Load(t)
  \/ Store(t)
  \/ ReleaseLock(t)

AtomicNext ==
  \E t \in Threads :
    \/ \E f \in Operations : Call(t, f)
    \/ AtomicStep(t)
    \/ Throw(t)

\* A thread that is inside an operation keeps running.
AtomicFairness == \A t \in Threads : WF_atomicVars(AtomicStep(t))

AtomicSpec == AtomicInit /\ [][AtomicNext]_atomicVars

FairAtomicSpec == AtomicSpec /\ AtomicFairness

-----------------------------------------------------------------------------
(* Properties *)

\* The threads between capture() and release().
Inside == ThreadsAt({"operate", "store", "leave"})

\* Two threads are never between capture() and release() at once
\* (threaddata.hpp, acquireLock).
MutualExclusion == \A t, u \in Inside : t = u

\* While threads wait for the lock, one of them gets it: they never all spin
\* for ever, unless an operation that threw left the lock behind.
LockIsTaken ==
  (\E t \in Threads : pc[t] \in {"spin", "grab"}) ~> (Inside # {} \/ leaked)

\* Where a thread at the given place is in its operation on the cell.
PhaseAt(place) ==
  IF place = "idle" THEN "idle" ELSE IF place = "leave" THEN "done" ELSE "called"

\* The atomic cell seen through the lock: an operation happens at its Store.
Cell ==
  INSTANCE AtomicCell WITH
    cell <- data,
    what <- op,
    phase <- [t \in Threads |-> PhaseAt(pc[t])],
    answer <- [t \in Threads |-> IF pc[t] = "leave" THEN seen[t] ELSE NoAnswer]

\* Every operation takes effect in one step: no update is lost and no answer
\* is stale, however the threads interleave.
ImplementsCell == Cell!Spec
=============================================================================
