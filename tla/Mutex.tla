------------------------------- MODULE Mutex -------------------------------
(***************************************************************************)
(* Threaded::Mutex of ctl/legacy/threaddata.hpp, with the ScopeLock that   *)
(* captures and releases it and the Box that waits for it.                 *)
(*                                                                         *)
(* The Mutex keeps its owner in an Atomic<Nullable<Thread::id>>.  Module   *)
(* Atomic shows that each operation of an Atomic takes effect in one step, *)
(* so a read or a write of current is one step here; but capture() and     *)
(* release() are a read followed by a write, and other threads run in      *)
(* between.                                                                *)
(***************************************************************************)
EXTENDS FiniteSets, Naturals, Threaded

CONSTANT
  None      \* the null Nullable<Thread::id>

ASSUME NoneAssumption == None \notin Threads

VARIABLES
  current,     \* Atomic<Nullable<Thread::id>> current
  holds,       \* threads whose last capture() returned and was not released
  overlapped   \* history: two threads were inside capture() at once, or a
               \* capture() ran while another thread was inside release()

vars == <<current, pc, holds, overlapped>>

\* capture() is at "capture" (its own isCurrentOwner), "check" and "wait"
\* (those of wait()) and "claim"; wait() called by itself at "boxCheck",
\* "boxWait" and, once it returned to a member of Box, "access".
Capturing == {"capture", "check", "wait", "claim"}
Releasing == {"release", "clear"}
Places == {"idle", "try", "reclaim", "boxCheck", "boxWait", "access"}
            \cup Capturing \cup Releasing

TypeOK ==
  /\ current \in Threads \cup {None}
  /\ pc \in [Threads -> Places]
  /\ holds \subseteq Threads
  /\ overlapped \in BOOLEAN

Init ==
  /\ current = None
  /\ pc = [t \in Threads |-> "idle"]
  /\ holds = {}
  /\ overlapped = FALSE

IsCaptured == current # None

IsCurrentOwner(t) == current = t

-----------------------------------------------------------------------------
(* capture(), and the constructor of ScopeLock *)

Capture(t) ==
  /\ Go(t, "idle", "capture")
  /\ overlapped' = (overlapped \/ ThreadsAt(Capturing \cup Releasing) \ {t} # {})
  /\ UNCHANGED <<current, holds>>

CheckOwner(t) ==
  /\ Go(t, "capture", IF IsCurrentOwner(t) THEN "claim" ELSE "check")
  /\ UNCHANGED <<current, holds, overlapped>>

WaitEntry(t) ==
  /\ Go(t, "check", IF IsCurrentOwner(t) THEN "claim" ELSE "wait")
  /\ UNCHANGED <<current, holds, overlapped>>

\* Mutant of wait(): the loop is an if, and one yield is enough.
MutWaitOver(t) ==
  /\ Go(t, "wait", "claim")
  /\ UNCHANGED <<current, holds, overlapped>>

\* wait(): the loop ends when isCaptured() reads FALSE.
WaitOver(t) ==
  /\ ~IsCaptured
  /\ Go(t, "wait", "claim")
  /\ UNCHANGED <<current, holds, overlapped>>

\* current = thisThread, whatever current is by now.
Claim(t) ==
  /\ Go(t, "claim", "idle")
  /\ current' = t
  /\ holds' = holds \cup {t}
  /\ UNCHANGED overlapped

-----------------------------------------------------------------------------
(* tryCapture() *)

TryCapture(t) ==
  /\ Go(t, "idle", "try")
  /\ UNCHANGED <<current, holds, overlapped>>

\* Mutant of tryCapture(): a captured mutex is what it takes.
MutTryOwner(t) ==
  /\ Go(t, "try", IF IsCaptured THEN "reclaim" ELSE "idle")
  /\ UNCHANGED <<current, holds, overlapped>>

\* It answers FALSE unless the caller is the owner already.
TryOwner(t) ==
  /\ Go(t, "try", IF IsCurrentOwner(t) THEN "reclaim" ELSE "idle")
  /\ UNCHANGED <<current, holds, overlapped>>

Reclaim(t) ==
  /\ Go(t, "reclaim", "idle")
  /\ current' = t
  /\ UNCHANGED <<holds, overlapped>>

-----------------------------------------------------------------------------
(* release(), and the destructor of ScopeLock *)

Release(t) ==
  /\ Go(t, "idle", "release")
  /\ holds' = holds \ {t}
  /\ overlapped' = (overlapped \/ ThreadsAt(Capturing) \ {t} # {})
  /\ UNCHANGED current

\* Mutant of release(): the test of the owner is inverted.
MutReleaseOwner(t) ==
  /\ Go(t, "release", IF IsCurrentOwner(t) THEN "idle" ELSE "clear")
  /\ UNCHANGED <<current, holds, overlapped>>

ReleaseOwner(t) ==
  /\ Go(t, "release", IF IsCurrentOwner(t) THEN "clear" ELSE "idle")
  /\ UNCHANGED <<current, holds, overlapped>>

Clear(t) ==
  /\ Go(t, "clear", "idle")
  /\ current' = None
  /\ UNCHANGED <<holds, overlapped>>

-----------------------------------------------------------------------------
(* Box: every member calls wait() and then uses the value *)

BoxCall(t) ==
  /\ Go(t, "idle", "boxCheck")
  /\ UNCHANGED <<current, holds, overlapped>>

BoxCheck(t) ==
  /\ Go(t, "boxCheck", IF IsCurrentOwner(t) THEN "access" ELSE "boxWait")
  /\ UNCHANGED <<current, holds, overlapped>>

BoxWaitOver(t) ==
  /\ ~IsCaptured
  /\ Go(t, "boxWait", "access")
  /\ UNCHANGED <<current, holds, overlapped>>

Access(t) ==
  /\ Go(t, "access", "idle")
  /\ UNCHANGED <<current, holds, overlapped>>

-----------------------------------------------------------------------------

\* A step of a member function that was called.
ThreadStep(t) ==
  \/ CheckOwner(t)
  \/ WaitEntry(t)
  \/ WaitOver(t)
  \/ Claim(t)
  \/ TryOwner(t)
  \/ Reclaim(t)
  \/ ReleaseOwner(t)
  \/ Clear(t)
  \/ BoxCheck(t)
  \/ BoxWaitOver(t)
  \/ Access(t)

Next ==
  \E t \in Threads :
    \/ Capture(t)
    \/ TryCapture(t)
    \/ Release(t)
    \/ BoxCall(t)
    \/ ThreadStep(t)

\* A member function that was called keeps running, and whoever holds the
\* mutex releases it in the end (the end of the scope of its ScopeLock),
\* whatever else it calls before.
Fairness ==
  \A t \in Threads :
    /\ WF_vars(ThreadStep(t))
    /\ SF_vars(t \in holds /\ Release(t))

Spec == Init /\ [][Next]_vars

FairSpec == Spec /\ Fairness

-----------------------------------------------------------------------------
(* Properties *)

\* The recorded owner is a thread that still has to release the mutex: the
\* mutex is never left captured with nobody to release it.
OwnerReleases ==
  IsCaptured => current \in holds \/ pc[current] \in Releasing

\* The owner never waits for its own mutex: capture() and the members of Box
\* let it through.
OwnerNeverWaits == \A t \in Threads : pc[t] \in {"wait", "boxWait"} => current # t

\* Two threads hold the mutex at once only after two of them were inside
\* capture() together or a capture() met a release(): serialised by something
\* else, the Mutex excludes.  Under contention it does not, since the read of
\* wait() and the write of capture() are two steps.
ExclusiveUnlessOverlapped == ~overlapped => Cardinality(holds) <= 1

\* A mutex somebody waits for becomes free.
FreedForWaiters ==
  (\E t \in Threads : pc[t] = "wait") ~>
    (~IsCaptured \/ \A t \in Threads : pc[t] # "wait")
=============================================================================
