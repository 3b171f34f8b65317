----------------------------- MODULE Threaded -----------------------------
(***************************************************************************)
(* The threads of namespace Threaded (ctl/legacy/threaddata.hpp): each one *)
(* is at some place of the member function that it runs.                   *)
(***************************************************************************)
CONSTANT Threads

VARIABLE pc   \* where each thread is in a member function

\* The threads that are at one of the given places.
ThreadsAt(places) == {t \in Threads : pc[t] \in places}

\* The thread t was at the place here and is now at the place there: every
\* other thread stays where it is.
Go(t, here, there) ==
  /\ t \in ThreadsAt({here})
  /\ pc' = [u \in Threads |-> IF u = t THEN there ELSE pc[u]]
=============================================================================
