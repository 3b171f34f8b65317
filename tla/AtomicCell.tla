---------------------------- MODULE AtomicCell ----------------------------
(***************************************************************************)
(* What Threaded::Atomic<T> promises: a cell whose every operation, a      *)
(* function from the old value to the new one, takes effect in one step    *)
(* between its call and its return, and answers the value it found.        *)
(* Assignment is a constant function, value() the identity, ++ and the     *)
(* compound assignments functions of the old value.                        *)
(***************************************************************************)
CONSTANTS
  Threads,
  Values,
  Operations,    \* functions from Values to Values
  InitialValue,
  NoAnswer

VARIABLES
  cell,      \* the value
  phase,     \* where each thread is: idle, called or done
  what,      \* the operation each thread called
  answer     \* the value found, while the thread is done

vars == <<cell, phase, what, answer>>

Init ==
  /\ cell = InitialValue
  /\ phase = [t \in Threads |-> "idle"]
  /\ what \in [Threads -> Operations]
  /\ answer = [t \in Threads |-> NoAnswer]

Call(t, f) ==
  /\ phase[t] = "idle"
  /\ phase' = [phase EXCEPT ![t] = "called"]
  /\ what' = [what EXCEPT ![t] = f]
  /\ UNCHANGED <<cell, answer>>

\* The one step in which the operation happens.
Apply(t) ==
  /\ phase[t] = "called"
  /\ phase' = [phase EXCEPT ![t] = "done"]
  /\ cell' = what[t][cell]
  /\ answer' = [answer EXCEPT ![t] = cell]
  /\ UNCHANGED what

\* The operation throws: it has no effect.
Throw(t) ==
  /\ phase[t] = "called"
  /\ phase' = [phase EXCEPT ![t] = "idle"]
  /\ UNCHANGED <<cell, what, answer>>

Return(t) ==
  /\ phase[t] = "done"
  /\ phase' = [phase EXCEPT ![t] = "idle"]
  /\ answer' = [answer EXCEPT ![t] = NoAnswer]
  /\ UNCHANGED <<cell, what>>

Next ==
  \E t \in Threads :
    \/ \E f \in Operations : Call(t, f)
    \/ Apply(t)
    \/ Throw(t)
    \/ Return(t)

Spec == Init /\ [][Next]_vars
=============================================================================
