----------------------------- MODULE MCAtomic -----------------------------
(* A small instance of Atomic for TLC: a counter that wraps after Limit. *)
EXTENDS Atomic, Integers

CONSTANT Limit

MCValues == 0 .. Limit

Increment == [v \in MCValues |-> (v + 1) % (Limit + 1)]
Observe   == [v \in MCValues |-> v]
Reset     == [v \in MCValues |-> 0]

MCOperations == {Increment, Observe, Reset}
=============================================================================
