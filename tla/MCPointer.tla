----------------------------- MODULE MCPointer -----------------------------
(* Small instances of Pointer for TLC. *)
EXTENDS Pointer, TLC

\* Strong pointers, weak pointers and addresses are interchangeable.
Symmetry ==
  Permutations(Strong) \cup Permutations(Weak) \cup Permutations(Addresses)
=============================================================================
