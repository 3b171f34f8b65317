------------------------------- MODULE Vector -------------------------------
(***************************************************************************)
(* A std::vector of pointers that is changed under a walk: its block and   *)
(* the size in use, not just its contents.  A range-based loop takes       *)
(* begin() and end() once, so that it still reads the slots behind size,   *)
(* which keep what they held, and a block that the vector has left.        *)
(***************************************************************************)
EXTENDS FiniteSets, Naturals, Sequences

CONSTANT None  \* what a slot holds that nothing was put into

\* The vectors of members of S.
Vectors(S) == {r \in [block : Seq(S), size : Nat] : r.size <= Len(r.block)}

Empty == [block |-> <<>>, size |-> 0]

\* What a vector lists.
Entries(r) == {r.block[i] : i \in 1 .. r.size}

Full(r) == r.size = Len(r.block)

\* push_back(): in place while the block has room, else in a new block
\* of twice the size.
Push(r, e) ==
  [block |-> IF Full(r)
               THEN Append(r.block, e) \o [i \in 1 .. r.size - 1 |-> None]
               ELSE [r.block EXCEPT ![r.size + 1] = e],
   size |-> r.size + 1]

\* The n-th of a set of positions, from the first on.
Nth(P, n) == CHOOSE i \in P : Cardinality({j \in P : j <= i}) = n

\* The entries at kept move down to the front; what lies behind the new end
\* stays as it was.
Compact(r, kept) ==
  [block |-> [n \in DOMAIN r.block |->
                IF n <= Cardinality(kept) THEN r.block[Nth(kept, n)] ELSE r.block[n]],
   size |-> Cardinality(kept)]

\* Mutant of the erasure: a vector of one entry is left alone.
MutErase(r, e) ==
  IF r.size = 1 THEN r ELSE Compact(r, {i \in 1 .. r.size : r.block[i] # e})

\* std::erase_if.
Erase(r, e) == Compact(r, {i \in 1 .. r.size : r.block[i] # e})
=============================================================================
