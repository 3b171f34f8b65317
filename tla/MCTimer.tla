------------------------------ MODULE MCTimer ------------------------------
(* Small instances of Timer for TLC. *)
EXTENDS Timer

\* loopCount: no end, none left, one left.
SomeLoops == {-1, 0, 1}

OnlyForever == {-1}
=============================================================================
