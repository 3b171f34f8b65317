------------------------------ MODULE MCTween ------------------------------
(* Small instances of Tween for TLC. *)
EXTENDS Tween
=============================================================================
