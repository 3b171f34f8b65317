------------------------------- MODULE MCApp -------------------------------
(* A small instance of App for TLC. *)
EXTENDS App
=============================================================================
