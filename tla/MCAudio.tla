------------------------------ MODULE MCAudio ------------------------------
(* Small instances of Audio for TLC. *)
EXTENDS Audio
=============================================================================
