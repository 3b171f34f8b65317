------------------------------ MODULE MCFrame ------------------------------
(* Small instances of Frame for TLC. *)
EXTENDS Frame

MCLayers == {0, 1}
=============================================================================
