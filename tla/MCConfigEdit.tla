---------------------------- MODULE MCConfigEdit ----------------------------
(* Small instances of ConfigEdit for TLC. *)
EXTENDS ConfigEdit
=============================================================================
