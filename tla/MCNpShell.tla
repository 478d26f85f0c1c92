----------------------------- MODULE MCNpShell ------------------------------
(* TLC instances of NpShell. *)
EXTENDS NpShell
=============================================================================
