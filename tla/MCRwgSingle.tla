---------------------------- MODULE MCRwgSingle -----------------------------
(* TLC instances of RwgSingle. *)
EXTENDS RwgSingle
=============================================================================
