----------------------------- MODULE MCRwgPipes -----------------------------
(* TLC instances of RwgPipes. *)
EXTENDS RwgPipes
=============================================================================
