------------------------------ MODULE MCRwgShm ------------------------------
(* TLC instances of RwgShm: two slots, sessions as symmetric model values. *)
EXTENDS RwgShm, TLC

Sym == Permutations(Pids) \cup Permutations(Names)
=============================================================================
