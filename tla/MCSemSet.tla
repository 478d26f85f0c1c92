------------------------------ MODULE MCSemSet -------------------------------
(* TLC instances of SemSet. *)
EXTENDS SemSet

CONSTANTS s1, s2, s3, c1
=============================================================================
