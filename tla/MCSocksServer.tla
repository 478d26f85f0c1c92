---------------------------- MODULE MCSocksServer ----------------------------
(* TLC instances of SocksServer. *)
EXTENDS SocksServer
=============================================================================
