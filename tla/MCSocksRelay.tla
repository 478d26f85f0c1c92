---------------------------- MODULE MCSocksRelay ----------------------------
(* TLC instances of SocksRelay. *)
EXTENDS SocksRelay
=============================================================================
