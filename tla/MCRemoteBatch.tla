---------------------------- MODULE MCRemoteBatch ----------------------------
(* TLC instances of RemoteBatch. *)
EXTENDS RemoteBatch

CONSTANTS b1, b2
MCForms == {<<>>, 0 :> 1, 0 :> 3, (0 :> 1 @@ 1 :> 0)}
=============================================================================
