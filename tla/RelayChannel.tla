---------------------------- MODULE RelayChannel ----------------------------
(***************************************************************************)
(* What a SOCKS relay promises its two peers: two independent byte         *)
(* streams.  Each side receives what the other sent, in order and without  *)
(* gaps, and sees the end of the stream only when it has received it all,  *)
(* unless a connection was reset.                                          *)
(*                                                                         *)
(* Stream d carries the bytes 1, 2, 3, ... that the peer at socket d sends *)
(* to the other socket.                                                    *)
(***************************************************************************)
EXTENDS Integers, Sequences

VARIABLES
  sent,  \* per stream: how many bytes its peer has sent
  fin,   \* per stream: "open", "fin" (orderly end) or "rst" (reset)
  dlv,   \* per stream: the bytes delivered to the other side
  eof    \* per stream: the other side was told that the stream ended

Sides == {"in", "out"}
Upto(n) == [k \in 1..n |-> k]

Init ==
  /\ sent = [d \in Sides |-> 0] /\ fin = [d \in Sides |-> "open"]
  /\ dlv = [d \in Sides |-> <<>>] /\ eof = [d \in Sides |-> FALSE]

Send(d) ==
  /\ fin[d] = "open"
  /\ sent' = [sent EXCEPT ![d] = @ + 1]
  /\ UNCHANGED <<fin, dlv, eof>>

End(d) ==
  /\ \/ fin[d] = "open" /\ fin' = [fin EXCEPT ![d] = "fin"]
     \/ fin[d] # "rst" /\ fin' = [fin EXCEPT ![d] = "rst"]
  /\ UNCHANGED <<sent, dlv, eof>>

Deliver(d) ==
  /\ ~eof[d]
  /\ \E n \in (Len(dlv[d]) + 1)..sent[d] : dlv' = [dlv EXCEPT ![d] = Upto(n)]
  /\ UNCHANGED <<sent, fin, eof>>

TellEnd(d) ==
  /\ \/ fin[d] = "fin" /\ Len(dlv[d]) = sent[d]
     \/ fin[d] = "rst"
  /\ eof' = [eof EXCEPT ![d] = TRUE]
  /\ UNCHANGED <<sent, fin, dlv>>

Next == \E d \in Sides : Send(d) \/ End(d) \/ Deliver(d) \/ TellEnd(d)

Spec == Init /\ [][Next]_<<sent, fin, dlv, eof>>
=============================================================================
