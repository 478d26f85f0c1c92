----------------------------- MODULE SocksRelay -----------------------------
(***************************************************************************)
(* One forked process of socks_server.cpp: it reads a SOCKS4 request, lets *)
(* the firewall decide, connects to the destination (HttpSession) or       *)
(* listens and accepts it (BindSession), replies, and relays bytes both    *)
(* ways until both directions have ended.  HttpSession and BindSession     *)
(* relay with the same handlers.                                           *)
(*                                                                         *)
(* Everything runs in completion handlers of one io_service; each pending  *)
(* asynchronous operation is one variable here, each handler one action.   *)
(* The bytes the peer of socket d sends are 1, 2, 3, ...                   *)
(***************************************************************************)
EXTENDS Integers, Sequences

CONSTANTS
  BufLen,       \* max_length, 1024 in the code
  MaxBytes      \* bytes each peer sends; a bound for TLC only

ASSUME RelayAssumption == BufLen \in Nat \ {0} /\ MaxBytes \in Nat

Sides == {"in", "out"}            \* the client's socket and the other one
Other(d) == IF d = "in" THEN "out" ELSE "in"

Granted == 90
Rejected == 91
Junk == 0                         \* whatever freed memory holds

VARIABLES
  phase,   \* the handler the session waits for before relaying
  mode,    \* CD: "c" connect, "b" bind, "" before the request
  replies, \* second byte of each reply sent to the client
  op,      \* per direction: pending operation, "idle" if none
  data,    \* per direction: the bytes of the last read, from the start of
           \* the buffer
  todo,    \* per direction: r_length of the pending send
  rd,      \* per direction: bytes read so far
  flag,    \* flag1, flag2: the direction saw the end of its stream
  closed,  \* both sockets were closed by a handler
  partial, \* async_send sometimes accepts only a part of the buffer
  (* the peers *)
  sent, fin, dlv

ops   == <<op, data, todo, rd, flag, closed, partial>>
peers == <<sent, fin>>
vars  == <<phase, mode, replies, ops, peers, dlv>>

Phases == {"request", "connect", "reply", "accept", "reply2", "relay", "done"}

Init ==
  /\ phase = "request" /\ mode = "" /\ replies = <<>>
  /\ op = [d \in Sides |-> "idle"]
  /\ data = [d \in Sides |-> <<>>]
  /\ todo = [d \in Sides |-> 0] /\ rd = todo
  /\ flag = [d \in Sides |-> FALSE]
  /\ closed = FALSE
  /\ partial \in BOOLEAN
  /\ sent = todo
  /\ fin = [d \in Sides |-> "open"]
  /\ dlv = data

-----------------------------------------------------------------------------
(* The set-up. *)
Goto(p) == phase' = p
Reply(r) == replies' = Append(replies, r)
Alive(d) == fin[d] # "rst"

(* The first socks_server message decides.  A request that is neither      *)
(* connect nor bind has an empty CD, which no rule permits.                *)
Reject ==
  /\ phase = "request" /\ Alive("in")
  /\ Reply(Rejected) /\ Goto("done")
  /\ UNCHANGED <<mode, ops, peers, dlv>>

(* Connect mode; with destination 0.0.0.0 it stops without a reply.        *)
Connect ==
  /\ phase = "request" /\ Alive("in")
  /\ mode' = "c"
  /\ Goto("connect") \/ Goto("done")
  /\ UNCHANGED <<replies, ops, peers, dlv>>

(* Bind mode: the acceptor is opened and the first reply sent from the     *)
(* same handler, while the reply still exists.                             *)
Bind ==
  /\ phase = "request" /\ Alive("in")
  /\ mode' = "b" /\ Reply(Granted) /\ Goto("accept")
  /\ UNCHANGED <<ops, peers, dlv>>

(* Every error before the relay drops the session: no reply is sent.       *)
SetupFails ==
  /\ \/ phase \in {"request", "reply", "reply2"} /\ ~Alive("in")
     \/ phase \in {"connect", "accept"}
  /\ Goto("done")
  /\ UNCHANGED <<mode, replies, ops, peers, dlv>>

Connected ==
  /\ phase = "connect" /\ Goto("reply")
  /\ UNCHANGED <<mode, replies, ops, peers, dlv>>

Accepted ==
  /\ phase = "accept" /\ Goto("reply2")
  /\ UNCHANGED <<mode, replies, ops, peers, dlv>>

(* The buffer of this reply belonged to the SockSession, which is gone by  *)
(* now: the bytes sent are read from freed memory.                         *)
StartRelay ==
  /\ phase \in {"reply", "reply2"} /\ Alive("in")
  /\ \E r \in {Granted, Junk} : Reply(r)
  /\ op' = [d \in Sides |-> "read"]
  /\ Goto("relay")
  /\ UNCHANGED <<mode, data, todo, rd, flag, closed, partial, peers, dlv>>

-----------------------------------------------------------------------------
(* The relay, direction d: from socket d to socket Other(d). *)

(* in_do_read / out_do_read, success. *)
ReadSome(d) ==
  /\ op[d] = "read" /\ Alive(d)
  /\ \E n \in 1..BufLen :
       /\ rd[d] + n <= sent[d]
       /\ data' = [data EXCEPT ![d] = [k \in 1..n |-> rd[d] + k]]
       /\ todo' = [todo EXCEPT ![d] = n]
       /\ rd' = [rd EXCEPT ![d] = @ + n]
  /\ op' = [op EXCEPT ![d] = "write"]
  /\ UNCHANGED <<phase, mode, replies, flag, closed, partial, peers, dlv>>

(* Mutant: the first direction to end closes both sockets. *)
ReadEnds_Hasty(d) ==
  /\ op[d] = "read"
  /\ (fin[d] = "fin" /\ rd[d] = sent[d]) \/ fin[d] = "rst"
  /\ flag' = [e \in Sides |-> TRUE]
  /\ op' = [e \in Sides |-> "idle"]
  /\ closed' = TRUE
  /\ UNCHANGED <<phase, mode, replies, data, todo, rd, partial, peers, dlv>>

(* Mutant: a reset is not taken for an end. *)
ReadEnds_Deaf(d) ==
  /\ op[d] = "read"
  /\ fin[d] = "fin" /\ rd[d] = sent[d]
  /\ flag' = [flag EXCEPT ![d] = TRUE]
  /\ op' = [op EXCEPT ![d] = "idle"]
  /\ closed' = flag[Other(d)]
  /\ UNCHANGED <<phase, mode, replies, data, todo, rd, partial, peers, dlv>>

(* The same, failed: end of stream or reset.  Socket d is shut for         *)
(* receiving, the other one for sending; the second direction to end       *)
(* closes both.                                                            *)
ReadEnds(d) ==
  /\ op[d] = "read"
  /\ (fin[d] = "fin" /\ rd[d] = sent[d]) \/ fin[d] = "rst"
  /\ flag' = [flag EXCEPT ![d] = TRUE]
  /\ op' = [op EXCEPT ![d] = "idle"]
  /\ closed' = flag[Other(d)]
  /\ UNCHANGED <<phase, mode, replies, data, todo, rd, partial, peers, dlv>>

(* Mutant: the rest after a partial send is forgotten. *)
SendSome_Drop(d) ==
  /\ op[d] = "write" /\ Alive(Other(d))
  /\ \E n \in 1..todo[d] :
       /\ partial \/ n = todo[d]
       /\ dlv' = [dlv EXCEPT ![d] = @ \o SubSeq(data[d], 1, n)]
       /\ todo' = [todo EXCEPT ![d] = 0]
       /\ op' = [op EXCEPT ![d] = "read"]
  /\ UNCHANGED <<phase, mode, replies, data, rd, flag, closed, partial, peers>>

(* Mutant: the rest is counted from the size of the buffer. *)
SendSome_Capacity(d) ==
  /\ op[d] = "write" /\ Alive(Other(d))
  /\ \E n \in 1..todo[d] :
       /\ partial \/ n = todo[d]
       /\ dlv' = [dlv EXCEPT ![d] = @ \o SubSeq(data[d], 1, n)]
       /\ todo' = [todo EXCEPT ![d] = @ - BufLen]
       /\ op' = [op EXCEPT ![d] = IF n < todo[d] THEN "write" ELSE "read"]
  /\ UNCHANGED <<phase, mode, replies, data, rd, flag, closed, partial, peers>>

(* Mutant: a send that completes sends the buffer a second time. *)
SendSome_Twice(d) ==
  /\ op[d] = "write" /\ Alive(Other(d))
  /\ dlv' = [dlv EXCEPT ![d] = @ \o data[d]]
  /\ todo' = [todo EXCEPT ![d] = IF @ = Len(data[d]) THEN @ - 1 ELSE 0]
  /\ op' = [op EXCEPT ![d] = IF todo'[d] > 0 THEN "write" ELSE "read"]
  /\ UNCHANGED <<phase, mode, replies, data, rd, flag, closed, partial, peers>>

(* in_do_write / out_do_write, success.  After a partial send the call is  *)
(* repeated with the remaining length, but from the start of the buffer.   *)
SendSome(d) ==
  /\ op[d] = "write" /\ Alive(Other(d))
  /\ \E n \in 1..todo[d] :
       /\ partial \/ n = todo[d]
       /\ dlv' = [dlv EXCEPT ![d] = @ \o SubSeq(data[d], 1, n)]
       /\ todo' = [todo EXCEPT ![d] = @ - n]
       /\ op' = [op EXCEPT ![d] = IF n < todo[d] THEN "write" ELSE "read"]
  /\ UNCHANGED <<phase, mode, replies, data, rd, flag, closed, partial, peers>>

(* The same, failed: the direction just stops, nothing is closed. *)
SendFails(d) ==
  /\ op[d] = "write" /\ ~Alive(Other(d))
  /\ op' = [op EXCEPT ![d] = "idle"]
  /\ UNCHANGED <<phase, mode, replies, data, todo, rd, flag, closed, partial, peers, dlv>>

-----------------------------------------------------------------------------
(* The peers.  The client sends nothing behind its request before that was *)
(* read: the server would drop it with the rest of its buffer.             *)
PeerSends(d) ==
  /\ fin[d] = "open" /\ sent[d] < MaxBytes
  /\ IF d = "in" THEN phase # "request"
     ELSE phase \in {"relay", "reply", "reply2"}
  /\ sent' = [sent EXCEPT ![d] = @ + 1]
  /\ UNCHANGED <<phase, mode, replies, ops, fin, dlv>>

PeerEnds(d) ==
  /\ d = "out" => phase = "relay" \/ phase = "reply" \/ phase = "reply2"
  /\ \/ fin[d] = "open" /\ fin' = [fin EXCEPT ![d] = "fin"]
     \/ fin[d] # "rst" /\ fin' = [fin EXCEPT ![d] = "rst"]
  /\ UNCHANGED <<phase, mode, replies, ops, sent, dlv>>

Setup == Reject \/ Connect \/ Bind \/ SetupFails \/ Connected \/ Accepted
         \/ StartRelay
Relay(d) == ReadSome(d) \/ ReadEnds(d) \/ SendSome(d) \/ SendFails(d)

Next == Setup \/ \E d \in Sides : Relay(d) \/ PeerSends(d) \/ PeerEnds(d)

Spec == Init /\ [][Next]_vars

-----------------------------------------------------------------------------
(* PROPERTIES *)

TypeOK ==
  /\ phase \in Phases /\ mode \in {"", "c", "b"}
  /\ replies \in Seq({Granted, Rejected, Junk})
  /\ op \in [Sides -> {"idle", "read", "write"}]
  /\ data \in [Sides -> Seq(Nat)] /\ dlv \in [Sides -> Seq(Nat)]
  /\ todo \in [Sides -> Nat] /\ rd \in [Sides -> Nat] /\ sent \in [Sides -> Nat]
  /\ flag \in [Sides -> BOOLEAN] /\ closed \in BOOLEAN
  /\ partial \in BOOLEAN
  /\ fin \in [Sides -> {"open", "fin", "rst"}]

(* No byte is added or lost in number, however a send is split: what was   *)
(* read from a socket is delivered or still to be sent.                    *)
BytesCounted ==
  \A d \in Sides : Len(dlv[d]) + todo[d] = rd[d] /\ rd[d] <= sent[d]

(* The other side is told the end of a stream only when its last byte was  *)
(* delivered, unless the stream was reset; and the sockets are closed only *)
(* when both directions have come to their end, so that no close cuts off  *)
(* bytes of the slower direction.                                          *)
EndAfterData ==
  /\ \A d \in Sides : flag[d] =>
        op[d] = "idle" /\ (fin[d] = "fin" => Len(dlv[d]) = sent[d])
  /\ closed => \A d \in Sides : flag[d]

(* The relay implements two ordered byte streams while the kernel takes    *)
(* every buffer whole.  When it does not, the bytes that arrive are other  *)
(* ones (StreamIntact), but as many as the streams promise, and the end is *)
(* told no earlier: there the mapping keeps their number only.             *)
Arrived == IF partial THEN [d \in Sides |-> [k \in 1..Len(dlv[d]) |-> k]] ELSE dlv
Channel == INSTANCE RelayChannel WITH eof <- flag, dlv <- Arrived
ImplementsChannel == Channel!Spec

-----------------------------------------------------------------------------
(* What the repository says and the code does not do. *)

(* README.md:21: in connect mode the server relays: what arrives is what   *)
(* was sent.                                                               *)
StreamIntact ==
  \A d \in Sides, k \in 1..MaxBytes : k <= Len(dlv[d]) => dlv[d][k] = k

=============================================================================
