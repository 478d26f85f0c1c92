----------------------------- MODULE SocksServer -----------------------------
(***************************************************************************)
(* socks_server.cpp for one client: the server accepts and forks, the      *)
(* child reads the request, asks the firewall, sets up a session, relays,  *)
(* and exits when its io_service has nothing to wait for; the server       *)
(* collects it.  Composes SocksFirewall and SocksRelay.  (SockServer has   *)
(* the accept loop of http_server.cpp; for several clients see HttpServer.)*)
(*                                                                         *)
(* Assumed of the client, as SOCKS4 says: its request arrives whole in one *)
(* read, and it sends nothing behind it before the server has read it.     *)
(* The server would drop such bytes: do_read takes up to 1024 at once, and *)
(* only the header is looked at.                                           *)
(***************************************************************************)
EXTENDS SocksRelay, SocksFirewall

VARIABLE child   \* "none" (client in the accept queue), "runs", "ended",
                 \* "collected"; "failed" when fork was impossible

svars == <<vars, firewall, child>>

SInit == Init /\ FirewallInit /\ child = "none"

-----------------------------------------------------------------------------
(* The server's process. *)
Fork ==
  /\ child = "none" /\ child' \in {"runs", "failed"}
  /\ UNCHANGED <<vars, firewall>>

Collect ==
  /\ child = "ended" /\ child' = "collected"
  /\ UNCHANGED <<vars, firewall>>

-----------------------------------------------------------------------------
(* The child.  The request is read whole, with nothing behind it. *)
Request ==
  /\ phase = "request" /\ Alive("in")
  /\ ReadRequest
  /\ UNCHANGED vars

(* What the handler does with the verdict; its locals are gone then. *)
Decide ==
  /\ \/ verdict = "permit" /\ cmd = "c" /\ Connect
     \/ verdict = "permit" /\ cmd = "b" /\ Bind
     \/ verdict = "reject" /\ Reject
  /\ lines' = <<>> /\ cmd' = "" /\ dst' = NoAddress /\ verdict' = "none"

(* run() returns when no operation is pending. *)
Dry == \/ phase = "done"
       \/ phase = "relay" /\ \A d \in Sides : op[d] = "idle"

Exit ==
  /\ Dry \/ verdict = "crash"
  /\ child' = "ended"
  /\ UNCHANGED <<vars, firewall>>

(* One handler at a time: the firewall's is over before another begins. *)
Session ==
  \/ SetupFails \/ Connected \/ Accepted \/ StartRelay
  \/ \E d \in Sides : Relay(d)

Child ==
  /\ child = "runs"
  /\ \/ Exit
     \/ (Request \/ Decide) /\ UNCHANGED child
     \/ Firewall /\ UNCHANGED <<vars, child>>
     \/ verdict = "none" /\ Session /\ UNCHANGED <<firewall, child>>

Peer(d) ==
  /\ child \in {"none", "runs"} /\ verdict = "none"
  /\ PeerSends(d) \/ PeerEnds(d)
  /\ UNCHANGED <<firewall, child>>

SNext == Fork \/ Collect \/ Child \/ \E d \in Sides : Peer(d)

(* The server accepts and collects, the io_service runs every handler that *)
(* is ready, a live peer reads, and a connection is made or fails.         *)
SSpec ==
  SInit /\ [][SNext]_svars
  /\ WF_svars(Fork) /\ WF_svars(Child) /\ WF_svars(Collect)

-----------------------------------------------------------------------------
(* PROPERTIES *)

STypeOK ==
  /\ TypeOK
  /\ child \in {"none", "runs", "ended", "collected", "failed"}
  /\ lines \in Seq(Rules \cup {Blank}) /\ Len(lines) <= MaxLines
  /\ cmd \in Commands \cup {""} /\ dst \in Addresses
  /\ verdict \in {"none", "reading", "permit", "reject", "crash"}

(* A session that was refused, or failed, or whose peers have both ended   *)
(* or reset their streams, leaves no operation pending whatever failed in  *)
(* between: its process ends and is collected.                             *)
Over == \/ phase = "done"
        \/ phase = "relay" /\ \A d \in Sides : fin[d] # "open"
SessionEnds == Over ~> child = "collected"
=============================================================================
