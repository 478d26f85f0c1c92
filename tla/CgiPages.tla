------------------------------ MODULE CgiPages ------------------------------
(***************************************************************************)
(* What the two HTTP servers share: browsers that connect, ask for one     *)
(* page and may leave at any moment, and the connections, each kept open   *)
(* by the processes that hold a descriptor of it.                          *)
(***************************************************************************)
EXTENDS BatchSession

(* A page names the process that serves it. *)
ASSUME PagesAssumption ==
  Pages \cap {"ready", "paused", "ended", "server"} = {}

VARIABLES
  server,    \* "ready" to run the next handler; a page: it has forked that
             \* page's process and still holds its socket; "paused": run()
             \* has thrown and the process waits for a key; "ended"
  browser,   \* "away", "here", "gone"
  request,   \* what it has sent and nobody has read; "" for nothing
  page,      \* "none", "queued" (not accepted yet), "reading", "panel",
             \* "console", "over"
  fds        \* <<process, page>>: the process has that page's socket open

pages == <<server, browser, request, page, fds>>

Requests == {"panel", "console", "missing", ""}

PagesInit ==
  /\ server = "ready"
  /\ browser = [b \in Pages |-> "away"] /\ page = [b \in Pages |-> "none"]
  /\ request = [b \in Pages |-> ""]
  /\ fds = {}

(* A page is read for, shown or over: its request is not there any more. *)
Turn(b, p) ==
  /\ page' = [page EXCEPT ![b] = p]
  /\ request' = IF p = "reading" THEN request ELSE [request EXCEPT ![b] = ""]

(* Mutant: a page is done with its first session. *)
SessionsOver_Any(b) ==
  \/ \E k \in Of(b) : at[k] = "over"
  \/ \A k \in Of(b) : at[k] = "none"

(* run() of a console, and the page's socket, wait for all its sessions. *)
SessionsOver(b) == \A k \in Of(b) : at[k] \in {"none", "over"}

-----------------------------------------------------------------------------
(* Browsers. *)
Browse(b) ==
  /\ browser[b] = "away" /\ server \notin {"paused", "ended"}
  /\ browser' = [browser EXCEPT ![b] = "here"]
  /\ page' = [page EXCEPT ![b] = "queued"]
  /\ \E r \in Requests : request' = [request EXCEPT ![b] = r]
  /\ UNCHANGED <<session, server, fds>>

LeavePage(b) ==
  /\ browser[b] = "here" /\ page[b] # "over"
  /\ browser' = [browser EXCEPT ![b] = "gone"]
  /\ UNCHANGED <<session, server, request, page, fds>>

-----------------------------------------------------------------------------
PagesTypeOK ==
  /\ server \in {"ready", "paused", "ended"} \cup Pages
  /\ browser \in [Pages -> {"away", "here", "gone"}]
  /\ request \in [Pages -> Requests]
  /\ page \in [Pages ->
       {"none", "queued", "reading", "panel", "console", "over"}]
  /\ fds \subseteq (Pages \cup {"server"}) \X Pages
=============================================================================
