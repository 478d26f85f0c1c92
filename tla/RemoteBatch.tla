----------------------------- MODULE RemoteBatch -----------------------------
(***************************************************************************)
(* The remote batch system: browsers, one of the two HTTP servers, the     *)
(* sessions of the console pages, and the remote shells.                   *)
(***************************************************************************)
EXTENDS HttpServer, WinServer

vars == <<session, pages, children>>

Init == BatchInit /\ PagesInit /\ HttpInit

Browser(b) ==
  /\ Browse(b) \/ LeavePage(b)
  /\ UNCHANGED children

(* The handlers of a session run in the process of its page. *)
Running(k) == page[k[1]] = "console" /\ (Linux \/ Runs)

Session(k) ==
  /\ Running(k)
  /\ \/ Connected(k) \/ ConnectFails(k)
     \/ RequestSent(k) \/ Granted(k) \/ Refused(k)
     \/ Receive(k) \/ ReceiveEnds(k)
  /\ UNCHANGED <<pages, children>>

Answers(k) == ShellRuns(k) /\ UNCHANGED <<pages, children>>
Resets(k) == ShellDies(k) /\ UNCHANGED <<pages, children>>

WindowsServer(b) == Handler(b) /\ UNCHANGED children

(* The steps of the servers, the consoles and the shells. *)
System ==
  \/ Server
  \/ \E b \in Pages : PageProcess(b) \/ WindowsServer(b)
  \/ \E k \in Sessions : Session(k) \/ Answers(k)

Next ==
  \/ System
  \/ \E b \in Pages : Browser(b)
  \/ \E k \in Sessions : Resets(k)
  \/ KeyPressed /\ UNCHANGED children

Spec == Init /\ [][Next]_vars

(* Some handler, program or shell that can take a step does; connections   *)
(* are made or fail.  Browsers, resets and keys are left to themselves.    *)
FairSpec == Spec /\ WF_vars(System)

-----------------------------------------------------------------------------
(* PROPERTIES *)

TypeOK ==
  /\ BatchTypeOK /\ PagesTypeOK
  /\ zombies \subseteq Pages /\ sigchld \in BOOLEAN

(* A session that has a shell sends it the whole file, unless the first    *)
(* prompt went with the SOCKS reply.                                       *)
Unsent(k) == Running(k) /\ shell[k] = "up" /\ sent[k] < file[k]
FileIsSent == []<>(\A k \in Sessions : Unsent(k) => k \in swallowed)

(* A browser sees the end of its page: the connection is closed when the   *)
(* page is shown or all its shells have ended, unless the Windows server   *)
(* waits for a key.                                                        *)
Closed(b) == page[b] = "over" /\ \A d \in fds : d[2] # b
Finished(b) ==
  \/ page[b] \in {"queued", "reading"} /\ request[b] \in {"panel", "missing"}
  \/ page[b] \in {"panel", "over"}
  \/ /\ page[b] = "console"
     /\ \A k \in Of(b) : shell[k] = "gone" \/ at[k] \in {"none", "over"}
PageEnds ==
  []<>(server = "paused" \/ \A b \in Pages : Finished(b) => Closed(b))

(* Every process that has ended is collected, also when several end and    *)
(* only one signal is left of theirs.                                      *)
Reaped == []<>(zombies = {})

(* A page loses running sessions only by its own browser or by one of its  *)
(* own shells; on Windows any browser or shell stops all pages, but        *)
(* nothing else does.                                                      *)
Undisturbed ==
  [][\A b \in Pages :
       /\ page[b] = "console" /\ page'[b] # "console" /\ server # "paused"
            => \/ \A k \in Of(b) : at[k] \in {"none", "over"}
               \/ browser[b] = "gone"
               \/ \E k \in Of(b) : shell[k] = "gone"
       /\ server' = "paused" /\ server # "paused"
            => \/ \E c \in Pages : browser[c] = "gone"
               \/ \E k \in Sessions : shell[k] = "gone"]_vars
=============================================================================
