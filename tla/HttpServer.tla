----------------------------- MODULE HttpServer ------------------------------
(***************************************************************************)
(* http_server.cpp and the CGI programs it runs, on Linux: a process per   *)
(* connection, which reads one request and becomes panel.cgi or            *)
(* console.cgi; the server closes its copy of the socket and collects the  *)
(* processes that have ended.                                              *)
(***************************************************************************)
EXTENDS CgiPages

VARIABLES
  zombies,   \* pages whose process has ended and is not collected
  sigchld    \* a SIGCHLD is pending; of several only one is kept

children == <<zombies, sigchld>>

Linux == version = "linux"

HttpInit == zombies = {} /\ sigchld = FALSE

(* A page's process ends and with it its sessions, by return, exec'd       *)
(* program, signal or uncaught exception.                                  *)
ProcessEnds(b) ==
  /\ Turn(b, "over")
  /\ fds' = {d \in fds : d[1] # b}
  /\ Close(Of(b))
  /\ zombies' = zombies \cup {b} /\ sigchld' = TRUE
  /\ UNCHANGED <<server, browser>>

-----------------------------------------------------------------------------
(* The server's process. *)

(* do_accept: the child gets a copy of every socket the server has.        *)
Fork(b) ==
  /\ Linux /\ server = "ready" /\ page[b] = "queued"
  /\ server' = b /\ Turn(b, "reading")
  /\ LET open == fds \cup {<<"server", b>>}
     IN fds' = open \cup {<<b, d[2]>> : d \in {e \in open : e[1] = "server"}}
  /\ UNCHANGED <<session, browser, children>>

(* fork returns -1, and the branch of the parent closes the only copy. *)
ForkFails(b) ==
  /\ Linux /\ server = "ready" /\ page[b] = "queued"
  /\ Turn(b, "over")
  /\ UNCHANGED <<session, server, browser, fds, children>>

(* Mutant: the server keeps the socket. *)
ParentCloses_Keeps ==
  /\ server \in Pages
  /\ server' = "ready"
  /\ UNCHANGED <<session, browser, request, page, fds, children>>

ParentCloses ==
  /\ server \in Pages
  /\ server' = "ready" /\ fds' = fds \ {<<"server", server>>}
  /\ UNCHANGED <<session, browser, request, page, children>>

(* Mutant: one waitpid per signal. *)
Reap_One ==
  /\ server = "ready" /\ sigchld
  /\ sigchld' = FALSE
  /\ \E b \in zombies : zombies' = zombies \ {b}
  /\ UNCHANGED <<session, pages>>

Reap ==
  /\ server = "ready" /\ sigchld
  /\ sigchld' = FALSE /\ zombies' = {}
  /\ UNCHANGED <<session, pages>>

Server == (\E b \in Pages : Fork(b) \/ ForkFails(b)) \/ ParentCloses \/ Reap

-----------------------------------------------------------------------------
(* The process of a page. *)

(* The constructor throws, or the read fails, for a browser that has left. *)
NoRequest(b) ==
  /\ Linux /\ page[b] = "reading" /\ browser[b] = "gone"
  /\ ProcessEnds(b)

(* do_read takes what one read brings, and connect_to_url executes the     *)
(* program its first line names, with the socket as standard output.       *)
Exec(b) == Linux /\ page[b] = "reading" /\ request[b] # ""

(* No such program, or a request cut short: errno is printed, and run()    *)
(* has no more to do.                                                      *)
ExecFails(b) == Exec(b) /\ ProcessEnds(b)

(* panel.cgi prints the form. *)
RunPanel(b) ==
  /\ Exec(b) /\ request[b] = "panel"
  /\ Turn(b, "panel")
  /\ UNCHANGED <<session, server, browser, fds, children>>

(* console.cgi prints the frame of the page and starts its sessions. *)
RunConsole(b) ==
  /\ Exec(b) /\ request[b] = "console"
  /\ Turn(b, "console")
  /\ \E form \in Forms : StartSessions(b, form)
  /\ UNCHANGED <<server, browser, fds, children>>

PanelEnds(b) == Linux /\ page[b] = "panel" /\ ProcessEnds(b)

ConsoleEnds(b) ==
  /\ Linux /\ page[b] = "console" /\ SessionsOver(b)
  /\ ProcessEnds(b)

(* SIGPIPE at a write to a page whose browser has left, which may also not *)
(* be noticed yet; or the exception of a write to a shell, which nothing   *)
(* catches around run().                                                   *)
ConsoleDies(b) ==
  /\ Linux /\ page[b] = "console"
  /\ \E k \in Of(b) : \/ browser[b] = "gone" /\ (Prints(k) \/ PrintsError(k))
                      \/ WriteThrows(k)
  /\ ProcessEnds(b)

PageProcess(b) ==
  \/ NoRequest(b) \/ ExecFails(b)
  \/ RunPanel(b) \/ PanelEnds(b)
  \/ RunConsole(b) \/ ConsoleEnds(b) \/ ConsoleDies(b)

-----------------------------------------------------------------------------
(* The process of a page has its own browser's connection open and no      *)
(* other: a copy held elsewhere would keep that browser waiting.           *)
OwnConnection == \A d \in fds : d[1] \in {d[2], "server"}
=============================================================================
