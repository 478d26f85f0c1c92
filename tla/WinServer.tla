------------------------------ MODULE WinServer ------------------------------
(***************************************************************************)
(* windows_cgi_server/main.cpp: one process runs the HTTP server, the      *)
(* panel and all sessions of all pages as handlers of one io_service.      *)
(* Writes are synchronous and throw; what a handler throws leaves run(),   *)
(* main catches it and waits for a key, with all sockets still open.       *)
(***************************************************************************)
EXTENDS CgiPages

Windows == version = "windows"

Runs == Windows /\ server = "ready"

(* The acceptor is closed with the server object, which resets what is in  *)
(* its queue; handlers that wait stay in the io_service and never run.     *)
Throws ==
  /\ server' = "paused"
  /\ page' = [b \in Pages |-> IF page[b] = "queued" THEN "over" ELSE page[b]]
  /\ request' = [b \in Pages |-> IF page'[b] = "over" THEN "" ELSE request[b]]
  /\ UNCHANGED <<session, browser, fds>>

(* The last handler that shares the page's socket is gone. *)
Release(b) ==
  /\ Turn(b, "over")
  /\ fds' = fds \ {<<"server", b>>}
  /\ UNCHANGED <<session, server, browser>>

(* remote_endpoint may throw for a browser that has left. *)
WinAccept(b) ==
  /\ Runs /\ page[b] = "queued"
  /\ \/ /\ Turn(b, "reading")
        /\ fds' = fds \cup {<<"server", b>>}
        /\ UNCHANGED <<session, server, browser>>
     \/ browser[b] = "gone" /\ Throws

WinNoRequest(b) ==
  /\ Runs /\ page[b] = "reading" /\ browser[b] = "gone"
  /\ Release(b)

(* connect_to_url, after one read as on Linux. *)
WinServe(b) == Runs /\ page[b] = "reading" /\ request[b] # ""

(* NOT FOUND, also for a request cut short. *)
NotFound(b) == WinServe(b) /\ Release(b)

(* The form is written at once. *)
WinPanel(b) == WinServe(b) /\ request[b] = "panel" /\ Release(b)

(* The frame of the page is written and the sessions are started; they     *)
(* share the page's socket.                                                *)
WinConsole(b) ==
  /\ WinServe(b) /\ request[b] = "console"
  /\ Turn(b, "console")
  /\ \E form \in Forms : StartSessions(b, form)
  /\ UNCHANGED <<server, browser, fds>>

(* Any of these writes, for a browser that has left. *)
WriteFails(b) == WinServe(b) /\ browser[b] = "gone" /\ Throws

(* Mutant: a page keeps a reference to its own socket. *)
WinConsoleEnds_Keeps(b) ==
  /\ Runs /\ page[b] = "console" /\ SessionsOver(b)
  /\ Turn(b, "over")
  /\ UNCHANGED <<session, server, browser, fds>>

WinConsoleEnds(b) ==
  /\ Runs /\ page[b] = "console" /\ SessionsOver(b)
  /\ Release(b)

(* A write to a page whose browser has left, or to a shell that is gone. *)
WinThrows(b) ==
  /\ Runs /\ page[b] = "console"
  /\ \E k \in Of(b) : (browser[b] = "gone" /\ Prints(k)) \/ WriteThrows(k)
  /\ Throws

Handler(b) ==
  \/ WinAccept(b) \/ WinNoRequest(b)
  \/ NotFound(b) \/ WinPanel(b) \/ WinConsole(b) \/ WriteFails(b)
  \/ WinConsoleEnds(b) \/ WinThrows(b)

(* The key that system("pause") waits for: the process ends. *)
KeyPressed ==
  /\ server = "paused"
  /\ server' = "ended" /\ fds' = {}
  /\ page' = [b \in Pages |-> IF page[b] = "none" THEN "none" ELSE "over"]
  /\ request' = [b \in Pages |-> ""]
  /\ Close(Sessions)
  /\ UNCHANGED browser
=============================================================================
