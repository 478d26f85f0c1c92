---------------------------- MODULE BatchSession ----------------------------
(***************************************************************************)
(* The sessions of the batch client ("console"): each connects to a remote *)
(* shell, directly or through a SOCKS4 server, and sends it the lines of a *)
(* file, one whenever what it has read contains a "%".  NpShellConnect and *)
(* NpShellRun of project 3's console.cpp, of project 4's console.cpp and   *)
(* of the Windows server's main.cpp.                                       *)
(*                                                                         *)
(* A shell's output is a sequence of pieces, of which only "has it a % in  *)
(* it" matters; a read takes any number of the pieces that have arrived.   *)
(***************************************************************************)
EXTENDS Naturals, Sequences, SequencesExt

CONSTANTS
  Pages,       \* requests of browsers; a console page has sessions
  Slots,       \* sessions on a page, h0 to h4
  Forms,       \* what a form may ask for: for each slot whose three fields are
               \* filled in, the number of lines of the file; bound
  MaxSessions, \* sessions on all pages; bound
  MaxLines     \* lines in the files of all sessions; bound

ASSUME BatchAssumption ==
  /\ IsFiniteSet(Pages) /\ IsFiniteSet(Slots)
  /\ \A f \in Forms : DOMAIN f \subseteq Slots /\ \A s \in DOMAIN f : f[s] \in Nat
  /\ {MaxSessions, MaxLines} \subseteq Nat

Sessions == Pages \X Slots
Versions == {"linux", "windows"}

VARIABLES
  version,   \* the program that runs; never changes
  at,        \* "none", "connect", "proxy" (connecting to the SOCKS server),
             \* "reply" (of that server), "talk" (reading), "over"
  file,      \* lines of the session's file
  sent,      \* lines sent so far
  up,        \* lines sent and not read by the shell, by number
  down,      \* pieces of output not read yet: has it a "%"?
  shell,     \* "none", "up", "gone" (it closed or was reset)
  (* history *)
  ran,       \* lines the shell has run
  percent,   \* sessions whose shell wrote a "%" that was not a prompt
  swallowed  \* sessions whose first prompt went with the SOCKS reply

plan == <<version, file>>
wire == <<up, down, shell, ran, percent>>
session == <<version, at, file, sent, up, down, shell, ran, percent, swallowed>>

BatchInit ==
  /\ version \in Versions
  /\ at = [k \in Sessions |-> "none"] /\ shell = [k \in Sessions |-> "none"]
  /\ file = [k \in Sessions |-> 0] /\ sent = [k \in Sessions |-> 0]
  /\ up = [k \in Sessions |-> <<>>] /\ down = [k \in Sessions |-> <<>>]
  /\ ran = [k \in Sessions |-> <<>>]
  /\ percent = {} /\ swallowed = {}

Of(b) == {k \in Sessions : k[1] = b}
Started == {k \in Sessions : at[k] # "none"}
Moved(k, a) == at' = [at EXCEPT ![k] = a]

(* The sockets of the sessions of K are closed; what was on the way is not *)
(* followed further.                                                       *)
Close(K) ==
  LET closed == {k \in K : at[k] # "none"}
      Emptied(q) == [k \in Sessions |-> IF k \in closed THEN <<>> ELSE q[k]]
  IN /\ at' = [k \in Sessions |-> IF k \in closed THEN "over" ELSE at[k]]
     /\ up' = Emptied(up) /\ down' = Emptied(down) /\ ran' = Emptied(ran)
     /\ shell' = [k \in Sessions |-> IF k \in closed THEN "none" ELSE shell[k]]
     /\ percent' = percent \ K /\ swallowed' = swallowed \ K
     /\ UNCHANGED <<plan, sent>>

-----------------------------------------------------------------------------
(* The loop at the end of main: a session for each slot of the form that   *)
(* has a host, a port and a file.  In project 4 a host name that does not  *)
(* resolve throws, which is caught and costs only that session; and all    *)
(* sessions go through a SOCKS server when sh and sp are given.            *)
StartSessions(b, form) ==
  \E proxied \in BOOLEAN, unresolved \in SUBSET DOMAIN form :
    /\ proxied => version = "linux"
    /\ unresolved # {} => proxied
    /\ LET new == {b} \X DOMAIN form
       IN /\ Cardinality(Started \cup new) <= MaxSessions
          /\ file' = [k \in Sessions |-> IF k \in new THEN form[k[2]] ELSE file[k]]
          /\ at' = [k \in Sessions |->
                      IF k \notin new THEN at[k]
                      ELSE IF k[2] \in unresolved THEN "over"
                      ELSE IF proxied THEN "proxy" ELSE "connect"]
    /\ MapThenSumSet(LAMBDA k : file'[k], Sessions) <= MaxLines
    /\ UNCHANGED <<version, sent, wire, swallowed>>

(* A shell that accepts writes its greeting and a prompt. *)
Greeting == <<FALSE, TRUE>>
Talk(k, pieces) ==
  /\ Moved(k, "talk")
  /\ shell' = [shell EXCEPT ![k] = "up"]
  /\ down' = [down EXCEPT ![k] = pieces]
  /\ UNCHANGED <<plan, sent, up, ran, percent>>

Connected(k) ==
  /\ at[k] = "connect"
  /\ Talk(k, Greeting) /\ UNCHANGED swallowed

ConnectFails(k) ==
  /\ at[k] \in {"connect", "proxy"}
  /\ Close({k})

RequestSent(k) ==
  /\ at[k] = "proxy"
  /\ Moved(k, "reply")
  /\ UNCHANGED <<plan, sent, wire, swallowed>>

(* One read takes the reply and whatever has come behind it. *)
Granted(k) ==
  /\ at[k] = "reply"
  /\ \E n \in 0..Len(Greeting) :
       /\ Talk(k, SubSeq(Greeting, n + 1, Len(Greeting)))
       /\ swallowed' = IF n = Len(Greeting) THEN swallowed \cup {k}
                       ELSE swallowed

(* Any second byte but 90, or the end of the connection. *)
Refused(k) ==
  /\ at[k] = "reply"
  /\ Close({k})

(* Mutant: a prompt is answered after the last line too. *)
Prompted_Empty(k, n) == TRUE \in ToSet(SubSeq(down[k], 1, n))

(* Mutant: a line is sent at every read. *)
Prompted_Always(k, n) == sent[k] < file[k]

Prompted(k, n) == sent[k] < file[k] /\ TRUE \in ToSet(SubSeq(down[k], 1, n))

(* What is written to a shell that is gone is lost. *)
SendLine(k) ==
  /\ sent' = [sent EXCEPT ![k] = @ + 1]
  /\ up' = IF shell[k] = "up" THEN [up EXCEPT ![k] = Append(@, sent[k] + 1)]
           ELSE up

(* Mutant: do_read is called again only after a line was sent. *)
Receive_Once(k) ==
  /\ at[k] = "talk"
  /\ \E n \in 1..Len(down[k]) :
       /\ down' = [down EXCEPT ![k] = SubSeq(@, n + 1, Len(@))]
       /\ IF Prompted(k, n) THEN SendLine(k) /\ UNCHANGED at
          ELSE Moved(k, "over") /\ UNCHANGED <<sent, up>>
  /\ UNCHANGED <<plan, shell, ran, percent, swallowed>>

Receive(k) ==
  /\ at[k] = "talk"
  /\ \E n \in 1..Len(down[k]) :
       /\ down' = [down EXCEPT ![k] = SubSeq(@, n + 1, Len(@))]
       /\ IF Prompted(k, n) THEN SendLine(k) ELSE UNCHANGED <<sent, up>>
  /\ UNCHANGED <<plan, at, shell, ran, percent, swallowed>>

ReceiveEnds(k) ==
  /\ at[k] = "talk" /\ down[k] = <<>> /\ shell[k] = "gone"
  /\ Close({k})

(* A handler of k that writes to the page. *)
Prints(k) == at[k] = "talk" /\ down[k] # <<>>
PrintsError(k) == at[k] \in {"connect", "proxy"}

(* boost::asio::write to a shell that is gone may throw. *)
WriteThrows(k) ==
  /\ at[k] = "talk" /\ shell[k] = "gone"
  /\ \E n \in 1..Len(down[k]) : Prompted(k, n)

-----------------------------------------------------------------------------
(* The remote shell: it runs the first of the lines that have arrived and  *)
(* drops the rest.  After the last line, or any other, it may have ended.  *)
ShellRuns(k) ==
  /\ at[k] = "talk" /\ shell[k] = "up"
  /\ \E n \in 1..Len(up[k]) : up' = [up EXCEPT ![k] = SubSeq(@, n + 1, Len(@))]
  /\ ran' = [ran EXCEPT ![k] = Append(@, Head(up[k]))]
  /\ \/ /\ shell' = [shell EXCEPT ![k] = "gone"]
        /\ UNCHANGED <<down, percent>>
     \/ \E odd \in BOOLEAN :
          /\ down' = [down EXCEPT ![k] = @ \o <<odd, TRUE>>]
          /\ percent' = IF odd THEN percent \cup {k} ELSE percent
          /\ UNCHANGED shell
  /\ UNCHANGED <<plan, at, sent, swallowed>>

(* Its host resets the connection; what is still on the way may be lost. *)
ShellDies(k) ==
  /\ at[k] = "talk" /\ shell[k] = "up"
  /\ shell' = [shell EXCEPT ![k] = "gone"]
  /\ up' = [up EXCEPT ![k] = <<>>]
  /\ \E n \in 0..Len(down[k]) : down' = [down EXCEPT ![k] = SubSeq(@, 1, n)]
  /\ UNCHANGED <<plan, at, sent, ran, percent, swallowed>>

-----------------------------------------------------------------------------
BatchTypeOK ==
  /\ version \in Versions
  /\ at \in [Sessions ->
       {"none", "connect", "proxy", "reply", "talk", "over"}]
  /\ shell \in [Sessions -> {"none", "up", "gone"}]
  /\ \A k \in Sessions :
       /\ file[k] \in Nat /\ sent[k] \in 0..file[k]
       /\ up[k] \in Seq(1..sent[k]) /\ ran[k] \in Seq(1..sent[k])
       /\ down[k] \in Seq(BOOLEAN)
  /\ percent \cup swallowed \subseteq Sessions

(* The shell runs the file: its lines in order, none twice, and none left  *)
(* out unless a command's own output looked like a prompt.                 *)
RunsTheFile ==
  \A k \in Sessions :
    /\ \A i, j \in 1..Len(ran[k]) : i < j => ran[k][i] < ran[k][j]
    /\ k \notin percent => \A i \in 1..Len(ran[k]) : ran[k][i] = i
=============================================================================
