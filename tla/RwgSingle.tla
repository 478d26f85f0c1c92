------------------------------ MODULE RwgSingle ------------------------------
(***************************************************************************)
(* The single-process server: the select loop of np_single_proc.cpp, with  *)
(* npshell_2.h, which runs one line of one user per call.                  *)
(*                                                                         *)
(* Everything the server does between two calls of select happens in one   *)
(* process; only the commands it forks run beside it, and wait() lasts     *)
(* until there is none left.  Users are found by their socket's            *)
(* descriptor.  Numbered pipes and user pipes are pipes of the server: a   *)
(* command inherits every end that is open when it is forked.  The tables  *)
(* hold the numbers of a pipe's ends; a number whose end is closed is      *)
(* given out again, to a socket or to another pipe, while the table still  *)
(* has it: what a table names is whatever has the number now.              *)
(*                                                                         *)
(* A line here has one command; what several commands on a line do is in   *)
(* NpShell.  The client types its next line after the prompt.              *)
(***************************************************************************)
EXTENDS Integers, Sequences

CONSTANTS
  QLEN,      \* users
  Clients,   \* programs that connect, again and again
  MaxFd,     \* descriptors for sockets and pipes; bound
  MaxN,      \* largest N of |N; bound
  MaxInputs  \* connections and lines in all; bound

ASSUME SingleAssumption ==
  /\ {QLEN, MaxN} \subseteq Nat \ {0}
  /\ {MaxFd, MaxInputs} \subseteq Nat

Slots == 1..QLEN
Fds   == 1..MaxFd

(* The lines: a command with "<from" and with nothing, |n or >n at its     *)
(* end, in either order; a builtin, exit, or nothing.                      *)
Ends == [end : {"plain"}, n : {0}] \cup [end : {"bar"}, n : 1..MaxN]
          \cup [end : {"to"}, n : Slots]
Lines == {l \in [from : Slots \cup {0}, out : Ends, outFirst : BOOLEAN] :
            l.outFirst => l.from # 0 /\ l.out.end # "plain"}

VARIABLES
  conn,     \* per client: "away", "pending", "open", "gone" (hung up)
  sent,     \* per client: it sent a line not yet read
  prompted, \* per client: it has a prompt to answer
  fd,       \* per client: the server's descriptor, 0 if none
  srv,      \* "select", "serve", "wait" (for all children), "dead", "lost"
  todo,     \* descriptors of rfds not yet served
  valid, sock, vec,  \* user[i]; vec is num_pipe_vec
  rec, np,  \* name_pipe_record[s][r], user[r].name_pipe[s]
  ends,     \* per pipe: the numbers of its read and write end
  rd, wr,   \* pipes whose read, whose write end the server has open
  kids,     \* running commands
  inputs,   \* connections and lines so far
  (* history *)
  count,    \* per slot: lines that counted down
  due,      \* per pipe: the slot and line its |N named, <<0, 0>> for >N
  ghost,    \* a client hung up without exit
  full,     \* a client came when no slot was free
  twice     \* a line closed an end by its number that was closed before

client == <<conn, sent, prompted, fd>>
users  == <<valid, sock>>
pipes  == <<vec, rec, np, ends, rd, wr, kids, count, due>>
hist   == <<ghost, full, twice>>
vars   == <<client, srv, todo, users, pipes, inputs, hist>>

Pairs(x) == [s \in Slots |-> [r \in Slots |-> x]]
Least(S) == {i \in S : \A j \in S : i <= j}

Init ==
  /\ conn = [c \in Clients |-> "away"]
  /\ sent = [c \in Clients |-> FALSE] /\ prompted = sent
  /\ fd = [c \in Clients |-> 0]
  /\ srv = "select" /\ todo = {}
  /\ valid = [i \in Slots |-> FALSE] /\ sock = [i \in Slots |-> 0]
  /\ vec = [i \in Slots |-> {}]
  /\ rec = Pairs(FALSE) /\ np = Pairs(0)
  /\ ends = <<>> /\ rd = {} /\ wr = {} /\ kids = {}
  /\ inputs = 0
  /\ count = [i \in Slots |-> 0] /\ due = <<>>
  /\ ghost = FALSE /\ full = FALSE /\ twice = FALSE

-----------------------------------------------------------------------------
(* The clients. *)
Connect(c) ==
  /\ conn[c] = "away" /\ inputs < MaxInputs
  /\ conn' = [conn EXCEPT ![c] = "pending"]
  /\ inputs' = inputs + 1
  /\ UNCHANGED <<sent, prompted, fd, srv, todo, users, pipes, hist>>

Send(c) ==
  /\ conn[c] = "open" /\ prompted[c] /\ inputs < MaxInputs
  /\ sent' = [sent EXCEPT ![c] = TRUE]
  /\ prompted' = [prompted EXCEPT ![c] = FALSE]
  /\ inputs' = inputs + 1
  /\ UNCHANGED <<conn, fd, srv, todo, users, pipes, hist>>

Hangup(c) ==
  /\ conn[c] = "open"
  /\ conn' = [conn EXCEPT ![c] = "gone"]
  /\ UNCHANGED <<sent, prompted, fd, srv, todo, users, pipes, inputs,
                 hist>>

-----------------------------------------------------------------------------
(* The descriptors: the kernel gives out the lowest that is free. *)
Free == {g \in Fds : /\ \A c \in Clients : fd[c] # g
                     /\ \A p \in rd : ends[p][1] # g
                     /\ \A p \in wr : ends[p][2] # g}
NextPipe == Least(Free) \X Least(Free \ Least(Free))

(* The select loop. *)
Readable == {c \in Clients : fd[c] # 0 /\ (sent[c] \/ conn[c] = "gone")}

(* The new client's slot is the first free one; if there is none,          *)
(* space_ind is read uninitialised.  num_pipe_vec and the pipe records are *)
(* left as they are.                                                       *)
Accept(c) ==
  LET free == {i \in Slots : ~valid[i]}
  IN \E i \in IF free = {} THEN Slots ELSE Least(free),
        f \in Least(Free) :
       /\ valid' = [valid EXCEPT ![i] = TRUE]
       /\ sock' = [sock EXCEPT ![i] = f]
       /\ fd' = [fd EXCEPT ![c] = f]
       /\ conn' = [conn EXCEPT ![c] = "open"]
       /\ prompted' = [prompted EXCEPT ![c] = TRUE]
       /\ full' = (full \/ free = {})

(* select returns; the listening socket is looked at first. *)
Select ==
  /\ srv = "select"
  /\ todo' = {fd[c] : c \in Readable}
  /\ srv' = IF todo' = {} THEN "select" ELSE "serve"
  /\ LET waiting == {c \in Clients : conn[c] = "pending"}
     IN IF waiting = {}
        THEN Readable # {} /\ UNCHANGED <<conn, prompted, fd, users, full>>
        ELSE \E c \in waiting : Accept(c)
  /\ UNCHANGED <<sent, pipes, inputs, ghost, twice>>

(* find_fd_user. *)
User(f) == Least({i \in Slots : valid[i] /\ sock[i] = f})
(* The client served next: descriptors in ascending order. *)
Turn(c) == srv = "serve" /\ fd[c] \in Least(todo)

(* Back in the loop: the next descriptor. *)
Continue(c) ==
  /\ todo' = todo \ {fd[c]}
  /\ srv' = IF todo' = {} THEN "select" ELSE "serve"
Prompt(c) == prompted' = [prompted EXCEPT ![c] = TRUE]
Close(c) ==
  /\ fd' = [fd EXCEPT ![c] = 0]
  /\ conn' = [conn EXCEPT ![c] = "away"]
  /\ prompted' = [prompted EXCEPT ![c] = FALSE]

(* read returns 0: the descriptor is closed, the user stays valid.         *)
EndOfFile(c) ==
  /\ Turn(c) /\ ~sent[c] /\ User(fd[c]) # {}
  /\ Close(c) /\ Continue(c)
  /\ ghost' = TRUE
  /\ UNCHANGED <<sent, users, pipes, inputs, full, twice>>

Line(c, i) ==
  /\ Turn(c) /\ sent[c] /\ i \in User(fd[c])
  /\ sent' = [sent EXCEPT ![c] = FALSE]

EmptyLine(c, i) ==
  /\ Line(c, i)
  /\ Prompt(c) /\ Continue(c)
  /\ UNCHANGED <<conn, fd, users, pipes, inputs, hist>>

-----------------------------------------------------------------------------
(* One call of npshell for user i. *)
(* Mutant: the pipes count up. *)
CountDown_Up(v) == {[e EXCEPT !.rest = @ + 1] : e \in v}

CountDown(v) == {[e EXCEPT !.rest = @ - 1] : e \in v}
Counted(i) == count' = [count EXCEPT ![i] = @ + 1]
Due(v) == {e.pipe : e \in {d \in v : d.rest = 0}}

(* Mutant: one num_pipe_vec for all users. *)
Builtin_Shared(c, i) ==
  /\ Line(c, i)
  /\ vec' = [j \in Slots |-> CountDown(vec[j])]
  /\ Counted(i)
  /\ srv' = "wait"
  /\ UNCHANGED <<conn, prompted, fd, todo, users, rec, np, ends, rd, wr, kids,
                 due, inputs, hist>>

(* A builtin other than exit: its line counts, a pipe due now is not used  *)
(* and never will be.                                                      *)
Builtin(c, i) ==
  /\ Line(c, i)
  /\ vec' = [vec EXCEPT ![i] = CountDown(@)]
  /\ Counted(i)
  /\ srv' = "wait"
  /\ UNCHANGED <<conn, prompted, fd, todo, users, rec, np, ends, rd, wr, kids,
                 due, inputs, hist>>

(* Mutant: the user stays valid after exit. *)
Exit_KeepsUser(c, i) ==
  /\ Line(c, i)
  /\ vec' = [vec EXCEPT ![i] = CountDown(@)]
  /\ Counted(i)
  /\ rec' = [s \in Slots |-> [r \in Slots |-> rec[s][r] /\ i \notin {s, r}]]
  /\ Close(c) /\ Continue(c)
  /\ UNCHANGED <<users, np, ends, rd, wr, kids, due, inputs, hist>>

(* Mutant: exit clears only the pipes the user made. *)
Exit_OwnPipes(c, i) ==
  /\ Line(c, i)
  /\ vec' = [vec EXCEPT ![i] = CountDown(@)]
  /\ Counted(i)
  /\ rec' = [rec EXCEPT ![i] = [r \in Slots |-> FALSE]]
  /\ valid' = [valid EXCEPT ![i] = FALSE]
  /\ Close(c) /\ Continue(c)
  /\ UNCHANGED <<sock, np, ends, rd, wr, kids, due, inputs, hist>>

(* The records are cleared, the pipes themselves stay open. *)
Exit(c, i) ==
  /\ Line(c, i)
  /\ vec' = [vec EXCEPT ![i] = CountDown(@)]
  /\ Counted(i)
  /\ rec' = [s \in Slots |-> [r \in Slots |-> rec[s][r] /\ i \notin {s, r}]]
  /\ valid' = [valid EXCEPT ![i] = FALSE]
  /\ Close(c) /\ Continue(c)
  /\ UNCHANGED <<sock, np, ends, rd, wr, kids, due, inputs, hist>>

(* The parse, as a function of what it has read and changed so far, and of *)
(* the numbers the kernel gives for a pipe.  It stops at the first error   *)
(* and undoes nothing.                                                     *)
Start(i) == [vec |-> CountDown(vec[i]), rec |-> rec, np |-> np, ends |-> ends,
             rd |-> rd, wr |-> wr, due |-> due, out |-> 0, ok |-> TRUE]

NewPipe(s, d, new) ==
  LET p == Len(s.due) + 1
  IN [s EXCEPT !.due = Append(@, d), !.ends = Append(@, new), !.out = p,
               !.rd = @ \cup {p}, !.wr = @ \cup {p}]

TakeIn(s, i, from) ==
  IF from = 0 THEN s
  ELSE IF valid[from] /\ s.rec[from][i]
  THEN [s EXCEPT !.rec[from][i] = FALSE]
  ELSE [s EXCEPT !.ok = FALSE]

Numbered(s, i, n, new) ==
  LET same == {e \in s.vec : e.rest = n}
      t    == NewPipe(s, <<i, count[i] + 1 + n>>, new)
  IN IF same # {} THEN [s EXCEPT !.out = (CHOOSE e \in same : TRUE).pipe]
     ELSE [t EXCEPT !.vec = @ \cup {[rest |-> n, pipe |-> t.out]}]

ToUser(s, i, r, new) ==
  LET t == NewPipe(s, <<0, 0>>, new)
  IN IF valid[r] /\ ~s.rec[i][r]
     THEN [t EXCEPT !.rec[i][r] = TRUE, !.np[i][r] = t.out]
     ELSE [s EXCEPT !.ok = FALSE]

PutOut(s, i, out, new) ==
  CASE out.end = "plain" -> s
    [] out.end = "bar" -> Numbered(s, i, out.n, new)
    [] out.end = "to" -> ToUser(s, i, out.n, new)

Parse(i, l, new) ==
  LET first  == IF l.outFirst THEN PutOut(Start(i), i, l.out, new)
                ELSE TakeIn(Start(i), i, l.from)
  IN IF ~first.ok THEN first
     ELSE IF l.outFirst THEN TakeIn(first, i, l.from)
     ELSE PutOut(first, i, l.out, new)

Parsed(i, s) ==
  /\ rec' = s.rec /\ np' = s.np /\ ends' = s.ends /\ due' = s.due
  /\ Counted(i)

(* "does not exist yet" or "already exists": npshell returns at once. *)
Refused(c, i, l) ==
  /\ Line(c, i)
  /\ Prompt(c) /\ Continue(c)
  /\ UNCHANGED <<conn, fd, users, kids, inputs, hist>>
  /\ \E new \in NextPipe :
       LET s == Parse(i, l, new)
       IN /\ ~s.ok /\ Parsed(i, s)
          /\ vec' = [vec EXCEPT ![i] = s.vec] /\ rd' = s.rd /\ wr' = s.wr

(* The user pipe a line reads from. *)
Used(s, i, l) == IF l.from = 0 THEN {} ELSE {s.np[l.from][i]}

(* Mutant: the write end of a user pipe stays open in the server. *)
Shut_Numbered(s, i, l) == Due(s.vec)

(* The pipes a line closes, by the numbers in the tables: the write ends   *)
(* before the fork, the read ends after it.                                *)
Shut(s, i, l) == Due(s.vec) \cup Used(s, i, l)
WriteNumbers(s, P) == {s.ends[p][2] : p \in P}
ReadNumbers(s, P) == {s.ends[p][1] : p \in P}

(* The ends that stay open when these numbers are closed. *)
Reading(s, F) == {p \in s.rd : s.ends[p][1] \notin F}
Writing(s, F) == {p \in s.wr : s.ends[p][2] \notin F}

(* dup2: the pipe that has the number now, 0 if it is nobody's or of       *)
(* another kind of file.                                                   *)
Same(s, P, e, p) == {q \in P : p # 0 /\ s.ends[q][e] = s.ends[p][e]}
Dup(s, P, e, p) == IF Same(s, P, e, p) = {} THEN {0} ELSE Same(s, P, e, p)

(* Mutant: the server does not wait for a command that feeds a user pipe. *)
Waits_Plain(l) == l.out.end = "plain"

Waits(l) == l.out.end # "bar"

(* The command: a numbered pipe that is due comes before the user pipe.    *)
Fork(i, l, s, shut) ==
  \E p \in IF Due(s.vec) # {} THEN Due(s.vec)
            ELSE IF l.from # 0 THEN Used(s, i, l) ELSE {0} :
    \E in \in Dup(s, Reading(s, shut), 1, p),
       out \in Dup(s, Writing(s, shut), 2, s.out) :
      kids' = kids \cup {[id |-> <<i, count[i] + 1>>, in |-> in, out |-> out,
                         held |-> Writing(s, shut)]}

(* A client's socket that has one of the numbers is closed.  select then   *)
(* fails until the number is given out again, since it is still in afds;   *)
(* the model goes no further.                                              *)
Run(c, i, l) ==
  /\ Line(c, i)
  /\ UNCHANGED <<conn, users, inputs, ghost, full>>
  /\ \E new \in NextPipe :
       LET s     == Parse(i, l, new)
           shut  == WriteNumbers(s, Shut(s, i, l))
           after == shut \cup ReadNumbers(s, Shut(s, i, l))
           hit   == {d \in Clients : fd[d] \in after}
       IN /\ s.ok /\ Parsed(i, s)
          /\ vec' = [vec EXCEPT ![i] = {e \in s.vec : e.rest # 0}]
          /\ Fork(i, l, s, shut)
          /\ rd' = Reading(s, after) /\ wr' = Writing(s, after)
          /\ fd' = [d \in Clients |-> IF d \in hit THEN 0 ELSE fd[d]]
          /\ twice' = (twice \/ ~(Shut(s, i, l) \subseteq s.rd \cap s.wr))
          /\ IF Waits(l) \/ hit # {}
             THEN /\ srv' = IF hit = {} THEN "wait" ELSE "lost"
                  /\ UNCHANGED <<todo, prompted>>
             ELSE Prompt(c) /\ Continue(c)

(* wait() until there is no child of any user; then the prompt.            *)
Waited(c) ==
  /\ srv = "wait" /\ fd[c] \in Least(todo) /\ kids = {}
  /\ Prompt(c) /\ Continue(c)
  /\ UNCHANGED <<conn, sent, fd, users, pipes, inputs, hist>>

(* A message or prompt written to a client that hung up raises SIGPIPE,    *)
(* which ends the server; so does the prompt after a read that fails       *)
(* because the connection was reset.                                       *)
Killed ==
  /\ \/ srv = "wait" \/ \E c \in Clients : Turn(c)
     \/ srv = "select" /\ \E c \in Clients : conn[c] = "pending"
  /\ \E c \in Clients : conn[c] = "gone"
  /\ srv' = "dead"
  /\ UNCHANGED <<client, todo, users, pipes, inputs, hist>>

(* A descriptor without a user, its slot given away to a later client:     *)
(* user[-1] is read.  The model goes no further.                           *)
NoUser(c) ==
  /\ Turn(c) /\ User(fd[c]) = {}
  /\ srv' = "lost"
  /\ UNCHANGED <<client, todo, users, pipes, inputs, hist>>

(* A command that reads ends when its input does; its output fits into its *)
(* pipe.                                                                   *)
End(k) ==
  /\ kids' = kids \ {k}
  /\ UNCHANGED <<client, srv, todo, users, vec, rec, np, ends, rd, wr, count,
                 due, inputs, hist>>
Finish(k) == k.in \notin wr /\ (\A j \in kids : k.in \notin j.held) /\ End(k)
(* One that does not read, or is unknown, may end before. *)
EndEarly(k) == End(k)

-----------------------------------------------------------------------------
Serve(c) ==
  \/ EndOfFile(c) \/ NoUser(c) \/ Waited(c)
  \/ \E i \in Slots :
       \/ EmptyLine(c, i) \/ Builtin(c, i) \/ Exit(c, i)
       \/ \E l \in Lines : Refused(c, i, l) \/ Run(c, i, l)
Server == Select \/ \E c \in Clients : Serve(c)

Next ==
  \/ \E c \in Clients : Connect(c) \/ Send(c) \/ Hangup(c)
  \/ Server \/ Killed
  \/ \E k \in kids : Finish(k) \/ EndEarly(k)

Spec == Init /\ [][Next]_vars

(* The commands run, and wait() returns when the last has ended.  Clients   *)
(* owe nothing.                                                            *)
FairSpec ==
  Spec /\ WF_vars(\E c \in Clients : Waited(c)) /\ WF_vars(\E k \in kids : Finish(k))

-----------------------------------------------------------------------------
(* PROPERTIES *)

Made == 1..Len(due)
TypeOK ==
  /\ conn \in [Clients -> {"away", "pending", "open", "gone"}]
  /\ sent \in [Clients -> BOOLEAN] /\ prompted \in [Clients -> BOOLEAN]
  /\ fd \in [Clients -> Fds \cup {0}]
  /\ srv \in {"select", "serve", "wait", "dead", "lost"} /\ todo \subseteq Fds
  /\ valid \in [Slots -> BOOLEAN] /\ sock \in [Slots -> Fds \cup {0}]
  /\ \A i \in Slots, e \in UNION {vec[j] : j \in Slots} :
       e.pipe \in Made /\ e.rest \in Int /\ e.rest <= MaxN
  /\ rec \in [Slots -> [Slots -> BOOLEAN]]
  /\ np \in [Slots -> [Slots -> Made \cup {0}]]
  /\ ends \in Seq(Fds \X Fds) /\ Len(ends) = Len(due)
  /\ {rd, wr} \subseteq SUBSET Made
  /\ \A k \in kids : {k.in, k.out} \subseteq Made \cup {0}
                     /\ k.held \subseteq Made
  /\ inputs \in Nat /\ count \in [Slots -> Nat]
  /\ {ghost, full, twice} \subseteq BOOLEAN

(* The line "cmd <n >n" of user n itself closes the pipe it makes, whose   *)
(* record stays; the user's next "<n" closes the same numbers again, that  *)
(* others may have by then.  Everything below is stated until then.        *)

(* Until a client comes to a full table, every connected socket leads      *)
(* find_fd_user to a user; and until a client vanishes without exit, to    *)
(* exactly one, so that nobody's line runs as another user.  A number that *)
(* passes from sockets to pipes and back never misleads.                   *)
SocketHasUser ==
  ~full /\ ~twice => \A c \in Clients : fd[c] # 0 =>
     LET own == {i \in Slots : valid[i] /\ sock[i] = fd[c]}
     IN own # {} /\ (~ghost => \A i, j \in own : i = j)

(* A user pipe exists only between two users who are there, and both ends  *)
(* are open in the server: the numbers the receiver finds are those of     *)
(* that pipe still.  (Save a user's pipe to itself, closed by the line     *)
(* that makes it when the line reads the one before.)                      *)
PipesHaveUsers ==
  ~twice => \A s, r \in Slots : rec[s][r] =>
     valid[s] /\ valid[r] /\ (s # r => np[s][r] \in rd \cap wr)

(* A command that takes a numbered pipe runs on the very line of that slot *)
(* the pipe was made for, and until then the pipe counts that slot's lines *)
(* only and stays open: other users' lines, errors, reuse of the slot and  *)
(* of descriptors change nothing.                                          *)
OnTime ==
  ~twice =>
  /\ \A k \in kids : k.in # 0 /\ due[k.in] # <<0, 0>> => due[k.in] = k.id
  /\ \A i \in Slots, e \in UNION {vec[j] : j \in Slots} :
       e \in vec[i] => /\ due[e.pipe] = <<i, count[i] + e.rest>>
                       /\ e.pipe \in rd \cap wr

(* A user pipe is received only when its sender's command has ended:       *)
(* everything the command wrote is in the pipe.                            *)
PipeIsComplete ==
  ~twice => \A k, j \in kids :
     k.in # 0 /\ due[k.in] = <<0, 0>> => j.out # k.in

(* The only place where the server stops serving everybody is wait(), and  *)
(* it always gets on: whatever pipes of all users the commands hold open,  *)
(* no command waits for an input that never ends.  (The commands are       *)
(* executed, or their files are not found: a file that is found and cannot *)
(* be executed leaves a second server behind, which does not end.)         *)
ServesAgain == (srv = "wait" /\ ~twice) ~> (srv # "wait")
=============================================================================
