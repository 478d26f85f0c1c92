------------------------------- MODULE NpShell -------------------------------
(***************************************************************************)
(* The shell of npshell_1.h, which np_simple.cpp runs for each client (the *)
(* shells of the other servers and of project 1 share this engine).        *)
(*                                                                         *)
(* "cmd |N" keeps the output of cmd in a numbered pipe for the line N      *)
(* lines later, "!N" its error output as well, "cmd > f" writes a file,    *)
(* "a | b" is an ordinary pipe, and "batch f" takes the next lines from a  *)
(* file.  The shell is sequential; the commands it forks run beside it.    *)
(*                                                                         *)
(* Descriptors are modelled by the write ends the shell and its children   *)
(* hold, which decide when a reader sees the end of its input.  A command  *)
(* either reads its input to the end and writes Output units, or ends at   *)
(* once, as an unknown one does.                                           *)
(***************************************************************************)
EXTENDS Integers, Sequences

CONSTANTS
  MaxN,      \* largest N of |N and !N; bound (N = 0 is not typed)
  Capacity,  \* units a pipe holds
  Output,    \* units a command writes
  Width,     \* commands on a line, 1 or 2; bound
  MaxLines,  \* lines typed or read from batch files; bound
  MaxCommands, \* commands on all of these lines; bound
  MaxBatch   \* lines of a batch file; bound

ASSUME ShellAssumption ==
  /\ {MaxN, Capacity, Output} \subseteq Nat \ {0} /\ Width \in 1..2
  /\ {MaxCommands, MaxLines, MaxBatch} \subseteq Nat

(* The lines: Width commands at most, what the last one ends in, and N.       *)
Kinds == {"ext", "builtin"}
Commands == UNION {[1..w -> Kinds] : w \in 1..Width}
Lines ==
  [cmds : Commands, end : {"plain", "file"}, n : {0}]
    \cup [cmds : Commands, end : {"bar", "bang"}, n : 1..MaxN]

VARIABLES
  st,        \* "prompt", "exec", "wait" (for all children), "gone", "lost"
  line, prc, \* the current line and the command to run next
  count,     \* lines with a token so far
  typed,     \* commands on these lines
  vec,       \* num_pipe_vec: rest_line and the pipe of each entry; no pipe is
             \* in it twice, and its order decides nothing
  inFlag, outFlag, errFlag, fileFlag,   \* num_pipe_in_flag,
             \* num_pipe_out_flag, shock_pipe_out_flag, write_file_flag
  outPipe,   \* pipe_out_num, 0 for standard output
  fdIn,      \* fd_in, 0 for standard input
  wr,        \* pipes whose write end the shell has open
  kids,      \* the running commands
  buf,       \* content of each pipe ever made, in units
  batch,     \* lines left of the batch file, -1 when interactive
  ignore,
  (* history *)
  due        \* per pipe: the line number its |N named, 0 if ordinary

flags == <<inFlag, outFlag, errFlag, fileFlag>>
parse == <<line, prc, count, typed, outPipe>>
mode  == <<batch, ignore>>
vars  == <<st, parse, vec, flags, fdIn, wr, kids, buf, mode, due>>

NoLine == [cmds |-> <<"builtin">>, end |-> "plain", n |-> 0]

Init ==
  /\ st = "prompt" /\ line = NoLine /\ prc = 1 /\ count = 0 /\ typed = 0
  /\ vec = {}
  /\ inFlag = FALSE /\ outFlag = FALSE /\ errFlag = FALSE /\ fileFlag = FALSE
  /\ outPipe = 0 /\ fdIn = 0 /\ wr = {} /\ kids = {} /\ buf = <<>>
  /\ batch = -1 /\ ignore = FALSE
  /\ due = <<>>

Piped(l) == l.end \in {"bar", "bang"}

-----------------------------------------------------------------------------
(* One line: read, count down, parse. *)
Reading == st = "prompt" /\ ~ignore /\ count < MaxLines

CountDown(v) == {[e EXCEPT !.rest = @ - 1] : e \in v}

(* Mutant: the pipes count down on a line without tokens too. *)
EmptyLine_Counts ==
  /\ Reading /\ batch = -1
  /\ vec' = CountDown(vec)
  /\ st' = "wait"
  /\ UNCHANGED <<parse, flags, fdIn, wr, kids, buf, mode, due>>

(* A line without tokens runs nothing, counts nothing, and waits.          *)
EmptyLine ==
  /\ Reading /\ batch = -1
  /\ st' = "wait"
  /\ UNCHANGED <<parse, vec, flags, fdIn, wr, kids, buf, mode, due>>

(* The numbered pipe of the line: an existing one with the same rest_line, *)
(* or a new one.                                                           *)
Target(l, v) ==
  /\ vec' = v /\ UNCHANGED <<buf, due, wr>>
  /\ \E e \in v : e.rest = l.n /\ outPipe' = e.pipe

(* Mutant: the search for a pipe with the same rest_line is left out. *)
NewTarget_Always(l, v) ==
  /\ outPipe' = Len(buf) + 1
  /\ vec' = v \cup {[rest |-> l.n, pipe |-> outPipe']}
  /\ buf' = Append(buf, 0)
  /\ due' = Append(due, count' + l.n)
  /\ wr' = wr \cup {outPipe'}

NewTarget(l, v) ==
  /\ \A e \in v : e.rest # l.n
  /\ outPipe' = Len(buf) + 1
  /\ vec' = v \cup {[rest |-> l.n, pipe |-> outPipe']}
  /\ buf' = Append(buf, 0)
  /\ due' = Append(due, count' + l.n)
  /\ wr' = wr \cup {outPipe'}

ReadLine(l) ==
  /\ Reading
  /\ typed' = typed + Len(l.cmds) /\ typed' <= MaxCommands
  /\ batch # 0
  /\ batch' = IF batch > 0 THEN batch - 1 ELSE batch
  /\ line' = l /\ prc' = 1 /\ fdIn' = 0
  /\ count' = count + 1
  /\ LET v == CountDown(vec)
     IN /\ inFlag' = (inFlag \/ \E e \in v : e.rest = 0)
        /\ IF Piped(l) THEN Target(l, v) \/ NewTarget(l, v)
           ELSE vec' = v /\ outPipe' = 0 /\ UNCHANGED <<buf, due, wr>>
  /\ fileFlag' = (fileFlag \/ l.end = "file")
  /\ outFlag' = (outFlag \/ l.end = "bar")
  /\ errFlag' = (errFlag \/ l.end = "bang")
  /\ st' = "exec"
  /\ UNCHANGED <<kids, ignore>>

-----------------------------------------------------------------------------
(* One command of the line. *)
Last == prc = Len(line.cmds)
Many == Len(line.cmds) # 1
Advance ==
  /\ prc' = prc + 1
  /\ st' = IF ~Last THEN "exec" ELSE IF Piped(line) THEN "prompt" ELSE "wait"

Builtin ==
  /\ st = "exec" /\ line.cmds[prc] = "builtin"
  /\ Advance
  /\ UNCHANGED <<line, count, typed, outPipe, vec, flags, fdIn, wr, kids, buf, mode,
                 due>>

(* Mutant: the end of the batch file is taken for one more line. *)
Batch_Eof(k) ==
  /\ st = "exec" /\ line = NoLine /\ batch = -1
  /\ batch' = k + 1
  /\ Advance
  /\ UNCHANGED <<line, count, typed, outPipe, vec, flags, fdIn, wr, kids, buf, ignore,
                 due>>

(* "batch f": a line of its own; the next k lines come from the file. *)
Batch(k) ==
  /\ st = "exec" /\ line = NoLine /\ batch = -1
  /\ batch' = k
  /\ Advance
  /\ UNCHANGED <<line, count, typed, outPipe, vec, flags, fdIn, wr, kids, buf, ignore,
                 due>>

Exit ==
  /\ st = "exec" /\ line.cmds[prc] = "builtin"
  /\ st' = "gone"
  /\ UNCHANGED <<parse, vec, flags, fdIn, wr, kids, buf, mode, due>>

(* What the three ways to run a command have in common.  Before the fork   *)
(* the write ends of the pipes due now are closed; after it they leave     *)
(* num_pipe_vec.  in is the child's input, 0 for the terminal: with        *)
(* num_pipe_in_flag set it is the due pipe or, if none is due, the         *)
(* terminal.                                                               *)
Due == {e.pipe : e \in {f \in vec : f.rest = 0}}
Input == IF ~inFlag THEN {fdIn} ELSE IF Due = {} THEN {0} ELSE Due

Child(in, runs, out, held) ==
  [id |-> <<count, prc>>, out |-> out, held |-> held,
   in |-> IF runs THEN in ELSE 0, left |-> IF runs THEN Output ELSE 0,
   took |-> IF inFlag THEN in ELSE 0]

(* Mutant: the write ends of the pipes due now stay open. *)
Spawn_KeepsOpen(out, held) ==
  /\ \E in \in Input, runs \in BOOLEAN :
       kids' = kids \cup {Child(in, runs, out, wr \cup held)}
  /\ vec' = IF inFlag THEN {e \in vec : e.rest # 0} ELSE vec
  /\ inFlag' = FALSE
  /\ UNCHANGED wr

Spawn(out, held) ==
  /\ wr' = wr \ Due
  /\ \E in \in Input, runs \in BOOLEAN :
       kids' = kids \cup {Child(in, runs, out, wr' \cup held)}
  /\ vec' = IF inFlag THEN {e \in vec : e.rest # 0} ELSE vec
  /\ inFlag' = FALSE

(* With more than one command the parent closes fd_in.  If a builtin came  *)
(* first, fd_in is still standard input: the shell has lost its input.     *)
CloseIn == st' = IF Many /\ fdIn = 0 THEN "lost"
                 ELSE IF Piped(line) THEN "prompt" ELSE "wait"

ToFile ==
  /\ st = "exec" /\ line.cmds[prc] = "ext" /\ Last /\ fileFlag
  /\ Spawn(0, {})
  /\ fileFlag' = FALSE
  /\ prc' = prc + 1 /\ CloseIn
  /\ UNCHANGED <<line, count, typed, outPipe, outFlag, errFlag, fdIn, buf, mode, due>>

(* num_pipe_out_flag is reset, shock_pipe_out_flag is not. *)
ToNumbered ==
  /\ st = "exec" /\ line.cmds[prc] = "ext" /\ Last /\ ~fileFlag
  /\ outFlag \/ errFlag
  /\ Spawn(outPipe, {})
  /\ outFlag' = FALSE
  /\ prc' = prc + 1 /\ CloseIn
  /\ UNCHANGED <<line, count, typed, outPipe, errFlag, fileFlag, fdIn, buf, mode, due>>

(* An ordinary command; in a line of several a pipe is made even for the   *)
(* last one, whose output goes to the terminal.                            *)
Ordinary ==
  /\ st = "exec" /\ line.cmds[prc] = "ext"
  /\ Last => ~(fileFlag \/ outFlag \/ errFlag)
  /\ IF Many
     THEN LET q == Len(buf) + 1
          IN /\ Spawn(IF Last THEN 0 ELSE q, {q})
             /\ buf' = Append(buf, 0) /\ due' = Append(due, 0)
             /\ fdIn' = q
     ELSE Spawn(0, {}) /\ UNCHANGED <<buf, due, fdIn>>
  /\ Advance
  /\ UNCHANGED <<line, count, typed, outPipe, outFlag, errFlag, fileFlag, mode>>

(* wait() until there is no child, whichever line started it. *)
Waited ==
  /\ st = "wait" /\ kids = {}
  /\ st' = "prompt"
  /\ UNCHANGED <<parse, vec, flags, fdIn, wr, kids, buf, mode, due>>

(* After its last line the batch file is closed and the shell ignores the  *)
(* line it still has; ignore is never reset.                               *)
BatchEnds ==
  /\ st = "prompt" /\ batch = 0
  /\ batch' = -1 /\ ignore' = TRUE
  /\ UNCHANGED <<st, parse, vec, flags, fdIn, wr, kids, buf, due>>

IgnoreLine ==
  /\ st = "prompt" /\ ignore /\ count < MaxLines
  /\ count' = count + 1
  /\ UNCHANGED <<st, line, prc, typed, outPipe, vec, flags, fdIn, wr, kids, buf, mode,
                 due>>

-----------------------------------------------------------------------------
(* The commands (external programs). *)
Update(k, r) == kids' = (kids \ {k}) \cup {r}

Write(k) ==
  /\ k.left > 0
  /\ IF k.out = 0 THEN UNCHANGED buf
     ELSE buf[k.out] < Capacity /\ buf' = [buf EXCEPT ![k.out] = @ + 1]
  /\ Update(k, [k EXCEPT !.left = @ - 1])
  /\ UNCHANGED <<st, parse, vec, flags, fdIn, wr, mode, due>>

Read(k) ==
  /\ k.in # 0 /\ buf[k.in] > 0
  /\ buf' = [buf EXCEPT ![k.in] = @ - 1]
  /\ UNCHANGED <<st, parse, vec, flags, fdIn, wr, kids, mode, due>>

(* End of input: nobody holds the write end any more. *)
AtEnd(k) ==
  k.in # 0 => buf[k.in] = 0 /\ k.in \notin wr
                /\ \A c \in kids : k.in \notin c.held

Finish(k) ==
  /\ k.left = 0 /\ AtEnd(k)
  /\ kids' = kids \ {k}
  /\ UNCHANGED <<st, parse, vec, flags, fdIn, wr, buf, mode, due>>

Kid(k) == Write(k) \/ Read(k) \/ Finish(k)

Shell ==
  \/ Builtin \/ Exit \/ ToFile \/ ToNumbered \/ Ordinary \/ Waited \/ BatchEnds
  \/ \E k \in 1..MaxBatch : Batch(k)
Typed == EmptyLine \/ IgnoreLine \/ \E l \in Lines : ReadLine(l)

Next == Shell \/ Typed \/ \E k \in kids : Kid(k)

Spec == Init /\ [][Next]_vars

(* The shell and every command are scheduled; lines need not come. *)
FairSpec == Spec /\ WF_vars(Shell) /\ WF_vars(\E k \in kids : Kid(k))

-----------------------------------------------------------------------------
(* PROPERTIES *)

Pipes == 1..Len(buf)
Ends == Pipes \cup {0}
Children ==
  [id : Nat \X (1..3), in : Ends, out : Ends, took : Ends, held : SUBSET Pipes,
   left : 0..Output]

TypeOK ==
  /\ st \in {"prompt", "exec", "wait", "gone", "lost"}
  /\ line \in Lines /\ prc \in 1..3
  /\ count \in Nat /\ typed \in 0..MaxCommands
  /\ vec \subseteq [rest : Int, pipe : Pipes]
  /\ inFlag \in BOOLEAN /\ outFlag \in BOOLEAN
  /\ errFlag \in BOOLEAN /\ fileFlag \in BOOLEAN
  /\ outPipe \in Ends /\ fdIn \in Ends
  /\ wr \subseteq Pipes
  /\ kids \subseteq Children
  /\ buf \in Seq(0..Capacity) /\ due \in Seq(Nat) /\ Len(due) = Len(buf)
  /\ batch \in -1..MaxBatch /\ ignore \in BOOLEAN

(* All lines that name the same later line share one pipe, so that one     *)
(* reader gets all their output.                                           *)
OnePipePerLine ==
  \A e, f \in vec : e.rest = f.rest => e = f

(* A command that takes a numbered pipe runs on the very line the pipe was *)
(* made for, whatever kinds of lines came between; before that line the    *)
(* pipe is kept.                                                           *)
OnTime ==
  /\ \A k \in kids : k.took # 0 => due[k.took] = k.id[1]
  /\ \A p \in Pipes : due[p] > count => \E e \in vec : e.pipe = p

(* No command waits for the end of an input whose write end the shell      *)
(* itself, or the command itself, keeps open.                              *)
InputCanEnd ==
  \A k \in kids : k.in # 0 => k.in \notin wr /\ k.in \notin k.held

(* When the output of all lines for one pipe fits into it, the shell comes *)
(* back to its prompt from every line, waiting for the commands of earlier *)
(* lines included: no command waits for an input that a sibling of a later *)
(* line keeps open for ever.                                               *)
PromptReturns == (st \in {"exec", "wait"}) ~> (st \notin {"exec", "wait"})
=============================================================================
