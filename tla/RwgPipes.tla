------------------------------ MODULE RwgPipes ------------------------------
(***************************************************************************)
(* User pipes of the multi-process server (npshell_3.h): "cmd >N" leaves   *)
(* the output of cmd for user N, "cmd <N" reads what user N left.          *)
(*                                                                         *)
(* The data lies in a file user_pipe/S-R; the shared table only records    *)
(* that the pipe S->R exists (user[R].name_pipe_record[S]).  A line checks *)
(* the table without the lock, changes the record under the lock, and      *)
(* touches the file later still, from a forked command.                    *)
(*                                                                         *)
(* A process here is the session that occupies a slot: RwgShm shows that   *)
(* no two living sessions share one.  The lock is abstracted: every        *)
(* critical section on the records is one step.                            *)
(***************************************************************************)
EXTENDS Integers

CONSTANTS
  QLEN,      \* slots of the user table
  MaxLines   \* lines typed in all; a bound for TLC only

ASSUME PipesAssumption ==
  QLEN \in Nat \ {0} /\ MaxLines \in Nat

Slots == 1..QLEN

VARIABLES
  pc,        \* per slot: what the session does; "free": valid = 0
  rec,       \* rec[r][s]: user[r].name_pipe_record[s]
  file,      \* file[r][s]: content of user_pipe/s-r, 0 empty, else a datum
  in, out,   \* user ids after < and > on the current line, 0 if absent
  inFlag,    \* name_pipe_in_flag and the file it names, 0 if unset
  outFlag,   \* name_pipe_out_flag and the file it names, 0 if unset
  ignore,    \* the line had an error
  lines,     \* lines typed, and the datum a command writes
  (* history *)
  restarted, \* the shared memory, records included, is a crashed server's
  done,      \* done[r][s]: datum completely written for the record, or 0
  due,       \* datum the reader was entitled to when it took the record
  misread    \* a reader got something else

line == <<in, out>>
hist == <<restarted, done, due, misread>>
vars == <<pc, rec, file, line, inFlag, outFlag, ignore, lines, hist>>

PCs == {"free", "ready", "recv", "take", "send", "mark", "exec", "write",
        "ghost"}
Ids == 0..QLEN

Valid(i) == pc[i] # "free"
None == [r \in Slots |-> [s \in Slots |-> FALSE]]
Zero == [r \in Slots |-> [s \in Slots |-> 0]]

Init ==
  /\ pc = [i \in Slots |-> "free"]
  /\ restarted \in BOOLEAN
  /\ rec \in IF restarted THEN [Slots -> [Slots -> BOOLEAN]] ELSE {None}
  /\ file = Zero
  /\ in = [i \in Slots |-> 0] /\ out = in
  /\ inFlag = in /\ outFlag = in
  /\ ignore = [i \in Slots |-> FALSE]
  /\ lines = 0
  /\ done = Zero /\ due = in /\ misread = FALSE

Goto(s, l) == pc' = [pc EXCEPT ![s] = l]

(* A client is given the slot; the records are not among the fields that   *)
(* np_multi_proc.cpp initialises.                                          *)
Login(s) ==
  /\ pc[s] = "free"
  /\ Goto(s, "ready")
  /\ inFlag' = [inFlag EXCEPT ![s] = 0]
  /\ outFlag' = [outFlag EXCEPT ![s] = 0]
  /\ ignore' = [ignore EXCEPT ![s] = FALSE]
  /\ UNCHANGED <<rec, file, line, lines, hist>>

(* A line with at most one < and one >, parsed in this order. *)
Line(s, a, b) ==
  /\ pc[s] = "ready" /\ lines < MaxLines
  /\ lines' = lines + 1
  /\ in' = [in EXCEPT ![s] = a] /\ out' = [out EXCEPT ![s] = b]
  /\ Goto(s, "recv")
  /\ UNCHANGED <<rec, file, inFlag, outFlag, ignore, hist>>

NoReceive(s) ==
  /\ pc[s] = "recv" /\ in[s] = 0
  /\ Goto(s, "send")
  /\ UNCHANGED <<rec, file, line, inFlag, outFlag, ignore, lines, hist>>

(* check_id_exist and check_name_pipe_exist, without the lock. *)
ReceiveCheck(s) ==
  /\ pc[s] = "recv" /\ in[s] # 0
  /\ IF Valid(in[s]) /\ rec[s][in[s]]
     THEN Goto(s, "take") /\ UNCHANGED ignore
     ELSE Goto(s, "send") /\ ignore' = [ignore EXCEPT ![s] = TRUE]
  /\ UNCHANGED <<rec, file, line, inFlag, outFlag, lines, hist>>

(* Mutant: the id is not shifted to the table's base. *)
Take_Unshifted(s) ==
  /\ pc[s] = "take"
  /\ inFlag' = [inFlag EXCEPT ![s] = in[s] + 1]
  /\ rec' = [rec EXCEPT ![s][in[s]] = FALSE]
  /\ due' = [due EXCEPT ![s] = done[s][in[s]]]
  /\ done' = [done EXCEPT ![s][in[s]] = 0]
  /\ Goto(s, "send")
  /\ UNCHANGED <<file, line, outFlag, ignore, lines, restarted, misread>>

Take(s) ==
  /\ pc[s] = "take"
  /\ inFlag' = [inFlag EXCEPT ![s] = in[s]]
  /\ rec' = [rec EXCEPT ![s][in[s]] = FALSE]
  /\ due' = [due EXCEPT ![s] = done[s][in[s]]]
  /\ done' = [done EXCEPT ![s][in[s]] = 0]
  /\ Goto(s, "send")
  /\ UNCHANGED <<file, line, outFlag, ignore, lines, restarted, misread>>

NoSend(s) ==
  /\ pc[s] = "send" /\ out[s] = 0
  /\ Goto(s, "exec")
  /\ UNCHANGED <<rec, file, line, inFlag, outFlag, ignore, lines, hist>>

(* Mutant: the pipe is not asked for, only the receiver. *)
SendCheck_Blind(s) ==
  /\ pc[s] = "send" /\ out[s] # 0
  /\ IF Valid(out[s])
     THEN Goto(s, "mark") /\ UNCHANGED ignore
     ELSE Goto(s, "exec") /\ ignore' = [ignore EXCEPT ![s] = TRUE]
  /\ UNCHANGED <<rec, file, line, inFlag, outFlag, lines, hist>>

SendCheck(s) ==
  /\ pc[s] = "send" /\ out[s] # 0
  /\ IF Valid(out[s]) /\ ~rec[out[s]][s]
     THEN Goto(s, "mark") /\ UNCHANGED ignore
     ELSE Goto(s, "exec") /\ ignore' = [ignore EXCEPT ![s] = TRUE]
  /\ UNCHANGED <<rec, file, line, inFlag, outFlag, lines, hist>>

(* The file is created if need be, not truncated.  The parse goes on after *)
(* an error, so an ignored line marks its output pipe as well.             *)
Mark(s) ==
  /\ pc[s] = "mark"
  /\ rec' = [rec EXCEPT ![out[s]][s] = TRUE]
  /\ outFlag' = [outFlag EXCEPT ![s] = out[s]]
  /\ Goto(s, "exec")
  /\ UNCHANGED <<file, line, inFlag, ignore, lines, hist>>

(* An ignored line runs nothing; the two flags live outside the loop and   *)
(* keep their values for the next line.                                    *)
Skip(s) ==
  /\ pc[s] = "exec" /\ ignore[s]
  /\ ignore' = [ignore EXCEPT ![s] = FALSE]
  /\ Goto(s, "ready")
  /\ UNCHANGED <<rec, file, line, inFlag, outFlag, lines, hist>>

(* A builtin (who, printenv, ...) opens neither file and leaves the flags. *)
Builtin(s) ==
  /\ pc[s] = "exec" /\ ~ignore[s]
  /\ Goto(s, "ready")
  /\ UNCHANGED <<rec, file, line, inFlag, outFlag, ignore, lines, hist>>

(* The command opens and reads its input file, whatever is in it by then.  *)
Read(s) ==
  /\ inFlag' = [inFlag EXCEPT ![s] = 0]
  /\ misread' = (misread \/ (inFlag[s] # 0 /\
                   (due[s] = 0 \/ file[s][inFlag[s]] # due[s])))
  /\ due' = [due EXCEPT ![s] = 0]

Run(s) ==
  /\ pc[s] = "exec" /\ ~ignore[s] /\ outFlag[s] = 0
  /\ Read(s)
  /\ Goto(s, "ready")
  /\ UNCHANGED <<rec, file, line, outFlag, ignore, lines, restarted, done>>

(* The output file is truncated before the input file is opened. *)
Open(s) ==
  /\ pc[s] = "exec" /\ ~ignore[s] /\ outFlag[s] # 0
  /\ file' = [file EXCEPT ![outFlag[s]][s] = 0]
  /\ Goto(s, "write")
  /\ UNCHANGED <<rec, line, inFlag, outFlag, ignore, lines, hist>>

(* With a flag left by an earlier line the file name is read uninitialised *)
(* from the stack: the old name (Open), or another one.                    *)
OpenElsewhere(s) ==
  /\ pc[s] = "exec" /\ ~ignore[s] /\ outFlag[s] # 0 /\ out[s] = 0
  /\ Read(s)
  /\ outFlag' = [outFlag EXCEPT ![s] = 0]
  /\ Goto(s, "ready")
  /\ UNCHANGED <<rec, file, line, ignore, lines, restarted, done>>

(* The command reads its input and writes; the session waits for it. *)
Write(s) ==
  /\ pc[s] = "write"
  /\ Read(s)
  /\ file' = [file EXCEPT ![outFlag[s]][s] = lines]
  /\ done' = IF rec[outFlag[s]][s]
             THEN [done EXCEPT ![outFlag[s]][s] = lines] ELSE done
  /\ outFlag' = [outFlag EXCEPT ![s] = 0]
  /\ Goto(s, "ready")
  /\ UNCHANGED <<rec, line, ignore, lines, restarted>>

(* Mutant: exit clears only the pipes that lead to the leaving user. *)
Exit_OwnRow(s) ==
  /\ pc[s] = "ready"
  /\ rec' = [rec EXCEPT ![s] = [j \in Slots |-> FALSE]]
  /\ done' = [done EXCEPT ![s] = [j \in Slots |-> 0]]
  /\ Goto(s, "free")
  /\ UNCHANGED <<file, line, inFlag, outFlag, ignore, lines, restarted, due,
                 misread>>

(* exit clears the records in both directions, then frees the slot. *)
Exit(s) ==
  /\ pc[s] = "ready"
  /\ rec'  = [r \in Slots |-> [t \in Slots |-> rec[r][t] /\ s \notin {r, t}]]
  /\ done' = [r \in Slots |-> [t \in Slots |->
                                 IF s \in {r, t} THEN 0 ELSE done[r][t]]]
  /\ Goto(s, "free")
  /\ UNCHANGED <<file, line, inFlag, outFlag, ignore, lines, restarted, due,
                 misread>>

(* SIGPIPE on the prompt: the session ends, its slot stays valid. *)
Die(s) ==
  /\ pc[s] = "ready"
  /\ Goto(s, "ghost")
  /\ UNCHANGED <<rec, file, line, inFlag, outFlag, ignore, lines, hist>>

Next ==
  \E s \in Slots :
    \/ Login(s) \/ Exit(s) \/ Die(s)
    \/ \E a, b \in Ids : Line(s, a, b)
    \/ NoReceive(s) \/ ReceiveCheck(s) \/ Take(s)
    \/ NoSend(s) \/ SendCheck(s) \/ Mark(s)
    \/ Skip(s) \/ Builtin(s) \/ Run(s) \/ Open(s) \/ OpenElsewhere(s) \/ Write(s)

Spec == Init /\ [][Next]_vars

-----------------------------------------------------------------------------
(* PROPERTIES *)

TypeOK ==
  /\ pc \in [Slots -> PCs]
  /\ rec \in [Slots -> [Slots -> BOOLEAN]]
  /\ file \in [Slots -> [Slots -> Nat]]
  /\ in \in [Slots -> Ids] /\ out \in [Slots -> Ids]
  /\ inFlag \in [Slots -> Ids] /\ outFlag \in [Slots -> Ids]
  /\ ignore \in [Slots -> BOOLEAN] /\ lines \in Nat
  /\ done \in [Slots -> [Slots -> Nat]] /\ due \in [Slots -> Nat]
  /\ restarted \in BOOLEAN /\ misread \in BOOLEAN

(* A pipe exists only while its sender's slot is occupied: the exit of the *)
(* sender wins over every receive and every other send that is under way,  *)
(* so the next user of the slot starts with no pipe it did not make.       *)
SenderIsThere ==
  ~restarted => \A r, s \in Slots : rec[r][s] => Valid(s)

(* Although the check and the update are not one critical section, nobody  *)
(* marks a pipe that exists already: only the sender's own session marks.  *)
MarksAreFresh ==
  [][\A r, s \in Slots : pc[s] = "mark" /\ pc'[s] # "mark" /\ out[s] = r
                           => ~rec[r][s]]_vars

(* What was completely piped stays in the file until its record is taken   *)
(* or one of the two users leaves: no other line, not even one that runs   *)
(* with flags left by an ignored line, overwrites it.                      *)
UntakenKept ==
  \A r, s \in Slots : done[r][s] # 0 => rec[r][s] /\ file[r][s] = done[r][s]

-----------------------------------------------------------------------------
(* What the repository says and the code does not do. *)

(* npshell_3.h:197: a user who "just received from" another got what that  *)
(* user had piped to it.                                                   *)
ReceivesWhatWasPiped == ~restarted => ~misread
=============================================================================
