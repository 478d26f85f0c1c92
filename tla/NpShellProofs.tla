---------------------------- MODULE NpShellProofs ----------------------------
(***************************************************************************)
(* TLAPS proofs about NpShell, for every number of lines, commands, output *)
(* units and every size of a pipe: numbered pipes reach the line they were *)
(* made for, and no command keeps its own input open (npshell_1.h).        *)
(***************************************************************************)
EXTENDS NpShell, TLAPS

-----------------------------------------------------------------------------
(* The inductive invariant. *)

(* While a line runs there is a command of it to run next; the line after  *)
(* a batch file is read at the prompt, for ever.                           *)
Running ==
  /\ st = "exec" => prc \in 1..Len(line.cmds)
  /\ ignore => st = "prompt"

(* num_pipe_vec counts what is missing of the line each pipe was made for. *)
Countdown == ~ignore => \A e \in vec : due[e.pipe] = count + e.rest

(* The pipe of an ordinary "|" has its write end in the children only. *)
OrdinaryInput == fdIn # 0 => fdIn \notin wr

IInv == /\ TypeOK /\ Running /\ Countdown /\ OrdinaryInput
        /\ OnePipePerLine /\ OnTime /\ InputCanEnd

-----------------------------------------------------------------------------
(* Lines and records of commands. *)

LEMMA LineShape ==
  ASSUME NEW l \in Lines
  PROVE  /\ Len(l.cmds) \in 1..2 /\ l.n \in Nat
         /\ Piped(l) => l.n >= 1
<1>1. l.cmds \in Commands /\ l.n \in {0} \cup (1..MaxN) /\ (Piped(l) => l.n \in 1..MaxN)
  BY DEF Lines, Piped
<1>2. PICK w \in 1..Width : l.cmds \in [1..w -> Kinds]
  BY <1>1 DEF Commands
<1>3. Len(l.cmds) = w
  BY <1>2, ShellAssumption
<1>4. w \in 1..2
  BY ShellAssumption
<1>q. QED
  BY <1>1, <1>3, <1>4, ShellAssumption

LEMMA NoLineShape == NoLine \in Lines /\ Len(NoLine.cmds) = 1
<1>1. <<"builtin">> \in [1..1 -> Kinds]
  BY DEF Kinds
<1>2. <<"builtin">> \in Commands
  BY <1>1, ShellAssumption DEF Commands
<1>q. QED
  BY <1>2 DEF NoLine, Lines

LEMMA ChildShape ==
  ASSUME NEW k \in Children
  PROVE  /\ k.id \in Nat \X (1..3) /\ k.in \in Ends /\ k.out \in Ends /\ k.took \in Ends
         /\ k.held \subseteq Pipes /\ k.left \in 0..Output
         /\ \A n \in 0..Output : /\ [k EXCEPT !.left = n] \in Children
                                 /\ [k EXCEPT !.left = n].id = k.id
                                 /\ [k EXCEPT !.left = n].in = k.in
                                 /\ [k EXCEPT !.left = n].took = k.took
                                 /\ [k EXCEPT !.left = n].held = k.held
BY DEF Children

(* A pipe more: what was a pipe is one still. *)
LEMMA OneMorePipe ==
  ASSUME TypeOK, NEW d \in Nat
  PROVE  /\ Append(buf, 0) \in Seq(0..Capacity) /\ Append(due, d) \in Seq(Nat)
         /\ Len(Append(buf, 0)) = Len(buf) + 1 /\ Len(Append(due, d)) = Len(buf) + 1
         /\ Len(buf) \in Nat /\ Pipes \subseteq 1..Len(Append(buf, 0))
         /\ Len(buf) + 1 \in 1..Len(Append(buf, 0)) /\ Len(buf) + 1 \notin Ends
         /\ \A p \in Pipes : Append(due, d)[p] = due[p]
         /\ Append(due, d)[Len(buf) + 1] = d
         /\ \A p \in 1..Len(Append(buf, 0)) : p \in Pipes \/ p = Len(buf) + 1
<1>1. buf \in Seq(0..Capacity) /\ due \in Seq(Nat) /\ Len(due) = Len(buf) /\ 0 \in 0..Capacity
  BY ShellAssumption DEF TypeOK
<1>2. Len(buf) \in Nat
  BY <1>1
<1>3. /\ Append(buf, 0) \in Seq(0..Capacity) /\ Append(due, d) \in Seq(Nat)
      /\ Len(Append(buf, 0)) = Len(buf) + 1 /\ Len(Append(due, d)) = Len(buf) + 1
  BY <1>1
<1>4. /\ \A p \in Pipes : Append(due, d)[p] = due[p]
      /\ Append(due, d)[Len(buf) + 1] = d
  BY <1>1, <1>2 DEF Pipes
<1>q. QED
  BY <1>2, <1>3, <1>4 DEF Pipes, Ends

(* A shell that has more pipes: everything that was in range still is. *)
LEMMA MorePipes ==
  ASSUME TypeOK, Pipes \subseteq Pipes'
  PROVE  /\ Ends \subseteq Ends' /\ Children \subseteq Children'
         /\ vec \subseteq [rest : Int, pipe : Pipes'] /\ wr \subseteq Pipes'
BY DEF TypeOK, Ends, Children

LEMMA InitInv == Init => IInv
<1> SUFFICES ASSUME Init PROVE IInv
  OBVIOUS
<1>1. buf = <<>> /\ due = <<>> /\ <<>> \in Seq(0..Capacity) /\ <<>> \in Seq(Nat)
  BY DEF Init
<1>2. TypeOK
  <2>1. Len(buf) = 0 /\ Len(due) = 0
    BY <1>1
  <2>2. /\ inFlag \in BOOLEAN /\ outFlag \in BOOLEAN
        /\ errFlag \in BOOLEAN /\ fileFlag \in BOOLEAN /\ ignore \in BOOLEAN
    BY DEF Init
  <2>3. typed \in 0..MaxCommands /\ batch \in -1..MaxBatch
    BY ShellAssumption DEF Init
  <2>q. QED
    BY <1>1, <2>1, <2>2, <2>3, NoLineShape DEF Init, TypeOK, Ends
<1>3. Running /\ Countdown /\ OrdinaryInput /\ OnePipePerLine /\ InputCanEnd
  BY DEF Init, Running, Countdown, OrdinaryInput, OnePipePerLine, InputCanEnd
<1>4. OnTime
  <2>1. Pipes = {}
    BY <1>1 DEF Pipes
  <2>q. QED
    BY <2>1 DEF Init, OnTime
<1>q. QED
  BY <1>2, <1>3, <1>4 DEF IInv

-----------------------------------------------------------------------------
(* The steps that leave the pipes and the commands alone. *)

Quiet ==
  \/ Builtin \/ Exit \/ Waited \/ BatchEnds \/ EmptyLine \/ IgnoreLine
  \/ \E k \in 1..MaxBatch : Batch(k)

(* The next command of the line. *)
LEMMA AdvanceShape ==
  ASSUME TypeOK, Running, st = "exec", Advance
  PROVE  /\ st' \in {"exec", "prompt", "wait"} /\ prc' \in 1..3
         /\ st' = "exec" => prc' \in 1..Len(line.cmds)
<1>1. Len(line.cmds) \in 1..2 /\ prc \in 1..Len(line.cmds)
  BY LineShape DEF TypeOK, Running
<1>2. prc' = prc + 1 /\ st' \in {"exec", "prompt", "wait"}
  BY DEF Advance
<1>3. st' = "exec" => prc # Len(line.cmds)
  BY DEF Advance, Last
<1>4. \A n \in 1..2 : prc \in 1..n =>
        prc + 1 \in 1..3 /\ (prc # n => prc + 1 \in 1..n)
  OBVIOUS
<1>q. QED
  BY <1>1, <1>2, <1>3, <1>4

LEMMA QuietType == ASSUME TypeOK, Running, Quiet PROVE TypeOK'
<1>1. CASE Builtin
  <2>1. st' \in {"exec", "prompt", "wait"} /\ prc' \in 1..3
    BY <1>1, AdvanceShape DEF Builtin
  <2>q. QED
    BY <1>1, <2>1 DEF TypeOK, Builtin, flags, mode, Ends, Pipes, Children
<1>2. CASE Exit
  BY <1>2 DEF TypeOK, Exit, parse, flags, mode, Ends, Pipes, Children
<1>3. CASE Waited
  BY <1>3 DEF TypeOK, Waited, parse, flags, mode, Ends, Pipes, Children
<1>4. CASE BatchEnds
  BY <1>4, ShellAssumption DEF TypeOK, BatchEnds, parse, flags, mode, Ends, Pipes, Children
<1>5. CASE EmptyLine
  BY <1>5 DEF TypeOK, EmptyLine, parse, flags, mode, Ends, Pipes, Children
<1>6. CASE IgnoreLine
  BY <1>6 DEF TypeOK, IgnoreLine, parse, flags, mode, Ends, Pipes, Children
<1>7. ASSUME NEW k \in 1..MaxBatch, Batch(k) PROVE TypeOK'
  <2>1. st' \in {"exec", "prompt", "wait"} /\ prc' \in 1..3
    BY <1>7, AdvanceShape DEF Batch
  <2>2. batch' \in -1..MaxBatch
    BY <1>7, ShellAssumption DEF Batch
  <2>q. QED
    BY <1>7, <2>1, <2>2 DEF TypeOK, Batch, flags, mode, Ends, Pipes, Children
<1>q. QED
  BY <1>1, <1>2, <1>3, <1>4, <1>5, <1>6, <1>7 DEF Quiet

LEMMA QuietRunning == ASSUME TypeOK, Running, Quiet PROVE Running'
<1>1. CASE Builtin
  BY <1>1, AdvanceShape DEF Running, Builtin, flags, mode
<1>2. CASE Exit \/ Waited \/ BatchEnds \/ EmptyLine \/ IgnoreLine
  BY <1>2 DEF Running, Exit, Waited, BatchEnds, EmptyLine, IgnoreLine, Reading, parse, flags, mode
<1>3. ASSUME NEW k \in 1..MaxBatch, Batch(k) PROVE Running'
  BY <1>3, AdvanceShape DEF Running, Batch, flags, mode
<1>q. QED
  BY <1>1, <1>2, <1>3 DEF Quiet

LEMMA QuietEffect ==
  ASSUME TypeOK, Quiet
  PROVE  /\ UNCHANGED <<vec, fdIn, wr, kids, buf, due>>
         /\ \/ count' = count /\ ignore' = ignore
            \/ ignore' = TRUE /\ count' \in {count, count + 1}
BY DEF Quiet, Builtin, Exit, Waited, BatchEnds, EmptyLine, IgnoreLine, Batch, Reading, flags,
       parse, mode, TypeOK

LEMMA QuietInv == ASSUME IInv, Quiet PROVE IInv'
<1>1. TypeOK /\ Running /\ TypeOK' /\ Running'
  BY QuietType, QuietRunning DEF IInv
<1>2. /\ UNCHANGED <<vec, fdIn, wr, kids, buf, due>>
      /\ \/ count' = count /\ ignore' = ignore
         \/ ignore' = TRUE /\ count' \in {count, count + 1}
  BY <1>1, QuietEffect
<1>3. Countdown'
  BY <1>2 DEF IInv, Countdown
<1>4. OrdinaryInput' /\ OnePipePerLine' /\ InputCanEnd'
  BY <1>2 DEF IInv, OrdinaryInput, OnePipePerLine, InputCanEnd
<1>5. OnTime'
  <2>1. Pipes' = Pipes /\ count' >= count /\ \A p \in Pipes : due[p] \in Nat
    BY <1>1, <1>2 DEF Pipes, TypeOK
  <2>2. ASSUME NEW p \in Pipes, due[p] > count' PROVE due[p] > count
    BY <2>1, <2>2, <1>1 DEF TypeOK
  <2>q. QED
    BY <1>2, <2>1, <2>2 DEF IInv, OnTime
<1>q. QED
  BY <1>1, <1>3, <1>4, <1>5 DEF IInv

-----------------------------------------------------------------------------
(* A line is read: num_pipe_vec counts down, and a pipe may be made. *)

LEMMA CountDownShape ==
  ASSUME TypeOK
  PROVE  /\ CountDown(vec) \subseteq [rest : Int, pipe : Pipes]
         /\ \A f \in vec : \E e \in CountDown(vec) : e.pipe = f.pipe
         /\ \A e \in CountDown(vec) :
              \E f \in vec : f.pipe = e.pipe /\ f.rest = e.rest + 1
         /\ OnePipePerLine => \A e, f \in CountDown(vec) : e.rest = f.rest => e = f
<1>1. \A f \in vec : f \in [rest : Int, pipe : Pipes]
  BY DEF TypeOK
<1>2. \A f \in vec : LET e == [f EXCEPT !.rest = @ - 1]
                     IN /\ e \in [rest : Int, pipe : Pipes]
                        /\ e.pipe = f.pipe /\ f.rest = e.rest + 1
  BY <1>1
<1>3. \A f \in vec : [f EXCEPT !.rest = @ - 1] \in CountDown(vec)
  BY DEF CountDown
<1>4. \A e \in CountDown(vec) : \E f \in vec : e = [f EXCEPT !.rest = @ - 1]
  BY DEF CountDown
<1>5. CountDown(vec) \subseteq [rest : Int, pipe : Pipes]
  BY <1>2, <1>4
<1>6. \A f \in vec : \E e \in CountDown(vec) : e.pipe = f.pipe
  BY <1>2, <1>3
<1>7. \A e \in CountDown(vec) : \E f \in vec : f.pipe = e.pipe /\ f.rest = e.rest + 1
  BY <1>2, <1>4
<1>8. ASSUME OnePipePerLine, NEW e \in CountDown(vec), NEW f \in CountDown(vec), e.rest = f.rest
      PROVE  e = f
  <2>1. PICK a \in vec : e = [a EXCEPT !.rest = @ - 1]
    BY <1>4
  <2>2. PICK b \in vec : f = [b EXCEPT !.rest = @ - 1]
    BY <1>4
  <2>3. a.rest = e.rest + 1 /\ b.rest = f.rest + 1
    BY <1>2, <2>1, <2>2
  <2>4. a = b
    BY <1>8, <2>3 DEF OnePipePerLine
  <2>q. QED
    BY <2>1, <2>2, <2>4
<1>q. QED
  BY <1>5, <1>6, <1>7, <1>8

(* The line shares a pipe or needs none: no pipe is made. *)
Shares ==
  /\ UNCHANGED <<buf, due, wr>>
  /\ vec' = CountDown(vec) /\ outPipe' \in Ends

(* The line makes a pipe, n lines before it is due. *)
Makes(n) ==
  /\ n \in Nat \ {0} /\ \A e \in CountDown(vec) : e.rest # n
  /\ outPipe' = Len(buf) + 1
  /\ vec' = CountDown(vec) \cup {[rest |-> n, pipe |-> Len(buf) + 1]}
  /\ buf' = Append(buf, 0) /\ due' = Append(due, count' + n)
  /\ wr' = wr \cup {Len(buf) + 1}

LEMMA LinePipes ==
  ASSUME TypeOK, NEW l \in Lines, ReadLine(l)
  PROVE  Shares \/ \E n \in Nat : Makes(n)
<1>1. l.n \in Nat /\ (Piped(l) => l.n >= 1)
  BY LineShape
<1>2. CASE Piped(l) /\ Target(l, CountDown(vec))
  <2>1. PICK e \in CountDown(vec) : outPipe' = e.pipe
    BY <1>2 DEF Target
  <2>2. e.pipe \in Ends
    BY CountDownShape DEF Ends
  <2>q. QED
    BY <1>2, <2>1, <2>2 DEF Target, Shares
<1>3. CASE Piped(l) /\ NewTarget(l, CountDown(vec))
  BY <1>1, <1>3 DEF NewTarget, Makes
<1>4. CASE ~Piped(l)
  BY <1>4 DEF ReadLine, Shares, Ends
<1>q. QED
  BY <1>2, <1>3, <1>4 DEF ReadLine

LEMMA LineTables ==
  ASSUME TypeOK, NEW l \in Lines, ReadLine(l)
  PROVE  /\ vec' \subseteq [rest : Int, pipe : Pipes'] /\ outPipe' \in Ends'
         /\ wr' \subseteq Pipes' /\ Pipes \subseteq Pipes' /\ Ends \subseteq Ends'
         /\ buf' \in Seq(0..Capacity) /\ due' \in Seq(Nat) /\ Len(due') = Len(buf')
         /\ \A p \in Pipes : due'[p] = due[p]
         /\ \A p \in Ends : p \in wr' => p \in wr
<1>1. CountDown(vec) \subseteq [rest : Int, pipe : Pipes] /\ wr \subseteq Pipes
  BY CountDownShape DEF TypeOK
<1>2. CASE Shares
  BY <1>1, <1>2 DEF Shares, TypeOK, Pipes, Ends
<1>3. ASSUME NEW n \in Nat, Makes(n)
      PROVE  /\ vec' \subseteq [rest : Int, pipe : Pipes'] /\ outPipe' \in Ends'
             /\ wr' \subseteq Pipes' /\ Pipes \subseteq Pipes' /\ Ends \subseteq Ends'
             /\ buf' \in Seq(0..Capacity) /\ due' \in Seq(Nat) /\ Len(due') = Len(buf')
             /\ \A p \in Pipes : due'[p] = due[p]
             /\ \A p \in Ends : p \in wr' => p \in wr
  <2>1. count' + n \in Nat
    BY <1>3 DEF ReadLine, TypeOK
  <2>2. /\ buf' \in Seq(0..Capacity) /\ due' \in Seq(Nat)
        /\ Len(due') = Len(buf') /\ Pipes \subseteq Pipes'
        /\ Len(buf) + 1 \in Pipes' /\ Len(buf) + 1 \notin Ends
        /\ \A p \in Pipes : due'[p] = due[p]
    BY <1>3, <2>1, OneMorePipe DEF Makes, Pipes
  <2>3. /\ vec' = CountDown(vec) \cup {[rest |-> n, pipe |-> Len(buf) + 1]}
        /\ outPipe' = Len(buf) + 1 /\ wr' = wr \cup {Len(buf) + 1}
    BY <1>3 DEF Makes
  <2>4. [rest |-> n, pipe |-> Len(buf) + 1] \in [rest : Int, pipe : Pipes']
    BY <2>2
  <2>5. vec' \subseteq [rest : Int, pipe : Pipes']
    BY <1>1, <2>2, <2>3, <2>4
  <2>q. QED
    BY <1>1, <2>2, <2>3, <2>5 DEF Ends
<1>q. QED
  BY <1>2, <1>3, LinePipes

LEMMA ReadLineType == ASSUME TypeOK, NEW l \in Lines, ReadLine(l) PROVE TypeOK'
<1>1. Len(l.cmds) \in 1..2
  BY LineShape
<1>2. st' \in {"prompt", "exec", "wait", "gone", "lost"} /\ prc' \in 1..3 /\ line' \in Lines
  BY DEF ReadLine
<1>3. count' \in Nat /\ typed' \in 0..MaxCommands
  BY <1>1, ShellAssumption DEF ReadLine, TypeOK
<1>4. /\ inFlag' \in BOOLEAN /\ outFlag' \in BOOLEAN
      /\ errFlag' \in BOOLEAN /\ fileFlag' \in BOOLEAN
  BY DEF ReadLine, TypeOK
<1>5. batch' \in -1..MaxBatch /\ ignore' \in BOOLEAN
  BY ShellAssumption DEF ReadLine, TypeOK
<1>6. fdIn' \in Ends' /\ kids' \subseteq Children'
  BY LineTables, MorePipes DEF ReadLine, TypeOK, Ends
<1>q. QED
  BY <1>2, <1>3, <1>4, <1>5, <1>6, LineTables DEF TypeOK

LEMMA ReadLineInv == ASSUME IInv, NEW l \in Lines, ReadLine(l) PROVE IInv'
<1>1. TypeOK /\ TypeOK' /\ OnePipePerLine /\ Countdown /\ OnTime /\ InputCanEnd
  BY ReadLineType DEF IInv
<1>2. /\ UNCHANGED <<kids, ignore>> /\ fdIn' = 0 /\ ~ignore
      /\ count' = count + 1 /\ count \in Nat
  BY <1>1 DEF ReadLine, Reading, TypeOK
<1>3. Running'
  <2>1. line' = l /\ prc' = 1 /\ ignore' = ignore
    BY DEF ReadLine
  <2>2. Len(l.cmds) \in 1..2
    BY LineShape
  <2>3. 1 \in 1..Len(l.cmds)
    BY <2>2
  <2>q. QED
    BY <1>2, <2>1, <2>3 DEF Running
<1>4. OrdinaryInput'
  BY <1>2 DEF OrdinaryInput
<1>5. /\ \A p \in Pipes : due'[p] = due[p]
      /\ \A p \in Ends : p \in wr' => p \in wr
      /\ \A p \in Pipes : due[p] \in Nat
  <2>1. \A p \in Pipes : due[p] \in Nat
    BY <1>1 DEF TypeOK, Pipes
  <2>2. (\A p \in Pipes : due'[p] = due[p]) /\ \A p \in Ends : p \in wr' => p \in wr
    BY <1>1, LineTables
  <2>q. QED
    BY <2>1, <2>2
<1>6. \A k \in kids : k.in \in Ends /\ k.took \in Ends
  BY <1>1, ChildShape DEF TypeOK
<1>7. InputCanEnd'
  BY <1>1, <1>2, <1>5, <1>6 DEF InputCanEnd
<1>8. \A k \in kids' : k.took # 0 => due'[k.took] = k.id[1]
  BY <1>1, <1>2, <1>5, <1>6 DEF OnTime, Ends
<1>9. \A e \in CountDown(vec) :
        e.rest \in Int /\ e.pipe \in Pipes /\ due'[e.pipe] = count' + e.rest
  <2> SUFFICES ASSUME NEW e \in CountDown(vec)
               PROVE  e.rest \in Int /\ e.pipe \in Pipes /\ due'[e.pipe] = count' + e.rest
    OBVIOUS
  <2>1. e.rest \in Int /\ e.pipe \in Pipes
    BY <1>1, CountDownShape
  <2>2. PICK f \in vec : f.pipe = e.pipe /\ f.rest = e.rest + 1
    BY <1>1, CountDownShape
  <2>3. due[f.pipe] = count + f.rest
    BY <1>1, <1>2 DEF Countdown
  <2>q. QED
    BY <1>2, <1>5, <2>1, <2>2, <2>3
<1>10. ASSUME NEW p \in Pipes, due[p] > count' PROVE \E e \in CountDown(vec) : e.pipe = p
  <2>1. due[p] > count
    BY <1>2, <1>5, <1>10
  <2>2. PICK f \in vec : f.pipe = p
    BY <1>1, <2>1 DEF OnTime
  <2>q. QED
    BY <1>1, <2>2, CountDownShape
<1>11. CASE Shares
  <2>1. vec' = CountDown(vec) /\ due' = due /\ Pipes' = Pipes
    BY <1>11 DEF Shares, Pipes
  <2>2. Countdown' /\ OnePipePerLine'
    BY <1>1, <1>9, <2>1, CountDownShape DEF Countdown, OnePipePerLine
  <2>3. OnTime'
    BY <1>8, <1>10, <2>1 DEF OnTime
  <2>q. QED
    BY <1>1, <1>3, <1>4, <1>7, <2>2, <2>3 DEF IInv
<1>12. ASSUME NEW n \in Nat, Makes(n) PROVE IInv'
  <2> DEFINE q == Len(buf) + 1
             new == [rest |-> n, pipe |-> q]
  <2>1. /\ vec' = CountDown(vec) \cup {new} /\ \A e \in CountDown(vec) : e.rest # n
        /\ buf' = Append(buf, 0) /\ due' = Append(due, count' + n)
    BY <1>12 DEF Makes
  <2>2. count' + n \in Nat
    BY <1>2
  <2>3. due'[q] = count' + n /\ \A p \in Pipes' : p \in Pipes \/ p = q
    BY <1>1, <2>1, <2>2, OneMorePipe DEF Pipes
  <2>4. new.rest = n /\ new.pipe = q
    OBVIOUS
  <2>5. Countdown'
    <3> HIDE DEF new, q
    <3>1. \A e \in vec' : due'[e.pipe] = count' + e.rest
      BY <1>9, <2>1, <2>3, <2>4
    <3>q. QED
      BY <3>1 DEF Countdown
  <2>6. OnePipePerLine'
    BY <1>1, <2>1, CountDownShape DEF OnePipePerLine
  <2>7. ASSUME NEW p \in Pipes', due'[p] > count' PROVE \E e \in vec' : e.pipe = p
    <3>1. CASE p \in Pipes
      BY <1>5, <1>10, <2>1, <2>7, <3>1
    <3>2. CASE p = q
      BY <2>1, <2>4, <3>2
    <3>q. QED
      BY <2>3, <3>1, <3>2
  <2>8. OnTime'
    BY <1>8, <2>7 DEF OnTime
  <2>q. QED
    BY <1>1, <1>3, <1>4, <1>7, <2>5, <2>6, <2>8 DEF IInv
<1>q. QED
  BY <1>1, <1>11, <1>12, LinePipes

-----------------------------------------------------------------------------
(* A command is run: the three ways have the fork in common. *)

(* The child c was forked.  What it reads is a pipe whose write end the    *)
(* shell has closed, and a numbered one only if it is due on this line.    *)
Forked(c, out, held) ==
  /\ kids' = kids \cup {c} /\ c.id = <<count, prc>>
  /\ c.in \in Ends /\ c.took \in Ends /\ c.left \in 0..Output
  /\ c.out = out /\ c.held = wr' \cup held
  /\ c = [id |-> c.id, out |-> c.out, held |-> c.held, in |-> c.in, left |-> c.left,
          took |-> c.took]
  /\ c.in # 0 => c.in \notin wr'
  /\ c.took # 0 => due[c.took] = count

LEMMA SpawnForks ==
  ASSUME IInv, st = "exec", NEW out, NEW held, Spawn(out, held)
  PROVE  /\ \E c : Forked(c, out, held)
         /\ wr' = wr \ Due /\ inFlag' = FALSE
         /\ vec' \subseteq vec /\ \A e \in vec : e.rest # 0 => e \in vec'
<1>1. TypeOK /\ ~ignore /\ Countdown /\ OrdinaryInput
  BY DEF IInv, Running
<1>2. wr' = wr \ Due /\ inFlag' = FALSE
  BY DEF Spawn
<1>3. vec' \subseteq vec /\ \A e \in vec : e.rest # 0 => e \in vec'
  BY DEF Spawn
<1>4. PICK in \in Input, runs \in BOOLEAN :
         kids' = kids \cup {Child(in, runs, out, wr' \cup held)}
  BY DEF Spawn
<1>5. \A p \in Due : p \in Pipes /\ due[p] = count
  BY <1>1 DEF Due, Countdown, TypeOK
<1>6. 0 \in Ends /\ fdIn \in Ends /\ Pipes \subseteq Ends
  BY <1>1 DEF TypeOK, Ends
<1>7. in \in Ends /\ (in # 0 => in \notin wr')
  BY <1>1, <1>2, <1>5, <1>6 DEF Input, OrdinaryInput
<1>8. inFlag /\ in # 0 => due[in] = count
  BY <1>5 DEF Input
<1> DEFINE c == Child(in, runs, out, wr' \cup held)
<1>9. /\ c.id = <<count, prc>> /\ c.out = out /\ c.held = wr' \cup held
      /\ c.in = (IF runs THEN in ELSE 0) /\ c.left = (IF runs THEN Output ELSE 0)
      /\ c.took = (IF inFlag THEN in ELSE 0)
      /\ c = [id |-> c.id, out |-> c.out, held |-> c.held, in |-> c.in, left |-> c.left,
              took |-> c.took]
  BY DEF Child
<1> HIDE DEF c
<1>10. c.left \in 0..Output
  BY <1>9, ShellAssumption
<1>11. Forked(c, out, held)
  <2>1. c.in \in Ends /\ c.took \in Ends /\ (c.in # 0 => c.in \notin wr')
    BY <1>6, <1>7, <1>9
  <2>2. c.took # 0 => due[c.took] = count
    BY <1>8, <1>9
  <2>q. QED
    BY <1>4, <1>9, <1>10, <2>1, <2>2 DEF Forked, c
<1>q. QED
  BY <1>2, <1>3, <1>11

(* What the rest of the step leaves true, for the pipes there were. *)
LEMMA ForkInv ==
  ASSUME IInv, TypeOK', Running', OrdinaryInput', st = "exec",
         NEW out, NEW held, Spawn(out, held), held \cap Ends = {},
         count' = count, Pipes \subseteq Pipes',
         \A p \in Pipes : due'[p] = due[p],
         \A p \in Pipes' : p \in Pipes \/ due'[p] = 0
  PROVE  IInv'
<1>1. TypeOK /\ ~ignore /\ Countdown /\ OnePipePerLine /\ OnTime /\ InputCanEnd /\ count \in Nat
  BY DEF IInv, Running, TypeOK
<1>2. PICK c : Forked(c, out, held)
  BY SpawnForks
<1>3. /\ wr' = wr \ Due
      /\ vec' \subseteq vec /\ \A e \in vec : e.rest # 0 => e \in vec'
  BY SpawnForks
<1>4. \A k \in kids : k.in \in Ends /\ k.took \in Ends
  BY <1>1, ChildShape DEF TypeOK
<1>5. \A e \in vec : e.pipe \in Pipes /\ e.rest \in Int /\ due[e.pipe] = count + e.rest
  BY <1>1 DEF TypeOK, Countdown
<1>6. Countdown'
  BY <1>3, <1>5 DEF Countdown
<1>7. OnePipePerLine'
  BY <1>1, <1>3 DEF OnePipePerLine
<1>8. InputCanEnd'
  BY <1>1, <1>2, <1>3 DEF InputCanEnd, Forked
<1>9. OnTime'
  <2>1. ASSUME NEW k \in kids', k.took # 0 PROVE due'[k.took] = k.id[1]
    <3>1. CASE k \in kids
      BY <1>1, <1>4, <2>1, <3>1 DEF OnTime, Ends
    <3>2. CASE k = c
      BY <1>2, <2>1, <3>2 DEF Forked, Ends
    <3>q. QED
      BY <1>2, <3>1, <3>2 DEF Forked
  <2>2. ASSUME NEW p \in Pipes', due'[p] > count' PROVE \E e \in vec' : e.pipe = p
    <3>1. p \in Pipes /\ due[p] > count
      BY <1>1, <2>2
    <3>2. PICK e \in vec : e.pipe = p
      BY <1>1, <3>1 DEF OnTime
    <3>3. e.rest # 0
      BY <1>1, <1>5, <3>1, <3>2
    <3>q. QED
      BY <1>3, <3>2, <3>3
  <2>q. QED
    BY <2>1, <2>2 DEF OnTime
<1>q. QED
  BY <1>6, <1>7, <1>8, <1>9 DEF IInv

LEMMA ForkType ==
  ASSUME IInv, st = "exec", NEW out, NEW held, Spawn(out, held),
         Pipes \subseteq Pipes', out \in Ends', held \subseteq Pipes'
  PROVE  /\ vec' \subseteq [rest : Int, pipe : Pipes'] /\ inFlag' \in BOOLEAN
         /\ wr' \subseteq Pipes' /\ kids' \subseteq Children' /\ Ends \subseteq Ends'
<1>1. TypeOK
  BY DEF IInv
<1>2. PICK c : Forked(c, out, held)
  BY SpawnForks
<1>3. wr' = wr \ Due /\ inFlag' = FALSE /\ vec' \subseteq vec
  BY SpawnForks
<1>4. /\ Ends \subseteq Ends' /\ Children \subseteq Children'
      /\ vec \subseteq [rest : Int, pipe : Pipes'] /\ wr \subseteq Pipes'
  BY <1>1, MorePipes
<1>5. c.id \in Nat \X (1..3)
  BY <1>1, <1>2 DEF Forked, TypeOK
<1>6. c.held \subseteq Pipes' /\ c.in \in Ends' /\ c.took \in Ends' /\ c.out \in Ends'
  BY <1>2, <1>3, <1>4 DEF Forked
<1>7. c \in Children'
  BY <1>2, <1>5, <1>6 DEF Forked, Children
<1>8. kids' \subseteq Children'
  BY <1>1, <1>2, <1>4, <1>7 DEF Forked, TypeOK
<1>q. QED
  BY <1>3, <1>4, <1>8

LEMMA ToFileInv == ASSUME IInv, ToFile PROVE IInv'
<1>1. TypeOK /\ st = "exec" /\ Spawn(0, {}) /\ prc \in 1..2
  BY LineShape DEF IInv, ToFile, Running, Last, TypeOK
<1>2. Pipes' = Pipes /\ Ends' = Ends /\ 0 \in Ends
  BY DEF ToFile, Pipes, Ends
<1>3. /\ vec' \subseteq [rest : Int, pipe : Pipes'] /\ inFlag' \in BOOLEAN
      /\ wr' \subseteq Pipes' /\ kids' \subseteq Children'
  BY <1>1, <1>2, ForkType
<1>4. st' \in {"lost", "prompt", "wait"} /\ ignore' = ignore /\ ~ignore
  BY <1>1 DEF ToFile, CloseIn, mode, IInv, Running
<1>5. TypeOK'
  <2>1. prc' \in 1..3
    BY <1>1 DEF ToFile
  <2>q. QED
    BY <1>1, <1>2, <1>3, <1>4, <2>1 DEF ToFile, TypeOK, mode
<1>6. Running'
  BY <1>4 DEF Running
<1>7. OrdinaryInput'
  <2>1. wr' \subseteq wr
    BY <1>1, SpawnForks
  <2>q. QED
    BY <2>1 DEF ToFile, OrdinaryInput, IInv
<1>8. count' = count /\ due' = due
  BY DEF ToFile
<1>q. QED
  BY <1>1, <1>2, <1>5, <1>6, <1>7, <1>8, ForkInv

LEMMA ToNumberedInv == ASSUME IInv, ToNumbered PROVE IInv'
<1>1. TypeOK /\ st = "exec" /\ Spawn(outPipe, {}) /\ prc \in 1..2
  BY LineShape DEF IInv, ToNumbered, Running, Last, TypeOK
<1>2. Pipes' = Pipes /\ Ends' = Ends /\ outPipe \in Ends
  BY <1>1 DEF ToNumbered, Pipes, Ends, TypeOK
<1>3. /\ vec' \subseteq [rest : Int, pipe : Pipes'] /\ inFlag' \in BOOLEAN
      /\ wr' \subseteq Pipes' /\ kids' \subseteq Children'
  BY <1>1, <1>2, ForkType
<1>4. st' \in {"lost", "prompt", "wait"} /\ ignore' = ignore /\ ~ignore
  BY <1>1 DEF ToNumbered, CloseIn, mode, IInv, Running
<1>5. TypeOK'
  <2>1. prc' \in 1..3
    BY <1>1 DEF ToNumbered
  <2>q. QED
    BY <1>1, <1>2, <1>3, <1>4, <2>1 DEF ToNumbered, TypeOK, mode
<1>6. Running'
  BY <1>4 DEF Running
<1>7. OrdinaryInput'
  <2>1. wr' \subseteq wr
    BY <1>1, SpawnForks
  <2>q. QED
    BY <2>1 DEF ToNumbered, OrdinaryInput, IInv
<1>8. count' = count /\ due' = due
  BY DEF ToNumbered
<1>q. QED
  BY <1>1, <1>2, <1>5, <1>6, <1>7, <1>8, ForkInv

LEMMA OrdinaryInv == ASSUME IInv, Ordinary PROVE IInv'
<1>1. TypeOK /\ Running /\ st = "exec" /\ Advance /\ OrdinaryInput
  BY DEF IInv, Ordinary
<1>2. st' \in {"exec", "prompt", "wait"} /\ prc' \in 1..3
      /\ (st' = "exec" => prc' \in 1..Len(line.cmds))
  BY <1>1, AdvanceShape
<1>3. line' = line /\ ignore' = ignore /\ ~ignore /\ count' = count
  BY <1>1 DEF Ordinary, mode, Running
<1>4. Running'
  BY <1>2, <1>3 DEF Running
<1>5. CASE Many
  <2> DEFINE q == Len(buf) + 1
  <2>1. PICK out \in {0, q} : Spawn(out, {q})
    BY <1>5 DEF Ordinary
  <2>2. buf' = Append(buf, 0) /\ due' = Append(due, 0) /\ fdIn' = q
    BY <1>5 DEF Ordinary
  <2>3. /\ buf' \in Seq(0..Capacity) /\ due' \in Seq(Nat) /\ Len(due') = Len(buf')
        /\ Pipes \subseteq Pipes' /\ q \in Pipes' /\ q \notin Ends
        /\ \A p \in Pipes : due'[p] = due[p]
        /\ \A p \in Pipes' : p \in Pipes \/ due'[p] = 0
    BY <1>1, <2>2, OneMorePipe DEF Pipes
  <2> HIDE DEF q
  <2>4. out \in Ends' /\ {q} \subseteq Pipes' /\ {q} \cap Ends = {}
    BY <2>1, <2>3 DEF Ends
  <2>5. /\ vec' \subseteq [rest : Int, pipe : Pipes'] /\ inFlag' \in BOOLEAN
        /\ wr' \subseteq Pipes' /\ kids' \subseteq Children' /\ Ends \subseteq Ends'
    BY <1>1, <2>1, <2>3, <2>4, ForkType
  <2>6. fdIn' \in Ends' /\ outPipe' \in Ends'
    BY <1>1, <2>2, <2>3, <2>5 DEF Ordinary, TypeOK, Ends
  <2>7. TypeOK'
    BY <1>1, <1>2, <1>3, <2>3, <2>5, <2>6 DEF Ordinary, TypeOK, mode
  <2>8. OrdinaryInput'
    <3>1. wr' \subseteq wr /\ wr \subseteq Pipes /\ Pipes \subseteq Ends
      BY <1>1, <2>1, SpawnForks DEF TypeOK, Ends
    <3>q. QED
      BY <2>2, <2>3, <3>1 DEF OrdinaryInput
  <2>q. QED
    BY <1>1, <1>3, <1>4, <2>1, <2>3, <2>4, <2>7, <2>8, ForkInv
<1>6. CASE ~Many
  <2>1. Spawn(0, {}) /\ UNCHANGED <<buf, due, fdIn>>
    BY <1>6 DEF Ordinary
  <2>2. Pipes' = Pipes /\ Ends' = Ends /\ 0 \in Ends
    BY <2>1 DEF Pipes, Ends
  <2>3. /\ vec' \subseteq [rest : Int, pipe : Pipes'] /\ inFlag' \in BOOLEAN
        /\ wr' \subseteq Pipes' /\ kids' \subseteq Children'
    BY <1>1, <2>1, <2>2, ForkType
  <2>4. TypeOK'
    BY <1>1, <1>2, <1>3, <2>1, <2>2, <2>3 DEF Ordinary, TypeOK, mode
  <2>5. wr' \subseteq wr
    BY <1>1, <2>1, SpawnForks
  <2>6. OrdinaryInput'
    BY <1>1, <2>1, <2>5 DEF OrdinaryInput
  <2>q. QED
    BY <1>1, <1>3, <1>4, <2>1, <2>2, <2>4, <2>6, ForkInv
<1>q. QED
  BY <1>5, <1>6

-----------------------------------------------------------------------------
(* The commands run. *)

(* A command only shrinks the set of those that hold a pipe or wait for    *)
(* one, and the number of pipes stays.                                     *)
LEMMA KidType == ASSUME TypeOK, NEW k \in kids, Kid(k) PROVE TypeOK'
<1>1. k \in Children /\ buf \in [1..Len(buf) -> 0..Capacity] /\ Capacity \in Nat
  BY ShellAssumption DEF TypeOK
<1>2. k.in \in Ends /\ k.out \in Ends /\ k.left \in 0..Output /\ Output \in Nat
  BY <1>1, ChildShape, ShellAssumption
<1>3. buf' \in Seq(0..Capacity) /\ Len(buf') = Len(buf) /\ kids' \subseteq Children
  <2>1. CASE Write(k)
    <3>1. k.left - 1 \in 0..Output
      BY <1>2, <2>1 DEF Write
    <3>2. kids' \subseteq Children
      BY <1>1, <2>1, <3>1, ChildShape DEF Write, Update, TypeOK
    <3>3. CASE k.out = 0
      BY <2>1, <3>2, <3>3 DEF Write, TypeOK
    <3>4. CASE k.out # 0
      <4>1. k.out \in 1..Len(buf) /\ buf[k.out] + 1 \in 0..Capacity
        BY <1>1, <1>2, <2>1, <3>4 DEF Write, Ends, Pipes
      <4>2. buf' = [buf EXCEPT ![k.out] = buf[k.out] + 1]
        BY <2>1, <3>4 DEF Write
      <4>q. QED
        BY <1>1, <3>2, <4>1, <4>2 DEF TypeOK
    <3>q. QED
      BY <3>3, <3>4
  <2>2. CASE Read(k)
    <3>1. k.in \in 1..Len(buf) /\ buf[k.in] - 1 \in 0..Capacity
      BY <1>1, <1>2, <2>2 DEF Read, Ends, Pipes
    <3>q. QED
      BY <2>2, <3>1 DEF Read, TypeOK
  <2>3. CASE Finish(k)
    BY <2>3 DEF Finish, TypeOK
  <2>q. QED
    BY <2>1, <2>2, <2>3 DEF Kid
<1>4. Pipes' = Pipes /\ Ends' = Ends /\ Children' = Children
  BY <1>3 DEF Pipes, Ends, Children
<1>5. UNCHANGED <<st, parse, vec, flags, fdIn, wr, mode, due>>
  BY DEF Kid, Write, Read, Finish
<1>q. QED
  BY <1>3, <1>4, <1>5 DEF TypeOK, parse, flags, mode

LEMMA KidInv == ASSUME IInv, NEW k \in kids, Kid(k) PROVE IInv'
<1>1. TypeOK /\ TypeOK'
  BY KidType DEF IInv
<1>2. /\ UNCHANGED <<st, parse, vec, flags, fdIn, wr, mode, due>> /\ Len(buf') = Len(buf)
  BY <1>1 DEF Kid, Write, Read, Finish, TypeOK
<1>3. \A c \in kids' : \E b \in kids :
        c.id = b.id /\ c.in = b.in /\ c.took = b.took /\ c.held = b.held
  <2>1. k \in Children /\ k.left \in 0..Output /\ Output \in Nat
    BY <1>1, ChildShape, ShellAssumption DEF TypeOK
  <2>2. CASE Write(k)
    <3>1. k.left - 1 \in 0..Output
      BY <2>1, <2>2 DEF Write
    <3> DEFINE r == [k EXCEPT !.left = k.left - 1]
    <3>2. r.id = k.id /\ r.in = k.in /\ r.took = k.took /\ r.held = k.held
      BY <2>1, <3>1, ChildShape
    <3>3. kids' = (kids \ {k}) \cup {r}
      BY <2>2 DEF Write, Update
    <3> HIDE DEF r
    <3>q. QED
      BY <3>2, <3>3
  <2>3. CASE Read(k) \/ Finish(k)
    BY <2>3 DEF Read, Finish
  <2>q. QED
    BY <2>2, <2>3 DEF Kid
<1>4. Running' /\ Countdown' /\ OrdinaryInput' /\ OnePipePerLine'
  BY <1>2 DEF IInv, Running, Countdown, OrdinaryInput, OnePipePerLine, parse, flags, mode
<1>5. Pipes' = Pipes /\ count' = count
  BY <1>2 DEF Pipes, parse
<1>6. OnTime' /\ InputCanEnd'
  BY <1>2, <1>3, <1>5 DEF IInv, OnTime, InputCanEnd
<1>q. QED
  BY <1>1, <1>4, <1>6 DEF IInv

-----------------------------------------------------------------------------
(* THEOREMS *)

(* The inductive invariant holds in every reachable state. *)
THEOREM Invariance == Spec => []IInv
<1>1. ASSUME IInv, Next PROVE IInv'
  <2>1. CASE Shell
    BY <1>1, <2>1, QuietInv, ToFileInv, ToNumberedInv, OrdinaryInv DEF Shell, Quiet
  <2>2. CASE Typed
    BY <1>1, <2>2, QuietInv, ReadLineInv DEF Typed, Quiet
  <2>3. CASE \E k \in kids : Kid(k)
    BY <1>1, <2>3, KidInv
  <2>q. QED
    BY <1>1, <2>1, <2>2, <2>3 DEF Next
<1>2. ASSUME IInv, UNCHANGED vars PROVE IInv'
  BY <1>2 DEF vars, parse, flags, mode, IInv, TypeOK, Running, Countdown, OrdinaryInput,
              OnePipePerLine, OnTime, InputCanEnd, Pipes, Ends, Children
<1>q. QED
  BY InitInv, <1>1, <1>2, PTL DEF Spec

(* The shell's variables keep their types: a pipe number names a pipe that *)
(* was made, and a command's input, output and held ends are such numbers. *)
THEOREM TypeCorrect == Spec => []TypeOK
<1>1. IInv => TypeOK
  BY DEF IInv
<1>q. QED
  BY Invariance, <1>1, PTL

(* The search in num_pipe_vec before a pipe is made keeps one pipe per     *)
(* line number, whatever lines are typed in between.                       *)
THEOREM LinesShareAPipe == Spec => []OnePipePerLine
<1>1. IInv => OnePipePerLine
  BY DEF IInv
<1>q. QED
  BY Invariance, <1>1, PTL

(* The count down of every line, and the removal of the entries at zero,   *)
(* deliver a numbered pipe to a command of the line it was made for, and   *)
(* to no other; until then it is kept.                                     *)
THEOREM PipesAreOnTime == Spec => []OnTime
<1>1. IInv => OnTime
  BY DEF IInv
<1>q. QED
  BY Invariance, <1>1, PTL

(* The closing of the write ends before each fork leaves no command that   *)
(* waits for an end of input which the shell or itself holds off.          *)
THEOREM InputsCanEnd == Spec => []InputCanEnd
<1>1. IInv => InputCanEnd
  BY DEF IInv
<1>q. QED
  BY Invariance, <1>1, PTL

=============================================================================
