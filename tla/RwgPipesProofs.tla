--------------------------- MODULE RwgPipesProofs ---------------------------
(***************************************************************************)
(* TLAPS proofs about RwgPipes, for every number of slots and lines: who   *)
(* may set a record of the pipe table, and what becomes of the file it     *)
(* announces, although a line checks the table, changes it and touches the *)
(* file in separate steps (npshell_3.h).                                   *)
(***************************************************************************)
EXTENDS RwgPipes, TLAPS

-----------------------------------------------------------------------------
(* The inductive invariant. *)

(* What the session of slot s relies on between two of its steps: the pipe *)
(* it is about to mark does not exist, and no complete datum lies behind   *)
(* the file it is going to truncate and write, even when the flag that     *)
(* names the file was left by an earlier line.                             *)
Session(s) ==
  /\ pc[s] = "take" => in[s] \in Slots
  /\ pc[s] = "mark" => out[s] \in Slots /\ ~rec[out[s]][s]
  /\ pc[s] = "write" => outFlag[s] \in Slots
  /\ outFlag[s] \in Slots => done[outFlag[s]][s] = 0

IInv == TypeOK /\ SenderIsThere /\ UntakenKept /\ \A s \in Slots : Session(s)

-----------------------------------------------------------------------------
(* The tables. *)

LEMMA Numbers == 0 \in Ids /\ 0 \notin Slots /\ Slots \subseteq Ids
                 /\ \A i \in Ids : i # 0 => i \in Slots
BY PipesAssumption DEF Ids, Slots

(* One cell of a table is assigned. *)
LEMMA Cell ==
  ASSUME NEW T, NEW f \in [Slots -> [Slots -> T]], NEW a \in Slots, NEW b \in Slots,
         NEW v \in T
  PROVE  /\ [f EXCEPT ![a][b] = v] \in [Slots -> [Slots -> T]]
         /\ [f EXCEPT ![a][b] = v][a][b] = v
         /\ \A r, t \in Slots : r # a \/ t # b => [f EXCEPT ![a][b] = v][r][t] = f[r][t]
OBVIOUS

(* A step of one session leaves what another one relies on: it sets no     *)
(* record and completes no datum of which the other is the sender.         *)
LEMMA SessionFrame ==
  ASSUME TypeOK, NEW e \in Slots, Session(e),
         pc'[e] = pc[e], in'[e] = in[e], out'[e] = out[e], outFlag'[e] = outFlag[e],
         \A r \in Slots : rec'[r][e] = TRUE => rec[r][e] = TRUE,
         \A r \in Slots : done'[r][e] \in {0, done[r][e]}
  PROVE  Session(e)'
<1>1. rec \in [Slots -> [Slots -> BOOLEAN]]
  BY DEF TypeOK
<1>q. QED
  BY <1>1 DEF Session

LEMMA InitInv == Init => IInv
<1> SUFFICES ASSUME Init PROVE IInv
  OBVIOUS
<1>1. TypeOK
  <2>1. None \in [Slots -> [Slots -> BOOLEAN]] /\ Zero \in [Slots -> [Slots -> Nat]]
    BY DEF None, Zero
  <2>2. rec \in [Slots -> [Slots -> BOOLEAN]] /\ restarted \in BOOLEAN
    BY <2>1 DEF Init
  <2>q. QED
    BY <2>1, <2>2, Numbers DEF Init, TypeOK, PCs
<1>2. SenderIsThere
  BY DEF Init, SenderIsThere, None
<1>3. UntakenKept
  BY DEF Init, UntakenKept, Zero
<1>4. \A s \in Slots : Session(s)
  BY Numbers DEF Init, Session
<1>q. QED
  BY <1>1, <1>2, <1>3, <1>4 DEF IInv

(* The steps of a line that leave the records and the files alone. *)
Quiet(s) ==
  \/ Login(s) \/ Die(s) \/ (\E a, b \in Ids : Line(s, a, b))
  \/ NoReceive(s) \/ ReceiveCheck(s) \/ NoSend(s) \/ SendCheck(s)
  \/ Skip(s) \/ Builtin(s) \/ Run(s) \/ OpenElsewhere(s)

LEMMA QuietType == ASSUME TypeOK, NEW s \in Slots, Quiet(s) PROVE TypeOK'
<1>1. CASE Login(s)
  BY <1>1, Numbers DEF TypeOK, Login, Goto, PCs, line, hist
<1>2. CASE Die(s)
  BY <1>2, Numbers DEF TypeOK, Die, Goto, PCs, line, hist
<1>3. CASE NoReceive(s)
  BY <1>3, Numbers DEF TypeOK, NoReceive, Goto, PCs, line, hist
<1>4. CASE ReceiveCheck(s)
  BY <1>4, Numbers DEF TypeOK, ReceiveCheck, Goto, PCs, line, hist
<1>5. CASE NoSend(s)
  BY <1>5, Numbers DEF TypeOK, NoSend, Goto, PCs, line, hist
<1>6. CASE SendCheck(s)
  BY <1>6, Numbers DEF TypeOK, SendCheck, Goto, PCs, line, hist
<1>7. CASE Skip(s)
  BY <1>7, Numbers DEF TypeOK, Skip, Goto, PCs, line, hist
<1>8. CASE Builtin(s)
  BY <1>8, Numbers DEF TypeOK, Builtin, Goto, PCs, line, hist
<1>9. ASSUME NEW a \in Ids, NEW b \in Ids, Line(s, a, b) PROVE TypeOK'
  BY <1>9 DEF TypeOK, Line, Goto, PCs, hist
<1>10. CASE Run(s)
  <2>1. misread' \in BOOLEAN
    BY <1>10 DEF Run, Read, TypeOK
  <2>2. due' \in [Slots -> Nat] /\ inFlag' \in [Slots -> Ids] /\ outFlag' \in [Slots -> Ids]
    BY <1>10, Numbers DEF Run, Read, TypeOK
  <2>q. QED
    BY <1>10, <2>1, <2>2 DEF TypeOK, Run, Goto, PCs, line
<1>11. CASE OpenElsewhere(s)
  <2>1. misread' \in BOOLEAN
    BY <1>11 DEF OpenElsewhere, Read, TypeOK
  <2>2. due' \in [Slots -> Nat] /\ inFlag' \in [Slots -> Ids] /\ outFlag' \in [Slots -> Ids]
    BY <1>11, Numbers DEF OpenElsewhere, Read, TypeOK
  <2>q. QED
    BY <1>11, <2>1, <2>2 DEF TypeOK, OpenElsewhere, Goto, PCs, line
<1>q. QED
  BY <1>1, <1>2, <1>3, <1>4, <1>5, <1>6, <1>7, <1>8, <1>9, <1>10, <1>11 DEF Quiet

(* What a quiet step does: only the two checks lead to an update of the    *)
(* records, and what they saw still holds when they are over.              *)
Effect(s) ==
  /\ UNCHANGED <<rec, file, done, restarted>>
  /\ \A e \in Slots : e # s => /\ pc'[e] = pc[e] /\ in'[e] = in[e] /\ out'[e] = out[e]
                              /\ outFlag'[e] = outFlag[e]
  /\ pc'[s] # "free" /\ pc'[s] # "write" /\ outFlag'[s] \in {0, outFlag[s]}
  /\ pc'[s] = "take" => in'[s] \in Slots
  /\ pc'[s] = "mark" => out'[s] \in Slots /\ ~rec[out'[s]][s]

LEMMA QuietEffect == ASSUME TypeOK, NEW s \in Slots, Quiet(s) PROVE Effect(s)
<1>1. CASE Login(s)
  BY <1>1 DEF Effect, TypeOK, Login, Goto, line, hist
<1>2. CASE Die(s)
  BY <1>2 DEF Effect, TypeOK, Die, Goto, line, hist
<1>3. CASE NoReceive(s)
  BY <1>3 DEF Effect, TypeOK, NoReceive, Goto, line, hist
<1>4. CASE ReceiveCheck(s)
  BY <1>4, Numbers DEF Effect, TypeOK, ReceiveCheck, Goto, line, hist
<1>5. CASE NoSend(s)
  BY <1>5 DEF Effect, TypeOK, NoSend, Goto, line, hist
<1>6. CASE SendCheck(s)
  BY <1>6, Numbers DEF Effect, TypeOK, SendCheck, Goto, line, hist
<1>7. CASE Skip(s)
  BY <1>7 DEF Effect, TypeOK, Skip, Goto, line, hist
<1>8. CASE Builtin(s)
  BY <1>8 DEF Effect, TypeOK, Builtin, Goto, line, hist
<1>9. CASE Run(s)
  BY <1>9 DEF Effect, TypeOK, Run, Goto, line, hist, Read
<1>10. CASE OpenElsewhere(s)
  BY <1>10 DEF Effect, TypeOK, OpenElsewhere, Goto, line, hist, Read
<1>11. ASSUME NEW a \in Ids, NEW b \in Ids, Line(s, a, b) PROVE Effect(s)
  BY <1>11 DEF Effect, TypeOK, Line, Goto, hist
<1>q. QED
  BY <1>1, <1>2, <1>3, <1>4, <1>5, <1>6, <1>7, <1>8, <1>9, <1>10, <1>11 DEF Quiet

LEMMA QuietInv == ASSUME IInv, NEW s \in Slots, Quiet(s) PROVE IInv'
<1>0. TypeOK /\ SenderIsThere /\ UntakenKept /\ \A e \in Slots : Session(e)
  BY DEF IInv
<1>1. TypeOK'
  BY <1>0, QuietType
<1>2. Effect(s)
  BY <1>0, QuietEffect
<1>3. SenderIsThere'
  BY <1>0, <1>2 DEF Effect, SenderIsThere, Valid
<1>4. UntakenKept'
  BY <1>0, <1>2 DEF Effect, UntakenKept
<1>5. Session(s)'
  BY <1>0, <1>2, Numbers DEF Effect, Session
<1>6. ASSUME NEW e \in Slots, e # s PROVE Session(e)'
  BY <1>0, <1>2, <1>6 DEF Effect, Session
<1>q. QED
  BY <1>1, <1>3, <1>4, <1>5, <1>6 DEF IInv

(* _receive_from_: the record is cleared under the lock; the datum it      *)
(* announced is the reader's.                                              *)
LEMMA TakeInv == ASSUME IInv, NEW s \in Slots, Take(s) PROVE IInv'
<1>0. TypeOK /\ SenderIsThere /\ UntakenKept /\ \A e \in Slots : Session(e)
  BY DEF IInv
<1>1. in[s] \in Slots /\ pc[s] = "take"
  BY <1>0 DEF Session, Take
<1>2. /\ rec' = [rec EXCEPT ![s][in[s]] = FALSE] /\ done' = [done EXCEPT ![s][in[s]] = 0]
      /\ pc' = [pc EXCEPT ![s] = "send"] /\ inFlag' = [inFlag EXCEPT ![s] = in[s]]
      /\ due' = [due EXCEPT ![s] = done[s][in[s]]]
      /\ UNCHANGED <<file, in, out, outFlag, ignore, lines, restarted, misread>>
  BY DEF Take, Goto, line
<1>3. /\ rec' \in [Slots -> [Slots -> BOOLEAN]] /\ ~rec'[s][in[s]]
      /\ \A r, t \in Slots : r # s \/ t # in[s] => rec'[r][t] = rec[r][t]
  <2>1. rec \in [Slots -> [Slots -> BOOLEAN]]
    BY <1>0 DEF TypeOK
  <2>2. rec' \in [Slots -> [Slots -> BOOLEAN]]
    BY <1>1, <1>2, <2>1
  <2>3. rec'[s][in[s]] = FALSE
    BY <1>1, <1>2, <2>1
  <2>4. \A r, t \in Slots : r # s \/ t # in[s] => rec'[r][t] = rec[r][t]
    BY <1>1, <1>2, <2>1
  <2>q. QED
    BY <2>2, <2>3, <2>4
<1>4. /\ done' \in [Slots -> [Slots -> Nat]] /\ done'[s][in[s]] = 0
      /\ \A r, t \in Slots : r # s \/ t # in[s] => done'[r][t] = done[r][t]
  BY <1>0, <1>1, <1>2, Cell DEF TypeOK
<1>5. TypeOK'
  BY <1>0, <1>1, <1>2, <1>3, <1>4, Numbers DEF TypeOK, PCs
<1>6. SenderIsThere'
  <2>1. \A e \in Slots : pc'[e] = "free" => pc[e] = "free"
    BY <1>0, <1>2 DEF TypeOK
  <2>q. QED
    BY <1>0, <1>2, <1>3, <2>1 DEF SenderIsThere, Valid
<1>7. UntakenKept'
  BY <1>0, <1>2, <1>3, <1>4 DEF UntakenKept
<1>8. \A r, t \in Slots : (rec'[r][t] = TRUE => rec[r][t] = TRUE)
                         /\ done'[r][t] \in {0, done[r][t]}
  BY <1>3, <1>4
<1>9. Session(s)'
  BY <1>0, <1>2, <1>8 DEF Session, TypeOK
<1>10. ASSUME NEW e \in Slots, e # s PROVE Session(e)'
  <2>1. pc'[e] = pc[e]
    BY <1>0, <1>2, <1>10 DEF TypeOK
  <2>q. QED
    BY <1>0, <1>2, <1>8, <2>1, SessionFrame
<1>q. QED
  BY <1>5, <1>6, <1>7, <1>9, <1>10 DEF IInv

(* _send_to_: the record is set under the lock, after a check without it;  *)
(* no complete datum lies behind a record that was not set.                *)
LEMMA MarkInv == ASSUME IInv, NEW s \in Slots, Mark(s) PROVE IInv'
<1>0. TypeOK /\ SenderIsThere /\ UntakenKept /\ \A e \in Slots : Session(e)
  BY DEF IInv
<1>1. out[s] \in Slots /\ pc[s] = "mark" /\ ~rec[out[s]][s]
  BY <1>0 DEF Session, Mark
<1>2. /\ rec' = [rec EXCEPT ![out[s]][s] = TRUE]
      /\ pc' = [pc EXCEPT ![s] = "exec"] /\ outFlag' = [outFlag EXCEPT ![s] = out[s]]
      /\ UNCHANGED <<file, in, out, inFlag, ignore, lines, restarted, done, due, misread>>
  BY DEF Mark, Goto, line, hist
<1>3. /\ rec' \in [Slots -> [Slots -> BOOLEAN]] /\ rec'[out[s]][s] = TRUE
      /\ \A r, t \in Slots : r # out[s] \/ t # s => rec'[r][t] = rec[r][t]
  <2>1. rec \in [Slots -> [Slots -> BOOLEAN]]
    BY <1>0 DEF TypeOK
  <2>2. rec' \in [Slots -> [Slots -> BOOLEAN]]
    BY <1>1, <1>2, <2>1
  <2>3. rec'[out[s]][s] = TRUE
    BY <1>1, <1>2, <2>1
  <2>4. \A r, t \in Slots : r # out[s] \/ t # s => rec'[r][t] = rec[r][t]
    BY <1>1, <1>2, <2>1
  <2>q. QED
    BY <2>2, <2>3, <2>4
<1>4. TypeOK'
  BY <1>0, <1>1, <1>2, <1>3, Numbers DEF TypeOK, PCs
<1>5. /\ pc'[s] = "exec" /\ outFlag'[s] = out[s]
      /\ \A e \in Slots : e # s => pc'[e] = pc[e] /\ outFlag'[e] = outFlag[e]
  BY <1>0, <1>2 DEF TypeOK
<1>6. SenderIsThere'
  BY <1>0, <1>2, <1>3, <1>5 DEF SenderIsThere, Valid
<1>7. done[out[s]][s] = 0
  BY <1>0, <1>1 DEF UntakenKept
<1>8. UntakenKept'
  BY <1>0, <1>2, <1>3 DEF UntakenKept
<1>9. Session(s)'
  BY <1>0, <1>2, <1>5, <1>7 DEF Session
<1>10. ASSUME NEW e \in Slots, e # s PROVE Session(e)'
  BY <1>0, <1>2, <1>3, <1>5, <1>10, SessionFrame
<1>q. QED
  BY <1>4, <1>6, <1>8, <1>9, <1>10 DEF IInv

(* The command's output file is truncated: it is the file of the pending   *)
(* flag, behind which there is no complete datum.                          *)
LEMMA OpenInv == ASSUME IInv, NEW s \in Slots, Open(s) PROVE IInv'
<1>0. TypeOK /\ SenderIsThere /\ UntakenKept /\ \A e \in Slots : Session(e)
  BY DEF IInv
<1>1. outFlag[s] \in Slots /\ pc[s] = "exec" /\ done[outFlag[s]][s] = 0
  BY <1>0, Numbers DEF Session, Open, TypeOK
<1>2. /\ file' = [file EXCEPT ![outFlag[s]][s] = 0]
      /\ pc' = [pc EXCEPT ![s] = "write"]
      /\ UNCHANGED <<rec, in, out, inFlag, outFlag, ignore, lines, restarted, done, due,
                     misread>>
  BY DEF Open, Goto, line, hist
<1>3. /\ file' \in [Slots -> [Slots -> Nat]]
      /\ \A r, t \in Slots : r # outFlag[s] \/ t # s => file'[r][t] = file[r][t]
  BY <1>0, <1>1, <1>2, Cell DEF TypeOK
<1>4. TypeOK'
  BY <1>0, <1>1, <1>2, <1>3 DEF TypeOK, PCs
<1>5. pc'[s] = "write" /\ \A e \in Slots : e # s => pc'[e] = pc[e]
  BY <1>0, <1>2 DEF TypeOK
<1>6. SenderIsThere'
  BY <1>0, <1>2, <1>5 DEF SenderIsThere, Valid
<1>7. UntakenKept'
  BY <1>0, <1>1, <1>2, <1>3 DEF UntakenKept
<1>8. \A e \in Slots : Session(e)'
  BY <1>0, <1>1, <1>2, <1>5 DEF Session
<1>q. QED
  BY <1>4, <1>6, <1>7, <1>8 DEF IInv

(* The command has written its file; the datum is complete if the record   *)
(* is still there, and the flag that named the file is gone.               *)
LEMMA WriteInv == ASSUME IInv, NEW s \in Slots, Write(s) PROVE IInv'
<1>0. TypeOK /\ SenderIsThere /\ UntakenKept /\ \A e \in Slots : Session(e)
  BY DEF IInv
<1> DEFINE o == outFlag[s]
<1>1. o \in Slots /\ pc[s] = "write" /\ lines \in Nat
  BY <1>0 DEF Session, Write, TypeOK
<1>2. /\ file' = [file EXCEPT ![o][s] = lines]
      /\ done' = IF rec[o][s] THEN [done EXCEPT ![o][s] = lines] ELSE done
      /\ pc' = [pc EXCEPT ![s] = "ready"] /\ outFlag' = [outFlag EXCEPT ![s] = 0]
      /\ UNCHANGED <<rec, in, out, ignore, lines, restarted>>
  BY DEF Write, Goto, line
<1>3. /\ file' \in [Slots -> [Slots -> Nat]] /\ file'[o][s] = lines
      /\ \A r, t \in Slots : r # o \/ t # s => file'[r][t] = file[r][t]
  BY <1>0, <1>1, <1>2, Cell DEF TypeOK
<1>4. /\ done' \in [Slots -> [Slots -> Nat]]
      /\ \A r, t \in Slots : r # o \/ t # s => done'[r][t] = done[r][t]
      /\ done'[o][s] = IF rec[o][s] THEN lines ELSE done[o][s]
  BY <1>0, <1>1, <1>2, Cell DEF TypeOK
<1>5. /\ pc'[s] = "ready" /\ outFlag'[s] = 0 /\ outFlag' \in [Slots -> Ids]
      /\ \A e \in Slots : e # s => pc'[e] = pc[e] /\ outFlag'[e] = outFlag[e]
  BY <1>0, <1>2, Numbers DEF TypeOK
<1>6. TypeOK'
  <2>1. misread' \in BOOLEAN
    BY <1>0 DEF TypeOK, Write, Read
  <2>2. due' \in [Slots -> Nat] /\ inFlag' \in [Slots -> Ids]
    BY <1>0, Numbers DEF TypeOK, Write, Read
  <2>3. pc' \in [Slots -> PCs]
    BY <1>0, <1>2 DEF TypeOK, PCs
  <2>q. QED
    BY <1>0, <1>2, <1>3, <1>4, <1>5, <2>1, <2>2, <2>3 DEF TypeOK
<1>7. SenderIsThere'
  BY <1>0, <1>2, <1>5 DEF SenderIsThere, Valid
<1>8. UntakenKept'
  <2> SUFFICES ASSUME NEW r \in Slots, NEW t \in Slots, done'[r][t] # 0
               PROVE  rec[r][t] /\ file'[r][t] = done'[r][t]
    BY <1>2 DEF UntakenKept
  <2>1. CASE r = o /\ t = s
    <3>1. done[o][s] = 0
      BY <1>0, <1>1, Numbers DEF Session
    <3>q. QED
      BY <1>3, <1>4, <2>1, <3>1
  <2>2. CASE r # o \/ t # s
    BY <1>0, <1>3, <1>4, <2>2 DEF UntakenKept
  <2>q. QED
    BY <2>1, <2>2
<1>9. Session(s)'
  BY <1>5, Numbers DEF Session
<1>10. ASSUME NEW e \in Slots, e # s PROVE Session(e)'
  BY <1>0, <1>2, <1>4, <1>5, <1>10, SessionFrame
<1>q. QED
  BY <1>6, <1>7, <1>8, <1>9, <1>10 DEF IInv

(* exit: the records of the leaving user are cleared in both directions,   *)
(* whatever receive or send of another user is under way.                  *)
LEMMA ExitInv == ASSUME IInv, NEW s \in Slots, Exit(s) PROVE IInv'
<1>0. TypeOK /\ SenderIsThere /\ UntakenKept /\ \A e \in Slots : Session(e)
  BY DEF IInv
<1>1. /\ rec'  = [r \in Slots |-> [t \in Slots |-> rec[r][t] /\ s \notin {r, t}]]
      /\ done' = [r \in Slots |-> [t \in Slots |->
                                     IF s \in {r, t} THEN 0 ELSE done[r][t]]]
      /\ pc' = [pc EXCEPT ![s] = "free"]
      /\ UNCHANGED <<file, in, out, inFlag, outFlag, ignore, lines, restarted, due,
                     misread>>
  BY DEF Exit, Goto, line
<1>2. /\ rec' \in [Slots -> [Slots -> BOOLEAN]]
      /\ \A r, t \in Slots : rec'[r][t] = (rec[r][t] /\ s \notin {r, t})
  BY <1>1
<1>3. done' \in [Slots -> [Slots -> Nat]]
  BY <1>0, <1>1 DEF TypeOK
<1>4. \A r, t \in Slots : done'[r][t] = IF s \in {r, t} THEN 0 ELSE done[r][t]
  BY <1>1
<1>5. TypeOK'
  BY <1>0, <1>1, <1>2, <1>3 DEF TypeOK, PCs
<1>6. pc'[s] = "free" /\ \A e \in Slots : e # s => pc'[e] = pc[e]
  BY <1>0, <1>1 DEF TypeOK
<1>7. SenderIsThere'
  <2> SUFFICES ASSUME ~restarted, NEW r \in Slots, NEW t \in Slots, rec'[r][t]
               PROVE  pc'[t] # "free"
    BY <1>1 DEF SenderIsThere, Valid
  <2>1. rec[r][t] /\ t # s
    BY <1>2
  <2>q. QED
    BY <1>0, <1>6, <2>1 DEF SenderIsThere, Valid
<1>8. UntakenKept'
  <2> SUFFICES ASSUME NEW r \in Slots, NEW t \in Slots, done'[r][t] # 0
               PROVE  rec'[r][t] /\ file[r][t] = done'[r][t]
    BY <1>1 DEF UntakenKept
  <2>1. s \notin {r, t} /\ done'[r][t] = done[r][t]
    BY <1>4
  <2>2. rec[r][t] /\ file[r][t] = done[r][t]
    BY <1>0, <2>1 DEF UntakenKept
  <2>q. QED
    BY <1>2, <2>1, <2>2
<1>9. \A r, t \in Slots : (rec'[r][t] = TRUE => rec[r][t] = TRUE)
                         /\ done'[r][t] \in {0, done[r][t]}
  <2>1. rec \in [Slots -> [Slots -> BOOLEAN]]
    BY <1>0 DEF TypeOK
  <2>q. QED
    BY <1>2, <1>4, <2>1
<1>10. Session(s)'
  BY <1>0, <1>1, <1>6, <1>9 DEF Session
<1>11. ASSUME NEW e \in Slots, e # s PROVE Session(e)'
  BY <1>0, <1>1, <1>6, <1>9, <1>11, SessionFrame
<1>q. QED
  BY <1>5, <1>7, <1>8, <1>10, <1>11 DEF IInv

LEMMA NextInv == ASSUME IInv, [Next]_vars PROVE IInv'
<1>1. CASE UNCHANGED vars
  BY <1>1 DEF vars, line, hist, IInv, TypeOK, SenderIsThere, UntakenKept, Session, Valid
<1>2. ASSUME NEW s \in Slots,
             Quiet(s) \/ Take(s) \/ Mark(s) \/ Open(s) \/ Write(s) \/ Exit(s)
      PROVE  IInv'
  BY <1>2, QuietInv, TakeInv, MarkInv, OpenInv, WriteInv, ExitInv
<1>q. QED
  BY <1>1, <1>2 DEF Next, Quiet

-----------------------------------------------------------------------------
(* The theorems. *)

(* The inductive invariant: what was checked without the lock still holds  *)
(* when the update comes, and no pending flag names a file with a complete *)
(* datum in it.                                                            *)
THEOREM Invariance == Spec => []IInv
BY InitInv, NextInv, PTL DEF Spec

(* Types; in particular every flag names a user of the table. *)
THEOREM TypeCorrect == Spec => []TypeOK
BY Invariance, PTL DEF IInv

(* exit clears what a leaving user has sent, and no send that is under way *)
(* brings a record of it back.                                             *)
THEOREM SendersAreThere == Spec => []SenderIsThere
BY Invariance, PTL DEF IInv

(* A complete datum stays in its file until it is taken: neither a second  *)
(* send, nor a line that runs with the flags an ignored line left, opens   *)
(* the file again.                                                         *)
THEOREM UntakenIsKept == Spec => []UntakenKept
BY Invariance, PTL DEF IInv

(* check_name_pipe_exist is asked without the lock, and yet the pipe that  *)
(* is marked afterwards does not exist: only its sender could make it.     *)
THEOREM OnlyFreshMarks == Spec => MarksAreFresh
<1>1. IInv => \A r, s \in Slots : pc[s] = "mark" /\ out[s] = r => ~rec[r][s]
  BY DEF IInv, Session
<1>2. ASSUME IInv
      PROVE  \A r, s \in Slots : pc[s] = "mark" /\ pc'[s] # "mark" /\ out[s] = r
                                  => ~rec[r][s]
  BY <1>1, <1>2
<1>q. QED
  BY <1>2, Invariance, PTL DEF MarksAreFresh

=============================================================================
