---------------------------- MODULE RwgShmProofs ----------------------------
(***************************************************************************)
(* TLAPS proofs about RwgShm, for every number of slots, sessions, names   *)
(* and commands: the inductive invariant IInv, and from it the safety      *)
(* properties of the lock and of the ownership of slots.                   *)
(***************************************************************************)
EXTENDS RwgShm, TLAPS

(* The indices of the table and of the loops over it. *)
LEMMA Indices ==
  /\ 0 \in 0..QLEN /\ 1 \in Slots /\ 1 \in 1..(QLEN + 1)
  /\ \A i \in Slots : i \in 0..QLEN /\ i \in 1..(QLEN + 1) /\ i + 1 \in 1..(QLEN + 1)
BY ConstantsAssumption DEF Slots

(* The server is a process of its own beside the sessions. *)
LEMMA ProcNames == Server \in Procs /\ Server \notin Pids /\ \A p \in Pids : p \in Procs
BY ConstantsAssumption DEF Procs

-----------------------------------------------------------------------------
(* Types. *)

(* The end of a process keeps every type: the semaphore stops at zero.     *)
LEMMA ProcessEndType == ASSUME TypeOK, NEW p \in Pids, ProcessEnd(p) PROVE TypeOK'
<1>1. sem' \in Nat /\ semadj' \in [Procs -> Int]
  BY ProcNames DEF TypeOK, ProcessEnd
<1>2. pc' \in [Procs -> PCs]
  BY DEF TypeOK, ProcessEnd, Goto, PCs
<1>3. hslot' \in [Procs -> 0..QLEN] /\ pend' \in [Procs -> BOOLEAN]
  BY Indices DEF TypeOK, ProcessEnd
<1>4. zombies' \subseteq Pids /\ chld' \in BOOLEAN /\ torn' \in BOOLEAN
  BY DEF TypeOK, ProcessEnd
<1>q. QED
  BY <1>1, <1>2, <1>3, <1>4 DEF TypeOK, ProcessEnd, table, local

LEMMA TypeStep == ASSUME TypeOK, PhaseOK, [Next]_vars PROVE TypeOK'
<1>1. CASE UNCHANGED vars
  BY <1>1 DEF TypeOK, lock, table, local, sigs, hist, vars
<1>2. ASSUME NEW p \in Procs, SemWait(p) PROVE TypeOK'
  BY <1>2 DEF TypeOK, lock, table, local, sigs, hist, SemWait, Goto, PCs
<1>3. ASSUME NEW p \in Procs, SemSignal(p) PROVE TypeOK'
  BY <1>3 DEF TypeOK, lock, table, local, sigs, hist, SemSignal, Goto,
     PCs, Following, PhaseOK, Jobs, Procs
<1>4. ASSUME NEW p \in Procs, HandlerStart(p) PROVE TypeOK'
  <2>1. pc' \in [Procs -> PCs]
    BY <1>4 DEF TypeOK, HandlerStart, Resume, Goto, PCs
  <2>2. \A i \in Mine(p) \cup {0} : i \in 0..QLEN
    BY <1>4, Indices DEF Mine
  <2>3. hslot' \in [Procs -> 0..QLEN] /\ pend' \in [Procs -> BOOLEAN]
    BY <1>4, <2>2, Indices DEF TypeOK, HandlerStart, First
  <2>q. QED
    BY <1>4, <2>1, <2>2, <2>3
    DEF TypeOK, HandlerStart, lock, table, local, sigs, hist
<1>5. ASSUME NEW p \in Procs, HandlerReset(p) PROVE TypeOK'
  <2>1. cnt' \in [Slots -> Nat] /\ early' \in [Pids -> Nat]
    BY <1>5 DEF TypeOK, HandlerReset
  <2>2. hslot' \in [Procs -> 0..QLEN]
    BY <1>5, Indices DEF TypeOK, HandlerReset
  <2>q. QED
    BY <1>5, <2>1, <2>2
    DEF TypeOK, HandlerReset, lock, table, local, sigs, hist
<1>6. CASE Accept
  BY <1>6 DEF TypeOK, lock, table, local, sigs, hist, Accept, Enter,
     Goto, PCs, Jobs, Procs
<1>7. CASE Alloc
  BY <1>7 DEF TypeOK, lock, table, local, sigs, hist, Alloc, Goto, PCs, 
     First, Procs
<1>8. CASE Fork
  BY <1>8, ConstantsAssumption DEF TypeOK, lock, table, local, sigs, hist, Fork, PCs,
     Procs
<1>9. CASE ForkFails
  BY <1>9 DEF TypeOK, lock, table, local, sigs, hist, ForkFails, Goto, PCs
<1>10. CASE ClientExit
  BY <1>10 DEF TypeOK, lock, table, local, sigs, hist, ClientExit, 
     Goto, PCs, Resume, First, Procs
<1>11. ASSUME NEW p \in Pids, Register(p) PROVE TypeOK'
  BY <1>11 DEF TypeOK, lock, table, local, sigs, hist, Register, Goto, PCs, 
     Procs
<1>12. ASSUME NEW p \in Pids, NameSet(p) PROVE TypeOK'
  BY <1>12 DEF TypeOK, lock, table, local, sigs, hist, NameSet, Enter,
     Goto, PCs, Jobs, Procs
<1>13. ASSUME NEW p \in Pids, Load(p) PROVE TypeOK'
  <2>1. pc' \in [Procs -> PCs]
    BY <1>13 DEF TypeOK, Load, Goto, PCs
  <2>2. \A i \in Visit(p) : i \in Slots
    BY <1>13 DEF Load, PhaseOK, Appending, Visit, First
  <2>3. scan' \in [Procs -> 1..(QLEN + 1)] /\ seen' \in [Procs -> Nat]
    BY <1>13, <2>2, Indices DEF TypeOK, Load
  <2>q. QED
    BY <1>13, <2>1, <2>2, <2>3
    DEF TypeOK, Load, lock, table, local, sigs, hist
<1>14. ASSUME NEW p \in Pids, LoopEnd(p) PROVE TypeOK'
  <2>1. pc' \in [Procs -> PCs]
    BY <1>14 DEF TypeOK, LoopEnd, Goto, PCs
  <2>2. scan' \in [Procs -> 1..(QLEN + 1)]
    BY <1>14, Indices DEF TypeOK, LoopEnd
  <2>q. QED
    BY <1>14, <2>1, <2>2
    DEF TypeOK, LoopEnd, lock, table, local, sigs, hist
<1>15. ASSUME NEW p \in Pids, Store(p) PROVE TypeOK'
  <2>1. pc' \in [Procs -> PCs]
    BY <1>15 DEF TypeOK, Store, Goto, PCs
  <2>2. scan[p] \in Slots
    BY <1>15, ProcNames DEF Store, PhaseOK
  <2>3. cnt' \in [Slots -> Nat] /\ seen' \in [Procs -> Nat]
    BY <1>15, <2>2, ProcNames DEF TypeOK, Store
  <2>q. QED
    BY <1>15, <2>1, <2>2, <2>3
    DEF TypeOK, Store, lock, table, local, sigs, hist
<1>16. ASSUME NEW p \in Pids, Kill(p) PROVE TypeOK'
  <2>1. pc' \in [Procs -> PCs]
    BY <1>16 DEF TypeOK, Kill, Goto, PCs
  <2>2. scan[p] \in Slots
    BY <1>16, ProcNames DEF Kill, PhaseOK
  <2>3. scan' \in [Procs -> 1..(QLEN + 1)]
    BY <1>16, <2>2, Indices, ProcNames DEF TypeOK, Kill
  <2>4. pend' \in [Procs -> BOOLEAN]
    BY <1>16 DEF TypeOK, Kill
  <2>q. QED
    BY <1>16, <2>1, <2>2, <2>3, <2>4
    DEF TypeOK, Kill, lock, table, local, sigs, hist
<1>17. ASSUME NEW p \in Pids, Leave(p) PROVE TypeOK'
  BY <1>17 DEF TypeOK, lock, table, local, sigs, hist, Leave, Goto, PCs
<1>18. ASSUME NEW p \in Pids, Terminate(p) PROVE TypeOK'
  BY <1>18, ProcessEndType DEF Terminate
<1>19. ASSUME NEW p \in Pids, Yell(p) PROVE TypeOK'
  <2>1. pc' \in [Procs -> PCs] /\ job' \in [Procs -> Jobs]
    BY <1>19, ProcNames DEF TypeOK, Yell, Enter, Goto, PCs, Jobs
  <2>2. cmds' \in Nat
    BY <1>19 DEF TypeOK, Yell, Typing
  <2>q. QED
    BY <1>19, <2>1, <2>2
    DEF TypeOK, Yell, lock, table, local, sigs, hist
<1>20. ASSUME NEW p \in Pids, Quit(p) PROVE TypeOK'
  <2>1. pc' \in [Procs -> PCs] /\ job' \in [Procs -> Jobs]
    BY <1>20, ProcNames DEF TypeOK, Quit, Enter, Goto, PCs, Jobs
  <2>2. cmds' \in Nat
    BY <1>20 DEF TypeOK, Quit, Typing
  <2>q. QED
    BY <1>20, <2>1, <2>2
    DEF TypeOK, Quit, lock, table, local, sigs, hist
<1>21. ASSUME NEW p \in Pids, NameClear(p) PROVE TypeOK'
  BY <1>21 DEF TypeOK, lock, table, local, sigs, hist, NameClear, Typing,
     Procs
<1>22. ASSUME NEW p \in Pids, Die(p) PROVE TypeOK'
  BY <1>22, ProcessEndType DEF Die
<1>23. ASSUME NEW p \in Pids, NEW i \in Slots, Tell(p, i) PROVE TypeOK'
  <2>1. pc' \in [Procs -> PCs] /\ job' \in [Procs -> Jobs]
    BY <1>23, ProcNames DEF TypeOK, Tell, Enter, Goto, PCs, Jobs
  <2>2. cmds' \in Nat
    BY <1>23 DEF TypeOK, Tell, Typing
  <2>3. scan' \in [Procs -> 1..(QLEN + 1)]
    BY <1>23, Indices DEF TypeOK, Tell
  <2>q. QED
    BY <1>23, <2>1, <2>2, <2>3
    DEF TypeOK, Tell, lock, table, local, sigs, hist
<1>24. ASSUME NEW p \in Pids, NEW n \in Names, NameCheck(p, n) PROVE TypeOK'
  BY <1>24 DEF TypeOK, lock, table, local, sigs, hist, NameCheck, 
     Typing, Procs, Goto, PCs
<1>q. QED
  BY <1>1, <1>2, <1>3, <1>4, <1>5, <1>6, <1>7, <1>8, <1>9, <1>10, <1>11, <1>12, <1>13, <1>14, <1>15, <1>16, <1>17, <1>18, <1>19, <1>20, <1>21, <1>22, <1>23, <1>24
  DEF Next, LockStep, SignalStep, ServerStep, SessionStep, Command

(* Every step leaves each process in a critical section of its own kind.    *)
LEMMA PhaseStep == ASSUME TypeOK, PhaseOK, [Next]_vars PROVE PhaseOK'
<1>t. /\ pc \in [Procs -> PCs] /\ job \in [Procs -> Jobs]
      /\ scan \in [Procs -> 1..(QLEN + 1)]
  BY DEF TypeOK
<1>1. CASE UNCHANGED vars
  BY <1>t, <1>1, ProcNames DEF PhaseOK, vars, local
<1>2. ASSUME NEW p \in Procs, SemWait(p) PROVE PhaseOK'
  BY <1>t, <1>2, ProcNames DEF PhaseOK, SemWait, Goto, local
<1>3. ASSUME NEW p \in Procs, SemSignal(p) PROVE PhaseOK'
  <2>1. CASE p = Server
    BY <1>t, <1>3, <2>1, ProcNames DEF PhaseOK, SemSignal, Goto, local, Following
  <2>2. CASE p \in Pids
    <3>1. pc[p] = "signal" /\ job[p] \in {"reg", "cast", "tell", "left", "exit"}
      BY <1>t, <1>3, <2>2 DEF PhaseOK, SemSignal, Jobs
    <3>2. /\ pc' = [pc EXCEPT ![p] = Following[job[p]][1]]
          /\ job' = [job EXCEPT ![p] = Following[job[p]][2]]
          /\ scan' = scan
      BY <1>t, <1>3, <2>2, ProcNames DEF SemSignal, Goto, local
    <3>3. \/ Following[job[p]] = <<"ready", "none">>
          \/ Following[job[p]] = <<"wait", "exit">>
          \/ Following[job[p]] = <<"closing", "exit">>
      BY <3>1 DEF Following
    <3>q. QED
      BY <1>t, <2>2, <3>1, <3>2, <3>3, ProcNames DEF PhaseOK
  <2>q. QED
    BY <2>1, <2>2 DEF Procs
<1>4. ASSUME NEW p \in Procs, HandlerStart(p) PROVE PhaseOK'
  BY <1>t, <1>4, ProcNames DEF PhaseOK, HandlerStart, Goto, local, Resume
<1>5. ASSUME NEW p \in Procs, HandlerReset(p) PROVE PhaseOK'
  BY <1>t, <1>5, ProcNames DEF PhaseOK, HandlerReset, Goto, local
<1>6. CASE Accept
  BY <1>t, <1>6, ProcNames DEF PhaseOK, Accept, Goto, local, Enter
<1>7. CASE Alloc
  BY <1>t, <1>7, ProcNames DEF PhaseOK, Alloc, Goto, local
<1>8. CASE Fork
  BY <1>t, <1>8, ProcNames DEF PhaseOK, Fork, Goto, local
<1>9. CASE ForkFails
  BY <1>t, <1>9, ProcNames DEF PhaseOK, ForkFails, Goto, local
<1>10. CASE ClientExit
  BY <1>t, <1>10, ProcNames DEF PhaseOK, ClientExit, Goto, local, Resume
<1>11. ASSUME NEW p \in Pids, Register(p) PROVE PhaseOK'
  BY <1>t, <1>11, ProcNames DEF PhaseOK, Register, Goto, local
<1>12. ASSUME NEW p \in Pids, NameSet(p) PROVE PhaseOK'
  BY <1>t, <1>12, ProcNames DEF PhaseOK, NameSet, Goto, local, Enter
<1>13. ASSUME NEW p \in Pids, Load(p) PROVE PhaseOK'
  BY <1>t, <1>13, ProcNames DEF PhaseOK, Load, Goto, local, Visit, Appending, First
<1>14. ASSUME NEW p \in Pids, LoopEnd(p) PROVE PhaseOK'
  BY <1>t, <1>14, ProcNames, Indices DEF PhaseOK, LoopEnd, Goto, local, Appending
<1>15. ASSUME NEW p \in Pids, Store(p) PROVE PhaseOK'
  BY <1>t, <1>15, ProcNames DEF PhaseOK, Store, Goto, local
<1>16. ASSUME NEW p \in Pids, Kill(p) PROVE PhaseOK'
  BY <1>t, <1>16, ProcNames, Indices DEF PhaseOK, Kill, Goto, local
<1>17. ASSUME NEW p \in Pids, Leave(p) PROVE PhaseOK'
  BY <1>t, <1>17, ProcNames DEF PhaseOK, Leave, Goto, local
<1>18. ASSUME NEW p \in Pids, Terminate(p) PROVE PhaseOK'
  BY <1>t, <1>18, ProcNames DEF PhaseOK, Terminate, Goto, local, ProcessEnd
<1>19. ASSUME NEW p \in Pids, Yell(p) PROVE PhaseOK'
  BY <1>t, <1>19, ProcNames DEF PhaseOK, Yell, Goto, local, Enter, Typing
<1>20. ASSUME NEW p \in Pids, Quit(p) PROVE PhaseOK'
  BY <1>t, <1>20, ProcNames DEF PhaseOK, Quit, Goto, local, Enter, Typing
<1>21. ASSUME NEW p \in Pids, NameClear(p) PROVE PhaseOK'
  BY <1>t, <1>21, ProcNames DEF PhaseOK, NameClear, Goto, local, Typing
<1>22. ASSUME NEW p \in Pids, Die(p) PROVE PhaseOK'
  BY <1>t, <1>22, ProcNames DEF PhaseOK, Die, Goto, local, ProcessEnd
<1>23. ASSUME NEW p \in Pids, NEW i \in Slots, Tell(p, i) PROVE PhaseOK'
  BY <1>t, <1>23, ProcNames DEF PhaseOK, Tell, Goto, local, Enter, Typing
<1>24. ASSUME NEW p \in Pids, NEW n \in Names, NameCheck(p, n) PROVE PhaseOK'
  BY <1>t, <1>24, ProcNames DEF PhaseOK, NameCheck, Goto, local, Typing
<1>q. QED
  BY <1>1, <1>2, <1>3, <1>4, <1>5, <1>6, <1>7, <1>8, <1>9, <1>10, <1>11, <1>12, <1>13, <1>14, <1>15, <1>16, <1>17, <1>18, <1>19, <1>20, <1>21, <1>22, <1>23, <1>24
  DEF Next, LockStep, SignalStep, ServerStep, SessionStep, Command

-----------------------------------------------------------------------------
(* The lock, when no signal interrupts a sleeping semop. *)

(* A step that moves nobody in or out of a critical section.               *)
LEMMA LockFrame ==
  ASSUME LockInv, UNCHANGED lock, \A q \in Procs : InCS(q)' <=> InCS(q)
  PROVE  LockInv'
BY DEF LockInv, lock

(* The kernel's undo releases the lock exactly when its holder ends.       *)
LEMMA ProcessEndLock ==
  ASSUME TypeOK, LockInv, NEW p \in Pids, ProcessEnd(p) PROVE LockInv'
<1>1. /\ pc \in [Procs -> PCs] /\ semadj \in [Procs -> Int] /\ p \in Procs
  BY ProcNames DEF TypeOK
<1>2. \A q \in Procs : InCS(q)' <=> InCS(q) /\ q # p
  BY <1>1 DEF ProcessEnd, Goto, InCS
<1>3. \A q \in Procs : semadj'[q] = IF InCS(q)' THEN 1 ELSE 0
  BY <1>1, <1>2 DEF ProcessEnd, LockInv
<1>4. sem' = IF InCS(p) THEN 1 ELSE sem
  BY <1>1 DEF ProcessEnd, LockInv
<1>q. QED
  BY <1>1, <1>2, <1>3, <1>4 DEF LockInv

(* Every step of the lock, the signals, the server and the sessions keeps  *)
(* the account of the semaphore.                                           *)
LEMMA LockInvStep ==
  ASSUME TypeOK, PhaseOK, LockInv, ~Interrupts, [Next]_vars
  PROVE  LockInv'
<1>t. /\ pc \in [Procs -> PCs] /\ job \in [Procs -> Jobs]
      /\ semadj \in [Procs -> Int] /\ sem \in Nat
  BY DEF TypeOK
<1>1. CASE UNCHANGED vars
  BY <1>1, LockFrame DEF vars, InCS, lock
<1>2. ASSUME NEW p \in Procs, SemWait(p) PROVE LockInv'
  <2>1. \A q \in Procs : InCS(q)' <=> InCS(q) \/ q = p
    BY <1>t, <1>2 DEF SemWait, Goto, InCS
  <2>2. sem = 1 /\ \A q \in Procs : ~InCS(q)
    BY <1>2 DEF SemWait, LockInv
  <2>q. QED
    BY <1>t, <1>2, <2>1, <2>2 DEF SemWait, LockInv
<1>3. ASSUME NEW p \in Procs, SemSignal(p) PROVE LockInv'
  <2>1. InCS(p)
    BY <1>3 DEF SemSignal, InCS
  <2>2. job[p] # "none"
    BY <1>3, <2>1, ProcNames DEF SemSignal, PhaseOK, Procs
  <2>3. Following[job[p]][1] \in {"fork", "ready", "wait", "closing"}
    BY <1>t, <1>3, <2>2 DEF Following, Jobs
  <2>4. \A q \in Procs : InCS(q)' <=> InCS(q) /\ q # p
    BY <1>t, <1>3, <2>3 DEF SemSignal, Goto, InCS
  <2>q. QED
    BY <1>t, <1>3, <2>1, <2>4 DEF SemSignal, LockInv
<1>4. ASSUME NEW p \in Procs, HandlerStart(p) PROVE LockInv'
  <2>1. \A q \in Procs : InCS(q)' <=> InCS(q)
    BY <1>t, <1>4, ProcNames DEF HandlerStart, Goto, InCS, lock, Resume
  <2>q. QED
    BY <1>4, <2>1, LockFrame DEF HandlerStart, lock
<1>5. ASSUME NEW p \in Procs, HandlerReset(p) PROVE LockInv'
  <2>1. \A q \in Procs : InCS(q)' <=> InCS(q)
    BY <1>t, <1>5, ProcNames DEF HandlerReset, InCS, lock
  <2>q. QED
    BY <1>5, <2>1, LockFrame DEF HandlerReset, lock
<1>6. CASE Accept
  <2>1. \A q \in Procs : InCS(q)' <=> InCS(q)
    BY <1>t, <1>6, ProcNames DEF Accept, Goto, InCS, lock, Enter
  <2>q. QED
    BY <1>6, <2>1, LockFrame DEF Accept, lock
<1>7. CASE Alloc
  <2>1. \A q \in Procs : InCS(q)' <=> InCS(q)
    BY <1>t, <1>7, ProcNames DEF Alloc, Goto, InCS, lock
  <2>q. QED
    BY <1>7, <2>1, LockFrame DEF Alloc, lock
<1>8. CASE Fork
  <2>1. \A q \in Procs : InCS(q)' <=> InCS(q)
    BY <1>t, <1>8, ProcNames DEF Fork, Goto, InCS, lock
  <2>q. QED
    BY <1>8, <2>1, LockFrame DEF Fork, lock
<1>9. CASE ForkFails
  <2>1. \A q \in Procs : InCS(q)' <=> InCS(q)
    BY <1>t, <1>9, ProcNames DEF ForkFails, Goto, InCS, lock
  <2>q. QED
    BY <1>9, <2>1, LockFrame DEF ForkFails, lock
<1>10. CASE ClientExit
  <2>1. \A q \in Procs : InCS(q)' <=> InCS(q)
    BY <1>t, <1>10, ProcNames DEF ClientExit, Goto, InCS, lock, Resume
  <2>q. QED
    BY <1>10, <2>1, LockFrame DEF ClientExit, lock
<1>11. ASSUME NEW p \in Pids, Register(p) PROVE LockInv'
  <2>1. \A q \in Procs : InCS(q)' <=> InCS(q)
    BY <1>t, <1>11, ProcNames DEF Register, Goto, InCS, lock
  <2>q. QED
    BY <1>11, <2>1, LockFrame DEF Register, lock
<1>12. ASSUME NEW p \in Pids, NameSet(p) PROVE LockInv'
  <2>1. \A q \in Procs : InCS(q)' <=> InCS(q)
    BY <1>t, <1>12, ProcNames DEF NameSet, Goto, InCS, lock, Enter
  <2>q. QED
    BY <1>12, <2>1, LockFrame DEF NameSet, lock
<1>13. ASSUME NEW p \in Pids, Load(p) PROVE LockInv'
  <2>1. \A q \in Procs : InCS(q)' <=> InCS(q)
    BY <1>t, <1>13, ProcNames DEF Load, Goto, InCS, lock
  <2>q. QED
    BY <1>13, <2>1, LockFrame DEF Load, lock
<1>14. ASSUME NEW p \in Pids, LoopEnd(p) PROVE LockInv'
  <2>1. \A q \in Procs : InCS(q)' <=> InCS(q)
    BY <1>t, <1>14, ProcNames DEF LoopEnd, Goto, InCS, lock
  <2>q. QED
    BY <1>14, <2>1, LockFrame DEF LoopEnd, lock
<1>15. ASSUME NEW p \in Pids, Store(p) PROVE LockInv'
  <2>1. \A q \in Procs : InCS(q)' <=> InCS(q)
    BY <1>t, <1>15, ProcNames DEF Store, Goto, InCS, lock
  <2>q. QED
    BY <1>15, <2>1, LockFrame DEF Store, lock
<1>16. ASSUME NEW p \in Pids, Kill(p) PROVE LockInv'
  <2>1. \A q \in Procs : InCS(q)' <=> InCS(q)
    BY <1>t, <1>16, ProcNames DEF Kill, Goto, InCS, lock
  <2>q. QED
    BY <1>16, <2>1, LockFrame DEF Kill, lock
<1>17. ASSUME NEW p \in Pids, Leave(p) PROVE LockInv'
  <2>1. \A q \in Procs : InCS(q)' <=> InCS(q)
    BY <1>t, <1>17, ProcNames DEF Leave, Goto, InCS, lock
  <2>q. QED
    BY <1>17, <2>1, LockFrame DEF Leave, lock
<1>18. ASSUME NEW p \in Pids, Terminate(p) PROVE LockInv'
  BY <1>18, ProcessEndLock DEF Terminate
<1>19. ASSUME NEW p \in Pids, Yell(p) PROVE LockInv'
  <2>1. \A q \in Procs : InCS(q)' <=> InCS(q)
    BY <1>t, <1>19, ProcNames DEF Yell, Goto, InCS, lock, Enter, Typing
  <2>q. QED
    BY <1>19, <2>1, LockFrame DEF Yell, lock
<1>20. ASSUME NEW p \in Pids, Quit(p) PROVE LockInv'
  <2>1. \A q \in Procs : InCS(q)' <=> InCS(q)
    BY <1>t, <1>20, ProcNames DEF Quit, Goto, InCS, lock, Enter, Typing
  <2>q. QED
    BY <1>20, <2>1, LockFrame DEF Quit, lock
<1>21. ASSUME NEW p \in Pids, NameClear(p) PROVE LockInv'
  <2>1. \A q \in Procs : InCS(q)' <=> InCS(q)
    BY <1>t, <1>21, ProcNames DEF NameClear, Goto, InCS, lock, Typing
  <2>q. QED
    BY <1>21, <2>1, LockFrame DEF NameClear, lock
<1>22. ASSUME NEW p \in Pids, Die(p) PROVE LockInv'
  BY <1>22, ProcessEndLock DEF Die
<1>23. ASSUME NEW p \in Pids, NEW i \in Slots, Tell(p, i) PROVE LockInv'
  <2>1. \A q \in Procs : InCS(q)' <=> InCS(q)
    BY <1>t, <1>23, ProcNames DEF Tell, Goto, InCS, lock, Enter, Typing
  <2>q. QED
    BY <1>23, <2>1, LockFrame DEF Tell, lock
<1>24. ASSUME NEW p \in Pids, NEW n \in Names, NameCheck(p, n) PROVE LockInv'
  <2>1. \A q \in Procs : InCS(q)' <=> InCS(q)
    BY <1>t, <1>24, ProcNames DEF NameCheck, Goto, InCS, lock, Typing
  <2>q. QED
    BY <1>24, <2>1, LockFrame DEF NameCheck, lock
<1>q. QED
  BY <1>1, <1>2, <1>3, <1>4, <1>5, <1>6, <1>7, <1>8, <1>9, <1>10, <1>11, <1>12, <1>13, <1>14, <1>15, <1>16, <1>17, <1>18, <1>19, <1>20, <1>21, <1>22, <1>23, <1>24
  DEF Next, LockStep, SignalStep, ServerStep, SessionStep, Command

-----------------------------------------------------------------------------
(* The ownership of slots and the pids recorded in them. *)

(* A session whose pid cannot be in the table yet.                         *)
NotYet(p) == pc[p] = "unborn" \/ (job[p] = "reg" /\ pc[p] \in {"wait", "in"})

(* A step that creates no owner, registers nobody, starts no handler and   *)
(* leaves the table's slots alone.                                         *)
LEMMA OwnFrame ==
  ASSUME SlotInv, PidInv, UNCHANGED <<valid, pid, slot, full>>,
         \A q \in Pids : /\ Owner(q)' => Owner(q)
                         /\ NotYet(q)' => NotYet(q)
                         /\ Owner(q)' /\ NotYet(q) => NotYet(q)'
                         /\ pc'[q] = "unborn" => pc[q] = "unborn"
                         /\ hslot'[q] \in {0, hslot[q]},
         \A k \in Slots : ServerHolds(k)' => ServerHolds(k)
  PROVE  SlotInv' /\ PidInv'
<1>1. SlotInv'
  BY DEF SlotInv, SlotExclusive
<1>2. \A q \in Pids : Registered(q)' <=> Owner(q)' /\ Registered(q)
  BY DEF Registered, NotYet, Owner, Alive
<1>3. PidReachesOwner'
  BY <1>2 DEF PidInv, PidReachesOwner
<1>4. PidInv'
  BY <1>3 DEF PidInv, NotYet
<1>q. QED
  BY <1>1, <1>4

(* Every step keeps slots and pids with their owners: the slot the server  *)
(* hands to a fork belongs to nobody, and a pid is written by its owner.   *)
LEMMA OwnStep ==
  ASSUME TypeOK, PhaseOK, SlotInv, PidInv, [Next]_vars
  PROVE  SlotInv' /\ PidInv'
<1>t. /\ pc \in [Procs -> PCs] /\ job \in [Procs -> Jobs]
      /\ slot \in [Procs -> Slots] /\ hslot \in [Procs -> 0..QLEN]
      /\ valid \in [Slots -> BOOLEAN] /\ full \in BOOLEAN
      /\ pid \in [Slots -> Pids \cup {NoPid, OldPid}]
  BY DEF TypeOK
<1>1. CASE UNCHANGED vars
  <2>1. /\ UNCHANGED <<valid, pid, slot, full>>
        /\ \A q \in Pids : hslot'[q] \in {0, hslot[q]}
    BY <1>t, <1>1 DEF vars, table, local, sigs, hist
  <2>2. \A q \in Pids : (Owner(q)' => Owner(q)) /\ (NotYet(q)' => NotYet(q))
        /\ (Owner(q)' /\ NotYet(q) => NotYet(q)')
        /\ (pc'[q] = "unborn" => pc[q] = "unborn")
    BY <1>t, <1>1, PhaseOK, ProcNames DEF PhaseOK, vars, Goto, Owner, Alive, NotYet
  <2>3. \A k \in Slots : ServerHolds(k)' => ServerHolds(k)
    BY <1>t, <1>1, <2>1, PhaseOK, ProcNames DEF PhaseOK, vars, Goto, ServerHolds
  <2>q. QED
    BY <2>1, <2>2, <2>3, OwnFrame
<1>2. ASSUME NEW p \in Procs, SemWait(p) PROVE SlotInv' /\ PidInv'
  <2>1. /\ UNCHANGED <<valid, pid, slot, full>>
        /\ \A q \in Pids : hslot'[q] \in {0, hslot[q]}
    BY <1>t, <1>2 DEF SemWait, table, local, sigs, hist
  <2>2. \A q \in Pids : (Owner(q)' => Owner(q)) /\ (NotYet(q)' => NotYet(q))
        /\ (Owner(q)' /\ NotYet(q) => NotYet(q)')
        /\ (pc'[q] = "unborn" => pc[q] = "unborn")
    BY <1>t, <1>2, PhaseOK, ProcNames DEF PhaseOK, SemWait, Goto, Owner, Alive, NotYet
  <2>3. \A k \in Slots : ServerHolds(k)' => ServerHolds(k)
    BY <1>t, <1>2, <2>1, PhaseOK, ProcNames DEF PhaseOK, SemWait, Goto, ServerHolds
  <2>q. QED
    BY <2>1, <2>2, <2>3, OwnFrame
<1>3. ASSUME NEW p \in Procs, SemSignal(p) PROVE SlotInv' /\ PidInv'
  <2>1. job[p] # "none" /\ (p \in Pids => job[p] # "alloc") /\ job[Server] = "alloc"
    BY <1>t, <1>3, ProcNames DEF SemSignal, PhaseOK, Procs
  <2>2. \A q \in Pids : (Owner(q)' => Owner(q)) /\ (NotYet(q)' => NotYet(q))
        /\ (Owner(q)' /\ NotYet(q) => NotYet(q)')
        /\ (pc'[q] = "unborn" => pc[q] = "unborn")
    BY <1>t, <1>3, <2>1, ProcNames DEF SemSignal, Goto, Following, Jobs, Owner, Alive, NotYet
  <2>3. \A k \in Slots : ServerHolds(k)' => ServerHolds(k)
    BY <1>t, <1>3, <2>1, ProcNames DEF SemSignal, Goto, local, ServerHolds
  <2>q. QED
    BY <1>3, <2>2, <2>3, OwnFrame DEF SemSignal, table, local, sigs, hist
<1>4. ASSUME NEW p \in Procs, HandlerStart(p) PROVE SlotInv' /\ PidInv'
  <2>1. PICK i \in Mine(p) \cup {0} : hslot' = [hslot EXCEPT ![p] = i]
    BY <1>4 DEF HandlerStart, First
  <2>2. UNCHANGED <<valid, pid, slot, full, job>>
    BY <1>4 DEF HandlerStart, table, local, hist
  <2>3. \A q \in Pids : /\ Owner(q)' <=> Owner(q)
                        /\ Registered(q)' <=> Registered(q)
                        /\ NotYet(q)' <=> NotYet(q)
    BY <1>t, <1>4, ProcNames DEF HandlerStart, Resume, Goto, Owner, Alive, Registered, NotYet
  <2>4. \A k \in Slots : ServerHolds(k)' <=> ServerHolds(k)
    BY <1>t, <1>4, <2>2, ProcNames DEF HandlerStart, Resume, Goto, ServerHolds
  <2>5. SlotInv'
    BY <2>2, <2>3, <2>4 DEF SlotInv, SlotExclusive
  <2>6. p \in Pids /\ i # 0 => /\ i = slot[p]
                              /\ (Owner(p) => Registered(p))
    BY <2>1 DEF PidInv, Mine, Registered
  <2>7. \A q \in Pids : hslot'[q] = IF q = p THEN i ELSE hslot[q]
    BY <1>t, <2>1, ProcNames
  <2>8. PidReachesOwner'
    BY <2>2, <2>3, <2>6, <2>7 DEF PidInv, PidReachesOwner
  <2>9. \A q \in Pids : pc'[q] = "unborn" => hslot'[q] = 0
    BY <1>t, <1>4, <2>7, ProcNames DEF HandlerStart, Resume, Goto, PidInv, Alive
  <2>10. PidInv'
    BY <2>2, <2>3, <2>8, <2>9 DEF PidInv, NotYet
  <2>q. QED
    BY <2>5, <2>10
<1>5. ASSUME NEW p \in Procs, HandlerReset(p) PROVE SlotInv' /\ PidInv'
  <2>1. /\ UNCHANGED <<valid, pid, slot, full>>
        /\ \A q \in Pids : hslot'[q] \in {0, hslot[q]}
    BY <1>t, <1>5 DEF HandlerReset, table, local, sigs, hist
  <2>2. \A q \in Pids : (Owner(q)' => Owner(q)) /\ (NotYet(q)' => NotYet(q))
        /\ (Owner(q)' /\ NotYet(q) => NotYet(q)')
        /\ (pc'[q] = "unborn" => pc[q] = "unborn")
    BY <1>t, <1>5, PhaseOK, ProcNames DEF PhaseOK, HandlerReset, Goto, Owner, Alive, NotYet
  <2>3. \A k \in Slots : ServerHolds(k)' => ServerHolds(k)
    BY <1>t, <1>5, <2>1, PhaseOK, ProcNames DEF PhaseOK, HandlerReset, Goto, ServerHolds
  <2>q. QED
    BY <2>1, <2>2, <2>3, OwnFrame
<1>6. CASE Accept
  <2>1. /\ UNCHANGED <<valid, pid, slot, full>>
        /\ \A q \in Pids : hslot'[q] \in {0, hslot[q]}
    BY <1>t, <1>6 DEF Accept, table, local, sigs, hist
  <2>2. \A q \in Pids : (Owner(q)' => Owner(q)) /\ (NotYet(q)' => NotYet(q))
        /\ (Owner(q)' /\ NotYet(q) => NotYet(q)')
        /\ (pc'[q] = "unborn" => pc[q] = "unborn")
    BY <1>t, <1>6, PhaseOK, ProcNames DEF PhaseOK, Accept, Goto, Owner, Alive, NotYet, Enter
  <2>3. \A k \in Slots : ServerHolds(k)' => ServerHolds(k)
    BY <1>t, <1>6, <2>1, PhaseOK, ProcNames DEF PhaseOK, Accept, Goto, ServerHolds, Enter
  <2>q. QED
    BY <2>1, <2>2, <2>3, OwnFrame
<1>7. CASE Alloc
  <2>1. PICK i \in Slots :
          /\ ~full' => ~valid[i] /\ ~full
          /\ valid' = [valid EXCEPT ![i] = TRUE]
          /\ slot' = [slot EXCEPT ![Server] = i]
    BY <1>t, <1>7 DEF Alloc, First
  <2>2. /\ UNCHANGED <<pid, hslot, job>>
        /\ pc' = [pc EXCEPT ![Server] = "signal"]
    BY <1>7 DEF Alloc, Goto, sigs
  <2>3. \A q \in Pids : /\ Owner(q)' <=> Owner(q)
                        /\ Registered(q)' <=> Registered(q)
                        /\ slot'[q] = slot[q] /\ pc'[q] = pc[q]
    BY <1>t, <2>1, <2>2, ProcNames DEF Owner, Alive, Registered
  <2>4. SlotInv'
    BY <1>t, <2>1, <2>2, <2>3, ProcNames DEF SlotInv, SlotExclusive, ServerHolds
  <2>5. PidInv'
    BY <1>t, <2>1, <2>2, <2>3, ProcNames DEF PidInv, PidReachesOwner
  <2>q. QED
    BY <2>4, <2>5
<1>8. CASE Fork
  <2>1. PICK p \in Pids :
          /\ pc[p] = "unborn" /\ pc[Server] = "fork"
          /\ pc' = [pc EXCEPT ![p] = "wait", ![Server] = "accept"]
          /\ slot' = [slot EXCEPT ![p] = slot[Server]]
          /\ UNCHANGED <<valid, pid, job, hslot, full>>
    BY <1>8 DEF Fork, table, sigs, hist
  <2>2. job[p] = "reg" /\ slot[Server] \in Slots /\ ServerHolds(slot[Server])
    BY <1>t, <2>1, ProcNames DEF PhaseOK, ServerHolds
  <2>3. \A q \in Pids \ {p} : /\ Owner(q)' <=> Owner(q)
                              /\ Registered(q)' <=> Registered(q)
                              /\ slot'[q] = slot[q] /\ pc'[q] = pc[q]
    BY <1>t, <2>1, ProcNames DEF Owner, Alive, Registered
  <2>4. ~Registered(p)' /\ slot'[p] = slot[Server] /\ ~ServerHolds(slot[Server])'
    BY <1>t, <2>1, <2>2, ProcNames DEF Registered, ServerHolds
  <2>5. \A i \in Slots : pid[i] # p
    BY <2>1 DEF PidInv
  <2>6. hslot[p] = 0
    BY <2>1 DEF PidInv
  <2>7. SlotInv'
    BY <1>t, <2>1, <2>2, <2>3, <2>4, ProcNames DEF SlotInv, SlotExclusive, ServerHolds
  <2>8. PidInv'
    BY <1>t, <2>1, <2>3, <2>4, <2>5, <2>6, ProcNames DEF PidInv, PidReachesOwner
  <2>q. QED
    BY <2>7, <2>8
<1>9. CASE ForkFails
  <2>1. /\ UNCHANGED <<valid, pid, slot, full>>
        /\ \A q \in Pids : hslot'[q] \in {0, hslot[q]}
    BY <1>t, <1>9 DEF ForkFails, table, local, sigs, hist
  <2>2. \A q \in Pids : (Owner(q)' => Owner(q)) /\ (NotYet(q)' => NotYet(q))
        /\ (Owner(q)' /\ NotYet(q) => NotYet(q)')
        /\ (pc'[q] = "unborn" => pc[q] = "unborn")
    BY <1>t, <1>9, PhaseOK, ProcNames DEF PhaseOK, ForkFails, Goto, Owner, Alive, NotYet
  <2>3. \A k \in Slots : ServerHolds(k)' => ServerHolds(k)
    BY <1>t, <1>9, <2>1, PhaseOK, ProcNames DEF PhaseOK, ForkFails, Goto, ServerHolds
  <2>q. QED
    BY <2>1, <2>2, <2>3, OwnFrame
<1>10. CASE ClientExit
  <2>1. /\ UNCHANGED <<valid, pid, slot, full>>
        /\ \A q \in Pids : hslot'[q] \in {0, hslot[q]}
    BY <1>t, <1>10 DEF ClientExit, table, local, sigs, hist
  <2>2. \A q \in Pids : (Owner(q)' => Owner(q)) /\ (NotYet(q)' => NotYet(q))
        /\ (Owner(q)' /\ NotYet(q) => NotYet(q)')
        /\ (pc'[q] = "unborn" => pc[q] = "unborn")
    BY <1>t, <1>10, PhaseOK, ProcNames DEF PhaseOK, ClientExit, Goto, Owner, Alive, NotYet, Resume
  <2>3. \A k \in Slots : ServerHolds(k)' => ServerHolds(k)
    BY <1>t, <1>10, <2>1, PhaseOK, ProcNames DEF PhaseOK, ClientExit, Goto, ServerHolds, Resume
  <2>q. QED
    BY <2>1, <2>2, <2>3, OwnFrame
<1>11. ASSUME NEW p \in Pids, Register(p) PROVE SlotInv' /\ PidInv'
  <2>1. /\ pc[p] = "in" /\ job[p] = "reg" /\ hslot[p] = 0
        /\ pc' = [pc EXCEPT ![p] = "signal"]
        /\ pid' = [pid EXCEPT ![slot[p]] = p]
        /\ UNCHANGED <<valid, slot, job, hslot, full>>
    BY <1>11 DEF Register, Running, Goto, local, sigs
  <2>2. \A q \in Pids : /\ Owner(q)' <=> Owner(q)
                        /\ Registered(q)' <=> Registered(q) \/ q = p
                        /\ q # p => (NotYet(q)' <=> NotYet(q))
    BY <1>t, <2>1, ProcNames DEF Owner, Alive, Registered, NotYet
  <2>3. Owner(p) /\ ~NotYet(p)' /\ \A i \in Slots : ServerHolds(i)' <=> ServerHolds(i)
    BY <1>t, <2>1, ProcNames DEF Owner, Alive, NotYet, ServerHolds
  <2>4. SlotInv'
    BY <2>1, <2>2, <2>3 DEF SlotInv, SlotExclusive
  <2>5. ASSUME ~full, NEW q \in Pids PROVE
          /\ Registered(q)' => pid'[slot'[q]] = q
          /\ Owner(q)' /\ hslot'[q] # 0 => hslot'[q] = slot'[q] /\ Registered(q)'
    <3>1. CASE q = p
      BY <1>t, <2>1, <2>2, <3>1, ProcNames
    <3>2. CASE q # p
      <4>1. Owner(q) => slot[q] # slot[p]
        BY <2>3, <2>5, <3>2 DEF SlotInv, SlotExclusive
      <4>2. Owner(q) /\ Registered(q) => pid'[slot[q]] = pid[slot[q]]
        BY <1>t, <2>1, <4>1, ProcNames
      <4>q. QED
        BY <2>1, <2>2, <2>5, <3>2, <4>2 DEF PidInv, PidReachesOwner, Registered
    <3>q. QED
      BY <3>1, <3>2
  <2>6. PidReachesOwner'
    BY <2>1, <2>5 DEF PidReachesOwner
  <2>7. PidInv'
    BY <1>t, <2>1, <2>2, <2>3, <2>6, ProcNames DEF PidInv, NotYet
  <2>q. QED
    BY <2>4, <2>7
<1>12. ASSUME NEW p \in Pids, NameSet(p) PROVE SlotInv' /\ PidInv'
  <2>1. /\ UNCHANGED <<valid, pid, slot, full>>
        /\ \A q \in Pids : hslot'[q] \in {0, hslot[q]}
    BY <1>t, <1>12 DEF NameSet, table, local, sigs, hist
  <2>2. \A q \in Pids : (Owner(q)' => Owner(q)) /\ (NotYet(q)' => NotYet(q))
        /\ (Owner(q)' /\ NotYet(q) => NotYet(q)')
        /\ (pc'[q] = "unborn" => pc[q] = "unborn")
    BY <1>t, <1>12, PhaseOK, ProcNames DEF PhaseOK, NameSet, Goto, Owner, Alive, NotYet, Enter
  <2>3. \A k \in Slots : ServerHolds(k)' => ServerHolds(k)
    BY <1>t, <1>12, <2>1, PhaseOK, ProcNames DEF PhaseOK, NameSet, Goto, ServerHolds, Enter
  <2>q. QED
    BY <2>1, <2>2, <2>3, OwnFrame
<1>13. ASSUME NEW p \in Pids, Load(p) PROVE SlotInv' /\ PidInv'
  <2>1. /\ UNCHANGED <<valid, pid, slot, full>>
        /\ \A q \in Pids : hslot'[q] \in {0, hslot[q]}
    BY <1>t, <1>13 DEF Load, table, local, sigs, hist
  <2>2. \A q \in Pids : (Owner(q)' => Owner(q)) /\ (NotYet(q)' => NotYet(q))
        /\ (Owner(q)' /\ NotYet(q) => NotYet(q)')
        /\ (pc'[q] = "unborn" => pc[q] = "unborn")
    BY <1>t, <1>13, PhaseOK, ProcNames DEF PhaseOK, Load, Goto, Owner, Alive, NotYet, Appending
  <2>3. \A k \in Slots : ServerHolds(k)' => ServerHolds(k)
    BY <1>t, <1>13, <2>1, PhaseOK, ProcNames DEF PhaseOK, Load, Goto, ServerHolds, Appending
  <2>q. QED
    BY <2>1, <2>2, <2>3, OwnFrame
<1>14. ASSUME NEW p \in Pids, LoopEnd(p) PROVE SlotInv' /\ PidInv'
  <2>1. /\ UNCHANGED <<valid, pid, slot, full>>
        /\ \A q \in Pids : hslot'[q] \in {0, hslot[q]}
    BY <1>t, <1>14 DEF LoopEnd, table, local, sigs, hist
  <2>2. \A q \in Pids : (Owner(q)' => Owner(q)) /\ (NotYet(q)' => NotYet(q))
        /\ (Owner(q)' /\ NotYet(q) => NotYet(q)')
        /\ (pc'[q] = "unborn" => pc[q] = "unborn")
    BY <1>t, <1>14, PhaseOK, ProcNames DEF PhaseOK, LoopEnd, Goto, Owner, Alive, NotYet, Appending
  <2>3. \A k \in Slots : ServerHolds(k)' => ServerHolds(k)
    BY <1>t, <1>14, <2>1, PhaseOK, ProcNames DEF PhaseOK, LoopEnd, Goto, ServerHolds, Appending
  <2>q. QED
    BY <2>1, <2>2, <2>3, OwnFrame
<1>15. ASSUME NEW p \in Pids, Store(p) PROVE SlotInv' /\ PidInv'
  <2>1. /\ UNCHANGED <<valid, pid, slot, full>>
        /\ \A q \in Pids : hslot'[q] \in {0, hslot[q]}
    BY <1>t, <1>15 DEF Store, table, local, sigs, hist
  <2>2. \A q \in Pids : (Owner(q)' => Owner(q)) /\ (NotYet(q)' => NotYet(q))
        /\ (Owner(q)' /\ NotYet(q) => NotYet(q)')
        /\ (pc'[q] = "unborn" => pc[q] = "unborn")
    BY <1>t, <1>15, PhaseOK, ProcNames DEF PhaseOK, Store, Goto, Owner, Alive, NotYet
  <2>3. \A k \in Slots : ServerHolds(k)' => ServerHolds(k)
    BY <1>t, <1>15, <2>1, PhaseOK, ProcNames DEF PhaseOK, Store, Goto, ServerHolds
  <2>q. QED
    BY <2>1, <2>2, <2>3, OwnFrame
<1>16. ASSUME NEW p \in Pids, Kill(p) PROVE SlotInv' /\ PidInv'
  <2>1. /\ UNCHANGED <<valid, pid, slot, full>>
        /\ \A q \in Pids : hslot'[q] \in {0, hslot[q]}
    BY <1>t, <1>16 DEF Kill, table, local, sigs, hist
  <2>2. \A q \in Pids : (Owner(q)' => Owner(q)) /\ (NotYet(q)' => NotYet(q))
        /\ (Owner(q)' /\ NotYet(q) => NotYet(q)')
        /\ (pc'[q] = "unborn" => pc[q] = "unborn")
    BY <1>t, <1>16, PhaseOK, ProcNames DEF PhaseOK, Kill, Goto, Owner, Alive, NotYet
  <2>3. \A k \in Slots : ServerHolds(k)' => ServerHolds(k)
    BY <1>t, <1>16, <2>1, PhaseOK, ProcNames DEF PhaseOK, Kill, Goto, ServerHolds
  <2>q. QED
    BY <2>1, <2>2, <2>3, OwnFrame
<1>17. ASSUME NEW p \in Pids, Leave(p) PROVE SlotInv' /\ PidInv'
  <2>1. /\ pc[p] = "in" /\ job[p] = "exit"
        /\ pc' = [pc EXCEPT ![p] = "signal"]
        /\ valid' = [valid EXCEPT ![slot[p]] = FALSE]
        /\ UNCHANGED <<pid, slot, job, hslot, full>>
    BY <1>17 DEF Leave, Goto, local, sigs, hist
  <2>2. \A q \in Pids : /\ Owner(q)' <=> Owner(q) /\ q # p
                        /\ Registered(q)' <=> Registered(q) /\ q # p
                        /\ NotYet(q)' <=> NotYet(q)
    BY <1>t, <2>1, ProcNames DEF Owner, Alive, Registered, NotYet
  <2>3. Owner(p) /\ \A i \in Slots : ServerHolds(i)' <=> ServerHolds(i)
    BY <1>t, <2>1, ProcNames DEF Owner, Alive, ServerHolds
  <2>4. SlotInv'
    BY <1>t, <2>1, <2>2, <2>3, ProcNames DEF SlotInv, SlotExclusive
  <2>5. PidReachesOwner'
    BY <2>1, <2>2 DEF PidInv, PidReachesOwner
  <2>6. PidInv'
    BY <2>1, <2>2, <2>5 DEF PidInv, NotYet
  <2>q. QED
    BY <2>4, <2>6
<1>18. ASSUME NEW p \in Pids, Terminate(p) PROVE SlotInv' /\ PidInv'
  <2>1. /\ UNCHANGED <<valid, pid, slot, full>>
        /\ \A q \in Pids : hslot'[q] \in {0, hslot[q]}
    BY <1>t, <1>18 DEF Terminate, table, local, sigs, hist, ProcessEnd
  <2>2. \A q \in Pids : (Owner(q)' => Owner(q)) /\ (NotYet(q)' => NotYet(q))
        /\ (Owner(q)' /\ NotYet(q) => NotYet(q)')
        /\ (pc'[q] = "unborn" => pc[q] = "unborn")
    BY <1>t, <1>18, PhaseOK, ProcNames DEF PhaseOK, Terminate, Goto, Owner, Alive, NotYet, ProcessEnd
  <2>3. \A k \in Slots : ServerHolds(k)' => ServerHolds(k)
    BY <1>t, <1>18, <2>1, PhaseOK, ProcNames DEF PhaseOK, Terminate, Goto, ServerHolds, ProcessEnd
  <2>q. QED
    BY <2>1, <2>2, <2>3, OwnFrame
<1>19. ASSUME NEW p \in Pids, Yell(p) PROVE SlotInv' /\ PidInv'
  <2>1. /\ UNCHANGED <<valid, pid, slot, full>>
        /\ \A q \in Pids : hslot'[q] \in {0, hslot[q]}
    BY <1>t, <1>19 DEF Yell, table, local, sigs, hist
  <2>2. \A q \in Pids : (Owner(q)' => Owner(q)) /\ (NotYet(q)' => NotYet(q))
        /\ (Owner(q)' /\ NotYet(q) => NotYet(q)')
        /\ (pc'[q] = "unborn" => pc[q] = "unborn")
    BY <1>t, <1>19, PhaseOK, ProcNames DEF PhaseOK, Yell, Goto, Owner, Alive, NotYet, Enter, Typing
  <2>3. \A k \in Slots : ServerHolds(k)' => ServerHolds(k)
    BY <1>t, <1>19, <2>1, PhaseOK, ProcNames DEF PhaseOK, Yell, Goto, ServerHolds, Enter, Typing
  <2>q. QED
    BY <2>1, <2>2, <2>3, OwnFrame
<1>20. ASSUME NEW p \in Pids, Quit(p) PROVE SlotInv' /\ PidInv'
  <2>1. /\ UNCHANGED <<valid, pid, slot, full>>
        /\ \A q \in Pids : hslot'[q] \in {0, hslot[q]}
    BY <1>t, <1>20 DEF Quit, table, local, sigs, hist
  <2>2. \A q \in Pids : (Owner(q)' => Owner(q)) /\ (NotYet(q)' => NotYet(q))
        /\ (Owner(q)' /\ NotYet(q) => NotYet(q)')
        /\ (pc'[q] = "unborn" => pc[q] = "unborn")
    BY <1>t, <1>20, PhaseOK, ProcNames DEF PhaseOK, Quit, Goto, Owner, Alive, NotYet, Enter, Typing
  <2>3. \A k \in Slots : ServerHolds(k)' => ServerHolds(k)
    BY <1>t, <1>20, <2>1, PhaseOK, ProcNames DEF PhaseOK, Quit, Goto, ServerHolds, Enter, Typing
  <2>q. QED
    BY <2>1, <2>2, <2>3, OwnFrame
<1>21. ASSUME NEW p \in Pids, NameClear(p) PROVE SlotInv' /\ PidInv'
  <2>1. /\ UNCHANGED <<valid, pid, slot, full>>
        /\ \A q \in Pids : hslot'[q] \in {0, hslot[q]}
    BY <1>t, <1>21 DEF NameClear, table, local, sigs, hist
  <2>2. \A q \in Pids : (Owner(q)' => Owner(q)) /\ (NotYet(q)' => NotYet(q))
        /\ (Owner(q)' /\ NotYet(q) => NotYet(q)')
        /\ (pc'[q] = "unborn" => pc[q] = "unborn")
    BY <1>t, <1>21, PhaseOK, ProcNames DEF PhaseOK, NameClear, Goto, Owner, Alive, NotYet, Typing
  <2>3. \A k \in Slots : ServerHolds(k)' => ServerHolds(k)
    BY <1>t, <1>21, <2>1, PhaseOK, ProcNames DEF PhaseOK, NameClear, Goto, ServerHolds, Typing
  <2>q. QED
    BY <2>1, <2>2, <2>3, OwnFrame
<1>22. ASSUME NEW p \in Pids, Die(p) PROVE SlotInv' /\ PidInv'
  <2>1. /\ UNCHANGED <<valid, pid, slot, full>>
        /\ \A q \in Pids : hslot'[q] \in {0, hslot[q]}
    BY <1>t, <1>22 DEF Die, table, local, sigs, hist, ProcessEnd
  <2>2. \A q \in Pids : (Owner(q)' => Owner(q)) /\ (NotYet(q)' => NotYet(q))
        /\ (Owner(q)' /\ NotYet(q) => NotYet(q)')
        /\ (pc'[q] = "unborn" => pc[q] = "unborn")
    BY <1>t, <1>22, PhaseOK, ProcNames DEF PhaseOK, Die, Goto, Owner, Alive, NotYet, ProcessEnd
  <2>3. \A k \in Slots : ServerHolds(k)' => ServerHolds(k)
    BY <1>t, <1>22, <2>1, PhaseOK, ProcNames DEF PhaseOK, Die, Goto, ServerHolds, ProcessEnd
  <2>q. QED
    BY <2>1, <2>2, <2>3, OwnFrame
<1>23. ASSUME NEW p \in Pids, NEW i \in Slots, Tell(p, i) PROVE SlotInv' /\ PidInv'
  <2>1. /\ UNCHANGED <<valid, pid, slot, full>>
        /\ \A q \in Pids : hslot'[q] \in {0, hslot[q]}
    BY <1>t, <1>23 DEF Tell, table, local, sigs, hist
  <2>2. \A q \in Pids : (Owner(q)' => Owner(q)) /\ (NotYet(q)' => NotYet(q))
        /\ (Owner(q)' /\ NotYet(q) => NotYet(q)')
        /\ (pc'[q] = "unborn" => pc[q] = "unborn")
    BY <1>t, <1>23, PhaseOK, ProcNames DEF PhaseOK, Tell, Goto, Owner, Alive, NotYet, Enter, Typing
  <2>3. \A k \in Slots : ServerHolds(k)' => ServerHolds(k)
    BY <1>t, <1>23, <2>1, PhaseOK, ProcNames DEF PhaseOK, Tell, Goto, ServerHolds, Enter, Typing
  <2>q. QED
    BY <2>1, <2>2, <2>3, OwnFrame
<1>24. ASSUME NEW p \in Pids, NEW n \in Names, NameCheck(p, n) PROVE SlotInv' /\ PidInv'
  <2>1. /\ UNCHANGED <<valid, pid, slot, full>>
        /\ \A q \in Pids : hslot'[q] \in {0, hslot[q]}
    BY <1>t, <1>24 DEF NameCheck, table, local, sigs, hist
  <2>2. \A q \in Pids : (Owner(q)' => Owner(q)) /\ (NotYet(q)' => NotYet(q))
        /\ (Owner(q)' /\ NotYet(q) => NotYet(q)')
        /\ (pc'[q] = "unborn" => pc[q] = "unborn")
    BY <1>t, <1>24, PhaseOK, ProcNames DEF PhaseOK, NameCheck, Goto, Owner, Alive, NotYet, Typing
  <2>3. \A k \in Slots : ServerHolds(k)' => ServerHolds(k)
    BY <1>t, <1>24, <2>1, PhaseOK, ProcNames DEF PhaseOK, NameCheck, Goto, ServerHolds, Typing
  <2>q. QED
    BY <2>1, <2>2, <2>3, OwnFrame
<1>q. QED
  BY <1>1, <1>2, <1>3, <1>4, <1>5, <1>6, <1>7, <1>8, <1>9, <1>10, <1>11, <1>12, <1>13, <1>14, <1>15, <1>16, <1>17, <1>18, <1>19, <1>20, <1>21, <1>22, <1>23, <1>24
  DEF Next, LockStep, SignalStep, ServerStep, SessionStep, Command

-----------------------------------------------------------------------------
(* The theorems. *)

(* A started server with no session satisfies the invariant. *)
LEMMA InitIInv == Init => IInv
<1> SUFFICES ASSUME Init PROVE IInv
  OBVIOUS
<1>1. TypeOK
  <2>1. /\ pc \in [Procs -> PCs] /\ job \in [Procs -> Jobs]
        /\ sem \in Nat /\ semadj \in [Procs -> Int] /\ cmds \in Nat
    BY DEF Init, PCs, Jobs
  <2>2. /\ slot \in [Procs -> Slots] /\ scan \in [Procs -> 1..(QLEN + 1)]
        /\ hslot \in [Procs -> 0..QLEN]
    BY Indices DEF Init
  <2>3. pid \in [Slots -> Pids \cup {NoPid, OldPid}]
    BY DEF Init
  <2>q. QED
    BY <2>1, <2>2, <2>3 DEF Init, TypeOK
<1>2. PhaseOK
  BY ProcNames DEF Init, PhaseOK
<1>3. SlotInv
  BY ProcNames DEF Init, SlotInv, SlotExclusive, Owner, Alive, ServerHolds
<1>4. PidInv
  <2>1. \A p \in Pids : ~Owner(p) /\ ~Registered(p) /\ hslot[p] = 0
    BY ProcNames DEF Init, Owner, Alive, Registered
  <2>2. \A i \in Slots, p \in Pids : pid[i] # p
    BY ConstantsAssumption DEF Init
  <2>q. QED
    BY <2>1, <2>2 DEF PidInv, PidReachesOwner
<1>5. LockInv
  BY DEF Init, LockInv, InCS
<1>q. QED
  BY <1>1, <1>2, <1>3, <1>4, <1>5 DEF IInv

(* IInv holds in every reachable state: each conjunct is kept by every     *)
(* step that starts in all of them.                                        *)
THEOREM Invariance == Spec => []IInv
<1>1. IInv /\ [Next]_vars => IInv'
  BY TypeStep, PhaseStep, LockInvStep, OwnStep, ConstantsAssumption DEF IInv
<1>q. QED
  BY InitIInv, <1>1, PTL DEF Spec

(* The table, the lock and the processes keep their types.                 *)
THEOREM TypeCorrect == Spec => []TypeOK
BY Invariance, PTL DEF IInv

(* Without interrupted semops clisem is a lock, whoever dies holding it.   *)
THEOREM LockIsExclusive == Spec => []MutualExclusion
<1>1. IInv => MutualExclusion
  BY DEF IInv, LockInv, MutualExclusion
<1>q. QED
  BY Invariance, <1>1, PTL

(* Without interrupted semops no unit of clisem is lost with a dead        *)
(* holder: semaphore.h:7.                                                  *)
THEOREM LockIsReleased == Spec => []LockReleased
<1>1. IInv => LockReleased
  BY DEF IInv, LockInv, LockReleased
<1>q. QED
  BY Invariance, <1>1, PTL

(* Living sessions keep their slots to themselves, interrupted semops      *)
(* included, until a client comes to a full table.                         *)
THEOREM SlotsAreExclusive == Spec => []SlotExclusive
<1>1. IInv => SlotExclusive
  BY DEF IInv, SlotInv
<1>q. QED
  BY Invariance, <1>1, PTL

(* The pid in a registered session's slot is its own.                      *)
THEOREM PidsReachOwners == Spec => []PidReachesOwner
<1>1. IInv => PidReachesOwner
  BY DEF IInv, PidInv
<1>q. QED
  BY Invariance, <1>1, PTL

-----------------------------------------------------------------------------
(* Wakeups: an appended message is followed by its signal. *)

(* A step that appends nothing, registers nobody, takes no signal back and *)
(* ends no sender between its append and its kill.                         *)
LEMMA WakeFrame ==
  ASSUME NoLostWakeup, UNCHANGED <<cnt, early, slot, full>>, torn => torn',
         \A q \in Pids : /\ Registered(q)' => Registered(q)
                         /\ Registered(q)' /\ (pend[q] \/ hslot[q] # 0)
                              => pend'[q] \/ hslot'[q] # 0
                         /\ ~torn' /\ pc[q] = "kill"
                              => pc'[q] = "kill" /\ scan'[q] = scan[q]
  PROVE  NoLostWakeup'
<1> SUFFICES ASSUME ~full', ~torn', NEW q \in Pids, Registered(q)',
                    cnt'[slot'[q]] > early'[q]
             PROVE  \/ pend'[q] \/ hslot'[q] # 0
                    \/ \E r \in Pids : pc'[r] = "kill" /\ scan'[r] = slot'[q]
  BY DEF NoLostWakeup
<1>1. \/ pend[q] \/ hslot[q] # 0
      \/ \E r \in Pids : pc[r] = "kill" /\ scan[r] = slot[q]
  BY DEF NoLostWakeup
<1> QED
  BY <1>1

(* Steps of one process, none of which touches a counter or a signal.      *)
LEMMA WakeQuiet ==
  ASSUME TypeOK, PhaseOK, NoLostWakeup, NEW p \in Procs,
         UNCHANGED <<cnt, early, slot, full, torn, hslot, pend>>,
         pc[p] # "kill",
         \A q \in Procs \ {p} : pc'[q] = pc[q] /\ job'[q] = job[q]
                                /\ scan'[q] = scan[q],
         p \in Pids => (Registered(p)' => Registered(p))
  PROVE  NoLostWakeup'
<1>1. \A q \in Pids : Registered(q)' => Registered(q)
  BY ProcNames DEF Registered, Owner, Alive
<1> QED
  BY <1>1, WakeFrame, ProcNames

LEMMA WakeEnd ==
  ASSUME TypeOK, NoLostWakeup, NEW p \in Pids, ProcessEnd(p)
  PROVE  NoLostWakeup'
<1>1. /\ pc' = [pc EXCEPT ![p] = "dead"] /\ pc \in [Procs -> PCs]
      /\ hslot' = [hslot EXCEPT ![p] = 0] /\ hslot \in [Procs -> 0..QLEN]
      /\ pend' = [pend EXCEPT ![p] = FALSE] /\ pend \in [Procs -> BOOLEAN]
      /\ UNCHANGED <<cnt, early, slot, full, job, scan>>
  BY DEF ProcessEnd, Goto, TypeOK, table, local
<1>2. torn' = (torn \/ pc[p] = "kill")
  BY DEF ProcessEnd
<1>3. ~Registered(p)'
  BY <1>1, ProcNames DEF Registered, Owner, Alive
<1>4. \A q \in Pids \ {p} : /\ Registered(q)' <=> Registered(q)
                            /\ pc'[q] = pc[q] /\ hslot'[q] = hslot[q]
                            /\ pend'[q] = pend[q]
  BY <1>1, ProcNames DEF Registered, Owner, Alive
<1> QED
  BY <1>1, <1>2, <1>3, <1>4, WakeFrame

(* No step loses a wakeup.  A message is appended with its sender at the   *)
(* kill; the kill finds the owner of the slot under its pid; the handler   *)
(* finds the slot of its own process, and resets that counter only.        *)
LEMMA WakeStep ==
  ASSUME TypeOK, PhaseOK, SlotInv, PidInv, NoLostWakeup, [Next]_vars
  PROVE  NoLostWakeup'
<1>t. /\ pc \in [Procs -> PCs] /\ job \in [Procs -> Jobs]
      /\ slot \in [Procs -> Slots] /\ hslot \in [Procs -> 0..QLEN]
      /\ scan \in [Procs -> 1..(QLEN + 1)] /\ pend \in [Procs -> BOOLEAN]
      /\ cnt \in [Slots -> Nat] /\ early \in [Pids -> Nat]
      /\ full \in BOOLEAN
  BY DEF TypeOK
<1>1. CASE UNCHANGED vars
  BY <1>1, WakeFrame
     DEF vars, table, local, sigs, hist, Registered, Owner, Alive
<1>2. ASSUME NEW p \in Procs, SemWait(p) PROVE NoLostWakeup'
  <2>1. /\ pc[p] = "wait" /\ pc' = [pc EXCEPT ![p] = "in"]
        /\ UNCHANGED <<cnt, early, slot, full, torn, hslot, pend, job, scan>>
    BY <1>2 DEF SemWait, Goto, table, local, sigs, hist
  <2>2. p \in Pids => (Registered(p)' => Registered(p))
    BY <1>t, <2>1 DEF Registered, Owner, Alive
  <2> QED
    BY <1>t, <2>1, <2>2, WakeQuiet
<1>3. ASSUME NEW p \in Procs, SemSignal(p) PROVE NoLostWakeup'
  <2>1. job[p] # "none" /\ (p \in Pids => job[p] # "alloc") /\ job[Server] = "alloc"
    BY <1>t, <1>3, ProcNames DEF SemSignal, PhaseOK, Procs
  <2>2. /\ pc[p] = "signal"
        /\ pc' = [pc EXCEPT ![p] = Following[job[p]][1]]
        /\ job' = [job EXCEPT ![p] = Following[job[p]][2]]
        /\ UNCHANGED <<cnt, early, slot, full, torn, hslot, pend, scan>>
    BY <1>t, <1>3 DEF SemSignal, Goto, table, local, sigs, hist
  <2>3. p \in Pids => (Registered(p)' => Registered(p))
    BY <1>t, <2>1, <2>2 DEF Registered, Owner, Alive, Following, Jobs
  <2> QED
    BY <1>t, <2>2, <2>3, WakeQuiet
<1>4. ASSUME NEW p \in Procs, HandlerStart(p) PROVE NoLostWakeup'
  <2>1. PICK i \in IF Mine(p) = {} THEN {0} ELSE First(Mine(p)) :
          hslot' = [hslot EXCEPT ![p] = i]
    BY <1>4 DEF HandlerStart
  <2>2. /\ pend' = [pend EXCEPT ![p] = FALSE]
        /\ UNCHANGED <<cnt, early, slot, full, torn, job, scan>>
        /\ pc' = pc \/ (pc[p] = "wait" /\ pc' = [pc EXCEPT ![p] = "in"])
    BY <1>4 DEF HandlerStart, Resume, Goto, table, local, hist
  <2>3. \A q \in Pids : /\ Registered(q)' => Registered(q)
                        /\ pc[q] = "kill" => pc'[q] = "kill"
    BY <1>t, <2>2, ProcNames DEF Registered, Owner, Alive
  <2>4. ASSUME ~full, p \in Pids, Registered(p) PROVE i # 0
    <3>1. slot[p] \in Mine(p)
      BY <1>t, <2>4 DEF SlotInv, SlotExclusive, PidInv, PidReachesOwner,
                        Registered, Mine
    <3> QED
      BY <2>1, <3>1 DEF First, Mine, Slots
  <2>5. CASE full
    BY <2>2, <2>5 DEF NoLostWakeup
  <2>6. CASE ~full
    <3>1. \A q \in Pids : Registered(q)' /\ (pend[q] \/ hslot[q] # 0)
                            => pend'[q] \/ hslot'[q] # 0
      BY <1>t, <2>1, <2>2, <2>3, <2>4, <2>6, ProcNames
    <3> QED
      BY <2>2, <2>3, <3>1, WakeFrame
  <2> QED
    BY <2>5, <2>6
<1>5. ASSUME NEW p \in Procs, HandlerReset(p) PROVE NoLostWakeup'
  <2>1. /\ hslot[p] # 0
        /\ cnt' = [cnt EXCEPT ![hslot[p]] = 0]
        /\ hslot' = [hslot EXCEPT ![p] = 0]
        /\ early' = IF p \in Pids THEN [early EXCEPT ![p] = 0] ELSE early
        /\ UNCHANGED <<slot, full, torn, job, scan, pend, pc>>
    BY <1>5 DEF HandlerReset, Running, local
  <2> SUFFICES ASSUME ~full, ~torn, NEW q \in Pids, Registered(q),
                      cnt'[slot[q]] > early'[q]
               PROVE  \/ pend[q] \/ hslot'[q] # 0
                      \/ \E r \in Pids : pc[r] = "kill" /\ scan[r] = slot[q]
    BY <2>1 DEF NoLostWakeup, Registered, Owner, Alive
  <2>2. slot[q] \in Slots /\ early'[q] \in Nat
    BY <1>t, <2>1, ProcNames
  <2>3. slot[q] # hslot[p]
    BY <1>t, <2>1, <2>2
  <2>4. q # p
    BY <2>1, <2>3 DEF PidInv, PidReachesOwner, Registered
  <2>5. /\ cnt'[slot[q]] = cnt[slot[q]] /\ early'[q] = early[q]
        /\ hslot'[q] = hslot[q]
    BY <1>t, <2>1, <2>2, <2>3, <2>4, ProcNames
  <2> QED
    BY <2>5 DEF NoLostWakeup
<1>6. CASE Accept
  <2>1. /\ pc[Server] = "accept" /\ pc' = [pc EXCEPT ![Server] = "wait"]
        /\ job' = [job EXCEPT ![Server] = "alloc"]
        /\ UNCHANGED <<cnt, early, slot, full, torn, hslot, pend, scan>>
    BY <1>6 DEF Accept, Enter, Goto, table, local, sigs, hist
  <2> QED
    BY <1>t, <2>1, WakeQuiet, ProcNames
<1>7. CASE Alloc
  <2>1. PICK i \in Slots : /\ cnt' = [cnt EXCEPT ![i] = 0]
                           /\ slot' = [slot EXCEPT ![Server] = i]
    BY <1>7 DEF Alloc, First
  <2>2. /\ pc' = [pc EXCEPT ![Server] = "signal"] /\ (full => full')
        /\ UNCHANGED <<early, torn, hslot, pend, job, scan>>
    BY <1>7 DEF Alloc, Goto, sigs
  <2> SUFFICES ASSUME ~full', ~torn, NEW q \in Pids, Registered(q)',
                      cnt'[slot'[q]] > early[q]
               PROVE  \/ pend[q] \/ hslot[q] # 0
                      \/ \E r \in Pids : pc'[r] = "kill" /\ scan[r] = slot'[q]
    BY <2>2 DEF NoLostWakeup
  <2>3. /\ \A r \in Pids : pc'[r] = pc[r]
        /\ slot'[q] = slot[q] /\ slot[q] \in Slots /\ early[q] \in Nat
    BY <1>t, <2>1, <2>2, ProcNames
  <2>4. Registered(q)
    BY <2>2, <2>3 DEF Registered, Owner, Alive
  <2>5. cnt'[slot[q]] = cnt[slot[q]]
    BY <1>t, <2>1, <2>3
  <2> QED
    BY <2>2, <2>3, <2>4, <2>5 DEF NoLostWakeup
<1>8. CASE Fork
  <2>1. PICK p \in Pids :
          /\ pc[p] = "unborn" /\ pc[Server] = "fork"
          /\ pc' = [pc EXCEPT ![p] = "wait", ![Server] = "accept"]
          /\ slot' = [slot EXCEPT ![p] = slot[Server]]
          /\ UNCHANGED <<cnt, early, full, torn, hslot, pend, job, scan>>
    BY <1>8 DEF Fork, table, sigs, hist
  <2>2. ~Registered(p)'
    BY <1>t, <2>1, ProcNames DEF PhaseOK, Registered
  <2>3. \A q \in Pids \ {p} : /\ Registered(q)' <=> Registered(q)
                              /\ slot'[q] = slot[q] /\ pc'[q] = pc[q]
    BY <1>t, <2>1, ProcNames DEF Registered, Owner, Alive
  <2>4. pc'[p] # "kill" /\ pc[p] # "kill"
    BY <1>t, <2>1, ProcNames
  <2> SUFFICES ASSUME ~full, ~torn, NEW q \in Pids, Registered(q)',
                      cnt[slot'[q]] > early[q]
               PROVE  \/ pend[q] \/ hslot[q] # 0
                      \/ \E r \in Pids : pc'[r] = "kill" /\ scan[r] = slot'[q]
    BY <2>1 DEF NoLostWakeup
  <2>5. Registered(q) /\ slot'[q] = slot[q]
    BY <2>2, <2>3
  <2>6. \A r \in Pids : pc[r] = "kill" => pc'[r] = "kill"
    BY <2>3, <2>4
  <2> QED
    BY <2>5, <2>6 DEF NoLostWakeup
<1>9. CASE ForkFails
  <2>1. /\ pc[Server] = "fork" /\ pc' = [pc EXCEPT ![Server] = "accept"]
        /\ UNCHANGED <<cnt, early, slot, full, torn, hslot, pend, scan, job>>
    BY <1>9 DEF ForkFails, Goto, table, local, sigs, hist
  <2> QED
    BY <1>t, <2>1, WakeQuiet, ProcNames
<1>10. CASE ClientExit
  <2>1. /\ pc' = pc \/ (pc[Server] = "wait" /\ pc' = [pc EXCEPT ![Server] = "in"])
        /\ UNCHANGED <<cnt, early, slot, full, torn, hslot, pend, scan, job>>
    BY <1>10 DEF ClientExit, Resume, Goto, local, hist
  <2>2. \A q \in Pids : pc'[q] = pc[q]
    BY <1>t, <2>1, ProcNames
  <2> QED
    BY <2>1, <2>2, WakeFrame DEF Registered, Owner, Alive
<1>11. ASSUME NEW p \in Pids, Register(p) PROVE NoLostWakeup'
  <2>1. /\ pc[p] = "in" /\ pc' = [pc EXCEPT ![p] = "signal"]
        /\ early' = [early EXCEPT ![p] = cnt[slot[p]]]
        /\ UNCHANGED <<cnt, slot, full, torn, hslot, pend, scan, job>>
    BY <1>11 DEF Register, Goto, local, sigs
  <2>2. \A q \in Pids \ {p} : /\ Registered(q)' <=> Registered(q)
                              /\ pc'[q] = pc[q] /\ early'[q] = early[q]
    BY <1>t, <2>1, ProcNames DEF Registered, Owner, Alive
  <2>3. ~(cnt[slot[p]] > early'[p])
    BY <1>t, <2>1, ProcNames
  <2>4. \A r \in Pids : pc[r] = "kill" => pc'[r] = "kill"
    BY <2>1, <2>2
  <2> QED
    BY <2>1, <2>2, <2>3, <2>4 DEF NoLostWakeup
<1>12. ASSUME NEW p \in Pids, Load(p) PROVE NoLostWakeup'
  <2>1. /\ pc[p] = "in" /\ pc' = [pc EXCEPT ![p] = "store"]
        /\ \E i \in Visit(p) : scan' = [scan EXCEPT ![p] = i]
        /\ job[p] \in {"cast", "left", "tell"}
        /\ UNCHANGED <<cnt, early, slot, full, torn, hslot, pend, job>>
    BY <1>12 DEF Load, Goto, Appending, table, sigs, hist
  <2>2. Registered(p)
    BY <2>1 DEF Registered, Owner, Alive
  <2> QED
    BY <1>t, <2>1, <2>2, WakeQuiet, ProcNames
<1>13. ASSUME NEW p \in Pids, LoopEnd(p) PROVE NoLostWakeup'
  <2>1. /\ pc[p] = "in" /\ pc' = [pc EXCEPT ![p] = "signal"]
        /\ scan' = [scan EXCEPT ![p] = 1]
        /\ job[p] \in {"cast", "left", "tell"}
        /\ UNCHANGED <<cnt, early, slot, full, torn, hslot, pend, job>>
    BY <1>13 DEF LoopEnd, Goto, Appending, table, sigs, hist
  <2>2. Registered(p)
    BY <2>1 DEF Registered, Owner, Alive
  <2> QED
    BY <1>t, <2>1, <2>2, WakeQuiet, ProcNames
<1>14. ASSUME NEW p \in Pids, Store(p) PROVE NoLostWakeup'
  <2>1. /\ pc[p] = "store" /\ pc' = [pc EXCEPT ![p] = "kill"]
        /\ cnt' = [cnt EXCEPT ![scan[p]] = seen[p] + 1]
        /\ UNCHANGED <<early, slot, full, torn, hslot, pend, scan, job>>
    BY <1>14 DEF Store, Goto, sigs, hist
  <2> SUFFICES ASSUME ~full, ~torn, NEW q \in Pids, Registered(q)',
                      cnt'[slot[q]] > early[q]
               PROVE  \/ pend[q] \/ hslot[q] # 0
                      \/ \E r \in Pids : pc'[r] = "kill" /\ scan[r] = slot[q]
    BY <2>1 DEF NoLostWakeup
  <2>2. pc'[p] = "kill" /\ \A r \in Pids : pc[r] = "kill" => pc'[r] = "kill"
    BY <1>t, <2>1, ProcNames
  <2>3. CASE slot[q] = scan[p]
    BY <2>2, <2>3
  <2>4. CASE slot[q] # scan[p]
    <3>1. cnt'[slot[q]] = cnt[slot[q]]
      BY <1>t, <2>1, <2>4, ProcNames
    <3>2. Registered(q)
      BY <1>t, <2>1, ProcNames DEF Registered, Owner, Alive
    <3> QED
      BY <2>2, <3>1, <3>2 DEF NoLostWakeup
  <2> QED
    BY <2>3, <2>4
<1>15. ASSUME NEW p \in Pids, Kill(p) PROVE NoLostWakeup'
  <2>1. /\ pc[p] = "kill"
        /\ \/ pc' = [pc EXCEPT ![p] = "signal"]
           \/ pc' = [pc EXCEPT ![p] = "in"]
        /\ pend' = [q \in Procs |-> pend[q] \/ q \in Signalled(pid[scan[p]])]
        /\ \/ scan' = [scan EXCEPT ![p] = 1]
           \/ scan' = [scan EXCEPT ![p] = @ + 1]
        /\ job[p] \in {"cast", "tell", "left"}
        /\ UNCHANGED <<cnt, early, slot, full, torn, hslot, job>>
    BY <1>15 DEF Kill, Goto, table, hist, PhaseOK
  <2>2. \A r \in Pids \ {p} : pc'[r] = pc[r] /\ scan'[r] = scan[r]
    BY <1>t, <2>1, ProcNames
  <2> SUFFICES ASSUME ~full, ~torn, NEW q \in Pids, Registered(q)',
                      cnt[slot[q]] > early[q]
               PROVE  \/ pend'[q] \/ hslot[q] # 0
                      \/ \E r \in Pids : pc'[r] = "kill" /\ scan'[r] = slot[q]
    BY <2>1 DEF NoLostWakeup
  <2>3. Registered(q)
    BY <2>1, <2>2 DEF Registered, Owner, Alive
  <2>4. CASE slot[q] = scan[p]
    <3>1. pid[scan[p]] = q /\ q \in Procs /\ Alive(q)
      BY <2>3, <2>4, ProcNames DEF PidInv, PidReachesOwner, Registered, Owner
    <3>2. q \in Signalled(pid[scan[p]])
      BY <3>1, ConstantsAssumption DEF Signalled
    <3> QED
      BY <2>1, <3>1, <3>2
  <2>5. CASE slot[q] # scan[p]
    <3>1. \/ pend[q] \/ hslot[q] # 0
          \/ \E r \in Pids : pc[r] = "kill" /\ scan[r] = slot[q]
      BY <2>3 DEF NoLostWakeup
    <3>2. pend[q] => pend'[q]
      BY <2>1, ProcNames
    <3> QED
      BY <2>2, <2>5, <3>1, <3>2
  <2> QED
    BY <2>4, <2>5
<1>16. ASSUME NEW p \in Pids, Leave(p) PROVE NoLostWakeup'
  <2>1. /\ pc[p] = "in" /\ pc' = [pc EXCEPT ![p] = "signal"]
        /\ job[p] = "exit"
        /\ UNCHANGED <<cnt, early, slot, full, torn, hslot, pend, scan, job>>
    BY <1>16 DEF Leave, Goto, local, sigs, hist
  <2>2. Registered(p)
    BY <2>1 DEF Registered, Owner, Alive
  <2> QED
    BY <1>t, <2>1, <2>2, WakeQuiet, ProcNames
<1>17. ASSUME NEW p \in Pids, Terminate(p) \/ Die(p) PROVE NoLostWakeup'
  BY <1>17, WakeEnd DEF Terminate, Die
<1>18. ASSUME NEW p \in Pids, Yell(p) \/ Quit(p) \/ \E i \in Slots : Tell(p, i)
       PROVE  NoLostWakeup'
  <2>1. /\ pc[p] = "ready" /\ pc' = [pc EXCEPT ![p] = "wait"]
        /\ \E j \in Jobs : job' = [job EXCEPT ![p] = j]
        /\ scan' = scan \/ \E i \in Slots : scan' = [scan EXCEPT ![p] = i]
        /\ UNCHANGED <<cnt, early, slot, full, torn, hslot, pend>>
    BY <1>18 DEF Yell, Quit, Tell, Typing, Enter, Goto, table, local, sigs,
                 hist, Jobs
  <2>2. Registered(p)
    BY <2>1 DEF Registered, Owner, Alive
  <2> QED
    BY <1>t, <2>1, <2>2, WakeQuiet, ProcNames
<1>19. ASSUME NEW p \in Pids, NEW n \in Names, NameCheck(p, n)
       PROVE  NoLostWakeup'
  <2>1. /\ pc[p] = "ready"
        /\ pc' = pc \/ pc' = [pc EXCEPT ![p] = "naming"]
        /\ UNCHANGED <<cnt, early, slot, full, torn, hslot, pend, scan, job>>
    BY <1>19 DEF NameCheck, Typing, Goto, table, sigs, hist
  <2>2. Registered(p)
    BY <2>1 DEF Registered, Owner, Alive
  <2> QED
    BY <1>t, <2>1, <2>2, WakeQuiet, ProcNames
<1>20. ASSUME NEW p \in Pids, NameSet(p) PROVE NoLostWakeup'
  <2>1. /\ pc[p] = "naming" /\ pc' = [pc EXCEPT ![p] = "wait"]
        /\ job' = [job EXCEPT ![p] = "cast"]
        /\ UNCHANGED <<cnt, early, slot, full, torn, hslot, pend, scan>>
    BY <1>20 DEF NameSet, Enter, Goto, sigs, hist
  <2>2. Registered(p)
    BY <2>1 DEF Registered, Owner, Alive
  <2> QED
    BY <1>t, <2>1, <2>2, WakeQuiet, ProcNames
<1>21. ASSUME NEW p \in Pids, NameClear(p) PROVE NoLostWakeup'
  <2>1. UNCHANGED <<cnt, early, slot, full, torn, hslot, pend, scan, job, pc>>
    BY <1>21 DEF NameClear, local, sigs, hist
  <2> QED
    BY <2>1, WakeFrame DEF Registered, Owner, Alive
<1> QED
  BY <1>1, <1>2, <1>3, <1>4, <1>5, <1>6, <1>7, <1>8, <1>9, <1>10, <1>11, <1>12,
     <1>13, <1>14, <1>15, <1>16, <1>17, <1>18, <1>19, <1>20, <1>21
  DEF Next, LockStep, SignalStep, ServerStep, SessionStep, Command

(* No lost wakeup, for every number of sessions and slots: a session whose *)
(* counter has grown has its SIGUSR1 pending, is printing, or is about to  *)
(* be signalled, whatever handlers, deaths and reuse of slots interleave   *)
(* with broadcast_msg and tell.                                            *)
THEOREM WakeupsAreKept == Spec => []NoLostWakeup
<1>1. Init => NoLostWakeup
  BY ProcNames DEF Init, NoLostWakeup, Registered, Owner, Alive
<1>2. IInv /\ NoLostWakeup /\ [Next]_vars => NoLostWakeup'
  BY WakeStep DEF IInv
<1> QED
  BY <1>1, <1>2, Invariance, PTL DEF Spec

=============================================================================
