------------------------------- MODULE RwgShm -------------------------------
(***************************************************************************)
(* The concurrent "remote working ground" server: np_multi_proc.cpp, the   *)
(* user commands of npshell_3.h and the lock of semaphore.h.               *)
(*                                                                         *)
(* One server process accepts clients and forks one session per client.    *)
(* All of them share the user table in System V shared memory (valid, pid, *)
(* name, msg_count), guarded, where the code guards it, by the semaphore   *)
(* clisem.  A message to a user is appended to the user's slot and the     *)
(* session that owns the slot is told by SIGUSR1, whose handler prints the *)
(* messages and resets msg_count without taking the lock.                  *)
(*                                                                         *)
(* Not modelled here: the numbered pipes (a session's own state), the user *)
(* pipes, and the text of messages.                                        *)
(***************************************************************************)
EXTENDS Integers, FiniteSets

CONSTANTS
  QLEN,        \* slots of the user table
  Pids,        \* the sessions the server can fork; bounds the clients
  Server,      \* the accepting process
  Names,       \* names a user can ask for
  NoName,      \* "(no name)"
  NoPid,       \* 0, the pid field of fresh shared memory
  OldPid,      \* pid left by a session of an earlier server, dead by now
  Interrupts,  \* TRUE: a signal makes a sleeping semop fail with EINTR
  MaxCmds      \* commands the clients type in all; a bound for TLC only

ASSUME ConstantsAssumption ==
  /\ QLEN \in Nat \ {0}
  /\ Server \notin Pids
  /\ NoName \notin Names
  /\ NoPid \notin Pids \cup {Server}
  /\ OldPid \notin Pids \cup {Server, NoPid}
  /\ Interrupts \in BOOLEAN
  /\ MaxCmds \in Nat

Slots == 1..QLEN
Procs == Pids \cup {Server}

VARIABLES
  sem,       \* value of clisem
  semadj,    \* per process: what SEM_UNDO adds to sem when it ends
  valid, pid, name, cnt,  \* the shared table; cnt is msg_count
  psock,     \* per slot: is user[i].sock open in the server process
  pc,        \* where each process is
  job,       \* which critical section it is in or waits for
  slot,      \* space_ind / user_index of each process
  scan,      \* loop index i of broadcast_msg, or the target of tell
  seen,      \* value of msg_count read by msg_count++
  arg,       \* the name that passed check_name_exist
  hslot,     \* slot real_broadcast_msg is printing, 0 outside the handler
  pend,      \* SIGUSR1 pending
  zombies,   \* ended sessions not yet waited for
  chld,      \* SIGCHLD pending in the server
  cmds,      \* commands typed so far
  (* history, read by properties only *)
  full,      \* a client was accepted when no slot was free
  torn,      \* a sender died between an append and its kill
  early      \* messages in a session's slot when it registered its pid

lock  == <<sem, semadj>>
table == <<valid, pid, name, cnt, psock>>
local == <<slot, scan, seen, arg>>
sigs  == <<hslot, pend, zombies, chld>>
hist  == <<full, torn, early>>
vars  == <<lock, table, pc, job, local, sigs, cmds, hist>>

Jobs == {"none", "alloc", "reg", "cast", "tell", "left", "exit"}
PCs  == {"unborn", "accept", "wait", "in", "store", "kill", "signal", "fork",
         "ready", "naming", "closing", "dead"}

(* The index a loop over S stops at, as a set: empty when S is. *)
First(S) == {i \in S : \A j \in S : i <= j}

Alive(p)   == pc[p] \notin {"unborn", "dead"}
(* A process between the return of sem_wait and its sem_signal. *)
InCS(p)    == pc[p] \in {"in", "store", "kill", "signal"}
(* A process runs its own code only outside the SIGUSR1 handler. *)
Running(p) == hslot[p] = 0

Init ==
  /\ sem = 1
  /\ semadj = [p \in Procs |-> 0]
  /\ valid  = [i \in Slots |-> FALSE]
  /\ pid \in [Slots -> {NoPid, OldPid}]   \* shared memory survives a crash
  /\ name   = [i \in Slots |-> NoName]
  /\ cnt    = [i \in Slots |-> 0]
  /\ psock  = [i \in Slots |-> FALSE]
  /\ pc     = [p \in Procs |-> IF p = Server THEN "accept" ELSE "unborn"]
  /\ job    = [p \in Procs |-> IF p = Server THEN "alloc" ELSE "reg"]
  /\ slot   = [p \in Procs |-> 1]
  /\ scan   = [p \in Procs |-> 1]
  /\ seen   = [p \in Procs |-> 0]
  /\ arg    = [p \in Procs |-> NoName]
  /\ hslot  = [p \in Procs |-> 0]
  /\ pend   = [p \in Procs |-> FALSE]
  /\ zombies = {}
  /\ chld   = FALSE
  /\ cmds   = 0
  /\ full   = FALSE
  /\ torn   = FALSE
  /\ early  = [p \in Pids |-> 0]

Goto(p, l)     == pc' = [pc EXCEPT ![p] = l]
Enter(p, j)    == job' = [job EXCEPT ![p] = j] /\ Goto(p, "wait")

-----------------------------------------------------------------------------
(* The lock.  semop(-1) sleeps while sem = 0; every operation carries      *)
(* SEM_UNDO.                                                               *)
SemWait(p) ==
  /\ pc[p] = "wait" /\ Running(p) /\ sem > 0
  /\ sem' = sem - 1
  /\ semadj' = [semadj EXCEPT ![p] = @ + 1]
  /\ Goto(p, "in")
  /\ UNCHANGED <<table, job, local, sigs, cmds, hist>>

(* Where a process goes from each critical section, and its next one.      *)
Following == [alloc |-> <<"fork", "alloc">>,    reg  |-> <<"ready", "none">>,
              cast  |-> <<"ready", "none">>,    tell |-> <<"ready", "none">>,
              left  |-> <<"wait", "exit">>,     exit |-> <<"closing", "exit">>]

SemSignal(p) ==
  /\ pc[p] = "signal" /\ Running(p)
  /\ sem' = sem + 1
  /\ semadj' = [semadj EXCEPT ![p] = @ - 1]
  /\ Goto(p, Following[job[p]][1])
  /\ job' = [job EXCEPT ![p] = Following[@][2]]
  /\ UNCHANGED <<table, local, sigs, cmds, hist>>

(* Mutant: sem_op without SEM_UNDO. *)
ProcessEnd_NoUndo(p) ==
  /\ sem' = sem
  /\ semadj' = [semadj EXCEPT ![p] = 0]
  /\ Goto(p, "dead")
  /\ hslot' = [hslot EXCEPT ![p] = 0]
  /\ pend' = [pend EXCEPT ![p] = FALSE]
  /\ zombies' = zombies \cup {p}
  /\ chld' = TRUE
  /\ torn' = (torn \/ pc[p] = "kill")
  /\ UNCHANGED <<table, job, local, cmds, full, early>>

(* Mutant: the end of a process releases the lock whoever holds it. *)
ProcessEnd_Releases(p) ==
  /\ sem' = sem + 1
  /\ semadj' = [semadj EXCEPT ![p] = 0]
  /\ Goto(p, "dead")
  /\ hslot' = [hslot EXCEPT ![p] = 0]
  /\ pend' = [pend EXCEPT ![p] = FALSE]
  /\ zombies' = zombies \cup {p}
  /\ chld' = TRUE
  /\ torn' = (torn \/ pc[p] = "kill")
  /\ UNCHANGED <<table, job, local, cmds, full, early>>

(* The kernel's exit processing: the undo is applied, never below zero.    *)
ProcessEnd(p) ==
  /\ sem' = IF sem + semadj[p] < 0 THEN 0 ELSE sem + semadj[p]
  /\ semadj' = [semadj EXCEPT ![p] = 0]
  /\ Goto(p, "dead")
  /\ hslot' = [hslot EXCEPT ![p] = 0]
  /\ pend' = [pend EXCEPT ![p] = FALSE]
  /\ zombies' = zombies \cup {p}
  /\ chld' = TRUE
  /\ torn' = (torn \/ pc[p] = "kill")
  /\ UNCHANGED <<table, job, local, cmds, full, early>>

-----------------------------------------------------------------------------
(* The server process. *)
Accept ==
  /\ pc[Server] = "accept"
  /\ \E p \in Pids : pc[p] = "unborn"     \* bound: a client is left to come
  /\ Enter(Server, "alloc")
  /\ UNCHANGED <<lock, table, local, sigs, cmds, hist>>

(* Slot search and initialisation.  With no free slot space_ind is read    *)
(* uninitialised: any slot, whoever owns it.  The pid field is not set.    *)
Alloc ==
  /\ pc[Server] = "in" /\ Running(Server)
  /\ LET free == {i \in Slots : ~valid[i]}
     IN \E i \in IF free = {} THEN Slots ELSE First(free) :
          /\ valid' = [valid EXCEPT ![i] = TRUE]
          /\ name'  = [name EXCEPT ![i] = NoName]
          /\ cnt'   = [cnt EXCEPT ![i] = 0]
          /\ psock' = [psock EXCEPT ![i] = TRUE]
          /\ slot'  = [slot EXCEPT ![Server] = i]
          /\ full'  = (full \/ free = {})
  /\ Goto(Server, "signal")
  /\ UNCHANGED <<lock, pid, job, scan, seen, arg, sigs, cmds, torn, early>>

Fork ==
  /\ pc[Server] = "fork"
  /\ \E p \in Pids :
       /\ pc[p] = "unborn"
       /\ pc'   = [pc EXCEPT ![p] = "wait", ![Server] = "accept"]
       /\ slot' = [slot EXCEPT ![p] = slot[Server]]
  /\ UNCHANGED <<lock, table, job, scan, seen, arg, sigs, cmds, hist>>

(* fork() < 0: err_dump only prints; the slot stays valid with no session. *)
ForkFails ==
  /\ pc[Server] = "fork"
  /\ Goto(Server, "accept")
  /\ UNCHANGED <<lock, table, job, local, sigs, cmds, hist>>

(* A signal handler that returns while its process sleeps in semop makes   *)
(* semop fail; sem_op only prints, and the caller goes on as if it held    *)
(* the lock.                                                               *)
Resume(p) ==
  \/ UNCHANGED pc
  \/ Interrupts /\ pc[p] = "wait" /\ sem = 0 /\ Goto(p, "in")

(* Mutant: the parent also frees the slot it found by pid. *)
ClientExit_Frees ==
  /\ chld
  /\ \E z \in zombies :
       LET named == {i \in Slots : pid[i] = z}
       IN /\ zombies' = zombies \ {z}
          /\ psock' = [i \in Slots |-> psock[i] /\ i \notin First(named)]
          /\ valid' = [i \in Slots |-> valid[i] /\ i \notin First(named)]
  /\ chld' = FALSE
  /\ Resume(Server)
  /\ UNCHANGED <<lock, pid, name, cnt, job, local, hslot, pend, cmds, hist>>

(* SIGCHLD: one wait() per delivery; the socket closed is that of the first *)
(* slot whose pid field names the dead process.                            *)
ClientExit ==
  /\ chld
  /\ \E z \in zombies :
       LET named == {i \in Slots : pid[i] = z}
       IN /\ zombies' = zombies \ {z}
          /\ psock' = [i \in Slots |-> psock[i] /\ i \notin First(named)]
  /\ chld' = FALSE
  /\ Resume(Server)
  /\ UNCHANGED <<lock, valid, pid, name, cnt, job, local, hslot, pend, cmds,
                 hist>>

-----------------------------------------------------------------------------
(* A session. *)
(* Mutant: space_ind shared with the server instead of copied by fork. *)
Register_Newest(p) ==
  /\ pc[p] = "in" /\ job[p] = "reg" /\ Running(p)
  /\ pid' = [pid EXCEPT ![slot[Server]] = p]
  /\ early' = [early EXCEPT ![p] = cnt[slot[p]]]
  /\ Goto(p, "signal")
  /\ UNCHANGED <<lock, valid, name, cnt, psock, job, local, sigs, cmds, full,
                 torn>>

Register(p) ==
  /\ pc[p] = "in" /\ job[p] = "reg" /\ Running(p)
  /\ pid' = [pid EXCEPT ![slot[p]] = p]
  /\ early' = [early EXCEPT ![p] = cnt[slot[p]]]
  /\ Goto(p, "signal")
  /\ UNCHANGED <<lock, valid, name, cnt, psock, job, local, sigs, cmds, full,
                 torn>>

Typing(p) ==
  /\ pc[p] = "ready" /\ Running(p)
  /\ cmds < MaxCmds
  /\ cmds' = cmds + 1

Yell(p) ==
  /\ Typing(p)
  /\ Enter(p, "cast")
  /\ UNCHANGED <<lock, table, local, sigs, hist>>

(* The receiver is checked before the lock is taken, and not again. *)
Tell(p, i) ==
  /\ Typing(p)
  /\ valid[i]
  /\ Enter(p, "tell")
  /\ scan' = [scan EXCEPT ![p] = i]
  /\ UNCHANGED <<lock, table, slot, seen, arg, sigs, hist>>

NameTaken(n) == \E i \in Slots : valid[i] /\ name[i] = n

NameCheck(p, n) ==
  /\ Typing(p)
  /\ IF NameTaken(n)
     THEN UNCHANGED <<pc, arg>>          \* "already exists"
     ELSE arg' = [arg EXCEPT ![p] = n] /\ Goto(p, "naming")
  /\ UNCHANGED <<lock, table, job, slot, scan, seen, sigs, hist>>

NameSet(p) ==
  /\ pc[p] = "naming" /\ Running(p)
  /\ name' = [name EXCEPT ![slot[p]] = arg[p]]
  /\ Enter(p, "cast")
  /\ arg' = [arg EXCEPT ![p] = NoName]
  /\ UNCHANGED <<lock, valid, pid, cnt, psock, slot, scan, seen, sigs, cmds,
                 hist>>

NameClear(p) ==
  /\ Typing(p)
  /\ name' = [name EXCEPT ![slot[p]] = NoName]
  /\ UNCHANGED <<lock, valid, pid, cnt, psock, pc, job, local, sigs, hist>>

(* exit: broadcast "left", then lock again to give the slot back. *)
Quit(p) ==
  /\ Typing(p)
  /\ Enter(p, "left")
  /\ UNCHANGED <<lock, table, local, sigs, hist>>

(* The append of broadcast_msg and tell: msg_count is read, written back   *)
(* one larger, and the owner is signalled.  Three steps, because the       *)
(* handler resets msg_count without the lock.  A loop variable returns to  *)
(* its initial value when its loop ends.                                   *)
Appending(p) == job[p] \in {"cast", "left", "tell"} /\ Running(p)
(* The slot the loop visits next, if any; tell visits its target only and  *)
(* does not look at valid again.                                           *)
Visit(p) ==
  IF job[p] = "tell" THEN {scan[p]}
  ELSE First({i \in Slots : i >= scan[p] /\ valid[i]})

Load(p) ==
  /\ pc[p] = "in" /\ Appending(p)
  /\ \E i \in Visit(p) :
       /\ scan' = [scan EXCEPT ![p] = i]
       /\ seen' = [seen EXCEPT ![p] = cnt[i]]
  /\ Goto(p, "store")
  /\ UNCHANGED <<lock, table, job, slot, arg, sigs, cmds, hist>>

LoopEnd(p) ==
  /\ pc[p] = "in" /\ Appending(p)
  /\ Visit(p) = {}
  /\ scan' = [scan EXCEPT ![p] = 1]
  /\ Goto(p, "signal")
  /\ UNCHANGED <<lock, table, job, slot, seen, arg, sigs, cmds, hist>>

Store(p) ==
  /\ pc[p] = "store" /\ Running(p)
  /\ cnt' = [cnt EXCEPT ![scan[p]] = seen[p] + 1]
  /\ seen' = [seen EXCEPT ![p] = 0]
  /\ Goto(p, "kill")
  /\ UNCHANGED <<lock, valid, pid, name, psock, job, slot, scan, arg, sigs,
                 cmds, hist>>

(* kill(0, SIGUSR1) signals the whole process group. *)
Signalled(t) ==
  IF t = NoPid THEN {q \in Procs : Alive(q)}
  ELSE {q \in Procs : q = t /\ Alive(q)}

(* Mutant: a user is signalled for the first message only. *)
Kill_FirstOnly(p) ==
  /\ pc[p] = "kill" /\ Running(p)
  /\ pend' = [q \in Procs |-> \/ pend[q]
                             \/ /\ q \in Signalled(pid[scan[p]])
                                /\ cnt[scan[p]] = 1]
  /\ IF job[p] = "tell"
     THEN Goto(p, "signal") /\ scan' = [scan EXCEPT ![p] = 1]
     ELSE Goto(p, "in") /\ scan' = [scan EXCEPT ![p] = @ + 1]
  /\ UNCHANGED <<lock, table, job, slot, seen, arg, hslot, zombies, chld,
                 cmds, hist>>

Kill(p) ==
  /\ pc[p] = "kill" /\ Running(p)
  /\ pend' = [q \in Procs |-> pend[q] \/ q \in Signalled(pid[scan[p]])]
  /\ IF job[p] = "tell"
     THEN Goto(p, "signal") /\ scan' = [scan EXCEPT ![p] = 1]
     ELSE Goto(p, "in") /\ scan' = [scan EXCEPT ![p] = @ + 1]
  /\ UNCHANGED <<lock, table, job, slot, seen, arg, hslot, zombies, chld,
                 cmds, hist>>

Leave(p) ==
  /\ pc[p] = "in" /\ job[p] = "exit" /\ Running(p)
  /\ valid' = [valid EXCEPT ![slot[p]] = FALSE]
  /\ Goto(p, "signal")
  /\ UNCHANGED <<lock, pid, name, cnt, psock, job, local, sigs, cmds, hist>>

Terminate(p) ==
  /\ pc[p] = "closing" /\ Running(p)
  /\ ProcessEnd(p)

(* The client hung up: a write to its socket (the prompt, or the handler   *)
(* printing) raises SIGPIPE, whose default action ends the session.  The   *)
(* slot stays valid.                                                       *)
Die(p) ==
  /\ pc[p] = "ready" \/ ~Running(p)
  /\ ProcessEnd(p)

-----------------------------------------------------------------------------
(* SIGUSR1: real_broadcast_msg.  It looks for the slot of the process,     *)
(* prints, and resets the counter; it holds no lock.                       *)
Mine(p) == {i \in Slots : valid[i] /\ pid[i] = p}

HandlerStart(p) ==
  /\ pend[p] /\ Alive(p) /\ Running(p)
  /\ pend' = [pend EXCEPT ![p] = FALSE]
  /\ \E i \in IF Mine(p) = {} THEN {0} ELSE First(Mine(p)) :
       hslot' = [hslot EXCEPT ![p] = i]
  /\ Resume(p)
  /\ UNCHANGED <<lock, table, job, local, zombies, chld, cmds, hist>>

(* Mutant: the handler takes one message off instead of all. *)
HandlerReset_One(p) ==
  /\ ~Running(p)
  /\ cnt' = [cnt EXCEPT ![hslot[p]] = @ - 1]
  /\ hslot' = [hslot EXCEPT ![p] = 0]
  /\ early' = IF p \in Pids THEN [early EXCEPT ![p] = 0] ELSE early
  /\ UNCHANGED <<lock, valid, pid, name, psock, pc, job, local, pend, zombies,
                 chld, cmds, full, torn>>

HandlerReset(p) ==
  /\ ~Running(p)
  /\ cnt' = [cnt EXCEPT ![hslot[p]] = 0]
  /\ hslot' = [hslot EXCEPT ![p] = 0]
  /\ early' = IF p \in Pids THEN [early EXCEPT ![p] = 0] ELSE early
  /\ UNCHANGED <<lock, valid, pid, name, psock, pc, job, local, pend, zombies,
                 chld, cmds, full, torn>>

-----------------------------------------------------------------------------
LockStep(p) == SemWait(p) \/ SemSignal(p)
SignalStep(p) == HandlerStart(p) \/ HandlerReset(p)
ServerStep == Accept \/ Alloc \/ Fork \/ ForkFails \/ ClientExit
Command(p) ==
  \/ Yell(p) \/ Quit(p) \/ NameClear(p)
  \/ \E i \in Slots : Tell(p, i)
  \/ \E n \in Names : NameCheck(p, n)
SessionStep(p) ==
  \/ Register(p) \/ NameSet(p) \/ Load(p) \/ LoopEnd(p) \/ Store(p)
  \/ Kill(p) \/ Leave(p) \/ Terminate(p)

Next ==
  \/ \E p \in Procs : LockStep(p) \/ SignalStep(p)
  \/ ServerStep
  \/ \E p \in Pids : SessionStep(p) \/ Command(p) \/ Die(p)

Spec == Init /\ [][Next]_vars

(* Fairness.  Every process is scheduled, a handler returns (its client     *)
(* reads, or has hung up, and then the session may die), and semop serves   *)
(* its sleepers in turn.  Clients may stay silent, fork may fail, SIGPIPE   *)
(* need not come: Accept, Command, Fork, ForkFails and Die are not fair     *)
(* beyond the server's leaving "fork".                                     *)
Fairness ==
  /\ \A p \in Procs : SF_vars(SemWait(p)) /\ WF_vars(SemSignal(p))
  /\ \A p \in Procs : WF_vars(SignalStep(p))
  /\ \A p \in Pids : WF_vars(SessionStep(p))
  /\ WF_vars(Alloc) /\ WF_vars(Fork \/ ForkFails)

FairSpec == Spec /\ Fairness
-----------------------------------------------------------------------------
(* PROPERTIES *)

(* The shapes of the table, of the lock and of every process. *)
TypeOK ==
  /\ sem \in Nat /\ semadj \in [Procs -> Int]
  /\ valid \in [Slots -> BOOLEAN]
  /\ pid \in [Slots -> Pids \cup {NoPid, OldPid}]
  /\ name \in [Slots -> Names \cup {NoName}]
  /\ cnt \in [Slots -> Nat]
  /\ psock \in [Slots -> BOOLEAN]
  /\ pc \in [Procs -> PCs] /\ job \in [Procs -> Jobs]
  /\ slot \in [Procs -> Slots]
  /\ scan \in [Procs -> 1..(QLEN + 1)]
  /\ seen \in [Procs -> Nat]
  /\ arg \in [Procs -> Names \cup {NoName}]
  /\ hslot \in [Procs -> 0..QLEN]
  /\ pend \in [Procs -> BOOLEAN]
  /\ zombies \subseteq Pids /\ chld \in BOOLEAN
  /\ cmds \in Nat
  /\ full \in BOOLEAN /\ torn \in BOOLEAN /\ early \in [Pids -> Nat]

(* While no signal interrupts a sleeping semop, at most one process is     *)
(* between sem_wait and sem_signal, deaths inside the section included     *)
(* (a session can die there, printing its own broadcast to a closed        *)
(* socket).                                                                *)
MutualExclusion ==
  ~Interrupts => \A p, q \in Procs : InCS(p) /\ InCS(q) => p = q

(* semaphore.h:7: the lock is free whenever no living process is inside a  *)
(* critical section: SEM_UNDO gives back what a dead holder took.          *)
LockReleased ==
  ~Interrupts /\ (\A p \in Procs : ~InCS(p)) => sem = 1

(* A session owns its slot from the fork until it has marked it free.      *)
Owner(p) ==
  /\ Alive(p) /\ p \in Pids
  /\ ~(job[p] = "exit" /\ pc[p] \in {"signal", "closing"})

(* No two living sessions share a slot, and the slot of a living session   *)
(* is not free, however deaths, failed forks and reuse interleave, until a *)
(* client comes to a full table.                                           *)
SlotExclusive ==
  ~full => /\ \A p \in Pids : Owner(p) => valid[slot[p]]
           /\ \A p, q \in Pids : Owner(p) /\ Owner(q) /\ slot[p] = slot[q]
                                   => p = q

Registered(p) ==
  Owner(p) /\ ~(job[p] = "reg" /\ pc[p] \in {"wait", "in"})

(* A session that recorded its pid is found under it, by kill for its slot *)
(* and by its own handler, until it leaves; and until then its handler     *)
(* never resets the counter of another session's slot.                     *)
PidReachesOwner ==
  ~full => \A p \in Pids :
             /\ Registered(p) => pid[slot[p]] = p
             /\ Owner(p) /\ hslot[p] # 0 => hslot[p] = slot[p] /\ Registered(p)

(* No lost wakeup: when messages were added to a registered session's slot *)
(* since its counter was last reset, then SIGUSR1 is pending for it, or it *)
(* is in the handler, or a sender is about to signal it.                   *)
NoLostWakeup ==
  ~full /\ ~torn => \A p \in Pids :
     Registered(p) /\ cnt[slot[p]] > early[p] =>
        \/ pend[p] \/ hslot[p] # 0
        \/ \E q \in Pids : pc[q] = "kill" /\ scan[q] = slot[p]

(* Every process that waits for the lock leaves its sem_wait: no holder,   *)
(* living or dead, keeps clisem for ever.                                  *)
LockProgress ==
  \A p \in Procs : (pc[p] = "wait") ~> (pc[p] # "wait")

-----------------------------------------------------------------------------
(* What makes the properties above inductive. *)

(* Which critical sections go with which process and which step.           *)
PhaseOK ==
  /\ job[Server] = "alloc"
  /\ pc[Server] \in {"accept", "wait", "in", "signal", "fork"}
  /\ \A p \in Pids :
       /\ pc[p] \notin {"accept", "fork"} /\ job[p] # "alloc"
       /\ pc[p] = "unborn" => job[p] = "reg"
       /\ pc[p] \in {"wait", "in", "signal"} => job[p] # "none"
       /\ pc[p] = "closing" => job[p] = "exit"
       /\ pc[p] \in {"ready", "naming"} => job[p] = "none"
       /\ pc[p] \in {"store", "kill"} => job[p] \in {"cast", "tell", "left"}
       /\ pc[p] \in {"store", "kill"} \/ job[p] = "tell" => scan[p] \in Slots

(* The lock accounts: a process inside has one unit to give back, and the  *)
(* semaphore is zero exactly while somebody is inside.                     *)
LockInv ==
  /\ \A p \in Procs : semadj[p] = IF InCS(p) THEN 1 ELSE 0
  /\ \A p, q \in Procs : InCS(p) /\ InCS(q) => p = q
  /\ sem = IF \E p \in Procs : InCS(p) THEN 0 ELSE 1

(* The slot the server is filling belongs to nobody yet. *)
ServerHolds(i) == pc[Server] \in {"signal", "fork"} /\ slot[Server] = i
SlotInv ==
  /\ SlotExclusive
  /\ ~full => \A i \in Slots : ServerHolds(i) =>
        valid[i] /\ \A p \in Pids : Owner(p) => slot[p] # i

(* A pid in the table is that of a session that owned this very slot. *)
PidInv ==
  /\ PidReachesOwner
  /\ \A p \in Pids : pc[p] = "unborn" => hslot[p] = 0
  /\ \A i \in Slots, p \in Pids : pid[i] = p =>
        /\ slot[p] = i /\ pc[p] # "unborn"
        /\ ~(job[p] = "reg" /\ pc[p] \in {"wait", "in"})

IInv ==
  /\ TypeOK /\ PhaseOK /\ SlotInv /\ PidInv
  /\ ~Interrupts => LockInv

-----------------------------------------------------------------------------
(* What the repository says and the code does not do. *)

(* semaphore.h:7 has the lock released by an explicit unlock or the exit   *)
(* of its holder: nobody is inside while another still is.                 *)
LockExcludes == \A p, q \in Procs : InCS(p) /\ InCS(q) => p = q

(* npshell_3.h:424: a name another user has is refused.                    *)
NamesUnique ==
  \A i, j \in Slots :
    valid[i] /\ valid[j] /\ name[i] = name[j] /\ name[i] # NoName => i = j

=============================================================================
