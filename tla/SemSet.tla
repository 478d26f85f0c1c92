------------------------------- MODULE SemSet --------------------------------
(***************************************************************************)
(* The life of the semaphore set of the multi-process server               *)
(* (semaphore.h): [0] is the lock, [1] counts down from BIGCOUNT the       *)
(* servers that use the set, [2] guards creating and closing.  Servers     *)
(* create the set; their sessions use it without counting, but have        *)
(* inherited the SIGINT handler and close it too.  Any process can crash   *)
(* between two calls, and SEM_UNDO takes back what it did.                 *)
(***************************************************************************)
EXTENDS Integers, FiniteSets

CONSTANTS
  Servers, Sessions,  \* processes; each runs once
  MaxSets             \* sets ever created; bound

ASSUME SemAssumption ==
  /\ IsFiniteSet(Servers \cup Sessions) /\ Servers \cap Sessions = {}
  /\ MaxSets \in Nat

Procs == Servers \cup Sessions
BIGCOUNT == 31
Sems == 0..2
None == 0

VARIABLES
  set, made,  \* the set that exists, None or its number; sets made so far
  val,        \* semaphore values of the set
  adj,        \* per process: what its exit adds to them
  pc, id,     \* per process: next call, and the set it knows
  (* history *)
  orphaned,   \* processes that slept in sem_create when the set was removed
  stray       \* a session has called sem_close

vars == <<set, made, val, adj, pc, id, orphaned, stray>>
kernel == <<set, made, val, adj>>
history == <<orphaned, stray>>

Zero == [s \in Sems |-> 0]

Init ==
  /\ set = None /\ made = 0 /\ val = Zero
  /\ adj = [p \in Procs |-> Zero]
  /\ pc = [p \in Procs |-> "off"] /\ id = [p \in Procs |-> None]
  /\ orphaned = {} /\ stray = FALSE

Goto(p, l) == pc' = [pc EXCEPT ![p] = l]
Exists(p) == id[p] = set /\ set # None

(* semop with SEM_UNDO: d is added to the values and taken from adj.       *)
SemOp(p, d) ==
  /\ val' = [s \in Sems |-> val[s] + d[s]]
  /\ adj' = [adj EXCEPT ![p] = [s \in Sems |-> @[s] - d[s]]]
  /\ UNCHANGED <<set, made>>
Delta(a, b, c) == [s \in Sems |-> <<a, b, c>>[s + 1]]

(* SETVAL also clears every process's adjustment of that semaphore. *)
SetVal(s, v) ==
  /\ val' = [val EXCEPT ![s] = v]
  /\ adj' = [p \in Procs |-> [adj[p] EXCEPT ![s] = 0]]
  /\ UNCHANGED <<set, made>>

(* The end of a process. *)
Undo(p) ==
  /\ val' = IF Exists(p)
            THEN [s \in Sems |-> IF val[s] + adj[p][s] < 0 THEN 0
                                 ELSE val[s] + adj[p][s]]
            ELSE val
  /\ adj' = [adj EXCEPT ![p] = Zero]
  /\ Goto(p, "gone")
  /\ UNCHANGED <<set, made, id, history>>

-----------------------------------------------------------------------------
(* sem_create *)
SemGet(p) ==
  /\ p \in Servers /\ pc[p] \in {"off", "again"}
  /\ IF set # None THEN UNCHANGED kernel
     ELSE /\ made < MaxSets
          /\ made' = made + 1 /\ set' = made'
          /\ val' = Zero /\ UNCHANGED adj
  /\ id' = [id EXCEPT ![p] = set']
  /\ Goto(p, "call") /\ UNCHANGED history

(* Mutant: the lock of creation is not undone. *)
OpLock_NoUndo(p) ==
  /\ pc[p] \in {"call", "asleep"} /\ Exists(p) /\ val[2] = 0
  /\ val' = [val EXCEPT ![2] = 1] /\ UNCHANGED <<set, made, adj>>
  /\ Goto(p, "created") /\ UNCHANGED <<id, history>>

OpLock(p) ==
  /\ pc[p] \in {"call", "asleep"} /\ Exists(p) /\ val[2] = 0
  /\ SemOp(p, Delta(0, 0, 1))
  /\ Goto(p, "created") /\ UNCHANGED <<id, history>>

OpLockSleeps(p) ==
  /\ pc[p] = "call" /\ Exists(p) /\ val[2] # 0
  /\ Goto(p, "asleep") /\ UNCHANGED <<kernel, id, history>>

(* EINVAL: the set was removed before the call. *)
Again(p) ==
  /\ pc[p] = "call" /\ ~Exists(p)
  /\ Goto(p, "again") /\ UNCHANGED <<kernel, id, history>>

(* EIDRM: it was removed during the call.  This and the calls that follow  *)
(* are only reported, and the id of the removed set is returned.           *)
Orphaned(p) ==
  /\ pc[p] = "asleep" /\ ~Exists(p)
  /\ orphaned' = orphaned \cup {p}
  /\ Goto(p, "up") /\ UNCHANGED <<kernel, id, stray>>

GetVal(p) ==
  /\ pc[p] = "created"
  /\ Goto(p, IF val[1] = 0 THEN "setLock" ELSE "endCreate")
  /\ UNCHANGED <<kernel, id, history>>

(* Mutant: the counter is set before the lock. *)
SetLock_Late(p) ==
  /\ pc[p] = "setLock"
  /\ SetVal(1, BIGCOUNT)
  /\ Goto(p, "setCount") /\ UNCHANGED <<id, history>>

SetLock(p) ==
  /\ pc[p] = "setLock"
  /\ SetVal(0, 1)
  /\ Goto(p, "setCount") /\ UNCHANGED <<id, history>>

SetCount(p) ==
  /\ pc[p] = "setCount"
  /\ SetVal(1, BIGCOUNT)
  /\ Goto(p, "endCreate") /\ UNCHANGED <<id, history>>

EndCreate(p) ==
  /\ pc[p] = "endCreate" /\ val[1] > 0
  /\ SemOp(p, Delta(0, -1, -1))
  /\ Goto(p, "up") /\ UNCHANGED <<id, history>>

SemCreate(p) ==
  SemGet(p) \/ OpLock(p) \/ OpLockSleeps(p) \/ Again(p) \/ Orphaned(p)
  \/ GetVal(p) \/ SetLock(p) \/ SetCount(p) \/ EndCreate(p)

-----------------------------------------------------------------------------
(* Use: fork, which hands on the id and no adjustment, sem_wait and        *)
(* sem_signal, which on a removed set only print.                          *)
Fork(p, c) ==
  /\ p \in Servers /\ pc[p] = "up" /\ c \in Sessions /\ pc[c] = "off"
  /\ Goto(c, "up") /\ id' = [id EXCEPT ![c] = id[p]]
  /\ UNCHANGED <<kernel, history>>

SemWait(p) ==
  /\ pc[p] = "up"
  /\ IF Exists(p) THEN val[0] > 0 /\ SemOp(p, Delta(-1, 0, 0))
     ELSE UNCHANGED kernel
  /\ Goto(p, "in") /\ UNCHANGED <<id, history>>

SemSignal(p) ==
  /\ pc[p] = "in"
  /\ IF Exists(p) THEN SemOp(p, Delta(1, 0, 0)) ELSE UNCHANGED kernel
  /\ Goto(p, "up") /\ UNCHANGED <<id, history>>

-----------------------------------------------------------------------------
(* sem_close, from the handler of SIGINT, which a session runs too. *)
ServerExit(p) ==
  /\ pc[p] \in {"up", "in"}
  /\ Goto(p, "close")
  /\ stray' = (stray \/ p \in Sessions)
  /\ UNCHANGED <<kernel, id, orphaned>>

(* Mutant: the wait for [2] to equal 0 is forgotten. *)
OpClose_NoWait(p) ==
  /\ pc[p] = "close" /\ Exists(p)
  /\ SemOp(p, Delta(0, 1, 1))
  /\ Goto(p, "closed") /\ UNCHANGED <<id, history>>

OpClose(p) ==
  /\ pc[p] = "close" /\ Exists(p) /\ val[2] = 0
  /\ SemOp(p, Delta(0, 1, 1))
  /\ Goto(p, "closed") /\ UNCHANGED <<id, history>>

(* Every call on a removed set fails. *)
CloseFails(p) == pc[p] = "close" /\ ~Exists(p) /\ Undo(p)

(* Mutant: the last but one removes the set. *)
LastReference_Early(p) ==
  /\ pc[p] = "closed"
  /\ Goto(p, IF val[1] > BIGCOUNT THEN "exit"
             ELSE IF val[1] >= BIGCOUNT - 1 THEN "remove" ELSE "unlock")
  /\ UNCHANGED <<kernel, id, history>>

(* With a count above BIGCOUNT the lock is left to SEM_UNDO. *)
LastReference(p) ==
  /\ pc[p] = "closed"
  /\ Goto(p, IF val[1] > BIGCOUNT THEN "exit"
             ELSE IF val[1] = BIGCOUNT THEN "remove" ELSE "unlock")
  /\ UNCHANGED <<kernel, id, history>>

SemRm(p) ==
  /\ pc[p] = "remove"
  /\ set' = None /\ val' = Zero /\ adj' = [q \in Procs |-> Zero]
  /\ Goto(p, "exit") /\ UNCHANGED <<made, id, history>>

OpUnlock(p) ==
  /\ pc[p] = "unlock"
  /\ SemOp(p, Delta(0, 0, -1))
  /\ Goto(p, "exit") /\ UNCHANGED <<id, history>>

Exit(p) == pc[p] = "exit" /\ Undo(p)

SemClose(p) ==
  OpClose(p) \/ CloseFails(p) \/ LastReference(p) \/ SemRm(p) \/ OpUnlock(p)
  \/ Exit(p)

Crash(p) == pc[p] \notin {"off", "gone"} /\ Undo(p)

Next ==
  \E p \in Procs :
    \/ SemCreate(p) \/ SemWait(p) \/ SemSignal(p)
    \/ \E c \in Sessions : Fork(p, c)
    \/ ServerExit(p) \/ SemClose(p) \/ Crash(p)

Spec == Init /\ [][Next]_vars

(* A process that has begun to create or to close goes on; a critical      *)
(* section ends.  Nothing has to start, to stop or to crash.               *)
Going(p) ==
  \/ pc[p] # "off" /\ SemCreate(p)
  \/ SemSignal(p) \/ SemClose(p)
FairSpec == Spec /\ \A p \in Procs : WF_vars(Going(p))

-----------------------------------------------------------------------------
(* PROPERTIES *)

(* Types; [2] is a binary lock, in sem_create and in sem_close. *)
TypeOK ==
  /\ made \in 0..MaxSets /\ set \in {None, made}
  /\ val \in [Sems -> Nat] /\ val[2] <= 1
  /\ adj \in [Procs -> [Sems -> Int]]
  /\ pc \in [Procs -> {"off", "again", "call", "asleep", "created", "setLock",
                       "setCount", "endCreate", "up", "in", "close",
                       "closed", "remove", "unlock", "exit", "gone"}]
  /\ id \in [Procs -> 0..MaxSets]
  /\ orphaned \subseteq Servers /\ stray \in BOOLEAN

At(L) == {p \in Procs : Exists(p) /\ pc[p] \in L}

Closing == {"close", "closed", "remove", "unlock", "exit"}

(* However processes crash between two calls of sem_create or sem_close,   *)
(* a set whose counter is set has been initialised, once: its lock is      *)
(* taken by at most one and, unless a process stopped inside is on its way *)
(* out, only by one; and the counter tells the servers that use the set    *)
(* (and, with the other sign, the sessions that are closing it).           *)
ValuesAreRight ==
  val[1] # 0 =>
    /\ val[0] + Cardinality(At({"in"})) <= 1
    /\ At({"in"} \cup Closing) = {} => val[0] = 1
    /\ val[1] = BIGCOUNT
         - Cardinality(Servers \cap At({"up", "in", "close"}))
         + Cardinality(Sessions \cap At(Closing \ {"close"}))

(* "if this is the last reference to the semaphore, remove this": as long  *)
(* as no session runs its server's handler, a server keeps its set until   *)
(* it closes it itself, unless it slept in sem_create at the removal.      *)
KeepsItsSet ==
  \A p \in Servers :
    pc[p] \in {"up", "in"} => Exists(p) \/ p \in orphaned \/ stray

(* sem_create and sem_close return, whoever crashes inside them. *)
Returns ==
  \A p \in Procs :
    pc[p] \in {"call", "asleep", "created", "close"} ~> pc[p] \in {"up", "in", "gone"}
=============================================================================
