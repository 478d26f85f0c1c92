---------------------------- MODULE SemSetProofs ----------------------------
(***************************************************************************)
(* TLAPS proofs about SemSet, for every number of servers, sessions and    *)
(* sets: [2] is a binary lock, the values of an initialised set are right, *)
(* and a server keeps its set, although any process may crash between two  *)
(* calls of sem_create or sem_close (semaphore.h).                         *)
(***************************************************************************)
EXTENDS SemSet, FiniteSetTheorems, TLAPS

-----------------------------------------------------------------------------
(* The inductive invariant, first the lock of creating and closing. *)

Creating == {"created", "setLock", "setCount", "endCreate"}
Begun    == Creating \cup {"again", "call", "asleep"}
Removing == {"closed", "remove", "unlock"}
Inside(p) == pc[p] \in Creating \cup Removing

(* Numbers of sets only grow, so that a set that is gone stays gone; and a *)
(* process owes the kernel nothing for it.                                 *)
Owner(p) ==
  /\ id[p] <= made
  /\ ~Exists(p) => adj[p] = Zero
  /\ pc[p] \in Begun => p \in Servers
  /\ pc[p] = "off" => id[p] = None

(* [2]: at most one process has it to give back, the one inside sem_create *)
(* or sem_close; and while there is one nobody else comes in.              *)
Holds(p) == adj[p][2] # 0
Binary ==
  /\ \A p \in Procs : /\ adj[p][2] \in {0, -1}
                      /\ Inside(p) => Exists(p) /\ Holds(p)
                      /\ Holds(p) => val[2] = 1 /\ (Inside(p) \/ pc[p] = "exit")
  /\ \A p, q \in Procs : Holds(p) /\ Holds(q) => p = q

LockInv == TypeOK /\ (\A p \in Procs : Owner(p)) /\ Binary

-----------------------------------------------------------------------------
(* The lock and the counter. *)

(* A process gives back what it took: [0] while it is in the critical      *)
(* section or was when the signal came, [1] as long as a server counts, or *)
(* when a session, which never counted, has closed the set.                *)
Owes(p) ==
  /\ adj[p][0] \in {0, 1}
  /\ adj[p][0] = 1 => pc[p] \in {"in"} \cup Closing
  /\ Exists(p) /\ pc[p] = "in" => adj[p][0] = 1
  /\ Exists(p) =>
       adj[p][1] = IF p \in Servers
                   THEN IF pc[p] \in {"up", "in", "close"} THEN 1 ELSE 0
                   ELSE IF pc[p] \in Closing \ {"close"} THEN -1 ELSE 0
  /\ p \in Sessions /\ pc[p] \in Closing => stray

Users   == {p \in Procs : adj[p][1] = 1}
Closers == {p \in Procs : adj[p][1] = -1}

(* A set is not yet initialised and nobody uses it, even if one creator    *)
(* after the other crashes; or it is, and was only once.                   *)
Blank ==
  /\ val[1] = 0
  /\ \A p \in Procs :
       /\ adj[p][0] = 0 /\ adj[p][1] = 0
       /\ Exists(p) => pc[p] \notin {"endCreate", "up", "in"} \cup Closing
       /\ pc[p] = "setCount" => val[0] = 1

Live ==
  /\ val[1] = BIGCOUNT - Cardinality(Users) + Cardinality(Closers)
  /\ val[0] \in {0, 1}
  /\ \A p \in Procs : adj[p][0] = 1 => val[0] = 0
  /\ (\A p \in Procs : adj[p][0] = 0) => val[0] = 1
  /\ \A p, q \in Procs : adj[p][0] = 1 /\ adj[q][0] = 1 => p = q
  /\ \A p \in Procs : pc[p] \notin {"setLock", "setCount"}

(* The server that is about to remove the set has seen that no other       *)
(* counts, and [2] keeps the others from beginning to.                     *)
LastOne == \A p, q \in Procs : pc[p] = "remove" /\ ~stray => adj[q][1] # 1

ValueInv ==
  /\ \A p \in Procs : Owes(p)
  /\ IF set = None THEN val[1] = 0 ELSE Blank \/ Live
  /\ LastOne

IInv == LockInv /\ ValueInv /\ KeepsItsSet

-----------------------------------------------------------------------------
(* The calls: what each leaves of the tables. *)

PCs == {"off", "again", "call", "asleep", "created", "setLock", "setCount", "endCreate",
        "up", "in", "close", "closed", "remove", "unlock", "exit", "gone"}

LEMMA ZeroShape ==
  /\ Sems = {0, 1, 2} /\ Zero \in [Sems -> Nat] /\ Zero \in [Sems -> Int]
  /\ Zero[0] = 0 /\ Zero[1] = 0 /\ Zero[2] = 0
BY DEF Sems, Zero

LEMMA GotoFacts ==
  ASSUME TypeOK, NEW p \in Procs, NEW l \in PCs, Goto(p, l)
  PROVE  /\ pc' \in [Procs -> PCs] /\ pc'[p] = l
         /\ \A q \in Procs : q # p => pc'[q] = pc[q]
BY DEF TypeOK, Goto, PCs

LEMMA SemOpFacts ==
  ASSUME TypeOK, NEW p \in Procs, NEW a \in Int, NEW b \in Int, NEW c \in Int,
         SemOp(p, Delta(a, b, c))
  PROVE  /\ set' = set /\ made' = made
         /\ val' \in [Sems -> Int] /\ adj' \in [Procs -> [Sems -> Int]]
         /\ val'[0] = val[0] + a /\ val'[1] = val[1] + b /\ val'[2] = val[2] + c
         /\ adj'[p][0] = adj[p][0] - a /\ adj'[p][1] = adj[p][1] - b
         /\ adj'[p][2] = adj[p][2] - c
         /\ \A q \in Procs : q # p => adj'[q] = adj[q]
<1> DEFINE d == Delta(a, b, c)
<1>1. d \in [Sems -> Int] /\ d[0] = a /\ d[1] = b /\ d[2] = c
  BY DEF Delta, Sems
<1>2. /\ val' = [s \in Sems |-> val[s] + d[s]]
      /\ adj' = [adj EXCEPT ![p] = [s \in Sems |-> adj[p][s] - d[s]]]
      /\ set' = set /\ made' = made
  BY DEF SemOp
<1> HIDE DEF d
<1>3. val \in [Sems -> Nat] /\ adj \in [Procs -> [Sems -> Int]] /\ adj[p] \in [Sems -> Int]
  BY DEF TypeOK
<1>4. val' \in [Sems -> Int]
  BY <1>1, <1>2, <1>3
<1>5. val'[0] = val[0] + a /\ val'[1] = val[1] + b /\ val'[2] = val[2] + c
  BY <1>1, <1>2, ZeroShape
<1> DEFINE r == [s \in Sems |-> adj[p][s] - d[s]]
<1>6. r \in [Sems -> Int] /\ r[0] = adj[p][0] - a /\ r[1] = adj[p][1] - b /\ r[2] = adj[p][2] - c
  BY <1>1, <1>3, ZeroShape
<1>7. adj' = [adj EXCEPT ![p] = r]
  BY <1>2
<1> HIDE DEF r
<1>8. adj' \in [Procs -> [Sems -> Int]] /\ adj'[p] = r
      /\ \A q \in Procs : q # p => adj'[q] = adj[q]
  BY <1>3, <1>6, <1>7
<1>q. QED
  BY <1>2, <1>4, <1>5, <1>6, <1>8

LEMMA SetValFacts ==
  ASSUME TypeOK, NEW s \in Sems, NEW v \in Nat, SetVal(s, v)
  PROVE  /\ set' = set /\ made' = made
         /\ val' \in [Sems -> Nat] /\ adj' \in [Procs -> [Sems -> Int]]
         /\ val'[s] = v /\ \A t \in Sems : t # s => val'[t] = val[t]
         /\ \A q \in Procs : adj'[q][s] = 0 /\ \A t \in Sems : t # s => adj'[q][t] = adj[q][t]
         /\ \A q \in Procs : adj[q] = Zero => adj'[q] = Zero
<1>1. val \in [Sems -> Nat] /\ \A q \in Procs : adj[q] \in [Sems -> Int]
  BY DEF TypeOK
<1>2. val' = [val EXCEPT ![s] = v] /\ adj' = [q \in Procs |-> [adj[q] EXCEPT ![s] = 0]]
      /\ set' = set /\ made' = made
  BY DEF SetVal
<1>3. \A q \in Procs : adj'[q] = [adj[q] EXCEPT ![s] = 0]
  BY <1>2
<1>4. \A q \in Procs : [adj[q] EXCEPT ![s] = 0] \in [Sems -> Int]
  BY <1>1
<1>5. adj' \in [Procs -> [Sems -> Int]]
  BY <1>2, <1>4
<1>6. \A q \in Procs : adj'[q][s] = 0 /\ \A t \in Sems : t # s => adj'[q][t] = adj[q][t]
  BY <1>1, <1>3
<1>7. \A q \in Procs : adj[q] = Zero => adj'[q] = Zero
  BY <1>1, <1>3 DEF Zero
<1>q. QED
  BY <1>1, <1>2, <1>5, <1>6, <1>7

LEMMA UndoFacts ==
  ASSUME TypeOK, NEW p \in Procs, Undo(p)
  PROVE  /\ UNCHANGED <<set, made, id, orphaned, stray>>
         /\ val' \in [Sems -> Nat] /\ adj' \in [Procs -> [Sems -> Int]]
         /\ ~Exists(p) => val' = val
         /\ Exists(p) => \A s \in Sems : val'[s] = IF val[s] + adj[p][s] < 0 THEN 0
                                                  ELSE val[s] + adj[p][s]
         /\ adj'[p] = Zero /\ pc' \in [Procs -> PCs] /\ pc'[p] = "gone"
         /\ \A q \in Procs : q # p => adj'[q] = adj[q] /\ pc'[q] = pc[q]
<1>1. val \in [Sems -> Nat] /\ adj \in [Procs -> [Sems -> Int]] /\ adj[p] \in [Sems -> Int]
  BY DEF TypeOK
<1>2. UNCHANGED <<set, made, id, orphaned, stray>> /\ Goto(p, "gone")
      /\ adj' = [adj EXCEPT ![p] = Zero]
  BY DEF Undo, history
<1>3. /\ val' \in [Sems -> Nat] /\ (~Exists(p) => val' = val)
      /\ Exists(p) => \A s \in Sems : val'[s] = IF val[s] + adj[p][s] < 0 THEN 0
                                               ELSE val[s] + adj[p][s]
  <2>1. CASE Exists(p)
    <3>1. val' = [s \in Sems |-> IF val[s] + adj[p][s] < 0 THEN 0 ELSE val[s] + adj[p][s]]
      BY <2>1 DEF Undo
    <3>2. \A s \in Sems : val[s] \in Nat /\ adj[p][s] \in Int
      BY <1>1
    <3>q. QED
      BY <2>1, <3>1, <3>2
  <2>2. CASE ~Exists(p)
    BY <1>1, <2>2 DEF Undo
  <2>q. QED
    BY <2>1, <2>2
<1>4. adj' \in [Procs -> [Sems -> Int]] /\ adj'[p] = Zero
      /\ \A q \in Procs : q # p => adj'[q] = adj[q]
  BY <1>1, <1>2, ZeroShape
<1>q. QED
  BY <1>2, <1>3, <1>4, GotoFacts DEF PCs

-----------------------------------------------------------------------------
(* The lock [2]. *)

LEMMA InitLock == Init => LockInv
<1> SUFFICES ASSUME Init PROVE LockInv
  OBVIOUS
<1>1. TypeOK
  <2>1. adj \in [Procs -> [Sems -> Int]] /\ val \in [Sems -> Nat] /\ val[2] <= 1
    BY ZeroShape DEF Init
  <2>2. id \in [Procs -> 0..MaxSets] /\ made \in 0..MaxSets /\ set \in {None, made}
    BY SemAssumption DEF Init, None
  <2>3. orphaned \subseteq Servers /\ stray \in BOOLEAN
    BY DEF Init
  <2>q. QED
    BY <2>1, <2>2, <2>3 DEF Init, TypeOK
<1>2. \A p \in Procs : Owner(p)
  BY DEF Init, Owner, None, Creating, Begun
<1>3. Binary
  BY ZeroShape DEF Init, Binary, Holds, Inside, Creating, Removing
<1>q. QED
  BY <1>1, <1>2, <1>3 DEF LockInv

(* A step of one process on the set there is: what it must make true of    *)
(* itself, and how the lock may change.                                    *)
LEMMA LockStep ==
  ASSUME LockInv, TypeOK', NEW p \in Procs, UNCHANGED <<set, made, id>>,
         \A q \in Procs : q # p => pc'[q] = pc[q] /\ adj'[q][2] = adj[q][2],
         \A q \in Procs : q # p /\ adj[q] = Zero => adj'[q] = Zero,
         ~Exists(p) => adj'[p] = Zero, pc'[p] # "off",
         pc'[p] \in Begun => p \in Servers,
         adj'[p][2] \in {0, -1},
         Inside(p)' => Exists(p) /\ adj'[p][2] # 0,
         adj'[p][2] # 0 => val'[2] = 1 /\ (Inside(p)' \/ pc'[p] = "exit"),
         \/ adj'[p][2] = adj[p][2] /\ val'[2] = val[2]
         \/ val[2] = 0
         \/ adj[p][2] # 0 /\ adj'[p][2] = 0
  PROVE  LockInv'
<1>1. \A q \in Procs : Exists(q)' <=> Exists(q)
  BY DEF Exists
<1>2. \A q \in Procs : q # p => (Inside(q)' <=> Inside(q))
  BY DEF Inside
<1>3. \A q \in Procs : Owner(q)'
  BY <1>1 DEF LockInv, Owner, Begun
<1>4. Binary /\ \A q \in Procs : Holds(q) <=> adj[q][2] # 0
  BY DEF LockInv, Holds
<1>5. \A q \in Procs : Holds(q)' <=> adj'[q][2] # 0
  BY DEF Holds
<1>6. \A q \in Procs : q # p /\ Holds(q)' => val'[2] = 1 /\ adj'[p][2] = 0
  BY <1>4, <1>5 DEF Binary
<1>7. Binary'
  BY <1>1, <1>2, <1>4, <1>5, <1>6 DEF Binary
<1>q. QED
  BY <1>3, <1>7 DEF LockInv

(* A step that leaves the kernel alone. *)
LEMMA QuietLock ==
  ASSUME LockInv, NEW p \in Procs, NEW l \in PCs, Goto(p, l), UNCHANGED <<kernel, id>>,
         orphaned' \subseteq Servers, stray' \in BOOLEAN,
         l \in Begun => p \in Servers,
         l \in Creating \cup Removing => Inside(p),
         Inside(p) => l \in Creating \cup Removing \cup {"exit"},
         pc[p] # "exit", l # "off"
  PROVE  LockInv'
<1>1. /\ pc' \in [Procs -> PCs] /\ pc'[p] = l
      /\ \A q \in Procs : q # p => pc'[q] = pc[q]
  BY GotoFacts DEF LockInv
<1>2. UNCHANGED <<set, made, val, adj, id>>
  BY DEF kernel
<1>3. TypeOK'
  BY <1>1, <1>2 DEF LockInv, TypeOK, PCs
<1>4. Owner(p) /\ Binary
  BY DEF LockInv
<1>q. QED
  BY <1>1, <1>2, <1>3, <1>4, LockStep DEF Owner, Binary, Inside, Holds

LEMMA UndoLock == ASSUME LockInv, NEW p \in Procs, Undo(p) PROVE LockInv'
<1>1. TypeOK /\ Owner(p) /\ Binary
  BY DEF LockInv
<1>2. /\ UNCHANGED <<set, made, id, orphaned, stray>>
      /\ val' \in [Sems -> Nat] /\ adj' \in [Procs -> [Sems -> Int]]
      /\ ~Exists(p) => val' = val
      /\ Exists(p) => val'[2] = IF val[2] + adj[p][2] < 0 THEN 0 ELSE val[2] + adj[p][2]
      /\ adj'[p] = Zero /\ pc' \in [Procs -> PCs] /\ pc'[p] = "gone"
      /\ \A q \in Procs : q # p => adj'[q] = adj[q] /\ pc'[q] = pc[q]
  BY <1>1, UndoFacts, ZeroShape
<1>3. val[2] \in Nat /\ val[2] <= 1 /\ val'[2] \in Nat
  BY <1>1, <1>2, ZeroShape DEF TypeOK
<1>4. val'[2] <= 1 /\ (adj[p][2] = 0 => val'[2] = val[2])
  BY <1>1, <1>2, <1>3 DEF Binary
<1>5. TypeOK'
  BY <1>1, <1>2, <1>4 DEF TypeOK, PCs
<1>6. adj'[p][2] = 0
  BY <1>2, ZeroShape
<1>q. QED
  BY <1>1, <1>2, <1>4, <1>5, <1>6, LockStep DEF Inside, Creating, Removing, Begun

LEMMA SemGetLock == ASSUME LockInv, NEW p \in Procs, SemGet(p) PROVE LockInv'
<1>1. TypeOK /\ Binary /\ \A q \in Procs : Owner(q)
  BY DEF LockInv
<1>2. /\ pc' \in [Procs -> PCs] /\ pc'[p] = "call"
      /\ \A q \in Procs : q # p => pc'[q] = pc[q]
  BY <1>1, GotoFacts DEF SemGet, PCs
<1>3. adj' = adj /\ made \in Nat /\ made' >= made /\ made' \in 0..MaxSets /\ set' = made'
  <2>1. made \in 0..MaxSets /\ set \in {0, made} /\ MaxSets \in Nat
    BY <1>1, SemAssumption DEF TypeOK, None
  <2>2. CASE set # None
    BY <2>1, <2>2 DEF SemGet, kernel, None
  <2>3. CASE set = None
    <3>1. adj' = adj /\ made < MaxSets /\ made' = made + 1 /\ set' = made'
      BY <2>3 DEF SemGet
    <3>q. QED
      BY <2>1, <3>1
  <2>q. QED
    BY <2>2, <2>3
<1>4. id' \in [Procs -> 0..MaxSets] /\ id'[p] = set'
      /\ \A q \in Procs : q # p => id'[q] = id[q]
  BY <1>1, <1>3 DEF SemGet, TypeOK
<1>5. val' \in [Sems -> Nat] /\ val'[2] <= 1
  <2>1. val' = val \/ val' = Zero
    BY DEF SemGet, kernel
  <2>2. val \in [Sems -> Nat] /\ val[2] <= 1
    BY <1>1 DEF TypeOK
  <2>3. Zero \in [Sems -> Nat] /\ Zero[2] <= 1
    BY ZeroShape
  <2>q. QED
    BY <2>1, <2>2, <2>3
<1>6. TypeOK'
  BY <1>1, <1>2, <1>3, <1>4, <1>5 DEF SemGet, TypeOK, history, PCs
<1>7. \A q \in Procs : Exists(q) => Exists(q)'
  BY <1>2, <1>4 DEF SemGet, Exists, kernel
<1>8. pc[p] \in {"off", "again"} /\ ~Inside(p) /\ ~Holds(p)
  BY <1>1 DEF SemGet, Binary, Inside, Creating, Removing
<1>9. \A q \in Procs : Owner(q)'
  <2>1. \A q \in Procs : id[q] \in Nat /\ id'[q] \in Nat /\ made \in Nat /\ made' \in Nat
    <3>1. id \in [Procs -> 0..MaxSets] /\ made \in 0..MaxSets /\ MaxSets \in Nat
      BY <1>1, SemAssumption DEF TypeOK
    <3>q. QED
      BY <1>3, <1>4, <3>1
  <2>2. Exists(p)'
    BY <1>1, <1>4, <2>1 DEF SemGet, Exists, kernel, None
  <2>3. Owner(p)'
    BY <1>2, <1>3, <1>4, <2>1, <2>2 DEF SemGet, Owner, Begun
  <2>4. ASSUME NEW q \in Procs, q # p PROVE Owner(q)'
    <3>1. id'[q] <= made'
      BY <1>1, <1>3, <1>4, <2>1, <2>4 DEF Owner, Begun
    <3>2. adj'[q] = adj[q] /\ pc'[q] = pc[q] /\ id'[q] = id[q]
      BY <1>2, <1>3, <1>4, <2>4
    <3>q. QED
      BY <1>1, <1>7, <3>1, <3>2 DEF Owner, Begun
  <2>q. QED
    BY <2>3, <2>4
<1>10. CASE set # None
  <2>1. val' = val
    BY <1>10 DEF SemGet, kernel
  <2>2. Binary'
    BY <1>1, <1>2, <1>3, <1>7, <1>8, <2>1 DEF Binary, Holds, Inside, Creating, Removing
  <2>q. QED
    BY <1>6, <1>9, <2>2 DEF LockInv
<1>11. CASE set = None
  <2>1. \A q \in Procs : ~Exists(q)
    BY <1>11 DEF Exists
  <2>2. \A q \in Procs : adj'[q][2] = 0 /\ ~Inside(q)
    BY <1>1, <1>3, <2>1, ZeroShape DEF Owner, Binary, Begun
  <2>3. Binary'
    BY <1>2, <2>2 DEF Binary, Holds, Inside, Creating, Removing
  <2>q. QED
    BY <1>6, <1>9, <2>3 DEF LockInv
<1>q. QED
  BY <1>10, <1>11

(* A semop call of one process, with the deltas a, b, c. *)
LEMMA SemOpLock ==
  ASSUME LockInv, NEW p \in Procs, NEW l \in PCs,
         NEW a \in Int, NEW b \in Int, NEW c \in Int,
         SemOp(p, Delta(a, b, c)), Goto(p, l), UNCHANGED <<id, history>>,
         Exists(p), val[0] + a >= 0, val[1] + b >= 0, l # "off",
         l \in Begun => p \in Servers,
         \/ c = 0 /\ ~Inside(p) /\ l \notin Creating \cup Removing /\ pc[p] # "exit"
         \/ c = 1 /\ val[2] = 0 /\ l \in Creating \cup Removing
         \/ c = -1 /\ Inside(p) /\ l \notin Creating \cup Removing
  PROVE  LockInv'
<1>1. TypeOK /\ Binary /\ Owner(p)
  BY DEF LockInv
<1>2. /\ pc' \in [Procs -> PCs] /\ pc'[p] = l
      /\ \A q \in Procs : q # p => pc'[q] = pc[q]
  BY <1>1, GotoFacts
<1>3. /\ set' = set /\ made' = made
      /\ val' \in [Sems -> Int] /\ adj' \in [Procs -> [Sems -> Int]]
      /\ val'[0] = val[0] + a /\ val'[1] = val[1] + b /\ val'[2] = val[2] + c
      /\ adj'[p][2] = adj[p][2] - c
      /\ \A q \in Procs : q # p => adj'[q] = adj[q]
  BY <1>1, SemOpFacts
<1>4. val[2] \in {0, 1} /\ adj[p][2] \in {0, -1} /\ (adj[p][2] # 0 => val[2] = 1)
  <2>1. val[2] \in Nat /\ val[2] <= 1
    BY <1>1, ZeroShape DEF TypeOK
  <2>q. QED
    BY <1>1, <2>1 DEF Binary, Holds
<1>5. /\ Inside(p) => adj[p][2] = -1 /\ val[2] = 1
      /\ adj[p][2] # 0 => Inside(p) \/ pc[p] = "exit"
  BY <1>1 DEF Binary, Holds
<1>6. val'[2] \in {0, 1} /\ adj'[p][2] \in {0, -1} /\ (adj'[p][2] # 0 => val'[2] = 1)
  BY <1>3, <1>4, <1>5
<1>7. \A s \in Sems : val'[s] >= 0
  BY <1>3, <1>6, ZeroShape
<1>8. val' \in [Sems -> Nat] /\ val'[2] <= 1
  BY <1>3, <1>6, <1>7
<1>9. TypeOK'
  BY <1>1, <1>2, <1>3, <1>8 DEF TypeOK, PCs, history
<1>10. Inside(p)' <=> l \in Creating \cup Removing
  BY <1>2 DEF Inside
<1>11. \/ adj'[p][2] = adj[p][2] /\ val'[2] = val[2]
       \/ val[2] = 0
       \/ adj[p][2] # 0 /\ adj'[p][2] = 0
  BY <1>3, <1>4, <1>5
<1>12. Inside(p)' => adj'[p][2] # 0
  BY <1>3, <1>4, <1>10
<1>13. adj'[p][2] # 0 => Inside(p)'
  BY <1>3, <1>4, <1>5, <1>10
<1>q. QED
  BY <1>2, <1>3, <1>6, <1>9, <1>11, <1>12, <1>13, LockStep

LEMMA SetValLock ==
  ASSUME LockInv, NEW p \in Procs, NEW l \in PCs, NEW s \in {0, 1}, NEW v \in Nat,
         SetVal(s, v), Goto(p, l), UNCHANGED <<id, history>>,
         Inside(p), p \in Servers, l \in Creating
  PROVE  LockInv'
<1>1. TypeOK /\ Binary /\ Owner(p)
  BY DEF LockInv
<1>2. /\ pc' \in [Procs -> PCs] /\ pc'[p] = l
      /\ \A q \in Procs : q # p => pc'[q] = pc[q]
  BY <1>1, GotoFacts
<1>3. /\ set' = set /\ made' = made
      /\ val' \in [Sems -> Nat] /\ adj' \in [Procs -> [Sems -> Int]]
      /\ val'[2] = val[2] /\ \A q \in Procs : adj'[q][2] = adj[q][2]
      /\ \A q \in Procs : adj[q] = Zero => adj'[q] = Zero
  <2>1. s \in Sems /\ 2 \in Sems /\ 2 # s
    BY ZeroShape
  <2>q. QED
    BY <1>1, <2>1, SetValFacts
<1>4. TypeOK'
  BY <1>1, <1>2, <1>3 DEF TypeOK, PCs, history
<1>5. Exists(p) /\ adj[p][2] = -1 /\ val[2] = 1
  BY <1>1 DEF Binary, Holds
<1>6. Inside(p)' /\ l # "off"
  BY <1>2 DEF Inside, Creating
<1>q. QED
  BY <1>2, <1>3, <1>4, <1>5, <1>6, LockStep

LEMMA SemRmLock == ASSUME LockInv, NEW p \in Procs, SemRm(p) PROVE LockInv'
<1>1. TypeOK /\ Binary /\ \A q \in Procs : Owner(q)
  BY DEF LockInv
<1>2. /\ pc' \in [Procs -> PCs] /\ pc'[p] = "exit"
      /\ \A q \in Procs : q # p => pc'[q] = pc[q]
  BY <1>1, GotoFacts DEF SemRm, PCs
<1>3. /\ set' = None /\ val' = Zero /\ \A q \in Procs : adj'[q] = Zero
      /\ adj' = [q \in Procs |-> Zero] /\ UNCHANGED <<made, id, history>>
  BY DEF SemRm
<1>4. TypeOK'
  <2>1. val' \in [Sems -> Nat] /\ val'[2] <= 1 /\ adj' \in [Procs -> [Sems -> Int]]
    BY <1>3, ZeroShape
  <2>q. QED
    BY <1>1, <1>2, <1>3, <2>1 DEF TypeOK, PCs, history
<1>5. \A q \in Procs : q # p => ~Inside(q)
  BY <1>1 DEF SemRm, Binary, Inside, Removing
<1>6. \A q \in Procs : adj'[q][2] = 0 /\ ~Inside(q)'
  BY <1>2, <1>3, <1>5, ZeroShape DEF Inside, Creating, Removing
<1>7. Binary'
  BY <1>6 DEF Binary, Holds
<1>8. \A q \in Procs : Owner(q)'
  BY <1>1, <1>2, <1>3 DEF Owner, Creating, Begun
<1>q. QED
  BY <1>4, <1>7, <1>8 DEF LockInv

LEMMA ForkLock ==
  ASSUME LockInv, NEW p \in Procs, NEW c \in Sessions, Fork(p, c) PROVE LockInv'
<1>1. TypeOK /\ Binary /\ (\A q \in Procs : Owner(q)) /\ c \in Procs
  BY DEF LockInv, Procs
<1>2. /\ pc' \in [Procs -> PCs] /\ pc'[c] = "up"
      /\ \A q \in Procs : q # c => pc'[q] = pc[q]
  BY <1>1, GotoFacts DEF Fork, PCs
<1>3. UNCHANGED <<set, made, val, adj, orphaned, stray>>
  BY DEF Fork, kernel, history
<1>4. id' = [id EXCEPT ![c] = id[p]]
  BY DEF Fork
<1>5. id' \in [Procs -> 0..MaxSets] /\ id'[c] = id[p]
      /\ \A q \in Procs : q # c => id'[q] = id[q]
  BY <1>1, <1>4 DEF TypeOK
<1>6. TypeOK'
  BY <1>1, <1>2, <1>3, <1>5 DEF TypeOK, PCs
<1>7. ~Inside(c) /\ ~Inside(c)' /\ pc[c] # "exit"
  BY <1>2 DEF Fork, Inside, Creating, Removing
<1>8. ~Holds(c)
  BY <1>1, <1>7 DEF Binary
<1>9. Binary'
  BY <1>1, <1>2, <1>3, <1>5, <1>7, <1>8 DEF Binary, Holds, Inside, Exists
<1>10. adj[c] = Zero
  <2>1. pc[c] = "off" /\ id[c] = None
    BY <1>1 DEF Fork, Owner, Begun
  <2>q. QED
    BY <1>1, <2>1 DEF Owner, Exists, Begun
<1>q. QED
  BY <1>1, <1>2, <1>3, <1>5, <1>6, <1>9, <1>10 DEF LockInv, Owner, Exists, Creating, Begun

(* Every step keeps the lock, and with it the types. *)
LEMMA CreateLock == ASSUME LockInv, NEW p \in Procs, SemCreate(p) PROVE LockInv'
<1>1. TypeOK /\ Binary /\ Owner(p)
  BY DEF LockInv
<1>2. val[0] \in Nat /\ val[1] \in Nat /\ val[2] \in Nat
  BY <1>1, ZeroShape DEF TypeOK
<1>3. orphaned \subseteq Servers /\ stray \in BOOLEAN
  BY <1>1 DEF TypeOK
<1>4. CASE SemGet(p)
  BY <1>4, SemGetLock
<1>5. CASE OpLock(p)
  <2>1. /\ Exists(p) /\ val[2] = 0 /\ p \in Servers
        /\ SemOp(p, Delta(0, 0, 1)) /\ Goto(p, "created") /\ UNCHANGED <<id, history>>
    BY <1>1, <1>5 DEF OpLock, Owner, Begun
  <2>2. val[0] + 0 >= 0 /\ val[1] + 0 >= 0
    BY <1>2
  <2>3. "created" \in PCs /\ "created" # "off" /\ "created" \in Creating
    BY DEF PCs, Creating
  <2>q. QED
    BY <2>1, <2>2, <2>3, SemOpLock
<1>6. CASE OpLockSleeps(p)
  BY <1>1, <1>3, <1>6, QuietLock
     DEF OpLockSleeps, Owner, Begun, Inside, Creating, Removing, PCs, history
<1>7. CASE Again(p)
  BY <1>1, <1>3, <1>7, QuietLock
     DEF Again, Owner, Begun, Inside, Creating, Removing, PCs, history
<1>8. CASE Orphaned(p)
  <2>1. orphaned' \subseteq Servers /\ stray' \in BOOLEAN
    BY <1>1, <1>3, <1>8 DEF Orphaned, Owner, Begun
  <2>q. QED
    BY <1>1, <1>8, <2>1, QuietLock
       DEF Orphaned, Owner, Begun, Inside, Creating, Removing, PCs
<1>9. CASE GetVal(p)
  <2>1. PICK l \in {"setLock", "endCreate"} : Goto(p, l)
    BY <1>9 DEF GetVal
  <2>q. QED
    BY <1>1, <1>3, <1>9, <2>1, QuietLock
       DEF GetVal, Owner, Begun, Inside, Creating, Removing, PCs, history
<1>10. CASE SetLock(p)
  BY <1>1, <1>10, SetValLock DEF SetLock, Owner, Begun, Inside, Creating, PCs
<1>11. CASE SetCount(p)
  BY <1>1, <1>11, SetValLock DEF SetCount, Owner, Begun, Inside, Creating, PCs, BIGCOUNT
<1>12. CASE EndCreate(p)
  <2>1. /\ Inside(p) /\ val[1] > 0
        /\ SemOp(p, Delta(0, -1, -1)) /\ Goto(p, "up") /\ UNCHANGED <<id, history>>
    BY <1>12 DEF EndCreate, Inside, Creating
  <2>2. Exists(p)
    BY <1>1, <2>1 DEF Binary
  <2>3. val[0] + 0 >= 0 /\ val[1] + (-1) >= 0
    BY <1>2, <2>1
  <2>4. "up" \in PCs /\ "up" # "off" /\ "up" \notin Begun /\ "up" \notin Creating \cup Removing
    BY DEF PCs, Begun, Creating, Removing
  <2>q. QED
    BY <2>1, <2>2, <2>3, <2>4, SemOpLock
<1>q. QED
  BY <1>4, <1>5, <1>6, <1>7, <1>8, <1>9, <1>10, <1>11, <1>12 DEF SemCreate

LEMMA UseLock ==
  ASSUME LockInv, NEW p \in Procs, SemWait(p) \/ SemSignal(p) \/ ServerExit(p)
  PROVE  LockInv'
<1>1. TypeOK
  BY DEF LockInv
<1>2. val[0] \in Nat /\ val[1] \in Nat /\ val[2] \in Nat
  BY <1>1, ZeroShape DEF TypeOK
<1>3. orphaned \subseteq Servers /\ stray \in BOOLEAN
  BY <1>1 DEF TypeOK
<1>4. \A l \in {"up", "in", "close"} :
        l \in PCs /\ l # "off" /\ l # "exit" /\ l \notin Begun /\ l \notin Creating \cup Removing
  BY DEF PCs, Begun, Creating, Removing
<1>5. CASE SemWait(p)
  <2>1. ~Inside(p) /\ pc[p] # "exit" /\ Goto(p, "in") /\ UNCHANGED <<id, history>>
    BY <1>4, <1>5 DEF SemWait, Inside
  <2>2. CASE Exists(p)
    <3>1. val[0] > 0 /\ SemOp(p, Delta(-1, 0, 0))
      BY <1>5, <2>2 DEF SemWait
    <3>2. val[0] + (-1) >= 0 /\ val[1] + 0 >= 0
      BY <1>2, <3>1
    <3>q. QED
      BY <1>4, <2>1, <2>2, <3>1, <3>2, SemOpLock
  <2>3. CASE ~Exists(p)
    BY <1>3, <1>4, <1>5, <2>1, <2>3, QuietLock DEF SemWait, history
  <2>q. QED
    BY <2>2, <2>3
<1>6. CASE SemSignal(p)
  <2>1. ~Inside(p) /\ pc[p] # "exit" /\ Goto(p, "up") /\ UNCHANGED <<id, history>>
    BY <1>4, <1>6 DEF SemSignal, Inside
  <2>2. CASE Exists(p)
    <3>1. SemOp(p, Delta(1, 0, 0))
      BY <1>6, <2>2 DEF SemSignal
    <3>2. val[0] + 1 >= 0 /\ val[1] + 0 >= 0
      BY <1>2
    <3>q. QED
      BY <1>4, <2>1, <2>2, <3>1, <3>2, SemOpLock
  <2>3. CASE ~Exists(p)
    BY <1>3, <1>4, <1>6, <2>1, <2>3, QuietLock DEF SemSignal, history
  <2>q. QED
    BY <2>2, <2>3
<1>7. CASE ServerExit(p)
  <2>1. ~Inside(p) /\ pc[p] # "exit" /\ Goto(p, "close") /\ UNCHANGED <<kernel, id>>
    BY <1>4, <1>7 DEF ServerExit, Inside
  <2>2. orphaned' \subseteq Servers /\ stray' \in BOOLEAN
    BY <1>3, <1>7 DEF ServerExit
  <2>q. QED
    BY <1>4, <2>1, <2>2, QuietLock
<1>q. QED
  BY <1>5, <1>6, <1>7

LEMMA CloseLock == ASSUME LockInv, NEW p \in Procs, SemClose(p) \/ Crash(p) PROVE LockInv'
<1>1. TypeOK /\ Binary
  BY DEF LockInv
<1>2. val[0] \in Nat /\ val[1] \in Nat /\ val[2] \in Nat
  BY <1>1, ZeroShape DEF TypeOK
<1>3. orphaned \subseteq Servers /\ stray \in BOOLEAN
  BY <1>1 DEF TypeOK
<1>4. CASE OpClose(p)
  <2>1. /\ Exists(p) /\ val[2] = 0
        /\ SemOp(p, Delta(0, 1, 1)) /\ Goto(p, "closed") /\ UNCHANGED <<id, history>>
    BY <1>4 DEF OpClose
  <2>2. val[0] + 0 >= 0 /\ val[1] + 1 >= 0
    BY <1>2
  <2>3. "closed" \in PCs /\ "closed" # "off" /\ "closed" \in Removing /\ "closed" \notin Begun
    BY DEF PCs, Begun, Creating, Removing
  <2>q. QED
    BY <2>1, <2>2, <2>3, SemOpLock
<1>5. CASE CloseFails(p) \/ Exit(p) \/ Crash(p)
  BY <1>5, UndoLock DEF CloseFails, Exit, Crash
<1>6. CASE LastReference(p)
  <2>1. PICK l \in {"exit", "remove", "unlock"} : Goto(p, l)
    BY <1>6 DEF LastReference
  <2>q. QED
    BY <1>3, <1>6, <2>1, QuietLock
       DEF LastReference, Begun, Inside, Creating, Removing, PCs, history
<1>7. CASE SemRm(p)
  BY <1>7, SemRmLock
<1>8. CASE OpUnlock(p)
  <2>1. /\ Inside(p)
        /\ SemOp(p, Delta(0, 0, -1)) /\ Goto(p, "exit") /\ UNCHANGED <<id, history>>
    BY <1>8 DEF OpUnlock, Inside, Removing
  <2>2. Exists(p) /\ val[0] + 0 >= 0 /\ val[1] + 0 >= 0
    BY <1>1, <1>2, <2>1 DEF Binary
  <2>3. "exit" \in PCs /\ "exit" # "off" /\ "exit" \notin Begun
        /\ "exit" \notin Creating \cup Removing
    BY DEF PCs, Begun, Creating, Removing
  <2>q. QED
    BY <2>1, <2>2, <2>3, SemOpLock
<1>q. QED
  BY <1>4, <1>5, <1>6, <1>7, <1>8 DEF SemClose

THEOREM LockInvariance == Spec => []LockInv
<1>1. ASSUME LockInv, Next PROVE LockInv'
  BY <1>1, CreateLock, UseLock, CloseLock, ForkLock DEF Next
<1>2. ASSUME LockInv, UNCHANGED vars PROVE LockInv'
  BY <1>2 DEF vars, LockInv, TypeOK, Owner, Binary, Exists, Inside, Holds
<1>q. QED
  BY InitLock, <1>1, <1>2, PTL DEF Spec

-----------------------------------------------------------------------------
(* The counter [1]. *)

LEMMA Finite ==
  /\ IsFiniteSet(Procs) /\ IsFiniteSet(Servers)
  /\ \A S \in SUBSET Procs : IsFiniteSet(S) /\ Cardinality(S) \in Nat
<1>1. IsFiniteSet(Procs) /\ Servers \in SUBSET Procs
  BY SemAssumption DEF Procs
<1>2. \A S \in SUBSET Procs : IsFiniteSet(S)
  BY <1>1, FS_Subset
<1>q. QED
  BY <1>1, <1>2, FS_CardinalityType

LEMMA Toggle ==
  ASSUME NEW S \in SUBSET Procs, NEW T \in SUBSET Procs, NEW p, S \ {p} = T \ {p}
  PROVE  Cardinality(T) = Cardinality(S) + (IF p \in T THEN 1 ELSE 0)
                                        - (IF p \in S THEN 1 ELSE 0)
<1>1. /\ IsFiniteSet(S) /\ Cardinality(S) \in Nat
      /\ IsFiniteSet(T) /\ Cardinality(T) \in Nat
  BY Finite
<1>2. Cardinality(S \ {p}) = IF p \in S THEN Cardinality(S) - 1 ELSE Cardinality(S)
  BY <1>1, FS_RemoveElement
<1>3. Cardinality(T \ {p}) = IF p \in T THEN Cardinality(T) - 1 ELSE Cardinality(T)
  BY <1>1, FS_RemoveElement
<1>q. QED
  BY <1>1, <1>2, <1>3

(* What a process owes, whether it still knows the set or not. *)
LEMMA Debt ==
  ASSUME LockInv, ValueInv, NEW p \in Procs
  PROVE  /\ adj[p][1] \in {-1, 0, 1}
         /\ adj[p][1] = 1 => p \in Servers
         /\ adj[p][1] = -1 => p \in Sessions
         /\ adj[p][0] = 1 \/ adj[p][1] # 0 => Exists(p)
<1>1. Owner(p) /\ Owes(p)
  BY DEF LockInv, ValueInv
<1>2. CASE Exists(p)
  BY <1>1, <1>2 DEF Owes, Procs
<1>3. CASE ~Exists(p)
  BY <1>1, <1>3, ZeroShape DEF Owner
<1>q. QED
  BY <1>2, <1>3

(* A process adds to the counter what it has still to take back.           *)
LEMMA Recount ==
  ASSUME NEW p \in Procs, \A q \in Procs : q # p => adj'[q] = adj[q],
         adj[p][1] \in {-1, 0, 1}, adj'[p][1] \in {-1, 0, 1}
  PROVE  /\ Cardinality(Users) \in Nat /\ Cardinality(Closers) \in Nat
         /\ Cardinality(Users)' \in Nat /\ Cardinality(Closers)' \in Nat
         /\ Cardinality(Closers)' - Cardinality(Users)'
              = Cardinality(Closers) - Cardinality(Users) + adj[p][1] - adj'[p][1]
<1>1. /\ Users \in SUBSET Procs /\ Users' \in SUBSET Procs
      /\ Closers \in SUBSET Procs /\ Closers' \in SUBSET Procs
  BY DEF Users, Closers
<1>2. /\ Cardinality(Users) \in Nat /\ Cardinality(Users') \in Nat
      /\ Cardinality(Closers) \in Nat /\ Cardinality(Closers') \in Nat
  BY <1>1, Finite
<1>3. Users' \ {p} = Users \ {p} /\ Closers' \ {p} = Closers \ {p}
  BY DEF Users, Closers
<1>4. Cardinality(Users') = Cardinality(Users) + (IF p \in Users' THEN 1 ELSE 0)
                                              - (IF p \in Users THEN 1 ELSE 0)
  BY <1>1, <1>3, Toggle
<1>5. Cardinality(Closers') = Cardinality(Closers) + (IF p \in Closers' THEN 1 ELSE 0)
                                                  - (IF p \in Closers THEN 1 ELSE 0)
  BY <1>1, <1>3, Toggle
<1>6. (p \in Users <=> adj[p][1] = 1) /\ (p \in Closers <=> adj[p][1] = -1)
  BY DEF Users, Closers
<1>7. (p \in Users' <=> adj'[p][1] = 1) /\ (p \in Closers' <=> adj'[p][1] = -1)
  BY DEF Users, Closers
<1>q. QED
  BY <1>2, <1>4, <1>5, <1>6, <1>7

(* Servers count, sessions do not: the counter does not pass zero as long  *)
(* as the servers are at most BIGCOUNT.                                    *)
LEMMA CounterBounds ==
  ASSUME Cardinality(Servers) <= BIGCOUNT, LockInv, ValueInv, Live
  PROVE  /\ val[1] \in Nat
         /\ \A p \in Servers : adj[p][1] # 1 => val[1] > 0
         /\ \A p \in Procs : adj[p][1] = -1 => val[1] > 0
<1>1. /\ Users \in SUBSET Procs /\ Closers \in SUBSET Procs /\ Users \subseteq Servers
  BY Debt DEF Users, Closers
<1>2. /\ Cardinality(Users) \in Nat /\ Cardinality(Closers) \in Nat /\ Cardinality(Servers) \in Nat
  BY <1>1, Finite DEF Procs
<1>3. Cardinality(Users) <= Cardinality(Servers)
  BY <1>1, Finite, FS_Subset
<1>4. val[1] = 31 - Cardinality(Users) + Cardinality(Closers) /\ Cardinality(Servers) <= 31
  BY DEF Live, BIGCOUNT
<1>5. ASSUME NEW p \in Servers, adj[p][1] # 1 PROVE val[1] > 0
  <2>1. Users \in SUBSET (Servers \ {p})
    BY <1>1, <1>5 DEF Users
  <2>2. IsFiniteSet(Servers \ {p}) /\ Cardinality(Servers \ {p}) = Cardinality(Servers) - 1
    BY Finite, FS_RemoveElement
  <2>3. Cardinality(Users) <= Cardinality(Servers) - 1
    BY <2>1, <2>2, FS_Subset
  <2>q. QED
    BY <1>2, <1>4, <2>3
<1>6. ASSUME NEW p \in Procs, adj[p][1] = -1 PROVE val[1] > 0
  <2>1. Closers # {} /\ IsFiniteSet(Closers)
    BY <1>1, <1>6, Finite DEF Closers
  <2>2. Cardinality(Closers) # 0
    BY <2>1, FS_EmptySet
  <2>q. QED
    BY <1>2, <1>3, <1>4, <2>2
<1>q. QED
  BY <1>2, <1>3, <1>4, <1>5, <1>6

(* A step of one process on the set there is. *)
LEMMA ValueStep ==
  ASSUME IInv, LockInv', NEW p \in Procs, UNCHANGED <<set, made, id>>,
         \A q \in Procs : q # p => pc'[q] = pc[q] /\ adj'[q] = adj[q],
         stray => stray', orphaned \subseteq orphaned',
         Owes(p)',
         p \in Servers /\ pc'[p] \in {"up", "in"} => Exists(p) \/ p \in orphaned' \/ stray',
         pc'[p] = "remove" /\ ~stray' => \A q \in Procs : adj'[q][1] # 1,
         adj'[p][1] = 1 /\ adj[p][1] # 1 => \A q \in Procs : pc[q] # "remove",
         IF set = None THEN val'[1] = 0 ELSE Blank' \/ Live'
  PROVE  IInv'
<1>1. /\ LastOne /\ KeepsItsSet /\ \A q \in Procs : Owes(q)
  BY DEF IInv, ValueInv
<1>2. \A q \in Procs : Exists(q)' <=> Exists(q)
  BY DEF Exists
<1>3. \A q \in Procs : Owes(q)'
  BY <1>1, <1>2 DEF Owes
<1>4. LastOne'
  BY <1>1 DEF LastOne
<1>5. KeepsItsSet'
  BY <1>1, <1>2 DEF KeepsItsSet, Procs
<1>q. QED
  BY <1>3, <1>4, <1>5 DEF IInv, ValueInv

LEMMA BlankStep ==
  ASSUME Blank, NEW p \in Procs, UNCHANGED <<set, id>>,
         \A q \in Procs : q # p => pc'[q] = pc[q] /\ adj'[q] = adj[q],
         val'[0] = val[0], val'[1] = 0, adj'[p][0] = 0, adj'[p][1] = 0,
         Exists(p) => pc'[p] \notin {"endCreate", "up", "in"} \cup Closing,
         pc'[p] # "setCount"
  PROVE  Blank'
BY DEF Blank, Exists

LEMMA LiveStep ==
  ASSUME LockInv, ValueInv, Live, NEW p \in Procs,
         \A q \in Procs : q # p => pc'[q] = pc[q] /\ adj'[q] = adj[q],
         adj'[p][0] \in {0, 1}, adj'[p][1] \in {-1, 0, 1},
         val'[0] = val[0] + adj[p][0] - adj'[p][0],
         val'[1] = val[1] + adj[p][1] - adj'[p][1],
         adj'[p][0] = 1 /\ adj[p][0] = 0 => val[0] = 1,
         pc'[p] \notin {"setLock", "setCount"}
  PROVE  Live'
<1>1. adj[p][1] \in {-1, 0, 1} /\ \A q \in Procs : adj[q][0] \in {0, 1}
  BY Debt DEF ValueInv, Owes
<1>2. /\ Cardinality(Users) \in Nat /\ Cardinality(Closers) \in Nat
      /\ Cardinality(Users)' \in Nat /\ Cardinality(Closers)' \in Nat
      /\ Cardinality(Closers)' - Cardinality(Users)'
           = Cardinality(Closers) - Cardinality(Users) + adj[p][1] - adj'[p][1]
  BY <1>1, Recount
<1>3. val'[1] = BIGCOUNT - Cardinality(Users)' + Cardinality(Closers)'
  BY <1>1, <1>2 DEF Live, BIGCOUNT
<1>4. /\ val[0] \in {0, 1} /\ \A q \in Procs : adj[q][0] = 1 => val[0] = 0
      /\ (\A q \in Procs : adj[q][0] = 0) => val[0] = 1
      /\ \A q, r \in Procs : adj[q][0] = 1 /\ adj[r][0] = 1 => q = r
      /\ \A q \in Procs : pc[q] \notin {"setLock", "setCount"}
  BY DEF Live
<1>5. /\ val'[0] \in {0, 1} /\ \A q \in Procs : adj'[q][0] = 1 => val'[0] = 0
      /\ (\A q \in Procs : adj'[q][0] = 0) => val'[0] = 1
      /\ \A q, r \in Procs : adj'[q][0] = 1 /\ adj'[r][0] = 1 => q = r
  <2>1. CASE adj'[p][0] = adj[p][0]
    <3>1. val'[0] = val[0] /\ \A q \in Procs : adj'[q][0] = adj[q][0]
      BY <1>1, <1>4, <2>1
    <3>q. QED
      BY <1>4, <3>1
  <2>2. CASE adj'[p][0] = 1 /\ adj[p][0] = 0
    <3>1. val[0] = 1 /\ val'[0] = 0 /\ \A q \in Procs : adj[q][0] = 0
      BY <1>1, <1>4, <2>2
    <3>q. QED
      BY <2>2, <3>1
  <2>3. CASE adj'[p][0] = 0 /\ adj[p][0] = 1
    <3>1. val[0] = 0 /\ val'[0] = 1 /\ \A q \in Procs : q # p => adj[q][0] = 0
      BY <1>1, <1>4, <2>3
    <3>q. QED
      BY <2>3, <3>1
  <2>q. QED
    BY <1>1, <2>1, <2>2, <2>3
<1>6. \A q \in Procs : pc'[q] \notin {"setLock", "setCount"}
  BY <1>4
<1>q. QED
  BY <1>3, <1>5, <1>6 DEF Live

(* A step that leaves the kernel alone. *)
LEMMA QuietValue ==
  ASSUME IInv, LockInv', NEW p \in Procs, NEW l \in PCs, Goto(p, l), UNCHANGED <<kernel, id>>,
         stray => stray', orphaned \subseteq orphaned', Owes(p)',
         p \in Servers /\ l \in {"up", "in"} => Exists(p) \/ p \in orphaned' \/ stray',
         l = "remove" /\ ~stray' => \A q \in Procs : adj[q][1] # 1,
         set # None /\ Blank /\ Exists(p) => l \notin {"endCreate", "up", "in"} \cup Closing,
         set # None /\ Live => l # "setLock",
         l # "setCount"
  PROVE  IInv'
<1>1. LockInv /\ ValueInv /\ TypeOK
  BY DEF IInv, LockInv
<1>2. /\ pc'[p] = l /\ \A q \in Procs : q # p => pc'[q] = pc[q]
  BY <1>1, GotoFacts
<1>3. UNCHANGED <<set, made, val, adj, id>>
  BY DEF kernel
<1>4. ASSUME set # None, Blank PROVE Blank'
  <2>1. adj[p][0] = 0 /\ adj[p][1] = 0 /\ val[1] = 0
    BY <1>4 DEF Blank
  <2>q. QED
    BY <1>2, <1>3, <1>4, <2>1, BlankStep
<1>5. ASSUME set # None, Live PROVE Live'
  BY <1>2, <1>3, <1>5 DEF Live, Users, Closers
<1>6. IF set = None THEN val'[1] = 0 ELSE Blank' \/ Live'
  BY <1>1, <1>3, <1>4, <1>5 DEF ValueInv
<1>q. QED
  BY <1>2, <1>3, <1>6, ValueStep

(* A semop call, with the deltas a, b, c. *)
LEMMA SemOpValue ==
  ASSUME IInv, LockInv', NEW p \in Procs, NEW l \in PCs,
         NEW a \in Int, NEW b \in Int, NEW c \in Int,
         SemOp(p, Delta(a, b, c)), Goto(p, l), UNCHANGED <<id, history>>,
         Exists(p), Owes(p)', l \notin {"remove", "setLock", "setCount"},
         Blank => a = 0 /\ b = 0 /\ l \notin {"endCreate", "up", "in"} \cup Closing,
         Live /\ a = -1 => val[0] = 1,
         b < 0 => \A q \in Procs : pc[q] # "remove",
         adj[p][0] - a \in {0, 1}, adj[p][1] - b \in {-1, 0, 1}
  PROVE  IInv'
<1>1. LockInv /\ ValueInv /\ TypeOK /\ Owes(p) /\ set # None
  BY DEF IInv, LockInv, ValueInv, Exists
<1>2. /\ pc'[p] = l /\ \A q \in Procs : q # p => pc'[q] = pc[q]
  BY <1>1, GotoFacts
<1>3. /\ set' = set /\ made' = made
      /\ val'[0] = val[0] + a /\ val'[1] = val[1] + b
      /\ adj'[p][0] = adj[p][0] - a /\ adj'[p][1] = adj[p][1] - b
      /\ \A q \in Procs : q # p => adj'[q] = adj[q]
  BY <1>1, SemOpFacts
<1>4. val[0] \in Int /\ val[1] \in Int /\ adj[p][0] \in {0, 1} /\ adj[p][1] \in {-1, 0, 1}
  <2>1. val[0] \in Int /\ val[1] \in Int
    BY <1>1, ZeroShape DEF TypeOK
  <2>q. QED
    BY <1>1, <2>1, Debt DEF Owes
<1>5. ASSUME Blank PROVE Blank'
  <2>1. val[1] = 0 /\ adj[p][0] = 0 /\ adj[p][1] = 0 /\ a = 0 /\ b = 0
    BY <1>5 DEF Blank
  <2>2. val'[0] = val[0] /\ val'[1] = 0 /\ adj'[p][0] = 0 /\ adj'[p][1] = 0
    BY <1>3, <1>4, <2>1
  <2>q. QED
    BY <1>2, <1>3, <1>5, <2>2, BlankStep
<1>6. ASSUME Live PROVE Live'
  <2>1. val'[0] = val[0] + adj[p][0] - adj'[p][0] /\ val'[1] = val[1] + adj[p][1] - adj'[p][1]
    BY <1>3, <1>4
  <2>2. adj'[p][0] = 1 /\ adj[p][0] = 0 => val[0] = 1
    BY <1>3, <1>6
  <2>q. QED
    BY <1>1, <1>2, <1>3, <1>6, <2>1, <2>2, LiveStep
<1>7. Blank' \/ Live'
  BY <1>1, <1>5, <1>6 DEF ValueInv
<1>8. adj'[p][1] = 1 /\ adj[p][1] # 1 => \A q \in Procs : pc[q] # "remove"
  BY <1>3, <1>4
<1>9. orphaned \subseteq orphaned' /\ stray' = stray
  BY DEF history
<1>q. QED
  BY <1>1, <1>2, <1>3, <1>7, <1>8, <1>9, ValueStep

LEMMA UndoValue ==
  ASSUME Cardinality(Servers) <= BIGCOUNT, IInv, LockInv', NEW p \in Procs, Undo(p)
  PROVE  IInv'
<1>1. LockInv /\ ValueInv /\ TypeOK /\ Owes(p) /\ Owner(p)
  BY DEF IInv, LockInv, ValueInv
<1>2. /\ UNCHANGED <<set, made, id, orphaned, stray>>
      /\ ~Exists(p) => val' = val
      /\ Exists(p) => \A s \in Sems : val'[s] = IF val[s] + adj[p][s] < 0 THEN 0
                                               ELSE val[s] + adj[p][s]
      /\ adj'[p] = Zero /\ pc'[p] = "gone"
      /\ \A q \in Procs : q # p => adj'[q] = adj[q] /\ pc'[q] = pc[q]
  BY <1>1, UndoFacts
<1>3. adj'[p][0] = 0 /\ adj'[p][1] = 0
  BY <1>2, ZeroShape
<1>4. /\ val[0] \in Nat /\ val[1] \in Nat /\ adj[p][0] \in {0, 1} /\ adj[p][1] \in {-1, 0, 1}
      /\ ~Exists(p) => adj[p][0] = 0 /\ adj[p][1] = 0
  <2>1. val[0] \in Nat /\ val[1] \in Nat
    BY <1>1, ZeroShape DEF TypeOK
  <2>2. ~Exists(p) => adj[p][0] = 0 /\ adj[p][1] = 0
    BY <1>1, ZeroShape DEF Owner
  <2>q. QED
    BY <1>1, <2>1, <2>2, Debt DEF Owes
<1>5. ASSUME set # None, Blank PROVE Blank'
  <2>1. val[1] = 0 /\ adj[p][0] = 0 /\ adj[p][1] = 0
    BY <1>5 DEF Blank
  <2>2. val'[0] = val[0] /\ val'[1] = 0
    BY <1>2, <1>4, <2>1, ZeroShape
  <2>q. QED
    BY <1>2, <1>3, <1>5, <2>2, BlankStep DEF Closing
<1>6. ASSUME set # None, Live PROVE Live'
  <2>1. adj[p][1] = -1 => val[1] > 0
    BY <1>1, <1>6, CounterBounds
  <2>2. val'[0] = val[0] + adj[p][0] - adj'[p][0] /\ val'[1] = val[1] + adj[p][1] - adj'[p][1]
    <3>1. CASE Exists(p)
      BY <1>2, <1>3, <1>4, <2>1, <3>1, ZeroShape
    <3>2. CASE ~Exists(p)
      BY <1>2, <1>3, <1>4, <3>2
    <3>q. QED
      BY <3>1, <3>2
  <2>q. QED
    BY <1>1, <1>2, <1>3, <1>6, <2>2, LiveStep
<1>7. IF set = None THEN val'[1] = 0 ELSE Blank' \/ Live'
  <2>1. set = None => val'[1] = val[1]
    BY <1>2 DEF Exists
  <2>q. QED
    BY <1>1, <1>5, <1>6, <2>1 DEF ValueInv
<1>8. Owes(p)'
  BY <1>2, <1>3, ZeroShape DEF Owes, Closing
<1>q. QED
  BY <1>2, <1>3, <1>7, <1>8, ValueStep

(* Who is in one of the calls has the lock, and nobody else is in one.     *)
LEMMA Alone ==
  ASSUME LockInv, NEW p \in Procs, Inside(p)
  PROVE  Exists(p) /\ \A q \in Procs : q # p => ~Inside(q)
BY DEF LockInv, Binary

LEMMA CreateValue ==
  ASSUME Cardinality(Servers) <= BIGCOUNT, IInv, LockInv', NEW p \in Procs,
         \/ OpLock(p) \/ OpLockSleeps(p) \/ Again(p) \/ Orphaned(p)
         \/ GetVal(p) \/ EndCreate(p)
  PROVE  IInv'
<1>1. LockInv /\ ValueInv /\ TypeOK /\ Owes(p) /\ Owner(p)
  BY DEF IInv, LockInv, ValueInv
<1>2. adj[p][0] \in {0, 1} /\ adj[p][1] \in {-1, 0, 1} /\ adj[p] \in [Sems -> Int]
  BY <1>1, Debt DEF Owes, TypeOK
<1>3. CASE OpLock(p)
  <2>1. /\ Exists(p) /\ pc[p] \in {"call", "asleep"} /\ p \in Servers
        /\ SemOp(p, Delta(0, 0, 1)) /\ Goto(p, "created") /\ UNCHANGED <<id, history>>
    BY <1>1, <1>3 DEF OpLock, Owner, Begun
  <2>2. adj[p][0] = 0 /\ adj[p][1] = 0
    BY <1>1, <2>1 DEF Owes, Closing
  <2>3. /\ pc'[p] = "created" /\ adj'[p][0] = 0 /\ adj'[p][1] = 0 /\ set' = set /\ id' = id
    BY <1>1, <2>1, <2>2, GotoFacts, SemOpFacts DEF PCs
  <2>4. Owes(p)'
    BY <2>3 DEF Owes, Closing
  <2>q. QED
    BY <2>1, <2>2, <2>4, SemOpValue DEF PCs, Closing
<1>4. CASE OpLockSleeps(p)
  <2>1. pc[p] = "call" /\ Goto(p, "asleep") /\ UNCHANGED <<kernel, id, history>>
    BY <1>4 DEF OpLockSleeps
  <2>2. pc'[p] = "asleep" /\ UNCHANGED <<set, adj, id, orphaned, stray>>
    BY <1>1, <2>1, GotoFacts DEF PCs, kernel, history
  <2>3. Owes(p)'
    BY <1>1, <2>1, <2>2 DEF Owes, Closing, Exists
  <2>q. QED
    BY <2>1, <2>2, <2>3, QuietValue DEF PCs, Closing
<1>5. CASE Again(p)
  <2>1. pc[p] = "call" /\ Goto(p, "again") /\ UNCHANGED <<kernel, id, history>>
    BY <1>5 DEF Again
  <2>2. pc'[p] = "again" /\ UNCHANGED <<set, adj, id, orphaned, stray>>
    BY <1>1, <2>1, GotoFacts DEF PCs, kernel, history
  <2>3. Owes(p)'
    BY <1>1, <2>1, <2>2 DEF Owes, Closing, Exists
  <2>q. QED
    BY <2>1, <2>2, <2>3, QuietValue DEF PCs, Closing
<1>6. CASE Orphaned(p)
  <2>1. /\ pc[p] = "asleep" /\ ~Exists(p) /\ Goto(p, "up") /\ UNCHANGED <<kernel, id, stray>>
        /\ orphaned' = orphaned \cup {p}
    BY <1>6 DEF Orphaned
  <2>2. pc'[p] = "up" /\ UNCHANGED <<set, adj, id, stray>>
    BY <1>1, <2>1, GotoFacts DEF PCs, kernel
  <2>3. Owes(p)'
    BY <1>1, <2>1, <2>2 DEF Owes, Closing, Exists
  <2>q. QED
    BY <2>1, <2>2, <2>3, QuietValue DEF PCs, Closing
<1>7. CASE GetVal(p)
  <2>1. /\ pc[p] = "created" /\ Exists(p) /\ p \in Servers /\ UNCHANGED <<kernel, id, history>>
    BY <1>1, <1>7, Alone DEF GetVal, Owner, Begun, Inside, Creating
  <2>2. adj[p][1] = 0
    BY <1>1, <2>1 DEF Owes
  <2>3. Live => val[1] > 0
    BY <1>1, <2>1, <2>2, CounterBounds
  <2>4. CASE val[1] = 0
    <3>1. Goto(p, "setLock") /\ ~Live
      BY <1>7, <2>3, <2>4 DEF GetVal
    <3>2. pc'[p] = "setLock" /\ UNCHANGED <<set, adj, id, orphaned, stray>>
      BY <1>1, <2>1, <3>1, GotoFacts DEF PCs, kernel, history
    <3>3. Owes(p)'
      BY <1>1, <2>1, <3>2 DEF Owes, Closing, Exists
    <3>q. QED
      BY <2>1, <3>1, <3>2, <3>3, QuietValue DEF PCs, Closing
  <2>5. CASE val[1] # 0
    <3>1. Goto(p, "endCreate") /\ ~Blank
      BY <1>7, <2>5 DEF GetVal, Blank
    <3>2. pc'[p] = "endCreate" /\ UNCHANGED <<set, adj, id, orphaned, stray>>
      BY <1>1, <2>1, <3>1, GotoFacts DEF PCs, kernel, history
    <3>3. Owes(p)'
      BY <1>1, <2>1, <3>2 DEF Owes, Closing, Exists
    <3>q. QED
      BY <2>1, <3>1, <3>2, <3>3, QuietValue DEF PCs, Closing
  <2>q. QED
    BY <2>4, <2>5
<1>8. CASE EndCreate(p)
  <2>1. /\ pc[p] = "endCreate" /\ Inside(p) /\ p \in Servers
        /\ SemOp(p, Delta(0, -1, -1)) /\ Goto(p, "up") /\ UNCHANGED <<id, history>>
    BY <1>1, <1>8 DEF EndCreate, Inside, Owner, Begun, Creating
  <2>2. Exists(p) /\ \A q \in Procs : pc[q] # "remove"
    BY <1>1, <2>1, Alone DEF Inside, Removing
  <2>3. adj[p][0] = 0 /\ adj[p][1] = 0 /\ ~Blank
    BY <1>1, <2>1, <2>2 DEF Owes, Closing, Blank
  <2>4. /\ pc'[p] = "up" /\ adj'[p][0] = 0 /\ adj'[p][1] = 1 /\ set' = set /\ id' = id
    BY <1>1, <2>1, <2>3, GotoFacts, SemOpFacts DEF PCs
  <2>5. Owes(p)'
    BY <2>1, <2>4 DEF Owes, Closing
  <2>q. QED
    BY <2>1, <2>2, <2>3, <2>5, SemOpValue DEF PCs
<1>q. QED
  BY <1>3, <1>4, <1>5, <1>6, <1>7, <1>8

(* The set is initialised: nobody uses it before, and one creator does it. *)
LEMMA SetValues ==
  ASSUME IInv, LockInv', NEW p \in Procs, SetLock(p) \/ SetCount(p)
  PROVE  IInv'
<1>1. LockInv /\ ValueInv /\ TypeOK /\ Owes(p) /\ Owner(p)
  BY DEF IInv, LockInv, ValueInv
<1>2. Inside(p) /\ pc[p] \in {"setLock", "setCount"} /\ p \in Servers
  BY <1>1 DEF SetLock, SetCount, Inside, Creating, Owner, Begun
<1>3. Exists(p) /\ set # None /\ \A q \in Procs : q # p => ~Inside(q)
  BY <1>1, <1>2, Alone DEF Exists
<1>4. Blank
  BY <1>1, <1>2, <1>3 DEF ValueInv, Live
<1>5. \A q \in Procs : adj[q][0] = 0 /\ adj[q][1] = 0 /\ adj[q] \in [Sems -> Int]
  BY <1>1, <1>4 DEF Blank, TypeOK
<1>6. PICK s \in {0, 1}, v \in Nat, l \in {"setCount", "endCreate"} :
        /\ SetVal(s, v) /\ Goto(p, l) /\ UNCHANGED <<id, history>>
        /\ \/ s = 0 /\ v = 1 /\ l = "setCount" /\ pc[p] = "setLock"
           \/ s = 1 /\ v = BIGCOUNT /\ l = "endCreate" /\ pc[p] = "setCount"
  <2>1. CASE SetLock(p)
    BY <2>1 DEF SetLock
  <2>2. CASE SetCount(p)
    <3>1. BIGCOUNT \in Nat
      BY DEF BIGCOUNT
    <3>q. QED
      BY <2>2, <3>1 DEF SetCount
  <2>q. QED
    BY <2>1, <2>2
<1>7. /\ set' = set /\ made' = made /\ adj' \in [Procs -> [Sems -> Int]]
      /\ val'[s] = v /\ \A t \in Sems : t # s => val'[t] = val[t]
      /\ \A q \in Procs : adj'[q][s] = 0 /\ \A t \in Sems : t # s => adj'[q][t] = adj[q][t]
  BY <1>1, <1>6, SetValFacts, ZeroShape
<1>8. \A q \in Procs : adj'[q] = adj[q]
  <2> SUFFICES ASSUME NEW q \in Procs PROVE adj'[q] = adj[q]
    OBVIOUS
  <2>1. \A t \in Sems : adj'[q][t] = adj[q][t]
    BY <1>5, <1>6, <1>7
  <2>q. QED
    BY <1>5, <1>7, <2>1
<1>9. pc'[p] = l /\ \A q \in Procs : q # p => pc'[q] = pc[q]
  BY <1>1, <1>6, GotoFacts DEF PCs
<1>10. UNCHANGED <<id, orphaned, stray>>
  BY <1>6 DEF history
<1>11. Owes(p)'
  BY <1>1, <1>2, <1>3, <1>5, <1>6, <1>7, <1>8, <1>9, <1>10 DEF Owes, Closing, Exists
<1>12. CASE l = "setCount"
  <2>1. val'[1] = val[1] /\ val'[0] = 1
    BY <1>6, <1>7, <1>12, ZeroShape
  <2>2. Blank'
    BY <1>4, <1>7, <1>8, <1>9, <1>10, <1>12, <2>1 DEF Blank, Exists, Closing
  <2>q. QED
    BY <1>3, <1>7, <1>8, <1>9, <1>10, <1>11, <1>12, <2>2, ValueStep
<1>13. CASE l = "endCreate"
  <2>1. val'[1] = BIGCOUNT /\ val'[0] = val[0] /\ val[0] = 1
    BY <1>4, <1>6, <1>7, <1>13, ZeroShape DEF Blank
  <2>2. Users' = {} /\ Closers' = {}
    BY <1>5, <1>8 DEF Users, Closers
  <2>3. val'[1] = BIGCOUNT - Cardinality(Users)' + Cardinality(Closers)'
    BY <2>1, <2>2, FS_EmptySet DEF BIGCOUNT
  <2>4. \A q \in Procs : pc'[q] \notin {"setLock", "setCount"}
    BY <1>3, <1>9, <1>13 DEF Inside, Creating
  <2>5. \A q \in Procs : adj'[q][0] = 0
    BY <1>5, <1>8
  <2>6. Live'
    BY <2>1, <2>3, <2>4, <2>5 DEF Live
  <2>q. QED
    BY <1>3, <1>7, <1>8, <1>9, <1>10, <1>11, <1>13, <2>6, ValueStep
<1>q. QED
  BY <1>6, <1>12, <1>13

LEMMA UseValue ==
  ASSUME IInv, LockInv', NEW p \in Procs, SemWait(p) \/ SemSignal(p) \/ ServerExit(p)
  PROVE  IInv'
<1>1. LockInv /\ ValueInv /\ TypeOK /\ Owes(p) /\ Owner(p) /\ KeepsItsSet
  BY DEF IInv, LockInv, ValueInv
<1>2. adj[p][0] \in {0, 1} /\ adj[p][1] \in {-1, 0, 1} /\ adj[p] \in [Sems -> Int] /\ stray \in BOOLEAN
  BY <1>1, Debt DEF Owes, TypeOK
<1>3. p \in Servers /\ pc[p] \in {"up", "in"} => Exists(p) \/ p \in orphaned \/ stray
  BY <1>1 DEF KeepsItsSet
<1>4. CASE SemWait(p) /\ Exists(p)
  <2>1. /\ pc[p] = "up" /\ val[0] > 0
        /\ SemOp(p, Delta(-1, 0, 0)) /\ Goto(p, "in") /\ UNCHANGED <<id, history>>
    BY <1>4 DEF SemWait
  <2>2. adj[p][0] = 0 /\ ~Blank /\ (Live => val[0] = 1)
    BY <1>1, <1>4, <2>1 DEF Owes, Closing, Blank, Live
  <2>3. /\ pc'[p] = "in" /\ adj'[p][0] = 1 /\ adj'[p][1] = adj[p][1] /\ set' = set /\ id' = id
    <3>1. pc'[p] = "in" /\ id' = id
      BY <1>1, <2>1, GotoFacts DEF PCs
    <3>2. set' = set /\ adj'[p][0] = adj[p][0] - (-1) /\ adj'[p][1] = adj[p][1] - 0
      BY <1>1, <2>1, SemOpFacts
    <3>q. QED
      BY <1>2, <2>2, <3>1, <3>2
  <2>4. Owes(p)'
    BY <1>1, <1>4, <2>1, <2>3 DEF Owes, Closing, Exists
  <2>5. "in" \in PCs /\ adj[p][0] - (-1) \in {0, 1} /\ adj[p][1] - 0 \in {-1, 0, 1}
    BY <1>2, <2>2 DEF PCs
  <2>q. QED
    BY <1>4, <2>1, <2>2, <2>4, <2>5, SemOpValue
<1>5. CASE SemSignal(p) /\ Exists(p)
  <2>1. /\ pc[p] = "in"
        /\ SemOp(p, Delta(1, 0, 0)) /\ Goto(p, "up") /\ UNCHANGED <<id, history>>
    BY <1>5 DEF SemSignal
  <2>2. adj[p][0] = 1 /\ ~Blank
    BY <1>1, <1>5, <2>1 DEF Owes, Blank
  <2>3. /\ pc'[p] = "up" /\ adj'[p][0] = 0 /\ adj'[p][1] = adj[p][1] /\ set' = set /\ id' = id
    BY <1>1, <1>2, <2>1, <2>2, GotoFacts, SemOpFacts DEF PCs
  <2>4. Owes(p)'
    BY <1>1, <1>5, <2>1, <2>3 DEF Owes, Closing, Exists
  <2>5. "up" \in PCs /\ adj[p][0] - 1 \in {0, 1} /\ adj[p][1] - 0 \in {-1, 0, 1}
    BY <1>2, <2>2 DEF PCs
  <2>q. QED
    BY <1>5, <2>1, <2>2, <2>4, <2>5, SemOpValue
<1>6. CASE (SemWait(p) \/ SemSignal(p)) /\ ~Exists(p)
  <2>1. PICK l \in {"up", "in"} : Goto(p, l) /\ UNCHANGED <<kernel, id, history>>
    BY <1>6 DEF SemWait, SemSignal
  <2>2. pc[p] \in {"up", "in"}
    BY <1>6 DEF SemWait, SemSignal
  <2>3. pc'[p] = l /\ UNCHANGED <<set, adj, id, orphaned, stray>>
    BY <1>1, <2>1, GotoFacts DEF PCs, kernel, history
  <2>4. adj[p][0] = 0
    BY <1>1, <1>6, ZeroShape DEF Owner
  <2>5. Owes(p)'
    BY <1>6, <2>3, <2>4 DEF Owes, Closing, Exists
  <2>q. QED
    BY <1>3, <1>6, <2>1, <2>2, <2>3, <2>5, QuietValue DEF PCs
<1>7. CASE ServerExit(p)
  <2>1. /\ pc[p] \in {"up", "in"} /\ Goto(p, "close") /\ UNCHANGED <<kernel, id, orphaned>>
        /\ stray' = (stray \/ p \in Sessions)
    BY <1>7 DEF ServerExit
  <2>2. pc'[p] = "close" /\ UNCHANGED <<set, adj, id>>
    BY <1>1, <2>1, GotoFacts DEF PCs, kernel
  <2>3. Owes(p)'
    BY <1>1, <2>1, <2>2 DEF Owes, Closing, Exists
  <2>4. Blank => ~Exists(p)
    BY <2>1 DEF Blank
  <2>q. QED
    BY <2>1, <2>3, <2>4, QuietValue DEF PCs
<1>q. QED
  BY <1>4, <1>5, <1>6, <1>7

LEMMA CloseValue ==
  ASSUME Cardinality(Servers) <= BIGCOUNT, IInv, LockInv', NEW p \in Procs,
         SemClose(p) \/ Crash(p)
  PROVE  IInv'
<1>1. LockInv /\ ValueInv /\ TypeOK /\ Owes(p) /\ Owner(p) /\ KeepsItsSet /\ LastOne
  BY DEF IInv, LockInv, ValueInv
<1>2. adj[p][0] \in {0, 1} /\ adj[p][1] \in {-1, 0, 1} /\ adj[p] \in [Sems -> Int] /\ stray \in BOOLEAN
  BY <1>1, Debt DEF Owes, TypeOK
<1>3. CASE OpClose(p)
  <2>1. /\ pc[p] = "close" /\ Exists(p)
        /\ SemOp(p, Delta(0, 1, 1)) /\ Goto(p, "closed") /\ UNCHANGED <<id, history>>
    BY <1>3 DEF OpClose
  <2>2. ~Blank /\ adj[p][1] = IF p \in Servers THEN 1 ELSE 0
    BY <1>1, <2>1 DEF Owes, Blank, Closing
  <2>3. /\ pc'[p] = "closed" /\ adj'[p][0] = adj[p][0] /\ adj'[p][1] = adj[p][1] - 1
        /\ set' = set /\ id' = id /\ stray' = stray
    <3>1. pc'[p] = "closed" /\ id' = id /\ stray' = stray
      BY <1>1, <2>1, GotoFacts DEF PCs, history
    <3>2. set' = set /\ adj'[p][0] = adj[p][0] - 0 /\ adj'[p][1] = adj[p][1] - 1
      BY <1>1, <2>1, SemOpFacts
    <3>q. QED
      BY <1>2, <3>1, <3>2
  <2>4. adj'[p][1] = IF p \in Servers THEN 0 ELSE -1
    BY <2>2, <2>3
  <2>5. Owes(p)'
    BY <1>1, <1>2, <2>1, <2>3, <2>4 DEF Owes, Closing, Exists
  <2>6. "closed" \in PCs /\ adj[p][0] - 0 \in {0, 1} /\ adj[p][1] - 1 \in {-1, 0, 1}
    BY <1>2, <2>2 DEF PCs
  <2>q. QED
    BY <2>1, <2>2, <2>5, <2>6, SemOpValue
<1>4. CASE CloseFails(p) \/ Exit(p) \/ Crash(p)
  BY <1>4, UndoValue DEF CloseFails, Exit, Crash
<1>5. CASE LastReference(p)
  <2>1. /\ pc[p] = "closed" /\ UNCHANGED <<kernel, id, history>> /\ Exists(p) /\ set # None
    BY <1>1, <1>5, Alone DEF LastReference, Inside, Removing, Exists
  <2>2. ~Blank /\ Live
    BY <1>1, <2>1 DEF Blank, Closing, ValueInv
  <2>3. PICK l \in {"exit", "remove", "unlock"} :
          Goto(p, l) /\ (l = "remove" => val[1] = BIGCOUNT)
    BY <1>5 DEF LastReference
  <2>4. pc'[p] = l /\ UNCHANGED <<set, adj, id, orphaned, stray>>
    BY <1>1, <2>1, <2>3, GotoFacts DEF PCs, kernel, history
  <2>5. Owes(p)'
    BY <1>1, <2>1, <2>4 DEF Owes, Closing, Exists
  <2>6. ASSUME l = "remove", ~stray PROVE \A q \in Procs : adj[q][1] # 1
    <3>1. Closers = {}
      <4> SUFFICES ASSUME NEW q \in Procs, adj[q][1] = -1 PROVE FALSE
        BY DEF Closers
      <4>1. Owes(q) /\ Exists(q) /\ q \in Sessions
        BY <1>1, Debt DEF ValueInv
      <4>2. pc[q] \in Closing
        BY <4>1 DEF Owes
      <4>q. QED
        BY <2>6, <4>1, <4>2 DEF Owes
    <3>2. Users \in SUBSET Procs
      BY DEF Users
    <3>3. IsFiniteSet(Users) /\ Cardinality(Users) \in Nat /\ Cardinality(Closers) = 0
      BY <3>1, <3>2, Finite, FS_EmptySet
    <3>4. Cardinality(Users) = 0
      BY <2>2, <2>3, <2>6, <3>3 DEF Live, BIGCOUNT
    <3>5. Users = {}
      BY <3>3, <3>4, FS_EmptySet
    <3>q. QED
      BY <3>5 DEF Users
  <2>7. l \in PCs /\ l \notin {"setLock", "setCount", "up", "in"}
    BY DEF PCs
  <2>q. QED
    BY <2>1, <2>2, <2>3, <2>4, <2>5, <2>6, <2>7, QuietValue
<1>6. CASE OpUnlock(p)
  <2>1. /\ pc[p] = "unlock" /\ Exists(p)
        /\ SemOp(p, Delta(0, 0, -1)) /\ Goto(p, "exit") /\ UNCHANGED <<id, history>>
    BY <1>1, <1>6, Alone DEF OpUnlock, Inside, Removing
  <2>2. ~Blank
    BY <2>1 DEF Blank, Closing
  <2>3. /\ pc'[p] = "exit" /\ adj'[p][0] = adj[p][0] /\ adj'[p][1] = adj[p][1]
        /\ set' = set /\ id' = id /\ stray' = stray
    <3>1. pc'[p] = "exit" /\ id' = id /\ stray' = stray
      BY <1>1, <2>1, GotoFacts DEF PCs, history
    <3>2. set' = set /\ adj'[p][0] = adj[p][0] - 0 /\ adj'[p][1] = adj[p][1] - 0
      BY <1>1, <2>1, SemOpFacts
    <3>q. QED
      BY <1>2, <3>1, <3>2
  <2>4. Owes(p)'
    BY <1>1, <1>2, <2>1, <2>3 DEF Owes, Closing, Exists
  <2>5. "exit" \in PCs /\ adj[p][0] - 0 \in {0, 1} /\ adj[p][1] - 0 \in {-1, 0, 1}
    BY <1>2 DEF PCs
  <2>q. QED
    BY <2>1, <2>2, <2>4, <2>5, SemOpValue
<1>7. CASE SemRm(p)
  <2>1. /\ pc[p] = "remove" /\ Exists(p) /\ \A q \in Procs : q # p => ~Inside(q)
    BY <1>1, <1>7, Alone DEF SemRm, Inside, Removing
  <2>2. /\ set' = None /\ val' = Zero /\ \A q \in Procs : adj'[q] = Zero
        /\ UNCHANGED <<made, id, orphaned, stray>>
    BY <1>7 DEF SemRm, history
  <2>3. pc'[p] = "exit" /\ \A q \in Procs : q # p => pc'[q] = pc[q]
    BY <1>1, <1>7, GotoFacts DEF SemRm, PCs
  <2>4. \A q \in Procs : adj'[q][0] = 0 /\ adj'[q][1] = 0 /\ ~Exists(q)'
    BY <2>2, ZeroShape DEF Exists
  <2>5. \A q \in Procs : q \in Sessions /\ pc'[q] \in Closing => stray
    <3>1. \A q \in Procs : q \in Sessions /\ pc[q] \in Closing => stray
      BY <1>1 DEF ValueInv, Owes
    <3>q. QED
      BY <2>1, <2>3, <3>1 DEF Closing
  <2>6. \A q \in Procs : Owes(q)'
    BY <2>2, <2>4, <2>5 DEF Owes
  <2>7. LastOne' /\ val'[1] = 0
    BY <2>2, <2>4, ZeroShape DEF LastOne
  <2>8. KeepsItsSet'
    <3> SUFFICES ASSUME NEW q \in Servers, pc'[q] \in {"up", "in"}, ~stray
                 PROVE  q \in orphaned
      BY <2>2 DEF KeepsItsSet
    <3>1. q \in Procs /\ pc[q] \in {"up", "in"}
      BY <2>3 DEF Procs
    <3>2. Owes(q) /\ adj[q][1] # 1
      BY <1>1, <2>1, <3>1 DEF LastOne, ValueInv
    <3>3. ~Exists(q)
      BY <3>1, <3>2 DEF Owes
    <3>q. QED
      BY <1>1, <3>1, <3>3 DEF KeepsItsSet
  <2>q. QED
    BY <2>2, <2>6, <2>7, <2>8 DEF IInv, ValueInv
<1>q. QED
  BY <1>3, <1>4, <1>5, <1>6, <1>7 DEF SemClose

LEMMA SemGetValue == ASSUME IInv, LockInv', NEW p \in Procs, SemGet(p) PROVE IInv'
<1>1. LockInv /\ ValueInv /\ TypeOK /\ KeepsItsSet /\ LastOne /\ \A q \in Procs : Owes(q) /\ Owner(q)
  BY DEF IInv, LockInv, ValueInv
<1>2. /\ pc[p] \in {"off", "again"} /\ p \in Servers
      /\ pc'[p] = "call" /\ \A q \in Procs : q # p => pc'[q] = pc[q]
  BY <1>1, GotoFacts DEF SemGet, PCs
<1>3. /\ adj' = adj /\ UNCHANGED <<orphaned, stray>>
      /\ id'[p] = set' /\ \A q \in Procs : q # p => id'[q] = id[q]
  BY <1>1 DEF SemGet, kernel, history, TypeOK
<1>4. adj[p][0] = 0 /\ adj[p][1] = 0
  <2>1. CASE Exists(p)
    BY <1>1, <1>2, <2>1 DEF Owes, Closing
  <2>2. CASE ~Exists(p)
    BY <1>1, <2>2, ZeroShape DEF Owner
  <2>q. QED
    BY <2>1, <2>2
<1>5. \A q \in Procs : Exists(q) => Exists(q)'
  BY <1>2, <1>3 DEF SemGet, Exists, kernel
<1>6. CASE set # None
  <2>1. UNCHANGED <<set, made, val>>
    BY <1>6 DEF SemGet, kernel
  <2>2. \A q \in Procs : q # p => (Exists(q)' <=> Exists(q))
    BY <1>3, <2>1 DEF Exists
  <2>3. \A q \in Procs : Owes(q)'
    BY <1>1, <1>2, <1>3, <1>4, <2>2 DEF Owes, Closing
  <2>4. Blank => Blank'
    BY <1>2, <1>3, <2>1, <2>2 DEF Blank, Closing
  <2>5. Live => Live'
    BY <1>2, <1>3, <2>1 DEF Live, Users, Closers
  <2>6. LastOne'
    BY <1>1, <1>2, <1>3 DEF LastOne
  <2>7. KeepsItsSet'
    BY <1>1, <1>2, <1>3, <1>5 DEF KeepsItsSet, Procs
  <2>q. QED
    BY <1>1, <1>6, <2>1, <2>3, <2>4, <2>5, <2>6, <2>7 DEF IInv, ValueInv
<1>7. CASE set = None
  <2>1. /\ made' = made + 1 /\ set' = made' /\ val' = Zero /\ made \in Nat
    <3>1. made \in Nat
      BY <1>1, SemAssumption DEF TypeOK
    <3>q. QED
      BY <1>7, <3>1 DEF SemGet
  <2>2. \A q \in Procs : ~Exists(q) /\ ~Inside(q) /\ adj[q][0] = 0 /\ adj[q][1] = 0
    <3>1. \A q \in Procs : ~Exists(q)
      BY <1>7 DEF Exists
    <3>q. QED
      BY <1>1, <3>1, ZeroShape DEF LockInv, Binary, Owner
  <2>3. \A q \in Procs : q # p => ~Exists(q)'
    <3>1. \A q \in Procs : id[q] \in Nat /\ id[q] <= made
      BY <1>1, SemAssumption DEF TypeOK, Owner
    <3>q. QED
      BY <1>3, <2>1, <3>1 DEF Exists
  <2>4. \A q \in Procs : Owes(q)'
    BY <1>1, <1>2, <1>3, <2>2, <2>3 DEF Owes, Closing
  <2>5. Blank'
    <3>1. val'[1] = 0
      BY <2>1, ZeroShape
    <3>2. \A q \in Procs : pc'[q] # "setCount"
      BY <1>2, <2>2 DEF Inside, Creating
    <3>q. QED
      BY <1>2, <1>3, <2>2, <2>3, <3>1, <3>2 DEF Blank, Closing
  <2>6. set' # None
    BY <2>1 DEF None
  <2>7. LastOne'
    BY <1>3, <2>2 DEF LastOne
  <2>8. KeepsItsSet'
    BY <1>1, <1>2, <1>3, <1>5 DEF KeepsItsSet, Procs
  <2>q. QED
    BY <2>4, <2>5, <2>6, <2>7, <2>8 DEF IInv, ValueInv
<1>q. QED
  BY <1>6, <1>7

LEMMA ForkValue ==
  ASSUME IInv, LockInv', NEW p \in Procs, NEW c \in Sessions, Fork(p, c) PROVE IInv'
<1>1. /\ LockInv /\ ValueInv /\ TypeOK /\ KeepsItsSet /\ LastOne
      /\ (\A q \in Procs : Owes(q) /\ Owner(q)) /\ c \in Procs /\ c \notin Servers
  BY SemAssumption DEF IInv, LockInv, ValueInv, Procs
<1>2. /\ pc[p] = "up" /\ pc[c] = "off"
      /\ pc'[c] = "up" /\ \A q \in Procs : q # c => pc'[q] = pc[q]
  BY <1>1, GotoFacts DEF Fork, PCs
<1>3. UNCHANGED <<set, made, val, adj, orphaned, stray>>
  BY DEF Fork, kernel, history
<1>4. id'[c] = id[p] /\ \A q \in Procs : q # c => id'[q] = id[q]
  BY <1>1 DEF Fork, TypeOK
<1>5. /\ \A q \in Procs : q # c => (Exists(q)' <=> Exists(q))
      /\ Exists(c)' <=> Exists(p)
  BY <1>3, <1>4 DEF Exists
<1>6. adj[c][0] = 0 /\ adj[c][1] = 0
  <2>1. ~Exists(c)
    BY <1>1, <1>2 DEF Owner, Exists
  <2>q. QED
    BY <1>1, <2>1, ZeroShape DEF Owner
<1>7. \A q \in Procs : Owes(q)'
  BY <1>1, <1>2, <1>3, <1>5, <1>6 DEF Owes, Closing
<1>8. Blank => Blank'
  BY <1>2, <1>3, <1>5 DEF Blank, Closing
<1>9. Live => Live'
  BY <1>2, <1>3 DEF Live, Users, Closers
<1>10. LastOne'
  BY <1>1, <1>2, <1>3 DEF LastOne
<1>11. KeepsItsSet'
  BY <1>1, <1>2, <1>3, <1>5 DEF KeepsItsSet, Procs
<1>q. QED
  BY <1>1, <1>3, <1>7, <1>8, <1>9, <1>10, <1>11 DEF IInv, ValueInv

LEMMA InitInv == Init => IInv
<1> SUFFICES ASSUME Init PROVE IInv
  OBVIOUS
<1>1. LockInv
  BY InitLock
<1>2. \A p \in Procs : adj[p] = Zero /\ pc[p] = "off" /\ ~Exists(p)
  BY DEF Init, Exists
<1>3. \A p \in Procs : Owes(p)
  BY <1>2, ZeroShape DEF Owes, Closing
<1>4. set = None /\ val[1] = 0 /\ LastOne /\ KeepsItsSet
  BY <1>2, ZeroShape DEF Init, LastOne, KeepsItsSet, Procs
<1>q. QED
  BY <1>1, <1>3, <1>4 DEF IInv, ValueInv

(* What the invariant says of the values. *)
LEMMA RightValues == ASSUME IInv PROVE ValuesAreRight
<1>1. LockInv /\ ValueInv /\ \A p \in Procs : Owes(p) /\ Owner(p)
  BY DEF IInv, LockInv, ValueInv
<1>2. SUFFICES ASSUME val[1] # 0
      PROVE  /\ val[0] + Cardinality(At({"in"})) <= 1
             /\ At({"in"} \cup Closing) = {} => val[0] = 1
             /\ val[1] = BIGCOUNT
                  - Cardinality(Servers \cap At({"up", "in", "close"}))
                  + Cardinality(Sessions \cap At(Closing \ {"close"}))
  BY DEF ValuesAreRight
<1>3. Live
  BY <1>1, <1>2 DEF ValueInv, Blank
<1>4. \A p \in Procs :
        /\ adj[p][0] \in {0, 1}
        /\ adj[p][0] = 1 => Exists(p) /\ pc[p] \in {"in"} \cup Closing
        /\ Exists(p) /\ pc[p] = "in" => adj[p][0] = 1
  BY <1>1, Debt DEF Owes
<1>5. val[0] + Cardinality(At({"in"})) <= 1
  <2>1. CASE At({"in"}) = {}
    <3>1. Cardinality(At({"in"})) = 0
      BY <2>1, FS_EmptySet
    <3>q. QED
      BY <1>3, <3>1 DEF Live
  <2>2. ASSUME NEW p \in At({"in"}) PROVE val[0] + Cardinality(At({"in"})) <= 1
    <3>1. p \in Procs /\ adj[p][0] = 1
      BY <1>4 DEF At
    <3>2. val[0] = 0 /\ \A q \in Procs : adj[q][0] = 1 => q = p
      BY <1>3, <3>1 DEF Live
    <3>3. At({"in"}) = {p}
      BY <1>4, <3>1, <3>2 DEF At
    <3>4. Cardinality({p}) = 1
      BY FS_Singleton
    <3>q. QED
      BY <3>2, <3>3, <3>4
  <2>q. QED
    BY <2>1, <2>2
<1>6. At({"in"} \cup Closing) = {} => val[0] = 1
  <2>1. At({"in"} \cup Closing) = {} => \A p \in Procs : adj[p][0] = 0
    BY <1>4 DEF At
  <2>q. QED
    BY <1>3, <2>1 DEF Live
<1>7. Servers \cap At({"up", "in", "close"}) = Users
  <2>1. ASSUME NEW p \in Servers \cap At({"up", "in", "close"}) PROVE p \in Users
    BY <1>1 DEF At, Users, Owes
  <2>2. ASSUME NEW p \in Users PROVE p \in Servers \cap At({"up", "in", "close"})
    <3>1. p \in Procs /\ adj[p][1] = 1
      BY DEF Users
    <3>2. p \in Servers /\ Exists(p)
      BY <1>1, <3>1, Debt
    <3>q. QED
      BY <1>1, <3>1, <3>2 DEF At, Owes
  <2>q. QED
    BY <2>1, <2>2
<1>8. Sessions \cap At(Closing \ {"close"}) = Closers
  <2>1. ASSUME NEW p \in Sessions \cap At(Closing \ {"close"}) PROVE p \in Closers
    <3>1. p \in Procs /\ Exists(p) /\ p \notin Servers /\ pc[p] \in Closing \ {"close"}
      BY SemAssumption DEF At
    <3>q. QED
      BY <1>1, <3>1 DEF Closers, Owes
  <2>2. ASSUME NEW p \in Closers PROVE p \in Sessions \cap At(Closing \ {"close"})
    <3>1. p \in Procs /\ adj[p][1] = -1
      BY DEF Closers
    <3>2. p \in Sessions /\ p \notin Servers /\ Exists(p)
      BY <1>1, <3>1, Debt, SemAssumption
    <3>q. QED
      BY <1>1, <3>1, <3>2 DEF At, Owes
  <2>q. QED
    BY <2>1, <2>2
<1>q. QED
  BY <1>3, <1>5, <1>6, <1>7, <1>8 DEF Live

-----------------------------------------------------------------------------
(* THEOREMS *)

(* The types, among them that [2] is a binary lock, however many servers   *)
(* there are.                                                              *)
THEOREM TypeCorrect == Spec => []TypeOK
<1>1. LockInv => TypeOK
  BY DEF LockInv
<1>q. QED
  BY LockInvariance, <1>1, PTL

(* The inductive invariant, as long as the counter is not too small for    *)
(* the servers: with more than BIGCOUNT of them it reaches zero, and       *)
(* sem_create takes a set in use for a new one.                            *)
THEOREM Invariance ==
  ASSUME Cardinality(Servers) <= BIGCOUNT
  PROVE  Spec => []IInv
<1>1. ASSUME IInv, Next PROVE IInv'
  <2>1. LockInv /\ LockInv'
    BY <1>1, CreateLock, UseLock, CloseLock, ForkLock DEF Next, IInv
  <2>q. QED
    BY <1>1, <2>1, SemGetValue, CreateValue, SetValues, UseValue, CloseValue, ForkValue
       DEF Next, SemCreate
<1>2. ASSUME IInv, UNCHANGED vars PROVE IInv'
  BY <1>2 DEF vars, IInv, LockInv, TypeOK, Owner, Binary, Exists, Inside, Holds, ValueInv, Owes,
              Blank, Live, Users, Closers, LastOne, KeepsItsSet
<1>q. QED
  BY InitInv, <1>1, <1>2, PTL DEF Spec

(* sem_create initialises a set once, and the values of [0] and [1] tell   *)
(* who is in the critical section and how many servers use the set,        *)
(* whoever crashes where.                                                  *)
THEOREM SetValuesAreRight ==
  ASSUME Cardinality(Servers) <= BIGCOUNT
  PROVE  Spec => []ValuesAreRight
<1>1. IInv => ValuesAreRight
  BY RightValues
<1>q. QED
  BY Invariance, <1>1, PTL

(* "if this is the last reference to the semaphore, remove this": a set is *)
(* not removed under a server that uses it, unless the handler of SIGINT   *)
(* ran in a session.                                                       *)
THEOREM ServersKeepTheirSet ==
  ASSUME Cardinality(Servers) <= BIGCOUNT
  PROVE  Spec => []KeepsItsSet
<1>1. IInv => KeepsItsSet
  BY DEF IInv
<1>q. QED
  BY Invariance, <1>1, PTL

=============================================================================
