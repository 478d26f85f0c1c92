------------------------- MODULE RemoteBatchProofs -------------------------
(***************************************************************************)
(* TLAPS proofs about RemoteBatch, for every number of browsers, sessions  *)
(* and lines, on Linux and on Windows: shells run the files line by line   *)
(* (console.cpp), a page's process has its own connection only             *)
(* (http_server.cpp), and a page is disturbed by its own browser and       *)
(* shells only (or, on Windows, by any: main.cpp).                         *)
(***************************************************************************)
EXTENDS RemoteBatch, SequenceTheorems, TLAPS

-----------------------------------------------------------------------------
(* The inductive invariant. *)

Tables ==
  /\ file \in [Sessions -> Nat] /\ sent \in [Sessions -> Nat]
  /\ up \in [Sessions -> Seq(Nat)] /\ ran \in [Sessions -> Seq(Nat)]
  /\ down \in [Sessions -> Seq(BOOLEAN)]

(* A session has sent nothing before it talks, and nothing is on the way   *)
(* unless it does.                                                         *)
Phase(k) ==
  /\ at[k] \in {"none", "connect", "proxy", "reply"} => sent[k] = 0
  /\ at[k] # "talk" => /\ up[k] = <<>> /\ ran[k] = <<>> /\ down[k] = <<>>
                       /\ k \notin percent

(* Lines are sent, arrive and run in the order of the file. *)
InOrder(r, u) ==
  /\ \A i, j \in 1..Len(r) : i < j => r[i] < r[j]
  /\ \A i, j \in 1..Len(u) : i < j => u[i] < u[j]
  /\ \A i \in 1..Len(r), j \in 1..Len(u) : r[i] < u[j]

(* Between the console and a shell whose only "%" are its prompts there is *)
(* one line, or one prompt, or neither: each line is answered by one.      *)
OneTurn(r, u, d, n) ==
  /\ Len(u) <= 1 /\ Len(r) + Len(u) = n
  /\ \A i \in 1..Len(u) : u[i] = Len(r) + i
  /\ \A i, j \in 1..Len(d) : d[i] = TRUE /\ d[j] = TRUE => i = j
  /\ \A i \in 1..Len(d) : d[i] = TRUE => u = <<>>

TakesTurns(k) ==
  k \notin percent =>
    /\ \A i \in 1..Len(ran[k]) : ran[k][i] = i
    /\ shell[k] = "up" => OneTurn(ran[k], up[k], down[k], sent[k])

SessionOK(k) ==
  /\ sent[k] \in 0..file[k] /\ up[k] \in Seq(1..sent[k]) /\ ran[k] \in Seq(1..sent[k])
  /\ Phase(k) /\ InOrder(ran[k], up[k]) /\ TakesTurns(k)

SessionsInv == BatchTypeOK /\ Tables /\ \A k \in Sessions : SessionOK(k)

(* A session belongs to a console page, or to one that was one, and a page *)
(* that no browser asked for is not served.                                *)
Asked ==
  /\ \A k \in Sessions : at[k] # "none" => page[k[1]] \in {"console", "over"}
  /\ \A b \in Pages : browser[b] = "away" => page[b] = "none"

(* The Linux server has a page's socket only until it has forked.          *)
ServerFds ==
  version = "linux" => \A d \in fds : d[1] = "server" => d[2] = server

PagesInv ==
  /\ PagesTypeOK /\ zombies \subseteq Pages /\ sigchld \in BOOLEAN
  /\ Asked /\ ServerFds /\ OwnConnection

IInv == SessionsInv /\ PagesInv

-----------------------------------------------------------------------------
(* Sequences. *)

LEMMA NotLast ==
  ASSUME NEW n \in Nat, NEW j \in 1..(n + 1), j # n + 1
  PROVE  j \in 1..n
OBVIOUS

LEMMA Dropped ==
  ASSUME NEW S, NEW s \in Seq(S), NEW n \in 0..Len(s)
  PROVE  LET t == SubSeq(s, n + 1, Len(s))
         IN /\ t \in Seq(S) /\ Len(t) = Len(s) - n
            /\ Len(s) \in Nat /\ n \in Nat
            /\ \A i \in 1..Len(t) : i \in Nat /\ n + i \in 1..Len(s) /\ t[i] = s[n + i]
OBVIOUS

LEMMA NotLastTwo ==
  ASSUME NEW n \in Nat, NEW j \in 1..(n + 2), j # n + 1, j # n + 2
  PROVE  j \in 1..n
OBVIOUS

LEMMA OnlyOne ==
  ASSUME NEW l \in Nat, NEW n \in Nat, 1 <= n, n <= l, l <= 1
  PROVE  l = 1 /\ n = 1
OBVIOUS

(* What is left when the front of a sequence is taken off. *)
LEMMA DroppedOrder ==
  ASSUME NEW r \in Seq(Nat), NEW u \in Seq(Nat), InOrder(r, u),
         NEW n \in 0..Len(u)
  PROVE  InOrder(r, SubSeq(u, n + 1, Len(u)))
<1> DEFINE t == SubSeq(u, n + 1, Len(u))
<1>1. /\ t \in Seq(Nat) /\ Len(t) = Len(u) - n /\ Len(u) \in Nat /\ n \in Nat
      /\ \A i \in 1..Len(t) : i \in Nat /\ n + i \in 1..Len(u) /\ t[i] = u[n + i]
  BY Dropped
<1> HIDE DEF t
<1>2. \A i, j \in 1..Len(t) : i < j => t[i] < t[j]
  <2> SUFFICES ASSUME NEW i \in 1..Len(t), NEW j \in 1..Len(t), i < j
               PROVE  t[i] < t[j]
    OBVIOUS
  <2>1. n + i \in 1..Len(u) /\ t[i] = u[n + i] /\ i \in Nat
    BY <1>1
  <2>2. n + j \in 1..Len(u) /\ t[j] = u[n + j] /\ j \in Nat
    BY <1>1
  <2>3. n + i < n + j
    BY <1>1, <2>1, <2>2
  <2> QED
    BY <2>1, <2>2, <2>3 DEF InOrder
<1>3. \A i \in 1..Len(r), j \in 1..Len(t) : r[i] < t[j]
  BY <1>1 DEF InOrder
<1> QED
  BY <1>2, <1>3 DEF InOrder, t

LEMMA SentOrder ==
  ASSUME NEW n \in Nat, NEW r \in Seq(1..n), NEW u \in Seq(1..n), InOrder(r, u)
  PROVE  InOrder(r, Append(u, n + 1))
<1> DEFINE t == Append(u, n + 1)
<1>1. /\ Len(t) = Len(u) + 1 /\ Len(u) \in Nat /\ t[Len(u) + 1] = n + 1
      /\ \A i \in 1..Len(u) : t[i] = u[i] /\ u[i] \in 1..n
      /\ \A i \in 1..Len(r) : r[i] \in 1..n
  OBVIOUS
<1> HIDE DEF t
<1>2. \A i, j \in 1..Len(t) : i < j => t[i] < t[j]
  <2> SUFFICES ASSUME NEW i \in 1..Len(t), NEW j \in 1..Len(t), i < j
               PROVE  t[i] < t[j]
    OBVIOUS
  <2>0. i \in 1..Len(u) /\ t[i] = u[i] /\ u[i] \in 1..n
    <3>1. i \in Nat /\ j \in Nat /\ j <= Len(u) + 1 /\ 1 <= i
      BY <1>1
    <3> QED
      BY <1>1, <3>1
  <2>1. CASE j = Len(u) + 1
    BY <1>1, <2>0, <2>1
  <2>2. CASE j # Len(u) + 1
    <3>0. j \in 1..(Len(u) + 1) /\ Len(u) \in Nat
      BY <1>1
    <3>1. j \in 1..Len(u)
      BY <3>0, <2>2
    <3>2. t[j] = u[j]
      BY <1>1, <3>1
    <3> QED
      BY <2>0, <3>1, <3>2 DEF InOrder
  <2> QED
    BY <2>1, <2>2
<1>3. \A i \in 1..Len(r), j \in 1..Len(t) : r[i] < t[j]
  <2> SUFFICES ASSUME NEW i \in 1..Len(r), NEW j \in 1..Len(t)
               PROVE  r[i] < t[j]
    OBVIOUS
  <2>1. CASE j = Len(u) + 1
    BY <1>1, <2>1
  <2>2. CASE j # Len(u) + 1
    <3>0. j \in 1..(Len(u) + 1) /\ Len(u) \in Nat
      BY <1>1
    <3>1. j \in 1..Len(u)
      BY <3>0, <2>2
    <3>2. t[j] = u[j]
      BY <1>1, <3>1
    <3> QED
      BY <3>1, <3>2 DEF InOrder
  <2> QED
    BY <2>1, <2>2
<1> QED
  BY <1>2, <1>3 DEF InOrder, t

(* The shell runs the first line that has arrived and drops n lines. *)
LEMMA RunOrder ==
  ASSUME NEW r \in Seq(Nat), NEW u \in Seq(Nat), InOrder(r, u),
         NEW n \in 1..Len(u)
  PROVE  InOrder(Append(r, Head(u)), SubSeq(u, n + 1, Len(u)))
<1> DEFINE t == SubSeq(u, n + 1, Len(u))
           q == Append(r, Head(u))
<1>1. /\ t \in Seq(Nat) /\ Len(t) = Len(u) - n /\ Len(u) \in Nat /\ n \in Nat
      /\ \A i \in 1..Len(t) : i \in Nat /\ n + i \in 1..Len(u) /\ t[i] = u[n + i]
  BY Dropped
<1>2. InOrder(r, t)
  BY DroppedOrder
<1>3. 1 \in 1..Len(u) /\ Head(u) = u[1] /\ u[1] \in Nat
  BY <1>1
<1>4. /\ Len(q) = Len(r) + 1 /\ Len(r) \in Nat /\ q[Len(r) + 1] = u[1]
      /\ \A i \in 1..Len(r) : q[i] = r[i] /\ r[i] \in Nat
  BY <1>3
<1> HIDE DEF t, q
<1>5. \A i, j \in 1..Len(q) : i < j => q[i] < q[j]
  <2> SUFFICES ASSUME NEW i \in 1..Len(q), NEW j \in 1..Len(q), i < j
               PROVE  q[i] < q[j]
    OBVIOUS
  <2>1. i \in 1..Len(r) /\ q[i] = r[i]
    BY <1>4
  <2>2. CASE j = Len(r) + 1
    BY <1>3, <1>4, <2>1, <2>2 DEF InOrder
  <2>3. CASE j # Len(r) + 1
    <3>0. j \in 1..(Len(r) + 1) /\ Len(r) \in Nat
      BY <1>4
    <3>1. j \in 1..Len(r)
      BY <3>0, <2>3, NotLast
    <3>2. q[j] = r[j]
      BY <1>4, <3>1
    <3> QED
      BY <2>1, <3>1, <3>2 DEF InOrder
  <2> QED
    BY <2>2, <2>3
<1>6. \A i \in 1..Len(q), j \in 1..Len(t) : q[i] < t[j]
  <2> SUFFICES ASSUME NEW i \in 1..Len(q), NEW j \in 1..Len(t)
               PROVE  q[i] < t[j]
    OBVIOUS
  <2>1. CASE i = Len(r) + 1
    <3>1. u[1] < u[n + j]
      BY <1>1, <1>3 DEF InOrder
    <3> QED
      BY <1>1, <1>4, <2>1, <3>1
  <2>2. CASE i # Len(r) + 1
    BY <1>2, <1>4, <2>2 DEF InOrder
  <2> QED
    BY <2>1, <2>2
<1> QED
  BY <1>2, <1>5, <1>6 DEF InOrder, t, q

-----------------------------------------------------------------------------
(* The sessions. *)

(* Nothing of session k changes. *)
Same(k) ==
  /\ at'[k] = at[k] /\ file'[k] = file[k] /\ sent'[k] = sent[k]
  /\ up'[k] = up[k] /\ down'[k] = down[k] /\ ran'[k] = ran[k]
  /\ shell'[k] = shell[k] /\ (k \in percent' <=> k \in percent)

LEMMA SameOK ==
  ASSUME NEW k \in Sessions, SessionOK(k), Same(k)
  PROVE  SessionOK(k)'
BY DEF SessionOK, Same, Phase, TakesTurns

Shapes ==
  /\ version \in Versions
  /\ at \in [Sessions -> {"none", "connect", "proxy", "reply", "talk", "over"}]
  /\ shell \in [Sessions -> {"none", "up", "gone"}]
  /\ percent \subseteq Sessions /\ swallowed \subseteq Sessions
  /\ Tables

LEMMA SessionsParts == SessionsInv <=> Shapes /\ \A k \in Sessions : SessionOK(k)
<1>1. SessionsInv => Shapes /\ \A k \in Sessions : SessionOK(k)
  BY DEF SessionsInv, BatchTypeOK, Shapes
<1>2. ASSUME Shapes, \A k \in Sessions : SessionOK(k)
      PROVE  SessionsInv
  <2>1. \A k \in Sessions :
          /\ file[k] \in Nat /\ sent[k] \in 0..file[k]
          /\ up[k] \in Seq(1..sent[k]) /\ ran[k] \in Seq(1..sent[k])
          /\ down[k] \in Seq(BOOLEAN)
    BY <1>2 DEF Shapes, Tables, SessionOK
  <2> QED
    BY <1>2, <2>1 DEF SessionsInv, BatchTypeOK, Shapes
<1> QED
  BY <1>1, <1>2

LEMMA SessionsPartsNext ==
  SessionsInv' <=> Shapes' /\ \A k \in Sessions : SessionOK(k)'
<1>1. (SessionsInv <=> Shapes /\ \A k \in Sessions : SessionOK(k))'
  BY SessionsParts, PTL
<1> QED
  BY <1>1

LEMMA EmptyOK ==
  ASSUME NEW n \in Nat
  PROVE  /\ <<>> \in Seq(1..n) /\ <<>> \in Seq(Nat) /\ <<>> \in Seq(BOOLEAN)
         /\ Len(<<>>) = 0
         /\ InOrder(<<>>, <<>>)
         /\ \A d \in Seq(BOOLEAN) : Len(d) = 0 => OneTurn(<<>>, <<>>, d, 0)
<1>1. /\ <<>> \in Seq(1..n) /\ <<>> \in Seq(Nat) /\ <<>> \in Seq(BOOLEAN)
      /\ Len(<<>>) = 0
  OBVIOUS
<1> QED
  BY <1>1 DEF InOrder, OneTurn

(* A session that is closed, or was never started. *)
LEMMA CloseOK ==
  ASSUME SessionsInv, NEW K \in SUBSET Sessions, Close(K), NEW k \in Sessions
  PROVE  SessionOK(k)'
<1>1. SessionOK(k) /\ Tables
  BY SessionsParts DEF Shapes
<1>2. CASE k \in K /\ at[k] # "none"
  <2>1. /\ at'[k] = "over" /\ up'[k] = <<>> /\ ran'[k] = <<>> /\ down'[k] = <<>>
        /\ shell'[k] = "none" /\ k \notin percent'
        /\ sent'[k] = sent[k] /\ file'[k] = file[k]
    BY <1>2 DEF Close, plan
  <2>2. sent[k] \in Nat
    BY <1>1 DEF Tables
  <2>3. Phase(k)' /\ TakesTurns(k)'
    BY <2>1, <2>2, EmptyOK DEF Phase, TakesTurns
  <2> QED
    BY <1>1, <2>1, <2>2, <2>3, EmptyOK DEF SessionOK
<1>3. CASE ~(k \in K /\ at[k] # "none")
  <2>1. k \in percent' <=> k \in percent
    BY <1>1, <1>3 DEF Close, SessionOK, Phase
  <2>2. Same(k)
    BY <1>3, <2>1 DEF Close, Same, plan
  <2> QED
    BY <1>1, <2>2, SameOK
<1> QED
  BY <1>2, <1>3

LEMMA CloseStep ==
  ASSUME SessionsInv, NEW K \in SUBSET Sessions, Close(K)
  PROVE  SessionsInv'
<1>1. Shapes
  BY SessionsParts
<1>2. Shapes'
  <2>1. <<>> \in Seq(Nat) /\ <<>> \in Seq(BOOLEAN)
    OBVIOUS
  <2>2. /\ up' \in [Sessions -> Seq(Nat)] /\ ran' \in [Sessions -> Seq(Nat)]
        /\ down' \in [Sessions -> Seq(BOOLEAN)]
    BY <1>1, <2>1 DEF Close, Shapes, Tables
  <2>3. Tables'
    BY <1>1, <2>2 DEF Close, Shapes, Tables, plan
  <2>4. /\ at' \in [Sessions -> {"none", "connect", "proxy", "reply", "talk", "over"}]
        /\ shell' \in [Sessions -> {"none", "up", "gone"}]
    BY <1>1 DEF Close, Shapes
  <2> QED
    BY <1>1, <2>3, <2>4 DEF Close, Shapes, plan
<1>3. \A k \in Sessions : SessionOK(k)'
  BY CloseOK
<1> QED
  BY <1>2, <1>3, SessionsPartsNext

(* What a step of one session has to show. *)
LEMMA OneSession ==
  ASSUME SessionsInv, Shapes', NEW s \in Sessions, SessionOK(s)',
         \A k \in Sessions : k # s => Same(k)
  PROVE  SessionsInv'
<1>1. \A k \in Sessions : SessionOK(k)
  BY SessionsParts
<1>2. \A k \in Sessions : SessionOK(k)'
  BY <1>1, SameOK
<1> QED
  BY <1>2, SessionsPartsNext

(* The first pieces of output have at most one prompt. *)
LEMMA TalkStep ==
  ASSUME SessionsInv, NEW k \in Sessions, at[k] \in {"connect", "reply"},
         NEW p \in Seq(BOOLEAN),
         \A i, j \in 1..Len(p) : p[i] = TRUE /\ p[j] = TRUE => i = j,
         Talk(k, p), swallowed' \subseteq Sessions
  PROVE  SessionsInv'
<1>1. Shapes /\ SessionOK(k)
  BY SessionsParts
<1>2. /\ at' = [at EXCEPT ![k] = "talk"] /\ shell' = [shell EXCEPT ![k] = "up"]
      /\ down' = [down EXCEPT ![k] = p]
      /\ UNCHANGED <<version, file, sent, up, ran, percent>>
  BY DEF Talk, Moved, plan
<1>3. Shapes'
  <2>1. down' \in [Sessions -> Seq(BOOLEAN)]
    BY <1>1, <1>2 DEF Shapes, Tables
  <2>2. Tables'
    BY <1>1, <1>2, <2>1 DEF Shapes, Tables
  <2>3. /\ at' \in [Sessions -> {"none", "connect", "proxy", "reply", "talk", "over"}]
        /\ shell' \in [Sessions -> {"none", "up", "gone"}]
    BY <1>1, <1>2 DEF Shapes
  <2> QED
    BY <1>1, <1>2, <2>2, <2>3 DEF Shapes
<1>4. /\ at'[k] = "talk" /\ shell'[k] = "up" /\ down'[k] = p
      /\ \A j \in Sessions : j # k => Same(j)
  BY <1>1, <1>2 DEF Shapes, Tables, Same
<1>5. up[k] = <<>> /\ ran[k] = <<>> /\ sent[k] = 0
  BY <1>1 DEF SessionOK, Phase
<1>6. OneTurn(<<>>, <<>>, p, 0)
  BY EmptyOK DEF OneTurn
<1>7. SessionOK(k)'
  <2>1. TakesTurns(k)'
    BY <1>2, <1>4, <1>5, <1>6, EmptyOK DEF TakesTurns
  <2>2. Phase(k)'
    BY <1>4 DEF Phase
  <2> QED
    BY <1>1, <1>2, <2>1, <2>2 DEF SessionOK
<1> QED
  BY <1>3, <1>4, <1>7, OneSession

LEMMA ConnectedStep ==
  ASSUME SessionsInv, NEW k \in Sessions, Connected(k) \/ Granted(k)
  PROVE  SessionsInv'
<1>1. /\ Greeting \in Seq(BOOLEAN) /\ Len(Greeting) = 2
      /\ Greeting[1] = FALSE /\ Greeting[2] = TRUE
  BY DEF Greeting
<1>2. swallowed \subseteq Sessions
  BY SessionsParts DEF Shapes
<1>3. CASE Connected(k)
  <2>1. \A i, j \in 1..Len(Greeting) :
          Greeting[i] = TRUE /\ Greeting[j] = TRUE => i = j
    BY <1>1
  <2> QED
    BY <1>1, <1>2, <1>3, <2>1, TalkStep DEF Connected
<1>4. CASE Granted(k)
  <2>1. PICK n \in 0..Len(Greeting) :
          /\ Talk(k, SubSeq(Greeting, n + 1, Len(Greeting)))
          /\ swallowed' = IF n = Len(Greeting) THEN swallowed \cup {k}
                          ELSE swallowed
    BY <1>4 DEF Granted
  <2> DEFINE p == SubSeq(Greeting, n + 1, Len(Greeting))
  <2>2. /\ p \in Seq(BOOLEAN) /\ Len(p) = Len(Greeting) - n /\ n \in Nat
        /\ \A i \in 1..Len(p) : i \in Nat /\ n + i \in 1..Len(Greeting)
                                /\ p[i] = Greeting[n + i]
    BY <1>1, Dropped
  <2>3. Talk(k, p)
    BY <2>1
  <2> HIDE DEF p
  <2>4. \A i \in 1..Len(p) : p[i] = TRUE => n + i = 2
    BY <1>1, <2>2
  <2>5. \A i, j \in 1..Len(p) : p[i] = TRUE /\ p[j] = TRUE => i = j
    BY <2>2, <2>4
  <2> QED
    BY <1>2, <1>4, <2>1, <2>2, <2>3, <2>5, TalkStep DEF Granted
<1> QED
  BY <1>3, <1>4

LEMMA RequestSentStep ==
  ASSUME SessionsInv, NEW k \in Sessions, RequestSent(k)
  PROVE  SessionsInv'
<1>1. Shapes /\ SessionOK(k)
  BY SessionsParts
<1>2. /\ at[k] = "proxy" /\ at' = [at EXCEPT ![k] = "reply"]
      /\ UNCHANGED <<version, file, sent, up, down, shell, ran, percent, swallowed>>
  BY DEF RequestSent, Moved, plan, wire
<1>3. Shapes'
  BY <1>1, <1>2 DEF Shapes, Tables
<1>4. at'[k] = "reply" /\ \A j \in Sessions : j # k => Same(j)
  BY <1>1, <1>2 DEF Shapes, Same
<1>5. SessionOK(k)'
  BY <1>1, <1>2, <1>4 DEF SessionOK, Phase, TakesTurns
<1> QED
  BY <1>3, <1>4, <1>5, OneSession

(* The shell's host resets the connection. *)
LEMMA ShellDiesStep ==
  ASSUME SessionsInv, NEW k \in Sessions, ShellDies(k)
  PROVE  SessionsInv'
<1>1. Shapes /\ SessionOK(k) /\ at[k] = "talk"
  BY SessionsParts DEF ShellDies
<1>2. PICK n \in 0..Len(down[k]) : down' = [down EXCEPT ![k] = SubSeq(@, 1, n)]
  BY DEF ShellDies
<1>3. /\ shell' = [shell EXCEPT ![k] = "gone"] /\ up' = [up EXCEPT ![k] = <<>>]
      /\ UNCHANGED <<version, file, at, sent, ran, percent, swallowed>>
  BY DEF ShellDies, plan
<1>4. SubSeq(down[k], 1, n) \in Seq(BOOLEAN)
  <2>1. down[k] \in Seq(BOOLEAN)
    BY <1>1 DEF Shapes, Tables
  <2> QED
    BY <2>1
<1>5. Shapes'
  <2>1. down' \in [Sessions -> Seq(BOOLEAN)]
    BY <1>1, <1>2, <1>4 DEF Shapes, Tables
  <2>2. up' \in [Sessions -> Seq(Nat)]
    BY <1>1, <1>3, EmptyOK DEF Shapes, Tables
  <2>3. Tables'
    BY <1>1, <1>3, <2>1, <2>2 DEF Shapes, Tables
  <2>4. shell' \in [Sessions -> {"none", "up", "gone"}]
    BY <1>1, <1>3 DEF Shapes
  <2> QED
    BY <1>1, <1>3, <2>3, <2>4 DEF Shapes
<1>6. /\ shell'[k] = "gone" /\ up'[k] = <<>>
      /\ \A j \in Sessions : j # k => Same(j)
  BY <1>1, <1>2, <1>3 DEF Shapes, Tables, Same
<1>7. SessionOK(k)'
  <2>1. sent[k] \in Nat /\ <<>> \in Seq(1..sent[k])
    BY <1>1, EmptyOK DEF Shapes, Tables
  <2>2. InOrder(ran[k], <<>>)
    BY <1>1 DEF SessionOK, InOrder
  <2>3. TakesTurns(k)'
    BY <1>1, <1>3, <1>6 DEF SessionOK, TakesTurns
  <2>4. Phase(k)'
    BY <1>1, <1>3 DEF Phase
  <2> QED
    BY <1>1, <1>3, <1>6, <2>1, <2>2, <2>3, <2>4 DEF SessionOK
<1> QED
  BY <1>5, <1>6, <1>7, OneSession

LEMMA Wider ==
  ASSUME NEW n \in Nat, NEW s \in Seq(1..n)
  PROVE  s \in Seq(1..(n + 1)) /\ s \in Seq(Nat)
<1>1. 1..n \subseteq 1..(n + 1) /\ 1..n \subseteq Nat
  OBVIOUS
<1> QED
  BY <1>1

(* Output is read. *)
LEMMA ReadTurn ==
  ASSUME NEW r \in Seq(Nat), NEW u \in Seq(Nat), NEW d \in Seq(BOOLEAN), NEW m,
         OneTurn(r, u, d, m), NEW n \in 1..Len(d)
  PROVE  LET rest == SubSeq(d, n + 1, Len(d))
         IN /\ OneTurn(r, u, rest, m)
            /\ (\E i \in 1..n : d[i] = TRUE) =>
                 u = <<>> /\ \A i \in 1..Len(rest) : rest[i] # TRUE
<1> DEFINE rest == SubSeq(d, n + 1, Len(d))
<1>1. /\ Len(d) \in Nat /\ n \in Nat
      /\ \A i \in 1..Len(rest) : i \in Nat /\ n + i \in 1..Len(d)
                                 /\ rest[i] = d[n + i]
  BY Dropped
<1> HIDE DEF rest
<1>2. \A i, j \in 1..Len(rest) : rest[i] = TRUE /\ rest[j] = TRUE => i = j
  <2> SUFFICES ASSUME NEW i \in 1..Len(rest), NEW j \in 1..Len(rest),
                      rest[i] = TRUE, rest[j] = TRUE
               PROVE  i = j
    OBVIOUS
  <2>1. n + i \in 1..Len(d) /\ d[n + i] = TRUE /\ i \in Nat
    BY <1>1
  <2>2. n + j \in 1..Len(d) /\ d[n + j] = TRUE /\ j \in Nat
    BY <1>1
  <2>3. n + i = n + j
    BY <2>1, <2>2 DEF OneTurn
  <2> QED
    BY <1>1, <2>1, <2>2, <2>3
<1>3. \A i \in 1..Len(rest) : rest[i] = TRUE => u = <<>>
  BY <1>1 DEF OneTurn
<1>4. ASSUME NEW i \in 1..n, d[i] = TRUE
      PROVE  u = <<>> /\ \A j \in 1..Len(rest) : rest[j] # TRUE
  <2>1. i \in 1..Len(d) /\ i \in Nat /\ i <= n
    BY <1>1
  <2>2. u = <<>>
    BY <1>4, <2>1 DEF OneTurn
  <2>3. ASSUME NEW j \in 1..Len(rest), rest[j] = TRUE
        PROVE  FALSE
    <3>1. n + j \in 1..Len(d) /\ d[n + j] = TRUE /\ j \in Nat /\ 1 <= j
      BY <1>1, <2>3
    <3>2. n + j = i
      BY <1>4, <2>1, <3>1 DEF OneTurn
    <3> QED
      BY <1>1, <2>1, <3>1, <3>2
  <2> QED
    BY <2>2, <2>3
<1> QED
  BY <1>2, <1>3, <1>4 DEF OneTurn, rest

(* A prompt is answered with the next line. *)
LEMMA AnswerTurn ==
  ASSUME NEW r \in Seq(Nat), NEW m \in Nat, NEW d \in Seq(BOOLEAN),
         OneTurn(r, <<>>, d, m), \A i \in 1..Len(d) : d[i] # TRUE
  PROVE  OneTurn(r, Append(<<>>, m + 1), d, m + 1)
<1> DEFINE u == Append(<<>>, m + 1)
<1>1. Len(u) = 1 /\ u[1] = m + 1 /\ Len(<<>>) = 0 /\ Len(r) \in Nat
  OBVIOUS
<1> HIDE DEF u
<1>2. Len(r) = m
  BY <1>1 DEF OneTurn
<1>3. \A i \in 1..Len(u) : u[i] = Len(r) + i
  <2> SUFFICES ASSUME NEW i \in 1..1
               PROVE  u[i] = m + i
    BY <1>1, <1>2
  <2>1. i = 1
    OBVIOUS
  <2> QED
    BY <1>1, <2>1
<1>4. Len(u) <= 1 /\ Len(r) + Len(u) = m + 1
  BY <1>1, <1>2
<1>5. OneTurn(r, u, d, m + 1)
  BY <1>3, <1>4 DEF OneTurn
<1> QED
  BY <1>5 DEF u

LEMMA ReceiveStep ==
  ASSUME SessionsInv, NEW k \in Sessions, Receive(k)
  PROVE  SessionsInv'
<1>1. Shapes /\ SessionOK(k) /\ at[k] = "talk"
  BY SessionsParts DEF Receive
<1>2. PICK n \in 1..Len(down[k]) :
        /\ down' = [down EXCEPT ![k] = SubSeq(@, n + 1, Len(@))]
        /\ IF Prompted(k, n) THEN SendLine(k) ELSE UNCHANGED <<sent, up>>
  BY DEF Receive
<1>3. UNCHANGED <<version, file, at, shell, ran, percent, swallowed>>
  BY DEF Receive, plan
<1> DEFINE r == ran[k]
           u == up[k]
           d == down[k]
           m == sent[k]
           rest == SubSeq(d, n + 1, Len(d))
<1>4. /\ file[k] \in Nat /\ m \in Nat /\ d \in Seq(BOOLEAN)
      /\ u \in Seq(1..m) /\ r \in Seq(1..m)
      /\ u \in Seq(Nat) /\ r \in Seq(Nat) /\ m <= file[k]
      /\ InOrder(r, u) /\ TakesTurns(k)
  BY <1>1 DEF Shapes, Tables, SessionOK
<1>5. rest \in Seq(BOOLEAN) /\ Len(d) \in Nat
  BY <1>4, Dropped
<1>6. down' = [down EXCEPT ![k] = rest]
  BY <1>2
<1>7. Prompted(k, n) => m < file[k] /\ \E i \in 1..n : d[i] = TRUE
  <2>1. ToSet(SubSeq(d, 1, n)) = {d[i] : i \in 1..n}
    <3>1. Len(SubSeq(d, 1, n)) = n /\ \A i \in 1..n : SubSeq(d, 1, n)[i] = d[i]
      BY <1>4, <1>5
    <3>2. DOMAIN SubSeq(d, 1, n) = 1..n
      BY <1>4, <1>5
    <3> QED
      BY <3>1, <3>2 DEF ToSet
  <2> QED
    BY <2>1 DEF Prompted
<1> DEFINE sends == Prompted(k, n)
<1>8. /\ sends => sent' = [sent EXCEPT ![k] = m + 1]
      /\ sends /\ shell[k] = "up" => up' = [up EXCEPT ![k] = Append(u, m + 1)]
      /\ ~(sends /\ shell[k] = "up") => up' = up
      /\ ~sends => sent' = sent
  BY <1>2 DEF SendLine
<1> HIDE DEF rest, sends
<1>9. Append(u, m + 1) \in Seq(Nat) /\ Append(u, m + 1) \in Seq(1..(m + 1))
      /\ m + 1 \in Nat
  BY <1>4, Wider
<1>10. Shapes'
  <2>1. down' \in [Sessions -> Seq(BOOLEAN)]
    BY <1>1, <1>5, <1>6 DEF Shapes, Tables
  <2>2. sent' \in [Sessions -> Nat]
    BY <1>1, <1>8, <1>9 DEF Shapes, Tables
  <2>3. up' \in [Sessions -> Seq(Nat)]
    <3>1. up \in [Sessions -> Seq(Nat)]
      BY <1>1 DEF Shapes, Tables
    <3> HIDE DEF u, m
    <3> QED
      BY <1>8, <1>9, <3>1
  <2> QED
    BY <1>1, <1>3, <2>1, <2>2, <2>3 DEF Shapes, Tables
<1>11. /\ down'[k] = rest
       /\ sent'[k] = IF sends THEN m + 1 ELSE m
       /\ up'[k] = IF sends /\ shell[k] = "up" THEN Append(u, m + 1) ELSE u
       /\ \A j \in Sessions : j # k => Same(j)
  <2>1. /\ down \in [Sessions -> Seq(BOOLEAN)] /\ sent \in [Sessions -> Nat]
        /\ up \in [Sessions -> Seq(Nat)]
    BY <1>1 DEF Shapes, Tables
  <2>2. down'[k] = rest /\ \A j \in Sessions : j # k => down'[j] = down[j]
    BY <1>6, <2>1
  <2>3. /\ sent'[k] = IF sends THEN m + 1 ELSE m
        /\ \A j \in Sessions : j # k => sent'[j] = sent[j]
    BY <1>8, <2>1
  <2>4. /\ up'[k] = IF sends /\ shell[k] = "up" THEN Append(u, m + 1) ELSE u
        /\ \A j \in Sessions : j # k => up'[j] = up[j]
    BY <1>8, <2>1
  <2> QED
    BY <1>3, <2>2, <2>3, <2>4 DEF Same
<1> HIDE DEF r, u, d, m
<1>12. shell[k] = "up" /\ k \notin percent =>
         /\ OneTurn(r, u, rest, m)
         /\ sends => u = <<>> /\ \A i \in 1..Len(rest) : rest[i] # TRUE
  <2> SUFFICES ASSUME shell[k] = "up", k \notin percent
               PROVE  /\ OneTurn(r, u, rest, m)
                      /\ sends => u = <<>> /\ \A i \in 1..Len(rest) : rest[i] # TRUE
    OBVIOUS
  <2>1. OneTurn(r, u, d, m)
    BY <1>4 DEF TakesTurns, r, u, d, m
  <2>2. n \in 1..Len(d)
    BY DEF d
  <2> QED
    BY <1>4, <1>7, <2>1, <2>2, ReadTurn DEF rest, sends
<1>13. TakesTurns(k)'
  <2> SUFFICES ASSUME k \notin percent
               PROVE  /\ \A i \in 1..Len(r) : r[i] = i
                      /\ shell[k] = "up" => OneTurn(r, up'[k], rest, sent'[k])
    BY <1>3, <1>11 DEF TakesTurns, r
  <2>1. \A i \in 1..Len(r) : r[i] = i
    BY <1>4 DEF TakesTurns, r
  <2>2. shell[k] = "up" /\ sends => OneTurn(r, Append(u, m + 1), rest, m + 1)
    BY <1>4, <1>5, <1>12, AnswerTurn
  <2> QED
    BY <1>11, <1>12, <2>1, <2>2
<1>14. SessionOK(k)'
  <2>1. CASE sends
    <3>1. sent'[k] \in 0..file[k]
      BY <1>4, <1>7, <1>11, <2>1 DEF sends
    <3>2. up'[k] \in Seq(1..sent'[k]) /\ r \in Seq(1..sent'[k])
      BY <1>4, <1>9, <1>11, <2>1, Wider
    <3>3. InOrder(r, up'[k])
      BY <1>4, <1>11, SentOrder
    <3>4. Phase(k)'
      BY <1>1, <1>3 DEF Phase
    <3> QED
      BY <1>3, <1>13, <3>1, <3>2, <3>3, <3>4 DEF SessionOK, r
  <2>2. CASE ~sends
    <3>1. sent'[k] = sent[k] /\ up'[k] = up[k]
      BY <1>11, <2>2 DEF m, u
    <3>2. Phase(k)'
      BY <1>1, <1>3 DEF Phase
    <3> QED
      BY <1>1, <1>3, <1>13, <3>1, <3>2 DEF SessionOK
  <2> QED
    BY <2>1, <2>2
<1> QED
  BY <1>10, <1>11, <1>14, OneSession

(* A shell that has run its line owes a prompt. *)
LEMMA RunTurn ==
  ASSUME NEW r \in Seq(Nat), NEW u \in Seq(Nat), NEW d \in Seq(BOOLEAN),
         NEW m \in Nat, OneTurn(r, u, d, m), NEW n \in 1..Len(u)
  PROVE  /\ Head(u) = Len(r) + 1
         /\ OneTurn(Append(r, Head(u)), SubSeq(u, n + 1, Len(u)),
                    d \o <<FALSE, TRUE>>, m)
<1>1. Len(u) = 1 /\ n = 1 /\ Len(u) \in Nat /\ Len(r) \in Nat /\ Len(d) \in Nat
  <2>1. Len(u) \in Nat /\ Len(r) \in Nat /\ Len(d) \in Nat /\ Len(<<>>) = 0
    OBVIOUS
  <2>2. Len(u) = 1 /\ n = 1
    <3>1. Len(u) <= 1 /\ 1 <= n /\ n <= Len(u) /\ n \in Nat
      BY <2>1 DEF OneTurn
    <3> QED
      BY <2>1, <3>1, OnlyOne
  <2> QED
    BY <2>1, <2>2
<1> DEFINE t == SubSeq(u, n + 1, Len(u))
           q == Append(r, Head(u))
           e == d \o <<FALSE, TRUE>>
<1>2. Head(u) = u[1] /\ u[1] = Len(r) + 1
  BY <1>1 DEF OneTurn
<1>3. Len(t) = 0 /\ Len(q) = Len(r) + 1
  <2>1. Len(t) = Len(u) - n
    BY <1>1, Dropped
  <2> QED
    BY <1>1, <2>1
<1>4. /\ Len(e) = Len(d) + 2 /\ \A i \in 1..Len(d) : e[i] = d[i]
      /\ e[Len(d) + 1] = FALSE
  <2>1. <<FALSE, TRUE>> \in Seq(BOOLEAN) /\ Len(<<FALSE, TRUE>>) = 2
    OBVIOUS
  <2> QED
    BY <1>1, <2>1
<1> HIDE DEF t, q, e
<1>5. \A i \in 1..Len(e) : e[i] = TRUE => i = Len(d) + 2
  <2> SUFFICES ASSUME NEW i \in 1..Len(e), e[i] = TRUE, i # Len(d) + 2
               PROVE  FALSE
    OBVIOUS
  <2>1. CASE i = Len(d) + 1
    BY <1>4, <2>1
  <2>2. CASE i # Len(d) + 1
    <3>0. i \in 1..(Len(d) + 2)
      BY <1>4
    <3>1. i \in 1..Len(d)
      BY <1>1, <2>2, <3>0, NotLastTwo
    <3>2. d[i] = TRUE
      BY <1>4, <3>1
    <3>3. u = <<>>
      BY <3>1, <3>2 DEF OneTurn
    <3>4. Len(u) = 0
      BY <3>3
    <3> QED
      BY <1>1, <3>4
  <2> QED
    BY <2>1, <2>2
<1>6. \A i, j \in 1..Len(e) : e[i] = TRUE /\ e[j] = TRUE => i = j
  BY <1>5
<1>7. t = <<>>
  BY <1>1, <1>3, Dropped, EmptySeq DEF t
<1>8. OneTurn(q, t, e, m)
  <2>1. Len(q) + Len(t) = m /\ Len(t) <= 1
    BY <1>1, <1>3 DEF OneTurn
  <2>2. \A i \in 1..Len(t) : t[i] = Len(q) + i
    BY <1>3
  <2> QED
    BY <1>6, <1>7, <2>1, <2>2 DEF OneTurn
<1> QED
  BY <1>2, <1>8 DEF t, q, e

LEMMA ShellRunsStep ==
  ASSUME SessionsInv, NEW k \in Sessions, ShellRuns(k)
  PROVE  SessionsInv'
<1>1. Shapes /\ SessionOK(k) /\ at[k] = "talk" /\ shell[k] = "up"
  BY SessionsParts DEF ShellRuns
<1> DEFINE r == ran[k]
           u == up[k]
           d == down[k]
           m == sent[k]
<1>2. PICK n \in 1..Len(u) : up' = [up EXCEPT ![k] = SubSeq(@, n + 1, Len(@))]
  BY DEF ShellRuns
<1>3. UNCHANGED <<version, file, at, sent, swallowed>>
      /\ ran' = [ran EXCEPT ![k] = Append(@, Head(u))]
  BY DEF ShellRuns, plan
<1> DEFINE t == SubSeq(u, n + 1, Len(u))
           q == Append(r, Head(u))
<1>4. /\ m \in Nat /\ d \in Seq(BOOLEAN)
      /\ u \in Seq(1..m) /\ r \in Seq(1..m) /\ u \in Seq(Nat) /\ r \in Seq(Nat)
      /\ InOrder(r, u) /\ TakesTurns(k)
  BY <1>1 DEF Shapes, Tables, SessionOK
<1>5. t \in Seq(1..m) /\ q \in Seq(1..m) /\ t \in Seq(Nat) /\ q \in Seq(Nat)
  <2>1. u # <<>> /\ Head(u) \in 1..m
    BY <1>4
  <2>2. q \in Seq(1..m)
    BY <1>4, <2>1
  <2>3. t \in Seq(1..m)
    <3>1. n \in 0..Len(u)
      BY <1>4
    <3> QED
      BY <1>4, <3>1, Dropped
  <2> QED
    BY <1>4, <2>2, <2>3, Wider
<1>6. InOrder(q, t)
  BY <1>4, RunOrder
<1>7. /\ up' = [up EXCEPT ![k] = t] /\ ran' = [ran EXCEPT ![k] = q]
  BY <1>2, <1>3
<1>8. k \notin percent => /\ Head(u) = Len(r) + 1
                          /\ \A i \in 1..Len(q) : q[i] = i
                          /\ OneTurn(q, t, d \o <<FALSE, TRUE>>, m)
  <2> SUFFICES ASSUME k \notin percent
               PROVE  /\ Head(u) = Len(r) + 1
                      /\ \A i \in 1..Len(q) : q[i] = i
                      /\ OneTurn(q, t, d \o <<FALSE, TRUE>>, m)
    OBVIOUS
  <2>1. (\A i \in 1..Len(r) : r[i] = i) /\ OneTurn(r, u, d, m)
    BY <1>1, <1>4 DEF TakesTurns
  <2>2. Head(u) = Len(r) + 1 /\ OneTurn(q, t, d \o <<FALSE, TRUE>>, m)
    BY <1>4, <2>1, RunTurn
  <2>3. /\ Len(q) = Len(r) + 1 /\ Len(r) \in Nat
        /\ q[Len(r) + 1] = Head(u) /\ \A i \in 1..Len(r) : q[i] = r[i]
    BY <1>4
  <2> HIDE DEF q
  <2>4. ASSUME NEW i \in 1..Len(q)
        PROVE  q[i] = i
    <3>1. CASE i = Len(r) + 1
      BY <2>2, <2>3, <3>1
    <3>2. CASE i # Len(r) + 1
      <4>1. i \in 1..Len(r)
        BY <2>3, <3>2, NotLast
      <4> QED
        BY <2>1, <2>3, <4>1
    <3> QED
      BY <3>1, <3>2
  <2> QED
    BY <2>2, <2>4
<1> HIDE DEF t, q, r, u, d, m
<1>9. PICK odd \in BOOLEAN :
        \/ /\ shell' = [shell EXCEPT ![k] = "gone"]
           /\ UNCHANGED <<down, percent>>
        \/ /\ down' = [down EXCEPT ![k] = d \o <<odd, TRUE>>]
           /\ percent' = IF odd THEN percent \cup {k} ELSE percent
           /\ UNCHANGED shell
  BY DEF ShellRuns, d
<1>10. d \o <<odd, TRUE>> \in Seq(BOOLEAN)
  <2>1. <<odd, TRUE>> \in Seq(BOOLEAN)
    OBVIOUS
  <2> QED
    BY <1>4, <2>1
<1>11. Shapes'
  <2>1. down' \in [Sessions -> Seq(BOOLEAN)]
    BY <1>1, <1>9, <1>10 DEF Shapes, Tables
  <2>2. up' \in [Sessions -> Seq(Nat)] /\ ran' \in [Sessions -> Seq(Nat)]
    BY <1>1, <1>5, <1>7 DEF Shapes, Tables
  <2>3. shell' \in [Sessions -> {"none", "up", "gone"}]
    BY <1>1, <1>9 DEF Shapes
  <2>4. percent' \subseteq Sessions
    BY <1>1, <1>9 DEF Shapes
  <2> QED
    BY <1>1, <1>3, <2>1, <2>2, <2>3, <2>4 DEF Shapes, Tables
<1>12. /\ up'[k] = t /\ ran'[k] = q
       /\ \A j \in Sessions : j # k => Same(j)
  <2>1. /\ up \in [Sessions -> Seq(Nat)] /\ ran \in [Sessions -> Seq(Nat)]
        /\ down \in [Sessions -> Seq(BOOLEAN)]
        /\ shell \in [Sessions -> {"none", "up", "gone"}]
    BY <1>1 DEF Shapes, Tables
  <2>2. \A j \in Sessions : j # k => /\ down'[j] = down[j] /\ shell'[j] = shell[j]
                                     /\ j \in percent' <=> j \in percent
    BY <1>9, <2>1
  <2> QED
    BY <1>3, <1>7, <2>1, <2>2 DEF Same
<1>13. TakesTurns(k)'
  <2> SUFFICES ASSUME k \notin percent'
               PROVE  /\ \A i \in 1..Len(q) : q[i] = i
                      /\ shell'[k] = "up" => OneTurn(q, t, down'[k], m)
    BY <1>3, <1>12 DEF TakesTurns, m
  <2>1. k \notin percent
    BY <1>9
  <2>2. CASE shell' = [shell EXCEPT ![k] = "gone"]
    <3>1. shell'[k] = "gone"
      BY <1>1, <2>2 DEF Shapes
    <3> QED
      BY <1>8, <2>1, <3>1
  <2>3. CASE /\ down' = [down EXCEPT ![k] = d \o <<odd, TRUE>>]
             /\ percent' = IF odd THEN percent \cup {k} ELSE percent
    <3>1. odd = FALSE
      BY <2>3
    <3>2. down'[k] = d \o <<FALSE, TRUE>>
      BY <1>1, <2>3, <3>1 DEF Shapes, Tables
    <3> QED
      BY <1>8, <2>1, <3>2
  <2> QED
    BY <1>9, <2>2, <2>3
<1>14. SessionOK(k)'
  <2>1. Phase(k)'
    BY <1>1, <1>3 DEF Phase
  <2>2. sent'[k] = m /\ file'[k] = file[k]
    BY <1>3 DEF m
  <2> QED
    BY <1>1, <1>5, <1>6, <1>12, <1>13, <2>1, <2>2 DEF SessionOK, m
<1> QED
  BY <1>11, <1>12, <1>14, OneSession

(* A page starts its sessions, all of them for the first time. *)
LEMMA StartStep ==
  ASSUME SessionsInv, NEW b \in Pages, NEW form \in Forms, StartSessions(b, form),
         \A k \in Sessions : k[1] = b => at[k] = "none"
  PROVE  /\ SessionsInv'
         /\ \A k \in Sessions : k[1] # b => at'[k] = at[k]
<1> DEFINE new == {b} \X DOMAIN form
<1>1. Shapes /\ \A k \in Sessions : SessionOK(k)
  BY SessionsParts
<1>2. PICK proxied \in BOOLEAN, unresolved \in SUBSET DOMAIN form :
        /\ file' = [k \in Sessions |-> IF k \in new THEN form[k[2]] ELSE file[k]]
        /\ at' = [k \in Sessions |->
                    IF k \notin new THEN at[k]
                    ELSE IF k[2] \in unresolved THEN "over"
                    ELSE IF proxied THEN "proxy" ELSE "connect"]
        /\ UNCHANGED <<version, sent, wire, swallowed>>
  BY DEF StartSessions
<1>3. UNCHANGED <<version, sent, up, down, shell, ran, percent, swallowed>>
  BY <1>2 DEF wire
<1>4. \A k \in new : k[1] = b /\ form[k[2]] \in Nat
  BY BatchAssumption
<1> HIDE DEF new
<1>5. /\ at' \in [Sessions -> {"none", "connect", "proxy", "reply", "talk", "over"}]
      /\ file' \in [Sessions -> Nat]
  BY <1>1, <1>2, <1>4 DEF Shapes, Tables
<1>6. Shapes'
  BY <1>1, <1>3, <1>5 DEF Shapes, Tables
<1>7. ASSUME NEW k \in Sessions
      PROVE  SessionOK(k)'
  <2>1. CASE k \notin new
    <3>1. Same(k)
      BY <1>2, <1>3, <2>1 DEF Same
    <3> QED
      BY <1>1, <3>1, SameOK
  <2>2. CASE k \in new
    <3>1. /\ at[k] = "none" /\ at'[k] \in {"over", "proxy", "connect"}
          /\ file'[k] \in Nat
      BY <1>2, <1>4, <1>5, <2>2
    <3>2. SessionOK(k) /\ sent[k] = 0
      BY <1>1, <3>1 DEF SessionOK, Phase
    <3>3. Phase(k)' /\ TakesTurns(k)'
      BY <1>3, <3>1, <3>2 DEF SessionOK, Phase, TakesTurns
    <3> QED
      BY <1>3, <3>1, <3>2, <3>3 DEF SessionOK
  <2> QED
    BY <2>1, <2>2
<1>8. \A k \in Sessions : k[1] # b => at'[k] = at[k]
  BY <1>2, <1>4
<1> QED
  BY <1>6, <1>7, <1>8, SessionsPartsNext

-----------------------------------------------------------------------------
(* The pages. *)

Statuses == {"none", "queued", "reading", "panel", "console", "over"}

LEMMA SessionsSame ==
  ASSUME SessionsInv, UNCHANGED session
  PROVE  SessionsInv'
<1>1. Shapes /\ \A k \in Sessions : SessionOK(k)
  BY SessionsParts
<1>2. Shapes'
  BY <1>1 DEF session, Shapes, Tables
<1>3. \A k \in Sessions : Same(k)
  BY DEF session, Same
<1> QED
  BY <1>1, <1>2, <1>3, SameOK, SessionsPartsNext

(* No step of a session, and no end of one, starts another. *)
LEMMA CloseStarts ==
  ASSUME SessionsInv, NEW K \in SUBSET Sessions, Close(K)
  PROVE  \A k \in Sessions : at'[k] # "none" => at[k] # "none"
BY DEF Close

LEMMA TurnFacts ==
  ASSUME PagesInv, NEW b \in Pages, NEW p \in Statuses, Turn(b, p),
         page[b] # "none", browser' = browser,
         p \in {"console", "over"} \/ page[b] \notin {"console", "over"},
         \A k \in Sessions :
           at'[k] # "none" => at[k] # "none" \/ (k[1] = b /\ p = "console")
  PROVE  /\ Asked'
         /\ page' \in [Pages -> Statuses] /\ request' \in [Pages -> Requests]
         /\ browser' \in [Pages -> {"away", "here", "gone"}]
<1>1. /\ page \in [Pages -> Statuses] /\ request \in [Pages -> Requests]
      /\ browser \in [Pages -> {"away", "here", "gone"}] /\ "" \in Requests
  BY DEF PagesInv, PagesTypeOK, Statuses, Requests
<1>2. /\ page' = [page EXCEPT ![b] = p]
      /\ request' = request \/ request' = [request EXCEPT ![b] = ""]
  BY DEF Turn
<1>3. page' \in [Pages -> Statuses] /\ request' \in [Pages -> Requests]
  BY <1>1, <1>2
<1>4. page'[b] = p /\ \A c \in Pages : c # b => page'[c] = page[c]
  BY <1>1, <1>2
<1>5. \A k \in Sessions : k[1] \in Pages
  BY DEF Sessions
<1>6. \A k \in Sessions : at'[k] # "none" => page'[k[1]] \in {"console", "over"}
  <2> SUFFICES ASSUME NEW k \in Sessions, at'[k] # "none"
               PROVE  page'[k[1]] \in {"console", "over"}
    OBVIOUS
  <2>1. CASE at[k] # "none"
    <3>1. page[k[1]] \in {"console", "over"}
      BY <2>1 DEF PagesInv, Asked
    <3> QED
      BY <1>4, <1>5, <3>1
  <2>2. CASE k[1] = b /\ p = "console"
    BY <1>4, <2>2
  <2> QED
    BY <2>1, <2>2
<1>7. \A c \in Pages : browser'[c] = "away" => page'[c] = "none"
  BY <1>4 DEF PagesInv, Asked
<1> QED
  BY <1>1, <1>3, <1>6, <1>7 DEF Asked

LEMMA TurnNoStart ==
  ASSUME PagesInv, NEW b \in Pages, NEW p \in {"reading", "panel", "over"},
         Turn(b, p), page[b] \notin {"none", "console", "over"} \/ p = "over",
         page[b] # "none", browser' = browser,
         \A k \in Sessions : at'[k] # "none" => at[k] # "none"
  PROVE  /\ Asked'
         /\ page' \in [Pages -> Statuses] /\ request' \in [Pages -> Requests]
         /\ browser' \in [Pages -> {"away", "here", "gone"}]
<1>1. p \in Statuses
  BY DEF Statuses
<1>2. \A k \in Sessions :
        at'[k] # "none" => at[k] # "none" \/ (k[1] = b /\ p = "console")
  OBVIOUS
<1>3. p \in {"console", "over"} \/ page[b] \notin {"console", "over"}
  OBVIOUS
<1> QED
  BY <1>1, <1>2, <1>3, TurnFacts

LEMMA PagesParts ==
  ASSUME page' \in [Pages -> Statuses], request' \in [Pages -> Requests],
         browser' \in [Pages -> {"away", "here", "gone"}],
         server' \in {"ready", "paused", "ended"} \cup Pages,
         fds' \subseteq (Pages \cup {"server"}) \X Pages,
         zombies' \subseteq Pages, sigchld' \in BOOLEAN,
         Asked', ServerFds', OwnConnection'
  PROVE  PagesInv'
BY DEF PagesInv, PagesTypeOK, Statuses

LEMMA PagesFacts ==
  ASSUME PagesInv
  PROVE  /\ page \in [Pages -> Statuses] /\ request \in [Pages -> Requests]
         /\ browser \in [Pages -> {"away", "here", "gone"}]
         /\ server \in {"ready", "paused", "ended"} \cup Pages
         /\ fds \subseteq (Pages \cup {"server"}) \X Pages
         /\ zombies \subseteq Pages /\ sigchld \in BOOLEAN
         /\ Asked /\ ServerFds /\ OwnConnection
BY DEF PagesInv, PagesTypeOK, Statuses

(* Fewer descriptors of the same server. *)
LEMMA FewerFds ==
  ASSUME PagesInv, fds' \subseteq fds,
         version' = version, server' = server \/ version = "windows"
  PROVE  /\ fds' \subseteq (Pages \cup {"server"}) \X Pages
         /\ ServerFds' /\ OwnConnection'
BY DEF PagesInv, PagesTypeOK, ServerFds, OwnConnection

LEMMA BrowserStep ==
  ASSUME IInv, NEW b \in Pages, Browser(b)
  PROVE  IInv'
<1>1. SessionsInv /\ PagesInv
  BY DEF IInv
<1>2. UNCHANGED <<session, server, fds, zombies, sigchld>>
  BY DEF Browser, Browse, LeavePage, children
<1>3. SessionsInv'
  BY <1>1, <1>2, SessionsSame
<1>4. /\ fds' \subseteq (Pages \cup {"server"}) \X Pages
      /\ ServerFds' /\ OwnConnection'
  BY <1>1, <1>2, FewerFds DEF session
<1>5. /\ page \in [Pages -> Statuses] /\ request \in [Pages -> Requests]
      /\ browser \in [Pages -> {"away", "here", "gone"}] /\ Asked
      /\ at' = at /\ \A k \in Sessions : k[1] \in Pages
  BY <1>1, <1>2, PagesFacts DEF session, Sessions
<1>6. /\ page' \in [Pages -> Statuses] /\ request' \in [Pages -> Requests]
      /\ browser' \in [Pages -> {"away", "here", "gone"}] /\ Asked'
  <2>1. CASE Browse(b)
    <3>1. /\ page' = [page EXCEPT ![b] = "queued"] /\ page[b] = "none"
          /\ browser' = [browser EXCEPT ![b] = "here"]
          /\ \E r \in Requests : request' = [request EXCEPT ![b] = r]
      BY <1>5, <2>1 DEF Browse, Asked
    <3>2. page' \in [Pages -> Statuses]
      BY <1>5, <3>1 DEF Statuses
    <3>3. /\ request' \in [Pages -> Requests]
          /\ browser' \in [Pages -> {"away", "here", "gone"}]
      BY <1>5, <3>1
    <3>4. Asked'
      BY <1>5, <3>1 DEF Asked
    <3> QED
      BY <3>2, <3>3, <3>4
  <2>2. CASE LeavePage(b)
    BY <1>5, <2>2 DEF LeavePage, Asked
  <2> QED
    BY <2>1, <2>2 DEF Browser
<1>7. PagesInv'
  BY <1>1, <1>2, <1>4, <1>6, PagesFacts, PagesParts
<1> QED
  BY <1>3, <1>7 DEF IInv

-----------------------------------------------------------------------------
(* The Linux server and its pages' processes. *)

LEMMA ForkStep ==
  ASSUME IInv, NEW b \in Pages, Fork(b)
  PROVE  IInv'
<1>1. SessionsInv /\ PagesInv
  BY DEF IInv
<1>2. /\ version = "linux" /\ server = "ready" /\ page[b] = "queued"
      /\ server' = b /\ Turn(b, "reading")
      /\ UNCHANGED <<session, browser, zombies, sigchld>>
  BY DEF Fork, Linux, children
<1>3. at' = at /\ version' = version
  BY <1>2 DEF session
<1>4. /\ Asked'
      /\ page' \in [Pages -> Statuses] /\ request' \in [Pages -> Requests]
      /\ browser' \in [Pages -> {"away", "here", "gone"}]
  BY <1>1, <1>2, <1>3, TurnNoStart
<1>5. /\ fds \subseteq (Pages \cup {"server"}) \X Pages
      /\ \A d \in fds : d[1] \in {d[2], "server"}
      /\ \A d \in fds : d[1] # "server"
  <2>1. \A d \in fds : d[2] # "ready"
    BY <1>1, PagesAssumption DEF PagesInv, PagesTypeOK
  <2> QED
    BY <1>1, <1>2, <2>1 DEF PagesInv, PagesTypeOK, OwnConnection, ServerFds
<1> DEFINE open == fds \cup {<<"server", b>>}
<1>6. fds' = open \cup {<<b, d[2]>> : d \in {e \in open : e[1] = "server"}}
  BY DEF Fork
<1>7. \A d \in open : d[1] = "server" => d = <<"server", b>>
  BY <1>5
<1>8. fds' = open \cup {<<b, b>>}
  <2>1. <<"server", b>> \in {e \in open : e[1] = "server"}
    OBVIOUS
  <2>2. {e \in open : e[1] = "server"} = {<<"server", b>>}
    BY <1>7, <2>1
  <2>3. {<<b, d[2]>> : d \in {<<"server", b>>}} = {<<b, b>>}
    OBVIOUS
  <2> QED
    BY <1>6, <2>2, <2>3
<1> HIDE DEF open
<1>9. /\ fds' \subseteq (Pages \cup {"server"}) \X Pages /\ OwnConnection'
      /\ ServerFds'
  <2>1. b # "server"
    BY PagesAssumption
  <2>2. \A d \in fds' : d \in fds \/ d = <<"server", b>> \/ d = <<b, b>>
    BY <1>8 DEF open
  <2> QED
    BY <1>2, <1>5, <2>1, <2>2 DEF OwnConnection, ServerFds
<1>10. SessionsInv'
  BY <1>1, <1>2, SessionsSame
<1>11. PagesInv'
  BY <1>1, <1>2, <1>4, <1>9, PagesFacts, PagesParts
<1> QED
  BY <1>10, <1>11 DEF IInv

LEMMA ServerStep ==
  ASSUME IInv, Server
  PROVE  IInv'
<1>1. SessionsInv /\ PagesInv
  BY DEF IInv
<1>2. ASSUME NEW b \in Pages, ForkFails(b)
      PROVE  IInv'
  <2>1. /\ page[b] = "queued" /\ Turn(b, "over") /\ at' = at /\ version' = version
        /\ UNCHANGED <<session, server, browser, fds, zombies, sigchld>>
    BY <1>2 DEF ForkFails, children, session
  <2>2. /\ Asked'
        /\ page' \in [Pages -> Statuses] /\ request' \in [Pages -> Requests]
        /\ browser' \in [Pages -> {"away", "here", "gone"}]
    BY <1>1, <2>1, TurnNoStart
  <2>3. /\ fds' \subseteq (Pages \cup {"server"}) \X Pages
        /\ ServerFds' /\ OwnConnection'
    BY <1>1, <2>1, FewerFds
  <2>4. PagesInv'
    BY <1>1, <2>1, <2>2, <2>3, PagesFacts, PagesParts
  <2> QED
    BY <1>1, <2>1, <2>4, SessionsSame DEF IInv
<1>3. CASE ParentCloses
  <2>1. /\ server \in Pages /\ server' = "ready" /\ fds' = fds \ {<<"server", server>>}
        /\ UNCHANGED <<session, browser, request, page, zombies, sigchld>>
        /\ UNCHANGED <<at, version>>
    BY <1>3 DEF ParentCloses, children, session
  <2>2. /\ fds \subseteq (Pages \cup {"server"}) \X Pages /\ ServerFds
        /\ OwnConnection
    BY <1>1, PagesFacts
  <2>3. ServerFds'
    <3>1. ASSUME version = "linux", NEW d \in fds', d[1] = "server"
          PROVE  FALSE
      <4>1. d \in fds /\ d # <<"server", server>> /\ d[2] = server
        BY <2>1, <2>2, <3>1 DEF ServerFds
      <4>2. d = <<d[1], d[2]>>
        BY <2>2, <4>1
      <4> QED
        BY <3>1, <4>1, <4>2
    <3> QED
      BY <2>1, <3>1 DEF ServerFds
  <2>4. OwnConnection' /\ fds' \subseteq (Pages \cup {"server"}) \X Pages
    BY <2>1, <2>2 DEF OwnConnection
  <2>5. Asked'
    BY <1>1, <2>1, PagesFacts DEF Asked
  <2>6. PagesInv'
    BY <1>1, <2>1, <2>3, <2>4, <2>5, PagesFacts, PagesParts
  <2> QED
    BY <1>1, <2>1, <2>6, SessionsSame DEF IInv
<1>4. CASE Reap
  <2>1. /\ zombies' = {} /\ sigchld' = FALSE
        /\ UNCHANGED <<session, server, browser, request, page, fds>>
        /\ UNCHANGED <<at, version>>
    BY <1>4 DEF Reap, pages, session
  <2>2. PagesInv'
    BY <1>1, <2>1 DEF PagesInv, PagesTypeOK, Asked, ServerFds, OwnConnection
  <2> QED
    BY <1>1, <2>1, <2>2, SessionsSame DEF IInv
<1> QED
  BY <1>2, <1>3, <1>4, ForkStep DEF Server

(* A page's process ends. *)
LEMMA ProcessEndsStep ==
  ASSUME IInv, NEW b \in Pages, ProcessEnds(b), page[b] # "none"
  PROVE  IInv'
<1>1. SessionsInv /\ PagesInv
  BY DEF IInv
<1>2. /\ Turn(b, "over") /\ Close(Of(b)) /\ fds' \subseteq fds
      /\ zombies' = zombies \cup {b} /\ sigchld' = TRUE
      /\ UNCHANGED <<server, browser, version>>
  BY DEF ProcessEnds, Close, plan
<1>3. Of(b) \in SUBSET Sessions
  BY DEF Of
<1>4. SessionsInv' /\ \A k \in Sessions : at'[k] # "none" => at[k] # "none"
  BY <1>1, <1>2, <1>3, CloseStep, CloseStarts
<1>5. /\ Asked'
      /\ page' \in [Pages -> Statuses] /\ request' \in [Pages -> Requests]
      /\ browser' \in [Pages -> {"away", "here", "gone"}]
  BY <1>1, <1>2, <1>4, TurnNoStart
<1>6. /\ fds' \subseteq (Pages \cup {"server"}) \X Pages
      /\ ServerFds' /\ OwnConnection'
  BY <1>1, <1>2, FewerFds
<1>7. PagesInv'
  BY <1>1, <1>2, <1>5, <1>6, PagesFacts, PagesParts
<1> QED
  BY <1>4, <1>7 DEF IInv

(* A page that is read for becomes a panel or a console. *)
LEMMA ConsoleStarts ==
  ASSUME IInv, NEW b \in Pages, page[b] = "reading", Turn(b, "console"),
         \E form \in Forms : StartSessions(b, form),
         UNCHANGED <<server, browser, fds, zombies, sigchld>>
  PROVE  IInv'
<1>1. SessionsInv /\ PagesInv
  BY DEF IInv
<1>2. \A k \in Sessions : k[1] = b => at[k] = "none"
  BY <1>1 DEF PagesInv, Asked
<1>3. SessionsInv' /\ \A k \in Sessions : k[1] # b => at'[k] = at[k]
  BY <1>1, <1>2, StartStep
<1>4. version' = version
  BY DEF StartSessions
<1>5. \A k \in Sessions : at'[k] # "none" => at[k] # "none" \/ k[1] = b
  BY <1>3
<1>6. /\ Asked'
      /\ page' \in [Pages -> Statuses] /\ request' \in [Pages -> Requests]
      /\ browser' \in [Pages -> {"away", "here", "gone"}]
  BY <1>1, <1>5, TurnFacts DEF Statuses
<1>7. /\ fds' \subseteq (Pages \cup {"server"}) \X Pages
      /\ ServerFds' /\ OwnConnection'
  BY <1>1, <1>4, FewerFds
<1>8. PagesInv'
  BY <1>1, <1>6, <1>7, PagesFacts, PagesParts
<1> QED
  BY <1>3, <1>8 DEF IInv

LEMMA PageProcessStep ==
  ASSUME IInv, NEW b \in Pages, PageProcess(b)
  PROVE  IInv'
<1>1. SessionsInv /\ PagesInv
  BY DEF IInv
<1>2. CASE NoRequest(b) \/ ExecFails(b) \/ PanelEnds(b) \/ ConsoleEnds(b)
           \/ ConsoleDies(b)
  BY <1>2, ProcessEndsStep
     DEF NoRequest, ExecFails, Exec, PanelEnds, ConsoleEnds, ConsoleDies
<1>3. CASE RunPanel(b)
  <2>1. /\ page[b] = "reading" /\ Turn(b, "panel") /\ at' = at /\ version' = version
        /\ UNCHANGED <<session, server, browser, fds, zombies, sigchld>>
    BY <1>3 DEF RunPanel, Exec, children, session
  <2>2. /\ Asked'
        /\ page' \in [Pages -> Statuses] /\ request' \in [Pages -> Requests]
        /\ browser' \in [Pages -> {"away", "here", "gone"}]
    BY <1>1, <2>1, TurnNoStart
  <2>3. /\ fds' \subseteq (Pages \cup {"server"}) \X Pages
        /\ ServerFds' /\ OwnConnection'
    BY <1>1, <2>1, FewerFds
  <2>4. PagesInv'
    BY <1>1, <2>1, <2>2, <2>3, PagesFacts, PagesParts
  <2> QED
    BY <1>1, <2>1, <2>4, SessionsSame DEF IInv
<1>4. CASE RunConsole(b)
  BY <1>4, ConsoleStarts DEF RunConsole, Exec, children
<1> QED
  BY <1>2, <1>3, <1>4 DEF PageProcess

-----------------------------------------------------------------------------
(* The Windows server. *)

LEMMA ThrowsStep ==
  ASSUME IInv, Windows, Throws, UNCHANGED children
  PROVE  IInv'
<1>1. SessionsInv /\ PagesInv
  BY DEF IInv
<1>2. /\ version = "windows" /\ server' = "paused"
      /\ UNCHANGED <<session, browser, fds, zombies, sigchld>>
      /\ UNCHANGED <<at, version>>
  BY DEF Windows, Throws, children, session
<1>3. /\ page \in [Pages -> Statuses] /\ request \in [Pages -> Requests]
      /\ browser \in [Pages -> {"away", "here", "gone"}] /\ Asked
      /\ \A k \in Sessions : k[1] \in Pages
  BY <1>1, PagesFacts DEF Sessions
<1>4. /\ \A b \in Pages : page'[b] = IF page[b] = "queued" THEN "over" ELSE page[b]
      /\ page' \in [Pages -> Statuses]
  BY <1>3 DEF Throws, Statuses
<1>5. request' \in [Pages -> Requests]
  <2>1. "" \in Requests
    BY DEF Requests
  <2> QED
    BY <1>3, <2>1 DEF Throws
<1>6. Asked'
  BY <1>2, <1>3, <1>4 DEF Asked
<1>7. /\ fds' \subseteq (Pages \cup {"server"}) \X Pages
      /\ ServerFds' /\ OwnConnection'
  BY <1>1, <1>2, FewerFds
<1>8. PagesInv'
  BY <1>1, <1>2, <1>3, <1>4, <1>5, <1>6, <1>7, PagesFacts, PagesParts
<1> QED
  BY <1>1, <1>2, <1>8, SessionsSame DEF IInv

LEMMA ReleaseStep ==
  ASSUME IInv, NEW b \in Pages, Release(b), page[b] # "none", UNCHANGED children
  PROVE  IInv'
<1>1. SessionsInv /\ PagesInv
  BY DEF IInv
<1>2. /\ Turn(b, "over") /\ fds' \subseteq fds /\ at' = at /\ version' = version
      /\ UNCHANGED <<session, server, browser, zombies, sigchld>>
  BY DEF Release, children, session
<1>3. /\ Asked'
      /\ page' \in [Pages -> Statuses] /\ request' \in [Pages -> Requests]
      /\ browser' \in [Pages -> {"away", "here", "gone"}]
  BY <1>1, <1>2, TurnNoStart
<1>4. /\ fds' \subseteq (Pages \cup {"server"}) \X Pages
      /\ ServerFds' /\ OwnConnection'
  BY <1>1, <1>2, FewerFds
<1>5. PagesInv'
  BY <1>1, <1>2, <1>3, <1>4, PagesFacts, PagesParts
<1> QED
  BY <1>1, <1>2, <1>5, SessionsSame DEF IInv

LEMMA AcceptStep ==
  ASSUME IInv, NEW b \in Pages, Windows, page[b] = "queued", Turn(b, "reading"),
         fds' = fds \cup {<<"server", b>>},
         UNCHANGED <<session, server, browser>>, UNCHANGED children
  PROVE  IInv'
<1>1. SessionsInv /\ PagesInv
  BY DEF IInv
<1>2. /\ version = "windows" /\ at' = at /\ version' = version
      /\ UNCHANGED <<zombies, sigchld>>
  BY DEF Windows, children, session
<1>3. /\ Asked'
      /\ page' \in [Pages -> Statuses] /\ request' \in [Pages -> Requests]
      /\ browser' \in [Pages -> {"away", "here", "gone"}]
  BY <1>1, <1>2, TurnNoStart
<1>4. fds' \subseteq (Pages \cup {"server"}) \X Pages
  BY <1>1, PagesFacts
<1>5. OwnConnection'
  BY <1>1 DEF PagesInv, OwnConnection
<1>6. ServerFds'
  BY <1>2 DEF ServerFds
<1>7. PagesInv'
  BY <1>1, <1>2, <1>3, <1>4, <1>5, <1>6, PagesFacts, PagesParts
<1> QED
  BY <1>1, <1>7, SessionsSame DEF IInv

LEMMA HandlerStep ==
  ASSUME IInv, NEW b \in Pages, WindowsServer(b)
  PROVE  IInv'
<1>1. UNCHANGED children
  BY DEF WindowsServer
<1>2. CASE WinAccept(b)
  BY <1>1, <1>2, AcceptStep, ThrowsStep DEF WinAccept, Runs
<1>3. CASE WinNoRequest(b) \/ NotFound(b) \/ WinPanel(b) \/ WinConsoleEnds(b)
  BY <1>1, <1>3, ReleaseStep
     DEF WinNoRequest, NotFound, WinPanel, WinConsoleEnds, WinServe
<1>4. CASE WinConsole(b)
  BY <1>1, <1>4, ConsoleStarts DEF WinConsole, WinServe, children
<1>5. CASE WriteFails(b) \/ WinThrows(b)
  BY <1>1, <1>5, ThrowsStep DEF WriteFails, WinThrows, WinServe, Runs
<1> QED
  BY <1>2, <1>3, <1>4, <1>5 DEF WindowsServer, Handler

LEMMA KeyStep ==
  ASSUME IInv, KeyPressed, UNCHANGED children
  PROVE  IInv'
<1>1. SessionsInv /\ PagesInv
  BY DEF IInv
<1>2. /\ server' = "ended" /\ fds' = {} /\ Close(Sessions)
      /\ UNCHANGED <<browser, version, zombies, sigchld>>
  BY DEF KeyPressed, Close, plan, children
<1>3. SessionsInv' /\ \A k \in Sessions : at'[k] # "none" => at[k] # "none"
  BY <1>1, <1>2, CloseStep, CloseStarts
<1>4. /\ page \in [Pages -> Statuses]
      /\ browser \in [Pages -> {"away", "here", "gone"}] /\ Asked
      /\ \A k \in Sessions : k[1] \in Pages
  BY <1>1, PagesFacts DEF Sessions
<1>5. /\ \A b \in Pages : page'[b] = IF page[b] = "none" THEN "none" ELSE "over"
      /\ page' \in [Pages -> Statuses]
  BY DEF KeyPressed, Statuses
<1>6. request' \in [Pages -> Requests]
  BY DEF KeyPressed, Requests
<1>7. Asked'
  BY <1>2, <1>3, <1>4, <1>5 DEF Asked
<1>8. ServerFds' /\ OwnConnection' /\ fds' \subseteq (Pages \cup {"server"}) \X Pages
  BY <1>2 DEF ServerFds, OwnConnection
<1>9. PagesInv'
  BY <1>1, <1>2, <1>4, <1>5, <1>6, <1>7, <1>8, PagesFacts, PagesParts
<1> QED
  BY <1>3, <1>9 DEF IInv

-----------------------------------------------------------------------------
(* Every step. *)

LEMMA PagesSame ==
  ASSUME PagesInv, UNCHANGED <<pages, children, version>>,
         \A k \in Sessions : at'[k] # "none" => at[k] # "none"
  PROVE  PagesInv'
BY DEF PagesInv, PagesTypeOK, Asked, ServerFds, OwnConnection, pages, children

LEMMA SessionStep ==
  ASSUME IInv, NEW k \in Sessions, Session(k) \/ Answers(k) \/ Resets(k)
  PROVE  IInv'
<1>1. SessionsInv /\ PagesInv /\ Shapes
  BY SessionsParts DEF IInv
<1>2. UNCHANGED pages /\ UNCHANGED children
  BY DEF Session, Answers, Resets
<1>3. ASSUME Close({k})
      PROVE  SessionsInv' /\ version' = version
             /\ \A j \in Sessions : at'[j] # "none" => at[j] # "none"
  <2>1. {k} \in SUBSET Sessions
    OBVIOUS
  <2> QED
    BY <1>1, <1>3, <2>1, CloseStep, CloseStarts DEF Close, plan
<1>4. CASE ConnectFails(k) \/ Refused(k) \/ ReceiveEnds(k)
  <2>1. Close({k})
    BY <1>4 DEF ConnectFails, Refused, ReceiveEnds
  <2> QED
    BY <1>1, <1>2, <1>3, <2>1, PagesSame DEF IInv
<1>5. ASSUME at[k] # "none", NEW a, Moved(k, a), version' = version
      PROVE  PagesInv'
  <2>1. \A j \in Sessions : at'[j] # "none" => at[j] # "none"
    BY <1>1, <1>5 DEF Shapes, Moved
  <2> QED
    BY <1>1, <1>2, <1>5, <2>1, PagesSame
<1>6. CASE Connected(k) \/ Granted(k)
  <2>1. at[k] # "none" /\ Moved(k, "talk") /\ version' = version
    BY <1>6 DEF Connected, Granted, Talk, plan
  <2> QED
    BY <1>1, <1>5, <1>6, <2>1, ConnectedStep DEF IInv
<1>7. CASE RequestSent(k)
  <2>1. at[k] # "none" /\ Moved(k, "reply") /\ version' = version
    BY <1>7 DEF RequestSent, plan
  <2> QED
    BY <1>1, <1>5, <1>7, <2>1, RequestSentStep DEF IInv
<1>8. CASE Receive(k) \/ ShellRuns(k) \/ ShellDies(k)
  <2>1. at' = at /\ version' = version
    BY <1>8 DEF Receive, ShellRuns, ShellDies, plan
  <2>2. PagesInv'
    BY <1>1, <1>2, <2>1, PagesSame
  <2> QED
    BY <1>1, <1>8, <2>2, ReceiveStep, ShellRunsStep, ShellDiesStep DEF IInv
<1> QED
  BY <1>4, <1>6, <1>7, <1>8 DEF Session, Answers, Resets

LEMMA InitInv == Init => IInv
<1> SUFFICES ASSUME Init
             PROVE  IInv
  OBVIOUS
<1>1. /\ version \in Versions
      /\ at = [k \in Sessions |-> "none"] /\ shell = [k \in Sessions |-> "none"]
      /\ file = [k \in Sessions |-> 0] /\ sent = [k \in Sessions |-> 0]
      /\ up = [k \in Sessions |-> <<>>] /\ down = [k \in Sessions |-> <<>>]
      /\ ran = [k \in Sessions |-> <<>>]
      /\ percent = {} /\ swallowed = {}
  BY DEF Init, BatchInit
<1>2. Shapes
  <2>1. <<>> \in Seq(Nat) /\ <<>> \in Seq(BOOLEAN)
    OBVIOUS
  <2>2. Tables
    BY <1>1, <2>1 DEF Tables
  <2> QED
    BY <1>1, <2>2 DEF Shapes
<1>3. ASSUME NEW k \in Sessions
      PROVE  SessionOK(k)
  <2>1. /\ at[k] = "none" /\ shell[k] = "none" /\ file[k] = 0 /\ sent[k] = 0
        /\ up[k] = <<>> /\ down[k] = <<>> /\ ran[k] = <<>> /\ k \notin percent
    BY <1>1
  <2>2. Phase(k) /\ TakesTurns(k)
    BY <2>1, EmptyOK DEF Phase, TakesTurns
  <2>3. <<>> \in Seq(1..0) /\ InOrder(<<>>, <<>>)
    BY EmptyOK
  <2> QED
    BY <2>1, <2>2, <2>3 DEF SessionOK
<1>4. PagesInv
  <2>1. page \in [Pages -> Statuses] /\ request \in [Pages -> Requests]
    BY DEF Init, PagesInit, Statuses, Requests
  <2>2. /\ browser \in [Pages -> {"away", "here", "gone"}] /\ server = "ready"
        /\ fds = {} /\ zombies = {} /\ sigchld = FALSE
    BY DEF Init, PagesInit, HttpInit
  <2>3. PagesTypeOK
    BY <2>1, <2>2 DEF PagesTypeOK, Statuses
  <2>4. Asked
    BY <1>1 DEF Init, PagesInit, Asked
  <2> QED
    BY <2>2, <2>3, <2>4 DEF PagesInv, ServerFds, OwnConnection
<1> QED
  BY <1>2, <1>3, <1>4, SessionsParts DEF IInv

LEMMA NextInv == IInv /\ [Next]_vars => IInv'
<1> SUFFICES ASSUME IInv, [Next]_vars
             PROVE  IInv'
  OBVIOUS
<1>1. CASE Server
  BY <1>1, ServerStep
<1>2. ASSUME NEW b \in Pages, PageProcess(b) \/ WindowsServer(b) \/ Browser(b)
      PROVE  IInv'
  BY <1>2, PageProcessStep, HandlerStep, BrowserStep
<1>3. ASSUME NEW k \in Sessions, Session(k) \/ Answers(k) \/ Resets(k)
      PROVE  IInv'
  BY <1>3, SessionStep
<1>4. CASE KeyPressed /\ UNCHANGED children
  BY <1>4, KeyStep
<1>5. CASE UNCHANGED vars
  <2>1. UNCHANGED <<pages, children, version>> /\ UNCHANGED session /\ at' = at
    BY <1>5 DEF vars, session
  <2> QED
    BY <2>1, SessionsSame, PagesSame DEF IInv
<1> QED
  BY <1>1, <1>2, <1>3, <1>4, <1>5 DEF Next, System

(* The invariant holds in every state that browsers, servers, consoles and *)
(* remote shells reach.                                                    *)
THEOREM Invariance == Spec => []IInv
<1>1. Init => IInv
  BY InitInv
<1>2. IInv /\ [Next]_vars => IInv'
  BY NextInv
<1> QED
  BY <1>1, <1>2, PTL DEF Spec

(* No session of console.cpp sends a line its file does not have, and the  *)
(* tables of all components keep to their types.                           *)
THEOREM TypeCorrect == Spec => []TypeOK
<1>1. IInv => TypeOK
  BY DEF IInv, SessionsInv, PagesInv, TypeOK
<1> QED
  BY <1>1, Invariance, PTL

(* do_read of console.cpp sends the shell its file: it runs the lines in   *)
(* order and each once, all of them as long as "%" is written by prompts   *)
(* only.                                                                   *)
THEOREM FilesAreRun == Spec => []RunsTheFile
<1>1. IInv => RunsTheFile
  <2> SUFFICES ASSUME SessionsInv, NEW k \in Sessions
               PROVE  /\ \A i, j \in 1..Len(ran[k]) : i < j => ran[k][i] < ran[k][j]
                      /\ k \notin percent => \A i \in 1..Len(ran[k]) : ran[k][i] = i
    BY DEF IInv, RunsTheFile
  <2> QED
    BY DEF SessionsInv, SessionOK, InOrder, TakesTurns
<1> QED
  BY <1>1, Invariance, PTL

(* The process that http_server.cpp forks for a page has the socket of no  *)
(* other browser, however accepts, requests and ends are interleaved.      *)
THEOREM ConnectionsAreOwn == Spec => []OwnConnection
<1>1. IInv => OwnConnection
  BY DEF IInv, PagesInv
<1> QED
  BY <1>1, Invariance, PTL

-----------------------------------------------------------------------------
(* What may end a console, or the Windows server. *)

ConsoleLost(b) ==
  page[b] = "console" /\ page'[b] # "console" /\ server # "paused"
    => \/ \A k \in Of(b) : at[k] \in {"none", "over"}
       \/ browser[b] = "gone"
       \/ \E k \in Of(b) : shell[k] = "gone"

ServerLost ==
  server' = "paused" /\ server # "paused"
    => \/ \E c \in Pages : browser[c] = "gone"
       \/ \E k \in Sessions : shell[k] = "gone"

(* Another page's turn, or one of this page that is no console yet. *)
LEMMA OtherTurn ==
  ASSUME PagesInv, NEW b \in Pages, NEW p, Turn(b, p), page[b] # "console",
         NEW c \in Pages
  PROVE  ConsoleLost(c)
<1>1. page' = [page EXCEPT ![b] = p] /\ page \in [Pages -> Statuses]
  BY PagesFacts DEF Turn
<1> QED
  BY <1>1 DEF ConsoleLost

(* A console's own end. *)
LEMMA OwnTurn ==
  ASSUME PagesInv, NEW b \in Pages, NEW p, Turn(b, p),
         \/ SessionsOver(b) \/ browser[b] = "gone"
         \/ \E k \in Of(b) : shell[k] = "gone",
         NEW c \in Pages
  PROVE  ConsoleLost(c)
<1>1. page' = [page EXCEPT ![b] = p] /\ page \in [Pages -> Statuses]
  BY PagesFacts DEF Turn
<1>2. CASE c = b
  BY <1>2 DEF ConsoleLost, SessionsOver
<1>3. CASE c # b
  <2>1. page'[c] = page[c]
    BY <1>1, <1>3
  <2> QED
    BY <2>1 DEF ConsoleLost
<1> QED
  BY <1>2, <1>3

(* Handlers that throw change no page that is a console. *)
LEMMA ThrowsLoses ==
  ASSUME PagesInv, NEW b \in Pages, Throws,
         browser[b] = "gone" \/ \E k \in Of(b) : shell[k] = "gone"
  PROVE  (\A c \in Pages : ConsoleLost(c)) /\ ServerLost
<1>1. \A c \in Pages : page'[c] = IF page[c] = "queued" THEN "over" ELSE page[c]
  BY DEF Throws
<1>2. ServerLost
  BY DEF ServerLost, Of
<1> QED
  BY <1>1, <1>2 DEF ConsoleLost

LEMMA NextLoses ==
  ASSUME IInv, Next
  PROVE  (\A c \in Pages : ConsoleLost(c)) /\ ServerLost
<1>1. PagesInv
  BY DEF IInv
<1>2. ASSUME server' = server \/ server' # "paused"
      PROVE  ServerLost
  BY <1>2 DEF ServerLost
<1>3. ASSUME page' = page
      PROVE  \A c \in Pages : ConsoleLost(c)
  BY <1>3 DEF ConsoleLost
<1>4. CASE Server
  <2>1. ASSUME NEW b \in Pages, Fork(b) \/ ForkFails(b)
        PROVE  (\A c \in Pages : ConsoleLost(c)) /\ ServerLost
    <3>1. server' # "paused" \/ server' = server
      BY <2>1, PagesAssumption DEF Fork, ForkFails
    <3>2. \A c \in Pages : ConsoleLost(c)
      BY <1>1, <2>1, OtherTurn DEF Fork, ForkFails
    <3> QED
      BY <1>2, <3>1, <3>2
  <2>2. CASE ParentCloses \/ Reap
    BY <1>2, <1>3, <2>2 DEF ParentCloses, Reap, pages
  <2> QED
    BY <1>4, <2>1, <2>2 DEF Server
<1>5. ASSUME NEW b \in Pages, PageProcess(b)
      PROVE  (\A c \in Pages : ConsoleLost(c)) /\ ServerLost
  <2>1. server' = server
    BY <1>5 DEF PageProcess, NoRequest, ExecFails, RunPanel, PanelEnds, RunConsole,
                ConsoleEnds, ConsoleDies, ProcessEnds
  <2>2. CASE NoRequest(b) \/ ExecFails(b) \/ PanelEnds(b)
    <3>1. page[b] # "console" /\ Turn(b, "over")
      BY <2>2 DEF NoRequest, ExecFails, Exec, PanelEnds, ProcessEnds
    <3> QED
      BY <1>1, <1>2, <2>1, <3>1, OtherTurn
  <2>3. CASE RunPanel(b) \/ RunConsole(b)
    <3>1. page[b] # "console" /\ (Turn(b, "panel") \/ Turn(b, "console"))
      BY <2>3 DEF RunPanel, RunConsole, Exec
    <3> QED
      BY <1>1, <1>2, <2>1, <3>1, OtherTurn
  <2>4. CASE ConsoleEnds(b) \/ ConsoleDies(b)
    <3>1. /\ Turn(b, "over")
          /\ \/ SessionsOver(b) \/ browser[b] = "gone"
             \/ \E k \in Of(b) : shell[k] = "gone"
      BY <2>4 DEF ConsoleEnds, ConsoleDies, ProcessEnds, WriteThrows
    <3> QED
      BY <1>1, <1>2, <2>1, <3>1, OwnTurn
  <2> QED
    BY <1>2, <1>5, <2>1, <2>2, <2>3, <2>4 DEF PageProcess
<1>6. ASSUME NEW b \in Pages, WindowsServer(b)
      PROVE  (\A c \in Pages : ConsoleLost(c)) /\ ServerLost
  <2>1. CASE /\ WinAccept(b) \/ WriteFails(b) \/ WinThrows(b)
             /\ Throws
    <3>1. browser[b] = "gone" \/ \E k \in Of(b) : shell[k] = "gone"
      <4>1. "paused" # "ready"
        OBVIOUS
      <4>2. CASE WinAccept(b)
        BY <2>1, <4>1, <4>2 DEF WinAccept, Runs, Throws
      <4>3. CASE WriteFails(b) \/ WinThrows(b)
        BY <4>3 DEF WriteFails, WinThrows, WriteThrows
      <4> QED
        BY <2>1, <4>2, <4>3
    <3> QED
      BY <1>1, <2>1, <3>1, ThrowsLoses
  <2>2. CASE WinNoRequest(b) \/ NotFound(b) \/ WinPanel(b)
    <3>1. page[b] # "console" /\ Turn(b, "over") /\ server' = server
      BY <2>2 DEF WinNoRequest, NotFound, WinPanel, WinServe, Release
    <3> QED
      BY <1>1, <1>2, <3>1, OtherTurn
  <2>3. CASE WinConsole(b)
    <3>1. page[b] # "console" /\ Turn(b, "console") /\ server' = server
      BY <2>3 DEF WinConsole, WinServe
    <3> QED
      BY <1>1, <1>2, <3>1, OtherTurn
  <2>4. CASE WinConsoleEnds(b)
    <3>1. SessionsOver(b) /\ Turn(b, "over") /\ server' = server
      BY <2>4 DEF WinConsoleEnds, Release
    <3> QED
      BY <1>1, <1>2, <3>1, OwnTurn
  <2>5. CASE WinAccept(b) /\ ~Throws
    <3>1. page[b] # "console" /\ Turn(b, "reading") /\ server' = server
      BY <2>5 DEF WinAccept
    <3> QED
      BY <1>1, <1>2, <3>1, OtherTurn
  <2> QED
    BY <1>6, <2>1, <2>2, <2>3, <2>4, <2>5
       DEF WindowsServer, Handler, WriteFails, WinThrows
<1>7. ASSUME NEW b \in Pages, Browser(b)
      PROVE  (\A c \in Pages : ConsoleLost(c)) /\ ServerLost
  <2>1. server' = server
    BY <1>7 DEF Browser, Browse, LeavePage
  <2>2. CASE LeavePage(b)
    BY <1>2, <1>3, <2>1, <2>2 DEF LeavePage
  <2>3. CASE Browse(b)
    <3>1. page[b] = "none" /\ page' = [page EXCEPT ![b] = "queued"]
          /\ page \in [Pages -> Statuses]
      BY <1>1, <2>3, PagesFacts DEF Browse, Asked
    <3>2. \A c \in Pages : ConsoleLost(c)
      BY <3>1 DEF ConsoleLost
    <3> QED
      BY <1>2, <2>1, <3>2
  <2> QED
    BY <1>7, <2>2, <2>3 DEF Browser
<1>8. ASSUME NEW k \in Sessions, Session(k) \/ Answers(k) \/ Resets(k)
      PROVE  (\A c \in Pages : ConsoleLost(c)) /\ ServerLost
  BY <1>2, <1>3, <1>8 DEF Session, Answers, Resets, pages
<1>9. CASE KeyPressed
  BY <1>9 DEF KeyPressed, ConsoleLost, ServerLost
<1> QED
  BY <1>4, <1>5, <1>6, <1>7, <1>8, <1>9 DEF Next, System

(* A console page loses running sessions only by its own browser or shells *)
(* (the fork per page of http_server.cpp), and the one process of main.cpp *)
(* stops only when some browser or shell is gone.                          *)
THEOREM PagesAreUndisturbed == Spec => Undisturbed
<1>1. IInv /\ [Next]_vars =>
        [\A b \in Pages :
           /\ page[b] = "console" /\ page'[b] # "console" /\ server # "paused"
                => \/ \A k \in Of(b) : at[k] \in {"none", "over"}
                   \/ browser[b] = "gone"
                   \/ \E k \in Of(b) : shell[k] = "gone"
           /\ server' = "paused" /\ server # "paused"
                => \/ \E c \in Pages : browser[c] = "gone"
                   \/ \E k \in Sessions : shell[k] = "gone"]_vars
  BY NextLoses DEF ConsoleLost, ServerLost
<1> QED
  BY <1>1, Invariance, PTL DEF Spec, Undisturbed

=============================================================================
