--------------------------- MODULE RwgSingleProofs ---------------------------
(***************************************************************************)
(* TLAPS proofs about RwgSingle, for every number of users, clients and    *)
(* descriptors and every N of |N: until a line closes an end by its number *)
(* that was closed before, sockets lead to users, pipes to the users,      *)
(* lines and commands they were made for (np_single_proc.cpp,              *)
(* npshell_2.h).                                                           *)
(***************************************************************************)
EXTENDS RwgSingle, SequenceTheorems, TLAPS

-----------------------------------------------------------------------------
(* The inductive invariant: types always, the rest until a second close.   *)

Tags == (Slots \cup {0}) \X Nat
Cells(T) == [Slots -> [Slots -> T]]
Ranks == {n \in Int : n <= MaxN}
Commands ==
  [id : Slots \X Nat, in : Made \cup {0}, out : Made \cup {0}, held : SUBSET Made]

ClientTypes ==
  /\ conn \in [Clients -> {"away", "pending", "open", "gone"}]
  /\ sent \in [Clients -> BOOLEAN] /\ prompted \in [Clients -> BOOLEAN]
  /\ fd \in [Clients -> Fds \cup {0}]
  /\ srv \in {"select", "serve", "wait", "dead", "lost"} /\ todo \subseteq Fds
  /\ valid \in [Slots -> BOOLEAN] /\ sock \in [Slots -> Fds \cup {0}]
  /\ inputs \in Nat /\ ghost \in BOOLEAN /\ full \in BOOLEAN /\ twice \in BOOLEAN

PipeTypes ==
  /\ vec \in [Slots -> SUBSET [rest : Ranks, pipe : Made]]
  /\ rec \in Cells(BOOLEAN) /\ np \in Cells(Made \cup {0})
  /\ rd \subseteq Made /\ wr \subseteq Made
  /\ ends \in Seq(Fds \X Fds) /\ Len(ends) = Len(due)
  /\ count \in [Slots -> Nat] /\ due \in Seq(Tags)

Types == ClientTypes /\ PipeTypes /\ kids \subseteq Commands

(* No two open descriptors have one number. *)
Distinct(R, W, E) ==
  /\ \A p, q \in R : E[p][1] = E[q][1] => p = q
  /\ \A p, q \in W : E[p][2] = E[q][2] => p = q
  /\ \A p \in R, q \in W : E[p][1] # E[q][2]
  /\ \A c \in Clients : /\ \A p \in R : fd[c] # E[p][1]
                        /\ \A p \in W : fd[c] # E[p][2]
Numbers == Distinct(rd, wr, ends)

(* A socket belongs to one client, and until a client vanished or found no *)
(* slot every user has a client.                                           *)
Sockets ==
  /\ \A c \in Clients : conn[c] \in {"away", "pending"} => fd[c] = 0
  /\ \A c, d \in Clients : fd[c] = fd[d] /\ fd[c] # 0 => c = d
  /\ ~full /\ ~ghost =>
       \A i \in Slots : valid[i] => \E c \in Clients : fd[c] # 0 /\ fd[c] = sock[i]
Leads ==
  ~full => \A c \in Clients : fd[c] # 0 =>
     LET own == {i \in Slots : valid[i] /\ sock[i] = fd[c]}
     IN own # {} /\ (~ghost => \A i, j \in own : i = j)

(* name_pipe holds user pipes only, each in one place; a record that is    *)
(* set has one, which is open unless a user made it for itself.            *)
UserPipes ==
  /\ \A s, r \in Slots : np[s][r] # 0 => due[np[s][r]] = <<0, 0>>
  /\ \A s, r, t, u \in Slots :
       np[s][r] # 0 /\ np[s][r] = np[t][u] => s = t /\ r = u
  /\ \A s, r \in Slots : rec[s][r] =>
       /\ valid[s] /\ valid[r] /\ np[s][r] # 0
       /\ s # r => np[s][r] \in rd \cap wr

VectorsOnTime ==
  \A i \in Slots : \A e \in vec[i] : /\ due[e.pipe] = <<i, count[i] + e.rest>>
                                     /\ e.pipe \in rd \cap wr

(* What is known of the commands that run: a numbered pipe is read on its  *)
(* line; and as long as one writes into a user pipe, the server waits for  *)
(* it and nobody reads the pipe.                                           *)
CommandsOnTime ==
  \A k \in kids : k.in # 0 /\ due[k.in] # <<0, 0>> => due[k.in] = k.id
WriterAwaited ==
  \A k \in kids : k.out # 0 /\ due[k.out] = <<0, 0>> => srv \in {"wait", "dead"}
WriterAlone ==
  \A k, j \in kids : k.in # 0 /\ due[k.in] = <<0, 0>> => j.out # k.in

ClientInv == Sockets /\ Leads
TablesInv == UserPipes /\ VectorsOnTime
CommandsInv == CommandsOnTime /\ WriterAwaited /\ WriterAlone
Once == Numbers /\ ClientInv /\ TablesInv /\ CommandsInv

IInv == Types /\ (~twice => Once)

-----------------------------------------------------------------------------
(* Constants. *)

LEMMA ConstantFacts ==
  /\ QLEN \in Nat /\ MaxN \in Nat /\ MaxFd \in Nat
  /\ Slots \subseteq Nat /\ 0 \notin Slots
  /\ Fds \subseteq Nat /\ 0 \notin Fds
  /\ \A l \in Lines : l.from \in Slots \cup {0} /\ l.outFirst \in BOOLEAN
                      /\ l.out \in Ends
<1>1. QLEN \in Nat /\ MaxN \in Nat /\ MaxFd \in Nat
  BY SingleAssumption
<1>2. Slots \subseteq Nat /\ 0 \notin Slots /\ Fds \subseteq Nat /\ 0 \notin Fds
  BY <1>1 DEF Slots, Fds
<1>3. \A l \in Lines : l.from \in Slots \cup {0} /\ l.outFirst \in BOOLEAN
                       /\ l.out \in Ends
  BY DEF Lines
<1> QED
  BY <1>1, <1>2, <1>3

(* Least(S) is the one least number of S. *)
LEMMA LeastIsOne ==
  ASSUME NEW S \in SUBSET Nat, NEW i \in Least(S)
  PROVE  i \in S /\ \A j \in Least(S) : i = j
BY DEF Least

(* What an output end is. *)
LEMMA EndFacts ==
  ASSUME NEW e \in Ends
  PROVE  \/ e.end = "plain"
         \/ e.end = "bar" /\ e.n \in 1..MaxN
         \/ e.end = "to" /\ e.n \in Slots
BY DEF Ends

-----------------------------------------------------------------------------
(* The parse: the types of the server's tables while npshell reads a line  *)
(* of user i, with n pipes made by then.                                   *)

Frames(n) ==
  [vec : SUBSET [rest : Ranks, pipe : 1..n], rec : Cells(BOOLEAN),
   np : Cells(0..n), ends : Seq(Fds \X Fds), rd : SUBSET (1..n),
   wr : SUBSET (1..n), due : Seq(Tags), out : 0..n, ok : BOOLEAN]

Typed(s) ==
  /\ s \in Frames(Len(s.due))
  /\ Len(s.ends) = Len(s.due) /\ Len(due) <= Len(s.due)

LEMMA StartFacts ==
  ASSUME NEW i \in Slots
  PROVE  LET s == Start(i)
         IN /\ s.vec = CountDown(vec[i]) /\ s.rec = rec /\ s.np = np
            /\ s.ends = ends /\ s.rd = rd /\ s.wr = wr /\ s.due = due
            /\ s.out = 0 /\ s.ok = TRUE
BY DEF Start

LEMMA CountDownFacts ==
  ASSUME NEW n \in Nat, NEW v \in SUBSET [rest : Ranks, pipe : 1..n]
  PROVE  \A e \in CountDown(v) :
           /\ e \in [rest : Ranks, pipe : 1..n]
           /\ \E d \in v : e.pipe = d.pipe /\ e.rest = d.rest - 1
<1> SUFFICES ASSUME NEW d \in v, NEW e, e = [d EXCEPT !.rest = @ - 1]
             PROVE  /\ e \in [rest : Ranks, pipe : 1..n]
                    /\ e.pipe = d.pipe /\ e.rest = d.rest - 1
  BY DEF CountDown
<1>1. d \in [rest : Ranks, pipe : 1..n]
  OBVIOUS
<1>2. d.rest - 1 \in Ranks
  BY <1>1, ConstantFacts DEF Ranks
<1>3. e.pipe = d.pipe /\ e.rest = d.rest - 1
  BY <1>1
<1> QED
  BY <1>1, <1>2, <1>3

LEMMA StartTyped ==
  ASSUME PipeTypes, NEW i \in Slots
  PROVE  Typed(Start(i))
<1> DEFINE s == Start(i)
           n == Len(due)
<1>1. n \in Nat /\ Made = 1..n /\ vec[i] \in SUBSET [rest : Ranks, pipe : 1..n]
  BY DEF PipeTypes, Made
<1>2. CountDown(vec[i]) \in SUBSET [rest : Ranks, pipe : 1..n]
  BY <1>1, CountDownFacts
<1>3. rec \in Cells(BOOLEAN) /\ np \in Cells(0..n)
  <2>1. Made \cup {0} = 0..n
    BY <1>1
  <2> QED
    BY <2>1 DEF PipeTypes
<1>4. rd \in SUBSET (1..n) /\ wr \in SUBSET (1..n) /\ ends \in Seq(Fds \X Fds)
      /\ due \in Seq(Tags) /\ Len(ends) = n /\ 0 \in 0..n
  BY <1>1 DEF PipeTypes
<1> HIDE DEF n
<1>5. s \in Frames(n)
  BY <1>2, <1>3, <1>4 DEF Start, Frames
<1>6. s.due = due /\ s.ends = ends
  BY StartFacts
<1> QED
  BY <1>1, <1>4, <1>5, <1>6 DEF Typed, n

LEMMA TakeInTyped ==
  ASSUME NEW i \in Slots, NEW from \in Slots \cup {0}, NEW s, Typed(s)
  PROVE  Typed(TakeIn(s, i, from))
<1> DEFINE n == Len(s.due)
<1>1. s \in Frames(n) /\ Len(s.ends) = n /\ Len(due) <= n
  BY DEF Typed
<1> HIDE DEF n
<1>2. CASE from # 0 /\ ~(valid[from] /\ s.rec[from][i])
  <2> DEFINE t == [s EXCEPT !.ok = FALSE]
  <2>1. t \in Frames(n) /\ t.due = s.due /\ t.ends = s.ends
    BY <1>1 DEF Frames
  <2>2. TakeIn(s, i, from) = t
    BY <1>2 DEF TakeIn
  <2> HIDE DEF t
  <2> QED
    BY <1>1, <2>1, <2>2 DEF Typed, n
<1>3. CASE from # 0 /\ valid[from] /\ s.rec[from][i]
  <2> DEFINE table == [s.rec EXCEPT ![from][i] = FALSE]
             t == [s EXCEPT !.rec[from][i] = FALSE]
  <2>1. s.rec \in Cells(BOOLEAN)
    BY <1>1 DEF Frames
  <2>2. table \in Cells(BOOLEAN)
    BY <2>1 DEF Cells
  <2>3. t = [s EXCEPT !.rec = table]
    BY <1>1 DEF Frames
  <2>4. TakeIn(s, i, from) = t
    BY <1>3 DEF TakeIn
  <2> HIDE DEF table, t
  <2>5. t \in Frames(n) /\ t.due = s.due /\ t.ends = s.ends
    BY <1>1, <2>2, <2>3 DEF Frames
  <2> QED
    BY <1>1, <2>4, <2>5 DEF Typed, n
<1>4. CASE from = 0
  BY <1>4 DEF TakeIn
<1> QED
  BY <1>2, <1>3, <1>4

(* A pipe that is made: the next one, with the numbers that were given. *)
LEMMA NewPipeFacts ==
  ASSUME NEW s, Typed(s), NEW d \in Tags, NEW new \in Fds \X Fds
  PROVE  LET t == NewPipe(s, d, new)
             p == Len(s.due) + 1
         IN /\ Typed(t)
            /\ t.vec = s.vec /\ t.rec = s.rec /\ t.np = s.np /\ t.ok = s.ok
            /\ t.rd = s.rd \cup {p} /\ t.wr = s.wr \cup {p} /\ t.out = p
            /\ Len(t.due) = p /\ Len(s.due) \in Nat
            /\ t.due[p] = d /\ t.ends[p] = new
            /\ \A q \in 1..Len(s.due) : t.due[q] = s.due[q] /\ t.ends[q] = s.ends[q]
<1> DEFINE n == Len(s.due)
           last == n + 1
           longer == Append(s.due, d)
           numbers == Append(s.ends, new)
<1>1. /\ s \in Frames(n) /\ s.due \in Seq(Tags) /\ s.ends \in Seq(Fds \X Fds)
      /\ Len(s.ends) = n /\ Len(due) <= n
  <2>1. s \in Frames(n) /\ Len(s.ends) = n /\ Len(due) <= n
    BY DEF Typed
  <2> QED
    BY <2>1 DEF Frames
<1>2. /\ longer \in Seq(Tags) /\ Len(longer) = last /\ n \in Nat
      /\ longer[last] = d /\ \A p \in 1..n : longer[p] = s.due[p]
  BY <1>1
<1>3. /\ numbers \in Seq(Fds \X Fds) /\ Len(numbers) = last
      /\ numbers[last] = new /\ \A p \in 1..n : numbers[p] = s.ends[p]
  BY <1>1
<1>4. /\ s.vec \in SUBSET [rest : Ranks, pipe : 1..n] /\ s.rec \in Cells(BOOLEAN)
      /\ s.np \in Cells(0..n) /\ s.rd \in SUBSET (1..n) /\ s.wr \in SUBSET (1..n)
      /\ s.ok \in BOOLEAN
  BY <1>1 DEF Frames
<1>5. 1..n \subseteq 1..last /\ last \in 1..last /\ last \in 0..last
      /\ 0..n \subseteq 0..last /\ Len(due) <= last
  <2>1. n \in Nat /\ Len(due) <= n
    BY <1>1, <1>2
  <2>2. Len(due) <= last
    BY <2>1, <1>2, LenProperties DEF Tags
  <2> QED
    BY <2>1, <2>2
<1> HIDE DEF n, longer, numbers, last
<1>6. s.rd \cup {last} \in SUBSET (1..last) /\ s.wr \cup {last} \in SUBSET (1..last)
  BY <1>4, <1>5
<1>7. s.vec \in SUBSET [rest : Ranks, pipe : 1..last] /\ s.np \in Cells(0..last)
  <2>1. s.vec \in SUBSET [rest : Ranks, pipe : 1..last]
    BY <1>4, <1>5
  <2>2. s.np \in Cells(0..last)
    BY <1>4, <1>5 DEF Cells
  <2> QED
    BY <2>1, <2>2
<1> DEFINE t == [s EXCEPT !.due = longer, !.ends = numbers, !.out = last,
                          !.rd = @ \cup {last}, !.wr = @ \cup {last}]
<1>8. NewPipe(s, d, new) = t
  BY DEF NewPipe, longer, numbers, last, n
<1>9. /\ t.vec = s.vec /\ t.rec = s.rec /\ t.np = s.np /\ t.ok = s.ok
      /\ t.rd = s.rd \cup {last} /\ t.wr = s.wr \cup {last} /\ t.out = last
      /\ t.due = longer /\ t.ends = numbers
  BY <1>1 DEF Frames
<1>10. t \in Frames(last)
  BY <1>1, <1>2, <1>3, <1>4, <1>5, <1>6, <1>7 DEF Frames
<1> HIDE DEF t
<1>11. Typed(t)
  BY <1>2, <1>3, <1>5, <1>9, <1>10 DEF Typed
<1> QED
  BY <1>2, <1>3, <1>8, <1>9, <1>11 DEF last, n

LEMMA NumberedTyped ==
  ASSUME PipeTypes, NEW i \in Slots, NEW n \in 1..MaxN, NEW s, Typed(s),
         NEW new \in Fds \X Fds
  PROVE  Typed(Numbered(s, i, n, new))
<1> DEFINE same == {e \in s.vec : e.rest = n}
           d == <<i, count[i] + 1 + n>>
           t == NewPipe(s, d, new)
<1>1. d \in Tags /\ n \in Ranks
  <2>1. n \in Nat /\ n <= MaxN /\ count[i] \in Nat
    BY ConstantFacts DEF PipeTypes
  <2> QED
    BY <2>1 DEF Tags, Ranks
<1>2. CASE same # {}
  <2> DEFINE e == CHOOSE x \in same : TRUE
             u == [s EXCEPT !.out = e.pipe]
  <2>1. s \in Frames(Len(s.due)) /\ Len(s.due) \in Nat
    <3>1. s \in Frames(Len(s.due))
      BY DEF Typed
    <3>2. s.due \in Seq(Tags)
      BY <3>1 DEF Frames
    <3> QED
      BY <3>1, <3>2
  <2>2. e \in s.vec
    BY <1>2
  <2>3. Numbered(s, i, n, new) = u
    BY <1>2 DEF Numbered
  <2> HIDE DEF e
  <2> DEFINE k == Len(s.due)
  <2>4. e.pipe \in 0..k
    <3>1. s.vec \in SUBSET [rest : Ranks, pipe : 1..k]
      BY <2>1 DEF Frames
    <3> QED
      BY <2>1, <2>2, <3>1
  <2>5. s \in Frames(k) /\ Len(s.ends) = k /\ Len(due) <= k
    BY DEF Typed
  <2> HIDE DEF k
  <2>6. u \in Frames(k) /\ u.due = s.due /\ u.ends = s.ends
    BY <2>4, <2>5 DEF Frames
  <2> HIDE DEF u
  <2> QED
    BY <2>3, <2>5, <2>6 DEF Typed, k
<1>3. CASE same = {}
  <2> DEFINE entry == [rest |-> n, pipe |-> t.out]
             u == [t EXCEPT !.vec = @ \cup {entry}]
             k == Len(t.due)
  <2>1. Numbered(s, i, n, new) = u
    BY <1>3 DEF Numbered
  <2>2. Typed(t) /\ t.out \in 1..k
    BY <1>1, NewPipeFacts
  <2> HIDE DEF t, d
  <2>3. t \in Frames(k) /\ Len(t.ends) = k /\ Len(due) <= k
    BY <2>2 DEF Typed
  <2>4. entry \in [rest : Ranks, pipe : 1..k]
    BY <1>1, <2>2
  <2> HIDE DEF entry, k
  <2>5. t.vec \cup {entry} \in SUBSET [rest : Ranks, pipe : 1..k]
    BY <2>3, <2>4 DEF Frames
  <2>6. u \in Frames(k) /\ u.due = t.due /\ u.ends = t.ends
    BY <2>3, <2>5 DEF Frames
  <2> HIDE DEF u
  <2> QED
    BY <2>1, <2>3, <2>6 DEF Typed, k
<1> QED
  BY <1>2, <1>3

LEMMA ToUserTyped ==
  ASSUME NEW i \in Slots, NEW r \in Slots, NEW s, Typed(s), NEW new \in Fds \X Fds
  PROVE  Typed(ToUser(s, i, r, new))
<1> DEFINE t == NewPipe(s, <<0, 0>>, new)
<1>1. CASE ~(valid[r] /\ ~s.rec[i][r])
  <2> DEFINE u == [s EXCEPT !.ok = FALSE]
             k == Len(s.due)
  <2>1. s \in Frames(k) /\ Len(s.ends) = k /\ Len(due) <= k
    BY DEF Typed
  <2>2. ToUser(s, i, r, new) = u
    BY <1>1 DEF ToUser
  <2> HIDE DEF k
  <2>3. u \in Frames(k) /\ u.due = s.due /\ u.ends = s.ends
    BY <2>1 DEF Frames
  <2> HIDE DEF u
  <2> QED
    BY <2>1, <2>2, <2>3 DEF Typed, k
<1>2. CASE valid[r] /\ ~s.rec[i][r]
  <2> DEFINE records == [t.rec EXCEPT ![i][r] = TRUE]
             table == [t.np EXCEPT ![i][r] = t.out]
             u == [t EXCEPT !.rec[i][r] = TRUE, !.np[i][r] = t.out]
             k == Len(t.due)
  <2>1. ToUser(s, i, r, new) = u
    BY <1>2 DEF ToUser
  <2>2. Typed(t)
    BY NewPipeFacts DEF Tags
  <2> HIDE DEF t
  <2>3. t \in Frames(k) /\ Len(t.ends) = k /\ Len(due) <= k
    BY <2>2 DEF Typed
  <2> HIDE DEF k
  <2>4. t.rec \in Cells(BOOLEAN) /\ t.np \in Cells(0..k) /\ t.out \in 0..k
    BY <2>3 DEF Frames
  <2>5. records \in Cells(BOOLEAN) /\ table \in Cells(0..k)
    BY <2>4 DEF Cells
  <2>6. u = [t EXCEPT !.rec = records, !.np = table]
    BY <2>3 DEF Frames
  <2> HIDE DEF records, table, u
  <2>7. u \in Frames(k) /\ u.due = t.due /\ u.ends = t.ends
    BY <2>3, <2>5, <2>6 DEF Frames
  <2> QED
    BY <2>1, <2>3, <2>7 DEF Typed, k
<1> QED
  BY <1>1, <1>2

LEMMA PutOutTyped ==
  ASSUME PipeTypes, NEW i \in Slots, NEW e \in Ends, NEW s, Typed(s),
         NEW new \in Fds \X Fds
  PROVE  Typed(PutOut(s, i, e, new))
<1>1. CASE e.end = "plain"
  BY <1>1 DEF PutOut
<1>2. CASE e.end = "bar" /\ e.n \in 1..MaxN
  <2>1. PutOut(s, i, e, new) = Numbered(s, i, e.n, new)
    BY <1>2 DEF PutOut
  <2> QED
    BY <1>2, <2>1, NumberedTyped
<1>3. CASE e.end = "to" /\ e.n \in Slots
  <2>1. PutOut(s, i, e, new) = ToUser(s, i, e.n, new)
    BY <1>3 DEF PutOut
  <2> QED
    BY <1>3, <2>1, ToUserTyped
<1> QED
  BY <1>1, <1>2, <1>3, EndFacts

LEMMA NextPipeFacts ==
  ASSUME NEW new \in NextPipe
  PROVE  new \in Fds \X Fds /\ new[1] \in Free /\ new[2] \in Free /\ new[1] # new[2]
BY DEF NextPipe, Least, Free

LEMMA ParseTyped ==
  ASSUME PipeTypes, NEW i \in Slots, NEW l \in Lines, NEW new \in NextPipe
  PROVE  Typed(Parse(i, l, new))
<1> DEFINE s0 == Start(i)
<1>1. /\ l.from \in Slots \cup {0} /\ l.out \in Ends /\ new \in Fds \X Fds
      /\ Typed(s0)
  BY ConstantFacts, NextPipeFacts, StartTyped
<1> HIDE DEF s0
<1>2. Typed(PutOut(s0, i, l.out, new)) /\ Typed(TakeIn(s0, i, l.from))
  BY <1>1, PutOutTyped, TakeInTyped
<1>3. /\ Typed(TakeIn(PutOut(s0, i, l.out, new), i, l.from))
      /\ Typed(PutOut(TakeIn(s0, i, l.from), i, l.out, new))
  BY <1>1, <1>2, PutOutTyped, TakeInTyped
<1> QED
  BY <1>2, <1>3 DEF Parse, s0

-----------------------------------------------------------------------------
(* Types, whatever has been closed. *)

(* A line of user i, of which the parse leaves s. *)
LEMMA LineTyped ==
  ASSUME PipeTypes, kids \subseteq Commands, NEW i \in Slots, NEW s, Typed(s),
         count' = [count EXCEPT ![i] = @ + 1],
         np' = s.np, due' = s.due, ends' = s.ends, rd' \subseteq s.rd, wr' \subseteq s.wr,
         NEW v \in SUBSET s.vec, vec' = [vec EXCEPT ![i] = v],
         rec' \in Cells(BOOLEAN)
  PROVE  PipeTypes' /\ Made \subseteq Made' /\ kids \subseteq Commands'
<1> DEFINE n == Len(s.due)
<1>1. s \in Frames(n) /\ Len(s.ends) = n /\ Len(due) <= n /\ Made' = 1..n
  BY DEF Typed, Made
<1>2. /\ s.due \in Seq(Tags) /\ s.ends \in Seq(Fds \X Fds) /\ s.np \in Cells(0..n)
      /\ s.vec \in SUBSET [rest : Ranks, pipe : 1..n]
      /\ s.rd \in SUBSET (1..n) /\ s.wr \in SUBSET (1..n)
  BY <1>1 DEF Frames
<1>3. n \in Nat /\ Len(due) \in Nat /\ Made = 1..Len(due)
  BY <1>2 DEF PipeTypes, Made
<1>4. Made \subseteq Made' /\ Made' \cup {0} = 0..n
  BY <1>1, <1>3
<1>5. vec' \in [Slots -> SUBSET [rest : Ranks, pipe : Made']]
  <2>1. v \in SUBSET [rest : Ranks, pipe : Made']
    BY <1>1, <1>2
  <2>2. \A j \in Slots : vec[j] \in SUBSET [rest : Ranks, pipe : Made']
    <3>1. \A j \in Slots : vec[j] \in SUBSET [rest : Ranks, pipe : Made]
      BY DEF PipeTypes
    <3> QED
      BY <1>4, <3>1
  <2> QED
    BY <2>1, <2>2 DEF PipeTypes
<1>6. count' \in [Slots -> Nat]
  BY DEF PipeTypes
<1>7. np' \in Cells(Made' \cup {0})
  BY <1>2, <1>4
<1>8. PipeTypes'
  BY <1>1, <1>2, <1>5, <1>6, <1>7 DEF PipeTypes
<1>9. kids \subseteq Commands'
  <2> SUFFICES ASSUME NEW k \in kids
               PROVE  k \in Commands'
    OBVIOUS
  <2>1. k \in [id : Slots \X Nat, in : Made \cup {0}, out : Made \cup {0},
               held : SUBSET Made]
    BY DEF Commands
  <2>2. Made \cup {0} \subseteq Made' \cup {0} /\ SUBSET Made \subseteq SUBSET (Made')
    BY <1>4
  <2> QED
    BY <2>1, <2>2 DEF Commands
<1> QED
  BY <1>4, <1>8, <1>9

LEMMA LineFacts ==
  ASSUME NEW c \in Clients, NEW i \in Slots, Line(c, i)
  PROVE  srv = "serve" /\ valid[i] /\ sock[i] = fd[c]
BY DEF Line, Turn, User, Least

LEMMA TurnFacts ==
  ASSUME ClientTypes, NEW c \in Clients, Turn(c)
  PROVE  fd[c] # 0 /\ fd[c] \in Fds /\ srv = "serve"
BY ConstantFacts DEF ClientTypes, Turn, Least

LEMMA ContinueTypes ==
  ASSUME ClientTypes, NEW c \in Clients, Continue(c)
  PROVE  srv' \in {"select", "serve"} /\ todo' \subseteq Fds
BY DEF ClientTypes, Continue

LEMMA PromptTypes ==
  ASSUME ClientTypes, NEW c \in Clients, Prompt(c)
  PROVE  prompted' \in [Clients -> BOOLEAN]
BY DEF ClientTypes, Prompt

LEMMA CloseTypes ==
  ASSUME ClientTypes, NEW c \in Clients, Close(c)
  PROVE  /\ conn' \in [Clients -> {"away", "pending", "open", "gone"}]
         /\ fd' \in [Clients -> Fds \cup {0}]
         /\ prompted' \in [Clients -> BOOLEAN]
BY DEF ClientTypes, Close

LEMMA LineTypes ==
  ASSUME ClientTypes, NEW c \in Clients, NEW i \in Slots, Line(c, i)
  PROVE  sent' \in [Clients -> BOOLEAN]
BY DEF ClientTypes, Line

LEMMA PipeTypesSame ==
  ASSUME PipeTypes, UNCHANGED <<vec, rec, np, ends, rd, wr, count, due>>,
         kids \subseteq Commands, kids' \subseteq kids
  PROVE  PipeTypes' /\ kids' \subseteq Commands'
<1>1. Made' = Made
  BY DEF Made
<1>2. Commands' = Commands
  BY <1>1 DEF Commands
<1> QED
  BY <1>1, <1>2 DEF PipeTypes

(* What a line of each kind does to the tables, from what the parse left. *)
LEMMA BuiltinTables ==
  ASSUME NEW c \in Clients, NEW i \in Slots, Builtin(c, i)
  PROVE  LET s == Start(i)
         IN /\ count' = [count EXCEPT ![i] = @ + 1] /\ vec' = [vec EXCEPT ![i] = s.vec]
            /\ rec' = rec /\ np' = s.np /\ due' = s.due /\ ends' = s.ends
            /\ rd' = s.rd /\ wr' = s.wr /\ kids' = kids
            /\ UNCHANGED <<conn, prompted, fd, todo, users, inputs, hist>>
            /\ srv' = "wait"
BY StartFacts DEF Builtin, Counted

LEMMA ExitTables ==
  ASSUME NEW c \in Clients, NEW i \in Slots, Exit(c, i)
  PROVE  LET s == Start(i)
         IN /\ count' = [count EXCEPT ![i] = @ + 1] /\ vec' = [vec EXCEPT ![i] = s.vec]
            /\ np' = s.np /\ due' = s.due /\ ends' = s.ends
            /\ rd' = s.rd /\ wr' = s.wr /\ kids' = kids
            /\ \A a, b \in Slots : rec'[a][b] <=> rec[a][b] /\ i \notin {a, b}
            /\ PipeTypes => rec' \in Cells(BOOLEAN)
<1>1. \A a, b \in Slots : rec'[a][b] <=> rec[a][b] /\ i \notin {a, b}
  BY DEF Exit
<1>2. PipeTypes => rec' \in Cells(BOOLEAN)
  <2>1. PipeTypes => \A a, b \in Slots : (rec[a][b] /\ i \notin {a, b}) \in BOOLEAN
    BY DEF PipeTypes, Cells
  <2> QED
    BY <2>1 DEF Exit, Cells
<1> QED
  BY <1>1, <1>2, StartFacts DEF Exit, Counted

(* The numbers a line closes before and after the fork. *)
Before(s, i, l) == WriteNumbers(s, Shut(s, i, l))
After(s, i, l) == Before(s, i, l) \cup ReadNumbers(s, Shut(s, i, l))

(* What a command line does, from what its parse left. *)
Effect(c, i, l, s) ==
  LET hit == {d \in Clients : fd[d] \in After(s, i, l)}
  IN /\ s.ok /\ rec' = s.rec /\ np' = s.np /\ ends' = s.ends /\ due' = s.due
     /\ count' = [count EXCEPT ![i] = @ + 1]
     /\ vec' = [vec EXCEPT ![i] = {e \in s.vec : e.rest # 0}]
     /\ Fork(i, l, s, Before(s, i, l))
     /\ rd' = Reading(s, After(s, i, l)) /\ wr' = Writing(s, After(s, i, l))
     /\ fd' = [d \in Clients |-> IF d \in hit THEN 0 ELSE fd[d]]
     /\ twice' = (twice \/ ~(Shut(s, i, l) \subseteq s.rd \cap s.wr))
     /\ IF Waits(l) \/ hit # {}
        THEN /\ srv' = IF hit = {} THEN "wait" ELSE "lost"
             /\ UNCHANGED <<todo, prompted>>
        ELSE Prompt(c) /\ Continue(c)

LEMMA RunTables ==
  ASSUME NEW c \in Clients, NEW i \in Slots, NEW l \in Lines, Run(c, i, l)
  PROVE  \E new \in NextPipe : Effect(c, i, l, Parse(i, l, new))
BY DEF Run, Parsed, Counted, Before, After, Effect

LEMMA ForkTyped ==
  ASSUME PipeTypes, NEW i \in Slots, NEW l, NEW s, NEW F, Typed(s), due' = s.due,
         kids \subseteq Commands', Fork(i, l, s, F)
  PROVE  kids' \subseteq Commands'
<1>0. PICK p : \E in \in Dup(s, Reading(s, F), 1, p),
                   out \in Dup(s, Writing(s, F), 2, s.out) :
        kids' = kids \cup {[id |-> <<i, count[i] + 1>>, in |-> in, out |-> out,
                            held |-> Writing(s, F)]}
  BY DEF Fork
<1>1. PICK in \in Dup(s, Reading(s, F), 1, p),
           out \in Dup(s, Writing(s, F), 2, s.out) :
        kids' = kids \cup {[id |-> <<i, count[i] + 1>>, in |-> in, out |-> out,
                            held |-> Writing(s, F)]}
  BY <1>0
<1>2. s.rd \subseteq Made' /\ s.wr \subseteq Made'
  BY DEF Typed, Frames, Made
<1>3. Reading(s, F) \subseteq s.rd /\ Writing(s, F) \subseteq s.wr
  BY DEF Reading, Writing
<1>4. in \in Made' \cup {0} /\ out \in Made' \cup {0}
  BY <1>2, <1>3 DEF Dup, Same
<1>5. <<i, count[i] + 1>> \in Slots \X Nat
  BY DEF PipeTypes
<1> QED
  BY <1>1, <1>2, <1>3, <1>4, <1>5 DEF Commands

LEMMA ServeTypes ==
  ASSUME Types, NEW c \in Clients, Serve(c)
  PROVE  Types'
<1>1. ClientTypes /\ PipeTypes /\ kids \subseteq Commands
  BY DEF Types
<1>2. CASE EndOfFile(c)
  <2>1. PipeTypes' /\ kids' \subseteq Commands'
    BY <1>1, <1>2, PipeTypesSame DEF EndOfFile, pipes
  <2>2. ClientTypes'
    BY <1>1, <1>2, CloseTypes, ContinueTypes DEF EndOfFile, ClientTypes, users
  <2> QED
    BY <2>1, <2>2 DEF Types
<1>3. CASE NoUser(c)
  <2>1. PipeTypes' /\ kids' \subseteq Commands'
    BY <1>1, <1>3, PipeTypesSame DEF NoUser, pipes
  <2>2. ClientTypes'
    BY <1>1, <1>3 DEF NoUser, ClientTypes, client, users, hist
  <2> QED
    BY <2>1, <2>2 DEF Types
<1>4. CASE Waited(c)
  <2>1. PipeTypes' /\ kids' \subseteq Commands'
    BY <1>1, <1>4, PipeTypesSame DEF Waited, pipes
  <2>2. ClientTypes'
    BY <1>1, <1>4, PromptTypes, ContinueTypes DEF Waited, ClientTypes, users, hist
  <2> QED
    BY <2>1, <2>2 DEF Types
<1>5. ASSUME NEW i \in Slots, EmptyLine(c, i)
      PROVE  Types'
  <2>1. PipeTypes' /\ kids' \subseteq Commands'
    BY <1>1, <1>5, PipeTypesSame DEF EmptyLine, pipes
  <2>2. ClientTypes'
    BY <1>1, <1>5, LineTypes, PromptTypes, ContinueTypes
       DEF EmptyLine, ClientTypes, users, hist
  <2> QED
    BY <2>1, <2>2 DEF Types
<1>6. ASSUME NEW i \in Slots, Builtin(c, i)
      PROVE  Types'
  <2> DEFINE s == Start(i)
  <2>1. Typed(s)
    BY <1>1, StartTyped
  <2>2. /\ count' = [count EXCEPT ![i] = @ + 1] /\ vec' = [vec EXCEPT ![i] = s.vec]
        /\ rec' = rec /\ np' = s.np /\ due' = s.due /\ ends' = s.ends
        /\ rd' = s.rd /\ wr' = s.wr /\ kids' = kids
        /\ UNCHANGED <<conn, prompted, fd, todo, users, inputs, hist>>
        /\ srv' = "wait"
    BY <1>6, BuiltinTables
  <2> HIDE DEF s
  <2>3. rec' \in Cells(BOOLEAN)
    BY <1>1, <2>2 DEF PipeTypes
  <2>4. PipeTypes' /\ kids' \subseteq Commands'
    BY <1>1, <2>1, <2>2, <2>3, LineTyped
  <2>5. sent' \in [Clients -> BOOLEAN]
    BY <1>1, <1>6, LineTypes DEF Builtin
  <2>6. ClientTypes'
    BY <1>1, <2>2, <2>5 DEF ClientTypes, users, hist
  <2> QED
    BY <2>4, <2>6 DEF Types
<1>7. ASSUME NEW i \in Slots, Exit(c, i)
      PROVE  Types'
  <2> DEFINE s == Start(i)
  <2>1. Typed(s)
    BY <1>1, StartTyped
  <2>2. /\ count' = [count EXCEPT ![i] = @ + 1] /\ vec' = [vec EXCEPT ![i] = s.vec]
        /\ np' = s.np /\ due' = s.due /\ ends' = s.ends
        /\ rd' = s.rd /\ wr' = s.wr /\ kids' = kids /\ rec' \in Cells(BOOLEAN)
    BY <1>1, <1>7, ExitTables
  <2> HIDE DEF s
  <2>3. PipeTypes' /\ kids' \subseteq Commands'
    BY <1>1, <2>1, <2>2, LineTyped
  <2>4. valid' \in [Slots -> BOOLEAN]
    BY <1>1, <1>7 DEF Exit, ClientTypes
  <2>5. ClientTypes'
    BY <1>1, <1>7, <2>4, CloseTypes, ContinueTypes, LineTypes DEF Exit, ClientTypes, hist
  <2> QED
    BY <2>3, <2>5 DEF Types
<1>8. ASSUME NEW i \in Slots, NEW l \in Lines, Refused(c, i, l)
      PROVE  Types'
  <2>1. PICK new \in NextPipe :
          LET s == Parse(i, l, new)
          IN Parsed(i, s) /\ vec' = [vec EXCEPT ![i] = s.vec] /\ rd' = s.rd /\ wr' = s.wr
    BY <1>8 DEF Refused
  <2> DEFINE s == Parse(i, l, new)
  <2>2. Typed(s)
    BY <1>1, ParseTyped
  <2>3. /\ count' = [count EXCEPT ![i] = @ + 1] /\ vec' = [vec EXCEPT ![i] = s.vec]
        /\ rec' = s.rec /\ np' = s.np /\ due' = s.due /\ ends' = s.ends
        /\ rd' = s.rd /\ wr' = s.wr
    BY <2>1 DEF Parsed, Counted
  <2> HIDE DEF s
  <2>4. rec' \in Cells(BOOLEAN)
    BY <2>2, <2>3 DEF Typed, Frames
  <2>5. PipeTypes' /\ kids' \subseteq Commands'
    <3>1. kids' = kids
      BY <1>8 DEF Refused
    <3> QED
      BY <1>1, <2>2, <2>3, <2>4, <3>1, LineTyped
  <2>6. ClientTypes'
    BY <1>1, <1>8, LineTypes, PromptTypes, ContinueTypes
       DEF Refused, ClientTypes, users, hist
  <2> QED
    BY <2>5, <2>6 DEF Types
<1>9. ASSUME NEW i \in Slots, NEW l \in Lines, Run(c, i, l)
      PROVE  Types'
  <2>1. PICK new \in NextPipe : Effect(c, i, l, Parse(i, l, new))
    BY <1>9, RunTables
  <2> DEFINE s == Parse(i, l, new)
             hit == {d \in Clients : fd[d] \in After(s, i, l)}
             v == {e \in s.vec : e.rest # 0}
  <2>2. Typed(s)
    BY <1>1, ParseTyped
  <2> HIDE DEF s
  <2>3. v \in SUBSET s.vec /\ rec' \in Cells(BOOLEAN)
    BY <2>1, <2>2 DEF Typed, Frames, Effect, s
  <2>4. rd' \subseteq s.rd /\ wr' \subseteq s.wr
    BY <2>1 DEF Reading, Writing, Effect, s
  <2>5. PipeTypes' /\ kids \subseteq Commands'
    BY <1>1, <2>1, <2>2, <2>3, <2>4, LineTyped DEF Effect, s
  <2>6. kids' \subseteq Commands'
    BY <1>1, <2>1, <2>2, <2>5, ForkTyped DEF Effect, s
  <2>7. /\ srv' \in {"select", "serve", "wait", "lost"} /\ todo' \subseteq Fds
        /\ prompted' \in [Clients -> BOOLEAN]
    <3>1. CASE Waits(l) \/ hit # {}
      BY <1>1, <2>1, <3>1 DEF ClientTypes, Effect, s
    <3>2. CASE ~(Waits(l) \/ hit # {})
      BY <1>1, <2>1, <3>2, PromptTypes, ContinueTypes DEF Effect, s
    <3> QED
      BY <3>1, <3>2
  <2>8. fd' \in [Clients -> Fds \cup {0}] /\ twice' \in BOOLEAN
    BY <1>1, <2>1 DEF ClientTypes, Effect, s
  <2>9. sent' \in [Clients -> BOOLEAN] /\ UNCHANGED <<conn, users, inputs, ghost, full>>
    BY <1>1, <1>9, LineTypes DEF Run
  <2>10. ClientTypes'
    BY <1>1, <2>7, <2>8, <2>9 DEF ClientTypes, users
  <2> QED
    BY <2>5, <2>6, <2>10 DEF Types
<1> QED
  BY <1>2, <1>3, <1>4, <1>5, <1>6, <1>7, <1>8, <1>9 DEF Serve

LEMMA AcceptTypes ==
  ASSUME ClientTypes, NEW c \in Clients, Accept(c)
  PROVE  /\ conn' \in [Clients -> {"away", "pending", "open", "gone"}]
         /\ prompted' \in [Clients -> BOOLEAN]
         /\ fd' \in [Clients -> Fds \cup {0}]
         /\ valid' \in [Slots -> BOOLEAN] /\ sock' \in [Slots -> Fds \cup {0}]
         /\ full' \in BOOLEAN
<1>1. PICK i \in Slots, f \in Fds :
        /\ valid' = [valid EXCEPT ![i] = TRUE]
        /\ sock' = [sock EXCEPT ![i] = f]
        /\ fd' = [fd EXCEPT ![c] = f]
        /\ conn' = [conn EXCEPT ![c] = "open"]
        /\ prompted' = [prompted EXCEPT ![c] = TRUE]
        /\ full' = (full \/ {j \in Slots : ~valid[j]} = {})
  BY DEF Accept, Least, Free
<1> QED
  BY <1>1 DEF ClientTypes

LEMMA NextTypes == Types /\ [Next]_vars => Types'
<1> SUFFICES ASSUME Types, [Next]_vars
             PROVE  Types'
  OBVIOUS
<1>1. ClientTypes /\ PipeTypes /\ kids \subseteq Commands
  BY DEF Types
<1>2. ASSUME NEW c \in Clients, Connect(c) \/ Send(c) \/ Hangup(c)
      PROVE  Types'
  <2>1. UNCHANGED pipes
    BY <1>2 DEF Connect, Send, Hangup
  <2>2. ClientTypes'
    <3>1. CASE Connect(c)
      <4>1. conn' \in [Clients -> {"away", "pending", "open", "gone"}]
            /\ inputs' \in Nat
        BY <1>1, <3>1 DEF Connect, ClientTypes
      <4> QED
        BY <1>1, <3>1, <4>1 DEF Connect, ClientTypes, users, hist
    <3>2. CASE Send(c)
      <4>1. sent' \in [Clients -> BOOLEAN] /\ prompted' \in [Clients -> BOOLEAN]
            /\ inputs' \in Nat
        BY <1>1, <3>2 DEF Send, ClientTypes
      <4> QED
        BY <1>1, <3>2, <4>1 DEF Send, ClientTypes, users, hist
    <3>3. CASE Hangup(c)
      <4>1. conn' \in [Clients -> {"away", "pending", "open", "gone"}]
        BY <1>1, <3>3 DEF Hangup, ClientTypes
      <4> QED
        BY <1>1, <3>3, <4>1 DEF Hangup, ClientTypes, users, hist
    <3> QED
      BY <1>2, <3>1, <3>2, <3>3
  <2> QED
    BY <1>1, <2>1, <2>2, PipeTypesSame DEF Types, pipes
<1>3. ASSUME NEW c \in Clients, Serve(c)
      PROVE  Types'
  BY <1>3, ServeTypes
<1>4. CASE Select
  <2>1. /\ srv' \in {"select", "serve"} /\ todo' \subseteq Fds
        /\ UNCHANGED <<sent, pipes, inputs, ghost, twice>>
    BY <1>1, <1>4 DEF Select, Readable, ClientTypes
  <2>2. CASE UNCHANGED <<conn, prompted, fd, users, full>>
    <3>1. ClientTypes'
      BY <1>1, <2>1, <2>2 DEF ClientTypes, users
    <3> QED
      BY <1>1, <2>1, <3>1, PipeTypesSame DEF Types, pipes
  <2>3. ASSUME NEW c \in Clients, Accept(c)
        PROVE  Types'
    <3>1. ClientTypes'
      BY <1>1, <2>1, <2>3, AcceptTypes DEF ClientTypes
    <3> QED
      BY <1>1, <2>1, <3>1, PipeTypesSame DEF Types, pipes
  <2> QED
    BY <1>4, <2>2, <2>3 DEF Select
<1>5. ASSUME NEW k \in kids, Finish(k) \/ EndEarly(k)
      PROVE  Types'
  <2>1. End(k)
    BY <1>5 DEF Finish, EndEarly
  <2>2. ClientTypes'
    BY <1>1, <2>1 DEF End, ClientTypes, client, users, hist
  <2> QED
    BY <1>1, <2>1, <2>2, PipeTypesSame DEF Types, End
<1>6. CASE Killed
  <2>1. ClientTypes'
    BY <1>1, <1>6 DEF Killed, ClientTypes, client, users, hist
  <2> QED
    BY <1>1, <1>6, <2>1, PipeTypesSame DEF Types, Killed, pipes
<1>7. CASE UNCHANGED vars
  <2>1. ClientTypes'
    BY <1>1, <1>7 DEF ClientTypes, vars, client, users, hist
  <2> QED
    BY <1>1, <1>7, <2>1, PipeTypesSame DEF Types, vars, pipes
<1> QED
  BY <1>2, <1>3, <1>4, <1>5, <1>6, <1>7 DEF Next, Server

(* The types are those of the specification's type invariant. *)
LEMMA TypesOK == Types => TypeOK
<1> SUFFICES ASSUME ClientTypes, PipeTypes, kids \subseteq Commands
             PROVE  TypeOK
  BY DEF Types
<1>1. \A i \in Slots, e \in UNION {vec[j] : j \in Slots} :
        e.pipe \in Made /\ e.rest \in Int /\ e.rest <= MaxN
  BY DEF PipeTypes, Ranks
<1>2. \A k \in kids : {k.in, k.out} \subseteq Made \cup {0}
                      /\ k.held \subseteq Made
  BY DEF Commands
<1>3. /\ rec \in [Slots -> [Slots -> BOOLEAN]]
      /\ np \in [Slots -> [Slots -> Made \cup {0}]]
      /\ {rd, wr} \subseteq SUBSET Made /\ count \in [Slots -> Nat]
      /\ ends \in Seq(Fds \X Fds) /\ Len(ends) = Len(due)
  BY DEF PipeTypes, Cells
<1> QED
  BY <1>1, <1>2, <1>3 DEF ClientTypes, TypeOK

-----------------------------------------------------------------------------
(* The parse: what holds of the server's tables while npshell reads a line *)
(* of user i, whatever the line is and wherever the parse stops, as long   *)
(* as nothing has been closed twice.                                       *)

(* Pipes are added, none changes its purpose. *)
Grows(s) ==
  /\ rd \subseteq s.rd /\ wr \subseteq s.wr
  /\ \A p \in 1..Len(due) : s.due[p] = due[p]

(* Every pipe of the user's vector is open and counted for one of its      *)
(* lines.                                                                  *)
Counts(s, i) ==
  \A e \in s.vec : /\ s.due[e.pipe] = <<i, count[i] + 1 + e.rest>>
                   /\ e.pipe \in s.rd \cap s.wr

Marks(s) ==
  /\ \A a, b \in Slots : s.np[a][b] # 0 => s.due[s.np[a][b]] = <<0, 0>>
  /\ \A a, b, t, u \in Slots :
       s.np[a][b] # 0 /\ s.np[a][b] = s.np[t][u] => a = t /\ b = u

Keeps(s) ==
  \A a, b \in Slots : s.rec[a][b] =>
    /\ valid[a] /\ valid[b] /\ s.np[a][b] # 0
    /\ a # b => s.np[a][b] \in s.rd \cap s.wr

(* The pipe that the line writes to is open, and new if it is a user pipe. *)
Output(s) ==
  s.out # 0 => s.out \in s.wr /\ (s.due[s.out] = <<0, 0>> => Len(due) < s.out)

Sound(s, i) ==
  /\ Typed(s) /\ Grows(s) /\ Counts(s, i) /\ Marks(s) /\ Keeps(s) /\ Output(s)
  /\ Distinct(s.rd, s.wr, s.ends)

(* The numbers the kernel would give are nobody's. *)
Fresh(s, new) ==
  /\ new \in Fds \X Fds /\ new[1] # new[2]
  /\ \A c \in Clients : fd[c] # new[1] /\ fd[c] # new[2]
  /\ \A p \in s.rd : s.ends[p][1] # new[1] /\ s.ends[p][1] # new[2]
  /\ \A p \in s.wr : s.ends[p][2] # new[1] /\ s.ends[p][2] # new[2]

PipesInv == Types /\ Numbers /\ TablesInv

LEMMA StartSound ==
  ASSUME PipesInv, NEW i \in Slots
  PROVE  Sound(Start(i), i) /\ \A new \in NextPipe : Fresh(Start(i), new)
<1> DEFINE s == Start(i)
<1>1. /\ s.vec = CountDown(vec[i]) /\ s.rec = rec /\ s.np = np
      /\ s.ends = ends /\ s.rd = rd /\ s.wr = wr /\ s.due = due
      /\ s.out = 0
  BY StartFacts
<1>2. PipeTypes /\ Typed(s)
  BY StartTyped DEF PipesInv, Types
<1> HIDE DEF s
<1>3. Counts(s, i)
  <2> SUFFICES ASSUME NEW e \in CountDown(vec[i])
               PROVE  /\ due[e.pipe] = <<i, count[i] + 1 + e.rest>>
                      /\ e.pipe \in rd \cap wr
    BY <1>1 DEF Counts
  <2>1. /\ vec[i] \in SUBSET [rest : Ranks, pipe : 1..Len(due)]
        /\ Len(due) \in Nat /\ count[i] \in Nat
    BY <1>2 DEF PipeTypes, Made
  <2>2. PICK d \in vec[i] : e.pipe = d.pipe /\ e.rest = d.rest - 1
    BY <2>1, CountDownFacts
  <2>3. /\ due[d.pipe] = <<i, count[i] + d.rest>> /\ d.pipe \in rd \cap wr
        /\ d.rest \in Int
    BY <2>1 DEF PipesInv, TablesInv, VectorsOnTime, Ranks
  <2>4. count[i] + 1 + e.rest = count[i] + d.rest
    BY <2>1, <2>2, <2>3
  <2> QED
    BY <2>2, <2>3, <2>4
<1>4. Grows(s) /\ Output(s)
  BY <1>1 DEF Grows, Output
<1>5. Marks(s) /\ Keeps(s)
  BY <1>1 DEF PipesInv, TablesInv, UserPipes, Marks, Keeps
<1>6. Distinct(s.rd, s.wr, s.ends)
  BY <1>1 DEF PipesInv, Numbers
<1>7. ASSUME NEW new \in NextPipe
      PROVE  Fresh(s, new)
  <2>1. new \in Fds \X Fds /\ new[1] \in Free /\ new[2] \in Free /\ new[1] # new[2]
    BY NextPipeFacts
  <2> QED
    BY <1>1, <2>1 DEF Fresh, Free
<1> QED
  BY <1>2, <1>3, <1>4, <1>5, <1>6, <1>7 DEF Sound, s

LEMMA TakeInSound ==
  ASSUME NEW i \in Slots, NEW from \in Slots \cup {0}, NEW s, Sound(s, i)
  PROVE  LET t == TakeIn(s, i, from)
         IN /\ Sound(t, i)
            /\ t.out = s.out /\ t.due = s.due
            /\ t.rd = s.rd /\ t.wr = s.wr /\ t.ends = s.ends
            /\ t.ok /\ from # 0 => ~t.rec[from][i]
<1>0. Typed(s) /\ 0 \notin Slots /\ Typed(TakeIn(s, i, from))
  BY ConstantFacts, TakeInTyped DEF Sound
<1>1. CASE from = 0
  BY <1>0, <1>1 DEF TakeIn
<1>2. CASE from # 0 /\ ~(valid[from] /\ s.rec[from][i])
  <2> DEFINE t == [s EXCEPT !.ok = FALSE]
  <2>1. TakeIn(s, i, from) = t
    BY <1>2 DEF TakeIn
  <2>2. /\ t.vec = s.vec /\ t.rec = s.rec /\ t.np = s.np /\ t.wr = s.wr
        /\ t.rd = s.rd /\ t.ends = s.ends
        /\ t.due = s.due /\ t.out = s.out /\ t.ok = FALSE
    BY <1>0 DEF Typed, Frames
  <2>3. Typed(t)
    BY <1>0, <2>1
  <2> HIDE DEF t
  <2>4. Grows(t) /\ Counts(t, i) /\ Marks(t) /\ Keeps(t) /\ Output(t)
    BY <2>2 DEF Sound, Grows, Counts, Marks, Keeps, Output
  <2>5. Sound(t, i)
    BY <2>2, <2>3, <2>4 DEF Sound
  <2> QED
    BY <2>1, <2>2, <2>5
<1>3. CASE from # 0 /\ valid[from] /\ s.rec[from][i]
  <2> DEFINE t == [s EXCEPT !.rec[from][i] = FALSE]
             table == [s.rec EXCEPT ![from][i] = FALSE]
  <2>1. TakeIn(s, i, from) = t
    BY <1>3 DEF TakeIn
  <2>2. s.rec \in Cells(BOOLEAN) /\ from \in Slots
    BY <1>0, <1>3 DEF Typed, Frames
  <2>3. ~table[from][i]
    BY <2>2 DEF Cells
  <2>4. \A a, b \in Slots : table[a][b] => s.rec[a][b]
    <3> SUFFICES ASSUME NEW a \in Slots, NEW b \in Slots, table[a][b]
                 PROVE  s.rec[a][b]
      OBVIOUS
    <3>1. CASE a = from /\ b = i
      BY <2>3, <3>1
    <3>2. CASE a # from
      BY <2>2, <3>2 DEF Cells
    <3>3. CASE a = from /\ b # i
      BY <2>2, <3>3 DEF Cells
    <3> QED
      BY <3>1, <3>2, <3>3
  <2> HIDE DEF table
  <2>5. t = [s EXCEPT !.rec = table]
    BY <1>0 DEF table, Typed, Frames
  <2>6. /\ t.vec = s.vec /\ t.rec = table /\ t.np = s.np /\ t.wr = s.wr
        /\ t.rd = s.rd /\ t.ends = s.ends
        /\ t.due = s.due /\ t.out = s.out /\ t.ok = s.ok
    BY <1>0, <2>5 DEF Typed, Frames
  <2> HIDE DEF t
  <2>7. Keeps(t)
    BY <2>4, <2>6 DEF Sound, Keeps
  <2> QED
    BY <1>0, <2>1, <2>3, <2>6, <2>7 DEF Sound, Grows, Counts, Marks, Output
<1> QED
  BY <1>1, <1>2, <1>3

(* A pipe that is new to the server disturbs nothing that it knew. *)
LEMMA NewPipeSound ==
  ASSUME Types, NEW i \in Slots, NEW s, Sound(s, i), NEW d \in Tags, NEW new,
         Fresh(s, new)
  PROVE  Sound(NewPipe(s, d, new), i)
<1> DEFINE t == NewPipe(s, d, new)
           p == Len(s.due) + 1
<1>1. /\ Typed(s) /\ new \in Fds \X Fds /\ Len(due) \in Nat /\ Len(due) <= Len(s.due)
  BY DEF Sound, Typed, Fresh, Types, PipeTypes
<1>2. /\ Typed(t)
      /\ t.vec = s.vec /\ t.rec = s.rec /\ t.np = s.np
      /\ t.rd = s.rd \cup {p} /\ t.wr = s.wr \cup {p} /\ t.out = p
      /\ Len(t.due) = p /\ Len(s.due) \in Nat /\ t.ends[p] = new
      /\ \A q \in 1..Len(s.due) : t.due[q] = s.due[q] /\ t.ends[q] = s.ends[q]
  BY <1>1, NewPipeFacts
<1>3. /\ s.rd \subseteq 1..Len(s.due) /\ s.wr \subseteq 1..Len(s.due)
      /\ \A e \in s.vec : e.pipe \in 1..Len(s.due)
      /\ \A a, b \in Slots : s.np[a][b] \in 0..Len(s.due)
  BY <1>1 DEF Typed, Frames, Cells
<1>4. p \notin 1..Len(s.due) /\ Len(due) < p
  BY <1>1, <1>2
<1> HIDE DEF t, p
<1>5. Grows(t) /\ Output(t)
  <2>1. 1..Len(due) \subseteq 1..Len(s.due)
    BY <1>1, <1>2
  <2> QED
    BY <1>2, <1>4, <2>1 DEF Sound, Grows, Output
<1>6. Counts(t, i)
  BY <1>2, <1>3 DEF Sound, Counts
<1>7. Marks(t)
  <2>1. \A a, b \in Slots : t.np[a][b] # 0 => t.due[t.np[a][b]] = <<0, 0>>
    <3> SUFFICES ASSUME NEW a \in Slots, NEW b \in Slots, s.np[a][b] # 0
                 PROVE  t.due[s.np[a][b]] = <<0, 0>>
      BY <1>2
    <3>1. s.np[a][b] \in 1..Len(s.due) /\ s.due[s.np[a][b]] = <<0, 0>>
      BY <1>2, <1>3 DEF Sound, Marks
    <3> QED
      BY <1>2, <3>1
  <2>2. t.np = s.np
    BY <1>2
  <2> DEFINE table == t.np
  <2>3. \A a, b, x, y \in Slots :
          table[a][b] # 0 /\ table[a][b] = table[x][y] => a = x /\ b = y
    BY <2>2 DEF Sound, Marks
  <2> HIDE DEF table
  <2>4. \A a, b, x, y \in Slots :
          t.np[a][b] # 0 /\ t.np[a][b] = t.np[x][y] => a = x /\ b = y
    BY <2>3, Zenon DEF table
  <2> QED
    BY <2>1, <2>4, Zenon DEF Marks
<1>8. Keeps(t)
  BY <1>2 DEF Sound, Keeps
<1>9. Distinct(t.rd, t.wr, t.ends)
  <2>1. \A q \in s.rd \cup s.wr : t.ends[q] = s.ends[q] /\ q # p
    BY <1>2, <1>3, <1>4
  <2>2. Distinct(s.rd, s.wr, s.ends)
    BY DEF Sound
  <2> QED
    BY <1>2, <2>1, <2>2 DEF Distinct, Fresh
<1> QED
  BY <1>2, <1>5, <1>6, <1>7, <1>8, <1>9 DEF Sound, t

LEMMA NumberedSound ==
  ASSUME Types, NEW i \in Slots, NEW s, Sound(s, i), NEW n \in 1..MaxN, NEW new,
         Fresh(s, new)
  PROVE  LET t == Numbered(s, i, n, new)
         IN /\ Sound(t, i)
            /\ t.rec = s.rec /\ t.ok = s.ok
            /\ t.out # 0 => t.due[t.out] # <<0, 0>>
<1> DEFINE same == {e \in s.vec : e.rest = n}
           d == <<i, count[i] + 1 + n>>
           made == NewPipe(s, d, new)
<1>1. Typed(s) /\ count[i] \in Nat /\ n \in Nat /\ i # 0 /\ new \in Fds \X Fds
      /\ Typed(Numbered(s, i, n, new))
  BY ConstantFacts, NumberedTyped DEF Sound, Types, PipeTypes, Fresh
<1>2. d \in Tags /\ d # <<0, 0>>
  BY <1>1 DEF Tags
<1>3. CASE same # {}
  <2> DEFINE e == CHOOSE x \in same : TRUE
             t == [s EXCEPT !.out = e.pipe]
  <2>1. e \in same
    BY <1>3
  <2>2. Numbered(s, i, n, new) = t
    BY <1>3 DEF Numbered
  <2> HIDE DEF e
  <2>3. s.due[e.pipe] = <<i, count[i] + 1 + e.rest>> /\ e.pipe \in s.wr
    BY <2>1 DEF Sound, Counts
  <2>4. /\ t.vec = s.vec /\ t.rec = s.rec /\ t.np = s.np /\ t.wr = s.wr
        /\ t.rd = s.rd /\ t.ends = s.ends
        /\ t.due = s.due /\ t.out = e.pipe /\ t.ok = s.ok
    BY <1>1 DEF Typed, Frames
  <2> HIDE DEF t
  <2>5. s.due[e.pipe] # <<0, 0>>
    BY <1>1, <2>3
  <2>6. Output(t)
    BY <2>3, <2>4, <2>5 DEF Output
  <2> QED
    BY <1>1, <2>2, <2>4, <2>5, <2>6 DEF Sound, Grows, Counts, Marks, Keeps
<1>4. CASE same = {}
  <2> DEFINE entry == [rest |-> n, pipe |-> made.out]
             t == [made EXCEPT !.vec = @ \cup {entry}]
  <2>1. Numbered(s, i, n, new) = t
    BY <1>4 DEF Numbered
  <2>2. Sound(made, i)
    BY <1>2, NewPipeSound
  <2> HIDE DEF d
  <2>3. /\ Typed(made) /\ made.rec = s.rec /\ made.ok = s.ok
        /\ made.due[made.out] = d /\ made.out \in made.rd \cap made.wr
    BY <1>1, <1>2, NewPipeFacts
  <2> HIDE DEF made
  <2>4. entry.rest = n /\ entry.pipe = made.out
    OBVIOUS
  <2> HIDE DEF entry
  <2>5. /\ t.vec = made.vec \cup {entry} /\ t.rec = made.rec /\ t.np = made.np
        /\ t.rd = made.rd /\ t.ends = made.ends
        /\ t.wr = made.wr /\ t.due = made.due /\ t.out = made.out
        /\ t.ok = made.ok
    BY <2>3 DEF Typed, Frames
  <2> HIDE DEF t
  <2>6. Counts(t, i)
    <3>1. /\ made.due[entry.pipe] = <<i, count[i] + 1 + entry.rest>>
          /\ entry.pipe \in made.rd \cap made.wr
      BY <2>3, <2>4 DEF d
    <3> QED
      BY <2>2, <2>5, <3>1 DEF Sound, Counts
  <2>7. /\ Grows(t) /\ Marks(t) /\ Keeps(t) /\ Output(t)
        /\ Distinct(t.rd, t.wr, t.ends)
    BY <2>2, <2>5 DEF Sound, Grows, Marks, Keeps, Output
  <2>8. t.rec = s.rec /\ t.ok = s.ok /\ t.due[t.out] # <<0, 0>>
    <3>1. t.due[t.out] = d
      BY <2>3, <2>5
    <3> QED
      BY <1>2, <2>3, <2>5, <3>1
  <2> QED
    BY <1>1, <2>1, <2>6, <2>7, <2>8 DEF Sound
<1> QED
  BY <1>3, <1>4

LEMMA MarksSame ==
  ASSUME NEW s, NEW t, t.np = s.np, t.due = s.due, Marks(s)
  PROVE  Marks(t)
<1>1. \A a, b \in Slots : t.np[a][b] # 0 => t.due[t.np[a][b]] = <<0, 0>>
  BY DEF Marks
<1>2. \A a, b, x, y \in Slots :
        t.np[a][b] # 0 /\ t.np[a][b] = t.np[x][y] => a = x /\ b = y
  <2> SUFFICES ASSUME NEW a \in Slots, NEW b \in Slots, NEW x \in Slots,
                      NEW y \in Slots, t.np[a][b] # 0, t.np[a][b] = t.np[x][y]
               PROVE  a = x /\ b = y
    OBVIOUS
  <2>1. s.np[a][b] # 0 /\ s.np[a][b] = s.np[x][y]
    OBVIOUS
  <2> QED
    BY <2>1 DEF Marks
<1> QED
  BY <1>1, <1>2, Zenon DEF Marks

LEMMA ToUserSound ==
  ASSUME Types, NEW i \in Slots, valid[i], NEW s, Sound(s, i), NEW r \in Slots,
         NEW new, Fresh(s, new)
  PROVE  LET t == ToUser(s, i, r, new)
         IN /\ Sound(t, i)
            /\ \A a, b \in Slots : ~(a = i /\ b = r) /\ t.rec[a][b] => s.rec[a][b]
<1> DEFINE made == NewPipe(s, <<0, 0>>, new)
           p == Len(s.due) + 1
<1>1. /\ Typed(s) /\ <<0, 0>> \in Tags /\ new \in Fds \X Fds
      /\ Typed(ToUser(s, i, r, new))
  BY ToUserTyped DEF Sound, Tags, Fresh
<1>2. CASE ~(valid[r] /\ ~s.rec[i][r])
  <2> DEFINE t == [s EXCEPT !.ok = FALSE]
  <2>1. ToUser(s, i, r, new) = t
    BY <1>2 DEF ToUser
  <2>2. /\ t.vec = s.vec /\ t.rec = s.rec /\ t.np = s.np /\ t.wr = s.wr
        /\ t.rd = s.rd /\ t.ends = s.ends
        /\ t.due = s.due /\ t.out = s.out
    BY <1>1 DEF Typed, Frames
  <2>3. Typed(t)
    BY <1>1, <2>1
  <2> HIDE DEF t
  <2>4. Marks(t)
    BY <2>2, MarksSame DEF Sound
  <2>5. Grows(t) /\ Counts(t, i) /\ Keeps(t) /\ Output(t)
    BY <2>2 DEF Sound, Grows, Counts, Keeps, Output
  <2> QED
    BY <2>1, <2>2, <2>3, <2>4, <2>5 DEF Sound
<1>3. CASE valid[r] /\ ~s.rec[i][r]
  <2> DEFINE records == [made.rec EXCEPT ![i][r] = TRUE]
             table == [made.np EXCEPT ![i][r] = made.out]
             t == [made EXCEPT !.rec[i][r] = TRUE, !.np[i][r] = made.out]
  <2>1. ToUser(s, i, r, new) = t
    BY <1>3 DEF ToUser
  <2>2. Sound(made, i)
    BY <1>1, NewPipeSound
  <2>3. /\ made.rec = s.rec /\ made.np = s.np
        /\ made.rd = s.rd \cup {p} /\ made.wr = s.wr \cup {p}
        /\ made.out = p /\ Len(made.due) = p /\ Len(s.due) \in Nat
        /\ made.due[p] = <<0, 0>>
    BY <1>1, NewPipeFacts
  <2>4. made \in Frames(p)
    BY <2>2, <2>3 DEF Sound, Typed
  <2>5. \A a, b \in Slots : made.np[a][b] \in 0..Len(s.due)
    <3>1. s.np \in Cells(0..Len(s.due))
      BY <1>1 DEF Typed, Frames
    <3> QED
      BY <2>3, <3>1 DEF Cells
  <2>6. /\ p # 0 /\ p \in 0..p /\ \A a, b \in Slots : made.np[a][b] # p
    BY <2>3, <2>5
  <2>7. made.rec \in Cells(BOOLEAN) /\ made.np \in Cells(0..p)
    BY <2>4 DEF Frames
  <2> HIDE DEF made, p
  <2>8. \A a, b \in Slots : ~(a = i /\ b = r) => /\ records[a][b] = made.rec[a][b]
                                                 /\ table[a][b] = made.np[a][b]
    <3> SUFFICES ASSUME NEW a \in Slots, NEW b \in Slots, ~(a = i /\ b = r)
                 PROVE  records[a][b] = made.rec[a][b] /\ table[a][b] = made.np[a][b]
      OBVIOUS
    <3>1. CASE a # i
      BY <2>7, <3>1 DEF Cells
    <3>2. CASE a = i /\ b # r
      BY <2>7, <3>2 DEF Cells
    <3> QED
      BY <3>1, <3>2
  <2>9. table[i][r] = p
    BY <2>3, <2>7 DEF Cells
  <2>10. t = [made EXCEPT !.rec = records, !.np = table]
    BY <2>4 DEF Frames
  <2> HIDE DEF records, table
  <2>11. /\ t.vec = made.vec /\ t.rec = records /\ t.np = table
         /\ t.rd = made.rd /\ t.wr = made.wr /\ t.ends = made.ends
         /\ t.due = made.due /\ t.out = made.out
    BY <2>4, <2>10 DEF Frames
  <2>12. Typed(t)
    BY <1>1, <2>1
  <2> HIDE DEF t
  <2>13. Grows(t) /\ Counts(t, i) /\ Output(t) /\ Distinct(t.rd, t.wr, t.ends)
    BY <2>2, <2>11 DEF Sound, Grows, Counts, Output
  <2>14. Marks(t)
    <3>1. \A a, b \in Slots : t.np[a][b] # 0 => t.due[t.np[a][b]] = <<0, 0>>
      <4> SUFFICES ASSUME NEW a \in Slots, NEW b \in Slots, table[a][b] # 0
                   PROVE  made.due[table[a][b]] = <<0, 0>>
        BY <2>11
      <4>1. CASE a = i /\ b = r
        BY <2>3, <2>9, <4>1
      <4>2. CASE ~(a = i /\ b = r)
        <5>1. table[a][b] = made.np[a][b]
          BY <2>8, <4>2
        <5>2. made.due[made.np[a][b]] = <<0, 0>>
          BY <2>2, <5>1 DEF Sound, Marks
        <5> QED
          BY <5>1, <5>2
      <4> QED
        BY <4>1, <4>2
    <3>2. \A a, b, x, y \in Slots :
            table[a][b] # 0 /\ table[a][b] = table[x][y] => a = x /\ b = y
      <4> SUFFICES ASSUME NEW a \in Slots, NEW b \in Slots, NEW x \in Slots,
                          NEW y \in Slots, table[a][b] # 0,
                          table[a][b] = table[x][y]
                   PROVE  a = x /\ b = y
        OBVIOUS
      <4>1. CASE a = i /\ b = r
        BY <2>6, <2>8, <2>9, <4>1
      <4>2. CASE x = i /\ y = r
        BY <2>6, <2>8, <2>9, <4>2
      <4>3. CASE ~(a = i /\ b = r) /\ ~(x = i /\ y = r)
        <5>1. made.np[a][b] # 0 /\ made.np[a][b] = made.np[x][y]
          BY <2>8, <4>3
        <5> QED
          BY <2>2, <5>1 DEF Sound, Marks
      <4> QED
        BY <4>1, <4>2, <4>3
    <3>3. \A a, b, x, y \in Slots :
            t.np[a][b] # 0 /\ t.np[a][b] = t.np[x][y] => a = x /\ b = y
      <4> SUFFICES ASSUME NEW a \in Slots, NEW b \in Slots, NEW x \in Slots,
                          NEW y \in Slots, t.np[a][b] # 0, t.np[a][b] = t.np[x][y]
                   PROVE  a = x /\ b = y
        OBVIOUS
      <4>1. table[a][b] # 0 /\ table[a][b] = table[x][y]
        BY <2>11
      <4> QED
        BY <3>2, <4>1
    <3> QED
      BY <3>1, <3>3, Zenon DEF Marks
  <2>15. Keeps(t)
    <3> SUFFICES ASSUME NEW a \in Slots, NEW b \in Slots, records[a][b]
                 PROVE  /\ valid[a] /\ valid[b] /\ table[a][b] # 0
                        /\ a # b => table[a][b] \in made.rd \cap made.wr
      BY <2>11 DEF Keeps
    <3>1. CASE a = i /\ b = r
      BY <1>3, <2>3, <2>6, <2>9, <3>1
    <3>2. CASE ~(a = i /\ b = r)
      BY <2>2, <2>8, <3>2 DEF Sound, Keeps
    <3> QED
      BY <3>1, <3>2
  <2>16. \A a, b \in Slots : ~(a = i /\ b = r) /\ t.rec[a][b] => s.rec[a][b]
    BY <2>3, <2>8, <2>11
  <2> QED
    BY <2>1, <2>12, <2>13, <2>14, <2>15, <2>16 DEF Sound
<1> QED
  BY <1>2, <1>3

LEMMA PutOutSound ==
  ASSUME Types, NEW i \in Slots, valid[i], NEW e \in Ends,
         NEW s, Sound(s, i), s.out = 0, NEW new, Fresh(s, new)
  PROVE  LET t == PutOut(s, i, e, new)
         IN /\ Sound(t, i)
            /\ e.end # "to" /\ t.out # 0 => t.due[t.out] # <<0, 0>>
            /\ \A a, b \in Slots :
                 ~(e.end = "to" /\ a = i /\ b = e.n) /\ t.rec[a][b] => s.rec[a][b]
<1>1. CASE e.end = "plain"
  <2>1. PutOut(s, i, e, new) = s
    BY <1>1 DEF PutOut
  <2> QED
    BY <2>1
<1>2. CASE e.end = "bar" /\ e.n \in 1..MaxN
  <2>1. PutOut(s, i, e, new) = Numbered(s, i, e.n, new)
    BY <1>2 DEF PutOut
  <2> QED
    BY <1>2, <2>1, NumberedSound
<1>3. CASE e.end = "to" /\ e.n \in Slots
  <2>1. PutOut(s, i, e, new) = ToUser(s, i, e.n, new)
    BY <1>3 DEF PutOut
  <2> DEFINE t == ToUser(s, i, e.n, new)
  <2>2. /\ Sound(t, i)
        /\ \A a, b \in Slots : ~(a = i /\ b = e.n) /\ t.rec[a][b] => s.rec[a][b]
    BY <1>3, ToUserSound
  <2> HIDE DEF t
  <2> QED
    BY <1>3, <2>1, <2>2 DEF t
<1> QED
  BY <1>1, <1>2, <1>3, EndFacts

(* After the parse a record the line takes its input from is cleared,      *)
(* unless the user writes to itself; a line waits for the user pipe it     *)
(* writes to.                                                              *)
LEMMA ParseSound ==
  ASSUME PipesInv, NEW i \in Slots, valid[i], NEW l \in Lines, NEW new \in NextPipe
  PROVE  LET s == Parse(i, l, new)
         IN /\ Sound(s, i)
            /\ s.ok /\ l.from # 0 /\ l.from # i => ~s.rec[l.from][i]
            /\ ~Waits(l) /\ s.out # 0 => s.due[s.out] # <<0, 0>>
<1> DEFINE s0 == Start(i)
<1>1. /\ Types /\ l.from \in Slots \cup {0} /\ l.out \in Ends
      /\ l.outFirst \in BOOLEAN
  BY ConstantFacts DEF PipesInv
<1>2. Sound(s0, i) /\ s0.out = 0 /\ Fresh(s0, new)
  BY StartSound, StartFacts
<1> HIDE DEF s0
<1>3. CASE l.outFirst
  <2> DEFINE s1 == PutOut(s0, i, l.out, new)
             s2 == TakeIn(s1, i, l.from)
  <2>1. Parse(i, l, new) = IF ~s1.ok THEN s1 ELSE s2
    BY <1>3 DEF Parse, s0
  <2>2. Sound(s1, i) /\ (l.out.end # "to" /\ s1.out # 0 => s1.due[s1.out] # <<0, 0>>)
    BY <1>1, <1>2, PutOutSound
  <2> HIDE DEF s1
  <2>3. /\ Sound(s2, i) /\ s2.out = s1.out /\ s2.due = s1.due
        /\ s2.ok /\ l.from # 0 => ~s2.rec[l.from][i]
    BY <1>1, <2>2, TakeInSound
  <2> HIDE DEF s2
  <2> QED
    BY <2>1, <2>2, <2>3 DEF Waits
<1>4. CASE ~l.outFirst
  <2> DEFINE s1 == TakeIn(s0, i, l.from)
             s2 == PutOut(s1, i, l.out, new)
  <2>1. Parse(i, l, new) = IF ~s1.ok THEN s1 ELSE s2
    BY <1>4 DEF Parse, s0
  <2>2. /\ Sound(s1, i) /\ s1.out = 0
        /\ s1.rd = s0.rd /\ s1.wr = s0.wr /\ s1.ends = s0.ends
        /\ s1.ok /\ l.from # 0 => ~s1.rec[l.from][i]
    BY <1>1, <1>2, TakeInSound
  <2>3. Fresh(s1, new)
    BY <1>2, <2>2 DEF Fresh
  <2> HIDE DEF s1
  <2>4. /\ Sound(s2, i)
        /\ l.out.end # "to" /\ s2.out # 0 => s2.due[s2.out] # <<0, 0>>
        /\ \A a, b \in Slots :
             ~(l.out.end = "to" /\ a = i /\ b = l.out.n) /\ s2.rec[a][b]
                => s1.rec[a][b]
    BY <1>1, <2>2, <2>3, PutOutSound
  <2> HIDE DEF s2
  <2>5. s1.ok /\ l.from # 0 /\ l.from # i => ~s2.rec[l.from][i]
    BY <1>1, <2>2, <2>4
  <2> QED
    BY <2>1, <2>2, <2>4, <2>5 DEF Waits
<1> QED
  BY <1>1, <1>3, <1>4

-----------------------------------------------------------------------------
(* Closing by numbers closes what was meant, when all of it is open.       *)

LEMMA CloseExact ==
  ASSUME NEW s, Distinct(s.rd, s.wr, s.ends), NEW P \in SUBSET (s.rd \cap s.wr)
  PROVE  LET before == WriteNumbers(s, P)
             after  == before \cup ReadNumbers(s, P)
         IN /\ Reading(s, before) = s.rd /\ Writing(s, before) = s.wr \ P
            /\ Reading(s, after) = s.rd \ P /\ Writing(s, after) = s.wr \ P
            /\ \A d \in Clients : fd[d] \notin after
<1> DEFINE before == WriteNumbers(s, P)
           after  == before \cup ReadNumbers(s, P)
<1>1. \A p \in s.rd : s.ends[p][1] \notin before
                      /\ (s.ends[p][1] \in ReadNumbers(s, P) <=> p \in P)
  BY DEF Distinct, WriteNumbers, ReadNumbers
<1>2. \A p \in s.wr : s.ends[p][2] \notin ReadNumbers(s, P)
                      /\ (s.ends[p][2] \in before <=> p \in P)
  BY DEF Distinct, WriteNumbers, ReadNumbers
<1>3. \A d \in Clients : fd[d] \notin after
  BY DEF Distinct, WriteNumbers, ReadNumbers
<1> HIDE DEF before
<1>4. Reading(s, before) = s.rd /\ Reading(s, after) = s.rd \ P
  BY <1>1 DEF Reading
<1>5. Writing(s, before) = s.wr \ P /\ Writing(s, after) = s.wr \ P
  BY <1>2 DEF Writing
<1> QED
  BY <1>3, <1>4, <1>5 DEF before

(* What dup2 gives a command: the pipe that the table means. *)
LEMMA DupExact ==
  ASSUME NEW s, Distinct(s.rd, s.wr, s.ends), NEW P \in SUBSET (s.rd \cap s.wr)
  PROVE  /\ \A p \in P \cup {0} : \A q \in Dup(s, s.rd, 1, p) :
              q = p \/ q = 0
         /\ \A p \in s.wr \cup {0} : \A q \in Dup(s, s.wr \ P, 2, p) :
              q = 0 \/ (q = p /\ q \notin P)
<1>1. \A p \in P \cup {0} : \A q \in Same(s, s.rd, 1, p) : q = p
  BY DEF Distinct, Same
<1>2. \A p \in s.wr \cup {0} : \A q \in Same(s, s.wr \ P, 2, p) : q = p /\ q \notin P
  BY DEF Distinct, Same
<1> QED
  BY <1>1, <1>2 DEF Dup

(* The numbers stay distinct when no descriptor is added. *)
LEMMA NumbersLess ==
  ASSUME NEW R, NEW W, NEW E \in Seq(Fds \X Fds), Distinct(R, W, E),
         R \subseteq 1..Len(E), W \subseteq 1..Len(E),
         rd' \subseteq R, wr' \subseteq W, ends' = E,
         \A c \in Clients : fd'[c] \in {fd[c], 0}
  PROVE  Numbers'
<1>1. \A p \in 1..Len(E) : E[p][1] # 0 /\ E[p][2] # 0
  <2>1. \A p \in 1..Len(E) : E[p] \in Fds \X Fds
    OBVIOUS
  <2> QED
    BY <2>1, ConstantFacts
<1>2. \A c \in Clients : /\ \A p \in rd' : fd'[c] # E[p][1]
                         /\ \A p \in wr' : fd'[c] # E[p][2]
  BY <1>1 DEF Distinct
<1>3. /\ \A p, q \in rd' : E[p][1] = E[q][1] => p = q
      /\ \A p, q \in wr' : E[p][2] = E[q][2] => p = q
      /\ \A p \in rd', q \in wr' : E[p][1] # E[q][2]
  BY DEF Distinct
<1> QED
  BY <1>2, <1>3 DEF Numbers, Distinct

LEMMA NumbersSame ==
  ASSUME Types, Numbers, UNCHANGED <<ends, rd, wr>>,
         \A c \in Clients : fd'[c] \in {fd[c], 0}
  PROVE  Numbers'
<1>1. rd \subseteq 1..Len(ends) /\ wr \subseteq 1..Len(ends)
      /\ ends \in Seq(Fds \X Fds)
  BY DEF Types, PipeTypes, Made
<1> QED
  BY <1>1, NumbersLess DEF Numbers

-----------------------------------------------------------------------------
(* The tables. *)

LEMMA TablesSame ==
  ASSUME TablesInv, UNCHANGED <<vec, rec, np, rd, wr, count, due>>,
         \A i \in Slots : valid[i] => valid'[i]
  PROVE  TablesInv'
<1>1. UserPipes'
  BY DEF TablesInv, UserPipes
<1>2. VectorsOnTime'
  BY DEF TablesInv, VectorsOnTime
<1> QED
  BY <1>1, <1>2 DEF TablesInv

(* A line of user i, of which the parse leaves s, keeps v of the vector    *)
(* and closes the pipes P: user pipes, and numbered pipes that are due.    *)
Keeping(i, s, v, P) ==
  /\ count' = [count EXCEPT ![i] = @ + 1]
  /\ np' = s.np /\ due' = s.due /\ rd' = s.rd \ P /\ wr' = s.wr \ P
  /\ v \subseteq s.vec /\ vec' = [vec EXCEPT ![i] = v]
  /\ \A p \in P : s.due[p] = <<0, 0>> \/ s.due[p] = <<i, count[i] + 1>>
  /\ \A e \in v : e.pipe \notin P
  /\ \A a, b \in Slots : rec'[a][b] =>
       /\ s.rec[a][b] /\ valid'[a] /\ valid'[b]
       /\ a # b => s.np[a][b] \notin P

LEMMA TablesStep ==
  ASSUME Types, TablesInv, NEW i \in Slots, NEW s, Sound(s, i), NEW v, NEW P,
         Keeping(i, s, v, P)
  PROVE  TablesInv'
<1>1. /\ Typed(s) /\ Grows(s) /\ 0 \notin Slots
      /\ count \in [Slots -> Nat] /\ count[i] \in Nat
      /\ vec \in [Slots -> SUBSET [rest : Ranks, pipe : 1..Len(due)]]
  BY ConstantFacts DEF Types, PipeTypes, Sound, Made
<1>2. count'[i] = count[i] + 1 /\ \A j \in Slots : j # i => count'[j] = count[j]
  BY <1>1 DEF Keeping
<1>3. vec'[i] = v /\ \A j \in Slots : j # i => vec'[j] = vec[j]
  BY <1>1 DEF Keeping
<1>4. \A e \in v : /\ due'[e.pipe] = <<i, count'[i] + e.rest>>
                   /\ e.pipe \in rd' \cap wr'
  BY <1>2 DEF Keeping, Sound, Counts
<1>5. ASSUME NEW j \in Slots, j # i, NEW e \in vec[j]
      PROVE  /\ due'[e.pipe] = <<j, count'[j] + e.rest>>
             /\ e.pipe \in rd' \cap wr'
  <2>1. e.pipe \in 1..Len(due) /\ due[e.pipe] = <<j, count[j] + e.rest>>
        /\ e.pipe \in rd \cap wr
    BY <1>1 DEF TablesInv, VectorsOnTime
  <2>2. s.due[e.pipe] = <<j, count[j] + e.rest>> /\ e.pipe \in s.rd \cap s.wr
    BY <1>1, <2>1 DEF Grows
  <2>3. e.pipe \notin P
    BY <1>1, <1>5, <2>2 DEF Keeping
  <2>4. count'[j] = count[j]
    BY <1>2, <1>5
  <2> QED
    BY <2>2, <2>3, <2>4 DEF Keeping
<1>6. VectorsOnTime'
  BY <1>3, <1>4, <1>5 DEF VectorsOnTime
<1>7. UserPipes'
  <2>1. \A a, b \in Slots : np'[a][b] # 0 => due'[np'[a][b]] = <<0, 0>>
    BY DEF Keeping, Sound, Marks
  <2>2. \A a, b, x, y \in Slots :
          np'[a][b] # 0 /\ np'[a][b] = np'[x][y] => a = x /\ b = y
    <3> SUFFICES ASSUME NEW a \in Slots, NEW b \in Slots, NEW x \in Slots,
                        NEW y \in Slots, s.np[a][b] # 0, s.np[a][b] = s.np[x][y]
                 PROVE  a = x /\ b = y
      BY DEF Keeping
    <3> QED
      BY DEF Sound, Marks
  <2>3. \A a, b \in Slots : rec'[a][b] =>
          /\ valid'[a] /\ valid'[b] /\ np'[a][b] # 0
          /\ a # b => np'[a][b] \in rd' \cap wr'
    BY DEF Keeping, Sound, Keeps
  <2> QED
    BY <2>1, <2>2, <2>3, Zenon DEF UserPipes
<1> QED
  BY <1>6, <1>7 DEF TablesInv

-----------------------------------------------------------------------------
(* The commands. *)

(* No command starts; the server goes into no wait that it did not need.   *)
LEMMA CommandsSame ==
  ASSUME CommandsInv, due' = due, kids' \subseteq kids,
         \/ srv' = srv \/ srv' = "dead"
         \/ kids = {} \/ srv \notin {"wait", "dead"}
  PROVE  CommandsInv'
<1>1. WriterAwaited'
  BY DEF CommandsInv, WriterAwaited
<1>2. WriterAlone'
  BY DEF CommandsInv, WriterAlone
<1>3. CommandsOnTime'
  BY DEF CommandsInv, CommandsOnTime
<1> QED
  BY <1>1, <1>2, <1>3 DEF CommandsInv

(* What is known of the running commands stays so when pipes are added.    *)
LEMMA OldCommands ==
  ASSUME Types, NEW s, Typed(s), Grows(s), due' = s.due, NEW k \in kids
  PROVE  /\ k.in \in Made \cup {0} /\ k.out \in Made \cup {0}
         /\ k.in # 0 => due'[k.in] = due[k.in]
         /\ k.out # 0 => due'[k.out] = due[k.out]
<1>1. k \in [id : Slots \X Nat, in : Made \cup {0}, out : Made \cup {0},
             held : SUBSET Made]
  BY DEF Types, Commands
<1> QED
  BY <1>1 DEF Grows, Made

(* A line starts no command. *)
LEMMA CommandsWait ==
  ASSUME Types, CommandsInv, srv = "serve", NEW s, Typed(s), Grows(s),
         due' = s.due, kids' = kids
  PROVE  CommandsInv'
<1>1. \A j \in kids :
        /\ j.in # 0 => due'[j.in] = due[j.in]
        /\ j.out # 0 => due'[j.out] = due[j.out]
  BY OldCommands
<1>2. \A j \in kids : j.out # 0 => due'[j.out] # <<0, 0>>
  BY <1>1 DEF CommandsInv, WriterAwaited
<1>3. WriterAwaited' /\ WriterAlone'
  BY <1>2 DEF WriterAwaited, WriterAlone
<1>4. CommandsOnTime'
  BY <1>1 DEF CommandsInv, CommandsOnTime
<1> QED
  BY <1>3, <1>4 DEF CommandsInv

(* A command starts on a line of which the parse left s. *)
LEMMA CommandsStep ==
  ASSUME Types, CommandsInv, srv = "serve",
         NEW s, Typed(s), Grows(s), Output(s), due' = s.due,
         NEW k, kids' = kids \cup {k},
         k.out \in {s.out, 0},
         k.in # 0 => k.in # k.out,
         k.in # 0 /\ due'[k.in] # <<0, 0>> => due'[k.in] = k.id,
         k.out # 0 /\ due'[k.out] = <<0, 0>> => srv' = "wait"
  PROVE  CommandsInv'
<1>1. \A j \in kids :
        /\ j.in \in Made \cup {0} /\ j.out \in Made \cup {0}
        /\ j.in # 0 => due'[j.in] = due[j.in]
        /\ j.out # 0 => due'[j.out] = due[j.out]
  BY OldCommands
<1>2. \A j \in kids : j.out # 0 => due'[j.out] # <<0, 0>>
  BY <1>1 DEF CommandsInv, WriterAwaited
<1>3. WriterAwaited'
  BY <1>2 DEF WriterAwaited
<1>4. CommandsOnTime'
  BY <1>1 DEF CommandsInv, CommandsOnTime
<1>5. WriterAlone'
  <2> SUFFICES ASSUME NEW a \in kids', NEW b \in kids', a.in # 0,
                      due'[a.in] = <<0, 0>>, b.out = a.in
               PROVE  FALSE
    BY DEF WriterAlone
  <2>1. b = k
    BY <1>2
  <2>2. a \in kids
    BY <2>1
  <2>3. a.in \in 1..Len(due)
    BY <1>1, <2>2 DEF Made
  <2>4. Len(due) \in Nat
    BY DEF Types, PipeTypes
  <2>5. s.out = a.in /\ Len(due) < s.out
    BY <2>1 DEF Output
  <2> QED
    BY <2>3, <2>4, <2>5
<1> QED
  BY <1>3, <1>4, <1>5 DEF CommandsInv

-----------------------------------------------------------------------------
(* The lines. *)

LEMMA BuiltinStep ==
  ASSUME Types, Once, NEW c \in Clients, NEW i \in Slots, Builtin(c, i)
  PROVE  Numbers' /\ TablesInv' /\ CommandsInv'
<1> DEFINE s == Start(i)
<1>1. PipesInv /\ CommandsInv /\ TablesInv /\ Numbers /\ srv = "serve"
  BY LineFacts DEF Once, PipesInv, Builtin
<1>2. /\ Sound(s, i) /\ s.vec = CountDown(vec[i]) /\ s.rec = rec /\ s.np = np
      /\ s.ends = ends /\ s.rd = rd /\ s.wr = wr /\ s.due = due
  BY <1>1, StartSound, StartFacts
<1>3. /\ count' = [count EXCEPT ![i] = @ + 1] /\ vec' = [vec EXCEPT ![i] = s.vec]
      /\ rec' = rec /\ np' = s.np /\ due' = s.due /\ ends' = s.ends
      /\ rd' = s.rd /\ wr' = s.wr /\ kids' = kids
      /\ fd' = fd /\ valid' = valid
  BY BuiltinTables DEF users
<1> HIDE DEF s
<1>4. Numbers'
  BY <1>1, <1>2, <1>3, NumbersSame
<1>5. CommandsInv'
  BY <1>1, <1>2, <1>3, CommandsSame
<1>6. TablesInv'
  <2> DEFINE P == {}
  <2>1. \A a, b \in Slots : rec'[a][b] =>
          /\ s.rec[a][b] /\ valid'[a] /\ valid'[b]
          /\ a # b => s.np[a][b] \notin P
    BY <1>1, <1>2, <1>3 DEF TablesInv, UserPipes
  <2>2. rd' = s.rd \ P /\ wr' = s.wr \ P /\ s.vec \in SUBSET s.vec
    BY <1>3
  <2> HIDE DEF P
  <2>3. \A p \in P : s.due[p] = <<0, 0>> \/ s.due[p] = <<i, count[i] + 1>>
    BY DEF P
  <2>4. \A e \in s.vec : e.pipe \notin P
    BY DEF P
  <2>5. Keeping(i, s, s.vec, P)
    BY <1>3, <2>1, <2>2, <2>3, <2>4 DEF Keeping
  <2> QED
    BY <1>1, <1>2, <2>5, TablesStep
<1> QED
  BY <1>4, <1>5, <1>6

LEMMA ExitStep ==
  ASSUME Types, Once, NEW c \in Clients, NEW i \in Slots, Exit(c, i)
  PROVE  Numbers' /\ TablesInv' /\ CommandsInv'
<1> DEFINE s == Start(i)
<1>1. PipesInv /\ CommandsInv /\ TablesInv /\ Numbers /\ srv = "serve"
  BY LineFacts DEF Once, PipesInv, Exit
<1>2. /\ Sound(s, i) /\ s.vec = CountDown(vec[i]) /\ s.rec = rec /\ s.np = np
      /\ s.ends = ends /\ s.rd = rd /\ s.wr = wr /\ s.due = due
  BY <1>1, StartSound, StartFacts
<1>3. /\ count' = [count EXCEPT ![i] = @ + 1] /\ vec' = [vec EXCEPT ![i] = s.vec]
      /\ np' = s.np /\ due' = s.due /\ ends' = s.ends
      /\ rd' = s.rd /\ wr' = s.wr /\ kids' = kids
      /\ \A a, b \in Slots : rec'[a][b] <=> rec[a][b] /\ i \notin {a, b}
  BY ExitTables
<1> HIDE DEF s
<1>4. \A d \in Clients : fd'[d] \in {fd[d], 0}
  BY DEF Types, ClientTypes, Exit, Close
<1>5. Numbers'
  BY <1>1, <1>2, <1>3, <1>4, NumbersSame
<1>6. CommandsInv'
  BY <1>1, <1>2, <1>3, CommandsSame
<1>7. TablesInv'
  <2> DEFINE P == {}
  <2>1. \A a \in Slots : a # i => valid'[a] = valid[a]
    BY DEF Types, ClientTypes, Exit
  <2>2. \A a, b \in Slots : rec'[a][b] =>
          /\ s.rec[a][b] /\ valid'[a] /\ valid'[b]
          /\ a # b => s.np[a][b] \notin P
    BY <1>1, <1>2, <1>3, <2>1 DEF TablesInv, UserPipes
  <2>3. rd' = s.rd \ P /\ wr' = s.wr \ P /\ s.vec \in SUBSET s.vec
    BY <1>3
  <2> HIDE DEF P
  <2>4. \A p \in P : s.due[p] = <<0, 0>> \/ s.due[p] = <<i, count[i] + 1>>
    BY DEF P
  <2>5. \A e \in s.vec : e.pipe \notin P
    BY DEF P
  <2>6. Keeping(i, s, s.vec, P)
    BY <1>3, <2>2, <2>3, <2>4, <2>5 DEF Keeping
  <2> QED
    BY <1>1, <1>2, <2>6, TablesStep
<1> QED
  BY <1>5, <1>6, <1>7

LEMMA RefusedStep ==
  ASSUME Types, Once, NEW c \in Clients, NEW i \in Slots, NEW l \in Lines,
         Refused(c, i, l)
  PROVE  Numbers' /\ TablesInv' /\ CommandsInv'
<1>1. /\ PipesInv /\ CommandsInv /\ TablesInv /\ srv = "serve" /\ valid[i]
      /\ kids' = kids /\ valid' = valid /\ fd' = fd
  BY LineFacts DEF Once, PipesInv, Refused, users
<1>2. PICK new \in NextPipe :
        LET s == Parse(i, l, new)
        IN /\ ~s.ok /\ Parsed(i, s)
           /\ vec' = [vec EXCEPT ![i] = s.vec] /\ rd' = s.rd /\ wr' = s.wr
  BY DEF Refused
<1> DEFINE s == Parse(i, l, new)
<1>3. Sound(s, i)
  BY <1>1, ParseSound
<1>4. /\ count' = [count EXCEPT ![i] = @ + 1]
      /\ rec' = s.rec /\ np' = s.np /\ due' = s.due /\ ends' = s.ends
      /\ rd' = s.rd /\ wr' = s.wr /\ vec' = [vec EXCEPT ![i] = s.vec]
  BY <1>2 DEF Parsed, Counted
<1> HIDE DEF s
<1>5. Typed(s) /\ Grows(s) /\ Distinct(s.rd, s.wr, s.ends)
  BY <1>3 DEF Sound
<1>6. Numbers'
  <2>1. s.ends \in Seq(Fds \X Fds) /\ s.rd \subseteq 1..Len(s.ends)
        /\ s.wr \subseteq 1..Len(s.ends)
    BY <1>5 DEF Typed, Frames
  <2> QED
    BY <1>1, <1>4, <1>5, <2>1, NumbersLess
<1>7. CommandsInv'
  BY <1>1, <1>4, <1>5, CommandsWait
<1>8. TablesInv'
  <2> DEFINE P == {}
  <2>1. rd' = s.rd \ P /\ wr' = s.wr \ P
    BY <1>4
  <2> HIDE DEF P
  <2>2. /\ \A p \in P : s.due[p] = <<0, 0>> \/ s.due[p] = <<i, count[i] + 1>>
        /\ \A e \in s.vec : e.pipe \notin P
    BY DEF P
  <2>3. \A a, b \in Slots : rec'[a][b] =>
          /\ s.rec[a][b] /\ valid'[a] /\ valid'[b]
          /\ a # b => s.np[a][b] \notin P
    BY <1>1, <1>3, <1>4 DEF Sound, Keeps, P
  <2>4. Keeping(i, s, s.vec, P)
    BY <1>4, <2>1, <2>2, <2>3 DEF Keeping
  <2> QED
    BY <1>1, <1>3, <2>4, TablesStep
<1> QED
  BY <1>6, <1>7, <1>8

(* The pipes that a command line closes, when all of them are open.        *)
LEMMA ShutFacts ==
  ASSUME Types, NEW i \in Slots, NEW l \in Lines, NEW s, Sound(s, i),
         Shut(s, i, l) \subseteq s.rd \cap s.wr
  PROVE  /\ 0 \notin Shut(s, i, l)
         /\ \A p \in Due(s.vec) : s.due[p] = <<i, count[i] + 1>>
         /\ \A p \in Used(s, i, l) : /\ s.due[p] = <<0, 0>>
                                     /\ l.from \in Slots /\ p = s.np[l.from][i]
         /\ \A e \in s.vec : e.rest # 0 => e.pipe \notin Shut(s, i, l)
<1>1. /\ Typed(s) /\ Counts(s, i) /\ Marks(s) /\ count[i] \in Nat /\ i # 0
      /\ l.from \in Slots \cup {0}
  BY ConstantFacts DEF Sound, Types, PipeTypes
<1>2. s.vec \in SUBSET [rest : Ranks, pipe : 1..Len(s.due)]
      /\ s.rd \subseteq 1..Len(s.due)
  BY <1>1 DEF Typed, Frames
<1>3. 0 \notin Shut(s, i, l)
  BY <1>2
<1>4. \A p \in Due(s.vec) : s.due[p] = <<i, count[i] + 1>>
  <2> SUFFICES ASSUME NEW e \in s.vec, e.rest = 0
               PROVE  s.due[e.pipe] = <<i, count[i] + 1>>
    BY DEF Due
  <2>1. count[i] + 1 + e.rest = count[i] + 1
    BY <1>1
  <2> QED
    BY <1>1, <2>1 DEF Counts
<1>5. ASSUME NEW p \in Used(s, i, l)
      PROVE  s.due[p] = <<0, 0>> /\ l.from \in Slots /\ p = s.np[l.from][i]
  <2>1. l.from \in Slots /\ p = s.np[l.from][i]
    BY <1>1 DEF Used
  <2>2. p # 0
    BY <1>3 DEF Shut
  <2> QED
    BY <1>1, <2>1, <2>2 DEF Marks
<1>6. ASSUME NEW e \in s.vec, e.rest # 0
      PROVE  e.pipe \notin Shut(s, i, l)
  <2>1. s.due[e.pipe] = <<i, count[i] + 1 + e.rest>> /\ e.rest \in Int
    BY <1>1, <1>2 DEF Counts, Ranks
  <2>2. count[i] + 1 + e.rest # count[i] + 1
    BY <1>1, <1>6, <2>1
  <2>3. s.due[e.pipe] # <<i, count[i] + 1>> /\ s.due[e.pipe] # <<0, 0>>
    BY <1>1, <2>1, <2>2
  <2> QED
    BY <1>4, <1>5, <2>3 DEF Shut
<1> QED
  BY <1>3, <1>4, <1>5, <1>6

(* A command line that closes nothing a second time, from what its parse   *)
(* left.                                                                   *)
LEMMA EffectStep ==
  ASSUME Types, Once, NEW c \in Clients, NEW i \in Slots, NEW l \in Lines, NEW s,
         srv = "serve", valid' = valid, ~twice', Effect(c, i, l, s), Sound(s, i),
         l.from # 0 /\ l.from # i => ~s.rec[l.from][i],
         ~Waits(l) /\ s.out # 0 => s.due[s.out] # <<0, 0>>
  PROVE  Numbers' /\ TablesInv' /\ CommandsInv' /\ fd' = fd
<1> DEFINE P == Shut(s, i, l)
<1>1. /\ TablesInv /\ CommandsInv /\ count[i] \in Nat
      /\ Typed(s) /\ Grows(s) /\ Output(s) /\ Distinct(s.rd, s.wr, s.ends)
  BY DEF Once, Sound, Types, PipeTypes
<1>2. P \in SUBSET (s.rd \cap s.wr)
  BY DEF Effect
<1>3. /\ 0 \notin P /\ P = Due(s.vec) \cup Used(s, i, l)
      /\ \A p \in Due(s.vec) : s.due[p] = <<i, count[i] + 1>>
      /\ \A p \in Used(s, i, l) : /\ s.due[p] = <<0, 0>>
                                  /\ l.from \in Slots /\ p = s.np[l.from][i]
      /\ \A e \in s.vec : e.rest # 0 => e.pipe \notin P
  BY <1>2, ShutFacts DEF Shut
<1> DEFINE before == Before(s, i, l)
           after == After(s, i, l)
<1>4. /\ Reading(s, before) = s.rd /\ Writing(s, before) = s.wr \ P
      /\ Reading(s, after) = s.rd \ P /\ Writing(s, after) = s.wr \ P
      /\ \A d \in Clients : fd[d] \notin after
  BY <1>1, <1>2, CloseExact DEF Before, After
<1>5. /\ rec' = s.rec /\ np' = s.np /\ ends' = s.ends /\ due' = s.due
      /\ count' = [count EXCEPT ![i] = @ + 1]
      /\ vec' = [vec EXCEPT ![i] = {e \in s.vec : e.rest # 0}]
      /\ Fork(i, l, s, before)
      /\ rd' = Reading(s, after) /\ wr' = Writing(s, after)
  BY DEF Effect
<1>6. fd' = fd /\ (Waits(l) => srv' = "wait")
  <2>1. {d \in Clients : fd[d] \in after} = {}
    BY <1>4
  <2>2. fd' = [d \in Clients |-> IF d \in {e \in Clients : fd[e] \in after} THEN 0
                                 ELSE fd[d]]
    BY DEF Effect
  <2>3. fd \in [Clients -> Fds \cup {0}]
    BY DEF Types, ClientTypes
  <2>4. fd' = fd
    BY <2>1, <2>2, <2>3
  <2>5. Waits(l) => srv' = "wait"
    BY <2>1 DEF Effect
  <2> QED
    BY <2>4, <2>5
<1> HIDE DEF P, before, after
<1>7. rd' = s.rd \ P /\ wr' = s.wr \ P
  BY <1>4, <1>5
<1>8. Numbers'
  <2>1. s.ends \in Seq(Fds \X Fds) /\ s.rd \subseteq 1..Len(s.ends)
        /\ s.wr \subseteq 1..Len(s.ends)
    BY <1>1 DEF Typed, Frames
  <2> QED
    BY <1>1, <1>5, <1>6, <1>7, <2>1, NumbersLess
<1>9. TablesInv'
  <2> DEFINE v == {e \in s.vec : e.rest # 0}
  <2>1. \A a, b \in Slots : s.rec[a][b] /\ a # b => s.np[a][b] \notin P
    <3> SUFFICES ASSUME NEW a \in Slots, NEW b \in Slots, s.rec[a][b], a # b,
                        s.np[a][b] \in P
                 PROVE  FALSE
      OBVIOUS
    <3>1. s.np[a][b] # 0 /\ s.due[s.np[a][b]] = <<0, 0>>
      BY DEF Sound, Keeps, Marks
    <3>2. s.np[a][b] \in Used(s, i, l)
      <4>1. i # 0
        BY ConstantFacts
      <4> QED
        BY <1>3, <3>1, <4>1
    <3>3. l.from \in Slots /\ s.np[a][b] = s.np[l.from][i]
      BY <1>3, <3>2
    <3>4. a = l.from /\ b = i
      BY <3>1, <3>3 DEF Sound, Marks
    <3> QED
      BY <3>4, ConstantFacts
  <2>2. \A a, b \in Slots : rec'[a][b] =>
          /\ s.rec[a][b] /\ valid'[a] /\ valid'[b]
          /\ a # b => s.np[a][b] \notin P
    BY <1>5, <2>1 DEF Sound, Keeps
  <2>3. v \subseteq s.vec /\ vec' = [vec EXCEPT ![i] = v]
        /\ \A e \in v : e.pipe \notin P
    BY <1>3, <1>5
  <2> HIDE DEF v
  <2>4. \A p \in P : s.due[p] = <<0, 0>> \/ s.due[p] = <<i, count[i] + 1>>
    BY <1>3
  <2>5. Keeping(i, s, v, P)
    BY <1>5, <1>7, <2>2, <2>3, <2>4 DEF Keeping
  <2> QED
    BY <1>1, <2>5, TablesStep
<1>10. CommandsInv'
  <2>1. PICK p \in IF Due(s.vec) # {} THEN Due(s.vec)
                   ELSE IF l.from # 0 THEN Used(s, i, l) ELSE {0} :
          \E in \in Dup(s, s.rd, 1, p), out \in Dup(s, s.wr \ P, 2, s.out) :
            kids' = kids \cup {[id |-> <<i, count[i] + 1>>, in |-> in, out |-> out,
                                held |-> s.wr \ P]}
    BY <1>4, <1>5 DEF Fork
  <2>2. PICK in \in Dup(s, s.rd, 1, p), out \in Dup(s, s.wr \ P, 2, s.out) :
          kids' = kids \cup {[id |-> <<i, count[i] + 1>>, in |-> in, out |-> out,
                              held |-> s.wr \ P]}
    BY <2>1
  <2> DEFINE k == [id |-> <<i, count[i] + 1>>, in |-> in, out |-> out,
                   held |-> s.wr \ P]
  <2>3. p \in P \cup {0} /\ s.out \in s.wr \cup {0}
    BY <1>1, <1>3 DEF Output
  <2>4. (in = p \/ in = 0) /\ (out = 0 \/ (out = s.out /\ out \notin P))
    BY <1>1, <1>2, <2>3, DupExact
  <2>5. k.id = <<i, count[i] + 1>> /\ k.in = in /\ k.out = out
        /\ kids' = kids \cup {k}
    BY <2>2
  <2> HIDE DEF k
  <2>6. k.out \in {s.out, 0} /\ (k.in # 0 => k.in # k.out)
    BY <2>3, <2>4, <2>5
  <2>7. k.in # 0 /\ due'[k.in] # <<0, 0>> => due'[k.in] = k.id
    BY <1>3, <1>5, <2>3, <2>4, <2>5
  <2>8. k.out # 0 /\ due'[k.out] = <<0, 0>> => srv' = "wait"
    BY <1>5, <1>6, <2>4, <2>5
  <2> QED
    BY <1>1, <1>5, <2>5, <2>6, <2>7, <2>8, CommandsStep
<1> QED
  BY <1>6, <1>8, <1>9, <1>10

LEMMA RunStep ==
  ASSUME Types, Once, NEW c \in Clients, NEW i \in Slots, NEW l \in Lines,
         Run(c, i, l), ~twice'
  PROVE  Numbers' /\ TablesInv' /\ CommandsInv' /\ fd' = fd
<1>1. PipesInv /\ srv = "serve" /\ valid[i] /\ valid' = valid
  BY LineFacts DEF Once, PipesInv, Run, users
<1>2. PICK new \in NextPipe : Effect(c, i, l, Parse(i, l, new))
  BY RunTables
<1> DEFINE s == Parse(i, l, new)
<1>3. /\ Sound(s, i)
      /\ s.ok /\ l.from # 0 /\ l.from # i => ~s.rec[l.from][i]
      /\ ~Waits(l) /\ s.out # 0 => s.due[s.out] # <<0, 0>>
  BY <1>1, ParseSound
<1>4. Effect(c, i, l, s) /\ s.ok
  BY <1>2 DEF Effect
<1> HIDE DEF s
<1> QED
  BY <1>1, <1>3, <1>4, EffectStep

-----------------------------------------------------------------------------
(* The clients and the select loop. *)

LEMMA SocketsSame ==
  ASSUME ClientInv, UNCHANGED <<fd, valid, sock>>,
         \A c \in Clients : conn'[c] \in {"away", "pending"} => fd[c] = 0,
         ghost => ghost', full' = full
  PROVE  ClientInv'
BY DEF ClientInv, Sockets, Leads

(* A client that loses its socket leaves those of the others as they are.  *)
LEMMA CloseSockets ==
  ASSUME ClientTypes, ClientInv, NEW c \in Clients, fd[c] # 0, Close(c)
  PROVE  /\ fd'[c] = 0
         /\ \A d \in Clients : d # c => fd'[d] = fd[d] /\ conn'[d] = conn[d]
         /\ \A d \in Clients : d # c /\ fd[d] # 0 => fd[d] # fd[c]
         /\ \A d \in Clients : fd'[d] \in {fd[d], 0}
<1>1. fd \in [Clients -> Fds \cup {0}]
      /\ conn \in [Clients -> {"away", "pending", "open", "gone"}]
  BY DEF ClientTypes
<1> QED
  BY <1>1 DEF Close, ClientInv, Sockets

LEMMA EndOfFileStep ==
  ASSUME Types, Once, NEW c \in Clients, EndOfFile(c)
  PROVE  Once'
<1>1. /\ ClientTypes /\ ClientInv /\ Numbers /\ TablesInv /\ CommandsInv
      /\ fd[c] # 0 /\ srv = "serve"
  BY TurnFacts DEF EndOfFile, Types, Once
<1>2. /\ fd'[c] = 0
      /\ \A d \in Clients : d # c => fd'[d] = fd[d] /\ conn'[d] = conn[d]
      /\ \A d \in Clients : d # c /\ fd[d] # 0 => fd[d] # fd[c]
      /\ \A d \in Clients : fd'[d] \in {fd[d], 0}
  BY <1>1, CloseSockets DEF EndOfFile
<1>3. /\ ghost' = TRUE /\ valid' = valid /\ sock' = sock /\ full' = full
      /\ UNCHANGED <<vec, rec, np, ends, rd, wr, kids, count, due>>
  BY DEF EndOfFile, users, pipes
<1>4. Sockets'
  BY <1>1, <1>2, <1>3 DEF ClientInv, Sockets
<1>5. Leads'
  BY <1>1, <1>2, <1>3 DEF ClientInv, Leads
<1>6. Numbers'
  BY <1>1, <1>2, <1>3, NumbersSame
<1>7. TablesInv' /\ CommandsInv'
  BY <1>1, <1>3, TablesSame, CommandsSame
<1> QED
  BY <1>4, <1>5, <1>6, <1>7 DEF Once, ClientInv

LEMMA ExitSockets ==
  ASSUME ClientTypes, ClientInv, NEW c \in Clients, NEW i \in Slots, Exit(c, i)
  PROVE  ClientInv'
<1>1. fd[c] # 0 /\ valid[i] /\ sock[i] = fd[c]
  BY TurnFacts, LineFacts DEF Exit, Line
<1>2. /\ fd'[c] = 0
      /\ \A d \in Clients : d # c => fd'[d] = fd[d] /\ conn'[d] = conn[d]
      /\ \A d \in Clients : d # c /\ fd[d] # 0 => fd[d] # fd[c]
  BY <1>1, CloseSockets DEF Exit
<1>3. /\ sock' = sock /\ full' = full /\ ghost' = ghost
      /\ valid' = [valid EXCEPT ![i] = FALSE] /\ valid \in [Slots -> BOOLEAN]
  BY DEF Exit, hist, ClientTypes
<1>4. \A j \in Slots : valid'[j] <=> valid[j] /\ j # i
  BY <1>3
<1>5. Sockets'
  <2>1. ~full /\ ~ghost => \A j \in Slots : valid'[j] =>
          \E d \in Clients : fd'[d] # 0 /\ fd'[d] = sock[j]
    <3> SUFFICES ASSUME ~full, ~ghost, NEW j \in Slots, valid[j], j # i
                 PROVE  \E d \in Clients : fd'[d] # 0 /\ fd'[d] = sock[j]
      BY <1>4
    <3>1. PICK d \in Clients : fd[d] # 0 /\ fd[d] = sock[j]
      BY DEF ClientInv, Sockets
    <3>2. d # c
      BY <1>1, <3>1 DEF ClientInv, Leads
    <3> QED
      BY <1>2, <3>1, <3>2
  <2> QED
    BY <1>2, <1>3, <2>1 DEF ClientInv, Sockets
<1>6. Leads'
  <2> SUFFICES ASSUME ~full, NEW d \in Clients, fd'[d] # 0
               PROVE  LET own == {j \in Slots : valid'[j] /\ sock[j] = fd'[d]}
                      IN own # {} /\ (~ghost => \A j, k \in own : j = k)
    BY <1>3 DEF Leads
  <2>1. fd'[d] = fd[d] /\ fd[d] # sock[i]
    BY <1>1, <1>2
  <2>2. {j \in Slots : valid'[j] /\ sock[j] = fd'[d]}
          = {j \in Slots : valid[j] /\ sock[j] = fd[d]}
    BY <1>4, <2>1
  <2> QED
    BY <2>1, <2>2 DEF ClientInv, Leads
<1> QED
  BY <1>5, <1>6 DEF ClientInv

LEMMA AcceptStep ==
  ASSUME ClientTypes, ClientInv, Numbers, NEW c \in Clients, conn[c] = "pending",
         Accept(c), ghost' = ghost, UNCHANGED <<ends, rd, wr>>
  PROVE  ClientInv' /\ Numbers' /\ \A i \in Slots : valid[i] => valid'[i]
<1> DEFINE free == {i \in Slots : ~valid[i]}
<1>1. PICK i \in IF free = {} THEN Slots ELSE Least(free), f \in Least(Free) :
        /\ valid' = [valid EXCEPT ![i] = TRUE]
        /\ sock' = [sock EXCEPT ![i] = f]
        /\ fd' = [fd EXCEPT ![c] = f]
        /\ conn' = [conn EXCEPT ![c] = "open"]
        /\ prompted' = [prompted EXCEPT ![c] = TRUE]
        /\ full' = (full \/ free = {})
  BY DEF Accept
<1>2. /\ i \in Slots /\ f \in Fds /\ f # 0
      /\ \A d \in Clients : fd[d] # f
      /\ \A p \in rd : ends[p][1] # f
      /\ \A p \in wr : ends[p][2] # f
      /\ free # {} => ~valid[i]
  BY <1>1, ConstantFacts DEF Least, Free
<1>3. /\ valid \in [Slots -> BOOLEAN] /\ sock \in [Slots -> Fds \cup {0}]
      /\ fd \in [Clients -> Fds \cup {0}]
      /\ conn \in [Clients -> {"away", "pending", "open", "gone"}]
      /\ full \in BOOLEAN /\ fd[c] = 0
  BY DEF ClientInv, ClientTypes, Sockets
<1>4. /\ \A j \in Slots : j # i => valid'[j] = valid[j] /\ sock'[j] = sock[j]
      /\ valid'[i] = TRUE /\ sock'[i] = f
  BY <1>1, <1>2, <1>3
<1>5. /\ \A d \in Clients : d # c => fd'[d] = fd[d] /\ conn'[d] = conn[d]
      /\ fd'[c] = f /\ conn'[c] = "open"
  BY <1>1, <1>3
<1>6. \A j \in Slots : valid[j] => valid'[j]
  BY <1>4
<1>7. ~full' => ~full /\ ~valid[i]
  BY <1>1, <1>2
<1> HIDE DEF free
<1>8. Sockets'
  <2>1. \A d \in Clients : conn'[d] \in {"away", "pending"} => fd'[d] = 0
    BY <1>5 DEF ClientInv, Sockets
  <2>2. \A d, e \in Clients : fd'[d] = fd'[e] /\ fd'[d] # 0 => d = e
    BY <1>2, <1>5 DEF ClientInv, Sockets
  <2>3. ~full' /\ ~ghost' => \A j \in Slots : valid'[j] =>
          \E d \in Clients : fd'[d] # 0 /\ fd'[d] = sock'[j]
    <3> SUFFICES ASSUME ~full', ~ghost, NEW j \in Slots, valid'[j]
                 PROVE  \E d \in Clients : fd'[d] # 0 /\ fd'[d] = sock'[j]
      OBVIOUS
    <3>1. CASE j = i
      BY <1>2, <1>4, <1>5, <3>1
    <3>2. CASE j # i
      <4>1. PICK d \in Clients : fd[d] # 0 /\ fd[d] = sock[j]
        BY <1>4, <1>7, <3>2 DEF ClientInv, Sockets
      <4>2. d # c
        BY <1>3, <4>1
      <4> QED
        BY <1>4, <1>5, <3>2, <4>1, <4>2
    <3> QED
      BY <3>1, <3>2
  <2> QED
    BY <2>1, <2>2, <2>3 DEF Sockets
<1>9. Leads'
  <2> SUFFICES ASSUME ~full', NEW d \in Clients, fd'[d] # 0
               PROVE  /\ \E j \in Slots : valid'[j] /\ sock'[j] = fd'[d]
                      /\ ~ghost => \A j, k \in Slots :
                           /\ valid'[j] /\ sock'[j] = fd'[d]
                           /\ valid'[k] /\ sock'[k] = fd'[d]
                           => j = k
    BY DEF Leads
  <2>1. CASE d = c
    <3>1. ~ghost => \A j \in Slots : j # i /\ valid[j] => sock[j] # f
      BY <1>2, <1>7 DEF ClientInv, Sockets
    <3> QED
      BY <1>2, <1>4, <1>5, <2>1, <3>1
  <2>2. CASE d # c
    <3>1. fd'[d] = fd[d] /\ fd[d] # f
      BY <1>2, <1>5, <2>2
    <3>2. /\ \E j \in Slots : valid[j] /\ sock[j] = fd[d]
          /\ ~ghost => \A j, k \in Slots :
               /\ valid[j] /\ sock[j] = fd[d]
               /\ valid[k] /\ sock[k] = fd[d]
               => j = k
      BY <1>7, <3>1 DEF ClientInv, Leads
    <3> QED
      BY <1>4, <1>7, <3>1, <3>2
  <2> QED
    BY <2>1, <2>2
<1>10. Numbers'
  <2>1. \A d \in Clients : /\ \A p \in rd : fd'[d] # ends[p][1]
                           /\ \A p \in wr : fd'[d] # ends[p][2]
    BY <1>2, <1>5 DEF Numbers, Distinct
  <2> QED
    BY <2>1 DEF Numbers, Distinct
<1> QED
  BY <1>6, <1>8, <1>9, <1>10 DEF ClientInv

-----------------------------------------------------------------------------
(* Every step that closes nothing a second time. *)

LEMMA Quiet ==
  ASSUME Types, Once, UNCHANGED <<fd, valid, sock, pipes, ghost, full>>,
         \A c \in Clients : conn'[c] \in {"away", "pending"} => fd[c] = 0,
         \/ srv' = srv \/ srv' = "dead"
         \/ kids = {} \/ srv \notin {"wait", "dead"}
  PROVE  Once'
<1>1. /\ Numbers /\ ClientInv /\ TablesInv /\ CommandsInv
      /\ UNCHANGED <<vec, rec, np, ends, rd, wr, kids, count, due>>
  BY DEF Once, pipes
<1>2. ClientInv'
  BY <1>1, SocketsSame
<1>3. TablesInv'
  BY <1>1, TablesSame
<1>4. CommandsInv'
  BY <1>1, CommandsSame
<1>5. Numbers'
  BY <1>1, NumbersSame
<1> QED
  BY <1>2, <1>3, <1>4, <1>5 DEF Once

LEMMA ClientsStep ==
  ASSUME Types, Once, NEW c \in Clients, Connect(c) \/ Send(c) \/ Hangup(c)
  PROVE  Once'
<1>1. \A d \in Clients : conn[d] \in {"away", "pending"} => fd[d] = 0
  BY DEF Once, ClientInv, Sockets
<1>2. \A d \in Clients : conn'[d] \in {"away", "pending"} => fd[d] = 0
  <2>1. conn \in [Clients -> {"away", "pending", "open", "gone"}]
    BY DEF Types, ClientTypes
  <2>2. CASE Connect(c)
    BY <1>1, <2>1, <2>2 DEF Connect
  <2>3. CASE Send(c)
    BY <1>1, <2>3 DEF Send
  <2>4. CASE Hangup(c)
    BY <1>1, <2>1, <2>4 DEF Hangup
  <2> QED
    BY <2>2, <2>3, <2>4
<1>3. UNCHANGED <<fd, srv, users, pipes, hist>>
  BY DEF Connect, Send, Hangup
<1> QED
  BY <1>2, <1>3, Quiet DEF users, hist

LEMMA SelectStep ==
  ASSUME Types, Once, Select
  PROVE  Once'
<1>1. /\ ClientTypes /\ Numbers /\ ClientInv /\ TablesInv /\ CommandsInv
      /\ \A d \in Clients : conn[d] \in {"away", "pending"} => fd[d] = 0
  BY DEF Types, Once, ClientInv, Sockets
<1>2. /\ srv = "select" /\ ghost' = ghost
      /\ UNCHANGED <<vec, rec, np, ends, rd, wr, kids, count, due>>
  BY DEF Select, pipes
<1>3. ClientInv' /\ Numbers' /\ \A i \in Slots : valid[i] => valid'[i]
  <2>1. CASE UNCHANGED <<conn, prompted, fd, users, full>>
    BY <1>1, <1>2, <2>1, SocketsSame, NumbersSame DEF users
  <2>2. CASE \E c \in Clients : conn[c] = "pending" /\ Accept(c)
    BY <1>1, <1>2, <2>2, AcceptStep
  <2> QED
    BY <2>1, <2>2 DEF Select
<1>4. TablesInv'
  BY <1>1, <1>2, <1>3, TablesSame
<1>5. CommandsInv'
  BY <1>1, <1>2, CommandsSame
<1> QED
  BY <1>3, <1>4, <1>5 DEF Once

LEMMA ServeStep ==
  ASSUME Types, Once, NEW c \in Clients, Serve(c), ~twice'
  PROVE  Once'
<1>1. /\ ClientTypes /\ ClientInv
      /\ \A d \in Clients : conn[d] \in {"away", "pending"} => fd[d] = 0
  BY DEF Types, Once, ClientInv, Sockets
<1>2. CASE EndOfFile(c)
  BY <1>2, EndOfFileStep
<1>3. CASE NoUser(c)
  BY <1>1, <1>3, Quiet DEF NoUser, Turn, client, users, hist
<1>4. CASE Waited(c)
  BY <1>1, <1>4, Quiet DEF Waited, users, hist
<1>5. ASSUME NEW i \in Slots, EmptyLine(c, i)
      PROVE  Once'
  BY <1>1, <1>5, LineFacts, Quiet DEF EmptyLine, users, hist
<1>6. ASSUME NEW i \in Slots, Exit(c, i)
      PROVE  Once'
  BY <1>1, <1>6, ExitSockets, ExitStep DEF Once
<1>7. ASSUME NEW i \in Slots, Builtin(c, i)
      PROVE  Once'
  <2>1. ClientInv'
    BY <1>1, <1>7, SocketsSame DEF Builtin, users, hist
  <2> QED
    BY <1>7, <2>1, BuiltinStep DEF Once
<1>8. ASSUME NEW i \in Slots, NEW l \in Lines, Refused(c, i, l)
      PROVE  Once'
  <2>1. ClientInv'
    BY <1>1, <1>8, SocketsSame DEF Refused, users, hist
  <2> QED
    BY <1>8, <2>1, RefusedStep DEF Once
<1>9. ASSUME NEW i \in Slots, NEW l \in Lines, Run(c, i, l)
      PROVE  Once'
  <2>1. Numbers' /\ TablesInv' /\ CommandsInv' /\ fd' = fd
    BY <1>9, RunStep
  <2>2. ClientInv'
    BY <1>1, <1>9, <2>1, SocketsSame DEF Run, users
  <2> QED
    BY <2>1, <2>2 DEF Once
<1> QED
  BY <1>2, <1>3, <1>4, <1>5, <1>6, <1>7, <1>8, <1>9 DEF Serve

LEMMA EndStep ==
  ASSUME Types, Once, NEW k \in kids, End(k)
  PROVE  Once'
<1>1. /\ Numbers /\ ClientInv /\ TablesInv /\ CommandsInv
      /\ \A d \in Clients : conn[d] \in {"away", "pending"} => fd[d] = 0
  BY DEF Once, ClientInv, Sockets
<1>2. /\ UNCHANGED <<fd, conn, valid, sock, srv, ghost, full>>
      /\ UNCHANGED <<vec, rec, np, ends, rd, wr, count, due>> /\ kids' \subseteq kids
  BY DEF End, client, users, hist
<1>3. ClientInv'
  BY <1>1, <1>2, SocketsSame
<1>4. Numbers' /\ TablesInv' /\ CommandsInv'
  BY <1>1, <1>2, NumbersSame, TablesSame, CommandsSame
<1> QED
  BY <1>3, <1>4 DEF Once

LEMMA KilledStep ==
  ASSUME Types, Once, Killed
  PROVE  Once'
<1>1. \A d \in Clients : conn[d] \in {"away", "pending"} => fd[d] = 0
  BY DEF Once, ClientInv, Sockets
<1> QED
  BY <1>1, Quiet DEF Killed, client, users, hist

(* What was closed twice stays so. *)
LEMMA TwiceStays ==
  ASSUME [Next]_vars, twice
  PROVE  twice'
<1>1. ASSUME NEW c \in Clients, Serve(c)
      PROVE  twice'
  <2>1. ASSUME NEW i \in Slots, NEW l \in Lines, Run(c, i, l)
        PROVE  twice'
    <3>1. PICK new \in NextPipe : Effect(c, i, l, Parse(i, l, new))
      BY <2>1, RunTables
    <3> QED
      BY <3>1 DEF Effect
  <2> QED
    BY <1>1, <2>1 DEF Serve, EndOfFile, NoUser, Waited, EmptyLine, Builtin, Exit,
                      Refused, hist
<1>2. CASE Select
  BY <1>2 DEF Select
<1>3. ASSUME NEW c \in Clients, Connect(c) \/ Send(c) \/ Hangup(c)
      PROVE  twice'
  BY <1>3 DEF Connect, Send, Hangup, hist
<1>4. ASSUME NEW k \in kids, Finish(k) \/ EndEarly(k)
      PROVE  twice'
  BY <1>4 DEF Finish, EndEarly, End, hist
<1>5. CASE Killed
  BY <1>5 DEF Killed, hist
<1>6. CASE UNCHANGED vars
  BY <1>6 DEF vars, hist
<1> QED
  BY <1>1, <1>2, <1>3, <1>4, <1>5, <1>6 DEF Next, Server

LEMMA NextOnce ==
  ASSUME Types, Once, [Next]_vars, ~twice'
  PROVE  Once'
<1>1. ASSUME NEW c \in Clients, Connect(c) \/ Send(c) \/ Hangup(c)
      PROVE  Once'
  BY <1>1, ClientsStep
<1>2. ASSUME NEW c \in Clients, Serve(c)
      PROVE  Once'
  BY <1>2, ServeStep
<1>3. ASSUME NEW k \in kids, Finish(k) \/ EndEarly(k)
      PROVE  Once'
  BY <1>3, EndStep DEF Finish, EndEarly
<1>4. CASE Select
  BY <1>4, SelectStep
<1>5. CASE Killed
  BY <1>5, KilledStep
<1>6. CASE UNCHANGED vars
  <2>1. \A d \in Clients : conn[d] \in {"away", "pending"} => fd[d] = 0
    BY DEF Once, ClientInv, Sockets
  <2> QED
    BY <1>6, <2>1, Quiet DEF vars, client, users, hist
<1> QED
  BY <1>1, <1>2, <1>3, <1>4, <1>5, <1>6 DEF Next, Server

LEMMA InitInv == Init => IInv
<1> SUFFICES ASSUME Init
             PROVE  Types /\ Once
  BY DEF IInv
<1>1. QLEN \in Nat /\ due = <<>> /\ Len(due) = 0 /\ ends = <<>> /\ kids = {}
      /\ rd = {} /\ wr = {}
  BY ConstantFacts DEF Init
<1>2. ClientTypes
  BY DEF Init, ClientTypes
<1>3. Sockets /\ Leads
  BY DEF Init, Sockets, Leads
<1>4. /\ \A s, r \in Slots : ~rec[s][r] /\ np[s][r] = 0
      /\ \A i \in Slots : vec[i] = {}
  BY DEF Init, Pairs
<1>5. PipeTypes
  <2>1. <<>> \in Seq(Tags) /\ <<>> \in Seq(Fds \X Fds)
    OBVIOUS
  <2>2. rec \in Cells(BOOLEAN) /\ np \in Cells(Made \cup {0})
    BY DEF Init, Pairs, Cells
  <2>3. count \in [Slots -> Nat] /\ vec \in [Slots -> SUBSET [rest : Ranks, pipe : Made]]
    BY DEF Init
  <2>4. Len(ends) = Len(due)
    BY <1>1
  <2> QED
    BY <1>1, <2>1, <2>2, <2>3, <2>4 DEF PipeTypes
<1>6. UserPipes /\ VectorsOnTime
  BY <1>4 DEF UserPipes, VectorsOnTime
<1>7. CommandsInv
  BY <1>1 DEF CommandsInv, CommandsOnTime, WriterAwaited, WriterAlone
<1>8. Numbers
  BY <1>1 DEF Numbers, Distinct
<1> QED
  BY <1>1, <1>2, <1>3, <1>5, <1>6, <1>7, <1>8 DEF Types, Once, ClientInv, TablesInv

LEMMA NextInv == IInv /\ [Next]_vars => IInv'
<1> SUFFICES ASSUME IInv, [Next]_vars
             PROVE  IInv'
  OBVIOUS
<1>1. Types /\ Types'
  BY NextTypes DEF IInv
<1>2. ASSUME ~twice'
      PROVE  Once'
  <2>1. Once
    BY <1>2, TwiceStays DEF IInv
  <2> QED
    BY <1>1, <1>2, <2>1, NextOnce
<1> QED
  BY <1>1, <1>2 DEF IInv

-----------------------------------------------------------------------------
(* In every state the single-process server and its clients reach, through *)
(* np_single_proc.cpp's loop and npshell_2.h, the tables keep to their     *)
(* types; and until a line closes an end by a number that was closed       *)
(* before, no two open descriptors have one number, sockets lead to users, *)
(* the tables name open pipes of their own purpose, and commands read what *)
(* was made for them.                                                      *)
THEOREM Invariance == Spec => []IInv
<1>1. Init => IInv
  BY InitInv
<1>2. IInv /\ [Next]_vars => IInv'
  BY NextInv
<1> QED
  BY <1>1, <1>2, PTL DEF Spec

(* Every table of np_single_proc.cpp and npshell_2.h keeps to its type, a  *)
(* second close or not: num_pipe_vec and name_pipe name only pipes that    *)
(* were made, and the server holds no end of any other.                    *)
THEOREM TypeCorrect == Spec => []TypeOK
<1>1. IInv => TypeOK
  BY TypesOK DEF IInv
<1> QED
  BY <1>1, Invariance, PTL

(* find_fd_user leads a connected socket to a user, and to one only,       *)
(* unless a client found no slot free, vanished without exit, or a line    *)
(* closed an end by its number a second time: until then the numbers of    *)
(* sockets and of pipes never meet, however often they are given out.      *)
THEOREM SocketsLeadToUsers == Spec => []SocketHasUser
<1>1. IInv => SocketHasUser
  BY DEF IInv, Once, ClientInv, Leads, SocketHasUser
<1> QED
  BY <1>1, Invariance, PTL

(* name_pipe_record is set only between users who are there, and if they   *)
(* are two, for a pipe of which both ends are open under the numbers in    *)
(* name_pipe, through exit, errors and reuse of a slot or a number, until  *)
(* a line closes an end a second time.                                     *)
THEOREM RecordsAreLive == Spec => []PipesHaveUsers
<1>1. IInv => PipesHaveUsers
  BY DEF IInv, Once, TablesInv, UserPipes, PipesHaveUsers
<1> QED
  BY <1>1, Invariance, PTL

(* num_pipe_vec counts the lines of its own slot only, its pipes are open, *)
(* and a command that dups a numbered pipe's number takes it on the line   *)
(* it was made for, until a line closes an end a second time.              *)
THEOREM PipesAreOnTime == Spec => []OnTime
<1>1. Once => \A i \in Slots, e \in UNION {vec[j] : j \in Slots} :
                e \in vec[i] => /\ due[e.pipe] = <<i, count[i] + e.rest>>
                                /\ e.pipe \in rd \cap wr
  BY DEF Once, TablesInv, VectorsOnTime
<1>2. IInv => OnTime
  BY <1>1 DEF IInv, Once, CommandsInv, CommandsOnTime, OnTime
<1> QED
  BY <1>2, Invariance, PTL

(* A command that reads a user pipe has no writer beside it: npshell has   *)
(* waited for the command that filled the pipe.                            *)
THEOREM UserPipesAreComplete == Spec => []PipeIsComplete
<1>1. IInv => PipeIsComplete
  BY DEF IInv, Once, CommandsInv, WriterAlone, PipeIsComplete
<1> QED
  BY <1>1, Invariance, PTL

=============================================================================
