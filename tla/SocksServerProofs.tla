-------------------------- MODULE SocksServerProofs --------------------------
(***************************************************************************)
(* TLAPS proofs about SocksServer, for every buffer size, every number of  *)
(* bytes and lines and every set of digits: the firewall's comparison of   *)
(* texts, the accounting of the relay, and that one forked process of the  *)
(* server implements the two byte streams of RelayChannel.                 *)
(***************************************************************************)
EXTENDS SocksServer, SequenceTheorems, TLAPS

-----------------------------------------------------------------------------
(* The firewall: what the comparison of texts amounts to. *)

(* An octet is written with one or two digits, never with a dot. *)
LEMMA OctetShape ==
  ASSUME NEW o \in Octets
  PROVE  /\ o \in Seq(Nat) /\ Len(o) \in {1, 2}
         /\ \A k \in 1..Len(o) : o[k] \in 0..9 /\ o[k] # Dot
<1>1. CASE \E d \in Digits : o = <<d>>
  <2>1. PICK d \in Digits : o = <<d>>
    BY <1>1
  <2>2. d \in 0..9
    BY FirewallAssumption
  <2>q. QED
    BY <2>1, <2>2 DEF Dot
<1>2. CASE \E d, e \in Digits : o = <<d, e>>
  <2>1. PICK d \in Digits, e \in Digits : o = <<d, e>>
    BY <1>2
  <2>2. d \in 0..9 /\ e \in 0..9
    BY FirewallAssumption
  <2>q. QED
    BY <2>1, <2>2 DEF Dot
<1>q. QED
  BY <1>1, <1>2 DEF Octets

(* The text of an address: its first octet, a dot, its second octet.       *)
LEMMA TextShape ==
  ASSUME NEW a \in Addresses
  PROVE  /\ a[1] \in Octets /\ a[2] \in Octets
         /\ Text(a) \in Seq(Nat)
         /\ Len(Text(a)) = Len(a[1]) + 1 + Len(a[2])
         /\ \A k \in 1..Len(a[1]) : Text(a)[k] = a[1][k]
         /\ Text(a)[Len(a[1]) + 1] = Dot
<1>1. a[1] \in Octets /\ a[2] \in Octets
  BY DEF Addresses
<1>2. a[1] \in Seq(Nat) /\ a[2] \in Seq(Nat) /\ <<Dot>> \in Seq(Nat)
  BY <1>1, OctetShape DEF Dot
<1> DEFINE f == a[1] \o <<Dot>>
<1>3. /\ f \in Seq(Nat) /\ Len(f) = Len(a[1]) + 1 /\ Len(a[1]) \in Nat
      /\ \A k \in 1..Len(a[1]) : f[k] = a[1][k]
      /\ f[Len(a[1]) + 1] = Dot
  BY <1>2
<1> HIDE DEF f
<1>4. /\ f \o a[2] \in Seq(Nat) /\ Len(f \o a[2]) = Len(f) + Len(a[2])
      /\ \A k \in 1..Len(f) + Len(a[2]) :
           (f \o a[2])[k] = IF k <= Len(f) THEN f[k] ELSE a[2][k - Len(f)]
  BY <1>2, <1>3, ConcatProperties, Zenon
<1> DEFINE t == f \o a[2]
<1>5. Text(a) = t
  BY DEF Text, f
<1>6. Len(a[2]) \in Nat
  BY <1>2
<1> HIDE DEF t
<1>7. Len(t) = Len(a[1]) + 1 + Len(a[2]) /\ \A k \in 1..Len(f) : t[k] = f[k]
  BY <1>3, <1>4, <1>6 DEF t
<1>8. /\ \A k \in 1..Len(a[1]) : t[k] = a[1][k]
      /\ t[Len(a[1]) + 1] = Dot
  <2>1. t[Len(a[1]) + 1] = Dot
    <3>1. Len(a[1]) + 1 \in 1..Len(f)
      BY <1>3
    <3>q. QED
      BY <1>3, <1>7, <3>1, Zenon
  <2>2. ASSUME NEW k \in 1..Len(a[1]) PROVE t[k] = a[1][k]
    <3>1. k \in 1..Len(f)
      BY <1>3
    <3>2. t[k] = f[k]
      BY <1>7, <3>1
    <3>q. QED
      BY <1>3, <3>2
  <2>q. QED
    BY <2>1, <2>2
<1>q. QED
  BY <1>1, <1>4, <1>5, <1>7, <1>8 DEF t

(* A pattern gives no octet, one, or both. *)
LEMMA PatternShape ==
  ASSUME NEW p \in Patterns
  PROVE  /\ p \in Seq(Octets) /\ Len(p) \in 0..2
         /\ \A k \in 1..Len(p) : p[k] \in Octets
<1>1. PICK n \in 0..2 : p \in [1..n -> Octets]
  BY DEF Patterns
<1>q. QED
  BY <1>1

(* A rule that gives the octets of an address permits it: comparing texts  *)
(* misses none (firewall in socks_server.cpp).                             *)
LEMMA NamesPermits ==
  ASSUME NEW r \in Rules, dst \in Addresses, Names(r)
  PROVE  Permits(r)
<1> DEFINE p == r.pattern
<1>1. /\ p \in Patterns /\ r.verb = "permit" /\ r.cmd = cmd
      /\ \A k \in 1..Len(p) : p[k] = dst[k]
  BY DEF Names, Rules
<1>2. Text(dst) \in Seq(Nat) /\ dst[1] \in Octets /\ dst[2] \in Octets
  BY TextShape
<1>3. IsPrefix(Stem(p), Text(dst))
  <2>1. CASE Len(p) = 2
    <3>1. p[1] = dst[1] /\ p[2] = dst[2]
      BY <1>1, <2>1
    <3>2. Stem(p) = Text(dst)
      BY <2>1, <3>1 DEF Stem, Text
    <3>q. QED
      BY <1>2, <3>2 DEF IsPrefix
  <2>2. CASE Len(p) = 1
    <3>0. p[1] = dst[1]
      BY <1>1, <2>2
    <3>1. Stem(p) = dst[1] \o <<Dot>>
      BY <2>2, <3>0 DEF Stem
    <3>2. dst[1] \in Seq(Nat) /\ dst[2] \in Seq(Nat) /\ <<Dot>> \in Seq(Nat)
      BY <1>2, OctetShape DEF Dot
    <3>q. QED
      <4> DEFINE f == dst[1] \o <<Dot>>
      <4> HIDE DEF f
      <4>1. f \in Seq(Nat) /\ Stem(p) = f /\ Text(dst) = f \o dst[2]
        BY <3>1, <3>2 DEF f, Text
      <4>2. SubSeq(f \o dst[2], 1, Len(f)) = f /\ SubSeq(f, 1, Len(f)) = f
        BY <3>2, <4>1, SubSeqOfConcat1, SubSeqFull
      <4>3. Len(f) <= Len(f \o dst[2])
        BY <3>2, <4>1
      <4>q. QED
        BY <4>1, <4>2, <4>3 DEF IsPrefix
  <2>3. CASE Len(p) = 0
    <3>1. Stem(p) = <<>>
      BY <2>3 DEF Stem
    <3>q. QED
      BY <1>2, <3>1 DEF IsPrefix
  <2>q. QED
    BY <1>1, <2>1, <2>2, <2>3, PatternShape
<1>q. QED
  BY <1>1, <1>3 DEF Permits

(* A rule with a star permits only addresses whose octets it gives: the    *)
(* dot before the star ends the octet.                                     *)
LEMMA StarNames ==
  ASSUME NEW r \in Rules, dst \in Addresses, Permits(r), Len(r.pattern) < 2
  PROVE  Names(r)
<1> DEFINE p == r.pattern
<1>1. p \in Patterns /\ r.verb = "permit" /\ r.cmd = cmd
      /\ IsPrefix(Stem(p), Text(dst))
  BY DEF Permits, Rules
<1>2. CASE Len(p) = 0
  BY <1>1, <1>2 DEF Names
<1>3. CASE Len(p) = 1
  <2> DEFINE o == p[1]
             t == Text(dst)
  <2>1. /\ o \in Octets /\ dst[1] \in Octets
        /\ o \in Seq(Nat) /\ Len(o) \in {1, 2}
        /\ dst[1] \in Seq(Nat) /\ Len(dst[1]) \in {1, 2}
    <3>1. o \in Octets
      BY <1>1, <1>3, PatternShape
    <3>2. dst[1] \in Octets
      BY TextShape
    <3>q. QED
      BY <3>1, <3>2, OctetShape
  <2>2. Stem(p) = o \o <<Dot>>
    BY <1>3 DEF Stem
  <2>3. Stem(p) \in Seq(Nat) /\ Len(Stem(p)) = Len(o) + 1
        /\ Stem(p)[Len(o) + 1] = Dot /\ \A k \in 1..Len(o) : Stem(p)[k] = o[k]
    <3>1. o \in Seq(Nat) /\ <<Dot>> \in Seq(Nat)
      BY <2>1 DEF Dot
    <3>q. QED
      BY <2>2, <3>1
  <2>4. \A k \in 1..(Len(o) + 1) : Stem(p)[k] = t[k]
    <3>1. t \in Seq(Nat) /\ Len(t) \in Nat /\ Len(Stem(p)) <= Len(t)
      <4>1. t \in Seq(Nat)
        BY TextShape
      <4>q. QED
        BY <1>1, <4>1 DEF IsPrefix
    <3>2. SubSeq(Stem(p), 1, Len(o) + 1) = SubSeq(t, 1, Len(o) + 1)
      BY <1>1, <2>3 DEF IsPrefix
    <3>q. QED
      BY <2>1, <2>3, <3>1, <3>2
  <2> DEFINE m == Len(o)
             n == Len(dst[1])
  <2>5. t[n + 1] = Dot /\ \A k \in 1..n : t[k] = dst[1][k]
    BY TextShape
  <2>6. \A k \in 1..n : dst[1][k] # Dot
    BY <2>1, OctetShape
  <2>7. \A k \in 1..m : o[k] # Dot
    BY <2>1, OctetShape
  <2>8. m = n
    <3>1. CASE m < n
      <4>1. m + 1 \in 1..(m + 1) /\ m + 1 \in 1..n
        BY <2>1, <3>1
      <4>q. QED
        BY <2>3, <2>4, <2>5, <2>6, <4>1, Zenon
    <3>2. CASE n < m
      <4>1. n + 1 \in 1..(m + 1) /\ n + 1 \in 1..m
        BY <2>1, <3>2
      <4>q. QED
        BY <2>3, <2>4, <2>5, <2>7, <4>1, Zenon
    <3>q. QED
      BY <2>1, <3>1, <3>2
  <2>9. \A k \in 1..m : o[k] = dst[1][k]
    <3>1. \A k \in 1..m : k \in 1..(m + 1)
      BY <2>1
    <3>q. QED
      BY <2>3, <2>4, <2>5, <2>8, <3>1, Zenon
  <2>10. o = dst[1]
    BY <2>1, <2>8, <2>9, SeqEqual
  <2>q. QED
    BY <1>1, <1>3, <2>10 DEF Names
<1>4. Len(p) = 0 \/ Len(p) = 1
  <2> DEFINE n == Len(p)
  <2>1. p \in Patterns /\ n < 2
    BY <1>1
  <2> HIDE DEF p
  <2>2. n \in 0..2
    BY <2>1, PatternShape
  <2> HIDE DEF n
  <2>3. n = 0 \/ n = 1
    BY <2>1, <2>2
  <2>q. QED
    BY <2>3 DEF n
<1>q. QED
  BY <1>2, <1>3, <1>4, Zenon

-----------------------------------------------------------------------------
(* The inductive invariant. *)

(* The firewall: the lines read so far permit nothing while it reads on,   *)
(* and the last one does when it permits.                                  *)
Reads ==
  /\ verdict = "none" => lines = <<>>
  /\ verdict \in {"reading", "reject"} =>
       \A k \in 1..Len(lines) : ~Permits(lines[k])
  /\ verdict = "permit" =>
       lines # <<>> /\ Last(lines) \in Rules /\ Permits(Last(lines))

(* Nothing is read before the relay starts, and StartRelay starts both     *)
(* directions with a read.                                                 *)
Starts ==
  phase # "relay" => \A d \in Sides : op[d] = "idle" /\ todo[d] = 0 /\ ~flag[d]

(* Both directions ended before the sockets were closed. *)
Closes == closed => \A d \in Sides : flag[d]

(* A direction reads only when all it had was sent, sends from what it     *)
(* read, and is told the end after its last read.                          *)
Turn(d) ==
  /\ op[d] = "read" => todo[d] = 0
  /\ op[d] = "write" => todo[d] \in 1..Len(data[d])
  /\ flag[d] => /\ op[d] = "idle" /\ todo[d] = 0
                /\ (fin[d] = "fin" /\ rd[d] = sent[d]) \/ fin[d] = "rst"

Counted(d) == Len(dlv[d]) + todo[d] = rd[d] /\ rd[d] <= sent[d]

(* While the kernel takes every buffer whole: the bytes delivered are the  *)
(* first ones of the stream, the buffer holds the next ones.               *)
InOrder(d) ==
  ~partial =>
    /\ dlv[d] = [k \in 1..Len(dlv[d]) |-> k]
    /\ op[d] = "write" => /\ todo[d] = Len(data[d])
                          /\ data[d] = [k \in 1..todo[d] |-> Len(dlv[d]) + k]

SideInv(d) == Turn(d) /\ Counted(d) /\ InOrder(d)

RelayInv == TypeOK /\ Starts /\ Closes /\ \A d \in Sides : SideInv(d)

FirewallType ==
  /\ lines \in Seq(Rules \cup {Blank}) /\ Len(lines) <= MaxLines
  /\ cmd \in Commands \cup {""} /\ dst \in Addresses
  /\ verdict \in {"none", "reading", "permit", "reject", "crash"}
FirewallInv == FirewallType /\ Reads

ChildType == child \in {"none", "runs", "ended", "collected", "failed"}
SInv == RelayInv /\ FirewallInv /\ ChildType

-----------------------------------------------------------------------------
(* Every step of the process is a step of the relay, of the firewall, or   *)
(* the return of the handler that called it.                               *)

LEMMA RelaySteps == ASSUME [SNext]_svars PROVE [Next]_vars
<1>1. CASE UNCHANGED svars
  BY <1>1 DEF svars
<1>2. CASE Fork \/ Collect
  BY <1>2 DEF Fork, Collect
<1>3. CASE Child
  BY <1>3 DEF Child, Exit, Request, Decide, Session, Next, Setup
<1>4. ASSUME NEW d \in Sides, Peer(d) PROVE [Next]_vars
  BY <1>4 DEF Peer, Next
<1>q. QED
  BY <1>1, <1>2, <1>3, <1>4 DEF SNext

(* The locals of the handler are gone after its decision. *)
Forget == lines' = <<>> /\ dst' = NoAddress /\ verdict' = "none" /\ cmd' = ""

LEMMA FirewallSteps ==
  ASSUME [SNext]_svars
  PROVE  ReadRequest \/ Firewall \/ Forget \/ UNCHANGED firewall
<1>1. CASE UNCHANGED svars
  BY <1>1 DEF svars
<1>2. CASE Fork \/ Collect
  BY <1>2 DEF Fork, Collect
<1>3. CASE Child
  BY <1>3 DEF Child, Exit, Request, Decide, Forget
<1>4. ASSUME NEW d \in Sides, Peer(d) PROVE UNCHANGED firewall
  BY <1>4 DEF Peer
<1>q. QED
  BY <1>1, <1>2, <1>3, <1>4 DEF SNext

-----------------------------------------------------------------------------
(* The relay. *)

LEMMA OtherSide == /\ \A d \in Sides : Other(d) \in Sides /\ Other(d) # d
                   /\ \A d, e \in Sides : e = d \/ e = Other(d)
BY DEF Sides, Other

(* What the type invariant says of one direction. *)
LEMMA SideTypes ==
  ASSUME TypeOK, NEW d \in Sides
  PROVE  /\ op[d] \in {"idle", "read", "write"} /\ flag[d] \in BOOLEAN
         /\ data[d] \in Seq(Nat) /\ Len(data[d]) \in Nat
         /\ dlv[d] \in Seq(Nat) /\ Len(dlv[d]) \in Nat
         /\ todo[d] \in Nat /\ rd[d] \in Nat /\ sent[d] \in Nat
<1>1. data[d] \in Seq(Nat) /\ dlv[d] \in Seq(Nat)
  BY DEF TypeOK
<1>2. Len(data[d]) \in Nat /\ Len(dlv[d]) \in Nat
  BY <1>1
<1>q. QED
  BY <1>1, <1>2 DEF TypeOK

LEMMA RelayInitInv == Init => RelayInv
<1> SUFFICES ASSUME Init PROVE RelayInv
  OBVIOUS
<1>0. /\ \A d \in Sides : /\ op[d] = "idle" /\ data[d] = <<>> /\ todo[d] = 0
                           /\ rd[d] = 0 /\ sent[d] = 0 /\ dlv[d] = <<>> /\ ~flag[d]
      /\ ~closed
  BY DEF Init
<1>1. TypeOK
  <2>1. phase \in Phases /\ mode \in {"", "c", "b"} /\ closed \in BOOLEAN
    BY DEF Init, Phases
  <2>2. replies = <<>> /\ partial \in BOOLEAN
    BY DEF Init
  <2>3. <<>> \in Seq(Nat)
    OBVIOUS
  <2>4. op \in [Sides -> {"idle", "read", "write"}] /\ flag \in [Sides -> BOOLEAN]
        /\ fin \in [Sides -> {"open", "fin", "rst"}]
    BY DEF Init
  <2>5. data \in [Sides -> Seq(Nat)] /\ dlv \in [Sides -> Seq(Nat)]
    BY <2>3 DEF Init
  <2>6. todo \in [Sides -> Nat] /\ rd \in [Sides -> Nat] /\ sent \in [Sides -> Nat]
    BY DEF Init
  <2>7. replies \in Seq({Granted, Rejected, Junk})
    BY <2>2
  <2>q. QED
    BY <2>1, <2>2, <2>4, <2>5, <2>6, <2>7 DEF TypeOK
<1>2. Starts /\ Closes
  BY <1>0 DEF Starts, Closes
<1>3. ASSUME NEW d \in Sides PROVE SideInv(d)
  <2>1. <<>> = [k \in 1..0 |-> k]
    OBVIOUS
  <2>q. QED
    BY <1>0, <2>1 DEF SideInv, Turn, Counted, InOrder
<1>q. QED
  BY <1>1, <1>2, <1>3 DEF RelayInv

(* A step that leaves direction e alone keeps what is known of it. *)
LEMMA SideFrame ==
  ASSUME NEW e \in Sides, SideInv(e), UNCHANGED <<partial, fin, sent>>,
         op'[e] = op[e], data'[e] = data[e], todo'[e] = todo[e],
         rd'[e] = rd[e], flag'[e] = flag[e], dlv'[e] = dlv[e]
  PROVE  SideInv(e)'
BY DEF SideInv, Turn, Counted, InOrder

(* A read hands over at least one byte and starts the send of all of them. *)
LEMMA ReadSomeInv ==
  ASSUME RelayInv, NEW d \in Sides, ReadSome(d)
  PROVE  RelayInv'
<1>0. TypeOK /\ Starts /\ Closes /\ SideInv(d) /\ \A e \in Sides : SideInv(e)
  BY DEF RelayInv
<1>1. PICK n \in 1..BufLen :
        /\ rd[d] + n <= sent[d]
        /\ data' = [data EXCEPT ![d] = [k \in 1..n |-> rd[d] + k]]
        /\ todo' = [todo EXCEPT ![d] = n]
        /\ rd' = [rd EXCEPT ![d] = @ + n]
  BY DEF ReadSome
<1>2. /\ op[d] = "read" /\ op' = [op EXCEPT ![d] = "write"]
      /\ UNCHANGED <<phase, mode, replies, flag, closed, partial, sent, fin, dlv>>
  BY DEF ReadSome, peers
<1>3. n \in Nat \ {0} /\ rd[d] \in Nat
  BY <1>0, SideTypes, RelayAssumption
<1> DEFINE s == [k \in 1..n |-> rd[d] + k]
<1>4. s \in Seq(Nat) /\ Len(s) = n
  BY <1>3
<1> HIDE DEF s
<1>a. data' = [data EXCEPT ![d] = s]
  BY <1>1 DEF s
<1>5. TypeOK'
  <2>1. data' \in [Sides -> Seq(Nat)]
    BY <1>0, <1>4, <1>a DEF TypeOK
  <2>2. todo' \in [Sides -> Nat] /\ rd' \in [Sides -> Nat]
    <3>1. rd[d] + n \in Nat
      BY <1>3
    <3>q. QED
      BY <1>0, <1>1, <1>3, <3>1 DEF TypeOK
  <2>3. op' \in [Sides -> {"idle", "read", "write"}]
    BY <1>0, <1>2 DEF TypeOK
  <2>q. QED
    BY <1>0, <1>2, <2>1, <2>2, <2>3 DEF TypeOK
<1>6. Starts' /\ Closes'
  BY <1>0, <1>2 DEF Starts, Closes
<1>b. /\ data'[d] = s /\ todo'[d] = n /\ rd'[d] = rd[d] + n /\ op'[d] = "write"
      /\ \A e \in Sides : e # d => /\ data'[e] = data[e] /\ todo'[e] = todo[e]
                                  /\ rd'[e] = rd[e] /\ op'[e] = op[e]
  BY <1>0, <1>1, <1>2, <1>a DEF TypeOK
<1>c. todo[d] = 0 /\ Len(dlv[d]) = rd[d] /\ ~flag[d]
  BY <1>0, <1>2, <1>3, SideTypes DEF SideInv, Turn, Counted
<1>7. SideInv(d)'
  <2>1. Turn(d)'
    BY <1>2, <1>3, <1>4, <1>b, <1>c DEF Turn
  <2>2. Counted(d)'
    BY <1>1, <1>2, <1>3, <1>b, <1>c DEF Counted
  <2>3. InOrder(d)'
    BY <1>0, <1>2, <1>4, <1>b, <1>c DEF SideInv, InOrder, s
  <2>q. QED
    BY <2>1, <2>2, <2>3 DEF SideInv
<1>8. \A e \in Sides : SideInv(e)'
  BY <1>0, <1>2, <1>7, <1>b, SideFrame
<1>q. QED
  BY <1>5, <1>6, <1>8 DEF RelayInv

(* The end of a stream is seen only by a pending read: nothing is left to  *)
(* send then, and the sockets are closed by the second direction only.     *)
LEMMA ReadEndsInv ==
  ASSUME RelayInv, NEW d \in Sides, ReadEnds(d)
  PROVE  RelayInv'
<1>0. TypeOK /\ Starts /\ Closes /\ SideInv(d) /\ \A e \in Sides : SideInv(e)
  BY DEF RelayInv
<1>1. /\ op[d] = "read" /\ op' = [op EXCEPT ![d] = "idle"]
      /\ (fin[d] = "fin" /\ rd[d] = sent[d]) \/ fin[d] = "rst"
      /\ flag' = [flag EXCEPT ![d] = TRUE] /\ closed' = flag[Other(d)]
      /\ UNCHANGED <<phase, mode, replies, data, todo, rd, partial, sent, fin, dlv>>
  BY DEF ReadEnds, peers
<1>2. TypeOK'
  <2>1. op' \in [Sides -> {"idle", "read", "write"}] /\ flag' \in [Sides -> BOOLEAN]
    BY <1>0, <1>1 DEF TypeOK
  <2>2. closed' \in BOOLEAN
    BY <1>0, <1>1, OtherSide DEF TypeOK
  <2>q. QED
    BY <1>0, <1>1, <2>1, <2>2 DEF TypeOK
<1>3. /\ op'[d] = "idle" /\ flag'[d] = TRUE
      /\ \A e \in Sides : e # d => op'[e] = op[e] /\ flag'[e] = flag[e]
  BY <1>0, <1>1 DEF TypeOK
<1>4. Starts'
  BY <1>0, <1>1 DEF Starts
<1>5. Closes'
  <2>1. closed' => flag[Other(d)]
    BY <1>1
  <2>q. QED
    BY <1>3, <2>1, OtherSide DEF Closes
<1>6. SideInv(d)'
  BY <1>0, <1>1, <1>3 DEF SideInv, Turn, Counted, InOrder
<1>7. \A e \in Sides : SideInv(e)'
  BY <1>0, <1>1, <1>3, <1>6, SideFrame
<1>q. QED
  BY <1>2, <1>4, <1>5, <1>7 DEF RelayInv

(* A stream is delivered in order when its k-th byte is the byte k. *)
LEMMA CountingSeq ==
  ASSUME NEW s \in Seq(Nat), \A k \in 1..Len(s) : s[k] = k
  PROVE  s = [k \in 1..Len(s) |-> k]
OBVIOUS

(* What a send takes: at most what is pending, all of it when the kernel   *)
(* takes buffers whole.                                                    *)
LEMMA SendSomeStep ==
  ASSUME RelayInv, NEW d \in Sides, SendSome(d)
  PROVE  \E n \in 1..todo[d] :
           /\ n \in Nat \ {0} /\ n <= Len(data[d])
           /\ partial \/ n = todo[d]
           /\ SubSeq(data[d], 1, n) \in Seq(Nat) /\ Len(SubSeq(data[d], 1, n)) = n
           /\ \A k \in 1..n : SubSeq(data[d], 1, n)[k] = data[d][k]
           /\ dlv' = [dlv EXCEPT ![d] = @ \o SubSeq(data[d], 1, n)]
           /\ todo' = [todo EXCEPT ![d] = @ - n]
           /\ op' = [op EXCEPT ![d] = IF n < todo[d] THEN "write" ELSE "read"]
<1>1. PICK n \in 1..todo[d] :
        /\ partial \/ n = todo[d]
        /\ dlv' = [dlv EXCEPT ![d] = @ \o SubSeq(data[d], 1, n)]
        /\ todo' = [todo EXCEPT ![d] = @ - n]
        /\ op' = [op EXCEPT ![d] = IF n < todo[d] THEN "write" ELSE "read"]
  BY DEF SendSome
<1>2. op[d] = "write" /\ Turn(d) /\ TypeOK
  BY DEF SendSome, RelayInv, SideInv
<1>3. data[d] \in Seq(Nat) /\ Len(data[d]) \in Nat /\ todo[d] \in 1..Len(data[d])
  BY <1>2, SideTypes DEF Turn
<1>4. n \in Nat \ {0} /\ n <= Len(data[d])
  BY <1>3
<1>5. /\ SubSeq(data[d], 1, n) \in Seq(Nat) /\ Len(SubSeq(data[d], 1, n)) = n
      /\ \A k \in 1..n : SubSeq(data[d], 1, n)[k] = data[d][k]
  BY <1>3, <1>4
<1>q. QED
  BY <1>1, <1>4, <1>5

LEMMA SendSomeInv ==
  ASSUME RelayInv, NEW d \in Sides, SendSome(d)
  PROVE  RelayInv'
<1>0. TypeOK /\ Starts /\ Closes /\ SideInv(d) /\ \A e \in Sides : SideInv(e)
  BY DEF RelayInv
<1>1. PICK n \in 1..todo[d] :
           /\ n \in Nat \ {0} /\ n <= Len(data[d])
           /\ partial \/ n = todo[d]
           /\ SubSeq(data[d], 1, n) \in Seq(Nat) /\ Len(SubSeq(data[d], 1, n)) = n
           /\ \A k \in 1..n : SubSeq(data[d], 1, n)[k] = data[d][k]
           /\ dlv' = [dlv EXCEPT ![d] = @ \o SubSeq(data[d], 1, n)]
           /\ todo' = [todo EXCEPT ![d] = @ - n]
           /\ op' = [op EXCEPT ![d] = IF n < todo[d] THEN "write" ELSE "read"]
  BY SendSomeStep
<1>2. /\ op[d] = "write"
      /\ UNCHANGED <<phase, mode, replies, data, rd, flag, closed, partial, sent, fin>>
  BY DEF SendSome, peers
<1> DEFINE b == SubSeq(data[d], 1, n)
<1>b. b \in Seq(Nat) /\ Len(b) = n /\ \A k \in 1..n : b[k] = data[d][k]
  BY <1>1
<1>c. dlv' = [dlv EXCEPT ![d] = dlv[d] \o b]
  BY <1>1
<1> HIDE DEF b
<1>3. /\ todo[d] \in Nat /\ rd[d] \in Nat /\ sent[d] \in Nat
      /\ dlv[d] \in Seq(Nat) /\ Len(dlv[d]) \in Nat /\ todo[d] - n \in Nat
  BY <1>0, <1>1, SideTypes
<1>4. /\ dlv[d] \o b \in Seq(Nat) /\ Len(dlv[d] \o b) = Len(dlv[d]) + n
      /\ \A k \in 1..Len(dlv[d]) + n :
           (dlv[d] \o b)[k] = IF k <= Len(dlv[d]) THEN dlv[d][k] ELSE b[k - Len(dlv[d])]
  BY <1>3, <1>b, ConcatProperties, Zenon
<1>5. TypeOK'
  <2>1. dlv' \in [Sides -> Seq(Nat)]
    BY <1>0, <1>4, <1>c DEF TypeOK
  <2>2. todo' \in [Sides -> Nat]
    BY <1>0, <1>1, <1>3 DEF TypeOK
  <2>3. op' \in [Sides -> {"idle", "read", "write"}]
    BY <1>0, <1>1 DEF TypeOK
  <2>q. QED
    BY <1>0, <1>2, <2>1, <2>2, <2>3 DEF TypeOK
<1>6. Starts' /\ Closes'
  BY <1>0, <1>2 DEF Starts, Closes
<1>7. /\ dlv'[d] = dlv[d] \o b /\ todo'[d] = todo[d] - n
      /\ op'[d] = IF n < todo[d] THEN "write" ELSE "read"
      /\ \A e \in Sides : e # d => /\ dlv'[e] = dlv[e] /\ todo'[e] = todo[e]
                                  /\ op'[e] = op[e]
  BY <1>0, <1>1, <1>c DEF TypeOK
<1>8. SideInv(d)'
  <2>1. Turn(d) /\ Counted(d) /\ InOrder(d)
    BY <1>0 DEF SideInv
  <2>2. Turn(d)'
    BY <1>1, <1>2, <1>3, <1>7, <2>1 DEF Turn
  <2>3. Counted(d)'
    BY <1>1, <1>2, <1>3, <1>4, <1>7, <2>1 DEF Counted
  <2>4. InOrder(d)'
    <3> SUFFICES ASSUME ~partial
                 PROVE  dlv[d] \o b = [k \in 1..Len(dlv[d] \o b) |-> k]
                        /\ op'[d] # "write"
      BY <1>2, <1>7 DEF InOrder
    <3>1. /\ n = todo[d] /\ dlv[d] = [k \in 1..Len(dlv[d]) |-> k]
          /\ data[d] = [k \in 1..n |-> Len(dlv[d]) + k]
      BY <1>1, <1>2, <2>1 DEF InOrder
    <3>2. op'[d] = "read"
      BY <1>1, <1>7, <3>1
    <3>3. \A k \in 1..Len(dlv[d]) + n : (dlv[d] \o b)[k] = k
      <4> SUFFICES ASSUME NEW k \in 1..Len(dlv[d]) + n PROVE (dlv[d] \o b)[k] = k
        OBVIOUS
      <4>1. CASE k <= Len(dlv[d])
        <5>1. k \in 1..Len(dlv[d])
          BY <1>1, <1>3, <4>1
        <5>q. QED
          BY <1>4, <3>1, <4>1, <5>1
      <4>2. CASE ~(k <= Len(dlv[d]))
        <5> DEFINE j == k - Len(dlv[d])
        <5>1. j \in 1..n /\ Len(dlv[d]) + j = k
          BY <1>1, <1>3, <4>2
        <5>2. (dlv[d] \o b)[k] = b[j]
          BY <1>4, <4>2
        <5> HIDE DEF j
        <5>q. QED
          BY <1>b, <3>1, <5>1, <5>2
      <4>q. QED
        BY <4>1, <4>2
    <3>q. QED
      BY <1>4, <3>2, <3>3, CountingSeq
  <2>q. QED
    BY <2>2, <2>3, <2>4 DEF SideInv
<1>9. \A e \in Sides : SideInv(e)'
  BY <1>0, <1>2, <1>7, <1>8, SideFrame
<1>q. QED
  BY <1>5, <1>6, <1>9 DEF RelayInv

(* A failed send just stops its direction. *)
LEMMA SendFailsInv ==
  ASSUME RelayInv, NEW d \in Sides, SendFails(d)
  PROVE  RelayInv'
<1>0. TypeOK /\ Starts /\ Closes /\ SideInv(d) /\ \A e \in Sides : SideInv(e)
  BY DEF RelayInv
<1>1. /\ op[d] = "write" /\ op' = [op EXCEPT ![d] = "idle"]
      /\ UNCHANGED <<phase, mode, replies, data, todo, rd, flag, closed, partial,
                     sent, fin, dlv>>
  BY DEF SendFails, peers
<1>2. TypeOK'
  <2>1. op' \in [Sides -> {"idle", "read", "write"}]
    BY <1>0, <1>1 DEF TypeOK
  <2>q. QED
    BY <1>0, <1>1, <2>1 DEF TypeOK
<1>3. op'[d] = "idle" /\ \A e \in Sides : e # d => op'[e] = op[e]
  BY <1>0, <1>1 DEF TypeOK
<1>4. Starts' /\ Closes'
  BY <1>0, <1>1 DEF Starts, Closes
<1>5. SideInv(d)'
  BY <1>0, <1>1, <1>3 DEF SideInv, Turn, Counted, InOrder
<1>6. \A e \in Sides : SideInv(e)'
  BY <1>0, <1>1, <1>3, <1>5, SideFrame
<1>q. QED
  BY <1>2, <1>4, <1>6 DEF RelayInv

(* The peers: nothing is sent after the end of a stream was announced. *)
LEMMA PeersInv ==
  ASSUME RelayInv, NEW d \in Sides, PeerSends(d) \/ PeerEnds(d)
  PROVE  RelayInv'
<1>0. TypeOK /\ Starts /\ Closes /\ SideInv(d) /\ \A e \in Sides : SideInv(e)
  BY DEF RelayInv
<1>1. UNCHANGED <<phase, mode, replies, op, data, todo, rd, flag, closed, partial, dlv>>
  BY DEF PeerSends, PeerEnds, ops
<1>2. Starts' /\ Closes'
  BY <1>0, <1>1 DEF Starts, Closes
<1>3. CASE PeerSends(d)
  <2>1. fin[d] = "open" /\ fin' = fin /\ sent' = [sent EXCEPT ![d] = @ + 1]
    BY <1>3 DEF PeerSends
  <2>2. sent[d] \in Nat /\ rd[d] \in Nat
    BY <1>0, SideTypes
  <2>a. sent[d] + 1 \in Nat
    BY <2>2
  <2>3. sent' \in [Sides -> Nat] /\ sent'[d] = sent[d] + 1
        /\ \A e \in Sides : e # d => sent'[e] = sent[e]
    BY <1>0, <2>1, <2>a DEF TypeOK
  <2>4. TypeOK'
    BY <1>0, <1>1, <2>1, <2>3 DEF TypeOK
  <2>5. SideInv(d)'
    BY <1>0, <1>1, <2>1, <2>2, <2>3 DEF SideInv, Turn, Counted, InOrder
  <2>6. ASSUME NEW e \in Sides, e # d PROVE SideInv(e)'
    BY <1>0, <1>1, <2>1, <2>3, <2>6 DEF SideInv, Turn, Counted, InOrder
  <2>q. QED
    BY <1>2, <2>4, <2>5, <2>6 DEF RelayInv
<1>4. CASE PeerEnds(d)
  <2>1. /\ sent' = sent
        /\ \/ fin[d] = "open" /\ fin' = [fin EXCEPT ![d] = "fin"]
           \/ fin[d] # "rst" /\ fin' = [fin EXCEPT ![d] = "rst"]
    BY <1>4 DEF PeerEnds
  <2>2. fin' \in [Sides -> {"open", "fin", "rst"}]
        /\ (fin'[d] = "rst" \/ fin[d] = "open")
        /\ \A e \in Sides : e # d => fin'[e] = fin[e]
    BY <1>0, <2>1 DEF TypeOK
  <2>4. TypeOK'
    BY <1>0, <1>1, <2>1, <2>2 DEF TypeOK
  <2>5. SideInv(d)'
    BY <1>0, <1>1, <2>1, <2>2 DEF SideInv, Turn, Counted, InOrder
  <2>6. ASSUME NEW e \in Sides, e # d PROVE SideInv(e)'
    BY <1>0, <1>1, <2>1, <2>2, <2>6 DEF SideInv, Turn, Counted, InOrder
  <2>q. QED
    BY <1>2, <2>4, <2>5, <2>6 DEF RelayInv
<1>q. QED
  BY <1>3, <1>4

(* The set-up: only the start of the relay touches the directions. *)
LEMMA SetupInv == ASSUME RelayInv, Setup PROVE RelayInv'
<1>0. TypeOK /\ Starts /\ Closes /\ \A e \in Sides : SideInv(e)
  BY DEF RelayInv
<1>1. /\ UNCHANGED <<data, todo, rd, flag, closed, partial, sent, fin, dlv>>
      /\ phase # "relay"
  BY DEF Setup, Reject, Connect, Bind, SetupFails, Connected, Accepted, StartRelay,
     ops, peers
<1>2. /\ phase' \in Phases /\ mode' \in {"", "c", "b"}
      /\ replies' = replies \/ \E r \in {Granted, Rejected, Junk} : Reply(r)
  BY <1>0 DEF Setup, Reject, Connect, Bind, SetupFails, Connected, Accepted, StartRelay,
     Goto, Phases, TypeOK
<1>3. replies' \in Seq({Granted, Rejected, Junk})
  <2>1. replies \in Seq({Granted, Rejected, Junk})
    BY <1>0 DEF TypeOK
  <2>2. ASSUME NEW r \in {Granted, Rejected, Junk}, Reply(r)
        PROVE  replies' \in Seq({Granted, Rejected, Junk})
    BY <2>1, <2>2, AppendProperties DEF Reply
  <2>q. QED
    BY <1>2, <2>1, <2>2
<1>4. \/ phase' # "relay" /\ op' = op
      \/ phase' = "relay" /\ op' = [d \in Sides |-> "read"]
  BY DEF Setup, Reject, Connect, Bind, SetupFails, Connected, Accepted, StartRelay,
     Goto, ops
<1>5. op' \in [Sides -> {"idle", "read", "write"}]
  BY <1>0, <1>4 DEF TypeOK
<1>6. TypeOK'
  BY <1>0, <1>1, <1>2, <1>3, <1>5 DEF TypeOK
<1>7. \A d \in Sides : op'[d] = op[d] \/ op'[d] = "read"
  BY <1>4
<1>8. Closes' /\ \A d \in Sides : todo[d] = 0 /\ ~flag[d]
  BY <1>0, <1>1 DEF Starts, Closes
<1>9. Starts'
  <2>1. CASE phase' # "relay" /\ op' = op
    BY <1>0, <1>1, <2>1 DEF Starts
  <2>2. CASE phase' = "relay"
    BY <2>2 DEF Starts
  <2>q. QED
    BY <1>4, <2>1, <2>2
<1>10. \A e \in Sides : SideInv(e)'
  BY <1>0, <1>1, <1>7, <1>8 DEF SideInv, Turn, Counted, InOrder
<1>q. QED
  BY <1>6, <1>8, <1>9, <1>10 DEF RelayInv

LEMMA RelayStep == ASSUME RelayInv, [Next]_vars PROVE RelayInv'
<1>1. CASE UNCHANGED vars
  BY <1>1 DEF vars, ops, peers, RelayInv, TypeOK, Starts, Closes, SideInv, Turn, Counted,
     InOrder
<1>2. CASE Setup
  BY <1>2, SetupInv
<1>3. ASSUME NEW d \in Sides, Relay(d) \/ PeerSends(d) \/ PeerEnds(d) PROVE RelayInv'
  BY <1>3, ReadSomeInv, ReadEndsInv, SendSomeInv, SendFailsInv, PeersInv DEF Relay
<1>q. QED
  BY <1>1, <1>2, <1>3 DEF Next

-----------------------------------------------------------------------------
(* The firewall. *)

LEMMA SomeAddress == NoAddress \in Addresses
<1>1. PICK d \in Digits : TRUE
  BY FirewallAssumption
<1>2. [i \in 1..2 |-> <<d>>] \in Addresses
  BY <1>1 DEF Addresses, Octets
<1>q. QED
  BY <1>2 DEF NoAddress

(* The file before its first line. *)
LEMMA NoLines ==
  /\ <<>> \in Seq(Rules \cup {Blank}) /\ Len(<<>>) <= MaxLines
  /\ \A k \in 1..Len(<<>>) : FALSE
<1>1. Len(<<>>) = 0
  OBVIOUS
<1>2. \A S : <<>> \in Seq(S)
  OBVIOUS
<1>3. 0 <= MaxLines
  BY FirewallAssumption
<1>q. QED
  BY <1>1, <1>2, <1>3

LEMMA FirewallInitInv == FirewallInit => FirewallInv
<1> SUFFICES ASSUME FirewallInit PROVE FirewallInv
  OBVIOUS
<1>1. lines = <<>> /\ cmd = "" /\ dst \in Addresses /\ verdict = "none"
  BY SomeAddress DEF FirewallInit
<1>2. lines \in Seq(Rules \cup {Blank}) /\ Len(lines) <= MaxLines
  BY <1>1, NoLines
<1>q. QED
  BY <1>1, <1>2 DEF FirewallInv, FirewallType, Reads

(* One more line: those before it stay as they are. *)
LEMMA OneMoreLine ==
  ASSUME FirewallType, Len(lines) < MaxLines, NEW r \in Rules \cup {Blank}
  PROVE  /\ Append(lines, r) \in Seq(Rules \cup {Blank})
         /\ Len(Append(lines, r)) = Len(lines) + 1 /\ Len(lines) \in Nat
         /\ Len(Append(lines, r)) <= MaxLines
         /\ \A k \in 1..Len(lines) : Append(lines, r)[k] = lines[k]
         /\ Append(lines, r)[Len(lines) + 1] = r
         /\ Append(lines, r) # <<>> /\ Last(Append(lines, r)) = r
<1>0. lines \in Seq(Rules \cup {Blank})
  BY DEF FirewallType
<1>1. lines \in Seq(Rules \cup {Blank}) /\ Len(lines) \in Nat
  BY <1>0, LenProperties
<1>2. /\ Append(lines, r) \in Seq(Rules \cup {Blank})
      /\ Len(Append(lines, r)) = Len(lines) + 1
      /\ \A k \in 1..Len(lines) : Append(lines, r)[k] = lines[k]
      /\ Append(lines, r)[Len(lines) + 1] = r
  BY <1>1, AppendProperties
<1>3. Append(lines, r) # <<>> /\ Last(Append(lines, r)) = r
  BY <1>1, <1>2 DEF Last
<1>q. QED
  BY <1>1, <1>2, <1>3, FirewallAssumption

LEMMA ReadRuleInv == ASSUME FirewallInv, ReadRule PROVE FirewallInv'
<1>1. PICK r \in Rules :
        /\ lines' = Append(lines, r)
        /\ Step(IF Permits(r) THEN "permit" ELSE "reading")
  BY DEF ReadRule
<1>2. verdict = "reading" /\ Len(lines) < MaxLines /\ cmd' = cmd /\ dst' = dst
      /\ verdict' = IF Permits(r) THEN "permit" ELSE "reading"
  BY <1>1 DEF ReadRule, Step
<1>3. FirewallType /\ \A k \in 1..Len(lines) : ~Permits(lines[k])
  BY <1>2 DEF FirewallInv, Reads
<1>4. /\ lines' \in Seq(Rules \cup {Blank})
      /\ Len(lines') = Len(lines) + 1 /\ Len(lines) \in Nat
      /\ Len(lines') <= MaxLines
      /\ \A k \in 1..Len(lines) : lines'[k] = lines[k]
      /\ lines'[Len(lines) + 1] = r
      /\ lines' # <<>> /\ Last(lines') = r
  BY <1>1, <1>2, <1>3, OneMoreLine
<1>5. ASSUME NEW x PROVE Permits(x)' = Permits(x)
  BY <1>2 DEF Permits
<1>6. FirewallType'
  BY <1>2, <1>3, <1>4 DEF FirewallType
<1>7. CASE Permits(r)
  <2>1. verdict' = "permit" /\ Permits(Last(lines))'
    BY <1>2, <1>4, <1>5, <1>7
  <2>q. QED
    BY <1>4, <1>6, <2>1 DEF FirewallInv, Reads
<1>8. CASE ~Permits(r)
  <2>1. verdict' = "reading"
    BY <1>2, <1>8
  <2>2. \A k \in 1..Len(lines') : k \in 1..Len(lines) \/ k = Len(lines) + 1
    BY <1>4
  <2>3. ASSUME NEW k \in 1..Len(lines') PROVE ~Permits(lines[k])'
    BY <1>3, <1>4, <1>5, <1>8, <2>2
  <2>q. QED
    BY <1>6, <2>1, <2>3 DEF FirewallInv, Reads
<1>q. QED
  BY <1>7, <1>8

LEMMA FirewallStep ==
  ASSUME FirewallInv, ReadRequest \/ Firewall \/ Forget \/ UNCHANGED firewall
  PROVE  FirewallInv'
<1>0. FirewallType /\ Reads
  BY DEF FirewallInv
<1>1. CASE ReadRequest
  <2>1. lines' = lines /\ lines = <<>> /\ verdict' = "reading"
        /\ cmd' \in Commands \cup {""} /\ dst' \in Addresses
    BY <1>0, <1>1 DEF ReadRequest, Reads
  <2>2. \A k \in 1..Len(lines') : FALSE
    BY <2>1, NoLines
  <2>q. QED
    BY <1>0, <2>1, <2>2 DEF FirewallInv, FirewallType, Reads
<1>2. CASE ReadRule
  BY <1>2, ReadRuleInv
<1>3. CASE ReadBlank
  <2>1. /\ Len(lines) < MaxLines /\ lines' = Append(lines, Blank)
        /\ cmd' = cmd /\ dst' = dst /\ verdict' = "crash"
    BY <1>3 DEF ReadBlank, Step
  <2>2. lines' \in Seq(Rules \cup {Blank}) /\ Len(lines') <= MaxLines
    BY <1>0, <2>1, OneMoreLine
  <2>q. QED
    BY <1>0, <2>1, <2>2 DEF FirewallInv, FirewallType, Reads
<1>4. CASE EndOfFile
  <2>1. verdict = "reading" /\ verdict' = "reject" /\ UNCHANGED <<lines, cmd, dst>>
    BY <1>4 DEF EndOfFile, Step
  <2>2. ASSUME NEW x PROVE Permits(x)' = Permits(x)
    BY <2>1 DEF Permits
  <2>3. \A k \in 1..Len(lines) : ~Permits(lines[k])'
    BY <1>0, <2>1, <2>2 DEF Reads
  <2>q. QED
    BY <1>0, <2>1, <2>3 DEF FirewallInv, FirewallType, Reads
<1>5. CASE Forget
  <2>1. lines' = <<>> /\ dst' \in Addresses /\ verdict' = "none" /\ cmd' = ""
    BY <1>5, SomeAddress DEF Forget
  <2>2. lines' \in Seq(Rules \cup {Blank}) /\ Len(lines') <= MaxLines
    BY <2>1, NoLines
  <2>q. QED
    BY <2>1, <2>2 DEF FirewallInv, FirewallType, Reads
<1>6. CASE UNCHANGED firewall
  BY <1>0, <1>6 DEF firewall, FirewallInv, FirewallType, Reads, Permits
<1>q. QED
  BY <1>1, <1>2, <1>3, <1>4, <1>5, <1>6 DEF Firewall

-----------------------------------------------------------------------------
(* The theorems. *)

LEMMA SInitInv == SInit => SInv
BY RelayInitInv, FirewallInitInv DEF SInit, SInv, ChildType

LEMMA SStep == ASSUME SInv, [SNext]_svars PROVE SInv'
<1>1. RelayInv'
  BY RelaySteps, RelayStep DEF SInv
<1>2. FirewallInv'
  BY FirewallSteps, FirewallStep DEF SInv
<1>3. ChildType'
  BY DEF SInv, ChildType, SNext, svars, Fork, Collect, Child, Exit, Peer
<1>q. QED
  BY <1>1, <1>2, <1>3 DEF SInv

(* The inductive invariant: what the relay has read, buffered and          *)
(* delivered, and what the firewall has read, fit together in every state  *)
(* of a session (socks_server.cpp).                                        *)
THEOREM SocksInvariance == SSpec => []SInv
BY SInitInv, SStep, PTL DEF SSpec

(* Types: a pending send never counts below zero, and the file is read     *)
(* within its length.                                                      *)
THEOREM SocksTypeCorrect == SSpec => []STypeOK
<1>1. SInv => STypeOK
  BY DEF SInv, STypeOK, RelayInv, FirewallInv, FirewallType, ChildType
<1>q. QED
  BY <1>1, SocksInvariance, PTL

(* in_do_write and out_do_write put out as many bytes as were read, less   *)
(* those of the pending send, however the kernel splits their sends and    *)
(* whichever direction ends first; and as long as the kernel takes every   *)
(* buffer whole, they are the very bytes the peer sent, in their order.    *)
(* (With a partial send the number is still right and the bytes are not:   *)
(* StreamIntact without its condition is false.)                           *)
THEOREM BytesArrive ==
  SSpec => [](BytesCounted /\ (~partial => StreamIntact))
<1>1. SInv => BytesCounted
  BY DEF SInv, RelayInv, SideInv, Counted, BytesCounted
<1>2. SInv /\ ~partial => StreamIntact
  <2> SUFFICES ASSUME SInv, ~partial, NEW d \in Sides, NEW k \in 1..MaxBytes,
                      k <= Len(dlv[d])
               PROVE  dlv[d][k] = k
    BY DEF StreamIntact
  <2>1. InOrder(d) /\ Len(dlv[d]) \in Nat
    BY SideTypes DEF SInv, RelayInv, SideInv
  <2> QED
    BY <2>1, RelayAssumption DEF InOrder
<1>q. QED
  BY <1>1, <1>2, SocksInvariance, PTL

(* in_do_read and out_do_read: an end is passed on only after all bytes,   *)
(* and the sockets are closed only by the second direction to end.         *)
THEOREM EndComesLast == SSpec => []EndAfterData
<1>1. SInv => EndAfterData
  <2> SUFFICES ASSUME SInv PROVE EndAfterData
    OBVIOUS
  <2>1. ASSUME NEW d \in Sides, flag[d]
        PROVE  op[d] = "idle" /\ (fin[d] = "fin" => Len(dlv[d]) = sent[d])
    <3>1. /\ op[d] = "idle" /\ todo[d] = 0
          /\ (fin[d] = "fin" /\ rd[d] = sent[d]) \/ fin[d] = "rst"
          /\ Len(dlv[d]) + todo[d] = rd[d] /\ TypeOK
      BY <2>1 DEF SInv, RelayInv, SideInv, Turn, Counted
    <3>q. QED
      BY <3>1, SideTypes
  <2>q. QED
    BY <2>1 DEF SInv, RelayInv, Closes, EndAfterData
<1>q. QED
  BY <1>1, SocksInvariance, PTL

(* firewall: a request is rejected only when no line of socks.conf names   *)
(* its address, whatever the digits of the octets.                         *)
THEOREM NoRuleMissed == SSpec => []NamedIsPermitted
<1>1. SInv => NamedIsPermitted
  <2> SUFFICES ASSUME SInv, verdict = "reject",
                      NEW k \in 1..Len(lines), Names(lines[k])
               PROVE  FALSE
    BY DEF NamedIsPermitted, Named
  <2>1. /\ lines \in Seq(Rules \cup {Blank}) /\ dst \in Addresses
        /\ ~Permits(lines[k])
    BY DEF SInv, FirewallInv, FirewallType, Reads
  <2>2. lines[k] \in Rules \cup {Blank}
    BY <2>1, ElementOfSeq
  <2>3. lines[k] \in Rules
    <3>1. lines[k].verb = "permit" /\ Blank.verb = ""
      BY DEF Names, Blank
    <3>q. QED
      BY <2>2, <3>1
  <2>q. QED
    BY <2>1, <2>3, NamesPermits
<1>q. QED
  BY <1>1, SocksInvariance, PTL

(* firewall: a line with a star permits only what it names, for the dot    *)
(* before the star ends an octet in the comparison of the texts.           *)
THEOREM NoStarTooWide == SSpec => []StarsAreExact
<1>1. SInv => StarsAreExact
  BY StarNames DEF SInv, FirewallInv, FirewallType, Reads, StarsAreExact
<1>q. QED
  BY <1>1, SocksInvariance, PTL

-----------------------------------------------------------------------------
(* The relay implements the two byte streams of RelayChannel.  While the   *)
(* kernel takes every buffer whole the bytes delivered are the stream's;   *)
(* otherwise the mapping keeps their number.                               *)

LEMMA ChannelNames ==
  /\ Channel!Sides = Sides
  /\ \A n : Channel!Upto(n) = [k \in 1..n |-> k]
BY DEF Channel!Sides, Sides, Channel!Upto

(* In either case what arrived of a stream is its first bytes. *)
FirstBytes ==
  /\ Arrived \in [Sides -> Seq(Nat)]
  /\ \A d \in Sides : /\ Arrived[d] = [k \in 1..Len(dlv[d]) |-> k]
                      /\ Len(Arrived[d]) = Len(dlv[d])

LEMMA ArrivedInOrder == RelayInv => FirstBytes
<1> SUFFICES ASSUME RelayInv PROVE FirstBytes
  OBVIOUS
<1>1. TypeOK /\ \A e \in Sides : InOrder(e)
  BY DEF RelayInv, SideInv
<1>2. ASSUME NEW e \in Sides
      PROVE  /\ Arrived[e] = [k \in 1..Len(dlv[e]) |-> k] /\ Arrived[e] \in Seq(Nat)
             /\ Len(Arrived[e]) = Len(dlv[e])
  <2>1. dlv[e] \in Seq(Nat) /\ Len(dlv[e]) \in Nat
    BY <1>1, SideTypes
  <2>2. Arrived[e] = [k \in 1..Len(dlv[e]) |-> k]
    BY <1>1 DEF Arrived, InOrder
  <2>q. QED
    BY <2>1, <2>2
<1>3. Arrived \in [Sides -> Seq(Nat)]
  <2>1. Arrived = [e \in Sides |-> Arrived[e]]
    BY <1>1 DEF Arrived, TypeOK
  <2>q. QED
    BY <1>2, <2>1
<1>q. QED
  BY <1>2, <1>3 DEF FirstBytes

LEMMA ChannelInit == Init => Channel!Init
<1> SUFFICES ASSUME Init PROVE Channel!Init
  OBVIOUS
<1>1. /\ sent = [d \in Sides |-> 0] /\ fin = [d \in Sides |-> "open"]
      /\ dlv = [d \in Sides |-> <<>>] /\ flag = [d \in Sides |-> FALSE]
  BY DEF Init
<1>2. Arrived = [d \in Sides |-> <<>>]
  <2>1. Len(<<>>) = 0 /\ [k \in 1..0 |-> k] = <<>>
    OBVIOUS
  <2>q. QED
    BY <1>1, <2>1 DEF Arrived
<1>q. QED
  BY <1>1, <1>2, ChannelNames DEF Channel!Init

(* A step that neither delivers nor tells an end is no step of the channel. *)
LEMMA ChannelStutter ==
  ASSUME UNCHANGED <<sent, fin, dlv, flag, partial>>
  PROVE  UNCHANGED <<sent, fin, Arrived, flag>>
BY DEF Arrived

(* A completed send is a delivery of the next bytes, before the end.       *)
LEMMA SendDelivers ==
  ASSUME RelayInv, RelayInv', FirstBytes, FirstBytes', NEW d \in Sides, SendSome(d)
  PROVE  Channel!Deliver(d)
<1>0. TypeOK /\ SideInv(d) /\ SideInv(d)' /\ TypeOK'
  BY DEF RelayInv
<1>1. PICK n \in 1..todo[d] :
           /\ n \in Nat \ {0} /\ n <= Len(data[d])
           /\ SubSeq(data[d], 1, n) \in Seq(Nat) /\ Len(SubSeq(data[d], 1, n)) = n
           /\ dlv' = [dlv EXCEPT ![d] = @ \o SubSeq(data[d], 1, n)]
  BY SendSomeStep
<1>2. op[d] = "write" /\ UNCHANGED <<rd, flag, partial, sent, fin>>
  BY DEF SendSome, peers
<1>3. ~flag[d] /\ Len(dlv[d]) + todo[d] = rd[d] /\ rd[d] <= sent[d]
  BY <1>0, <1>2 DEF SideInv, Turn, Counted
<1> DEFINE m == Len(dlv'[d])
<1>4. m = Len(dlv[d]) + n
  <2>1. dlv[d] \in Seq(Nat)
    BY <1>0, SideTypes
  <2>2. dlv'[d] = dlv[d] \o SubSeq(data[d], 1, n)
    BY <1>0, <1>1 DEF TypeOK
  <2>q. QED
    BY <1>1, <2>1, <2>2, ConcatProperties
<1>5. m \in (Len(Arrived[d]) + 1)..sent[d]
  <2>1. Len(Arrived[d]) = Len(dlv[d])
    BY DEF FirstBytes
  <2>2. /\ Len(dlv[d]) \in Nat /\ todo[d] \in Nat
        /\ rd[d] \in Nat /\ sent[d] \in Nat
    BY <1>0, SideTypes
  <2>3. n \in 1..todo[d]
    OBVIOUS
  <2>4. m = Len(Arrived[d]) + n
    BY <1>4, <2>1
  <2> HIDE DEF m
  <2>q. QED
    BY <1>3, <2>1, <2>2, <2>3, <2>4
<1>6. Arrived' = [Arrived EXCEPT ![d] = Channel!Upto(m)]
  <2>1. /\ Arrived \in [Sides -> Seq(Nat)] /\ Arrived' \in [Sides -> Seq(Nat)]
        /\ Arrived'[d] = Channel!Upto(m)
    BY ChannelNames DEF FirstBytes
  <2>2. ASSUME NEW e \in Sides, e # d PROVE Arrived'[e] = Arrived[e]
    <3>1. dlv'[e] = dlv[e]
      BY <1>0, <1>1, <2>2 DEF TypeOK
    <3>q. QED
      BY <3>1 DEF FirstBytes
  <2>q. QED
    BY <2>1, <2>2
<1>q. QED
  BY <1>2, <1>3, <1>5, <1>6 DEF Channel!Deliver

LEMMA ChannelStep ==
  ASSUME RelayInv, RelayInv', FirstBytes, FirstBytes', [Next]_vars
  PROVE  [Channel!Next]_<<sent, fin, Arrived, flag>>
<1>1. CASE UNCHANGED vars
  BY <1>1, ChannelStutter DEF vars, ops, peers
<1>2. CASE Setup
  BY <1>2, ChannelStutter DEF Setup, Reject, Connect, Bind, SetupFails, Connected,
     Accepted, StartRelay, ops, peers
<1>3. ASSUME NEW d \in Sides, ReadSome(d) \/ SendFails(d)
      PROVE  UNCHANGED <<sent, fin, Arrived, flag>>
  BY <1>3, ChannelStutter DEF ReadSome, SendFails, peers
<1>4. ASSUME NEW d \in Sides, ReadEnds(d) PROVE Channel!TellEnd(d)
  <2>1. /\ (fin[d] = "fin" /\ rd[d] = sent[d]) \/ fin[d] = "rst"
        /\ flag' = [flag EXCEPT ![d] = TRUE] /\ op[d] = "read"
        /\ UNCHANGED <<sent, fin, dlv, partial>>
    BY <1>4 DEF ReadEnds, peers
  <2>2. Len(dlv[d]) = rd[d] /\ Len(Arrived[d]) = Len(dlv[d])
    <3>1. TypeOK /\ todo[d] = 0 /\ Len(dlv[d]) + todo[d] = rd[d]
      BY <2>1 DEF RelayInv, SideInv, Turn, Counted
    <3>q. QED
      BY <3>1, SideTypes DEF FirstBytes
  <2>3. Arrived' = Arrived
    BY <2>1 DEF Arrived
  <2>q. QED
    BY <2>1, <2>2, <2>3 DEF Channel!TellEnd
<1>5. ASSUME NEW d \in Sides, PeerSends(d) PROVE Channel!Send(d)
  <2>1. Arrived' = Arrived
    BY <1>5 DEF PeerSends, ops, Arrived
  <2>q. QED
    BY <1>5, <2>1 DEF PeerSends, ops, Channel!Send
<1>6. ASSUME NEW d \in Sides, PeerEnds(d) PROVE Channel!End(d)
  <2>1. Arrived' = Arrived
    BY <1>6 DEF PeerEnds, ops, Arrived
  <2>q. QED
    BY <1>6, <2>1 DEF PeerEnds, ops, Channel!End
<1>q. QED
  BY <1>1, <1>2, <1>3, <1>4, <1>5, <1>6, SendDelivers, ChannelNames
  DEF Next, Relay, Channel!Next

(* A session of the SOCKS server is two byte streams: every byte in order  *)
(* and once, the end after the last, unless a connection is reset.         *)
THEOREM SocksRefinesChannel == SSpec => ImplementsChannel
<1>1. SInit => Channel!Init
  BY ChannelInit DEF SInit
<1>2. SInv => RelayInv
  BY DEF SInv
<1>3. [SNext]_svars => [Next]_vars
  BY RelaySteps
<1>q. QED
  BY <1>1, <1>2, <1>3, SocksInvariance, ArrivedInOrder, ChannelStep, PTL
  DEF SSpec, ImplementsChannel, Channel!Spec

=============================================================================
