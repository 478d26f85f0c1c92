---------------------------- MODULE SocksFirewall ----------------------------
(***************************************************************************)
(* The firewall of socks_server.cpp: the lines of socks.conf are read one  *)
(* by one until one permits the request.  Rules and addresses are compared *)
(* as texts: the rule's pattern up to its first "*" with as many leading   *)
(* characters of the address.  Addresses here have two octets of one or    *)
(* two digits; that is enough for one octet to be a prefix of another.     *)
(***************************************************************************)
EXTENDS Integers, Sequences, SequencesExt

CONSTANTS
  Digits,    \* digits an octet is written with
  MaxLines   \* lines of socks.conf; a bound for TLC only

ASSUME FirewallAssumption ==
  Digits \subseteq 0..9 /\ Digits # {} /\ MaxLines \in Nat

Octets == {<<d>> : d \in Digits} \cup {<<d, e>> : d, e \in Digits}
Addresses == [1..2 -> Octets]

(* A pattern names its first octets; the others are stars. *)
Patterns == UNION {[1..n -> Octets] : n \in 0..2}
Commands == {"c", "b"}
Rules == [verb : {"permit", "deny"}, cmd : Commands, pattern : Patterns]
Blank == [verb |-> "", cmd |-> "", pattern |-> <<>>]  \* nothing but a comment

VARIABLES
  lines,    \* the lines of socks.conf read so far
  cmd,      \* CD of the request, "" for neither connect nor bind
  dst,      \* DST_IP
  verdict   \* "none", "reading", then "permit", "reject" or "crash"

firewall == <<lines, cmd, dst, verdict>>

(* DST_IP as to_string writes it. *)
Dot == 10          \* any character that is not a digit
Text(a) == a[1] \o <<Dot>> \o a[2]
(* The characters of a pattern before its first star. *)
Stem(p) ==
  IF Len(p) = 2 THEN Text(p) ELSE IF Len(p) = 1 THEN p[1] \o <<Dot>> ELSE <<>>

NoAddress == CHOOSE a \in Addresses : TRUE   \* before a request is read

FirewallInit ==
  /\ lines = <<>> /\ cmd = "" /\ dst = NoAddress /\ verdict = "none"

(* parse_request, and the call of firewall. *)
ReadRequest ==
  /\ verdict = "none"
  /\ cmd' \in Commands \cup {""} /\ dst' \in Addresses
  /\ verdict' = "reading" /\ UNCHANGED lines

(* Mutant: the dot before the star is not part of the pattern. *)
Permits_NoDot(r) ==
  /\ r.verb = "permit" /\ r.cmd = cmd
  /\ IsPrefix(IF Len(r.pattern) = 1 THEN r.pattern[1] ELSE Stem(r.pattern),
              Text(dst))

Permits(r) ==
  /\ r.verb = "permit" /\ r.cmd = cmd
  /\ IsPrefix(Stem(r.pattern), Text(dst))

Step(v) == verdict' = v /\ UNCHANGED <<cmd, dst>>

ReadRule ==
  /\ verdict = "reading" /\ Len(lines) < MaxLines
  /\ \E r \in Rules :
       /\ lines' = Append(lines, r)
       /\ Step(IF Permits(r) THEN "permit" ELSE "reading")

(* A line without words: socks_vec[0] of an empty vector. *)
ReadBlank ==
  /\ verdict = "reading" /\ Len(lines) < MaxLines
  /\ lines' = Append(lines, Blank)
  /\ Step("crash")

(* Mutant: the last line, when no newline ends it, is not looked at. *)
EndOfFile_Early ==
  /\ verdict = "reading"
  /\ \/ UNCHANGED lines
     \/ Len(lines) < MaxLines /\ \E r \in Rules : lines' = Append(lines, r)
  /\ Step("reject")

EndOfFile ==
  /\ verdict = "reading"
  /\ Step("reject") /\ UNCHANGED lines

Firewall == ReadRule \/ ReadBlank \/ EndOfFile

-----------------------------------------------------------------------------
(* PROPERTIES *)

(* The reference: a rule names an address when the octets it gives agree.  *)
Names(r) ==
  /\ r.verb = "permit" /\ r.cmd = cmd
  /\ \A k \in 1..Len(r.pattern) : r.pattern[k] = dst[k]
Named == \E k \in 1..Len(lines) : Names(lines[k])

(* A request that some rule names is not rejected: comparing texts misses  *)
(* no rule.                                                                *)
NamedIsPermitted == verdict = "reject" => ~Named

(* A rule with a star permits only what it names: its text stops at a dot, *)
(* so no longer octet passes for a shorter one.                            *)
StarsAreExact ==
  verdict = "permit" /\ Len(Last(lines).pattern) < 2
    => Names(Last(lines))
=============================================================================
