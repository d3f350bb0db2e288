------------------------------- MODULE Rbldns -------------------------------
(***************************************************************************)
(* rbldns(1) and rbldns-data(1), source/rbldns.c and source/rbldns-data.c:  *)
(* a list of networks, and whether an address is in one of them.            *)
(*                                                                         *)
(* An address is a number of WIDTH bits.  data.cdb is the set of its keys.  *)
(***************************************************************************)
EXTENDS Integers, Sequences, SequencesExt, FiniteSets

CONSTANTS
  WIDTH,                    \* bits of an address (32)
  DEEPEST,                  \* bits that are given up at most (24)
  Files,                    \* contents of data
  None, Bogus

VARIABLE s

Addresses == 0..2^WIDTH - 1

(* A line is a comment, c = "#"; a network, c = "n", with ip and bits; or   *)
(* the answer, c = ":", with ip and text.  Anything else is an error.       *)
Bad(l) == l.c \notin {"#", ":", "n"} \/ (l.c = ":" /\ Bogus \in {l.ip, l.text})

(* The key of a network is its address, whatever bits it has after the      *)
(* prefix, and the length, at most WIDTH.                                   *)
Key(l) == [ip |-> l.ip, bits |-> IF l.bits = None \/ l.bits > WIDTH THEN WIDTH ELSE l.bits]

(* What is kept for the answer: the structure that holds an address, with   *)
(* its length before it, and then the text.                                 *)
Kept(l) == <<"length", l.ip, "rest", l.text>>

rbldns_data(lines, old) ==
  IF \E i \in DOMAIN lines : Bad(lines[i]) THEN old
  ELSE LET answers == SelectSeq(lines, LAMBDA l : l.c = ":")
       IN [keys |-> {Key(lines[i]) : i \in {j \in DOMAIN lines : lines[j].c = "n"}},
           answer |-> IF answers = <<>> THEN None ELSE Kept(Head(answers))]

-----------------------------------------------------------------------------
(* The prefix without its last i bits.                                      *)
Masked(ip, i) == (ip \div 2^i) * 2^i

(* Mutant: the search begins one bit too late.                              *)
Listed_Short(db, ip) == \E i \in 1..DEEPEST : [ip |-> Masked(ip, i), bits |-> WIDTH - i] \in db.keys
Listed(db, ip) == \E i \in 0..DEEPEST : [ip |-> Masked(ip, i), bits |-> WIDTH - i] \in db.keys

(* The record for the answer is given out from its first byte.              *)
Given(db) == IF db.answer = None THEN <<"127.0.0.2", "Listed $">> ELSE <<Head(db.answer), Tail(db.answer)>>

doit(db, q, qtype) ==
  CASE qtype \in {"ANY", "OPT"} -> "HINFO"
    [] qtype \notin {"A", "TXT"} \/ q = None -> "refused"
    [] OTHER -> IF ~Listed(db, q) THEN "NXDOMAIN"
                ELSE IF qtype = "A" THEN Given(db)[1] ELSE <<Given(db)[2], q>>

At(pc) == s.prog = "rbldns" /\ s.pc = pc
Init == \E f \in Files : s = [prog |-> "rbldns", pc |-> "idle", data |-> f, db |-> rbldns_data(f, [keys |-> {}, answer |-> None]),
                              q |-> None, type |-> None, r |-> None, edited |-> FALSE]
Compile == /\ s.prog = "rbldns" /\ ~s.edited
           /\ \E f \in Files : s' = [s EXCEPT !.data = f, !.db = rbldns_data(f, s.db), !.edited = TRUE]
(* respond() opens data.cdb; a name that is not an address of base is None. *)
Respond ==
  /\ At("idle")
  /\ \E q \in Addresses \cup {None}, t \in {"A", "TXT", "PTR", "ANY"} :
       s' = [s EXCEPT !.pc = "answered", !.q = q, !.type = t, !.r = doit(s.db, q, t)]
Next == Compile \/ Respond

(* An address is listed when, and only when, a line of the last data        *)
(* without errors has a network with no bits set after its prefix, of a     *)
(* length that is not too short, and the address starts with the prefix.    *)
Lists ==
  At("answered") /\ ~s.edited /\ s.q # None /\ s.type = "A" /\ (\A i \in DOMAIN s.data : ~Bad(s.data[i])) =>
    (s.r # "NXDOMAIN") =
      \E i \in DOMAIN s.data :
        LET l == s.data[i]
            n == IF l.bits = None THEN WIDTH ELSE l.bits
        IN /\ l.c = "n" /\ n >= WIDTH - DEEPEST
           /\ \E low \in 0..2^(WIDTH - (IF n > WIDTH THEN WIDTH ELSE n)) - 1 : s.q = l.ip + low
           /\ l.ip % 2^(WIDTH - (IF n > WIDTH THEN WIDTH ELSE n)) = 0
=============================================================================
