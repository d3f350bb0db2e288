-------------------------------- MODULE Rules --------------------------------
(***************************************************************************)
(* tcprules(1), tcprulescheck(1) and the rules of tcpserver(1):             *)
(* source/tcprules.c, source/rules.c, source/tcprulescheck.c and the child  *)
(* of source/tcpserver.c.                                                   *)
(*                                                                         *)
(* Text is a sequence of tokens; numbers are written as ToString() does.    *)
(* rules.cdb is the sequence of its records in the order in which they were *)
(* added: a look-up finds the first of a key (Cdb.Finds).                   *)
(***************************************************************************)
EXTENDS Integers, Sequences, SequencesExt, FiniteSets, FiniteSetsExt, TLC

CONSTANTS
  Texts,                    \* files of rules
  Clients,                  \* [ip, host, info], None where unknown
  CAP,                      \* the last number of a range (255)
  None
VARIABLE s

(* A line has a colon, or is passed over; c is "#" for a comment.           *)
(* word is what the instructions begin with, env what follows: a sequence   *)
(* of pairs of a variable and its value, or None if it cannot be parsed.    *)
IsRule(l) == l.c # "#" /\ l.colon

Number(t) == CHOOSE n \in 0..2 * CAP : ToString(n) = t
IsNumber(ts) == ts = <<>> \/ (Len(ts) = 1 /\ \E n \in 0..2 * CAP : ToString(n) = ts[1])
getnum(ts) == IF ts = <<>> THEN 0 ELSE Number(ts[1])

Dash(a) == IF ToSet(a) \cap {"=", "@"} = {} THEN SelectInSeq(a, LAMBDA t : t = "-") ELSE 0
Left(a) == SubSeq(a, 1, SelectLastInSeq(SubSeq(a, 1, Dash(a) - 1), LAMBDA t : t = "."))
Right(a) == LET rest == SubSeq(a, Dash(a) + 1, Len(a))
                dot == SelectInSeq(rest, LAMBDA t : t = ".")
            IN IF dot = 0 THEN <<>> ELSE SubSeq(rest, dot, Len(rest))
Bot(a) == SubSeq(a, Len(Left(a)) + 1, Dash(a) - 1)
Top(a) == SubSeq(a, Dash(a) + 1, Len(a) - Len(Right(a)))

(* doaddressdata(): the keys that an address stands for.                    *)
(* Mutant: a range ends before its last number.                             *)
Keys_Short(a) ==
  IF Dash(a) = 0 THEN <<a>>
  ELSE LET bot == getnum(Bot(a))
           top == Min({getnum(Top(a)), CAP})
       IN [i \in 1..top - bot |-> Left(a) \o <<ToString(bot + i - 1)>> \o Right(a)]
Keys(a) ==
  IF Dash(a) = 0 THEN <<a>>
  ELSE LET bot == getnum(Bot(a))
           top == Min({getnum(Top(a)), CAP})
       IN [i \in 1..top - bot + 1 |-> Left(a) \o <<ToString(bot + i - 1)>> \o Right(a)]

(* An address of IP version 6 is cut at its first colon.                    *)
Bad(l) ==
  \/ ":" \in ToSet(l.addr) \/ l.word \notin {"deny", "allow"} \/ l.env = None
  \/ Dash(l.addr) # 0 /\ ~(IsNumber(Bot(l.addr)) /\ IsNumber(Top(l.addr)))
Entries(l) == (IF l.word = "deny" THEN <<[c |-> "D"]>> ELSE <<>>) \o [i \in DOMAIN l.env |-> [c |-> "+", var |-> l.env[i]]]
Records(l) == [i \in DOMAIN Keys(l.addr) |-> [key |-> Keys(l.addr)[i], data |-> Entries(l)]]
tcprules(text, old) ==
  LET lines == SelectSeq(text, IsRule)
  IN IF \E i \in DOMAIN lines : Bad(lines[i]) THEN old
     ELSE FlattenSeq([i \in DOMAIN lines |-> Records(lines[i])])

-----------------------------------------------------------------------------
(* doit() of rules.c: the names that are looked up, in order.               *)
NetworksOf(ip) == SelectSeq([i \in 1..Len(ip) |-> SubSeq(ip, 1, Len(ip) + 1 - i)], LAMBDA p : Last(p) = ".")
DomainsOf(host) == SelectSeq([i \in 1..Len(host) |-> SubSeq(host, i, Len(host))], LAMBDA p : Head(p) = ".")
If(b, seq) == IF b THEN seq ELSE <<>>
Names(c) ==
  If(c.info # None, <<c.info \o <<"@">> \o c.ip>> \o If(c.host # None, <<c.info \o <<"@", "=">> \o c.host>>))
    \o <<c.ip>> \o If(c.host # None, << <<"=">> \o c.host>>) \o NetworksOf(c.ip)
    \o If(c.host # None, [i \in DOMAIN DomainsOf(c.host) |-> <<"=">> \o DomainsOf(c.host)[i]] \o << <<"=">> >>) \o << <<>> >>

(* The data of the first name that is found, None if none is.               *)
rules(db, c) ==
  LET found(n) == SelectInSeq(db, LAMBDA r : r.key = n)
      i == SelectInSeq(Names(c), LAMBDA n : found(n) # 0)
  IN IF i = 0 THEN None ELSE db[found(Names(c)[i])].data

(* found() of tcpserver.c and of tcprulescheck.c, which ends at "D".        *)
Variables(data) == LET plus == SelectSeq(data, LAMBDA e : e.c = "+") IN [i \in DOMAIN plus |-> plus[i].var]
Denies(data) == \E i \in DOMAIN data : data[i].c = "D"
BeforeD(data) == IF Denies(data) THEN SubSeq(data, 1, SelectInSeq(data, LAMBDA e : e.c = "D") - 1) ELSE data
Taken(db, c, allownorules) ==
  CASE db = None -> [deny |-> ~allownorules, env |-> <<>>]
    [] OTHER -> LET data == rules(db, c)
                IN IF data = None THEN [deny |-> FALSE, env |-> <<>>] ELSE [deny |-> Denies(data), env |-> Variables(data)]
Shown(db, c) ==
  LET data == rules(db, c)
  IN IF data = None THEN [deny |-> FALSE, env |-> <<>>] ELSE [deny |-> Denies(data), env |-> Variables(BeforeD(data))]

-----------------------------------------------------------------------------
At(pc) == s.prog = "rules" /\ s.pc = pc
Init == \E flag \in BOOLEAN : s = [prog |-> "rules", pc |-> "listen", db |-> None, text |-> None, edits |-> 0, c |-> None, taken |-> None, shown |-> None,
                                   allownorules |-> flag]
Compile ==
  /\ At("listen") /\ s.edits < 2
  /\ \E t \in Texts : LET db == tcprules(t, s.db) IN s' = [s EXCEPT !.text = IF db = s.db THEN @ ELSE t, !.db = db, !.edits = @ + 1]
Connect ==
  /\ At("listen")
  /\ \E c \in Clients :
       s' = [s EXCEPT !.pc = "decided", !.c = c, !.taken = Taken(s.db, c, s.allownorules), !.shown = IF s.db = None THEN None ELSE Shown(s.db, c)]
Next == Compile \/ Connect

(* The order of tcprules.xml: how near a name is to a client, 0 if it is     *)
(* none of its names.                                                       *)
Nearness(c, k) ==
  CASE c.info # None /\ k = c.info \o <<"@">> \o c.ip -> 1
    [] c.info # None /\ c.host # None /\ k = c.info \o <<"@", "=">> \o c.host -> 2
    [] k = c.ip -> 3
    [] c.host # None /\ k = <<"=">> \o c.host -> 4
    [] k # <<>> /\ Last(k) = "." /\ IsStrictPrefix(k, c.ip) -> 10 + Len(c.ip) - Len(k)
    [] c.host # None /\ Len(k) > 1 /\ k[1] = "=" /\ k[2] = "." /\ IsStrictSuffix(Tail(k), c.host) -> 30 + Len(c.host) - Len(k)
    [] c.host # None /\ k = <<"=">> -> 50
    [] k = <<>> -> 51
    [] OTHER -> 0
(* The names that a line means: its address, or, for a range, the address    *)
(* with any number of the range.                                            *)
Means(a, k) ==
  LET d == Dash(a)
  IN IF d = 0 THEN a = k
     ELSE /\ Len(k) = Len(a) - 2
          /\ \E n \in getnum(<<a[d - 1]>>)..Min({getnum(<<a[d + 1]>>), CAP}) :
               k = SubSeq(a, 1, d - 2) \o <<ToString(n)>> \o SubSeq(a, d + 2, Len(a))

(* A client is dealt with as the first line says that means a name nearest   *)
(* to it, of the last rules that had no error; and tcprulescheck shows what  *)
(* tcpserver does.                                                          *)
Followed ==
  At("decided") /\ s.db # None =>
    LET lines == SelectSeq(s.text, IsRule)
        near(i) == {Nearness(s.c, k) : k \in {k \in {s.c.ip} \cup ToSet(Names(s.c)) : Means(lines[i].addr, k)}} \ {0}
        nearest == UNION {near(i) : i \in DOMAIN lines}
        i == CHOOSE i \in DOMAIN lines : Min(nearest) \in near(i) /\ \A j \in 1..i - 1 : Min(nearest) \notin near(j)
    IN /\ IF nearest = {} THEN ~s.taken.deny /\ s.taken.env = <<>>
          ELSE s.taken.deny = (lines[i].word = "deny") /\ s.taken.env = lines[i].env
       /\ s.shown.deny = s.taken.deny /\ (~s.shown.deny => s.shown.env = s.taken.env)
=============================================================================
