------------------------------ MODULE Dnstrace -------------------------------
(***************************************************************************)
(* dnstrace(1), source/dnstrace.c: asks every server that may be asked in   *)
(* the course of a look-up.  It keeps three tables, of queries, of the      *)
(* servers of zones and of the addresses of servers, and a list of what is  *)
(* to be asked, to which the join of the three is added as they grow.       *)
(*                                                                         *)
(* Names are sequences of labels; a packet has an rcode and its sections,   *)
(* sequences of records [name, type, data].                                 *)
(***************************************************************************)
EXTENDS Integers, Sequences, SequencesExt, FiniteSets

CONSTANTS
  Questions,                \* sets of [owner, type], of which one is traced
  Roots,                    \* addresses of root servers, as given
  Packets(_, _),            \* what the server at an address says to a question
  Own,                      \* names that are, or stand for, an address
  MaxFails, None
VARIABLE s

At(pc) == s.prog = "dnstrace" /\ s.pc = pc
Within(name, zone) == IsSuffix(zone, name)
Query(owner, type) == [owner |-> owner, type |-> type]

-----------------------------------------------------------------------------
(* What the tables ask for: each query, of all servers of the zones above.  *)
Joined(ns, query, address) ==
  FlattenSeq([i \in DOMAIN ns |-> FlattenSeq([j \in DOMAIN query |-> FlattenSeq([k \in DOMAIN address |->
    IF Within(query[j].owner, ns[i].owner) /\ ns[i].ns = address[k].owner
    THEN <<[owner |-> query[j].owner, type |-> query[j].type, control |-> ns[i].owner, ip |-> address[k].ip]>> ELSE <<>>])])])

(* The roots are not asked about the artificial host "." that serves them.  *)
qt_add(qt, x) == IF x.owner = <<>> \/ Contains(qt, x) THEN qt ELSE Append(qt, x)
Asking(t, ns, query, address) == [t EXCEPT !.qt = FoldLeft(qt_add, @, Joined(ns, query, address))]

query_add(t, x) ==
  IF Contains(t.query, x) THEN t ELSE Asking([t EXCEPT !.query = Append(@, x)], t.ns, <<x>>, t.address)
(* Mutant: the queries that are known are not put to the new servers.       *)
ns_add_Later(t, x) ==
  IF Contains(t.ns, x) THEN t ELSE [query_add(t, Query(x.ns, "A")) EXCEPT !.ns = Append(@, x)]
ns_add(t, x) ==
  IF Contains(t.ns, x) THEN t
  ELSE LET u == [query_add(t, Query(x.ns, "A")) EXCEPT !.ns = Append(@, x)] IN Asking(u, <<x>>, u.query, u.address)
address_add(t, x) ==
  IF Contains(t.address, x) THEN t ELSE Asking([t EXCEPT !.address = Append(@, x)], t.ns, t.query, <<x>>)

-----------------------------------------------------------------------------
(* parsepacket(): p answers q.                                              *)
OfQuestion(p, q) == SelectSeq(p.answer, LAMBDA r : r.name = q.owner)
OfType(rs, type) == SelectSeq(rs, LAMBDA r : r.type = type)
flagout(p, q) == OfType(OfQuestion(p, q), q.type) # <<>>
Cnames(p, q) == IF q.type = "CNAME" THEN <<>> ELSE OfType(OfQuestion(p, q), "CNAME")
Referral(p) == OfType(p.authority, "NS")

(* A server that refers to its own zone, or out of it, is not believed.     *)
Lame(p, q) ==
  /\ Cnames(p, q) = <<>> /\ p.rcode = 0 /\ ~flagout(p, q) /\ OfType(p.authority, "SOA") = <<>> /\ Referral(p) # <<>>
  /\ LET referral == Last(Referral(p)).name IN referral = q.control \/ ~Within(referral, q.control)

Learn(t, p, control) ==
  LET add(u, r) == IF ~Within(r.name, control) THEN u
                   ELSE IF r.type = "NS" THEN ns_add(u, [owner |-> r.name, ns |-> r.data])
                   ELSE IF r.type = "A" THEN address_add(u, [owner |-> r.name, ip |-> r.data]) ELSE u
  IN FoldLeft(add, t, p.answer \o p.authority \o p.glue)

parsepacket(t, p, q) ==
  IF Lame(p, q) THEN t
  ELSE LET u == Learn(t, p, q.control)
       IN IF Cnames(p, q) = <<>> THEN u ELSE query_add(u, Query(Last(Cnames(p, q)).data, q.type))

-----------------------------------------------------------------------------
Init ==
  \E q \in Questions :
    LET none == [prog |-> "dnstrace", pc |-> "ask", query |-> <<>>, ns |-> <<>>, address |-> <<>>, qt |-> <<>>, i |-> 1,
                 asked |-> q, got |-> <<>>, fails |-> 0]
        rooted == ns_add(query_add(none, q), [owner |-> <<>>, ns |-> <<>>])
    IN s = FoldLeft(LAMBDA t, ip : address_add(t, [owner |-> <<>>, ip |-> ip]), rooted, Roots)

(* A name that is an address is known to have it.                           *)
AddOwn(t, name) == IF name \in DOMAIN Own THEN address_add(t, [owner |-> name, ip |-> Own[name]]) ELSE t
Asked(t, q) == AddOwn([t EXCEPT !.i = @ + 1], q.owner)

Resolve ==
  /\ At("ask") /\ s.i <= Len(s.qt)
  /\ LET q == s.qt[s.i]
     IN \/ \E p \in Packets(q.ip, Query(q.owner, q.type)) : s' = Asked([parsepacket(s, p, q) EXCEPT !.got = Append(@, p)], q)
        \/ s.fails < MaxFails /\ s' = Asked([s EXCEPT !.got = Append(@, None), !.fails = @ + 1], q)
Finish == At("ask") /\ s.i > Len(s.qt) /\ s' = [s EXCEPT !.pc = "done"]

Next == Resolve \/ Finish

(* All paths are followed, and each only once: at any time, what was asked   *)
(* or is to be asked is each query to each known address of each server of  *)
(* a zone above its name, whichever was learned first.  Servers and         *)
(* addresses are learned of those only whose zone the name is in, and that  *)
(* are not lame; and an alias is looked up like the name that has it.       *)
Traced ==
  s.prog = "dnstrace" =>
    LET said(k) == ToSet(s.got[k].answer \o s.got[k].authority \o s.got[k].glue)
        heard == {k \in DOMAIN s.got : s.got[k] # None /\ ~Lame(s.got[k], s.qt[k])}
        learned(r) == \E k \in heard : r \in said(k) /\ Within(r.name, s.qt[k].control)
    IN /\ ToSet(s.qt) = {x \in [owner : {q.owner : q \in ToSet(s.query)} \ {<<>>}, type : {q.type : q \in ToSet(s.query)},
                                control : {n.owner : n \in ToSet(s.ns)}, ip : {a.ip : a \in ToSet(s.address)}] :
                           /\ Query(x.owner, x.type) \in ToSet(s.query) /\ Within(x.owner, x.control)
                           /\ \E n \in ToSet(s.ns) : n.owner = x.control /\ [owner |-> n.ns, ip |-> x.ip] \in ToSet(s.address)}
       /\ IsInjective(s.qt) /\ s.asked \in ToSet(s.query)
       /\ \A n \in ToSet(s.ns) : n = [owner |-> <<>>, ns |-> <<>>] \/ learned([name |-> n.owner, type |-> "NS", data |-> n.ns])
       /\ \A a \in ToSet(s.address) : \/ a.owner = <<>> /\ Contains(Roots, a.ip)
                                      \/ a.owner \in DOMAIN Own /\ Own[a.owner] = a.ip
                                      \/ learned([name |-> a.owner, type |-> "A", data |-> a.ip])
       /\ \A k \in heard : \A c \in ToSet(Cnames(s.got[k], s.qt[k])) : Contains(s.query, Query(c.data, s.qt[k].type))
       /\ Len(s.got) = s.i - 1 /\ (s.pc = "done" => Len(s.got) = Len(s.qt))
=============================================================================
