------------------------------ MODULE MCZones -------------------------------
(* Instances for TLC of servers of DNS data and of programs around them.    *)
(* A primary's data: a zone with                                            *)
(* addresses that come, go and depend on the client, wildcards, aliases to  *)
(* data, to a child zone, abroad and to themselves, a delegated child with  *)
(* glue and data below the cut, a second zone within, and a reverse zone.   *)
EXTENDS Integers, Sequences, FiniteSets, TLC

CONSTANTS None, Bogus
VARIABLE s

T == <<"t">>
In(x, d) == <<x>> \o d
IP4(x) == <<"4", x>>
MCAddr4 == {IP4(x) : x \in {"1", "2", "3", "4", "5"}}
MCAddr6 == {<<"6", "1">>}
MCPtrName(ip) == <<ip[2], "in">>

L(c, d, ip, x) == [c |-> c, d |-> d, ip |-> ip, x |-> x, n |-> <<>>, ttl |-> None, ttd |-> None, lo |-> None]
With(l, n) == [l EXCEPT !.n = n]
For(l, lo) == [l EXCEPT !.lo = lo]
At50(l, ttl) == [l EXCEPT !.ttl = ttl, !.ttd = 50]

Apex == <<L(".", T, IP4("1"), <<"a">>), For(L("%", <<"p1">>, None, <<>>), "x"), L("'", T, None, <<>>)>>
Hosts == <<L("=", In("www", T), IP4("2"), <<>>), At50(L("+", In("www", T), IP4("3"), <<>>), 0),
           For(L("+", In("www", T), IP4("4"), <<>>), "x"), At50(L("+", In("new", T), <<"6", "1">>, <<>>), 300)>>
Aliases == <<L("C", <<"*", "t">>, None, In("www", T)), L("C", In("al", T), None, <<"h", "c", "t">>),
             L("C", In("lp", T), None, In("lp", T)), L("C", In("out", T), None, <<"far", "away">>)>>
Child == <<L("&", <<"c", "t">>, IP4("5"), <<"b">>), L("+", <<"h", "c", "t">>, IP4("1"), <<>>)>>
Inner == <<With(L("Z", <<"e", "t">>, None, In("www", T)), <<"1">>), L("&", <<"e", "t">>, None, In("www", T)),
           L("+", <<"*", "w", "e", "t">>, IP4("2"), <<>>)>>
Services == <<With(L("@", T, IP4("2"), <<"m">>), <<"5">>), L("H", T, None, <<>>),
              With(L("S", In("srv", T), <<"6", "1">>, In("www", T)), <<"80", "1", "2">>),
              With(L(":", In("junk", T), None, "SRV"), <<<<"?">>>>)>>
Backward == <<L(".", <<"in">>, None, In("www", T))>>

MCZone == Apex \o Hosts \o Aliases \o Child \o Inner \o Services \o Backward
MCEdits == {MCZone \o <<L("+", In("www", T), Bogus, <<>>)>>,
            Apex \o Hosts \o <<L("-", T, None, <<>>)>> \o Aliases,
            Apex \o Hosts \o Child \o <<L("C", In("al", T), None, In("new", T)), L("^", In("al", T), None, T)>>}

Q(name, type, ip, now, max) == [name |-> name, type |-> type, form |-> "query", ip |-> ip, now |-> now, max |-> max]
MCQueries ==
  {Q(n, t, ip, now, 9) : n \in {In("www", T), In("x", T), In("new", T), <<"y", "e", "t">>, <<"y", "w", "e", "t">>},
                         t \in {"A", "AAAA"}, ip \in {<<"p1", "p">>, <<"p2", "p">>, <<>>}, now \in {40, 50, 60}}
  \cup {Q(n, t, <<"p1">>, 40, max) : n \in {T, In("al", T), In("lp", T), In("out", T), <<"h", "c", "t">>, <<"e", "t">>,
                                           <<"c", "t">>, <<"ns", "t">>, In("srv", T), In("junk", T), <<"2", "in">>, <<"9", "in">>,
                                           <<"z", "y", "t">>, <<"away">>},
                             t \in {"A", "NS", "MX", "SOA", "TXT", "SRV", "HTTPS", "PTR", "CNAME", "ANY", "OPT", "AXFR"},
                             max \in {2, 9}}
  \cup {[Q(T, "A", <<>>, 40, 9) EXCEPT !.form = "opcode"]}

Dns == INSTANCE Tinydns WITH Addr4 <- MCAddr4, Addr6 <- MCAddr6, PtrName <- MCPtrName, Zones <- {MCZone},
         Edits <- MCEdits, Queries <- MCQueries, MAXLOOP <- 3, MAXADDR <- 2

PrimaryZone(serial, more) ==
  <<With(L(".", T, IP4("1"), <<"a">>), <<serial>>), For(L("%", <<"p1">>, None, <<>>), "x"),
    For(With(L("Z", T, None, <<"z", "">>), <<"7">>), "x"),
    At50(L("+", In("www", T), IP4("3"), <<>>), 0), For(L("+", <<"*", "t">>, IP4("4"), <<>>), "x"), L("C", In("al", T), None, <<"away", "">>),
    With(L("S", In("srv", T), None, In("www", T)), <<"80", "1", "2">>), L("^", In("www", T), None, T),
    With(L("@", T, IP4("2"), <<"m">>), <<"5">>), L("H", T, None, <<>>), L(".", <<"in">>, None, <<"a">>),
    With(L("Z", <<"e", "t">>, None, In("www", T)), <<"1">>)>> \o more
MCStart == PrimaryZone("1", <<>>)
MCChanges == {PrimaryZone("2", <<L("'", T, None, <<>>)>>), PrimaryZone("1", <<L("'", In("www", T), None, <<>>)>>),
              PrimaryZone("0", <<>>), PrimaryZone("3", <<L("&", <<"*", "t">>, None, <<"a">>)>>)}

Axfr == INSTANCE Transfer WITH Addr4 <- MCAddr4, Addr6 <- MCAddr6, PtrName <- MCPtrName, Zone <- T, Start <- MCStart,
          Edits <- MCChanges, Clients <- {<<"p1">>, <<"p2">>}, Times <- {40, 60}, MaxRuns <- 2, MaxPublish <- 2

(* Two programs edit a zone, in which the first of the letters is taken for *)
(* the servers of t and of c.t, and which has a host with an IPv6 address.  *)
MCLines == <<L(".", T, IP4("1"), <<"a">>), [L(".", T, IP4("2"), <<"ns", "x">>) EXCEPT !.ttl = 5], [L("&", <<"c", "t">>, IP4("1"), <<"a">>) EXCEPT !.ttl = 7],
             L("=", <<"h", "t">>, IP4("3"), <<>>), L("=", <<"g", "t">>, <<"6", "1">>, <<>>), L("+", <<"e", "t">>, IP4("4"), <<>>)>>
MCAdditions == [c : {"="}, d : {<<"h", "t">>, <<"e", "t">>, <<"f", "t">>}, ip : {IP4("4"), <<"6", "1">>}]
                 \cup [c : {".", "@"}, d : {T, <<"c", "t">>}, ip : {IP4("5")}] \cup [c : {"+"}, d : {T}, ip : {IP4("3")}]
Editing == INSTANCE Edit WITH Addr4 <- MCAddr4, Addr6 <- MCAddr6, PtrName <- MCPtrName,
             Start <- MCLines, Editors <- {"e1", "e2"}, Additions <- MCAdditions, Letters <- <<"a", "b">>, MaxOutages <- 1

(* Zones a and b, each with a server of its own and one that is lame or     *)
(* known twice; servers say more than they are asked, also of the other.    *)
Rr(name, type, data) == [name |-> name, type |-> type, data |-> data]
Packet(rcode, answer, authority, glue) == [rcode |-> rcode, answer |-> answer, authority |-> authority, glue |-> glue]
NsA == <<"ns", "a">>
NsB == <<"nb", "b">>
WwwA == <<"www", "a">>
WwwB == <<"www", "b">>
LameA == <<"lame", "a">>
ToA == Packet(0, <<>>, <<Rr(<<"a">>, "NS", NsA), Rr(<<"a">>, "NS", LameA)>>, <<Rr(NsA, "A", "A")>>)
ToB == Packet(0, <<>>, <<Rr(<<"b">>, "NS", NsB), Rr(<<"b">>, "NS", <<"localhost">>)>>, <<Rr(NsB, "A", "B")>>)
MCData == {Rr(NsA, "A", "A"), Rr(LameA, "A", "L"), Rr(NsB, "A", "B"), Rr(NsB, "A", "A"), Rr(WwwA, "CNAME", WwwB), Rr(WwwB, "A", "w")}
Of(q) == {r \in MCData : r.name = q.owner /\ r.type \in {q.type, "CNAME"}}
Answered(q, zone, more) ==
  IF Of(q) = {} THEN {Packet(3, <<>>, <<Rr(zone, "SOA", zone)>>, more)}
  ELSE {Packet(0, <<r>>, <<Rr(zone, "NS", NsA)>>, more) : r \in Of(q)}
MCPackets(ip, q) ==
  LET top == q.owner[Len(q.owner)]
  IN CASE ip = "R" -> IF top = "a" THEN {ToA} ELSE IF top = "b" THEN {ToB} ELSE {Packet(3, <<>>, <<Rr(<<>>, "SOA", <<>>)>>, <<>>)}
       [] ip = "A" -> IF top = "a" THEN Answered(q, <<"a">>, <<Rr(NsB, "A", "X")>>) ELSE Answered(q, <<"b">>, <<>>)
       [] ip = "B" -> IF top = "b" THEN Answered(q, <<"b">>, <<Rr(NsA, "A", "X"), Rr(<<"a">>, "NS", NsB)>>) ELSE {ToA}
       [] ip = "L" -> {Packet(0, <<>>, <<Rr(<<>>, "NS", NsB)>>, <<Rr(LameA, "A", "X")>>)}
       [] OTHER -> {}
MCOwn == [n \in {<<"localhost">>} |-> "127"]
Trace == INSTANCE Dnstrace WITH Packets <- MCPackets, Roots <- <<"R", "R">>, Own <- MCOwn, MaxFails <- 2,
           Questions <- {[owner |-> WwwA, type |-> "A"], [owner |-> WwwB, type |-> "CNAME"], [owner |-> <<"x", "c">>, type |-> "A"]}

(* Names with and without dots, in onion and local, special ones and        *)
(* addresses; four states of the files, one with rules that turn a name     *)
(* into an address and another into three parts.                            *)
Each(regular, onion, local) == (0 :> regular) @@ (3 :> onion) @@ (4 :> local)
F(rewrite, nameserver, search, host) == [rewrite |-> rewrite, nameserver |-> nameserver, search |-> search, host |-> host]
MCEnvs == {[ip |-> Each(None, None, None), domains |-> None], [ip |-> Each(<<"p1">>, None, None), domains |-> <<<<"x">>>>]}
MCRules == <<[c |-> "=", match |-> <<"w">>, repl |-> <<"1.1">>], [c |-> "*", match |-> <<".", "x">>, repl |-> <<".", "y">>],
             [c |-> "-", match |-> <<"v">>, repl |-> <<"q", "+", ".", "x", "+">>]>>
MCFiles == {F(None, Each(<<"p1">>, <<"p2">>, <<>>), <<<<"x">>, <<"y">>>>, <<"h">>), F(None, Each(<<>>, <<>>, <<"p3">>), None, <<"y">>),
            F(None, Each(<<"p2">>, <<>>, <<>>), <<<<"y">>, <<"x">>>>, <<>>), F(MCRules, Each(<<"p1">>, <<>>, <<>>), None, <<>>)}
MCArgs == {<<<<"w">>, <<"w">>>>, <<<<"w", ".", "x">>, <<"v", ".">>>>, <<<<"1.1">>, <<"2.2">>>>, <<<<"ipv4only", ".", "arpa">>>>, <<<<"o", ".", "onion">>, <<"w", ".", "invalid">>>>,
           <<<<"l", ".", "local">>, <<"localhost">>>>, <<<<"u", "v">>, <<"v">>>>}
MCHas(server, name, type) ==
  CASE server = "p1" /\ name = <<"w", ".", "x">> /\ type = "A" -> {"wx"}
    [] server = "p1" /\ name = <<"w", ".", "y">> -> {type}
    [] server = "p2" /\ name = <<"w", ".", "y">> /\ type = "AAAA" -> {"wy"}
    [] name = <<"v">> -> {"v"}
    [] OTHER -> {}
Client == INSTANCE Stub WITH Envs <- MCEnvs, Files <- MCFiles, Args <- MCArgs, Literal <- {<<"1.1">>, <<"2.2">>}, Data <- MCHas,
            LIFETIME <- 0, USES <- 3, MaxTime <- 2, MaxEdits <- 1

Init == Dns!Init \/ Axfr!Init \/ Editing!Init \/ Trace!Init \/ Client!Init
Next == Dns!Next \/ Axfr!Next \/ Editing!Next \/ Trace!Next \/ Client!Next

(* Each answer is that of the reference definition on one version of the  *)
(* data.                                                                   *)
Answers == s.prog = "tinydns" => Dns!Answers
(* What a transfer leaves in the file is one version of the zone, but for  *)
(* the places of the numbers of SRV records.                               *)
Transferred == s.prog = "transfer" => Axfr!Transferred
=============================================================================
