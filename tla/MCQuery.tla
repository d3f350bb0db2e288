------------------------------ MODULE MCQuery -------------------------------
(* The root delegates a, b, c, d and e.  The servers: R for the root, A for  *)
(* a, B for b, which tells lies about a; L is named as a server of b too but *)
(* knows nothing of it.  c and d are each served by a name in the other; e   *)
(* by an alias.  F is the file servers/loc.a; P and Q are two proxies.       *)
EXTENDS Query

MCNames == {".", "a", "b", "c", "d", "e", "ns.a", "nb.a", "www.a", "no.a", "l1.a", "l2.a", "loc.a", "al.b",
            "ns.c", "ns.d", "x.c", "al.a", "x.e", "lame.a", "localhost"}

MCParent(n) == CASE n \in {"a", "b", "c", "d", "e", ".", "localhost"} -> "."
                 [] n \in {"ns.a", "nb.a", "www.a", "no.a", "l1.a", "l2.a", "loc.a", "al.a", "lame.a"} -> "a"
                 [] n = "al.b" -> "b" [] n \in {"ns.c", "x.c"} -> "c" [] n = "ns.d" -> "d" [] OTHER -> "e"

MCSpecial(n) == IF n = "localhost" THEN "localhost" ELSE "no"
MCAddrs == {"R", "A", "B", "F", "L", "P", "Q", "w", "w6", "e", "local", "evil", "old", "ip4", "localhost"}
MCServers(n) == CASE n = "." -> {"R"} [] n = "loc.a" -> {"F"} [] OTHER -> {}
FwdServers(n) == IF n = "." THEN {"P", "Q"} ELSE {}

rr(n, type, data) == [name |-> n, type |-> type, data |-> data]

Zone == {rr("ns.a", "A", "A"), rr("nb.a", "A", "B"), rr("lame.a", "A", "L"), rr("www.a", "A", "w"),
         rr("www.a", "AAAA", "w6"), rr("loc.a", "A", "local"),
         rr("l1.a", "CNAME", "l2.a"), rr("l2.a", "CNAME", "l1.a"), rr("al.a", "CNAME", "nb.a"),
         rr("al.b", "CNAME", "www.a"), rr("x.e", "A", "e")}

Cuts == [a |-> <<"ns.a">>, b |-> <<"nb.a", "lame.a">>, c |-> <<"ns.d">>, d |-> <<"ns.c">>,
         e |-> <<"al.a">>]
MCExist == {".", "a", "b", "c", "d", "e", "localhost"} \cup {r.name : r \in Zone}
MCData(n, type) ==
  CASE n = "localhost" -> IF type \in {"A", "AAAA"} THEN {n} ELSE {}
    [] type = "NS"     -> IF n \in DOMAIN Cuts THEN Range(Cuts[n]) ELSE {}
    [] OTHER           -> {r.data : r \in {r \in Zone : r.name = n /\ r.type = type}}

(* nb.a is what the name of the server of e is an alias of.                  *)
MCHosts(n) == (IF n \in DOMAIN Cuts THEN Range(Cuts[n]) ELSE {}) \cup (IF n = "e" THEN {"nb.a"} ELSE {})
MCLoops == {"l1.a", "l2.a"}

(* Along the aliases, as far as a zone goes or until they repeat.            *)
MCChain(n, type, InZone(_)) ==
  LET step(c) == LET e == c[Len(c)]
                 IN IF type = "CNAME" \/ MCData(e, "CNAME") = {} \/ ~InZone(e) \/ \E i \in 1 .. Len(c) - 1 : c[i] = e
                    THEN c ELSE Append(c, CHOOSE t \in MCData(e, "CNAME") : TRUE)
  IN step(step(step(<<n>>)))

packet(rcode, answer, authority, glue) ==
  [rcode |-> rcode, answer |-> answer, authority |-> authority, glue |-> glue]
Records(n, type) == LET ds == SetToSeq(MCData(n, type)) IN [i \in DOMAIN ds |-> rr(n, type, ds[i])]

(* What an honest server of the zone apex says.                              *)
Honest(apex, n, type) ==
  LET inZone(m) == m = apex \/ (apex # "." /\ MCParent(m) = apex)
      c == MCChain(n, type, inZone)
      e == c[Len(c)]
      links == [i \in 1 .. Len(c) - 1 |-> rr(c[i], "CNAME", c[i + 1])]
      cut == IF n = "." THEN "." ELSE IF MCParent(n) = "." THEN n ELSE MCParent(n)
      soa == <<rr(apex, "SOA", apex)>>
      ns  == Cuts[cut]
  IN IF apex = "." /\ cut \in DOMAIN Cuts
     THEN packet(0, <<>>, [i \in DOMAIN ns |-> rr(cut, "NS", ns[i])],
                 IF cut = "a" THEN Records("ns.a", "A") ELSE <<>>)
     ELSE IF ~inZone(e) THEN packet(0, links, <<>>, <<>>)
     ELSE IF e \notin MCExist THEN packet(3, links, soa, <<>>)
     ELSE IF MCData(e, type) = {}
     THEN packet(0, links, IF Len(c) = 1 THEN soa ELSE <<>>, <<>>)
     ELSE packet(0, links \o Records(e, type), <<rr(apex, "NS", "ns.a")>>, <<>>)

evil == rr("www.a", "A", "evil")

Sent(a, n, type) ==
  CASE a = "R" -> {Honest(".", n, type)}
    [] a = "A" -> LET p == Honest("a", n, type)
                  IN {IF n = "www.a" THEN [p EXCEPT !.glue = <<rr("loc.a", "A", "old")>>] ELSE p}
    [] a = "F" -> {Honest("a", n, type)}
    [] a = "B" /\ n \in {"e", "x.e"} -> {Honest("e", n, type)}
    [] a = "B" -> LET p == Honest("b", n, type)
                  IN {[p EXCEPT !.answer = Append(@, evil)], [p EXCEPT !.glue = <<evil, rr("ns.d", "A", "L")>>]}
    [] a = "L" -> {packet(0, <<>>, <<rr(".", "NS", "ns.a")>>, <<>>)}
    [] a = "P" -> {packet(0, <<>>, <<rr("a", "NS", "ns.a")>>, <<>>)}
    [] OTHER   -> {Honest(MCParent(n), n, type)}

(* Tables, which TLC computes once.                                          *)
Types == {"A", "AAAA", "CNAME", "MX", "NS"}
Machines == {"R", "A", "B", "F", "L", "P", "Q"}
PacketTable == [a \in Machines, n \in MCNames \ {"localhost"}, type \in Types |->
                  IF a \in {"F", "Q"} /\ n \notin {"loc.a", "www.a"} THEN {} ELSE Sent(a, n, type)]
MCPackets(a, n, type) ==
  IF a \in Machines /\ n # "localhost" /\ type \in Types THEN PacketTable[a, n, type] ELSE {}

MCAsked == {<<"www.a", "A">>, <<"al.b", "A">>, <<"no.a", "A">>, <<"l1.a", "A">>, <<"x.c", "A">>,
            <<"x.e", "A">>, <<"loc.a", "A">>, <<"localhost", "A">>, <<"al.b", "CNAME">>, <<"www.a", "MX">>,
            <<"www.a", "ANY">>, <<"www.a", "NS">>}
MCSolid == {"www.a", "no.a", "loc.a", "localhost", "x.e"}
FwdAsked == {<<"www.a", "A">>}
FwdPackets(a, n, type) == IF a \in {"P", "Q"} THEN MCPackets(a, n, type) ELSE {}
=============================================================================
