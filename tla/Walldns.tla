------------------------------ MODULE Walldns -------------------------------
(***************************************************************************)
(* walldns(1), source/walldns.c: answers that are made of the name asked    *)
(* for.  A client looks an address up and the name that it gets back, a     *)
(* "double reverse lookup".                                                 *)
(*                                                                         *)
(* Names are sequences of labels, IPv4 addresses of octets and IPv6         *)
(* addresses of bytes, pairs of hexadecimal digits.                         *)
(***************************************************************************)
EXTENDS Sequences, SequencesExt, FiniteSetsExt

CONSTANTS
  Octets,                   \* labels that are numbers up to 255
  Digits,                   \* labels that are hexadecimal digits
  IP6_SANS_SCOPE_LEN,       \* bytes of an IPv6 address (16)
  IP6_SCOPE_ID_LEN,         \* bytes that follow it (4)
  Names,                    \* names asked for that are no addresses
  Types,
  None

VARIABLE s

inaddrarpa == <<"in-addr", "arpa">>
ip6arpa == <<"ip6", "arpa">>
localhost == <<"localhost">>
ipv4onlyarpa == <<"ipv4only", "arpa">>
servicearpa == <<"service", "arpa">>

Within(q, d) == IsSuffix(d, q)

(* The n labels before a suffix, all of a kind; else <<>>.                  *)
Before(q, base, kind, n) ==
  IF Within(q, base) /\ Len(q) = Len(base) + n /\ \A i \in 1..n : q[i] \in kind THEN SubSeq(q, 1, n) ELSE <<>>

dd4(q, base) == Before(q, base, Octets, 4)
(* The bytes in the order in which the name has them, low digit first.      *)
dd6(q, base) ==
  LET d == Before(q, base, Digits, 2 * IP6_SANS_SCOPE_LEN)
  IN [j \in 1..Len(d) \div 2 |-> <<d[2 * j], d[2 * j - 1]>>]

(* The answer: records, the name of a placeholder SOA record, a code.       *)
Answer(an) == [an |-> an, soa |-> None, rcode |-> 0]
Nothing(apex) == [an |-> <<>>, soa |-> apex, rcode |-> 0]
NoDomain(apex) == [an |-> <<>>, soa |-> apex, rcode |-> 3]
Told(apex) == [an |-> <<[type |-> "HINFO", val |-> None]>>, soa |-> apex, rcode |-> 0]
RR(type, val) == <<[type |-> type, val |-> val]>>

Forward(q, qtype) == IF qtype = "A" THEN Answer(RR("A", dd4(q, <<>>))) ELSE Nothing(<<>>)

dns_name4_ldomain(ip) == Reverse(ip) \o localhost

(* The name of an address in in-addr.arpa: ip is backwards.                 *)
Pointer4(q, ip) ==
  IF ip = <<"1", "0", "0", "127">> THEN localhost
  ELSE IF ip[4] = "127" THEN dns_name4_ldomain(Reverse(ip))
  ELSE IF ip[4] = "192" /\ ip[3] = "0" /\ ip[2] = "0" /\ ip[1] \in {"170", "171"} THEN ipv4onlyarpa
  ELSE q
(* Mutant: the address is not put the right way round.                      *)
Backward4_Plain(q, qtype) ==
  LET ip == dd4(q, inaddrarpa)
  IN CASE qtype = "PTR" -> Answer(RR("PTR", Pointer4(q, ip)))
       [] qtype = "A" -> Answer(RR("A", ip))
       [] OTHER -> Nothing(inaddrarpa)
Backward4(q, qtype) ==
  LET ip == dd4(q, inaddrarpa)
  IN CASE qtype = "PTR" -> Answer(RR("PTR", Pointer4(q, ip)))
       [] qtype = "A" -> Answer(RR("A", Reverse(ip)))
       [] OTHER -> Nothing(inaddrarpa)

(* The bytes are put the right way round with those after them, which       *)
(* nothing has set.                                                         *)
Backward6(q, qtype, unset) ==
  LET ip == dd6(q, ip6arpa)
      one == [i \in 1..IP6_SANS_SCOPE_LEN |-> IF i = 1 THEN <<"0", "1">> ELSE <<"0", "0">>]
  IN CASE qtype = "PTR" -> Answer(RR("PTR", IF ip = one THEN localhost ELSE q))
       [] qtype = "AAAA" -> Answer(RR("AAAA", SubSeq(Reverse(ip \o unset), 1, IP6_SANS_SCOPE_LEN)))
       [] OTHER -> Nothing(ip6arpa)

Local(qtype) ==
  CASE qtype = "A" -> Answer(RR("A", <<"127", "0", "0", "1">>))
    [] qtype = "AAAA" ->
         Answer(RR("AAAA", [i \in 1..IP6_SANS_SCOPE_LEN |-> IF i = IP6_SANS_SCOPE_LEN THEN <<"0", "1">> ELSE <<"0", "0">>]))
    [] OTHER -> Nothing(localhost)
Ipv4Only(qtype) ==
  IF qtype = "A" THEN Answer(RR("A", <<"192", "0", "0", "170">>) \o RR("A", <<"192", "0", "0", "171">>))
  ELSE Nothing(ipv4onlyarpa)

Unanswered == {<<"home", "arpa">>, <<"example">>, <<"example", "org">>, <<"example", "net">>, <<"example", "com">>}
Nonexistent == {<<"test">>, <<"invalid">>, <<"alt">>, <<"onion">>, <<"local">>, ipv4onlyarpa, <<"resolver", "arpa">>,
                <<"6tisch", "arpa">>, <<"eap-noob", "arpa">>}

(* ANY and OPT are told of in the place of data.                            *)
Or(qtype, apex, answer) == IF qtype \in {"ANY", "OPT"} THEN Told(apex) ELSE answer

(* respond(): None is no reply.                                             *)
respond(q, qtype, unset) ==
  CASE dd4(q, <<>>) # <<>> -> Or(qtype, <<>>, Forward(q, qtype))
    [] Within(q, inaddrarpa) ->
         IF dd4(q, inaddrarpa) = <<>> THEN NoDomain(inaddrarpa) ELSE Or(qtype, inaddrarpa, Backward4(q, qtype))
    [] Within(q, ip6arpa) ->
         IF dd6(q, ip6arpa) = <<>> THEN NoDomain(ip6arpa) ELSE Or(qtype, ip6arpa, Backward6(q, qtype, unset))
    [] Within(q, localhost) -> Or(qtype, localhost, Local(qtype))
    [] q = ipv4onlyarpa -> Or(qtype, ipv4onlyarpa, Ipv4Only(qtype))
    [] \E d \in Unanswered : Within(q, d) -> None
    [] \E d \in Nonexistent : Within(q, d) -> NoDomain(q)
    [] Within(q, servicearpa) ->
         IF q \notin {servicearpa, <<"default">> \o servicearpa} THEN NoDomain(servicearpa)
         ELSE Or(qtype, servicearpa, Nothing(servicearpa))
    [] OTHER -> None

-----------------------------------------------------------------------------
At(pc) == s.prog = "walldns" /\ s.pc = pc

Init == s = [prog |-> "walldns", pc |-> "start", q |-> <<>>, type |-> None, ip |-> <<>>, r |-> None, back |-> None]

IP4s == [1..4 -> Octets]
IP6s == [1..IP6_SANS_SCOPE_LEN -> Digits \X Digits]
Name4(ip) == Reverse(ip) \o inaddrarpa
Name6(ip) == FlattenSeq([i \in 1..IP6_SANS_SCOPE_LEN |-> LET b == Reverse(ip)[i] IN <<b[2], b[1]>>]) \o ip6arpa
Unset == [1..IP6_SCOPE_ID_LEN -> Digits \X Digits]

(* A client asks for the name of an address, or for anything.               *)
Ask ==
  /\ At("start")
  /\ \/ \E ip \in IP4s, t \in Types : s' = [s EXCEPT !.pc = "asked", !.ip = ip, !.q = Name4(ip), !.type = t]
     \/ \E ip \in IP6s, t \in Types : s' = [s EXCEPT !.pc = "asked", !.ip = ip, !.q = Name6(ip), !.type = t]
     \/ \E q \in Names \cup IP4s, t \in Types : s' = [s EXCEPT !.pc = "asked", !.q = q, !.type = t]
Reply ==
  /\ At("asked")
  /\ \E unset \in Unset : s' = [s EXCEPT !.pc = "answered", !.r = respond(s.q, s.type, unset)]
(* The client asks for the addresses of the name that it got.               *)
Double ==
  /\ At("answered") /\ s.type = "PTR" /\ s.r # None /\ s.r.an # <<>>
  /\ \E unset \in Unset, t \in {"A", "AAAA"} :
       s' = [s EXCEPT !.pc = "back", !.type = t, !.back = respond(s.r.an[1].val, t, unset)]
Next == Ask \/ Reply \/ Double

(* An IPv4 address that is not local maps to a name that maps back to it,   *)
(* and to nothing else but the addresses of the same well-known name; no    *)
(* address of one kind leads to one of the other, localhost excepted;       *)
(* there is an SOA record exactly where there is no data.                   *)
Wall ==
  /\ At("back") /\ s.ip \in IP4s /\ s.ip[1] # "127" =>
       IF s.type = "A" THEN \E i \in DOMAIN s.back.an : s.back.an[i].val = s.ip ELSE s.back.an = <<>>
  /\ At("back") /\ s.ip \in IP6s /\ s.type = "A" => s.back.an = <<>> \/ s.r.an[1].val = localhost
  /\ At("answered") /\ s.r # None =>
       /\ \A i \in DOMAIN s.r.an : s.r.an[i].type \in {s.type, "HINFO"}
       /\ s.r.soa = None <=> \E i \in DOMAIN s.r.an : s.r.an[i].type = s.type
       /\ s.r.rcode = 3 => s.r.an = <<>>

(* What walldns.xml says: addresses map to names that map back to those     *)
(* same addresses.                                                          *)
MapsBack ==
  At("back") /\ s.type = (IF s.ip \in IP4s THEN "A" ELSE "AAAA") =>
    \E i \in DOMAIN s.back.an : s.back.an[i].val = s.ip
=============================================================================
