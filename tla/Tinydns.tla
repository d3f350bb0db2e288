------------------------------ MODULE Tinydns -------------------------------
(***************************************************************************)
(* tinydns(8): source/tdlookup.c answers a query from data.cdb;             *)
(* source/server.c reads the query and sends the answer.  The administrator *)
(* edits data and runs tinydns-data(1) meanwhile (ZoneData).                *)
(*                                                                         *)
(* A response is its sections, sequences of resource records of size 1.     *)
(* The state is the record s.                                               *)
(***************************************************************************)
EXTENDS ZoneData, FiniteSets, FiniteSetsExt

CONSTANTS
  Zones, Edits,             \* contents of data: at the start, and later
  Queries,                  \* packets: name, type, form, and the client's ip, now and max
  MAXLOOP,                  \* the bound on loop (100)
  MAXADDR                   \* the bound on addresses of an answer (8)

VARIABLE s

At(pc) == s.prog = "tinydns" /\ s.pc = pc

Empty == [an |-> <<>>, au |-> <<>>, ar |-> <<>>, aa |-> TRUE, rcode |-> 0, tc |-> FALSE]
InitWith(zones) ==
  \E z \in zones :
    s = [prog |-> "tinydns", pc |-> "idle", data |-> z, cdb |-> tinydns_data(z, <<>>),
         old |-> {}, q |-> None, qname |-> <<>>, loop |-> 0, from |-> 0, db |-> <<>>, r |-> Empty]
Init == InitWith(Zones)

(* The administrator edits data, once, and runs tinydns-data; what was in   *)
(* data.cdb before is remembered.                                           *)
tinydns_data_main ==
  /\ s.prog = "tinydns" /\ s.old = {}
  /\ \E z \in Edits : s' = [s EXCEPT !.data = z, !.cdb = tinydns_data(z, s.cdb), !.old = {s.cdb}]

-----------------------------------------------------------------------------
(* One packet                                                               *)

(* Forms of packets that are read to the end but get no answer, and those   *)
(* that end sooner.                                                         *)
Dropped(q) == q.form \in {"response", "questions", "answers", "cut", "class", "opcode", "glue"}
NotImplemented(q) == q.type \in {"AXFR", "IXFR"}

(* doit() of server.c, up to the call of respond(), which opens data.cdb    *)
(* and reads the client's location.                                         *)
Receive ==
  /\ At("idle")
  /\ \E q \in Queries :
       /\ ~Dropped(q)
       /\ s' = IF NotImplemented(q)
               THEN [s EXCEPT !.pc = "reply", !.q = q, !.r = [Empty EXCEPT !.rcode = 4]]
               ELSE [s EXCEPT !.pc = "turn", !.q = q, !.qname = q.name, !.db = s.cdb, !.r = Empty]

Loc == ClientLoc(s.db, s.q.ip)
Finds(name, flagwild) == find(s.db, name, flagwild, Loc, s.q.now)
OfType(rs, types) == SelectSeq(rs, LAMBDA r : r.type \in types)
Has(name, type) == OfType(Finds(name, FALSE), {type}) # <<>>

(* The records rs as they are added to a section for a name.                *)
RRs(owner, rs) ==
  [i \in DOMAIN rs |-> [owner |-> owner, type |-> rs[i].type, ttl |-> rs[i].ttl, val |-> rs[i].val]]

Longest(names) == CHOOSE n \in names : \A m \in names : Len(m) <= Len(n)

(* The nearest name at or above n that has name servers: the empty set when *)
(* there is none.                                                           *)
Control(n) == LET cuts == {m \in Ancestors(n) : Has(m, "NS")} IN IF cuts = {} THEN {} ELSE {Longest(cuts)}

(* Mutant: the search for wildcards goes on above the zone.                 *)
Wild_Above(n, control) ==
  LET of(m) == Finds(m, m # n)
      ms == {m \in Ancestors(n) : of(m) # <<>>}
  IN IF ms = {} THEN <<>> ELSE of(Longest(ms))

(* The records of the name, else of the nearest wildcard up to control.     *)
Wild(n, control) ==
  LET of(m) == Finds(m, m # n)
      ms == {m \in Ancestors(n) : Len(m) >= Len(control) /\ of(m) # <<>>}
  IN IF ms = {} THEN <<>> ELSE of(Longest(ms))

(* At most MAXADDR of the addresses, chosen at random, with the time to     *)
(* live of the last.                                                        *)
SomeAddresses(n, rs) ==
  LET k == IF Len(rs) < MAXADDR THEN Len(rs) ELSE MAXADDR
  IN {[i \in 1..k |-> [owner |-> n, type |-> rs[1].type, ttl |-> Last(rs).ttl, val |-> rs[f[i]].val]]
        : f \in {g \in [1..k -> DOMAIN rs] : \A i \in 1..k - 1 : g[i] < g[i + 1]}}

(* Records that are added as they are found: the first SOA record, and none *)
(* for ANY.                                                                 *)
Plain(rs, qtype) ==
  LET some == IF qtype \in {"A", "AAAA", "ANY"} THEN <<>> ELSE OfType(rs, {qtype})
  IN IF qtype = "SOA" /\ some # <<>> THEN <<Head(some)>> ELSE some

NoLoop == s.loop + 1 > MAXLOOP
Silent == [s EXCEPT !.pc = "idle", !.q = None, !.qname = <<>>, !.loop = 0, !.from = 0, !.db = <<>>, !.r = Empty]

(* doit1() from RESTART, when the name is not within any zone: the first    *)
(* time no answer, else one without authority.                              *)
Outside ==
  /\ At("turn") /\ ~NoLoop /\ Control(s.qname) = {}
  /\ s' = IF s.loop = 0 THEN Silent ELSE [s EXCEPT !.pc = "reply", !.r.aa = FALSE]
TooLong == At("turn") /\ NoLoop /\ s' = Silent

(* The name is in a child zone.                                             *)
Delegated ==
  /\ At("turn") /\ ~NoLoop
  /\ \E c \in Control(s.qname) : ~Has(c, "SOA")
  /\ s' = [s EXCEPT !.pc = "authority", !.loop = @ + 1, !.from = Len(s.r.an), !.r.aa = FALSE]

(* The first alias is followed at once, unless it was asked for: addresses  *)
(* found before it are forgotten.                                           *)
Follow ==
  /\ At("turn") /\ ~NoLoop
  /\ \E c \in Control(s.qname), rs \in {Wild(s.qname, k) : k \in Control(s.qname)} :
       /\ Has(c, "SOA")
       /\ OfType(rs, {"CNAME"}) # <<>> /\ s.q.type # "CNAME"
       /\ LET alias == SelectInSeq(rs, LAMBDA r : r.type = "CNAME")
              found == Plain(SubSeq(rs, 1, alias - 1), s.q.type) \o <<rs[alias]>>
          IN s' = [s EXCEPT !.loop = @ + 1, !.qname = rs[alias].val[1], !.r.an = @ \o RRs(s.qname, found)]

HINFO(n, qtype) == [owner |-> n, type |-> "HINFO", ttl |-> TTL_POSITIVE, val |-> <<<<qtype>>>>]

(* The records of the type asked for.                                       *)
Answer ==
  /\ At("turn") /\ ~NoLoop
  /\ \E c \in Control(s.qname), rs \in {Wild(s.qname, k) : k \in Control(s.qname)} :
       /\ Has(c, "SOA")
       /\ OfType(rs, {"CNAME"}) = <<>> \/ s.q.type = "CNAME"
       /\ \E as \in IF s.q.type \in {"A", "AAAA"} /\ OfType(rs, {s.q.type}) # <<>>
                    THEN SomeAddresses(s.qname, OfType(rs, {s.q.type})) ELSE {<<>>} :
            LET hinfo == IF rs # <<>> /\ s.q.type \in {"ANY", "OPT"} THEN <<HINFO(s.qname, s.q.type)>> ELSE <<>>
            IN s' = [s EXCEPT !.pc = "authority", !.loop = @ + 1, !.from = Len(s.r.an),
                              !.r.rcode = IF rs = <<>> THEN 3 ELSE 0,
                              !.r.an = @ \o RRs(s.qname, Plain(rs, s.q.type)) \o as \o hinfo]

(* want(): whether the response has no such record yet.                     *)
want(rrs, owner, type) == \A i \in DOMAIN rrs : ~(rrs[i].owner = owner /\ rrs[i].type = type)

(* The authority section: the SOA record when nothing was answered, else    *)
(* the name servers.                                                        *)
Authority(c) ==
  IF Has(c, "SOA") /\ Len(s.r.an) = s.from THEN RRs(c, <<OfType(Finds(c, FALSE), {"SOA"})[1]>>)
  ELSE IF want(s.r.an, c, "NS") THEN RRs(c, OfType(Finds(c, FALSE), {"NS"})) ELSE <<>>

Targeting == {"NS", "MX", "HTTPS", "SVCB", "SRV"}
Target(rr) == Last(rr.val)

(* The addresses of the names in the last answers and the authority.        *)
Additional(rrs) ==
  LET names == [i \in 1..Len(rrs) - s.from |-> rrs[s.from + i]]
      of(n, type, sofar) == IF want(rrs \o sofar, n, type) THEN RRs(n, OfType(Finds(n, FALSE), {type})) ELSE <<>>
      add(sofar, rr) == IF rr.type \notin Targeting THEN sofar
                        ELSE LET with4 == sofar \o of(Target(rr), "A", sofar)
                             IN with4 \o of(Target(rr), "AAAA", with4)
  IN FoldLeft(add, <<>>, names)

(* Records of a type with a target whose data does not hold one.            *)
Unreadable(rrs) == \E i \in s.from + 1..Len(rrs) : rrs[i].type \in Targeting /\ Len(rrs[i].val) < 2 /\ rrs[i].type # "NS"

Size(r) == Len(r.an) + Len(r.au) + Len(r.ar)

(* From AUTHORITY: an answer of our own sheds sections to fit.              *)
AUTHORITY ==
  /\ At("authority")
  /\ \E c \in Control(s.qname), au \in {Authority(k) : k \in Control(s.qname)} :
       IF Unreadable(s.r.an \o au) THEN s' = Silent
       ELSE \E ar \in {Additional(s.r.an \o au)} :
              LET full == [s.r EXCEPT !.au = au, !.ar = ar]
                  noar == [full EXCEPT !.ar = <<>>]
                  noau == [noar EXCEPT !.au = <<>>]
              IN s' = [s EXCEPT !.pc = "reply",
                                !.r = IF ~Has(c, "SOA") \/ Size(full) <= s.q.max THEN full
                                      ELSE IF Size(noar) <= s.q.max THEN noar ELSE noau]

(* main() of server.c sends the answer, its head alone when it is too long. *)
Send ==
  /\ At("reply") /\ s.q # None
  /\ s' = [s EXCEPT !.pc = "sent",
                    !.r = IF Size(@) > s.q.max THEN [@ EXCEPT !.tc = TRUE, !.an = <<>>, !.au = <<>>, !.ar = <<>>] ELSE @]

Sent == At("sent") /\ s' = Silent

Next == tinydns_data_main \/ Receive \/ Outside \/ TooLong \/ Delegated \/ Follow \/ Answer \/ AUTHORITY \/ Send \/ Sent

Serve == Outside \/ TooLong \/ Delegated \/ Follow \/ Answer \/ AUTHORITY \/ Send
-----------------------------------------------------------------------------
(* What an answer has to be: it is the answer of data as it was at one time *)
(* between the query and the answer.  Aliases lead from the name asked for  *)
(* to the name answered; every record is one that this client sees, of its  *)
(* name or of the nearest wildcard of its zone; the answer has all of them, *)
(* or as many addresses as fit, and says of a name that it does not exist   *)
(* only when there is nothing to see; what lies below a zone cut is never   *)
(* answered as data of ours; sections are left out for size only.           *)
Right(c, q, r) ==
  LET loc == ClientLoc(c, q.ip)
      V == {x \in ToSet(c) : Sees(x, loc, q.now)}
      Zone(n) == {m \in Ancestors(n) : /\ \E x \in V : x.owner = m /\ x.type = "NS" /\ ~x.wild
                                       /\ \A x \in V : x.type = "NS" /\ ~x.wild /\ x.owner \in Ancestors(n)
                                                       => Len(x.owner) <= Len(m)}
      Ours(n) == \E m \in Zone(n) : \E x \in V : x.owner = m /\ x.type = "SOA" /\ ~x.wild
      Own(n) == {x \in V : x.owner = n /\ ~x.wild}
      Stars(n) == {x \in V : /\ x.wild /\ x.owner \in Ancestors(n) \ {n}
                             /\ \A m \in Zone(n) : Len(x.owner) >= Len(m)}
      Data(n) == IF Own(n) # {} THEN Own(n)
                 ELSE {x \in Stars(n) : \A y \in Stars(n) : Len(y.owner) <= Len(x.owner)}
      Is(rr, xs) == \E x \in xs : rr.type = x.type /\ rr.val = x.val
      Timely(rr, xs) == \E x \in xs : rr.type = x.type /\ rr.ttl = Left(x, q.now)
      links == SelectSeq(r.an, LAMBDA rr : rr.type = "CNAME" /\ q.type # "CNAME")
      end == IF links = <<>> THEN q.name ELSE Last(links).val[1]
      final == {r.an[i] : i \in {j \in DOMAIN r.an : r.an[j].owner = end /\ r.an[j].type = q.type}}
      asked == {x \in Data(end) : x.type = q.type}
  IN \/ r.tc /\ r.an = <<>>
     \/ r.rcode = 4 /\ q.type \in {"AXFR", "IXFR"} /\ r.an = <<>>
     \/ /\ \A i \in DOMAIN links :
              links[i].owner = IF i = 1 THEN q.name ELSE links[i - 1].val[1]
        /\ \A i \in DOMAIN r.an :
              LET rr == r.an[i]
              IN /\ Ours(rr.owner)
                 /\ rr.type = "HINFO" \/ (Is(rr, Data(rr.owner)) /\ Timely(rr, Data(rr.owner)))
        /\ Zone(end) = {} => links # <<>> /\ ~r.aa /\ r.au = <<>>
        /\ Zone(end) # {} => r.aa = Ours(end)
        /\ r.rcode = IF Ours(end) /\ Data(end) = {} THEN 3 ELSE 0
        /\ IF ~Ours(end) THEN final = {}
           ELSE IF q.type \in {"A", "AAAA"} THEN Cardinality({rr.val : rr \in final}) = Min({MAXADDR, Cardinality({x.val : x \in asked})})
           ELSE IF q.type = "SOA" THEN (final = {}) = (asked = {})
           ELSE {rr.val : rr \in final} = {x.val : x \in asked}
        /\ \A i \in DOMAIN r.au : /\ r.au[i].owner \in Zone(end)
                                  /\ Is(r.au[i], Own(r.au[i].owner)) /\ Timely(r.au[i], Own(r.au[i].owner))
        /\ Zone(end) # {} /\ r.au = <<>> =>
              \/ r.aa /\ \E i \in DOMAIN r.an : r.an[i].owner \in Zone(end) /\ r.an[i].type = "NS"
              \/ r.aa /\ Size(r) + 1 > q.max
              \/ r.aa /\ Size(r) + Cardinality({x \in V : x.type = "NS"}) > q.max
        /\ \A i \in DOMAIN r.ar : /\ Is(r.ar[i], Own(r.ar[i].owner)) /\ Timely(r.ar[i], Own(r.ar[i].owner))
                                  /\ \E j \in DOMAIN (r.an \o r.au) :
                                       LET rr == (r.an \o r.au)[j]
                                       IN rr.type \in Targeting /\ Target(rr) = r.ar[i].owner

Answers == At("sent") => \E c \in {s.cdb} \cup s.old : Right(c, s.q, s.r)
=============================================================================
