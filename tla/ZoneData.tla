------------------------------ MODULE ZoneData ------------------------------
(***************************************************************************)
(* What the DNS content servers read: the lines of data, as                 *)
(* source/tinydns-data.c turns them into records, and the records that a    *)
(* client sees, as find() of source/tdlookup.c selects them.                *)
(*                                                                         *)
(* A name is the sequence of its labels, <<>> the root.  A line is a record *)
(* of its fields:                                                           *)
(*   c     its first character           d    the name that it is about      *)
(*   ip    an address, or None           x    a name as it is written        *)
(*   n     numbers, or other data        ttl, ttd, lo   the last three fields *)
(* Numbers and addresses are sequences of digits.  data.cdb is the sequence *)
(* of its records in the order of their addition, as cdb.c finds them.      *)
(***************************************************************************)
EXTENDS Integers, Sequences, SequencesExt

CONSTANTS
  None,                     \* an empty field
  Bogus,                    \* a field that does not parse
  Addr4, Addr6,             \* addresses
  PtrName(_)                \* the name of an address for PTR records

Ancestors(n) == {SubSeq(n, i, Len(n)) : i \in 1..Len(n) + 1}
Star(n) == n # <<>> /\ Head(n) = "*"

-----------------------------------------------------------------------------
(* tinydns-data                                                             *)

TTL_NS == 259200
TTL_POSITIVE == 86400
TTL_NEGATIVE == 2560

(* Types that have a line of their own, or are only asked for.              *)
Prohibited == {"AXFR", "IXFR", "ANY", "0", "SOA", "NS", "CNAME", "PTR", "MX"}

Unparsed(l) ==
  \/ l.c \notin {"#", "-"} /\ l.lo = Bogus
  \/ l.c \notin {"#", "-", "%"} /\ Bogus \in {l.ttl, l.ttd}

(* Lines at which tinydns-data ends.                                        *)
Bad(l) ==
  \/ l.c \notin {"#", "-", "%", "Z", ".", "&", "+", "=", "@", "S", "H", "^", "C", "'", ":"}
  \/ Unparsed(l)
  \/ l.c \in {".", "&", "@", "S", "H", "+", "="} /\ l.ip = Bogus
  \/ l.c \in {"+", "="} /\ l.ip = None
  \/ l.c \in {"S", "H"} /\ l.n = Bogus
  \/ l.c = ":" /\ l.x \in Prohibited

(* A wildcard is kept under the name without the star.                      *)
rr_finish(l, owner, type, ttl, val) ==
  [owner |-> IF Star(owner) THEN Tail(owner) ELSE owner, wild |-> Star(owner),
   type |-> type, ttl |-> ttl, ttd |-> l.ttd, lo |-> l.lo, val |-> val]

ttlparse(l, default) == IF l.ttl = None THEN default ELSE l.ttl

(* A name as it is written: an empty label stands for a final dot.          *)
fromdot(x) == SelectSeq(x, LAMBDA label : label # "")

(* Hosts without a dot are within the name of the line.                     *)
Host(l, kind) == IF Len(l.x) > 1 THEN fromdot(l.x) ELSE fromdot(l.x) \o kind \o l.d

Address(l, owner, ttl) ==
  IF l.ip = None THEN <<>>
  ELSE <<rr_finish(l, owner, IF l.ip \in Addr4 THEN "A" ELSE "AAAA", ttl, <<l.ip>>)>>

Location(l) == <<rr_finish(l, l.d, "%", 0, <<<<l.lo>>>>)>>
SOALine(l) == <<rr_finish(l, l.d, "SOA", ttlparse(l, TTL_NEGATIVE), <<fromdot(l.x), l.n>>)>>
NSLine(l) ==
  LET x == Host(l, <<"ns">>)
      ttl == ttlparse(l, TTL_NS)
      soa == rr_finish(l, l.d, "SOA", IF ttl = 0 THEN 0 ELSE TTL_NEGATIVE, <<x, l.n>>)
  IN (IF l.c = "." THEN <<soa>> ELSE <<>>)
     \o <<rr_finish(l, l.d, "NS", ttl, <<x>>)>> \o Address(l, x, ttl)
AddressLine(l) ==
  LET ttl == ttlparse(l, TTL_POSITIVE)
  IN Address(l, l.d, ttl)
     \o IF l.c = "=" THEN <<rr_finish(l, PtrName(l.ip), "PTR", ttl, <<l.d>>)>> ELSE <<>>
MXLine(l) ==
  LET x == Host(l, <<"mx">>)
      ttl == ttlparse(l, TTL_POSITIVE)
  IN <<rr_finish(l, l.d, "MX", ttl, <<l.n, x>>)>> \o Address(l, x, ttl)
SRVLine(l) ==   \* the fields are port, priority, weight
  LET x == Host(l, <<"srv">>)
      ttl == ttlparse(l, TTL_POSITIVE)
  IN <<rr_finish(l, l.d, "SRV", ttl, <<<<l.n[2], l.n[3], l.n[1]>>, x>>)>> \o Address(l, x, ttl)
HTTPSLine(l) ==
  LET x == IF l.x = <<>> THEN <<>> ELSE Host(l, <<>>)
      ttl == ttlparse(l, TTL_POSITIVE)
  IN <<rr_finish(l, l.d, "HTTPS", ttl, <<l.n, x>>)>> \o Address(l, x, ttl)
AliasLine(l) ==
  <<rr_finish(l, l.d, IF l.c = "C" THEN "CNAME" ELSE "PTR", ttlparse(l, TTL_POSITIVE), <<fromdot(l.x)>>)>>
OtherLine(l) ==   \* text, or a type and its whole data
  IF l.c = "'" THEN <<rr_finish(l, l.d, "TXT", ttlparse(l, TTL_POSITIVE), <<l.n>>)>>
  ELSE <<rr_finish(l, l.d, l.x, ttlparse(l, TTL_POSITIVE), l.n)>>

(* The records of one line, in the order in which they are added.           *)
Records(l) ==
  CASE l.c \in {"#", "-"} -> <<>>
    [] l.c = "%" -> Location(l)
    [] l.c = "Z" -> SOALine(l)
    [] l.c \in {".", "&"} -> NSLine(l)
    [] l.c \in {"+", "="} -> AddressLine(l)
    [] l.c = "@" -> MXLine(l)
    [] l.c = "S" -> SRVLine(l)
    [] l.c = "H" -> HTTPSLine(l)
    [] l.c \in {"^", "C"} -> AliasLine(l)
    [] OTHER -> OtherLine(l)

(* data.cdb is the records of every line, or stays as it was.               *)
Accepted(lines) == \A i \in DOMAIN lines : ~Bad(lines[i])
Compile(lines) == FlattenSeq([i \in DOMAIN lines |-> Records(lines[i])])
tinydns_data(lines, old) == IF Accepted(lines) THEN Compile(lines) ELSE old

-----------------------------------------------------------------------------
(* What a client at a place and a time sees of the records                  *)

(* The location of the longest prefix of the address that has one: an IPv4  *)
(* address is the sequence of its prefixes, longest first, an IPv6 address  *)
(* has none.                                                                *)
ClientLoc(c, ip) ==
  LET of(p) == SelectSeq(c, LAMBDA r : r.type = "%" /\ r.owner = <<p>>)
      ps == SelectSeq(ip, LAMBDA p : of(p) # <<>>)
  IN IF ps = <<>> THEN None ELSE of(Head(ps))[1].lo

(* With a time to live of zero the time is the end of a record, else its    *)
(* start.                                                                   *)
Current(r, now) ==
  \/ r.ttd = None
  \/ r.ttl = 0 /\ ~(r.ttd < now)
  \/ r.ttl # 0 /\ r.ttd < now

Sees(r, loc, now) == r.type # "%" /\ (r.lo = None \/ r.lo = loc) /\ Current(r, now)

(* A record that will end is not cached for long.                           *)
Left(r, now) ==
  LET left == r.ttd - now
  IN IF r.ttd = None \/ r.ttl # 0 THEN r.ttl
     ELSE IF left <= 2 THEN 2 ELSE IF left >= 3600 THEN 3600 ELSE left

(* find(), called until it returns 0.                                       *)
find(c, name, flagwild, loc, now) ==
  LET rs == SelectSeq(c, LAMBDA r : r.owner = name /\ r.wild = flagwild /\ Sees(r, loc, now))
  IN [i \in DOMAIN rs |-> [rs[i] EXCEPT !.ttl = Left(rs[i], now)]]
=============================================================================
