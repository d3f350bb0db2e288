------------------------------- MODULE Query --------------------------------
(***************************************************************************)
(* The resolver of dnscache(8), source/query.c: doit() with its labels, the *)
(* stack of look-ups for the addresses of name servers, the aliases of the  *)
(* client's name, and what it puts into the cache that all queries share.   *)
(*                                                                         *)
(* Names are members of a tree, resource record sets are sets of data.  One *)
(* call of doit() is not interrupted (running).  The cache may forget what  *)
(* it likes (CacheFifo says what it does); dns_transmit ends with a packet  *)
(* of one of the servers or in failure (DnsTransmit).  The sizes of names   *)
(* and of responses are not modelled.                                       *)
(***************************************************************************)
EXTENDS Integers, Sequences, FiniteSets, SequencesExt

CONSTANTS
  Names, Root, Parent(_),   \* the tree of domain names
  None,
  Special(_),               \* the kind of a name that is handled internally, or "no"
  Addrs,                    \* addresses
  Servers(_),               \* addresses in the file of that name in servers/, or {}
  Packets(_, _, _),         \* what the server at an address sends for a name and type
  Clients,                  \* slots of dnscache
  Asked,                    \* the questions clients ask
  flagforwardonly,
  QUERY_MAXLEVEL, QUERY_MIN_USE_ROOTS_LEVEL, QUERY_MAXALIAS, QUERY_MAXNS, QUERY_MAXNS_ADDR,
  MaxNames, MaxPackets,     \* the bounds 300 and 100 on loop
  MaxQueries,               \* bound on the questions asked
  MaxForgets, MaxFails,     \* bounds on what the cache forgets, and on failures of servers
  Freed,                    \* what a name that was freed may be read as
  Data(_, _), Exist,        \* the zones: records of a name and type, and the names there are
  Hosts(_),                 \* a zone's name servers, and the names these are aliases of
  Loops,                    \* names whose aliases do not end
  Solid                     \* names all of whose servers answer, without a circle

VARIABLES
  z,        \* the struct query of each client
  running,  \* whose doit() runs, or None
  cache,    \* a partial function from types and names to sets of data
  asked, forgets, fails,
  out       \* history: the last response

vars == <<z, running, cache, asked, forgets, fails, out>>

Levels == 0 .. QUERY_MAXLEVEL - 1
RRTypes == {"A", "AAAA", "CNAME", "ANY", "NS", "MX", "SOA", "PTR", "OPT"}

(* A record whose data is a name, or an address, or anything else.          *)
Record == {rr \in [name : Names, type : RRTypes, data : Names \cup Addrs] :
             /\ rr.type \in {"CNAME", "NS"} => rr.data \in Names
             /\ rr.type \in {"A", "AAAA"} => rr.data \in Addrs}
PacketType == [rcode : {0, 3}, answer : Seq(Record), authority : Seq(Record), glue : Seq(Record)]

-----------------------------------------------------------------------------
(* Names                                                                    *)

(* The name, then what follows each of its dots.                            *)
Ancestors[n \in Names] == IF n = Root THEN <<n>> ELSE <<n>> \o Ancestors[Parent(n)]

(* dns_domain_suffix().                                                     *)
Suffix(d, of) == of \in Range(Ancestors[d])

(* The closest of d and the names above it that is one of those known.      *)
Closest(d, known) ==
  LET up == Ancestors[d]
      on == {i \in DOMAIN up : up[i] \in known}
  IN IF on = {} THEN None ELSE up[Min(on)]

(* roots_search(): the closest name above that has a file in servers/.      *)
Local == {n \in Names : Servers(n) # {}}
RootOf(d) == Closest(d, Local)
roots_same(d, e) == RootOf(d) = RootOf(e)

(* Names end, numbers are not negative, and a file in servers/ has no more  *)
(* addresses than there is room for (MAX_ROOTS).                            *)
ASSUME QueryAssumption ==
  /\ Ancestors \in [Names -> Seq(Names)] /\ Root \in Names
  /\ \A n \in Names : Ancestors[n] = IF n = Root THEN <<n>> ELSE <<n>> \o Ancestors[Parent(n)]
  /\ \A n \in Names \ {Root} : Parent(n) \in Names
  /\ None \notin Names /\ None \notin Clients /\ Freed \subseteq Names \cup {None}
  /\ QUERY_MAXLEVEL \in Nat \ {0} /\ QUERY_MIN_USE_ROOTS_LEVEL \in Nat
  /\ {QUERY_MAXALIAS, QUERY_MAXNS, QUERY_MAXNS_ADDR} \subseteq Nat
  /\ {MaxNames, MaxPackets, MaxQueries, MaxForgets, MaxFails} \subseteq Nat
  /\ flagforwardonly \in BOOLEAN
  /\ {"ip4", "localhost"} \subseteq Addrs /\ Asked \subseteq Names \X RRTypes
  /\ \A n \in Names : /\ Servers(n) \subseteq Addrs /\ IsFiniteSet(Servers(n))
                      /\ Cardinality(Servers(n)) <= QUERY_MAXNS_ADDR
  /\ \A a \in Addrs, n \in Names, type \in RRTypes : Packets(a, n, type) \subseteq PacketType

-----------------------------------------------------------------------------
(* Special names                                                            *)

(* handle_specials(): the reply a client gets for such a name.              *)
Synthetic(kind, type) ==
  LET types == CASE kind \in {"ip4", "localhost"} -> {"A", "AAAA"}
                 [] kind = "loopback" -> {"PTR"}
                 [] OTHER -> {}
  IN CASE kind \in {"never", "unservice"} -> [rcode |-> 3, data |-> {}]
       [] type \in {"ANY", "OPT"} -> [rcode |-> 0, data |-> {"HINFO"}]
       [] OTHER -> [rcode |-> 0, data |-> IF type \in types THEN {kind} ELSE {}]

(* handle_specials_as_glue(): the addresses such a server name has.         *)
SyntheticGlue(kind) == IF kind \in {"ip4", "localhost"} THEN {kind} ELSE {}

-----------------------------------------------------------------------------
(* The cache                                                                *)

Has(type, d) == <<type, d>> \in DOMAIN cache
Cached(type, d) == IF Has(type, d) THEN cache[<<type, d>>] ELSE {}
Glue(d) == Cached("A", d) \cup Cached("AAAA", d)
HasGlue(d) == Has("A", d) \/ Has("AAAA", d)

(* What is stored takes the place of what was there.                        *)
Stored(new) == [k \in DOMAIN new \cup DOMAIN cache |-> IF k \in DOMAIN new THEN new[k] ELSE cache[k]]

(* Mutant: records of any owner are cached.                                 *)
Bailiwick_All(d, control) == TRUE

(* In bailiwick, and not across a point where servers/ says otherwise.      *)
Bailiwick(d, control) == Suffix(d, control) /\ roots_same(d, control)

(* save_records(): one entry per resource record set.  Only the SOA records *)
(* of the answer section are kept; the last CNAME wins; sets of NS records  *)
(* are collected but never stored.                                          *)
Saved(p, control) ==
  LET all  == p.answer \o p.authority \o p.glue
      key(i) == <<all[i].type, all[i].name>>
      kept == {i \in DOMAIN all : /\ Bailiwick(all[i].name, control)
                                  /\ all[i].type \notin {"ANY", "OPT", "NS"}
                                  /\ all[i].type = "SOA" => i <= Len(p.answer)}
      of(k) == {i \in kept : key(i) = k}
  IN [k \in {key(i) : i \in kept} |->
        IF k[1] = "CNAME" THEN {all[Max(of(k))].data} ELSE {all[i].data : i \in of(k)}]

-----------------------------------------------------------------------------
(* The struct query                                                         *)

NoPacket == [rcode |-> 0, answer |-> <<>>, authority |-> <<>>, glue |-> <<>>]

Idle == [pc |-> "idle", loop |-> 0, level |-> 0, type |-> "A", any |-> FALSE, packet |-> NoPacket,
         j |-> 0, flagempty |-> TRUE,
         name    |-> [l \in Levels |-> None],
         control |-> [l \in Levels |-> None],
         ns      |-> [l \in Levels |-> <<>>],
         addrs   |-> [l \in Levels |-> {}],
         alias   |-> <<>>]

Type(s) == IF s.level = 0 THEN s.type ELSE "A"
Name(s) == s.name[s.level]

(* An address is added while there is room.                                 *)
Add(old, new) ==
  LET room == QUERY_MAXNS_ADDR - Cardinality(old)
      more == new \ old
  IN old \cup (IF Cardinality(more) <= room THEN more
               ELSE CHOOSE part \in SUBSET more : Cardinality(part) = room)

Goto(q, s, pc) == z' = [z EXCEPT ![q] = [s EXCEPT !.pc = pc]] /\ UNCHANGED <<running, out>>

(* cleanup(), and a response or none.                                       *)
Finish(q, s, rcode, data) ==
  /\ z' = [z EXCEPT ![q] = Idle]
  /\ running' = None
  /\ out' = [name |-> (Append(Reverse(s.alias), s.name[0]))[1], type |-> s.type, rcode |-> rcode,
             alias |-> Tail(Append(Reverse(s.alias), s.name[0])), data |-> data]

DIE(q, s) == Finish(q, s, -1, {})

(* Mutant: the addresses found at the level that is left stay.              *)
Popped_Dirty(s) == [s EXCEPT !.name[s.level] = None, !.ns[s.level] = <<>>, !.level = @ - 1]

(* Mutant: the level is left before its addresses are forgotten.            *)
Popped_Late(s) == [s EXCEPT !.name[s.level] = None, !.ns[s.level] = <<>>, !.addrs[s.level - 1] = {},
                            !.level = @ - 1]

Popped(s) == [s EXCEPT !.name[s.level] = None, !.ns[s.level] = <<>>, !.addrs[s.level] = {},
                       !.level = @ - 1]

(* Back to the loop over the name servers below, with addresses for it.     *)
LOWERLEVEL(q, s, addrs) ==
  Goto(q, Popped([s EXCEPT !.addrs[s.level - 1] = Add(@, addrs)]), "havens")

SERVFAIL(q, s) == IF s.level > 0 THEN LOWERLEVEL(q, s, {}) ELSE Finish(q, s, 2, {})

NXDOMAIN(q, s) == IF s.level > 0 THEN LOWERLEVEL(q, s, {}) ELSE Finish(q, s, 3, {})

(* A server that is crossed out is back, or gone with all others, here.     *)
HAVENS(q, s) == Goto(q, [s EXCEPT !.addrs[s.level] = {}], "havens")

At(q, pc) == running = q /\ z[q].pc = pc

-----------------------------------------------------------------------------
(* doit()                                                                   *)

(* query_start(), which refuses zone transfers.                             *)
Start(q, n, type) ==
  /\ running = None /\ z[q].pc = "idle" /\ asked < MaxQueries
  /\ asked' = asked + 1
  /\ z' = [z EXCEPT ![q] = [Idle EXCEPT !.pc = "newname", !.name[0] = n, !.type = type]]
  /\ running' = q
  /\ UNCHANGED <<cache, forgets, fails, out>>

NEWNAME(q) ==
  /\ At(q, "newname")
  /\ LET s == [z[q] EXCEPT !.loop = @ + 1, !.any = FALSE]
         kind == Special(Name(s))
         reply == Synthetic(kind, s.type)
     IN CASE s.loop >= MaxNames -> DIE(q, s)
          [] s.loop < MaxNames /\ kind # "no" ->
               IF s.level > 0 THEN LOWERLEVEL(q, s, SyntheticGlue(kind))
               ELSE Finish(q, s, reply.rcode, reply.data)
          [] s.loop < MaxNames /\ kind = "no" ->
               IF Has("ANY", Name(s)) THEN NXDOMAIN(q, s) ELSE Goto(q, s, "alias")
  /\ UNCHANGED <<cache, asked, forgets, fails>>

(* Mutant: aliases are not counted.                                         *)
move_name_to_alias_Drop(s) == [ok |-> TRUE, alias |-> <<>>]

move_name_to_alias(s) == [ok |-> Len(s.alias) < QUERY_MAXALIAS, alias |-> <<s.name[0]>> \o s.alias]

(* One turn of the loops that chase aliases in the cache.  Only at level 0  *)
(* is there a bound on their number.                                        *)
CachedAlias(q) ==
  /\ At(q, "alias")
  /\ LET s == z[q]
         to == CHOOSE c \in Cached("CNAME", Name(s)) : TRUE
     IN IF Type(s) # "CNAME" /\ Cached("CNAME", Name(s)) # {}
        THEN IF s.level > 0 THEN Goto(q, [s EXCEPT !.name[s.level] = to, !.any = TRUE], "alias")
             ELSE IF ~move_name_to_alias(s).ok THEN DIE(q, s)
             ELSE Goto(q, [s EXCEPT !.alias = move_name_to_alias(s).alias, !.name[0] = to,
                                    !.any = TRUE], "alias")
        ELSE Goto(q, s, IF s.any THEN "newname" ELSE "lookup")
  /\ UNCHANGED <<cache, asked, forgets, fails>>

(* The client, or the level below, is served from the cache.                *)
Lookup(q) ==
  /\ At(q, "lookup")
  /\ LET s == z[q]
         hit == IF s.type = "CNAME" THEN Cached("CNAME", Name(s)) # {} ELSE Has(s.type, Name(s))
     IN IF s.level > 0
        THEN IF HasGlue(Name(s)) THEN LOWERLEVEL(q, s, Glue(Name(s))) ELSE Goto(q, s, "begin")
        ELSE IF s.type \in {"ANY", "OPT"} THEN Finish(q, s, 0, {"HINFO"})
        ELSE IF hit THEN Finish(q, s, 0, Cached(s.type, Name(s)))
        ELSE Goto(q, s, "begin")
  /\ UNCHANGED <<cache, asked, forgets, fails>>

(* The closest name above for which servers are known.                      *)
Begin(q) ==
  /\ At(q, "begin")
  /\ LET s == [z[q] EXCEPT !.ns[z[q].level] = <<>>, !.addrs[z[q].level] = {}]
         named == IF flagforwardonly \/ s.level >= QUERY_MIN_USE_ROOTS_LEVEL THEN {}
                  ELSE {n \in Names : Cached("NS", n) # {}}
         at == Closest(Name(s), Local \cup named)
     IN IF at = None THEN DIE(q, s)
        ELSE IF at \in Local
        THEN Goto(q, [s EXCEPT !.control[s.level] = at, !.addrs[s.level] = Servers(at)], "havensaddr")
        ELSE HAVENS(q, [s EXCEPT !.control[s.level] = at, !.ns[s.level] = SetToSeq(Cached("NS", at))])
  /\ UNCHANGED <<cache, asked, forgets, fails>>

(* One turn of the loop over the names of the servers.                      *)
HAVENSPARTIAL(q) ==
  /\ At(q, "havens")
  /\ LET s == z[q]
         n == Head(s.ns[s.level])
         rest == [s EXCEPT !.ns[s.level] = Tail(@)]
         up == s.level + 1
     IN IF s.ns[s.level] = <<>> THEN Goto(q, s, "havensaddr")
        ELSE IF HasGlue(n) THEN Goto(q, [rest EXCEPT !.addrs[s.level] = Add(@, Glue(n))], "havens")
        ELSE IF up < QUERY_MAXLEVEL
        THEN Goto(q, [rest EXCEPT !.name[up] = n, !.level = up, !.ns[up] = <<>>, !.addrs[up] = {}],
                  "newname")
        ELSE Goto(q, rest, "havens")
  /\ UNCHANGED <<cache, asked, forgets, fails>>

(* dns_transmit_start(), and doit() returns 0.                              *)
HAVENSADDR(q) ==
  /\ At(q, "havensaddr")
  /\ LET s == z[q]
     IN IF s.addrs[s.level] = {} THEN SERVFAIL(q, s)
        ELSE /\ z' = [z EXCEPT ![q].pc = "wait"] /\ running' = None
             /\ UNCHANGED out
  /\ UNCHANGED <<cache, asked, forgets, fails>>

(* query_get(): dns_transmit has a packet, or gives up.                     *)
Packet(q, a, p) ==
  /\ running = None /\ z[q].pc = "wait"
  /\ a \in z[q].addrs[z[q].level] /\ p \in Packets(a, Name(z[q]), Type(z[q]))
  /\ z' = [z EXCEPT ![q].packet = p, ![q].pc = "havepacket"] /\ running' = q
  /\ UNCHANGED <<cache, asked, forgets, fails, out>>

NoAnswer(q) ==
  /\ running = None /\ z[q].pc = "wait" /\ fails < MaxFails
  /\ fails' = fails + 1
  /\ IF z[q].level > 0
     THEN z' = [z EXCEPT ![q] = [Popped(z[q]) EXCEPT !.pc = "havens"]] /\ running' = q
          /\ UNCHANGED out
     ELSE Finish(q, z[q], 2, {})
  /\ UNCHANGED <<cache, asked, forgets>>

-----------------------------------------------------------------------------
(* HAVEPACKET                                                               *)

(* The first scan of the answers: is there one at the end of the aliases?   *)
Empty(p, d, type) ==
  ~ FoldLeft(LAMBDA acc, rr :
               IF rr.name # acc.owner THEN acc
               ELSE IF rr.type = type THEN [acc EXCEPT !.found = TRUE]
               ELSE IF rr.type = "CNAME" THEN [acc EXCEPT !.owner = rr.data] ELSE acc,
             [owner |-> d, found |-> FALSE], p.answer).found

HasSoa(p) == \E i \in DOMAIN p.authority : p.authority[i].type = "SOA"
NsRecords(p) == {i \in DOMAIN p.authority : p.authority[i].type = "NS"}
Referral(p) == IF NsRecords(p) = {} THEN None ELSE p.authority[Max(NsRecords(p))].name

(* Counted and scanned, and what the packet has is put into the cache.      *)
HAVEPACKET(q) ==
  /\ At(q, "havepacket")
  /\ \E s \in {[z[q] EXCEPT !.loop = @ + 1, !.j = 1,
                            !.flagempty = Empty(z[q].packet, Name(z[q]), Type(z[q]))]},
        saved \in {Saved(z[q].packet, z[q].control[z[q].level])} :
       IF s.loop = MaxPackets THEN DIE(q, s) /\ UNCHANGED cache
       ELSE Goto(q, s, "follow") /\ cache' = Stored(saved)
  /\ UNCHANGED <<asked, forgets, fails>>

(* The packet is done with.                                                 *)
Read(s) == [s EXCEPT !.packet = NoPacket, !.j = 0, !.flagempty = TRUE]

(* control points into the name, which at the upper levels is freed when    *)
(* an alias is followed: what is there then may be what was there, the end  *)
(* of a name, or no name at all.                                            *)
Controls(s) == {s.control[s.level]} \cup (IF s.level > 0 THEN Freed ELSE {})

Within(d, control) == control # None /\ Bailiwick(d, control)

(* One turn of the second scan: the name is replaced by its alias, as far   *)
(* as the server may be trusted.                                            *)
Follow(q) ==
  /\ At(q, "follow")
  /\ LET s == z[q]
         rr == s.packet.answer[s.j]
         next == [s EXCEPT !.j = @ + 1]
     IN IF s.j > Len(s.packet.answer) \/ Type(s) = "CNAME" THEN Goto(q, s, "judge")
        ELSE IF rr.type # "CNAME" \/ rr.name # Name(s) THEN Goto(q, next, "follow")
        ELSE IF s.level = 0 /\ ~move_name_to_alias(s).ok THEN DIE(q, s)
        ELSE \E control \in Controls(s) :
               LET to == [next EXCEPT !.alias = IF s.level = 0 THEN move_name_to_alias(s).alias ELSE @,
                                      !.name[s.level] = rr.data, !.control[s.level] = control]
               IN IF Within(rr.data, control) THEN Goto(q, to, "follow") ELSE Goto(q, Read(to), "newname")
  /\ UNCHANGED <<cache, asked, forgets, fails>>

Lame(referral, control) == control = None \/ referral = control \/ ~Suffix(referral, control)

AnswerData(p, d, types) ==
  {rr.data : rr \in {p.answer[i] : i \in {i \in 1 .. Len(p.answer) :
                                            p.answer[i].name = d /\ p.answer[i].type \in types}}}

(* The places of some records, in their order.                              *)
Places(is) == CHOOSE f \in [1 .. Cardinality(is) -> is] : \A a, b \in DOMAIN f : a < b => f[a] < f[b]

NsNames(p, referral) ==
  LET is == {i \in NsRecords(p) : p.authority[i].name = referral}
  IN [k \in 1 .. Min({Cardinality(is), QUERY_MAXNS}) |-> p.authority[Places(is)[k]].data]

(* An empty set, or a name that does not exist, is put into the cache too.  *)
Negative(p, d, type, empty) ==
  LET keys == IF p.rcode = 3 THEN {<<"ANY", d>>}
              ELSE IF empty /\ HasSoa(p) /\ type \notin {"ANY", "OPT"} THEN {<<type, d>>} ELSE {}
  IN [k \in keys |-> {}]

(* What the packet says of the name at the end of the aliases.              *)
Judge(q) ==
  /\ At(q, "judge")
  /\ \E s \in {Read(z[q])} :
     LET p == z[q].packet
         empty == z[q].flagempty
         d == Name(s)
         referral == Referral(p)
         whole == ~empty \/ HasSoa(p) \/ referral = None
     IN /\ cache' = Stored(Negative(p, d, Type(s), empty))
        /\ IF p.rcode = 3 THEN NXDOMAIN(q, s)
           ELSE IF ~whole /\ Lame(referral, s.control[s.level]) THEN HAVENS(q, s)
           ELSE IF whole
           THEN IF s.level > 0 THEN LOWERLEVEL(q, s, AnswerData(p, d, {"A", "AAAA"}))
                ELSE Finish(q, s, 0, AnswerData(p, d, {s.type}))
           ELSE IF ~Suffix(d, referral) THEN DIE(q, s)
           ELSE IF flagforwardonly THEN HAVENS(q, s)
           ELSE HAVENS(q, [s EXCEPT !.control[s.level] = referral, !.ns[s.level] = NsNames(p, referral)])
  /\ UNCHANGED <<asked, forgets, fails>>

-----------------------------------------------------------------------------
(* Time, and room for other entries: the cache forgets.                     *)
Forget(key) ==
  /\ key \in DOMAIN cache /\ forgets < MaxForgets
  /\ cache' = [k \in DOMAIN cache \ {key} |-> cache[k]]
  /\ forgets' = forgets + 1
  /\ UNCHANGED <<z, running, asked, fails, out>>

NoResponse == [name |-> None, type |-> "A", rcode |-> -1, alias |-> <<>>, data |-> {}]

Init ==
  /\ z = [q \in Clients |-> Idle] /\ running = None
  /\ cache = <<>> /\ asked = 0 /\ forgets = 0 /\ fails = 0
  /\ out = NoResponse

Doit(q) ==
  \/ NEWNAME(q) \/ CachedAlias(q) \/ Lookup(q) \/ Begin(q)
  \/ HAVENSPARTIAL(q) \/ HAVENSADDR(q) \/ HAVEPACKET(q)
  \/ Follow(q) \/ Judge(q)

Reply(q) ==
  \/ \E a \in z[q].addrs[z[q].level] :
       \E p \in Packets(a, Name(z[q]), Type(z[q])) : Packet(q, a, p)
  \/ NoAnswer(q)

Next ==
  \/ \E q \in Clients : Doit(q) \/ Reply(q)
  \/ \E q \in Clients, ask \in Asked : Start(q, ask[1], ask[2])
  \/ \E key \in DOMAIN cache : Forget(key)

Spec == Init /\ [][Next]_vars

(* dnscache runs, and dns_transmit ends: each of its tries has a deadline.  *)
LiveSpec == Spec /\ \A q \in Clients : WF_vars(Doit(q)) /\ WF_vars(Reply(q))

-----------------------------------------------------------------------------
(* The zones, and what their servers may be trusted with                    *)

(* The addresses at which a zone is served.                                 *)
Masters(c) == Servers(c) \cup UNION {Data(h, "A") \cup Data(h, "AAAA") : h \in Hosts(c)}

(* Servers of c are asked about d, and not those of a file in servers/.     *)
Under(d, c) == Suffix(d, c) /\ RootOf(d) = RootOf(c)

(* The aliases in the first answers, those that are under one of the zones, *)
(* lead from n to d.  None are followed when it was an alias that was asked.*)
LeadsTo(p, n, type, d, zones, upto) ==
  LET links == {i \in 1 .. upto : p.answer[i].type = "CNAME" /\ type # "CNAME"}
  IN \/ d = n /\ \A k \in links : p.answer[k].name # d
     \/ \E i \in links : /\ p.answer[i].data = d /\ \E c \in zones : Under(p.answer[i].name, c)
                         /\ \A k \in links : k > i => p.answer[k].name # d

(* A packet about n speaks the truth of the name d to which its aliases lead.*)
TrueOf(d, p, n, type) ==
  IF p.rcode = 3 THEN d \notin Exist
  ELSE /\ ~Empty(p, n, type) \/ HasSoa(p) \/ Referral(p) = None =>
            /\ d \in Exist /\ AnswerData(p, d, {type}) = Data(d, type)
            /\ type = "CNAME" \/ Data(d, "CNAME") = {} \/ d \in Loops
       /\ Empty(p, n, type) /\ HasSoa(p) =>
            Data(d, type) = {} /\ (type = "CNAME" \/ Data(d, "CNAME") = {})

(* What a packet says of the zones is true: where aliases go and addresses  *)
(* are, what there is at the end of the aliases, and who serves a zone      *)
(* below.                                                                   *)
Truthful(p, n, type, zones) ==
  /\ \A i \in DOMAIN p.answer :
       LET rr == p.answer[i]
       IN rr.type \in {"CNAME", "A", "AAAA"} /\ (\E c \in zones : Under(rr.name, c)) =>
            rr.data \in Data(rr.name, rr.type)
  /\ type \notin {"ANY", "OPT"} => \A d \in Names :
       LeadsTo(p, n, type, d, zones, Len(p.answer)) /\ (\E c \in zones : Under(d, c)) => TrueOf(d, p, n, type)
  /\ p.rcode = 0 /\ Empty(p, n, type) /\ ~HasSoa(p) => \A i \in NsRecords(p) :
       LET rr == p.authority[i]
       IN (\E c \in zones : rr.name # c /\ Suffix(rr.name, c)) => rr.data \in Hosts(rr.name)

(* The sets of records of names of the zone are true, and complete.         *)
SetsTrue(p, c) ==
  \A type \in RRTypes \ {"ANY", "OPT", "NS"}, n \in Names :
    LET shown == Range(p.answer) \cup (IF type = "SOA" THEN {} ELSE Range(p.authority) \cup Range(p.glue))
        set == {rr.data : rr \in {rr \in shown : rr.name = n /\ rr.type = type}}
    IN Under(n, c) /\ set # {} => set = Data(n, type)

(* The zones are consistent, and so are the special names; Hosts follows    *)
(* aliases, and from Loops there is no way out.  Then, the servers of a     *)
(* zone are honest about it; about all else they may say what they like.    *)
(* In look-ups of servers, a name that was freed and is used as the zone    *)
(* must not make a lie of another zone credible either.                     *)
ASSUME WorldAssumption ==
  /\ \A n \in Names :
       /\ \A type \in RRTypes : Data(n, type) # {} =>
            n \in Exist /\ (type = "CNAME" \/ Data(n, "CNAME") = {})
       /\ Data(n, "CNAME") \subseteq Names /\ \A d, e \in Data(n, "CNAME") : d = e
       /\ Special(n) # "no" => /\ Data(n, "CNAME") = {}
                               /\ \A type \in RRTypes \ {"ANY", "OPT"} :
                                    LET reply == Synthetic(Special(n), type)
                                    IN /\ reply.rcode = 3 <=> n \notin Exist
                                       /\ reply.data = Data(n, type)
  /\ \A n \in Loops : Data(n, "CNAME") # {} /\ Data(n, "CNAME") \subseteq Loops
  /\ \A c \in Names : \A h \in Hosts(c) : h \in Names /\ Data(h, "CNAME") \subseteq Hosts(c)
  /\ \A c, n \in Names : Under(n, c) => \A a \in Masters(c), type \in RRTypes :
       \A p \in Packets(a, n, type) :
         /\ SetsTrue(p, c) /\ Truthful(p, n, type, {c})
         /\ type = "A" /\ (\E e \in Names : n \in Hosts(e)) => Truthful(p, n, type, {c} \cup (Freed \ {None}))

-----------------------------------------------------------------------------
TypeOK ==
  /\ running \in Clients \cup {None}
  /\ DOMAIN cache \subseteq RRTypes \X Names
  /\ asked \in 0 .. MaxQueries /\ forgets \in 0 .. MaxForgets /\ fails \in 0 .. MaxFails
  /\ out.rcode \in {-1, 0, 2, 3}
  /\ \A q \in Clients :
       /\ z[q].pc \in {"idle", "newname", "alias", "lookup", "begin", "havens", "havensaddr", "wait",
                       "havepacket", "follow", "judge"}
       /\ z[q].level \in Levels /\ z[q].loop \in Nat
       /\ Len(z[q].alias) <= QUERY_MAXALIAS
       /\ \A l \in Levels : /\ z[q].name[l] \in Names \cup {None} /\ Len(z[q].ns[l]) <= QUERY_MAXNS
                            /\ Cardinality(z[q].addrs[l]) <= QUERY_MAXNS_ADDR

(* The levels of a query are a stack: each level in use has a name, and what *)
(* the levels above it once held is gone, so that servers found for one name *)
(* are never asked about the next that is put there.  A query that waits has *)
(* servers to wait for, and they are in charge of its name (query.c:86, 1205).*)
StackKept ==
  TypeOK /\ \A q \in Clients :
    LET s == z[q]
    IN /\ s.pc = "idle" => s = Idle
       /\ s.pc # "idle" => \A l \in Levels :
            IF l <= s.level THEN s.name[l] # None
            ELSE s.name[l] = None /\ s.ns[l] = <<>> /\ s.addrs[l] = {}
       /\ s.pc \in {"wait", "havepacket"} =>
            /\ s.addrs[s.level] # {} /\ s.ns[s.level] = <<>>
            /\ s.control[s.level] # None /\ Suffix(Name(s), s.control[s.level])
       /\ running = q <=> s.pc \notin {"idle", "wait"}

(* Whatever servers add to their packets, the cache only holds what the      *)
(* servers in charge of a name say of it, and a client gets the aliases and  *)
(* the data of the zones, or the word that a name does not exist, or no      *)
(* answer; never data or an alias from a server that may not speak of the    *)
(* name (query.c:561, 1308).                                                 *)
CacheTrue ==
  \A key \in DOMAIN cache :
    LET n == key[2]
    IN IF key[1] = "ANY" THEN n \notin Exist
       ELSE /\ n \in Exist /\ cache[key] = Data(n, key[1])
            /\ key[1] = "CNAME" \/ Data(n, "CNAME") = {}

ReplyTrue ==
  LET chain == <<out.name>> \o out.alias
      d == chain[Len(chain)]
  IN out.rcode \in {0, 3} /\ out.type \notin {"ANY", "OPT"} =>
       /\ \A i \in DOMAIN out.alias : Data(chain[i], "CNAME") = {chain[i + 1]}
       /\ out.rcode = 3 <=> d \notin Exist
       /\ out.rcode = 0 => /\ out.data = Data(d, out.type)
                           /\ out.type = "CNAME" \/ Data(d, "CNAME") = {} \/ d \in Loops

AnswersTrue == CacheTrue /\ ReplyTrue

(* Where all servers of a name answer, so does dnscache: what the look-ups   *)
(* of servers find, through levels and aliases and whatever other queries    *)
(* and the cache do in between, reaches the loops that asked (query.c:1205). *)
SolidAnswered == out.name \in Solid /\ fails = 0 => out.rcode \in {0, 3}

(* Every query that is begun ends, with an answer, a failure or none: there  *)
(* are bounds on the names, the packets, the levels and the aliases, however *)
(* the servers refer to each other (query.c:748, 1214).                      *)
Ends == \A q \in Clients : z[q].pc # "idle" ~> z[q].pc = "idle"

(* A server whose referral is not followed is left out, and the next one of  *)
(* the list is tried (the comment at query.c:1452).                          *)
TriesNext ==
  [][\A q \in Clients :
       LET l == z[q].level
       IN /\ flagforwardonly /\ z[q].pc = "judge" /\ z'[q].pc = "havens" /\ z'[q].level = l
          /\ Cardinality(z[q].addrs[l]) > 1
          => z'[q].addrs[l] # {}]_vars

=============================================================================
