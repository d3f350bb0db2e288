----------------------------- MODULE QueryProofs -----------------------------
(***************************************************************************)
(* Theorems about Query, for any tree of names, any well-formed packets and *)
(* any bounds.                                                              *)
(*                                                                         *)
(* First, the levels of a query are a stack, and the servers that are asked *)
(* are in charge of the name.  Valid is what holds of a struct query        *)
(* between any two steps, and Place what the label adds at which it goes    *)
(* on.  There is a lemma for each way a field changes (AddrsSet, NsSet,     *)
(* ControlSet, NameSet, PushedValid, PoppedValid), one for each goto        *)
(* (GotoKeeps, LowerKeeps, HavensKeeps, FinishKeeps), and the actions are   *)
(* made of them.                                                            *)
(*                                                                         *)
(* Then, what is cached and what clients are told is the truth, in a world  *)
(* as WorldAssumption has it.  Known is what holds of a struct query        *)
(* between any two steps: its names, its servers and its aliases are those  *)
(* of the zones.  Trust is what the label adds, and while a packet is read, *)
(* that is Spoken: it came from a server that may speak of the name to      *)
(* which its aliases have led.  The lemmas go the same way: the tree of     *)
(* names, the cache, a struct query, the gotos (GotoTrue, LowerTrue,        *)
(* HavensTrue, FinishTrue), the actions.                                    *)
(***************************************************************************)
EXTENDS Query, FiniteSetTheorems, SequenceTheorems, FunctionTheorems, WellFoundedInduction, TLAPS

Pcs == {"idle", "newname", "alias", "lookup", "begin", "havens", "havensaddr", "wait",
        "havepacket", "follow", "judge"}

QueryType ==
  [pc : Pcs, loop : Nat, level : Levels, type : RRTypes, any : BOOLEAN, packet : PacketType,
   j : Nat, flagempty : BOOLEAN,
   name    : [Levels -> Names \cup {None}],
   control : [Levels -> Names \cup {None}],
   ns      : [Levels -> Seq(Names)],
   addrs   : [Levels -> SUBSET Addrs],
   alias   : Seq(Names)]

Room(a) == /\ a \in SUBSET Addrs /\ IsFiniteSet(a) /\ Cardinality(a) <= QUERY_MAXNS_ADDR

(* The tables of a struct query are no larger than their arrays.            *)
Held(s) ==
  /\ Len(s.alias) <= QUERY_MAXALIAS
  /\ \A l \in Levels : Len(s.ns[l]) <= QUERY_MAXNS /\ Room(s.addrs[l])

(* The servers asked at a level are in charge of its name.                  *)
InCharge(s, l) == s.control[l] # None /\ Suffix(s.name[l], s.control[l])

Stack(s) ==
  /\ \A l \in Levels : IF l <= s.level THEN s.name[l] # None
                       ELSE s.name[l] = None /\ s.ns[l] = <<>> /\ s.addrs[l] = {}
  /\ \A l \in Levels : l < s.level => InCharge(s, l)

(* What the labels of doit() rely on.  In the loop over the servers, control *)
(* may be dangling when no server is left, since then none is asked.        *)
Place(s, pc) ==
  /\ pc \in {"havens", "havensaddr"} =>
       (s.ns[s.level] # <<>> \/ s.addrs[s.level] # {} => InCharge(s, s.level))
  /\ pc \in {"havensaddr", "wait", "havepacket", "follow", "judge"} => s.ns[s.level] = <<>>
  /\ pc \in {"wait", "havepacket"} => s.addrs[s.level] # {} /\ InCharge(s, s.level)
  /\ pc = "follow" => s.j # 0

Valid(s) == s \in QueryType /\ Held(s) /\ Stack(s)

(* An RRset that is cached: none of NS records, names of names, addresses   *)
(* of addresses.                                                            *)
SetOK(type, set) ==
  /\ IsFiniteSet(set)
  /\ type = "NS" => set = {}
  /\ type = "CNAME" => set \subseteq Names
  /\ type \in {"A", "AAAA"} => set \subseteq Addrs

CacheOK(c) ==
  /\ DOMAIN c \subseteq RRTypes \X Names
  /\ \A k \in DOMAIN c : SetOK(k[1], c[k])

Counters ==
  asked \in 0 .. MaxQueries /\ forgets \in 0 .. MaxForgets /\ fails \in 0 .. MaxFails

QueryOK(s) == Valid(s) /\ Place(s, s.pc)

IInv ==
  /\ CacheOK(cache) /\ Counters /\ out.rcode \in {-1, 0, 2, 3}
  /\ running \in Clients \cup {None}
  /\ z \in [Clients -> QueryType]
  /\ \A q \in Clients : /\ IF z[q].pc = "idle" THEN z[q] = Idle ELSE QueryOK(z[q])
                        /\ running = q <=> z[q].pc \notin {"idle", "wait"}

-----------------------------------------------------------------------------
(* Sets of numbers, finite sets                                              *)

LEMMA Constants ==
  /\ Ancestors \in [Names -> Seq(Names)] /\ Root \in Names
  /\ None \notin Names /\ None \notin Clients /\ Freed \subseteq Names \cup {None}
  /\ QUERY_MAXLEVEL \in Nat /\ QUERY_MAXLEVEL >= 1 /\ QUERY_MIN_USE_ROOTS_LEVEL \in Nat
  /\ QUERY_MAXALIAS \in Nat /\ QUERY_MAXNS \in Nat /\ QUERY_MAXNS_ADDR \in Nat
  /\ MaxNames \in Nat /\ MaxPackets \in Nat
  /\ MaxQueries \in Nat /\ MaxForgets \in Nat /\ MaxFails \in Nat
  /\ "ip4" \in Addrs /\ "localhost" \in Addrs
  /\ \A n \in Names : Room(Servers(n))
  /\ \A a \in Addrs, n \in Names, type \in RRTypes : Packets(a, n, type) \subseteq PacketType
BY QueryAssumption DEF Room

LEMMA SomeLevels == 0 \in Levels /\ \A l \in Levels : l \in Nat /\ l < QUERY_MAXLEVEL
BY Constants DEF Levels

LEMMA LevelBelow == ASSUME NEW l \in Levels, l > 0 PROVE l - 1 \in Levels
BY Constants DEF Levels

LEMMA MinIsLeast ==
  ASSUME NEW S \in SUBSET Nat, S # {} PROVE Min(S) \in S /\ \A n \in S : Min(S) <= n
<1>1. PICK R : IsWellFoundedOn(R, Nat) /\ R = {ss \in Nat \X Nat : ss[1] < ss[2]}
  BY NatLessThanWellFounded DEF OpToRel
<1>2. PICK m \in S : \A n \in S : ~ (<<n, m>> \in R) BY <1>1, WFMin
<1>3. ASSUME NEW n \in S PROVE m <= n
  <2>1. <<n, m>> \in Nat \X Nat /\ <<n, m>>[1] = n /\ <<n, m>>[2] = m OBVIOUS
  <2>2. ~ (n < m) BY <1>1, <1>2, <2>1
  <2> QED BY <2>2
<1> QED BY <1>3 DEF Min

LEMMA MaxIsGreatest ==
  ASSUME NEW n \in Nat, NEW S \in SUBSET (1 .. n), S # {}
  PROVE  Max(S) \in S /\ \A i \in S : i <= Max(S)
<1>1. PICK T : T = {n - i : i \in S} OBVIOUS
<1>2. T \in SUBSET Nat /\ T # {}
  <2>1. \A i \in S : n - i \in Nat OBVIOUS
  <2>2. PICK i \in S : TRUE OBVIOUS
  <2>3. n - i \in T BY <1>1
  <2> QED BY <1>1, <2>1, <2>3
<1>3. Min(T) \in T /\ \A k \in T : Min(T) <= k BY <1>2, MinIsLeast
<1>4. PICK m \in S : Min(T) = n - m BY <1>1, <1>3
<1>5. \A i \in S : n - i \in T BY <1>1
<1>6. \A i \in S : i <= m BY <1>3, <1>4, <1>5
<1> QED BY <1>6 DEF Max

(* A set has subsets of all sizes up to its own.                             *)
LEMMA SubsetOfSize ==
  ASSUME NEW S, IsFiniteSet(S), NEW n \in Nat, n <= Cardinality(S)
  PROVE  \E part \in SUBSET S : Cardinality(part) = n
<1>1. PICK f \in Bijection(1 .. Cardinality(S), S) : TRUE
  BY FS_CardinalityType DEF ExistsBijection
<1>2. Cardinality(S) \in Nat BY FS_CardinalityType
<1>3. PICK part : part = {f[i] : i \in 1 .. n} OBVIOUS
<1>4. 1 .. n \subseteq 1 .. Cardinality(S) BY <1>2
<1>5. f \in [1 .. Cardinality(S) -> S] /\ \A i, j \in 1 .. Cardinality(S) : f[i] = f[j] => i = j
  BY <1>1 DEF Bijection, Injection, IsInjective
<1>6. part \in SUBSET S BY <1>3, <1>4, <1>5
<1>7. PICK g : g = [i \in 1 .. n |-> f[i]] OBVIOUS
<1>8. g \in [1 .. n -> part] /\ \A t \in part : \E i \in 1 .. n : g[i] = t BY <1>3, <1>7
<1>9. \A i, j \in 1 .. n : g[i] = g[j] => i = j BY <1>4, <1>5, <1>7
<1>10. g \in Bijection(1 .. n, part)
  BY <1>8, <1>9 DEF Bijection, Injection, Surjection, IsInjective
<1>11. IsFiniteSet(1 .. n) /\ Cardinality(1 .. n) = n BY FS_Interval
<1>12. Cardinality(part) = Cardinality(1 .. n)
  BY <1>10, <1>11, FS_Bijection DEF ExistsBijection
<1> QED BY <1>6, <1>11, <1>12

(* The data of some records are a finite set.                                *)
LEMMA ImageIsFinite ==
  ASSUME NEW S, IsFiniteSet(S), NEW f, NEW T, T = {f[x] : x \in S} PROVE IsFiniteSet(T)
<1>1. PICK g : g = [x \in S |-> f[x]] OBVIOUS
<1>2. g \in Surjection(S, T) BY <1>1 DEF Surjection
<1> QED BY <1>2, FS_Surjection

(* Addresses are added while there is room.                                  *)
LEMMA AddKeepsRoom ==
  ASSUME NEW old, NEW new, Room(old), new \subseteq Addrs, IsFiniteSet(new)
  PROVE  Room(Add(old, new))
<1>1. PICK more : more = new \ old OBVIOUS
<1>2. PICK room : room = QUERY_MAXNS_ADDR - Cardinality(old) OBVIOUS
<1>3. IsFiniteSet(more) /\ more \subseteq Addrs /\ more \cap old = {}
  BY <1>1, FS_Difference
<1>4. Cardinality(old) \in Nat /\ Cardinality(more) \in Nat BY <1>3, FS_CardinalityType DEF Room
<1>5. room \in Nat BY <1>2, <1>4, Constants DEF Room
<1>6. ASSUME NEW part \in SUBSET more, Cardinality(part) <= room PROVE Room(old \cup part)
  <2>1. IsFiniteSet(part) BY <1>3, FS_Subset
  <2>2. old \cap part = {} BY <1>3
  <2>3. Cardinality(old \cap part) = 0 BY <2>2, FS_EmptySet
  <2>4. IsFiniteSet(old \cup part) /\
        Cardinality(old \cup part) = Cardinality(old) + Cardinality(part) - Cardinality(old \cap part)
    BY <2>1, FS_Union DEF Room
  <2>5. Cardinality(part) \in Nat BY <2>1, FS_CardinalityType
  <2>6. Cardinality(old \cup part) <= QUERY_MAXNS_ADDR
    BY <1>2, <1>4, <1>6, <2>3, <2>4, <2>5, Constants
  <2>7. old \cup part \in SUBSET Addrs BY <1>3 DEF Room
  <2> QED BY <2>4, <2>6, <2>7 DEF Room
<1>7. CASE Cardinality(more) <= room
  <2>1. Add(old, new) = old \cup more BY <1>1, <1>2, <1>7 DEF Add
  <2> QED BY <1>6, <1>7, <2>1
<1>8. CASE ~(Cardinality(more) <= room)
  <2>1. Add(old, new) = old \cup (CHOOSE part \in SUBSET more : Cardinality(part) = room)
    BY <1>1, <1>2, <1>8 DEF Add
  <2>2. \E part \in SUBSET more : Cardinality(part) = room
    BY <1>3, <1>4, <1>5, <1>8, SubsetOfSize
  <2>3. PICK part : part = (CHOOSE p \in SUBSET more : Cardinality(p) = room) OBVIOUS
  <2>4. part \in SUBSET more /\ Cardinality(part) = room BY <2>2, <2>3
  <2> QED BY <1>5, <1>6, <2>1, <2>3, <2>4
<1> QED BY <1>7, <1>8

-----------------------------------------------------------------------------
(* Names and packets                                                         *)

LEMMA ClosestIsAbove ==
  ASSUME NEW n \in Names, NEW known
  PROVE  Closest(n, known) # None =>
           /\ Closest(n, known) \in Names /\ Closest(n, known) \in known
           /\ Suffix(n, Closest(n, known))
<1> DEFINE up == Ancestors[n]
<1>1. up \in Seq(Names) BY Constants
<1>2. DOMAIN up \subseteq Nat /\ \A i \in DOMAIN up : up[i] \in Names BY <1>1
<1>3. PICK on : on = {i \in DOMAIN up : up[i] \in known} OBVIOUS
<1>4. CASE on = {} BY <1>3, <1>4 DEF Closest
<1>5. CASE on # {}
  <2>1. Min(on) \in on BY <1>2, <1>3, <1>5, MinIsLeast
  <2>2. Closest(n, known) = up[Min(on)] BY <1>3, <1>5 DEF Closest
  <2> QED BY <1>2, <1>3, <2>1, <2>2 DEF Suffix, Range
<1> QED BY <1>4, <1>5

LEMMA RecordTyped ==
  ASSUME NEW rr \in Record
  PROVE  /\ rr.name \in Names /\ rr.type \in RRTypes
         /\ rr.type \in {"CNAME", "NS"} => rr.data \in Names
         /\ rr.type \in {"A", "AAAA"} => rr.data \in Addrs
BY DEF Record

LEMMA PacketTyped ==
  ASSUME NEW p \in PacketType
  PROVE  /\ p.rcode \in {0, 3}
         /\ p.answer \in Seq(Record) /\ p.authority \in Seq(Record) /\ p.glue \in Seq(Record)
BY DEF PacketType

LEMMA NoPacketTyped == NoPacket \in PacketType
<1>1. <<>> \in Seq(Record) OBVIOUS
<1> QED BY <1>1 DEF NoPacket, PacketType

LEMMA ReferralTyped == ASSUME NEW p \in PacketType PROVE Referral(p) \in Names \cup {None}
<1>1. p.authority \in Seq(Record) BY PacketTyped
<1>2. Len(p.authority) \in Nat /\ DOMAIN p.authority = 1 .. Len(p.authority) BY <1>1
<1>3. CASE NsRecords(p) = {} BY <1>3 DEF Referral
<1>4. CASE NsRecords(p) # {}
  <2>1. Max(NsRecords(p)) \in NsRecords(p)
    <3>1. NsRecords(p) \in SUBSET (1 .. Len(p.authority)) BY <1>2 DEF NsRecords
    <3> QED BY <1>2, <1>4, <3>1, MaxIsGreatest
  <2>2. Max(NsRecords(p)) \in 1 .. Len(p.authority) BY <1>2, <2>1 DEF NsRecords
  <2>3. p.authority[Max(NsRecords(p))] \in Record BY <1>1, <2>2, ElementOfSeq
  <2> QED BY <1>4, <2>3, RecordTyped DEF Referral
<1> QED BY <1>3, <1>4

LEMMA SomeRecord ==
  ASSUME NEW rs \in Seq(Record), NEW i \in DOMAIN rs PROVE rs[i] \in Record
<1>1. i \in 1 .. Len(rs) OBVIOUS
<1> QED BY <1>1, ElementOfSeq

(* Any set of numbers has an enumeration in order.                           *)
LEMMA PlacesInOrder ==
  ASSUME NEW n \in Nat, NEW is \in SUBSET (1 .. n)
  PROVE  Places(is) \in [1 .. Cardinality(is) -> is]
<1> DEFINE Increasing(f) == \A a, b \in DOMAIN f : a < b => f[a] < f[b]
<1> DEFINE Ordered(S) == \E f \in [1 .. Cardinality(S) -> S] : Increasing(f)
<1>1. PICK bad : bad = {k \in Nat : \E S \in SUBSET (1 .. k) : ~Ordered(S)} OBVIOUS
<1>2. bad = {}
  <2> SUFFICES ASSUME bad # {} PROVE FALSE OBVIOUS
  <2>1. PICK k \in bad : \A m \in bad : k <= m
    <3>1. bad \in SUBSET Nat BY <1>1
    <3> QED BY <3>1, MinIsLeast
  <2>2. k \in Nat BY <1>1
  <2>3. PICK S \in SUBSET (1 .. k) : ~Ordered(S) BY <1>1
  <2>4. IsFiniteSet(S) /\ Cardinality(S) \in Nat
    <3>1. IsFiniteSet(1 .. k) BY <2>2, FS_Interval
    <3> QED BY <3>1, FS_Subset, FS_CardinalityType
  <2>5. CASE S = {}
    <3>1. Cardinality(S) = 0 BY <2>5, FS_EmptySet
    <3>2. PICK f : f = [a \in 1 .. Cardinality(S) |-> 0] OBVIOUS
    <3>3. f \in [1 .. Cardinality(S) -> S] /\ DOMAIN f = {} BY <3>1, <3>2
    <3>4. Increasing(f) BY <3>3
    <3> QED BY <2>3, <3>3, <3>4
  <2>6. CASE S # {}
    <3>1. Max(S) \in S /\ \A i \in S : i <= Max(S) BY <2>2, <2>6, MaxIsGreatest
    <3>2. PICK m : m = Max(S) OBVIOUS
    <3>3. PICK R : R = S \ {m} OBVIOUS
    <3>4. m \in 1 .. k /\ m - 1 \in Nat /\ m - 1 < k
      <4>1. m \in 1 .. k BY <3>1, <3>2
      <4> QED BY <2>2, <4>1
    <3>5. R \in SUBSET (1 .. m - 1) /\ \A i \in R : i < m
      <4>1. \A i \in R : i \in 1 .. k /\ i <= m /\ i # m BY <3>1, <3>2, <3>3
      <4> QED BY <3>4, <4>1
    <3>6. m - 1 \notin bad BY <2>1, <2>2, <3>4
    <3>7. Ordered(R) BY <1>1, <3>4, <3>5, <3>6
    <3>8. PICK g \in [1 .. Cardinality(R) -> R] : Increasing(g) BY <3>7
    <3>9. Cardinality(R) \in Nat /\ Cardinality(S) = Cardinality(R) + 1
      <4>1. Cardinality(R) = Cardinality(S) - 1 BY <2>4, <3>1, <3>2, <3>3, FS_RemoveElement
      <4>2. IsFiniteSet(R) BY <2>4, <3>3, FS_Difference
      <4> QED BY <2>4, <4>1, <4>2, FS_CardinalityType
    <3>10. PICK c \in Nat : c = Cardinality(R) BY <3>9
    <3>11. PICK f : f = [a \in 1 .. c + 1 |-> IF a = c + 1 THEN m ELSE g[a]] OBVIOUS
    <3>12. f \in [1 .. Cardinality(S) -> S]
      <4>1. \A a \in 1 .. c + 1 : a # c + 1 => a \in 1 .. c BY <3>10
      <4>2. \A a \in 1 .. c : g[a] \in S BY <3>3, <3>8, <3>10
      <4>3. m \in S BY <3>1, <3>2
      <4> QED BY <3>9, <3>10, <3>11, <4>1, <4>2, <4>3
    <3>13. ASSUME NEW a \in DOMAIN f, NEW b \in DOMAIN f, a < b PROVE f[a] < f[b]
      <4>1. a \in 1 .. c /\ b \in 1 .. c + 1 BY <3>10, <3>11, <3>13
      <4>2. f[a] = g[a] /\ g[a] \in R BY <3>8, <3>10, <3>11, <4>1
      <4>3. CASE b = c + 1 BY <3>5, <3>11, <4>2, <4>3
      <4>4. CASE b # c + 1
        <5>1. b \in 1 .. c /\ f[b] = g[b] BY <3>10, <3>11, <4>1, <4>4
        <5>2. DOMAIN g = 1 .. c BY <3>8, <3>10
        <5> QED BY <3>8, <3>13, <4>1, <4>2, <5>1, <5>2
      <4> QED BY <4>3, <4>4
    <3> QED BY <2>3, <3>12, <3>13
  <2> QED BY <2>5, <2>6
<1>3. Ordered(is) BY <1>1, <1>2
<1> QED BY <1>3 DEF Places

LEMMA NsNamesTyped ==
  ASSUME NEW p \in PacketType, NEW referral
  PROVE  NsNames(p, referral) \in Seq(Names) /\ Len(NsNames(p, referral)) <= QUERY_MAXNS
<1>1. p.authority \in Seq(Record) BY PacketTyped
<1>2. PICK n \in Nat : n = Len(p.authority) BY <1>1
<1>3. PICK is : is = {i \in NsRecords(p) : p.authority[i].name = referral} OBVIOUS
<1>4. is \in SUBSET (1 .. n) /\ \A i \in is : i \in DOMAIN p.authority /\ p.authority[i].type = "NS"
  BY <1>1, <1>2, <1>3 DEF NsRecords
<1>5. Cardinality(is) \in Nat
  <2>1. IsFiniteSet(1 .. n) BY FS_Interval
  <2> QED BY <1>4, <2>1, FS_Subset, FS_CardinalityType
<1>6. PICK m : m = Min({Cardinality(is), QUERY_MAXNS}) OBVIOUS
<1>7. m \in Nat /\ m <= Cardinality(is) /\ m <= QUERY_MAXNS
  <2>1. {Cardinality(is), QUERY_MAXNS} \in SUBSET Nat BY <1>5, Constants
  <2> QED BY <1>6, <2>1, MinIsLeast
<1>8. Places(is) \in [1 .. Cardinality(is) -> is] BY <1>4, PlacesInOrder
<1>9. \A k \in 1 .. m : p.authority[Places(is)[k]].data \in Names
  <2> SUFFICES ASSUME NEW k \in 1 .. m PROVE p.authority[Places(is)[k]].data \in Names OBVIOUS
  <2>1. Places(is)[k] \in is BY <1>5, <1>7, <1>8
  <2>2. p.authority[Places(is)[k]] \in Record /\ p.authority[Places(is)[k]].type = "NS"
    BY <1>1, <1>4, <2>1, SomeRecord
  <2> QED BY <2>2, RecordTyped
<1>10. PICK ns : ns = [k \in 1 .. m |-> p.authority[Places(is)[k]].data] OBVIOUS
<1>11. ns \in [1 .. m -> Names] BY <1>9, <1>10
<1>12. ns \in Seq(Names) /\ Len(ns) = m BY <1>7, <1>11
<1>13. NsNames(p, referral) = ns BY <1>3, <1>6, <1>10 DEF NsNames
<1> QED BY <1>7, <1>12, <1>13

LEMMA AnswerDataAreAddresses ==
  ASSUME NEW p \in PacketType, NEW d
  PROVE  AnswerData(p, d, {"A", "AAAA"}) \subseteq Addrs /\ IsFiniteSet(AnswerData(p, d, {"A", "AAAA"}))
<1>1. p.answer \in Seq(Record) BY PacketTyped
<1>2. PICK S : S = {i \in 1 .. Len(p.answer) :
                      p.answer[i].name = d /\ p.answer[i].type \in {"A", "AAAA"}} OBVIOUS
<1>3. IsFiniteSet(S)
  <2>1. IsFiniteSet(1 .. Len(p.answer)) BY <1>1, FS_Interval
  <2> QED BY <1>2, <2>1, FS_Subset
<1>4. PICK f : f = [i \in S |-> p.answer[i].data] OBVIOUS
<1>5. AnswerData(p, d, {"A", "AAAA"}) = {f[i] : i \in S} BY <1>2, <1>4 DEF AnswerData
<1>6. \A i \in S : f[i] \in Addrs
  <2> SUFFICES ASSUME NEW i \in S PROVE f[i] \in Addrs OBVIOUS
  <2>1. p.answer[i] \in Record /\ p.answer[i].type \in {"A", "AAAA"} BY <1>1, <1>2, SomeRecord
  <2> QED BY <1>4, <2>1, RecordTyped
<1> QED BY <1>3, <1>5, <1>6, ImageIsFinite

-----------------------------------------------------------------------------
(* The cache                                                                 *)

LEMMA CachedTyped ==
  ASSUME CacheOK(cache), NEW d
  PROVE  /\ Cached("NS", d) = {}
         /\ Cached("CNAME", d) \subseteq Names
         /\ Glue(d) \subseteq Addrs /\ IsFiniteSet(Glue(d))
<1>1. \A type : Has(type, d) => SetOK(type, cache[<<type, d>>])
  <2> SUFFICES ASSUME NEW type, Has(type, d) PROVE SetOK(type, cache[<<type, d>>]) OBVIOUS
  <2>1. <<type, d>> \in DOMAIN cache /\ <<type, d>>[1] = type BY DEF Has
  <2> QED BY <2>1 DEF CacheOK
<1>2. \A type : SetOK(type, Cached(type, d))
  <2>1. \A type : SetOK(type, {}) BY FS_EmptySet DEF SetOK
  <2> QED BY <1>1, <2>1 DEF Cached
<1>3. SetOK("NS", Cached("NS", d)) /\ SetOK("CNAME", Cached("CNAME", d))
      /\ SetOK("A", Cached("A", d)) /\ SetOK("AAAA", Cached("AAAA", d)) BY <1>2
<1> QED BY <1>3, FS_Union DEF Glue, SetOK

LEMMA StoredOK == ASSUME CacheOK(cache), NEW new, CacheOK(new) PROVE CacheOK(Stored(new))
BY DEF CacheOK, Stored

LEMMA NegativeOK ==
  ASSUME NEW p \in PacketType, NEW d \in Names, NEW type \in RRTypes, NEW empty
  PROVE  CacheOK(Negative(p, d, type, empty))
<1>1. ASSUME NEW keys \in SUBSET (RRTypes \X Names) PROVE CacheOK([k \in keys |-> {}])
  <2>1. \A t : SetOK(t, {}) BY FS_EmptySet DEF SetOK
  <2> QED BY <2>1 DEF CacheOK
<1>2. <<"ANY", d>> \in RRTypes \X Names /\ <<type, d>> \in RRTypes \X Names BY DEF RRTypes
<1> QED BY <1>1, <1>2 DEF Negative

LEMMA SavedOK == ASSUME NEW p \in PacketType, NEW control PROVE CacheOK(Saved(p, control))
<1>1. PICK all : all = p.answer \o p.authority \o p.glue OBVIOUS
<1>2. all \in Seq(Record) BY <1>1, PacketTyped
<1>3. PICK n \in Nat : n = Len(all) /\ DOMAIN all = 1 .. n BY <1>2
<1>4. PICK key : key = [i \in 1 .. n |-> <<all[i].type, all[i].name>>] OBVIOUS
<1>5. PICK kept : kept = {i \in DOMAIN all : /\ Bailiwick(all[i].name, control)
                                             /\ all[i].type \notin {"ANY", "OPT", "NS"}
                                             /\ all[i].type = "SOA" => i <= Len(p.answer)}
  OBVIOUS
<1>6. PICK of : of = [k \in {key[i] : i \in kept} |-> {i \in kept : key[i] = k}] OBVIOUS
<1>7. kept \in SUBSET (1 .. n) BY <1>3, <1>5
<1>8. Saved(p, control) =
        [k \in {key[i] : i \in kept} |->
           IF k[1] = "CNAME" THEN {all[Max(of[k])].data} ELSE {all[i].data : i \in of[k]}]
  <2>1. \A i \in kept : key[i] = <<all[i].type, all[i].name>> BY <1>4, <1>7
  <2>2. {<<all[i].type, all[i].name>> : i \in kept} = {key[i] : i \in kept} BY <2>1
  <2>3. \A k \in {key[i] : i \in kept} : {i \in kept : <<all[i].type, all[i].name>> = k} = of[k]
    BY <1>6, <2>1
  <2>4. Saved(p, control) =
          [k \in {<<all[i].type, all[i].name>> : i \in kept} |->
             IF k[1] = "CNAME" THEN {all[Max({i \in kept : <<all[i].type, all[i].name>> = k})].data}
             ELSE {all[i].data : i \in {i \in kept : <<all[i].type, all[i].name>> = k}}]
    BY <1>1, <1>5 DEF Saved
  <2> QED BY <2>2, <2>3, <2>4
<1>9. DOMAIN Saved(p, control) = {key[i] : i \in kept} BY <1>8
<1>10. ASSUME NEW i \in kept
       PROVE  key[i] \in RRTypes \X Names /\ SetOK(key[i][1], Saved(p, control)[key[i]])
  <2>1. PICK k : k = key[i] OBVIOUS
  <2>2. k = <<all[i].type, all[i].name>> BY <1>4, <1>7, <2>1
  <2>3. all[i] \in Record BY <1>2, <1>5, SomeRecord
  <2>4. k \in RRTypes \X Names /\ k[1] = all[i].type BY <2>2, <2>3, RecordTyped
  <2>5. k[1] # "NS" BY <1>5, <2>4
  <2>6. i \in of[k] /\ of[k] \in SUBSET kept /\ \A h \in of[k] : key[h] = k BY <1>6, <2>1
  <2>7. \A h \in of[k] : all[h] \in Record /\ all[h].type = k[1]
    <3> SUFFICES ASSUME NEW h \in of[k] PROVE all[h] \in Record /\ all[h].type = k[1] OBVIOUS
    <3>1. h \in 1 .. n /\ h \in DOMAIN all BY <1>3, <1>7, <2>6
    <3>2. k = <<all[h].type, all[h].name>> BY <1>4, <2>6, <3>1
    <3> QED BY <1>2, <3>1, <3>2, SomeRecord
  <2>8. CASE k[1] = "CNAME"
    <3>1. Max(of[k]) \in of[k] BY <1>7, <2>6, MaxIsGreatest
    <3>2. Saved(p, control)[k] = {all[Max(of[k])].data} BY <1>8, <2>1, <2>8
    <3>3. all[Max(of[k])].data \in Names BY <2>7, <2>8, <3>1, RecordTyped
    <3> QED BY <2>1, <2>4, <2>8, <3>2, <3>3, FS_Singleton DEF SetOK
  <2>9. CASE k[1] # "CNAME"
    <3>1. PICK f : f = [h \in of[k] |-> all[h].data] OBVIOUS
    <3>2. Saved(p, control)[k] = {all[h].data : h \in of[k]} BY <1>8, <2>1, <2>9
    <3>3. Saved(p, control)[k] = {f[h] : h \in of[k]} BY <3>1, <3>2
    <3>4. IsFiniteSet(of[k])
      <4>1. IsFiniteSet(1 .. n) BY FS_Interval
      <4>2. of[k] \in SUBSET (1 .. n) BY <1>7, <2>6
      <4> QED BY <4>1, <4>2, FS_Subset
    <3>5. IsFiniteSet(Saved(p, control)[k]) BY <3>3, <3>4, ImageIsFinite
    <3>6. k[1] \in {"A", "AAAA"} => Saved(p, control)[k] \subseteq Addrs
      BY <2>7, <3>2, RecordTyped
    <3> QED BY <2>1, <2>4, <2>5, <2>9, <3>5, <3>6 DEF SetOK
  <2> QED BY <2>8, <2>9
<1> QED BY <1>9, <1>10 DEF CacheOK

-----------------------------------------------------------------------------
(* One struct query                                                          *)

LEMMA ValidTyped ==
  ASSUME NEW s, Valid(s)
  PROVE  /\ s.loop \in Nat /\ s.level \in Levels /\ s.type \in RRTypes /\ s.packet \in PacketType
         /\ s.j \in Nat /\ s.alias \in Seq(Names) /\ s.any \in BOOLEAN /\ s.flagempty \in BOOLEAN
         /\ s.name \in [Levels -> Names \cup {None}] /\ s.control \in [Levels -> Names \cup {None}]
         /\ s.ns \in [Levels -> Seq(Names)] /\ s.addrs \in [Levels -> SUBSET Addrs]
         /\ Name(s) \in Names /\ Type(s) \in RRTypes
<1>1. s \in QueryType BY DEF Valid
<1>2. /\ s.loop \in Nat /\ s.level \in Levels /\ s.type \in RRTypes /\ s.packet \in PacketType
      /\ s.j \in Nat /\ s.alias \in Seq(Names) /\ s.any \in BOOLEAN /\ s.flagempty \in BOOLEAN
      /\ s.name \in [Levels -> Names \cup {None}] /\ s.control \in [Levels -> Names \cup {None}]
      /\ s.ns \in [Levels -> Seq(Names)] /\ s.addrs \in [Levels -> SUBSET Addrs]
  BY <1>1 DEF QueryType
<1>3. Name(s) \in Names
  <2>1. s.level <= s.level BY <1>2, SomeLevels
  <2>2. s.name[s.level] # None BY <1>2, <2>1 DEF Valid, Stack
  <2> QED BY <1>2, <2>2 DEF Name
<1>4. Type(s) \in RRTypes BY <1>2 DEF Type, RRTypes
<1> QED BY <1>2, <1>3, <1>4

LEMMA NoAddresses == Room({})
BY FS_EmptySet, Constants DEF Room

LEMMA IdleTyped == Idle \in QueryType /\ Idle.pc = "idle"
<1>1. \A l \in Levels : <<>> \in Seq(Names) OBVIOUS
<1>2. [l \in Levels |-> <<>>] \in [Levels -> Seq(Names)] BY <1>1
<1>3. [l \in Levels |-> {}] \in [Levels -> SUBSET Addrs] OBVIOUS
<1>4. [l \in Levels |-> None] \in [Levels -> Names \cup {None}] OBVIOUS
<1>5. <<>> \in Seq(Names) /\ 0 \in Levels /\ "A" \in RRTypes BY SomeLevels DEF RRTypes
<1> QED BY <1>2, <1>3, <1>4, <1>5, NoPacketTyped DEF Idle, QueryType, Pcs

(* Fields that no invariant speaks of may change.                            *)
LEMMA SameTables ==
  ASSUME NEW s, NEW t \in QueryType, Valid(s),
         t.level = s.level, t.name = s.name, t.control = s.control, t.ns = s.ns, t.addrs = s.addrs,
         t.alias = s.alias
  PROVE  Valid(t) /\ \A pc \in Pcs \ {"follow"} : Place(s, pc) => Place(t, pc)
BY DEF Valid, Held, Stack, Place, InCharge

LEMMA PcSet ==
  ASSUME NEW s, NEW pc \in Pcs, NEW x, Valid(s), Place(s, x)
  PROVE  /\ Valid([s EXCEPT !.pc = pc]) /\ Place([s EXCEPT !.pc = pc], x)
         /\ [s EXCEPT !.pc = pc].pc = pc
<1>1. s \in QueryType BY DEF Valid
<1>2. PICK t : t = [s EXCEPT !.pc = pc] OBVIOUS
<1>3. t \in QueryType /\ t.pc = pc BY <1>1, <1>2 DEF QueryType
<1>4. /\ t.level = s.level /\ t.name = s.name /\ t.control = s.control /\ t.ns = s.ns
      /\ t.addrs = s.addrs /\ t.alias = s.alias /\ t.j = s.j
  BY <1>1, <1>2 DEF QueryType
<1>5. Valid(t) BY <1>3, <1>4, SameTables
<1>6. Place(t, x) BY <1>4 DEF Place, InCharge
<1> QED BY <1>2, <1>3, <1>5, <1>6

LEMMA ReadValid ==
  ASSUME NEW s, Valid(s)
  PROVE  /\ Valid(Read(s)) /\ Read(s).ns = s.ns /\ Read(s).level = s.level
         /\ Read(s).control = s.control /\ Read(s).name = s.name /\ Read(s).type = s.type
<1>1. s \in QueryType BY DEF Valid
<1>2. PICK t : t = Read(s) OBVIOUS
<1>3. t \in QueryType BY <1>1, <1>2, NoPacketTyped DEF QueryType, Read
<1>4. /\ t.level = s.level /\ t.name = s.name /\ t.control = s.control /\ t.ns = s.ns
      /\ t.addrs = s.addrs /\ t.alias = s.alias /\ t.type = s.type
  BY <1>1, <1>2 DEF QueryType, Read
<1> QED BY <1>2, <1>3, <1>4, SameTables

(* Addresses come into a row of the table.                                   *)
Put(s, l, a) == [s EXCEPT !.addrs[l] = a]

LEMMA AddrsSet ==
  ASSUME NEW s, Valid(s), NEW l \in Levels, l <= s.level, NEW a, Room(a),
         NEW t, t = Put(s, l, a)
  PROVE  /\ Valid(t) /\ t.level = s.level /\ t.name = s.name /\ t.control = s.control /\ t.ns = s.ns
         /\ t.addrs[l] = a
<1>1. s \in QueryType BY DEF Valid
<1>2. t \in QueryType
  <2>1. [s.addrs EXCEPT ![l] = a] \in [Levels -> SUBSET Addrs] BY <1>1 DEF QueryType, Room
  <2> QED BY <1>1, <2>1 DEF QueryType, Put
<1>3. /\ t.level = s.level /\ t.name = s.name /\ t.control = s.control /\ t.ns = s.ns
      /\ t.addrs = [s.addrs EXCEPT ![l] = a] /\ t.alias = s.alias
  BY <1>1 DEF QueryType, Put
<1>4. t.addrs[l] = a /\ \A k \in Levels : k # l => t.addrs[k] = s.addrs[k]
  BY <1>1, <1>3 DEF QueryType
<1>5. s.level \in Levels BY <1>1 DEF QueryType
<1>6. Held(t) BY <1>3, <1>4 DEF Held, Valid
<1>7. Stack(t) BY <1>3, <1>4, <1>5, SomeLevels DEF Stack, Valid, InCharge
<1> QED BY <1>2, <1>3, <1>4, <1>6, <1>7 DEF Valid

(* LOWERLEVEL: what the level held goes.                                     *)
LEMMA PoppedValid ==
  ASSUME NEW s, Valid(s), s.level > 0
  PROVE  /\ Valid(Popped(s)) /\ Popped(s).level = s.level - 1
         /\ InCharge(Popped(s), s.level - 1)
<1>1. s \in QueryType BY DEF Valid
<1>2. PICK l : l = s.level OBVIOUS
<1>3. l \in Levels /\ l - 1 \in Levels /\ l \in Nat /\ s.level = l
  BY <1>1, <1>2, LevelBelow, SomeLevels DEF QueryType
<1>4. PICK t : t = Popped(s) OBVIOUS
<1>5. PICK name : name = [s.name EXCEPT ![l] = None] OBVIOUS
<1>6. PICK ns : ns = [s.ns EXCEPT ![l] = <<>>] OBVIOUS
<1>7. PICK addrs : addrs = [s.addrs EXCEPT ![l] = {}] OBVIOUS
<1>8. name \in [Levels -> Names \cup {None}] /\ ns \in [Levels -> Seq(Names)]
      /\ addrs \in [Levels -> SUBSET Addrs]
  <2>1. <<>> \in Seq(Names) OBVIOUS
  <2> QED BY <1>1, <1>5, <1>6, <1>7, <2>1 DEF QueryType
<1>9. t = [s EXCEPT !.name = name, !.ns = ns, !.addrs = addrs, !.level = l - 1]
  BY <1>1, <1>2, <1>4, <1>5, <1>6, <1>7 DEF Popped, QueryType
<1>10. t \in QueryType BY <1>1, <1>3, <1>8, <1>9 DEF QueryType
<1>11. /\ t.level = l - 1 /\ t.name = name /\ t.control = s.control /\ t.ns = ns
       /\ t.addrs = addrs /\ t.alias = s.alias
  BY <1>1, <1>9 DEF QueryType
<1>12. /\ name[l] = None /\ ns[l] = <<>> /\ addrs[l] = {}
       /\ \A k \in Levels : k # l => name[k] = s.name[k] /\ ns[k] = s.ns[k] /\ addrs[k] = s.addrs[k]
  BY <1>1, <1>3, <1>5, <1>6, <1>7 DEF QueryType
<1>13. Held(t)
  <2>1. Len(t.alias) <= QUERY_MAXALIAS BY <1>11 DEF Held, Valid
  <2>2. ASSUME NEW k \in Levels PROVE Len(t.ns[k]) <= QUERY_MAXNS /\ Room(t.addrs[k])
    <3>1. CASE k = l
      <4>1. t.ns[k] = <<>> /\ t.addrs[k] = {} BY <1>11, <1>12, <3>1
      <4>2. Len(<<>>) = 0 /\ 0 <= QUERY_MAXNS BY Constants
      <4> QED BY <4>1, <4>2, NoAddresses
    <3>2. CASE k # l BY <1>11, <1>12, <3>2 DEF Held, Valid
    <3> QED BY <3>1, <3>2
  <2> QED BY <2>1, <2>2 DEF Held
<1>14. Stack(s) BY DEF Valid
<1>15. Stack(t) BY <1>3, <1>11, <1>12, <1>14, SomeLevels DEF Stack, InCharge
<1>16. InCharge(t, l - 1) BY <1>3, <1>11, <1>12, <1>14 DEF Stack, InCharge
<1> QED BY <1>3, <1>4, <1>10, <1>11, <1>13, <1>15, <1>16 DEF Valid

-----------------------------------------------------------------------------
(* Steps of a query                                                          *)

LEMMA ClientValid ==
  ASSUME IInv, NEW q \in Clients, z[q].pc # "idle" PROVE Valid(z[q]) /\ Place(z[q], z[q].pc)
BY DEF IInv, QueryOK

(* A query that is alone in running takes a step.                            *)
LEMMA Moved ==
  ASSUME IInv, NEW q \in Clients, running \in {q, None}, NEW t, z' = [z EXCEPT ![q] = t],
         t = Idle \/ (t.pc # "idle" /\ QueryOK(t)),
         running' = (IF t.pc \in {"idle", "wait"} THEN None ELSE q),
         CacheOK(cache'), Counters', out'.rcode \in {-1, 0, 2, 3}
  PROVE  IInv'
<1>1. t \in QueryType BY IdleTyped DEF QueryOK, Valid
<1>2. z \in [Clients -> QueryType] BY DEF IInv
<1>3. z' \in [Clients -> QueryType] /\ z'[q] = t BY <1>1, <1>2
<1>4. \A p \in Clients : p # q => z'[p] = z[p] BY <1>2
<1>5. None \notin Clients BY Constants
<1>6. running' \in Clients \cup {None} OBVIOUS
<1>7. ASSUME NEW p \in Clients
      PROVE  /\ IF z'[p].pc = "idle" THEN z'[p] = Idle ELSE QueryOK(z'[p])
             /\ running' = p <=> z'[p].pc \notin {"idle", "wait"}
  <2>1. CASE p = q BY <1>3, <1>5, <2>1, IdleTyped
  <2>2. CASE p # q
    <3>1. running # p BY <1>5, <2>2
    <3>2. z[p].pc \in {"idle", "wait"} BY <3>1 DEF IInv
    <3>3. running' # p BY <1>5, <2>2
    <3> QED BY <1>4, <2>2, <3>2, <3>3 DEF IInv
  <2> QED BY <2>1, <2>2
<1>8. \A p \in Clients : /\ IF z'[p].pc = "idle" THEN z'[p] = Idle ELSE QueryOK(z'[p])
                         /\ running' = p <=> z'[p].pc \notin {"idle", "wait"}
  BY <1>7
<1>9. CacheOK(cache)' OBVIOUS
<1>10. (\A p \in Clients : /\ IF z[p].pc = "idle" THEN z[p] = Idle ELSE QueryOK(z[p])
                           /\ running = p <=> z[p].pc \notin {"idle", "wait"})'
  BY <1>8
<1> QED BY <1>3, <1>6, <1>9, <1>10 DEF IInv

LEMMA CountersKept == ASSUME Counters, UNCHANGED <<asked, forgets, fails>> PROVE Counters'
BY DEF Counters

LEMMA GotoKeeps ==
  ASSUME IInv, NEW q \in Clients, running = q, NEW s, NEW pc \in Pcs \ {"idle", "wait"},
         Valid(s), Place(s, pc), Goto(q, s, pc),
         CacheOK(cache'), UNCHANGED <<asked, forgets, fails>>
  PROVE  IInv'
<1>1. PICK t : t = [s EXCEPT !.pc = pc] OBVIOUS
<1>2. Valid(t) /\ Place(t, pc) /\ t.pc = pc BY <1>1, PcSet
<1>3. z' = [z EXCEPT ![q] = t] /\ running' = q /\ out' = out BY <1>1 DEF Goto
<1>4. QueryOK(t) /\ t.pc # "idle" BY <1>2 DEF QueryOK
<1>5. Counters' BY CountersKept DEF IInv
<1>6. out'.rcode \in {-1, 0, 2, 3} BY <1>3 DEF IInv
<1>7. running' = (IF t.pc \in {"idle", "wait"} THEN None ELSE q) BY <1>2, <1>3
<1> QED BY <1>3, <1>4, <1>5, <1>6, <1>7, Moved

LEMMA FinishKeeps ==
  ASSUME IInv, NEW q \in Clients, running \in {q, None}, NEW s, NEW rcode \in {-1, 0, 2, 3}, NEW data,
         Finish(q, s, rcode, data), CacheOK(cache'), Counters'
  PROVE  IInv'
<1>1. z' = [z EXCEPT ![q] = Idle] /\ running' = None /\ out'.rcode = rcode BY DEF Finish
<1>2. PICK t : t = Idle OBVIOUS
<1>3. running' = (IF t.pc \in {"idle", "wait"} THEN None ELSE q) BY <1>1, <1>2, IdleTyped
<1>4. z' = [z EXCEPT ![q] = t] BY <1>1, <1>2
<1>5. out'.rcode \in {-1, 0, 2, 3} BY <1>1
<1>6. t = Idle \/ (t.pc # "idle" /\ QueryOK(t)) BY <1>2
<1> QED BY <1>3, <1>4, <1>5, <1>6, Moved

LEMMA DieKeeps ==
  ASSUME IInv, NEW q \in Clients, running = q, NEW s, DIE(q, s),
         CacheOK(cache'), UNCHANGED <<asked, forgets, fails>>
  PROVE  IInv'
<1>1. Counters' BY CountersKept DEF IInv
<1> QED BY <1>1, FinishKeeps DEF DIE

LEMMA LowerKeeps ==
  ASSUME IInv, NEW q \in Clients, running = q, NEW s, Valid(s), s.level > 0,
         NEW addrs \in SUBSET Addrs, IsFiniteSet(addrs), LOWERLEVEL(q, s, addrs),
         CacheOK(cache'), UNCHANGED <<asked, forgets, fails>>
  PROVE  IInv'
<1>1. s.level \in Levels BY ValidTyped
<1>2. PICK l \in Levels : l = s.level - 1 BY <1>1, LevelBelow
<1>3. PICK a : a = Add(s.addrs[l], addrs) OBVIOUS
<1>4. PICK t : t = Put(s, l, a) OBVIOUS
<1>5. Room(s.addrs[l]) BY DEF Valid, Held
<1>6. Room(a) BY <1>3, <1>5, AddKeepsRoom
<1>7. l <= s.level
  <2>1. l \in Nat /\ s.level \in Nat BY <1>1, SomeLevels
  <2> QED BY <1>2, <2>1
<1>8. Valid(t) /\ t.level = s.level BY <1>4, <1>6, <1>7, AddrsSet
<1>9. PICK r : r = Popped(t) OBVIOUS
<1>10. Valid(r) /\ r.level = l /\ InCharge(r, l) BY <1>2, <1>8, <1>9, PoppedValid
<1>11. Place(r, "havens") BY <1>10 DEF Place
<1>12. Goto(q, r, "havens") BY <1>2, <1>3, <1>4, <1>9 DEF LOWERLEVEL, Put
<1> QED BY <1>10, <1>11, <1>12, GotoKeeps DEF Pcs

LEMMA ServfailKeeps ==
  ASSUME IInv, NEW q \in Clients, running = q, NEW s, Valid(s),
         SERVFAIL(q, s) \/ NXDOMAIN(q, s),
         CacheOK(cache'), UNCHANGED <<asked, forgets, fails>>
  PROVE  IInv'
<1>1. CASE s.level > 0
  <2>1. LOWERLEVEL(q, s, {}) BY <1>1 DEF SERVFAIL, NXDOMAIN
  <2> QED BY <1>1, <2>1, LowerKeeps, FS_EmptySet
<1>2. CASE ~(s.level > 0)
  <2>1. Finish(q, s, 2, {}) \/ Finish(q, s, 3, {}) BY <1>2 DEF SERVFAIL, NXDOMAIN
  <2>2. Counters' BY CountersKept DEF IInv
  <2> QED BY <2>1, <2>2, FinishKeeps
<1> QED BY <1>1, <1>2

LEMMA HavensKeeps ==
  ASSUME IInv, NEW q \in Clients, running = q, NEW s, Valid(s),
         s.ns[s.level] = <<>> \/ InCharge(s, s.level), HAVENS(q, s),
         CacheOK(cache'), UNCHANGED <<asked, forgets, fails>>
  PROVE  IInv'
<1>1. PICK l \in Levels : l = s.level BY ValidTyped
<1>2. PICK t : t = Put(s, l, {}) OBVIOUS
<1>3. l <= s.level
  <2>1. l \in Nat BY SomeLevels
  <2> QED BY <1>1, <2>1
<1>4. PICK a : a = {} OBVIOUS
<1>5. Room(a) /\ t = Put(s, l, a) BY <1>2, <1>4, NoAddresses
<1>6. /\ Valid(t) /\ t.level = l /\ t.name = s.name /\ t.control = s.control /\ t.ns = s.ns
      /\ t.addrs[l] = {}
  <2>1. /\ Valid(t) /\ t.level = s.level /\ t.name = s.name /\ t.control = s.control /\ t.ns = s.ns
        /\ t.addrs[l] = a
    BY <1>3, <1>5, AddrsSet
  <2> QED BY <1>1, <1>4, <2>1
<1>7. Place(t, "havens") BY <1>1, <1>6 DEF Place, InCharge
<1>8. Goto(q, t, "havens") BY <1>1, <1>2 DEF HAVENS, Put
<1> QED BY <1>6, <1>7, <1>8, GotoKeeps DEF Pcs

-----------------------------------------------------------------------------
(* The actions                                                               *)

(* What an action at a label of doit() finds.                                *)
LEMMA AtPlace ==
  ASSUME IInv, NEW q \in Clients, NEW pc \in Pcs \ {"idle"}, At(q, pc)
  PROVE  running = q /\ Valid(z[q]) /\ Place(z[q], pc) /\ CacheOK(cache)
BY ClientValid DEF At, IInv

LEMMA StartKeeps ==
  ASSUME IInv, NEW q \in Clients, NEW n \in Names, NEW type \in RRTypes, Start(q, n, type)
  PROVE  IInv'
<1>1. PICK t : t = [Idle EXCEPT !.pc = "newname", !.name[0] = n, !.type = type] OBVIOUS
<1>2. PICK name : name = [Idle.name EXCEPT ![0] = n] OBVIOUS
<1>3. Idle \in QueryType BY IdleTyped
<1>4. /\ Idle.level = 0 /\ Idle.alias = <<>>
      /\ Idle.name = [l \in Levels |-> None] /\ Idle.ns = [l \in Levels |-> <<>>]
      /\ Idle.addrs = [l \in Levels |-> {}]
  BY DEF Idle
<1>5. t = [Idle EXCEPT !.pc = "newname", !.name = name, !.type = type]
  BY <1>1, <1>2, <1>3 DEF QueryType
<1>6. name \in [Levels -> Names \cup {None}] /\ name[0] = n
      /\ \A l \in Levels : l # 0 => name[l] = None
  BY <1>2, <1>4, SomeLevels
<1>7. t \in QueryType BY <1>3, <1>5, <1>6 DEF QueryType, Pcs
<1>8. /\ t.pc = "newname" /\ t.level = 0 /\ t.name = name /\ t.ns = Idle.ns /\ t.addrs = Idle.addrs
      /\ t.alias = <<>>
  BY <1>3, <1>4, <1>5 DEF QueryType
<1>9. Held(t)
  <2>1. Len(<<>>) = 0 /\ 0 <= QUERY_MAXNS /\ 0 <= QUERY_MAXALIAS BY Constants
  <2>2. \A l \in Levels : t.ns[l] = <<>> /\ t.addrs[l] = {} BY <1>4, <1>8
  <2> QED BY <1>8, <2>1, <2>2, NoAddresses DEF Held
<1>10. Stack(t)
  <2>1. ASSUME NEW l \in Levels
        PROVE  IF l <= t.level THEN t.name[l] # None
               ELSE t.name[l] = None /\ t.ns[l] = <<>> /\ t.addrs[l] = {}
    <3>1. l \in Nat BY SomeLevels
    <3>2. CASE l = 0 BY <1>6, <1>8, <3>2, Constants
    <3>3. CASE l # 0 BY <1>4, <1>6, <1>8, <3>1, <3>3
    <3> QED BY <3>2, <3>3
  <2>2. \A l \in Levels : ~(l < t.level) BY <1>8, SomeLevels
  <2> QED BY <2>1, <2>2 DEF Stack
<1>11. QueryOK(t) /\ t.pc # "idle" BY <1>7, <1>8, <1>9, <1>10 DEF QueryOK, Valid, Place
<1>12. z' = [z EXCEPT ![q] = t] /\ running = None /\ running' = q /\ out' = out /\ cache' = cache
  BY <1>1 DEF Start
<1>13. Counters' BY Constants DEF Start, IInv, Counters
<1>14. running' = (IF t.pc \in {"idle", "wait"} THEN None ELSE q) BY <1>8, <1>12
<1>15. CacheOK(cache') /\ out'.rcode \in {-1, 0, 2, 3} BY <1>12 DEF IInv
<1> QED BY <1>11, <1>12, <1>13, <1>14, <1>15, Moved

LEMMA NewnameKeeps == ASSUME IInv, NEW q \in Clients, NEWNAME(q) PROVE IInv'
<1>1. At(q, "newname") /\ cache' = cache /\ UNCHANGED <<asked, forgets, fails>> BY DEF NEWNAME
<1>2. running = q /\ Valid(z[q]) /\ CacheOK(cache') BY <1>1, AtPlace DEF Pcs
<1>3. PICK s : s = [z[q] EXCEPT !.loop = @ + 1, !.any = FALSE] OBVIOUS
<1>4. Valid(s)
  <2>1. z[q] \in QueryType BY <1>2 DEF Valid
  <2>2. s \in QueryType
    <3>1. PICK n : n = z[q].loop + 1 OBVIOUS
    <3>2. n \in Nat BY <2>1, <3>1 DEF QueryType
    <3>3. s = [z[q] EXCEPT !.loop = n, !.any = FALSE] BY <1>3, <3>1
    <3> QED BY <2>1, <3>2, <3>3 DEF QueryType
  <2>3. /\ s.level = z[q].level /\ s.name = z[q].name /\ s.control = z[q].control
        /\ s.ns = z[q].ns /\ s.addrs = z[q].addrs /\ s.alias = z[q].alias
    BY <1>3, <2>1 DEF QueryType
  <2> QED BY <1>2, <2>2, <2>3, SameTables
<1>5. PICK kind : kind = Special(Name(s)) OBVIOUS
<1>6. PICK reply : reply = Synthetic(kind, s.type) OBVIOUS
<1>7. reply.rcode \in {0, 3} BY <1>6 DEF Synthetic
<1>8. \/ DIE(q, s)
      \/ s.level > 0 /\ LOWERLEVEL(q, s, SyntheticGlue(kind))
      \/ Finish(q, s, reply.rcode, reply.data)
      \/ NXDOMAIN(q, s)
      \/ Goto(q, s, "alias")
  <2>1. s.loop \in Nat BY <1>4, ValidTyped
  <2>2. s.loop >= MaxNames \/ s.loop < MaxNames BY <2>1, Constants
  <2>3. CASE s.loop >= MaxNames
    <3>1. ~(s.loop < MaxNames) BY <2>1, <2>3, Constants
    <3> QED BY <1>3, <1>5, <1>6, <2>3, <3>1 DEF NEWNAME
  <2>4. CASE s.loop < MaxNames
    <3>1. ~(s.loop >= MaxNames) BY <2>1, <2>4, Constants
    <3> QED BY <1>3, <1>5, <1>6, <2>4, <3>1 DEF NEWNAME
  <2> QED BY <2>2, <2>3, <2>4
<1>9. CASE DIE(q, s) BY <1>1, <1>2, <1>9, DieKeeps
<1>10. CASE s.level > 0 /\ LOWERLEVEL(q, s, SyntheticGlue(kind))
  <2>1. SyntheticGlue(kind) \in SUBSET Addrs /\ IsFiniteSet(SyntheticGlue(kind))
    BY Constants, FS_EmptySet, FS_Singleton DEF SyntheticGlue
  <2> QED BY <1>1, <1>2, <1>4, <1>10, <2>1, LowerKeeps
<1>11. CASE Finish(q, s, reply.rcode, reply.data)
  <2>1. Counters' BY <1>1, CountersKept DEF IInv
  <2> QED BY <1>1, <1>2, <1>7, <1>11, <2>1, FinishKeeps
<1>12. CASE NXDOMAIN(q, s) BY <1>1, <1>2, <1>4, <1>12, ServfailKeeps
<1>13. CASE Goto(q, s, "alias")
  <2>1. Place(s, "alias") BY DEF Place
  <2> QED BY <1>1, <1>2, <1>4, <1>13, <2>1, GotoKeeps DEF Pcs
<1> QED BY <1>8, <1>9, <1>10, <1>11, <1>12, <1>13

(* The name of a level is replaced by its alias.                             *)
Renamed(s, t, n) ==
  /\ t.level = s.level /\ t.ns = s.ns /\ t.addrs = s.addrs
  /\ t.name = [s.name EXCEPT ![s.level] = n]
  /\ \A l \in Levels : l # s.level => t.control[l] = s.control[l]

LEMMA NameSet ==
  ASSUME NEW s, Valid(s), NEW n \in Names, NEW t \in QueryType, Renamed(s, t, n),
         Len(t.alias) <= QUERY_MAXALIAS
  PROVE  Valid(t) /\ t.name[t.level] = n
<1> USE DEF Renamed
<1>1. /\ s.level \in Levels /\ t.name[s.level] = n
      /\ \A l \in Levels : l # s.level => t.name[l] = s.name[l]
  BY ValidTyped
<1>2. Held(t) BY DEF Valid, Held
<1>3. Stack(t)
  <2>1. Stack(s) BY DEF Valid
  <2>2. n # None BY Constants
  <2>3. ASSUME NEW l \in Levels
        PROVE  IF l <= t.level THEN t.name[l] # None
               ELSE t.name[l] = None /\ t.ns[l] = <<>> /\ t.addrs[l] = {}
    <3>1. CASE l = s.level BY <1>1, <2>2, <3>1, SomeLevels
    <3>2. CASE l # s.level
      <4>1. t.name[l] = s.name[l] BY <1>1, <3>2
      <4> QED BY <2>1, <4>1 DEF Stack
    <3> QED BY <3>1, <3>2
  <2>4. ASSUME NEW l \in Levels, l < t.level PROVE InCharge(t, l)
    <3>1. l # s.level BY <1>1, <2>4, SomeLevels
    <3>2. t.name[l] = s.name[l] /\ t.control[l] = s.control[l] BY <1>1, <3>1
    <3>3. InCharge(s, l) BY <2>1, <2>4 DEF Stack
    <3> QED BY <3>2, <3>3 DEF InCharge
  <2> QED BY <2>3, <2>4 DEF Stack
<1> QED BY <1>1, <1>2, <1>3 DEF Valid

LEMMA AliasMoved ==
  ASSUME NEW s, Valid(s), s.level = 0, move_name_to_alias(s).ok
  PROVE  /\ move_name_to_alias(s).alias \in Seq(Names)
         /\ Len(move_name_to_alias(s).alias) <= QUERY_MAXALIAS
<1>1. s.name[0] \in Names /\ s.alias \in Seq(Names) BY ValidTyped DEF Name
<1>2. Len(s.alias) < QUERY_MAXALIAS BY DEF move_name_to_alias
<1>3. move_name_to_alias(s).alias = <<s.name[0]>> \o s.alias BY DEF move_name_to_alias
<1>4. <<s.name[0]>> \in Seq(Names) /\ Len(<<s.name[0]>>) = 1 BY <1>1
<1>5. Len(<<s.name[0]>> \o s.alias) = 1 + Len(s.alias) /\ <<s.name[0]>> \o s.alias \in Seq(Names)
  BY <1>1, <1>4
<1> QED BY <1>1, <1>2, <1>3, <1>5, Constants

LEMMA CachedAliasKeeps == ASSUME IInv, NEW q \in Clients, CachedAlias(q) PROVE IInv'
<1>1. At(q, "alias") /\ cache' = cache /\ UNCHANGED <<asked, forgets, fails>> BY DEF CachedAlias
<1>2. running = q /\ Valid(z[q]) /\ CacheOK(cache) /\ CacheOK(cache') BY <1>1, AtPlace DEF Pcs
<1>3. PICK s : s = z[q] OBVIOUS
<1>4. Valid(s) /\ s \in QueryType BY <1>2, <1>3 DEF Valid
<1>5. PICK to : to = (CHOOSE c \in Cached("CNAME", Name(s)) : TRUE) OBVIOUS
<1>6. PICK l \in Levels : l = s.level BY <1>4, ValidTyped
<1>7. CASE Type(s) # "CNAME" /\ Cached("CNAME", Name(s)) # {}
  <2>1. to \in Names BY <1>2, <1>5, <1>7, CachedTyped
  <2>2. PICK name : name = [s.name EXCEPT ![l] = to] OBVIOUS
  <2>3. name \in [Levels -> Names \cup {None}] BY <1>4, <2>1, <2>2 DEF QueryType
  <2>4. ASSUME NEW alias \in Seq(Names), Len(alias) <= QUERY_MAXALIAS,
               NEW t, t = [s EXCEPT !.alias = alias, !.name = name, !.any = TRUE], Goto(q, t, "alias")
        PROVE  IInv'
    <3>1. t \in QueryType BY <1>4, <2>3, <2>4 DEF QueryType
    <3>2. /\ t.level = s.level /\ t.name = name /\ t.control = s.control /\ t.ns = s.ns
          /\ t.addrs = s.addrs /\ t.alias = alias
      BY <1>4, <2>4 DEF QueryType
    <3>3. t.name = [s.name EXCEPT ![s.level] = to] BY <1>6, <2>2, <3>2
    <3>4. Valid(t)
      <4>1. Renamed(s, t, to) BY <3>2, <3>3 DEF Renamed
      <4>2. Len(t.alias) <= QUERY_MAXALIAS BY <2>4, <3>2
      <4> QED BY <1>4, <2>1, <3>1, <4>1, <4>2, NameSet
    <3>5. Place(t, "alias") BY DEF Place
    <3> QED BY <1>1, <1>2, <2>4, <3>4, <3>5, GotoKeeps DEF Pcs
  <2>5. CASE s.level > 0
    <3>1. Goto(q, [s EXCEPT !.name[s.level] = to, !.any = TRUE], "alias")
      BY <1>3, <1>5, <1>7, <2>5 DEF CachedAlias
    <3>2. PICK t : t = [s EXCEPT !.alias = s.alias, !.name = name, !.any = TRUE] OBVIOUS
    <3>3. t = [s EXCEPT !.name[s.level] = to, !.any = TRUE] BY <1>4, <1>6, <2>2, <3>2 DEF QueryType
    <3>4. s.alias \in Seq(Names) /\ Len(s.alias) <= QUERY_MAXALIAS BY <1>4 DEF Valid, Held, QueryType
    <3> QED BY <2>4, <3>1, <3>2, <3>3, <3>4
  <2>6. CASE ~(s.level > 0)
    <3>1. s.level = 0 /\ l = 0 BY <1>6, <2>6, SomeLevels
    <3>2. CASE ~move_name_to_alias(s).ok
      <4>1. DIE(q, s) BY <1>3, <1>5, <1>7, <2>6, <3>2 DEF CachedAlias
      <4> QED BY <1>1, <1>2, <4>1, DieKeeps
    <3>3. CASE move_name_to_alias(s).ok
      <4>1. PICK alias : alias = move_name_to_alias(s).alias OBVIOUS
      <4>2. PICK t : t = [s EXCEPT !.alias = alias, !.name = name, !.any = TRUE] OBVIOUS
      <4>3. Goto(q, [s EXCEPT !.alias = move_name_to_alias(s).alias, !.name[0] = to, !.any = TRUE], "alias")
        BY <1>3, <1>5, <1>7, <2>6, <3>3 DEF CachedAlias
      <4>4. t = [s EXCEPT !.alias = move_name_to_alias(s).alias, !.name[0] = to, !.any = TRUE]
        BY <1>4, <2>2, <3>1, <4>1, <4>2 DEF QueryType
      <4>5. alias \in Seq(Names) /\ Len(alias) <= QUERY_MAXALIAS BY <1>4, <3>1, <3>3, <4>1, AliasMoved
      <4> QED BY <2>4, <4>2, <4>3, <4>4, <4>5
    <3> QED BY <3>2, <3>3
  <2> QED BY <2>5, <2>6
<1>8. CASE ~(Type(s) # "CNAME" /\ Cached("CNAME", Name(s)) # {})
  <2>1. Goto(q, s, IF s.any THEN "newname" ELSE "lookup") BY <1>3, <1>5, <1>8 DEF CachedAlias
  <2>2. Place(s, "newname") /\ Place(s, "lookup") BY DEF Place
  <2>3. CASE s.any
    <3>1. Goto(q, s, "newname") BY <2>1, <2>3
    <3> QED BY <1>1, <1>2, <1>4, <2>2, <3>1, GotoKeeps DEF Pcs
  <2>4. CASE ~s.any
    <3>1. Goto(q, s, "lookup") BY <2>1, <2>4
    <3> QED BY <1>1, <1>2, <1>4, <2>2, <3>1, GotoKeeps DEF Pcs
  <2> QED BY <2>3, <2>4
<1> QED BY <1>7, <1>8

(* Names of servers come into a row of the table, or go.                     *)
NsPut(s, l, ns) == [s EXCEPT !.ns[l] = ns]

LEMMA NsSet ==
  ASSUME NEW s, Valid(s), NEW l \in Levels, l <= s.level,
         NEW ns \in Seq(Names), Len(ns) <= QUERY_MAXNS, NEW t, t = NsPut(s, l, ns)
  PROVE  /\ Valid(t) /\ t.level = s.level /\ t.name = s.name /\ t.control = s.control
         /\ t.addrs = s.addrs /\ t.ns[l] = ns
<1>1. s \in QueryType BY DEF Valid
<1>2. t \in QueryType
  <2>1. [s.ns EXCEPT ![l] = ns] \in [Levels -> Seq(Names)] BY <1>1 DEF QueryType
  <2> QED BY <1>1, <2>1 DEF QueryType, NsPut
<1>3. /\ t.level = s.level /\ t.name = s.name /\ t.control = s.control /\ t.addrs = s.addrs
      /\ t.ns = [s.ns EXCEPT ![l] = ns] /\ t.alias = s.alias
  BY <1>1 DEF QueryType, NsPut
<1>4. t.ns[l] = ns /\ \A k \in Levels : k # l => t.ns[k] = s.ns[k]
  BY <1>1, <1>3 DEF QueryType
<1>5. s.level \in Levels BY <1>1 DEF QueryType
<1>6. Held(t) BY <1>3, <1>4 DEF Held, Valid
<1>7. Stack(t) BY <1>3, <1>4, <1>5, SomeLevels DEF Stack, Valid, InCharge
<1> QED BY <1>2, <1>3, <1>4, <1>6, <1>7 DEF Valid

(* Another zone takes charge of the name of the level.                       *)
ControlPut(s, c) == [s EXCEPT !.control[s.level] = c]

LEMMA ControlSet ==
  ASSUME NEW s, Valid(s), NEW c \in Names \cup {None}, NEW t, t = ControlPut(s, c)
  PROVE  /\ Valid(t) /\ t.level = s.level /\ t.name = s.name /\ t.ns = s.ns
         /\ t.addrs = s.addrs /\ t.control[s.level] = c
<1>1. s \in QueryType BY DEF Valid
<1>2. PICK l \in Levels : l = s.level BY <1>1 DEF QueryType
<1>3. t \in QueryType
  <2>1. [s.control EXCEPT ![l] = c] \in [Levels -> Names \cup {None}] BY <1>1 DEF QueryType
  <2> QED BY <1>1, <1>2, <2>1 DEF QueryType, ControlPut
<1>4. /\ t.level = s.level /\ t.name = s.name /\ t.ns = s.ns /\ t.addrs = s.addrs
      /\ t.control = [s.control EXCEPT ![l] = c] /\ t.alias = s.alias
  BY <1>1, <1>2 DEF QueryType, ControlPut
<1>5. t.control[l] = c /\ \A k \in Levels : k # l => t.control[k] = s.control[k]
  BY <1>1, <1>4 DEF QueryType
<1>6. Held(t) BY <1>4 DEF Held, Valid
<1>7. Stack(t) BY <1>2, <1>4, <1>5, SomeLevels DEF Stack, Valid, InCharge
<1> QED BY <1>2, <1>3, <1>4, <1>5, <1>6, <1>7 DEF Valid

LEMMA LookupKeeps == ASSUME IInv, NEW q \in Clients, Lookup(q) PROVE IInv'
<1>1. At(q, "lookup") /\ cache' = cache /\ UNCHANGED <<asked, forgets, fails>> BY DEF Lookup
<1>2. running = q /\ Valid(z[q]) /\ CacheOK(cache) /\ CacheOK(cache') BY <1>1, AtPlace DEF Pcs
<1>3. PICK s : s = z[q] OBVIOUS
<1>4. PICK glue : glue = Glue(Name(s)) OBVIOUS
<1>5. PICK data : data = Cached(s.type, Name(s)) OBVIOUS
<1>6. \/ s.level > 0 /\ LOWERLEVEL(q, s, glue)
      \/ Finish(q, s, 0, {"HINFO"}) \/ Finish(q, s, 0, data)
      \/ Goto(q, s, "begin")
  BY <1>3, <1>4, <1>5 DEF Lookup
<1>7. CASE s.level > 0 /\ LOWERLEVEL(q, s, glue)
  <2>1. glue \in SUBSET Addrs /\ IsFiniteSet(glue) BY <1>2, <1>4, CachedTyped
  <2> QED BY <1>1, <1>2, <1>3, <1>7, <2>1, LowerKeeps
<1>8. CASE Finish(q, s, 0, {"HINFO"}) \/ Finish(q, s, 0, data)
  <2>1. Counters' BY <1>1, CountersKept DEF IInv
  <2> QED BY <1>1, <1>2, <1>8, <2>1, FinishKeeps
<1>9. CASE Goto(q, s, "begin")
  <2>1. Place(s, "begin") BY DEF Place
  <2> QED BY <1>1, <1>2, <1>3, <1>9, <2>1, GotoKeeps DEF Pcs
<1> QED BY <1>6, <1>7, <1>8, <1>9

LEMMA BeginKeeps == ASSUME IInv, NEW q \in Clients, Begin(q) PROVE IInv'
<1>1. At(q, "begin") /\ cache' = cache /\ UNCHANGED <<asked, forgets, fails>> BY DEF Begin
<1>2. running = q /\ Valid(z[q]) /\ CacheOK(cache) /\ CacheOK(cache') BY <1>1, AtPlace DEF Pcs
<1>3. PICK l \in Levels : l = z[q].level BY <1>2, ValidTyped
<1>4. l <= z[q].level /\ l \in Nat
  <2>1. l \in Nat BY SomeLevels
  <2> QED BY <1>3, <2>1
<1>5. PICK none : none = <<>> OBVIOUS
<1>6. PICK empty : empty = {} OBVIOUS
<1>7. PICK r : r = NsPut(z[q], l, none) OBVIOUS
<1>8. PICK s : s = Put(r, l, empty) OBVIOUS
<1>9. none \in Seq(Names) /\ Len(none) <= QUERY_MAXNS /\ Room(empty)
  <2>1. <<>> \in Seq(Names) /\ Len(<<>>) = 0 OBVIOUS
  <2> QED BY <1>5, <1>6, <2>1, NoAddresses, Constants
<1>10. Valid(r) /\ r.level = z[q].level /\ r.name = z[q].name /\ r.ns[l] = none
  BY <1>2, <1>4, <1>7, <1>9, NsSet
<1>11. Valid(s) /\ s.level = l /\ s.name = z[q].name /\ s.ns[l] = <<>>
  <2>1. l <= r.level BY <1>4, <1>10
  <2>2. Valid(s) /\ s.level = r.level /\ s.name = r.name /\ s.ns = r.ns
    BY <1>8, <1>9, <1>10, <2>1, AddrsSet
  <2> QED BY <1>3, <1>10, <1>5, <2>2
<1>12. s = [z[q] EXCEPT !.ns[z[q].level] = <<>>, !.addrs[z[q].level] = {}]
  <2>1. z[q] \in QueryType BY <1>2 DEF Valid
  <2> QED BY <1>3, <1>7, <1>8, <1>5, <1>6, <2>1 DEF QueryType, NsPut, Put
<1>13. PICK named : named = (IF flagforwardonly \/ s.level >= QUERY_MIN_USE_ROOTS_LEVEL THEN {}
                             ELSE {n \in Names : Cached("NS", n) # {}}) OBVIOUS
<1>14. named = {} BY <1>2, <1>13, CachedTyped
<1>15. PICK at : at = Closest(Name(s), Local \cup named) OBVIOUS
<1>16. CASE at = None
  <2>1. DIE(q, s) BY <1>12, <1>13, <1>15, <1>16 DEF Begin
  <2> QED BY <1>1, <1>2, <2>1, DieKeeps
<1>17. CASE at # None
  <2>1. Name(s) \in Names BY <1>11, ValidTyped
  <2>2. at \in Names /\ at \in Local /\ Suffix(Name(s), at)
    BY <1>14, <1>15, <1>17, <2>1, ClosestIsAbove
  <2>3. PICK a : a = Servers(at) OBVIOUS
  <2>4. PICK c : c = ControlPut(s, at) OBVIOUS
  <2>5. PICK t : t = Put(c, l, a) OBVIOUS
  <2>6. /\ Valid(c) /\ c.level = l /\ c.name = s.name /\ c.ns = s.ns /\ c.control[l] = at
    BY <1>11, <2>2, <2>4, ControlSet
  <2>7. Room(a) BY <2>2, <2>3, Constants
  <2>8. /\ Valid(t) /\ t.level = l /\ t.name = s.name /\ t.ns = s.ns /\ t.control[l] = at
    BY <1>4, <2>5, <2>6, <2>7, AddrsSet
  <2>9. Place(t, "havensaddr") BY <1>11, <2>2, <2>8, Constants DEF Place, InCharge, Name
  <2>10. Goto(q, [s EXCEPT !.control[s.level] = at, !.addrs[s.level] = Servers(at)], "havensaddr")
    BY <1>12, <1>13, <1>15, <1>17, <2>2 DEF Begin
  <2>11. t = [s EXCEPT !.control[s.level] = at, !.addrs[s.level] = Servers(at)]
    <3>1. s \in QueryType BY <1>11 DEF Valid
    <3> QED BY <1>11, <2>3, <2>4, <2>5, <3>1 DEF QueryType, ControlPut, Put
  <2>12. Goto(q, t, "havensaddr") BY <2>10, <2>11
  <2> QED BY <1>1, <1>2, <2>8, <2>9, <2>12, GotoKeeps DEF Pcs
<1> QED BY <1>16, <1>17

(* A level more, for the name of a server.                                   *)
LEMMA PushedValid ==
  ASSUME NEW s, Valid(s), InCharge(s, s.level), NEW up, up = s.level + 1, up \in Levels,
         NEW n \in Names,
         NEW t, t = [s EXCEPT !.name[up] = n, !.level = up, !.ns[up] = <<>>, !.addrs[up] = {}]
  PROVE  Valid(t)
<1>1. s \in QueryType /\ s.level \in Levels BY ValidTyped DEF Valid
<1>2. PICK name : name = [s.name EXCEPT ![up] = n] OBVIOUS
<1>3. PICK ns : ns = [s.ns EXCEPT ![up] = <<>>] OBVIOUS
<1>4. PICK addrs : addrs = [s.addrs EXCEPT ![up] = {}] OBVIOUS
<1>5. name \in [Levels -> Names \cup {None}] /\ ns \in [Levels -> Seq(Names)]
      /\ addrs \in [Levels -> SUBSET Addrs]
  <2>1. <<>> \in Seq(Names) OBVIOUS
  <2> QED BY <1>1, <1>2, <1>3, <1>4, <2>1 DEF QueryType
<1>6. t = [s EXCEPT !.name = name, !.level = up, !.ns = ns, !.addrs = addrs]
  BY <1>1, <1>2, <1>3, <1>4 DEF QueryType
<1>7. t \in QueryType BY <1>1, <1>5, <1>6 DEF QueryType
<1>8. /\ t.level = up /\ t.name = name /\ t.control = s.control /\ t.ns = ns /\ t.addrs = addrs
      /\ t.alias = s.alias
  BY <1>1, <1>6 DEF QueryType
<1>9. /\ name[up] = n /\ ns[up] = <<>> /\ addrs[up] = {}
      /\ \A l \in Levels : l # up => name[l] = s.name[l] /\ ns[l] = s.ns[l] /\ addrs[l] = s.addrs[l]
  BY <1>1, <1>2, <1>3, <1>4 DEF QueryType
<1>10. Stack(s) /\ Held(s) BY DEF Valid
<1>11. Held(t)
  <2>1. Len(t.alias) <= QUERY_MAXALIAS BY <1>8, <1>10 DEF Held
  <2>2. ASSUME NEW k \in Levels PROVE Len(t.ns[k]) <= QUERY_MAXNS /\ Room(t.addrs[k])
    <3>1. CASE k = up
      <4>1. t.ns[k] = <<>> /\ t.addrs[k] = {} BY <1>8, <1>9, <3>1
      <4>2. Len(<<>>) = 0 /\ 0 <= QUERY_MAXNS BY Constants
      <4> QED BY <4>1, <4>2, NoAddresses
    <3>2. CASE k # up BY <1>8, <1>9, <1>10, <3>2 DEF Held
    <3> QED BY <3>1, <3>2
  <2> QED BY <2>1, <2>2 DEF Held
<1>12. s.level \in Nat /\ up \in Nat BY <1>1, SomeLevels
<1>13. Stack(t)
  <2>1. ASSUME NEW l \in Levels
        PROVE  IF l <= t.level THEN t.name[l] # None
               ELSE t.name[l] = None /\ t.ns[l] = <<>> /\ t.addrs[l] = {}
    <3>1. l \in Nat BY SomeLevels
    <3>2. CASE l = up
      <4>1. t.name[l] = n BY <1>8, <1>9, <3>2
      <4>2. l <= t.level BY <1>8, <3>1, <3>2
      <4>3. n # None BY Constants
      <4> QED BY <4>1, <4>2, <4>3
    <3>3. CASE l # up
      <4>1. l <= up => l <= s.level BY <1>12, <3>1, <3>3
      <4>2. ~(l <= up) => ~(l <= s.level) BY <1>12, <3>1
      <4> QED BY <1>8, <1>9, <1>10, <3>3, <4>1, <4>2 DEF Stack
    <3> QED BY <3>2, <3>3
  <2>2. ASSUME NEW l \in Levels, l < t.level PROVE InCharge(t, l)
    <3>1. l \in Nat BY SomeLevels
    <3>2. l # up /\ (l < s.level \/ l = s.level) BY <1>8, <1>12, <2>2, <3>1
    <3>3. InCharge(s, l) BY <1>10, <3>2 DEF Stack
    <3> QED BY <1>8, <1>9, <3>2, <3>3 DEF InCharge
  <2> QED BY <2>1, <2>2 DEF Stack
<1> QED BY <1>7, <1>11, <1>13 DEF Valid

LEMMA HavensPartialKeeps == ASSUME IInv, NEW q \in Clients, HAVENSPARTIAL(q) PROVE IInv'
<1>1. At(q, "havens") /\ cache' = cache /\ UNCHANGED <<asked, forgets, fails>> BY DEF HAVENSPARTIAL
<1>2. running = q /\ Valid(z[q]) /\ Place(z[q], "havens") /\ CacheOK(cache) /\ CacheOK(cache')
  BY <1>1, AtPlace DEF Pcs
<1>3. PICK s : s = z[q] OBVIOUS
<1>4. PICK l \in Levels : l = s.level BY <1>2, <1>3, ValidTyped
<1>5. l <= s.level /\ l \in Nat
  <2>1. l \in Nat BY SomeLevels
  <2> QED BY <1>4, <2>1
<1>6. CASE s.ns[l] = <<>>
  <2>1. Goto(q, s, "havensaddr") BY <1>3, <1>4, <1>6 DEF HAVENSPARTIAL
  <2>2. Place(s, "havensaddr") BY <1>2, <1>3, <1>4, <1>6 DEF Place
  <2> QED BY <1>1, <1>2, <1>3, <2>1, <2>2, GotoKeeps DEF Pcs
<1>7. CASE s.ns[l] # <<>>
  <2>1. PICK n : n = Head(s.ns[l]) OBVIOUS
  <2>2. PICK tail : tail = Tail(s.ns[l]) OBVIOUS
  <2>3. PICK rest : rest = NsPut(s, l, tail) OBVIOUS
  <2>4. rest = [s EXCEPT !.ns[s.level] = Tail(@)]
    <3>1. s \in QueryType BY <1>2, <1>3 DEF Valid
    <3> QED BY <1>4, <2>2, <2>3, <3>1 DEF QueryType, NsPut
  <2>5. s.ns[l] \in Seq(Names) /\ Len(s.ns[l]) <= QUERY_MAXNS
    BY <1>2, <1>3, ValidTyped DEF Valid, Held
  <2>6. n \in Names /\ tail \in Seq(Names) /\ Len(tail) <= QUERY_MAXNS
    <3>1. Len(tail) = Len(s.ns[l]) - 1 /\ Len(s.ns[l]) \in Nat BY <1>7, <2>2, <2>5, HeadTailProperties
    <3> QED BY <1>7, <2>1, <2>2, <2>5, <3>1, HeadTailProperties, Constants
  <2>7. InCharge(s, l) BY <1>2, <1>3, <1>4, <1>7 DEF Place
  <2>8. /\ Valid(rest) /\ rest.level = l /\ rest.name = s.name /\ rest.control = s.control
        /\ rest.addrs = s.addrs
    BY <1>2, <1>3, <1>4, <1>5, <2>3, <2>6, NsSet
  <2>9. InCharge(rest, l) BY <2>7, <2>8 DEF InCharge
  <2>10. PICK up : up = l + 1 OBVIOUS
  <2>11. PICK glue : glue = Glue(n) OBVIOUS
  <2>12. PICK a : a = Add(rest.addrs[l], glue) OBVIOUS
  <2>13. PICK t : t = Put(rest, l, a) OBVIOUS
  <2>14. t = [rest EXCEPT !.addrs[s.level] = Add(@, Glue(n))]
    <3>1. rest \in QueryType BY <2>8 DEF Valid
    <3> QED BY <1>4, <2>11, <2>12, <2>13, <3>1 DEF QueryType, Put
  <2>15. PICK u : u = [rest EXCEPT !.name[up] = n, !.level = up, !.ns[up] = <<>>, !.addrs[up] = {}]
    OBVIOUS
  <2>16. \/ Goto(q, t, "havens")
         \/ up < QUERY_MAXLEVEL /\ Goto(q, u, "newname")
         \/ Goto(q, rest, "havens")
    BY <1>3, <1>4, <1>7, <2>1, <2>4, <2>10, <2>14, <2>15 DEF HAVENSPARTIAL
  <2>17. CASE Goto(q, t, "havens")
    <3>1. Room(rest.addrs[l]) BY <2>8 DEF Valid, Held
    <3>2. glue \subseteq Addrs /\ IsFiniteSet(glue) BY <1>2, <2>11, CachedTyped
    <3>3. Room(a) BY <2>12, <3>1, <3>2, AddKeepsRoom
    <3>4. /\ Valid(t) /\ t.level = l /\ t.name = rest.name /\ t.control = rest.control
      BY <1>5, <2>8, <2>13, <3>3, AddrsSet
    <3>5. Place(t, "havens") BY <2>9, <3>4 DEF Place, InCharge
    <3> QED BY <1>1, <1>2, <2>17, <3>4, <3>5, GotoKeeps DEF Pcs
  <2>18. CASE up < QUERY_MAXLEVEL /\ Goto(q, u, "newname")
    <3>1. up \in Levels BY <1>5, <2>10, <2>18, Constants DEF Levels
    <3>2. Valid(u) BY <2>6, <2>8, <2>9, <2>10, <2>15, <3>1, PushedValid
    <3>3. Place(u, "newname") BY DEF Place
    <3> QED BY <1>1, <1>2, <2>18, <3>2, <3>3, GotoKeeps DEF Pcs
  <2>19. CASE Goto(q, rest, "havens")
    <3>1. Place(rest, "havens") BY <2>8, <2>9 DEF Place
    <3> QED BY <1>1, <1>2, <2>8, <2>19, <3>1, GotoKeeps DEF Pcs
  <2> QED BY <2>16, <2>17, <2>18, <2>19
<1> QED BY <1>6, <1>7

LEMMA HavensAddrKeeps == ASSUME IInv, NEW q \in Clients, HAVENSADDR(q) PROVE IInv'
<1>1. At(q, "havensaddr") /\ cache' = cache /\ UNCHANGED <<asked, forgets, fails>> BY DEF HAVENSADDR
<1>2. running = q /\ Valid(z[q]) /\ Place(z[q], "havensaddr") /\ CacheOK(cache) /\ CacheOK(cache')
  BY <1>1, AtPlace DEF Pcs
<1>3. PICK s : s = z[q] OBVIOUS
<1>4. CASE s.addrs[s.level] = {}
  <2>1. SERVFAIL(q, s) BY <1>3, <1>4 DEF HAVENSADDR
  <2> QED BY <1>1, <1>2, <1>3, <2>1, ServfailKeeps
<1>5. CASE s.addrs[s.level] # {}
  <2>1. PICK t : t = [s EXCEPT !.pc = "wait"] OBVIOUS
  <2>2. z' = [z EXCEPT ![q] = t] /\ running' = None /\ out' = out
    <3>1. z' = [z EXCEPT ![q].pc = "wait"] /\ running' = None /\ UNCHANGED out
      BY <1>3, <1>5 DEF HAVENSADDR
    <3> QED BY <1>3, <2>1, <3>1
  <2>3. Valid(s) /\ Place(s, "wait") BY <1>2, <1>3, <1>5 DEF Place
  <2>4. Valid(t) /\ Place(t, "wait") /\ t.pc = "wait" BY <2>1, <2>3, PcSet DEF Pcs
  <2>5. t.pc # "idle" /\ QueryOK(t) /\ running' = (IF t.pc \in {"idle", "wait"} THEN None ELSE q)
    BY <2>2, <2>4 DEF QueryOK
  <2>6. Counters' BY <1>1, CountersKept DEF IInv
  <2>7. out'.rcode \in {-1, 0, 2, 3} BY <2>2 DEF IInv
  <2> QED BY <1>2, <2>2, <2>5, <2>6, <2>7, Moved
<1> QED BY <1>4, <1>5

LEMMA PacketKeeps ==
  ASSUME IInv, NEW q \in Clients, NEW a \in z[q].addrs[z[q].level],
         NEW p \in Packets(a, Name(z[q]), Type(z[q])), Packet(q, a, p)
  PROVE  IInv'
<1>1. PICK s : s = z[q] OBVIOUS
<1>2. s.pc = "wait" /\ running = None BY <1>1 DEF Packet
<1>3. Valid(s) /\ Place(s, "wait") BY <1>1, <1>2, ClientValid
<1>4. s \in QueryType BY <1>3 DEF Valid
<1>5. p \in PacketType
  <2>1. a \in Addrs BY <1>1, <1>3, ValidTyped
  <2> QED BY <1>1, <1>3, <2>1, ValidTyped, Constants
<1>6. PICK r : r = [s EXCEPT !.packet = p] OBVIOUS
<1>7. r \in QueryType BY <1>4, <1>5, <1>6 DEF QueryType
<1>8. /\ r.level = s.level /\ r.name = s.name /\ r.control = s.control /\ r.ns = s.ns
      /\ r.addrs = s.addrs /\ r.alias = s.alias
  BY <1>4, <1>6 DEF QueryType
<1>9. Valid(r) BY <1>3, <1>7, <1>8, SameTables
<1>10. Place(r, "havepacket") BY <1>3, <1>8 DEF Place, InCharge
<1>11. PICK t : t = [r EXCEPT !.pc = "havepacket"] OBVIOUS
<1>12. Valid(t) /\ Place(t, "havepacket") /\ t.pc = "havepacket"
  BY <1>9, <1>10, <1>11, PcSet DEF Pcs
<1>13. z' = [z EXCEPT ![q] = t] /\ running' = q
  <2>1. z' = [z EXCEPT ![q].packet = p, ![q].pc = "havepacket"] /\ running' = q BY DEF Packet
  <2>2. z \in [Clients -> QueryType] BY DEF IInv
  <2>3. t = [s EXCEPT !.packet = p, !.pc = "havepacket"] BY <1>6, <1>11
  <2> QED BY <1>1, <2>1, <2>2, <2>3
<1>14. t.pc # "idle" /\ QueryOK(t) /\ running' = (IF t.pc \in {"idle", "wait"} THEN None ELSE q)
  BY <1>12, <1>13 DEF QueryOK
<1>15. UNCHANGED <<cache, asked, forgets, fails, out>> BY DEF Packet
<1>16. Counters' BY <1>15, CountersKept DEF IInv
<1>17. CacheOK(cache') /\ out'.rcode \in {-1, 0, 2, 3} BY <1>15 DEF IInv
<1> QED BY <1>2, <1>13, <1>14, <1>16, <1>17, Moved

LEMMA NoAnswerKeeps == ASSUME IInv, NEW q \in Clients, NoAnswer(q) PROVE IInv'
<1>1. PICK s : s = z[q] OBVIOUS
<1>2. s.pc = "wait" /\ running = None /\ UNCHANGED <<cache, asked, forgets>> BY <1>1 DEF NoAnswer
<1>3. Valid(s) BY <1>1, <1>2, ClientValid
<1>4. CacheOK(cache') BY <1>2 DEF IInv
<1>5. Counters' BY <1>2, Constants DEF NoAnswer, IInv, Counters
<1>6. CASE s.level > 0
  <2>1. PICK r : r = Popped(s) OBVIOUS
  <2>2. PICK t : t = [r EXCEPT !.pc = "havens"] OBVIOUS
  <2>3. Valid(r) /\ InCharge(r, r.level) BY <1>3, <1>6, <2>1, PoppedValid
  <2>4. Place(r, "havens") BY <2>3 DEF Place
  <2>5. Valid(t) /\ Place(t, "havens") /\ t.pc = "havens" BY <2>2, <2>3, <2>4, PcSet DEF Pcs
  <2>6. z' = [z EXCEPT ![q] = t] /\ running' = q /\ out' = out
    BY <1>1, <1>6, <2>1, <2>2 DEF NoAnswer
  <2>7. t.pc # "idle" /\ QueryOK(t) /\ running' = (IF t.pc \in {"idle", "wait"} THEN None ELSE q)
    BY <2>5, <2>6 DEF QueryOK
  <2>8. out'.rcode \in {-1, 0, 2, 3} BY <2>6 DEF IInv
  <2> QED BY <1>2, <1>4, <1>5, <2>6, <2>7, <2>8, Moved
<1>7. CASE ~(s.level > 0)
  <2>1. Finish(q, s, 2, {}) BY <1>1, <1>7 DEF NoAnswer
  <2> QED BY <1>2, <1>4, <1>5, <2>1, FinishKeeps
<1> QED BY <1>6, <1>7

LEMMA HavePacketKeeps == ASSUME IInv, NEW q \in Clients, HAVEPACKET(q) PROVE IInv'
<1>1. At(q, "havepacket") /\ UNCHANGED <<asked, forgets, fails>> BY DEF HAVEPACKET
<1>2. running = q /\ Valid(z[q]) /\ Place(z[q], "havepacket") /\ CacheOK(cache)
  BY <1>1, AtPlace DEF Pcs
<1>3. PICK empty : empty = Empty(z[q].packet, Name(z[q]), Type(z[q])) OBVIOUS
<1>4. PICK s : s = [z[q] EXCEPT !.loop = @ + 1, !.j = 1, !.flagempty = empty] OBVIOUS
<1>5. PICK saved : saved = Saved(z[q].packet, z[q].control[z[q].level]) OBVIOUS
<1>6. \/ DIE(q, s) /\ cache' = cache
      \/ Goto(q, s, "follow") /\ cache' = Stored(saved)
  BY <1>3, <1>4, <1>5 DEF HAVEPACKET
<1>7. CacheOK(cache')
  <2>1. CacheOK(saved) BY <1>2, <1>5, ValidTyped, SavedOK
  <2> QED BY <1>2, <1>6, <2>1, StoredOK
<1>8. CASE DIE(q, s) BY <1>1, <1>2, <1>7, <1>8, DieKeeps
<1>9. CASE Goto(q, s, "follow")
  <2>1. z[q] \in QueryType BY <1>2 DEF Valid
  <2>2. empty \in BOOLEAN BY <1>3 DEF Empty
  <2>3. PICK n \in Nat : n = z[q].loop + 1 BY <2>1 DEF QueryType
  <2>4. s = [z[q] EXCEPT !.loop = n, !.j = 1, !.flagempty = empty] BY <1>4, <2>3
  <2>5. s \in QueryType BY <2>1, <2>2, <2>4 DEF QueryType
  <2>6. /\ s.level = z[q].level /\ s.name = z[q].name /\ s.control = z[q].control
        /\ s.ns = z[q].ns /\ s.addrs = z[q].addrs /\ s.alias = z[q].alias /\ s.j = 1
    BY <2>1, <2>4 DEF QueryType
  <2>7. Valid(s) BY <1>2, <2>5, <2>6, SameTables
  <2>8. Place(s, "follow") BY <1>2, <2>6 DEF Place
  <2> QED BY <1>1, <1>2, <1>7, <1>9, <2>7, <2>8, GotoKeeps DEF Pcs
<1> QED BY <1>6, <1>8, <1>9

LEMMA FollowKeeps == ASSUME IInv, NEW q \in Clients, Follow(q) PROVE IInv'
<1>1. At(q, "follow") /\ cache' = cache /\ UNCHANGED <<asked, forgets, fails>> BY DEF Follow
<1>2. running = q /\ Valid(z[q]) /\ Place(z[q], "follow") /\ CacheOK(cache) /\ CacheOK(cache')
  BY <1>1, AtPlace DEF Pcs
<1>3. PICK s : s = z[q] OBVIOUS
<1>4. s \in QueryType /\ Valid(s) BY <1>2, <1>3 DEF Valid
<1>5. PICK l \in Levels : l = s.level BY <1>4, ValidTyped
<1>6. s.ns[s.level] = <<>> /\ s.j # 0 BY <1>2, <1>3 DEF Place
<1>7. PICK rr : rr = s.packet.answer[s.j] OBVIOUS
<1>8. PICK n \in Nat : n = s.j + 1 BY <1>4 DEF QueryType
<1>9. n # 0 BY <1>4, <1>8 DEF QueryType
<1>10. PICK next : next = [s EXCEPT !.j = n] OBVIOUS
<1>11. next = [s EXCEPT !.j = @ + 1] BY <1>8, <1>10
<1>12. CASE s.j > Len(s.packet.answer) \/ Type(s) = "CNAME"
  <2>1. Goto(q, s, "judge") BY <1>3, <1>12 DEF Follow
  <2>2. Place(s, "judge") BY <1>6 DEF Place
  <2> QED BY <1>1, <1>2, <1>4, <2>1, <2>2, GotoKeeps DEF Pcs
<1>13. CASE ~(s.j > Len(s.packet.answer) \/ Type(s) = "CNAME")
           /\ (rr.type # "CNAME" \/ rr.name # Name(s))
  <2>1. Goto(q, next, "follow") BY <1>3, <1>7, <1>11, <1>13 DEF Follow
  <2>2. next \in QueryType BY <1>4, <1>10 DEF QueryType
  <2>3. /\ next.level = s.level /\ next.name = s.name /\ next.control = s.control
        /\ next.ns = s.ns /\ next.addrs = s.addrs /\ next.alias = s.alias /\ next.j = n
    BY <1>4, <1>10 DEF QueryType
  <2>4. Valid(next) BY <1>4, <2>2, <2>3, SameTables
  <2>5. Place(next, "follow") BY <1>6, <1>9, <2>3 DEF Place
  <2> QED BY <1>1, <1>2, <2>1, <2>4, <2>5, GotoKeeps DEF Pcs
<1>14. CASE ~(s.j > Len(s.packet.answer) \/ Type(s) = "CNAME")
           /\ ~(rr.type # "CNAME" \/ rr.name # Name(s))
  <2>1. rr \in Record /\ rr.data \in Names
    <3>1. s.packet.answer \in Seq(Record) BY <1>4, PacketTyped DEF QueryType
    <3>2. s.j \in Nat /\ Len(s.packet.answer) \in Nat BY <1>4, <3>1 DEF QueryType
    <3>3. s.j \in 1 .. Len(s.packet.answer) BY <1>6, <1>14, <3>2
    <3>4. rr \in Record BY <1>7, <3>1, <3>3, ElementOfSeq
    <3> QED BY <1>14, <3>4, RecordTyped
  <2>2. CASE s.level = 0 /\ ~move_name_to_alias(s).ok
    <3>1. DIE(q, s) BY <1>3, <1>7, <1>14, <2>2 DEF Follow
    <3> QED BY <1>1, <1>2, <3>1, DieKeeps
  <2>3. CASE ~(s.level = 0 /\ ~move_name_to_alias(s).ok)
    <3>1. PICK alias : alias = (IF s.level = 0 THEN move_name_to_alias(s).alias ELSE s.alias) OBVIOUS
    <3>2. alias \in Seq(Names) /\ Len(alias) <= QUERY_MAXALIAS
      <4>1. CASE s.level = 0 BY <1>4, <2>3, <3>1, <4>1, AliasMoved
      <4>2. CASE s.level # 0
        <5>1. alias = s.alias BY <3>1, <4>2
        <5> QED BY <1>4, <5>1 DEF Valid, Held, QueryType
      <4> QED BY <4>1, <4>2
    <3> DEFINE To(c) == [[z[q] EXCEPT !.j = @ + 1] EXCEPT
                           !.alias = IF z[q].level = 0 THEN move_name_to_alias(z[q]).alias ELSE @,
                           !.name[z[q].level] = z[q].packet.answer[z[q].j].data,
                           !.control[z[q].level] = c]
    <3>3. PICK control \in Controls(s) :
            Goto(q, To(control), "follow") \/ Goto(q, Read(To(control)), "newname")
      <4>1. /\ ~(z[q].j > Len(z[q].packet.answer) \/ Type(z[q]) = "CNAME")
            /\ ~(z[q].packet.answer[z[q].j].type # "CNAME"
                 \/ z[q].packet.answer[z[q].j].name # Name(z[q]))
            /\ ~(z[q].level = 0 /\ ~move_name_to_alias(z[q]).ok)
        BY <1>3, <1>7, <1>14, <2>3
      <4>2. \E c \in Controls(z[q]) :
              IF Within(z[q].packet.answer[z[q].j].data, c) THEN Goto(q, To(c), "follow")
              ELSE Goto(q, Read(To(c)), "newname")
        BY <4>1 DEF Follow
      <4> HIDE DEF To
      <4> QED BY <1>3, <4>2
    <3>4. control \in Names \cup {None} BY <1>4, <3>3, Constants DEF Controls, QueryType
    <3>5. PICK name : name = [s.name EXCEPT ![l] = rr.data] OBVIOUS
    <3>6. PICK controls : controls = [s.control EXCEPT ![l] = control] OBVIOUS
    <3>7. PICK to : to = [s EXCEPT !.j = n, !.alias = alias, !.name = name, !.control = controls]
      OBVIOUS
    <3>8. Goto(q, to, "follow") \/ Goto(q, Read(to), "newname")
      <4>1. [next EXCEPT !.alias = alias, !.name[l] = rr.data, !.control[l] = control] = to
        BY <1>4, <1>10, <3>5, <3>6, <3>7 DEF QueryType
      <4>2. To(control) = to BY <1>3, <1>4, <1>5, <1>7, <1>10, <1>11, <3>1, <4>1 DEF QueryType
      <4> HIDE DEF To
      <4> QED BY <3>3, <4>2
    <3>9. name \in [Levels -> Names \cup {None}] /\ controls \in [Levels -> Names \cup {None}]
      BY <1>4, <2>1, <3>4, <3>5, <3>6 DEF QueryType
    <3>10. to \in QueryType BY <1>4, <3>2, <3>7, <3>9 DEF QueryType
    <3>11. /\ to.level = s.level /\ to.name = name /\ to.control = controls
           /\ to.ns = s.ns /\ to.addrs = s.addrs /\ to.alias = alias /\ to.j = n
      BY <1>4, <3>7 DEF QueryType
    <3>12. Valid(to)
      <4>1. PICK d \in Names : d = rr.data BY <2>1
      <4>2. to.name = [s.name EXCEPT ![s.level] = d] BY <1>5, <3>5, <3>11, <4>1
      <4>3. \A k \in Levels : k # s.level => to.control[k] = s.control[k]
        BY <1>4, <1>5, <3>6, <3>11 DEF QueryType
      <4>4. Renamed(s, to, d) BY <3>11, <4>2, <4>3 DEF Renamed
      <4>5. Len(to.alias) <= QUERY_MAXALIAS BY <3>2, <3>11
      <4> QED BY <1>4, <3>10, <4>1, <4>4, <4>5, NameSet
    <3>13. CASE Goto(q, to, "follow")
      <4>1. Place(to, "follow") BY <1>6, <1>9, <3>11 DEF Place
      <4> QED BY <1>1, <1>2, <3>12, <3>13, <4>1, GotoKeeps DEF Pcs
    <3>14. CASE Goto(q, Read(to), "newname")
      <4>1. PICK r : r = Read(to) OBVIOUS
      <4>2. Valid(r) BY <3>12, <4>1, ReadValid
      <4>3. Place(r, "newname") BY DEF Place
      <4>4. Goto(q, r, "newname") BY <3>14, <4>1
      <4> QED BY <1>1, <1>2, <4>2, <4>3, <4>4, GotoKeeps DEF Pcs
    <3> QED BY <3>8, <3>13, <3>14
  <2> QED BY <2>2, <2>3
<1> QED BY <1>12, <1>13, <1>14

LEMMA JudgeKeeps == ASSUME IInv, NEW q \in Clients, Judge(q) PROVE IInv'
<1>1. At(q, "judge") /\ UNCHANGED <<asked, forgets, fails>> BY DEF Judge
<1>2. running = q /\ Valid(z[q]) /\ Place(z[q], "judge") /\ CacheOK(cache) BY <1>1, AtPlace DEF Pcs
<1>3. PICK s : s = Read(z[q]) OBVIOUS
<1>4. /\ Valid(s) /\ s \in QueryType /\ Name(s) \in Names /\ Type(s) \in RRTypes
      /\ s.ns[s.level] = <<>>
  <2>1. Valid(s) /\ s.ns = z[q].ns /\ s.level = z[q].level BY <1>2, <1>3, ReadValid
  <2>2. s.ns[s.level] = <<>> BY <1>2, <2>1 DEF Place
  <2> QED BY <2>1, <2>2, ValidTyped DEF Valid
<1>5. PICK l \in Levels : l = s.level BY <1>4, ValidTyped
<1>6. PICK p \in PacketType : p = z[q].packet BY <1>2, ValidTyped
<1>7. PICK d \in Names : d = Name(s) BY <1>4
<1>8. PICK referral : referral = Referral(p) OBVIOUS
<1>9. PICK data : data = AnswerData(p, d, {"A", "AAAA"}) OBVIOUS
<1>10. PICK all : all = AnswerData(p, d, {s.type}) OBVIOUS
<1>11. PICK names : names = NsNames(p, referral) OBVIOUS
<1>12. PICK t : t = [s EXCEPT !.control[s.level] = referral, !.ns[s.level] = names] OBVIOUS
<1>13. \/ NXDOMAIN(q, s) \/ HAVENS(q, s) \/ DIE(q, s)
       \/ s.level > 0 /\ LOWERLEVEL(q, s, data)
       \/ Finish(q, s, 0, all)
       \/ referral # None /\ Suffix(d, referral) /\ HAVENS(q, t)
  <2>1. CASE referral = None
    BY <1>3, <1>6, <1>7, <1>8, <1>9, <1>10, <2>1 DEF Judge
  <2>2. CASE referral # None
    BY <1>3, <1>6, <1>7, <1>8, <1>9, <1>10, <1>11, <1>12, <2>2 DEF Judge
  <2> QED BY <2>1, <2>2
<1>14. CacheOK(cache')
  <2>1. PICK empty : empty = z[q].flagempty OBVIOUS
  <2>2. cache' = Stored(Negative(p, d, Type(s), empty)) BY <1>3, <1>6, <1>7, <2>1 DEF Judge
  <2>3. CacheOK(Negative(p, d, Type(s), empty)) BY <1>4, NegativeOK
  <2> QED BY <1>2, <2>2, <2>3, StoredOK
<1>15. CASE NXDOMAIN(q, s) BY <1>1, <1>2, <1>4, <1>14, <1>15, ServfailKeeps
<1>16. CASE HAVENS(q, s) BY <1>1, <1>2, <1>4, <1>14, <1>16, HavensKeeps
<1>17. CASE DIE(q, s) BY <1>1, <1>2, <1>14, <1>17, DieKeeps
<1>18. CASE s.level > 0 /\ LOWERLEVEL(q, s, data)
  <2>1. data \in SUBSET Addrs /\ IsFiniteSet(data) BY <1>9, AnswerDataAreAddresses
  <2> QED BY <1>1, <1>2, <1>4, <1>14, <1>18, <2>1, LowerKeeps
<1>19. CASE Finish(q, s, 0, all)
  <2>1. Counters' BY <1>1, CountersKept DEF IInv
  <2> QED BY <1>2, <1>14, <1>19, <2>1, FinishKeeps
<1>20. CASE referral # None /\ Suffix(d, referral) /\ HAVENS(q, t)
  <2>1. referral \in Names \cup {None} BY <1>8, ReferralTyped
  <2>2. PICK c : c = ControlPut(s, referral) OBVIOUS
  <2>3. /\ Valid(c) /\ c.level = l /\ c.name = s.name /\ c.ns = s.ns
        /\ c.control[l] = referral
    BY <1>4, <1>5, <2>1, <2>2, ControlSet
  <2>4. names \in Seq(Names) /\ Len(names) <= QUERY_MAXNS BY <1>11, NsNamesTyped
  <2>5. t = NsPut(c, l, names) BY <1>4, <1>5, <1>12, <2>2 DEF QueryType, ControlPut, NsPut
  <2>6. l <= c.level
    <3>1. l \in Nat BY SomeLevels
    <3> QED BY <2>3, <3>1
  <2>7. /\ Valid(t) /\ t.level = c.level /\ t.name = c.name /\ t.control = c.control
    BY <2>3, <2>4, <2>5, <2>6, NsSet
  <2>8. InCharge(t, t.level) BY <1>5, <1>7, <1>20, <2>3, <2>7 DEF InCharge, Name
  <2> QED BY <1>1, <1>2, <1>14, <1>20, <2>7, <2>8, HavensKeeps
<1> QED BY <1>13, <1>15, <1>16, <1>17, <1>18, <1>19, <1>20

LEMMA ForgetKeeps == ASSUME IInv, NEW key, Forget(key) PROVE IInv'
<1>1. CacheOK(cache')
  <2>1. CacheOK(cache) /\ cache' = [k \in DOMAIN cache \ {key} |-> cache[k]] BY DEF IInv, Forget
  <2> QED BY <2>1 DEF CacheOK
<1>2. UNCHANGED <<z, running, out>> BY DEF Forget
<1>3. Counters' BY Constants DEF Forget, IInv, Counters
<1> QED BY <1>1, <1>2, <1>3 DEF IInv

-----------------------------------------------------------------------------
LEMMA InitHolds == Init => IInv
<1> SUFFICES ASSUME Init PROVE IInv OBVIOUS
<1>1. z = [q \in Clients |-> Idle] /\ running = None /\ cache = <<>> /\ out = NoResponse BY DEF Init
<1>2. CacheOK(cache)
  <2>1. DOMAIN cache = {} BY <1>1
  <2> QED BY <2>1 DEF CacheOK
<1>3. Counters BY Constants DEF Init, Counters
<1>4. out.rcode \in {-1, 0, 2, 3} BY <1>1 DEF NoResponse
<1>5. z \in [Clients -> QueryType] BY <1>1, IdleTyped
<1>6. \A q \in Clients : z[q] = Idle /\ z[q].pc = "idle" BY <1>1, IdleTyped
<1>7. \A q \in Clients : running # q BY <1>1, Constants
<1> QED BY <1>1, <1>2, <1>3, <1>4, <1>5, <1>6, <1>7 DEF IInv

LEMMA NextHolds == IInv /\ [Next]_vars => IInv'
<1> SUFFICES ASSUME IInv, [Next]_vars PROVE IInv' OBVIOUS
<1>1. CASE UNCHANGED vars BY <1>1 DEF vars, IInv, Counters
<1>2. ASSUME NEW q \in Clients, Doit(q) PROVE IInv'
  BY <1>2, NewnameKeeps, CachedAliasKeeps, LookupKeeps, BeginKeeps, HavensPartialKeeps,
     HavensAddrKeeps, HavePacketKeeps, FollowKeeps, JudgeKeeps DEF Doit
<1>3. ASSUME NEW q \in Clients, Reply(q) PROVE IInv'
  BY <1>3, PacketKeeps, NoAnswerKeeps DEF Reply
<1>4. ASSUME NEW q \in Clients, NEW ask \in Asked, Start(q, ask[1], ask[2]) PROVE IInv'
  <2>1. ask[1] \in Names /\ ask[2] \in RRTypes BY QueryAssumption
  <2> QED BY <1>4, <2>1, StartKeeps
<1>5. ASSUME NEW key \in DOMAIN cache, Forget(key) PROVE IInv' BY <1>5, ForgetKeeps
<1> QED BY <1>1, <1>2, <1>3, <1>4, <1>5 DEF Next

(* The strengthening of StackKept that every step of doit() and of           *)
(* query_get() keeps: the tables fit in their arrays, the levels are a stack *)
(* of which each but the last has servers in charge of its name, and the     *)
(* last what its label relies on (query.c:86, 685).                          *)
THEOREM InductiveInvariant == Spec => []IInv
<1>1. Init => IInv BY InitHolds
<1>2. IInv /\ [Next]_vars => IInv' BY NextHolds
<1> QED BY <1>1, <1>2, PTL DEF Spec

LEMMA TypeHolds == IInv => TypeOK
<1> SUFFICES ASSUME IInv PROVE TypeOK OBVIOUS
<1>1. ASSUME NEW q \in Clients
      PROVE  /\ z[q].pc \in Pcs /\ z[q].level \in Levels /\ z[q].loop \in Nat
             /\ Len(z[q].alias) <= QUERY_MAXALIAS
             /\ \A l \in Levels : /\ z[q].name[l] \in Names \cup {None} /\ Len(z[q].ns[l]) <= QUERY_MAXNS
                                  /\ Cardinality(z[q].addrs[l]) <= QUERY_MAXNS_ADDR
  <2>1. z[q] \in QueryType BY DEF IInv
  <2>2. /\ z[q].pc \in Pcs /\ z[q].level \in Levels /\ z[q].loop \in Nat
        /\ \A l \in Levels : z[q].name[l] \in Names \cup {None}
    BY <2>1 DEF QueryType
  <2>3. Held(z[q])
    <3>1. CASE z[q].pc = "idle"
      <4>1. z[q] = Idle BY <3>1 DEF IInv
      <4>2. Len(<<>>) = 0 /\ 0 <= QUERY_MAXNS /\ 0 <= QUERY_MAXALIAS BY Constants
      <4> QED BY <4>1, <4>2, NoAddresses DEF Held, Idle
    <3>2. CASE z[q].pc # "idle" BY <3>2, ClientValid DEF Valid
    <3> QED BY <3>1, <3>2
  <2> QED BY <2>2, <2>3 DEF Held, Room
<1> QED BY <1>1 DEF TypeOK, IInv, CacheOK, Counters, Pcs

(* Whatever names the servers hand out and however they refer to each other, *)
(* a query that goes up a level leaves nothing there when it comes back, and *)
(* it waits only for servers in charge of the name it asks them about: the   *)
(* servers found for one name are not asked about the next that is put in    *)
(* its place (query.c:86, 1205).                                             *)
THEOREM StackIsKept == Spec => []StackKept
<1>1. IInv => StackKept
  <2> SUFFICES ASSUME IInv PROVE StackKept OBVIOUS
  <2>1. ASSUME NEW q \in Clients, NEW s, s = z[q]
        PROVE  /\ s.pc = "idle" => s = Idle
               /\ s.pc # "idle" => \A l \in Levels :
                    IF l <= s.level THEN s.name[l] # None
                    ELSE s.name[l] = None /\ s.ns[l] = <<>> /\ s.addrs[l] = {}
               /\ s.pc \in {"wait", "havepacket"} =>
                    /\ s.addrs[s.level] # {} /\ s.ns[s.level] = <<>>
                    /\ s.control[s.level] # None /\ Suffix(Name(s), s.control[s.level])
               /\ running = q <=> s.pc \notin {"idle", "wait"}
    <3>1. s.pc = "idle" => s = Idle BY <2>1 DEF IInv
    <3>2. s.pc # "idle" => Stack(s) /\ Place(s, s.pc) BY <2>1, ClientValid DEF Valid
    <3>3. running = q <=> s.pc \notin {"idle", "wait"} BY <2>1 DEF IInv
    <3> QED BY <3>1, <3>2, <3>3 DEF Stack, Place, InCharge, Name
  <2> QED BY <2>1, TypeHolds DEF StackKept
<1> QED BY <1>1, InductiveInvariant, PTL

-----------------------------------------------------------------------------
(* What is known of the zones                                                *)

(* Each name in the list of aliases is one of the name that follows it.      *)
Chain(s) ==
  \A i \in 1 .. Len(s.alias) :
    Data(s.alias[i], "CNAME") = {IF i = 1 THEN s.name[0] ELSE s.alias[i - 1]}

(* What is asked at a level about its name serves the zone in control.       *)
Serving(s, l) ==
  /\ Under(s.name[l], s.control[l]) /\ s.addrs[l] \subseteq Masters(s.control[l])
  /\ Range(s.ns[l]) \subseteq Hosts(s.control[l])

(* Each level but the first looks for a server of the zone of the one below. *)
Sought(s) ==
  \A l \in Levels : l < s.level => Serving(s, l) /\ s.name[l + 1] \in Hosts(s.control[l])

(* The zones that a packet from a server of c may be read as speaking for.   *)
Zones(s, c) == {c} \cup (IF s.level > 0 THEN Freed \ {None} ELSE {})

(* The packet was an honest answer about some name, and its aliases, as far  *)
(* as they are read, lead from there to the name of the level.               *)
Spoken(s, upto) ==
  \E c, n \in Names :
    /\ Truthful(s.packet, n, Type(s), Zones(s, c)) /\ s.control[s.level] \in Zones(s, c)
    /\ Under(Name(s), s.control[s.level])
    /\ s.flagempty = Empty(s.packet, n, Type(s))
    /\ LeadsTo(s.packet, n, Type(s), Name(s), Zones(s, c), upto)

(* What is known at a label.  No server is asked for ANY or OPT.             *)
Trust(s, pc) ==
  /\ pc \notin {"newname", "alias", "lookup"} \/ s.level > 0 => s.type \notin {"ANY", "OPT"}
  /\ pc \in {"havens", "havensaddr"} =>
       (s.ns[s.level] # <<>> \/ s.addrs[s.level] # {} => Serving(s, s.level))
  /\ pc \in {"wait", "havepacket"} => Serving(s, s.level)
  /\ pc = "havepacket" =>
       \E a \in Masters(s.control[s.level]) : s.packet \in Packets(a, Name(s), Type(s))
  /\ pc = "follow" => s.j <= Len(s.packet.answer) + 1 /\ Spoken(s, s.j - 1)
  /\ pc = "judge" => Spoken(s, Len(s.packet.answer))

Known(s) == Chain(s) /\ Sought(s)

(* What is cached is the truth.                                              *)
SetsKnown(c) ==
  \A key \in DOMAIN c :
    LET n == key[2]
    IN IF key[1] = "ANY" THEN n \notin Exist
       ELSE /\ n \in Exist /\ c[key] = Data(n, key[1])
            /\ key[1] = "CNAME" \/ Data(n, "CNAME") = {}

TInv ==
  /\ SetsKnown(cache) /\ ReplyTrue
  /\ \A q \in Clients : z[q].pc # "idle" => Known(z[q]) /\ Trust(z[q], z[q].pc)

-----------------------------------------------------------------------------
(* The tree of names                                                         *)

LEMMA SelfIsFirst ==
  ASSUME NEW n \in Names
  PROVE  /\ Len(Ancestors[n]) \in Nat \ {0} /\ DOMAIN Ancestors[n] = 1 .. Len(Ancestors[n])
         /\ Ancestors[n][1] = n
<1>1. Ancestors[n] \in Seq(Names) BY Constants
<1>2. CASE n = Root
  <2>1. Ancestors[n] = <<n>> BY <1>2, QueryAssumption
  <2> QED BY <2>1
<1>3. CASE n # Root
  <2>1. PICK rest \in Seq(Names) : rest = Ancestors[Parent(n)] BY <1>3, QueryAssumption
  <2>2. Ancestors[n] = <<n>> \o rest BY <1>3, <2>1, QueryAssumption
  <2> QED BY <2>2
<1> QED BY <1>2, <1>3

(* What is above a name that is above another.                               *)
LEMMA AboveAbove ==
  ASSUME NEW n \in Names, NEW i \in 1 .. Len(Ancestors[n]), NEW m, m = Ancestors[n][i]
  PROVE  /\ m \in Names /\ Len(Ancestors[m]) = Len(Ancestors[n]) - i + 1
         /\ \A k \in 1 .. Len(Ancestors[m]) : Ancestors[m][k] = Ancestors[n][i + k - 1]
<1> DEFINE Right(d, j) ==
      /\ Ancestors[d][j] \in Names
      /\ Len(Ancestors[Ancestors[d][j]]) = Len(Ancestors[d]) - j + 1
      /\ \A k \in 1 .. Len(Ancestors[Ancestors[d][j]]) :
           Ancestors[Ancestors[d][j]][k] = Ancestors[d][j + k - 1]
<1>1. PICK bad : bad = {j \in Nat : \E d \in Names : j \in 1 .. Len(Ancestors[d]) /\ ~Right(d, j)}
  OBVIOUS
<1>2. bad = {}
  <2> SUFFICES ASSUME bad # {} PROVE FALSE OBVIOUS
  <2>1. PICK j \in bad : \A o \in bad : j <= o
    <3>1. bad \in SUBSET Nat BY <1>1
    <3> QED BY <3>1, MinIsLeast
  <2>2. PICK d \in Names : j \in 1 .. Len(Ancestors[d]) /\ ~Right(d, j) BY <1>1
  <2>3. Len(Ancestors[d]) \in Nat /\ Ancestors[d][1] = d BY SelfIsFirst
  <2>4. CASE j = 1
    <3>1. Right(d, 1) BY <2>3
    <3> QED BY <2>2, <2>4, <3>1
  <2>5. CASE j # 1
    <3>1. d # Root
      <4>1. Len(<<d>>) = 1 OBVIOUS
      <4>2. d = Root => Len(Ancestors[d]) = 1 BY <4>1, QueryAssumption
      <4> QED BY <2>2, <2>5, <4>2
    <3>2. PICK e \in Names : e = Parent(d) BY <3>1, QueryAssumption
    <3>3. PICK rest \in Seq(Names) : rest = Ancestors[e] BY <3>2, Constants
    <3>4. Ancestors[d] = <<d>> \o rest BY <3>1, <3>2, <3>3, QueryAssumption
    <3>5. /\ Len(Ancestors[d]) = 1 + Len(rest) /\ Len(rest) \in Nat
          /\ \A k \in 1 .. Len(rest) : Ancestors[d][k + 1] = rest[k]
      BY <3>3, <3>4
    <3>6. PICK h \in Nat : h = j - 1 BY <2>2
    <3>7. h \in 1 .. Len(rest) /\ j = h + 1 BY <2>2, <2>5, <3>5, <3>6
    <3>8. h \notin bad BY <2>1, <2>2, <3>6, <3>7
    <3>9. Right(e, h) BY <1>1, <3>2, <3>3, <3>7, <3>8
    <3>10. Ancestors[d][j] = rest[h] BY <3>5, <3>7
    <3>11. PICK a : a = rest[h] OBVIOUS
    <3>12. /\ a \in Names /\ Len(Ancestors[a]) = Len(rest) - h + 1
           /\ \A k \in 1 .. Len(Ancestors[a]) : Ancestors[a][k] = rest[h + k - 1]
      BY <3>3, <3>9, <3>11
    <3>13. \A k \in 1 .. Len(Ancestors[a]) : Ancestors[a][k] = Ancestors[d][j + k - 1]
      <4> SUFFICES ASSUME NEW k \in 1 .. Len(Ancestors[a])
                   PROVE Ancestors[a][k] = Ancestors[d][j + k - 1]
        OBVIOUS
      <4>1. k \in Nat /\ k >= 1 /\ k <= Len(rest) - h + 1 BY <3>5, <3>7, <3>12
      <4>2. h + k - 1 \in 1 .. Len(rest) BY <3>5, <3>7, <4>1
      <4>3. Ancestors[d][(h + k - 1) + 1] = rest[h + k - 1] BY <3>5, <4>2
      <4>4. (h + k - 1) + 1 = j + k - 1 BY <3>7, <4>1
      <4> QED BY <3>12, <4>3, <4>4
    <3>14. Len(Ancestors[a]) = Len(Ancestors[d]) - j + 1 BY <3>5, <3>7, <3>12
    <3>15. Right(d, j) BY <3>10, <3>11, <3>12, <3>13, <3>14
    <3> QED BY <2>2, <3>15
  <2> QED BY <2>4, <2>5
<1>3. i \in Nat BY SelfIsFirst
<1>4. Right(n, i) BY <1>1, <1>2, <1>3
<1> QED BY <1>4

(* No name is above itself.                                                  *)
LEMMA AboveOnce ==
  ASSUME NEW n \in Names, NEW i \in 1 .. Len(Ancestors[n]), NEW j \in 1 .. Len(Ancestors[n]),
         Ancestors[n][i] = Ancestors[n][j]
  PROVE  i = j
<1>1. PICK m : m = Ancestors[n][i] OBVIOUS
<1>2. Len(Ancestors[m]) = Len(Ancestors[n]) - i + 1 BY <1>1, AboveAbove
<1>3. Len(Ancestors[m]) = Len(Ancestors[n]) - j + 1 BY <1>1, AboveAbove
<1>4. Len(Ancestors[n]) \in Nat BY SelfIsFirst
<1> QED BY <1>2, <1>3, <1>4

LEMMA SuffixAt ==
  ASSUME NEW d \in Names, NEW c, Suffix(d, c)
  PROVE  c \in Names /\ \E i \in 1 .. Len(Ancestors[d]) : Ancestors[d][i] = c
<1>1. PICK i \in DOMAIN Ancestors[d] : Ancestors[d][i] = c BY DEF Suffix, Range
<1>2. i \in 1 .. Len(Ancestors[d]) BY SelfIsFirst
<1> QED BY <1>1, <1>2, AboveAbove

(* The first local name on the way up.                                       *)
LEMMA RootIs ==
  ASSUME NEW d \in Names, NEW m \in 1 .. Len(Ancestors[d]), Ancestors[d][m] \in Local,
         \A k \in 1 .. Len(Ancestors[d]) : Ancestors[d][k] \in Local => m <= k
  PROVE  RootOf(d) = Ancestors[d][m]
<1>1. PICK on : on = {i \in DOMAIN Ancestors[d] : Ancestors[d][i] \in Local} OBVIOUS
<1>2. DOMAIN Ancestors[d] = 1 .. Len(Ancestors[d]) BY SelfIsFirst
<1>3. m \in on /\ on \in SUBSET Nat BY <1>1, <1>2
<1>4. Min(on) \in on /\ Min(on) <= m BY <1>3, MinIsLeast
<1>5. m <= Min(on) BY <1>1, <1>2, <1>4
<1>6. Min(on) = m
  <2>1. Min(on) \in Nat /\ m \in Nat BY <1>3, <1>4
  <2> QED BY <1>4, <1>5, <2>1
<1>7. Closest(d, Local) = Ancestors[d][Min(on)] BY <1>1, <1>3 DEF Closest
<1> QED BY <1>6, <1>7 DEF RootOf

LEMMA RootAt ==
  ASSUME NEW d \in Names
  PROVE  \/ RootOf(d) = None /\ \A k \in 1 .. Len(Ancestors[d]) : Ancestors[d][k] \notin Local
         \/ \E m \in 1 .. Len(Ancestors[d]) :
              /\ RootOf(d) = Ancestors[d][m] /\ Ancestors[d][m] \in Local
              /\ \A k \in 1 .. Len(Ancestors[d]) : Ancestors[d][k] \in Local => m <= k
<1>1. PICK on : on = {i \in DOMAIN Ancestors[d] : Ancestors[d][i] \in Local} OBVIOUS
<1>2. DOMAIN Ancestors[d] = 1 .. Len(Ancestors[d]) BY SelfIsFirst
<1>3. CASE on = {}
  <2>1. RootOf(d) = None BY <1>1, <1>3 DEF RootOf, Closest
  <2> QED BY <1>1, <1>2, <1>3, <2>1
<1>4. CASE on # {}
  <2>1. on \in SUBSET Nat BY <1>1, <1>2
  <2>2. Min(on) \in on /\ \A k \in on : Min(on) <= k BY <1>4, <2>1, MinIsLeast
  <2>3. RootOf(d) = Ancestors[d][Min(on)] BY <1>1, <1>4 DEF RootOf, Closest
  <2> QED BY <1>1, <1>2, <2>2, <2>3
<1> QED BY <1>3, <1>4

LEMMA LocalIsRoot == ASSUME NEW c \in Names, c \in Local PROVE RootOf(c) = c
<1>1. 1 \in 1 .. Len(Ancestors[c]) /\ Ancestors[c][1] = c BY SelfIsFirst
<1> QED BY <1>1, RootIs

(* Between a name and a zone that is not cut off from it there is no cut.    *)
LEMMA UnderBetween ==
  ASSUME NEW d \in Names, NEW c, NEW r, Under(d, c), Suffix(d, r), Suffix(r, c)
  PROVE  Under(d, r)
<1>1. r \in Names BY SuffixAt
<1>2. c \in Names BY SuffixAt DEF Under
<1>3. PICK i \in 1 .. Len(Ancestors[d]) : Ancestors[d][i] = r BY SuffixAt
<1>4. PICK j \in 1 .. Len(Ancestors[r]) : Ancestors[r][j] = c BY <1>1, SuffixAt
<1>5. PICK nd \in Nat, nr \in Nat, nc \in Nat :
        nd = Len(Ancestors[d]) /\ nr = Len(Ancestors[r]) /\ nc = Len(Ancestors[c])
  BY <1>1, <1>2, SelfIsFirst
<1>6. nr = nd - i + 1 /\ \A k \in 1 .. nr : Ancestors[r][k] = Ancestors[d][i + k - 1]
  BY <1>3, <1>5, AboveAbove
<1>7. nc = nr - j + 1 /\ \A k \in 1 .. nc : Ancestors[c][k] = Ancestors[r][j + k - 1]
  <2>1. /\ Len(Ancestors[c]) = Len(Ancestors[r]) - j + 1
        /\ \A k \in 1 .. Len(Ancestors[c]) : Ancestors[c][k] = Ancestors[r][j + k - 1]
    BY <1>1, <1>4, AboveAbove
  <2> QED BY <1>5, <2>1
<1>8. i \in Nat /\ j \in Nat /\ i >= 1 /\ j >= 1 /\ i <= nd /\ j <= nr BY <1>3, <1>4, <1>5
<1>9. CASE \A k \in 1 .. nd : Ancestors[d][k] \notin Local
  <2>1. \A k \in 1 .. nr : i + k - 1 \in 1 .. nd BY <1>6, <1>8
  <2>2. \A k \in 1 .. nr : Ancestors[r][k] \notin Local BY <1>6, <1>9, <2>1
  <2>3. RootOf(r) = None BY <1>1, <1>5, <2>2, RootAt
  <2>4. RootOf(d) = None BY <1>5, <1>9, RootAt
  <2> QED BY <2>3, <2>4 DEF Under
<1>10. ASSUME NEW m \in 1 .. nd, RootOf(d) = Ancestors[d][m], Ancestors[d][m] \in Local,
              \A k \in 1 .. nd : Ancestors[d][k] \in Local => m <= k
       PROVE  Under(d, r)
  <2>1. RootOf(c) = Ancestors[d][m] BY <1>10 DEF Under
  <2>2. Ancestors[d][m] # None BY <1>5, Constants, AboveAbove
  <2>3. PICK h \in 1 .. nc : RootOf(c) = Ancestors[c][h] BY <1>2, <1>5, <2>1, <2>2, RootAt
  <2>4. j + h - 1 \in 1 .. nr BY <1>7, <1>8
  <2>5. Ancestors[c][h] = Ancestors[r][j + h - 1] BY <1>7
  <2>6. i + (j + h - 1) - 1 \in 1 .. nd BY <1>6, <1>8, <2>4
  <2>7. Ancestors[r][j + h - 1] = Ancestors[d][i + (j + h - 1) - 1] BY <1>6, <2>4
  <2>8. m = i + (j + h - 1) - 1 BY <1>5, <2>1, <2>3, <2>5, <2>6, <2>7, AboveOnce
  <2>9. PICK g \in 1 .. nr : g = j + h - 1 BY <2>4
  <2>10. m = i + g - 1 /\ Ancestors[r][g] = Ancestors[d][m] BY <1>8, <2>7, <2>8, <2>9
  <2>11. \A k \in 1 .. nr : Ancestors[r][k] \in Local => g <= k
    <3> SUFFICES ASSUME NEW k \in 1 .. nr, Ancestors[r][k] \in Local PROVE g <= k OBVIOUS
    <3>1. i + k - 1 \in 1 .. nd /\ Ancestors[d][i + k - 1] \in Local BY <1>6, <1>8
    <3>2. m <= i + k - 1 BY <1>10, <3>1
    <3> QED BY <1>8, <2>10, <3>2
  <2>12. RootOf(r) = Ancestors[r][g] BY <1>1, <1>5, <1>10, <2>10, <2>11, RootIs
  <2> QED BY <1>10, <2>10, <2>12 DEF Under
<1> QED BY <1>5, <1>9, <1>10, RootAt

-----------------------------------------------------------------------------
(* The zones                                                                 *)

LEMMA UnderTyped == ASSUME NEW d \in Names, NEW c, Under(d, c) PROVE c \in Names
BY SuffixAt DEF Under

LEMMA DataExist ==
  ASSUME NEW n \in Names, NEW type \in RRTypes, Data(n, type) # {}
  PROVE  n \in Exist /\ (type = "CNAME" \/ Data(n, "CNAME") = {})
BY WorldAssumption

LEMMA OneAlias ==
  ASSUME NEW n \in Names, NEW d \in Data(n, "CNAME") PROVE d \in Names /\ Data(n, "CNAME") = {d}
<1>1. d \in Names /\ \A e \in Data(n, "CNAME") : e = d BY WorldAssumption
<1> QED BY <1>1

(* The name of a server, and what it is an alias of, lead to its addresses.  *)
LEMMA HostServes ==
  ASSUME NEW c \in Names, NEW h \in Hosts(c)
  PROVE  /\ h \in Names /\ Data(h, "CNAME") \subseteq Hosts(c)
         /\ Data(h, "A") \subseteq Masters(c) /\ Data(h, "AAAA") \subseteq Masters(c)
<1>1. h \in Names /\ Data(h, "CNAME") \subseteq Hosts(c) BY WorldAssumption
<1> QED BY <1>1 DEF Masters

(* What a server in charge sends is true of its zone, and, in a look-up of a *)
(* server, of all that may be taken for it.                                  *)
LEMMA MastersSpeak ==
  ASSUME NEW n \in Names, NEW c, Under(n, c), NEW a \in Masters(c), NEW type \in RRTypes,
         NEW p \in Packets(a, n, type)
  PROVE  /\ SetsTrue(p, c) /\ Truthful(p, n, type, {c})
         /\ \A e \in Names : type = "A" /\ n \in Hosts(e) =>
              Truthful(p, n, type, {c} \cup (Freed \ {None}))
<1>1. c \in Names BY UnderTyped
<1> QED BY <1>1, WorldAssumption

LEMMA SpecialIsTrue ==
  ASSUME NEW n \in Names, NEW kind, kind = Special(n), kind # "no", NEW type \in RRTypes \ {"ANY", "OPT"}
  PROVE  /\ Data(n, "CNAME") = {}
         /\ Synthetic(kind, type).rcode = 3 <=> n \notin Exist
         /\ Synthetic(kind, type).data = Data(n, type)
BY WorldAssumption

LEMMA SyntheticGlueIsTrue ==
  ASSUME NEW n \in Names, NEW kind, kind = Special(n), kind # "no"
  PROVE  SyntheticGlue(kind) \subseteq Data(n, "A")
<1>1. CASE kind \in {"ip4", "localhost"}
  <2>1. Synthetic(kind, "A") = [rcode |-> 0, data |-> {kind}] BY <1>1 DEF Synthetic
  <2>2. "A" \in RRTypes \ {"ANY", "OPT"} BY DEF RRTypes
  <2>3. Synthetic(kind, "A").data = Data(n, "A") BY <2>2, SpecialIsTrue
  <2> QED BY <1>1, <2>1, <2>3 DEF SyntheticGlue
<1>2. CASE kind \notin {"ip4", "localhost"} BY <1>2 DEF SyntheticGlue
<1> QED BY <1>1, <1>2

-----------------------------------------------------------------------------
(* The truth of the cache                                                    *)

LEMMA CachedTrue ==
  ASSUME SetsKnown(cache), NEW n, NEW type, Has(type, n)
  PROVE  IF type = "ANY" THEN n \notin Exist
         ELSE /\ n \in Exist /\ Cached(type, n) = Data(n, type)
              /\ type = "CNAME" \/ Data(n, "CNAME") = {}
<1>1. PICK key : key = <<type, n>> OBVIOUS
<1>2. key \in DOMAIN cache /\ key[1] = type /\ key[2] = n BY <1>1 DEF Has
<1>3. Cached(type, n) = cache[key] BY <1>1 DEF Cached
<1> QED BY <1>2, <1>3 DEF SetsKnown

LEMMA AliasInCache ==
  ASSUME SetsKnown(cache), NEW n \in Names, NEW to \in Cached("CNAME", n)
  PROVE  to \in Names /\ Data(n, "CNAME") = {to}
<1>1. Has("CNAME", n) BY DEF Cached
<1>2. Cached("CNAME", n) = Data(n, "CNAME") BY <1>1, CachedTrue
<1> QED BY <1>2, OneAlias

LEMMA GlueTrue ==
  ASSUME SetsKnown(cache), NEW c \in Names, NEW h \in Hosts(c) PROVE Glue(h) \subseteq Masters(c)
<1>1. ASSUME NEW type \in {"A", "AAAA"} PROVE Cached(type, h) \subseteq Data(h, type)
  <2>1. CASE Has(type, h)
    <3>1. type # "ANY" OBVIOUS
    <3> QED BY <2>1, <3>1, CachedTrue
  <2>2. CASE ~Has(type, h) BY <2>2 DEF Cached
  <2> QED BY <2>1, <2>2
<1>2. Cached("A", h) \subseteq Data(h, "A") /\ Cached("AAAA", h) \subseteq Data(h, "AAAA") BY <1>1
<1>3. Data(h, "A") \subseteq Masters(c) /\ Data(h, "AAAA") \subseteq Masters(c) BY HostServes
<1> QED BY <1>2, <1>3 DEF Glue

LEMMA StoredTrue == ASSUME SetsKnown(cache), NEW new, SetsKnown(new) PROVE SetsKnown(Stored(new))
BY DEF SetsKnown, Stored

Joins(all, a, b) ==
  /\ all \in Seq(Record) /\ Len(all) = Len(a) + Len(b)
  /\ \A i \in 1 .. Len(a) : all[i] = a[i]
  /\ \A i \in 1 .. Len(b) : all[Len(a) + i] = b[i]

LEMMA Joined ==
  ASSUME NEW a \in Seq(Record), NEW b \in Seq(Record) PROVE Joins(a \o b, a, b)
BY DEF Joins

(* The records of a packet, one section after the other.                     *)
Sectioned(all, a, b, c) ==
  /\ all \in Seq(Record)
  /\ \A i \in 1 .. Len(all) : all[i] \in Range(a) \cup Range(b) \cup Range(c)
  /\ \A i \in 1 .. Len(all) : i <= Len(a) => all[i] \in Range(a)
  /\ \A rr \in Range(a) : \E i \in 1 .. Len(all) : i <= Len(a) /\ all[i] = rr
  /\ \A rr \in Range(b) \cup Range(c) : \E i \in 1 .. Len(all) : all[i] = rr

LEMMA Sections ==
  ASSUME NEW a \in Seq(Record), NEW b \in Seq(Record), NEW c \in Seq(Record)
  PROVE  Sectioned(a \o b \o c, a, b, c)
<1>1. PICK ab : ab = a \o b OBVIOUS
<1>2. PICK all : all = a \o b \o c OBVIOUS
<1>3. PICK na, nb, nc : na = Len(a) /\ nb = Len(b) /\ nc = Len(c) OBVIOUS
<1>4. /\ ab \in Seq(Record) /\ Len(ab) = na + nb /\ na \in Nat /\ nb \in Nat
      /\ \A i \in 1 .. na : ab[i] = a[i]
      /\ \A i \in 1 .. nb : ab[na + i] = b[i]
  <2>1. Joins(ab, a, b) BY <1>1, Joined
  <2> QED BY <1>3, <2>1 DEF Joins
<1>5. /\ Len(all) = na + nb + nc /\ all \in Seq(Record) /\ nc \in Nat
      /\ \A i \in 1 .. na + nb : all[i] = ab[i]
      /\ \A i \in 1 .. nc : all[na + nb + i] = c[i]
  <2>1. Joins(ab \o c, ab, c) BY <1>4, Joined
  <2>2. all = ab \o c BY <1>1, <1>2
  <2>3. PICK m : m = Len(ab) OBVIOUS
  <2>4. Joins(all, ab, c) BY <2>1, <2>2
  <2>5. /\ Len(all) = m + nc /\ all \in Seq(Record) /\ nc \in Nat
        /\ \A i \in 1 .. m : all[i] = ab[i]
        /\ \A i \in 1 .. nc : all[m + i] = c[i]
    BY <1>3, <2>3, <2>4 DEF Joins
  <2> QED BY <1>4, <2>3, <2>5
<1>6. /\ Range(a) = {a[i] : i \in 1 .. na} /\ Range(b) = {b[i] : i \in 1 .. nb}
      /\ Range(c) = {c[i] : i \in 1 .. nc}
  <2>1. DOMAIN a = 1 .. na /\ DOMAIN b = 1 .. nb /\ DOMAIN c = 1 .. nc BY <1>3
  <2> QED BY <2>1 DEF Range
<1>7. \A i \in 1 .. na : all[i] = a[i]
  <2>1. \A i \in 1 .. na : i \in 1 .. na + nb BY <1>4
  <2> QED BY <1>4, <1>5, <2>1
<1>8. \A i \in 1 .. nb : all[na + i] = b[i]
  <2>1. \A i \in 1 .. nb : na + i \in 1 .. na + nb BY <1>4
  <2> QED BY <1>4, <1>5, <2>1
<1>9. ASSUME NEW i \in 1 .. Len(all) PROVE all[i] \in Range(a) \cup Range(b) \cup Range(c)
  <2>1. CASE i \in 1 .. na BY <1>6, <1>7, <2>1
  <2>2. CASE i - na \in 1 .. nb
    <3>1. PICK h \in 1 .. nb : h = i - na BY <2>2
    <3>2. i = na + h BY <1>4, <1>5, <3>1
    <3> QED BY <1>6, <1>8, <3>2
  <2>3. CASE i - (na + nb) \in 1 .. nc
    <3>1. PICK h \in 1 .. nc : h = i - (na + nb) BY <2>3
    <3>2. i = na + nb + h BY <1>4, <1>5, <3>1
    <3> QED BY <1>5, <1>6, <3>2
  <2> QED BY <1>4, <1>5, <2>1, <2>2, <2>3
<1>10. ASSUME NEW i \in 1 .. Len(all), i <= Len(a) PROVE all[i] \in Range(a)
  <2>1. i \in 1 .. na BY <1>3, <1>4, <1>5, <1>10
  <2> QED BY <1>6, <1>7, <2>1
<1>11. ASSUME NEW rr \in Range(a) PROVE \E i \in 1 .. Len(all) : i <= Len(a) /\ all[i] = rr
  <2>1. PICK i \in 1 .. na : rr = a[i] BY <1>6
  <2>2. i \in 1 .. Len(all) /\ i <= Len(a) BY <1>3, <1>4, <1>5
  <2> QED BY <1>7, <2>1, <2>2
<1>12. ASSUME NEW rr \in Range(b) PROVE \E i \in 1 .. Len(all) : all[i] = rr
  <2>1. PICK i \in 1 .. nb : rr = b[i] BY <1>6
  <2>2. na + i \in 1 .. Len(all) BY <1>3, <1>4, <1>5
  <2> QED BY <1>8, <2>1, <2>2
<1>13. ASSUME NEW rr \in Range(c) PROVE \E i \in 1 .. Len(all) : all[i] = rr
  <2>1. PICK i \in 1 .. nc : rr = c[i] BY <1>6
  <2>2. na + nb + i \in 1 .. Len(all) BY <1>3, <1>4, <1>5
  <2> QED BY <1>5, <2>1, <2>2
<1>14. Sectioned(all, a, b, c) BY <1>5, <1>9, <1>10, <1>11, <1>12, <1>13 DEF Sectioned
<1> QED BY <1>2, <1>14

LEMMA SavedTrue ==
  ASSUME NEW p \in PacketType, NEW control, SetsTrue(p, control) PROVE SetsKnown(Saved(p, control))
<1>1. PICK all : all = p.answer \o p.authority \o p.glue OBVIOUS
<1>2. PICK n \in Nat : n = Len(all) /\ DOMAIN all = 1 .. n
  <2>1. all \in Seq(Record) BY <1>1, PacketTyped
  <2> QED BY <2>1
<1>3. PICK key : key = [i \in 1 .. n |-> <<all[i].type, all[i].name>>] OBVIOUS
<1>4. PICK kept : kept = {i \in DOMAIN all : /\ Bailiwick(all[i].name, control)
                                             /\ all[i].type \notin {"ANY", "OPT", "NS"}
                                             /\ all[i].type = "SOA" => i <= Len(p.answer)}
  OBVIOUS
<1>5. PICK of : of = [k \in {key[i] : i \in kept} |-> {i \in kept : key[i] = k}] OBVIOUS
<1>6. kept \in SUBSET (1 .. n) BY <1>2, <1>4
<1>7. Saved(p, control) =
        [k \in {key[i] : i \in kept} |->
           IF k[1] = "CNAME" THEN {all[Max(of[k])].data} ELSE {all[i].data : i \in of[k]}]
  <2>1. \A i \in kept : key[i] = <<all[i].type, all[i].name>> BY <1>3, <1>6
  <2>2. {<<all[i].type, all[i].name>> : i \in kept} = {key[i] : i \in kept} BY <2>1
  <2>3. \A k \in {key[i] : i \in kept} : {i \in kept : <<all[i].type, all[i].name>> = k} = of[k]
    BY <1>5, <2>1
  <2>4. Saved(p, control) =
          [k \in {<<all[i].type, all[i].name>> : i \in kept} |->
             IF k[1] = "CNAME" THEN {all[Max({i \in kept : <<all[i].type, all[i].name>> = k})].data}
             ELSE {all[i].data : i \in {i \in kept : <<all[i].type, all[i].name>> = k}}]
    BY <1>1, <1>4 DEF Saved
  <2> QED BY <2>2, <2>3, <2>4
<1>8. DOMAIN Saved(p, control) = {key[i] : i \in kept} BY <1>7
<1>9. /\ all \in Seq(Record)
      /\ \A i \in 1 .. n : all[i] \in Range(p.answer) \cup Range(p.authority) \cup Range(p.glue)
      /\ \A i \in 1 .. n : i <= Len(p.answer) => all[i] \in Range(p.answer)
      /\ \A rr \in Range(p.answer) : \E i \in 1 .. n : i <= Len(p.answer) /\ all[i] = rr
      /\ \A rr \in Range(p.authority) \cup Range(p.glue) : \E i \in 1 .. n : all[i] = rr
  <2>1. PICK a \in Seq(Record), b \in Seq(Record), c \in Seq(Record) :
          a = p.answer /\ b = p.authority /\ c = p.glue
    BY PacketTyped
  <2>2. Sectioned(a \o b \o c, a, b, c) BY Sections
  <2>3. Sectioned(all, a, b, c) BY <1>1, <2>1, <2>2
  <2> QED BY <1>2, <2>1, <2>3 DEF Sectioned
<1>10. ASSUME NEW g \in kept, NEW k, k = key[g]
       PROVE  /\ k[1] # "ANY" /\ k[2] \in Exist /\ Saved(p, control)[k] = Data(k[2], k[1])
              /\ k[1] = "CNAME" \/ Data(k[2], "CNAME") = {}
  <2>1. k = <<all[g].type, all[g].name>> /\ g \in 1 .. n BY <1>3, <1>6, <1>10
  <2>2. all[g] \in Record BY <1>9, <2>1, <1>2, SomeRecord
  <2>3. PICK type \in RRTypes, d \in Names : type = k[1] /\ d = k[2] /\ k = <<type, d>>
    BY <2>1, <2>2, RecordTyped
  <2>4. type = all[g].type /\ d = all[g].name BY <2>1, <2>3
  <2>5. type \notin {"ANY", "OPT", "NS"} /\ Under(d, control) BY <1>4, <2>4 DEF Bailiwick, Under, roots_same
  <2>6. PICK shown : shown = Range(p.answer)
                       \cup (IF type = "SOA" THEN {} ELSE Range(p.authority) \cup Range(p.glue))
    OBVIOUS
  <2>7. PICK set : set = {rr.data : rr \in {rr \in shown : rr.name = d /\ rr.type = type}} OBVIOUS
  <2>8. set # {} => set = Data(d, type)
    <3>1. type \in RRTypes \ {"ANY", "OPT", "NS"} BY <2>5
    <3> QED BY <2>5, <2>6, <2>7, <3>1 DEF SetsTrue
  <2>9. \A i \in of[k] : i \in kept /\ i \in 1 .. n /\ all[i].name = d /\ all[i].type = type
    <3> SUFFICES ASSUME NEW i \in of[k]
                 PROVE i \in kept /\ i \in 1 .. n /\ all[i].name = d /\ all[i].type = type
      OBVIOUS
    <3>1. i \in kept /\ key[i] = k BY <1>5, <1>10
    <3>2. i \in 1 .. n /\ <<all[i].type, all[i].name>> = k BY <1>3, <1>6, <3>1
    <3> QED BY <2>3, <3>1, <3>2
  <2>10. \A i \in of[k] : all[i] \in shown
    <3> SUFFICES ASSUME NEW i \in of[k] PROVE all[i] \in shown OBVIOUS
    <3>1. CASE type = "SOA"
      <4>1. i <= Len(p.answer) BY <1>4, <2>9, <3>1
      <4> QED BY <1>9, <2>6, <2>9, <4>1
    <3>2. CASE type # "SOA" BY <1>9, <2>6, <2>9, <3>2
    <3> QED BY <3>1, <3>2
  <2>11. \A rr \in shown : rr.name = d /\ rr.type = type => \E i \in of[k] : all[i] = rr
    <3> SUFFICES ASSUME NEW rr \in shown, rr.name = d, rr.type = type
                 PROVE \E i \in of[k] : all[i] = rr
      OBVIOUS
    <3>1. PICK i \in 1 .. n : all[i] = rr /\ (type = "SOA" => i <= Len(p.answer))
      <4>1. CASE rr \in Range(p.answer) BY <1>9, <4>1
      <4>2. CASE rr \notin Range(p.answer) BY <1>9, <2>6, <4>2
      <4> QED BY <4>1, <4>2
    <3>2. i \in kept BY <1>2, <1>4, <2>5, <3>1 DEF Bailiwick, Under, roots_same
    <3>3. key[i] = k BY <1>3, <2>3, <3>1
    <3> QED BY <1>5, <1>10, <3>1, <3>2, <3>3
  <2>12. g \in of[k] BY <1>5, <1>10
  <2>13. set = {all[i].data : i \in of[k]} BY <2>7, <2>9, <2>10, <2>11
  <2>14. set = Data(d, type) /\ set # {} BY <2>8, <2>12, <2>13
  <2>15. d \in Exist /\ (type = "CNAME" \/ Data(d, "CNAME") = {}) BY <2>14, DataExist
  <2>16. Saved(p, control)[k] = Data(d, type)
    <3>1. CASE type # "CNAME" BY <1>7, <1>10, <2>3, <2>13, <2>14, <3>1
    <3>2. CASE type = "CNAME"
      <4>1. of[k] \in SUBSET (1 .. n) BY <2>9
      <4>2. Max(of[k]) \in of[k] BY <2>12, <4>1, MaxIsGreatest
      <4>3. PICK e : e = all[Max(of[k])].data OBVIOUS
      <4>4. e \in Data(d, "CNAME") BY <2>13, <2>14, <3>2, <4>2, <4>3
      <4>5. Saved(p, control)[k] = {e} BY <1>7, <1>10, <2>3, <3>2, <4>3
      <4> QED BY <3>2, <4>4, <4>5, OneAlias
    <3> QED BY <3>1, <3>2
  <2> QED BY <2>3, <2>5, <2>15, <2>16
<1>11. ASSUME NEW k \in DOMAIN Saved(p, control)
       PROVE  /\ k[1] # "ANY" /\ k[2] \in Exist /\ Saved(p, control)[k] = Data(k[2], k[1])
              /\ k[1] = "CNAME" \/ Data(k[2], "CNAME") = {}
  <2>1. PICK g \in kept : k = key[g] BY <1>8
  <2> QED BY <1>10, <2>1
<1> QED BY <1>11 DEF SetsKnown

(* A name that does not exist, and an empty set.                             *)
LEMMA NegativeTrue ==
  ASSUME NEW p, NEW d, NEW type, NEW empty, type \notin {"ANY", "OPT"},
         p.rcode = 3 => d \notin Exist,
         p.rcode # 3 /\ empty /\ HasSoa(p) =>
           d \in Exist /\ Data(d, type) = {} /\ (type = "CNAME" \/ Data(d, "CNAME") = {})
  PROVE  SetsKnown(Negative(p, d, type, empty))
<1>1. CASE p.rcode = 3
  <2>1. Negative(p, d, type, empty) = [k \in {<<"ANY", d>>} |-> {}] BY <1>1 DEF Negative
  <2> QED BY <1>1, <2>1 DEF SetsKnown
<1>2. CASE p.rcode # 3 /\ empty /\ HasSoa(p)
  <2>1. PICK new : new = [k \in {<<type, d>>} |-> {}] OBVIOUS
  <2>2. Negative(p, d, type, empty) = new BY <1>2, <2>1 DEF Negative
  <2>3. \A k \in DOMAIN new : k[1] = type /\ k[2] = d /\ new[k] = {} BY <2>1
  <2>4. SetsKnown(new) BY <1>2, <2>3 DEF SetsKnown
  <2> QED BY <2>2, <2>4
<1>3. CASE ~(p.rcode = 3) /\ ~(empty /\ HasSoa(p))
  <2>1. Negative(p, d, type, empty) = [k \in {} |-> {}] BY <1>3 DEF Negative
  <2> QED BY <2>1 DEF SetsKnown
<1> QED BY <1>1, <1>2, <1>3

-----------------------------------------------------------------------------
(* One struct query                                                          *)

(* Levels that are kept are still known, and a name may give way to another  *)
(* of a server of the zone below.                                            *)
LEMMA SoughtKept ==
  ASSUME NEW s, NEW t, Sought(s), s.level \in Levels, t.level \in Levels, t.level <= s.level,
         \A l \in Levels : l < t.level => /\ t.name[l] = s.name[l] /\ t.control[l] = s.control[l]
                                          /\ t.ns[l] = s.ns[l] /\ t.addrs[l] = s.addrs[l],
         t.level > 0 => \/ t.name[t.level] = s.name[t.level]
                        \/ t.name[t.level] \in Hosts(s.control[t.level - 1])
  PROVE  Sought(t)
<1> SUFFICES ASSUME NEW l \in Levels, l < t.level
             PROVE  Serving(t, l) /\ t.name[l + 1] \in Hosts(t.control[l])
  BY DEF Sought
<1>1. l \in Nat /\ t.level \in Nat /\ s.level \in Nat BY SomeLevels
<1>2. Serving(s, l) /\ s.name[l + 1] \in Hosts(s.control[l]) BY <1>1 DEF Sought
<1>3. Serving(t, l) BY <1>2 DEF Serving
<1>4. CASE l + 1 = t.level
  <2>1. t.level > 0 /\ l = t.level - 1 BY <1>1, <1>4
  <2> QED BY <1>2, <1>3, <1>4, <2>1
<1>5. CASE l + 1 # t.level
  <2>1. l + 1 \in Levels /\ l + 1 < t.level BY <1>1, <1>5, Constants DEF Levels
  <2> QED BY <1>2, <1>3, <2>1
<1> QED BY <1>4, <1>5

LEMMA SoughtPushed ==
  ASSUME NEW s, NEW t, Sought(s), Serving(s, s.level), s.level \in Levels, t.level = s.level + 1,
         \A l \in Levels : l <= s.level => /\ t.name[l] = s.name[l] /\ t.control[l] = s.control[l]
                                           /\ t.ns[l] = s.ns[l] /\ t.addrs[l] = s.addrs[l],
         t.name[t.level] \in Hosts(s.control[s.level])
  PROVE  Sought(t)
<1> SUFFICES ASSUME NEW l \in Levels, l < t.level
             PROVE  Serving(t, l) /\ t.name[l + 1] \in Hosts(t.control[l])
  BY DEF Sought
<1>1. l \in Nat /\ s.level \in Nat /\ l <= s.level BY SomeLevels
<1>2. CASE l = s.level
  <2>1. Serving(t, l) BY <1>1, <1>2 DEF Serving
  <2> QED BY <1>1, <1>2, <2>1
<1>3. CASE l # s.level
  <2>1. l < s.level BY <1>1, <1>3
  <2>2. l + 1 \in Levels /\ l + 1 <= s.level BY <1>1, <2>1, Constants DEF Levels
  <2>3. Serving(s, l) /\ s.name[l + 1] \in Hosts(s.control[l]) BY <2>1 DEF Sought
  <2>4. Serving(t, l) BY <1>1, <2>3 DEF Serving
  <2> QED BY <1>1, <2>2, <2>3, <2>4
<1> QED BY <1>2, <1>3

LEMMA ChainKept ==
  ASSUME NEW s, NEW t, Chain(s), t.alias = s.alias, t.name[0] = s.name[0] PROVE Chain(t)
BY DEF Chain

(* The client's name becomes an alias of the one that takes its place.       *)
LEMMA ChainMoved ==
  ASSUME NEW s, NEW t, Chain(s), s.alias \in Seq(Names), s.name[0] \in Names,
         t.alias = <<s.name[0]>> \o s.alias, Data(s.name[0], "CNAME") = {t.name[0]}
  PROVE  Chain(t)
<1>1. PICK n \in Nat : n = Len(s.alias) BY ElementOfSeq
<1>2. Len(t.alias) = n + 1 /\ t.alias[1] = s.name[0] BY <1>1
<1>3. \A i \in 1 .. n : t.alias[i + 1] = s.alias[i] BY <1>1
<1> SUFFICES ASSUME NEW i \in 1 .. n + 1
             PROVE  Data(t.alias[i], "CNAME") = {IF i = 1 THEN t.name[0] ELSE t.alias[i - 1]}
  BY <1>2 DEF Chain
<1>4. CASE i = 1 BY <1>2, <1>4
<1>5. CASE i # 1
  <2>1. PICK h \in 1 .. n : i = h + 1
    <3>1. i - 1 \in 1 .. n /\ i = (i - 1) + 1 BY <1>1, <1>5
    <3> QED BY <3>1
  <2>2. Data(s.alias[h], "CNAME") = {IF h = 1 THEN s.name[0] ELSE s.alias[h - 1]} BY <1>1 DEF Chain
  <2>3. t.alias[i] = s.alias[h] BY <1>3, <2>1
  <2>4. t.alias[i - 1] = IF h = 1 THEN s.name[0] ELSE s.alias[h - 1]
    <3>1. CASE h = 1 BY <1>2, <2>1, <3>1
    <3>2. CASE h # 1
      <4>1. PICK g \in 1 .. n : h = g + 1
        <5>1. h - 1 \in 1 .. n /\ h = (h - 1) + 1 BY <1>1, <3>2
        <5> QED BY <5>1
      <4>2. t.alias[g + 1] = s.alias[g] BY <1>3
      <4>3. i - 1 = g + 1 /\ h - 1 = g BY <2>1, <4>1
      <4> QED BY <3>2, <4>2, <4>3
    <3> QED BY <3>1, <3>2
  <2> QED BY <1>5, <2>2, <2>3, <2>4
<1> QED BY <1>4, <1>5

LEMMA PcTrue ==
  ASSUME NEW s \in QueryType, NEW pc, NEW x, NEW t, t = [s EXCEPT !.pc = pc], Known(s), Trust(s, x)
  PROVE  Known(t) /\ Trust(t, x) /\ t.pc = pc
<1>1. /\ t.level = s.level /\ t.name = s.name /\ t.control = s.control /\ t.ns = s.ns
      /\ t.addrs = s.addrs /\ t.alias = s.alias /\ t.j = s.j /\ t.type = s.type
      /\ t.packet = s.packet /\ t.flagempty = s.flagempty /\ t.pc = pc
  BY DEF QueryType
<1>2. \A l : Serving(s, l) => Serving(t, l) BY <1>1 DEF Serving
<1>3. Known(t) BY <1>1, <1>2 DEF Known, Chain, Sought
<1>4. Name(t) = Name(s) /\ Type(t) = Type(s) /\ \A c : Zones(t, c) = Zones(s, c)
  BY <1>1 DEF Name, Type, Zones
<1>5. \A upto : Spoken(s, upto) => Spoken(t, upto) BY <1>1, <1>4 DEF Spoken
<1>6. Trust(t, x)
  <2>1. x \notin {"newname", "alias", "lookup"} \/ t.level > 0 => t.type \notin {"ANY", "OPT"}
    BY <1>1 DEF Trust
  <2>2. x \in {"havens", "havensaddr"} =>
          (t.ns[t.level] # <<>> \/ t.addrs[t.level] # {} => Serving(t, t.level))
    BY <1>1, <1>2 DEF Trust
  <2>3. x \in {"wait", "havepacket"} => Serving(t, t.level) BY <1>1, <1>2 DEF Trust
  <2>4. x = "havepacket" =>
          \E a \in Masters(t.control[t.level]) : t.packet \in Packets(a, Name(t), Type(t))
    BY <1>1, <1>4 DEF Trust
  <2>5. x = "follow" => t.j <= Len(t.packet.answer) + 1 /\ Spoken(t, t.j - 1)
    BY <1>1, <1>5 DEF Trust
  <2>6. x = "judge" => Spoken(t, Len(t.packet.answer)) BY <1>1, <1>5 DEF Trust
  <2> QED BY <2>1, <2>2, <2>3, <2>4, <2>5, <2>6 DEF Trust
<1> QED BY <1>1, <1>3, <1>6

-----------------------------------------------------------------------------
(* Responses                                                                 *)

(* ReplyTrue, of a response.                                                 *)
Told(o) ==
  LET chain == <<o.name>> \o o.alias
      d == chain[Len(chain)]
  IN o.rcode \in {0, 3} /\ o.type \notin {"ANY", "OPT"} =>
       /\ \A i \in DOMAIN o.alias : Data(chain[i], "CNAME") = {chain[i + 1]}
       /\ o.rcode = 3 <=> d \notin Exist
       /\ o.rcode = 0 => /\ o.data = Data(d, o.type)
                         /\ o.type = "CNAME" \/ Data(d, "CNAME") = {} \/ d \in Loops

(* What may be said of the name at the end of the aliases.                   *)
Word(d, type, rcode, data) ==
  rcode \in {0, 3} /\ type \notin {"ANY", "OPT"} =>
    /\ rcode = 3 <=> d \notin Exist
    /\ rcode = 0 => data = Data(d, type) /\ (type = "CNAME" \/ Data(d, "CNAME") = {} \/ d \in Loops)

(* The names of a chain, each an alias of the next, end at d.                *)
Links(chain, rest, d) ==
  /\ chain[Len(chain)] = d
  /\ \A i \in DOMAIN rest : Data(chain[i], "CNAME") = {chain[i + 1]}

Sent(s, d) == Append(Reverse(s.alias), d)

(* The aliases are sent in the order in which they lead to the name.         *)
LEMMA ChainReversed ==
  ASSUME NEW s, s.alias \in Seq(Names), NEW d \in Names, d = s.name[0], Chain(s)
  PROVE  Links(<<Sent(s, d)[1]>> \o Tail(Sent(s, d)), Tail(Sent(s, d)), d)
<1>0. PICK all, chain : all = Append(Reverse(s.alias), d) /\ chain = <<all[1]>> \o Tail(all) OBVIOUS
<1>1. PICK n \in Nat : n = Len(s.alias)
  <2>1. Len(s.alias) \in Nat OBVIOUS
  <2> QED BY <2>1
<1>2. PICK rev : rev = Reverse(s.alias) OBVIOUS
<1>3. rev = [i \in 1 .. n |-> s.alias[(n - i) + 1]] BY <1>1, <1>2 DEF Reverse
<1>4. rev \in Seq(Names) /\ Len(rev) = n /\ \A i \in 1 .. n : rev[i] = s.alias[(n - i) + 1]
  <2>1. \A i \in 1 .. n : (n - i) + 1 \in 1 .. n BY <1>1
  <2>2. \A i \in 1 .. n : s.alias[(n - i) + 1] \in Names BY <1>1, <2>1, ElementOfSeq
  <2> QED BY <1>3, <2>2
<1>5. all \in Seq(Names) /\ Len(all) = n + 1 /\ all[n + 1] = d /\ \A i \in 1 .. n : all[i] = rev[i]
  BY <1>0, <1>2, <1>4
<1>6. PICK rest : rest = Tail(all) OBVIOUS
<1>7. rest \in Seq(Names) /\ Len(rest) = n /\ \A i \in 1 .. n : rest[i] = all[i + 1]
  BY <1>5, <1>6
<1>8. Len(chain) = n + 1 /\ \A i \in 1 .. n + 1 : chain[i] = all[i]
  <2>1. PICK a \in Names : a = all[1] BY <1>5, ElementOfSeq
  <2>2. chain = <<a>> \o rest BY <1>0, <1>6, <2>1
  <2>3. Len(chain) = n + 1 /\ chain[1] = a /\ \A i \in 1 .. n : chain[i + 1] = rest[i]
    BY <1>7, <2>2
  <2>4. ASSUME NEW i \in 1 .. n + 1 PROVE chain[i] = all[i]
    <3>1. CASE i = 1 BY <2>1, <2>3, <3>1
    <3>2. CASE i # 1
      <4>1. PICK h \in 1 .. n : i = h + 1
        <5>1. i - 1 \in 1 .. n /\ i = (i - 1) + 1 BY <1>1, <3>2
        <5> QED BY <5>1
      <4> QED BY <1>7, <2>3, <4>1
    <3> QED BY <3>1, <3>2
  <2> QED BY <2>3, <2>4
<1>9. ASSUME NEW i \in 1 .. n PROVE Data(chain[i], "CNAME") = {chain[i + 1]}
  <2>1. PICK k \in 1 .. n : k = (n - i) + 1
    <3>1. (n - i) + 1 \in 1 .. n BY <1>1
    <3> QED BY <3>1
  <2>2. Data(s.alias[k], "CNAME") = {IF k = 1 THEN s.name[0] ELSE s.alias[k - 1]} BY <1>1 DEF Chain
  <2>3. i \in 1 .. n + 1 /\ i + 1 \in 1 .. n + 1 BY <1>1
  <2>4. chain[i] = s.alias[k] BY <1>4, <1>5, <1>8, <2>1, <2>3
  <2>5. chain[i + 1] = all[i + 1] BY <1>8, <2>3
  <2>6. CASE k = 1
    <3>1. i = n BY <1>1, <2>1, <2>6
    <3> QED BY <1>5, <2>2, <2>4, <2>5, <2>6, <3>1
  <2>7. CASE k # 1
    <3>1. i + 1 \in 1 .. n /\ (n - (i + 1)) + 1 = k - 1 BY <1>1, <2>1, <2>7
    <3>2. all[i + 1] = s.alias[k - 1] BY <1>4, <1>5, <3>1
    <3> QED BY <2>2, <2>4, <2>5, <2>7, <3>2
  <2> QED BY <2>6, <2>7
<1>10. DOMAIN rest = 1 .. n BY <1>7
<1>11. chain[Len(chain)] = d
  <2>1. n + 1 \in 1 .. n + 1 BY <1>1
  <2> QED BY <1>5, <1>8, <2>1
<1>12. Links(chain, rest, d) BY <1>9, <1>10, <1>11 DEF Links
<1>13. all = Sent(s, d) BY <1>0 DEF Sent
<1> QED BY <1>0, <1>6, <1>12, <1>13

-----------------------------------------------------------------------------
(* Steps of a query, and the truth                                           *)

(* What an action at a label of doit() knows.                                *)
LEMMA KnownAt ==
  ASSUME TInv, NEW q \in Clients, NEW pc \in Pcs \ {"idle"}, z[q].pc = pc
  PROVE  Known(z[q]) /\ Trust(z[q], pc) /\ SetsKnown(cache)
BY DEF TInv

LEMMA MovedTrue ==
  ASSUME IInv, TInv, NEW q \in Clients, NEW t, z' = [z EXCEPT ![q] = t],
         t = Idle \/ (Known(t) /\ Trust(t, t.pc)), SetsKnown(cache'), Told(out') \/ out' = out
  PROVE  TInv'
<1>1. z \in [Clients -> QueryType] BY DEF IInv
<1>2. ASSUME NEW p \in Clients, z'[p].pc # "idle" PROVE Known(z'[p]) /\ Trust(z'[p], z'[p].pc)
  <2>1. CASE p = q
    <3>1. z'[p] = t BY <1>1, <2>1
    <3> QED BY <1>2, <3>1, IdleTyped
  <2>2. CASE p # q
    <3>1. z'[p] = z[p] BY <1>1, <2>2
    <3> QED BY <1>2, <3>1 DEF TInv
  <2> QED BY <2>1, <2>2
<1>3. ReplyTrue'
  <2>1. CASE Told(out') BY <2>1 DEF Told, ReplyTrue
  <2>2. CASE out' = out BY <2>2 DEF TInv, ReplyTrue
  <2> QED BY <2>1, <2>2
<1>4. SetsKnown(cache)' OBVIOUS
<1>5. (\A p \in Clients : z[p].pc # "idle" => Known(z[p]) /\ Trust(z[p], z[p].pc))' BY <1>2
<1> QED BY <1>3, <1>4, <1>5 DEF TInv

LEMMA GotoTrue ==
  ASSUME IInv, TInv, NEW q \in Clients, NEW s, NEW pc, s \in QueryType, Known(s), Trust(s, pc),
         Goto(q, s, pc), SetsKnown(cache')
  PROVE  TInv'
<1>1. PICK t : t = [s EXCEPT !.pc = pc] OBVIOUS
<1>2. Known(t) /\ Trust(t, pc) /\ t.pc = pc BY <1>1, PcTrue
<1>3. z' = [z EXCEPT ![q] = t] /\ out' = out BY <1>1 DEF Goto
<1> QED BY <1>2, <1>3, MovedTrue

LEMMA FinishTrue ==
  ASSUME IInv, TInv, NEW q \in Clients, NEW s, NEW rcode, NEW data, s \in QueryType, s.name[0] # None,
         Known(s), Word(s.name[0], s.type, rcode, data), Finish(q, s, rcode, data), SetsKnown(cache')
  PROVE  TInv'
<1>1. PICK t : t = Idle OBVIOUS
<1>2. z' = [z EXCEPT ![q] = t] BY <1>1 DEF Finish
<1>3. PICK d \in Names : d = s.name[0] BY SomeLevels DEF QueryType
<1>4. PICK all : all = Append(Reverse(s.alias), d) OBVIOUS
<1>5. PICK rest : rest = Tail(all) OBVIOUS
<1>6. /\ out'.name = all[1] /\ out'.type = s.type /\ out'.rcode = rcode /\ out'.alias = rest
      /\ out'.data = data
  BY <1>3, <1>4, <1>5 DEF Finish
<1>7. PICK chain : chain = <<all[1]>> \o rest OBVIOUS
<1>8. chain[Len(chain)] = d /\ \A i \in DOMAIN rest : Data(chain[i], "CNAME") = {chain[i + 1]}
  <2>1. s.alias \in Seq(Names) /\ Chain(s) BY DEF QueryType, Known
  <2>2. Links(<<Sent(s, d)[1]>> \o Tail(Sent(s, d)), Tail(Sent(s, d)), d)
    BY <1>3, <2>1, ChainReversed
  <2>3. Links(chain, rest, d)
    <3>1. all = Sent(s, d) BY <1>4 DEF Sent
    <3> QED BY <1>5, <1>7, <2>2, <3>1
  <2> QED BY <2>3 DEF Links
<1>9. Told(out') BY <1>3, <1>6, <1>7, <1>8 DEF Told, Word
<1> QED BY <1>1, <1>2, <1>9, MovedTrue

LEMMA DieTrue ==
  ASSUME IInv, TInv, NEW q \in Clients, NEW s, Valid(s), Known(s), DIE(q, s), SetsKnown(cache')
  PROVE  TInv'
<1>1. s \in QueryType /\ s.name[0] # None
  <2>1. 0 <= s.level BY ValidTyped, SomeLevels
  <2> QED BY <2>1, SomeLevels DEF Valid, Stack
<1>2. PICK rcode, data : rcode = -1 /\ data = {} OBVIOUS
<1>3. Word(s.name[0], s.type, rcode, data) BY <1>2 DEF Word
<1>4. Finish(q, s, rcode, data) BY <1>2 DEF DIE
<1> QED BY <1>1, <1>3, <1>4, FinishTrue

LEMMA AddWithin ==
  ASSUME NEW old, NEW new, Room(old), new \subseteq Addrs, IsFiniteSet(new)
  PROVE  Add(old, new) \subseteq old \cup new
<1>1. PICK more : more = new \ old OBVIOUS
<1>2. PICK room : room = QUERY_MAXNS_ADDR - Cardinality(old) OBVIOUS
<1>3. IsFiniteSet(more) BY <1>1, FS_Difference
<1>4. Cardinality(old) \in Nat /\ Cardinality(more) \in Nat BY <1>3, FS_CardinalityType DEF Room
<1>5. room \in Nat BY <1>2, <1>4, Constants DEF Room
<1>6. CASE Cardinality(more) <= room
  <2>1. Add(old, new) = old \cup more BY <1>1, <1>2, <1>6 DEF Add
  <2> QED BY <1>1, <2>1
<1>7. CASE ~(Cardinality(more) <= room)
  <2>1. Add(old, new) = old \cup (CHOOSE part \in SUBSET more : Cardinality(part) = room)
    BY <1>1, <1>2, <1>7 DEF Add
  <2>2. \E part \in SUBSET more : Cardinality(part) = room BY <1>3, <1>4, <1>5, <1>7, SubsetOfSize
  <2>3. PICK part : part = (CHOOSE p \in SUBSET more : Cardinality(p) = room) OBVIOUS
  <2>4. part \in SUBSET more BY <2>2, <2>3
  <2> QED BY <1>1, <2>1, <2>3, <2>4
<1> QED BY <1>6, <1>7

(* Back to the level below, whose servers are as they were but for a.        *)
LEMMA PoppedTrue ==
  ASSUME NEW s, Valid(s), Known(s), s.level > 0, NEW l \in Levels, l = s.level - 1,
         s.type \notin {"ANY", "OPT"}, NEW a \in SUBSET Addrs, a \subseteq Masters(s.control[l]),
         NEW r, r = Popped(Put(s, l, a))
  PROVE  Known(r) /\ Trust(r, "havens")
<1>1. s \in QueryType /\ s.level \in Levels /\ l \in Nat /\ s.level \in Nat /\ l < s.level
  <2>1. s \in QueryType /\ s.level \in Levels BY ValidTyped DEF Valid
  <2>2. l \in Nat /\ s.level \in Nat BY <2>1, SomeLevels
  <2> QED BY <2>1, <2>2
<1>2. PICK up \in Levels : up = s.level /\ up # l BY <1>1
<1>3. PICK t : t = Put(s, l, a) OBVIOUS
<1>4. t \in QueryType /\ t.level = up /\ t.name = s.name /\ t.control = s.control /\ t.ns = s.ns
      /\ t.alias = s.alias /\ t.type = s.type
      /\ t.addrs = [s.addrs EXCEPT ![l] = a]
  BY <1>1, <1>2, <1>3 DEF QueryType, Put
<1>5. /\ r.level = l /\ r.name = [s.name EXCEPT ![up] = None] /\ r.control = s.control
      /\ r.ns = [s.ns EXCEPT ![up] = <<>>] /\ r.addrs = [t.addrs EXCEPT ![up] = {}]
      /\ r.alias = s.alias /\ r.type = s.type
  <2>1. r = Popped(t) BY <1>3
  <2>2. PICK name, ns, addrs : /\ name = [t.name EXCEPT ![up] = None] /\ ns = [t.ns EXCEPT ![up] = <<>>]
                               /\ addrs = [t.addrs EXCEPT ![up] = {}]
    OBVIOUS
  <2>3. t.level = up /\ up - 1 = l BY <1>1, <1>2, <1>4
  <2>4. r = [t EXCEPT !.name = name, !.ns = ns, !.addrs = addrs, !.level = l]
    BY <1>4, <2>1, <2>2, <2>3 DEF QueryType, Popped
  <2>5. /\ r.level = l /\ r.name = name /\ r.ns = ns /\ r.addrs = addrs /\ r.control = t.control
        /\ r.alias = t.alias /\ r.type = t.type
    BY <1>4, <2>4 DEF QueryType
  <2> QED BY <1>4, <2>2, <2>5
<1>6. /\ \A k \in Levels : k # up => r.name[k] = s.name[k] /\ r.ns[k] = s.ns[k]
      /\ \A k \in Levels : k # up /\ k # l => r.addrs[k] = s.addrs[k]
      /\ r.addrs[l] = a
  BY <1>1, <1>2, <1>4, <1>5 DEF QueryType
<1>7. Sought(s) /\ Chain(s) /\ Serving(s, l) BY <1>1 DEF Known, Sought
<1>8. Serving(r, l) BY <1>2, <1>5, <1>6, <1>7 DEF Serving
<1>9. Sought(r)
  <2>1. \A k \in Levels : k < l => k # up /\ k # l BY <1>1, <1>2, SomeLevels
  <2>2. \A k \in Levels : k < r.level => /\ r.name[k] = s.name[k] /\ r.control[k] = s.control[k]
                                         /\ r.ns[k] = s.ns[k] /\ r.addrs[k] = s.addrs[k]
    BY <1>5, <1>6, <2>1
  <2>3. r.level \in Levels /\ r.level <= s.level /\ r.name[r.level] = s.name[r.level]
    BY <1>1, <1>2, <1>5, <1>6
  <2> QED BY <1>1, <1>7, <2>2, <2>3, SoughtKept
<1>10. Chain(r)
  <2>1. r.name[0] = s.name[0] BY <1>1, <1>2, <1>6, SomeLevels
  <2> QED BY <1>5, <1>7, <2>1, ChainKept
<1>11. Trust(r, "havens") BY <1>5, <1>8 DEF Trust
<1> QED BY <1>9, <1>10, <1>11 DEF Known

LEMMA PoppedTyped ==
  ASSUME NEW s, Valid(s), s.level > 0, NEW l \in Levels, l = s.level - 1, NEW a, Room(a),
         NEW r, r = Popped(Put(s, l, a))
  PROVE  r \in QueryType
<1>1. PICK t : t = Put(s, l, a) OBVIOUS
<1>2. l <= s.level
  <2>1. l \in Nat /\ s.level \in Nat BY ValidTyped, SomeLevels
  <2> QED BY <2>1
<1>3. Valid(t) /\ t.level = s.level BY <1>1, <1>2, AddrsSet
<1> QED BY <1>1, <1>3, PoppedValid DEF Valid

LEMMA LowerTrue ==
  ASSUME IInv, TInv, NEW q \in Clients, NEW s, Valid(s), Known(s), s.level > 0,
         s.type \notin {"ANY", "OPT"}, NEW addrs \in SUBSET Addrs, IsFiniteSet(addrs),
         addrs \subseteq Masters(s.control[s.level - 1]),
         LOWERLEVEL(q, s, addrs), SetsKnown(cache')
  PROVE  TInv'
<1>1. s.level \in Levels BY ValidTyped
<1>2. PICK l \in Levels : l = s.level - 1 BY <1>1, LevelBelow
<1>3. PICK a : a = Add(s.addrs[l], addrs) OBVIOUS
<1>4. PICK r : r = Popped(Put(s, l, a)) OBVIOUS
<1>5. Goto(q, r, "havens") BY <1>2, <1>3, <1>4 DEF LOWERLEVEL, Put
<1>6. Room(s.addrs[l]) BY DEF Valid, Held
<1>7. Room(a) BY <1>3, <1>6, AddKeepsRoom
<1>8. Serving(s, l)
  <2>1. l \in Nat /\ s.level \in Nat BY <1>1, SomeLevels
  <2>2. l < s.level BY <1>2, <2>1
  <2> QED BY <2>2 DEF Known, Sought
<1>9. a \in SUBSET Addrs /\ a \subseteq Masters(s.control[l])
  <2>1. a \subseteq s.addrs[l] \cup addrs BY <1>3, <1>6, AddWithin
  <2> QED BY <1>2, <1>7, <1>8, <2>1 DEF Serving, Room
<1>10. Known(r) /\ Trust(r, "havens") BY <1>2, <1>4, <1>9, PoppedTrue
<1>11. r \in QueryType BY <1>2, <1>4, <1>7, PoppedTyped
<1> QED BY <1>5, <1>10, <1>11, GotoTrue

(* A failure, or the word that there is no such name.                        *)
LEMMA ServfailTrue ==
  ASSUME IInv, TInv, NEW q \in Clients, NEW s, Valid(s), Known(s),
         s.level > 0 => s.type \notin {"ANY", "OPT"},
         SERVFAIL(q, s) \/ (NXDOMAIN(q, s) /\ (s.level = 0 => s.name[0] \notin Exist)),
         SetsKnown(cache')
  PROVE  TInv'
<1>1. CASE s.level > 0
  <2>1. PICK addrs : addrs = {} OBVIOUS
  <2>2. LOWERLEVEL(q, s, addrs) BY <1>1, <2>1 DEF SERVFAIL, NXDOMAIN
  <2>3. addrs \in SUBSET Addrs /\ IsFiniteSet(addrs) /\ addrs \subseteq Masters(s.control[s.level - 1])
    BY <2>1, FS_EmptySet
  <2> QED BY <1>1, <2>2, <2>3, LowerTrue
<1>2. CASE ~(s.level > 0)
  <2>1. s.level = 0 BY <1>2, ValidTyped, SomeLevels
  <2>2. PICK data : data = {} OBVIOUS
  <2>3. s \in QueryType /\ s.name[0] # None BY <2>1, ValidTyped, Constants DEF Valid, Name
  <2>4. PICK rcode \in {2, 3} : Finish(q, s, rcode, data) /\ (rcode = 3 => s.name[0] \notin Exist)
    BY <1>2, <2>1, <2>2 DEF SERVFAIL, NXDOMAIN
  <2>5. Word(s.name[0], s.type, rcode, data) BY <2>4 DEF Word
  <2> QED BY <2>3, <2>4, <2>5, FinishTrue
<1> QED BY <1>1, <1>2

LEMMA HavensTrue ==
  ASSUME IInv, TInv, NEW q \in Clients, NEW s, Valid(s), Known(s), s.type \notin {"ANY", "OPT"},
         s.ns[s.level] = <<>> \/ (/\ Under(Name(s), s.control[s.level])
                                  /\ Range(s.ns[s.level]) \subseteq Hosts(s.control[s.level])),
         HAVENS(q, s), SetsKnown(cache')
  PROVE  TInv'
<1>1. PICK l \in Levels : l = s.level BY ValidTyped
<1>2. PICK a : a = {} OBVIOUS
<1>3. PICK t : t = Put(s, l, a) OBVIOUS
<1>4. Goto(q, t, "havens") BY <1>1, <1>2, <1>3 DEF HAVENS, Put
<1>5. s \in QueryType /\ Chain(s) /\ Sought(s) BY DEF Valid, Known
<1>6. /\ t.level = l /\ t.name = s.name /\ t.control = s.control /\ t.ns = s.ns
      /\ t.addrs = [s.addrs EXCEPT ![l] = a] /\ t.alias = s.alias /\ t.type = s.type
  BY <1>1, <1>3, <1>5 DEF QueryType, Put
<1>7. l \in Nat /\ l <= s.level
  <2>1. l \in Nat BY SomeLevels
  <2> QED BY <1>1, <2>1
<1>8. t \in QueryType
  <2>1. Room(a) BY <1>2, NoAddresses
  <2> QED BY <1>3, <1>7, <2>1, AddrsSet DEF Valid
<1>9. t.addrs[l] = {} /\ \A k \in Levels : k # l => t.addrs[k] = s.addrs[k]
  BY <1>2, <1>5, <1>6 DEF QueryType
<1>10. Chain(t) BY <1>5, <1>6, ChainKept
<1>11. Sought(t)
  <2>1. \A k \in Levels : k < l => k # l BY SomeLevels
  <2>2. \A k \in Levels : k < t.level => /\ t.name[k] = s.name[k] /\ t.control[k] = s.control[k]
                                         /\ t.ns[k] = s.ns[k] /\ t.addrs[k] = s.addrs[k]
    BY <1>6, <1>9, <2>1
  <2>3. t.name[t.level] = s.name[t.level] /\ t.level \in Levels /\ s.level \in Levels
        /\ t.level <= s.level
    BY <1>1, <1>6, <1>7
  <2> QED BY <1>5, <2>2, <2>3, SoughtKept
<1>12. t.ns[l] # <<>> => Serving(t, l) BY <1>1, <1>6, <1>9 DEF Serving, Name
<1>13. Trust(t, "havens") BY <1>6, <1>9, <1>12 DEF Trust
<1> QED BY <1>4, <1>8, <1>10, <1>11, <1>13, GotoTrue DEF Known

-----------------------------------------------------------------------------
(* The actions, and the truth                                                *)

LEMMA KnownSame ==
  ASSUME NEW s, NEW t, Known(s), s.level \in Levels,
         t.level = s.level, t.name = s.name, t.control = s.control, t.ns = s.ns, t.addrs = s.addrs,
         t.alias = s.alias
  PROVE  Known(t) /\ \A l : Serving(s, l) => Serving(t, l)
BY DEF Known, Chain, Sought, Serving

LEMMA BeforeServers ==
  ASSUME NEW s, NEW pc \in {"newname", "alias", "lookup"}, s.level > 0 => s.type \notin {"ANY", "OPT"}
  PROVE  Trust(s, pc)
BY DEF Trust

(* The name of an upper level is that of a server of the zone below.         *)
LEMMA NameIsHost ==
  ASSUME NEW s, Valid(s), Known(s), s.level > 0
  PROVE  /\ s.level - 1 \in Levels /\ s.control[s.level - 1] \in Names
         /\ Serving(s, s.level - 1) /\ Name(s) \in Hosts(s.control[s.level - 1])
<1>1. PICK l \in Levels : l = s.level - 1 BY ValidTyped, LevelBelow
<1>2. s.level \in Nat /\ l \in Nat BY ValidTyped, SomeLevels
<1>3. l < s.level /\ l + 1 = s.level BY <1>1, <1>2
<1>4. Serving(s, l) /\ s.name[l + 1] \in Hosts(s.control[l]) BY <1>3 DEF Known, Sought
<1>5. s.name[l] \in Names
  <2>1. l <= s.level BY <1>2, <1>3
  <2>2. s.name[l] # None BY <2>1 DEF Valid, Stack
  <2> QED BY <2>2, ValidTyped
<1>6. s.control[l] \in Names BY <1>4, <1>5, UnderTyped DEF Serving
<1> QED BY <1>1, <1>3, <1>4, <1>6 DEF Name

LEMMA LevelZero ==
  ASSUME NEW s, Valid(s), ~(s.level > 0)
  PROVE  s.level = 0 /\ Name(s) = s.name[0] /\ s.name[0] \in Names /\ s.name[0] # None
<1>1. s.level = 0
  <2>1. s.level \in Nat BY ValidTyped, SomeLevels
  <2> QED BY <2>1
<1> QED BY <1>1, ValidTyped, Constants DEF Name

LEMMA StartTrue ==
  ASSUME IInv, TInv, NEW q \in Clients, NEW n \in Names, NEW type \in RRTypes, Start(q, n, type)
  PROVE  TInv'
<1>1. PICK t : t = [Idle EXCEPT !.pc = "newname", !.name[0] = n, !.type = type] OBVIOUS
<1>2. t.pc = "newname" /\ t.level = 0 /\ t.alias = <<>> BY <1>1 DEF Idle
<1>3. z' = [z EXCEPT ![q] = t] /\ out' = out /\ cache' = cache BY <1>1 DEF Start
<1>4. Known(t)
  <2>1. \A l \in Levels : ~(l < 0) BY SomeLevels
  <2>2. Len(<<>>) = 0 OBVIOUS
  <2> QED BY <1>2, <2>1, <2>2 DEF Known, Chain, Sought
<1>5. Trust(t, "newname") BY <1>2, BeforeServers
<1>6. SetsKnown(cache') BY <1>3 DEF TInv
<1> QED BY <1>2, <1>3, <1>4, <1>5, <1>6, MovedTrue

(* Another name is counted.                                                  *)
LEMMA NameCounted ==
  ASSUME NEW r, Valid(r), NEW s, s = [r EXCEPT !.loop = @ + 1, !.any = FALSE]
  PROVE  /\ Valid(s) /\ s.level = r.level /\ s.type = r.type /\ (Known(r) => Known(s))
<1>1. r \in QueryType BY DEF Valid
<1>2. s \in QueryType
  <2>1. PICK n : n = r.loop + 1 OBVIOUS
  <2>2. n \in Nat BY <1>1, <2>1 DEF QueryType
  <2>3. s = [r EXCEPT !.loop = n, !.any = FALSE] BY <2>1
  <2> QED BY <1>1, <2>2, <2>3 DEF QueryType
<1>3. /\ s.level = r.level /\ s.name = r.name /\ s.control = r.control
      /\ s.ns = r.ns /\ s.addrs = r.addrs /\ s.alias = r.alias /\ s.type = r.type
  BY <1>1 DEF QueryType
<1>4. Known(r) => Known(s) BY <1>1, <1>3, KnownSame DEF QueryType
<1> QED BY <1>2, <1>3, <1>4, SameTables

LEMMA NewnameTrue == ASSUME IInv, TInv, NEW q \in Clients, NEWNAME(q) PROVE TInv'
<1>1. At(q, "newname") /\ cache' = cache BY DEF NEWNAME
<1>2. running = q /\ Valid(z[q]) BY <1>1, AtPlace DEF Pcs
<1>3. Known(z[q]) /\ Trust(z[q], "newname") /\ SetsKnown(cache) /\ SetsKnown(cache')
  BY <1>1, KnownAt DEF At, Pcs
<1>4. PICK s : s = [z[q] EXCEPT !.loop = @ + 1, !.any = FALSE] OBVIOUS
<1>5. Valid(s) /\ s.level = z[q].level /\ s.type = z[q].type /\ Known(s) BY <1>2, <1>3, <1>4, NameCounted
<1>6. s.level > 0 => s.type \notin {"ANY", "OPT"} BY <1>3, <1>5 DEF Trust
<1>7. PICK kind : kind = Special(Name(s)) OBVIOUS
<1>8. PICK reply : reply = Synthetic(kind, s.type) OBVIOUS
<1>9. PICK d \in Names : d = Name(s) BY <1>5, ValidTyped
<1>10. \/ DIE(q, s)
       \/ kind # "no" /\ s.level > 0 /\ LOWERLEVEL(q, s, SyntheticGlue(kind))
       \/ kind # "no" /\ ~(s.level > 0) /\ Finish(q, s, reply.rcode, reply.data)
       \/ Has("ANY", d) /\ NXDOMAIN(q, s)
       \/ Goto(q, s, "alias")
  <2>1. s.loop \in Nat BY <1>5, ValidTyped
  <2>2. s.loop >= MaxNames \/ s.loop < MaxNames BY <2>1, Constants
  <2>3. CASE s.loop >= MaxNames
    <3>1. ~(s.loop < MaxNames) BY <2>1, <2>3, Constants
    <3> QED BY <1>4, <1>7, <1>8, <2>3, <3>1 DEF NEWNAME
  <2>4. CASE s.loop < MaxNames
    <3>1. ~(s.loop >= MaxNames) BY <2>1, <2>4, Constants
    <3> QED BY <1>4, <1>7, <1>8, <1>9, <2>4, <3>1 DEF NEWNAME
  <2> QED BY <2>2, <2>3, <2>4
<1>11. CASE DIE(q, s) BY <1>3, <1>5, <1>11, DieTrue
<1>12. CASE kind # "no" /\ s.level > 0 /\ LOWERLEVEL(q, s, SyntheticGlue(kind))
  <2>1. PICK glue : glue = SyntheticGlue(kind) OBVIOUS
  <2>2. glue \in SUBSET Addrs /\ IsFiniteSet(glue)
    BY <2>1, Constants, FS_EmptySet, FS_Singleton DEF SyntheticGlue
  <2>3. s.control[s.level - 1] \in Names /\ d \in Hosts(s.control[s.level - 1])
    BY <1>5, <1>9, <1>12, NameIsHost
  <2>4. glue \subseteq Data(d, "A") BY <1>7, <1>9, <1>12, <2>1, SyntheticGlueIsTrue
  <2>5. glue \subseteq Masters(s.control[s.level - 1]) BY <2>3, <2>4, HostServes
  <2> QED BY <1>3, <1>5, <1>6, <1>12, <2>1, <2>2, <2>5, LowerTrue
<1>13. CASE kind # "no" /\ ~(s.level > 0) /\ Finish(q, s, reply.rcode, reply.data)
  <2>1. s.name[0] = d /\ s.name[0] # None BY <1>5, <1>9, <1>13, LevelZero
  <2>2. s.type \in RRTypes /\ s \in QueryType BY <1>5, ValidTyped DEF Valid
  <2>3. ASSUME s.type \notin {"ANY", "OPT"}
        PROVE  /\ reply.rcode = 3 <=> d \notin Exist
               /\ reply.data = Data(d, s.type) /\ Data(d, "CNAME") = {}
    <3>1. s.type \in RRTypes \ {"ANY", "OPT"} BY <2>2, <2>3
    <3> QED BY <1>7, <1>8, <1>9, <1>13, <3>1, SpecialIsTrue
  <2>4. Word(s.name[0], s.type, reply.rcode, reply.data) BY <2>1, <2>3 DEF Word
  <2> QED BY <1>3, <1>5, <1>13, <2>1, <2>2, <2>4, FinishTrue
<1>14. CASE Has("ANY", d) /\ NXDOMAIN(q, s)
  <2>1. d \notin Exist BY <1>3, <1>14, CachedTrue
  <2>2. s.level = 0 => s.name[0] = d BY <1>9 DEF Name
  <2> QED BY <1>3, <1>5, <1>6, <1>14, <2>1, <2>2, ServfailTrue
<1>15. CASE Goto(q, s, "alias")
  <2>1. Trust(s, "alias") BY <1>6, BeforeServers
  <2>2. s \in QueryType BY <1>5 DEF Valid
  <2> QED BY <1>3, <1>5, <1>15, <2>1, <2>2, GotoTrue
<1> QED BY <1>10, <1>11, <1>12, <1>13, <1>14, <1>15

LEMMA CachedAliasTrue == ASSUME IInv, TInv, NEW q \in Clients, CachedAlias(q) PROVE TInv'
<1>1. At(q, "alias") /\ cache' = cache BY DEF CachedAlias
<1>2. running = q /\ Valid(z[q]) BY <1>1, AtPlace DEF Pcs
<1>3. Known(z[q]) /\ Trust(z[q], "alias") /\ SetsKnown(cache) /\ SetsKnown(cache')
  BY <1>1, KnownAt DEF At, Pcs
<1>4. PICK s : s = z[q] OBVIOUS
<1>5. Valid(s) /\ s \in QueryType /\ Known(s) /\ Chain(s) /\ Sought(s) BY <1>2, <1>3, <1>4 DEF Valid, Known
<1>6. s.level > 0 => s.type \notin {"ANY", "OPT"} BY <1>3, <1>4 DEF Trust
<1>7. PICK to : to = (CHOOSE c \in Cached("CNAME", Name(s)) : TRUE) OBVIOUS
<1>8. PICK l \in Levels : l = s.level BY <1>5, ValidTyped
<1>9. PICK d \in Names : d = Name(s) BY <1>5, ValidTyped
<1>10. CASE Type(s) # "CNAME" /\ Cached("CNAME", Name(s)) # {}
  <2>1. to \in Names /\ Data(d, "CNAME") = {to} BY <1>3, <1>7, <1>9, <1>10, AliasInCache
  <2>2. PICK name : name = [s.name EXCEPT ![l] = to] OBVIOUS
  <2>3. name \in [Levels -> Names \cup {None}] /\ name[l] = to
        /\ \A k \in Levels : k # l => name[k] = s.name[k]
    BY <1>5, <2>1, <2>2 DEF QueryType
  <2>4. ASSUME NEW alias \in Seq(Names), NEW t, t = [s EXCEPT !.alias = alias, !.name = name, !.any = TRUE],
               Chain(t), s.level > 0 => to \in Hosts(s.control[s.level - 1]), Goto(q, t, "alias")
        PROVE  TInv'
    <3>1. t \in QueryType BY <1>5, <2>3, <2>4 DEF QueryType
    <3>2. /\ t.level = s.level /\ t.name = name /\ t.control = s.control /\ t.ns = s.ns
          /\ t.addrs = s.addrs /\ t.type = s.type
      BY <1>5, <2>4 DEF QueryType
    <3>3. Sought(t)
      <4>1. \A k \in Levels : k < t.level => /\ t.name[k] = s.name[k] /\ t.control[k] = s.control[k]
                                             /\ t.ns[k] = s.ns[k] /\ t.addrs[k] = s.addrs[k]
        <5>1. \A k \in Levels : k < l => k # l BY SomeLevels
        <5> QED BY <1>8, <2>3, <3>2, <5>1
      <4>2. t.level > 0 => t.name[t.level] \in Hosts(s.control[t.level - 1])
        BY <1>8, <2>3, <2>4, <3>2
      <4>3. t.level <= s.level BY <1>8, <3>2, SomeLevels
      <4> QED BY <1>5, <1>8, <3>2, <4>1, <4>2, <4>3, SoughtKept
    <3>4. Trust(t, "alias") BY <1>6, <3>2, BeforeServers
    <3> QED BY <1>3, <2>4, <3>1, <3>3, <3>4, GotoTrue DEF Known
  <2>5. CASE s.level > 0
    <3>1. Goto(q, [s EXCEPT !.name[s.level] = to, !.any = TRUE], "alias")
      BY <1>4, <1>7, <1>10, <2>5 DEF CachedAlias
    <3>2. PICK t : t = [s EXCEPT !.alias = s.alias, !.name = name, !.any = TRUE] OBVIOUS
    <3>3. t = [s EXCEPT !.name[s.level] = to, !.any = TRUE] BY <1>5, <1>8, <2>2, <3>2 DEF QueryType
    <3>4. s.alias \in Seq(Names) BY <1>5 DEF QueryType
    <3>5. t.alias = s.alias /\ t.name[0] = s.name[0] BY <1>5, <1>8, <2>3, <2>5, <3>2, SomeLevels DEF QueryType
    <3>6. Chain(t) BY <1>5, <3>5, ChainKept
    <3>7. to \in Hosts(s.control[s.level - 1])
      <4>1. s.control[s.level - 1] \in Names /\ d \in Hosts(s.control[s.level - 1])
        BY <1>5, <1>9, <2>5, NameIsHost
      <4> QED BY <2>1, <4>1, HostServes
    <3> QED BY <2>4, <3>1, <3>2, <3>3, <3>4, <3>6, <3>7
  <2>6. CASE ~(s.level > 0)
    <3>1. s.level = 0 /\ l = 0 /\ d = s.name[0] BY <1>5, <1>8, <1>9, <2>6, LevelZero
    <3>2. CASE ~move_name_to_alias(s).ok
      <4>1. DIE(q, s) BY <1>4, <1>7, <1>10, <2>6, <3>2 DEF CachedAlias
      <4> QED BY <1>3, <1>5, <4>1, DieTrue
    <3>3. CASE move_name_to_alias(s).ok
      <4>1. PICK alias : alias = move_name_to_alias(s).alias OBVIOUS
      <4>2. PICK t : t = [s EXCEPT !.alias = alias, !.name = name, !.any = TRUE] OBVIOUS
      <4>3. Goto(q, [s EXCEPT !.alias = move_name_to_alias(s).alias, !.name[0] = to, !.any = TRUE], "alias")
        BY <1>4, <1>7, <1>10, <2>6, <3>3 DEF CachedAlias
      <4>4. t = [s EXCEPT !.alias = move_name_to_alias(s).alias, !.name[0] = to, !.any = TRUE]
        BY <1>5, <2>2, <3>1, <4>1, <4>2 DEF QueryType
      <4>5. alias \in Seq(Names) BY <1>5, <3>1, <3>3, <4>1, AliasMoved
      <4>6. t.alias = alias /\ t.name = name BY <1>5, <4>2 DEF QueryType
      <4>7. alias = <<s.name[0]>> \o s.alias BY <4>1 DEF move_name_to_alias
      <4>8. t.name[0] = to BY <2>3, <3>1, <4>6
      <4>9. Chain(t) BY <1>5, <2>1, <3>1, <4>6, <4>7, <4>8, ChainMoved DEF QueryType
      <4> QED BY <2>4, <2>6, <4>2, <4>3, <4>4, <4>5, <4>9
    <3> QED BY <3>2, <3>3
  <2> QED BY <2>5, <2>6
<1>11. CASE ~(Type(s) # "CNAME" /\ Cached("CNAME", Name(s)) # {})
  <2>1. PICK pc \in {"newname", "lookup"} : Goto(q, s, pc) BY <1>4, <1>7, <1>11 DEF CachedAlias
  <2>2. Trust(s, pc) BY <1>6, <2>1, BeforeServers
  <2> QED BY <1>3, <1>5, <2>1, <2>2, GotoTrue
<1> QED BY <1>10, <1>11

LEMMA LookupTrue == ASSUME IInv, TInv, NEW q \in Clients, Lookup(q) PROVE TInv'
<1>1. At(q, "lookup") /\ cache' = cache BY DEF Lookup
<1>2. running = q /\ Valid(z[q]) /\ CacheOK(cache) BY <1>1, AtPlace DEF Pcs
<1>3. Known(z[q]) /\ Trust(z[q], "lookup") /\ SetsKnown(cache) /\ SetsKnown(cache')
  BY <1>1, KnownAt DEF At, Pcs
<1>4. PICK s : s = z[q] OBVIOUS
<1>5. Valid(s) /\ s \in QueryType /\ Known(s) BY <1>2, <1>3, <1>4 DEF Valid
<1>6. s.level > 0 => s.type \notin {"ANY", "OPT"} BY <1>3, <1>4 DEF Trust
<1>7. PICK d \in Names : d = Name(s) BY <1>5, ValidTyped
<1>8. PICK glue : glue = Glue(d) OBVIOUS
<1>9. PICK data : data = Cached(s.type, d) OBVIOUS
<1>10. PICK hinfo : hinfo = {"HINFO"} OBVIOUS
<1>11. \/ s.level > 0 /\ LOWERLEVEL(q, s, glue)
       \/ ~(s.level > 0) /\ s.type \in {"ANY", "OPT"} /\ Finish(q, s, 0, hinfo)
       \/ ~(s.level > 0) /\ Has(s.type, d) /\ Finish(q, s, 0, data)
       \/ (s.level > 0 \/ s.type \notin {"ANY", "OPT"}) /\ Goto(q, s, "begin")
  <2>1. Cached("CNAME", d) # {} => Has("CNAME", d) BY DEF Cached
  <2> QED BY <1>4, <1>7, <1>8, <1>9, <1>10, <2>1 DEF Lookup
<1>12. CASE s.level > 0 /\ LOWERLEVEL(q, s, glue)
  <2>1. glue \in SUBSET Addrs /\ IsFiniteSet(glue) BY <1>2, <1>8, CachedTyped
  <2>2. s.control[s.level - 1] \in Names /\ d \in Hosts(s.control[s.level - 1])
    BY <1>5, <1>7, <1>12, NameIsHost
  <2>3. glue \subseteq Masters(s.control[s.level - 1]) BY <1>3, <1>8, <2>2, GlueTrue
  <2> QED BY <1>3, <1>5, <1>6, <1>12, <2>1, <2>3, LowerTrue
<1>13. CASE ~(s.level > 0) /\ s.type \in {"ANY", "OPT"} /\ Finish(q, s, 0, hinfo)
  <2>1. s.name[0] # None BY <1>5, <1>13, LevelZero
  <2>2. Word(s.name[0], s.type, 0, hinfo) BY <1>13 DEF Word
  <2> QED BY <1>3, <1>5, <1>13, <2>1, <2>2, FinishTrue
<1>14. CASE ~(s.level > 0) /\ Has(s.type, d) /\ Finish(q, s, 0, data)
  <2>1. s.name[0] = d /\ s.name[0] # None BY <1>5, <1>7, <1>14, LevelZero
  <2>2. s.type # "ANY" => d \in Exist /\ data = Data(d, s.type)
                          /\ (s.type = "CNAME" \/ Data(d, "CNAME") = {})
    BY <1>3, <1>9, <1>14, CachedTrue
  <2>3. Word(s.name[0], s.type, 0, data) BY <2>1, <2>2 DEF Word
  <2> QED BY <1>3, <1>5, <1>14, <2>1, <2>3, FinishTrue
<1>15. CASE (s.level > 0 \/ s.type \notin {"ANY", "OPT"}) /\ Goto(q, s, "begin")
  <2>1. Trust(s, "begin") BY <1>6, <1>15 DEF Trust
  <2> QED BY <1>3, <1>5, <1>15, <2>1, GotoTrue
<1> QED BY <1>11, <1>12, <1>13, <1>14, <1>15

(* The servers of a level, and its zone, come and go.                        *)
LEMMA LevelServed ==
  ASSUME NEW s, NEW t, Known(s), NEW l \in Levels, s.level = l, t.level = l, t.name = s.name,
         t.alias = s.alias,
         \A k \in Levels : k # l => /\ t.control[k] = s.control[k] /\ t.ns[k] = s.ns[k]
                                    /\ t.addrs[k] = s.addrs[k]
  PROVE  Known(t)
<1>1. Chain(t) BY ChainKept DEF Known
<1>2. Sought(t)
  <2>1. \A k \in Levels : k < l => k # l BY SomeLevels
  <2>2. t.level <= s.level BY SomeLevels
  <2>3. Sought(s) BY DEF Known
  <2>4. \A k \in Levels : k < t.level => /\ t.name[k] = s.name[k] /\ t.control[k] = s.control[k]
                                         /\ t.ns[k] = s.ns[k] /\ t.addrs[k] = s.addrs[k]
    BY <2>1
  <2> QED BY <2>2, <2>3, <2>4, SoughtKept
<1> QED BY <1>1, <1>2 DEF Known

LEMMA BeginTrue == ASSUME IInv, TInv, NEW q \in Clients, Begin(q) PROVE TInv'
<1>1. At(q, "begin") /\ cache' = cache BY DEF Begin
<1>2. running = q /\ Valid(z[q]) /\ CacheOK(cache) BY <1>1, AtPlace DEF Pcs
<1>3. Known(z[q]) /\ Trust(z[q], "begin") /\ SetsKnown(cache) /\ SetsKnown(cache')
  BY <1>1, KnownAt DEF At, Pcs
<1>4. PICK l \in Levels : l = z[q].level BY <1>2, ValidTyped
<1>5. l <= z[q].level /\ l \in Nat
  <2>1. l \in Nat BY SomeLevels
  <2> QED BY <1>4, <2>1
<1>6. PICK none, empty : none = <<>> /\ empty = {} OBVIOUS
<1>7. PICK r : r = NsPut(z[q], l, none) OBVIOUS
<1>8. PICK s : s = Put(r, l, empty) OBVIOUS
<1>9. none \in Seq(Names) /\ Len(none) <= QUERY_MAXNS /\ Room(empty)
  <2>1. <<>> \in Seq(Names) /\ Len(<<>>) = 0 OBVIOUS
  <2> QED BY <1>6, <2>1, NoAddresses, Constants
<1>10. Valid(r) /\ r.level = z[q].level BY <1>2, <1>5, <1>7, <1>9, NsSet
<1>11. Valid(s)
  <2>1. l <= r.level BY <1>5, <1>10
  <2> QED BY <1>8, <1>9, <1>10, <2>1, AddrsSet
<1>12. z[q] \in QueryType /\ s \in QueryType BY <1>2, <1>11 DEF Valid
<1>13. /\ s.level = l /\ s.name = z[q].name /\ s.control = z[q].control /\ s.alias = z[q].alias
       /\ s.type = z[q].type /\ s.ns = [z[q].ns EXCEPT ![l] = none]
       /\ s.addrs = [z[q].addrs EXCEPT ![l] = empty]
  BY <1>4, <1>7, <1>8, <1>12 DEF QueryType, NsPut, Put
<1>14. s = [z[q] EXCEPT !.ns[z[q].level] = <<>>, !.addrs[z[q].level] = {}]
  BY <1>4, <1>6, <1>7, <1>8, <1>12 DEF QueryType, NsPut, Put
<1>15. ASSUME NEW t, t.level = l, t.name = s.name, t.alias = s.alias,
              \A k \in Levels : k # l => /\ t.control[k] = s.control[k] /\ t.ns[k] = s.ns[k]
                                         /\ t.addrs[k] = s.addrs[k]
       PROVE  Known(t)
  <2>1. \A k \in Levels : k # l => s.ns[k] = z[q].ns[k] /\ s.addrs[k] = z[q].addrs[k]
    BY <1>12, <1>13 DEF QueryType
  <2>2. \A k \in Levels : k # l => /\ t.control[k] = z[q].control[k] /\ t.ns[k] = z[q].ns[k]
                                   /\ t.addrs[k] = z[q].addrs[k]
    BY <1>13, <1>15, <2>1
  <2>3. t.name = z[q].name /\ t.alias = z[q].alias BY <1>13, <1>15
  <2> QED BY <1>3, <1>4, <1>15, <2>2, <2>3, LevelServed
<1>16. PICK d \in Names : d = Name(s) BY <1>11, ValidTyped
<1>17. PICK named : named = (IF flagforwardonly \/ s.level >= QUERY_MIN_USE_ROOTS_LEVEL THEN {}
                             ELSE {n \in Names : Cached("NS", n) # {}}) OBVIOUS
<1>18. named = {} BY <1>2, <1>17, CachedTyped
<1>19. PICK at : at = Closest(d, Local \cup named) OBVIOUS
<1>20. CASE at = None
  <2>1. DIE(q, s) BY <1>14, <1>16, <1>17, <1>19, <1>20 DEF Begin
  <2>2. Known(s) BY <1>13, <1>15
  <2> QED BY <1>3, <1>11, <2>1, <2>2, DieTrue
<1>21. CASE at # None
  <2>1. Local \cup named = Local BY <1>18
  <2>2. at \in Names /\ at \in Local /\ Suffix(d, at) BY <1>19, <1>21, <2>1, ClosestIsAbove
  <2>3. RootOf(d) = at /\ RootOf(at) = at
    <3>1. RootOf(d) = at BY <1>19, <2>1 DEF RootOf
    <3> QED BY <2>2, <3>1, LocalIsRoot
  <2>4. Under(d, at) BY <2>2, <2>3 DEF Under
  <2>5. PICK a : a = Servers(at) OBVIOUS
  <2>6. PICK t : t = Put(ControlPut(s, at), l, a) OBVIOUS
  <2>7. a \in SUBSET Addrs BY <2>2, <2>5, Constants DEF Room
  <2>8. /\ t.level = l /\ t.name = s.name /\ t.alias = s.alias /\ t.type = s.type /\ t.ns = s.ns
        /\ t.control = [s.control EXCEPT ![l] = at] /\ t.addrs = [s.addrs EXCEPT ![l] = a]
        /\ t \in QueryType
    <3>1. PICK c : c = ControlPut(s, at) OBVIOUS
    <3>2. /\ c \in QueryType /\ c.level = l /\ c.name = s.name /\ c.alias = s.alias /\ c.type = s.type
          /\ c.ns = s.ns /\ c.addrs = s.addrs /\ c.control = [s.control EXCEPT ![l] = at]
      <4>1. [s.control EXCEPT ![l] = at] \in [Levels -> Names \cup {None}] BY <1>12, <2>2 DEF QueryType
      <4> QED BY <1>12, <1>13, <3>1, <4>1 DEF QueryType, ControlPut
    <3>3. [c.addrs EXCEPT ![l] = a] \in [Levels -> SUBSET Addrs] BY <2>7, <3>2 DEF QueryType
    <3> QED BY <2>6, <3>1, <3>2, <3>3 DEF QueryType, Put
  <2>9. /\ t.control[l] = at /\ t.addrs[l] = a /\ t.ns[l] = <<>>
        /\ \A k \in Levels : k # l => t.control[k] = s.control[k] /\ t.ns[k] = s.ns[k]
                                      /\ t.addrs[k] = s.addrs[k]
    BY <1>6, <1>12, <1>13, <2>8 DEF QueryType
  <2>10. Known(t) BY <1>15, <2>8, <2>9
  <2>11. Serving(t, l)
    <3>1. Range(t.ns[l]) = {} BY <2>9 DEF Range
    <3>2. Under(t.name[l], t.control[l]) BY <1>13, <1>16, <2>4, <2>8, <2>9 DEF Name
    <3>3. t.addrs[l] \subseteq Masters(t.control[l]) BY <2>5, <2>9 DEF Masters
    <3> QED BY <3>1, <3>2, <3>3 DEF Serving
  <2>12. Trust(t, "havensaddr") BY <1>3, <1>13, <2>8, <2>11 DEF Trust
  <2>13. Goto(q, [s EXCEPT !.control[s.level] = at, !.addrs[s.level] = Servers(at)], "havensaddr")
    BY <1>14, <1>16, <1>17, <1>19, <1>21, <2>2 DEF Begin
  <2>14. t = [s EXCEPT !.control[s.level] = at, !.addrs[s.level] = Servers(at)]
    BY <1>12, <1>13, <2>5, <2>6 DEF QueryType, ControlPut, Put
  <2> QED BY <1>3, <2>8, <2>10, <2>12, <2>13, <2>14, GotoTrue
<1> QED BY <1>20, <1>21

LEMMA HeadAndTail ==
  ASSUME NEW ns \in Seq(Names), ns # <<>>
  PROVE  Head(ns) \in Range(ns) /\ Range(Tail(ns)) \subseteq Range(ns)
<1>1. PICK n \in Nat : n = Len(ns)
  <2>1. Len(ns) \in Nat OBVIOUS
  <2> QED BY <2>1
<1>2. n >= 1 /\ DOMAIN ns = 1 .. n BY <1>1
<1>3. Head(ns) = ns[1] /\ 1 \in DOMAIN ns BY <1>1, <1>2
<1>4. PICK tail : tail = Tail(ns) OBVIOUS
<1>5. DOMAIN tail = 1 .. n - 1 /\ \A i \in 1 .. n - 1 : tail[i] = ns[i + 1] BY <1>1, <1>2, <1>4
<1>6. \A i \in 1 .. n - 1 : i + 1 \in DOMAIN ns BY <1>1, <1>2
<1>7. \A i \in DOMAIN tail : tail[i] \in Range(ns) BY <1>5, <1>6 DEF Range
<1>8. Range(tail) \subseteq Range(ns)
  <2>1. Range(tail) = {tail[i] : i \in DOMAIN tail} BY DEF Range
  <2> QED BY <1>7, <2>1
<1> QED BY <1>3, <1>4, <1>8 DEF Range

LEMMA HavensPartialTrue == ASSUME IInv, TInv, NEW q \in Clients, HAVENSPARTIAL(q) PROVE TInv'
<1>1. At(q, "havens") /\ cache' = cache BY DEF HAVENSPARTIAL
<1>2. running = q /\ Valid(z[q]) /\ CacheOK(cache) BY <1>1, AtPlace DEF Pcs
<1>3. Known(z[q]) /\ Trust(z[q], "havens") /\ SetsKnown(cache) /\ SetsKnown(cache')
  BY <1>1, KnownAt DEF At, Pcs
<1>4. PICK s : s = z[q] OBVIOUS
<1>5. Valid(s) /\ s \in QueryType /\ Known(s) /\ Trust(s, "havens") /\ Chain(s) /\ Sought(s)
  BY <1>2, <1>3, <1>4 DEF Valid, Known
<1>6. PICK l \in Levels : l = s.level BY <1>5, ValidTyped
<1>7. l \in Nat BY SomeLevels
<1>8. s.type \notin {"ANY", "OPT"} BY <1>5 DEF Trust
<1>9. CASE s.ns[l] = <<>>
  <2>1. Goto(q, s, "havensaddr") BY <1>4, <1>6, <1>9 DEF HAVENSPARTIAL
  <2>2. Trust(s, "havensaddr") BY <1>5 DEF Trust
  <2> QED BY <1>3, <1>5, <2>1, <2>2, GotoTrue
<1>10. CASE s.ns[l] # <<>>
  <2>1. Serving(s, l) BY <1>5, <1>6, <1>10 DEF Trust
  <2>2. PICK c \in Names : c = s.control[l]
    <3>1. s.name[l] \in Names BY <1>5, <1>6, ValidTyped DEF Name
    <3>2. s.control[l] \in Names BY <2>1, <3>1, UnderTyped DEF Serving
    <3> QED BY <3>2
  <2>3. PICK n : n = Head(s.ns[l]) OBVIOUS
  <2>4. PICK tail : tail = Tail(s.ns[l]) OBVIOUS
  <2>5. PICK rest : rest = NsPut(s, l, tail) OBVIOUS
  <2>6. s.ns[l] \in Seq(Names) /\ Len(s.ns[l]) <= QUERY_MAXNS BY <1>5, ValidTyped DEF Valid, Held
  <2>7. n \in Names /\ tail \in Seq(Names) BY <1>10, <2>3, <2>4, <2>6, HeadTailProperties
  <2>8. n \in Hosts(c) /\ Range(tail) \subseteq Hosts(c)
    <3>1. n \in Range(s.ns[l]) /\ Range(tail) \subseteq Range(s.ns[l])
      BY <1>10, <2>3, <2>4, <2>6, HeadAndTail
    <3> QED BY <2>1, <2>2, <3>1 DEF Serving
  <2>9. /\ rest \in QueryType /\ rest.level = l /\ rest.name = s.name /\ rest.control = s.control
        /\ rest.addrs = s.addrs /\ rest.alias = s.alias /\ rest.type = s.type
        /\ rest.ns = [s.ns EXCEPT ![l] = tail]
    <3>1. [s.ns EXCEPT ![l] = tail] \in [Levels -> Seq(Names)] BY <1>5, <2>7 DEF QueryType
    <3> QED BY <1>5, <1>6, <2>5, <3>1 DEF QueryType, NsPut
  <2>10. rest.ns[l] = tail /\ \A k \in Levels : k # l => rest.ns[k] = s.ns[k]
    BY <1>5, <2>9 DEF QueryType
  <2>11. Known(rest)
    <3>1. \A k \in Levels : k # l => /\ rest.control[k] = s.control[k] /\ rest.ns[k] = s.ns[k]
                                     /\ rest.addrs[k] = s.addrs[k]
      BY <2>9, <2>10
    <3>2. s.level = l /\ rest.level = l /\ rest.name = s.name /\ rest.alias = s.alias
      BY <1>6, <2>9
    <3> QED BY <1>5, <3>1, <3>2, LevelServed
  <2>12. Serving(rest, l) BY <2>1, <2>2, <2>8, <2>9, <2>10 DEF Serving
  <2>13. rest = [s EXCEPT !.ns[s.level] = Tail(@)]
    BY <1>5, <1>6, <2>4, <2>5 DEF QueryType, NsPut
  <2>14. PICK up : up = l + 1 OBVIOUS
  <2>15. PICK glue : glue = Glue(n) OBVIOUS
  <2>16. PICK a : a = Add(rest.addrs[l], glue) OBVIOUS
  <2>17. PICK t : t = Put(rest, l, a) OBVIOUS
  <2>18. t = [rest EXCEPT !.addrs[s.level] = Add(@, Glue(n))]
    BY <1>6, <2>9, <2>15, <2>16, <2>17 DEF QueryType, Put
  <2>19. PICK u : u = [rest EXCEPT !.name[up] = n, !.level = up, !.ns[up] = <<>>, !.addrs[up] = {}]
    OBVIOUS
  <2>20. \/ Goto(q, t, "havens")
         \/ up < QUERY_MAXLEVEL /\ Goto(q, u, "newname")
         \/ Goto(q, rest, "havens")
    BY <1>4, <1>6, <1>10, <2>3, <2>13, <2>14, <2>18, <2>19 DEF HAVENSPARTIAL
  <2>21. CASE Goto(q, t, "havens")
    <3>1. Room(rest.addrs[l]) BY <1>5, <2>9 DEF Valid, Held
    <3>2. glue \subseteq Addrs /\ IsFiniteSet(glue) BY <1>2, <2>15, CachedTyped
    <3>3. Room(a) /\ a \subseteq rest.addrs[l] \cup glue BY <2>16, <3>1, <3>2, AddKeepsRoom, AddWithin
    <3>4. glue \subseteq Masters(c) BY <1>3, <2>2, <2>8, <2>15, GlueTrue
    <3>5. /\ t \in QueryType /\ t.level = l /\ t.name = rest.name /\ t.control = rest.control
          /\ t.ns = rest.ns /\ t.alias = rest.alias /\ t.type = rest.type
          /\ t.addrs = [rest.addrs EXCEPT ![l] = a]
      <4>1. [rest.addrs EXCEPT ![l] = a] \in [Levels -> SUBSET Addrs] BY <2>9, <3>3 DEF QueryType, Room
      <4> QED BY <2>9, <2>17, <4>1 DEF QueryType, Put
    <3>6. t.addrs[l] = a /\ \A k \in Levels : k # l => t.addrs[k] = rest.addrs[k]
      BY <2>9, <3>5 DEF QueryType
    <3>7. Known(t)
      <4>1. rest.level = l /\ t.level = l /\ t.name = rest.name /\ t.alias = rest.alias
        BY <2>9, <3>5
      <4>2. \A k \in Levels : k # l => /\ t.control[k] = rest.control[k] /\ t.ns[k] = rest.ns[k]
                                       /\ t.addrs[k] = rest.addrs[k]
        BY <3>5, <3>6
      <4> QED BY <2>11, <4>1, <4>2, LevelServed
    <3>8. Serving(t, l) BY <2>2, <2>9, <2>12, <3>3, <3>4, <3>5, <3>6 DEF Serving
    <3>9. Trust(t, "havens") BY <1>8, <2>9, <3>5, <3>8 DEF Trust
    <3> QED BY <1>3, <2>21, <3>5, <3>7, <3>9, GotoTrue
  <2>22. CASE up < QUERY_MAXLEVEL /\ Goto(q, u, "newname")
    <3>1. up \in Levels BY <1>7, <2>14, <2>22, Constants DEF Levels
    <3>2. PICK name : name = [rest.name EXCEPT ![up] = n] OBVIOUS
    <3>3. PICK ns : ns = [rest.ns EXCEPT ![up] = <<>>] OBVIOUS
    <3>4. PICK addrs : addrs = [rest.addrs EXCEPT ![up] = {}] OBVIOUS
    <3>5. name \in [Levels -> Names \cup {None}] /\ ns \in [Levels -> Seq(Names)]
          /\ addrs \in [Levels -> SUBSET Addrs]
      <4>1. <<>> \in Seq(Names) OBVIOUS
      <4> QED BY <2>7, <2>9, <3>2, <3>3, <3>4, <4>1 DEF QueryType
    <3>6. u = [rest EXCEPT !.name = name, !.level = up, !.ns = ns, !.addrs = addrs]
      BY <2>9, <2>19, <3>2, <3>3, <3>4 DEF QueryType
    <3>7. u \in QueryType BY <2>9, <3>1, <3>5, <3>6 DEF QueryType
    <3>8. /\ u.level = up /\ u.name = name /\ u.control = rest.control /\ u.ns = ns /\ u.addrs = addrs
          /\ u.alias = rest.alias /\ u.type = rest.type
      BY <2>9, <3>6 DEF QueryType
    <3>9. /\ name[up] = n
          /\ \A k \in Levels : k # up => name[k] = rest.name[k] /\ ns[k] = rest.ns[k]
                                         /\ addrs[k] = rest.addrs[k]
      BY <2>9, <3>1, <3>2, <3>3, <3>4 DEF QueryType
    <3>10. \A k \in Levels : k <= l => k # up
      <4>1. \A k \in Levels : k \in Nat BY SomeLevels
      <4> QED BY <1>7, <2>14, <4>1
    <3>11. Chain(u)
      <4>1. 0 \in Levels /\ 0 # up BY <1>7, <2>14, SomeLevels
      <4>2. u.name[0] = rest.name[0] BY <3>8, <3>9, <4>1
      <4> QED BY <2>11, <3>8, <4>2, ChainKept DEF Known
    <3>12. Sought(u)
      <4>1. Sought(rest) /\ Serving(rest, rest.level) BY <2>9, <2>11, <2>12 DEF Known
      <4>2. \A k \in Levels : k <= rest.level => /\ u.name[k] = rest.name[k]
                                                 /\ u.control[k] = rest.control[k]
                                                 /\ u.ns[k] = rest.ns[k] /\ u.addrs[k] = rest.addrs[k]
        BY <2>9, <3>8, <3>9, <3>10
      <4>3. u.name[u.level] \in Hosts(rest.control[rest.level]) BY <2>2, <2>8, <2>9, <3>8, <3>9
      <4>4. u.level = rest.level + 1 /\ rest.level \in Levels BY <2>9, <2>14, <3>8
      <4> QED BY <4>1, <4>2, <4>3, <4>4, SoughtPushed
    <3>13. Trust(u, "newname") BY <1>8, <2>9, <3>8, BeforeServers
    <3> QED BY <1>3, <2>22, <3>7, <3>11, <3>12, <3>13, GotoTrue DEF Known
  <2>23. CASE Goto(q, rest, "havens")
    <3>1. Trust(rest, "havens") BY <1>8, <2>9, <2>12 DEF Trust
    <3> QED BY <1>3, <2>9, <2>11, <2>23, <3>1, GotoTrue
  <2> QED BY <2>20, <2>21, <2>22, <2>23
<1> QED BY <1>9, <1>10

LEMMA HavensAddrTrue == ASSUME IInv, TInv, NEW q \in Clients, HAVENSADDR(q) PROVE TInv'
<1>1. At(q, "havensaddr") /\ cache' = cache BY DEF HAVENSADDR
<1>2. running = q /\ Valid(z[q]) BY <1>1, AtPlace DEF Pcs
<1>3. Known(z[q]) /\ Trust(z[q], "havensaddr") /\ SetsKnown(cache) /\ SetsKnown(cache')
  BY <1>1, KnownAt DEF At, Pcs
<1>4. PICK s : s = z[q] OBVIOUS
<1>5. s \in QueryType /\ s.type \notin {"ANY", "OPT"} BY <1>2, <1>3, <1>4 DEF Valid, Trust
<1>6. CASE s.addrs[s.level] = {}
  <2>1. SERVFAIL(q, s) BY <1>4, <1>6 DEF HAVENSADDR
  <2> QED BY <1>2, <1>3, <1>4, <1>5, <2>1, ServfailTrue
<1>7. CASE s.addrs[s.level] # {}
  <2>1. PICK t : t = [s EXCEPT !.pc = "wait"] OBVIOUS
  <2>2. z' = [z EXCEPT ![q].pc = "wait"] /\ out' = out BY <1>4, <1>7 DEF HAVENSADDR
  <2>3. z' = [z EXCEPT ![q] = t] BY <1>4, <2>1, <2>2
  <2>4. Trust(s, "wait") BY <1>3, <1>4, <1>7 DEF Trust
  <2>5. Known(t) /\ Trust(t, t.pc) BY <1>3, <1>4, <1>5, <2>1, <2>4, PcTrue
  <2> QED BY <1>3, <2>2, <2>3, <2>5, MovedTrue
<1> QED BY <1>6, <1>7

LEMMA PacketTrue ==
  ASSUME IInv, TInv, NEW q \in Clients, NEW a \in z[q].addrs[z[q].level],
         NEW p \in Packets(a, Name(z[q]), Type(z[q])), Packet(q, a, p)
  PROVE  TInv'
<1>1. PICK s : s = z[q] OBVIOUS
<1>2. s.pc = "wait" /\ cache' = cache /\ out' = out BY <1>1 DEF Packet
<1>3. Valid(s) /\ s \in QueryType BY <1>1, <1>2, ClientValid DEF Valid
<1>4. Known(s) /\ Trust(s, "wait") /\ SetsKnown(cache') BY <1>1, <1>2, KnownAt DEF Pcs
<1>5. p \in PacketType
  <2>1. a \in Addrs BY <1>1, <1>3, ValidTyped
  <2> QED BY <1>1, <1>3, <2>1, ValidTyped, Constants
<1>6. PICK r : r = [s EXCEPT !.packet = p] OBVIOUS
<1>7. r \in QueryType BY <1>3, <1>5, <1>6 DEF QueryType
<1>8. /\ r.level = s.level /\ r.name = s.name /\ r.control = s.control /\ r.ns = s.ns
      /\ r.addrs = s.addrs /\ r.alias = s.alias /\ r.type = s.type /\ r.packet = p
  BY <1>3, <1>6 DEF QueryType
<1>9. Known(r) /\ (Serving(s, s.level) => Serving(r, r.level)) BY <1>3, <1>4, <1>8, KnownSame, ValidTyped
<1>10. Trust(r, "havepacket")
  <2>1. Name(r) = Name(s) /\ Type(r) = Type(s) BY <1>8 DEF Name, Type
  <2>2. Serving(s, s.level) /\ s.type \notin {"ANY", "OPT"} BY <1>4 DEF Trust
  <2>3. a \in Masters(r.control[r.level]) BY <1>1, <1>8, <2>2 DEF Serving
  <2>4. r.packet \in Packets(a, Name(r), Type(r)) BY <1>1, <1>8, <2>1
  <2> QED BY <1>8, <1>9, <2>2, <2>3, <2>4 DEF Trust
<1>11. PICK t : t = [r EXCEPT !.pc = "havepacket"] OBVIOUS
<1>12. Known(t) /\ Trust(t, t.pc) BY <1>7, <1>9, <1>10, <1>11, PcTrue
<1>13. z' = [z EXCEPT ![q] = t]
  <2>1. z' = [z EXCEPT ![q].packet = p, ![q].pc = "havepacket"] BY DEF Packet
  <2>2. z \in [Clients -> QueryType] BY DEF IInv
  <2>3. t = [s EXCEPT !.packet = p, !.pc = "havepacket"] BY <1>6, <1>11
  <2> QED BY <1>1, <2>1, <2>2, <2>3
<1> QED BY <1>2, <1>4, <1>12, <1>13, MovedTrue

LEMMA NoAnswerTrue == ASSUME IInv, TInv, NEW q \in Clients, NoAnswer(q) PROVE TInv'
<1>1. PICK s : s = z[q] OBVIOUS
<1>2. s.pc = "wait" /\ cache' = cache BY <1>1 DEF NoAnswer
<1>3. Valid(s) /\ s \in QueryType BY <1>1, <1>2, ClientValid DEF Valid
<1>4. Known(s) /\ Trust(s, "wait") /\ SetsKnown(cache') BY <1>1, <1>2, KnownAt DEF Pcs
<1>5. CASE s.level > 0
  <2>1. PICK l \in Levels : l = s.level - 1 BY <1>3, <1>5, ValidTyped, LevelBelow
  <2>2. PICK a : a = s.addrs[l] OBVIOUS
  <2>3. Room(a) /\ a \in SUBSET Addrs BY <1>3, <2>2 DEF Valid, Held, Room
  <2>4. Put(s, l, a) = s BY <1>3, <2>2 DEF Put, QueryType
  <2>5. PICK r : r = Popped(Put(s, l, a)) OBVIOUS
  <2>6. r \in QueryType BY <1>3, <1>5, <2>1, <2>3, <2>5, PoppedTyped
  <2>7. a \subseteq Masters(s.control[l]) BY <1>3, <1>4, <1>5, <2>1, <2>2, NameIsHost DEF Serving
  <2>8. s.type \notin {"ANY", "OPT"} BY <1>4 DEF Trust
  <2>9. Known(r) /\ Trust(r, "havens") BY <1>3, <1>4, <1>5, <2>1, <2>3, <2>5, <2>7, <2>8, PoppedTrue
  <2>10. PICK t : t = [r EXCEPT !.pc = "havens"] OBVIOUS
  <2>11. Known(t) /\ Trust(t, t.pc) BY <2>6, <2>9, <2>10, PcTrue
  <2>12. z' = [z EXCEPT ![q] = t] /\ out' = out BY <1>1, <1>5, <2>4, <2>5, <2>10 DEF NoAnswer
  <2> QED BY <1>4, <2>11, <2>12, MovedTrue
<1>6. CASE ~(s.level > 0)
  <2>1. PICK data : data = {} OBVIOUS
  <2>2. Finish(q, s, 2, data) BY <1>1, <1>6, <2>1 DEF NoAnswer
  <2>3. s.name[0] # None BY <1>3, <1>6, LevelZero
  <2>4. Word(s.name[0], s.type, 2, data) BY DEF Word
  <2> QED BY <1>3, <1>4, <2>2, <2>3, <2>4, FinishTrue
<1> QED BY <1>5, <1>6

(* The aliases of a packet, as far as they are read.                         *)
LEMMA LeadsOn ==
  ASSUME NEW p, NEW n, NEW type, NEW d, NEW zones, NEW j \in Nat, NEW i \in Nat, i = j - 1,
         LeadsTo(p, n, type, d, zones, i),
         ~(p.answer[j].type = "CNAME" /\ p.answer[j].name = d)
  PROVE  LeadsTo(p, n, type, d, zones, j)
<1>1. PICK old : old = {k \in 1 .. i : p.answer[k].type = "CNAME" /\ type # "CNAME"} OBVIOUS
<1>2. PICK new : new = {k \in 1 .. j : p.answer[k].type = "CNAME" /\ type # "CNAME"} OBVIOUS
<1>3. \A k \in 1 .. j : k \in 1 .. i \/ k = j OBVIOUS
<1>4. \A k \in 1 .. i : k \in 1 .. j OBVIOUS
<1>5. old \subseteq new /\ \A k \in new : k \in old \/ p.answer[k].name # d BY <1>1, <1>2, <1>3, <1>4
<1>6. \/ d = n /\ \A k \in old : p.answer[k].name # d
      \/ \E h \in old : /\ p.answer[h].data = d /\ \E c \in zones : Under(p.answer[h].name, c)
                        /\ \A k \in old : k > h => p.answer[k].name # d
  BY <1>1 DEF LeadsTo
<1>7. \/ d = n /\ \A k \in new : p.answer[k].name # d
      \/ \E h \in new : /\ p.answer[h].data = d /\ \E c \in zones : Under(p.answer[h].name, c)
                        /\ \A k \in new : k > h => p.answer[k].name # d
  BY <1>5, <1>6
<1> QED BY <1>2, <1>7 DEF LeadsTo

LEMMA LeadsAway ==
  ASSUME NEW p, NEW n, NEW type, type # "CNAME", NEW d, NEW zones, NEW j \in Nat \ {0},
         p.answer[j].type = "CNAME", p.answer[j].data = d, NEW c \in zones, Under(p.answer[j].name, c)
  PROVE  LeadsTo(p, n, type, d, zones, j)
<1>1. j \in 1 .. j /\ \A k \in 1 .. j : ~(k > j) OBVIOUS
<1> QED BY <1>1 DEF LeadsTo

LEMMA NoneFollowed ==
  ASSUME NEW p, NEW n, NEW d, NEW zones, NEW i, NEW j, LeadsTo(p, n, "CNAME", d, zones, i)
  PROVE  LeadsTo(p, n, "CNAME", d, zones, j)
BY DEF LeadsTo

(* A packet that has come is read from its first answer.                     *)
LEMMA SpokenFirst ==
  ASSUME NEW s, Valid(s), Known(s), Serving(s, s.level),
         NEW a \in Masters(s.control[s.level]), s.packet \in Packets(a, Name(s), Type(s)),
         s.flagempty = Empty(s.packet, Name(s), Type(s))
  PROVE  Spoken(s, 0)
<1>1. PICK n \in Names : n = Name(s) BY ValidTyped
<1>2. PICK type \in RRTypes : type = Type(s) BY ValidTyped
<1>3. PICK c : c = s.control[s.level] OBVIOUS
<1>4. Under(n, c) /\ c \in Names
  <2>1. Under(n, c) BY <1>1, <1>3 DEF Serving, Name
  <2> QED BY <2>1, UnderTyped
<1>5. Truthful(s.packet, n, type, Zones(s, c))
  <2>1. CASE s.level > 0
    <3>1. type = "A" BY <1>2, <2>1, ValidTyped, SomeLevels DEF Type
    <3>2. PICK e \in Names : n \in Hosts(e) BY <1>1, <2>1, NameIsHost
    <3>3. Truthful(s.packet, n, type, {c} \cup (Freed \ {None}))
      BY <1>1, <1>2, <1>3, <1>4, <3>1, <3>2, MastersSpeak
    <3>4. Zones(s, c) = {c} \cup (Freed \ {None}) BY <2>1 DEF Zones
    <3> QED BY <3>3, <3>4
  <2>2. CASE ~(s.level > 0)
    <3>1. Truthful(s.packet, n, type, {c}) BY <1>1, <1>2, <1>3, <1>4, MastersSpeak
    <3>2. Zones(s, c) = {c} BY <2>2 DEF Zones
    <3> QED BY <3>1, <3>2
  <2> QED BY <2>1, <2>2
<1>6. LeadsTo(s.packet, n, type, n, Zones(s, c), 0) BY DEF LeadsTo
<1>7. c \in Zones(s, c) BY DEF Zones
<1> QED BY <1>1, <1>2, <1>3, <1>4, <1>5, <1>6, <1>7 DEF Spoken

LEMMA HavePacketTrue == ASSUME IInv, TInv, NEW q \in Clients, HAVEPACKET(q) PROVE TInv'
<1>1. At(q, "havepacket") BY DEF HAVEPACKET
<1>2. running = q /\ Valid(z[q]) BY <1>1, AtPlace DEF Pcs
<1>3. Known(z[q]) /\ Trust(z[q], "havepacket") /\ SetsKnown(cache) BY <1>1, KnownAt DEF At, Pcs
<1>4. PICK empty : empty = Empty(z[q].packet, Name(z[q]), Type(z[q])) OBVIOUS
<1>5. PICK s : s = [z[q] EXCEPT !.loop = @ + 1, !.j = 1, !.flagempty = empty] OBVIOUS
<1>6. PICK saved : saved = Saved(z[q].packet, z[q].control[z[q].level]) OBVIOUS
<1>7. \/ DIE(q, s) /\ cache' = cache
      \/ Goto(q, s, "follow") /\ cache' = Stored(saved)
  BY <1>4, <1>5, <1>6 DEF HAVEPACKET
<1>8. PICK p \in PacketType : p = z[q].packet BY <1>2, ValidTyped
<1>9. PICK n \in Names, type \in RRTypes : n = Name(z[q]) /\ type = Type(z[q]) BY <1>2, ValidTyped
<1>10. PICK c : c = z[q].control[z[q].level] OBVIOUS
<1>11. Serving(z[q], z[q].level) /\ z[q].type \notin {"ANY", "OPT"} BY <1>3 DEF Trust
<1>12. PICK a \in Masters(c) : p \in Packets(a, n, type) BY <1>3, <1>8, <1>9, <1>10 DEF Trust
<1>13. SetsKnown(cache')
  <2>1. Under(n, c) BY <1>9, <1>10, <1>11 DEF Serving, Name
  <2>2. SetsTrue(p, c) BY <1>12, <2>1, MastersSpeak
  <2>3. SetsKnown(saved) BY <1>6, <1>8, <1>10, <2>2, SavedTrue
  <2> QED BY <1>3, <1>7, <2>3, StoredTrue
<1>14. z[q] \in QueryType /\ empty \in BOOLEAN
  <2>1. empty \in BOOLEAN BY <1>4 DEF Empty
  <2> QED BY <1>2, <2>1 DEF Valid
<1>15. PICK m \in Nat : m = z[q].loop + 1 BY <1>14 DEF QueryType
<1>16. s = [z[q] EXCEPT !.loop = m, !.j = 1, !.flagempty = empty] BY <1>5, <1>15
<1>17. /\ s \in QueryType /\ s.level = z[q].level /\ s.name = z[q].name /\ s.control = z[q].control
       /\ s.ns = z[q].ns /\ s.addrs = z[q].addrs /\ s.alias = z[q].alias /\ s.type = z[q].type
       /\ s.packet = z[q].packet /\ s.j = 1 /\ s.flagempty = empty
  BY <1>14, <1>16 DEF QueryType
<1>18. Valid(s) BY <1>2, <1>17, SameTables
<1>19. Known(s) /\ Serving(s, s.level) BY <1>2, <1>3, <1>11, <1>17, KnownSame, ValidTyped
<1>20. CASE DIE(q, s) BY <1>13, <1>18, <1>19, <1>20, DieTrue
<1>21. CASE Goto(q, s, "follow")
  <2>1. Name(s) = n /\ Type(s) = type BY <1>9, <1>17 DEF Name, Type
  <2>2. Spoken(s, 0)
    <3>1. a \in Masters(s.control[s.level]) BY <1>10, <1>12, <1>17
    <3>2. s.packet \in Packets(a, Name(s), Type(s)) BY <1>8, <1>12, <1>17, <2>1
    <3>3. s.flagempty = Empty(s.packet, Name(s), Type(s)) BY <1>4, <1>9, <1>17, <2>1
    <3> QED BY <1>18, <1>19, <3>1, <3>2, <3>3, SpokenFirst
  <2>3. s.j - 1 = 0 /\ s.j <= Len(s.packet.answer) + 1
    <3>1. Len(s.packet.answer) \in Nat
      <4>1. s.packet.answer \in Seq(Record) BY <1>8, <1>17, PacketTyped
      <4> QED BY <4>1
    <3> QED BY <1>17, <3>1
  <2>4. Trust(s, "follow") BY <1>11, <1>17, <2>2, <2>3 DEF Trust
  <2> QED BY <1>13, <1>17, <1>19, <1>21, <2>4, GotoTrue
<1> QED BY <1>7, <1>20, <1>21

(* At level 0 the name that gives way is put before the aliases.             *)
AliasOf(s) == IF s.level = 0 THEN move_name_to_alias(s).alias ELSE s.alias

(* The name of a level gives way to its alias.                               *)
LEMMA AliasKnown ==
  ASSUME NEW s, Valid(s), Known(s), NEW d \in Names, d = Name(s), NEW to, Data(d, "CNAME") = {to},
         NEW t, t.level = s.level, t.name = [s.name EXCEPT ![s.level] = to], t.ns = s.ns,
         t.addrs = s.addrs, \A k \in Levels : k # s.level => t.control[k] = s.control[k],
         t.alias = AliasOf(s)
  PROVE  Known(t)
<1>1. PICK l \in Levels : l = s.level BY ValidTyped
<1>2. s.name \in [Levels -> Names \cup {None}] /\ s.alias \in Seq(Names) BY ValidTyped
<1>3. t.name[l] = to /\ \A k \in Levels : k # l => t.name[k] = s.name[k] BY <1>1, <1>2
<1>4. Chain(s) /\ Sought(s) BY DEF Known
<1>5. Chain(t)
  <2>1. CASE s.level = 0
    <3>1. s.name[0] = d /\ t.name[0] = to BY <1>1, <1>3, <2>1 DEF Name
    <3>2. t.alias = <<s.name[0]>> \o s.alias BY <2>1 DEF AliasOf, move_name_to_alias
    <3> QED BY <1>2, <1>4, <3>1, <3>2, ChainMoved
  <2>2. CASE s.level # 0
    <3>1. t.name[0] = s.name[0] BY <1>1, <1>3, <2>2, SomeLevels
    <3>2. t.alias = s.alias BY <2>2 DEF AliasOf
    <3> QED BY <1>4, <3>1, <3>2, ChainKept
  <2> QED BY <2>1, <2>2
<1>6. Sought(t)
  <2>1. t.level > 0 => t.name[t.level] \in Hosts(s.control[t.level - 1])
    <3> SUFFICES ASSUME t.level > 0 PROVE t.name[t.level] \in Hosts(s.control[t.level - 1]) OBVIOUS
    <3>1. s.control[s.level - 1] \in Names /\ d \in Hosts(s.control[s.level - 1]) BY NameIsHost
    <3>2. to \in Hosts(s.control[s.level - 1]) BY <3>1, HostServes
    <3> QED BY <1>1, <1>3, <3>2
  <2>2. \A k \in Levels : k < t.level => /\ t.name[k] = s.name[k] /\ t.control[k] = s.control[k]
                                         /\ t.ns[k] = s.ns[k] /\ t.addrs[k] = s.addrs[k]
    <3>1. \A k \in Levels : k < l => k # l BY SomeLevels
    <3> QED BY <1>1, <1>3, <3>1
  <2>3. t.level <= s.level BY <1>1, SomeLevels
  <2> QED BY <1>1, <1>4, <2>1, <2>2, <2>3, SoughtKept
<1> QED BY <1>5, <1>6 DEF Known

LEMMA ReadTrue ==
  ASSUME NEW s, Valid(s), Known(s) PROVE Known(Read(s)) /\ Read(s).type = s.type /\ Read(s).level = s.level
<1>1. s \in QueryType /\ s.level \in Levels BY ValidTyped DEF Valid
<1>2. PICK t : t = Read(s) OBVIOUS
<1>3. /\ t.level = s.level /\ t.name = s.name /\ t.control = s.control /\ t.ns = s.ns
      /\ t.addrs = s.addrs /\ t.alias = s.alias /\ t.type = s.type
  BY <1>1, <1>2 DEF QueryType, Read
<1>4. Known(t) BY <1>1, <1>3, KnownSame
<1> QED BY <1>2, <1>3, <1>4

LEMMA FollowTrue == ASSUME IInv, TInv, NEW q \in Clients, Follow(q) PROVE TInv'
<1>1. At(q, "follow") /\ cache' = cache BY DEF Follow
<1>2. running = q /\ Valid(z[q]) /\ Place(z[q], "follow") BY <1>1, AtPlace DEF Pcs
<1>3. Known(z[q]) /\ Trust(z[q], "follow") /\ SetsKnown(cache) /\ SetsKnown(cache')
  BY <1>1, KnownAt DEF At, Pcs
<1>4. PICK s : s = z[q] OBVIOUS
<1>5. Valid(s) /\ s \in QueryType /\ Known(s) /\ s.type \notin {"ANY", "OPT"} BY <1>2, <1>3, <1>4 DEF Valid, Trust
<1>6. PICK l \in Levels : l = s.level BY <1>5, ValidTyped
<1>7. PICK p \in PacketType : p = s.packet BY <1>5, ValidTyped
<1>8. PICK type \in RRTypes : type = Type(s) BY <1>5, ValidTyped
<1>9. PICK d \in Names : d = Name(s) BY <1>5, ValidTyped
<1>10. PICK len \in Nat : len = Len(p.answer) /\ DOMAIN p.answer = 1 .. len
  <2>1. p.answer \in Seq(Record) BY PacketTyped
  <2> QED BY <2>1
<1>11. PICK j \in Nat \ {0} : j = s.j BY <1>2, <1>4, <1>5 DEF Place, QueryType
<1>12. PICK i \in Nat : i = j - 1
  <2>1. j - 1 \in Nat BY <1>11
  <2> QED BY <2>1
<1>13. j <= len + 1 /\ Spoken(s, i) BY <1>3, <1>4, <1>7, <1>10, <1>11, <1>12 DEF Trust
<1>14. PICK c \in Names, n \in Names :
         /\ Truthful(p, n, type, Zones(s, c)) /\ s.control[l] \in Zones(s, c)
         /\ Under(d, s.control[l]) /\ s.flagempty = Empty(p, n, type)
         /\ LeadsTo(p, n, type, d, Zones(s, c), i)
  BY <1>6, <1>7, <1>8, <1>9, <1>13 DEF Spoken
<1>15. PICK rr : rr = p.answer[j] OBVIOUS
<1>16. PICK m \in Nat : m = j + 1 BY <1>11
<1>17. PICK next : next = [s EXCEPT !.j = m] OBVIOUS
<1>18. next = [s EXCEPT !.j = @ + 1] BY <1>11, <1>16, <1>17
<1>19. CASE j > len \/ type = "CNAME"
  <2>1. Goto(q, s, "judge") BY <1>4, <1>7, <1>8, <1>10, <1>11, <1>19 DEF Follow
  <2>2. LeadsTo(p, n, type, d, Zones(s, c), len)
    <3>1. CASE type = "CNAME" BY <1>14, <3>1, NoneFollowed
    <3>2. CASE j > len
      <4>1. i = len BY <1>10, <1>12, <1>13, <3>2
      <4> QED BY <1>14, <4>1
    <3> QED BY <1>19, <3>1, <3>2
  <2>3. Spoken(s, len) BY <1>6, <1>7, <1>8, <1>9, <1>14, <2>2 DEF Spoken
  <2>4. Trust(s, "judge") BY <1>5, <1>7, <1>10, <2>3 DEF Trust
  <2> QED BY <1>3, <1>5, <2>1, <2>4, GotoTrue
<1>20. CASE ~(j > len \/ type = "CNAME") /\ (rr.type # "CNAME" \/ rr.name # d)
  <2>1. Goto(q, next, "follow")
    BY <1>4, <1>7, <1>8, <1>9, <1>10, <1>11, <1>15, <1>18, <1>20 DEF Follow
  <2>2. /\ next \in QueryType /\ next.level = s.level /\ next.name = s.name
        /\ next.control = s.control /\ next.ns = s.ns /\ next.addrs = s.addrs
        /\ next.alias = s.alias /\ next.type = s.type /\ next.j = m /\ next.packet = p
        /\ next.flagempty = s.flagempty
    BY <1>5, <1>7, <1>17 DEF QueryType
  <2>3. Known(next) BY <1>5, <1>6, <2>2, KnownSame
  <2>4. LeadsTo(p, n, type, d, Zones(s, c), j)
    <3>1. ~(p.answer[j].type = "CNAME" /\ p.answer[j].name = d) BY <1>15, <1>20
    <3> QED BY <1>12, <1>14, <3>1, LeadsOn
  <2>5. Name(next) = d /\ Type(next) = type /\ Zones(next, c) = Zones(s, c)
    BY <1>8, <1>9, <2>2 DEF Name, Type, Zones
  <2>6. Spoken(next, j) BY <1>6, <1>14, <2>2, <2>4, <2>5 DEF Spoken
  <2>7. m - 1 = j /\ m <= len + 1 BY <1>10, <1>11, <1>16, <1>20
  <2>8. Trust(next, "follow") BY <1>5, <1>10, <2>2, <2>6, <2>7 DEF Trust
  <2> QED BY <1>3, <2>1, <2>2, <2>3, <2>8, GotoTrue
<1>21. CASE ~(j > len \/ type = "CNAME") /\ ~(rr.type # "CNAME" \/ rr.name # d)
  <2>1. j \in 1 .. len BY <1>10, <1>11, <1>21
  <2>2. PICK to \in Names : to = rr.data /\ Data(d, "CNAME") = {to}
    <3>1. rr.data \in Data(d, "CNAME") BY <1>10, <1>14, <1>15, <1>21, <2>1 DEF Truthful
    <3> QED BY <3>1, OneAlias
  <2>3. CASE s.level = 0 /\ ~move_name_to_alias(s).ok
    <3>1. DIE(q, s) BY <1>4, <1>7, <1>8, <1>9, <1>10, <1>11, <1>15, <1>21, <2>3 DEF Follow
    <3> QED BY <1>3, <1>5, <3>1, DieTrue
  <2>4. CASE ~(s.level = 0 /\ ~move_name_to_alias(s).ok)
    <3>1. PICK alias : alias = AliasOf(s) OBVIOUS
    <3>2. alias \in Seq(Names) /\ Len(alias) <= QUERY_MAXALIAS
      <4>1. CASE s.level = 0 BY <1>5, <2>4, <3>1, <4>1, AliasMoved DEF AliasOf
      <4>2. CASE s.level # 0
        <5>1. alias = s.alias BY <3>1, <4>2 DEF AliasOf
        <5> QED BY <1>5, <5>1 DEF Valid, Held, QueryType
      <4> QED BY <4>1, <4>2
    <3> DEFINE To(e) == [[z[q] EXCEPT !.j = @ + 1] EXCEPT
                           !.alias = IF z[q].level = 0 THEN move_name_to_alias(z[q]).alias ELSE @,
                           !.name[z[q].level] = z[q].packet.answer[z[q].j].data,
                           !.control[z[q].level] = e]
    <3>3. PICK control \in Controls(s) :
            \/ Within(to, control) /\ Goto(q, To(control), "follow")
            \/ Goto(q, Read(To(control)), "newname")
      <4>1. /\ ~(z[q].j > Len(z[q].packet.answer) \/ Type(z[q]) = "CNAME")
            /\ ~(z[q].packet.answer[z[q].j].type # "CNAME"
                 \/ z[q].packet.answer[z[q].j].name # Name(z[q]))
            /\ ~(z[q].level = 0 /\ ~move_name_to_alias(z[q]).ok)
        BY <1>4, <1>7, <1>8, <1>9, <1>10, <1>11, <1>15, <1>21, <2>4
      <4>2. \E e \in Controls(z[q]) :
              IF Within(z[q].packet.answer[z[q].j].data, e) THEN Goto(q, To(e), "follow")
              ELSE Goto(q, Read(To(e)), "newname")
        BY <4>1 DEF Follow
      <4>3. z[q].packet.answer[z[q].j].data = to BY <1>4, <1>7, <1>11, <1>15, <2>2
      <4> HIDE DEF To
      <4> QED BY <1>4, <4>2, <4>3
    <3>4. control \in Names \cup {None} BY <1>5, <3>3, Constants DEF Controls, QueryType
    <3>5. PICK name : name = [s.name EXCEPT ![l] = to] OBVIOUS
    <3>6. PICK controls : controls = [s.control EXCEPT ![l] = control] OBVIOUS
    <3>7. PICK t : t = [s EXCEPT !.j = m, !.alias = alias, !.name = name, !.control = controls]
      OBVIOUS
    <3>8. \/ Within(to, control) /\ Goto(q, t, "follow")
          \/ Goto(q, Read(t), "newname")
      <4>1. [next EXCEPT !.alias = alias, !.name[l] = to, !.control[l] = control] = t
        BY <1>5, <1>17, <3>5, <3>6, <3>7 DEF QueryType
      <4>2. To(control) = t
        BY <1>4, <1>5, <1>6, <1>7, <1>11, <1>15, <1>17, <1>18, <2>2, <3>1, <4>1
           DEF QueryType, AliasOf
      <4> HIDE DEF To
      <4> QED BY <3>3, <4>2
    <3>9. name \in [Levels -> Names \cup {None}] /\ controls \in [Levels -> Names \cup {None}]
      BY <1>5, <3>4, <3>5, <3>6 DEF QueryType
    <3>10. /\ t \in QueryType /\ t.level = s.level /\ t.name = name /\ t.control = controls
           /\ t.ns = s.ns /\ t.addrs = s.addrs /\ t.alias = alias /\ t.j = m /\ t.type = s.type
           /\ t.packet = p /\ t.flagempty = s.flagempty
      BY <1>5, <1>7, <3>2, <3>7, <3>9 DEF QueryType
    <3>11. /\ t.name[l] = to /\ t.control[l] = control
           /\ \A k \in Levels : k # s.level => t.control[k] = s.control[k]
           /\ t.name = [s.name EXCEPT ![s.level] = to]
      BY <1>5, <1>6, <3>5, <3>6, <3>10 DEF QueryType
    <3>12. Known(t) BY <1>5, <1>9, <2>2, <3>1, <3>10, <3>11, AliasKnown
    <3>13. CASE Within(to, control) /\ Goto(q, t, "follow")
      <4>1. Under(to, control) /\ control # None BY <3>13 DEF Within, Bailiwick, Under, roots_same
      <4>2. control \in Zones(s, c)
        <5>1. control = s.control[l] \/ (s.level > 0 /\ control \in Freed \ {None})
          BY <1>6, <3>3, <4>1 DEF Controls
        <5> QED BY <1>14, <5>1 DEF Zones
      <4>3. LeadsTo(p, n, type, to, Zones(s, c), j)
        BY <1>11, <1>14, <1>15, <1>21, <2>2, LeadsAway
      <4>4. Name(t) = to /\ Type(t) = type /\ Zones(t, c) = Zones(s, c)
        BY <1>6, <1>8, <3>10, <3>11 DEF Name, Type, Zones
      <4>5. Spoken(t, j) BY <1>6, <1>14, <3>10, <3>11, <4>1, <4>2, <4>3, <4>4 DEF Spoken
      <4>6. m - 1 = j /\ m <= len + 1 BY <1>10, <1>11, <1>16, <1>21
      <4>7. Trust(t, "follow") BY <1>5, <1>10, <3>10, <4>5, <4>6 DEF Trust
      <4> QED BY <1>3, <3>10, <3>12, <3>13, <4>7, GotoTrue
    <3>14. CASE Goto(q, Read(t), "newname")
      <4>1. Valid(t)
        <5>1. Renamed(s, t, to) BY <3>10, <3>11 DEF Renamed
        <5>2. Len(t.alias) <= QUERY_MAXALIAS BY <3>2, <3>10
        <5> QED BY <1>5, <3>10, <5>1, <5>2, NameSet
      <4>2. PICK r : r = Read(t) OBVIOUS
      <4>3. Known(r) /\ r.type = s.type BY <3>10, <3>12, <4>1, <4>2, ReadTrue
      <4>4. r \in QueryType BY <4>1, <4>2, ReadValid DEF Valid
      <4>5. Trust(r, "newname") BY <1>5, <4>3, BeforeServers
      <4> QED BY <1>3, <3>14, <4>2, <4>3, <4>4, <4>5, GotoTrue
    <3> QED BY <3>8, <3>13, <3>14
  <2> QED BY <2>3, <2>4
<1> QED BY <1>19, <1>20, <1>21

(* What a referral names are servers of the zone referred to.                *)
LEMMA NsNamesServe ==
  ASSUME NEW p \in PacketType, NEW referral, NEW hosts,
         \A i \in NsRecords(p) : p.authority[i].name = referral => p.authority[i].data \in hosts
  PROVE  Range(NsNames(p, referral)) \subseteq hosts
<1>1. PICK n \in Nat : n = Len(p.authority) /\ DOMAIN p.authority = 1 .. n
  <2>1. p.authority \in Seq(Record) BY PacketTyped
  <2> QED BY <2>1
<1>2. PICK is : is = {i \in NsRecords(p) : p.authority[i].name = referral} OBVIOUS
<1>3. is \in SUBSET (1 .. n) BY <1>1, <1>2 DEF NsRecords
<1>4. Cardinality(is) \in Nat
  <2>1. IsFiniteSet(1 .. n) BY FS_Interval
  <2> QED BY <1>3, <2>1, FS_Subset, FS_CardinalityType
<1>5. PICK m : m = Min({Cardinality(is), QUERY_MAXNS}) OBVIOUS
<1>6. m \in Nat /\ m <= Cardinality(is)
  <2>1. {Cardinality(is), QUERY_MAXNS} \in SUBSET Nat BY <1>4, Constants
  <2> QED BY <1>5, <2>1, MinIsLeast
<1>7. Places(is) \in [1 .. Cardinality(is) -> is] BY <1>3, PlacesInOrder
<1>8. \A k \in 1 .. m : p.authority[Places(is)[k]].data \in hosts
  <2> SUFFICES ASSUME NEW k \in 1 .. m PROVE p.authority[Places(is)[k]].data \in hosts OBVIOUS
  <2>1. k \in 1 .. Cardinality(is) BY <1>4, <1>6
  <2>2. Places(is)[k] \in is BY <1>7, <2>1
  <2> QED BY <1>2, <2>2
<1>9. PICK ns : ns = [k \in 1 .. m |-> p.authority[Places(is)[k]].data] OBVIOUS
<1>10. Range(ns) = {ns[k] : k \in 1 .. m} BY <1>9 DEF Range
<1>11. \A k \in 1 .. m : ns[k] \in hosts BY <1>8, <1>9
<1>12. NsNames(p, referral) = ns BY <1>2, <1>5, <1>9 DEF NsNames
<1> QED BY <1>10, <1>11, <1>12

(* What is known when the second scan is over.                               *)
LEMMA JudgedTrue ==
  ASSUME NEW s, Valid(s), Trust(s, "judge"), NEW p, p = s.packet, NEW d, d = Name(s),
         NEW type, type = Type(s), NEW empty, empty = s.flagempty,
         NEW control, control = s.control[s.level], NEW referral, referral = Referral(p)
  PROVE  /\ type \notin {"ANY", "OPT"} /\ Under(d, control)
         /\ p.rcode = 3 => d \notin Exist
         /\ p.rcode # 3 /\ (~empty \/ HasSoa(p) \/ referral = None) =>
              /\ d \in Exist /\ AnswerData(p, d, {type}) = Data(d, type)
              /\ type = "CNAME" \/ Data(d, "CNAME") = {} \/ d \in Loops
         /\ p.rcode # 3 /\ empty /\ HasSoa(p) =>
              d \in Exist /\ Data(d, type) = {} /\ (type = "CNAME" \/ Data(d, "CNAME") = {})
         /\ AnswerData(p, d, {"A", "AAAA"}) \subseteq Data(d, "A") \cup Data(d, "AAAA")
         /\ p.rcode # 3 /\ empty /\ ~HasSoa(p) /\ referral # control /\ Suffix(referral, control) =>
              Range(NsNames(p, referral)) \subseteq Hosts(referral)
<1>1. p \in PacketType /\ d \in Names /\ type \in RRTypes BY ValidTyped
<1>2. type \notin {"ANY", "OPT"} BY DEF Trust, Type
<1>3. PICK len \in Nat : len = Len(p.answer) /\ DOMAIN p.answer = 1 .. len
  <2>1. p.answer \in Seq(Record) BY <1>1, PacketTyped
  <2> QED BY <2>1
<1>4. PICK c \in Names, n \in Names :
        /\ Truthful(p, n, type, Zones(s, c)) /\ control \in Zones(s, c)
        /\ Under(d, control) /\ empty = Empty(p, n, type)
        /\ LeadsTo(p, n, type, d, Zones(s, c), len)
  BY <1>3 DEF Trust, Spoken
<1>5. TrueOf(d, p, n, type) BY <1>1, <1>2, <1>3, <1>4 DEF Truthful
<1>6. p.rcode \in {0, 3} BY <1>1, PacketTyped
<1>7. AnswerData(p, d, {"A", "AAAA"}) \subseteq Data(d, "A") \cup Data(d, "AAAA")
  <2> SUFFICES ASSUME NEW x \in AnswerData(p, d, {"A", "AAAA"})
               PROVE  x \in Data(d, "A") \cup Data(d, "AAAA")
    OBVIOUS
  <2>1. PICK i \in 1 .. len : p.answer[i].name = d /\ p.answer[i].type \in {"A", "AAAA"}
                              /\ x = p.answer[i].data
    BY <1>3 DEF AnswerData
  <2>2. x \in Data(d, p.answer[i].type) BY <1>3, <1>4, <2>1 DEF Truthful
  <2> QED BY <2>1, <2>2
<1>8. ASSUME p.rcode # 3, empty, ~HasSoa(p), referral # control, Suffix(referral, control)
      PROVE  Range(NsNames(p, referral)) \subseteq Hosts(referral)
  <2>1. p.rcode = 0 BY <1>6, <1>8
  <2>2. \A i \in NsRecords(p) :
          (\E e \in Zones(s, c) : p.authority[i].name # e /\ Suffix(p.authority[i].name, e)) =>
            p.authority[i].data \in Hosts(p.authority[i].name)
    BY <1>4, <1>8, <2>1 DEF Truthful
  <2>3. \A i \in NsRecords(p) : p.authority[i].name = referral => p.authority[i].data \in Hosts(referral)
    BY <1>4, <1>8, <2>2
  <2> QED BY <1>1, <2>3, NsNamesServe
<1>9. p.rcode # 3 /\ (~empty \/ HasSoa(p) \/ referral = None) =>
        /\ d \in Exist /\ AnswerData(p, d, {type}) = Data(d, type)
        /\ type = "CNAME" \/ Data(d, "CNAME") = {} \/ d \in Loops
  BY <1>4, <1>5 DEF TrueOf
<1>10. p.rcode # 3 /\ empty /\ HasSoa(p) =>
         d \in Exist /\ Data(d, type) = {} /\ (type = "CNAME" \/ Data(d, "CNAME") = {})
  BY <1>4, <1>5 DEF TrueOf
<1>11. p.rcode = 3 => d \notin Exist BY <1>5 DEF TrueOf
<1> QED BY <1>2, <1>4, <1>7, <1>8, <1>9, <1>10, <1>11

LEMMA JudgeTrue == ASSUME IInv, TInv, NEW q \in Clients, Judge(q) PROVE TInv'
<1>1. At(q, "judge") BY DEF Judge
<1>2. running = q /\ Valid(z[q]) /\ Place(z[q], "judge") BY <1>1, AtPlace DEF Pcs
<1>3. Known(z[q]) /\ Trust(z[q], "judge") /\ SetsKnown(cache) BY <1>1, KnownAt DEF At, Pcs
<1>4. PICK s : s = Read(z[q]) OBVIOUS
<1>5. /\ Valid(s) /\ s \in QueryType /\ Known(s) /\ s.type = z[q].type /\ s.level = z[q].level
      /\ s.name = z[q].name /\ s.control = z[q].control /\ s.ns[s.level] = <<>>
  BY <1>2, <1>3, <1>4, ReadValid, ReadTrue DEF Place, Valid
<1>6. PICK l \in Levels : l = s.level BY <1>5, ValidTyped
<1>7. PICK p \in PacketType : p = z[q].packet BY <1>2, ValidTyped
<1>8. PICK d \in Names : d = Name(s) /\ d = Name(z[q]) BY <1>5, ValidTyped DEF Name
<1>9. PICK type \in RRTypes : type = Type(s) /\ type = Type(z[q]) BY <1>5, ValidTyped DEF Type
<1>10. PICK empty : empty = z[q].flagempty OBVIOUS
<1>11. PICK control : control = s.control[l] /\ control = z[q].control[z[q].level] BY <1>5, <1>6
<1>12. PICK referral : referral = Referral(p) OBVIOUS
<1>13. PICK data : data = AnswerData(p, d, {"A", "AAAA"}) OBVIOUS
<1>14. PICK all : all = AnswerData(p, d, {s.type}) OBVIOUS
<1>15. PICK names : names = NsNames(p, referral) OBVIOUS
<1>16. PICK t : t = [s EXCEPT !.control[s.level] = referral, !.ns[s.level] = names] OBVIOUS
<1>17. /\ type \notin {"ANY", "OPT"} /\ Under(d, control)
       /\ p.rcode = 3 => d \notin Exist
       /\ p.rcode # 3 /\ (~empty \/ HasSoa(p) \/ referral = None) =>
            /\ d \in Exist /\ AnswerData(p, d, {type}) = Data(d, type)
            /\ type = "CNAME" \/ Data(d, "CNAME") = {} \/ d \in Loops
       /\ p.rcode # 3 /\ empty /\ HasSoa(p) =>
            d \in Exist /\ Data(d, type) = {} /\ (type = "CNAME" \/ Data(d, "CNAME") = {})
       /\ data \subseteq Data(d, "A") \cup Data(d, "AAAA")
       /\ p.rcode # 3 /\ empty /\ ~HasSoa(p) /\ referral # control /\ Suffix(referral, control) =>
            Range(names) \subseteq Hosts(referral)
  BY <1>2, <1>3, <1>7, <1>8, <1>9, <1>10, <1>11, <1>12, <1>13, <1>15, JudgedTrue
<1>18. s.type \notin {"ANY", "OPT"} BY <1>3, <1>5 DEF Trust
<1>19. \/ p.rcode = 3 /\ NXDOMAIN(q, s)
       \/ HAVENS(q, s) \/ DIE(q, s)
       \/ s.level > 0 /\ LOWERLEVEL(q, s, data)
       \/ /\ ~(s.level > 0) /\ p.rcode # 3 /\ (~empty \/ HasSoa(p) \/ referral = None)
          /\ Finish(q, s, 0, all)
       \/ /\ p.rcode # 3 /\ empty /\ ~HasSoa(p) /\ ~Lame(referral, control) /\ Suffix(d, referral)
          /\ HAVENS(q, t)
  <2>1. CASE referral = None
    BY <1>4, <1>5, <1>6, <1>7, <1>8, <1>10, <1>11, <1>12, <1>13, <1>14, <2>1 DEF Judge
  <2>2. CASE referral # None
    BY <1>4, <1>5, <1>6, <1>7, <1>8, <1>10, <1>11, <1>12, <1>13, <1>14, <1>15, <1>16, <2>2 DEF Judge
  <2> QED BY <2>1, <2>2
<1>20. SetsKnown(cache')
  <2>1. PICK new : new = Negative(p, d, type, empty) OBVIOUS
  <2>2. cache' = Stored(new) BY <1>4, <1>7, <1>8, <1>9, <1>10, <2>1 DEF Judge
  <2>3. SetsKnown(new) BY <1>17, <2>1, NegativeTrue
  <2> QED BY <1>3, <2>2, <2>3, StoredTrue
<1>21. CASE p.rcode = 3 /\ NXDOMAIN(q, s)
  <2>1. s.level = 0 => s.name[0] \notin Exist BY <1>8, <1>17, <1>21 DEF Name
  <2> QED BY <1>5, <1>18, <1>20, <1>21, <2>1, ServfailTrue
<1>22. CASE HAVENS(q, s) BY <1>5, <1>18, <1>20, <1>22, HavensTrue
<1>23. CASE DIE(q, s) BY <1>5, <1>20, <1>23, DieTrue
<1>24. CASE s.level > 0 /\ LOWERLEVEL(q, s, data)
  <2>1. data \in SUBSET Addrs /\ IsFiniteSet(data) BY <1>13, AnswerDataAreAddresses
  <2>2. s.control[s.level - 1] \in Names /\ d \in Hosts(s.control[s.level - 1])
    BY <1>5, <1>8, <1>24, NameIsHost
  <2>3. data \subseteq Masters(s.control[s.level - 1]) BY <1>17, <2>2, HostServes
  <2> QED BY <1>5, <1>18, <1>20, <1>24, <2>1, <2>3, LowerTrue
<1>25. CASE /\ ~(s.level > 0) /\ p.rcode # 3 /\ (~empty \/ HasSoa(p) \/ referral = None)
            /\ Finish(q, s, 0, all)
  <2>1. s.level = 0 /\ s.name[0] = d /\ s.name[0] # None BY <1>5, <1>8, <1>25, LevelZero
  <2>2. type = s.type BY <1>9, <2>1 DEF Type
  <2>3. Word(s.name[0], s.type, 0, all) BY <1>14, <1>17, <1>25, <2>1, <2>2 DEF Word
  <2> QED BY <1>5, <1>20, <1>25, <2>1, <2>3, FinishTrue
<1>26. CASE /\ p.rcode # 3 /\ empty /\ ~HasSoa(p) /\ ~Lame(referral, control) /\ Suffix(d, referral)
            /\ HAVENS(q, t)
  <2>1. referral # control /\ Suffix(referral, control) BY <1>26 DEF Lame
  <2>2. Range(names) \subseteq Hosts(referral) BY <1>17, <1>26, <2>1
  <2>3. Under(d, referral) BY <1>17, <1>26, <2>1, UnderBetween
  <2>4. referral \in Names BY <1>26, SuffixAt
  <2>5. PICK c : c = ControlPut(s, referral) OBVIOUS
  <2>6. /\ Valid(c) /\ c.level = l /\ c.name = s.name /\ c.ns = s.ns /\ c.addrs = s.addrs
        /\ c.control[l] = referral
    BY <1>5, <1>6, <2>4, <2>5, ControlSet
  <2>7. names \in Seq(Names) /\ Len(names) <= QUERY_MAXNS BY <1>15, NsNamesTyped
  <2>8. t = NsPut(c, l, names) BY <1>5, <1>6, <1>16, <2>5 DEF QueryType, ControlPut, NsPut
  <2>9. l <= c.level
    <3>1. l \in Nat BY SomeLevels
    <3> QED BY <2>6, <3>1
  <2>10. /\ Valid(t) /\ t.level = l /\ t.name = s.name /\ t.control = c.control /\ t.ns[l] = names
         /\ t.addrs = s.addrs
    BY <2>6, <2>7, <2>8, <2>9, NsSet
  <2>11. t.alias = s.alias /\ t.type = s.type
         /\ \A k \in Levels : k # l => t.control[k] = s.control[k] /\ t.ns[k] = s.ns[k]
    BY <1>5, <1>6, <1>16 DEF QueryType
  <2>12. Known(t)
    <3>1. \A k \in Levels : k # l => /\ t.control[k] = s.control[k] /\ t.ns[k] = s.ns[k]
                                     /\ t.addrs[k] = s.addrs[k]
      BY <2>10, <2>11
    <3> QED BY <1>5, <1>6, <2>10, <2>11, <3>1, LevelServed
  <2>13. /\ Under(Name(t), t.control[t.level])
         /\ Range(t.ns[t.level]) \subseteq Hosts(t.control[t.level])
    BY <1>6, <1>8, <2>2, <2>3, <2>6, <2>10 DEF Name
  <2>14. t.type \notin {"ANY", "OPT"} BY <1>18, <2>11
  <2> QED BY <1>20, <1>26, <2>10, <2>12, <2>13, <2>14, HavensTrue
<1> QED BY <1>19, <1>21, <1>22, <1>23, <1>24, <1>25, <1>26

LEMMA ForgetTrue == ASSUME TInv, NEW key, Forget(key) PROVE TInv'
<1>1. cache' = [k \in DOMAIN cache \ {key} |-> cache[k]] /\ UNCHANGED <<z, out>> BY DEF Forget
<1>2. SetsKnown(cache') BY <1>1 DEF TInv, SetsKnown
<1>3. ReplyTrue' BY <1>1 DEF TInv, ReplyTrue
<1>4. (\A q \in Clients : z[q].pc # "idle" => Known(z[q]) /\ Trust(z[q], z[q].pc))'
  BY <1>1 DEF TInv
<1> QED BY <1>2, <1>3, <1>4 DEF TInv

LEMMA TruthHolds == Init => TInv
<1> SUFFICES ASSUME Init PROVE TInv OBVIOUS
<1>1. z = [q \in Clients |-> Idle] /\ cache = <<>> /\ out = NoResponse BY DEF Init
<1>2. DOMAIN cache = {} BY <1>1
<1>3. \A q \in Clients : z[q].pc = "idle" BY <1>1, IdleTyped
<1>4. out.rcode = -1 BY <1>1 DEF NoResponse
<1>5. ReplyTrue BY <1>4 DEF ReplyTrue
<1> QED BY <1>2, <1>3, <1>5 DEF TInv, SetsKnown

LEMMA NextTrue == IInv /\ TInv /\ [Next]_vars => TInv'
<1> SUFFICES ASSUME IInv, TInv, [Next]_vars PROVE TInv' OBVIOUS
<1>1. CASE UNCHANGED vars
  <2>1. UNCHANGED <<z, cache, out>> BY <1>1 DEF vars
  <2>2. ReplyTrue' BY <2>1 DEF TInv, ReplyTrue
  <2> QED BY <2>1, <2>2 DEF TInv
<1>2. ASSUME NEW q \in Clients, Doit(q) PROVE TInv'
  BY <1>2, NewnameTrue, CachedAliasTrue, LookupTrue, BeginTrue, HavensPartialTrue,
     HavensAddrTrue, HavePacketTrue, FollowTrue, JudgeTrue DEF Doit
<1>3. ASSUME NEW q \in Clients, Reply(q) PROVE TInv'
  BY <1>3, PacketTrue, NoAnswerTrue DEF Reply
<1>4. ASSUME NEW q \in Clients, NEW ask \in Asked, Start(q, ask[1], ask[2]) PROVE TInv'
  <2>1. ask[1] \in Names /\ ask[2] \in RRTypes BY QueryAssumption
  <2> QED BY <1>4, <2>1, StartTrue
<1>5. ASSUME NEW key \in DOMAIN cache, Forget(key) PROVE TInv' BY <1>5, ForgetTrue
<1> QED BY <1>1, <1>2, <1>3, <1>4, <1>5 DEF Next

(* The strengthening of AnswersTrue that every step keeps: besides the cache *)
(* and the response, the addresses, the names of servers and the aliases     *)
(* that a query holds are those of the zones, at each level of it, and the   *)
(* packet being read came from a server of a zone that may speak of the name *)
(* (query.c:561, 1205, 1308).                                                *)
THEOREM TruthIsInvariant == Spec => [](IInv /\ TInv)
<1>1. Init => IInv /\ TInv BY InitHolds, TruthHolds
<1>2. (IInv /\ TInv) /\ [Next]_vars => (IInv /\ TInv)' BY NextHolds, NextTrue
<1> QED BY <1>1, <1>2, PTL DEF Spec

(* Where the servers of each zone are honest about it, all that is cached    *)
(* and all that clients are told is true, whatever the servers say of other  *)
(* zones, however they refer to each other, and whatever is forgotten or not *)
(* answered in between (query.c:561, 1308).                                  *)
THEOREM AnswersAreTrue == Spec => []AnswersTrue
<1>1. TInv => AnswersTrue BY DEF TInv, AnswersTrue, SetsKnown, CacheTrue
<1> QED BY <1>1, TruthIsInvariant, PTL

=============================================================================
