--------------------------- MODULE DnscacheProofs ---------------------------
(***************************************************************************)
(* The tables of dnscache are sound and a full table drops its oldest UDP    *)
(* query, for any numbers of clients, connections and slots and for queries *)
(* of any length.                                                           *)
(*                                                                         *)
(* A step of the loop changes one slot, with the counter of its table and,  *)
(* perhaps, what became of one query, sometimes twice.  What the tables and *)
(* their ledgers owe each other is therefore stated of any tables uu and    *)
(* tt, so that each such change has a lemma.                                *)
(***************************************************************************)
EXTENDS Dnscache, FiniteSetTheorems, TLAPS

USlot == [active : 0 .. MaxQueries, ip : Clients \cup {None}, done : BOOLEAN]
TSlot == [active : 0 .. MaxQueries, tcp : Conns \cup {None}, state : -1 .. 3,
          buf : BOOLEAN, left : 0 .. MaxLen, done : BOOLEAN]
Log == [1 .. MaxQueries -> {None, "answered", "dropped", "wrong"} \cup Clients \cup Conns]

Working(v)  == v.active # 0
TWorking(v) == v.active # 0 /\ v.state = 0

One(b) == IF b THEN 1 ELSE 0

-----------------------------------------------------------------------------
(* Sets of slots                                                            *)

(* The least of some numbers is one of them: Min of FiniteSetsExt, on a set  *)
(* that is not empty.                                                       *)
LEMMA MinIsMember ==
  ASSUME NEW S \in SUBSET Nat, S # {} PROVE Min(S) \in S
<1>1. PICK R : IsWellFoundedOn(R, Nat) /\ R = {ss \in Nat \X Nat : ss[1] < ss[2]}
  BY NatLessThanWellFounded DEF OpToRel
<1>2. PICK m \in S : \A n \in S : ~ (<<n, m>> \in R) BY <1>1, WFMin
<1>3. ASSUME NEW n \in S PROVE m <= n
  <2>1. <<n, m>> \in Nat \X Nat /\ <<n, m>>[1] = n /\ <<n, m>>[2] = m OBVIOUS
  <2>2. ~ (n < m) BY <1>1, <1>2, <2>1
  <2> QED BY <2>2
<1> QED BY <1>3 DEF Min

LEMMA SlotsFinite == IsFiniteSet(USlots) /\ IsFiniteSet(TSlots)
BY DnscacheAssumption, FS_Interval DEF USlots, TSlots, DnscacheAssumption

(* Counting the slots that have some property, when one slot changes.        *)
LEMMA CountOne ==
  ASSUME NEW A, IsFiniteSet(A), NEW k, NEW B, B \ {k} = A \ {k}
  PROVE  /\ IsFiniteSet(B)
         /\ Cardinality(B) = Cardinality(A) - One(k \in A) + One(k \in B)
         /\ Cardinality(A) \in Nat /\ Cardinality(B) \in Nat
<1>1. IsFiniteSet(A \ {k}) /\ Cardinality(A \ {k}) = Cardinality(A) - One(k \in A)
  BY FS_RemoveElement, FS_CardinalityType DEF One
<1>2. CASE k \in B
  <2>1. B = (A \ {k}) \cup {k} /\ k \notin A \ {k} BY <1>2
  <2>2. IsFiniteSet(B) /\ Cardinality(B) = Cardinality(A \ {k}) + 1 BY <1>1, <2>1, FS_AddElement
  <2> QED BY <1>1, <1>2, <2>2, FS_CardinalityType DEF One
<1>3. CASE k \notin B
  <2>1. B = A \ {k} BY <1>3
  <2> QED BY <1>1, <1>3, <2>1, FS_CardinalityType DEF One
<1> QED BY <1>2, <1>3

-----------------------------------------------------------------------------
(* The ledgers: what is counted and held for the slots of a table.          *)

(* A buffer is allocated in the states that use one; None is no connection. *)
SlotOK(v) ==
  /\ v.active = 0 <=> v.tcp = None
  /\ v.buf <=> v.active # 0 /\ v.state \in {-1, 3}
  /\ v.buf => v.left > 0

TLedger(tt, act, h) ==
  /\ tt \in [TSlots -> TSlot] /\ h \in [conns : SUBSET Conns, bufs : Nat]
  /\ \A k \in TSlots : SlotOK(tt[k])
  /\ \A a, b \in TSlots : tt[a].tcp = tt[b].tcp /\ tt[a].tcp # None => a = b
  /\ h.conns = {tt[k].tcp : k \in TSlots} \ {None}
  /\ h.bufs = Cardinality({k \in TSlots : tt[k].buf})
  /\ act = Cardinality({k \in TSlots : tt[k].active # 0})

LEMMA TLedgerKept ==
  ASSUME NEW tt, NEW act, NEW h, TLedger(tt, act, h), NEW k \in TSlots,
         NEW v \in TSlot, SlotOK(v), v.tcp \notin h.conns \ {tt[k].tcp},
         NEW g,
         g = [conns |-> (h.conns \ {tt[k].tcp}) \cup ({v.tcp} \ {None}),
              bufs  |-> h.bufs - One(tt[k].buf) + One(v.buf)]
  PROVE  TLedger([tt EXCEPT ![k] = v], act - One(tt[k].active # 0) + One(v.active # 0), g)
<1> DEFINE t2 == [tt EXCEPT ![k] = v]
<1> DEFINE A == {i \in TSlots : tt[i].buf}
<1> DEFINE B == {i \in TSlots : t2[i].buf}
<1> DEFINE C == {i \in TSlots : tt[i].active # 0}
<1> DEFINE D == {i \in TSlots : t2[i].active # 0}
<1> USE DEF TLedger
<1>1. t2 \in [TSlots -> TSlot] /\ t2[k] = v /\ \A i \in TSlots \ {k} : t2[i] = tt[i] OBVIOUS
<1>2. IsFiniteSet(A) /\ IsFiniteSet(C) BY SlotsFinite, FS_Subset
<1>3. B \ {k} = A \ {k} /\ D \ {k} = C \ {k} BY <1>1
<1>4. /\ Cardinality(B) = Cardinality(A) - One(k \in A) + One(k \in B)
      /\ Cardinality(D) = Cardinality(C) - One(k \in C) + One(k \in D)
      /\ Cardinality(B) \in Nat
  <2> HIDE DEF A, B, C, D
  <2>1. Cardinality(B) = Cardinality(A) - One(k \in A) + One(k \in B) /\ Cardinality(B) \in Nat
    BY <1>2, <1>3, CountOne
  <2>2. Cardinality(D) = Cardinality(C) - One(k \in C) + One(k \in D) BY <1>2, <1>3, CountOne
  <2> QED BY <2>1, <2>2
<1>5. One(k \in A) = One(tt[k].buf) /\ One(k \in B) = One(v.buf) BY <1>1 DEF One
<1>6. One(k \in C) = One(tt[k].active # 0) /\ One(k \in D) = One(v.active # 0)
  BY <1>1 DEF One
<1>7. v.tcp \in Conns \cup {None} BY DEF TSlot
<1>8. g \in [conns : SUBSET Conns, bufs : Nat] BY <1>4, <1>5, <1>7
<1>9. \A i \in TSlots : SlotOK(t2[i]) BY <1>1
<1>10. \A a \in TSlots \ {k} : tt[a].tcp # None => tt[a].tcp \in h.conns \ {tt[k].tcp} OBVIOUS
<1>11. ASSUME NEW a \in TSlots, NEW b \in TSlots, t2[a].tcp = t2[b].tcp, t2[a].tcp # None
       PROVE  a = b
  BY <1>1, <1>10, <1>11
<1>12. g.conns = {t2[i].tcp : i \in TSlots} \ {None}
  <2>1. \A i \in TSlots : t2[i].tcp = IF i = k THEN v.tcp ELSE tt[i].tcp BY <1>1
  <2>2. \A c : c \in g.conns => c # None /\ \E i \in TSlots : t2[i].tcp = c
    <3> SUFFICES ASSUME NEW c, c \in g.conns PROVE c # None /\ \E i \in TSlots : t2[i].tcp = c
      OBVIOUS
    <3>1. CASE c \in h.conns \ {tt[k].tcp}
      <4>1. PICK i \in TSlots : tt[i].tcp = c /\ c # None BY <3>1
      <4>2. i # k BY <3>1, <4>1
      <4> QED BY <2>1, <4>1, <4>2
    <3>2. CASE c = v.tcp /\ c # None BY <2>1, <3>2
    <3> QED BY <3>1, <3>2
  <2>3. \A i \in TSlots : t2[i].tcp # None => t2[i].tcp \in g.conns BY <1>10, <2>1
  <2> QED BY <2>2, <2>3
<1>13. g.bufs = Cardinality(B) BY <1>4, <1>5
<1>14. act - One(tt[k].active # 0) + One(v.active # 0) = Cardinality(D) BY <1>4, <1>6
<1> HIDE DEF t2
<1>15. TLedger(t2, act - One(tt[k].active # 0) + One(v.active # 0), g)
  BY <1>1, <1>8, <1>9, <1>11, <1>12, <1>13, <1>14
<1> QED BY <1>15 DEF t2

(* The same for u[], where only the active slots are counted.               *)
ULedger(uu, act) ==
  /\ uu \in [USlots -> USlot]
  /\ act = Cardinality({k \in USlots : uu[k].active # 0})

LEMMA ULedgerKept ==
  ASSUME NEW uu, NEW act, ULedger(uu, act), NEW k \in USlots, NEW v \in USlot
  PROVE  ULedger([uu EXCEPT ![k] = v], act - One(uu[k].active # 0) + One(v.active # 0))
<1> DEFINE u2 == [uu EXCEPT ![k] = v]
<1> DEFINE C == {i \in USlots : uu[i].active # 0}
<1> DEFINE D == {i \in USlots : u2[i].active # 0}
<1> USE DEF ULedger
<1>1. u2 \in [USlots -> USlot] /\ u2[k] = v /\ \A i \in USlots \ {k} : u2[i] = uu[i] OBVIOUS
<1>2. IsFiniteSet(C) BY SlotsFinite, FS_Subset
<1>3. D \ {k} = C \ {k} BY <1>1
<1>4. Cardinality(D) = Cardinality(C) - One(k \in C) + One(k \in D) BY <1>2, <1>3, CountOne
<1>5. One(k \in C) = One(uu[k].active # 0) /\ One(k \in D) = One(v.active # 0)
  BY <1>1 DEF One
<1> HIDE DEF u2
<1>6. ULedger(u2, act - One(uu[k].active # 0) + One(v.active # 0)) BY <1>1, <1>4, <1>5
<1> QED BY <1>6 DEF u2

-----------------------------------------------------------------------------
(* The queries: where each is, and who asked it.                            *)

QLedger(uu, tt, n, l) ==
  /\ n \in 0 .. MaxQueries /\ l \in Log
  /\ \A k \in USlots : Working(uu[k]) =>
       uu[k].active \in 1 .. n /\ uu[k].ip \in Clients /\ l[uu[k].active] = uu[k].ip
  /\ \A k \in TSlots : TWorking(tt[k]) =>
       tt[k].active \in 1 .. n /\ tt[k].tcp \in Conns /\ l[tt[k].active] = tt[k].tcp
  /\ \A a, b \in USlots :
       Working(uu[a]) /\ Working(uu[b]) /\ uu[a].active = uu[b].active => a = b
  /\ \A a, b \in TSlots :
       TWorking(tt[a]) /\ TWorking(tt[b]) /\ tt[a].active = tt[b].active => a = b
  /\ \A a \in USlots, b \in TSlots :
       Working(uu[a]) /\ TWorking(tt[b]) => uu[a].active # tt[b].active
  /\ \A m \in 1 .. n : \/ l[m] \in {"answered", "dropped"}
                       \/ \E k \in USlots : Working(uu[k]) /\ uu[k].active = m
                       \/ \E k \in TSlots : TWorking(tt[k]) /\ tt[k].active = m

(* A log that differs only in the end of query m.                           *)
Ends(m, l, l2) ==
  /\ l2 \in Log /\ l2[m] \in {"answered", "dropped"}
  /\ \A i \in 1 .. MaxQueries \ {m} : l2[i] = l[i]

(* Slots that differ, if at all, in something else than their query.        *)
LEMMA SameQueries ==
  ASSUME NEW uu, NEW tt, NEW n, NEW l, QLedger(uu, tt, n, l), NEW u2, NEW t2,
         \A k \in USlots : /\ Working(u2[k]) <=> Working(uu[k])
                           /\ Working(uu[k]) => u2[k].active = uu[k].active /\ u2[k].ip = uu[k].ip,
         \A k \in TSlots : /\ TWorking(t2[k]) <=> TWorking(tt[k])
                           /\ TWorking(tt[k]) => t2[k].active = tt[k].active /\ t2[k].tcp = tt[k].tcp
  PROVE  QLedger(u2, t2, n, l)
<1> USE DEF QLedger
<1> HIDE DEF Working, TWorking
<1>1. \A m \in 1 .. n : \/ l[m] \in {"answered", "dropped"}
                        \/ \E k \in USlots : Working(u2[k]) /\ u2[k].active = m
                        \/ \E k \in TSlots : TWorking(t2[k]) /\ t2[k].active = m
  <2> SUFFICES ASSUME NEW m \in 1 .. n, l[m] \notin {"answered", "dropped"}
               PROVE  \/ \E k \in USlots : Working(u2[k]) /\ u2[k].active = m
                      \/ \E k \in TSlots : TWorking(t2[k]) /\ t2[k].active = m
    OBVIOUS
  <2>1. \/ \E k \in USlots : Working(uu[k]) /\ uu[k].active = m
        \/ \E k \in TSlots : TWorking(tt[k]) /\ tt[k].active = m
    OBVIOUS
  <2>2. CASE \E k \in USlots : Working(uu[k]) /\ uu[k].active = m BY <2>2
  <2>3. CASE \E k \in TSlots : TWorking(tt[k]) /\ tt[k].active = m BY <2>3
  <2> QED BY <2>1, <2>2, <2>3
<1> QED BY <1>1

(* The query of a slot of u[] ends, and the slot is free.                   *)
LEMMA UEnds ==
  ASSUME NEW uu \in [USlots -> USlot], NEW tt, NEW n, NEW l, QLedger(uu, tt, n, l),
         NEW k \in USlots, Working(uu[k]), NEW l2, Ends(uu[k].active, l, l2)
  PROVE  QLedger([uu EXCEPT ![k] = UFree], tt, n, l2)
<1> DEFINE u2 == [uu EXCEPT ![k] = UFree]
<1> USE DEF QLedger, Ends
<1>1. ~Working(u2[k]) /\ \A i \in USlots \ {k} : u2[i] = uu[i] BY DEF UFree, Working
<1>2. uu[k].active \in 1 .. n OBVIOUS
<1>3. \A i \in 1 .. n : i \in 1 .. MaxQueries BY DnscacheAssumption DEF DnscacheAssumption
<1> HIDE DEF u2
<1>4. \A m \in 1 .. n : \/ l2[m] \in {"answered", "dropped"}
                        \/ \E i \in USlots : Working(u2[i]) /\ u2[i].active = m
                        \/ \E i \in TSlots : TWorking(tt[i]) /\ tt[i].active = m
  <2> SUFFICES ASSUME NEW m \in 1 .. n, l2[m] \notin {"answered", "dropped"}
               PROVE  \/ \E i \in USlots : Working(u2[i]) /\ u2[i].active = m
                      \/ \E i \in TSlots : TWorking(tt[i]) /\ tt[i].active = m
    OBVIOUS
  <2>1. m # uu[k].active /\ l2[m] = l[m] BY <1>3
  <2>2. \/ \E i \in USlots : Working(uu[i]) /\ uu[i].active = m
        \/ \E i \in TSlots : TWorking(tt[i]) /\ tt[i].active = m
    BY <2>1
  <2> QED BY <1>1, <2>1, <2>2
<1>5. \A i \in USlots : Working(u2[i]) => i # k /\ u2[i] = uu[i] BY <1>1
<1>6. \A i \in USlots : Working(u2[i]) => u2[i].active # uu[k].active BY <1>5
<1>7. \A i \in TSlots : TWorking(tt[i]) => tt[i].active # uu[k].active OBVIOUS
<1>8. \A i \in USlots : Working(u2[i]) =>
        u2[i].active \in 1 .. n /\ u2[i].ip \in Clients /\ l2[u2[i].active] = u2[i].ip
  BY <1>3, <1>5, <1>6
<1>9. \A i \in TSlots : TWorking(tt[i]) =>
        tt[i].active \in 1 .. n /\ tt[i].tcp \in Conns /\ l2[tt[i].active] = tt[i].tcp
  BY <1>3, <1>7
<1>10. QLedger(u2, tt, n, l2) BY <1>4, <1>5, <1>8, <1>9
<1> QED BY <1>10 DEF u2

(* The query of a slot of t[] ends, and what is left is no query.           *)
LEMMA TEnds ==
  ASSUME NEW uu, NEW tt \in [TSlots -> TSlot], NEW n, NEW l, QLedger(uu, tt, n, l),
         NEW k \in TSlots, TWorking(tt[k]), NEW l2, Ends(tt[k].active, l, l2),
         NEW v, ~TWorking(v)
  PROVE  QLedger(uu, [tt EXCEPT ![k] = v], n, l2)
<1> DEFINE t2 == [tt EXCEPT ![k] = v]
<1> USE DEF QLedger, Ends
<1>1. ~TWorking(t2[k]) /\ \A i \in TSlots \ {k} : t2[i] = tt[i] OBVIOUS
<1>2. tt[k].active \in 1 .. n OBVIOUS
<1>3. \A i \in 1 .. n : i \in 1 .. MaxQueries BY DnscacheAssumption DEF DnscacheAssumption
<1> HIDE DEF t2
<1>4. \A m \in 1 .. n : \/ l2[m] \in {"answered", "dropped"}
                        \/ \E i \in USlots : Working(uu[i]) /\ uu[i].active = m
                        \/ \E i \in TSlots : TWorking(t2[i]) /\ t2[i].active = m
  <2> SUFFICES ASSUME NEW m \in 1 .. n, l2[m] \notin {"answered", "dropped"}
               PROVE  \/ \E i \in USlots : Working(uu[i]) /\ uu[i].active = m
                      \/ \E i \in TSlots : TWorking(t2[i]) /\ t2[i].active = m
    OBVIOUS
  <2>1. m # tt[k].active /\ l2[m] = l[m] BY <1>3
  <2>2. \/ \E i \in USlots : Working(uu[i]) /\ uu[i].active = m
        \/ \E i \in TSlots : TWorking(tt[i]) /\ tt[i].active = m
    BY <2>1
  <2> QED BY <1>1, <2>1, <2>2
<1>5. \A i \in TSlots : TWorking(t2[i]) => i # k /\ t2[i] = tt[i] BY <1>1
<1>6. \A i \in TSlots : TWorking(t2[i]) => t2[i].active # tt[k].active BY <1>5
<1>7. \A i \in USlots : Working(uu[i]) => uu[i].active # tt[k].active OBVIOUS
<1>8. \A i \in TSlots : TWorking(t2[i]) =>
        t2[i].active \in 1 .. n /\ t2[i].tcp \in Conns /\ l2[t2[i].active] = t2[i].tcp
  BY <1>3, <1>5, <1>6
<1>9. \A i \in USlots : Working(uu[i]) =>
        uu[i].active \in 1 .. n /\ uu[i].ip \in Clients /\ l2[uu[i].active] = uu[i].ip
  BY <1>3, <1>7
<1>10. QLedger(uu, t2, n, l2) BY <1>4, <1>5, <1>8, <1>9
<1> QED BY <1>10 DEF t2

(* A slot of u[] that was free takes the next query.                        *)
LEMMA UStarts ==
  ASSUME NEW uu \in [USlots -> USlot], NEW tt, NEW n, NEW l, QLedger(uu, tt, n, l),
         NEW k \in USlots, ~Working(uu[k]), n + 1 \in 1 .. MaxQueries, NEW from \in Clients
  PROVE  QLedger([uu EXCEPT ![k] = [active |-> n + 1, ip |-> from, done |-> FALSE]], tt,
                 n + 1, Asked(n + 1, from, l))
<1> DEFINE u2 == [uu EXCEPT ![k] = [active |-> n + 1, ip |-> from, done |-> FALSE]]
<1> DEFINE l2 == Asked(n + 1, from, l)
<1> USE DEF QLedger
<1>1. n \in Nat /\ n + 1 # 0 /\ \A m \in 1 .. n : m \in 1 .. n + 1 /\ m # n + 1 OBVIOUS
<1>2. /\ u2[k].active = n + 1 /\ u2[k].ip = from /\ Working(u2[k])
      /\ \A i \in USlots \ {k} : u2[i] = uu[i]
  BY <1>1 DEF Working
<1>3. \A m \in 1 .. n : m \in 1 .. MaxQueries BY DnscacheAssumption DEF DnscacheAssumption
<1>4. l2 \in Log /\ l2[n + 1] = from /\ \A m \in 1 .. n : l2[m] = l[m]
  BY <1>1, <1>3 DEF Asked, Log
<1> HIDE DEF u2, l2
<1>5. ASSUME NEW m \in 1 .. n + 1
      PROVE  \/ l2[m] \in {"answered", "dropped"}
             \/ \E i \in USlots : Working(u2[i]) /\ u2[i].active = m
             \/ \E i \in TSlots : TWorking(tt[i]) /\ tt[i].active = m
  <2>1. CASE m = n + 1 BY <1>2, <2>1
  <2>2. CASE m # n + 1
    <3>1. m \in 1 .. n BY <1>1, <2>2
    <3>2. \/ l[m] \in {"answered", "dropped"}
          \/ \E i \in USlots : Working(uu[i]) /\ uu[i].active = m
          \/ \E i \in TSlots : TWorking(tt[i]) /\ tt[i].active = m
      BY <3>1
    <3> QED BY <1>2, <1>4, <3>1, <3>2
  <2> QED BY <2>1, <2>2
<1>6. \A i \in USlots : Working(u2[i]) =>
        u2[i].active \in 1 .. n + 1 /\ u2[i].ip \in Clients /\ l2[u2[i].active] = u2[i].ip
  BY <1>1, <1>2, <1>4
<1>7. \A i \in TSlots : TWorking(tt[i]) =>
        tt[i].active \in 1 .. n /\ tt[i].tcp \in Conns /\ l2[tt[i].active] = tt[i].tcp
  BY <1>4
<1>8. \A a, b \in USlots :
        Working(u2[a]) /\ Working(u2[b]) /\ u2[a].active = u2[b].active => a = b
  BY <1>1, <1>2
<1>9. \A a \in USlots, b \in TSlots :
        Working(u2[a]) /\ TWorking(tt[b]) => u2[a].active # tt[b].active
  BY <1>1, <1>2, <1>7
<1>10. n + 1 \in 0 .. MaxQueries BY <1>1
<1>11. QLedger(u2, tt, n + 1, l2) BY <1>1, <1>4, <1>5, <1>6, <1>7, <1>8, <1>9, <1>10
<1> QED BY <1>11 DEF u2, l2

(* A slot of t[] that had no query takes the next one.                      *)
LEMMA TStarts ==
  ASSUME NEW uu, NEW tt \in [TSlots -> TSlot], NEW n, NEW l, QLedger(uu, tt, n, l),
         NEW k \in TSlots, ~TWorking(tt[k]), n + 1 \in 1 .. MaxQueries,
         NEW v, v.active = n + 1, v.state = 0, v.tcp \in Conns
  PROVE  QLedger(uu, [tt EXCEPT ![k] = v], n + 1, Asked(n + 1, v.tcp, l))
<1> DEFINE t2 == [tt EXCEPT ![k] = v]
<1> DEFINE l2 == Asked(n + 1, v.tcp, l)
<1> USE DEF QLedger
<1>1. n \in Nat /\ n + 1 # 0 /\ \A m \in 1 .. n : m \in 1 .. n + 1 /\ m # n + 1 OBVIOUS
<1>2. t2[k] = v /\ TWorking(t2[k]) /\ \A i \in TSlots \ {k} : t2[i] = tt[i]
  BY <1>1 DEF TWorking
<1>3. \A m \in 1 .. n : m \in 1 .. MaxQueries BY DnscacheAssumption DEF DnscacheAssumption
<1>4. l2 \in Log /\ l2[n + 1] = v.tcp /\ \A m \in 1 .. n : l2[m] = l[m]
  BY <1>1, <1>3 DEF Asked, Log
<1> HIDE DEF t2, l2
<1>5. ASSUME NEW m \in 1 .. n + 1
      PROVE  \/ l2[m] \in {"answered", "dropped"}
             \/ \E i \in USlots : Working(uu[i]) /\ uu[i].active = m
             \/ \E i \in TSlots : TWorking(t2[i]) /\ t2[i].active = m
  <2>1. CASE m = n + 1 BY <1>2, <2>1
  <2>2. CASE m # n + 1
    <3>1. m \in 1 .. n BY <1>1, <2>2
    <3>2. \/ l[m] \in {"answered", "dropped"}
          \/ \E i \in USlots : Working(uu[i]) /\ uu[i].active = m
          \/ \E i \in TSlots : TWorking(tt[i]) /\ tt[i].active = m
      BY <3>1
    <3> QED BY <1>2, <1>4, <3>1, <3>2
  <2> QED BY <2>1, <2>2
<1>6. \A i \in TSlots : TWorking(t2[i]) =>
        t2[i].active \in 1 .. n + 1 /\ t2[i].tcp \in Conns /\ l2[t2[i].active] = t2[i].tcp
  BY <1>1, <1>2, <1>4
<1>7. \A i \in USlots : Working(uu[i]) =>
        uu[i].active \in 1 .. n /\ uu[i].ip \in Clients /\ l2[uu[i].active] = uu[i].ip
  BY <1>4
<1>8. \A a, b \in TSlots :
        TWorking(t2[a]) /\ TWorking(t2[b]) /\ t2[a].active = t2[b].active => a = b
  BY <1>1, <1>2
<1>9. \A a \in USlots, b \in TSlots :
        Working(uu[a]) /\ TWorking(t2[b]) => uu[a].active # t2[b].active
  BY <1>1, <1>2, <1>7
<1>10. n + 1 \in 0 .. MaxQueries BY <1>1
<1>11. QLedger(uu, t2, n + 1, l2) BY <1>1, <1>4, <1>5, <1>6, <1>7, <1>8, <1>9, <1>10
<1> QED BY <1>11 DEF t2, l2

(* The next query ends at once.                                             *)
LEMMA EndsAtOnce ==
  ASSUME NEW uu, NEW tt, NEW n, NEW l, QLedger(uu, tt, n, l), n + 1 \in 1 .. MaxQueries,
         NEW l2, Ends(n + 1, l, l2)
  PROVE  QLedger(uu, tt, n + 1, l2)
<1> USE DEF QLedger, Ends
<1>1. n \in Nat /\ \A m \in 1 .. n : m \in 1 .. n + 1 /\ m # n + 1 /\ m \in 1 .. MaxQueries
  BY DnscacheAssumption DEF DnscacheAssumption
<1>2. \A m \in 1 .. n : l2[m] = l[m] BY <1>1
<1>3. ASSUME NEW m \in 1 .. n + 1
      PROVE  \/ l2[m] \in {"answered", "dropped"}
             \/ \E i \in USlots : Working(uu[i]) /\ uu[i].active = m
             \/ \E i \in TSlots : TWorking(tt[i]) /\ tt[i].active = m
  <2>1. CASE m = n + 1 BY <2>1
  <2>2. CASE m # n + 1
    <3>1. m \in 1 .. n BY <1>1, <2>2
    <3>2. \/ l[m] \in {"answered", "dropped"}
          \/ \E i \in USlots : Working(uu[i]) /\ uu[i].active = m
          \/ \E i \in TSlots : TWorking(tt[i]) /\ tt[i].active = m
      BY <3>1
    <3> QED BY <1>2, <3>1, <3>2
  <2> QED BY <2>1, <2>2
<1>4. \A i \in USlots : Working(uu[i]) =>
        uu[i].active \in 1 .. n + 1 /\ uu[i].ip \in Clients /\ l2[uu[i].active] = uu[i].ip
  BY <1>1, <1>2
<1>5. \A i \in TSlots : TWorking(tt[i]) =>
        tt[i].active \in 1 .. n + 1 /\ tt[i].tcp \in Conns /\ l2[tt[i].active] = tt[i].tcp
  BY <1>1, <1>2
<1> QED BY <1>1, <1>3, <1>4, <1>5

(* Answered() and Dropped() end a query.                                    *)
LEMMA AnsweredEnds ==
  ASSUME NEW l \in Log, NEW m \in 1 .. MaxQueries
  PROVE  Ends(m, l, Answered(m, l[m], l))
BY DEF Ends, Answered, Log

LEMMA DroppedEnds ==
  ASSUME NEW l \in Log, NEW m \in 1 .. MaxQueries, l[m] \in Clients \cup Conns
  PROVE  Ends(m, l, Dropped({m}, l))
BY DEF Ends, Dropped, Log

LEMMA DroppedNone == ASSUME NEW l \in Log PROVE Dropped({}, l) = l
BY DEF Dropped, Log

-----------------------------------------------------------------------------
(* The order of the start times                                             *)

Order(o, N) ==
  /\ o \in [1 .. N -> 1 .. N]
  /\ \A a, b \in 1 .. N : o[a] = o[b] => a = b
  /\ \A k \in 1 .. N : \E i \in 1 .. N : o[i] = k

LEMMA OrderLen ==
  ASSUME NEW N \in Nat, NEW o, Order(o, N)
  PROVE  o \in Seq(1 .. N) /\ Len(o) = N /\ DOMAIN o = 1 .. N
BY DEF Order

(* Where the slots of Restarted(o, k) come from, if k was at p.             *)
From(i, p, N) == IF i = N THEN p ELSE IF p <= i THEN i + 1 ELSE i

LEMMA FromIs ==
  ASSUME NEW N \in Nat, NEW p \in 1 .. N
  PROVE  /\ \A i \in 1 .. N : From(i, p, N) \in 1 .. N
         /\ From(N, p, N) = p /\ \A i \in 1 .. N - 1 : From(i, p, N) # p
         /\ \A a, b \in 1 .. N - 1 : a < b => From(a, p, N) < From(b, p, N)
         /\ \A m \in 1 .. N : \E i \in 1 .. N : From(i, p, N) = m
<1>1. \A i \in 1 .. N : From(i, p, N) \in 1 .. N BY DEF From
<1>2. From(N, p, N) = p /\ \A i \in 1 .. N - 1 : From(i, p, N) # p BY DEF From
<1>3. \A a, b \in 1 .. N - 1 : a < b => From(a, p, N) < From(b, p, N) BY DEF From
<1>4. ASSUME NEW m \in 1 .. N PROVE \E i \in 1 .. N : From(i, p, N) = m
  <2>1. CASE m = p BY <1>2, <2>1
  <2>2. CASE m < p
    <3>1. From(m, p, N) = m BY <2>2 DEF From
    <3> QED BY <3>1
  <2>3. CASE m > p
    <3>1. m - 1 \in 1 .. N /\ From(m - 1, p, N) = m BY <2>3 DEF From
    <3> QED BY <3>1
  <2> QED BY <2>1, <2>2, <2>3
<1> QED BY <1>1, <1>2, <1>3, <1>4

LEMMA RestartedIs ==
  ASSUME NEW N \in Nat, NEW o, Order(o, N), NEW p \in 1 .. N
  PROVE  /\ Restarted(o, o[p]) \in [1 .. N -> 1 .. N]
         /\ \A i \in 1 .. N : Restarted(o, o[p])[i] = o[From(i, p, N)]
<1> DEFINE r == Restarted(o, o[p])
<1>1. Len(o) = N /\ DOMAIN o = 1 .. N BY OrderLen
<1>2. r = [i \in 1 .. N |-> IF i = N THEN o[p]
                            ELSE IF \E h \in 1 .. i : o[h] = o[p] THEN o[i + 1] ELSE o[i]]
  BY <1>1 DEF Restarted
<1>3. ASSUME NEW i \in 1 .. N, i # N
      PROVE  (\E h \in 1 .. i : o[h] = o[p]) <=> p <= i
  <2>1. \A h \in 1 .. i : h \in 1 .. N OBVIOUS
  <2>2. \A h \in 1 .. i : o[h] = o[p] => h = p BY <2>1 DEF Order
  <2>3. p <= i => p \in 1 .. i OBVIOUS
  <2> QED BY <2>2, <2>3
<1>4. \A i \in 1 .. N : r[i] = o[From(i, p, N)]
  <2> TAKE i \in 1 .. N
  <2>1. CASE i = N BY <1>2, <2>1 DEF From
  <2>2. CASE i # N
    <3>1. r[i] = IF p <= i THEN o[i + 1] ELSE o[i] BY <1>2, <1>3, <2>2
    <3> QED BY <2>2, <3>1 DEF From
  <2> QED BY <2>1, <2>2
<1>5. \A i \in 1 .. N : r[i] \in 1 .. N
  <2> TAKE i \in 1 .. N
  <2>1. From(i, p, N) \in 1 .. N BY FromIs
  <2>2. o[From(i, p, N)] \in 1 .. N BY <2>1 DEF Order
  <2> QED BY <1>4, <2>2
<1>6. r = [i \in 1 .. N |-> r[i]] BY <1>2
<1> HIDE DEF r
<1>7. r \in [1 .. N -> 1 .. N] BY <1>5, <1>6
<1> QED BY <1>4, <1>7 DEF r

LEMMA RestartedOrder ==
  ASSUME NEW N \in Nat, NEW o, Order(o, N), NEW k \in 1 .. N
  PROVE  Order(Restarted(o, k), N)
<1>1. PICK p \in 1 .. N : o[p] = k BY DEF Order
<1> DEFINE r == Restarted(o, k)
<1>2. r \in [1 .. N -> 1 .. N] /\ \A i \in 1 .. N : r[i] = o[From(i, p, N)] BY <1>1, RestartedIs
<1> HIDE DEF r
<1>3. ASSUME NEW a \in 1 .. N, NEW b \in 1 .. N, r[a] = r[b] PROVE a = b
  <2>1. From(a, p, N) \in 1 .. N /\ From(b, p, N) \in 1 .. N BY FromIs
  <2>2. o[From(a, p, N)] = o[From(b, p, N)] BY <1>2, <1>3
  <2>3. From(a, p, N) = From(b, p, N) BY <2>1, <2>2 DEF Order
  <2> QED BY <2>3 DEF From
<1>4. ASSUME NEW m \in 1 .. N PROVE \E i \in 1 .. N : r[i] = m
  <2>1. PICK h \in 1 .. N : o[h] = m BY DEF Order
  <2>2. PICK i \in 1 .. N : From(i, p, N) = h BY FromIs
  <2> QED BY <1>2, <2>1, <2>2
<1>5. Order(r, N) BY <1>2, <1>3, <1>4 DEF Order
<1> QED BY <1>5 DEF r

(* The queries of u[] are numbered as their slots were started.             *)
UOrdered(uu, o) ==
  \A a, b \in 1 .. MAXUDP :
    a < b /\ Working(uu[o[a]]) /\ Working(uu[o[b]]) => uu[o[a]].active < uu[o[b]].active

(* A slot that is started is the youngest, with the latest query or none.   *)
LEMMA UOrderedKept ==
  ASSUME NEW uu \in [USlots -> USlot], NEW o, Order(o, MAXUDP), UOrdered(uu, o),
         NEW k \in USlots, NEW v \in USlot,
         Working(v) => \A i \in USlots : uu[i].active < v.active
  PROVE  UOrdered([uu EXCEPT ![k] = v], Restarted(o, k))
<1> DEFINE u2 == [uu EXCEPT ![k] = v]
<1> DEFINE r == Restarted(o, k)
<1> DEFINE N == MAXUDP
<1>1. N \in Nat /\ USlots = 1 .. N BY DnscacheAssumption DEF DnscacheAssumption, USlots
<1>2. PICK p \in 1 .. N : o[p] = k BY <1>1 DEF Order
<1>5. u2[k] = v /\ \A i \in USlots \ {k} : u2[i] = uu[i] OBVIOUS
<1> HIDE DEF u2
<1>3. \A i \in 1 .. N : r[i] = o[From(i, p, N)] /\ From(i, p, N) \in 1 .. N
  <2>1. \A i \in 1 .. N : Restarted(o, o[p])[i] = o[From(i, p, N)]
    <3> HIDE DEF N
    <3> QED BY <1>1, RestartedIs DEF N
  <2>2. \A i \in 1 .. N : From(i, p, N) \in 1 .. N
    <3> HIDE DEF N
    <3> QED BY <1>1, FromIs
  <2> QED BY <1>2, <2>1, <2>2
<1> HIDE DEF r
<1>4. r[N] = k /\ \A i \in 1 .. N - 1 : r[i] \in 1 .. N /\ r[i] # k
  <2>1. From(N, p, N) = p /\ N \in 1 .. N BY <1>1, <1>2, FromIs
  <2>2. ASSUME NEW i \in 1 .. N - 1 PROVE r[i] \in 1 .. N /\ r[i] # k
    <3>1. i \in 1 .. N /\ From(i, p, N) # p BY <1>1, <1>2, FromIs
    <3>2. From(i, p, N) \in 1 .. N /\ r[i] = o[From(i, p, N)] BY <1>3, <3>1
    <3>3. o[From(i, p, N)] \in 1 .. N BY <3>2 DEF Order
    <3>4. o[From(i, p, N)] # o[p] BY <3>1, <3>2 DEF Order
    <3> QED BY <1>2, <3>2, <3>3, <3>4
  <2>3. r[N] = k BY <1>2, <1>3, <2>1
  <2> QED BY <2>2, <2>3
<1>6. SUFFICES ASSUME NEW a \in 1 .. N, NEW b \in 1 .. N, a < b,
                      Working(u2[r[a]]), Working(u2[r[b]])
               PROVE  u2[r[a]].active < u2[r[b]].active
  BY DEF UOrdered, u2, r
<1>7. a \in 1 .. N - 1 /\ u2[r[a]] = uu[r[a]] BY <1>1, <1>4, <1>5, <1>6
<1>8. CASE b = N BY <1>1, <1>4, <1>5, <1>6, <1>7, <1>8
<1>9. CASE b # N
  <2>1. b \in 1 .. N - 1 /\ u2[r[b]] = uu[r[b]] BY <1>1, <1>4, <1>5, <1>6, <1>9
  <2>2. From(a, p, N) < From(b, p, N) BY <1>1, <1>6, <1>7, <2>1, FromIs
  <2> QED BY <1>3, <1>6, <1>7, <2>1, <2>2 DEF UOrdered
<1> QED BY <1>8, <1>9

-----------------------------------------------------------------------------
(* The inductive invariant                                                  *)

Loop ==
  /\ pc \in {"stamp", "poll", "udp", "tcp", "new udp", "new tcp"}
  /\ pc = "udp" => j \in USlots
  /\ pc = "tcp" => j \in TSlots
  /\ pc \notin {"udp", "tcp"} => j = 1
  /\ stamped \subseteq TSlots /\ seen \subseteq TSlots
  /\ late \subseteq TSlots /\ ready \subseteq TSlots

UPart == ULedger(u, uactive) /\ Order(ustart, MAXUDP) /\ UOrdered(u, ustart)
TPart == TLedger(t, tactive, held) /\ Order(tstart, MAXTCP)
QPart == QLedger(u, t, numqueries, log)

IInv == Loop /\ UPart /\ TPart /\ QPart

USE DnscacheAssumption

LEMMA Sizes == /\ MAXUDP \in Nat /\ MAXUDP >= 1 /\ USlots = 1 .. MAXUDP
               /\ MAXTCP \in Nat /\ MAXTCP >= 1 /\ TSlots = 1 .. MAXTCP
               /\ MaxQueries \in Nat /\ MaxQueries >= 1 /\ MaxLen \in Nat /\ MaxLen >= 1
               /\ None \notin Clients /\ None \notin Conns
BY DEF DnscacheAssumption, USlots, TSlots

LEMMA NextSlot ==
  /\ 1 \in USlots /\ \A k \in USlots : k # MAXUDP => k + 1 \in USlots
  /\ 1 \in TSlots /\ \A k \in TSlots : k # MAXTCP => k + 1 \in TSlots
BY Sizes

LEMMA InitIInv == Init => IInv
<1> SUFFICES ASSUME Init PROVE IInv OBVIOUS
<1> USE DEF Init
<1>1. Loop BY Sizes DEF Loop
<1>2. UPart
  <2>1. UFree \in USlot BY Sizes DEF UFree, USlot
  <2>2. u \in [USlots -> USlot] /\ \A k \in USlots : u[k] = UFree BY <2>1
  <2>3. {k \in USlots : u[k].active # 0} = {} BY <2>2 DEF UFree
  <2>4. ULedger(u, uactive) BY <2>2, <2>3, FS_EmptySet DEF ULedger
  <2>5. Order(ustart, MAXUDP) BY Sizes DEF Order
  <2>6. UOrdered(u, ustart) BY <2>2, <2>5, Sizes DEF UOrdered, Order, Working, UFree
  <2> QED BY <2>4, <2>5, <2>6 DEF UPart
<1>3. TPart
  <2>1. TFree \in TSlot /\ SlotOK(TFree) BY Sizes DEF TFree, TSlot, SlotOK
  <2>2. t \in [TSlots -> TSlot] /\ \A k \in TSlots : t[k] = TFree BY <2>1
  <2>3. {k \in TSlots : t[k].active # 0} = {} /\ {k \in TSlots : t[k].buf} = {}
    BY <2>2 DEF TFree
  <2>4. TLedger(t, tactive, held)
    <3>1. {t[k].tcp : k \in TSlots} \ {None} = {} BY <2>2 DEF TFree
    <3>2. \A a \in TSlots : t[a].tcp = None BY <2>2 DEF TFree
    <3> QED BY <2>1, <2>2, <2>3, <3>1, <3>2, FS_EmptySet DEF TLedger
  <2>5. Order(tstart, MAXTCP) BY Sizes DEF Order
  <2> QED BY <2>4, <2>5 DEF TPart
<1>4. QPart
  <2>1. \A k \in USlots : ~Working(u[k]) BY DEF UFree, Working
  <2>2. \A k \in TSlots : ~TWorking(t[k]) BY DEF TFree, TWorking
  <2>3. log \in Log BY DEF Log
  <2>4. numqueries \in 0 .. MaxQueries /\ 1 .. numqueries = {} BY Sizes
  <2> QED BY <2>1, <2>2, <2>3, <2>4 DEF QPart, QLedger
<1> QED BY <1>1, <1>2, <1>3, <1>4 DEF IInv

(* What the loop and the world leave alone.                                 *)
LEMMA USame == ASSUME UPart, UNCHANGED udp PROVE UPart'
BY DEF UPart, udp, ULedger, Order, UOrdered

LEMMA TLedgerNow ==
  ASSUME TLedger(t', tactive', held'), Order(tstart', MAXTCP) PROVE TPart'
BY DEF TPart, TLedger, Order

LEMMA TSame == ASSUME TPart, UNCHANGED tcp PROVE TPart'
<1>1. t' = t /\ tactive' = tactive /\ held' = held /\ tstart' = tstart BY DEF tcp
<1>2. TLedger(t', tactive', held') /\ Order(tstart', MAXTCP) BY <1>1 DEF TPart
<1> QED BY <1>2, TLedgerNow

LEMMA QLedgerNow == ASSUME QLedger(u', t', numqueries', log') PROVE QPart'
BY DEF QPart, QLedger

LEMMA LoopKept == ASSUME Loop, [Next]_vars PROVE Loop'
<1> USE DEF Loop
<1>1. CASE UNCHANGED vars BY <1>1 DEF vars, polls, world
<1>2. ASSUME NextU, pc = "udp"
      PROVE  \/ pc' = "udp" /\ j' \in USlots
             \/ pc' = "tcp" /\ j' = 1
  BY <1>2, NextSlot DEF NextU
<1>3. ASSUME NextT, pc = "tcp"
      PROVE  /\ \/ pc' = "tcp" /\ j' \in TSlots
                \/ pc' = "new udp" /\ j' = 1
             /\ stamped' \subseteq TSlots /\ seen' \subseteq TSlots
  BY <1>3, NextSlot DEF NextT, polls
<1>4. ASSUME NextU, pc = "udp", UNCHANGED <<polls, world>> PROVE Loop'
  BY <1>2, <1>4, NextSlot DEF polls, world
<1>5. ASSUME NextT, pc = "tcp", late' \subseteq TSlots, ready' \subseteq TSlots PROVE Loop'
  BY <1>3, <1>5, NextSlot
<1>6. ASSUME Close PROVE late' \subseteq TSlots /\ ready' \subseteq TSlots BY <1>6 DEF Close
<1>7. \A b : Renew(b) => late' \subseteq TSlots BY DEF Renew
<1>8. ASSUME Transferred PROVE late' \subseteq TSlots /\ ready' \subseteq TSlots
  BY <1>7, <1>8 DEF Transferred
<1>9. CASE Stamp BY <1>9 DEF Stamp, world
<1>10. CASE Poll
  <2>1. seen' \subseteq TSlots BY <1>10 DEF Poll
  <2>2. 1 \in USlots BY NextSlot
  <2> QED BY <1>10, <2>1, <2>2 DEF Poll, world
<1>11. CASE SkipUdp BY <1>4, <1>11 DEF SkipUdp
<1>12. CASE \E r \in {-1, 1} : EndUdp(r) BY <1>4, <1>12 DEF EndUdp
<1>13. CASE SkipTcp BY <1>5, <1>13 DEF SkipTcp, world
<1>14. CASE QueryGoesOn BY <1>5, <1>7, <1>14 DEF QueryGoesOn, AtQuery
<1>15. CASE QueryFails BY <1>5, <1>6, <1>15 DEF QueryFails, AtQuery
<1>16. CASE QueryAnswered
  <2>1. late' \subseteq TSlots BY <1>7, <1>16 DEF QueryAnswered
  <2>2. ready' \subseteq TSlots BY <1>16 DEF QueryAnswered
  <2> QED BY <1>5, <1>16, <2>1, <2>2 DEF QueryAnswered, AtQuery
<1>17. CASE RwFails BY <1>5, <1>6, <1>17 DEF RwFails, AtRw
<1>18. CASE Write BY <1>5, <1>8, <1>18 DEF Write, AtRw
<1>19. CASE ReadHigh BY <1>5, <1>8, <1>19 DEF ReadHigh, AtRw
<1>20. CASE ReadBody BY <1>5, <1>8, <1>20 DEF ReadBody, AtRw
<1>21. CASE \E len \in 1 .. MaxLen : ReadLow(len) BY <1>5, <1>8, <1>21 DEF ReadLow, AtRw
<1>22. CASE \E r \in Results : ReadQuery(r)
  <2>1. Close \/ Transferred BY <1>22 DEF ReadQuery
  <2>2. NextT /\ pc = "tcp" BY <1>22 DEF ReadQuery, AtRw
  <2> QED BY <1>5, <1>6, <1>8, <2>1, <2>2
<1>23. CASE NoPacket BY <1>23 DEF NoPacket, polls, world
<1>24. CASE BadPacket BY <1>24 DEF BadPacket, polls, world
<1>25. CASE \E c \in Clients, r \in Results : Packet(c, r) BY <1>25 DEF Packet, polls, world
<1>26. CASE NoConnection BY <1>26 DEF NoConnection, polls, world
<1>27. ASSUME NEW k, NEW v, NewSlot(k, v), pc = "new tcp", pc' = "stamp" PROVE Loop'
  BY <1>27 DEF NewSlot, polls
<1>28. CASE BadConnection BY <1>27, <1>28 DEF BadConnection
<1>29. CASE \E c \in Conns : Connection(c) BY <1>27, <1>29 DEF Connection
<1>30. CASE \E k \in USlots : QueryReady(k) BY <1>30 DEF QueryReady, polls, world
<1>31. CASE \E k \in TSlots : TcpQueryReady(k) \/ Arrive(k) \/ Expire(k)
  BY <1>31 DEF TcpQueryReady, Arrive, Expire, polls, world
<1> QED
  BY <1>1, <1>9, <1>10, <1>11, <1>12, <1>13, <1>14, <1>15, <1>16, <1>17, <1>18, <1>19, <1>20,
     <1>21, <1>22, <1>23, <1>24, <1>25, <1>26, <1>28, <1>29, <1>30, <1>31
  DEF Next, Doit, World, t_rw, u_new, t_new

(* The slot that is started is one.                                         *)
LEMMA ChosenIsSlot ==
  ASSUME NEW N \in Nat, N >= 1, NEW table, DOMAIN table = 1 .. N, NEW o, Order(o, N)
  PROVE  /\ Chosen(table, o) \in 1 .. N
         /\ table[Chosen(table, o)].active # 0 =>
              /\ Chosen(table, o) = o[1] /\ \A i \in 1 .. N : table[i].active # 0
<1> DEFINE free == {k \in DOMAIN table : table[k].active = 0}
<1>1. o[1] \in 1 .. N BY DEF Order
<1>2. Head(o) = o[1] BY OrderLen
<1>3. CASE free # {}
  <2>1. free \in SUBSET Nat OBVIOUS
  <2>2. Min(free) \in free BY <1>3, <2>1, MinIsMember
  <2>3. Chosen(table, o) = Min(free) BY <1>3 DEF Chosen
  <2> QED BY <2>2, <2>3
<1>4. CASE free = {}
  <2>1. Chosen(table, o) = o[1] BY <1>2, <1>4 DEF Chosen, Oldest
  <2> QED BY <1>1, <1>4, <2>1
<1> QED BY <1>3, <1>4

LEMMA Chosens ==
  ASSUME UPart, TPart
  PROVE  /\ Chosen(u, ustart) \in USlots /\ Chosen(t, tstart) \in TSlots
         /\ u[Chosen(u, ustart)].active # 0 =>
              Chosen(u, ustart) = ustart[1] /\ \A i \in USlots : u[i].active # 0
<1>1. DOMAIN u = 1 .. MAXUDP /\ DOMAIN t = 1 .. MAXTCP
  BY Sizes DEF UPart, TPart, ULedger, TLedger
<1>2. Order(ustart, MAXUDP) /\ Order(tstart, MAXTCP) BY DEF UPart, TPart
<1>3. Chosen(t, tstart) \in TSlots BY <1>1, <1>2, Sizes, ChosenIsSlot
<1>4. /\ Chosen(u, ustart) \in USlots
      /\ u[Chosen(u, ustart)].active # 0 =>
           Chosen(u, ustart) = ustart[1] /\ \A i \in USlots : u[i].active # 0
  BY <1>1, <1>2, Sizes, ChosenIsSlot
<1> QED BY <1>3, <1>4

-----------------------------------------------------------------------------
(* The actions that change u[]                                              *)

(* A slot of u[] changes, and its start time if it is started anew.         *)
LEMMA UChanges ==
  ASSUME UPart, NEW k \in USlots, NEW v \in USlot, u' = [u EXCEPT ![k] = v],
         uactive' = uactive - One(u[k].active # 0) + One(v.active # 0)
  PROVE  /\ (ustart' = ustart /\ (Working(v) => v.active = u[k].active)) => UPart'
         /\ (ustart' = Restarted(ustart, k)
               /\ (Working(v) => \A i \in USlots : u[i].active < v.active)) => UPart'
<1> USE DEF UPart
<1>1. ULedger(u', uactive') BY ULedgerKept
<1>2. ASSUME ustart' = ustart, Working(v) => v.active = u[k].active PROVE UPart'
  <2>1. u'[k] = v /\ \A i \in USlots \ {k} : u'[i] = u[i] BY DEF ULedger
  <2>2. \A a \in 1 .. MAXUDP : ustart[a] \in USlots BY Sizes DEF Order
  <2>3. \A i \in USlots : Working(u'[i]) => Working(u[i]) /\ u'[i].active = u[i].active
    BY <1>2, <2>1 DEF Working
  <2>4. UOrdered(u', ustart) BY <2>2, <2>3 DEF UOrdered
  <2> QED BY <1>1, <1>2, <2>4 DEF Order
<1>3. ASSUME ustart' = Restarted(ustart, k), Working(v) => \A i \in USlots : u[i].active < v.active
      PROVE  UPart'
  <2>1. Order(ustart', MAXUDP) BY <1>3, RestartedOrder, Sizes
  <2>2. UOrdered(u', ustart') BY <1>3, UOrderedKept DEF ULedger
  <2> QED BY <1>1, <2>1, <2>2 DEF Order, UOrdered, ULedger
<1> QED BY <1>2, <1>3

LEMMA UFreeSlot == UFree \in USlot /\ UFree.active = 0 /\ ~Working(UFree)
BY Sizes DEF UFree, USlot, Working

LEMMA EndUdpKeeps == ASSUME IInv, NEW r \in {-1, 1}, EndUdp(r) PROVE UPart' /\ TPart' /\ QPart'
<1> USE DEF IInv, EndUdp
<1>1. j \in USlots BY DEF Loop
<1>2. u \in [USlots -> USlot] /\ uactive \in Nat BY SlotsFinite, FS_Subset, FS_CardinalityType DEF UPart, ULedger
<1>3. UPart'
  <2>1. uactive' = uactive - One(u[j].active # 0) + One(UFree.active # 0)
    BY <1>2, UFreeSlot DEF One
  <2>2. u' = [u EXCEPT ![j] = UFree] /\ ustart' = ustart OBVIOUS
  <2> QED BY <1>1, <2>1, <2>2, UFreeSlot, UChanges
<1>4. TPart' BY TSame
<1>5. Ends(u[j].active, log, log')
  <2>1. /\ log \in Log /\ u[j].active \in 1 .. MaxQueries /\ log[u[j].active] = u[j].ip
        /\ u[j].ip \in Clients
    BY <1>1, Sizes DEF QPart, QLedger, Working
  <2>2. CASE r = 1 BY <2>1, <2>2, AnsweredEnds
  <2>3. CASE r = -1 BY <2>1, <2>3, DroppedEnds
  <2> QED BY <2>2, <2>3
<1>6. QPart'
  <2>1. QLedger([u EXCEPT ![j] = UFree], t, numqueries, log')
    BY <1>1, <1>2, <1>5, UEnds DEF QPart, Working
  <2>2. QLedger(u', t', numqueries', log') BY <2>1 DEF tcp
  <2> QED BY <2>2, QLedgerNow
<1> QED BY <1>3, <1>4, <1>6

(* u_new() makes room: what it drops is a query, and it ends.               *)
LEMMA RoomEnds ==
  ASSUME UPart, QPart, NEW k \in USlots
  PROVE  /\ QLedger([u EXCEPT ![k] = UFree], t, numqueries, Dropped(Room(k).lost, log))
         /\ Room(k).uactive = uactive - One(u[k].active # 0)
<1> USE DEF QPart
<1>1. u \in [USlots -> USlot] /\ uactive \in Nat
  BY SlotsFinite, FS_Subset, FS_CardinalityType DEF UPart, ULedger
<1>2. log \in Log BY DEF QLedger
<1>3. CASE u[k].active = 0
  <2>1. Room(k) = [uactive |-> uactive, lost |-> {}] BY <1>3 DEF Room
  <2>2. Dropped(Room(k).lost, log) = log BY <1>2, <2>1, DroppedNone
  <2>3. \A i \in USlots \ {k} : [u EXCEPT ![k] = UFree][i] = u[i] BY <1>1
  <2>4. [u EXCEPT ![k] = UFree][k] = UFree BY <1>1
  <2>5. QLedger([u EXCEPT ![k] = UFree], t, numqueries, log)
    <3> DEFINE u2 == [u EXCEPT ![k] = UFree]
    <3>1. \A i \in USlots : Working(u2[i]) <=> Working(u[i])
      BY <1>3, <2>3, <2>4, UFreeSlot DEF Working
    <3>2. \A i \in USlots : Working(u[i]) => u2[i] = u[i] BY <1>3, <2>3 DEF Working
    <3> HIDE DEF u2
    <3>3. QLedger(u2, t, numqueries, log) BY <3>1, <3>2, SameQueries
    <3> QED BY <3>3 DEF u2
  <2> QED BY <1>1, <1>3, <2>1, <2>2, <2>5 DEF One
<1>4. CASE u[k].active # 0
  <2>1. Room(k) = [uactive |-> uactive - 1, lost |-> {u[k].active}] BY <1>4 DEF Room
  <2>2. u[k].active \in 1 .. MaxQueries /\ log[u[k].active] \in Clients \cup Conns
    BY <1>4, Sizes DEF QLedger, Working
  <2>3. Ends(u[k].active, log, Dropped({u[k].active}, log)) BY <1>2, <2>2, DroppedEnds
  <2>4. QLedger([u EXCEPT ![k] = UFree], t, numqueries, Dropped({u[k].active}, log))
    BY <1>1, <1>4, <2>3, UEnds DEF Working
  <2> QED BY <1>1, <1>4, <2>1, <2>4 DEF One
<1> QED BY <1>3, <1>4

LEMMA BadPacketKeeps == ASSUME IInv, BadPacket PROVE UPart' /\ TPart' /\ QPart'
<1> USE DEF IInv
<1> DEFINE k == Chosen(u, ustart)
<1>1. k \in USlots BY Chosens
<1>2. /\ u' = [u EXCEPT ![k] = UFree] /\ uactive' = Room(k).uactive
      /\ ustart' = Restarted(ustart, k) /\ log' = Dropped(Room(k).lost, log)
      /\ UNCHANGED <<tcp, numqueries>>
  BY DEF BadPacket
<1> HIDE DEF k
<1>3. QLedger(u', t, numqueries, log') /\ uactive' = uactive - One(u[k].active # 0)
  BY <1>1, <1>2, RoomEnds
<1>4. uactive \in Nat BY SlotsFinite, FS_Subset, FS_CardinalityType DEF UPart, ULedger
<1>5. uactive' = uactive - One(u[k].active # 0) + One(UFree.active # 0)
  BY <1>3, <1>4, UFreeSlot DEF One
<1>6. UPart' BY <1>1, <1>2, <1>5, UFreeSlot, UChanges
<1>7. TPart' BY <1>2, TSame
<1>8. QPart'
  <2>1. QLedger(u', t', numqueries', log') BY <1>2, <1>3 DEF tcp
  <2> QED BY <2>1, QLedgerNow
<1> QED BY <1>6, <1>7, <1>8

(* A query that ends as soon as it has come.                                *)
LEMMA AskedEnds ==
  ASSUME NEW l \in Log, NEW m \in 1 .. MaxQueries, NEW from \in Clients \cup Conns
  PROVE  /\ Ends(m, l, Answered(m, from, Asked(m, from, l)))
         /\ Ends(m, l, Dropped({m}, Asked(m, from, l)))
<1> DEFINE l1 == Asked(m, from, l)
<1>1. l1 \in Log /\ l1[m] = from /\ \A i \in 1 .. MaxQueries \ {m} : l1[i] = l[i]
  BY DEF Asked, Log
<1> HIDE DEF l1
<1>2. Ends(m, l1, Answered(m, from, l1)) BY <1>1, AnsweredEnds
<1>3. Ends(m, l1, Dropped({m}, l1)) BY <1>1, DroppedEnds
<1>4. Ends(m, l, Answered(m, from, l1)) /\ Ends(m, l, Dropped({m}, l1))
  BY <1>1, <1>2, <1>3 DEF Ends
<1> QED BY <1>4 DEF l1

LEMMA PacketKeeps ==
  ASSUME IInv, NEW from \in Clients, NEW r \in Results, Packet(from, r)
  PROVE  UPart' /\ TPart' /\ QPart'
<1> USE DEF IInv
<1> DEFINE k == Chosen(u, ustart)
<1> DEFINE n == numqueries + 1
<1> DEFINE v == IF r = 0 THEN [active |-> n, ip |-> from, done |-> FALSE] ELSE UFree
<1> DEFINE l0 == Dropped(Room(k).lost, log)
<1> DEFINE l == Asked(n, from, l0)
<1> DEFINE u2 == [u EXCEPT ![k] = UFree]
<1>1. k \in USlots BY Chosens
<1>2. /\ u' = [u EXCEPT ![k] = v] /\ uactive' = Room(k).uactive + (IF r = 0 THEN 1 ELSE 0)
      /\ ustart' = Restarted(ustart, k) /\ numqueries' = n /\ numqueries < MaxQueries
      /\ log' = CASE r = 0 -> l [] r = 1 -> Answered(n, from, l) [] r = -1 -> Dropped({n}, l)
      /\ UNCHANGED tcp
  BY DEF Packet
<1>3. numqueries \in 0 .. MaxQueries /\ n \in 1 .. MaxQueries /\ n # 0
  BY <1>2, Sizes DEF QPart, QLedger
<1>4. u \in [USlots -> USlot] /\ uactive \in Nat
  BY SlotsFinite, FS_Subset, FS_CardinalityType DEF UPart, ULedger
<1>5. v \in USlot BY <1>3, UFreeSlot DEF USlot
<1>6. One(v.active # 0) = IF r = 0 THEN 1 ELSE 0 BY <1>3, UFreeSlot DEF One
<1>7. QLedger(u2, t, numqueries, l0) /\ Room(k).uactive = uactive - One(u[k].active # 0)
  BY <1>1, RoomEnds
<1>8. \A i \in USlots : u[i].active < n
  <2> TAKE i \in USlots
  <2>1. CASE Working(u[i]) BY <1>3, <2>1 DEF QPart, QLedger
  <2>2. CASE ~Working(u[i]) BY <1>3, <2>2 DEF Working
  <2> QED BY <2>1, <2>2
<1>9. UPart'
  <2>1. Working(v) => v.active = n BY UFreeSlot
  <2>2. Working(v) => \A i \in USlots : u[i].active < v.active BY <1>8, <2>1
  <2>3. uactive' = uactive - One(u[k].active # 0) + One(v.active # 0)
    BY <1>2, <1>6, <1>7
  <2> HIDE DEF v, k
  <2> QED BY <1>1, <1>2, <1>5, <2>2, <2>3, UChanges
<1>10. TPart' BY <1>2, TSame
<1>11. QLedger(u', t, n, log')
  <2>1. u2 \in [USlots -> USlot] /\ u2[k] = UFree /\ l0 \in Log
    BY <1>1, <1>4, <1>7, UFreeSlot DEF QLedger
  <2>2. [u2 EXCEPT ![k] = v] = u' BY <1>2
  <2> HIDE DEF l0, k
  <2>3. CASE r = 0
    <3>1. QLedger([u2 EXCEPT ![k] = [active |-> n, ip |-> from, done |-> FALSE]], t, n, l)
      <4> HIDE DEF u2, v
      <4> QED BY <1>1, <1>3, <1>7, <2>1, UFreeSlot, UStarts
    <3>2. v = [active |-> n, ip |-> from, done |-> FALSE] /\ log' = l BY <1>2, <2>3
    <3> QED BY <2>2, <3>1, <3>2
  <2>4. CASE r # 0
    <3>1. u' = u2 BY <1>2, <2>4
    <3>2. log' = Answered(n, from, l) \/ log' = Dropped({n}, l)
      <4>1. r = 1 \/ r = -1 BY <2>4 DEF Results
      <4> HIDE DEF l
      <4> QED BY <1>2, <4>1
    <3>3. Ends(n, l0, log') BY <1>3, <2>1, <3>2, AskedEnds
    <3> HIDE DEF u2, l
    <3>4. QLedger(u2, t, n, log') BY <1>3, <1>7, <3>3, EndsAtOnce
    <3> QED BY <3>1, <3>4
  <2> QED BY <2>3, <2>4
<1>12. QPart'
  <2>1. t' = t /\ numqueries' = n BY <1>2 DEF tcp
  <2>2. QLedger(u', t', numqueries', log') BY <1>11, <2>1
  <2> QED BY <2>2, QLedgerNow
<1> QED BY <1>9, <1>10, <1>12

LEMMA QueryReadyKeeps ==
  ASSUME IInv, NEW k \in USlots, QueryReady(k) PROVE UPart' /\ TPart' /\ QPart'
<1> USE DEF IInv, QueryReady
<1> DEFINE v == [u[k] EXCEPT !.done = TRUE]
<1>1. u \in [USlots -> USlot] /\ uactive \in Nat
  BY SlotsFinite, FS_Subset, FS_CardinalityType DEF UPart, ULedger
<1>2. v \in USlot /\ v.active = u[k].active /\ v.ip = u[k].ip BY <1>1 DEF USlot
<1>3. u' = [u EXCEPT ![k] = v] OBVIOUS
<1> HIDE DEF v
<1>4. UPart'
  <2>1. uactive' = uactive - One(u[k].active # 0) + One(v.active # 0) BY <1>1, <1>2 DEF One
  <2> QED BY <1>2, <1>3, <2>1, UChanges
<1>5. TPart' BY TSame
<1>6. QLedger(u', t, numqueries, log)
  <2>1. \A i \in USlots : u'[i].active = u[i].active /\ u'[i].ip = u[i].ip BY <1>1, <1>2, <1>3
  <2>2. \A i \in USlots : Working(u'[i]) <=> Working(u[i]) BY <2>1 DEF Working
  <2> QED BY <2>1, <2>2, SameQueries DEF QPart
<1>7. QPart'
  <2>1. QLedger(u', t', numqueries', log') BY <1>6 DEF tcp
  <2> QED BY <2>1, QLedgerNow
<1> QED BY <1>4, <1>5, <1>7

-----------------------------------------------------------------------------
(* The actions that change t[]                                              *)

LEMMA TFacts ==
  ASSUME TPart
  PROVE  /\ t \in [TSlots -> TSlot] /\ tactive \in Nat
         /\ held \in [conns : SUBSET Conns, bufs : Nat]
         /\ \A k \in TSlots : SlotOK(t[k])
         /\ \A k \in TSlots : t[k].tcp # None => t[k].tcp \in held.conns
         /\ None \notin held.conns
BY SlotsFinite, FS_Subset, FS_CardinalityType DEF TPart, TLedger

(* A slot changes but keeps its connection, if it has one.                  *)
LEMMA TChanges ==
  ASSUME TPart, NEW k \in TSlots, NEW v \in TSlot, SlotOK(v), v.tcp = t[k].tcp,
         t' = [t EXCEPT ![k] = v], UNCHANGED <<tactive, tstart>>,
         held' = [held EXCEPT !.bufs = held.bufs - One(t[k].buf) + One(v.buf)]
  PROVE  TPart'
<1>1. t[k] \in TSlot /\ SlotOK(t[k]) /\ tactive \in Nat BY TFacts
<1>2. v.active # 0 <=> t[k].active # 0 BY <1>1 DEF SlotOK, TSlot
<1>3. tactive' = tactive - One(t[k].active # 0) + One(v.active # 0) BY <1>1, <1>2 DEF One
<1>4. held' = [conns |-> (held.conns \ {t[k].tcp}) \cup ({v.tcp} \ {None}),
               bufs  |-> held.bufs - One(t[k].buf) + One(v.buf)]
  <2>1. (held.conns \ {t[k].tcp}) \cup ({v.tcp} \ {None}) = held.conns BY TFacts
  <2>2. held = [conns |-> held.conns, bufs |-> held.bufs] BY TFacts
  <2> QED BY <2>1, <2>2
<1>5. v.tcp \notin held.conns \ {t[k].tcp} OBVIOUS
<1>6. TLedger(t', tactive', held')
  <2> DEFINE g == [conns |-> (held.conns \ {t[k].tcp}) \cup ({v.tcp} \ {None}),
                   bufs  |-> held.bufs - One(t[k].buf) + One(v.buf)]
  <2>1. TLedger([t EXCEPT ![k] = v], tactive - One(t[k].active # 0) + One(v.active # 0), g)
    BY <1>5, TLedgerKept DEF TPart
  <2>2. held' = g BY <1>4
  <2> HIDE DEF g
  <2> QED BY <1>3, <2>1, <2>2
<1> QED BY <1>6, TLedgerNow DEF TPart

(* A slot is filled anew, or closed: its connection goes.                   *)
LEMMA TFilled ==
  ASSUME TPart, NEW k \in TSlots, NEW v \in TSlot, SlotOK(v), ~v.buf,
         v.tcp \notin held.conns \ {t[k].tcp},
         t' = [t EXCEPT ![k] = v],
         tactive' = tactive - One(t[k].active # 0) + One(v.active # 0),
         held' = [conns |-> Released(k).conns \cup ({v.tcp} \ {None}), bufs |-> Released(k).bufs],
         tstart' \in {tstart, Restarted(tstart, k)}
  PROVE  TPart'
<1>1. /\ Released(k).conns = held.conns \ {t[k].tcp}
      /\ Released(k).bufs = held.bufs - One(t[k].buf) + One(v.buf)
  BY TFacts DEF Released, One
<1>2. TLedger(t', tactive', held')
  <2> DEFINE g == [conns |-> (held.conns \ {t[k].tcp}) \cup ({v.tcp} \ {None}),
                   bufs  |-> held.bufs - One(t[k].buf) + One(v.buf)]
  <2>1. TLedger([t EXCEPT ![k] = v], tactive - One(t[k].active # 0) + One(v.active # 0), g)
    BY TLedgerKept DEF TPart
  <2>2. held' = g BY <1>1
  <2> HIDE DEF g
  <2> QED BY <2>1, <2>2
<1>3. Order(tstart', MAXTCP)
  <2>1. Order(Restarted(tstart, k), MAXTCP) BY RestartedOrder, Sizes DEF TPart
  <2> QED BY <2>1 DEF TPart
<1> QED BY <1>2, <1>3, TLedgerNow

LEMMA TFreeSlot ==
  /\ TFree \in TSlot /\ SlotOK(TFree) /\ ~TFree.buf /\ ~TWorking(TFree)
  /\ TFree.tcp = None /\ TFree.active = 0
BY Sizes DEF TFree, TSlot, SlotOK, TWorking

LEMMA CloseKeeps ==
  ASSUME TPart, j \in TSlots, t[j].active # 0, Close, UNCHANGED tstart PROVE TPart'
<1>1. t' = [t EXCEPT ![j] = TFree] /\ tactive' = tactive - 1 /\ held' = Released(j) BY DEF Close
<1>2. tactive' = tactive - One(t[j].active # 0) + One(TFree.active # 0)
  BY <1>1, TFacts, TFreeSlot DEF One
<1>3. held' = [conns |-> Released(j).conns \cup ({TFree.tcp} \ {None}), bufs |-> Released(j).bufs]
  BY <1>1, TFreeSlot DEF Released
<1>4. TFree.tcp \notin held.conns BY TFacts, TFreeSlot
<1> QED BY <1>1, <1>2, <1>3, <1>4, TFreeSlot, TFilled

(* What t_respond() makes of a slot.                                        *)
Responding(v) == [v EXCEPT !.active = 1, !.state = -1, !.buf = TRUE, !.left = MaxLen, !.done = FALSE]

LEMMA RespondKeeps ==
  ASSUME TPart, j \in TSlots, t[j].active # 0, Respond, UNCHANGED tstart
  PROVE  TPart' /\ t' = [t EXCEPT ![j] = Responding(t[j])] /\ ~TWorking(Responding(t[j]))
<1> DEFINE v == Responding(t[j])
<1>1. t[j] \in TSlot /\ SlotOK(t[j]) /\ held \in [conns : SUBSET Conns, bufs : Nat] BY TFacts
<1>2. /\ v.active = 1 /\ v.state = -1 /\ v.buf = TRUE /\ v.left = MaxLen /\ v.done = FALSE
      /\ v.tcp = t[j].tcp /\ v \in TSlot
  <2>1. 1 \in 0 .. MaxQueries /\ -1 \in -1 .. 3 /\ MaxLen \in 0 .. MaxLen BY Sizes
  <2>2. v \in TSlot BY <1>1, <2>1 DEF TSlot, Responding
  <2> QED BY <1>1, <2>2 DEF TSlot, Responding
<1>3. SlotOK(v) BY <1>1, <1>2, Sizes DEF SlotOK
<1>4. t' = [t EXCEPT ![j] = v] BY DEF Respond, Responding
<1>5. held' = [held EXCEPT !.bufs = held.bufs - One(t[j].buf) + One(v.buf)]
  BY <1>1, <1>2 DEF Respond, Reused, One
<1>6. tactive' = tactive BY DEF Respond
<1> HIDE DEF v
<1>7. TPart' BY <1>2, <1>3, <1>4, <1>5, <1>6, TChanges
<1>8. ~TWorking(v) BY <1>2 DEF TWorking
<1> QED BY <1>4, <1>7, <1>8 DEF v

(* A slot without a query becomes another such: the queries do not notice.  *)
LEMMA NoQuery ==
  ASSUME TPart, QPart, NEW k \in TSlots, NEW v, ~TWorking(t[k]), ~TWorking(v)
  PROVE  QLedger(u, [t EXCEPT ![k] = v], numqueries, log)
<1> DEFINE t2 == [t EXCEPT ![k] = v]
<1>1. t2[k] = v /\ \A i \in TSlots \ {k} : t2[i] = t[i] BY TFacts
<1> HIDE DEF t2
<1>2. \A i \in TSlots : TWorking(t2[i]) <=> TWorking(t[i]) BY <1>1
<1>3. \A i \in TSlots : TWorking(t[i]) => t2[i] = t[i] BY <1>1
<1>4. QLedger(u, t2, numqueries, log) BY <1>2, <1>3, SameQueries DEF QPart
<1> QED BY <1>4 DEF t2

(* The query of a slot has an end.                                          *)
LEMMA QueryOfSlot ==
  ASSUME TPart, QPart, NEW k \in TSlots, TWorking(t[k])
  PROVE  /\ Ends(t[k].active, log, Dropped({t[k].active}, log))
         /\ Ends(t[k].active, log, Answered(t[k].active, t[k].tcp, log))
<1>1. /\ log \in Log /\ t[k].active \in 1 .. MaxQueries /\ log[t[k].active] = t[k].tcp
      /\ t[k].tcp \in Conns
  BY Sizes DEF QPart, QLedger
<1>2. Ends(t[k].active, log, Dropped({t[k].active}, log)) BY <1>1, DroppedEnds
<1>3. Ends(t[k].active, log, Answered(t[k].active, log[t[k].active], log)) BY <1>1, AnsweredEnds
<1> QED BY <1>1, <1>2, <1>3

LEMMA QueryFailsKeeps == ASSUME IInv, QueryFails PROVE UPart' /\ TPart' /\ QPart'
<1> USE DEF IInv
<1>1. /\ j \in TSlots /\ TWorking(t[j]) /\ t[j].active # 0
      /\ Close /\ log' = Dropped({t[j].active}, log) /\ UNCHANGED <<udp, tstart, numqueries>>
  BY DEF QueryFails, AtQuery, Loop, TWorking
<1>2. UPart' BY <1>1, USame
<1>3. TPart' BY <1>1, CloseKeeps
<1>4. QPart'
  <2>1. Ends(t[j].active, log, log') BY <1>1, QueryOfSlot
  <2>2. QLedger(u, [t EXCEPT ![j] = TFree], numqueries, log')
    BY <1>1, <2>1, TFacts, TFreeSlot, TEnds DEF QPart
  <2>3. QLedger(u', t', numqueries', log') BY <1>1, <2>2 DEF Close, udp
  <2> QED BY <2>3, QLedgerNow
<1> QED BY <1>2, <1>3, <1>4

LEMMA QueryAnsweredKeeps == ASSUME IInv, QueryAnswered PROVE UPart' /\ TPart' /\ QPart'
<1> USE DEF IInv
<1>1. /\ j \in TSlots /\ TWorking(t[j]) /\ t[j].active # 0
      /\ Respond /\ log' = Answered(t[j].active, t[j].tcp, log)
      /\ UNCHANGED <<udp, tstart, numqueries>>
  BY DEF QueryAnswered, AtQuery, Loop, TWorking
<1>2. UPart' BY <1>1, USame
<1>3. TPart' /\ t' = [t EXCEPT ![j] = Responding(t[j])] /\ ~TWorking(Responding(t[j]))
  BY <1>1, RespondKeeps
<1>4. QPart'
  <2>1. Ends(t[j].active, log, log') BY <1>1, QueryOfSlot
  <2>2. QLedger(u, [t EXCEPT ![j] = Responding(t[j])], numqueries, log')
    BY <1>1, <1>3, <2>1, TFacts, TEnds DEF QPart
  <2>3. QLedger(u', t', numqueries', log') BY <1>1, <1>3, <2>2 DEF udp
  <2> QED BY <2>3, QLedgerNow
<1> QED BY <1>2, <1>3, <1>4

LEMMA RwFailsKeeps == ASSUME IInv, RwFails PROVE UPart' /\ TPart' /\ QPart'
<1> USE DEF IInv
<1>1. /\ j \in TSlots /\ ~TWorking(t[j]) /\ t[j].active # 0
      /\ Close /\ UNCHANGED <<udp, tstart, numqueries, log>>
  BY DEF RwFails, AtRw, Loop, TWorking
<1>2. UPart' BY <1>1, USame
<1>3. TPart' BY <1>1, CloseKeeps
<1>4. QPart'
  <2>1. QLedger(u, [t EXCEPT ![j] = TFree], numqueries, log) BY <1>1, TFreeSlot, NoQuery
  <2>2. QLedger(u', t', numqueries', log') BY <1>1, <2>1 DEF Close, udp
  <2> QED BY <2>2, QLedgerNow
<1> QED BY <1>2, <1>3, <1>4

(* t_rw() where the connection stays and no query begins.                   *)
LEMMA RwKeeps ==
  ASSUME IInv, j \in TSlots, ~TWorking(t[j]), NEW v \in TSlot, SlotOK(v), v.tcp = t[j].tcp,
         ~TWorking(v), t' = [t EXCEPT ![j] = v],
         held' = [held EXCEPT !.bufs = held.bufs - One(t[j].buf) + One(v.buf)],
         UNCHANGED <<udp, tactive, tstart, numqueries, log>>
  PROVE  UPart' /\ TPart' /\ QPart'
<1> USE DEF IInv
<1>1. UPart' BY USame
<1>2. TPart' BY TChanges
<1>3. QLedger(u, [t EXCEPT ![j] = v], numqueries, log) BY NoQuery
<1>4. QLedger(u', t', numqueries', log') BY <1>3 DEF udp
<1> QED BY <1>1, <1>2, <1>4, QLedgerNow

(* The slot where t_rw() is, and what is held if its buffer does not change. *)
LEMMA RwFacts ==
  ASSUME IInv, NEW s \in {-1, 1, 2, 3}, AtRw(s)
  PROVE  /\ j \in TSlots /\ ~TWorking(t[j]) /\ t[j].active # 0 /\ t[j].state = s
         /\ t[j] \in TSlot /\ SlotOK(t[j])
         /\ (s \in {-1, 3} => t[j].buf = TRUE) /\ (s \in {1, 2} => t[j].buf = FALSE)
         /\ held = [held EXCEPT !.bufs = held.bufs - One(t[j].buf) + One(t[j].buf)]
<1>1. j \in TSlots /\ t[j].active # 0 /\ t[j].state = s BY DEF AtRw, IInv, Loop
<1>2. t[j] \in TSlot /\ SlotOK(t[j]) /\ held \in [conns : SUBSET Conns, bufs : Nat]
  BY <1>1, TFacts DEF IInv
<1>3. (s \in {-1, 3} => t[j].buf = TRUE) /\ (s \in {1, 2} => t[j].buf = FALSE)
  BY <1>1, <1>2 DEF SlotOK, TSlot
<1>4. ~TWorking(t[j]) BY <1>1 DEF TWorking
<1>5. held.bufs - One(t[j].buf) + One(t[j].buf) = held.bufs BY <1>2 DEF One
<1>6. held = [held EXCEPT !.bufs = held.bufs] BY <1>2
<1> QED BY <1>1, <1>2, <1>3, <1>4, <1>5, <1>6

LEMMA ReadHighKeeps == ASSUME IInv, ReadHigh PROVE UPart' /\ TPart' /\ QPart'
<1> DEFINE v == [t[j] EXCEPT !.state = 2]
<1>1. AtRw(1) /\ t' = [t EXCEPT ![j] = v] /\ UNCHANGED <<udp, tactive, tstart, held, numqueries, log>>
  BY DEF ReadHigh
<1>2. /\ j \in TSlots /\ ~TWorking(t[j]) /\ t[j].state = 1 /\ t[j] \in TSlot /\ SlotOK(t[j])
      /\ t[j].buf = FALSE
      /\ held = [held EXCEPT !.bufs = held.bufs - One(t[j].buf) + One(t[j].buf)]
  BY <1>1, RwFacts
<1>3. v \in TSlot /\ v.tcp = t[j].tcp /\ v.state = 2 /\ v.buf = FALSE /\ v.active = t[j].active
  BY <1>2 DEF TSlot
<1> HIDE DEF v
<1>4. SlotOK(v) /\ ~TWorking(v) BY <1>2, <1>3 DEF SlotOK, TWorking
<1>5. held' = [held EXCEPT !.bufs = held.bufs - One(t[j].buf) + One(v.buf)]
  BY <1>1, <1>2, <1>3
<1> QED BY <1>1, <1>2, <1>3, <1>4, <1>5, RwKeeps

LEMMA ReadBodyKeeps == ASSUME IInv, ReadBody PROVE UPart' /\ TPart' /\ QPart'
<1> DEFINE v == [t[j] EXCEPT !.left = t[j].left - 1]
<1>1. /\ AtRw(3) /\ t' = [t EXCEPT ![j] = v] /\ t[j].left > 1
      /\ UNCHANGED <<udp, tactive, tstart, held, numqueries, log>>
  BY DEF ReadBody
<1>2. /\ j \in TSlots /\ ~TWorking(t[j]) /\ t[j].state = 3 /\ t[j] \in TSlot /\ SlotOK(t[j])
      /\ held = [held EXCEPT !.bufs = held.bufs - One(t[j].buf) + One(t[j].buf)]
  BY <1>1, RwFacts
<1>3. t[j].left - 1 \in 0 .. MaxLen /\ t[j].left - 1 > 0 BY <1>1, <1>2, Sizes DEF TSlot
<1>4. /\ v \in TSlot /\ v.tcp = t[j].tcp /\ v.state = 3 /\ v.buf = t[j].buf
      /\ v.active = t[j].active /\ v.left > 0
  BY <1>2, <1>3 DEF TSlot
<1> HIDE DEF v
<1>5. SlotOK(v) /\ ~TWorking(v) BY <1>2, <1>4 DEF SlotOK, TWorking
<1>6. held' = [held EXCEPT !.bufs = held.bufs - One(t[j].buf) + One(v.buf)]
  BY <1>1, <1>2, <1>4
<1> QED BY <1>1, <1>2, <1>4, <1>5, <1>6, RwKeeps

LEMMA ReadLowKeeps ==
  ASSUME IInv, NEW len \in 1 .. MaxLen, ReadLow(len) PROVE UPart' /\ TPart' /\ QPart'
<1> DEFINE v == [t[j] EXCEPT !.state = 3, !.buf = TRUE, !.left = len]
<1>1. /\ AtRw(2) /\ t' = [t EXCEPT ![j] = v] /\ held' = [held EXCEPT !.bufs = held.bufs + 1]
      /\ UNCHANGED <<udp, tactive, tstart, numqueries, log>>
  BY DEF ReadLow
<1>2. /\ j \in TSlots /\ ~TWorking(t[j]) /\ t[j].active # 0 /\ t[j].state = 2
      /\ t[j] \in TSlot /\ SlotOK(t[j]) /\ t[j].buf = FALSE
  BY <1>1, RwFacts
<1>3. len \in 0 .. MaxLen /\ len > 0 /\ 3 \in -1 .. 3 BY Sizes
<1>4. v \in TSlot /\ v.tcp = t[j].tcp /\ v.state = 3 /\ v.buf = TRUE /\ v.active = t[j].active /\ v.left = len
  <2>1. v \in TSlot BY <1>2, <1>3 DEF TSlot
  <2> QED BY <1>2, <2>1 DEF TSlot
<1> HIDE DEF v
<1>5. SlotOK(v) /\ ~TWorking(v) BY <1>2, <1>3, <1>4 DEF SlotOK, TWorking
<1>6. held' = [held EXCEPT !.bufs = held.bufs - One(t[j].buf) + One(v.buf)]
  <2>1. held.bufs \in Nat BY TFacts DEF IInv
  <2>2. held.bufs - One(t[j].buf) + One(v.buf) = held.bufs + 1 BY <1>2, <1>4, <2>1 DEF One
  <2> QED BY <1>1, <2>2
<1> QED BY <1>1, <1>2, <1>4, <1>5, <1>6, RwKeeps

LEMMA WriteKeeps == ASSUME IInv, Write PROVE UPart' /\ TPart' /\ QPart'
<1>1. AtRw(-1) /\ UNCHANGED <<udp, tactive, tstart, numqueries, log>> BY DEF Write
<1>2. /\ j \in TSlots /\ ~TWorking(t[j]) /\ t[j].active # 0 /\ t[j].state = -1
      /\ t[j] \in TSlot /\ SlotOK(t[j]) /\ t[j].buf = TRUE
      /\ held = [held EXCEPT !.bufs = held.bufs - One(t[j].buf) + One(t[j].buf)]
  BY <1>1, RwFacts
<1>3. PICK left \in 0 .. t[j].left - 1 :
        IF left > 0
        THEN t' = [t EXCEPT ![j].left = left] /\ UNCHANGED held
        ELSE /\ t' = [t EXCEPT ![j] = [@ EXCEPT !.left = 0, !.buf = FALSE, !.state = 1]]
             /\ held' = [held EXCEPT !.bufs = @ - 1]
  BY DEF Write
<1>4. left \in 0 .. MaxLen BY <1>2, Sizes DEF TSlot
<1>5. CASE left > 0
  <2> DEFINE v == [t[j] EXCEPT !.left = left]
  <2>1. t' = [t EXCEPT ![j] = v] /\ held' = held BY <1>3, <1>5
  <2>2. /\ v \in TSlot /\ v.tcp = t[j].tcp /\ v.state = -1 /\ v.buf = t[j].buf
        /\ v.active = t[j].active /\ v.left = left
    BY <1>2, <1>4 DEF TSlot
  <2> HIDE DEF v
  <2>3. SlotOK(v) /\ ~TWorking(v) BY <1>2, <1>5, <2>2 DEF SlotOK, TWorking
  <2>4. held' = [held EXCEPT !.bufs = held.bufs - One(t[j].buf) + One(v.buf)]
    BY <1>2, <2>1, <2>2
  <2> QED BY <1>1, <1>2, <2>1, <2>2, <2>3, <2>4, RwKeeps
<1>6. CASE ~(left > 0)
  <2> DEFINE v == [t[j] EXCEPT !.left = 0, !.buf = FALSE, !.state = 1]
  <2>1. t' = [t EXCEPT ![j] = v] /\ held' = [held EXCEPT !.bufs = held.bufs - 1] BY <1>3, <1>6
  <2>2. v \in TSlot /\ v.tcp = t[j].tcp /\ v.state = 1 /\ v.buf = FALSE /\ v.active = t[j].active
    <3>1. 0 \in 0 .. MaxLen /\ 1 \in -1 .. 3 BY Sizes
    <3>2. v \in TSlot BY <1>2, <3>1 DEF TSlot
    <3> QED BY <1>2, <3>2 DEF TSlot
  <2> HIDE DEF v
  <2>3. SlotOK(v) /\ ~TWorking(v) BY <1>2, <2>2 DEF SlotOK, TWorking
  <2>4. held' = [held EXCEPT !.bufs = held.bufs - One(t[j].buf) + One(v.buf)]
    <3>1. held.bufs \in Nat BY TFacts DEF IInv
    <3>2. held.bufs - One(t[j].buf) + One(v.buf) = held.bufs - 1 BY <1>2, <2>2, <3>1 DEF One
    <3> QED BY <2>1, <3>2
  <2> QED BY <1>1, <1>2, <2>1, <2>2, <2>3, <2>4, RwKeeps
<1> QED BY <1>5, <1>6

LEMMA ReadQueryKeeps ==
  ASSUME IInv, NEW r \in Results, ReadQuery(r) PROVE UPart' /\ TPart' /\ QPart'
<1> USE DEF IInv
<1> DEFINE n == numqueries + 1
<1> DEFINE l == Asked(n, t[j].tcp, log)
<1> DEFINE v == [t[j] EXCEPT !.active = n, !.state = 0, !.buf = FALSE, !.left = 0]
<1>1. /\ AtRw(3) /\ numqueries < MaxQueries /\ numqueries' = n /\ UNCHANGED <<udp, tstart>>
      /\ \/ Close /\ log' = Dropped({n}, l)
         \/ Respond /\ log' = Answered(n, t[j].tcp, l)
         \/ /\ t' = [t EXCEPT ![j] = v] /\ held' = [held EXCEPT !.bufs = held.bufs - 1]
            /\ log' = l /\ UNCHANGED tactive
  BY DEF ReadQuery
<1>2. /\ j \in TSlots /\ ~TWorking(t[j]) /\ t[j].active # 0 /\ t[j].state = 3
      /\ t[j] \in TSlot /\ SlotOK(t[j]) /\ t[j].buf = TRUE
  BY <1>1, RwFacts
<1>3. numqueries \in 0 .. MaxQueries /\ n \in 1 .. MaxQueries /\ n # 0 /\ log \in Log
  BY <1>1, Sizes DEF QPart, QLedger
<1>4. t[j].tcp \in Conns BY <1>2 DEF SlotOK, TSlot
<1>5. UPart' BY <1>1, USame
<1>6. /\ Ends(n, log, Answered(n, t[j].tcp, l))
      /\ Ends(n, log, Dropped({n}, l))
  BY <1>3, <1>4, AskedEnds
<1> HIDE DEF l
<1>7. CASE Close /\ log' = Dropped({n}, l)
  <2>1. TPart' BY <1>1, <1>2, <1>7, CloseKeeps
  <2>2. QLedger(u, [t EXCEPT ![j] = TFree], numqueries, log) BY <1>2, TFreeSlot, NoQuery
  <2>3. QLedger(u, t', n, log')
    <3>1. t' = [t EXCEPT ![j] = TFree] BY <1>7 DEF Close
    <3>2. QLedger(u, t', numqueries, log) BY <2>2, <3>1
    <3>3. Ends(n, log, log') BY <1>6, <1>7
    <3> QED BY <1>3, <3>2, <3>3, EndsAtOnce
  <2>4. QLedger(u', t', numqueries', log') BY <1>1, <2>3 DEF udp
  <2> QED BY <1>5, <2>1, <2>4, QLedgerNow
<1>8. CASE Respond /\ log' = Answered(n, t[j].tcp, l)
  <2>1. TPart' /\ t' = [t EXCEPT ![j] = Responding(t[j])] /\ ~TWorking(Responding(t[j]))
    BY <1>1, <1>2, <1>8, RespondKeeps
  <2>2. QLedger(u, [t EXCEPT ![j] = Responding(t[j])], numqueries, log) BY <1>2, <2>1, NoQuery
  <2>3. QLedger(u, t', n, log')
    <3>1. QLedger(u, t', numqueries, log) BY <2>1, <2>2
    <3>2. Ends(n, log, log') BY <1>6, <1>8
    <3> QED BY <1>3, <3>1, <3>2, EndsAtOnce
  <2>4. QLedger(u', t', numqueries', log') BY <1>1, <2>3 DEF udp
  <2> QED BY <1>5, <2>1, <2>4, QLedgerNow
<1>9. CASE /\ t' = [t EXCEPT ![j] = v] /\ held' = [held EXCEPT !.bufs = held.bufs - 1]
           /\ log' = l /\ UNCHANGED tactive
  <2>1. v \in TSlot
    <3>1. n \in 0 .. MaxQueries /\ 0 \in -1 .. 3 /\ 0 \in 0 .. MaxLen BY <1>3, Sizes
    <3> QED BY <1>2, <3>1 DEF TSlot
  <2>2. v.tcp = t[j].tcp /\ v.state = 0 /\ v.buf = FALSE /\ v.active = n BY <1>2, <2>1 DEF TSlot
  <2> HIDE DEF v
  <2>3. SlotOK(v) BY <1>2, <1>3, <2>2 DEF SlotOK
  <2>4. held' = [held EXCEPT !.bufs = held.bufs - One(t[j].buf) + One(v.buf)]
    <3>1. held.bufs \in Nat BY TFacts
    <3>2. held.bufs - One(t[j].buf) + One(v.buf) = held.bufs - 1 BY <1>2, <2>2, <3>1 DEF One
    <3> QED BY <1>9, <3>2
  <2>5. TPart' BY <1>1, <1>2, <1>9, <2>1, <2>2, <2>3, <2>4, TChanges
  <2>6. QLedger(u, [t EXCEPT ![j] = v], n, Asked(n, v.tcp, log))
    BY <1>2, <1>3, <1>4, <2>2, TFacts, TStarts DEF QPart
  <2>7. log' = Asked(n, v.tcp, log) BY <1>9, <2>2 DEF l
  <2>8. QLedger(u', t', numqueries', log') BY <1>1, <1>9, <2>6, <2>7 DEF udp
  <2> QED BY <1>5, <2>5, <2>8, QLedgerNow
<1> QED BY <1>1, <1>7, <1>8, <1>9

LEMMA NewSlotKeeps ==
  ASSUME IInv, NEW k \in TSlots, NEW v \in TSlot, SlotOK(v), ~v.buf, ~TWorking(v),
         v.tcp \notin Released(k).conns, NewSlot(k, v)
  PROVE  UPart' /\ TPart' /\ QPart'
<1> USE DEF IInv
<1>1. UPart' BY USame DEF NewSlot
<1>2. TPart'
  <2>1. v.tcp \notin held.conns \ {t[k].tcp} BY DEF Released
  <2>2. tactive' = tactive - One(t[k].active # 0) + One(v.active # 0) BY DEF NewSlot, One
  <2>3. held' = [conns |-> Released(k).conns \cup ({v.tcp} \ {None}), bufs |-> Released(k).bufs]
    BY DEF NewSlot, Released
  <2>4. t' = [t EXCEPT ![k] = v] /\ tstart' = Restarted(tstart, k) BY DEF NewSlot
  <2> QED BY <2>1, <2>2, <2>3, <2>4, TFilled
<1>3. QPart'
  <2>1. QLedger(u, [t EXCEPT ![k] = v], numqueries, log')
    <3>1. CASE TWorking(t[k])
      <4>1. log' = Dropped({t[k].active}, log) BY <3>1 DEF NewSlot, TWorking
      <4>2. Ends(t[k].active, log, log') BY <3>1, <4>1, QueryOfSlot
      <4> QED BY <3>1, <4>2, TFacts, TEnds DEF QPart
    <3>2. CASE ~TWorking(t[k])
      <4>1. log' = Dropped({}, log) BY <3>2 DEF NewSlot, TWorking
      <4>2. log' = log BY <4>1, DroppedNone DEF QPart, QLedger
      <4> QED BY <3>2, <4>2, NoQuery
    <3> QED BY <3>1, <3>2
  <2>2. QLedger(u', t', numqueries', log') BY <2>1 DEF NewSlot, udp
  <2> QED BY <2>2, QLedgerNow
<1> QED BY <1>1, <1>2, <1>3

LEMMA NewKeeps ==
  ASSUME IInv, BadConnection \/ \E c \in Conns : Connection(c)
  PROVE  UPart' /\ TPart' /\ QPart'
<1> DEFINE k == Chosen(t, tstart)
<1>1. k \in TSlots BY Chosens DEF IInv
<1>2. None \notin Released(k).conns BY <1>1, TFacts DEF Released, IInv
<1>3. CASE BadConnection
  <2>1. NewSlot(k, TFree) BY <1>3 DEF BadConnection
  <2> HIDE DEF k
  <2> QED BY <1>1, <1>2, <2>1, TFreeSlot, NewSlotKeeps
<1>4. ASSUME NEW c \in Conns, Connection(c) PROVE UPart' /\ TPart' /\ QPart'
  <2> DEFINE v == [TFree EXCEPT !.active = 1, !.tcp = c]
  <2>1. NewSlot(k, v) /\ c \notin Released(k).conns BY <1>4 DEF Connection
  <2>2. v \in TSlot /\ v.active = 1 /\ v.tcp = c /\ v.buf = FALSE /\ v.state = 1
    <3>1. 1 \in 0 .. MaxQueries /\ c \in Conns \cup {None} BY Sizes
    <3>2. v \in TSlot BY <3>1, TFreeSlot DEF TSlot
    <3> QED BY <3>2, TFreeSlot DEF TSlot, TFree
  <2>3. SlotOK(v) /\ ~TWorking(v) BY <2>2, Sizes DEF SlotOK, TWorking
  <2> HIDE DEF k, v
  <2> QED BY <1>1, <2>1, <2>2, <2>3, NewSlotKeeps
<1> QED BY <1>3, <1>4

LEMMA TcpQueryReadyKeeps ==
  ASSUME IInv, NEW k \in TSlots, TcpQueryReady(k) PROVE UPart' /\ TPart' /\ QPart'
<1> USE DEF IInv
<1> DEFINE v == [t[k] EXCEPT !.done = TRUE]
<1>1. /\ t' = [t EXCEPT ![k] = v] /\ TWorking(t[k])
      /\ UNCHANGED <<udp, tactive, tstart, held, numqueries, log>>
  BY DEF TcpQueryReady, TWorking
<1>2. t[k] \in TSlot /\ SlotOK(t[k]) /\ held \in [conns : SUBSET Conns, bufs : Nat] BY TFacts
<1>3. /\ v \in TSlot /\ v.active = t[k].active /\ v.tcp = t[k].tcp /\ v.state = t[k].state
      /\ v.buf = t[k].buf /\ v.left = t[k].left
  BY <1>2 DEF TSlot
<1> HIDE DEF v
<1>4. SlotOK(v) /\ TWorking(v) BY <1>1, <1>2, <1>3 DEF SlotOK, TWorking
<1>5. UPart' BY <1>1, USame
<1>6. TPart'
  <2>1. held.bufs - One(t[k].buf) + One(v.buf) = held.bufs BY <1>2, <1>3 DEF One
  <2>2. held' = [held EXCEPT !.bufs = held.bufs - One(t[k].buf) + One(v.buf)] BY <1>1, <1>2, <2>1
  <2> QED BY <1>1, <1>3, <1>4, <2>2, TChanges
<1>7. QPart'
  <2>1. t'[k] = v /\ \A i \in TSlots \ {k} : t'[i] = t[i] BY <1>1, TFacts
  <2>2. \A i \in TSlots : TWorking(t'[i]) <=> TWorking(t[i]) BY <1>1, <1>4, <2>1
  <2>3. \A i \in TSlots : t'[i].active = t[i].active /\ t'[i].tcp = t[i].tcp BY <1>3, <2>1
  <2>4. QLedger(u, t', numqueries, log) BY <2>2, <2>3, SameQueries DEF QPart
  <2>5. QLedger(u', t', numqueries', log') BY <1>1, <2>4 DEF udp
  <2> QED BY <2>5, QLedgerNow
<1> QED BY <1>5, <1>6, <1>7

(* The rest of the steps leave the tables as they are.                      *)
LEMMA OthersKeep ==
  ASSUME IInv, UNCHANGED <<udp, tcp, numqueries, log>> PROVE UPart' /\ TPart' /\ QPart'
<1> USE DEF IInv
<1>1. UPart' /\ TPart' BY USame, TSame
<1>2. QLedger(u', t', numqueries', log') BY DEF udp, tcp, QPart
<1> QED BY <1>1, <1>2, QLedgerNow

-----------------------------------------------------------------------------
(* The theorems                                                             *)

LEMMA IInvKept == ASSUME IInv, [Next]_vars PROVE IInv'
<1>1. Loop' BY LoopKept DEF IInv
<1>2. UPart' /\ TPart' /\ QPart'
  <2>1. CASE UNCHANGED vars BY <2>1, OthersKeep DEF vars
  <2>2. CASE Stamp BY <2>2, OthersKeep DEF Stamp
  <2>3. CASE Poll BY <2>3, OthersKeep DEF Poll
  <2>4. CASE SkipUdp BY <2>4, OthersKeep DEF SkipUdp
  <2>5. CASE \E r \in {-1, 1} : EndUdp(r) BY <2>5, EndUdpKeeps
  <2>6. CASE SkipTcp BY <2>6, OthersKeep DEF SkipTcp
  <2>7. CASE QueryGoesOn BY <2>7, OthersKeep DEF QueryGoesOn
  <2>8. CASE QueryFails BY <2>8, QueryFailsKeeps
  <2>9. CASE QueryAnswered BY <2>9, QueryAnsweredKeeps
  <2>10. CASE t_rw
    <3>1. CASE RwFails BY <3>1, RwFailsKeeps
    <3>2. CASE Write BY <3>2, WriteKeeps
    <3>3. CASE ReadHigh BY <3>3, ReadHighKeeps
    <3>4. CASE ReadBody BY <3>4, ReadBodyKeeps
    <3>5. CASE \E len \in 1 .. MaxLen : ReadLow(len) BY <3>5, ReadLowKeeps
    <3>6. CASE \E r \in Results : ReadQuery(r) BY <3>6, ReadQueryKeeps
    <3> QED BY <2>10, <3>1, <3>2, <3>3, <3>4, <3>5, <3>6 DEF t_rw
  <2>11. CASE u_new
    <3>1. CASE NoPacket BY <3>1, OthersKeep DEF NoPacket
    <3>2. CASE BadPacket BY <3>2, BadPacketKeeps
    <3>3. CASE \E c \in Clients, r \in Results : Packet(c, r) BY <3>3, PacketKeeps
    <3> QED BY <2>11, <3>1, <3>2, <3>3 DEF u_new
  <2>12. CASE t_new
    <3>1. CASE NoConnection BY <3>1, OthersKeep DEF NoConnection
    <3>2. CASE BadConnection \/ \E c \in Conns : Connection(c) BY <3>2, NewKeeps
    <3> QED BY <2>12, <3>1, <3>2 DEF t_new
  <2>13. CASE \E k \in USlots : QueryReady(k) BY <2>13, QueryReadyKeeps
  <2>14. CASE \E k \in TSlots : TcpQueryReady(k) \/ Arrive(k) \/ Expire(k)
    <3>1. CASE \E k \in TSlots : TcpQueryReady(k) BY <3>1, TcpQueryReadyKeeps
    <3>2. CASE \E k \in TSlots : Arrive(k) BY <3>2, OthersKeep DEF Arrive
    <3>3. CASE \E k \in TSlots : Expire(k) BY <3>3, OthersKeep DEF Expire
    <3> QED BY <2>14, <3>1, <3>2, <3>3
  <2> QED BY <2>1, <2>2, <2>3, <2>4, <2>5, <2>6, <2>7, <2>8, <2>9, <2>10, <2>11, <2>12, <2>13,
             <2>14 DEF Next, Doit, World
<1> QED BY <1>1, <1>2 DEF IInv

LEMMA AlwaysIInv == Spec => []IInv
<1>1. Init => IInv BY InitIInv
<1>2. IInv /\ [Next]_vars => IInv' BY IInvKept
<1> QED BY <1>1, <1>2, PTL DEF Spec

LEMMA OrderPermutes ==
  ASSUME NEW N \in Nat, N >= 1, NEW o, Order(o, N) PROVE Permutes(o, 1 .. N)
<1>1. Len(o) = N BY OrderLen
<1>2. Cardinality(1 .. N) = N
  <2>1. Cardinality(1 .. N) = IF 1 > N THEN 0 ELSE N - 1 + 1 BY FS_Interval
  <2> QED BY <2>1
<1>3. {o[i] : i \in 1 .. N} = 1 .. N
  <2>1. \A i \in 1 .. N : o[i] \in 1 .. N BY DEF Order
  <2>2. \A k \in 1 .. N : \E i \in 1 .. N : o[i] = k BY DEF Order
  <2> QED BY <2>1, <2>2
<1> QED BY <1>1, <1>2, <1>3 DEF Permutes

LEMMA IInvTypeOK == IInv => TypeOK
<1> SUFFICES ASSUME IInv PROVE TypeOK OBVIOUS
<1> USE DEF IInv
<1>1. Permutes(ustart, USlots) /\ Permutes(tstart, TSlots)
  <2>1. Permutes(ustart, 1 .. MAXUDP) BY OrderPermutes, Sizes DEF UPart
  <2>2. Permutes(tstart, 1 .. MAXTCP) BY OrderPermutes, Sizes DEF TPart
  <2> QED BY <2>1, <2>2, Sizes
<1>2. /\ pc \in {"stamp", "poll", "udp", "tcp", "new udp", "new tcp"}
      /\ j \in 1 .. (IF pc = "udp" THEN MAXUDP ELSE IF pc = "tcp" THEN MAXTCP ELSE 1)
  <2>1. CASE pc = "udp" BY <2>1, Sizes DEF Loop
  <2>2. CASE pc = "tcp" BY <2>2, Sizes DEF Loop
  <2>3. CASE pc \notin {"udp", "tcp"}
    <3>1. j = 1 BY <2>3 DEF Loop
    <3>2. j \in 1 .. 1 BY <3>1
    <3> QED BY <2>3, <3>2 DEF Loop
  <2> QED BY <2>1, <2>2, <2>3 DEF Loop
<1>3. stamped \subseteq TSlots /\ seen \subseteq TSlots /\ late \subseteq TSlots /\ ready \subseteq TSlots
  BY DEF Loop
<1>4. u \in [USlots -> USlot] /\ t \in [TSlots -> TSlot] BY TFacts DEF UPart, ULedger
<1>5. numqueries \in 0 .. MaxQueries /\ log \in Log BY DEF QPart, QLedger
<1> QED BY <1>1, <1>2, <1>3, <1>4, <1>5 DEF TypeOK, USlot, TSlot, Log

LEMMA IInvQueriesTabled == IInv => QueriesTabled
<1> SUFFICES ASSUME IInv PROVE QueriesTabled OBVIOUS
<1> USE DEF IInv
<1>1. uactive = Cardinality({k \in USlots : u[k].active # 0}) BY DEF UPart, ULedger
<1>2. tactive = Cardinality({k \in TSlots : t[k].active # 0}) BY DEF TPart, TLedger
<1>3. ASSUME NEW n \in 1 .. numqueries
      PROVE  LET us == {k \in USlots : AtWork(k) /\ u[k].active = n}
                 ts == {k \in TSlots : TAtWork(k) /\ t[k].active = n}
             IN \/ log[n] \in {"answered", "dropped"} /\ us = {} /\ ts = {}
                \/ /\ Cardinality(us) + Cardinality(ts) = 1
                   /\ \A k \in us : u[k].ip = log[n]
                   /\ \A k \in ts : t[k].tcp = log[n]
  <2> DEFINE us == {k \in USlots : AtWork(k) /\ u[k].active = n}
  <2> DEFINE ts == {k \in TSlots : TAtWork(k) /\ t[k].active = n}
  <2>1. \A k \in us : k \in USlots /\ Working(u[k]) /\ u[k].active = n /\ u[k].ip = log[n]
    BY DEF QPart, QLedger, AtWork, Working
  <2>2. \A k \in ts : k \in TSlots /\ TWorking(t[k]) /\ t[k].active = n /\ t[k].tcp = log[n]
    BY DEF QPart, QLedger, TAtWork, TWorking
  <2>3. \A a, b \in us : a = b BY <2>1 DEF QPart, QLedger
  <2>4. \A a, b \in ts : a = b BY <2>2 DEF QPart, QLedger
  <2>5. us = {} \/ ts = {} BY <2>1, <2>2 DEF QPart, QLedger
  <2>6. log[n] \in {"answered", "dropped"} \/ us # {} \/ ts # {}
    BY DEF QPart, QLedger, AtWork, TAtWork, Working, TWorking
  <2> HIDE DEF us, ts
  <2>7. CASE us # {}
    <3>1. PICK k : k \in us BY <2>7
    <3>2. us = {k} BY <2>3, <3>1
    <3>3. Cardinality(us) = 1 BY <3>2, FS_Singleton
    <3>4. Cardinality(ts) = 0 BY <2>5, <2>7, FS_EmptySet
    <3> QED BY <2>1, <2>2, <3>3, <3>4 DEF us, ts
  <2>8. CASE ts # {}
    <3>1. PICK k : k \in ts BY <2>8
    <3>2. ts = {k} BY <2>4, <3>1
    <3>3. Cardinality(ts) = 1 BY <3>2, FS_Singleton
    <3>4. Cardinality(us) = 0 BY <2>5, <2>8, FS_EmptySet
    <3> QED BY <2>1, <2>2, <3>3, <3>4 DEF us, ts
  <2>9. CASE us = {} /\ ts = {} BY <2>6, <2>9 DEF us, ts
  <2> QED BY <2>7, <2>8, <2>9
<1> QED BY <1>1, <1>2, <1>3 DEF QueriesTabled

LEMMA IInvNoLeak == IInv => NoLeak
<1> SUFFICES ASSUME IInv PROVE NoLeak OBVIOUS
<1> USE DEF IInv
<1> DEFINE S == {i \in TSlots : t[i].active # 0}
<1>1. \A k \in TSlots : SlotOK(t[k]) BY TFacts
<1>2. held.conns = {t[k].tcp : k \in S}
  <2>1. held.conns = {t[k].tcp : k \in TSlots} \ {None} BY DEF TPart, TLedger
  <2>2. \A k \in TSlots : t[k].tcp # None <=> k \in S BY <1>1 DEF SlotOK
  <2> QED BY <2>1, <2>2
<1>3. Cardinality(held.conns) = tactive
  <2> DEFINE f == [k \in S |-> t[k].tcp]
  <2>1. IsFiniteSet(held.conns) BY TFacts, DnscacheAssumption, FS_Subset DEF DnscacheAssumption
  <2>2. \A k \in S : k \in TSlots /\ t[k].tcp # None /\ t[k].tcp \in held.conns
    BY <1>1, <1>2 DEF SlotOK
  <2>3. f \in [S -> held.conns] BY <2>2
  <2>4. \A a, b \in S : f[a] = f[b] => a = b BY <2>2 DEF TPart, TLedger
  <2>5. \A c \in held.conns : \E k \in S : f[k] = c BY <1>2
  <2> HIDE DEF S, f
  <2>6. f \in Injection(S, held.conns) BY <2>3, <2>4 DEF Injection, IsInjective
  <2>7. f \in Surjection(S, held.conns) BY <2>3, <2>5 DEF Surjection
  <2>8. Cardinality(S) = Cardinality(held.conns) BY <2>1, <2>6, <2>7, FS_Injection
  <2> QED BY <2>8 DEF S, TPart, TLedger
<1>4. held.bufs = Cardinality({k \in TSlots : t[k].buf}) BY DEF TPart, TLedger
<1>5. TypeOK BY IInvTypeOK
<1> QED BY <1>1, <1>2, <1>3, <1>4, <1>5 DEF NoLeak, SlotOK

(* The tables of dnscache hold each query once, until it is answered to the *)
(* one who asked or dropped; uactive and tactive are the slots in use; the  *)
(* connections and the buffers that are allocated are those of the slots.   *)
THEOREM TablesAreSound == Spec => []TablesSound
<1>1. IInv => TablesSound BY IInvQueriesTabled, IInvNoLeak DEF TablesSound
<1> QED BY <1>1, AlwaysIInv, PTL

(* A UDP query whose own end has not come leaves its slot only when u_new()  *)
(* takes that slot, and then no slot holds an older one.                    *)
THEOREM OldestDropped == Spec => DropsOldest
<1>1. ASSUME IInv, [Next]_vars, NEW k \in USlots, AtWork(k), ~u[k].done, u'[k].active # u[k].active
      PROVE  \A i \in USlots : u[i].active >= u[k].active
  <2> USE <1>1 DEF IInv
  <2>1. u \in [USlots -> USlot] BY DEF UPart, ULedger
  <2>2. PICK v : u' = [u EXCEPT ![Chosen(u, ustart)] = v]
    <3>1. u' # u OBVIOUS
    <3>2. CASE BadPacket BY <3>2 DEF BadPacket
    <3>3. CASE \E c \in Clients, r \in Results : Packet(c, r) BY <3>3 DEF Packet
    <3>4. ASSUME NEW r, EndUdp(r) PROVE FALSE
      <4>1. \A i \in USlots \ {j} : u'[i] = u[i] BY <2>1, <3>4 DEF EndUdp
      <4> QED BY <3>4, <4>1 DEF EndUdp
    <3>5. ASSUME NEW i \in USlots, QueryReady(i) PROVE FALSE
      <4>1. \A h \in USlots : u'[h].active = u[h].active BY <2>1, <3>5 DEF QueryReady, USlot
      <4> QED BY <4>1
    <3>6. CASE UNCHANGED udp BY <3>1, <3>6 DEF udp
    <3>7. CASE UNCHANGED vars BY <3>1, <3>7 DEF vars, udp
    <3>8. CASE t_rw BY <3>6, <3>8 DEF t_rw, RwFails, Write, ReadHigh, ReadBody, ReadLow, ReadQuery
    <3>9. CASE t_new BY <3>6, <3>9 DEF t_new, NoConnection, BadConnection, Connection, NewSlot
    <3>10. CASE Stamp \/ Poll \/ SkipUdp \/ SkipTcp \/ QueryGoesOn \/ QueryFails \/ QueryAnswered
      BY <3>6, <3>10
      DEF Stamp, Poll, SkipUdp, SkipTcp, QueryGoesOn, QueryFails, QueryAnswered
    <3>11. CASE NoPacket BY <3>6, <3>11 DEF NoPacket
    <3>12. CASE \E i \in TSlots : TcpQueryReady(i) \/ Arrive(i) \/ Expire(i)
      BY <3>6, <3>12 DEF TcpQueryReady, Arrive, Expire
    <3> QED BY <3>2, <3>3, <3>4, <3>5, <3>7, <3>8, <3>9, <3>10, <3>11, <3>12
            DEF Next, Doit, World, u_new
  <2>3. k = Chosen(u, ustart)
    <3> HIDE DEF IInv
    <3> QED BY <2>1, <2>2
  <2>4. k = ustart[1] /\ \A i \in USlots : u[i].active # 0 BY <2>3, Chosens DEF AtWork
  <2>5. ASSUME NEW i \in USlots PROVE u[i].active >= u[k].active
    <3>1. PICK h \in 1 .. MAXUDP : ustart[h] = i BY Sizes DEF UPart, Order
    <3>2. u[i].active \in Nat /\ u[k].active \in Nat BY <2>1, Sizes DEF USlot
    <3>3. CASE h = 1 BY <2>4, <3>1, <3>2, <3>3
    <3>4. CASE h # 1
      <4>1. 1 \in 1 .. MAXUDP /\ 1 < h BY <3>4, Sizes
      <4>2. u[ustart[1]].active < u[ustart[h]].active
        BY <2>4, <3>1, <4>1 DEF UPart, UOrdered, Working
      <4> QED BY <2>4, <3>1, <3>2, <4>2
    <3> QED BY <3>3, <3>4
  <2> QED BY <2>5
<1>2. IInv /\ [Next]_vars =>
        [\A k \in USlots :
           (AtWork(k) /\ ~u[k].done /\ u'[k].active # u[k].active) =>
             \A i \in USlots : u[i].active >= u[k].active]_vars
  BY <1>1
<1> QED BY <1>2, AlwaysIInv, PTL DEF Spec, DropsOldest
=============================================================================
