--------------------------- MODULE CacheRingProofs ---------------------------
(***************************************************************************)
(* The ring of cache.c is sound and is a first-in first-out cache, for any  *)
(* size, any hash and any lengths of keys and data.                         *)
(*                                                                         *)
(* The entries are a sequence of positions, oldest first; beside it stand   *)
(* what each of them takes and which bucket it is in.  The regions and the  *)
(* chains are stated of any such sequences, so that dropping the first and  *)
(* adding a last one are lemmas about sequences and not about actions.      *)
(*                                                                         *)
(* A call of cache_set() or cache_get() is then a step, or several, of the  *)
(* abstract cache: its queue is the entries in the order of the sequence.   *)
(***************************************************************************)
EXTENDS CacheRing, SequenceTheorems, FiniteSetTheorems, WellFoundedInduction, TLAPS

Sizes   == [j \in 1..Len(queue) |-> Taken(queue[j])]
Buckets == [j \in 1..Len(queue) |-> Bucket(j)]

(* The first w entries lie between old and un, the others end at wr; in     *)
(* each part they lie end to end, and therefore apart.                      *)
EndToEnd(q, e, wr, old, un, w) ==
  /\ \A j \in 1..Len(q) :
       q[j] = IF j = w + 1 THEN hsize ELSE IF j = 1 THEN old ELSE q[j - 1] + e[j - 1]
  /\ IF w = 0 THEN old = un ELSE q[w] + e[w] = un
  /\ IF w = Len(q) THEN wr = hsize ELSE q[Len(q)] + e[Len(q)] = wr

Inside(q, e, wr, old, un, w) ==
  \A j \in 1..Len(q) :
    /\ j <= w => old <= q[j] /\ q[j] + e[j] <= un
    /\ w < j => hsize <= q[j] /\ q[j] + e[j] <= wr

Apart(q, e, w) ==
  \A i, j \in 1..Len(q) : i < j /\ (j <= w \/ w < i) => q[i] + e[i] <= q[j]

Spans(q, e, wr, old, un, w) ==
  /\ w \in 0..Len(q)
  /\ EndToEnd(q, e, wr, old, un, w)
  /\ Inside(q, e, wr, old, un, w)
  /\ Apart(q, e, w)

Ordered(wr, old, un) ==
  /\ wr \in Nat /\ old \in Nat /\ un \in Nat
  /\ hsize <= wr /\ wr <= old /\ old <= un /\ un <= size
  /\ old = un => un = size

(* i is the next newer entry on the chain of j.                             *)
Newer(b, j, i) == j < i /\ b[i] = b[j] /\ \A l \in j + 1..i - 1 : b[l] # b[j]

(* j is the first entry on the chain of h.                                  *)
First(q, b, h, j) == b[j] = h /\ \A l \in j + 1..Len(q) : b[l] # h

(* The positions in front of j and behind it.                               *)
Ahead(q, b, j, f) ==
  \/ \E i \in 1..Len(q) : Newer(b, j, i) /\ f = q[i]
  \/ f = b[j] /\ \A i \in 1..Len(q) : ~Newer(b, j, i)
Beneath(q, b, j, g) ==
  \/ \E i \in 1..Len(q) : Newer(b, i, j) /\ g = q[i]
  \/ g = 0 /\ \A i \in 1..Len(q) : ~Newer(b, i, j)

EntriesLinked(q, b, lk) ==
  \A j \in 1..Len(q) : \A f, g \in Positions :
    Ahead(q, b, j, f) /\ Beneath(q, b, j, g) => lk[q[j]] = xor(f, g)
HeadsLinked(q, b, lk) ==
  \A h \in Heads :
    /\ \A j \in 1..Len(q) : First(q, b, h, j) => lk[h] = q[j]
    /\ (\A j \in 1..Len(q) : ~First(q, b, h, j)) => lk[h] = 0

(* Who is not alone on a chain has neighbours on it, and there is a first.  *)
Neighbours(q, b) ==
  /\ \A j, l \in 1..Len(q) : j < l /\ b[j] = b[l] =>
       /\ \E i \in 1..Len(q) : i <= l /\ Newer(b, j, i)
       /\ \E i \in 1..Len(q) : j <= i /\ Newer(b, i, l)
  /\ \A j \in 1..Len(q) : \E i \in 1..Len(q) : j <= i /\ First(q, b, b[j], i)

Linkage(q, b, lk) == EntriesLinked(q, b, lk) /\ HeadsLinked(q, b, lk) /\ Neighbours(q, b)

(* A lookup stands at an entry of the chain of its key, came from the one   *)
(* in front of it, has counted those it has seen and found none of them to  *)
(* be the one; at the end of the chain there is none.                       *)
Seen(j) == {i \in 1..Len(queue) : j < i /\ Buckets[i] = hash(arg.key)}
At(j) ==
  /\ pos = queue[j] /\ Buckets[j] = hash(arg.key)
  /\ prevpos \in Positions /\ Ahead(queue, Buckets, j, prevpos)
  /\ loop = Cardinality(Seen(j))
  /\ \A i \in Seen(j) : item[queue[i]].key # arg.key
Walk ==
  pc = "get" =>
    \/ \E j \in 1..Len(queue) : At(j)
    \/ /\ pos = 0 /\ prevpos \in Live \cup Heads
       /\ \A i \in 1..Len(queue) : item[queue[i]].key # arg.key

(* A call that stores has an entry that may be stored.                      *)
Calls ==
  pc = "set" => /\ arg \in [key : Keys, data : Data, ttl : 1..MAXTTL]
                /\ KeyLen(arg.key) <= MAXKEYLEN /\ DataLen(arg.data) <= MAXDATALEN

(* What was lost at the end of the memory is less than an entry, or room is *)
(* being made for one that will not find it.                                *)
Lost == oldest # unused => size - unused <= Slack \/ (pc = "set" /\ entrylen > size - hsize)

Dates == \A p \in Live : item[p].expire <= now + MAXTTL

IInv ==
  /\ TypeOK
  /\ Ordered(writer, oldest, unused)
  /\ \E w \in 0..Len(queue) : Spans(queue, Sizes, writer, oldest, unused, w)
  /\ Linkage(queue, Buckets, link)
  /\ Walk /\ Calls /\ Lost /\ Dates

-----------------------------------------------------------------------------
(* Positions                                                                *)

LEMMA XorFacts ==
  /\ Heads \subseteq Positions /\ 0 \in Positions /\ 0 \in Heads
  /\ \A h \in Heads : h < hsize /\ h \in Nat
  /\ \A a, b \in Positions :
       /\ xor(a, b) \in Nat /\ xor(a, b) = xor(b, a)
       /\ xor(a, 0) = a /\ xor(0, a) = a /\ xor(a, a) = 0
       /\ xor(xor(a, b), a) = b /\ xor(xor(a, b), b) = a /\ xor(a, xor(a, b)) = b
<1>1. Heads \subseteq Positions /\ 0 \in Positions /\ 0 \in Heads
  BY SizeAssumption DEF Heads, Positions
<1>2. \A h \in Heads : h < hsize /\ h \in Nat
  BY SizeAssumption DEF Heads
<1>3. ASSUME NEW a \in Positions, NEW b \in Positions
      PROVE  /\ xor(a, b) \in Nat /\ xor(a, b) = xor(b, a)
             /\ xor(a, 0) = a /\ xor(0, a) = a /\ xor(a, a) = 0
             /\ xor(xor(a, b), a) = b /\ xor(xor(a, b), b) = a /\ xor(a, xor(a, b)) = b
  <2>1. /\ xor(a, b) \in Nat /\ xor(a, b) = xor(b, a) /\ xor(a, 0) = a /\ xor(a, a) = 0
        /\ xor(xor(a, b), a) = b /\ xor(a, xor(a, b)) = b
    BY XorAssumption
  <2>2. xor(xor(b, a), b) = a
    BY XorAssumption
  <2>3. xor(a, 0) = xor(0, a)
    BY <1>1, XorAssumption
  <2> QED BY <2>1, <2>2, <2>3
<1> QED BY <1>1, <1>2, <1>3

-----------------------------------------------------------------------------
(* The regions                                                              *)

(* What there is when the first entry goes: one shorter, moved by one.      *)
Shorter(q, e, q2, e2) ==
  /\ Len(q) \in Nat \ {0} /\ Len(q2) = Len(q) - 1
  /\ \A j \in 1..Len(q2) : q2[j] = q[j + 1] /\ e2[j] = e[j + 1]

Longer(q, e, q2, e2, p, m) ==
  /\ Len(q) \in Nat /\ Len(q2) = Len(q) + 1
  /\ \A j \in 1..Len(q) : q2[j] = q[j] /\ e2[j] = e[j]
  /\ q2[Len(q2)] = p /\ e2[Len(q2)] = m

Measured(q, e) == \A j \in 1..Len(q) : q[j] \in Nat /\ e[j] \in Nat \ {0}

(* The ring wraps: all entries are now in front of the end of the memory.   *)
LEMMA SpansWrap ==
  ASSUME NEW q, NEW e, NEW wr \in Nat, NEW old \in Nat, NEW un \in Nat, Len(q) \in Nat \ {0},
         Measured(q, e), Spans(q, e, wr, old, un, 0)
  PROVE  /\ Spans(q, e, hsize, hsize, wr, Len(q))
         /\ q[1] = hsize /\ hsize < wr
<1>1. /\ \A j \in 1..Len(q) :
           /\ q[j] = IF j = 1 THEN hsize ELSE q[j - 1] + e[j - 1]
           /\ hsize <= q[j] /\ q[j] + e[j] <= wr
      /\ q[Len(q)] + e[Len(q)] = wr
  BY DEF Spans, EndToEnd, Inside
<1>2. EndToEnd(q, e, hsize, hsize, wr, Len(q))
  BY <1>1 DEF EndToEnd
<1>3. Inside(q, e, hsize, hsize, wr, Len(q))
  BY <1>1 DEF Inside
<1>4. Apart(q, e, Len(q))
  <2>1. \A i, j \in 1..Len(q) : i < j => q[i] + e[i] <= q[j]
    BY DEF Spans, Apart
  <2> QED BY <2>1 DEF Apart
<1>5. q[1] = hsize /\ hsize < wr
  <2>1. q[1] = hsize /\ q[1] + e[1] <= wr /\ e[1] \in Nat \ {0}
    BY <1>1 DEF Measured
  <2> QED BY <2>1, SizeAssumption
<1> QED BY <1>2, <1>3, <1>4, <1>5 DEF Spans

(* Where the first entry is, and that it is the last of its part only when  *)
(* it ends where the part does.                                             *)
LEMMA SpansFirst ==
  ASSUME NEW q, NEW e, NEW wr \in Nat, NEW old \in Nat, NEW un \in Nat,
         NEW w \in 1..Len(q), Len(q) \in Nat \ {0},
         Measured(q, e), Spans(q, e, wr, old, un, w)
  PROVE  /\ q[1] = old /\ old < un /\ old + e[1] <= un
         /\ (old + e[1] = un) <=> (w = 1)
<1>1. q[1] = old /\ q[1] + e[1] <= un /\ e[1] \in Nat \ {0}
  BY DEF Spans, EndToEnd, Inside, Measured
<1>2. q[w] + e[w] = un /\ q[w] \in Nat /\ e[w] \in Nat \ {0}
  BY DEF Spans, EndToEnd, Measured
<1>3. w # 1 => q[1] + e[1] <= q[w]
  BY DEF Spans, Apart
<1> QED BY <1>1, <1>2, <1>3

LEMMA SpansDrop ==
  ASSUME NEW q, NEW e, NEW q2, NEW e2, NEW wr \in Nat, NEW old \in Nat, NEW un \in Nat,
         NEW w \in 1..Len(q),
         Measured(q, e), Spans(q, e, wr, old, un, w), Shorter(q, e, q2, e2)
  PROVE  IF old + e[1] = un THEN Spans(q2, e2, wr, size, size, 0)
                            ELSE Spans(q2, e2, wr, old + e[1], un, w - 1)
<1> DEFINE n == Len(q)
<1> DEFINE next == old + e[1]
<1>1. n \in Nat \ {0} /\ Len(q2) = n - 1 /\ w \in 1..n
  BY DEF Shorter
<1>2. \A j \in 1..n - 1 : q2[j] = q[j + 1] /\ e2[j] = e[j + 1]
  BY <1>1 DEF Shorter
<1>3. q[1] = old /\ old < un /\ next <= un /\ ((next = un) <=> (w = 1))
  BY <1>1, SpansFirst
<1>4. \A j \in 1..n : q[j] = IF j = w + 1 THEN hsize ELSE IF j = 1 THEN old ELSE q[j - 1] + e[j - 1]
  BY DEF Spans, EndToEnd
<1>5. q[w] + e[w] = un /\ IF w = n THEN wr = hsize ELSE q[n] + e[n] = wr
  BY DEF Spans, EndToEnd
<1>6. \A j \in 1..n : /\ j <= w => old <= q[j] /\ q[j] + e[j] <= un
                      /\ w < j => hsize <= q[j] /\ q[j] + e[j] <= wr
  BY DEF Spans, Inside
<1>7. \A i, j \in 1..n : i < j /\ (j <= w \/ w < i) => q[i] + e[i] <= q[j]
  BY DEF Spans, Apart
<1> HIDE DEF n, next
<1>8. \A j \in 1..n - 1 : j + 1 \in 1..n /\ j + 1 # 1 /\ (j + 1) - 1 = j
  BY <1>1
<1>9. Apart(q2, e2, w - 1)
  <2>1. SUFFICES ASSUME NEW i \in 1..n - 1, NEW j \in 1..n - 1, i < j, j <= w - 1 \/ w - 1 < i
                 PROVE  q2[i] + e2[i] <= q2[j]
    BY <1>1 DEF Apart
  <2>2. i + 1 \in 1..n /\ j + 1 \in 1..n /\ i + 1 < j + 1 /\ (j + 1 <= w \/ w < i + 1)
    BY <1>1, <2>1
  <2>3. q[i + 1] + e[i + 1] <= q[j + 1]
    BY <1>7, <2>2
  <2> QED BY <1>2, <2>3
<1>10. ASSUME NEW j \in 1..n - 1, j # w
       PROVE  q2[j] = IF j = 1 THEN next ELSE q2[j - 1] + e2[j - 1]
  <2>1. q2[j] = q[j] + e[j]
    <3>1. j + 1 \in 1..n /\ j + 1 # w + 1 /\ j + 1 # 1 /\ (j + 1) - 1 = j
      BY <1>1, <1>10
    <3>2. q[j + 1] = q[j] + e[j]
      BY <1>4, <3>1
    <3> QED BY <1>2, <3>2
  <2>2. CASE j = 1
    BY <1>3, <2>1, <2>2 DEF next
  <2>3. CASE j # 1
    <3>1. j - 1 \in 1..n - 1 /\ (j - 1) + 1 = j
      BY <1>1, <2>3
    <3>2. q2[j - 1] = q[j] /\ e2[j - 1] = e[j]
      BY <1>2, <3>1
    <3> QED BY <2>1, <2>3, <3>2
  <2> QED BY <2>2, <2>3
<1>11. w \in 1..n - 1 => q2[w] = hsize
  <2>1. SUFFICES ASSUME w \in 1..n - 1 PROVE q2[w] = hsize
    OBVIOUS
  <2>2. w + 1 \in 1..n
    BY <1>1, <2>1
  <2>3. q[w + 1] = hsize
    BY <1>4, <2>2
  <2> QED BY <1>2, <2>1, <2>3
<1>12. IF w - 1 = n - 1 THEN wr = hsize ELSE q2[n - 1] + e2[n - 1] = wr
  <2>1. CASE w = n
    BY <1>5, <2>1
  <2>2. CASE w # n
    <3>1. n - 1 \in 1..n - 1 /\ (n - 1) + 1 = n /\ w - 1 # n - 1
      BY <1>1, <2>2
    <3>2. q2[n - 1] = q[n] /\ e2[n - 1] = e[n]
      BY <1>2, <3>1
    <3> QED BY <1>5, <2>2, <3>1, <3>2
  <2> QED BY <2>1, <2>2
<1>13. ASSUME NEW j \in 1..n - 1
       PROVE  /\ j <= w - 1 => next <= q2[j] /\ q2[j] + e2[j] <= un
              /\ w - 1 < j => hsize <= q2[j] /\ q2[j] + e2[j] <= wr
  <2>1. j + 1 \in 1..n /\ 1 \in 1..n /\ 1 < j + 1 /\ (j <= w - 1 <=> j + 1 <= w) /\ (w - 1 < j <=> w < j + 1)
    BY <1>1
  <2>2. j + 1 <= w => q[1] + e[1] <= q[j + 1]
    BY <1>7, <2>1
  <2>3. /\ j + 1 <= w => q[j + 1] + e[j + 1] <= un
        /\ w < j + 1 => hsize <= q[j + 1] /\ q[j + 1] + e[j + 1] <= wr
    BY <1>6, <2>1
  <2>4. q2[j] = q[j + 1] /\ e2[j] = e[j + 1]
    BY <1>2
  <2> QED BY <1>3, <2>1, <2>2, <2>3, <2>4 DEF next
<1>14. CASE next = un
  <2>1. w = 1
    BY <1>3, <1>14
  <2>2. EndToEnd(q2, e2, wr, size, size, 0)
    <3>1. ASSUME NEW j \in 1..n - 1
          PROVE  q2[j] = IF j = 0 + 1 THEN hsize ELSE IF j = 1 THEN size ELSE q2[j - 1] + e2[j - 1]
      BY <1>10, <1>11, <2>1
    <3>2. IF 0 = n - 1 THEN wr = hsize ELSE q2[n - 1] + e2[n - 1] = wr
      BY <1>12, <2>1
    <3> QED BY <1>1, <3>1, <3>2 DEF EndToEnd
  <2>3. Inside(q2, e2, wr, size, size, 0)
    <3>1. \A j \in 1..n - 1 : ~(j <= 0) /\ 0 < j
      BY <1>1
    <3> QED BY <1>1, <1>13, <2>1, <3>1 DEF Inside
  <2>4. Apart(q2, e2, 0)
    BY <1>9, <2>1
  <2>5. 0 \in 0..Len(q2)
    BY <1>1
  <2> QED BY <1>14, <2>2, <2>3, <2>4, <2>5 DEF Spans, next
<1>15. CASE next # un
  <2>1. w - 1 \in 1..n - 1
    BY <1>1, <1>3, <1>15
  <2>2. EndToEnd(q2, e2, wr, next, un, w - 1)
    <3>1. ASSUME NEW j \in 1..n - 1
          PROVE  q2[j] = IF j = (w - 1) + 1 THEN hsize ELSE IF j = 1 THEN next ELSE q2[j - 1] + e2[j - 1]
      BY <1>1, <1>10, <1>11
    <3>2. w - 1 # 0 /\ q2[w - 1] + e2[w - 1] = un
      <4>1. q2[w - 1] = q[w] /\ e2[w - 1] = e[w]
        BY <1>1, <1>2, <2>1
      <4> QED BY <1>5, <2>1, <4>1
    <3> QED BY <1>1, <1>12, <3>1, <3>2 DEF EndToEnd
  <2>3. Inside(q2, e2, wr, next, un, w - 1)
    BY <1>1, <1>13 DEF Inside
  <2>4. w - 1 \in 0..Len(q2)
    BY <1>1
  <2> QED BY <1>9, <1>15, <2>2, <2>3, <2>4 DEF Spans, next
<1> QED BY <1>14, <1>15

LEMMA SpansAdd ==
  ASSUME NEW q, NEW e, NEW q2, NEW e2, NEW wr \in Nat, NEW old \in Nat, NEW un \in Nat,
         NEW w \in 0..Len(q), NEW m \in Nat \ {0}, hsize <= wr,
         Measured(q, e), Spans(q, e, wr, old, un, w), Longer(q, e, q2, e2, wr, m)
  PROVE  Spans(q2, e2, wr + m, old, un, w)
<1> DEFINE n == Len(q)
<1>1. n \in Nat /\ Len(q2) = n + 1 /\ w \in 0..n /\ hsize \in Nat
  BY SizeAssumption DEF Longer
<1>2. /\ \A j \in 1..n : q2[j] = q[j] /\ e2[j] = e[j]
      /\ q2[n + 1] = wr /\ e2[n + 1] = m
  BY <1>1 DEF Longer
<1>3. \A j \in 1..n : q[j] = IF j = w + 1 THEN hsize ELSE IF j = 1 THEN old ELSE q[j - 1] + e[j - 1]
  BY DEF Spans, EndToEnd
<1>4. /\ IF w = 0 THEN old = un ELSE q[w] + e[w] = un
      /\ IF w = n THEN wr = hsize ELSE q[n] + e[n] = wr
  BY DEF Spans, EndToEnd
<1>5. \A j \in 1..n : /\ j <= w => old <= q[j] /\ q[j] + e[j] <= un
                      /\ w < j => hsize <= q[j] /\ q[j] + e[j] <= wr
  BY DEF Spans, Inside
<1>6. \A i, j \in 1..n : i < j /\ (j <= w \/ w < i) => q[i] + e[i] <= q[j]
  BY DEF Spans, Apart
<1>7. \A j \in 1..n : q[j] \in Nat /\ e[j] \in Nat \ {0}
  BY DEF Measured
<1> HIDE DEF n
<1>8. EndToEnd(q2, e2, wr + m, old, un, w)
  <2>1. ASSUME NEW j \in 1..n + 1
        PROVE  q2[j] = IF j = w + 1 THEN hsize ELSE IF j = 1 THEN old ELSE q2[j - 1] + e2[j - 1]
    <3>1. CASE j \in 1..n
      <4>1. j # 1 => j - 1 \in 1..n
        BY <1>1, <3>1
      <4> QED BY <1>2, <1>3, <3>1, <4>1
    <3>2. CASE j = n + 1
      <4>1. CASE w = n
        BY <1>2, <1>4, <3>2, <4>1
      <4>2. CASE w # n
        <5>1. n \in 1..n /\ j # w + 1 /\ j # 1 /\ j - 1 = n
          BY <1>1, <3>2, <4>2
        <5> QED BY <1>2, <1>4, <3>2, <4>2, <5>1
      <4> QED BY <4>1, <4>2
    <3> QED BY <1>1, <3>1, <3>2
  <2>2. IF w = 0 THEN old = un ELSE q2[w] + e2[w] = un
    <3>1. w # 0 => w \in 1..n
      BY <1>1
    <3> QED BY <1>2, <1>4, <3>1
  <2>3. w # n + 1 /\ q2[n + 1] + e2[n + 1] = wr + m
    BY <1>1, <1>2
  <2> QED BY <1>1, <2>1, <2>2, <2>3 DEF EndToEnd
<1>9. Inside(q2, e2, wr + m, old, un, w)
  <2>1. ASSUME NEW j \in 1..n + 1
        PROVE  /\ j <= w => old <= q2[j] /\ q2[j] + e2[j] <= un
               /\ w < j => hsize <= q2[j] /\ q2[j] + e2[j] <= wr + m
    <3>1. CASE j \in 1..n
      <4>1. q2[j] = q[j] /\ e2[j] = e[j] /\ q[j] \in Nat /\ e[j] \in Nat
        BY <1>2, <1>7, <3>1
      <4>2. /\ j <= w => old <= q[j] /\ q[j] + e[j] <= un
            /\ w < j => hsize <= q[j] /\ q[j] + e[j] <= wr
        BY <1>5, <3>1
      <4> QED BY <4>1, <4>2
    <3>2. CASE j = n + 1
      <4>1. ~(j <= w)
        BY <1>1, <3>2
      <4> QED BY <1>2, <3>2, <4>1
    <3> QED BY <1>1, <3>1, <3>2
  <2> QED BY <1>1, <2>1 DEF Inside
<1>10. Apart(q2, e2, w)
  <2>1. SUFFICES ASSUME NEW i \in 1..n + 1, NEW j \in 1..n + 1, i < j, j <= w \/ w < i
                 PROVE  q2[i] + e2[i] <= q2[j]
    BY <1>1 DEF Apart
  <2>2. i \in 1..n
    BY <1>1, <2>1
  <2>3. CASE j \in 1..n
    <3>1. q[i] + e[i] <= q[j]
      BY <1>6, <2>1, <2>2, <2>3
    <3> QED BY <1>2, <2>2, <2>3, <3>1
  <2>4. CASE j = n + 1
    <3>1. w < i
      BY <1>1, <2>1, <2>4
    <3>2. q[i] + e[i] <= wr
      BY <1>5, <2>2, <3>1
    <3> QED BY <1>2, <2>2, <2>4, <3>2
  <2> QED BY <1>1, <2>3, <2>4
<1>11. w \in 0..Len(q2)
  BY <1>1
<1> QED BY <1>8, <1>9, <1>10, <1>11 DEF Spans

(* No two entries are at one place, and none is among the heads.            *)
LEMMA Placed ==
  ASSUME NEW q, NEW e, NEW wr, NEW old, NEW un, NEW w \in 0..Len(q), Len(q) \in Nat,
         Ordered(wr, old, un), Measured(q, e), Spans(q, e, wr, old, un, w)
  PROVE  /\ \A i, j \in 1..Len(q) : q[i] = q[j] => i = j
         /\ \A j \in 1..Len(q) : /\ q[j] \notin Heads /\ q[j] # 0 /\ hsize <= q[j]
                                 /\ q[j] + e[j] <= size
                                 /\ q[j] >= old \/ q[j] + e[j] <= wr
<1>1. hsize \in Nat \ {0} /\ size \in Nat /\ wr \in Nat /\ old \in Nat /\ un \in Nat
      /\ hsize <= wr /\ wr <= old /\ old <= un /\ un <= size
  BY SizeAssumption DEF Ordered
<1>2. ASSUME NEW j \in 1..Len(q)
      PROVE  /\ q[j] \in Nat /\ e[j] \in Nat \ {0}
             /\ j <= w => old <= q[j] /\ q[j] + e[j] <= un
             /\ w < j => hsize <= q[j] /\ q[j] + e[j] <= wr
  BY DEF Measured, Spans, Inside
<1>3. ASSUME NEW i \in 1..Len(q), NEW j \in 1..Len(q), i < j
      PROVE  q[i] # q[j]
  <2>1. /\ q[i] \in Nat /\ e[i] \in Nat \ {0} /\ q[j] \in Nat /\ e[j] \in Nat \ {0}
    BY <1>2
  <2>2. CASE j <= w \/ w < i
    <3>1. q[i] + e[i] <= q[j]
      BY <1>3, <2>2 DEF Spans, Apart
    <3> QED BY <2>1, <3>1
  <2>3. CASE i <= w /\ w < j
    <3>1. old <= q[i] /\ q[j] + e[j] <= wr
      BY <1>2, <2>3
    <3> QED BY <1>1, <2>1, <3>1
  <2>4. i \in Int /\ j \in Int /\ w \in Int
    OBVIOUS
  <2> QED BY <1>3, <2>2, <2>3, <2>4
<1>4. \A i, j \in 1..Len(q) : q[i] = q[j] => i = j
  <2>1. \A i, j \in 1..Len(q) : i < j \/ j < i \/ i = j
    OBVIOUS
  <2> QED BY <1>3, <2>1
<1>5. ASSUME NEW j \in 1..Len(q)
      PROVE  /\ q[j] \notin Heads /\ q[j] # 0 /\ hsize <= q[j]
             /\ q[j] + e[j] <= size
             /\ q[j] >= old \/ q[j] + e[j] <= wr
  <2>1. /\ q[j] \in Nat /\ e[j] \in Nat \ {0}
        /\ j <= w => old <= q[j] /\ q[j] + e[j] <= un
        /\ w < j => hsize <= q[j] /\ q[j] + e[j] <= wr
    BY <1>2
  <2>2. j <= w \/ w < j
    OBVIOUS
  <2>3. /\ hsize <= q[j] /\ q[j] + e[j] <= size
        /\ q[j] >= old \/ q[j] + e[j] <= wr
    BY <1>1, <2>1, <2>2
  <2>4. \A h \in Heads : h < hsize /\ h \in Nat
    BY XorFacts
  <2> QED BY <1>1, <2>1, <2>3, <2>4
<1> QED BY <1>4, <1>5

-----------------------------------------------------------------------------
(* The chains                                                               *)

(* A sequence of entries at different places, each in a bucket.             *)
Laid(q, b) ==
  /\ Len(q) \in Nat
  /\ \A j \in 1..Len(q) : q[j] \in Positions /\ q[j] # 0 /\ q[j] \notin Heads /\ b[j] \in Heads
  /\ \A i, j \in 1..Len(q) : q[i] = q[j] => i = j

(* There is one entry in front of an entry, and one that it is in front of. *)
LEMMA NewerOnce ==
  ASSUME NEW b, NEW n \in Nat, NEW i \in 1..n, NEW j \in 1..n, NEW l \in 1..n
  PROVE  /\ Newer(b, j, i) /\ Newer(b, j, l) => i = l
         /\ Newer(b, i, j) /\ Newer(b, l, j) => i = l
<1>1. i < l \/ l < i \/ i = l
  OBVIOUS
<1>2. Newer(b, j, i) /\ Newer(b, j, l) => i = l
  <2>1. ASSUME NEW x \in 1..n, NEW y \in 1..n, Newer(b, j, x), Newer(b, j, y), x < y
        PROVE  FALSE
    <3>1. x \in j + 1..y - 1
      BY <2>1 DEF Newer
    <3> QED BY <2>1, <3>1 DEF Newer
  <2> QED BY <1>1, <2>1
<1>3. Newer(b, i, j) /\ Newer(b, l, j) => i = l
  <2>1. ASSUME NEW x \in 1..n, NEW y \in 1..n, Newer(b, x, j), Newer(b, y, j), x < y
        PROVE  FALSE
    <3>1. y \in x + 1..j - 1
      BY <2>1 DEF Newer
    <3>2. b[y] # b[x] /\ b[j] = b[x] /\ b[j] = b[y]
      BY <2>1, <3>1 DEF Newer
    <3> QED BY <3>2
  <2> QED BY <1>1, <2>1
<1> QED BY <1>2, <1>3

LEMMA FirstOnce ==
  ASSUME NEW q, NEW b, NEW h, Len(q) \in Nat, NEW i \in 1..Len(q), NEW j \in 1..Len(q),
         First(q, b, h, i), First(q, b, h, j)
  PROVE  i = j
<1>1. ASSUME NEW x \in 1..Len(q), NEW y \in 1..Len(q), First(q, b, h, x), First(q, b, h, y), x < y
      PROVE  FALSE
  <2>1. y \in x + 1..Len(q)
    BY <1>1
  <2> QED BY <1>1, <2>1 DEF First
<1> QED BY <1>1

(* What is in front of an entry and what is behind it are positions.        *)
LEMMA AheadIs ==
  ASSUME NEW q, NEW b, Laid(q, b), NEW j \in 1..Len(q)
  PROVE  /\ \E f \in Positions : Ahead(q, b, j, f)
         /\ \E g \in Positions : Beneath(q, b, j, g)
         /\ \A f : Ahead(q, b, j, f) => f \in Positions /\ f \in Heads \cup {q[i] : i \in 1..Len(q)}
         /\ \A g : Beneath(q, b, j, g) => g \in Positions
<1>1. b[j] \in Heads /\ Heads \subseteq Positions /\ 0 \in Positions
      /\ \A i \in 1..Len(q) : q[i] \in Positions
  BY XorFacts DEF Laid
<1>2. \A f : Ahead(q, b, j, f) => f \in Positions /\ f \in Heads \cup {q[i] : i \in 1..Len(q)}
  BY <1>1 DEF Ahead
<1>3. \A g : Beneath(q, b, j, g) => g \in Positions
  BY <1>1 DEF Beneath
<1>4. \E f : Ahead(q, b, j, f)
  <2>1. CASE \E i \in 1..Len(q) : Newer(b, j, i)
    <3>1. PICK i \in 1..Len(q) : Newer(b, j, i)
      BY <2>1
    <3>2. Ahead(q, b, j, q[i])
      BY <3>1 DEF Ahead
    <3> QED BY <3>2
  <2>2. CASE ~\E i \in 1..Len(q) : Newer(b, j, i)
    <3>1. Ahead(q, b, j, b[j])
      BY <2>2 DEF Ahead
    <3> QED BY <3>1
  <2> QED BY <2>1, <2>2
<1>5. \E g : Beneath(q, b, j, g)
  <2>1. CASE \E i \in 1..Len(q) : Newer(b, i, j)
    <3>1. PICK i \in 1..Len(q) : Newer(b, i, j)
      BY <2>1
    <3>2. Beneath(q, b, j, q[i])
      BY <3>1 DEF Beneath
    <3> QED BY <3>2
  <2>2. CASE ~\E i \in 1..Len(q) : Newer(b, i, j)
    <3>1. Beneath(q, b, j, 0)
      BY <2>2 DEF Beneath
    <3> QED BY <3>1
  <2> QED BY <2>1, <2>2
<1> QED BY <1>2, <1>3, <1>4, <1>5

(* ... and there is only one of each.                                       *)
LEMMA AheadOnce ==
  ASSUME NEW q, NEW b, Laid(q, b), NEW j \in 1..Len(q)
  PROVE  /\ \A f, g : Ahead(q, b, j, f) /\ Ahead(q, b, j, g) => f = g
         /\ \A f, g : Beneath(q, b, j, f) /\ Beneath(q, b, j, g) => f = g
<1>1. /\ \A i, l \in 1..Len(q) : Newer(b, j, i) /\ Newer(b, j, l) => i = l
      /\ \A i, l \in 1..Len(q) : Newer(b, i, j) /\ Newer(b, l, j) => i = l
  BY NewerOnce DEF Laid
<1>2. \A f, g : Ahead(q, b, j, f) /\ Ahead(q, b, j, g) => f = g
  BY <1>1 DEF Ahead
<1>3. \A f, g : Beneath(q, b, j, f) /\ Beneath(q, b, j, g) => f = g
  BY <1>1 DEF Beneath
<1> QED BY <1>2, <1>3

-----------------------------------------------------------------------------
(* The oldest entry is taken off its chain                                  *)

(* What has been said of the entries holds when they are counted from 2.    *)
LEMMA NewerShorter ==
  ASSUME NEW b, NEW b2, NEW n \in Nat \ {0},
         \A l \in 1..n - 1 : b2[l] = b[l + 1],
         NEW j \in 1..n - 1, NEW i \in 1..n - 1
  PROVE  Newer(b2, j, i) <=> Newer(b, j + 1, i + 1)
<1>1. b2[i] = b[i + 1] /\ b2[j] = b[j + 1] /\ (j < i <=> j + 1 < i + 1)
  OBVIOUS
<1>2. ASSUME \A l \in j + 1..i - 1 : b2[l] # b2[j], NEW l \in (j + 1) + 1..(i + 1) - 1
      PROVE  b[l] # b[j + 1]
  <2>1. l - 1 \in j + 1..i - 1 /\ l - 1 \in 1..n - 1 /\ (l - 1) + 1 = l
    OBVIOUS
  <2>2. b2[l - 1] = b[l]
    BY <2>1
  <2> QED BY <1>1, <1>2, <2>1, <2>2
<1>3. ASSUME \A l \in (j + 1) + 1..(i + 1) - 1 : b[l] # b[j + 1], NEW l \in j + 1..i - 1
      PROVE  b2[l] # b2[j]
  <2>1. l + 1 \in (j + 1) + 1..(i + 1) - 1 /\ l \in 1..n - 1
    OBVIOUS
  <2>2. b2[l] = b[l + 1]
    BY <2>1
  <2> QED BY <1>1, <1>3, <2>1, <2>2
<1> QED BY <1>1, <1>2, <1>3 DEF Newer

LEMMA FirstShorter ==
  ASSUME NEW q, NEW b, NEW q2, NEW b2, NEW h, Shorter(q, b, q2, b2), NEW j \in 1..Len(q2)
  PROVE  First(q2, b2, h, j) <=> First(q, b, h, j + 1)
<1> DEFINE n == Len(q)
<1>1. n \in Nat \ {0} /\ Len(q2) = n - 1 /\ \A l \in 1..n - 1 : b2[l] = b[l + 1]
  BY DEF Shorter
<1> HIDE DEF n
<1>2. b2[j] = b[j + 1] /\ j \in 1..n - 1
  BY <1>1
<1>3. ASSUME \A l \in j + 1..n - 1 : b2[l] # h, NEW l \in (j + 1) + 1..n
      PROVE  b[l] # h
  <2>1. l - 1 \in j + 1..n - 1 /\ l - 1 \in 1..n - 1 /\ (l - 1) + 1 = l
    BY <1>1, <1>2
  <2>2. b2[l - 1] = b[l]
    BY <1>1, <2>1
  <2> QED BY <1>3, <2>1, <2>2
<1>4. ASSUME \A l \in (j + 1) + 1..n : b[l] # h, NEW l \in j + 1..n - 1
      PROVE  b2[l] # h
  <2>1. l + 1 \in (j + 1) + 1..n /\ l \in 1..n - 1
    BY <1>1, <1>2
  <2>2. b2[l] = b[l + 1]
    BY <1>1, <2>1
  <2> QED BY <1>4, <2>1, <2>2
<1> QED BY <1>1, <1>2, <1>3, <1>4 DEF First, n

LEMMA NeighboursShorter ==
  ASSUME NEW q, NEW b, NEW q2, NEW b2, Shorter(q, b, q2, b2), Neighbours(q, b)
  PROVE  Neighbours(q2, b2)
<1> DEFINE n == Len(q)
<1>1. n \in Nat \ {0} /\ Len(q2) = n - 1 /\ \A l \in 1..n - 1 : b2[l] = b[l + 1]
  BY DEF Shorter
<1>2. \A j, i \in 1..n - 1 : Newer(b2, j, i) <=> Newer(b, j + 1, i + 1)
  BY <1>1, NewerShorter
<1>3. \A h : \A j \in 1..n - 1 : First(q2, b2, h, j) <=> First(q, b, h, j + 1)
  BY <1>1, FirstShorter
<1>4. /\ \A j, l \in 1..n : j < l /\ b[j] = b[l] =>
           /\ \E i \in 1..n : i <= l /\ Newer(b, j, i)
           /\ \E i \in 1..n : j <= i /\ Newer(b, i, l)
      /\ \A j \in 1..n : \E i \in 1..n : j <= i /\ First(q, b, b[j], i)
  BY DEF Neighbours
<1> HIDE DEF n
<1>5. \A i \in 1..n : i # 1 => i - 1 \in 1..n - 1 /\ (i - 1) + 1 = i
  BY <1>1
<1>6. ASSUME NEW j \in 1..n - 1, NEW l \in 1..n - 1, j < l, b2[j] = b2[l]
      PROVE  /\ \E i \in 1..n - 1 : i <= l /\ Newer(b2, j, i)
             /\ \E i \in 1..n - 1 : j <= i /\ Newer(b2, i, l)
  <2>1. j + 1 \in 1..n /\ l + 1 \in 1..n /\ j + 1 < l + 1 /\ b[j + 1] = b[l + 1]
    BY <1>1, <1>6
  <2>2. PICK i \in 1..n : i <= l + 1 /\ Newer(b, j + 1, i)
    BY <1>4, <2>1
  <2>3. PICK m \in 1..n : j + 1 <= m /\ Newer(b, m, l + 1)
    BY <1>4, <2>1
  <2>4. i # 1 /\ m # 1
    BY <1>1, <2>2, <2>3 DEF Newer
  <2>5. i - 1 \in 1..n - 1 /\ i - 1 <= l /\ Newer(b2, j, i - 1)
    <3>1. i - 1 \in 1..n - 1 /\ (i - 1) + 1 = i
      BY <1>5, <2>4
    <3>2. Newer(b2, j, i - 1) <=> Newer(b, j + 1, (i - 1) + 1)
      BY <1>2, <3>1
    <3>3. i - 1 <= l
      BY <1>1, <2>2
    <3> QED BY <2>2, <3>1, <3>2, <3>3
  <2>6. m - 1 \in 1..n - 1 /\ j <= m - 1 /\ Newer(b2, m - 1, l)
    <3>1. m - 1 \in 1..n - 1 /\ (m - 1) + 1 = m
      BY <1>5, <2>4
    <3>2. Newer(b2, m - 1, l) <=> Newer(b, (m - 1) + 1, l + 1)
      BY <1>2, <3>1
    <3>3. j <= m - 1
      BY <1>1, <2>3
    <3> QED BY <2>3, <3>1, <3>2, <3>3
  <2> QED BY <2>5, <2>6
<1>7. ASSUME NEW j \in 1..n - 1
      PROVE  \E i \in 1..n - 1 : j <= i /\ First(q2, b2, b2[j], i)
  <2>1. j + 1 \in 1..n /\ b2[j] = b[j + 1]
    BY <1>1
  <2>2. PICK i \in 1..n : j + 1 <= i /\ First(q, b, b2[j], i)
    BY <1>4, <2>1
  <2>3. i - 1 \in 1..n - 1 /\ (i - 1) + 1 = i /\ j <= i - 1
    BY <1>1, <2>2
  <2>4. First(q2, b2, b2[j], i - 1) <=> First(q, b, b2[j], (i - 1) + 1)
    BY <1>3, <2>3
  <2> QED BY <2>2, <2>3, <2>4
<1> QED BY <1>1, <1>6, <1>7 DEF Neighbours

Held(q, lk)     == DOMAIN lk = Heads \cup {q[j] : j \in 1..Len(q)}
Dropped(lk, o)  == [p \in DOMAIN lk \ {o} |-> IF p = lk[o] THEN xor(lk[p], o) ELSE lk[p]]
Added(lk, p, h) ==
  [r \in DOMAIN lk \cup {p} |->
     CASE r = h                  -> p
       [] r = p                  -> xor(lk[h], h)
       [] r = lk[h] /\ lk[h] # 0 -> xor(xor(lk[r], h), p)
       [] OTHER                  -> lk[r]]

LEMMA LinkageDrop ==
  ASSUME NEW q, NEW b, NEW q2, NEW b2, NEW lk, NEW lk2,
         Laid(q, b), Laid(q2, b2), Shorter(q, b, q2, b2), Linkage(q, b, lk),
         Held(q, lk), lk2 = Dropped(lk, q[1])
  PROVE  Linkage(q2, b2, lk2) /\ lk[q[1]] \in Heads \cup {q[j] : j \in 1..Len(q)}
<1> USE DEF Held, Dropped
<1>1. PICK n \in Nat \ {0} : n = Len(q)
  BY DEF Shorter
<1>2. PICK o : o = q[1]
  OBVIOUS
<1>3. /\ Len(q2) = n - 1
      /\ \A j \in 1..n - 1 : q2[j] = q[j + 1] /\ b2[j] = b[j + 1]
  BY <1>1 DEF Shorter
<1>4. /\ \A j \in 1..n : q[j] \in Positions /\ q[j] # 0 /\ q[j] \notin Heads /\ b[j] \in Heads
      /\ \A i, j \in 1..n : q[i] = q[j] => i = j
      /\ o \in Positions /\ 1 \in 1..n
  BY <1>1, <1>2 DEF Laid
<1>5. \A j \in 1..n : \A f, g \in Positions :
        Ahead(q, b, j, f) /\ Beneath(q, b, j, g) => lk[q[j]] = xor(f, g)
  BY <1>1 DEF Linkage, EntriesLinked
<1>6. \A h \in Heads : /\ \A j \in 1..n : First(q, b, h, j) => lk[h] = q[j]
                       /\ (\A j \in 1..n : ~First(q, b, h, j)) => lk[h] = 0
  BY <1>1 DEF Linkage, HeadsLinked
<1>7. /\ \A l \in 1..n : 1 < l /\ b[1] = b[l] => \E i \in 1..n : Newer(b, 1, i)
      /\ \E i \in 1..n : First(q, b, b[1], i)
  BY <1>1, <1>4 DEF Linkage, Neighbours
<1>8. \A i, j \in 1..n - 1 : Newer(b2, j, i) <=> Newer(b, j + 1, i + 1)
  BY <1>1, <1>3, NewerShorter
<1>9. \A h : \A j \in 1..n - 1 : First(q2, b2, h, j) <=> First(q, b, h, j + 1)
  BY <1>3, FirstShorter
<1>10. \A j \in 1..n - 1 : j + 1 \in 1..n /\ j + 1 # 1 /\ 1 < j + 1
  BY <1>1
<1>11. \A i \in 1..n : i # 1 => i - 1 \in 1..n - 1 /\ (i - 1) + 1 = i
  BY <1>1
<1>12. PICK f \in Positions : Ahead(q, b, 1, f)
  BY <1>1, <1>4, AheadIs
<1>13. lk[o] = f /\ f \in Heads \cup {q[j] : j \in 1..n}
  <2>1. Beneath(q, b, 1, 0)
    BY <1>1 DEF Beneath, Newer
  <2>2. lk[o] = xor(f, 0)
    BY <1>2, <1>4, <1>5, <1>12, <2>1, XorFacts
  <2>3. f \in Heads \cup {q[j] : j \in 1..n}
    BY <1>1, <1>4, <1>12, AheadIs
  <2> QED BY <2>2, <2>3, XorFacts
<1>14. \A p \in Heads \cup {q[j] : j \in 2..n} :
         lk2[p] = IF p = f THEN xor(lk[p], o) ELSE lk[p]
  <2>1. SUFFICES ASSUME NEW p \in Heads \cup {q[j] : j \in 2..n}
                 PROVE  p \in DOMAIN lk \ {o}
    BY <1>2, <1>13
  <2>2. CASE p \in Heads
    BY <1>2, <1>4, <2>2
  <2>3. CASE p \in {q[j] : j \in 2..n}
    <3>1. PICK j \in 2..n : p = q[j]
      BY <2>3
    <3>2. j \in 1..n /\ j # 1
      BY <1>1
    <3> QED BY <1>1, <1>2, <1>4, <3>1, <3>2
  <2> QED BY <2>1, <2>2, <2>3
<1>15. Laid(q, b)
  OBVIOUS
<1>16. EntriesLinked(q2, b2, lk2)
  <2>1. SUFFICES ASSUME NEW j \in 1..n - 1, NEW f2 \in Positions, NEW g2 \in Positions,
                        Ahead(q2, b2, j, f2), Beneath(q2, b2, j, g2)
                 PROVE  lk2[q2[j]] = xor(f2, g2)
    <3>1. ASSUME \A j \in 1..n - 1 : \A f2, g2 \in Positions :
                   Ahead(q2, b2, j, f2) /\ Beneath(q2, b2, j, g2) => lk2[q2[j]] = xor(f2, g2)
          PROVE  EntriesLinked(q2, b2, lk2)
      BY <1>3, <3>1, Zenon DEF EntriesLinked
    <3> QED BY <3>1
  <2>2. j + 1 \in 1..n /\ j + 1 # 1 /\ j + 1 \in 2..n /\ q2[j] = q[j + 1] /\ b2[j] = b[j + 1]
    BY <1>1, <1>3
  <2>3. Ahead(q, b, j + 1, f2)
    <3>1. CASE \E i \in 1..n - 1 : Newer(b2, j, i) /\ f2 = q2[i]
      <4>1. PICK i \in 1..n - 1 : Newer(b2, j, i) /\ f2 = q2[i]
        BY <3>1
      <4>2. i + 1 \in 1..n /\ Newer(b, j + 1, i + 1) /\ f2 = q[i + 1]
        BY <1>3, <1>8, <1>10, <4>1
      <4> QED BY <1>1, <4>2 DEF Ahead
    <3>2. CASE f2 = b2[j] /\ \A i \in 1..n - 1 : ~Newer(b2, j, i)
      <4>1. ASSUME NEW i \in 1..n, Newer(b, j + 1, i) PROVE FALSE
        <5>1. i # 1
          BY <2>2, <4>1 DEF Newer
        <5>2. i - 1 \in 1..n - 1 /\ (i - 1) + 1 = i
          BY <1>11, <5>1
        <5>3. Newer(b2, j, i - 1) <=> Newer(b, j + 1, (i - 1) + 1)
          BY <1>8, <5>2
        <5> QED BY <3>2, <4>1, <5>2, <5>3
      <4> QED BY <1>1, <2>2, <3>2, <4>1 DEF Ahead
    <3> QED BY <1>3, <2>1, <3>1, <3>2 DEF Ahead
  <2>4. CASE Newer(b, 1, j + 1)
    <3>1. f = q[j + 1]
      <4>1. Ahead(q, b, 1, q[j + 1])
        BY <1>1, <2>2, <2>4 DEF Ahead
      <4> QED BY <1>1, <1>4, <1>12, <1>15, <4>1, AheadOnce
    <3>2. lk[q[j + 1]] = xor(f2, o)
      <4>1. Beneath(q, b, j + 1, o)
        BY <1>1, <1>2, <1>4, <2>4 DEF Beneath
      <4> QED BY <1>4, <1>5, <2>2, <2>3, <4>1
    <3>3. g2 = 0
      <4>1. ASSUME NEW i \in 1..n - 1, Newer(b2, i, j) PROVE FALSE
        <5>1. Newer(b, i + 1, j + 1) /\ i + 1 \in 1..n /\ i + 1 # 1
          BY <1>8, <1>10, <4>1
        <5>2. i + 1 = 1
          BY <1>4, <2>2, <2>4, <5>1, NewerOnce
        <5> QED BY <5>1, <5>2
      <4> QED BY <1>3, <2>1, <4>1 DEF Beneath
    <3>4. lk2[q[j + 1]] = xor(lk[q[j + 1]], o)
      BY <1>14, <2>2, <3>1
    <3> QED BY <1>4, <2>2, <3>2, <3>3, <3>4, XorFacts
  <2>5. CASE ~Newer(b, 1, j + 1)
    <3>1. f # q[j + 1]
      <4>1. CASE \E i \in 1..n : Newer(b, 1, i) /\ f = q[i]
        BY <1>4, <2>2, <2>5, <4>1
      <4>2. CASE f = b[1]
        BY <1>4, <2>2, <4>2
      <4> QED BY <1>1, <1>12, <4>1, <4>2 DEF Ahead
    <3>2. Beneath(q, b, j + 1, g2)
      <4>1. CASE \E i \in 1..n - 1 : Newer(b2, i, j) /\ g2 = q2[i]
        <5>1. PICK i \in 1..n - 1 : Newer(b2, i, j) /\ g2 = q2[i]
          BY <4>1
        <5>2. i + 1 \in 1..n /\ Newer(b, i + 1, j + 1) /\ g2 = q[i + 1]
          BY <1>3, <1>8, <1>10, <5>1
        <5> QED BY <1>1, <5>2 DEF Beneath
      <4>2. CASE g2 = 0 /\ \A i \in 1..n - 1 : ~Newer(b2, i, j)
        <5>1. ASSUME NEW i \in 1..n, Newer(b, i, j + 1) PROVE FALSE
          <6>1. i # 1
            BY <2>5, <5>1
          <6>2. i - 1 \in 1..n - 1 /\ (i - 1) + 1 = i
            BY <1>11, <6>1
          <6>3. Newer(b2, i - 1, j) <=> Newer(b, (i - 1) + 1, j + 1)
            BY <1>8, <6>2
          <6> QED BY <4>2, <5>1, <6>2, <6>3
        <5> QED BY <1>1, <4>2, <5>1 DEF Beneath
      <4> QED BY <1>3, <2>1, <4>1, <4>2 DEF Beneath
    <3>3. lk2[q[j + 1]] = lk[q[j + 1]]
      BY <1>14, <2>2, <3>1
    <3> QED BY <1>5, <2>2, <2>3, <3>2, <3>3
  <2> QED BY <2>4, <2>5
<1>17. HeadsLinked(q2, b2, lk2)
  <2>1. SUFFICES ASSUME NEW h \in Heads
                 PROVE  /\ \A j \in 1..n - 1 : First(q2, b2, h, j) => lk2[h] = q2[j]
                        /\ (\A j \in 1..n - 1 : ~First(q2, b2, h, j)) => lk2[h] = 0
    BY <1>3 DEF HeadsLinked
  <2>2. lk2[h] = IF h = f THEN xor(lk[h], o) ELSE lk[h]
    BY <1>14
  <2>3. h = f => h = b[1] /\ \A i \in 1..n : ~Newer(b, 1, i)
    BY <1>1, <1>4, <1>12 DEF Ahead
  <2>4. ASSUME NEW j \in 1..n - 1, First(q2, b2, h, j)
        PROVE  lk2[h] = q2[j]
    <3>1. j + 1 \in 1..n /\ First(q, b, h, j + 1) /\ q2[j] = q[j + 1] /\ 1 < j + 1
      BY <1>3, <1>9, <1>10, <2>4
    <3>2. b[j + 1] = h
      BY <3>1 DEF First
    <3>3. h # f
      BY <1>7, <2>3, <3>1, <3>2
    <3> QED BY <1>6, <2>2, <3>1, <3>3
  <2>5. ASSUME \A j \in 1..n - 1 : ~First(q2, b2, h, j)
        PROVE  lk2[h] = 0
    <3>1. \A i \in 1..n : i # 1 => ~First(q, b, h, i)
      <4>1. SUFFICES ASSUME NEW i \in 1..n, i # 1, First(q, b, h, i) PROVE FALSE
        OBVIOUS
      <4>2. i - 1 \in 1..n - 1 /\ (i - 1) + 1 = i
        BY <1>11, <4>1
      <4>3. First(q2, b2, h, i - 1) <=> First(q, b, h, (i - 1) + 1)
        BY <1>9, <4>2
      <4> QED BY <2>5, <4>1, <4>2, <4>3
    <3>2. CASE First(q, b, h, 1)
      <4>1. lk[h] = o
        BY <1>2, <1>4, <1>6, <3>2
      <4>2. Ahead(q, b, 1, h)
        <5>1. b[1] = h /\ \A l \in 2..n : b[l] # h
          BY <1>1, <3>2 DEF First
        <5>2. \A i \in 1..n : ~Newer(b, 1, i)
          BY <1>1, <5>1 DEF Newer
        <5> QED BY <1>1, <5>1, <5>2 DEF Ahead
      <4>3. h = f
        BY <1>1, <1>4, <1>12, <1>15, <4>2, AheadOnce
      <4> QED BY <1>4, <2>2, <4>1, <4>3, XorFacts
    <3>3. CASE ~First(q, b, h, 1)
      <4>1. lk[h] = 0 /\ \A i \in 1..n : ~First(q, b, h, i)
        BY <1>6, <3>1, <3>3
      <4>2. h # f
        BY <1>7, <2>3, <4>1
      <4> QED BY <2>2, <4>1, <4>2
    <3> QED BY <3>2, <3>3
  <2> QED BY <2>4, <2>5
<1>18. Neighbours(q2, b2)
  BY NeighboursShorter DEF Linkage
<1> QED BY <1>1, <1>2, <1>13, <1>16, <1>17, <1>18 DEF Linkage

-----------------------------------------------------------------------------
(* The newest entry is put behind the head of its chain                     *)

LEMMA NewerLonger ==
  ASSUME NEW q, NEW b, NEW q2, NEW b2, NEW p, NEW h, Longer(q, b, q2, b2, p, h),
         NEW j \in 1..Len(q)
  PROVE  /\ \A i \in 1..Len(q) : Newer(b2, j, i) <=> Newer(b, j, i)
         /\ Newer(b2, j, Len(q) + 1) <=> First(q, b, h, j)
         /\ ~Newer(b2, Len(q) + 1, j)
<1>1. PICK n \in Nat : n = Len(q)
  BY DEF Longer
<1>2. (\A l \in 1..n : b2[l] = b[l]) /\ b2[n + 1] = h /\ j \in 1..n
  BY <1>1 DEF Longer
<1>3. \A i \in 1..n : Newer(b2, j, i) <=> Newer(b, j, i)
  BY <1>1, <1>2 DEF Newer
<1>4. Newer(b2, j, n + 1) <=> First(q, b, h, j)
  <2>1. (n + 1) - 1 = n /\ j < n + 1
    BY <1>1, <1>2
  <2>2. \A l \in j + 1..n : l \in 1..n
    BY <1>1, <1>2
  <2>3. Newer(b2, j, n + 1) <=> h = b[j] /\ \A l \in j + 1..n : b[l] # b[j]
    BY <1>2, <2>1, <2>2 DEF Newer
  <2> QED BY <1>1, <2>3 DEF First
<1>5. ~Newer(b2, n + 1, j)
  BY <1>1, <1>2 DEF Newer
<1> QED BY <1>1, <1>3, <1>4, <1>5

LEMMA FirstLonger ==
  ASSUME NEW q, NEW b, NEW q2, NEW b2, NEW p, NEW h, Longer(q, b, q2, b2, p, h)
  PROVE  First(q2, b2, h, Len(q) + 1)
<1>1. PICK n \in Nat : n = Len(q)
  BY DEF Longer
<1>2. b2[n + 1] = h /\ Len(q2) = n + 1
  BY <1>1 DEF Longer
<1> QED BY <1>1, <1>2 DEF First

LEMMA OthersFirst ==
  ASSUME NEW q, NEW b, NEW q2, NEW b2, NEW p, NEW h, Longer(q, b, q2, b2, p, h), NEW g, g # h
  PROVE  /\ ~First(q2, b2, g, Len(q) + 1)
         /\ \A j \in 1..Len(q) : First(q2, b2, g, j) <=> First(q, b, g, j)
<1>1. PICK n \in Nat : n = Len(q)
  BY DEF Longer
<1>2. (\A l \in 1..n : b2[l] = b[l]) /\ b2[n + 1] = h /\ Len(q2) = n + 1
  BY <1>1 DEF Longer
<1>3. ~First(q2, b2, g, n + 1)
  BY <1>2 DEF First
<1>4. ASSUME NEW j \in 1..n
      PROVE  First(q2, b2, g, j) <=> First(q, b, g, j)
  <2>1. \A l \in j + 1..n + 1 : l = n + 1 \/ l \in j + 1..n
    BY <1>1
  <2>2. \A l \in j + 1..n : l \in j + 1..n + 1 /\ l \in 1..n
    BY <1>1
  <2> QED BY <1>1, <1>2, <2>1, <2>2 DEF First
<1> QED BY <1>1, <1>3, <1>4

LEMMA NeighboursLonger ==
  ASSUME NEW q, NEW b, NEW q2, NEW b2, NEW p, NEW h, Longer(q, b, q2, b2, p, h),
         Neighbours(q, b)
  PROVE  Neighbours(q2, b2)
<1>1. PICK n \in Nat : n = Len(q)
  BY DEF Longer
<1>2. (\A l \in 1..n : b2[l] = b[l]) /\ b2[n + 1] = h /\ Len(q2) = n + 1
  BY <1>1 DEF Longer
<1>3. \A j \in 1..n : /\ \A i \in 1..n : Newer(b2, j, i) <=> Newer(b, j, i)
                      /\ Newer(b2, j, n + 1) <=> First(q, b, h, j)
  BY <1>1, NewerLonger
<1>4. /\ First(q2, b2, h, n + 1)
      /\ \A g : g # h => \A j \in 1..n : First(q2, b2, g, j) <=> First(q, b, g, j)
  <2>1. First(q2, b2, h, n + 1)
    BY <1>1, FirstLonger
  <2>2. ASSUME NEW g, g # h
        PROVE  \A j \in 1..n : First(q2, b2, g, j) <=> First(q, b, g, j)
    <3>1. \A j \in 1..Len(q) : First(q2, b2, g, j) <=> First(q, b, g, j)
      BY <2>2, OthersFirst
    <3> QED BY <1>1, <3>1
  <2> QED BY <2>1, <2>2
<1>5. /\ \A j, l \in 1..n : j < l /\ b[j] = b[l] =>
           /\ \E i \in 1..n : i <= l /\ Newer(b, j, i)
           /\ \E i \in 1..n : j <= i /\ Newer(b, i, l)
      /\ \A j \in 1..n : \E i \in 1..n : j <= i /\ First(q, b, b[j], i)
  BY <1>1 DEF Neighbours
<1>6. ASSUME NEW j \in 1..n + 1, NEW l \in 1..n + 1, j < l, b2[j] = b2[l]
      PROVE  /\ \E i \in 1..n + 1 : i <= l /\ Newer(b2, j, i)
             /\ \E i \in 1..n + 1 : j <= i /\ Newer(b2, i, l)
  <2>1. j \in 1..n /\ b2[j] = b[j]
    BY <1>1, <1>2, <1>6
  <2>2. CASE l \in 1..n
    <3>1. b[j] = b[l]
      BY <1>2, <1>6, <2>1, <2>2
    <3>2. PICK i \in 1..n, m \in 1..n : i <= l /\ Newer(b, j, i) /\ j <= m /\ Newer(b, m, l)
      BY <1>5, <1>6, <2>1, <2>2, <3>1
    <3>3. i \in 1..n + 1 /\ m \in 1..n + 1 /\ Newer(b2, j, i) /\ Newer(b2, m, l)
      BY <1>1, <1>3, <2>1, <2>2, <3>2
    <3> QED BY <3>2, <3>3
  <2>3. CASE l = n + 1
    <3>1. b[j] = h
      BY <1>2, <1>6, <2>1, <2>3
    <3>2. PICK m \in 1..n : j <= m /\ First(q, b, h, m)
      BY <1>5, <2>1, <3>1
    <3>3. m \in 1..n + 1 /\ Newer(b2, m, l)
      BY <1>1, <1>3, <2>3, <3>2
    <3>4. \E i \in 1..n + 1 : i <= l /\ Newer(b2, j, i)
      <4>1. CASE First(q, b, h, j)
        <5>1. n + 1 \in 1..n + 1 /\ n + 1 <= l
          BY <1>1, <2>3
        <5> QED BY <1>3, <2>1, <4>1, <5>1
      <4>2. CASE ~First(q, b, h, j)
        <5>1. PICK k \in j + 1..n : b[k] = h
          BY <1>1, <3>1, <4>2 DEF First
        <5>2. k \in 1..n /\ j < k /\ b[j] = b[k]
          BY <1>1, <2>1, <3>1, <5>1
        <5>3. PICK i \in 1..n : i <= k /\ Newer(b, j, i)
          BY <1>5, <2>1, <5>2
        <5>4. i \in 1..n + 1 /\ i <= l
          BY <1>1, <2>3
        <5> QED BY <1>3, <2>1, <5>3, <5>4
      <4> QED BY <4>1, <4>2
    <3> QED BY <3>2, <3>3, <3>4
  <2> QED BY <1>1, <2>2, <2>3
<1>7. ASSUME NEW j \in 1..n + 1
      PROVE  \E i \in 1..n + 1 : j <= i /\ First(q2, b2, b2[j], i)
  <2>1. CASE b2[j] = h
    <3>1. n + 1 \in 1..n + 1 /\ j <= n + 1
      BY <1>1
    <3> QED BY <1>4, <2>1, <3>1
  <2>2. CASE b2[j] # h
    <3>1. j \in 1..n
      BY <1>1, <1>2, <2>2
    <3>2. PICK i \in 1..n : j <= i /\ First(q, b, b[j], i)
      BY <1>5, <3>1
    <3>3. i \in 1..n + 1 /\ First(q2, b2, b2[j], i)
      BY <1>1, <1>2, <1>4, <2>2, <3>1, <3>2
    <3> QED BY <3>2, <3>3
  <2> QED BY <2>1, <2>2
<1> QED BY <1>1, <1>2, <1>6, <1>7 DEF Neighbours

LEMMA LinkageAdd ==
  ASSUME NEW q, NEW b, NEW q2, NEW b2, NEW lk, NEW lk2, NEW p, NEW h \in Heads,
         Laid(q, b), Laid(q2, b2), Longer(q, b, q2, b2, p, h), Linkage(q, b, lk),
         Held(q, lk), lk2 = Added(lk, p, h)
  PROVE  Linkage(q2, b2, lk2)
<1> USE DEF Held, Added
<1>1. PICK n \in Nat : n = Len(q)
  BY DEF Longer
<1>2. /\ \A j \in 1..n : q2[j] = q[j] /\ b2[j] = b[j]
      /\ q2[n + 1] = p /\ b2[n + 1] = h /\ Len(q2) = n + 1
  BY <1>1 DEF Longer
<1>3. /\ \A j \in 1..n : q[j] \in Positions /\ q[j] # 0 /\ q[j] \notin Heads /\ b[j] \in Heads
      /\ \A i, j \in 1..n : q[i] = q[j] => i = j
  BY <1>1 DEF Laid
<1>4. /\ p \in Positions /\ p # 0 /\ p \notin Heads
      /\ \A j \in 1..n : q[j] # p
      /\ h \in Positions /\ n + 1 \in 1..n + 1 /\ \A j \in 1..n : j \in 1..n + 1
  <2>1. n + 1 \in 1..n + 1 /\ \A j \in 1..n : j \in 1..n + 1 /\ j # n + 1
    BY <1>1
  <2>2. /\ q2[n + 1] \in Positions /\ q2[n + 1] # 0 /\ q2[n + 1] \notin Heads
        /\ \A j \in 1..n : q2[j] # q2[n + 1]
    BY <1>2, <2>1 DEF Laid
  <2> QED BY <1>2, <2>1, <2>2, XorFacts
<1>5. PICK t : t = lk[h]
  OBVIOUS
<1>6. \A j \in 1..n : \A f, g \in Positions :
        Ahead(q, b, j, f) /\ Beneath(q, b, j, g) => lk[q[j]] = xor(f, g)
  BY <1>1 DEF Linkage, EntriesLinked
<1>7. \A g \in Heads : /\ \A j \in 1..n : First(q, b, g, j) => lk[g] = q[j]
                       /\ (\A j \in 1..n : ~First(q, b, g, j)) => lk[g] = 0
  BY <1>1 DEF Linkage, HeadsLinked
<1>8. /\ \A j \in 1..n : First(q, b, h, j) => t = q[j]
      /\ (\A j \in 1..n : ~First(q, b, h, j)) => t = 0
      /\ t \in Positions /\ t \notin Heads \ {0}
  <2>1. /\ \A j \in 1..n : First(q, b, h, j) => t = q[j]
        /\ (\A j \in 1..n : ~First(q, b, h, j)) => t = 0
    BY <1>5, <1>7
  <2> QED BY <1>3, <2>1, XorFacts
<1>9. \A j \in 1..n : /\ \A i \in 1..n : Newer(b2, j, i) <=> Newer(b, j, i)
                      /\ Newer(b2, j, n + 1) <=> First(q, b, h, j)
                      /\ ~Newer(b2, n + 1, j)
  BY <1>1, NewerLonger
<1>10. ~Newer(b2, n + 1, n + 1)
  BY <1>1 DEF Newer
<1>11. \A r \in Heads \cup {q[j] : j \in 1..n} \cup {p} :
         lk2[r] = IF r = h THEN p ELSE IF r = p THEN xor(t, h)
                  ELSE IF r = t /\ t # 0 THEN xor(xor(lk[r], h), p) ELSE lk[r]
  <2>1. SUFFICES ASSUME NEW r \in DOMAIN lk \cup {p}
                 PROVE  lk2[r] = IF r = h THEN p ELSE IF r = p THEN xor(t, h)
                                 ELSE IF r = t /\ t # 0 THEN xor(xor(lk[r], h), p) ELSE lk[r]
    BY <1>1
  <2>2. lk2[r] = CASE r = h            -> p
                   [] r = p            -> xor(t, h)
                   [] r = t /\ t # 0   -> xor(xor(lk[r], h), p)
                   [] OTHER            -> lk[r]
    BY <1>5, <2>1
  <2>3. CASE r = h
    <3>1. r # p /\ ~(r = t /\ t # 0)
      BY <1>4, <1>8, <2>3
    <3> QED BY <2>2, <2>3, <3>1
  <2>4. CASE r = p /\ r # h
    BY <1>4, <1>8, <2>2, <2>4
  <2>5. CASE r # p /\ r # h
    BY <2>2, <2>5
  <2> QED BY <2>3, <2>4, <2>5
<1>12. \A i \in 1..n + 1 : i \in 1..n \/ i = n + 1
  BY <1>1
<1>13. Laid(q, b) /\ Laid(q2, b2)
  OBVIOUS
<1>14. EntriesLinked(q2, b2, lk2)
  <2>1. SUFFICES ASSUME NEW j \in 1..n + 1, NEW f2 \in Positions, NEW g2 \in Positions,
                        Ahead(q2, b2, j, f2), Beneath(q2, b2, j, g2)
                 PROVE  lk2[q2[j]] = xor(f2, g2)
    BY <1>2 DEF EntriesLinked
  <2>2. CASE j \in 1..n
    <3>1. q2[j] = q[j] /\ b2[j] = b[j] /\ q[j] # h /\ q[j] # p /\ q[j] # 0 /\ q[j] \notin Heads
      BY <1>2, <1>3, <1>4, <2>2
    <3>2. Beneath(q, b, j, g2)
      <4>1. CASE \E i \in 1..n + 1 : Newer(b2, i, j) /\ g2 = q2[i]
        <5>1. PICK i \in 1..n + 1 : Newer(b2, i, j) /\ g2 = q2[i]
          BY <4>1
        <5>2. i \in 1..n
          BY <1>9, <1>12, <2>2, <5>1
        <5> QED BY <1>1, <1>2, <1>9, <2>2, <5>1, <5>2 DEF Beneath
      <4>2. CASE g2 = 0 /\ \A i \in 1..n + 1 : ~Newer(b2, i, j)
        <5>1. \A i \in 1..n : ~Newer(b, i, j)
          BY <1>4, <1>9, <2>2, <4>2
        <5> QED BY <1>1, <4>2, <5>1 DEF Beneath
      <4> QED BY <1>2, <2>1, <4>1, <4>2 DEF Beneath
    <3>3. CASE First(q, b, h, j)
      <4>1. t = q[j]
        BY <1>8, <2>2, <3>3
      <4>2. f2 = p
        <5>1. Newer(b2, j, n + 1)
          BY <1>9, <2>2, <3>3
        <5>2. Ahead(q2, b2, j, p)
          BY <1>2, <1>4, <5>1 DEF Ahead
        <5> QED BY <1>2, <1>13, <2>1, <5>2, AheadOnce
      <4>3. lk[q[j]] = xor(h, g2)
        <5>1. Ahead(q, b, j, h)
          <6>1. b[j] = h /\ \A i \in 1..n : ~Newer(b, j, i)
            BY <1>1, <3>3 DEF First, Newer
          <6> QED BY <1>1, <6>1 DEF Ahead
        <5> QED BY <1>4, <1>6, <2>2, <3>2, <5>1
      <4>4. lk2[q[j]] = xor(xor(lk[q[j]], h), p)
        BY <1>11, <2>2, <3>1, <4>1
      <4>5. xor(xor(h, g2), h) = g2 /\ xor(g2, p) = xor(p, g2)
        BY <1>4, XorFacts
      <4> QED BY <3>1, <4>2, <4>3, <4>4, <4>5
    <3>4. CASE ~First(q, b, h, j)
      <4>1. t # q[j]
        BY <1>3, <1>8, <2>2, <3>4
      <4>2. Ahead(q, b, j, f2)
        <5>1. CASE \E i \in 1..n + 1 : Newer(b2, j, i) /\ f2 = q2[i]
          <6>1. PICK i \in 1..n + 1 : Newer(b2, j, i) /\ f2 = q2[i]
            BY <5>1
          <6>2. i \in 1..n
            BY <1>9, <1>12, <2>2, <3>4, <6>1
          <6> QED BY <1>1, <1>2, <1>9, <2>2, <6>1, <6>2 DEF Ahead
        <5>2. CASE f2 = b2[j] /\ \A i \in 1..n + 1 : ~Newer(b2, j, i)
          <6>1. \A i \in 1..n : ~Newer(b, j, i)
            BY <1>4, <1>9, <2>2, <5>2
          <6> QED BY <1>1, <3>1, <5>2, <6>1 DEF Ahead
        <5> QED BY <1>2, <2>1, <5>1, <5>2 DEF Ahead
      <4>3. lk2[q[j]] = lk[q[j]]
        BY <1>11, <2>2, <3>1, <4>1
      <4> QED BY <1>6, <2>2, <3>1, <3>2, <4>2, <4>3
    <3> QED BY <3>3, <3>4
  <2>3. CASE j = n + 1
    <3>1. \A i \in 1..n + 1 : ~Newer(b2, j, i)
      BY <1>9, <1>10, <1>12, <2>3
    <3>2. f2 = h
      BY <1>2, <2>1, <2>3, <3>1 DEF Ahead
    <3>3. g2 = t
      <4>1. CASE \E i \in 1..n : First(q, b, h, i)
        <5>1. PICK i \in 1..n : First(q, b, h, i)
          BY <4>1
        <5>2. Newer(b2, i, n + 1) /\ i \in 1..n + 1 /\ t = q2[i]
          BY <1>2, <1>4, <1>8, <1>9, <5>1
        <5>3. Beneath(q2, b2, j, t)
          BY <1>2, <2>3, <5>2 DEF Beneath
        <5> QED BY <1>2, <1>13, <2>1, <5>3, AheadOnce
      <4>2. CASE \A i \in 1..n : ~First(q, b, h, i)
        <5>1. \A i \in 1..n + 1 : ~Newer(b2, i, j)
          BY <1>9, <1>10, <1>12, <2>3, <4>2
        <5>2. g2 = 0
          BY <1>2, <2>1, <5>1 DEF Beneath
        <5> QED BY <1>8, <4>2, <5>2
      <4> QED BY <4>1, <4>2
    <3>4. lk2[p] = xor(t, h)
      BY <1>4, <1>11
    <3>5. xor(t, h) = xor(h, t)
      BY <1>4, <1>8, XorFacts
    <3> QED BY <1>2, <2>3, <3>2, <3>3, <3>4, <3>5
  <2> QED BY <1>12, <2>2, <2>3
<1>15. HeadsLinked(q2, b2, lk2)
  <2>1. SUFFICES ASSUME NEW g \in Heads
                 PROVE  /\ \A j \in 1..n + 1 : First(q2, b2, g, j) => lk2[g] = q2[j]
                        /\ (\A j \in 1..n + 1 : ~First(q2, b2, g, j)) => lk2[g] = 0
    BY <1>2 DEF HeadsLinked
  <2>2. CASE g = h
    <3>1. First(q2, b2, h, n + 1)
      BY <1>1, FirstLonger
    <3>2. \A j \in 1..n + 1 : First(q2, b2, h, j) => j = n + 1
      BY <1>2, <1>4, <3>1, <1>13, FirstOnce DEF Laid
    <3>3. lk2[h] = p
      BY <1>11
    <3> QED BY <1>2, <1>4, <2>2, <3>1, <3>2, <3>3
  <2>3. CASE g # h
    <3>1. /\ ~First(q2, b2, g, n + 1)
          /\ \A j \in 1..n : First(q2, b2, g, j) <=> First(q, b, g, j)
      BY <1>1, <2>3, OthersFirst
    <3>2. lk2[g] = lk[g]
      <4>1. g # p /\ ~(g = t /\ t # 0)
        BY <1>4, <1>8
      <4> QED BY <1>11, <2>3, <4>1
    <3>3. ASSUME NEW j \in 1..n + 1, First(q2, b2, g, j)
          PROVE  lk2[g] = q2[j]
      <4>1. j \in 1..n
        BY <1>12, <3>1, <3>3
      <4> QED BY <1>2, <1>7, <3>1, <3>2, <3>3, <4>1
    <3>4. ASSUME \A j \in 1..n + 1 : ~First(q2, b2, g, j)
          PROVE  lk2[g] = 0
      BY <1>4, <1>7, <3>1, <3>2, <3>4
    <3> QED BY <3>3, <3>4
  <2> QED BY <2>2, <2>3
<1>16. Neighbours(q2, b2)
  BY NeighboursLonger DEF Linkage
<1> QED BY <1>14, <1>15, <1>16 DEF Linkage

-----------------------------------------------------------------------------
(* The ring                                                                 *)

LEMMA LengthFacts ==
  /\ \A k \in Keys, d \in Data : EntryLen(k, d) \in Nat \ {0}
  /\ hsize \in Nat \ {0} /\ size \in Nat \ {0} /\ hsize <= size
BY SizeAssumption, LengthAssumption DEF EntryLen

LEMMA RingIs ==
  ASSUME IInv
  PROVE  /\ queue \in Seq(Positions) /\ Len(queue) \in Nat
         /\ Live = {queue[j] : j \in 1..Len(queue)}
         /\ DOMAIN link = Heads \cup {queue[j] : j \in 1..Len(queue)} /\ DOMAIN item = Live
         /\ \A j \in 1..Len(queue) :
              /\ queue[j] \in Live /\ queue[j] \in Positions
              /\ Buckets[j] = hash(item[queue[j]].key) /\ Sizes[j] = Taken(queue[j])
         /\ Measured(queue, Sizes) /\ Laid(queue, Buckets)
<1>1. /\ queue \in Seq(Positions) /\ Len(queue) \in Nat
      /\ Live = {queue[j] : j \in 1..Len(queue)}
      /\ DOMAIN link = Heads \cup {queue[j] : j \in 1..Len(queue)} /\ DOMAIN item = Live
  BY DEF IInv, TypeOK, Live
<1>2. \A j \in 1..Len(queue) :
        /\ queue[j] \in Live /\ queue[j] \in Positions
        /\ Buckets[j] = hash(item[queue[j]].key) /\ Sizes[j] = Taken(queue[j])
  BY <1>1 DEF Buckets, Sizes, Bucket
<1>3. \A j \in 1..Len(queue) : item[queue[j]].key \in Keys /\ item[queue[j]].data \in Data
  BY <1>2 DEF IInv, TypeOK
<1>4. Measured(queue, Sizes)
  BY <1>2, <1>3, LengthFacts DEF Measured, Taken, Positions
<1>5. PICK w \in 0..Len(queue) : Spans(queue, Sizes, writer, oldest, unused, w)
  BY DEF IInv
<1>6. /\ \A i, j \in 1..Len(queue) : queue[i] = queue[j] => i = j
      /\ \A j \in 1..Len(queue) : queue[j] \notin Heads /\ queue[j] # 0
  BY <1>1, <1>4, <1>5, Placed DEF IInv
<1>7. Laid(queue, Buckets)
  BY <1>1, <1>2, <1>3, <1>6, HashAssumption DEF Laid
<1> QED BY <1>1, <1>2, <1>4, <1>7

(* The terms of Chains in those of the lemmas above.                        *)
LEMMA NewerIs ==
  ASSUME IInv, NEW j \in 1..Len(queue)
  PROVE  /\ \A i \in 1..Len(queue) : IsNewer(j, i) <=> Newer(Buckets, j, i)
         /\ \A h : IsNewest(h, j) <=> First(queue, Buckets, h, j)
<1>1. Len(queue) \in Nat /\ \A l \in 1..Len(queue) : Buckets[l] = Bucket(l)
  BY RingIs DEF Bucket
<1>2. \A i \in 1..Len(queue) : \A l \in j + 1..i - 1 : l \in 1..Len(queue)
  BY <1>1
<1>3. \A l \in j + 1..Len(queue) : l \in 1..Len(queue)
  BY <1>1
<1>4. \A i \in 1..Len(queue) : i \in j + 1..Len(queue) <=> j < i
  BY <1>1
<1>5. \A i \in 1..Len(queue) : IsNewer(j, i) <=> Newer(Buckets, j, i)
  BY <1>1, <1>2, <1>4 DEF IsNewer, Newer
<1>6. \A h : IsNewest(h, j) <=> First(queue, Buckets, h, j)
  BY <1>1, <1>3 DEF IsNewest, First
<1> QED BY <1>5, <1>6

LEMMA InFrontIs ==
  ASSUME IInv, NEW j \in 1..Len(queue)
  PROVE  /\ Ahead(queue, Buckets, j, InFront(j))
         /\ Beneath(queue, Buckets, j, Behind(j))
<1>1. Len(queue) \in Nat /\ Buckets[j] = Bucket(j)
  BY RingIs DEF Bucket
<1>2. \A i \in 1..Len(queue) : /\ IsNewer(j, i) <=> Newer(Buckets, j, i)
                               /\ IsNewer(i, j) <=> Newer(Buckets, i, j)
  BY NewerIs
<1>3. \A i \in 1..Len(queue) : /\ Newer(Buckets, j, i) => i \in j + 1..Len(queue)
                               /\ Newer(Buckets, i, j) => i \in 1..j - 1
  BY <1>1 DEF Newer
<1>4. (\A i \in j + 1..Len(queue) : i \in 1..Len(queue)) /\ \A i \in 1..j - 1 : i \in 1..Len(queue)
  BY <1>1
<1>5. Ahead(queue, Buckets, j, InFront(j))
  <2>1. CASE \E i \in j + 1..Len(queue) : IsNewer(j, i)
    <3>1. PICK i \in j + 1..Len(queue) : IsNewer(j, i) /\ InFront(j) = queue[i]
      BY <2>1 DEF InFront
    <3> QED BY <1>2, <1>4, <3>1 DEF Ahead
  <2>2. CASE ~\E i \in j + 1..Len(queue) : IsNewer(j, i)
    <3>1. InFront(j) = Bucket(j)
      BY <2>2 DEF InFront
    <3> QED BY <1>1, <1>2, <1>3, <2>2, <3>1 DEF Ahead
  <2> QED BY <2>1, <2>2
<1>6. Beneath(queue, Buckets, j, Behind(j))
  <2>1. CASE \E i \in 1..j - 1 : IsNewer(i, j)
    <3>1. PICK i \in 1..j - 1 : IsNewer(i, j) /\ Behind(j) = queue[i]
      BY <2>1 DEF Behind
    <3> QED BY <1>2, <1>4, <3>1 DEF Beneath
  <2>2. CASE ~\E i \in 1..j - 1 : IsNewer(i, j)
    <3>1. Behind(j) = 0
      BY <2>2 DEF Behind
    <3> QED BY <1>2, <1>3, <2>2, <3>1 DEF Beneath
  <2> QED BY <2>1, <2>2
<1> QED BY <1>5, <1>6

LEMMA ChainsHold ==
  ASSUME IInv
  PROVE  Chains
<1>1. Laid(queue, Buckets) /\ Linkage(queue, Buckets, link)
  BY RingIs DEF IInv
<1>2. \A j \in 1..Len(queue) : link[queue[j]] = xor(InFront(j), Behind(j))
  <2>1. SUFFICES ASSUME NEW j \in 1..Len(queue) PROVE link[queue[j]] = xor(InFront(j), Behind(j))
    OBVIOUS
  <2>2. Ahead(queue, Buckets, j, InFront(j)) /\ Beneath(queue, Buckets, j, Behind(j))
    BY InFrontIs
  <2>3. InFront(j) \in Positions /\ Behind(j) \in Positions
    BY <1>1, <2>2, AheadIs
  <2> QED BY <1>1, <2>2, <2>3 DEF Linkage, EntriesLinked
<1>3. ASSUME NEW h \in Heads
      PROVE  link[h] = IF \E j \in 1..Len(queue) : IsNewest(h, j)
                       THEN queue[CHOOSE j \in 1..Len(queue) : IsNewest(h, j)] ELSE 0
  <2>1. /\ \A j \in 1..Len(queue) : IsNewest(h, j) => link[h] = queue[j]
        /\ (\A j \in 1..Len(queue) : ~IsNewest(h, j)) => link[h] = 0
    BY <1>1, NewerIs DEF Linkage, HeadsLinked
  <2>2. CASE \E j \in 1..Len(queue) : IsNewest(h, j)
    <3>1. PICK j \in 1..Len(queue) : /\ IsNewest(h, j)
                                     /\ j = CHOOSE i \in 1..Len(queue) : IsNewest(h, i)
      BY <2>2
    <3> QED BY <2>1, <2>2, <3>1
  <2> QED BY <2>1, <2>2
<1> QED BY <1>2, <1>3 DEF Chains

LEMMA LayoutHolds ==
  ASSUME IInv
  PROVE  Layout
<1>1. PICK w \in 0..Len(queue) : Spans(queue, Sizes, writer, oldest, unused, w)
  BY DEF IInv
<1>2. Len(queue) \in Nat /\ \A j \in 1..Len(queue) : End(j) = queue[j] + Sizes[j]
  BY RingIs DEF End, Taken
<1>3. LayoutWith(w)
  <2>1. \A j \in 1..Len(queue) : j # 1 => j - 1 \in 1..Len(queue)
    BY <1>2
  <2>2. \A j \in 1..Len(queue) :
          queue[j] = IF j = w + 1 THEN hsize ELSE IF j = 1 THEN oldest ELSE End(j - 1)
    BY <1>1, <1>2, <2>1 DEF Spans, EndToEnd
  <2>3. IF w = 0 THEN oldest = unused ELSE End(w) = unused
    <3>1. w # 0 => w \in 1..Len(queue)
      BY <1>2
    <3> QED BY <1>1, <1>2, <3>1 DEF Spans, EndToEnd
  <2>4. IF w = Len(queue) THEN writer = hsize ELSE End(Len(queue)) = writer
    <3>1. w # Len(queue) => Len(queue) \in 1..Len(queue)
      BY <1>2
    <3> QED BY <1>1, <1>2, <3>1 DEF Spans, EndToEnd
  <2> QED BY <2>2, <2>3, <2>4 DEF LayoutWith
<1> QED BY <1>3 DEF Layout

(* The variables after the ring has wrapped, if it must.                    *)
OldestNow == IF oldest = unused THEN hsize ELSE oldest
UnusedNow == IF oldest = unused THEN writer ELSE unused
WriterNow == IF oldest = unused THEN hsize ELSE writer

(* The entry that goes next.                                                *)
LEMMA OldestIs ==
  ASSUME IInv, ~Empty, NEW o, NEW u, NEW v,
         o = OldestNow, u = UnusedNow, v = WriterNow
  PROVE  /\ Len(queue) \in Nat \ {0} /\ queue[1] = o
         /\ o \in Nat /\ u \in Nat /\ v \in Nat
         /\ hsize <= v /\ v <= o /\ o < u /\ u <= size /\ o + Sizes[1] <= u
         /\ \E w \in 1..Len(queue) : Spans(queue, Sizes, v, o, u, w)
<1>1. /\ Len(queue) \in Nat /\ Measured(queue, Sizes)
      /\ writer \in Nat /\ oldest \in Nat /\ unused \in Nat /\ hsize \in Nat /\ size \in Nat
      /\ hsize <= writer /\ writer <= oldest /\ oldest <= unused /\ unused <= size
  BY RingIs, LengthFacts DEF IInv, Ordered
<1>2. PICK w \in 0..Len(queue) : Spans(queue, Sizes, writer, oldest, unused, w)
  BY DEF IInv
<1>3. CASE w = 0
  <2>1. oldest = unused
    BY <1>2, <1>3 DEF Spans, EndToEnd
  <2>2. Len(queue) # 0
    <3>1. Len(queue) = 0 => writer = hsize
      BY <1>2, <1>3 DEF Spans, EndToEnd
    <3> QED BY <1>1, <2>1, <3>1 DEF Empty
  <2>3. o = hsize /\ u = writer /\ v = hsize
    BY <2>1 DEF OldestNow, UnusedNow, WriterNow
  <2>4. Spans(queue, Sizes, hsize, hsize, writer, Len(queue)) /\ queue[1] = hsize /\ hsize < writer
    BY <1>1, <1>2, <1>3, <2>2, SpansWrap
  <2>5. Len(queue) \in 1..Len(queue)
    BY <1>1, <2>2
  <2>6. hsize + Sizes[1] <= writer
    BY <1>1, <2>2, <2>4, <2>5, SpansFirst
  <2> QED BY <1>1, <2>2, <2>3, <2>4, <2>5, <2>6
<1>4. CASE w # 0
  <2>1. w \in 1..Len(queue) /\ Len(queue) \in Nat \ {0}
    BY <1>1, <1>4
  <2>2. queue[1] = oldest /\ oldest < unused /\ oldest + Sizes[1] <= unused
    BY <1>1, <1>2, <2>1, SpansFirst
  <2>3. o = oldest /\ u = unused /\ v = writer
    BY <1>1, <2>2 DEF OldestNow, UnusedNow, WriterNow
  <2> QED BY <1>1, <1>2, <2>1, <2>2, <2>3
<1> QED BY <1>3, <1>4

LEMMA ReadsHold ==
  ASSUME IInv
  PROVE  ReadsLive
<1>1. ASSUME ~Empty
      PROVE  LET o == IF oldest = unused THEN hsize ELSE oldest
             IN o \in Live /\ link[o] \in Live \cup Heads
  <2>1. PICK o : o = OldestNow
    OBVIOUS
  <2>2. Len(queue) \in Nat \ {0} /\ queue[1] = o
    BY <1>1, <2>1, OldestIs
  <2>3. 1 \in 1..Len(queue) /\ Laid(queue, Buckets) /\ o \in Live
        /\ Live = {queue[j] : j \in 1..Len(queue)}
    BY <2>2, RingIs
  <2>4. PICK f \in Positions : Ahead(queue, Buckets, 1, f) /\ f \in Heads \cup Live
    BY <2>3, AheadIs
  <2>5. Beneath(queue, Buckets, 1, 0)
    BY <2>2 DEF Beneath, Newer
  <2>6. link[o] = xor(f, 0)
    BY <2>2, <2>3, <2>4, <2>5, XorFacts DEF IInv, Linkage, EntriesLinked
  <2>7. link[o] = f
    BY <2>6, XorFacts
  <2> QED BY <2>1, <2>3, <2>4, <2>7 DEF OldestNow
<1>2. ASSUME pc = "set"
      PROVE  LET h == hash(arg.key) IN link[h] # 0 => link[h] \in Live
  <2>1. hash(arg.key) \in Heads
    BY <1>2, HashAssumption DEF IInv, TypeOK
  <2>2. PICK h \in Heads : h = hash(arg.key)
    BY <2>1
  <2>3. link[h] = 0 \/ \E j \in 1..Len(queue) : link[h] = queue[j]
    BY DEF IInv, Linkage, HeadsLinked
  <2> QED BY <2>2, <2>3, RingIs
<1>3. ASSUME pc = "get"
      PROVE  pos \in Live \cup {0} /\ prevpos \in Live \cup Heads
  <2>1. CASE \E j \in 1..Len(queue) : At(j)
    <3>1. PICK j \in 1..Len(queue) : At(j)
      BY <2>1
    <3>2. pos = queue[j] /\ Ahead(queue, Buckets, j, prevpos)
      BY <3>1 DEF At
    <3>3. prevpos \in Heads \cup {queue[i] : i \in 1..Len(queue)}
      BY <3>2, RingIs, AheadIs
    <3> QED BY <3>2, <3>3, RingIs
  <2>2. CASE pos = 0 /\ prevpos \in Live \cup Heads
    BY <2>2
  <2> QED BY <1>3, <2>1, <2>2 DEF IInv, Walk
<1> QED BY <1>1, <1>2, <1>3 DEF ReadsLive

LEMMA SoundFollows ==
  IInv => MemorySound
<1> SUFFICES ASSUME IInv PROVE MemorySound
  OBVIOUS
<1>1. Regions
  BY DEF IInv, Ordered, Regions
<1>2. TypeOK
  BY DEF IInv
<1> QED BY <1>1, <1>2, LayoutHolds, ChainsHold, ReadsHold DEF MemorySound, RingSound

-----------------------------------------------------------------------------
(* The steps                                                                *)

RingInv ==
  /\ Ordered(writer, oldest, unused)
  /\ \E w \in 0..Len(queue) : Spans(queue, Sizes, writer, oldest, unused, w)
  /\ Linkage(queue, Buckets, link)

RingTyped ==
  /\ writer \in Nat /\ oldest \in Nat /\ unused \in Nat
  /\ queue \in Seq(Positions)
  /\ DOMAIN link = Heads \cup Live /\ \A p \in DOMAIN link : link[p] \in Nat
  /\ DOMAIN item = Live
  /\ \A p \in Live : item[p].key \in Keys /\ item[p].data \in Data /\ item[p].expire \in Nat

CallTyped ==
  /\ pc \in {"idle", "set", "get"}
  /\ pc = "set" => arg.key \in Keys /\ arg.data \in Data /\ arg.ttl \in 1..MAXTTL
  /\ pc = "get" => arg.key \in Keys
  /\ loop \in 0..MaxLoop
  /\ now \in Times

LEMMA Parts ==
  IInv <=> RingTyped /\ CallTyped /\ RingInv /\ Walk /\ Calls /\ Lost /\ Dates
BY DEF IInv, TypeOK, RingTyped, CallTyped, RingInv

LEMMA RingNow ==
  ASSUME Ordered(writer', oldest', unused'), NEW w \in 0..Len(queue'),
         Spans(queue', Sizes', writer', oldest', unused', w),
         Linkage(queue', Buckets', link')
  PROVE  RingInv'
<1>1. Ordered(writer, oldest, unused)'
  BY DEF Ordered
<1>2. (\E x \in 0..Len(queue) : Spans(queue, Sizes, writer, oldest, unused, x))'
  BY DEF Spans, EndToEnd, Inside, Apart
<1>3. Linkage(queue, Buckets, link)'
  BY DEF Linkage, EntriesLinked, HeadsLinked, Neighbours, Ahead, Beneath, First, Newer
<1> QED BY <1>1, <1>2, <1>3 DEF RingInv

LEMMA RingSame ==
  ASSUME IInv, UNCHANGED ring
  PROVE  /\ RingTyped' /\ RingInv'
         /\ Live' = Live /\ Buckets' = Buckets /\ queue' = queue /\ item' = item /\ link' = link
         /\ oldest' = oldest /\ unused' = unused /\ writer' = writer
<1>1. /\ queue' = queue /\ item' = item /\ link' = link
      /\ oldest' = oldest /\ unused' = unused /\ writer' = writer
  BY DEF ring
<1>2. Live' = Live
  BY <1>1 DEF Live
<1>3. Sizes' = Sizes /\ Buckets' = Buckets
  BY <1>1 DEF Sizes, Buckets, Taken, Bucket
<1>4. RingTyped'
  BY <1>1, <1>2, Parts DEF RingTyped
<1>5. PICK w \in 0..Len(queue) : Spans(queue, Sizes, writer, oldest, unused, w)
  BY DEF IInv
<1>6. RingInv'
  <2>1. /\ Ordered(writer', oldest', unused') /\ w \in 0..Len(queue')
        /\ Spans(queue', Sizes', writer', oldest', unused', w)
        /\ Linkage(queue', Buckets', link')
    BY <1>1, <1>3, <1>5 DEF IInv
  <2> QED BY <2>1, RingNow
<1> QED BY <1>1, <1>2, <1>3, <1>4, <1>6

(* One turn of the loop of cache_set(): the first entry goes.               *)
Evicted(o, u, v) ==
  /\ queue' = Tail(queue) /\ queue' \in Seq(Positions)
  /\ writer' = v
  /\ oldest' = IF o + Sizes[1] = u THEN size ELSE o + Sizes[1]
  /\ unused' = IF o + Sizes[1] = u THEN size ELSE u
  /\ link' = [p \in DOMAIN link \ {o} |-> IF p = link[o] THEN xor(link[p], o) ELSE link[p]]
  /\ item' = [p \in DOMAIN item \ {o} |-> item[p]]
  /\ Live' = Live \ {o}
  /\ Shorter(queue, Sizes, queue', Sizes') /\ Shorter(queue, Buckets, queue', Buckets')

LEMMA EvictIs ==
  ASSUME IInv, Evict
  PROVE  Evicted(OldestNow, UnusedNow, WriterNow)
<1> PICK o, u, v : o = OldestNow /\ u = UnusedNow /\ v = WriterNow
  OBVIOUS
<1>1. ~Empty /\ pc = "set"
  BY DEF Evict
<1>2. Len(queue) \in Nat \ {0} /\ queue[1] = o
  BY <1>1, OldestIs
<1>3. PICK n \in Nat \ {0} : n = Len(queue)
  BY <1>2
<1>4. /\ queue \in Seq(Positions) /\ Live = {queue[j] : j \in 1..n}
      /\ \A j \in 1..n : Buckets[j] = hash(item[queue[j]].key) /\ Sizes[j] = Taken(queue[j])
      /\ \A i, j \in 1..n : queue[i] = queue[j] => i = j
      /\ 1 \in 1..n /\ DOMAIN item = Live
  BY <1>3, RingIs DEF Laid
<1>5. Sizes[1] = Taken(o)
  BY <1>2, <1>4
<1>6. /\ writer' = v
      /\ oldest' = IF o + Sizes[1] = u THEN size ELSE o + Sizes[1]
      /\ unused' = IF o + Sizes[1] = u THEN size ELSE u
      /\ link' = [p \in DOMAIN link \ {o} |-> IF p = link[o] THEN xor(link[p], o) ELSE link[p]]
      /\ item' = [p \in DOMAIN item \ {o} |-> item[p]]
      /\ queue' = Tail(queue)
  BY <1>5 DEF Evict, Unlinked, OldestNow, UnusedNow, WriterNow
<1>7. /\ queue' \in Seq(Positions) /\ Len(queue') = n - 1
      /\ \A j \in 1..n - 1 : queue'[j] = queue[j + 1]
  <2>1. queue # <<>>
    BY <1>3
  <2> QED BY <1>3, <1>4, <1>6, <2>1, HeadTailProperties
<1>8. \A j \in 1..n - 1 : j + 1 \in 1..n /\ queue[j + 1] # o /\ queue[j + 1] \in Live
  <2>1. \A j \in 1..n - 1 : j + 1 \in 1..n /\ j + 1 # 1
    BY <1>3
  <2> QED BY <1>2, <1>4, <2>1
<1>9. Live' = Live \ {o}
  <2>1. Live' = {queue'[j] : j \in 1..n - 1}
    BY <1>7 DEF Live
  <2>2. ASSUME NEW p \in Live, p # o PROVE p \in Live'
    <3>1. PICK j \in 1..n : p = queue[j]
      BY <1>4
    <3>2. j # 1
      BY <1>2, <2>2, <3>1
    <3>3. j - 1 \in 1..n - 1 /\ (j - 1) + 1 = j
      BY <1>3, <3>2
    <3> QED BY <1>7, <2>1, <3>1, <3>3
  <2>3. ASSUME NEW p \in Live' PROVE p \in Live /\ p # o
    BY <1>7, <1>8, <2>1
  <2> QED BY <2>2, <2>3
<1>10. ASSUME NEW j \in 1..n - 1
       PROVE  Sizes'[j] = Sizes[j + 1] /\ Buckets'[j] = Buckets[j + 1]
  <2>1. item'[queue[j + 1]] = item[queue[j + 1]]
    BY <1>4, <1>6, <1>8
  <2>2. queue'[j] = queue[j + 1] /\ j \in 1..Len(queue')
    BY <1>7
  <2>3. Sizes'[j] = EntryLen(item'[queue'[j]].key, item'[queue'[j]].data)
        /\ Buckets'[j] = hash(item'[queue'[j]].key)
    BY <2>2 DEF Sizes, Buckets, Taken, Bucket
  <2>4. Sizes[j + 1] = Taken(queue[j + 1]) /\ Buckets[j + 1] = hash(item[queue[j + 1]].key)
    BY <1>4, <1>8
  <2> QED BY <2>1, <2>2, <2>3, <2>4 DEF Taken
<1>11. Shorter(queue, Sizes, queue', Sizes') /\ Shorter(queue, Buckets, queue', Buckets')
  BY <1>3, <1>7, <1>10 DEF Shorter
<1> QED BY <1>6, <1>7, <1>9, <1>11 DEF Evicted

LEMMA EvictKeeps ==
  ASSUME IInv, Evict
  PROVE  IInv'
<1>1. ~Empty /\ pc = "set" /\ Full
  BY DEF Evict
<1>2. PICK o, u, v : o = OldestNow /\ u = UnusedNow /\ v = WriterNow
  OBVIOUS
<1>3. /\ Len(queue) \in Nat \ {0} /\ queue[1] = o
      /\ o \in Nat /\ u \in Nat /\ v \in Nat
      /\ hsize <= v /\ v <= o /\ o < u /\ u <= size /\ o + Sizes[1] <= u
  BY <1>1, <1>2, OldestIs
<1>4. PICK w \in 1..Len(queue) : Spans(queue, Sizes, v, o, u, w)
  BY <1>1, <1>2, OldestIs
<1>5. /\ queue' = Tail(queue) /\ queue' \in Seq(Positions)
      /\ writer' = v
      /\ oldest' = IF o + Sizes[1] = u THEN size ELSE o + Sizes[1]
      /\ unused' = IF o + Sizes[1] = u THEN size ELSE u
      /\ link' = [p \in DOMAIN link \ {o} |-> IF p = link[o] THEN xor(link[p], o) ELSE link[p]]
      /\ item' = [p \in DOMAIN item \ {o} |-> item[p]]
      /\ Live' = Live \ {o}
      /\ Shorter(queue, Sizes, queue', Sizes') /\ Shorter(queue, Buckets, queue', Buckets')
  <2>1. Evicted(o, u, v)
    BY <1>2, EvictIs
  <2> QED BY <2>1 DEF Evicted
<1>6. /\ Measured(queue, Sizes) /\ Laid(queue, Buckets) /\ Linkage(queue, Buckets, link)
      /\ DOMAIN link = Heads \cup {queue[j] : j \in 1..Len(queue)} /\ DOMAIN item = Live
      /\ Live = {queue[j] : j \in 1..Len(queue)} /\ 1 \in 1..Len(queue)
      /\ Sizes[1] \in Nat \ {0} /\ hsize \in Nat /\ size \in Nat
  BY <1>3, RingIs, LengthFacts DEF IInv, Measured
<1>7. Len(queue') = Len(queue) - 1
      /\ \A j \in 1..Len(queue') : queue'[j] = queue[j + 1] /\ Buckets'[j] = Buckets[j + 1]
                                   /\ j + 1 \in 1..Len(queue)
  BY <1>3, <1>5 DEF Shorter
<1>8. Laid(queue', Buckets')
  <2>1. Len(queue') \in Nat
    BY <1>3, <1>7
  <2>2. \A j \in 1..Len(queue') : /\ queue'[j] \in Positions /\ queue'[j] # 0
                                  /\ queue'[j] \notin Heads /\ Buckets'[j] \in Heads
    <3>1. SUFFICES ASSUME NEW j \in 1..Len(queue')
                   PROVE  /\ queue'[j] \in Positions /\ queue'[j] # 0
                          /\ queue'[j] \notin Heads /\ Buckets'[j] \in Heads
      OBVIOUS
    <3>2. j + 1 \in 1..Len(queue) /\ queue'[j] = queue[j + 1] /\ Buckets'[j] = Buckets[j + 1]
      BY <1>7
    <3>3. \A i \in 1..Len(queue) : /\ queue[i] \in Positions /\ queue[i] # 0
                                   /\ queue[i] \notin Heads /\ Buckets[i] \in Heads
      BY <1>6 DEF Laid
    <3> QED BY <3>2, <3>3
  <2>3. \A i, j \in 1..Len(queue') : queue'[i] = queue'[j] => i = j
    <3>1. SUFFICES ASSUME NEW i \in 1..Len(queue'), NEW j \in 1..Len(queue'), queue'[i] = queue'[j]
                   PROVE  i = j
      OBVIOUS
    <3>2. i + 1 \in 1..Len(queue) /\ j + 1 \in 1..Len(queue) /\ queue[i + 1] = queue[j + 1]
      BY <1>7, <3>1
    <3>3. i + 1 = j + 1
      BY <1>6, <3>2 DEF Laid
    <3> QED BY <3>3
  <2> QED BY <2>1, <2>2, <2>3 DEF Laid
<1>9. Linkage(queue', Buckets', link') /\ link[o] \in Heads \cup Live
  <2>1. PICK q2, b2, lk2 : q2 = queue' /\ b2 = Buckets' /\ lk2 = link'
    OBVIOUS
  <2>2. lk2 = Dropped(link, queue[1]) /\ Held(queue, link)
    BY <1>3, <1>5, <1>6, <2>1 DEF Dropped, Held
  <2>3. Laid(q2, b2) /\ Shorter(queue, Buckets, q2, b2)
    BY <1>5, <1>8, <2>1
  <2>4. Linkage(q2, b2, lk2) /\ link[queue[1]] \in Heads \cup {queue[j] : j \in 1..Len(queue)}
    BY <1>6, <2>2, <2>3, LinkageDrop
  <2> QED BY <1>3, <1>6, <2>1, <2>4
<1>10. Ordered(writer', oldest', unused')
  BY <1>3, <1>5, <1>6 DEF Ordered
<1>11. \E x \in 0..Len(queue') : Spans(queue', Sizes', writer', oldest', unused', x)
  <2>1. IF o + Sizes[1] = u THEN Spans(queue', Sizes', v, size, size, 0)
        ELSE Spans(queue', Sizes', v, o + Sizes[1], u, w - 1)
    BY <1>3, <1>4, <1>5, <1>6, SpansDrop
  <2>2. 0 \in 0..Len(queue') /\ w - 1 \in 0..Len(queue')
    BY <1>3, <1>7
  <2> QED BY <1>5, <2>1, <2>2
<1>12. RingInv'
  BY <1>9, <1>10, <1>11, RingNow
<1>13. RingTyped'
  <2>1. DOMAIN link' = Heads \cup Live' /\ DOMAIN item' = Live'
    BY <1>3, <1>5, <1>6 DEF Laid
  <2>2. \A p \in Live' : p \in Live /\ item'[p] = item[p]
    BY <1>5, <1>6
  <2>3. \A p \in DOMAIN link' : link'[p] \in Nat
    <3>1. SUFFICES ASSUME NEW p \in DOMAIN link, p # o
                   PROVE  IF p = link[o] THEN xor(link[p], o) \in Nat ELSE link[p] \in Nat
      BY <1>5
    <3>2. link[p] \in Nat
      BY Parts DEF RingTyped
    <3>3. CASE p = link[o]
      <4>1. o \in Positions
        BY <1>3, <1>6 DEF Laid
      <4>2. xor(link[p], o) \in Nat
        <5>1. CASE p \in Heads
          <6>1. link[p] = 0 \/ \E j \in 1..Len(queue) : link[p] = queue[j]
            BY <1>6, <5>1 DEF Linkage, HeadsLinked
          <6>2. link[p] \in Positions
            BY <1>6, <6>1, XorFacts DEF Laid
          <6> QED BY <4>1, <6>2, XorFacts
        <5>2. CASE p \notin Heads
          <6>1. PICK i \in 1..Len(queue) : p = queue[i]
            BY <1>6, <3>1, <5>2
          <6>2. Newer(Buckets, 1, i)
            <7>1. PICK f \in Positions : Ahead(queue, Buckets, 1, f)
              BY <1>6, AheadIs
            <7>2. Beneath(queue, Buckets, 1, 0)
              BY <1>3 DEF Beneath, Newer
            <7>3. link[o] = f
              <8>1. link[o] = xor(f, 0)
                BY <1>3, <1>6, <7>1, <7>2, XorFacts DEF Linkage, EntriesLinked
              <8> QED BY <8>1, XorFacts
            <7> QED BY <1>6, <3>3, <5>2, <6>1, <7>1, <7>3 DEF Ahead, Laid
          <6>3. Beneath(queue, Buckets, i, o)
            BY <1>3, <1>6, <6>2 DEF Beneath
          <6>4. PICK f \in Positions : Ahead(queue, Buckets, i, f)
            BY <1>6, AheadIs
          <6>5. link[p] = xor(f, o)
            BY <1>6, <4>1, <6>1, <6>3, <6>4 DEF Linkage, EntriesLinked
          <6>6. xor(link[p], o) = f
            BY <4>1, <6>4, <6>5, XorFacts
          <6> QED BY <6>6 DEF Positions
        <5> QED BY <5>1, <5>2
      <4> QED BY <3>3, <4>2
    <3> QED BY <3>2, <3>3
  <2>4. \A p \in Live' : item'[p].key \in Keys /\ item'[p].data \in Data /\ item'[p].expire \in Nat
    BY <2>2, Parts DEF RingTyped
  <2> QED BY <1>5, <1>10, <2>1, <2>3, <2>4 DEF RingTyped, Ordered
<1>14. UNCHANGED <<pc, arg, loop, now, pos, prevpos>>
  BY DEF Evict, walk
<1>15. CallTyped'
  BY <1>14, Parts DEF CallTyped
<1>16. Walk' /\ Calls'
  BY <1>1, <1>14, Parts DEF Walk, Calls
<1>17. Dates'
  BY <1>5, <1>6, <1>14, Parts DEF Dates
<1>18. Lost'
  <2>1. SUFFICES ASSUME oldest' # unused' PROVE size - unused' <= Slack \/ entrylen > size - hsize
    BY <1>1, <1>14 DEF Lost, entrylen
  <2>2. unused' = u
    BY <1>5, <2>1
  <2>3. CASE oldest = unused
    <3>1. /\ writer + entrylen > size /\ u = writer
          /\ entrylen \in Nat /\ (entrylen <= size - hsize => entrylen <= Slack + 1)
      <4>1. oldest = size
        BY <2>3 DEF IInv, Ordered
      <4>2. /\ arg.key \in Keys /\ arg.data \in Data
            /\ KeyLen(arg.key) <= MAXKEYLEN /\ DataLen(arg.data) <= MAXDATALEN
        BY <1>1 DEF IInv, Calls, TypeOK
      <4>3. u = writer
        BY <1>2, <2>3 DEF UnusedNow
      <4> QED BY <1>1, <4>1, <4>2, <4>3, LengthFacts, SlackAssumption DEF Full, entrylen
    <3>2. writer \in Nat /\ Slack \in Nat
      BY SlackAssumption DEF IInv, Ordered
    <3> QED BY <1>6, <2>2, <3>1, <3>2
  <2>4. CASE oldest # unused
    <3>1. u = unused
      BY <1>2, <2>4 DEF UnusedNow
    <3> QED BY <1>1, <2>2, <2>4, <3>1 DEF IInv, Lost
  <2> QED BY <2>3, <2>4
<1> QED BY <1>12, <1>13, <1>15, <1>16, <1>17, <1>18 DEF IInv, TypeOK, RingTyped, CallTyped, RingInv

(* A new entry of m bytes at p, in bucket h.                                *)
Inserted(p, m, h) ==
  /\ queue' \in Seq(Positions)
  /\ p \in Positions /\ p \notin Live /\ p \notin Heads
  /\ writer' = p + m /\ oldest' = oldest /\ unused' = unused
  /\ link' = Added(link, p, h)
  /\ DOMAIN item' = Live' /\ Live' = Live \cup {p}
  /\ \A x \in Live : item'[x] = item[x]
  /\ item'[p] = [key |-> arg.key, data |-> arg.data, expire |-> now + arg.ttl]
  /\ Longer(queue, Sizes, queue', Sizes', p, m) /\ Longer(queue, Buckets, queue', Buckets', p, h)

LEMMA InsertIs ==
  ASSUME IInv, Insert
  PROVE  /\ Inserted(writer, entrylen, hash(arg.key))
         /\ entrylen \in Nat \ {0} /\ writer + entrylen <= oldest
<1>1. PICK p, m, h : p = writer /\ m = entrylen /\ h = hash(arg.key)
  OBVIOUS
<1>2. PICK n \in Nat : n = Len(queue)
  BY RingIs
<1>3. /\ queue \in Seq(Positions) /\ Live = {queue[j] : j \in 1..n}
      /\ \A j \in 1..n : /\ Buckets[j] = hash(item[queue[j]].key) /\ Sizes[j] = Taken(queue[j])
                         /\ queue[j] \in Live
      /\ DOMAIN item = Live /\ Measured(queue, Sizes)
  BY <1>2, RingIs
<1>4. /\ arg.key \in Keys /\ arg.data \in Data /\ pc = "set" /\ ~Full
  BY DEF IInv, TypeOK, Insert
<1>5. m \in Nat \ {0} /\ h \in Heads
  BY <1>1, <1>4, LengthFacts, HashAssumption DEF entrylen
<1>6. /\ hsize \in Nat \ {0} /\ size \in Nat /\ p \in Nat /\ oldest \in Nat
      /\ hsize <= p /\ oldest <= size
  BY <1>1, LengthFacts DEF IInv, Ordered
<1>7. p + m <= oldest
  BY <1>1, <1>4, <1>5, <1>6 DEF Full
<1>8. p \in Positions /\ p \notin Heads
  <2>1. p < size /\ ~(p < hsize)
    BY <1>5, <1>6, <1>7
  <2> QED BY <1>6, <2>1, XorFacts DEF Positions
<1>9. p \notin Live
  <2>1. PICK w \in 0..Len(queue) : Spans(queue, Sizes, writer, oldest, unused, w)
    BY DEF IInv
  <2>2. \A j \in 1..n : queue[j] >= oldest \/ queue[j] + Sizes[j] <= writer
    BY <1>2, <1>3, <2>1, Placed DEF IInv
  <2>3. \A j \in 1..n : queue[j] \in Nat /\ Sizes[j] \in Nat \ {0}
    BY <1>2, <1>3 DEF Measured
  <2>4. \A j \in 1..n : queue[j] # p
    BY <1>1, <1>5, <1>6, <1>7, <2>2, <2>3
  <2> QED BY <1>3, <2>4
<1>10. /\ queue' = Append(queue, p) /\ writer' = p + m /\ oldest' = oldest /\ unused' = unused
       /\ item' = [x \in DOMAIN item \cup {p} |->
                     IF x = p
                     THEN [key |-> arg.key, data |-> arg.data, expire |-> now + arg.ttl]
                     ELSE item[x]]
       /\ link' = Added(link, p, h)
  BY <1>1 DEF Insert, Linked, Added
<1>11. /\ queue' \in Seq(Positions) /\ Len(queue') = n + 1
       /\ queue'[n + 1] = p /\ \A j \in 1..n : queue'[j] = queue[j]
  BY <1>2, <1>3, <1>8, <1>10, AppendProperties
<1>12. Live' = Live \cup {p}
  <2>1. Live' = {queue'[j] : j \in 1..n + 1}
    BY <1>11 DEF Live
  <2>2. \A j \in 1..n + 1 : j \in 1..n \/ j = n + 1
    BY <1>2
  <2>3. n + 1 \in 1..n + 1 /\ \A j \in 1..n : j \in 1..n + 1
    BY <1>2
  <2> QED BY <1>3, <1>11, <2>1, <2>2, <2>3
<1>13. /\ DOMAIN item' = Live' /\ \A x \in Live : item'[x] = item[x]
       /\ item'[p] = [key |-> arg.key, data |-> arg.data, expire |-> now + arg.ttl]
  BY <1>3, <1>9, <1>10, <1>12
<1>14. \A j \in 1..n + 1 : /\ Sizes'[j] = EntryLen(item'[queue'[j]].key, item'[queue'[j]].data)
                           /\ Buckets'[j] = hash(item'[queue'[j]].key)
  BY <1>11 DEF Sizes, Buckets, Taken, Bucket
<1>15. Sizes'[n + 1] = m /\ Buckets'[n + 1] = h
  <2>1. n + 1 \in 1..n + 1
    BY <1>2
  <2>2. item'[queue'[n + 1]].key = arg.key /\ item'[queue'[n + 1]].data = arg.data
    BY <1>11, <1>13
  <2> QED BY <1>1, <1>14, <2>1, <2>2 DEF entrylen
<1>16. ASSUME NEW j \in 1..n PROVE Sizes'[j] = Sizes[j] /\ Buckets'[j] = Buckets[j]
  <2>1. j \in 1..n + 1
    BY <1>2
  <2>2. item'[queue'[j]] = item[queue[j]]
    BY <1>3, <1>11, <1>13
  <2> QED BY <1>3, <1>14, <2>1, <2>2 DEF Taken
<1>17. Longer(queue, Sizes, queue', Sizes', p, m) /\ Longer(queue, Buckets, queue', Buckets', p, h)
  BY <1>2, <1>11, <1>15, <1>16 DEF Longer
<1>18. Inserted(p, m, h)
  BY <1>8, <1>9, <1>10, <1>11, <1>12, <1>13, <1>17 DEF Inserted
<1> QED BY <1>1, <1>5, <1>7, <1>18

LEMMA InsertKeeps ==
  ASSUME IInv, Insert
  PROVE  IInv'
<1>1. PICK p, m, h : p = writer /\ m = entrylen /\ h = hash(arg.key)
  OBVIOUS
<1>2. PICK n \in Nat : n = Len(queue)
  BY RingIs
<1>3. /\ queue' \in Seq(Positions)
      /\ p \in Positions /\ p \notin Live /\ p \notin Heads
      /\ writer' = p + m /\ oldest' = oldest /\ unused' = unused
      /\ link' = Added(link, p, h)
      /\ DOMAIN item' = Live' /\ Live' = Live \cup {p}
      /\ \A x \in Live : item'[x] = item[x]
      /\ item'[p] = [key |-> arg.key, data |-> arg.data, expire |-> now + arg.ttl]
      /\ Longer(queue, Sizes, queue', Sizes', p, m) /\ Longer(queue, Buckets, queue', Buckets', p, h)
      /\ m \in Nat \ {0} /\ p + m <= oldest
  <2>1. Inserted(p, m, h) /\ m \in Nat \ {0} /\ p + m <= oldest
    BY <1>1, InsertIs
  <2> QED BY <2>1 DEF Inserted
<1>4. /\ pc = "set" /\ ~Full /\ pc' = "idle" /\ arg' = Miss /\ pos' = pos /\ prevpos' = prevpos
      /\ loop' = loop /\ now' = now
  BY DEF Insert, walk
<1>5. /\ arg.key \in Keys /\ arg.data \in Data /\ arg.ttl \in 1..MAXTTL /\ now \in Nat
  BY <1>4, TimeAssumption DEF IInv, TypeOK
<1>6. h \in Heads
  BY <1>1, <1>5, HashAssumption
<1>7. /\ Measured(queue, Sizes) /\ Laid(queue, Buckets) /\ Linkage(queue, Buckets, link)
      /\ DOMAIN link = Heads \cup {queue[j] : j \in 1..Len(queue)} /\ DOMAIN item = Live
      /\ Live = {queue[j] : j \in 1..n}
  BY <1>2, RingIs DEF IInv
<1>8. /\ p \in Nat /\ oldest \in Nat /\ unused \in Nat /\ hsize \in Nat \ {0} /\ size \in Nat
      /\ hsize <= p /\ oldest <= unused /\ unused <= size /\ (oldest = unused => unused = size)
  BY <1>1, LengthFacts DEF IInv, Ordered
<1>9. Len(queue') = n + 1 /\ queue'[n + 1] = p /\ Buckets'[n + 1] = h
      /\ \A j \in 1..n : queue'[j] = queue[j] /\ Buckets'[j] = Buckets[j]
  BY <1>2, <1>3 DEF Longer
<1>10. Laid(queue', Buckets')
  <2>1. \A j \in 1..n + 1 : j \in 1..n \/ j = n + 1
    BY <1>2
  <2>2. \A j \in 1..n : /\ queue[j] \in Positions /\ queue[j] # 0 /\ queue[j] \notin Heads
                        /\ Buckets[j] \in Heads /\ queue[j] # p
    BY <1>2, <1>3, <1>7 DEF Laid
  <2>3. \A i, j \in 1..n : queue[i] = queue[j] => i = j
    BY <1>2, <1>7 DEF Laid
  <2>4. p # 0
    BY <1>8
  <2>5. \A j \in 1..n + 1 : /\ queue'[j] \in Positions /\ queue'[j] # 0
                            /\ queue'[j] \notin Heads /\ Buckets'[j] \in Heads
    BY <1>3, <1>6, <1>9, <2>1, <2>2, <2>4
  <2>6. \A i, j \in 1..n + 1 : queue'[i] = queue'[j] => i = j
    BY <1>9, <2>1, <2>2, <2>3
  <2> QED BY <1>2, <1>9, <2>5, <2>6 DEF Laid
<1>11. Linkage(queue', Buckets', link')
  <2>1. PICK q2, b2, lk2 : q2 = queue' /\ b2 = Buckets' /\ lk2 = link'
    OBVIOUS
  <2>2. lk2 = Added(link, p, h) /\ Held(queue, link)
    BY <1>3, <1>7, <2>1 DEF Held
  <2>3. Laid(q2, b2) /\ Longer(queue, Buckets, q2, b2, p, h)
    BY <1>3, <1>10, <2>1
  <2>4. Linkage(q2, b2, lk2)
    BY <1>6, <1>7, <2>2, <2>3, LinkageAdd
  <2> QED BY <2>1, <2>4
<1>12. Ordered(writer', oldest', unused')
  BY <1>3, <1>8 DEF Ordered
<1>13. \E x \in 0..Len(queue') : Spans(queue', Sizes', writer', oldest', unused', x)
  <2>1. PICK w \in 0..Len(queue) : Spans(queue, Sizes, p, oldest, unused, w)
    BY <1>1 DEF IInv
  <2>2. PICK q2, e2 : q2 = queue' /\ e2 = Sizes'
    OBVIOUS
  <2>3. Longer(queue, Sizes, q2, e2, p, m)
    BY <1>3, <2>2
  <2>4. Spans(q2, e2, p + m, oldest, unused, w)
    BY <1>3, <1>7, <1>8, <2>1, <2>3, SpansAdd
  <2>5. w \in 0..Len(queue')
    BY <1>2, <1>9, <2>1
  <2> QED BY <1>3, <2>2, <2>4, <2>5
<1>14. RingInv'
  BY <1>11, <1>12, <1>13, RingNow
<1>15. RingTyped'
  <2>1. DOMAIN link' = Heads \cup Live'
    BY <1>2, <1>3, <1>6, <1>7 DEF Added
  <2>2. \A x \in DOMAIN link : link[x] \in Nat
    BY Parts DEF RingTyped
  <2>3. link[h] \in Positions
    <3>1. link[h] = 0 \/ \E j \in 1..Len(queue) : link[h] = queue[j]
      BY <1>6, <1>7 DEF Linkage, HeadsLinked
    <3> QED BY <1>7, <3>1, XorFacts DEF Laid
  <2>4. xor(link[h], h) \in Nat /\ p \in Positions /\ h \in Positions
    BY <1>3, <1>6, <2>3, XorFacts
  <2>5. link[h] # 0 => xor(xor(link[link[h]], h), p) \in Nat
    <3>1. SUFFICES ASSUME link[h] # 0 PROVE xor(xor(link[link[h]], h), p) \in Nat
      OBVIOUS
    <3>2. PICK j \in 1..Len(queue) : First(queue, Buckets, h, j) /\ link[h] = queue[j]
      BY <1>6, <1>7, <3>1 DEF Linkage, HeadsLinked
    <3>3. Ahead(queue, Buckets, j, h)
      <4>1. \A i \in 1..Len(queue) : j < i => Buckets[i] # h
        BY <1>2, <3>2 DEF First
      <4>2. \A i \in 1..Len(queue) : ~Newer(Buckets, j, i)
        BY <3>2, <4>1 DEF Newer, First
      <4> QED BY <3>2, <4>2 DEF Ahead, First
    <3>4. PICK g \in Positions : Beneath(queue, Buckets, j, g)
      BY <1>7, AheadIs
    <3>5. link[link[h]] = xor(h, g)
      BY <1>7, <2>4, <3>2, <3>3, <3>4 DEF Linkage, EntriesLinked
    <3>6. xor(link[link[h]], h) = g
      BY <2>4, <3>4, <3>5, XorFacts
    <3> QED BY <2>4, <3>4, <3>6, XorFacts
  <2>6. \A x \in DOMAIN link' : link'[x] \in Nat
    BY <1>3, <1>8, <2>2, <2>4, <2>5 DEF Added
  <2>7. \A x \in Live' : item'[x].key \in Keys /\ item'[x].data \in Data /\ item'[x].expire \in Nat
    <3>1. \A x \in Live : item'[x].key \in Keys /\ item'[x].data \in Data /\ item'[x].expire \in Nat
      BY <1>3, Parts DEF RingTyped
    <3>2. item'[p].key \in Keys /\ item'[p].data \in Data /\ item'[p].expire \in Nat
      BY <1>3, <1>5
    <3> QED BY <1>3, <3>1, <3>2
  <2> QED BY <1>3, <1>12, <2>1, <2>6, <2>7 DEF RingTyped, Ordered
<1>16. CallTyped' /\ Walk' /\ Calls'
  BY <1>4, Parts DEF CallTyped, Walk, Calls
<1>17. Dates'
  <2>1. \A x \in Live : item'[x].expire <= now + MAXTTL
    BY <1>3 DEF IInv, Dates
  <2>2. item'[p].expire <= now + MAXTTL
    BY <1>3, <1>5, TimeAssumption
  <2>3. \A x \in Live' : item'[x].expire <= now' + MAXTTL
    BY <1>3, <1>4, <2>1, <2>2
  <2> QED BY <2>3 DEF Dates
<1>18. Lost'
  <2>1. oldest # unused => size - unused <= Slack
    <3>1. SUFFICES ASSUME m > size - hsize PROVE FALSE
      BY <1>1 DEF IInv, Lost
    <3> QED BY <1>3, <1>8, <3>1
  <2> QED BY <1>3, <1>8, <2>1 DEF Lost
<1> QED BY <1>14, <1>15, <1>16, <1>17, <1>18 DEF IInv, TypeOK, RingTyped, CallTyped, RingInv

(* The steps that leave the ring alone.                                     *)
LEMMA TooLargeKeeps ==
  ASSUME IInv, TooLarge
  PROVE  IInv'
<1>1. RingTyped' /\ RingInv' /\ Live' = Live /\ item' = item /\ oldest' = oldest /\ unused' = unused
  BY RingSame DEF TooLarge
<1>2. /\ oldest = unused /\ pc' = "idle" /\ pos' = pos /\ prevpos' = prevpos /\ loop' = loop
      /\ now' = now
  BY DEF TooLarge, Empty, walk
<1>3. CallTyped' /\ Walk' /\ Calls' /\ Lost' /\ Dates'
  BY <1>1, <1>2, Parts DEF CallTyped, Walk, Calls, Lost, Dates
<1> QED BY <1>1, <1>3 DEF IInv, TypeOK, RingTyped, CallTyped, RingInv

LEMMA TickKeeps ==
  ASSUME IInv, Tick
  PROVE  IInv'
<1>1. RingTyped' /\ RingInv' /\ Live' = Live /\ item' = item /\ oldest' = oldest /\ unused' = unused
  BY RingSame DEF Tick
<1>2. pc = "idle" /\ pc' = "idle" /\ loop' = loop /\ now' \in Times /\ now' > now
  BY DEF Tick, walk
<1>3. CallTyped' /\ Walk' /\ Calls'
  BY <1>2, Parts DEF CallTyped, Walk, Calls
<1>4. Lost'
  BY <1>1, <1>2 DEF IInv, Lost
<1>5. Dates'
  <2>1. now \in Nat /\ now' \in Nat /\ MAXTTL \in Nat
    BY <1>2, TimeAssumption DEF IInv, TypeOK
  <2>2. \A p \in Live : item[p].expire \in Nat /\ item[p].expire <= now + MAXTTL
    BY DEF IInv, TypeOK, Dates
  <2>3. \A p \in Live' : item'[p].expire <= now' + MAXTTL
    BY <1>1, <1>2, <2>1, <2>2
  <2> QED BY <2>3 DEF Dates
<1> QED BY <1>1, <1>3, <1>4, <1>5 DEF IInv, TypeOK, RingTyped, CallTyped, RingInv

LEMMA SetKeeps ==
  ASSUME IInv, NEW k \in Keys, NEW d \in Data, NEW ttl \in Ttls, cache_set(k, d, ttl)
  PROVE  IInv'
<1>1. RingTyped' /\ RingInv' /\ Live' = Live /\ item' = item /\ oldest' = oldest /\ unused' = unused
  BY RingSame DEF cache_set
<1>2. /\ pc = "idle" /\ pc' = "set" /\ loop' = loop /\ now' = now
      /\ arg' = [key |-> k, data |-> d, ttl |-> Min2(ttl, MAXTTL)]
      /\ KeyLen(k) <= MAXKEYLEN /\ DataLen(d) <= MAXDATALEN
  BY DEF cache_set, walk, Storable
<1>3. Min2(ttl, MAXTTL) \in 1..MAXTTL
  BY TimeAssumption DEF Min2, cache_set, Storable
<1>4. CallTyped' /\ Walk' /\ Calls'
  BY <1>2, <1>3, Parts DEF CallTyped, Walk, Calls
<1>5. Lost' /\ Dates'
  BY <1>1, <1>2 DEF IInv, Lost, Dates
<1> QED BY <1>1, <1>4, <1>5 DEF IInv, TypeOK, RingTyped, CallTyped, RingInv

LEMMA ReturnKeeps ==
  ASSUME IInv, pc = "get", UNCHANGED <<ring, now>>, pc' = "idle", loop' = 0
  PROVE  IInv'
<1>1. RingTyped' /\ RingInv' /\ Live' = Live /\ item' = item /\ oldest' = oldest /\ unused' = unused
  BY RingSame
<1>2. 0 \in 0..MaxLoop
  BY TimeAssumption
<1>3. CallTyped' /\ Walk' /\ Calls'
  BY <1>2, Parts DEF CallTyped, Walk, Calls
<1>4. Lost' /\ Dates'
  BY <1>1 DEF IInv, Lost, Dates
<1> QED BY <1>1, <1>3, <1>4 DEF IInv, TypeOK, RingTyped, CallTyped, RingInv

(* The walk: where it starts and where it goes on.                          *)
LEMMA GetKeeps ==
  ASSUME IInv, NEW k \in Keys, cache_get(k)
  PROVE  IInv'
<1>1. /\ RingTyped' /\ RingInv' /\ Live' = Live /\ item' = item /\ oldest' = oldest
      /\ unused' = unused /\ Buckets' = Buckets /\ queue' = queue
  BY RingSame DEF cache_get
<1>2. /\ pc' = "get" /\ arg' = [key |-> k] /\ loop' = 0 /\ now' = now
      /\ prevpos' = hash(k) /\ pos' = link[hash(k)]
  BY DEF cache_get
<1>3. PICK h \in Heads : h = hash(k)
  BY HashAssumption
<1>4. /\ Len(queue) \in Nat /\ Laid(queue, Buckets) /\ Linkage(queue, Buckets, link)
      /\ \A j \in 1..Len(queue) : Buckets[j] = hash(item[queue[j]].key)
  BY RingIs DEF IInv
<1>5. Walk'
  <2>1. CASE \E j \in 1..Len(queue) : First(queue, Buckets, h, j)
    <3>1. PICK j \in 1..Len(queue) : First(queue, Buckets, h, j)
      BY <2>1
    <3>2. link[h] = queue[j] /\ Buckets[j] = h /\ \A l \in j + 1..Len(queue) : Buckets[l] # h
      BY <1>4, <3>1 DEF Linkage, HeadsLinked, First
    <3>3. \A i \in 1..Len(queue) : j < i => Buckets[i] # h
      BY <1>4, <3>2
    <3>4. Ahead(queue, Buckets, j, h)
      <4>1. \A i \in 1..Len(queue) : ~Newer(Buckets, j, i)
        BY <3>2, <3>3 DEF Newer
      <4> QED BY <3>2, <4>1 DEF Ahead
    <3>5. Seen(j)' = {}
      BY <1>1, <1>2, <1>3, <3>3 DEF Seen
    <3>6. At(j)'
      <4>1. pos' = queue'[j] /\ Buckets'[j] = hash(arg'.key) /\ prevpos' = h /\ prevpos' \in Positions
        BY <1>1, <1>2, <1>3, <3>2, XorFacts
      <4>2. Ahead(queue', Buckets', j, prevpos')
        BY <1>1, <3>4, <4>1
      <4>3. Ahead(queue, Buckets, j, prevpos)'
        BY <4>2 DEF Ahead, Newer
      <4>4. loop' = Cardinality(Seen(j)')
        BY <1>2, <3>5, FS_EmptySet
      <4> QED BY <3>5, <4>1, <4>3, <4>4 DEF At
    <3> QED BY <1>1, <3>6 DEF Walk
  <2>2. CASE ~\E j \in 1..Len(queue) : First(queue, Buckets, h, j)
    <3>1. link[h] = 0
      BY <1>4, <2>2 DEF Linkage, HeadsLinked
    <3>2. ASSUME NEW i \in 1..Len(queue), item[queue[i]].key = k
          PROVE  FALSE
      <4>1. Buckets[i] = h
        BY <1>3, <1>4, <3>2
      <4> QED BY <1>4, <2>2, <4>1 DEF Linkage, Neighbours
    <3> QED BY <1>1, <1>2, <1>3, <3>1, <3>2 DEF Walk
  <2> QED BY <2>1, <2>2
<1>6. CallTyped' /\ Calls'
  <2>1. 0 \in 0..MaxLoop
    BY TimeAssumption
  <2> QED BY <1>2, <2>1, Parts DEF CallTyped, Calls
<1>7. Lost' /\ Dates'
  BY <1>1, <1>2 DEF IInv, Lost, Dates, cache_get
<1> QED BY <1>1, <1>5, <1>6, <1>7 DEF IInv, TypeOK, RingTyped, CallTyped, RingInv

LEMMA FollowKeeps ==
  ASSUME IInv, Follow
  PROVE  IInv'
<1>1. /\ RingTyped' /\ RingInv' /\ Live' = Live /\ item' = item /\ oldest' = oldest
      /\ unused' = unused /\ Buckets' = Buckets /\ queue' = queue
  BY RingSame DEF Follow
<1>2. /\ pc = "get" /\ pc' = pc /\ arg' = arg /\ now' = now /\ pos # 0
      /\ item[pos].key # arg.key /\ loop < MaxLoop
      /\ pos' = xor(prevpos, link[pos]) /\ prevpos' = pos /\ loop' = loop + 1
  BY DEF Follow, Matches, Beyond
<1>3. PICK h \in Heads : h = hash(arg.key)
  BY <1>2, HashAssumption DEF IInv, TypeOK
<1>4. /\ Len(queue) \in Nat /\ Laid(queue, Buckets) /\ Linkage(queue, Buckets, link)
      /\ \A i \in 1..Len(queue) : queue[i] \in Live /\ Buckets[i] = hash(item[queue[i]].key)
  BY RingIs DEF IInv
<1>5. PICK j \in 1..Len(queue) : At(j)
  BY <1>2 DEF IInv, Walk
<1>6. /\ pos = queue[j] /\ Buckets[j] = h /\ prevpos \in Positions
      /\ Ahead(queue, Buckets, j, prevpos) /\ loop = Cardinality(Seen(j))
      /\ \A i \in Seen(j) : item[queue[i]].key # arg.key
  BY <1>3, <1>5 DEF At
<1>7. PICK g \in Positions : Beneath(queue, Buckets, j, g)
  BY <1>4, AheadIs
<1>8. pos' = g
  <2>1. link[pos] = xor(prevpos, g)
    BY <1>4, <1>6, <1>7 DEF Linkage, EntriesLinked
  <2> QED BY <1>2, <1>6, <2>1, XorFacts
<1>9. ASSUME \E i \in 1..Len(queue) : Newer(Buckets, i, j) /\ g = queue[i]
      PROVE  Walk'
  <2>1. PICK i \in 1..Len(queue) : Newer(Buckets, i, j) /\ g = queue[i]
    BY <1>9
  <2>2. i < j /\ Buckets[i] = h /\ \A l \in i + 1..j - 1 : Buckets[l] # h
    BY <1>6, <2>1 DEF Newer
  <2>3. Seen(i)' = Seen(j) \cup {j}
    <3>1. \A l \in 1..Len(queue) : i < l /\ Buckets[l] = h <=> (j < l /\ Buckets[l] = h) \/ l = j
      <4>1. \A l \in 1..Len(queue) : i < l => l \in i + 1..j - 1 \/ l = j \/ j < l
        BY <1>4
      <4> QED BY <1>4, <1>6, <2>2, <4>1
    <3> QED BY <1>1, <1>2, <1>3, <3>1 DEF Seen
  <2>4. Cardinality(Seen(j) \cup {j}) = Cardinality(Seen(j)) + 1
    <3>1. IsFiniteSet(Seen(j))
      <4>1. IsFiniteSet(1..Len(queue)) /\ Seen(j) \subseteq 1..Len(queue)
        BY <1>4, FS_Interval DEF Seen
      <4> QED BY <4>1, FS_Subset
    <3>2. j \notin Seen(j)
      BY DEF Seen
    <3> QED BY <3>1, <3>2, FS_AddElement
  <2>5. At(i)'
    <3>1. Ahead(queue, Buckets, i, prevpos)'
      <4>1. Ahead(queue, Buckets, i, queue[j])
        BY <2>1 DEF Ahead
      <4>2. Ahead(queue', Buckets', i, prevpos')
        BY <1>1, <1>2, <1>6, <4>1
      <4> QED BY <4>2 DEF Ahead, Newer
    <3>2. pos' = queue'[i] /\ Buckets'[i] = hash(arg'.key) /\ prevpos' \in Positions
      BY <1>1, <1>2, <1>3, <1>4, <1>6, <1>8, <2>1, <2>2 DEF Laid
    <3>3. loop' = Cardinality(Seen(i)')
      BY <1>2, <1>6, <2>3, <2>4
    <3>4. \A l \in Seen(i)' : item'[queue'[l]].key # arg'.key
      BY <1>1, <1>2, <1>6, <2>3
    <3> QED BY <3>1, <3>2, <3>3, <3>4 DEF At
  <2> QED BY <1>1, <2>5 DEF Walk
<1>10. ASSUME g = 0, \A i \in 1..Len(queue) : ~Newer(Buckets, i, j)
       PROVE  Walk'
  <2>1. ASSUME NEW i \in 1..Len(queue), item[queue[i]].key = arg.key
        PROVE  FALSE
    <3>1. Buckets[i] = h
      BY <1>3, <1>4, <2>1
    <3>2. i # j
      BY <1>2, <1>6, <2>1
    <3>3. ~(j < i)
      BY <1>3, <1>6, <2>1, <3>1 DEF Seen
    <3>4. ~(i < j)
      BY <1>4, <1>6, <1>10, <3>1 DEF Linkage, Neighbours
    <3> QED BY <3>2, <3>3, <3>4
  <2>2. pos' = 0 /\ prevpos' \in Live' \cup Heads
    BY <1>1, <1>2, <1>4, <1>6, <1>8, <1>10
  <2>3. \A i \in 1..Len(queue') : item'[queue'[i]].key # arg'.key
    BY <1>1, <1>2, <2>1
  <2> QED BY <2>2, <2>3 DEF Walk
<1>11. Walk'
  BY <1>7, <1>9, <1>10 DEF Beneath
<1>12. CallTyped' /\ Calls'
  <2>1. loop' \in 0..MaxLoop
    BY <1>2, TimeAssumption DEF IInv, TypeOK
  <2> QED BY <1>2, <2>1, Parts DEF CallTyped, Calls
<1>13. Lost' /\ Dates'
  BY <1>1, <1>2 DEF IInv, Lost, Dates
<1> QED BY <1>1, <1>11, <1>12, <1>13 DEF IInv, TypeOK, RingTyped, CallTyped, RingInv

LEMMA StillKeeps ==
  ASSUME IInv, UNCHANGED vars
  PROVE  IInv'
<1>1. /\ RingTyped' /\ RingInv' /\ Live' = Live /\ item' = item /\ oldest' = oldest
      /\ unused' = unused /\ Buckets' = Buckets /\ queue' = queue
  BY RingSame DEF vars
<1>2. UNCHANGED <<pc, arg, pos, prevpos, loop, now>>
  BY DEF vars, walk
<1>3. CallTyped' /\ Calls' /\ Lost' /\ Dates'
  BY <1>1, <1>2, Parts DEF CallTyped, Calls, Lost, Dates, entrylen
<1>4. Walk'
  <2>1. Walk
    BY DEF IInv
  <2>2. ASSUME NEW j \in 1..Len(queue), At(j) PROVE At(j)'
    <3>1. Seen(j)' = Seen(j)
      BY <1>1, <1>2 DEF Seen
    <3>2. Ahead(queue, Buckets, j, prevpos)'
      BY <1>1, <1>2, <2>2 DEF At, Ahead, Newer
    <3> QED BY <1>1, <1>2, <2>2, <3>1, <3>2 DEF At
  <2> QED BY <1>1, <1>2, <2>1, <2>2 DEF Walk
<1> QED BY <1>1, <1>3, <1>4 DEF IInv, TypeOK, RingTyped, CallTyped, RingInv

LEMMA InitHolds ==
  Init => IInv
<1> SUFFICES ASSUME Init PROVE IInv
  OBVIOUS
<1>1. Len(queue) = 0 /\ queue = <<>> /\ Live = {} /\ 1..0 = {}
  BY DEF Init, Live
<1>2. /\ hsize \in Nat \ {0} /\ size \in Nat \ {0} /\ hsize <= size
      /\ writer = hsize /\ oldest = size /\ unused = size
  BY LengthFacts DEF Init
<1>3. TypeOK
  <2>1. queue \in Seq(Positions)
    BY <1>1
  <2>2. /\ DOMAIN link = Heads \cup Live /\ (\A p \in DOMAIN link : link[p] \in Nat)
        /\ DOMAIN item = Live
    BY <1>1 DEF Init
  <2>3. loop \in 0..MaxLoop /\ now \in Times /\ pc = "idle"
    BY TimeAssumption DEF Init
  <2> QED BY <1>1, <1>2, <2>1, <2>2, <2>3 DEF TypeOK
<1>4. Ordered(writer, oldest, unused)
  BY <1>2 DEF Ordered
<1>5. Spans(queue, Sizes, writer, oldest, unused, 0) /\ 0 \in 0..Len(queue)
  BY <1>1, <1>2 DEF Spans, EndToEnd, Inside, Apart
<1>6. Linkage(queue, Buckets, link)
  BY <1>1 DEF Init, Linkage, EntriesLinked, HeadsLinked, Neighbours
<1>7. Walk /\ Calls /\ Lost /\ Dates
  BY <1>1, <1>2 DEF Init, Walk, Calls, Lost, Dates
<1> QED BY <1>3, <1>4, <1>5, <1>6, <1>7 DEF IInv

(* cache.c: the invariant that carries all that is said of the ring.        *)
THEOREM InductiveInvariant == Spec => []IInv
<1>1. ASSUME IInv, [Next]_vars
      PROVE  IInv'
  <2>1. CASE Tick
    BY <1>1, <2>1, TickKeeps
  <2>2. CASE \E k \in Keys, d \in Data, ttl \in Ttls : cache_set(k, d, ttl)
    BY <1>1, <2>2, SetKeeps
  <2>3. CASE Evict
    BY <1>1, <2>3, EvictKeeps
  <2>4. CASE TooLarge
    BY <1>1, <2>4, TooLargeKeeps
  <2>5. CASE Insert
    BY <1>1, <2>5, InsertKeeps
  <2>6. CASE \E k \in Keys : cache_get(k)
    BY <1>1, <2>6, GetKeeps
  <2>7. CASE Found
    BY <1>1, <2>7, ReturnKeeps DEF Found, Return
  <2>8. CASE Follow
    BY <1>1, <2>8, FollowKeeps
  <2>9. CASE GiveUp
    BY <1>1, <2>9, ReturnKeeps DEF GiveUp, Return
  <2>10. CASE UNCHANGED vars
    BY <1>1, <2>10, StillKeeps
  <2> QED BY <1>1, <2>1, <2>2, <2>3, <2>4, <2>5, <2>6, <2>7, <2>8, <2>9, <2>10 DEF Next
<1> QED BY <1>1, InitHolds, PTL DEF Spec

(* MemorySound of cache_set() and cache_get(): whatever was stored and       *)
(* dropped, the entries lie end to end in the two parts of the memory, each  *)
(* chain links the entries of its bucket from the newest to the oldest, and  *)
(* no call reads a link where there is no entry.                            *)
THEOREM MemoryIsSound == Spec => []MemorySound
BY InductiveInvariant, SoundFollows, PTL

-----------------------------------------------------------------------------
(* The ring is a first-in first-out cache                                   *)

(* The state of the abstract cache, as Abs reads it off the ring.           *)
Entries == [j \in 1..Len(queue) |-> item[queue[j]]]
Used    == (unused - oldest) + (writer - hsize)
Call    == IF pc = "set" THEN arg ELSE Miss

LEMMA EntriesIs ==
  ASSUME IInv
  PROVE  /\ Len(queue) \in Nat /\ Len(Entries) = Len(queue)
         /\ Entries \in Seq({Entries[j] : j \in 1..Len(queue)})
         /\ \A j \in 1..Len(queue) : /\ Entries[j] = item[queue[j]] /\ Entries[j].key \in Keys
                                     /\ Entries[j].data \in Data /\ Entries[j].expire \in Nat
                                     /\ Buckets[j] = hash(Entries[j].key)
<1>1. Len(queue) \in Nat
  BY RingIs
<1>2. \A j \in 1..Len(queue) : Entries[j] = item[queue[j]] /\ queue[j] \in Live
                               /\ Buckets[j] = hash(item[queue[j]].key)
  BY RingIs DEF Entries
<1>3. Entries \in Seq({Entries[j] : j \in 1..Len(queue)}) /\ Len(Entries) = Len(queue)
  BY <1>1 DEF Entries
<1> QED BY <1>1, <1>2, <1>3 DEF IInv, TypeOK

LEMMA CallIs ==
  ASSUME IInv
  PROVE  /\ Call # Miss <=> pc = "set"
         /\ pc = "set" => Call = arg
BY MissAssumption DEF IInv, Calls, Call

LEMMA TickImplements ==
  ASSUME IInv, Tick
  PROVE  Abs!Tick
<1>1. queue' = queue /\ item' = item /\ Used' = Used
  BY DEF Tick, ring, Used
<1>2. Call = Miss /\ Call' = Call
  BY DEF Tick, Call
<1> QED BY <1>1, <1>2 DEF Abs!Tick, Tick, Used, Call

LEMMA SetImplements ==
  ASSUME IInv, NEW k \in Keys, NEW d \in Data, NEW ttl \in Ttls, cache_set(k, d, ttl)
  PROVE  \E t \in 1..MAXTTL : Abs!Set(k, d, t)
<1>1. queue' = queue /\ item' = item /\ Used' = Used
  BY DEF cache_set, ring, Used
<1>2. PICK t \in 1..MAXTTL : t = Min2(ttl, MAXTTL)
  BY TimeAssumption DEF Min2, cache_set, Storable
<1>3. Call = Miss /\ Call' = [key |-> k, data |-> d, ttl |-> t]
  BY <1>2 DEF cache_set, Call
<1>4. Abs!Set(k, d, t)
  BY <1>1, <1>3 DEF Abs!Set, cache_set, Used, Call
<1> QED BY <1>4

LEMMA EvictImplements ==
  ASSUME IInv, Evict
  PROVE  Abs!Evict
<1>1. ~Empty /\ pc = "set" /\ Full /\ pc' = "set" /\ arg' = arg /\ out' = out /\ now' = now
  BY DEF Evict
<1>2. PICK o, u, v : o = OldestNow /\ u = UnusedNow /\ v = WriterNow
  OBVIOUS
<1>3. PICK n \in Nat \ {0} : n = Len(queue)
  BY <1>1, <1>2, OldestIs
<1>4. /\ queue[1] = o /\ o \in Nat /\ u \in Nat /\ v \in Nat
      /\ hsize <= v /\ v <= o /\ o < u /\ u <= size
  BY <1>1, <1>2, OldestIs
<1>5. /\ writer' = v /\ queue' = Tail(queue)
      /\ oldest' = IF o + Sizes[1] = u THEN size ELSE o + Sizes[1]
      /\ unused' = IF o + Sizes[1] = u THEN size ELSE u
      /\ item' = [p \in DOMAIN item \ {o} |-> item[p]]
      /\ Len(queue') = n - 1 /\ \A j \in 1..n - 1 : queue'[j] = queue[j + 1]
  <2>1. Evicted(o, u, v)
    BY <1>2, EvictIs
  <2> QED BY <1>3, <2>1 DEF Evicted, Shorter
<1>6. /\ queue \in Seq(Positions) /\ DOMAIN item = Live
      /\ \A j \in 1..n : queue[j] \in Live /\ Sizes[j] = Taken(queue[j]) /\ Sizes[j] \in Nat
      /\ \A i, j \in 1..n : queue[i] = queue[j] => i = j
  BY <1>3, RingIs DEF Laid, Measured
<1>7. /\ Len(Entries) = n /\ Entries \in Seq({Entries[j] : j \in 1..n})
      /\ \A j \in 1..n : Entries[j] = item[queue[j]]
  BY <1>3, EntriesIs
<1>8. PICK S : S = {Entries[j] : j \in 1..n}
  OBVIOUS
<1>9. /\ Entries # <<>> /\ Head(Entries) = Entries[1]
      /\ Tail(Entries) \in [1..n - 1 -> S]
      /\ \A j \in 1..n - 1 : Tail(Entries)[j] = Entries[j + 1]
  <2>1. Entries # <<>>
    BY <1>7
  <2>2. /\ Tail(Entries) \in Seq(S) /\ Len(Tail(Entries)) = n - 1
        /\ \A j \in 1..n - 1 : Tail(Entries)[j] = Entries[j + 1]
    BY <1>7, <1>8, <2>1, HeadTailProperties
  <2>3. Head(Entries) = Entries[1]
    OBVIOUS
  <2> QED BY <2>1, <2>2, <2>3, LenProperties
<1>10. Entries' = Tail(Entries)
  <2>1. \A j \in 1..n - 1 : j + 1 \in 1..n /\ queue[j + 1] # o
    <3>1. \A j \in 1..n - 1 : j + 1 \in 1..n /\ 1 \in 1..n /\ j + 1 # 1
      OBVIOUS
    <3> QED BY <1>4, <1>6, <3>1
  <2>2. \A j \in 1..n - 1 : item'[queue'[j]] = Entries[j + 1]
    <3>1. SUFFICES ASSUME NEW j \in 1..n - 1 PROVE item'[queue'[j]] = Entries[j + 1]
      OBVIOUS
    <3>2. j + 1 \in 1..n /\ queue[j + 1] # o /\ queue'[j] = queue[j + 1]
      BY <1>5, <2>1
    <3>3. queue[j + 1] \in DOMAIN item \ {o} /\ Entries[j + 1] = item[queue[j + 1]]
      BY <1>6, <1>7, <3>2
    <3> QED BY <1>5, <3>2, <3>3
  <2>3. Entries' = [j \in 1..n - 1 |-> item'[queue'[j]]]
    BY <1>5 DEF Entries
  <2> QED BY <1>9, <2>2, <2>3
<1>11. PICK s \in Nat : s = Sizes[1] /\ s = EntryLen(Head(Entries).key, Head(Entries).data)
  <2>1. 1 \in 1..n
    OBVIOUS
  <2>2. Sizes[1] \in Nat /\ Sizes[1] = Taken(queue[1]) /\ Head(Entries) = item[queue[1]]
    BY <1>6, <1>7, <1>9, <2>1
  <2> QED BY <2>2 DEF Taken
<1>12. hsize \in Nat /\ size \in Nat /\ hsize <= size
  BY LengthFacts
<1>13. /\ writer \in Nat /\ oldest \in Nat /\ unused \in Nat /\ hsize <= writer
       /\ writer <= oldest /\ oldest <= unused /\ unused <= size
       /\ (oldest = unused => unused = size)
  BY DEF IInv, Ordered
<1>14. Used = (u - o) + (v - hsize)
  <2>1. CASE oldest = unused
    BY <1>2, <1>12, <1>13, <2>1 DEF Used, OldestNow, UnusedNow, WriterNow
  <2>2. CASE oldest # unused
    BY <1>2, <2>2 DEF Used, OldestNow, UnusedNow, WriterNow
  <2> QED BY <2>1, <2>2
<1>15. Used' = Used - s
  <2>1. Used' = (unused' - oldest') + (v - hsize)
    BY <1>5 DEF Used
  <2>2. CASE o + s = u
    <3>1. oldest' = size /\ unused' = size
      BY <1>5, <1>11, <2>2
    <3> QED BY <1>4, <1>11, <1>12, <1>14, <2>1, <2>2, <3>1
  <2>3. CASE o + s # u
    <3>1. oldest' = o + s /\ unused' = u
      BY <1>5, <1>11, <2>3
    <3> QED BY <1>4, <1>11, <1>12, <1>14, <2>1, <3>1
  <2> QED BY <2>2, <2>3
<1>16. Used + entrylen + Slack > size - hsize
  <2>1. entrylen \in Nat /\ Slack \in Nat /\ writer + entrylen > oldest
    <3>1. arg.key \in Keys /\ arg.data \in Data
      BY <1>1 DEF IInv, TypeOK
    <3> QED BY <1>1, <3>1, LengthFacts, SlackAssumption DEF entrylen, Full
  <2>2. oldest # unused => size - unused <= Slack \/ entrylen > size - hsize
    BY DEF IInv, Lost
  <2> QED BY <1>12, <1>13, <2>1, <2>2 DEF Used
<1>17. Call = arg /\ Call' = Call /\ Call # Miss
  BY <1>1, CallIs DEF Call
<1>18. /\ Call # Miss /\ Entries # <<>>
       /\ Used + EntryLen(Call.key, Call.data) + Slack > size - hsize
       /\ Entries' = Tail(Entries)
       /\ Used' = Used - EntryLen(Head(Entries).key, Head(Entries).data)
       /\ Call' = Call /\ out' = out /\ now' = now
  BY <1>1, <1>10, <1>11, <1>15, <1>16, <1>17, <1>9 DEF entrylen
<1> QED BY <1>18 DEF Abs!Evict, Entries, Used, Call

LEMMA InsertImplements ==
  ASSUME IInv, Insert
  PROVE  Abs!Store
<1>1. /\ pc = "set" /\ pc' = "idle" /\ oldest' = oldest /\ unused' = unused
      /\ writer' = writer + entrylen /\ out' = out /\ now' = now
  BY DEF Insert
<1>2. PICK n \in Nat : n = Len(queue)
  BY RingIs
<1>3. PICK r : r = [key |-> arg.key, data |-> arg.data, expire |-> now + arg.ttl]
  OBVIOUS
<1>4. /\ Len(queue') = n + 1 /\ \A j \in 1..n : item'[queue'[j]] = item[queue[j]]
      /\ item'[queue'[n + 1]] = r
  <2>1. PICK p, m, h : Inserted(p, m, h)
    BY InsertIs
  <2>2. \A j \in 1..n : queue[j] \in Live
    BY <1>2, RingIs
  <2> QED BY <1>2, <1>3, <2>1, <2>2 DEF Inserted, Longer
<1>5. PICK S : S = {Entries[j] : j \in 1..n} \cup {r}
  OBVIOUS
<1>6. /\ Len(Entries) = n /\ \A j \in 1..n : Entries[j] = item[queue[j]]
      /\ Entries \in Seq({Entries[j] : j \in 1..n})
  BY <1>2, EntriesIs
<1>7. Entries \in Seq(S) /\ r \in S
  <2>1. {Entries[j] : j \in 1..n} \subseteq S
    BY <1>5
  <2> QED BY <1>5, <1>6, <2>1
<1>8. Entries' = Append(Entries, r)
  <2>1. /\ Append(Entries, r) \in [1..n + 1 -> S] /\ Append(Entries, r)[n + 1] = r
        /\ \A j \in 1..n : Append(Entries, r)[j] = Entries[j]
    <3>1. /\ Append(Entries, r) \in Seq(S) /\ Len(Append(Entries, r)) = n + 1
          /\ Append(Entries, r)[n + 1] = r
          /\ \A j \in 1..n : Append(Entries, r)[j] = Entries[j]
      BY <1>6, <1>7, AppendProperties
    <3> QED BY <3>1, LenProperties
  <2>2. Entries' = [j \in 1..n + 1 |-> item'[queue'[j]]]
    BY <1>4 DEF Entries
  <2>3. \A j \in 1..n + 1 : j = n + 1 \/ j \in 1..n
    OBVIOUS
  <2>4. \A j \in 1..n + 1 : item'[queue'[j]] = Append(Entries, r)[j]
    BY <1>4, <1>6, <2>1, <2>3
  <2> QED BY <2>1, <2>2, <2>4
<1>9. Used' = Used + entrylen
  <2>1. arg.key \in Keys /\ arg.data \in Data
    BY <1>1 DEF IInv, TypeOK
  <2>2. entrylen \in Nat /\ hsize \in Nat
    BY <2>1, LengthFacts DEF entrylen
  <2>3. writer \in Nat /\ oldest \in Nat /\ unused \in Nat
    BY DEF IInv, Ordered
  <2> QED BY <1>1, <2>2, <2>3 DEF Used
<1>10. Call = arg /\ Call' = Miss /\ Call # Miss
  BY <1>1, CallIs DEF Call
<1>11. /\ Call # Miss
       /\ Entries' = Append(Entries, [key |-> Call.key, data |-> Call.data,
                                     expire |-> now + Call.ttl])
       /\ Used' = Used + EntryLen(Call.key, Call.data)
       /\ Call' = Miss /\ out' = out /\ now' = now
  BY <1>1, <1>3, <1>8, <1>9, <1>10 DEF entrylen
<1> QED BY <1>11 DEF Abs!Store, Entries, Used, Call

LEMMA TooLargeImplements ==
  ASSUME IInv, TooLarge
  PROVE  Abs!Refuse
<1>1. /\ pc = "set" /\ Full /\ Empty /\ pc' = "idle" /\ queue' = queue /\ item' = item
      /\ out' = out /\ now' = now /\ Used' = Used
  BY DEF TooLarge, ring, Used
<1>2. entrylen > size - hsize
  <2>1. arg.key \in Keys /\ arg.data \in Data
    BY <1>1 DEF IInv, TypeOK
  <2>2. entrylen \in Nat /\ hsize \in Nat /\ size \in Nat
    BY <2>1, LengthFacts DEF entrylen
  <2>3. writer = hsize /\ oldest = size /\ writer + entrylen > oldest
    BY <1>1, <2>2 DEF IInv, Ordered, Empty, Full
  <2> QED BY <2>2, <2>3
<1>3. Call = arg /\ Call' = Miss /\ Call # Miss
  BY <1>1, CallIs DEF Call
<1>4. /\ Call # Miss /\ EntryLen(Call.key, Call.data) > size - hsize
      /\ Entries' = Entries /\ Used' = Used /\ Call' = Miss /\ out' = out /\ now' = now
  BY <1>1, <1>2, <1>3 DEF entrylen, Entries
<1> QED BY <1>4 DEF Abs!Refuse, Entries, Used, Call

(* A lookup that is under way.                                              *)
LEMMA SilentImplements ==
  ASSUME IInv, UNCHANGED <<ring, out, now>>, Call' = Call
  PROVE  UNCHANGED Abs!vars
<1>1. queue' = queue /\ item' = item /\ Used' = Used
  BY DEF ring, Used
<1>2. Entries' = Entries
  BY <1>1 DEF Entries
<1> QED BY <1>1, <1>2 DEF Abs!vars, Entries, Used, Call

LEMMA Greatest ==
  ASSUME NEW n \in Nat, NEW S \in SUBSET (1..n), S # {}
  PROVE  \E x \in S : \A y \in S : y <= x
<1>1. PICK R : R = OpToRel(<, Nat)
  OBVIOUS
<1>2. IsWellFoundedOn(R, Nat)
  BY <1>1, NatLessThanWellFounded
<1>3. \A a, b \in Nat : a < b => <<a, b>> \in R
  BY <1>1 DEF OpToRel
<1>4. PICK T : T = {n - y : y \in S}
  OBVIOUS
<1>5. T \subseteq Nat /\ T # {}
  <2>1. \A y \in S : n - y \in Nat
    OBVIOUS
  <2>2. PICK y \in S : TRUE
    OBVIOUS
  <2>3. n - y \in T
    BY <1>4
  <2> QED BY <1>4, <2>1, <2>3
<1>6. PICK m \in T : \A k \in T : ~(<<k, m>> \in R)
  BY <1>2, <1>5, WFMin
<1>7. PICK x \in S : m = n - x
  BY <1>4
<1>8. ASSUME NEW y \in S PROVE y <= x
  <2>1. n - y \in T /\ n - y \in Nat /\ m \in Nat
    BY <1>4, <1>5
  <2>2. ~(n - y < m)
    BY <1>3, <1>6, <2>1
  <2> QED BY <1>7, <2>1, <2>2
<1> QED BY <1>8

(* What a lookup answers, as the abstract cache has it.                     *)
Hits(k)  == {j \in 1..Len(Entries) : Entries[j].key = k}
Above(k, j) == {i \in j + 1..Len(Entries) : hash(Entries[i].key) = hash(k)}
Reply(k) ==
  LET last == CHOOSE j \in Hits(k) : \A h \in Hits(k) : h <= j
  IN [key    |-> k,
      answer |-> IF Hits(k) # {} /\ Abs!Cardinality(Above(k, last)) <= MaxLoop
                    /\ Entries[last].expire >= now
                 THEN [data |-> Entries[last].data, ttl |-> Entries[last].expire - now]
                 ELSE Miss]

LEMMA SameCardinality ==
  ASSUME NEW S
  PROVE  Abs!Cardinality(S) = Cardinality(S)
BY Zenon DEF Abs!Cardinality, Cardinality

LEMMA LastHit ==
  ASSUME NEW k, NEW j \in Hits(k), \A h \in Hits(k) : h <= j
  PROVE  Reply(k) = [key    |-> k,
                     answer |-> IF /\ Cardinality(Above(k, j)) <= MaxLoop
                                   /\ Entries[j].expire >= now
                                THEN [data |-> Entries[j].data, ttl |-> Entries[j].expire - now]
                                ELSE Miss]
<1>1. PICK last : last = CHOOSE i \in Hits(k) : \A h \in Hits(k) : h <= i
  OBVIOUS
<1>2. last \in Hits(k) /\ \A h \in Hits(k) : h <= last
  BY <1>1
<1>3. last = j
  <2>1. last <= j /\ j <= last /\ last \in Int /\ j \in Int
    BY <1>2 DEF Hits
  <2> QED BY <2>1
<1>4. Hits(k) # {}
  OBVIOUS
<1>5. Abs!Cardinality(Above(k, last)) = Cardinality(Above(k, j))
  BY <1>3, SameCardinality
<1> QED BY <1>1, <1>3, <1>4, <1>5 DEF Reply

LEMMA GetIs ==
  ASSUME IInv, pc = "get", pc' = "idle", UNCHANGED <<ring, now>>, out' = Reply(arg.key)
  PROVE  \E k \in Keys : Abs!Get(k)
<1>1. PICK k \in Keys : k = arg.key
  BY DEF IInv, TypeOK
<1>2. queue' = queue /\ item' = item /\ Used' = Used
  BY DEF ring, Used
<1>3. Entries' = Entries
  BY <1>2 DEF Entries
<1>4. Call = Miss /\ Call' = Miss
  BY DEF Call
<1>5. Abs!Get(k)
  <2>1. Call = Miss /\ out' = Reply(k) /\ Entries' = Entries /\ Used' = Used /\ Call' = Call /\ now' = now
    BY <1>1, <1>2, <1>3, <1>4
  <2> QED BY <2>1, Zenon DEF Abs!Get, Entries, Used, Call, Reply, Hits, Above
<1> QED BY <1>5

(* The entry that is found is the newest with its key, and those in front   *)
(* of it on the chain have been counted.                                    *)
LEMMA StandsAt ==
  ASSUME IInv, pc = "get", NEW j \in 1..Len(queue), At(j)
  PROVE  /\ pos = queue[j] /\ pos # 0 /\ Entries[j] = item[pos]
         /\ Above(arg.key, j) = Seen(j) /\ loop = Cardinality(Seen(j)) /\ loop <= MaxLoop
         /\ \A i \in Hits(arg.key) : i <= j
<1>1. /\ Len(queue) \in Nat /\ Len(Entries) = Len(queue)
      /\ \A i \in 1..Len(queue) : Entries[i] = item[queue[i]] /\ Buckets[i] = hash(Entries[i].key)
  BY EntriesIs
<1>2. pos = queue[j] /\ pos # 0 /\ loop = Cardinality(Seen(j)) /\ loop <= MaxLoop
  BY RingIs, TimeAssumption DEF At, Laid, IInv, TypeOK
<1>3. Above(arg.key, j) = Seen(j)
  <2>1. \A i : i \in j + 1..Len(queue) <=> i \in 1..Len(queue) /\ j < i
    BY <1>1
  <2> QED BY <1>1, <2>1 DEF Above, Seen
<1>4. ASSUME NEW i \in Hits(arg.key), j < i PROVE FALSE
  <2>1. i \in 1..Len(queue) /\ item[queue[i]].key = arg.key /\ Buckets[i] = hash(arg.key)
    BY <1>1 DEF Hits
  <2>2. i \in Seen(j)
    BY <1>4, <2>1 DEF Seen
  <2> QED BY <2>1, <2>2 DEF At
<1>5. \A i \in Hits(arg.key) : i <= j
  BY <1>1, <1>4 DEF Hits
<1> QED BY <1>1, <1>2, <1>3, <1>5

LEMMA FoundImplements ==
  ASSUME IInv, Found
  PROVE  \E k \in Keys : Abs!Get(k)
<1>1. /\ pc = "get" /\ pos # 0 /\ item[pos].key = arg.key /\ pc' = "idle"
      /\ UNCHANGED <<ring, now>>
      /\ out' = [key    |-> arg.key,
                 answer |-> IF item[pos].expire >= now
                            THEN [data |-> item[pos].data,
                                  ttl  |-> Min2(item[pos].expire - now, MAXTTL)]
                            ELSE Miss]
  BY DEF Found, Return, Matches, Fresh
<1>2. PICK j \in 1..Len(queue) : At(j)
  BY <1>1 DEF IInv, Walk
<1>3. /\ pos = queue[j] /\ Entries[j] = item[pos] /\ Above(arg.key, j) = Seen(j)
      /\ loop = Cardinality(Seen(j)) /\ loop <= MaxLoop
      /\ \A i \in Hits(arg.key) : i <= j
  BY <1>1, <1>2, StandsAt
<1>4. j \in Hits(arg.key)
  BY <1>1, <1>3, EntriesIs DEF Hits
<1>5. item[pos].expire >= now => Min2(item[pos].expire - now, MAXTTL) = item[pos].expire - now
  <2>1. pos \in Live
    BY <1>3, RingIs
  <2>2. item[pos].expire \in Nat /\ item[pos].expire <= now + MAXTTL /\ now \in Nat /\ MAXTTL \in Nat
    BY <2>1, TimeAssumption DEF IInv, TypeOK, Dates
  <2> QED BY <2>2 DEF Min2
<1>6. Reply(arg.key) = [key    |-> arg.key,
                        answer |-> IF /\ Cardinality(Above(arg.key, j)) <= MaxLoop
                                      /\ Entries[j].expire >= now
                                   THEN [data |-> Entries[j].data, ttl |-> Entries[j].expire - now]
                                   ELSE Miss]
  BY <1>3, <1>4, LastHit
<1>7. out' = Reply(arg.key)
  BY <1>1, <1>3, <1>5, <1>6
<1> QED BY <1>1, <1>7, GetIs

(* Nothing was found: there is no entry for the key, or too many came       *)
(* before it.                                                               *)
LEMMA GiveUpImplements ==
  ASSUME IInv, GiveUp
  PROVE  \E k \in Keys : Abs!Get(k)
<1>1. /\ pc = "get" /\ (pos # 0 => item[pos].key # arg.key /\ loop >= MaxLoop) /\ pc' = "idle"
      /\ UNCHANGED <<ring, now>>
      /\ out' = [key |-> arg.key, answer |-> Miss]
  BY DEF GiveUp, Return, Matches
<1>2. PICK n \in Nat : n = Len(queue)
  BY RingIs
<1>3. Len(Entries) = n /\ \A j \in 1..n : Entries[j] = item[queue[j]]
                                        /\ Buckets[j] = hash(Entries[j].key)
  BY <1>2, EntriesIs
<1>4. Reply(arg.key) = [key |-> arg.key, answer |-> Miss]
  <2>1. CASE Hits(arg.key) = {}
    BY <2>1 DEF Reply
  <2>2. CASE Hits(arg.key) # {}
    <3>1. Hits(arg.key) \in SUBSET (1..n)
      BY <1>3 DEF Hits
    <3>2. PICK last \in Hits(arg.key) : \A h \in Hits(arg.key) : h <= last
      BY <2>2, <3>1, Greatest
    <3>3. last \in 1..n /\ Entries[last].key = arg.key
      BY <1>3, <3>2 DEF Hits
    <3>4. PICK j \in 1..n : At(j)
      BY <1>1, <1>2, <1>3, <3>3 DEF IInv, Walk
    <3>5. /\ pos = queue[j] /\ pos # 0 /\ Entries[j] = item[pos]
          /\ Above(arg.key, j) = Seen(j) /\ loop = Cardinality(Seen(j)) /\ loop <= MaxLoop
          /\ last <= j
      BY <1>1, <1>2, <3>2, <3>4, StandsAt
    <3>6. last < j
      <4>1. last # j
        BY <1>1, <3>3, <3>5
      <4> QED BY <3>3, <3>5, <4>1
    <3>7. Above(arg.key, j) \cup {j} \in SUBSET Above(arg.key, last)
      <4>1. hash(Entries[j].key) = hash(arg.key)
        BY <1>3, <3>4 DEF At
      <4>2. \A i : i \in j + 1..n => i \in last + 1..n
        BY <3>3, <3>6
      <4>3. j \in last + 1..n
        BY <3>3, <3>6
      <4> QED BY <1>3, <4>1, <4>2, <4>3 DEF Above
    <3>8. IsFiniteSet(Above(arg.key, last)) /\ IsFiniteSet(Above(arg.key, j))
      <4>1. IsFiniteSet(1..n)
        BY FS_Interval
      <4>2. Above(arg.key, last) \in SUBSET (1..n) /\ Above(arg.key, j) \in SUBSET (1..n)
        BY <1>3, <3>3 DEF Above
      <4> QED BY <4>1, <4>2, FS_Subset
    <3>9. Cardinality(Above(arg.key, j) \cup {j}) = Cardinality(Above(arg.key, j)) + 1
      <4>1. j \notin Above(arg.key, j)
        BY DEF Above
      <4> QED BY <3>8, <4>1, FS_AddElement
    <3>10. Cardinality(Above(arg.key, j) \cup {j}) <= Cardinality(Above(arg.key, last))
      BY <3>7, <3>8, FS_Subset
    <3>11. ~(Cardinality(Above(arg.key, last)) <= MaxLoop)
      <4>1. loop >= MaxLoop /\ loop = Cardinality(Above(arg.key, j))
        BY <1>1, <3>5
      <4>2. loop \in Nat /\ MaxLoop \in Nat /\ Cardinality(Above(arg.key, last)) \in Nat
        BY <3>8, FS_CardinalityType, TimeAssumption DEF IInv, TypeOK
      <4> QED BY <3>9, <3>10, <4>1, <4>2
    <3> QED BY <3>2, <3>11, LastHit
  <2> QED BY <2>1, <2>2
<1> QED BY <1>1, <1>4, GetIs

LEMMA InitImplements ==
  Init => Abs!Init
<1> SUFFICES ASSUME Init PROVE Abs!Init
  OBVIOUS
<1>1. Entries = <<>>
  BY DEF Init, Entries
<1>2. Used = 0 /\ Call = Miss
  BY LengthFacts DEF Init, Used, Call
<1> QED BY <1>1, <1>2 DEF Init, Abs!Init, Entries, Used, Call

(* ImplementsFifo of cache_set() and cache_get(): what they do to the bytes  *)
(* of the ring is what they would do to a queue of entries.  Nothing is      *)
(* dropped but the oldest, for want of room, and a lookup answers with the   *)
(* newest entry of its key that was not dropped, if not too many others are  *)
(* in front of it.                                                          *)
THEOREM RingIsFifo == Spec => ImplementsFifo
<1>1. ASSUME IInv, [Next]_vars
      PROVE  [Abs!Next]_(Abs!vars)
  <2>1. CASE Tick
    BY <1>1, <2>1, TickImplements DEF Abs!Next
  <2>2. CASE \E k \in Keys, d \in Data, ttl \in Ttls : cache_set(k, d, ttl)
    BY <1>1, <2>2, SetImplements DEF Abs!Next
  <2>3. CASE Evict
    BY <1>1, <2>3, EvictImplements DEF Abs!Next
  <2>4. CASE TooLarge
    BY <1>1, <2>4, TooLargeImplements DEF Abs!Next
  <2>5. CASE Insert
    BY <1>1, <2>5, InsertImplements DEF Abs!Next
  <2>6. CASE \E k \in Keys : cache_get(k)
    <3>1. UNCHANGED <<ring, out, now>> /\ Call' = Call
      BY <2>6 DEF cache_get, Call
    <3> QED BY <1>1, <3>1, SilentImplements
  <2>7. CASE Found
    BY <1>1, <2>7, FoundImplements DEF Abs!Next
  <2>8. CASE Follow
    <3>1. UNCHANGED <<ring, out, now>> /\ Call' = Call
      BY <2>8 DEF Follow, Call
    <3> QED BY <1>1, <3>1, SilentImplements
  <2>9. CASE GiveUp
    BY <1>1, <2>9, GiveUpImplements DEF Abs!Next
  <2>10. CASE UNCHANGED vars
    <3>1. UNCHANGED <<ring, out, now>> /\ Call' = Call
      BY <2>10 DEF vars, Call
    <3> QED BY <1>1, <3>1, SilentImplements
  <2> QED BY <1>1, <2>1, <2>2, <2>3, <2>4, <2>5, <2>6, <2>7, <2>8, <2>9, <2>10 DEF Next
<1> QED BY <1>1, InitImplements, InductiveInvariant, PTL DEF Spec, ImplementsFifo, Abs!Spec
=============================================================================
