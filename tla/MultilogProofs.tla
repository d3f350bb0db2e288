--------------------------- MODULE MultilogProofs ---------------------------
(***************************************************************************)
(* multilog keeps its log, for any input, any sizes, any number of old      *)
(* files and any number of crashes, signals and failing processor runs.     *)
(*                                                                         *)
(* Tokens are numbered as they are read.  That every token is in the log at *)
(* most once and in order is therefore a matter of sets of tokens lying     *)
(* Below one another: the old files, the file between current and them, and *)
(* current; and behind these what multilog has in its buffers.              *)
(***************************************************************************)
EXTENDS Multilog, SequenceTheorems, WellFoundedInduction, TLAPS

Below(S, T) == \A a \in S, b \in T : a < b
Ascending(s) == \A i, j \in 1 .. Len(s) : i < j => s[i] < s[j]

(* The same for a sequence of sequences.                                    *)
Ranked(q) ==
  /\ \A i \in 1 .. Len(q) : Ascending(q[i])
  /\ \A i, j \in 1 .. Len(q) : i < j => Below(Elements(q[i]), Elements(q[j]))
AllOf(q) == UNION {Elements(p) : p \in Elements(q)}

-----------------------------------------------------------------------------
(* Sequences of tokens and their elements.                                  *)

LEMMA ElementsAre ==
  ASSUME NEW T, NEW s \in Seq(T)
  PROVE  /\ Elements(s) \subseteq T
         /\ \A x : x \in Elements(s) <=> \E i \in 1 .. Len(s) : x = s[i]
         /\ (s = <<>>) <=> (Elements(s) = {})
<1>1. Elements(s) \subseteq T
  BY DEF Elements
<1>2. \A x : x \in Elements(s) <=> \E i \in 1 .. Len(s) : x = s[i]
  BY DEF Elements
<1>3. ASSUME s # <<>> PROVE Elements(s) # {}
  <2>1. 1 \in 1 .. Len(s)
    BY <1>3, EmptySeq, LenProperties
  <2> QED BY <2>1, <1>2
<1>4. ASSUME s = <<>> PROVE Elements(s) = {}
  BY <1>4 DEF Elements
<1> QED BY <1>1, <1>2, <1>3, <1>4

LEMMA NoElements == Elements(<<>>) = {} /\ Ascending(<<>>) /\ AllOf(<<>>) = {} /\ Ranked(<<>>)
  BY DEF Elements, Ascending, AllOf, Ranked

LEMMA OneElement ==
  ASSUME NEW x
  PROVE  Elements(<<x>>) = {x} /\ Ascending(<<x>>)
  BY DEF Elements, Ascending

LEMMA Joined ==
  ASSUME NEW a \in Seq(Tokens), NEW b \in Seq(Tokens)
  PROVE  /\ a \o b \in Seq(Tokens) /\ Len(a \o b) = Len(a) + Len(b)
         /\ Elements(a \o b) = Elements(a) \cup Elements(b)
         /\ Ascending(a) /\ Ascending(b) /\ Below(Elements(a), Elements(b)) => Ascending(a \o b)
<1> DEFINE c == a \o b
<1>1. /\ c \in Seq(Tokens) /\ Len(c) = Len(a) + Len(b) /\ Len(a) \in Nat /\ Len(b) \in Nat
      /\ \A i \in 1 .. Len(c) : c[i] = IF i <= Len(a) THEN a[i] ELSE b[i - Len(a)]
  BY ConcatProperties
<1> HIDE DEF c
<1>2. ASSUME NEW i \in 1 .. Len(a) PROVE i \in 1 .. Len(c) /\ c[i] = a[i]
  BY <1>1
<1>3. ASSUME NEW i \in 1 .. Len(b) PROVE i + Len(a) \in 1 .. Len(c) /\ c[i + Len(a)] = b[i]
  <2>1. i + Len(a) \in 1 .. Len(c) /\ ~(i + Len(a) <= Len(a)) /\ (i + Len(a)) - Len(a) = i
    BY <1>1
  <2> QED BY <2>1, <1>1
<1>4. ASSUME NEW i \in 1 .. Len(c)
      PROVE  i \in 1 .. Len(a) \/ (i - Len(a) \in 1 .. Len(b) /\ i > Len(a) /\ c[i] = b[i - Len(a)])
  BY <1>1
<1>5. Elements(a \o b) = Elements(a) \cup Elements(b)
  <2>1. Elements(a) \subseteq Elements(c)
    BY <1>2 DEF Elements
  <2>2. Elements(b) \subseteq Elements(c)
    BY <1>3 DEF Elements
  <2>3. Elements(c) \subseteq Elements(a) \cup Elements(b)
    BY <1>2, <1>4 DEF Elements
  <2> QED BY <2>1, <2>2, <2>3 DEF c
<1>6. ASSUME Ascending(a), Ascending(b), Below(Elements(a), Elements(b))
      PROVE  Ascending(c)
  <2> SUFFICES ASSUME NEW i \in 1 .. Len(c), NEW j \in 1 .. Len(c), i < j
               PROVE  c[i] < c[j]
    BY DEF Ascending
  <2>1. CASE i \in 1 .. Len(a) /\ j \in 1 .. Len(a)
    BY <2>1, <1>2, <1>6 DEF Ascending
  <2>2. CASE i \in 1 .. Len(a) /\ j \notin 1 .. Len(a)
    <3>1. a[i] \in Elements(a) /\ b[j - Len(a)] \in Elements(b)
      BY <2>2, <1>4 DEF Elements
    <3> QED BY <3>1, <2>2, <1>2, <1>4, <1>6 DEF Below
  <2>3. CASE i \notin 1 .. Len(a)
    <3>1. j \notin 1 .. Len(a) /\ i - Len(a) < j - Len(a)
      BY <2>3, <1>1
    <3> QED BY <3>1, <2>3, <1>4, <1>6 DEF Ascending
  <2> QED BY <2>1, <2>2, <2>3
<1> QED BY <1>1, <1>5, <1>6 DEF c

LEMMA Cut ==
  ASSUME NEW s \in Seq(Tokens), NEW n \in 0 .. Len(s)
  PROVE  LET a == SubSeq(s, 1, n)  b == SubSeq(s, n + 1, Len(s))
         IN /\ a \in Seq(Tokens) /\ b \in Seq(Tokens) /\ Len(a) = n
            /\ Elements(s) = Elements(a) \cup Elements(b)
            /\ Elements(a) = {s[i] : i \in 1 .. n}
            /\ Ascending(s) => /\ Ascending(a) /\ Ascending(b)
                               /\ Below(Elements(a), Elements(b))
            /\ n = Len(s) => a = s
<1> DEFINE a == SubSeq(s, 1, n)  b == SubSeq(s, n + 1, Len(s))
<1>0. Len(s) \in Nat
  OBVIOUS
<1>1. a \in Seq(Tokens) /\ Len(a) = n /\ \A i \in 1 .. n : a[i] = s[i]
  BY <1>0, SubSeqProperties
<1>2. b \in Seq(Tokens) /\ Len(b) = Len(s) - n /\ \A i \in 1 .. Len(s) - n : b[i] = s[n + i]
  <2>1. n + 1 \in 1 .. Len(s) + 1 /\ Len(s) \in n .. Len(s)
    BY <1>0
  <2>2. b \in Seq(Tokens) /\ Len(b) = IF n + 1 <= Len(s) THEN Len(s) - (n + 1) + 1 ELSE 0
    BY <2>1, <1>0, SubSeqProperties
  <2>3. \A i \in 1 .. Len(s) - (n + 1) + 1 : b[i] = s[n + 1 + i - 1]
    BY <2>1, <1>0, SubSeqProperties
  <2>4. \A i \in 1 .. Len(s) - n : n + 1 + i - 1 = n + i
    BY <1>0
  <2> QED BY <2>2, <2>3, <2>4, <1>0
<1> HIDE DEF a, b
<1>3. Elements(a) = {s[i] : i \in 1 .. n}
  BY <1>1 DEF Elements
<1>4. Elements(b) = {s[i] : i \in n + 1 .. Len(s)}
  <2>1. \A i \in 1 .. Len(s) - n : n + i \in n + 1 .. Len(s)
    BY <1>0
  <2>2. \A i \in n + 1 .. Len(s) : i - n \in 1 .. Len(s) - n /\ n + (i - n) = i
    BY <1>0
  <2>3. Elements(b) \subseteq {s[i] : i \in n + 1 .. Len(s)}
    BY <2>1, <1>2 DEF Elements
  <2>4. ASSUME NEW i \in n + 1 .. Len(s) PROVE s[i] \in Elements(b)
    <3>1. i - n \in 1 .. Len(b) /\ b[i - n] = s[i]
      BY <2>2, <1>2
    <3> QED BY <3>1 DEF Elements
  <2> QED BY <2>3, <2>4
<1>5. Elements(s) = Elements(a) \cup Elements(b)
  <2>1. \A i \in 1 .. Len(s) : i \in 1 .. n \/ i \in n + 1 .. Len(s)
    BY <1>0
  <2>2. \A i : i \in 1 .. n \/ i \in n + 1 .. Len(s) => i \in 1 .. Len(s)
    BY <1>0
  <2> QED BY <2>1, <2>2, <1>3, <1>4 DEF Elements
<1>6. ASSUME Ascending(s)
      PROVE  Ascending(a) /\ Ascending(b) /\ Below(Elements(a), Elements(b))
  <2>1. Ascending(a)
    BY <1>0, <1>1, <1>6 DEF Ascending
  <2>2. Ascending(b)
    <3>1. \A i \in 1 .. Len(s) - n : n + i \in 1 .. Len(s)
      BY <1>0
    <3>2. \A i, j \in 1 .. Len(s) - n : i < j => n + i < n + j
      BY <1>0
    <3> QED BY <3>1, <3>2, <1>2, <1>6 DEF Ascending
  <2>3. \A i \in 1 .. n, j \in n + 1 .. Len(s) : i \in 1 .. Len(s) /\ j \in 1 .. Len(s) /\ i < j
    BY <1>0
  <2> QED BY <2>1, <2>2, <2>3, <1>3, <1>4, <1>6 DEF Below, Ascending
<1>7. ASSUME n = Len(s) PROVE a = s
  BY <1>1, <1>7, SeqEqual
<1> QED BY <1>1, <1>2, <1>3, <1>5, <1>6, <1>7 DEF a, b

LEMMA FirstAndRest ==
  ASSUME NEW s \in Seq(Tokens), s # <<>>
  PROVE  /\ Head(s) \in Tokens /\ Tail(s) \in Seq(Tokens)
         /\ Elements(s) = {Head(s)} \cup Elements(Tail(s))
         /\ Ascending(s) => Ascending(Tail(s)) /\ Below({Head(s)}, Elements(Tail(s)))
         /\ Tail(s) # <<>> => Tail(s)[Len(Tail(s))] = s[Len(s)]
         /\ Tail(s) = <<>> => Head(s) = s[Len(s)]
<1>1. Len(s) \in Nat /\ Len(s) > 0 /\ Head(s) = s[1]
  BY EmptySeq, LenProperties, HeadTailProperties
<1>2. Tail(s) \in Seq(Tokens) /\ Len(Tail(s)) = Len(s) - 1 /\ \A i \in 1 .. Len(s) - 1 : Tail(s)[i] = s[i + 1]
  BY <1>1, HeadTailProperties
<1>3. \A i \in 1 .. Len(s) - 1 : i + 1 \in 1 .. Len(s) /\ 1 < i + 1
  BY <1>1
<1>4. \A i \in 1 .. Len(s) : i = 1 \/ (i - 1 \in 1 .. Len(s) - 1 /\ (i - 1) + 1 = i)
  BY <1>1
<1>5. 1 \in 1 .. Len(s) /\ s[1] \in Tokens
  BY <1>1
<1>6. Elements(s) = {s[1]} \cup Elements(Tail(s))
  <2>1. s[1] \in Elements(s)
    BY <1>5 DEF Elements
  <2>2. Elements(Tail(s)) \subseteq Elements(s)
    BY <1>2, <1>3 DEF Elements
  <2>3. ASSUME NEW i \in 1 .. Len(s) PROVE s[i] \in {s[1]} \cup Elements(Tail(s))
    <3>1. CASE i = 1
      BY <3>1
    <3>2. CASE i - 1 \in 1 .. Len(s) - 1 /\ (i - 1) + 1 = i
      <4>1. Tail(s)[i - 1] = s[i] /\ i - 1 \in 1 .. Len(Tail(s))
        BY <1>2, <3>2
      <4> QED BY <4>1 DEF Elements
    <3> QED BY <3>1, <3>2, <1>4
  <2>4. Elements(s) \subseteq {s[1]} \cup Elements(Tail(s))
    BY <2>3 DEF Elements
  <2> QED BY <2>1, <2>2, <2>4
<1>7. ASSUME Ascending(s) PROVE Ascending(Tail(s)) /\ Below({s[1]}, Elements(Tail(s)))
  <2>1. \A i, j \in 1 .. Len(s) - 1 : i < j => i + 1 < j + 1
    BY <1>1
  <2> QED BY <2>1, <1>2, <1>3, <1>5, <1>7 DEF Ascending, Below, Elements
<1>8. ASSUME Tail(s) # <<>> PROVE Tail(s)[Len(Tail(s))] = s[Len(s)]
  <2>1. Len(s) - 1 # 0
    BY <1>2, <1>8, EmptySeq
  <2> QED BY <2>1, <1>1, <1>2
<1>9. ASSUME Tail(s) = <<>> PROVE s[1] = s[Len(s)]
  <2>1. Len(s) - 1 = 0
    BY <1>2, <1>9, EmptySeq
  <2>2. Len(s) = 1
    BY <2>1, <1>1
  <2> QED BY <2>2
<1> QED BY <1>1, <1>2, <1>5, <1>6, <1>7, <1>8, <1>9

LEMMA OneMore ==
  ASSUME NEW s \in Seq(Tokens), NEW x \in Tokens
  PROVE  /\ Append(s, x) \in Seq(Tokens) /\ Len(Append(s, x)) = Len(s) + 1
         /\ Elements(Append(s, x)) = Elements(s) \cup {x}
         /\ Append(s, x) # <<>>
         /\ Ascending(s) /\ Below(Elements(s), {x}) => Ascending(Append(s, x))
<1>1. /\ Append(s, x) \in Seq(Tokens) /\ Len(Append(s, x)) = Len(s) + 1 /\ Len(s) \in Nat
      /\ \A i \in 1 .. Len(s) : Append(s, x)[i] = s[i]
      /\ Append(s, x)[Len(s) + 1] = x
  BY AppendProperties
<1>2. \A i \in 1 .. Len(s) + 1 : i \in 1 .. Len(s) \/ i = Len(s) + 1
  BY <1>1
<1>3. Elements(Append(s, x)) = Elements(s) \cup {x}
  <2>1. \A i \in 1 .. Len(s) : i \in 1 .. Len(s) + 1
    BY <1>1
  <2>2. Len(s) + 1 \in 1 .. Len(s) + 1
    BY <1>1
  <2> QED BY <2>1, <2>2, <1>1, <1>2 DEF Elements
<1>4. ASSUME Ascending(s), Below(Elements(s), {x}) PROVE Ascending(Append(s, x))
  <2>1. \A i, j \in 1 .. Len(s) + 1 : i < j => i \in 1 .. Len(s)
    BY <1>1
  <2>2. \A i \in 1 .. Len(s) : s[i] \in Elements(s)
    BY DEF Elements
  <2> QED BY <2>1, <2>2, <1>1, <1>2, <1>4 DEF Ascending, Below
<1>5. Append(s, x) # <<>>
  BY <1>1, EmptySeq
<1> QED BY <1>1, <1>3, <1>4, <1>5

-----------------------------------------------------------------------------
(* Sequences of sequences: the old files, and the chunks that are to be put. *)

LEMMA AllOfIs ==
  ASSUME NEW q
  PROVE  AllOf(q) = UNION {Elements(q[i]) : i \in 1 .. Len(q)}
  BY DEF AllOf, Elements

LEMMA RankedMore ==
  ASSUME NEW q \in Seq(Seq(Tokens)), NEW s \in Seq(Tokens)
  PROVE  /\ Append(q, s) \in Seq(Seq(Tokens)) /\ Len(Append(q, s)) = Len(q) + 1
         /\ AllOf(Append(q, s)) = AllOf(q) \cup Elements(s)
         /\ Ranked(q) /\ Ascending(s) /\ Below(AllOf(q), Elements(s)) => Ranked(Append(q, s))
<1> DEFINE r == Append(q, s)
<1>1. /\ r \in Seq(Seq(Tokens)) /\ Len(r) = Len(q) + 1 /\ Len(q) \in Nat
      /\ \A i \in 1 .. Len(q) : r[i] = q[i]
      /\ r[Len(q) + 1] = s
  BY AppendProperties
<1> HIDE DEF r
<1>2. \A i : i \in 1 .. Len(r) <=> i \in 1 .. Len(q) \/ i = Len(q) + 1
  BY <1>1
<1>3. AllOf(r) = AllOf(q) \cup Elements(s)
  <2>1. Elements(s) \subseteq AllOf(r)
    BY <1>1, <1>2, AllOfIs
  <2>2. AllOf(q) \subseteq AllOf(r)
    BY <1>1, <1>2, AllOfIs
  <2>3. ASSUME NEW i \in 1 .. Len(r) PROVE Elements(r[i]) \subseteq AllOf(q) \cup Elements(s)
    <3>1. CASE i \in 1 .. Len(q)
      BY <3>1, <1>1, AllOfIs
    <3>2. CASE i = Len(q) + 1
      BY <3>2, <1>1
    <3> QED BY <3>1, <3>2, <1>2
  <2>4. AllOf(r) \subseteq AllOf(q) \cup Elements(s)
    BY <2>3, AllOfIs
  <2> QED BY <2>1, <2>2, <2>4
<1>4. ASSUME Ranked(q), Ascending(s), Below(AllOf(q), Elements(s)) PROVE Ranked(r)
  <2>1. ASSUME NEW i \in 1 .. Len(r) PROVE Ascending(r[i])
    BY <1>1, <1>2, <1>4 DEF Ranked
  <2>2. ASSUME NEW i \in 1 .. Len(r), NEW j \in 1 .. Len(r), i < j
        PROVE  Below(Elements(r[i]), Elements(r[j]))
    <3>1. i \in 1 .. Len(q)
      BY <1>1, <1>2, <2>2
    <3>2. CASE j \in 1 .. Len(q)
      BY <3>1, <3>2, <1>1, <1>4, <2>2 DEF Ranked
    <3>3. CASE j = Len(q) + 1
      <4>1. Elements(q[i]) \subseteq AllOf(q)
        BY <3>1, AllOfIs
      <4> QED BY <4>1, <3>1, <3>3, <1>1, <1>4 DEF Below
    <3> QED BY <3>2, <3>3, <1>2
  <2> QED BY <2>1, <2>2 DEF Ranked
<1> QED BY <1>1, <1>3, <1>4 DEF r

LEMMA RankedRest ==
  ASSUME NEW q \in Seq(Seq(Tokens)), q # <<>>
  PROVE  /\ Head(q) \in Seq(Tokens) /\ Tail(q) \in Seq(Seq(Tokens)) /\ Len(Tail(q)) = Len(q) - 1
         /\ AllOf(q) = Elements(Head(q)) \cup AllOf(Tail(q))
         /\ Ranked(q) => /\ Ascending(Head(q)) /\ Ranked(Tail(q))
                         /\ Below(Elements(Head(q)), AllOf(Tail(q)))
<1>1. Len(q) \in Nat /\ Len(q) > 0 /\ Head(q) = q[1]
  BY EmptySeq, LenProperties, HeadTailProperties
<1> DEFINE t == Tail(q)
<1>2. t \in Seq(Seq(Tokens)) /\ Len(t) = Len(q) - 1 /\ \A i \in 1 .. Len(q) - 1 : t[i] = q[i + 1]
  BY <1>1, HeadTailProperties
<1> HIDE DEF t
<1>3. \A i \in 1 .. Len(q) - 1 : i + 1 \in 1 .. Len(q) /\ 1 < i + 1
  BY <1>1
<1>4. \A i \in 1 .. Len(q) : i = 1 \/ (i - 1 \in 1 .. Len(q) - 1 /\ (i - 1) + 1 = i)
  BY <1>1
<1>5. 1 \in 1 .. Len(q) /\ q[1] \in Seq(Tokens)
  BY <1>1
<1>6. AllOf(q) = Elements(q[1]) \cup AllOf(t)
  <2>1. Elements(q[1]) \subseteq AllOf(q)
    BY <1>5, AllOfIs
  <2>2. AllOf(t) \subseteq AllOf(q)
    BY <1>2, <1>3, AllOfIs
  <2>3. ASSUME NEW i \in 1 .. Len(q) PROVE Elements(q[i]) \subseteq Elements(q[1]) \cup AllOf(t)
    <3>1. CASE i = 1
      BY <3>1
    <3>2. CASE i - 1 \in 1 .. Len(q) - 1 /\ (i - 1) + 1 = i
      <4>1. t[i - 1] = q[i] /\ i - 1 \in 1 .. Len(t)
        BY <1>2, <3>2
      <4> QED BY <4>1, AllOfIs
    <3> QED BY <3>1, <3>2, <1>4
  <2>4. AllOf(q) \subseteq Elements(q[1]) \cup AllOf(t)
    BY <2>3, AllOfIs
  <2> QED BY <2>1, <2>2, <2>4
<1>7. ASSUME Ranked(q)
      PROVE  Ascending(q[1]) /\ Ranked(t) /\ Below(Elements(q[1]), AllOf(t))
  <2>1. \A i, j \in 1 .. Len(q) - 1 : i < j => i + 1 < j + 1
    BY <1>1
  <2>2. Ranked(t)
    BY <2>1, <1>2, <1>3, <1>7 DEF Ranked
  <2>3. \A i \in 1 .. Len(t) : Below(Elements(q[1]), Elements(t[i]))
    BY <1>2, <1>3, <1>5, <1>7 DEF Ranked
  <2>4. Below(Elements(q[1]), AllOf(t))
    BY <2>3, AllOfIs DEF Below
  <2> QED BY <2>2, <2>4, <1>5, <1>7 DEF Ranked
<1> QED BY <1>1, <1>2, <1>5, <1>6, <1>7 DEF t

LEMMA RankedChunks ==
  ASSUME NEW s \in Seq(Tokens), NEW t \in Seq(Tokens)
  PROVE  /\ <<s>> \in Seq(Seq(Tokens)) /\ <<s, t>> \in Seq(Seq(Tokens))
         /\ AllOf(<<s>>) = Elements(s) /\ AllOf(<<s, t>>) = Elements(s) \cup Elements(t)
         /\ Ascending(s) => Ranked(<<s>>)
         /\ Ascending(s) /\ Ascending(t) /\ Below(Elements(s), Elements(t)) => Ranked(<<s, t>>)
<1>1. /\ AllOf(<<s>>) = Elements(s)
      /\ AllOf(<<s, t>>) = Elements(s) \cup Elements(t)
  <2>1. Elements(<<s>>) = {s} /\ Elements(<<s, t>>) = {s, t}
    BY DEF Elements
  <2> QED BY <2>1 DEF AllOf
<1>2. Ascending(s) => Ranked(<<s>>)
  BY DEF Ranked
<1>3. ASSUME Ascending(s), Ascending(t), Below(Elements(s), Elements(t)) PROVE Ranked(<<s, t>>)
  <2>1. Len(<<s, t>>) = 2 /\ <<s, t>>[1] = s /\ <<s, t>>[2] = t
    OBVIOUS
  <2>2. \A i \in 1 .. 2 : i = 1 \/ i = 2
    OBVIOUS
  <2> QED BY <2>1, <2>2, <1>3 DEF Ranked
<1>4. <<s>> \in Seq(Seq(Tokens)) /\ <<s, t>> \in Seq(Seq(Tokens))
  OBVIOUS
<1> QED BY <1>1, <1>2, <1>3, <1>4

(* What is left of each when some of the end is cut off.                    *)
LEMMA RankedCut ==
  ASSUME NEW q, NEW r, Len(r) = Len(q), Ranked(q),
         \A i \in 1 .. Len(q) : Ascending(r[i]) /\ Elements(r[i]) \subseteq Elements(q[i])
  PROVE  Ranked(r) /\ AllOf(r) \subseteq AllOf(q)
<1>1. Ranked(r)
  BY DEF Ranked, Below
<1>2. AllOf(r) \subseteq AllOf(q)
  BY AllOfIs
<1> QED BY <1>1, <1>2

-----------------------------------------------------------------------------
(* The state.                                                               *)

SoundFile == {f \in File : f.synced <= Len(f.data)}
SoundOld  == {o \in Old : o.synced <= Len(o.data)}
Directory ==
  [current : SoundFile, previous : SoundFile, processed : SoundFile, old : Seq(SoundOld),
   state : 0 .. EofNewline, newstate : 0 .. EofNewline]
Memory ==
  [ss : Seq(Tokens), out : Seq(Tokens), todo : Seq(Seq(Tokens)), inbuf : Seq(Tokens),
   line : Seq(Tokens), long : BOOLEAN, eof : BOOLEAN, flagnewline : BOOLEAN, one : BOOLEAN,
   flagexitasap : BOOLEAN, flagforcerotate : BOOLEAN, bytes : 0 .. Size]
Log == [written : SUBSET Tokens, safe : SUBSET Tokens, lost : SUBSET Tokens, removed : SUBSET Tokens]

Types ==
  /\ dir \in Directory /\ mem \in Memory /\ log \in Log
  /\ taken \in 0 .. Input /\ sigs \subseteq {"TERM", "ALRM"} /\ processor \in BOOLEAN
  /\ bound \in [crashes : Nat, signals : Nat, fails : Nat]
  /\ Len(mem.ss) <= OutBuf /\ Len(mem.line) < MaxLine
  /\ sigs # {} \/ mem.flagforcerotate => bound.signals > 0

(* Where the write loop, the rotation and finish() are called from.         *)
DoitPcs      == {"doit", "put", "forcerotate", "exitasap", "unblock", "read", "quit", "syncquit", "markquit"}
PreviousPcs  == {"open", "process", "processor", "syncprocessed", "markprocessed"}
ProcessedPcs == {"unlinkprevious", "renamestate"}
RotatePcs    == {"fsync", "rename"} \cup PreviousPcs \cup ProcessedPcs
FinishPcs    == {"stat", "link", "unlink", "filesfit"}
RestartPcs   == {"recover", "finishcurrent", "create"}
CurrentPcs   == DoitPcs \cup {"write", "fsync", "rename"}

Rotating(q, f) ==
  \/ q \in RotatePcs
  \/ q \in FinishPcs /\ f.next \in {"write", "exitasap"}
Recovering(q, f) ==
  \/ q \in RestartPcs
  \/ q \in FinishPcs /\ f.next \in {"finishcurrent", "create"}
InWrite(q, b, f) ==
  \/ q = "write"
  \/ q \in RotatePcs /\ b = "write"
  \/ q \in FinishPcs /\ f.next = "write"
CallerIn(q, r, b, f) ==
  IF InWrite(q, b, f) THEN r
  ELSE IF Rotating(q, f) THEN "exitasap"
  ELSE IF Recovering(q, f) THEN "gone" ELSE q
Caller == CallerIn(pc, ret, back, fin)

Control ==
  /\ pc \in DoitPcs \cup {"write", "gone"} \cup RotatePcs \cup FinishPcs \cup RestartPcs
  /\ ret \in {"doit", "put", "forcerotate", "syncquit"} /\ back \in {"write", "exitasap"}
  /\ InWrite(pc, back, fin) => ret # "doit"
  /\ fin \in [file : Files, code : {"s", "u"}, next : {"write", "exitasap", "finishcurrent", "create"}]
  /\ pc \in FinishPcs =>
       /\ fin.next \in {"write", "exitasap"} =>
            fin.code = "s" /\ fin.file \in {"previous", "processed"}
       /\ fin.next = "finishcurrent" =>
            \/ fin.file = "processed" /\ fin.code = "s"
            \/ fin.file = "previous" /\ fin.code = "u"
       /\ fin.next = "create" => fin.file = "current" /\ fin.code = "u"

-----------------------------------------------------------------------------
(* The directory.                                                           *)

(* Data that may become an old file.                                        *)
Ends(d, signals) == d # <<>> /\ (Len(d) = Size \/ IsNewline(d[Len(d)]) \/ signals > 0)
Rotated(f, signals) == f.here /\ f.synced = Len(f.data) /\ Ends(f.data, signals)

(* What there is at any time: only one of the three files has data that is  *)
(* not also elsewhere, and the modes and link counts say which.             *)
Recoverable(c, p, r, signals) ==
  /\ \A f \in {c, p, r} : (~f.here => f = Absent) /\ Len(f.data) <= Size
  /\ p.here \/ r.here => c = Absent \/ c = Empty
  /\ c.exec => ~c.linked /\ p = Absent /\ r = Absent /\ c.synced = Len(c.data)
  /\ r.linked => r.exec /\ p = Absent
  /\ p.linked => r = Absent
  /\ r.exec => Rotated(r, signals)

(* What there is besides while multilog has not been stopped.               *)
AtCurrent(c, p, r) ==
  /\ pc \in CurrentPcs =>
       c.here /\ ~c.linked /\ ~c.exec /\ p = Absent /\ r = Absent /\ mem.bytes = Len(c.data)
  /\ pc = "fsync" => Ends(c.data, bound.signals)
  /\ pc = "rename" => Rotated(c, bound.signals)
  /\ pc = "markquit" => c.synced = Len(c.data)

AtPrevious(c, p, r) ==
  /\ pc = "open" => c = Absent /\ r = Absent
  /\ Rotating(pc, fin) /\ pc \notin {"fsync", "rename", "open"} => c = Empty /\ mem.bytes = 0
  /\ pc \in PreviousPcs => Rotated(p, bound.signals) /\ ~p.linked /\ ~r.exec
  /\ pc = "processor" => r = Empty
  /\ pc \in {"syncprocessed", "markprocessed"} => r.here /\ r.data = p.data
  /\ pc = "markprocessed" => r.synced = Len(r.data)
  /\ pc \in ProcessedPcs => r.exec /\ ~r.linked
  /\ pc = "renamestate" => p = Absent

AtFinish(c, p, r) ==
  pc \in FinishPcs =>
    /\ ~c.exec
    /\ fin.file = "current" => p = Absent /\ r = Absent
    /\ fin.file = "previous" => r = Absent
    /\ fin.file = "processed" => p = Absent /\ (r.here => r.exec)
    /\ LET f == dir[fin.file]
       IN /\ pc = "stat" /\ fin.next \in {"write", "exitasap"} => f.here /\ ~f.linked
          /\ pc = "link" => f.here /\ ~f.linked
          /\ pc = "unlink" => f.here /\ f.linked
          /\ pc = "filesfit" => f = Absent
          /\ pc \in {"stat", "link"} /\ f.here /\ fin.code = "s" => Rotated(f, bound.signals)

AtRestart(c, p, r) ==
  /\ pc \in RestartPcs => ~c.exec
  /\ pc \in {"finishcurrent", "create"} => p = Absent /\ r = Absent
  /\ pc = "create" => c = Absent
  /\ bound.crashes = 0 =>
       /\ Recovering(pc, fin) => c = Absent /\ p = Absent /\ r = Absent
       /\ pc = "gone" => p = Absent /\ r = Absent /\ (c = Absent \/ c.exec)

Layout ==
  /\ Recoverable(dir.current, dir.previous, dir.processed, bound.signals)
  /\ AtCurrent(dir.current, dir.previous, dir.processed)
  /\ AtPrevious(dir.current, dir.previous, dir.processed)
  /\ AtFinish(dir.current, dir.previous, dir.processed)
  /\ AtRestart(dir.current, dir.previous, dir.processed)

(* The old files, and how many.                                             *)
OldOne(o, signals, crashes) ==
  /\ Len(o.data) <= Size
  /\ o.code = "s" => o.synced = Len(o.data) /\ Ends(o.data, signals)
  /\ o.code = "u" => crashes > 0

OldOnes ==
  /\ \A i \in 1 .. Len(dir.old) : OldOne(dir.old[i], bound.signals, bound.crashes)
  /\ Len(dir.old) < Num + bound.crashes + (IF pc \in {"unlink", "filesfit"} THEN 1 ELSE 0)

-----------------------------------------------------------------------------
(* The buffers.                                                             *)

In(m) ==
  Elements(m.ss) \cup Elements(m.out) \cup Elements(m.line) \cup Elements(m.inbuf)
    \cup AllOf(m.todo)

Pipe(m) ==
  /\ Ascending(m.out) /\ Ascending(m.ss) /\ Ranked(m.todo)
  /\ Ascending(m.line) /\ Ascending(m.inbuf)
  /\ Below(Elements(m.out), Elements(m.ss) \cup AllOf(m.todo) \cup Elements(m.line) \cup Elements(m.inbuf))
  /\ Below(Elements(m.ss), AllOf(m.todo) \cup Elements(m.line) \cup Elements(m.inbuf))
  /\ Below(AllOf(m.todo), Elements(m.line) \cup Elements(m.inbuf))
  /\ Below(Elements(m.line), Elements(m.inbuf))

Blank(m) == m = [NoMemory EXCEPT !.bytes = m.bytes]

Buffers ==
  /\ Caller = "gone" => Blank(mem)
  /\ mem.out # <<>> => InWrite(pc, back, fin)
  /\ mem.long => mem.line = <<>>
  /\ mem.eof => /\ mem.line = <<>> /\ mem.inbuf = <<>> /\ ~mem.long /\ taken = Input
                /\ Caller \in {"put", "quit", "syncquit", "markquit"}
  /\ Caller \in {"forcerotate", "exitasap", "unblock", "read"} =>
       mem.ss = <<>> /\ mem.todo = <<>> /\ mem.inbuf = <<>>
  /\ Caller = "doit" => mem.todo = <<>>
  /\ Caller \in {"quit", "syncquit", "markquit"} =>
       /\ mem.todo = <<>> /\ mem.line = <<>> /\ mem.inbuf = <<>>
       /\ mem.flagnewline \/ taken = Input
  /\ Caller \in {"syncquit", "markquit"} => mem.ss = <<>>
  /\ mem.inbuf = <<>> /\ mem.flagnewline => mem.line = <<>> /\ ~mem.long
  /\ mem.inbuf # <<>> /\ mem.flagnewline => IsNewline(mem.inbuf[Len(mem.inbuf)])

-----------------------------------------------------------------------------
(* The log in its order, and the fate of every token.                       *)

Datas(o) == [i \in 1 .. Len(o) |-> o[i].data]
SafeData(f) == SubSeq(f.data, 1, f.synced)
SafeDatas(o) == [i \in 1 .. Len(o) |-> SafeData(o[i])]

Data(f) == IF f.linked THEN {} ELSE Elements(f.data)
Safe(f) == IF f.linked THEN {} ELSE Elements(SafeData(f))

(* The file between current and the old ones.                               *)
Mid(p, r) == IF r.exec THEN r ELSE p

Disk(d) == AllOf(Datas(d.old)) \cup Data(Mid(d.previous, d.processed)) \cup Data(d.current)
Platter(d) == AllOf(SafeDatas(d.old)) \cup Safe(Mid(d.previous, d.processed)) \cup Safe(d.current)

Ordered(d) ==
  /\ Ascending(d.current.data) /\ Ascending(d.previous.data) /\ Ascending(d.processed.data)
  /\ Ranked(Datas(d.old))
  /\ Below(AllOf(Datas(d.old)), Data(Mid(d.previous, d.processed)) \cup Data(d.current))

Upto(n) == 1 .. n \cup (IF n = Input THEN {EofNewline} ELSE {})
Past(d, g) == Disk(d) \cup g.removed \cup g.lost

Bounds(d, m, g, n) ==
  /\ Past(d, g) \cup In(m) \cup g.written \cup g.safe \subseteq Upto(n)
  /\ {d.state, d.newstate} \subseteq Upto(n) \cup {0}
  /\ Below(Past(d, g), In(m)) /\ Below(g.removed, Disk(d))
  /\ m.line # <<>> \/ m.long \/ m.inbuf # <<>> =>
       EofNewline \notin Past(d, g) \cup In(m) \cup {d.state, d.newstate}

Fates(d, m, g, n) ==
  /\ g.written \cup g.safe \subseteq Disk(d) \cup g.removed
  /\ Disk(d) \subseteq g.written
  /\ g.safe \subseteq Platter(d) \cup g.removed
  /\ Platter(d) \subseteq g.safe
  /\ 1 .. n \subseteq Past(d, g) \cup In(m)

-----------------------------------------------------------------------------
(* What the processor goes on with.                                         *)

Last(s) == s[Len(s)]

(* The tokens after those that the last run of the processor has seen.      *)
Fresh ==
  In(mem) \cup IF pc \in PreviousPcs \cup ProcessedPcs
               THEN Data(Mid(dir.previous, dir.processed)) ELSE Data(dir.current)

Follows(S, state, n, crashes) ==
  /\ \A t \in S : \A u \in Tokens : t < u /\ u <= n => u \in S
  /\ \/ state = 0 /\ crashes > 0
     \/ /\ \A t \in S : state < t
        /\ \A u \in Tokens : state < u /\ u <= n => u \in S

Stopped == Recovering(pc, fin) \/ (pc = "gone" /\ ~dir.current.exec)

States ==
  /\ Stopped /\ bound.crashes = 0 => taken = 0
  /\ Recovering(pc, fin) => dir.state = 0
  /\ pc \in {"syncprocessed", "markprocessed"} => dir.newstate = Last(dir.previous.data)
  /\ pc \in ProcessedPcs => dir.newstate = Last(dir.processed.data)
  /\ processor /\ ~Stopped => Follows(Fresh, dir.state, taken, bound.crashes)

IInv ==
  /\ Types /\ Control /\ Layout /\ OldOnes /\ Buffers /\ Pipe(mem)
  /\ Ordered(dir) /\ Bounds(dir, mem, log, taken) /\ Fates(dir, mem, log, taken) /\ States

LEMMA AtDoit ==
  ASSUME NEW q \in DoitPcs \cup {"gone"}, NEW r, NEW b, NEW f
  PROVE  /\ ~InWrite(q, b, f) /\ ~Rotating(q, f) /\ ~Recovering(q, f)
         /\ CallerIn(q, r, b, f) = q
  BY DEF DoitPcs, RotatePcs, PreviousPcs, ProcessedPcs, FinishPcs, RestartPcs,
         Rotating, Recovering, InWrite, CallerIn

LEMMA AtWrite ==
  ASSUME NEW r, NEW b, NEW f
  PROVE  /\ InWrite("write", b, f) /\ ~Rotating("write", f) /\ ~Recovering("write", f)
         /\ CallerIn("write", r, b, f) = r
  BY DEF RotatePcs, PreviousPcs, ProcessedPcs, FinishPcs, RestartPcs,
         Rotating, Recovering, InWrite, CallerIn

LEMMA AtRotate ==
  ASSUME NEW q \in RotatePcs, NEW r, NEW b \in {"write", "exitasap"}, NEW f
  PROVE  /\ Rotating(q, f) /\ ~Recovering(q, f)
         /\ InWrite(q, b, f) <=> b = "write"
         /\ CallerIn(q, r, b, f) = IF b = "write" THEN r ELSE "exitasap"
  BY DEF RotatePcs, PreviousPcs, ProcessedPcs, FinishPcs, RestartPcs,
         Rotating, Recovering, InWrite, CallerIn

LEMMA AtRestarting ==
  ASSUME NEW q \in RestartPcs, NEW r, NEW b, NEW f
  PROVE  /\ ~InWrite(q, b, f) /\ ~Rotating(q, f) /\ Recovering(q, f)
         /\ CallerIn(q, r, b, f) = "gone"
  BY DEF RotatePcs, PreviousPcs, ProcessedPcs, FinishPcs, RestartPcs,
         Rotating, Recovering, InWrite, CallerIn

LEMMA AtFinishing ==
  ASSUME NEW q \in FinishPcs, NEW r, NEW b, NEW f,
         f.next \in {"write", "exitasap", "finishcurrent", "create"}
  PROVE  /\ Rotating(q, f) <=> f.next \in {"write", "exitasap"}
         /\ Recovering(q, f) <=> f.next \in {"finishcurrent", "create"}
         /\ InWrite(q, b, f) <=> f.next = "write"
         /\ CallerIn(q, r, b, f) =
              IF f.next = "write" THEN r ELSE IF f.next = "exitasap" THEN "exitasap" ELSE "gone"
  BY DEF RotatePcs, PreviousPcs, ProcessedPcs, FinishPcs, RestartPcs,
         Rotating, Recovering, InWrite, CallerIn

LEMMA NoTokens == <<>> \in Seq(Tokens) /\ Len(<<>>) = 0 /\ <<>> \in Seq(Seq(Tokens))
  BY EmptySeq

-----------------------------------------------------------------------------
(* The steps that change neither the directory, nor what is held.           *)

LEMMA SameTokens ==
  ASSUME Ordered(dir), Bounds(dir, mem, log, taken), Fates(dir, mem, log, taken), 
         dir' = dir, log' = log, taken' = taken, In(mem') = In(mem),
         mem'.line # <<>> \/ mem'.long \/ mem'.inbuf # <<>> =>
           mem.line # <<>> \/ mem.long \/ mem.inbuf # <<>>
  PROVE  Ordered(dir') /\ Bounds(dir', mem', log', taken') /\ Fates(dir', mem', log', taken')
  BY DEF Bounds, Fates

LEMMA StatKeeps ==
  ASSUME MultilogAssumption, IInv, Stat
  PROVE  IInv'
<1> USE DEF Stat, call, env, Goto, Return, IInv
<1>0. /\ dir' = dir /\ mem' = mem /\ log' = log /\ taken' = taken /\ sigs' = sigs /\ bound' = bound
      /\ processor' = processor /\ ret' = ret /\ back' = back /\ fin' = fin
      /\ pc = "stat" /\ pc \in FinishPcs
  BY DEF FinishPcs
<1>9. /\ back \in {"write", "exitasap"} 
      /\ fin.next \in {"write", "exitasap", "finishcurrent", "create"}
  BY DEF Control
<1>2. Control'
  BY DEF Control, FinishPcs, InWrite, RotatePcs, PreviousPcs, ProcessedPcs, DoitPcs, RestartPcs
<1>8. /\ Caller' = Caller /\ Recovering(pc, fin)' = Recovering(pc, fin)
      /\ InWrite(pc, back, fin)' = InWrite(pc, back, fin)
      /\ Rotating(pc, fin)' => Rotating(pc, fin)
  BY <1>0, <1>9 DEF Caller, CallerIn, Rotating, Recovering, InWrite, DoitPcs, RotatePcs, PreviousPcs, ProcessedPcs, FinishPcs, RestartPcs
<1>1. Types'
  BY <1>0 DEF Types
<1>3. Layout'
  <2>1. Recoverable(dir.current, dir.previous, dir.processed, bound.signals)'
    BY <1>0 DEF Layout
  <2>2. AtCurrent(dir.current, dir.previous, dir.processed)'
    BY <1>0, <1>8 DEF Layout, Control, AtCurrent, FinishPcs, CurrentPcs, AtFinish, AtPrevious, PreviousPcs, ProcessedPcs, RotatePcs, Rotating, DoitPcs
  <2>3. AtPrevious(dir.current, dir.previous, dir.processed)'
    BY <1>0, <1>8, <1>9 DEF Layout, AtPrevious, PreviousPcs, ProcessedPcs
  <2>4. AtFinish(dir.current, dir.previous, dir.processed)'
    BY <1>0, <1>8, <1>9 DEF Layout, AtFinish, FinishPcs, HasOldName
  <2>5. AtRestart(dir.current, dir.previous, dir.processed)'
    <3>1. bound.crashes = 0 =>
             /\ Recovering(pc, fin) => dir.current = Absent /\ dir.previous = Absent /\ dir.processed = Absent
             /\ pc' # "gone"
      BY <1>0, <1>9 DEF Layout, AtRestart
    <3>2. pc' \in {"finishcurrent", "create"} => ~dir[fin.file].here /\ pc' = fin.next
      BY <1>0, <1>9 DEF HasOldName
    <3>3. pc' = "finishcurrent" => dir.previous = Absent /\ dir.processed = Absent
      BY <1>0, <3>2 DEF Layout, AtFinish, Control, Recoverable
    <3>4. pc' = "create" => dir.previous = Absent /\ dir.processed = Absent /\ dir.current = Absent
      BY <1>0, <3>2 DEF Layout, AtFinish, Control, Recoverable
    <3>5. pc' \in RestartPcs => ~dir.current.exec
      BY <1>0 DEF Layout, AtFinish
    <3> QED BY <1>0, <1>8, <3>1, <3>3, <3>4, <3>5 DEF AtRestart
  <2> QED BY <2>1, <2>2, <2>3, <2>4, <2>5 DEF Layout
<1>4. OldOnes'
  <2>1. Len(dir.old) \in Nat
    BY DEF Types, Directory
  <2> QED BY <1>0, <1>9, <2>1 DEF OldOnes, Types
<1>5. Buffers'
  BY <1>0, <1>8 DEF Buffers
<1>6. Ordered(dir)' /\ Bounds(dir, mem, log, taken)' /\ Fates(dir, mem, log, taken)' /\ Pipe(mem)'
  BY <1>0
<1>7. States'
  <2>1. Fresh' = Fresh /\ (Stopped' <=> Stopped)
    BY <1>0, <1>8, <1>9 DEF Fresh, Stopped, PreviousPcs, ProcessedPcs
  <2> QED BY <1>0, <1>8, <1>9, <2>1 DEF States, PreviousPcs, ProcessedPcs
<1> QED BY <1>1, <1>2, <1>3, <1>4, <1>5, <1>6, <1>7

(* Between two steps of doit() or of the write loop.                        *)
LEMMA StaysInDoit ==
  ASSUME MultilogAssumption, IInv,
         pc \in CurrentPcs, pc' \in CurrentPcs \ {"rename", "markquit"},
         dir' = dir, bound' = bound, mem'.bytes = mem.bytes,
         pc' = "fsync" => Ends(dir.current.data, bound.signals)
  PROVE  /\ Layout' /\ OldOnes'
         /\ ~Stopped /\ ~Stopped' /\ ~Recovering(pc, fin)'
         /\ Fresh = In(mem) \cup Data(dir.current) /\ Fresh' = In(mem') \cup Data(dir.current)
         /\ pc \notin PreviousPcs \cup ProcessedPcs
         /\ pc' \notin PreviousPcs \cup ProcessedPcs
<1> USE DEF IInv, DoitPcs, CurrentPcs, PreviousPcs, ProcessedPcs, RotatePcs, FinishPcs, RestartPcs
<1>1. /\ pc \notin PreviousPcs \cup ProcessedPcs \cup FinishPcs \cup RestartPcs \cup {"gone"}
      /\ pc' \notin PreviousPcs \cup ProcessedPcs \cup FinishPcs \cup RestartPcs \cup {"gone"}
  OBVIOUS
<1>2. /\ ~Recovering(pc, fin) /\ ~Recovering(pc, fin)'
  BY <1>1 DEF Recovering
<1>3. Layout'
  <2>1. Recoverable(dir.current, dir.previous, dir.processed, bound.signals)'
    BY DEF Layout
  <2>2. AtCurrent(dir.current, dir.previous, dir.processed)'
    BY DEF Layout, AtCurrent
  <2>3. AtPrevious(dir.current, dir.previous, dir.processed)'
    BY <1>1 DEF AtPrevious, Rotating
  <2>4. AtFinish(dir.current, dir.previous, dir.processed)'
    BY <1>1 DEF AtFinish
  <2>5. AtRestart(dir.current, dir.previous, dir.processed)'
    BY <1>1, <1>2 DEF AtRestart
  <2> QED BY <2>1, <2>2, <2>3, <2>4, <2>5 DEF Layout
<1>4. OldOnes'
  BY DEF OldOnes
<1>5. Fresh = In(mem) \cup Data(dir.current) /\ Fresh' = In(mem') \cup Data(dir.current)
  BY <1>1 DEF Fresh
<1> QED BY <1>1, <1>2, <1>3, <1>4, <1>5 DEF Stopped

(* What is held moves along.                                                *)
LEMMA MovesAlong ==
  ASSUME MultilogAssumption, IInv, Types', Control', Buffers', Pipe(mem'),
         pc \in CurrentPcs, pc' \in CurrentPcs \ {"rename", "markquit"},
         dir' = dir, log' = log, bound' = bound, taken' = taken, processor' = processor,
         mem'.bytes = mem.bytes, In(mem') = In(mem),
         mem'.line # <<>> \/ mem'.long \/ mem'.inbuf # <<>> =>
           mem.line # <<>> \/ mem.long \/ mem.inbuf # <<>>,
         pc' = "fsync" => Ends(dir.current.data, bound.signals)
  PROVE  IInv'
<1>1. /\ Layout' /\ OldOnes' /\ ~Stopped /\ ~Stopped' /\ ~Recovering(pc, fin)' /\ Fresh' = Fresh
      /\ pc' \notin PreviousPcs \cup ProcessedPcs
  BY StaysInDoit
<1>2. Ordered(dir)' /\ Bounds(dir, mem, log, taken)' /\ Fates(dir, mem, log, taken)'
  BY SameTokens DEF IInv
<1>3. States'
  BY <1>1 DEF IInv, States, PreviousPcs, ProcessedPcs
<1> QED BY <1>1, <1>2, <1>3 DEF IInv

(* Tokens N are taken from the input, or the newline is added to its end.   *)
LEMMA TakesMore ==
  ASSUME MultilogAssumption, IInv, Types', Control', Buffers', Pipe(mem'),
         pc \in CurrentPcs, pc' \in CurrentPcs \ {"rename", "markquit", "fsync"},
         dir' = dir, log' = log, bound' = bound, processor' = processor,
         mem'.bytes = mem.bytes, 
         NEW N, In(mem') = In(mem) \cup N,
         \/ taken < taken' /\ taken' <= Input /\ N = taken + 1 .. taken'
         \/ /\ taken' = taken /\ taken = Input /\ N = {EofNewline} /\ (mem.line # <<>> \/ mem.long)
            /\ mem'.line = <<>> /\ ~mem'.long /\ mem'.inbuf = <<>>
  PROVE  IInv'
<1> USE DEF IInv
<1>1. /\ Layout' /\ OldOnes' /\ ~Stopped /\ ~Stopped' /\ ~Recovering(pc, fin)'
      /\ Fresh = In(mem) \cup Data(dir.current) /\ Fresh' = In(mem') \cup Data(dir.current)
      /\ pc' \notin PreviousPcs \cup ProcessedPcs
  BY StaysInDoit
<1>2. taken \in 0 .. Input /\ taken' \in 0 .. Input /\ Input \in Nat
  BY DEF Types, MultilogAssumption
<1> DEFINE P == Past(dir, log)
<1> DEFINE H == In(mem)
<1>3. /\ P \cup H \cup log.written \cup log.safe \subseteq Upto(taken)
      /\ {dir.state, dir.newstate} \subseteq Upto(taken) \cup {0}
      /\ Below(P, H) /\ Below(log.removed, Disk(dir))
      /\ mem.line # <<>> \/ mem.long \/ mem.inbuf # <<>> => EofNewline \notin P \cup H \cup {dir.state, dir.newstate}
  BY DEF Bounds
<1>4. 1 .. taken \subseteq P \cup H
  BY DEF Fates
<1>5. Data(dir.current) \subseteq P
  BY DEF Past, Disk
<1>6. processor => Follows(H \cup Data(dir.current), dir.state, taken, bound.crashes)
  BY <1>1 DEF States
<1>0. In(mem') = H \cup N
  OBVIOUS
<1> HIDE DEF P, H
<1>7. P \cup H \subseteq 1 .. taken /\ dir.state \in 0 .. taken /\ dir.newstate \in 0 .. taken
  <2>1. CASE taken < Input
    BY <2>1, <1>2, <1>3 DEF Upto
  <2>2. CASE mem.line # <<>> \/ mem.long
    BY <2>2, <1>2, <1>3 DEF Upto
  <2> QED BY <2>1, <2>2, <1>2
<1>8. Upto(taken) \subseteq Upto(taken') /\ N \subseteq Upto(taken')
  BY <1>2 DEF Upto, EofNewline
<1>9. 1 .. taken' \subseteq 1 .. taken \cup N
  BY <1>2
<1>10. \A t \in N : t > taken /\ t \in Nat
  BY <1>2 DEF EofNewline
<1>11. \A t \in N : \A u \in Tokens : t < u /\ u <= taken' => u \in N
  BY <1>2 DEF EofNewline, Tokens
<1>12. \A u \in Tokens : u <= taken' => u <= taken \/ u \in N
  BY <1>2 DEF EofNewline, Tokens
<1>13. Below(P, In(mem'))
  <2>1. \A a \in P : a \in 1 .. taken
    BY <1>7
  <2>2. \A a \in P, b \in N : a < b
    BY <2>1, <1>2, <1>10
  <2> QED BY <2>2, <1>0, <1>3 DEF Below
<1>14. Bounds(dir', mem', log', taken')
  <2>1. mem'.line # <<>> \/ mem'.long \/ mem'.inbuf # <<>> => EofNewline \notin P \cup In(mem') \cup {dir.state, dir.newstate}
    <3>1. ASSUME taken < taken', taken' <= Input, N = taken + 1 .. taken'
          PROVE  EofNewline \notin P \cup In(mem') \cup {dir.state, dir.newstate}
      <4>1. EofNewline \notin 1 .. taken /\ EofNewline \notin 0 .. taken /\ EofNewline \notin N
        BY <3>1, <1>2 DEF EofNewline
      <4> QED BY <4>1, <1>0, <1>7
    <3> QED BY <3>1
  <2> QED BY <2>1, <1>3, <1>8, <1>13 DEF Bounds, P, H
<1>15. Fates(dir', mem', log', taken')
  <2>1. 1 .. taken' \subseteq P \cup In(mem')
    BY <1>0, <1>4, <1>9
  <2> QED BY <2>1 DEF Fates, P
<1>16. processor' => Follows(Fresh', dir.state, taken', bound.crashes)
  <2> SUFFICES ASSUME processor
               PROVE  Follows(Fresh', dir.state, taken', bound.crashes)
    OBVIOUS
  <2>1. PICK S : S = H \cup Data(dir.current)
    OBVIOUS
  <2>2. Fresh' = S \cup N /\ S \subseteq P \cup H
    BY <2>1, <1>1, <1>5 DEF H
  <2>3. Follows(S, dir.state, taken, bound.crashes)
    BY <2>1, <1>6
  <2>4. ASSUME NEW t \in S \cup N, NEW u \in Tokens, t < u, u <= taken' PROVE u \in S \cup N
    <3>1. CASE t \in S
      BY <3>1, <2>3, <2>4, <1>12 DEF Follows
    <3>2. CASE t \in N
      BY <3>2, <2>4, <1>11
    <3> QED BY <3>1, <3>2
  <2>5. CASE dir.state = 0 /\ bound.crashes > 0
    BY <2>2, <2>4, <2>5 DEF Follows
  <2>6. CASE /\ \A t \in S : dir.state < t
             /\ \A u \in Tokens : dir.state < u /\ u <= taken => u \in S
    <3>1. ASSUME NEW t \in N PROVE dir.state < t
      BY <1>2, <1>7, <1>10
    <3>2. ASSUME NEW u \in Tokens, dir.state < u, u <= taken' PROVE u \in S \cup N
      BY <3>2, <2>6, <1>12
    <3> QED BY <3>1, <3>2, <2>2, <2>4, <2>6 DEF Follows
  <2> QED BY <2>3, <2>5, <2>6 DEF Follows
<1>17. States'
  BY <1>1, <1>16 DEF States, PreviousPcs, ProcessedPcs
<1> QED BY <1>1, <1>14, <1>15, <1>17

LEMMA WrittenKeeps == ASSUME MultilogAssumption, IInv, Written PROVE IInv'
<1> USE DEF IInv, Written, call, env
<1>1. /\ pc = "write" /\ pc' = ret /\ ret' = ret /\ back' = back /\ fin' = fin
      /\ dir' = dir /\ mem' = mem /\ log' = log /\ taken' = taken /\ sigs' = sigs /\ bound' = bound
      /\ processor' = processor /\ mem.out = <<>>
  OBVIOUS
<1>2. ret \in {"put", "forcerotate", "syncquit"}
  BY <1>1 DEF Control, InWrite
<1>3. Caller = ret
  BY <1>1, AtWrite DEF Caller
<1>4. pc' \in DoitPcs /\ pc \in CurrentPcs /\ pc' \in CurrentPcs \ {"rename", "markquit", "fsync"}
  BY <1>1, <1>2 DEF DoitPcs, CurrentPcs
<1>5. Caller' = ret /\ ~InWrite(pc, back, fin)'
  BY <1>1, <1>4, AtDoit DEF Caller
<1>6. Types'
  BY <1>1 DEF Types
<1>7. Control'
  BY <1>1, <1>2, <1>4, <1>5 DEF Control, DoitPcs, FinishPcs
<1>8. Buffers'
  BY <1>1, <1>3, <1>5 DEF Buffers
<1> QED BY <1>1, <1>2, <1>4, <1>6, <1>7, <1>8, MovesAlong

LEMMA WriteFullKeeps == ASSUME MultilogAssumption, IInv, WriteFull PROVE IInv'
<1> USE DEF IInv, WriteFull, FullCurrent, call, env
<1>1. /\ pc = "write" /\ pc' = "fsync" /\ ret' = ret /\ back' = "write" /\ fin' = fin
      /\ dir' = dir /\ mem' = mem /\ log' = log /\ taken' = taken /\ sigs' = sigs /\ bound' = bound
      /\ processor' = processor
  OBVIOUS
<1>2. ret \in {"put", "forcerotate", "syncquit"}
  BY <1>1 DEF Control, InWrite
<1>3. Caller = ret /\ InWrite(pc, back, fin)
  BY <1>1, AtWrite DEF Caller
<1>4. pc' \in RotatePcs /\ pc \in CurrentPcs /\ pc' \in CurrentPcs \ {"rename", "markquit"}
  BY <1>1 DEF RotatePcs, CurrentPcs
<1>5. Caller' = ret /\ InWrite(pc, back, fin)'
  BY <1>1, <1>4, AtRotate DEF Caller
<1>6. Types'
  BY <1>1 DEF Types
<1>7. Control'
  BY <1>1, <1>2, <1>4, <1>5 DEF Control, FinishPcs
<1>8. Buffers'
  BY <1>1, <1>3, <1>5 DEF Buffers
<1>9. Ends(dir.current.data, bound.signals)
  <2>1. mem.bytes = Len(dir.current.data)
    BY <1>1, <1>4 DEF Layout, AtCurrent
  <2>2. mem.bytes \in 0 .. Size /\ mem.bytes >= Size
    BY <1>1 DEF Types, Memory
  <2>3. Size \in Nat /\ Size > 0
    BY DEF MultilogAssumption
  <2>4. Len(dir.current.data) = Size /\ Len(dir.current.data) # 0
    BY <2>1, <2>2, <2>3
  <2> QED BY <2>4, NoTokens DEF Ends
<1> QED BY <1>1, <1>4, <1>6, <1>7, <1>8, <1>9, MovesAlong

LEMMA PutAllKeeps == ASSUME MultilogAssumption, IInv, PutAll PROVE IInv'
<1> USE DEF IInv, PutAll, Goto, call, env
<1>1. /\ pc = "put" /\ pc' = (IF mem.eof THEN "quit" ELSE "doit") /\ ret' = ret /\ back' = back /\ fin' = fin
      /\ dir' = dir /\ mem' = mem /\ log' = log /\ taken' = taken /\ sigs' = sigs /\ bound' = bound
      /\ processor' = processor /\ mem.todo = <<>> /\ pc' \in {"quit", "doit"}
  OBVIOUS
<1>2. /\ pc \in DoitPcs /\ pc' \in DoitPcs /\ pc \in CurrentPcs
      /\ pc' \in CurrentPcs \ {"rename", "markquit", "fsync"}
  BY <1>1 DEF DoitPcs, CurrentPcs
<1>3. Caller = "put" /\ ~InWrite(pc, back, fin)
  BY <1>1, <1>2, AtDoit DEF Caller
<1>4. Caller' = pc' /\ ~InWrite(pc, back, fin)'
  BY <1>1, <1>2, AtDoit DEF Caller
<1>5. Types'
  BY <1>1 DEF Types
<1>6. Control'
  BY <1>1, <1>2, <1>4 DEF Control, FinishPcs
<1>7. Buffers'
  BY <1>1, <1>3, <1>4 DEF Buffers
<1> QED BY <1>1, <1>2, <1>5, <1>6, <1>7, MovesAlong

LEMMA PutKeeps == ASSUME MultilogAssumption, IInv, Put PROVE IInv'
<1> USE DEF IInv
<1>1. PICK chunk : chunk = Head(mem.todo)
  OBVIOUS
<1>2. /\ pc = "put" /\ back' = back /\ fin' = fin /\ mem.todo # <<>>
      /\ dir' = dir /\ log' = log /\ taken' = taken /\ sigs' = sigs /\ bound' = bound
      /\ processor' = processor
  BY DEF Put, Goto, WriteAll, call, env
<1>3. /\ mem \in Memory /\ mem.todo \in Seq(Seq(Tokens)) /\ mem.ss \in Seq(Tokens) /\ Len(mem.ss) <= OutBuf
      /\ OutBuf \in Nat
  BY DEF Types, Memory, MultilogAssumption
<1>4. PICK rest \in Seq(Seq(Tokens)) :
        /\ chunk \in Seq(Tokens) /\ rest = Tail(mem.todo)
        /\ AllOf(mem.todo) = Elements(chunk) \cup AllOf(rest)
        /\ Ascending(chunk) /\ Ranked(rest) /\ Below(Elements(chunk), AllOf(rest))
  BY <1>1, <1>2, <1>3, RankedRest DEF Pipe
<1>5. Caller = "put" /\ ~InWrite(pc, back, fin) /\ pc \in DoitPcs /\ pc \in CurrentPcs
  BY <1>2, AtDoit DEF Caller, DoitPcs, CurrentPcs
<1>6. mem.out = <<>> /\ Elements(mem.out) = {} /\ Ascending(mem.out)
  BY <1>5, NoElements DEF Buffers
<1>a. CASE Len(chunk) <= OutBuf - Len(mem.ss)
  <2>1. PICK ss : ss = mem.ss \o chunk
    OBVIOUS
  <2>2. /\ mem' = [mem EXCEPT !.ss = ss, !.todo = rest]
        /\ pc' = "put" /\ ret' = ret
    BY <1>1, <1>4, <1>a, <2>1 DEF Put, Goto, call
  <2>3. /\ ss \in Seq(Tokens) /\ Elements(ss) = Elements(mem.ss) \cup Elements(chunk)
        /\ Len(ss) <= OutBuf /\ Ascending(ss)
    <3>1. Below(Elements(mem.ss), Elements(chunk))
      BY <1>4 DEF Pipe, Below
    <3>2. /\ ss \in Seq(Tokens) /\ Elements(ss) = Elements(mem.ss) \cup Elements(chunk)
          /\ Len(ss) = Len(mem.ss) + Len(chunk) /\ Ascending(ss)
      BY <2>1, <3>1, <1>3, <1>4, Joined DEF Pipe
    <3>3. Len(mem.ss) \in Nat /\ Len(chunk) \in Nat
      BY <1>3, <1>4, LenProperties
    <3>4. Len(ss) <= OutBuf
      BY <3>2, <3>3, <1>a, <1>3
    <3> QED BY <3>2, <3>4
  <2>4. /\ mem' \in Memory /\ mem'.ss = ss /\ mem'.todo = rest
        /\ mem'.out = mem.out /\ mem'.line = mem.line /\ mem'.inbuf = mem.inbuf /\ mem'.long = mem.long
        /\ mem'.eof = mem.eof /\ mem'.flagnewline = mem.flagnewline /\ mem'.bytes = mem.bytes
        /\ mem'.flagforcerotate = mem.flagforcerotate
    BY <2>2, <2>3, <1>3, <1>4 DEF Memory
  <2>5. In(mem') = In(mem)
    BY <2>4, <2>3, <1>4 DEF In
  <2>6. Pipe(mem')
    BY <2>3, <2>4, <1>4 DEF Pipe, Below
  <2>7. Types'
    BY <2>3, <2>4, <1>2 DEF Types
  <2>8. Caller' = "put" /\ ~InWrite(pc, back, fin)' /\ pc' \in DoitPcs /\ pc' \in CurrentPcs \ {"rename", "markquit", "fsync"}
    BY <1>2, <2>2, AtDoit DEF Caller, DoitPcs, CurrentPcs
  <2>9. Control'
    BY <1>2, <2>2, <2>8 DEF Control, FinishPcs
  <2>10. Buffers'
    BY <1>2, <1>5, <1>6, <2>4, <2>8 DEF Buffers
  <2> QED BY <1>2, <1>5, <2>4, <2>5, <2>6, <2>7, <2>8, <2>9, <2>10, MovesAlong
<1>b. CASE ~(Len(chunk) <= OutBuf - Len(mem.ss))
  <2>1. PICK out \in Seq(Tokens), ss \in Seq(Tokens), todo \in Seq(Seq(Tokens)) :
          /\ mem' = [mem EXCEPT !.out = out, !.ss = ss, !.todo = todo]
          /\ ss = <<>>
          /\ \/ out = mem.ss /\ todo = mem.todo
             \/ mem.ss = <<>> /\ out = chunk /\ todo = rest
    <3>1. CASE mem.ss # <<>>
      <4>1. mem' = [mem EXCEPT !.out = mem.ss, !.ss = <<>>, !.todo = mem.todo]
        BY <1>b, <1>1, <1>3, <3>1 DEF Put, Memory
      <4> QED BY <4>1, <1>3, NoTokens
    <3>2. CASE mem.ss = <<>>
      <4>1. mem' = [mem EXCEPT !.out = chunk, !.ss = mem.ss, !.todo = rest]
        BY <1>b, <1>1, <1>3, <1>4, <3>2 DEF Put, Memory
      <4> QED BY <4>1, <3>2, <1>3, <1>4
    <3> QED BY <3>1, <3>2
  <2>2. pc' = "write" /\ ret' = "put"
    BY <1>b, <1>1 DEF Put, WriteAll
  <2>3. Elements(ss) = {} /\ Ascending(ss) /\ Len(ss) <= OutBuf
    BY <2>1, <1>3, NoElements, NoTokens
  <2>4. /\ mem' \in Memory /\ mem'.ss = ss /\ mem'.todo = todo
        /\ mem'.out = out /\ mem'.line = mem.line /\ mem'.inbuf = mem.inbuf /\ mem'.long = mem.long
        /\ mem'.eof = mem.eof /\ mem'.flagnewline = mem.flagnewline /\ mem'.bytes = mem.bytes
        /\ mem'.flagforcerotate = mem.flagforcerotate
    BY <2>1, <1>3 DEF Memory
  <2>5. In(mem') = In(mem)
    BY <2>1, <2>3, <2>4, <1>4, <1>6 DEF In
  <2>6. Pipe(mem')
    BY <2>1, <2>3, <2>4, <1>4 DEF Pipe, Below
  <2>7. Types'
    BY <2>3, <2>4, <1>2 DEF Types
  <2>8. Caller' = "put" /\ InWrite(pc, back, fin)' /\ pc' \in CurrentPcs \ {"rename", "markquit", "fsync"}
    BY <1>2, <2>2, AtWrite DEF Caller, CurrentPcs
  <2>9. Control'
    BY <1>2, <2>2, <2>8 DEF Control, FinishPcs
  <2>10. Buffers'
    BY <1>2, <1>5, <1>6, <2>4, <2>8 DEF Buffers
  <2> QED BY <1>2, <1>5, <2>4, <2>5, <2>6, <2>7, <2>8, <2>9, <2>10, MovesAlong
<1> QED BY <1>a, <1>b

(* What GetChar makes of ch: chunks that are to be put, and the line.       *)
Moved(ch, rest, todo, line, long) ==
  /\ /\ mem' \in Memory /\ mem'.ss = mem.ss /\ mem'.todo = todo
     /\ mem'.out = mem.out /\ mem'.line = line /\ mem'.inbuf = rest /\ mem'.long = long
     /\ mem'.eof = mem.eof /\ mem'.flagnewline = mem.flagnewline /\ mem'.bytes = mem.bytes
     /\ mem'.flagforcerotate = mem.flagforcerotate
  /\ Elements(mem.line) \cup {ch} = AllOf(todo) \cup Elements(line)
  /\ Ranked(todo) /\ Ascending(line) /\ Below(AllOf(todo), Elements(line))
  /\ Len(line) < MaxLine /\ (long => line = <<>>)
  /\ IsNewline(ch) => line = <<>> /\ ~long
  /\ pc' = "put" \/ (pc' = "doit" /\ todo = <<>>)

LEMMA GetCharKeeps == ASSUME MultilogAssumption, IInv, GetChar PROVE IInv'
<1> USE DEF IInv
<1>1. PICK ch \in Tokens, rest \in Seq(Tokens) :
        /\ ch = Head(mem.inbuf) /\ rest = Tail(mem.inbuf)
        /\ Elements(mem.inbuf) = {ch} \cup Elements(rest)
        /\ Ascending(rest) /\ Below({ch}, Elements(rest))
        /\ rest # <<>> => rest[Len(rest)] = mem.inbuf[Len(mem.inbuf)]
        /\ rest = <<>> => ch = mem.inbuf[Len(mem.inbuf)]
  <2>1. mem.inbuf \in Seq(Tokens) /\ mem.inbuf # <<>> /\ Ascending(mem.inbuf)
    BY DEF GetChar, Types, Memory, Pipe
  <2> QED BY <2>1, FirstAndRest
<1>2. /\ pc = "doit" /\ back' = back /\ fin' = fin /\ ret' = ret /\ mem.inbuf # <<>>
      /\ dir' = dir /\ log' = log /\ taken' = taken /\ sigs' = sigs /\ bound' = bound
      /\ processor' = processor
  BY DEF GetChar, Goto, call, env
<1>3. /\ mem \in Memory /\ mem.line \in Seq(Tokens) /\ Len(mem.line) < MaxLine
      /\ MaxLine \in Nat \ {0}
  BY DEF Types, Memory, MultilogAssumption
<1>4. Caller = "doit" /\ ~InWrite(pc, back, fin) /\ pc \in DoitPcs /\ pc \in CurrentPcs
  BY <1>2, AtDoit DEF Caller, DoitPcs, CurrentPcs
<1>5. /\ mem.todo = <<>> /\ AllOf(mem.todo) = {} /\ ~mem.eof /\ mem.out = <<>>
      /\ mem.long => mem.line = <<>>
      /\ mem.flagnewline => IsNewline(mem.inbuf[Len(mem.inbuf)])
  BY <1>2, <1>4, NoElements DEF Buffers
<1>6. /\ Ascending(mem.line) /\ Below(Elements(mem.line), {ch})
      /\ Below(Elements(mem.line), Elements(rest))
  BY <1>1 DEF Pipe, Below
<1>a. PICK todo \in Seq(Seq(Tokens)), line \in Seq(Tokens), long \in BOOLEAN : Moved(ch, rest, todo, line, long)
  <2> HIDE DEF IInv
  <2>1. PICK none : none = <<>>
    OBVIOUS
  <2>2. none \in Seq(Tokens) /\ Elements(none) = {} /\ Ascending(none) /\ Len(none) < MaxLine
    <3>1. Len(none) = 0 /\ none \in Seq(Tokens)
      BY <2>1, NoTokens
    <3>2. Elements(none) = {} /\ Ascending(none)
      BY <2>1, NoElements
    <3> QED BY <3>1, <3>2, <1>3
  <2>3. PICK one : one = <<ch>>
    OBVIOUS
  <2>4. one \in Seq(Tokens) /\ Elements(one) = {ch} /\ Ascending(one)
    BY <2>3, OneElement
  <2>5. PICK more \in Seq(Tokens) :
          /\ more = Append(mem.line, ch) /\ Elements(more) = Elements(mem.line) \cup {ch}
          /\ Ascending(more)
    BY <1>3, <1>6, OneMore
  <2>6. PICK m : m = [mem EXCEPT !.inbuf = rest]
    OBVIOUS
  <2>7. /\ m \in Memory /\ m.ss = mem.ss /\ m.todo = mem.todo
        /\ m.out = mem.out /\ m.line = mem.line /\ m.inbuf = rest /\ m.long = mem.long
        /\ m.eof = mem.eof /\ m.flagnewline = mem.flagnewline /\ m.bytes = mem.bytes
        /\ m.flagforcerotate = mem.flagforcerotate
    BY <2>6, <1>3 DEF Memory
  <2>8. \/ /\ mem.long
           /\ mem' = [m EXCEPT !.todo = <<<<ch>>>>, !.long = ~IsNewline(ch)] /\ pc' = "put"
        \/ /\ ~mem.long /\ IsNewline(ch)
           /\ mem' = [m EXCEPT !.todo = <<mem.line, <<ch>>>>, !.line = <<>>] /\ pc' = "put"
        \/ /\ ~mem.long /\ ~IsNewline(ch) /\ Len(more) < MaxLine
           /\ mem' = [m EXCEPT !.line = more] /\ pc' = "doit"
        \/ /\ ~mem.long /\ ~IsNewline(ch) /\ Len(more) = MaxLine
           /\ mem' = [m EXCEPT !.todo = <<more>>, !.line = <<>>, !.long = TRUE] /\ pc' = "put"
    <3>1. ch = Head(mem.inbuf) /\ m = [mem EXCEPT !.inbuf = Tail(mem.inbuf)] /\ more = Append(mem.line, ch)
      BY <2>5, <2>6, <1>1
    <3> QED BY <3>1 DEF GetChar, Goto
  <2>a. CASE mem.long
    <3>1. mem' = [m EXCEPT !.todo = <<<<ch>>>>, !.long = ~IsNewline(ch)] /\ pc' = "put"
      BY <2>a, <2>8
    <3>2. PICK todo : todo = <<one>>
      OBVIOUS
    <3>3. todo \in Seq(Seq(Tokens)) /\ AllOf(todo) = {ch} /\ Ranked(todo)
      BY <3>2, <2>4, RankedChunks
    <3>4. PICK long \in BOOLEAN : long = ~IsNewline(ch)
      OBVIOUS
    <3>5. mem' = [m EXCEPT !.todo = todo, !.long = long]
      BY <3>1, <3>2, <3>4, <2>3
    <3>6. /\ mem' \in Memory /\ mem'.ss = mem.ss /\ mem'.todo = todo
          /\ mem'.out = mem.out /\ mem'.line = mem.line /\ mem'.inbuf = rest /\ mem'.long = long
          /\ mem'.eof = mem.eof /\ mem'.flagnewline = mem.flagnewline /\ mem'.bytes = mem.bytes
          /\ mem'.flagforcerotate = mem.flagforcerotate
      BY <3>3, <3>5, <2>7 DEF Memory
    <3>7. mem.line = none
      BY <2>a, <2>1, <1>5
    <3>8. Below(AllOf(todo), Elements(none))
      BY <2>2 DEF Below
    <3>9. Moved(ch, rest, todo, none, long)
      BY <3>1, <3>3, <3>4, <3>6, <3>7, <3>8, <2>1, <2>2 DEF Moved
    <3> QED BY <3>3, <3>4, <3>9, <2>2
  <2>b. CASE ~mem.long /\ IsNewline(ch)
    <3>1. mem' = [m EXCEPT !.todo = <<mem.line, <<ch>>>>, !.line = <<>>] /\ pc' = "put"
      BY <2>b, <2>8
    <3>2. PICK todo : todo = <<mem.line, one>>
      OBVIOUS
    <3>3. todo \in Seq(Seq(Tokens)) /\ AllOf(todo) = Elements(mem.line) \cup {ch} /\ Ranked(todo)
      <4>1. Below(Elements(mem.line), Elements(one))
        BY <2>4, <1>6
      <4>2. AllOf(todo) = Elements(mem.line) \cup Elements(one)
        BY <3>2, <2>4, <1>3, RankedChunks
      <4>3. todo \in Seq(Seq(Tokens)) /\ Ranked(todo)
        BY <4>1, <3>2, <2>4, <1>3, <1>6, RankedChunks
      <4> QED BY <4>2, <4>3, <2>4
    <3>5. mem' = [m EXCEPT !.todo = todo, !.line = none]
      BY <3>1, <3>2, <2>1, <2>3
    <3>6. /\ mem' \in Memory /\ mem'.ss = mem.ss /\ mem'.todo = todo
          /\ mem'.out = mem.out /\ mem'.line = none /\ mem'.inbuf = rest /\ mem'.long = FALSE
          /\ mem'.eof = mem.eof /\ mem'.flagnewline = mem.flagnewline /\ mem'.bytes = mem.bytes
          /\ mem'.flagforcerotate = mem.flagforcerotate
      <4>1. m.long = FALSE
        BY <2>7, <2>b, <1>3 DEF Memory
      <4> QED BY <3>3, <3>5, <2>2, <2>7, <4>1 DEF Memory
    <3>8. Below(AllOf(todo), Elements(none))
      BY <2>2 DEF Below
    <3>9. Moved(ch, rest, todo, none, FALSE)
      BY <3>1, <3>3, <3>6, <3>8, <2>1, <2>2 DEF Moved
    <3> QED BY <3>3, <3>9, <2>2
  <2>c. CASE ~mem.long /\ ~IsNewline(ch) /\ Len(more) < MaxLine
    <3>1. mem' = [m EXCEPT !.line = more] /\ pc' = "doit"
      BY <2>c, <2>8
    <3>2. Ranked(mem.todo) /\ mem.todo \in Seq(Seq(Tokens)) /\ Below(AllOf(mem.todo), Elements(more))
      BY <1>5, NoElements, NoTokens DEF Below
    <3>6. /\ mem' \in Memory /\ mem'.ss = mem.ss /\ mem'.todo = mem.todo
          /\ mem'.out = mem.out /\ mem'.line = more /\ mem'.inbuf = rest /\ mem'.long = FALSE
          /\ mem'.eof = mem.eof /\ mem'.flagnewline = mem.flagnewline /\ mem'.bytes = mem.bytes
          /\ mem'.flagforcerotate = mem.flagforcerotate
      <4>1. m.long = FALSE
        BY <2>7, <2>c, <1>3 DEF Memory
      <4> QED BY <3>1, <2>5, <2>7, <4>1 DEF Memory
    <3>9. Moved(ch, rest, mem.todo, more, FALSE)
      BY <3>1, <3>2, <3>6, <2>5, <2>c, <1>5 DEF Moved
    <3> QED BY <3>2, <3>9, <2>5
  <2>d. CASE ~mem.long /\ ~IsNewline(ch) /\ Len(more) = MaxLine
    <3>1. mem' = [m EXCEPT !.todo = <<more>>, !.line = <<>>, !.long = TRUE] /\ pc' = "put"
      BY <2>d, <2>8, <1>3
    <3>2. PICK todo : todo = <<more>>
      OBVIOUS
    <3>3. todo \in Seq(Seq(Tokens)) /\ AllOf(todo) = Elements(mem.line) \cup {ch} /\ Ranked(todo)
      BY <3>2, <2>5, RankedChunks
    <3>5. mem' = [m EXCEPT !.todo = todo, !.line = none, !.long = TRUE]
      BY <3>1, <3>2, <2>1
    <3>6. /\ mem' \in Memory /\ mem'.ss = mem.ss /\ mem'.todo = todo
          /\ mem'.out = mem.out /\ mem'.line = none /\ mem'.inbuf = rest /\ mem'.long = TRUE
          /\ mem'.eof = mem.eof /\ mem'.flagnewline = mem.flagnewline /\ mem'.bytes = mem.bytes
          /\ mem'.flagforcerotate = mem.flagforcerotate
      BY <3>3, <3>5, <2>2, <2>7 DEF Memory
    <3>8. Below(AllOf(todo), Elements(none))
      BY <2>2 DEF Below
    <3>9. Moved(ch, rest, todo, none, TRUE)
      BY <3>1, <3>3, <3>6, <3>8, <2>1, <2>2, <2>5, <2>d DEF Moved
    <3> QED BY <3>3, <3>9, <2>2
  <2> QED BY <2>a, <2>b, <2>c, <2>d, <2>8
<1>7. /\ /\ mem' \in Memory /\ mem'.ss = mem.ss /\ mem'.todo = todo
         /\ mem'.out = mem.out /\ mem'.line = line /\ mem'.inbuf = rest /\ mem'.long = long
         /\ mem'.eof = mem.eof /\ mem'.flagnewline = mem.flagnewline /\ mem'.bytes = mem.bytes
         /\ mem'.flagforcerotate = mem.flagforcerotate
      /\ Elements(mem.line) \cup {ch} = AllOf(todo) \cup Elements(line)
      /\ Ranked(todo) /\ Ascending(line) /\ Below(AllOf(todo), Elements(line))
      /\ Len(line) < MaxLine /\ (long => line = <<>>)
      /\ IsNewline(ch) => line = <<>> /\ ~long
      /\ pc' = "put" \/ (pc' = "doit" /\ todo = <<>>)
  BY <1>a DEF Moved
<1>8. /\ mem' \in Memory /\ mem'.ss = mem.ss /\ mem'.todo = todo
      /\ mem'.out = mem.out /\ mem'.line = line /\ mem'.inbuf = rest /\ mem'.long = long
      /\ mem'.eof = mem.eof /\ mem'.flagnewline = mem.flagnewline /\ mem'.bytes = mem.bytes
      /\ mem'.flagforcerotate = mem.flagforcerotate
  BY <1>7
<1>9. In(mem') = In(mem)
  BY <1>1, <1>5, <1>7, <1>8 DEF In
<1>10. Pipe(mem')
  <2>1. AllOf(todo) \cup Elements(line) \cup Elements(rest)
          = AllOf(mem.todo) \cup Elements(mem.line) \cup Elements(mem.inbuf)
    BY <1>1, <1>5, <1>7
  <2>2. Elements(mem.ss) \cup AllOf(todo) \cup Elements(line) \cup Elements(rest)
          = Elements(mem.ss) \cup AllOf(mem.todo) \cup Elements(mem.line) \cup Elements(mem.inbuf)
    BY <2>1
  <2>3. Below(Elements(mem.line) \cup {ch}, Elements(rest))
    BY <1>1, <1>6 DEF Below
  <2>4. /\ Below(AllOf(todo), Elements(line) \cup Elements(rest))
        /\ Below(Elements(line), Elements(rest))
    BY <2>3, <1>7 DEF Below
  <2> QED BY <2>1, <2>2, <2>4, <1>1, <1>7, <1>8 DEF Pipe
<1>11. Types'
  BY <1>2, <1>7, <1>8 DEF Types
<1>12. /\ Caller' = pc' /\ ~InWrite(pc, back, fin)' /\ pc' \in DoitPcs /\ pc' \in CurrentPcs \ {"rename", "markquit", "fsync"}
       /\ pc' \in {"put", "doit"}
  BY <1>2, <1>7, AtDoit DEF Caller, DoitPcs, CurrentPcs
<1>13. Control'
  BY <1>2, <1>12 DEF Control, FinishPcs
<1>14. Buffers'
  BY <1>1, <1>2, <1>4, <1>5, <1>7, <1>8, <1>12 DEF Buffers
<1> QED BY <1>2, <1>4, <1>8, <1>9, <1>10, <1>11, <1>12, <1>13, <1>14, MovesAlong

(* flushread() and the end of multilog flush the output buffer.             *)
LEMMA FlushKeeps == ASSUME MultilogAssumption, IInv, Flush \/ Quit PROVE IInv'
<1> USE DEF IInv
<1>1. /\ pc \in {"doit", "quit"} /\ back' = back /\ fin' = fin /\ pc' = "write"
      /\ dir' = dir /\ log' = log /\ taken' = taken /\ sigs' = sigs /\ bound' = bound
      /\ processor' = processor
      /\ pc = "doit" => mem.inbuf = <<>> /\ ret' = "forcerotate"
      /\ pc = "quit" => ret' = "syncquit"
      /\ mem' = [mem EXCEPT !.out = mem.ss, !.ss = <<>>]
  BY DEF Flush, Flushed, Quit, WriteAll, env
<1>2. Caller = pc /\ ~InWrite(pc, back, fin) /\ pc \in DoitPcs /\ pc \in CurrentPcs
  BY <1>1, AtDoit DEF Caller, DoitPcs, CurrentPcs
<1>a. PICK none : none = <<>>
  OBVIOUS
<1>3. none \in Seq(Tokens) /\ none = <<>> /\ Elements(none) = {} /\ Ascending(none) /\ Len(none) <= OutBuf
  <2>1. Len(none) = 0 /\ none \in Seq(Tokens) /\ OutBuf \in Nat
    BY <1>a, NoTokens DEF MultilogAssumption
  <2>2. Elements(none) = {} /\ Ascending(none)
    BY <1>a, NoElements
  <2> QED BY <1>a, <2>1, <2>2
<1>4. /\ mem' \in Memory /\ mem'.ss = none /\ mem'.todo = mem.todo
      /\ mem'.out = mem.ss /\ mem'.line = mem.line /\ mem'.inbuf = mem.inbuf /\ mem'.long = mem.long
      /\ mem'.eof = mem.eof /\ mem'.flagnewline = mem.flagnewline /\ mem'.bytes = mem.bytes
      /\ mem'.flagforcerotate = mem.flagforcerotate
  <2>1. mem \in Memory /\ mem' = [mem EXCEPT !.out = mem.ss, !.ss = none]
    BY <1>1, <1>3 DEF Types
  <2> QED BY <2>1, <1>3 DEF Memory
<1>5. mem.out = <<>> /\ Elements(mem.out) = {}
  BY <1>2, NoElements DEF Buffers
<1>6. In(mem') = In(mem)
  BY <1>3, <1>4, <1>5 DEF In
<1>7. Pipe(mem')
  BY <1>3, <1>4 DEF Pipe, Below
<1>8. Types'
  BY <1>1, <1>3, <1>4 DEF Types
<1>9. Caller' = ret' /\ InWrite(pc, back, fin)' /\ pc' \in CurrentPcs \ {"rename", "markquit", "fsync"}
  BY <1>1, AtWrite DEF Caller, CurrentPcs
<1>10. Control'
  BY <1>1, <1>9 DEF Control, FinishPcs
<1>11. Buffers'
  BY <1>1, <1>2, <1>3, <1>4, <1>5, <1>9 DEF Buffers
<1> QED BY <1>1, <1>2, <1>4, <1>6, <1>7, <1>8, <1>9, <1>10, <1>11, MovesAlong

LEMMA ForceRotateKeeps == ASSUME MultilogAssumption, IInv, ForceRotate PROVE IInv'
<1> USE DEF IInv
<1>1. /\ pc = "forcerotate" /\ fin' = fin /\ ret' = ret
      /\ dir' = dir /\ log' = log /\ taken' = taken /\ sigs' = sigs /\ bound' = bound
      /\ processor' = processor /\ pc' \in {"fsync", "exitasap"}
      /\ pc' = "fsync" => mem.flagforcerotate /\ mem.bytes > 0 /\ back' = "exitasap"
      /\ pc' = "exitasap" => back' = back
      /\ mem' = [mem EXCEPT !.flagforcerotate = FALSE]
  BY DEF ForceRotate, FullCurrent, Goto, call, env
<1>2. Caller = pc /\ ~InWrite(pc, back, fin) /\ pc \in DoitPcs /\ pc \in CurrentPcs
  BY <1>1, AtDoit DEF Caller, DoitPcs, CurrentPcs
<1>3. /\ mem' \in Memory /\ mem'.ss = mem.ss /\ mem'.todo = mem.todo
      /\ mem'.out = mem.out /\ mem'.line = mem.line /\ mem'.inbuf = mem.inbuf /\ mem'.long = mem.long
      /\ mem'.eof = mem.eof /\ mem'.flagnewline = mem.flagnewline /\ mem'.bytes = mem.bytes
      /\ mem'.flagforcerotate = FALSE
  <2>1. mem \in Memory
    BY DEF Types
  <2> QED BY <2>1, <1>1 DEF Memory
<1>4. In(mem') = In(mem) /\ Pipe(mem')
  BY <1>3 DEF In, Pipe
<1>5. Types'
  BY <1>1, <1>3 DEF Types
<1>6. Caller' = "exitasap" /\ ~InWrite(pc, back, fin)'
  <2>1. CASE pc' = "fsync"
    <3>1. pc' \in RotatePcs
      BY <2>1 DEF RotatePcs
    <3> QED BY <2>1, <3>1, <1>1, AtRotate DEF Caller
  <2>2. CASE pc' = "exitasap"
    <3>1. pc' \in DoitPcs
      BY <2>2 DEF DoitPcs
    <3> QED BY <2>2, <3>1, <1>1, AtDoit DEF Caller
  <2> QED BY <2>1, <2>2, <1>1
<1>7. Control'
  <2>1. pc' \notin FinishPcs /\ pc' \in DoitPcs \cup RotatePcs
    BY <1>1 DEF FinishPcs, DoitPcs, RotatePcs
  <2> QED BY <2>1, <1>1, <1>6 DEF Control
<1>8. Buffers'
  BY <1>1, <1>2, <1>3, <1>6 DEF Buffers
<1>9. pc' = "fsync" => Ends(dir.current.data, bound.signals)
  <2>1. mem.bytes = Len(dir.current.data)
    BY <1>2 DEF Layout, AtCurrent
  <2>2. mem.flagforcerotate => bound.signals > 0
    BY DEF Types
  <2> QED BY <2>1, <2>2, <1>1, NoTokens DEF Ends
<1>10. pc' \in CurrentPcs \ {"rename", "markquit"}
  BY <1>1 DEF CurrentPcs, DoitPcs
<1> QED BY <1>1, <1>2, <1>3, <1>4, <1>5, <1>7, <1>8, <1>9, <1>10, MovesAlong

(* A handler sets its flag.                                                 *)
LEMMA HandledIs ==
  ASSUME Types, NEW m \in Memory, m.flagforcerotate => bound.signals > 0
  PROVE  LET h == Handled(m)
         IN /\ h \in Memory /\ h.ss = m.ss /\ h.todo = m.todo
            /\ h.out = m.out /\ h.line = m.line /\ h.inbuf = m.inbuf /\ h.long = m.long
            /\ h.eof = m.eof /\ h.flagnewline = m.flagnewline /\ h.bytes = m.bytes
            /\ h.flagforcerotate => bound.signals > 0
<1>1. PICK a \in BOOLEAN, b \in BOOLEAN :
        /\ a = (m.flagexitasap \/ "TERM" \in sigs) /\ b = (m.flagforcerotate \/ "ALRM" \in sigs)
        /\ Handled(m) = [m EXCEPT !.flagexitasap = a, !.flagforcerotate = b]
  BY DEF Handled
<1>2. b => bound.signals > 0
  BY <1>1 DEF Types
<1> QED BY <1>1, <1>2 DEF Memory

(* What a step keeps that goes on in doit() without writing.                *)
LEMMA InDoit ==
  ASSUME pc \in DoitPcs, pc' \in DoitPcs, Control, ret' = ret, back' = back, fin' = fin
  PROVE  /\ Caller = pc /\ ~InWrite(pc, back, fin) /\ Caller' = pc' /\ ~InWrite(pc, back, fin)' 
         /\ Control' /\ pc \in CurrentPcs /\ pc' \in CurrentPcs \ {"rename", "fsync"}
<1>1. Caller = pc /\ ~InWrite(pc, back, fin)
  BY AtDoit DEF Caller
<1>2. Caller' = pc' /\ ~InWrite(pc, back, fin)'
  BY AtDoit DEF Caller
<1>3. pc' \notin FinishPcs
  BY DEF DoitPcs, FinishPcs
<1> QED BY <1>1, <1>2, <1>3 DEF Control, CurrentPcs, DoitPcs

LEMMA UnblockKeeps == ASSUME MultilogAssumption, IInv, Unblock \/ Interrupted PROVE IInv'
<1> USE DEF IInv
<1>1. /\ \/ pc = "unblock" /\ pc' = "read"
         \/ pc = "read" /\ pc' = "doit"
      /\ ret' = ret /\ back' = back /\ fin' = fin
      /\ dir' = dir /\ log' = log /\ taken' = taken /\ sigs' = {} /\ bound' = bound
      /\ processor' = processor /\ mem' = Handled(mem)
  BY DEF Unblock, Interrupted, Goto, call
<1>2. /\ Caller = pc /\ ~InWrite(pc, back, fin) /\ Caller' = pc' /\ ~InWrite(pc, back, fin)' 
      /\ Control' /\ pc \in CurrentPcs /\ pc' \in CurrentPcs \ {"rename", "markquit", "fsync"}
  <2>1. pc \in DoitPcs /\ pc' \in DoitPcs
    BY <1>1 DEF DoitPcs
  <2> QED BY <2>1, <1>1, InDoit
<1>3. /\ mem' \in Memory /\ mem'.ss = mem.ss /\ mem'.todo = mem.todo
      /\ mem'.out = mem.out /\ mem'.line = mem.line /\ mem'.inbuf = mem.inbuf /\ mem'.long = mem.long
      /\ mem'.eof = mem.eof /\ mem'.flagnewline = mem.flagnewline /\ mem'.bytes = mem.bytes
      /\ mem'.flagforcerotate => bound.signals > 0
  BY <1>1, HandledIs DEF Types
<1>4. In(mem') = In(mem) /\ Pipe(mem')
  BY <1>3 DEF In, Pipe
<1>5. Types'
  BY <1>1, <1>3 DEF Types
<1>6. Buffers'
  BY <1>1, <1>2, <1>3 DEF Buffers
<1> QED BY <1>1, <1>2, <1>3, <1>4, <1>5, <1>6, MovesAlong

LEMMA ReadKeeps == ASSUME MultilogAssumption, IInv, Read PROVE IInv'
<1> USE DEF IInv
<1>1. PICK n \in 1 .. IF mem.one THEN 1 ELSE InBuf :
        /\ taken + n <= Input /\ taken' = taken + n
        /\ mem' = Handled([mem EXCEPT !.inbuf = [i \in 1 .. n |-> taken + i],
                                      !.flagnewline = IsNewline(taken + n)])
  BY DEF Read
<1>2. /\ pc = "read" /\ pc' = "doit" /\ ret' = ret /\ back' = back /\ fin' = fin
      /\ dir' = dir /\ log' = log /\ sigs' = {} /\ bound' = bound
      /\ processor' = processor
  BY DEF Read, Goto, call
<1>3. /\ Caller = pc /\ ~InWrite(pc, back, fin) /\ Caller' = pc' /\ ~InWrite(pc, back, fin)' 
      /\ Control' /\ pc \in CurrentPcs /\ pc' \in CurrentPcs \ {"rename", "markquit", "fsync"}
  <2>1. pc \in DoitPcs /\ pc' \in DoitPcs
    BY <1>2 DEF DoitPcs
  <2> QED BY <2>1, <1>2, InDoit
<1>4. /\ mem.ss = <<>> /\ mem.todo = <<>> /\ mem.inbuf = <<>> /\ mem.out = <<>> /\ ~mem.eof
      /\ mem.long => mem.line = <<>>
  BY <1>2, <1>3 DEF Buffers
<1>5. n \in Nat /\ n > 0 /\ taken \in Nat /\ Input \in Nat
  <2>1. taken \in Nat /\ Input \in Nat /\ InBuf \in Nat
    BY DEF Types, MultilogAssumption
  <2> HIDE DEF IInv
  <2>2. n \in Nat /\ n > 0
    BY <2>1, <1>1
  <2> QED BY <2>1, <2>2
<1>6. PICK inbuf : inbuf = [i \in 1 .. n |-> taken + i]
  OBVIOUS
<1>7. /\ inbuf \in Seq(Tokens) /\ Len(inbuf) = n /\ inbuf # <<>> /\ Ascending(inbuf)
      /\ inbuf[n] = taken + n /\ Elements(inbuf) = taken + 1 .. taken'
  <2> HIDE DEF IInv
  <2>1. \A i \in 1 .. n : taken + i \in Tokens
    BY <1>1, <1>5 DEF Tokens, EofNewline
  <2>2. inbuf \in Seq(Tokens) /\ Len(inbuf) = n
    BY <2>1, <1>5, <1>6
  <2>3. \A i \in 1 .. n : inbuf[i] = taken + i
    BY <1>6
  <2>4. Ascending(inbuf)
    BY <2>2, <2>3, <1>5 DEF Ascending
  <2>5. Elements(inbuf) \subseteq taken + 1 .. taken'
    <3>1. \A i \in 1 .. n : taken + i \in taken + 1 .. taken'
      BY <1>1, <1>5
    <3> QED BY <3>1, <2>2, <2>3 DEF Elements
  <2>6. ASSUME NEW t \in taken + 1 .. taken' PROVE t \in Elements(inbuf)
    <3>1. t - taken \in 1 .. n /\ taken + (t - taken) = t
      BY <1>1, <1>5
    <3>2. inbuf[t - taken] = t
      BY <3>1, <2>3
    <3> QED BY <3>1, <3>2, <2>2 DEF Elements
  <2>7. n \in 1 .. n
    BY <1>5
  <2>8. inbuf # <<>>
    BY <2>2, <1>5, NoTokens
  <2>9. inbuf[n] = taken + n
    BY <2>3, <2>7
  <2>10. Elements(inbuf) = taken + 1 .. taken'
    BY <2>5, <2>6
  <2> QED BY <2>2, <2>4, <2>8, <2>9, <2>10
<1>8. PICK nl \in BOOLEAN : nl = IsNewline(taken + n)
  BY DEF IsNewline
<1>9. PICK m : m = [mem EXCEPT !.inbuf = inbuf, !.flagnewline = nl]
  OBVIOUS
<1>10. /\ m \in Memory /\ m.ss = mem.ss /\ m.todo = mem.todo
       /\ m.out = mem.out /\ m.line = mem.line /\ m.inbuf = inbuf /\ m.long = mem.long
       /\ m.eof = mem.eof /\ m.flagnewline = nl /\ m.bytes = mem.bytes
       /\ m.flagforcerotate = mem.flagforcerotate
  <2>1. mem \in Memory
    BY DEF Types
  <2> QED BY <2>1, <1>7, <1>9 DEF Memory
<1>11. mem' = Handled(m)
  BY <1>1, <1>6, <1>8, <1>9
<1>12. /\ mem' \in Memory /\ mem'.ss = mem.ss /\ mem'.todo = mem.todo
       /\ mem'.out = mem.out /\ mem'.line = mem.line /\ mem'.inbuf = inbuf /\ mem'.long = mem.long
       /\ mem'.eof = mem.eof /\ mem'.flagnewline = nl /\ mem'.bytes = mem.bytes
       /\ mem'.flagforcerotate => bound.signals > 0
  <2>1. m.flagforcerotate => bound.signals > 0
    BY <1>10 DEF Types
  <2> QED BY <2>1, <1>10, <1>11, HandledIs
<1>13. In(mem') = In(mem) \cup (taken + 1 .. taken')
  BY <1>4, <1>7, <1>12, NoElements DEF In
<1>14. Pipe(mem')
  <2>1. /\ Elements(mem.ss) = {} /\ Elements(mem.out) = {} /\ AllOf(mem.todo) = {}
    BY <1>4, NoElements
  <2>2. ASSUME NEW a \in Elements(mem.line), NEW b \in Elements(inbuf) PROVE a < b
    <3>0. b \in taken + 1 .. taken'
      BY <1>7
    <3>1. a \in Upto(taken) /\ a # EofNewline
      <4>1. mem.line # <<>>
        BY NoElements
      <4> QED BY <4>1 DEF Bounds, In
    <3>2. a \in 1 .. taken
      BY <3>1 DEF Upto
    <3> HIDE DEF IInv
    <3> QED BY <3>0, <3>2, <1>1, <1>5
  <2>3. Below(Elements(mem.line), Elements(inbuf))
    BY <2>2 DEF Below
  <2> QED BY <2>1, <2>3, <1>7, <1>12 DEF Pipe, Below
<1>15. taken' \in 0 .. Input /\ taken < taken' /\ taken' <= Input
  BY <1>1, <1>5
<1>16. Types'
  BY <1>2, <1>12, <1>15 DEF Types
<1>17. Buffers'
  BY <1>1, <1>2, <1>3, <1>4, <1>7, <1>8, <1>12 DEF Buffers
<1> QED BY <1>2, <1>3, <1>12, <1>13, <1>14, <1>15, <1>16, <1>17, TakesMore

(* The end of the input, or of what multilog will read.                     *)
LEMMA EndKeeps ==
  ASSUME MultilogAssumption, IInv, pc \in {"exitasap", "read"},
         NEW m \in Memory, EndOfInput(m), m.flagforcerotate => bound.signals > 0,
         m.ss = mem.ss, m.todo = mem.todo, m.out = mem.out, m.line = mem.line, m.inbuf = mem.inbuf,
         m.long = mem.long, m.eof = mem.eof, m.flagnewline = mem.flagnewline, m.bytes = mem.bytes,
         taken = Input \/ mem.flagnewline,
         dir' = dir, log' = log, taken' = taken, sigs' = {} \/ sigs' = sigs, bound' = bound,
         processor' = processor
  PROVE  IInv'
<1> USE DEF IInv
<1>1. pc' \in {"quit", "put"} /\ ret' = ret /\ back' = back /\ fin' = fin
  BY DEF EndOfInput, Goto, call
<1>2. /\ Caller = pc /\ ~InWrite(pc, back, fin) /\ Caller' = pc' /\ ~InWrite(pc, back, fin)' 
      /\ Control' /\ pc \in CurrentPcs /\ pc' \in CurrentPcs \ {"rename", "markquit", "fsync"}
  <2>1. pc \in DoitPcs /\ pc' \in DoitPcs
    BY <1>1 DEF DoitPcs
  <2> QED BY <2>1, <1>1, InDoit
<1>3. /\ mem.ss = <<>> /\ mem.todo = <<>> /\ mem.inbuf = <<>> /\ mem.out = <<>> /\ ~mem.eof
      /\ mem.long => mem.line = <<>>
      /\ mem.flagnewline => mem.line = <<>> /\ ~mem.long
  BY <1>2 DEF Buffers
<1>a. CASE m.line = <<>> /\ ~m.long
  <2>1. mem' = m /\ pc' = "quit"
    BY <1>a DEF EndOfInput, Goto
  <2>2. In(mem') = In(mem) /\ Pipe(mem')
    BY <2>1 DEF In, Pipe
  <2>3. Types'
    BY <2>1 DEF Types
  <2>4. Buffers'
    BY <1>1, <1>2, <1>3, <1>a, <2>1 DEF Buffers
  <2> QED BY <1>2, <1>3, <1>a, <2>1, <2>2, <2>3, <2>4, MovesAlong
<1>b. CASE ~(m.line = <<>> /\ ~m.long)
  <2>1. /\ mem' = [m EXCEPT !.todo = <<m.line, <<EofNewline>>>>, !.line = <<>>,
                            !.long = FALSE, !.eof = TRUE]
        /\ pc' = "put" /\ taken = Input
    BY <1>b, <1>3 DEF EndOfInput, Goto
  <2>2. PICK none : none = <<>>
    OBVIOUS
  <2>3. none \in Seq(Tokens) /\ Elements(none) = {} /\ Ascending(none) /\ Len(none) < MaxLine
    <3>1. Len(none) = 0 /\ none \in Seq(Tokens) /\ MaxLine \in Nat \ {0}
      BY <2>2, NoTokens DEF MultilogAssumption
    <3>2. Elements(none) = {} /\ Ascending(none)
      BY <2>2, NoElements
    <3> QED BY <3>1, <3>2
  <2>4. EofNewline \in Tokens /\ Input \in Nat /\ EofNewline = Input + 1
    BY DEF EofNewline, Tokens, MultilogAssumption
  <2>5. PICK one : one = <<EofNewline>>
    OBVIOUS
  <2>6. one \in Seq(Tokens) /\ Elements(one) = {EofNewline} /\ Ascending(one)
    BY <2>4, <2>5, OneElement
  <2>7. Below(Elements(mem.line), Elements(one))
    <3>1. Elements(mem.line) \subseteq Upto(taken) \ {EofNewline}
      BY <1>b DEF Bounds, In
    <3>2. \A a \in Elements(mem.line) : a \in 1 .. Input
      BY <3>1, <2>1 DEF Upto
    <3> QED BY <3>2, <2>4, <2>6 DEF Below
  <2>8. PICK todo : todo = <<mem.line, one>>
    OBVIOUS
  <2>9. todo \in Seq(Seq(Tokens)) /\ AllOf(todo) = Elements(mem.line) \cup {EofNewline} /\ Ranked(todo)
    <3>1. mem.line \in Seq(Tokens) /\ Ascending(mem.line)
      BY DEF Types, Memory, Pipe
    <3> QED BY <3>1, <2>6, <2>7, <2>8, RankedChunks
  <2>10. mem' = [m EXCEPT !.todo = todo, !.line = none, !.long = FALSE, !.eof = TRUE]
    BY <2>1, <2>2, <2>5, <2>8
  <2>11. /\ mem' \in Memory /\ mem'.ss = mem.ss /\ mem'.todo = todo
         /\ mem'.out = mem.out /\ mem'.line = none /\ mem'.inbuf = mem.inbuf /\ mem'.long = FALSE
         /\ mem'.eof = TRUE /\ mem'.flagnewline = mem.flagnewline /\ mem'.bytes = mem.bytes
         /\ mem'.flagforcerotate = m.flagforcerotate
    BY <2>3, <2>9, <2>10 DEF Memory
  <2>12. In(mem') = In(mem) \cup {EofNewline}
    BY <1>3, <2>3, <2>9, <2>11, NoElements DEF In
  <2>13. Pipe(mem')
    <3>1. /\ Elements(mem.ss) = {} /\ Elements(mem.out) = {} /\ Elements(mem.inbuf) = {}
      BY <1>3, NoElements
    <3> QED BY <3>1, <2>3, <2>9, <2>11 DEF Pipe, Below
  <2>14. Types'
    BY <2>3, <2>11 DEF Types
  <2>15. Buffers'
    BY <1>2, <1>3, <2>1, <2>2, <2>11 DEF Buffers
  <2>16. mem.line # <<>> \/ mem.long
    BY <1>b
  <2>17. mem'.line = <<>> /\ ~mem'.long /\ mem'.inbuf = <<>>
    BY <2>2, <2>11, <1>3
  <2> QED BY <1>2, <2>1, <2>11, <2>12, <2>13, <2>14, <2>15, <2>16, <2>17, TakesMore
<1> QED BY <1>a, <1>b

LEMMA ReadEofKeeps == ASSUME MultilogAssumption, IInv, ReadEof PROVE IInv'
<1>1. PICK m : m = Handled(mem)
  OBVIOUS
<1>2. /\ m \in Memory /\ m.ss = mem.ss /\ m.todo = mem.todo
      /\ m.out = mem.out /\ m.line = mem.line /\ m.inbuf = mem.inbuf /\ m.long = mem.long
      /\ m.eof = mem.eof /\ m.flagnewline = mem.flagnewline /\ m.bytes = mem.bytes
      /\ m.flagforcerotate => bound.signals > 0
  BY <1>1, HandledIs DEF Types, IInv
<1>3. /\ pc = "read" /\ taken = Input /\ EndOfInput(m) /\ sigs' = {} /\ dir' = dir /\ log' = log
      /\ taken' = taken /\ bound' = bound /\ processor' = processor
  BY <1>1 DEF ReadEof
<1> QED BY <1>2, <1>3, EndKeeps

LEMMA ExitAsapKeeps == ASSUME MultilogAssumption, IInv, ExitAsap PROVE IInv'
<1>1. /\ pc = "exitasap" /\ dir' = dir /\ log' = log
      /\ taken' = taken /\ sigs' = sigs /\ bound' = bound /\ processor' = processor
  BY DEF ExitAsap, env
<1>a. CASE ExitNow
  <2>1. EndOfInput(mem) /\ mem.flagnewline
    BY <1>a DEF ExitAsap, ExitNow
  <2>2. mem \in Memory /\ (mem.flagforcerotate => bound.signals > 0)
    BY DEF Types, IInv
  <2> QED BY <1>1, <2>1, <2>2, EndKeeps
<1>b. CASE ~ExitNow
  <2> USE DEF IInv
  <2>1. /\ pc' = "unblock" /\ ret' = ret /\ back' = back /\ fin' = fin
        /\ mem' = [mem EXCEPT !.one = mem.flagexitasap]
    BY <1>b DEF ExitAsap, Goto, call
  <2>2. /\ Caller = pc /\ ~InWrite(pc, back, fin) /\ Caller' = pc' /\ ~InWrite(pc, back, fin)' 
        /\ Control' /\ pc \in CurrentPcs /\ pc' \in CurrentPcs \ {"rename", "markquit", "fsync"}
    <3>1. pc \in DoitPcs /\ pc' \in DoitPcs
      BY <1>1, <2>1 DEF DoitPcs
    <3> QED BY <3>1, <1>1, <2>1, InDoit
  <2>3. /\ mem' \in Memory /\ mem'.ss = mem.ss /\ mem'.todo = mem.todo
        /\ mem'.out = mem.out /\ mem'.line = mem.line /\ mem'.inbuf = mem.inbuf /\ mem'.long = mem.long
        /\ mem'.eof = mem.eof /\ mem'.flagnewline = mem.flagnewline /\ mem'.bytes = mem.bytes
        /\ mem'.flagforcerotate = mem.flagforcerotate
    <3>1. mem \in Memory
      BY DEF Types
    <3> QED BY <3>1, <2>1 DEF Memory
  <2>4. In(mem') = In(mem) /\ Pipe(mem')
    BY <2>3 DEF In, Pipe
  <2>5. Types'
    BY <1>1, <2>3 DEF Types
  <2>6. Buffers'
    BY <1>1, <2>1, <2>2, <2>3 DEF Buffers
  <2> QED BY <1>1, <2>1, <2>2, <2>3, <2>4, <2>5, <2>6, MovesAlong
<1> QED BY <1>a, <1>b

-----------------------------------------------------------------------------
(* write().                                                                 *)

LEMMA Greatest ==
  ASSUME NEW n \in Nat, NEW S \in SUBSET (1 .. n), S # {}
  PROVE  \E i \in S : \A j \in S : j <= i
<1> DEFINE R == OpToRel(<, Nat)
<1> DEFINE T == {n - i : i \in S}
<1>1. T \subseteq Nat /\ T # {}
  <2>1. \A i \in S : i \in 1 .. n
    OBVIOUS
  <2>2. \A i \in 1 .. n : n - i \in Nat
    OBVIOUS
  <2>3. T \subseteq Nat
    BY <2>1, <2>2
  <2> QED BY <2>3
<1>2. IsWellFoundedOn(R, Nat)
  BY NatLessThanWellFounded
<1>3. PICK m \in T : \A k \in T : <<k, m>> \notin R
  BY <1>1, <1>2, WFMin
<1>4. \A k \in T : ~ (k < m)
  BY <1>1, <1>3 DEF OpToRel
<1>5. PICK i \in S : m = n - i
  OBVIOUS
<1>6. ASSUME NEW j \in S PROVE j <= i
  <2>1. n - j \in T
    OBVIOUS
  <2>2. ~ (n - j < n - i)
    BY <2>1, <1>4, <1>5
  <2> QED BY <2>2
<1> QED BY <1>6

LEMMA WriteLenIs ==
  ASSUME MultilogAssumption, Types, mem.out # <<>>, mem.bytes < Size
  PROVE  /\ WriteLen \in Nat /\ WriteLen <= Len(mem.out) /\ WriteLen <= Size - mem.bytes
<1> DEFINE len  == Smaller(Len(mem.out), Size - mem.bytes)
<1> DEFINE ends == {i \in 1 .. len : IsNewline(mem.out[i])}
<1>1. Len(mem.out) \in Nat /\ mem.bytes \in Nat /\ Size \in Nat
  BY DEF Types, Memory, MultilogAssumption
<1>2. len \in Nat /\ len <= Len(mem.out) /\ len <= Size - mem.bytes
  BY <1>1 DEF Smaller
<1>3. WriteLen = IF mem.bytes + len >= Size - Slack /\ ends # {}
                 THEN CHOOSE i \in ends : \A j \in ends : j <= i ELSE len
  BY DEF WriteLen
<1> HIDE DEF len
<1>4. ASSUME ends # {} PROVE (CHOOSE i \in ends : \A j \in ends : j <= i) \in 1 .. len
  <2>1. \E i \in ends : \A j \in ends : j <= i
    BY <1>2, <1>4, Greatest
  <2> QED BY <2>1
<1> HIDE DEF ends
<1>5. WriteLen = len \/ WriteLen \in 1 .. len
  BY <1>3, <1>4
<1>6. WriteLen \in Nat /\ WriteLen <= len
  BY <1>2, <1>5
<1> QED BY <1>1, <1>2, <1>6

LEMMA SamePrefix ==
  ASSUME NEW s \in Seq(Tokens), NEW a \in Seq(Tokens), NEW n \in 0 .. Len(s)
  PROVE  SubSeq(s \o a, 1, n) = SubSeq(s, 1, n)
<1> DEFINE c == s \o a
<1>1. /\ c \in Seq(Tokens) /\ Len(c) = Len(s) + Len(a) /\ Len(s) \in Nat /\ Len(a) \in Nat
      /\ \A i \in 1 .. Len(s) : c[i] = s[i]
  <2>1. /\ c \in Seq(Tokens) /\ Len(c) = Len(s) + Len(a) /\ Len(s) \in Nat /\ Len(a) \in Nat
    BY ConcatProperties
  <2>2. \A i \in 1 .. Len(c) : c[i] = IF i <= Len(s) THEN s[i] ELSE a[i - Len(s)]
    BY ConcatProperties
  <2>3. \A i \in 1 .. Len(s) : i \in 1 .. Len(c) /\ i <= Len(s)
    BY <2>1
  <2> QED BY <2>1, <2>2, <2>3
<1> HIDE DEF c
<1>2. n \in 0 .. Len(c) /\ \A i \in 1 .. n : i \in 1 .. Len(s)
  BY <1>1
<1>3. SubSeq(c, 1, n) \in Seq(Tokens) /\ Len(SubSeq(c, 1, n)) = n /\ \A i \in 1 .. n : SubSeq(c, 1, n)[i] = c[i]
  BY <1>1, <1>2, SubSeqProperties
<1>4. SubSeq(s, 1, n) \in Seq(Tokens) /\ Len(SubSeq(s, 1, n)) = n /\ \A i \in 1 .. n : SubSeq(s, 1, n)[i] = s[i]
  BY <1>1, SubSeqProperties
<1>5. SubSeq(c, 1, n) = SubSeq(s, 1, n)
  BY <1>1, <1>2, <1>3, <1>4, SeqEqual
<1> QED BY <1>5 DEF c

(* What is known of a file.                                                 *)
LEMMA FileIs ==
  ASSUME NEW f \in SoundFile
  PROVE  /\ f \in File /\ f.data \in Seq(Tokens) /\ Len(f.data) \in Nat
         /\ f.synced \in Nat /\ f.synced \in 0 .. Len(f.data)
         /\ f.here \in BOOLEAN /\ f.exec \in BOOLEAN /\ f.linked \in BOOLEAN
         /\ SafeData(f) \in Seq(Tokens) /\ Elements(SafeData(f)) \subseteq Elements(f.data)
         /\ f.synced = Len(f.data) => SafeData(f) = f.data
         /\ Ascending(f.data) => Ascending(SafeData(f))
<1>1. /\ f \in File /\ f.data \in Seq(Tokens) /\ Len(f.data) \in Nat
      /\ f.synced \in Nat /\ f.synced \in 0 .. Len(f.data)
      /\ f.here \in BOOLEAN /\ f.exec \in BOOLEAN /\ f.linked \in BOOLEAN
  BY DEF SoundFile, File
<1> QED BY <1>1, Cut DEF SafeData

LEMMA AbsentFile ==
  /\ Absent \in SoundFile /\ Empty \in SoundFile
  /\ Empty.here /\ ~Absent.here
  /\ \A f \in {Absent, Empty} :
       /\ f.data = <<>> /\ f.synced = 0 /\ ~f.exec /\ ~f.linked /\ Len(f.data) = 0
       /\ Data(f) = {} /\ Safe(f) = {}
<1>1. Absent \in File
  BY DEF Absent, File
<1>2. Absent.data = <<>> /\ Absent.synced = 0 /\ ~Absent.exec /\ ~Absent.linked /\ ~Absent.here
  BY DEF Absent
<1>3. Empty \in File /\ Empty.here /\ Empty.data = Absent.data /\ Empty.synced = Absent.synced
      /\ Empty.exec = Absent.exec /\ Empty.linked = Absent.linked
  BY <1>1 DEF Empty, File
<1>4. Len(<<>>) = 0
  BY EmptySeq
<1>5. Absent \in SoundFile /\ Empty \in SoundFile
  BY <1>1, <1>2, <1>3, <1>4 DEF SoundFile
<1>6. ASSUME NEW f \in {Absent, Empty} PROVE f.data = <<>> /\ f.synced = 0 /\ ~f.exec /\ ~f.linked
  BY <1>2, <1>3
<1>7. ASSUME NEW f \in {Absent, Empty} PROVE Data(f) = {} /\ Safe(f) = {}
  <2>1. Elements(f.data) = {} /\ Elements(SafeData(f)) = {}
    BY <1>5, <1>6, FileIs, NoElements
  <2> QED BY <2>1 DEF Data, Safe
<1> QED BY <1>2, <1>3, <1>4, <1>5, <1>6, <1>7

LEMMA DirectoryIs ==
  ASSUME Types
  PROVE  /\ dir \in Directory
         /\ dir.current \in SoundFile /\ dir.previous \in SoundFile /\ dir.processed \in SoundFile
         /\ dir.old \in Seq(SoundOld)
         /\ dir.state \in 0 .. EofNewline /\ dir.newstate \in 0 .. EofNewline
  BY DEF Types, Directory

LEMMA WriteKeeps == ASSUME MultilogAssumption, IInv, Write PROVE IInv'
<1> USE DEF IInv
<1>1. PICK w \in 1 .. WriteLen :
       /\ dir' = [dir EXCEPT !.current.data = @ \o SubSeq(mem.out, 1, w)]
       /\ mem' = [mem EXCEPT !.bytes = @ + w, !.out = SubSeq(@, w + 1, Len(@))]
       /\ log' = [log EXCEPT !.written = @ \cup {mem.out[i] : i \in 1 .. w}]
       /\ IF mem.bytes + w >= Size - Slack /\ IsNewline(mem.out[w])
          THEN FullCurrent("write") /\ UNCHANGED <<ret, fin>> ELSE Goto("write")
  BY DEF Write
<1>2. /\ pc = "write" /\ pc' \in {"write", "fsync"} /\ ret' = ret /\ fin' = fin
      /\ pc' = "fsync" => back' = "write" /\ IsNewline(mem.out[w])
      /\ pc' = "write" => back' = back
      /\ taken' = taken /\ sigs' = sigs /\ bound' = bound /\ processor' = processor
      /\ mem.out # <<>> /\ mem.bytes < Size
  BY <1>1 DEF Write, FullCurrent, Goto, call, env
<1>3. /\ w \in Nat /\ 0 < w /\ w <= Len(mem.out) /\ mem.bytes + w <= Size
      /\ mem.bytes \in Nat /\ Size \in Nat /\ Len(mem.out) \in Nat /\ mem.out \in Seq(Tokens)
  <2>1. /\ WriteLen \in Nat /\ WriteLen <= Len(mem.out) /\ WriteLen <= Size - mem.bytes
    BY <1>2, WriteLenIs
  <2>2. mem.bytes \in Nat /\ Size \in Nat /\ Len(mem.out) \in Nat /\ mem.out \in Seq(Tokens)
    BY DEF Types, Memory, MultilogAssumption
  <2> QED BY <2>1, <2>2
<1>a. PICK x, y : x = SubSeq(mem.out, 1, w) /\ y = SubSeq(mem.out, w + 1, Len(mem.out))
  OBVIOUS
<1>b. /\ x \in Seq(Tokens) /\ y \in Seq(Tokens) /\ Len(x) = w
      /\ Elements(mem.out) = Elements(x) \cup Elements(y)
      /\ Elements(x) = {mem.out[i] : i \in 1 .. w}
      /\ Ascending(x) /\ Ascending(y) /\ Below(Elements(x), Elements(y))
  <2>1. Ascending(mem.out) /\ w \in 0 .. Len(mem.out)
    BY <1>3 DEF Pipe
  <2> HIDE DEF IInv
  <2>2. PICK s \in Seq(Tokens) : s = mem.out
    BY <1>3
  <2>3. LET t == SubSeq(s, 1, w)  u == SubSeq(s, w + 1, Len(s))
        IN /\ t \in Seq(Tokens) /\ u \in Seq(Tokens) /\ Len(t) = w
           /\ Elements(s) = Elements(t) \cup Elements(u)
           /\ Elements(t) = {s[i] : i \in 1 .. w}
           /\ Ascending(t) /\ Ascending(u)
           /\ Below(Elements(t), Elements(u))
    BY <2>1, <2>2, Cut
  <2> QED BY <2>2, <2>3, <1>a
<1>4. PICK a \in Seq(Tokens), b \in Seq(Tokens) :
        /\ a = SubSeq(mem.out, 1, w) /\ b = SubSeq(mem.out, w + 1, Len(mem.out)) /\ Len(a) = w
        /\ Elements(mem.out) = Elements(a) \cup Elements(b)
        /\ Elements(a) = {mem.out[i] : i \in 1 .. w}
        /\ Ascending(a) /\ Ascending(b) /\ Below(Elements(a), Elements(b))
  <2> HIDE DEF IInv
  <2> QED BY <1>a, <1>b
<1>5. a[w] = mem.out[w]
  BY <1>3, <1>4
<1>6. PICK c : c = dir.current
  OBVIOUS
<1>7. c \in SoundFile /\ c.data \in Seq(Tokens) /\ Len(c.data) \in Nat /\ c.synced \in 0 .. Len(c.data)
  BY <1>6, DirectoryIs, FileIs
<1>8. /\ c.here /\ ~c.exec /\ ~c.linked /\ dir.previous = Absent /\ dir.processed = Absent
      /\ mem.bytes = Len(c.data)
  BY <1>2, <1>6 DEF Layout, AtCurrent, CurrentPcs
<1>9. PICK data \in Seq(Tokens) :
        /\ data = c.data \o a /\ Len(data) = Len(c.data) + w
        /\ Elements(data) = Elements(c.data) \cup Elements(a)
        /\ Ascending(data) /\ data[Len(data)] = a[w]
        /\ SubSeq(data, 1, c.synced) = SubSeq(c.data, 1, c.synced)
  <2>1. Below(Elements(c.data), Elements(a))
    <3>1. Elements(c.data) \subseteq Past(dir, log)
      BY <1>6, <1>8 DEF Past, Disk, Data
    <3>2. Elements(a) \subseteq In(mem)
      BY <1>4 DEF In
    <3> QED BY <3>1, <3>2 DEF Bounds, Below
  <2>2. /\ c.data \o a \in Seq(Tokens) /\ Len(c.data \o a) = Len(c.data) + w
        /\ Elements(c.data \o a) = Elements(c.data) \cup Elements(a)
        /\ Ascending(c.data \o a)
    <3>1. Ascending(c.data)
      BY <1>6 DEF Ordered
    <3>2. PICK s \in Seq(Tokens) : s = c.data
      BY <1>7
    <3>3. /\ s \o a \in Seq(Tokens) /\ Len(s \o a) = Len(s) + Len(a)
          /\ Elements(s \o a) = Elements(s) \cup Elements(a)
          /\ Ascending(s) /\ Ascending(a) /\ Below(Elements(s), Elements(a)) => Ascending(s \o a)
      BY Joined
    <3> QED BY <2>1, <3>1, <3>2, <3>3, <1>4
  <2>3. (c.data \o a)[Len(c.data) + w] = a[w]
    <3>1. PICK n \in Nat : n = Len(c.data)
      BY <1>7
    <3>2. w \in Nat /\ 1 <= w /\ w <= Len(a) /\ Len(a) \in Nat
      BY <1>3, <1>4
    <3>3. n + w \in 1 .. n + Len(a) /\ ~(n + w <= n) /\ (n + w) - n = w
      BY <3>1, <3>2
    <3> QED BY <3>1, <3>3, <1>4, <1>7, ConcatProperties
  <2>4. SubSeq(c.data \o a, 1, c.synced) = SubSeq(c.data, 1, c.synced)
    BY <1>4, <1>7, SamePrefix
  <2> QED BY <2>2, <2>3, <2>4
<1>10. PICK d : d = [c EXCEPT !.data = data]
  OBVIOUS
<1>11. /\ d \in SoundFile /\ d.data = data /\ d.here /\ ~d.exec /\ ~d.linked /\ d.synced = c.synced
       /\ SafeData(d) = SafeData(c)
  <2>1. /\ d \in File /\ d.data = data /\ d.here = c.here /\ d.exec = c.exec /\ d.linked = c.linked /\ d.synced = c.synced
    BY <1>7, <1>10 DEF SoundFile, File
  <2>2. d.synced <= Len(d.data)
    BY <2>1, <1>3, <1>7, <1>9
  <2> QED BY <2>1, <2>2, <1>8, <1>9 DEF SoundFile, SafeData
<1>12. /\ dir' \in Directory /\ dir'.current = d /\ dir'.previous = dir.previous /\ dir'.processed = dir.processed
       /\ dir'.old = dir.old /\ dir'.state = dir.state /\ dir'.newstate = dir.newstate
  <2>1. dir' = [dir EXCEPT !.current = d]
    BY <1>1, <1>4, <1>6, <1>9, <1>10
  <2> QED BY <2>1, <1>11, DirectoryIs DEF Directory
<1>13. /\ mem' \in Memory /\ mem'.ss = mem.ss /\ mem'.todo = mem.todo
       /\ mem'.out = b /\ mem'.line = mem.line /\ mem'.inbuf = mem.inbuf /\ mem'.long = mem.long
       /\ mem'.eof = mem.eof /\ mem'.flagnewline = mem.flagnewline /\ mem'.bytes = mem.bytes + w
       /\ mem'.flagforcerotate = mem.flagforcerotate
  <2>1. mem \in Memory
    BY DEF Types
  <2>2. PICK n \in 0 .. Size : n = mem.bytes + w
    BY <1>3
  <2>3. mem' = [mem EXCEPT !.bytes = n, !.out = b]
    BY <2>2, <1>1, <1>4
  <2> QED BY <2>1, <2>2, <2>3 DEF Memory
<1>14. /\ log' \in Log /\ log'.written = log.written \cup Elements(a) /\ log'.safe = log.safe
       /\ log'.lost = log.lost /\ log'.removed = log.removed
  <2>1. log \in Log /\ Elements(a) \subseteq Tokens
    <3>1. Elements(a) \subseteq Tokens
      BY ElementsAre
    <3> QED BY <3>1 DEF Types
  <2>2. log' = [log EXCEPT !.written = log.written \cup Elements(a)]
    BY <1>1, <1>4
  <2> QED BY <2>1, <2>2 DEF Log
<1>15. Types'
  BY <1>2, <1>12, <1>13, <1>14 DEF Types
<1>16. Caller = ret /\ InWrite(pc, back, fin) /\ ret # "doit"
  BY <1>2, AtWrite DEF Caller, Control
<1>17. Caller' = ret /\ InWrite(pc, back, fin)'
  <2>1. CASE pc' = "fsync"
    <3>1. pc' \in RotatePcs
      BY <2>1 DEF RotatePcs
    <3>2. back' = "write" /\ ret' = ret
      BY <2>1, <1>2
    <3> QED BY <3>1, <3>2, AtRotate DEF Caller
  <2>2. CASE pc' = "write"
    BY <2>2, <1>2, AtWrite DEF Caller
  <2> QED BY <2>1, <2>2, <1>2
<1>18. Control'
  <2>1. pc' \notin FinishPcs /\ pc' \in {"write"} \cup RotatePcs
    BY <1>2 DEF FinishPcs, RotatePcs
  <2> QED BY <2>1, <1>2, <1>16, <1>17 DEF Control
<1>19. Buffers'
  BY <1>2, <1>13, <1>16, <1>17 DEF Buffers, Control
<1>20. Pipe(mem')
  BY <1>4, <1>13 DEF Pipe, Below
<1>21. In(mem) = In(mem') \cup Elements(a)
  BY <1>4, <1>13 DEF In
<1>22. /\ pc' \notin PreviousPcs \cup ProcessedPcs \cup FinishPcs \cup RestartPcs \cup {"gone"}
       /\ pc \notin PreviousPcs \cup ProcessedPcs \cup FinishPcs \cup RestartPcs \cup {"gone"}
  BY <1>2 DEF PreviousPcs, ProcessedPcs, FinishPcs, RestartPcs
<1>23. Layout'
  <2> DEFINE p == dir.previous  r == dir.processed
  <2>1. Len(data) = mem.bytes + w /\ Len(data) <= Size /\ data # <<>>
    BY <1>3, <1>7, <1>8, <1>9, NoTokens
  <2>2. Recoverable(d, p, r, bound.signals)
    BY <2>1, <1>8, <1>11, AbsentFile DEF Layout, Recoverable
  <2>3. AtCurrent(d, p, r)'
    <3>1. pc' = "fsync" => Ends(data, bound.signals)
      BY <2>1, <1>2, <1>5, <1>9 DEF Ends
    <3> QED BY <2>1, <3>1, <1>2, <1>8, <1>11, <1>12, <1>13 DEF AtCurrent
  <2>4. AtPrevious(d, p, r)'
    BY <1>2 DEF AtPrevious, Rotating, RotatePcs, PreviousPcs, ProcessedPcs, FinishPcs
  <2>5. AtFinish(d, p, r)'
    BY <1>22 DEF AtFinish
  <2>6. AtRestart(d, p, r)'
    BY <1>2 DEF AtRestart, Recovering, RestartPcs, FinishPcs
  <2> QED BY <2>2, <2>3, <2>4, <2>5, <2>6, <1>2, <1>12 DEF Layout
<1>24. OldOnes'
  BY <1>2, <1>12 DEF OldOnes
<1> DEFINE M == Mid(dir.previous, dir.processed)
<1>25. /\ Data(M) = {} /\ Safe(M) = {} /\ Data(c) = Elements(c.data) /\ Data(d) = Elements(c.data) \cup Elements(a)
       /\ Safe(d) = Safe(c)
  BY <1>8, <1>9, <1>11, AbsentFile DEF Data, Safe, Mid
<1>26. /\ Disk(dir') = Disk(dir) \cup Elements(a) /\ Platter(dir') = Platter(dir)
       /\ Past(dir', log') = Past(dir, log) \cup Elements(a)
  BY <1>6, <1>12, <1>14, <1>25 DEF Disk, Platter, Past
<1>27. Ordered(dir')
  <2>1. AllOf(Datas(dir.old)) \subseteq Past(dir, log) /\ Elements(a) \subseteq In(mem)
    BY <1>21 DEF Past, Disk
  <2>2. Below(AllOf(Datas(dir.old)), Elements(a))
    BY <2>1 DEF Bounds, Below
  <2>3. Below(AllOf(Datas(dir.old)), Data(c))
    BY <1>6 DEF Ordered, Below
  <2>4. Below(AllOf(Datas(dir.old)), Data(M) \cup Data(d))
    BY <2>2, <2>3, <1>25 DEF Below
  <2> QED BY <2>4, <1>9, <1>11, <1>12 DEF Ordered
<1>28. Bounds(dir', mem', log', taken')
  <2> DEFINE P == Past(dir, log)  H == In(mem')  A == Elements(a)
  <2>1. P \cup A \cup H = P \cup In(mem)
    BY <1>21
  <2>2. Below(P \cup A, H)
    <3>1. Below(P, H)
      BY <1>21 DEF Bounds, Below
    <3>2. Below(A, H)
      BY <1>4, <1>13 DEF In, Pipe, Below
    <3> QED BY <3>1, <3>2 DEF Below
  <2>3. Below(log.removed, Disk(dir) \cup A)
    BY <1>21 DEF Bounds, Below, Past
  <2>4. mem.line # <<>> \/ mem.long \/ mem.inbuf # <<>> => EofNewline \notin P \cup A \cup H \cup {dir.state, dir.newstate}
    BY <1>21 DEF Bounds
  <2>5. P \cup A \cup H \cup log.written \cup A \cup log.safe \subseteq Upto(taken)
    BY <1>21 DEF Bounds
  <2>6. {dir.state, dir.newstate} \subseteq Upto(taken) \cup {0}
    BY DEF Bounds
  <2> HIDE DEF P, H, A
  <2>7. Past(dir', log') = P \cup A /\ In(mem') = H /\ log'.written = log.written \cup A /\ Disk(dir') = Disk(dir) \cup A
    BY <1>14, <1>26 DEF P, H, A
  <2> QED BY <2>2, <2>3, <2>4, <2>5, <2>6, <2>7, <1>2, <1>12, <1>13, <1>14 DEF Bounds
<1>29. Fates(dir', mem', log', taken')
  BY <1>2, <1>14, <1>21, <1>26 DEF Fates
<1>30. States'
  <2>1. Fresh' = Fresh
    BY <1>6, <1>12, <1>21, <1>22, <1>25 DEF Fresh
  <2>2. ~Stopped /\ ~Stopped' /\ ~Recovering(pc, fin)'
    BY <1>22 DEF Stopped, Recovering
  <2> QED BY <2>1, <2>2, <1>2, <1>12, <1>22 DEF States, PreviousPcs, ProcessedPcs
<1> QED BY <1>15, <1>18, <1>19, <1>20, <1>23, <1>24, <1>27, <1>28, <1>29, <1>30

-----------------------------------------------------------------------------
(* fullcurrent() and the processor.                                         *)

(* The same tokens stay on disk; those of X are synced.                     *)
LEMMA SameDisk ==
  ASSUME MultilogAssumption, IInv, NEW X, X \subseteq Disk(dir),
         Disk(dir') = Disk(dir), Platter(dir') = Platter(dir) \cup X,
         {dir'.state, dir'.newstate} \subseteq {dir.state, dir.newstate, 0} \cup Past(dir, log),
         log'.safe = log.safe \cup X, log'.written = log.written, log'.lost = log.lost,
         log'.removed = log.removed, taken' = taken,
         mem'.ss = mem.ss, mem'.out = mem.out, mem'.todo = mem.todo, mem'.line = mem.line,
         mem'.inbuf = mem.inbuf, mem'.long => mem.long
  PROVE  Bounds(dir', mem', log', taken') /\ Fates(dir', mem', log', taken')
<1> USE DEF IInv
<1>1. In(mem') = In(mem) /\ Past(dir', log') = Past(dir, log) /\ X \subseteq Past(dir, log)
  BY DEF In, Past
<1> DEFINE P == Past(dir, log)  H == In(mem)
<1>2. /\ P \cup H \cup log.written \cup log.safe \subseteq Upto(taken)
      /\ {dir.state, dir.newstate} \subseteq Upto(taken) \cup {0}
      /\ Below(P, H) /\ Below(log.removed, Disk(dir))
      /\ mem.line # <<>> \/ mem.long \/ mem.inbuf # <<>> => EofNewline \notin P \cup H \cup {dir.state, dir.newstate}
  BY DEF Bounds
<1>3. EofNewline # 0
  BY DEF EofNewline, MultilogAssumption
<1> HIDE DEF P, H
<1>4. Bounds(dir', mem', log', taken')
  <2>1. {dir'.state, dir'.newstate} \subseteq {dir.state, dir.newstate, 0} \cup P
    BY DEF P
  <2>2. {dir'.state, dir'.newstate} \subseteq Upto(taken) \cup {0}
    BY <2>1, <1>2
  <2>3. mem.line # <<>> \/ mem.long \/ mem.inbuf # <<>> => EofNewline \notin P \cup H \cup {dir'.state, dir'.newstate}
    BY <2>1, <1>2, <1>3
  <2>4. P \cup H \cup log.written \cup (log.safe \cup X) \subseteq Upto(taken)
    BY <1>1, <1>2 DEF P
  <2>5. Past(dir', log') = P /\ In(mem') = H
    BY <1>1 DEF P, H
  <2> QED BY <2>2, <2>3, <2>4, <2>5, <1>2 DEF Bounds
<1>5. Fates(dir', mem', log', taken')
  BY <1>1 DEF Fates
<1> QED BY <1>4, <1>5

(* The order, when only files other than the old ones change.               *)
LEMMA SameOrder ==
  ASSUME Ordered(dir), dir'.old = dir.old,
         {dir'.current.data, dir'.previous.data, dir'.processed.data}
           \subseteq {dir.current.data, dir.previous.data, dir.processed.data, <<>>},
         Data(Mid(dir'.previous, dir'.processed)) \cup Data(dir'.current)
           \subseteq Data(Mid(dir.previous, dir.processed)) \cup Data(dir.current)
  PROVE  Ordered(dir')
<1>1. Ascending(<<>>)
  BY NoElements
<1>2. \A s \in {dir.current.data, dir.previous.data, dir.processed.data, <<>>} : Ascending(s)
  BY <1>1 DEF Ordered
<1>3. Ascending(dir'.current.data) /\ Ascending(dir'.previous.data) /\ Ascending(dir'.processed.data)
  BY <1>2
<1>4. Below(AllOf(Datas(dir.old)), Data(Mid(dir'.previous, dir'.processed)) \cup Data(dir'.current))
  BY DEF Ordered, Below
<1> QED BY <1>3, <1>4 DEF Ordered

LEMMA RotateControl ==
  ASSUME Control, pc \in RotatePcs, ret' = ret, back' = back, processor' = processor,
         \/ pc' \in RotatePcs /\ fin' = fin
         \/ /\ pc' = "stat" /\ fin'.code = "s" /\ fin'.next = back
            /\ fin' \in [file : Files, code : {"s", "u"}, next : {"write", "exitasap", "finishcurrent", "create"}]
            /\ fin'.file \in {"previous", "processed"}
  PROVE  /\ Control' /\ Caller' = Caller /\ (InWrite(pc, back, fin)' <=> InWrite(pc, back, fin))
         /\ Rotating(pc, fin) /\ ~Recovering(pc, fin) /\ Rotating(pc, fin)' /\ ~Recovering(pc, fin)'
         /\ pc \notin RestartPcs \cup FinishPcs \cup {"gone"} /\ pc' \notin RestartPcs \cup {"gone"}
<1>0. back \in {"write", "exitasap"} /\ pc \notin FinishPcs \cup RestartPcs \cup {"gone"}
  BY DEF Control, RotatePcs, PreviousPcs, ProcessedPcs, FinishPcs, RestartPcs
<1>1. /\ Caller = (IF back = "write" THEN ret ELSE "exitasap") /\ (InWrite(pc, back, fin) <=> back = "write")
      /\ Rotating(pc, fin) /\ ~Recovering(pc, fin)
  BY <1>0, AtRotate DEF Caller
<1>a. CASE pc' \in RotatePcs /\ fin' = fin
  <2>1. pc' \notin FinishPcs \cup RestartPcs \cup {"gone"}
    BY <1>a DEF RotatePcs, PreviousPcs, ProcessedPcs, FinishPcs, RestartPcs
  <2>2. /\ Caller' = (IF back = "write" THEN ret ELSE "exitasap") /\ (InWrite(pc, back, fin)' <=> back = "write")
        /\ Rotating(pc, fin)' /\ ~Recovering(pc, fin)'
    BY <1>a, <1>0, AtRotate DEF Caller
  <2> QED BY <1>a, <1>0, <1>1, <2>1, <2>2 DEF Control
<1>b. CASE ~(pc' \in RotatePcs /\ fin' = fin)
  <2>0. pc' = "stat" /\ pc' \in FinishPcs /\ pc' \notin RestartPcs \cup {"gone"} /\ fin'.next = back
    BY <1>b DEF FinishPcs, RestartPcs
  <2>1. /\ Caller' = (IF back = "write" THEN ret ELSE "exitasap") /\ (InWrite(pc, back, fin)' <=> back = "write")
        /\ Rotating(pc, fin)' /\ ~Recovering(pc, fin)'
    BY <1>0, <2>0, AtFinishing DEF Caller
  <2> QED BY <1>b, <1>0, <1>1, <2>0, <2>1 DEF Control
<1> QED BY <1>a, <1>b

(* A step of the rotation.                                                  *)
LEMMA Rotates ==
  ASSUME MultilogAssumption, IInv, NEW X, X \subseteq Disk(dir),
         pc \in RotatePcs, ret' = ret, back' = back, processor' = processor,
         \/ pc' \in RotatePcs /\ fin' = fin
         \/ /\ pc' = "stat" /\ fin'.code = "s" /\ fin'.next = back
            /\ fin' \in [file : Files, code : {"s", "u"}, next : {"write", "exitasap", "finishcurrent", "create"}]
            /\ fin'.file \in {"previous", "processed"},
         log' \in Log, log'.safe = log.safe \cup X, log'.written = log.written, log'.lost = log.lost,
         log'.removed = log.removed,
         bound' \in [crashes : Nat, signals : Nat, fails : Nat],
         bound'.signals = bound.signals, bound'.crashes = bound.crashes, taken' = taken, sigs' = sigs,
         mem' \in Memory, \/ mem' = mem
                          \/ mem' = [mem EXCEPT !.bytes = 0],
         dir' \in Directory, dir'.old = dir.old,
         Disk(dir') = Disk(dir), Platter(dir') = Platter(dir) \cup X, Ordered(dir'),
         {dir'.state, dir'.newstate} \subseteq {dir.state, dir.newstate, 0} \cup Past(dir, log),
         Recoverable(dir.current, dir.previous, dir.processed, bound.signals)',
         pc' = "rename" => AtCurrent(dir.current, dir.previous, dir.processed)',
         pc' # "fsync",
         AtPrevious(dir.current, dir.previous, dir.processed)',
         pc' = "stat" => AtFinish(dir.current, dir.previous, dir.processed)',
         pc' \in {"syncprocessed", "markprocessed"} => dir'.newstate = Last(dir'.previous.data),
         pc' \in ProcessedPcs => dir'.newstate = Last(dir'.processed.data),
         processor => Follows(Fresh', dir'.state, taken, bound.crashes)
  PROVE  IInv'
<1> USE DEF IInv
<1>1. /\ Control' /\ Caller' = Caller /\ (InWrite(pc, back, fin)' <=> InWrite(pc, back, fin))
      /\ Rotating(pc, fin) /\ ~Recovering(pc, fin) /\ Rotating(pc, fin)' /\ ~Recovering(pc, fin)'
      /\ pc \notin RestartPcs \cup FinishPcs \cup {"gone"} /\ pc' \notin RestartPcs \cup {"gone"}
  BY RotateControl
<1>2. /\ mem'.ss = mem.ss /\ mem'.todo = mem.todo
      /\ mem'.out = mem.out /\ mem'.line = mem.line /\ mem'.inbuf = mem.inbuf /\ mem'.long = mem.long
      /\ mem'.eof = mem.eof /\ mem'.flagnewline = mem.flagnewline
      /\ mem'.flagforcerotate = mem.flagforcerotate
  <2>1. mem \in Memory
    BY DEF Types
  <2> QED BY <2>1 DEF Memory
<1>3. Types'
  BY <1>2 DEF Types
<1>4. Layout'
  <2>1. AtCurrent(dir.current, dir.previous, dir.processed)'
    <3>1. CASE pc' \in RotatePcs \ {"fsync", "rename"}
      <4>1. pc' \notin CurrentPcs /\ pc' \notin {"fsync", "rename", "markquit"}
        BY <3>1 DEF CurrentPcs, DoitPcs, RotatePcs, PreviousPcs, ProcessedPcs
      <4> QED BY <4>1 DEF AtCurrent
    <3>2. CASE pc' = "stat"
      BY <3>2 DEF AtCurrent, CurrentPcs, DoitPcs
    <3> QED BY <3>1, <3>2
  <2>2. AtFinish(dir.current, dir.previous, dir.processed)'
    <3>1. CASE pc' \in RotatePcs
      <4>1. pc' \notin FinishPcs
        BY <3>1 DEF FinishPcs, RotatePcs, PreviousPcs, ProcessedPcs
      <4> QED BY <4>1 DEF AtFinish
    <3> QED BY <3>1
  <2>3. AtRestart(dir.current, dir.previous, dir.processed)'
    BY <1>1 DEF AtRestart, RestartPcs
  <2> QED BY <2>1, <2>2, <2>3 DEF Layout
<1>5. OldOnes'
  <2>1. pc \notin {"unlink", "filesfit"} /\ pc' \notin {"unlink", "filesfit"}
    BY DEF RotatePcs, PreviousPcs, ProcessedPcs
  <2> QED BY <2>1 DEF OldOnes
<1>6. Buffers'
  <2>1. Caller # "gone"
    BY <1>1, AtRotate DEF Caller, Control
  <2> QED BY <2>1, <1>1, <1>2 DEF Buffers
<1>7. Pipe(mem') 
  BY <1>2 DEF Pipe
<1>8. Bounds(dir', mem', log', taken') /\ Fates(dir', mem', log', taken')
  BY <1>2, SameDisk
<1>9. States'
  BY <1>1 DEF States, Stopped
<1> QED BY <1>1, <1>3, <1>4, <1>5, <1>6, <1>7, <1>8, <1>9

(* fsync(), and a mode that changes.                                        *)
LEMMA SyncedIs ==
  ASSUME NEW f \in SoundFile, NEW g, g = [f EXCEPT !.synced = Len(f.data)]
  PROVE  /\ g \in SoundFile /\ g.data = f.data /\ g.here = f.here /\ g.exec = f.exec /\ g.linked = f.linked
         /\ g.synced = Len(g.data)
         /\ Data(g) = Data(f) /\ Safe(g) = Data(f) /\ Safe(f) \subseteq Data(f)
<1>1. /\ g \in SoundFile /\ g.data = f.data /\ g.here = f.here /\ g.exec = f.exec /\ g.linked = f.linked
      /\ g.synced = Len(g.data)
  <2>1. /\ g \in File /\ g.data = f.data /\ g.here = f.here /\ g.exec = f.exec /\ g.linked = f.linked
        /\ g.synced = Len(f.data) /\ Len(f.data) \in Nat
    BY FileIs DEF File
  <2>2. g.synced = Len(g.data) /\ g.synced <= Len(g.data)
    BY <2>1
  <2> QED BY <2>1, <2>2 DEF SoundFile
<1>2. SafeData(g) = f.data
  BY <1>1, FileIs
<1>3. Elements(SafeData(f)) \subseteq Elements(f.data)
  BY FileIs
<1> QED BY <1>1, <1>2, <1>3 DEF Data, Safe

LEMMA MarkedIs ==
  ASSUME NEW f \in SoundFile, NEW b \in BOOLEAN, NEW g, g = [f EXCEPT !.exec = b]
  PROVE  /\ g \in SoundFile /\ g.data = f.data /\ g.here = f.here /\ g.exec = b /\ g.linked = f.linked
         /\ g.synced = f.synced
         /\ Data(g) = Data(f) /\ Safe(g) = Safe(f)
<1>1. /\ g \in SoundFile /\ g.data = f.data /\ g.here = f.here /\ g.exec = b /\ g.linked = f.linked
      /\ g.synced = f.synced
  <2>1. /\ g \in File /\ g.data = f.data /\ g.here = f.here /\ g.exec = b /\ g.linked = f.linked
        /\ g.synced = f.synced
    BY FileIs DEF File
  <2> QED BY <2>1, FileIs DEF SoundFile
<1> QED BY <1>1 DEF Data, Safe, SafeData

(* The three files and what they hold.                                      *)
LEMMA SameUnion ==
  ASSUME NEW X, dir'.old = dir.old,
         Data(Mid(dir'.previous, dir'.processed)) \cup Data(dir'.current)
           = Data(Mid(dir.previous, dir.processed)) \cup Data(dir.current),
         Safe(Mid(dir'.previous, dir'.processed)) \cup Safe(dir'.current)
           = Safe(Mid(dir.previous, dir.processed)) \cup Safe(dir.current) \cup X
  PROVE  Disk(dir') = Disk(dir) /\ Platter(dir') = Platter(dir) \cup X
  BY DEF Disk, Platter

(* The same files go on to the processor, or to finish().                   *)
LEMMA SameFresh ==
  ASSUME States, processor, pc \in RotatePcs,
         In(mem') = In(mem), dir'.state = dir.state,
         (IF pc' \in PreviousPcs \cup ProcessedPcs
          THEN Data(Mid(dir'.previous, dir'.processed)) ELSE Data(dir'.current))
           = (IF pc \in PreviousPcs \cup ProcessedPcs
              THEN Data(Mid(dir.previous, dir.processed)) ELSE Data(dir.current))
  PROVE  Follows(Fresh', dir'.state, taken, bound.crashes)
<1>1. ~Stopped
  BY DEF Stopped, Recovering, RotatePcs, PreviousPcs, ProcessedPcs, FinishPcs, RestartPcs
<1>2. Fresh' = Fresh
  BY DEF Fresh
<1> QED BY <1>1, <1>2 DEF States

LEMMA SyncCurrentKeeps == ASSUME MultilogAssumption, IInv, SyncCurrent PROVE IInv'
<1> USE DEF IInv
<1> DEFINE c == dir.current  p == dir.previous  r == dir.processed
<1>1. /\ pc = "fsync" /\ pc' = "rename" /\ ret' = ret /\ back' = back /\ fin' = fin
      /\ mem' = mem /\ taken' = taken /\ sigs' = sigs /\ bound' = bound /\ processor' = processor
      /\ dir' = [dir EXCEPT !.current.synced = Len(dir.current.data)]
      /\ log' = [log EXCEPT !.safe = @ \cup Elements(c.data)]
  BY DEF SyncCurrent, Synced, Goto, call, env
<1>2. /\ pc \in RotatePcs /\ pc' \in RotatePcs /\ pc \in CurrentPcs
      /\ pc \notin PreviousPcs \cup ProcessedPcs /\ pc' \notin PreviousPcs \cup ProcessedPcs
  BY <1>1 DEF RotatePcs, CurrentPcs, PreviousPcs, ProcessedPcs
<1>3. c \in SoundFile /\ c.here /\ ~c.exec /\ ~c.linked /\ p = Absent /\ r = Absent /\ Ends(c.data, bound.signals)
  BY <1>1, <1>2, DirectoryIs DEF Layout, AtCurrent
<1>4. PICK d : d = [c EXCEPT !.synced = Len(c.data)]
  OBVIOUS
<1>5. /\ d \in SoundFile /\ d.data = c.data /\ d.here /\ ~d.exec /\ ~d.linked /\ d.synced = Len(d.data)
      /\ Data(d) = Data(c) /\ Safe(d) = Data(c) /\ Safe(c) \subseteq Data(c)
  BY <1>3, <1>4, SyncedIs
<1>6. /\ dir' \in Directory /\ dir'.current = d /\ dir'.previous = p /\ dir'.processed = r
      /\ dir'.old = dir.old /\ dir'.state = dir.state /\ dir'.newstate = dir.newstate
  <2>1. dir' = [dir EXCEPT !.current = d]
    BY <1>1, <1>4
  <2> QED BY <2>1, <1>5, DirectoryIs DEF Directory
<1>7. Data(c) = Elements(c.data) /\ Data(c) \subseteq Disk(dir)
  BY <1>3 DEF Data, Disk
<1>8. /\ log' \in Log /\ log'.written = log.written /\ log'.safe = log.safe \cup Data(c)
      /\ log'.lost = log.lost /\ log'.removed = log.removed
  <2>1. log \in Log /\ Data(c) \subseteq Tokens
    <3>1. Elements(c.data) \subseteq Tokens
      BY <1>3, FileIs, ElementsAre
    <3> QED BY <3>1, <1>7 DEF Types
  <2>2. log' = [log EXCEPT !.safe = log.safe \cup Data(c)]
    BY <1>1, <1>7
  <2> QED BY <2>1, <2>2 DEF Log
<1>9. Disk(dir') = Disk(dir) /\ Platter(dir') = Platter(dir) \cup Data(c)
  BY <1>5, <1>6, SameUnion
<1>10. Ordered(dir')
  BY <1>5, <1>6, SameOrder
<1>11. Recoverable(d, p, r, bound.signals)
  <2>1. Len(c.data) <= Size
    BY DEF Layout, Recoverable
  <2> QED BY <2>1, <1>3, <1>5, AbsentFile DEF Recoverable
<1>12. AtCurrent(d, p, r)'
  BY <1>1, <1>3, <1>5, <1>2, <1>6 DEF AtCurrent, Rotated, Layout
<1>13. AtPrevious(d, p, r)'
  BY <1>1, <1>2 DEF AtPrevious
<1>14. processor => Follows(Fresh', dir'.state, taken, bound.crashes)
  <2>1. In(mem') = In(mem) /\ Data(dir'.current) = Data(dir.current)
    BY <1>1, <1>5, <1>6
  <2> QED BY <2>1, <1>2, <1>6, SameFresh
<1>15. Recoverable(dir.current, dir.previous, dir.processed, bound.signals)' /\ AtCurrent(dir.current, dir.previous, dir.processed)' /\ AtPrevious(dir.current, dir.previous, dir.processed)'
  BY <1>1, <1>6, <1>11, <1>12, <1>13
<1>16. /\ {dir'.state, dir'.newstate} \subseteq {dir.state, dir.newstate, 0} \cup Past(dir, log)
       /\ pc' \notin {"stat", "syncprocessed", "markprocessed", "fsync"} /\ pc' \notin ProcessedPcs
       /\ bound' \in [crashes : Nat, signals : Nat, fails : Nat] /\ mem' \in Memory
  BY <1>1, <1>2, <1>6 DEF Types
<1> HIDE DEF IInv, c, p, r
<1>17. IInv
  BY DEF IInv
<1>18. PICK X : X = Data(c)
  OBVIOUS
<1> QED BY <1>1, <1>2, <1>6, <1>7, <1>8, <1>9, <1>10, <1>14, <1>15, <1>16, <1>17, <1>18, Rotates

LEMMA RenameCurrentKeeps == ASSUME MultilogAssumption, IInv, RenameCurrent PROVE IInv'
<1> USE DEF IInv
<1>0. PICK c, p, r : c = dir.current /\ p = dir.previous /\ r = dir.processed
  OBVIOUS
<1>1. /\ pc = "rename" /\ pc' = "open" /\ ret' = ret /\ back' = back /\ fin' = fin
      /\ mem' = mem /\ taken' = taken /\ sigs' = sigs /\ bound' = bound /\ processor' = processor
      /\ dir' = [dir EXCEPT !.previous = dir.current, !.current = Absent] /\ log' = log
  BY DEF RenameCurrent, Goto, call, env
<1>2. /\ pc \in RotatePcs /\ pc' \in RotatePcs /\ pc \in CurrentPcs
      /\ pc \notin PreviousPcs \cup ProcessedPcs /\ pc' \in PreviousPcs /\ pc' \notin ProcessedPcs
  BY <1>1 DEF RotatePcs, CurrentPcs, PreviousPcs, ProcessedPcs
<1>3. /\ c \in SoundFile /\ c.here /\ ~c.exec /\ ~c.linked /\ p = Absent /\ r = Absent
      /\ Rotated(c, bound.signals) /\ Len(c.data) <= Size
  BY <1>0, <1>1, <1>2, DirectoryIs DEF Layout, AtCurrent, Recoverable
<1>4. /\ dir' \in Directory /\ dir'.current = Absent /\ dir'.previous = c /\ dir'.processed = r
      /\ dir'.old = dir.old /\ dir'.state = dir.state /\ dir'.newstate = dir.newstate
  <2>1. \A v, w \in SoundFile : [dir EXCEPT !.previous = v, !.current = w] \in Directory
    BY DirectoryIs DEF Directory
  <2>2. dir' \in Directory
    BY <2>1, <1>0, <1>1, <1>3, AbsentFile
  <2> QED BY <2>2, <1>0, <1>1, DirectoryIs DEF Directory
<1>5. PICK X : X = {}
  OBVIOUS
<1>6. /\ log' \in Log /\ log'.written = log.written /\ log'.safe = log.safe \cup X
      /\ log'.lost = log.lost /\ log'.removed = log.removed
  BY <1>1, <1>5 DEF Types
<1>7. /\ Mid(p, r) = Absent /\ Mid(c, r) = c /\ Absent.data = <<>>
      /\ Data(Absent) = {} /\ Safe(Absent) = {}
  BY <1>3, AbsentFile DEF Mid
<1>8. Disk(dir') = Disk(dir) /\ Platter(dir') = Platter(dir) \cup X
  BY <1>0, <1>3, <1>4, <1>5, <1>7, SameUnion
<1>9. Ordered(dir')
  BY <1>0, <1>3, <1>4, <1>7, SameOrder
<1>10. Recoverable(Absent, c, r, bound.signals)
  BY <1>0, <1>3, AbsentFile DEF Layout, Recoverable
<1>11. AtPrevious(Absent, c, r)'
  BY <1>1, <1>2, <1>3, AbsentFile DEF AtPrevious, ProcessedPcs
<1>12. processor => Follows(Fresh', dir'.state, taken, bound.crashes)
  <2>1. In(mem') = In(mem) /\ Data(Mid(dir'.previous, dir'.processed)) = Data(dir.current)
    BY <1>0, <1>1, <1>4, <1>7
  <2> QED BY <2>1, <1>2, <1>4, SameFresh
<1>13. Recoverable(dir.current, dir.previous, dir.processed, bound.signals)' /\ AtPrevious(dir.current, dir.previous, dir.processed)'
  BY <1>1, <1>3, <1>4, <1>10, <1>11
<1>14. /\ {dir'.state, dir'.newstate} \subseteq {dir.state, dir.newstate, 0} \cup Past(dir, log)
       /\ pc' \notin {"stat", "syncprocessed", "markprocessed", "fsync", "rename"}
       /\ bound' \in [crashes : Nat, signals : Nat, fails : Nat] /\ mem' \in Memory
  BY <1>1, <1>4 DEF Types
<1>15. IInv /\ X \subseteq Disk(dir)
  BY <1>5
<1> HIDE DEF IInv
<1> QED BY <1>1, <1>2, <1>4, <1>6, <1>8, <1>9, <1>12, <1>13, <1>14, <1>15, Rotates

LEMMA OpenCurrentKeeps == ASSUME MultilogAssumption, IInv, OpenCurrent PROVE IInv'
<1> USE DEF IInv
<1>0. PICK c, p, r : c = dir.current /\ p = dir.previous /\ r = dir.processed
  OBVIOUS
<1>1. /\ pc = "open" /\ ret' = ret /\ back' = back
      /\ \/ processor /\ pc' = "process" /\ fin' = fin
         \/ ~processor /\ pc' = "stat" /\ fin' = [file |-> "previous", code |-> "s", next |-> back]
      /\ mem' = [mem EXCEPT !.bytes = 0]
      /\ taken' = taken /\ sigs' = sigs /\ bound' = bound /\ processor' = processor
      /\ dir' = [dir EXCEPT !.current = Empty, !.previous.exec = TRUE] /\ log' = log
  BY DEF OpenCurrent, Finish, Goto, call, env
<1>2. /\ pc \in RotatePcs /\ pc \in PreviousPcs
      /\ pc' = "process" => pc' \in RotatePcs /\ pc' \in PreviousPcs
      /\ pc' = "stat" => pc' \in FinishPcs /\ pc' \notin PreviousPcs
      /\ pc' \notin ProcessedPcs
  BY <1>1 DEF RotatePcs, FinishPcs, PreviousPcs, ProcessedPcs
<1>3. /\ c = Absent /\ r = Absent /\ p \in SoundFile /\ Rotated(p, bound.signals) /\ ~p.linked
      /\ Len(p.data) <= Size
  BY <1>0, <1>1, <1>2, DirectoryIs DEF Layout, AtPrevious, Recoverable
<1>4. PICK q : q = [p EXCEPT !.exec = TRUE]
  OBVIOUS
<1>5. /\ q \in SoundFile /\ q.data = p.data /\ q.here /\ q.exec /\ ~q.linked /\ q.synced = p.synced
      /\ Data(q) = Data(p) /\ Safe(q) = Safe(p)
  BY <1>3, <1>4, MarkedIs DEF Rotated
<1>6. /\ dir' \in Directory /\ dir'.current = Empty /\ dir'.previous = q /\ dir'.processed = r
      /\ dir'.old = dir.old /\ dir'.state = dir.state /\ dir'.newstate = dir.newstate
  <2>1. \A v, w \in SoundFile : [dir EXCEPT !.current = v, !.previous = w] \in Directory
    BY DirectoryIs DEF Directory
  <2>2. dir' = [dir EXCEPT !.current = Empty, !.previous = q]
    BY <1>0, <1>1, <1>4
  <2>3. dir' \in Directory
    BY <2>1, <2>2, <1>5, AbsentFile
  <2> QED BY <2>2, <2>3, <1>0, DirectoryIs DEF Directory
<1>7. /\ mem' \in Memory /\ mem'.bytes = 0 /\ In(mem') = In(mem)
  <2>1. mem \in Memory /\ 0 \in 0 .. Size
    BY DEF Types, MultilogAssumption
  <2>2. /\ mem' \in Memory /\ mem'.bytes = 0
        /\ mem'.ss = mem.ss /\ mem'.todo = mem.todo
        /\ mem'.out = mem.out /\ mem'.line = mem.line /\ mem'.inbuf = mem.inbuf
    BY <1>1, <2>1 DEF Memory
  <2> QED BY <2>2 DEF In
<1>8. PICK X : X = {}
  OBVIOUS
<1>9. /\ log' \in Log /\ log'.written = log.written /\ log'.safe = log.safe \cup X
      /\ log'.lost = log.lost /\ log'.removed = log.removed
  BY <1>1, <1>8 DEF Types
<1>10. /\ Mid(p, r) = p /\ Mid(q, r) = q /\ Empty.data = <<>>
       /\ Data(Absent) = {} /\ Safe(Absent) = {} /\ Data(Empty) = {} /\ Safe(Empty) = {}
  BY <1>3, AbsentFile DEF Mid
<1>11. Disk(dir') = Disk(dir) /\ Platter(dir') = Platter(dir) \cup X
  <2>1. /\ Mid(dir'.previous, dir'.processed) = q /\ Mid(dir.previous, dir.processed) = p
        /\ Data(dir'.current) = {} /\ Data(dir.current) = {}
        /\ Safe(dir'.current) = {} /\ Safe(dir.current) = {}
    BY <1>0, <1>3, <1>6, <1>10
  <2> QED BY <2>1, <1>5, <1>6, <1>8, SameUnion
<1>12. Ordered(dir')
  BY <1>0, <1>3, <1>5, <1>6, <1>10, SameOrder
<1>13. Recoverable(Empty, q, r, bound.signals)
  BY <1>0, <1>3, <1>5, AbsentFile DEF Layout, Recoverable, Rotated
<1>14. AtPrevious(Empty, q, r)'
  <2>1. Rotated(q, bound.signals)
    BY <1>3, <1>5 DEF Rotated
  <2> QED BY <2>1, <1>1, <1>3, <1>2, <1>5, <1>7, AbsentFile DEF AtPrevious
<1>15. processor => Follows(Fresh', dir'.state, taken, bound.crashes)
  <2>1. /\ In(mem') = In(mem)
        /\ Data(Mid(dir'.previous, dir'.processed)) = Data(Mid(dir.previous, dir.processed))
    BY <1>0, <1>3, <1>5, <1>6, <1>7, <1>10
  <2> QED BY <2>1, <1>1, <1>2, <1>6, SameFresh
<1>16. pc' = "stat" => AtFinish(Empty, q, r)'
  <2>1. Rotated(q, bound.signals)
    BY <1>3, <1>5 DEF Rotated
  <2>2. pc' = "stat" => fin'.file = "previous"
    BY <1>1
  <2>3. dir'["previous"] = q
    BY <1>6
  <2> QED BY <2>1, <2>2, <2>3, <1>1, <1>3, <1>5, AbsentFile DEF AtFinish
<1>17. Recoverable(dir.current, dir.previous, dir.processed, bound.signals)' /\ AtPrevious(dir.current, dir.previous, dir.processed)'
       /\ (pc' = "stat" => AtFinish(dir.current, dir.previous, dir.processed)')
  BY <1>1, <1>3, <1>6, <1>13, <1>14, <1>16
<1>18. /\ {dir'.state, dir'.newstate} \subseteq {dir.state, dir.newstate, 0} \cup Past(dir, log)
       /\ pc' \notin {"syncprocessed", "markprocessed", "fsync", "rename"}
       /\ bound' \in [crashes : Nat, signals : Nat, fails : Nat]
  BY <1>1, <1>6 DEF Types
<1>19. \/ pc' \in RotatePcs /\ fin' = fin
       \/ /\ pc' = "stat" /\ fin'.code = "s" /\ fin'.next = back
          /\ fin' \in [file : Files, code : {"s", "u"}, next : {"write", "exitasap", "finishcurrent", "create"}]
          /\ fin'.file \in {"previous", "processed"}
  BY <1>1, <1>2 DEF Control, Files
<1>20. IInv /\ X \subseteq Disk(dir)
  BY <1>8
<1> HIDE DEF IInv
<1> QED BY <1>1, <1>2, <1>6, <1>7, <1>9, <1>11, <1>12, <1>15, <1>17, <1>18, <1>19, <1>20, Rotates

(* While the processor is at work, previous and current stay as they are.   *)
LEMMA WhileProcessing ==
  ASSUME MultilogAssumption, IInv,
         pc \in PreviousPcs \ {"open"}, pc' \in PreviousPcs \ {"open"},
         ret' = ret, back' = back, fin' = fin, mem' = mem, taken' = taken, sigs' = sigs,
         processor' = processor, log' = log,
         bound' \in [crashes : Nat, signals : Nat, fails : Nat],
         bound'.signals = bound.signals, bound'.crashes = bound.crashes,
         NEW g, dir' \in Directory, dir'.current = dir.current, dir'.previous = dir.previous,
         dir'.processed = g, dir'.old = dir.old, dir'.state = dir.state,
         dir'.newstate \in {dir.newstate, 0} \cup Past(dir, log),
         g.here, ~g.exec, ~g.linked, Len(g.data) <= Size, Ascending(g.data),
         pc' = "processor" => g = Empty,
         pc' \in {"syncprocessed", "markprocessed"} =>
           g.data = dir.previous.data /\ dir'.newstate = Last(dir.previous.data),
         pc' = "markprocessed" => g.synced = Len(g.data)
  PROVE  IInv'
<1> USE DEF IInv
<1>0. PICK c, p, r : c = dir.current /\ p = dir.previous /\ r = dir.processed
  OBVIOUS
<1>1. /\ pc \in RotatePcs /\ pc' \in RotatePcs /\ pc \notin ProcessedPcs /\ pc' \notin ProcessedPcs
      /\ pc \in PreviousPcs /\ pc' \in PreviousPcs /\ pc \notin {"fsync", "rename", "open"}
      /\ pc' \notin {"fsync", "rename", "open", "stat"}
  BY DEF RotatePcs, PreviousPcs, ProcessedPcs
<1>2. Rotating(pc, fin) /\ Rotating(pc, fin)'
  <2>1. back \in {"write", "exitasap"}
    BY DEF Control
  <2>2. Rotating(pc, fin)
    BY <2>1, <1>1, AtRotate
  <2> QED BY <2>1, <2>2, <1>1, AtRotate
<1>3. c = Empty /\ mem.bytes = 0 /\ Rotated(p, bound.signals) /\ ~p.linked /\ ~r.exec
  BY <1>0, <1>1, <1>2 DEF Layout, AtPrevious
<1>4. Mid(p, r) = p /\ Mid(p, g) = p
  BY <1>3 DEF Mid
<1>5. PICK X : X = {}
  OBVIOUS
<1>6. Disk(dir') = Disk(dir) /\ Platter(dir') = Platter(dir) \cup X
  BY <1>0, <1>4, <1>5, SameUnion
<1>7. Ordered(dir')
  BY <1>0, <1>4 DEF Ordered
<1>8. Recoverable(c, p, g, bound.signals)
  BY <1>0, <1>3, AbsentFile DEF Layout, Recoverable
<1>9. AtPrevious(c, p, g)'
  <2>1. mem'.bytes = 0 /\ Rotated(p, bound'.signals) /\ dir.previous = p
    BY <1>0, <1>3
  <2>2. pc' \in ProcessedPcs \cup {"open", "renamestate"} => FALSE
    BY <1>1 DEF ProcessedPcs
  <2>3. /\ pc' = "processor" => g = Empty
        /\ pc' \in {"syncprocessed", "markprocessed"} => g.here /\ g.data = p.data
        /\ pc' = "markprocessed" => g.synced = Len(g.data)
    BY <2>1
  <2> QED BY <2>1, <2>2, <2>3, <1>3 DEF AtPrevious
<1>10. processor => Follows(Fresh', dir'.state, taken, bound.crashes)
  <2>1. /\ In(mem') = In(mem)
        /\ Data(Mid(dir'.previous, dir'.processed)) = Data(Mid(dir.previous, dir.processed))
    BY <1>0, <1>4
  <2> QED BY <2>1, <1>1, SameFresh
<1>11. Recoverable(dir.current, dir.previous, dir.processed, bound.signals)' /\ AtPrevious(dir.current, dir.previous, dir.processed)'
  BY <1>0, <1>8, <1>9
<1>12. /\ {dir'.state, dir'.newstate} \subseteq {dir.state, dir.newstate, 0} \cup Past(dir, log)
       /\ mem' \in Memory /\ IInv /\ X \subseteq Disk(dir)
       /\ log' \in Log /\ log'.written = log.written /\ log'.safe = log.safe \cup X
       /\ log'.lost = log.lost /\ log'.removed = log.removed
  BY <1>5 DEF Types
<1>13. pc' \in {"syncprocessed", "markprocessed"} => dir'.newstate = Last(dir'.previous.data)
  OBVIOUS
<1> HIDE DEF IInv
<1> QED BY <1>1, <1>6, <1>7, <1>10, <1>11, <1>12, <1>13, Rotates

(* What the processor finds.                                                *)
LEMMA AtProcessor ==
  ASSUME IInv, pc \in PreviousPcs \ {"open"}
  PROVE  /\ dir.current = Empty /\ mem.bytes = 0 /\ dir.previous \in SoundFile /\ dir.processed \in SoundFile
         /\ Rotated(dir.previous, bound.signals)
         /\ ~dir.previous.linked /\ ~dir.processed.exec /\ ~dir.processed.linked
         /\ dir.previous.data \in Seq(Tokens) /\ dir.previous.data # <<>>
         /\ Len(dir.previous.data) <= Size /\ Ascending(dir.previous.data)
         /\ Last(dir.previous.data) \in Elements(dir.previous.data)
         /\ Elements(dir.previous.data) \subseteq Past(dir, log)
         /\ Elements(dir.previous.data) \subseteq log.safe
         /\ pc \in RotatePcs /\ back \in {"write", "exitasap"}
<1> USE DEF IInv
<1>0. PICK c, p, r : c = dir.current /\ p = dir.previous /\ r = dir.processed
  OBVIOUS
<1>1. pc \in RotatePcs /\ pc \notin {"fsync", "rename", "open"} /\ pc \in PreviousPcs
  BY DEF RotatePcs, PreviousPcs
<1>2. back \in {"write", "exitasap"}
  BY DEF Control
<1>3. Rotating(pc, fin)
  BY <1>1, <1>2, AtRotate
<1>4. /\ c = Empty /\ mem.bytes = 0 /\ Rotated(p, bound.signals) /\ ~p.linked /\ ~r.exec /\ ~r.linked
      /\ Len(p.data) <= Size /\ Ascending(p.data)
  BY <1>0, <1>1, <1>3 DEF Layout, AtPrevious, Recoverable, Ordered
<1>5. p \in SoundFile /\ r \in SoundFile /\ p.data \in Seq(Tokens) /\ SafeData(p) = p.data
  BY <1>0, <1>4, DirectoryIs, FileIs DEF Rotated
<1>6. p.data # <<>>
  BY <1>4 DEF Rotated, Ends
<1>7. Last(p.data) \in Elements(p.data)
  <2>1. Len(p.data) \in 1 .. Len(p.data)
    BY <1>5, <1>6, EmptySeq, LenProperties
  <2> QED BY <2>1 DEF Last, Elements
<1>8. Elements(p.data) \subseteq Past(dir, log) /\ Elements(p.data) \subseteq Platter(dir)
  <2>1. Data(Mid(p, r)) = Elements(p.data) /\ Safe(Mid(p, r)) = Elements(p.data)
    BY <1>4, <1>5 DEF Mid, Data, Safe
  <2> QED BY <2>1, <1>0 DEF Past, Disk, Platter
<1>9. Elements(p.data) \subseteq log.safe
  BY <1>8 DEF Fates
<1> QED BY <1>0, <1>1, <1>2, <1>4, <1>5, <1>6, <1>7, <1>8, <1>9

LEMMA StartProcessorKeeps == ASSUME MultilogAssumption, IInv, StartProcessor PROVE IInv'
<1>1. /\ pc = "process" /\ pc' = "processor" /\ ret' = ret /\ back' = back /\ fin' = fin
      /\ mem' = mem /\ taken' = taken /\ sigs' = sigs /\ bound' = bound /\ processor' = processor
      /\ dir' = [dir EXCEPT !.processed = Empty, !.newstate = 0] /\ log' = log
  BY DEF StartProcessor, Goto, call, env
<1>2. Types
  BY DEF IInv
<1>3. PICK g : g = Empty
  OBVIOUS
<1>4. /\ g \in SoundFile /\ g.here /\ ~g.exec /\ ~g.linked /\ Len(g.data) <= Size /\ Ascending(g.data)
  <2>1. Size \in Nat
    BY DEF MultilogAssumption
  <2>2. Ascending(<<>>)
    BY NoElements
  <2> QED BY <2>1, <2>2, <1>3, AbsentFile
<1>5. /\ dir' \in Directory /\ dir'.current = dir.current /\ dir'.previous = dir.previous
      /\ dir'.processed = g /\ dir'.old = dir.old /\ dir'.state = dir.state /\ dir'.newstate = 0
  <2>1. \A v \in SoundFile, n \in 0 .. EofNewline : [dir EXCEPT !.processed = v, !.newstate = n] \in Directory
    BY <1>2, DirectoryIs DEF Directory
  <2>2. 0 \in 0 .. EofNewline
    BY DEF EofNewline, MultilogAssumption
  <2>3. dir' = [dir EXCEPT !.processed = g, !.newstate = 0]
    BY <1>1, <1>3
  <2>4. dir' \in Directory
    BY <2>1, <2>2, <2>3, <1>4
  <2> QED BY <2>3, <2>4, <1>2, DirectoryIs DEF Directory
<1>6. pc \in PreviousPcs \ {"open"} /\ pc' \in PreviousPcs \ {"open"}
  BY <1>1 DEF PreviousPcs
<1>7. bound' \in [crashes : Nat, signals : Nat, fails : Nat]
  BY <1>1, <1>2 DEF Types
<1> QED BY <1>1, <1>3, <1>4, <1>5, <1>6, <1>7, WhileProcessing

LEMMA ProcessedKeeps == ASSUME MultilogAssumption, IInv, Processed PROVE IInv'
<1>1. /\ pc = "processor" /\ pc' = "syncprocessed" /\ ret' = ret /\ back' = back /\ fin' = fin
      /\ mem' = mem /\ taken' = taken /\ sigs' = sigs /\ bound' = bound /\ processor' = processor
      /\ dir' = [dir EXCEPT !.processed.data = dir.previous.data,
                            !.newstate = IF dir.previous.data = <<>> THEN 0
                                         ELSE dir.previous.data[Len(dir.previous.data)]]
      /\ log' = log
  BY DEF Processed, Goto, call, env
<1>2. Types /\ dir.processed = Empty
  <2>1. dir.processed = Empty
    BY <1>1 DEF IInv, Layout, AtPrevious
  <2> QED BY <2>1 DEF IInv
<1>6. pc \in PreviousPcs \ {"open"} /\ pc' \in PreviousPcs \ {"open"}
  BY <1>1 DEF PreviousPcs
<1>3. PICK g, n : g = [dir.processed EXCEPT !.data = dir.previous.data] /\ n = Last(dir.previous.data)
  OBVIOUS
<1>8. PICK s \in Seq(Tokens) : s = dir.previous.data
  BY <1>6, AtProcessor
<1>4. /\ g \in SoundFile /\ g.data = s /\ g.here /\ ~g.exec /\ ~g.linked /\ Len(s) <= Size /\ Ascending(s)
      /\ n \in Past(dir, log) /\ n \in Tokens
  <2>1. /\ g \in File /\ g.data = s /\ g.here /\ ~g.exec /\ ~g.linked /\ g.synced = 0
    BY <1>2, <1>3, <1>8, AbsentFile, FileIs DEF File
  <2>2. g \in SoundFile
    BY <2>1 DEF SoundFile
  <2>3. Len(s) <= Size /\ Ascending(s) /\ n \in Elements(s) /\ Elements(s) \subseteq Past(dir, log)
    BY <1>3, <1>6, <1>8, AtProcessor
  <2>4. Elements(s) \subseteq Tokens
    BY ElementsAre
  <2> QED BY <2>1, <2>2, <2>3, <2>4
<1>5. /\ dir' \in Directory /\ dir'.current = dir.current /\ dir'.previous = dir.previous
      /\ dir'.processed = g /\ dir'.old = dir.old /\ dir'.state = dir.state /\ dir'.newstate = n
  <2>1. \A v \in SoundFile, m \in 0 .. EofNewline : [dir EXCEPT !.processed = v, !.newstate = m] \in Directory
    BY <1>2, DirectoryIs DEF Directory
  <2>2. n \in 0 .. EofNewline
    BY <1>4 DEF Tokens, EofNewline, MultilogAssumption
  <2>3. dir.previous.data # <<>>
    BY <1>6, AtProcessor
  <2>4. dir' = [dir EXCEPT !.processed = g, !.newstate = n]
    BY <2>3, <1>1, <1>3 DEF Last
  <2>5. dir' \in Directory
    BY <2>1, <2>2, <2>4, <1>4
  <2> QED BY <2>4, <2>5, <1>2, DirectoryIs DEF Directory
<1>7. bound' \in [crashes : Nat, signals : Nat, fails : Nat]
  BY <1>1, <1>2 DEF Types
<1> QED BY <1>1, <1>3, <1>4, <1>5, <1>6, <1>7, <1>8, WhileProcessing

LEMMA ProcessorFailsKeeps == ASSUME MultilogAssumption, IInv, ProcessorFails PROVE IInv'
<1>1. /\ pc = "processor" /\ pc' = "process" /\ ret' = ret /\ back' = back /\ fin' = fin
      /\ mem' = mem /\ taken' = taken /\ sigs' = sigs /\ processor' = processor
      /\ bound' = [bound EXCEPT !.fails = @ + 1] /\ log' = log
  BY DEF ProcessorFails, Goto, call
<1>2. Types /\ dir.processed = Empty
  <2>1. dir.processed = Empty
    BY <1>1 DEF IInv, Layout, AtPrevious
  <2> QED BY <2>1 DEF IInv
<1>6. pc \in PreviousPcs \ {"open"} /\ pc' \in PreviousPcs \ {"open"}
  BY <1>1 DEF PreviousPcs
<1>8. PICK s \in Seq(Tokens) : s = dir.previous.data
  BY <1>6, AtProcessor
<1>9. PICK n \in 0 .. Len(s) : dir' = [dir EXCEPT !.processed.data = SubSeq(s, 1, n)]
  BY <1>8 DEF ProcessorFails
<1>10. PICK a \in Seq(Tokens) : a = SubSeq(s, 1, n) /\ Len(a) = n /\ Ascending(a)
  <2>1. Ascending(s)
    BY <1>6, <1>8, AtProcessor
  <2>2. LET a == SubSeq(s, 1, n) IN a \in Seq(Tokens) /\ Len(a) = n /\ Ascending(a)
    BY <2>1, Cut
  <2> QED BY <2>2
<1>3. PICK g : g = [dir.processed EXCEPT !.data = a]
  OBVIOUS
<1>4. /\ g \in SoundFile /\ g.data = a /\ g.here /\ ~g.exec /\ ~g.linked /\ Len(a) <= Size
  <2>1. /\ g \in File /\ g.data = a /\ g.here /\ ~g.exec /\ ~g.linked /\ g.synced = 0
    BY <1>2, <1>3, AbsentFile, FileIs DEF File
  <2>2. g \in SoundFile
    BY <2>1 DEF SoundFile
  <2>3. Len(s) <= Size /\ Len(s) \in Nat /\ Size \in Nat
    BY <1>6, <1>8, AtProcessor DEF MultilogAssumption
  <2> QED BY <2>1, <2>2, <2>3, <1>10
<1>5. /\ dir' \in Directory /\ dir'.current = dir.current /\ dir'.previous = dir.previous
      /\ dir'.processed = g /\ dir'.old = dir.old /\ dir'.state = dir.state /\ dir'.newstate = dir.newstate
  <2>1. dir' = [dir EXCEPT !.processed = g]
    BY <1>3, <1>9, <1>10
  <2> QED BY <2>1, <1>2, <1>4, DirectoryIs DEF Directory
<1>7. /\ bound' \in [crashes : Nat, signals : Nat, fails : Nat]
      /\ bound'.signals = bound.signals /\ bound'.crashes = bound.crashes
  <2>1. bound \in [crashes : Nat, signals : Nat, fails : Nat]
    BY <1>2 DEF Types
  <2>2. PICK k \in Nat : k = bound.fails + 1
    BY <2>1
  <2>3. bound' = [bound EXCEPT !.fails = k]
    BY <2>2, <1>1
  <2> QED BY <2>1, <2>3
<1> QED BY <1>1, <1>3, <1>4, <1>5, <1>6, <1>7, <1>10, WhileProcessing

LEMMA SyncProcessedKeeps == ASSUME MultilogAssumption, IInv, SyncProcessed PROVE IInv'
<1>1. /\ pc = "syncprocessed" /\ pc' = "markprocessed" /\ ret' = ret /\ back' = back /\ fin' = fin
      /\ mem' = mem /\ taken' = taken /\ sigs' = sigs /\ bound' = bound /\ processor' = processor
      /\ dir' = [dir EXCEPT !.processed.synced = Len(dir.processed.data)]
      /\ log' = [log EXCEPT !.safe = @ \cup Elements(dir.processed.data)]
  BY DEF SyncProcessed, Synced, Goto, call, env
<1>2. /\ Types /\ dir.processed.here /\ dir.processed.data = dir.previous.data
      /\ dir.newstate = Last(dir.previous.data) /\ Len(dir.processed.data) <= Size
      /\ Ascending(dir.processed.data)
  <2>1. dir.processed.here /\ dir.processed.data = dir.previous.data /\ Len(dir.processed.data) <= Size
    BY <1>1 DEF IInv, Layout, AtPrevious, Recoverable
  <2>2. Types /\ Ascending(dir.processed.data) /\ dir.newstate = Last(dir.previous.data)
    BY <1>1 DEF IInv, States, Ordered
  <2> QED BY <2>1, <2>2
<1>3. pc \in PreviousPcs \ {"open"} /\ pc' \in PreviousPcs \ {"open"}
  BY <1>1 DEF PreviousPcs
<1>4. PICK g : g = [dir.processed EXCEPT !.synced = Len(dir.processed.data)]
  OBVIOUS
<1>5. /\ g \in SoundFile /\ g.data = dir.processed.data /\ g.here /\ ~g.exec /\ ~g.linked
      /\ g.synced = Len(g.data)
  <2>1. dir.processed \in SoundFile /\ ~dir.processed.exec /\ ~dir.processed.linked
    BY <1>3, AtProcessor
  <2>2. PICK f : f = dir.processed
    OBVIOUS
  <2>3. /\ g \in SoundFile /\ g.data = f.data /\ g.here = f.here /\ g.exec = f.exec
        /\ g.linked = f.linked /\ g.synced = Len(g.data)
    BY <2>1, <2>2, <1>4, SyncedIs
  <2> QED BY <2>1, <2>2, <2>3, <1>2
<1>6. /\ dir' \in Directory /\ dir'.current = dir.current /\ dir'.previous = dir.previous
      /\ dir'.processed = g /\ dir'.old = dir.old /\ dir'.state = dir.state /\ dir'.newstate = dir.newstate
  <2>1. dir' = [dir EXCEPT !.processed = g]
    BY <1>1, <1>4
  <2> QED BY <2>1, <1>2, <1>5, DirectoryIs DEF Directory
<1>7. log' = log
  <2>1. log \in Log /\ Elements(dir.processed.data) \subseteq log.safe
    BY <1>2, <1>3, AtProcessor DEF Types
  <2>2. log.safe \cup Elements(dir.processed.data) = log.safe
    BY <2>1
  <2>3. log' = [log EXCEPT !.safe = log.safe]
    BY <2>2, <1>1
  <2> QED BY <2>1, <2>3 DEF Log
<1>8. bound' \in [crashes : Nat, signals : Nat, fails : Nat]
  BY <1>1, <1>2 DEF Types
<1> QED BY <1>1, <1>2, <1>3, <1>5, <1>6, <1>7, <1>8, WhileProcessing

LEMMA MarkProcessedKeeps == ASSUME MultilogAssumption, IInv, MarkProcessed PROVE IInv'
<1> USE DEF IInv
<1>0. PICK c, p, r : c = dir.current /\ p = dir.previous /\ r = dir.processed
  OBVIOUS
<1>1. /\ pc = "markprocessed" /\ pc' = "unlinkprevious" /\ ret' = ret /\ back' = back /\ fin' = fin
      /\ mem' = mem /\ taken' = taken /\ sigs' = sigs /\ bound' = bound /\ processor' = processor
      /\ dir' = [dir EXCEPT !.processed.exec = TRUE] /\ log' = log
  BY DEF MarkProcessed, Goto, call, env
<1>2. /\ pc \in RotatePcs /\ pc' \in RotatePcs /\ pc \in PreviousPcs \ {"open"}
      /\ pc' \in ProcessedPcs /\ pc' \notin PreviousPcs
  BY <1>1 DEF RotatePcs, PreviousPcs, ProcessedPcs
<1>3. /\ c = Empty /\ mem.bytes = 0 /\ p \in SoundFile /\ r \in SoundFile
      /\ Rotated(p, bound.signals) /\ ~p.linked /\ ~r.exec /\ ~r.linked
  BY <1>0, <1>2, AtProcessor
<1>4. /\ r.here /\ r.data = p.data /\ r.synced = Len(r.data) /\ Len(r.data) <= Size
      /\ dir.newstate = Last(p.data)
  BY <1>0, <1>1 DEF Layout, AtPrevious, Recoverable, States
<1>5. PICK g : g = [r EXCEPT !.exec = TRUE]
  OBVIOUS
<1>6. /\ g \in SoundFile /\ g.data = p.data /\ g.here /\ g.exec /\ ~g.linked /\ g.synced = Len(g.data)
      /\ Data(g) = Data(r) /\ Safe(g) = Safe(r)
  <2>1. /\ g \in SoundFile /\ g.data = r.data /\ g.here = r.here /\ g.exec = TRUE /\ g.linked = r.linked
        /\ g.synced = r.synced /\ Data(g) = Data(r) /\ Safe(g) = Safe(r)
    BY <1>3, <1>5, MarkedIs
  <2> QED BY <2>1, <1>3, <1>4
<1>7. /\ dir' \in Directory /\ dir'.current = c /\ dir'.previous = p /\ dir'.processed = g
      /\ dir'.old = dir.old /\ dir'.state = dir.state /\ dir'.newstate = dir.newstate
  <2>1. dir' = [dir EXCEPT !.processed = g]
    BY <1>0, <1>1, <1>5
  <2> QED BY <2>1, <1>0, <1>6, DirectoryIs DEF Directory
<1>8. /\ Mid(p, r) = p /\ Mid(p, g) = g /\ Data(g) = Data(p) /\ Safe(g) = Safe(p)
  <2>1. Data(r) = Data(p)
    BY <1>3, <1>4 DEF Data
  <2>2. SafeData(r) = SafeData(p)
    BY <1>3, <1>4, FileIs DEF Rotated
  <2> QED BY <2>1, <2>2, <1>3, <1>6 DEF Mid, Safe
<1>9. PICK X : X = {}
  OBVIOUS
<1>10. /\ log' \in Log /\ log'.written = log.written /\ log'.safe = log.safe \cup X
       /\ log'.lost = log.lost /\ log'.removed = log.removed
  BY <1>1, <1>9 DEF Types
<1>11. Disk(dir') = Disk(dir) /\ Platter(dir') = Platter(dir) \cup X
  BY <1>0, <1>7, <1>8, <1>9, SameUnion
<1>12. Ordered(dir')
  BY <1>0, <1>6, <1>7, <1>8, SameOrder
<1>13. Recoverable(c, p, g, bound.signals)
  <2>1. Rotated(g, bound.signals)
    BY <1>3, <1>6 DEF Rotated
  <2> QED BY <2>1, <1>0, <1>3, <1>4, <1>6, AbsentFile DEF Layout, Recoverable
<1>14. AtPrevious(c, p, g)'
  BY <1>1, <1>2, <1>3, <1>6 DEF AtPrevious
<1>15. processor => Follows(Fresh', dir'.state, taken, bound.crashes)
  <2>1. /\ In(mem') = In(mem)
        /\ Data(Mid(dir'.previous, dir'.processed)) = Data(Mid(dir.previous, dir.processed))
    BY <1>0, <1>1, <1>7, <1>8
  <2> QED BY <2>1, <1>1, <1>2, <1>7, SameFresh
<1>16. Recoverable(dir.current, dir.previous, dir.processed, bound.signals)' /\ AtPrevious(dir.current, dir.previous, dir.processed)'
  BY <1>1, <1>7, <1>13, <1>14
<1>17. /\ {dir'.state, dir'.newstate} \subseteq {dir.state, dir.newstate, 0} \cup Past(dir, log)
       /\ pc' \notin {"stat", "syncprocessed", "markprocessed", "fsync", "rename"}
       /\ dir'.newstate = Last(dir'.processed.data)
       /\ bound' \in [crashes : Nat, signals : Nat, fails : Nat] /\ mem' \in Memory
  BY <1>1, <1>4, <1>6, <1>7 DEF Types
<1>18. IInv /\ X \subseteq Disk(dir)
  BY <1>9
<1> HIDE DEF IInv
<1> QED BY <1>1, <1>2, <1>7, <1>10, <1>11, <1>12, <1>15, <1>16, <1>17, <1>18, Rotates

(* When restart() would go on with processed.                               *)
LEMMA AtProcessed ==
  ASSUME IInv, pc \in ProcessedPcs
  PROVE  /\ dir.current = Empty /\ mem.bytes = 0 /\ dir.processed \in SoundFile
         /\ Rotated(dir.processed, bound.signals) /\ dir.processed.exec /\ ~dir.processed.linked
         /\ Len(dir.processed.data) <= Size
         /\ dir.newstate = Last(dir.processed.data)
         /\ pc \in RotatePcs /\ back \in {"write", "exitasap"}
<1> USE DEF IInv
<1>0. PICK c, p, r : c = dir.current /\ p = dir.previous /\ r = dir.processed
  OBVIOUS
<1>1. pc \in RotatePcs /\ pc \notin {"fsync", "rename", "open"}
  BY DEF RotatePcs, ProcessedPcs
<1>2. back \in {"write", "exitasap"} /\ dir.newstate = Last(dir.processed.data)
  BY DEF Control, States
<1>3. Rotating(pc, fin)
  BY <1>1, <1>2, AtRotate
<1>4. c = Empty /\ mem.bytes = 0 /\ r.exec /\ ~r.linked /\ Len(r.data) <= Size /\ Rotated(r, bound.signals)
  BY <1>0, <1>1, <1>3 DEF Layout, AtPrevious, Recoverable
<1>5. r \in SoundFile
  BY <1>0, DirectoryIs
<1> QED BY <1>0, <1>1, <1>2, <1>4, <1>5

LEMMA UnlinkPreviousKeeps == ASSUME MultilogAssumption, IInv, UnlinkPrevious PROVE IInv'
<1> USE DEF IInv
<1>0. PICK c, p, r : c = dir.current /\ p = dir.previous /\ r = dir.processed
  OBVIOUS
<1>1. /\ pc = "unlinkprevious" /\ pc' = "renamestate" /\ ret' = ret /\ back' = back /\ fin' = fin
      /\ mem' = mem /\ taken' = taken /\ sigs' = sigs /\ bound' = bound /\ processor' = processor
      /\ dir' = [dir EXCEPT !.previous = Absent] /\ log' = log
  BY DEF UnlinkPrevious, Goto, call, env
<1>2. /\ pc \in RotatePcs /\ pc' \in RotatePcs /\ pc \in ProcessedPcs
      /\ pc' \in ProcessedPcs /\ pc' \notin PreviousPcs
  BY <1>1 DEF RotatePcs, PreviousPcs, ProcessedPcs
<1>3. /\ c = Empty /\ mem.bytes = 0 /\ r \in SoundFile
      /\ Rotated(r, bound.signals) /\ r.exec /\ ~r.linked /\ Len(r.data) <= Size /\ dir.newstate = Last(r.data)
  BY <1>0, <1>2, AtProcessed
<1>4. /\ dir' \in Directory /\ dir'.current = c /\ dir'.previous = Absent /\ dir'.processed = r
      /\ dir'.old = dir.old /\ dir'.state = dir.state /\ dir'.newstate = dir.newstate
  BY <1>0, <1>1, DirectoryIs, AbsentFile DEF Directory
<1>5. Mid(p, r) = r /\ Mid(Absent, r) = r /\ Absent.data = <<>>
  BY <1>3, AbsentFile DEF Mid
<1>6. PICK X : X = {}
  OBVIOUS
<1>7. /\ log' \in Log /\ log'.written = log.written /\ log'.safe = log.safe \cup X
      /\ log'.lost = log.lost /\ log'.removed = log.removed
  BY <1>1, <1>6 DEF Types
<1>8. Disk(dir') = Disk(dir) /\ Platter(dir') = Platter(dir) \cup X
  BY <1>0, <1>4, <1>5, <1>6, SameUnion
<1>9. Ordered(dir')
  BY <1>0, <1>4, <1>5, SameOrder
<1>10. Recoverable(c, Absent, r, bound.signals)
  BY <1>3, AbsentFile DEF Layout, Recoverable, Rotated
<1>11. AtPrevious(c, Absent, r)'
  BY <1>1, <1>2, <1>3 DEF AtPrevious
<1>12. processor => Follows(Fresh', dir'.state, taken, bound.crashes)
  <2>1. /\ In(mem') = In(mem)
        /\ Data(Mid(dir'.previous, dir'.processed)) = Data(Mid(dir.previous, dir.processed))
    BY <1>0, <1>1, <1>4, <1>5
  <2> QED BY <2>1, <1>1, <1>2, <1>4, SameFresh
<1>13. Recoverable(dir.current, dir.previous, dir.processed, bound.signals)' /\ AtPrevious(dir.current, dir.previous, dir.processed)'
  BY <1>1, <1>4, <1>10, <1>11
<1>14. /\ {dir'.state, dir'.newstate} \subseteq {dir.state, dir.newstate, 0} \cup Past(dir, log)
       /\ pc' \notin {"stat", "syncprocessed", "markprocessed", "fsync", "rename"}
       /\ dir'.newstate = Last(dir'.processed.data)
       /\ bound' \in [crashes : Nat, signals : Nat, fails : Nat] /\ mem' \in Memory
  BY <1>1, <1>3, <1>4 DEF Types
<1>15. IInv /\ X \subseteq Disk(dir)
  BY <1>6
<1> HIDE DEF IInv
<1> QED BY <1>1, <1>2, <1>4, <1>7, <1>8, <1>9, <1>12, <1>13, <1>14, <1>15, Rotates

(* Behind the data that the processor has seen comes what is in memory.     *)
LEMMA SeenBefore ==
  ASSUME NEW s \in Seq(Tokens), s # <<>>, Ascending(s),
         NEW S \in SUBSET Tokens, NEW state, NEW n \in Nat, NEW crashes,
         Below(Elements(s), S), Follows(S \cup Elements(s), state, n, crashes)
  PROVE  Follows(S, Last(s), n, crashes)
<1>1. Last(s) \in Elements(s) /\ Last(s) \in Nat /\ \A u \in Elements(s) : u <= Last(s)
  <2>1. Len(s) \in Nat /\ Len(s) \in 1 .. Len(s)
    BY EmptySeq, LenProperties
  <2>2. ASSUME NEW i \in 1 .. Len(s) PROVE s[i] <= s[Len(s)]
    <3>1. s[i] \in Tokens /\ s[Len(s)] \in Tokens
      BY <2>1
    <3>2. CASE i = Len(s)
      BY <3>1, <3>2 DEF Tokens
    <3>3. CASE i < Len(s)
      BY <2>1, <3>1, <3>3 DEF Ascending, Tokens
    <3> QED BY <2>1, <3>2, <3>3
  <2>3. s[Len(s)] \in Tokens
    BY <2>1
  <2> QED BY <2>1, <2>2, <2>3 DEF Last, Elements, Tokens
<1>2. \A t \in S \cup Elements(s) : \A u \in Tokens : t < u /\ u <= n => u \in S \cup Elements(s)
  BY DEF Follows
<1>3. Elements(s) \subseteq Tokens
  BY ElementsAre
<1>4. ASSUME NEW t \in S, NEW u \in Tokens, t < u, u <= n PROVE u \in S
  <2>1. Last(s) < t
    BY <1>1 DEF Below
  <2>2. u \notin Elements(s)
    BY <2>1, <1>1, <1>4 DEF Tokens
  <2> QED BY <2>2, <1>2, <1>4
<1>5. ASSUME NEW u \in Tokens, Last(s) < u, u <= n PROVE u \in S
  <2>1. u \notin Elements(s)
    BY <1>1, <1>5 DEF Tokens
  <2> QED BY <2>1, <1>1, <1>2, <1>5
<1>6. \A t \in S : Last(s) < t
  BY <1>1 DEF Below
<1> QED BY <1>4, <1>5, <1>6 DEF Follows

LEMMA RenameStateKeeps == ASSUME MultilogAssumption, IInv, RenameState PROVE IInv'
<1> USE DEF IInv
<1>0. PICK c, p, r : c = dir.current /\ p = dir.previous /\ r = dir.processed
  OBVIOUS
<1>1. /\ pc = "renamestate" /\ pc' = "stat" /\ ret' = ret /\ back' = back
      /\ fin' = [file |-> "processed", code |-> "s", next |-> back]
      /\ mem' = mem /\ taken' = taken /\ sigs' = sigs /\ bound' = bound /\ processor' = processor
      /\ dir' = [dir EXCEPT !.state = dir.newstate, !.newstate = 0] /\ log' = log
  BY DEF RenameState, NewState, Finish, env
<1>2. /\ pc \in RotatePcs /\ pc \in ProcessedPcs /\ pc \notin PreviousPcs
      /\ pc' \notin ProcessedPcs \cup PreviousPcs \cup RotatePcs
      /\ pc' \notin {"open", "processor", "syncprocessed", "markprocessed", "renamestate", "rename", "fsync"}
  BY <1>1 DEF RotatePcs, PreviousPcs, ProcessedPcs
<1>3. /\ c = Empty /\ mem.bytes = 0 /\ r \in SoundFile
      /\ Rotated(r, bound.signals) /\ r.exec /\ ~r.linked /\ Len(r.data) <= Size /\ dir.newstate = Last(r.data)
  BY <1>0, <1>2, AtProcessed
<1>4. p = Absent
  BY <1>0, <1>1 DEF Layout, AtPrevious
<1>5. /\ dir' \in Directory /\ dir'.current = c /\ dir'.previous = p /\ dir'.processed = r
      /\ dir'.old = dir.old /\ dir'.state = dir.newstate /\ dir'.newstate = 0
  <2>1. \A v, w \in 0 .. EofNewline : [dir EXCEPT !.state = v, !.newstate = w] \in Directory
    BY DirectoryIs DEF Directory
  <2>2. 0 \in 0 .. EofNewline
    BY DEF EofNewline, MultilogAssumption
  <2>3. dir' \in Directory
    BY <2>1, <2>2, <1>1, DirectoryIs
  <2> QED BY <2>3, <1>0, <1>1, DirectoryIs DEF Directory
<1>6. Mid(p, r) = r
  BY <1>3 DEF Mid
<1>7. PICK X : X = {}
  OBVIOUS
<1>8. /\ log' \in Log /\ log'.written = log.written /\ log'.safe = log.safe \cup X
      /\ log'.lost = log.lost /\ log'.removed = log.removed
  BY <1>1, <1>7 DEF Types
<1>9. Disk(dir') = Disk(dir) /\ Platter(dir') = Platter(dir) \cup X
  BY <1>0, <1>5, <1>7, SameUnion
<1>10. Ordered(dir')
  BY <1>0, <1>5 DEF Ordered
<1>11. Recoverable(c, p, r, bound.signals)'
  BY <1>0, <1>1 DEF Layout
<1>12. AtPrevious(c, p, r)'
  BY <1>1, <1>2, <1>3 DEF AtPrevious
<1>13. AtFinish(c, p, r)'
  <2>1. fin'.file = "processed" /\ dir'["processed"] = r
    BY <1>1, <1>5
  <2> QED BY <2>1, <1>1, <1>3, <1>4, AbsentFile DEF AtFinish, Rotated
<1>14. processor => Follows(Fresh', dir'.state, taken, bound.crashes)
  <2>1. PICK s \in Seq(Tokens) : s = r.data
    BY <1>3, FileIs
  <2>2. s # <<>> /\ Ascending(s) /\ Last(s) = dir'.state
    BY <2>1, <1>0, <1>3, <1>5 DEF Rotated, Ends, Ordered
  <2>3. Fresh = In(mem) \cup Elements(s)
    BY <2>1, <1>0, <1>2, <1>3, <1>6 DEF Fresh, Data
  <2>4. Fresh' = In(mem)
    <3>1. Fresh' = In(mem') \cup Data(dir'.current)
      BY <1>2 DEF Fresh
    <3>2. In(mem') = In(mem) /\ Data(dir'.current) = {}
      BY <1>1, <1>3, <1>5, AbsentFile
    <3> QED BY <3>1, <3>2
  <2>5. Elements(s) \subseteq Past(dir, log)
    BY <2>1, <1>0, <1>3, <1>6 DEF Past, Disk, Data
  <2>6. Below(Elements(s), In(mem)) /\ In(mem) \subseteq Upto(taken)
    BY <2>5 DEF Bounds, Below
  <2>7. taken \in Nat /\ Upto(taken) \subseteq Tokens
    BY DEF Types, MultilogAssumption, Upto, Tokens, EofNewline
  <2>8. ~Stopped
    BY <1>1 DEF Stopped, Recovering, FinishPcs, RestartPcs
  <2>9. ASSUME processor PROVE Follows(In(mem) \cup Elements(s), dir.state, taken, bound.crashes)
    BY <2>3, <2>8, <2>9 DEF States
  <2>10. In(mem) \in SUBSET Tokens
    BY <2>6, <2>7
  <2> QED BY <2>2, <2>4, <2>6, <2>7, <2>9, <2>10, SeenBefore
<1>15. /\ Recoverable(dir.current, dir.previous, dir.processed, bound.signals)'
       /\ AtPrevious(dir.current, dir.previous, dir.processed)'
       /\ AtFinish(dir.current, dir.previous, dir.processed)'
  BY <1>1, <1>5, <1>11, <1>12, <1>13
<1>16. /\ {dir'.state, dir'.newstate} \subseteq {dir.state, dir.newstate, 0} \cup Past(dir, log)
       /\ bound' \in [crashes : Nat, signals : Nat, fails : Nat] /\ mem' \in Memory
  BY <1>1, <1>5 DEF Types
<1>17. /\ pc' = "stat" /\ fin'.code = "s" /\ fin'.next = back
       /\ fin' \in [file : Files, code : {"s", "u"}, next : {"write", "exitasap", "finishcurrent", "create"}]
       /\ fin'.file \in {"previous", "processed"}
  BY <1>1 DEF Control, Files
<1>18. IInv /\ X \subseteq Disk(dir)
  BY <1>7
<1> HIDE DEF IInv
<1> QED BY <1>1, <1>2, <1>5, <1>8, <1>9, <1>10, <1>14, <1>15, <1>16, <1>17, <1>18, Rotates

-----------------------------------------------------------------------------
(* finish().                                                                *)

(* One old file more, and one less.                                         *)
LEMMA OldMore ==
  ASSUME NEW q \in Seq(SoundOld), NEW o \in SoundOld
  PROVE  /\ Append(q, o) \in Seq(SoundOld) /\ Len(Append(q, o)) = Len(q) + 1 /\ Len(q) \in Nat
         /\ \A i \in 1 .. Len(q) : Append(q, o)[i] = q[i]
         /\ Append(q, o)[Len(q) + 1] = o
         /\ Datas(q) \in Seq(Seq(Tokens)) /\ SafeDatas(q) \in Seq(Seq(Tokens))
         /\ Datas(Append(q, o)) = Append(Datas(q), o.data)
         /\ SafeDatas(Append(q, o)) = Append(SafeDatas(q), SafeData(o))
         /\ o.data \in Seq(Tokens) /\ SafeData(o) \in Seq(Tokens)
<1> DEFINE r == Append(q, o)
<1>1. /\ r \in Seq(SoundOld) /\ Len(r) = Len(q) + 1 /\ Len(q) \in Nat
      /\ \A i \in 1 .. Len(q) : r[i] = q[i]
      /\ r[Len(q) + 1] = o
  BY AppendProperties
<1> HIDE DEF r
<1>2. ASSUME NEW x \in SoundOld PROVE x.data \in Seq(Tokens) /\ SafeData(x) \in Seq(Tokens)
  <2>1. x.data \in Seq(Tokens) /\ x.synced \in 0 .. Len(x.data)
    BY DEF SoundOld, Old
  <2> QED BY <2>1, Cut DEF SafeData
<1>3. /\ Datas(q) \in Seq(Seq(Tokens)) /\ Len(Datas(q)) = Len(q)
      /\ SafeDatas(q) \in Seq(Seq(Tokens)) /\ Len(SafeDatas(q)) = Len(q)
  <2>1. \A i \in 1 .. Len(q) : q[i] \in SoundOld
    BY <1>1
  <2> QED BY <2>1, <1>1, <1>2 DEF Datas, SafeDatas
<1>4. /\ Datas(r) \in Seq(Seq(Tokens)) /\ Len(Datas(r)) = Len(q) + 1
      /\ SafeDatas(r) \in Seq(Seq(Tokens)) /\ Len(SafeDatas(r)) = Len(q) + 1
  <2>1. \A i \in 1 .. Len(r) : r[i] \in SoundOld
    BY <1>1
  <2> QED BY <2>1, <1>1, <1>2 DEF Datas, SafeDatas
<1>5. \A i : i \in 1 .. Len(q) + 1 <=> i \in 1 .. Len(q) \/ i = Len(q) + 1
  BY <1>1
<1>6. ASSUME NEW D, D \in Seq(Seq(Tokens)), Len(D) = Len(q), NEW x \in Seq(Tokens), NEW E,
             E \in Seq(Seq(Tokens)), Len(E) = Len(q) + 1,
             \A i \in 1 .. Len(q) : E[i] = D[i], E[Len(q) + 1] = x
      PROVE  E = Append(D, x)
  <2>1. /\ Append(D, x) \in Seq(Seq(Tokens)) /\ Len(Append(D, x)) = Len(q) + 1
        /\ \A i \in 1 .. Len(q) : Append(D, x)[i] = D[i]
        /\ Append(D, x)[Len(q) + 1] = x
    BY <1>6, AppendProperties
  <2>2. \A i \in 1 .. Len(q) + 1 : E[i] = Append(D, x)[i]
    BY <2>1, <1>5, <1>6
  <2> QED BY <2>1, <2>2, <1>6, SeqEqual
<1>7. Datas(r) = Append(Datas(q), o.data)
  <2>1. \A i \in 1 .. Len(q) : Datas(r)[i] = Datas(q)[i]
    BY <1>1, <1>5 DEF Datas
  <2>2. Datas(r)[Len(q) + 1] = o.data
    BY <1>1, <1>5 DEF Datas
  <2> QED BY <2>1, <2>2, <1>2, <1>3, <1>4, <1>6
<1>8. SafeDatas(r) = Append(SafeDatas(q), SafeData(o))
  <2>1. \A i \in 1 .. Len(q) : SafeDatas(r)[i] = SafeDatas(q)[i]
    BY <1>1, <1>5 DEF SafeDatas
  <2>2. SafeDatas(r)[Len(q) + 1] = SafeData(o)
    BY <1>1, <1>5 DEF SafeDatas
  <2> QED BY <2>1, <2>2, <1>2, <1>3, <1>4, <1>6
<1> QED BY <1>1, <1>2, <1>3, <1>7, <1>8 DEF r

LEMMA OldRest ==
  ASSUME NEW q \in Seq(SoundOld), q # <<>>
  PROVE  /\ Head(q) \in SoundOld /\ Tail(q) \in Seq(SoundOld)
         /\ Len(Tail(q)) = Len(q) - 1 /\ Len(q) \in Nat
         /\ \A i \in 1 .. Len(q) - 1 : Tail(q)[i] = q[i + 1]
         /\ Datas(q) \in Seq(Seq(Tokens)) /\ SafeDatas(q) \in Seq(Seq(Tokens))
         /\ Datas(q) # <<>> /\ SafeDatas(q) # <<>>
         /\ Datas(Tail(q)) = Tail(Datas(q)) /\ SafeDatas(Tail(q)) = Tail(SafeDatas(q))
         /\ Head(Datas(q)) = Head(q).data /\ Head(SafeDatas(q)) = SafeData(Head(q))
         /\ Elements(SafeData(Head(q))) \subseteq Elements(Head(q).data)
         /\ Elements(Head(q).data) \subseteq Tokens
<1>1. Len(q) \in Nat /\ Len(q) > 0 /\ Head(q) = q[1]
  BY EmptySeq, LenProperties, HeadTailProperties
<1> DEFINE r == Tail(q)
<1>2. r \in Seq(SoundOld) /\ Len(r) = Len(q) - 1 /\ \A i \in 1 .. Len(q) - 1 : r[i] = q[i + 1]
  BY <1>1, HeadTailProperties
<1> HIDE DEF r
<1>3. ASSUME NEW x \in SoundOld
      PROVE  /\ x.data \in Seq(Tokens) /\ SafeData(x) \in Seq(Tokens)
             /\ Elements(SafeData(x)) \subseteq Elements(x.data) /\ Elements(x.data) \subseteq Tokens
  <2>1. x.data \in Seq(Tokens) /\ x.synced \in 0 .. Len(x.data)
    BY DEF SoundOld, Old
  <2>2. Elements(x.data) \subseteq Tokens
    BY <2>1, ElementsAre
  <2> QED BY <2>1, <2>2, Cut DEF SafeData
<1>4. 1 \in 1 .. Len(q) /\ q[1] \in SoundOld /\ \A i \in 1 .. Len(q) - 1 : i + 1 \in 1 .. Len(q)
  BY <1>1
<1>5. ASSUME NEW D, D \in Seq(Seq(Tokens)), Len(D) = Len(q), NEW E,
             E \in Seq(Seq(Tokens)), Len(E) = Len(q) - 1,
             \A i \in 1 .. Len(q) - 1 : E[i] = D[i + 1]
      PROVE  D # <<>> /\ E = Tail(D) /\ Head(D) = D[1]
  <2>1. D # <<>>
    BY <1>1, <1>5, EmptySeq
  <2>2. /\ Tail(D) \in Seq(Seq(Tokens)) /\ Len(Tail(D)) = Len(q) - 1 /\ Head(D) = D[1]
        /\ \A i \in 1 .. Len(q) - 1 : Tail(D)[i] = D[i + 1]
    BY <2>1, <1>5, HeadTailProperties
  <2> QED BY <2>1, <2>2, <1>5, SeqEqual
<1>6. /\ Datas(q) \in Seq(Seq(Tokens)) /\ Len(Datas(q)) = Len(q)
      /\ SafeDatas(q) \in Seq(Seq(Tokens)) /\ Len(SafeDatas(q)) = Len(q)
  <2>1. \A i \in 1 .. Len(q) : q[i] \in SoundOld
    BY <1>1
  <2> QED BY <2>1, <1>1, <1>3 DEF Datas, SafeDatas
<1>7. /\ Datas(r) \in Seq(Seq(Tokens)) /\ Len(Datas(r)) = Len(q) - 1
      /\ SafeDatas(r) \in Seq(Seq(Tokens)) /\ Len(SafeDatas(r)) = Len(q) - 1
  <2>1. \A i \in 1 .. Len(r) : r[i] \in SoundOld
    BY <1>2
  <2>2. Len(q) - 1 \in Nat
    BY <1>1
  <2> QED BY <2>1, <2>2, <1>2, <1>3 DEF Datas, SafeDatas
<1>8. \A i \in 1 .. Len(q) - 1 : Datas(r)[i] = Datas(q)[i + 1] /\ SafeDatas(r)[i] = SafeDatas(q)[i + 1]
  BY <1>2, <1>4 DEF Datas, SafeDatas
<1>9. Datas(q) # <<>> /\ Datas(r) = Tail(Datas(q)) /\ Head(Datas(q)) = q[1].data
  <2>1. Datas(q)[1] = q[1].data
    BY <1>4 DEF Datas
  <2> QED BY <2>1, <1>5, <1>6, <1>7, <1>8
<1>10. SafeDatas(q) # <<>> /\ SafeDatas(r) = Tail(SafeDatas(q)) /\ Head(SafeDatas(q)) = SafeData(q[1])
  <2>1. SafeDatas(q)[1] = SafeData(q[1])
    BY <1>4 DEF SafeDatas
  <2> QED BY <2>1, <1>5, <1>6, <1>7, <1>8
<1> QED BY <1>1, <1>2, <1>3, <1>4, <1>6, <1>9, <1>10 DEF r

LEMMA FinishControl ==
  ASSUME Control, pc \in FinishPcs, ret' = ret, back' = back, fin' = fin, processor' = processor,
         pc' \in FinishPcs \/ pc' = fin.next
  PROVE  /\ Control' /\ Caller' = Caller /\ (InWrite(pc, back, fin)' <=> InWrite(pc, back, fin))
         /\ (Recovering(pc, fin)' <=> Recovering(pc, fin)) /\ (Rotating(pc, fin)' => Rotating(pc, fin))
         /\ (Rotating(pc, fin) <=> fin.next \in {"write", "exitasap"})
         /\ (Recovering(pc, fin) <=> fin.next \in {"finishcurrent", "create"})
         /\ pc \notin RotatePcs \cup {"gone"} /\ pc' \notin RotatePcs \cup {"gone"}
         /\ pc \notin PreviousPcs \cup ProcessedPcs /\ pc' \notin PreviousPcs \cup ProcessedPcs
         /\ fin.next \in {"write", "exitasap", "finishcurrent", "create"}
<1>1. fin.next \in {"write", "exitasap", "finishcurrent", "create"} /\ back \in {"write", "exitasap"}
  BY DEF Control
<1>2. /\ (Rotating(pc, fin) <=> fin.next \in {"write", "exitasap"})
      /\ (Recovering(pc, fin) <=> fin.next \in {"finishcurrent", "create"})
      /\ (InWrite(pc, back, fin) <=> fin.next = "write")
      /\ Caller = IF fin.next = "write" THEN ret ELSE IF fin.next = "exitasap" THEN "exitasap" ELSE "gone"
  BY <1>1, AtFinishing DEF Caller
<1>3. /\ pc \notin RotatePcs \cup {"gone"} /\ pc' \notin RotatePcs \cup {"gone"}
      /\ pc \notin PreviousPcs \cup ProcessedPcs /\ pc' \notin PreviousPcs \cup ProcessedPcs
  BY <1>1 DEF FinishPcs, RotatePcs, PreviousPcs, ProcessedPcs
<1>a. CASE pc' \in FinishPcs
  <2>1. /\ (Rotating(pc, fin)' <=> fin.next \in {"write", "exitasap"})
        /\ (Recovering(pc, fin)' <=> fin.next \in {"finishcurrent", "create"})
        /\ (InWrite(pc, back, fin)' <=> fin.next = "write")
        /\ Caller' = IF fin.next = "write" THEN ret ELSE IF fin.next = "exitasap" THEN "exitasap" ELSE "gone"
    BY <1>a, <1>1, AtFinishing DEF Caller
  <2> QED BY <2>1, <1>a, <1>1, <1>2, <1>3 DEF Control
<1>b. CASE pc' = fin.next /\ pc' \notin FinishPcs
  <2>1. CASE pc' = "write"
    <3>1. InWrite(pc, back, fin)' /\ ~Rotating(pc, fin)' /\ ~Recovering(pc, fin)' /\ Caller' = ret
      BY <2>1, AtWrite DEF Caller
    <3> QED BY <3>1, <2>1, <1>b, <1>1, <1>2, <1>3 DEF Control
  <2>2. CASE pc' = "exitasap"
    <3>1. ~InWrite(pc, back, fin)' /\ ~Rotating(pc, fin)' /\ ~Recovering(pc, fin)' /\ Caller' = "exitasap"
      BY <2>2, AtDoit DEF Caller, DoitPcs
    <3> QED BY <3>1, <2>2, <1>b, <1>1, <1>2, <1>3 DEF Control, DoitPcs
  <2>3. CASE pc' \in {"finishcurrent", "create"}
    <3>1. ~InWrite(pc, back, fin)' /\ ~Rotating(pc, fin)' /\ Recovering(pc, fin)' /\ Caller' = "gone"
      BY <2>3, AtRestarting DEF Caller, RestartPcs
    <3> QED BY <3>1, <2>3, <1>b, <1>1, <1>2, <1>3 DEF Control, RestartPcs
  <2> QED BY <2>1, <2>2, <2>3, <1>b, <1>1
<1> QED BY <1>a, <1>b

(* The file that finish() is at.                                            *)
LEMMA AtOld ==
  ASSUME MultilogAssumption, IInv, pc \in FinishPcs,
         NEW f, f = dir[fin.file], NEW c, NEW p, NEW r,
         c = dir.current, p = dir.previous, r = dir.processed, f.here
  PROVE  /\ fin.file \in Files /\ f \in SoundFile /\ Len(f.data) <= Size /\ Ascending(f.data)
         /\ ~c.exec
         /\ fin.file = "current" => f = c /\ p = Absent /\ r = Absent
         /\ fin.file = "previous" => f = p /\ r = Absent /\ (c = Absent \/ c = Empty)
         /\ fin.file = "processed" => f = r /\ p = Absent /\ r.exec /\ (c = Absent \/ c = Empty)
         /\ fin.next \in {"write", "exitasap"} => fin.file # "current" /\ c = Empty /\ mem.bytes = 0
         /\ fin.next \in {"finishcurrent", "create"} => bound.crashes > 0
<1> USE DEF IInv
<1>1. /\ ~c.exec
      /\ fin.file = "current" => p = Absent /\ r = Absent
      /\ fin.file = "previous" => r = Absent
      /\ fin.file = "processed" => p = Absent /\ (r.here => r.exec)
  BY DEF Layout, AtFinish
<1>2. fin.file \in Files /\ fin.next \in {"write", "exitasap", "finishcurrent", "create"}
      /\ (fin.next \in {"write", "exitasap"} => fin.file # "current")
  BY DEF Control
<1>3. /\ fin.file = "current" => f = c
      /\ fin.file = "previous" => f = p
      /\ fin.file = "processed" => f = r
  OBVIOUS
<1>4. f \in SoundFile
  BY <1>2, <1>3, DirectoryIs DEF Files
<1>5. Len(f.data) <= Size /\ Ascending(f.data)
  BY <1>2, <1>3 DEF Files, Layout, Recoverable, Ordered
<1>6. fin.file # "current" => c = Absent \/ c = Empty
  BY <1>2, <1>3 DEF Files, Layout, Recoverable
<1>7. /\ (Rotating(pc, fin) <=> fin.next \in {"write", "exitasap"})
      /\ (Recovering(pc, fin) <=> fin.next \in {"finishcurrent", "create"})
      /\ pc \notin {"fsync", "rename", "open"}
  BY <1>2, AtFinishing DEF FinishPcs
<1>8. fin.next \in {"write", "exitasap"} => c = Empty /\ mem.bytes = 0
  BY <1>7 DEF Layout, AtPrevious
<1>9. fin.next \in {"finishcurrent", "create"} => bound.crashes # 0
  BY <1>2, <1>3, <1>7, AbsentFile DEF Files, Layout, AtRestart
<1>10. bound.crashes \in Nat
  BY DEF Types
<1> QED BY <1>1, <1>2, <1>3, <1>4, <1>5, <1>6, <1>8, <1>9, <1>10

LEMMA LinkOldKeeps == ASSUME MultilogAssumption, IInv, LinkOld PROVE IInv'
<1> USE DEF IInv
<1>0. PICK c, p, r : c = dir.current /\ p = dir.previous /\ r = dir.processed
  OBVIOUS
<1>1. /\ pc = "link" /\ pc' = "unlink" /\ ret' = ret /\ back' = back /\ fin' = fin
      /\ mem' = mem /\ taken' = taken /\ sigs' = sigs /\ bound' = bound /\ processor' = processor
      /\ dir' = [dir EXCEPT ![fin.file].linked = TRUE,
                   !.old = Append(dir.old, [data |-> dir[fin.file].data,
                                            synced |-> dir[fin.file].synced, code |-> fin.code])]
      /\ log' = log
  BY DEF LinkOld, Goto, call, env
<1>2. pc \in FinishPcs /\ pc' \in FinishPcs
  BY <1>1 DEF FinishPcs
<1>3. PICK f : f = dir[fin.file]
  OBVIOUS
<1>4. f.here /\ ~f.linked /\ (fin.code = "s" => Rotated(f, bound.signals))
  BY <1>1, <1>2, <1>3 DEF Layout, AtFinish
<1>5. /\ fin.file \in Files /\ f \in SoundFile /\ Len(f.data) <= Size /\ Ascending(f.data)
      /\ ~c.exec
      /\ fin.file = "current" => f = c /\ p = Absent /\ r = Absent
      /\ fin.file = "previous" => f = p /\ r = Absent /\ (c = Absent \/ c = Empty)
      /\ fin.file = "processed" => f = r /\ p = Absent /\ r.exec /\ (c = Absent \/ c = Empty)
      /\ fin.next \in {"write", "exitasap"} => fin.file # "current" /\ c = Empty /\ mem.bytes = 0
      /\ fin.next \in {"finishcurrent", "create"} => bound.crashes > 0
  BY <1>0, <1>2, <1>3, <1>4, AtOld
<1>6. PICK g : g = [f EXCEPT !.linked = TRUE]
  OBVIOUS
<1>7. /\ g \in SoundFile /\ g.data = f.data /\ g.here /\ g.exec = f.exec /\ g.linked
      /\ g.synced = f.synced /\ Data(g) = {} /\ Safe(g) = {}
  <2>1. /\ g \in File /\ g.data = f.data /\ g.here = f.here /\ g.exec = f.exec /\ g.linked
        /\ g.synced = f.synced
    BY <1>5, <1>6 DEF SoundFile, File
  <2>3. f.synced <= Len(f.data)
    BY <1>5, FileIs
  <2>2. g.synced <= Len(g.data)
    BY <2>1, <2>3
  <2> QED BY <2>1, <2>2, <1>4 DEF SoundFile, Data, Safe
<1>8. PICK o : o = [data |-> f.data, synced |-> f.synced, code |-> fin.code]
  OBVIOUS
<1>9. o \in SoundOld /\ o.data = f.data /\ o.synced = f.synced /\ o.code = fin.code /\ SafeData(o) = SafeData(f)
  <2>1. fin.code \in {"s", "u"}
    BY DEF Control
  <2>2. o \in Old /\ o.data = f.data /\ o.synced = f.synced /\ o.code = fin.code
    BY <2>1, <1>5, <1>8, FileIs DEF Old
  <2>3. f.synced <= Len(f.data)
    BY <1>5, FileIs
  <2>4. o.synced <= Len(o.data)
    BY <2>2, <2>3
  <2> QED BY <2>2, <2>4 DEF SoundOld, SafeData
<1>10. PICK old \in Seq(SoundOld) : old = Append(dir.old, o)
  <2>1. dir.old \in Seq(SoundOld)
    BY DirectoryIs
  <2> QED BY <2>1, <1>9, OldMore
<1>11. /\ Len(old) = Len(dir.old) + 1 /\ Len(dir.old) \in Nat
       /\ \A i \in 1 .. Len(dir.old) : old[i] = dir.old[i]
       /\ old[Len(dir.old) + 1] = o
       /\ Datas(dir.old) \in Seq(Seq(Tokens)) /\ SafeDatas(dir.old) \in Seq(Seq(Tokens))
       /\ Datas(old) = Append(Datas(dir.old), f.data)
       /\ SafeDatas(old) = Append(SafeDatas(dir.old), SafeData(f))
       /\ f.data \in Seq(Tokens) /\ SafeData(f) \in Seq(Tokens)
  <2>1. dir.old \in Seq(SoundOld)
    BY DirectoryIs
  <2>2. /\ Len(old) = Len(dir.old) + 1 /\ Len(dir.old) \in Nat
        /\ \A i \in 1 .. Len(dir.old) : old[i] = dir.old[i]
        /\ old[Len(dir.old) + 1] = o
        /\ Datas(dir.old) \in Seq(Seq(Tokens)) /\ SafeDatas(dir.old) \in Seq(Seq(Tokens))
        /\ Datas(old) = Append(Datas(dir.old), o.data)
        /\ SafeDatas(old) = Append(SafeDatas(dir.old), SafeData(o))
        /\ o.data \in Seq(Tokens) /\ SafeData(o) \in Seq(Tokens)
    BY <2>1, <1>9, <1>10, OldMore
  <2> QED BY <2>2, <1>9
(* The three files after it.                                                *)
<1>12. PICK c2, p2, r2 :
         /\ dir' \in Directory /\ dir'.current = c2 /\ dir'.previous = p2 /\ dir'.processed = r2
         /\ dir'.old = old /\ dir'.state = dir.state /\ dir'.newstate = dir.newstate
         /\ dir'[fin.file] = g
         /\ fin.file = "current" => c2 = g /\ p2 = p /\ r2 = r
         /\ fin.file = "previous" => c2 = c /\ p2 = g /\ r2 = r
         /\ fin.file = "processed" => c2 = c /\ p2 = p /\ r2 = g
  <2>1. dir' = [dir EXCEPT ![fin.file] = g, !.old = old]
    BY <1>1, <1>3, <1>6, <1>8, <1>10
  <2>2. CASE fin.file = "current"
    <3>1. dir' = [dir EXCEPT !.current = g, !.old = old]
      BY <2>1, <2>2
    <3>2. dir' \in Directory
      BY <3>1, <1>7, <1>10, DirectoryIs DEF Directory
    <3> QED BY <3>1, <3>2, <2>2, <1>0, DirectoryIs DEF Directory
  <2>3. CASE fin.file = "previous"
    <3>1. dir' = [dir EXCEPT !.previous = g, !.old = old]
      BY <2>1, <2>3
    <3>2. dir' \in Directory
      BY <3>1, <1>7, <1>10, DirectoryIs DEF Directory
    <3> QED BY <3>1, <3>2, <2>3, <1>0, DirectoryIs DEF Directory
  <2>4. CASE fin.file = "processed"
    <3>1. dir' = [dir EXCEPT !.processed = g, !.old = old]
      BY <2>1, <2>4
    <3>2. dir' \in Directory
      BY <3>1, <1>7, <1>10, DirectoryIs DEF Directory
    <3> QED BY <3>1, <3>2, <2>4, <1>0, DirectoryIs DEF Directory
  <2> QED BY <2>2, <2>3, <2>4, <1>5 DEF Files
<1>13. /\ c2.data = c.data /\ p2.data = p.data /\ r2.data = r.data
       /\ fin.file # "current" => c2 = c
  BY <1>5, <1>7, <1>12 DEF Files
<1>14. /\ Data(Mid(p, r)) \cup Data(c) = Elements(f.data)
       /\ Safe(Mid(p, r)) \cup Safe(c) = Elements(SafeData(f))
  <2>1. Data(f) = Elements(f.data) /\ Safe(f) = Elements(SafeData(f))
    BY <1>4 DEF Data, Safe
  <2>2. CASE fin.file = "current"
    <3>1. Mid(p, r) = Absent
      BY <2>2, <1>5, AbsentFile DEF Mid
    <3> QED BY <3>1, <2>1, <2>2, <1>5, AbsentFile
  <2>3. CASE fin.file = "previous"
    <3>1. Mid(p, r) = f
      BY <2>3, <1>5, AbsentFile DEF Mid
    <3> QED BY <3>1, <2>1, <2>3, <1>5, AbsentFile
  <2>4. CASE fin.file = "processed"
    <3>1. Mid(p, r) = f
      BY <2>4, <1>5, AbsentFile DEF Mid
    <3> QED BY <3>1, <2>1, <2>4, <1>5, AbsentFile
  <2> QED BY <2>2, <2>3, <2>4, <1>5 DEF Files
<1>15. /\ Data(Mid(p2, r2)) = {} /\ Data(c2) = {}
       /\ Safe(Mid(p2, r2)) = {} /\ Safe(c2) = {}
  <2>2. CASE fin.file = "current"
    <3>1. Mid(p2, r2) = Absent
      BY <2>2, <1>5, <1>12, AbsentFile DEF Mid
    <3> QED BY <3>1, <2>2, <1>7, <1>12, AbsentFile
  <2>3. CASE fin.file = "previous"
    <3>1. Mid(p2, r2) = g
      BY <2>3, <1>5, <1>12, AbsentFile DEF Mid
    <3> QED BY <3>1, <2>3, <1>5, <1>7, <1>12, AbsentFile
  <2>4. CASE fin.file = "processed"
    <3>1. Mid(p2, r2) = g
      BY <2>4, <1>5, <1>7, <1>12, AbsentFile DEF Mid
    <3> QED BY <3>1, <2>4, <1>5, <1>7, <1>12, AbsentFile
  <2> QED BY <2>2, <2>3, <2>4, <1>5 DEF Files
<1>16. /\ AllOf(Datas(old)) = AllOf(Datas(dir.old)) \cup Elements(f.data)
       /\ AllOf(SafeDatas(old)) = AllOf(SafeDatas(dir.old)) \cup Elements(SafeData(f))
       /\ Ranked(Datas(old))
  <2>1. Ranked(Datas(dir.old)) /\ Below(AllOf(Datas(dir.old)), Elements(f.data))
    BY <1>0, <1>14 DEF Ordered
  <2>2. /\ AllOf(Datas(old)) = AllOf(Datas(dir.old)) \cup Elements(f.data)
        /\ Ranked(Datas(old))
    BY <2>1, <1>5, <1>11, RankedMore
  <2>3. AllOf(SafeDatas(old)) = AllOf(SafeDatas(dir.old)) \cup Elements(SafeData(f))
    BY <1>11, RankedMore
  <2> QED BY <2>2, <2>3
<1>17. PICK X : X = {}
  OBVIOUS
<1>18. Disk(dir') = Disk(dir) /\ Platter(dir') = Platter(dir) \cup X
  <2>1. Disk(dir') = AllOf(Datas(dir.old)) \cup Elements(f.data)
    BY <1>12, <1>15, <1>16 DEF Disk
  <2>2. Disk(dir) = AllOf(Datas(dir.old)) \cup Elements(f.data)
    BY <1>0, <1>14 DEF Disk
  <2>3. Platter(dir') = AllOf(SafeDatas(dir.old)) \cup Elements(SafeData(f))
    BY <1>12, <1>15, <1>16 DEF Platter
  <2>4. Platter(dir) = AllOf(SafeDatas(dir.old)) \cup Elements(SafeData(f))
    BY <1>0, <1>14 DEF Platter
  <2> QED BY <2>1, <2>2, <2>3, <2>4, <1>17
<1>19. Ordered(dir')
  <2>1. Below(AllOf(Datas(old)), Data(Mid(p2, r2)) \cup Data(c2))
    BY <1>15 DEF Below
  <2>2. Ascending(c.data) /\ Ascending(p.data) /\ Ascending(r.data)
    BY <1>0 DEF Ordered
  <2> QED BY <2>1, <2>2, <1>12, <1>13, <1>16 DEF Ordered
<1>20. Bounds(dir', mem', log', taken') /\ Fates(dir', mem', log', taken')
  <2>1. {dir'.state, dir'.newstate} \subseteq {dir.state, dir.newstate, 0} \cup Past(dir, log)
    BY <1>12
  <2>2. X \subseteq Disk(dir) /\ log'.safe = log.safe \cup X
    BY <1>1, <1>17
  <2>3. IInv
    OBVIOUS
  <2> QED BY <2>1, <2>2, <2>3, <1>1, <1>18, SameDisk
<1>21. /\ Control' /\ Caller' = Caller /\ (InWrite(pc, back, fin)' <=> InWrite(pc, back, fin))
       /\ (Recovering(pc, fin)' <=> Recovering(pc, fin)) /\ (Rotating(pc, fin)' => Rotating(pc, fin))
       /\ (Rotating(pc, fin) <=> fin.next \in {"write", "exitasap"})
       /\ (Recovering(pc, fin) <=> fin.next \in {"finishcurrent", "create"})
       /\ pc \notin PreviousPcs \cup ProcessedPcs /\ pc' \notin PreviousPcs \cup ProcessedPcs
       /\ fin.next \in {"write", "exitasap", "finishcurrent", "create"}
  BY <1>1, <1>2, FinishControl
<1>22. Types'
  BY <1>1, <1>12 DEF Types
<1>23. Layout'
  <2>1. Recoverable(c2, p2, r2, bound.signals)
    <3>1. Recoverable(c, p, r, bound.signals)
      BY <1>0 DEF Layout
    <3>2. CASE fin.file = "current"
      BY <3>1, <3>2, <1>4, <1>5, <1>7, <1>12, AbsentFile DEF Recoverable
    <3>3. CASE fin.file = "previous"
      BY <3>1, <3>3, <1>4, <1>5, <1>7, <1>12, AbsentFile DEF Recoverable
    <3>4. CASE fin.file = "processed"
      <4>1. Rotated(g, bound.signals)
        BY <3>1, <3>4, <1>4, <1>5, <1>7 DEF Recoverable, Rotated
      <4> QED BY <4>1, <3>1, <3>4, <1>4, <1>5, <1>7, <1>12, AbsentFile DEF Recoverable
    <3> QED BY <3>2, <3>3, <3>4, <1>5 DEF Files
  <2>2. AtCurrent(c2, p2, r2)'
    BY <1>1 DEF AtCurrent, CurrentPcs, DoitPcs
  <2>3. AtPrevious(c2, p2, r2)'
    BY <1>1, <1>5, <1>13, <1>21 DEF AtPrevious
  <2>4. AtFinish(c2, p2, r2)'
    <3>1. fin'.file = fin.file /\ dir'[fin'.file] = g
      BY <1>1, <1>12
    <3>2. /\ ~c2.exec
          /\ fin.file = "current" => p2 = Absent /\ r2 = Absent
          /\ fin.file = "previous" => r2 = Absent
          /\ fin.file = "processed" => p2 = Absent /\ (r2.here => r2.exec)
      BY <1>5, <1>7, <1>12 DEF Files
    <3> QED BY <3>1, <3>2, <1>1, <1>7 DEF AtFinish
  <2>5. AtRestart(c2, p2, r2)'
    <3>1. Recovering(pc, fin)' => bound'.crashes # 0
      <4>1. bound.crashes > 0 => bound.crashes # 0
        BY DEF Types
      <4>2. Recovering(pc, fin)' => fin.next \in {"finishcurrent", "create"}
        BY <1>21
      <4> QED BY <4>1, <4>2, <1>1, <1>5
    <3> QED BY <3>1, <1>1 DEF AtRestart, RestartPcs
  <2> QED BY <2>1, <2>2, <2>3, <2>4, <2>5, <1>1, <1>12 DEF Layout
<1>24. OldOnes'
  <2>1. OldOne(o, bound.signals, bound.crashes)
    <3>1. fin.code = "u" => fin.next \in {"finishcurrent", "create"}
      BY <1>2, <1>21 DEF Control
    <3> QED BY <3>1, <1>4, <1>5, <1>9 DEF OldOne, Rotated
  <2>2. \A i \in 1 .. Len(dir.old) : OldOne(old[i], bound.signals, bound.crashes)
    BY <1>11 DEF OldOnes
  <2>3. \A i \in 1 .. Len(old) : OldOne(old[i], bound.signals, bound.crashes)
    BY <2>1, <2>2, <1>11
  <2>4. Len(old) < Num + bound.crashes + 1
    <3>1. Len(dir.old) < Num + bound.crashes + 0
      BY <1>1 DEF OldOnes
    <3> QED BY <3>1, <1>11 DEF Types, MultilogAssumption
  <2> QED BY <2>3, <2>4, <1>1, <1>12 DEF OldOnes
<1>25. Buffers'
  BY <1>1, <1>21 DEF Buffers
<1>26. Pipe(mem')
  BY <1>1
<1>27. States'
  <2>1. Stopped' <=> Stopped
    BY <1>1, <1>21 DEF Stopped
  <2>2. ~Stopped => Fresh' = Fresh
    <3>1. ~Stopped => c2 = c
      BY <1>5, <1>12, <1>21 DEF Stopped, Files
    <3> QED BY <3>1, <1>0, <1>1, <1>12, <1>21 DEF Fresh
  <2> QED BY <2>1, <2>2, <1>1, <1>12, <1>21 DEF States, PreviousPcs, ProcessedPcs
<1> QED BY <1>19, <1>20, <1>21, <1>22, <1>23, <1>24, <1>25, <1>26, <1>27

LEMMA UnlinkKeeps == ASSUME MultilogAssumption, IInv, Unlink PROVE IInv'
<1> USE DEF IInv
<1>0. PICK c, p, r : c = dir.current /\ p = dir.previous /\ r = dir.processed
  OBVIOUS
<1>1. /\ pc = "unlink" /\ pc' = "filesfit" /\ ret' = ret /\ back' = back /\ fin' = fin
      /\ mem' = mem /\ taken' = taken /\ sigs' = sigs /\ bound' = bound /\ processor' = processor
      /\ dir' = [dir EXCEPT ![fin.file] = Absent]
      /\ log' = log
  BY DEF Unlink, Goto, call, env
<1>2. pc \in FinishPcs /\ pc' \in FinishPcs
  BY <1>1 DEF FinishPcs
<1>3. PICK f : f = dir[fin.file]
  OBVIOUS
<1>4. f.here /\ f.linked
  BY <1>1, <1>2, <1>3 DEF Layout, AtFinish
<1>5. /\ fin.file \in Files
      /\ ~c.exec
      /\ fin.file = "current" => f = c /\ p = Absent /\ r = Absent
      /\ fin.file = "previous" => f = p /\ r = Absent /\ (c = Absent \/ c = Empty)
      /\ fin.file = "processed" => f = r /\ p = Absent /\ r.exec /\ (c = Absent \/ c = Empty)
      /\ fin.next \in {"write", "exitasap"} => fin.file # "current" /\ c = Empty /\ mem.bytes = 0
      /\ fin.next \in {"finishcurrent", "create"} => bound.crashes > 0
  BY <1>0, <1>2, <1>3, <1>4, AtOld
(* The three files after it.                                                *)
<1>6. PICK c2, p2, r2 :
        /\ dir' \in Directory /\ dir'.current = c2 /\ dir'.previous = p2 /\ dir'.processed = r2
        /\ dir'.old = dir.old /\ dir'.state = dir.state /\ dir'.newstate = dir.newstate
        /\ dir'[fin.file] = Absent
        /\ fin.file = "current" => c2 = Absent /\ p2 = p /\ r2 = r
        /\ fin.file = "previous" => c2 = c /\ p2 = Absent /\ r2 = r
        /\ fin.file = "processed" => c2 = c /\ p2 = p /\ r2 = Absent
  <2>2. CASE fin.file = "current"
    <3>1. dir' = [dir EXCEPT !.current = Absent]
      BY <1>1, <2>2
    <3>2. dir' \in Directory
      BY <3>1, AbsentFile, DirectoryIs DEF Directory
    <3> QED BY <3>1, <3>2, <2>2, <1>0, DirectoryIs DEF Directory
  <2>3. CASE fin.file = "previous"
    <3>1. dir' = [dir EXCEPT !.previous = Absent]
      BY <1>1, <2>3
    <3>2. dir' \in Directory
      BY <3>1, AbsentFile, DirectoryIs DEF Directory
    <3> QED BY <3>1, <3>2, <2>3, <1>0, DirectoryIs DEF Directory
  <2>4. CASE fin.file = "processed"
    <3>1. dir' = [dir EXCEPT !.processed = Absent]
      BY <1>1, <2>4
    <3>2. dir' \in Directory
      BY <3>1, AbsentFile, DirectoryIs DEF Directory
    <3> QED BY <3>1, <3>2, <2>4, <1>0, DirectoryIs DEF Directory
  <2> QED BY <2>2, <2>3, <2>4, <1>5 DEF Files
<1>7. /\ Data(f) = {} /\ Safe(f) = {} /\ Data(Absent) = {} /\ Safe(Absent) = {}
      /\ ~Absent.exec /\ ~Absent.here /\ ~Absent.linked /\ Absent.data = <<>>
  BY <1>4, AbsentFile DEF Data, Safe
<1>8. /\ Data(Mid(p, r)) = {} /\ Data(c) = {} /\ Data(Mid(p2, r2)) = {} /\ Data(c2) = {}
      /\ Safe(Mid(p, r)) = {} /\ Safe(c) = {} /\ Safe(Mid(p2, r2)) = {} /\ Safe(c2) = {}
  <2>1. Data(Empty) = {} /\ Safe(Empty) = {}
    BY AbsentFile
  <2>2. CASE fin.file = "current"
    <3>1. Mid(p, r) = Absent /\ Mid(p2, r2) = Absent
      BY <2>2, <1>5, <1>6, <1>7 DEF Mid
    <3> QED BY <3>1, <2>2, <1>5, <1>6, <1>7
  <2>3. CASE fin.file = "previous"
    <3>1. Mid(p, r) = f /\ Mid(p2, r2) = Absent
      BY <2>3, <1>5, <1>6, <1>7 DEF Mid
    <3> QED BY <3>1, <2>1, <2>3, <1>5, <1>6, <1>7
  <2>4. CASE fin.file = "processed"
    <3>1. Mid(p, r) = f /\ Mid(p2, r2) = Absent
      BY <2>4, <1>5, <1>6, <1>7 DEF Mid
    <3> QED BY <3>1, <2>1, <2>4, <1>5, <1>6, <1>7
  <2> QED BY <2>2, <2>3, <2>4, <1>5 DEF Files
<1>9. PICK X : X = {}
  OBVIOUS
<1>10. Disk(dir') = Disk(dir) /\ Platter(dir') = Platter(dir) \cup X
  BY <1>0, <1>6, <1>8, <1>9, SameUnion
<1>11. Ordered(dir')
  <2>1. {c2.data, p2.data, r2.data} \subseteq {c.data, p.data, r.data, <<>>}
    BY <1>5, <1>6, <1>7 DEF Files
  <2> QED BY <2>1, <1>0, <1>6, <1>8, SameOrder
<1>12. Bounds(dir', mem', log', taken') /\ Fates(dir', mem', log', taken')
  <2>1. {dir'.state, dir'.newstate} \subseteq {dir.state, dir.newstate, 0} \cup Past(dir, log)
    BY <1>6
  <2>2. X \subseteq Disk(dir) /\ log'.safe = log.safe \cup X
    BY <1>1, <1>9
  <2>3. IInv
    OBVIOUS
  <2> QED BY <2>1, <2>2, <2>3, <1>1, <1>10, SameDisk
<1>13. /\ Control' /\ Caller' = Caller /\ (InWrite(pc, back, fin)' <=> InWrite(pc, back, fin))
       /\ (Recovering(pc, fin)' <=> Recovering(pc, fin)) /\ (Rotating(pc, fin)' => Rotating(pc, fin))
       /\ (Rotating(pc, fin) <=> fin.next \in {"write", "exitasap"})
       /\ (Recovering(pc, fin) <=> fin.next \in {"finishcurrent", "create"})
       /\ pc \notin PreviousPcs \cup ProcessedPcs /\ pc' \notin PreviousPcs \cup ProcessedPcs
       /\ fin.next \in {"write", "exitasap", "finishcurrent", "create"}
  BY <1>1, <1>2, FinishControl
<1>14. Types'
  BY <1>1, <1>6 DEF Types
<1>15. Layout'
  <2>1. Recoverable(c2, p2, r2, bound.signals)
    <3>1. Recoverable(c, p, r, bound.signals)
      BY <1>0 DEF Layout
    <3>2. Len(Absent.data) <= Size
      BY AbsentFile DEF MultilogAssumption
    <3>3. CASE fin.file = "current"
      BY <3>1, <3>2, <3>3, <1>5, <1>6, <1>7 DEF Recoverable
    <3>4. CASE fin.file = "previous"
      BY <3>1, <3>2, <3>4, <1>5, <1>6, <1>7 DEF Recoverable
    <3>5. CASE fin.file = "processed"
      BY <3>1, <3>2, <3>5, <1>5, <1>6, <1>7 DEF Recoverable
    <3> QED BY <3>3, <3>4, <3>5, <1>5 DEF Files
  <2>2. AtCurrent(c2, p2, r2)'
    BY <1>1 DEF AtCurrent, CurrentPcs, DoitPcs
  <2>3. AtPrevious(c2, p2, r2)'
    <3>1. fin.next \in {"write", "exitasap"} => c2 = Empty
      BY <1>5, <1>6 DEF Files
    <3> QED BY <3>1, <1>1, <1>5, <1>13 DEF AtPrevious
  <2>4. AtFinish(c2, p2, r2)'
    <3>1. fin'.file = fin.file /\ dir'[fin'.file] = Absent
      BY <1>1, <1>6
    <3>2. /\ ~c2.exec
          /\ fin.file = "current" => p2 = Absent /\ r2 = Absent
          /\ fin.file = "previous" => r2 = Absent
          /\ fin.file = "processed" => p2 = Absent /\ (r2.here => r2.exec)
      BY <1>5, <1>6, <1>7 DEF Files
    <3> QED BY <3>1, <3>2, <1>1 DEF AtFinish
  <2>5. AtRestart(c2, p2, r2)'
    <3>1. Recovering(pc, fin)' => bound'.crashes # 0
      <4>1. bound.crashes > 0 => bound.crashes # 0
        BY DEF Types
      <4>2. Recovering(pc, fin)' => fin.next \in {"finishcurrent", "create"}
        BY <1>13
      <4> QED BY <4>1, <4>2, <1>1, <1>5
    <3> QED BY <3>1, <1>1 DEF AtRestart, RestartPcs
  <2> QED BY <2>1, <2>2, <2>3, <2>4, <2>5, <1>1, <1>6 DEF Layout
<1>16. OldOnes'
  BY <1>1, <1>6 DEF OldOnes
<1>17. Buffers'
  BY <1>1, <1>13 DEF Buffers
<1>18. Pipe(mem')
  BY <1>1
<1>19. States'
  <2>1. Stopped' <=> Stopped
    BY <1>1, <1>13 DEF Stopped
  <2>2. Fresh' = Fresh
    BY <1>0, <1>1, <1>6, <1>8, <1>13 DEF Fresh
  <2> QED BY <2>1, <2>2, <1>1, <1>6, <1>13 DEF States, PreviousPcs, ProcessedPcs
<1> QED BY <1>11, <1>12, <1>13, <1>14, <1>15, <1>16, <1>17, <1>18, <1>19

(* Where finish() returns to.                                               *)
LEMMA ReturnKeeps ==
  ASSUME MultilogAssumption, IInv, FilesFit, Fits
  PROVE  IInv'
<1> USE DEF IInv
<1>0. PICK c, p, r : c = dir.current /\ p = dir.previous /\ r = dir.processed
  OBVIOUS
<1>1. /\ pc = "filesfit" /\ pc' = fin.next /\ ret' = ret /\ back' = back /\ fin' = fin
      /\ mem' = mem /\ taken' = taken /\ sigs' = sigs /\ bound' = bound /\ processor' = processor
      /\ dir' = dir /\ log' = log /\ Len(dir.old) < Num
  BY DEF FilesFit, Fits, Return, Goto, call, env
<1>2. pc \in FinishPcs
  BY <1>1 DEF FinishPcs
<1>3. /\ Control' /\ Caller' = Caller /\ (InWrite(pc, back, fin)' <=> InWrite(pc, back, fin))
      /\ (Recovering(pc, fin)' <=> Recovering(pc, fin)) /\ (Rotating(pc, fin)' => Rotating(pc, fin))
      /\ (Rotating(pc, fin) <=> fin.next \in {"write", "exitasap"})
      /\ (Recovering(pc, fin) <=> fin.next \in {"finishcurrent", "create"})
      /\ pc \notin RotatePcs \cup {"gone"} /\ pc' \notin RotatePcs \cup {"gone"}
      /\ pc \notin PreviousPcs \cup ProcessedPcs /\ pc' \notin PreviousPcs \cup ProcessedPcs
      /\ fin.next \in {"write", "exitasap", "finishcurrent", "create"}
  BY <1>1, <1>2, FinishControl
<1>4. /\ ~c.exec /\ dir[fin.file] = Absent
      /\ fin.file = "current" => p = Absent /\ r = Absent
      /\ fin.file = "previous" => r = Absent
      /\ fin.file = "processed" => p = Absent /\ (r.here => r.exec)
  BY <1>0, <1>1, <1>2 DEF Layout, AtFinish
<1>5. /\ fin.next \in {"write", "exitasap"} => c = Empty /\ mem.bytes = 0 /\ p = Absent /\ r = Absent
      /\ fin.next = "finishcurrent" => p = Absent /\ r = Absent
      /\ fin.next = "create" => c = Absent /\ p = Absent /\ r = Absent
  <2>1. fin.next \in {"write", "exitasap"} => c = Empty /\ mem.bytes = 0
    BY <1>0, <1>1, <1>3 DEF Layout, AtPrevious
  <2>2. /\ fin.next \in {"write", "exitasap"} => fin.file \in {"previous", "processed"}
        /\ fin.next = "finishcurrent" => fin.file \in {"previous", "processed"}
        /\ fin.next = "create" => fin.file = "current"
    BY <1>2 DEF Control
  <2>3. fin.file = "previous" => p = Absent
    BY <1>0, <1>4
  <2>4. fin.file = "processed" => r = Absent
    BY <1>0, <1>4
  <2>5. fin.file = "current" => c = Absent
    BY <1>0, <1>4
  <2> QED BY <2>1, <2>2, <2>3, <2>4, <2>5, <1>4
<1>6. Types'
  BY <1>1 DEF Types
<1>7. Layout'
  <2>1. Recoverable(c, p, r, bound.signals)
    BY <1>0 DEF Layout
  <2>2. AtCurrent(c, p, r)'
    BY <1>1, <1>3, <1>5, AbsentFile DEF AtCurrent, CurrentPcs, DoitPcs
  <2>3. AtPrevious(c, p, r)'
    <3>1. pc' \notin {"open", "processor", "syncprocessed", "markprocessed", "renamestate"}
      BY <1>1, <1>3
    <3> QED BY <3>1, <1>1, <1>3, <1>5 DEF AtPrevious
  <2>4. AtFinish(c, p, r)'
    BY <1>1, <1>3 DEF AtFinish, FinishPcs
  <2>5. AtRestart(c, p, r)'
    <3>1. bound.crashes = 0 /\ Recovering(pc, fin) => c = Absent /\ p = Absent /\ r = Absent
      BY <1>0 DEF Layout, AtRestart
    <3> QED BY <3>1, <1>1, <1>3, <1>4, <1>5 DEF AtRestart, RestartPcs
  <2> QED BY <2>1, <2>2, <2>3, <2>4, <2>5, <1>0, <1>1 DEF Layout
<1>8. OldOnes'
  <2>1. pc' \notin {"unlink", "filesfit"}
    BY <1>1, <1>3
  <2>2. Len(dir.old) < Num + bound.crashes + 0
    <3>1. dir.old \in Seq(SoundOld)
      BY DirectoryIs
    <3> QED BY <3>1, <1>1, LenProperties DEF Types, MultilogAssumption
  <2> QED BY <2>1, <2>2, <1>1 DEF OldOnes
<1>9. Buffers'
  BY <1>1, <1>3 DEF Buffers
<1>10. Ordered(dir') /\ Bounds(dir', mem', log', taken') /\ Fates(dir', mem', log', taken') /\ Pipe(mem')
  BY <1>1
<1>11. States'
  <2>1. (Stopped' <=> Stopped) /\ Fresh' = Fresh
    BY <1>1, <1>3 DEF Stopped, Fresh
  <2> QED BY <2>1, <1>1, <1>3 DEF States, PreviousPcs, ProcessedPcs
<1> QED BY <1>3, <1>6, <1>7, <1>8, <1>9, <1>10, <1>11

(* The oldest file goes.                                                    *)
LEMMA OldestGoes ==
  ASSUME MultilogAssumption, IInv, FilesFit, ~Fits
  PROVE  IInv'
<1> USE DEF IInv
<1>1. /\ pc = "filesfit" /\ pc' = pc /\ ret' = ret /\ back' = back /\ fin' = fin
      /\ mem' = mem /\ taken' = taken /\ sigs' = sigs /\ bound' = bound /\ processor' = processor
      /\ dir' = [dir EXCEPT !.old = Tail(dir.old)]
      /\ log' = [log EXCEPT !.removed = @ \cup Elements(Head(dir.old).data)]
      /\ ~(Len(dir.old) < Num)
  BY DEF FilesFit, Fits, Return, Goto, call, env
<1>2. PICK q \in Seq(SoundOld) : q = dir.old
  BY DirectoryIs
<1>3. q # <<>>
  BY <1>1, <1>2, NoTokens DEF MultilogAssumption
<1>4. PICK o, old : o = Head(q) /\ old = Tail(q)
  OBVIOUS
<1>5. /\ o \in SoundOld /\ old \in Seq(SoundOld)
      /\ Len(old) = Len(q) - 1 /\ Len(q) \in Nat
      /\ \A i \in 1 .. Len(q) - 1 : old[i] = q[i + 1]
      /\ Datas(q) \in Seq(Seq(Tokens)) /\ SafeDatas(q) \in Seq(Seq(Tokens))
      /\ Datas(q) # <<>> /\ SafeDatas(q) # <<>>
      /\ Datas(old) = Tail(Datas(q)) /\ SafeDatas(old) = Tail(SafeDatas(q))
      /\ Head(Datas(q)) = o.data /\ Head(SafeDatas(q)) = SafeData(o)
      /\ Elements(SafeData(o)) \subseteq Elements(o.data)
      /\ Elements(o.data) \subseteq Tokens
  BY <1>3, <1>4, OldRest
<1>6. PICK E : E = Elements(o.data)
  OBVIOUS
<1>7. /\ dir' \in Directory /\ dir'.current = dir.current /\ dir'.previous = dir.previous
      /\ dir'.processed = dir.processed
      /\ dir'.old = old /\ dir'.state = dir.state /\ dir'.newstate = dir.newstate
  <2>1. dir' = [dir EXCEPT !.old = old]
    BY <1>1, <1>2, <1>4
  <2> QED BY <2>1, <1>5, DirectoryIs DEF Directory
<1>8. /\ log' \in Log /\ log'.written = log.written /\ log'.safe = log.safe
      /\ log'.lost = log.lost /\ log'.removed = log.removed \cup E
  <2>1. log' = [log EXCEPT !.removed = log.removed \cup E]
    BY <1>1, <1>2, <1>4, <1>6
  <2>2. log \in Log /\ E \subseteq Tokens
    BY <1>5, <1>6 DEF Types
  <2> QED BY <2>1, <2>2 DEF Log
<1>9. /\ AllOf(Datas(q)) = E \cup AllOf(Datas(old))
      /\ Ranked(Datas(old)) /\ Below(E, AllOf(Datas(old)))
  <2>1. Ranked(Datas(q))
    BY <1>2 DEF Ordered
  <2> QED BY <2>1, <1>5, <1>6, RankedRest
<1>10. AllOf(SafeDatas(q)) = Elements(SafeData(o)) \cup AllOf(SafeDatas(old))
  BY <1>5, RankedRest
<1>11. PICK R, S : /\ R = Data(Mid(dir.previous, dir.processed)) \cup Data(dir.current)
                   /\ S = Safe(Mid(dir.previous, dir.processed)) \cup Safe(dir.current)
  OBVIOUS
<1>12. /\ Disk(dir) = E \cup AllOf(Datas(old)) \cup R /\ Disk(dir') = AllOf(Datas(old)) \cup R
       /\ Platter(dir) = Elements(SafeData(o)) \cup AllOf(SafeDatas(old)) \cup S
       /\ Platter(dir') = AllOf(SafeDatas(old)) \cup S
  <2>1. Disk(dir) = AllOf(Datas(q)) \cup R /\ Platter(dir) = AllOf(SafeDatas(q)) \cup S
    BY <1>2, <1>11 DEF Disk, Platter
  <2>2. Disk(dir') = AllOf(Datas(old)) \cup R /\ Platter(dir') = AllOf(SafeDatas(old)) \cup S
    BY <1>7, <1>11 DEF Disk, Platter
  <2> QED BY <2>1, <2>2, <1>9, <1>10
<1>13. /\ Disk(dir) = E \cup Disk(dir') /\ Platter(dir') \subseteq Platter(dir)
       /\ Platter(dir) \subseteq E \cup Platter(dir')
  BY <1>5, <1>6, <1>12
<1>14. Below(AllOf(Datas(q)), R)
  BY <1>2, <1>11 DEF Ordered
<1>15. Below(E, Disk(dir'))
  BY <1>9, <1>12, <1>14 DEF Below
<1>16. Ordered(dir')
  <2>1. Below(AllOf(Datas(old)), R)
    BY <1>9, <1>14 DEF Below
  <2> QED BY <2>1, <1>7, <1>9, <1>11 DEF Ordered
<1>17. Past(dir', log') = Past(dir, log)
  BY <1>8, <1>13 DEF Past
<1>18. Bounds(dir', mem', log', taken')
  <2>1. Below(log'.removed, Disk(dir'))
    <3>1. Below(log.removed, Disk(dir'))
      BY <1>13 DEF Bounds, Below
    <3> QED BY <3>1, <1>8, <1>15 DEF Below
  <2> QED BY <2>1, <1>1, <1>7, <1>8, <1>17 DEF Bounds
<1>19. Fates(dir', mem', log', taken')
  BY <1>1, <1>8, <1>13, <1>17 DEF Fates
<1>20. Types'
  BY <1>1, <1>7, <1>8 DEF Types
<1>21. Control' /\ Caller' = Caller /\ Buffers' /\ Pipe(mem')
  BY <1>1 DEF Control, Caller, Buffers
<1>22. Layout'
  <2>1. pc' \notin CurrentPcs \cup RestartPcs
    BY <1>1 DEF CurrentPcs, DoitPcs, RestartPcs
  <2>2. AtFinish(dir.current, dir.previous, dir.processed)'
    <3>1. dir'[fin'.file] = dir[fin.file]
      BY <1>1, <1>7 DEF Control, Files
    <3> QED BY <3>1, <1>1, <1>7 DEF Layout, AtFinish
  <2> QED BY <2>1, <2>2, <1>1, <1>7 DEF Layout, AtCurrent, AtPrevious, AtRestart
<1>23. OldOnes'
  <2>1. ASSUME NEW i \in 1 .. Len(old) PROVE OldOne(old[i], bound.signals, bound.crashes)
    <3>1. i + 1 \in 1 .. Len(q) /\ old[i] = q[i + 1]
      BY <1>5
    <3> QED BY <3>1, <1>2 DEF OldOnes
  <2>2. Len(old) < Num + bound.crashes + 1
    <3>1. Len(q) < Num + bound.crashes + 1
      BY <1>1, <1>2 DEF OldOnes
    <3> QED BY <3>1, <1>5 DEF Types, MultilogAssumption
  <2> QED BY <2>1, <2>2, <1>1, <1>7 DEF OldOnes
<1>24. States'
  <2>1. (Stopped' <=> Stopped) /\ Fresh' = Fresh
    BY <1>1, <1>7 DEF Stopped, Fresh
  <2> QED BY <2>1, <1>1, <1>7 DEF States
<1> QED BY <1>16, <1>18, <1>19, <1>20, <1>21, <1>22, <1>23, <1>24

LEMMA FilesFitKeeps == ASSUME MultilogAssumption, IInv, FilesFit PROVE IInv'
  BY ReturnKeeps, OldestGoes

-----------------------------------------------------------------------------
(* The end of multilog, and restart().                                      *)

LEMMA SyncQuitKeeps == ASSUME MultilogAssumption, IInv, SyncQuit PROVE IInv'
<1> USE DEF IInv
<1>0. PICK c, p, r : c = dir.current /\ p = dir.previous /\ r = dir.processed
  OBVIOUS
<1>1. /\ pc = "syncquit" /\ pc' = "markquit" /\ ret' = ret /\ back' = back /\ fin' = fin
      /\ mem' = mem /\ taken' = taken /\ sigs' = sigs /\ bound' = bound /\ processor' = processor
      /\ dir' = [dir EXCEPT !.current.synced = Len(dir.current.data)]
      /\ log' = [log EXCEPT !.safe = @ \cup Elements(dir.current.data)]
  BY DEF SyncQuit, Synced, Goto, call, env
<1>2. /\ Caller = pc /\ ~InWrite(pc, back, fin) /\ Caller' = pc' /\ ~InWrite(pc, back, fin)'
      /\ Control' /\ pc \in CurrentPcs /\ pc' \in CurrentPcs \ {"rename", "fsync"}
  <2>1. pc \in DoitPcs /\ pc' \in DoitPcs
    BY <1>1 DEF DoitPcs
  <2> QED BY <2>1, <1>1, InDoit
<1>3. /\ pc \notin PreviousPcs \cup ProcessedPcs /\ pc' \notin PreviousPcs \cup ProcessedPcs
      /\ pc' \notin FinishPcs \cup RestartPcs
      /\ ~Rotating(pc, fin)' /\ ~Recovering(pc, fin)' /\ ~Stopped /\ ~Stopped'
  BY <1>1 DEF PreviousPcs, ProcessedPcs, FinishPcs, RestartPcs, RotatePcs, Rotating, Recovering, Stopped
<1>4. c \in SoundFile /\ c.here /\ ~c.exec /\ ~c.linked /\ p = Absent /\ r = Absent /\ mem.bytes = Len(c.data)
  BY <1>0, <1>2, DirectoryIs DEF Layout, AtCurrent
<1>5. PICK d : d = [c EXCEPT !.synced = Len(c.data)]
  OBVIOUS
<1>6. /\ d \in SoundFile /\ d.data = c.data /\ d.here = c.here /\ d.exec = c.exec /\ d.linked = c.linked
      /\ d.synced = Len(d.data)
      /\ Data(d) = Data(c) /\ Safe(d) = Data(c) /\ Safe(c) \subseteq Data(c)
  BY <1>4, <1>5, SyncedIs
<1>7. /\ dir' \in Directory /\ dir'.current = d /\ dir'.previous = p /\ dir'.processed = r
      /\ dir'.old = dir.old /\ dir'.state = dir.state /\ dir'.newstate = dir.newstate
  <2>1. dir' = [dir EXCEPT !.current = d]
    BY <1>0, <1>1, <1>5
  <2> QED BY <2>1, <1>0, <1>6, DirectoryIs DEF Directory
<1>8. PICK X : X = Data(c)
  OBVIOUS
<1>9. X = Elements(c.data) /\ X \subseteq Disk(dir)
  BY <1>0, <1>4, <1>8 DEF Data, Disk
<1>10. /\ log' \in Log /\ log'.written = log.written /\ log'.safe = log.safe \cup X
       /\ log'.lost = log.lost /\ log'.removed = log.removed
  <2>1. log \in Log /\ X \subseteq Tokens
    <3>1. Elements(c.data) \subseteq Tokens
      BY <1>4, FileIs, ElementsAre
    <3> QED BY <3>1, <1>9 DEF Types
  <2>2. log' = [log EXCEPT !.safe = log.safe \cup X]
    BY <1>0, <1>1, <1>9
  <2> QED BY <2>1, <2>2 DEF Log
<1>11. Disk(dir') = Disk(dir) /\ Platter(dir') = Platter(dir) \cup X
  BY <1>0, <1>6, <1>7, <1>8, SameUnion
<1>12. Ordered(dir')
  BY <1>0, <1>6, <1>7, SameOrder
<1>13. Bounds(dir', mem', log', taken') /\ Fates(dir', mem', log', taken')
  <2>1. {dir'.state, dir'.newstate} \subseteq {dir.state, dir.newstate, 0} \cup Past(dir, log)
    BY <1>7
  <2>2. IInv
    OBVIOUS
  <2> QED BY <2>1, <2>2, <1>1, <1>9, <1>10, <1>11, SameDisk
<1>14. Types'
  BY <1>1, <1>7, <1>10 DEF Types
<1>15. Layout'
  <2>1. Recoverable(d, p, r, bound.signals)
    <3>1. Recoverable(c, p, r, bound.signals)
      BY <1>0 DEF Layout
    <3> QED BY <3>1, <1>4, <1>6, AbsentFile DEF Recoverable
  <2>2. AtCurrent(d, p, r)'
    BY <1>1, <1>4, <1>6 DEF AtCurrent
  <2>3. AtPrevious(d, p, r)' /\ AtFinish(d, p, r)' /\ AtRestart(d, p, r)'
    BY <1>1, <1>3 DEF AtPrevious, AtFinish, AtRestart, RestartPcs
  <2> QED BY <2>1, <2>2, <2>3, <1>1, <1>7 DEF Layout
<1>16. OldOnes'
  BY <1>1, <1>7 DEF OldOnes
<1>17. Buffers'
  BY <1>1, <1>2 DEF Buffers
<1>18. Pipe(mem')
  BY <1>1
<1>19. States'
  <2>1. Fresh' = Fresh
    BY <1>0, <1>1, <1>3, <1>6, <1>7 DEF Fresh
  <2> QED BY <2>1, <1>1, <1>3, <1>7 DEF States
<1> QED BY <1>2, <1>12, <1>13, <1>14, <1>15, <1>16, <1>17, <1>18, <1>19

(* The memory of a multilog that is not there.                              *)
LEMMA BlankIs ==
  ASSUME MultilogAssumption, NEW m, Blank(m), m.bytes \in 0 .. Size
  PROVE  /\ m \in Memory /\ m.ss = <<>> /\ m.out = <<>> /\ m.todo = <<>> /\ m.line = <<>> /\ m.inbuf = <<>>
         /\ ~m.long /\ ~m.eof /\ m.flagnewline /\ ~m.flagforcerotate
         /\ Len(m.ss) <= OutBuf /\ Len(m.line) < MaxLine
         /\ In(m) = {} /\ Pipe(m)
<1>1. PICK none : none = <<>>
  OBVIOUS
<1>2. PICK n \in 0 .. Size : n = m.bytes
  OBVIOUS
<1>3. m = [ss |-> none, out |-> none, todo |-> none, inbuf |-> none, line |-> none,
           long |-> FALSE, eof |-> FALSE, flagnewline |-> TRUE, one |-> FALSE,
           flagexitasap |-> FALSE, flagforcerotate |-> FALSE, bytes |-> n]
  BY <1>1, <1>2 DEF Blank, NoMemory
<1>4. none \in Seq(Tokens) /\ none \in Seq(Seq(Tokens)) /\ Len(none) = 0
  BY <1>1, NoTokens
<1>5. /\ m \in Memory /\ m.ss = none /\ m.out = none /\ m.todo = none /\ m.line = none /\ m.inbuf = none
      /\ ~m.long /\ ~m.eof /\ m.flagnewline /\ ~m.flagforcerotate
  BY <1>3, <1>4 DEF Memory
<1>6. Elements(none) = {} /\ Ascending(none) /\ AllOf(none) = {} /\ Ranked(none)
  BY <1>1, NoElements
<1>7. In(m) = {} /\ Pipe(m)
  BY <1>5, <1>6 DEF In, Pipe, Below
<1>8. Len(none) <= OutBuf /\ Len(none) < MaxLine
  BY <1>4 DEF MultilogAssumption
<1> QED BY <1>1, <1>5, <1>7, <1>8

LEMMA NoMemoryIs == Blank(NoMemory) /\ NoMemory.bytes = 0
  BY DEF Blank, NoMemory

LEMMA BlankAgain ==
  ASSUME NEW m, Blank(m), NEW n, NEW k, k = [m EXCEPT !.bytes = n]
  PROVE  Blank(k) /\ k.bytes = n
  BY DEF Blank, NoMemory

LEMMA MarkQuitKeeps == ASSUME MultilogAssumption, IInv, MarkQuit PROVE IInv'
<1> USE DEF IInv
<1>0. PICK c, p, r : c = dir.current /\ p = dir.previous /\ r = dir.processed
  OBVIOUS
<1>1. /\ pc = "markquit" /\ pc' = "gone" /\ ret' = ret /\ back' = back /\ fin' = fin
      /\ mem' = NoMemory /\ taken' = taken /\ sigs' = {} /\ bound' = bound /\ processor' = processor
      /\ dir' = [dir EXCEPT !.current.exec = TRUE] /\ log' = log
  BY DEF MarkQuit, Goto, call
<1>2. /\ Caller = pc /\ ~InWrite(pc, back, fin) /\ Caller' = pc' /\ ~InWrite(pc, back, fin)'
      /\ ~Rotating(pc, fin)' /\ ~Recovering(pc, fin)' /\ ~Recovering(pc, fin) /\ pc \in CurrentPcs
  <2>1. pc \in DoitPcs
    BY <1>1 DEF DoitPcs
  <2>2. Caller = pc /\ ~InWrite(pc, back, fin) /\ ~Recovering(pc, fin)
    BY <2>1, AtDoit DEF Caller
  <2>3. Caller' = pc' /\ ~InWrite(pc, back, fin)' /\ ~Rotating(pc, fin)' /\ ~Recovering(pc, fin)'
    BY <1>1, AtDoit DEF Caller
  <2> QED BY <2>1, <2>2, <2>3 DEF CurrentPcs
<1>3. /\ pc' \notin FinishPcs \cup RestartPcs \cup CurrentPcs
      /\ pc \notin PreviousPcs \cup ProcessedPcs /\ pc' \notin PreviousPcs \cup ProcessedPcs
  BY <1>1 DEF PreviousPcs, ProcessedPcs, FinishPcs, RestartPcs, CurrentPcs, DoitPcs
<1>4. /\ c \in SoundFile /\ c.here /\ ~c.exec /\ ~c.linked /\ p = Absent /\ r = Absent
      /\ c.synced = Len(c.data)
  BY <1>0, <1>1, <1>2, DirectoryIs DEF Layout, AtCurrent
<1>5. PICK d : d = [c EXCEPT !.exec = TRUE]
  OBVIOUS
<1>6. /\ d \in SoundFile /\ d.data = c.data /\ d.here = c.here /\ d.exec = TRUE /\ d.linked = c.linked
      /\ d.synced = c.synced
      /\ Data(d) = Data(c) /\ Safe(d) = Safe(c)
  BY <1>4, <1>5, MarkedIs
<1>7. /\ dir' \in Directory /\ dir'.current = d /\ dir'.previous = p /\ dir'.processed = r
      /\ dir'.old = dir.old /\ dir'.state = dir.state /\ dir'.newstate = dir.newstate
  <2>1. dir' = [dir EXCEPT !.current = d]
    BY <1>0, <1>1, <1>5
  <2> QED BY <2>1, <1>0, <1>6, DirectoryIs DEF Directory
<1>8. PICK X : X = {}
  OBVIOUS
<1>9. Disk(dir') = Disk(dir) /\ Platter(dir') = Platter(dir) \cup X
  BY <1>0, <1>6, <1>7, <1>8, SameUnion
<1>10. Ordered(dir')
  BY <1>0, <1>6, <1>7, SameOrder
<1>11. /\ mem.ss = <<>> /\ mem.out = <<>> /\ mem.todo = <<>> /\ mem.line = <<>> /\ mem.inbuf = <<>>
  BY <1>1, <1>2 DEF Buffers
<1>12. 0 \in 0 .. Size
  BY DEF MultilogAssumption
<1>13. /\ mem' \in Memory /\ mem'.ss = <<>> /\ mem'.out = <<>> /\ mem'.todo = <<>> /\ mem'.line = <<>> /\ mem'.inbuf = <<>>
       /\ ~mem'.long /\ ~mem'.eof /\ mem'.flagnewline /\ ~mem'.flagforcerotate
       /\ Len(mem'.ss) <= OutBuf /\ Len(mem'.line) < MaxLine
       /\ In(mem') = {} /\ Pipe(mem') /\ Blank(mem')
  BY <1>1, <1>12, NoMemoryIs, BlankIs
<1>14. Bounds(dir', mem', log', taken') /\ Fates(dir', mem', log', taken')
  <2>1. {dir'.state, dir'.newstate} \subseteq {dir.state, dir.newstate, 0} \cup Past(dir, log)
    BY <1>7
  <2>2. IInv /\ X \subseteq Disk(dir) /\ log'.safe = log.safe \cup X
    BY <1>1, <1>8
  <2> QED BY <2>1, <2>2, <1>1, <1>9, <1>11, <1>13, SameDisk
<1>15. Types'
  BY <1>1, <1>7, <1>13 DEF Types
<1>16. Control'
  BY <1>1, <1>2, <1>3 DEF Control
<1>17. Layout'
  <2>1. Recoverable(d, p, r, bound.signals)
    <3>1. Recoverable(c, p, r, bound.signals)
      BY <1>0 DEF Layout
    <3> QED BY <3>1, <1>4, <1>6, AbsentFile DEF Recoverable
  <2>2. AtCurrent(d, p, r)'
    BY <1>1, <1>3 DEF AtCurrent
  <2>3. AtPrevious(d, p, r)' /\ AtFinish(d, p, r)'
    BY <1>1, <1>2, <1>3 DEF AtPrevious, AtFinish
  <2>4. AtRestart(d, p, r)'
    BY <1>1, <1>2, <1>3, <1>4, <1>6 DEF AtRestart
  <2> QED BY <2>1, <2>2, <2>3, <2>4, <1>1, <1>7 DEF Layout
<1>18. OldOnes'
  BY <1>1, <1>7 DEF OldOnes
<1>19. Buffers'
  BY <1>1, <1>2, <1>13 DEF Buffers
<1>20. States'
  <2>1. In(mem) = {}
    BY <1>11, NoElements DEF In
  <2>2. Fresh' = Fresh
    BY <2>1, <1>0, <1>3, <1>6, <1>7, <1>13 DEF Fresh
  <2>3. ~Stopped /\ ~Stopped'
    BY <1>1, <1>2, <1>6, <1>7 DEF Stopped
  <2> QED BY <2>2, <2>3, <1>1, <1>2, <1>3, <1>7 DEF States
<1> QED BY <1>10, <1>13, <1>14, <1>15, <1>16, <1>17, <1>18, <1>19, <1>20

LEMMA AtGone ==
  ASSUME MultilogAssumption, IInv, pc \in {"gone"} \cup RestartPcs
  PROVE  /\ Caller = "gone" /\ ~InWrite(pc, back, fin) /\ Blank(mem) /\ mem.bytes \in 0 .. Size /\ In(mem) = {}
         /\ pc \notin PreviousPcs \cup ProcessedPcs
         /\ pc = "gone" => ~Recovering(pc, fin)
         /\ pc # "gone" => Recovering(pc, fin)
<1>1. /\ Caller = "gone" /\ ~InWrite(pc, back, fin)
      /\ pc = "gone" => ~Recovering(pc, fin)
      /\ pc # "gone" => Recovering(pc, fin)
  BY AtDoit, AtRestarting DEF Caller
<1>2. Blank(mem) /\ mem.bytes \in 0 .. Size
  BY <1>1 DEF IInv, Buffers, Types, Memory
<1>3. In(mem) = {}
  BY <1>2, BlankIs
<1>4. pc \notin PreviousPcs \cup ProcessedPcs
  BY DEF RestartPcs, PreviousPcs, ProcessedPcs
<1> QED BY <1>1, <1>2, <1>3, <1>4

LEMMA ResumeKeeps == ASSUME MultilogAssumption, IInv, Resume PROVE IInv'
<1> USE DEF IInv
<1>0. PICK c, p, r : c = dir.current /\ p = dir.previous /\ r = dir.processed
  OBVIOUS
<1>1. /\ pc = "gone" /\ pc' = "doit" /\ ret' = ret /\ back' = back /\ fin' = fin
      /\ mem' = [mem EXCEPT !.bytes = Len(c.data)]
      /\ taken' = taken /\ sigs' = sigs /\ bound' = bound /\ processor' = processor
      /\ dir' = [dir EXCEPT !.current.exec = FALSE] /\ log' = log
      /\ c.here /\ c.exec
  BY <1>0 DEF Resume, Resumable, Goto, call, env
<1>2. /\ Blank(mem) /\ mem.bytes \in 0 .. Size /\ In(mem) = {} /\ ~Recovering(pc, fin)
      /\ pc \notin PreviousPcs \cup ProcessedPcs
  BY <1>1, AtGone
<1>3. /\ Caller' = pc' /\ ~InWrite(pc, back, fin)'
      /\ ~Rotating(pc, fin)' /\ ~Recovering(pc, fin)'
      /\ pc' \notin FinishPcs \cup RestartPcs \cup PreviousPcs \cup ProcessedPcs
      /\ pc' \in DoitPcs
  <2>1. pc' \in DoitPcs
    BY <1>1 DEF DoitPcs
  <2>2. Caller' = pc' /\ ~InWrite(pc, back, fin)' /\ ~Rotating(pc, fin)' /\ ~Recovering(pc, fin)'
    BY <2>1, AtDoit DEF Caller
  <2> QED BY <2>1, <2>2, <1>1 DEF FinishPcs, RestartPcs, PreviousPcs, ProcessedPcs
<1>4. /\ c \in SoundFile /\ ~c.linked /\ p = Absent /\ r = Absent /\ Len(c.data) <= Size /\ Len(c.data) \in Nat
  BY <1>0, <1>1, DirectoryIs, FileIs DEF Layout, Recoverable
<1>5. PICK d : d = [c EXCEPT !.exec = FALSE]
  OBVIOUS
<1>6. /\ d \in SoundFile /\ d.data = c.data /\ d.here = c.here /\ d.exec = FALSE /\ d.linked = c.linked
      /\ d.synced = c.synced
      /\ Data(d) = Data(c) /\ Safe(d) = Safe(c)
  BY <1>4, <1>5, MarkedIs
<1>7. /\ dir' \in Directory /\ dir'.current = d /\ dir'.previous = p /\ dir'.processed = r
      /\ dir'.old = dir.old /\ dir'.state = dir.state /\ dir'.newstate = dir.newstate
  <2>1. dir' = [dir EXCEPT !.current = d]
    BY <1>0, <1>1, <1>5
  <2> QED BY <2>1, <1>0, <1>6, DirectoryIs DEF Directory
<1>8. PICK X : X = {}
  OBVIOUS
<1>9. Disk(dir') = Disk(dir) /\ Platter(dir') = Platter(dir) \cup X
  BY <1>0, <1>6, <1>7, <1>8, SameUnion
<1>10. Ordered(dir')
  BY <1>0, <1>6, <1>7, SameOrder
<1>11. /\ mem.ss = <<>> /\ mem.out = <<>> /\ mem.todo = <<>> /\ mem.line = <<>> /\ mem.inbuf = <<>>
       /\ ~mem.long
  BY <1>2, BlankIs
<1>12. Blank(mem') /\ mem'.bytes = Len(c.data) /\ mem'.bytes \in 0 .. Size
  <2>1. Blank(mem') /\ mem'.bytes = Len(c.data)
    BY <1>1, <1>2, BlankAgain
  <2> QED BY <2>1, <1>4 DEF MultilogAssumption
<1>13. /\ mem' \in Memory /\ mem'.ss = <<>> /\ mem'.out = <<>> /\ mem'.todo = <<>> /\ mem'.line = <<>> /\ mem'.inbuf = <<>>
       /\ ~mem'.long /\ ~mem'.eof /\ mem'.flagnewline /\ ~mem'.flagforcerotate
       /\ Len(mem'.ss) <= OutBuf /\ Len(mem'.line) < MaxLine
       /\ In(mem') = {} /\ Pipe(mem')
  BY <1>12, BlankIs
<1>14. Bounds(dir', mem', log', taken') /\ Fates(dir', mem', log', taken')
  <2>1. {dir'.state, dir'.newstate} \subseteq {dir.state, dir.newstate, 0} \cup Past(dir, log)
    BY <1>7
  <2>2. IInv /\ X \subseteq Disk(dir) /\ log'.safe = log.safe \cup X
    BY <1>1, <1>8
  <2> QED BY <2>1, <2>2, <1>1, <1>9, <1>11, <1>13, SameDisk
<1>15. Types'
  BY <1>1, <1>7, <1>13 DEF Types
<1>16. Control'
  BY <1>1, <1>3 DEF Control
<1>17. Layout'
  <2>1. Recoverable(d, p, r, bound.signals)
    <3>1. Recoverable(c, p, r, bound.signals)
      BY <1>0 DEF Layout
    <3> QED BY <3>1, <1>1, <1>4, <1>6, AbsentFile DEF Recoverable
  <2>2. AtCurrent(d, p, r)'
    BY <1>1, <1>4, <1>6, <1>12 DEF AtCurrent
  <2>3. AtPrevious(d, p, r)' /\ AtFinish(d, p, r)' /\ AtRestart(d, p, r)'
    BY <1>1, <1>3 DEF AtPrevious, AtFinish, AtRestart, RestartPcs
  <2> QED BY <2>1, <2>2, <2>3, <1>1, <1>7 DEF Layout
<1>18. OldOnes'
  BY <1>1, <1>7 DEF OldOnes
<1>19. Buffers'
  BY <1>1, <1>3, <1>13 DEF Buffers
<1>20. States'
  <2>1. Fresh' = Fresh
    BY <1>0, <1>2, <1>3, <1>6, <1>7, <1>13 DEF Fresh
  <2>2. ~Stopped /\ ~Stopped'
    BY <1>0, <1>1, <1>2, <1>3 DEF Stopped
  <2>3. pc' \notin {"syncprocessed", "markprocessed"}
    BY <1>1
  <2> QED BY <2>1, <2>2, <2>3, <1>1, <1>3, <1>7 DEF States
<1> QED BY <1>10, <1>13, <1>14, <1>15, <1>16, <1>17, <1>18, <1>19, <1>20

(* A step of restart().                                                     *)
LEMMA Restarts ==
  ASSUME MultilogAssumption, IInv,
         pc \in {"gone"} \cup RestartPcs, pc = "gone" => ~dir.current.exec,
         \/ pc' \in RestartPcs /\ fin' = fin
         \/ /\ pc' = "stat" /\ fin'.next \in {"finishcurrent", "create"}
            /\ fin' \in [file : Files, code : {"s", "u"}, next : {"write", "exitasap", "finishcurrent", "create"}]
            /\ fin'.next = "finishcurrent" =>
                 \/ fin'.file = "processed" /\ fin'.code = "s"
                 \/ fin'.file = "previous" /\ fin'.code = "u"
            /\ fin'.next = "create" => fin'.file = "current" /\ fin'.code = "u",
         ret' = ret, back' = back, mem' = mem, taken' = taken, sigs' = sigs, bound' = bound,
         processor' = processor, log' = log,
         dir' \in Directory, dir'.old = dir.old, dir'.state = 0, dir'.newstate \in {0, dir.newstate},
         Disk(dir') = Disk(dir), Platter(dir') = Platter(dir), Ordered(dir'),
         Recoverable(dir.current, dir.previous, dir.processed, bound.signals)',
         pc' = "stat" => AtFinish(dir.current, dir.previous, dir.processed)',
         AtRestart(dir.current, dir.previous, dir.processed)'
  PROVE  IInv'
<1> USE DEF IInv
<1>1. /\ Caller = "gone" /\ ~InWrite(pc, back, fin) /\ Blank(mem) /\ mem.bytes \in 0 .. Size /\ In(mem) = {}
      /\ Stopped
  <2>1. /\ Caller = "gone" /\ ~InWrite(pc, back, fin) /\ Blank(mem) /\ mem.bytes \in 0 .. Size /\ In(mem) = {}
        /\ pc # "gone" => Recovering(pc, fin)
    BY AtGone
  <2> QED BY <2>1 DEF Stopped
<1>2. /\ Caller' = "gone" /\ ~InWrite(pc, back, fin)' /\ ~Rotating(pc, fin)' /\ Recovering(pc, fin)'
      /\ pc' \notin {"gone", "write", "markquit", "unlink", "filesfit"} \cup CurrentPcs \cup PreviousPcs \cup ProcessedPcs
  <2>1. CASE pc' \in RestartPcs
    <3>1. Caller' = "gone" /\ ~InWrite(pc, back, fin)' /\ ~Rotating(pc, fin)' /\ Recovering(pc, fin)'
      BY <2>1, AtRestarting DEF Caller
    <3> QED BY <2>1, <3>1 DEF RestartPcs, CurrentPcs, DoitPcs, PreviousPcs, ProcessedPcs
  <2>2. CASE pc' = "stat" /\ fin'.next \in {"finishcurrent", "create"}
    <3>1. pc' \in FinishPcs
      BY <2>2 DEF FinishPcs
    <3>2. Caller' = "gone" /\ ~InWrite(pc, back, fin)' /\ ~Rotating(pc, fin)' /\ Recovering(pc, fin)'
      BY <2>2, <3>1, AtFinishing DEF Caller
    <3> QED BY <2>2, <3>2 DEF CurrentPcs, DoitPcs, PreviousPcs, ProcessedPcs
  <2> QED BY <2>1, <2>2
<1>3. Types'
  BY DEF Types
<1>4. Control'
  <2>1. CASE pc' \in RestartPcs /\ fin' = fin
    <3>1. pc' \notin FinishPcs
      BY <2>1 DEF RestartPcs, FinishPcs
    <3> QED BY <2>1, <3>1, <1>2 DEF Control
  <2>2. CASE ~(pc' \in RestartPcs /\ fin' = fin)
    <3>1. pc' \in FinishPcs /\ ~(fin'.next \in {"write", "exitasap"})
      BY <2>2 DEF FinishPcs
    <3> QED BY <2>2, <3>1, <1>2 DEF Control
  <2> QED BY <2>1, <2>2
<1>5. Layout'
  <2>1. AtCurrent(dir.current, dir.previous, dir.processed)'
    BY <1>2 DEF AtCurrent, CurrentPcs
  <2>2. AtPrevious(dir.current, dir.previous, dir.processed)'
    <3>1. pc' \notin {"open", "processor", "syncprocessed", "markprocessed", "renamestate"}
      BY <1>2 DEF PreviousPcs, ProcessedPcs
    <3> QED BY <3>1, <1>2 DEF AtPrevious
  <2>3. AtFinish(dir.current, dir.previous, dir.processed)'
    <3>1. pc' \in RestartPcs => pc' \notin FinishPcs
      BY DEF RestartPcs, FinishPcs
    <3> QED BY <3>1 DEF AtFinish
  <2> QED BY <2>1, <2>2, <2>3 DEF Layout
<1>6. OldOnes'
  <2>1. pc \notin {"unlink", "filesfit"}
    BY DEF RestartPcs
  <2> QED BY <2>1, <1>2 DEF OldOnes
<1>7. Buffers'
  BY <1>1, <1>2 DEF Buffers
<1>8. Pipe(mem')
  OBVIOUS
<1>9. Bounds(dir', mem', log', taken') /\ Fates(dir', mem', log', taken')
  <2>1. PICK X : X = {}
    OBVIOUS
  <2>2. {dir'.state, dir'.newstate} \subseteq {dir.state, dir.newstate, 0} \cup Past(dir, log)
    OBVIOUS
  <2>3. X \subseteq Disk(dir) /\ log'.safe = log.safe \cup X /\ Platter(dir') = Platter(dir) \cup X
    BY <2>1
  <2> QED BY <2>2, <2>3, SameDisk
<1>10. States'
  <2>1. Stopped'
    BY <1>2 DEF Stopped
  <2>2. pc' \notin {"syncprocessed", "markprocessed"} \cup ProcessedPcs
    BY <1>2 DEF PreviousPcs
  <2> QED BY <2>1, <2>2, <1>1 DEF States
<1> QED BY <1>3, <1>4, <1>5, <1>6, <1>7, <1>8, <1>9, <1>10

LEMMA ForgetStateKeeps == ASSUME MultilogAssumption, IInv, ForgetState PROVE IInv'
<1>0. PICK c, p, r : c = dir.current /\ p = dir.previous /\ r = dir.processed
  OBVIOUS
<1>1. /\ pc = "gone" /\ pc' = "recover" /\ ret' = ret /\ back' = back /\ fin' = fin
      /\ mem' = mem /\ taken' = taken /\ sigs' = sigs /\ bound' = bound /\ processor' = processor
      /\ dir' = [dir EXCEPT !.state = 0, !.newstate = 0] /\ log' = log
      /\ ~(c.here /\ c.exec)
  BY <1>0 DEF ForgetState, Resumable, Goto, call, env
<1>2. Types /\ Layout /\ Ordered(dir)
  BY DEF IInv
<1>3. ~c.exec
  BY <1>0, <1>1, <1>2, AbsentFile DEF Layout, Recoverable
<1>4. /\ dir' \in Directory /\ dir'.current = c /\ dir'.previous = p /\ dir'.processed = r
      /\ dir'.old = dir.old /\ dir'.state = 0 /\ dir'.newstate = 0
  <2>1. \A v, w \in 0 .. EofNewline : [dir EXCEPT !.state = v, !.newstate = w] \in Directory
    BY <1>2, DirectoryIs DEF Directory
  <2>2. 0 \in 0 .. EofNewline
    BY DEF EofNewline, MultilogAssumption
  <2>3. dir' \in Directory
    BY <2>1, <2>2, <1>1
  <2> QED BY <2>3, <1>0, <1>1, <1>2, DirectoryIs DEF Directory
<1>5. Disk(dir') = Disk(dir) /\ Platter(dir') = Platter(dir) /\ Ordered(dir')
  BY <1>0, <1>2, <1>4 DEF Disk, Platter, Ordered
<1>6. pc' \in RestartPcs
  BY <1>1 DEF RestartPcs
<1>7. AtRestart(dir.current, dir.previous, dir.processed)'
  <2>1. bound.crashes = 0 => c = Absent /\ p = Absent /\ r = Absent
    BY <1>0, <1>1, <1>2, <1>3 DEF Layout, AtRestart
  <2> QED BY <2>1, <1>1, <1>3, <1>4 DEF AtRestart
<1>8. Recoverable(dir.current, dir.previous, dir.processed, bound.signals)'
  BY <1>0, <1>1, <1>2, <1>4 DEF Layout
<1> QED BY <1>0, <1>1, <1>3, <1>4, <1>5, <1>6, <1>7, <1>8, Restarts

LEMMA RecoverKeeps == ASSUME MultilogAssumption, IInv, Recover PROVE IInv'
<1>0. PICK c, p, r : c = dir.current /\ p = dir.previous /\ r = dir.processed
  OBVIOUS
<1>1. /\ pc = "recover" /\ pc' = "stat" /\ ret' = ret /\ back' = back
      /\ mem' = mem /\ taken' = taken /\ sigs' = sigs /\ bound' = bound /\ processor' = processor
      /\ log' = log
      /\ \/ /\ r.here /\ r.exec /\ dir' = [dir EXCEPT !.previous = Absent]
            /\ fin' = [file |-> "processed", code |-> "s", next |-> "finishcurrent"]
         \/ /\ ~(r.here /\ r.exec) /\ dir' = [dir EXCEPT !.processed = Absent]
            /\ fin' = [file |-> "previous", code |-> "u", next |-> "finishcurrent"]
  BY <1>0 DEF Recover, FlagProcessed, Finish, env
<1>2. Types /\ Layout /\ Ordered(dir) /\ States /\ pc \in RestartPcs
  BY <1>1 DEF IInv, RestartPcs
<1>3. /\ Recovering(pc, fin)
      /\ fin'.next = "finishcurrent" /\ dir'[fin'.file] \in {dir'.previous, dir'.processed}
  <2>1. Recovering(pc, fin)
    BY <1>2, <1>1, AtGone
  <2>2. CASE fin' = [file |-> "processed", code |-> "s", next |-> "finishcurrent"]
    BY <2>1, <2>2
  <2>3. CASE fin' = [file |-> "previous", code |-> "u", next |-> "finishcurrent"]
    BY <2>1, <2>3
  <2> QED BY <2>2, <2>3, <1>1
<1>4. /\ ~c.exec /\ dir.state = 0 /\ Recoverable(c, p, r, bound.signals)
      /\ bound.crashes = 0 => c = Absent /\ p = Absent /\ r = Absent
  BY <1>0, <1>2, <1>3 DEF Layout, AtRestart, States
<1>5. PICK p2, r2 :
        /\ dir' \in Directory /\ dir'.current = c /\ dir'.previous = p2 /\ dir'.processed = r2
        /\ dir'.old = dir.old /\ dir'.state = dir.state /\ dir'.newstate = dir.newstate
        /\ \/ r.here /\ r.exec /\ p2 = Absent /\ r2 = r /\ fin'.file = "processed" /\ fin'.code = "s"
           \/ ~r.exec /\ p2 = p /\ r2 = Absent /\ fin'.file = "previous" /\ fin'.code = "u"
  <2>1. CASE r.here /\ r.exec
    <3>1. dir' = [dir EXCEPT !.previous = Absent] /\ fin' = [file |-> "processed", code |-> "s", next |-> "finishcurrent"]
      BY <1>1, <2>1
    <3>2. dir' \in Directory
      BY <3>1, <1>2, DirectoryIs, AbsentFile DEF Directory
    <3>3. fin'.file = "processed" /\ fin'.code = "s"
      BY <3>1
    <3> QED BY <3>1, <3>2, <3>3, <2>1, <1>0, <1>2, DirectoryIs DEF Directory
  <2>2. CASE ~(r.here /\ r.exec)
    <3>1. dir' = [dir EXCEPT !.processed = Absent] /\ fin' = [file |-> "previous", code |-> "u", next |-> "finishcurrent"]
      BY <1>1, <2>2
    <3>2. dir' \in Directory
      BY <3>1, <1>2, DirectoryIs, AbsentFile DEF Directory
    <3>3. fin'.file = "previous" /\ fin'.code = "u"
      BY <3>1
    <3>4. ~r.exec
      BY <2>2, <1>4, AbsentFile DEF Recoverable
    <3> QED BY <3>1, <3>2, <3>3, <3>4, <1>0, <1>2, DirectoryIs DEF Directory
  <2> QED BY <2>1, <2>2
<1>6. Mid(p2, r2) = Mid(p, r) /\ Absent.data = <<>>
  BY <1>5, AbsentFile DEF Mid
<1>7. Disk(dir') = Disk(dir) /\ Platter(dir') = Platter(dir) /\ Ordered(dir')
  <2>1. Disk(dir') = Disk(dir) /\ Platter(dir') = Platter(dir)
    BY <1>0, <1>5, <1>6 DEF Disk, Platter
  <2>2. {p2.data, r2.data} \subseteq {p.data, r.data, <<>>}
    BY <1>5, <1>6
  <2> QED BY <2>1, <2>2, <1>0, <1>2, <1>5, <1>6, SameOrder
<1>8. Recoverable(c, p2, r2, bound.signals)
  BY <1>4, <1>5, AbsentFile DEF Recoverable, MultilogAssumption
<1>9. AtFinish(c, p2, r2)'
  <2>1. fin'.file = "processed" => r.exec /\ dir'[fin'.file] = r /\ Rotated(r, bound.signals)
    BY <1>4, <1>5 DEF Recoverable
  <2>2. bound' = bound /\ fin'.next = "finishcurrent" /\ pc' = "stat"
    BY <1>1, <1>3
  <2>3. /\ fin'.file = "processed" => p2 = Absent /\ r2.exec
        /\ fin'.file = "previous" => r2 = Absent /\ fin'.code = "u"
        /\ fin'.file # "current"
    BY <1>5
  <2>4. fin'.file = "processed" \/ fin'.file = "previous"
    BY <1>5
  <2> QED BY <2>1, <2>2, <2>3, <2>4, <1>4 DEF AtFinish
<1>10. AtRestart(c, p2, r2)'
  BY <1>1, <1>4, <1>5 DEF AtRestart, RestartPcs
<1>11. /\ pc' = "stat" /\ fin'.next \in {"finishcurrent", "create"}
       /\ fin' \in [file : Files, code : {"s", "u"}, next : {"write", "exitasap", "finishcurrent", "create"}]
       /\ fin'.next = "finishcurrent" =>
            \/ fin'.file = "processed" /\ fin'.code = "s"
            \/ fin'.file = "previous" /\ fin'.code = "u"
       /\ fin'.next # "create"
  <2>1. fin' \in [file : Files, code : {"s", "u"}, next : {"write", "exitasap", "finishcurrent", "create"}]
    BY <1>1 DEF Files
  <2> QED BY <2>1, <1>1, <1>3, <1>5
<1>12. /\ Recoverable(dir.current, dir.previous, dir.processed, bound.signals)'
       /\ AtFinish(dir.current, dir.previous, dir.processed)'
       /\ AtRestart(dir.current, dir.previous, dir.processed)'
  BY <1>1, <1>5, <1>8, <1>9, <1>10
<1>13. pc # "gone" /\ dir'.state = 0 /\ dir'.newstate \in {0, dir.newstate}
  BY <1>1, <1>4, <1>5
<1> QED BY <1>1, <1>2, <1>5, <1>7, <1>11, <1>12, <1>13, Restarts

LEMMA FinishCurrentKeeps == ASSUME MultilogAssumption, IInv, FinishCurrent PROVE IInv'
<1>0. PICK c, p, r : c = dir.current /\ p = dir.previous /\ r = dir.processed
  OBVIOUS
<1>1. /\ pc = "finishcurrent" /\ pc' = "stat" /\ ret' = ret /\ back' = back
      /\ mem' = mem /\ taken' = taken /\ sigs' = sigs /\ bound' = bound /\ processor' = processor
      /\ log' = log /\ dir' = dir
      /\ fin' = [file |-> "current", code |-> "u", next |-> "create"]
  BY DEF FinishCurrent, Finish, env
<1>2. Types /\ Layout /\ Ordered(dir) /\ States /\ pc \in RestartPcs
  BY <1>1 DEF IInv, RestartPcs
<1>3. Recovering(pc, fin) /\ fin'.file = "current" /\ fin'.code = "u" /\ fin'.next = "create"
  <2>1. Recovering(pc, fin)
    BY <1>2, <1>1, AtGone
  <2> QED BY <2>1, <1>1
<1>4. /\ ~c.exec /\ dir.state = 0 /\ p = Absent /\ r = Absent
      /\ bound.crashes = 0 => c = Absent
  BY <1>0, <1>1, <1>2, <1>3 DEF Layout, AtRestart, States
<1>5. AtFinish(c, p, r)'
  BY <1>1, <1>3, <1>4 DEF AtFinish
<1>6. AtRestart(c, p, r)'
  BY <1>1, <1>4 DEF AtRestart, RestartPcs
<1>7. fin' \in [file : Files, code : {"s", "u"}, next : {"write", "exitasap", "finishcurrent", "create"}]
  BY <1>1 DEF Files
<1>8. /\ dir' \in Directory /\ Disk(dir') = Disk(dir) /\ Platter(dir') = Platter(dir) /\ Ordered(dir')
      /\ dir'.old = dir.old /\ dir'.state = 0 /\ dir'.newstate \in {0, dir.newstate}
  BY <1>1, <1>2, <1>4 DEF Types
<1>9. /\ Recoverable(dir.current, dir.previous, dir.processed, bound.signals)'
      /\ AtFinish(dir.current, dir.previous, dir.processed)'
      /\ AtRestart(dir.current, dir.previous, dir.processed)'
  BY <1>0, <1>1, <1>2, <1>5, <1>6 DEF Layout
<1> QED BY <1>1, <1>2, <1>3, <1>7, <1>8, <1>9, Restarts

LEMMA CreateKeeps == ASSUME MultilogAssumption, IInv, Create PROVE IInv'
<1> USE DEF IInv
<1>0. PICK c, p, r : c = dir.current /\ p = dir.previous /\ r = dir.processed
  OBVIOUS
<1>1. /\ pc = "create" /\ pc' = "doit" /\ ret' = ret /\ back' = back /\ fin' = fin
      /\ mem' = [mem EXCEPT !.bytes = 0]
      /\ taken' = taken /\ sigs' = sigs /\ bound' = bound /\ processor' = processor
      /\ dir' = [dir EXCEPT !.current = Empty] /\ log' = log
  BY DEF Create, Goto, call, env
<1>2. /\ Blank(mem) /\ mem.bytes \in 0 .. Size /\ In(mem) = {} /\ Recovering(pc, fin)
      /\ pc \notin PreviousPcs \cup ProcessedPcs
  <2>1. pc \in RestartPcs /\ pc # "gone"
    BY <1>1 DEF RestartPcs
  <2> QED BY <2>1, AtGone
<1>3. /\ Caller' = pc' /\ ~InWrite(pc, back, fin)'
      /\ ~Rotating(pc, fin)' /\ ~Recovering(pc, fin)'
      /\ pc' \notin FinishPcs \cup RestartPcs \cup PreviousPcs \cup ProcessedPcs
      /\ pc' \in DoitPcs
  <2>1. pc' \in DoitPcs
    BY <1>1 DEF DoitPcs
  <2>2. Caller' = pc' /\ ~InWrite(pc, back, fin)' /\ ~Rotating(pc, fin)' /\ ~Recovering(pc, fin)'
    BY <2>1, AtDoit DEF Caller
  <2> QED BY <2>1, <2>2, <1>1 DEF FinishPcs, RestartPcs, PreviousPcs, ProcessedPcs
<1>4. c = Absent /\ p = Absent /\ r = Absent /\ dir.state = 0 /\ (bound.crashes = 0 => taken = 0)
  BY <1>0, <1>1, <1>2 DEF Layout, AtRestart, States, Stopped
<1>5. /\ dir' \in Directory /\ dir'.current = Empty /\ dir'.previous = p /\ dir'.processed = r
      /\ dir'.old = dir.old /\ dir'.state = dir.state /\ dir'.newstate = dir.newstate
  <2>1. dir' \in Directory
    BY <1>1, DirectoryIs, AbsentFile DEF Directory
  <2> QED BY <2>1, <1>0, <1>1, DirectoryIs DEF Directory
<1>6. PICK X : X = {}
  OBVIOUS
<1>7. /\ Data(Empty) = {} /\ Safe(Empty) = {} /\ Data(Absent) = {} /\ Safe(Absent) = {} /\ Empty.data = <<>>
      /\ Empty.here /\ ~Empty.linked /\ ~Empty.exec /\ Len(Empty.data) = 0
  BY AbsentFile
<1>8. Disk(dir') = Disk(dir) /\ Platter(dir') = Platter(dir) \cup X
  BY <1>0, <1>4, <1>5, <1>6, <1>7, SameUnion
<1>9. Ordered(dir')
  BY <1>0, <1>4, <1>5, <1>7, SameOrder
<1>10. /\ mem.ss = <<>> /\ mem.out = <<>> /\ mem.todo = <<>> /\ mem.line = <<>> /\ mem.inbuf = <<>>
       /\ ~mem.long
  BY <1>2, BlankIs
<1>11. Blank(mem') /\ mem'.bytes = 0 /\ mem'.bytes \in 0 .. Size
  <2>1. Blank(mem') /\ mem'.bytes = 0
    BY <1>1, <1>2, BlankAgain
  <2> QED BY <2>1 DEF MultilogAssumption
<1>12. /\ mem' \in Memory /\ mem'.ss = <<>> /\ mem'.out = <<>> /\ mem'.todo = <<>> /\ mem'.line = <<>> /\ mem'.inbuf = <<>>
       /\ ~mem'.long /\ ~mem'.eof /\ mem'.flagnewline /\ ~mem'.flagforcerotate
       /\ Len(mem'.ss) <= OutBuf /\ Len(mem'.line) < MaxLine
       /\ In(mem') = {} /\ Pipe(mem')
  BY <1>11, BlankIs
<1>13. Bounds(dir', mem', log', taken') /\ Fates(dir', mem', log', taken')
  <2>1. {dir'.state, dir'.newstate} \subseteq {dir.state, dir.newstate, 0} \cup Past(dir, log)
    BY <1>5
  <2>2. IInv /\ X \subseteq Disk(dir) /\ log'.safe = log.safe \cup X
    BY <1>1, <1>6
  <2> QED BY <2>1, <2>2, <1>1, <1>8, <1>10, <1>12, SameDisk
<1>14. Types'
  BY <1>1, <1>5, <1>12 DEF Types
<1>15. Control'
  BY <1>1, <1>3 DEF Control
<1>16. Layout'
  <2>1. Recoverable(Empty, p, r, bound.signals)
    BY <1>4, AbsentFile DEF Recoverable, MultilogAssumption
  <2>2. AtCurrent(Empty, p, r)'
    BY <1>1, <1>4, <1>7, <1>11 DEF AtCurrent
  <2>3. AtPrevious(Empty, p, r)' /\ AtFinish(Empty, p, r)' /\ AtRestart(Empty, p, r)'
    BY <1>1, <1>3 DEF AtPrevious, AtFinish, AtRestart, RestartPcs
  <2> QED BY <2>1, <2>2, <2>3, <1>1, <1>5 DEF Layout
<1>17. OldOnes'
  BY <1>1, <1>5 DEF OldOnes
<1>18. Buffers'
  BY <1>1, <1>3, <1>12 DEF Buffers
<1>19. States'
  <2>1. Fresh' = {}
    BY <1>3, <1>5, <1>7, <1>12 DEF Fresh
  <2>2. ~Stopped'
    BY <1>1, <1>3 DEF Stopped
  <2>3. Follows({}, 0, taken, bound.crashes)
    <3>1. bound.crashes # 0 => bound.crashes > 0
      BY DEF Types
    <3>2. \A u \in Tokens : u > 0 /\ u \in Nat
      BY DEF Tokens, EofNewline, MultilogAssumption
    <3>3. CASE bound.crashes # 0
      BY <3>1, <3>3 DEF Follows
    <3>4. CASE bound.crashes = 0
      <4>1. taken = 0
        BY <3>4, <1>4
      <4> QED BY <4>1, <3>2 DEF Follows
    <3> QED BY <3>3, <3>4
  <2>4. pc' \notin {"syncprocessed", "markprocessed"} \cup ProcessedPcs
    BY <1>1, <1>3
  <2> QED BY <2>1, <2>2, <2>3, <2>4, <1>1, <1>3, <1>4, <1>5 DEF States
<1> QED BY <1>9, <1>12, <1>13, <1>14, <1>15, <1>16, <1>17, <1>18, <1>19

-----------------------------------------------------------------------------
(* Signals, kills and outages.                                              *)

LEMMA SignalKeeps ==
  ASSUME MultilogAssumption, IInv, NEW s \in {"TERM", "ALRM"}, Signal(s)
  PROVE  IInv'
<1> USE DEF IInv
<1>1. /\ pc' = pc /\ ret' = ret /\ back' = back /\ fin' = fin /\ dir' = dir /\ mem' = mem
      /\ taken' = taken /\ log' = log /\ processor' = processor
      /\ sigs' = sigs \cup {s} /\ bound' = [bound EXCEPT !.signals = @ + 1]
  BY DEF Signal, call
<1>2. /\ bound' \in [crashes : Nat, signals : Nat, fails : Nat]
      /\ bound'.crashes = bound.crashes /\ bound'.signals > 0
      /\ sigs' \subseteq {"TERM", "ALRM"}
  <2>1. bound \in [crashes : Nat, signals : Nat, fails : Nat] /\ sigs \subseteq {"TERM", "ALRM"}
    BY DEF Types
  <2>2. bound.signals + 1 \in Nat /\ bound.signals + 1 > 0
    BY <2>1
  <2> QED BY <2>1, <2>2, <1>1
<1>3. ASSUME NEW d, NEW n PROVE Ends(d, n) => Ends(d, bound'.signals)
  BY <1>2 DEF Ends
<1>4. ASSUME NEW f, NEW n PROVE Rotated(f, n) => Rotated(f, bound'.signals)
  BY <1>3 DEF Rotated
<1> HIDE DEF IInv
<1>5. Types'
  BY <1>1, <1>2 DEF Types, IInv
<1>6. Control'
  BY <1>1 DEF Control, IInv
<1>7. Layout'
  <2>1. Recoverable(dir.current, dir.previous, dir.processed, bound'.signals)
    BY <1>4 DEF IInv, Layout, Recoverable
  <2>2. AtCurrent(dir.current, dir.previous, dir.processed)'
    BY <1>1, <1>3, <1>4 DEF IInv, Layout, AtCurrent
  <2>3. AtPrevious(dir.current, dir.previous, dir.processed)'
    BY <1>1, <1>4 DEF IInv, Layout, AtPrevious
  <2>4. AtFinish(dir.current, dir.previous, dir.processed)'
    BY <1>1, <1>4 DEF IInv, Layout, AtFinish
  <2>5. AtRestart(dir.current, dir.previous, dir.processed)'
    BY <1>1, <1>2 DEF IInv, Layout, AtRestart
  <2> QED BY <2>1, <2>2, <2>3, <2>4, <2>5, <1>1 DEF Layout
<1>8. OldOnes'
  BY <1>1, <1>2, <1>3 DEF IInv, OldOnes, OldOne
<1>9. Buffers'
  BY <1>1 DEF IInv, Buffers, Caller
<1>10. Pipe(mem') /\ Ordered(dir') /\ Bounds(dir', mem', log', taken') /\ Fates(dir', mem', log', taken')
  BY <1>1 DEF IInv
<1>11. States'
  BY <1>1, <1>2 DEF IInv, States, Stopped, Fresh
<1> QED BY <1>5, <1>6, <1>7, <1>8, <1>9, <1>10, <1>11 DEF IInv

LEMMA StutterKeeps == ASSUME IInv, UNCHANGED vars PROVE IInv'
<1>1. /\ pc' = pc /\ ret' = ret /\ back' = back /\ fin' = fin /\ dir' = dir /\ mem' = mem
      /\ taken' = taken /\ log' = log /\ processor' = processor /\ sigs' = sigs /\ bound' = bound
  BY DEF vars
<1>2. Types' /\ Control' /\ OldOnes'
  BY <1>1 DEF IInv, Types, Control, OldOnes
<1>3. Layout'
  BY <1>1 DEF IInv, Layout, AtCurrent, AtPrevious, AtFinish, AtRestart
<1>4. Buffers'
  BY <1>1 DEF IInv, Buffers, Caller
<1>5. Pipe(mem') /\ Ordered(dir') /\ Bounds(dir', mem', log', taken') /\ Fates(dir', mem', log', taken')
  BY <1>1 DEF IInv
<1>6. States'
  BY <1>1 DEF IInv, States, Stopped, Fresh
<1> QED BY <1>2, <1>3, <1>4, <1>5, <1>6 DEF IInv

(* Only a multilog that has exited leaves current with mode 0644.           *)
LEMMA ExecMeansGone ==
  ASSUME IInv, dir.current.exec
  PROVE  pc = "gone" /\ dir.previous = Absent /\ dir.processed = Absent
         /\ dir.current.synced = Len(dir.current.data) /\ ~dir.current.linked
<1> USE DEF IInv
<1>1. /\ dir.previous = Absent /\ dir.processed = Absent
      /\ dir.current.synced = Len(dir.current.data) /\ ~dir.current.linked
  BY DEF Layout, Recoverable
<1>2. dir.current # Absent /\ dir.current # Empty
  BY AbsentFile
<1>3. pc \notin CurrentPcs
  BY DEF Layout, AtCurrent
<1>4. pc \notin FinishPcs \cup RestartPcs
  BY DEF Layout, AtFinish, AtRestart
<1>5. pc \notin RotatePcs
  <2>1. pc # "open"
    BY <1>2 DEF Layout, AtPrevious
  <2>2. pc \notin RotatePcs \ {"fsync", "rename", "open"}
    BY <1>2 DEF Layout, AtPrevious, Rotating
  <2> QED BY <2>1, <2>2, <1>3 DEF CurrentPcs
<1> QED BY <1>1, <1>3, <1>4, <1>5 DEF Control, CurrentPcs

(* multilog is gone: what that says of all but the directory and the log.   *)
LEMMA StopsSo ==
  ASSUME MultilogAssumption, IInv, Stops
  PROVE  /\ pc' = "gone" /\ sigs' = {} /\ taken' = taken /\ processor' = processor /\ mem' = NoMemory
         /\ bound' \in [crashes : Nat, signals : Nat, fails : Nat]
         /\ bound'.crashes = bound.crashes + 1 /\ bound'.signals = bound.signals
         /\ Control' /\ Buffers' /\ Pipe(mem') /\ In(mem') = {}
         /\ mem' \in Memory /\ Len(mem'.ss) <= OutBuf /\ Len(mem'.line) < MaxLine /\ ~mem'.flagforcerotate
         /\ mem'.line = <<>> /\ mem'.inbuf = <<>> /\ ~mem'.long
         /\ ~Rotating(pc, fin)' /\ ~Recovering(pc, fin)'
         /\ pc' \notin PreviousPcs \cup ProcessedPcs \cup CurrentPcs \cup FinishPcs \cup RestartPcs
<1> USE DEF IInv
<1>1. /\ pc' = "gone" /\ ret' = ret /\ back' = back /\ fin' = fin /\ mem' = NoMemory /\ sigs' = {}
      /\ taken' = taken /\ processor' = processor /\ bound' = [bound EXCEPT !.crashes = @ + 1]
  BY DEF Stops, Goto, call
<1>2. /\ bound' \in [crashes : Nat, signals : Nat, fails : Nat]
      /\ bound'.crashes = bound.crashes + 1 /\ bound'.signals = bound.signals
  <2>1. bound \in [crashes : Nat, signals : Nat, fails : Nat]
    BY DEF Types
  <2>2. bound.crashes + 1 \in Nat
    BY <2>1
  <2> QED BY <2>1, <2>2, <1>1
<1>3. /\ Caller' = pc' /\ ~InWrite(pc, back, fin)' /\ ~Rotating(pc, fin)' /\ ~Recovering(pc, fin)'
  BY <1>1, AtDoit DEF Caller
<1>4. pc' \notin PreviousPcs \cup ProcessedPcs \cup CurrentPcs \cup FinishPcs \cup RestartPcs
  BY <1>1 DEF PreviousPcs, ProcessedPcs, FinishPcs, RestartPcs, CurrentPcs, DoitPcs
<1>5. 0 \in 0 .. Size
  BY DEF MultilogAssumption
<1>6. /\ mem' \in Memory /\ mem'.ss = <<>> /\ mem'.out = <<>> /\ mem'.todo = <<>> /\ mem'.line = <<>> /\ mem'.inbuf = <<>>
      /\ ~mem'.long /\ ~mem'.eof /\ mem'.flagnewline /\ ~mem'.flagforcerotate
      /\ Len(mem'.ss) <= OutBuf /\ Len(mem'.line) < MaxLine
      /\ In(mem') = {} /\ Pipe(mem') /\ Blank(mem')
  BY <1>1, <1>5, NoMemoryIs, BlankIs
<1>7. Control'
  BY <1>1, <1>3, <1>4 DEF Control
<1>8. Buffers'
  BY <1>1, <1>3, <1>6 DEF Buffers
<1> QED BY <1>1, <1>2, <1>3, <1>4, <1>6, <1>7, <1>8

(* What the state promises the next processor still holds.                  *)
LEMMA StopsStates ==
  ASSUME MultilogAssumption, IInv, Stops,
         dir.current.exec => dir'.current = dir.current,
         dir'.current.exec => dir.current.exec, dir'.state = dir.state
  PROVE  States'
<1> USE DEF IInv
<1>1. /\ pc' = "gone" /\ taken' = taken /\ processor' = processor
      /\ bound'.crashes = bound.crashes + 1 /\ bound.crashes \in Nat
      /\ In(mem') = {} /\ ~Recovering(pc, fin)' /\ pc' \notin PreviousPcs \cup ProcessedPcs
  BY StopsSo DEF Types
<1>2. bound'.crashes # 0 /\ bound'.crashes > 0
  BY <1>1
<1>3. pc' \notin {"syncprocessed", "markprocessed"}
  BY <1>1
<1>4. ASSUME processor', ~Stopped' PROVE Follows(Fresh, dir.state, taken, bound.crashes)'
  <2>1. dir.current.exec /\ dir'.current = dir.current
    BY <1>1, <1>4 DEF Stopped
  <2>2. pc = "gone"
    BY <2>1, ExecMeansGone
  <2>3. /\ In(mem) = {} /\ ~Recovering(pc, fin) /\ pc \notin PreviousPcs \cup ProcessedPcs
    BY <2>2, AtGone
  <2>4. Fresh' = Data(dir.current) /\ Fresh = Data(dir.current)
    BY <1>1, <2>1, <2>3 DEF Fresh
  <2>5. ~Stopped
    BY <2>1, <2>3 DEF Stopped
  <2>6. Follows(Fresh, dir.state, taken, bound.crashes)
    BY <1>1, <1>4, <2>5 DEF States
  <2>7. Follows(Fresh, dir.state, taken, bound'.crashes)
    BY <2>6, <1>2 DEF Follows
  <2> QED BY <2>7, <2>4, <1>1
<1> QED BY <1>1, <1>2, <1>3, <1>4 DEF States

LEMMA KillKeeps == ASSUME MultilogAssumption, IInv, Kill PROVE IInv'
<1> USE DEF IInv
<1>1. /\ Stops /\ dir' = dir /\ pc # "gone"
      /\ log' = [log EXCEPT !.lost = @ \cup In(mem)]
  BY DEF Kill, Running, Held, In, AllOf
<1>2. /\ pc' = "gone" /\ sigs' = {} /\ taken' = taken /\ processor' = processor /\ mem' = NoMemory
      /\ bound' \in [crashes : Nat, signals : Nat, fails : Nat]
      /\ bound'.crashes = bound.crashes + 1 /\ bound'.signals = bound.signals
      /\ Control' /\ Buffers' /\ Pipe(mem') /\ In(mem') = {}
      /\ mem' \in Memory /\ Len(mem'.ss) <= OutBuf /\ Len(mem'.line) < MaxLine /\ ~mem'.flagforcerotate
      /\ mem'.line = <<>> /\ mem'.inbuf = <<>> /\ ~mem'.long
      /\ ~Rotating(pc, fin)' /\ ~Recovering(pc, fin)'
      /\ pc' \notin PreviousPcs \cup ProcessedPcs \cup CurrentPcs \cup FinishPcs \cup RestartPcs
  BY <1>1, StopsSo
<1>3. bound.crashes \in Nat /\ bound'.crashes # 0 /\ bound'.crashes > 0
  BY <1>2 DEF Types
<1>4. /\ log' \in Log /\ log'.written = log.written /\ log'.safe = log.safe
      /\ log'.lost = log.lost \cup In(mem) /\ log'.removed = log.removed
  <2>1. In(mem) \subseteq Tokens
    <3>1. Upto(taken) \subseteq Tokens
      BY DEF Types, Upto, Tokens, EofNewline, MultilogAssumption
    <3> QED BY <3>1 DEF Bounds
  <2> QED BY <2>1, <1>1 DEF Types, Log
<1>5. Past(dir', log') = Past(dir, log) \cup In(mem)
  BY <1>1, <1>4 DEF Past
<1>6. Bounds(dir', mem', log', taken')
  BY <1>1, <1>2, <1>4, <1>5 DEF Bounds, Below
<1>7. Fates(dir', mem', log', taken')
  BY <1>1, <1>2, <1>4, <1>5 DEF Fates
<1>8. Types'
  BY <1>1, <1>2, <1>4 DEF Types
<1>9. Layout'
  <2>1. Recoverable(dir.current, dir.previous, dir.processed, bound.signals)'
    BY <1>1, <1>2 DEF Layout
  <2>2. AtCurrent(dir.current, dir.previous, dir.processed)'
    BY <1>2 DEF AtCurrent
  <2>3. AtPrevious(dir.current, dir.previous, dir.processed)'
    BY <1>2 DEF AtPrevious
  <2>4. AtFinish(dir.current, dir.previous, dir.processed)' /\ AtRestart(dir.current, dir.previous, dir.processed)'
    BY <1>2, <1>3 DEF AtFinish, AtRestart
  <2> QED BY <2>1, <2>2, <2>3, <2>4 DEF Layout
<1>10. OldOnes'
  <2>1. Len(dir.old) \in Nat /\ Num \in Nat
    BY DirectoryIs DEF MultilogAssumption
  <2>2. Len(dir.old) < Num + bound.crashes + 1
    BY <2>1, <1>3 DEF OldOnes
  <2>3. Len(dir.old) < Num + bound'.crashes + (IF pc' \in {"unlink", "filesfit"} THEN 1 ELSE 0)
    BY <2>1, <2>2, <1>2, <1>3
  <2>4. \A i \in 1 .. Len(dir.old) : OldOne(dir.old[i], bound'.signals, bound'.crashes)
    BY <1>2, <1>3 DEF OldOnes, OldOne
  <2> QED BY <2>3, <2>4, <1>1 DEF OldOnes
<1>11. States'
  BY <1>1, StopsStates
<1>12. Ordered(dir')
  BY <1>1
<1> QED BY <1>2, <1>6, <1>7, <1>8, <1>9, <1>10, <1>11, <1>12

(* A file after an outage.                                                  *)
LEMMA OutageOfFile ==
  ASSUME NEW f \in SoundFile, NEW g, g = AfterOutage(f)
  PROVE  /\ g \in SoundFile /\ g.data = SafeData(f) /\ g.here = f.here /\ g.exec = f.exec
         /\ g.linked = f.linked /\ g.synced = f.synced
         /\ Data(g) = Safe(f) /\ Safe(g) = Safe(f) /\ Safe(f) \subseteq Data(f)
         /\ Len(g.data) <= Len(f.data)
         /\ f.synced = Len(f.data) => g = f
<1>1. f \in File /\ f.synced \in 0 .. Len(f.data) /\ f.data \in Seq(Tokens) /\ Len(f.data) \in Nat
  BY FileIs
<1>2. PICK d : d = SafeData(f)
  OBVIOUS
<1>3. d \in Seq(Tokens) /\ Len(d) = f.synced
  BY <1>1, <1>2, Cut DEF SafeData
<1>4. g = [f EXCEPT !.data = d]
  BY <1>2 DEF AfterOutage, SafeData
<1>5. /\ g \in File /\ g.data = d /\ g.here = f.here /\ g.exec = f.exec
      /\ g.linked = f.linked /\ g.synced = f.synced
  BY <1>1, <1>3, <1>4 DEF File
<1>6. g.synced = Len(g.data)
  BY <1>3, <1>5
<1>7. g \in SoundFile
  BY <1>1, <1>5, <1>6 DEF SoundFile
<1>8. SafeData(g) = d
  BY <1>5, <1>6, <1>7, FileIs
<1>9. Elements(d) \subseteq Elements(f.data)
  BY <1>2, FileIs
<1>10. Data(g) = Safe(f) /\ Safe(g) = Safe(f) /\ Safe(f) \subseteq Data(f)
  BY <1>2, <1>5, <1>8, <1>9 DEF Data, Safe
<1>11. Len(g.data) <= Len(f.data)
  BY <1>1, <1>3, <1>5
<1>12. ASSUME f.synced = Len(f.data) PROVE g = f
  <2>1. d = f.data
    BY <1>2, <1>12, FileIs
  <2>2. g = [f EXCEPT !.data = f.data]
    BY <2>1, <1>4
  <2> QED BY <2>2, <1>1 DEF File
<1> QED BY <1>2, <1>5, <1>7, <1>10, <1>11, <1>12

(* The old files after an outage.                                           *)
LEMMA OutageOfOld ==
  ASSUME NEW q \in Seq(SoundOld), NEW r, r = [i \in 1 .. Len(q) |-> AfterOutage(q[i])]
  PROVE  /\ r \in Seq(SoundOld) /\ Len(r) = Len(q)
         /\ \A i \in 1 .. Len(q) :
              /\ r[i].code = q[i].code /\ r[i].synced = q[i].synced
              /\ Len(r[i].data) <= Len(q[i].data) /\ r[i].synced = Len(r[i].data)
              /\ q[i].synced = Len(q[i].data) => r[i].data = q[i].data
         /\ Datas(r) = SafeDatas(q) /\ SafeDatas(r) = SafeDatas(q)
         /\ Ranked(Datas(q)) => Ranked(SafeDatas(q)) /\ AllOf(SafeDatas(q)) \subseteq AllOf(Datas(q))
<1>1. ASSUME NEW i \in 1 .. Len(q)
      PROVE  /\ r[i] \in SoundOld /\ r[i].code = q[i].code /\ r[i].synced = q[i].synced
             /\ Len(r[i].data) <= Len(q[i].data) /\ r[i].synced = Len(r[i].data)
             /\ q[i].synced = Len(q[i].data) => r[i].data = q[i].data
             /\ r[i].data = SafeData(q[i]) /\ SafeData(r[i]) = SafeData(q[i])
             /\ Elements(SafeData(q[i])) \subseteq Elements(q[i].data)
             /\ Ascending(q[i].data) => Ascending(SafeData(q[i]))
  <2>1. PICK f, g : f = q[i] /\ g = r[i]
    OBVIOUS
  <2>2. f \in Old /\ f.synced \in 0 .. Len(f.data) /\ f.data \in Seq(Tokens) /\ Len(f.data) \in Nat
    <3>1. f \in Old /\ f.synced <= Len(f.data)
      BY <2>1 DEF SoundOld
    <3> QED BY <3>1 DEF Old
  <2>3. PICK d : d = SafeData(f)
    OBVIOUS
  <2>4. /\ d \in Seq(Tokens) /\ Len(d) = f.synced /\ Elements(d) \subseteq Elements(f.data)
        /\ Ascending(f.data) => Ascending(d)
        /\ f.synced = Len(f.data) => d = f.data
    BY <2>2, <2>3, Cut DEF SafeData
  <2>5. g = [f EXCEPT !.data = d]
    BY <2>1, <2>3 DEF AfterOutage, SafeData
  <2>6. g \in Old /\ g.data = d /\ g.code = f.code /\ g.synced = f.synced
    BY <2>2, <2>4, <2>5 DEF Old
  <2>7. g \in SoundOld /\ g.synced = Len(g.data)
    BY <2>2, <2>4, <2>6 DEF SoundOld
  <2>8. SafeData(g) = d
    <3>1. SafeData(g) = SubSeq(d, 1, Len(d))
      BY <2>6, <2>7 DEF SafeData
    <3>2. Len(d) \in 0 .. Len(d)
      BY <2>2, <2>4
    <3>3. SubSeq(d, 1, Len(d)) = d
      BY <2>4, <3>2, Cut
    <3> QED BY <3>1, <3>3
  <2>9. Len(g.data) <= Len(f.data)
    BY <2>2, <2>4, <2>6
  <2> QED BY <2>1, <2>3, <2>4, <2>6, <2>7, <2>8, <2>9
<1>2. Len(q) \in Nat
  OBVIOUS
<1>3. r \in Seq(SoundOld) /\ Len(r) = Len(q)
  <2>1. \A i \in 1 .. Len(q) : AfterOutage(q[i]) \in SoundOld
    BY <1>1
  <2> QED BY <2>1, <1>2
<1>4. Datas(r) = SafeDatas(q) /\ SafeDatas(r) = SafeDatas(q)
  BY <1>1, <1>3 DEF Datas, SafeDatas
<1>5. ASSUME Ranked(Datas(q))
      PROVE  Ranked(SafeDatas(q)) /\ AllOf(SafeDatas(q)) \subseteq AllOf(Datas(q))
  <2>1. PICK a, b : a = Datas(q) /\ b = SafeDatas(q)
    OBVIOUS
  <2>2. /\ Len(a) = Len(q) /\ Len(b) = Len(q)
        /\ \A i \in 1 .. Len(q) : a[i] = q[i].data /\ b[i] = SafeData(q[i])
    BY <2>1, <1>2 DEF Datas, SafeDatas
  <2>3. \A i \in 1 .. Len(a) : Ascending(b[i]) /\ Elements(b[i]) \subseteq Elements(a[i])
    <3>1. \A i \in 1 .. Len(a) : Ascending(a[i])
      BY <2>1, <1>5 DEF Ranked
    <3>2. \A i \in 1 .. Len(q) : Ascending(q[i].data)
      BY <3>1, <2>2
    <3> QED BY <3>2, <2>2, <1>1
  <2> QED BY <2>1, <2>2, <2>3, <1>5, RankedCut
<1> QED BY <1>1, <1>3, <1>4, <1>5

LEMMA OutageKeeps == ASSUME MultilogAssumption, IInv, Outage PROVE IInv'
<1> USE DEF IInv
<1>0. PICK c, p, r, o : c = dir.current /\ p = dir.previous /\ r = dir.processed /\ o = dir.old
  OBVIOUS
<1>1. /\ Stops
      /\ dir' = [dir EXCEPT !.current = AfterOutage(c), !.previous = AfterOutage(p),
                            !.processed = AfterOutage(r),
                            !.old = [i \in 1 .. Len(o) |-> AfterOutage(o[i])]]
      /\ log' = [log EXCEPT !.lost = @ \cup In(mem) \cup (log.written \ log.safe), !.written = log.safe]
  BY <1>0 DEF Outage, Held, In, AllOf
<1>2. /\ pc' = "gone" /\ sigs' = {} /\ taken' = taken /\ processor' = processor /\ mem' = NoMemory
      /\ bound' \in [crashes : Nat, signals : Nat, fails : Nat]
      /\ bound'.crashes = bound.crashes + 1 /\ bound'.signals = bound.signals
      /\ Control' /\ Buffers' /\ Pipe(mem') /\ In(mem') = {}
      /\ mem' \in Memory /\ Len(mem'.ss) <= OutBuf /\ Len(mem'.line) < MaxLine /\ ~mem'.flagforcerotate
      /\ mem'.line = <<>> /\ mem'.inbuf = <<>> /\ ~mem'.long
      /\ ~Rotating(pc, fin)' /\ ~Recovering(pc, fin)'
      /\ pc' \notin PreviousPcs \cup ProcessedPcs \cup CurrentPcs \cup FinishPcs \cup RestartPcs
  BY <1>1, StopsSo
<1>3. bound.crashes \in Nat /\ bound'.crashes # 0 /\ bound'.crashes > 0
  BY <1>2 DEF Types
<1>4. /\ dir \in Directory /\ c \in SoundFile /\ p \in SoundFile /\ r \in SoundFile /\ o \in Seq(SoundOld)
      /\ dir.state \in 0 .. EofNewline /\ dir.newstate \in 0 .. EofNewline
  BY <1>0, DirectoryIs
<1>5. PICK c1, p1, r1, o1 : /\ c1 = AfterOutage(c) /\ p1 = AfterOutage(p) /\ r1 = AfterOutage(r)
                            /\ o1 = [i \in 1 .. Len(o) |-> AfterOutage(o[i])]
  OBVIOUS
<1>6. /\ c1 \in SoundFile /\ c1.here = c.here /\ c1.exec = c.exec /\ c1.linked = c.linked
      /\ Data(c1) = Safe(c) /\ Safe(c1) = Safe(c) /\ Safe(c) \subseteq Data(c)
      /\ Len(c1.data) <= Len(c.data) /\ c1.data = SafeData(c) /\ c1.synced = c.synced
      /\ c.synced = Len(c.data) => c1 = c
  BY <1>4, <1>5, OutageOfFile
<1>7. /\ p1 \in SoundFile /\ p1.here = p.here /\ p1.exec = p.exec /\ p1.linked = p.linked
      /\ Data(p1) = Safe(p) /\ Safe(p1) = Safe(p) /\ Safe(p) \subseteq Data(p)
      /\ Len(p1.data) <= Len(p.data) /\ p1.data = SafeData(p)
      /\ p.synced = Len(p.data) => p1 = p
  BY <1>4, <1>5, OutageOfFile
<1>8. /\ r1 \in SoundFile /\ r1.here = r.here /\ r1.exec = r.exec /\ r1.linked = r.linked
      /\ Data(r1) = Safe(r) /\ Safe(r1) = Safe(r) /\ Safe(r) \subseteq Data(r)
      /\ Len(r1.data) <= Len(r.data) /\ r1.data = SafeData(r)
      /\ r.synced = Len(r.data) => r1 = r
  BY <1>4, <1>5, OutageOfFile
<1>9. /\ o1 \in Seq(SoundOld) /\ Len(o1) = Len(o)
      /\ \A i \in 1 .. Len(o) :
           /\ o1[i].code = o[i].code /\ o1[i].synced = o[i].synced
           /\ Len(o1[i].data) <= Len(o[i].data) /\ o1[i].synced = Len(o1[i].data)
           /\ o[i].synced = Len(o[i].data) => o1[i].data = o[i].data
      /\ Datas(o1) = SafeDatas(o) /\ SafeDatas(o1) = SafeDatas(o)
      /\ Ranked(Datas(o)) => Ranked(SafeDatas(o)) /\ AllOf(SafeDatas(o)) \subseteq AllOf(Datas(o))
  BY <1>4, <1>5, OutageOfOld
<1>10. /\ dir' \in Directory /\ dir'.current = c1 /\ dir'.previous = p1 /\ dir'.processed = r1
       /\ dir'.old = o1 /\ dir'.state = dir.state /\ dir'.newstate = dir.newstate
  <2>1. dir' = [dir EXCEPT !.current = c1, !.previous = p1, !.processed = r1, !.old = o1]
    BY <1>1, <1>5
  <2> QED BY <2>1, <1>4, <1>6, <1>7, <1>8, <1>9 DEF Directory
<1>11. Data(Mid(p1, r1)) = Safe(Mid(p, r)) /\ Safe(Mid(p1, r1)) = Safe(Mid(p, r))
       /\ Safe(Mid(p, r)) \subseteq Data(Mid(p, r))
  BY <1>7, <1>8 DEF Mid
<1>12. Ranked(Datas(o)) /\ Ascending(c.data) /\ Ascending(p.data) /\ Ascending(r.data)
       /\ Below(AllOf(Datas(o)), Data(Mid(p, r)) \cup Data(c))
  BY <1>0 DEF Ordered
<1>13. Disk(dir') = Platter(dir) /\ Platter(dir') = Platter(dir) /\ Platter(dir) \subseteq Disk(dir)
  <2>1. AllOf(SafeDatas(o)) \subseteq AllOf(Datas(o))
    BY <1>9, <1>12
  <2>2. Disk(dir') = Platter(dir) /\ Platter(dir') = Platter(dir)
    BY <1>0, <1>6, <1>9, <1>10, <1>11 DEF Disk, Platter
  <2> QED BY <2>1, <2>2, <1>0, <1>6, <1>11 DEF Disk, Platter
<1>14. Ordered(dir')
  <2>1. Ascending(c1.data) /\ Ascending(p1.data) /\ Ascending(r1.data)
    BY <1>4, <1>6, <1>7, <1>8, <1>12, FileIs
  <2>2. Ranked(Datas(o1)) /\ Below(AllOf(Datas(o1)), Data(Mid(p1, r1)) \cup Data(c1))
    BY <1>6, <1>9, <1>11, <1>12 DEF Below
  <2> QED BY <2>1, <2>2, <1>10 DEF Ordered
<1>15. /\ log' \in Log /\ log'.written = log.safe /\ log'.safe = log.safe
       /\ log'.lost = log.lost \cup In(mem) \cup (log.written \ log.safe) /\ log'.removed = log.removed
  <2>1. In(mem) \subseteq Tokens
    <3>1. Upto(taken) \subseteq Tokens
      BY DEF Types, Upto, Tokens, EofNewline, MultilogAssumption
    <3> QED BY <3>1 DEF Bounds
  <2> QED BY <2>1, <1>1 DEF Types, Log
<1>16. Bounds(dir', mem', log', taken')
  <2>1. Past(dir', log') \subseteq Past(dir, log) \cup In(mem) \cup log.written
    BY <1>13, <1>15 DEF Past
  <2>2. Past(dir', log') \cup In(mem') \cup log'.written \cup log'.safe \subseteq Upto(taken')
    BY <2>1, <1>2, <1>15 DEF Bounds
  <2>3. Below(Past(dir', log'), In(mem'))
    BY <1>2 DEF Below
  <2>4. Below(log'.removed, Disk(dir'))
    BY <1>13, <1>15 DEF Bounds, Below
  <2> QED BY <2>2, <2>3, <2>4, <1>2, <1>10 DEF Bounds
<1>17. Fates(dir', mem', log', taken')
  <2>1. /\ log.written \cup log.safe \subseteq Disk(dir) \cup log.removed /\ Disk(dir) \subseteq log.written
        /\ log.safe \subseteq Platter(dir) \cup log.removed /\ Platter(dir) \subseteq log.safe
        /\ 1 .. taken \subseteq Past(dir, log) \cup In(mem)
    BY DEF Fates
  <2>2. Past(dir, log) \cup In(mem) \subseteq Past(dir', log')
    BY <2>1, <1>13, <1>15 DEF Past
  <2> QED BY <2>1, <2>2, <1>2, <1>13, <1>15 DEF Fates
<1>18. Types'
  BY <1>2, <1>10, <1>15 DEF Types
<1>19. Layout'
  <2>1. Recoverable(c, p, r, bound.signals)
    BY <1>0 DEF Layout
  <2>2. /\ c = Absent \/ c = Empty => c1 = c
        /\ p = Absent => p1 = p
        /\ r = Absent => r1 = r
    BY <1>6, <1>7, <1>8, AbsentFile
  <2>3. \A f \in {c1, p1, r1} : (~f.here => f = Absent) /\ Len(f.data) <= Size
    <3>1. Size \in Nat /\ Len(c.data) \in Nat /\ Len(p.data) \in Nat /\ Len(r.data) \in Nat
          /\ Len(c1.data) \in Nat /\ Len(p1.data) \in Nat /\ Len(r1.data) \in Nat
      BY <1>4, <1>6, <1>7, <1>8, FileIs DEF MultilogAssumption
    <3> QED BY <3>1, <2>1, <2>2, <1>6, <1>7, <1>8 DEF Recoverable
  <2>4. c1.exec => ~c1.linked /\ p1 = Absent /\ r1 = Absent /\ c1.synced = Len(c1.data)
    BY <2>1, <2>2, <1>6 DEF Recoverable
  <2>5. r1.exec => Rotated(r1, bound.signals)
    BY <2>1, <1>8 DEF Recoverable, Rotated
  <2>6. Recoverable(c1, p1, r1, bound.signals)
    BY <2>1, <2>2, <2>3, <2>4, <2>5, <1>6, <1>7, <1>8 DEF Recoverable
  <2>7. AtCurrent(c1, p1, r1)'
    BY <1>2 DEF AtCurrent
  <2>8. AtPrevious(c1, p1, r1)'
    BY <1>2 DEF AtPrevious
  <2>9. AtFinish(c1, p1, r1)' /\ AtRestart(c1, p1, r1)'
    BY <1>2, <1>3 DEF AtFinish, AtRestart
  <2> QED BY <2>6, <2>7, <2>8, <2>9, <1>2, <1>10 DEF Layout
<1>20. OldOnes'
  <2>1. Len(o) \in Nat /\ Num \in Nat /\ Size \in Nat
    BY <1>4 DEF MultilogAssumption
  <2>2. Len(o) < Num + bound.crashes + 1
    BY <2>1, <1>0, <1>3 DEF OldOnes
  <2>3. Len(o1) < Num + bound'.crashes + (IF pc' \in {"unlink", "filesfit"} THEN 1 ELSE 0)
    BY <2>1, <2>2, <1>2, <1>3, <1>9
  <2>4. ASSUME NEW i \in 1 .. Len(o) PROVE OldOne(o1[i], bound'.signals, bound'.crashes)
    <3>1. OldOne(o[i], bound.signals, bound.crashes)
      BY <1>0 DEF OldOnes
    <3>2. Len(o1[i].data) \in Nat /\ Len(o[i].data) \in Nat
      BY <1>4, <1>9, ElementOfSeq DEF SoundOld, Old
    <3>3. Len(o1[i].data) <= Size
      BY <2>1, <3>1, <3>2, <1>9 DEF OldOne
    <3>4. o1[i].code = "s" => o1[i].synced = Len(o1[i].data) /\ Ends(o1[i].data, bound'.signals)
      BY <3>1, <1>2, <1>9 DEF OldOne
    <3> QED BY <3>3, <3>4, <1>3 DEF OldOne
  <2> QED BY <2>3, <2>4, <1>9, <1>10 DEF OldOnes
<1>21. States'
  <2>1. c.exec => c1 = c
    BY <1>0, <1>6, ExecMeansGone
  <2> QED BY <2>1, <1>0, <1>1, <1>6, <1>10, StopsStates
<1> QED BY <1>2, <1>14, <1>16, <1>17, <1>18, <1>19, <1>20, <1>21

-----------------------------------------------------------------------------
(* The invariant.                                                           *)

LEMMA InitHolds == ASSUME MultilogAssumption, Init PROVE IInv
<1>1. PICK none : none = <<>>
  OBVIOUS
<1>2. /\ none \in Seq(SoundOld) /\ Len(none) = 0
  BY <1>1, EmptySeq
<1>3. 0 \in 0 .. Size /\ 0 \in 0 .. EofNewline
  BY DEF MultilogAssumption, EofNewline
<1>4. /\ dir \in Directory /\ dir.current = Absent /\ dir.previous = Absent /\ dir.processed = Absent
      /\ dir.old = none /\ dir.state = 0 /\ dir.newstate = 0
  <2>1. dir = [current |-> Absent, previous |-> Absent, processed |-> Absent,
               old |-> none, state |-> 0, newstate |-> 0]
    BY <1>1 DEF Init
  <2> QED BY <2>1, <1>2, <1>3, AbsentFile DEF Directory
<1>5. /\ Absent.data = <<>> /\ Absent.synced = 0 /\ ~Absent.exec /\ ~Absent.linked /\ Len(Absent.data) = 0
      /\ Data(Absent) = {} /\ Safe(Absent) = {} /\ ~Absent.here
  BY AbsentFile
<1>6. Datas(none) = <<>> /\ SafeDatas(none) = <<>>
  BY <1>2 DEF Datas, SafeDatas
<1>7. Disk(dir) = {} /\ Platter(dir) = {} /\ Ordered(dir)
  <2>1. AllOf(<<>>) = {} /\ Ranked(<<>>) /\ Ascending(<<>>)
    BY NoElements
  <2>2. Mid(Absent, Absent) = Absent
    BY <1>5 DEF Mid
  <2>3. Disk(dir) = {} /\ Platter(dir) = {}
    BY <2>1, <2>2, <1>4, <1>5, <1>6 DEF Disk, Platter
  <2>4. Ranked(Datas(dir.old)) /\ Below(AllOf(Datas(dir.old)), Data(Mid(dir.previous, dir.processed)) \cup Data(dir.current))
    BY <2>1, <1>4, <1>6 DEF Below
  <2> QED BY <2>1, <2>3, <2>4, <1>4, <1>5 DEF Ordered
<1>8. /\ pc = "gone" /\ mem = NoMemory /\ taken = 0 /\ sigs = {} /\ ret = "doit" /\ back = "write"
      /\ fin = [file |-> "current", code |-> "u", next |-> "create"]
      /\ log = [written |-> {}, safe |-> {}, lost |-> {}, removed |-> {}]
      /\ bound = [crashes |-> 0, signals |-> 0, fails |-> 0] /\ processor \in BOOLEAN
  BY DEF Init, MultilogAssumption
<1>9. /\ Caller = "gone" /\ ~InWrite(pc, back, fin) /\ ~Rotating(pc, fin) /\ ~Recovering(pc, fin)
  BY <1>8, AtDoit DEF Caller
<1>10. pc \notin PreviousPcs \cup ProcessedPcs \cup CurrentPcs \cup FinishPcs \cup RestartPcs
  BY <1>8 DEF PreviousPcs, ProcessedPcs, FinishPcs, RestartPcs, CurrentPcs, DoitPcs
<1>11. /\ mem \in Memory /\ mem.ss = <<>> /\ mem.out = <<>> /\ mem.todo = <<>> /\ mem.line = <<>> /\ mem.inbuf = <<>>
       /\ ~mem.long /\ ~mem.eof /\ mem.flagnewline /\ ~mem.flagforcerotate
       /\ Len(mem.ss) <= OutBuf /\ Len(mem.line) < MaxLine
       /\ In(mem) = {} /\ Pipe(mem) /\ Blank(mem)
  BY <1>3, <1>8, NoMemoryIs, BlankIs
<1>12. log \in Log /\ bound \in [crashes : Nat, signals : Nat, fails : Nat] /\ taken \in 0 .. Input
  BY <1>8 DEF Log, MultilogAssumption
<1>13. Types
  BY <1>4, <1>8, <1>11, <1>12 DEF Types
<1>14. Control
  BY <1>8, <1>9, <1>10 DEF Control, Files
<1>15. Layout
  <2>1. Recoverable(Absent, Absent, Absent, bound.signals)
    BY <1>5 DEF Recoverable, MultilogAssumption
  <2>2. AtCurrent(Absent, Absent, Absent) /\ AtPrevious(Absent, Absent, Absent)
    BY <1>8, <1>9, <1>10 DEF AtCurrent, AtPrevious
  <2>3. AtFinish(Absent, Absent, Absent) /\ AtRestart(Absent, Absent, Absent)
    BY <1>8, <1>9, <1>10 DEF AtFinish, AtRestart
  <2> QED BY <2>1, <2>2, <2>3, <1>4 DEF Layout
<1>16. OldOnes
  BY <1>2, <1>4, <1>8 DEF OldOnes, MultilogAssumption
<1>17. Buffers
  BY <1>8, <1>9, <1>11 DEF Buffers
<1>18. Bounds(dir, mem, log, taken) /\ Fates(dir, mem, log, taken)
  <2>1. Past(dir, log) = {} /\ log.written = {} /\ log.safe = {} /\ log.removed = {}
    BY <1>7, <1>8 DEF Past
  <2>2. 1 .. taken = {}
    BY <1>8
  <2> QED BY <2>1, <2>2, <1>4, <1>7, <1>11 DEF Bounds, Fates, Below
<1>19. States
  <2>1. Stopped
    BY <1>4, <1>5, <1>8 DEF Stopped
  <2> QED BY <2>1, <1>8, <1>9, <1>10 DEF States
<1> QED BY <1>7, <1>11, <1>13, <1>14, <1>15, <1>16, <1>17, <1>18, <1>19 DEF IInv

LEMMA NextKeeps == ASSUME MultilogAssumption, IInv, [Next]_vars PROVE IInv'
<1>1. CASE FinishSteps
  BY <1>1, StatKeeps, LinkOldKeeps, UnlinkKeeps, FilesFitKeeps DEF FinishSteps
<1>2. CASE Rotation
  BY <1>2, SyncCurrentKeeps, RenameCurrentKeeps, OpenCurrentKeeps, StartProcessorKeeps, ProcessedKeeps,
     ProcessorFailsKeeps, SyncProcessedKeeps, MarkProcessedKeeps, UnlinkPreviousKeeps, RenameStateKeeps
     DEF Rotation
<1>3. CASE Writing
  BY <1>3, WrittenKeeps, WriteFullKeeps, WriteKeeps DEF Writing
<1>4. CASE Doit
  BY <1>4, PutKeeps, PutAllKeeps, GetCharKeeps, FlushKeeps, ForceRotateKeeps, ExitAsapKeeps, UnblockKeeps,
     SyncQuitKeeps, MarkQuitKeeps DEF Doit
<1>5. CASE Restart
  BY <1>5, ResumeKeeps, ForgetStateKeeps, RecoverKeeps, FinishCurrentKeeps, CreateKeeps DEF Restart
<1>6. CASE World
  BY <1>6, ReadKeeps, ReadEofKeeps, KillKeeps, OutageKeeps, SignalKeeps DEF World
<1>7. CASE UNCHANGED vars
  BY <1>7, StutterKeeps
<1> QED BY <1>1, <1>2, <1>3, <1>4, <1>5, <1>6, <1>7 DEF Next, Multilog

(* The steps with a processor are only taken when there is one.             *)
Attended == pc \in PreviousPcs \ {"open"} => processor

LEMMA AttendedStays == ASSUME IInv, Attended, [Next]_vars PROVE Attended'
<1> USE DEF Attended, PreviousPcs, Goto, call, env
<1>0. /\ ret \in {"doit", "put", "forcerotate", "syncquit"}
      /\ pc \in FinishPcs => fin.next \in {"write", "exitasap", "finishcurrent", "create"}
  BY DEF IInv, Control
<1>1. CASE FinishSteps
  <2>1. pc \in FinishPcs
    BY <1>1 DEF FinishSteps, Stat, LinkOld, Unlink, FilesFit, FinishPcs
  <2> QED BY <2>1, <1>0, <1>1 DEF FinishSteps, Stat, LinkOld, Unlink, FilesFit, Return
<1>2. CASE Rotation
  BY <1>2 DEF Rotation, SyncCurrent, RenameCurrent, OpenCurrent, StartProcessor, Processed,
     ProcessorFails, SyncProcessed, MarkProcessed, UnlinkPrevious, RenameState, Finish
<1>3. CASE Writing
  BY <1>0, <1>3 DEF Writing, Written, WriteFull, Write, FullCurrent
<1>4. CASE Doit
  BY <1>4 DEF Doit, Put, PutAll, GetChar, Flush, ForceRotate, ExitAsap, Unblock, Interrupted,
     Quit, SyncQuit, MarkQuit, WriteAll, FullCurrent, EndOfInput
<1>5. CASE Restart
  BY <1>5 DEF Restart, Resume, ForgetState, Recover, FinishCurrent, Create, Finish
<1>6. CASE World
  BY <1>6 DEF World, Read, ReadEof, Kill, Outage, Stops, Signal, EndOfInput
<1>7. CASE UNCHANGED vars
  BY <1>7 DEF vars
<1> QED BY <1>1, <1>2, <1>3, <1>4, <1>5, <1>6, <1>7 DEF Next, Multilog

(* multilog.c: the invariant that carries all four properties, and that the  *)
(* log is attended to.                                                      *)
THEOREM InductiveInvariant == Spec => [](IInv /\ Attended)
<1>1. Init => IInv /\ Attended
  BY InitHolds, MultilogAssumption DEF Init, Attended, PreviousPcs
<1>2. IInv /\ Attended /\ [Next]_vars => (IInv /\ Attended)'
  BY NextKeeps, AttendedStays, MultilogAssumption
<1> QED BY <1>1, <1>2, PTL DEF Spec

-----------------------------------------------------------------------------
(* What a reader of the directory finds.                                    *)

LEMMA RankedJoined ==
  ASSUME NEW a \in Seq(Seq(Tokens)), NEW b \in Seq(Seq(Tokens))
  PROVE  /\ a \o b \in Seq(Seq(Tokens)) /\ AllOf(a \o b) = AllOf(a) \cup AllOf(b)
         /\ Ranked(a) /\ Ranked(b) /\ Below(AllOf(a), AllOf(b)) => Ranked(a \o b)
<1> DEFINE c == a \o b
<1>1. /\ c \in Seq(Seq(Tokens)) /\ Len(c) = Len(a) + Len(b) /\ Len(a) \in Nat /\ Len(b) \in Nat
      /\ \A i \in 1 .. Len(c) : c[i] = IF i <= Len(a) THEN a[i] ELSE b[i - Len(a)]
  BY ConcatProperties
<1> HIDE DEF c
<1>2. ASSUME NEW i \in 1 .. Len(a) PROVE i \in 1 .. Len(c) /\ c[i] = a[i]
  BY <1>1
<1>3. ASSUME NEW i \in 1 .. Len(b) PROVE i + Len(a) \in 1 .. Len(c) /\ c[i + Len(a)] = b[i]
  <2>1. i + Len(a) \in 1 .. Len(c) /\ ~(i + Len(a) <= Len(a)) /\ (i + Len(a)) - Len(a) = i
    BY <1>1
  <2> QED BY <2>1, <1>1
<1>4. ASSUME NEW i \in 1 .. Len(c)
      PROVE  \/ i \in 1 .. Len(a) /\ c[i] = a[i]
             \/ i - Len(a) \in 1 .. Len(b) /\ i > Len(a) /\ c[i] = b[i - Len(a)]
  BY <1>1
<1>5. AllOf(c) = AllOf(a) \cup AllOf(b)
  <2>1. AllOf(a) \subseteq AllOf(c)
    BY <1>2, AllOfIs
  <2>2. AllOf(b) \subseteq AllOf(c)
    BY <1>3, AllOfIs
  <2>3. ASSUME NEW i \in 1 .. Len(c) PROVE Elements(c[i]) \subseteq AllOf(a) \cup AllOf(b)
    BY <1>4, AllOfIs
  <2>4. AllOf(c) \subseteq AllOf(a) \cup AllOf(b)
    BY <2>3, AllOfIs
  <2> QED BY <2>1, <2>2, <2>4
<1>6. ASSUME Ranked(a), Ranked(b), Below(AllOf(a), AllOf(b)) PROVE Ranked(c)
  <2>1. ASSUME NEW i \in 1 .. Len(c) PROVE Ascending(c[i])
    BY <1>4, <1>6 DEF Ranked
  <2>2. ASSUME NEW i \in 1 .. Len(c), NEW j \in 1 .. Len(c), i < j
        PROVE  Below(Elements(c[i]), Elements(c[j]))
    <3>1. CASE i \in 1 .. Len(a) /\ j \in 1 .. Len(a)
      BY <3>1, <2>2, <1>2, <1>6 DEF Ranked
    <3>2. CASE i \in 1 .. Len(a) /\ j \notin 1 .. Len(a)
      <4>1. Elements(c[i]) \subseteq AllOf(a)
        BY <3>2, <1>2, AllOfIs
      <4>2. Elements(c[j]) \subseteq AllOf(b)
        BY <3>2, <1>4, AllOfIs
      <4> QED BY <4>1, <4>2, <1>6 DEF Below
    <3>3. CASE i \notin 1 .. Len(a)
      <4>1. j \notin 1 .. Len(a) /\ i - Len(a) < j - Len(a)
        BY <3>3, <2>2, <1>1
      <4> QED BY <4>1, <3>3, <1>4, <1>6 DEF Ranked
    <3> QED BY <3>1, <3>2, <3>3
  <2> QED BY <2>1, <2>2 DEF Ranked
<1> QED BY <1>1, <1>5, <1>6 DEF c

(* The log as a reader puts it together has what Disk says, in order.       *)
LEMMA TheLog ==
  ASSUME MultilogAssumption, IInv
  PROVE  OnDisk = Disk(dir) /\ Ranked(Parts)
<1> USE DEF IInv
<1>0. PICK c, p, r, o : c = dir.current /\ p = dir.previous /\ r = dir.processed /\ o = Datas(dir.old)
  OBVIOUS
<1>1. /\ dir.old \in Seq(SoundOld) /\ c.data \in Seq(Tokens) /\ p.data \in Seq(Tokens) /\ r.data \in Seq(Tokens)
  BY <1>0, DirectoryIs, FileIs
<1>2. o \in Seq(Seq(Tokens))
  <2>1. \A i \in 1 .. Len(dir.old) : dir.old[i].data \in Seq(Tokens)
    BY <1>1, ElementOfSeq DEF SoundOld, Old
  <2> QED BY <2>1, <1>0, <1>1 DEF Datas
<1>3. /\ Ascending(c.data) /\ Ascending(p.data) /\ Ascending(r.data) /\ Ranked(o)
      /\ Below(AllOf(o), Data(Mid(p, r)) \cup Data(c))
  BY <1>0 DEF Ordered
<1>4. PICK none : none = <<>>
  OBVIOUS
<1>5. none \in Seq(Seq(Tokens)) /\ AllOf(none) = {} /\ Ranked(none)
  BY <1>4, NoTokens, NoElements
<1>6. ASSUME NEW s \in Seq(Tokens), Ascending(s)
      PROVE  <<s>> \in Seq(Seq(Tokens)) /\ AllOf(<<s>>) = Elements(s) /\ Ranked(<<s>>)
  BY <1>6, RankedChunks
<1>7. PICK m, l : m = Middle /\ l = (IF c.linked THEN none ELSE <<c.data>>)
  OBVIOUS
<1>8. m \in Seq(Seq(Tokens)) /\ AllOf(m) = Data(Mid(p, r)) /\ Ranked(m)
  <2>1. CASE r.exec
    <3>1. m = (IF r.linked THEN none ELSE <<r.data>>) /\ Mid(p, r) = r
      BY <2>1, <1>0, <1>4, <1>7 DEF Middle, Mid
    <3> QED BY <3>1, <1>1, <1>3, <1>5, <1>6 DEF Data
  <2>2. CASE ~r.exec
    <3>1. m = (IF p.linked THEN none ELSE <<p.data>>) /\ Mid(p, r) = p
      BY <2>2, <1>0, <1>4, <1>7 DEF Middle, Mid
    <3> QED BY <3>1, <1>1, <1>3, <1>5, <1>6 DEF Data
  <2> QED BY <2>1, <2>2
<1>9. l \in Seq(Seq(Tokens)) /\ AllOf(l) = Data(c) /\ Ranked(l)
  BY <1>1, <1>3, <1>5, <1>6, <1>7 DEF Data
<1>10. Data(Mid(p, r)) = {} \/ Data(c) = {}
  <2>1. Recoverable(c, p, r, bound.signals)
    BY <1>0 DEF Layout
  <2>2. CASE p.here \/ r.here
    BY <2>1, <2>2, AbsentFile DEF Recoverable
  <2>3. CASE ~(p.here \/ r.here)
    BY <2>1, <2>3, AbsentFile DEF Recoverable, Mid
  <2> QED BY <2>2, <2>3
<1>11. PICK ml : ml = m \o l
  OBVIOUS
<1>12. ml \in Seq(Seq(Tokens)) /\ AllOf(ml) = Data(Mid(p, r)) \cup Data(c) /\ Ranked(ml)
  <2>1. Below(AllOf(m), AllOf(l))
    BY <1>8, <1>9, <1>10 DEF Below
  <2> QED BY <2>1, <1>8, <1>9, <1>11, RankedJoined
<1>13. PICK q : q = o \o ml
  OBVIOUS
<1>14. AllOf(q) = Disk(dir) /\ Ranked(q)
  <2>1. AllOf(q) = AllOf(o) \cup AllOf(ml) /\ Ranked(q)
    BY <1>2, <1>3, <1>12, <1>13, RankedJoined
  <2> QED BY <2>1, <1>0, <1>12 DEF Disk
<1>15. Parts = q
  <2>1. Parts = (o \o m) \o l
    BY <1>0, <1>4, <1>7 DEF Parts, Datas
  <2>2. (o \o m) \o l = o \o (m \o l)
    BY <1>2, <1>8, <1>9, ConcatAssociative
  <2> QED BY <2>1, <2>2, <1>11, <1>13
<1> QED BY <1>14, <1>15 DEF OnDisk, AllOf

LEMMA IsKept == ASSUME MultilogAssumption, IInv PROVE Kept
<1>1. OnDisk = Disk(dir)
  BY TheLog
<1>2. log.written \cup log.safe \subseteq Disk(dir) \cup log.removed /\ Below(log.removed, Disk(dir))
  BY DEF IInv, Fates, Bounds
<1> QED BY <1>1, <1>2 DEF Kept, Below

LEMMA IsInOrder == ASSUME MultilogAssumption, IInv PROVE InOrder
<1>1. Ranked(Parts)
  BY TheLog
<1>2. ASSUME NEW p \in Elements(Parts) PROVE Ascending(p)
  BY <1>1 DEF Elements, Ranked
<1>3. \A p \in Elements(Parts) : \A i, j \in 1 .. Len(p) : i < j => p[i] < p[j]
  BY <1>2 DEF Ascending
<1>4. \A i, j \in 1 .. Len(Parts) :
        i < j => \A a \in Elements(Parts[i]), b \in Elements(Parts[j]) : a < b
  BY <1>1 DEF Ranked, Below
<1> QED BY <1>3, <1>4 DEF InOrder

LEMMA AreOldFiles == ASSUME MultilogAssumption, IInv PROVE OldFiles
<1> USE DEF IInv
<1>1. dir.old \in Seq(SoundOld)
  BY DirectoryIs
<1>2. TypeOK
  <2>1. \A f \in Files : dir[f] \in File /\ dir[f].synced <= Len(dir[f].data)
    BY DirectoryIs DEF Files, SoundFile
  <2>2. \A i \in 1 .. Len(dir.old) : dir.old[i] \in Old /\ dir.old[i].synced <= Len(dir.old[i].data)
    BY <1>1, ElementOfSeq DEF SoundOld
  <2>3. dir.old \in Seq(Old)
    BY <1>1, <2>2
  <2>4. {dir.state, dir.newstate} \subseteq 0 .. EofNewline
    BY DirectoryIs
  <2>5. Held \subseteq Tokens
    <3>1. Upto(taken) \subseteq Tokens
      BY DEF Types, Upto, Tokens, EofNewline, MultilogAssumption
    <3>2. Held = In(mem)
      BY DEF Held, In, AllOf
    <3> QED BY <3>1, <3>2 DEF Bounds
  <2>6. mem.bytes \in 0 .. Size /\ \A s \in {log.written, log.safe, log.lost, log.removed} : s \subseteq Tokens
    BY DEF Types, Memory, Log
  <2> QED BY <2>1, <2>2, <2>3, <2>4, <2>5, <2>6 DEF TypeOK, Types
<1>3. ASSUME NEW i \in 1 .. Len(dir.old)
      PROVE  LET o == dir.old[i]
             IN /\ Len(o.data) <= Size
                /\ IF o.code = "u" THEN bound.crashes > 0
                   ELSE /\ o.synced = Len(o.data) /\ o.data # <<>>
                        /\ Len(o.data) = Size \/ IsNewline(o.data[Len(o.data)]) \/ bound.signals > 0
  <2>1. OldOne(dir.old[i], bound.signals, bound.crashes)
    BY DEF OldOnes
  <2>2. dir.old[i].code \in {"s", "u"}
    BY <1>1, ElementOfSeq DEF SoundOld, Old
  <2> QED BY <2>1, <2>2 DEF OldOne, Ends
<1>4. Len(dir.old) < Num + bound.crashes + (IF pc \in {"unlink", "filesfit"} THEN 1 ELSE 0)
  BY DEF OldOnes
<1> QED BY <1>2, <1>3, <1>4 DEF OldFiles

LEMMA HoldsNothing == ASSUME MultilogAssumption, IInv PROVE NothingHeld
<1> USE DEF IInv
<1>0. OnDisk \cup log.removed \cup log.lost = Past(dir, log)
  BY TheLog DEF Past
<1> DEFINE missing == (1 .. taken) \ (OnDisk \cup log.removed \cup log.lost)
<1>1. missing = (1 .. taken) \ Past(dir, log) /\ missing \subseteq In(mem)
  BY <1>0 DEF Fates
<1> HIDE DEF missing
<1>2. ASSUME pc \in {"read", "markquit"}
      PROVE  /\ Caller = pc /\ mem.ss = <<>> /\ mem.out = <<>> /\ mem.todo = <<>> /\ mem.inbuf = <<>>
             /\ pc = "markquit" => mem.line = <<>> /\ (mem.flagnewline \/ taken = Input)
  <2>1. Caller = pc /\ ~InWrite(pc, back, fin)
    BY <1>2, AtDoit DEF DoitPcs, Caller
  <2> QED BY <2>1, <1>2 DEF Buffers
<1>3. ASSUME pc \in {"read", "markquit"}
      PROVE  In(mem) = Elements(mem.line)
  BY <1>2, <1>3, NoElements DEF In
<1>4. ASSUME pc = "read" PROVE missing = Elements(mem.line)
  <2>1. In(mem) = Elements(mem.line)
    BY <1>3, <1>4
  <2>2. ASSUME NEW t \in Elements(mem.line) PROVE t \in missing
    <3>1. mem.line # <<>>
      BY NoElements
    <3>2. t \in Upto(taken) /\ t # EofNewline /\ Below(Past(dir, log), In(mem))
      BY <2>1, <3>1 DEF Bounds
    <3>3. t \in 1 .. taken
      BY <3>2 DEF Upto
    <3>4. t \notin Past(dir, log)
      <4>1. ~(t < t)
        BY <3>3 DEF Types
      <4> QED BY <4>1, <3>2, <2>1 DEF Below
    <3> QED BY <3>3, <3>4, <1>1
  <2> QED BY <2>1, <2>2, <1>1
<1>5. ASSUME pc = "markquit"
      PROVE  /\ missing = {} /\ Elements(dir.current.data) \subseteq log.safe
             /\ mem.flagnewline \/ taken = Input
  <2>1. missing = {} /\ (mem.flagnewline \/ taken = Input)
    BY <1>1, <1>2, <1>3, <1>5, NoElements
  <2>2. dir.current \in SoundFile /\ ~dir.current.linked /\ dir.current.synced = Len(dir.current.data)
    BY <1>5, DirectoryIs DEF Layout, AtCurrent, CurrentPcs, DoitPcs
  <2>3. Safe(dir.current) = Elements(dir.current.data)
    BY <2>2, FileIs DEF Safe
  <2>4. Safe(dir.current) \subseteq log.safe
    BY DEF Fates, Platter
  <2> QED BY <2>1, <2>3, <2>4
<1> QED BY <1>4, <1>5 DEF NothingHeld, missing

LEMMA StatesFollow == ASSUME MultilogAssumption, IInv, Attended PROVE StateFollows
<1> USE DEF IInv
<1> SUFFICES ASSUME pc \in {"process", "processor"}
             PROVE  \/ dir.state = dir.previous.data[1] - 1
                    \/ dir.state = 0 /\ bound.crashes > 0
  BY DEF StateFollows
<1>0. pc \in PreviousPcs \ {"open"} /\ pc \in RotatePcs
  BY DEF PreviousPcs, RotatePcs
<1>1. PICK s : s = dir.previous.data
  OBVIOUS
<1>2. /\ processor /\ ~Stopped /\ Rotated(dir.previous, bound.signals) /\ ~dir.previous.linked
      /\ ~dir.processed.exec
  BY <1>0, AtRotate DEF Attended, Stopped, Control, Layout, AtPrevious
<1>3. s \in Seq(Tokens) /\ s # <<>> /\ Ascending(s)
  BY <1>1, <1>2, DirectoryIs, FileIs DEF Rotated, Ends, Ordered
<1>4. Fresh = In(mem) \cup Elements(s) /\ Elements(s) \subseteq Disk(dir)
  BY <1>0, <1>1, <1>2 DEF Fresh, Mid, Data, Disk
<1>5. PICK f : f = s[1]
  OBVIOUS
<1>6. /\ Head(s) = f /\ f \in Tokens
      /\ Elements(s) = {f} \cup Elements(Tail(s)) /\ Below({f}, Elements(Tail(s)))
  <2>1. Head(s) = f
    BY <1>3, <1>5
  <2> QED BY <2>1, <1>3, FirstAndRest
<1>7. \A t \in Fresh : t = f \/ f < t
  <2>1. Below(Past(dir, log), In(mem)) /\ f \in Past(dir, log)
    BY <1>4, <1>6 DEF Bounds, Past
  <2> QED BY <2>1, <1>4, <1>6 DEF Below
<1>8. f \in Upto(taken) /\ taken \in Nat /\ Input \in Nat /\ f \in Nat /\ f # 0
  <2>1. f \in Upto(taken)
    BY <1>4, <1>6 DEF Bounds, Past
  <2> QED BY <2>1, <1>6 DEF Types, MultilogAssumption, Tokens, EofNewline
<1>9. CASE dir.state = 0 /\ bound.crashes > 0
  BY <1>9
<1>10. CASE /\ \A t \in Fresh : dir.state < t
            /\ \A u \in Tokens : dir.state < u /\ u <= taken => u \in Fresh
  <2>1. dir.state < f /\ dir.state \in Nat
    BY <1>4, <1>6, <1>10, DirectoryIs
  <2>2. f - 1 \notin Fresh
    <3>1. ~(f - 1 = f) /\ ~(f < f - 1)
      BY <1>8
    <3> QED BY <3>1, <1>7
  <2>3. f - 1 <= taken
    BY <1>8 DEF Upto, EofNewline
  <2>4. ASSUME dir.state < f - 1 PROVE FALSE
    <3>1. f - 1 \in Tokens
      BY <2>1, <2>4, <1>6, <1>8 DEF Tokens, EofNewline
    <3> QED BY <3>1, <2>2, <2>3, <2>4, <1>10
  <2>5. dir.state = f - 1
    BY <2>1, <2>4, <1>8
  <2> QED BY <2>5, <1>1, <1>5
<1> QED BY <1>2, <1>9, <1>10 DEF States, Follows

(* multilog(8): it "tries again, without losing any data".  What has been   *)
(* written to a file of the directory stays in the log until it is in the   *)
(* oldest of too many files, through rotations, processor runs, kills,      *)
(* recoveries and the retries of all of these.                              *)
THEOREM NothingIsLost == Spec => []Kept
<1>1. IInv /\ Attended => Kept
  BY IsKept, MultilogAssumption
<1> QED BY <1>1, InductiveInvariant, PTL

(* Every token is in the log at most once, and in the order in which it was *)
(* read, whatever crashed or failed, and wherever a restart() took over.    *)
THEOREM LogIsInOrder == Spec => []InOrder
<1>1. IInv /\ Attended => InOrder
  BY IsInOrder, MultilogAssumption
<1> QED BY <1>1, InductiveInvariant, PTL

(* An old file ".s" is complete, on disk, no larger than size, and ends     *)
(* with a line unless it is full or was forced; ".u" is what a crash left;  *)
(* and filesfit() holds their number down.                                  *)
THEOREM OldFilesAreSound == Spec => []OldFiles
<1>1. IInv /\ Attended => OldFiles
  BY AreOldFiles, MultilogAssumption
<1> QED BY <1>1, InductiveInvariant, PTL

(* multilog waits for input with no complete line in its buffers and exits  *)
(* with everything on disk; and a processor goes on from the state that the *)
(* run on the preceding file left.                                          *)
THEOREM EverythingIsHandedOn == Spec => []HandedOn
<1>1. IInv /\ Attended => HandedOn
  BY HoldsNothing, StatesFollow, MultilogAssumption DEF HandedOn
<1> QED BY <1>1, InductiveInvariant, PTL
=============================================================================
