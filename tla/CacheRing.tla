------------------------------ MODULE CacheRing ------------------------------
(***************************************************************************)
(* source/cache.c: the byte ring of dnscache's cache.  Positions, lengths   *)
(* and links are the numbers of the code; the contents of a key or a data   *)
(* are values of a set.                                                     *)
(*                                                                          *)
(* Memory is modelled at the positions where a link is stored: the heads    *)
(* and the entries between oldest and unused and between hsize and writer.  *)
(* What lies elsewhere is never read, which ReadsLive states.               *)
(***************************************************************************)
EXTENDS Integers, Sequences, FiniteSets

CONSTANTS
  Keys, Data,
  KeyLen(_), DataLen(_),  \* lengths in bytes
  hash(_),                \* the position of the head link of a key
  size, hsize,            \* as cache_init() computes them
  Header,                 \* link, keylen, datalen, expire: 20 bytes
  xor(_, _),              \* exclusive or of two positions
  MAXKEYLEN, MAXDATALEN,
  Ttls, MAXTTL,           \* times to live; the largest one that is kept
  Times,                  \* readings of the clock
  MaxLoop,                \* the 100 of cache_get()
  Slack,                  \* no entry that may be stored takes more than Slack + 1 bytes
  Miss

Positions == 0 .. size - 1
Heads     == {h \in 0 .. hsize - 1 : h % 4 = 0}
EntryLen(k, d) == KeyLen(k) + DataLen(d) + Header

ASSUME SizeAssumption ==
  /\ size \in Nat /\ hsize \in Nat /\ hsize % 4 = 0
  /\ 4 <= hsize /\ 2 * hsize <= size
  /\ Header \in Nat \ {0}
ASSUME LengthAssumption ==
  /\ \A k \in Keys : KeyLen(k) \in Nat
  /\ \A d \in Data : DataLen(d) \in Nat
ASSUME SlackAssumption ==
  /\ Slack \in Nat
  /\ \A k \in Keys, d \in Data :
       KeyLen(k) <= MAXKEYLEN /\ DataLen(d) <= MAXDATALEN /\ EntryLen(k, d) <= size - hsize
       => EntryLen(k, d) <= Slack + 1
ASSUME HashAssumption == \A k \in Keys : hash(k) \in Heads
ASSUME TimeAssumption ==
  /\ Ttls \subseteq Nat /\ Times \subseteq Nat
  /\ MAXTTL \in Nat \ {0} /\ MaxLoop \in Nat
ASSUME MissAssumption == Miss \notin [key : Keys, data : Data, ttl : 1..MAXTTL]
ASSUME XorAssumption ==
  \A a, b \in Positions :
    /\ xor(a, b) \in Nat
    /\ xor(a, b) = xor(b, a) /\ xor(a, 0) = a /\ xor(a, a) = 0
    /\ xor(xor(a, b), a) = b /\ xor(a, xor(a, b)) = b

VARIABLES
  writer, oldest, unused,  \* the variables of cache.c
  link,                    \* get4() of the heads and of the entries
  item,                    \* key, data and expire time of the entries
  queue,                   \* history: the positions of the entries, oldest first
  pc,                      \* "idle", "set" or "get"
  arg,                     \* arguments of the call
  pos, prevpos, loop,      \* variables of cache_get()
  out,                     \* the last cache_get() and what it returned
  now

ring == <<writer, oldest, unused, link, item, queue>>
walk == <<pos, prevpos, loop>>
vars == <<ring, pc, arg, walk, out, now>>

Live == {queue[j] : j \in 1..Len(queue)}

Min2(a, b) == IF a < b THEN a ELSE b

-----------------------------------------------------------------------------
Init ==
  /\ writer = hsize /\ oldest = size /\ unused = size
  /\ link = [h \in Heads |-> 0] /\ item = <<>> /\ queue = <<>>
  /\ pc = "idle" /\ arg = Miss /\ out = Miss
  /\ pos = 0 /\ prevpos = 0 /\ loop = 0
  /\ now \in Times

(* Time passes between two calls.                                           *)
Tick ==
  /\ pc = "idle"
  /\ now' \in {t \in Times : t > now}
  /\ UNCHANGED <<ring, pc, arg, walk, out>>

(* cache_set() up to the loop: the calls that are refused, and the limit on  *)
(* the time to live.                                                        *)
Storable(k, d, ttl) == KeyLen(k) <= MAXKEYLEN /\ DataLen(d) <= MAXDATALEN /\ ttl # 0

cache_set(k, d, ttl) ==
  /\ pc = "idle"
  /\ Storable(k, d, ttl)
  /\ pc' = "set"
  /\ arg' = [key |-> k, data |-> d, ttl |-> Min2(ttl, MAXTTL)]
  /\ UNCHANGED <<ring, walk, out, now>>

entrylen == EntryLen(arg.key, arg.data)

(* The condition of the loop: no room in front of the oldest entry.         *)
Full == writer + entrylen > oldest

(* Mutant: the entry stays on its chain.                                    *)
Unlinked_Not(o) == [p \in DOMAIN link \ {o} |-> link[p]]

(* The neighbour of the tail of a chain forgets it.                         *)
Unlinked(o) ==
  [p \in DOMAIN link \ {o} |-> IF p = link[o] THEN xor(link[p], o) ELSE link[p]]

(* The bytes of the entry at p.                                             *)
Taken(p) == EntryLen(item[p].key, item[p].data)

Empty == oldest = unused /\ writer <= hsize

(* One turn of the loop: wrap around if need be, and drop the oldest entry. *)
Evict ==
  /\ pc = "set" /\ Full /\ ~Empty
  /\ LET wrap == oldest = unused
         o    == IF wrap THEN hsize ELSE oldest
         u    == IF wrap THEN writer ELSE unused
         next == o + Taken(o)
     IN /\ writer' = IF wrap THEN hsize ELSE writer
        /\ link' = Unlinked(o)
        /\ item' = [p \in DOMAIN item \ {o} |-> item[p]]
        /\ oldest' = IF next = u THEN size ELSE next
        /\ unused' = IF next = u THEN size ELSE u
  /\ queue' = Tail(queue)
  /\ UNCHANGED <<pc, arg, walk, out, now>>

(* Mutant: the loop goes on when nothing is left to drop.                   *)
TooLarge_Spins == pc = "set" /\ Full /\ Empty /\ UNCHANGED vars

(* "if (writer <= hsize) return": the cache is empty and still too small.   *)
TooLarge ==
  /\ pc = "set" /\ Full /\ Empty
  /\ pc' = "idle" /\ arg' = Miss
  /\ UNCHANGED <<ring, walk, out, now>>

(* Mutant: the old first entry does not learn of its new neighbour.         *)
Linked_HeadOnly(h) ==
  [p \in DOMAIN link \cup {writer} |->
     CASE p = h      -> writer
       [] p = writer -> xor(link[h], h)
       [] OTHER      -> link[p]]

(* Insert behind the head link h, in front of the newest entry.             *)
Linked(h) ==
  [p \in DOMAIN link \cup {writer} |->
     CASE p = h                       -> writer
       [] p = writer                  -> xor(link[h], h)
       [] p = link[h] /\ link[h] # 0  -> xor(xor(link[p], h), writer)
       [] OTHER                       -> link[p]]

Insert ==
  /\ pc = "set" /\ ~Full
  /\ link' = Linked(hash(arg.key))
  /\ item' = [p \in DOMAIN item \cup {writer} |->
                IF p = writer
                THEN [key |-> arg.key, data |-> arg.data, expire |-> now + arg.ttl]
                ELSE item[p]]
  /\ queue' = Append(queue, writer)
  /\ writer' = writer + entrylen
  /\ pc' = "idle" /\ arg' = Miss
  /\ UNCHANGED <<oldest, unused, walk, out, now>>

-----------------------------------------------------------------------------
(* cache_get() up to its loop.                                              *)
cache_get(k) ==
  /\ pc = "idle"
  /\ KeyLen(k) <= MAXKEYLEN
  /\ pc' = "get"
  /\ arg' = [key |-> k]
  /\ prevpos' = hash(k) /\ pos' = link[hash(k)] /\ loop' = 0
  /\ UNCHANGED <<ring, out, now>>

Return(result) ==
  /\ pc' = "idle" /\ arg' = Miss /\ out' = [key |-> arg.key, answer |-> result]
  /\ pos' = 0 /\ prevpos' = 0 /\ loop' = 0
  /\ UNCHANGED <<ring, now>>

(* Mutant: entries are served one tick after they expired.                  *)
Fresh_Late(p) == item[p].expire + 1 >= now

(* tai_less(&expire,&now) is false.                                         *)
Fresh(p) == item[p].expire >= now

Matches(p) == item[p].key = arg.key

(* The key of the entry is the key asked for.                               *)
Found ==
  /\ pc = "get" /\ pos # 0 /\ Matches(pos)
  /\ Return(IF Fresh(pos)
            THEN [data |-> item[pos].data, ttl |-> Min2(item[pos].expire - now, MAXTTL)]
            ELSE Miss)

(* nextpos = prevpos ^ get4(pos)                                            *)
Beyond == xor(prevpos, link[pos])

(* Another key: follow the chain, but not for too long.                     *)
Follow ==
  /\ pc = "get" /\ pos # 0 /\ ~Matches(pos)
  /\ loop < MaxLoop
  /\ pos' = Beyond /\ prevpos' = pos /\ loop' = loop + 1
  /\ UNCHANGED <<ring, pc, arg, out, now>>

GiveUp ==
  /\ pc = "get"
  /\ pos # 0 => ~Matches(pos) /\ loop >= MaxLoop
  /\ Return(Miss)

Next ==
  \/ Tick
  \/ \E k \in Keys, d \in Data, ttl \in Ttls : cache_set(k, d, ttl)
  \/ Evict \/ TooLarge \/ Insert
  \/ \E k \in Keys : cache_get(k)
  \/ Found \/ Follow \/ GiveUp

Spec == Init /\ [][Next]_vars

(* A call runs to its end.                                                  *)
LiveSpec == Spec /\ WF_vars(Evict \/ TooLarge \/ Insert \/ Found \/ Follow \/ GiveUp)

-----------------------------------------------------------------------------
TypeOK ==
  /\ writer \in Nat /\ oldest \in Nat /\ unused \in Nat
  /\ queue \in Seq(Positions)
  /\ DOMAIN link = Heads \cup Live /\ \A p \in DOMAIN link : link[p] \in Nat
  /\ DOMAIN item = Live
  /\ \A p \in Live : item[p].key \in Keys /\ item[p].data \in Data /\ item[p].expire \in Nat
  /\ pc \in {"idle", "set", "get"}
  /\ pc = "set" => arg.key \in Keys /\ arg.data \in Data /\ arg.ttl \in 1..MAXTTL
  /\ pc = "get" => arg.key \in Keys
  /\ loop \in 0..MaxLoop
  /\ now \in Times

(* The comment at the top of cache.c: the order of the four positions.      *)
Regions ==
  /\ hsize <= writer /\ writer <= oldest /\ oldest <= unused /\ unused <= size
  /\ oldest = unused => unused = size

(* ... and the entries: w of them lie end to end from oldest to unused, the *)
(* newer ones end to end from hsize to writer.                              *)
End(j) == queue[j] + EntryLen(item[queue[j]].key, item[queue[j]].data)
LayoutWith(w) ==
  /\ \A j \in 1..Len(queue) :
       queue[j] = IF j = w + 1 THEN hsize ELSE IF j = 1 THEN oldest ELSE End(j - 1)
  /\ IF w = 0 THEN oldest = unused ELSE End(w) = unused
  /\ IF w = Len(queue) THEN writer = hsize ELSE End(Len(queue)) = writer
Layout == \E w \in 0..Len(queue) : LayoutWith(w)

(* Bucket lists: the head, then the entries of the bucket from the newest   *)
(* to the oldest; each link is the xor of its two neighbours' positions.    *)
Bucket(j) == hash(item[queue[j]].key)
IsNewer(j, i) ==    \* i is the entry in front of j on its chain
  /\ i \in j + 1..Len(queue) /\ Bucket(i) = Bucket(j)
  /\ \A l \in j + 1..i - 1 : Bucket(l) # Bucket(j)
InFront(j) ==
  IF \E i \in j + 1..Len(queue) : IsNewer(j, i)
  THEN queue[CHOOSE i \in j + 1..Len(queue) : IsNewer(j, i)] ELSE Bucket(j)
Behind(j) ==
  IF \E i \in 1..j - 1 : IsNewer(i, j)
  THEN queue[CHOOSE i \in 1..j - 1 : IsNewer(i, j)] ELSE 0
IsNewest(h, j) ==
  /\ j \in 1..Len(queue) /\ Bucket(j) = h
  /\ \A l \in j + 1..Len(queue) : Bucket(l) # h
Chains ==
  /\ \A j \in 1..Len(queue) : link[queue[j]] = xor(InFront(j), Behind(j))
  /\ \A h \in Heads :
       link[h] = IF \E j \in 1..Len(queue) : IsNewest(h, j)
                 THEN queue[CHOOSE j \in 1..Len(queue) : IsNewest(h, j)] ELSE 0

(* What both comments at the top of cache.c say of the memory, after any     *)
(* number of wraps.                                                         *)
RingSound == TypeOK /\ Regions /\ Layout /\ Chains

(* No call follows a link into memory that is overwritten or given up, so   *)
(* cache_impossible() is never reached: the oldest entry, the neighbour it  *)
(* is unlinked from and every entry a lookup visits are live.               *)
ReadsLive ==
  /\ pc = "set" /\ Full /\ ~Empty =>
       LET o == IF oldest = unused THEN hsize ELSE oldest
       IN o \in Live /\ link[o] \in Live \cup Heads
  /\ pc = "set" /\ ~Full =>
       LET h == hash(arg.key) IN link[h] # 0 => link[h] \in Live
  /\ pc = "get" => pos \in Live \cup {0} /\ prevpos \in Live \cup Heads

(* The memory is laid out as the calls expect that are under way.           *)
MemorySound == RingSound /\ ReadsLive

(* Both loops end.                                                          *)
CallsReturn == (pc # "idle") ~> (pc = "idle")

-----------------------------------------------------------------------------
(* The queue is read off the ring.                                          *)
Abs == INSTANCE CacheFifo WITH
  queue    <- [j \in 1..Len(queue) |-> item[queue[j]]],
  bytes    <- (unused - oldest) + (writer - hsize),
  call     <- IF pc = "set" THEN arg ELSE Miss,
  NoCall   <- Miss,
  Capacity <- size - hsize,
  Ttls     <- 1..MAXTTL,
  Chain    <- hash

(* The ring implements a first-in first-out cache: a lookup returns the     *)
(* newest entry for the key that was not dropped, entries are dropped in    *)
(* the order they came and only for want of room.                           *)
ImplementsFifo == Abs!Spec
=============================================================================
