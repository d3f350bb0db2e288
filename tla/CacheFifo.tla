------------------------------ MODULE CacheFifo ------------------------------
(***************************************************************************)
(* What dnscache may rely on in source/cache.c: a cache that forgets the    *)
(* oldest entries first, forgets only while it stores another one and lacks *)
(* room, and answers with the newest entry it still has for a key.          *)
(***************************************************************************)
EXTENDS Integers, Sequences, FiniteSets

CONSTANTS
  Keys, Data, Ttls, Times,
  NoCall, Miss,
  EntryLen(_, _),   \* bytes an entry takes
  Capacity,         \* bytes there are for entries
  Slack,            \* bytes that may be lost at the end of the ring
  Chain(_),         \* the hash chain a key is on
  MaxLoop           \* a lookup gives up after so many other entries of a chain

VARIABLES
  queue,   \* the entries, oldest first
  bytes,   \* what they take
  call, out, now

vars == <<queue, bytes, call, out, now>>

Init == queue = <<>> /\ bytes = 0 /\ call = NoCall /\ out = Miss /\ now \in Times

Tick ==
  /\ call = NoCall
  /\ now' \in {t \in Times : t > now}
  /\ UNCHANGED <<queue, bytes, call, out>>

Set(k, d, ttl) ==
  /\ call = NoCall
  /\ call' = [key |-> k, data |-> d, ttl |-> ttl]
  /\ UNCHANGED <<queue, bytes, out, now>>

Evict ==
  /\ call # NoCall /\ queue # <<>>
  /\ bytes + EntryLen(call.key, call.data) + Slack > Capacity
  /\ queue' = Tail(queue)
  /\ bytes' = bytes - EntryLen(Head(queue).key, Head(queue).data)
  /\ UNCHANGED <<call, out, now>>

Store ==
  /\ call # NoCall
  /\ queue' = Append(queue, [key |-> call.key, data |-> call.data,
                             expire |-> now + call.ttl])
  /\ bytes' = bytes + EntryLen(call.key, call.data)
  /\ call' = NoCall
  /\ UNCHANGED <<out, now>>

(* Only an entry larger than the whole cache is refused.                    *)
Refuse ==
  /\ call # NoCall
  /\ EntryLen(call.key, call.data) > Capacity
  /\ call' = NoCall
  /\ UNCHANGED <<queue, bytes, out, now>>

Get(k) ==
  /\ call = NoCall
  /\ LET hits  == {j \in 1..Len(queue) : queue[j].key = k}
         last  == CHOOSE j \in hits : \A h \in hits : h <= j
         e     == queue[last]
         depth == Cardinality({j \in last + 1..Len(queue) : Chain(queue[j].key) = Chain(k)})
     IN out' = [key    |-> k,
                answer |-> IF hits # {} /\ depth <= MaxLoop /\ e.expire >= now
                           THEN [data |-> e.data, ttl |-> e.expire - now]
                           ELSE Miss]
  /\ UNCHANGED <<queue, bytes, call, now>>

Next ==
  \/ Tick \/ Evict \/ Store \/ Refuse
  \/ \E k \in Keys, d \in Data, ttl \in Ttls : Set(k, d, ttl)
  \/ \E k \in Keys : Get(k)

Spec == Init /\ [][Next]_vars
==============================================================================
