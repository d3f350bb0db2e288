------------------------------ MODULE Dnscache ------------------------------
(***************************************************************************)
(* dnscache(8), source/dnscache.c: the tables u[] of UDP queries and t[] of *)
(* TCP connections, and the loop of doit() that polls them, lets each slot  *)
(* take a step and then takes one new packet and one new connection.        *)
(*                                                                         *)
(* query_start() and query_get() end in any of their results; what they do  *)
(* inside is not modelled here, nor the socket that a dropped query keeps   *)
(* until its slot is used again.  A full table drops its oldest slot before *)
(* it is known whether what comes deserves one.                             *)
(***************************************************************************)
EXTENDS Integers, Sequences, FiniteSets, FiniteSetsExt

CONSTANTS
  Clients,      \* addresses and ports of UDP clients
  Conns,        \* TCP connections, as descriptors: one comes back once it is closed
  None,
  MAXUDP, MAXTCP,
  MaxLen,       \* bound on the length of a query and of an answer over TCP
  MaxQueries    \* bound on numqueries

ASSUME DnscacheAssumption ==
  /\ IsFiniteSet(Clients) /\ IsFiniteSet(Conns) /\ Clients \cap Conns = {}
  /\ None \notin Clients \cup Conns
  /\ MAXUDP \in Nat \ {0} /\ MAXTCP \in Nat \ {0}
  /\ MaxLen \in Nat \ {0} /\ MaxQueries \in Nat \ {0}

VARIABLES
  pc, j,           \* where doit() is, and the slot that its loops are at
  u, uactive,
  t, tactive,
  ustart, tstart,  \* the slots in the order of their start times
  numqueries,
  stamped,         \* connections whose timeout had passed at the time stamp
  seen,            \* connections that the last poll() found ready
  late,            \* connections whose timeout has passed
  ready,           \* connections that can be read from or written to
  held,            \* open connections, and the number of live buffers
  log              \* history: what became of the queries

udp   == <<u, uactive, ustart>>
tcp   == <<t, tactive, tstart, held>>
polls == <<stamped, seen>>
world == <<late, ready>>
vars  == <<pc, j, udp, tcp, numqueries, polls, world, log>>

USlots == 1 .. MAXUDP
TSlots == 1 .. MAXTCP

(* In a slot that is not active nothing but the start time means anything.  *)
(* done says that query_get() is to return something else than 0.           *)
UFree == [active |-> 0, ip |-> None, done |-> FALSE]
TFree == [active |-> 0, tcp |-> None, state |-> 1, buf |-> FALSE, left |-> 0, done |-> FALSE]

(* What query_start() and query_get() return: 0 means "go on".              *)
Results == {-1, 0, 1}

-----------------------------------------------------------------------------
(* Slots                                                                    *)

(* Mutant: the arguments of taia_less() are swapped.                        *)
Oldest_Newest(start) == start[Len(start)]

(* The least of the start times; the first slot wins a tie.                 *)
Oldest(start) == Head(start)

Chosen(table, start) ==
  LET free == {k \in DOMAIN table : table[k].active = 0}
  IN IF free # {} THEN Min(free) ELSE Oldest(start)

(* taia_now(&x->start): the slots that were younger move up.                *)
Restarted(start, k) ==
  [i \in DOMAIN start |->
     IF i = Len(start) THEN k
     ELSE IF \E h \in 1 .. i : start[h] = k THEN start[i + 1] ELSE start[i]]

(* Mutant: the slot is taken over without u_drop().                         *)
Room_Over(k) == [uactive |-> uactive, lost |-> {}]

(* The slot is free, or u_drop() makes it so.                               *)
Room(k) ==
  IF u[k].active = 0
  THEN [uactive |-> uactive, lost |-> {}]
  ELSE [uactive |-> uactive - 1, lost |-> {u[k].active}]

(* An open query is logged with its asker.                                  *)
Answered(n, to, l) == [l EXCEPT ![n] = IF @ = to THEN "answered" ELSE "wrong"]
Dropped(ns, l) ==
  [n \in DOMAIN l |-> IF n \notin ns THEN l[n]
                      ELSE IF l[n] \in Clients \cup Conns THEN "dropped" ELSE "wrong"]
Asked(n, from, l) == [l EXCEPT ![n] = from]

-----------------------------------------------------------------------------
(* The loop                                                                 *)

Stamp ==
  /\ pc = "stamp"
  /\ stamped' = late /\ pc' = "poll"
  /\ UNCHANGED <<j, udp, tcp, numqueries, seen, world, log>>

(* Of a connection with a query, the query's socket is polled instead.      *)
Poll ==
  /\ pc = "poll"
  /\ seen' = {k \in ready : t[k].active # 0 /\ t[k].state # 0}
  /\ pc' = "udp" /\ j' = 1
  /\ UNCHANGED <<udp, tcp, numqueries, stamped, world, log>>

(* Mutant: the last slot is never looked at.                                *)
NextU_Short == IF j >= MAXUDP - 1 THEN pc' = "tcp" /\ j' = 1 ELSE pc' = pc /\ j' = j + 1

NextU == IF j = MAXUDP THEN pc' = "tcp" /\ j' = 1 ELSE pc' = pc /\ j' = j + 1
NextT ==
  IF j = MAXTCP
  THEN pc' = "new udp" /\ j' = 1 /\ stamped' = {} /\ seen' = {}
  ELSE pc' = pc /\ j' = j + 1 /\ UNCHANGED polls

SkipUdp ==
  /\ pc = "udp"
  /\ u[j].active # 0 => ~u[j].done
  /\ NextU
  /\ UNCHANGED <<udp, tcp, numqueries, polls, world, log>>

(* query_get() returned 1 or -1.                                            *)
EndUdp(r) ==
  /\ pc = "udp" /\ u[j].active # 0 /\ u[j].done
  /\ u' = [u EXCEPT ![j] = UFree]
  /\ uactive' = uactive - 1
  /\ log' = IF r = 1 THEN Answered(u[j].active, u[j].ip, log) ELSE Dropped({u[j].active}, log)
  /\ NextU
  /\ UNCHANGED <<ustart, tcp, numqueries, polls, world>>

-----------------------------------------------------------------------------
(* u_new()                                                                  *)

NoPacket ==
  /\ pc = "new udp" /\ pc' = "new tcp"
  /\ UNCHANGED <<j, udp, tcp, numqueries, polls, world, log>>

(* recv fails, or the packet is no query that dnscache answers.             *)
BadPacket ==
  /\ pc = "new udp" /\ pc' = "new tcp"
  /\ LET k == Chosen(u, ustart)
     IN /\ u' = [u EXCEPT ![k] = UFree]
        /\ uactive' = Room(k).uactive /\ ustart' = Restarted(ustart, k)
        /\ log' = Dropped(Room(k).lost, log)
  /\ UNCHANGED <<j, tcp, numqueries, polls, world>>

Packet(from, r) ==
  /\ pc = "new udp" /\ numqueries < MaxQueries
  /\ pc' = "new tcp"
  /\ numqueries' = numqueries + 1
  /\ LET k == Chosen(u, ustart)
         n == numqueries'
         l == Asked(n, from, Dropped(Room(k).lost, log))
     IN /\ u' = [u EXCEPT ![k] = IF r = 0 THEN [active |-> n, ip |-> from, done |-> FALSE]
                                 ELSE UFree]
        /\ uactive' = Room(k).uactive + (IF r = 0 THEN 1 ELSE 0)
        /\ ustart' = Restarted(ustart, k)
        /\ log' = CASE r = 0 -> l [] r = 1 -> Answered(n, from, l) [] r = -1 -> Dropped({n}, l)
  /\ UNCHANGED <<j, tcp, polls, world>>

-----------------------------------------------------------------------------
(* The slots of t[]                                                         *)

(* close() of a connection and alloc_free() of the buffer of its slot.      *)
Released(k) ==
  [conns |-> held.conns \ {t[k].tcp}, bufs |-> IF t[k].buf THEN held.bufs - 1 ELSE held.bufs]

(* t_close().                                                               *)
Close ==
  /\ t' = [t EXCEPT ![j] = TFree]
  /\ tactive' = tactive - 1
  /\ held' = Released(j)
  /\ late' = late \ {j} /\ ready' = ready \ {j}

(* t_timeout(): what is ready gives the connection another ten seconds.     *)
Renew(revents) == late' = IF revents THEN late \ {j} ELSE late

(* After a byte there may be another, or room for more.                     *)
Transferred ==
  /\ Renew(j \in seen)
  /\ ready' \in {ready, ready \ {j}}

(* Mutant: t_respond() does not free the buffer of the query.               *)
Reused_Leaks == held.bufs + 1

(* t_free() and alloc() of t_respond().                                     *)
Reused == (IF t[j].buf THEN held.bufs - 1 ELSE held.bufs) + 1

(* The rest of t_respond().  active stays as it is in the code; only that   *)
(* it is not 0 is looked at from here on.                                   *)
Respond ==
  /\ t' = [t EXCEPT ![j] = [@ EXCEPT !.active = 1, !.state = -1, !.buf = TRUE,
                                     !.left = MaxLen, !.done = FALSE]]
  /\ held' = [held EXCEPT !.bufs = Reused]
  /\ UNCHANGED tactive

(* Mutant: only what is ready is looked at.                                 *)
Due_Ready == seen

Due == seen \cup stamped

SkipTcp ==
  /\ pc = "tcp"
  /\ t[j].active = 0 \/ (t[j].state # 0 /\ j \notin Due)
  /\ NextT
  /\ UNCHANGED <<udp, tcp, numqueries, world, log>>

AtQuery == pc = "tcp" /\ t[j].active # 0 /\ t[j].state = 0

(* The query's socket may be ready and yet the query goes on.               *)
QueryGoesOn ==
  /\ AtQuery /\ ~t[j].done
  /\ \E revents \in BOOLEAN : Renew(revents)
  /\ NextT
  /\ UNCHANGED <<udp, tcp, numqueries, ready, log>>

(* query_get() returned -1, or t_respond() cannot allocate its buffer.      *)
QueryFails ==
  /\ AtQuery /\ t[j].done
  /\ Close /\ log' = Dropped({t[j].active}, log)
  /\ NextT
  /\ UNCHANGED <<udp, tstart, numqueries>>

(* An answer that came of the query's timeouts leaves the timeout of the    *)
(* connection as it is, however long ago it passed.                         *)
QueryAnswered ==
  /\ AtQuery /\ t[j].done
  /\ Respond /\ log' = Answered(t[j].active, t[j].tcp, log)
  /\ \E revents \in BOOLEAN : Renew(revents)
  /\ ready' \in {ready, ready \ {j}}
  /\ NextT
  /\ UNCHANGED <<udp, tstart, numqueries>>

(* t_rw() in one of its states.                                             *)
AtRw(state) ==
  /\ pc = "tcp" /\ t[j].active # 0 /\ t[j].state = state
  /\ j \in Due

(* Nothing to read, no room to write, an error or the end.                  *)
RwFails ==
  /\ \E state \in {-1, 1, 2, 3} : AtRw(state)
  /\ Close
  /\ NextT
  /\ UNCHANGED <<udp, tstart, numqueries, log>>

Write ==
  /\ AtRw(-1) /\ j \in ready
  /\ \E left \in 0 .. t[j].left - 1 :
       IF left > 0
       THEN t' = [t EXCEPT ![j].left = left] /\ UNCHANGED held
       ELSE /\ t' = [t EXCEPT ![j] = [@ EXCEPT !.left = 0, !.buf = FALSE, !.state = 1]]
            /\ held' = [held EXCEPT !.bufs = @ - 1]
  /\ Transferred /\ NextT
  /\ UNCHANGED <<udp, tactive, tstart, numqueries, log>>

ReadHigh ==
  /\ AtRw(1) /\ j \in ready
  /\ t' = [t EXCEPT ![j].state = 2]
  /\ Transferred /\ NextT
  /\ UNCHANGED <<udp, tactive, tstart, held, numqueries, log>>

(* A length of 0, and a failing alloc(), are failures as in RwFails.        *)
ReadLow(len) ==
  /\ AtRw(2) /\ j \in ready
  /\ t' = [t EXCEPT ![j] = [@ EXCEPT !.state = 3, !.buf = TRUE, !.left = len]]
  /\ held' = [held EXCEPT !.bufs = @ + 1]
  /\ Transferred /\ NextT
  /\ UNCHANGED <<udp, tactive, tstart, numqueries, log>>

ReadBody ==
  /\ AtRw(3) /\ j \in ready /\ t[j].left > 1
  /\ t' = [t EXCEPT ![j].left = @ - 1]
  /\ Transferred /\ NextT
  /\ UNCHANGED <<udp, tactive, tstart, held, numqueries, log>>

(* The last byte of a query that dnscache answers; of any other RwFails.    *)
ReadQuery(r) ==
  /\ AtRw(3) /\ j \in ready /\ t[j].left = 1
  /\ numqueries < MaxQueries /\ numqueries' = numqueries + 1
  /\ LET n == numqueries'
         l == Asked(n, t[j].tcp, log)
     IN \/ /\ r = -1
           /\ Close
           /\ log' = Dropped({n}, l)
        \/ /\ r = 1
           /\ Respond /\ Transferred
           /\ log' = Answered(n, t[j].tcp, l)
        \/ /\ r = 0
           /\ t' = [t EXCEPT ![j] = [@ EXCEPT !.active = n, !.state = 0, !.buf = FALSE, !.left = 0]]
           /\ held' = [held EXCEPT !.bufs = @ - 1]
           /\ Transferred
           /\ log' = l
           /\ UNCHANGED tactive
  /\ NextT
  /\ UNCHANGED <<udp, tstart>>

-----------------------------------------------------------------------------
(* t_new()                                                                  *)

NoConnection ==
  /\ pc = "new tcp" /\ pc' = "stamp"
  /\ UNCHANGED <<j, udp, tcp, numqueries, polls, world, log>>

(* Closes the oldest connection if there is no room, then fills the slot.   *)
NewSlot(k, slot) ==
  /\ t' = [t EXCEPT ![k] = slot]
  /\ tactive' = tactive - (IF t[k].active # 0 THEN 1 ELSE 0) + (IF slot.active # 0 THEN 1 ELSE 0)
  /\ held' = [Released(k) EXCEPT !.conns = @ \cup ({slot.tcp} \ {None})]
  /\ tstart' = Restarted(tstart, k)
  /\ log' = Dropped(IF t[k].active # 0 /\ t[k].state = 0 THEN {t[k].active} ELSE {}, log)
  /\ late' = late \ {k} /\ ready' = ready \ {k}
  /\ UNCHANGED <<j, udp, numqueries, polls>>

(* accept() fails, or the connection is closed at once.                     *)
BadConnection ==
  /\ pc = "new tcp" /\ pc' = "stamp"
  /\ LET k == Chosen(t, tstart)
     IN NewSlot(k, TFree)

Connection(c) ==
  /\ pc = "new tcp" /\ pc' = "stamp"
  /\ LET k == Chosen(t, tstart)
     IN /\ c \notin Released(k).conns
        /\ NewSlot(k, [TFree EXCEPT !.active = 1, !.tcp = c])

-----------------------------------------------------------------------------
(* Servers, clients and the clock                                           *)

QueryReady(k) ==
  /\ u[k].active # 0 /\ ~u[k].done
  /\ u' = [u EXCEPT ![k].done = TRUE]
  /\ UNCHANGED <<pc, j, uactive, ustart, tcp, numqueries, polls, world, log>>

TcpQueryReady(k) ==
  /\ t[k].active # 0 /\ t[k].state = 0 /\ ~t[k].done
  /\ t' = [t EXCEPT ![k].done = TRUE]
  /\ UNCHANGED <<pc, j, udp, tactive, tstart, held, numqueries, polls, world, log>>

Arrive(k) ==
  /\ t[k].active # 0 /\ k \notin ready
  /\ ready' = ready \cup {k}
  /\ UNCHANGED <<pc, j, udp, tcp, numqueries, polls, late, log>>

Expire(k) ==
  /\ t[k].active # 0 /\ k \notin late
  /\ late' = late \cup {k}
  /\ UNCHANGED <<pc, j, udp, tcp, numqueries, polls, ready, log>>

Init ==
  /\ pc = "stamp" /\ j = 1
  /\ u = [k \in USlots |-> UFree] /\ uactive = 0 /\ ustart = [k \in USlots |-> k]
  /\ t = [k \in TSlots |-> TFree] /\ tactive = 0 /\ tstart = [k \in TSlots |-> k]
  /\ numqueries = 0 /\ stamped = {} /\ seen = {} /\ late = {} /\ ready = {}
  /\ held = [conns |-> {}, bufs |-> 0]
  /\ log = [n \in 1 .. MaxQueries |-> None]

u_new == NoPacket \/ BadPacket \/ \E c \in Clients, r \in Results : Packet(c, r)

t_rw ==
  \/ RwFails \/ Write \/ ReadHigh \/ ReadBody
  \/ \E len \in 1 .. MaxLen : ReadLow(len)
  \/ \E r \in Results : ReadQuery(r)

t_new == NoConnection \/ BadConnection \/ \E c \in Conns : Connection(c)

Doit ==
  \/ Stamp \/ Poll
  \/ SkipUdp \/ \E r \in {-1, 1} : EndUdp(r)
  \/ SkipTcp \/ QueryGoesOn \/ QueryFails \/ QueryAnswered \/ t_rw
  \/ u_new \/ t_new

World ==
  \/ \E k \in USlots : QueryReady(k)
  \/ \E k \in TSlots : TcpQueryReady(k) \/ Arrive(k) \/ Expire(k)

Next == Doit \/ World

Spec == Init /\ [][Next]_vars

(* dnscache runs, time passes, and every query ends (dns_transmit and the    *)
(* counters of query.c see to that).  Clients need not send or read.        *)
LiveSpec ==
  /\ Spec
  /\ WF_vars(Doit)
  /\ \A k \in USlots : WF_vars(QueryReady(k))
  /\ \A k \in TSlots : WF_vars(TcpQueryReady(k)) /\ WF_vars(Expire(k))

-----------------------------------------------------------------------------
Permutes(order, slots) ==
  Len(order) = Cardinality(slots) /\ {order[i] : i \in 1 .. Len(order)} = slots

TypeOK ==
  /\ pc \in {"stamp", "poll", "udp", "tcp", "new udp", "new tcp"}
  /\ j \in 1 .. (IF pc = "udp" THEN MAXUDP ELSE IF pc = "tcp" THEN MAXTCP ELSE 1)
  /\ u \in [USlots -> [active : 0 .. MaxQueries, ip : Clients \cup {None}, done : BOOLEAN]]
  /\ t \in [TSlots -> [active : 0 .. MaxQueries, tcp : Conns \cup {None}, state : -1 .. 3,
                       buf : BOOLEAN, left : 0 .. MaxLen, done : BOOLEAN]]
  /\ Permutes(ustart, USlots) /\ Permutes(tstart, TSlots)
  /\ numqueries \in 0 .. MaxQueries
  /\ stamped \subseteq TSlots /\ seen \subseteq TSlots
  /\ late \subseteq TSlots /\ ready \subseteq TSlots
  /\ log \in [1 .. MaxQueries -> {None, "answered", "dropped", "wrong"} \cup Clients \cup Conns]

AtWork(k)   == u[k].active # 0
TAtWork(k)  == t[k].active # 0 /\ t[k].state = 0

(* Every query is answered, to the one who asked, or dropped, or it is in   *)
(* exactly one slot, with the address of the one who asked: no slot is used *)
(* again under a query, nothing is answered twice or to another client, and *)
(* uactive and tactive, which the log shows, are the slots in use.          *)
QueriesTabled ==
  /\ \A n \in 1 .. numqueries :
       LET us == {k \in USlots : AtWork(k) /\ u[k].active = n}
           ts == {k \in TSlots : TAtWork(k) /\ t[k].active = n}
       IN \/ log[n] \in {"answered", "dropped"} /\ us = {} /\ ts = {}
          \/ /\ Cardinality(us) + Cardinality(ts) = 1
             /\ \A k \in us : u[k].ip = log[n]
             /\ \A k \in ts : t[k].tcp = log[n]
  /\ uactive = Cardinality({k \in USlots : u[k].active # 0})
  /\ tactive = Cardinality({k \in TSlots : t[k].active # 0})

(* The descriptors and buffers of TCP clients are those of the active slots *)
(* and the states the comment above t_free() gives a buffer, on every way a *)
(* connection ends.                                                         *)
NoLeak ==
  /\ TypeOK
  /\ held.conns = {t[k].tcp : k \in {i \in TSlots : t[i].active # 0}}
  /\ Cardinality(held.conns) = tactive
  /\ held.bufs = Cardinality({k \in TSlots : t[k].buf})
  /\ \A k \in TSlots : t[k].buf <=> t[k].active # 0 /\ t[k].state \in {-1, 3}
  /\ \A k \in TSlots : t[k].buf => t[k].left > 0

(* The tables hold each query once, and all that was allocated for it.      *)
TablesSound == QueriesTabled /\ NoLeak

(* "If a new UDP query arrives when dnscache is already handling 200         *)
(* simultaneous UDP queries, dnscache drops the oldest query": a UDP query   *)
(* whose own end has not come is dropped only then, and the oldest goes.    *)
DropsOldest ==
  [][\A k \in USlots :
       (AtWork(k) /\ ~u[k].done /\ u'[k].active # u[k].active) =>
         \A i \in USlots : u[i].active >= u[k].active]_vars

(* Every query has an end, also when answers come late, tables are full and *)
(* clients say nothing.                                                     *)
QueriesEnd ==
  \A n \in 1 .. MaxQueries :
    (n <= numqueries) ~> (log[n] \in {"answered", "dropped"})

(* No connection keeps a slot when it is silent for longer than its timeout. *)
SilenceEnds ==
  \A k \in TSlots :
    (k \in late /\ t[k].state # 0) ~> (k \notin late \/ t[k].state = 0)

=============================================================================
