---------------------------- MODULE DnsTransmit ----------------------------
(***************************************************************************)
(* One DNS query of dns_transmit.c: thisudp() and thistcp() walk over the  *)
(* servers, dns_transmit_get() makes one step after each poll(), and the   *)
(* caller is the loop of dns_resolve_servers_nospecials().                 *)
(*                                                                         *)
(* The struct dns_transmit is the record d; pointers and the descriptor    *)
(* are booleans, and d.fds and d.mem count the open sockets and the live   *)
(* allocations, so that a socket or a block that nothing points to shows.  *)
(* Time is only what the code compares: has the deadline passed (late),    *)
(* and had it passed when the caller took its time stamp (when).           *)
(***************************************************************************)
EXTENDS Naturals, FiniteSets

CONSTANTS
    Count,      \* server_count
    QueryLen,   \* bytes that write() sends over TCP, in as many calls as it likes
    MaxLen,     \* bound on the length a TCP server announces
    PosBound,   \* bound on d->pos once it is past the end of the query
    Noise,      \* bound on the packets per query that make no step
    AtOnce      \* may connect() succeed without EINPROGRESS?

ASSUME CountsAssumption ==
    /\ Count \in Nat
    /\ QueryLen \in Nat \ {0}
    /\ MaxLen \in Nat
    /\ PosBound \in Nat
    /\ QueryLen <= PosBound
    /\ MaxLen <= PosBound
    /\ Noise \in Nat
    /\ AtOnce \in BOOLEAN

VARIABLES
    d,          \* the struct, and what the process has open and allocated
    pc,         \* where the caller or the library is
    asked,      \* what dns_transmit_start() was given: the servers whose address
                \* is not "unassigned", and the first round of sends
    late,       \* now is not before d->deadline
    when,       \* neither was the time stamp that the caller passes
    pending,    \* the socket is ready for what is polled
    revents,    \* what the last poll() reported
    inTime,     \* history: something arrived before the deadline
    tries,      \* history: sends or connects per round and server
    wired,      \* history: bytes written to the TCP connection
    answer,     \* history: the last packet that was examined
    broke,      \* history: a call failed that ends the query at once
    noise       \* packets that made no step so far

vars == <<d, pc, asked, late, when, pending, revents, inTime, tries, wired, answer, broke, noise>>
clock == <<late, when, pending, revents, inTime>>

Servers == 0 .. Count - 1
TCP == 4    \* the "round" of a try over TCP in the history
Slots == (0 .. TCP) \X Servers

\* What irrelevant(), serverwantstcp() and serverfailed() say of a packet.
Answers == [relevant : BOOLEAN, wantstcp : BOOLEAN, failed : BOOLEAN]
Good_Truncated(a) == a.relevant /\ ~a.failed
Good(a) == a.relevant /\ ~a.wantstcp /\ ~a.failed

Struct == [s1 : BOOLEAN, query : BOOLEAN, packet : BOOLEAN, fds : Nat, mem : Nat,
           tcpstate : 0 .. 5, udploop : 0 .. 4, current_server : 0 .. Count,
           pos : 0 .. PosBound, packetlen : 0 .. MaxLen]

TypeOK ==
    /\ d \in Struct
    /\ pc \in {"idle", "udp", "tcp", "stamp", "poll", "get", "answered", "failed"}
    /\ asked \in [servers : SUBSET Servers, first : 0 .. 1]
    /\ late \in BOOLEAN /\ when \in BOOLEAN /\ pending \in BOOLEAN
    /\ revents \in BOOLEAN /\ inTime \in BOOLEAN /\ broke \in BOOLEAN
    /\ tries \in [Slots -> Nat]
    /\ wired \in 0 .. PosBound
    /\ answer \in Answers
    /\ noise \in 0 .. Noise

-----------------------------------------------------------------------------
(* Releasing what the struct holds.                                        *)

One(held) == IF held THEN 1 ELSE 0

packetfree(x) == [x EXCEPT !.packet = FALSE, !.mem = @ - One(x.packet)]
queryfree(x) == [x EXCEPT !.query = FALSE, !.mem = @ - One(x.query)]
socketfree(x) == [x EXCEPT !.s1 = FALSE, !.fds = @ - One(x.s1)]
dns_transmit_free(x) == packetfree(socketfree(queryfree(x)))

\* "dns_transmit_free(d); return -1;"
Die(x, fault) ==
    /\ d' = dns_transmit_free(x)
    /\ pc' = "failed"
    /\ broke' = fault
    /\ pending' = FALSE
    /\ UNCHANGED <<asked, late, when, revents, inTime, tries, wired>>

\* Entering the loops of thisudp() and thistcp().
ThisUdp(x) ==
    /\ d' = socketfree(x)
    /\ pc' = "udp"
    /\ pending' = FALSE
    /\ UNCHANGED <<asked, late, when, revents, inTime, tries, wired, broke>>

\* Mutant: the packet of the last server is not freed.
ThisTcp_Keeps(x) ==
    /\ d' = socketfree(x)
    /\ pc' = "tcp"
    /\ pending' = FALSE
    /\ UNCHANGED <<asked, late, when, revents, inTime, tries, wired, broke>>

ThisTcp(x) ==
    /\ d' = packetfree(socketfree(x))
    /\ pc' = "tcp"
    /\ pending' = FALSE
    /\ UNCHANGED <<asked, late, when, revents, inTime, tries, wired, broke>>

First(x) == [x EXCEPT !.current_server = 0]
NextServer(x) == [x EXCEPT !.current_server = @ + 1]

\* Mutant: TCP from where UDP was.
firsttcp_Here == ThisTcp(d)

nextudp == ThisUdp(NextServer(d))
firsttcp == ThisTcp(First(d))
nexttcp == ThisTcp(NextServer(d))

-----------------------------------------------------------------------------
(* The caller.                                                             *)

Started(x, first) ==
    [dns_transmit_free(x) EXCEPT !.query = TRUE, !.mem = @ + 1,
        !.udploop = first, !.current_server = 0]

\* dns_transmit_start(): over TCP at once if the query is long for UDP.
dns_transmit_start ==
    /\ pc \in {"idle", "answered", "failed"}
    /\ asked' \in [servers : SUBSET Servers, first : 0 .. 1]
    /\ tries' = [s \in Slots |-> 0]
    /\ noise' = 0
    /\ UNCHANGED <<late, when, revents, inTime, pending, wired, answer>>
    /\ \/ \E long \in BOOLEAN :
            /\ d' = Started(d, asked'.first)
            /\ pc' = IF long THEN "tcp" ELSE "udp"
            /\ broke' = FALSE
       \/ \* alloc() fails
          /\ d' = dns_transmit_free(d)
          /\ pc' = "failed"
          /\ broke' = TRUE

\* The owner gives up the query, or is done with the packet.
Free ==
    /\ pc \in {"stamp", "answered"}
    /\ d' = dns_transmit_free(d)
    /\ pc' = "idle"
    /\ pending' = FALSE
    /\ UNCHANGED <<asked, late, when, revents, inTime, tries, wired, answer, broke, noise>>

\* taia_now(&stamp) and dns_transmit_io().
Stamp ==
    /\ pc = "stamp"
    /\ when' = late
    /\ pc' = "poll"
    /\ UNCHANGED <<d, asked, late, pending, revents, inTime, tries, wired, answer, broke, noise>>

\* iopause(), which returns early for a signal or for another descriptor.
Poll ==
    /\ pc = "poll"
    /\ revents' = pending
    /\ pc' = "get"
    /\ UNCHANGED <<d, asked, late, when, pending, inTime, tries, wired, answer, broke, noise>>

-----------------------------------------------------------------------------
(* thisudp() and thistcp(): one turn of their loops.                       *)

Here == <<IF pc = "tcp" THEN TCP ELSE d.udploop, d.current_server>>
AtServer == d.current_server < Count /\ d.current_server \in asked.servers

\* A socket was opened to the current server and is to be waited for.
Waiting(state) ==
    /\ d' = [d EXCEPT !.s1 = TRUE, !.fds = @ + 1, !.tcpstate = state]
    /\ pc' = "stamp"
    /\ wired' = 0
    /\ late' = FALSE
    /\ when' = FALSE
    /\ inTime' = FALSE
    /\ UNCHANGED <<pending, revents, broke>>

\* The socket was opened and closed again: bind(), connect() or send() failed.
Refused ==
    /\ d' = NextServer(d)
    /\ UNCHANGED <<pc, clock, wired, broke>>

Tried == tries' = [tries EXCEPT ![Here] = @ + 1]

SendUdp ==
    /\ pc = "udp" /\ d.udploop < 4 /\ AtServer
    /\ Tried
    /\ Waiting(0) \/ Refused
    /\ UNCHANGED <<asked, answer, noise>>

ConnectTcp ==
    /\ pc = "tcp" /\ AtServer
    /\ Tried
    /\ Waiting(1) \/ (AtOnce /\ Waiting(2)) \/ Refused
    /\ UNCHANGED <<asked, answer, noise>>

\* socket() fails, or over TCP no port can be bound: the query ends.
NoSocket ==
    /\ pc \in {"udp", "tcp"} /\ (pc = "udp" => d.udploop < 4) /\ AtServer
    /\ Die(d, TRUE)
    /\ UNCHANGED <<answer, noise>>

\* Mutant: the end of the list is not looked for.
SkipUnassigned_NoEnd ==
    /\ pc \in {"udp", "tcp"} /\ (pc = "udp" => d.udploop < 4)
    /\ d.current_server \notin asked.servers
    /\ d' = NextServer(d)
    /\ UNCHANGED <<pc, asked, clock, tries, wired, answer, broke, noise>>

SkipUnassigned ==
    /\ pc \in {"udp", "tcp"} /\ (pc = "udp" => d.udploop < 4)
    /\ d.current_server < Count /\ d.current_server \notin asked.servers
    /\ d' = NextServer(d)
    /\ UNCHANGED <<pc, asked, clock, tries, wired, answer, broke, noise>>

NextRound ==
    /\ pc = "udp" /\ d.udploop < 4 /\ d.current_server >= Count
    /\ d' = [d EXCEPT !.udploop = @ + 1, !.current_server = 0]
    /\ UNCHANGED <<pc, asked, clock, tries, wired, answer, broke, noise>>

Exhausted ==
    /\ \/ pc = "udp" /\ d.udploop = 4
       \/ pc = "tcp" /\ d.current_server >= Count
    /\ Die(d, FALSE)
    /\ UNCHANGED <<answer, noise>>

-----------------------------------------------------------------------------
(* dns_transmit_get(): one step after a poll().                            *)

Got == pc = "get" /\ revents

\* "return 0;": the caller goes on waiting, with the socket not ready again
\* until something else arrives.
WaitOn(x) ==
    /\ d' = x
    /\ pc' = "stamp"
    /\ pending' = FALSE
    /\ inTime' = FALSE
    /\ UNCHANGED <<asked, when, revents, tries, broke>>

\* The packet is left aside, and the socket waits for another one.
Ignore ==
    /\ noise < Noise
    /\ noise' = noise + 1
    /\ WaitOn(d)
    /\ UNCHANGED <<late, wired>>

\* Mutants: the clock is read after the poll(), and a TCP server may be silent
\* for ever.
NotReady_Now ==
    /\ pc = "get" /\ ~revents
    /\ IF ~late
       THEN pc' = "stamp" /\ UNCHANGED <<d, pending, asked, late, when, revents, inTime, tries, wired, broke>>
       ELSE IF d.tcpstate = 0 THEN nextudp ELSE nexttcp
    /\ UNCHANGED <<answer, noise>>

NotReady_UdpOnly ==
    /\ pc = "get" /\ ~revents
    /\ IF ~when \/ d.tcpstate # 0
       THEN pc' = "stamp" /\ UNCHANGED <<d, pending, asked, late, when, revents, inTime, tries, wired, broke>>
       ELSE nextudp
    /\ UNCHANGED <<answer, noise>>

\* Only the deadline has brought the caller here, or nothing at all has.
NotReady ==
    /\ pc = "get" /\ ~revents
    /\ IF ~when
       THEN pc' = "stamp" /\ UNCHANGED <<d, pending, asked, late, when, revents, inTime, tries, wired, broke>>
       ELSE IF d.tcpstate = 0 THEN nextudp ELSE nexttcp
    /\ UNCHANGED <<answer, noise>>

\* recv() reports an error; in the third round a refused query is not given up.
RecvError ==
    /\ Got /\ d.tcpstate = 0
    /\ \/ nextudp /\ UNCHANGED noise
       \/ d.udploop = 2 /\ Ignore
    /\ UNCHANGED answer

RecvTooLong == Got /\ d.tcpstate = 0 /\ Ignore /\ UNCHANGED answer

\* dns_transmit_set() after the socket has been closed.
Answered(x) ==
    /\ d' = queryfree(x)
    /\ pc' = "answered"
    /\ pending' = FALSE
    /\ UNCHANGED <<asked, late, when, revents, inTime, tries, wired, broke>>

RecvAnswer(a) ==
    /\ Got /\ d.tcpstate = 0
    /\ answer' = a
    /\ \/ ~a.relevant /\ Ignore
       \/ a.relevant /\ a.wantstcp /\ firsttcp /\ UNCHANGED noise
       \/ /\ a.relevant /\ ~a.wantstcp /\ a.failed
          /\ IF d.udploop = 2 THEN Ignore ELSE nextudp /\ UNCHANGED noise
       \/ /\ Good(a)
          /\ \/ Answered([socketfree(d) EXCEPT !.packet = TRUE, !.mem = @ + 1])
             \/ Die(d, TRUE)
          /\ UNCHANGED noise

Connected ==
    /\ Got /\ d.tcpstate = 1
    /\ \/ WaitOn([d EXCEPT !.pos = 0, !.tcpstate = 2]) /\ UNCHANGED <<late, wired>>
       \/ nexttcp
    /\ UNCHANGED <<answer, noise>>

\* write() takes some of what is left of the query.  If d->pos is past its
\* end, the length wraps around and write() goes on with what lies behind.
Written(r) ==
    /\ wired' = IF wired + r <= PosBound THEN wired + r ELSE PosBound
    /\ IF d.pos + r = QueryLen
       THEN WaitOn([d EXCEPT !.pos = @ + r, !.tcpstate = 3]) /\ late' = FALSE
       ELSE WaitOn([d EXCEPT !.pos = @ + r]) /\ UNCHANGED late

WriteQuery ==
    /\ Got /\ d.tcpstate = 2
    /\ \/ \E r \in 1 .. PosBound :
            /\ d.pos + r <= (IF d.pos <= QueryLen THEN QueryLen ELSE PosBound)
            /\ Written(r)
       \/ nexttcp
    /\ UNCHANGED <<answer, noise>>

ReadLength ==
    /\ Got /\ d.tcpstate = 3
    /\ (WaitOn([d EXCEPT !.tcpstate = 4]) /\ UNCHANGED <<late, wired>>) \/ nexttcp
    /\ UNCHANGED <<answer, noise>>

ReadLength2(len) ==
    /\ Got /\ d.tcpstate = 4
    /\ \/ /\ WaitOn([d EXCEPT !.tcpstate = 5, !.pos = 0, !.packetlen = len,
                              !.packet = TRUE, !.mem = @ + 1])
          /\ UNCHANGED <<late, wired>>
       \/ Die(d, TRUE)
       \/ nexttcp
    /\ UNCHANGED <<answer, noise>>

\* A read() that leaves the packet incomplete, or fails.
ReadSome ==
    /\ Got /\ d.tcpstate = 5
    /\ \/ \E r \in 1 .. MaxLen :
            /\ d.pos + r < d.packetlen
            /\ WaitOn([d EXCEPT !.pos = @ + r]) /\ UNCHANGED <<late, wired>>
       \/ nexttcp
    /\ UNCHANGED <<answer, noise>>

ReadAnswer(a) ==
    /\ Got /\ d.tcpstate = 5 /\ d.pos < d.packetlen
    /\ answer' = a
    /\ IF Good(a) THEN Answered([socketfree(d) EXCEPT !.pos = d.packetlen])
       ELSE nexttcp
    /\ UNCHANGED noise

-----------------------------------------------------------------------------
(* The network and the clock.                                              *)

\* The socket becomes ready: a packet, an error, room, or the end of the data.
Arrive ==
    /\ d.s1 /\ ~pending
    /\ pending' = TRUE
    /\ inTime' = ~late
    /\ UNCHANGED <<d, pc, asked, late, when, revents, tries, wired, answer, broke, noise>>

Expire ==
    /\ d.s1 /\ ~late
    /\ late' = TRUE
    /\ UNCHANGED <<d, pc, asked, when, pending, revents, inTime, tries, wired, answer, broke, noise>>

Init ==
    /\ d = [s1 |-> FALSE, query |-> FALSE, packet |-> FALSE, fds |-> 0, mem |-> 0,
            tcpstate |-> 0, udploop |-> 0, current_server |-> 0, pos |-> 0, packetlen |-> 0]
    /\ pc = "idle"
    /\ asked = [servers |-> {}, first |-> 0]
    /\ late = FALSE /\ when = FALSE /\ pending = FALSE /\ revents = FALSE
    /\ inTime = FALSE /\ broke = FALSE
    /\ tries = [s \in Slots |-> 0]
    /\ wired = 0
    /\ answer = [relevant |-> FALSE, wantstcp |-> FALSE, failed |-> FALSE]
    /\ noise = 0

dns_transmit_get ==
    \/ NotReady \/ RecvError \/ RecvTooLong \/ Connected \/ WriteQuery
    \/ ReadLength \/ ReadSome
    \/ \E len \in 0 .. MaxLen : ReadLength2(len)
    \/ \E a \in Answers : RecvAnswer(a) \/ ReadAnswer(a)

Library ==
    \/ SendUdp \/ ConnectTcp \/ NoSocket \/ SkipUnassigned \/ NextRound \/ Exhausted
    \/ Stamp \/ Poll \/ dns_transmit_get

Next == dns_transmit_start \/ Free \/ Library \/ Arrive \/ Expire

Spec == Init /\ [][Next]_vars

FairSpec == Spec /\ WF_vars(Library) /\ WF_vars(Expire)

-----------------------------------------------------------------------------
(* Properties.                                                             *)

InCall == pc \in {"stamp", "poll", "get"}

\* Whatever happens, the process has open and allocated what the struct points
\* to and nothing else: no path through the loops forgets a socket or a block.
NoLeak ==
    /\ d.fds = One(d.s1)
    /\ d.mem = One(d.query) + One(d.packet)

\* What the results promise.  0: there is a socket to poll and a query to send
\* again, and a block for the packet once its length is known.  1: there is
\* only the packet, and it answers this question, is whole, and reports no
\* failure of the server.  -1: there is nothing left to free.
Returns ==
    /\ InCall => d.s1 /\ d.query /\ (d.packet <=> d.tcpstate = 5)
    /\ pc = "answered" =>
        /\ d.packet /\ ~d.s1 /\ ~d.query
        /\ answer.relevant /\ ~answer.wantstcp /\ ~answer.failed
    /\ pc = "failed" => ~d.s1 /\ ~d.query /\ ~d.packet

\* After every call the struct holds what it points to, and what the result
\* of the call says.
CallsSound == TypeOK /\ NoLeak /\ Returns

\* No server is asked twice in a round, or twice over TCP.
OneTry == \A s \in Slots : tries[s] <= 1

\* A query that nobody's resource failure has ended fails only after every
\* server had its turn: in each round, or over TCP.
AllTried ==
    pc = "failed" /\ ~broke =>
        \A s \in asked.servers :
            IF d.udploop = 4 THEN \A l \in asked.first .. 3 : tries[<<l, s>>] = 1
            ELSE tries[<<TCP, s>>] = 1

\* Nobody is asked twice and nobody is forgotten, whatever ends a try.
EachOnce == OneTry /\ AllTried

\* A server is not given up as silent while a packet of his lies in the socket
\* that came before the deadline, whatever the poll() returned for.
NoAnswerLost ==
    [][pc = "get" /\ ~revents /\ pc' \in {"udp", "tcp"} => ~(pending /\ inTime)]_vars

\* What the comments in dns_transmit_get() say of tcpstate: pos bytes of the
\* query are sent in state 2, and all of it from state 3 on.
SentAsSaid ==
    InCall => /\ d.tcpstate = 2 => wired = d.pos
              /\ d.tcpstate \in 3 .. 5 => wired = QueryLen

\* Every query ends, in an answer, in failure or because its owner drops it,
\* if only finitely many packets are irrelevant.
Ends == (pc \in {"udp", "tcp", "stamp"}) ~> (pc \in {"answered", "failed", "idle"})
=============================================================================
