------------------------- MODULE DnsTransmitProofs -------------------------
(***************************************************************************)
(* Proofs about DnsTransmit, for every number of servers and every bound:  *)
(* nothing is leaked, the results are what they promise, and no answer     *)
(* that came in time is dropped as a timeout.                              *)
(***************************************************************************)
EXTENDS DnsTransmit, TLAPS

\* The ledger of a struct.
Balanced(x) ==
    /\ x.fds = One(x.s1)
    /\ x.mem = One(x.query) + One(x.packet)

\* Outside the calls: the loops hold the query only, and a server that is
\* waited for is one of the list.
Inside ==
    /\ pc \in {"udp", "tcp"} => ~d.s1 /\ d.query /\ ~d.packet
    /\ pc = "idle" => ~d.s1 /\ ~d.query /\ ~d.packet
    /\ InCall => d.current_server < Count

\* A time stamp past the deadline was taken when the deadline had passed, and
\* what a fruitless poll() missed came after that.
Stamped ==
    /\ pc \in {"poll", "get"} /\ when => late
    /\ pc = "get" /\ ~revents /\ when => ~(pending /\ inTime)

IInv == TypeOK /\ NoLeak /\ Returns /\ Inside /\ Stamped

-----------------------------------------------------------------------------
(* What freeing does to a balanced struct.                                 *)

LEMMA SocketFree ==
    ASSUME NEW x \in Struct, Balanced(x)
    PROVE  /\ socketfree(x) \in Struct /\ Balanced(socketfree(x))
           /\ ~socketfree(x).s1
           /\ socketfree(x).query = x.query /\ socketfree(x).packet = x.packet /\ socketfree(x).mem = x.mem /\ socketfree(x).tcpstate = x.tcpstate /\ socketfree(x).current_server = x.current_server
<1> DEFINE y == socketfree(x)
<1>1. x.s1 \in BOOLEAN /\ x.fds \in Nat /\ x.fds - One(x.s1) \in Nat
    BY DEF Struct, Balanced, One
<1>2. y.s1 = FALSE /\ y.fds = x.fds - One(x.s1)
    BY DEF socketfree, Struct
<1>3. y.query = x.query /\ y.packet = x.packet /\ y.mem = x.mem /\ y.tcpstate = x.tcpstate /\ y.current_server = x.current_server
    BY DEF socketfree, Struct
<1>4. y \in Struct
    BY <1>1 DEF socketfree, Struct
<1>5. Balanced(y)
    BY <1>1, <1>2, <1>3 DEF Balanced, One, Struct
<1> QED BY <1>2, <1>3, <1>4, <1>5

LEMMA PacketFree ==
    ASSUME NEW x \in Struct, Balanced(x)
    PROVE  /\ packetfree(x) \in Struct /\ Balanced(packetfree(x))
           /\ ~packetfree(x).packet
           /\ packetfree(x).query = x.query /\ packetfree(x).s1 = x.s1 /\ packetfree(x).fds = x.fds /\ packetfree(x).tcpstate = x.tcpstate /\ packetfree(x).current_server = x.current_server
<1> DEFINE y == packetfree(x)
<1>1. x.packet \in BOOLEAN /\ x.mem \in Nat /\ x.mem - One(x.packet) \in Nat
    BY DEF Struct, Balanced, One
<1>2. y.packet = FALSE /\ y.mem = x.mem - One(x.packet)
    BY DEF packetfree, Struct
<1>3. y.query = x.query /\ y.s1 = x.s1 /\ y.fds = x.fds /\ y.tcpstate = x.tcpstate /\ y.current_server = x.current_server
    BY DEF packetfree, Struct
<1>4. y \in Struct
    BY <1>1 DEF packetfree, Struct
<1>5. Balanced(y)
    BY <1>1, <1>2, <1>3 DEF Balanced, One, Struct
<1> QED BY <1>2, <1>3, <1>4, <1>5

LEMMA QueryFree ==
    ASSUME NEW x \in Struct, Balanced(x)
    PROVE  /\ queryfree(x) \in Struct /\ Balanced(queryfree(x))
           /\ ~queryfree(x).query
           /\ queryfree(x).packet = x.packet /\ queryfree(x).s1 = x.s1 /\ queryfree(x).fds = x.fds /\ queryfree(x).tcpstate = x.tcpstate
<1> DEFINE y == queryfree(x)
<1>1. x.query \in BOOLEAN /\ x.mem \in Nat /\ x.mem - One(x.query) \in Nat
    BY DEF Struct, Balanced, One
<1>2. y.query = FALSE /\ y.mem = x.mem - One(x.query)
    BY DEF queryfree, Struct
<1>3. y.packet = x.packet /\ y.s1 = x.s1 /\ y.fds = x.fds /\ y.tcpstate = x.tcpstate
    BY DEF queryfree, Struct
<1>4. y \in Struct
    BY <1>1 DEF queryfree, Struct
<1>5. Balanced(y)
    BY <1>1, <1>2, <1>3 DEF Balanced, One, Struct
<1> QED BY <1>2, <1>3, <1>4, <1>5

LEMMA FreeAll ==
    ASSUME NEW x \in Struct, Balanced(x)
    PROVE  /\ dns_transmit_free(x) \in Struct /\ Balanced(dns_transmit_free(x))
           /\ ~dns_transmit_free(x).s1 /\ ~dns_transmit_free(x).query
           /\ ~dns_transmit_free(x).packet
BY SocketFree, PacketFree, QueryFree DEF dns_transmit_free

-----------------------------------------------------------------------------
(* The ways on that the actions share.                                     *)

Seen == answer' \in Answers /\ noise' \in 0 .. Noise

LEMMA DieKeeps ==
    ASSUME IInv, Seen, NEW fault \in BOOLEAN, Die(d, fault)
    PROVE  IInv'
<1>1. d \in Struct /\ Balanced(d)
    BY DEF IInv, TypeOK, NoLeak, Balanced
<1>2. d' \in Struct /\ Balanced(d)' /\ ~d'.s1 /\ ~d'.query /\ ~d'.packet
    BY <1>1, FreeAll DEF Die, Balanced
<1>3. TypeOK' /\ NoLeak'
    BY <1>2 DEF IInv, TypeOK, NoLeak, Balanced, Die, Seen
<1>4. Returns' /\ Inside' /\ Stamped'
    BY <1>2 DEF Die, Returns, Inside, Stamped, InCall
<1> QED BY <1>3, <1>4 DEF IInv

LEMMA UdpKeeps ==
    ASSUME IInv, Seen, NEW x \in Struct, Balanced(x), x.query, ~x.packet, ThisUdp(x)
    PROVE  IInv'
<1>1. d' \in Struct /\ Balanced(d)' /\ ~d'.s1 /\ d'.query /\ ~d'.packet
    BY SocketFree DEF ThisUdp, Balanced
<1>2. TypeOK' /\ NoLeak'
    BY <1>1 DEF IInv, TypeOK, NoLeak, Balanced, ThisUdp, Seen
<1>3. Returns' /\ Inside' /\ Stamped'
    BY <1>1 DEF ThisUdp, Returns, Inside, Stamped, InCall
<1> QED BY <1>2, <1>3 DEF IInv

LEMMA TcpKeeps ==
    ASSUME IInv, Seen, NEW x \in Struct, Balanced(x), x.query, ThisTcp(x)
    PROVE  IInv'
<1>1. d' \in Struct /\ Balanced(d)' /\ ~d'.s1 /\ d'.query /\ ~d'.packet
    BY SocketFree, PacketFree DEF ThisTcp, Balanced
<1>2. TypeOK' /\ NoLeak'
    BY <1>1 DEF IInv, TypeOK, NoLeak, Balanced, ThisTcp, Seen
<1>3. Returns' /\ Inside' /\ Stamped'
    BY <1>1 DEF ThisTcp, Returns, Inside, Stamped, InCall
<1> QED BY <1>2, <1>3 DEF IInv

LEMMA WaitKeeps ==
    ASSUME IInv, Seen, NEW x \in Struct, Balanced(x), x.s1, x.query,
           x.packet <=> x.tcpstate = 5, x.current_server < Count,
           WaitOn(x), late' \in BOOLEAN, wired' \in 0 .. PosBound
    PROVE  IInv'
<1>1. d' = x
    BY DEF WaitOn
<1>2. TypeOK' /\ NoLeak'
    BY <1>1 DEF IInv, TypeOK, NoLeak, Balanced, WaitOn, Seen
<1>3. Returns' /\ Inside' /\ Stamped'
    BY <1>1 DEF WaitOn, Returns, Inside, Stamped, InCall
<1> QED BY <1>2, <1>3 DEF IInv

\* "++d->current_server": what nextudp() and nexttcp() start from.
LEMMA Further ==
    ASSUME IInv, InCall
    PROVE  /\ d \in Struct /\ Balanced(d) /\ d.query /\ d.s1
           /\ d.packet <=> d.tcpstate = 5
           /\ NextServer(d) \in Struct /\ Balanced(NextServer(d))
           /\ NextServer(d).query /\ NextServer(d).packet = d.packet
           /\ First(d) \in Struct /\ Balanced(First(d)) /\ First(d).query
<1>1. d \in Struct /\ Balanced(d) /\ d.query /\ d.s1 /\ (d.packet <=> d.tcpstate = 5)
    BY DEF IInv, TypeOK, NoLeak, Balanced, Returns
<1>2. d.current_server + 1 \in 0 .. Count
    BY <1>1, CountsAssumption DEF IInv, Inside, Struct
<1>3. NextServer(d) \in Struct /\ First(d) \in Struct
    BY <1>1, <1>2, CountsAssumption DEF NextServer, First, Struct
<1>4. /\ NextServer(d).query = d.query /\ NextServer(d).packet = d.packet
      /\ NextServer(d).s1 = d.s1 /\ NextServer(d).fds = d.fds
      /\ NextServer(d).mem = d.mem
    BY <1>1 DEF NextServer, Struct
<1>5. /\ First(d).query = d.query /\ First(d).packet = d.packet
      /\ First(d).s1 = d.s1 /\ First(d).fds = d.fds /\ First(d).mem = d.mem
    BY <1>1 DEF First, Struct
<1> QED BY <1>1, <1>3, <1>4, <1>5 DEF Balanced

LEMMA NextTcpKeeps ==
    ASSUME IInv, Seen, InCall, nexttcp
    PROVE  IInv'
BY Further, TcpKeeps DEF nexttcp

LEMMA NextUdpKeeps ==
    ASSUME IInv, Seen, InCall, d.tcpstate = 0, nextudp
    PROVE  IInv'
<1>1. ~d.packet
    BY Further
<1> QED BY <1>1, Further, UdpKeeps DEF nextudp

LEMMA IgnoreKeeps ==
    ASSUME IInv, answer' \in Answers, InCall, Ignore
    PROVE  IInv'
<1>1. d \in Struct /\ Balanced(d) /\ d.query /\ d.s1 /\ (d.packet <=> d.tcpstate = 5)
    BY Further
<1>2. d.current_server < Count /\ WaitOn(d)
    BY DEF IInv, Inside, Ignore
<1>3. Seen /\ late' \in BOOLEAN /\ wired' \in 0 .. PosBound
    BY CountsAssumption DEF IInv, TypeOK, Seen, Ignore
<1> QED BY <1>1, <1>2, <1>3, WaitKeeps

-----------------------------------------------------------------------------
(* The invariant.                                                          *)

LEMMA InitInv == Init => IInv
<1> SUFFICES ASSUME Init PROVE IInv
    OBVIOUS
<1>1. 0 \in 0 .. Count /\ 0 \in 0 .. PosBound /\ 0 \in 0 .. MaxLen /\ 0 \in 0 .. Noise
    BY CountsAssumption
<1>2. d \in Struct
    BY <1>1 DEF Init, Struct
<1>3. tries \in [Slots -> Nat] /\ answer \in Answers /\ asked \in [servers : SUBSET Servers, first : 0 .. 1]
    BY DEF Init, Answers
<1>4. TypeOK
    BY <1>1, <1>2, <1>3 DEF Init, TypeOK
<1>5. NoLeak /\ Returns /\ Inside /\ Stamped
    BY DEF Init, NoLeak, Returns, Inside, Stamped, InCall, One
<1> QED BY <1>4, <1>5 DEF IInv

\* Outside dns_transmit_get(): the caller and the loops over the servers.
LEMMA CallerKeeps ==
    ASSUME IInv, dns_transmit_start \/ Free \/ Stamp \/ Poll
    PROVE  IInv'
<1> USE DEF IInv
<1>0. d \in Struct /\ Balanced(d)
    BY DEF TypeOK, NoLeak, Balanced
<1>1. CASE dns_transmit_start
  <2>0. asked' \in [servers : SUBSET Servers, first : 0 .. 1] /\ asked'.first \in 0 .. 1
      BY <1>1 DEF dns_transmit_start
  <2>1. CASE \E long \in BOOLEAN : /\ d' = Started(d, asked'.first)
                                   /\ pc' = IF long THEN "tcp" ELSE "udp"
                                   /\ broke' = FALSE
    <3> DEFINE y == dns_transmit_free(d)
    <3>1. y \in Struct /\ Balanced(y) /\ ~y.s1 /\ ~y.query /\ ~y.packet
        BY <1>0, FreeAll
    <3>2. y.fds = 0 /\ y.mem = 0
        BY <3>1 DEF Balanced, One
    <3>3. d' = [y EXCEPT !.query = TRUE, !.mem = y.mem + 1,
                         !.udploop = asked'.first, !.current_server = 0]
        BY <2>1 DEF Started
    <3>a. y.mem + 1 \in Nat /\ asked'.first \in 0 .. 4 /\ 0 \in 0 .. Count
        BY <2>0, <3>2, CountsAssumption
    <3>4. d' \in Struct
        BY <3>1, <3>3, <3>a DEF Struct
    <3>5. d'.query /\ d'.mem = 1 /\ d'.s1 = y.s1 /\ d'.packet = y.packet /\ d'.fds = 0
        BY <3>1, <3>2, <3>3 DEF Struct
    <3>6. TypeOK' /\ NoLeak'
      <4>1. noise' \in 0 .. Noise /\ tries' \in [Slots -> Nat] /\ pc' \in {"tcp", "udp"}
          BY <1>1, <2>1, CountsAssumption DEF dns_transmit_start
      <4>2. UNCHANGED <<late, when, revents, inTime, pending, wired, answer>>
          BY <1>1 DEF dns_transmit_start
      <4>3. broke' = FALSE
          BY <2>1
      <4>4. TypeOK'
          BY <2>0, <3>4, <4>1, <4>2, <4>3 DEF TypeOK
      <4>5. ~d'.s1 /\ ~d'.packet
          BY <3>1, <3>5
      <4>6. NoLeak'
          BY <3>5, <4>5 DEF NoLeak, One
      <4> QED BY <4>4, <4>6
    <3>7. Returns' /\ Inside' /\ Stamped'
        BY <2>1, <3>1, <3>5 DEF Returns, Inside, Stamped, InCall
    <3> QED BY <3>6, <3>7
  <2>2. CASE d' = dns_transmit_free(d) /\ pc' = "failed" /\ broke' = TRUE
    <3>1. d' \in Struct /\ Balanced(d)' /\ ~d'.s1 /\ ~d'.query /\ ~d'.packet
        BY <1>0, <2>2, FreeAll DEF Balanced
    <3>2. TypeOK' /\ NoLeak'
      <4>1. noise' \in 0 .. Noise /\ tries' \in [Slots -> Nat]
          BY <1>1, CountsAssumption DEF dns_transmit_start
      <4>2. UNCHANGED <<late, when, revents, inTime, pending, wired, answer>>
          BY <1>1 DEF dns_transmit_start
      <4> QED BY <2>0, <2>2, <3>1, <4>1, <4>2 DEF TypeOK, NoLeak, Balanced
    <3>3. Returns' /\ Inside' /\ Stamped'
        BY <2>2, <3>1 DEF Returns, Inside, Stamped, InCall
    <3> QED BY <3>2, <3>3
  <2> QED BY <1>1, <2>1, <2>2 DEF dns_transmit_start
<1>2. CASE Free
  <2>1. d' \in Struct /\ Balanced(d)' /\ ~d'.s1 /\ ~d'.query /\ ~d'.packet
      BY <1>0, <1>2, FreeAll DEF Free, Balanced
  <2>2. TypeOK' /\ NoLeak'
      BY <1>2, <2>1 DEF Free, TypeOK, NoLeak, Balanced
  <2>3. Returns' /\ Inside' /\ Stamped'
      BY <1>2, <2>1 DEF Free, Returns, Inside, Stamped, InCall
  <2> QED BY <2>2, <2>3
<1>3. CASE Stamp
    BY <1>3 DEF Stamp, TypeOK, NoLeak, Returns, Inside, Stamped, InCall
<1>4. CASE Poll
    BY <1>4 DEF Poll, TypeOK, NoLeak, Returns, Inside, Stamped, InCall
<1> QED BY <1>1, <1>2, <1>3, <1>4

LEMMA WaitingKeeps ==
    ASSUME IInv, pc \in {"udp", "tcp"}, AtServer, Tried, NEW state \in 0 .. 2, Waiting(state),
           UNCHANGED <<asked, answer, noise>>
    PROVE  IInv'
<1> USE DEF IInv
<1>1. d \in Struct /\ ~d.s1 /\ d.query /\ ~d.packet /\ d.fds = 0 /\ d.mem = 1
    BY DEF TypeOK, NoLeak, Inside, One
<1>2. d' = [d EXCEPT !.s1 = TRUE, !.fds = d.fds + 1, !.tcpstate = state]
    BY DEF Waiting
<1>a. d.fds + 1 \in Nat /\ state \in 0 .. 5
    BY <1>1
<1>3. d' \in Struct
    BY <1>1, <1>2, <1>a DEF Struct
<1>4. /\ d'.s1 /\ d'.fds = 1 /\ d'.tcpstate = state /\ d'.query /\ ~d'.packet
      /\ d'.mem = 1 /\ d'.current_server < Count
    BY <1>1, <1>2 DEF Struct, AtServer
<1>5. tries' \in [Slots -> Nat]
    BY <1>1, CountsAssumption DEF Tried, TypeOK, Here, Slots, Servers, TCP, AtServer, Struct
<1>6. TypeOK' /\ NoLeak'
  <2>1. 0 \in 0 .. PosBound
      BY CountsAssumption
  <2>2. TypeOK'
      BY <1>3, <1>5, <2>1 DEF Waiting, TypeOK
  <2>3. NoLeak'
      BY <1>4 DEF NoLeak, One
  <2> QED BY <2>2, <2>3
<1>7. Returns' /\ Inside' /\ Stamped'
    BY <1>4 DEF Waiting, Returns, Inside, Stamped, InCall
<1> QED BY <1>6, <1>7

\* A step of the loops that leaves the struct as it is, but for the counters.
LEMMA LoopKeeps ==
    ASSUME IInv, pc \in {"udp", "tcp"}, d' \in Struct, UNCHANGED <<pc, clock, wired, broke>>,
           UNCHANGED <<asked, answer, noise>>, tries' \in [Slots -> Nat],
           d'.s1 = d.s1, d'.query = d.query, d'.packet = d.packet, d'.fds = d.fds, d'.mem = d.mem
    PROVE  IInv'
BY DEF IInv, TypeOK, NoLeak, Returns, Inside, Stamped, InCall, clock

-----------------------------------------------------------------------------
(* One step.                                                               *)

LEMMA LoopsKeep ==
    ASSUME IInv, SendUdp \/ ConnectTcp \/ NoSocket \/ SkipUnassigned \/ NextRound \/ Exhausted
    PROVE  IInv'
<1>0. d \in Struct /\ pc \in {"udp", "tcp"}
    BY DEF IInv, TypeOK, SendUdp, ConnectTcp, NoSocket, SkipUnassigned, NextRound, Exhausted
<1>1. ASSUME AtServer, Refused, Tried, UNCHANGED <<asked, answer, noise>>
      PROVE  IInv'
  <2>1. d.current_server + 1 \in 0 .. Count
      BY <1>0, <1>1, CountsAssumption DEF AtServer, Struct
  <2>2. d' \in Struct /\ d'.s1 = d.s1 /\ d'.query = d.query /\ d'.packet = d.packet
        /\ d'.fds = d.fds /\ d'.mem = d.mem
      BY <1>0, <1>1, <2>1 DEF Refused, NextServer, Struct
  <2>3. tries' \in [Slots -> Nat]
      BY <1>0, <1>1, CountsAssumption DEF Tried, IInv, TypeOK, Here, Slots, Servers, TCP, AtServer, Struct
  <2> QED BY <1>0, <1>1, <2>2, <2>3, LoopKeeps DEF Refused
<1>2. CASE SendUdp
    BY <1>0, <1>1, <1>2, WaitingKeeps DEF SendUdp
<1>3. CASE ConnectTcp
    BY <1>0, <1>1, <1>3, WaitingKeeps DEF ConnectTcp
<1>4. CASE NoSocket
    BY <1>4, DieKeeps DEF NoSocket, Seen, IInv, TypeOK
<1>5. CASE SkipUnassigned
  <2>1. d.current_server + 1 \in 0 .. Count
      BY <1>0, <1>5, CountsAssumption DEF SkipUnassigned, Struct
  <2>2. d' \in Struct /\ d'.s1 = d.s1 /\ d'.query = d.query /\ d'.packet = d.packet
        /\ d'.fds = d.fds /\ d'.mem = d.mem
      BY <1>0, <1>5, <2>1 DEF SkipUnassigned, NextServer, Struct
  <2>3. tries' \in [Slots -> Nat]
      BY <1>5 DEF SkipUnassigned, IInv, TypeOK
  <2> QED BY <1>0, <1>5, <2>2, <2>3, LoopKeeps DEF SkipUnassigned
<1>6. CASE NextRound
  <2>1. d.udploop + 1 \in 0 .. 4 /\ 0 \in 0 .. Count
      BY <1>0, <1>6, CountsAssumption DEF NextRound, Struct
  <2>2. d' \in Struct /\ d'.s1 = d.s1 /\ d'.query = d.query /\ d'.packet = d.packet
        /\ d'.fds = d.fds /\ d'.mem = d.mem
      BY <1>0, <1>6, <2>1 DEF NextRound, Struct
  <2>3. tries' \in [Slots -> Nat]
      BY <1>6 DEF NextRound, IInv, TypeOK
  <2> QED BY <1>0, <1>6, <2>2, <2>3, LoopKeeps DEF NextRound
<1>7. CASE Exhausted
    BY <1>7, DieKeeps DEF Exhausted, Seen, IInv, TypeOK
<1> QED BY <1>2, <1>3, <1>4, <1>5, <1>6, <1>7

\* The packet that is kept has passed all three tests.
LEMMA AnsweredKeeps ==
    ASSUME IInv, NEW a \in Answers, Good(a), answer' = a, UNCHANGED noise,
           NEW x \in Struct, Balanced(x), ~x.s1, x.packet, Answered(x)
    PROVE  IInv'
<1>1. d' \in Struct /\ Balanced(d)' /\ ~d'.s1 /\ ~d'.query /\ d'.packet
    BY QueryFree DEF Answered, Balanced
<1>2. TypeOK' /\ NoLeak'
    BY <1>1 DEF IInv, TypeOK, NoLeak, Balanced, Answered
<1>3. Returns' /\ Inside' /\ Stamped'
    BY <1>1 DEF Answered, Returns, Inside, Stamped, InCall, Good
<1> QED BY <1>2, <1>3 DEF IInv

LEMMA RecvKeeps ==
    ASSUME IInv, NotReady \/ RecvError \/ RecvTooLong \/ \E a \in Answers : RecvAnswer(a)
    PROVE  IInv'
<1>0. InCall
    BY DEF InCall, NotReady, RecvError, RecvTooLong, RecvAnswer, Got
<1>a. answer \in Answers /\ noise \in 0 .. Noise
    BY DEF IInv, TypeOK
<1>1. CASE NotReady
  <2>1. CASE ~when
      BY <1>1, <2>1 DEF NotReady, IInv, TypeOK, NoLeak, Returns, Inside, Stamped, InCall
  <2>2. CASE when
      BY <1>0, <1>1, <1>a, <2>2, NextUdpKeeps, NextTcpKeeps DEF NotReady, Seen
  <2> QED BY <2>1, <2>2 DEF IInv, TypeOK
<1>2. CASE RecvError
    BY <1>0, <1>2, <1>a, NextUdpKeeps, IgnoreKeeps DEF RecvError, Seen
<1>3. CASE RecvTooLong
    BY <1>0, <1>3, <1>a, IgnoreKeeps DEF RecvTooLong
<1>4. ASSUME NEW a \in Answers, RecvAnswer(a)
      PROVE  IInv'
  <2>1. CASE Ignore
      BY <1>0, <1>4, <2>1, IgnoreKeeps DEF RecvAnswer
  <2>2. CASE firsttcp /\ UNCHANGED noise
      BY <1>0, <1>4, <1>a, <2>2, Further, TcpKeeps DEF RecvAnswer, firsttcp, Seen
  <2>3. CASE nextudp /\ UNCHANGED noise
      BY <1>0, <1>4, <1>a, <2>3, NextUdpKeeps DEF RecvAnswer, Seen
  <2>4. CASE Die(d, TRUE) /\ UNCHANGED noise
      BY <1>4, <1>a, <2>4, DieKeeps DEF RecvAnswer, Seen
  <2>5. ASSUME Good(a), UNCHANGED noise,
               Answered([socketfree(d) EXCEPT !.packet = TRUE, !.mem = @ + 1])
        PROVE  IInv'
    <3> DEFINE y == socketfree(d)
               z == [y EXCEPT !.packet = TRUE, !.mem = y.mem + 1]
    <3>1. d \in Struct /\ Balanced(d) /\ d.query /\ ~d.packet
        BY <1>0, <1>4, Further DEF RecvAnswer
    <3>2. y \in Struct /\ Balanced(y) /\ ~y.s1 /\ y.query /\ ~y.packet
        BY <3>1, SocketFree
    <3>3. y.mem = 1 /\ y.mem + 1 \in Nat
        BY <3>2 DEF Balanced, One
    <3>4. z \in Struct
        BY <3>2, <3>3 DEF Struct
    <3>5. ~z.s1 /\ z.packet /\ z.query /\ z.mem = 2 /\ z.fds = y.fds /\ z.s1 = y.s1
        BY <3>2, <3>3 DEF Struct
    <3>6. Balanced(z)
        BY <3>2, <3>5 DEF Balanced, One
    <3> QED BY <1>4, <2>5, <3>4, <3>5, <3>6, AnsweredKeeps DEF RecvAnswer
  <2> QED BY <1>4, <2>1, <2>2, <2>3, <2>4, <2>5 DEF RecvAnswer
<1> QED BY <1>1, <1>2, <1>3, <1>4

\* A read() or a write() moves on in the same connection.
LEMMA MoveKeeps ==
    ASSUME IInv, Seen, InCall, NEW x, WaitOn(x), d' \in Struct,
           d'.s1 = d.s1, d'.query = d.query, d'.packet = d.packet, d'.fds = d.fds,
           d'.mem = d.mem, d'.current_server = d.current_server,
           d.packet <=> d'.tcpstate = 5, late' \in BOOLEAN, wired' \in 0 .. PosBound
    PROVE  IInv'
<1>1. d \in Struct /\ Balanced(d) /\ d.query /\ d.s1 /\ d.current_server < Count
    BY Further DEF IInv, Inside
<1>2. d' = x
    BY DEF WaitOn
<1>3. x \in Struct /\ Balanced(x) /\ x.s1 /\ x.query /\ x.current_server < Count
    BY <1>1, <1>2 DEF Balanced
<1>4. x.packet <=> x.tcpstate = 5
    BY <1>2
<1> QED BY <1>3, <1>4, WaitKeeps

LEMMA StreamKeeps ==
    ASSUME IInv, \/ Connected \/ WriteQuery \/ ReadLength \/ ReadSome
                 \/ \E len \in 0 .. MaxLen : ReadLength2(len)
                 \/ \E a \in Answers : ReadAnswer(a)
    PROVE  IInv'
<1>0. InCall
    BY DEF InCall, Connected, WriteQuery, ReadLength, ReadSome, ReadLength2, ReadAnswer, Got
<1>a. answer \in Answers /\ noise \in 0 .. Noise /\ late \in BOOLEAN /\ wired \in 0 .. PosBound
    BY DEF IInv, TypeOK
<1>b. d \in Struct /\ Balanced(d) /\ d.query /\ d.s1 /\ (d.packet <=> d.tcpstate = 5)
    BY <1>0, Further
<1>s. d \in Struct
    BY <1>b
<1>c. d.current_server < Count
    BY <1>0 DEF IInv, Inside
<1>d. d.pos \in 0 .. PosBound /\ 0 \in 0 .. PosBound
    BY <1>b, CountsAssumption DEF Struct
<1>e. \A n \in 0 .. 5 : (d.tcpstate # 5 /\ n # 5 => (d.packet <=> n = 5))
                        /\ (d.tcpstate = 5 => (d.packet <=> 5 = 5))
    BY <1>b DEF Struct
<1>1. CASE Connected
  <2>1. ASSUME WaitOn([d EXCEPT !.pos = 0, !.tcpstate = 2]), UNCHANGED <<late, wired>>
        PROVE  IInv'
    <3>1. d.tcpstate = 1 /\ Seen
        BY <1>1, <1>a DEF Connected, Seen
    <3>2. d' = [d EXCEPT !.pos = 0, !.tcpstate = 2]
        BY <2>1 DEF WaitOn
    <3>7. d' \in Struct
        BY <1>s, 2 \in 0 .. 5, 3 \in 0 .. 5, 4 \in 0 .. 5, 5 \in 0 .. 5, <1>d, <3>2 DEF Struct
    <3>8. /\ d'.s1 = d.s1 /\ d'.query = d.query /\ d'.packet = d.packet /\ d'.fds = d.fds
          /\ d'.mem = d.mem /\ d'.tcpstate = 2 /\ d'.current_server = d.current_server
        BY <1>b, <3>2 DEF Struct
    <3>9. d.packet <=> d'.tcpstate = 5
        BY <1>e, <3>1, <3>8
    <3> QED BY <1>0, <1>a, <2>1, <3>1, <3>7, <3>8, <3>9, MoveKeeps
  <2> QED BY <1>0, <1>1, <1>a, <2>1, NextTcpKeeps DEF Connected, Seen
<1>2. CASE WriteQuery
  <2>0. d.tcpstate = 2 /\ Seen
      BY <1>2, <1>a DEF WriteQuery, Seen
  <2>1. ASSUME NEW r \in 1 .. PosBound, Written(r),
               d.pos + r <= (IF d.pos <= QueryLen THEN QueryLen ELSE PosBound)
        PROVE  IInv'
    <3>1. d.pos + r \in 0 .. PosBound
        BY <1>d, <2>1, CountsAssumption
    <3>2. wired' \in 0 .. PosBound
        BY <1>a, <2>1, CountsAssumption DEF Written
    <3>3. CASE d.pos + r = QueryLen
      <4>1. WaitOn([d EXCEPT !.pos = d.pos + r, !.tcpstate = 3]) /\ late' = FALSE
          BY <2>1, <3>3 DEF Written
      <4>2. d' = [d EXCEPT !.pos = d.pos + r, !.tcpstate = 3]
          BY <4>1 DEF WaitOn
      <4>7. d' \in Struct
          BY <1>s, 2 \in 0 .. 5, 3 \in 0 .. 5, 4 \in 0 .. 5, 5 \in 0 .. 5, <3>1, <4>2 DEF Struct
      <4>8. /\ d'.s1 = d.s1 /\ d'.query = d.query /\ d'.packet = d.packet /\ d'.fds = d.fds
            /\ d'.mem = d.mem /\ d'.tcpstate = 3 /\ d'.current_server = d.current_server
          BY <1>b, <4>2 DEF Struct
      <4>9. d.packet <=> d'.tcpstate = 5
          BY <1>e, <2>0, <4>8
      <4> QED BY <1>0, <1>a, <2>0, <3>2, <4>1, <4>7, <4>8, <4>9, MoveKeeps
    <3>4. CASE d.pos + r # QueryLen
      <4>1. WaitOn([d EXCEPT !.pos = d.pos + r]) /\ late' = late
          BY <2>1, <3>4 DEF Written
      <4>2. d' = [d EXCEPT !.pos = d.pos + r, !.tcpstate = 2]
          BY <1>b, <2>0, <4>1 DEF WaitOn, Struct
      <4>7. d' \in Struct
          BY <1>s, 2 \in 0 .. 5, 3 \in 0 .. 5, 4 \in 0 .. 5, 5 \in 0 .. 5, <3>1, <4>2 DEF Struct
      <4>8. /\ d'.s1 = d.s1 /\ d'.query = d.query /\ d'.packet = d.packet /\ d'.fds = d.fds
            /\ d'.mem = d.mem /\ d'.tcpstate = 2 /\ d'.current_server = d.current_server
          BY <1>b, <4>2 DEF Struct
      <4>9. d.packet <=> d'.tcpstate = 5
          BY <1>e, <2>0, <4>8
      <4> QED BY <1>0, <1>a, <2>0, <3>2, <4>1, <4>7, <4>8, <4>9, MoveKeeps
    <3> QED BY <3>3, <3>4
  <2> QED BY <1>0, <1>2, <1>a, <2>1, NextTcpKeeps DEF WriteQuery, Seen
<1>3. CASE ReadLength
  <2>1. ASSUME WaitOn([d EXCEPT !.tcpstate = 4]), UNCHANGED <<late, wired>>
        PROVE  IInv'
    <3>1. d.tcpstate = 3 /\ Seen
        BY <1>3, <1>a DEF ReadLength, Seen
    <3>2. d' = [d EXCEPT !.pos = d.pos, !.tcpstate = 4]
        BY <1>b, <2>1 DEF WaitOn, Struct
    <3>7. d' \in Struct
        BY <1>s, 2 \in 0 .. 5, 3 \in 0 .. 5, 4 \in 0 .. 5, 5 \in 0 .. 5, <1>d, <3>2 DEF Struct
    <3>8. /\ d'.s1 = d.s1 /\ d'.query = d.query /\ d'.packet = d.packet /\ d'.fds = d.fds
          /\ d'.mem = d.mem /\ d'.tcpstate = 4 /\ d'.current_server = d.current_server
        BY <1>b, <3>2 DEF Struct
    <3>9. d.packet <=> d'.tcpstate = 5
        BY <1>e, <3>1, <3>8
    <3> QED BY <1>0, <1>a, <2>1, <3>1, <3>7, <3>8, <3>9, MoveKeeps
  <2> QED BY <1>0, <1>3, <1>a, <2>1, NextTcpKeeps DEF ReadLength, Seen
<1>4. CASE ReadSome
  <2>1. ASSUME NEW r \in 1 .. MaxLen, d.pos + r < d.packetlen,
               WaitOn([d EXCEPT !.pos = d.pos + r]), UNCHANGED <<late, wired>>
        PROVE  IInv'
    <3>1. d.pos + r \in 0 .. PosBound
        BY <1>b, <2>1, CountsAssumption DEF Struct
    <3>2. d.tcpstate = 5 /\ Seen
        BY <1>4, <1>a DEF ReadSome, Seen
    <3>3. d' = [d EXCEPT !.pos = d.pos + r, !.tcpstate = 5]
        BY <1>b, <2>1, <3>2 DEF WaitOn, Struct
    <3>7. d' \in Struct
        BY <1>s, 2 \in 0 .. 5, 3 \in 0 .. 5, 4 \in 0 .. 5, 5 \in 0 .. 5, <3>1, <3>3 DEF Struct
    <3>8. /\ d'.s1 = d.s1 /\ d'.query = d.query /\ d'.packet = d.packet /\ d'.fds = d.fds
          /\ d'.mem = d.mem /\ d'.tcpstate = 5 /\ d'.current_server = d.current_server
        BY <1>b, <3>3 DEF Struct
    <3>9. d.packet <=> d'.tcpstate = 5
        BY <1>e, <3>2, <3>8
    <3> QED BY <1>0, <1>a, <2>1, <3>2, <3>7, <3>8, <3>9, MoveKeeps
  <2> QED BY <1>0, <1>4, <1>a, <2>1, NextTcpKeeps DEF ReadSome, Seen
<1>5. ASSUME NEW len \in 0 .. MaxLen, ReadLength2(len)
      PROVE  IInv'
  <2> DEFINE z == [d EXCEPT !.tcpstate = 5, !.pos = 0, !.packetlen = len,
                            !.packet = TRUE, !.mem = d.mem + 1]
  <2>1. CASE WaitOn(z) /\ UNCHANGED <<late, wired>>
    <3>z. d.tcpstate = 4
        BY <1>5 DEF ReadLength2
    <3>0. ~d.packet
        BY <1>b, <3>z
    <3>1. d.mem = 1 /\ d.mem + 1 \in Nat
        BY <1>b, <3>0 DEF Balanced, One
    <3>2. z \in Struct
        BY <1>s, <1>d, <3>1, 5 \in 0 .. 5 DEF Struct
    <3>3. /\ z.packet /\ z.tcpstate = 5 /\ z.mem = d.mem + 1 /\ z.fds = d.fds
          /\ z.s1 = d.s1 /\ z.query = d.query /\ z.current_server = d.current_server
        BY <1>b DEF Struct
    <3>4. Balanced(z)
        BY <1>b, <3>1, <3>3 DEF Balanced, One
    <3> QED BY <1>5, <1>a, <1>b, <1>c, <2>1, <3>2, <3>3, <3>4, WaitKeeps DEF ReadLength2, Seen
  <2>2. CASE Die(d, TRUE)
      BY <1>5, <1>a, <2>2, DieKeeps DEF ReadLength2, Seen
  <2>3. CASE nexttcp
      BY <1>0, <1>5, <1>a, <2>3, NextTcpKeeps DEF ReadLength2, Seen
  <2> QED BY <1>5, <2>1, <2>2, <2>3 DEF ReadLength2
<1>6. ASSUME NEW a \in Answers, ReadAnswer(a)
      PROVE  IInv'
  <2>1. CASE Good(a)
    <3> DEFINE y == socketfree(d)
               z == [y EXCEPT !.pos = d.packetlen]
    <3>1. y \in Struct /\ Balanced(y) /\ ~y.s1 /\ y.packet
        BY <1>6, <1>b, SocketFree DEF ReadAnswer
    <3>2. d.packetlen \in 0 .. PosBound
        BY <1>b, CountsAssumption DEF Struct
    <3>3. z \in Struct
        BY <3>1, <3>2 DEF Struct
    <3>4. Balanced(z) /\ ~z.s1 /\ z.packet
        BY <3>1 DEF Balanced, Struct
    <3> QED BY <1>6, <2>1, <3>3, <3>4, AnsweredKeeps DEF ReadAnswer
  <2>2. CASE ~Good(a)
      BY <1>0, <1>6, <1>a, <2>2, NextTcpKeeps DEF ReadAnswer, Seen
  <2> QED BY <2>1, <2>2
<1> QED BY <1>1, <1>2, <1>3, <1>4, <1>5, <1>6

LEMMA StepInv == IInv /\ [Next]_vars => IInv'
<1> SUFFICES ASSUME IInv, [Next]_vars PROVE IInv'
    OBVIOUS
<1>1. CASE dns_transmit_start \/ Free \/ Stamp \/ Poll
    BY <1>1, CallerKeeps
<1>2. CASE SendUdp \/ ConnectTcp \/ NoSocket \/ SkipUnassigned \/ NextRound \/ Exhausted
    BY <1>2, LoopsKeep
<1>3. CASE dns_transmit_get
    BY <1>3, RecvKeeps, StreamKeeps DEF dns_transmit_get
<1>4. CASE Arrive
    BY <1>4 DEF Arrive, IInv, TypeOK, NoLeak, Returns, Inside, Stamped, InCall
<1>5. CASE Expire
    BY <1>5 DEF Expire, IInv, TypeOK, NoLeak, Returns, Inside, Stamped, InCall
<1>6. CASE UNCHANGED vars
    BY <1>6 DEF vars, IInv, TypeOK, NoLeak, Returns, Inside, Stamped, InCall
<1> QED BY <1>1, <1>2, <1>3, <1>4, <1>5, <1>6 DEF Next, Library

-----------------------------------------------------------------------------
(* The results.                                                            *)

LEMMA Inductive == Spec => []IInv
BY InitInv, StepInv, PTL DEF Spec

\* Every variable keeps to its type, whatever the servers send.
THEOREM TypeCorrect == Spec => []TypeOK
BY Inductive, PTL DEF IInv

\* No way through the loops, the failures and the restarts of dns_transmit.c
\* leaves a socket or a block of memory that the struct does not point to.
THEOREM NothingLeaks == Spec => []NoLeak
BY Inductive, PTL DEF IInv

\* What a result of 0, 1 or -1 promises about the socket, the query and the
\* packet holds, and a packet is only returned after all three tests.
THEOREM ResultsHold == Spec => []Returns
BY Inductive, PTL DEF IInv

\* All three at once: what a call leaves is what the next one expects.
THEOREM CallsAreSound == Spec => []CallsSound
BY TypeCorrect, NothingLeaks, ResultsHold, PTL DEF CallsSound

\* An answer that came before the deadline is not dropped as a timeout,
\* wherever poll(), the time stamp and the deadline fall.
THEOREM TimeoutsAreLate == Spec => NoAnswerLost
<1>1. IInv /\ [Next]_vars =>
        [pc = "get" /\ ~revents /\ pc' \in {"udp", "tcp"} => ~(pending /\ inTime)]_vars
  <2> SUFFICES ASSUME IInv, Next, pc = "get", ~revents, pc' \in {"udp", "tcp"}
               PROVE  ~(pending /\ inTime)
      OBVIOUS
  <2>1. when
      BY DEF Next, Library, dns_transmit_start, Free, SendUdp, ConnectTcp, NoSocket,
         SkipUnassigned, NextRound, Exhausted, Stamp, Poll, dns_transmit_get, NotReady,
         RecvError, RecvTooLong, RecvAnswer, Connected, WriteQuery, ReadLength,
         ReadLength2, ReadSome, ReadAnswer, Got, Arrive, Expire
  <2> QED BY <2>1 DEF IInv, Stamped
<1> QED BY <1>1, Inductive, PTL DEF Spec, NoAnswerLost

-----------------------------------------------------------------------------
(* Whose turn it was.  A round asks the servers in the order of the list,  *)
(* so that the loop counters say what the history must be.                 *)

\* In the round over TCP the first n servers had their turn.
TcpTurns(tr, servers, n) ==
    \A s \in Servers : tr[<<TCP, s>>] = One(s \in servers /\ s < n)

\* So had they in round loop over UDP, and in the rounds before all had it.
UdpTurns(tr, ask, loop, n) ==
    /\ ask.first <= loop
    /\ \A s \in Servers : tr[<<TCP, s>>] = 0
    /\ \A l \in 0 .. 3, s \in Servers :
          tr[<<l, s>>] = One(/\ s \in ask.servers /\ ask.first <= l
                             /\ l < loop \/ (l = loop /\ s < n))

OverUdp == pc = "udp" \/ (InCall /\ d.tcpstate = 0)
OverTcp == pc = "tcp" \/ (InCall /\ d.tcpstate # 0)

\* A server that is waited for has been asked already.
Reach == d.current_server + One(InCall)

Turns ==
    /\ EachOnce
    /\ OverTcp => d.udploop < 4 /\ TcpTurns(tries, asked.servers, Reach)
    /\ OverUdp => UdpTurns(tries, asked, d.udploop, Reach)
    /\ InCall => d.udploop < 4

TInv == IInv /\ Turns

\* What the turns of the loops make of the history.  A server has its turn.
LEMMA UdpTurn ==
    ASSUME NEW tr \in [Slots -> Nat], NEW ask, NEW loop \in 0 .. 3, NEW c \in Nat, c < Count,
           UdpTurns(tr, ask, loop, c), c \in ask.servers
    PROVE  /\ UdpTurns([tr EXCEPT ![<<loop, c>>] = @ + 1], ask, loop, c + 1)
           /\ (\A s \in Slots : tr[s] <= 1) =>
                \A s \in Slots : [tr EXCEPT ![<<loop, c>>] = @ + 1][s] <= 1
<1> DEFINE t2 == [tr EXCEPT ![<<loop, c>>] = @ + 1]
<1>1. c \in Servers /\ <<loop, c>> \in Slots
    BY CountsAssumption DEF Servers, Slots, TCP
<1>2. tr[<<loop, c>>] = 0
    BY <1>1 DEF UdpTurns, One
<1>3. t2[<<loop, c>>] = 1 /\ \A s \in Slots : s # <<loop, c>> => t2[s] = tr[s]
    BY <1>1, <1>2
<1>4. \A l \in 0 .. TCP, s \in Servers : <<l, s>> \in Slots /\ (l # loop \/ s # c => <<l, s>> # <<loop, c>>)
    BY DEF Slots
<1> HIDE DEF t2
<1>5. \A s \in Servers : t2[<<TCP, s>>] = 0
  <2>1. TCP \in 0 .. TCP /\ TCP # loop
      BY DEF TCP
  <2>2. \A s \in Servers : t2[<<TCP, s>>] = tr[<<TCP, s>>]
      BY <1>3, <1>4, <2>1
  <2> QED BY <2>2 DEF UdpTurns
<1>6. ASSUME NEW l \in 0 .. 3, NEW s \in Servers
      PROVE  t2[<<l, s>>] = One(/\ s \in ask.servers /\ ask.first <= l
                                /\ l < loop \/ (l = loop /\ s < c + 1))
  <2>1. CASE l = loop /\ s = c
      BY <1>3, <2>1 DEF UdpTurns, One
  <2>2. CASE ~(l = loop /\ s = c)
    <3>1. t2[<<l, s>>] = tr[<<l, s>>]
        BY <1>3, <1>4, <2>2 DEF TCP
    <3>2. s \in Nat
        BY CountsAssumption DEF Servers
    <3>3. (l < loop \/ (l = loop /\ s < c + 1)) <=> (l < loop \/ (l = loop /\ s < c))
        BY <2>2, <3>2
    <3> QED BY <3>1, <3>3 DEF UdpTurns
  <2> QED BY <2>1, <2>2
<1>7. UdpTurns(t2, ask, loop, c + 1)
    BY <1>5, <1>6 DEF UdpTurns
<1>8. (\A s \in Slots : tr[s] <= 1) => \A s \in Slots : t2[s] <= 1
    BY <1>3
<1> QED BY <1>7, <1>8 DEF t2

LEMMA TcpTurn ==
    ASSUME NEW tr \in [Slots -> Nat], NEW servers, NEW c \in Nat, c < Count,
           TcpTurns(tr, servers, c), c \in servers
    PROVE  /\ TcpTurns([tr EXCEPT ![<<TCP, c>>] = @ + 1], servers, c + 1)
           /\ (\A s \in Slots : tr[s] <= 1) =>
                \A s \in Slots : [tr EXCEPT ![<<TCP, c>>] = @ + 1][s] <= 1
<1> DEFINE t2 == [tr EXCEPT ![<<TCP, c>>] = @ + 1]
<1>1. c \in Servers /\ <<TCP, c>> \in Slots
    BY CountsAssumption DEF Servers, Slots, TCP
<1>2. tr[<<TCP, c>>] = 0
    BY <1>1 DEF TcpTurns, One
<1>3. t2[<<TCP, c>>] = 1 /\ \A s \in Slots : s # <<TCP, c>> => t2[s] = tr[s]
    BY <1>1, <1>2
<1>4. \A s \in Servers : <<TCP, s>> \in Slots /\ (s # c => <<TCP, s>> # <<TCP, c>>)
    BY DEF Slots, TCP
<1> HIDE DEF t2
<1>5. ASSUME NEW s \in Servers
      PROVE  t2[<<TCP, s>>] = One(s \in servers /\ s < c + 1)
  <2>1. CASE s = c
      BY <1>3, <2>1 DEF One
  <2>2. CASE s # c
    <3>1. t2[<<TCP, s>>] = tr[<<TCP, s>>]
        BY <1>3, <1>4, <2>2
    <3>2. s \in Nat
        BY CountsAssumption DEF Servers
    <3>3. s < c + 1 <=> s < c
        BY <2>2, <3>2
    <3> QED BY <3>1, <3>3 DEF TcpTurns
  <2> QED BY <2>1, <2>2
<1>6. TcpTurns(t2, servers, c + 1)
    BY <1>5 DEF TcpTurns
<1>7. (\A s \in Slots : tr[s] <= 1) => \A s \in Slots : t2[s] <= 1
    BY <1>3
<1> QED BY <1>6, <1>7 DEF t2

\* A server whose address is not assigned has no turn.
LEMMA NoTurn ==
    ASSUME NEW tr, NEW ask, NEW loop \in 0 .. 3, NEW c \in Nat, c \notin ask.servers
    PROVE  /\ UdpTurns(tr, ask, loop, c) => UdpTurns(tr, ask, loop, c + 1)
           /\ TcpTurns(tr, ask.servers, c) => TcpTurns(tr, ask.servers, c + 1)
<1>1. \A s \in Servers : s \in ask.servers => (s < c + 1 <=> s < c)
    BY CountsAssumption DEF Servers
<1> QED BY <1>1 DEF UdpTurns, TcpTurns

\* After the last server the next round begins, and the history is the same.
LEMMA RoundTurns ==
    ASSUME NEW tr, NEW ask, NEW loop \in 0 .. 3, NEW c \in Nat, c >= Count,
           ask.first \in Nat, UdpTurns(tr, ask, loop, c)
    PROVE  UdpTurns(tr, ask, loop + 1, 0)
<1>1. \A s \in Servers : s < c /\ ~(s < 0)
    BY CountsAssumption DEF Servers
<1>2. \A l \in 0 .. 3, s \in Servers :
        (l < loop + 1 \/ (l = loop + 1 /\ s < 0)) <=> (l < loop \/ (l = loop /\ s < c))
    BY <1>1
<1>3. ask.first <= loop + 1
    BY DEF UdpTurns
<1> QED BY <1>2, <1>3 DEF UdpTurns

\* The counters of the loops are none of what is freed.
LEMMA FreeCounts ==
    ASSUME NEW x \in Struct
    PROVE  /\ socketfree(x).udploop = x.udploop /\ packetfree(x).udploop = x.udploop
           /\ queryfree(x).udploop = x.udploop
           /\ socketfree(x).current_server = x.current_server
           /\ packetfree(x).current_server = x.current_server
BY DEF socketfree, packetfree, queryfree, Struct

\* What both kinds of turns need of the types.
LEMMA TurnFacts ==
    ASSUME TInv
    PROVE  /\ d \in Struct /\ d.current_server \in Nat /\ d.udploop \in 0 .. 4
           /\ tries \in [Slots -> Nat] /\ asked.first \in 0 .. 1 /\ Count \in Nat
           /\ OneTry /\ AllTried
           /\ InCall => Reach = d.current_server + 1
           /\ ~InCall => Reach = d.current_server
BY CountsAssumption DEF TInv, Turns, EachOnce, IInv, TypeOK, Struct, Reach, One

\* The query ends with its history as it is, in failure only by a fault.
LEMMA EndTurns ==
    ASSUME TInv, UNCHANGED <<tries, asked>>, pc' \in {"idle", "answered", "failed"},
           pc' = "failed" => broke'
    PROVE  Turns'
BY TurnFacts DEF Turns, EachOnce, OneTry, AllTried, OverTcp, OverUdp, InCall

\* The same kind of round goes on, at a server that has been reached.
LEMMA SameTurns ==
    ASSUME TInv, UNCHANGED <<tries, asked>>, OverTcp' => OverTcp, OverUdp' => OverUdp,
           OverTcp' \/ OverUdp', d'.udploop = d.udploop, Reach' = Reach, InCall' => InCall
    PROVE  Turns'
<1>1. OneTry' /\ AllTried'
    BY TurnFacts DEF OneTry, AllTried, OverTcp, OverUdp, InCall
<1>2. OverTcp' => d'.udploop < 4 /\ TcpTurns(tries', asked'.servers, Reach')
    BY DEF TInv, Turns
<1>3. OverUdp' => UdpTurns(tries', asked', d'.udploop, Reach')
    BY DEF TInv, Turns
<1>4. InCall' => d'.udploop < 4
    BY DEF TInv, Turns
<1>5. (OverTcp => d.udploop < 4 /\ TcpTurns(tries, asked.servers, Reach))'
    BY <1>2 DEF TcpTurns
<1>6. (OverUdp => UdpTurns(tries, asked, d.udploop, Reach))'
    BY <1>3 DEF UdpTurns
<1> QED BY <1>1, <1>4, <1>5, <1>6 DEF Turns, EachOnce

LEMMA NextTurns ==
    ASSUME TInv, InCall, \/ d.tcpstate = 0 /\ nextudp
                         \/ d.tcpstate # 0 /\ nexttcp
    PROVE  Turns'
<1>1. NextServer(d) \in Struct /\ Balanced(NextServer(d))
    BY Further DEF TInv
<1>2. /\ NextServer(d).current_server = d.current_server + 1
      /\ NextServer(d).udploop = d.udploop
    BY TurnFacts DEF NextServer, Struct
<1>3. /\ d'.current_server = d.current_server + 1 /\ d'.udploop = d.udploop
      /\ UNCHANGED <<tries, asked>> /\ pc' \in {"udp", "tcp"}
      /\ pc' = "udp" <=> d.tcpstate = 0
    BY <1>1, <1>2, SocketFree, FreeCounts DEF nextudp, nexttcp, ThisUdp, ThisTcp
<1>4. Reach' = Reach
    BY <1>3, TurnFacts DEF Reach, InCall, One
<1> QED BY <1>3, <1>4, SameTurns DEF OverTcp, OverUdp, InCall

\* The answer over UDP was cut off: over TCP nobody had his turn yet.
LEMMA FirstTurns ==
    ASSUME TInv, InCall, d.tcpstate = 0, firsttcp
    PROVE  Turns'
<1>1. First(d) \in Struct /\ Balanced(First(d))
    BY Further DEF TInv
<1>2. First(d).current_server = 0 /\ First(d).udploop = d.udploop
    BY TurnFacts DEF First, Struct
<1>3. /\ d'.current_server = 0 /\ d'.udploop = d.udploop
      /\ UNCHANGED <<tries, asked>> /\ pc' = "tcp"
    BY <1>1, <1>2, SocketFree, FreeCounts DEF firsttcp, ThisTcp
<1>4. d.udploop < 4 /\ \A s \in Servers : tries[<<TCP, s>>] = 0
    BY DEF TInv, Turns, OverUdp, UdpTurns
<1>5. Reach' = 0
    BY <1>3 DEF Reach, InCall, One
<1>6. TcpTurns(tries, asked.servers, 0)
  <2>1. \A s \in Servers : ~(s < 0)
      BY CountsAssumption DEF Servers
  <2> QED BY <1>4, <2>1 DEF TcpTurns, One
<1>7. OneTry' /\ AllTried'
    BY <1>3, TurnFacts DEF OneTry, AllTried
<1>8. (OverTcp => d.udploop < 4 /\ TcpTurns(tries, asked.servers, Reach))'
    BY <1>3, <1>4, <1>5, <1>6 DEF TcpTurns
<1> QED BY <1>3, <1>7, <1>8 DEF Turns, EachOnce, OverUdp, InCall

LEMMA WaitTurns ==
    ASSUME TInv, InCall, NEW x, WaitOn(x), x.udploop = d.udploop,
           x.current_server = d.current_server, x.tcpstate = 0 <=> d.tcpstate = 0
    PROVE  Turns'
<1>1. d' = x /\ pc' = "stamp" /\ UNCHANGED <<tries, asked>>
    BY DEF WaitOn
<1>2. Reach' = Reach
    BY <1>1 DEF Reach, InCall
<1> QED BY <1>1, <1>2, SameTurns DEF OverTcp, OverUdp, InCall

\* The caller, the network and the clock.
LEMMA StayTurns ==
    ASSUME TInv, UNCHANGED <<d, asked, tries, broke>>,
           UNCHANGED pc \/ (InCall /\ pc' \in {"stamp", "poll", "get"})
    PROVE  Turns'
<1>1. CASE UNCHANGED pc
    BY <1>1 DEF TInv, Turns, EachOnce, OneTry, AllTried, OverTcp, OverUdp, InCall, Reach,
                TcpTurns, UdpTurns
<1>2. CASE InCall /\ pc' \in {"stamp", "poll", "get"}
  <2>1. Reach' = Reach
      BY <1>2 DEF Reach, InCall
  <2> QED BY <1>2, <2>1, SameTurns DEF OverTcp, OverUdp, InCall
<1> QED BY <1>1, <1>2

LEMMA StartTurns ==
    ASSUME TInv, dns_transmit_start
    PROVE  Turns'
<1>1. /\ asked' \in [servers : SUBSET Servers, first : 0 .. 1]
      /\ tries' = [s \in Slots |-> 0]
    BY DEF dns_transmit_start
<1>2. OneTry'
    BY <1>1 DEF OneTry
<1>3. CASE \E long \in BOOLEAN : /\ d' = Started(d, asked'.first)
                                 /\ pc' = IF long THEN "tcp" ELSE "udp"
                                 /\ broke' = FALSE
  <2>1. dns_transmit_free(d) \in Struct
      BY FreeAll DEF TInv, IInv, TypeOK, NoLeak, Balanced
  <2>2. d'.udploop = asked'.first /\ d'.current_server = 0
      BY <1>3, <2>1 DEF Started, Struct
  <2>3. Reach' = 0 /\ ~InCall'
      BY <1>3, <2>2 DEF Reach, InCall, One
  <2>4. \A l \in 0 .. TCP, s \in Servers : tries'[<<l, s>>] = 0
      BY <1>1 DEF Slots
  <2>5. \A s \in Servers : ~(s < 0)
      BY CountsAssumption DEF Servers
  <2>o. \A s \in Servers : tries'[<<TCP, s>>] = 0
    <3>1. TCP \in 0 .. TCP
        BY DEF TCP
    <3> QED BY <2>4, <3>1
  <2>6. TcpTurns(tries', asked'.servers, 0)
      BY <2>o, <2>5 DEF TcpTurns, One
  <2>7. UdpTurns(tries', asked', asked'.first, 0)
    <3>1. asked'.first \in 0 .. 1
        BY <1>1
    <3>2. ASSUME NEW l \in 0 .. 3, NEW s \in Servers
          PROVE  tries'[<<l, s>>] = One(/\ s \in asked'.servers /\ asked'.first <= l
                                        /\ l < asked'.first \/ (l = asked'.first /\ s < 0))
      <4>1. tries'[<<l, s>>] = 0
          BY <2>4 DEF TCP
      <4>2. ~(/\ s \in asked'.servers /\ asked'.first <= l
              /\ l < asked'.first \/ (l = asked'.first /\ s < 0))
          BY <2>5, <3>1
      <4> QED BY <4>1, <4>2 DEF One
    <3>3. asked'.first <= asked'.first
        BY <3>1
    <3> DEFINE tr == tries'
    <3> DEFINE ask == asked'
    <3>4. ask.first <= ask.first /\ \A s \in Servers : tr[<<TCP, s>>] = 0
        BY <2>o, <3>3
    <3>5. \A l \in 0 .. 3, s \in Servers :
            tr[<<l, s>>] = One(/\ s \in ask.servers /\ ask.first <= l
                               /\ l < ask.first \/ (l = ask.first /\ s < 0))
        BY <3>2
    <3> HIDE DEF tr, ask
    <3>6. UdpTurns(tr, ask, ask.first, 0)
        BY <3>4, <3>5 DEF UdpTurns
    <3> QED BY <3>6 DEF tr, ask
  <2>8. (OverTcp => d.udploop < 4 /\ TcpTurns(tries, asked.servers, Reach))'
      BY <1>1, <2>2, <2>3, <2>6 DEF TcpTurns
  <2>9. (OverUdp => UdpTurns(tries, asked, d.udploop, Reach))'
      BY <2>2, <2>3, <2>7 DEF UdpTurns
  <2> QED BY <1>2, <1>3, <2>3, <2>8, <2>9 DEF Turns, EachOnce, AllTried
<1>4. CASE pc' = "failed" /\ broke' = TRUE
    BY <1>2, <1>4 DEF Turns, EachOnce, AllTried, OverTcp, OverUdp, InCall
<1> QED BY <1>3, <1>4 DEF dns_transmit_start

\* A turn in the loops: a server is asked, or it has no address.
LEMMA LoopTurns ==
    ASSUME TInv, pc \in {"udp", "tcp"}, pc = "udp" => d.udploop < 4, d.current_server < Count,
           UNCHANGED asked, d'.udploop = d.udploop,
           \/ AtServer /\ Tried
           \/ d.current_server \notin asked.servers /\ UNCHANGED tries,
           \/ pc' = pc /\ d'.current_server = d.current_server + 1
           \/ /\ pc' = "stamp" /\ d'.current_server = d.current_server
              /\ d'.tcpstate = 0 <=> pc = "udp"
    PROVE  Turns'
<1> DEFINE c == d.current_server
<1>1. c \in Nat /\ Reach = c
    BY TurnFacts DEF InCall
<1>2. Reach' = c + 1
    BY <1>1 DEF Reach, InCall, One
<1>3. pc' \in {"udp", "tcp", "stamp"} /\ OverUdp' = (pc = "udp") /\ OverTcp' = (pc = "tcp")
    BY DEF OverUdp, OverTcp, InCall
<1>4. CASE pc = "udp"
  <2>1. UdpTurns(tries, asked, d.udploop, c) /\ d.udploop \in 0 .. 3
      BY <1>1, <1>4, TurnFacts DEF TInv, Turns, OverUdp
  <2>2. UdpTurns(tries', asked, d.udploop, c + 1) /\ OneTry'
    <3>1. CASE AtServer /\ Tried
      <4>1. tries' = [tries EXCEPT ![<<d.udploop, c>>] = @ + 1] /\ c \in asked.servers
          BY <1>4, <3>1 DEF Tried, Here, AtServer
      <4> HIDE DEF c
      <4> QED BY <1>1, <2>1, <4>1, TurnFacts, UdpTurn DEF OneTry, c
    <3>2. CASE c \notin asked.servers /\ UNCHANGED tries
        BY <1>1, <2>1, <3>2, TurnFacts, NoTurn DEF OneTry
    <3> QED BY <3>1, <3>2
  <2>3. (OverUdp => UdpTurns(tries, asked, d.udploop, Reach))'
      BY <1>2, <2>2 DEF UdpTurns
  <2> QED BY <1>3, <1>4, <2>2, <2>3 DEF Turns, EachOnce, AllTried
<1>5. CASE pc = "tcp"
  <2>1. TcpTurns(tries, asked.servers, c) /\ d.udploop < 4
      BY <1>1, <1>5 DEF TInv, Turns, OverTcp
  <2>2. TcpTurns(tries', asked.servers, c + 1) /\ OneTry'
    <3>1. CASE AtServer /\ Tried
      <4>1. tries' = [tries EXCEPT ![<<TCP, c>>] = @ + 1] /\ c \in asked.servers
          BY <1>5, <3>1 DEF Tried, Here, AtServer
      <4> HIDE DEF c
      <4> QED BY <1>1, <2>1, <4>1, TurnFacts, TcpTurn DEF OneTry, c
    <3>2. CASE c \notin asked.servers /\ UNCHANGED tries
        BY <1>1, <2>1, <3>2, TurnFacts, NoTurn DEF OneTry
    <3> QED BY <3>1, <3>2
  <2>3. (OverTcp => d.udploop < 4 /\ TcpTurns(tries, asked.servers, Reach))'
      BY <1>2, <2>1, <2>2 DEF TcpTurns
  <2> QED BY <1>3, <1>5, <2>1, <2>2, <2>3 DEF Turns, EachOnce, AllTried
<1> QED BY <1>4, <1>5

LEMMA RoundEndTurns ==
    ASSUME TInv, NextRound
    PROVE  Turns'
<1>1. pc = "udp" /\ pc' = "udp" /\ d.udploop \in 0 .. 3 /\ d.current_server >= Count
    BY TurnFacts DEF NextRound
<1>2. /\ d'.udploop = d.udploop + 1 /\ d'.current_server = 0
      /\ UNCHANGED <<tries, asked>>
    BY TurnFacts DEF NextRound, Struct
<1>3. Reach = d.current_server /\ Reach' = 0
    BY <1>1, <1>2, TurnFacts DEF Reach, InCall, One
<1>4. UdpTurns(tries, asked, d.udploop, d.current_server)
    BY <1>1, <1>3 DEF TInv, Turns, OverUdp
<1>5. UdpTurns(tries, asked, d.udploop + 1, 0)
    BY <1>1, <1>4, TurnFacts, RoundTurns
<1>6. (OverUdp => UdpTurns(tries, asked, d.udploop, Reach))'
  <2>1. UdpTurns(tries', asked', d'.udploop, Reach')
      BY <1>2, <1>3, <1>5
  <2> QED BY <2>1 DEF UdpTurns
<1>7. OneTry'
    BY <1>2, TurnFacts DEF OneTry
<1> QED BY <1>1, <1>6, <1>7 DEF Turns, EachOnce, AllTried, OverTcp, InCall

\* The loops are at their end: everybody had his turn.
LEMMA ExhaustedTurns ==
    ASSUME TInv, Exhausted
    PROVE  Turns'
<1>1. pc' = "failed" /\ UNCHANGED <<tries, asked>> /\ d' = dns_transmit_free(d)
    BY DEF Exhausted, Die
<1>2. d'.udploop = d.udploop
  <2>1. d \in Struct /\ Balanced(d)
      BY DEF TInv, IInv, TypeOK, NoLeak, Balanced
  <2> QED BY <1>1, <2>1, QueryFree, SocketFree, FreeCounts DEF dns_transmit_free
<1>3. OneTry'
    BY <1>1, TurnFacts DEF OneTry
<1>4. asked.servers \subseteq Servers
    BY DEF TInv, IInv, TypeOK
<1>5. CASE pc = "udp" /\ d.udploop = 4
  <2>1. UdpTurns(tries, asked, 4, Reach)
      BY <1>5 DEF TInv, Turns, OverUdp
  <2>2. \A s \in asked.servers : \A l \in asked.first .. 3 : tries[<<l, s>>] = 1
    <3> TAKE s \in asked.servers
    <3> TAKE l \in asked.first .. 3
    <3>1. s \in Servers /\ l \in 0 .. 3 /\ asked.first <= l /\ l < 4
        BY <1>4, TurnFacts
    <3> QED BY <2>1, <3>1 DEF UdpTurns, One
  <2>3. AllTried'
      BY <1>1, <1>2, <1>5, <2>2 DEF AllTried
  <2> QED BY <1>1, <1>3, <2>3 DEF Turns, EachOnce, OverTcp, OverUdp, InCall
<1>6. CASE pc = "tcp" /\ d.current_server >= Count
  <2>1. TcpTurns(tries, asked.servers, Reach) /\ d.udploop < 4
      BY <1>6 DEF TInv, Turns, OverTcp
  <2>2. Reach >= Count /\ Reach \in Nat
      BY <1>6, TurnFacts DEF InCall
  <2>3. \A s \in asked.servers : tries[<<TCP, s>>] = 1
    <3> TAKE s \in asked.servers
    <3>1. s \in Servers /\ s < Reach
        BY <1>4, <2>2, CountsAssumption DEF Servers
    <3> QED BY <2>1, <3>1 DEF TcpTurns, One
  <2>4. AllTried'
      BY <1>1, <1>2, <2>1, <2>3, TurnFacts DEF AllTried
  <2> QED BY <1>1, <1>3, <2>4 DEF Turns, EachOnce, OverTcp, OverUdp, InCall
<1> QED BY <1>5, <1>6 DEF Exhausted

LEMMA LoopsTurn ==
    ASSUME TInv, SendUdp \/ ConnectTcp \/ SkipUnassigned
    PROVE  Turns'
<1>1. d \in Struct /\ NextServer(d).current_server = d.current_server + 1
      /\ NextServer(d).udploop = d.udploop
    BY TurnFacts DEF NextServer, Struct
<1>2. ASSUME NEW state, Waiting(state)
      PROVE  /\ pc' = "stamp" /\ d'.udploop = d.udploop /\ d'.tcpstate = state
             /\ d'.current_server = d.current_server
    BY <1>1, <1>2 DEF Waiting, Struct
<1>3. ASSUME Refused
      PROVE  /\ pc' = pc /\ d'.udploop = d.udploop
             /\ d'.current_server = d.current_server + 1
    BY <1>1, <1>3 DEF Refused
<1>4. CASE SendUdp
  <2>1. /\ pc = "udp" /\ d.udploop < 4 /\ AtServer /\ Tried /\ UNCHANGED asked
        /\ d.current_server < Count
      BY <1>4 DEF SendUdp, AtServer
  <2>2. CASE Waiting(0)
      BY <1>2, <2>1, <2>2, LoopTurns
  <2>3. CASE Refused
      BY <1>3, <2>1, <2>3, LoopTurns
  <2> QED BY <1>4, <2>2, <2>3 DEF SendUdp
<1>5. CASE ConnectTcp
  <2>1. pc = "tcp" /\ AtServer /\ Tried /\ UNCHANGED asked /\ d.current_server < Count
      BY <1>5 DEF ConnectTcp, AtServer
  <2>2. ASSUME NEW state \in {1, 2}, Waiting(state) PROVE Turns'
    <3>1. d'.tcpstate # 0
        BY <1>2, <2>2
    <3> QED BY <1>2, <2>1, <2>2, <3>1, LoopTurns
  <2>3. CASE Refused
      BY <1>3, <2>1, <2>3, LoopTurns
  <2> QED BY <1>5, <2>2, <2>3 DEF ConnectTcp
<1>6. CASE SkipUnassigned
  <2>1. /\ pc \in {"udp", "tcp"} /\ (pc = "udp" => d.udploop < 4) /\ d.current_server < Count
        /\ d.current_server \notin asked.servers /\ d' = NextServer(d)
        /\ UNCHANGED <<pc, asked, tries>>
      BY <1>6 DEF SkipUnassigned
  <2> QED BY <1>1, <2>1, LoopTurns
<1> QED BY <1>4, <1>5, <1>6

LEMMA DieTurns == ASSUME TInv, NEW x, Die(x, TRUE) PROVE Turns'
BY EndTurns DEF Die

LEMMA IgnoreTurns == ASSUME TInv, InCall, Ignore PROVE Turns'
BY WaitTurns DEF Ignore

LEMMA RecvTurns ==
    ASSUME TInv, NotReady \/ RecvError \/ RecvTooLong \/ \E a \in Answers : RecvAnswer(a)
    PROVE  Turns'
<1>0. InCall
    BY DEF InCall, NotReady, RecvError, RecvTooLong, RecvAnswer, Got
<1>1. CASE NotReady
  <2>1. CASE ~when
    <3>1. pc' = "stamp" /\ UNCHANGED <<d, asked, tries, broke>>
        BY <1>1, <2>1 DEF NotReady
    <3> QED BY <1>0, <3>1, StayTurns
  <2>2. CASE when
      BY <1>0, <1>1, <2>2, NextTurns DEF NotReady
  <2> QED BY <2>1, <2>2
<1>2. CASE RecvError
    BY <1>0, <1>2, NextTurns, IgnoreTurns DEF RecvError
<1>3. CASE RecvTooLong
    BY <1>0, <1>3, IgnoreTurns DEF RecvTooLong
<1>4. ASSUME NEW a \in Answers, RecvAnswer(a)
      PROVE  Turns'
  <2>1. d.tcpstate = 0
      BY <1>4 DEF RecvAnswer
  <2>2. \/ Ignore \/ firsttcp \/ nextudp \/ Die(d, TRUE)
        \/ Answered([socketfree(d) EXCEPT !.packet = TRUE, !.mem = @ + 1])
      BY <1>4 DEF RecvAnswer
  <2>3. ASSUME NEW x, Answered(x) PROVE Turns'
      BY <2>3, EndTurns DEF Answered
  <2> QED BY <1>0, <2>1, <2>2, <2>3, IgnoreTurns, FirstTurns, NextTurns, DieTurns
<1> QED BY <1>1, <1>2, <1>3, <1>4

LEMMA StreamTurns ==
    ASSUME TInv, \/ Connected \/ WriteQuery \/ ReadLength \/ ReadSome
                 \/ \E len \in 0 .. MaxLen : ReadLength2(len)
                 \/ \E a \in Answers : ReadAnswer(a)
    PROVE  Turns'
<1>0. InCall /\ d.tcpstate # 0 /\ d \in Struct
  <2>1. pc = "get" /\ d.tcpstate \in {1, 2, 3, 4, 5}
      BY DEF Connected, WriteQuery, ReadLength, ReadSome, ReadLength2, ReadAnswer, Got
  <2> QED BY <2>1, TurnFacts DEF InCall
<1>1. ASSUME NEW x, WaitOn(x), x.udploop = d.udploop, x.current_server = d.current_server,
             x.tcpstate # 0
      PROVE  Turns'
    BY <1>0, <1>1, WaitTurns
<1>2. ASSUME nexttcp PROVE Turns'
    BY <1>0, <1>2, NextTurns
<1>3. CASE Connected
  <2>1. ASSUME WaitOn([d EXCEPT !.pos = 0, !.tcpstate = 2]) PROVE Turns'
    <3> DEFINE x == [d EXCEPT !.pos = 0, !.tcpstate = 2]
    <3>1. x.udploop = d.udploop /\ x.current_server = d.current_server /\ x.tcpstate # 0
        BY <1>0 DEF Struct
    <3>2. WaitOn(x)
        BY <2>1
    <3> HIDE DEF x
    <3> QED BY <1>1, <3>1, <3>2
  <2> QED BY <1>2, <1>3, <2>1 DEF Connected
<1>4. CASE WriteQuery
  <2>1. ASSUME NEW r, Written(r), d.tcpstate = 2 PROVE Turns'
    <3>1. CASE d.pos + r = QueryLen
      <4> DEFINE x == [d EXCEPT !.pos = d.pos + r, !.tcpstate = 3]
      <4>1. x.udploop = d.udploop /\ x.current_server = d.current_server /\ x.tcpstate = 3
          BY <1>0 DEF Struct
      <4>2. WaitOn(x)
          BY <2>1, <3>1 DEF Written
      <4> HIDE DEF x
      <4> QED BY <1>1, <4>1, <4>2
    <3>2. CASE d.pos + r # QueryLen
      <4> DEFINE x == [d EXCEPT !.pos = d.pos + r]
      <4>1. x.udploop = d.udploop /\ x.current_server = d.current_server /\ x.tcpstate = d.tcpstate
          BY <1>0 DEF Struct
      <4>2. WaitOn(x)
          BY <2>1, <3>2 DEF Written
      <4> HIDE DEF x
      <4> QED BY <1>0, <1>1, <4>1, <4>2
    <3> QED BY <3>1, <3>2
  <2> QED BY <1>2, <1>4, <2>1 DEF WriteQuery
<1>5. CASE ReadLength
  <2>1. ASSUME WaitOn([d EXCEPT !.tcpstate = 4]) PROVE Turns'
    <3> DEFINE x == [d EXCEPT !.tcpstate = 4]
    <3>1. x.udploop = d.udploop /\ x.current_server = d.current_server /\ x.tcpstate # 0
        BY <1>0 DEF Struct
    <3>2. WaitOn(x)
        BY <2>1
    <3> HIDE DEF x
    <3> QED BY <1>1, <3>1, <3>2
  <2> QED BY <1>2, <1>5, <2>1 DEF ReadLength
<1>6. CASE ReadSome
  <2>1. ASSUME NEW r, WaitOn([d EXCEPT !.pos = d.pos + r]) PROVE Turns'
    <3> DEFINE x == [d EXCEPT !.pos = d.pos + r]
    <3>1. x.udploop = d.udploop /\ x.current_server = d.current_server /\ x.tcpstate # 0
        BY <1>0 DEF Struct
    <3>2. WaitOn(x)
        BY <2>1
    <3> HIDE DEF x
    <3> QED BY <1>1, <3>1, <3>2
  <2> QED BY <1>2, <1>6, <2>1 DEF ReadSome
<1>7. ASSUME NEW len \in 0 .. MaxLen, ReadLength2(len) PROVE Turns'
  <2> DEFINE x == [d EXCEPT !.tcpstate = 5, !.pos = 0, !.packetlen = len,
                            !.packet = TRUE, !.mem = d.mem + 1]
  <2>1. x.udploop = d.udploop /\ x.current_server = d.current_server /\ x.tcpstate # 0
      BY <1>0 DEF Struct
  <2>2. WaitOn(x) \/ Die(d, TRUE) \/ nexttcp
      BY <1>7 DEF ReadLength2
  <2> HIDE DEF x
  <2> QED BY <1>1, <1>2, <2>1, <2>2, DieTurns
<1>8. ASSUME NEW a \in Answers, ReadAnswer(a) PROVE Turns'
  <2>1. nexttcp \/ Answered([socketfree(d) EXCEPT !.pos = d.packetlen])
      BY <1>8 DEF ReadAnswer
  <2>2. ASSUME NEW x, Answered(x) PROVE Turns'
      BY <2>2, EndTurns DEF Answered
  <2> QED BY <1>2, <2>1, <2>2
<1> QED BY <1>3, <1>4, <1>5, <1>6, <1>7, <1>8

LEMMA StepTurns == TInv /\ [Next]_vars => TInv'
<1> SUFFICES ASSUME TInv, [Next]_vars PROVE TInv'
    OBVIOUS
<1>1. IInv'
    BY StepInv DEF TInv
<1>2. Turns'
  <2>1. CASE dns_transmit_start
      BY <2>1, StartTurns
  <2>2. CASE Free
      BY <2>2, EndTurns DEF Free
  <2>3. CASE Stamp \/ Poll
      BY <2>3, StayTurns DEF Stamp, Poll, InCall
  <2>4. CASE SendUdp \/ ConnectTcp \/ SkipUnassigned
      BY <2>4, LoopsTurn
  <2>5. CASE NoSocket
      BY <2>5, DieTurns DEF NoSocket
  <2>6. CASE NextRound
      BY <2>6, RoundEndTurns
  <2>7. CASE Exhausted
      BY <2>7, ExhaustedTurns
  <2>8. CASE dns_transmit_get
      BY <2>8, RecvTurns, StreamTurns DEF dns_transmit_get
  <2>9. CASE Arrive \/ Expire \/ UNCHANGED vars
      BY <2>9, StayTurns DEF Arrive, Expire, vars
  <2> QED BY <2>1, <2>2, <2>3, <2>4, <2>5, <2>6, <2>7, <2>8, <2>9 DEF Next, Library
<1> QED BY <1>1, <1>2 DEF TInv

\* No server is asked twice in a round, whatever ends a try, and unless a
\* resource of the process fails, no query fails before everybody had a turn.
THEOREM AllHaveTheirTurn == Spec => []EachOnce
<1>1. Init => TInv
  <2> SUFFICES ASSUME Init PROVE TInv
      OBVIOUS
  <2>1. EachOnce
      BY DEF Init, EachOnce, OneTry, AllTried
  <2> QED BY <2>1, InitInv DEF Init, TInv, Turns, OverTcp, OverUdp, InCall
<1>2. TInv => EachOnce
    BY DEF TInv, Turns
<1> QED BY <1>1, <1>2, StepTurns, PTL DEF Spec
=============================================================================
