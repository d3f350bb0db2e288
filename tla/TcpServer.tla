------------------------------ MODULE TcpServer ------------------------------
(***************************************************************************)
(* tcpserver(1), source/tcpserver.c: the loop of the parent that accepts    *)
(* connections and forks a child for each, the SIGCHLD handler that counts  *)
(* the children down again, and the limit on their number.                  *)
(*                                                                         *)
(* The handler runs only where the signal is not blocked: in sig_pause()    *)
(* and from sig_unblock() to sig_block() around accept().                   *)
(***************************************************************************)
EXTENDS Naturals, Sequences, FiniteSets

CONSTANTS
  Conns,     \* connections that clients may make
  Pids,
  Inherited, \* children that the process had before it became tcpserver
  None,
  limit,     \* option -c
  MaxFails   \* bound on failing accept() and fork() calls

ASSUME TcpServerAssumption ==
  /\ IsFiniteSet(Pids) /\ Inherited \subseteq Pids
  /\ None \notin Conns
  /\ limit \in Nat /\ MaxFails \in Nat

VARIABLES
  pc,
  resume,       \* where the SIGCHLD handler returns to
  numchildren,
  t,            \* the connection just accepted
  fds,          \* connections open in the parent
  sigchld,      \* whether SIGCHLD is pending
  proc,         \* the children: state and connection
  backlog,      \* connections that wait to be accepted
  fails

vars == <<pc, resume, numchildren, t, fds, sigchld, proc, backlog, fails>>
conns == <<t, fds, backlog>>

Free == [st |-> "free", conn |-> None]
Proc == [st : {"free", "setup", "prog", "zombie"}, conn : Conns \cup {None}]

Children == {p \in Pids : proc[p].st # "free"}
Zombies  == {p \in Pids : proc[p].st = "zombie"}
Live     == Children \ Zombies
Served   == {proc[p].conn : p \in Live}
Backlog  == {backlog[i] : i \in 1 .. Len(backlog)}

-----------------------------------------------------------------------------
(* The loop of main()                                                       *)

(* Mutant: one child too many.                                              *)
Full_OffByOne == numchildren > limit

Full == numchildren >= limit

Test ==
  /\ pc = "test"
  /\ pc' = IF Full THEN "pause" ELSE "accept"
  /\ UNCHANGED <<resume, numchildren, conns, sigchld, proc, fails>>

Accept ==
  /\ pc = "accept" /\ backlog # <<>>
  /\ t' = Head(backlog) /\ backlog' = Tail(backlog) /\ fds' = fds \cup {Head(backlog)}
  /\ pc' = "accepted"
  /\ UNCHANGED <<resume, numchildren, sigchld, proc, fails>>

(* accept() fails for another reason than a signal.                         *)
AcceptFails ==
  /\ pc = "accept" /\ fails < MaxFails
  /\ fails' = fails + 1
  /\ pc' = "test"
  /\ UNCHANGED <<resume, numchildren, conns, sigchld, proc>>

(* sig_block(), ++numchildren.                                              *)
Block ==
  /\ pc = "accepted"
  /\ numchildren' = numchildren + 1
  /\ pc' = "fork"
  /\ UNCHANGED <<resume, conns, sigchld, proc, fails>>

Fork ==
  /\ pc = "fork"
  /\ \E p \in Pids \ Children : proc' = [proc EXCEPT ![p] = [st |-> "setup", conn |-> t]]
  /\ pc' = "close"
  /\ UNCHANGED <<resume, numchildren, conns, sigchld, fails>>

(* Mutant: the child that never was stays counted.                          *)
AfterForkFails_Counted == numchildren

AfterForkFails == numchildren - 1

ForkFails ==
  /\ pc = "fork" /\ fails < MaxFails
  /\ fails' = fails + 1
  /\ numchildren' = AfterForkFails
  /\ pc' = "close"
  /\ UNCHANGED <<resume, conns, sigchld, proc>>

Close ==
  /\ pc = "close"
  /\ fds' = fds \ {t} /\ t' = None
  /\ pc' = "test"
  /\ UNCHANGED <<resume, numchildren, sigchld, proc, backlog, fails>>

-----------------------------------------------------------------------------
(* The signals                                                              *)

(* sig_pause() returns after the handler.  accept() may not have begun yet, *)
(* or fails with EINTR, or is already over.                                 *)
Unblocked == {<<"pause", "test">>, <<"accept", "accept">>, <<"accept", "test">>,
              <<"accepted", "accepted">>}

Handle ==
  /\ sigchld
  /\ \E way \in Unblocked : pc = way[1] /\ resume' = way[2]
  /\ sigchld' = FALSE
  /\ pc' = "sigchld"
  /\ UNCHANGED <<numchildren, conns, proc, fails>>

(* Mutant: a handler that waits for one child only.                         *)
Again_Never == resume

Again == "sigchld"

(* Mutant: the unsigned counter wraps to a number above the limit when a    *)
(* child exits that was not counted.                                        *)
Decremented_Wraps == IF numchildren = 0 THEN limit + 1 ELSE numchildren - 1

(* Children that were there before tcpserver were not counted.              *)
Decremented == IF numchildren = 0 THEN 0 ELSE numchildren - 1

(* One turn of its loop.                                                    *)
Reap ==
  /\ pc = "sigchld"
  /\ \E p \in Zombies : proc' = [proc EXCEPT ![p] = Free]
  /\ numchildren' = Decremented
  /\ pc' = Again
  /\ UNCHANGED <<resume, conns, sigchld, fails>>

ReapNone ==
  /\ pc = "sigchld" /\ Zombies = {}
  /\ pc' = resume
  /\ UNCHANGED <<resume, numchildren, conns, sigchld, proc, fails>>

(* SIGTERM is never blocked; the children go on.                            *)
Term ==
  /\ pc # "exited"
  /\ pc' = "exited" /\ t' = None /\ fds' = {}
  /\ UNCHANGED <<resume, numchildren, backlog, sigchld, proc, fails>>

-----------------------------------------------------------------------------
(* The children and the clients                                             *)

(* doit(), and exec of the program.                                         *)
ChildExec(p) ==
  /\ proc[p].st = "setup"
  /\ proc' = [proc EXCEPT ![p].st = "prog"]
  /\ UNCHANGED <<pc, resume, numchildren, conns, sigchld, fails>>

(* The program exits, or the child refuses or drops the connection.         *)
ChildExits(p) ==
  /\ p \in Live
  /\ proc' = [proc EXCEPT ![p] = [st |-> "zombie", conn |-> None]]
  /\ sigchld' = TRUE
  /\ UNCHANGED <<pc, resume, numchildren, conns, fails>>

Connect(c) ==
  /\ pc # "exited"
  /\ c \notin Backlog \cup fds \cup Served
  /\ backlog' = Append(backlog, c)
  /\ UNCHANGED <<pc, resume, numchildren, t, fds, sigchld, proc, fails>>

Init ==
  /\ pc = "test" /\ resume = "test"
  /\ numchildren = 0 /\ t = None /\ fds = {} /\ sigchld = FALSE
  /\ proc = [p \in Pids |-> IF p \in Inherited THEN [st |-> "prog", conn |-> None] ELSE Free]
  /\ backlog = <<>> /\ fails = 0

Server ==
  \/ Test \/ Accept \/ AcceptFails \/ Block \/ Fork \/ ForkFails \/ Close
  \/ Handle \/ Reap \/ ReapNone

Next ==
  \/ Server \/ Term
  \/ \E p \in Pids : ChildExec(p) \/ ChildExits(p)
  \/ \E c \in Conns : Connect(c)

Spec == Init /\ [][Next]_vars

(* The parent is scheduled.  Children need not exit, nor clients connect.   *)
LiveSpec == Spec /\ WF_vars(Server)

-----------------------------------------------------------------------------
PCs == {"test", "pause", "accept", "accepted", "fork", "close", "sigchld", "exited"}

TypeOK ==
  /\ pc \in PCs /\ resume \in {"test", "accept", "accepted"}
  /\ numchildren \in 0 .. limit
  /\ t \in Conns \cup {None} /\ fds \subseteq Conns
  /\ sigchld \in BOOLEAN
  /\ proc \in [Pids -> Proc]
  /\ backlog \in Seq(Conns)
  /\ fails \in 0 .. MaxFails

(* "Do not handle more than n simultaneous connections", whatever the order *)
(* of exits, handlers and failed forks; a child that was there before       *)
(* tcpserver takes one off the count when it exits.                         *)
WithinLimit ==
  /\ Cardinality(Live) <= limit + Cardinality(Inherited)
  /\ fds \subseteq {t}

(* The count is one, and keeps the limit.                                   *)
CountHolds == TypeOK /\ WithinLimit

(* While fewer than n run, the connection that has waited longest gets its  *)
(* turn: no exit of a child is overlooked, also when several come at once.  *)
NeverStuck ==
  \A c \in Conns :
    (backlog # <<>> /\ Head(backlog) = c /\ Cardinality(Live) < limit)
      ~> (c \notin Backlog \/ Cardinality(Live) >= limit \/ pc = "exited")
=============================================================================
