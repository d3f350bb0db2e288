-------------------------- MODULE TcpServerProofs --------------------------
(***************************************************************************)
(* TcpServer is type correct and keeps within its limit, for any numbers of *)
(* clients, processes and inherited children and any limit.                 *)
(***************************************************************************)
EXTENDS TcpServer, FiniteSetTheorems, TLAPS

(* Whether the handler interrupted, or the parent is at, one of these.      *)
At(pcs) == pc \in pcs \/ (pc = "sigchld" /\ resume \in pcs)

(* The child that Block counts and Fork has yet to make.                    *)
Owed == IF pc = "fork" THEN 1 ELSE 0

(* Every child but the inherited ones is counted.                           *)
Counted == Cardinality(Children) + Owed <= numchildren + Cardinality(Inherited)

(* There was room when the loop was left, and nothing has been added since. *)
Room == At({"accept", "accepted"}) => numchildren < limit

OwedCounted == pc = "fork" => numchildren > 0

(* The parent has only the connection open that it is busy with.            *)
OneOpen ==
  /\ fds \subseteq {t}
  /\ ~At({"accepted", "fork", "close"}) => fds = {}

IInv == TypeOK /\ Counted /\ Room /\ OwedCounted /\ OneOpen

-----------------------------------------------------------------------------
LEMMA ChildrenFinite ==
  /\ IsFiniteSet(Pids) /\ IsFiniteSet(Inherited)
  /\ IsFiniteSet(Children) /\ IsFiniteSet(Live)
  /\ Cardinality(Live) <= Cardinality(Children)
  /\ Cardinality(Children) \in Nat /\ Cardinality(Inherited) \in Nat /\ Cardinality(Live) \in Nat
<1>1. IsFiniteSet(Pids) /\ Inherited \subseteq Pids BY TcpServerAssumption
<1>2. Children \subseteq Pids /\ Live \subseteq Children BY DEF Children, Live
<1>3. IsFiniteSet(Children) /\ IsFiniteSet(Inherited) BY <1>1, <1>2, FS_Subset
<1>4. IsFiniteSet(Live) /\ Cardinality(Live) <= Cardinality(Children) BY <1>2, <1>3, FS_Subset
<1> QED BY <1>1, <1>3, <1>4, FS_CardinalityType

(* A step that does not touch the set of children does not touch Counted.   *)
LEMMA SameChildren ==
  ASSUME proc' = proc PROVE Children' = Children
BY DEF Children

LEMMA InitInv == Init => IInv
<1> SUFFICES ASSUME Init PROVE IInv OBVIOUS
<1> USE TcpServerAssumption
<1>1. proc \in [Pids -> Proc] BY DEF Init, Free, Proc
<1>2. TypeOK
  <2>1. backlog \in Seq(Conns) BY DEF Init
  <2>2. fails \in 0 .. MaxFails /\ numchildren \in 0 .. limit BY DEF Init
  <2> QED BY <1>1, <2>1, <2>2 DEF Init, TypeOK, PCs
<1>3. Children = Inherited BY DEF Init, Children, Free
<1>4. Counted BY <1>3, ChildrenFinite DEF Init, Counted, Owed
<1> QED BY <1>2, <1>4 DEF Init, IInv, Room, At, OwedCounted, OneOpen

(* Each step of the parent but Fork and Reap leaves the children alone, and *)
(* moves the count and what is owed together.                               *)
LEMMA QuietStep ==
  ASSUME IInv, Test \/ Accept \/ AcceptFails \/ Block \/ ForkFails \/ Close
                 \/ Handle \/ ReapNone \/ Term \/ \E c \in Conns : Connect(c)
  PROVE  IInv'
<1> USE TcpServerAssumption
<1> USE DEF IInv, TypeOK, PCs, Counted, Owed, Room, At, OwedCounted, OneOpen, conns
<1>0. Children' = Children
  BY SameChildren DEF Test, Accept, AcceptFails, Block, ForkFails, Close, Handle, ReapNone, Term, Connect
<1>1. CASE Test BY <1>0, <1>1 DEF Test, Full
<1>2. CASE Accept
  <2>1. Head(backlog) \in Conns /\ Tail(backlog) \in Seq(Conns) BY <1>2 DEF Accept
  <2>2. fds = {} BY <1>2 DEF Accept
  <2>3. backlog' \in Seq(Conns) /\ t' \in Conns /\ fds' = {t'} BY <1>2, <2>1, <2>2 DEF Accept
  <2>4. TypeOK' BY <1>2, <2>3 DEF Accept
  <2>5. Counted' /\ Room' BY <1>0, <1>2 DEF Accept
  <2>6. OwedCounted' /\ OneOpen' BY <1>2, <2>3 DEF Accept
  <2> QED BY <2>4, <2>5, <2>6
<1>3. CASE AcceptFails BY <1>0, <1>3 DEF AcceptFails
<1>4. CASE Block BY <1>0, <1>4, ChildrenFinite DEF Block
<1>5. CASE ForkFails BY <1>0, <1>5, ChildrenFinite DEF ForkFails, AfterForkFails
<1>6. CASE Close BY <1>0, <1>6 DEF Close
<1>7. CASE Handle
  <2>1. /\ sigchld' = FALSE /\ pc' = "sigchld"
        /\ UNCHANGED <<numchildren, conns, proc, fails>>
        /\ pc # "fork" /\ pc # "sigchld" /\ pc # "close"
        /\ resume' \in {"test", "accept", "accepted"}
        /\ resume' = "accept" => pc = "accept"
        /\ resume' = "accepted" <=> pc = "accepted"
    BY <1>7 DEF Handle, Unblocked
  <2>2. TypeOK' BY <2>1
  <2>3. Counted' /\ OwedCounted' BY <1>0, <2>1
  <2>4. Room' /\ OneOpen' BY <2>1
  <2> QED BY <2>2, <2>3, <2>4
<1>8. CASE ReapNone BY <1>0, <1>8 DEF ReapNone
<1>9. CASE Term BY <1>0, <1>9, ChildrenFinite DEF Term
<1>10. CASE \E c \in Conns : Connect(c) BY <1>0, <1>10 DEF Connect
<1> QED BY <1>1, <1>2, <1>3, <1>4, <1>5, <1>6, <1>7, <1>8, <1>9, <1>10

(* Fork makes the child that was owed.                                      *)
LEMMA ForkStep == ASSUME IInv, Fork PROVE IInv'
<1> USE TcpServerAssumption
<1>1. PICK p \in Pids \ Children : proc' = [proc EXCEPT ![p] = [st |-> "setup", conn |-> t]]
  BY DEF Fork
<1>2. Children' = Children \cup {p} BY <1>1 DEF Children, IInv, TypeOK
<1>3. Cardinality(Children') = Cardinality(Children) + 1
  BY <1>1, <1>2, ChildrenFinite, FS_AddElement
<1>4. Counted' BY <1>3, ChildrenFinite DEF Fork, IInv, TypeOK, Counted, Owed
<1>5. proc' \in [Pids -> Proc] BY <1>1 DEF IInv, TypeOK, Proc
<1>6. TypeOK' BY <1>5 DEF Fork, IInv, TypeOK, PCs, conns
<1> QED BY <1>4, <1>6 DEF Fork, IInv, Room, At, OwedCounted, OneOpen, conns

(* A reaped child takes one off both sides of Counted, or the count is 0    *)
(* and only inherited children are left.                                    *)
LEMMA ReapStep == ASSUME IInv, Reap PROVE IInv'
<1> USE TcpServerAssumption
<1>1. PICK p \in Zombies : proc' = [proc EXCEPT ![p] = Free] BY DEF Reap
<1>2. Children' = Children \ {p} /\ p \in Children /\ p \in Pids
  BY <1>1 DEF Children, Zombies, Free, IInv, TypeOK
<1>3. Cardinality(Children') = Cardinality(Children) - 1
  BY <1>2, ChildrenFinite, FS_RemoveElement
<1>4. numchildren' \in 0 .. limit /\ numchildren' <= numchildren /\ numchildren - 1 <= numchildren'
  BY DEF Reap, Decremented, IInv, TypeOK
<1>5. Counted' BY <1>3, <1>4, ChildrenFinite DEF Reap, Again, IInv, TypeOK, Counted, Owed
<1>6. proc' \in [Pids -> Proc] BY <1>1, <1>2 DEF IInv, TypeOK, Proc, Free
<1>7. TypeOK' BY <1>4, <1>6 DEF Reap, Again, IInv, TypeOK, PCs, conns
<1>8. Room' BY <1>4 DEF Reap, Again, IInv, TypeOK, Room, At
<1> QED BY <1>5, <1>7, <1>8 DEF Reap, Again, IInv, At, OwedCounted, OneOpen, conns

(* What children do by themselves changes neither their set nor the parent. *)
LEMMA ChildStep ==
  ASSUME IInv, NEW p \in Pids, ChildExec(p) \/ ChildExits(p) PROVE IInv'
<1>1. PICK v \in Proc : v.st # "free" /\ proc[p].st # "free" /\ proc' = [proc EXCEPT ![p] = v]
  <2>1. proc \in [Pids -> Proc] /\ proc[p] \in Proc BY DEF IInv, TypeOK
  <2>2. CASE ChildExec(p)
    <3> DEFINE v == [proc[p] EXCEPT !.st = "prog"]
    <3>1. v \in Proc /\ v.st = "prog" BY <2>1 DEF Proc
    <3>2. proc[p].st = "setup" /\ proc' = [proc EXCEPT ![p] = v] BY <2>2 DEF ChildExec
    <3> QED BY <3>1, <3>2
  <2>3. CASE ChildExits(p)
    <3> DEFINE v == [st |-> "zombie", conn |-> None]
    <3>1. v \in Proc /\ v.st = "zombie" BY DEF Proc
    <3>2. p \in Live /\ proc' = [proc EXCEPT ![p] = v] BY <2>3 DEF ChildExits
    <3> QED BY <3>1, <3>2 DEF Live, Children
  <2> QED BY <2>2, <2>3
<1>2. proc' \in [Pids -> Proc] /\ Children' = Children
  BY <1>1 DEF IInv, TypeOK, Children
<1>3. TypeOK' BY <1>2 DEF ChildExec, ChildExits, IInv, TypeOK, PCs, conns
<1> QED BY <1>2, <1>3 DEF ChildExec, ChildExits, IInv, Counted, Owed, Room, At,
                         OwedCounted, OneOpen, conns

LEMMA StepInv == IInv /\ [Next]_vars => IInv'
<1> SUFFICES ASSUME IInv, [Next]_vars PROVE IInv' OBVIOUS
<1>1. CASE Next
  <2>1. CASE Fork BY <2>1, ForkStep
  <2>2. CASE Reap BY <2>2, ReapStep
  <2>3. CASE \E p \in Pids : ChildExec(p) \/ ChildExits(p) BY <2>3, ChildStep
  <2> QED BY <1>1, <2>1, <2>2, <2>3, QuietStep DEF Next, Server
<1>2. CASE UNCHANGED vars
  <2>1. Children' = Children BY <1>2, SameChildren DEF vars
  <2> QED BY <1>2, <2>1 DEF vars, conns, IInv, TypeOK, Counted, Owed, Room, At, OwedCounted, OneOpen
<1> QED BY <1>1, <1>2

THEOREM Invariant == Spec => []IInv
BY InitInv, StepInv, PTL DEF Spec

(* The count is a count: it never leaves 0 .. limit, in particular it does  *)
(* not wrap when inherited children exit.                                   *)
THEOREM TypeCorrect == Spec => []TypeOK
<1>1. IInv => TypeOK BY DEF IInv
<1> QED BY <1>1, Invariant, PTL

(* No order of connections, exits, signals and failed forks makes more      *)
(* children run than the limit and the inherited ones, or leaves a          *)
(* connection open in the parent.                                           *)
THEOREM LimitHolds == Spec => []WithinLimit
<1>1. IInv => WithinLimit
  <2> SUFFICES ASSUME IInv PROVE WithinLimit OBVIOUS
  <2>1. Cardinality(Children) <= numchildren + Cardinality(Inherited)
    BY ChildrenFinite DEF IInv, TypeOK, Counted, Owed
  <2>2. Cardinality(Live) <= limit + Cardinality(Inherited)
    BY <2>1, ChildrenFinite, TcpServerAssumption DEF IInv, TypeOK
  <2> QED BY <2>2 DEF IInv, OneOpen, WithinLimit
<1> QED BY <1>1, Invariant, PTL

(* The count, typed, keeps the limit.                                       *)
THEOREM CountIsKept == Spec => []CountHolds
BY TypeCorrect, LimitHolds, PTL DEF CountHolds
=============================================================================
