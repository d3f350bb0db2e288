---------------------------- MODULE SvscanProofs ----------------------------
(***************************************************************************)
(* The table of svscan is sound, for any numbers of directories, inodes,    *)
(* processes and pipes, any capacity of x[] and any failures.               *)
(*                                                                         *)
(* start() fills an entry in as many as three assignments.  What the table, *)
(* the children and the pipes owe each other is therefore stated of any     *)
(* table xx, children pr and pipes pp, so that each assignment has a lemma. *)
(***************************************************************************)
EXTENDS Svscan, FiniteSetTheorems, SequenceTheorems, TLAPS

Typed(xx, pr, pp) == xx \in Seq(Entry) /\ pr \in [Pids -> Proc] /\ pp \subseteq Pipes

Used(pr) == {p \in Pids : pr[p].st # "free"}

(* Every pid in the table is a child, and is there once.                    *)
OnlyChildren(xx, pr) ==
  \A k \in 1..Len(xx) : {xx[k].pid, xx[k].pidlog} \subseteq Used(pr) \cup {None}

OneSlot(xx) ==
  \A j, k \in 1..Len(xx) :
    /\ xx[j].pid # None /\ xx[j].pid = xx[k].pid => j = k
    /\ xx[j].pidlog # None /\ xx[j].pidlog = xx[k].pidlog => j = k
    /\ xx[j].pid # None => xx[j].pid # xx[k].pidlog

AllChildren(xx, pr) ==
  \A p \in Used(pr) : \E k \in 1..Len(xx) : p \in {xx[k].pid, xx[k].pidlog}

OneEntry(xx) == \A j, k \in 1..Len(xx) : xx[j].ino = xx[k].ino => j = k

(* An entry has a pipe if and only if it has a log; pipes are not shared.   *)
LogPiped(xx, pp) ==
  \A k \in 1..Len(xx) :
    /\ IF xx[k].flaglog THEN xx[k].pi \in pp ELSE xx[k].pi = None
    /\ xx[k].pidlog # None => xx[k].flaglog

AllPipes(xx, pp) == \A q \in pp : \E k \in 1..Len(xx) : xx[k].flaglog /\ xx[k].pi = q

OnePipe(xx) ==
  \A j, k \in 1..Len(xx) : xx[j].flaglog /\ xx[j].pi = xx[k].pi => j = k

(* The children of an entry were given its pipe.                            *)
Piped(xx, pr) ==
  \A k \in 1..Len(xx) :
    /\ xx[k].pid # None => pr[xx[k].pid].pipe = xx[k].pi
    /\ xx[k].pidlog # None => pr[xx[k].pidlog].pipe = xx[k].pi

(* A child that has yet to look its directory up knows its name.            *)
Named(pr) == \A p \in Pids : pr[p].st = "forked" => pr[p].name \in Names

Sound(xx, pr, pp) ==
  /\ Typed(xx, pr, pp)
  /\ OnlyChildren(xx, pr) /\ OneSlot(xx) /\ AllChildren(xx, pr)
  /\ OneEntry(xx)
  /\ LogPiped(xx, pp) /\ AllPipes(xx, pp) /\ OnePipe(xx) /\ Piped(xx, pr)
  /\ Named(pr)

(* What TypeOK says of the variables that Sound leaves out.                 *)
RestTyped ==
  /\ stable \subseteq Inodes
  /\ pc \in {"reap", "open", "read", "sweep", "sleep"}
  /\ Len(x) <= SERVICES
  /\ i \in 1..SERVICES + 1
  /\ dir \in [Names -> Inodes \cup {None}] /\ withlog \subseteq Inodes
  /\ todo \subseteq Names /\ done \subseteq Names
  /\ fails \in 0..MaxFails

IInv == Sound(x, proc, pipes) /\ RestTyped

-----------------------------------------------------------------------------
(* The three assignments of start().                                        *)

(* x[numx] is filled and numx incremented: pi is None, or from pipe().      *)
LEMMA NewIsSound ==
  ASSUME NEW xx, NEW pr, NEW pp, Sound(xx, pr, pp), SvscanAssumption,
         NEW ino \in Inodes, NEW pi \in (Pipes \ pp) \cup {None},
         \A k \in 1..Len(xx) : xx[k].ino # ino
  PROVE  Sound(Append(xx, NewEntry(ino, pi)), pr, pp \cup ({pi} \ {None}))
<1> DEFINE e == NewEntry(ino, pi)
<1> DEFINE yy == Append(xx, e)
<1> DEFINE qq == pp \cup ({pi} \ {None})
<1> USE SvscanAssumption DEF Sound, Typed
<1>1. e \in Entry BY DEF NewEntry, Entry
<1>2. /\ yy \in Seq(Entry) /\ Len(yy) = Len(xx) + 1 /\ Len(xx) \in Nat
      /\ \A k \in 1..Len(xx) : yy[k] = xx[k] /\ xx[k] \in Entry
      /\ yy[Len(xx) + 1] = e
  BY <1>1
<1>3. /\ e.ino = ino /\ e.pid = None /\ e.pidlog = None /\ e.pi = pi
      /\ e.flaglog <=> pi # None
  BY DEF NewEntry
<1> HIDE DEF e, yy
<1>4. Typed(yy, pr, qq) BY <1>2
<1>5. OnlyChildren(yy, pr) /\ OneSlot(yy) /\ AllChildren(yy, pr)
  <2>1. OnlyChildren(yy, pr) BY <1>2, <1>3 DEF OnlyChildren
  <2>2. OneSlot(yy) BY <1>2, <1>3 DEF OneSlot
  <2>3. AllChildren(yy, pr) BY <1>2, <1>3 DEF AllChildren
  <2> QED BY <2>1, <2>2, <2>3
<1>6. OneEntry(yy) BY <1>2, <1>3 DEF OneEntry
<1>7. LogPiped(yy, qq) BY <1>2, <1>3 DEF LogPiped
<1>8. AllPipes(yy, qq) BY <1>2, <1>3 DEF AllPipes
<1>9. OnePipe(yy) BY <1>2, <1>3 DEF OnePipe, LogPiped
<1>10. Piped(yy, pr) BY <1>2, <1>3 DEF Piped
<1> QED BY <1>4, <1>5, <1>6, <1>7, <1>8, <1>9, <1>10 DEF e, yy

(* pid is filled in with the child that fork() made.                        *)
LEMMA MainIsSound ==
  ASSUME NEW xx, NEW pr, NEW pp, Sound(xx, pr, pp), SvscanAssumption,
         NEW k \in 1..Len(xx), NEW n \in Names, NEW m \in Pids \ Used(pr),
         xx[k].pid = None
  PROVE  Sound([xx EXCEPT ![k] = [@ EXCEPT !.pid = m]],
               [pr EXCEPT ![m] = Child("main", n, xx[k])], pp)
<1> DEFINE c == Child("main", n, xx[k])
<1> DEFINE e == [xx[k] EXCEPT !.pid = m]
<1> DEFINE yy == [xx EXCEPT ![k] = e]
<1> DEFINE qr == [pr EXCEPT ![m] = c]
<1> USE SvscanAssumption DEF Sound, Typed
<1>0. \A l \in 1..Len(xx) : xx[l] \in Entry OBVIOUS
<1>1. c \in Proc /\ c.st = "forked" /\ c.pipe = xx[k].pi /\ c.name = n
  <2>1. xx[k].pi \in Pipes \cup {None} BY <1>0 DEF Entry
  <2> QED BY <2>1 DEF Child, Proc
<1>2. /\ e \in Entry /\ e.pid = m /\ e.pidlog = xx[k].pidlog
      /\ e.ino = xx[k].ino /\ e.flaglog = xx[k].flaglog /\ e.pi = xx[k].pi
  BY <1>0 DEF Entry
<1> HIDE DEF c, e
<1>3. /\ yy \in Seq(Entry) /\ Len(yy) = Len(xx)
      /\ \A l \in 1..Len(xx) :
           /\ yy[l].pid = IF l = k THEN m ELSE xx[l].pid
           /\ yy[l].pidlog = xx[l].pidlog /\ yy[l].pi = xx[l].pi
           /\ yy[l].ino = xx[l].ino /\ yy[l].flaglog = xx[l].flaglog
  <2>1. yy \in Seq(Entry) /\ Len(yy) = Len(xx) BY <1>2
  <2>2. \A l \in 1..Len(xx) : yy[l] = IF l = k THEN e ELSE xx[l] BY <1>2
  <2> QED BY <1>2, <2>1, <2>2
<1>4. qr \in [Pids -> Proc] /\ qr[m] = c /\ \A p \in Pids \ {m} : qr[p] = pr[p]
  BY <1>1
<1>5. Used(qr) = Used(pr) \cup {m} BY <1>1, <1>4 DEF Used
<1>6. m # None /\ m \notin Used(pr) OBVIOUS
<1> HIDE DEF yy, qr
<1>7. OnlyChildren(yy, qr) BY <1>3, <1>5 DEF OnlyChildren
<1>8. OneSlot(yy) BY <1>3, <1>6 DEF OneSlot, OnlyChildren
<1>9. AllChildren(yy, qr)
  <2>1. k \in 1..Len(yy) /\ m \in {yy[k].pid, yy[k].pidlog} BY <1>3
  <2>2. ASSUME NEW p \in Used(pr)
        PROVE  \E l \in 1..Len(yy) : p \in {yy[l].pid, yy[l].pidlog}
    <3>1. PICK l \in 1..Len(xx) : p \in {xx[l].pid, xx[l].pidlog} BY DEF AllChildren
    <3>2. p # None BY DEF Used
    <3>3. p \in {yy[l].pid, yy[l].pidlog} BY <1>3, <3>1, <3>2
    <3> QED BY <1>3, <3>3
  <2> QED BY <1>5, <2>1, <2>2 DEF AllChildren
<1>10. OneEntry(yy) BY <1>3 DEF OneEntry
<1>11. LogPiped(yy, pp) BY <1>3 DEF LogPiped
<1>12. AllPipes(yy, pp) BY <1>3 DEF AllPipes
<1>13. OnePipe(yy) BY <1>3 DEF OnePipe
<1>14. Piped(yy, qr)
  <2>1. \A l \in 1..Len(xx) : {xx[l].pid, xx[l].pidlog} \subseteq (Pids \ {m}) \cup {None}
    BY <1>6 DEF OnlyChildren, Used
  <2>2. qr[m].pipe = xx[k].pi BY <1>1, <1>4
  <2> QED BY <1>3, <1>4, <1>6, <2>1, <2>2 DEF Piped
<1>15. Named(qr) BY <1>1, <1>4 DEF Named
<1>16. Sound(yy, qr, pp)
  BY <1>3, <1>4, <1>7, <1>8, <1>9, <1>10, <1>11, <1>12, <1>13, <1>14, <1>15
<1> QED BY <1>16 DEF yy, qr, c, e

(* pidlog likewise, of an entry with a log.                                 *)
LEMMA LogIsSound ==
  ASSUME NEW xx, NEW pr, NEW pp, Sound(xx, pr, pp), SvscanAssumption,
         NEW k \in 1..Len(xx), NEW n \in Names, NEW m \in Pids \ Used(pr),
         xx[k].pidlog = None, xx[k].flaglog = TRUE
  PROVE  Sound([xx EXCEPT ![k] = [@ EXCEPT !.pidlog = m]],
               [pr EXCEPT ![m] = Child("log", n, xx[k])], pp)
<1> DEFINE c == Child("log", n, xx[k])
<1> DEFINE e == [xx[k] EXCEPT !.pidlog = m]
<1> DEFINE yy == [xx EXCEPT ![k] = e]
<1> DEFINE qr == [pr EXCEPT ![m] = c]
<1> USE SvscanAssumption DEF Sound, Typed
<1>0. \A l \in 1..Len(xx) : xx[l] \in Entry OBVIOUS
<1>1. c \in Proc /\ c.st = "forked" /\ c.pipe = xx[k].pi /\ c.name = n
  <2>1. xx[k].pi \in Pipes \cup {None} BY <1>0 DEF Entry
  <2> QED BY <2>1 DEF Child, Proc
<1>2. /\ e \in Entry /\ e.pidlog = m /\ e.pid = xx[k].pid
      /\ e.ino = xx[k].ino /\ e.flaglog = xx[k].flaglog /\ e.pi = xx[k].pi
  BY <1>0 DEF Entry
<1> HIDE DEF c, e
<1>3. /\ yy \in Seq(Entry) /\ Len(yy) = Len(xx)
      /\ \A l \in 1..Len(xx) :
           /\ yy[l].pidlog = IF l = k THEN m ELSE xx[l].pidlog
           /\ yy[l].pid = xx[l].pid /\ yy[l].pi = xx[l].pi
           /\ yy[l].ino = xx[l].ino /\ yy[l].flaglog = xx[l].flaglog
  <2>1. yy \in Seq(Entry) /\ Len(yy) = Len(xx) BY <1>2
  <2>2. \A l \in 1..Len(xx) : yy[l] = IF l = k THEN e ELSE xx[l] BY <1>2
  <2> QED BY <1>2, <2>1, <2>2
<1>4. qr \in [Pids -> Proc] /\ qr[m] = c /\ \A p \in Pids \ {m} : qr[p] = pr[p]
  BY <1>1
<1>5. Used(qr) = Used(pr) \cup {m} BY <1>1, <1>4 DEF Used
<1>6. m # None /\ m \notin Used(pr) OBVIOUS
<1> HIDE DEF yy, qr
<1>7. OnlyChildren(yy, qr) BY <1>3, <1>5 DEF OnlyChildren
<1>8. OneSlot(yy)
  <2>1. \A l \in 1..Len(xx) : m \notin {xx[l].pid, xx[l].pidlog}
    BY <1>6 DEF OnlyChildren
  <2>2. OneSlot(xx) OBVIOUS
  <2> HIDE DEF Sound, Typed
  <2> QED BY <1>3, <1>6, <2>1, <2>2 DEF OneSlot
<1>9. AllChildren(yy, qr)
  <2>1. k \in 1..Len(yy) /\ m \in {yy[k].pid, yy[k].pidlog} BY <1>3
  <2>2. ASSUME NEW p \in Used(pr)
        PROVE  \E l \in 1..Len(yy) : p \in {yy[l].pid, yy[l].pidlog}
    <3>1. PICK l \in 1..Len(xx) : p \in {xx[l].pid, xx[l].pidlog} BY DEF AllChildren
    <3>2. p # None BY DEF Used
    <3>3. p \in {yy[l].pid, yy[l].pidlog} BY <1>3, <3>1, <3>2
    <3> QED BY <1>3, <3>3
  <2> QED BY <1>5, <2>1, <2>2 DEF AllChildren
<1>10. OneEntry(yy) BY <1>3 DEF OneEntry
<1>11. LogPiped(yy, pp) BY <1>3 DEF LogPiped
<1>12. AllPipes(yy, pp) BY <1>3 DEF AllPipes
<1>13. OnePipe(yy) BY <1>3 DEF OnePipe
<1>14. Piped(yy, qr)
  <2>1. \A l \in 1..Len(xx) : {xx[l].pid, xx[l].pidlog} \subseteq (Pids \ {m}) \cup {None}
    BY <1>6 DEF OnlyChildren, Used
  <2>2. qr[m].pipe = xx[k].pi BY <1>1, <1>4
  <2> QED BY <1>3, <1>4, <1>6, <2>1, <2>2 DEF Piped
<1>15. Named(qr) BY <1>1, <1>4 DEF Named
<1>16. Sound(yy, qr, pp)
  BY <1>3, <1>4, <1>7, <1>8, <1>9, <1>10, <1>11, <1>12, <1>13, <1>14, <1>15
<1> QED BY <1>16 DEF yy, qr, c, e

(* Setting or clearing flagactive touches nothing of this.                  *)
LEMMA FlagIsSound ==
  ASSUME NEW xx, NEW pr, NEW pp, Sound(xx, pr, pp), NEW yy \in Seq(Entry),
         Len(yy) = Len(xx),
         \A k \in 1..Len(xx) : /\ yy[k].ino = xx[k].ino /\ yy[k].flaglog = xx[k].flaglog
                               /\ yy[k].pid = xx[k].pid /\ yy[k].pidlog = xx[k].pidlog
                               /\ yy[k].pi = xx[k].pi
  PROVE  Sound(yy, pr, pp)
<1> USE DEF Sound, Typed
<1>1. OnlyChildren(yy, pr) BY DEF OnlyChildren
<1>2. OneSlot(yy) BY DEF OneSlot
<1>3. AllChildren(yy, pr) BY DEF AllChildren
<1>4. OneEntry(yy) BY DEF OneEntry
<1>5. LogPiped(yy, pp) BY DEF LogPiped
<1>6. AllPipes(yy, pp) BY DEF AllPipes
<1>7. OnePipe(yy) BY DEF OnePipe
<1>8. Piped(yy, pr) BY DEF Piped
<1> QED BY <1>1, <1>2, <1>3, <1>4, <1>5, <1>6, <1>7, <1>8

-----------------------------------------------------------------------------
(* The other steps.                                                         *)

(* A child that wait() returned is cleared where it is in the table.        *)
LEMMA ReapIsSound ==
  ASSUME NEW xx, NEW pr, NEW pp, Sound(xx, pr, pp), SvscanAssumption,
         NEW p \in Used(pr)
  PROVE  Sound([k \in 1..Len(xx) |-> Cleared(xx[k], p)], [pr EXCEPT ![p] = Free], pp)
<1> DEFINE yy == [k \in 1..Len(xx) |-> Cleared(xx[k], p)]
<1> DEFINE qr == [pr EXCEPT ![p] = Free]
<1> USE SvscanAssumption DEF Sound, Typed
<1>1. p \in Pids /\ p # None BY DEF Used
<1>2. \A k \in 1..Len(xx) : xx[k] \in Entry OBVIOUS
<1>3. ASSUME NEW k \in 1..Len(xx)
      PROVE  LET e == Cleared(xx[k], p)
             IN /\ e \in Entry /\ e.ino = xx[k].ino /\ e.flaglog = xx[k].flaglog /\ e.pi = xx[k].pi
                /\ e.pid = (IF xx[k].pid = p THEN None ELSE xx[k].pid)
                /\ e.pidlog = (IF xx[k].pidlog = p THEN None ELSE xx[k].pidlog)
  <2>1. xx[k] \in Entry BY <1>2
  <2>2. xx[k].pid = p => xx[k].pidlog # p BY <1>1 DEF OneSlot
  <2> QED BY <1>1, <2>1, <2>2 DEF Cleared, Entry
<1>4. /\ yy \in Seq(Entry) /\ Len(yy) = Len(xx)
      /\ \A k \in 1..Len(xx) :
           /\ yy[k].ino = xx[k].ino /\ yy[k].flaglog = xx[k].flaglog /\ yy[k].pi = xx[k].pi
           /\ yy[k].pid = (IF xx[k].pid = p THEN None ELSE xx[k].pid)
           /\ yy[k].pidlog = (IF xx[k].pidlog = p THEN None ELSE xx[k].pidlog)
  <2>1. Len(xx) \in Nat OBVIOUS
  <2>2. \A k \in 1..Len(xx) : yy[k] = Cleared(xx[k], p) /\ yy[k] \in Entry BY <1>3
  <2>3. yy \in Seq(Entry) /\ Len(yy) = Len(xx) BY <2>1, <2>2, IsASeq
  <2> QED BY <1>3, <2>2, <2>3
<1>5. /\ qr \in [Pids -> Proc] /\ qr[p].st = "free"
      /\ \A o \in Pids \ {p} : qr[o] = pr[o]
  <2>1. Free \in Proc /\ Free.st = "free" BY DEF Free, Proc
  <2> QED BY <1>1, <2>1
<1>6. Used(qr) = Used(pr) \ {p} BY <1>1, <1>5 DEF Used
<1> HIDE DEF yy, qr
<1>7. OnlyChildren(yy, qr) BY <1>4, <1>6 DEF OnlyChildren
<1>8. OneSlot(yy) BY <1>4 DEF OneSlot
<1>9. AllChildren(yy, qr)
  <2>1. ASSUME NEW o \in Used(qr)
        PROVE  \E k \in 1..Len(yy) : o \in {yy[k].pid, yy[k].pidlog}
    <3>1. PICK k \in 1..Len(xx) : o \in {xx[k].pid, xx[k].pidlog} BY <1>6 DEF AllChildren
    <3>2. o # p BY <1>6
    <3>3. o \in {yy[k].pid, yy[k].pidlog} BY <1>4, <3>1, <3>2
    <3> QED BY <1>4, <3>3
  <2> QED BY <2>1 DEF AllChildren
<1>10. OneEntry(yy) BY <1>4 DEF OneEntry
<1>11. LogPiped(yy, pp) BY <1>4 DEF LogPiped
<1>12. AllPipes(yy, pp) BY <1>4 DEF AllPipes
<1>13. OnePipe(yy) BY <1>4 DEF OnePipe
<1>14. Piped(yy, qr)
  <2>1. \A k \in 1..Len(xx) : {yy[k].pid, yy[k].pidlog} \subseteq (Pids \ {p}) \cup {None}
    BY <1>4, <1>6, <1>7 DEF OnlyChildren, Used
  <2> QED BY <1>4, <1>5, <2>1 DEF Piped
<1>15. Named(qr) BY <1>5 DEF Named
<1>16. Sound(yy, qr, pp)
  BY <1>4, <1>5, <1>7, <1>8, <1>9, <1>10, <1>11, <1>12, <1>13, <1>14, <1>15
<1> QED BY <1>16 DEF yy, qr

(* x[k] = x[--numx] for an entry that has no children: its pipe goes too.   *)
Without(xx, k) == SubSeq([xx EXCEPT ![k] = xx[Len(xx)]], 1, Len(xx) - 1)

LEMMA WithoutIs ==
  ASSUME NEW xx \in Seq(Entry), NEW k \in 1..Len(xx)
  PROVE  /\ Without(xx, k) \in Seq(Entry) /\ Len(Without(xx, k)) = Len(xx) - 1
         /\ \A l \in 1..Len(xx) - 1 :
              Without(xx, k)[l] = IF l = k THEN xx[Len(xx)] ELSE xx[l]
<1> DEFINE zz == [xx EXCEPT ![k] = xx[Len(xx)]]
<1>1. xx[Len(xx)] \in Entry /\ Len(xx) \in Nat \ {0} OBVIOUS
<1>2. zz \in Seq(Entry) /\ Len(zz) = Len(xx) BY <1>1
<1>3. \A l \in 1..Len(xx) : zz[l] = IF l = k THEN xx[Len(xx)] ELSE xx[l] BY <1>1
<1> HIDE DEF zz
<1>4. /\ SubSeq(zz, 1, Len(xx) - 1) \in Seq(Entry)
      /\ Len(SubSeq(zz, 1, Len(xx) - 1)) = Len(xx) - 1
      /\ \A l \in 1..Len(xx) - 1 : SubSeq(zz, 1, Len(xx) - 1)[l] = zz[l]
  BY <1>1, <1>2
<1> QED BY <1>3, <1>4 DEF zz, Without

LEMMA SweepIsSound ==
  ASSUME NEW xx, NEW pr, NEW pp, Sound(xx, pr, pp), SvscanAssumption,
         NEW k \in 1..Len(xx), xx[k].pid = None, xx[k].pidlog = None
  PROVE  Sound(Without(xx, k), pr, pp \ Closed(xx[k]))
<1> DEFINE yy == Without(xx, k)
<1> DEFINE qq == pp \ Closed(xx[k])
<1> DEFINE From(l) == IF l = k THEN Len(xx) ELSE l
<1> USE SvscanAssumption DEF Sound, Typed
<1>1. \A l \in 1..Len(xx) : xx[l] \in Entry OBVIOUS
<1>2. /\ yy \in Seq(Entry) /\ Len(yy) = Len(xx) - 1 /\ Len(xx) \in Nat
      /\ \A l \in 1..Len(xx) - 1 : yy[l] = xx[From(l)]
  <2>1. xx \in Seq(Entry) OBVIOUS
  <2>2. /\ Without(xx, k) \in Seq(Entry) /\ Len(Without(xx, k)) = Len(xx) - 1 /\ Len(xx) \in Nat
        /\ \A l \in 1..Len(xx) - 1 : Without(xx, k)[l] = IF l = k THEN xx[Len(xx)] ELSE xx[l]
    BY <2>1, WithoutIs
  <2> QED BY <2>2
<1>3. \A l \in 1..Len(xx) - 1 : From(l) \in 1..Len(xx) /\ From(l) # k BY <1>2
<1>4. \A l, m \in 1..Len(xx) - 1 : From(l) = From(m) => l = m BY <1>2
<1>5. \A l \in 1..Len(xx) : l # k => \E m \in 1..Len(xx) - 1 : From(m) = l
  <2>1. SUFFICES ASSUME NEW l \in 1..Len(xx), l # k PROVE \E m \in 1..Len(xx) - 1 : From(m) = l
    OBVIOUS
  <2>2. CASE l = Len(xx)
    <3>1. From(k) = l /\ k \in 1..Len(xx) - 1 BY <1>2, <2>1, <2>2
    <3> QED BY <3>1
  <2>3. CASE l # Len(xx)
    <3>1. Len(xx) \in Nat OBVIOUS
    <3>2. l \in 1..Len(xx) - 1 BY <2>3, <3>1
    <3>3. From(l) = l BY <2>1
    <3> QED BY <3>2, <3>3
  <2> QED BY <2>2, <2>3
<1> HIDE DEF yy, From
<1>6. OnlyChildren(yy, pr) BY <1>2, <1>3 DEF OnlyChildren
<1>7. OneSlot(yy)
  <2>1. SUFFICES ASSUME NEW l \in 1..Len(xx) - 1, NEW m \in 1..Len(xx) - 1
                 PROVE  /\ yy[l].pid # None /\ yy[l].pid = yy[m].pid => l = m
                        /\ yy[l].pidlog # None /\ yy[l].pidlog = yy[m].pidlog => l = m
                        /\ yy[l].pid # None => yy[l].pid # yy[m].pidlog
    BY <1>2 DEF OneSlot
  <2>2. yy[l] = xx[From(l)] /\ yy[m] = xx[From(m)] BY <1>2
  <2>3. From(l) \in 1..Len(xx) /\ From(m) \in 1..Len(xx) BY <1>3
  <2>4. From(l) = From(m) => l = m BY <1>4
  <2> QED BY <2>2, <2>3, <2>4 DEF OneSlot
<1>8. AllChildren(yy, pr)
  <2>1. ASSUME NEW p \in Used(pr)
        PROVE  \E l \in 1..Len(yy) : p \in {yy[l].pid, yy[l].pidlog}
    <3>1. PICK l \in 1..Len(xx) : p \in {xx[l].pid, xx[l].pidlog} BY DEF AllChildren
    <3>2. p # None BY DEF Used
    <3>3. PICK m \in 1..Len(xx) - 1 : From(m) = l BY <1>5, <3>1, <3>2
    <3>4. yy[m] = xx[l] BY <1>2, <3>3
    <3> QED BY <1>2, <3>1, <3>4
  <2> QED BY <2>1 DEF AllChildren
<1>9. OneEntry(yy) BY <1>2, <1>3, <1>4 DEF OneEntry
<1>10. LogPiped(yy, qq)
  <2>1. SUFFICES ASSUME NEW l \in 1..Len(xx) - 1
                 PROVE  /\ IF yy[l].flaglog THEN yy[l].pi \in qq ELSE yy[l].pi = None
                        /\ yy[l].pidlog # None => yy[l].flaglog
    BY <1>2 DEF LogPiped
  <2>2. yy[l] = xx[From(l)] /\ From(l) \in 1..Len(xx) /\ From(l) # k BY <1>2, <1>3
  <2>3. xx[From(l)].flaglog => xx[From(l)].pi \notin Closed(xx[k])
    BY <2>2 DEF Closed, OnePipe
  <2> QED BY <2>2, <2>3 DEF LogPiped
<1>11. AllPipes(yy, qq)
  <2>1. SUFFICES ASSUME NEW q \in qq PROVE \E l \in 1..Len(yy) : yy[l].flaglog /\ yy[l].pi = q
    BY DEF AllPipes
  <2>2. PICK l \in 1..Len(xx) : xx[l].flaglog /\ xx[l].pi = q BY DEF AllPipes
  <2>3. l # k BY <2>2 DEF Closed
  <2>4. PICK m \in 1..Len(xx) - 1 : From(m) = l BY <1>5, <2>3
  <2>5. yy[m] = xx[l] BY <1>2, <2>4
  <2> QED BY <1>2, <2>2, <2>5
<1>12. OnePipe(yy) BY <1>2, <1>3, <1>4 DEF OnePipe
<1>13. Piped(yy, pr)
  <2>1. SUFFICES ASSUME NEW l \in 1..Len(xx) - 1
                 PROVE  /\ yy[l].pid # None => pr[yy[l].pid].pipe = yy[l].pi
                        /\ yy[l].pidlog # None => pr[yy[l].pidlog].pipe = yy[l].pi
    BY <1>2 DEF Piped
  <2>2. yy[l] = xx[From(l)] /\ From(l) \in 1..Len(xx) BY <1>2, <1>3
  <2> QED BY <2>2 DEF Piped
<1>14. Sound(yy, pr, qq)
  BY <1>2, <1>6, <1>7, <1>8, <1>9, <1>10, <1>11, <1>12, <1>13
<1> QED BY <1>14 DEF yy

(* What a child does by itself leaves it a child, with the pipe it got.     *)
LEMMA ChildIsSound ==
  ASSUME NEW xx, NEW pr, NEW pp, Sound(xx, pr, pp), SvscanAssumption,
         NEW p \in Used(pr), NEW v \in Proc,
         v.st \notin {"free", "forked"}, v.pipe = pr[p].pipe
  PROVE  Sound(xx, [pr EXCEPT ![p] = v], pp)
<1> DEFINE qr == [pr EXCEPT ![p] = v]
<1> USE SvscanAssumption DEF Sound, Typed
<1>1. p \in Pids BY DEF Used
<1>2. qr \in [Pids -> Proc] /\ qr[p] = v /\ \A o \in Pids \ {p} : qr[o] = pr[o] BY <1>1
<1>3. Used(qr) = Used(pr) BY <1>1, <1>2 DEF Used
<1>4. \A o \in Pids : qr[o].pipe = pr[o].pipe BY <1>1, <1>2
<1> HIDE DEF qr
<1>5. OnlyChildren(xx, qr) /\ AllChildren(xx, qr) BY <1>3 DEF OnlyChildren, AllChildren
<1>6. Piped(xx, qr)
  <2>1. \A k \in 1..Len(xx) : {xx[k].pid, xx[k].pidlog} \subseteq Pids \cup {None}
    BY DEF OnlyChildren, Used
  <2> QED BY <1>4, <2>1 DEF Piped
<1>7. Named(qr) BY <1>1, <1>2 DEF Named
<1>8. Sound(xx, qr, pp) BY <1>2, <1>5, <1>6, <1>7
<1> QED BY <1>8 DEF qr

-----------------------------------------------------------------------------
(* start() and doit()                                                       *)

LEMMA PutIs ==
  ASSUME x \in Seq(Entry), NEW k \in 1..Len(x) + 1, NEW e \in Entry
  PROVE  /\ Put(k, e) \in Seq(Entry)
         /\ Len(Put(k, e)) = IF k <= Len(x) THEN Len(x) ELSE Len(x) + 1
         /\ Put(k, e)[k] = e
         /\ \A l \in 1..Len(x) : l # k => Put(k, e)[l] = x[l]
<1>1. Len(x) \in Nat OBVIOUS
<1>2. CASE k <= Len(x)
  <2>1. k \in 1..Len(x) /\ Put(k, e) = [x EXCEPT ![k] = e] BY <1>1, <1>2 DEF Put
  <2> QED BY <2>1
<1>3. CASE ~(k <= Len(x))
  <2>1. k = Len(x) + 1 /\ Put(k, e) = Append(x, e) BY <1>1, <1>3 DEF Put
  <2> QED BY <1>1, <2>1
<1> QED BY <1>2, <1>3

LEMMA PutTwice ==
  ASSUME x \in Seq(Entry), NEW k \in 1..Len(x) + 1, NEW e \in Entry, NEW f \in Entry
  PROVE  [Put(k, e) EXCEPT ![k] = f] = Put(k, f)
<1> DEFINE yy == [Put(k, e) EXCEPT ![k] = f]
<1>1. Len(x) \in Nat OBVIOUS
<1>2. CASE k <= Len(x)
  <2>1. k \in 1..Len(x) /\ Put(k, e) = [x EXCEPT ![k] = e] /\ Put(k, f) = [x EXCEPT ![k] = f]
    BY <1>1, <1>2 DEF Put
  <2> QED BY <2>1
<1>3. CASE ~(k <= Len(x))
  <2>1. k = Len(x) + 1 /\ Put(k, e) = Append(x, e) /\ Put(k, f) = Append(x, f)
    BY <1>1, <1>3 DEF Put
  <2>2. /\ Append(x, e) \in Seq(Entry) /\ Append(x, f) \in Seq(Entry)
        /\ Len(Append(x, e)) = Len(x) + 1 /\ Len(Append(x, f)) = Len(x) + 1
        /\ Append(x, f)[Len(x) + 1] = f
        /\ \A l \in 1..Len(x) : Append(x, e)[l] = x[l] /\ Append(x, f)[l] = x[l]
    BY <1>1
  <2>3. yy \in Seq(Entry) /\ Len(yy) = Len(x) + 1 BY <2>1, <2>2, <1>1
  <2>4. \A l \in 1..Len(x) + 1 : yy[l] = Append(x, f)[l] BY <2>1, <2>2, <1>1
  <2>5. yy = Append(x, f) BY <2>2, <2>3, <2>4, SeqEqual
  <2> QED BY <2>1, <2>5
<1> QED BY <1>2, <1>3

LEMMA FailsBounded ==
  ASSUME SvscanAssumption, fails \in 0..MaxFails, MayFail \/ UNCHANGED fails
  PROVE  fails' \in 0..MaxFails
BY DEF MayFail, SvscanAssumption

(* However far the forks get, the table is sound with the entry that start() *)
(* began with, only the pids of which they change.                          *)
LEMMA ForksAreSound ==
  ASSUME SvscanAssumption, x \in Seq(Entry), NEW k \in 1..Len(x) + 1, NEW n \in Names,
         NEW e \in Entry, NEW pp, Sound(Put(k, e), proc, pp), Forks(n, k, e)
  PROVE  /\ Sound(x', proc', pp)
         /\ MayFail \/ UNCHANGED fails
         /\ \E f \in Entry : x' = Put(k, f) /\ f.ino = e.ino /\ f.flagactive = e.flagactive
<1> DEFINE xx == Put(k, e)
<1> DEFINE Like(f) == f \in Entry /\ f.ino = e.ino /\ f.flagactive = e.flagactive
<1>1. xx \in Seq(Entry) /\ k \in 1..Len(xx) /\ xx[k] = e BY PutIs
<1>2. FreePids = Pids \ Used(proc) BY DEF FreePids, Used
<1>3. /\ e.pid \in Pids \cup {None} /\ e.pidlog \in Pids \cup {None}
      /\ e.flaglog \in BOOLEAN /\ e.pi \in Pipes \cup {None} BY DEF Entry
<1> DEFINE needmain == e.pid = None
<1> DEFINE needlog == e.flaglog /\ e.pidlog = None
<1>4. CASE needmain /\ MayFail /\ x' = Put(k, e) /\ UNCHANGED proc BY <1>4
<1>5. ASSUME NEW m \in IF needmain THEN FreePids ELSE {e.pid},
             LET new == IF needmain THEN [proc EXCEPT ![m] = Child("main", n, e)] ELSE proc
                 e1  == [e EXCEPT !.pid = m]
             IN \/ ~needlog /\ x' = Put(k, e1) /\ proc' = new /\ UNCHANGED fails
                \/ needlog /\ MayFail /\ x' = Put(k, e1) /\ proc' = new
                \/ needlog /\ \E l \in FreePids \ {m} :
                     /\ x' = Put(k, [e1 EXCEPT !.pidlog = l])
                     /\ proc' = [new EXCEPT ![l] = Child("log", n, e)]
                     /\ UNCHANGED fails
      PROVE  /\ Sound(x', proc', pp)
             /\ MayFail \/ UNCHANGED fails
             /\ \E f \in Entry : x' = Put(k, f) /\ f.ino = e.ino /\ f.flagactive = e.flagactive
  <2> DEFINE new == IF needmain THEN [proc EXCEPT ![m] = Child("main", n, e)] ELSE proc
  <2> DEFINE e1 == [e EXCEPT !.pid = m]
  <2>1. m \in Pids \cup {None} BY <1>2, <1>3, <1>5
  <2>2. /\ Like(e1) /\ e1.pid = m /\ e1.pidlog = e.pidlog
        /\ e1.flaglog = e.flaglog /\ e1.pi = e.pi
    BY <2>1 DEF Entry
  <2>3. Sound(Put(k, e1), new, pp)
    <3>1. CASE needmain
      <4>1. m \in Pids \ Used(proc) BY <1>2, <1>5, <3>1
      <4>2. Sound([xx EXCEPT ![k] = [@ EXCEPT !.pid = m]],
                  [proc EXCEPT ![m] = Child("main", n, xx[k])], pp)
        BY <1>1, <3>1, <4>1, MainIsSound
      <4>3. [xx EXCEPT ![k] = [@ EXCEPT !.pid = m]] = [xx EXCEPT ![k] = e1] BY <1>1
      <4>4. [xx EXCEPT ![k] = e1] = Put(k, e1) BY <2>2, PutTwice
      <4> QED BY <1>1, <3>1, <4>2, <4>3, <4>4
    <3>2. CASE ~needmain
      <4>1. e1 = e BY <1>5, <3>2 DEF Entry
      <4> QED BY <3>2, <4>1
    <3> QED BY <3>1, <3>2
  <2>4. Put(k, e1) \in Seq(Entry) /\ k \in 1..Len(Put(k, e1)) /\ Put(k, e1)[k] = e1
    BY <2>2, PutIs
  <2>5. Child("log", n, e1) = Child("log", n, e) BY <2>2 DEF Child
  <2>6. \A l \in FreePids \ {m} : l \in Pids \ Used(new)
    <3>1. proc \in [Pids -> Proc] BY DEF Sound, Typed
    <3>2. \A l \in Pids \ {m} : new[l] = proc[l] BY <3>1
    <3> QED BY <1>2, <3>2 DEF Used
  <2> HIDE DEF new, e1
  <2>7. CASE x' = Put(k, e1) /\ proc' = new /\ (MayFail \/ UNCHANGED fails) BY <2>2, <2>3, <2>7
  <2>8. ASSUME needlog, NEW l \in FreePids \ {m}, x' = Put(k, [e1 EXCEPT !.pidlog = l]),
               proc' = [new EXCEPT ![l] = Child("log", n, e)], UNCHANGED fails
        PROVE  /\ Sound(x', proc', pp)
               /\ \E f \in Entry : x' = Put(k, f) /\ f.ino = e.ino /\ f.flagactive = e.flagactive
    <3> DEFINE e2 == [e1 EXCEPT !.pidlog = l]
    <3> DEFINE yy == Put(k, e1)
    <3>1. l \in Pids BY <1>2
    <3>2. Like(e2) BY <2>2, <3>1 DEF Entry
    <3>3. yy[k].pidlog = None /\ yy[k].flaglog = TRUE BY <1>3, <2>2, <2>4, <2>8
    <3>4. Sound([yy EXCEPT ![k] = [@ EXCEPT !.pidlog = l]],
                [new EXCEPT ![l] = Child("log", n, yy[k])], pp)
      BY <2>3, <2>4, <2>6, <3>3, LogIsSound
    <3>5. [yy EXCEPT ![k] = [@ EXCEPT !.pidlog = l]] = [yy EXCEPT ![k] = e2] BY <2>4
    <3>6. [yy EXCEPT ![k] = e2] = Put(k, e2) BY <2>2, <3>2, PutTwice
    <3> QED BY <2>4, <2>5, <2>8, <3>2, <3>4, <3>5, <3>6
  <2> QED BY <1>5, <2>7, <2>8 DEF new, e1
<1> QED BY <1>4, <1>5 DEF Forks

(* An entry that start() found is marked, and forked for if need be.        *)
LEMMA StartKnownIs ==
  ASSUME SvscanAssumption, IInv, NEW n \in Names, StartKnown(n)
  PROVE  /\ Sound(x', proc', pipes')
         /\ MayFail \/ UNCHANGED fails
         /\ \E k \in 1..Len(x), f \in Entry :
              x' = Put(k, f) /\ x[k].ino = dir[n] /\ f.ino = dir[n] /\ f.flagactive = TRUE
<1> USE DEF IInv
<1>1. x \in Seq(Entry) /\ \A l \in 1..Len(x) : x[l] \in Entry BY DEF Sound, Typed
<1>2. PICK k \in Known(dir[n]) : Forks(n, k, [x[k] EXCEPT !.flagactive = TRUE])
  BY DEF StartKnown
<1> DEFINE e == [x[k] EXCEPT !.flagactive = TRUE]
<1>3. k \in 1..Len(x) /\ x[k].ino = dir[n] BY DEF Known
<1>4. /\ e \in Entry /\ e.ino = x[k].ino /\ e.flaglog = x[k].flaglog /\ e.pid = x[k].pid
      /\ e.pidlog = x[k].pidlog /\ e.pi = x[k].pi /\ e.flagactive = TRUE
  BY <1>1, <1>3 DEF Entry
<1> HIDE DEF e
<1>5. Sound(Put(k, e), proc, pipes)
  <2>1. k \in 1..Len(x) + 1 /\ Len(x) \in Nat BY <1>1, <1>3
  <2>2. /\ Put(k, e) \in Seq(Entry) /\ Len(Put(k, e)) = Len(x) /\ Put(k, e)[k] = e
        /\ \A l \in 1..Len(x) : l # k => Put(k, e)[l] = x[l]
    BY <1>1, <1>3, <1>4, <2>1, PutIs
  <2>3. ASSUME NEW l \in 1..Len(x)
        PROVE  /\ Put(k, e)[l].ino = x[l].ino /\ Put(k, e)[l].flaglog = x[l].flaglog
               /\ Put(k, e)[l].pid = x[l].pid /\ Put(k, e)[l].pidlog = x[l].pidlog
               /\ Put(k, e)[l].pi = x[l].pi
    BY <1>4, <2>2
  <2> QED BY <2>2, <2>3, FlagIsSound
<1>6. k \in 1..Len(x) + 1 BY <1>1, <1>3
<1>7. Forks(n, k, e) BY <1>2 DEF e
<1>8. /\ Sound(x', proc', pipes)
      /\ MayFail \/ UNCHANGED fails
      /\ \E f \in Entry : x' = Put(k, f) /\ f.ino = e.ino /\ f.flagactive = e.flagactive
  BY <1>1, <1>4, <1>5, <1>6, <1>7, ForksAreSound
<1>9. pipes' = pipes BY DEF StartKnown
<1> QED BY <1>3, <1>4, <1>8, <1>9

(* A new entry is marked too, and there is room for it.                     *)
LEMMA StartNewIs ==
  ASSUME SvscanAssumption, IInv, NEW n \in Names, StartNew(n)
  PROVE  /\ Sound(x', proc', pipes')
         /\ MayFail \/ UNCHANGED fails
         /\ Len(x) < SERVICES
         /\ \E f \in Entry : x' = Put(Len(x) + 1, f) /\ f.ino = dir[n] /\ f.flagactive = TRUE
<1> USE DEF IInv
<1>1. x \in Seq(Entry) /\ Len(x) \in Nat BY DEF Sound, Typed
<1>2. dir[n] \in Inodes BY DEF StartNew, RestTyped
<1>3. \A k \in 1..Len(x) : x[k].ino # dir[n] BY DEF StartNew, Known
<1>4. ASSUME NEW pi \in (Pipes \ pipes) \cup {None},
             Forks(n, Len(x) + 1, NewEntry(dir[n], pi)), pipes' = pipes \cup ({pi} \ {None})
      PROVE  /\ Sound(x', proc', pipes')
             /\ MayFail \/ UNCHANGED fails
             /\ \E f \in Entry : x' = Put(Len(x) + 1, f) /\ f.ino = dir[n] /\ f.flagactive = TRUE
  <2> DEFINE e == NewEntry(dir[n], pi)
  <2> DEFINE k == Len(x) + 1
  <2>1. e \in Entry /\ e.ino = dir[n] /\ e.flagactive = TRUE
    BY <1>2 DEF NewEntry, Entry
  <2>2. Put(k, e) = Append(x, e) BY <1>1 DEF Put
  <2>3. Sound(Put(k, e), proc, pipes')
    <3>1. Sound(x, proc, pipes) OBVIOUS
    <3>2. Sound(Append(x, e), proc, pipes \cup ({pi} \ {None}))
      BY <1>2, <1>3, <3>1, NewIsSound
    <3> QED BY <1>4, <2>2, <3>2
  <2>4. k \in 1..Len(x) + 1 BY <1>1
  <2> HIDE DEF e, k
  <2>5. Forks(n, k, e) BY <1>4 DEF e, k
  <2>6. /\ Sound(x', proc', pipes')
        /\ MayFail \/ UNCHANGED fails
        /\ \E f \in Entry : x' = Put(k, f) /\ f.ino = e.ino /\ f.flagactive = e.flagactive
    BY <1>1, <2>1, <2>3, <2>4, <2>5, ForksAreSound
  <2> QED BY <2>1, <2>6 DEF k
<1>5. \E pi \in (Pipes \ pipes) \cup {None} :
        Forks(n, Len(x) + 1, NewEntry(dir[n], pi)) /\ pipes' = pipes \cup ({pi} \ {None})
  BY SvscanAssumption DEF StartNew, SvscanAssumption
<1>6. Len(x) < SERVICES BY DEF StartNew, Room
<1> QED BY <1>4, <1>5, <1>6

LEMMA ReaddirStep == ASSUME SvscanAssumption, IInv, Readdir PROVE IInv'
<1> USE DEF IInv
<1>1. PICK n \in Names :
        /\ done' = done \cup {n} /\ todo' = todo \ {n}
        /\ StartKnown(n) \/ StartNew(n) \/ StartNot(n)
  BY DEF Readdir
<1>2. UNCHANGED <<pc, i, dir, withlog, stable>> BY DEF Readdir, disk
<1>3. x \in Seq(Entry) /\ Len(x) \in Nat BY DEF Sound, Typed
<1>4. Sound(x', proc', pipes') /\ (MayFail \/ UNCHANGED fails) /\ Len(x') <= SERVICES
  <2>1. CASE StartKnown(n)
    <3>1. PICK k \in 1..Len(x), f \in Entry : x' = Put(k, f) BY <2>1, StartKnownIs
    <3>2. k \in 1..Len(x) + 1 /\ k <= Len(x) BY <1>3
    <3>3. Len(x') = Len(x) BY <1>3, <3>1, <3>2, PutIs
    <3> QED BY <2>1, <3>3, StartKnownIs DEF RestTyped
  <2>2. CASE StartNew(n)
    <3>1. PICK f \in Entry : x' = Put(Len(x) + 1, f) BY <2>2, StartNewIs
    <3>2. Len(x) + 1 \in 1..Len(x) + 1 /\ ~(Len(x) + 1 <= Len(x)) BY <1>3
    <3>3. Len(x') = Len(x) + 1 BY <1>3, <3>1, <3>2, PutIs
    <3>4. /\ Sound(x', proc', pipes') /\ (MayFail \/ UNCHANGED fails)
          /\ Len(x) < SERVICES
      BY <2>2, StartNewIs
    <3>5. Len(x') <= SERVICES BY <1>3, <3>3, <3>4 DEF SvscanAssumption
    <3> QED BY <3>4, <3>5
  <2>3. CASE StartNot(n)
    <3>1. UNCHANGED <<x, proc, pipes>> /\ (MayFail \/ UNCHANGED fails) BY <2>3 DEF StartNot
    <3> QED BY <3>1 DEF RestTyped
  <2> QED BY <1>1, <2>1, <2>2, <2>3
<1>5. fails' \in 0..MaxFails BY <1>4, FailsBounded DEF RestTyped
<1> QED BY <1>1, <1>2, <1>4, <1>5 DEF RestTyped

LEMMA ReapStep == ASSUME SvscanAssumption, IInv, Reap PROVE IInv'
<1> USE DEF IInv
<1>1. PICK p \in Zombies : /\ proc' = [proc EXCEPT ![p] = Free]
                           /\ x' = [k \in 1..Len(x) |-> Cleared(x[k], p)]
  BY DEF Reap
<1>2. p \in Used(proc) BY DEF Zombies, Used
<1>3. Sound(x', proc', pipes') BY <1>1, <1>2, ReapIsSound DEF Reap
<1>4. Len(x) \in Nat BY DEF Sound, Typed
<1>5. Len(x') = Len(x) BY <1>1, <1>3, <1>4, LenProperties DEF Sound, Typed
<1> QED BY <1>3, <1>5 DEF Reap, RestTyped, disk, scan

LEMMA ReapedStep == ASSUME SvscanAssumption, IInv, Reaped PROVE IInv'
<1> USE DEF IInv
<1>1. x \in Seq(Entry) /\ Len(x) \in Nat /\ \A k \in 1..Len(x) : x[k] \in Entry
  BY DEF Sound, Typed
<1>2. x' = [k \in 1..Len(x) |-> [x[k] EXCEPT !.flagactive = FALSE]] BY DEF Reaped
<1>3. ASSUME NEW k \in 1..Len(x)
      PROVE  /\ x'[k] \in Entry
             /\ x'[k].ino = x[k].ino /\ x'[k].flaglog = x[k].flaglog
             /\ x'[k].pid = x[k].pid /\ x'[k].pidlog = x[k].pidlog /\ x'[k].pi = x[k].pi
  BY <1>1, <1>2 DEF Entry
<1>4. x' \in Seq(Entry) /\ Len(x') = Len(x) BY <1>1, <1>2, <1>3, IsASeq
<1>5. Sound(x', proc, pipes) BY <1>3, <1>4, FlagIsSound
<1>6. stable' \subseteq Inodes BY DEF Reaped, Present, RestTyped
<1> QED BY <1>4, <1>5, <1>6 DEF Reaped, RestTyped, scan

LEMMA SweepStep == ASSUME SvscanAssumption, IInv, Sweep PROVE IInv'
<1> USE DEF IInv
<1>1. x \in Seq(Entry) /\ Len(x) \in Nat /\ i \in 1..Len(x)
  BY DEF Sound, Typed, RestTyped, Sweep, SvscanAssumption
<1>2. CASE Dead(x[i])
  <2>1. x' = Without(x, i) /\ pipes' = pipes \ Closed(x[i]) /\ proc' = proc /\ i' = i
    BY <1>2 DEF Sweep, Without
  <2>2. x[i].pid = None /\ x[i].pidlog = None BY <1>2 DEF Dead
  <2>3. Sound(x', proc', pipes') BY <1>1, <2>1, <2>2, SweepIsSound
  <2>4. Len(x') <= SERVICES BY <1>1, <2>1, WithoutIs DEF RestTyped, SvscanAssumption
  <2> QED BY <2>1, <2>3, <2>4 DEF Sweep, RestTyped, disk, scan
<1>3. CASE ~Dead(x[i])
  <2>1. i' = i + 1 /\ UNCHANGED <<x, pipes, proc>> BY <1>3 DEF Sweep
  <2>2. i' \in 1..SERVICES + 1 BY <1>1, <2>1 DEF RestTyped, SvscanAssumption
  <2> QED BY <2>1, <2>2 DEF Sweep, RestTyped, disk, scan
<1> QED BY <1>2, <1>3

(* The steps of doit() that leave the table, the children and the pipes.    *)
LEMMA QuietStep ==
  ASSUME SvscanAssumption, IInv, Opendir \/ DirError \/ EndOfDir \/ Swept \/ Wake
  PROVE  IInv'
<1> USE DEF IInv
<1>1. UNCHANGED <<x, proc, pipes>> BY DEF Opendir, DirError, EndOfDir, Swept, Wake
<1>2. UNCHANGED <<dir, withlog>> /\ stable' \in {stable, {}}
  BY DEF Opendir, DirError, EndOfDir, Swept, Wake, disk
<1>3. fails' \in 0..MaxFails
  BY FailsBounded DEF Opendir, DirError, EndOfDir, Swept, Wake, RestTyped
<1>4. pc' \in {"reap", "read", "sweep", "sleep"} /\ i' \in {i, 1}
  BY DEF Opendir, DirError, AfterError, EndOfDir, Swept, Wake
<1>5. todo' \subseteq Names /\ done' \subseteq Names
  BY DEF Opendir, DirError, EndOfDir, Swept, Wake, RestTyped, scan
<1>6. 1 \in 1..SERVICES + 1 BY DEF SvscanAssumption
<1> QED BY <1>1, <1>2, <1>3, <1>4, <1>5, <1>6 DEF RestTyped

LEMMA ChildStep ==
  ASSUME SvscanAssumption, IInv, NEW p \in Pids, ChildStarts(p) \/ ChildExits(p)
  PROVE  IInv'
<1> USE DEF IInv
<1>1. proc \in [Pids -> Proc] /\ proc[p] \in Proc BY DEF Sound, Typed
<1>2. p \in Used(proc) BY DEF ChildStarts, ChildExits, Used
<1>3. \E v \in Proc : /\ proc' = [proc EXCEPT ![p] = v]
                      /\ v.st \notin {"free", "forked"} /\ v.pipe = proc[p].pipe
  <2>1. CASE ChildStarts(p)
    <3>1. proc[p].name \in Names BY <2>1 DEF ChildStarts, Sound, Named
    <3>2. dir[proc[p].name] \in Inodes \cup {None} BY <3>1 DEF RestTyped
    <3>3. \A st \in {"running", "zombie"}, ino \in Inodes \cup {None} :
            LET v == [proc[p] EXCEPT !.st = st, !.ino = ino]
            IN v \in Proc /\ v.st \notin {"free", "forked"} /\ v.pipe = proc[p].pipe
      BY <1>1 DEF Proc
    <3>4. LET v == [proc[p] EXCEPT !.st = "zombie"]
          IN v \in Proc /\ v.st \notin {"free", "forked"} /\ v.pipe = proc[p].pipe
      BY <1>1 DEF Proc
    <3>5. \/ \E st \in {"running", "zombie"}, ino \in Inodes \cup {None} :
               proc' = [proc EXCEPT ![p] = [proc[p] EXCEPT !.st = st, !.ino = ino]]
          \/ proc' = [proc EXCEPT ![p] = [proc[p] EXCEPT !.st = "zombie"]]
      BY <1>1, <2>1, <3>2 DEF ChildStarts
    <3> QED BY <3>3, <3>4, <3>5
  <2>2. CASE ChildExits(p)
    <3> DEFINE v == [proc[p] EXCEPT !.st = "zombie", !.ino = None]
    <3>1. v \in Proc /\ v.st \notin {"free", "forked"} /\ v.pipe = proc[p].pipe
      BY <1>1 DEF Proc
    <3>2. proc' = [proc EXCEPT ![p] = v] BY <1>1, <2>2 DEF ChildExits
    <3> QED BY <3>1, <3>2
  <2> QED BY <2>1, <2>2
<1>4. Sound(x, proc', pipes)
  <2>1. PICK v \in Proc : /\ proc' = [proc EXCEPT ![p] = v]
                          /\ v.st \notin {"free", "forked"} /\ v.pipe = proc[p].pipe
    BY <1>3
  <2>2. Sound(x, proc, pipes) OBVIOUS
  <2>3. Sound(x, [proc EXCEPT ![p] = v], pipes) BY <1>2, <2>1, <2>2, ChildIsSound
  <2> QED BY <2>1, <2>3
<1>5. UNCHANGED <<pc, x, i, disk, scan, pipes>> BY DEF ChildStarts, ChildExits
<1>6. fails' \in 0..MaxFails BY FailsBounded DEF ChildStarts, ChildExits, RestTyped
<1> QED BY <1>4, <1>5, <1>6 DEF RestTyped, disk, scan

LEMMA AdminStep == ASSUME SvscanAssumption, IInv, Admin PROVE IInv'
<1> USE DEF IInv
<1>1. UNCHANGED <<pc, x, i, scan, proc, pipes, fails>> BY DEF Admin, Create, Remove, AddLog, RemoveLog, Rename
<1>2. dir' \in [Names -> Inodes \cup {None}] /\ stable' \subseteq Inodes
  BY DEF Admin, Create, Remove, AddLog, RemoveLog, Rename, RestTyped
<1>3. withlog' \subseteq Inodes BY DEF Admin, Create, Remove, AddLog, RemoveLog, Rename, RestTyped
<1> QED BY <1>1, <1>2, <1>3 DEF RestTyped, scan

LEMMA InitInv == SvscanAssumption /\ Init => IInv
<1> SUFFICES ASSUME SvscanAssumption, Init PROVE IInv OBVIOUS
<1> USE DEF Init
<1>1. Free \in Proc /\ Free.st = "free" BY DEF Free, Proc
<1>2. proc \in [Pids -> Proc] /\ \A p \in Pids : proc[p].st = "free" BY <1>1
<1>3. x \in Seq(Entry) /\ Len(x) = 0 /\ 1..Len(x) = {} OBVIOUS
<1>4. Used(proc) = {} BY <1>2 DEF Used
<1>5. Sound(x, proc, pipes)
  BY <1>2, <1>3, <1>4 DEF Sound, Typed, OnlyChildren, OneSlot, AllChildren, OneEntry, LogPiped,
                          AllPipes, OnePipe, Piped, Named
<1>6. RestTyped BY <1>3 DEF RestTyped, SvscanAssumption
<1> QED BY <1>5, <1>6 DEF IInv

LEMMA StepInv == SvscanAssumption /\ IInv /\ [Next]_vars => IInv'
<1> SUFFICES ASSUME SvscanAssumption, IInv, [Next]_vars PROVE IInv' OBVIOUS
<1>1. CASE Doit
  BY <1>1, ReapStep, ReapedStep, ReaddirStep, SweepStep, QuietStep DEF Doit
<1>2. CASE DirError BY <1>2, QuietStep
<1>3. ASSUME NEW p \in Pids, ChildStarts(p) \/ ChildExits(p) PROVE IInv' BY <1>3, ChildStep
<1>4. CASE Admin BY <1>4, AdminStep
<1>5. CASE UNCHANGED vars BY <1>5 DEF vars, disk, scan, IInv, RestTyped
<1> QED BY <1>1, <1>2, <1>3, <1>4, <1>5 DEF Next

LEMMA Invariance == Spec => []IInv
<1>1. Init => IInv BY InitInv, SvscanAssumption
<1>2. IInv /\ [Next]_vars => IInv' BY StepInv, SvscanAssumption
<1> QED BY <1>1, <1>2, PTL DEF Spec

-----------------------------------------------------------------------------
(* What follows from the invariant.                                         *)

(* The variables of Svscan keep their types; x[] never has more than        *)
(* SERVICES entries, and the sweep never looks past its end by more than 1. *)
THEOREM TypesKept == Spec => []TypeOK
<1>1. IInv => TypeOK BY DEF IInv, RestTyped, Sound, Typed, TypeOK
<1> QED BY <1>1, Invariance, PTL

(* svscan.c's table has each child once, and each directory once.           *)
THEOREM ChildrenAreTabled == Spec => []ChildrenTabled
<1>1. ASSUME IInv PROVE ChildrenTabled
  <2> USE <1>1 DEF IInv, Sound, Typed
  <2>1. ASSUME NEW p \in Pids
        PROVE  Cardinality(Slots(p)) = (IF p \in Children THEN 1 ELSE 0)
    <3>1. Children = Used(proc) /\ p # None
      BY SvscanAssumption DEF Children, FreePids, Used, SvscanAssumption
    <3>2. Slots(p) = {s \in (1..Len(x)) \X {"pid", "pidlog"} : x[s[1]][s[2]] = p} BY DEF Slots
    <3>3. CASE p \in Children
      <4>1. PICK k \in 1..Len(x) : p \in {x[k].pid, x[k].pidlog} BY <3>1, <3>3 DEF AllChildren
      <4>2. PICK f \in {"pid", "pidlog"} : x[k][f] = p BY <4>1
      <4>3. ASSUME NEW s \in Slots(p) PROVE s = <<k, f>>
        <5>1. /\ s[1] \in 1..Len(x) /\ s[2] \in {"pid", "pidlog"}
              /\ x[s[1]][s[2]] = p /\ s = <<s[1], s[2]>>
          BY <3>2, <4>3
        <5>2. s[1] = k /\ s[2] = f BY <3>1, <4>2, <5>1 DEF OneSlot
        <5> QED BY <5>1, <5>2
      <4>4. <<k, f>> \in Slots(p) BY <3>2, <4>2
      <4>5. Slots(p) = {<<k, f>>} BY <4>3, <4>4
      <4> QED BY <3>3, <4>5, FS_Singleton
    <3>4. CASE p \notin Children
      <4>1. \A k \in 1..Len(x) : p \notin {x[k].pid, x[k].pidlog}
        BY <3>1, <3>4 DEF OnlyChildren
      <4>2. \A s \in (1..Len(x)) \X {"pid", "pidlog"} : x[s[1]][s[2]] # p
        <5> TAKE s \in (1..Len(x)) \X {"pid", "pidlog"}
        <5>1. s[1] \in 1..Len(x) /\ s[2] \in {"pid", "pidlog"} OBVIOUS
        <5> QED BY <4>1, <5>1
      <4>3. Slots(p) = {} BY <3>2, <4>2
      <4> QED BY <3>4, <4>3, FS_EmptySet
    <3> QED BY <3>3, <3>4
  <2>2. \A j, k \in 1..Len(x) : x[j].ino = x[k].ino => j = k BY DEF OneEntry
  <2> QED BY <2>1, <2>2 DEF ChildrenTabled
<1> QED BY <1>1, Invariance, PTL

(* svscan.c holds open the pipe of each service with a log and no other, and *)
(* both children of the service are on it.                                  *)
THEOREM PipesAreKept == Spec => []PipesKept
<1>1. ASSUME IInv PROVE PipesKept
  <2> USE <1>1 DEF IInv, Sound, Typed
  <2>1. pipes = {e.pi : e \in {f \in Range_x : f.flaglog}}
    <3>1. \A e \in Range_x : e.flaglog => e.pi \in pipes BY DEF Range_x, LogPiped
    <3>2. \A q \in pipes : \E e \in Range_x : e.flaglog /\ e.pi = q BY DEF Range_x, AllPipes
    <3> QED BY <3>1, <3>2
  <2>2. PipesAccounted BY <2>1 DEF PipesAccounted, OnePipe
  <2>3. SamePipe
    <3>1. SUFFICES ASSUME NEW k \in 1..Len(x), NEW p \in Live
                   PROVE  /\ p = x[k].pid /\ x[k].flaglog => proc[p].pipe = x[k].pi
                          /\ p = x[k].pidlog => proc[p].pipe = x[k].pi /\ x[k].pi \in pipes
      BY DEF SamePipe, Range_x
    <3>2. p # None BY SvscanAssumption DEF Live, Children, SvscanAssumption
    <3> QED BY <3>2 DEF Piped, LogPiped
  <2> QED BY <2>2, <2>3 DEF PipesKept
<1> QED BY <1>1, Invariance, PTL

-----------------------------------------------------------------------------
(* Nothing that stays is forgotten.                                         *)

(* Every entry of this directory has been seen in the scan.                 *)
Marked(ino) == \A k \in 1..Len(x) : x[k].ino = ino => x[k].flagactive = TRUE

(* In a scan, a directory that has stayed where it was is either still to   *)
(* come from readdir() or has been marked; at its end it has been marked.   *)
ScanInv ==
  /\ pc = "reap" => stable = {}
  /\ pc = "open" => \A ino \in stable : \E n \in Names : dir[n] = ino
  /\ pc = "read" =>
       \A ino \in stable : \E n \in Names : dir[n] = ino /\ (n \in todo \/ Marked(ino))
  /\ pc = "sweep" => \A ino \in stable : Marked(ino)

(* The table changes in one place: an entry is marked or added marked, or   *)
(* the table stays as it is when the directory could not be marked.         *)
LEMMA ReaddirScan ==
  ASSUME SvscanAssumption, IInv, ScanInv, StatMayFail = FALSE, Readdir
  PROVE  ScanInv'
<1> USE DEF IInv
<1>1. PICK n \in Names :
        /\ todo' = todo \ {n}
        /\ StartKnown(n) \/ StartNew(n) \/ StartNot(n)
  BY DEF Readdir
<1>2. pc = "read" /\ UNCHANGED <<pc, i, dir, withlog, stable>> BY DEF Readdir, disk
<1>3. x \in Seq(Entry) /\ Len(x) \in Nat BY DEF Sound, Typed
<1>4. ASSUME NEW k \in 1..Len(x) + 1, NEW f \in Entry, x' = Put(k, f), f.flagactive = TRUE,
             f.ino = dir[n], OneEntry(x')
      PROVE  Marked(dir[n])' /\ \A ino \in Inodes : Marked(ino) => Marked(ino)'
  <2>1. /\ Len(x') = IF k <= Len(x) THEN Len(x) ELSE Len(x) + 1
        /\ x'[k] = f
        /\ \A l \in 1..Len(x) : l # k => x'[l] = x[l]
    <3>1. /\ Len(Put(k, f)) = IF k <= Len(x) THEN Len(x) ELSE Len(x) + 1
          /\ Put(k, f)[k] = f
          /\ \A l \in 1..Len(x) : l # k => Put(k, f)[l] = x[l]
      BY <1>3, PutIs
    <3> QED BY <1>4, <3>1
  <2>2. k \in 1..Len(x') /\ \A l \in 1..Len(x') : l # k => l \in 1..Len(x) /\ x'[l] = x[l]
    BY <1>3, <2>1
  <2>3. Marked(dir[n])' BY <1>2, <1>4, <2>1, <2>2 DEF Marked, OneEntry
  <2> QED BY <1>4, <2>1, <2>2, <2>3 DEF Marked
<1>5. dir[n] = None \/ (Marked(dir[n])' /\ \A ino \in Inodes : Marked(ino) => Marked(ino)')
                    \/ (UNCHANGED x /\ Marked(dir[n]))
  <2>1. CASE StartKnown(n)
    <3>1. Sound(x', proc', pipes') BY <2>1, StartKnownIs
    <3>2. PICK k \in 1..Len(x), f \in Entry : x' = Put(k, f) /\ f.ino = dir[n] /\ f.flagactive = TRUE
      BY <2>1, StartKnownIs
    <3>3. k \in 1..Len(x) + 1 BY <1>3
    <3> QED BY <1>4, <3>1, <3>2, <3>3 DEF Sound
  <2>2. CASE StartNew(n)
    <3>1. Sound(x', proc', pipes') BY <2>2, StartNewIs
    <3>2. PICK f \in Entry : x' = Put(Len(x) + 1, f) /\ f.ino = dir[n] /\ f.flagactive = TRUE
      BY <2>2, StartNewIs
    <3>3. Len(x) + 1 \in 1..Len(x) + 1 BY <1>3
    <3> QED BY <1>4, <3>1, <3>2, <3>3 DEF Sound
  <2>3. CASE StartNot(n)
    <3>1. UNCHANGED x /\ (dir[n] = None \/ Known(dir[n]) = {}) BY <2>3 DEF StartNot
    <3> QED BY <3>1 DEF Known, Marked
  <2> QED BY <1>1, <2>1, <2>2, <2>3
<1>6. ASSUME NEW ino \in stable
      PROVE  \E m \in Names : dir'[m] = ino /\ (m \in todo' \/ Marked(ino)')
  <2>1. ino \in Inodes /\ ino # None BY SvscanAssumption DEF RestTyped, SvscanAssumption
  <2>2. PICK m \in Names : dir[m] = ino /\ (m \in todo \/ Marked(ino)) BY <1>2 DEF ScanInv
  <2>3. UNCHANGED x /\ Marked(ino) => Marked(ino)' BY DEF Marked
  <2>4. Marked(ino) => Marked(ino)'
    <3>1. CASE dir[n] = None
      <4>1. ~StartKnown(n) /\ ~StartNew(n) BY <3>1 DEF StartKnown, StartNew
      <4>2. UNCHANGED x BY <1>1, <4>1 DEF StartNot
      <4> QED BY <2>3, <4>2
    <3>2. CASE dir[n] # None BY <1>5, <2>1, <2>3, <3>2
    <3> QED BY <3>1, <3>2
  <2>5. CASE m = n
    <3>1. dir'[n] = ino /\ ino # None BY <1>2, <2>1, <2>2, <2>5
    <3>2. Marked(dir[n])' \/ (UNCHANGED x /\ Marked(ino)) BY <1>5, <2>2, <2>5, <3>1
    <3>3. Marked(ino)' BY <2>3, <3>1, <3>2
    <3> QED BY <1>2, <2>2, <3>3
  <2>6. CASE m # n BY <1>1, <1>2, <2>2, <2>4, <2>6
  <2> QED BY <2>5, <2>6
<1> QED BY <1>2, <1>6 DEF ScanInv

(* Except in the sweep and in readdir() only flags are cleared, before the   *)
(* scan, and pids.                                                          *)
LEMMA ScanStep ==
  SvscanAssumption /\ StatMayFail = FALSE /\ IInv /\ ScanInv /\ [Next]_vars => ScanInv'
<1> SUFFICES ASSUME SvscanAssumption, StatMayFail = FALSE, IInv, ScanInv, [Next]_vars
             PROVE  ScanInv'
  OBVIOUS
<1> USE DEF IInv
<1>1. x \in Seq(Entry) /\ Len(x) \in Nat /\ None \notin stable
  BY DEF Sound, Typed, RestTyped, SvscanAssumption
<1>2. UNCHANGED x => \A ino : Marked(ino) = Marked(ino)' BY DEF Marked
<1>3. CASE Reap BY <1>3 DEF Reap, ScanInv, disk
<1>4. CASE Reaped BY <1>4 DEF Reaped, ScanInv, Present
<1>5. CASE Opendir BY <1>1, <1>5 DEF Opendir, ScanInv, disk
<1>6. CASE Readdir BY <1>6, ReaddirScan
<1>7. CASE EndOfDir
  <2>1. ASSUME NEW ino \in stable PROVE Marked(ino)
    <3>1. PICK n \in Names : dir[n] = ino /\ (n \in todo \/ Marked(ino)) BY <1>7 DEF EndOfDir, ScanInv
    <3> QED BY <1>1, <1>7, <3>1 DEF EndOfDir
  <2>2. pc' = "sweep" /\ UNCHANGED <<x, stable>> BY <1>7 DEF EndOfDir, disk
  <2> QED BY <1>2, <2>1, <2>2 DEF ScanInv
<1>8. CASE Sweep
  <2>1. i \in 1..Len(x) BY <1>1, <1>8 DEF Sweep, RestTyped, SvscanAssumption
  <2>2. x' \in {x, Without(x, i)} BY <1>8 DEF Sweep, Without
  <2>3. \A k \in 1..Len(x') : \E l \in 1..Len(x) : x'[k] = x[l]
    <3>1. CASE x' = x BY <3>1
    <3>2. CASE x' = Without(x, i)
      <4>1. /\ Len(x') = Len(x) - 1
            /\ \A l \in 1..Len(x) - 1 : x'[l] = IF l = i THEN x[Len(x)] ELSE x[l]
        BY <1>1, <2>1, <3>2, WithoutIs
      <4>2. Len(x) \in 1..Len(x) /\ \A l \in 1..Len(x) - 1 : l \in 1..Len(x) BY <1>1, <2>1
      <4> QED BY <4>1, <4>2
    <3> QED BY <2>2, <3>1, <3>2
  <2>4. \A ino \in stable : Marked(ino)' BY <1>8, <2>3 DEF Sweep, ScanInv, Marked
  <2>5. pc' = "sweep" /\ stable' = stable BY <1>8 DEF Sweep, disk
  <2> QED BY <2>4, <2>5 DEF ScanInv
<1>9. CASE Swept BY <1>9 DEF Swept, ScanInv
<1>10. CASE Wake BY <1>10 DEF Wake, ScanInv
<1>11. CASE DirError BY <1>11 DEF DirError, AfterError, ScanInv
<1>12. ASSUME UNCHANGED <<pc, x, todo, dir, stable>> PROVE ScanInv' BY <1>2, <1>12 DEF ScanInv
<1>13. ASSUME NEW p \in Pids, ChildStarts(p) \/ ChildExits(p) PROVE ScanInv'
  BY <1>12, <1>13 DEF ChildStarts, ChildExits, disk, scan
<1>14. CASE Admin
  <2>1. UNCHANGED <<pc, x, todo>> BY <1>14 DEF Admin, Create, Remove, AddLog, RemoveLog, Rename, scan
  <2>2. ASSUME NEW ino \in stable' PROVE ino \in stable /\ \A n \in Names : dir[n] = ino => dir'[n] = ino
    <3>1. dir \in [Names -> Inodes \cup {None}] /\ stable \subseteq Inodes BY DEF RestTyped
    <3>2. ASSUME NEW n \in Names, NEW jno \in Inodes, NEW log \in BOOLEAN, Create(n, jno, log)
          PROVE  ino \in stable /\ \A m \in Names : dir[m] = ino => dir'[m] = ino
      BY <1>1, <2>2, <3>1, <3>2 DEF Create
    <3>3. ASSUME NEW n \in Names, Remove(n)
          PROVE  ino \in stable /\ \A m \in Names : dir[m] = ino => dir'[m] = ino
      BY <1>1, <2>2, <3>1, <3>3 DEF Remove
    <3>5. ASSUME NEW n \in Names, AddLog(n) \/ RemoveLog(n)
          PROVE  ino \in stable /\ \A m \in Names : dir[m] = ino => dir'[m] = ino
      BY <2>2, <3>5 DEF AddLog, RemoveLog
    <3>4. ASSUME NEW n \in Names, NEW o \in Names, Rename(n, o)
          PROVE  ino \in stable /\ \A m \in Names : dir[m] = ino => dir'[m] = ino
      BY <1>1, <2>2, <3>1, <3>4 DEF Rename
    <3> QED BY <1>14, <3>2, <3>3, <3>4, <3>5 DEF Admin
  <2> QED BY <1>2, <2>1, <2>2 DEF ScanInv
<1>15. CASE UNCHANGED vars BY <1>12, <1>15 DEF vars, disk, scan
<1> QED BY <1>3, <1>4, <1>5, <1>6, <1>7, <1>8, <1>9, <1>10, <1>11, <1>13, <1>14, <1>15
        DEF Next, Doit

(* Only the sweep takes an entry away, and it is one that is not marked.    *)
LEMMA OnlyUnmarkedGo ==
  SvscanAssumption /\ IInv /\ ScanInv /\ [Next]_vars => Tabled \ Tabled' \subseteq Inodes \ stable
<1> SUFFICES ASSUME SvscanAssumption, IInv, ScanInv, [Next]_vars,
                    NEW ino \in Tabled, ino \notin Tabled'
             PROVE  ino \in Inodes \ stable
  OBVIOUS
<1> USE DEF IInv
<1>1. x \in Seq(Entry) /\ Len(x) \in Nat /\ \A k \in 1..Len(x) : x[k] \in Entry
  BY DEF Sound, Typed
<1>2. Tabled = {x[k].ino : k \in 1..Len(x)} BY DEF Tabled, Range_x
<1>3. Tabled' = {x'[k].ino : k \in 1..Len(x')} BY DEF Tabled, Range_x
<1>4. PICK k \in 1..Len(x) : ino = x[k].ino BY <1>2
<1>5. ~(k \in 1..Len(x') /\ x'[k].ino = x[k].ino) BY <1>3, <1>4
<1>6. Sweep
  <2>1. ~UNCHANGED x BY <1>4, <1>5
  <2>2. ~Reap
    <3>1. SUFFICES ASSUME Reap PROVE FALSE OBVIOUS
    <3>2. PICK p \in Zombies : x' = [l \in 1..Len(x) |-> Cleared(x[l], p)] BY <3>1 DEF Reap
    <3>3. p \in Used(proc) BY DEF Zombies, Used
    <3>4. IInv' BY <3>1, ReapStep
    <3>5. Len(x') = Len(x) BY <1>1, <3>2, <3>4, LenProperties DEF Sound, Typed
    <3>6. x'[k].ino = x[k].ino BY <1>1, <3>2 DEF Cleared, Entry
    <3> QED BY <1>5, <3>5, <3>6
  <2>3. ~Reaped
    <3>1. SUFFICES ASSUME Reaped PROVE FALSE OBVIOUS
    <3>2. x' = [l \in 1..Len(x) |-> [x[l] EXCEPT !.flagactive = FALSE]] BY <3>1 DEF Reaped
    <3>3. IInv' BY <3>1, ReapedStep
    <3>4. Len(x') = Len(x) BY <1>1, <3>2, <3>3, LenProperties DEF Sound, Typed
    <3>5. x'[k].ino = x[k].ino BY <1>1, <3>2 DEF Entry
    <3> QED BY <1>5, <3>4, <3>5
  <2>4. ~Readdir
    <3>1. SUFFICES ASSUME Readdir PROVE FALSE OBVIOUS
    <3>2. PICK n \in Names : StartKnown(n) \/ StartNew(n) \/ StartNot(n) BY <3>1 DEF Readdir
    <3>3. CASE StartKnown(n)
      <4>1. PICK l \in 1..Len(x), f \in Entry : x' = Put(l, f) /\ x[l].ino = dir[n] /\ f.ino = dir[n]
        BY <3>3, StartKnownIs
      <4>2. l \in 1..Len(x) + 1 /\ l <= Len(x) BY <1>1
      <4>3. /\ Len(x') = Len(x) /\ x'[l] = f
            /\ \A m \in 1..Len(x) : m # l => x'[m] = x[m]
        <5>1. /\ Len(Put(l, f)) = Len(x) /\ Put(l, f)[l] = f
              /\ \A m \in 1..Len(x) : m # l => Put(l, f)[m] = x[m]
          BY <1>1, <4>2, PutIs
        <5> QED BY <4>1, <5>1
      <4> QED BY <1>5, <4>1, <4>3
    <3>4. CASE StartNew(n)
      <4>1. PICK f \in Entry : x' = Put(Len(x) + 1, f) BY <3>4, StartNewIs
      <4>2. Len(x) + 1 \in 1..Len(x) + 1 /\ ~(Len(x) + 1 <= Len(x)) BY <1>1
      <4>3. /\ Len(x') = Len(x) + 1
            /\ \A m \in 1..Len(x) : m # Len(x) + 1 => x'[m] = x[m]
        <5>1. /\ Len(Put(Len(x) + 1, f)) = Len(x) + 1
              /\ \A m \in 1..Len(x) : m # Len(x) + 1 => Put(Len(x) + 1, f)[m] = x[m]
          BY <1>1, <4>2, PutIs
        <5> QED BY <4>1, <5>1
      <4>4. k \in 1..Len(x') /\ k # Len(x) + 1 BY <1>1, <4>3
      <4> QED BY <1>5, <4>3, <4>4
    <3>5. CASE StartNot(n) BY <2>1, <3>5 DEF StartNot
    <3> QED BY <3>2, <3>3, <3>4, <3>5
  <2>5. ~(Opendir \/ EndOfDir \/ Swept \/ Wake \/ DirError)
    BY <2>1 DEF Opendir, EndOfDir, Swept, Wake, DirError
  <2>6. ~\E p \in Pids : ChildStarts(p) \/ ChildExits(p) BY <2>1 DEF ChildStarts, ChildExits
  <2>7. ~Admin BY <2>1 DEF Admin, Create, Remove, AddLog, RemoveLog, Rename
  <2>8. ~UNCHANGED vars BY <2>1 DEF vars
  <2> QED BY <2>2, <2>3, <2>4, <2>5, <2>6, <2>7, <2>8 DEF Next, Doit
<1>7. i \in 1..Len(x) BY <1>1, <1>6 DEF Sweep, RestTyped, SvscanAssumption
<1>8. Dead(x[i]) /\ x' = Without(x, i) BY <1>4, <1>5, <1>6 DEF Sweep, Without
<1>9. k = i
  <2>1. SUFFICES ASSUME k # i PROVE FALSE OBVIOUS
  <2>2. /\ Len(x') = Len(x) - 1
        /\ \A l \in 1..Len(x) - 1 : x'[l] = IF l = i THEN x[Len(x)] ELSE x[l]
    BY <1>1, <1>7, <1>8, WithoutIs
  <2>3. CASE k = Len(x)
    <3>1. i \in 1..Len(x') /\ x'[i] = x[k] BY <1>1, <1>7, <2>1, <2>2, <2>3
    <3> QED BY <1>3, <1>4, <3>1
  <2>4. CASE k # Len(x)
    <3>1. k \in 1..Len(x') /\ x'[k] = x[k] BY <1>1, <2>1, <2>2, <2>4
    <3> QED BY <1>5, <3>1
  <2> QED BY <2>3, <2>4
<1>10. x[k].flagactive # TRUE BY <1>8, <1>9 DEF Dead
<1>11. ino \in Inodes BY <1>1, <1>4 DEF Entry
<1>12. ino \notin stable BY <1>4, <1>6, <1>10 DEF Sweep, ScanInv, Marked
<1> QED BY <1>11, <1>12

(* svscan forgets no directory that has stayed in place since the scan       *)
(* began, at whatever point opendir(), readdir(), pipe() or fork() fails;    *)
(* stat() of a directory that is there is taken to succeed.                  *)
THEOREM PresentStay == ASSUME StatMayFail = FALSE PROVE Spec => PresentKept
<1>1. Init => ScanInv BY DEF Init, ScanInv
<1>2. IInv /\ ScanInv /\ [Next]_vars => ScanInv' BY ScanStep, SvscanAssumption
<1>3. IInv /\ ScanInv /\ [Next]_vars => [Tabled \ Tabled' \subseteq Inodes \ stable]_vars
  BY OnlyUnmarkedGo, SvscanAssumption
<1> QED BY <1>1, <1>2, <1>3, Invariance, PTL DEF Spec, PresentKept
=============================================================================
