------------------------------- MODULE Svscan -------------------------------
(***************************************************************************)
(* svscan(1), source/svscan.c: the table x[] of services, the scan of the  *)
(* directory every five seconds, the supervise processes it forks and the  *)
(* pipe between the two supervises of a service with a log.                *)
(*                                                                         *)
(* The administrator creates, removes and renames subdirectories, puts     *)
(* log into them and takes it away, and children exit, between any two     *)
(* steps.                                                                  *)
(***************************************************************************)
EXTENDS Naturals, Sequences, FiniteSets

CONSTANTS
  Names,        \* names of subdirectories that do not begin with a dot
  Inodes,       \* (device, inode) pairs
  Pids, Pipes,
  None,         \* no inode, pid 0, no pipe
  SERVICES,     \* capacity of x[]
  MaxFails,     \* bound on failing stat, pipe, fork, opendir and readdir calls
  StatMayFail,  \* whether stat() of a present subdirectory may fail
  ReuseInodes   \* whether an inode number may come back while x[] still has it

ASSUME SvscanAssumption ==
  /\ None \notin Names \cup Inodes \cup Pids \cup Pipes
  /\ SERVICES \in Nat \ {0}
  /\ MaxFails \in Nat
  /\ StatMayFail \in BOOLEAN
  /\ ReuseInodes \in BOOLEAN

VARIABLES
  pc,       \* "reap", "open", "read", "sweep" or "sleep"
  x,        \* the entries x[0] .. x[numx-1]
  i,        \* the index of the sweep
  dir,      \* the directory: which inode a name has
  withlog,  \* inodes of subdirectories that contain log
  todo,     \* names readdir() still owes this scan
  done,     \* names readdir() has returned in this scan
  proc,     \* the children
  pipes,    \* pipes open in svscan
  fails,
  stable    \* history: the inodes that kept their name since the scan began

scan == <<todo, done>>
disk == <<dir, withlog, stable>>
vars == <<pc, x, i, disk, scan, proc, pipes, fails>>

Entry == [ino : Inodes, flagactive : BOOLEAN, flaglog : BOOLEAN,
          pid : Pids \cup {None}, pidlog : Pids \cup {None}, pi : Pipes \cup {None}]

(* A child runs "supervise fn" or, after chdir(fn), "supervise log".  ino is *)
(* the directory it is in once it has got there.                            *)
Proc == [st   : {"free", "forked", "running", "zombie"},
         kind : {"main", "log"}, name : Names \cup {None},
         ino  : Inodes \cup {None}, pipe : Pipes \cup {None}]

Free == [st |-> "free", kind |-> "main", name |-> None, ino |-> None, pipe |-> None]

Range_x    == {x[k] : k \in 1..Len(x)}
FreePids   == {p \in Pids : proc[p].st = "free"}
Children   == Pids \ FreePids
Zombies    == {p \in Pids : proc[p].st = "zombie"}
Live       == Children \ Zombies
Present    == {dir[n] : n \in Names} \ {None}
Tabled     == {e.ino : e \in Range_x}
InUse      == {proc[p].ino : p \in Live} \ {None}
Supervised(ino, kind) ==
  \E p \in Pids : proc[p].st = "running" /\ proc[p].ino = ino /\ proc[p].kind = kind

MayFail == fails < MaxFails /\ fails' = fails + 1

-----------------------------------------------------------------------------
(* start()                                                                  *)

(* Mutant: the pidlog slot is not searched.                                 *)
Cleared_MainOnly(e, p) == IF e.pid = p THEN [e EXCEPT !.pid = None] ELSE e

(* doit(): forget the reaped child.                                         *)
Cleared(e, p) ==
  IF e.pid = p THEN [e EXCEPT !.pid = None]
  ELSE IF e.pidlog = p THEN [e EXCEPT !.pidlog = None] ELSE e

(* x[k] := e, where k may be the first free slot.                           *)
Put(k, e) == IF k <= Len(x) THEN [x EXCEPT ![k] = e] ELSE Append(x, e)

Child(kind, n, e) ==
  [st |-> "forked", kind |-> kind, name |-> n, ino |-> None, pipe |-> e.pi]

(* The two forks.  A failure leaves the rest to a later scan.               *)
Forks(n, k, e) ==
  LET needmain == e.pid = None
      needlog  == e.flaglog /\ e.pidlog = None
  IN \/ needmain /\ MayFail /\ x' = Put(k, e) /\ UNCHANGED proc
     \/ \E m \in IF needmain THEN FreePids ELSE {e.pid} :
          LET new   == IF needmain THEN [proc EXCEPT ![m] = Child("main", n, e)] ELSE proc
              e1    == [e EXCEPT !.pid = m]
          IN \/ ~needlog /\ x' = Put(k, e1) /\ proc' = new /\ UNCHANGED fails
             \/ needlog /\ MayFail /\ x' = Put(k, e1) /\ proc' = new
             \/ needlog /\ \E l \in FreePids \ {m} :
                  /\ x' = Put(k, [e1 EXCEPT !.pidlog = l])
                  /\ proc' = [new EXCEPT ![l] = Child("log", n, e)]
                  /\ UNCHANGED fails

Known(ino) == {k \in 1..Len(x) : x[k].ino = ino}

(* Mutant: a service that is restarted gets a fresh pipe.                   *)
StartKnown_NewPipe(n) ==
  /\ dir[n] # None
  /\ \E k \in Known(dir[n]) :
       IF x[k].flaglog /\ x[k].pid = None
       THEN \E pi \in Pipes \ pipes :
              /\ Forks(n, k, [x[k] EXCEPT !.flagactive = TRUE, !.pi = pi])
              /\ pipes' = (pipes \ {x[k].pi}) \cup {pi}
       ELSE Forks(n, k, [x[k] EXCEPT !.flagactive = TRUE]) /\ UNCHANGED pipes

(* start() of a subdirectory that has an entry.                             *)
StartKnown(n) ==
  /\ dir[n] # None
  /\ \E k \in Known(dir[n]) : Forks(n, k, [x[k] EXCEPT !.flagactive = TRUE])
  /\ UNCHANGED pipes

NewEntry(ino, pi) ==
  [ino |-> ino, flagactive |-> TRUE, flaglog |-> pi # None,
   pid |-> None, pidlog |-> None, pi |-> pi]

(* Mutant: off by one at the end of x[].                                    *)
Room_OffByOne == Len(x) <= SERVICES

Room == Len(x) < SERVICES

(* start() of a new subdirectory: stat of log, pipe(), ++numx, the forks.   *)
StartNew(n) ==
  /\ dir[n] # None /\ Known(dir[n]) = {} /\ Room
  /\ \/ /\ dir[n] \notin withlog
        /\ Forks(n, Len(x) + 1, NewEntry(dir[n], None))
        /\ UNCHANGED pipes
     \/ /\ dir[n] \in withlog
        /\ \E pi \in Pipes \ pipes :
             /\ pipes' = pipes \cup {pi}
             /\ Forks(n, Len(x) + 1, NewEntry(dir[n], pi))

(* start() returns early: no such file any more, stat or pipe failed, or    *)
(* too many services.                                                       *)
StartNot(n) ==
  /\ \/ dir[n] = None /\ UNCHANGED fails
     \/ dir[n] # None /\ StatMayFail /\ MayFail
     \/ dir[n] # None /\ Known(dir[n]) = {} /\ ~Room /\ UNCHANGED fails
     \/ dir[n] \in withlog /\ Known(dir[n]) = {} /\ Room /\ MayFail
  /\ UNCHANGED <<x, proc, pipes>>

-----------------------------------------------------------------------------
(* doit()                                                                   *)

(* One turn of the wait_nohang() loop.                                      *)
Reap ==
  /\ pc = "reap"
  /\ \E p \in Zombies :
       /\ proc' = [proc EXCEPT ![p] = Free]
       /\ x' = [k \in 1..Len(x) |-> Cleared(x[k], p)]
  /\ UNCHANGED <<pc, i, disk, scan, pipes, fails>>

(* Nobody is left to wait for; every flagactive is cleared.                 *)
Reaped ==
  /\ pc = "reap" /\ Zombies = {}
  /\ x' = [k \in 1..Len(x) |-> [x[k] EXCEPT !.flagactive = FALSE]]
  /\ pc' = "open" /\ stable' = Present
  /\ UNCHANGED <<i, dir, withlog, scan, proc, pipes, fails>>

(* readdir() will return every name that stays, once.                       *)
Opendir ==
  /\ pc = "open"
  /\ pc' = "read"
  /\ todo' = {n \in Names : dir[n] # None} /\ done' = {}
  /\ UNCHANGED <<x, i, disk, proc, pipes, fails>>

(* Mutant: after an error the sweep runs all the same.                      *)
AfterError_Sweep == "sweep"

(* direrror(); return: the sweep is not reached.                            *)
AfterError == "sleep"

DirError ==
  /\ pc \in {"open", "read"}
  /\ MayFail
  /\ pc' = AfterError /\ i' = 1
  /\ UNCHANGED <<x, disk, scan, proc, pipes>>

(* readdir() returns a name, perhaps one made or removed since opendir().   *)
Readdir ==
  /\ pc = "read"
  /\ \E n \in Names \ done :
       /\ n \in todo \/ dir[n] # None
       /\ done' = done \cup {n} /\ todo' = todo \ {n}
       /\ StartKnown(n) \/ StartNew(n) \/ StartNot(n)
  /\ UNCHANGED <<pc, i, disk>>

(* readdir() is at the end.                                                 *)
EndOfDir ==
  /\ pc = "read"
  /\ \A n \in todo : dir[n] = None
  /\ pc' = "sweep" /\ i' = 1
  /\ todo' = {} /\ done' = {}
  /\ UNCHANGED <<x, disk, proc, pipes, fails>>

Dead(e) == ~e.flagactive /\ e.pid = None /\ e.pidlog = None

(* Mutant: the pipe stays open.                                             *)
Closed_Leaks(e) == {}

Closed(e) == IF e.flaglog THEN {e.pi} ELSE {}

(* Mutant: ++i is missing, and the loop stays at an entry that lives.       *)
Sweep_NoIncrement ==
  /\ pc = "sweep" /\ i <= Len(x) /\ Dead(x[i])
  /\ pipes' = pipes \ Closed(x[i])
  /\ x' = SubSeq([x EXCEPT ![i] = x[Len(x)]], 1, Len(x) - 1)
  /\ UNCHANGED <<pc, i, disk, scan, proc, fails>>

(* One turn of the sweep: x[i] = x[--numx] or ++i.                          *)
Sweep ==
  /\ pc = "sweep" /\ i <= Len(x)
  /\ IF Dead(x[i])
       THEN /\ pipes' = pipes \ Closed(x[i])
            /\ x' = SubSeq([x EXCEPT ![i] = x[Len(x)]], 1, Len(x) - 1)
            /\ UNCHANGED i
       ELSE i' = i + 1 /\ UNCHANGED <<x, pipes>>
  /\ UNCHANGED <<pc, disk, scan, proc, fails>>

Swept ==
  /\ pc = "sweep" /\ i > Len(x)
  /\ pc' = "sleep"
  /\ UNCHANGED <<x, i, disk, scan, proc, pipes, fails>>

(* main(): sleep(5) is over.                                                *)
Wake ==
  /\ pc = "sleep"
  /\ pc' = "reap" /\ i' = 1 /\ todo' = {} /\ done' = {} /\ stable' = {}
  /\ UNCHANGED <<x, dir, withlog, proc, pipes, fails>>

-----------------------------------------------------------------------------
(* The children.  fn is looked up again, by name, in the child; supervise   *)
(* dies when it cannot start or does not get the lock of that directory.    *)
ChildStarts(p) ==
  /\ proc[p].st = "forked"
  /\ LET ino == dir[proc[p].name]
         ok  == /\ ino # None
                /\ proc[p].kind = "log" => ino \in withlog
                /\ ~Supervised(ino, proc[p].kind)
     IN \/ /\ proc' = [proc EXCEPT ![p].st  = IF ok THEN "running" ELSE "zombie",
                                   ![p].ino = IF ok THEN ino ELSE None]
           /\ UNCHANGED fails
        \/ proc' = [proc EXCEPT ![p].st = "zombie"] /\ MayFail
  /\ UNCHANGED <<pc, x, i, disk, scan, pipes>>

ChildExits(p) ==
  /\ proc[p].st = "running"
  /\ proc' = [proc EXCEPT ![p].st = "zombie", ![p].ino = None]
  /\ UNCHANGED <<pc, x, i, disk, scan, pipes, fails>>

(* The administrator.  A directory that is some process's working directory *)
(* keeps its inode after it is removed.                                     *)
Create(n, ino, log) ==
  /\ dir[n] = None
  /\ ino \notin Present \cup InUse
  /\ ReuseInodes \/ ino \notin Tabled
  /\ dir' = [dir EXCEPT ![n] = ino]
  /\ withlog' = IF log THEN withlog \cup {ino} ELSE withlog \ {ino}
  /\ UNCHANGED <<pc, x, i, stable, scan, proc, pipes, fails>>

Remove(n) ==
  /\ dir[n] # None
  /\ dir' = [dir EXCEPT ![n] = None] /\ stable' = stable \ {dir[n]}
  /\ UNCHANGED <<pc, x, i, withlog, scan, proc, pipes, fails>>

(* A rename that does not cut in between fork() and the chdir() of a child. *)
Rename(n, m) ==
  /\ dir[n] # None /\ dir[m] = None
  /\ \A p \in Pids : proc[p].st # "forked"
  /\ dir' = [dir EXCEPT ![n] = None, ![m] = dir[n]]
  /\ stable' = stable \ {dir[n]}
  /\ UNCHANGED <<pc, x, i, withlog, scan, proc, pipes, fails>>

(* A log is put into a directory that is there already: the second of the   *)
(* two calls of mkdir that make a service with a log, or a later change.    *)
AddLog(n) ==
  /\ dir[n] # None /\ dir[n] \notin withlog
  /\ withlog' = withlog \cup {dir[n]}
  /\ UNCHANGED <<pc, x, i, dir, stable, scan, proc, pipes, fails>>

(* A log is removed that no supervise is in.                                *)
RemoveLog(n) ==
  /\ dir[n] # None /\ dir[n] \in withlog /\ ~Supervised(dir[n], "log")
  /\ withlog' = withlog \ {dir[n]}
  /\ UNCHANGED <<pc, x, i, dir, stable, scan, proc, pipes, fails>>

Init ==
  /\ pc = "reap" /\ x = <<>> /\ i = 1
  /\ dir = [n \in Names |-> None] /\ withlog = {}
  /\ todo = {} /\ done = {} /\ stable = {}
  /\ proc = [p \in Pids |-> Free] /\ pipes = {} /\ fails = 0

Doit == Reap \/ Reaped \/ Opendir \/ Readdir \/ EndOfDir \/ Sweep \/ Swept \/ Wake

Admin ==
  \/ \E n \in Names, ino \in Inodes, log \in BOOLEAN : Create(n, ino, log)
  \/ \E n \in Names : Remove(n) \/ AddLog(n) \/ RemoveLog(n)
  \/ \E n, m \in Names : Rename(n, m)

Next ==
  \/ Doit \/ DirError
  \/ \E p \in Pids : ChildStarts(p) \/ ChildExits(p)
  \/ Admin

Spec == Init /\ [][Next]_vars

(* svscan and its children are scheduled; failures are finitely many        *)
(* (MaxFails), exits and the administrator are free to happen or not.       *)
Fairness == WF_vars(Doit) /\ \A p \in Pids : WF_vars(ChildStarts(p))

LiveSpec == Spec /\ Fairness

-----------------------------------------------------------------------------
TypeOK ==
  /\ stable \subseteq Inodes
  /\ pc \in {"reap", "open", "read", "sweep", "sleep"}
  /\ x \in Seq(Entry) /\ Len(x) <= SERVICES
  /\ i \in 1..SERVICES + 1
  /\ dir \in [Names -> Inodes \cup {None}] /\ withlog \subseteq Inodes
  /\ todo \subseteq Names /\ done \subseteq Names
  /\ proc \in [Pids -> Proc]
  /\ pipes \subseteq Pipes
  /\ fails \in 0..MaxFails

(* Every child of svscan has exactly one place in the table, and every pid  *)
(* in the table is a child: no service is started twice, forgotten while it *)
(* runs, or taken for running when it is not.  And a directory has one      *)
(* entry, whatever names it goes through.                                   *)
Slots(p) ==
  {s \in (1..Len(x)) \X {"pid", "pidlog"} : x[s[1]][s[2]] = p}
ChildrenTabled ==
  /\ \A p \in Pids : Cardinality(Slots(p)) = (IF p \in Children THEN 1 ELSE 0)
  /\ \A j, k \in 1..Len(x) : x[j].ino = x[k].ino => j = k

(* svscan has open exactly the pipes of the entries with a log: no          *)
(* descriptor leaks, and none is closed while one of the two still runs.    *)
PipesAccounted ==
  /\ pipes = {e.pi : e \in {f \in Range_x : f.flaglog}}
  /\ \A j, k \in 1..Len(x) : x[j].flaglog /\ x[j].pi = x[k].pi => j = k

(* "In the log case it reuses the same pipe so that no data is lost": both  *)
(* children of an entry are on its pipe, across any restarts.               *)
SamePipe ==
  \A e \in Range_x : \A p \in Live :
     /\ p = e.pid /\ e.flaglog => proc[p].pipe = e.pi
     /\ p = e.pidlog           => proc[p].pipe = e.pi /\ e.pi \in pipes

(* The pipe of a service, open once, is the one that its two processes use. *)
PipesKept == PipesAccounted /\ SamePipe

(* Nothing that goes wrong in a scan, however late, makes svscan forget a   *)
(* directory that was there all the time: its entry, and with it the pipe   *)
(* that may hold data, stays.                                               *)
PresentKept == [][Tabled \ Tabled' \subseteq Inodes \ stable]_vars

(* Every subdirectory gets its supervise, and a second one for a log that    *)
(* is there when svscan sees the subdirectory for the first time, after any *)
(* number of exits and the bounded number of failures, and again when the   *)
(* log was removed and is back, unless other entries, some of removed       *)
(* directories, fill x[] (svscan.c:51).                                     *)
FullOfOthers(ino) == Len(x) = SERVICES /\ ino \notin Tabled
Has(n, ino, kind) == dir[n] = ino /\ (kind = "log" => ino \in withlog)
Gets(n, ino, kind) == Supervised(ino, kind) \/ FullOfOthers(ino) \/ ~Has(n, ino, kind)
LogSeen(ino) == \A e \in Range_x : e.ino = ino => e.flaglog
GetsSupervises ==
  \A n \in Names, ino \in Inodes, kind \in {"main", "log"} :
    Has(n, ino, kind) /\ (kind = "log" => LogSeen(ino)) ~> Gets(n, ino, kind)

(* A subdirectory s gets a supervise for s/log "if ... s/log exists"         *)
(* (svscan.xml:38-39).  In the code flaglog is set only with a new entry    *)
(* (svscan.c:51-77), and a log that comes later is never looked for.        *)
EveryLogSupervised ==
  \A n \in Names, ino \in Inodes : Has(n, ino, "log") ~> Gets(n, ino, "log")
==============================================================================
