------------------------------ MODULE Supervise ------------------------------
(***************************************************************************)
(* supervise(1), source/supervise.c: one supervisor process, the ./run     *)
(* process it forks, the FIFO svc(1) writes commands to, the status file   *)
(* svstat(1) reads, and the SIGCHLD/self-pipe pair that wakes the loop.    *)
(*                                                                         *)
(* The kernel, the service, svc, a SIGKILL of supervise and its restart by *)
(* svscan are the environment and interleave between any two steps.        *)
(***************************************************************************)
EXTENDS Naturals, Sequences, FiniteSets

CONSTANTS
  Pids,          \* process identifiers the kernel may give to ./run
  NoPid,         \* the value 0 of the variable pid: "0 means down"
  CommandLines,  \* what one svc invocation may write, a set of sequences
  MaxFifo,       \* capacity of the FIFO supervise/control, in commands
  MaxForkFails,  \* bound on failed fork() calls
  MaxCrashes,    \* bound on SIGKILLs of supervise
  DiskMayFail    \* whether writing the status file may fail

Commands == {"d", "u", "o", "a", "h", "k", "t", "i", "p", "c", "x"}

ASSUME NoPidAssumption == NoPid \notin Pids
ASSUME CommandLinesAssumption ==
  CommandLines \subseteq {line \in Seq(Commands) : Len(line) \in 1..MaxFifo}
ASSUME BoundsAssumption ==
  /\ MaxFifo \in Nat \ {0}
  /\ MaxForkFails \in Nat
  /\ MaxCrashes \in Nat
  /\ DiskMayFail \in BOOLEAN

VARIABLES
  pc,          \* where supervise is
  ret,         \* where trystart() returns to
  flagexit, flagwant, flagwantup, flagpaused,
  pid,         \* the variable pid
  status,      \* contents of the file supervise/status
  stale,       \* the last announce() failed to replace that file
  control,     \* bytes waiting in supervise/control
  pending,     \* SIGCHLD is pending and blocked
  selfpipe,    \* the self-pipe holds at least one byte
  proc,        \* the process table
  orphans,     \* children of a supervise that is dead
  termed,      \* processes a TERM was sent to
  forkFails, crashes

flags  == <<flagexit, flagwant, flagwantup>>
kernel == <<proc, orphans, termed>>
bounds == <<forkFails, crashes>>
vars == <<pc, ret, flags, flagpaused, pid, status, stale, control, pending,
          selfpipe, kernel, bounds>>

PC == {"boot", "announce", "ok", "start", "doit", "top", "wait", "reap",
       "control", "leave", "left", "dead"}

ProcStates == {"free", "running", "stopped", "zombie"}

(* supervise/status as svstat decodes it (its time stamp left out).        *)
Report(p, paused, want, up) ==
  [pid    |-> p,
   paused |-> p # NoPid /\ paused,
   want   |-> IF want THEN (IF up THEN "up" ELSE "down") ELSE "none"]

Reports == [pid : Pids \cup {NoPid}, paused : BOOLEAN, want : {"up", "down", "none"}]

Alive(p)    == proc[p] \in {"running", "stopped"}
Children    == {p \in Pids : proc[p] # "free"} \ orphans
Zombies     == {p \in Children : proc[p] = "zombie"}
Supervising == pc \notin {"left", "dead"}
OkOpen      == Supervising /\ pc \notin {"boot", "announce", "ok"}
WantRunning == ~flagwant \/ flagwantup

-----------------------------------------------------------------------------
(* Mutant: announce() does not set status[16].                              *)
announce_OldPaused(p, paused, want, up) ==
  /\ status' = [Report(p, paused, want, up) EXCEPT !.paused = status.paused]
  /\ stale' = FALSE

(* announce(): status.new is written and renamed over status, or a warning  *)
(* is printed and the old file stays.                                       *)
announce(p, paused, want, up) ==
  \/ status' = Report(p, paused, want, up) /\ stale' = FALSE
  \/ DiskMayFail /\ stale' = TRUE /\ UNCHANGED status

(* main(): pipe, down file, lock, control FIFO.  A new process starts with  *)
(* an empty self-pipe, no pending signal and the static initial values.     *)
Boot ==
  /\ pc = "boot"
  /\ \E down \in BOOLEAN : flagwantup' = ~down
  /\ pc' = "announce"
  /\ UNCHANGED <<ret, flagexit, flagwant, flagpaused, pid, status, stale, control,
                 pending, selfpipe, kernel, bounds>>

(* main(): the lock or a file cannot be had, die with 111.                  *)
DieAtStart ==
  /\ pc \in {"boot", "ok"}
  /\ pc' = "dead"
  /\ control' = <<>>
  /\ UNCHANGED <<ret, flags, flagpaused, pid, status, stale, pending, selfpipe,
                 kernel, bounds>>

(* main(): pidchange(); announce(); before supervise/ok is opened.          *)
FirstAnnounce ==
  /\ pc = "announce"
  /\ announce(pid, flagpaused, flagwant, flagwantup)
  /\ pc' = "ok"
  /\ UNCHANGED <<ret, flags, flagpaused, pid, control, pending, selfpipe, kernel, bounds>>

(* main(): supervise/ok gets its reader, then the first trystart().         *)
OpenOk ==
  /\ pc = "ok"
  /\ pc' = IF WantRunning THEN "start" ELSE "doit"
  /\ ret' = "doit"
  /\ UNCHANGED <<flags, flagpaused, pid, status, stale, control, pending,
                 selfpipe, kernel, bounds>>

(* doit(): the announce() before the loop.                                  *)
EnterLoop ==
  /\ pc = "doit"
  /\ announce(pid, flagpaused, flagwant, flagwantup)
  /\ pc' = "top"
  /\ UNCHANGED <<ret, flags, flagpaused, pid, control, pending, selfpipe, kernel, bounds>>

(* trystart(), fork() succeeded: the parent records and announces the pid.  *)
Forked(p) ==
  /\ pc = "start"
  /\ proc[p] = "free"
  /\ proc' = [proc EXCEPT ![p] = "running"]
  /\ flagpaused' = FALSE
  /\ pid' = p
  /\ announce(p, FALSE, flagwant, flagwantup)
  /\ pc' = ret
  /\ UNCHANGED <<ret, flags, control, pending, selfpipe, orphans, termed, bounds>>

(* trystart(), fork() returned -1: sleep 60 seconds, trigger(), return.     *)
ForkFailed ==
  /\ pc = "start"
  /\ forkFails < MaxForkFails
  /\ forkFails' = forkFails + 1
  /\ selfpipe' = TRUE
  /\ pc' = ret
  /\ UNCHANGED <<ret, flags, flagpaused, pid, status, stale, control, pending,
                 kernel, crashes>>

(* Mutant: the loop never looks at flagexit.                                *)
Done_Never == FALSE

Done == flagexit /\ pid = NoPid

(* doit(): the top of the loop.  Returning leads main() to its last         *)
(* announce(); going on unblocks SIGCHLD and polls.                         *)
LoopTop ==
  /\ pc = "top"
  /\ pc' = IF Done THEN "leave" ELSE "wait"
  /\ UNCHANGED <<ret, flags, flagpaused, pid, status, stale, control, pending,
                 selfpipe, kernel, bounds>>

(* Mutant: the handler of SIGCHLD does nothing.                             *)
trigger_Empty ==
  /\ pc = "wait" /\ pending
  /\ pending' = FALSE
  /\ UNCHANGED <<pc, ret, flags, flagpaused, pid, status, stale, control, selfpipe,
                 kernel, bounds>>

(* The kernel runs the handler trigger() while SIGCHLD is not blocked.      *)
trigger ==
  /\ pc = "wait" /\ pending
  /\ pending' = FALSE /\ selfpipe' = TRUE
  /\ UNCHANGED <<pc, ret, flags, flagpaused, pid, status, stale, control, kernel, bounds>>

(* iopause() returns; SIGCHLD is blocked and the self-pipe drained.         *)
Wakeup ==
  /\ pc = "wait"
  /\ pc' = "reap" /\ selfpipe' = FALSE
  /\ UNCHANGED <<ret, flags, flagpaused, pid, status, stale, control, pending,
                 kernel, bounds>>

Readable == selfpipe \/ control # <<>>

(* iopause() reports a descriptor, or returns on its timeout or on EINTR.   *)
Polled   == Readable /\ Wakeup
TimedOut == ~Readable /\ Wakeup

(* Mutants: an exit of ./run restarts it although "d" is wanted, or although *)
(* "x" was read.                                                            *)
AfterExit_Restarts    == IF flagexit THEN "leave" ELSE "start"
AfterExit_ForgetsExit == IF flagwant /\ flagwantup THEN "start" ELSE "control"

(* What doit() does once ./run was reaped: return, trystart() or go on.     *)
AfterExit ==
  CASE flagexit                            -> "leave"
    [] ~flagexit /\ flagwant /\ flagwantup -> "start"
    [] OTHER                               -> "control"

(* wait_nohang() returned the pid of ./run.                                 *)
ReapRun ==
  /\ pc = "reap" /\ pid \in Zombies
  /\ proc' = [proc EXCEPT ![pid] = "free"]
  /\ pid' = NoPid
  /\ termed' = termed \ {pid}
  /\ announce(NoPid, flagpaused, flagwant, flagwantup)
  /\ pc' = AfterExit
  /\ ret' = "control"
  /\ UNCHANGED <<flags, flagpaused, control, pending, selfpipe, orphans, bounds>>

(* wait_nohang() returned 0, or -1 with errno ECHILD.  It never returns     *)
(* another pid: by PidTracksChild there is no other child.                  *)
ReapNone ==
  /\ pc = "reap" /\ Zombies = {}
  /\ pc' = "control"
  /\ UNCHANGED <<ret, flags, flagpaused, pid, status, stale, control, pending,
                 selfpipe, kernel, bounds>>

-----------------------------------------------------------------------------
(* The commands: one byte is read from the FIFO on each turn of the loop.   *)
Read(ch) ==
  /\ pc = "control" /\ control # <<>> /\ Head(control) = ch
  /\ control' = Tail(control)

NoCommand ==
  /\ pc = "control" /\ control = <<>>
  /\ pc' = "top"
  /\ UNCHANGED <<ret, flags, flagpaused, pid, status, stale, control, pending,
                 selfpipe, kernel, bounds>>

(* What the kernel does with a signal to ./run.  A stop and a continuation  *)
(* send SIGCHLD too, as sig_catch() sets no SA_NOCLDSTOP.                   *)
Stop(p) ==
  IF proc[p] = "running"
  THEN proc' = [proc EXCEPT ![p] = "stopped"] /\ pending' = TRUE
  ELSE UNCHANGED <<proc, pending>>

Continue(p) ==
  IF proc[p] = "stopped"
  THEN proc' = [proc EXCEPT ![p] = "running"] /\ pending' = TRUE
  ELSE UNCHANGED <<proc, pending>>
Kill(p) ==
  IF Alive(p)
  THEN proc' = [proc EXCEPT ![p] = "zombie"] /\ pending' = TRUE
  ELSE UNCHANGED <<proc, pending>>

(* Mutant: SIGCONT is not sent.                                             *)
SendCont_Lost == UNCHANGED <<proc, pending>>

(* if (pid) kill(pid,SIGCONT);                                              *)
SendCont == IF pid # NoPid THEN Continue(pid) ELSE UNCHANGED <<proc, pending>>

Down ==
  /\ Read("d")
  /\ flagwant' = TRUE /\ flagwantup' = FALSE
  /\ IF pid # NoPid
       THEN termed' = termed \cup {pid} /\ flagpaused' = FALSE
       ELSE UNCHANGED <<termed, flagpaused>>
  /\ SendCont
  /\ announce(pid, flagpaused', TRUE, FALSE)
  /\ pc' = "top"
  /\ UNCHANGED <<ret, flagexit, pid, selfpipe, orphans, bounds>>

(* Mutants: "u" and "o" start ./run whatever pid is, or never do.           *)
IfDown_NoTest == "start"
IfDown_Never  == "top"

(* if (!pid) trystart();                                                    *)
IfDown == IF pid = NoPid THEN "start" ELSE "top"

Up ==
  /\ Read("u")
  /\ flagwant' = TRUE /\ flagwantup' = TRUE
  /\ announce(pid, flagpaused, TRUE, TRUE)
  /\ pc' = IfDown
  /\ ret' = "top"
  /\ UNCHANGED <<flagexit, flagpaused, pid, pending, selfpipe, kernel, bounds>>

Once ==
  /\ Read("o")
  /\ flagwant' = FALSE
  /\ announce(pid, flagpaused, FALSE, flagwantup)
  /\ pc' = IfDown
  /\ ret' = "top"
  /\ UNCHANGED <<flagexit, flagwantup, flagpaused, pid, pending, selfpipe, kernel, bounds>>

(* ALRM, HUP and INT: whether the service exits on them is ChildExit.       *)
OtherSignal ==
  /\ \E ch \in {"a", "h", "i"} : Read(ch)
  /\ pc' = "top"
  /\ UNCHANGED <<ret, flags, flagpaused, pid, status, stale, pending, selfpipe,
                 kernel, bounds>>

(* Mutant: kill(0,SIGTERM) while the service is down.                       *)
Term_NoTest ==
  /\ Read("t")
  /\ termed' = termed \cup {pid}
  /\ pc' = "top"
  /\ UNCHANGED <<ret, flags, flagpaused, pid, status, stale, pending, selfpipe,
                 proc, orphans, bounds>>

Term ==
  /\ Read("t")
  /\ termed' = IF pid # NoPid THEN termed \cup {pid} ELSE termed
  /\ pc' = "top"
  /\ UNCHANGED <<ret, flags, flagpaused, pid, status, stale, pending, selfpipe,
                 proc, orphans, bounds>>

KillRun ==
  /\ Read("k")
  /\ IF pid # NoPid THEN Kill(pid) ELSE UNCHANGED <<proc, pending>>
  /\ pc' = "top"
  /\ UNCHANGED <<ret, flags, flagpaused, pid, status, stale, selfpipe, orphans,
                 termed, bounds>>

Pause ==
  /\ Read("p")
  /\ flagpaused' = TRUE
  /\ announce(pid, TRUE, flagwant, flagwantup)
  /\ IF pid # NoPid THEN Stop(pid) ELSE UNCHANGED <<proc, pending>>
  /\ pc' = "top"
  /\ UNCHANGED <<ret, flags, pid, selfpipe, orphans, termed, bounds>>

Cont ==
  /\ Read("c")
  /\ flagpaused' = FALSE
  /\ announce(pid, FALSE, flagwant, flagwantup)
  /\ SendCont
  /\ pc' = "top"
  /\ UNCHANGED <<ret, flags, pid, selfpipe, orphans, termed, bounds>>

Exit ==
  /\ Read("x")
  /\ flagexit' = TRUE
  /\ announce(pid, flagpaused, flagwant, flagwantup)
  /\ pc' = "top"
  /\ UNCHANGED <<ret, flagwant, flagwantup, flagpaused, pid, pending, selfpipe,
                 kernel, bounds>>

(* main(): announce(); _exit(0).  The FIFO loses its last reader.           *)
Leave ==
  /\ pc = "leave"
  /\ announce(pid, flagpaused, flagwant, flagwantup)
  /\ pc' = "left"
  /\ control' = <<>>
  /\ UNCHANGED <<ret, flags, flagpaused, pid, pending, selfpipe, kernel, bounds>>

-----------------------------------------------------------------------------
(* The environment.                                                         *)

(* svc opens the FIFO, which needs its reader, and writes its commands with *)
(* one blocking write.                                                      *)
Svc(line) ==
  /\ Supervising /\ pc # "boot"
  /\ Len(control) + Len(line) <= MaxFifo
  /\ control' = control \o line
  /\ UNCHANGED <<pc, ret, flags, flagpaused, pid, status, stale, pending, selfpipe,
                 kernel, bounds>>

(* A running ./run exits; an orphan is reaped by init.                      *)
ChildExit(p) ==
  /\ proc[p] = "running"
  /\ IF p \in orphans
       THEN proc' = [proc EXCEPT ![p] = "free"] /\ orphans' = orphans \ {p}
            /\ termed' = termed \ {p} /\ UNCHANGED pending
       ELSE proc' = [proc EXCEPT ![p] = "zombie"] /\ pending' = TRUE
            /\ UNCHANGED <<orphans, termed>>
  /\ UNCHANGED <<pc, ret, flags, flagpaused, pid, status, stale, control, selfpipe,
                 bounds>>

(* SIGKILL of supervise: ./run lives on as an orphan, a zombie goes to init *)
(* and the FIFO loses its contents.                                         *)
Crash ==
  /\ Supervising
  /\ crashes < MaxCrashes
  /\ crashes' = crashes + 1
  /\ pc' = "dead"
  /\ control' = <<>>
  /\ orphans' = orphans \cup (Children \ Zombies)
  /\ proc' = [p \in Pids |-> IF p \in Zombies THEN "free" ELSE proc[p]]
  /\ termed' = termed \ Zombies
  /\ UNCHANGED <<ret, flags, flagpaused, pid, status, stale, pending, selfpipe,
                 forkFails>>

(* svscan starts a new supervise: every variable of the process is new.     *)
Respawn ==
  /\ ~Supervising
  /\ pc' = "boot" /\ ret' = "doit"
  /\ flagexit' = FALSE /\ flagwant' = TRUE /\ flagwantup' = TRUE
  /\ flagpaused' = FALSE /\ pid' = NoPid
  /\ pending' = FALSE /\ selfpipe' = FALSE /\ stale' = TRUE
  /\ UNCHANGED <<status, control, kernel, bounds>>

Init ==
  /\ pc = "boot" /\ ret = "doit"
  /\ flagexit = FALSE /\ flagwant = TRUE /\ flagwantup = TRUE
  /\ flagpaused = FALSE /\ pid = NoPid
  /\ status = Report(NoPid, FALSE, TRUE, TRUE) /\ stale = TRUE
  /\ control = <<>> /\ pending = FALSE /\ selfpipe = FALSE
  /\ proc = [p \in Pids |-> "free"] /\ orphans = {} /\ termed = {}
  /\ forkFails = 0 /\ crashes = 0

Start == (\E p \in Pids : Forked(p)) \/ ForkFailed

Command == Down \/ Up \/ Once \/ OtherSignal \/ Term \/ KillRun \/ Pause \/ Cont \/ Exit

(* The steps supervise and the kernel take by themselves.                   *)
Step ==
  \/ Boot \/ FirstAnnounce \/ OpenOk \/ EnterLoop
  \/ Start
  \/ LoopTop \/ trigger \/ Polled
  \/ ReapRun \/ ReapNone
  \/ Command \/ NoCommand
  \/ Leave

Environment ==
  \/ TimedOut
  \/ \E line \in CommandLines : Svc(line)
  \/ \E p \in Pids : ChildExit(p)
  \/ DieAtStart \/ Crash \/ Respawn

Next == Step \/ Environment

Spec == Init /\ [][Next]_vars

(* The processor runs supervise; a service that was sent TERM and is not    *)
(* stopped exits in the end.  Nothing is promised about timeouts, svc, other *)
(* exits, crashes or svscan.                                                *)
Fairness ==
  /\ WF_vars(Step)
  /\ \A p \in Pids : WF_vars(p \in termed /\ ChildExit(p))

LiveSpec == Spec /\ Fairness

-----------------------------------------------------------------------------
TypeOK ==
  /\ pc \in PC
  /\ ret \in {"doit", "control", "top"}
  /\ flagexit \in BOOLEAN /\ flagwant \in BOOLEAN /\ flagwantup \in BOOLEAN
  /\ flagpaused \in BOOLEAN
  /\ pid \in Pids \cup {NoPid}
  /\ status \in Reports
  /\ stale \in BOOLEAN
  /\ control \in Seq(Commands)
  /\ pending \in BOOLEAN /\ selfpipe \in BOOLEAN
  /\ proc \in [Pids -> ProcStates]
  /\ orphans \subseteq Pids
  /\ termed \subseteq Pids
  /\ forkFails \in Nat /\ crashes \in Nat

(* The variable pid names exactly the child that is not yet reaped: there   *)
(* is never a second ./run of this supervise, a child is never forgotten,   *)
(* and a kill() never goes to a recycled pid.                               *)
PidTracksChild == Supervising => Children = {pid} \ {NoPid}

(* No lost wakeup: when the loop polls and ./run is dead, SIGCHLD is about  *)
(* to be delivered or the self-pipe is readable.                            *)
WakeupPending == pc = "wait" /\ Zombies # {} => pending \/ selfpipe

(* While supervise/ok is open, and after an orderly exit, the status file    *)
(* tells the present state and wish, never those of an earlier moment or of *)
(* a supervise that died, unless the last announce() could not replace it.  *)
StatusFresh ==
  (OkOpen \/ pc = "left") /\ ~stale
    => status = Report(pid, flagpaused, flagwant, flagwantup)

(* flagpaused, shown by svstat, is right about a live ./run, through pauses *)
(* while it is down, restarts, and the CONT that "d" sends.                 *)
PausedTracksStopped ==
  Supervising /\ pid # NoPid /\ proc[pid] # "zombie"
    => (flagpaused <=> proc[pid] = "stopped")

(* A ./run that is to go down was sent TERM: no order of svc commands, exits *)
(* and restarts leaves it running without having been told.                 *)
DownWasTermed ==
  Supervising /\ ~WantRunning /\ pid # NoPid => pid \in termed

(* What the flags say is so: of the process, and to it.                     *)
FlagsTrue == TypeOK /\ PausedTracksStopped /\ DownWasTermed

(* "x" is final: once it is read ./run is not started again.                *)
NoStartAfterExit == [][flagexit /\ flagexit' => Children' \subseteq Children]_vars

(* While "u" is wanted a service that is down is started.                   *)
Restarts ==
  (Supervising /\ flagwant /\ flagwantup /\ pid = NoPid)
    ~> (pid # NoPid \/ ~(flagwant /\ flagwantup) \/ ~Supervising)

(* "d" takes the service down unless it is paused or another want arrives.  *)
DownGoesDown ==
  (Supervising /\ ~WantRunning) ~> 
    (pid = NoPid \/ flagpaused \/ WantRunning \/ ~Supervising)

(* After "x", supervise is gone once the service is down.                   *)
ExitsWhenDown == (flagexit /\ pid = NoPid) ~> ~Supervising
==============================================================================
