------------------------------ MODULE Multilog ------------------------------
(***************************************************************************)
(* multilog(8), source/multilog.c: one automatically rotated log, from      *)
(* standard input through the line and output buffers to the files of the   *)
(* directory, with rotation, the processor, the signals TERM and ALRM, and  *)
(* the recovery in restart().                                               *)
(*                                                                         *)
(* The input is the tokens 1 .. Input; those in Newlines are line feeds.    *)
(* Each system call on the directory is a step, but for those between which *)
(* restart() could not tell a difference: a new current and the modes of    *)
(* current and previous (OpenCurrent, Create, Resume), the files that the   *)
(* processor opens (StartProcessor), the removal of state and newstate      *)
(* (ForgetState).                                                           *)
(* multilog is killed, or the machine goes down, between any two steps.     *)
(* Directory operations last; data that is not synced may be lost.  A call  *)
(* that fails is tried again after a pause, which is a stuttering step.     *)
(***************************************************************************)
EXTENDS Naturals, Sequences, FiniteSets

CONSTANTS
  Input, Newlines,
  InBuf, MaxLine, OutBuf,  \* sizes of inbuf (1024), line (1000) and d->buf (512)
  Size, Slack, Num,        \* d->size, the 2000 of c_write(), d->num
  Processors,              \* whether d->processor is set: a set of Booleans
  MaxCrashes, MaxSignals, MaxFails  \* bounds on kills, signals and failing runs

ASSUME MultilogAssumption ==
  /\ Input \in Nat /\ Newlines \subseteq 1 .. Input
  /\ InBuf \in Nat \ {0} /\ MaxLine \in Nat \ {0} /\ OutBuf \in Nat \ {0}
  /\ Slack \in Nat /\ Size \in Nat /\ Slack < Size
  /\ Num \in Nat /\ 2 <= Num
  /\ Processors \subseteq BOOLEAN
  /\ MaxCrashes \in Nat /\ MaxSignals \in Nat /\ MaxFails \in Nat

VARIABLES
  pc,
  ret, back,  \* where the write loop and fullcurrent() return to
  fin,        \* the arguments of finish(), and where it returns to
  dir,        \* the directory
  mem,        \* the memory of multilog
  taken,      \* how much of the input is read
  sigs,       \* pending signals
  log,        \* history: the fate of the tokens
  bound,      \* how many crashes, signals and failures there were
  processor   \* whether d->processor is set

vars == <<pc, ret, back, fin, dir, mem, taken, sigs, log, bound, processor>>
call == <<ret, back, fin>>
env  == <<taken, sigs, bound, processor>>

(* The newline that doit() adds to a last line that has none.               *)
EofNewline == Input + 1
Tokens     == 1 .. EofNewline
IsNewline(t) == t \in Newlines \/ t = EofNewline

(* exec is mode 0100, linked is st_nlink = 2.                               *)
Absent == [here |-> FALSE, data |-> <<>>, synced |-> 0, exec |-> FALSE, linked |-> FALSE]
Empty  == [Absent EXCEPT !.here = TRUE]

(* state and newstate hold the last token their processor run has seen, 0   *)
(* when they are empty.                                                     *)
NoMemory ==
  [ss |-> <<>>, out |-> <<>>, todo |-> <<>>, inbuf |-> <<>>, line |-> <<>>,
   long |-> FALSE, eof |-> FALSE, flagnewline |-> TRUE, one |-> FALSE,
   flagexitasap |-> FALSE, flagforcerotate |-> FALSE, bytes |-> 0]

Elements(s) == {s[i] : i \in 1 .. Len(s)}
Smaller(a, b) == IF a < b THEN a ELSE b
Goto(p) == pc' = p /\ UNCHANGED call

-----------------------------------------------------------------------------
(* finish()                                                                 *)

Finish(file, code, next) ==
  /\ pc' = "stat" /\ fin' = [file |-> file, code |-> code, next |-> next]

Return == pc' = fin.next /\ UNCHANGED call

(* Mutant: st_nlink is not looked at.                                       *)
HasOldName_Never == FALSE

(* st_nlink # 1: a crash came between link() and unlink().                  *)
HasOldName == dir[fin.file].linked

Stat ==
  /\ pc = "stat"
  /\ IF ~dir[fin.file].here THEN Return
     ELSE Goto(IF HasOldName THEN "unlink" ELSE "link")
  /\ UNCHANGED <<dir, mem, log, env>>

LinkOld ==
  /\ pc = "link"
  /\ dir' = [dir EXCEPT ![fin.file].linked = TRUE,
               !.old = Append(@, [data |-> dir[fin.file].data,
                                  synced |-> dir[fin.file].synced, code |-> fin.code])]
  /\ Goto("unlink")
  /\ UNCHANGED <<mem, log, env>>

Unlink ==
  /\ pc = "unlink"
  /\ dir' = [dir EXCEPT ![fin.file] = Absent]
  /\ Goto("filesfit")
  /\ UNCHANGED <<mem, log, env>>

Fits == Len(dir.old) < Num

(* One call of filesfit(): the oldest file goes.                            *)
FilesFit ==
  /\ pc = "filesfit"
  /\ IF Fits THEN Return /\ UNCHANGED <<dir, log>>
     ELSE /\ dir' = [dir EXCEPT !.old = Tail(@)]
          /\ log' = [log EXCEPT !.removed = @ \cup Elements(Head(dir.old).data)]
          /\ Goto(pc)
  /\ UNCHANGED <<mem, env>>

-----------------------------------------------------------------------------
(* fullcurrent()                                                            *)

FullCurrent(next) == pc' = "fsync" /\ back' = next

(* Mutant: the file is renamed before it is on disk.                        *)
Synced_Not(file) == UNCHANGED <<dir, log>>

Synced(file) ==
  /\ dir' = [dir EXCEPT ![file].synced = Len(dir[file].data)]
  /\ log' = [log EXCEPT !.safe = @ \cup Elements(dir[file].data)]

SyncCurrent ==
  /\ pc = "fsync"
  /\ Synced("current")
  /\ Goto("rename")
  /\ UNCHANGED <<mem, env>>

RenameCurrent ==
  /\ pc = "rename"
  /\ dir' = [dir EXCEPT !.previous = dir.current, !.current = Absent]
  /\ Goto("open")
  /\ UNCHANGED <<mem, log, env>>

(* A new current, and the modes of the two files.                           *)
OpenCurrent ==
  /\ pc = "open"
  /\ dir' = [dir EXCEPT !.current = Empty, !.previous.exec = TRUE]
  /\ mem' = [mem EXCEPT !.bytes = 0]
  /\ IF processor THEN Goto("process")
     ELSE Finish("previous", "s", back) /\ UNCHANGED <<ret, back>>
  /\ UNCHANGED <<log, env>>

(* The child opens its files and becomes the processor.                     *)
StartProcessor ==
  /\ pc = "process"
  /\ dir' = [dir EXCEPT !.processed = Empty, !.newstate = 0]
  /\ Goto("processor")
  /\ UNCHANGED <<mem, log, env>>

(* It exits zero: its output is complete, though not on disk.               *)
Processed ==
  /\ pc = "processor"
  /\ LET in == dir.previous.data
     IN dir' = [dir EXCEPT !.processed.data = in,
                           !.newstate = IF in = <<>> THEN 0 ELSE in[Len(in)]]
  /\ Goto("syncprocessed")
  /\ UNCHANGED <<mem, log, env>>

(* It crashes or exits nonzero in the middle, and is run again.             *)
ProcessorFails ==
  /\ pc = "processor" /\ bound.fails < MaxFails
  /\ \E n \in 0 .. Len(dir.previous.data) :
       dir' = [dir EXCEPT !.processed.data = SubSeq(dir.previous.data, 1, n)]
  /\ bound' = [bound EXCEPT !.fails = @ + 1]
  /\ Goto("process")
  /\ UNCHANGED <<mem, log, taken, sigs, processor>>

SyncProcessed ==
  /\ pc = "syncprocessed"
  /\ Synced("processed")
  /\ Goto("markprocessed")
  /\ UNCHANGED <<mem, env>>

(* From here on restart() would go on with processed.  newstate is synced.  *)
MarkProcessed ==
  /\ pc = "markprocessed"
  /\ dir' = [dir EXCEPT !.processed.exec = TRUE]
  /\ Goto("unlinkprevious")
  /\ UNCHANGED <<mem, log, env>>

UnlinkPrevious ==
  /\ pc = "unlinkprevious"
  /\ dir' = [dir EXCEPT !.previous = Absent]
  /\ Goto("renamestate")
  /\ UNCHANGED <<mem, log, env>>

(* Mutant: the old state stays.                                             *)
NewState_Old == dir.state

NewState == dir.newstate

RenameState ==
  /\ pc = "renamestate"
  /\ dir' = [dir EXCEPT !.state = NewState, !.newstate = 0]
  /\ Finish("processed", "s", back) /\ UNCHANGED <<ret, back>>
  /\ UNCHANGED <<mem, log, env>>

-----------------------------------------------------------------------------
(* c_write() and the allwrite() that calls it                               *)

WriteAll(data, next) == pc' = "write" /\ ret' = next /\ UNCHANGED <<back, fin>>

Written ==
  /\ pc = "write" /\ mem.out = <<>>
  /\ pc' = ret
  /\ UNCHANGED <<call, dir, mem, log, env>>

WriteFull ==
  /\ pc = "write" /\ mem.out # <<>> /\ mem.bytes >= Size
  /\ FullCurrent("write") /\ UNCHANGED <<ret, fin>>
  /\ UNCHANGED <<dir, mem, log, env>>

(* The lengths c_write() may hand to write(): no more than the file has     *)
(* room for, and near the end no more than up to the last newline.          *)
WriteLen ==
  LET len  == Smaller(Len(mem.out), Size - mem.bytes)
      ends == {i \in 1 .. len : IsNewline(mem.out[i])}
  IN IF mem.bytes + len >= Size - Slack /\ ends # {}
     THEN CHOOSE i \in ends : \A j \in ends : j <= i ELSE len

(* write() takes w bytes, perhaps fewer than it was given.                  *)
Write ==
  /\ pc = "write" /\ mem.out # <<>> /\ mem.bytes < Size
  /\ \E w \in 1 .. WriteLen :
       /\ dir' = [dir EXCEPT !.current.data = @ \o SubSeq(mem.out, 1, w)]
       /\ mem' = [mem EXCEPT !.bytes = @ + w, !.out = SubSeq(@, w + 1, Len(@))]
       /\ log' = [log EXCEPT !.written = @ \cup {mem.out[i] : i \in 1 .. w}]
       /\ IF mem.bytes + w >= Size - Slack /\ IsNewline(mem.out[w])
          THEN FullCurrent("write") /\ UNCHANGED <<ret, fin>> ELSE Goto("write")
  /\ UNCHANGED env

-----------------------------------------------------------------------------
(* doit()                                                                   *)

(* buffer_put() of the chunks that are to be put.                           *)
Put ==
  /\ pc = "put" /\ mem.todo # <<>>
  /\ LET chunk == Head(mem.todo)
     IN IF Len(chunk) <= OutBuf - Len(mem.ss)
        THEN /\ mem' = [mem EXCEPT !.ss = @ \o chunk, !.todo = Tail(@)]
             /\ Goto("put")
        ELSE /\ IF mem.ss # <<>>
                THEN mem' = [mem EXCEPT !.out = mem.ss, !.ss = <<>>]
                ELSE mem' = [mem EXCEPT !.out = chunk, !.todo = Tail(@)]
             /\ WriteAll(mem'.out, "put")
  /\ UNCHANGED <<dir, log, env>>

PutAll ==
  /\ pc = "put" /\ mem.todo = <<>>
  /\ Goto(IF mem.eof THEN "quit" ELSE "doit")
  /\ UNCHANGED <<dir, mem, log, env>>

(* One character of the input.                                              *)
GetChar ==
  /\ pc = "doit" /\ mem.inbuf # <<>>
  /\ LET ch   == Head(mem.inbuf)
         rest == [mem EXCEPT !.inbuf = Tail(@)]
         more == Append(mem.line, ch)
     IN \/ /\ mem.long
           /\ mem' = [rest EXCEPT !.todo = <<<<ch>>>>, !.long = ~IsNewline(ch)]
           /\ Goto("put")
        \/ /\ ~mem.long /\ IsNewline(ch)
           /\ mem' = [rest EXCEPT !.todo = <<mem.line, <<ch>>>>, !.line = <<>>]
           /\ Goto("put")
        \/ /\ ~mem.long /\ ~IsNewline(ch) /\ Len(more) < MaxLine
           /\ mem' = [rest EXCEPT !.line = more]
           /\ Goto("doit")
        \/ /\ ~mem.long /\ ~IsNewline(ch) /\ Len(more) = MaxLine
           /\ mem' = [rest EXCEPT !.todo = <<more>>, !.line = <<>>, !.long = TRUE]
           /\ Goto("put")
  /\ UNCHANGED <<dir, log, env>>

(* Mutant: flushread() does not flush.                                      *)
Flushed_Not == [mem EXCEPT !.out = <<>>]

Flushed == [mem EXCEPT !.out = mem.ss, !.ss = <<>>]

(* inbuf is empty: flushread().                                             *)
Flush ==
  /\ pc = "doit" /\ mem.inbuf = <<>>
  /\ mem' = Flushed
  /\ WriteAll(mem'.out, "forcerotate")
  /\ UNCHANGED <<dir, log, env>>

ForceRotate ==
  /\ pc = "forcerotate"
  /\ mem' = [mem EXCEPT !.flagforcerotate = FALSE]
  /\ IF mem.flagforcerotate /\ mem.bytes > 0
     THEN FullCurrent("exitasap") /\ UNCHANGED <<ret, fin>>
     ELSE Goto("exitasap")
  /\ UNCHANGED <<dir, log, env>>

(* doit() sees the end of its input.                                        *)
EndOfInput(m) ==
  IF m.line = <<>> /\ ~m.long
  THEN mem' = m /\ Goto("quit")
  ELSE /\ mem' = [m EXCEPT !.todo = <<m.line, <<EofNewline>>>>, !.line = <<>>,
                           !.long = FALSE, !.eof = TRUE]
       /\ Goto("put")

(* Mutant: multilog exits in the middle of a line.                          *)
ExitNow_MidLine == mem.flagexitasap

ExitNow == mem.flagexitasap /\ mem.flagnewline

ExitAsap ==
  /\ pc = "exitasap"
  /\ IF ExitNow THEN EndOfInput(mem)
     ELSE mem' = [mem EXCEPT !.one = mem.flagexitasap] /\ Goto("unblock")
  /\ UNCHANGED <<dir, log, env>>

Handled(m) ==
  [m EXCEPT !.flagexitasap = @ \/ "TERM" \in sigs,
            !.flagforcerotate = @ \/ "ALRM" \in sigs]

(* Signals that came while they were blocked are handled now, before read().*)
Unblock ==
  /\ pc = "unblock"
  /\ mem' = Handled(mem) /\ sigs' = {}
  /\ Goto("read")
  /\ UNCHANGED <<dir, log, taken, bound, processor>>

(* A signal may also come after read() and before it is blocked again.      *)
Read ==
  /\ pc = "read"
  /\ \E n \in 1 .. IF mem.one THEN 1 ELSE InBuf :
       /\ taken + n <= Input
       /\ taken' = taken + n
       /\ mem' = Handled([mem EXCEPT !.inbuf = [i \in 1 .. n |-> taken + i],
                                     !.flagnewline = IsNewline(taken + n)])
  /\ sigs' = {}
  /\ Goto("doit")
  /\ UNCHANGED <<dir, log, bound, processor>>

ReadEof ==
  /\ pc = "read" /\ taken = Input
  /\ EndOfInput(Handled(mem)) /\ sigs' = {}
  /\ UNCHANGED <<dir, log, taken, bound, processor>>

(* read() is interrupted, and flushread() called again.                     *)
Interrupted ==
  /\ pc = "read" /\ sigs # {}
  /\ mem' = Handled(mem) /\ sigs' = {}
  /\ Goto("doit")
  /\ UNCHANGED <<dir, log, taken, bound, processor>>

Quit ==
  /\ pc = "quit"
  /\ mem' = [mem EXCEPT !.out = mem.ss, !.ss = <<>>]
  /\ WriteAll(mem'.out, "syncquit")
  /\ UNCHANGED <<dir, log, env>>

SyncQuit ==
  /\ pc = "syncquit"
  /\ Synced("current")
  /\ Goto("markquit")
  /\ UNCHANGED <<mem, env>>

MarkQuit ==
  /\ pc = "markquit"
  /\ dir' = [dir EXCEPT !.current.exec = TRUE]
  /\ mem' = NoMemory /\ sigs' = {}
  /\ Goto("gone")
  /\ UNCHANGED <<log, taken, bound, processor>>

-----------------------------------------------------------------------------
(* restart()                                                                *)

Resumable == dir.current.here /\ dir.current.exec

Resume ==
  /\ pc = "gone" /\ Resumable
  /\ dir' = [dir EXCEPT !.current.exec = FALSE]
  /\ mem' = [mem EXCEPT !.bytes = Len(dir.current.data)]
  /\ Goto("doit")
  /\ UNCHANGED <<log, env>>

ForgetState ==
  /\ pc = "gone" /\ ~Resumable
  /\ dir' = [dir EXCEPT !.state = 0, !.newstate = 0]
  /\ Goto("recover")
  /\ UNCHANGED <<mem, log, env>>

(* Mutant: any processed file is taken for complete.                        *)
FlagProcessed_Any == dir.processed.here

FlagProcessed == dir.processed.here /\ dir.processed.exec

Recover ==
  /\ pc = "recover"
  /\ IF FlagProcessed
     THEN /\ dir' = [dir EXCEPT !.previous = Absent]
          /\ Finish("processed", "s", "finishcurrent")
     ELSE /\ dir' = [dir EXCEPT !.processed = Absent]
          /\ Finish("previous", "u", "finishcurrent")
  /\ UNCHANGED <<ret, back, mem, log, env>>

FinishCurrent ==
  /\ pc = "finishcurrent"
  /\ Finish("current", "u", "create")
  /\ UNCHANGED <<ret, back, dir, mem, log, env>>

Create ==
  /\ pc = "create"
  /\ dir' = [dir EXCEPT !.current = Empty]
  /\ mem' = [mem EXCEPT !.bytes = 0]
  /\ Goto("doit")
  /\ UNCHANGED <<log, env>>

-----------------------------------------------------------------------------
(* The world                                                                *)

Running == pc # "gone"

Signal(s) ==
  /\ Running /\ bound.signals < MaxSignals /\ s \notin sigs
  /\ sigs' = sigs \cup {s}
  /\ bound' = [bound EXCEPT !.signals = @ + 1]
  /\ UNCHANGED <<pc, call, dir, mem, taken, log, processor>>

(* What is in memory and in no file.                                        *)
Held ==
  Elements(mem.ss) \cup Elements(mem.out) \cup Elements(mem.line)
    \cup Elements(mem.inbuf) \cup UNION {Elements(c) : c \in Elements(mem.todo)}

Stops ==
  /\ bound.crashes < MaxCrashes
  /\ bound' = [bound EXCEPT !.crashes = @ + 1]
  /\ mem' = NoMemory /\ sigs' = {}
  /\ Goto("gone")
  /\ UNCHANGED <<taken, processor>>

Kill ==
  /\ Running /\ Stops
  /\ log' = [log EXCEPT !.lost = @ \cup Held]
  /\ UNCHANGED dir

(* The machine goes down, and with it everything that is not on disk.       *)
AfterOutage(file) == [file EXCEPT !.data = SubSeq(@, 1, file.synced)]

Outage ==
  /\ Stops
  /\ dir' = [dir EXCEPT !.current = AfterOutage(@), !.previous = AfterOutage(@),
                        !.processed = AfterOutage(@),
                        !.old = [i \in 1 .. Len(@) |-> AfterOutage(@[i])]]
  /\ log' = [log EXCEPT !.lost = @ \cup Held \cup (log.written \ log.safe),
                        !.written = log.safe]

Init ==
  /\ pc = "gone" /\ ret = "doit" /\ back = "write"
  /\ fin = [file |-> "current", code |-> "u", next |-> "create"]
  /\ dir = [current |-> Absent, previous |-> Absent, processed |-> Absent,
            old |-> <<>>, state |-> 0, newstate |-> 0]
  /\ mem = NoMemory /\ taken = 0 /\ sigs = {}
  /\ log = [written |-> {}, safe |-> {}, lost |-> {}, removed |-> {}]
  /\ bound = [crashes |-> 0, signals |-> 0, fails |-> 0]
  /\ processor \in Processors

FinishSteps == Stat \/ LinkOld \/ Unlink \/ FilesFit

Rotation ==
  \/ SyncCurrent \/ RenameCurrent \/ OpenCurrent
  \/ StartProcessor \/ Processed \/ ProcessorFails
  \/ SyncProcessed \/ MarkProcessed \/ UnlinkPrevious \/ RenameState

Writing == Written \/ WriteFull \/ Write

Doit ==
  \/ Put \/ PutAll \/ GetChar
  \/ Flush \/ ForceRotate \/ ExitAsap \/ Unblock \/ Interrupted
  \/ Quit \/ SyncQuit \/ MarkQuit

Restart == Resume \/ ForgetState \/ Recover \/ FinishCurrent \/ Create

Multilog == FinishSteps \/ Rotation \/ Writing \/ Doit \/ Restart

World == Read \/ ReadEof \/ Kill \/ Outage \/ \E s \in {"TERM", "ALRM"} : Signal(s)

Next == Multilog \/ World

Spec == Init /\ [][Next]_vars

(* Calls that fail come to succeed, a processor that fails succeeds in the   *)
(* end (MaxFails), supervise starts multilog again.  Input may never come.  *)
LiveSpec == Spec /\ WF_vars(Multilog)

-----------------------------------------------------------------------------
Files == {"current", "previous", "processed"}
File  == [here : BOOLEAN, data : Seq(Tokens), synced : Nat, exec : BOOLEAN, linked : BOOLEAN]
Old   == [data : Seq(Tokens), synced : Nat, code : {"s", "u"}]

TypeOK ==
  /\ \A f \in Files : dir[f] \in File /\ dir[f].synced <= Len(dir[f].data)
  /\ dir.old \in Seq(Old) /\ \A i \in 1 .. Len(dir.old) : dir.old[i].synced <= Len(dir.old[i].data)
  /\ {dir.state, dir.newstate} \subseteq 0 .. EofNewline
  /\ Held \subseteq Tokens /\ Len(mem.ss) <= OutBuf /\ Len(mem.line) < MaxLine
  /\ mem.bytes \in 0 .. Size
  /\ taken \in 0 .. Input
  /\ sigs \subseteq {"TERM", "ALRM"}
  /\ \A s \in {log.written, log.safe, log.lost, log.removed} : s \subseteq Tokens

(* The log as a reader puts it together: the old files, the file that is on *)
(* its way to become one, and current.                                      *)
Middle ==
  IF dir.processed.exec
  THEN IF dir.processed.linked THEN <<>> ELSE <<dir.processed.data>>
  ELSE IF dir.previous.linked THEN <<>> ELSE <<dir.previous.data>>
Parts ==
  [i \in 1 .. Len(dir.old) |-> dir.old[i].data] \o Middle
    \o (IF dir.current.linked THEN <<>> ELSE <<dir.current.data>>)
OnDisk == UNION {Elements(p) : p \in Elements(Parts)}

(* "tries again, without losing any data": what was written stays in the    *)
(* log until its file is the oldest of too many; only an outage may take    *)
(* it, and not what was synced.                                             *)
Kept ==
  /\ log.written \cup log.safe \subseteq OnDisk \cup log.removed
  /\ \A r \in log.removed, d \in OnDisk : r < d

(* Every token is in the log at most once and in the order of the input,    *)
(* across rotations, processor runs, crashes and recoveries.                *)
InOrder ==
  /\ \A p \in Elements(Parts) : \A i, j \in 1 .. Len(p) : i < j => p[i] < p[j]
  /\ \A i, j \in 1 .. Len(Parts) :
       i < j => \A a \in Elements(Parts[i]), b \in Elements(Parts[j]) : a < b

(* An old file ".s" is "completely processed and safely written to disk";   *)
(* ".u" only comes from an outage.  No file is larger than size, and one    *)
(* that was not forced ends in a newline unless it is full.  There are      *)
(* fewer than num of them, except while finish() is at work and for one     *)
(* that each crash in there may leave.                                      *)
OldFiles ==
  /\ TypeOK
  /\ \A i \in 1 .. Len(dir.old) :
       LET o == dir.old[i]
       IN /\ Len(o.data) <= Size
          /\ IF o.code = "u" THEN bound.crashes > 0
             ELSE /\ o.synced = Len(o.data) /\ o.data # <<>>
                  /\ Len(o.data) = Size \/ IsNewline(o.data[Len(o.data)]) \/ bound.signals > 0
  /\ Len(dir.old) < Num + bound.crashes + (IF pc \in {"unlink", "filesfit"} THEN 1 ELSE 0)

(* While multilog waits for input it holds no complete line back.  When it  *)
(* exits, all that it took is in the log, current is on disk, and it stops  *)
(* at the end of a line or of the input.                                    *)
NothingHeld ==
  LET missing == (1 .. taken) \ (OnDisk \cup log.removed \cup log.lost)
  IN /\ pc = "read" => missing = Elements(mem.line)
     /\ pc = "markquit" =>
          /\ missing = {} /\ Elements(dir.current.data) \subseteq log.safe
          /\ mem.flagnewline \/ taken = Input

(* The processor reads the state that its run on the preceding file left,   *)
(* or an empty one after a crash; a state is never used a second time.      *)
StateFollows ==
  pc \in {"process", "processor"} =>
    \/ dir.state = dir.previous.data[1] - 1
    \/ dir.state = 0 /\ bound.crashes > 0

(* A process that stops, and a processor that ends, hand on to the next      *)
(* what it has to go on with.                                               *)
HandedOn == NothingHeld /\ StateFollows

(* Every line that was read lands in the log, if no crash takes it.         *)
LinesLand ==
  \A t \in Newlines : (t <= taken) ~> (t \in OnDisk \cup log.removed \cup log.lost)

(* multilog.xml: "If multilog receives a TERM signal, it will read and      *)
(* process data until the next newline, and then exit, leaving stdin at the *)
(* first byte of data it has not processed."                                *)
StopsAtNewline ==
  [][mem.flagexitasap =>
       \A t \in taken + 1 .. taken' - 1 : ~IsNewline(t)]_vars
=============================================================================
