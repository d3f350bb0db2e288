-------------------------------- MODULE Ptyio --------------------------------
(***************************************************************************)
(* ptyio(1) with ptyspawn(1) as its subprogram and a program under it:      *)
(* source/ptyio.c, source/ptyspawn.c, source/sig_dfl.c, source/ttymodes.c.  *)
(* ptyio copies descriptor 0 to the pty and the pty to descriptor 1;        *)
(* ptyspawn tells it, with a byte on descriptor 9, that the program has     *)
(* stopped; with -t (flagtty) ptyio then stops itself, and a shell goes on  *)
(* with it in the foreground or in the background.                          *)
(***************************************************************************)
EXTENDS Integers, Sequences, FiniteSets, FiniteSetsExt

CONSTANTS
  Input, Output,            \* the tokens of the standard input; of the program
  SIZE,                     \* of the buffers (1024)
  CAPACITY,                 \* of the pty in each direction
  MaxStops, None
VARIABLE s

At(pc) == s.prog = "ptyio" /\ s.pc = pc

(* mode is that of the terminal, fg whether ptyio has it.  program is "run",*)
(* "stopped" (seen by ptyspawn or not) or the exit code; spawn the same.    *)
Init ==
  \E flagtty, fg \in BOOLEAN :
    s = [prog |-> "ptyio", pc |-> IF flagtty THEN "start" ELSE "loop", flagtty |-> flagtty, fg |-> fg, mode |-> "own",
         input |-> Input, bufin |-> <<>>, bufout |-> <<>>, outok |-> TRUE, written |-> <<>>,
         flagptyrok |-> TRUE, flagptywok |-> TRUE, flagreading |-> TRUE, flagwriting |-> TRUE, flageof9 |-> FALSE,
         slave |-> <<>>, master |-> <<>>, nine |-> 0, cont |-> FALSE, stops |-> 0, seen |-> FALSE,
         program |-> "run", todo |-> Output, wrote |-> <<>>, spawn |-> "run", exit |-> None]

(* ttymodes_set(): in the background SIGTTOU stops a process that has it not *)
(* blocked, until somebody continues it, and it is tried again.             *)
Set(mode, blocked, pc) == IF s.fg \/ blocked THEN [s EXCEPT !.mode = mode, !.pc = pc] ELSE [s EXCEPT !.pc = IF @ = "start" THEN "start_ttou" ELSE "resume_ttou"]
Start == At("start") /\ s' = Set("raw", FALSE, "loop")

Looping == At("loop") /\ ((s.flagptyrok /\ s.flagwriting) \/ ~s.flageof9)

ReadInput ==
  /\ Looping /\ s.flagreading /\ s.flagptywok /\ s.bufin = <<>>
  /\ \/ \E n \in 1..Min({SIZE, Len(s.input)}) : s' = [s EXCEPT !.bufin = SubSeq(s.input, 1, n), !.input = SubSeq(@, n + 1, Len(@))]
     \/ s' = [s EXCEPT !.flagreading = FALSE]
WritePty ==
  /\ Looping /\ s.flagptywok /\ s.bufin # <<>>
  /\ \/ \E n \in 1..Min({Len(s.bufin), CAPACITY - Len(s.slave)}) :
          s' = [s EXCEPT !.slave = @ \o SubSeq(s.bufin, 1, n), !.bufin = SubSeq(@, n + 1, Len(@))]
     \/ s' = [s EXCEPT !.flagptywok = FALSE]

(* The master has no end while ptyio, ptyspawn or the program has the slave. *)
SlaveHeld == ~s.flageof9 \/ s.spawn = "run" \/ s.program \in {"run", "stopped"}
Took(n) == s' = [s EXCEPT !.bufout = SubSeq(s.master, 1, n), !.master = SubSeq(@, n + 1, Len(@))]
(* Mutant: reads more while something is still to be written.               *)
ReadPty_Early ==
  /\ Looping /\ s.flagptyrok /\ s.flagwriting
  /\ \/ \E n \in 1..Min({SIZE, Len(s.master)}) : Took(n)
     \/ s.master = <<>> /\ ~SlaveHeld /\ s' = [s EXCEPT !.flagptyrok = FALSE]
ReadPty ==
  /\ Looping /\ s.flagptyrok /\ s.flagwriting /\ s.bufout = <<>>
  /\ \/ \E n \in 1..Min({SIZE, Len(s.master)}) : Took(n)
     \/ s.master = <<>> /\ ~SlaveHeld /\ s' = [s EXCEPT !.flagptyrok = FALSE]
(* SIGPIPE is sent to ptyspawn, which ignores it.                           *)
WriteOutput ==
  /\ Looping /\ s.flagwriting /\ s.bufout # <<>>
  /\ \/ s.outok /\ \E n \in 1..Len(s.bufout) : s' = [s EXCEPT !.written = @ \o SubSeq(s.bufout, 1, n), !.bufout = SubSeq(@, n + 1, Len(@))]
     \/ ~s.outok /\ s' = [s EXCEPT !.flagwriting = FALSE]

(* sig_dfl() with the signal that was read; the terminal is put back before. *)
Byte ==
  /\ Looping /\ ~s.flageof9 /\ s.nine > 0
  /\ s' = IF s.flagtty THEN [s EXCEPT !.nine = @ - 1, !.mode = "own", !.pc = "stopped"] ELSE [s EXCEPT !.nine = @ - 1, !.cont = TRUE]
Resume == At("resume") /\ s' = [Set("raw", FALSE, "loop") EXCEPT !.cont = s.fg]
Eof9 == Looping /\ ~s.flageof9 /\ s.nine = 0 /\ s.spawn # "run" /\ s' = [s EXCEPT !.flageof9 = TRUE]
Crashed(code) == IF code = "crash" THEN "111" ELSE code
End ==
  /\ At("loop") /\ ~Looping /\ s.spawn # "run"
  /\ s' = [s EXCEPT !.pc = "exit", !.exit = Crashed(s.spawn), !.mode = "own"]

-----------------------------------------------------------------------------
(* The loop of ptyspawn, and its handler of SIGCONT.                        *)
Report == s.prog = "ptyio" /\ s.spawn = "run" /\ s.program = "stopped" /\ ~s.seen /\ s' = [s EXCEPT !.seen = TRUE, !.nine = @ + 1]
sigcont == s.prog = "ptyio" /\ s.spawn = "run" /\ s.cont /\ s' = [s EXCEPT !.cont = FALSE, !.program = IF @ = "stopped" THEN "run" ELSE @]
SpawnExit == s.prog = "ptyio" /\ s.spawn = "run" /\ s.program \notin {"run", "stopped"} /\ s' = [s EXCEPT !.spawn = Crashed(s.program)]

Forked == s.prog = "ptyio" /\ s.pc \notin {"start", "start_ttou"}
Write ==
  /\ Forked /\ s.program = "run" /\ s.todo # <<>> /\ Len(s.master) < CAPACITY
  /\ s' = [s EXCEPT !.master = Append(@, Head(s.todo)), !.wrote = Append(@, Head(s.todo)), !.todo = Tail(@)]
Read == Forked /\ s.program = "run" /\ s.slave # <<>> /\ s' = [s EXCEPT !.slave = Tail(@)]
Stop == Forked /\ s.program = "run" /\ s.stops < MaxStops /\ s' = [s EXCEPT !.program = "stopped", !.stops = @ + 1, !.seen = FALSE]
(* Another process may continue the program.                                *)
Outsider == s.prog = "ptyio" /\ s.program = "stopped" /\ s' = [s EXCEPT !.program = "run"]
Exit == Forked /\ s.program = "run" /\ \E code \in {"0", "crash"} : s' = [s EXCEPT !.program = code]
CloseOutput == Forked /\ s.outok /\ s' = [s EXCEPT !.outok = FALSE]
Shell ==
  /\ s.prog = "ptyio" /\ s.pc \in {"stopped", "start_ttou", "resume_ttou"}
  /\ \E fg \in BOOLEAN : s' = [s EXCEPT !.fg = fg, !.pc = IF @ = "start_ttou" THEN "start" ELSE "resume"]

Next ==
  \/ Start \/ ReadInput \/ WritePty \/ ReadPty \/ WriteOutput \/ Byte \/ Resume \/ Eof9 \/ End
  \/ Report \/ sigcont \/ SpawnExit
  \/ Write \/ Read \/ Stop \/ Outsider \/ Exit \/ CloseOutput \/ Shell

(* What the program writes is written, in its order, and all of it when      *)
(* ptyio exits, as long as it can be written; ptyio exits as the program    *)
(* did.  A program that has stopped will be continued: its stop is still to  *)
(* be reported, is on its way, or is being answered.  With -t the terminal   *)
(* is in its own mode whenever ptyio is stopped or has exited, and is not    *)
(* taken while another has it; and a program that waits for room in the pty *)
(* is waited for only if output has failed.                                 *)
Attended ==
  s.prog = "ptyio" =>
    /\ s.written \o s.bufout \o s.master = s.wrote
    /\ s.pc = "exit" => (s.flagwriting => s.written = s.wrote) /\ s.exit = Crashed(s.program)
    /\ s.program = "stopped" => ~s.seen \/ s.nine > 0 \/ s.cont \/ s.pc \in {"stopped", "resume", "resume_ttou"}
    /\ s.mode = "raw" => s.fg /\ s.pc = "loop"
    /\ s.spawn = "run" /\ ~(s.flagptyrok /\ s.flagwriting) => ~s.outok
=============================================================================
