--------------------------- MODULE SuperviseProofs ---------------------------
(***************************************************************************)
(* Proofs about Supervise, for every set of pids, every set of svc command *)
(* lines and every bound.  The inductive invariant IInv adds to the        *)
(* invariants what each place of the loop knows.                           *)
(***************************************************************************)
EXTENDS Supervise, TLAPS

(* What holds of pid and the flags at each place of main() and doit().      *)
PlaceInv ==
  /\ pc \in {"boot", "announce", "ok", "start", "leave", "left"} => pid = NoPid
  /\ pc \in {"boot", "announce", "ok", "doit", "start"} => ~flagexit
  /\ pc \in {"wait", "reap", "control"} /\ flagexit => pid # NoPid
  /\ pc = "start" => WantRunning

(* A dead supervise has no children; orphans are live processes.            *)
ProcInv ==
  /\ ~Supervising => Children = {}
  /\ \A p \in orphans : Alive(p)

WakeInv == Supervising /\ Zombies # {} => pending \/ selfpipe \/ pc = "reap"

FreshInv ==
  (OkOpen \/ pc \in {"ok", "left"}) /\ ~stale
    => status = Report(pid, flagpaused, flagwant, flagwantup)

IInv ==
  /\ TypeOK
  /\ PidTracksChild
  /\ ProcInv
  /\ PlaceInv
  /\ WakeInv
  /\ PausedTracksStopped
  /\ DownWasTermed
  /\ FreshInv

(* announce() writes a well-formed report.                                  *)
LEMMA ReportType ==
  ASSUME NEW p \in Pids \cup {NoPid}, NEW a \in BOOLEAN, NEW w \in BOOLEAN, NEW u \in BOOLEAN
  PROVE  Report(p, a, w, u) \in Reports
BY DEF Report, Reports

(* Reading a byte leaves a sequence of commands.                            *)
LEMMA ReadType ==
  ASSUME NEW ch, control \in Seq(Commands), Read(ch)
  PROVE  control' \in Seq(Commands)
BY DEF Read

(* svc appends commands.                                                    *)
LEMMA SvcType ==
  ASSUME NEW line \in CommandLines, control \in Seq(Commands), Svc(line)
  PROVE  control' \in Seq(Commands)
<1>1. line \in Seq(Commands)
  BY CommandLinesAssumption
<1>2. QED
  BY <1>1 DEF Svc

(* The initial state of a machine with no supervise on it.                  *)
LEMMA InitIInv == Init => IInv
<1> SUFFICES ASSUME Init PROVE IInv
  OBVIOUS
<1>1. TypeOK
  <2>1. status \in Reports
    BY ReportType DEF Init
  <2>2. control \in Seq(Commands)
    BY DEF Init
  <2>3. QED
    BY <2>1, <2>2 DEF Init, TypeOK, PC, ProcStates
<1>2. Children = {} /\ Zombies = {}
  BY DEF Init, Children, Zombies
<1>3. QED
  BY <1>1, <1>2, NoPidAssumption DEF Init, IInv, PidTracksChild, ProcInv, PlaceInv,
     WakeInv, PausedTracksStopped, DownWasTermed, FreshInv, Supervising, OkOpen,
     WantRunning, Alive

(* Whatever becomes of the disk, announce() leaves a report in the file.    *)
LEMMA AnnounceType ==
  ASSUME NEW p \in Pids \cup {NoPid}, NEW a \in BOOLEAN, NEW w \in BOOLEAN, NEW u \in BOOLEAN,
         TypeOK, announce(p, a, w, u)
  PROVE  status' \in Reports /\ stale' \in BOOLEAN
BY ReportType DEF announce, TypeOK

(* The steps of Next, one by one.                                           *)
LEMMA NextCases ==
  ASSUME [Next]_vars
  PROVE  \/ UNCHANGED vars
         \/ Boot \/ FirstAnnounce \/ OpenOk \/ EnterLoop
         \/ (\E p \in Pids : Forked(p)) \/ ForkFailed
         \/ LoopTop \/ trigger \/ Wakeup
         \/ ReapRun \/ ReapNone
         \/ Down \/ Up \/ Once \/ OtherSignal \/ Term \/ KillRun \/ Pause \/ Cont \/ Exit
         \/ NoCommand \/ Leave
         \/ (\E line \in CommandLines : Svc(line))
         \/ (\E p \in Pids : ChildExit(p))
         \/ DieAtStart \/ Crash \/ Respawn
BY DEF Next, Step, Environment, Start, Command, Polled, TimedOut

(* Every variable keeps its type.                                           *)
LEMMA TypeStep == TypeOK /\ [Next]_vars => TypeOK'
<1> SUFFICES ASSUME TypeOK, [Next]_vars PROVE TypeOK'
  OBVIOUS
<1> USE DEF TypeOK, PC, ProcStates, flags, kernel, bounds
<1>1. CASE UNCHANGED vars
  BY <1>1 DEF vars
<1>2. CASE Boot
  BY <1>2 DEF Boot
<1>3. CASE FirstAnnounce
  BY <1>3, ReportType DEF FirstAnnounce, announce
<1>4. CASE OpenOk
  BY <1>4 DEF OpenOk
<1>5. CASE EnterLoop
  BY <1>5, ReportType DEF EnterLoop, announce
<1>6. CASE ForkFailed
  BY <1>6 DEF ForkFailed
<1>7. CASE LoopTop
  BY <1>7 DEF LoopTop, Done
<1>8. CASE trigger
  BY <1>8 DEF trigger
<1>9. CASE Wakeup
  BY <1>9 DEF Wakeup
<1>10. CASE ReapRun
  BY <1>10, ReportType DEF ReapRun, announce, AfterExit, Zombies, Children
<1>11. CASE ReapNone
  BY <1>11 DEF ReapNone
<1>12. CASE NoCommand
  BY <1>12 DEF NoCommand
<1>13. CASE Down
  BY <1>13, ReportType, ReadType DEF Down, announce, SendCont, Continue
<1>14. CASE Up
  BY <1>14, ReportType, ReadType DEF Up, announce, IfDown
<1>15. CASE Once
  BY <1>15, ReportType, ReadType DEF Once, announce, IfDown
<1>16. CASE OtherSignal
  BY <1>16, ReadType DEF OtherSignal
<1>17. CASE Term
  BY <1>17, ReadType DEF Term
<1>18. CASE KillRun
  BY <1>18, ReadType DEF KillRun, Kill
<1>19. CASE Pause
  BY <1>19, ReportType, ReadType DEF Pause, announce, Stop
<1>20. CASE Cont
  BY <1>20, ReportType, ReadType DEF Cont, announce, SendCont, Continue
<1>21. CASE Exit
  BY <1>21, ReportType, ReadType DEF Exit, announce
<1>22. CASE Leave
  <2>1. status' \in Reports /\ stale' \in BOOLEAN
    BY <1>22, AnnounceType DEF Leave
  <2>2. control' \in Seq(Commands)
    BY <1>22 DEF Leave
  <2>3. QED
    BY <1>22, <2>1, <2>2 DEF Leave
<1>23. CASE DieAtStart
  BY <1>23 DEF DieAtStart
<1>24. CASE Crash
  BY <1>24 DEF Crash, Children, Zombies
<1>25. CASE Respawn
  BY <1>25 DEF Respawn
<1>26. CASE \E p \in Pids : Forked(p)
  <2> PICK p \in Pids : Forked(p)
    BY <1>26
  <2>1. status' \in Reports /\ stale' \in BOOLEAN
    BY AnnounceType DEF Forked
  <2>2. proc' \in [Pids -> ProcStates]
    BY DEF Forked
  <2>3. QED
    BY <2>1, <2>2 DEF Forked
<1>28. CASE \E line \in CommandLines : Svc(line)
  BY <1>28, SvcType DEF Svc
<1>29. CASE \E p \in Pids : ChildExit(p)
  <2> PICK p \in Pids : ChildExit(p)
    BY <1>29
  <2>1. proc' \in [Pids -> ProcStates]
    BY DEF ChildExit
  <2>2. pending' \in BOOLEAN /\ orphans' \subseteq Pids /\ termed' \subseteq Pids
    BY DEF ChildExit
  <2>3. QED
    BY <2>1, <2>2 DEF ChildExit
<1>30. QED
  BY <1>1, <1>2, <1>3, <1>4, <1>5, <1>6, <1>7, <1>8, <1>9, <1>10, <1>11, <1>12, <1>13, <1>14, <1>15, <1>16, <1>17, <1>18, <1>19, <1>20, <1>21, <1>22, <1>23, <1>24, <1>25, <1>26, <1>28, <1>29, NextCases

(* pid and the process table stay in step, whatever the kernel does between  *)
(* two steps of supervise.                                                  *)
LEMMA OwnStep ==
  ASSUME TypeOK, PidTracksChild, ProcInv, PlaceInv, [Next]_vars
  PROVE  PidTracksChild' /\ ProcInv' /\ PlaceInv'
<1> USE NoPidAssumption DEF TypeOK, PidTracksChild, ProcInv, PlaceInv, Supervising, Children, Zombies, Alive,
  ProcStates, PC, WantRunning, flags, kernel, bounds
<1>1. CASE UNCHANGED vars
  BY <1>1 DEF vars
<1>2. CASE Boot
  BY <1>2 DEF Boot
<1>3. CASE FirstAnnounce
  BY <1>3 DEF FirstAnnounce
<1>4. CASE OpenOk
  BY <1>4 DEF OpenOk
<1>5. CASE EnterLoop
  BY <1>5 DEF EnterLoop
<1>6. CASE ForkFailed
  BY <1>6 DEF ForkFailed
<1>7. CASE LoopTop
  BY <1>7 DEF LoopTop, Done
<1>8. CASE trigger
  BY <1>8 DEF trigger
<1>9. CASE Wakeup
  BY <1>9 DEF Wakeup
<1>10. CASE ReapRun
  BY <1>10 DEF ReapRun, AfterExit
<1>11. CASE ReapNone
  BY <1>11 DEF ReapNone
<1>12. CASE NoCommand
  BY <1>12 DEF NoCommand
<1>13. CASE Down
  BY <1>13 DEF Down, SendCont, Continue, Read
<1>14. CASE Up
  BY <1>14 DEF Up, IfDown, Read
<1>15. CASE Once
  BY <1>15 DEF Once, IfDown, Read
<1>16. CASE OtherSignal
  BY <1>16 DEF OtherSignal, Read
<1>17. CASE Term
  BY <1>17 DEF Term, Read
<1>18. CASE KillRun
  BY <1>18 DEF KillRun, Kill, Read
<1>19. CASE Pause
  BY <1>19 DEF Pause, Stop, Read
<1>20. CASE Cont
  BY <1>20 DEF Cont, SendCont, Continue, Read
<1>21. CASE Exit
  BY <1>21 DEF Exit, Read
<1>22. CASE Leave
  BY <1>22 DEF Leave
<1>23. CASE DieAtStart
  BY <1>23 DEF DieAtStart
<1>24. CASE Crash
  BY <1>24 DEF Crash
<1>25. CASE Respawn
  BY <1>25 DEF Respawn
<1>26. CASE \E p \in Pids : Forked(p)
  BY <1>26 DEF Forked
<1>28. CASE \E line \in CommandLines : Svc(line)
  BY <1>28 DEF Svc
<1>29. CASE \E p \in Pids : ChildExit(p)
  BY <1>29 DEF ChildExit
<1>30. QED
  BY <1>1, <1>2, <1>3, <1>4, <1>5, <1>6, <1>7, <1>8, <1>9, <1>10, <1>11, <1>12, <1>13, <1>14, <1>15, <1>16, <1>17, <1>18, <1>19, <1>20, <1>21, <1>22, <1>23, <1>24, <1>25, <1>26, <1>28, <1>29, NextCases

(* A dead child keeps the loop awake.                                       *)
LEMMA WakeStep ==
  ASSUME TypeOK, PidTracksChild, ProcInv, PlaceInv, WakeInv, [Next]_vars
  PROVE  WakeInv'
<1> USE NoPidAssumption DEF TypeOK, PidTracksChild, ProcInv, PlaceInv, WakeInv, Supervising, Children, Zombies, Alive,
  ProcStates, PC, flags, kernel, bounds
<1>1. CASE UNCHANGED vars
  BY <1>1 DEF vars
<1>2. CASE Boot
  BY <1>2 DEF Boot
<1>3. CASE FirstAnnounce
  BY <1>3 DEF FirstAnnounce
<1>4. CASE OpenOk
  BY <1>4 DEF OpenOk
<1>5. CASE EnterLoop
  BY <1>5 DEF EnterLoop
<1>6. CASE ForkFailed
  BY <1>6 DEF ForkFailed
<1>7. CASE LoopTop
  BY <1>7 DEF LoopTop, Done
<1>8. CASE trigger
  BY <1>8 DEF trigger
<1>9. CASE Wakeup
  BY <1>9 DEF Wakeup
<1>10. CASE ReapRun
  BY <1>10 DEF ReapRun, AfterExit
<1>11. CASE ReapNone
  BY <1>11 DEF ReapNone
<1>12. CASE NoCommand
  BY <1>12 DEF NoCommand
<1>13. CASE Down
  BY <1>13 DEF Down, SendCont, Continue, Read
<1>14. CASE Up
  BY <1>14 DEF Up, IfDown, Read
<1>15. CASE Once
  BY <1>15 DEF Once, IfDown, Read
<1>16. CASE OtherSignal
  BY <1>16 DEF OtherSignal, Read
<1>17. CASE Term
  BY <1>17 DEF Term, Read
<1>18. CASE KillRun
  BY <1>18 DEF KillRun, Kill, Read
<1>19. CASE Pause
  BY <1>19 DEF Pause, Stop, Read
<1>20. CASE Cont
  BY <1>20 DEF Cont, SendCont, Continue, Read
<1>21. CASE Exit
  BY <1>21 DEF Exit, Read
<1>22. CASE Leave
  BY <1>22 DEF Leave
<1>23. CASE DieAtStart
  BY <1>23 DEF DieAtStart
<1>24. CASE Crash
  BY <1>24 DEF Crash
<1>25. CASE Respawn
  BY <1>25 DEF Respawn
<1>26. CASE \E p \in Pids : Forked(p)
  BY <1>26 DEF Forked
<1>28. CASE \E line \in CommandLines : Svc(line)
  BY <1>28 DEF Svc
<1>29. CASE \E p \in Pids : ChildExit(p)
  BY <1>29 DEF ChildExit
<1>30. QED
  BY <1>1, <1>2, <1>3, <1>4, <1>5, <1>6, <1>7, <1>8, <1>9, <1>10, <1>11, <1>12, <1>13, <1>14, <1>15, <1>16, <1>17, <1>18, <1>19, <1>20, <1>21, <1>22, <1>23, <1>24, <1>25, <1>26, <1>28, <1>29, NextCases

(* flagpaused follows the stops and continuations of ./run.                 *)
LEMMA PausedStep ==
  ASSUME TypeOK, PidTracksChild, ProcInv, PlaceInv, PausedTracksStopped, [Next]_vars
  PROVE  PausedTracksStopped'
<1> USE NoPidAssumption DEF TypeOK, PidTracksChild, ProcInv, PlaceInv, PausedTracksStopped, Supervising,
  Children, Zombies, Alive, ProcStates, PC, flags, kernel, bounds
<1>1. CASE UNCHANGED vars
  BY <1>1 DEF vars
<1>2. CASE Boot
  BY <1>2 DEF Boot
<1>3. CASE FirstAnnounce
  BY <1>3 DEF FirstAnnounce
<1>4. CASE OpenOk
  BY <1>4 DEF OpenOk
<1>5. CASE EnterLoop
  BY <1>5 DEF EnterLoop
<1>6. CASE ForkFailed
  BY <1>6 DEF ForkFailed
<1>7. CASE LoopTop
  BY <1>7 DEF LoopTop, Done
<1>8. CASE trigger
  BY <1>8 DEF trigger
<1>9. CASE Wakeup
  BY <1>9 DEF Wakeup
<1>10. CASE ReapRun
  BY <1>10 DEF ReapRun, AfterExit
<1>11. CASE ReapNone
  BY <1>11 DEF ReapNone
<1>12. CASE NoCommand
  BY <1>12 DEF NoCommand
<1>13. CASE Down
  BY <1>13 DEF Down, SendCont, Continue, Read
<1>14. CASE Up
  BY <1>14 DEF Up, IfDown, Read
<1>15. CASE Once
  BY <1>15 DEF Once, IfDown, Read
<1>16. CASE OtherSignal
  BY <1>16 DEF OtherSignal, Read
<1>17. CASE Term
  BY <1>17 DEF Term, Read
<1>18. CASE KillRun
  BY <1>18 DEF KillRun, Kill, Read
<1>19. CASE Pause
  BY <1>19 DEF Pause, Stop, Read
<1>20. CASE Cont
  BY <1>20 DEF Cont, SendCont, Continue, Read
<1>21. CASE Exit
  BY <1>21 DEF Exit, Read
<1>22. CASE Leave
  BY <1>22 DEF Leave
<1>23. CASE DieAtStart
  BY <1>23 DEF DieAtStart
<1>24. CASE Crash
  BY <1>24 DEF Crash
<1>25. CASE Respawn
  BY <1>25 DEF Respawn
<1>26. CASE \E p \in Pids : Forked(p)
  BY <1>26 DEF Forked
<1>28. CASE \E line \in CommandLines : Svc(line)
  BY <1>28 DEF Svc
<1>29. CASE \E p \in Pids : ChildExit(p)
  BY <1>29 DEF ChildExit
<1>30. QED
  BY <1>1, <1>2, <1>3, <1>4, <1>5, <1>6, <1>7, <1>8, <1>9, <1>10, <1>11, <1>12, <1>13, <1>14, <1>15, <1>16, <1>17, <1>18, <1>19, <1>20, <1>21, <1>22, <1>23, <1>24, <1>25, <1>26, <1>28, <1>29, NextCases

(* "d" leaves no live ./run without a TERM.                                 *)
LEMMA TermedStep ==
  ASSUME TypeOK, PidTracksChild, PlaceInv, DownWasTermed, [Next]_vars
  PROVE  DownWasTermed'
<1> USE NoPidAssumption DEF TypeOK, PidTracksChild, PlaceInv, DownWasTermed, Supervising, Children, Zombies,
  WantRunning, PC, flags, kernel, bounds
<1>1. CASE UNCHANGED vars
  BY <1>1 DEF vars
<1>2. CASE Boot
  BY <1>2 DEF Boot
<1>3. CASE FirstAnnounce
  BY <1>3 DEF FirstAnnounce
<1>4. CASE OpenOk
  BY <1>4 DEF OpenOk
<1>5. CASE EnterLoop
  BY <1>5 DEF EnterLoop
<1>6. CASE ForkFailed
  BY <1>6 DEF ForkFailed
<1>7. CASE LoopTop
  BY <1>7 DEF LoopTop, Done
<1>8. CASE trigger
  BY <1>8 DEF trigger
<1>9. CASE Wakeup
  BY <1>9 DEF Wakeup
<1>10. CASE ReapRun
  BY <1>10 DEF ReapRun, AfterExit
<1>11. CASE ReapNone
  BY <1>11 DEF ReapNone
<1>12. CASE NoCommand
  BY <1>12 DEF NoCommand
<1>13. CASE Down
  BY <1>13 DEF Down, SendCont, Continue, Read
<1>14. CASE Up
  BY <1>14 DEF Up, IfDown, Read
<1>15. CASE Once
  BY <1>15 DEF Once, IfDown, Read
<1>16. CASE OtherSignal
  BY <1>16 DEF OtherSignal, Read
<1>17. CASE Term
  BY <1>17 DEF Term, Read
<1>18. CASE KillRun
  BY <1>18 DEF KillRun, Kill, Read
<1>19. CASE Pause
  BY <1>19 DEF Pause, Stop, Read
<1>20. CASE Cont
  BY <1>20 DEF Cont, SendCont, Continue, Read
<1>21. CASE Exit
  BY <1>21 DEF Exit, Read
<1>22. CASE Leave
  BY <1>22 DEF Leave
<1>23. CASE DieAtStart
  BY <1>23 DEF DieAtStart
<1>24. CASE Crash
  BY <1>24 DEF Crash
<1>25. CASE Respawn
  BY <1>25 DEF Respawn
<1>26. CASE \E p \in Pids : Forked(p)
  BY <1>26 DEF Forked
<1>28. CASE \E line \in CommandLines : Svc(line)
  BY <1>28 DEF Svc
<1>29. CASE \E p \in Pids : ChildExit(p)
  BY <1>29 DEF ChildExit
<1>30. QED
  BY <1>1, <1>2, <1>3, <1>4, <1>5, <1>6, <1>7, <1>8, <1>9, <1>10, <1>11, <1>12, <1>13, <1>14, <1>15, <1>16, <1>17, <1>18, <1>19, <1>20, <1>21, <1>22, <1>23, <1>24, <1>25, <1>26, <1>28, <1>29, NextCases

(* Every change of what svstat shows is announced in the same step.          *)
LEMMA FreshStep ==
  ASSUME TypeOK, PlaceInv, FreshInv, [Next]_vars
  PROVE  FreshInv'
<1> USE NoPidAssumption DEF TypeOK, PlaceInv, FreshInv, Supervising, OkOpen, PC, flags, kernel, bounds
<1>1. CASE UNCHANGED vars
  BY <1>1 DEF vars
<1>2. CASE Boot
  BY <1>2 DEF Boot
<1>3. CASE FirstAnnounce
  BY <1>3 DEF FirstAnnounce, announce
<1>4. CASE OpenOk
  BY <1>4 DEF OpenOk
<1>5. CASE EnterLoop
  BY <1>5 DEF EnterLoop, announce
<1>6. CASE ForkFailed
  BY <1>6 DEF ForkFailed
<1>7. CASE LoopTop
  BY <1>7 DEF LoopTop, Done
<1>8. CASE trigger
  BY <1>8 DEF trigger
<1>9. CASE Wakeup
  BY <1>9 DEF Wakeup
<1>10. CASE ReapRun
  BY <1>10 DEF ReapRun, AfterExit, announce
<1>11. CASE ReapNone
  BY <1>11 DEF ReapNone
<1>12. CASE NoCommand
  BY <1>12 DEF NoCommand
<1>13. CASE Down
  BY <1>13 DEF Down, SendCont, Continue, Read, announce
<1>14. CASE Up
  BY <1>14 DEF Up, IfDown, Read, announce
<1>15. CASE Once
  BY <1>15 DEF Once, IfDown, Read, announce
<1>16. CASE OtherSignal
  BY <1>16 DEF OtherSignal, Read
<1>17. CASE Term
  BY <1>17 DEF Term, Read
<1>18. CASE KillRun
  BY <1>18 DEF KillRun, Kill, Read
<1>19. CASE Pause
  BY <1>19 DEF Pause, Stop, Read, announce
<1>20. CASE Cont
  BY <1>20 DEF Cont, SendCont, Continue, Read, announce
<1>21. CASE Exit
  BY <1>21 DEF Exit, Read, announce
<1>22. CASE Leave
  BY <1>22 DEF Leave, announce
<1>23. CASE DieAtStart
  BY <1>23 DEF DieAtStart
<1>24. CASE Crash
  BY <1>24 DEF Crash
<1>25. CASE Respawn
  BY <1>25 DEF Respawn
<1>26. CASE \E p \in Pids : Forked(p)
  BY <1>26 DEF Forked, announce
<1>28. CASE \E line \in CommandLines : Svc(line)
  BY <1>28 DEF Svc
<1>29. CASE \E p \in Pids : ChildExit(p)
  BY <1>29 DEF ChildExit
<1>30. QED
  BY <1>1, <1>2, <1>3, <1>4, <1>5, <1>6, <1>7, <1>8, <1>9, <1>10, <1>11, <1>12, <1>13, <1>14, <1>15, <1>16, <1>17, <1>18, <1>19, <1>20, <1>21, <1>22, <1>23, <1>24, <1>25, <1>26, <1>28, <1>29, NextCases

(* The invariant is inductive.                                              *)
LEMMA StepIInv == IInv /\ [Next]_vars => IInv'
BY TypeStep, OwnStep, WakeStep, PausedStep, TermedStep, FreshStep DEF IInv

(* IInv holds in every reachable state.                                     *)
THEOREM Invariance == Spec => []IInv
BY InitIInv, StepIInv, PTL DEF Spec

(* Type correctness of Supervise.                                           *)
THEOREM TypeCorrect == Spec => []TypeOK
<1>1. IInv => TypeOK
  BY DEF IInv
<1>2. QED
  BY Invariance, <1>1, PTL

(* supervise never has two children, never forgets one and never signals a  *)
(* process that is not its own, under every interleaving of exits, svc       *)
(* commands, failed forks and crashes.                                       *)
THEOREM OneChild == Spec => []PidTracksChild
<1>1. IInv => PidTracksChild
  BY DEF IInv
<1>2. QED
  BY Invariance, <1>1, PTL

(* supervise never polls with a dead child and nothing to wake it.          *)
THEOREM NoLostWakeup == Spec => []WakeupPending
<1>1. IInv => WakeupPending
  BY DEF IInv, WakeInv, WakeupPending, Supervising
<1>2. QED
  BY Invariance, <1>1, PTL

(* svstat never reads an outdated report, but for a failed announce().      *)
THEOREM StatusIsFresh == Spec => []StatusFresh
<1>1. IInv => StatusFresh
  BY DEF IInv, FreshInv, StatusFresh
<1>2. QED
  BY Invariance, <1>1, PTL

(* "paused" is shown exactly for a stopped ./run.                           *)
THEOREM PausedIsStopped == Spec => []PausedTracksStopped
<1>1. IInv => PausedTracksStopped
  BY DEF IInv
<1>2. QED
  BY Invariance, <1>1, PTL

(* A service that is wanted down was told.                                  *)
THEOREM DownIsTermed == Spec => []DownWasTermed
<1>1. IInv => DownWasTermed
  BY DEF IInv
<1>2. QED
  BY Invariance, <1>1, PTL

(* The flags are right, all of them at once.                                *)
THEOREM FlagsAreTrue == Spec => []FlagsTrue
BY TypeCorrect, PausedIsStopped, DownIsTermed, PTL DEF FlagsTrue

(* After "x" no step adds a child.                                          *)
LEMMA ExitStep ==
  IInv /\ [Next]_vars => (flagexit /\ flagexit' => Children' \subseteq Children)
<1> SUFFICES ASSUME IInv, [Next]_vars, flagexit
             PROVE  Children' \subseteq Children
  OBVIOUS
<1> USE DEF IInv, TypeOK, PlaceInv, Children, flags, kernel, bounds
<1>1. CASE UNCHANGED vars
  BY <1>1 DEF vars
<1>2. CASE \E p \in Pids : Forked(p)
  BY <1>2 DEF Forked
<1>3. CASE ReapRun \/ Crash \/ \E p \in Pids : ChildExit(p)
  BY <1>3 DEF ReapRun, Crash, Zombies, ChildExit, ProcInv
<1>4. CASE Down \/ KillRun \/ Pause \/ Cont
  BY <1>4 DEF Down, KillRun, Pause, Cont, SendCont, Continue, Kill, Stop, Alive
<1>5. CASE \/ Boot \/ FirstAnnounce \/ OpenOk \/ EnterLoop \/ ForkFailed \/ LoopTop
           \/ trigger \/ Wakeup \/ ReapNone \/ Up \/ Once \/ OtherSignal \/ Term
           \/ Exit \/ NoCommand \/ Leave \/ DieAtStart \/ Respawn
           \/ \E line \in CommandLines : Svc(line)
  BY <1>5 DEF Boot, FirstAnnounce, OpenOk, EnterLoop, ForkFailed, LoopTop, trigger,
     Wakeup, ReapNone, Up, Once, OtherSignal, Term, Exit, NoCommand, Leave,
     DieAtStart, Respawn, Svc
<1>6. QED
  BY <1>1, <1>2, <1>3, <1>4, <1>5, NextCases

(* "x" is final.                                                            *)
THEOREM ExitIsFinal == Spec => NoStartAfterExit
<1>1. IInv /\ [Next]_vars => [flagexit /\ flagexit' => Children' \subseteq Children]_vars
  BY ExitStep
<1>2. QED
  BY Invariance, <1>1, PTL DEF Spec, NoStartAfterExit
==============================================================================
