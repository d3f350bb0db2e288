----------------------------- MODULE MCSupervise -----------------------------
(* Instances of Supervise for TLC.                                          *)
EXTENDS Supervise, TLC

(* svc with one option, one byte in the FIFO at a time: all the commands.    *)
MCAllLines == {<<c>> : c \in Commands}

(* Fewer lines for the liveness runs; OtherSignal changes nothing.          *)
MCLiveLines ==
  {<<c>> : c \in {"d", "u", "o", "t", "p", "c", "x", "h"}} \cup {<<"d", "x">>}

MCSymmetry == Permutations(Pids)
==============================================================================
