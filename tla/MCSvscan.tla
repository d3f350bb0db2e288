------------------------------ MODULE MCSvscan ------------------------------
(* Instances of Svscan for TLC.                                             *)
EXTENDS Svscan, TLC

MCSymmetry == Permutations(Names) \cup Permutations(Inodes) \cup
              Permutations(Pids) \cup Permutations(Pipes)
=============================================================================
