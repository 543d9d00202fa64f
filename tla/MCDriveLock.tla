---------------------------- MODULE MCDriveLock ----------------------------
(* The lock file of one drive on small instances. Runs, probers and inodes  *)
(* are interchangeable.                                                     *)
EXTENDS DriveLock, TLC

Symmetry == Permutations(Procs) \cup Permutations(Probers) \cup Permutations(Inodes)
=============================================================================
