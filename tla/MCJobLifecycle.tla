--------------------------- MODULE MCJobLifecycle ---------------------------
(***************************************************************************)
(* Instances of JobLifecycle for TLC. The model itself is finite: a job is  *)
(* one run of the ripper, so Jobs bounds the discs inserted and nothing     *)
(* else needs a bound.                                                      *)
(***************************************************************************)
EXTENDS JobLifecycle, TLC

Symmetry == Permutations(Jobs) \cup Permutations(Drives)
=============================================================================
