------------------------ MODULE MCBackgroundService ------------------------
(***************************************************************************)
(* BackgroundService for TLC: nothing but the values of the .cfg files.     *)
(***************************************************************************)
EXTENDS BackgroundService, TLC

ThreadSymmetry == Permutations(Threads)
============================================================================
