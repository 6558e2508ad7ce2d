---------------------------- MODULE MCLaunchManager ----------------------------
(* LaunchManager on a small instance for TLC.                                  *)
EXTENDS LaunchManager, TLC

Symmetry == Permutations(Launch)
=============================================================================
