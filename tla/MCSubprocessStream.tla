------------------------- MODULE MCSubprocessStream -------------------------
(* SubprocessStream on a small instance for TLC.                               *)
EXTENDS SubprocessStream, TLC

Symmetry == Permutations(Readers)
=============================================================================
