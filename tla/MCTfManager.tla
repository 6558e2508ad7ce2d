----------------------------- MODULE MCTfManager -----------------------------
(* TfManager on a small instance for TLC.                                      *)
EXTENDS TfManager, TLC

Symmetry == Permutations(Conn) \cup Permutations(Sub) \cup Permutations(Stream)
=============================================================================
