---------------------------- MODULE MCPtyManager ----------------------------
(* PtyManager on a small instance for TLC.                                     *)
EXTENDS PtyManager, TLC

Symmetry == Permutations(Conn) \cup Permutations(Term) \cup Permutations(Session)
=============================================================================
