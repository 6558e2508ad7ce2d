------------------------------ MODULE MCRosCalls ------------------------------
EXTENDS RosCalls, TLC

(* Clients are interchangeable.                                                *)
Symmetry == Permutations(Conn)
=============================================================================
