----------------------------- MODULE MCRosTopics -----------------------------
EXTENDS RosTopics, TLC

(* Ids, clients, topics and streams are interchangeable.                       *)
Symmetry == Permutations(Conn) \cup Permutations(Sub) \cup Permutations(Topic)
               \cup Permutations(Stream)
=============================================================================
