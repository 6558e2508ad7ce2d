----------------------------- MODULE WatchedFiles -----------------------------
(* What file watches are about: the connections that ask for them, and a tree  *)
(* of directories, some of which exist at first.                               *)
EXTENDS Naturals

CONSTANTS
    Conn,       \* WebSocket connections, each with the thread of its handlers
    Id,         \* client-assigned watch ids
    Dir,        \* directories
    Inside,     \* directory -> all directories below it, whether they exist or not
    First,      \* the directories that exist at first
    NoId,       \* "no watch"
    NoDir,      \* "no directory"
    MaxOps,     \* bound on watch and unwatch requests
    MaxChanges  \* bound on changes of the file system

ASSUME NoneAssumption == NoId \notin Id /\ NoDir \notin Dir
ASSUME TreeAssumption ==
    /\ Inside \in [Dir -> SUBSET Dir] /\ First \subseteq Dir
    /\ \A d \in Dir : d \notin Inside[d] /\ \A x \in Inside[d] : Inside[x] \subseteq Inside[d]
ASSUME BoundsAssumption == MaxOps \in Nat /\ MaxChanges \in Nat
===============================================================================
