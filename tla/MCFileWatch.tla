----------------------------- MODULE MCFileWatch -----------------------------
(* FileWatch on a small instance for TLC: a directory and one in it, which     *)
(* does not exist at first.                                                    *)
EXTENDS WatchedFiles, TLC

CONSTANTS top, mid

VARIABLES
    exists, inotify, gen, queue, watches, recursive, wds, wdMap, tpc, note,
    running, spc, listed, conn, hpc, req, todo, ops, changes,
    cover, shared, users, scope, missed

Watch == INSTANCE FileWatch
WatchSpec == Watch!Spec

Pair == (top :> {mid}) @@ (mid :> {})

WatchSymmetry == Permutations(Conn) \cup Permutations(Id)

(* Every directory the kernel watches belongs to exactly one watch, which will *)
(* remove it: no descriptor leaks, whatever is shared, removed or made anew.   *)
NoLeak == Watch!NoLeak

(* A client that keeps its ids and directories to itself is told of every      *)
(* change in the directories it has been confirmed to watch; and its watches   *)
(* end with it: none is left when it has gone.                                 *)
AloneIsServed == Watch!AloneIsServed

(* "Subscribe to file system events under a path": whoever watches a directory *)
(* is told of its changes.                                                     *)
NothingMissed == Watch!NothingMissed
=============================================================================
