----------------------------- MODULE LaunchManager -----------------------------
(* The launches of LocalBuildManager: start_launch, the threads of a launch,   *)
(* stop_launch, and the part a ROS restart's shutdown() has in them.           *)
(*                                                                             *)
(* Unlike a build, a launch can be stopped: stop_launch takes it out of the    *)
(* map and does without the mutex, on the same LaunchProcess, what its waiter  *)
(* does when the process exits.  As in BuildManager one reader stands for the  *)
(* two of a launch.  Stores between which no other thread can tell the         *)
(* difference are one step: a flag and the byte in the shutdown pipe that      *)
(* follows it (a reader looks at each at a place of its own).  Output is not   *)
(* counted: whether a select finds any is a choice.                            *)
CONSTANTS
    Launch,   \* LaunchProcess objects with their ids; each is started once
    NoLaunch  \* "no launch"

ASSUME NoLaunchAssumption == NoLaunch \notin Launch

VARIABLES
    launches,  \* launches_: the ids in the map
    issued,    \* the ids start_launch has answered with
    child,     \* launch -> the ros2 launch process
    code,      \* how it ended: ok, or bad (code # 0, signal)
    running,   \* LaunchProcess::running
    pipe,      \* a byte waits in shutdown_pipe
    fds,       \* the pipes: none, open, closed
    joined,    \* the readers have been joined
    freed,     \* the LaunchProcess has been destroyed
    rpc,       \* where the readers stand
    wpc,       \* where wait_for_launch stands
    got,       \* the exit code it has computed
    told,      \* the exit code it has passed to the listeners
    stop,      \* where the stop_launch of a launch stands
    answer,    \* the exit code that has passed to the listeners
    spc,       \* where shutdown stands
    todo,      \* the launches its loop has still to visit
    at,        \* the launch it is blocked on
    rushed,    \* history: launches stopped or shut down before they were reported
    fault      \* the undefined behaviour reached, if any

map == <<launches, issued>>
launch == <<child, code, running, pipe, fds, joined, freed>>
waiter == <<wpc, got, told>>
stopper == <<stop, answer>>
closer == <<spc, todo, at>>
vars == <<map, launch, rpc, waiter, stopper, closer, rushed, fault>>

ReaderPC == {"none", "check", "select", "read", "done"}
WaiterPC == {"none", "wait", "flag", "enter", "join", "close", "notify", "done"}
StopPC == {"none", "running", "kill", "pipe", "enter", "join", "close", "reap", "done"}
ShutdownPC == {"idle", "kill", "lock1", "join", "lock2", "close", "done"}
ChildState == {"none", "up", "term", "killed", "zombie", "reaped"}
Code == {"none", "ok", "bad"}

Alive == fault = "none"
Live(l) == child[l] \in {"up", "term", "killed"}
Gone(l) == child[l] \in {"zombie", "reaped"}

(* A reported launch stays in the map with the pid that was reaped and the     *)
(* descriptors that were closed; the kernel may have given these numbers to    *)
(* another process or file.  A call on one fails, and the code goes on, or is  *)
(* done to that other one.                                                     *)
Stray(l) == child[l] = "reaped" \/ fds[l] = "closed"
MayStray(stale) == fault' \in IF stale THEN {fault, "foreign"} ELSE {fault}

(* shutdown blocks in these phases with launches_mutex_ held.                  *)
Locked == spc \in {"join", "close"}
Unreported(S) == {l \in S : wpc[l] # "done"}

Init ==
    /\ launches = {} /\ issued = {} /\ rushed = {}
    /\ child = [l \in Launch |-> "none"] /\ code = [l \in Launch |-> "none"]
    /\ running = [l \in Launch |-> FALSE] /\ pipe = [l \in Launch |-> FALSE]
    /\ fds = [l \in Launch |-> "none"]
    /\ joined = [l \in Launch |-> FALSE] /\ freed = [l \in Launch |-> FALSE]
    /\ rpc = [l \in Launch |-> "none"]
    /\ wpc = [l \in Launch |-> "none"]
    /\ got = [l \in Launch |-> "none"] /\ told = [l \in Launch |-> "none"]
    /\ stop = [l \in Launch |-> "none"] /\ answer = [l \in Launch |-> "none"]
    /\ spc = "idle" /\ todo = {} /\ at = NoLaunch
    /\ fault = "none"

-----------------------------------------------------------------------------
(* start_launch: any number may run at once.                                   *)

Request(l) == Alive /\ ~Locked /\ l \notin issued /\ issued' = issued \cup {l}

StartLaunch(l) ==
    /\ Request(l)
    /\ launches' = launches \cup {l}
    /\ child' = [child EXCEPT ![l] = "up"]
    /\ running' = [running EXCEPT ![l] = TRUE]
    /\ fds' = [fds EXCEPT ![l] = "open"]
    /\ rpc' = [rpc EXCEPT ![l] = "check"]
    /\ wpc' = [wpc EXCEPT ![l] = "wait"]
    /\ UNCHANGED <<code, pipe, joined, freed, got, told, stopper, closer,
                   rushed, fault>>

(* pipe or fork fails; the client is answered with an id all the same.         *)
SpawnFails(l) ==
    /\ Request(l)
    /\ UNCHANGED <<launches, launch, rpc, waiter, stopper, closer, rushed, fault>>

-----------------------------------------------------------------------------
(* launch_reader_loop.                                                         *)

ReaderGoto(l, from, to) == Alive /\ rpc[l] = from /\ rpc' = [rpc EXCEPT ![l] = to]
ReaderKeeps == UNCHANGED <<map, launch, waiter, stopper, closer, rushed>>

ReaderCheck(l) ==
    /\ ReaderGoto(l, "check", IF running[l] THEN "select" ELSE "done")
    /\ ReaderKeeps /\ UNCHANGED fault

(* EBADF ends the loop, then the shutdown pipe; there is output, or a timeout. *)
ReaderSelect(l) ==
    /\ IF fds[l] = "closed" \/ pipe[l] THEN ReaderGoto(l, "select", "done")
       ELSE \E to \in {"read", "check"} : ReaderGoto(l, "select", to)
    /\ MayStray(fds[l] = "closed")
    /\ ReaderKeeps

(* A chunk for the listeners, or the end of what a process that ended wrote,   *)
(* or EBADF.                                                                   *)
ReaderRead(l) ==
    /\ \/ ReaderGoto(l, "read", "check") /\ fds[l] # "closed"
       \/ ReaderGoto(l, "read", "done") /\ (Gone(l) \/ fds[l] = "closed")
    /\ MayStray(fds[l] = "closed")
    /\ ReaderKeeps

Reader(l) == ReaderCheck(l) \/ ReaderSelect(l) \/ ReaderRead(l)

-----------------------------------------------------------------------------
(* What the waiter, a stop and shutdown have in common.                        *)

(* waitpid: whoever reaps the child gets its code; the others get ECHILD, and  *)
(* their status is still 0, an exit with code 0.                               *)
Reaped(l) == IF child[l] = "zombie" THEN code[l] ELSE "ok"

(* if joinable() join(): two threads that join one std::thread are a race.     *)
Ended(l) == rpc[l] = "done"
JoinSkipped(l) == "close"
JoinOrClose(l) == IF joined[l] THEN "close" ELSE "join"
Joining(l) == {wpc[l], stop[l]} \cup (IF spc = "join" /\ at = l THEN {"join"} ELSE {})
EntersJoin(l) ==
    fault' = IF ~joined[l] /\ "join" \in Joining(l) THEN "double_join" ELSE fault

-----------------------------------------------------------------------------
(* wait_for_launch, on a detached thread with a raw pointer.  The launch stays *)
(* in the map when it has ended.                                               *)

WaiterGoto(l, from, to) ==
    Alive /\ wpc[l] = from /\ wpc' = [wpc EXCEPT ![l] = to]
WaiterKeeps == UNCHANGED <<map, rpc, stopper, closer, code, freed, rushed>>

WaiterTouchesFreed(l) ==
    /\ Alive /\ freed[l] /\ wpc[l] \notin {"none", "wait", "done"}
    /\ fault' = "use_after_free"
    /\ UNCHANGED <<map, launch, rpc, waiter, stopper, closer, rushed>>

WaiterReaps(l) ==
    /\ WaiterGoto(l, "wait", "flag") /\ Gone(l)
    /\ child' = [child EXCEPT ![l] = "reaped"]
    /\ got' = [got EXCEPT ![l] = Reaped(l)]
    /\ MayStray(child[l] = "reaped")
    /\ WaiterKeeps /\ UNCHANGED <<running, pipe, fds, joined, told>>

WaiterFlag(l) ==
    /\ ~freed[l] /\ WaiterGoto(l, "flag", "enter")
    /\ running' = [running EXCEPT ![l] = FALSE]
    /\ pipe' = [pipe EXCEPT ![l] = TRUE]
    /\ MayStray(fds[l] = "closed")
    /\ WaiterKeeps /\ UNCHANGED <<child, fds, joined, got, told>>

WaiterEntersJoin(l) ==
    /\ ~freed[l] /\ WaiterGoto(l, "enter", JoinOrClose(l))
    /\ EntersJoin(l)
    /\ WaiterKeeps /\ UNCHANGED <<child, running, pipe, fds, joined, got, told>>

WaiterJoins(l) ==
    /\ ~freed[l] /\ WaiterGoto(l, "join", "close") /\ Ended(l)
    /\ joined' = [joined EXCEPT ![l] = TRUE]
    /\ WaiterKeeps /\ UNCHANGED <<child, running, pipe, fds, got, told, fault>>

WaiterCloses(l) ==
    /\ ~freed[l] /\ WaiterGoto(l, "close", "notify")
    /\ fds' = [fds EXCEPT ![l] = "closed"]
    /\ MayStray(fds[l] = "closed")
    /\ WaiterKeeps /\ UNCHANGED <<child, running, pipe, joined, got, told>>

WaiterNotifies(l) ==
    /\ ~freed[l] /\ WaiterGoto(l, "notify", "done")
    /\ told' = [told EXCEPT ![l] = got[l]]
    /\ WaiterKeeps /\ UNCHANGED <<child, running, pipe, fds, joined, got, fault>>

Waiter(l) ==
    \/ WaiterReaps(l) \/ WaiterFlag(l) \/ WaiterEntersJoin(l) \/ WaiterJoins(l)
    \/ WaiterCloses(l) \/ WaiterNotifies(l) \/ WaiterTouchesFreed(l)

-----------------------------------------------------------------------------
(* stop_launch, of a client; a second one does not find the launch.            *)

StopGoto(l, from, to) ==
    Alive /\ stop[l] = from /\ stop' = [stop EXCEPT ![l] = to]
StopKeeps == UNCHANGED <<issued, rpc, waiter, closer>>

StopTakes(l) ==
    /\ ~Locked /\ l \in launches
    /\ StopGoto(l, "none", "running")
    /\ launches' = launches \ {l}
    /\ rushed' = rushed \cup Unreported({l})
    /\ StopKeeps /\ UNCHANGED <<launch, answer, fault>>

(* SIGTERM to a running launch; 500ms later SIGKILL.                           *)
StopTerm(l) ==
    /\ \/ ~running[l] /\ StopGoto(l, "running", "pipe") /\ UNCHANGED child
       \/ running[l] /\ StopGoto(l, "running", "kill")
          /\ child' = [child EXCEPT ![l] = IF @ = "up" THEN "term" ELSE @]
    /\ running' = [running EXCEPT ![l] = FALSE]
    /\ MayStray(running[l] /\ child[l] = "reaped")
    /\ StopKeeps
    /\ UNCHANGED <<launches, code, pipe, fds, joined, freed, answer, rushed>>

TermIsEnough == {}
Killable == {l \in Launch : child[l] \in {"up", "term"}}

Kill(S) ==
    /\ child' = [l \in Launch |-> IF l \in S \cap Killable THEN "killed" ELSE child[l]]
    /\ code' = [l \in Launch |-> IF l \in S \cap Killable THEN "bad" ELSE code[l]]

StopKill(l) ==
    /\ StopGoto(l, "kill", "pipe")
    /\ Kill({l})
    /\ MayStray(child[l] = "reaped")
    /\ StopKeeps
    /\ UNCHANGED <<launches, running, pipe, fds, joined, freed, answer, rushed>>

StopPipe(l) ==
    /\ StopGoto(l, "pipe", "enter")
    /\ pipe' = [pipe EXCEPT ![l] = TRUE]
    /\ MayStray(fds[l] = "closed")
    /\ StopKeeps
    /\ UNCHANGED <<launches, child, code, running, fds, joined, freed, answer, rushed>>

StopEntersJoin(l) ==
    /\ StopGoto(l, "enter", JoinOrClose(l))
    /\ EntersJoin(l)
    /\ StopKeeps /\ UNCHANGED <<launches, launch, answer, rushed>>

StopJoins(l) ==
    /\ StopGoto(l, "join", "close") /\ Ended(l)
    /\ joined' = [joined EXCEPT ![l] = TRUE]
    /\ StopKeeps
    /\ UNCHANGED <<launches, child, code, running, pipe, fds, freed, answer, rushed, fault>>

StopCloses(l) ==
    /\ StopGoto(l, "close", "reap")
    /\ fds' = [fds EXCEPT ![l] = "closed"]
    /\ MayStray(fds[l] = "closed")
    /\ StopKeeps
    /\ UNCHANGED <<launches, child, code, running, pipe, joined, freed, answer, rushed>>

(* The last step: the code is passed on, and proc goes out of scope.           *)
NotWaited(l) == TRUE
Waited(l) == Gone(l)

StopReaps(l) ==
    /\ StopGoto(l, "reap", "done") /\ Waited(l)
    /\ child' = [child EXCEPT ![l] = IF @ = "zombie" THEN "reaped" ELSE @]
    /\ answer' = [answer EXCEPT ![l] = Reaped(l)]
    /\ freed' = [freed EXCEPT ![l] = TRUE]
    /\ MayStray(child[l] = "reaped")
    /\ StopKeeps /\ UNCHANGED <<launches, code, running, pipe, fds, joined, rushed>>

Stop(l) ==
    \/ StopTerm(l) \/ StopKill(l) \/ StopPipe(l) \/ StopEntersJoin(l)
    \/ StopJoins(l) \/ StopCloses(l) \/ StopReaps(l)

-----------------------------------------------------------------------------
(* The launch half of shutdown().                                              *)

ShutdownGoto(from, to) == Alive /\ spc = from /\ spc' = to
ShutdownKeeps == UNCHANGED <<issued, rpc, waiter, stopper>>

ShutdownTerm ==
    /\ ShutdownGoto("idle", "kill")
    /\ running' = [l \in Launch |-> running[l] /\ l \notin launches]
    /\ child' = [l \in Launch |-> IF l \in launches /\ running[l] /\ child[l] = "up"
                                  THEN "term" ELSE child[l]]
    /\ rushed' = rushed \cup Unreported(launches)
    /\ MayStray(\E l \in launches : running[l] /\ child[l] = "reaped")
    /\ ShutdownKeeps
    /\ UNCHANGED <<launches, code, pipe, fds, joined, freed, todo, at>>

(* SIGKILL and the shutdown pipe for what is in the map by now.                *)
ShutdownKill ==
    /\ ShutdownGoto("kill", "lock1")
    /\ Kill(launches)
    /\ pipe' = [l \in Launch |-> pipe[l] \/ l \in launches]
    /\ rushed' = rushed \cup Unreported(launches)
    /\ MayStray(\E l \in launches : Stray(l))
    /\ ShutdownKeeps
    /\ UNCHANGED <<launches, running, fds, joined, freed, todo, at>>

ShutdownLocks ==
    /\ ShutdownGoto("lock1", "join") \/ ShutdownGoto("lock2", "close")
    /\ todo' = launches
    /\ rushed' = rushed \cup Unreported(launches)
    /\ ShutdownKeeps /\ UNCHANGED <<launches, launch, at, fault>>

ShutdownEntersJoin(l) ==
    /\ ShutdownGoto("join", "join") /\ at = NoLaunch /\ l \in todo
    /\ todo' = todo \ {l}
    /\ at' = IF joined[l] THEN NoLaunch ELSE l
    /\ EntersJoin(l)
    /\ ShutdownKeeps /\ UNCHANGED <<launches, launch, rushed>>

ShutdownJoins(l) ==
    /\ ShutdownGoto("join", "join") /\ at = l /\ Ended(l)
    /\ joined' = [joined EXCEPT ![l] = TRUE]
    /\ at' = NoLaunch
    /\ ShutdownKeeps
    /\ UNCHANGED <<launches, child, code, running, pipe, fds, freed, todo, rushed, fault>>

ShutdownUnlocks ==
    /\ ShutdownGoto("join", "lock2") /\ at = NoLaunch /\ todo = {}
    /\ ShutdownKeeps /\ UNCHANGED <<launches, launch, todo, at, rushed, fault>>

(* Close the pipes, whether or not they are closed, and wait for the process.  *)
ShutdownCloses(l) ==
    /\ ShutdownGoto("close", "close") /\ at = NoLaunch /\ l \in todo
    /\ todo' = todo \ {l}
    /\ at' = l
    /\ fds' = [fds EXCEPT ![l] = "closed"]
    /\ MayStray(fds[l] = "closed")
    /\ ShutdownKeeps
    /\ UNCHANGED <<launches, child, code, running, pipe, joined, freed, rushed>>

ShutdownReaps(l) ==
    /\ ShutdownGoto("close", "close") /\ at = l /\ Gone(l)
    /\ child' = [child EXCEPT ![l] = "reaped"]
    /\ at' = NoLaunch
    /\ MayStray(child[l] = "reaped")
    /\ ShutdownKeeps
    /\ UNCHANGED <<launches, code, running, pipe, fds, joined, freed, todo, rushed>>

(* launches_.clear(): a joinable std::thread ends the program.                 *)
ShutdownClears ==
    /\ ShutdownGoto("close", "done") /\ at = NoLaunch /\ todo = {}
    /\ launches' = {}
    /\ freed' = [l \in Launch |-> freed[l] \/ l \in launches]
    /\ fault' = IF \A l \in launches : joined[l] THEN fault ELSE "terminate"
    /\ ShutdownKeeps
    /\ UNCHANGED <<child, code, running, pipe, fds, joined, todo, at, rushed>>

Shutdown ==
    \/ ShutdownKill \/ ShutdownLocks \/ ShutdownUnlocks \/ ShutdownClears
    \/ \E l \in Launch : \/ ShutdownEntersJoin(l) \/ ShutdownJoins(l)
                         \/ ShutdownCloses(l) \/ ShutdownReaps(l)

-----------------------------------------------------------------------------
(* ros2 launch ends well or badly, or dies of SIGKILL.                         *)

ProcessKeeps == UNCHANGED <<map, rpc, waiter, stopper, closer, rushed, fault,
                            running, pipe, fds, joined, freed>>

ProcessExits(l) ==
    /\ Alive /\ child[l] \in {"up", "term"}
    /\ child' = [child EXCEPT ![l] = "zombie"]
    /\ \E c \in {"ok", "bad"} : code' = [code EXCEPT ![l] = c]
    /\ ProcessKeeps

ProcessDies(l) ==
    /\ Alive /\ child[l] = "killed"
    /\ child' = [child EXCEPT ![l] = "zombie"]
    /\ ProcessKeeps /\ UNCHANGED code

(* After an abort, or with every id used and everything reported.              *)
AtRest ==
    /\ issued = Launch /\ launches = {} /\ spc = "done"
    /\ \A l \in Launch : wpc[l] \in {"none", "done"} /\ stop[l] \in {"none", "done"}
Rests == (AtRest \/ ~Alive) /\ UNCHANGED vars

Next ==
    \/ ShutdownTerm \/ Shutdown
    \/ \E l \in Launch :
          \/ StartLaunch(l) \/ SpawnFails(l) \/ StopTakes(l)
          \/ Reader(l) \/ Waiter(l) \/ Stop(l)
          \/ ProcessExits(l) \/ ProcessDies(l)
    \/ Rests

Spec == Init /\ [][Next]_vars

-----------------------------------------------------------------------------
(* Every variable has its type.                                                *)
TypeOK ==
    /\ launches \subseteq issued /\ issued \subseteq Launch /\ rushed \subseteq Launch
    /\ child \in [Launch -> ChildState] /\ code \in [Launch -> Code]
    /\ running \in [Launch -> BOOLEAN] /\ pipe \in [Launch -> BOOLEAN]
    /\ fds \in [Launch -> {"none", "open", "closed"}]
    /\ joined \in [Launch -> BOOLEAN] /\ freed \in [Launch -> BOOLEAN]
    /\ rpc \in [Launch -> ReaderPC]
    /\ wpc \in [Launch -> WaiterPC] /\ got \in [Launch -> Code] /\ told \in [Launch -> Code]
    /\ stop \in [Launch -> StopPC] /\ answer \in [Launch -> Code]
    /\ spc \in ShutdownPC /\ todo \subseteq launches /\ at \in Launch \cup {NoLaunch}
    /\ fault \in {"none", "use_after_free", "double_join", "terminate", "foreign"}

(* No memory error or abort without a launch that was stopped, or met by a     *)
(* restart, before it had been reported.  What is done to another's process or *)
(* file is done with the numbers of a launch that was stopped or that a        *)
(* restart met, reported or not: a launch that is left alone is told of with   *)
(* the code it ended with, after the last of its output that anybody will get. *)
(* A stop tells a code of 0 if it comes after the waiter, but of the two the   *)
(* one that came first has the code.                                           *)
Met(l) == stop[l] # "none" \/ freed[l] \/ (l \in launches /\ spc # "idle")

RushIsNeeded ==
    /\ fault \notin {"none", "foreign"} => rushed # {}
    /\ fault = "foreign" => \E l \in Launch : Met(l) /\ Stray(l)
    /\ \A l \in Launch : told[l] # "none" /\ l \notin rushed =>
          told[l] = code[l] /\ rpc[l] = "done"
    /\ \A l \in Launch : answer[l] # "none" => code[l] \in {answer[l], got[l]}

(* A live launch is in the map, where a client or a restart can stop it, or is *)
(* being stopped: whatever starts, stops and restarts cross each other.        *)
NoLaunchForgotten ==
    Alive => \A l \in Launch : Live(l) =>
        l \in launches \/ stop[l] \notin {"none", "done"}

(* When stop_launch waits for the process, SIGKILL has been sent to it, unless *)
(* a restart cleared running before the stop had the launch: then nobody sends *)
(* it, and the wait takes as long as the launch likes.                         *)
StopHasKilled ==
    \A l \in Launch : stop[l] = "reap" /\ child[l] \in {"up", "term"} => spc # "idle"
=============================================================================
