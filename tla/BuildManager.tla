----------------------------- MODULE BuildManager -----------------------------
(* The builds of LocalBuildManager, the REST handler of BuildController that   *)
(* starts them, and the shutdown() a ROS restart runs while it may still be    *)
(* called.                                                                     *)
(*                                                                             *)
(* Each build has a detached waiter thread and two reader threads; the readers *)
(* run the same code on their own pipe and are always joined together, so one  *)
(* stands for both.  start_build is one critical section of builds_mutex_ (the *)
(* status query another, which only reads); shutdown takes the mutex phase by  *)
(* phase, and blocks in join and waitpid while it holds it.                    *)
EXTENDS Naturals, FiniteSets

CONSTANTS
    Build,      \* BuildProcess objects with their ids; each is started once
    NoBuild,    \* "no build"
    MaxChunks,  \* bound on the chunks of output of one build
    Restart     \* whether a ROS restart calls shutdown()

ASSUME NoBuildAssumption == NoBuild \notin Build
ASSUME BoundsAssumption == MaxChunks \in Nat /\ Restart \in BOOLEAN

VARIABLES
    builds,   \* builds_: the ids that are in the map
    issued,   \* the ids start_build has answered with
    child,    \* build -> the colcon process
    code,     \* build -> how that process ended: ok, or bad (code # 0, signal)
    running,  \* BuildProcess::running
    status,   \* BuildProcess::status
    pipe,     \* a byte waits in shutdown_pipe
    fds,      \* the pipes of the build: none, open, closed
    joined,   \* its readers have been joined
    freed,    \* the BuildProcess has been destroyed
    wpc,      \* where wait_for_build stands
    got,      \* the exit code wait_for_build computed
    rpc,      \* where the readers stand
    made,     \* chunks written by the build
    out,      \* chunks passed to the listeners
    told,     \* the final status passed to the listeners
    spc,      \* where shutdown stands
    todo,     \* the builds its loop has still to visit
    at,       \* the build it is blocked on
    calm,     \* history: every build had been reported when shutdown began
    late,     \* history: a build was started after shutdown began
    fault     \* the undefined behaviour reached, if any

build == <<child, code, running, status, pipe, fds, joined, freed>>
waiter == <<wpc, got, told>>
reader == <<rpc, out>>
map == <<builds, issued, late>>
closer == <<spc, todo, at, calm>>
vars == <<map, build, waiter, reader, made, closer, fault>>

WaiterPC == {"none", "start", "wait", "flag", "pipe", "enter", "join", "close",
             "status", "notify", "done"}
ReaderPC == {"none", "check", "select", "read", "done"}
ShutdownPC == {"idle", "kill", "lock1", "join", "lock2", "close", "done"}
ChildState == {"none", "up", "term", "killed", "zombie", "reaped"}
Status == {"running", "completed", "failed"}
Faults == {"none", "use_after_free", "double_join", "terminate", "foreign"}

Alive == fault = "none"
Live(b) == child[b] \in {"up", "term", "killed"}
Gone(b) == child[b] \in {"zombie", "reaped"}

(* Nothing resets a pid that was reaped or a descriptor that was closed: the   *)
(* kernel may have given the number to another process or file.  A call on     *)
(* such a number fails, and the code goes on, or is done to that other one.    *)
Stray(b) == child[b] = "reaped" \/ fds[b] = "closed"
MayStray(stale) == fault' \in IF stale THEN {fault, "foreign"} ELSE {fault}

(* shutdown blocks in these phases with builds_mutex_ held.                    *)
Locked == spc \in {"join", "close"}

Init ==
    /\ builds = {} /\ issued = {} /\ late = FALSE
    /\ child = [b \in Build |-> "none"]
    /\ code = [b \in Build |-> "none"]
    /\ running = [b \in Build |-> FALSE]
    /\ status = [b \in Build |-> "running"]
    /\ pipe = [b \in Build |-> FALSE]
    /\ fds = [b \in Build |-> "none"]
    /\ joined = [b \in Build |-> FALSE]
    /\ freed = [b \in Build |-> FALSE]
    /\ wpc = [b \in Build |-> "none"]
    /\ got = [b \in Build |-> "none"]
    /\ told = [b \in Build |-> "none"]
    /\ rpc = [b \in Build |-> "none"]
    /\ made = [b \in Build |-> 0]
    /\ out = [b \in Build |-> 0]
    /\ spc = "idle" /\ todo = {} /\ at = NoBuild /\ calm = FALSE
    /\ fault = "none"

-----------------------------------------------------------------------------
(* Requests.                                                                   *)

(* "Only one build at a time"; a refused request changes nothing.              *)
NeverBusy == FALSE
Busy == \E b \in builds : running[b]

Request == Alive /\ ~Locked /\ ~Busy

StartBuild(b) ==
    /\ Request
    /\ b \notin issued
    /\ builds' = builds \cup {b}
    /\ issued' = issued \cup {b}
    /\ late' = (late \/ spc # "idle")
    /\ child' = [child EXCEPT ![b] = "up"]
    /\ running' = [running EXCEPT ![b] = TRUE]
    /\ fds' = [fds EXCEPT ![b] = "open"]
    /\ rpc' = [rpc EXCEPT ![b] = "check"]
    /\ wpc' = [wpc EXCEPT ![b] = "start"]
    /\ UNCHANGED <<code, status, pipe, joined, freed, got, told, out, made, closer, fault>>

(* pipe or fork fails: spawn_build_process returns, and the answer is the same. *)
SpawnFails(b) ==
    /\ Request
    /\ b \notin issued
    /\ issued' = issued \cup {b}
    /\ UNCHANGED <<builds, late, build, waiter, reader, made, closer, fault>>

-----------------------------------------------------------------------------
(* build_reader_loop.                                                          *)

ReaderGoto(b, from, to) == Alive /\ rpc[b] = from /\ rpc' = [rpc EXCEPT ![b] = to]
ReaderKeeps == UNCHANGED <<map, build, waiter, made, closer>>

Unread(b) == made[b] > out[b]

ReaderCheck(b) ==
    /\ ReaderGoto(b, "check", IF running[b] THEN "select" ELSE "done")
    /\ ReaderKeeps /\ UNCHANGED <<out, fault>>

(* EBADF ends the loop, then the shutdown pipe; neither readable: the timeout. *)
ReaderSelect(b) ==
    /\ ReaderGoto(b, "select",
                  IF fds[b] = "closed" \/ pipe[b] THEN "done"
                  ELSE IF Unread(b) \/ Gone(b) THEN "read" ELSE "check")
    /\ MayStray(fds[b] = "closed")
    /\ ReaderKeeps /\ UNCHANGED out

(* One read and its notify_build_output, or the end of file, or EBADF.         *)
Readable(b) == Unread(b) /\ fds[b] # "closed"

ReaderRead(b) ==
    /\ ReaderGoto(b, "read", IF Readable(b) THEN "check" ELSE "done")
    /\ out' = [out EXCEPT ![b] = IF Readable(b) THEN @ + 1 ELSE @]
    /\ MayStray(fds[b] = "closed")
    /\ ReaderKeeps

Reader(b) == ReaderCheck(b) \/ ReaderSelect(b) \/ ReaderRead(b)

-----------------------------------------------------------------------------
(* wait_for_build, on a detached thread with a raw pointer.                    *)

WaiterGoto(b, from, to) ==
    /\ Alive /\ wpc[b] = from /\ ~freed[b]
    /\ wpc' = [wpc EXCEPT ![b] = to]
WaiterKeeps == UNCHANGED <<map, reader, made, closer, code, freed>>

(* What pthread_join waits for.                                                *)
NotAwaited(b) == TRUE
ReadersEnded(b) == rpc[b] = "done"

WaiterTouchesFreed(b) ==
    /\ Alive /\ freed[b]
    /\ wpc[b] \notin {"none", "wait", "done"}
    /\ fault' = "use_after_free"
    /\ UNCHANGED <<map, build, waiter, reader, made, closer>>

WaiterStarts(b) ==
    /\ WaiterGoto(b, "start", "wait")
    /\ MayStray(child[b] = "reaped")
    /\ WaiterKeeps
    /\ UNCHANGED <<child, running, status, pipe, fds, joined, got, told>>

(* waitpid.  After ECHILD, status is still 0, which reads as exit code 0.      *)
IgnoredCode(b) == "ok"
ExitCode(b) == IF child[b] = "zombie" THEN code[b] ELSE "ok"

WaiterReaps(b) ==
    /\ Alive /\ wpc[b] = "wait"
    /\ Gone(b)
    /\ wpc' = [wpc EXCEPT ![b] = "flag"]
    /\ child' = [child EXCEPT ![b] = "reaped"]
    /\ got' = [got EXCEPT ![b] = ExitCode(b)]
    /\ WaiterKeeps /\ UNCHANGED <<running, status, pipe, fds, joined, told, fault>>

WaiterFlag(b) ==
    /\ WaiterGoto(b, "flag", "pipe")
    /\ running' = [running EXCEPT ![b] = FALSE]
    /\ WaiterKeeps /\ UNCHANGED <<child, status, pipe, fds, joined, got, told, fault>>

WaiterPipe(b) ==
    /\ WaiterGoto(b, "pipe", "enter")
    /\ pipe' = [pipe EXCEPT ![b] = TRUE]
    /\ MayStray(fds[b] = "closed")
    /\ WaiterKeeps /\ UNCHANGED <<child, running, status, fds, joined, got, told>>

(* if joinable() join(): two threads that join the same std::thread are a race. *)
WaiterEntersJoin(b) ==
    /\ WaiterGoto(b, "enter", IF joined[b] THEN "close" ELSE "join")
    /\ fault' = IF ~joined[b] /\ spc = "join" /\ at = b THEN "double_join" ELSE fault
    /\ WaiterKeeps /\ UNCHANGED <<child, running, status, pipe, fds, joined, got, told>>

WaiterJoins(b) ==
    /\ WaiterGoto(b, "join", "close")
    /\ ReadersEnded(b)
    /\ joined' = [joined EXCEPT ![b] = TRUE]
    /\ WaiterKeeps /\ UNCHANGED <<child, running, status, pipe, fds, got, told, fault>>

WaiterCloses(b) ==
    /\ WaiterGoto(b, "close", "status")
    /\ fds' = [fds EXCEPT ![b] = "closed"]
    /\ MayStray(fds[b] = "closed")
    /\ WaiterKeeps
    /\ UNCHANGED <<child, running, status, pipe, joined, got, told>>

WaiterSetsStatus(b) ==
    /\ WaiterGoto(b, "status", "notify")
    /\ status' = [status EXCEPT ![b] = IF got[b] = "ok" THEN "completed" ELSE "failed"]
    /\ WaiterKeeps /\ UNCHANGED <<child, running, pipe, fds, joined, got, told, fault>>

WaiterNotifies(b) ==
    /\ WaiterGoto(b, "notify", "done")
    /\ told' = [told EXCEPT ![b] = status[b]]
    /\ WaiterKeeps
    /\ UNCHANGED <<child, running, status, pipe, fds, joined, got, fault>>

Waiter(b) ==
    \/ WaiterStarts(b) \/ WaiterReaps(b) \/ WaiterFlag(b) \/ WaiterPipe(b)
    \/ WaiterEntersJoin(b) \/ WaiterJoins(b) \/ WaiterCloses(b)
    \/ WaiterSetsStatus(b) \/ WaiterNotifies(b) \/ WaiterTouchesFreed(b)

-----------------------------------------------------------------------------
(* shutdown().                                                                 *)

ShutdownGoto(from, to) == Alive /\ spc = from /\ spc' = to
ShutdownKeeps == UNCHANGED <<issued, late, code, status, waiter, reader, made>>

(* SIGTERM to every running build, under the mutex; 500ms of grace follow.     *)
ShutdownTerm ==
    /\ Restart
    /\ ShutdownGoto("idle", "kill")
    /\ calm' = \A b \in builds : wpc[b] = "done"
    /\ running' = [b \in Build |-> running[b] /\ b \notin builds]
    /\ child' = [b \in Build |-> IF b \in builds /\ running[b] /\ child[b] = "up"
                                 THEN "term" ELSE child[b]]
    /\ MayStray(\E b \in builds : running[b] /\ child[b] = "reaped")
    /\ ShutdownKeeps /\ UNCHANGED <<builds, pipe, fds, joined, freed, todo, at>>

(* SIGKILL and the shutdown pipe for every build of the map, finished or not.  *)
TermIsEnough == {}
ToKill == {b \in builds : child[b] \in {"up", "term"}}

ShutdownKill ==
    /\ ShutdownGoto("kill", "lock1")
    /\ child' = [b \in Build |-> IF b \in ToKill THEN "killed" ELSE child[b]]
    /\ code' = [b \in Build |-> IF b \in ToKill THEN "bad" ELSE code[b]]
    /\ pipe' = [b \in Build |-> pipe[b] \/ b \in builds]
    /\ MayStray(\E b \in builds : Stray(b))
    /\ UNCHANGED <<builds, issued, late, running, status, fds, joined, freed,
                   waiter, reader, made, todo, at, calm>>

(* Both loops visit the whole map.                                             *)
OnlyRunning == {b \in builds : running[b]}
ToVisit == builds

ShutdownLocks ==
    /\ \/ ShutdownGoto("lock1", "join")
       \/ ShutdownGoto("lock2", "close")
    /\ todo' = ToVisit
    /\ ShutdownKeeps
    /\ UNCHANGED <<builds, child, running, pipe, fds, joined, freed, at, calm, fault>>

ShutdownEntersJoin(b) ==
    /\ ShutdownGoto("join", "join") /\ at = NoBuild
    /\ b \in todo
    /\ todo' = todo \ {b}
    /\ at' = IF joined[b] THEN NoBuild ELSE b
    /\ fault' = IF ~joined[b] /\ wpc[b] = "join" THEN "double_join" ELSE fault
    /\ ShutdownKeeps
    /\ UNCHANGED <<builds, child, running, pipe, fds, joined, freed, calm>>

ShutdownJoins(b) ==
    /\ ShutdownGoto("join", "join") /\ at = b
    /\ ReadersEnded(b)
    /\ joined' = [joined EXCEPT ![b] = TRUE]
    /\ at' = NoBuild
    /\ ShutdownKeeps
    /\ UNCHANGED <<builds, child, running, pipe, fds, freed, todo, calm, fault>>

ShutdownUnlocks ==
    /\ ShutdownGoto("join", "lock2") /\ at = NoBuild
    /\ todo = {}
    /\ ShutdownKeeps
    /\ UNCHANGED <<builds, child, running, pipe, fds, joined, freed, todo, at, calm, fault>>

(* The fds are closed whether or not the waiter has closed them.               *)
ShutdownCloses(b) ==
    /\ ShutdownGoto("close", "close") /\ at = NoBuild
    /\ b \in todo
    /\ todo' = todo \ {b}
    /\ at' = b
    /\ fds' = [fds EXCEPT ![b] = "closed"]
    /\ MayStray(fds[b] = "closed")
    /\ ShutdownKeeps
    /\ UNCHANGED <<builds, child, running, pipe, joined, freed, calm>>

ShutdownReaps(b) ==
    /\ ShutdownGoto("close", "close") /\ at = b
    /\ Gone(b)
    /\ child' = [child EXCEPT ![b] = "reaped"]
    /\ at' = NoBuild
    /\ MayStray(child[b] = "reaped")
    /\ ShutdownKeeps
    /\ UNCHANGED <<builds, running, pipe, fds, joined, freed, todo, calm>>

(* builds_.clear(): the destructor of a joinable std::thread terminates.       *)
ShutdownClears ==
    /\ ShutdownGoto("close", "done") /\ at = NoBuild
    /\ todo = {}
    /\ builds' = {}
    /\ freed' = [b \in Build |-> freed[b] \/ b \in builds]
    /\ fault' = IF \A b \in builds : joined[b] THEN fault ELSE "terminate"
    /\ ShutdownKeeps
    /\ UNCHANGED <<child, running, pipe, fds, joined, todo, at, calm>>

Shutdown ==
    \/ ShutdownKill \/ ShutdownLocks \/ ShutdownUnlocks \/ ShutdownClears
    \/ \E b \in Build : \/ ShutdownEntersJoin(b) \/ ShutdownJoins(b)
                        \/ ShutdownCloses(b) \/ ShutdownReaps(b)

-----------------------------------------------------------------------------
(* colcon writes, ends well or badly, or dies of SIGKILL.                      *)

ColconKeeps == UNCHANGED <<map, waiter, reader, closer, fault, running, status, pipe, fds,
                           joined, freed>>

ColconWrites(b) ==
    /\ Alive /\ child[b] \in {"up", "term"}
    /\ made[b] < MaxChunks
    /\ made' = [made EXCEPT ![b] = @ + 1]
    /\ ColconKeeps /\ UNCHANGED <<child, code>>

ColconExits(b) ==
    /\ Alive /\ child[b] \in {"up", "term"}
    /\ child' = [child EXCEPT ![b] = "zombie"]
    /\ \E c \in {"ok", "bad"} : code' = [code EXCEPT ![b] = c]
    /\ ColconKeeps /\ UNCHANGED made

ColconDies(b) ==
    /\ Alive /\ child[b] = "killed"
    /\ child' = [child EXCEPT ![b] = "zombie"]
    /\ ColconKeeps /\ UNCHANGED <<code, made>>

(* The server has been stopped by its fault, or idles with every id used.      *)
AtRest ==
    /\ issued = Build /\ spc \in {"idle", "done"}
    /\ \A b \in Build : wpc[b] \in {"none", "done"}
Ended == (AtRest \/ ~Alive) /\ UNCHANGED vars

Next ==
    \/ ShutdownTerm \/ Shutdown
    \/ \E b \in Build :
          \/ StartBuild(b) \/ SpawnFails(b)
          \/ Reader(b) \/ Waiter(b)
          \/ ColconWrites(b) \/ ColconExits(b) \/ ColconDies(b)
    \/ Ended

Spec == Init /\ [][Next]_vars

(* Threads that can run do, a mutex that is free is granted, SIGKILL kills.    *)
(* No build has to end by itself, no client has to call anything.              *)
Fairness ==
    /\ WF_vars(Shutdown)
    /\ \A b \in Build : WF_vars(Reader(b)) /\ WF_vars(Waiter(b)) /\ WF_vars(ColconDies(b))

FairSpec == Spec /\ Fairness

-----------------------------------------------------------------------------
(* Every variable has its type; no more is relayed than the build has written. *)
TypeOK ==
    /\ builds \subseteq Build /\ issued \subseteq Build
    /\ child \in [Build -> ChildState] /\ code \in [Build -> {"none", "ok", "bad"}]
    /\ running \in [Build -> BOOLEAN] /\ status \in [Build -> Status]
    /\ pipe \in [Build -> BOOLEAN] /\ fds \in [Build -> {"none", "open", "closed"}]
    /\ joined \in [Build -> BOOLEAN] /\ freed \in [Build -> BOOLEAN]
    /\ wpc \in [Build -> WaiterPC] /\ got \in [Build -> {"none", "ok", "bad"}]
    /\ rpc \in [Build -> ReaderPC] /\ told \in [Build -> Status \cup {"none"}]
    /\ made \in [Build -> 0..MaxChunks] /\ out \in [Build -> 0..MaxChunks]
    /\ \A b \in Build : out[b] <= made[b]
    /\ spc \in ShutdownPC /\ todo \subseteq Build /\ at \in Build \cup {NoBuild}
    /\ calm \in BOOLEAN /\ late \in BOOLEAN /\ fault \in Faults

(* Until a restart interferes, two colcon processes never run at once: the     *)
(* flag start_build trusts is cleared only after the process has been reaped.  *)
OneBuildUntilShutdown ==
    spc = "idle" => \A b, c \in Build : Live(b) /\ Live(c) => b = c

(* The clients are not told "completed" of a build that failed, unless the     *)
(* waitpid of shutdown came first and left the waiter with ECHILD.             *)
TruthfulStatus ==
    \A b \in Build : told[b] = "completed" => code[b] = "ok" \/ spc \in {"close", "done"}

(* A restart whose builds were all reported when it began, with none started   *)
(* meanwhile, uses no freed object and joins no thread twice; only a build     *)
(* started meanwhile leaves a joinable thread behind, whose destructor ends    *)
(* the server.  What no quiet moment excludes is a signal to, a write to or a  *)
(* close of a number that is another's by now: a reported build is in the map, *)
(* with the pid and descriptors wait_for_build gave back.  Before the second   *)
(* loop of shutdown that takes a waiter that has reaped its build.             *)
Overlap == ~calm \/ late
ReapedOrWaited == spc \in {"close", "done"} \/ \E b \in builds : wpc[b] \notin {"start", "wait"}

OverlapIsNeeded ==
    /\ fault \in {"use_after_free", "double_join"} => Overlap
    /\ fault = "terminate" => late
    /\ fault = "foreign" => spc # "idle" /\ ReapedOrWaited

(* A restart gets through shutdown, however the builds behave, unless one is   *)
(* started meanwhile: join then waits for its end with builds_mutex_ held.     *)
ShutdownEnds == spc = "kill" ~> spc = "done" \/ late \/ fault # "none"

(* Until a restart the build service is the one of BuildSlot.                  *)
Slot == INSTANCE BuildSlot WITH
    phase <- [b \in Build |-> IF child[b] = "none" THEN "idle"
                              ELSE IF Live(b) THEN "live" ELSE code[b]],
    output <- out,
    report <- told,
    gone <- spc # "idle"

ImplementsSlot == Slot!Spec
=============================================================================
