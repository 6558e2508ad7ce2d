------------------------------- MODULE TfManager -------------------------------
(* Transform subscriptions: LocalTfManager, the TfChannel that feeds it, and   *)
(* the end a ROS restart puts to the manager.                                  *)
(*                                                                             *)
(* All subscriptions share one "ros2 topic echo /tf" stream.  Its reader takes *)
(* subscriptions_mutex_ for every line, its exit-waiter takes it to drop the   *)
(* handle, and whoever stops the stream holds it while it joins them.  Of      *)
(* start_streaming and stop_streaming only what meets this mutex is kept: the  *)
(* module SubprocessStream has the rest.                                       *)
EXTENDS Naturals, FiniteSets

CONSTANTS
    Conn,        \* WebSocket connections, each with the thread of its handlers
    Sub,         \* client-assigned subscription ids
    Stream,      \* StreamingHandle objects; each is started at most once
    NoStream,    \* an empty unique_ptr
    NoSub,       \* "no subscription"
    MaxLines     \* bound on the lines one stream delivers

ASSUME NoneAssumption == NoStream \notin Stream /\ NoSub \notin Sub
ASSUME LinesAssumption == MaxLines \in Nat

VARIABLES
    subs,     \* LocalTfManager::subscriptions_, its ids
    handle,   \* tf_stream_handle_
    mutex,    \* who holds subscriptions_mutex_ from one step to the next
    phase,    \* the manager: up, shut, replaced in the channel, destroyed
    listed,   \* TfChannel::subscribers_: id -> connections
    conn,     \* the connection object: open or gone
    hpc,      \* where the handler of a connection stands
    want,     \* the id it subscribes to
    child,    \* stream -> the subprocess
    running,  \* StreamingHandle::running, or a byte in shutdown_pipe
    cleaned,  \* StreamingHandle::cleaned
    joined,   \* the reader thread has been joined
    freed,    \* the handle has been destroyed
    rpc,      \* where the reader of a stream stands
    wpc,      \* where the exit-waiter of a stream stands
    lines,    \* lines the reader has taken
    left,     \* subscriptions handle_tf_stdout has still to notify
    to,       \* recipients on_tf_update has still to send to
    spc,      \* where stop_tf_stream stands
    target,   \* the stream it stops
    fault     \* the undefined behaviour or abort reached, if any

manager == <<subs, handle, mutex, phase>>
channel == <<listed, conn, hpc, want>>
process == <<child, running, cleaned, joined, freed>>
threads == <<rpc, wpc, lines, left, to>>
stopper == <<spc, target>>
vars == <<manager, channel, process, threads, stopper, fault>>

ReaderPC == {"none", "loop", "lock", "deliver", "done"}
WaiterPC == {"none", "wait", "exchange", "join", "callback", "done"}
StopPC == {"idle", "signal", "exchange", "join", "reap", "free", "done"}
Faults == {"none", "use_after_free", "terminate", "dangling_send"}

Alive == fault = "none"
Live(s) == child[s] \in {"up", "killed"}

(* A unique_ptr that destroys a handle: std::terminate if a reader thread has  *)
(* not been joined.                                                            *)
Destroyed(s) == freed' = [freed EXCEPT ![s] = TRUE]
FaultOfFree(s) == IF joined[s] THEN fault ELSE "terminate"

Init ==
    /\ subs = {} /\ handle = NoStream /\ mutex = "free" /\ phase = "up"
    /\ listed = [i \in Sub |-> {}]
    /\ conn = [c \in Conn |-> "open"]
    /\ hpc = [c \in Conn |-> "idle"] /\ want = [c \in Conn |-> NoSub]
    /\ child = [s \in Stream |-> "none"]
    /\ running = [s \in Stream |-> FALSE] /\ cleaned = [s \in Stream |-> FALSE]
    /\ joined = [s \in Stream |-> FALSE] /\ freed = [s \in Stream |-> FALSE]
    /\ rpc = [s \in Stream |-> "none"] /\ wpc = [s \in Stream |-> "none"]
    /\ lines = [s \in Stream |-> 0]
    /\ left = {} /\ to = {}
    /\ spc = "idle" /\ target = NoStream
    /\ fault = "none"

-----------------------------------------------------------------------------
(* TfChannel: handlers, serial within one connection.                          *)

Ready(c) == Alive /\ conn[c] = "open" /\ hpc[c] = "idle"

(* handle_subscribe_tf calls the manager the channel points to at this time.   *)
SubscribeTf(c, i) ==
    /\ Ready(c)
    /\ phase \in {"up", "shut"}
    /\ hpc' = [hpc EXCEPT ![c] = "subscribe"]
    /\ want' = [want EXCEPT ![c] = i]
    /\ UNCHANGED <<manager, listed, conn, process, threads, stopper, fault>>

(* subscribe_tf, under subscriptions_mutex_: an id in use is refused.          *)
Enters(c) == Alive /\ hpc[c] = "subscribe" /\ mutex = "free" /\ phase # "destroyed"

SubscribeRefused(c) ==
    /\ Enters(c)
    /\ want[c] \in subs
    /\ hpc' = [hpc EXCEPT ![c] = "idle"]
    /\ want' = [want EXCEPT ![c] = NoSub]
    /\ UNCHANGED <<manager, listed, conn, process, threads, stopper, fault>>

(* The stream is started when there is none, and may fail to start.            *)
AlwaysStarts == TRUE
NeedsStream == handle = NoStream

SubscribeStarts(c, s) ==
    /\ Enters(c)
    /\ want[c] \notin subs
    /\ NeedsStream
    /\ child[s] = "none"
    /\ subs' = subs \cup {want[c]}
    /\ handle' = s
    /\ child' = [child EXCEPT ![s] = "up"]
    /\ running' = [running EXCEPT ![s] = TRUE]
    /\ rpc' = [rpc EXCEPT ![s] = "loop"]
    /\ wpc' = [wpc EXCEPT ![s] = "wait"]
    /\ hpc' = [hpc EXCEPT ![c] = "register"]
    /\ UNCHANGED <<mutex, phase, listed, conn, want, cleaned, joined, freed,
                   lines, left, to, stopper, fault>>

(* It runs already, or start_streaming has failed: the answer is the same.     *)
SubscribeJoins(c) ==
    /\ Enters(c)
    /\ want[c] \notin subs
    /\ subs' = subs \cup {want[c]}
    /\ hpc' = [hpc EXCEPT ![c] = "register"]
    /\ UNCHANGED <<handle, mutex, phase, listed, conn, want, process, threads,
                   stopper, fault>>

SubscribeDangles(c) ==
    /\ Alive /\ hpc[c] = "subscribe" /\ phase = "destroyed"
    /\ fault' = "use_after_free"
    /\ UNCHANGED <<manager, channel, process, threads, stopper>>

(* Back in the channel: the connection is listed and "subscribed-tf" is sent.  *)
Register(c) ==
    /\ Alive /\ hpc[c] = "register"
    /\ listed' = [listed EXCEPT ![want[c]] = @ \cup {c}]
    /\ hpc' = [hpc EXCEPT ![c] = "idle"]
    /\ want' = [want EXCEPT ![c] = NoSub]
    /\ UNCHANGED <<manager, conn, process, threads, stopper, fault>>

(* handle_disconnect: the manager is not told.  Then the object is destroyed.  *)
Unlisted(c) == [i \in Sub |-> listed[i] \ {c}]

Disconnect(c) ==
    /\ Ready(c)
    /\ listed' = Unlisted(c)
    /\ conn' = [conn EXCEPT ![c] = "gone"]
    /\ UNCHANGED <<manager, hpc, want, process, threads, stopper, fault>>

Handler(c) ==
    \/ SubscribeRefused(c)
    \/ \E s \in Stream : SubscribeStarts(c, s)
    \/ SubscribeJoins(c)
    \/ SubscribeDangles(c)
    \/ Register(c)

-----------------------------------------------------------------------------
(* The reader of the stream: handle_tf_stdout for every line, under the mutex. *)

(* A chunk holds several lines, and line_buf one more at the end: they are     *)
(* delivered without another look at running.                                  *)
ReaderLine(s) ==
    /\ Alive /\ rpc[s] = "loop"
    /\ lines[s] < MaxLines
    /\ lines' = [lines EXCEPT ![s] = @ + 1]
    /\ rpc' = [rpc EXCEPT ![s] = "lock"]
    /\ UNCHANGED <<manager, channel, process, wpc, left, to, stopper, fault>>

ReaderEnds(s) ==
    /\ Alive /\ rpc[s] = "loop"
    /\ ~running[s] \/ child[s] = "gone"
    /\ rpc' = [rpc EXCEPT ![s] = "done"]
    /\ UNCHANGED <<manager, channel, process, wpc, lines, left, to, stopper, fault>>

(* A line that does not complete a message notifies nobody; a message those    *)
(* whose frames it concerns and whose throttle has run out.                    *)
ReaderLocks(s) ==
    /\ Alive /\ rpc[s] = "lock" /\ mutex = "free"
    /\ mutex' = "reader"
    /\ left' \in SUBSET subs
    /\ rpc' = [rpc EXCEPT ![s] = "deliver"]
    /\ UNCHANGED <<subs, handle, phase, channel, process, wpc, lines, to, stopper, fault>>

(* on_tf_update copies the connections of one id under the channel's mutex ... *)
ReaderCopies(s) ==
    /\ Alive /\ rpc[s] = "deliver" /\ to = {}
    /\ \E i \in left : left' = left \ {i} /\ to' = listed[i]
    /\ UNCHANGED <<manager, channel, process, rpc, wpc, lines, stopper, fault>>

(* ... and sends to each without it.                                           *)
ReaderSends(s) ==
    /\ Alive /\ rpc[s] = "deliver"
    /\ \E c \in to :
          /\ to' = to \ {c}
          /\ fault' = IF conn[c] = "gone" THEN "dangling_send" ELSE fault
    /\ UNCHANGED <<manager, channel, process, rpc, wpc, lines, left, stopper>>

ReaderUnlocks(s) ==
    /\ Alive /\ rpc[s] = "deliver" /\ left = {} /\ to = {}
    /\ mutex' = "free"
    /\ rpc' = [rpc EXCEPT ![s] = "loop"]
    /\ UNCHANGED <<subs, handle, phase, channel, process, wpc, lines, left, to, stopper, fault>>

Reader(s) == ReaderEnds(s) \/ ReaderLocks(s) \/ ReaderCopies(s) \/ ReaderSends(s)
                           \/ ReaderUnlocks(s)

-----------------------------------------------------------------------------
(* The exit-waiter of the stream, and its on_exit.                             *)

WaiterGoto(s, from, to2) ==
    Alive /\ wpc[s] = from /\ ~freed[s] /\ wpc' = [wpc EXCEPT ![s] = to2]
WaiterKeeps ==
    UNCHANGED <<manager, channel, child, freed, rpc, lines, left, to, stopper, fault>>

WaiterReaps(s) ==
    /\ WaiterGoto(s, "wait", "exchange")
    /\ child[s] = "gone"
    /\ running' = [running EXCEPT ![s] = FALSE]
    /\ WaiterKeeps /\ UNCHANGED <<cleaned, joined>>

WaiterExchanges(s) ==
    /\ WaiterGoto(s, "exchange", IF cleaned[s] THEN "callback" ELSE "join")
    /\ cleaned' = [cleaned EXCEPT ![s] = TRUE]
    /\ WaiterKeeps /\ UNCHANGED <<running, joined>>

ReaderDone(s) == rpc[s] = "done"

WaiterJoins(s) ==
    /\ WaiterGoto(s, "join", "callback")
    /\ ReaderDone(s)
    /\ joined' = [joined EXCEPT ![s] = TRUE]
    /\ WaiterKeeps /\ UNCHANGED <<running, cleaned>>

(* It still uses the handle that stop_streaming has destroyed.                 *)
WaiterTouchesFreed(s) ==
    /\ Alive /\ freed[s] /\ child[s] = "gone"
    /\ wpc[s] \in {"wait", "exchange", "join"}
    /\ fault' = "use_after_free"
    /\ UNCHANGED <<manager, channel, process, threads, stopper>>

(* on_exit resets tf_stream_handle_, whichever stream it holds by now.         *)
OnExit(s) ==
    /\ Alive /\ wpc[s] = "callback" /\ mutex = "free" /\ phase # "destroyed"
    /\ wpc' = [wpc EXCEPT ![s] = "done"]
    /\ handle' = NoStream
    /\ IF handle = NoStream THEN UNCHANGED <<freed, fault>>
       ELSE Destroyed(handle) /\ fault' = FaultOfFree(handle)
    /\ UNCHANGED <<subs, mutex, phase, channel, child, running, cleaned, joined,
                   rpc, lines, left, to, stopper>>

OnExitDangles(s) ==
    /\ Alive /\ wpc[s] = "callback" /\ phase = "destroyed"
    /\ fault' = "use_after_free"
    /\ UNCHANGED <<manager, channel, process, threads, stopper>>

Waiter(s) ==
    \/ WaiterReaps(s) \/ WaiterExchanges(s) \/ WaiterJoins(s)
    \/ WaiterTouchesFreed(s) \/ OnExit(s) \/ OnExitDangles(s)

-----------------------------------------------------------------------------
(* stop_tf_stream, called by unsubscribe_tf and shutdown with the mutex held.  *)
BeginStop(s) ==
    /\ mutex' = "stopper" /\ handle' = NoStream
    /\ spc' = "signal" /\ target' = s

(* "Stop the stream if no more subscriptions".                                 *)
Last(i) == subs = {i} /\ handle # NoStream

UnsubscribeTf(i) ==
    /\ Alive
    /\ phase = "up" /\ mutex = "free" /\ spc = "idle"
    /\ i \in subs
    /\ subs' = subs \ {i}
    /\ IF Last(i) THEN BeginStop(handle) ELSE UNCHANGED <<mutex, handle, stopper>>
    /\ UNCHANGED <<phase, channel, process, threads, fault>>

(* shutdown, of a ROS restart: the subscriptions are cleared once the stream,  *)
(* if there is one, has been stopped.                                          *)
Shutdown ==
    /\ Alive /\ phase = "up" /\ mutex = "free" /\ spc = "idle"
    /\ phase' = "shut"
    /\ IF handle # NoStream THEN BeginStop(handle) /\ UNCHANGED subs
       ELSE /\ subs' = {} /\ spc' = "done"
            /\ UNCHANGED <<mutex, handle, target>>
    /\ UNCHANGED <<channel, process, threads, fault>>

StopGoto(from, to2) == Alive /\ spc = from /\ spc' = to2
StopKeeps == UNCHANGED <<manager, channel, threads, target, fault>>

(* SIGTERM, 500ms of grace, SIGKILL; then the shutdown pipe.                   *)
TermIsEnough(s) == child
Killed(s) == [child EXCEPT ![s] = IF @ = "up" THEN "killed" ELSE @]

StopSignals ==
    /\ StopGoto("signal", "exchange")
    /\ running' = [running EXCEPT ![target] = FALSE]
    /\ child' = Killed(target)
    /\ StopKeeps /\ UNCHANGED <<cleaned, joined, freed>>

StopExchanges ==
    /\ StopGoto("exchange", IF cleaned[target] THEN "free" ELSE "join")
    /\ cleaned' = [cleaned EXCEPT ![target] = TRUE]
    /\ StopKeeps /\ UNCHANGED <<child, running, joined, freed>>

StopJoins ==
    /\ StopGoto("join", "reap")
    /\ ReaderDone(target)
    /\ joined' = [joined EXCEPT ![target] = TRUE]
    /\ StopKeeps /\ UNCHANGED <<child, running, cleaned, freed>>

NotReaped == TRUE
Reaped == child[target] = "gone"

StopReaps ==
    /\ StopGoto("reap", "free")
    /\ Reaped
    /\ StopKeeps /\ UNCHANGED process

StopFrees ==
    /\ StopGoto("free", IF phase = "shut" THEN "done" ELSE "idle")
    /\ Destroyed(target) /\ fault' = FaultOfFree(target)
    /\ subs' = IF phase = "shut" THEN {} ELSE subs
    /\ mutex' = "free"
    /\ target' = NoStream
    /\ UNCHANGED <<handle, phase, channel, child, running, cleaned, joined, threads>>

Stop == StopSignals \/ StopExchanges \/ StopJoins \/ StopReaps \/ StopFrees

-----------------------------------------------------------------------------
(* The rest of restart_ros_subsystems: set_manager, then the last reference to *)
(* the old manager goes.  Its destructor finds shutting_down_ set and leaves a *)
(* stream that was started after shutdown to the destructor of its handle.     *)

Replace ==
    /\ Alive /\ phase = "shut" /\ spc = "done"
    /\ phase' = "replaced"
    /\ UNCHANGED <<subs, handle, mutex, channel, process, threads, stopper, fault>>

Destroy ==
    /\ Alive /\ phase = "replaced"
    /\ phase' = "destroyed"
    /\ handle' = NoStream
    /\ IF handle = NoStream THEN UNCHANGED <<freed, fault>>
       ELSE Destroyed(handle) /\ fault' = FaultOfFree(handle)
    /\ UNCHANGED <<subs, mutex, channel, child, running, cleaned, joined, threads, stopper>>

Restart == Replace \/ Destroy

-----------------------------------------------------------------------------
ChildKeeps == UNCHANGED <<manager, channel, running, cleaned, joined, freed, threads,
                          stopper, fault>>

ChildExits(s) ==
    /\ Alive /\ child[s] = "up"
    /\ child' = [child EXCEPT ![s] = "gone"]
    /\ ChildKeeps

ChildDies(s) ==
    /\ Alive /\ child[s] = "killed"
    /\ child' = [child EXCEPT ![s] = "gone"]
    /\ ChildKeeps

(* The stopper joins a reader that waits for the mutex the stopper holds.      *)
Stuck == spc = "join" /\ rpc[target] = "lock"

(* Nothing can happen any more: after an abort, in that deadlock, or with the  *)
(* manager and its clients gone.                                               *)
AtRest == phase \in {"replaced", "destroyed"} /\ \A c \in Conn : hpc[c] = "idle"
Ended == (~Alive \/ Stuck \/ AtRest) /\ UNCHANGED vars

Next ==
    \/ \E c \in Conn :
          (\E i \in Sub : SubscribeTf(c, i)) \/ Handler(c) \/ Disconnect(c)
    \/ \E s \in Stream :
          ReaderLine(s) \/ Reader(s) \/ Waiter(s) \/ ChildExits(s) \/ ChildDies(s)
    \/ \E i \in Sub : UnsubscribeTf(i)
    \/ Shutdown \/ Stop \/ Restart
    \/ Ended

Spec == Init /\ [][Next]_vars

(* Threads that can run do, a mutex that is free is granted, SIGKILL kills.    *)
(* No line has to come, no client to call, no stream to end, nobody to restart.*)
Fairness ==
    /\ \A c \in Conn : WF_vars(Handler(c))
    /\ \A s \in Stream :
          WF_vars(Reader(s)) /\ WF_vars(Waiter(s)) /\ WF_vars(ChildDies(s))
    /\ WF_vars(Stop) /\ WF_vars(Restart)

FairSpec == Spec /\ Fairness

-----------------------------------------------------------------------------
(* Every variable has its type, and the mutex its holder.                      *)
TypeOK ==
    /\ subs \subseteq Sub /\ handle \in Stream \cup {NoStream}
    /\ mutex \in {"free", "reader", "stopper"}
    /\ phase \in {"up", "shut", "replaced", "destroyed"}
    /\ listed \in [Sub -> SUBSET Conn] /\ conn \in [Conn -> {"open", "gone"}]
    /\ hpc \in [Conn -> {"idle", "subscribe", "register"}]
    /\ want \in [Conn -> Sub \cup {NoSub}]
    /\ child \in [Stream -> {"none", "up", "killed", "gone"}]
    /\ running \in [Stream -> BOOLEAN] /\ cleaned \in [Stream -> BOOLEAN]
    /\ joined \in [Stream -> BOOLEAN] /\ freed \in [Stream -> BOOLEAN]
    /\ rpc \in [Stream -> ReaderPC] /\ wpc \in [Stream -> WaiterPC]
    /\ lines \in [Stream -> 0..MaxLines]
    /\ left \subseteq Sub /\ to \subseteq Conn
    /\ spc \in StopPC /\ target \in Stream \cup {NoStream}
    /\ fault \in Faults
    /\ (mutex = "reader") = (\E s \in Stream : rpc[s] = "deliver")
    /\ (mutex = "stopper") = (target # NoStream)

(* However subscriptions, exits, stops and restarts interleave, two echo       *)
(* processes never run at once.                                                *)
OneStream == \A s, r \in Stream : Live(s) /\ Live(r) => s = r

(* A restart leaves no echo process of the old ROS domain behind, unless a     *)
(* subscription slips into the old manager after its shutdown.                 *)
NothingLeftBehind ==
    phase \in {"replaced", "destroyed"} /\ subs = {} => \A s \in Stream : ~Live(s)

(* A stop comes to its end, unless it joins a reader that waits for its mutex. *)
StopEnds == spc = "signal" ~> spc \in {"idle", "done"} \/ Stuck \/ ~Alive
=============================================================================
