------------------------------- MODULE RosCalls -------------------------------
(* Service calls, action calls and bag recordings: the other half of           *)
(* LocalRosStreamManager, with the handlers of RosChannel that drive it and    *)
(* the end a ROS restart puts to it.                                           *)
(*                                                                             *)
(* A service call runs SubprocessExecutor::execute in a thread of its own; an  *)
(* action or a bag is a streaming subprocess.  The manager knows a call by the *)
(* id the client gave it, the channel keeps the connections to answer under    *)
(* the same id, and each has a mutex of its own: what the two say of an id may *)
(* be about different calls.  A Call is one use of an id.                      *)
EXTENDS Naturals

CONSTANTS
    Conn,       \* WebSocket connections, each with the thread of its handlers
    Restarter,  \* the thread that serves a change of the ROS domain
    Id,         \* client-assigned call and bag ids
    MaxCalls    \* bound: the calls made in a behaviour

ASSUME MaxCallsAssumption == MaxCalls \in Nat
ASSUME RestarterAssumption == Restarter \notin Conn
ASSUME ClientAssumption == Conn # {} /\ Id # {}

VARIABLES
    kind,     \* call -> what it is, "none" before it is made
    id,       \* call -> the id it was made with
    by,       \* call -> the connection that made it
    active,   \* active_service_calls_
    threads,  \* service_threads_
    held,     \* action_calls_ and bag_recordings_: kind -> id -> call
    listed,   \* service_callers_, action_callers_, bag_subscribers_
    conn,     \* the connection object: open or gone
    copied,   \* the connections a thread has copied and not yet sent to
    phase,    \* the manager: up, at a stage of shutdown, or destroyed
    pc,       \* where the handler of a connection, or the restart, stands
    want,     \* the call it works on
    todo,     \* the handles the restart has still to stop
    child,    \* the subprocess of a call
    thread,   \* its service thread, or the exit-waiter of its stream
    reader,   \* the reader thread of its stream
    handle,   \* its StreamingHandle: who has it
    outcome,  \* history: what became of the result of a call
    strangers,\* history: connections that got the result of another's call
    taken,    \* history: the calls a cancel or a stop has taken over
    crossed,  \* history: calls told something another's process said
    twice,    \* history: calls with a second result
    fault     \* the undefined behaviour or abort reached, if any

calls == <<kind, id, by>>
manager == <<active, threads, held, phase>>
channel == <<listed, conn, copied>>
handlers == <<pc, want, todo>>
process == <<child, thread, reader, handle>>
history == <<outcome, strangers, taken, crossed, twice>>
vars == <<calls, manager, channel, handlers, process, history, fault>>

Call == 1..MaxCalls
NoCall == 0
Agent == Conn \cup {Restarter}
Streamed == {"action", "bag"}
Kind == {"service"} \cup Streamed
StopPC == {"signal", "exchange", "join", "free"}
HandlerPC == {"idle", "spawn", "track", "register", "notify", "unlist", "take", "stopped"}
                \cup StopPC
Phase == {"up", "threads", "action", "bag", "destroyed"}
Outcome == {"none", "heard", "early", "unlisted", "gone"}

(* The threads that tell clients something.                                    *)
Sender == ({"handler"} \X Agent) \cup ({"reader", "thread"} \X Call)

Alive == fault = "none"
Empty == [i \in Id |-> NoCall]
Holder(k) == held[kind[k]][id[k]]
Held == {held[s][i] : s \in Streamed, i \in Id} \ {NoCall}
Live(k) == child[k] \in {"new", "up", "closed", "killed"}

Init ==
    /\ kind = [k \in Call |-> "none"] /\ id = [k \in Call |-> CHOOSE i \in Id : TRUE]
    /\ by = [k \in Call |-> CHOOSE c \in Conn : TRUE]
    /\ active = {} /\ threads = {} /\ held = [s \in Streamed |-> Empty]
    /\ listed = [s \in Kind |-> [i \in Id |-> {}]] /\ conn = [c \in Conn |-> "open"]
    /\ copied = [s \in Sender |-> {}]
    /\ phase = "up"
    /\ pc = [a \in Agent |-> "idle"] /\ want = [a \in Agent |-> NoCall] /\ todo = {}
    /\ child = [k \in Call |-> "none"] /\ thread = [k \in Call |-> "none"]
    /\ reader = [k \in Call |-> "none"] /\ handle = [k \in Call |-> "none"]
    /\ outcome = [k \in Call |-> "none"] /\ strangers = [k \in Call |-> {}]
    /\ taken = {} /\ crossed = {} /\ twice = {}
    /\ fault = "none"

-----------------------------------------------------------------------------
(* The channel copies raw pointers to the connections listed under an id while *)
(* it holds its mutex and sends after it: nothing keeps a connection from its  *)
(* end in between.  The thread that copied goes on after its sends.            *)

Listed(k) == listed[kind[k]][id[k]]
Copies(s, C) == copied' = [copied EXCEPT ![s] = C]
Sent(s) == copied[s] = {}

CopyDone(s) == [copied EXCEPT ![s] = {}]

Sends(s) ==
    /\ Alive /\ ~Sent(s)
    /\ copied' = CopyDone(s)
    /\ fault' = IF \A c \in copied[s] : conn[c] = "open" THEN fault ELSE "gone_connection"
    /\ UNCHANGED <<calls, manager, listed, conn, handlers, process, history>>

(* The manager tells with its actions_mutex_ held, except of the end of a      *)
(* bag; start_bag tells "recording" under bags_mutex_.                         *)
Telling(m) ==
    \/ \E c \in Conn :
          /\ ~Sent(<<"handler", c>>)
          /\ pc[c] = IF m = "bag" THEN "register" ELSE "signal"
    \/ \E k \in Call :
          /\ m = "action" /\ kind[k] = "action"
          /\ ~Sent(<<"reader", k>>) \/ ~Sent(<<"thread", k>>)

(* The result of the call k, to the connections listed under its id, which are *)
(* listed no longer.                                                           *)

HasNotRegistered(k) ==
    \E c \in Conn : want[c] = k /\ pc[c] \in {"spawn", "track", "register"}

AnswerKeeps(k) == listed
AnswerTakes(k) == [listed EXCEPT ![kind[k]][id[k]] = {}]

Result(k) ==
    /\ listed' = AnswerTakes(k)
    /\ strangers' = [strangers EXCEPT ![k] = @ \cup (Listed(k) \ {by[k]})]
    /\ twice' = IF outcome[k] = "none" THEN twice ELSE twice \cup {k}
    /\ outcome' = [outcome EXCEPT ![k] =
          IF by[k] \in Listed(k) THEN "heard"
          ELSE IF conn[by[k]] = "gone" THEN "gone"
          ELSE IF HasNotRegistered(k) THEN "early" ELSE "unlisted"]

NoResult == UNCHANGED <<listed, strangers, twice, outcome>>

(* Handles destroyed by their unique_ptr: std::terminate if the reader of one  *)
(* of them has not been joined.                                                *)
Destroyed(S) ==
    /\ handle' = [k \in Call |-> IF k \in S THEN "freed" ELSE handle[k]]
    /\ fault' = IF \A k \in S : handle[k] = "joined" THEN fault ELSE "terminate"

-----------------------------------------------------------------------------
(* RosChannel: handlers, serial within one connection.  A call refused, for an *)
(* id in use or a process that cannot be forked, changes nothing.              *)

Ready(c) == Alive /\ conn[c] = "open" /\ pc[c] = "idle" /\ phase # "destroyed"

Makes(c, k, s, i) ==
    /\ kind[k] = "none" /\ \A r \in 1..(k - 1) : kind[r] # "none"
    /\ kind' = [kind EXCEPT ![k] = s]
    /\ id' = [id EXCEPT ![k] = i]
    /\ by' = [by EXCEPT ![k] = c]
    /\ want' = [want EXCEPT ![c] = k]

HandlerGoto(c, from, to) ==
    /\ Alive /\ pc[c] = from
    /\ pc' = [pc EXCEPT ![c] = to]

(* call_service claims the id ...                                              *)
AnyId(i) == TRUE
IdFree(i) == i \notin active

CallService(c, k, i) ==
    /\ Ready(c) /\ IdFree(i)
    /\ Makes(c, k, "service", i)
    /\ active' = active \cup {i}
    /\ pc' = [pc EXCEPT ![c] = "spawn"]
    /\ UNCHANGED <<threads, held, phase, channel, todo, process, history, fault>>

(* ... cleans up after threads that have ended and starts one (shutdown holds  *)
(* service_threads_mutex_ while it joins them) ...                             *)
Locked == phase = "threads"
Completed == {k \in Call : kind[k] = "service" /\ thread[k] = "done"}

SpawnService(c) ==
    /\ HandlerGoto(c, "spawn", "track")
    /\ ~Locked /\ phase # "destroyed"
    /\ threads' = threads \ Completed
    /\ thread' = [thread EXCEPT ![want[c]] = "exec"]
    /\ child' = [child EXCEPT ![want[c]] = "new"]
    /\ UNCHANGED <<calls, active, held, phase, channel, want, todo, reader, handle,
                   history, fault>>

(* ... which joins the others only now.                                        *)
TrackService(c) ==
    /\ HandlerGoto(c, "track", "register")
    /\ ~Locked /\ phase # "destroyed"
    /\ threads' = threads \cup {want[c]}
    /\ UNCHANGED <<calls, active, held, phase, channel, want, todo, process, history, fault>>

(* call_action and start_bag start their process under the lock of the map; a  *)
(* "recording" goes to who is still listed for an earlier bag with the id.     *)
AnyStreamId(s, i) == TRUE
StreamIdFree(s, i) == held[s][i] = NoCall

CallStream(c, k, s, i) ==
    /\ Ready(c) /\ ~Telling(s) /\ StreamIdFree(s, i)
    /\ Makes(c, k, s, i)
    /\ held' = [held EXCEPT ![s][i] = k]
    /\ child' = [child EXCEPT ![k] = "up"]
    /\ thread' = [thread EXCEPT ![k] = "wait"]
    /\ reader' = [reader EXCEPT ![k] = "loop"]
    /\ handle' = [handle EXCEPT ![k] = "open"]
    /\ pc' = [pc EXCEPT ![c] = "register"]
    /\ Copies(<<"handler", c>>, IF s = "bag" THEN listed["bag"][i] ELSE {})
    /\ UNCHANGED <<active, threads, phase, listed, conn, todo, history, fault>>

(* Back in the channel: only now is there somebody to answer.                  *)
Register(c) ==
    /\ HandlerGoto(c, "register", "idle") /\ Sent(<<"handler", c>>)
    /\ listed' = [listed EXCEPT ![kind[want[c]]][id[want[c]]] = @ \cup {c}]
    /\ want' = [want EXCEPT ![c] = NoCall]
    /\ UNCHANGED <<calls, manager, conn, copied, todo, process, history, fault>>

(* cancel_action and stop_bag take the handle of whoever's call out of the map *)
(* (cancel_action says so right away) and stop it outside the lock ...         *)
StillHeld(k) == held
TakenOut(k) == [held EXCEPT ![kind[k]][id[k]] = NoCall]

Takes(c, k) ==
    /\ Ready(c) /\ k \in Held /\ ~Telling(kind[k])
    /\ held' = TakenOut(k)
    /\ IF kind[k] = "action" THEN Result(k) ELSE NoResult
    /\ Copies(<<"handler", c>>, IF kind[k] = "action" THEN Listed(k) ELSE {})
    /\ taken' = taken \cup {k}
    /\ want' = [want EXCEPT ![c] = k]
    /\ pc' = [pc EXCEPT ![c] = "signal"]
    /\ UNCHANGED <<calls, active, threads, phase, conn, todo, process, crossed, fault>>

(* ... stop_bag then tells the subscribers of the id that it has stopped ...   *)
NotifyStopped(c) ==
    /\ HandlerGoto(c, "notify", "unlist")
    /\ phase # "destroyed"
    /\ crossed' = crossed \cup ({Holder(want[c])} \ {NoCall})
    /\ Copies(<<"handler", c>>, Listed(want[c]))
    /\ UNCHANGED <<calls, manager, listed, conn, want, todo, process, outcome, strangers,
                   taken, twice, fault>>

(* ... and the channel forgets whoever is listed under the id by now.          *)
Unlist(c) ==
    /\ HandlerGoto(c, "unlist", "idle") /\ Sent(<<"handler", c>>)
    /\ listed' = [listed EXCEPT ![kind[want[c]]][id[want[c]]] = {}]
    /\ want' = [want EXCEPT ![c] = NoCall]
    /\ UNCHANGED <<calls, manager, conn, copied, todo, process, history, fault>>

ManagerDangles(c) ==
    /\ Alive /\ phase = "destroyed" /\ pc[c] \in {"spawn", "track", "notify"}
    /\ fault' = "use_after_free"
    /\ UNCHANGED <<calls, manager, channel, handlers, process, history>>

(* handle_disconnect: the manager is not told, calls go on.                    *)
Remaining(c, s, i) == listed[s][i] \ {c}

Disconnect(c) ==
    /\ Ready(c)
    /\ listed' = [s \in Kind |-> [i \in Id |-> Remaining(c, s, i)]]
    /\ conn' = [conn EXCEPT ![c] = "gone"]
    /\ UNCHANGED <<calls, manager, copied, handlers, process, history, fault>>

Handler(c) ==
    \/ SpawnService(c) \/ TrackService(c) \/ Register(c)
    \/ NotifyStopped(c) \/ Unlist(c) \/ ManagerDangles(c) \/ Disconnect(c)
    \/ \E k \in Call, i \in Id : CallService(c, k, i)
    \/ \E k \in Call, s \in Streamed, i \in Id : CallStream(c, k, s, i)
    \/ \E k \in Call : Takes(c, k)

-----------------------------------------------------------------------------
(* stop_streaming, by a handler or by the restart: SIGTERM and SIGKILL, then   *)
(* whoever first marks the handle joins its reader, and the handle goes in any *)
(* case.  The module SubprocessStream has the detail.                          *)

StopKeeps == UNCHANGED <<calls, manager, channel, want, todo, thread, reader, history>>

StopSignals(a) ==
    /\ HandlerGoto(a, "signal", "exchange") /\ Sent(<<"handler", a>>)
    /\ child' = [child EXCEPT ![want[a]] = IF @ = "up" THEN "killed" ELSE @]
    /\ StopKeeps /\ UNCHANGED <<handle, fault>>

StopExchanges(a) ==
    /\ HandlerGoto(a, "exchange", IF handle[want[a]] = "open" THEN "join" ELSE "free")
    /\ handle' = [handle EXCEPT ![want[a]] = IF @ = "open" THEN "claimed" ELSE @]
    /\ StopKeeps /\ UNCHANGED <<child, fault>>

StopJoins(a) ==
    /\ HandlerGoto(a, "join", "free")
    /\ reader[want[a]] = "done" /\ child[want[a]] = "gone"
    /\ handle' = [handle EXCEPT ![want[a]] = "joined"]
    /\ StopKeeps /\ UNCHANGED <<child, fault>>

StopFrees(a) ==
    /\ HandlerGoto(a, "free", IF a = Restarter THEN "stopped"
                              ELSE IF kind[want[a]] = "bag" THEN "notify" ELSE "unlist")
    /\ Destroyed({want[a]})
    /\ StopKeeps /\ UNCHANGED child

Stop(a) == StopSignals(a) \/ StopExchanges(a) \/ StopJoins(a) \/ StopFrees(a)

-----------------------------------------------------------------------------
(* shutdown, of a ROS restart.  It refuses nothing: a call may still be made   *)
(* behind its back.  It holds service_threads_mutex_ until every thread is     *)
(* joined ...                                                                  *)
Shutdown ==
    /\ Alive /\ phase = "up"
    /\ phase' = "threads"
    /\ UNCHANGED <<calls, active, threads, held, channel, handlers, process, history, fault>>

ShutdownJoins ==
    /\ Alive /\ phase = "threads" /\ threads \subseteq Completed
    /\ phase' = "action"
    /\ threads' = {}
    /\ pc' = [pc EXCEPT ![Restarter] = "take"]
    /\ UNCHANGED <<calls, active, held, channel, want, todo, process, history, fault>>

(* ... then it empties the map of the actions, stops them, and the same for    *)
(* the bags.                                                                   *)
ShutdownTakes ==
    /\ HandlerGoto(Restarter, "take", "stopped") /\ ~Telling(phase)
    /\ todo' = {held[phase][i] : i \in Id} \ {NoCall}
    /\ held' = [held EXCEPT ![phase] = Empty]
    /\ taken' = taken \cup todo'
    /\ UNCHANGED <<calls, active, threads, phase, channel, want, process, outcome, strangers,
                   crossed, twice, fault>>

ShutdownNext ==
    /\ HandlerGoto(Restarter, "stopped", "signal")
    /\ \E k \in todo :
          /\ want' = [want EXCEPT ![Restarter] = k]
          /\ todo' = todo \ {k}
    /\ UNCHANGED <<calls, manager, channel, process, history, fault>>

ShutdownBags ==
    /\ HandlerGoto(Restarter, "stopped", "take")
    /\ todo = {} /\ phase = "action"
    /\ phase' = "bag"
    /\ want' = [want EXCEPT ![Restarter] = NoCall]
    /\ UNCHANGED <<calls, active, threads, held, channel, todo, process, history, fault>>

(* The last reference to the manager goes.  Its destructor finds the shutdown  *)
(* done: threads and streams started since then end by std::terminate.         *)
Destroy ==
    /\ HandlerGoto(Restarter, "stopped", "idle")
    /\ todo = {} /\ phase = "bag"
    /\ phase' = "destroyed"
    /\ want' = [want EXCEPT ![Restarter] = NoCall]
    /\ active' = {} /\ threads' = {} /\ held' = [s \in Streamed |-> Empty]
    /\ handle' = [k \in Call |-> IF k \in Held THEN "freed" ELSE handle[k]]
    /\ fault' = IF threads = {} /\ \A k \in Held : handle[k] = "joined"
                THEN fault ELSE "terminate"
    /\ UNCHANGED <<calls, channel, todo, child, thread, reader, history>>

Restart ==
    Shutdown \/ ShutdownJoins \/ ShutdownTakes \/ ShutdownNext \/ ShutdownBags \/ Destroy

-----------------------------------------------------------------------------
(* The thread of a service call, and execute in it.                            *)

ThreadGoto(k, from, to) ==
    /\ Alive /\ thread[k] = from
    /\ thread' = [thread EXCEPT ![k] = to]
ThreadKeeps == UNCHANGED <<calls, threads, held, phase, conn, handlers, reader, handle,
                           taken, crossed, fault>>

(* Both outputs of the child are at their end ...                              *)
ExecEnds(k) ==
    /\ ThreadGoto(k, "exec", "reap")
    /\ child[k] \in {"closed", "gone"}
    /\ ThreadKeeps /\ NoResult /\ UNCHANGED <<copied, active, child>>

(* ... or the timeout passes: SIGKILL to the process group, which a child that *)
(* has not got to its setpgid is not in.                                       *)
ExecTimesOut(k) ==
    /\ ThreadGoto(k, "exec", "reap")
    /\ child' = [child EXCEPT ![k] = IF @ \in {"up", "closed"} THEN "killed" ELSE @]
    /\ ThreadKeeps /\ NoResult /\ UNCHANGED <<copied, active>>

(* In both cases waitpid has no limit.                                         *)
ExecReaps(k) ==
    /\ ThreadGoto(k, "reap", "notify")
    /\ child[k] = "gone"
    /\ ThreadKeeps /\ NoResult /\ UNCHANGED <<copied, active, child>>

(* notify_service_result, and on_service_result of the channel: the callers of *)
(* the id registered so far get the answer and are forgotten.                  *)
Notify(k) ==
    /\ ThreadGoto(k, "notify", "erase") /\ phase # "destroyed"
    /\ Result(k) /\ Copies(<<"thread", k>>, Listed(k))
    /\ ThreadKeeps /\ UNCHANGED <<active, child>>

(* The id is free again.                                                       *)
Erased(k) == active \ {id[k]}

Erase(k) ==
    /\ ThreadGoto(k, "erase", "done") /\ Sent(<<"thread", k>>) /\ phase # "destroyed"
    /\ active' = Erased(k)
    /\ ThreadKeeps /\ NoResult /\ UNCHANGED <<copied, child>>

(* A thread shutdown has not known of uses the manager it was started by.      *)
ThreadDangles(k) ==
    /\ Alive /\ phase = "destroyed" /\ thread[k] \in {"notify", "erase"}
    /\ Sent(<<"thread", k>>)
    /\ fault' = "use_after_free"
    /\ UNCHANGED <<calls, manager, channel, handlers, process, history>>

Service(k) ==
    \/ ExecEnds(k) \/ ExecTimesOut(k) \/ ExecReaps(k)
    \/ Notify(k) \/ Erase(k) \/ ThreadDangles(k)

-----------------------------------------------------------------------------
(* The reader and the exit-waiter of a stream.                                 *)

StreamKeeps == UNCHANGED <<calls, active, threads, phase, conn, handlers, child, taken>>

(* handle_action_stdout finds an action by the id: "---" sends what has come   *)
(* since the last one as feedback of that action.                              *)
Feedback(k) ==
    /\ Alive /\ reader[k] = "loop" /\ phase # "destroyed"
    /\ kind[k] = "action" /\ ~Telling("action") /\ Holder(k) # NoCall
    /\ Copies(<<"reader", k>>, Listed(k))
    /\ crossed' = crossed \cup ({Holder(k)} \ {k})
    /\ StreamKeeps /\ NoResult /\ UNCHANGED <<held, thread, reader, handle, fault>>

ReaderEnds(k) ==
    /\ Alive /\ reader[k] = "loop" /\ child[k] \in {"killed", "gone"}
    /\ Sent(<<"reader", k>>)
    /\ reader' = [reader EXCEPT ![k] = "done"]
    /\ StreamKeeps /\ NoResult /\ UNCHANGED <<held, copied, thread, handle, crossed, fault>>

SkipsJoin(k) == "callback"
AfterReap(k) == IF handle[k] = "open" THEN "join" ELSE "callback"

WaiterReaps(k) ==
    /\ ThreadGoto(k, "wait", AfterReap(k))
    /\ child[k] = "gone" /\ handle[k] # "freed"
    /\ handle' = [handle EXCEPT ![k] = IF @ = "open" THEN "claimed" ELSE @]
    /\ StreamKeeps /\ NoResult /\ UNCHANGED <<held, copied, reader, crossed, fault>>

WaiterJoins(k) ==
    /\ ThreadGoto(k, "join", "callback")
    /\ reader[k] = "done" /\ handle[k] # "freed"
    /\ handle' = [handle EXCEPT ![k] = "joined"]
    /\ StreamKeeps /\ NoResult /\ UNCHANGED <<held, copied, reader, crossed, fault>>

(* on_exit of an action ends whatever action has the id by now ...             *)
ActionExits(k) ==
    /\ ThreadGoto(k, "callback", "done")
    /\ kind[k] = "action" /\ ~Telling("action") /\ phase # "destroyed"
    /\ IF Holder(k) = NoCall
       THEN NoResult /\ UNCHANGED <<held, copied, handle, crossed, fault>>
       ELSE /\ Result(Holder(k)) /\ Copies(<<"thread", k>>, Listed(Holder(k)))
            /\ crossed' = crossed \cup ({Holder(k)} \ {k})
            /\ held' = TakenOut(k)
            /\ Destroyed({Holder(k)})
    /\ StreamKeeps /\ UNCHANGED reader

(* ... and that of a bag tells the subscribers of the id, and leaves the bag:  *)
(* after a stop_bag they are told "stopped" twice.                             *)
BagExits(k) ==
    /\ ThreadGoto(k, "callback", "done")
    /\ kind[k] = "bag" /\ phase # "destroyed"
    /\ crossed' = crossed \cup ({Holder(k)} \ {k, NoCall})
    /\ Copies(<<"thread", k>>, Listed(k))
    /\ StreamKeeps /\ NoResult /\ UNCHANGED <<held, reader, handle, fault>>

(* The waiter uses a handle a stop has destroyed, or either thread a manager   *)
(* that is gone.                                                               *)
StreamDangles(k) ==
    /\ Alive /\ kind[k] \in Streamed
    /\ \/ handle[k] = "freed" /\ child[k] = "gone" /\ thread[k] \in {"wait", "join"}
       \/ phase = "destroyed" /\ thread[k] = "callback"
       \/ phase = "destroyed" /\ reader[k] = "loop" /\ Sent(<<"reader", k>>)
    /\ fault' = "use_after_free"
    /\ UNCHANGED <<calls, manager, channel, handlers, process, history>>

Stream(k) ==
    \/ Feedback(k) \/ ReaderEnds(k) \/ WaiterReaps(k) \/ WaiterJoins(k)
    \/ ActionExits(k) \/ BagExits(k) \/ StreamDangles(k)

-----------------------------------------------------------------------------
(* The ros2 processes.                                                         *)

ChildGoes(k, from, to) ==
    /\ Alive /\ child[k] \in from
    /\ child' = [child EXCEPT ![k] = to]
    /\ UNCHANGED <<calls, manager, channel, handlers, thread, reader, handle, history, fault>>

(* The child of execute calls setpgid and execs.                               *)
ChildStarts(k) == ChildGoes(k, {"new"}, "up")
(* It closes its outputs and lives on.                                         *)
ChildCloses(k) == kind[k] = "service" /\ ChildGoes(k, {"up"}, "closed")
ChildExits(k) == ChildGoes(k, {"new", "up", "closed"}, "gone")
ChildDies(k) == ChildGoes(k, {"killed"}, "gone")

Process(k) == ChildStarts(k) \/ ChildCloses(k) \/ ChildExits(k) \/ ChildDies(k)

(* Nothing can happen after an abort, nor with the manager or all clients gone.*)
AtRest == phase = "destroyed" \/ \A c \in Conn : conn[c] = "gone"
Ended == (~Alive \/ AtRest) /\ UNCHANGED vars

Next ==
    \/ \E c \in Conn : Handler(c)
    \/ \E a \in Agent : Stop(a)
    \/ \E s \in Sender : Sends(s)
    \/ Restart
    \/ \E k \in Call : Service(k) \/ Stream(k) \/ Process(k)
    \/ Ended

Spec == Init /\ [][Next]_vars

-----------------------------------------------------------------------------
(* Every variable has its type.                                                *)
TypeOK ==
    /\ kind \in [Call -> Kind \cup {"none"}] /\ id \in [Call -> Id] /\ by \in [Call -> Conn]
    /\ active \subseteq Id /\ threads \subseteq Call
    /\ held \in [Streamed -> [Id -> Call \cup {NoCall}]]
    /\ listed \in [Kind -> [Id -> SUBSET Conn]] /\ conn \in [Conn -> {"open", "gone"}]
    /\ copied \in [Sender -> SUBSET Conn]
    /\ phase \in Phase
    /\ pc \in [Agent -> HandlerPC] /\ want \in [Agent -> Call \cup {NoCall}]
    /\ todo \subseteq Call
    /\ child \in [Call -> {"none", "new", "up", "closed", "killed", "gone"}]
    /\ thread \in [Call -> {"none", "exec", "reap", "notify", "erase", "wait", "join",
                            "callback", "done"}]
    /\ reader \in [Call -> {"none", "loop", "done"}]
    /\ handle \in [Call -> {"none", "open", "claimed", "joined", "freed"}]
    /\ outcome \in [Call -> Outcome] /\ strangers \in [Call -> SUBSET Conn]
    /\ taken \subseteq Call /\ crossed \subseteq Call /\ twice \subseteq Call
    /\ fault \in {"none", "terminate", "use_after_free", "gone_connection"}

(* No two service calls with one id run at a time, and no service or action    *)
(* has a second result: a cancel, an exit and a restart that meet tell it once *)
(* (the "stopped" of a bag, which is not a result, may come twice).            *)
AnsweredOnce ==
    /\ twice = {}
    /\ \A k, r \in Call : k # r /\ id[k] = id[r] => ~
          (thread[k] \in {"exec", "reap", "notify"} /\ thread[r] \in {"exec", "reap", "notify"})

(* A client that stays misses the result of its call for two reasons only: the *)
(* result came before the channel had registered the client, or the end of a   *)
(* cancel of an earlier call with the id has unregistered it again.  Somebody  *)
(* else's result reaches it only while it is registered for an own call with   *)
(* the same id: the result came too early, or a restart, which tells nobody,   *)
(* has stopped its action.                                                     *)
AstrayOnlyByRace ==
    /\ \A k \in Call : outcome[k] = "unlisted" =>
          \E r \in taken \ {k} : kind[r] = kind[k] /\ id[r] = id[k]
    /\ \A r \in Call : \A c \in strangers[r] :
          \E k \in Call \ {r} :
              /\ by[k] = c /\ kind[k] = kind[r] /\ id[k] = id[r]
              /\ outcome[k] = "early" \/ (outcome[k] = "none" /\ k \in taken)

(* The output or the end of one process is taken for that of another's call    *)
(* only after a stop of an earlier call with the same id.                      *)
CrossedOnlyAfterStop ==
    \A r \in crossed : \E k \in taken \ {r} : kind[k] = kind[r] /\ id[k] = id[r]

(* As long as the manager is up and nothing is cancelled or stopped, calls may *)
(* come and end in any order: no handle, thread or manager is used after its   *)
(* end.  A connection is, by a send, but only if it has disconnected since it  *)
(* was copied: whom the channel lists is there, and who left is not listed     *)
(* again by a handler or an answer that was under way.                         *)
OnlyStopBreaks ==
    /\ phase = "up" /\ taken = {} => fault \in {"none", "gone_connection"}
    /\ \A s \in Kind, i \in Id : \A c \in listed[s][i] : conn[c] = "open"

(* A process that runs has a thread, is in a map or is being stopped: none is  *)
(* forgotten when calls, cancels, exits and a restart cross each other.        *)
NoProcessForgotten ==
    Alive => \A k \in Call : Live(k) =>
        k \in Held \/ k \in todo \/ thread[k] \in {"exec", "reap"} \/ \E a \in Agent : want[a] = k
=============================================================================
