------------------------------- MODULE RosTopics -------------------------------
(* Topic subscriptions: the topic half of LocalRosStreamManager, the handlers  *)
(* of RosChannel that drive it, and the end a ROS restart puts to the manager. *)
(*                                                                             *)
(* The subscriptions of a topic share one "ros2 topic echo".  Everything done  *)
(* under topics_mutex_ is one step, since nothing waits while it holds it; the *)
(* stops of streams happen outside it, in the thread of the client that gave   *)
(* the last subscription up.  Of start_streaming and stop_streaming only what  *)
(* meets the maps is kept: the module SubprocessStream has the rest.           *)
CONSTANTS
    Conn,        \* WebSocket connections, each with the thread of its handlers
    Restarter,   \* the thread that serves a change of the ROS domain
    Sub,         \* client-assigned subscription ids
    Topic,       \* topics
    Stream,      \* StreamingHandle objects; each is started at most once
    NoSub, NoTopic, NoStream  \* none of them

ASSUME NoneAssumption ==
    NoSub \notin Sub /\ NoTopic \notin Topic /\ NoStream \notin Stream
ASSUME RestarterAssumption == Restarter \notin Conn

VARIABLES
    topicOf,  \* subscriptions_: id -> topic
    ids,      \* topic_streams_: topic -> TopicStream::subscription_ids
    stream,   \* topic_streams_: topic -> TopicStream::handle
    buffer,   \* topic -> the streams whose lines are in TopicStream::buffer
    phase,    \* the manager: up, shut, or replaced and destroyed
    listed,   \* RosChannel::topic_subscribers_: id -> connections
    conn,     \* the connection object: open or gone
    want,     \* the id a handler works on
    pc,       \* where the handler of a connection, or the restart, stands
    target,   \* the stream it stops
    todo,     \* the streams it has still to stop
    topic,    \* topic_copy in the callbacks of a stream
    child,    \* stream -> the subprocess
    running,  \* StreamingHandle::running, or a byte in shutdown_pipe
    cleaned,  \* StreamingHandle::cleaned
    joined,   \* the reader thread has been joined
    freed,    \* the handle has been destroyed
    rpc,      \* where the reader of a stream stands
    wpc,      \* where its exit-waiter stands
    stopped,  \* history: the streams a stop has taken over
    garbled,  \* history: topics with a message made of two streams' lines
    fault     \* the undefined behaviour or abort reached, if any

maps == <<topicOf, ids, stream, buffer>>
channel == <<listed, conn>>
handlers == <<want, pc, target, todo>>
process == <<topic, child, running, cleaned, joined, freed>>
history == <<stopped, garbled>>
vars == <<maps, phase, channel, handlers, process, rpc, wpc, history, fault>>

Agent == Conn \cup {Restarter}
StopPC == {"signal", "exchange", "join", "reap", "free"}
HandlerPC == {"idle", "subscribe", "register", "unsubscribe", "unlist", "stopped"} \cup StopPC
ReaderPC == {"none", "loop", "done"}
WaiterPC == {"none", "wait", "join", "callback", "done"}

Alive == fault = "none"
Live(s) == child[s] \in {"up", "killed"}
Subscribed == {i \in Sub : topicOf[i] # NoTopic}
Echoes == {stream[t] : t \in Topic} \ {NoStream}

(* Handles destroyed by their unique_ptr: std::terminate if the reader of one  *)
(* of them has not been joined.                                                *)
Destroyed(S) ==
    /\ freed' = [s \in Stream |-> freed[s] \/ s \in S]
    /\ fault' = IF \A s \in S : joined[s] THEN fault ELSE "terminate"

Init ==
    /\ topicOf = [i \in Sub |-> NoTopic]
    /\ ids = [t \in Topic |-> {}] /\ stream = [t \in Topic |-> NoStream]
    /\ buffer = [t \in Topic |-> {}]
    /\ phase = "up"
    /\ listed = [i \in Sub |-> {}] /\ conn = [c \in Conn |-> "open"]
    /\ want = [c \in Conn |-> NoSub] /\ pc = [a \in Agent |-> "idle"]
    /\ target = [a \in Agent |-> NoStream] /\ todo = [a \in Agent |-> {}]
    /\ topic = [s \in Stream |-> NoTopic] /\ child = [s \in Stream |-> "none"]
    /\ running = [s \in Stream |-> FALSE] /\ cleaned = [s \in Stream |-> FALSE]
    /\ joined = [s \in Stream |-> FALSE] /\ freed = [s \in Stream |-> FALSE]
    /\ rpc = [s \in Stream |-> "none"] /\ wpc = [s \in Stream |-> "none"]
    /\ stopped = {} /\ garbled = {}
    /\ fault = "none"

-----------------------------------------------------------------------------
(* RosChannel: handlers, serial within one connection.  A handler uses the     *)
(* manager the channel points to when it begins, which may be destroyed before *)
(* the handler has got into it.  Which id it is about shows from there on.     *)

Ready(c) == Alive /\ conn[c] = "open" /\ pc[c] = "idle"

Request(c, place) ==
    /\ Ready(c) /\ phase # "destroyed"
    /\ pc' = [pc EXCEPT ![c] = place]
    /\ UNCHANGED <<maps, phase, channel, want, target, todo, process, rpc, wpc, history, fault>>

SubscribeTopic(c) == Request(c, "subscribe")
UnsubscribeTopic(c) == Request(c, "unsubscribe")

InManager(c, place) == Alive /\ pc[c] = place /\ phase # "destroyed"

ManagerDangles(c) ==
    /\ Alive /\ pc[c] \in {"subscribe", "unsubscribe"} /\ phase = "destroyed"
    /\ fault' = "use_after_free"
    /\ UNCHANGED <<maps, phase, channel, handlers, process, rpc, wpc, history>>

Answered(c) ==
    /\ pc' = [pc EXCEPT ![c] = "idle"]
    /\ want' = [want EXCEPT ![c] = NoSub]
    /\ UNCHANGED <<target, todo>>

(* subscribe_topic refuses an id in use; the stream may fail to start.         *)
SubscribeFails(c) ==
    /\ InManager(c, "subscribe")
    /\ Subscribed # {} \/ \E t \in Topic : stream[t] = NoStream
    /\ Answered(c)
    /\ UNCHANGED <<maps, phase, channel, process, rpc, wpc, history, fault>>

Adds(c, i, t) ==
    /\ i \notin Subscribed
    /\ topicOf' = [topicOf EXCEPT ![i] = t]
    /\ ids' = [ids EXCEPT ![t] = @ \cup {i}]
    /\ pc' = [pc EXCEPT ![c] = "register"]
    /\ want' = [want EXCEPT ![c] = i]
    /\ UNCHANGED <<target, todo>>

SubscribeJoins(c, i, t) ==
    /\ InManager(c, "subscribe")
    /\ stream[t] # NoStream
    /\ Adds(c, i, t)
    /\ UNCHANGED <<stream, buffer, phase, channel, process, rpc, wpc, history, fault>>

AlwaysStarts(t) == TRUE
NeedsStream(t) == stream[t] = NoStream

SubscribeStarts(c, i, t, s) ==
    /\ InManager(c, "subscribe")
    /\ NeedsStream(t) /\ child[s] = "none"
    /\ Adds(c, i, t)
    /\ stream' = [stream EXCEPT ![t] = s]
    /\ buffer' = [buffer EXCEPT ![t] = {}]
    /\ topic' = [topic EXCEPT ![s] = t]
    /\ child' = [child EXCEPT ![s] = "up"]
    /\ running' = [running EXCEPT ![s] = TRUE]
    /\ rpc' = [rpc EXCEPT ![s] = "loop"]
    /\ wpc' = [wpc EXCEPT ![s] = "wait"]
    /\ UNCHANGED <<phase, channel, cleaned, joined, freed, history, fault>>

(* Back in the channel: the connection is listed and "subscribed" is sent.     *)
Register(c) ==
    /\ Alive /\ pc[c] = "register"
    /\ listed' = [listed EXCEPT ![want[c]] = @ \cup {c}]
    /\ Answered(c)
    /\ UNCHANGED <<maps, phase, conn, process, rpc, wpc, history, fault>>

(* unsubscribe_topic, of whoever's subscription: an unknown id is refused ...  *)
UnsubscribeFails(c) ==
    /\ InManager(c, "unsubscribe")
    /\ Subscribed # Sub
    /\ Answered(c)
    /\ UNCHANGED <<maps, phase, channel, process, rpc, wpc, history, fault>>

(* ... and the last one takes the stream out of the map, to be stopped.        *)
Last(i) == ids[topicOf[i]] = {i}

UnsubscribeTakes(c, i) ==
    /\ InManager(c, "unsubscribe")
    /\ i \in Subscribed
    /\ topicOf' = [topicOf EXCEPT ![i] = NoTopic]
    /\ ids' = [ids EXCEPT ![topicOf[i]] = @ \ {i}]
    /\ want' = [want EXCEPT ![c] = i]
    /\ IF Last(i)
       THEN /\ stream' = [stream EXCEPT ![topicOf[i]] = NoStream]
            /\ buffer' = [buffer EXCEPT ![topicOf[i]] = {}]
            /\ target' = [target EXCEPT ![c] = stream[topicOf[i]]]
            /\ stopped' = stopped \cup {stream[topicOf[i]]}
            /\ pc' = [pc EXCEPT ![c] = "signal"]
       ELSE /\ pc' = [pc EXCEPT ![c] = "unlist"]
            /\ UNCHANGED <<stream, buffer, target, stopped>>
    /\ UNCHANGED <<phase, channel, todo, process, rpc, wpc, garbled, fault>>

Unlist(c) ==
    /\ Alive /\ pc[c] = "unlist"
    /\ listed' = [listed EXCEPT ![want[c]] = @ \ {c}]
    /\ Answered(c)
    /\ UNCHANGED <<maps, phase, conn, process, rpc, wpc, history, fault>>

(* handle_disconnect: the manager is not told.                                 *)
Disconnect(c) ==
    /\ Ready(c)
    /\ listed' = [i \in Sub |-> listed[i] \ {c}]
    /\ conn' = [conn EXCEPT ![c] = "gone"]
    /\ UNCHANGED <<maps, phase, handlers, process, rpc, wpc, history, fault>>

Handler(c) ==
    \/ SubscribeTopic(c) \/ UnsubscribeTopic(c) \/ ManagerDangles(c) \/ Disconnect(c)
    \/ SubscribeFails(c) \/ Register(c)
    \/ UnsubscribeFails(c) \/ Unlist(c)
    \/ \E i \in Sub : UnsubscribeTakes(c, i)
    \/ \E i \in Sub, t \in Topic : SubscribeJoins(c, i, t)
    \/ \E i \in Sub, t \in Topic, s \in Stream : SubscribeStarts(c, i, t, s)

-----------------------------------------------------------------------------
(* stop_streaming, by the client that unsubscribed or by the restart.          *)

StopGoto(a, from, to) ==
    Alive /\ pc[a] = from /\ pc' = [pc EXCEPT ![a] = to]
StopKeeps ==
    UNCHANGED <<maps, phase, channel, want, topic, rpc, wpc, history>>

(* SIGTERM, 500ms of grace, SIGKILL; then the shutdown pipe.                   *)
Killed(s) == [child EXCEPT ![s] = IF @ = "up" THEN "killed" ELSE @]

StopSignals(a) ==
    /\ StopGoto(a, "signal", "exchange")
    /\ running' = [running EXCEPT ![target[a]] = FALSE]
    /\ child' = Killed(target[a])
    /\ StopKeeps /\ UNCHANGED <<target, todo, cleaned, joined, freed, fault>>

StopExchanges(a) ==
    /\ StopGoto(a, "exchange", IF cleaned[target[a]] THEN "free" ELSE "join")
    /\ cleaned' = [cleaned EXCEPT ![target[a]] = TRUE]
    /\ StopKeeps /\ UNCHANGED <<target, todo, child, running, joined, freed, fault>>

(* Whoever comes first joins the reader and then waits for the child ...       *)
StopJoins(a) ==
    /\ StopGoto(a, "join", "reap")
    /\ rpc[target[a]] = "done"
    /\ joined' = [joined EXCEPT ![target[a]] = TRUE]
    /\ StopKeeps /\ UNCHANGED <<target, todo, child, running, cleaned, freed, fault>>

NotReaped(s) == TRUE
Reaped(s) == child[s] = "gone"

(* ... and the handle goes in any case.                                        *)
StopFrees(a) ==
    /\ \/ StopGoto(a, "free", IF a = Restarter THEN "stopped" ELSE "unlist")
       \/ /\ StopGoto(a, "reap", IF a = Restarter THEN "stopped" ELSE "unlist")
          /\ Reaped(target[a])
    /\ Destroyed({target[a]})
    /\ target' = [target EXCEPT ![a] = NoStream]
    /\ StopKeeps /\ UNCHANGED <<todo, child, running, cleaned, joined>>

Stop(a) == StopSignals(a) \/ StopExchanges(a) \/ StopJoins(a) \/ StopFrees(a)

-----------------------------------------------------------------------------
Emptied ==
    /\ topicOf' = [i \in Sub |-> NoTopic]
    /\ ids' = [t \in Topic |-> {}] /\ stream' = [t \in Topic |-> NoStream]
    /\ buffer' = [t \in Topic |-> {}]

(* shutdown, of a ROS restart: the maps are emptied, then the streams stopped  *)
(* one by one.  No subscription is refused meanwhile.                          *)
Shutdown ==
    /\ Alive /\ phase = "up"
    /\ phase' = "shut"
    /\ Emptied
    /\ todo' = [todo EXCEPT ![Restarter] = Echoes]
    /\ stopped' = stopped \cup Echoes
    /\ pc' = [pc EXCEPT ![Restarter] = "stopped"]
    /\ UNCHANGED <<channel, want, target, process, rpc, wpc, garbled, fault>>

ShutdownNext ==
    /\ Alive /\ pc[Restarter] = "stopped"
    /\ \E s \in todo[Restarter] :
          /\ target' = [target EXCEPT ![Restarter] = s]
          /\ todo' = [todo EXCEPT ![Restarter] = @ \ {s}]
    /\ pc' = [pc EXCEPT ![Restarter] = "signal"]
    /\ UNCHANGED <<maps, phase, channel, want, process, rpc, wpc, history, fault>>

(* set_manager of the channel, and the last reference to the old manager goes: *)
(* a handler that has read it before finds it shut or destroyed.  Its          *)
(* destructor finds shutting_down_ set: a stream that was started after        *)
(* shutdown is left to the destructor of its handle.                           *)
Destroy ==
    /\ Alive /\ phase = "shut" /\ pc[Restarter] = "stopped" /\ todo[Restarter] = {}
    /\ phase' = "destroyed"
    /\ Destroyed(Echoes)
    /\ Emptied
    /\ UNCHANGED <<channel, handlers, topic, child, running, cleaned, joined, rpc, wpc, history>>

Restart == Shutdown \/ ShutdownNext \/ Destroy

-----------------------------------------------------------------------------
(* The reader of a stream.  The lines of a chunk it has read while running was *)
(* set are all handled, whatever becomes of running, so no line depends on it; *)
(* one more, left in line_buf, may follow when the loop has ended.             *)

ReaderKeeps == UNCHANGED <<phase, channel, handlers, process, wpc, stopped, fault>>

ReaderIgnores(s) == UNCHANGED <<maps, garbled>>

(* handle_topic_stdout finds the TopicStream by the name of the topic, if      *)
(* there is one: text goes into its buffer, "---" delivers what is in it to    *)
(* the subscribers of the topic (those whose throttle allows it).              *)
ReaderText(s) ==
    /\ stream[topic[s]] # NoStream
    /\ buffer' = [buffer EXCEPT ![topic[s]] = @ \cup {s}]
    /\ UNCHANGED <<topicOf, ids, stream, garbled>>

ReaderSeparator(s) ==
    /\ stream[topic[s]] # NoStream
    /\ buffer' = [buffer EXCEPT ![topic[s]] = {}]
    /\ garbled' = IF \E r, q \in buffer[topic[s]] : r # q
                  THEN garbled \cup {topic[s]} ELSE garbled
    /\ UNCHANGED <<topicOf, ids, stream>>

ReaderLine(s) ==
    /\ Alive /\ rpc[s] = "loop"
    /\ ReaderText(s) \/ ReaderSeparator(s)
    /\ ReaderKeeps /\ UNCHANGED rpc

ReaderEnds(s) ==
    /\ Alive /\ rpc[s] = "loop"
    /\ ~running[s] \/ child[s] = "gone"
    /\ rpc' = [rpc EXCEPT ![s] = "done"]
    /\ ReaderText(s) \/ ReaderSeparator(s) \/ ReaderIgnores(s)
    /\ ReaderKeeps

(* A client still stops the stream of a manager that is gone by now.           *)
ReaderDangles(s) ==
    /\ Alive /\ rpc[s] = "loop" /\ phase = "destroyed"
    /\ fault' = "use_after_free"
    /\ UNCHANGED <<maps, phase, channel, handlers, process, rpc, wpc, history>>

Reader(s) == ReaderLine(s) \/ ReaderEnds(s) \/ ReaderDangles(s)

-----------------------------------------------------------------------------
(* The exit-waiter of a stream, and its on_exit.                               *)

WaiterGoto(s, from, to) ==
    Alive /\ wpc[s] = from /\ ~freed[s] /\ wpc' = [wpc EXCEPT ![s] = to]
WaiterKeeps ==
    UNCHANGED <<maps, phase, channel, handlers, topic, child, freed, rpc, history, fault>>

(* The child is reaped, running cleared, and cleaned exchanged.                *)
WaiterReaps(s) ==
    /\ WaiterGoto(s, "wait", IF cleaned[s] THEN "callback" ELSE "join")
    /\ child[s] = "gone"
    /\ running' = [running EXCEPT ![s] = FALSE]
    /\ cleaned' = [cleaned EXCEPT ![s] = TRUE]
    /\ WaiterKeeps /\ UNCHANGED joined

WaiterJoins(s) ==
    /\ WaiterGoto(s, "join", "callback")
    /\ rpc[s] = "done"
    /\ joined' = [joined EXCEPT ![s] = TRUE]
    /\ WaiterKeeps /\ UNCHANGED <<running, cleaned>>

(* It still uses the handle that a stop has destroyed.                         *)
WaiterTouchesFreed(s) ==
    /\ Alive /\ freed[s] /\ child[s] = "gone"
    /\ wpc[s] \in {"wait", "join"}
    /\ fault' = "use_after_free"
    /\ UNCHANGED <<maps, phase, channel, handlers, process, rpc, wpc, history>>

(* on_exit ends whatever stream its topic has by now, and its subscriptions.   *)
Erased(t) == [i \in Sub |-> IF i \in ids[t] THEN NoTopic ELSE topicOf[i]]

OnExit(s) ==
    LET t == topic[s]
    IN  /\ Alive /\ wpc[s] = "callback" /\ phase # "destroyed"
        /\ wpc' = [wpc EXCEPT ![s] = "done"]
        /\ IF stream[t] = NoStream THEN UNCHANGED <<maps, freed, fault>>
           ELSE /\ topicOf' = Erased(t)
                /\ ids' = [ids EXCEPT ![t] = {}]
                /\ stream' = [stream EXCEPT ![t] = NoStream]
                /\ buffer' = [buffer EXCEPT ![t] = {}]
                /\ Destroyed({stream[t]})
        /\ UNCHANGED <<phase, channel, handlers, topic, child, running, cleaned, joined,
                       rpc, history>>

OnExitDangles(s) ==
    /\ Alive /\ wpc[s] = "callback" /\ phase = "destroyed"
    /\ fault' = "use_after_free"
    /\ UNCHANGED <<maps, phase, channel, handlers, process, rpc, wpc, history>>

Waiter(s) ==
    \/ WaiterReaps(s) \/ WaiterJoins(s) \/ WaiterTouchesFreed(s)
    \/ OnExit(s) \/ OnExitDangles(s)

-----------------------------------------------------------------------------
(* The echo process ends by itself, or because it was killed.                  *)

Exits(s, from) ==
    /\ Alive /\ child[s] = from
    /\ child' = [child EXCEPT ![s] = "gone"]
    /\ UNCHANGED <<maps, phase, channel, handlers, topic, running, cleaned, joined, freed,
                   rpc, wpc, history, fault>>

ChildExits(s) == Exits(s, "up")
ChildDies(s) == Exits(s, "killed")

(* Nothing can happen after an abort, nor with the manager or all clients gone.*)
AtRest == phase = "destroyed" \/ \A c \in Conn : conn[c] = "gone"
Ended == (~Alive \/ AtRest) /\ UNCHANGED vars

Next ==
    \/ \E c \in Conn : Handler(c)
    \/ \E a \in Agent : Stop(a)
    \/ Restart
    \/ \E s \in Stream : Reader(s) \/ Waiter(s) \/ ChildExits(s) \/ ChildDies(s)
    \/ Ended

Spec == Init /\ [][Next]_vars

-----------------------------------------------------------------------------
(* Every variable has its type.                                                *)
TypeOK ==
    /\ topicOf \in [Sub -> Topic \cup {NoTopic}]
    /\ ids \in [Topic -> SUBSET Sub] /\ stream \in [Topic -> Stream \cup {NoStream}]
    /\ buffer \in [Topic -> SUBSET Stream]
    /\ phase \in {"up", "shut", "destroyed"}
    /\ listed \in [Sub -> SUBSET Conn] /\ conn \in [Conn -> {"open", "gone"}]
    /\ want \in [Conn -> Sub \cup {NoSub}] /\ pc \in [Agent -> HandlerPC]
    /\ target \in [Agent -> Stream \cup {NoStream}] /\ todo \in [Agent -> SUBSET Stream]
    /\ topic \in [Stream -> Topic \cup {NoTopic}]
    /\ child \in [Stream -> {"none", "up", "killed", "gone"}]
    /\ running \in [Stream -> BOOLEAN] /\ cleaned \in [Stream -> BOOLEAN]
    /\ joined \in [Stream -> BOOLEAN] /\ freed \in [Stream -> BOOLEAN]
    /\ rpc \in [Stream -> ReaderPC] /\ wpc \in [Stream -> WaiterPC]
    /\ stopped \subseteq Stream /\ garbled \subseteq Topic
    /\ fault \in {"none", "terminate", "use_after_free"}

(* The two maps agree at all times: a subscription is on the list of its topic *)
(* and on no other, and a topic has a stream exactly while it has subscribers. *)
MapsAgree ==
    /\ \A i \in Sub, t \in Topic : i \in ids[t] <=> topicOf[i] = t
    /\ \A t \in Topic : stream[t] = NoStream <=> ids[t] = {}

(* An echo process that runs is in the map or being stopped: none is forgotten *)
(* when subscriptions, exits, stops and a restart cross each other.            *)
NoEchoForgotten ==
    Alive => \A s \in Stream : Live(s) =>
        s \in Echoes \/ \E a \in Agent : target[a] = s \/ s \in todo[a]

(* No topic is echoed twice, except while an earlier echo is being stopped.    *)
OneEchoPerTopic ==
    \A s, r \in Stream \ stopped : Live(s) /\ Live(r) /\ topic[s] = topic[r] => s = r

(* As long as no stream is stopped, streams may end and be started anew: what  *)
(* an on_exit finds under its topic is its own stream, or nothing.             *)
OnlyStopBreaks == phase = "up" /\ stopped = {} => Alive

(* A message is made of one stream's lines, unless a stream of the topic has   *)
(* been stopped: its reader still has lines when its successor is there.       *)
OnlyStopGarbles == \A t \in garbled : \E s \in stopped : topic[s] = t
=============================================================================
