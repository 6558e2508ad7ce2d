--------------------------- MODULE RosTopicsProofs ---------------------------
(* Proofs that the safety properties of RosTopics hold for any number of       *)
(* clients, subscriptions, topics and streams.                                 *)
EXTENDS RosTopics, TLAPS

(* A stream that has not been started is nowhere; one that has keeps its topic.*)
FreshOrStarted ==
    \A s \in Stream :
        IF child[s] = "none"
        THEN /\ \A t \in Topic : stream[t] # s
             /\ rpc[s] = "none" /\ wpc[s] = "none"
             /\ ~joined[s] /\ ~cleaned[s] /\ ~freed[s] /\ s \notin stopped
        ELSE topic[s] \in Topic /\ wpc[s] # "none"

(* A stream in the map has the topic it is found under, and nobody stops it.   *)
MappedByTopic ==
    \A t \in Topic : stream[t] # NoStream =>
        topic[stream[t]] = t /\ stream[t] \notin stopped

(* Whoever is inside stop_streaming has a stream to stop, and nobody else.     *)
StopShape ==
    \A a \in Agent :
        /\ target[a] = NoStream <=> pc[a] \notin StopPC
        /\ target[a] # NoStream => target[a] \in stopped
        /\ todo[a] \subseteq stopped

(* Nobody has begun the restart of a manager that is up.                       *)
RestartShape ==
    phase = "up" => pc[Restarter] = "idle" /\ todo[Restarter] = {}

(* The waiter has got past waitpid only if the child has gone.                 *)
WaiterShape == \A s \in Stream : wpc[s] \in {"join", "callback", "done"} => child[s] = "gone"

(* A joined reader has ended, and its child has gone or is being waited for.   *)
JoinShape ==
    \A s \in Stream : joined[s] =>
        /\ rpc[s] = "done"
        /\ child[s] = "gone" \/ \E a \in Agent : target[a] = s /\ pc[a] = "reap"

(* Every echo that runs is where its subscribers or its stopper can find it.   *)
LiveIsOwned ==
    Alive => \A s \in Stream : Live(s) =>
        IF s \in stopped THEN \E a \in Agent : target[a] = s \/ s \in todo[a]
                         ELSE stream[topic[s]] = s

(* Where no stream has been stopped, a reader at work is that of the topic,    *)
(* and so are the lines in its buffer.                                         *)
Calm(t) == \A s \in stopped : topic[s] # t

CalmReaders ==
    Alive => \A s \in Stream :
        rpc[s] = "loop" /\ Calm(topic[s]) => stream[topic[s]] = s

CalmBuffers ==
    \A t \in Topic : Calm(t) => buffer[t] \subseteq {stream[t]}

(* As long as nothing at all is stopped, waiters work on their own streams.    *)
CalmWaiters ==
    phase = "up" /\ stopped = {} =>
        \A s \in Stream :
            /\ wpc[s] \in {"wait", "join", "callback"} => stream[topic[s]] = s /\ ~freed[s]
            /\ wpc[s] = "wait" => ~cleaned[s]
            /\ wpc[s] = "callback" => joined[s]

IInv ==
    /\ TypeOK
    /\ MapsAgree
    /\ FreshOrStarted
    /\ MappedByTopic
    /\ StopShape
    /\ RestartShape
    /\ WaiterShape
    /\ JoinShape
    /\ LiveIsOwned
    /\ CalmReaders
    /\ CalmBuffers
    /\ CalmWaiters
    /\ OneEchoPerTopic
    /\ OnlyStopBreaks
    /\ OnlyStopGarbles

-----------------------------------------------------------------------------
(* Nothing is subscribed, started or stopped at the beginning.                 *)
LEMMA InitIInv == Init => IInv
<1> SUFFICES ASSUME Init PROVE IInv
    OBVIOUS
<1> USE NoneAssumption DEF Init
<1>1. TypeOK
    BY DEF TypeOK, HandlerPC, ReaderPC, WaiterPC, StopPC, Agent
<1>2. MapsAgree /\ FreshOrStarted /\ MappedByTopic /\ RestartShape
    BY DEF MapsAgree, FreshOrStarted, MappedByTopic, RestartShape, Agent
<1>3. StopShape /\ WaiterShape /\ JoinShape
    BY DEF StopShape, WaiterShape, JoinShape, StopPC, Agent
<1>4. LiveIsOwned /\ CalmReaders /\ CalmBuffers /\ CalmWaiters
    BY DEF LiveIsOwned, CalmReaders, CalmBuffers, CalmWaiters, Live
<1>5. OneEchoPerTopic /\ OnlyStopBreaks /\ OnlyStopGarbles
    BY DEF OneEchoPerTopic, OnlyStopBreaks, OnlyStopGarbles, Live, Alive
<1> QED
    BY <1>1, <1>2, <1>3, <1>4, <1>5 DEF IInv

(* A handler that touches neither the manager nor a stream.                    *)
LEMMA QuietStep ==
    ASSUME IInv, TypeOK',
           UNCHANGED <<maps, phase, target, todo, process, rpc, wpc, history, fault>>,
           pc'[Restarter] = pc[Restarter],
           \A a \in Agent : pc[a] \in StopPC \/ pc'[a] \in StopPC => pc'[a] = pc[a]
    PROVE  IInv'
<1> USE DEF maps, process, history
<1>1. MapsAgree' /\ FreshOrStarted' /\ MappedByTopic' /\ RestartShape'
    BY DEF IInv, MapsAgree, FreshOrStarted, MappedByTopic, RestartShape
<1>2. StopShape' /\ WaiterShape' /\ JoinShape'
    BY DEF IInv, StopShape, WaiterShape, JoinShape, StopPC
<1>3. LiveIsOwned' /\ CalmReaders' /\ CalmBuffers' /\ CalmWaiters'
    BY DEF IInv, LiveIsOwned, CalmReaders, CalmBuffers, CalmWaiters, Calm, Live, Alive
<1>4. OneEchoPerTopic' /\ OnlyStopBreaks' /\ OnlyStopGarbles'
    BY DEF IInv, OneEchoPerTopic, OnlyStopBreaks, OnlyStopGarbles, Live, Alive
<1> QED
    BY <1>1, <1>2, <1>3, <1>4 DEF IInv

(* Undefined behaviour, and nothing else: it needs a stop.                     *)
LEMMA FaultStep ==
    ASSUME IInv, fault' \in {"terminate", "use_after_free"},
           UNCHANGED <<maps, phase, channel, handlers, process, rpc, wpc, history>>,
           ~(phase = "up" /\ stopped = {})
    PROVE  IInv'
<1> USE DEF maps, channel, handlers, process, history
<1>1. TypeOK'
    BY DEF IInv, TypeOK
<1>2. MapsAgree' /\ FreshOrStarted' /\ MappedByTopic' /\ RestartShape'
    BY DEF IInv, MapsAgree, FreshOrStarted, MappedByTopic, RestartShape
<1>3. StopShape' /\ WaiterShape' /\ JoinShape'
    BY DEF IInv, StopShape, WaiterShape, JoinShape
<1>4. LiveIsOwned' /\ CalmReaders' /\ CalmBuffers' /\ CalmWaiters'
    BY DEF IInv, LiveIsOwned, CalmReaders, CalmBuffers, CalmWaiters, Calm, Alive
<1>5. OneEchoPerTopic' /\ OnlyStopBreaks' /\ OnlyStopGarbles'
    BY DEF IInv, OneEchoPerTopic, OnlyStopBreaks, OnlyStopGarbles, Live, Alive
<1> QED
    BY <1>1, <1>2, <1>3, <1>4, <1>5 DEF IInv

(* A subscription that joins a stream: only the maps of ids change.            *)
LEMMA JoinsStep ==
    ASSUME IInv, NEW c \in Conn, NEW i \in Sub, NEW t \in Topic, SubscribeJoins(c, i, t)
    PROVE  IInv'
<1> USE NoneAssumption, RestarterAssumption
        DEF SubscribeJoins, InManager, Adds, Subscribed, channel, process, history
<1>1. TypeOK'
    BY DEF IInv, TypeOK, HandlerPC, Agent
<1>2. MapsAgree'
    BY DEF IInv, TypeOK, MapsAgree
<1>3. FreshOrStarted' /\ MappedByTopic' /\ RestartShape'
    BY DEF IInv, TypeOK, FreshOrStarted, MappedByTopic, RestartShape, Agent
<1>4. StopShape' /\ WaiterShape' /\ JoinShape'
    BY DEF IInv, TypeOK, StopShape, WaiterShape, JoinShape, StopPC, Agent
<1>5. LiveIsOwned' /\ CalmReaders' /\ CalmBuffers' /\ CalmWaiters'
    BY DEF IInv, LiveIsOwned, CalmReaders, CalmBuffers, CalmWaiters, Calm, Live, Alive
<1>6. OneEchoPerTopic' /\ OnlyStopBreaks' /\ OnlyStopGarbles'
    BY DEF IInv, OneEchoPerTopic, OnlyStopBreaks, OnlyStopGarbles, Live, Alive
<1> QED
    BY <1>1, <1>2, <1>3, <1>4, <1>5, <1>6 DEF IInv

(* A subscription that starts the stream of its topic.                         *)
LEMMA StartsStep ==
    ASSUME IInv, NEW c \in Conn, NEW i \in Sub, NEW t \in Topic, NEW s \in Stream,
           SubscribeStarts(c, i, t, s)
    PROVE  IInv'
<1> USE NoneAssumption, RestarterAssumption
        DEF SubscribeStarts, NeedsStream, InManager, Adds, Subscribed, channel, history
<1>1. TypeOK'
    BY DEF IInv, TypeOK, HandlerPC, ReaderPC, WaiterPC, Agent
<1>2. MapsAgree'
    BY DEF IInv, TypeOK, MapsAgree
<1>3. FreshOrStarted'
    BY DEF IInv, TypeOK, FreshOrStarted
<1>4. MappedByTopic' /\ RestartShape'
    BY DEF IInv, TypeOK, FreshOrStarted, MappedByTopic, RestartShape, Agent
<1>5. StopShape' /\ WaiterShape'
    BY DEF IInv, TypeOK, FreshOrStarted, StopShape, WaiterShape, StopPC, Agent
<1>6. JoinShape'
  <2>1. /\ UNCHANGED <<joined, target>>
        /\ pc[c] = "subscribe" /\ \A a \in Agent : a # c => pc'[a] = pc[a]
    BY DEF IInv, TypeOK
  <2>2. \A r \in Stream : joined[r] =>
            r # s /\ rpc'[r] = rpc[r] /\ child'[r] = child[r]
    BY DEF IInv, TypeOK, FreshOrStarted
  <2> HIDE DEF SubscribeStarts
  <2> QED
    BY <2>1, <2>2 DEF IInv, JoinShape
<1>7. s \notin stopped /\ stream'[t] = s /\ topic'[s] = t
    BY DEF IInv, TypeOK, FreshOrStarted
<1>8. \A r \in Stream : r # s => topic'[r] = topic[r] /\ child'[r] = child[r]
                                  /\ rpc'[r] = rpc[r] /\ wpc'[r] = wpc[r]
    BY DEF IInv, TypeOK
<1>9. \A u \in Topic : u # t => stream'[u] = stream[u] /\ buffer'[u] = buffer[u]
    BY DEF IInv, TypeOK
<1>10. \A r \in Stream : stream[topic[r]] = r => topic[r] # t /\ stream'[topic[r]] = r
    BY DEF IInv, TypeOK
<1>11. \A u \in Topic \cup {NoTopic} : Calm(u)' = Calm(u)
    BY <1>7, <1>8 DEF IInv, TypeOK, Calm
<1>12. LiveIsOwned'
    BY <1>7, <1>8, <1>10 DEF IInv, LiveIsOwned, Live, Alive
<1>13. CalmReaders'
    BY <1>7, <1>8, <1>10, <1>11 DEF IInv, TypeOK, CalmReaders, Alive
<1>14. CalmBuffers'
    BY <1>7, <1>9, <1>11 DEF IInv, TypeOK, CalmBuffers
<1>15. CalmWaiters'
    BY <1>7, <1>8, <1>10 DEF IInv, TypeOK, CalmWaiters, FreshOrStarted
<1>16. OneEchoPerTopic'
    BY <1>7, <1>8 DEF IInv, OneEchoPerTopic, LiveIsOwned, Live
<1>17. OnlyStopBreaks' /\ OnlyStopGarbles'
    BY <1>7, <1>8 DEF IInv, TypeOK, OnlyStopBreaks, OnlyStopGarbles, Alive
<1> QED
    BY <1>1, <1>2, <1>3, <1>4, <1>5, <1>6, <1>12, <1>13, <1>14, <1>15, <1>16, <1>17 DEF IInv

(* A subscription given up; the last one of a topic takes the stream along.    *)
LEMMA TakesStep ==
    ASSUME IInv, NEW c \in Conn, NEW i \in Sub, UnsubscribeTakes(c, i)
    PROVE  IInv'
<1> DEFINE t == topicOf[i]
<1> USE NoneAssumption, RestarterAssumption
        DEF UnsubscribeTakes, InManager, Last, Subscribed, channel, process
<1>1. t \in Topic /\ stream[t] \in Stream /\ i \in ids[t]
    BY DEF IInv, TypeOK, MapsAgree
<1>2. c \in Agent /\ c # Restarter /\ target[c] = NoStream
    BY DEF IInv, StopShape, Agent, StopPC
<1>3. /\ UNCHANGED <<phase, listed, conn, todo, topic, child, running, cleaned, joined, freed,
                      rpc, wpc, garbled, fault>>
      /\ Alive /\ pc[c] = "unsubscribe"
      /\ \A a \in Agent : a # c => pc'[a] = pc[a]
      /\ pc'[c] = IF ids[t] = {i} THEN "signal" ELSE "unlist"
    BY <1>2 DEF IInv, TypeOK
<1>4. MapsAgree'
    BY <1>1 DEF IInv, TypeOK, MapsAgree
<1>5. CASE ids[t] # {i}
  <2>1. UNCHANGED <<stream, buffer, target, stopped>>
    BY <1>5
  <2>2. TypeOK'
    BY <1>1, <1>2, <1>5 DEF IInv, TypeOK, HandlerPC
  <2> USE <1>3, <2>1
  <2> HIDE DEF UnsubscribeTakes
  <2>3. FreshOrStarted' /\ MappedByTopic'
    BY DEF IInv, FreshOrStarted, MappedByTopic
  <2>4. RestartShape' /\ StopShape'
    BY <1>2, <1>5 DEF IInv, RestartShape, StopShape, StopPC, Agent
  <2>5. WaiterShape' /\ JoinShape'
    BY <1>2 DEF IInv, WaiterShape, JoinShape
  <2>6. LiveIsOwned' /\ CalmReaders' /\ CalmBuffers' /\ CalmWaiters'
    BY DEF IInv, LiveIsOwned, CalmReaders, CalmBuffers, CalmWaiters, Calm, Live, Alive
  <2>7. OneEchoPerTopic' /\ OnlyStopBreaks' /\ OnlyStopGarbles'
    BY DEF IInv, OneEchoPerTopic, OnlyStopBreaks, OnlyStopGarbles, Live, Alive
  <2> QED
    BY <1>4, <2>2, <2>3, <2>4, <2>5, <2>6, <2>7 DEF IInv
<1>6. CASE ids[t] = {i}
  <2>1. /\ stopped' = stopped \cup {stream[t]} /\ target'[c] = stream[t]
        /\ \A a \in Agent : a # c => target'[a] = target[a]
        /\ \A u \in Topic : u # t => stream'[u] = stream[u] /\ buffer'[u] = buffer[u]
        /\ stream'[t] = NoStream /\ buffer'[t] = {} /\ topic[stream[t]] = t
    BY <1>1, <1>2, <1>6 DEF IInv, TypeOK, MappedByTopic
  <2>2. TypeOK'
    <3>1. topicOf' \in [Sub -> Topic \cup {NoTopic}] /\ ids' \in [Topic -> SUBSET Sub]
        BY DEF IInv, TypeOK
    <3>2. stream' = [stream EXCEPT ![t] = NoStream] /\ buffer' = [buffer EXCEPT ![t] = {}]
        BY <1>6
    <3> stream' \in [Topic -> Stream \cup {NoStream}]
        BY <3>2 DEF IInv, TypeOK
    <3> buffer' \in [Topic -> SUBSET Stream]
        BY <3>2 DEF IInv, TypeOK
    <3>3. pc' \in [Agent -> HandlerPC] /\ want' \in [Conn -> Sub \cup {NoSub}]
        BY <1>2, <1>6 DEF IInv, TypeOK, HandlerPC, StopPC
    <3>4. target' \in [Agent -> Stream \cup {NoStream}] /\ stopped' \subseteq Stream
        BY <1>1, <1>2, <1>6 DEF IInv, TypeOK
    <3> QED
        BY <1>3, <3>1, <3>3, <3>4 DEF IInv, TypeOK
  <2> USE <1>1, <1>3, <2>1
  <2> HIDE DEF UnsubscribeTakes
  <2>3. FreshOrStarted'
    BY DEF IInv, FreshOrStarted, MappedByTopic
  <2>4. MappedByTopic'
    <3> SUFFICES ASSUME NEW u \in Topic, u # t, stream[u] # NoStream
                 PROVE  topic[stream[u]] = u /\ stream[u] \notin stopped \cup {stream[t]}
        BY DEF MappedByTopic
    <3> QED
        BY DEF IInv, MappedByTopic
  <2>5. RestartShape' /\ StopShape'
    BY <1>2, <1>6 DEF IInv, RestartShape, StopShape, StopPC, Agent
  <2>6. WaiterShape' /\ JoinShape'
    BY <1>2 DEF IInv, WaiterShape, JoinShape
  <2>7. ASSUME NEW s \in Stream, s \notin stopped', stream[topic[s]] = s, topic[s] \in Topic
        PROVE  topic[s] # t /\ stream'[topic[s]] = s
    BY <2>7
  <2>8. LiveIsOwned'
    <3> SUFFICES ASSUME NEW s \in Stream, Live(s)
                 PROVE  IF s \in stopped' THEN \E a \in Agent : target'[a] = s \/ s \in todo[a]
                                         ELSE stream'[topic[s]] = s
        BY DEF LiveIsOwned, Live
    <3>1. topic[s] \in Topic
        BY DEF IInv, FreshOrStarted, Live
    <3> QED
        BY <1>2, <2>7, <3>1 DEF IInv, LiveIsOwned
  <2>9. CalmReaders'
    <3> SUFFICES ASSUME NEW s \in Stream, rpc[s] = "loop", Calm(topic[s])'
                 PROVE  stream'[topic[s]] = s
        BY DEF CalmReaders
    <3>1. topic[s] \in Topic /\ topic[s] # t /\ Calm(topic[s])
        BY DEF IInv, FreshOrStarted, Calm
    <3> QED
        BY <3>1 DEF IInv, CalmReaders
  <2>10. CalmBuffers'
    BY DEF IInv, CalmBuffers, Calm
  <2>11. CalmWaiters' /\ OnlyStopBreaks' /\ OnlyStopGarbles'
    BY DEF IInv, CalmWaiters, OnlyStopBreaks, OnlyStopGarbles, Alive
  <2>12. OneEchoPerTopic'
    BY DEF IInv, OneEchoPerTopic, Live
  <2> QED
    BY <1>4, <2>2, <2>3, <2>4, <2>5, <2>6, <2>8, <2>9, <2>10, <2>11, <2>12 DEF IInv
<1> QED
    BY <1>5, <1>6

(* One agent's handlers are serial: nothing of a stop shows but its stream.    *)
LEMMA StopSignalsStep ==
    ASSUME IInv, NEW a \in Agent, StopSignals(a)
    PROVE  IInv'
<1> USE NoneAssumption, RestarterAssumption
        DEF StopSignals, StopGoto, StopKeeps, maps, channel, history
<1>1. target[a] \in Stream /\ target[a] \in stopped
    BY DEF IInv, TypeOK, StopShape, StopPC
<1>2. TypeOK'
    BY <1>1 DEF IInv, TypeOK, HandlerPC, StopPC, Killed
<1>3. /\ \A s \in Stream : child'[s] = child[s] \/ (child[s] = "up" /\ child'[s] = "killed")
      /\ pc[a] = "signal" /\ pc'[a] = "exchange"
      /\ \A b \in Agent : b # a => pc'[b] = pc[b]
      /\ \A s \in Stream : s # target[a] => running'[s] = running[s]
    BY <1>1 DEF IInv, TypeOK, Killed
<1>4. MapsAgree' /\ MappedByTopic'
    BY DEF IInv, MapsAgree, MappedByTopic
<1>5. FreshOrStarted'
    BY <1>3 DEF IInv, FreshOrStarted
<1>6. RestartShape'
    BY <1>3 DEF IInv, RestartShape, Agent
<1>7. StopShape'
    BY <1>3 DEF IInv, StopShape, StopPC
<1>8. WaiterShape' /\ JoinShape'
    BY <1>3 DEF IInv, WaiterShape, JoinShape
<1>9. LiveIsOwned'
    BY <1>3 DEF IInv, LiveIsOwned, Live, Alive
<1>10. CalmReaders' /\ CalmBuffers' /\ CalmWaiters'
    BY <1>1 DEF IInv, CalmReaders, CalmBuffers, CalmWaiters, Calm, Alive
<1>11. OneEchoPerTopic' /\ OnlyStopBreaks' /\ OnlyStopGarbles'
    BY <1>3 DEF IInv, OneEchoPerTopic, OnlyStopBreaks, OnlyStopGarbles, Alive, Live
<1> QED
    BY <1>2, <1>4, <1>5, <1>6, <1>7, <1>8, <1>9, <1>10, <1>11 DEF IInv

(* cleaned only decides who joins.                                             *)
LEMMA StopExchangesStep ==
    ASSUME IInv, NEW a \in Agent, StopExchanges(a)
    PROVE  IInv'
<1> USE NoneAssumption, RestarterAssumption
        DEF StopExchanges, StopGoto, StopKeeps, maps, channel, history
<1>1. target[a] \in Stream /\ target[a] \in stopped
    BY DEF IInv, TypeOK, StopShape, StopPC
<1>2. TypeOK'
    BY <1>1 DEF IInv, TypeOK, HandlerPC, StopPC
<1>3. MapsAgree' /\ FreshOrStarted' /\ MappedByTopic' /\ RestartShape'
    BY <1>1 DEF IInv, TypeOK, MapsAgree, FreshOrStarted, MappedByTopic, RestartShape
<1>4. StopShape' /\ WaiterShape' /\ JoinShape'
    BY DEF IInv, TypeOK, StopShape, WaiterShape, JoinShape, StopPC
<1>5. LiveIsOwned' /\ CalmReaders' /\ CalmBuffers' /\ CalmWaiters'
    BY <1>1 DEF IInv, LiveIsOwned, CalmReaders, CalmBuffers, CalmWaiters, Calm, Alive, Live
<1>6. OneEchoPerTopic' /\ OnlyStopBreaks' /\ OnlyStopGarbles'
    BY DEF IInv, OneEchoPerTopic, OnlyStopBreaks, OnlyStopGarbles, Alive, Live
<1> QED
    BY <1>2, <1>3, <1>4, <1>5, <1>6 DEF IInv

(* A reader that has ended is joined.                                          *)
LEMMA StopJoinsStep ==
    ASSUME IInv, NEW a \in Agent, StopJoins(a)
    PROVE  IInv'
<1> USE NoneAssumption, RestarterAssumption
        DEF StopJoins, StopGoto, StopKeeps, maps, channel, history
<1>1. target[a] \in Stream /\ target[a] \in stopped
    BY DEF IInv, TypeOK, StopShape, StopPC
<1>2. TypeOK'
    BY <1>1 DEF IInv, TypeOK, HandlerPC, StopPC
<1>3. MapsAgree' /\ FreshOrStarted' /\ MappedByTopic' /\ RestartShape'
    BY <1>1 DEF IInv, TypeOK, MapsAgree, FreshOrStarted, MappedByTopic, RestartShape
<1>4. StopShape' /\ WaiterShape'
    BY DEF IInv, TypeOK, StopShape, WaiterShape, StopPC
<1>5. JoinShape'
    BY <1>1 DEF IInv, TypeOK, JoinShape
<1>6. LiveIsOwned' /\ CalmReaders' /\ CalmBuffers' /\ CalmWaiters'
    BY <1>1 DEF IInv, LiveIsOwned, CalmReaders, CalmBuffers, CalmWaiters, Calm, Alive, Live
<1>7. OneEchoPerTopic' /\ OnlyStopBreaks' /\ OnlyStopGarbles'
    BY DEF IInv, OneEchoPerTopic, OnlyStopBreaks, OnlyStopGarbles, Alive, Live
<1> QED
    BY <1>2, <1>3, <1>4, <1>5, <1>6, <1>7 DEF IInv

(* The handle goes: its child has gone, or the program with it.                *)
LEMMA StopFreesStep ==
    ASSUME IInv, NEW a \in Agent, StopFrees(a)
    PROVE  IInv'
<1> DEFINE s == target[a]
<1> USE NoneAssumption, RestarterAssumption
        DEF StopFrees, StopGoto, StopKeeps, Destroyed, maps, channel, history
<1>1. s \in Stream /\ s \in stopped /\ stopped # {}
    BY DEF IInv, TypeOK, StopShape, StopPC
<1>2. TypeOK'
    BY <1>1 DEF IInv, TypeOK, HandlerPC, StopPC, Agent
<1>3. pc[a] \in {"free", "reap"} /\ pc'[a] \in {"stopped", "unlist"} /\ target'[a] = NoStream
    BY DEF IInv, TypeOK
<1>4. \A b \in Agent : b # a => target'[b] = target[b] /\ pc'[b] = pc[b]
    BY DEF IInv, TypeOK
<1>5. Alive' => joined[s] /\ Alive
    BY DEF Alive
<1>6. pc[a] = "reap" => child[s] = "gone"
    BY DEF Reaped
<1>7. Restarter \in Agent /\ (phase # "up" \/ a # Restarter)
    BY DEF IInv, RestartShape, Agent
<1>8. MapsAgree' /\ MappedByTopic' /\ RestartShape'
    BY <1>4, <1>7 DEF IInv, TypeOK, MapsAgree, MappedByTopic, RestartShape, Agent
<1>9. FreshOrStarted'
    BY <1>1 DEF IInv, TypeOK, FreshOrStarted
<1>10. StopShape' /\ WaiterShape'
    BY <1>3, <1>4 DEF IInv, TypeOK, StopShape, WaiterShape, StopPC
<1>11. JoinShape'
    BY <1>3, <1>4, <1>6 DEF IInv, TypeOK, JoinShape
<1>12. LiveIsOwned'
  <2> SUFFICES ASSUME Alive', NEW r \in Stream, Live(r)', r \in stopped
               PROVE  (\E b \in Agent : target[b] = r \/ r \in todo[b])'
    BY DEF IInv, LiveIsOwned, Live, Alive
  <2>1. PICK b \in Agent : target[b] = r \/ r \in todo[b]
    BY <1>5 DEF IInv, LiveIsOwned, Live
  <2>2. CASE b # a \/ r \in todo[b]
    BY <1>4, <2>1, <2>2
  <2>3. CASE b = a /\ r = s
    <3>1. joined[s] /\ child[s] # "gone" /\ pc[a] # "reap"
        BY <1>5, <1>6, <2>3 DEF Live
    <3>2. PICK d \in Agent : target[d] = s /\ pc[d] = "reap"
        BY <1>1, <3>1 DEF IInv, JoinShape
    <3> QED
        BY <1>4, <2>3, <3>1, <3>2
  <2> QED
    BY <2>1, <2>2, <2>3
<1>13. CalmReaders' /\ CalmBuffers' /\ CalmWaiters'
    BY <1>1, <1>5 DEF IInv, CalmReaders, CalmBuffers, CalmWaiters, Calm
<1>14. OneEchoPerTopic' /\ OnlyStopBreaks' /\ OnlyStopGarbles'
    BY <1>1 DEF IInv, OneEchoPerTopic, OnlyStopBreaks, OnlyStopGarbles, Live
<1> QED
    BY <1>2, <1>8, <1>9, <1>10, <1>11, <1>12, <1>13, <1>14 DEF IInv

(* shutdown empties the maps: their streams are all to be stopped.             *)
LEMMA ShutdownStep ==
    ASSUME IInv, Shutdown
    PROVE  IInv'
<1> USE NoneAssumption, RestarterAssumption DEF Shutdown, Emptied, channel, process
<1>1. Restarter \in Agent /\ pc[Restarter] = "idle" /\ todo[Restarter] = {}
      /\ target[Restarter] = NoStream
    BY DEF IInv, RestartShape, StopShape, StopPC, Agent
<1>2. Echoes \subseteq Stream /\ \A t \in Topic : stream[t] # NoStream => stream[t] \in Echoes
    BY DEF IInv, TypeOK, Echoes
<1>3. TypeOK'
    BY <1>1, <1>2 DEF IInv, TypeOK, HandlerPC
<1>4. /\ UNCHANGED <<listed, conn, want, target, topic, child, running, cleaned, joined, freed,
                      rpc, wpc, garbled, fault>>
      /\ Alive /\ phase' = "shut" /\ stopped' = stopped \cup Echoes
      /\ \A t \in Topic : stream'[t] = NoStream /\ buffer'[t] = {} /\ ids'[t] = {}
      /\ \A i \in Sub : topicOf'[i] = NoTopic
      /\ \A a \in Agent : a # Restarter => pc'[a] = pc[a] /\ todo'[a] = todo[a]
      /\ pc'[Restarter] = "stopped" /\ todo'[Restarter] = Echoes
    BY <1>1 DEF IInv, TypeOK
<1> USE <1>4
<1> HIDE DEF Shutdown, Emptied
<1>5. MapsAgree' /\ MappedByTopic' /\ RestartShape'
    BY DEF MapsAgree, MappedByTopic, RestartShape
<1>6. FreshOrStarted'
    BY <1>2 DEF IInv, FreshOrStarted, Echoes
<1>7. StopShape'
    BY <1>1 DEF IInv, StopShape, StopPC
<1>8. WaiterShape' /\ JoinShape'
    BY <1>1 DEF IInv, WaiterShape, JoinShape
<1>9. \A s \in Stream : child[s] # "none" /\ stream[topic[s]] = s => s \in Echoes
    BY <1>2 DEF IInv, FreshOrStarted
<1>10. LiveIsOwned'
  <2> SUFFICES ASSUME NEW s \in Stream, Live(s)
               PROVE  s \in stopped' /\ \E a \in Agent : target[a] = s \/ s \in todo'[a]
    BY DEF LiveIsOwned, Live
  <2>1. CASE s \in stopped
    BY <1>1, <2>1 DEF IInv, LiveIsOwned
  <2>2. CASE s \notin stopped
    BY <1>1, <1>9, <2>2 DEF IInv, LiveIsOwned, Live
  <2> QED
    BY <2>1, <2>2
<1>11. CalmReaders'
  <2> SUFFICES ASSUME NEW s \in Stream, rpc[s] = "loop", Calm(topic[s])'
               PROVE  FALSE
    BY DEF CalmReaders
  <2>1. Calm(topic[s]) /\ child[s] # "none"
    BY DEF IInv, Calm, FreshOrStarted
  <2>2. s \in Echoes
    BY <1>9, <2>1 DEF IInv, CalmReaders
  <2> QED
    BY <2>2 DEF Calm
<1>12. CalmBuffers' /\ CalmWaiters' /\ OnlyStopBreaks' /\ OnlyStopGarbles'
    BY DEF IInv, CalmBuffers, CalmWaiters, OnlyStopBreaks, OnlyStopGarbles
<1>13. OneEchoPerTopic'
    BY DEF IInv, OneEchoPerTopic, Live
<1> QED
    BY <1>3, <1>5, <1>6, <1>7, <1>8, <1>10, <1>11, <1>12, <1>13 DEF IInv

(* The restart goes on to the next stream it has to stop.                      *)
LEMMA ShutdownNextStep ==
    ASSUME IInv, ShutdownNext
    PROVE  IInv'
<1> USE NoneAssumption, RestarterAssumption DEF ShutdownNext, maps, channel, process, history
<1>1. PICK s \in todo[Restarter] :
        /\ target' = [target EXCEPT ![Restarter] = s]
        /\ todo' = [todo EXCEPT ![Restarter] = @ \ {s}]
    OBVIOUS
<1>2. Restarter \in Agent /\ s \in Stream /\ s \in stopped /\ target[Restarter] = NoStream
    BY DEF IInv, TypeOK, StopShape, StopPC, Agent
<1>3. TypeOK'
    BY <1>1, <1>2 DEF IInv, TypeOK, HandlerPC, StopPC
<1>4. /\ UNCHANGED <<topicOf, ids, stream, buffer, phase, topic, child, cleaned, joined, freed,
                      rpc, wpc, stopped, garbled, fault>>
      /\ pc[Restarter] = "stopped" /\ pc'[Restarter] = "signal"
      /\ target'[Restarter] = s /\ todo'[Restarter] = todo[Restarter] \ {s}
      /\ \A a \in Agent : a # Restarter =>
            pc'[a] = pc[a] /\ target'[a] = target[a] /\ todo'[a] = todo[a]
    BY <1>1, <1>2 DEF IInv, TypeOK
<1> USE <1>2, <1>4
<1> HIDE DEF ShutdownNext
<1>5. MapsAgree' /\ FreshOrStarted' /\ MappedByTopic'
    BY DEF IInv, MapsAgree, FreshOrStarted, MappedByTopic
<1>6. RestartShape' /\ StopShape'
    BY DEF IInv, RestartShape, StopShape, StopPC
<1>7. WaiterShape' /\ JoinShape'
    BY DEF IInv, WaiterShape, JoinShape
<1>8. LiveIsOwned'
    BY DEF IInv, LiveIsOwned, Live, Alive
<1>9. CalmReaders' /\ CalmBuffers' /\ CalmWaiters'
    BY DEF IInv, CalmReaders, CalmBuffers, CalmWaiters, Calm, Alive
<1>10. OneEchoPerTopic' /\ OnlyStopBreaks' /\ OnlyStopGarbles'
    BY DEF IInv, OneEchoPerTopic, OnlyStopBreaks, OnlyStopGarbles, Live, Alive
<1> QED
    BY <1>3, <1>5, <1>6, <1>7, <1>8, <1>9, <1>10 DEF IInv

(* A handle destroyed with its child running is being stopped, or the program  *)
(* has been terminated for a reader that was not joined.                       *)
LEMMA DestroyedIsJoined ==
    ASSUME IInv, NEW S \in SUBSET Stream, Destroyed(S), Alive'
    PROVE  /\ Alive /\ fault' = fault
           /\ \A s \in S : /\ rpc[s] = "done"
                           /\ Live(s) => \E a \in Agent : target[a] = s
    BY DEF IInv, JoinShape, Destroyed, Alive, Live

(* The old manager is destroyed, with the streams it has got since shutdown.   *)
LEMMA DestroyStep ==
    ASSUME IInv, Destroy
    PROVE  IInv'
<1> USE NoneAssumption, RestarterAssumption DEF Destroy, Emptied, channel, handlers, history
<1>1. Echoes \in SUBSET Stream
    BY DEF IInv, TypeOK, Echoes
<1>2. /\ fault' \in {"none", "terminate", "use_after_free"} /\ freed' \in [Stream -> BOOLEAN]
      /\ \A s \in Stream : child[s] = "none" => (freed'[s] <=> freed[s])
    BY <1>1 DEF IInv, TypeOK, Destroyed, FreshOrStarted, Echoes
<1>3. Alive' => /\ Alive
                /\ \A s \in Echoes : /\ rpc[s] = "done"
                                     /\ Live(s) => \E a \in Agent : target[a] = s
    BY <1>1, DestroyedIsJoined
<1>4. TypeOK'
    BY <1>2 DEF IInv, TypeOK
<1>5. /\ UNCHANGED <<listed, conn, want, pc, target, todo, topic, child, running, cleaned,
                      joined, rpc, wpc, stopped, garbled>>
      /\ phase' = "destroyed"
      /\ \A t \in Topic : stream'[t] = NoStream /\ buffer'[t] = {} /\ ids'[t] = {}
      /\ \A i \in Sub : topicOf'[i] = NoTopic
    OBVIOUS
<1> USE <1>5
<1> HIDE DEF Destroy, Emptied
<1>6. MapsAgree' /\ MappedByTopic' /\ RestartShape'
    BY DEF MapsAgree, MappedByTopic, RestartShape
<1>7. FreshOrStarted'
    BY <1>2 DEF IInv, FreshOrStarted
<1>8. StopShape' /\ WaiterShape' /\ JoinShape'
    BY DEF IInv, StopShape, WaiterShape, JoinShape
<1>9. \A s \in Stream : child[s] # "none" /\ stream[topic[s]] = s => s \in Echoes
    BY DEF IInv, FreshOrStarted, Echoes
<1>10. LiveIsOwned'
  <2> SUFFICES ASSUME Alive', NEW s \in Stream, Live(s)
               PROVE  s \in stopped /\ \E a \in Agent : target[a] = s \/ s \in todo[a]
    BY DEF LiveIsOwned, Live
  <2>1. CASE s \in stopped
    BY <1>3, <2>1 DEF IInv, LiveIsOwned
  <2>2. CASE s \notin stopped
    BY <1>3, <1>9, <2>2 DEF IInv, LiveIsOwned, StopShape, Live
  <2> QED
    BY <2>1, <2>2
<1>11. CalmReaders'
  <2> SUFFICES ASSUME Alive', NEW s \in Stream, rpc[s] = "loop", Calm(topic[s])
               PROVE  FALSE
    BY DEF CalmReaders, Calm
  <2>1. child[s] # "none" /\ stream[topic[s]] = s
    BY <1>3 DEF IInv, FreshOrStarted, CalmReaders
  <2> QED
    BY <1>3, <1>9, <2>1
<1>12. CalmBuffers' /\ CalmWaiters' /\ OnlyStopBreaks' /\ OnlyStopGarbles'
    BY DEF IInv, CalmBuffers, CalmWaiters, OnlyStopBreaks, OnlyStopGarbles
<1>13. OneEchoPerTopic'
    BY DEF IInv, OneEchoPerTopic, Live
<1> QED
    BY <1>4, <1>6, <1>7, <1>8, <1>10, <1>11, <1>12, <1>13 DEF IInv

(* A reader handles a line, or ends: only its place and a buffer change.       *)
LEMMA ReaderStep ==
    ASSUME IInv, NEW s \in Stream, ReaderLine(s) \/ ReaderEnds(s)
    PROVE  IInv'
<1> USE NoneAssumption
<1>1. /\ UNCHANGED <<topicOf, ids, stream, phase, listed, conn, want, pc, target, todo, topic,
                      child, running, cleaned, joined, freed, wpc, stopped, fault>>
      /\ Alive /\ rpc[s] = "loop"
      /\ rpc' = rpc \/ rpc' = [rpc EXCEPT ![s] = "done"]
      /\ ReaderText(s) \/ ReaderSeparator(s) \/ ReaderIgnores(s)
    BY DEF ReaderLine, ReaderEnds, ReaderText, ReaderSeparator, ReaderIgnores, ReaderKeeps,
           maps, channel, handlers, process
<1>2. topic[s] \in Topic /\ child[s] # "none"
    BY <1>1 DEF IInv, FreshOrStarted
<1>3. /\ \A t \in Topic : buffer'[t] \subseteq buffer[t] \cup {s}
      /\ \A t \in Topic : t # topic[s] => buffer'[t] = buffer[t]
      /\ buffer' \in [Topic -> SUBSET Stream]
    BY <1>1, <1>2 DEF IInv, TypeOK, ReaderText, ReaderSeparator, ReaderIgnores, maps
<1>4. \/ garbled' = garbled
      \/ /\ garbled' = garbled \cup {topic[s]}
         /\ \E r, q \in buffer[topic[s]] : r # q
    BY <1>1 DEF ReaderText, ReaderSeparator, ReaderIgnores
<1>5. \A r \in Stream : rpc'[r] = rpc[r] \/ (r = s /\ rpc'[r] = "done")
    BY <1>1 DEF IInv, TypeOK
<1>6. TypeOK'
    BY <1>1, <1>2, <1>3, <1>4 DEF IInv, TypeOK, ReaderPC
<1>7. MapsAgree' /\ MappedByTopic' /\ RestartShape' /\ StopShape' /\ WaiterShape'
    BY <1>1 DEF IInv, MapsAgree, MappedByTopic, RestartShape, StopShape, WaiterShape
<1>8. FreshOrStarted' /\ JoinShape'
    BY <1>1, <1>2, <1>5 DEF IInv, FreshOrStarted, JoinShape
<1>9. LiveIsOwned' /\ CalmWaiters' /\ OnlyStopBreaks' /\ OneEchoPerTopic'
    BY <1>1 DEF IInv, LiveIsOwned, CalmWaiters, OnlyStopBreaks, OneEchoPerTopic, Live, Alive
<1>10. CalmReaders'
    BY <1>1, <1>5 DEF IInv, CalmReaders, Calm, Alive
<1>11. Calm(topic[s]) => stream[topic[s]] = s
    BY <1>1 DEF IInv, CalmReaders
<1>12. CalmBuffers'
    BY <1>1, <1>2, <1>3, <1>11 DEF IInv, CalmBuffers, Calm
<1>13. OnlyStopGarbles'
    BY <1>1, <1>2, <1>4 DEF IInv, CalmBuffers, Calm, OnlyStopGarbles
<1> QED
    BY <1>6, <1>7, <1>8, <1>9, <1>10, <1>12, <1>13 DEF IInv

(* The waiter reaps the child, or joins the reader: it will call on_exit.      *)
LEMMA WaiterStep ==
    ASSUME IInv, NEW s \in Stream, WaiterReaps(s) \/ WaiterJoins(s)
    PROVE  IInv'
<1> USE NoneAssumption
<1>1. /\ UNCHANGED <<topicOf, ids, stream, buffer, phase, listed, conn, want, pc, target, todo,
                      topic, child, freed, rpc, stopped, garbled, fault>>
      /\ Alive /\ wpc[s] \in {"wait", "join"}
    BY DEF WaiterReaps, WaiterJoins, WaiterGoto, WaiterKeeps, maps, channel, handlers, history
<1>2. /\ wpc' \in [Stream -> WaiterPC] /\ running' \in [Stream -> BOOLEAN]
      /\ cleaned' \in [Stream -> BOOLEAN] /\ joined' \in [Stream -> BOOLEAN]
      /\ \A r \in Stream : r # s =>
            wpc'[r] = wpc[r] /\ cleaned'[r] = cleaned[r] /\ joined'[r] = joined[r]
  <2>0. \E to \in {"join", "callback"} : wpc' = [wpc EXCEPT ![s] = to]
    BY DEF WaiterReaps, WaiterJoins, WaiterGoto
  <2>1. /\ wpc' \in [Stream -> WaiterPC]
        /\ \A r \in Stream : r # s => wpc'[r] = wpc[r]
    BY <2>0 DEF IInv, TypeOK, WaiterPC
  <2>2. running' \in [Stream -> BOOLEAN]
    BY DEF IInv, TypeOK, WaiterReaps, WaiterJoins
  <2>3. /\ cleaned' \in [Stream -> BOOLEAN]
        /\ \A r \in Stream : r # s => cleaned'[r] = cleaned[r]
    BY DEF IInv, TypeOK, WaiterReaps, WaiterJoins
  <2>4. /\ joined' \in [Stream -> BOOLEAN]
        /\ \A r \in Stream : r # s => joined'[r] = joined[r]
    BY DEF IInv, TypeOK, WaiterReaps, WaiterJoins
  <2> QED
    BY <2>1, <2>2, <2>3, <2>4
<1>3. child[s] = "gone" /\ wpc'[s] \in {"join", "callback"}
    BY DEF IInv, TypeOK, WaiterShape, WaiterReaps, WaiterJoins, WaiterGoto
<1>4. joined'[s] => joined[s] \/ rpc[s] = "done"
    BY DEF IInv, TypeOK, WaiterReaps, WaiterJoins
<1>5. /\ wpc[s] = "wait" /\ ~cleaned[s] => wpc'[s] = "join"
      /\ wpc[s] = "join" => joined'[s]
    BY DEF IInv, TypeOK, WaiterReaps, WaiterJoins, WaiterGoto
<1>6. TypeOK'
    BY <1>1, <1>2 DEF IInv, TypeOK
<1>7. MapsAgree' /\ MappedByTopic' /\ RestartShape' /\ StopShape'
    BY <1>1 DEF IInv, MapsAgree, MappedByTopic, RestartShape, StopShape
<1>8. FreshOrStarted' /\ WaiterShape'
    BY <1>1, <1>2, <1>3 DEF IInv, FreshOrStarted, WaiterShape
<1>9. JoinShape'
    BY <1>1, <1>2, <1>3, <1>4 DEF IInv, JoinShape
<1>10. LiveIsOwned' /\ CalmReaders' /\ CalmBuffers'
    BY <1>1 DEF IInv, LiveIsOwned, CalmReaders, CalmBuffers, Calm, Live, Alive
<1>11. CalmWaiters'
    BY <1>1, <1>2, <1>3, <1>5 DEF IInv, CalmWaiters
<1>12. OnlyStopBreaks' /\ OneEchoPerTopic' /\ OnlyStopGarbles'
    BY <1>1 DEF IInv, OnlyStopBreaks, OneEchoPerTopic, OnlyStopGarbles, Live, Alive
<1> QED
    BY <1>6, <1>7, <1>8, <1>9, <1>10, <1>11, <1>12 DEF IInv

(* on_exit, with a stream found under its topic.                               *)
LEMMA OnExitFindsStep ==
    ASSUME IInv, NEW s \in Stream, OnExit(s), stream[topic[s]] # NoStream
    PROVE  IInv'
<1> DEFINE t == topic[s]
<1> USE NoneAssumption
<1>1. /\ UNCHANGED <<phase, listed, conn, want, pc, target, todo, topic, child, running, cleaned,
                      joined, rpc, stopped, garbled>>
      /\ Alive /\ wpc[s] = "callback"
      /\ wpc' = [wpc EXCEPT ![s] = "done"]
      /\ topicOf' = Erased(t)
      /\ ids' = [ids EXCEPT ![t] = {}]
      /\ stream' = [stream EXCEPT ![t] = NoStream]
      /\ buffer' = [buffer EXCEPT ![t] = {}]
      /\ Destroyed({stream[t]})
    BY DEF OnExit, channel, handlers, history
<1>2. t \in Topic /\ stream[t] \in Stream
    BY <1>1 DEF IInv, TypeOK, FreshOrStarted
<1>3. /\ \A u \in Topic : u # t => stream'[u] = stream[u] /\ buffer'[u] = buffer[u]
      /\ stream'[t] = NoStream /\ buffer'[t] = {}
      /\ wpc'[s] = "done" /\ \A r \in Stream : r # s => wpc'[r] = wpc[r]
      /\ \A r \in Stream : r # stream[t] => (freed'[r] <=> freed[r])
    BY <1>1, <1>2 DEF IInv, TypeOK, Destroyed
<1>4. /\ fault' \in {"none", "terminate", "use_after_free"} /\ freed' \in [Stream -> BOOLEAN]
      /\ wpc' \in [Stream -> WaiterPC]
    BY <1>1, <1>2 DEF IInv, TypeOK, Destroyed, WaiterPC
<1>5. Alive' => /\ rpc[stream[t]] = "done"
                /\ Live(stream[t]) => \E a \in Agent : target[a] = stream[t]
    BY <1>1, <1>2, DestroyedIsJoined
<1>6. TypeOK'
    BY <1>1, <1>2, <1>4 DEF IInv, TypeOK, Erased
<1>7. MapsAgree'
    BY <1>1, <1>2 DEF IInv, TypeOK, MapsAgree, Erased
<1>8. FreshOrStarted'
    BY <1>1, <1>2, <1>3 DEF IInv, FreshOrStarted
<1>9. MappedByTopic'
    BY <1>1, <1>2, <1>3 DEF IInv, MappedByTopic
<1>10. RestartShape' /\ StopShape' /\ JoinShape'
    BY <1>1 DEF IInv, RestartShape, StopShape, JoinShape
<1>11. WaiterShape'
    BY <1>1, <1>3 DEF IInv, WaiterShape
<1>12. LiveIsOwned'
  <2> SUFFICES ASSUME Alive', NEW r \in Stream, Live(r)
               PROVE  IF r \in stopped THEN \E a \in Agent : target[a] = r \/ r \in todo[a]
                                       ELSE stream'[topic[r]] = r
    BY <1>1 DEF LiveIsOwned, Live
  <2>1. topic[r] \in Topic
    BY DEF IInv, FreshOrStarted, Live
  <2>2. r \notin stopped => r # stream[t]
    BY <1>2, <1>5 DEF IInv, StopShape
  <2> QED
    BY <1>1, <1>3, <2>1, <2>2 DEF IInv, LiveIsOwned
<1>13. CalmReaders'
  <2> SUFFICES ASSUME Alive', NEW r \in Stream, rpc[r] = "loop", Calm(topic[r])
               PROVE  stream'[topic[r]] = r
    BY <1>1 DEF CalmReaders, Calm
  <2>1. topic[r] \in Topic /\ stream[topic[r]] = r /\ r # stream[t]
    BY <1>1, <1>5 DEF IInv, FreshOrStarted, CalmReaders
  <2> QED
    BY <1>3, <2>1
<1>14. CalmBuffers'
    BY <1>1, <1>3 DEF IInv, CalmBuffers, Calm
<1>15. phase = "up" /\ stopped = {} => stream[t] = s /\ joined[s]
    BY <1>1 DEF IInv, CalmWaiters
<1>16. CalmWaiters'
  <2> SUFFICES ASSUME phase = "up", stopped = {}, NEW r \in Stream
               PROVE  /\ wpc'[r] \in {"wait", "join", "callback"} =>
                            stream'[topic[r]] = r /\ ~freed'[r]
                      /\ wpc'[r] = "wait" => ~cleaned[r]
                      /\ wpc'[r] = "callback" => joined[r]
    BY <1>1 DEF CalmWaiters
  <2>1. CASE r = s
    BY <1>3, <2>1
  <2>2. CASE r # s /\ wpc[r] \in {"wait", "join", "callback"}
    <3>1. topic[r] \in Topic /\ stream[topic[r]] = r
        BY <2>2 DEF IInv, FreshOrStarted, CalmWaiters
    <3> QED
        BY <1>3, <1>15, <2>2, <3>1 DEF IInv, CalmWaiters
  <2>3. CASE r # s /\ wpc[r] \notin {"wait", "join", "callback"}
    BY <1>3, <2>3
  <2> QED
    BY <2>1, <2>2, <2>3
<1>17. OnlyStopBreaks'
    BY <1>1, <1>15 DEF IInv, OnlyStopBreaks, Destroyed, Alive
<1>18. OneEchoPerTopic' /\ OnlyStopGarbles'
    BY <1>1 DEF IInv, OneEchoPerTopic, OnlyStopGarbles, Live
<1> QED
    BY <1>6, <1>7, <1>8, <1>9, <1>10, <1>11, <1>12, <1>13, <1>14, <1>16, <1>17, <1>18 DEF IInv

(* on_exit, with nothing found.                                                *)
LEMMA OnExitFindsNothingStep ==
    ASSUME IInv, NEW s \in Stream, OnExit(s), stream[topic[s]] = NoStream
    PROVE  IInv'
<1> USE NoneAssumption
<1>1. /\ UNCHANGED <<topicOf, ids, stream, buffer, phase, listed, conn, want, pc, target, todo,
                      topic, child, running, cleaned, joined, freed, rpc, stopped, garbled, fault>>
      /\ wpc[s] = "callback" /\ wpc' = [wpc EXCEPT ![s] = "done"]
    BY DEF OnExit, maps, channel, handlers, history
<1>2. wpc'[s] = "done" /\ \A r \in Stream : r # s => wpc'[r] = wpc[r]
    BY <1>1 DEF IInv, TypeOK
<1>3. TypeOK'
    BY <1>1 DEF IInv, TypeOK, WaiterPC
<1>4. MapsAgree' /\ MappedByTopic' /\ RestartShape' /\ StopShape' /\ JoinShape'
    BY <1>1 DEF IInv, MapsAgree, MappedByTopic, RestartShape, StopShape, JoinShape
<1>5. FreshOrStarted' /\ WaiterShape'
    BY <1>1, <1>2 DEF IInv, FreshOrStarted, WaiterShape
<1>6. LiveIsOwned' /\ CalmReaders' /\ CalmBuffers'
    BY <1>1 DEF IInv, LiveIsOwned, CalmReaders, CalmBuffers, Calm, Live, Alive
<1>7. CalmWaiters'
    BY <1>1, <1>2 DEF IInv, CalmWaiters
<1>8. OnlyStopBreaks' /\ OneEchoPerTopic' /\ OnlyStopGarbles'
    BY <1>1 DEF IInv, OnlyStopBreaks, OneEchoPerTopic, OnlyStopGarbles, Live, Alive
<1> QED
    BY <1>3, <1>4, <1>5, <1>6, <1>7, <1>8 DEF IInv

(* The echo process ends.                                                      *)
LEMMA ExitsStep ==
    ASSUME IInv, NEW s \in Stream, ChildExits(s) \/ ChildDies(s)
    PROVE  IInv'
<1> USE NoneAssumption
<1>1. /\ UNCHANGED <<topicOf, ids, stream, buffer, phase, listed, conn, want, pc, target, todo,
                      topic, running, cleaned, joined, freed, rpc, wpc, stopped, garbled, fault>>
      /\ child[s] \in {"up", "killed"} /\ child' = [child EXCEPT ![s] = "gone"]
    BY DEF ChildExits, ChildDies, Exits, maps, channel, handlers, history
<1>2. child'[s] = "gone" /\ \A r \in Stream : r # s => child'[r] = child[r]
    BY <1>1 DEF IInv, TypeOK
<1>3. TypeOK'
    BY <1>1 DEF IInv, TypeOK
<1>4. MapsAgree' /\ MappedByTopic' /\ RestartShape' /\ StopShape'
    BY <1>1 DEF IInv, MapsAgree, MappedByTopic, RestartShape, StopShape
<1>5. FreshOrStarted' /\ WaiterShape' /\ JoinShape'
    BY <1>1, <1>2 DEF IInv, FreshOrStarted, WaiterShape, JoinShape
<1>6. LiveIsOwned' /\ OneEchoPerTopic'
    BY <1>1, <1>2 DEF IInv, LiveIsOwned, OneEchoPerTopic, Live, Alive
<1>7. CalmReaders' /\ CalmBuffers' /\ CalmWaiters'
    BY <1>1 DEF IInv, CalmReaders, CalmBuffers, CalmWaiters, Calm, Alive
<1>8. OnlyStopBreaks' /\ OnlyStopGarbles'
    BY <1>1 DEF IInv, OnlyStopBreaks, OnlyStopGarbles, Alive
<1> QED
    BY <1>3, <1>4, <1>5, <1>6, <1>7, <1>8 DEF IInv

(* The steps of a handler outside the manager, and its refusals.               *)
LEMMA HandlerQuietStep ==
    ASSUME IInv, NEW c \in Conn,
           \/ SubscribeTopic(c) \/ UnsubscribeTopic(c) \/ SubscribeFails(c) \/ Register(c)
           \/ UnsubscribeFails(c) \/ Unlist(c) \/ Disconnect(c)
    PROVE  IInv'
<1> USE NoneAssumption, RestarterAssumption
        DEF Ready, InManager, Answered, maps, process, history, handlers, channel
<1> USE DEF SubscribeTopic, UnsubscribeTopic, Request, SubscribeFails, Register,
            UnsubscribeFails, Unlist, Disconnect
<1>1. c \in Agent /\ c # Restarter
    BY DEF Agent
<1>2. UNCHANGED <<maps, phase, target, todo, process, rpc, wpc, history, fault>>
    OBVIOUS
<1>3. /\ \A a \in Agent : a # c => pc'[a] = pc[a]
      /\ pc' = pc \/ (pc[c] \notin StopPC /\ pc'[c] \notin StopPC)
    BY <1>1 DEF IInv, TypeOK, StopPC
<1>4. pc' \in [Agent -> HandlerPC] /\ want' \in [Conn -> Sub \cup {NoSub}]
    BY DEF IInv, TypeOK, HandlerPC
<1>5. listed' \in [Sub -> SUBSET Conn] /\ conn' \in [Conn -> {"open", "gone"}]
    BY DEF IInv, TypeOK
<1>6. TypeOK'
    BY <1>2, <1>4, <1>5 DEF IInv, TypeOK
<1>7. pc'[Restarter] = pc[Restarter]
    BY <1>1, <1>3 DEF Agent
<1> QED
    BY <1>2, <1>3, <1>6, <1>7, QuietStep

(* What reaches a manager or a handle that is gone has a stop before it.       *)
LEMMA DanglesStep ==
    ASSUME IInv,
           \/ \E c \in Conn : ManagerDangles(c)
           \/ \E s \in Stream : \/ ReaderDangles(s) \/ OnExitDangles(s)
                                \/ WaiterTouchesFreed(s)
    PROVE  IInv'
<1>1. /\ fault' = "use_after_free"
      /\ UNCHANGED <<maps, phase, channel, handlers, process, rpc, wpc, history>>
    BY DEF ManagerDangles, ReaderDangles, OnExitDangles, WaiterTouchesFreed
<1>2. ~(phase = "up" /\ stopped = {})
    BY DEF IInv, CalmWaiters, ManagerDangles, ReaderDangles, OnExitDangles, WaiterTouchesFreed
<1> QED
    BY <1>1, <1>2, FaultStep

(* Every step of the system keeps the invariant.                               *)
LEMMA NextStep == IInv /\ [Next]_vars => IInv'
<1> SUFFICES ASSUME IInv, [Next]_vars PROVE IInv'
    OBVIOUS
<1>1. CASE UNCHANGED vars
  <2>1. UNCHANGED <<maps, phase, channel, handlers, process, rpc, wpc, history, fault>>
    BY <1>1 DEF vars
  <2>2. TypeOK' /\ pc' = pc
    BY <2>1 DEF IInv, TypeOK, maps, channel, handlers, process, history
  <2> QED
    BY <2>1, <2>2, QuietStep DEF handlers
<1>2. ASSUME NEW c \in Conn, Handler(c) PROVE IInv'
    BY <1>2, HandlerQuietStep, DanglesStep, TakesStep, JoinsStep, StartsStep DEF Handler
<1>3. ASSUME NEW a \in Agent, Stop(a) PROVE IInv'
    BY <1>3, StopSignalsStep, StopExchangesStep, StopJoinsStep, StopFreesStep DEF Stop
<1>4. CASE Restart
    BY <1>4, ShutdownStep, ShutdownNextStep, DestroyStep DEF Restart
<1>5. ASSUME NEW s \in Stream, Reader(s) PROVE IInv'
    BY <1>5, ReaderStep, DanglesStep DEF Reader
<1>6. ASSUME NEW s \in Stream, Waiter(s) PROVE IInv'
    BY <1>6, WaiterStep, DanglesStep, OnExitFindsStep, OnExitFindsNothingStep DEF Waiter
<1>7. ASSUME NEW s \in Stream, ChildExits(s) \/ ChildDies(s) PROVE IInv'
    BY <1>7, ExitsStep
<1> QED
    BY <1>1, <1>2, <1>3, <1>4, <1>5, <1>6, <1>7 DEF Next, Ended

(* The invariant holds of every behaviour of the handlers, readers, waiters    *)
(* and the restart.                                                            *)
THEOREM Inductive == Spec => []IInv
<1>1. Init => IInv
    BY InitIInv
<1>2. IInv /\ [Next]_vars => IInv'
    BY NextStep
<1> QED
    BY <1>1, <1>2, PTL DEF Spec

-----------------------------------------------------------------------------
(* The variables have their types, whatever the numbers of clients, ids,       *)
(* topics and streams.                                                         *)
THEOREM TypeCorrect == Spec => []TypeOK
<1>1. IInv => TypeOK
    BY DEF IInv
<1> QED
    BY Inductive, <1>1, PTL

(* subscriptions_ and topic_streams_ always agree.                             *)
THEOREM MapsAlwaysAgree == Spec => []MapsAgree
<1>1. IInv => MapsAgree
    BY DEF IInv
<1> QED
    BY Inductive, <1>1, PTL

(* A running echo process is always in topic_streams_ or in the hands of a     *)
(* stop_streaming that will end it.                                            *)
THEOREM EveryEchoIsOwned == Spec => []NoEchoForgotten
<1>1. IInv => NoEchoForgotten
  <2> SUFFICES ASSUME IInv, Alive, NEW s \in Stream, Live(s), s \notin stopped
               PROVE  s \in Echoes
    BY DEF IInv, NoEchoForgotten, LiveIsOwned
  <2>1. topic[s] \in Topic /\ stream[topic[s]] = s
    BY DEF IInv, LiveIsOwned, FreshOrStarted, Live
  <2> QED
    BY <2>1, NoneAssumption DEF Echoes
<1> QED
    BY Inductive, <1>1, PTL

(* Two echo processes that nobody stops are never of the same topic.           *)
THEOREM OneEcho == Spec => []OneEchoPerTopic
<1>1. IInv => OneEchoPerTopic
    BY DEF IInv
<1> QED
    BY Inductive, <1>1, PTL

(* Without a stop_streaming and a restart, on_exit frees its own stream only,  *)
(* and nothing is used after it has been freed.                                *)
THEOREM NothingBreaksWithoutStop == Spec => []OnlyStopBreaks
<1>1. IInv => OnlyStopBreaks
    BY DEF IInv
<1> QED
    BY Inductive, <1>1, PTL

(* A message with the lines of two streams is of a topic that had one stopped. *)
THEOREM NothingMixesWithoutStop == Spec => []OnlyStopGarbles
<1>1. IInv => OnlyStopGarbles
    BY DEF IInv
<1> QED
    BY Inductive, <1>1, PTL
=============================================================================
