----------------------------- MODULE RosCallsProofs -----------------------------
(* Proofs about the calls of RosCalls, for any number of connections, ids and  *)
(* calls: no process is forgotten, no result is told twice, and what goes to   *)
(* the wrong client or call does so only by the races the module names.        *)
EXTENDS RosCalls, TLAPS

Registering == {"spawn", "track", "register"}
Ending == StopPC \cup {"notify", "unlist"}

(* k and r are calls of one kind with one id.                                  *)
Same(k, r) == kind[k] = kind[r] /\ id[k] = id[r]

(* A service call has its id until its thread erases it.                       *)
Owns(k) == kind[k] = "service" /\ thread[k] # "done"

(* Nobody will answer k any more: its result was too early, or a restart has   *)
(* stopped it.                                                                 *)
Passed(k) == outcome[k] = "early" \/ (outcome[k] = "none" /\ k \in taken)

(* Nothing has happened to a call that was not made.                           *)
MadeShape ==
    \A k \in Call : kind[k] = "none" =>
        /\ child[k] = "none" /\ thread[k] = "none" /\ reader[k] = "none"
        /\ handle[k] = "none" /\ outcome[k] = "none" /\ strangers[k] = {}
        /\ k \notin taken /\ k \notin crossed

(* A map has a call under its own kind and id, unless it was taken over.       *)
HeldShape ==
    \A s \in Streamed, i \in Id : held[s][i] # NoCall =>
        /\ kind[held[s][i]] = s /\ id[held[s][i]] = i
        /\ held[s][i] \notin taken

(* The threads of a service call and of a stream, and what they are past.      *)
ServiceShape ==
    \A k \in Call : kind[k] = "service" =>
        /\ k \notin taken /\ thread[k] \notin {"wait", "join", "callback"}
        /\ thread[k] = "none" => child[k] = "none"
        /\ thread[k] \notin {"none", "exec", "reap"} => child[k] = "gone"
        /\ reader[k] = "none"
StreamShape ==
    \A k \in Call : kind[k] \in Streamed =>
        /\ thread[k] \in {"wait", "join", "callback", "done"}
        /\ thread[k] # "wait" => child[k] = "gone"
        /\ handle[k] = "joined" => child[k] = "gone" /\ reader[k] = "done"

(* What a handler works on: a call of its own, or one it has taken over.       *)
HandlerShape ==
    \A a \in Agent :
        /\ pc[a] \in Registering =>
              /\ a \in Conn /\ want[a] \in Call /\ by[want[a]] = a /\ conn[a] = "open"
              /\ kind[want[a]] # "none"
              /\ pc[a] # "register" => kind[want[a]] = "service"
              /\ pc[a] = "spawn" => thread[want[a]] = "none"
              /\ pc[a] # "spawn" => thread[want[a]] # "none"
        /\ pc[a] \in Ending => want[a] \in taken
        /\ pc[a] = "notify" => kind[want[a]] = "bag"
        /\ pc[a] \in {"notify", "unlist"} => a # Restarter

(* The restart goes through its phases, and has taken over what it stops.      *)
RestartShape ==
    /\ pc[Restarter] \in {"idle", "take", "stopped"} \cup StopPC
    /\ \A c \in Conn : pc[c] \notin {"take", "stopped"}
    /\ pc[Restarter] = "idle" <=> phase \in {"up", "threads", "destroyed"}
    /\ pc[Restarter] \in {"idle", "take"} => todo = {}
    /\ todo \subseteq taken

(* Two service calls never have one id.                                        *)
OwnerShape ==
    /\ \A k \in Call : Owns(k) /\ phase # "destroyed" => id[k] \in active
    /\ \A k, r \in Call : Owns(k) /\ Owns(r) /\ id[k] = id[r] => k = r

(* A result comes before the id is erased or with the departure from the map.  *)
AnswerShape ==
    /\ twice = {}
    /\ \A k \in Call :
          /\ kind[k] = "service" => (outcome[k] = "none" <=> thread[k] \notin {"erase", "done"})
          /\ outcome[k] # "none" => kind[k] # "bag" /\ k \notin Held

(* A stream that is in no map was taken over, or is an action whose end was    *)
(* told: its own waiter has done that, or one that took it for its own.        *)
LeaveShape ==
    phase # "destroyed" =>
        \A k \in Call : kind[k] \in Streamed /\ k \notin Held /\ k \notin taken =>
            /\ kind[k] = "action" /\ outcome[k] # "none"
            /\ Alive => reader[k] = "done" /\ child[k] = "gone"
            /\ thread[k] = "done" \/ k \in crossed

(* Before an abort, a process that runs is in a map or in the hands of whoever *)
(* waits for it or stops it.                                                   *)
ProcessShape ==
    Alive => \A k \in Call : Live(k) =>
        \/ k \in Held \/ k \in todo \/ thread[k] \in {"exec", "reap"}
        \/ \E a \in Agent : want[a] = k /\ pc[a] \in StopPC

(* As long as nobody stops anything, a handle goes through the hands of its    *)
(* waiter only.                                                                *)
CalmShape ==
    phase = "up" /\ taken = {} =>
        /\ fault \in {"none", "gone_connection"}
        /\ \A k \in Call : kind[k] \in Streamed =>
              /\ thread[k] = "wait" <=> handle[k] = "open"
              /\ thread[k] = "join" <=> handle[k] = "claimed"
              /\ thread[k] = "callback" => handle[k] = "joined"

Core ==
    /\ TypeOK
    /\ MadeShape
    /\ HeldShape
    /\ ServiceShape
    /\ StreamShape
    /\ HandlerShape
    /\ RestartShape
    /\ OwnerShape
    /\ AnswerShape
    /\ LeaveShape
    /\ ProcessShape
    /\ CalmShape
    /\ CrossedOnlyAfterStop

(* A client that has been registered for a call waits for its result until a   *)
(* stop of another call with the id has unregistered it.                       *)
WaitShape ==
    \A k \in Call :
        /\ outcome[k] = "none" /\ conn[by[k]] = "open" /\ ~HasNotRegistered(k)
        /\ kind[k] = "service" \/ (kind[k] = "action" /\ k \in Held)
        => by[k] \in listed[kind[k]][id[k]] \/ \E r \in taken \ {k} : Same(k, r)

(* A client is listed for a call that has no result yet, or that nobody will   *)
(* answer.                                                                     *)
ListShape ==
    \A s \in Kind, i \in Id : \A c \in listed[s][i] :
        \E k \in Call :
            /\ by[k] = c /\ kind[k] = s /\ id[k] = i
            /\ outcome[k] = "early" \/ (outcome[k] = "none" /\ ~HasNotRegistered(k))

(* A client that gets its result before it is registered was listed for an     *)
(* earlier call.                                                               *)
EarlyShape ==
    \A k \in Call : HasNotRegistered(k) /\ outcome[k] \notin {"none", "early"} =>
        \E r \in Call \ {k} : by[r] = by[k] /\ Same(k, r) /\ Passed(r)

Race == WaitShape /\ ListShape /\ EarlyShape /\ AstrayOnlyByRace

-----------------------------------------------------------------------------
(* What is in a map, and what leaves it.                                       *)

(* NoCall is no call.                                                          *)
LEMMA NoCallOut == NoCall \notin Call
    BY MaxCallsAssumption DEF NoCall, Call

(* A call in a map has the id it is found by, and nobody has taken it over.    *)
LEMMA HeldIs ==
    ASSUME Core, NEW k \in Held
    PROVE  /\ k \in Call /\ kind[k] \in Streamed /\ id[k] \in Id
           /\ Holder(k) = k /\ k \notin taken
<1>1. PICK s \in Streamed, i \in Id : k = held[s][i] /\ k # NoCall
    BY DEF Held
<1> QED
    BY <1>1 DEF Core, TypeOK, HeldShape, Holder

(* What a map has under the id of a call is a call of its kind with its id.    *)
LEMMA HolderIs ==
    ASSUME Core, NEW k \in Call, kind[k] \in Streamed, Holder(k) # NoCall
    PROVE  Holder(k) \in Held /\ Same(Holder(k), k)
    BY DEF Core, TypeOK, HeldShape, Holder, Held, Same

(* TakenOut takes out one call.                                                *)
LEMMA TakenOutIs ==
    ASSUME Core, NEW k \in Held, held' = TakenOut(k)
    PROVE  /\ Held' = Held \ {k}
           /\ held' \in [Streamed -> [Id -> Call \cup {NoCall}]]
           /\ \A s \in Streamed, i \in Id :
                 held'[s][i] # NoCall => held'[s][i] = held[s][i]
<1>1. k \in Call /\ kind[k] \in Streamed /\ id[k] \in Id /\ held[kind[k]][id[k]] = k
    BY HeldIs DEF Holder
<1>2. held' \in [Streamed -> [Id -> Call \cup {NoCall}]]
    BY <1>1 DEF Core, TypeOK, TakenOut
<1>3. \A s \in Streamed, i \in Id :
         held'[s][i] = IF s = kind[k] /\ i = id[k] THEN NoCall ELSE held[s][i]
    BY <1>1 DEF Core, TypeOK, TakenOut
<1>4. \A s \in Streamed, i \in Id : held[s][i] = k => s = kind[k] /\ i = id[k]
    BY <1>1, NoCallOut DEF Core, HeldShape
<1>5. Held' = Held \ {k}
    BY <1>1, <1>3, <1>4 DEF Held
<1> QED
    BY <1>2, <1>3, <1>5

(* A restart takes out all calls of a kind.                                    *)
LEMMA EmptiedIs ==
    ASSUME Core, NEW s \in Streamed, held' = [held EXCEPT ![s] = Empty],
           NEW T, T = {held[s][i] : i \in Id} \ {NoCall}
    PROVE  /\ T \subseteq Held /\ Held' = Held \ T
           /\ held' \in [Streamed -> [Id -> Call \cup {NoCall}]]
           /\ \A r \in Streamed, i \in Id :
                 held'[r][i] # NoCall => held'[r][i] = held[r][i] /\ held[r][i] \notin T
<1>1. T \subseteq Held
    BY DEF Held
<1>2. held' \in [Streamed -> [Id -> Call \cup {NoCall}]]
    BY DEF Core, TypeOK, Empty
<1>3. \A r \in Streamed, i \in Id : held'[r][i] = IF r = s THEN NoCall ELSE held[r][i]
    BY DEF Core, TypeOK, Empty
<1>4. \A r \in Streamed, i \in Id : held[r][i] \in T => r = s
    BY DEF Core, HeldShape
<1>5. Held' = Held \ T
    BY <1>3, <1>4 DEF Held
<1> QED
    BY <1>1, <1>2, <1>3, <1>4, <1>5

(* CallStream puts in one call.                                                *)
LEMMA PutInIs ==
    ASSUME Core, NEW k \in Call, NEW s \in Streamed, NEW i \in Id, held[s][i] = NoCall,
           held' = [held EXCEPT ![s][i] = k]
    PROVE  Held' = Held \cup {k}
<1>1. \A r \in Streamed, j \in Id :
         held'[r][j] = IF r = s /\ j = i THEN k ELSE held[r][j]
    BY DEF Core, TypeOK
<1> QED
    BY <1>1, NoCallOut DEF Held

(* A call that has a result, is taken over or has a process was made.          *)
LEMMA MadeIs ==
    ASSUME Core, NEW k \in Call,
           k \in taken \/ thread[k] # "none" \/ reader[k] # "none" \/ child[k] # "none"
    PROVE  kind[k] \in Kind /\ id[k] \in Id /\ (k \in taken => kind[k] \in Streamed)
    BY DEF Core, TypeOK, MadeShape, ServiceShape, Kind, Streamed

(* The first result of a call changes what there is to say of that call only.  *)
LEMMA ResultIs ==
    ASSUME Core, NEW k \in Call, kind[k] \in Kind, Result(k)
    PROVE  /\ outcome' \in [Call -> Outcome] /\ outcome'[k] # "none"
           /\ \A r \in Call \ {k} : outcome'[r] = outcome[r] /\ strangers'[r] = strangers[r]
           /\ strangers' \in [Call -> SUBSET Conn]
           /\ listed' \in [Kind -> [Id -> SUBSET Conn]]
           /\ twice' \subseteq Call /\ (outcome[k] = "none" => twice' = twice)
<1>1. listed[kind[k]][id[k]] \subseteq Conn
    BY DEF Core, TypeOK
<1> QED
    BY <1>1 DEF Core, TypeOK, Result, Listed, AnswerTakes, Outcome

(* The handler of a connection and the threads of a call tell clients ...      *)
LEMMA SendersAre ==
    ASSUME NEW c \in Conn, NEW k \in Call
    PROVE  <<"handler", c>> \in Sender /\ <<"reader", k>> \in Sender
           /\ <<"thread", k>> \in Sender
    BY DEF Sender, Agent

(* ... of which they have copied some connections.                             *)
LEMMA CopiesTyped ==
    ASSUME Core, NEW s \in Sender, NEW C \in SUBSET Conn, Copies(s, C)
    PROVE  copied' \in [Sender -> SUBSET Conn]
    BY DEF Core, TypeOK, Copies

(* Those listed under an id are connections.                                   *)
LEMMA ListedTyped ==
    ASSUME Core, NEW k \in Call, kind[k] \in Kind
    PROVE  Listed(k) \in SUBSET Conn
    BY DEF Core, TypeOK, Listed

(* The exit of an action ends the one that has its id by now.                  *)
LEMMA ExitEnds ==
    ASSUME Core, NEW k \in Call, ActionExits(k), Holder(k) # NoCall
    PROVE  /\ Holder(k) \in Held /\ Holder(k) \in Call /\ Same(Holder(k), k)
           /\ outcome[Holder(k)] = "none"
           /\ held' = TakenOut(Holder(k)) /\ Held' = Held \ {Holder(k)}
           /\ held' \in [Streamed -> [Id -> Call \cup {NoCall}]]
           /\ listed' \in [Kind -> [Id -> SUBSET Conn]]
           /\ outcome' \in [Call -> Outcome] /\ outcome'[Holder(k)] # "none"
           /\ strangers' \in [Call -> SUBSET Conn] /\ twice' = twice
           /\ \A r \in Call \ {Holder(k)} :
                 outcome'[r] = outcome[r] /\ strangers'[r] = strangers[r]
<1>1. kind[k] = "action" /\ held' = TakenOut(k) /\ Result(Holder(k))
    BY DEF ActionExits
<1>2. Holder(k) \in Held /\ Same(Holder(k), k)
    BY <1>1, HolderIs DEF Streamed
<1>3. Holder(k) \in Call /\ outcome[Holder(k)] = "none"
    BY <1>2, HeldIs DEF Core, AnswerShape
<1>4. held' = TakenOut(Holder(k))
    BY <1>1, <1>2 DEF TakenOut, Same
<1>5. kind[Holder(k)] \in Kind
    BY <1>1, <1>2 DEF Same, Kind, Streamed
<1> HIDE DEF Holder
<1>6. /\ Held' = Held \ {Holder(k)}
      /\ held' \in [Streamed -> [Id -> Call \cup {NoCall}]]
    BY <1>2, <1>4, TakenOutIs
<1>7. /\ listed' \in [Kind -> [Id -> SUBSET Conn]]
      /\ outcome' \in [Call -> Outcome] /\ outcome'[Holder(k)] # "none"
      /\ strangers' \in [Call -> SUBSET Conn] /\ twice' = twice
      /\ \A r \in Call \ {Holder(k)} :
            outcome'[r] = outcome[r] /\ strangers'[r] = strangers[r]
    BY <1>1, <1>3, <1>5, ResultIs
<1> QED
    BY <1>2, <1>3, <1>4, <1>6, <1>7

(* call_service claims the id ...                                              *)
LEMMA CallServiceStep ==
    ASSUME Core, NEW c \in Conn, NEW k \in Call, NEW i \in Id, CallService(c, k, i)
    PROVE  Core'
<1> USE DEF CallService, Ready, IdFree, Makes, Alive, channel, process, history
<1>1. TypeOK'
    BY DEF Core, TypeOK, Phase, Outcome, Kind, Streamed, Agent, HandlerPC, StopPC
<1>2. MadeShape'
    BY NoCallOut DEF Core, TypeOK, MadeShape
<1>3. HeldShape'
    BY NoCallOut DEF Core, TypeOK, MadeShape, AnswerShape, Held, HeldShape, Streamed
<1>4. ServiceShape'
    BY NoCallOut DEF Core, TypeOK, MadeShape, ServiceShape
<1>5. StreamShape'
    BY NoCallOut DEF Core, TypeOK, StreamShape, Streamed
<1>6. HandlerShape'
    BY NoCallOut
       DEF Core, TypeOK, MadeShape, HandlerShape, Registering, Ending, StopPC, Agent
<1>7. RestartShape'
    BY RestarterAssumption, NoCallOut DEF Core, TypeOK, RestartShape, StopPC, Agent
<1>8. OwnerShape'
    BY NoCallOut DEF Core, TypeOK, MadeShape, OwnerShape, Owns
<1>9. AnswerShape'
    BY NoCallOut DEF Core, TypeOK, MadeShape, AnswerShape, Held
<1>10. LeaveShape'
    BY NoCallOut DEF Core, TypeOK, LeaveShape, Held, Streamed
<1>11. ProcessShape'
  <2>1. Held' = Held
      BY DEF Held
  <2> QED
      BY <2>1 DEF Core, TypeOK, ProcessShape, Live, StopPC, Agent
<1>12. CalmShape'
    BY NoCallOut DEF Core, TypeOK, CalmShape, Streamed
<1>13. CrossedOnlyAfterStop'
  <2>1. k \notin taken /\ k \notin crossed
      BY DEF Core, MadeShape
  <2>2. \A r \in Call \ {k} : kind'[r] = kind[r] /\ id'[r] = id[r]
      BY DEF Core, TypeOK
  <2>3. SUFFICES ASSUME NEW r \in crossed
                 PROVE  \E t \in taken \ {r} : kind'[t] = kind'[r] /\ id'[t] = id'[r]
      BY DEF CrossedOnlyAfterStop
  <2>4. PICK t \in taken \ {r} : kind[t] = kind[r] /\ id[t] = id[r]
      BY DEF Core, CrossedOnlyAfterStop
  <2>5. t \in Call \ {k} /\ r \in Call \ {k}
      BY <2>1 DEF Core, TypeOK
  <2> QED
      BY <2>2, <2>4, <2>5
<1> QED
    BY <1>1, <1>2, <1>3, <1>4, <1>5, <1>6, <1>7, <1>8, <1>9, <1>10, <1>11, <1>12,
       <1>13
       DEF Core

(* ... starts its thread ...                                                   *)
LEMMA SpawnServiceStep ==
    ASSUME Core, NEW c \in Conn, SpawnService(c)
    PROVE  Core'
<1> USE DEF SpawnService, HandlerGoto, Alive, calls, channel, history
<1>1. TypeOK'
    BY DEF Core, TypeOK, HandlerShape, Registering, Ending, StopPC, Agent, Phase,
           Outcome, Kind, Streamed, Agent, HandlerPC, StopPC
<1>2. MadeShape'
    BY NoCallOut
       DEF Core, TypeOK, HandlerShape, Registering, Ending, StopPC, Agent, MadeShape
<1>3. ServiceShape'
    BY NoCallOut
       DEF Core, TypeOK, HandlerShape, Registering, Ending, StopPC, Agent,
           ServiceShape
<1>4. StreamShape'
    BY NoCallOut
       DEF Core, TypeOK, HandlerShape, Registering, Ending, StopPC, Agent,
           StreamShape, Streamed
<1>5. HandlerShape'
    BY NoCallOut DEF Core, TypeOK, HandlerShape, Registering, Ending, StopPC, Agent
<1>6. RestartShape'
    BY RestarterAssumption, NoCallOut DEF Core, TypeOK, RestartShape, StopPC, Agent
<1>7. OwnerShape'
    BY NoCallOut
       DEF Core, TypeOK, HandlerShape, Registering, Ending, StopPC, Agent,
           OwnerShape, Owns
<1>8. AnswerShape'
    BY NoCallOut
       DEF Core, TypeOK, HandlerShape, Registering, Ending, StopPC, Agent,
           AnswerShape, Held
<1>9. LeaveShape'
  <2>1. Held' = Held
      BY DEF Held
  <2>2. kind[want[c]] = "service"
      BY DEF Core, TypeOK, HandlerShape, Registering, Agent
  <2>3. \A r \in Call \ {want[c]} : thread'[r] = thread[r] /\ child'[r] = child[r]
      BY DEF Core, TypeOK
  <2> QED
      BY <2>1, <2>2, <2>3 DEF Core, TypeOK, LeaveShape, Streamed
<1>10. ProcessShape'
    BY NoCallOut
       DEF Core, TypeOK, HandlerShape, Registering, Ending, StopPC, Agent,
           ProcessShape, Live, Held
<1>11. CalmShape'
    BY NoCallOut
       DEF Core, TypeOK, HandlerShape, Registering, Ending, StopPC, Agent,
           CalmShape, Streamed
<1>12. HeldShape' /\ CrossedOnlyAfterStop'
    BY DEF Core, HeldShape, CrossedOnlyAfterStop, Streamed
<1> QED
    BY <1>1, <1>2, <1>3, <1>4, <1>5, <1>6, <1>7, <1>8, <1>9, <1>10, <1>11, <1>12
       DEF Core

(* ... and keeps it in the list.                                               *)
LEMMA TrackServiceStep ==
    ASSUME Core, NEW c \in Conn, TrackService(c)
    PROVE  Core'
<1> USE DEF TrackService, HandlerGoto, Alive, calls, channel, process, history
<1>1. TypeOK'
    BY DEF Core, TypeOK, HandlerShape, Registering, Ending, StopPC, Agent, Phase,
           Outcome, Kind, Streamed, Agent, HandlerPC, StopPC
<1>2. HandlerShape'
    BY NoCallOut DEF Core, TypeOK, HandlerShape, Registering, Ending, StopPC, Agent
<1>3. RestartShape'
    BY RestarterAssumption, NoCallOut DEF Core, TypeOK, RestartShape, StopPC, Agent
<1>4. ProcessShape'
    BY NoCallOut DEF Core, TypeOK, ProcessShape, Live, Held, StopPC, Agent
<1>5. /\ MadeShape' /\ HeldShape' /\ ServiceShape' /\ StreamShape'
      /\ OwnerShape' /\ AnswerShape' /\ LeaveShape' /\ CalmShape'
      /\ CrossedOnlyAfterStop'
    BY DEF Core, MadeShape, HeldShape, ServiceShape, StreamShape, OwnerShape,
           AnswerShape, LeaveShape, CalmShape, CrossedOnlyAfterStop, Streamed, Owns,
           Held
<1> QED
    BY <1>1, <1>2, <1>3, <1>4, <1>5 DEF Core

(* call_action and start_bag start a stream.                                   *)
LEMMA CallStreamStep ==
    ASSUME Core, NEW c \in Conn, NEW k \in Call, NEW s \in Streamed, NEW i \in Id,
            CallStream(c, k, s, i)
    PROVE  Core'
<1> USE DEF CallStream, Ready, StreamIdFree, Makes, Alive, channel, history
<1>1. TypeOK'
  <2>1. <<"handler", c>> \in Sender
      BY SendersAre
  <2> DEFINE told == IF s = "bag" THEN listed["bag"][i] ELSE {}
  <2>3. told \in SUBSET Conn /\ Copies(<<"handler", c>>, told)
      BY DEF Core, TypeOK, Kind, Streamed
  <2> HIDE DEF told
  <2>2. copied' \in [Sender -> SUBSET Conn]
      BY <2>1, <2>3, CopiesTyped
  <2> QED
      BY <2>2
         DEF Core, TypeOK, Phase, Outcome, Kind, Streamed, Agent, HandlerPC, StopPC
<1>2. MadeShape'
    BY DEF Core, TypeOK, MadeShape, Streamed
<1>3. HeldShape'
    BY NoCallOut DEF Core, TypeOK, MadeShape, HeldShape, Streamed
<1>4. ServiceShape'
    BY DEF Core, TypeOK, MadeShape, ServiceShape, Streamed
<1>5. StreamShape'
    BY NoCallOut DEF Core, TypeOK, MadeShape, StreamShape, Streamed
<1>6. HandlerShape'
    BY DEF Core, TypeOK, MadeShape, HandlerShape, Registering, Ending, StopPC,
           Agent, Streamed
<1>7. RestartShape'
    BY RestarterAssumption, NoCallOut DEF Core, TypeOK, RestartShape, StopPC, Agent
<1>8. OwnerShape'
    BY DEF Core, TypeOK, MadeShape, OwnerShape, Owns, Streamed
<1>9. AnswerShape'
    BY NoCallOut DEF Core, TypeOK, MadeShape, AnswerShape, Held
<1>10. LeaveShape'
    BY NoCallOut DEF Core, TypeOK, MadeShape, LeaveShape, Held, Streamed
<1>11. ProcessShape'
  <2>1. k \in Held' /\ Held \subseteq Held'
      BY PutInIs
  <2>2. \A a \in Agent : pc[a] \in StopPC => pc'[a] = pc[a] /\ want'[a] = want[a]
      BY DEF Core, TypeOK, Agent, StopPC
  <2>3. \A r \in Call \ {k} : thread'[r] = thread[r] /\ child'[r] = child[r]
      BY DEF Core, TypeOK
  <2> QED
      BY <2>1, <2>2, <2>3 DEF Core, ProcessShape, Live
<1>12. CalmShape'
    BY NoCallOut DEF Core, TypeOK, MadeShape, CalmShape, Streamed
<1>13. CrossedOnlyAfterStop'
  <2>1. k \notin taken /\ k \notin crossed
      BY DEF Core, MadeShape
  <2>2. \A r \in Call \ {k} : kind'[r] = kind[r] /\ id'[r] = id[r]
      BY DEF Core, TypeOK
  <2>3. SUFFICES ASSUME NEW r \in crossed
                 PROVE  \E t \in taken \ {r} : kind'[t] = kind'[r] /\ id'[t] = id'[r]
      BY DEF CrossedOnlyAfterStop
  <2>4. PICK t \in taken \ {r} : kind[t] = kind[r] /\ id[t] = id[r]
      BY DEF Core, CrossedOnlyAfterStop
  <2>5. t \in Call \ {k} /\ r \in Call \ {k}
      BY <2>1 DEF Core, TypeOK
  <2> QED
      BY <2>2, <2>4, <2>5
<1> QED
    BY <1>1, <1>2, <1>3, <1>4, <1>5, <1>6, <1>7, <1>8, <1>9, <1>10, <1>11, <1>12,
       <1>13
       DEF Core

(* The channel lists who has made a call.                                      *)
LEMMA RegisterStep ==
    ASSUME Core, NEW c \in Conn, Register(c)
    PROVE  Core'
<1> USE DEF Register, HandlerGoto, Alive, calls, manager, process, history
<1>1. TypeOK'
    BY DEF Core, TypeOK, HandlerShape, Registering, Ending, StopPC, Agent, Phase,
           Outcome, Kind, Streamed, Agent, HandlerPC, StopPC
<1>2. HandlerShape'
    BY NoCallOut DEF Core, TypeOK, HandlerShape, Registering, Ending, StopPC, Agent
<1>3. RestartShape'
    BY RestarterAssumption, NoCallOut DEF Core, TypeOK, RestartShape, StopPC, Agent
<1>4. ProcessShape'
  <2>1. Held' = Held
      BY DEF Held
  <2>2. \A a \in Agent : pc[a] \in StopPC => pc'[a] = pc[a] /\ want'[a] = want[a]
      BY DEF Core, TypeOK, StopPC, Agent
  <2> QED
      BY <2>1, <2>2 DEF Core, ProcessShape, Live
<1>5. /\ MadeShape' /\ HeldShape' /\ ServiceShape' /\ StreamShape'
      /\ OwnerShape' /\ AnswerShape' /\ LeaveShape' /\ CalmShape'
      /\ CrossedOnlyAfterStop'
    BY DEF Core, MadeShape, HeldShape, ServiceShape, StreamShape, OwnerShape,
           AnswerShape, LeaveShape, CalmShape, CrossedOnlyAfterStop, Streamed, Owns,
           Held
<1> QED
    BY <1>1, <1>2, <1>3, <1>4, <1>5 DEF Core

(* A cancel or a stop takes a call out of its map ...                          *)
LEMMA TakesStep ==
    ASSUME Core, NEW c \in Conn, NEW k \in Call, Takes(c, k)
    PROVE  Core'
<1> USE DEF Takes, Ready, Result, NoResult, TakenOut, AnswerTakes, Alive, calls,
            process
<1>1. TypeOK'
  <2>1. k \in Call /\ kind[k] \in Kind
      BY HeldIs DEF Kind
  <2>2. held' \in [Streamed -> [Id -> Call \cup {NoCall}]]
      BY TakenOutIs
  <2>3. /\ outcome' \in [Call -> Outcome] /\ strangers' \in [Call -> SUBSET Conn]
        /\ listed' \in [Kind -> [Id -> SUBSET Conn]] /\ twice' \subseteq Call
      BY <2>1, ResultIs DEF Core, TypeOK
  <2>5. <<"handler", c>> \in Sender
      BY SendersAre
  <2> DEFINE told == IF kind[k] = "action" THEN Listed(k) ELSE {}
  <2>6. told \in SUBSET Conn /\ Copies(<<"handler", c>>, told)
      BY <2>1, ListedTyped
  <2> HIDE DEF told
  <2>4. copied' \in [Sender -> SUBSET Conn]
      BY <2>5, <2>6, CopiesTyped
  <2> QED
      BY <2>1, <2>2, <2>3, <2>4 DEF Core, TypeOK, Agent, HandlerPC, StopPC
<1>2. MadeShape'
  <2>1. kind[k] \in Streamed
      BY HeldIs
  <2>2. \A r \in Call \ {k} : outcome'[r] = outcome[r] /\ strangers'[r] = strangers[r]
      BY <2>1, ResultIs DEF Kind, Streamed
  <2> QED
      BY <2>1, <2>2 DEF Core, TypeOK, MadeShape, Streamed
<1>3. HeldShape'
  <2>1. Held' = Held \ {k}
      BY TakenOutIs
  <2>2. \A s \in Streamed, i \in Id : held'[s][i] # NoCall =>
           held'[s][i] = held[s][i] /\ held'[s][i] \in Held'
      BY TakenOutIs DEF Held
  <2> QED
      BY <2>1, <2>2 DEF Core, HeldShape
<1>4. ServiceShape'
  <2>1. kind[k] \in Streamed
      BY HeldIs
  <2> QED
      BY <2>1 DEF Core, TypeOK, ServiceShape, Streamed
<1>5. HandlerShape'
    BY NoCallOut DEF Core, TypeOK, HandlerShape, Registering, Ending, StopPC, Agent
<1>6. RestartShape'
    BY RestarterAssumption, NoCallOut DEF Core, TypeOK, RestartShape, StopPC, Agent
<1>7. AnswerShape'
  <2>1. Held' = Held \ {k}
      BY TakenOutIs
  <2>2. kind[k] \in Streamed /\ outcome[k] = "none"
      BY HeldIs DEF Core, AnswerShape
  <2>3. \A r \in Call \ {k} : outcome'[r] = outcome[r]
      BY <2>2, ResultIs DEF Kind, Streamed
  <2>4. twice' = twice
      BY <2>2, ResultIs DEF Kind, Streamed
  <2>5. kind[k] = "bag" => outcome'[k] = "none"
      BY <2>2
  <2> QED
      BY <2>1, <2>2, <2>3, <2>4, <2>5 DEF Core, TypeOK, AnswerShape, Streamed
<1>8. LeaveShape'
  <2>1. Held' = Held \ {k}
      BY TakenOutIs
  <2>2. \A r \in Call \ {k} : outcome'[r] = outcome[r]
      BY HeldIs, ResultIs DEF Kind, Streamed
  <2> QED
      BY <2>1, <2>2 DEF Core, TypeOK, LeaveShape, Streamed
<1>9. ProcessShape'
  <2>1. Held' = Held \ {k}
      BY TakenOutIs
  <2>2. pc[c] = "idle"
      OBVIOUS
  <2> QED
      BY <2>1, <2>2 DEF Core, TypeOK, ProcessShape, Live, StopPC, Agent
<1>10. CalmShape'
    BY NoCallOut DEF Core, TypeOK, CalmShape, Streamed
<1>11. CrossedOnlyAfterStop'
    BY NoCallOut DEF Core, TypeOK, CrossedOnlyAfterStop
<1>12. StreamShape' /\ OwnerShape'
    BY DEF Core, StreamShape, OwnerShape, Streamed, Owns
<1> QED
    BY <1>1, <1>2, <1>3, <1>4, <1>5, <1>6, <1>7, <1>8, <1>9, <1>10, <1>11, <1>12
       DEF Core

(* ... stop_bag says so ...                                                    *)
LEMMA NotifyStoppedStep ==
    ASSUME Core, NEW c \in Conn, NotifyStopped(c)
    PROVE  Core'
<1> USE DEF NotifyStopped, HandlerGoto, Alive, calls, manager, channel, process
<1>1. TypeOK'
  <2>1. want[c] \in taken /\ kind[want[c]] \in Streamed
      BY MadeIs DEF Core, TypeOK, HandlerShape, Ending, StopPC, Agent
  <2>2. Holder(want[c]) # NoCall => Holder(want[c]) \in Call
      BY <2>1, HolderIs, HeldIs DEF Core, TypeOK
  <2>3. want[c] \in Call /\ kind[want[c]] \in Kind
      BY <2>1 DEF Core, TypeOK, Kind
  <2>4. copied' \in [Sender -> SUBSET Conn]
      BY <2>3, CopiesTyped, ListedTyped, SendersAre
  <2> QED
      BY <2>1, <2>2, <2>4
         DEF Core, TypeOK, Phase, Outcome, Kind, Streamed, Agent, HandlerPC, StopPC
<1>2. MadeShape'
  <2>1. want[c] \in taken /\ kind[want[c]] \in Streamed
      BY MadeIs DEF Core, TypeOK, HandlerShape, Ending, StopPC, Agent
  <2>2. Holder(want[c]) # NoCall => kind[Holder(want[c])] \in Streamed
      BY <2>1, HolderIs, HeldIs DEF Core, TypeOK
  <2> QED
      BY <2>1, <2>2 DEF Core, TypeOK, MadeShape, Streamed
<1>3. HandlerShape'
    BY NoCallOut DEF Core, TypeOK, HandlerShape, Registering, Ending, StopPC, Agent
<1>4. RestartShape'
    BY RestarterAssumption, NoCallOut DEF Core, TypeOK, RestartShape, StopPC, Agent
<1>5. LeaveShape'
  <2>1. Held' = Held
      BY DEF Held
  <2> QED
      BY <2>1 DEF Core, TypeOK, LeaveShape, Streamed
<1>6. ProcessShape'
  <2>1. Held' = Held
      BY DEF Held
  <2> QED
      BY <2>1 DEF Core, TypeOK, ProcessShape, Live, StopPC, Agent
<1>7. CrossedOnlyAfterStop'
  <2>1. want[c] \in taken /\ kind[want[c]] \in Streamed
      BY MadeIs DEF Core, TypeOK, HandlerShape, Ending, StopPC, Agent
  <2>2. Holder(want[c]) # NoCall =>
           Holder(want[c]) \notin taken /\ Same(Holder(want[c]), want[c])
      BY <2>1, HolderIs, HeldIs DEF Core, TypeOK
  <2> QED
      BY <2>1, <2>2 DEF Core, CrossedOnlyAfterStop, Same
<1>8. /\ HeldShape' /\ ServiceShape' /\ StreamShape' /\ OwnerShape'
      /\ AnswerShape' /\ CalmShape'
    BY DEF Core, HeldShape, ServiceShape, StreamShape, OwnerShape, AnswerShape,
           CalmShape, Streamed, Owns, Held
<1> QED
    BY <1>1, <1>2, <1>3, <1>4, <1>5, <1>6, <1>7, <1>8 DEF Core

(* ... and the channel forgets who is listed.                                  *)
LEMMA UnlistStep ==
    ASSUME Core, NEW c \in Conn, Unlist(c)
    PROVE  Core'
<1> USE DEF Unlist, HandlerGoto, Alive, calls, manager, process, history
<1>1. TypeOK'
  <2>1. kind[want[c]] \in Kind /\ id[want[c]] \in Id
      BY MadeIs DEF Core, TypeOK, HandlerShape, Ending, StopPC, Agent
  <2> QED
      BY <2>1
         DEF Core, TypeOK, Phase, Outcome, Kind, Streamed, Agent, HandlerPC, StopPC
<1>2. HandlerShape'
    BY NoCallOut DEF Core, TypeOK, HandlerShape, Registering, Ending, StopPC, Agent
<1>3. RestartShape'
    BY RestarterAssumption, NoCallOut DEF Core, TypeOK, RestartShape, StopPC, Agent
<1>4. ProcessShape'
  <2>1. Held' = Held
      BY DEF Held
  <2> QED
      BY <2>1 DEF Core, TypeOK, ProcessShape, Live, StopPC, Agent
<1>5. /\ MadeShape' /\ HeldShape' /\ ServiceShape' /\ StreamShape'
      /\ OwnerShape' /\ AnswerShape' /\ LeaveShape' /\ CalmShape'
      /\ CrossedOnlyAfterStop'
    BY DEF Core, MadeShape, HeldShape, ServiceShape, StreamShape, OwnerShape,
           AnswerShape, LeaveShape, CalmShape, CrossedOnlyAfterStop, Streamed, Owns,
           Held
<1> QED
    BY <1>1, <1>2, <1>3, <1>4, <1>5 DEF Core

(* The manager is gone.                                                        *)
LEMMA ManagerDanglesStep ==
    ASSUME Core, NEW c \in Conn, ManagerDangles(c)
    PROVE  Core'
<1> USE DEF ManagerDangles, Alive, calls, manager, channel, handlers, process,
            history
<1>1. TypeOK'
    BY DEF Core, TypeOK, Phase, Outcome, Kind, Streamed, Agent, HandlerPC, StopPC
<1>2. LeaveShape'
    BY NoCallOut DEF Core, TypeOK, LeaveShape, Held, Streamed
<1>3. ProcessShape'
    BY NoCallOut DEF Core, TypeOK, ProcessShape, Live, Held, StopPC, Agent
<1>4. CalmShape'
    BY NoCallOut DEF Core, TypeOK, CalmShape, Streamed
<1>5. /\ MadeShape' /\ HeldShape' /\ ServiceShape' /\ StreamShape'
      /\ HandlerShape' /\ RestartShape' /\ OwnerShape' /\ AnswerShape'
      /\ CrossedOnlyAfterStop'
    BY DEF Core, MadeShape, HeldShape, ServiceShape, StreamShape, HandlerShape,
           RestartShape, OwnerShape, AnswerShape, CrossedOnlyAfterStop, Streamed,
           Registering, Ending, StopPC, Agent, Owns, Held
<1> QED
    BY <1>1, <1>2, <1>3, <1>4, <1>5 DEF Core

(* A connection closes.                                                        *)
LEMMA DisconnectStep ==
    ASSUME Core, NEW c \in Conn, Disconnect(c)
    PROVE  Core'
<1> USE DEF Disconnect, Ready, Remaining, Alive, calls, manager, handlers, process,
            history
<1>1. TypeOK'
    BY DEF Core, TypeOK, Phase, Outcome, Kind, Streamed, Agent, HandlerPC, StopPC
<1>2. HandlerShape'
    BY NoCallOut DEF Core, TypeOK, HandlerShape, Registering, Ending, StopPC, Agent
<1>3. /\ MadeShape' /\ HeldShape' /\ ServiceShape' /\ StreamShape'
      /\ RestartShape' /\ OwnerShape' /\ AnswerShape' /\ LeaveShape'
      /\ ProcessShape' /\ CalmShape' /\ CrossedOnlyAfterStop'
    BY DEF Core, MadeShape, HeldShape, ServiceShape, StreamShape, RestartShape,
           OwnerShape, AnswerShape, LeaveShape, ProcessShape, CalmShape,
           CrossedOnlyAfterStop, Streamed, StopPC, Agent, Owns, Held, Live
<1> QED
    BY <1>1, <1>2, <1>3 DEF Core

(* stop_streaming kills the process ...                                        *)
LEMMA StopSignalsStep ==
    ASSUME Core, NEW a \in Agent, StopSignals(a)
    PROVE  Core'
<1> USE DEF StopSignals, StopKeeps, HandlerGoto, Alive, calls, manager, channel,
            history
<1>1. TypeOK'
    BY DEF Core, TypeOK, HandlerShape, Registering, Ending, StopPC, Agent, Phase,
           Outcome, Kind, Streamed, Agent, HandlerPC, StopPC
<1>2. MadeShape'
    BY NoCallOut DEF Core, TypeOK, MadeShape
<1>3. ServiceShape'
    BY NoCallOut DEF Core, TypeOK, ServiceShape
<1>4. StreamShape'
    BY NoCallOut DEF Core, TypeOK, StreamShape, Streamed
<1>5. HandlerShape'
    BY NoCallOut DEF Core, TypeOK, HandlerShape, Registering, Ending, StopPC, Agent
<1>6. RestartShape'
    BY RestarterAssumption, NoCallOut DEF Core, TypeOK, RestartShape, StopPC, Agent
<1>7. LeaveShape'
    BY NoCallOut DEF Core, TypeOK, LeaveShape, Held, Streamed
<1>8. ProcessShape'
    BY NoCallOut DEF Core, TypeOK, ProcessShape, Live, Held, StopPC, Agent
<1>9. /\ HeldShape' /\ OwnerShape' /\ AnswerShape' /\ CalmShape'
      /\ CrossedOnlyAfterStop'
    BY DEF Core, HeldShape, OwnerShape, AnswerShape, CalmShape,
           CrossedOnlyAfterStop, Streamed, Owns, Held
<1> QED
    BY <1>1, <1>2, <1>3, <1>4, <1>5, <1>6, <1>7, <1>8, <1>9 DEF Core

(* ... marks the handle ...                                                    *)
LEMMA StopExchangesStep ==
    ASSUME Core, NEW a \in Agent, StopExchanges(a)
    PROVE  Core'
<1> USE DEF StopExchanges, StopKeeps, HandlerGoto, Alive, calls, manager, channel,
            history
<1>1. TypeOK'
    BY DEF Core, TypeOK, Phase, Outcome, Kind, Streamed, Agent, HandlerPC, StopPC
<1>2. MadeShape'
    BY NoCallOut DEF Core, TypeOK, MadeShape
<1>3. StreamShape'
    BY NoCallOut DEF Core, TypeOK, StreamShape, Streamed
<1>4. HandlerShape'
    BY NoCallOut DEF Core, TypeOK, HandlerShape, Registering, Ending, StopPC, Agent
<1>5. RestartShape'
    BY RestarterAssumption, NoCallOut DEF Core, TypeOK, RestartShape, StopPC, Agent
<1>6. ProcessShape'
    BY NoCallOut DEF Core, TypeOK, ProcessShape, Live, Held, StopPC, Agent
<1>7. CalmShape'
  <2>1. taken # {}
      BY DEF Core, HandlerShape, Ending, StopPC, Agent
  <2> QED
      BY <2>1 DEF CalmShape
<1>8. /\ HeldShape' /\ ServiceShape' /\ OwnerShape' /\ AnswerShape'
      /\ LeaveShape' /\ CrossedOnlyAfterStop'
    BY DEF Core, HeldShape, ServiceShape, OwnerShape, AnswerShape, LeaveShape,
           CrossedOnlyAfterStop, Streamed, Owns, Held
<1> QED
    BY <1>1, <1>2, <1>3, <1>4, <1>5, <1>6, <1>7, <1>8 DEF Core

(* ... joins the reader ...                                                    *)
LEMMA StopJoinsStep ==
    ASSUME Core, NEW a \in Agent, StopJoins(a)
    PROVE  Core'
<1> USE DEF StopJoins, StopKeeps, HandlerGoto, Alive, calls, manager, channel,
            history
<1>1. TypeOK'
    BY DEF Core, TypeOK, Phase, Outcome, Kind, Streamed, Agent, HandlerPC, StopPC
<1>2. MadeShape'
    BY NoCallOut DEF Core, TypeOK, MadeShape
<1>3. StreamShape'
    BY NoCallOut DEF Core, TypeOK, StreamShape, Streamed
<1>4. HandlerShape'
    BY NoCallOut DEF Core, TypeOK, HandlerShape, Registering, Ending, StopPC, Agent
<1>5. RestartShape'
    BY RestarterAssumption, NoCallOut DEF Core, TypeOK, RestartShape, StopPC, Agent
<1>6. ProcessShape'
    BY NoCallOut DEF Core, TypeOK, ProcessShape, Live, Held, StopPC, Agent
<1>7. CalmShape'
  <2>1. taken # {}
      BY DEF Core, HandlerShape, Ending, StopPC, Agent
  <2> QED
      BY <2>1 DEF CalmShape
<1>8. /\ HeldShape' /\ ServiceShape' /\ OwnerShape' /\ AnswerShape'
      /\ LeaveShape' /\ CrossedOnlyAfterStop'
    BY DEF Core, HeldShape, ServiceShape, OwnerShape, AnswerShape, LeaveShape,
           CrossedOnlyAfterStop, Streamed, Owns, Held
<1> QED
    BY <1>1, <1>2, <1>3, <1>4, <1>5, <1>6, <1>7, <1>8 DEF Core

(* ... and destroys the handle.                                                *)
LEMMA StopFreesStep ==
    ASSUME Core, NEW a \in Agent, StopFrees(a)
    PROVE  Core'
<1> USE DEF StopFrees, StopKeeps, HandlerGoto, Alive, Destroyed, calls, manager,
            channel, history
<1>1. TypeOK'
    BY DEF Core, TypeOK, Phase, Outcome, Kind, Streamed, Agent, HandlerPC, StopPC
<1>2. MadeShape'
  <2>1. want[a] \in taken
      BY DEF Core, HandlerShape, Ending, StopPC, Agent
  <2> QED
      BY <2>1 DEF Core, TypeOK, MadeShape
<1>3. StreamShape'
    BY NoCallOut DEF Core, TypeOK, StreamShape, Streamed
<1>4. HandlerShape'
    BY RestarterAssumption, NoCallOut
       DEF Core, TypeOK, HandlerShape, Registering, Ending, StopPC, Agent
<1>5. RestartShape'
    BY RestarterAssumption, NoCallOut DEF Core, TypeOK, RestartShape, StopPC, Agent
<1>6. LeaveShape'
    BY NoCallOut DEF Core, TypeOK, LeaveShape, Held, Streamed
<1>7. ProcessShape'
  <2>1. Held' = Held
      BY DEF Held
  <2>2. want[a] \in taken /\ kind[want[a]] \in Streamed
      BY MadeIs DEF Core, TypeOK, HandlerShape, Ending, StopPC, Agent
  <2>3. Alive' => child[want[a]] = "gone"
      BY <2>2 DEF Core, TypeOK, StreamShape
  <2> QED
      BY <2>1, <2>2, <2>3 DEF Core, TypeOK, ProcessShape, Live, StopPC, Agent
<1>8. CalmShape'
  <2>1. taken # {}
      BY DEF Core, HandlerShape, Ending, StopPC, Agent
  <2> QED
      BY <2>1 DEF CalmShape
<1>9. /\ HeldShape' /\ ServiceShape' /\ OwnerShape' /\ AnswerShape'
      /\ CrossedOnlyAfterStop'
    BY DEF Core, HeldShape, ServiceShape, OwnerShape, AnswerShape,
           CrossedOnlyAfterStop, Streamed, Owns, Held
<1> QED
    BY <1>1, <1>2, <1>3, <1>4, <1>5, <1>6, <1>7, <1>8, <1>9 DEF Core

(* A restart begins ...                                                        *)
LEMMA ShutdownStep ==
    ASSUME Core, Shutdown
    PROVE  Core'
<1> USE DEF Shutdown, Alive, calls, channel, handlers, process, history
<1>1. TypeOK'
    BY DEF Core, TypeOK, Phase, Outcome, Kind, Streamed, Agent, HandlerPC, StopPC
<1>2. RestartShape'
    BY NoCallOut DEF Core, TypeOK, RestartShape, StopPC, Agent
<1>3. OwnerShape'
    BY NoCallOut DEF Core, TypeOK, OwnerShape, Owns
<1>4. LeaveShape'
    BY NoCallOut DEF Core, TypeOK, LeaveShape, Held, Streamed
<1>5. CalmShape'
    BY NoCallOut DEF Core, TypeOK, CalmShape, Streamed
<1>6. /\ MadeShape' /\ HeldShape' /\ ServiceShape' /\ StreamShape'
      /\ HandlerShape' /\ AnswerShape' /\ ProcessShape' /\ CrossedOnlyAfterStop'
    BY DEF Core, MadeShape, HeldShape, ServiceShape, StreamShape, HandlerShape,
           AnswerShape, ProcessShape, CrossedOnlyAfterStop, Streamed, Registering,
           Ending, StopPC, Agent, Held, Live
<1> QED
    BY <1>1, <1>2, <1>3, <1>4, <1>5, <1>6 DEF Core

(* ... joins the service threads ...                                           *)
LEMMA ShutdownJoinsStep ==
    ASSUME Core, ShutdownJoins
    PROVE  Core'
<1> USE DEF ShutdownJoins, Alive, calls, channel, process, history
<1>1. TypeOK'
    BY DEF Core, TypeOK, Phase, Outcome, Kind, Streamed, Agent, HandlerPC, StopPC
<1>2. HandlerShape'
    BY RestarterAssumption, NoCallOut
       DEF Core, TypeOK, HandlerShape, Registering, Ending, StopPC, Agent
<1>3. RestartShape'
    BY RestarterAssumption DEF Core, TypeOK, RestartShape, StopPC, Agent, Phase
<1>4. OwnerShape'
    BY NoCallOut DEF Core, TypeOK, OwnerShape, Owns
<1>5. LeaveShape'
  <2>1. Held' = Held
      BY DEF Held
  <2> QED
      BY <2>1 DEF Core, TypeOK, LeaveShape, Streamed
<1>6. ProcessShape'
  <2>1. Held' = Held
      BY DEF Held
  <2>2. pc[Restarter] = "idle"
      BY DEF Core, RestartShape
  <2> QED
      BY <2>1, <2>2 DEF Core, TypeOK, ProcessShape, Live, StopPC, Agent
<1>7. CalmShape'
    BY NoCallOut DEF Core, TypeOK, CalmShape, Streamed
<1>8. /\ MadeShape' /\ HeldShape' /\ ServiceShape' /\ StreamShape'
      /\ AnswerShape' /\ CrossedOnlyAfterStop'
    BY DEF Core, MadeShape, HeldShape, ServiceShape, StreamShape, AnswerShape,
           CrossedOnlyAfterStop, Streamed, Held
<1> QED
    BY <1>1, <1>2, <1>3, <1>4, <1>5, <1>6, <1>7, <1>8 DEF Core

(* ... empties a map ...                                                       *)
LEMMA ShutdownTakesStep ==
    ASSUME Core, ShutdownTakes
    PROVE  Core'
<1> USE DEF ShutdownTakes, HandlerGoto, Alive, calls, channel, process
<1>1. TypeOK'
  <2>1. phase \in Streamed
      BY DEF Core, TypeOK, RestartShape, Phase, Streamed
  <2>2. todo' \subseteq Held /\ Held' = Held \ todo'
      BY <2>1, EmptiedIs
  <2>3. held' \in [Streamed -> [Id -> Call \cup {NoCall}]]
      BY <2>1, EmptiedIs
  <2>4. todo' \subseteq Call
      BY <2>2, HeldIs
  <2> QED
      BY <2>1, <2>2, <2>3, <2>4 DEF Core, TypeOK, Agent, HandlerPC, StopPC
<1>2. MadeShape'
  <2>1. phase \in Streamed
      BY DEF Core, TypeOK, RestartShape, Phase, Streamed
  <2>2. todo' \subseteq Held /\ Held' = Held \ todo'
      BY <2>1, EmptiedIs
  <2>3. todo' \subseteq Call /\ \A r \in todo' : kind[r] \in Streamed
      BY <2>2, HeldIs
  <2> QED
      BY <2>1, <2>2, <2>3 DEF Core, TypeOK, MadeShape, Streamed
<1>3. HeldShape'
  <2>1. phase \in Streamed
      BY DEF Core, TypeOK, RestartShape, Phase, Streamed
  <2>2. todo' \subseteq Held /\ Held' = Held \ todo'
      BY <2>1, EmptiedIs
  <2>3. \A r \in Streamed, i \in Id :
            held'[r][i] # NoCall => held'[r][i] = held[r][i] /\ held[r][i] \notin todo'
      BY <2>1, EmptiedIs
  <2> QED
      BY <2>1, <2>2, <2>3 DEF Core, HeldShape
<1>4. ServiceShape'
  <2>1. phase \in Streamed
      BY DEF Core, TypeOK, RestartShape, Phase, Streamed
  <2>2. todo' \subseteq Held /\ Held' = Held \ todo'
      BY <2>1, EmptiedIs
  <2>3. todo' \subseteq Call /\ \A r \in todo' : kind[r] \in Streamed
      BY <2>2, HeldIs
  <2> QED
      BY <2>1, <2>2, <2>3 DEF Core, TypeOK, ServiceShape, Streamed
<1>5. HandlerShape'
    BY RestarterAssumption, NoCallOut
       DEF Core, TypeOK, RestartShape, StopPC, Agent, HandlerShape, Registering,
           Ending
<1>6. RestartShape'
    BY RestarterAssumption DEF Core, TypeOK, RestartShape, StopPC, Agent
<1>7. AnswerShape'
  <2>1. phase \in Streamed
      BY DEF Core, TypeOK, RestartShape, Phase, Streamed
  <2>2. todo' \subseteq Held /\ Held' = Held \ todo'
      BY <2>1, EmptiedIs
  <2> QED
      BY <2>1, <2>2 DEF Core, TypeOK, AnswerShape
<1>8. LeaveShape'
  <2>1. phase \in Streamed
      BY DEF Core, TypeOK, RestartShape, Phase, Streamed
  <2>2. todo' \subseteq Held /\ Held' = Held \ todo'
      BY <2>1, EmptiedIs
  <2> QED
      BY <2>1, <2>2 DEF Core, TypeOK, LeaveShape, Streamed
<1>9. ProcessShape'
  <2>1. phase \in Streamed
      BY DEF Core, TypeOK, RestartShape, Phase, Streamed
  <2>2. todo' \subseteq Held /\ Held' = Held \ todo'
      BY <2>1, EmptiedIs
  <2>3. todo = {}
      BY DEF Core, RestartShape
  <2>4. \A a \in Agent : pc[a] \in StopPC => pc'[a] = pc[a] /\ want'[a] = want[a]
      BY DEF Core, TypeOK, Agent, StopPC
  <2>5. \A r \in Held : r \in Held' \/ r \in todo'
      BY <2>2
  <2> QED
      BY <2>1, <2>2, <2>3, <2>4, <2>5 DEF Core, ProcessShape, Live, Alive
<1>10. CalmShape'
    BY NoCallOut DEF Core, TypeOK, CalmShape, Streamed
<1>11. CrossedOnlyAfterStop'
    BY NoCallOut DEF Core, TypeOK, CrossedOnlyAfterStop
<1>12. StreamShape' /\ OwnerShape'
    BY DEF Core, StreamShape, OwnerShape, Streamed, Owns
<1> QED
    BY <1>1, <1>2, <1>3, <1>4, <1>5, <1>6, <1>7, <1>8, <1>9, <1>10, <1>11, <1>12
       DEF Core

(* ... takes one of what was in it ...                                         *)
LEMMA ShutdownNextStep ==
    ASSUME Core, ShutdownNext
    PROVE  Core'
<1> USE DEF ShutdownNext, HandlerGoto, Alive, calls, manager, channel, process,
            history
<1>1. TypeOK'
    BY DEF Core, TypeOK, Phase, Outcome, Kind, Streamed, Agent, HandlerPC, StopPC
<1>2. HandlerShape'
  <2>1. todo \subseteq taken
      BY DEF Core, RestartShape
  <2> QED
      BY <2>1, RestarterAssumption
         DEF Core, TypeOK, HandlerShape, Registering, Ending, StopPC, Agent
<1>3. RestartShape'
    BY NoCallOut DEF Core, TypeOK, RestartShape, StopPC, Agent
<1>4. ProcessShape'
  <2>1. Held' = Held
      BY DEF Held
  <2> QED
      BY <2>1 DEF Core, TypeOK, ProcessShape, Live, StopPC, Agent
<1>5. /\ MadeShape' /\ HeldShape' /\ ServiceShape' /\ StreamShape'
      /\ OwnerShape' /\ AnswerShape' /\ LeaveShape' /\ CalmShape'
      /\ CrossedOnlyAfterStop'
    BY DEF Core, MadeShape, HeldShape, ServiceShape, StreamShape, OwnerShape,
           AnswerShape, LeaveShape, CalmShape, CrossedOnlyAfterStop, Streamed, Owns,
           Held
<1> QED
    BY <1>1, <1>2, <1>3, <1>4, <1>5 DEF Core

(* ... goes on to the bags ...                                                 *)
LEMMA ShutdownBagsStep ==
    ASSUME Core, ShutdownBags
    PROVE  Core'
<1> USE DEF ShutdownBags, HandlerGoto, Alive, calls, channel, process, history
<1>1. TypeOK'
    BY DEF Core, TypeOK, Phase, Outcome, Kind, Streamed, Agent, HandlerPC, StopPC
<1>2. HandlerShape'
    BY RestarterAssumption, NoCallOut
       DEF Core, TypeOK, HandlerShape, Registering, Ending, StopPC, Agent
<1>3. RestartShape'
    BY NoCallOut DEF Core, TypeOK, RestartShape, StopPC, Agent
<1>4. OwnerShape'
    BY NoCallOut DEF Core, TypeOK, OwnerShape, Owns
<1>5. LeaveShape'
    BY NoCallOut DEF Core, TypeOK, LeaveShape, Held, Streamed
<1>6. ProcessShape'
    BY NoCallOut DEF Core, TypeOK, ProcessShape, Live, Held, StopPC, Agent
<1>7. CalmShape'
    BY NoCallOut DEF Core, TypeOK, CalmShape, Streamed
<1>8. /\ MadeShape' /\ HeldShape' /\ ServiceShape' /\ StreamShape'
      /\ AnswerShape' /\ CrossedOnlyAfterStop'
    BY DEF Core, MadeShape, HeldShape, ServiceShape, StreamShape, AnswerShape,
           CrossedOnlyAfterStop, Streamed, Held
<1> QED
    BY <1>1, <1>2, <1>3, <1>4, <1>5, <1>6, <1>7, <1>8 DEF Core

(* ... and the manager goes.                                                   *)
LEMMA DestroyStep ==
    ASSUME Core, Destroy
    PROVE  Core'
<1> USE DEF Destroy, HandlerGoto, Alive, calls, channel, history
<1>1. TypeOK'
    BY DEF Core, TypeOK, Phase, Outcome, Kind, Streamed, Agent, HandlerPC, StopPC,
           Empty
<1>2. MadeShape'
  <2>1. \A r \in Held : kind[r] \in Streamed
      BY HeldIs
  <2> QED
      BY <2>1 DEF Core, TypeOK, MadeShape, Streamed
<1>3. HeldShape'
    BY DEF HeldShape, Empty
<1>4. StreamShape'
    BY NoCallOut DEF Core, TypeOK, StreamShape, Streamed
<1>5. HandlerShape'
    BY RestarterAssumption, NoCallOut
       DEF Core, TypeOK, HandlerShape, Registering, Ending, StopPC, Agent
<1>6. RestartShape'
    BY NoCallOut DEF Core, TypeOK, RestartShape, StopPC, Agent
<1>7. OwnerShape'
    BY NoCallOut DEF Core, TypeOK, OwnerShape, Owns
<1>8. AnswerShape'
  <2>1. Held' = {}
      BY DEF Held, Empty
  <2> QED
      BY <2>1 DEF Core, TypeOK, AnswerShape
<1>9. LeaveShape'
    BY NoCallOut DEF Core, TypeOK, LeaveShape, Held, Streamed
<1>10. ProcessShape'
  <2>1. Alive' => Alive /\ \A r \in Held : child[r] = "gone"
      BY HeldIs DEF Core, TypeOK, StreamShape
  <2>2. \A a \in Agent : pc[a] \in StopPC => pc'[a] = pc[a] /\ want'[a] = want[a]
      BY DEF Core, TypeOK, Agent, StopPC
  <2> QED
      BY <2>1, <2>2 DEF Core, ProcessShape, Live, Alive
<1>11. CalmShape'
    BY NoCallOut DEF Core, TypeOK, CalmShape, Streamed
<1>12. ServiceShape' /\ CrossedOnlyAfterStop'
    BY DEF Core, ServiceShape, CrossedOnlyAfterStop
<1> QED
    BY <1>1, <1>2, <1>3, <1>4, <1>5, <1>6, <1>7, <1>8, <1>9, <1>10, <1>11, <1>12
       DEF Core

(* A service thread sees the end of the output ...                             *)
LEMMA ExecEndsStep ==
    ASSUME Core, NEW k \in Call, ExecEnds(k)
    PROVE  Core'
<1> USE DEF ExecEnds, ThreadGoto, ThreadKeeps, NoResult, Alive, calls, handlers
<1>1. TypeOK'
    BY DEF Core, TypeOK, Phase, Outcome, Kind, Streamed, Agent, HandlerPC, StopPC
<1>2. MadeShape'
    BY NoCallOut DEF Core, TypeOK, MadeShape
<1>3. ServiceShape'
    BY NoCallOut DEF Core, TypeOK, ServiceShape
<1>4. StreamShape'
    BY NoCallOut DEF Core, TypeOK, StreamShape, Streamed
<1>5. HandlerShape'
    BY NoCallOut
       DEF Core, TypeOK, ServiceShape, HandlerShape, Registering, Ending, StopPC,
           Agent
<1>6. OwnerShape'
    BY NoCallOut DEF Core, TypeOK, OwnerShape, Owns
<1>7. AnswerShape'
    BY NoCallOut DEF Core, TypeOK, AnswerShape, Held
<1>8. LeaveShape'
  <2>1. Held' = Held
      BY DEF Held
  <2> QED
      BY <2>1 DEF Core, TypeOK, LeaveShape, Streamed
<1>9. ProcessShape'
  <2>1. Held' = Held
      BY DEF Held
  <2> QED
      BY <2>1 DEF Core, TypeOK, ProcessShape, Live, StopPC, Agent
<1>10. CalmShape'
    BY NoCallOut DEF Core, TypeOK, CalmShape, Streamed
<1>11. HeldShape' /\ RestartShape' /\ CrossedOnlyAfterStop'
    BY DEF Core, HeldShape, RestartShape, CrossedOnlyAfterStop, Streamed, StopPC,
           Agent
<1> QED
    BY <1>1, <1>2, <1>3, <1>4, <1>5, <1>6, <1>7, <1>8, <1>9, <1>10, <1>11 DEF Core

(* ... or kills the process ...                                                *)
LEMMA ExecTimesOutStep ==
    ASSUME Core, NEW k \in Call, ExecTimesOut(k)
    PROVE  Core'
<1> USE DEF ExecTimesOut, ThreadGoto, ThreadKeeps, NoResult, Alive, calls, handlers
<1>1. TypeOK'
    BY DEF Core, TypeOK, Phase, Outcome, Kind, Streamed, Agent, HandlerPC, StopPC
<1>2. MadeShape'
    BY NoCallOut DEF Core, TypeOK, MadeShape
<1>3. ServiceShape'
    BY NoCallOut DEF Core, TypeOK, ServiceShape
<1>4. StreamShape'
    BY NoCallOut DEF Core, TypeOK, StreamShape, Streamed
<1>5. HandlerShape'
    BY NoCallOut DEF Core, TypeOK, HandlerShape, Registering, Ending, StopPC, Agent
<1>6. OwnerShape'
    BY NoCallOut DEF Core, TypeOK, OwnerShape, Owns
<1>7. AnswerShape'
    BY NoCallOut DEF Core, TypeOK, AnswerShape, Held
<1>8. LeaveShape'
    BY NoCallOut DEF Core, TypeOK, LeaveShape, Held, Streamed
<1>9. ProcessShape'
    BY NoCallOut DEF Core, TypeOK, ProcessShape, Live, Held, StopPC, Agent
<1>10. CalmShape'
    BY NoCallOut DEF Core, TypeOK, CalmShape, Streamed
<1>11. HeldShape' /\ RestartShape' /\ CrossedOnlyAfterStop'
    BY DEF Core, HeldShape, RestartShape, CrossedOnlyAfterStop, Streamed, StopPC,
           Agent
<1> QED
    BY <1>1, <1>2, <1>3, <1>4, <1>5, <1>6, <1>7, <1>8, <1>9, <1>10, <1>11 DEF Core

(* ... waits for it ...                                                        *)
LEMMA ExecReapsStep ==
    ASSUME Core, NEW k \in Call, ExecReaps(k)
    PROVE  Core'
<1> USE DEF ExecReaps, ThreadGoto, ThreadKeeps, NoResult, Alive, calls, handlers
<1>1. TypeOK'
    BY DEF Core, TypeOK, Phase, Outcome, Kind, Streamed, Agent, HandlerPC, StopPC
<1>2. MadeShape'
    BY NoCallOut DEF Core, TypeOK, MadeShape
<1>3. ServiceShape'
    BY NoCallOut DEF Core, TypeOK, ServiceShape
<1>4. StreamShape'
    BY NoCallOut DEF Core, TypeOK, StreamShape, Streamed
<1>5. HandlerShape'
    BY NoCallOut DEF Core, TypeOK, HandlerShape, Registering, Ending, StopPC, Agent
<1>6. OwnerShape'
    BY NoCallOut DEF Core, TypeOK, OwnerShape, Owns
<1>7. AnswerShape'
    BY NoCallOut DEF Core, TypeOK, AnswerShape, Held
<1>8. LeaveShape'
    BY NoCallOut DEF Core, TypeOK, LeaveShape, Held, Streamed
<1>9. ProcessShape'
    BY NoCallOut DEF Core, TypeOK, ProcessShape, Live, Held, StopPC, Agent
<1>10. CalmShape'
    BY NoCallOut DEF Core, TypeOK, CalmShape, Streamed
<1>11. HeldShape' /\ RestartShape' /\ CrossedOnlyAfterStop'
    BY DEF Core, HeldShape, RestartShape, CrossedOnlyAfterStop, Streamed, StopPC,
           Agent
<1> QED
    BY <1>1, <1>2, <1>3, <1>4, <1>5, <1>6, <1>7, <1>8, <1>9, <1>10, <1>11 DEF Core

(* ... tells the result ...                                                    *)
LEMMA NotifyStep ==
    ASSUME Core, NEW k \in Call, Notify(k)
    PROVE  Core'
<1> USE DEF Notify, ThreadGoto, ThreadKeeps, Alive, Result, AnswerTakes, calls,
            handlers
<1>1. TypeOK'
  <2>1. kind[k] \in Kind
      BY MadeIs
  <2>2. /\ outcome' \in [Call -> Outcome] /\ strangers' \in [Call -> SUBSET Conn]
        /\ listed' \in [Kind -> [Id -> SUBSET Conn]] /\ twice' \subseteq Call
      BY <2>1, ResultIs
  <2>3. copied' \in [Sender -> SUBSET Conn]
      BY <2>1, CopiesTyped, ListedTyped, SendersAre, ClientAssumption
  <2> QED
      BY <2>1, <2>2, <2>3 DEF Core, TypeOK
<1>2. MadeShape'
  <2>1. kind[k] \in Kind
      BY MadeIs
  <2>2. \A r \in Call \ {k} : outcome'[r] = outcome[r] /\ strangers'[r] = strangers[r]
      BY <2>1, ResultIs
  <2> QED
      BY <2>1, <2>2 DEF Core, TypeOK, MadeShape, Kind, Streamed
<1>3. ServiceShape'
    BY NoCallOut DEF Core, TypeOK, ServiceShape
<1>4. StreamShape'
    BY NoCallOut DEF Core, TypeOK, StreamShape, Streamed
<1>5. HandlerShape'
    BY NoCallOut DEF Core, TypeOK, HandlerShape, Registering, Ending, StopPC, Agent
<1>6. OwnerShape'
    BY NoCallOut DEF Core, TypeOK, OwnerShape, Owns
<1>7. AnswerShape'
  <2>1. Held' = Held
      BY DEF Held
  <2>2. kind[k] = "service"
      BY MadeIs DEF Core, StreamShape, Kind, Streamed
  <2>3. outcome[k] = "none" /\ k \notin Held
      BY <2>2, HeldIs DEF Core, AnswerShape, Streamed
  <2>4. /\ outcome'[k] # "none" /\ twice' = twice
        /\ \A r \in Call \ {k} : outcome'[r] = outcome[r]
      BY <2>2, <2>3, ResultIs DEF Kind
  <2> QED
      BY <2>1, <2>2, <2>3, <2>4 DEF Core, TypeOK, AnswerShape
<1>8. LeaveShape'
  <2>1. Held' = Held
      BY DEF Held
  <2>2. kind[k] = "service"
      BY MadeIs DEF Core, StreamShape, Kind, Streamed
  <2>3. \A r \in Call \ {k} : outcome'[r] = outcome[r]
      BY <2>2, ResultIs DEF Kind
  <2> QED
      BY <2>1, <2>2, <2>3 DEF Core, TypeOK, LeaveShape, Streamed
<1>9. ProcessShape'
    BY NoCallOut DEF Core, TypeOK, ProcessShape, Live, Held, StopPC, Agent
<1>10. CalmShape'
    BY NoCallOut DEF Core, TypeOK, CalmShape, Streamed
<1>11. HeldShape' /\ RestartShape' /\ CrossedOnlyAfterStop'
    BY DEF Core, HeldShape, RestartShape, CrossedOnlyAfterStop, Streamed, StopPC,
           Agent
<1> QED
    BY <1>1, <1>2, <1>3, <1>4, <1>5, <1>6, <1>7, <1>8, <1>9, <1>10, <1>11 DEF Core

(* ... and frees the id.                                                       *)
LEMMA EraseStep ==
    ASSUME Core, NEW k \in Call, Erase(k)
    PROVE  Core'
<1> USE DEF Erase, ThreadGoto, ThreadKeeps, NoResult, Alive, Erased, calls, handlers
<1>1. TypeOK'
    BY DEF Core, TypeOK, Phase, Outcome, Kind, Streamed, Agent, HandlerPC, StopPC
<1>2. MadeShape'
    BY NoCallOut DEF Core, TypeOK, MadeShape
<1>3. ServiceShape'
    BY NoCallOut DEF Core, TypeOK, ServiceShape
<1>4. StreamShape'
    BY NoCallOut DEF Core, TypeOK, StreamShape, Streamed
<1>5. HandlerShape'
    BY NoCallOut DEF Core, TypeOK, HandlerShape, Registering, Ending, StopPC, Agent
<1>6. OwnerShape'
  <2>1. kind[k] = "service"
      BY MadeIs DEF Core, StreamShape, Kind, Streamed
  <2> QED
      BY <2>1 DEF Core, TypeOK, OwnerShape, Owns
<1>7. AnswerShape'
    BY NoCallOut DEF Core, TypeOK, AnswerShape, Held
<1>8. LeaveShape'
    BY NoCallOut DEF Core, TypeOK, LeaveShape, Held, Streamed
<1>9. ProcessShape'
    BY NoCallOut DEF Core, TypeOK, ProcessShape, Live, Held, StopPC, Agent
<1>10. CalmShape'
    BY NoCallOut DEF Core, TypeOK, CalmShape, Streamed
<1>11. HeldShape' /\ RestartShape' /\ CrossedOnlyAfterStop'
    BY DEF Core, HeldShape, RestartShape, CrossedOnlyAfterStop, Streamed, StopPC,
           Agent
<1> QED
    BY <1>1, <1>2, <1>3, <1>4, <1>5, <1>6, <1>7, <1>8, <1>9, <1>10, <1>11 DEF Core

(* The manager is gone.                                                        *)
LEMMA ThreadDanglesStep ==
    ASSUME Core, NEW k \in Call, ThreadDangles(k)
    PROVE  Core'
<1> USE DEF ThreadDangles, Alive, calls, manager, channel, handlers, process,
            history
<1>1. TypeOK'
    BY DEF Core, TypeOK, Phase, Outcome, Kind, Streamed, Agent, HandlerPC, StopPC
<1>2. LeaveShape'
    BY NoCallOut DEF Core, TypeOK, LeaveShape, Held, Streamed
<1>3. ProcessShape'
    BY NoCallOut DEF Core, TypeOK, ProcessShape, Live, Held, StopPC, Agent
<1>4. CalmShape'
    BY NoCallOut DEF Core, TypeOK, CalmShape, Streamed
<1>5. /\ MadeShape' /\ HeldShape' /\ ServiceShape' /\ StreamShape'
      /\ HandlerShape' /\ RestartShape' /\ OwnerShape' /\ AnswerShape'
      /\ CrossedOnlyAfterStop'
    BY DEF Core, MadeShape, HeldShape, ServiceShape, StreamShape, HandlerShape,
           RestartShape, OwnerShape, AnswerShape, CrossedOnlyAfterStop, Streamed,
           Registering, Ending, StopPC, Agent, Owns, Held
<1> QED
    BY <1>1, <1>2, <1>3, <1>4, <1>5 DEF Core

(* A line of an action is feedback of the one with its id.                     *)
LEMMA FeedbackStep ==
    ASSUME Core, NEW k \in Call, Feedback(k)
    PROVE  Core'
<1> USE DEF Feedback, StreamKeeps, NoResult, Alive, calls, handlers
<1>1. TypeOK'
  <2>1. Holder(k) \in Call
      BY HolderIs, HeldIs DEF Streamed
  <2>2. copied' \in [Sender -> SUBSET Conn]
      BY CopiesTyped, ListedTyped, SendersAre, ClientAssumption DEF Kind, Streamed
  <2> QED
      BY <2>1, <2>2 DEF Core, TypeOK
<1>2. MadeShape'
  <2>1. kind[Holder(k)] \in Streamed
      BY HolderIs, HeldIs DEF Streamed
  <2> QED
      BY <2>1 DEF Core, TypeOK, MadeShape, Streamed
<1>3. LeaveShape'
    BY NoCallOut DEF Core, TypeOK, LeaveShape, Held, Streamed
<1>4. CrossedOnlyAfterStop'
  <2>1. SUFFICES ASSUME Holder(k) # NoCall, Holder(k) # k PROVE CrossedOnlyAfterStop'
      BY DEF Core, CrossedOnlyAfterStop
  <2>2. Holder(k) \in Held /\ Same(Holder(k), k) /\ Holder(k) \notin taken
      BY <2>1, HolderIs, HeldIs DEF Streamed
  <2>3. k \notin Held
      BY <2>1, HeldIs
  <2>4. k \in taken \/ k \in crossed
      BY <2>3 DEF Core, LeaveShape, Streamed, Alive
  <2>5. \E t \in taken : Same(t, k)
      BY <2>4 DEF Core, CrossedOnlyAfterStop, Same
  <2> QED
      BY <2>2, <2>5 DEF Core, CrossedOnlyAfterStop, Same
<1>5. /\ HeldShape' /\ ServiceShape' /\ StreamShape' /\ HandlerShape'
      /\ RestartShape' /\ OwnerShape' /\ AnswerShape' /\ ProcessShape'
      /\ CalmShape'
    BY DEF Core, HeldShape, ServiceShape, StreamShape, HandlerShape, RestartShape,
           OwnerShape, AnswerShape, ProcessShape, CalmShape, Streamed, Registering,
           Ending, StopPC, Agent, Owns, Held, Live
<1> QED
    BY <1>1, <1>2, <1>3, <1>4, <1>5 DEF Core

(* The reader ends with the process ...                                        *)
LEMMA ReaderEndsStep ==
    ASSUME Core, NEW k \in Call, ReaderEnds(k)
    PROVE  Core'
<1> USE DEF ReaderEnds, StreamKeeps, NoResult, Alive, calls, handlers
<1>1. TypeOK'
    BY DEF Core, TypeOK, Phase, Outcome, Kind, Streamed, Agent, HandlerPC, StopPC
<1>2. MadeShape'
    BY NoCallOut DEF Core, TypeOK, MadeShape
<1>3. ServiceShape'
    BY NoCallOut DEF Core, TypeOK, ServiceShape
<1>4. StreamShape'
    BY NoCallOut DEF Core, TypeOK, StreamShape, Streamed
<1>5. LeaveShape'
    BY NoCallOut DEF Core, TypeOK, LeaveShape, Held, Streamed
<1>6. /\ HeldShape' /\ HandlerShape' /\ RestartShape' /\ OwnerShape'
      /\ AnswerShape' /\ ProcessShape' /\ CalmShape' /\ CrossedOnlyAfterStop'
    BY DEF Core, HeldShape, HandlerShape, RestartShape, OwnerShape, AnswerShape,
           ProcessShape, CalmShape, CrossedOnlyAfterStop, Streamed, Registering,
           Ending, StopPC, Agent, Owns, Held, Live
<1> QED
    BY <1>1, <1>2, <1>3, <1>4, <1>5, <1>6 DEF Core

(* ... and the exit-waiter marks the handle ...                                *)
LEMMA WaiterReapsStep ==
    ASSUME Core, NEW k \in Call, WaiterReaps(k)
    PROVE  Core'
<1> USE DEF WaiterReaps, StreamKeeps, NoResult, Alive, ThreadGoto, AfterReap, calls,
            handlers
<1>1. TypeOK'
    BY DEF Core, TypeOK, Phase, Outcome, Kind, Streamed, Agent, HandlerPC, StopPC
<1>2. MadeShape'
    BY NoCallOut DEF Core, TypeOK, MadeShape
<1>3. ServiceShape'
    BY NoCallOut DEF Core, TypeOK, ServiceShape
<1>4. StreamShape'
    BY NoCallOut DEF Core, TypeOK, StreamShape, Streamed
<1>5. HandlerShape'
    BY NoCallOut DEF Core, TypeOK, HandlerShape, Registering, Ending, StopPC, Agent
<1>6. OwnerShape'
    BY NoCallOut DEF Core, TypeOK, OwnerShape, Owns
<1>7. AnswerShape'
    BY NoCallOut DEF Core, TypeOK, AnswerShape, Held
<1>8. LeaveShape'
    BY NoCallOut DEF Core, TypeOK, LeaveShape, Held, Streamed
<1>9. ProcessShape'
    BY NoCallOut DEF Core, TypeOK, ProcessShape, Live, Held, StopPC, Agent
<1>10. CalmShape'
    BY NoCallOut DEF Core, TypeOK, CalmShape, Streamed
<1>11. HeldShape' /\ RestartShape' /\ CrossedOnlyAfterStop'
    BY DEF Core, HeldShape, RestartShape, CrossedOnlyAfterStop, Streamed, StopPC,
           Agent
<1> QED
    BY <1>1, <1>2, <1>3, <1>4, <1>5, <1>6, <1>7, <1>8, <1>9, <1>10, <1>11 DEF Core

(* ... and joins the reader.                                                   *)
LEMMA WaiterJoinsStep ==
    ASSUME Core, NEW k \in Call, WaiterJoins(k)
    PROVE  Core'
<1> USE DEF WaiterJoins, StreamKeeps, NoResult, Alive, ThreadGoto, calls, handlers
<1>1. TypeOK'
    BY DEF Core, TypeOK, Phase, Outcome, Kind, Streamed, Agent, HandlerPC, StopPC
<1>2. MadeShape'
    BY NoCallOut DEF Core, TypeOK, MadeShape
<1>3. ServiceShape'
    BY NoCallOut DEF Core, TypeOK, ServiceShape
<1>4. StreamShape'
    BY NoCallOut DEF Core, TypeOK, StreamShape, Streamed
<1>5. HandlerShape'
    BY NoCallOut DEF Core, TypeOK, HandlerShape, Registering, Ending, StopPC, Agent
<1>6. OwnerShape'
    BY NoCallOut DEF Core, TypeOK, OwnerShape, Owns
<1>7. AnswerShape'
    BY NoCallOut DEF Core, TypeOK, AnswerShape, Held
<1>8. LeaveShape'
    BY NoCallOut DEF Core, TypeOK, LeaveShape, Held, Streamed
<1>9. ProcessShape'
    BY NoCallOut DEF Core, TypeOK, ProcessShape, Live, Held, StopPC, Agent
<1>10. CalmShape'
    BY NoCallOut DEF Core, TypeOK, CalmShape, Streamed
<1>11. HeldShape' /\ RestartShape' /\ CrossedOnlyAfterStop'
    BY DEF Core, HeldShape, RestartShape, CrossedOnlyAfterStop, Streamed, StopPC,
           Agent
<1> QED
    BY <1>1, <1>2, <1>3, <1>4, <1>5, <1>6, <1>7, <1>8, <1>9, <1>10, <1>11 DEF Core

(* It ends the action with its id ...                                          *)
LEMMA ActionExitsStep ==
    ASSUME Core, NEW k \in Call, ActionExits(k)
    PROVE  Core'
<1>e. ASSUME Holder(k) # NoCall
      PROVE  /\ Holder(k) \in Held /\ Holder(k) \in Call /\ Same(Holder(k), k)
             /\ outcome[Holder(k)] = "none" /\ outcome'[Holder(k)] # "none"
             /\ Held' = Held \ {Holder(k)}
             /\ \A r \in Call \ {Holder(k)} :
                   outcome'[r] = outcome[r] /\ strangers'[r] = strangers[r]
    BY <1>e, ExitEnds
<1>t. ASSUME Holder(k) # NoCall
      PROVE  /\ held' \in [Streamed -> [Id -> Call \cup {NoCall}]]
             /\ listed' \in [Kind -> [Id -> SUBSET Conn]]
             /\ outcome' \in [Call -> Outcome]
             /\ strangers' \in [Call -> SUBSET Conn] /\ twice' = twice
    BY <1>t, ExitEnds
<1> USE DEF ActionExits, StreamKeeps, NoResult, Alive, ThreadGoto, Destroyed,
            Result, TakenOut, AnswerTakes, calls, handlers
<1>1. TypeOK'
  <2>1. CASE Holder(k) = NoCall
    <3>1. Held' = Held
        BY <2>1 DEF Held
    <3> QED
        BY <2>1, <3>1 DEF Core, TypeOK
  <2>2. CASE Holder(k) # NoCall
    <3>1. kind[Holder(k)] \in Kind
        BY <1>e, <2>2 DEF Same, Kind, Streamed, ActionExits
    <3>2. copied' \in [Sender -> SUBSET Conn]
        BY <2>2, <1>e, <3>1, CopiesTyped, ListedTyped, SendersAre, ClientAssumption
    <3> QED
        BY <2>2, <1>e, <1>t, <3>2 DEF Core, TypeOK
  <2> QED
      BY <2>1, <2>2
<1>2. MadeShape'
  <2>1. CASE Holder(k) = NoCall
    <3>1. Held' = Held
        BY <2>1 DEF Held
    <3> QED
        BY <2>1, <3>1 DEF Core, TypeOK, MadeShape
  <2>2. CASE Holder(k) # NoCall
    <3> QED
        BY <2>2, <1>e DEF Core, TypeOK, MadeShape, Same
  <2> QED
      BY <2>1, <2>2
<1>3. HeldShape'
    BY NoCallOut DEF Core, TypeOK, HeldShape, Streamed
<1>4. ServiceShape'
    BY NoCallOut DEF Core, TypeOK, ServiceShape
<1>5. StreamShape'
    BY NoCallOut DEF Core, TypeOK, StreamShape, Streamed
<1>6. HandlerShape'
    BY NoCallOut DEF Core, TypeOK, HandlerShape, Registering, Ending, StopPC, Agent
<1>7. OwnerShape'
    BY NoCallOut DEF Core, TypeOK, OwnerShape, Owns
<1>8. AnswerShape'
  <2>1. CASE Holder(k) = NoCall
    <3>1. Held' = Held
        BY <2>1 DEF Held
    <3> QED
        BY <2>1, <3>1 DEF Core, TypeOK, AnswerShape
  <2>2. CASE Holder(k) # NoCall
    <3> QED
        BY <2>2, <1>e, <1>t DEF Core, TypeOK, AnswerShape, Same
  <2> QED
      BY <2>1, <2>2
<1>9. LeaveShape'
  <2>1. CASE Holder(k) = NoCall
    <3>1. Held' = Held
        BY <2>1 DEF Held
    <3> QED
        BY <2>1, <3>1 DEF Core, TypeOK, LeaveShape, Streamed
  <2>2. CASE Holder(k) # NoCall
    <3>1. Alive' => reader[Holder(k)] = "done" /\ child[Holder(k)] = "gone"
        BY <2>2, <1>e DEF Core, StreamShape, Same, Streamed
    <3> QED
        BY <2>2, <3>1, <1>e DEF Core, TypeOK, LeaveShape, Streamed, Same
  <2> QED
      BY <2>1, <2>2
<1>10. ProcessShape'
  <2>1. CASE Holder(k) = NoCall
    <3>1. Held' = Held
        BY <2>1 DEF Held
    <3> QED
        BY <2>1, <3>1 DEF Core, TypeOK, ProcessShape, Live, StopPC, Agent
  <2>2. CASE Holder(k) # NoCall
    <3>1. Alive' => reader[Holder(k)] = "done" /\ child[Holder(k)] = "gone"
        BY <2>2, <1>e DEF Core, StreamShape, Same, Streamed
    <3>2. ASSUME Alive', NEW r \in Call, Live(r)'
          PROVE  /\ Live(r) /\ r # Holder(k)
                 /\ thread[r] \in {"exec", "reap"} => thread'[r] = thread[r]
        BY <3>1, <3>2 DEF Core, TypeOK, Live
    <3>3. Held' = Held \ {Holder(k)} /\ (Alive' => Alive)
        BY <2>2, <1>e
    <3> QED
        BY <3>2, <3>3 DEF Core, ProcessShape
  <2> QED
      BY <2>1, <2>2
<1>11. CalmShape'
  <2>1. CASE Holder(k) = NoCall
    <3>1. Held' = Held
        BY <2>1 DEF Held
    <3> QED
        BY <2>1, <3>1 DEF Core, TypeOK, CalmShape, Streamed
  <2>2. CASE Holder(k) # NoCall
    <3>1. taken = {} => Holder(k) = k
      <4>1. taken = {} => crossed = {}
          BY DEF Core, TypeOK, CrossedOnlyAfterStop
      <4>2. taken = {} => k \in Held
          BY <4>1 DEF Core, LeaveShape, Streamed
      <4> QED
          BY <4>2, HeldIs
    <3> QED
        BY <2>2, <3>1, <1>e DEF Core, TypeOK, CalmShape, Streamed
  <2> QED
      BY <2>1, <2>2
<1>12. CrossedOnlyAfterStop'
  <2>1. SUFFICES ASSUME Holder(k) # NoCall, Holder(k) # k PROVE CrossedOnlyAfterStop'
      BY DEF Core, CrossedOnlyAfterStop
  <2>2. Holder(k) \in Held /\ Same(Holder(k), k) /\ Holder(k) \notin taken
      BY <2>1, HolderIs, HeldIs DEF Streamed
  <2>3. k \notin Held
      BY <2>1, HeldIs
  <2>4. k \in taken \/ k \in crossed
      BY <2>3 DEF Core, LeaveShape, Streamed, Alive
  <2>5. \E t \in taken : Same(t, k)
      BY <2>4 DEF Core, CrossedOnlyAfterStop, Same
  <2> QED
      BY <2>2, <2>5 DEF Core, CrossedOnlyAfterStop, Same
<1>13. RestartShape'
    BY DEF Core, RestartShape, StopPC, Agent
<1> QED
    BY <1>1, <1>2, <1>3, <1>4, <1>5, <1>6, <1>7, <1>8, <1>9, <1>10, <1>11, <1>12,
       <1>13
       DEF Core

(* ... or tells the end of the bag.                                            *)
LEMMA BagExitsStep ==
    ASSUME Core, NEW k \in Call, BagExits(k)
    PROVE  Core'
<1> USE DEF BagExits, StreamKeeps, NoResult, Alive, ThreadGoto, calls, handlers
<1>1. TypeOK'
  <2>1. Holder(k) # NoCall => Holder(k) \in Call
      BY HolderIs, HeldIs DEF Streamed
  <2>2. crossed' \subseteq Call
      BY <2>1 DEF Core, TypeOK
  <2>3. copied' \in [Sender -> SUBSET Conn]
      BY CopiesTyped, ListedTyped, SendersAre, ClientAssumption DEF Kind, Streamed
  <2> QED
      BY <2>1, <2>2, <2>3 DEF Core, TypeOK
<1>2. MadeShape'
  <2>1. Holder(k) # NoCall => kind[Holder(k)] \in Streamed
      BY HolderIs, HeldIs DEF Streamed
  <2> QED
      BY <2>1 DEF Core, TypeOK, MadeShape, Streamed
<1>3. ServiceShape'
    BY NoCallOut DEF Core, TypeOK, ServiceShape
<1>4. StreamShape'
    BY NoCallOut DEF Core, TypeOK, StreamShape, Streamed
<1>5. HandlerShape'
    BY NoCallOut DEF Core, TypeOK, HandlerShape, Registering, Ending, StopPC, Agent
<1>6. OwnerShape'
    BY NoCallOut DEF Core, TypeOK, OwnerShape, Owns
<1>7. AnswerShape'
    BY NoCallOut DEF Core, TypeOK, AnswerShape, Held
<1>8. LeaveShape'
  <2>1. Held' = Held /\ crossed \subseteq crossed'
      BY DEF Held
  <2>2. \A r \in Call : thread[r] = "done" => thread'[r] = "done"
      BY DEF Core, TypeOK
  <2> QED
      BY <2>1, <2>2 DEF Core, LeaveShape, channel, process, history
<1>9. ProcessShape'
  <2>1. Held' = Held
      BY DEF Held
  <2> QED
      BY <2>1 DEF Core, TypeOK, ProcessShape, Live
<1>10. CalmShape'
    BY NoCallOut DEF Core, TypeOK, CalmShape, Streamed
<1>11. CrossedOnlyAfterStop'
  <2>1. SUFFICES ASSUME Holder(k) # NoCall, Holder(k) # k PROVE CrossedOnlyAfterStop'
      BY DEF Core, CrossedOnlyAfterStop
  <2>2. Holder(k) \in Held /\ Same(Holder(k), k) /\ Holder(k) \notin taken
      BY <2>1, HolderIs, HeldIs DEF Streamed
  <2>3. k \notin Held
      BY <2>1, HeldIs
  <2>4. k \in taken \/ k \in crossed
      BY <2>3 DEF Core, LeaveShape, Streamed, Alive
  <2>5. \E t \in taken : Same(t, k)
      BY <2>4 DEF Core, CrossedOnlyAfterStop, Same
  <2> QED
      BY <2>2, <2>5 DEF Core, CrossedOnlyAfterStop, Same
<1>12. HeldShape' /\ RestartShape'
    BY DEF Core, HeldShape, RestartShape, Streamed, StopPC, Agent
<1> QED
    BY <1>1, <1>2, <1>3, <1>4, <1>5, <1>6, <1>7, <1>8, <1>9, <1>10, <1>11, <1>12
       DEF Core

(* The handle or the manager is gone.                                          *)
LEMMA StreamDanglesStep ==
    ASSUME Core, NEW k \in Call, StreamDangles(k)
    PROVE  Core'
<1> USE DEF StreamDangles, Alive, calls, manager, channel, handlers, process,
            history
<1>1. TypeOK'
    BY DEF Core, TypeOK, Phase, Outcome, Kind, Streamed, Agent, HandlerPC, StopPC
<1>2. LeaveShape'
    BY NoCallOut DEF Core, TypeOK, LeaveShape, Held, Streamed
<1>3. ProcessShape'
    BY NoCallOut DEF Core, TypeOK, ProcessShape, Live, Held, StopPC, Agent
<1>4. CalmShape'
    BY NoCallOut DEF Core, TypeOK, CalmShape, Streamed
<1>5. /\ MadeShape' /\ HeldShape' /\ ServiceShape' /\ StreamShape'
      /\ HandlerShape' /\ RestartShape' /\ OwnerShape' /\ AnswerShape'
      /\ CrossedOnlyAfterStop'
    BY DEF Core, MadeShape, HeldShape, ServiceShape, StreamShape, HandlerShape,
           RestartShape, OwnerShape, AnswerShape, CrossedOnlyAfterStop, Streamed,
           Registering, Ending, StopPC, Agent, Owns, Held
<1> QED
    BY <1>1, <1>2, <1>3, <1>4, <1>5 DEF Core

(* A process starts ...                                                        *)
LEMMA ChildStartsStep ==
    ASSUME Core, NEW k \in Call, ChildStarts(k)
    PROVE  Core'
<1> USE DEF ChildStarts, ChildGoes, Alive, calls, manager, channel, handlers,
            history
<1>1. TypeOK'
    BY DEF Core, TypeOK, Phase, Outcome, Kind, Streamed, Agent, HandlerPC, StopPC
<1>2. MadeShape'
    BY NoCallOut DEF Core, TypeOK, MadeShape
<1>3. ServiceShape'
    BY NoCallOut DEF Core, TypeOK, ServiceShape
<1>4. StreamShape'
    BY NoCallOut DEF Core, TypeOK, StreamShape, Streamed
<1>5. LeaveShape'
    BY NoCallOut DEF Core, TypeOK, LeaveShape, Held, Streamed
<1>6. ProcessShape'
    BY NoCallOut DEF Core, TypeOK, ProcessShape, Live, Held, StopPC, Agent
<1>7. /\ HeldShape' /\ HandlerShape' /\ RestartShape' /\ OwnerShape'
      /\ AnswerShape' /\ CalmShape' /\ CrossedOnlyAfterStop'
    BY DEF Core, HeldShape, HandlerShape, RestartShape, OwnerShape, AnswerShape,
           CalmShape, CrossedOnlyAfterStop, Streamed, Registering, Ending, StopPC,
           Agent, Owns, Held
<1> QED
    BY <1>1, <1>2, <1>3, <1>4, <1>5, <1>6, <1>7 DEF Core

(* ... closes its outputs ...                                                  *)
LEMMA ChildClosesStep ==
    ASSUME Core, NEW k \in Call, ChildCloses(k)
    PROVE  Core'
<1> USE DEF ChildCloses, ChildGoes, Alive, calls, manager, channel, handlers,
            history
<1>1. TypeOK'
    BY DEF Core, TypeOK, Phase, Outcome, Kind, Streamed, Agent, HandlerPC, StopPC
<1>2. MadeShape'
    BY NoCallOut DEF Core, TypeOK, MadeShape
<1>3. ServiceShape'
    BY NoCallOut DEF Core, TypeOK, ServiceShape
<1>4. StreamShape'
    BY NoCallOut DEF Core, TypeOK, StreamShape, Streamed
<1>5. LeaveShape'
    BY NoCallOut DEF Core, TypeOK, LeaveShape, Held, Streamed
<1>6. ProcessShape'
    BY NoCallOut DEF Core, TypeOK, ProcessShape, Live, Held, StopPC, Agent
<1>7. /\ HeldShape' /\ HandlerShape' /\ RestartShape' /\ OwnerShape'
      /\ AnswerShape' /\ CalmShape' /\ CrossedOnlyAfterStop'
    BY DEF Core, HeldShape, HandlerShape, RestartShape, OwnerShape, AnswerShape,
           CalmShape, CrossedOnlyAfterStop, Streamed, Registering, Ending, StopPC,
           Agent, Owns, Held
<1> QED
    BY <1>1, <1>2, <1>3, <1>4, <1>5, <1>6, <1>7 DEF Core

(* ... exits ...                                                               *)
LEMMA ChildExitsStep ==
    ASSUME Core, NEW k \in Call, ChildExits(k)
    PROVE  Core'
<1> USE DEF ChildExits, ChildGoes, Alive, calls, manager, channel, handlers, history
<1>1. TypeOK'
    BY DEF Core, TypeOK, Phase, Outcome, Kind, Streamed, Agent, HandlerPC, StopPC
<1>2. MadeShape'
    BY NoCallOut DEF Core, TypeOK, MadeShape
<1>3. ServiceShape'
    BY NoCallOut DEF Core, TypeOK, ServiceShape
<1>4. StreamShape'
    BY NoCallOut DEF Core, TypeOK, StreamShape, Streamed
<1>5. LeaveShape'
    BY NoCallOut DEF Core, TypeOK, LeaveShape, Held, Streamed
<1>6. ProcessShape'
    BY NoCallOut DEF Core, TypeOK, ProcessShape, Live, Held, StopPC, Agent
<1>7. /\ HeldShape' /\ HandlerShape' /\ RestartShape' /\ OwnerShape'
      /\ AnswerShape' /\ CalmShape' /\ CrossedOnlyAfterStop'
    BY DEF Core, HeldShape, HandlerShape, RestartShape, OwnerShape, AnswerShape,
           CalmShape, CrossedOnlyAfterStop, Streamed, Registering, Ending, StopPC,
           Agent, Owns, Held
<1> QED
    BY <1>1, <1>2, <1>3, <1>4, <1>5, <1>6, <1>7 DEF Core

(* ... or dies.                                                                *)
LEMMA ChildDiesStep ==
    ASSUME Core, NEW k \in Call, ChildDies(k)
    PROVE  Core'
<1> USE DEF ChildDies, ChildGoes, Alive, calls, manager, channel, handlers, history
<1>1. TypeOK'
    BY DEF Core, TypeOK, Phase, Outcome, Kind, Streamed, Agent, HandlerPC, StopPC
<1>2. MadeShape'
    BY NoCallOut DEF Core, TypeOK, MadeShape
<1>3. ServiceShape'
    BY NoCallOut DEF Core, TypeOK, ServiceShape
<1>4. StreamShape'
    BY NoCallOut DEF Core, TypeOK, StreamShape, Streamed
<1>5. LeaveShape'
    BY NoCallOut DEF Core, TypeOK, LeaveShape, Held, Streamed
<1>6. ProcessShape'
    BY NoCallOut DEF Core, TypeOK, ProcessShape, Live, Held, StopPC, Agent
<1>7. /\ HeldShape' /\ HandlerShape' /\ RestartShape' /\ OwnerShape'
      /\ AnswerShape' /\ CalmShape' /\ CrossedOnlyAfterStop'
    BY DEF Core, HeldShape, HandlerShape, RestartShape, OwnerShape, AnswerShape,
           CalmShape, CrossedOnlyAfterStop, Streamed, Registering, Ending, StopPC,
           Agent, Owns, Held
<1> QED
    BY <1>1, <1>2, <1>3, <1>4, <1>5, <1>6, <1>7 DEF Core

(* A copied connection is sent to.                                             *)
LEMMA SendsStep ==
    ASSUME Core, NEW s \in Sender, Sends(s)
    PROVE  Core'
<1> USE DEF Sends, Alive, calls, manager, handlers, process, history
<1>1. TypeOK'
    BY DEF Core, TypeOK, CopyDone
<1>2. Alive' => Alive
    OBVIOUS
<1>3. Held' = Held
    BY DEF Held
<1>4. /\ MadeShape' /\ HeldShape' /\ ServiceShape' /\ StreamShape'
      /\ HandlerShape' /\ RestartShape' /\ OwnerShape' /\ AnswerShape'
    BY <1>3 DEF Core, MadeShape, HeldShape, ServiceShape, StreamShape, HandlerShape,
       RestartShape, OwnerShape, AnswerShape, Owns
<1>5. LeaveShape' /\ ProcessShape'
    BY <1>2, <1>3 DEF Core, LeaveShape, ProcessShape, Live
<1>6. CalmShape' /\ CrossedOnlyAfterStop'
    BY DEF Core, CalmShape, CrossedOnlyAfterStop
<1> QED
    BY <1>1, <1>4, <1>5, <1>6 DEF Core

-----------------------------------------------------------------------------
(* At the start nothing is made, held, running or stopped.                     *)
LEMMA InitCore == Init => Core
<1> SUFFICES ASSUME Init PROVE Core
    OBVIOUS
<1> USE DEF Init, Empty
<1>1. TypeOK
  <2>1. (CHOOSE i \in Id : TRUE) \in Id /\ (CHOOSE c \in Conn : TRUE) \in Conn
      BY ClientAssumption
  <2> QED
      BY <2>1 DEF TypeOK, Kind, Streamed, Agent, Phase, HandlerPC, Outcome
<1>2. MadeShape /\ HeldShape /\ ServiceShape /\ StreamShape
    BY DEF MadeShape, HeldShape, ServiceShape, StreamShape, Streamed
<1>3. HandlerShape /\ RestartShape
    BY DEF HandlerShape, RestartShape, Agent, Registering, Ending, StopPC
<1>4. OwnerShape /\ AnswerShape /\ LeaveShape
    BY DEF OwnerShape, AnswerShape, LeaveShape, Owns, Streamed
<1>5. ProcessShape /\ CalmShape /\ CrossedOnlyAfterStop
    BY DEF ProcessShape, CalmShape, CrossedOnlyAfterStop, Live, Alive, Streamed
<1> QED
    BY <1>1, <1>2, <1>3, <1>4, <1>5 DEF Core

(* A step that changes nothing keeps every part.                               *)
LEMMA StutterStep ==
    ASSUME Core, UNCHANGED vars
    PROVE  Core'
<1> USE DEF Core, vars, calls, manager, channel, handlers, process, history
<1>1. TypeOK'
    BY DEF TypeOK
<1>2. MadeShape' /\ HeldShape' /\ ServiceShape' /\ StreamShape'
    BY DEF MadeShape, HeldShape, ServiceShape, StreamShape
<1>3. HandlerShape' /\ RestartShape' /\ OwnerShape'
    BY DEF HandlerShape, RestartShape, OwnerShape, Owns
<1>4. AnswerShape' /\ LeaveShape' /\ ProcessShape'
    BY DEF AnswerShape, LeaveShape, ProcessShape, Held, Live, Alive
<1>5. CalmShape' /\ CrossedOnlyAfterStop'
    BY DEF CalmShape, CrossedOnlyAfterStop, Alive
<1> QED
    BY <1>1, <1>2, <1>3, <1>4, <1>5

(* The first layer of the invariant is inductive.                              *)
THEOREM CoreInductive == Spec => []Core
<1>1. Core /\ [Next]_vars => Core'
  <2> SUFFICES ASSUME Core, [Next]_vars PROVE Core'
      OBVIOUS
  <2>1. ASSUME NEW c \in Conn, Handler(c) PROVE Core'
      BY <2>1, SpawnServiceStep, TrackServiceStep, RegisterStep, NotifyStoppedStep,
         UnlistStep, ManagerDanglesStep, DisconnectStep, CallServiceStep,
         CallStreamStep, TakesStep, HeldIs DEF Handler, Takes
  <2>2. ASSUME NEW a \in Agent, Stop(a) PROVE Core'
      BY <2>2, StopSignalsStep, StopExchangesStep, StopJoinsStep, StopFreesStep
         DEF Stop
  <2>3. CASE Restart
      BY <2>3, ShutdownStep, ShutdownJoinsStep, ShutdownTakesStep, ShutdownNextStep,
         ShutdownBagsStep, DestroyStep DEF Restart
  <2>4. ASSUME NEW k \in Call, Service(k) PROVE Core'
      BY <2>4, ExecEndsStep, ExecTimesOutStep, ExecReapsStep, NotifyStep, EraseStep,
         ThreadDanglesStep DEF Service
  <2>5. ASSUME NEW k \in Call, Stream(k) PROVE Core'
      BY <2>5, FeedbackStep, ReaderEndsStep, WaiterReapsStep, WaiterJoinsStep,
         ActionExitsStep, BagExitsStep, StreamDanglesStep DEF Stream
  <2>6. ASSUME NEW k \in Call, Process(k) PROVE Core'
      BY <2>6, ChildStartsStep, ChildClosesStep, ChildExitsStep, ChildDiesStep
         DEF Process
  <2>7. CASE Ended \/ UNCHANGED vars
      BY <2>7, StutterStep DEF Ended
  <2>8. ASSUME NEW s \in Sender, Sends(s) PROVE Core'
      BY <2>8, SendsStep
  <2> QED
      BY <2>1, <2>2, <2>3, <2>4, <2>5, <2>6, <2>7, <2>8 DEF Next
<1> QED
    BY <1>1, InitCore, PTL DEF Spec

-----------------------------------------------------------------------------
(* Every variable has its type, with any number of connections, ids and calls. *)
THEOREM TypeCorrect == Spec => []TypeOK
<1>1. Core => TypeOK
    BY DEF Core
<1> QED
    BY <1>1, CoreInductive, PTL

(* A process that runs has a thread, is in a map or is being stopped.          *)
THEOREM NoneForgotten == Spec => []NoProcessForgotten
<1>1. Core => NoProcessForgotten
    BY DEF Core, ProcessShape, NoProcessForgotten
<1> QED
    BY <1>1, CoreInductive, PTL

(* No call has a second result, and no two service calls with one id run.      *)
THEOREM OneAnswer == Spec => []AnsweredOnce
<1>1. Core => AnsweredOnce
  <2> SUFFICES ASSUME Core PROVE AnsweredOnce
      OBVIOUS
  <2>1. ASSUME NEW k \in Call, thread[k] \in {"exec", "reap", "notify"} PROVE Owns(k)
      BY <2>1, MadeIs DEF Core, StreamShape, Owns, Kind, Streamed
  <2> QED
      BY <2>1 DEF Core, AnswerShape, OwnerShape, AnsweredOnce
<1> QED
    BY <1>1, CoreInductive, PTL

(* What one process says or does is taken for another's only after a stop.     *)
THEOREM OnlyStopCrosses == Spec => []CrossedOnlyAfterStop
<1>1. Core => CrossedOnlyAfterStop
    BY DEF Core
<1> QED
    BY <1>1, CoreInductive, PTL

(* Whom the channel lists is there: a handler that registers its connection    *)
(* runs before the end of that connection, which takes it off every list.      *)
ListedOpen == \A s \in Kind, i \in Id : \A c \in listed[s][i] : conn[c] = "open"

LEMMA ListedStays ==
    ASSUME Core, ListedOpen, [Next]_vars
    PROVE  ListedOpen'
<1>1. CASE UNCHANGED <<listed, conn>>
    BY <1>1 DEF ListedOpen
<1>2. CASE UNCHANGED conn /\ \E k \in Call : kind[k] \in Kind /\ listed' = AnswerTakes(k)
  <2>1. PICK k \in Call : kind[k] \in Kind /\ listed' = AnswerTakes(k)
      BY <1>2
  <2>2. \A s \in Kind, i \in Id : listed'[s][i] \subseteq listed[s][i]
      BY <2>1 DEF Core, TypeOK, AnswerTakes
  <2> QED
      BY <1>2, <2>2 DEF ListedOpen
<1>3. ASSUME NEW c \in Conn, Register(c) PROVE ListedOpen'
  <2>1. want[c] \in Call /\ kind[want[c]] \in Kind /\ conn[c] = "open"
      BY <1>3 DEF Register, HandlerGoto, Core, TypeOK, HandlerShape, Registering, Agent
  <2>2. \A s \in Kind, i \in Id : listed'[s][i] \subseteq listed[s][i] \cup {c}
      BY <1>3, <2>1 DEF Register, Core, TypeOK
  <2> QED
      BY <1>3, <2>1, <2>2 DEF Register, ListedOpen
<1>4. ASSUME NEW c \in Conn, Unlist(c) PROVE ListedOpen'
  <2>1. want[c] \in Call /\ kind[want[c]] \in Kind
      BY <1>4, MadeIs
         DEF Unlist, HandlerGoto, Core, TypeOK, HandlerShape, Ending, Agent
  <2>2. \A s \in Kind, i \in Id : listed'[s][i] \subseteq listed[s][i]
      BY <1>4, <2>1 DEF Unlist, Core, TypeOK
  <2> QED
      BY <1>4, <2>2 DEF Unlist, ListedOpen
<1>5. ASSUME NEW c \in Conn, Disconnect(c) PROVE ListedOpen'
  <2>1. \A s \in Kind, i \in Id : listed'[s][i] = listed[s][i] \ {c}
      BY <1>5 DEF Disconnect, Remaining
  <2>2. \A d \in Conn \ {c} : conn'[d] = conn[d]
      BY <1>5 DEF Disconnect, Core, TypeOK
  <2> QED
      BY <2>1, <2>2 DEF Core, TypeOK, ListedOpen
<1>6. ASSUME NEW c \in Conn, Handler(c) PROVE ListedOpen'
  <2>1. ASSUME NEW k \in Call, Takes(c, k) PROVE ListedOpen'
    <3>1. kind[k] \in Kind
        BY <2>1, HeldIs DEF Takes, Kind
    <3> QED
        BY <1>1, <1>2, <2>1, <3>1 DEF Takes, Result, NoResult
  <2>2. CASE \/ SpawnService(c) \/ TrackService(c) \/ NotifyStopped(c) \/ ManagerDangles(c)
             \/ \E k \in Call, i \in Id : CallService(c, k, i)
             \/ \E k \in Call, s \in Streamed, i \in Id : CallStream(c, k, s, i)
      BY <1>1, <2>2 DEF SpawnService, TrackService, NotifyStopped, ManagerDangles,
         CallService, CallStream, channel
  <2> QED
      BY <1>3, <1>4, <1>5, <1>6, <2>1, <2>2 DEF Handler
<1>7. CASE Restart \/ \E a \in Agent : Stop(a)
    BY <1>1, <1>7 DEF Restart, Shutdown, ShutdownJoins, ShutdownTakes, ShutdownNext,
       ShutdownBags, Destroy, Stop, StopSignals, StopExchanges, StopJoins, StopFrees,
       StopKeeps, channel
<1>8. ASSUME NEW k \in Call, Service(k) PROVE ListedOpen'
  <2>1. CASE Notify(k)
    <3>1. kind[k] \in Kind
        BY <2>1, MadeIs DEF Notify, ThreadGoto
    <3> QED
        BY <1>2, <2>1, <3>1 DEF Notify, Result, ThreadKeeps
  <2>2. CASE Service(k) /\ ~Notify(k)
      BY <1>1, <2>2 DEF Service, ExecEnds, ExecTimesOut, ExecReaps, Erase,
         ThreadDangles, ThreadKeeps, NoResult, channel
  <2> QED
      BY <1>8, <2>1, <2>2
<1>9. ASSUME NEW k \in Call, Stream(k) PROVE ListedOpen'
  <2>1. CASE ActionExits(k) /\ Holder(k) # NoCall
    <3>1. Holder(k) \in Call /\ kind[Holder(k)] \in Kind
        BY <2>1, ExitEnds, HeldIs DEF Kind
    <3> QED
        BY <1>2, <2>1, <3>1 DEF ActionExits, Result, StreamKeeps
  <2>2. CASE Stream(k) /\ ~(ActionExits(k) /\ Holder(k) # NoCall)
      BY <1>1, <2>2 DEF Stream, Feedback, ReaderEnds, WaiterReaps, WaiterJoins,
         ActionExits, BagExits, StreamDangles, StreamKeeps, NoResult, channel
  <2> QED
      BY <1>9, <2>1, <2>2
<1>10. CASE (\E k \in Call : Process(k)) \/ Ended \/ UNCHANGED vars
    BY <1>1, <1>10 DEF Process, ChildStarts, ChildCloses, ChildExits, ChildDies,
       ChildGoes, Ended, vars, channel
<1>11. CASE \E s \in Sender : Sends(s)
    BY <1>1, <1>11 DEF Sends
<1> QED
    BY <1>6, <1>7, <1>8, <1>9, <1>10, <1>11 DEF Next

(* With the manager up and nothing stopped, nothing but a connection that has  *)
(* gone since it was copied is used after its end, and no list names one that  *)
(* has gone.                                                                   *)
THEOREM NothingElseBreaks == Spec => []OnlyStopBreaks
<1>1. Init => ListedOpen
  <2>1. Init => \A s \in Kind, i \in Id : listed[s][i] = {}
      BY DEF Init
  <2> QED
      BY <2>1 DEF ListedOpen
<1>2. Core /\ ListedOpen => OnlyStopBreaks
    BY DEF Core, CalmShape, ListedOpen, OnlyStopBreaks
<1> QED
    BY <1>1, <1>2, ListedStays, CoreInductive, PTL DEF Spec

-----------------------------------------------------------------------------
(* The second layer: who is listed, and whose results go astray.               *)

(* A call waits to be registered while its client is at work on it.            *)
LEMMA PendingIs ==
    ASSUME Core, NEW k \in Call
    PROVE  HasNotRegistered(k) <=> want[by[k]] = k /\ pc[by[k]] \in Registering
    BY DEF Core, TypeOK, HandlerShape, HasNotRegistered, Registering, Agent

(* k can still have a result.                                                  *)
Open(k) ==
    /\ outcome[k] = "none" /\ phase # "destroyed"
    /\ (kind[k] = "service" /\ thread[k] = "notify") \/ (kind[k] = "action" /\ k \in Held)

(* A second call of the kind with the id that has no result was stopped.       *)
LEMMA RivalIs ==
    ASSUME Core, NEW k \in Call, Open(k), NEW r \in Call \ {k}, Same(k, r),
           outcome[r] = "none"
    PROVE  kind[r] # "service" /\ r \notin Held /\ r \in taken
<1>1. CASE kind[k] = "service"
  <2>1. Owns(k) /\ Owns(r)
      BY <1>1 DEF Core, AnswerShape, Open, Same, Owns
  <2> QED
      BY <2>1 DEF Core, OwnerShape, Same
<1>2. CASE kind[k] = "action" /\ k \in Held
  <2>1. r \notin Held
      BY <1>2, HeldIs DEF Same, Holder
  <2>2. r \in taken
      BY <1>2, <2>1 DEF Core, LeaveShape, Open, Same, Streamed
  <2> QED
      BY <1>2, <2>1, <2>2 DEF Same
<1> QED
    BY <1>1, <1>2 DEF Open

(* Most steps change nothing of this, but may stop another call.               *)
LEMMA RaceKeeps ==
    ASSUME Core, Race, UNCHANGED <<calls, listed, conn, outcome, strangers>>,
           taken \subseteq taken', Held' \subseteq Held,
           \A k \in Call : HasNotRegistered(k)' <=> HasNotRegistered(k)
    PROVE  Race'
<1> USE DEF Race, calls, Same
<1>1. WaitShape'
    BY DEF WaitShape
<1>2. ListShape'
    BY DEF ListShape
<1>3. EarlyShape'
    BY DEF EarlyShape, Passed
<1>4. AstrayOnlyByRace'
    BY DEF AstrayOnlyByRace
<1> QED
    BY <1>1, <1>2, <1>3, <1>4

(* A new call has no part in it yet.                                           *)
LEMMA MakesRace ==
    ASSUME Core, Race, NEW c \in Conn, NEW k \in Call, NEW s \in Kind, NEW i \in Id,
           pc[c] = "idle", Makes(c, k, s, i), NEW p \in Registering,
           pc' = [pc EXCEPT ![c] = p],
           UNCHANGED <<listed, conn, outcome, strangers, taken>>,
           Held' \subseteq Held \cup {k}
    PROVE  Race'
<1>1. kind[k] = "none" /\ k \notin taken /\ outcome[k] = "none" /\ strangers[k] = {}
    BY DEF Core, MadeShape, Makes
<1>2. \A r \in Call \ {k} : kind'[r] = kind[r] /\ id'[r] = id[r] /\ by'[r] = by[r]
    BY DEF Core, TypeOK, Makes
<1>3. \A r \in Call \ {k} : HasNotRegistered(r)' <=> HasNotRegistered(r)
    BY DEF Core, TypeOK, Makes, HasNotRegistered, Registering, Agent
<1>4. HasNotRegistered(k)'
    BY DEF Core, TypeOK, Makes, HasNotRegistered, Registering, Agent
<1>5. taken \subseteq Call /\ \A r \in Kind : r # "none"
    BY DEF Core, TypeOK, Kind, Streamed
<1>6. \A r \in Call : outcome[r] # "none" \/ strangers[r] # {} => kind[r] \in Kind
    BY DEF Core, TypeOK, MadeShape
<1>7. WaitShape'
  <2> SUFFICES ASSUME NEW r \in Call, outcome[r] = "none", conn[by'[r]] = "open",
                      ~HasNotRegistered(r)',
                      kind'[r] = "service" \/ (kind'[r] = "action" /\ r \in Held')
               PROVE  \/ by'[r] \in listed[kind'[r]][id'[r]]
                      \/ \E t \in taken \ {r} : kind'[r] = kind'[t] /\ id'[r] = id'[t]
      BY DEF WaitShape, Same
  <2>1. r # k /\ ~HasNotRegistered(r)
      BY <1>3, <1>4
  <2>2. \/ by[r] \in listed[kind[r]][id[r]]
        \/ \E t \in taken \ {r} : kind[r] = kind[t] /\ id[r] = id[t]
      BY <1>2, <2>1 DEF Race, WaitShape, Same
  <2> QED
      BY <1>1, <1>2, <1>5, <2>1, <2>2
<1>8. ListShape'
  <2> SUFFICES ASSUME NEW t \in Kind, NEW j \in Id, NEW d \in listed[t][j]
               PROVE  \E r \in Call :
                         /\ by'[r] = d /\ kind'[r] = t /\ id'[r] = j
                         /\ \/ outcome[r] = "early"
                            \/ outcome[r] = "none" /\ ~HasNotRegistered(r)'
      BY DEF ListShape
  <2>1. PICK r \in Call :
           /\ by[r] = d /\ kind[r] = t /\ id[r] = j
           /\ outcome[r] = "early" \/ (outcome[r] = "none" /\ ~HasNotRegistered(r))
      BY DEF Race, ListShape
  <2>2. r # k
      BY <1>1, <1>5, <2>1
  <2> QED
      BY <1>2, <1>3, <2>1, <2>2
<1>9. EarlyShape'
  <2> SUFFICES ASSUME NEW r \in Call, HasNotRegistered(r)',
                      outcome[r] \notin {"none", "early"}
               PROVE  \E t \in Call \ {r} :
                         /\ by'[t] = by'[r] /\ kind'[r] = kind'[t] /\ id'[r] = id'[t]
                         /\ outcome[t] = "early" \/ (outcome[t] = "none" /\ t \in taken)
      BY DEF EarlyShape, Same, Passed
  <2>1. r # k /\ kind[r] \in Kind
      BY <1>1, <1>6
  <2>2. PICK t \in Call \ {r} :
           /\ by[t] = by[r] /\ kind[r] = kind[t] /\ id[r] = id[t]
           /\ outcome[t] = "early" \/ (outcome[t] = "none" /\ t \in taken)
      BY <1>3, <2>1 DEF Race, EarlyShape, Same, Passed
  <2> QED
      BY <1>1, <1>2, <1>5, <2>1, <2>2
<1>10. AstrayOnlyByRace'
  <2>1. ASSUME NEW r \in Call, outcome[r] = "unlisted"
        PROVE  \E t \in taken \ {r} : kind'[t] = kind'[r] /\ id'[t] = id'[r]
    <3>1. r # k
        BY <1>1, <2>1
    <3>2. PICK t \in taken \ {r} : kind[t] = kind[r] /\ id[t] = id[r]
        BY <2>1 DEF Race, AstrayOnlyByRace
    <3> QED
        BY <1>1, <1>2, <1>5, <3>1, <3>2
  <2>2. ASSUME NEW r \in Call, NEW d \in strangers[r]
        PROVE  \E t \in Call \ {r} :
                  /\ by'[t] = d /\ kind'[t] = kind'[r] /\ id'[t] = id'[r]
                  /\ outcome[t] = "early" \/ (outcome[t] = "none" /\ t \in taken)
    <3>1. r # k /\ kind[r] \in Kind
        BY <1>1, <1>6
    <3>2. PICK t \in Call \ {r} :
             /\ by[t] = d /\ kind[t] = kind[r] /\ id[t] = id[r]
             /\ outcome[t] = "early" \/ (outcome[t] = "none" /\ t \in taken)
        BY DEF Race, AstrayOnlyByRace
    <3> QED
        BY <1>1, <1>2, <1>5, <3>1, <3>2
  <2> QED
      BY <2>1, <2>2 DEF AstrayOnlyByRace
<1> QED
    BY <1>7, <1>8, <1>9, <1>10 DEF Race

(* Whoever is registered is listed for a call without result, or for one that  *)
(* has passed it.                                                              *)
LEMMA RegisterRace ==
    ASSUME Core, Race, NEW c \in Conn, Register(c)
    PROVE  Race'
<1> DEFINE k == want[c]
<1> USE DEF Register, HandlerGoto, calls, manager, process, history, Same
<1>1. k \in Call /\ by[k] = c /\ kind[k] \in Kind /\ id[k] \in Id /\ HasNotRegistered(k)
    BY PendingIs DEF Core, TypeOK, HandlerShape, Registering, Agent, Kind
<1>2. /\ \A s \in Kind, i \in Id : listed'[s][i] =
            IF s = kind[k] /\ i = id[k] THEN listed[s][i] \cup {c} ELSE listed[s][i]
    BY <1>1 DEF Core, TypeOK
<1>3. \A r \in Call : HasNotRegistered(r)' <=> HasNotRegistered(r) /\ r # k
    BY <1>1, NoCallOut
       DEF Core, TypeOK, HandlerShape, HasNotRegistered, Registering, Agent
<1>4. Held' = Held
    BY DEF Held
<1> HIDE DEF k
<1>5. WaitShape'
  <2> SUFFICES ASSUME NEW r \in Call, outcome[r] = "none", conn[by[r]] = "open",
                      ~HasNotRegistered(r)',
                      kind[r] = "service" \/ (kind[r] = "action" /\ r \in Held)
               PROVE  \/ by[r] \in listed'[kind[r]][id[r]]
                      \/ \E q \in taken \ {r} : kind[r] = kind[q] /\ id[r] = id[q]
      BY <1>4 DEF WaitShape
  <2>1. kind[r] \in Kind /\ id[r] \in Id
      BY DEF Core, TypeOK, Kind, Streamed
  <2>2. CASE r = k
    <3>1. listed'[kind[k]][id[k]] = listed[kind[k]][id[k]] \cup {c}
        BY <1>1, <1>2
    <3>2. by[k] \in listed'[kind[k]][id[k]]
        BY <1>1, <3>1
    <3> QED
        BY <2>2, <3>2
  <2>3. CASE r # k
    <3>1. \/ by[r] \in listed[kind[r]][id[r]]
          \/ \E q \in taken \ {r} : kind[r] = kind[q] /\ id[r] = id[q]
        BY <1>3, <2>3 DEF Race, WaitShape
    <3> QED
        BY <1>2, <2>1, <3>1
  <2> QED
      BY <2>2, <2>3
<1>6. ListShape'
  <2> SUFFICES ASSUME NEW s \in Kind, NEW i \in Id, NEW d \in listed'[s][i]
               PROVE  \E r \in Call :
                         /\ by[r] = d /\ kind[r] = s /\ id[r] = i
                         /\ \/ outcome[r] = "early"
                            \/ outcome[r] = "none" /\ ~HasNotRegistered(r)'
      BY DEF ListShape
  <2>1. CASE d \in listed[s][i]
      BY <1>3, <2>1 DEF Race, ListShape
  <2>2. CASE d \notin listed[s][i]
    <3>1. d = c /\ s = kind[k] /\ i = id[k]
        BY <1>2, <2>2
    <3>2. CASE outcome[k] \in {"none", "early"}
        BY <1>1, <1>3, <3>1, <3>2
    <3>3. CASE outcome[k] \notin {"none", "early"}
      <4>1. PICK r \in Call \ {k} : by[r] = c /\ Same(k, r) /\ Passed(r)
          BY <1>1, <3>3 DEF Race, EarlyShape
      <4>2. ~HasNotRegistered(r)
          BY <1>1, <4>1, PendingIs
      <4> QED
          BY <1>3, <3>1, <4>1, <4>2 DEF Passed
    <3> QED
        BY <3>2, <3>3
  <2> QED
      BY <2>1, <2>2
<1>7. EarlyShape'
    BY <1>3 DEF Race, EarlyShape, Passed
<1>8. AstrayOnlyByRace'
    BY DEF Race, AstrayOnlyByRace
<1> QED
    BY <1>5, <1>6, <1>7, <1>8 DEF Race

(* The end of a stop unregisters whoever is listed.                            *)
LEMMA UnlistRace ==
    ASSUME Core, Race, NEW c \in Conn, Unlist(c)
    PROVE  Race'
<1> DEFINE t == want[c]
<1> USE DEF Unlist, HandlerGoto, calls, manager, process, history, Same
<1>1. t \in taken /\ t \in Call /\ kind[t] \in Streamed /\ id[t] \in Id
    BY MadeIs DEF Core, TypeOK, HandlerShape, Ending, StopPC, Agent
<1>2. \A s \in Kind, i \in Id : listed'[s][i] =
         IF s = kind[t] /\ i = id[t] THEN {} ELSE listed[s][i]
    BY <1>1 DEF Core, TypeOK, Kind
<1>3. \A r \in Call : HasNotRegistered(r)' <=> HasNotRegistered(r)
    BY NoCallOut DEF Core, TypeOK, HasNotRegistered, Registering, Agent
<1>4. Held' = Held /\ t \notin Held
    BY <1>1, HeldIs DEF Held
<1> HIDE DEF t
<1>5. WaitShape'
  <2> SUFFICES ASSUME NEW r \in Call, outcome[r] = "none", conn[by[r]] = "open",
                      ~HasNotRegistered(r),
                      kind[r] = "service" \/ (kind[r] = "action" /\ r \in Held)
               PROVE  \/ by[r] \in listed'[kind[r]][id[r]]
                      \/ \E q \in taken \ {r} : kind[r] = kind[q] /\ id[r] = id[q]
      BY <1>3, <1>4 DEF WaitShape
  <2>1. \/ by[r] \in listed[kind[r]][id[r]]
        \/ \E q \in taken \ {r} : kind[r] = kind[q] /\ id[r] = id[q]
      BY DEF Race, WaitShape
  <2>2. t # r
      BY <1>1, <1>4 DEF Streamed
  <2>3. kind[r] \in Kind /\ id[r] \in Id
      BY DEF Core, TypeOK, Kind, Streamed
  <2> QED
      BY <1>1, <1>2, <2>1, <2>2, <2>3
<1>6. ListShape'
    BY <1>2, <1>3 DEF Race, ListShape
<1>7. EarlyShape'
    BY <1>3 DEF Race, EarlyShape, Passed
<1>8. AstrayOnlyByRace'
    BY DEF Race, AstrayOnlyByRace
<1> QED
    BY <1>5, <1>6, <1>7, <1>8 DEF Race

(* A client that leaves waits for nothing.                                     *)
LEMMA DisconnectRace ==
    ASSUME Core, Race, NEW c \in Conn, Disconnect(c)
    PROVE  Race'
<1> USE DEF Disconnect, Ready, Alive, calls, manager, handlers, process, history, Same
<1>1. \A s \in Kind, i \in Id : listed'[s][i] = listed[s][i] \ {c}
    BY DEF Remaining
<1>2. \A d \in Conn : conn'[d] = IF d = c THEN "gone" ELSE conn[d]
    BY DEF Core, TypeOK
<1>3. \A r \in Call : HasNotRegistered(r)' <=> HasNotRegistered(r)
    BY DEF HasNotRegistered
<1>4. Held' = Held
    BY DEF Held
<1>5. WaitShape'
  <2> SUFFICES ASSUME NEW r \in Call, outcome[r] = "none", conn'[by[r]] = "open",
                      ~HasNotRegistered(r),
                      kind[r] = "service" \/ (kind[r] = "action" /\ r \in Held)
               PROVE  \/ by[r] \in listed'[kind[r]][id[r]]
                      \/ \E q \in taken \ {r} : kind[r] = kind[q] /\ id[r] = id[q]
      BY <1>3, <1>4 DEF WaitShape
  <2>1. by[r] # c /\ conn[by[r]] = "open" /\ kind[r] \in Kind /\ id[r] \in Id
      BY <1>2 DEF Core, TypeOK, Kind, Streamed
  <2>2. \/ by[r] \in listed[kind[r]][id[r]]
        \/ \E q \in taken \ {r} : kind[r] = kind[q] /\ id[r] = id[q]
      BY <2>1 DEF Race, WaitShape
  <2> QED
      BY <1>1, <2>1, <2>2
<1>6. ListShape'
    BY <1>1, <1>3 DEF Race, ListShape
<1>7. EarlyShape'
    BY <1>3 DEF Race, EarlyShape, Passed
<1>8. AstrayOnlyByRace'
    BY DEF Race, AstrayOnlyByRace
<1> QED
    BY <1>5, <1>6, <1>7, <1>8 DEF Race

(* A result reaches whoever is listed; the rest of it is the proof's case      *)
(* distinction: its client is among them, or not there yet, or unregistered.   *)
LEMMA ResultRace ==
    ASSUME Core, Race, NEW k \in Call, Open(k), Result(k), UNCHANGED <<calls, conn>>,
           taken \subseteq taken', Held' \subseteq Held,
           \A r \in Call : HasNotRegistered(r)' <=> HasNotRegistered(r)
    PROVE  Race'
<1> DEFINE here == listed[kind[k]][id[k]]
<1> USE DEF calls, Same
<1>1. kind[k] \in Kind /\ id[k] \in Id /\ outcome[k] = "none" /\ k \notin taken
    BY HeldIs DEF Core, TypeOK, ServiceShape, Open, Kind, Streamed
<1>2. /\ outcome'[k] # "none"
      /\ \A r \in Call \ {k} : outcome'[r] = outcome[r] /\ strangers'[r] = strangers[r]
    BY <1>1, ResultIs
<1>3. \A s \in Kind, i \in Id : listed'[s][i] =
         IF s = kind[k] /\ i = id[k] THEN {} ELSE listed[s][i]
    BY <1>1 DEF Core, TypeOK, Result, AnswerTakes
<1>4. strangers'[k] = strangers[k] \cup (here \ {by[k]})
    BY DEF Core, TypeOK, Result, Listed
<1>5. outcome'[k] = IF by[k] \in here THEN "heard"
                    ELSE IF conn[by[k]] = "gone" THEN "gone"
                    ELSE IF HasNotRegistered(k) THEN "early" ELSE "unlisted"
    BY DEF Core, TypeOK, Result, Listed
<1>6. \A r \in Call \ {k} : Same(k, r) /\ outcome[r] = "none" =>
         kind[r] # "service" /\ r \notin Held /\ r \in taken
    BY RivalIs
<1>7. \A r \in Call : Passed(r) => r # k /\ Passed(r)'
    BY <1>1, <1>2 DEF Passed
<1>8. \A d \in here : d # by[k] \/ HasNotRegistered(k) =>
         \E r \in Call \ {k} : by[r] = d /\ Same(k, r) /\ Passed(r)
  <2> SUFFICES ASSUME NEW d \in here, d # by[k] \/ HasNotRegistered(k)
               PROVE  \E r \in Call \ {k} : by[r] = d /\ Same(k, r) /\ Passed(r)
      OBVIOUS
  <2>1. PICK r \in Call :
           /\ by[r] = d /\ kind[r] = kind[k] /\ id[r] = id[k]
           /\ outcome[r] = "early" \/ (outcome[r] = "none" /\ ~HasNotRegistered(r))
      BY <1>1 DEF Race, ListShape
  <2>2. r # k
      BY <1>1, <2>1
  <2> QED
      BY <1>6, <2>1, <2>2 DEF Passed
<1> HIDE DEF here
<1>9. WaitShape'
  <2> SUFFICES ASSUME NEW r \in Call, outcome'[r] = "none", conn[by[r]] = "open",
                      ~HasNotRegistered(r),
                      kind[r] = "service" \/ (kind[r] = "action" /\ r \in Held)
               PROVE  \/ by[r] \in listed'[kind[r]][id[r]]
                      \/ \E q \in taken' \ {r} : kind[r] = kind[q] /\ id[r] = id[q]
      BY DEF WaitShape
  <2>1. r # k /\ outcome[r] = "none" /\ ~Same(k, r) /\ kind[r] \in Kind /\ id[r] \in Id
      BY <1>2, <1>6 DEF Core, TypeOK, Kind, Streamed
  <2>2. \/ by[r] \in listed[kind[r]][id[r]]
        \/ \E q \in taken \ {r} : kind[r] = kind[q] /\ id[r] = id[q]
      BY <2>1 DEF Race, WaitShape
  <2> QED
      BY <1>3, <2>1, <2>2
<1>10. ListShape'
  <2> SUFFICES ASSUME NEW s \in Kind, NEW i \in Id, NEW d \in listed'[s][i]
               PROVE  \E r \in Call :
                         /\ by[r] = d /\ kind[r] = s /\ id[r] = i
                         /\ \/ outcome'[r] = "early"
                            \/ outcome'[r] = "none" /\ ~HasNotRegistered(r)
      BY DEF ListShape
  <2>1. d \in listed[s][i] /\ ~(s = kind[k] /\ i = id[k])
      BY <1>3
  <2>2. PICK r \in Call :
           /\ by[r] = d /\ kind[r] = s /\ id[r] = i
           /\ outcome[r] = "early" \/ (outcome[r] = "none" /\ ~HasNotRegistered(r))
      BY <2>1 DEF Race, ListShape
  <2> QED
      BY <1>2, <2>1, <2>2
<1>11. EarlyShape'
  <2> SUFFICES ASSUME NEW r \in Call, HasNotRegistered(r),
                      outcome'[r] \notin {"none", "early"}
               PROVE  \E q \in Call \ {r} : by[q] = by[r] /\ Same(r, q) /\ Passed(q)'
      BY DEF EarlyShape
  <2>1. CASE r # k
      BY <1>2, <1>7, <2>1 DEF Race, EarlyShape
  <2>2. CASE r = k
    <3>1. conn[by[k]] = "open"
        BY <2>2, PendingIs DEF Core, TypeOK, HandlerShape, Agent
    <3>2. by[k] \in here
        BY <1>5, <2>2, <3>1
    <3> QED
        BY <1>7, <1>8, <2>2, <3>2
  <2> QED
      BY <2>1, <2>2
<1>12. AstrayOnlyByRace'
  <2>1. ASSUME NEW r \in Call, outcome'[r] = "unlisted"
        PROVE  \E q \in taken' \ {r} : kind[q] = kind[r] /\ id[q] = id[r]
    <3>1. CASE r # k
        BY <1>2, <2>1, <3>1 DEF Race, AstrayOnlyByRace
    <3>2. CASE r = k
      <4>1. by[k] \notin here /\ conn[by[k]] = "open" /\ ~HasNotRegistered(k)
          BY <1>5, <2>1, <3>2 DEF Core, TypeOK
      <4>2. \E q \in taken \ {k} : Same(k, q)
          BY <1>1, <4>1 DEF Race, WaitShape, Open, here
      <4> QED
          BY <3>2, <4>2
    <3> QED
        BY <3>1, <3>2
  <2>2. ASSUME NEW r \in Call, NEW d \in strangers'[r]
        PROVE  \E q \in Call \ {r} :
                  by[q] = d /\ kind[q] = kind[r] /\ id[q] = id[r] /\ Passed(q)'
    <3>1. CASE d \in strangers[r]
      <4>1. \E q \in Call \ {r} :
               by[q] = d /\ kind[q] = kind[r] /\ id[q] = id[r] /\ Passed(q)
          BY <3>1 DEF Race, AstrayOnlyByRace, Passed
      <4> QED
          BY <1>7, <4>1
    <3>2. CASE d \notin strangers[r]
      <4>1. r = k /\ d \in here /\ d # by[k]
          BY <1>2, <1>4, <2>2, <3>2
      <4> QED
          BY <1>7, <1>8, <4>1
    <3> QED
        BY <3>1, <3>2
  <2> QED
      BY <2>1, <2>2 DEF AstrayOnlyByRace, Passed
<1> QED
    BY <1>9, <1>10, <1>11, <1>12 DEF Race

(* A step that leaves alone who is listed, what came of the results, the maps  *)
(* and who registers.                                                          *)
Quiet == UNCHANGED <<calls, listed, conn, outcome, strangers, taken, held>>

(* Such a step keeps the second layer, if the handlers stand where they did.   *)
LEMMA QuietRace ==
    ASSUME Core, Race, Quiet, \A k \in Call : HasNotRegistered(k)' <=> HasNotRegistered(k)
    PROVE  Race'
<1>1. Held' = Held
    BY DEF Quiet, Held
<1> QED
    BY <1>1, RaceKeeps DEF Quiet, channel

(* A step of a handler keeps it: the start of a call, its registration, an     *)
(* unlisting, a disconnect.                                                    *)
LEMMA HandlerRace ==
    ASSUME Core, Race, NEW c \in Conn, Handler(c)
    PROVE  Race'
<1>1. ASSUME NEW k \in Call, NEW i \in Id, CallService(c, k, i) PROVE Race'
  <2>1. /\ pc[c] = "idle" /\ Makes(c, k, "service", i) /\ pc' = [pc EXCEPT ![c] = "spawn"]
        /\ UNCHANGED <<listed, conn, outcome, strangers, taken, held>>
      BY <1>1 DEF CallService, Ready, channel, history
  <2>2. Held' = Held
      BY <2>1 DEF Held
  <2>3. "service" \in Kind /\ "spawn" \in Registering
      BY DEF Kind, Registering
  <2> QED
      BY <2>1, <2>2, <2>3, MakesRace
<1>2. ASSUME NEW k \in Call, NEW s \in Streamed, NEW i \in Id,
            CallStream(c, k, s, i)
      PROVE  Race'
  <2>1. /\ pc[c] = "idle" /\ Makes(c, k, s, i) /\ pc' = [pc EXCEPT ![c] = "register"]
        /\ UNCHANGED <<listed, conn, outcome, strangers, taken>>
        /\ held[s][i] = NoCall /\ held' = [held EXCEPT ![s][i] = k]
      BY <1>2 DEF CallStream, Ready, StreamIdFree, channel, history
  <2>2. Held' = Held \cup {k}
      BY <2>1, PutInIs
  <2>3. s \in Kind /\ "register" \in Registering
      BY DEF Kind, Registering
  <2> QED
      BY <2>1, <2>2, <2>3, MakesRace
<1>3. ASSUME NEW k \in Call, Takes(c, k) PROVE Race'
  <2>1. /\ k \in Held /\ phase # "destroyed" /\ Held' = Held \ {k}
        /\ UNCHANGED <<calls, conn>> /\ taken \subseteq taken'
      BY <1>3, TakenOutIs DEF Takes, Ready
  <2>2. \A r \in Call : HasNotRegistered(r)' <=> HasNotRegistered(r)
      BY <1>3 DEF Takes, Ready, Core, TypeOK, HasNotRegistered, Agent
  <2>3. CASE kind[k] = "action"
    <3>1. Result(k)
        BY <1>3, <2>3 DEF Takes
    <3>2. Open(k)
        BY <2>1, <2>3 DEF Open, Core, AnswerShape
    <3> QED
        BY <2>1, <2>2, <3>1, <3>2, ResultRace
  <2>4. CASE kind[k] # "action"
    <3>1. UNCHANGED <<listed, outcome, strangers>>
        BY <1>3, <2>4 DEF Takes, NoResult
    <3> QED
        BY <2>1, <2>2, <3>1, RaceKeeps
  <2> QED
      BY <2>3, <2>4
<1>4. ASSUME SpawnService(c) \/ TrackService(c) PROVE Race'
  <2>1. Quiet /\ UNCHANGED want /\ pc[c] \in Registering /\ pc'[c] \in Registering
        /\ \A d \in Conn \ {c} : pc'[d] = pc[d]
      BY <1>4 DEF SpawnService, TrackService, HandlerGoto, Quiet, channel, history,
         Registering, Core, TypeOK, Agent
  <2>2. \A k \in Call : HasNotRegistered(k)' <=> HasNotRegistered(k)
      BY <2>1 DEF HasNotRegistered, Registering
  <2> QED
      BY <2>1, <2>2, QuietRace
<1>5. ASSUME NotifyStopped(c) PROVE Race'
  <2>1. Quiet /\ UNCHANGED want
      BY <1>5 DEF NotifyStopped, Quiet, manager, Held
  <2>2. \A k \in Call : HasNotRegistered(k)' <=> HasNotRegistered(k)
      BY <1>5, <2>1
         DEF NotifyStopped, HandlerGoto, HasNotRegistered, Core, TypeOK, Agent
  <2> QED
      BY <2>1, <2>2, QuietRace
<1>6. ASSUME ManagerDangles(c) PROVE Race'
  <2>1. Quiet /\ UNCHANGED handlers
      BY <1>6 DEF ManagerDangles, Quiet, manager, channel, history
  <2>2. \A k \in Call : HasNotRegistered(k)' <=> HasNotRegistered(k)
      BY <2>1 DEF HasNotRegistered, handlers
  <2> QED
      BY <2>1, <2>2, QuietRace
<1> QED
    BY <1>1, <1>2, <1>3, <1>4, <1>5, <1>6, RegisterRace, UnlistRace, DisconnectRace
       DEF Handler

(* So does a step of stop(): it changes no listing and hears no result.        *)
LEMMA StopRace ==
    ASSUME Core, Race, NEW a \in Agent, Stop(a)
    PROVE  Race'
<1> USE DEF Stop, StopSignals, StopExchanges, StopJoins, StopFrees, StopKeeps,
        HandlerGoto
<1>1. Quiet /\ UNCHANGED want
    BY DEF Quiet, manager, channel, history
<1>2. \A k \in Call : HasNotRegistered(k)' <=> HasNotRegistered(k)
  <2>1. /\ pc[a] \notin Registering /\ pc'[a] \notin Registering
        /\ \A d \in Conn \ {a} : pc'[d] = pc[d]
      BY DEF Registering, Core, TypeOK, Agent
  <2> QED
      BY <1>1, <2>1 DEF HasNotRegistered, Registering
<1> QED
    BY <1>1, <1>2, QuietRace

(* So does a step of the restart, which empties the maps.                      *)
LEMMA RestartRace ==
    ASSUME Core, Race, Restart
    PROVE  Race'
<1> USE DEF Restart, Shutdown, ShutdownJoins, ShutdownNext, ShutdownBags, HandlerGoto
<1>1. \A c \in Conn : pc'[c] = pc[c] /\ want'[c] = want[c]
    BY RestarterAssumption DEF ShutdownTakes, Destroy, handlers, Core, TypeOK, Agent
<1>2. \A k \in Call : HasNotRegistered(k)' <=> HasNotRegistered(k)
    BY <1>1 DEF HasNotRegistered
<1>3. CASE ShutdownTakes
  <2>1. phase \in Streamed
      BY <1>3 DEF ShutdownTakes, Core, TypeOK, RestartShape, Phase, Streamed
  <2>2. Held' \subseteq Held
      BY <1>3, <2>1, EmptiedIs DEF ShutdownTakes
  <2>3. UNCHANGED <<calls, listed, conn, outcome, strangers>> /\ taken \subseteq taken'
      BY <1>3 DEF ShutdownTakes, channel
  <2> QED
      BY <1>2, <2>2, <2>3, RaceKeeps
<1>4. CASE Destroy
  <2>1. Held' = {}
      BY <1>4 DEF Destroy, Held, Empty
  <2>2. UNCHANGED <<calls, listed, conn, outcome, strangers, taken>>
      BY <1>4 DEF Destroy, channel, history
  <2> QED
      BY <1>2, <2>1, <2>2, RaceKeeps
<1>5. CASE ~ShutdownTakes /\ ~Destroy
  <2>1. Quiet
      BY <1>5 DEF Quiet, manager, channel, history
  <2> QED
      BY <1>2, <2>1, QuietRace
<1> QED
    BY <1>3, <1>4, <1>5

(* So does a step of a service call's thread, whose result is the only one     *)
(* that may come before its listing.                                           *)
LEMMA ServiceRace ==
    ASSUME Core, Race, NEW k \in Call, Service(k)
    PROVE  Race'
<1>1. \A r \in Call : HasNotRegistered(r)' <=> HasNotRegistered(r)
    BY DEF Service, ExecEnds, ExecTimesOut, ExecReaps, Notify, Erase, ThreadDangles,
       ThreadKeeps, handlers, HasNotRegistered
<1>2. CASE Notify(k)
  <2>1. kind[k] = "service"
      BY <1>2, MadeIs DEF Notify, ThreadGoto, Core, StreamShape, Kind, Streamed
  <2>2. Open(k)
      BY <1>2, <2>1 DEF Notify, ThreadGoto, Core, AnswerShape, Open
  <2>3. Result(k) /\ UNCHANGED <<calls, conn, taken>> /\ Held' = Held
      BY <1>2 DEF Notify, ThreadKeeps, Held
  <2> QED
      BY <1>1, <2>2, <2>3, ResultRace
<1>3. CASE ~Notify(k)
  <2>1. Quiet
      BY <1>3 DEF Service, ExecEnds, ExecTimesOut, ExecReaps, Erase, ThreadDangles,
         ThreadKeeps, NoResult, Quiet, channel, manager, history
  <2> QED
      BY <1>1, <2>1, QuietRace
<1> QED
    BY <1>2, <1>3

(* So does a step of an action's or a bag's threads and process.               *)
LEMMA StreamRace ==
    ASSUME Core, Race, NEW k \in Call, Stream(k)
    PROVE  Race'
<1>1. \A r \in Call : HasNotRegistered(r)' <=> HasNotRegistered(r)
    BY DEF Stream, Feedback, ReaderEnds, WaiterReaps, WaiterJoins, ActionExits,
           BagExits, StreamDangles, StreamKeeps, handlers, HasNotRegistered
<1>2. CASE ActionExits(k) /\ Holder(k) # NoCall
  <2>1. /\ Holder(k) \in Held /\ Holder(k) \in Call /\ Same(Holder(k), k)
        /\ outcome[Holder(k)] = "none" /\ Held' = Held \ {Holder(k)}
      BY <1>2, ExitEnds
  <2>2. Result(Holder(k)) /\ UNCHANGED <<calls, conn, taken>>
      BY <1>2 DEF ActionExits, StreamKeeps
  <2>3. Open(Holder(k))
      BY <1>2, <2>1 DEF ActionExits, Open, Same
  <2> QED
      BY <1>1, <2>1, <2>2, <2>3, ResultRace
<1>3. CASE ~(ActionExits(k) /\ Holder(k) # NoCall)
  <2>1. Quiet
      BY <1>3
         DEF Stream, Feedback, ReaderEnds, WaiterReaps, WaiterJoins, ActionExits,
             BagExits, StreamDangles, StreamKeeps, NoResult, Quiet, channel,
             manager, history
  <2> QED
      BY <1>1, <2>1, QuietRace
<1> QED
    BY <1>2, <1>3

(* The two layers together are inductive.                                      *)
THEOREM RaceInductive == Spec => []Race
<1>1. Init => Race
    BY DEF Init, Race, WaitShape, ListShape, EarlyShape, AstrayOnlyByRace,
       HasNotRegistered, Held, Empty, Kind, Streamed
<1>2. Core /\ Race /\ [Next]_vars => Race'
  <2> SUFFICES ASSUME Core, Race, [Next]_vars PROVE Race'
      OBVIOUS
  <2>1. CASE UNCHANGED vars \/ Ended \/ \E k \in Call : Process(k)
    <3>1. Quiet /\ UNCHANGED handlers
        BY <2>1 DEF Ended, Process, ChildStarts, ChildCloses, ChildExits, ChildDies,
           ChildGoes, Quiet, vars, manager, channel, history
    <3>2. \A k \in Call : HasNotRegistered(k)' <=> HasNotRegistered(k)
        BY <3>1 DEF HasNotRegistered, handlers
    <3> QED
        BY <3>1, <3>2, QuietRace
  <2>2. CASE \E s \in Sender : Sends(s)
    <3>1. Quiet /\ UNCHANGED handlers
        BY <2>2 DEF Sends, Quiet, manager, history
    <3>2. \A k \in Call : HasNotRegistered(k)' <=> HasNotRegistered(k)
        BY <3>1 DEF HasNotRegistered, handlers
    <3> QED
        BY <3>1, <3>2, QuietRace
  <2> QED
      BY <2>1, <2>2, HandlerRace, StopRace, RestartRace, ServiceRace, StreamRace DEF Next
<1> QED
    BY <1>1, <1>2, CoreInductive, PTL DEF Spec

(* A client misses its result, or gets another's, only by the races named.     *)
THEOREM OnlyRacesLeadAstray == Spec => []AstrayOnlyByRace
<1>1. Race => AstrayOnlyByRace
    BY DEF Race
<1> QED
    BY <1>1, RaceInductive, PTL

=============================================================================
