-------------------------- MODULE LaunchManagerProofs --------------------------
(* Proofs about the launches of LaunchManager, for any number of them: what    *)
(* goes wrong needs a launch that was stopped or restarted before it had been  *)
(* reported, no live launch is out of everybody's reach, and a stop that waits *)
(* has killed.                                                                 *)
EXTENDS LaunchManager, TLAPS

(* Nothing has happened to a launch that was not started, and one that is      *)
(* stopped or destroyed has left the map.                                      *)
StartShape ==
    \A l \in Launch :
        /\ wpc[l] = "none" <=> child[l] = "none"
        /\ child[l] # "none" => l \in issued
        /\ l \in launches => child[l] # "none" /\ stop[l] = "none" /\ ~freed[l]
        /\ stop[l] # "none" \/ freed[l] => child[l] # "none"
        /\ child[l] = "none" => ~running[l] /\ ~joined[l] /\ told[l] = "none"

(* What the loops of shutdown have before them is in the map.                  *)
LoopShape ==
    /\ ~Locked => todo = {} /\ at = NoLaunch
    /\ at # NoLaunch => at \in launches

(* A launch that nobody rushed was reported before it was stopped, before a    *)
(* loop of shutdown and before it was destroyed.                               *)
RushShape ==
    \A l \in Launch \ rushed :
        /\ stop[l] # "none" \/ freed[l] => wpc[l] = "done"
        /\ Locked /\ l \in launches => wpc[l] = "done"

(* The readers are joined after their end, and before the waiter goes on.      *)
JoinShape ==
    \A l \in Launch :
        /\ joined[l] => rpc[l] = "done"
        /\ wpc[l] \in {"close", "notify", "done"} => joined[l]

(* The waiter of a launch that nobody rushed is the one to reap it, and gets   *)
(* the code it ended with.                                                     *)
CodeShape ==
    \A l \in Launch :
        /\ wpc[l] \notin {"none", "wait"} => child[l] = "reaped"
        /\ told[l] # "none" => wpc[l] = "done" /\ told[l] = got[l]
        /\ l \notin rushed =>
              /\ child[l] = "reaped" => wpc[l] \notin {"none", "wait"}
              /\ wpc[l] \notin {"none", "wait"} => got[l] = code[l]

(* What has been stopped has ended; the second loop of shutdown waits for each *)
(* launch of the map.                                                          *)
EndShape ==
    /\ \A l \in Launch : stop[l] = "done" => Gone(l)
    /\ spc = "close" => \A l \in launches : l \in todo \/ l = at \/ Gone(l)

(* Before a restart, a launch that may still live by itself has its flag, or   *)
(* its stop is on the way to the SIGKILL.                                      *)
KillShape ==
    spc = "idle" =>
        \A l \in Launch : child[l] \in {"up", "term"} =>
            (running[l] /\ stop[l] \in {"none", "running"}) \/ stop[l] = "kill"

(* A memory error needs a launch that was rushed.                              *)
FaultShape == fault \notin {"none", "foreign"} => rushed # {}

(* Of a launch nobody has met only its waiter, which is past it, has given a   *)
(* pid or a descriptor back; numbers are used again only of one that was met.  *)
StrayShape ==
    /\ \A l \in Launch : ~Met(l) =>
          /\ fds[l] = "closed" => wpc[l] \in {"notify", "done"}
          /\ child[l] = "reaped" => wpc[l] \notin {"none", "wait"}
    /\ fault = "foreign" => \E l \in Launch : Met(l) /\ Stray(l)

(* A process that was reaped with its LaunchProcess still there, and not in    *)
(* the second loop of shutdown, was reaped by the waiter, which has its code.  *)
WaiterKnows(l) == wpc[l] \notin {"none", "wait"} /\ got[l] = code[l]

AnswerShape ==
    \A l \in Launch :
        /\ freed[l] => stop[l] \in {"none", "done"}
        /\ child[l] = "reaped" /\ ~freed[l] /\ ~(spc = "close" /\ l \in launches) =>
               WaiterKnows(l)
        /\ answer[l] # "none" =>
              /\ stop[l] = "done" /\ child[l] = "reaped"
              /\ answer[l] = code[l] \/ WaiterKnows(l)

IInv ==
    /\ TypeOK
    /\ StartShape
    /\ LoopShape
    /\ RushShape
    /\ JoinShape
    /\ CodeShape
    /\ EndShape
    /\ NoLaunchForgotten
    /\ KillShape
    /\ FaultShape
    /\ StrayShape
    /\ AnswerShape

-----------------------------------------------------------------------------
(* start_launch, of a launch that was nothing before.                          *)
LEMMA StartLaunchStep ==
    ASSUME IInv, NEW l \in Launch, StartLaunch(l)
    PROVE  IInv'
<1> USE DEF StartLaunch, Request, Locked, stopper, closer
<1>1. TypeOK'
    BY DEF IInv, TypeOK, ReaderPC, WaiterPC, StopPC, ShutdownPC, ChildState, Code
<1>2. StrayShape'
    BY NoLaunchAssumption DEF IInv, TypeOK, StartShape, LoopShape, JoinShape, CodeShape,
           EndShape,
       StrayShape, Met, Stray, Locked, Gone
<1>3. AnswerShape'
    BY NoLaunchAssumption DEF IInv, TypeOK, StartShape, LoopShape, CodeShape, EndShape,
       AnswerShape, WaiterKnows, Locked, Gone
<1>4. StartShape'
    BY DEF IInv, TypeOK, StartShape
<1>5. LoopShape'
    BY DEF IInv, TypeOK, LoopShape
<1>6. RushShape'
    BY DEF IInv, TypeOK, StartShape, RushShape
<1>7. JoinShape'
    BY DEF IInv, TypeOK, StartShape, JoinShape
<1>8. CodeShape'
    BY DEF IInv, TypeOK, StartShape, CodeShape
<1>9. EndShape'
    BY DEF IInv, TypeOK, StartShape, LoopShape, EndShape, Gone
<1>10. NoLaunchForgotten'
    BY DEF IInv, TypeOK, StartShape, NoLaunchForgotten, Live, Alive
<1>11. KillShape'
    BY DEF IInv, TypeOK, StartShape, KillShape
<1>12. FaultShape'
    BY DEF IInv, FaultShape
<1> QED
    BY <1>1, <1>2, <1>3, <1>4, <1>5, <1>6, <1>7, <1>8, <1>9, <1>10, <1>11, <1>12 DEF IInv

(* start_launch, when no process can be made.                                  *)
LEMMA SpawnFailsStep ==
    ASSUME IInv, NEW l \in Launch, SpawnFails(l)
    PROVE  IInv'
<1> USE DEF SpawnFails, Request, launch, waiter, stopper, closer
<1>1. TypeOK'
    BY DEF IInv, TypeOK, ReaderPC, WaiterPC, StopPC, ShutdownPC, ChildState, Code
<1>2. StrayShape'
    BY NoLaunchAssumption DEF IInv, TypeOK, StartShape, LoopShape, JoinShape, CodeShape,
           EndShape,
       StrayShape, Met, Stray, Locked, Gone
<1>3. AnswerShape'
    BY NoLaunchAssumption DEF IInv, TypeOK, StartShape, LoopShape, CodeShape, EndShape,
       AnswerShape, WaiterKnows, Locked, Gone
<1>4. StartShape'
    BY DEF IInv, TypeOK, StartShape
<1>5. /\ LoopShape' /\ RushShape' /\ JoinShape' /\ CodeShape' /\ EndShape'
      /\ NoLaunchForgotten' /\ KillShape' /\ FaultShape'
    BY DEF IInv, LoopShape, RushShape, JoinShape, CodeShape, EndShape,
           NoLaunchForgotten, KillShape, FaultShape, Locked, Gone, Live, Alive
<1> QED
    BY <1>1, <1>2, <1>3, <1>4, <1>5 DEF IInv

(* stop_launch takes a launch out of the map.                                  *)
LEMMA StopTakesStep ==
    ASSUME IInv, NEW l \in Launch, StopTakes(l)
    PROVE  IInv'
<1> USE DEF StopTakes, Unreported, StopGoto, StopKeeps, Alive, launch, waiter,
            closer
<1>1. TypeOK'
    BY DEF IInv, TypeOK, LoopShape, Locked, ReaderPC, WaiterPC, StopPC, ShutdownPC,
           ChildState, Code
<1>2. StrayShape'
    BY NoLaunchAssumption DEF IInv, TypeOK, StartShape, LoopShape, JoinShape, CodeShape,
           EndShape,
       StrayShape, Met, Stray, Locked, Gone
<1>3. AnswerShape'
    BY NoLaunchAssumption DEF IInv, TypeOK, StartShape, LoopShape, CodeShape, EndShape,
       AnswerShape, WaiterKnows, Locked, Gone
<1>4. StartShape'
    BY DEF IInv, TypeOK, StartShape
<1>5. LoopShape'
    BY DEF IInv, TypeOK, StartShape, LoopShape, Locked
<1>6. RushShape'
    BY DEF IInv, TypeOK, StartShape, RushShape, Locked
<1>7. CodeShape'
    BY DEF IInv, TypeOK, CodeShape
<1>8. EndShape'
    BY DEF IInv, TypeOK, StartShape, LoopShape, Locked, EndShape, Gone
<1>9. NoLaunchForgotten'
    BY DEF IInv, TypeOK, NoLaunchForgotten, Live
<1>10. KillShape'
    BY DEF IInv, TypeOK, StartShape, KillShape
<1>11. FaultShape'
    BY DEF IInv, TypeOK, FaultShape
<1>12. JoinShape'
    BY DEF IInv, JoinShape
<1> QED
    BY <1>1, <1>2, <1>3, <1>4, <1>5, <1>6, <1>7, <1>8, <1>9, <1>10, <1>11, <1>12 DEF IInv

(* The readers look at the flag ...                                            *)
LEMMA ReaderCheckStep ==
    ASSUME IInv, NEW l \in Launch, ReaderCheck(l)
    PROVE  IInv'
<1> USE DEF ReaderCheck, ReaderGoto, ReaderKeeps, map, launch, waiter, stopper,
            closer
<1>1. TypeOK'
    BY DEF IInv, TypeOK, ReaderPC, WaiterPC, StopPC, ShutdownPC, ChildState, Code
<1>2. StrayShape'
    BY NoLaunchAssumption DEF IInv, TypeOK, StartShape, LoopShape, JoinShape, CodeShape,
           EndShape,
       StrayShape, Met, Stray, Locked, Gone
<1>3. AnswerShape'
    BY NoLaunchAssumption DEF IInv, TypeOK, StartShape, LoopShape, CodeShape, EndShape,
       AnswerShape, WaiterKnows, Locked, Gone
<1>4. JoinShape'
    BY DEF IInv, TypeOK, JoinShape
<1>5. /\ StartShape' /\ LoopShape' /\ RushShape' /\ CodeShape' /\ EndShape'
      /\ NoLaunchForgotten' /\ KillShape' /\ FaultShape'
    BY DEF IInv, StartShape, LoopShape, RushShape, CodeShape, EndShape,
           NoLaunchForgotten, KillShape, FaultShape, Locked, Gone, Live, Alive
<1> QED
    BY <1>1, <1>2, <1>3, <1>4, <1>5 DEF IInv

(* ... and wait for what there is to read ...                                  *)
LEMMA ReaderSelectStep ==
    ASSUME IInv, NEW l \in Launch, ReaderSelect(l)
    PROVE  IInv'
<1> USE DEF MayStray, ReaderSelect, ReaderGoto, ReaderKeeps, map, launch, waiter, stopper,
            closer
<1>1. TypeOK'
    BY DEF IInv, TypeOK, ReaderPC, WaiterPC, StopPC, ShutdownPC, ChildState, Code
<1>2. StrayShape'
    BY NoLaunchAssumption DEF IInv, TypeOK, StartShape, LoopShape, JoinShape, CodeShape,
           EndShape,
       StrayShape, Met, Stray, Locked, Gone
<1>3. AnswerShape'
    BY NoLaunchAssumption DEF IInv, TypeOK, StartShape, LoopShape, CodeShape, EndShape,
       AnswerShape, WaiterKnows, Locked, Gone
<1>4. JoinShape'
    BY DEF IInv, TypeOK, JoinShape
<1>5. /\ StartShape' /\ LoopShape' /\ RushShape' /\ CodeShape' /\ EndShape'
      /\ NoLaunchForgotten' /\ KillShape' /\ FaultShape'
    BY DEF IInv, StartShape, LoopShape, RushShape, CodeShape, EndShape,
           NoLaunchForgotten, KillShape, FaultShape, Locked, Gone, Live, Alive
<1> QED
    BY <1>1, <1>2, <1>3, <1>4, <1>5 DEF IInv

(* ... and read it.                                                            *)
LEMMA ReaderReadStep ==
    ASSUME IInv, NEW l \in Launch, ReaderRead(l)
    PROVE  IInv'
<1> USE DEF MayStray, ReaderRead, ReaderGoto, ReaderKeeps, map, launch, waiter, stopper,
            closer
<1>1. TypeOK'
    BY DEF IInv, TypeOK, ReaderPC, WaiterPC, StopPC, ShutdownPC, ChildState, Code
<1>2. StrayShape'
    BY NoLaunchAssumption DEF IInv, TypeOK, StartShape, LoopShape, JoinShape, CodeShape,
           EndShape,
       StrayShape, Met, Stray, Locked, Gone
<1>3. AnswerShape'
    BY NoLaunchAssumption DEF IInv, TypeOK, StartShape, LoopShape, CodeShape, EndShape,
       AnswerShape, WaiterKnows, Locked, Gone
<1>4. JoinShape'
    BY DEF IInv, TypeOK, JoinShape
<1>5. /\ StartShape' /\ LoopShape' /\ RushShape' /\ CodeShape' /\ EndShape'
      /\ NoLaunchForgotten' /\ KillShape' /\ FaultShape'
    BY DEF IInv, StartShape, LoopShape, RushShape, CodeShape, EndShape,
           NoLaunchForgotten, KillShape, FaultShape, Locked, Gone, Live, Alive
<1> QED
    BY <1>1, <1>2, <1>3, <1>4, <1>5 DEF IInv

(* The waiter finds its launch destroyed.                                      *)
LEMMA WaiterTouchesFreedStep ==
    ASSUME IInv, NEW l \in Launch, WaiterTouchesFreed(l)
    PROVE  IInv'
<1> USE DEF WaiterTouchesFreed, map, launch, waiter, stopper, closer
<1>1. TypeOK'
    BY DEF IInv, TypeOK, ReaderPC, WaiterPC, StopPC, ShutdownPC, ChildState, Code
<1>2. StrayShape'
    BY NoLaunchAssumption DEF IInv, TypeOK, StartShape, LoopShape, JoinShape, CodeShape,
           EndShape,
       StrayShape, Met, Stray, Locked, Gone
<1>3. AnswerShape'
    BY NoLaunchAssumption DEF IInv, TypeOK, StartShape, LoopShape, CodeShape, EndShape,
       AnswerShape, WaiterKnows, Locked, Gone
<1>4. NoLaunchForgotten'
    BY DEF IInv, TypeOK, NoLaunchForgotten, Live, Alive
<1>5. FaultShape'
    BY DEF IInv, TypeOK, RushShape, Locked, FaultShape
<1>6. /\ StartShape' /\ LoopShape' /\ RushShape' /\ JoinShape' /\ CodeShape'
      /\ EndShape' /\ KillShape'
    BY DEF IInv, StartShape, LoopShape, RushShape, JoinShape, CodeShape, EndShape,
           KillShape, Locked, Gone
<1> QED
    BY <1>1, <1>2, <1>3, <1>4, <1>5, <1>6 DEF IInv

(* It reaps the process, or finds it reaped.                                   *)
LEMMA WaiterReapsStep ==
    ASSUME IInv, NEW l \in Launch, WaiterReaps(l)
    PROVE  IInv'
<1> USE DEF MayStray, WaiterReaps, WaiterGoto, WaiterKeeps, Alive, Reaped, Gone, map, stopper,
            closer
<1>1. TypeOK'
    BY DEF IInv, TypeOK, ReaderPC, WaiterPC, StopPC, ShutdownPC, ChildState, Code
<1>2. StrayShape'
    BY NoLaunchAssumption DEF IInv, TypeOK, StartShape, LoopShape, JoinShape, CodeShape,
           EndShape,
       StrayShape, Met, Stray, Locked, Gone
<1>3. AnswerShape'
    BY NoLaunchAssumption DEF IInv, TypeOK, StartShape, LoopShape, CodeShape, EndShape,
       AnswerShape, WaiterKnows, Locked, Gone
<1>4. StartShape'
    BY DEF IInv, TypeOK, StartShape
<1>5. RushShape'
    BY DEF IInv, TypeOK, RushShape, Locked
<1>6. JoinShape'
    BY DEF IInv, TypeOK, JoinShape
<1>7. CodeShape'
    BY DEF IInv, TypeOK, CodeShape
<1>8. EndShape'
    BY DEF IInv, TypeOK, EndShape
<1>9. NoLaunchForgotten'
    BY DEF IInv, TypeOK, NoLaunchForgotten, Live
<1>10. KillShape'
    BY DEF IInv, TypeOK, KillShape
<1>11. LoopShape' /\ FaultShape'
    BY DEF IInv, LoopShape, FaultShape, Locked
<1> QED
    BY <1>1, <1>2, <1>3, <1>4, <1>5, <1>6, <1>7, <1>8, <1>9, <1>10, <1>11 DEF IInv

(* It clears the flag of a process that is reaped.                             *)
LEMMA WaiterFlagStep ==
    ASSUME IInv, NEW l \in Launch, WaiterFlag(l)
    PROVE  IInv'
<1> USE DEF MayStray, WaiterFlag, WaiterGoto, WaiterKeeps, Alive, map, stopper, closer
<1>1. TypeOK'
    BY DEF IInv, TypeOK, ReaderPC, WaiterPC, StopPC, ShutdownPC, ChildState, Code
<1>2. StrayShape'
    BY NoLaunchAssumption DEF IInv, TypeOK, StartShape, LoopShape, JoinShape, CodeShape,
           EndShape,
       StrayShape, Met, Stray, Locked, Gone
<1>3. AnswerShape'
    BY NoLaunchAssumption DEF IInv, TypeOK, StartShape, LoopShape, CodeShape, EndShape,
       AnswerShape, WaiterKnows, Locked, Gone
<1>4. StartShape'
    BY DEF IInv, TypeOK, StartShape
<1>5. RushShape'
    BY DEF IInv, TypeOK, RushShape, Locked
<1>6. JoinShape'
    BY DEF IInv, TypeOK, JoinShape
<1>7. CodeShape'
    BY DEF IInv, TypeOK, CodeShape
<1>8. KillShape'
    BY DEF IInv, TypeOK, CodeShape, KillShape
<1>9. LoopShape' /\ EndShape' /\ NoLaunchForgotten' /\ FaultShape'
    BY DEF IInv, LoopShape, EndShape, NoLaunchForgotten, FaultShape, Locked, Gone,
           Live
<1> QED
    BY <1>1, <1>2, <1>3, <1>4, <1>5, <1>6, <1>7, <1>8, <1>9 DEF IInv

(* It goes to join the readers ...                                             *)
LEMMA WaiterEntersJoinStep ==
    ASSUME IInv, NEW l \in Launch, WaiterEntersJoin(l)
    PROVE  IInv'
<1> USE DEF WaiterEntersJoin, WaiterGoto, WaiterKeeps, Alive, JoinOrClose,
            EntersJoin, Joining, map, stopper, closer
<1>1. TypeOK'
    BY DEF IInv, TypeOK, ReaderPC, WaiterPC, StopPC, ShutdownPC, ChildState, Code
<1>2. StrayShape'
    BY NoLaunchAssumption DEF IInv, TypeOK, StartShape, LoopShape, JoinShape, CodeShape,
           EndShape,
       StrayShape, Met, Stray, Locked, Gone
<1>3. AnswerShape'
    BY NoLaunchAssumption DEF IInv, TypeOK, StartShape, LoopShape, CodeShape, EndShape,
       AnswerShape, WaiterKnows, Locked, Gone
<1>4. StartShape'
    BY DEF IInv, TypeOK, StartShape
<1>5. RushShape'
    BY DEF IInv, TypeOK, RushShape, Locked
<1>6. JoinShape'
    BY DEF IInv, TypeOK, JoinShape
<1>7. CodeShape'
    BY DEF IInv, TypeOK, CodeShape
<1>8. NoLaunchForgotten'
    BY DEF IInv, TypeOK, NoLaunchForgotten, Live
<1>9. FaultShape'
  <2>1. fault' # fault => l \in rushed
    <3>1. l \notin rushed => stop[l] = "none" /\ ~(Locked /\ l \in launches)
        BY DEF IInv, TypeOK, StartShape, RushShape
    <3>2. at = l => l \in launches
        BY NoLaunchAssumption DEF IInv, LoopShape
    <3> QED
        BY <3>1, <3>2 DEF EntersJoin, Joining, Locked
  <2> QED
      BY <2>1 DEF IInv, FaultShape
<1>10. LoopShape' /\ EndShape' /\ KillShape'
    BY DEF IInv, LoopShape, EndShape, KillShape, Locked, Gone
<1> QED
    BY <1>1, <1>2, <1>3, <1>4, <1>5, <1>6, <1>7, <1>8, <1>9, <1>10 DEF IInv

(* ... which it does after their end.                                          *)
LEMMA WaiterJoinsStep ==
    ASSUME IInv, NEW l \in Launch, WaiterJoins(l)
    PROVE  IInv'
<1> USE DEF WaiterJoins, WaiterGoto, WaiterKeeps, Alive, Ended, map, stopper, closer
<1>1. TypeOK'
    BY DEF IInv, TypeOK, ReaderPC, WaiterPC, StopPC, ShutdownPC, ChildState, Code
<1>2. StrayShape'
    BY NoLaunchAssumption DEF IInv, TypeOK, StartShape, LoopShape, JoinShape, CodeShape,
           EndShape,
       StrayShape, Met, Stray, Locked, Gone
<1>3. AnswerShape'
    BY NoLaunchAssumption DEF IInv, TypeOK, StartShape, LoopShape, CodeShape, EndShape,
       AnswerShape, WaiterKnows, Locked, Gone
<1>4. StartShape'
    BY DEF IInv, TypeOK, StartShape
<1>5. RushShape'
    BY DEF IInv, TypeOK, RushShape, Locked
<1>6. JoinShape'
    BY DEF IInv, TypeOK, JoinShape
<1>7. CodeShape'
    BY DEF IInv, TypeOK, CodeShape
<1>8. LoopShape' /\ EndShape' /\ NoLaunchForgotten' /\ KillShape' /\ FaultShape'
    BY DEF IInv, LoopShape, EndShape, NoLaunchForgotten, KillShape, FaultShape,
           Locked, Gone, Live
<1> QED
    BY <1>1, <1>2, <1>3, <1>4, <1>5, <1>6, <1>7, <1>8 DEF IInv

(* It closes the pipes ...                                                     *)
LEMMA WaiterClosesStep ==
    ASSUME IInv, NEW l \in Launch, WaiterCloses(l)
    PROVE  IInv'
<1> USE DEF MayStray, WaiterCloses, WaiterGoto, WaiterKeeps, Alive, map, stopper, closer
<1>1. TypeOK'
    BY DEF IInv, TypeOK, ReaderPC, WaiterPC, StopPC, ShutdownPC, ChildState, Code
<1>2. StrayShape'
    BY NoLaunchAssumption DEF IInv, TypeOK, StartShape, LoopShape, JoinShape, CodeShape,
           EndShape,
       StrayShape, Met, Stray, Locked, Gone
<1>3. AnswerShape'
    BY NoLaunchAssumption DEF IInv, TypeOK, StartShape, LoopShape, CodeShape, EndShape,
       AnswerShape, WaiterKnows, Locked, Gone
<1>4. StartShape'
    BY DEF IInv, TypeOK, StartShape
<1>5. RushShape'
    BY DEF IInv, TypeOK, RushShape, Locked
<1>6. JoinShape'
    BY DEF IInv, TypeOK, JoinShape
<1>7. CodeShape'
    BY DEF IInv, TypeOK, CodeShape
<1>8. LoopShape' /\ EndShape' /\ NoLaunchForgotten' /\ KillShape' /\ FaultShape'
    BY DEF IInv, LoopShape, EndShape, NoLaunchForgotten, KillShape, FaultShape,
           Locked, Gone, Live
<1> QED
    BY <1>1, <1>2, <1>3, <1>4, <1>5, <1>6, <1>7, <1>8 DEF IInv

(* ... and tells the code.                                                     *)
LEMMA WaiterNotifiesStep ==
    ASSUME IInv, NEW l \in Launch, WaiterNotifies(l)
    PROVE  IInv'
<1> USE DEF WaiterNotifies, WaiterGoto, WaiterKeeps, Alive, map, stopper, closer
<1>1. TypeOK'
    BY DEF IInv, TypeOK, ReaderPC, WaiterPC, StopPC, ShutdownPC, ChildState, Code
<1>2. StrayShape'
    BY NoLaunchAssumption DEF IInv, TypeOK, StartShape, LoopShape, JoinShape, CodeShape,
           EndShape,
       StrayShape, Met, Stray, Locked, Gone
<1>3. AnswerShape'
    BY NoLaunchAssumption DEF IInv, TypeOK, StartShape, LoopShape, CodeShape, EndShape,
       AnswerShape, WaiterKnows, Locked, Gone
<1>4. StartShape'
    BY DEF IInv, TypeOK, StartShape
<1>5. RushShape'
    BY DEF IInv, TypeOK, RushShape, Locked
<1>6. JoinShape'
    BY DEF IInv, TypeOK, JoinShape
<1>7. CodeShape'
    BY DEF IInv, TypeOK, CodeShape
<1>8. LoopShape' /\ EndShape' /\ NoLaunchForgotten' /\ KillShape' /\ FaultShape'
    BY DEF IInv, LoopShape, EndShape, NoLaunchForgotten, KillShape, FaultShape,
           Locked, Gone, Live
<1> QED
    BY <1>1, <1>2, <1>3, <1>4, <1>5, <1>6, <1>7, <1>8 DEF IInv

(* A stop sends SIGTERM if the flag is set ...                                 *)
LEMMA StopTermStep ==
    ASSUME IInv, NEW l \in Launch, StopTerm(l)
    PROVE  IInv'
<1> USE DEF MayStray, StopTerm, StopGoto, StopKeeps, Alive, waiter, closer
<1>1. TypeOK'
    BY DEF IInv, TypeOK, ReaderPC, WaiterPC, StopPC, ShutdownPC, ChildState, Code
<1>2. StrayShape'
    BY NoLaunchAssumption DEF IInv, TypeOK, StartShape, LoopShape, JoinShape, CodeShape,
           EndShape,
       StrayShape, Met, Stray, Locked, Gone
<1>3. AnswerShape'
    BY NoLaunchAssumption DEF IInv, TypeOK, StartShape, LoopShape, CodeShape, EndShape,
       AnswerShape, WaiterKnows, Locked, Gone
<1>4. StartShape'
    BY DEF IInv, TypeOK, StartShape
<1>5. RushShape'
    BY DEF IInv, TypeOK, RushShape, Locked
<1>6. CodeShape'
    BY DEF IInv, TypeOK, CodeShape
<1>7. EndShape'
    BY DEF IInv, TypeOK, EndShape, Gone
<1>8. NoLaunchForgotten'
    BY DEF IInv, TypeOK, NoLaunchForgotten, Live
<1>9. KillShape'
    BY DEF IInv, TypeOK, KillShape
<1>10. LoopShape' /\ JoinShape' /\ FaultShape'
    BY DEF IInv, LoopShape, JoinShape, FaultShape, Locked
<1> QED
    BY <1>1, <1>2, <1>3, <1>4, <1>5, <1>6, <1>7, <1>8, <1>9, <1>10 DEF IInv

(* ... then SIGKILL ...                                                        *)
LEMMA StopKillStep ==
    ASSUME IInv, NEW l \in Launch, StopKill(l)
    PROVE  IInv'
<1> USE DEF MayStray, StopKill, StopGoto, StopKeeps, Alive, Kill, Killable, waiter, closer
<1>1. TypeOK'
    BY DEF IInv, TypeOK, ReaderPC, WaiterPC, StopPC, ShutdownPC, ChildState, Code
<1>2. StrayShape'
    BY NoLaunchAssumption DEF IInv, TypeOK, StartShape, LoopShape, JoinShape, CodeShape,
           EndShape,
       StrayShape, Met, Stray, Locked, Gone
<1>3. AnswerShape'
    BY NoLaunchAssumption DEF IInv, TypeOK, StartShape, LoopShape, CodeShape, EndShape,
       AnswerShape, WaiterKnows, Locked, Gone
<1>4. StartShape'
    BY DEF IInv, TypeOK, StartShape
<1>5. RushShape'
    BY DEF IInv, TypeOK, RushShape, Locked
<1>6. CodeShape'
    BY DEF IInv, TypeOK, StartShape, CodeShape
<1>7. EndShape'
    BY DEF IInv, TypeOK, EndShape, Gone
<1>8. NoLaunchForgotten'
    BY DEF IInv, TypeOK, NoLaunchForgotten, Live
<1>9. KillShape'
    BY DEF IInv, TypeOK, KillShape
<1>10. LoopShape' /\ JoinShape' /\ FaultShape'
    BY DEF IInv, LoopShape, JoinShape, FaultShape, Locked
<1> QED
    BY <1>1, <1>2, <1>3, <1>4, <1>5, <1>6, <1>7, <1>8, <1>9, <1>10 DEF IInv

(* ... wakes the readers ...                                                   *)
LEMMA StopPipeStep ==
    ASSUME IInv, NEW l \in Launch, StopPipe(l)
    PROVE  IInv'
<1> USE DEF MayStray, StopPipe, StopGoto, StopKeeps, Alive, waiter, closer
<1>1. TypeOK'
    BY DEF IInv, TypeOK, ReaderPC, WaiterPC, StopPC, ShutdownPC, ChildState, Code
<1>2. StrayShape'
    BY NoLaunchAssumption DEF IInv, TypeOK, StartShape, LoopShape, JoinShape, CodeShape,
           EndShape,
       StrayShape, Met, Stray, Locked, Gone
<1>3. AnswerShape'
    BY NoLaunchAssumption DEF IInv, TypeOK, StartShape, LoopShape, CodeShape, EndShape,
       AnswerShape, WaiterKnows, Locked, Gone
<1>4. StartShape'
    BY DEF IInv, TypeOK, StartShape
<1>5. RushShape'
    BY DEF IInv, TypeOK, RushShape, Locked
<1>6. EndShape'
    BY DEF IInv, TypeOK, EndShape, Gone
<1>7. NoLaunchForgotten'
    BY DEF IInv, TypeOK, NoLaunchForgotten, Live
<1>8. KillShape'
    BY DEF IInv, TypeOK, KillShape
<1>9. LoopShape' /\ JoinShape' /\ CodeShape' /\ FaultShape'
    BY DEF IInv, LoopShape, JoinShape, CodeShape, FaultShape, Locked
<1> QED
    BY <1>1, <1>2, <1>3, <1>4, <1>5, <1>6, <1>7, <1>8, <1>9 DEF IInv

(* ... goes to join them ...                                                   *)
LEMMA StopEntersJoinStep ==
    ASSUME IInv, NEW l \in Launch, StopEntersJoin(l)
    PROVE  IInv'
<1> USE DEF StopEntersJoin, StopGoto, StopKeeps, Alive, JoinOrClose, EntersJoin,
            Joining, launch, waiter, closer
<1>1. TypeOK'
    BY DEF IInv, TypeOK, ReaderPC, WaiterPC, StopPC, ShutdownPC, ChildState, Code
<1>2. StrayShape'
    BY NoLaunchAssumption DEF IInv, TypeOK, StartShape, LoopShape, JoinShape, CodeShape,
           EndShape,
       StrayShape, Met, Stray, Locked, Gone
<1>3. AnswerShape'
    BY NoLaunchAssumption DEF IInv, TypeOK, StartShape, LoopShape, CodeShape, EndShape,
       AnswerShape, WaiterKnows, Locked, Gone
<1>4. StartShape'
    BY DEF IInv, TypeOK, StartShape
<1>5. RushShape'
    BY DEF IInv, TypeOK, RushShape, Locked
<1>6. EndShape'
    BY DEF IInv, TypeOK, EndShape, Gone
<1>7. NoLaunchForgotten'
    BY DEF IInv, TypeOK, NoLaunchForgotten, Live
<1>8. KillShape'
    BY DEF IInv, TypeOK, KillShape
<1>9. FaultShape'
  <2>1. fault' # fault => l \in rushed
    <3>1. l \notin rushed => wpc[l] = "done"
        BY DEF IInv, TypeOK, RushShape
    <3>2. at # l
        BY NoLaunchAssumption DEF IInv, TypeOK, StartShape, LoopShape
    <3> QED
        BY <3>1, <3>2 DEF EntersJoin, Joining
  <2> QED
      BY <2>1 DEF IInv, FaultShape
<1>10. LoopShape' /\ JoinShape' /\ CodeShape'
    BY DEF IInv, LoopShape, JoinShape, CodeShape, Locked
<1> QED
    BY <1>1, <1>2, <1>3, <1>4, <1>5, <1>6, <1>7, <1>8, <1>9, <1>10 DEF IInv

(* ... and does after their end.                                               *)
LEMMA StopJoinsStep ==
    ASSUME IInv, NEW l \in Launch, StopJoins(l)
    PROVE  IInv'
<1> USE DEF StopJoins, StopGoto, StopKeeps, Alive, Ended, waiter, closer
<1>1. TypeOK'
    BY DEF IInv, TypeOK, ReaderPC, WaiterPC, StopPC, ShutdownPC, ChildState, Code
<1>2. StrayShape'
    BY NoLaunchAssumption DEF IInv, TypeOK, StartShape, LoopShape, JoinShape, CodeShape,
           EndShape,
       StrayShape, Met, Stray, Locked, Gone
<1>3. AnswerShape'
    BY NoLaunchAssumption DEF IInv, TypeOK, StartShape, LoopShape, CodeShape, EndShape,
       AnswerShape, WaiterKnows, Locked, Gone
<1>4. StartShape'
    BY DEF IInv, TypeOK, StartShape
<1>5. RushShape'
    BY DEF IInv, TypeOK, RushShape, Locked
<1>6. JoinShape'
    BY DEF IInv, TypeOK, JoinShape
<1>7. EndShape'
    BY DEF IInv, TypeOK, EndShape, Gone
<1>8. NoLaunchForgotten'
    BY DEF IInv, TypeOK, NoLaunchForgotten, Live
<1>9. KillShape'
    BY DEF IInv, TypeOK, KillShape
<1>10. LoopShape' /\ CodeShape' /\ FaultShape'
    BY DEF IInv, LoopShape, CodeShape, FaultShape, Locked
<1> QED
    BY <1>1, <1>2, <1>3, <1>4, <1>5, <1>6, <1>7, <1>8, <1>9, <1>10 DEF IInv

(* It closes the pipes ...                                                     *)
LEMMA StopClosesStep ==
    ASSUME IInv, NEW l \in Launch, StopCloses(l)
    PROVE  IInv'
<1> USE DEF MayStray, StopCloses, StopGoto, StopKeeps, Alive, waiter, closer
<1>1. TypeOK'
    BY DEF IInv, TypeOK, ReaderPC, WaiterPC, StopPC, ShutdownPC, ChildState, Code
<1>2. StrayShape'
    BY NoLaunchAssumption DEF IInv, TypeOK, StartShape, LoopShape, JoinShape, CodeShape,
           EndShape,
       StrayShape, Met, Stray, Locked, Gone
<1>3. AnswerShape'
    BY NoLaunchAssumption DEF IInv, TypeOK, StartShape, LoopShape, CodeShape, EndShape,
       AnswerShape, WaiterKnows, Locked, Gone
<1>4. StartShape'
    BY DEF IInv, TypeOK, StartShape
<1>5. RushShape'
    BY DEF IInv, TypeOK, RushShape, Locked
<1>6. EndShape'
    BY DEF IInv, TypeOK, EndShape, Gone
<1>7. NoLaunchForgotten'
    BY DEF IInv, TypeOK, NoLaunchForgotten, Live
<1>8. KillShape'
    BY DEF IInv, TypeOK, KillShape
<1>9. LoopShape' /\ JoinShape' /\ CodeShape' /\ FaultShape'
    BY DEF IInv, LoopShape, JoinShape, CodeShape, FaultShape, Locked
<1> QED
    BY <1>1, <1>2, <1>3, <1>4, <1>5, <1>6, <1>7, <1>8, <1>9 DEF IInv

(* ... reaps the process and destroys the launch.                              *)
LEMMA StopReapsStep ==
    ASSUME IInv, NEW l \in Launch, StopReaps(l)
    PROVE  IInv'
<1> USE DEF MayStray, StopReaps, StopGoto, StopKeeps, Alive, Reaped, Waited, Gone, waiter,
            closer
<1>1. TypeOK'
    BY DEF IInv, TypeOK, ReaderPC, WaiterPC, StopPC, ShutdownPC, ChildState, Code
<1>2. StrayShape'
    BY NoLaunchAssumption DEF IInv, TypeOK, StartShape, LoopShape, JoinShape, CodeShape,
           EndShape,
       StrayShape, Met, Stray, Locked, Gone
<1>3. AnswerShape'
    BY NoLaunchAssumption DEF IInv, TypeOK, StartShape, LoopShape, CodeShape, EndShape,
       AnswerShape, WaiterKnows, Locked, Gone
<1>4. StartShape'
    BY DEF IInv, TypeOK, StartShape
<1>5. RushShape'
    BY DEF IInv, TypeOK, RushShape, Locked
<1>6. CodeShape'
    BY DEF IInv, TypeOK, RushShape, Locked, CodeShape
<1>7. EndShape'
    BY DEF IInv, TypeOK, EndShape
<1>8. NoLaunchForgotten'
    BY DEF IInv, TypeOK, NoLaunchForgotten, Live
<1>9. KillShape'
    BY DEF IInv, TypeOK, KillShape
<1>10. LoopShape' /\ JoinShape' /\ FaultShape'
    BY DEF IInv, LoopShape, JoinShape, FaultShape, Locked
<1> QED
    BY <1>1, <1>2, <1>3, <1>4, <1>5, <1>6, <1>7, <1>8, <1>9, <1>10 DEF IInv

(* A restart begins.                                                           *)
LEMMA ShutdownTermStep ==
    ASSUME IInv, ShutdownTerm
    PROVE  IInv'
<1> USE DEF MayStray, ShutdownTerm, ShutdownGoto, ShutdownKeeps, Alive, Unreported, waiter,
            stopper
<1>1. TypeOK'
    BY DEF IInv, TypeOK, ReaderPC, WaiterPC, StopPC, ShutdownPC, ChildState, Code
<1>2. StrayShape'
    BY NoLaunchAssumption DEF IInv, TypeOK, StartShape, LoopShape, JoinShape, CodeShape,
           EndShape,
       StrayShape, Met, Stray, Locked, Gone
<1>3. AnswerShape'
    BY NoLaunchAssumption DEF IInv, TypeOK, StartShape, LoopShape, CodeShape, EndShape,
       AnswerShape, WaiterKnows, Locked, Gone
<1>4. StartShape'
    BY DEF IInv, TypeOK, StartShape
<1>5. LoopShape'
    BY DEF IInv, TypeOK, LoopShape, Locked
<1>6. RushShape'
    BY DEF IInv, TypeOK, RushShape, Locked
<1>7. CodeShape'
    BY DEF IInv, TypeOK, CodeShape
<1>8. EndShape'
    BY DEF IInv, TypeOK, EndShape, Gone
<1>9. NoLaunchForgotten'
    BY DEF IInv, TypeOK, NoLaunchForgotten, Live
<1>10. KillShape'
    BY DEF IInv, TypeOK, KillShape
<1>11. FaultShape'
    BY DEF IInv, TypeOK, FaultShape
<1>12. JoinShape'
    BY DEF IInv, JoinShape
<1> QED
    BY <1>1, <1>2, <1>3, <1>4, <1>5, <1>6, <1>7, <1>8, <1>9, <1>10, <1>11, <1>12 DEF IInv

(* It kills what it finds.                                                     *)
LEMMA ShutdownKillStep ==
    ASSUME IInv, ShutdownKill
    PROVE  IInv'
<1> USE DEF MayStray, ShutdownKill, ShutdownGoto, ShutdownKeeps, Alive, Kill, Killable,
            Unreported, waiter, stopper
<1>1. TypeOK'
    BY DEF IInv, TypeOK, ReaderPC, WaiterPC, StopPC, ShutdownPC, ChildState, Code
<1>2. StrayShape'
    BY NoLaunchAssumption DEF IInv, TypeOK, StartShape, LoopShape, JoinShape, CodeShape,
           EndShape,
       StrayShape, Met, Stray, Locked, Gone
<1>3. AnswerShape'
    BY NoLaunchAssumption DEF IInv, TypeOK, StartShape, LoopShape, CodeShape, EndShape,
       AnswerShape, WaiterKnows, Locked, Gone
<1>4. StartShape'
    BY DEF IInv, TypeOK, StartShape
<1>5. LoopShape'
    BY DEF IInv, TypeOK, LoopShape, Locked
<1>6. RushShape'
    BY DEF IInv, TypeOK, RushShape, Locked
<1>7. CodeShape'
    BY DEF IInv, TypeOK, CodeShape
<1>8. EndShape'
    BY DEF IInv, TypeOK, EndShape, Gone
<1>9. NoLaunchForgotten'
    BY DEF IInv, TypeOK, NoLaunchForgotten, Live
<1>10. KillShape'
    BY DEF IInv, TypeOK, KillShape
<1>11. FaultShape'
    BY DEF IInv, TypeOK, FaultShape
<1>12. JoinShape'
    BY DEF IInv, JoinShape
<1> QED
    BY <1>1, <1>2, <1>3, <1>4, <1>5, <1>6, <1>7, <1>8, <1>9, <1>10, <1>11, <1>12 DEF IInv

(* It takes the mutex for one of its loops.                                    *)
LEMMA ShutdownLocksStep ==
    ASSUME IInv, ShutdownLocks
    PROVE  IInv'
<1> USE DEF ShutdownLocks, ShutdownGoto, ShutdownKeeps, Alive, Unreported, launch,
            waiter, stopper
<1>1. TypeOK'
    BY DEF IInv, TypeOK, ReaderPC, WaiterPC, StopPC, ShutdownPC, ChildState, Code
<1>2. StrayShape'
    BY NoLaunchAssumption DEF IInv, TypeOK, StartShape, LoopShape, JoinShape, CodeShape,
           EndShape,
       StrayShape, Met, Stray, Locked, Gone
<1>3. AnswerShape'
    BY NoLaunchAssumption DEF IInv, TypeOK, StartShape, LoopShape, CodeShape, EndShape,
       AnswerShape, WaiterKnows, Locked, Gone
<1>4. LoopShape'
    BY DEF IInv, TypeOK, LoopShape, Locked
<1>5. RushShape'
    BY DEF IInv, TypeOK, RushShape, Locked
<1>6. CodeShape'
    BY DEF IInv, TypeOK, CodeShape
<1>7. EndShape'
    BY DEF IInv, TypeOK, EndShape, Gone
<1>8. KillShape'
    BY DEF IInv, TypeOK, KillShape
<1>9. FaultShape'
    BY DEF IInv, TypeOK, FaultShape
<1>10. StartShape' /\ JoinShape' /\ NoLaunchForgotten'
    BY DEF IInv, StartShape, JoinShape, NoLaunchForgotten, Live
<1> QED
    BY <1>1, <1>2, <1>3, <1>4, <1>5, <1>6, <1>7, <1>8, <1>9, <1>10 DEF IInv

(* It goes to join the readers of a launch ...                                 *)
LEMMA ShutdownEntersJoinStep ==
    ASSUME IInv, NEW l \in Launch, ShutdownEntersJoin(l)
    PROVE  IInv'
<1> USE DEF ShutdownEntersJoin, ShutdownGoto, ShutdownKeeps, Alive, EntersJoin,
            Joining, launch, waiter, stopper
<1>1. TypeOK'
    BY DEF IInv, TypeOK, ReaderPC, WaiterPC, StopPC, ShutdownPC, ChildState, Code
<1>2. StrayShape'
    BY NoLaunchAssumption DEF IInv, TypeOK, StartShape, LoopShape, JoinShape, CodeShape,
           EndShape,
       StrayShape, Met, Stray, Locked, Gone
<1>3. AnswerShape'
    BY NoLaunchAssumption DEF IInv, TypeOK, StartShape, LoopShape, CodeShape, EndShape,
       AnswerShape, WaiterKnows, Locked, Gone
<1>4. LoopShape'
    BY DEF IInv, TypeOK, LoopShape, Locked
<1>5. EndShape'
    BY DEF IInv, TypeOK, EndShape, Gone
<1>6. NoLaunchForgotten'
    BY DEF IInv, TypeOK, NoLaunchForgotten, Live
<1>7. FaultShape'
  <2>1. fault' # fault => l \in rushed
    <3>1. l \in launches /\ at # l
        BY NoLaunchAssumption DEF IInv, TypeOK
    <3>2. stop[l] = "none"
        BY <3>1 DEF IInv, StartShape
    <3>3. l \notin rushed => wpc[l] = "done"
        BY <3>1 DEF IInv, TypeOK, RushShape, Locked
    <3> QED
        BY <3>1, <3>2, <3>3 DEF EntersJoin, Joining
  <2> QED
      BY <2>1 DEF IInv, FaultShape
<1>8. StartShape' /\ RushShape' /\ JoinShape' /\ CodeShape' /\ KillShape'
    BY DEF IInv, StartShape, RushShape, JoinShape, CodeShape, KillShape, Locked
<1> QED
    BY <1>1, <1>2, <1>3, <1>4, <1>5, <1>6, <1>7, <1>8 DEF IInv

(* ... and does after their end.                                               *)
LEMMA ShutdownJoinsStep ==
    ASSUME IInv, NEW l \in Launch, ShutdownJoins(l)
    PROVE  IInv'
<1> USE DEF ShutdownJoins, ShutdownGoto, ShutdownKeeps, Alive, Ended, waiter,
            stopper
<1>1. TypeOK'
    BY DEF IInv, TypeOK, ReaderPC, WaiterPC, StopPC, ShutdownPC, ChildState, Code
<1>2. StrayShape'
    BY NoLaunchAssumption DEF IInv, TypeOK, StartShape, LoopShape, JoinShape, CodeShape,
           EndShape,
       StrayShape, Met, Stray, Locked, Gone
<1>3. AnswerShape'
    BY NoLaunchAssumption DEF IInv, TypeOK, StartShape, LoopShape, CodeShape, EndShape,
       AnswerShape, WaiterKnows, Locked, Gone
<1>4. StartShape'
  <2>1. l \in launches
      BY NoLaunchAssumption DEF IInv, LoopShape
  <2> QED
      BY <2>1 DEF IInv, TypeOK, StartShape
<1>5. LoopShape'
    BY DEF IInv, TypeOK, LoopShape, Locked
<1>6. JoinShape'
    BY DEF IInv, TypeOK, JoinShape
<1>7. EndShape'
    BY DEF IInv, TypeOK, EndShape, Gone
<1>8. RushShape' /\ CodeShape' /\ NoLaunchForgotten' /\ KillShape' /\ FaultShape'
    BY DEF IInv, RushShape, CodeShape, NoLaunchForgotten, KillShape, FaultShape,
           Locked, Live
<1> QED
    BY <1>1, <1>2, <1>3, <1>4, <1>5, <1>6, <1>7, <1>8 DEF IInv

(* All are joined.                                                             *)
LEMMA ShutdownUnlocksStep ==
    ASSUME IInv, ShutdownUnlocks
    PROVE  IInv'
<1> USE DEF ShutdownUnlocks, ShutdownGoto, ShutdownKeeps, Alive, launch, waiter,
            stopper
<1>1. TypeOK'
    BY DEF IInv, TypeOK, ReaderPC, WaiterPC, StopPC, ShutdownPC, ChildState, Code
<1>2. StrayShape'
    BY NoLaunchAssumption DEF IInv, TypeOK, StartShape, LoopShape, JoinShape, CodeShape,
           EndShape,
       StrayShape, Met, Stray, Locked, Gone
<1>3. AnswerShape'
    BY NoLaunchAssumption DEF IInv, TypeOK, StartShape, LoopShape, CodeShape, EndShape,
       AnswerShape, WaiterKnows, Locked, Gone
<1>4. LoopShape'
    BY DEF IInv, TypeOK, LoopShape, Locked
<1>5. RushShape'
    BY DEF IInv, TypeOK, RushShape, Locked
<1>6. EndShape'
    BY DEF IInv, TypeOK, EndShape, Gone
<1>7. KillShape'
    BY DEF IInv, TypeOK, KillShape
<1>8. StartShape' /\ JoinShape' /\ CodeShape' /\ NoLaunchForgotten' /\ FaultShape'
    BY DEF IInv, StartShape, JoinShape, CodeShape, NoLaunchForgotten, FaultShape,
           Live
<1> QED
    BY <1>1, <1>2, <1>3, <1>4, <1>5, <1>6, <1>7, <1>8 DEF IInv

(* It closes the pipes of a launch ...                                         *)
LEMMA ShutdownClosesStep ==
    ASSUME IInv, NEW l \in Launch, ShutdownCloses(l)
    PROVE  IInv'
<1> USE DEF MayStray, ShutdownCloses, ShutdownGoto, ShutdownKeeps, Alive, waiter, stopper
<1>1. TypeOK'
    BY DEF IInv, TypeOK, ReaderPC, WaiterPC, StopPC, ShutdownPC, ChildState, Code
<1>2. StrayShape'
    BY NoLaunchAssumption DEF IInv, TypeOK, StartShape, LoopShape, JoinShape, CodeShape,
           EndShape,
       StrayShape, Met, Stray, Locked, Gone
<1>3. AnswerShape'
    BY NoLaunchAssumption DEF IInv, TypeOK, StartShape, LoopShape, CodeShape, EndShape,
       AnswerShape, WaiterKnows, Locked, Gone
<1>4. LoopShape'
    BY DEF IInv, TypeOK, LoopShape, Locked
<1>5. EndShape'
    BY NoLaunchAssumption DEF IInv, TypeOK, EndShape, Gone
<1>6. /\ StartShape' /\ RushShape' /\ JoinShape' /\ CodeShape'
      /\ NoLaunchForgotten' /\ KillShape' /\ FaultShape'
    BY DEF IInv, StartShape, RushShape, JoinShape, CodeShape, NoLaunchForgotten,
           KillShape, FaultShape, Locked, Live
<1> QED
    BY <1>1, <1>2, <1>3, <1>4, <1>5, <1>6 DEF IInv

(* ... and waits for the process.                                              *)
LEMMA ShutdownReapsStep ==
    ASSUME IInv, NEW l \in Launch, ShutdownReaps(l)
    PROVE  IInv'
<1> USE DEF MayStray, ShutdownReaps, ShutdownGoto, ShutdownKeeps, Alive, Gone, waiter, stopper
<1>1. TypeOK'
    BY DEF IInv, TypeOK, ReaderPC, WaiterPC, StopPC, ShutdownPC, ChildState, Code
<1>2. StrayShape'
    BY NoLaunchAssumption DEF IInv, TypeOK, StartShape, LoopShape, JoinShape, CodeShape,
           EndShape,
       StrayShape, Met, Stray, Locked, Gone
<1>3. AnswerShape'
    BY NoLaunchAssumption DEF IInv, TypeOK, StartShape, LoopShape, CodeShape, EndShape,
       AnswerShape, WaiterKnows, Locked, Gone
<1>4. StartShape'
    BY DEF IInv, TypeOK, StartShape
<1>5. LoopShape'
    BY DEF IInv, TypeOK, LoopShape, Locked
<1>6. CodeShape'
  <2>1. l \notin rushed => wpc[l] = "done"
      BY NoLaunchAssumption DEF IInv, TypeOK, RushShape, LoopShape, Locked
  <2> QED
      BY <2>1 DEF IInv, TypeOK, CodeShape
<1>7. EndShape'
    BY DEF IInv, TypeOK, EndShape
<1>8. NoLaunchForgotten'
    BY DEF IInv, TypeOK, NoLaunchForgotten, Live
<1>9. KillShape'
    BY DEF IInv, TypeOK, KillShape
<1>10. RushShape' /\ JoinShape' /\ FaultShape'
    BY DEF IInv, RushShape, JoinShape, FaultShape, Locked
<1> QED
    BY <1>1, <1>2, <1>3, <1>4, <1>5, <1>6, <1>7, <1>8, <1>9, <1>10 DEF IInv

(* It empties the map.                                                         *)
LEMMA ShutdownClearsStep ==
    ASSUME IInv, ShutdownClears
    PROVE  IInv'
<1> USE DEF ShutdownClears, ShutdownGoto, ShutdownKeeps, Alive, waiter, stopper
<1>1. TypeOK'
    BY DEF IInv, TypeOK, ReaderPC, WaiterPC, StopPC, ShutdownPC, ChildState, Code
<1>2. StrayShape'
    BY NoLaunchAssumption DEF IInv, TypeOK, StartShape, LoopShape, JoinShape, CodeShape,
           EndShape,
       StrayShape, Met, Stray, Locked, Gone
<1>3. AnswerShape'
    BY NoLaunchAssumption DEF IInv, TypeOK, StartShape, LoopShape, CodeShape, EndShape,
       AnswerShape, WaiterKnows, Locked, Gone
<1>4. StartShape'
    BY DEF IInv, TypeOK, StartShape
<1>5. LoopShape'
    BY DEF IInv, TypeOK, LoopShape, Locked
<1>6. RushShape'
    BY DEF IInv, TypeOK, RushShape, Locked
<1>7. EndShape'
    BY DEF IInv, TypeOK, EndShape, Gone
<1>8. NoLaunchForgotten'
  <2>1. \A m \in launches : Gone(m)
      BY NoLaunchAssumption DEF IInv, TypeOK, EndShape
  <2> QED
      BY <2>1 DEF IInv, TypeOK, NoLaunchForgotten, Live, Gone
<1>9. KillShape'
    BY DEF IInv, TypeOK, KillShape
<1>10. FaultShape'
    BY DEF IInv, TypeOK, RushShape, Locked, JoinShape, LoopShape, FaultShape
<1>11. JoinShape' /\ CodeShape'
    BY DEF IInv, JoinShape, CodeShape
<1> QED
    BY <1>1, <1>2, <1>3, <1>4, <1>5, <1>6, <1>7, <1>8, <1>9, <1>10, <1>11 DEF IInv

(* The process ends ...                                                        *)
LEMMA ProcessExitsStep ==
    ASSUME IInv, NEW l \in Launch, ProcessExits(l)
    PROVE  IInv'
<1> USE DEF ProcessExits, ProcessKeeps, Alive, map, waiter, stopper, closer
<1>1. TypeOK'
    BY DEF IInv, TypeOK, ReaderPC, WaiterPC, StopPC, ShutdownPC, ChildState, Code
<1>2. StrayShape'
    BY NoLaunchAssumption DEF IInv, TypeOK, StartShape, LoopShape, JoinShape, CodeShape,
           EndShape,
       StrayShape, Met, Stray, Locked, Gone
<1>3. AnswerShape'
    BY NoLaunchAssumption DEF IInv, TypeOK, StartShape, LoopShape, CodeShape, EndShape,
       AnswerShape, WaiterKnows, Locked, Gone
<1>4. StartShape'
    BY DEF IInv, TypeOK, StartShape
<1>5. CodeShape'
    BY DEF IInv, TypeOK, CodeShape
<1>6. EndShape'
    BY DEF IInv, TypeOK, EndShape, Gone
<1>7. NoLaunchForgotten'
    BY DEF IInv, TypeOK, NoLaunchForgotten, Live
<1>8. KillShape'
    BY DEF IInv, TypeOK, KillShape
<1>9. LoopShape' /\ RushShape' /\ JoinShape' /\ FaultShape'
    BY DEF IInv, LoopShape, RushShape, JoinShape, FaultShape, Locked
<1> QED
    BY <1>1, <1>2, <1>3, <1>4, <1>5, <1>6, <1>7, <1>8, <1>9 DEF IInv

(* ... or dies.                                                                *)
LEMMA ProcessDiesStep ==
    ASSUME IInv, NEW l \in Launch, ProcessDies(l)
    PROVE  IInv'
<1> USE DEF ProcessDies, ProcessKeeps, Alive, map, waiter, stopper, closer
<1>1. TypeOK'
    BY DEF IInv, TypeOK, ReaderPC, WaiterPC, StopPC, ShutdownPC, ChildState, Code
<1>2. StrayShape'
    BY NoLaunchAssumption DEF IInv, TypeOK, StartShape, LoopShape, JoinShape, CodeShape,
           EndShape,
       StrayShape, Met, Stray, Locked, Gone
<1>3. AnswerShape'
    BY NoLaunchAssumption DEF IInv, TypeOK, StartShape, LoopShape, CodeShape, EndShape,
       AnswerShape, WaiterKnows, Locked, Gone
<1>4. StartShape'
    BY DEF IInv, TypeOK, StartShape
<1>5. CodeShape'
    BY DEF IInv, TypeOK, CodeShape
<1>6. EndShape'
    BY DEF IInv, TypeOK, EndShape, Gone
<1>7. NoLaunchForgotten'
    BY DEF IInv, TypeOK, NoLaunchForgotten, Live
<1>8. KillShape'
    BY DEF IInv, TypeOK, KillShape
<1>9. LoopShape' /\ RushShape' /\ JoinShape' /\ FaultShape'
    BY DEF IInv, LoopShape, RushShape, JoinShape, FaultShape, Locked
<1> QED
    BY <1>1, <1>2, <1>3, <1>4, <1>5, <1>6, <1>7, <1>8, <1>9 DEF IInv

-----------------------------------------------------------------------------
(* The manager starts with no process, no thread and nothing told.             *)
LEMMA InitIInv == Init => IInv
<1> SUFFICES ASSUME Init PROVE IInv
    OBVIOUS
<1> USE DEF Init
<1>1. TypeOK
    BY DEF TypeOK, ReaderPC, WaiterPC, StopPC, ShutdownPC, ChildState, Code
<1>2. StartShape /\ LoopShape /\ RushShape /\ JoinShape /\ CodeShape
    BY DEF StartShape, LoopShape, RushShape, JoinShape, CodeShape, Locked
<1>3. EndShape /\ NoLaunchForgotten /\ KillShape /\ FaultShape
    BY DEF EndShape, NoLaunchForgotten, KillShape, FaultShape, Live, Gone
<1>4. StrayShape /\ AnswerShape
    BY DEF StrayShape, AnswerShape, Met
<1> QED
    BY <1>1, <1>2, <1>3, <1>4 DEF IInv

(* A step that changes nothing keeps every part.                               *)
LEMMA StutterStep ==
    ASSUME IInv, UNCHANGED vars
    PROVE  IInv'
<1> USE DEF IInv, vars, map, launch, waiter, stopper, closer
<1>1. TypeOK'
    BY DEF TypeOK
<1>2. StartShape' /\ LoopShape' /\ RushShape' /\ JoinShape' /\ CodeShape'
    BY DEF StartShape, LoopShape, RushShape, JoinShape, CodeShape, Locked
<1>3. EndShape' /\ NoLaunchForgotten' /\ KillShape' /\ FaultShape'
    BY DEF EndShape, NoLaunchForgotten, KillShape, FaultShape, Live, Gone, Alive
<1>4. StrayShape' /\ AnswerShape'
    BY DEF StrayShape, AnswerShape, WaiterKnows, Met, Stray
<1> QED
    BY <1>1, <1>2, <1>3, <1>4

(* The invariant is inductive: it holds of every reachable state.              *)
THEOREM Inductive == Spec => []IInv
<1>1. IInv /\ [Next]_vars => IInv'
  <2> SUFFICES ASSUME IInv, [Next]_vars PROVE IInv'
      OBVIOUS
  <2>1. CASE ShutdownTerm
      BY <2>1, ShutdownTermStep
  <2>2. CASE Shutdown
      BY <2>2, ShutdownKillStep, ShutdownLocksStep, ShutdownUnlocksStep,
         ShutdownClearsStep, ShutdownEntersJoinStep, ShutdownJoinsStep,
         ShutdownClosesStep, ShutdownReapsStep DEF Shutdown
  <2>3. ASSUME NEW l \in Launch, StartLaunch(l) \/ SpawnFails(l) \/ StopTakes(l)
        PROVE  IInv'
      BY <2>3, StartLaunchStep, SpawnFailsStep, StopTakesStep
  <2>4. ASSUME NEW l \in Launch, Reader(l) PROVE IInv'
      BY <2>4, ReaderCheckStep, ReaderSelectStep, ReaderReadStep DEF Reader
  <2>5. ASSUME NEW l \in Launch, Waiter(l) PROVE IInv'
      BY <2>5, WaiterReapsStep, WaiterFlagStep, WaiterEntersJoinStep, WaiterJoinsStep,
         WaiterClosesStep, WaiterNotifiesStep, WaiterTouchesFreedStep DEF Waiter
  <2>6. ASSUME NEW l \in Launch, Stop(l) PROVE IInv'
      BY <2>6, StopTermStep, StopKillStep, StopPipeStep, StopEntersJoinStep,
         StopJoinsStep, StopClosesStep, StopReapsStep DEF Stop
  <2>7. ASSUME NEW l \in Launch, ProcessExits(l) \/ ProcessDies(l) PROVE IInv'
      BY <2>7, ProcessExitsStep, ProcessDiesStep
  <2>8. CASE Rests \/ UNCHANGED vars
      BY <2>8, StutterStep DEF Rests
  <2> QED
      BY <2>1, <2>2, <2>3, <2>4, <2>5, <2>6, <2>7, <2>8 DEF Next
<1> QED
    BY <1>1, InitIInv, PTL DEF Spec

-----------------------------------------------------------------------------
(* Every variable has its type, with any number of launches.                   *)
THEOREM TypeCorrect == Spec => []TypeOK
<1>1. IInv => TypeOK
    BY DEF IInv
<1> QED
    BY <1>1, Inductive, PTL

(* A memory error needs a launch that was stopped or restarted before it was   *)
(* reported, and what is done to another's process or file is done with the    *)
(* numbers of one that was stopped or met by a restart.  A launch left alone   *)
(* is told of with the code it ended with, after its readers; of a stop and    *)
(* the waiter one has that code.                                               *)
THEOREM OnlyRushBreaks == Spec => []RushIsNeeded
<1>1. IInv => RushIsNeeded
  <2> SUFFICES ASSUME IInv PROVE RushIsNeeded
      OBVIOUS
  <2>1. /\ fault \notin {"none", "foreign"} => rushed # {}
        /\ fault = "foreign" => \E l \in Launch : Met(l) /\ Stray(l)
      BY DEF IInv, FaultShape, StrayShape
  <2>2. ASSUME NEW l \in Launch, told[l] # "none", l \notin rushed
        PROVE  told[l] = code[l] /\ rpc[l] = "done"
      BY <2>2 DEF IInv, CodeShape, JoinShape
  <2>3. ASSUME NEW l \in Launch, answer[l] # "none"
        PROVE  code[l] \in {answer[l], got[l]}
      BY <2>3 DEF IInv, AnswerShape, WaiterKnows
  <2> QED
      BY <2>1, <2>2, <2>3 DEF RushIsNeeded
<1> QED
    BY <1>1, Inductive, PTL

(* A live launch is in the map or being stopped.                               *)
THEOREM AllInReach == Spec => []NoLaunchForgotten
<1>1. IInv => NoLaunchForgotten
    BY DEF IInv
<1> QED
    BY <1>1, Inductive, PTL

(* Before a restart, a stop that waits for a process has sent it SIGKILL.      *)
THEOREM StopKills == Spec => []StopHasKilled
<1>1. IInv => StopHasKilled
  <2> SUFFICES ASSUME IInv, NEW l \in Launch, spc = "idle", stop[l] = "reap",
                      child[l] \in {"up", "term"}
               PROVE  FALSE
      BY DEF StopHasKilled
  <2> QED
      BY DEF IInv, KillShape
<1> QED
    BY <1>1, Inductive, PTL

=============================================================================
