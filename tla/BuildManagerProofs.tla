-------------------------- MODULE BuildManagerProofs --------------------------
(* Proofs about the builds of BuildManager, for any builds and any output: one *)
(* runs at a time and its status is true until a restart interferes, what      *)
(* goes wrong in a restart needs a build that overlaps it, and until then the  *)
(* builds are those of BuildSlot.                                              *)
EXTENDS BuildManager, TLAPS

Reaping == {"none", "start", "wait"}
Verdict(b) == IF got[b] = "ok" THEN "completed" ELSE "failed"
Waited == spc \in {"close", "done"}

(* Nothing has happened to a build that was not started.                       *)
StartShape ==
    \A b \in Build :
        /\ (wpc[b] = "none" <=> child[b] = "none")
        /\ (rpc[b] = "none" <=> child[b] = "none")
        /\ b \in builds => child[b] # "none"
        /\ child[b] # "none" => b \in issued
        /\ freed[b] => child[b] # "none" /\ spc = "done"
        /\ child[b] = "none" => ~running[b] /\ ~joined[b]

(* The waiter has reaped the process when it is past waitpid, and so has       *)
(* nobody else before the second loop of shutdown.                             *)
ReapShape ==
    \A b \in Build :
        /\ wpc[b] \notin Reaping => child[b] = "reaped"
        /\ child[b] = "reaped" /\ ~Waited => wpc[b] \notin Reaping

(* A process that has ended has a code, which is what the waiter has got.      *)
CodeShape ==
    \A b \in Build :
        /\ Gone(b) => code[b] \in {"ok", "bad"}
        /\ child[b] = "killed" => code[b] = "bad"
        /\ wpc[b] \notin Reaping /\ ~Waited => got[b] = code[b]

(* What is told is the verdict on that code.                                   *)
ToldShape ==
    \A b \in Build :
        /\ wpc[b] \in {"notify", "done"} => status[b] = Verdict(b)
        /\ wpc[b] = "done" => told[b] = Verdict(b)
        /\ wpc[b] # "done" => told[b] = "none"

(* The readers are joined after their end, and before the waiter goes on.      *)
JoinShape ==
    \A b \in Build :
        /\ joined[b] => rpc[b] = "done"
        /\ wpc[b] \in {"close", "status", "notify", "done"} => joined[b]

(* Before a restart the flag says truly which build lives, and one does.       *)
IdleShape ==
    spc = "idle" =>
        /\ ~calm /\ ~late /\ fault = "none"
        /\ \A b \in Build :
              /\ child[b] \notin {"term", "killed"}
              /\ Live(b) => running[b]
              /\ running[b] => b \in builds
        /\ \A b, c \in Build : running[b] /\ running[c] => b = c

(* Before its second loop shutdown has joined, or is about to, every build it  *)
(* found, and without a late one that is every build.                          *)
CloserShape ==
    ~late =>
        /\ spc # "done" => \A b \in Build : child[b] # "none" => b \in builds
        /\ spc = "join" => \A b \in builds : joined[b] \/ b \in todo \/ b = at
        /\ spc \in {"lock2", "close"} => \A b \in builds : joined[b]
        /\ fault # "terminate"

(* If all were reported before, no waiter is left to meet.                     *)
CalmShape ==
    ~Overlap => /\ fault \in {"none", "foreign"}
                /\ \A b \in Build : wpc[b] \in {"none", "done"}

(* Before its second loop only waiters that are past the join have closed      *)
(* descriptors, and only a reaped build has numbers another may have.          *)
StrayShape ==
    /\ \A b \in Build : fds[b] = "closed" /\ ~Waited => wpc[b] \in {"status", "notify", "done"}
    /\ fault = "foreign" => spc # "idle" /\ ReapedOrWaited

IInv ==
    /\ TypeOK
    /\ StartShape
    /\ ReapShape
    /\ CodeShape
    /\ ToldShape
    /\ JoinShape
    /\ IdleShape
    /\ CloserShape
    /\ CalmShape
    /\ StrayShape

-----------------------------------------------------------------------------
(* start_build, of a build that was nothing before.                            *)
LEMMA StartBuildStep ==
    ASSUME IInv, NEW b \in Build, StartBuild(b)
    PROVE  IInv'
<1> USE DEF StartBuild, Request, Busy, Locked, closer
<1>1. TypeOK'
    BY DEF IInv, TypeOK, WaiterPC, ReaderPC, ShutdownPC, ChildState, Status, Faults
<1>2. StrayShape'
    BY DEF IInv, TypeOK, StartShape, ReapShape, JoinShape, StrayShape, Reaping,
           Waited, ReapedOrWaited, Alive
<1>3. StartShape'
    BY DEF IInv, TypeOK, StartShape
<1>4. ReapShape'
    BY DEF IInv, TypeOK, StartShape, ReapShape, Reaping, Waited
<1>5. CodeShape'
    BY DEF IInv, TypeOK, StartShape, CodeShape, Reaping, Waited, Gone
<1>6. ToldShape'
    BY DEF IInv, TypeOK, StartShape, ReapShape, ToldShape, Verdict, Reaping, Waited
<1>7. JoinShape'
    BY DEF IInv, TypeOK, StartShape, JoinShape
<1>8. IdleShape'
    BY DEF IInv, TypeOK, StartShape, IdleShape, Live
<1>9. CloserShape'
    BY DEF IInv, TypeOK, StartShape, CloserShape
<1>10. CalmShape'
    BY DEF IInv, TypeOK, IdleShape, CalmShape, Overlap, Live
<1> QED
    BY <1>1, <1>2, <1>3, <1>4, <1>5, <1>6, <1>7, <1>8, <1>9, <1>10 DEF IInv

(* start_build, when no process can be made.                                   *)
LEMMA SpawnFailsStep ==
    ASSUME IInv, NEW b \in Build, SpawnFails(b)
    PROVE  IInv'
<1> USE DEF SpawnFails, Request, build, waiter, reader, closer
<1>1. TypeOK'
    BY DEF IInv, TypeOK, WaiterPC, ReaderPC, ShutdownPC, ChildState, Status, Faults
<1>2. StrayShape'
    BY DEF IInv, TypeOK, StartShape, ReapShape, JoinShape, StrayShape, Reaping,
           Waited, ReapedOrWaited, Alive
<1>3. StartShape'
    BY DEF IInv, TypeOK, StartShape
<1>4. /\ ReapShape' /\ CodeShape' /\ ToldShape' /\ JoinShape' /\ IdleShape'
      /\ CloserShape' /\ CalmShape'
    BY DEF IInv, ReapShape, CodeShape, ToldShape, JoinShape, IdleShape, CloserShape,
           CalmShape, Overlap, Reaping, Waited, Gone, Verdict, Live
<1> QED
    BY <1>1, <1>2, <1>3, <1>4 DEF IInv

(* The readers look at the flag ...                                            *)
LEMMA ReaderCheckStep ==
    ASSUME IInv, NEW b \in Build, ReaderCheck(b)
    PROVE  IInv'
<1> USE DEF ReaderCheck, ReaderGoto, ReaderKeeps, map, build, waiter, closer
<1>1. TypeOK'
    BY DEF IInv, TypeOK, WaiterPC, ReaderPC, ShutdownPC, ChildState, Status, Faults
<1>2. StrayShape'
    BY DEF IInv, TypeOK, StartShape, ReapShape, JoinShape, StrayShape, Reaping,
           Waited, ReapedOrWaited, Alive
<1>3. StartShape'
    BY DEF IInv, TypeOK, StartShape
<1>4. JoinShape'
    BY DEF IInv, TypeOK, JoinShape
<1>5. /\ ReapShape' /\ CodeShape' /\ ToldShape' /\ IdleShape' /\ CloserShape'
      /\ CalmShape'
    BY DEF IInv, ReapShape, CodeShape, ToldShape, IdleShape, CloserShape, CalmShape, Overlap,
           Reaping, Waited, Gone, Verdict, Live
<1> QED
    BY <1>1, <1>2, <1>3, <1>4, <1>5 DEF IInv

(* ... and wait for what there is to read ...                                  *)
LEMMA ReaderSelectStep ==
    ASSUME IInv, NEW b \in Build, ReaderSelect(b)
    PROVE  IInv'
<1> USE DEF MayStray, ReaderSelect, ReaderGoto, ReaderKeeps, map, build, waiter, closer
<1>1. TypeOK'
    BY DEF IInv, TypeOK, WaiterPC, ReaderPC, ShutdownPC, ChildState, Status, Faults
<1>2. StrayShape'
    BY DEF IInv, TypeOK, StartShape, ReapShape, JoinShape, StrayShape, Reaping,
           Waited, ReapedOrWaited, Alive, MayStray
<1>3. StartShape'
    BY DEF IInv, TypeOK, StartShape
<1>4. JoinShape'
    BY DEF IInv, TypeOK, JoinShape
<1>5. /\ ReapShape' /\ CodeShape' /\ ToldShape' /\ IdleShape' /\ CloserShape'
      /\ CalmShape'
    BY <1>2 DEF IInv, StrayShape, ReapShape, CodeShape, ToldShape, IdleShape,
           CloserShape, CalmShape, Overlap,
           Reaping, Waited, Gone, Verdict, Live
<1> QED
    BY <1>1, <1>2, <1>3, <1>4, <1>5 DEF IInv

(* ... and read it.                                                            *)
LEMMA ReaderReadStep ==
    ASSUME IInv, NEW b \in Build, ReaderRead(b)
    PROVE  IInv'
<1> USE DEF MayStray, ReaderRead, ReaderGoto, ReaderKeeps, Readable, Unread, map, build,
            waiter, closer
<1>1. TypeOK'
    BY BoundsAssumption DEF IInv, TypeOK, WaiterPC, ReaderPC, ShutdownPC, ChildState, Faults
<1>2. StrayShape'
    BY DEF IInv, TypeOK, StartShape, ReapShape, JoinShape, StrayShape, Reaping,
           Waited, ReapedOrWaited, Alive, MayStray
<1>3. StartShape'
    BY DEF IInv, TypeOK, StartShape
<1>4. JoinShape'
    BY DEF IInv, TypeOK, JoinShape
<1>5. /\ ReapShape' /\ CodeShape' /\ ToldShape' /\ IdleShape' /\ CloserShape'
      /\ CalmShape'
    BY <1>2 DEF IInv, StrayShape, ReapShape, CodeShape, ToldShape, IdleShape,
           CloserShape, CalmShape, Overlap,
           Reaping, Waited, Gone, Verdict, Live
<1> QED
    BY <1>1, <1>2, <1>3, <1>4, <1>5 DEF IInv

(* The waiter finds its build destroyed.                                       *)
LEMMA WaiterTouchesFreedStep ==
    ASSUME IInv, NEW b \in Build, WaiterTouchesFreed(b)
    PROVE  IInv'
<1> USE DEF WaiterTouchesFreed, map, build, waiter, reader, closer
<1>1. TypeOK'
    BY DEF IInv, TypeOK, WaiterPC, ReaderPC, ShutdownPC, ChildState, Status, Faults
<1>2. StrayShape'
    BY DEF IInv, TypeOK, StartShape, ReapShape, JoinShape, StrayShape, Reaping,
           Waited, ReapedOrWaited, Alive
<1>3. IdleShape'
    BY DEF IInv, TypeOK, StartShape, IdleShape, Live
<1>4. CloserShape'
    BY DEF IInv, TypeOK, CloserShape
<1>5. CalmShape'
    BY DEF IInv, TypeOK, CalmShape, Overlap
<1>6. StartShape' /\ ReapShape' /\ CodeShape' /\ ToldShape' /\ JoinShape'
    BY DEF IInv, StartShape, ReapShape, CodeShape, ToldShape, JoinShape, Reaping,
           Waited, Gone, Verdict
<1> QED
    BY <1>1, <1>2, <1>3, <1>4, <1>5, <1>6 DEF IInv

(* The waiter begins.                                                          *)
LEMMA WaiterStartsStep ==
    ASSUME IInv, NEW b \in Build, WaiterStarts(b)
    PROVE  IInv'
<1> USE DEF MayStray, WaiterStarts, WaiterGoto, WaiterKeeps, map, reader, closer
<1>1. TypeOK'
    BY DEF IInv, TypeOK, WaiterPC, ReaderPC, ShutdownPC, ChildState, Status, Faults
<1>2. StrayShape'
    BY DEF IInv, TypeOK, StartShape, ReapShape, JoinShape, StrayShape, Reaping,
           Waited, ReapedOrWaited, Alive, MayStray
<1>3. StartShape'
    BY DEF IInv, TypeOK, StartShape
<1>4. ReapShape'
    BY DEF IInv, TypeOK, ReapShape, Reaping, Waited
<1>5. CodeShape'
    BY DEF IInv, TypeOK, CodeShape, Reaping, Waited, Gone
<1>6. ToldShape'
    BY DEF IInv, TypeOK, ToldShape, Verdict
<1>7. JoinShape'
    BY DEF IInv, TypeOK, JoinShape
<1>8. CalmShape'
    BY DEF IInv, TypeOK, CalmShape, Overlap
<1>9. IdleShape' /\ CloserShape'
    BY <1>2 DEF IInv, StrayShape, IdleShape, CloserShape, Live
<1> QED
    BY <1>1, <1>2, <1>3, <1>4, <1>5, <1>6, <1>7, <1>8, <1>9 DEF IInv

(* It reaps the process, or finds it reaped by shutdown.                       *)
LEMMA WaiterReapsStep ==
    ASSUME IInv, NEW b \in Build, WaiterReaps(b)
    PROVE  IInv'
<1> USE DEF WaiterReaps, WaiterGoto, WaiterKeeps, ExitCode, Gone, map, reader,
            closer
<1>1. TypeOK'
    BY DEF IInv, TypeOK, WaiterPC, ReaderPC, ShutdownPC, ChildState, Status, Faults
<1>2. StrayShape'
    BY DEF IInv, TypeOK, StartShape, ReapShape, JoinShape, StrayShape, Reaping,
           Waited, ReapedOrWaited, Alive
<1>3. StartShape'
    BY DEF IInv, TypeOK, StartShape
<1>4. ReapShape'
    BY DEF IInv, TypeOK, ReapShape, Reaping, Waited
<1>5. CodeShape'
    BY DEF IInv, TypeOK, ReapShape, CodeShape, Reaping, Waited, Gone
<1>6. ToldShape'
    BY DEF IInv, TypeOK, ToldShape, Verdict
<1>7. JoinShape'
    BY DEF IInv, TypeOK, JoinShape
<1>8. IdleShape'
    BY DEF IInv, TypeOK, IdleShape, Live
<1>9. CloserShape'
    BY DEF IInv, TypeOK, CloserShape
<1>10. CalmShape'
    BY DEF IInv, TypeOK, CalmShape, Overlap
<1> QED
    BY <1>1, <1>2, <1>3, <1>4, <1>5, <1>6, <1>7, <1>8, <1>9, <1>10 DEF IInv

(* It clears the flag of a process that is reaped.                             *)
LEMMA WaiterFlagStep ==
    ASSUME IInv, NEW b \in Build, WaiterFlag(b)
    PROVE  IInv'
<1> USE DEF WaiterFlag, WaiterGoto, WaiterKeeps, map, reader, closer
<1>1. TypeOK'
    BY DEF IInv, TypeOK, WaiterPC, ReaderPC, ShutdownPC, ChildState, Status, Faults
<1>2. StrayShape'
    BY DEF IInv, TypeOK, StartShape, ReapShape, JoinShape, StrayShape, Reaping,
           Waited, ReapedOrWaited, Alive
<1>3. StartShape'
    BY DEF IInv, TypeOK, StartShape
<1>4. ReapShape'
    BY DEF IInv, TypeOK, ReapShape, Reaping, Waited
<1>5. CodeShape'
    BY DEF IInv, TypeOK, CodeShape, Reaping, Waited, Gone
<1>6. ToldShape'
    BY DEF IInv, TypeOK, ToldShape, Verdict
<1>7. JoinShape'
    BY DEF IInv, TypeOK, JoinShape
<1>8. IdleShape'
    BY DEF IInv, TypeOK, ReapShape, IdleShape, Live, Reaping, Waited
<1>9. CalmShape'
    BY DEF IInv, TypeOK, CalmShape, Overlap
<1>10. CloserShape'
    BY DEF IInv, CloserShape
<1> QED
    BY <1>1, <1>2, <1>3, <1>4, <1>5, <1>6, <1>7, <1>8, <1>9, <1>10 DEF IInv

(* It wakes the readers ...                                                    *)
LEMMA WaiterPipeStep ==
    ASSUME IInv, NEW b \in Build, WaiterPipe(b)
    PROVE  IInv'
<1> USE DEF MayStray, WaiterPipe, WaiterGoto, WaiterKeeps, map, reader, closer
<1>1. TypeOK'
    BY DEF IInv, TypeOK, WaiterPC, ReaderPC, ShutdownPC, ChildState, Status, Faults
<1>2. StrayShape'
    BY DEF IInv, TypeOK, StartShape, ReapShape, JoinShape, StrayShape, Reaping,
           Waited, ReapedOrWaited, Alive, MayStray
<1>3. StartShape'
    BY DEF IInv, TypeOK, StartShape
<1>4. ReapShape'
    BY DEF IInv, TypeOK, ReapShape, Reaping, Waited
<1>5. CodeShape'
    BY DEF IInv, TypeOK, CodeShape, Reaping, Waited, Gone
<1>6. ToldShape'
    BY DEF IInv, TypeOK, ToldShape, Verdict
<1>7. JoinShape'
    BY DEF IInv, TypeOK, JoinShape
<1>8. CalmShape'
    BY DEF IInv, TypeOK, CalmShape, Overlap
<1>9. IdleShape' /\ CloserShape'
    BY <1>2 DEF IInv, StrayShape, IdleShape, CloserShape, Live
<1> QED
    BY <1>1, <1>2, <1>3, <1>4, <1>5, <1>6, <1>7, <1>8, <1>9 DEF IInv

(* ... and goes to join them ...                                               *)
LEMMA WaiterEntersJoinStep ==
    ASSUME IInv, NEW b \in Build, WaiterEntersJoin(b)
    PROVE  IInv'
<1> USE DEF WaiterEntersJoin, WaiterGoto, WaiterKeeps, map, reader, closer
<1>1. TypeOK'
    BY DEF IInv, TypeOK, WaiterPC, ReaderPC, ShutdownPC, ChildState, Status, Faults
<1>2. StrayShape'
    BY DEF IInv, TypeOK, StartShape, ReapShape, JoinShape, StrayShape, Reaping,
           Waited, ReapedOrWaited, Alive
<1>3. StartShape'
    BY DEF IInv, TypeOK, StartShape
<1>4. ReapShape'
    BY DEF IInv, TypeOK, ReapShape, Reaping, Waited
<1>5. CodeShape'
    BY DEF IInv, TypeOK, CodeShape, Reaping, Waited, Gone
<1>6. ToldShape'
    BY DEF IInv, TypeOK, ToldShape, Verdict
<1>7. JoinShape'
    BY DEF IInv, TypeOK, JoinShape
<1>8. IdleShape'
    BY DEF IInv, TypeOK, IdleShape, Live
<1>9. CloserShape'
    BY DEF IInv, TypeOK, CloserShape
<1>10. CalmShape'
    BY DEF IInv, TypeOK, CalmShape, Overlap
<1> QED
    BY <1>1, <1>2, <1>3, <1>4, <1>5, <1>6, <1>7, <1>8, <1>9, <1>10 DEF IInv

(* ... which it does after their end.                                          *)
LEMMA WaiterJoinsStep ==
    ASSUME IInv, NEW b \in Build, WaiterJoins(b)
    PROVE  IInv'
<1> USE DEF WaiterJoins, WaiterGoto, WaiterKeeps, ReadersEnded, map, reader, closer
<1>1. TypeOK'
    BY DEF IInv, TypeOK, WaiterPC, ReaderPC, ShutdownPC, ChildState, Status, Faults
<1>2. StrayShape'
    BY DEF IInv, TypeOK, StartShape, ReapShape, JoinShape, StrayShape, Reaping,
           Waited, ReapedOrWaited, Alive
<1>3. StartShape'
    BY DEF IInv, TypeOK, ReapShape, StartShape, Reaping, Waited
<1>4. ReapShape'
    BY DEF IInv, TypeOK, ReapShape, Reaping, Waited
<1>5. CodeShape'
    BY DEF IInv, TypeOK, CodeShape, Reaping, Waited, Gone
<1>6. ToldShape'
    BY DEF IInv, TypeOK, ToldShape, Verdict
<1>7. JoinShape'
    BY DEF IInv, TypeOK, JoinShape
<1>8. CloserShape'
    BY DEF IInv, TypeOK, CloserShape
<1>9. CalmShape'
    BY DEF IInv, TypeOK, CalmShape, Overlap
<1>10. IdleShape'
    BY DEF IInv, IdleShape, Live
<1> QED
    BY <1>1, <1>2, <1>3, <1>4, <1>5, <1>6, <1>7, <1>8, <1>9, <1>10 DEF IInv

(* It closes the pipes.                                                        *)
LEMMA WaiterClosesStep ==
    ASSUME IInv, NEW b \in Build, WaiterCloses(b)
    PROVE  IInv'
<1> USE DEF MayStray, WaiterCloses, WaiterGoto, WaiterKeeps, map, reader, closer
<1>1. TypeOK'
    BY DEF IInv, TypeOK, WaiterPC, ReaderPC, ShutdownPC, ChildState, Status, Faults
<1>2. StrayShape'
    BY DEF IInv, TypeOK, StartShape, ReapShape, JoinShape, StrayShape, Reaping,
           Waited, ReapedOrWaited, Alive, MayStray
<1>3. StartShape'
    BY DEF IInv, TypeOK, StartShape
<1>4. ReapShape'
    BY DEF IInv, TypeOK, ReapShape, Reaping, Waited
<1>5. CodeShape'
    BY DEF IInv, TypeOK, CodeShape, Reaping, Waited, Gone
<1>6. ToldShape'
    BY DEF IInv, TypeOK, ToldShape, Verdict
<1>7. JoinShape'
    BY DEF IInv, TypeOK, JoinShape
<1>8. CalmShape'
    BY DEF IInv, TypeOK, CalmShape, Overlap
<1>9. IdleShape' /\ CloserShape'
    BY <1>2 DEF IInv, StrayShape, IdleShape, CloserShape, Live
<1> QED
    BY <1>1, <1>2, <1>3, <1>4, <1>5, <1>6, <1>7, <1>8, <1>9 DEF IInv

(* It takes the code for the status ...                                        *)
LEMMA WaiterSetsStatusStep ==
    ASSUME IInv, NEW b \in Build, WaiterSetsStatus(b)
    PROVE  IInv'
<1> USE DEF WaiterSetsStatus, WaiterGoto, WaiterKeeps, Verdict, map, reader, closer
<1>1. TypeOK'
    BY DEF IInv, TypeOK, WaiterPC, ReaderPC, ShutdownPC, ChildState, Status, Faults
<1>2. StrayShape'
    BY DEF IInv, TypeOK, StartShape, ReapShape, JoinShape, StrayShape, Reaping,
           Waited, ReapedOrWaited, Alive
<1>3. StartShape'
    BY DEF IInv, TypeOK, StartShape
<1>4. ReapShape'
    BY DEF IInv, TypeOK, ReapShape, Reaping, Waited
<1>5. CodeShape'
    BY DEF IInv, TypeOK, CodeShape, Reaping, Waited, Gone
<1>6. ToldShape'
    BY DEF IInv, TypeOK, ToldShape, Verdict
<1>7. JoinShape'
    BY DEF IInv, TypeOK, JoinShape
<1>8. CalmShape'
    BY DEF IInv, TypeOK, CalmShape, Overlap
<1>9. IdleShape' /\ CloserShape'
    BY DEF IInv, IdleShape, CloserShape, Live
<1> QED
    BY <1>1, <1>2, <1>3, <1>4, <1>5, <1>6, <1>7, <1>8, <1>9 DEF IInv

(* ... and tells it.                                                           *)
LEMMA WaiterNotifiesStep ==
    ASSUME IInv, NEW b \in Build, WaiterNotifies(b)
    PROVE  IInv'
<1> USE DEF WaiterNotifies, WaiterGoto, WaiterKeeps, map, reader, closer
<1>1. TypeOK'
    BY DEF IInv, TypeOK, WaiterPC, ReaderPC, ShutdownPC, ChildState, Status, Faults
<1>2. StrayShape'
    BY DEF IInv, TypeOK, StartShape, ReapShape, JoinShape, StrayShape, Reaping,
           Waited, ReapedOrWaited, Alive
<1>3. StartShape'
    BY DEF IInv, TypeOK, StartShape
<1>4. ReapShape'
    BY DEF IInv, TypeOK, ReapShape, Reaping, Waited
<1>5. CodeShape'
    BY DEF IInv, TypeOK, CodeShape, Reaping, Waited, Gone
<1>6. ToldShape'
    BY DEF IInv, TypeOK, ToldShape, Verdict
<1>7. JoinShape'
    BY DEF IInv, TypeOK, JoinShape
<1>8. CalmShape'
    BY DEF IInv, TypeOK, CalmShape, Overlap
<1>9. IdleShape' /\ CloserShape'
    BY DEF IInv, IdleShape, CloserShape, Live
<1> QED
    BY <1>1, <1>2, <1>3, <1>4, <1>5, <1>6, <1>7, <1>8, <1>9 DEF IInv

(* A restart begins.                                                           *)
LEMMA ShutdownTermStep ==
    ASSUME IInv, ShutdownTerm
    PROVE  IInv'
<1> USE DEF MayStray, ShutdownTerm, ShutdownGoto, ShutdownKeeps, waiter, reader
<1>1. TypeOK'
    BY DEF IInv, TypeOK, WaiterPC, ReaderPC, ShutdownPC, ChildState, Status, Faults
<1>2. StrayShape'
    BY DEF IInv, TypeOK, StartShape, ReapShape, JoinShape, StrayShape, Reaping,
           Waited, ReapedOrWaited, Alive, MayStray
<1>3. StartShape'
    BY DEF IInv, TypeOK, StartShape
<1>4. ReapShape'
    BY DEF IInv, TypeOK, ReapShape, Reaping, Waited
<1>5. CodeShape'
    BY DEF IInv, TypeOK, CodeShape, Reaping, Waited, Gone
<1>6. IdleShape'
    BY <1>2 DEF IInv, StrayShape, TypeOK, IdleShape, Live
<1>7. CloserShape'
    BY DEF IInv, TypeOK, CloserShape
<1>8. CalmShape'
    BY DEF IInv, TypeOK, StartShape, IdleShape, CloserShape, CalmShape, Overlap, Live
<1>9. ToldShape' /\ JoinShape'
    BY DEF IInv, ToldShape, JoinShape, Verdict
<1> QED
    BY <1>1, <1>2, <1>3, <1>4, <1>5, <1>6, <1>7, <1>8, <1>9 DEF IInv

(* It kills what it finds.                                                     *)
LEMMA ShutdownKillStep ==
    ASSUME IInv, ShutdownKill
    PROVE  IInv'
<1> USE DEF MayStray, Stray, ShutdownKill, ShutdownGoto, ShutdownKeeps, ToKill, waiter, reader
<1>1. TypeOK'
    BY DEF IInv, TypeOK, WaiterPC, ReaderPC, ShutdownPC, ChildState, Status, Faults
<1>2. StrayShape'
    BY DEF IInv, TypeOK, StartShape, ReapShape, JoinShape, StrayShape, Reaping,
           Waited, ReapedOrWaited, Alive, MayStray, Stray
<1>3. StartShape'
    BY DEF IInv, TypeOK, StartShape
<1>4. ReapShape'
    BY DEF IInv, TypeOK, ReapShape, Reaping, Waited
<1>5. CodeShape'
    BY DEF IInv, TypeOK, ReapShape, CodeShape, Reaping, Waited, Gone
<1>6. IdleShape'
    BY <1>2 DEF IInv, StrayShape, TypeOK, IdleShape, Live
<1>7. CloserShape'
    BY DEF IInv, TypeOK, CloserShape
<1>8. ToldShape' /\ JoinShape' /\ CalmShape'
    BY DEF IInv, ToldShape, JoinShape, CalmShape, Overlap, Verdict
<1> QED
    BY <1>1, <1>2, <1>3, <1>4, <1>5, <1>6, <1>7, <1>8 DEF IInv

(* It takes the mutex for one of its loops.                                    *)
LEMMA ShutdownLocksStep ==
    ASSUME IInv, ShutdownLocks
    PROVE  IInv'
<1> USE DEF ShutdownLocks, ShutdownGoto, ShutdownKeeps, ToVisit, waiter, reader
<1>1. TypeOK'
    BY DEF IInv, TypeOK, WaiterPC, ReaderPC, ShutdownPC, ChildState, Status, Faults
<1>2. StrayShape'
    BY DEF IInv, TypeOK, StartShape, ReapShape, JoinShape, StrayShape, Reaping,
           Waited, ReapedOrWaited, Alive
<1>3. StartShape'
    BY DEF IInv, TypeOK, StartShape
<1>4. ReapShape'
    BY DEF IInv, TypeOK, ReapShape, Reaping, Waited
<1>5. CodeShape'
    BY DEF IInv, TypeOK, CodeShape, Reaping, Waited, Gone
<1>6. IdleShape'
    BY DEF IInv, TypeOK, IdleShape, Live
<1>7. CloserShape'
    BY DEF IInv, TypeOK, CloserShape
<1>8. ToldShape' /\ JoinShape' /\ CalmShape'
    BY DEF IInv, ToldShape, JoinShape, CalmShape, Overlap, Verdict
<1> QED
    BY <1>1, <1>2, <1>3, <1>4, <1>5, <1>6, <1>7, <1>8 DEF IInv

(* It goes to join the readers of a build ...                                  *)
LEMMA ShutdownEntersJoinStep ==
    ASSUME IInv, NEW b \in Build, ShutdownEntersJoin(b)
    PROVE  IInv'
<1> USE DEF ShutdownEntersJoin, ShutdownGoto, ShutdownKeeps, Alive, waiter, reader
<1>1. TypeOK'
    BY DEF IInv, TypeOK, WaiterPC, ReaderPC, ShutdownPC, ChildState, Status, Faults
<1>2. StrayShape'
    BY DEF IInv, TypeOK, StartShape, ReapShape, JoinShape, StrayShape, Reaping,
           Waited, ReapedOrWaited, Alive
<1>3. IdleShape'
    BY DEF IInv, TypeOK, IdleShape, Live
<1>4. CloserShape'
    BY NoBuildAssumption DEF IInv, TypeOK, CloserShape
<1>5. CalmShape'
    BY DEF IInv, TypeOK, CalmShape, Overlap
<1>6. StartShape' /\ ReapShape' /\ CodeShape' /\ ToldShape' /\ JoinShape'
    BY DEF IInv, StartShape, ReapShape, CodeShape, ToldShape, JoinShape, Reaping,
           Waited, Gone, Verdict
<1> QED
    BY <1>1, <1>2, <1>3, <1>4, <1>5, <1>6 DEF IInv

(* ... and does after their end.                                               *)
LEMMA ShutdownJoinsStep ==
    ASSUME IInv, NEW b \in Build, ShutdownJoins(b)
    PROVE  IInv'
<1> USE DEF ShutdownJoins, ShutdownGoto, ShutdownKeeps, ReadersEnded, waiter, reader
<1>1. TypeOK'
    BY DEF IInv, TypeOK, WaiterPC, ReaderPC, ShutdownPC, ChildState, Status, Faults
<1>2. StrayShape'
    BY DEF IInv, TypeOK, StartShape, ReapShape, JoinShape, StrayShape, Reaping,
           Waited, ReapedOrWaited, Alive
<1>3. StartShape'
    BY DEF IInv, TypeOK, StartShape
<1>4. JoinShape'
    BY DEF IInv, TypeOK, JoinShape
<1>5. CloserShape'
    BY DEF IInv, TypeOK, CloserShape
<1>6. ReapShape' /\ CodeShape' /\ ToldShape' /\ IdleShape' /\ CalmShape'
    BY DEF IInv, ReapShape, CodeShape, ToldShape, IdleShape, CalmShape, Overlap, Reaping,
           Waited, Gone, Verdict, Live
<1> QED
    BY <1>1, <1>2, <1>3, <1>4, <1>5, <1>6 DEF IInv

(* All are joined.                                                             *)
LEMMA ShutdownUnlocksStep ==
    ASSUME IInv, ShutdownUnlocks
    PROVE  IInv'
<1> USE DEF ShutdownUnlocks, ShutdownGoto, ShutdownKeeps, waiter, reader
<1>1. TypeOK'
    BY DEF IInv, TypeOK, WaiterPC, ReaderPC, ShutdownPC, ChildState, Status, Faults
<1>2. StrayShape'
    BY DEF IInv, TypeOK, StartShape, ReapShape, JoinShape, StrayShape, Reaping,
           Waited, ReapedOrWaited, Alive
<1>3. StartShape'
    BY DEF IInv, TypeOK, StartShape
<1>4. ReapShape'
    BY DEF IInv, TypeOK, ReapShape, Reaping, Waited
<1>5. CodeShape'
    BY DEF IInv, TypeOK, CodeShape, Reaping, Waited, Gone
<1>6. IdleShape'
    BY DEF IInv, TypeOK, IdleShape, Live
<1>7. CloserShape'
    BY NoBuildAssumption DEF IInv, TypeOK, CloserShape
<1>8. ToldShape' /\ JoinShape' /\ CalmShape'
    BY DEF IInv, ToldShape, JoinShape, CalmShape, Overlap, Verdict
<1> QED
    BY <1>1, <1>2, <1>3, <1>4, <1>5, <1>6, <1>7, <1>8 DEF IInv

(* It closes the pipes of a build ...                                          *)
LEMMA ShutdownClosesStep ==
    ASSUME IInv, NEW b \in Build, ShutdownCloses(b)
    PROVE  IInv'
<1> USE DEF MayStray, ShutdownCloses, ShutdownGoto, ShutdownKeeps, waiter, reader
<1>1. TypeOK'
    BY DEF IInv, TypeOK, WaiterPC, ReaderPC, ShutdownPC, ChildState, Status, Faults
<1>2. StrayShape'
    BY DEF IInv, TypeOK, StartShape, ReapShape, JoinShape, StrayShape, Reaping,
           Waited, ReapedOrWaited, Alive, MayStray
<1>3. CloserShape'
    BY DEF IInv, TypeOK, CloserShape
<1>4. /\ StartShape' /\ ReapShape' /\ CodeShape' /\ ToldShape' /\ JoinShape'
      /\ IdleShape' /\ CalmShape'
    BY <1>2 DEF IInv, StrayShape, StartShape, ReapShape, CodeShape, ToldShape,
           JoinShape, IdleShape,
           CalmShape, Overlap, Reaping, Waited, Gone, Verdict, Live
<1> QED
    BY <1>1, <1>2, <1>3, <1>4 DEF IInv

(* ... and waits for the process.                                              *)
LEMMA ShutdownReapsStep ==
    ASSUME IInv, NEW b \in Build, ShutdownReaps(b)
    PROVE  IInv'
<1> USE DEF MayStray, ShutdownReaps, ShutdownGoto, ShutdownKeeps, Gone, waiter, reader
<1>1. TypeOK'
    BY DEF IInv, TypeOK, WaiterPC, ReaderPC, ShutdownPC, ChildState, Status, Faults
<1>2. StrayShape'
    BY DEF IInv, TypeOK, StartShape, ReapShape, JoinShape, StrayShape, Reaping,
           Waited, ReapedOrWaited, Alive, MayStray
<1>3. StartShape'
    BY DEF IInv, TypeOK, StartShape
<1>4. ReapShape'
    BY DEF IInv, TypeOK, ReapShape, Reaping, Waited
<1>5. CodeShape'
    BY DEF IInv, TypeOK, CodeShape, Reaping, Waited, Gone
<1>6. IdleShape'
    BY <1>2 DEF IInv, StrayShape, TypeOK, IdleShape, Live
<1>7. CloserShape'
    BY DEF IInv, TypeOK, CloserShape
<1>8. ToldShape' /\ JoinShape' /\ CalmShape'
    BY DEF IInv, ToldShape, JoinShape, CalmShape, Overlap, Verdict
<1> QED
    BY <1>1, <1>2, <1>3, <1>4, <1>5, <1>6, <1>7, <1>8 DEF IInv

(* It empties the map.                                                         *)
LEMMA ShutdownClearsStep ==
    ASSUME IInv, ShutdownClears
    PROVE  IInv'
<1> USE DEF ShutdownClears, ShutdownGoto, ShutdownKeeps, waiter, reader
<1>1. TypeOK'
    BY DEF IInv, TypeOK, WaiterPC, ReaderPC, ShutdownPC, ChildState, Status, Faults
<1>2. StrayShape'
    BY DEF IInv, TypeOK, StartShape, ReapShape, JoinShape, StrayShape, Reaping,
           Waited, ReapedOrWaited, Alive
<1>3. StartShape'
    BY DEF IInv, TypeOK, StartShape
<1>4. ReapShape'
    BY DEF IInv, TypeOK, ReapShape, Reaping, Waited
<1>5. CodeShape'
    BY DEF IInv, TypeOK, CodeShape, Reaping, Waited, Gone
<1>6. IdleShape'
    BY DEF IInv, TypeOK, IdleShape, Live
<1>7. CloserShape'
    BY DEF IInv, TypeOK, CloserShape
<1>8. CalmShape'
    BY DEF IInv, TypeOK, CloserShape, CalmShape, Overlap
<1>9. ToldShape' /\ JoinShape'
    BY DEF IInv, ToldShape, JoinShape, Verdict
<1> QED
    BY <1>1, <1>2, <1>3, <1>4, <1>5, <1>6, <1>7, <1>8, <1>9 DEF IInv

(* The process writes ...                                                      *)
LEMMA ColconWritesStep ==
    ASSUME IInv, NEW b \in Build, ColconWrites(b)
    PROVE  IInv'
<1> USE DEF ColconWrites, ColconKeeps, map, waiter, reader, closer
<1>1. TypeOK'
    BY BoundsAssumption DEF IInv, TypeOK, ChildState
<1>2. StrayShape'
    BY DEF IInv, TypeOK, StartShape, ReapShape, JoinShape, StrayShape, Reaping,
           Waited, ReapedOrWaited, Alive
<1>3. /\ StartShape' /\ ReapShape' /\ CodeShape' /\ ToldShape' /\ JoinShape'
      /\ IdleShape' /\ CloserShape' /\ CalmShape'
    BY DEF IInv, StartShape, ReapShape, CodeShape, ToldShape, JoinShape, IdleShape,
           CloserShape, CalmShape, Overlap, Reaping, Waited, Gone, Verdict, Live
<1> QED
    BY <1>1, <1>2, <1>3 DEF IInv

(* ... ends ...                                                                *)
LEMMA ColconExitsStep ==
    ASSUME IInv, NEW b \in Build, ColconExits(b)
    PROVE  IInv'
<1> USE DEF ColconExits, ColconKeeps, map, waiter, reader, closer
<1>1. TypeOK'
    BY DEF IInv, TypeOK, WaiterPC, ReaderPC, ShutdownPC, ChildState, Status, Faults
<1>2. StrayShape'
    BY DEF IInv, TypeOK, StartShape, ReapShape, JoinShape, StrayShape, Reaping,
           Waited, ReapedOrWaited, Alive
<1>3. StartShape'
    BY DEF IInv, TypeOK, StartShape
<1>4. ReapShape'
    BY DEF IInv, TypeOK, ReapShape, Reaping, Waited
<1>5. CodeShape'
    BY DEF IInv, TypeOK, ReapShape, CodeShape, Reaping, Waited, Gone
<1>6. IdleShape'
    BY DEF IInv, TypeOK, IdleShape, Live
<1>7. CloserShape'
    BY DEF IInv, TypeOK, CloserShape
<1>8. ToldShape' /\ JoinShape' /\ CalmShape'
    BY DEF IInv, ToldShape, JoinShape, CalmShape, Overlap, Verdict
<1> QED
    BY <1>1, <1>2, <1>3, <1>4, <1>5, <1>6, <1>7, <1>8 DEF IInv

(* ... or dies.                                                                *)
LEMMA ColconDiesStep ==
    ASSUME IInv, NEW b \in Build, ColconDies(b)
    PROVE  IInv'
<1> USE DEF ColconDies, ColconKeeps, map, waiter, reader, closer
<1>1. TypeOK'
    BY DEF IInv, TypeOK, WaiterPC, ReaderPC, ShutdownPC, ChildState, Status, Faults
<1>2. StrayShape'
    BY DEF IInv, TypeOK, StartShape, ReapShape, JoinShape, StrayShape, Reaping,
           Waited, ReapedOrWaited, Alive
<1>3. StartShape'
    BY DEF IInv, TypeOK, StartShape
<1>4. ReapShape'
    BY DEF IInv, TypeOK, ReapShape, Reaping, Waited
<1>5. CodeShape'
    BY DEF IInv, TypeOK, CodeShape, Reaping, Waited, Gone
<1>6. IdleShape'
    BY DEF IInv, TypeOK, IdleShape, Live
<1>7. CloserShape'
    BY DEF IInv, TypeOK, CloserShape
<1>8. ToldShape' /\ JoinShape' /\ CalmShape'
    BY DEF IInv, ToldShape, JoinShape, CalmShape, Overlap, Verdict
<1> QED
    BY <1>1, <1>2, <1>3, <1>4, <1>5, <1>6, <1>7, <1>8 DEF IInv

-----------------------------------------------------------------------------
(* At first nothing has been started.                                          *)
LEMMA InitIInv == Init => IInv
<1> SUFFICES ASSUME Init PROVE IInv
    OBVIOUS
<1> USE DEF Init
<1>1. TypeOK
  <2>1. made \in [Build -> 0..MaxChunks] /\ out \in [Build -> 0..MaxChunks]
      BY BoundsAssumption
  <2>2. \A b \in Build : out[b] = 0 /\ made[b] = 0
      OBVIOUS
  <2>3. \A b \in Build : out[b] <= made[b]
      BY <2>2
  <2>4. spc \in ShutdownPC /\ todo \subseteq Build /\ at \in Build \cup {NoBuild}
      BY DEF ShutdownPC
  <2> QED
      BY <2>1, <2>3, <2>4 DEF TypeOK, WaiterPC, ReaderPC, ChildState, Status, Faults
<1>2. StartShape /\ ReapShape /\ CodeShape /\ ToldShape /\ JoinShape
    BY DEF StartShape, ReapShape, CodeShape, ToldShape, JoinShape, Reaping, Waited,
           Gone
<1>3. IdleShape /\ CloserShape /\ CalmShape /\ StrayShape
    BY DEF IdleShape, CloserShape, CalmShape, Overlap, StrayShape, Live
<1> QED
    BY <1>1, <1>2, <1>3 DEF IInv

(* A step that changes nothing.                                                *)
LEMMA StutterStep ==
    ASSUME IInv, UNCHANGED vars
    PROVE  IInv'
<1> USE DEF vars, map, build, waiter, reader, closer
<1>1. TypeOK'
    BY DEF IInv, TypeOK
<1>2. StartShape' /\ ReapShape' /\ CodeShape' /\ ToldShape' /\ JoinShape'
    BY DEF IInv, StartShape, ReapShape, CodeShape, ToldShape, JoinShape, Reaping,
           Waited, Gone, Verdict
<1>3. IdleShape' /\ CloserShape' /\ CalmShape' /\ StrayShape'
    BY DEF IInv, IdleShape, CloserShape, CalmShape, Overlap, StrayShape, Waited,
           ReapedOrWaited, Live
<1> QED
    BY <1>1, <1>2, <1>3 DEF IInv

(* The inductive invariant holds in every reachable state.                     *)
THEOREM Inductive == Spec => []IInv
<1>1. IInv /\ [Next]_vars => IInv'
  <2> SUFFICES ASSUME IInv, [Next]_vars PROVE IInv'
      OBVIOUS
  <2>1. CASE UNCHANGED vars
      BY <2>1, StutterStep
  <2>2. CASE ShutdownTerm
      BY <2>2, ShutdownTermStep
  <2>3. CASE Shutdown
      BY <2>3, ShutdownKillStep, ShutdownLocksStep, ShutdownUnlocksStep,
         ShutdownClearsStep, ShutdownEntersJoinStep, ShutdownJoinsStep,
         ShutdownClosesStep, ShutdownReapsStep
         DEF Shutdown
  <2>4. ASSUME NEW b \in Build, StartBuild(b) \/ SpawnFails(b) PROVE IInv'
      BY <2>4, StartBuildStep, SpawnFailsStep
  <2>5. ASSUME NEW b \in Build, Reader(b) PROVE IInv'
      BY <2>5, ReaderCheckStep, ReaderSelectStep, ReaderReadStep DEF Reader
  <2>6. ASSUME NEW b \in Build, Waiter(b) PROVE IInv'
      BY <2>6, WaiterStartsStep, WaiterReapsStep, WaiterFlagStep, WaiterPipeStep,
         WaiterEntersJoinStep, WaiterJoinsStep, WaiterClosesStep,
         WaiterSetsStatusStep, WaiterNotifiesStep, WaiterTouchesFreedStep
         DEF Waiter
  <2>7. ASSUME NEW b \in Build, ColconWrites(b) \/ ColconExits(b) \/ ColconDies(b)
        PROVE  IInv'
      BY <2>7, ColconWritesStep, ColconExitsStep, ColconDiesStep
  <2> QED
      BY <2>1, <2>2, <2>3, <2>4, <2>5, <2>6, <2>7 DEF Next, Ended
<1> QED
    BY InitIInv, <1>1, PTL DEF Spec

(* Type correctness, with the readers never ahead of the process.              *)
THEOREM TypeCorrect == Spec => []TypeOK
<1>1. IInv => TypeOK
    BY DEF IInv
<1> QED
    BY <1>1, Inductive, PTL

(* Until a restart interferes one colcon process lives at a time.              *)
THEOREM OneAtATime == Spec => []OneBuildUntilShutdown
<1>1. IInv => OneBuildUntilShutdown
    BY DEF IInv, IdleShape, OneBuildUntilShutdown
<1> QED
    BY <1>1, Inductive, PTL

(* A client hears "completed" only of a build that was, until the waitpid of a *)
(* shutdown comes in between.                                                  *)
THEOREM StatusIsTrue == Spec => []TruthfulStatus
<1>1. IInv => TruthfulStatus
  <2> SUFFICES ASSUME IInv, NEW b \in Build, told[b] = "completed", ~Waited
               PROVE  code[b] = "ok"
      BY DEF TruthfulStatus, Waited
  <2>1. wpc[b] = "done" /\ Verdict(b) = "completed"
      BY DEF IInv, ToldShape
  <2> QED
      BY <2>1 DEF IInv, CodeShape, Verdict, Reaping
<1> QED
    BY <1>1, Inductive, PTL

(* The memory errors of a shutdown need a build that overlaps it, and          *)
(* std::terminate one that was started during it; what is done to another's    *)
(* process or file needs a build that was reaped.                              *)
THEOREM OnlyOverlapBreaks == Spec => []OverlapIsNeeded
<1>1. IInv => OverlapIsNeeded
    BY DEF IInv, CloserShape, CalmShape, StrayShape, OverlapIsNeeded
<1> QED
    BY <1>1, Inductive, PTL

-----------------------------------------------------------------------------
(* The refinement of BuildSlot.  A step maps to nothing unless the process of  *)
(* a build or what was told of it changes.                                     *)
Shown == <<child, code, out, told, spc>>
PhaseOf(b) == IF child[b] = "none" THEN "idle" ELSE IF Live(b) THEN "live" ELSE code[b]

(* A step that changes nothing shown is a stuttering step of BuildSlot.        *)
LEMMA ShownStutters ==
    ASSUME UNCHANGED Shown
    PROVE  UNCHANGED Slot!slotVars
    BY DEF Shown, Slot!slotVars, Live

(* Nothing is promised once the manager is being replaced.                     *)
LEMMA GoneForGood ==
    ASSUME spc # "idle", [Next]_vars
    PROVE  spc' # "idle"
<1>1. CASE Shutdown
    BY <1>1
       DEF Shutdown, ShutdownKill, ShutdownLocks, ShutdownUnlocks, ShutdownClears,
           ShutdownEntersJoin, ShutdownJoins, ShutdownCloses, ShutdownReaps,
           ShutdownGoto
<1>2. CASE ShutdownTerm
    BY <1>2 DEF ShutdownTerm, ShutdownGoto
<1>3. ASSUME NEW b \in Build, Waiter(b) PROVE spc' # "idle"
    BY <1>3
       DEF Waiter, WaiterStarts, WaiterReaps, WaiterFlag, WaiterPipe,
           WaiterEntersJoin, WaiterJoins, WaiterCloses, WaiterSetsStatus,
           WaiterNotifies, WaiterTouchesFreed, WaiterKeeps, closer
<1>4. ASSUME NEW b \in Build,
             \/ StartBuild(b) \/ SpawnFails(b) \/ Reader(b)
             \/ ColconWrites(b) \/ ColconExits(b) \/ ColconDies(b)
      PROVE  spc' # "idle"
    BY <1>4 DEF StartBuild, SpawnFails, Reader, ReaderCheck, ReaderSelect, ReaderRead,
       ReaderKeeps, ColconWrites, ColconExits, ColconDies, ColconKeeps, closer
<1> QED
    BY <1>1, <1>2, <1>3, <1>4 DEF Next, Ended, vars, closer

(* Each step before that is one of the slot, or none.                          *)
LEMMA SlotStep ==
    ASSUME IInv, IInv', spc = "idle", [Next]_vars
    PROVE  [Slot!Next]_(Slot!slotVars)
<1> USE DEF Slot!slotVars
<1>1. ASSUME NEW b \in Build, StartBuild(b) PROVE Slot!Begin(b)
  <2>1. PhaseOf(b) = "idle" /\ \A c \in Build : PhaseOf(c) # "live"
    <3>1. child[b] = "none" /\ \A c \in Build : ~Live(c)
        BY <1>1 DEF IInv, StartShape, IdleShape, StartBuild, Request, Busy
    <3> QED
        BY <3>1 DEF IInv, TypeOK, PhaseOf
  <2>2. PhaseOf(b)' = "live" /\ \A c \in Build \ {b} : PhaseOf(c)' = PhaseOf(c)
      BY <1>1 DEF IInv, TypeOK, StartBuild, PhaseOf, Live
  <2>3. UNCHANGED <<out, told, spc>>
      BY <1>1 DEF StartBuild, reader, closer
  <2> QED
      BY <2>1, <2>2, <2>3 DEF Slot!Begin, PhaseOf
<1>2. ASSUME NEW b \in Build, ReaderRead(b), Readable(b) PROVE Slot!Output(b)
  <2>1. child[b] # "none" /\ told[b] = "none"
      BY <1>2
         DEF IInv, TypeOK, StartShape, JoinShape, ToldShape, ReaderRead, ReaderGoto
  <2>2. out[b] < MaxChunks
      BY <1>2, BoundsAssumption DEF IInv, TypeOK, Readable, Unread
  <2>3. Gone(b) => code[b] # "idle"
      BY DEF IInv, CodeShape
  <2> QED
      BY <1>2, <2>1, <2>2, <2>3
         DEF IInv, TypeOK, ReaderRead, ReaderKeeps, Slot!Output, build, waiter,
             closer, Live, Gone, ChildState
<1>3. ASSUME NEW b \in Build, WaiterNotifies(b) PROVE Slot!Report(b)
  <2>1. child[b] = "reaped" /\ code[b] \in {"ok", "bad"} /\ told[b] = "none"
      BY <1>3
         DEF IInv, ReapShape, CodeShape, ToldShape, WaiterNotifies, WaiterGoto,
             Gone, Reaping
  <2>2. told'[b] = IF code[b] = "ok" THEN "completed" ELSE "failed"
      BY <1>3
         DEF IInv, TypeOK, CodeShape, ToldShape, WaiterNotifies, WaiterGoto,
             Reaping, Waited, Verdict
  <2>3. PhaseOf(b) = code[b] /\ told' = [told EXCEPT ![b] = told'[b]]
      BY <1>3, <2>1 DEF IInv, TypeOK, WaiterNotifies, PhaseOf, Live
  <2>4. UNCHANGED <<child, code, out, spc>>
      BY <1>3 DEF WaiterNotifies, WaiterKeeps, reader, closer
  <2>5. \A c \in Build : PhaseOf(c)' = PhaseOf(c)
      BY <2>4 DEF PhaseOf, Live
  <2> QED
      BY <2>1, <2>2, <2>3, <2>4, <2>5 DEF Slot!Report, PhaseOf
<1>4. ASSUME NEW b \in Build, ColconExits(b)
      PROVE  Slot!End(b, "ok") \/ Slot!End(b, "bad")
  <2>1. /\ PhaseOf(b) = "live" /\ PhaseOf(b)' \in {"ok", "bad"}
        /\ \A c \in Build \ {b} : PhaseOf(c)' = PhaseOf(c)
      BY <1>4 DEF IInv, TypeOK, ColconExits, PhaseOf, Live
  <2>2. UNCHANGED <<out, told, spc>>
      BY <1>4 DEF ColconExits, ColconKeeps, waiter, reader, closer
  <2> QED
      BY <2>1, <2>2 DEF Slot!End, PhaseOf
<1>5. CASE ShutdownTerm
    BY <1>5 DEF ShutdownTerm, ShutdownGoto, Slot!Next, Slot!Replaced
<1>6. ASSUME NEW b \in Build, WaiterReaps(b) PROVE UNCHANGED Slot!slotVars
    BY <1>6 DEF IInv, TypeOK, WaiterReaps, WaiterKeeps, reader, closer, Live, Gone
<1>7. ASSUME NEW b \in Build, Waiter(b), ~WaiterReaps(b), ~WaiterNotifies(b)
      PROVE  UNCHANGED Slot!slotVars
    BY <1>7, ShownStutters
       DEF Waiter, WaiterStarts, WaiterFlag, WaiterPipe, WaiterEntersJoin,
           WaiterJoins, WaiterCloses, WaiterSetsStatus, WaiterTouchesFreed,
           WaiterKeeps, Shown, build, waiter, reader, closer
<1>8. ASSUME NEW b \in Build,
             \/ SpawnFails(b) \/ ReaderCheck(b) \/ ReaderSelect(b) \/ ColconWrites(b)
      PROVE  UNCHANGED Slot!slotVars
    BY <1>8, ShownStutters DEF SpawnFails, ReaderCheck, ReaderSelect, ReaderKeeps,
       ColconWrites, ColconKeeps, Shown, build, waiter, reader, closer
<1>9. ASSUME NEW b \in Build, ReaderRead(b), ~Readable(b) PROVE UNCHANGED Slot!slotVars
    BY <1>9, ShownStutters
       DEF IInv, TypeOK, ReaderRead, ReaderKeeps, Shown, build, waiter, closer
<1>10. ~Shutdown /\ \A b \in Build : ~ColconDies(b)
    BY DEF IInv, IdleShape, Shutdown, ShutdownKill, ShutdownLocks, ShutdownUnlocks,
           ShutdownClears, ShutdownEntersJoin, ShutdownJoins, ShutdownCloses,
           ShutdownReaps, ShutdownGoto, ColconDies
<1>11. UNCHANGED vars => UNCHANGED Slot!slotVars
    BY ShownStutters DEF vars, Shown, build, waiter, reader, closer
<1> QED
    BY <1>1, <1>2, <1>3, <1>4, <1>5, <1>6, <1>7, <1>8, <1>9, <1>10, <1>11
       DEF Next, Ended, Reader, Waiter, Slot!Next

(* The builds are those of BuildSlot, whatever threads and processes do.       *)
THEOREM RefinesSlot == Spec => Slot!Safety
<1>1. Init => Slot!Init
    BY DEF Init, Slot!Init, Live
<1>2. IInv /\ IInv' /\ [Next]_vars => [Slot!Next]_(Slot!slotVars)
  <2> SUFFICES ASSUME IInv, IInv', [Next]_vars PROVE [Slot!Next]_(Slot!slotVars)
      OBVIOUS
  <2>1. CASE spc = "idle"
      BY <2>1, SlotStep
  <2>2. CASE spc # "idle"
      BY <2>2, GoneForGood DEF Slot!Next, Slot!Replaced
  <2> QED
      BY <2>1, <2>2
<1> QED
    BY <1>1, <1>2, Inductive, PTL DEF Spec, Slot!Safety
=============================================================================
