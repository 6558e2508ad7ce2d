---------------------------- MODULE SystemProofs ----------------------------
(* Proofs about what the handlers ask of the operating system, processes and   *)
(* files.  One streaming subprocess, for any number of output pipes and any    *)
(* amount of output: one path cleans up, a stream nobody stops reports its     *)
(* exit last, and a stop that comes after that can at worst write to a         *)
(* descriptor the waiter has closed.  The files of a workspace, for any        *)
(* requests, names and first disks: unless a flush fails unseen a reader gets  *)
(* a whole content, a walk finds what does not change, and only requests that  *)
(* race, links that go round and contents that are not UTF-8 make requests     *)
(* fail for internal reasons or leave temporary files.                         *)
EXTENDS SubprocessStream, MCFileStore, FiniteSetTheorems, SequenceTheorems, TLAPS

WaiterBefore == {"none", "start", "wait", "flag", "pipe", "exchange"}
WaiterAfter == {"callback", "done"}
StopBefore == {"idle", "check", "term", "kill", "pipe", "exchange"}

(* Nothing has happened before start_streaming.                                *)
StartShape ==
    /\ wpc = "none" <=> child = "none"
    /\ fds = "none" <=> child = "none"
    /\ child = "none" => spc = "idle" /\ fault = "none"
    /\ told <=> wpc = "done"

(* A reader that has ended has delivered what it has read.                     *)
ReaderShape == \A r \in Readers : rpc[r] = "done" => out[r] = taken[r]

(* cleaned is set by the first exchange, and not before; whoever made it joins *)
(* and closes alone.                                                           *)
OneCleans ==
    /\ ~cleaned => wpc \in WaiterBefore /\ spc \in StopBefore
    /\ cleaned => wpc \notin WaiterBefore \/ spc \notin StopBefore
    /\ wpc \in {"join", "close"} => spc \notin {"join", "close", "reap"}
    /\ fds = "closed" =>
          joined /\ wpc \notin {"join", "close"} /\ spc \notin {"join", "close"}
    /\ wpc = "close" \/ spc = "close" => joined
    /\ joined => AllRead /\ cleaned

(* A waiter that has reaped clears "running"; one that is past its exchange    *)
(* while no stop is past its own has done all the cleaning.                    *)
WaiterCleaned ==
    /\ wpc \notin {"none", "start", "wait", "flag"} => ~running
    /\ wpc \in WaiterAfter /\ spc \in StopBefore => joined /\ fds = "closed"

(* A stop after on_exit finds everything cleaned and signals nobody; only its  *)
(* write to the shutdown pipe can go astray.                                   *)
CalmStop ==
    calm => /\ wpc \in WaiterAfter /\ joined /\ cleaned
            /\ spc \in {"check", "pipe", "exchange", "free", "done"}
            /\ fault # "none" => fault = "foreign" /\ spc = "exchange"

NoDoubleClose == fault # "double_close"

Clean == StartShape /\ OneCleans /\ WaiterCleaned /\ CalmStop /\ NoDoubleClose

IInv ==
    /\ TypeOK
    /\ StartShape
    /\ ReaderShape
    /\ OneCleans
    /\ WaiterCleaned
    /\ CalmStop
    /\ NoDoubleClose

-----------------------------------------------------------------------------
(* At first there is no child.                                                 *)
LEMMA InitIInv == Init => IInv
<1> SUFFICES ASSUME Init PROVE IInv
    OBVIOUS
<1> USE DEF Init
<1>1. TypeOK
  <2>1. 0 \in 0..MaxChunks
      BY MaxChunksAssumption
  <2>2. rpc \in [Readers -> ReaderPC]
      BY DEF ReaderPC
  <2>3. /\ made \in [Readers -> 0..MaxChunks] /\ taken \in [Readers -> 0..MaxChunks]
        /\ out \in [Readers -> 0..MaxChunks]
      BY <2>1
  <2>4. \A r \in Readers : out[r] <= taken[r] /\ taken[r] <= made[r]
    <3>1. \A r \in Readers : out[r] = 0 /\ taken[r] = 0 /\ made[r] = 0
        OBVIOUS
    <3> HIDE DEF Init
    <3>2. SUFFICES ASSUME NEW r \in Readers PROVE out[r] <= taken[r] /\ taken[r] <= made[r]
        OBVIOUS
    <3>3. out[r] \in Nat /\ taken[r] \in Nat /\ made[r] \in Nat
        BY <3>1
    <3> QED
        BY <3>1, <3>3
  <2>5. /\ child \in ChildState /\ wpc \in WaiterPC /\ spc \in StopPC /\ fault \in Faults
        /\ fds \in {"none", "open", "closed"}
        /\ {running, cleaned, pipe, joined, freed, told, calm} \subseteq BOOLEAN
      BY DEF ChildState, WaiterPC, StopPC, Faults
  <2> HIDE DEF Init
  <2> QED
      BY <2>2, <2>3, <2>4, <2>5 DEF TypeOK
<1>2. StartShape /\ ReaderShape /\ NoDoubleClose
    BY DEF StartShape, ReaderShape, NoDoubleClose
<1>3. OneCleans /\ WaiterCleaned /\ CalmStop
    BY DEF OneCleans, WaiterCleaned, CalmStop, WaiterBefore, WaiterAfter, StopBefore
<1> QED
    BY <1>1, <1>2, <1>3 DEF IInv

(* start_streaming.                                                            *)
LEMMA StartStep ==
    ASSUME IInv, Start
    PROVE  IInv'
<1> USE DEF Start
<1>1. TypeOK'
    BY DEF IInv, TypeOK, ChildState, WaiterPC, ReaderPC
<1>2. ReaderShape'
    BY DEF ReaderShape
<1>3. StartShape' /\ NoDoubleClose'
    BY DEF IInv, StartShape, NoDoubleClose
<1>4. OneCleans' /\ WaiterCleaned' /\ CalmStop'
    BY DEF IInv, StartShape, OneCleans, WaiterCleaned, CalmStop, WaiterBefore, WaiterAfter,
           StopBefore
<1> QED
    BY <1>1, <1>2, <1>3, <1>4 DEF IInv

(* The types of what is not the readers'.                                      *)
Typed ==
    /\ child \in ChildState
    /\ running \in BOOLEAN /\ cleaned \in BOOLEAN /\ pipe \in BOOLEAN
    /\ fds \in {"none", "open", "closed"}
    /\ joined \in BOOLEAN /\ freed \in BOOLEAN
    /\ told \in BOOLEAN /\ calm \in BOOLEAN
    /\ wpc \in WaiterPC /\ spc \in StopPC
    /\ fault \in Faults

(* A step that leaves the readers alone need be typed only in the rest.        *)
LEMMA TypeKept ==
    /\ TypeOK => Typed
    /\ TypeOK /\ Typed' /\ UNCHANGED stream => TypeOK'
    BY DEF TypeOK, Typed, stream

(* A step that leaves the readers and their output alone.                      *)
LEMMA ReadersKept ==
    ASSUME ReaderShape, UNCHANGED stream
    PROVE  ReaderShape' /\ (AllRead' <=> AllRead)
    BY DEF ReaderShape, stream, AllRead

(* A reader that has ended has ended for good, and does not end early.         *)
LEMMA ReaderStep ==
    ASSUME IInv, NEW r \in Readers, Reader(r)
    PROVE  IInv'
<1>1. /\ ReaderKeeps /\ rpc[r] # "done" /\ Alive
      /\ \E l \in ReaderPC : rpc' = [rpc EXCEPT ![r] = l]
    BY DEF Reader, ReaderCheck, ReaderSelect, ReaderRead, ReaderEof, ReaderFlush,
       ReaderGoto,
           ReaderPC
<1>2. TypeOK'
  <2>1. ~(ReaderRead(r) \/ ReaderFlush(r)) => UNCHANGED <<taken, out>>
      BY DEF Reader, ReaderCheck, ReaderSelect, ReaderEof
  <2>2. ASSUME ReaderRead(r) PROVE TypeOK'
      BY <1>1, <2>2, MaxChunksAssumption
         DEF IInv, TypeOK, ReaderRead, ReaderKeeps, Unread, handle
  <2>3. ASSUME ReaderFlush(r) PROVE TypeOK'
      BY <1>1, <2>3 DEF IInv, TypeOK, ReaderFlush, Flushed, ReaderKeeps, handle
  <2> QED
      BY <1>1, <2>1, <2>2, <2>3 DEF IInv, TypeOK, ReaderKeeps, handle
<1>3. ReaderShape'
  <2>1. CASE ReaderFlush(r)
      BY <2>1 DEF IInv, TypeOK, ReaderShape, ReaderFlush, ReaderGoto, Flushed
  <2>2. CASE ~ReaderFlush(r)
    <3>1. rpc'[r] # "done"
        BY <2>2 DEF IInv, TypeOK, Reader, ReaderCheck, ReaderSelect, ReaderRead, ReaderEof,
                    ReaderGoto
    <3>2. \A q \in Readers \ {r} :
              rpc'[q] = rpc[q] /\ out'[q] = out[q] /\ taken'[q] = taken[q]
        BY <1>1, <2>2 DEF IInv, TypeOK, Reader, ReaderCheck, ReaderSelect, ReaderRead,
           ReaderEof
    <3> QED
        BY <3>1, <3>2 DEF IInv, ReaderShape
  <2> QED
      BY <2>1, <2>2
<1>4. ~AllRead
    BY <1>1 DEF AllRead
<1>5. StartShape' /\ CalmStop' /\ NoDoubleClose'
    BY <1>1 DEF IInv, ReaderKeeps, handle, StartShape, CalmStop, NoDoubleClose
<1>6. OneCleans' /\ WaiterCleaned'
    BY <1>1, <1>4 DEF IInv, ReaderKeeps, handle, OneCleans, WaiterCleaned
<1> QED
    BY <1>2, <1>3, <1>5, <1>6 DEF IInv

(* The exit-waiter: nothing it does on its way to the callback is undone.      *)
LEMMA WaiterStep ==
    ASSUME IInv, Waiter
    PROVE  IInv'
<1>1. UNCHANGED <<stream, spc, calm>>
    BY DEF Waiter, WaiterStart, WaiterReaps, WaiterFlag, WaiterPipe, WaiterExchange,
       WaiterJoin,
           WaiterClose, WaiterCallback, WaiterTouchesFreed, WaiterGoto, WaiterKeeps, CloseAll
<1>2. ReaderShape' /\ (AllRead' <=> AllRead)
    BY <1>1, ReadersKept DEF IInv
<1> USE <1>2
<1>3. ASSUME WaiterStart PROVE TypeOK' /\ Clean'
  <2>1. TypeOK'
    <3>1. Typed'
        BY <1>3, TypeKept DEF IInv, Typed, WaiterStart, handle, ChildState, WaiterPC,
           Faults, WaiterGoto, WaiterKeeps
    <3> QED
        BY <1>1, <3>1, TypeKept DEF IInv
  <2>2. StartShape' /\ NoDoubleClose'
      BY <1>1, <1>3 DEF IInv, TypeOK, StartShape, OneCleans, NoDoubleClose, WaiterStart,
         handle, WaiterGoto, WaiterKeeps
  <2>3. OneCleans'
      BY <1>1, <1>3 DEF IInv, TypeOK, StartShape, OneCleans, WaiterBefore, StopBefore,
         WaiterStart, handle, WaiterGoto, WaiterKeeps
  <2>4. WaiterCleaned' /\ CalmStop'
      BY <1>1, <1>3 DEF IInv, TypeOK, OneCleans, WaiterCleaned, CalmStop, WaiterBefore,
         WaiterAfter, StopBefore, WaiterStart, handle, WaiterGoto, WaiterKeeps
  <2> QED
      BY <2>1, <2>2, <2>3, <2>4 DEF Clean
<1>4. ASSUME WaiterReaps PROVE TypeOK' /\ Clean'
  <2>1. TypeOK'
    <3>1. Typed'
        BY <1>4, TypeKept DEF IInv, Typed, MayStray, WaiterReaps, handle, ChildState, WaiterPC,
           Faults, WaiterGoto, WaiterKeeps, Gone, Alive
    <3> QED
        BY <1>1, <3>1, TypeKept DEF IInv
  <2>2. StartShape' /\ NoDoubleClose'
      BY <1>1, <1>4 DEF IInv, TypeOK, StartShape, OneCleans, NoDoubleClose, MayStray, WaiterReaps,
         handle, WaiterGoto, WaiterKeeps, Gone, Alive
  <2>3. OneCleans'
      BY <1>1, <1>4 DEF IInv, TypeOK, StartShape, OneCleans, WaiterBefore, StopBefore,
         MayStray, WaiterReaps, handle, WaiterGoto, WaiterKeeps, Gone, Alive
  <2>4. WaiterCleaned' /\ CalmStop'
      BY <1>1, <1>4 DEF IInv, TypeOK, OneCleans, WaiterCleaned, CalmStop, WaiterBefore,
         WaiterAfter, StopBefore, MayStray, WaiterReaps, handle, WaiterGoto, WaiterKeeps, Gone, Alive
  <2> QED
      BY <2>1, <2>2, <2>3, <2>4 DEF Clean
<1>5. ASSUME WaiterFlag PROVE TypeOK' /\ Clean'
  <2>1. TypeOK'
    <3>0. running' \in BOOLEAN
        BY <1>5, TypeKept DEF WaiterFlag, IInv, Typed
    <3>1. Typed'
        BY <3>0, <1>5, TypeKept DEF IInv, Typed, WaiterFlag, handle, ChildState, WaiterPC, Faults,
           WaiterGoto, WaiterKeeps
    <3> QED
        BY <1>1, <3>1, TypeKept DEF IInv
  <2>2. StartShape' /\ NoDoubleClose'
      BY <1>1, <1>5 DEF IInv, TypeOK, StartShape, OneCleans, NoDoubleClose, WaiterFlag,
         handle, WaiterGoto, WaiterKeeps
  <2>3. OneCleans'
      BY <1>1, <1>5 DEF IInv, TypeOK, StartShape, OneCleans, WaiterBefore, StopBefore,
         WaiterFlag, handle, WaiterGoto, WaiterKeeps
  <2>4. WaiterCleaned' /\ CalmStop'
      BY <1>1, <1>5 DEF IInv, TypeOK, OneCleans, WaiterCleaned, CalmStop, WaiterBefore,
         WaiterAfter, StopBefore, WaiterFlag, handle, WaiterGoto, WaiterKeeps
  <2> QED
      BY <2>1, <2>2, <2>3, <2>4 DEF Clean
<1>6. ASSUME WaiterPipe PROVE TypeOK' /\ Clean'
  <2>1. TypeOK'
    <3>1. Typed'
        BY <1>6, TypeKept DEF IInv, Typed, MayStray, WaiterPipe, handle, ChildState, WaiterPC, Faults,
           WaiterGoto, WaiterKeeps
    <3> QED
        BY <1>1, <3>1, TypeKept DEF IInv
  <2>2. StartShape' /\ NoDoubleClose'
      BY <1>1, <1>6 DEF IInv, TypeOK, StartShape, OneCleans, NoDoubleClose, MayStray, WaiterPipe,
         handle, WaiterGoto, WaiterKeeps
  <2>3. OneCleans'
      BY <1>1, <1>6 DEF IInv, TypeOK, StartShape, OneCleans, WaiterBefore, StopBefore,
         MayStray, WaiterPipe, handle, WaiterGoto, WaiterKeeps
  <2>4. WaiterCleaned' /\ CalmStop'
      BY <1>1, <1>6 DEF IInv, TypeOK, OneCleans, WaiterCleaned, CalmStop, WaiterBefore,
         WaiterAfter, StopBefore, MayStray, WaiterPipe, handle, WaiterGoto, WaiterKeeps
  <2> QED
      BY <2>1, <2>2, <2>3, <2>4 DEF Clean
<1>7. ASSUME WaiterExchange PROVE TypeOK' /\ Clean'
  <2>1. TypeOK'
    <3>1. Typed'
        BY <1>7, TypeKept DEF IInv, Typed, WaiterExchange, handle, ChildState, WaiterPC,
           Faults, WaiterGoto, WaiterKeeps, AfterExchange, Exchanged
    <3> QED
        BY <1>1, <3>1, TypeKept DEF IInv
  <2>2. StartShape' /\ NoDoubleClose'
      BY <1>1, <1>7 DEF IInv, TypeOK, StartShape, OneCleans, NoDoubleClose, WaiterExchange,
         handle, WaiterGoto, WaiterKeeps, AfterExchange, Exchanged
  <2>3. OneCleans'
      BY <1>1, <1>7 DEF IInv, TypeOK, StartShape, OneCleans, WaiterBefore, StopBefore,
         WaiterExchange, handle, WaiterGoto, WaiterKeeps, AfterExchange, Exchanged
  <2>4. WaiterCleaned' /\ CalmStop'
      BY <1>1, <1>7 DEF IInv, TypeOK, OneCleans, WaiterCleaned, CalmStop, WaiterBefore,
         WaiterAfter, StopBefore, WaiterExchange, handle, WaiterGoto, WaiterKeeps,
         AfterExchange, Exchanged
  <2> QED
      BY <2>1, <2>2, <2>3, <2>4 DEF Clean
<1>8. ASSUME WaiterJoin PROVE TypeOK' /\ Clean'
  <2>1. TypeOK'
    <3>1. Typed'
        BY <1>8, TypeKept DEF IInv, Typed, WaiterJoin, handle, ChildState, WaiterPC, Faults,
           WaiterGoto, WaiterKeeps
    <3> QED
        BY <1>1, <3>1, TypeKept DEF IInv
  <2>2. StartShape' /\ NoDoubleClose'
      BY <1>1, <1>8 DEF IInv, TypeOK, StartShape, OneCleans, NoDoubleClose, WaiterJoin,
         handle, WaiterGoto, WaiterKeeps
  <2>3. OneCleans'
      BY <1>1, <1>8 DEF IInv, TypeOK, StartShape, OneCleans, WaiterBefore, StopBefore,
         WaiterJoin, handle, WaiterGoto, WaiterKeeps
  <2>4. WaiterCleaned' /\ CalmStop'
      BY <1>1, <1>8 DEF IInv, TypeOK, OneCleans, WaiterCleaned, CalmStop, WaiterBefore,
         WaiterAfter, StopBefore, WaiterJoin, handle, WaiterGoto, WaiterKeeps
  <2> QED
      BY <2>1, <2>2, <2>3, <2>4 DEF Clean
<1>9. ASSUME WaiterClose PROVE TypeOK' /\ Clean'
  <2>0. fds = "open" /\ fds' = "closed" /\ joined /\ cleaned /\ UNCHANGED <<child, fault>>
    <3>1. fds # "none" /\ fds # "closed"
        BY <1>9 DEF IInv, StartShape, OneCleans, WaiterClose, WaiterGoto, WaiterBefore
    <3>2. joined /\ cleaned
        BY <1>9 DEF IInv, OneCleans, WaiterClose, WaiterGoto
    <3> QED
        BY <1>9, <3>1, <3>2 DEF IInv, TypeOK, WaiterClose, CloseAll, handle
  <2>1. TypeOK'
    <3>1. Typed'
        BY <2>0, <1>9, TypeKept DEF IInv, Typed, WaiterClose, handle, ChildState, WaiterPC,
           Faults, WaiterGoto, WaiterKeeps
    <3> QED
        BY <1>1, <3>1, TypeKept DEF IInv
  <2>2. StartShape' /\ NoDoubleClose'
      BY <1>1, <2>0, <1>9 DEF IInv, TypeOK, StartShape, OneCleans, NoDoubleClose,
         WaiterClose, handle, WaiterGoto, WaiterKeeps
  <2>3. OneCleans'
      BY <1>1, <2>0, <1>9 DEF IInv, TypeOK, StartShape, OneCleans, WaiterBefore, StopBefore,
         WaiterClose, handle, WaiterGoto, WaiterKeeps
  <2>4. WaiterCleaned' /\ CalmStop'
      BY <1>1, <2>0, <1>9 DEF IInv, TypeOK, OneCleans, WaiterCleaned, CalmStop,
         WaiterBefore, WaiterAfter, StopBefore, WaiterClose, handle, WaiterGoto, WaiterKeeps
  <2> QED
      BY <2>1, <2>2, <2>3, <2>4 DEF Clean
<1>10. ASSUME WaiterCallback PROVE TypeOK' /\ Clean'
  <2>1. TypeOK'
    <3>1. Typed'
        BY <1>10, TypeKept DEF IInv, Typed, WaiterCallback, handle, ChildState, WaiterPC,
           Faults, WaiterGoto, WaiterKeeps, Alive
    <3> QED
        BY <1>1, <3>1, TypeKept DEF IInv
  <2>2. StartShape' /\ NoDoubleClose'
      BY <1>1, <1>10 DEF IInv, TypeOK, StartShape, OneCleans, NoDoubleClose, WaiterCallback,
         handle, WaiterGoto, WaiterKeeps, Alive
  <2>3. OneCleans'
      BY <1>1, <1>10 DEF IInv, TypeOK, StartShape, OneCleans, WaiterBefore, StopBefore,
         WaiterCallback, handle, WaiterGoto, WaiterKeeps, Alive
  <2>4. WaiterCleaned' /\ CalmStop'
      BY <1>1, <1>10 DEF IInv, TypeOK, OneCleans, WaiterCleaned, CalmStop, WaiterBefore,
         WaiterAfter, StopBefore, WaiterCallback, handle, WaiterGoto, WaiterKeeps, Alive
  <2> QED
      BY <2>1, <2>2, <2>3, <2>4 DEF Clean
<1>11. ASSUME WaiterTouchesFreed PROVE TypeOK' /\ Clean'
  <2>1. TypeOK'
    <3>1. Typed'
        BY <1>11, TypeKept DEF IInv, Typed, WaiterTouchesFreed, handle, ChildState,
           WaiterPC, Faults, WaiterGoto, WaiterKeeps, Alive
    <3> QED
        BY <1>1, <3>1, TypeKept DEF IInv
  <2>2. StartShape' /\ NoDoubleClose'
      BY <1>1, <1>11 DEF IInv, TypeOK, StartShape, OneCleans, NoDoubleClose,
         WaiterTouchesFreed, handle, WaiterGoto, WaiterKeeps, Alive
  <2>3. OneCleans'
      BY <1>1, <1>11 DEF IInv, TypeOK, StartShape, OneCleans, WaiterBefore, StopBefore,
         WaiterTouchesFreed, handle, WaiterGoto, WaiterKeeps, Alive
  <2>4. WaiterCleaned' /\ CalmStop'
      BY <1>1, <1>11 DEF IInv, TypeOK, OneCleans, WaiterCleaned, CalmStop, WaiterBefore,
         WaiterAfter, StopBefore, WaiterTouchesFreed, handle, WaiterGoto, WaiterKeeps, Alive
  <2> QED
      BY <2>1, <2>2, <2>3, <2>4 DEF Clean
<1> QED
    BY <1>2, <1>3, <1>4, <1>5, <1>6, <1>7, <1>8, <1>9, <1>10, <1>11 DEF Waiter, IInv, Clean

(* A stop begins.                                                              *)
LEMMA StopBeginStep ==
    ASSUME IInv, StopBegin
    PROVE  IInv'
<1> USE DEF StopBegin, StopGoto, StopKeeps, handle
<1>1. UNCHANGED stream
    OBVIOUS
<1>2. TypeOK'
    BY DEF IInv, TypeOK, stream, StopPC
<1>3. ReaderShape' /\ (AllRead' <=> AllRead)
    BY <1>1, ReadersKept DEF IInv
<1>4. StartShape' /\ OneCleans' /\ WaiterCleaned' /\ NoDoubleClose'
    BY <1>3 DEF IInv, StartShape, OneCleans, WaiterCleaned, NoDoubleClose, StopBefore
<1>5. CalmStop'
    BY DEF IInv, WaiterCleaned, OneCleans, CalmStop, WaiterBefore, WaiterAfter, StopBefore,
       Alive
<1> QED
    BY <1>2, <1>3, <1>4, <1>5 DEF IInv

(* The rest of the stop, which cleans only if its exchange was the first.      *)
LEMMA StopStep ==
    ASSUME IInv, Stop
    PROVE  IInv'
<1>1. UNCHANGED <<stream, wpc, told, calm>>
    BY DEF Stop, StopCheck, StopTerm, StopKill, StopPipe, StopExchange, StopJoin, StopClose,
           StopReaps, StopFrees, StopKeeps, CloseAll
<1>2. ReaderShape' /\ (AllRead' <=> AllRead)
    BY <1>1, ReadersKept DEF IInv
<1> USE <1>2
<1>3. ASSUME StopCheck PROVE TypeOK' /\ Clean'
  <2>1. TypeOK'
    <3>1. Typed'
        BY <1>3, TypeKept DEF IInv, Typed, StopCheck, handle, ChildState, StopPC, Faults,
           StopGoto, StopKeeps
    <3> QED
        BY <1>1, <3>1, TypeKept DEF IInv
  <2>2. StartShape' /\ NoDoubleClose'
      BY <1>1, <1>3 DEF IInv, TypeOK, StartShape, OneCleans, NoDoubleClose, StopCheck,
         handle, StopGoto, StopKeeps, Alive
  <2>3. OneCleans'
      BY <1>1, <1>3 DEF IInv, TypeOK, StartShape, OneCleans, WaiterBefore, StopBefore,
         StopCheck, handle, StopGoto, StopKeeps, Alive
  <2>4. WaiterCleaned' /\ CalmStop'
      BY <1>1, <1>3 DEF IInv, TypeOK, OneCleans, WaiterCleaned, CalmStop, WaiterBefore,
         WaiterAfter, StopBefore, StopCheck, handle, StopGoto, StopKeeps, Alive
  <2> QED
      BY <2>1, <2>2, <2>3, <2>4 DEF Clean
<1>4. ASSUME StopTerm PROVE TypeOK' /\ Clean'
  <2>1. TypeOK'
    <3>0. running' \in BOOLEAN
        BY <1>4, TypeKept DEF StopTerm, IInv, Typed
    <3>1. Typed'
        BY <3>0, <1>4, TypeKept DEF IInv, Typed, MayStray, StopTerm, handle, ChildState, StopPC, Faults,
           StopGoto, StopKeeps
    <3> QED
        BY <1>1, <3>1, TypeKept DEF IInv
  <2>2. StartShape' /\ NoDoubleClose'
      BY <1>1, <1>4 DEF IInv, TypeOK, StartShape, OneCleans, NoDoubleClose, MayStray, StopTerm,
         handle, StopGoto, StopKeeps, Alive
  <2>3. OneCleans'
      BY <1>1, <1>4 DEF IInv, TypeOK, StartShape, OneCleans, WaiterBefore, StopBefore,
         MayStray, StopTerm, handle, StopGoto, StopKeeps, Alive
  <2>4. WaiterCleaned' /\ CalmStop'
      BY <1>1, <1>4 DEF IInv, TypeOK, OneCleans, WaiterCleaned, CalmStop, WaiterBefore,
         WaiterAfter, StopBefore, MayStray, StopTerm, handle, StopGoto, StopKeeps, Alive
  <2> QED
      BY <2>1, <2>2, <2>3, <2>4 DEF Clean
<1>5. ASSUME StopKill PROVE TypeOK' /\ Clean'
  <2>1. TypeOK'
    <3>1. Typed'
        BY <1>5, TypeKept DEF IInv, Typed, MayStray, StopKill, handle, ChildState, StopPC, Faults,
           StopGoto, StopKeeps, Signalled
    <3> QED
        BY <1>1, <3>1, TypeKept DEF IInv
  <2>2. StartShape' /\ NoDoubleClose'
      BY <1>1, <1>5 DEF IInv, TypeOK, StartShape, OneCleans, NoDoubleClose, MayStray, StopKill,
         handle, StopGoto, StopKeeps, Alive, Signalled
  <2>3. OneCleans'
      BY <1>1, <1>5 DEF IInv, TypeOK, StartShape, OneCleans, WaiterBefore, StopBefore,
         MayStray, StopKill, handle, StopGoto, StopKeeps, Alive, Signalled
  <2>4. WaiterCleaned' /\ CalmStop'
      BY <1>1, <1>5 DEF IInv, TypeOK, OneCleans, WaiterCleaned, CalmStop, WaiterBefore,
         WaiterAfter, StopBefore, MayStray, StopKill, handle, StopGoto, StopKeeps, Alive, Signalled
  <2> QED
      BY <2>1, <2>2, <2>3, <2>4 DEF Clean
<1>6. ASSUME StopPipe PROVE TypeOK' /\ Clean'
  <2>1. TypeOK'
    <3>1. Typed'
        BY <1>6, TypeKept DEF IInv, Typed, MayStray, StopPipe, handle, ChildState, StopPC, Faults,
           StopGoto, StopKeeps
    <3> QED
        BY <1>1, <3>1, TypeKept DEF IInv
  <2>2. StartShape' /\ NoDoubleClose'
      BY <1>1, <1>6 DEF IInv, TypeOK, StartShape, OneCleans, NoDoubleClose, MayStray, StopPipe,
         handle, StopGoto, StopKeeps, Alive
  <2>3. OneCleans'
      BY <1>1, <1>6 DEF IInv, TypeOK, StartShape, OneCleans, WaiterBefore, StopBefore,
         MayStray, StopPipe, handle, StopGoto, StopKeeps, Alive
  <2>4. WaiterCleaned' /\ CalmStop'
      BY <1>1, <1>6 DEF IInv, TypeOK, OneCleans, WaiterCleaned, CalmStop, WaiterBefore,
         WaiterAfter, StopBefore, MayStray, StopPipe, handle, StopGoto, StopKeeps, Alive
  <2> QED
      BY <2>1, <2>2, <2>3, <2>4 DEF Clean
<1>7. ASSUME StopExchange PROVE TypeOK' /\ Clean'
  <2>1. TypeOK'
    <3>1. Typed'
        BY <1>7, TypeKept DEF IInv, Typed, StopExchange, handle, ChildState, StopPC, Faults,
           StopGoto, StopKeeps
    <3> QED
        BY <1>1, <3>1, TypeKept DEF IInv
  <2>2. StartShape' /\ NoDoubleClose'
      BY <1>1, <1>7 DEF IInv, TypeOK, StartShape, OneCleans, NoDoubleClose, StopExchange,
         handle, StopGoto, StopKeeps, Alive
  <2>3. OneCleans'
      BY <1>1, <1>7 DEF IInv, TypeOK, StartShape, OneCleans, WaiterBefore, StopBefore,
         StopExchange, handle, StopGoto, StopKeeps, Alive
  <2>4. WaiterCleaned' /\ CalmStop'
      BY <1>1, <1>7 DEF IInv, TypeOK, OneCleans, WaiterCleaned, CalmStop, WaiterBefore,
         WaiterAfter, StopBefore, StopExchange, handle, StopGoto, StopKeeps, Alive
  <2> QED
      BY <2>1, <2>2, <2>3, <2>4 DEF Clean
<1>8. ASSUME StopJoin PROVE TypeOK' /\ Clean'
  <2>1. TypeOK'
    <3>1. Typed'
        BY <1>8, TypeKept DEF IInv, Typed, StopJoin, handle, ChildState, StopPC, Faults,
           StopGoto, StopKeeps
    <3> QED
        BY <1>1, <3>1, TypeKept DEF IInv
  <2>2. StartShape' /\ NoDoubleClose'
      BY <1>1, <1>8 DEF IInv, TypeOK, StartShape, OneCleans, NoDoubleClose, StopJoin,
         handle, StopGoto, StopKeeps, Alive
  <2>3. OneCleans'
      BY <1>1, <1>8 DEF IInv, TypeOK, StartShape, OneCleans, WaiterBefore, StopBefore,
         StopJoin, handle, StopGoto, StopKeeps, Alive
  <2>4. WaiterCleaned' /\ CalmStop'
      BY <1>1, <1>8 DEF IInv, TypeOK, OneCleans, WaiterCleaned, CalmStop, WaiterBefore,
         WaiterAfter, StopBefore, StopJoin, handle, StopGoto, StopKeeps, Alive
  <2> QED
      BY <2>1, <2>2, <2>3, <2>4 DEF Clean
<1>9. ASSUME StopClose PROVE TypeOK' /\ Clean'
  <2>0. fds = "open" /\ fds' = "closed" /\ joined /\ cleaned /\ UNCHANGED <<child, fault>>
    <3>1. fds # "none" /\ fds # "closed"
        BY <1>9 DEF IInv, StartShape, OneCleans, StopClose, StopGoto, WaiterBefore
    <3>2. joined /\ cleaned
        BY <1>9 DEF IInv, OneCleans, StopClose, StopGoto
    <3> QED
        BY <1>9, <3>1, <3>2 DEF IInv, TypeOK, StopClose, CloseAll, handle
  <2>1. TypeOK'
    <3>1. Typed'
        BY <2>0, <1>9, TypeKept DEF IInv, Typed, StopClose, handle, ChildState, StopPC,
           Faults, StopGoto, StopKeeps
    <3> QED
        BY <1>1, <3>1, TypeKept DEF IInv
  <2>2. StartShape' /\ NoDoubleClose'
      BY <1>1, <2>0, <1>9 DEF IInv, TypeOK, StartShape, OneCleans, NoDoubleClose, StopClose,
         handle, StopGoto, StopKeeps, Alive
  <2>3. OneCleans'
      BY <1>1, <2>0, <1>9 DEF IInv, TypeOK, StartShape, OneCleans, WaiterBefore, StopBefore,
         StopClose, handle, StopGoto, StopKeeps, Alive
  <2>4. WaiterCleaned' /\ CalmStop'
      BY <1>1, <2>0, <1>9 DEF IInv, TypeOK, OneCleans, WaiterCleaned, CalmStop,
         WaiterBefore, WaiterAfter, StopBefore, StopClose, handle, StopGoto, StopKeeps,
         Alive
  <2> QED
      BY <2>1, <2>2, <2>3, <2>4 DEF Clean
<1>10. ASSUME StopReaps PROVE TypeOK' /\ Clean'
  <2>1. TypeOK'
    <3>1. Typed'
        BY <1>10, TypeKept DEF IInv, Typed, MayStray, StopReaps, handle, ChildState, StopPC, Faults,
           StopGoto, StopKeeps, Gone
    <3> QED
        BY <1>1, <3>1, TypeKept DEF IInv
  <2>2. StartShape' /\ NoDoubleClose'
      BY <1>1, <1>10 DEF IInv, TypeOK, StartShape, OneCleans, NoDoubleClose, MayStray, StopReaps,
         handle, StopGoto, StopKeeps, Alive, Gone
  <2>3. OneCleans'
      BY <1>1, <1>10 DEF IInv, TypeOK, StartShape, OneCleans, WaiterBefore, StopBefore,
         MayStray, StopReaps, handle, StopGoto, StopKeeps, Alive, Gone
  <2>4. WaiterCleaned' /\ CalmStop'
      BY <1>1, <1>10 DEF IInv, TypeOK, OneCleans, WaiterCleaned, CalmStop, WaiterBefore,
         WaiterAfter, StopBefore, MayStray, StopReaps, handle, StopGoto, StopKeeps, Alive, Gone
  <2> QED
      BY <2>1, <2>2, <2>3, <2>4 DEF Clean
<1>11. ASSUME StopFrees PROVE TypeOK' /\ Clean'
  <2>1. TypeOK'
    <3>0. freed' \in BOOLEAN
        BY <1>11, TypeKept DEF StopFrees, IInv, Typed
    <3>1. Typed'
        BY <3>0, <1>11, TypeKept DEF IInv, Typed, StopFrees, handle, ChildState, StopPC, Faults,
           StopGoto, StopKeeps
    <3> QED
        BY <1>1, <3>1, TypeKept DEF IInv
  <2>2. StartShape' /\ NoDoubleClose'
      BY <1>1, <1>11 DEF IInv, TypeOK, StartShape, OneCleans, NoDoubleClose, StopFrees,
         handle, StopGoto, StopKeeps, Alive
  <2>3. OneCleans'
      BY <1>1, <1>11 DEF IInv, TypeOK, StartShape, OneCleans, WaiterBefore, StopBefore,
         StopFrees, handle, StopGoto, StopKeeps, Alive
  <2>4. WaiterCleaned' /\ CalmStop'
      BY <1>1, <1>11 DEF IInv, TypeOK, OneCleans, WaiterCleaned, CalmStop, WaiterBefore,
         WaiterAfter, StopBefore, StopFrees, handle, StopGoto, StopKeeps, Alive
  <2> QED
      BY <2>1, <2>2, <2>3, <2>4 DEF Clean
<1> QED
    BY <1>2, <1>3, <1>4, <1>5, <1>6, <1>7, <1>8, <1>9, <1>10, <1>11 DEF Stop, IInv, Clean

(* The child writes and dies.                                                  *)
LEMMA ChildStep ==
    ASSUME IInv, ChildStarts \/ ChildExits \/ ChildDies \/ \E r \in Readers : ChildWrites(r)
    PROVE  IInv'
<1> USE DEF ChildStarts, ChildExits, ChildDies, ChildWrites, ChildKeeps, handle
<1>1. UNCHANGED <<rpc, taken, out>>
    OBVIOUS
<1>2. TypeOK'
    BY <1>1, MaxChunksAssumption DEF IInv, TypeOK, ChildState
<1>3. ReaderShape' /\ (AllRead' <=> AllRead)
    BY <1>1 DEF IInv, ReaderShape, AllRead
<1>4. StartShape' /\ OneCleans' /\ WaiterCleaned' /\ CalmStop' /\ NoDoubleClose'
    BY <1>3 DEF IInv, StartShape, OneCleans, WaiterCleaned, CalmStop, NoDoubleClose
<1> QED
    BY <1>2, <1>3, <1>4 DEF IInv

-----------------------------------------------------------------------------
(* The invariant holds in every reachable state.                               *)
THEOREM Inductive == Spec => []IInv
<1>1. IInv /\ [Next]_vars => IInv'
  <2> SUFFICES ASSUME IInv, [Next]_vars PROVE IInv'
      OBVIOUS
  <2>1. CASE UNCHANGED vars
      BY <2>1 DEF vars, handle, stream, IInv, TypeOK, StartShape, ReaderShape, OneCleans,
                  WaiterCleaned, CalmStop, NoDoubleClose, AllRead
  <2>2. CASE Start \/ Waiter \/ StopBegin \/ Stop
      BY <2>2, StartStep, WaiterStep, StopBeginStep, StopStep
  <2>3. ASSUME NEW r \in Readers, Reader(r) PROVE IInv'
      BY <2>3, ReaderStep
  <2>4. CASE ChildStarts \/ ChildExits \/ ChildDies \/ \E r \in Readers : ChildWrites(r)
      BY <2>4, ChildStep
  <2> QED
      BY <2>1, <2>2, <2>3, <2>4 DEF Next, Finished, Ended
<1> QED
    BY <1>1, InitIInv, PTL DEF Spec

(* Type correctness: lines are read and delivered once and in order.           *)
THEOREM TypeCorrect == Spec => []TypeOK
<1>1. IInv => TypeOK
    BY DEF IInv
<1> QED
    BY <1>1, Inductive, PTL

(* cleaned.exchange separates the waiter from stop_streaming.                  *)
THEOREM OnePathCleans == Spec => []CleanedOnce
<1>1. IInv => CleanedOnce
    BY DEF IInv, OneCleans, NoDoubleClose, CleanedOnce, AllRead
<1> QED
    BY <1>1, Inductive, PTL

(* on_exit comes after the last line of a stream that nobody stops.            *)
THEOREM ExitComesLast == Spec => []ExitReportedLast
<1>1. IInv => ExitReportedLast
    BY DEF IInv, StartShape, ReaderShape, OneCleans, WaiterCleaned, WaiterAfter, StopBefore,
           AllRead, ExitReportedLast
<1> QED
    BY <1>1, Inductive, PTL

(* stop_streaming after on_exit joins, closes, signals and reaps nothing again *)
(* and can only have its write to the shutdown pipe go astray.                 *)
THEOREM LateStopIsSafe == Spec => []StopAfterExitIsSafe
<1>1. IInv => StopAfterExitIsSafe
    BY DEF IInv, CalmStop, StopAfterExitIsSafe
<1> QED
    BY <1>1, Inductive, PTL

-----------------------------------------------------------------------------
(* The files of a workspace: where an entry can be, and what it can be.  Only  *)
(* a file can have the name of a temporary one.                                *)
Site == {FS!Top} \cup FS!Path
Spot == Site \cup {<<c>> : c \in Call} \cup {<<n, c>> : n \in Name, c \in Call}
Content == FS!Path \cup {FS!Whole(q) : q \in Call} \cup {FS!Partial(q) : q \in Call}
Stored == {FS!Dir} \cup {FS!File(c) : c \in Content} \cup {FS!Link(<<n>>) : n \in Name}
Kind == {"dir", "file", "link"}

(* The disk is a tree, and what is in it has one of these forms.               *)
DiskShape ==
    /\ DOMAIN disk \subseteq Spot /\ FS!Top \in DOMAIN disk /\ disk[FS!Top] = FS!Dir
    /\ \A p \in DOMAIN disk \ {FS!Top} :
          /\ FS!Front(p) \in DOMAIN disk /\ disk[FS!Front(p)] = FS!Dir
          /\ disk[p] \in Stored
          /\ FS!Last(p) \in Call => disk[p].kind = "file"

(* A file that is written only in part has the name of a temporary one, and    *)
(* its writer has not come to rename it, or its flush has failed unseen.       *)
PartialShape ==
    /\ \A p \in Spot, q \in Call :
          FS!Entry(p) = FS!File(FS!Partial(q)) =>
              FS!Cut(q) \/ (FS!Last(p) = q /\ pc[q] # "replace")
    /\ \A q \in Call : mem[q].data = FS!Partial(q) /\ arg[q].op \in {"none", "write"}
          => pc[q] \in {"replace", "done"}

(* The local variables of a request, and the operation its place belongs to.   *)
MemType ==
    [at : Spot, to : Site, fresh : BOOLEAN, over : Stored \cup {FS!Missing},
     data : Content \cup {FS!Top}, size : Content \cup {FS!Top},
     todo : Seq(SUBSET [at : Spot \ {FS!Top}, kind : Kind]),
     found : SUBSET Spot, lines : SUBSET Spot, after : SUBSET Call]
Ops == {"write", "delete", "mkdir", "read", "rename", "tree", "search", "packages"}
OpOf(l) ==
    CASE l \in {"readable", "notDir", "regular", "content", "size"} -> {"read"}
      [] l \in {"free", "make"} -> {"mkdir"}
      [] l = "parents" -> {"mkdir", "write"}
      [] l \in {"parent", "exists", "open", "fill", "replace"} -> {"write"}
      [] l \in {"look", "kind", "empty", "list", "entries", "remove"} -> {"delete"}
      [] l \in {"from", "dest", "toParent", "move"} -> {"rename"}
      [] l \in {"names", "contents", "merge"} -> {"search"}
      [] l \in {"tree", "fileSize"} -> {"tree"}
      [] l = "packages" -> {"packages"}
      [] l = "done" -> Ops
      [] OTHER -> {"none"}
Label ==
    {"none", "readable", "notDir", "regular", "content", "size", "free", "make", "parents",
     "parent", "exists", "open", "fill", "replace", "look", "kind", "empty", "list", "entries",
     "remove", "from", "dest", "toParent", "move", "names", "contents", "merge", "tree",
     "fileSize", "packages", "done"}
Code ==
    {"none", "ok", "FS_PATH_NOT_FOUND", "FS_IS_DIRECTORY", "FS_PATH_EXISTS", "FS_WRITE_FAILED",
     "FS_NOT_EMPTY", "FS_PERMISSION_DENIED", "INTERNAL_ERROR", "cut"}
CallTypes ==
    /\ arg \in [Call -> FS!Arg \cup {FS!NoArg}] /\ pc \in [Call -> Label]
    /\ mem \in [Call -> MemType] /\ answer \in [Call -> Code]
    /\ steady \in [Call -> SUBSET Spot]
CallShape(r) ==
    /\ arg[r].op \in OpOf(pc[r])
    /\ arg[r].op \in Ops \ FS!Walks => mem[r].at \in FS!Path
    /\ arg[r].op = "rename" => mem[r].to \in FS!Path
    /\ arg[r].op = "delete" =>
          mem[r].found \subseteq {q \in Spot : Len(q) = 2}
    /\ pc[r] # "done" => answer[r] = "none" /\ mem[r].over = FS!Missing
    /\ pc[r] = "none" => mem[r].found = {} /\ mem[r].lines = {}
    /\ mem[r].after \subseteq {q \in Call : pc[q] = "done"}
    /\ steady[r] \subseteq DOMAIN disk

Shaped == DiskShape /\ CallTypes /\ \A r \in Call : CallShape(r)

-----------------------------------------------------------------------------
(* What each operation relies on between its steps, if no other interferes.    *)
Writers == {"write", "rename", "delete", "mkdir"}
Active(q) == pc[q] \notin {"none", "done"}

(* What a reader may get: all that one has written, or part of it unseen.      *)
Written(r) ==
    \/ mem[r].data \in FS!Path \cup {FS!Whole(q) : q \in Call}
    \/ \E s \in Call : FS!Cut(s) /\ mem[r].data = FS!Partial(s)

(* A file that is read stays what it is.                                       *)
ReadShape(r) ==
    /\ pc[r] = "content" =>
          FS!Stat(mem[r].at).kind = "file" \/ FS!RacedBy(r, {"write", "rename", "delete"})
    /\ pc[r] = "size" =>
          /\ Written(r)
          /\ \/ FS!Stat(mem[r].at) = FS!File(mem[r].data)
             \/ FS!RacedBy(r, {"write", "rename", "delete"})
    /\ arg[r].op = "read" /\ FS!Ok(r) =>
          /\ Written(r)
          /\ \/ mem[r].size = mem[r].data
             \/ FS!RacedBy(r, {"write", "rename", "delete"})

(* The target of a rename stays free.                                          *)
RenameShape(r) ==
    arg[r].op = "rename" =>
        /\ pc[r] \in {"toParent", "move"} =>
              \/ FS!Entry(FS!Place(mem[r].to)).kind \notin {"file", "dir"}
              \/ FS!RacedBy(r, {"write", "rename", "mkdir"})
        /\ pc[r] = "done" => ~FS!Replaced(r) \/ FS!RacedBy(r, {"write", "rename", "mkdir"})

(* A write finds a file where it has looked for one.                           *)
Empty(p) == FS!Entry(FS!Place(p)).kind \notin {"file", "dir"}
WriteShape(r) ==
    arg[r].op = "write" =>
        /\ pc[r] \in {"parent", "parents", "exists"} =>
              (FS!Exists(mem[r].at) <=> ~Empty(mem[r].at)) \/ FS!RacedBy(r, Writers)
        /\ pc[r] \in {"open", "fill", "replace"} =>
              (mem[r].fresh <=> Empty(mem[r].at)) \/ FS!RacedBy(r, Writers)
        /\ FS!Ok(r) => (mem[r].fresh <=> ~FS!Replaced(r)) \/ FS!RacedBy(r, Writers)

(* Its temporary file is where it will look for it.                            *)
Temps(r) == {p \in DOMAIN disk \ {FS!Top} : FS!Last(p) = r}
Strayed(r) == FS!RacedBy(r, {"rename"}) \/ FS!Relinked(r)
Linked(r) == FS!Entry(FS!Front(mem[r].at)).kind = "link"
TempShape(r) ==
    /\ pc[r] \notin {"fill", "replace", "done"} => Temps(r) = {}
    /\ pc[r] \in {"fill", "replace"} => Temps(r) \subseteq {FS!FileOf(r)} \/ Strayed(r)
    /\ pc[r] = "done" => Temps(r) = {} \/ Strayed(r)
Prepared(r) ==
    \E s \in Call \ (mem[r].after \cup {r}) :
        arg[s].op = "mkdir" \/ (arg[s].op = "write" /\ Len(mem[s].at) = 2)
LinkShape(r) ==
    arg[r].op = "write" /\ pc[r] # "done" =>
        \/ ~Linked(r) \/ FS!Entry(FS!Follow(FS!Front(mem[r].at))).kind # "dir"
        \/ Prepared(r) \/ FS!RacedBy(r, {"rename"})

(* A walk has before it, at some level, what it has not come to yet.           *)
Walking == {"names", "contents", "tree", "fileSize", "packages"}
Todo(r) == UNION FS!ToSet(mem[r].todo)
Ahead(r, p) ==
    \/ [at |-> p, kind |-> disk[p].kind] \in Todo(r)
    \/ Len(p) = 2 /\ [at |-> FS!Front(p), kind |-> "dir"] \in Todo(r)
FreshShape(r) ==
    pc[r] \in Walking =>
        \A e \in Todo(r) : e.at \in steady[r] => e.kind = disk[e.at].kind
Named(p) == FS!Clean(p) /\ FS!Last(p) \in Hit
Matching(p) == FS!Last(p) \notin Noise /\ disk[p].kind = "file" /\ FS!Holds(disk[p].data)
SearchShape(r) ==
    arg[r].op = "search" =>
        /\ IsFiniteSet(mem[r].found) /\ IsFiniteSet(mem[r].lines)
        /\ \A p \in steady[r] \ {FS!Top} :
              /\ pc[r] = "names" /\ Named(p) => p \in mem[r].found \/ Ahead(r, p)
              /\ pc[r] \in {"contents", "merge"} /\ Named(p) =>
                    p \in mem[r].found \/ FS!Full(mem[r].found)
              /\ pc[r] = "contents" /\ Matching(p) => p \in mem[r].lines \/ Ahead(r, p)
              /\ pc[r] = "merge" /\ Matching(p) => p \in mem[r].lines \/ FS!Full(mem[r].lines)
              /\ FS!Ok(r) /\ (Named(p) \/ Matching(p))
                    => p \in mem[r].found \/ FS!Full(mem[r].found)
TreeShape(r) ==
    arg[r].op = "tree" /\ (pc[r] \in {"tree", "fileSize"} \/ FS!Ok(r)) =>
        \A p \in steady[r] \ {FS!Top} :
            disk[p].kind # "link" /\ (arg[r].flag \/ Len(p) = 1) =>
                p \in mem[r].found \/ (pc[r] # "done" /\ Ahead(r, p))
Packed(p) == Named(p) /\ disk[p].kind = "file" /\ FS!Holds(disk[p].data)
PackagesShape(r) ==
    arg[r].op = "packages" /\ (pc[r] = "packages" \/ FS!Ok(r)) =>
        \A p \in steady[r] \ {FS!Top} :
            Packed(p) => FS!Front(p) \in mem[r].found \/ (pc[r] # "done" /\ Ahead(r, p))
WalkShape(r) == FreshShape(r) /\ SearchShape(r) /\ TreeShape(r) /\ PackagesShape(r)

(* What a walk has listed is still what it was, or another races with it.      *)
StaleShape(r) ==
    /\ pc[r] \in Walking =>
          \A e \in Todo(r) :
              FS!Entry(e.at).kind = e.kind \/ FS!RacedBy(r, {"rename", "delete", "write"})
    /\ pc[r] = "fileSize" => FS!Stat(mem[r].at).kind = "file"
          \/ FS!RacedBy(r, {"rename", "delete", "write"})

(* A request that has begun meets no link that goes round unless one is moved. *)
LoopShape(r) ==
    Active(r) /\ arg[r].op \notin FS!Walks =>
        \/ /\ ~FS!Loops(mem[r].at)
           /\ arg[r].op = "rename" => ~FS!Loops(mem[r].to)
        \/ FS!RacedBy(r, {"rename"})

(* The directory of a temporary file is there, or another races with its write.*)
HomeShape(r) ==
    pc[r] \in {"fill", "replace"} =>
        \/ FS!Entry(FS!Front(FS!FileOf(r))).kind = "dir"
        \/ FS!RacedBy(r, {"rename", "delete", "write"})

(* Only others make a request fail, or what it meets.                          *)
AnswerShape(r) ==
    /\ answer[r] = "INTERNAL_ERROR" =>
          \/ FS!RacedBy(r, {"rename", "delete", "write"})
          \/ FS!LoopMet(r) \/ FS!GarbledRead(r)
    /\ answer[r] = "cut" => FS!RacedBy(r, {"rename", "delete", "write"})

-----------------------------------------------------------------------------
(* Paths have one name or two.                                                 *)
LEMMA PathFacts ==
    /\ \A a : /\ FS!Front(<<a>>) = FS!Top /\ FS!Last(<<a>>) = a /\ Append(FS!Top, a) = <<a>>
              /\ Len(<<a>>) = 1 /\ <<a>> # FS!Top
    /\ \A a, b : /\ FS!Front(<<a, b>>) = <<a>> /\ FS!Last(<<a, b>>) = b
                 /\ Append(<<a>>, b) = <<a, b>> /\ Len(<<a, b>>) = 2 /\ <<a, b>> # FS!Top
<1>1. ASSUME NEW a
      PROVE  /\ FS!Front(<<a>>) = FS!Top /\ FS!Last(<<a>>) = a /\ Append(FS!Top, a) = <<a>>
             /\ Len(<<a>>) = 1 /\ <<a>> # FS!Top
    BY DEF FS!Front, FS!Last, FS!Top
<1>2. ASSUME NEW a, NEW b
      PROVE  /\ FS!Front(<<a, b>>) = <<a>> /\ FS!Last(<<a, b>>) = b
             /\ Append(<<a>>, b) = <<a, b>> /\ Len(<<a, b>>) = 2 /\ <<a, b>> # FS!Top
  <2> DEFINE s == <<a, b>>
  <2>1. s \in Seq({a, b}) /\ Len(s) = 2 /\ s[1] = a /\ s[2] = b
      OBVIOUS
  <2>2. /\ SubSeq(s, 1, 1) \in Seq({a, b}) /\ Len(SubSeq(s, 1, 1)) = 1
        /\ SubSeq(s, 1, 1)[1] = a
      <3> HIDE DEF s
      <3> QED
          BY <2>1
  <2>3. SubSeq(s, 1, 1) = <<a>>
      <3> DEFINE t == SubSeq(s, 1, 1)
      <3>1. t \in Seq({a, b}) /\ Len(t) = 1 /\ t[1] = a
          BY <2>2
      <3> HIDE DEF t
      <3>2. t = <<a>>
          BY <3>1
      <3> QED
          BY <3>2 DEF t
  <2>4. FS!Front(s) = <<a>> /\ FS!Last(s) = b
      <3> HIDE DEF s
      <3> QED
          BY <2>1, <2>3 DEF FS!Front, FS!Last
  <2>5. Append(<<a>>, b) = <<a, b>>
      <3>1. <<a>> \in Seq({a, b}) /\ Len(<<a>>) = 1 /\ <<a>>[1] = a
          OBVIOUS
      <3> DEFINE u == Append(<<a>>, b)
      <3>2. u \in Seq({a, b}) /\ Len(u) = 2 /\ u[1] = a /\ u[2] = b
          BY <3>1, AppendProperties
      <3> HIDE DEF u
      <3>3. u = <<a, b>>
          BY <3>2
      <3> QED
          BY <3>3 DEF u
  <2>6. Len(<<a, b>>) = 2 /\ <<a, b>> # FS!Top
      BY DEF FS!Top
  <2> QED
      BY <2>4, <2>5, <2>6
<1> QED
    BY <1>1, <1>2

(* A path is one name, or two.                                                 *)
LEMMA PathIs == FS!Path = {<<n>> : n \in Name} \cup {<<n, m>> : n, m \in Name}
<1>1. FS!Path = [1..1 -> Name] \cup [1..2 -> Name]
    BY DEF FS!Path, FS!MaxDepth
<1>2. [1..1 -> Name] = {<<n>> : n \in Name}
    OBVIOUS
<1>3. [1..2 -> Name] = {<<n, m>> : n, m \in Name}
    OBVIOUS
<1> QED
    BY <1>1, <1>2, <1>3

(* Where an entry is in, and what its name is.                                 *)
LEMMA SpotIs ==
    /\ FS!Top \in Site
    /\ \A p \in FS!Path : /\ p \in Site /\ p # FS!Top /\ FS!Last(p) \in Name
                                /\ Len(p) \in {1, 2}
                          /\ FS!Front(p) \in Site /\ Append(FS!Front(p), FS!Last(p)) = p
                          /\ IF Len(p) = 1 THEN FS!Front(p) = FS!Top
                                ELSE FS!Front(p) \in {<<n>> : n \in Name}
    /\ \A p \in Spot \ {FS!Top} :
          /\ FS!Front(p) \in Site /\ Append(FS!Front(p), FS!Last(p)) = p /\ Len(p) \in {1, 2}
          /\ FS!Last(p) \in Name \cup Call /\ (p \in FS!Path <=> FS!Last(p) \in Name)
          /\ IF Len(p) = 1 THEN FS!Front(p) = FS!Top ELSE FS!Front(p) \in {<<n>> : n \in Name}
    /\ Site \subseteq Spot
<1>1. /\ \A n \in Name : <<n>> \in FS!Path
      /\ \A n, m \in Name : <<n, m>> \in FS!Path
      /\ \A p \in FS!Path : (\E n \in Name : p = <<n>>) \/ (\E n, m \in Name : p = <<n, m>>)
    BY PathIs
<1>2. \A p \in Spot \ {FS!Top} :
          \/ \E n \in Name \cup Call : p = <<n>> /\ (p \in FS!Path <=> n \in Name)
          \/ \E n \in Name, m \in Name \cup Call : p = <<n, m>>
                /\ (p \in FS!Path <=> m \in Name)
  <2> SUFFICES ASSUME NEW p \in Spot \ {FS!Top}
               PROVE  \/ \E n \in Name \cup Call : p = <<n>> /\ (p \in FS!Path <=> n \in Name)
                      \/ \E n \in Name, m \in Name \cup Call :
                            p = <<n, m>> /\ (p \in FS!Path <=> m \in Name)
      OBVIOUS
  <2>1. CASE p \in FS!Path
      BY <2>1, <1>1
  <2>2. CASE \E c \in Call : p = <<c>>
    <3>1. PICK c \in Call : p = <<c>>
        BY <2>2
    <3>2. p \notin FS!Path
        BY <3>1, <1>1, NamesAssumption
    <3> QED
        BY <3>1, <3>2, NamesAssumption
  <2>3. CASE \E n \in Name, c \in Call : p = <<n, c>>
    <3>1. PICK n \in Name, c \in Call : p = <<n, c>>
        BY <2>3
    <3>2. p \notin FS!Path
        BY <3>1, <1>1, NamesAssumption
    <3> QED
        BY <3>1, <3>2, NamesAssumption
  <2> QED
      BY <2>1, <2>2, <2>3 DEF Spot, Site
<1>3. \A p \in FS!Path : /\ p \in Site /\ p # FS!Top /\ FS!Last(p) \in Name /\ Len(p) \in {1, 2}
                         /\ FS!Front(p) \in Site /\ Append(FS!Front(p), FS!Last(p)) = p
                         /\ IF Len(p) = 1 THEN FS!Front(p) = FS!Top
                               ELSE FS!Front(p) \in {<<n>> : n \in Name}
  <2> SUFFICES ASSUME NEW p \in FS!Path
               PROVE  /\ p \in Site /\ p # FS!Top /\ FS!Last(p) \in Name /\ Len(p) \in {1, 2}
                      /\ FS!Front(p) \in Site /\ Append(FS!Front(p), FS!Last(p)) = p
                      /\ IF Len(p) = 1 THEN FS!Front(p) = FS!Top
                            ELSE FS!Front(p) \in {<<n>> : n \in Name}
      OBVIOUS
  <2>1. CASE \E n \in Name : p = <<n>>
      BY <2>1, PathFacts DEF Site
  <2>2. CASE \E n, m \in Name : p = <<n, m>>
      BY <2>2, PathFacts, <1>1 DEF Site
  <2> QED
      BY <2>1, <2>2, <1>1
<1>4. ASSUME NEW p \in Spot \ {FS!Top}
      PROVE  /\ FS!Front(p) \in Site /\ Append(FS!Front(p), FS!Last(p)) = p /\ Len(p) \in {1, 2}
             /\ FS!Last(p) \in Name \cup Call /\ (p \in FS!Path <=> FS!Last(p) \in Name)
             /\ IF Len(p) = 1 THEN FS!Front(p) = FS!Top
                   ELSE FS!Front(p) \in {<<n>> : n \in Name}
  <2>1. CASE \E n \in Name \cup Call : p = <<n>> /\ (p \in FS!Path <=> n \in Name)
      BY <2>1, PathFacts DEF Site
  <2>2. CASE \E n \in Name, m \in Name \cup Call : p = <<n, m>>
            /\ (p \in FS!Path <=> m \in Name)
      BY <2>2, PathFacts, <1>1 DEF Site
  <2> QED
      BY <2>1, <2>2, <1>2
<1>5. FS!Top \in Site /\ Site \subseteq Spot
    BY DEF Site, Spot
<1> QED
    BY <1>3, <1>4, <1>5

(* A name in a directory.                                                      *)
LEMMA InSite ==
    ASSUME NEW d \in {FS!Top} \cup {<<n>> : n \in Name}
    PROVE  /\ \A n \in Name : /\ Append(d, n) \in FS!Path /\ FS!Front(Append(d, n)) = d
                              /\ FS!Last(Append(d, n)) = n
           /\ \A c \in Call : /\ Append(d, c) \in Spot \ {FS!Top} /\ FS!Front(Append(d, c)) = d
                              /\ FS!Last(Append(d, c)) = c
<1>1. CASE d = FS!Top
  <2>1. \A n \in Name : <<n>> \in FS!Path
      BY PathIs
  <2>2. \A c \in Call : <<c>> \in Spot
      BY DEF Spot
  <2> QED
      BY <1>1, <2>1, <2>2, PathFacts
<1>2. CASE d \in {<<n>> : n \in Name}
  <2>1. PICK a \in Name : d = <<a>>
      BY <1>2
  <2>2. \A n \in Name : <<a, n>> \in FS!Path
      BY PathIs
  <2>3. \A c \in Call : <<a, c>> \in Spot
      BY DEF Spot
  <2>4. \A n : /\ Append(d, n) = <<a, n>> /\ FS!Front(<<a, n>>) = d /\ FS!Last(<<a, n>>) = n
               /\ <<a, n>> # FS!Top
      BY <2>1, PathFacts
  <2> QED
      BY <2>2, <2>3, <2>4
<1> QED
    BY <1>1, <1>2

-----------------------------------------------------------------------------
(* What the disk has at a path.                                                *)
LEMMA StoredIs ==
    /\ FS!Dir.kind = "dir" /\ FS!Dir.data = FS!Top /\ FS!Missing.kind = "missing"
          /\ FS!Missing.data = FS!Top
    /\ \A c : FS!File(c).kind = "file" /\ FS!File(c).data = c /\ FS!Link(c).kind = "link"
          /\ FS!Link(c).data = c
    /\ \A e \in Stored :
          /\ e.kind \in Kind /\ e # FS!Missing
          /\ e.kind = "dir" => e = FS!Dir
          /\ e.kind = "file" => e = FS!File(e.data) /\ e.data \in Content
          /\ e.kind = "link" => e.data \in {<<n>> : n \in Name}
<1>1. /\ FS!Dir.kind = "dir" /\ FS!Dir.data = FS!Top /\ FS!Missing.kind = "missing"
            /\ FS!Missing.data = FS!Top
      /\ \A c : /\ FS!File(c).kind = "file" /\ FS!File(c).data = c
                /\ FS!Link(c).kind = "link" /\ FS!Link(c).data = c
    BY DEF FS!Dir, FS!Missing, FS!File, FS!Link, FS!Top
<1>2. \A e \in Stored :
          e = FS!Dir \/ (\E c \in Content : e = FS!File(c))
              \/ (\E n \in Name : e = FS!Link(<<n>>))
    BY DEF Stored
<1>3. ASSUME NEW e \in Stored
      PROVE  /\ e.kind \in Kind /\ e # FS!Missing
             /\ e.kind = "dir" => e = FS!Dir
             /\ e.kind = "file" => e = FS!File(e.data) /\ e.data \in Content
             /\ e.kind = "link" => e.data \in {<<n>> : n \in Name}
  <2>1. CASE e = FS!Dir
      BY <2>1, <1>1 DEF Kind
  <2>2. CASE \E c \in Content : e = FS!File(c)
      BY <2>2, <1>1 DEF Kind
  <2>3. CASE \E n \in Name : e = FS!Link(<<n>>)
      BY <2>3, <1>1 DEF Kind
  <2> QED
      BY <2>1, <2>2, <2>3, <1>2
<1> QED
    BY <1>1, <1>3

(* Names of one level are those of directories.                                *)
Dirs == {FS!Top} \cup {<<n>> : n \in Name}

(* What an entry of the disk is.                                               *)
LEMMA EntryIs ==
    ASSUME DiskShape
    PROVE  /\ FS!Entry(FS!Top) = FS!Dir
           /\ \A p : /\ FS!Entry(p) \in Stored \cup {FS!Missing}
                     /\ FS!Entry(p).kind \in Kind \cup {"missing"}
                     /\ p \in DOMAIN disk <=> FS!Entry(p).kind # "missing"
                     /\ p \in DOMAIN disk <=> FS!Entry(p) # FS!Missing
                     /\ p \in DOMAIN disk => FS!Entry(p) = disk[p] /\ p \in Spot
                     /\ FS!Entry(p).kind = "dir" => FS!Entry(p) = FS!Dir
                     /\ FS!Entry(p).kind = "file" => /\ FS!Entry(p) = FS!File(FS!Entry(p).data)
                                                     /\ FS!Entry(p).data \in Content
                     /\ FS!Entry(p).kind = "link" => FS!Entry(p).data \in Dirs \ {FS!Top}
           /\ \A p \in DOMAIN disk \ {FS!Top} :
                 /\ FS!Entry(FS!Front(p)) = FS!Dir
                 /\ FS!Last(p) \in Call => FS!Entry(p).kind = "file"
<1>1. /\ FS!Top \in DOMAIN disk /\ disk[FS!Top] = FS!Dir /\ FS!Dir \in Stored
            /\ DOMAIN disk \subseteq Spot
      /\ \A p \in DOMAIN disk : disk[p] \in Stored
    BY DEF DiskShape, Stored
<1>2. \A n : <<n>> # FS!Top
    BY PathFacts
<1>3. \A p : p \in DOMAIN disk => FS!Entry(p) = disk[p] /\ FS!Entry(p) \in Stored
    BY <1>1 DEF FS!Entry
<1>4. \A p : p \notin DOMAIN disk => FS!Entry(p) = FS!Missing
    BY DEF FS!Entry
<1>5. \A p : /\ FS!Entry(p) \in Stored \cup {FS!Missing}
             /\ FS!Entry(p).kind \in Kind \cup {"missing"}
             /\ p \in DOMAIN disk <=> FS!Entry(p).kind # "missing"
             /\ p \in DOMAIN disk <=> FS!Entry(p) # FS!Missing
             /\ p \in DOMAIN disk => FS!Entry(p) = disk[p] /\ p \in Spot
             /\ FS!Entry(p).kind = "dir" => FS!Entry(p) = FS!Dir
             /\ FS!Entry(p).kind = "file" => /\ FS!Entry(p) = FS!File(FS!Entry(p).data)
                                             /\ FS!Entry(p).data \in Content
             /\ FS!Entry(p).kind = "link" => FS!Entry(p).data \in Dirs \ {FS!Top}
  <2> SUFFICES ASSUME NEW p
               PROVE  /\ FS!Entry(p) \in Stored \cup {FS!Missing}
                      /\ FS!Entry(p).kind \in Kind \cup {"missing"}
                      /\ p \in DOMAIN disk <=> FS!Entry(p).kind # "missing"
                      /\ p \in DOMAIN disk <=> FS!Entry(p) # FS!Missing
                      /\ p \in DOMAIN disk => FS!Entry(p) = disk[p] /\ p \in Spot
                      /\ FS!Entry(p).kind = "dir" => FS!Entry(p) = FS!Dir
                      /\ FS!Entry(p).kind = "file" => /\ FS!Entry(p) = FS!File(FS!Entry(p).data)
                                                      /\ FS!Entry(p).data \in Content
                      /\ FS!Entry(p).kind = "link" => FS!Entry(p).data \in Dirs \ {FS!Top}
      OBVIOUS
  <2>1. CASE p \in DOMAIN disk
      BY <2>1, <1>1, <1>2, <1>3, StoredIs DEF Dirs, Kind
  <2>2. CASE p \notin DOMAIN disk
      BY <2>2, <1>4, StoredIs
  <2> QED
      BY <2>1, <2>2
<1>6. \A p \in DOMAIN disk \ {FS!Top} :
          /\ FS!Entry(FS!Front(p)) = FS!Dir
          /\ FS!Last(p) \in Call => FS!Entry(p).kind = "file"
    BY <1>3 DEF DiskShape
<1> QED
    BY <1>1, <1>3, <1>5, <1>6

(* Where a path leads.                                                         *)
LEMMA PlaceIs ==
    ASSUME DiskShape
    PROVE  /\ \A d \in Dirs : FS!Follow(d) \in Dirs /\ FS!Place(d) = d
                 /\ (FS!Follow(d) = FS!Top <=> d = FS!Top)
           /\ \A p \in FS!Path : /\ FS!Front(p) \in Dirs
                                 /\ FS!Place(p) \in FS!Path /\ FS!Last(FS!Place(p)) = FS!Last(p)
                                 /\ FS!Front(FS!Place(p)) = FS!Follow(FS!Front(p))
                                 /\ Len(FS!Place(p)) = Len(p) /\ (Len(p) = 1 => FS!Place(p) = p)
                                 /\ FS!Follow(FS!Place(p)) \in FS!Path
                                 /\ (FS!Entry(FS!Front(p)).kind # "link" => FS!Place(p) = p)
           /\ \A p : FS!Entry(p).kind # "link" => FS!Follow(p) = p
<1>1. /\ \A d \in Dirs : FS!Follow(d) \in Dirs /\ (FS!Follow(d) = FS!Top <=> d = FS!Top)
      /\ \A p : FS!Entry(p).kind # "link" => FS!Follow(p) = p
      /\ \A p : FS!Entry(p).kind = "link" => FS!Follow(p) \in Dirs \ {FS!Top}
    BY EntryIs, StoredIs DEF FS!Follow
<1>2. \A d \in Dirs : FS!Place(d) = d
  <2>1. \A n \in Name : FS!Place(<<n>>) = <<n>>
      BY <1>1, PathFacts DEF FS!Place, Dirs
  <2> QED
      BY <2>1 DEF Dirs, FS!Place
<1>3. Dirs \ {FS!Top} \subseteq FS!Path
    BY PathIs DEF Dirs
<1>4. ASSUME NEW p \in FS!Path
      PROVE  /\ FS!Front(p) \in Dirs
             /\ FS!Place(p) \in FS!Path /\ FS!Last(FS!Place(p)) = FS!Last(p)
             /\ FS!Front(FS!Place(p)) = FS!Follow(FS!Front(p))
             /\ Len(FS!Place(p)) = Len(p) /\ (Len(p) = 1 => FS!Place(p) = p)
             /\ FS!Follow(FS!Place(p)) \in FS!Path
             /\ (FS!Entry(FS!Front(p)).kind # "link" => FS!Place(p) = p)
  <2>1. /\ FS!Front(p) \in Dirs /\ p # FS!Top /\ FS!Last(p) \in Name
        /\ Append(FS!Front(p), FS!Last(p)) = p /\ Len(p) \in {1, 2}
        /\ Len(p) = 1 <=> FS!Front(p) = FS!Top
    <3>1. \A n : <<n>> # FS!Top
        BY PathFacts
    <3> QED
        BY <3>1, SpotIs DEF Dirs
  <2>2. FS!Place(p) = Append(FS!Follow(FS!Front(p)), FS!Last(p))
            /\ FS!Follow(FS!Front(p)) \in Dirs
      BY <2>1, <1>1 DEF FS!Place
  <2>3. /\ FS!Place(p) \in FS!Path /\ FS!Last(FS!Place(p)) = FS!Last(p)
        /\ FS!Front(FS!Place(p)) = FS!Follow(FS!Front(p))
      BY <2>1, <2>2, InSite DEF Dirs
  <2>4. Len(FS!Place(p)) = Len(p)
    <3>1. Len(FS!Place(p)) = 1 <=> FS!Front(FS!Place(p)) = FS!Top
      <4>1. \A n : <<n>> # FS!Top
          BY PathFacts
      <4> QED
          BY <4>1, <2>3, SpotIs
    <3> QED
        BY <3>1, <2>1, <2>3, <1>1, SpotIs
  <2>5. FS!Front(p) = FS!Top => FS!Follow(FS!Front(p)) = FS!Top
      BY <1>1, <2>1
  <2>6. FS!Follow(FS!Place(p)) \in FS!Path
      BY <2>3, <1>1, <1>3
  <2> QED
      BY <2>1, <2>2, <2>3, <2>4, <2>5, <2>6, <1>1
<1> QED
    BY <1>1, <1>2, <1>4

(* What stat finds there.                                                      *)
LEMMA StatIs ==
    ASSUME DiskShape
    PROVE  /\ \A p : /\ FS!Stat(p).kind \in {"dir", "file", "missing"}
                     /\ FS!Stat(p).data \in Content \cup {FS!Top}
                     /\ FS!Stat(p).kind = "file" => /\ FS!Stat(p) = FS!File(FS!Stat(p).data)
                                                    /\ FS!Stat(p).data \in Content
                     /\ FS!Stat(p).kind # "missing" =>
                           /\ FS!Stat(p) = FS!Entry(FS!Follow(FS!Place(p)))
                           /\ FS!Entry(FS!Place(p)).kind \in {"file", "dir"}
                                 => FS!Follow(FS!Place(p)) = FS!Place(p)
                     /\ FS!Entry(FS!Place(p)).kind \in {"file", "dir"}
                           => FS!Stat(p) = FS!Entry(FS!Place(p))
                     /\ FS!Entry(FS!Follow(FS!Place(p))).kind # "link"
                           => FS!Stat(p) = FS!Entry(FS!Follow(FS!Place(p)))
           /\ \A d \in Dirs : FS!Stat(d).kind = "dir" <=> FS!Entry(FS!Follow(d)).kind = "dir"
<1>1. ASSUME NEW p
      PROVE  /\ FS!Stat(p).kind \in {"dir", "file", "missing"}
             /\ FS!Stat(p).data \in Content \cup {FS!Top}
             /\ FS!Stat(p).kind = "file" => FS!Stat(p) = FS!File(FS!Stat(p).data)
                   /\ FS!Stat(p).data \in Content
             /\ FS!Stat(p).kind # "missing" => FS!Stat(p) = FS!Entry(FS!Follow(FS!Place(p)))
             /\ FS!Entry(FS!Follow(FS!Place(p))).kind # "link"
                   => FS!Stat(p) = FS!Entry(FS!Follow(FS!Place(p)))
  <2> DEFINE e == FS!Entry(FS!Follow(FS!Place(p)))
  <2>1. FS!Stat(p) = IF e.kind = "link" THEN FS!Missing ELSE e
      BY DEF FS!Stat
  <2>2. /\ e \in Stored \cup {FS!Missing} /\ e.kind \in Kind \cup {"missing"}
        /\ e.kind = "file" => e = FS!File(e.data) /\ e.data \in Content
        /\ e.kind = "dir" => e = FS!Dir
        /\ e.kind = "missing" => e = FS!Missing
      BY EntryIs
  <2> HIDE DEF e
  <2>3. e.kind = "link" => FS!Stat(p) = FS!Missing
      BY <2>1
  <2>4. e.kind # "link" => FS!Stat(p) = e
      BY <2>1
  <2>5. CASE e.kind = "link"
      BY <2>3, <2>5, StoredIs DEF e
  <2>6. CASE e.kind # "link"
      BY <2>2, <2>4, <2>6, StoredIs DEF e, Kind
  <2> QED
      BY <2>5, <2>6
<1>2. ASSUME NEW p, FS!Entry(FS!Place(p)).kind \in {"file", "dir"}
      PROVE  FS!Follow(FS!Place(p)) = FS!Place(p) /\ FS!Stat(p) = FS!Entry(FS!Place(p))
  <2>1. FS!Follow(FS!Place(p)) = FS!Place(p)
      BY <1>2, PlaceIs
  <2> QED
      BY <1>1, <1>2, <2>1
<1>3. ASSUME NEW d \in Dirs
      PROVE  FS!Stat(d).kind = "dir" <=> FS!Entry(FS!Follow(d)).kind = "dir"
    BY <1>1, PlaceIs
<1> QED
    BY <1>1, <1>2, <1>3

(* What the validator makes of a path: it finds a file there where it exists,  *)
(* and a directory it is in is not behind a link.                              *)
LEMMA ResolvedIs ==
    ASSUME DiskShape
    PROVE  /\ FS!Resolved(FS!Top) = FS!Top
           /\ \A p \in FS!Path :
                 /\ FS!Resolved(p) \in FS!Path
                 /\ FS!Exists(FS!Resolved(p)) <=> ~Empty(FS!Resolved(p))
                 /\ FS!Entry(FS!Front(FS!Resolved(p))).kind = "link" =>
                        FS!Entry(FS!Follow(FS!Front(FS!Resolved(p)))).kind # "dir"
<1>1. FS!Resolved(FS!Top) = FS!Top
  <2>1. FS!Place(FS!Top) = FS!Top /\ FS!Follow(FS!Top) = FS!Top
      BY PlaceIs DEF Dirs
  <2>2. FS!Stat(FS!Top).kind = "dir"
      BY <2>1, EntryIs, StatIs, StoredIs
  <2> QED
      BY <2>1, <2>2 DEF FS!Resolved, FS!Exists
<1>2. ASSUME NEW p \in FS!Path
      PROVE  /\ FS!Resolved(p) \in FS!Path
             /\ FS!Exists(FS!Resolved(p)) <=> ~Empty(FS!Resolved(p))
             /\ FS!Entry(FS!Front(FS!Resolved(p))).kind = "link" =>
                    FS!Entry(FS!Follow(FS!Front(FS!Resolved(p)))).kind # "dir"
  <2> DEFINE at == FS!Resolved(p)
  <2>1. /\ FS!Front(p) \in Dirs /\ FS!Place(p) \in FS!Path
              /\ FS!Front(FS!Place(p)) = FS!Follow(FS!Front(p))
        /\ FS!Follow(FS!Place(p)) \in FS!Path /\ FS!Front(FS!Follow(FS!Place(p))) \in Dirs
        /\ FS!Follow(FS!Front(p)) \in Dirs
      BY PlaceIs
  <2>2. ASSUME NEW q \in FS!Path, FS!Entry(q).kind \in {"file", "dir"}
        PROVE  /\ FS!Exists(q) /\ ~Empty(q) /\ FS!Entry(FS!Front(q)) = FS!Dir
    <3>1. q # FS!Top
        BY SpotIs
    <3>2. FS!Entry(FS!Front(q)) = FS!Dir
        BY <2>2, <3>1, EntryIs
    <3>3. FS!Place(q) = q
        BY <3>2, PlaceIs, StoredIs
    <3>4. FS!Stat(q).kind \in {"file", "dir"}
        BY <2>2, <3>3, StatIs
    <3> QED
        BY <2>2, <3>2, <3>3, <3>4 DEF Empty, FS!Exists
  <2>3. CASE FS!Exists(p)
    <3>1. at = FS!Follow(FS!Place(p))
        BY <2>3 DEF FS!Resolved
    <3>2. FS!Entry(at).kind \in {"file", "dir"}
        BY <2>3, <3>1, StatIs DEF FS!Exists
    <3> QED
        BY <2>1, <2>2, <3>1, <3>2, StoredIs
  <2>4. CASE ~FS!Exists(p)
    <3>1. CASE FS!Exists(FS!Front(p))
      <4>1. at = FS!Place(p)
          BY <2>4, <3>1 DEF FS!Resolved
      <4>2. FS!Place(FS!Front(p)) = FS!Front(p)
          BY <2>1, PlaceIs
      <4>3. FS!Entry(FS!Front(at)).kind \in {"file", "dir"}
          BY <2>1, <3>1, <4>1, <4>2, StatIs DEF FS!Exists
      <4>4. FS!Place(at) = at
          BY <2>1, <4>1, <4>3, PlaceIs
      <4>5. FS!Stat(at) = FS!Stat(p)
          BY <4>1, <4>4 DEF FS!Stat
      <4>6. ~FS!Exists(at) /\ Empty(at)
          BY <2>4, <4>5, StatIs DEF FS!Exists, Empty
      <4> QED
          BY <2>1, <4>1, <4>3, <4>6
    <3>2. CASE ~FS!Exists(FS!Front(p))
      <4>1. at = p
          BY <2>4, <3>2 DEF FS!Resolved
      <4>2. ~FS!Exists(at) /\ Empty(at)
          BY <2>4, <4>1, StatIs DEF FS!Exists, Empty
      <4>3. FS!Entry(FS!Follow(FS!Front(p))).kind # "dir"
          BY <2>1, <3>2, StatIs DEF FS!Exists
      <4> QED
          BY <4>1, <4>2, <4>3
    <3> QED
        BY <3>1, <3>2
  <2> QED
      BY <2>3, <2>4
<1> QED
    BY <1>1, <1>2

(* Where a temporary file is written.                                          *)
LEMMA FileOfIs ==
    ASSUME DiskShape, NEW r \in Call, mem[r].at \in FS!Path
    PROVE  /\ FS!FileOf(r) = Append(FS!Follow(FS!Front(mem[r].at)), r)
           /\ FS!FileOf(r) \in Spot \ {FS!Top} /\ FS!Last(FS!FileOf(r)) = r
           /\ FS!Front(FS!FileOf(r)) = FS!Follow(FS!Front(mem[r].at))
           /\ FS!Follow(FS!Front(mem[r].at)) \in Dirs /\ FS!Front(mem[r].at) \in Dirs
<1>1. FS!Front(mem[r].at) \in Dirs /\ FS!Follow(FS!Front(mem[r].at)) \in Dirs
    BY PlaceIs
<1>2. FS!Temp(r) # FS!Top /\ FS!Front(FS!Temp(r)) = FS!Front(mem[r].at)
          /\ FS!Last(FS!Temp(r)) = r
    BY <1>1, InSite DEF FS!Temp, Dirs
<1>3. FS!FileOf(r) = Append(FS!Follow(FS!Front(mem[r].at)), r)
    BY <1>2 DEF FS!FileOf, FS!Place
<1> QED
    BY <1>1, <1>3, InSite DEF Dirs

-----------------------------------------------------------------------------
(* What becomes of the disk.                                                   *)
LEMMA WithIs ==
    ASSUME DiskShape, NEW x \in Spot \ {FS!Top}, NEW e \in Stored, disk' = FS!With(x, e),
           FS!Entry(FS!Front(x)) = FS!Dir, FS!Entry(x).kind # "dir", FS!Last(x) \in Call
               => e.kind = "file"
    PROVE  DiskShape' /\ \A p : FS!Entry(p)' = IF p = x THEN e ELSE FS!Entry(p)
<1>1. /\ DOMAIN disk' = DOMAIN disk \cup {x} /\ disk'[x] = e
      /\ \A p \in DOMAIN disk \ {x} : disk'[p] = disk[p]
    BY DEF FS!With
<1>2. \A p : FS!Entry(p)' = IF p = x THEN e ELSE FS!Entry(p)
    BY <1>1 DEF FS!Entry
<1>3. /\ FS!Front(x) \in DOMAIN disk /\ disk[FS!Front(x)] = FS!Dir /\ FS!Front(x) # x
    BY EntryIs, StoredIs
<1>4. ASSUME NEW p \in DOMAIN disk' \ {FS!Top}
      PROVE  /\ FS!Front(p) \in DOMAIN disk' /\ disk'[FS!Front(p)] = FS!Dir
             /\ disk'[p] \in Stored
             /\ FS!Last(p) \in Call => disk'[p].kind = "file"
  <2>1. CASE p = x
      BY <2>1, <1>1, <1>3
  <2>2. CASE p # x
    <3>1. p \in DOMAIN disk \ {FS!Top}
        BY <2>2, <1>1
    <3>2. /\ FS!Front(p) \in DOMAIN disk /\ disk[FS!Front(p)] = FS!Dir /\ disk[p] \in Stored
          /\ FS!Last(p) \in Call => disk[p].kind = "file"
        BY <3>1 DEF DiskShape
    <3>3. FS!Front(p) # x
        BY <3>2, EntryIs, StoredIs
    <3> QED
        BY <2>2, <3>1, <3>2, <3>3, <1>1
  <2> QED
      BY <2>1, <2>2
<1>5. DOMAIN disk' \subseteq Spot /\ FS!Top \in DOMAIN disk' /\ disk'[FS!Top] = FS!Dir
    BY <1>1 DEF DiskShape
<1> QED
    BY <1>2, <1>4, <1>5 DEF DiskShape

(* Removing what is empty leaves a tree.                                       *)
LEMMA WithoutIs ==
    ASSUME DiskShape, NEW x, x # FS!Top, disk' = FS!Without(x), FS!CanRemove(x)
    PROVE  DiskShape' /\ \A p : FS!Entry(p)' = IF p = x THEN FS!Missing ELSE FS!Entry(p)
<1>1. /\ DOMAIN disk' = DOMAIN disk \ {x}
      /\ \A p \in DOMAIN disk \ {x} : disk'[p] = disk[p]
    BY DEF FS!Without
<1>2. \A p : FS!Entry(p)' = IF p = x THEN FS!Missing ELSE FS!Entry(p)
    BY <1>1 DEF FS!Entry
<1>4. ASSUME NEW p \in DOMAIN disk' \ {FS!Top}
      PROVE  /\ FS!Front(p) \in DOMAIN disk' /\ disk'[FS!Front(p)] = FS!Dir
             /\ disk'[p] \in Stored
             /\ FS!Last(p) \in Call => disk'[p].kind = "file"
  <2>1. p \in DOMAIN disk \ {FS!Top} /\ p # x
      BY <1>1
  <2>2. /\ FS!Front(p) \in DOMAIN disk /\ disk[FS!Front(p)] = FS!Dir /\ disk[p] \in Stored
        /\ FS!Last(p) \in Call => disk[p].kind = "file"
      BY <2>1 DEF DiskShape
  <2>3. FS!Front(p) # x
    <3> SUFFICES ASSUME FS!Front(p) = x PROVE FALSE
        OBVIOUS
    <3>1. FS!Entry(x).kind = "dir"
        BY <2>2, EntryIs, StoredIs
    <3>2. p \in FS!Children(x)
        BY <2>1 DEF FS!Children
    <3> QED
        BY <3>1, <3>2 DEF FS!CanRemove
  <2> QED
      BY <2>1, <2>2, <2>3, <1>1
<1>5. DOMAIN disk' \subseteq Spot /\ FS!Top \in DOMAIN disk' /\ disk'[FS!Top] = FS!Dir
    BY <1>1 DEF DiskShape
<1> QED
    BY <1>2, <1>4, <1>5 DEF DiskShape

(* Filling a temporary file leaves a tree.                                     *)
LEMMA FilledIs ==
    ASSUME DiskShape, NEW r \in Call, disk' = FS!Filled(r)
    PROVE  /\ DiskShape'
           /\ \A p : FS!Entry(p)' = IF FS!Entry(p) = FS!File(FS!Partial(r))
                                       THEN FS!File(FS!Whole(r)) ELSE FS!Entry(p)
<1>1. /\ DOMAIN disk' = DOMAIN disk
      /\ \A p \in DOMAIN disk :
            disk'[p] = IF disk[p] = FS!File(FS!Partial(r)) THEN FS!File(FS!Whole(r))
                          ELSE disk[p]
    BY DEF FS!Filled
<1>2. FS!Missing # FS!File(FS!Partial(r)) /\ FS!Dir # FS!File(FS!Partial(r))
          /\ FS!File(FS!Whole(r)) \in Stored
      /\ FS!File(FS!Whole(r)).kind = "file"
    BY StoredIs DEF Stored, Content
<1>3. \A p : FS!Entry(p)' = IF FS!Entry(p) = FS!File(FS!Partial(r)) THEN FS!File(FS!Whole(r))
                               ELSE FS!Entry(p)
    BY <1>1, <1>2 DEF FS!Entry
<1> QED
    BY <1>1, <1>2, <1>3 DEF DiskShape

-----------------------------------------------------------------------------
(* What lies below what, and where it is moved.                                *)
LEMMA PrefixIs ==
    /\ \A p \in Spot \ {FS!Top} : /\ ~FS!IsPrefix(p, FS!Top)
                                  /\ \A q \in Spot \ {FS!Top} :
                                        FS!IsPrefix(p, q) <=> (p = q
                                            \/ (Len(q) = 2 /\ p = FS!Front(q)))
<1>1. ASSUME NEW p \in Spot \ {FS!Top}
      PROVE  (\E a : p = <<a>>) \/ (\E a, b : p = <<a, b>>)
    BY PathIs DEF Spot, Site
<1>2. \A a, c : FS!IsPrefix(<<a>>, <<c>>) <=> a = c
    BY DEF FS!IsPrefix
<1>3. \A a, c, d : FS!IsPrefix(<<a>>, <<c, d>>) <=> a = c
    BY DEF FS!IsPrefix
<1>4. \A a, b, c : ~FS!IsPrefix(<<a, b>>, <<c>>)
    BY DEF FS!IsPrefix
<1>5. \A a, b, c, d : FS!IsPrefix(<<a, b>>, <<c, d>>) <=> (a = c /\ b = d)
    BY DEF FS!IsPrefix
<1>6. \A a, b : ~FS!IsPrefix(<<a>>, FS!Top) /\ ~FS!IsPrefix(<<a, b>>, FS!Top)
    BY DEF FS!IsPrefix, FS!Top
<1>7. ASSUME NEW p \in Spot \ {FS!Top}, NEW q \in Spot \ {FS!Top}
      PROVE  FS!IsPrefix(p, q) <=> (p = q \/ (Len(q) = 2 /\ p = FS!Front(q)))
  <2>1. CASE (\E a : p = <<a>>) /\ (\E c : q = <<c>>)
      BY <2>1, <1>2, PathFacts
  <2>2. CASE (\E a : p = <<a>>) /\ (\E c, d : q = <<c, d>>)
    <3>1. PICK a, c, d : p = <<a>> /\ q = <<c, d>>
        BY <2>2
    <3>2. FS!Front(q) = <<c>> /\ Len(q) = 2 /\ p # q
        BY <3>1, PathFacts
    <3> QED
        BY <3>1, <3>2, <1>3
  <2>3. CASE (\E a, b : p = <<a, b>>) /\ (\E c : q = <<c>>)
    <3>1. PICK a, b, c : p = <<a, b>> /\ q = <<c>>
        BY <2>3
    <3>2. Len(q) = 1 /\ Len(p) = 2
        BY <3>1, PathFacts
    <3> QED
        BY <3>1, <3>2, <1>4
  <2>4. CASE (\E a, b : p = <<a, b>>) /\ (\E c, d : q = <<c, d>>)
    <3>1. PICK a, b, c, d : p = <<a, b>> /\ q = <<c, d>>
        BY <2>4
    <3>2. FS!Front(q) = <<c>> /\ Len(<<c>>) = 1 /\ Len(p) = 2
        BY <3>1, PathFacts
    <3> QED
        BY <3>1, <3>2, <1>5
  <2> QED
      BY <2>1, <2>2, <2>3, <2>4, <1>1
<1>8. ASSUME NEW p \in Spot \ {FS!Top} PROVE ~FS!IsPrefix(p, FS!Top)
  <2>1. CASE \E a : p = <<a>>
      BY <2>1, <1>6
  <2>2. CASE \E a, b : p = <<a, b>>
      BY <2>2, <1>6
  <2> QED
      BY <2>1, <2>2, <1>1
<1> QED
    BY <1>7, <1>8

(* Where a rename puts what is in a directory.                                 *)
LEMMA MovedIs ==
    ASSUME NEW to \in Spot \ {FS!Top}
    PROVE  /\ \A p \in Spot \ {FS!Top} : FS!Moved(p, to, p) = to
           /\ \A q \in Spot : Len(q) = 2 => /\ FS!Moved(FS!Front(q), to, q) = Append(to,
                                                  FS!Last(q))
                                            /\ Len(FS!Moved(FS!Front(q), to, q)) = Len(to) + 1
<1>1. \A p \in Spot \ {FS!Top} : p \in Seq(Name \cup Call)
  <2> SUFFICES ASSUME NEW p \in Spot \ {FS!Top} PROVE p \in Seq(Name \cup Call)
      OBVIOUS
  <2>1. CASE \E n \in Name \cup Call : p = <<n>>
      BY <2>1
  <2>2. CASE \E n \in Name, m \in Name \cup Call : p = <<n, m>>
      BY <2>2
  <2> QED
      BY <2>1, <2>2, PathIs DEF Spot, Site
<1>2. ASSUME NEW p \in Spot \ {FS!Top} PROVE FS!Moved(p, to, p) = to
  <2>1. Len(p) \in Nat /\ SubSeq(p, Len(p) + 1, Len(p)) = <<>>
    <3>1. p \in Seq(Name \cup Call)
        BY <1>1
    <3> QED
        BY <3>1, SubSeqEmpty, LenProperties
  <2>2. to \o <<>> = to
      BY <1>1
  <2> QED
      BY <2>1, <2>2 DEF FS!Moved
<1>3. ASSUME NEW q \in Spot, Len(q) = 2
      PROVE  /\ FS!Moved(FS!Front(q), to, q) = Append(to, FS!Last(q))
             /\ Len(FS!Moved(FS!Front(q), to, q)) = Len(to) + 1
  <2>1. PICK a, b : q = <<a, b>>
    <3>1. \/ q = FS!Top \/ (\E c : q = <<c>>) \/ (\E c, d : q = <<c, d>>)
        BY PathIs DEF Spot, Site
    <3>2. Len(FS!Top) = 0
        BY DEF FS!Top
    <3> QED
        BY <1>3, <3>1, <3>2, PathFacts
  <2>2. FS!Front(q) = <<a>> /\ FS!Last(q) = b /\ Len(<<a>>) = 1
      BY <2>1, PathFacts
  <2>3. SubSeq(q, 2, 2) = <<b>>
    <3> DEFINE s == SubSeq(q, 2, 2)
    <3>1. q \in Seq({a, b}) /\ Len(q) = 2 /\ q[2] = b
        BY <2>1
    <3>2. s \in Seq({a, b}) /\ Len(s) = 1 /\ s[1] = b
        BY <3>1, SubSeqProperties
    <3> HIDE DEF s
    <3>3. s = <<b>>
        BY <3>2
    <3> QED
        BY <3>3 DEF s
  <2>4. FS!Moved(FS!Front(q), to, q) = to \o <<b>>
    <3>1. Len(FS!Front(q)) + 1 = 2
        BY <2>2
    <3> QED
        BY <1>3, <2>3, <3>1 DEF FS!Moved
  <2>5. to \o <<b>> = Append(to, b) /\ Len(Append(to, b)) = Len(to) + 1
    <3>1. to \in Seq(Name \cup Call \cup {b})
        BY <1>1
    <3> QED
        BY <3>1, AppendIsConcat, AppendProperties
  <2> QED
      BY <2>2, <2>4, <2>5
<1> QED
    BY <1>2, <1>3

(* A file, or a link, is moved.                                                *)
LEMMA MoveFileIs ==
    ASSUME DiskShape, NEW from \in Spot \ {FS!Top}, NEW to \in FS!Path,
           disk' = FS!Move(from, to),
           FS!Entry(from).kind \in {"file", "link"}, FS!CanMove(from, to)
    PROVE  /\ DiskShape'
           /\ \A p : FS!Entry(p)' = IF p = to THEN FS!Entry(from)
                                 ELSE IF p = from THEN FS!Missing ELSE FS!Entry(p)
<1>1. /\ FS!Entry(FS!Front(to)) = FS!Dir /\ FS!Entry(to).kind # "dir" /\ from \in DOMAIN disk
      /\ to \in Spot \ {FS!Top} /\ FS!Last(to) \in Name
    BY EntryIs, SpotIs DEF FS!CanMove
<1>2. \A q \in DOMAIN disk \ {FS!Top} : FS!Front(q) # from /\ FS!Front(q) # to
    BY <1>1, EntryIs, StoredIs
<1>3. FS!Below(from) = {from}
  <2>1. ASSUME NEW q \in DOMAIN disk PROVE FS!IsPrefix(from, q) <=> q = from
    <3>1. q \in Spot
        BY EntryIs
    <3> QED
        BY <3>1, <1>2, PrefixIs
  <2> QED
      BY <1>1, <2>1 DEF FS!Below
<1>4. FS!Moved(from, to, from) = to /\ FS!Moved(to, from, to) = from /\ FS!IsPrefix(to, to)
    BY <1>1, MovedIs, PrefixIs
<1>5. {FS!Moved(from, to, q) : q \in FS!Below(from)} = {to}
    BY <1>3, <1>4
<1>6. /\ DOMAIN disk' = (DOMAIN disk \ {from, to}) \cup {to}
      /\ disk'[to] = disk[from]
      /\ \A p \in DOMAIN disk \ {from, to} : disk'[p] = disk[p]
    BY <1>3, <1>4, <1>5 DEF FS!Move
<1>7. \A p : FS!Entry(p)' = IF p = to THEN FS!Entry(from)
                         ELSE IF p = from THEN FS!Missing ELSE FS!Entry(p)
    BY <1>1, <1>6 DEF FS!Entry
<1>8. ASSUME NEW p \in DOMAIN disk' \ {FS!Top}
      PROVE  /\ FS!Front(p) \in DOMAIN disk' /\ disk'[FS!Front(p)] = FS!Dir
             /\ disk'[p] \in Stored
             /\ FS!Last(p) \in Call => disk'[p].kind = "file"
  <2>1. CASE p = to
    <3>1. /\ FS!Front(to) \in DOMAIN disk /\ disk[FS!Front(to)] = FS!Dir
                /\ disk[from] \in Stored
        BY <1>1, EntryIs, StoredIs DEF DiskShape
    <3>2. FS!Front(to) # to /\ FS!Front(to) # from
        BY <1>1, <3>1, EntryIs, StoredIs
    <3> QED
        BY <1>1, <1>6, <2>1, <3>1, <3>2, NamesAssumption
  <2>2. CASE p # to
    <3>1. p \in DOMAIN disk \ {FS!Top} /\ p # from
        BY <1>6, <2>2
    <3> QED
        BY <1>2, <1>6, <2>2, <3>1 DEF DiskShape
  <2> QED
      BY <2>1, <2>2
<1>9. DOMAIN disk' \subseteq Spot /\ FS!Top \in DOMAIN disk' /\ disk'[FS!Top] = FS!Dir
  <2>1. from # FS!Top /\ to # FS!Top
      BY <1>1
  <2> QED
      BY <1>1, <1>6, <2>1 DEF DiskShape
<1> QED
    BY <1>7, <1>8, <1>9 DEF DiskShape

(* Whatever is moved, each entry keeps its name, but for the one that is moved.*)
LEMMA MoveDirIs ==
    ASSUME DiskShape, NEW from \in FS!Path, NEW to \in FS!Path, disk' = FS!Move(from, to),
           FS!Entry(from).kind = "dir", FS!CanMove(from, to)
    PROVE  /\ DiskShape'
           /\ \A p \in DOMAIN disk' \ {FS!Top} :
                 \E q \in DOMAIN disk \ {FS!Top} :
                    disk'[p] = disk[q] /\ (FS!Last(p) = FS!Last(q) \/ (p = to /\ q = from))
<1>1. /\ FS!Entry(FS!Front(to)) = FS!Dir /\ FS!Entry(to).kind \in {"missing", "dir"}
            /\ from \in DOMAIN disk
      /\ to \in Spot \ {FS!Top} /\ from \in Spot \ {FS!Top} /\ FS!Last(to) \in Name
      /\ FS!Children(to) = {} /\ ~FS!IsPrefix(from, to) /\ disk[from] = FS!Dir
      /\ \A q \in FS!Below(from) : Len(FS!Moved(from, to, q)) <= 2
    BY EntryIs, SpotIs DEF FS!CanMove, FS!MaxDepth
<1>2. \A q \in DOMAIN disk \ {FS!Top} : FS!Front(q) # to
    BY <1>1 DEF FS!Children
<1>3. \A q \in DOMAIN disk : q \in FS!Below(from)
            <=> q # FS!Top /\ (q = from \/ FS!Front(q) = from)
  <2>1. ASSUME NEW q \in DOMAIN disk
        PROVE  FS!IsPrefix(from, q) <=> q # FS!Top /\ (q = from \/ FS!Front(q) = from)
    <3>1. q \in Spot
        BY EntryIs
    <3>2. CASE q = FS!Top
        BY <1>1, <3>2, PrefixIs
    <3>3. CASE q # FS!Top
      <4>1. FS!Front(q) = from => Len(q) = 2
          BY <1>1, <3>1, <3>3, SpotIs
      <4> QED
          BY <1>1, <3>1, <3>3, <4>1, PrefixIs
    <3> QED
        BY <3>2, <3>3
  <2> QED
      BY <2>1 DEF FS!Below
<1>4. from \in FS!Below(from) /\ FS!Below(from) \subseteq DOMAIN disk
          /\ to \notin FS!Below(from)
    BY <1>1, <1>3 DEF FS!Below
<1>5. FS!Moved(from, to, from) = to /\ FS!Moved(to, from, to) = from /\ FS!IsPrefix(to, to)
    BY <1>1, MovedIs, PrefixIs
<1>6. ASSUME NEW q \in FS!Below(from), q # from
      PROVE  /\ Len(to) = 1 /\ q \in Spot \ {FS!Top} /\ Len(q) = 2 /\ FS!Front(q) = from
             /\ FS!Moved(from, to, q) = Append(to, FS!Last(q))
             /\ Append(to, FS!Last(q)) \in Spot \ {FS!Top}
             /\ FS!Front(Append(to, FS!Last(q))) = to
                   /\ FS!Last(Append(to, FS!Last(q))) = FS!Last(q)
             /\ Len(Append(to, FS!Last(q))) = 2
             /\ FS!Moved(to, from, Append(to, FS!Last(q))) = q
                   /\ FS!IsPrefix(to, Append(to, FS!Last(q)))
  <2>1. q \in Spot \ {FS!Top} /\ FS!Front(q) = from /\ from # FS!Top
      BY <1>1, <1>3, <1>4, <1>6, EntryIs
  <2>2. Len(q) = 2 /\ Append(from, FS!Last(q)) = q /\ FS!Last(q) \in Name \cup Call
      BY <2>1, SpotIs
  <2>3. /\ FS!Moved(from, to, q) = Append(to, FS!Last(q))
        /\ Len(Append(to, FS!Last(q))) = Len(to) + 1
      BY <1>1, <2>1, <2>2, MovedIs
  <2>4. Len(to) = 1 /\ Len(Append(to, FS!Last(q))) = 2
      BY <1>1, <2>3, SpotIs
  <2>5. to \in {<<n>> : n \in Name}
      BY <2>4, PathIs, PathFacts
  <2>6. /\ Append(to, FS!Last(q)) \in Spot \ {FS!Top}
        /\ FS!Front(Append(to, FS!Last(q))) = to /\ FS!Last(Append(to, FS!Last(q))) = FS!Last(q)
      BY <2>2, <2>5, InSite, SpotIs
  <2>7. FS!Moved(to, from, Append(to, FS!Last(q))) = q
    <3> DEFINE Q == Append(to, FS!Last(q))
    <3>1. Q \in Spot /\ Len(Q) = 2 /\ FS!Front(Q) = to /\ FS!Last(Q) = FS!Last(q)
        BY <2>4, <2>6
    <3> HIDE DEF Q
    <3>2. FS!Moved(FS!Front(Q), from, Q) = Append(from, FS!Last(Q))
        BY <1>1, <3>1, MovedIs
    <3>3. FS!Moved(to, from, Q) = q
        BY <2>2, <3>1, <3>2
    <3> QED
        BY <3>3 DEF Q
  <2>8. FS!IsPrefix(to, Append(to, FS!Last(q)))
      BY <1>1, <2>4, <2>6, PrefixIs
  <2> QED
      BY <2>1, <2>2, <2>3, <2>4, <2>6, <2>7, <2>8
<1> DEFINE kept == DOMAIN disk \ (FS!Below(from) \cup {to})
           there == {FS!Moved(from, to, q) : q \in FS!Below(from)}
<1>7. /\ DOMAIN disk' = kept \cup there
      /\ \A p \in kept : disk'[p] = disk[p]
      /\ \A p \in there \ kept :
            disk'[p] = disk[IF FS!IsPrefix(to, p) THEN FS!Moved(to, from, p) ELSE p]
    BY DEF FS!Move
<1>8. ASSUME NEW q \in FS!Below(from)
      PROVE  /\ FS!Moved(from, to, q) \in Spot \ {FS!Top} /\ FS!Moved(from, to, q) \notin kept
             /\ disk'[FS!Moved(from, to, q)] = disk[q]
             /\ IF q = from THEN FS!Moved(from, to, q) = to
                ELSE FS!Front(FS!Moved(from, to, q)) = to
                    /\ FS!Last(FS!Moved(from, to, q)) = FS!Last(q)
  <2>1. CASE q = from
      BY <1>1, <1>5, <1>7, <2>1
  <2>2. CASE q # from
    <3>1. /\ FS!Moved(from, to, q) \in Spot \ {FS!Top} /\ FS!Front(FS!Moved(from, to, q)) = to
          /\ FS!Last(FS!Moved(from, to, q)) = FS!Last(q)
          /\ FS!Moved(to, from, FS!Moved(from, to, q)) = q
                /\ FS!IsPrefix(to, FS!Moved(from, to, q))
        BY <1>6, <2>2
    <3>2. FS!Moved(from, to, q) \notin kept
        BY <1>2, <3>1
    <3> QED
        BY <1>7, <2>2, <3>1, <3>2
  <2> QED
      BY <2>1, <2>2
<1>9. ASSUME NEW p \in DOMAIN disk' \ {FS!Top}
      PROVE  /\ p \in Spot
             /\ \E q \in DOMAIN disk \ {FS!Top} :
                   disk'[p] = disk[q] /\ (FS!Last(p) = FS!Last(q) \/ (p = to /\ q = from))
  <2>1. CASE p \in kept
      BY <1>7, <1>9, <2>1, EntryIs
  <2>2. CASE p \in there
    <3>1. PICK q \in FS!Below(from) : p = FS!Moved(from, to, q)
        BY <2>2
    <3>2. q \in DOMAIN disk \ {FS!Top}
        BY <1>3, <1>4
    <3> QED
        BY <1>8, <3>1, <3>2
  <2> QED
      BY <2>1, <2>2, <1>7
<1>10. FS!Top \in DOMAIN disk' /\ disk'[FS!Top] = FS!Dir
  <2>1. FS!Top \in kept
      BY <1>1, <1>3 DEF DiskShape
  <2> QED
      BY <1>7, <2>1 DEF DiskShape
<1>11. FS!Front(to) \in kept /\ disk[FS!Front(to)] = FS!Dir
  <2>1. FS!Front(to) \in DOMAIN disk /\ disk[FS!Front(to)] = FS!Dir
      BY <1>1, EntryIs, StoredIs
  <2>2. FS!Front(to) # to
      BY <1>1, SpotIs
  <2>3. FS!Front(to) \notin FS!Below(from)
    <3> SUFFICES ASSUME FS!Front(to) \in FS!Below(from) PROVE FALSE
        OBVIOUS
    <3>1. FS!Front(to) # FS!Top /\ Len(to) = 2
        BY <1>1, <1>3, <2>1, SpotIs
    <3>2. FS!Front(to) = from \/ FS!Front(FS!Front(to)) = from
        BY <1>3, <2>1
    <3>3. FS!Front(FS!Front(to)) = FS!Top
        BY <1>1, <3>1, SpotIs, PathFacts
    <3> QED
        BY <1>1, <3>1, <3>2, <3>3, PrefixIs
  <2> QED
      BY <2>1, <2>2, <2>3
<1>12. ASSUME NEW p \in DOMAIN disk' \ {FS!Top}
       PROVE  /\ FS!Front(p) \in DOMAIN disk' /\ disk'[FS!Front(p)] = FS!Dir
              /\ disk'[p] \in Stored
              /\ FS!Last(p) \in Call => disk'[p].kind = "file"
  <2>1. disk'[p] \in Stored /\ (FS!Last(p) \in Call => disk'[p].kind = "file")
    <3>1. PICK q \in DOMAIN disk \ {FS!Top} :
              disk'[p] = disk[q] /\ (FS!Last(p) = FS!Last(q) \/ (p = to /\ q = from))
        BY <1>9
    <3> QED
        BY <1>1, <3>1, NamesAssumption DEF DiskShape
  <2>2. CASE p \in kept
    <3>1. FS!Front(p) \in DOMAIN disk /\ disk[FS!Front(p)] = FS!Dir /\ FS!Front(p) # to
        BY <1>2, <1>12, <2>2 DEF DiskShape
    <3>2. FS!Front(p) \notin FS!Below(from)
      <4>1. FS!Front(p) # from
          BY <1>3, <1>12, <2>2
      <4>2. FS!Front(p) # FS!Top => FS!Front(FS!Front(p)) = FS!Top
        <5>1. p \in Spot \ {FS!Top}
            BY <1>9
        <5> QED
            BY <5>1, SpotIs, PathFacts
      <4> QED
          BY <1>1, <1>3, <3>1, <4>1, <4>2
    <3> QED
        BY <1>7, <2>1, <3>1, <3>2
  <2>3. CASE p \in there
    <3>1. PICK q \in FS!Below(from) : p = FS!Moved(from, to, q)
        BY <2>3
    <3>2. CASE q = from
        BY <1>7, <1>8, <1>11, <2>1, <3>1, <3>2
    <3>3. CASE q # from
      <4>1. FS!Front(p) = to
          BY <1>8, <3>1, <3>3
      <4>2. to \in there /\ disk'[to] = FS!Dir
          BY <1>1, <1>4, <1>8
      <4> QED
          BY <1>7, <2>1, <4>1, <4>2
    <3> QED
        BY <3>2, <3>3
  <2> QED
      BY <2>2, <2>3, <1>7
<1> QED
    BY <1>9, <1>10, <1>12 DEF DiskShape

-----------------------------------------------------------------------------
(* What a step of one request does to the variables of all of them.            *)
LEMMA GotoIs ==
    ASSUME CallTypes, NEW q \in Call, NEW l \in Label, FS!Goto(q, l)
    PROVE  /\ arg' = arg /\ answer' = answer /\ pc' \in [Call -> Label] /\ pc'[q] = l
           /\ \A r \in Call \ {q} : pc'[r] = pc[r]
BY DEF CallTypes, FS!Goto

(* A request that answers.                                                     *)
LEMMA AnswerIs ==
    ASSUME CallTypes, NEW q \in Call, NEW c \in Code, FS!Answer(q, c)
    PROVE  /\ arg' = arg /\ answer' \in [Call -> Code] /\ pc' \in [Call -> Label]
           /\ pc'[q] = "done" /\ answer'[q] = c
           /\ \A r \in Call \ {q} : pc'[r] = pc[r] /\ answer'[r] = answer[r]
BY DEF CallTypes, FS!Answer, Label

(* A local variable of a request is set.                                       *)
LEMMA FieldIs ==
    ASSUME NEW m \in MemType
    PROVE  /\ \A v \in BOOLEAN : [m EXCEPT !.fresh = v] \in MemType
           /\ \A v \in Stored \cup {FS!Missing} : [m EXCEPT !.over = v] \in MemType
           /\ \A v \in Content \cup {FS!Top} : [m EXCEPT !.data = v] \in MemType
           /\ \A v \in Content \cup {FS!Top} : [m EXCEPT !.size = v] \in MemType
           /\ \A v \in Seq(SUBSET [at : Spot \ {FS!Top}, kind : Kind])
                 : [m EXCEPT !.todo = v] \in MemType
           /\ \A v \in SUBSET Spot : [m EXCEPT !.found = v] \in MemType
           /\ \A v \in SUBSET Spot : [m EXCEPT !.lines = v] \in MemType
           /\ \A v \in Spot : [m EXCEPT !.at = v] \in MemType
<1>1. ASSUME NEW v \in BOOLEAN PROVE [m EXCEPT !.fresh = v] \in MemType
    BY DEF MemType
<1>2. ASSUME NEW v \in Stored \cup {FS!Missing} PROVE [m EXCEPT !.over = v] \in MemType
    BY DEF MemType
<1>3. ASSUME NEW v \in Content \cup {FS!Top} PROVE [m EXCEPT !.data = v] \in MemType
    BY DEF MemType
<1>4. ASSUME NEW v \in Content \cup {FS!Top} PROVE [m EXCEPT !.size = v] \in MemType
    BY DEF MemType
<1>5. ASSUME NEW v \in Seq(SUBSET [at : Spot \ {FS!Top}, kind : Kind])
      PROVE [m EXCEPT !.todo = v] \in MemType
    BY DEF MemType
<1>6. ASSUME NEW v \in SUBSET Spot PROVE [m EXCEPT !.found = v] \in MemType
    BY DEF MemType
<1>7. ASSUME NEW v \in SUBSET Spot PROVE [m EXCEPT !.lines = v] \in MemType
    BY DEF MemType
<1>8. ASSUME NEW v \in Spot PROVE [m EXCEPT !.at = v] \in MemType
    BY DEF MemType
<1> QED
    BY <1>1, <1>2, <1>3, <1>4, <1>5, <1>6, <1>7, <1>8

(* A step that sets one local variable.                                        *)
LEMMA SetIs ==
    ASSUME CallTypes, NEW q \in Call
    PROVE  /\ \A v \in BOOLEAN : mem' = [mem EXCEPT ![q].fresh = v] =>
                 /\ mem' \in [Call -> MemType] /\ mem'[q] = [mem[q] EXCEPT !.fresh = v]
                 /\ \A r \in Call \ {q} : mem'[r] = mem[r]
           /\ \A v \in Stored \cup {FS!Missing} : mem' = [mem EXCEPT ![q].over = v] =>
                 /\ mem' \in [Call -> MemType] /\ mem'[q] = [mem[q] EXCEPT !.over = v]
                 /\ \A r \in Call \ {q} : mem'[r] = mem[r]
           /\ \A v \in Content \cup {FS!Top} : mem' = [mem EXCEPT ![q].data = v] =>
                 /\ mem' \in [Call -> MemType] /\ mem'[q] = [mem[q] EXCEPT !.data = v]
                 /\ \A r \in Call \ {q} : mem'[r] = mem[r]
           /\ \A v \in Content \cup {FS!Top} : mem' = [mem EXCEPT ![q].size = v] =>
                 /\ mem' \in [Call -> MemType] /\ mem'[q] = [mem[q] EXCEPT !.size = v]
                 /\ \A r \in Call \ {q} : mem'[r] = mem[r]
           /\ \A v \in Seq(SUBSET [at : Spot \ {FS!Top}, kind : Kind])
                 : mem' = [mem EXCEPT ![q].todo = v] =>
                 /\ mem' \in [Call -> MemType] /\ mem'[q] = [mem[q] EXCEPT !.todo = v]
                 /\ \A r \in Call \ {q} : mem'[r] = mem[r]
           /\ \A v \in SUBSET Spot : mem' = [mem EXCEPT ![q].found = v] =>
                 /\ mem' \in [Call -> MemType] /\ mem'[q] = [mem[q] EXCEPT !.found = v]
                 /\ \A r \in Call \ {q} : mem'[r] = mem[r]
<1>0. mem \in [Call -> MemType] /\ mem[q] \in MemType
    BY DEF CallTypes
<1>1. ASSUME NEW v \in BOOLEAN, mem' = [mem EXCEPT ![q].fresh = v]
      PROVE  /\ mem' \in [Call -> MemType] /\ mem'[q] = [mem[q] EXCEPT !.fresh = v]
             /\ \A r \in Call \ {q} : mem'[r] = mem[r]
  <2>1. [mem[q] EXCEPT !.fresh = v] \in MemType
      BY <1>0, FieldIs
  <2>2. mem'[q] = [mem[q] EXCEPT !.fresh = v] /\ \A r \in Call \ {q} : mem'[r] = mem[r]
      BY <1>0, <1>1
  <2> QED
      BY <1>0, <1>1, <2>1, <2>2
<1>2. ASSUME NEW v \in Stored \cup {FS!Missing}, mem' = [mem EXCEPT ![q].over = v]
      PROVE  /\ mem' \in [Call -> MemType] /\ mem'[q] = [mem[q] EXCEPT !.over = v]
             /\ \A r \in Call \ {q} : mem'[r] = mem[r]
  <2>1. [mem[q] EXCEPT !.over = v] \in MemType
      BY <1>0, FieldIs
  <2>2. mem'[q] = [mem[q] EXCEPT !.over = v] /\ \A r \in Call \ {q} : mem'[r] = mem[r]
      BY <1>0, <1>2
  <2> QED
      BY <1>0, <1>2, <2>1, <2>2
<1>3. ASSUME NEW v \in Content \cup {FS!Top}, mem' = [mem EXCEPT ![q].data = v]
      PROVE  /\ mem' \in [Call -> MemType] /\ mem'[q] = [mem[q] EXCEPT !.data = v]
             /\ \A r \in Call \ {q} : mem'[r] = mem[r]
  <2>1. [mem[q] EXCEPT !.data = v] \in MemType
      BY <1>0, FieldIs
  <2>2. mem'[q] = [mem[q] EXCEPT !.data = v] /\ \A r \in Call \ {q} : mem'[r] = mem[r]
      BY <1>0, <1>3
  <2> QED
      BY <1>0, <1>3, <2>1, <2>2
<1>4. ASSUME NEW v \in Content \cup {FS!Top}, mem' = [mem EXCEPT ![q].size = v]
      PROVE  /\ mem' \in [Call -> MemType] /\ mem'[q] = [mem[q] EXCEPT !.size = v]
             /\ \A r \in Call \ {q} : mem'[r] = mem[r]
  <2>1. [mem[q] EXCEPT !.size = v] \in MemType
      BY <1>0, FieldIs
  <2>2. mem'[q] = [mem[q] EXCEPT !.size = v] /\ \A r \in Call \ {q} : mem'[r] = mem[r]
      BY <1>0, <1>4
  <2> QED
      BY <1>0, <1>4, <2>1, <2>2
<1>5. ASSUME NEW v \in Seq(SUBSET [at : Spot \ {FS!Top}, kind : Kind]),
          mem' = [mem EXCEPT ![q].todo = v]
      PROVE  /\ mem' \in [Call -> MemType] /\ mem'[q] = [mem[q] EXCEPT !.todo = v]
             /\ \A r \in Call \ {q} : mem'[r] = mem[r]
  <2>1. [mem[q] EXCEPT !.todo = v] \in MemType
      BY <1>0, FieldIs
  <2>2. mem'[q] = [mem[q] EXCEPT !.todo = v] /\ \A r \in Call \ {q} : mem'[r] = mem[r]
      BY <1>0, <1>5
  <2> QED
      BY <1>0, <1>5, <2>1, <2>2
<1>6. ASSUME NEW v \in SUBSET Spot, mem' = [mem EXCEPT ![q].found = v]
      PROVE  /\ mem' \in [Call -> MemType] /\ mem'[q] = [mem[q] EXCEPT !.found = v]
             /\ \A r \in Call \ {q} : mem'[r] = mem[r]
  <2>1. [mem[q] EXCEPT !.found = v] \in MemType
      BY <1>0, FieldIs
  <2>2. mem'[q] = [mem[q] EXCEPT !.found = v] /\ \A r \in Call \ {q} : mem'[r] = mem[r]
      BY <1>0, <1>6
  <2> QED
      BY <1>0, <1>6, <2>1, <2>2
<1> QED
    BY <1>1, <1>2, <1>3, <1>4, <1>5, <1>6

-----------------------------------------------------------------------------
(* A step of a request leaves the local variables of the others alone, and the *)
(* history of each says what has changed.                                      *)
Steadied ==
    /\ steady' \in [Call -> SUBSET Spot]
    /\ \A r \in Call : /\ steady'[r] \subseteq steady[r] /\ steady'[r] \subseteq DOMAIN disk'
                       /\ \A p \in steady'[r] : disk'[p] = disk[p]
(* The entries of a directory, and what a step of one request leaves of the    *)
(* others.                                                                     *)
Pairs == {q \in Spot : Len(q) = 2}
Held(q) ==
    /\ mem' \in [Call -> MemType] /\ \A r \in Call \ {q} : mem'[r] = mem[r]
    /\ mem'[q].after = mem[q].after /\ mem'[q].to = mem[q].to
    /\ arg[q].op # "tree" => mem'[q].at = mem[q].at
    /\ arg[q].op = "delete" => mem'[q].found \subseteq Pairs
Alone(q) ==
    /\ Active(q) /\ arg' = arg /\ arg[q].op \in Ops
    /\ pc' \in [Call -> Label] /\ answer' \in [Call -> Code]
    /\ \A r \in Call \ {q} : pc'[r] = pc[r] /\ answer'[r] = answer[r]
    /\ pc'[q] # "none" /\ arg[q].op \in OpOf(pc'[q])
    /\ pc'[q] # "done" => answer'[q] = "none" /\ mem'[q].over = FS!Missing
    /\ Held(q) /\ Steadied

(* A request's operation is the one its step belongs to.                       *)
LEMMA OpIs ==
    ASSUME Shaped, NEW q \in Call
    PROVE  /\ Active(q) => arg[q].op \in Ops /\ answer[q] = "none" /\ mem[q].over = FS!Missing
           /\ pc[q] \in {"readable", "notDir", "regular", "content", "size"} <=>
                 arg[q].op = "read" /\ Active(q)
           /\ pc[q] \in {"free", "make"} => arg[q].op = "mkdir"
           /\ pc[q] \in {"parent", "exists", "open", "fill", "replace"} => arg[q].op = "write"
           /\ pc[q] = "parents" => arg[q].op \in {"mkdir", "write"}
           /\ pc[q] \in {"look", "kind", "empty", "list", "entries", "remove"} <=>
                 arg[q].op = "delete" /\ Active(q)
           /\ pc[q] \in {"from", "dest", "toParent", "move"} <=>
                 arg[q].op = "rename" /\ Active(q)
           /\ pc[q] \in {"names", "contents", "merge"} <=> arg[q].op = "search" /\ Active(q)
           /\ pc[q] \in {"tree", "fileSize"} <=> arg[q].op = "tree" /\ Active(q)
           /\ pc[q] = "packages" <=> arg[q].op = "packages" /\ Active(q)
           /\ pc[q] = "done" => arg[q].op \in Ops
           /\ pc[q] = "none" => arg[q].op = "none"
           /\ arg[q].op \in {"read", "write", "delete", "rename", "mkdir"}
                 => mem[q].at \in FS!Path
           /\ arg[q].op = "rename" => mem[q].to \in FS!Path
           /\ mem \in [Call -> MemType] /\ mem[q] \in MemType
           /\ arg[q].op = "delete" => mem[q].found \subseteq Pairs
<1>1. pc[q] \in Label /\ arg[q].op \in OpOf(pc[q])
    BY DEF Shaped, CallTypes, CallShape
<1>2. mem \in [Call -> MemType] /\ mem[q] \in MemType
    BY DEF Shaped, CallTypes
<1>3. /\ pc[q] # "done" => answer[q] = "none" /\ mem[q].over = FS!Missing
      /\ arg[q].op \in Ops \ FS!Walks => mem[q].at \in FS!Path
      /\ arg[q].op = "rename" => mem[q].to \in FS!Path
      /\ arg[q].op = "delete" => mem[q].found \subseteq Pairs
    BY DEF Shaped, CallShape, Pairs
<1>4. arg[q].op \in {"read", "write", "delete", "rename", "mkdir"} => mem[q].at \in FS!Path
    BY <1>3 DEF Ops, FS!Walks
<1> HIDE DEF Active
<1>5. /\ pc[q] \in {"readable", "notDir", "regular", "content", "size"} <=>
            arg[q].op = "read" /\ Active(q)
      /\ pc[q] \in {"free", "make"} => arg[q].op = "mkdir"
      /\ pc[q] \in {"parent", "exists", "open", "fill", "replace"} => arg[q].op = "write"
      /\ pc[q] = "parents" => arg[q].op \in {"mkdir", "write"}
    BY <1>1 DEF Label, OpOf, Active
<1>6. /\ pc[q] \in {"look", "kind", "empty", "list", "entries", "remove"} <=>
            arg[q].op = "delete" /\ Active(q)
      /\ pc[q] \in {"from", "dest", "toParent", "move"} <=> arg[q].op = "rename" /\ Active(q)
      /\ pc[q] \in {"names", "contents", "merge"} <=> arg[q].op = "search" /\ Active(q)
    BY <1>1 DEF Label, OpOf, Active
<1>7. /\ pc[q] \in {"tree", "fileSize"} <=> arg[q].op = "tree" /\ Active(q)
      /\ pc[q] = "packages" <=> arg[q].op = "packages" /\ Active(q)
      /\ pc[q] = "done" => arg[q].op \in Ops
      /\ pc[q] = "none" => arg[q].op = "none"
      /\ Active(q) => arg[q].op \in Ops
    BY <1>1 DEF Label, OpOf, Ops, Active
<1>8. Active(q) => answer[q] = "none" /\ mem[q].over = FS!Missing
    BY <1>3 DEF Active
<1> QED
    BY <1>2, <1>3, <1>4, <1>5, <1>6, <1>7, <1>8

(* What a request is asked to do.                                              *)
LEMMA ArgIs ==
    \A a \in FS!Arg :
        /\ a.flag \in BOOLEAN /\ a.op \in Ops
        /\ a.op \in FS!Walks => a.path = FS!Top /\ a.to = FS!Top
        /\ a.op \notin FS!Walks => a.path \in FS!Path
        /\ a.op = "rename" => a.to \in FS!Path
        /\ a.op # "rename" => a.to = FS!Top
<1> SUFFICES ASSUME NEW a \in FS!Arg
             PROVE  /\ a.flag \in BOOLEAN /\ a.op \in Ops
                    /\ a.op \in FS!Walks => a.path = FS!Top /\ a.to = FS!Top
                    /\ a.op \notin FS!Walks => a.path \in FS!Path
                    /\ a.op = "rename" => a.to \in FS!Path
                    /\ a.op # "rename" => a.to = FS!Top
    OBVIOUS
<1>1. CASE a \in [op : {"write", "delete", "mkdir"}, path : FS!Path, to : {FS!Top},
          flag : BOOLEAN]
    BY <1>1 DEF Ops, FS!Walks
<1>2. CASE a \in [op : {"read"}, path : FS!Path, to : {FS!Top}, flag : {FALSE}]
    BY <1>2 DEF Ops, FS!Walks
<1>3. CASE a \in [op : {"rename"}, path : FS!Path, to : FS!Path, flag : {FALSE}]
    BY <1>3 DEF Ops, FS!Walks
<1>4. CASE a \in [op : {"tree"}, path : {FS!Top}, to : {FS!Top}, flag : BOOLEAN]
    BY <1>4 DEF Ops, FS!Walks
<1>5. CASE a \in [op : {"search", "packages"}, path : {FS!Top}, to : {FS!Top}, flag : {FALSE}]
    BY <1>5 DEF Ops, FS!Walks
<1> QED
    BY <1>1, <1>2, <1>3, <1>4, <1>5 DEF FS!Arg

(* A request at work has its parameters.                                       *)
LEMMA FlagIs ==
    ASSUME Shaped, NEW q \in Call, Active(q)
    PROVE  arg[q] \in FS!Arg /\ arg[q].flag \in BOOLEAN
<1>1. arg[q] \in FS!Arg \cup {FS!NoArg} /\ arg[q].op \in Ops
    BY OpIs DEF Shaped, CallTypes
<1>2. FS!NoArg.op \notin Ops
    BY DEF FS!NoArg, Ops
<1> QED
    BY <1>1, <1>2, ArgIs

(* What the disk becomes, and what stays.                                      *)
LEMMA SteadyIs ==
    ASSUME Shaped
    PROVE  /\ FS!Same => disk' = disk /\ Steadied
           /\ \A d : FS!Becomes(d) => disk' = d /\ Steadied
<1>1. steady \in [Call -> SUBSET Spot] /\ \A r \in Call : steady[r] \subseteq DOMAIN disk
    BY DEF Shaped, CallTypes, CallShape
<1>2. FS!Same => disk' = disk /\ Steadied
    BY <1>1 DEF FS!Same, Steadied
<1>3. ASSUME NEW d, FS!Becomes(d) PROVE disk' = d /\ Steadied
  <2>1. /\ disk' = d
        /\ steady' = [r \in Call |-> {p \in steady[r] : p \in DOMAIN d /\ d[p] = disk[p]}]
      BY <1>3 DEF FS!Becomes
  <2> QED
      BY <1>1, <2>1 DEF Steadied
<1> QED
    BY <1>2, <1>3

(* The local variables of the request stay.                                    *)
LEMMA HeldIs ==
    ASSUME Shaped, NEW q \in Call, UNCHANGED mem
    PROVE  Held(q) /\ mem'[q].over = mem[q].over
<1>1. mem \in [Call -> MemType] /\ (arg[q].op = "delete" => mem[q].found \subseteq Pairs)
    BY OpIs
<1> QED
    BY <1>1 DEF Held

(* A request goes on, or it answers.                                           *)
LEMMA GoesOn ==
    ASSUME Shaped, NEW q \in Call, Active(q), NEW l \in Label \ {"none", "done"},
           arg[q].op \in OpOf(l), FS!Goto(q, l), Held(q), mem'[q].over = mem[q].over, Steadied
    PROVE  Alone(q) /\ pc'[q] = l /\ answer'[q] = "none"
<1>1. CallTypes /\ answer \in [Call -> Code]
    BY DEF Shaped, CallTypes
<1>2. arg[q].op \in Ops /\ answer[q] = "none" /\ mem[q].over = FS!Missing
    BY OpIs
<1>3. /\ arg' = arg /\ answer' = answer /\ pc' \in [Call -> Label] /\ pc'[q] = l
      /\ \A r \in Call \ {q} : pc'[r] = pc[r]
    BY <1>1, GotoIs
<1> QED
    BY <1>1, <1>2, <1>3 DEF Alone

(* A step that answers is that of one request.                                 *)
LEMMA Answers ==
    ASSUME Shaped, NEW q \in Call, Active(q), NEW c \in Code, FS!Answer(q, c), Held(q), Steadied
    PROVE  Alone(q) /\ pc'[q] = "done" /\ answer'[q] = c
<1>1. CallTypes
    BY DEF Shaped
<1>2. arg[q].op \in Ops /\ Ops = OpOf("done")
    BY OpIs DEF OpOf
<1>3. /\ arg' = arg /\ answer' \in [Call -> Code] /\ pc' \in [Call -> Label]
      /\ pc'[q] = "done" /\ answer'[q] = c
      /\ \A r \in Call \ {q} : pc'[r] = pc[r] /\ answer'[r] = answer[r]
    BY <1>1, AnswerIs
<1> QED
    BY <1>2, <1>3 DEF Alone

(* A check only decides where the request goes on.                             *)
LEMMA CheckIs ==
    ASSUME Shaped, NEW q \in Call, NEW l, l \notin {"none", "done"}, NEW good,
           NEW next \in Label \ {"none", "done"}, NEW code \in Code,
           arg[q].op \in OpOf(next), FS!Check(q, l, good, next, code)
    PROVE  /\ Alone(q) /\ disk' = disk /\ mem' = mem /\ pc[q] = l
           /\ good => pc'[q] = next /\ answer'[q] = "none"
           /\ ~good => pc'[q] = "done" /\ answer'[q] = code
<1>1. pc[q] = l /\ FS!Same /\ mem' = mem /\ IF good THEN FS!Goto(q, next)
                                               ELSE FS!Answer(q, code)
    BY DEF FS!Check
<1>2. Active(q) /\ disk' = disk /\ Steadied /\ Held(q) /\ mem'[q].over = mem[q].over
    BY <1>1, SteadyIs, HeldIs DEF Active
<1>3. CASE good
    BY <1>1, <1>2, <1>3, GoesOn
<1>4. CASE ~good
    BY <1>1, <1>2, <1>4, Answers
<1> QED
    BY <1>1, <1>2, <1>3, <1>4

-----------------------------------------------------------------------------
(* A step that sets one of the local variables leaves the rest as they are.    *)
LEMMA SetsFresh ==
    ASSUME Shaped, NEW q \in Call, NEW v \in BOOLEAN, mem' = [mem EXCEPT ![q].fresh = v]
    PROVE  /\ Held(q)
           /\ mem'[q].fresh = v /\ mem'[q].at = mem[q].at /\ mem'[q].over = mem[q].over
           /\ mem'[q].data = mem[q].data /\ mem'[q].size = mem[q].size
                 /\ mem'[q].todo = mem[q].todo
           /\ mem'[q].found = mem[q].found /\ mem'[q].lines = mem[q].lines
<1>1. /\ mem' \in [Call -> MemType] /\ mem'[q] = [mem[q] EXCEPT !.fresh = v]
      /\ \A r \in Call \ {q} : mem'[r] = mem[r]
  <2>1. CallTypes
      BY DEF Shaped
  <2> QED
      BY <2>1, SetIs
<1>2. mem[q] \in MemType /\ (arg[q].op = "delete" => mem[q].found \subseteq Pairs)
    BY OpIs
<1>3. /\ mem'[q].after = mem[q].after /\ mem'[q].to = mem[q].to
      /\ mem'[q].fresh = v /\ mem'[q].at = mem[q].at /\ mem'[q].over = mem[q].over
      /\ mem'[q].data = mem[q].data /\ mem'[q].size = mem[q].size /\ mem'[q].todo = mem[q].todo
      /\ mem'[q].found = mem[q].found /\ mem'[q].lines = mem[q].lines
    BY <1>1, <1>2 DEF MemType
<1> QED
    BY <1>1, <1>2, <1>3 DEF Held

(* The same for the entry that is replaced.                                    *)
LEMMA SetsOver ==
    ASSUME Shaped, NEW q \in Call, NEW v \in Stored \cup {FS!Missing},
           mem' = [mem EXCEPT ![q].over = v]
    PROVE  /\ Held(q)
           /\ mem'[q].over = v /\ mem'[q].at = mem[q].at /\ mem'[q].fresh = mem[q].fresh
           /\ mem'[q].data = mem[q].data /\ mem'[q].size = mem[q].size
                 /\ mem'[q].todo = mem[q].todo
           /\ mem'[q].found = mem[q].found /\ mem'[q].lines = mem[q].lines
<1>1. /\ mem' \in [Call -> MemType] /\ mem'[q] = [mem[q] EXCEPT !.over = v]
      /\ \A r \in Call \ {q} : mem'[r] = mem[r]
  <2>1. CallTypes
      BY DEF Shaped
  <2> QED
      BY <2>1, SetIs
<1>2. mem[q] \in MemType /\ (arg[q].op = "delete" => mem[q].found \subseteq Pairs)
    BY OpIs
<1>3. /\ mem'[q].after = mem[q].after /\ mem'[q].to = mem[q].to
      /\ mem'[q].over = v /\ mem'[q].at = mem[q].at /\ mem'[q].fresh = mem[q].fresh
      /\ mem'[q].data = mem[q].data /\ mem'[q].size = mem[q].size /\ mem'[q].todo = mem[q].todo
      /\ mem'[q].found = mem[q].found /\ mem'[q].lines = mem[q].lines
    BY <1>1, <1>2 DEF MemType
<1> QED
    BY <1>1, <1>2, <1>3 DEF Held

(* The same for the content that is read.                                      *)
LEMMA SetsData ==
    ASSUME Shaped, NEW q \in Call, NEW v \in Content \cup {FS!Top},
           mem' = [mem EXCEPT ![q].data = v]
    PROVE  /\ Held(q)
           /\ mem'[q].data = v /\ mem'[q].at = mem[q].at /\ mem'[q].fresh = mem[q].fresh
           /\ mem'[q].over = mem[q].over /\ mem'[q].size = mem[q].size
                 /\ mem'[q].todo = mem[q].todo
           /\ mem'[q].found = mem[q].found /\ mem'[q].lines = mem[q].lines
<1>1. /\ mem' \in [Call -> MemType] /\ mem'[q] = [mem[q] EXCEPT !.data = v]
      /\ \A r \in Call \ {q} : mem'[r] = mem[r]
  <2>1. CallTypes
      BY DEF Shaped
  <2> QED
      BY <2>1, SetIs
<1>2. mem[q] \in MemType /\ (arg[q].op = "delete" => mem[q].found \subseteq Pairs)
    BY OpIs
<1>3. /\ mem'[q].after = mem[q].after /\ mem'[q].to = mem[q].to
      /\ mem'[q].data = v /\ mem'[q].at = mem[q].at /\ mem'[q].fresh = mem[q].fresh
      /\ mem'[q].over = mem[q].over /\ mem'[q].size = mem[q].size /\ mem'[q].todo = mem[q].todo
      /\ mem'[q].found = mem[q].found /\ mem'[q].lines = mem[q].lines
    BY <1>1, <1>2 DEF MemType
<1> QED
    BY <1>1, <1>2, <1>3 DEF Held

(* The same for the size that is read.                                         *)
LEMMA SetsSize ==
    ASSUME Shaped, NEW q \in Call, NEW v \in Content \cup {FS!Top},
           mem' = [mem EXCEPT ![q].size = v]
    PROVE  /\ Held(q)
           /\ mem'[q].size = v /\ mem'[q].at = mem[q].at /\ mem'[q].fresh = mem[q].fresh
           /\ mem'[q].over = mem[q].over /\ mem'[q].data = mem[q].data
                 /\ mem'[q].todo = mem[q].todo
           /\ mem'[q].found = mem[q].found /\ mem'[q].lines = mem[q].lines
<1>1. /\ mem' \in [Call -> MemType] /\ mem'[q] = [mem[q] EXCEPT !.size = v]
      /\ \A r \in Call \ {q} : mem'[r] = mem[r]
  <2>1. CallTypes
      BY DEF Shaped
  <2> QED
      BY <2>1, SetIs
<1>2. mem[q] \in MemType /\ (arg[q].op = "delete" => mem[q].found \subseteq Pairs)
    BY OpIs
<1>3. /\ mem'[q].after = mem[q].after /\ mem'[q].to = mem[q].to
      /\ mem'[q].size = v /\ mem'[q].at = mem[q].at /\ mem'[q].fresh = mem[q].fresh
      /\ mem'[q].over = mem[q].over /\ mem'[q].data = mem[q].data /\ mem'[q].todo = mem[q].todo
      /\ mem'[q].found = mem[q].found /\ mem'[q].lines = mem[q].lines
    BY <1>1, <1>2 DEF MemType
<1> QED
    BY <1>1, <1>2, <1>3 DEF Held

(* The same for what a walk has before it.                                     *)
LEMMA SetsTodo ==
    ASSUME Shaped, NEW q \in Call, NEW v \in Seq(SUBSET [at : Spot \ {FS!Top}, kind : Kind]),
           mem' = [mem EXCEPT ![q].todo = v]
    PROVE  /\ Held(q)
           /\ mem'[q].todo = v /\ mem'[q].at = mem[q].at /\ mem'[q].fresh = mem[q].fresh
           /\ mem'[q].over = mem[q].over /\ mem'[q].data = mem[q].data
                 /\ mem'[q].size = mem[q].size
           /\ mem'[q].found = mem[q].found /\ mem'[q].lines = mem[q].lines
<1>1. /\ mem' \in [Call -> MemType] /\ mem'[q] = [mem[q] EXCEPT !.todo = v]
      /\ \A r \in Call \ {q} : mem'[r] = mem[r]
  <2>1. CallTypes
      BY DEF Shaped
  <2> QED
      BY <2>1, SetIs
<1>2. mem[q] \in MemType /\ (arg[q].op = "delete" => mem[q].found \subseteq Pairs)
    BY OpIs
<1>3. /\ mem'[q].after = mem[q].after /\ mem'[q].to = mem[q].to
      /\ mem'[q].todo = v /\ mem'[q].at = mem[q].at /\ mem'[q].fresh = mem[q].fresh
      /\ mem'[q].over = mem[q].over /\ mem'[q].data = mem[q].data /\ mem'[q].size = mem[q].size
      /\ mem'[q].found = mem[q].found /\ mem'[q].lines = mem[q].lines
    BY <1>1, <1>2 DEF MemType
<1> QED
    BY <1>1, <1>2, <1>3 DEF Held

(* The same for what a walk has found, or a delete has listed.                 *)
LEMMA SetsFound ==
    ASSUME Shaped, NEW q \in Call, NEW v \in SUBSET Spot, mem' = [mem EXCEPT ![q].found = v],
           arg[q].op = "delete" => v \subseteq Pairs
    PROVE  /\ Held(q)
           /\ mem'[q].found = v /\ mem'[q].at = mem[q].at /\ mem'[q].fresh = mem[q].fresh
           /\ mem'[q].over = mem[q].over /\ mem'[q].data = mem[q].data
                 /\ mem'[q].size = mem[q].size
           /\ mem'[q].todo = mem[q].todo /\ mem'[q].lines = mem[q].lines
<1>1. /\ mem' \in [Call -> MemType] /\ mem'[q] = [mem[q] EXCEPT !.found = v]
      /\ \A r \in Call \ {q} : mem'[r] = mem[r]
  <2>1. CallTypes
      BY DEF Shaped
  <2> QED
      BY <2>1, SetIs
<1>2. mem[q] \in MemType /\ (arg[q].op = "delete" => mem[q].found \subseteq Pairs)
    BY OpIs
<1>3. /\ mem'[q].after = mem[q].after /\ mem'[q].to = mem[q].to
      /\ mem'[q].found = v /\ mem'[q].at = mem[q].at /\ mem'[q].fresh = mem[q].fresh
      /\ mem'[q].over = mem[q].over /\ mem'[q].data = mem[q].data /\ mem'[q].size = mem[q].size
      /\ mem'[q].todo = mem[q].todo /\ mem'[q].lines = mem[q].lines
    BY <1>1, <1>2 DEF MemType
<1> QED
    BY <1>1, <1>2, <1>3 DEF Held

-----------------------------------------------------------------------------
(* What a step of a request can make of the disk.                              *)
Makes(q) ==
    /\ arg[q].op \in {"mkdir", "write"} /\ pc'[q] \notin {"fill", "replace"}
    /\ \E x \in FS!Path : /\ FS!Entry(x) = FS!Missing /\ FS!Entry(FS!Front(x)) = FS!Dir
                                /\ disk' = FS!With(x, FS!Dir)
                          /\ arg[q].op = "write" => Len(mem[q].at) = 2
                                /\ x = FS!Front(mem[q].at)
Opens(q) ==
    /\ pc[q] = "open" /\ FS!Entry(FS!Front(FS!FileOf(q))).kind = "dir" /\ pc'[q] = "fill"
    /\ disk' = FS!With(FS!FileOf(q), FS!File(FS!Partial(q)))
Fills(q) ==
    /\ pc[q] = "fill" /\ disk' = FS!Filled(q) /\ pc'[q] = "replace"
    /\ mem'[q].at = mem[q].at /\ mem'[q].fresh = mem[q].fresh
Cuts(q) ==
    /\ pc[q] = "fill" /\ disk' = disk /\ pc'[q] = "replace"
    /\ mem'[q].data = FS!Partial(q) /\ mem'[q].at = mem[q].at /\ mem'[q].fresh = mem[q].fresh
Drops(q) ==
    /\ pc[q] \in {"fill", "replace"} /\ disk' = FS!Discarded(q) /\ pc'[q] = "done"
    /\ mem' = mem
    /\ answer'[q] = IF FS!Entry(FS!Front(FS!FileOf(q))).kind \in {"dir", "missing"}
                    THEN "FS_WRITE_FAILED" ELSE "INTERNAL_ERROR"
Replaces(q) ==
    /\ pc[q] = "replace" /\ FS!CanMove(FS!FileOf(q), FS!Place(mem[q].at)) /\ pc'[q] = "done"
    /\ disk' = FS!Move(FS!FileOf(q), FS!Place(mem[q].at))
Removes(q) ==
    arg[q].op = "delete" /\ \E z \in Spot \ {FS!Top} : FS!CanRemove(z) /\ disk' = FS!Without(z)
Renames(q) ==
    /\ arg[q].op = "rename" /\ FS!CanMove(FS!Place(mem[q].at), FS!Place(mem[q].to))
    /\ disk' = FS!Move(FS!Place(mem[q].at), FS!Place(mem[q].to))
Leaves(q) == disk' = disk /\ pc'[q] \notin {"fill", "replace"}
Changes(q) ==
    \/ Leaves(q) \/ Makes(q) \/ Removes(q) \/ Renames(q)
    \/ arg[q].op = "write" /\ (Opens(q) \/ Fills(q) \/ Cuts(q) \/ Drops(q) \/ Replaces(q))

(* What a call that throws answers.                                            *)
LEMMA ThrownIs ==
    \A p : \A c \in Code :
        /\ FS!Thrown(p, c) \in Code
        /\ FS!Loops(p) => FS!Thrown(p, c) = "INTERNAL_ERROR"
        /\ ~FS!Loops(p) => FS!Thrown(p, c) = c
BY DEF FS!Thrown, Code

(* Only a write fills and replaces.                                            *)
LEMMA WriteIs ==
    ASSUME NEW q \in Call, Alone(q), arg[q].op # "write"
    PROVE  pc'[q] \notin {"fill", "replace"}
BY DEF Alone, OpOf

(* read_file changes nothing.                                                  *)
LEMMA ReadIs ==
    ASSUME Shaped, NEW q \in Call, FS!Read(q)
    PROVE  Alone(q) /\ Leaves(q)
<1> DEFINE p == mem[q].at
<1>1. DiskShape /\ FS!Stat(p).data \in Content \cup {FS!Top}
    BY StatIs DEF Shaped
<1>2. pc[q] \in {"readable", "notDir", "regular", "content", "size"}
    BY DEF FS!Read, FS!Check
<1>3. arg[q].op = "read" /\ Active(q)
    BY <1>2, OpIs
<1>4. /\ {"readable", "notDir", "regular", "content", "size"} \subseteq Label \ {"none", "done"}
      /\ \A l \in {"readable", "notDir", "regular", "content", "size"} : arg[q].op \in OpOf(l)
      /\ {"ok", "FS_PATH_NOT_FOUND", "FS_IS_DIRECTORY", "INTERNAL_ERROR"} \subseteq Code
    BY <1>3 DEF Label, OpOf, Code
<1>5. Alone(q) /\ disk' = disk
  <2>1. CASE FS!Check(q, "readable", FS!Exists(p), "notDir", "FS_PATH_NOT_FOUND")
      BY <2>1, <1>4, CheckIs
  <2>2. CASE FS!Check(q, "notDir", FS!Stat(p).kind # "dir" /\ ~FS!Loops(p), "regular",
                      FS!Thrown(p, "FS_IS_DIRECTORY"))
      BY <2>2, <1>4, CheckIs, ThrownIs
  <2>3. CASE FS!Check(q, "regular", FS!Stat(p).kind = "file", "content",
                      FS!Thrown(p, "FS_PATH_NOT_FOUND"))
      BY <2>3, <1>4, CheckIs, ThrownIs
  <2>4. CASE /\ mem' = [mem EXCEPT ![q].data = FS!Stat(p).data] /\ FS!Same
             /\ IF FS!Stat(p).kind = "file" THEN FS!Goto(q, "size")
                   ELSE FS!Answer(q, "INTERNAL_ERROR")
    <3>1. Held(q) /\ mem'[q].over = mem[q].over /\ disk' = disk /\ Steadied
        BY <2>4, <1>1, SetsData, SteadyIs
    <3> QED
        BY <2>4, <3>1, <1>3, <1>4, GoesOn, Answers
  <2>5. CASE /\ mem' = [mem EXCEPT ![q].size = FS!Stat(p).data] /\ FS!Same
             /\ FS!Answer(q, IF FS!Stat(p).kind = "file" /\ mem[q].data \notin Garbled
                             THEN "ok" ELSE "INTERNAL_ERROR")
    <3>1. Held(q) /\ disk' = disk /\ Steadied
        BY <2>5, <1>1, SetsSize, SteadyIs
    <3> QED
        BY <2>5, <3>1, <1>3, <1>4, Answers
  <2> QED
      BY <2>1, <2>2, <2>3, <2>4, <2>5 DEF FS!Read
<1> QED
    BY <1>3, <1>5, WriteIs DEF Leaves

(* create_directories makes the directory that is asked for, or nothing.       *)
LEMMA MakeIs ==
    ASSUME Shaped, NEW q \in Call, NEW p \in FS!Path \cup Dirs, FS!CanMake(p),
           FS!Becomes(FS!With(FS!Place(p), FS!Dir)),
           arg[q].op \in {"mkdir", "write"}, pc'[q] \notin {"fill", "replace"},
           arg[q].op = "write" => Len(mem[q].at) = 2 /\ p = FS!Front(mem[q].at)
               /\ FS!Place(p) = p
    PROVE  Makes(q) /\ Steadied
<1>1. DiskShape
    BY DEF Shaped
<1>2. disk' = FS!With(FS!Place(p), FS!Dir) /\ Steadied
    BY SteadyIs
<1>3. FS!Entry(FS!Place(p)) = FS!Missing /\ FS!Entry(FS!Front(FS!Place(p))) = FS!Dir
    BY <1>1, EntryIs DEF FS!CanMake
<1>4. FS!Place(p) \in FS!Path
  <2>1. CASE p = FS!Top
    <3>1. FS!Place(FS!Top) = FS!Top /\ FS!Entry(FS!Top) = FS!Dir /\ FS!Dir # FS!Missing
        BY <1>1, PlaceIs, EntryIs, StoredIs DEF Dirs
    <3> QED
        BY <2>1, <3>1, <1>3
  <2>2. CASE p # FS!Top
      BY <2>2, <1>1, PlaceIs, PathIs DEF Dirs
  <2> QED
      BY <2>1, <2>2
<1> QED
    BY <1>2, <1>3, <1>4 DEF Makes

(* create_directories, of mkdir and of write_file.                             *)
LEMMA ParentsIs ==
    ASSUME Shaped, NEW q \in Call, NEW next \in {"make", "exists"}, FS!Parents(q, next),
           arg[q].op = IF next = "make" THEN "mkdir" ELSE "write"
    PROVE  Alone(q) /\ (Leaves(q) \/ Makes(q)) /\ mem' = mem
<1> DEFINE d == FS!Front(mem[q].at)
<1>1. /\ pc[q] = "parents" /\ mem' = mem
      /\ IF FS!CanMake(d) THEN FS!Becomes(FS!With(FS!Place(d), FS!Dir)) ELSE FS!Same
      /\ IF FS!Stat(d).kind = "dir" \/ FS!CanMake(d) THEN FS!Goto(q, next)
            ELSE FS!Answer(q, "FS_WRITE_FAILED")
    BY DEF FS!Parents
<1>2. Active(q) /\ mem[q].at \in FS!Path /\ Held(q) /\ mem'[q].over = mem[q].over /\ Steadied
    BY <1>1, OpIs, HeldIs, SteadyIs DEF Active
<1>3. Alone(q) /\ pc'[q] \in {"make", "exists", "done"}
  <2>1. /\ next \in Label \ {"none", "done"} /\ arg[q].op \in OpOf(next)
        /\ "FS_WRITE_FAILED" \in Code
      BY DEF Label, OpOf, Code
  <2> QED
      BY <1>1, <1>2, <2>1, GoesOn, Answers
<1>4. CASE FS!CanMake(d)
  <2>1. DiskShape
      BY DEF Shaped
  <2>2. d \in Dirs /\ FS!Place(d) = d /\ Len(mem[q].at) \in {1, 2}
      BY <1>2, <2>1, PlaceIs, SpotIs
  <2>3. Len(mem[q].at) # 1
    <3>1. FS!Entry(FS!Top).kind # "missing"
        BY <2>1, EntryIs, StoredIs
    <3>2. Len(mem[q].at) = 1 => d = FS!Top
        BY <1>2, SpotIs
    <3> QED
        BY <1>4, <2>2, <3>1, <3>2 DEF FS!CanMake
  <2> QED
      BY <1>1, <1>3, <1>4, <2>2, <2>3, MakeIs
<1>5. CASE ~FS!CanMake(d)
    BY <1>1, <1>3, <1>5, SteadyIs DEF Leaves
<1> QED
    BY <1>1, <1>3, <1>4, <1>5

(* mkdir makes a directory or leaves the disk.                                 *)
LEMMA MkdirIs ==
    ASSUME Shaped, NEW q \in Call, FS!Mkdir(q)
    PROVE  Alone(q) /\ (Leaves(q) \/ Makes(q)) /\ arg[q].op = "mkdir"
<1> DEFINE p == mem[q].at
<1>1. arg[q].op = "mkdir" /\ Active(q) /\ p \in FS!Path
  <2>1. pc[q] \in {"free", "make"} \/ (pc[q] = "parents" /\ arg[q].op = "mkdir")
      BY DEF FS!Mkdir, FS!Check, FS!Parents
  <2> QED
      BY <2>1, OpIs DEF Active
<1>2. /\ {"free", "make", "parents"} \subseteq Label \ {"none", "done"}
      /\ \A l \in {"free", "make", "parents"} : arg[q].op \in OpOf(l)
      /\ {"ok", "FS_PATH_EXISTS", "FS_WRITE_FAILED"} \subseteq Code
    BY <1>1 DEF Label, OpOf, Code
<1>3. CASE FS!Check(q, "free", ~FS!Exists(p) /\ ~FS!Loops(p),
                    IF arg[q].flag THEN "parents" ELSE "make", FS!Thrown(p, "FS_PATH_EXISTS"))
  <2> DEFINE next == IF arg[q].flag THEN "parents" ELSE "make"
  <2>1. next \in Label \ {"none", "done"} /\ arg[q].op \in OpOf(next)
      BY <1>2
  <2>2. FS!Check(q, "free", ~FS!Exists(p) /\ ~FS!Loops(p), next,
                 FS!Thrown(p, "FS_PATH_EXISTS"))
            /\ "free" \notin {"none", "done"}
      BY <1>3
  <2> HIDE DEF next
  <2>3. Alone(q) /\ disk' = disk
      BY <1>2, <2>1, <2>2, CheckIs, ThrownIs
  <2> QED
      BY <1>1, <2>3, WriteIs DEF Leaves
<1>4. CASE FS!Parents(q, "make")
    BY <1>1, <1>4, ParentsIs
<1>5. CASE /\ pc[q] = "make"
           /\ IF FS!CanMake(p) THEN FS!Becomes(FS!With(FS!Place(p), FS!Dir)) ELSE FS!Same
           /\ mem' = [mem EXCEPT ![q].fresh = FS!CanMake(p)]
           /\ FS!Answer(q, IF FS!CanMake(p) \/ FS!Stat(p).kind = "dir" THEN "ok"
                              ELSE "FS_WRITE_FAILED")
  <2>1. FS!CanMake(p) \in BOOLEAN
      BY DEF FS!CanMake
  <2>2. Held(q) /\ Steadied
      BY <1>5, <2>1, SetsFresh, SteadyIs
  <2>3. Alone(q) /\ pc'[q] = "done"
      BY <1>1, <1>2, <1>5, <2>2, Answers
  <2>4. CASE FS!CanMake(p)
      BY <1>1, <1>5, <2>3, <2>4, MakeIs
  <2>5. CASE ~FS!CanMake(p)
    <3>1. FS!Same
        BY <1>5, <2>5
    <3> QED
        BY <1>1, <2>3, <3>1, SteadyIs DEF Leaves
  <2> QED
      BY <1>1, <2>3, <2>4, <2>5
<1> QED
    BY <1>1, <1>3, <1>4, <1>5 DEF FS!Mkdir

(* delete_path removes what it has listed, and last what it was asked to.      *)
LEMMA DeleteIs ==
    ASSUME Shaped, NEW q \in Call, FS!Delete(q)
    PROVE  Alone(q) /\ (Leaves(q) \/ Removes(q))
<1> DEFINE p == mem[q].at
<1>1. pc[q] \in {"look", "kind", "empty", "list", "entries", "remove"}
    BY DEF FS!Delete, FS!Check, FS!Go
<1>2. /\ arg[q].op = "delete" /\ Active(q) /\ p \in FS!Path /\ DiskShape
      /\ mem[q].found \subseteq Pairs /\ FS!Place(p) \in Spot \ {FS!Top}
    BY <1>1, OpIs, PlaceIs, SpotIs DEF Shaped
<1>3. /\ {"look", "kind", "empty", "list", "entries", "remove"} \subseteq Label \ {"none",
            "done"}
      /\ \A l \in {"look", "kind", "empty", "list", "entries", "remove"} : arg[q].op \in OpOf(l)
      /\ {"ok", "FS_PATH_NOT_FOUND", "FS_NOT_EMPTY", "FS_PERMISSION_DENIED",
            "INTERNAL_ERROR"} \subseteq Code
    BY <1>2 DEF Label, OpOf, Code
<1>4. Alone(q) /\ (disk' = disk \/ Removes(q))
  <2>1. CASE FS!Check(q, "look", FS!Exists(p), "kind", FS!Thrown(p, "FS_PATH_NOT_FOUND"))
      BY <2>1, <1>3, CheckIs, ThrownIs
  <2>2. CASE FS!Check(q, "kind", ~FS!Loops(p),
                      IF FS!Stat(p).kind # "dir" THEN "remove"
                      ELSE IF arg[q].flag THEN "list" ELSE "empty", "INTERNAL_ERROR")
    <3> DEFINE next == IF FS!Stat(p).kind # "dir" THEN "remove"
                       ELSE IF arg[q].flag THEN "list" ELSE "empty"
    <3>1. next \in Label \ {"none", "done"} /\ arg[q].op \in OpOf(next)
        BY <1>3
    <3>2. FS!Check(q, "kind", ~FS!Loops(p), next, "INTERNAL_ERROR")
        BY <2>2
    <3> HIDE DEF next
    <3> QED
        BY <1>3, <3>1, <3>2, CheckIs
  <2>3. CASE FS!Check(q, "empty", FS!Stat(p).kind = "dir" /\ FS!Children(FS!Follow(p)) = {},
            "remove",
                   IF FS!Stat(p).kind = "dir" THEN "FS_NOT_EMPTY" ELSE "FS_PERMISSION_DENIED")
      BY <2>3, <1>3, CheckIs
  <2>4. CASE FS!Same /\ mem' = [mem EXCEPT ![q].found = FS!Children(p)] /\ FS!Goto(q, "entries")
    <3>1. FS!Children(p) \subseteq Pairs
      <4>1. \A x \in DOMAIN disk : x \in Spot
          BY <1>2, EntryIs
      <4>2. p # FS!Top
          BY <1>2, SpotIs
      <4> QED
          BY <4>1, <4>2, SpotIs DEF FS!Children, Pairs
    <3>2. Held(q) /\ mem'[q].over = mem[q].over /\ disk' = disk /\ Steadied
        BY <2>4, <3>1, SetsFound, SteadyIs DEF Pairs
    <3> QED
        BY <1>2, <1>3, <2>4, <3>2, GoesOn
  <2>5. ASSUME NEW z \in mem[q].found, mem' = [mem EXCEPT ![q].found = @ \ {z}],
               IF FS!CanRemove(z) THEN FS!Becomes(FS!Without(z)) /\ FS!Goto(q, "entries")
                               ELSE FS!Same /\ FS!Answer(q, "FS_PERMISSION_DENIED")
        PROVE  Alone(q) /\ (disk' = disk \/ Removes(q))
    <3> DEFINE v == mem[q].found \ {z}
    <3>1. /\ v \in SUBSET Spot /\ v \subseteq Pairs /\ z \in Spot \ {FS!Top}
          /\ mem' = [mem EXCEPT ![q].found = v]
      <4>1. FS!Top \notin Pairs /\ Pairs \subseteq Spot
          BY PathFacts DEF FS!Top, Pairs
      <4> QED
          BY <1>2, <2>5, <4>1
    <3> HIDE DEF v
    <3>2. Held(q) /\ mem'[q].over = mem[q].over /\ Steadied
        BY <2>5, <3>1, SetsFound, SteadyIs
    <3>3. Alone(q)
        BY <1>2, <1>3, <2>5, <3>2, GoesOn, Answers
    <3>4. disk' = disk \/ Removes(q)
        BY <1>2, <2>5, <3>1, SteadyIs DEF Removes
    <3> QED
        BY <3>3, <3>4
  <2>6. CASE FS!Go(q, "entries", "remove")
    <3>1. FS!Goto(q, "remove") /\ FS!Same /\ mem' = mem
        BY <2>6 DEF FS!Go
    <3> QED
        BY <1>2, <1>3, <3>1, HeldIs, SteadyIs, GoesOn
  <2>7. CASE /\ mem' = mem
             /\ IF FS!CanRemove(FS!Place(p))
                   THEN FS!Becomes(FS!Without(FS!Place(p))) /\ FS!Answer(q, "ok")
                                       ELSE FS!Same /\ FS!Answer(q, "FS_PERMISSION_DENIED")
    <3>1. Held(q) /\ Steadied
        BY <2>7, HeldIs, SteadyIs
    <3>2. Alone(q)
        BY <1>2, <1>3, <2>7, <3>1, Answers
    <3>3. disk' = disk \/ Removes(q)
        BY <1>2, <2>7, SteadyIs DEF Removes
    <3> QED
        BY <3>2, <3>3
  <2> QED
      BY <2>1, <2>2, <2>3, <2>4, <2>5, <2>6, <2>7 DEF FS!Delete
<1> QED
    BY <1>2, <1>4, WriteIs DEF Leaves

(* rename moves what it was asked to move, or fails.                           *)
LEMMA RenameIs ==
    ASSUME Shaped, NEW q \in Call, FS!Rename(q)
    PROVE  Alone(q) /\ (Leaves(q) \/ Renames(q))
<1> DEFINE from == mem[q].at
           to == mem[q].to
<1>1. pc[q] \in {"from", "dest", "toParent", "move"}
    BY DEF FS!Rename, FS!Check
<1>2. /\ arg[q].op = "rename" /\ Active(q) /\ from \in FS!Path /\ to \in FS!Path /\ DiskShape
      /\ FS!Entry(FS!Place(to)) \in Stored \cup {FS!Missing}
    BY <1>1, OpIs, EntryIs DEF Shaped
<1>3. /\ {"from", "dest", "toParent", "move"} \subseteq Label \ {"none", "done"}
      /\ \A l \in {"from", "dest", "toParent", "move"} : arg[q].op \in OpOf(l)
      /\ {"ok", "FS_PATH_NOT_FOUND", "FS_PATH_EXISTS", "FS_WRITE_FAILED"} \subseteq Code
    BY <1>2 DEF Label, OpOf, Code
<1>4. Alone(q) /\ (disk' = disk \/ Renames(q))
  <2>1. CASE FS!Check(q, "from", FS!Exists(from), "dest",
                      FS!Thrown(from, "FS_PATH_NOT_FOUND"))
      BY <2>1, <1>3, CheckIs, ThrownIs
  <2>2. CASE FS!Check(q, "dest", FS!Free(to) /\ ~FS!Loops(to), "toParent",
                      FS!Thrown(to, "FS_PATH_EXISTS"))
      BY <2>2, <1>3, CheckIs, ThrownIs
  <2>3. CASE FS!Check(q, "toParent", FS!Exists(FS!Front(to)), "move",
                      FS!Thrown(FS!Front(to), "FS_PATH_NOT_FOUND"))
      BY <2>3, <1>3, CheckIs, ThrownIs
  <2>4. CASE /\ FS!CanMove(FS!Place(from), FS!Place(to))
             /\ FS!Becomes(FS!Move(FS!Place(from), FS!Place(to)))
             /\ mem' = [mem EXCEPT ![q].over = FS!Entry(FS!Place(to))] /\ FS!Answer(q, "ok")
    <3>1. Held(q) /\ Steadied
        BY <2>4, <1>2, SetsOver, SteadyIs
    <3>2. Alone(q)
        BY <1>2, <1>3, <2>4, <3>1, Answers
    <3>3. Renames(q)
        BY <1>2, <2>4, SteadyIs DEF Renames
    <3> QED
        BY <3>2, <3>3
  <2>5. CASE /\ FS!Same /\ mem' = mem
             /\ FS!Answer(q, IF from = to /\ FS!Entry(from) # FS!Missing THEN "ok"
                                ELSE "FS_WRITE_FAILED")
    <3>1. Held(q) /\ Steadied /\ disk' = disk
        BY <2>5, HeldIs, SteadyIs
    <3> QED
        BY <1>2, <1>3, <2>5, <3>1, Answers
  <2> QED
      BY <2>1, <2>2, <2>3, <2>4, <2>5 DEF FS!Rename
<1> QED
    BY <1>2, <1>4, WriteIs DEF Leaves

(* write_file makes a temporary file, fills it, and moves it over its target.  *)
LEMMA WritesIs ==
    ASSUME Shaped, NEW q \in Call, FS!Write(q)
    PROVE  Alone(q) /\ Changes(q)
<1> DEFINE p == mem[q].at
<1>1. arg[q].op = "write" /\ Active(q) /\ p \in FS!Path
  <2>1. \/ pc[q] \in {"parent", "exists", "open", "fill", "replace"}
        \/ pc[q] = "parents" /\ arg[q].op = "write"
      BY DEF FS!Write, FS!Check, FS!Parents
  <2> QED
      BY <2>1, OpIs DEF Active
<1>2. DiskShape /\ FS!FileOf(q) \in Spot \ {FS!Top}
          /\ FS!Entry(FS!Place(p)) \in Stored \cup {FS!Missing}
    BY <1>1, FileOfIs, EntryIs DEF Shaped
<1>3. /\ {"parents", "exists", "open", "fill", "replace"} \subseteq Label \ {"none", "done"}
      /\ \A l \in {"parents", "exists", "open", "fill", "replace"} : arg[q].op \in OpOf(l)
      /\ {"ok", "FS_PATH_NOT_FOUND", "FS_WRITE_FAILED", "INTERNAL_ERROR"} \subseteq Code
      /\ FS!Whole(q) \in Content /\ FS!Partial(q) \in Content
    BY <1>1 DEF Label, OpOf, Code, Content
<1>4. CASE FS!Check(q, "parent",
                 FS!Exists(FS!Front(p)) \/ (arg[q].flag /\ ~FS!Loops(FS!Front(p))),
                 IF FS!Exists(FS!Front(p)) THEN "exists" ELSE "parents",
                 FS!Thrown(FS!Front(p), "FS_PATH_NOT_FOUND"))
  <2> DEFINE next == IF FS!Exists(FS!Front(p)) THEN "exists" ELSE "parents"
             good == FS!Exists(FS!Front(p)) \/ (arg[q].flag /\ ~FS!Loops(FS!Front(p)))
  <2>1. next \in Label \ {"none", "done"} /\ arg[q].op \in OpOf(next)
            /\ next \in {"exists", "parents"}
      BY <1>3
  <2>2. FS!Check(q, "parent", good, next, FS!Thrown(FS!Front(p), "FS_PATH_NOT_FOUND"))
            /\ "parent" \notin {"none", "done"}
      BY <1>4
  <2> HIDE DEF next, good
  <2>3. Alone(q) /\ disk' = disk /\ pc'[q] \in {"done", next}
      BY <1>3, <2>1, <2>2, CheckIs, ThrownIs
  <2> QED
      BY <2>1, <2>3 DEF Changes, Leaves
<1>5. CASE FS!Parents(q, "exists")
    BY <1>1, <1>5, ParentsIs DEF Changes
<1>6. CASE /\ pc[q] = "exists" /\ mem' = [mem EXCEPT ![q].fresh = ~FS!Exists(p)] /\ FS!Same
           /\ IF FS!Loops(p) THEN FS!Answer(q, "INTERNAL_ERROR") ELSE FS!Goto(q, "open")
  <2>1. (~FS!Exists(p)) \in BOOLEAN
      BY DEF FS!Exists
  <2>2. Held(q) /\ Steadied /\ disk' = disk /\ mem'[q].over = mem[q].over
      BY <1>6, <2>1, SetsFresh, SteadyIs
  <2>3. Alone(q) /\ pc'[q] \in {"open", "done"}
      BY <1>1, <1>3, <1>6, <2>2, GoesOn, Answers
  <2> QED
      BY <2>2, <2>3 DEF Changes, Leaves
<1>7. CASE pc[q] = "open" /\ mem' = mem
           /\ IF FS!Entry(FS!Front(FS!FileOf(q))).kind = "dir"
              THEN FS!Becomes(FS!With(FS!FileOf(q), FS!File(FS!Partial(q))))
                  /\ FS!Goto(q, "fill")
              ELSE FS!Same /\ FS!Answer(q, "FS_WRITE_FAILED")
  <2>1. Held(q) /\ Steadied /\ mem'[q].over = mem[q].over
      BY <1>7, HeldIs, SteadyIs
  <2>2. CASE FS!Entry(FS!Front(FS!FileOf(q))).kind = "dir"
    <3>1. Alone(q) /\ pc'[q] = "fill"
        BY <1>1, <1>3, <1>7, <2>1, <2>2, GoesOn
    <3> QED
        BY <1>1, <1>7, <2>2, <3>1, SteadyIs DEF Changes, Opens
  <2>3. CASE FS!Entry(FS!Front(FS!FileOf(q))).kind # "dir"
    <3>1. Alone(q) /\ pc'[q] = "done"
        BY <1>1, <1>3, <1>7, <2>1, <2>3, Answers
    <3> QED
        BY <1>7, <2>3, <3>1, SteadyIs DEF Changes, Leaves
  <2> QED
      BY <2>2, <2>3
<1>8. CASE /\ pc[q] = "fill" /\ FS!Goto(q, "replace") /\ FS!Becomes(FS!Filled(q))
           /\ mem' = [mem EXCEPT ![q].data = FS!Whole(q)]
  <2>1. /\ Held(q) /\ Steadied /\ mem'[q].over = mem[q].over /\ disk' = FS!Filled(q)
        /\ mem'[q].at = mem[q].at /\ mem'[q].fresh = mem[q].fresh
      BY <1>3, <1>8, SetsData, SteadyIs
  <2>2. Alone(q) /\ pc'[q] = "replace"
      BY <1>1, <1>3, <1>8, <2>1, GoesOn
  <2> QED
      BY <1>1, <1>8, <2>1, <2>2 DEF Changes, Fills
<1>11. CASE /\ pc[q] = "fill" /\ FS!Same /\ FS!Goto(q, "replace")
            /\ mem' = [mem EXCEPT ![q].data = FS!Partial(q)]
  <2>1. /\ Held(q) /\ Steadied /\ mem'[q].over = mem[q].over /\ disk' = disk
        /\ mem'[q].at = mem[q].at /\ mem'[q].fresh = mem[q].fresh
        /\ mem'[q].data = FS!Partial(q)
      BY <1>3, <1>11, SetsData, SteadyIs
  <2>2. Alone(q) /\ pc'[q] = "replace"
      BY <1>1, <1>3, <1>11, <2>1, GoesOn
  <2> QED
      BY <1>1, <1>11, <2>1, <2>2 DEF Changes, Cuts
<1>9. CASE pc[q] \in {"fill", "replace"} /\ mem' = mem /\ FS!Undo(q)
  <2> DEFINE code == IF FS!Entry(FS!Front(FS!FileOf(q))).kind \in {"dir", "missing"}
                     THEN "FS_WRITE_FAILED" ELSE "INTERNAL_ERROR"
  <2>0. FS!Becomes(FS!Discarded(q)) /\ FS!Answer(q, code) /\ code \in Code
      BY <1>3, <1>9 DEF FS!Undo
  <2> HIDE DEF code
  <2>1. Held(q) /\ Steadied /\ disk' = FS!Discarded(q)
      BY <1>9, <2>0, HeldIs, SteadyIs
  <2>2. Alone(q) /\ pc'[q] = "done" /\ answer'[q] = code
      BY <1>1, <1>9, <2>0, <2>1, Answers
  <2> QED
      BY <1>1, <1>9, <2>1, <2>2 DEF Changes, Drops, code
<1>10. CASE /\ pc[q] = "replace" /\ FS!CanMove(FS!FileOf(q), FS!Place(p))
            /\ FS!Becomes(FS!Move(FS!FileOf(q), FS!Place(p))) /\ FS!Answer(q, "ok")
            /\ mem' = [mem EXCEPT ![q].over = FS!Entry(FS!Place(p))]
  <2>1. Held(q) /\ Steadied
      BY <1>10, <1>2, SetsOver, SteadyIs
  <2>2. Alone(q) /\ pc'[q] = "done"
      BY <1>1, <1>3, <1>10, <2>1, Answers
  <2> QED
      BY <1>1, <1>10, <2>2, SteadyIs DEF Changes, Replaces
<1> QED
    BY <1>4, <1>5, <1>6, <1>7, <1>8, <1>9, <1>10, <1>11 DEF FS!Write

-----------------------------------------------------------------------------
(* What a walk has before it.                                                  *)
Item == [at : Spot \ {FS!Top}, kind : Kind]
Lists == Seq(SUBSET Item)

(* The members of one set more.                                                *)
LEMMA UnionIs == \A A, x : UNION (A \cup {x}) = (UNION A) \cup x
BY Zenon

(* A list with one more listing.                                               *)
LEMMA PushedIs ==
    ASSUME NEW s \in Lists, NEW x \in SUBSET Item
    PROVE  FS!Pushed(s, x) \in Lists /\ UNION FS!ToSet(FS!Pushed(s, x)) = (UNION FS!ToSet(s))
               \cup x
<1>1. CASE x = {}
    BY <1>1 DEF FS!Pushed
<1>2. CASE x # {}
  <2> DEFINE u == Append(s, x)
  <2>1. /\ u \in Lists /\ Len(u) = Len(s) + 1 /\ u[Len(s) + 1] = x
        /\ \A i \in 1..Len(s) : u[i] = s[i]
      BY AppendProperties DEF Lists
  <2>2. FS!Pushed(s, x) = u
      BY <1>2 DEF FS!Pushed
  <2> HIDE DEF u
  <2>3. DOMAIN s = 1..Len(s) /\ DOMAIN u = 1..Len(u) /\ Len(s) \in Nat
      BY <2>1 DEF Lists
  <2>4. DOMAIN u = DOMAIN s \cup {Len(s) + 1}
      BY <2>1, <2>3
  <2>5. FS!ToSet(u) = FS!ToSet(s) \cup {x}
      BY <2>1, <2>3, <2>4 DEF FS!ToSet
  <2>6. UNION FS!ToSet(u) = (UNION FS!ToSet(s)) \cup x
      BY <2>5, UnionIs
  <2> QED
      BY <2>1, <2>2, <2>6
<1> QED
    BY <1>1, <1>2

(* A list without one entry of its last listing.                               *)
LEMMA PoppedIs ==
    ASSUME NEW s \in Lists, s # <<>>, NEW e
    PROVE  /\ FS!Last(s) \in SUBSET Item /\ FS!Last(s) \subseteq UNION FS!ToSet(s)
           /\ FS!Popped(s, e) \in Lists /\ UNION FS!ToSet(FS!Popped(s,
                 e)) \subseteq UNION FS!ToSet(s)
           /\ \A x \in UNION FS!ToSet(s) : x = e \/ x \in UNION FS!ToSet(FS!Popped(s, e))
<1> DEFINE n == Len(s)
           u == SubSeq(s, 1, n - 1)
<1>1. n \in Nat /\ n > 0 /\ DOMAIN s = 1..n /\ FS!Last(s) = s[n] /\ s[n] \in SUBSET Item
    BY DEF Lists, FS!Last
<1>2. u \in Lists /\ Len(u) = n - 1 /\ \A i \in 1..(n - 1) : u[i] = s[i]
    BY <1>1, SubSeqProperties DEF Lists
<1>3. FS!Front(s) = u
    BY DEF FS!Front
<1> HIDE DEF u
<1>4. DOMAIN u = 1..(n - 1)
    BY <1>1, <1>2 DEF Lists
<1>5. FS!ToSet(s) = FS!ToSet(u) \cup {FS!Last(s)}
  <2>1. DOMAIN s = DOMAIN u \cup {n}
      BY <1>1, <1>4
  <2> HIDE DEF n
  <2> QED
      BY <1>1, <1>2, <1>4, <2>1 DEF FS!ToSet
<1>6. /\ FS!Popped(s, e) \in Lists
      /\ UNION FS!ToSet(FS!Popped(s, e)) = (UNION FS!ToSet(u)) \cup (FS!Last(s) \ {e})
  <2>1. FS!Last(s) \ {e} \in SUBSET Item
      BY <1>1
  <2> QED
      BY <1>2, <1>3, <2>1, PushedIs DEF FS!Popped
<1>7. UNION FS!ToSet(s) = (UNION FS!ToSet(u)) \cup FS!Last(s)
    BY <1>5, UnionIs
<1>8. UNION FS!ToSet(FS!Popped(s, e)) \subseteq UNION FS!ToSet(s)
    BY <1>6, <1>7, Zenon
<1>9. FS!Last(s) \subseteq UNION FS!ToSet(s)
    BY <1>7, Zenon
<1>10. \A x \in UNION FS!ToSet(s) : x = e \/ x \in UNION FS!ToSet(FS!Popped(s, e))
    BY <1>6, <1>7, Zenon
<1> QED
    BY <1>1, <1>6, <1>8, <1>9, <1>10

(* A listing has all a directory has, with its kind.                           *)
LEMMA ListingIs ==
    ASSUME DiskShape, NEW d
    PROVE  /\ FS!Listing(d) \in SUBSET Item
           /\ \A x \in FS!Listing(d) : x.at \in DOMAIN disk \ {FS!Top}
                 /\ x.kind = disk[x.at].kind
           /\ \A p \in DOMAIN disk \ {FS!Top} :
                 FS!Front(p) = d => [at |-> p, kind |-> disk[p].kind] \in FS!Listing(d)
<1>1. \A p \in DOMAIN disk : p \in Spot /\ disk[p].kind \in Kind
    BY EntryIs
<1> QED
    BY <1>1 DEF FS!Listing, FS!Children, Item

(* A walk that visits e still has before it all but e, and what is in e.       *)
LEMMA AfterIs ==
    ASSUME Shaped, NEW q \in Call, NEW l, NEW e, FS!Visits(q, l, e), NEW into \in BOOLEAN
    PROVE  /\ e \in Item /\ e \in UNION FS!ToSet(mem[q].todo) /\ e.at \in Spot \ {FS!Top}
                 /\ e.kind \in Kind
           /\ FS!After(q, e, into) \in Lists
           /\ \A x \in UNION FS!ToSet(FS!After(q, e, into)) :
                 x \in UNION FS!ToSet(mem[q].todo) \/ x \in FS!Listing(e.at)
           /\ \A x \in UNION FS!ToSet(mem[q].todo) :
                 x = e \/ x \in UNION FS!ToSet(FS!After(q, e, into))
           /\ into => FS!Listing(e.at) \subseteq UNION FS!ToSet(FS!After(q, e, into))
<1> DEFINE s == mem[q].todo
           x == IF into THEN FS!Listing(e.at) ELSE {}
<1>1. s \in Lists /\ s # <<>> /\ e \in FS!Last(s)
  <2>1. mem[q] \in MemType
      BY OpIs
  <2> QED
      BY <2>1 DEF MemType, Lists, Item, FS!Visits
<1>2. x \in SUBSET Item
    BY ListingIs DEF Shaped
<1>3. FS!After(q, e, into) = FS!Pushed(FS!Popped(s, e), x)
    BY DEF FS!After
<1> HIDE DEF s, x
<1>4. /\ FS!Last(s) \in SUBSET Item /\ FS!Last(s) \subseteq UNION FS!ToSet(s)
      /\ FS!Popped(s, e) \in Lists /\ UNION FS!ToSet(FS!Popped(s,
            e)) \subseteq UNION FS!ToSet(s)
      /\ \A y \in UNION FS!ToSet(s) : y = e \/ y \in UNION FS!ToSet(FS!Popped(s, e))
    BY <1>1, PoppedIs
<1>5. /\ FS!After(q, e, into) \in Lists
      /\ UNION FS!ToSet(FS!After(q, e, into)) = (UNION FS!ToSet(FS!Popped(s, e))) \cup x
    BY <1>2, <1>3, <1>4, PushedIs
<1>6. e \in Item /\ e \in UNION FS!ToSet(s)
    BY <1>1, <1>4
<1>7. e.at \in Spot \ {FS!Top} /\ e.kind \in Kind
    BY <1>6 DEF Item
<1>8. \A y \in UNION FS!ToSet(FS!After(q, e, into)) : y \in UNION FS!ToSet(s) \/ y \in x
    BY <1>4, <1>5, Zenon
<1>9. \A y \in UNION FS!ToSet(s) : y = e \/ y \in UNION FS!ToSet(FS!After(q, e, into))
    BY <1>4, <1>5
<1>10. x \subseteq UNION FS!ToSet(FS!After(q, e, into))
    BY <1>5, Zenon
<1>11. /\ \A y \in UNION FS!ToSet(FS!After(q, e, into)) :
              y \in UNION FS!ToSet(s) \/ y \in FS!Listing(e.at)
       /\ into => FS!Listing(e.at) \subseteq UNION FS!ToSet(FS!After(q, e, into))
    BY <1>8, <1>10 DEF x
<1> QED
    BY <1>5, <1>6, <1>7, <1>9, <1>11 DEF s

(* A step that sets what is before a walk and what it has found.               *)
LEMMA SetsNamed ==
    ASSUME Shaped, NEW q \in Call, NEW t \in Lists, NEW f \in SUBSET Spot,
           arg[q].op # "delete", mem' = [mem EXCEPT ![q].todo = t, ![q].found = f]
    PROVE  /\ Held(q)
           /\ mem'[q].todo = t /\ mem'[q].found = f /\ mem'[q].fresh = mem[q].fresh
           /\ mem'[q].over = mem[q].over /\ mem'[q].data = mem[q].data
                 /\ mem'[q].size = mem[q].size
           /\ mem'[q].lines = mem[q].lines
<1>1. mem \in [Call -> MemType] /\ mem[q] \in MemType
    BY OpIs
<1>2. /\ mem'[q] = [mem[q] EXCEPT !.todo = t, !.found = f]
      /\ \A r \in Call \ {q} : mem'[r] = mem[r]
    BY <1>1
<1>3. mem'[q] \in MemType
    BY <1>1, <1>2 DEF MemType, Lists, Item
<1>4. mem' \in [Call -> MemType]
    BY <1>1, <1>3
<1>5. /\ mem'[q].after = mem[q].after /\ mem'[q].to = mem[q].to
      /\ mem'[q].at = mem[q].at
      /\ mem'[q].todo = t /\ mem'[q].found = f /\ mem'[q].fresh = mem[q].fresh
      /\ mem'[q].over = mem[q].over /\ mem'[q].data = mem[q].data /\ mem'[q].size = mem[q].size
      /\ mem'[q].lines = mem[q].lines
    BY <1>1, <1>2 DEF MemType
<1> QED
    BY <1>4, <1>2, <1>5 DEF Held

(* The same for the lines a search has found.                                  *)
LEMMA SetsLined ==
    ASSUME Shaped, NEW q \in Call, NEW t \in Lists, NEW g \in SUBSET Spot,
           arg[q].op # "delete", mem' = [mem EXCEPT ![q].todo = t, ![q].lines = g]
    PROVE  /\ Held(q)
           /\ mem'[q].todo = t /\ mem'[q].lines = g /\ mem'[q].fresh = mem[q].fresh
           /\ mem'[q].over = mem[q].over /\ mem'[q].data = mem[q].data
                 /\ mem'[q].size = mem[q].size
           /\ mem'[q].found = mem[q].found
<1>1. mem \in [Call -> MemType] /\ mem[q] \in MemType
    BY OpIs
<1>2. /\ mem'[q] = [mem[q] EXCEPT !.todo = t, !.lines = g]
      /\ \A r \in Call \ {q} : mem'[r] = mem[r]
    BY <1>1
<1>3. mem'[q] \in MemType
    BY <1>1, <1>2 DEF MemType, Lists, Item
<1>4. mem' \in [Call -> MemType]
    BY <1>1, <1>3
<1>5. /\ mem'[q].after = mem[q].after /\ mem'[q].to = mem[q].to
      /\ mem'[q].at = mem[q].at
      /\ mem'[q].todo = t /\ mem'[q].lines = g /\ mem'[q].fresh = mem[q].fresh
      /\ mem'[q].over = mem[q].over /\ mem'[q].data = mem[q].data /\ mem'[q].size = mem[q].size
      /\ mem'[q].found = mem[q].found
    BY <1>1, <1>2 DEF MemType
<1> QED
    BY <1>4, <1>2, <1>5 DEF Held

(* The root is listed for a walk to begin with.                                *)
LEMMA RootIs ==
    ASSUME Shaped
    PROVE  /\ FS!Pushed(<<>>, FS!Listing(FS!Top)) \in Lists
           /\ UNION FS!ToSet(FS!Pushed(<<>>, FS!Listing(FS!Top))) = FS!Listing(FS!Top)
<1>1. <<>> \in Lists /\ UNION FS!ToSet(<<>>) = {}
    BY DEF Lists, FS!ToSet
<1>2. FS!Listing(FS!Top) \in SUBSET Item
    BY ListingIs DEF Shaped
<1> QED
    BY <1>1, <1>2, PushedIs

(* search_by_name                                                              *)
NameSeen(q, e) ==
    /\ FS!Visits(q, "names", e) /\ ~FS!Full(mem[q].found)
    /\ mem' = [mem EXCEPT
          ![q].todo = FS!After(q, e, e.kind = "dir" /\ ~FS!Skipped(e)),
          ![q].found = IF ~FS!Skipped(e) /\ FS!Last(e.at) \in Hit THEN @ \cup {e.at} ELSE @]
    /\ FS!Onward(q, "names", e, e.kind = "dir" /\ ~FS!Skipped(e), "INTERNAL_ERROR")

(* A search visits an entry for its name.                                      *)
LEMMA NameSeenIs ==
    ASSUME Shaped, NEW q \in Call, NEW e, NameSeen(q, e)
    PROVE  /\ Alone(q) /\ Leaves(q) /\ disk' = disk /\ arg[q].op = "search"
           /\ e \in Item /\ ~FS!Full(mem[q].found) /\ mem'[q].lines = mem[q].lines
           /\ mem'[q].todo = FS!After(q, e, e.kind = "dir" /\ ~FS!Skipped(e))
           /\ mem'[q].found = IF ~FS!Skipped(e) /\ FS!Last(e.at) \in Hit
                                 THEN mem[q].found \cup {e.at}
                                                                     ELSE mem[q].found
           /\ \/ pc'[q] = "names" /\ answer'[q] = "none"
              \/ /\ pc'[q] = "done" /\ answer'[q] = "INTERNAL_ERROR"
                 /\ e.kind = "dir" /\ FS!Entry(e.at).kind # "dir"
<1> DEFINE into == e.kind = "dir" /\ ~FS!Skipped(e)
           t == FS!After(q, e, into)
           f == IF ~FS!Skipped(e) /\ FS!Last(e.at) \in Hit THEN mem[q].found \cup {e.at}
                                                        ELSE mem[q].found
<1>1. pc[q] = "names" /\ FS!Visits(q, "names", e)
    BY DEF NameSeen, FS!Visits
<1>2. Active(q) /\ arg[q].op = "search" /\ mem[q].found \in SUBSET Spot
  <2>1. Active(q) /\ arg[q].op = "search" /\ mem[q] \in MemType
      BY <1>1, OpIs DEF Active
  <2> QED
      BY <2>1 DEF MemType
<1>3. into \in BOOLEAN
    OBVIOUS
<1>4. t \in Lists /\ e \in Item /\ e.at \in Spot
    BY <1>1, <1>3, AfterIs
<1>5. f \in SUBSET Spot
    BY <1>2, <1>4
<1>6. /\ mem' = [mem EXCEPT ![q].todo = t, ![q].found = f]
      /\ FS!Onward(q, "names", e, into, "INTERNAL_ERROR")
      /\ ~FS!Full(mem[q].found)
    BY DEF NameSeen
<1>7. /\ "names" \in Label \ {"none", "done"} /\ arg[q].op \in OpOf("names")
      /\ "INTERNAL_ERROR" \in Code
    BY <1>2 DEF Label, OpOf, Code
<1> HIDE DEF t, f, into
<1>8. /\ Held(q) /\ mem'[q].todo = t /\ mem'[q].found = f /\ mem'[q].over = mem[q].over
      /\ mem'[q].lines = mem[q].lines
    BY <1>2, <1>4, <1>5, <1>6, SetsNamed
<1>9. /\ Alone(q) /\ disk' = disk
      /\ \/ pc'[q] = "names" /\ answer'[q] = "none"
         \/ /\ pc'[q] = "done" /\ answer'[q] = "INTERNAL_ERROR"
            /\ into /\ FS!Entry(e.at).kind # "dir"
  <2>1. disk' = disk /\ Steadied
      BY <1>6, SteadyIs DEF FS!Onward
  <2>2. CASE into /\ FS!Entry(e.at).kind # "dir"
    <3>1. FS!Answer(q, "INTERNAL_ERROR")
        BY <1>6, <2>2 DEF FS!Onward
    <3>2. Alone(q) /\ pc'[q] = "done" /\ answer'[q] = "INTERNAL_ERROR"
        BY <1>2, <1>7, <1>8, <2>1, <3>1, Answers
    <3> QED
        BY <2>1, <2>2, <3>2
  <2>3. CASE ~(into /\ FS!Entry(e.at).kind # "dir")
    <3>1. FS!Goto(q, "names")
        BY <1>6, <2>3 DEF FS!Onward
    <3>2. Alone(q) /\ pc'[q] = "names" /\ answer'[q] = "none"
        BY <1>2, <1>7, <1>8, <2>1, <3>1, GoesOn
    <3> QED
        BY <2>1, <3>2
  <2> QED
      BY <2>2, <2>3
<1>10. Leaves(q)
    BY <1>9 DEF Leaves
<1> QED
    BY <1>2, <1>4, <1>6, <1>8, <1>9, <1>10 DEF t, f, into

(* search_by_content                                                           *)
Regular(e) == e.kind = "file" \/ (e.kind = "link" /\ FS!Stat(e.at).kind = "file")
Matches(e) ==
    Regular(e) /\ ~FS!Skipped(e) /\ FS!Stat(e.at).kind = "file" /\ FS!Holds(FS!Stat(e.at).data)
LineSeen(q, e) ==
    /\ FS!Visits(q, "contents", e) /\ ~FS!Full(mem[q].lines) /\ ~FS!Endless(e)
    /\ mem' = [mem EXCEPT
          ![q].todo = FS!After(q, e, e.kind = "dir"),
          ![q].lines = IF Matches(e) THEN @ \cup {e.at} ELSE @]
    /\ FS!Onward(q, "contents", e, e.kind = "dir", "INTERNAL_ERROR")

(* A search visits an entry for its content.                                   *)
LEMMA LineSeenIs ==
    ASSUME Shaped, NEW q \in Call, NEW e, LineSeen(q, e)
    PROVE  /\ Alone(q) /\ Leaves(q) /\ disk' = disk /\ arg[q].op = "search"
           /\ e \in Item /\ ~FS!Full(mem[q].lines) /\ mem'[q].found = mem[q].found
           /\ mem'[q].todo = FS!After(q, e, e.kind = "dir")
           /\ mem'[q].lines = IF Matches(e) THEN mem[q].lines \cup {e.at} ELSE mem[q].lines
           /\ \/ pc'[q] = "contents" /\ answer'[q] = "none"
              \/ /\ pc'[q] = "done" /\ answer'[q] = "INTERNAL_ERROR"
                 /\ e.kind = "dir" /\ FS!Entry(e.at).kind # "dir"
<1> DEFINE into == e.kind = "dir"
           t == FS!After(q, e, into)
           g == IF Matches(e) THEN mem[q].lines \cup {e.at} ELSE mem[q].lines
<1>1. pc[q] = "contents" /\ FS!Visits(q, "contents", e)
    BY DEF LineSeen, FS!Visits
<1>2. Active(q) /\ arg[q].op = "search" /\ mem[q].lines \in SUBSET Spot
  <2>1. Active(q) /\ arg[q].op = "search" /\ mem[q] \in MemType
      BY <1>1, OpIs DEF Active
  <2> QED
      BY <2>1 DEF MemType
<1>3. into \in BOOLEAN
    OBVIOUS
<1>4. t \in Lists /\ e \in Item /\ e.at \in Spot
    BY <1>1, <1>3, AfterIs
<1>5. g \in SUBSET Spot
    BY <1>2, <1>4
<1>6. /\ mem' = [mem EXCEPT ![q].todo = t, ![q].lines = g]
      /\ FS!Onward(q, "contents", e, into, "INTERNAL_ERROR")
      /\ ~FS!Full(mem[q].lines)
    BY DEF LineSeen
<1>7. /\ "contents" \in Label \ {"none", "done"} /\ arg[q].op \in OpOf("contents")
      /\ "INTERNAL_ERROR" \in Code
    BY <1>2 DEF Label, OpOf, Code
<1> HIDE DEF t, g, into
<1>8. /\ Held(q) /\ mem'[q].todo = t /\ mem'[q].lines = g /\ mem'[q].over = mem[q].over
      /\ mem'[q].found = mem[q].found
    BY <1>2, <1>4, <1>5, <1>6, SetsLined
<1>9. /\ Alone(q) /\ disk' = disk
      /\ \/ pc'[q] = "contents" /\ answer'[q] = "none"
         \/ /\ pc'[q] = "done" /\ answer'[q] = "INTERNAL_ERROR"
            /\ into /\ FS!Entry(e.at).kind # "dir"
  <2>1. disk' = disk /\ Steadied
      BY <1>6, SteadyIs DEF FS!Onward
  <2>2. CASE into /\ FS!Entry(e.at).kind # "dir"
    <3>1. FS!Answer(q, "INTERNAL_ERROR")
        BY <1>6, <2>2 DEF FS!Onward
    <3>2. Alone(q) /\ pc'[q] = "done" /\ answer'[q] = "INTERNAL_ERROR"
        BY <1>2, <1>7, <1>8, <2>1, <3>1, Answers
    <3> QED
        BY <2>1, <2>2, <3>2
  <2>3. CASE ~(into /\ FS!Entry(e.at).kind # "dir")
    <3>1. FS!Goto(q, "contents")
        BY <1>6, <2>3 DEF FS!Onward
    <3>2. Alone(q) /\ pc'[q] = "contents" /\ answer'[q] = "none"
        BY <1>2, <1>7, <1>8, <2>1, <3>1, GoesOn
    <3> QED
        BY <2>1, <3>2
  <2> QED
      BY <2>2, <2>3
<1>10. Leaves(q)
    BY <1>9 DEF Leaves
<1> QED
    BY <1>2, <1>4, <1>6, <1>8, <1>9, <1>10 DEF t, g, into

(* The second half of a search, and what it makes of both.                     *)
LEMMA HalfIs ==
    ASSUME Shaped, NEW q \in Call, pc[q] = "names",
           mem' = [mem EXCEPT ![q].todo = FS!Pushed(<<>>, FS!Listing(FS!Top))], FS!Same,
               FS!Goto(q, "contents")
    PROVE  /\ Alone(q) /\ Leaves(q) /\ disk' = disk /\ arg[q].op = "search"
           /\ pc'[q] = "contents" /\ answer'[q] = "none"
           /\ mem'[q].todo = FS!Pushed(<<>>, FS!Listing(FS!Top))
           /\ mem'[q].found = mem[q].found /\ mem'[q].lines = mem[q].lines
<1> DEFINE t == FS!Pushed(<<>>, FS!Listing(FS!Top))
<1>1. t \in Seq(SUBSET [at : Spot \ {FS!Top}, kind : Kind])
    BY RootIs DEF Lists, Item
<1>2. mem' = [mem EXCEPT ![q].todo = t]
    OBVIOUS
<1>3. Active(q) /\ arg[q].op = "search" /\ disk' = disk /\ Steadied
    BY OpIs, SteadyIs DEF Active
<1>4. "contents" \in Label \ {"none", "done"} /\ arg[q].op \in OpOf("contents")
    BY <1>3 DEF Label, OpOf
<1> HIDE DEF t
<1>5. /\ Held(q) /\ mem'[q].todo = t /\ mem'[q].found = mem[q].found
      /\ mem'[q].lines = mem[q].lines /\ mem'[q].over = mem[q].over
  <2>1. arg[q].op # "delete"
      BY <1>3
  <2> QED
      BY <1>1, <1>2, SetsTodo
<1>6. Alone(q) /\ pc'[q] = "contents" /\ answer'[q] = "none"
    BY <1>3, <1>4, <1>5, GoesOn
<1> QED
    BY <1>3, <1>5, <1>6 DEF Leaves, t

(* The search is through.                                                      *)
LEMMA LastIs ==
    ASSUME Shaped, NEW q \in Call, FS!Go(q, "contents", "merge")
    PROVE  /\ Alone(q) /\ Leaves(q) /\ disk' = disk /\ mem' = mem /\ arg[q].op = "search"
           /\ pc[q] = "contents" /\ pc'[q] = "merge" /\ answer'[q] = "none"
<1>1. pc[q] = "contents" /\ FS!Goto(q, "merge") /\ FS!Same /\ mem' = mem
    BY DEF FS!Go
<1>2. Active(q) /\ arg[q].op = "search" /\ disk' = disk /\ Steadied
    BY <1>1, OpIs, SteadyIs DEF Active
<1>3. "merge" \in Label \ {"none", "done"} /\ arg[q].op \in OpOf("merge")
    BY <1>2 DEF Label, OpOf
<1>4. Alone(q) /\ pc'[q] = "merge" /\ answer'[q] = "none"
    BY <1>1, <1>2, <1>3, HeldIs, GoesOn
<1> QED
    BY <1>1, <1>2, <1>4 DEF Leaves

(* search_all makes one answer of both.                                        *)
LEMMA MergeIs ==
    ASSUME Shaped, NEW q \in Call, FS!Merge(q)
    PROVE  /\ Alone(q) /\ Leaves(q) /\ disk' = disk /\ arg[q].op = "search"
           /\ pc[q] = "merge" /\ pc'[q] = "done" /\ answer'[q] = "ok"
           /\ mem'[q].found \in FS!Merged(mem[q].found, mem[q].lines)
           /\ mem'[q].lines = {} /\ mem'[q].todo = <<>>
<1>1. pc[q] = "merge" /\ FS!Same /\ FS!Answer(q, "ok")
    BY DEF FS!Merge
<1>2. PICK f \in FS!Merged(mem[q].found, mem[q].lines) :
          mem' = [mem EXCEPT ![q].found = f, ![q].lines = {}, ![q].todo = <<>>]
    BY DEF FS!Merge
<1>3. Active(q) /\ arg[q].op = "search" /\ mem[q] \in MemType /\ disk' = disk /\ Steadied
    BY <1>1, OpIs, SteadyIs DEF Active
<1>4. f \in SUBSET Spot /\ {} \in SUBSET Spot /\ <<>> \in Lists
  <2>1. f \subseteq mem[q].found \cup mem[q].lines
      BY DEF FS!Merged
  <2>2. mem[q].found \subseteq Spot /\ mem[q].lines \subseteq Spot
      BY <1>3 DEF MemType
  <2> QED
      BY <2>1, <2>2 DEF Lists
<1>5. /\ Held(q) /\ mem'[q].found = f /\ mem'[q].lines = {} /\ mem'[q].todo = <<>>
  <2>1. mem \in [Call -> MemType]
      BY OpIs
  <2>2. /\ mem'[q] = [mem[q] EXCEPT !.found = f, !.lines = {}, !.todo = <<>>]
        /\ \A r \in Call \ {q} : mem'[r] = mem[r]
      BY <1>2, <2>1
  <2>3. mem'[q] \in MemType
      BY <1>3, <1>4, <2>2 DEF MemType, Lists, Item
  <2>4. mem' \in [Call -> MemType]
      BY <1>2, <2>1, <2>3
  <2>5. /\ mem'[q].found = f /\ mem'[q].lines = {} /\ mem'[q].todo = <<>>
        /\ mem'[q].after = mem[q].after /\ mem'[q].to = mem[q].to /\ mem'[q].at = mem[q].at
      BY <1>3, <2>2 DEF MemType
  <2> QED
      BY <1>3, <2>2, <2>4, <2>5 DEF Held
<1>6. Alone(q) /\ pc'[q] = "done" /\ answer'[q] = "ok"
    BY <1>1, <1>3, <1>5, Answers DEF Code
<1> QED
    BY <1>1, <1>2, <1>3, <1>5, <1>6 DEF Leaves

(* get_tree                                                                    *)
TreeSeen(q, e) ==
    /\ FS!Visits(q, "tree", e) /\ FS!Same
    /\ mem' = [mem EXCEPT ![q].todo = FS!After(q, e, FS!Entry(e.at).kind = "dir"
          /\ arg[q].flag),
                          ![q].at = e.at,
                          ![q].found = IF FS!Exists(e.at) THEN @ \cup {e.at} ELSE @]
    /\ FS!Goto(q, IF FS!Stat(e.at).kind = "file" THEN "fileSize" ELSE "tree")

(* get_tree visits an entry.                                                   *)
LEMMA TreeSeenIs ==
    ASSUME Shaped, NEW q \in Call, NEW e, TreeSeen(q, e)
    PROVE  /\ Alone(q) /\ Leaves(q) /\ disk' = disk /\ arg[q].op = "tree" /\ pc[q] = "tree"
           /\ e \in Item /\ mem'[q].at = e.at
           /\ mem'[q].todo = FS!After(q, e, FS!Entry(e.at).kind = "dir" /\ arg[q].flag)
           /\ mem'[q].found = IF FS!Exists(e.at) THEN mem[q].found \cup {e.at} ELSE mem[q].found
           /\ pc'[q] = IF FS!Stat(e.at).kind = "file" THEN "fileSize" ELSE "tree"
           /\ answer'[q] = "none"
<1> DEFINE into == FS!Entry(e.at).kind = "dir" /\ arg[q].flag
           t == FS!After(q, e, into)
           f == IF FS!Exists(e.at) THEN mem[q].found \cup {e.at} ELSE mem[q].found
           a == e.at
           l == IF FS!Stat(e.at).kind = "file" THEN "fileSize" ELSE "tree"
<1>1. pc[q] = "tree" /\ FS!Visits(q, "tree", e)
    BY DEF TreeSeen, FS!Visits
<1>2. Active(q) /\ arg[q].op = "tree" /\ mem[q].found \in SUBSET Spot
  <2>1. Active(q) /\ arg[q].op = "tree" /\ mem[q] \in MemType
      BY <1>1, OpIs DEF Active
  <2> QED
      BY <2>1 DEF MemType
<1>3. into \in BOOLEAN
  <2>1. arg[q].flag \in BOOLEAN
      BY <1>2, FlagIs
  <2> QED
      BY <2>1
<1>4. t \in Lists /\ e \in Item /\ a \in Spot
    BY <1>1, <1>3, AfterIs
<1>5. f \in SUBSET Spot
    BY <1>2, <1>4
<1>6. /\ mem' = [mem EXCEPT ![q].todo = t, ![q].at = a, ![q].found = f]
      /\ FS!Same /\ FS!Goto(q, l)
    BY DEF TreeSeen
<1>7. l \in Label \ {"none", "done"} /\ arg[q].op \in OpOf(l)
    BY <1>2 DEF Label, OpOf
<1> HIDE DEF t, f, a, into, l
<1>8. /\ Held(q) /\ mem'[q].todo = t /\ mem'[q].found = f /\ mem'[q].at = a
      /\ mem'[q].over = mem[q].over /\ disk' = disk /\ Steadied
  <2>1. mem \in [Call -> MemType] /\ mem[q] \in MemType
      BY OpIs
  <2>2. /\ mem'[q] = [mem[q] EXCEPT !.todo = t, !.at = a, !.found = f]
        /\ \A r \in Call \ {q} : mem'[r] = mem[r]
      BY <1>6, <2>1
  <2>4. mem'[q] \in MemType
      BY <1>4, <1>5, <2>1, <2>2 DEF MemType, Lists, Item
  <2>5. mem' \in [Call -> MemType]
      BY <1>6, <2>1, <2>4
  <2>6. /\ mem'[q].todo = t /\ mem'[q].found = f /\ mem'[q].at = a
        /\ mem'[q].after = mem[q].after /\ mem'[q].to = mem[q].to
        /\ mem'[q].over = mem[q].over
      BY <2>1, <2>2 DEF MemType
  <2>7. Held(q)
      BY <1>2, <2>2, <2>5, <2>6 DEF Held
  <2>3. disk' = disk /\ Steadied
      BY <1>6, SteadyIs
  <2> QED
      BY <2>3, <2>6, <2>7
<1>9. Alone(q) /\ pc'[q] = l /\ answer'[q] = "none"
    BY <1>2, <1>6, <1>7, <1>8, GoesOn
<1>10. Leaves(q)
    BY <1>2, <1>8, <1>9, WriteIs DEF Leaves
<1> QED
    BY <1>1, <1>2, <1>4, <1>8, <1>9, <1>10 DEF t, f, a, into, l

(* get_tree asks for the size of a file.                                       *)
LEMMA SizedIs ==
    ASSUME Shaped, NEW q \in Call,
           FS!Check(q, "fileSize", FS!Stat(mem[q].at).kind = "file", "tree", "INTERNAL_ERROR")
    PROVE  /\ Alone(q) /\ Leaves(q) /\ disk' = disk /\ mem' = mem /\ arg[q].op = "tree"
           /\ pc[q] = "fileSize"
           /\ \/ pc'[q] = "tree" /\ answer'[q] = "none"
              \/ /\ pc'[q] = "done" /\ answer'[q] = "INTERNAL_ERROR"
                 /\ FS!Stat(mem[q].at).kind # "file"
<1>1. arg[q].op = "tree"
    BY OpIs DEF FS!Check
<1>2. /\ "tree" \in Label \ {"none", "done"} /\ arg[q].op \in OpOf("tree")
      /\ "INTERNAL_ERROR" \in Code
    BY <1>1 DEF Label, OpOf, Code
<1>3. /\ Alone(q) /\ disk' = disk /\ mem' = mem /\ pc[q] = "fileSize"
      /\ \/ pc'[q] = "tree" /\ answer'[q] = "none"
         \/ /\ pc'[q] = "done" /\ answer'[q] = "INTERNAL_ERROR"
            /\ FS!Stat(mem[q].at).kind # "file"
    BY <1>2, CheckIs
<1> QED
    BY <1>1, <1>3 DEF Leaves

(* A walk is through.                                                          *)
LEMMA FinishIs ==
    ASSUME Shaped, NEW q \in Call, NEW l \in {"tree", "packages"}, FS!Finish(q, l)
    PROVE  /\ Alone(q) /\ Leaves(q) /\ disk' = disk /\ mem' = mem /\ arg[q].op = l
           /\ pc[q] = l /\ pc'[q] = "done" /\ answer'[q] = "ok"
<1>1. pc[q] = l /\ FS!Answer(q, "ok") /\ FS!Same /\ mem' = mem
    BY DEF FS!Finish
<1>2. Active(q) /\ arg[q].op = l /\ disk' = disk /\ Steadied /\ Held(q)
    BY <1>1, OpIs, SteadyIs, HeldIs DEF Active
<1>3. Alone(q) /\ pc'[q] = "done" /\ answer'[q] = "ok"
    BY <1>1, <1>2, Answers DEF Code
<1> QED
    BY <1>1, <1>2, <1>3 DEF Leaves

(* discover_packages                                                           *)
Package(e) ==
    FS!Last(e.at) \in Hit /\ e.kind # "dir" /\ FS!Stat(e.at).kind = "file"
        /\ FS!Holds(FS!Stat(e.at).data)
PackageSeen(q, e) ==
    /\ FS!Visits(q, "packages", e) /\ ~FS!Endless(e)
    /\ mem' = [mem EXCEPT
          ![q].todo = FS!After(q, e, e.kind = "dir" /\ ~FS!Skipped(e)),
          ![q].found = IF Package(e) THEN @ \cup {FS!Front(e.at)} ELSE @]
    /\ FS!Onward(q, "packages", e, e.kind = "dir" /\ ~FS!Skipped(e), "cut")

(* discover_packages visits an entry.                                          *)
LEMMA PackageSeenIs ==
    ASSUME Shaped, NEW q \in Call, NEW e, PackageSeen(q, e)
    PROVE  /\ Alone(q) /\ Leaves(q) /\ disk' = disk /\ arg[q].op = "packages"
           /\ e \in Item
           /\ mem'[q].todo = FS!After(q, e, e.kind = "dir" /\ ~FS!Skipped(e))
           /\ mem'[q].found = IF Package(e) THEN mem[q].found \cup {FS!Front(e.at)}
                                 ELSE mem[q].found
           /\ \/ pc'[q] = "packages" /\ answer'[q] = "none"
              \/ /\ pc'[q] = "done" /\ answer'[q] = "cut"
                 /\ e.kind = "dir" /\ FS!Entry(e.at).kind # "dir"
<1> DEFINE into == e.kind = "dir" /\ ~FS!Skipped(e)
           t == FS!After(q, e, into)
           f == IF Package(e) THEN mem[q].found \cup {FS!Front(e.at)} ELSE mem[q].found
<1>1. pc[q] = "packages" /\ FS!Visits(q, "packages", e)
    BY DEF PackageSeen, FS!Visits
<1>2. Active(q) /\ arg[q].op = "packages" /\ mem[q].found \in SUBSET Spot
  <2>1. Active(q) /\ arg[q].op = "packages" /\ mem[q] \in MemType
      BY <1>1, OpIs DEF Active
  <2> QED
      BY <2>1 DEF MemType
<1>3. into \in BOOLEAN
    OBVIOUS
<1>4. t \in Lists /\ e \in Item /\ e.at \in Spot \ {FS!Top}
    BY <1>1, <1>3, AfterIs
<1>5. f \in SUBSET Spot
  <2>1. FS!Front(e.at) \in Spot
      BY <1>4, SpotIs
  <2> QED
      BY <1>2, <2>1
<1>6. /\ mem' = [mem EXCEPT ![q].todo = t, ![q].found = f]
      /\ FS!Onward(q, "packages", e, into, "cut")
    BY DEF PackageSeen
<1>7. "packages" \in Label \ {"none", "done"} /\ arg[q].op \in OpOf("packages")
          /\ "cut" \in Code
    BY <1>2 DEF Label, OpOf, Code
<1> HIDE DEF t, f, into
<1>8. Held(q) /\ mem'[q].todo = t /\ mem'[q].found = f /\ mem'[q].over = mem[q].over
    BY <1>2, <1>4, <1>5, <1>6, SetsNamed
<1>9. /\ Alone(q) /\ disk' = disk
      /\ \/ pc'[q] = "packages" /\ answer'[q] = "none"
         \/ /\ pc'[q] = "done" /\ answer'[q] = "cut"
            /\ into /\ FS!Entry(e.at).kind # "dir"
  <2>1. disk' = disk /\ Steadied
      BY <1>6, SteadyIs DEF FS!Onward
  <2>2. CASE into /\ FS!Entry(e.at).kind # "dir"
    <3>1. FS!Answer(q, "cut")
        BY <1>6, <2>2 DEF FS!Onward
    <3>2. Alone(q) /\ pc'[q] = "done" /\ answer'[q] = "cut"
        BY <1>2, <1>7, <1>8, <2>1, <3>1, Answers
    <3> QED
        BY <2>1, <2>2, <3>2
  <2>3. CASE ~(into /\ FS!Entry(e.at).kind # "dir")
    <3>1. FS!Goto(q, "packages")
        BY <1>6, <2>3 DEF FS!Onward
    <3>2. Alone(q) /\ pc'[q] = "packages" /\ answer'[q] = "none"
        BY <1>2, <1>7, <1>8, <2>1, <3>1, GoesOn
    <3> QED
        BY <2>1, <3>2
  <2> QED
      BY <2>2, <2>3
<1>10. Leaves(q)
    BY <1>9 DEF Leaves
<1> QED
    BY <1>2, <1>4, <1>8, <1>9, <1>10 DEF t, f, into

(* A walk ends where it meets a link that goes round.                          *)
LEMMA StoppedIs ==
    ASSUME Shaped, NEW q \in Call, NEW l \in {"contents", "packages"}, FS!Stopped(q, l)
    PROVE  /\ Alone(q) /\ Leaves(q) /\ disk' = disk /\ mem' = mem /\ pc[q] = l
           /\ pc'[q] = "done" /\ answer'[q] = "INTERNAL_ERROR"
           /\ arg[q].op \in {"search", "packages"} /\ \E e \in Item : FS!Endless(e)
<1>1. PICK e : /\ FS!Visits(q, l, e) /\ FS!Endless(e)
               /\ FS!Answer(q, "INTERNAL_ERROR") /\ FS!Same /\ mem' = mem
    BY DEF FS!Stopped
<1>2. pc[q] = l /\ e \in Item
    BY <1>1, AfterIs DEF FS!Visits
<1>3. /\ Active(q) /\ arg[q].op \in {"search", "packages"}
      /\ disk' = disk /\ Steadied /\ Held(q)
    BY <1>1, <1>2, OpIs, SteadyIs, HeldIs DEF Active
<1>4. Alone(q) /\ pc'[q] = "done" /\ answer'[q] = "INTERNAL_ERROR"
    BY <1>1, <1>3, Answers DEF Code
<1> QED
    BY <1>1, <1>2, <1>3, <1>4 DEF Leaves

-----------------------------------------------------------------------------
(* Every step but the first of a request is one of those above.                *)
LEMMA SearchIs ==
    ASSUME Shaped, NEW q \in Call, FS!Search(q)
    PROVE  Alone(q) /\ Leaves(q) /\ disk' = disk
<1>1. ASSUME NEW e, NameSeen(q, e) PROVE Alone(q) /\ Leaves(q) /\ disk' = disk
    BY <1>1, NameSeenIs
<1>2. ASSUME NEW e, LineSeen(q, e) PROVE Alone(q) /\ Leaves(q) /\ disk' = disk
    BY <1>2, LineSeenIs
<1>3. CASE FS!ByName(q)
  <2>1. CASE \E e : NameSeen(q, e)
      BY <1>1, <2>1
  <2>2. CASE /\ pc[q] = "names" /\ mem' = [mem EXCEPT ![q].todo = FS!Pushed(<<>>,
                   FS!Listing(FS!Top))]
             /\ FS!Same /\ FS!Goto(q, "contents")
      BY <2>2, HalfIs
  <2> QED
      BY <1>3, <2>1, <2>2 DEF FS!ByName, NameSeen
<1>4. CASE FS!ByContent(q)
  <2>1. CASE \E e : LineSeen(q, e)
      BY <1>2, <2>1
  <2>2. CASE FS!Go(q, "contents", "merge")
      BY <2>2, LastIs
  <2>3. CASE FS!Stopped(q, "contents")
      BY <2>3, StoppedIs
  <2> QED
      BY <1>4, <2>1, <2>2, <2>3 DEF FS!ByContent, LineSeen, Matches, Regular
<1>5. CASE FS!Merge(q)
    BY <1>5, MergeIs
<1> QED
    BY <1>3, <1>4, <1>5 DEF FS!Search

(* get_tree leaves the disk.                                                   *)
LEMMA TreeIs ==
    ASSUME Shaped, NEW q \in Call, FS!Tree(q)
    PROVE  Alone(q) /\ Leaves(q) /\ disk' = disk
<1>1. CASE \E e : TreeSeen(q, e)
    BY <1>1, TreeSeenIs
<1>2. CASE FS!Check(q, "fileSize", FS!Stat(mem[q].at).kind = "file", "tree", "INTERNAL_ERROR")
    BY <1>2, SizedIs
<1>3. CASE FS!Finish(q, "tree")
    BY <1>3, FinishIs
<1> QED
    BY <1>1, <1>2, <1>3 DEF FS!Tree, TreeSeen

(* discover_packages leaves the disk.                                          *)
LEMMA PackagesIs ==
    ASSUME Shaped, NEW q \in Call, FS!Packages(q)
    PROVE  Alone(q) /\ Leaves(q) /\ disk' = disk
<1>1. CASE \E e : PackageSeen(q, e)
    BY <1>1, PackageSeenIs
<1>2. CASE FS!Finish(q, "packages")
    BY <1>2, FinishIs
<1>3. CASE FS!Stopped(q, "packages")
    BY <1>3, StoppedIs
<1> QED
    BY <1>1, <1>2, <1>3 DEF FS!Packages, PackageSeen, Package

(* A step of a request is its own, and one of these changes of the disk.       *)
LEMMA ActiveIs ==
    ASSUME Shaped, NEW q \in Call,
           \/ FS!Read(q) \/ FS!Mkdir(q) \/ FS!Write(q) \/ FS!Delete(q) \/ FS!Rename(q)
           \/ FS!Search(q) \/ FS!Tree(q) \/ FS!Packages(q)
    PROVE  Alone(q) /\ Changes(q)
<1>1. CASE FS!Read(q)
    BY <1>1, ReadIs DEF Changes
<1>2. CASE FS!Mkdir(q)
    BY <1>2, MkdirIs DEF Changes
<1>3. CASE FS!Write(q)
    BY <1>3, WritesIs
<1>4. CASE FS!Delete(q)
    BY <1>4, DeleteIs DEF Changes
<1>5. CASE FS!Rename(q)
    BY <1>5, RenameIs DEF Changes
<1>6. CASE FS!Search(q)
    BY <1>6, SearchIs DEF Changes
<1>7. CASE FS!Tree(q)
    BY <1>7, TreeIs DEF Changes
<1>8. CASE FS!Packages(q)
    BY <1>8, PackagesIs DEF Changes
<1> QED
    BY <1>1, <1>2, <1>3, <1>4, <1>5, <1>6, <1>7, <1>8

(* The root goes round nowhere.                                                *)
LEMMA TopIs ==
    ASSUME DiskShape
    PROVE  ~FS!Loops(FS!Top) /\ \A a : a.op \in FS!Walks => FS!Made(a) = FS!Top
<1>1. FS!Front(FS!Top) = FS!Top
    BY DEF FS!Top, FS!Front
<1>2. FS!Place(FS!Top) = FS!Top /\ FS!Follow(FS!Top) = FS!Top /\ FS!Entry(FS!Top).kind = "dir"
    BY PlaceIs, EntryIs, StoredIs DEF Dirs
<1> QED
    BY <1>1, <1>2 DEF FS!Loops, FS!GoesRound, FS!Made, FS!Walks

(* The first step of a request: where its paths lead, and what a walk starts   *)
(* from.                                                                       *)
LEMMA BeginIs ==
    ASSUME Shaped, NEW q \in Call, NEW a \in FS!Arg, FS!Begin(q, a)
    PROVE  /\ pc[q] = "none" /\ disk' = disk /\ arg' = [arg EXCEPT ![q] = a] /\ arg'[q] = a
           /\ mem' \in [Call -> MemType]
           /\ mem'[q].at = FS!Resolved(a.path) /\ mem'[q].to = FS!Resolved(a.to)
           /\ mem'[q].after = {c \in Call : pc[c] = "done"}
           /\ mem'[q].todo = IF a.op \in FS!Walks THEN FS!Pushed(<<>>, FS!Listing(FS!Top))
                                ELSE <<>>
           /\ mem'[q].found = mem[q].found /\ mem'[q].lines = mem[q].lines
           /\ mem'[q].over = FS!Missing /\ mem'[q].data = mem[q].data
           /\ pc' \in [Call -> Label] /\ answer' \in [Call -> Code]
           /\ steady' \in [Call -> SUBSET Spot]
           /\ steady'[q] = IF a.op \in FS!Walks THEN DOMAIN disk ELSE {}
           /\ \A r \in Call \ {q} : /\ arg'[r] = arg[r] /\ mem'[r] = mem[r] /\ pc'[r] = pc[r]
                                    /\ answer'[r] = answer[r] /\ steady'[r] = steady[r]
           /\ \/ /\ a.op \in FS!MustExist /\ pc'[q] = "done"
                 /\ answer'[q] = "FS_PATH_NOT_FOUND"
              \/ /\ FS!Loops(FS!Made(a)) /\ a.op \notin FS!Walks /\ pc'[q] = "done"
                 /\ answer'[q] = "INTERNAL_ERROR"
              \/ /\ pc'[q] = FS!First(a.op) /\ answer'[q] = "none"
                 /\ a.op \in FS!MustExist => FS!Exists(a.path)
                 /\ ~FS!Loops(FS!Made(a))
           /\ a.op \in OpOf(FS!First(a.op)) /\ FS!First(a.op) \in Label \ {"none", "done"}
<1> DEFINE t == IF a.op \in FS!Walks THEN FS!Pushed(<<>>, FS!Listing(FS!Top)) ELSE <<>>
           x == FS!Resolved(a.path)
           y == FS!Resolved(a.to)
           f == {c \in Call : pc[c] = "done"}
<1>1. DiskShape /\ CallTypes /\ mem \in [Call -> MemType] /\ mem[q] \in MemType
    BY OpIs DEF Shaped
<1>2. /\ pc[q] = "none" /\ disk' = disk /\ arg' = [arg EXCEPT ![q] = a]
      /\ mem' = [mem EXCEPT ![q].at = x, ![q].to = y, ![q].todo = t, ![q].after = f]
      /\ steady' = [steady EXCEPT ![q] = IF a.op \in FS!Walks THEN DOMAIN disk ELSE {}]
    BY DEF FS!Begin
<1>3. x \in Spot /\ y \in Site /\ t \in Lists /\ f \in SUBSET Call
  <2>1. a.path \in FS!Path \cup {FS!Top} /\ a.to \in FS!Path \cup {FS!Top}
      BY ArgIs
  <2>2. x \in Site /\ y \in Site
      BY <1>1, <2>1, ResolvedIs DEF Site
  <2>3. t \in Lists
      BY RootIs DEF Lists
  <2> QED
      BY <2>2, <2>3, SpotIs
<1>4. a.op \in OpOf(FS!First(a.op)) /\ FS!First(a.op) \in Label \ {"none", "done"}
  <2>1. a.op \in Ops
      BY ArgIs
  <2> QED
      BY <2>1 DEF Ops, OpOf, FS!First, Label
<1>5. answer[q] = "none" /\ mem[q].over = FS!Missing
    BY <1>2 DEF Shaped, CallShape
<1>6. /\ pc' \in [Call -> Label] /\ answer' \in [Call -> Code]
      /\ \A r \in Call \ {q} : pc'[r] = pc[r] /\ answer'[r] = answer[r]
      /\ \/ a.op \in FS!MustExist /\ pc'[q] = "done" /\ answer'[q] = "FS_PATH_NOT_FOUND"
         \/ /\ FS!Loops(FS!Made(a)) /\ a.op \notin FS!Walks /\ pc'[q] = "done"
            /\ answer'[q] = "INTERNAL_ERROR"
         \/ /\ pc'[q] = FS!First(a.op) /\ answer'[q] = "none"
            /\ a.op \in FS!MustExist => FS!Exists(a.path)
            /\ ~FS!Loops(FS!Made(a))
  <2>1. pc \in [Call -> Label] /\ answer \in [Call -> Code]
      BY <1>1 DEF CallTypes
  <2>2. "done" \in Label /\ "FS_PATH_NOT_FOUND" \in Code /\ "INTERNAL_ERROR" \in Code
      BY DEF Label, Code
  <2>3. CASE /\ a.op \in FS!MustExist /\ pc' = [pc EXCEPT ![q] = "done"]
             /\ answer' = [answer EXCEPT ![q] = "FS_PATH_NOT_FOUND"]
      BY <2>1, <2>2, <2>3
  <2>4. CASE /\ ~(a.op \in FS!MustExist /\ ~FS!Exists(a.path)) /\ ~FS!Loops(FS!Made(a))
             /\ pc' = [pc EXCEPT ![q] = FS!First(a.op)] /\ answer' = answer
      BY <1>4, <1>5, <2>1, <2>4
  <2>5. CASE /\ FS!Loops(FS!Made(a)) /\ pc' = [pc EXCEPT ![q] = "done"]
             /\ answer' = [answer EXCEPT ![q] = "INTERNAL_ERROR"]
    <3>1. a.op \notin FS!Walks
        BY <1>1, <2>5, TopIs
    <3> QED
        BY <2>1, <2>2, <2>5, <3>1
  <2> QED
      BY <2>3, <2>4, <2>5 DEF FS!Begin
<1> HIDE DEF t, x, y, f
<1>7. /\ mem'[q] = [mem[q] EXCEPT !.at = x, !.to = y, !.todo = t, !.after = f]
      /\ \A r \in Call \ {q} : mem'[r] = mem[r]
    BY <1>1, <1>2
<1>8. mem'[q] \in MemType
    BY <1>1, <1>3, <1>7 DEF MemType, Lists, Item
<1>9. mem' \in [Call -> MemType]
    BY <1>1, <1>2, <1>8
<1>10. /\ mem'[q].at = x /\ mem'[q].to = y /\ mem'[q].todo = t /\ mem'[q].after = f
       /\ mem'[q].found = mem[q].found /\ mem'[q].lines = mem[q].lines
       /\ mem'[q].over = FS!Missing /\ mem'[q].data = mem[q].data
    BY <1>1, <1>5, <1>7 DEF MemType
<1>11. /\ steady' \in [Call -> SUBSET Spot]
       /\ steady'[q] = IF a.op \in FS!Walks THEN DOMAIN disk ELSE {}
       /\ \A r \in Call \ {q} : steady'[r] = steady[r]
  <2>1. DOMAIN disk \subseteq Spot
      BY <1>1 DEF DiskShape
  <2> QED
      BY <1>1, <1>2, <2>1 DEF CallTypes
<1>12. arg'[q] = a /\ \A r \in Call \ {q} : arg'[r] = arg[r]
    BY <1>1, <1>2 DEF CallTypes
<1> QED
    BY <1>2, <1>4, <1>6, <1>7, <1>9, <1>10, <1>11, <1>12 DEF t, x, y, f

-----------------------------------------------------------------------------
(* The temporary file of a write, as it is filled and moved.                   *)
LEMMA FileIs ==
    ASSUME Shaped, NEW q \in Call, arg[q].op = "write"
    PROVE  /\ DiskShape /\ mem[q].at \in FS!Path /\ FS!Place(mem[q].at) \in FS!Path
           /\ FS!FileOf(q) \in Spot \ {FS!Top} /\ FS!Last(FS!FileOf(q)) = q
                 /\ FS!FileOf(q) \notin FS!Path
           /\ FS!FileOf(q) = Append(FS!Follow(FS!Front(mem[q].at)), q)
           /\ FS!Front(FS!FileOf(q)) = FS!Follow(FS!Front(mem[q].at))
                 /\ FS!Front(mem[q].at) \in Dirs
           /\ FS!FileOf(q) \notin Dirs
           /\ FS!Entry(FS!FileOf(q)).kind \in {"file", "missing"}
           /\ FS!CanRemove(FS!FileOf(q))
<1>1. DiskShape /\ mem[q].at \in FS!Path /\ FS!Place(mem[q].at) \in FS!Path
    BY OpIs, PlaceIs DEF Shaped
<1>2. /\ FS!FileOf(q) \in Spot \ {FS!Top} /\ FS!Last(FS!FileOf(q)) = q
      /\ FS!FileOf(q) = Append(FS!Follow(FS!Front(mem[q].at)), q)
      /\ FS!Front(FS!FileOf(q)) = FS!Follow(FS!Front(mem[q].at)) /\ FS!Front(mem[q].at) \in Dirs
    BY <1>1, FileOfIs
<1>3. FS!FileOf(q) \notin FS!Path /\ FS!FileOf(q) \notin Dirs
  <2>1. \A p \in FS!Path \cup (Dirs \ {FS!Top}) : FS!Last(p) \in Name
      BY SpotIs, PathIs DEF Dirs
  <2> QED
      BY <1>2, <2>1, NamesAssumption
<1>4. FS!Entry(FS!FileOf(q)).kind \in {"file", "missing"}
    BY <1>1, <1>2, EntryIs
<1> QED
    BY <1>1, <1>2, <1>3, <1>4 DEF FS!CanRemove

(* What each of these makes of an entry; and the disk stays a tree.            *)
Put(x, e) == \A p : FS!Entry(p)' = IF p = x THEN e ELSE FS!Entry(p)
Completes(q) == \A p : FS!Entry(p)' = IF FS!Entry(p) = FS!File(FS!Partial(q))
                                       THEN FS!File(FS!Whole(q)) ELSE FS!Entry(p)
Carried(from, to) ==
    \A p : FS!Entry(p)' = IF p = to THEN FS!Entry(from) ELSE IF p = from THEN FS!Missing
                                                                ELSE FS!Entry(p)

(* A step that leaves the disk as it is.                                       *)
LEMMA LeavesIs ==
    ASSUME Shaped, NEW q \in Call, Leaves(q) \/ Cuts(q)
    PROVE  DiskShape' /\ \A p : FS!Entry(p)' = FS!Entry(p)
BY DEF Shaped, Leaves, Cuts, DiskShape, FS!Entry

(* mkdir, or a write that makes the parent: a directory where nothing was.     *)
LEMMA MakesIs ==
    ASSUME Shaped, NEW q \in Call, Makes(q)
    PROVE  /\ DiskShape'
           /\ \E x \in FS!Path :
                 /\ FS!Entry(x) = FS!Missing /\ FS!Entry(FS!Front(x)) = FS!Dir /\ Put(x, FS!Dir)
                 /\ arg[q].op = "write" => Len(mem[q].at) = 2 /\ x = FS!Front(mem[q].at)
<1>1. PICK x \in FS!Path :
          /\ FS!Entry(x) = FS!Missing /\ FS!Entry(FS!Front(x)) = FS!Dir
                /\ disk' = FS!With(x, FS!Dir)
          /\ arg[q].op = "write" => Len(mem[q].at) = 2 /\ x = FS!Front(mem[q].at)
    BY DEF Makes
<1>2. /\ DiskShape /\ x \in Spot \ {FS!Top} /\ FS!Dir \in Stored /\ FS!Entry(x).kind # "dir"
      /\ FS!Last(x) \notin Call
    BY <1>1, SpotIs, StoredIs, NamesAssumption DEF Shaped, Stored
<1>3. DiskShape' /\ Put(x, FS!Dir)
    BY <1>1, <1>2, WithIs DEF Put
<1> QED
    BY <1>1, <1>3

(* A write opens its temporary file: it is incomplete.                         *)
LEMMA OpensIs ==
    ASSUME Shaped, NEW q \in Call, arg[q].op = "write", Opens(q)
    PROVE  DiskShape' /\ Put(FS!FileOf(q), FS!File(FS!Partial(q)))
<1>1. /\ DiskShape /\ FS!FileOf(q) \in Spot \ {FS!Top} /\ FS!Entry(FS!FileOf(q)).kind # "dir"
      /\ FS!Entry(FS!Front(FS!FileOf(q))) = FS!Dir
    BY FileIs, EntryIs DEF Opens
<1>2. FS!File(FS!Partial(q)) \in Stored /\ FS!File(FS!Partial(q)).kind = "file"
    BY StoredIs DEF Stored, Content
<1> QED
    BY <1>1, <1>2, WithIs DEF Opens, Put

(* A write fills its temporary file: it is complete.                           *)
LEMMA FillsIs ==
    ASSUME Shaped, NEW q \in Call, Fills(q)
    PROVE  DiskShape' /\ Completes(q)
BY FilledIs DEF Shaped, Fills, Completes

(* A write that fails removes its temporary file.                              *)
LEMMA DropsIs ==
    ASSUME Shaped, NEW q \in Call, arg[q].op = "write", Drops(q)
    PROVE  DiskShape' /\ Put(FS!FileOf(q), FS!Missing)
<1>1. DiskShape /\ FS!FileOf(q) # FS!Top /\ FS!CanRemove(FS!FileOf(q))
    BY FileIs
<1> QED
    BY <1>1, WithoutIs DEF Drops, FS!Discarded, Put

(* A write renames its temporary file over its target.                         *)
LEMMA ReplacesIs ==
    ASSUME Shaped, NEW q \in Call, arg[q].op = "write", Replaces(q)
    PROVE  /\ DiskShape' /\ Carried(FS!FileOf(q), FS!Place(mem[q].at))
           /\ FS!Entry(FS!FileOf(q)).kind = "file" /\ FS!Entry(FS!Place(mem[q].at)).kind # "dir"
<1>1. DiskShape /\ FS!FileOf(q) \in Spot \ {FS!Top} /\ FS!Place(mem[q].at) \in FS!Path
    BY FileIs
<1>2. FS!Entry(FS!FileOf(q)).kind = "file" /\ FS!Entry(FS!Place(mem[q].at)).kind # "dir"
    BY FileIs DEF Replaces, FS!CanMove
<1> QED
    BY <1>1, <1>2, MoveFileIs DEF Replaces, Carried

(* A delete leaves one entry less.                                             *)
LEMMA RemovesIs ==
    ASSUME Shaped, NEW q \in Call, Removes(q)
    PROVE  DiskShape' /\ \E z \in Spot \ {FS!Top} : FS!CanRemove(z) /\ Put(z, FS!Missing)
<1>1. PICK z \in Spot \ {FS!Top} : FS!CanRemove(z) /\ disk' = FS!Without(z)
    BY DEF Removes
<1>2. DiskShape' /\ Put(z, FS!Missing)
    BY <1>1, WithoutIs DEF Shaped, Put
<1> QED
    BY <1>1, <1>2

(* A rename: each entry is where it was, or where it was moved to.             *)
LEMMA RenamesIs ==
    ASSUME Shaped, NEW q \in Call, Renames(q)
    PROVE  /\ DiskShape'
           /\ \A p \in DOMAIN disk' \ {FS!Top} :
                 \E o \in DOMAIN disk \ {FS!Top} :
                    /\ disk'[p] = disk[o]
                    /\ FS!Last(p) = FS!Last(o) \/ (FS!Last(p) \in Name /\ FS!Last(o) \in Name)
<1> DEFINE from == FS!Place(mem[q].at)
           to == FS!Place(mem[q].to)
<1>1. DiskShape /\ from \in FS!Path /\ to \in FS!Path /\ FS!CanMove(from, to)
          /\ disk' = FS!Move(from, to)
    BY OpIs, PlaceIs DEF Renames, Shaped
<1> HIDE DEF from, to
<1>2. /\ FS!Entry(from).kind \in Kind /\ from \in Spot \ {FS!Top} /\ from \in DOMAIN disk
      /\ FS!Last(from) \in Name /\ FS!Last(to) \in Name
    BY <1>1, EntryIs, SpotIs DEF FS!CanMove
<1>3. CASE FS!Entry(from).kind = "dir"
    BY <1>1, <1>2, <1>3, MoveDirIs
<1>4. CASE FS!Entry(from).kind # "dir"
  <2>1. FS!Entry(from).kind \in {"file", "link"}
      BY <1>2, <1>4 DEF Kind
  <2>2. /\ DiskShape'
        /\ \A p : FS!Entry(p)' = IF p = to THEN FS!Entry(from)
                              ELSE IF p = from THEN FS!Missing ELSE FS!Entry(p)
      BY <1>1, <1>2, <2>1, MoveFileIs
  <2>3. ASSUME NEW p \in DOMAIN disk' \ {FS!Top}
        PROVE  \E o \in DOMAIN disk \ {FS!Top} :
                  /\ disk'[p] = disk[o]
                  /\ FS!Last(p) = FS!Last(o) \/ (FS!Last(p) \in Name /\ FS!Last(o) \in Name)
    <3>1. FS!Entry(p)' = disk'[p] /\ disk'[p] # FS!Missing
      <4>1. disk'[p] \in Stored
          BY <2>2 DEF DiskShape
      <4> QED
          BY <4>1, StoredIs DEF FS!Entry
    <3>2. CASE p = to
        BY <1>1, <1>2, <2>2, <3>1, <3>2, EntryIs
    <3>3. CASE p # to
      <4>1. FS!Entry(p)' = FS!Entry(p) /\ p \in DOMAIN disk
          BY <1>1, <2>2, <3>1, <3>3, EntryIs
      <4> QED
          BY <1>1, <3>1, <4>1, EntryIs
    <3> QED
        BY <3>2, <3>3
  <2> QED
      BY <2>2, <2>3
<1> QED
    BY <1>3, <1>4

(* All these changes leave a tree.                                             *)
LEMMA ShapeKept ==
    ASSUME Shaped, NEW q \in Call, Changes(q)
    PROVE  DiskShape'
BY LeavesIs, MakesIs, OpensIs, FillsIs, DropsIs, ReplacesIs, RemovesIs, RenamesIs DEF Changes

(* The variables keep their types.                                             *)
LEMMA TypedKept ==
    ASSUME Shaped, NEW q \in Call, Alone(q), Changes(q)
    PROVE  Shaped'
<1>1. DiskShape'
    BY ShapeKept
<1>2. CallTypes'
    BY DEF Shaped, CallTypes, Alone, Held, Steadied
<1>3. {c \in Call : pc[c] = "done"} \subseteq {c \in Call : pc'[c] = "done"}
    BY DEF Alone, Active
<1>4. ASSUME NEW r \in Call PROVE CallShape(r)'
  <2>1. CallShape(r)
      BY DEF Shaped
  <2>2. steady'[r] \subseteq DOMAIN disk'
      BY DEF Alone, Steadied
  <2>3. CASE r # q
    <3>1. /\ arg'[r] = arg[r] /\ pc'[r] = pc[r] /\ mem'[r] = mem[r] /\ answer'[r] = answer[r]
        BY <2>3 DEF Alone, Held
    <3> QED
        BY <1>3, <2>1, <2>2, <3>1 DEF CallShape
  <2>4. CASE r = q
    <3>1. /\ arg'[q] = arg[q] /\ arg[q].op \in OpOf(pc'[q]) /\ pc'[q] # "none"
          /\ pc'[q] # "done" => answer'[q] = "none" /\ mem'[q].over = FS!Missing
          /\ mem'[q].after = mem[q].after /\ mem'[q].to = mem[q].to
          /\ arg[q].op # "tree" => mem'[q].at = mem[q].at
          /\ arg[q].op = "delete" => mem'[q].found \subseteq Pairs
        BY DEF Alone, Held
    <3>2. arg[q].op \in Ops \ FS!Walks => arg[q].op # "tree"
        BY DEF FS!Walks
    <3> QED
        BY <1>3, <2>1, <2>2, <2>4, <3>1, <3>2 DEF CallShape, Pairs
  <2> QED
      BY <2>3, <2>4
<1> QED
    BY <1>1, <1>2, <1>4 DEF Shaped

(* A request begins with its parameters and at its first step.                 *)
LEMMA TypedBegun ==
    ASSUME Shaped, NEW q \in Call, NEW a \in FS!Arg, FS!Begin(q, a)
    PROVE  Shaped'
<1>1. DiskShape /\ DiskShape' /\ disk' = disk
    BY BeginIs DEF Shaped, DiskShape
<1>2. CallTypes'
  <2>1. arg' \in [Call -> FS!Arg \cup {FS!NoArg}]
      BY BeginIs DEF Shaped, CallTypes
  <2> QED
      BY <2>1, BeginIs DEF CallTypes
<1>3. {c \in Call : pc[c] = "done"} \subseteq {c \in Call : pc'[c] = "done"}
    BY BeginIs
<1>4. ASSUME NEW r \in Call PROVE CallShape(r)'
  <2>1. CallShape(r)
      BY DEF Shaped
  <2>2. CASE r # q
    <3>1. /\ arg'[r] = arg[r] /\ pc'[r] = pc[r] /\ mem'[r] = mem[r] /\ answer'[r] = answer[r]
          /\ steady'[r] = steady[r]
        BY <2>2, BeginIs
    <3> QED
        BY <1>1, <1>3, <2>1, <3>1 DEF CallShape
  <2>3. CASE r = q
    <3>1. /\ pc[q] = "none" /\ arg'[q] = a
          /\ mem'[q].at = FS!Resolved(a.path) /\ mem'[q].to = FS!Resolved(a.to)
          /\ mem'[q].after = {c \in Call : pc[c] = "done"}
          /\ mem'[q].found = mem[q].found /\ mem'[q].over = FS!Missing
          /\ steady'[q] \subseteq DOMAIN disk
        BY BeginIs
    <3>2. /\ pc'[q] # "done" => answer'[q] = "none"
          /\ a.op \in OpOf(pc'[q]) /\ pc'[q] # "none"
      <4>1. a.op \in Ops /\ OpOf("done") = Ops
          BY ArgIs DEF OpOf
      <4> QED
          BY <4>1, BeginIs
    <3>3. /\ a.op \in Ops \ FS!Walks => FS!Resolved(a.path) \in FS!Path
          /\ a.op = "rename" => FS!Resolved(a.to) \in FS!Path
        BY <1>1, ArgIs, ResolvedIs
    <3>4. mem'[q].found = {}
        BY <2>1, <2>3, <3>1 DEF CallShape
    <3> QED
        BY <1>1, <1>3, <2>3, <3>1, <3>2, <3>3, <3>4 DEF CallShape
  <2> QED
      BY <2>2, <2>3
<1> QED
    BY <1>1, <1>2, <1>4 DEF Shaped

-----------------------------------------------------------------------------
(* A step of the system is one of a request.                                   *)
LEMMA StepIs ==
    ASSUME FS!Next
    PROVE  \/ \E q \in Call, a \in FS!Arg : FS!Begin(q, a)
           \/ \E q \in Call : \/ FS!Read(q) \/ FS!Mkdir(q) \/ FS!Write(q) \/ FS!Delete(q)
                                    \/ FS!Rename(q)
                              \/ FS!Search(q) \/ FS!Tree(q) \/ FS!Packages(q)
           \/ UNCHANGED FS!vars
BY DEF FS!Next, FS!Ended

(* At first the disk is one of Disks, and no request has begun.                *)
LEMMA TypedInit == FS!Init => Shaped
<1> SUFFICES ASSUME FS!Init PROVE Shaped
    OBVIOUS
<1>1. /\ disk \in Disks
      /\ arg = [r \in Call |-> FS!NoArg] /\ pc = [r \in Call |-> "none"]
      /\ mem = [r \in Call |-> FS!NoMem] /\ answer = [r \in Call |-> "none"]
      /\ steady = [r \in Call |-> {}]
    BY DEF FS!Init
<1>2. DiskShape
  <2>1. /\ DOMAIN disk \subseteq {FS!Top} \cup FS!Path /\ FS!Top \in DOMAIN disk
              /\ disk[FS!Top] = FS!Dir
        /\ \A p \in DOMAIN disk \ {FS!Top} :
              /\ FS!Front(p) \in DOMAIN disk /\ disk[FS!Front(p)] = FS!Dir
              /\ \/ disk[p] = FS!Dir
                 \/ \E q \in FS!Path : disk[p] = FS!File(q)
                 \/ \E n \in Name : disk[p] = FS!Link(<<n>>)
      BY <1>1, DisksAssumption
  <2>2. ASSUME NEW p \in DOMAIN disk \ {FS!Top}
        PROVE disk[p] \in Stored /\ FS!Last(p) \notin Call
    <3>1. p \in FS!Path
        BY <2>1
    <3>2. FS!Last(p) \notin Call
        BY <3>1, SpotIs, NamesAssumption
    <3>3. FS!Path \subseteq Content
        BY DEF Content
    <3>4. disk[p] \in Stored
        BY <2>1, <2>2, <3>3 DEF Stored
    <3> QED
        BY <3>2, <3>4
  <2> QED
      BY <2>1, <2>2 DEF DiskShape, Spot, Site
<1>3. FS!NoMem \in MemType
  <2>1. FS!Top \in Spot /\ FS!Top \in Site /\ FS!Missing \in Stored \cup {FS!Missing}
      BY SpotIs
  <2>2. <<>> \in Seq(SUBSET [at : Spot \ {FS!Top}, kind : Kind]) /\ FS!Top = <<>>
      BY DEF FS!Top
  <2> QED
      BY <2>1, <2>2 DEF FS!NoMem, MemType
<1>4. CallTypes
    BY <1>1, <1>3 DEF CallTypes, Label, Code
<1>5. ASSUME NEW r \in Call PROVE CallShape(r)
    BY <1>1 DEF CallShape, FS!NoArg, FS!NoMem, OpOf, Ops
<1> QED
    BY <1>2, <1>4, <1>5 DEF Shaped

(* The files of a workspace keep to their types: the disk is a tree, and each  *)
(* request is at a step of its operation.                                      *)
THEOREM FilesTyped == FS!Spec => []Shaped
<1>1. ASSUME Shaped, [FS!Next]_FS!vars PROVE Shaped'
  <2>1. ASSUME NEW q \in Call, NEW a \in FS!Arg, FS!Begin(q, a) PROVE Shaped'
      BY <1>1, <2>1, TypedBegun
  <2>2. ASSUME NEW q \in Call,
               \/ FS!Read(q) \/ FS!Mkdir(q) \/ FS!Write(q) \/ FS!Delete(q) \/ FS!Rename(q)
               \/ FS!Search(q) \/ FS!Tree(q) \/ FS!Packages(q)
        PROVE  Shaped'
      BY <1>1, <2>2, ActiveIs, TypedKept
  <2>3. CASE UNCHANGED FS!vars
      BY <1>1, <2>3 DEF FS!vars, Shaped, DiskShape, CallTypes, CallShape
  <2> QED
      BY <1>1, <2>1, <2>2, <2>3, StepIs
<1> QED
    BY <1>1, TypedInit, PTL DEF FS!Spec

(* Type correctness of FileStore.                                              *)
THEOREM FileTypesCorrect == FS!Spec => []FS!TypeOK
<1>1. Shaped => FS!TypeOK
    BY DEF Shaped, DiskShape, CallTypes, CallShape, FS!TypeOK
<1> QED
    BY <1>1, FilesTyped, PTL

(* Which action a step belongs to follows from the operation.                  *)
LEMMA KindOfStep ==
    ASSUME Shaped, NEW q \in Call,
           \/ FS!Read(q) \/ FS!Mkdir(q) \/ FS!Write(q) \/ FS!Delete(q) \/ FS!Rename(q)
           \/ FS!Search(q) \/ FS!Tree(q) \/ FS!Packages(q)
    PROVE  /\ arg[q].op = "read" <=> FS!Read(q)
           /\ arg[q].op = "mkdir" <=> FS!Mkdir(q)
           /\ arg[q].op = "write" <=> FS!Write(q)
           /\ arg[q].op = "delete" <=> FS!Delete(q)
           /\ arg[q].op = "rename" <=> FS!Rename(q)
           /\ arg[q].op = "search" <=> FS!Search(q)
           /\ arg[q].op = "tree" <=> FS!Tree(q)
           /\ arg[q].op = "packages" <=> FS!Packages(q)
<1>1. FS!Read(q) => arg[q].op = "read"
    BY OpIs DEF FS!Read, FS!Check
<1>2. FS!Mkdir(q) => arg[q].op = "mkdir"
    BY MkdirIs
<1>3. FS!Write(q) => arg[q].op = "write"
    BY OpIs DEF FS!Write, FS!Check
<1>4. FS!Delete(q) => arg[q].op = "delete"
    BY OpIs DEF FS!Delete, FS!Check, FS!Go
<1>5. FS!Rename(q) => arg[q].op = "rename"
    BY OpIs DEF FS!Rename, FS!Check
<1>6. FS!Search(q) => arg[q].op = "search"
    BY OpIs DEF FS!Search, FS!ByName, FS!ByContent, FS!Merge, FS!Visits, FS!Go, FS!Stopped
<1>7. FS!Tree(q) => arg[q].op = "tree"
    BY OpIs DEF FS!Tree, FS!Visits, FS!Check, FS!Finish
<1>8. FS!Packages(q) => arg[q].op = "packages"
    BY OpIs DEF FS!Packages, FS!Visits, FS!Finish, FS!Stopped
<1> QED
    BY <1>1, <1>2, <1>3, <1>4, <1>5, <1>6, <1>7, <1>8

-----------------------------------------------------------------------------
(* A request that takes a step has not ended before another began: the two     *)
(* race, and a race stays one.                                                 *)
LEMMA RaceIs ==
    ASSUME Shaped, NEW q \in Call, Alone(q)
    PROVE  /\ \A r \in Call : \A ops : FS!RacedBy(r, ops)' <=> FS!RacedBy(r, ops)
           /\ \A r \in Call \ {q} : \A ops : arg[q].op \in ops => FS!RacedBy(r, ops)
           /\ \A r \in Call : mem'[r].after = mem[r].after /\ q \notin mem[r].after
<1>1. \A r \in Call : mem'[r].after = mem[r].after
    BY DEF Alone, Held
<1>2. \A r \in Call : q \notin mem[r].after
    BY DEF Shaped, CallShape, Alone, Active
<1>3. arg' = arg
    BY DEF Alone
<1> QED
    BY <1>1, <1>2, <1>3 DEF FS!RacedBy

(* A request that begins ends no race.                                         *)
LEMMA RaceBegun ==
    ASSUME Shaped, NEW q \in Call, NEW a \in FS!Arg, FS!Begin(q, a)
    PROVE  \A r \in Call \ {q} : \A ops : "none" \notin ops /\ FS!RacedBy(r, ops)
                 => FS!RacedBy(r, ops)'
<1>1. arg[q].op = "none"
    BY BeginIs, OpIs
<1>2. \A r \in Call \ {q} : mem'[r] = mem[r] /\ arg'[r] = arg[r]
    BY BeginIs
<1> QED
    BY <1>1, <1>2 DEF FS!RacedBy

(* What holds of a file in part.                                               *)
LEMMA ContentIs ==
    /\ \A q, s \in Call : /\ FS!File(FS!Partial(q)) = FS!File(FS!Partial(s)) => q = s
                          /\ FS!File(FS!Whole(q)) # FS!File(FS!Partial(s))
    /\ \A q \in Call : FS!File(FS!Partial(q)) # FS!Dir /\ FS!File(FS!Partial(q)) # FS!Missing
          /\ FS!Partial(q) \notin FS!Path
    /\ \A q \in Call : FS!Partial(q) \notin {FS!Whole(s) : s \in Call}
<1>1. \A c, d : FS!File(c) = FS!File(d) => c = d
    BY StoredIs
<1>2. \A q, s \in Call : (FS!Partial(q) = FS!Partial(s) => q = s) /\ FS!Whole(q) # FS!Partial(s)
    BY DEF FS!Partial, FS!Whole
<1>3. \A q \in Call : FS!File(FS!Partial(q)) # FS!Dir /\ FS!File(FS!Partial(q)) # FS!Missing
    BY StoredIs
<1>4. ASSUME NEW q \in Call PROVE FS!Partial(q) \notin FS!Path
  <2>1. \A n : <<q, q>> # <<n>>
      OBVIOUS
  <2>2. \A n, m \in Name : <<q, q>> # <<n, m>>
      BY NamesAssumption
  <2> QED
      BY <2>1, <2>2, PathIs DEF FS!Partial
<1> QED
    BY <1>1, <1>2, <1>3, <1>4

(* A write fills its file once.                                                *)
LEMMA FilledOnce ==
    ASSUME Shaped, NEW q \in Call, FS!Write(q)
    PROVE  /\ pc[q] # "fill" => mem'[q].data = mem[q].data
           /\ pc[q] = "fill" => pc'[q] \in {"replace", "done"}
           /\ pc[q] = "replace" => pc'[q] = "done"
<1> DEFINE p == mem[q].at
<1>1. mem \in [Call -> MemType] /\ CallTypes /\ pc \in [Call -> Label]
    BY DEF Shaped, CallTypes
<1>2. FS!Entry(FS!Place(p)) \in Stored \cup {FS!Missing} /\ (~FS!Exists(p)) \in BOOLEAN
    BY EntryIs DEF Shaped, FS!Exists
<1>3. mem' = mem => mem'[q].data = mem[q].data
    OBVIOUS
<1>4. mem' = [mem EXCEPT ![q].fresh = ~FS!Exists(p)] => mem'[q].data = mem[q].data
    BY <1>2, SetsFresh
<1>5. mem' = [mem EXCEPT ![q].over = FS!Entry(FS!Place(p))] => mem'[q].data = mem[q].data
    BY <1>2, SetsOver
<1>6. /\ FS!Goto(q, "replace") => pc'[q] = "replace"
      /\ \A c : FS!Answer(q, c) => pc'[q] = "done"
    BY <1>1 DEF FS!Goto, FS!Answer
<1>7. FS!Undo(q) => pc'[q] = "done"
    BY <1>6 DEF FS!Undo
<1>8. pc[q] \notin {"fill", "replace"} => mem'[q].data = mem[q].data
    BY <1>3, <1>4 DEF FS!Write, FS!Check, FS!Parents
<1>9. pc[q] = "fill" => pc'[q] \in {"replace", "done"}
    BY <1>6, <1>7 DEF FS!Write, FS!Check, FS!Parents
<1>10. pc[q] = "replace" => pc'[q] = "done" /\ mem'[q].data = mem[q].data
    BY <1>3, <1>5, <1>6, <1>7 DEF FS!Write, FS!Check, FS!Parents
<1> QED
    BY <1>8, <1>9, <1>10

(* What a write has cut stays cut.                                             *)
LEMMA CutKept ==
    ASSUME Shaped, PartialShape, NEW q \in Call, Alone(q),
           FS!Write(q) \/ arg[q].op # "write"
    PROVE  \A s \in Call :
               /\ FS!Cut(s) => FS!Cut(s)'
               /\ mem'[s].data = FS!Partial(s) /\ arg'[s].op \in {"none", "write"}
                     => pc'[s] \in {"replace", "done"}
<1> SUFFICES ASSUME NEW s \in Call
             PROVE  /\ FS!Cut(s) => FS!Cut(s)'
                    /\ mem'[s].data = FS!Partial(s) /\ arg'[s].op \in {"none", "write"}
                          => pc'[s] \in {"replace", "done"}
    OBVIOUS
<1>1. mem[s].data = FS!Partial(s) /\ arg[s].op \in {"none", "write"}
          => pc[s] \in {"replace", "done"}
    BY DEF PartialShape
<1>2. arg' = arg /\ Active(q) /\ arg[q].op # "none"
    BY DEF Alone, Ops
<1>3. CASE s # q
  <2>1. mem'[s] = mem[s] /\ pc'[s] = pc[s]
      BY <1>3 DEF Alone, Held
  <2> QED
      BY <1>1, <1>2, <2>1 DEF FS!Cut
<1>4. CASE s = q /\ arg[q].op # "write"
    BY <1>2, <1>4 DEF FS!Cut
<1>5. CASE s = q /\ FS!Write(q)
    BY <1>1, <1>2, <1>5, FilledOnce DEF FS!Cut, Active
<1> QED
    BY <1>3, <1>4, <1>5

(* A step leaves no incomplete file but a temporary one, or one that is cut.   *)
LEMMA PartialKept ==
    ASSUME Shaped, Shaped', PartialShape, NEW q \in Call, Alone(q), Changes(q),
           FS!Write(q) \/ arg[q].op # "write"
    PROVE  PartialShape'
<1> SUFFICES ASSUME NEW p \in Spot, NEW s \in Call, FS!Entry(p)' = FS!File(FS!Partial(s)),
                    ~FS!Cut(s)'
             PROVE  FS!Last(p) = s /\ pc'[s] # "replace"
    BY CutKept DEF PartialShape
<1>1. DiskShape /\ DiskShape'
    BY DEF Shaped
<1>2. \A x \in Spot : FS!Entry(x) = FS!File(FS!Partial(s))
            => FS!Last(x) = s /\ pc[s] # "replace"
    BY CutKept DEF PartialShape
<1>3. s # q => pc'[s] = pc[s]
    BY DEF Alone
<1>4. /\ \A c \in Call : FS!File(FS!Partial(c)) = FS!File(FS!Partial(s)) => c = s
      /\ \A c \in Call : FS!File(FS!Whole(c)) # FS!File(FS!Partial(s))
      /\ FS!File(FS!Partial(s)) # FS!Dir /\ FS!File(FS!Partial(s)) # FS!Missing
    BY ContentIs
<1>5. CASE Leaves(q)
    BY <1>2, <1>3, <1>5, LeavesIs DEF Leaves
<1>6. CASE Makes(q)
  <2>1. FS!Entry(p)' = FS!Dir \/ FS!Entry(p)' = FS!Entry(p)
      BY <1>6, MakesIs DEF Put
  <2> QED
      BY <1>2, <1>3, <1>4, <1>6, <2>1 DEF Makes
<1>7. CASE arg[q].op = "write" /\ Opens(q)
  <2>1. FS!Entry(p)' = IF p = FS!FileOf(q) THEN FS!File(FS!Partial(q)) ELSE FS!Entry(p)
      BY <1>7, OpensIs DEF Put
  <2>2. FS!Last(FS!FileOf(q)) = q /\ pc'[q] = "fill"
      BY <1>7, FileIs DEF Opens
  <2> QED
      BY <1>2, <1>3, <1>4, <2>1, <2>2
<1>8. CASE Fills(q)
  <2>1. FS!Entry(p)' = IF FS!Entry(p) = FS!File(FS!Partial(q)) THEN FS!File(FS!Whole(q))
                          ELSE FS!Entry(p)
      BY <1>8, FillsIs DEF Completes
  <2>2. s # q /\ FS!Entry(p) = FS!File(FS!Partial(s))
      BY <1>4, <2>1
  <2> QED
      BY <1>2, <1>3, <2>2
<1>13. CASE arg[q].op = "write" /\ Cuts(q)
  <2>1. FS!Entry(p)' = FS!Entry(p) /\ FS!Cut(q)'
      BY <1>13, LeavesIs DEF Cuts, Alone, FS!Cut
  <2> QED
      BY <1>2, <1>3, <2>1
<1>9. CASE arg[q].op = "write" /\ Drops(q)
  <2>1. FS!Entry(p)' = IF p = FS!FileOf(q) THEN FS!Missing ELSE FS!Entry(p)
      BY <1>9, DropsIs DEF Put
  <2> QED
      BY <1>2, <1>3, <1>4, <1>9, <2>1 DEF Drops
<1>10. CASE arg[q].op = "write" /\ Replaces(q)
  <2> DEFINE to == FS!Place(mem[q].at)
  <2>1. FS!Entry(p)' = IF p = to THEN FS!Entry(FS!FileOf(q))
                    ELSE IF p = FS!FileOf(q) THEN FS!Missing ELSE FS!Entry(p)
      BY <1>10, ReplacesIs DEF Carried
  <2>2. pc[q] = "replace" /\ pc'[q] = "done" /\ FS!FileOf(q) \in Spot
            /\ FS!Last(FS!FileOf(q)) = q
      BY <1>10, FileIs DEF Replaces
  <2>3. p # to
      BY <1>2, <2>1, <2>2
  <2> QED
      BY <1>2, <1>3, <1>4, <2>1, <2>2, <2>3
<1>11. CASE Removes(q)
  <2>1. FS!Entry(p)' = FS!Missing \/ FS!Entry(p)' = FS!Entry(p)
      BY <1>11, RemovesIs DEF Put
  <2>2. pc'[q] # "replace"
      BY <1>11, WriteIs DEF Removes
  <2> QED
      BY <1>2, <1>3, <1>4, <2>1, <2>2
<1>12. CASE Renames(q)
  <2>1. p \in DOMAIN disk' \ {FS!Top} /\ disk'[p] = FS!File(FS!Partial(s))
    <3>1. FS!Entry(FS!Top)' = FS!Dir
        BY <1>1 DEF DiskShape, FS!Entry
    <3> QED
        BY <1>4, <3>1 DEF FS!Entry
  <2>2. PICK o \in DOMAIN disk \ {FS!Top} :
            /\ disk'[p] = disk[o]
            /\ FS!Last(p) = FS!Last(o) \/ (FS!Last(p) \in Name /\ FS!Last(o) \in Name)
      BY <1>12, <2>1, RenamesIs
  <2>3. o \in Spot /\ FS!Entry(o) = FS!File(FS!Partial(s))
      BY <1>1, <2>1, <2>2, EntryIs
  <2>4. pc'[q] # "replace"
      BY <1>12, WriteIs DEF Renames
  <2> QED
      BY <1>2, <1>3, <2>2, <2>3, <2>4, NamesAssumption
<1> QED
    BY <1>5, <1>6, <1>7, <1>8, <1>9, <1>10, <1>11, <1>12, <1>13 DEF Changes

-----------------------------------------------------------------------------
(* What is found at a path depends only on the disk, and a directory that is   *)
(* made where nothing was leaves what is found elsewhere as it is.             *)
LEMMA SameIs ==
    ASSUME disk' = disk
    PROVE  \A p : /\ FS!Entry(p)' = FS!Entry(p) /\ FS!Follow(p)' = FS!Follow(p)
                        /\ FS!Place(p)' = FS!Place(p)
                  /\ FS!Stat(p)' = FS!Stat(p) /\ (FS!Exists(p)' <=> FS!Exists(p))
                        /\ (Empty(p)' <=> Empty(p))
                  /\ FS!Listing(p)' = FS!Listing(p)
<1>1. \A p : FS!Entry(p)' = FS!Entry(p)
    BY DEF FS!Entry
<1>2. \A p : FS!Follow(p)' = FS!Follow(p)
    BY <1>1 DEF FS!Follow
<1>3. \A p : FS!Place(p)' = FS!Place(p)
    BY <1>2 DEF FS!Place
<1>4. \A p : FS!Stat(p)' = FS!Stat(p)
    BY <1>1, <1>2, <1>3 DEF FS!Stat
<1>5. \A p : (FS!Exists(p)' <=> FS!Exists(p)) /\ (Empty(p)' <=> Empty(p))
    BY <1>1, <1>3, <1>4 DEF FS!Exists, Empty
<1>6. \A p : FS!Listing(p)' = FS!Listing(p)
    BY DEF FS!Listing, FS!Children
<1> QED
    BY <1>1, <1>2, <1>3, <1>4, <1>5, <1>6

(* Where a path leads that may be that of a temporary file.                    *)
LEMMA PlaceAt ==
    ASSUME DiskShape, NEW p \in Spot \ {FS!Top}
    PROVE  /\ FS!Front(p) \in Dirs /\ FS!Follow(FS!Front(p)) \in Dirs
           /\ FS!Place(p) = Append(FS!Follow(FS!Front(p)), FS!Last(p))
           /\ FS!Place(p) \in Spot \ {FS!Top} /\ FS!Front(FS!Place(p)) = FS!Follow(FS!Front(p))
           /\ FS!Last(FS!Place(p)) = FS!Last(p)
<1>1. /\ FS!Front(p) \in Dirs /\ FS!Last(p) \in Name \cup Call
    BY SpotIs DEF Dirs
<1>2. FS!Follow(FS!Front(p)) \in Dirs
          /\ FS!Place(p) = Append(FS!Follow(FS!Front(p)), FS!Last(p))
    BY <1>1, PlaceIs DEF FS!Place
<1>3. \A c \in FS!Path : c \in Spot \ {FS!Top}
    BY SpotIs
<1> QED
    BY <1>1, <1>2, <1>3, InSite DEF Dirs

(* To make a directory does not change what exists.                            *)
LEMMA StatKept ==
    ASSUME DiskShape, NEW x \in FS!Path, FS!Entry(x) = FS!Missing, Put(x, FS!Dir),
           NEW p \in Spot \ {FS!Top}, FS!Exists(p)
    PROVE  FS!Stat(p)' = FS!Stat(p)
<1> DEFINE d == FS!Front(p)
<1>1. PICK a, f, t :
          /\ f = FS!Follow(d) /\ a = Append(f, FS!Last(p)) /\ a \in Spot \ {FS!Top}
                /\ FS!Front(a) = f
          /\ a = FS!Place(p) /\ t = FS!Follow(a)
    BY PlaceAt
<1>2. FS!Missing.kind = "missing" /\ FS!Dir # FS!Missing
    BY StoredIs
<1>3. /\ FS!Stat(p) = FS!Entry(t) /\ FS!Entry(t) # FS!Missing /\ FS!Entry(t).kind # "link"
    BY <1>1, <1>2, StatIs DEF FS!Exists, FS!Stat
<1>4. FS!Entry(a) # FS!Missing
    BY <1>1, <1>2, <1>3 DEF FS!Follow
<1>5. FS!Entry(f) = FS!Dir
    BY <1>1, <1>4, EntryIs
<1>6. FS!Entry(d) # FS!Missing
    BY <1>1, <1>2, <1>5 DEF FS!Follow
<1>7. FS!Entry(d)' = FS!Entry(d) /\ FS!Entry(a)' = FS!Entry(a) /\ FS!Entry(t)' = FS!Entry(t)
    BY <1>3, <1>4, <1>6 DEF Put
<1>8. FS!Follow(d)' = f /\ FS!Follow(a)' = t
    BY <1>1, <1>7 DEF FS!Follow
<1>9. FS!Place(p)' = a
  <2>1. p # FS!Top
      OBVIOUS
  <2> QED
      BY <1>1, <1>8, <2>1 DEF FS!Place
<1>10. FS!Entry(FS!Follow(FS!Place(p)))' = FS!Entry(t)
    BY <1>7, <1>8, <1>9
<1> QED
    BY <1>3, <1>10 DEF FS!Stat

(* What a reader has looked at stays, or another races with it.                *)
LEMMA ReadOthers ==
    ASSUME Shaped, NEW q \in Call, Alone(q), Changes(q), NEW r \in Call \ {q}, ReadShape(r),
           \A s \in Call : FS!Cut(s) => FS!Cut(s)'
    PROVE  ReadShape(r)'
<1> DEFINE ops == {"write", "rename", "delete"}
           a == mem[r].at
<1>1. /\ pc'[r] = pc[r] /\ arg'[r] = arg[r] /\ mem'[r] = mem[r] /\ answer'[r] = answer[r]
      /\ FS!RacedBy(r, ops)' <=> FS!RacedBy(r, ops)
      /\ Written(r) => Written(r)'
    BY RaceIs DEF Alone, Held, Written
<1>2. CASE FS!RacedBy(r, ops)
    BY <1>1, <1>2 DEF ReadShape, FS!Ok
<1>3. CASE ~FS!RacedBy(r, ops)
  <2>1. arg[q].op \notin ops
      BY <1>3, RaceIs
  <2>2. Leaves(q) \/ (Makes(q) /\ arg[q].op = "mkdir")
      BY <2>1 DEF Changes, Makes, Removes, Renames
  <2>3. pc[r] \in {"content", "size"} /\ FS!Stat(a).kind = "file" => FS!Stat(a)' = FS!Stat(a)
    <3> SUFFICES ASSUME pc[r] \in {"content", "size"}, FS!Stat(a).kind = "file"
                 PROVE  FS!Stat(a)' = FS!Stat(a)
        OBVIOUS
    <3>1. CASE Leaves(q)
      <4>1. disk' = disk
          BY <3>1 DEF Leaves
      <4>2. FS!Stat(a)' = FS!Stat(mem'[r].at)
          BY <1>1, <4>1, SameIs
      <4> QED
          BY <1>1, <4>1, SameIs
    <3>2. CASE Makes(q)
      <4>1. a \in Spot \ {FS!Top} /\ FS!Exists(a) /\ DiskShape
          BY OpIs, SpotIs DEF FS!Exists, Shaped
      <4>2. PICK x \in FS!Path : FS!Entry(x) = FS!Missing /\ Put(x, FS!Dir)
          BY <3>2, MakesIs
      <4> QED
          BY <1>1, <4>1, <4>2, StatKept
    <3> QED
        BY <2>2, <3>1, <3>2
  <2>4. pc[r] = "size" /\ FS!Stat(a) = FS!File(mem[r].data) => FS!Stat(a).kind = "file"
      BY StoredIs
  <2> QED
      BY <1>1, <1>3, <2>3, <2>4 DEF ReadShape, FS!Ok
<1> QED
    BY <1>2, <1>3

(* What it has read is whole.                                                  *)
LEMMA ReadOwn ==
    ASSUME Shaped, PartialShape, NEW q \in Call, ReadShape(q), FS!Read(q)
    PROVE  ReadShape(q)'
<1> DEFINE p == mem[q].at
           ops == {"write", "rename", "delete"}
           Whole(d) == \/ d \in FS!Path \cup {FS!Whole(s) : s \in Call}
                       \/ \E s \in Call : FS!Cut(s) /\ d = FS!Partial(s)
<1>1. /\ Alone(q) /\ disk' = disk /\ arg' = arg /\ mem'[q].at = p /\ pc'[q] # "none"
      /\ FS!RacedBy(q, ops)' <=> FS!RacedBy(q, ops)
  <2>1. Alone(q) /\ disk' = disk
      BY ReadIs DEF Leaves
  <2>2. arg[q].op = "read"
      BY OpIs DEF FS!Read, FS!Check
  <2> QED
      BY <2>1, <2>2, RaceIs DEF Alone, Held
<1>2. FS!Stat(p)' = FS!Stat(p)
  <2>1. FS!Stat(p)' = FS!Stat(mem'[q].at)
      BY <1>1, SameIs
  <2> QED
      BY <1>1, <2>1
<1>3. /\ DiskShape /\ CallTypes /\ p \in FS!Path /\ mem[q] \in MemType /\ answer[q] = "none"
      /\ FS!Stat(p).data \in Content \cup {FS!Top}
  <2>1. arg[q].op = "read" /\ Active(q)
      BY OpIs DEF FS!Read, FS!Check
  <2> QED
      BY <2>1, OpIs, StatIs DEF Shaped
<1>4. FS!Stat(p).kind = "file" => FS!Stat(p) = FS!File(FS!Stat(p).data)
          /\ Whole(FS!Stat(p).data)
  <2> SUFFICES ASSUME FS!Stat(p).kind = "file"
               PROVE  FS!Stat(p) = FS!File(FS!Stat(p).data) /\ Whole(FS!Stat(p).data)
      OBVIOUS
  <2>1. /\ FS!Stat(p) = FS!File(FS!Stat(p).data) /\ FS!Stat(p).data \in Content
        /\ FS!Stat(p) = FS!Entry(FS!Follow(FS!Place(p)))
      BY <1>3, StatIs
  <2>2. FS!Follow(FS!Place(p)) \in Spot /\ FS!Last(FS!Follow(FS!Place(p))) \in Name
      BY <1>3, PlaceIs, SpotIs
  <2>3. \A s \in Call : FS!Stat(p).data = FS!Partial(s) => FS!Cut(s)
      BY <2>1, <2>2, NamesAssumption DEF PartialShape
  <2> QED
      BY <2>1, <2>3 DEF Content
<1>12. Whole(mem'[q].data) => Written(q)'
  <2>1. \A s \in Call \ {q} : FS!Cut(s) => FS!Cut(s)'
      BY <1>1 DEF Alone, Held, FS!Cut
  <2>2. ~FS!Cut(q)
      BY OpIs DEF FS!Read, FS!Check, FS!Cut
  <2> QED
      BY <2>1, <2>2 DEF Written
<1> HIDE DEF Whole
<1>5. /\ {"notDir", "regular", "content"} \subseteq Label
      /\ {"ok", "FS_PATH_NOT_FOUND", "FS_IS_DIRECTORY", "INTERNAL_ERROR"} \subseteq Code
      /\ "size" \in Label
    BY DEF Label, Code
<1>6. ASSUME NEW next \in {"notDir", "regular", "content"}, NEW code \in Code \ {"ok"},
             \/ FS!Goto(q, next) /\ (next = "content" => FS!Stat(p).kind = "file")
             \/ FS!Answer(q, code)
      PROVE  ReadShape(q)'
  <2>1. CASE FS!Goto(q, next) /\ (next = "content" => FS!Stat(p).kind = "file")
    <3>1. pc'[q] = next /\ answer'[q] = "none"
        BY <1>3, <1>5, <2>1, GotoIs
    <3> QED
        BY <1>1, <1>2, <2>1, <3>1 DEF ReadShape, FS!Ok
  <2>2. CASE FS!Answer(q, code)
    <3>1. pc'[q] = "done" /\ answer'[q] = code
        BY <1>3, <2>2, AnswerIs
    <3> QED
        BY <1>1, <3>1 DEF ReadShape, FS!Ok
  <2> QED
      BY <1>6, <2>1, <2>2
<1>7. CASE FS!Check(q, "readable", FS!Exists(p), "notDir", "FS_PATH_NOT_FOUND")
  <2>1. FS!Goto(q, "notDir") \/ FS!Answer(q, "FS_PATH_NOT_FOUND")
      BY <1>7 DEF FS!Check
  <2> QED
      BY <1>5, <1>6, <2>1
<1>13. FS!Thrown(p, "FS_IS_DIRECTORY") \in Code \ {"ok"}
          /\ FS!Thrown(p, "FS_PATH_NOT_FOUND") \in Code \ {"ok"}
    BY ThrownIs DEF Code
<1>8. CASE FS!Check(q, "notDir", FS!Stat(p).kind # "dir" /\ ~FS!Loops(p), "regular",
                    FS!Thrown(p, "FS_IS_DIRECTORY"))
  <2>1. FS!Goto(q, "regular") \/ FS!Answer(q, FS!Thrown(p, "FS_IS_DIRECTORY"))
      BY <1>8 DEF FS!Check
  <2> QED
      BY <1>6, <1>13, <2>1
<1>9. CASE FS!Check(q, "regular", FS!Stat(p).kind = "file", "content",
                    FS!Thrown(p, "FS_PATH_NOT_FOUND"))
  <2>1. \/ FS!Goto(q, "content") /\ FS!Stat(p).kind = "file"
        \/ FS!Answer(q, FS!Thrown(p, "FS_PATH_NOT_FOUND"))
      BY <1>9 DEF FS!Check
  <2> QED
      BY <1>6, <1>13, <2>1
<1>10. CASE /\ mem' = [mem EXCEPT ![q].data = FS!Stat(p).data]
            /\ IF FS!Stat(p).kind = "file" THEN FS!Goto(q, "size")
                  ELSE FS!Answer(q, "INTERNAL_ERROR")
  <2>1. mem'[q].data = FS!Stat(p).data
      BY <1>3, <1>10, SetsData
  <2>2. CASE FS!Stat(p).kind = "file"
    <3>1. pc'[q] = "size" /\ answer'[q] = "none"
        BY <1>3, <1>5, <1>10, <2>2, GotoIs
    <3> QED
        BY <1>1, <1>2, <1>4, <1>12, <2>1, <2>2, <3>1 DEF ReadShape, FS!Ok
  <2>3. CASE FS!Stat(p).kind # "file"
    <3>1. pc'[q] = "done" /\ answer'[q] = "INTERNAL_ERROR"
        BY <1>3, <1>5, <1>10, <2>3, AnswerIs
    <3> QED
        BY <1>1, <3>1 DEF ReadShape, FS!Ok
  <2> QED
      BY <2>2, <2>3
<1>11. CASE /\ pc[q] = "size" /\ mem' = [mem EXCEPT ![q].size = FS!Stat(p).data]
            /\ FS!Answer(q, IF FS!Stat(p).kind = "file" /\ mem[q].data \notin Garbled
                            THEN "ok" ELSE "INTERNAL_ERROR")
  <2>1. mem'[q].data = mem[q].data /\ mem'[q].size = FS!Stat(p).data
      BY <1>3, <1>11, SetsSize
  <2>2. pc'[q] = "done"
      BY <1>3, <1>5, <1>11, AnswerIs
  <2>3. Whole(mem[q].data) /\ (FS!Stat(p) = FS!File(mem[q].data) \/ FS!RacedBy(q, ops))
      BY <1>11 DEF ReadShape, Written, Whole
  <2>4. FS!Stat(p) = FS!File(mem[q].data) => FS!Stat(p).data = mem[q].data
      BY StoredIs
  <2> QED
      BY <1>1, <1>12, <2>1, <2>2, <2>3, <2>4 DEF ReadShape
<1> QED
    BY <1>7, <1>8, <1>9, <1>10, <1>11 DEF FS!Read

(* The inductive invariant of the readers.                                     *)
Reads == Shaped /\ PartialShape /\ \A r \in Call : ReadShape(r)

(* A request that is not a read has nothing to show for one.                   *)
LEMMA ReadElse ==
    ASSUME Shaped, NEW q \in Call, Alone(q), arg[q].op # "read"
    PROVE  ReadShape(q)'
<1>1. arg'[q].op # "read" /\ pc'[q] \notin {"content", "size"}
    BY DEF Alone, OpOf
<1> QED
    BY <1>1 DEF ReadShape

(* Nor does a request that begins.                                             *)
LEMMA ReadBegun ==
    ASSUME Reads, NEW q \in Call, NEW a \in FS!Arg, FS!Begin(q, a), NEW r \in Call
    PROVE  ReadShape(r)'
<1>1. Shaped /\ ReadShape(r)
    BY DEF Reads
<1>2. CASE r = q
  <2>1. pc'[q] \notin {"content", "size"} /\ answer'[q] # "ok"
    <3>1. FS!First(a.op) \notin {"content", "size"}
        BY ArgIs DEF FS!First, Ops
    <3> QED
        BY <1>1, <3>1, BeginIs
  <2> QED
      BY <1>2, <2>1 DEF ReadShape, FS!Ok
<1>3. CASE r # q
  <2> DEFINE ops == {"write", "rename", "delete"}
  <2>1. /\ arg'[r] = arg[r] /\ mem'[r] = mem[r] /\ pc'[r] = pc[r] /\ answer'[r] = answer[r]
        /\ disk' = disk
      BY <1>1, <1>3, BeginIs
  <2>2. FS!RacedBy(r, ops) => FS!RacedBy(r, ops)'
      BY <1>1, <1>3, RaceBegun
  <2>3. FS!Stat(mem[r].at)' = FS!Stat(mem[r].at)
    <3>1. FS!Stat(mem[r].at)' = FS!Stat(mem'[r].at)
        BY <2>1, SameIs
    <3> QED
        BY <2>1, <3>1
  <2>4. Written(r) => Written(r)'
    <3>1. arg[q].op = "none"
        BY <1>1, BeginIs, OpIs
    <3>2. \A s \in Call : FS!Cut(s) => s # q /\ FS!Cut(s)'
        BY <1>1, <3>1, BeginIs DEF FS!Cut
    <3> QED
        BY <2>1, <3>2 DEF Written
  <2> QED
      BY <1>1, <2>1, <2>2, <2>3, <2>4 DEF ReadShape, FS!Ok
<1> QED
    BY <1>2, <1>3

(* At first nothing has been read.                                             *)
LEMMA ReadsInit == FS!Init => Reads
<1> SUFFICES ASSUME FS!Init PROVE PartialShape /\ \A r \in Call : ReadShape(r)
    BY TypedInit DEF Reads
<1>1. /\ disk \in Disks /\ pc = [r \in Call |-> "none"] /\ arg = [r \in Call |-> FS!NoArg]
    BY DEF FS!Init
<1>2. \A r \in Call : ReadShape(r)
    BY <1>1 DEF ReadShape, FS!NoArg
<1>3. ASSUME NEW p \in Spot, NEW s \in Call PROVE FS!Entry(p) # FS!File(FS!Partial(s))
  <2>1. FS!File(FS!Partial(s)) # FS!Dir /\ FS!File(FS!Partial(s)) # FS!Missing
            /\ FS!Partial(s) \notin FS!Path
      BY ContentIs
  <2>2. CASE p \notin DOMAIN disk
      BY <2>1, <2>2 DEF FS!Entry
  <2>3. CASE p \in DOMAIN disk
    <3>1. \/ disk[p] = FS!Dir
          \/ \E c \in FS!Path : disk[p] = FS!File(c)
          \/ \E n \in Name : disk[p] = FS!Link(<<n>>)
        BY <1>1, <2>3, DisksAssumption
    <3>2. \A c \in FS!Path : FS!File(c) # FS!File(FS!Partial(s))
        BY <2>1, StoredIs
    <3>3. \A c : FS!Link(c) # FS!File(FS!Partial(s))
        BY StoredIs
    <3> QED
        BY <2>1, <2>3, <3>1, <3>2, <3>3 DEF FS!Entry
  <2> QED
      BY <2>2, <2>3
<1>4. \A q \in Call : mem[q].data # FS!Partial(q)
  <2>1. \A q \in Call : mem[q].data = <<>>
      BY DEF FS!Init, FS!NoMem
  <2> QED
      BY <2>1 DEF FS!Partial
<1> QED
    BY <1>2, <1>3, <1>4 DEF PartialShape

(* Every step keeps what a reader relies on.                                   *)
LEMMA ReadsKept == Reads /\ [FS!Next]_FS!vars => Reads'
<1> SUFFICES ASSUME Reads, [FS!Next]_FS!vars PROVE Reads'
    OBVIOUS
<1>1. Shaped /\ PartialShape /\ \A r \in Call : ReadShape(r)
    BY DEF Reads
<1>2. ASSUME NEW q \in Call, NEW a \in FS!Arg, FS!Begin(q, a) PROVE Reads'
  <2>1. Shaped'
      BY <1>1, <1>2, TypedBegun
  <2>2. PartialShape'
    <3>1. disk' = disk /\ \A c \in Call : pc'[c] = "replace" => pc[c] = "replace"
      <4>1. FS!First(a.op) # "replace"
          BY ArgIs DEF FS!First, Ops
      <4> QED
          BY <1>1, <1>2, <4>1, BeginIs
    <3>2. \A p : FS!Entry(p)' = FS!Entry(p)
        BY <3>1, SameIs
    <3>3. /\ pc[q] = "none" /\ arg[q].op = "none" /\ mem'[q].data = mem[q].data
          /\ \A c \in Call \ {q} : mem'[c] = mem[c] /\ arg'[c] = arg[c] /\ pc'[c] = pc[c]
        BY <1>1, <1>2, BeginIs, OpIs
    <3>4. mem[q].data # FS!Partial(q)
        BY <1>1, <3>3 DEF PartialShape
    <3>5. \A c \in Call : FS!Cut(c) => FS!Cut(c)'
        BY <3>3, <3>4 DEF FS!Cut
    <3> QED
        BY <1>1, <3>1, <3>2, <3>3, <3>4, <3>5 DEF PartialShape
  <2>3. \A r \in Call : ReadShape(r)'
      BY <1>2, ReadBegun
  <2> QED
      BY <2>1, <2>2, <2>3 DEF Reads
<1>3. ASSUME NEW q \in Call,
             \/ FS!Read(q) \/ FS!Mkdir(q) \/ FS!Write(q) \/ FS!Delete(q) \/ FS!Rename(q)
             \/ FS!Search(q) \/ FS!Tree(q) \/ FS!Packages(q)
      PROVE  Reads'
  <2>1. Alone(q) /\ Changes(q) /\ Shaped'
      BY <1>1, <1>3, ActiveIs, TypedKept
  <2>4. FS!Write(q) \/ arg[q].op # "write"
      BY <1>1, <1>3, KindOfStep
  <2>2. PartialShape' /\ \A s \in Call : FS!Cut(s) => FS!Cut(s)'
      BY <1>1, <2>1, <2>4, PartialKept, CutKept
  <2>3. ASSUME NEW r \in Call PROVE ReadShape(r)'
    <3>1. CASE r # q
        BY <1>1, <2>1, <2>2, <3>1, ReadOthers
    <3>2. CASE r = q /\ arg[q].op = "read"
      <4>1. FS!Read(q)
          BY <1>1, <1>3, <3>2, KindOfStep
      <4> QED
          BY <1>1, <3>2, <4>1, ReadOwn
    <3>3. CASE r = q /\ arg[q].op # "read"
        BY <1>1, <2>1, <3>3, ReadElse
    <3> QED
        BY <3>1, <3>2, <3>3
  <2> QED
      BY <2>1, <2>2, <2>3 DEF Reads
<1>4. CASE UNCHANGED FS!vars
  <2>1. /\ disk' = disk /\ arg' = arg /\ pc' = pc /\ mem' = mem /\ answer' = answer
        /\ steady' = steady
      BY <1>4 DEF FS!vars
  <2>2. Shaped'
      BY <1>1, <2>1 DEF Shaped, DiskShape, CallTypes, CallShape
  <2>3. PartialShape'
      BY <1>1, <2>1 DEF PartialShape, FS!Entry, FS!Cut
  <2>4. ASSUME NEW r \in Call PROVE ReadShape(r)'
    <3>1. FS!Stat(mem[r].at)' = FS!Stat(mem[r].at)
      <4>1. FS!Stat(mem[r].at)' = FS!Stat(mem'[r].at)
          BY <2>1, SameIs
      <4> QED
          BY <2>1, <4>1
    <3> QED
        BY <1>1, <2>1, <3>1 DEF ReadShape, FS!RacedBy, FS!Ok, Written, FS!Cut
  <2> QED
      BY <2>2, <2>3, <2>4 DEF Reads
<1> QED
    BY <1>2, <1>3, <1>4, StepIs

(* A reader gets a whole content, and its size if the path does not change.    *)
THEOREM ReadersSee == FS!Spec => []ReadersSeeWhole
<1>1. Reads => ReadersSeeWhole
    BY DEF Reads, ReadShape, Written, ReadersSeeWhole, FS!ReadersSeeWhole
<1> QED
    BY <1>1, ReadsInit, ReadsKept, PTL DEF FS!Spec

-----------------------------------------------------------------------------
(* A walk that is left alone keeps what it has before it.                      *)
LEMMA WalkOthers ==
    ASSUME NEW r \in Call, WalkShape(r),
           arg'[r] = arg[r], mem'[r] = mem[r], pc'[r] = pc[r], answer'[r] = answer[r],
           steady'[r] \subseteq steady[r], \A p \in steady'[r] : disk'[p] = disk[p]
    PROVE  WalkShape(r)'
<1>1. Todo(r)' = Todo(r)
    BY DEF Todo
<1>2. \A p \in steady'[r] : Ahead(r, p)' <=> Ahead(r, p)
    BY <1>1 DEF Ahead
<1>3. \A p \in steady'[r] : (Matching(p)' <=> Matching(p)) /\ (Packed(p)' <=> Packed(p))
    BY DEF Matching, Packed
<1>4. FS!Ok(r)' <=> FS!Ok(r)
    BY DEF FS!Ok
<1>5. FreshShape(r)'
    BY <1>1 DEF WalkShape, FreshShape
<1>6. SearchShape(r)'
    BY <1>2, <1>3, <1>4 DEF WalkShape, SearchShape
<1>7. TreeShape(r)'
    BY <1>2, <1>4 DEF WalkShape, TreeShape
<1>8. PackagesShape(r)'
    BY <1>2, <1>3, <1>4 DEF WalkShape, PackagesShape
<1> QED
    BY <1>5, <1>6, <1>7, <1>8 DEF WalkShape

(* A path without noise, and what stat finds where there is no link.           *)
LEMMA CleanIs ==
    ASSUME NEW p \in Spot \ {FS!Top}, FS!Clean(p)
    PROVE  FS!Last(p) \notin Noise /\ (Len(p) = 2 => FS!Last(FS!Front(p)) \notin Noise)
<1>1. CASE \E a : p = <<a>>
  <2>1. PICK a : p = <<a>>
      BY <1>1
  <2>2. 1 \in DOMAIN p /\ p[1] = a
      BY <2>1
  <2> QED
      BY <2>1, <2>2, PathFacts DEF FS!Clean
<1>2. CASE \E a, b : p = <<a, b>>
  <2>1. PICK a, b : p = <<a, b>>
      BY <1>2
  <2>2. 1 \in DOMAIN p /\ p[1] = a /\ 2 \in DOMAIN p /\ p[2] = b
      BY <2>1
  <2> QED
      BY <2>1, <2>2, PathFacts DEF FS!Clean
<1> QED
    BY <1>1, <1>2, PathIs DEF Spot, Site

(* What is on the disk, and no link, is found there.                           *)
LEMMA StatThere ==
    ASSUME DiskShape, NEW p \in DOMAIN disk \ {FS!Top}, disk[p].kind # "link"
    PROVE  FS!Stat(p) = disk[p] /\ FS!Exists(p) /\ FS!Entry(p) = disk[p]
               /\ FS!Entry(FS!Front(p)) = FS!Dir
<1>1. p \in Spot \ {FS!Top} /\ FS!Entry(p) = disk[p] /\ FS!Entry(FS!Front(p)) = FS!Dir
          /\ FS!Entry(p).kind \in Kind
    BY EntryIs, StoredIs DEF DiskShape
<1>2. FS!Follow(FS!Front(p)) = FS!Front(p)
    BY <1>1, StoredIs DEF FS!Follow
<1>3. FS!Place(p) = p
    BY <1>1, <1>2, PlaceAt, SpotIs
<1>4. FS!Entry(p).kind \in {"file", "dir"}
    BY <1>1 DEF Kind
<1>5. FS!Stat(p) = disk[p]
    BY <1>1, <1>3, <1>4, StatIs
<1> QED
    BY <1>1, <1>4, <1>5 DEF FS!Exists

(* All is ahead of a walk that starts.                                         *)
LEMMA RootAhead ==
    ASSUME Shaped, NEW p \in DOMAIN disk \ {FS!Top}
    PROVE  \/ [at |-> p, kind |-> disk[p].kind] \in FS!Listing(FS!Top)
           \/ Len(p) = 2 /\ [at |-> FS!Front(p), kind |-> "dir"] \in FS!Listing(FS!Top)
<1>1. DiskShape /\ p \in Spot \ {FS!Top} /\ FS!Front(p) \in DOMAIN disk
          /\ disk[FS!Front(p)] = FS!Dir
    BY EntryIs DEF Shaped, DiskShape
<1>2. CASE Len(p) = 1
    BY <1>1, <1>2, SpotIs, ListingIs
<1>3. CASE Len(p) = 2
  <2>1. FS!Front(p) \in {<<n>> : n \in Name}
      BY <1>1, <1>3, SpotIs
  <2>2. FS!Front(p) # FS!Top /\ FS!Front(FS!Front(p)) = FS!Top
      BY <2>1, PathFacts
  <2> QED
      BY <1>1, <1>3, <2>2, ListingIs, StoredIs
<1> QED
    BY <1>1, <1>2, <1>3, SpotIs

(* What was ahead of a walk that visits e is e, or still ahead, or in a        *)
(* directory that is not to be listed.                                         *)
LEMMA AheadKept ==
    ASSUME Shaped, NEW q \in Call, NEW l, NEW e, FS!Visits(q, l, e), NEW into \in BOOLEAN,
           mem'[q].todo = FS!After(q, e, into), disk' = disk,
           NEW p \in DOMAIN disk \ {FS!Top}, Ahead(q, p)
    PROVE  \/ p = e.at /\ e.kind = disk[p].kind
           \/ Ahead(q, p)'
           \/ Len(p) = 2 /\ e.at = FS!Front(p) /\ e.kind = "dir" /\ ~into
<1> DEFINE x == [at |-> p, kind |-> disk[p].kind]
           y == [at |-> FS!Front(p), kind |-> "dir"]
           T == UNION FS!ToSet(FS!After(q, e, into))
<1>1. /\ \A z \in Todo(q) : z = e \/ z \in T
      /\ into => FS!Listing(e.at) \subseteq T
    BY AfterIs DEF Todo
<1>2. T = Todo(q)'
    BY DEF Todo
<1>3. x.at = p /\ x.kind = disk[p].kind /\ y.at = FS!Front(p) /\ y.kind = "dir"
    OBVIOUS
<1>4. x \in T => Ahead(q, p)'
    BY <1>2 DEF Ahead
<1>5. Len(p) = 2 /\ y \in T => Ahead(q, p)'
    BY <1>2 DEF Ahead
<1>6. CASE x \in Todo(q)
    BY <1>1, <1>3, <1>4, <1>6
<1>7. CASE Len(p) = 2 /\ y \in Todo(q)
  <2>1. CASE y \in T
      BY <1>5, <1>7, <2>1
  <2>2. CASE y = e /\ into
    <3>1. x \in FS!Listing(e.at)
        BY <1>3, <2>2, ListingIs DEF Shaped
    <3> QED
        BY <1>1, <1>4, <2>2, <3>1
  <2>3. CASE y = e /\ ~into
      BY <1>3, <1>7, <2>3
  <2> QED
      BY <1>1, <1>7, <2>1, <2>2, <2>3
<1> QED
    BY <1>6, <1>7 DEF Ahead

(* A walk has the kinds of what does not change.                               *)
LEMMA FreshKept ==
    ASSUME Shaped, NEW q \in Call, NEW l \in Walking, NEW e, FS!Visits(q, l, e),
           NEW into \in BOOLEAN,
           mem'[q].todo = FS!After(q, e, into), disk' = disk, Steadied, FreshShape(q)
    PROVE  FreshShape(q)'
<1>1. pc[q] \in Walking
    BY DEF FS!Visits
<1>2. \A x \in Todo(q)' : x \in Todo(q) \/ x \in FS!Listing(e.at)
    BY AfterIs DEF Todo
<1>3. \A x \in FS!Listing(e.at) : x.kind = disk[x.at].kind
    BY ListingIs DEF Shaped
<1>4. steady'[q] \subseteq steady[q]
    BY DEF Steadied
<1> QED
    BY <1>1, <1>2, <1>3, <1>4 DEF FreshShape

-----------------------------------------------------------------------------
(* A walk that goes on by itself has found, or has before it, all that was     *)
(* there all the time.                                                         *)
LEMMA NameWalks ==
    ASSUME Shaped, NEW q \in Call, NEW e, NameSeen(q, e), WalkShape(q)
    PROVE  WalkShape(q)'
<1> DEFINE into == e.kind = "dir" /\ ~FS!Skipped(e)
<1>1. /\ Alone(q) /\ disk' = disk /\ arg' = arg /\ arg[q].op = "search" /\ e \in Item
      /\ pc[q] = "names" /\ FS!Visits(q, "names", e) /\ into \in BOOLEAN
      /\ mem'[q].lines = mem[q].lines /\ mem'[q].todo = FS!After(q, e, into)
      /\ mem'[q].found = IF ~FS!Skipped(e) /\ FS!Last(e.at) \in Hit
                            THEN mem[q].found \cup {e.at}
                                                                ELSE mem[q].found
      /\ pc'[q] \in {"names", "done"} /\ answer'[q] # "ok"
    BY NameSeenIs DEF NameSeen, FS!Visits, Alone
<1>2. Steadied /\ steady'[q] \subseteq steady[q] /\ steady[q] \subseteq DOMAIN disk
    BY <1>1 DEF Alone, Steadied, Shaped, CallShape
<1>3. FreshShape(q) /\ SearchShape(q)
    BY DEF WalkShape
<1> HIDE DEF into
<1>4. FreshShape(q)'
  <2>1. CASE pc'[q] = "names"
      BY <1>1, <1>2, <1>3, FreshKept DEF Walking
  <2>2. CASE pc'[q] = "done"
      BY <2>2 DEF FreshShape, Walking
  <2> QED
      BY <1>1, <2>1, <2>2
<1>5. IsFiniteSet(mem'[q].found) /\ IsFiniteSet(mem'[q].lines)
  <2>1. IsFiniteSet(mem[q].found) /\ IsFiniteSet(mem[q].lines)
      BY <1>1, <1>3 DEF SearchShape
  <2>2. /\ IsFiniteSet(mem[q].found \cup {e.at})
        /\ IsFiniteSet(mem[q].lines \cup {e.at})
      BY <2>1, FS_AddElement
  <2> QED
      BY <1>1, <2>1, <2>2
<1>6. ASSUME NEW p \in steady'[q] \ {FS!Top}, Named(p)
      PROVE  p \in mem'[q].found \/ Ahead(q, p)'
  <2>1. p \in steady[q] \ {FS!Top} /\ p \in DOMAIN disk \ {FS!Top} /\ p \in Spot \ {FS!Top}
      BY <1>2, EntryIs DEF Shaped
  <2>2. p \in mem[q].found \/ Ahead(q, p)
      BY <1>1, <1>3, <1>6, <2>1 DEF SearchShape
  <2>3. FS!Last(p) \in Hit /\ FS!Last(p) \notin Noise
            /\ (Len(p) = 2 => FS!Last(FS!Front(p)) \notin Noise)
      BY <1>6, <2>1, CleanIs DEF Named
  <2>4. CASE p \in mem[q].found
      BY <1>1, <2>4
  <2>5. CASE Ahead(q, p)
    <3>1. \/ p = e.at /\ e.kind = disk[p].kind
          \/ Ahead(q, p)'
          \/ Len(p) = 2 /\ e.at = FS!Front(p) /\ e.kind = "dir" /\ ~into
        BY <1>1, <2>1, <2>5, AheadKept
    <3>2. CASE p = e.at
        BY <1>1, <2>3, <3>2 DEF FS!Skipped
    <3>3. CASE Len(p) = 2 /\ e.at = FS!Front(p) /\ e.kind = "dir" /\ ~into
        BY <2>3, <3>3 DEF FS!Skipped, into
    <3> QED
        BY <3>1, <3>2, <3>3
  <2> QED
      BY <2>2, <2>4, <2>5
<1>7. SearchShape(q)'
    BY <1>1, <1>5, <1>6 DEF SearchShape, FS!Ok
<1>8. TreeShape(q)' /\ PackagesShape(q)'
    BY <1>1 DEF TreeShape, PackagesShape
<1> QED
    BY <1>4, <1>7, <1>8 DEF WalkShape

(* A walk that is through has nothing before it.                               *)
LEMMA NothingAhead ==
    ASSUME NEW q \in Call, mem[q].todo = <<>>
    PROVE  \A p : ~Ahead(q, p)
<1>1. FS!ToSet(<<>>) = {}
    BY DEF FS!ToSet
<1>2. Todo(q) = {}
    BY <1>1 DEF Todo
<1> QED
    BY <1>2 DEF Ahead

(* The second half of a search starts at the root.                             *)
LEMMA HalfWalks ==
    ASSUME Shaped, NEW q \in Call, pc[q] = "names", mem[q].todo = <<>> \/ FS!Full(mem[q].found),
           mem' = [mem EXCEPT ![q].todo = FS!Pushed(<<>>, FS!Listing(FS!Top))], FS!Same,
               FS!Goto(q, "contents"),
           WalkShape(q)
    PROVE  WalkShape(q)'
<1>1. /\ Alone(q) /\ disk' = disk /\ arg' = arg /\ arg[q].op = "search"
      /\ mem'[q].found = mem[q].found /\ mem'[q].lines = mem[q].lines
      /\ mem'[q].todo = FS!Pushed(<<>>, FS!Listing(FS!Top))
      /\ pc'[q] = "contents" /\ answer'[q] = "none"
    BY HalfIs DEF Alone
<1>2. Steadied /\ steady'[q] \subseteq steady[q] /\ steady[q] \subseteq DOMAIN disk
    BY <1>1 DEF Alone, Steadied, Shaped, CallShape
<1>3. SearchShape(q)
    BY DEF WalkShape
<1>4. Todo(q)' = FS!Listing(FS!Top)
    BY <1>1, RootIs DEF Todo
<1>5. FreshShape(q)'
  <2>1. \A x \in FS!Listing(FS!Top) : x.kind = disk[x.at].kind
      BY ListingIs DEF Shaped
  <2> QED
      BY <1>1, <1>4, <2>1 DEF FreshShape
<1>6. ASSUME NEW p \in steady'[q] \ {FS!Top}
      PROVE  /\ Named(p) => p \in mem[q].found \/ FS!Full(mem[q].found)
             /\ Ahead(q, p)'
  <2>1. p \in steady[q] \ {FS!Top} /\ p \in DOMAIN disk \ {FS!Top}
      BY <1>2
  <2>2. Named(p) => p \in mem[q].found \/ Ahead(q, p)
      BY <1>1, <1>3, <2>1 DEF SearchShape
  <2>3. Named(p) => p \in mem[q].found \/ FS!Full(mem[q].found)
      BY <2>2, NothingAhead
  <2>4. Ahead(q, p)'
      BY <1>1, <1>4, <2>1, RootAhead DEF Ahead
  <2> QED
      BY <2>3, <2>4
<1>7. SearchShape(q)'
  <2>1. FS!Full(mem[q].found)' <=> FS!Full(mem'[q].found)
      BY DEF FS!Full
  <2>2. FS!Full(mem'[q].found) <=> FS!Full(mem[q].found)
      BY <1>1
  <2> QED
      BY <1>1, <1>3, <1>6, <2>1, <2>2 DEF SearchShape, FS!Ok
<1>8. TreeShape(q)' /\ PackagesShape(q)'
    BY <1>1 DEF TreeShape, PackagesShape
<1> QED
    BY <1>5, <1>7, <1>8 DEF WalkShape

(* A search that visits an entry for its content.                              *)
LEMMA LineWalks ==
    ASSUME Shaped, NEW q \in Call, NEW e, LineSeen(q, e), WalkShape(q)
    PROVE  WalkShape(q)'
<1> DEFINE into == e.kind = "dir"
<1>1. /\ Alone(q) /\ disk' = disk /\ arg' = arg /\ arg[q].op = "search" /\ e \in Item
      /\ pc[q] = "contents" /\ FS!Visits(q, "contents", e) /\ into \in BOOLEAN
      /\ mem'[q].found = mem[q].found /\ mem'[q].todo = FS!After(q, e, into)
      /\ mem'[q].lines = IF Matches(e) THEN mem[q].lines \cup {e.at} ELSE mem[q].lines
      /\ pc'[q] \in {"contents", "done"} /\ answer'[q] # "ok"
    BY LineSeenIs DEF LineSeen, FS!Visits, Alone
<1>2. Steadied /\ steady'[q] \subseteq steady[q] /\ steady[q] \subseteq DOMAIN disk
    BY <1>1 DEF Alone, Steadied, Shaped, CallShape
<1>3. FreshShape(q) /\ SearchShape(q)
    BY DEF WalkShape
<1> HIDE DEF into
<1>4. FreshShape(q)'
  <2>1. CASE pc'[q] = "contents"
      BY <1>1, <1>2, <1>3, FreshKept DEF Walking
  <2>2. CASE pc'[q] = "done"
      BY <2>2 DEF FreshShape, Walking
  <2> QED
      BY <1>1, <2>1, <2>2
<1>5. IsFiniteSet(mem'[q].found) /\ IsFiniteSet(mem'[q].lines)
  <2>1. IsFiniteSet(mem[q].found) /\ IsFiniteSet(mem[q].lines)
      BY <1>1, <1>3 DEF SearchShape
  <2>2. /\ IsFiniteSet(mem[q].found \cup {e.at})
        /\ IsFiniteSet(mem[q].lines \cup {e.at})
      BY <2>1, FS_AddElement
  <2> QED
      BY <1>1, <2>1, <2>2
<1>6. ASSUME NEW p \in steady'[q] \ {FS!Top}
      PROVE  /\ Named(p) => p \in mem[q].found \/ FS!Full(mem[q].found)
             /\ Matching(p) => p \in mem'[q].lines \/ Ahead(q, p)'
  <2>1. p \in steady[q] \ {FS!Top} /\ p \in DOMAIN disk \ {FS!Top}
      BY <1>2
  <2>2. /\ Named(p) => p \in mem[q].found \/ FS!Full(mem[q].found)
        /\ Matching(p) => p \in mem[q].lines \/ Ahead(q, p)
      BY <1>1, <1>3, <2>1 DEF SearchShape
  <2>3. ASSUME Matching(p), Ahead(q, p) PROVE p \in mem'[q].lines \/ Ahead(q, p)'
    <3>1. \/ p = e.at /\ e.kind = disk[p].kind
          \/ Ahead(q, p)'
          \/ Len(p) = 2 /\ e.at = FS!Front(p) /\ e.kind = "dir" /\ ~into
        BY <1>1, <2>1, <2>3, AheadKept
    <3>2. CASE p = e.at /\ e.kind = disk[p].kind
      <4>1. disk[p].kind = "file" /\ FS!Holds(disk[p].data) /\ FS!Last(p) \notin Noise
          BY <2>3 DEF Matching
      <4>2. FS!Stat(p) = disk[p]
          BY <2>1, <4>1, StatThere DEF Shaped
      <4>3. Matches(e)
          BY <3>2, <4>1, <4>2 DEF Matches, Regular, FS!Skipped
      <4> QED
          BY <1>1, <3>2, <4>3
    <3> QED
        BY <3>1, <3>2 DEF into
  <2> QED
      BY <1>1, <2>2, <2>3
<1>7. SearchShape(q)'
  <2>1. FS!Full(mem[q].found)' <=> FS!Full(mem'[q].found)
      BY DEF FS!Full
  <2>2. FS!Full(mem'[q].found) <=> FS!Full(mem[q].found)
      BY <1>1
  <2>3. \A p : Matching(p)' <=> Matching(p)
      BY <1>1 DEF Matching
  <2> QED
      BY <1>1, <1>5, <1>6, <2>1, <2>2, <2>3 DEF SearchShape, FS!Ok
<1>8. TreeShape(q)' /\ PackagesShape(q)'
    BY <1>1 DEF TreeShape, PackagesShape
<1> QED
    BY <1>4, <1>7, <1>8 DEF WalkShape

(* A search that is through has found each line, or enough of them.            *)
LEMMA LastWalks ==
    ASSUME Shaped, NEW q \in Call, mem[q].todo = <<>> \/ FS!Full(mem[q].lines),
           FS!Go(q, "contents", "merge"), WalkShape(q)
    PROVE  WalkShape(q)'
<1>1. /\ Alone(q) /\ disk' = disk /\ mem' = mem /\ arg' = arg /\ arg[q].op = "search"
      /\ pc[q] = "contents" /\ pc'[q] = "merge" /\ answer'[q] = "none"
    BY LastIs DEF Alone
<1>2. steady'[q] \subseteq steady[q]
    BY <1>1 DEF Alone, Steadied
<1>3. SearchShape(q)
    BY DEF WalkShape
<1>4. \A p : ~Ahead(q, p) \/ FS!Full(mem[q].lines)
    BY NothingAhead
<1>5. SearchShape(q)'
  <2>1. /\ FS!Full(mem[q].found)' <=> FS!Full(mem[q].found)
        /\ FS!Full(mem[q].lines)' <=> FS!Full(mem[q].lines)
      BY <1>1 DEF FS!Full
  <2>2. \A p : Matching(p)' <=> Matching(p)
      BY <1>1 DEF Matching
  <2> QED
      BY <1>1, <1>2, <1>3, <1>4, <2>1, <2>2 DEF SearchShape, FS!Ok
<1>6. FreshShape(q)' /\ TreeShape(q)' /\ PackagesShape(q)'
    BY <1>1 DEF FreshShape, TreeShape, PackagesShape, Walking
<1> QED
    BY <1>5, <1>6 DEF WalkShape

(* One Cardinality.                                                            *)
LEMMA SizeIs == \A s : FS!Cardinality(s) = Cardinality(s)
BY DEF Cardinality, FS!Cardinality

(* Many are as many or more of a set with more members.                        *)
LEMMA FullIs ==
    ASSUME NEW s, NEW t, IsFiniteSet(t), s \subseteq t, FS!Full(s)
    PROVE  FS!Full(t)
<1>1. IsFiniteSet(s) /\ Cardinality(s) <= Cardinality(t)
    BY FS_Subset
<1>2. Cardinality(s) \in Nat /\ Cardinality(t) \in Nat
    BY <1>1, FS_CardinalityType
<1> QED
    BY <1>1, <1>2, SizeIs, ResultsAssumption DEF FS!Full

(* The answer of search_all has both, or is full.                              *)
LEMMA MergeWalks ==
    ASSUME Shaped, NEW q \in Call, FS!Merge(q), WalkShape(q)
    PROVE  WalkShape(q)'
<1> DEFINE f == mem[q].found
           g == mem[q].lines
           s == mem'[q].found
<1>1. /\ Alone(q) /\ disk' = disk /\ arg' = arg /\ arg[q].op = "search"
      /\ pc[q] = "merge" /\ pc'[q] = "done" /\ answer'[q] = "ok"
      /\ s \in FS!Merged(f, g) /\ mem'[q].lines = {}
    BY MergeIs DEF Alone
<1>2. steady'[q] \subseteq steady[q]
    BY <1>1 DEF Alone, Steadied
<1>3. SearchShape(q)
    BY DEF WalkShape
<1>4. /\ f \subseteq s /\ s \subseteq f \cup g
      /\ s = f \cup g \/ Cardinality(s) = MaxResults
    BY <1>1, SizeIs DEF FS!Merged
<1>5. IsFiniteSet(s) /\ IsFiniteSet(mem'[q].lines)
  <2>1. IsFiniteSet(f) /\ IsFiniteSet(g)
      BY <1>1, <1>3 DEF SearchShape
  <2>2. IsFiniteSet(f \cup g)
      BY <2>1, FS_Union
  <2> QED
      BY <1>1, <1>4, <2>2, FS_Subset, FS_EmptySet
<1>6. Cardinality(s) = MaxResults => FS!Full(s)
    BY SizeIs, ResultsAssumption DEF FS!Full
<1>7. ASSUME NEW p \in steady[q] \ {FS!Top}, Named(p) \/ Matching(p)
      PROVE  p \in s \/ FS!Full(s)
  <2>1. /\ Named(p) => p \in f \/ FS!Full(f)
        /\ Matching(p) => p \in g \/ FS!Full(g)
      BY <1>1, <1>3 DEF SearchShape
  <2>2. FS!Full(f) => FS!Full(s)
      BY <1>4, <1>5, FullIs
  <2>3. FS!Full(g) => FS!Full(s)
      BY <1>4, <1>5, <1>6, FullIs
  <2> QED
      BY <1>4, <1>6, <1>7, <2>1, <2>2, <2>3
<1>8. SearchShape(q)'
  <2>1. FS!Full(mem[q].found)' <=> FS!Full(s)
      BY DEF FS!Full
  <2>2. \A p : Matching(p)' <=> Matching(p)
      BY <1>1 DEF Matching
  <2> HIDE DEF s
  <2>3. mem'[q].found = s
      BY DEF s
  <2> QED
      BY <1>1, <1>2, <1>5, <1>7, <2>1, <2>2, <2>3 DEF SearchShape
<1>9. FreshShape(q)' /\ TreeShape(q)' /\ PackagesShape(q)'
    BY <1>1 DEF FreshShape, TreeShape, PackagesShape, Walking
<1> QED
    BY <1>8, <1>9 DEF WalkShape

(* get_tree lists what is there.                                               *)
LEMMA TreeWalks ==
    ASSUME Shaped, NEW q \in Call, NEW e, TreeSeen(q, e), WalkShape(q)
    PROVE  WalkShape(q)'
<1> DEFINE into == FS!Entry(e.at).kind = "dir" /\ arg[q].flag
<1>1. /\ Alone(q) /\ disk' = disk /\ arg' = arg /\ arg[q].op = "tree" /\ e \in Item
      /\ pc[q] = "tree" /\ FS!Visits(q, "tree", e) /\ into \in BOOLEAN
      /\ mem'[q].todo = FS!After(q, e, into)
      /\ mem'[q].found = IF FS!Exists(e.at) THEN mem[q].found \cup {e.at} ELSE mem[q].found
      /\ pc'[q] \in {"tree", "fileSize"} /\ answer'[q] = "none"
  <2>1. Alone(q) /\ disk' = disk /\ arg[q].op = "tree" /\ arg' = arg
      BY TreeSeenIs DEF Alone
  <2>2. arg[q].flag \in BOOLEAN
      BY <2>1, FlagIs DEF Alone
  <2> QED
      BY <2>1, <2>2, TreeSeenIs DEF TreeSeen
<1>2. Steadied /\ steady'[q] \subseteq steady[q] /\ steady[q] \subseteq DOMAIN disk
    BY <1>1 DEF Alone, Steadied, Shaped, CallShape
<1>3. FreshShape(q) /\ TreeShape(q)
    BY DEF WalkShape
<1> HIDE DEF into
<1>4. FreshShape(q)'
    BY <1>1, <1>2, <1>3, FreshKept DEF Walking
<1>5. ASSUME NEW p \in steady'[q] \ {FS!Top}, disk[p].kind # "link", arg[q].flag \/ Len(p) = 1
      PROVE  p \in mem'[q].found \/ Ahead(q, p)'
  <2>1. p \in steady[q] \ {FS!Top} /\ p \in DOMAIN disk \ {FS!Top}
      BY <1>2
  <2>2. p \in mem[q].found \/ Ahead(q, p)
      BY <1>1, <1>3, <1>5, <2>1 DEF TreeShape
  <2>3. FS!Exists(p) /\ FS!Entry(FS!Front(p)) = FS!Dir /\ FS!Dir.kind = "dir"
      BY <1>5, <2>1, StatThere, StoredIs DEF Shaped
  <2>4. ASSUME Ahead(q, p) PROVE p \in mem'[q].found \/ Ahead(q, p)'
    <3>1. \/ p = e.at /\ e.kind = disk[p].kind
          \/ Ahead(q, p)'
          \/ Len(p) = 2 /\ e.at = FS!Front(p) /\ e.kind = "dir" /\ ~into
        BY <1>1, <2>1, <2>4, AheadKept
    <3>2. CASE p = e.at
        BY <1>1, <2>3, <3>2
    <3>3. CASE Len(p) = 2 /\ e.at = FS!Front(p) /\ ~into
        BY <1>5, <2>3, <3>3 DEF into
    <3> QED
        BY <3>1, <3>2, <3>3
  <2> QED
      BY <1>1, <2>2, <2>4
<1>6. TreeShape(q)'
    BY <1>1, <1>5 DEF TreeShape
<1>7. SearchShape(q)' /\ PackagesShape(q)'
    BY <1>1 DEF SearchShape, PackagesShape
<1> QED
    BY <1>4, <1>6, <1>7 DEF WalkShape

(* get_tree goes on after the size of a file.                                  *)
LEMMA SizedWalks ==
    ASSUME Shaped, NEW q \in Call, WalkShape(q),
           FS!Check(q, "fileSize", FS!Stat(mem[q].at).kind = "file", "tree", "INTERNAL_ERROR")
    PROVE  WalkShape(q)'
<1>1. /\ Alone(q) /\ disk' = disk /\ mem' = mem /\ arg' = arg /\ arg[q].op = "tree"
      /\ pc[q] = "fileSize"
      /\ \/ pc'[q] = "tree" /\ answer'[q] = "none"
         \/ pc'[q] = "done" /\ answer'[q] = "INTERNAL_ERROR"
    BY SizedIs DEF Alone
<1>2. steady'[q] \subseteq steady[q]
    BY <1>1 DEF Alone, Steadied
<1>3. Todo(q)' = Todo(q) /\ \A p : Ahead(q, p)' <=> Ahead(q, p)
    BY <1>1 DEF Todo, Ahead
<1>4. FreshShape(q)'
    BY <1>1, <1>2, <1>3 DEF WalkShape, FreshShape, Walking
<1>5. TreeShape(q)'
    BY <1>1, <1>2, <1>3 DEF WalkShape, TreeShape, FS!Ok
<1>6. SearchShape(q)' /\ PackagesShape(q)'
    BY <1>1 DEF SearchShape, PackagesShape
<1> QED
    BY <1>4, <1>5, <1>6 DEF WalkShape

(* discover_packages finds what is a package all the time.                     *)
LEMMA PackageWalks ==
    ASSUME Shaped, NEW q \in Call, NEW e, PackageSeen(q, e), WalkShape(q)
    PROVE  WalkShape(q)'
<1> DEFINE into == e.kind = "dir" /\ ~FS!Skipped(e)
<1>1. /\ Alone(q) /\ disk' = disk /\ arg' = arg /\ arg[q].op = "packages" /\ e \in Item
      /\ pc[q] = "packages" /\ FS!Visits(q, "packages", e) /\ into \in BOOLEAN
      /\ mem'[q].todo = FS!After(q, e, into)
      /\ mem'[q].found = IF Package(e) THEN mem[q].found \cup {FS!Front(e.at)} ELSE mem[q].found
      /\ pc'[q] \in {"packages", "done"} /\ answer'[q] # "ok"
    BY PackageSeenIs DEF PackageSeen, FS!Visits, Alone
<1>2. Steadied /\ steady'[q] \subseteq steady[q] /\ steady[q] \subseteq DOMAIN disk
    BY <1>1 DEF Alone, Steadied, Shaped, CallShape
<1>3. FreshShape(q) /\ PackagesShape(q)
    BY DEF WalkShape
<1> HIDE DEF into
<1>4. FreshShape(q)'
  <2>1. CASE pc'[q] = "packages"
      BY <1>1, <1>2, <1>3, FreshKept DEF Walking
  <2>2. CASE pc'[q] = "done"
      BY <2>2 DEF FreshShape, Walking
  <2> QED
      BY <1>1, <2>1, <2>2
<1>5. ASSUME NEW p \in steady'[q] \ {FS!Top}, Packed(p)
      PROVE  FS!Front(p) \in mem'[q].found \/ Ahead(q, p)'
  <2>1. p \in steady[q] \ {FS!Top} /\ p \in DOMAIN disk \ {FS!Top} /\ p \in Spot \ {FS!Top}
      BY <1>2, EntryIs DEF Shaped
  <2>2. FS!Front(p) \in mem[q].found \/ Ahead(q, p)
      BY <1>1, <1>3, <1>5, <2>1 DEF PackagesShape
  <2>3. /\ FS!Last(p) \in Hit /\ disk[p].kind = "file" /\ FS!Holds(disk[p].data)
        /\ Len(p) = 2 => FS!Last(FS!Front(p)) \notin Noise
      BY <1>5, <2>1, CleanIs DEF Packed, Named
  <2>4. ASSUME Ahead(q, p) PROVE FS!Front(p) \in mem'[q].found \/ Ahead(q, p)'
    <3>1. \/ p = e.at /\ e.kind = disk[p].kind
          \/ Ahead(q, p)'
          \/ Len(p) = 2 /\ e.at = FS!Front(p) /\ e.kind = "dir" /\ ~into
        BY <1>1, <2>1, <2>4, AheadKept
    <3>2. CASE p = e.at /\ e.kind = disk[p].kind
      <4>1. FS!Stat(p) = disk[p]
          BY <2>1, <2>3, StatThere DEF Shaped
      <4>2. Package(e)
          BY <2>3, <3>2, <4>1 DEF Package
      <4> QED
          BY <1>1, <3>2, <4>2
    <3>3. CASE Len(p) = 2 /\ e.at = FS!Front(p) /\ e.kind = "dir" /\ ~into
        BY <2>3, <3>3 DEF FS!Skipped, into
    <3> QED
        BY <3>1, <3>2, <3>3
  <2> QED
      BY <1>1, <2>2, <2>4
<1>6. PackagesShape(q)'
  <2>1. \A p : Packed(p)' <=> Packed(p)
      BY <1>1 DEF Packed
  <2> QED
      BY <1>1, <1>5, <2>1 DEF PackagesShape, FS!Ok
<1>7. SearchShape(q)' /\ TreeShape(q)'
    BY <1>1 DEF SearchShape, TreeShape
<1> QED
    BY <1>4, <1>6, <1>7 DEF WalkShape

(* A walk that has nothing before it has found all.                            *)
LEMMA FinishWalks ==
    ASSUME Shaped, NEW q \in Call, NEW l \in {"tree", "packages"}, mem[q].todo = <<>>,
           FS!Finish(q, l), WalkShape(q)
    PROVE  WalkShape(q)'
<1>1. /\ Alone(q) /\ disk' = disk /\ mem' = mem /\ arg' = arg /\ arg[q].op = l
      /\ pc[q] = l /\ pc'[q] = "done" /\ answer'[q] = "ok"
    BY FinishIs DEF Alone
<1>2. steady'[q] \subseteq steady[q]
    BY <1>1 DEF Alone, Steadied
<1>3. \A p : ~Ahead(q, p)
    BY NothingAhead
<1>4. \A p : Packed(p)' <=> Packed(p)
    BY <1>1 DEF Packed
<1>5. TreeShape(q)'
    BY <1>1, <1>2, <1>3 DEF WalkShape, TreeShape
<1>6. PackagesShape(q)'
    BY <1>1, <1>2, <1>3, <1>4 DEF WalkShape, PackagesShape
<1>7. FreshShape(q)' /\ SearchShape(q)'
    BY <1>1 DEF FreshShape, SearchShape, Walking
<1> QED
    BY <1>5, <1>6, <1>7 DEF WalkShape

(* A walk that ends at a link that goes round promises nothing.                *)
LEMMA StoppedWalks ==
    ASSUME Shaped, NEW q \in Call, NEW l \in {"contents", "packages"}, WalkShape(q),
           FS!Stopped(q, l)
    PROVE  WalkShape(q)'
<1>1. /\ mem' = mem /\ arg' = arg /\ pc'[q] = "done" /\ answer'[q] = "INTERNAL_ERROR"
      /\ arg[q].op \in {"search", "packages"}
    BY StoppedIs DEF Alone
<1>2. SearchShape(q)'
    BY <1>1 DEF WalkShape, SearchShape, FS!Ok
<1>3. FreshShape(q)' /\ TreeShape(q)' /\ PackagesShape(q)'
    BY <1>1 DEF FreshShape, TreeShape, PackagesShape, FS!Ok, Walking
<1> QED
    BY <1>2, <1>3 DEF WalkShape

(* Each step of a walk is one of these.                                        *)
LEMMA WalkOwn ==
    ASSUME Shaped, NEW q \in Call, WalkShape(q), FS!Search(q) \/ FS!Tree(q) \/ FS!Packages(q)
    PROVE  WalkShape(q)'
<1>1. CASE FS!ByName(q)
  <2>1. CASE \E e : NameSeen(q, e)
      BY <2>1, NameWalks
  <2>2. CASE /\ pc[q] = "names" /\ (mem[q].todo = <<>> \/ FS!Full(mem[q].found))
             /\ mem' = [mem EXCEPT ![q].todo = FS!Pushed(<<>>, FS!Listing(FS!Top))]
             /\ FS!Same /\ FS!Goto(q, "contents")
      BY <2>2, HalfWalks
  <2> QED
      BY <1>1, <2>1, <2>2 DEF FS!ByName, NameSeen
<1>2. CASE FS!ByContent(q)
  <2>1. CASE \E e : LineSeen(q, e)
      BY <2>1, LineWalks
  <2>2. CASE (mem[q].todo = <<>> \/ FS!Full(mem[q].lines)) /\ FS!Go(q, "contents", "merge")
      BY <2>2, LastWalks
  <2>3. CASE FS!Stopped(q, "contents")
      BY <2>3, StoppedWalks
  <2> QED
      BY <1>2, <2>1, <2>2, <2>3 DEF FS!ByContent, LineSeen, Matches, Regular
<1>3. CASE FS!Tree(q)
  <2>1. CASE \E e : TreeSeen(q, e)
      BY <2>1, TreeWalks
  <2>2. CASE FS!Check(q, "fileSize", FS!Stat(mem[q].at).kind = "file", "tree", "INTERNAL_ERROR")
      BY <2>2, SizedWalks
  <2>3. CASE mem[q].todo = <<>> /\ FS!Finish(q, "tree")
      BY <2>3, FinishWalks
  <2> QED
      BY <1>3, <2>1, <2>2, <2>3 DEF FS!Tree, TreeSeen
<1>4. CASE FS!Packages(q)
  <2>1. CASE \E e : PackageSeen(q, e)
      BY <2>1, PackageWalks
  <2>2. CASE mem[q].todo = <<>> /\ FS!Finish(q, "packages")
      BY <2>2, FinishWalks
  <2>3. CASE FS!Stopped(q, "packages")
      BY <2>3, StoppedWalks
  <2> QED
      BY <1>4, <2>1, <2>2, <2>3 DEF FS!Packages, PackageSeen, Package
<1>5. CASE FS!Merge(q)
    BY <1>5, MergeWalks
<1> QED
    BY <1>1, <1>2, <1>3, <1>4, <1>5 DEF FS!Search

(* A request that is no walk has nothing to find.                              *)
LEMMA WalkElse ==
    ASSUME Shaped, NEW q \in Call, Alone(q), arg[q].op \notin {"search", "tree", "packages"}
    PROVE  WalkShape(q)'
<1>1. /\ arg'[q].op \notin {"search", "tree", "packages"}
      /\ pc'[q] \notin Walking
    BY DEF Alone, OpOf, Walking, Ops
<1> QED
    BY <1>1 DEF WalkShape, FreshShape, SearchShape, TreeShape, PackagesShape

(* A walk that begins has all before it.                                       *)
LEMMA WalkBegun ==
    ASSUME Shaped, NEW q \in Call, NEW a \in FS!Arg, FS!Begin(q, a), NEW r \in Call,
           WalkShape(r)
    PROVE  WalkShape(r)'
<1>1. CASE r # q
  <2>1. /\ disk' = disk
        /\ arg'[r] = arg[r] /\ mem'[r] = mem[r] /\ pc'[r] = pc[r] /\ answer'[r] = answer[r]
        /\ steady'[r] = steady[r]
      BY <1>1, BeginIs
  <2> QED
      BY <2>1, WalkOthers
<1>2. CASE r = q /\ a.op \notin FS!Walks
  <2>1. /\ arg'[q].op \notin {"search", "tree", "packages"}
        /\ pc'[q] \notin Walking
      BY <1>2, ArgIs, BeginIs DEF FS!Walks, Walking, FS!First, Ops
  <2> QED
      BY <1>2, <2>1 DEF WalkShape, FreshShape, SearchShape, TreeShape, PackagesShape
<1>3. CASE r = q /\ a.op \in FS!Walks
  <2>1. /\ disk' = disk /\ arg'[q] = a /\ steady'[q] = DOMAIN disk
        /\ mem'[q].todo = FS!Pushed(<<>>, FS!Listing(FS!Top))
        /\ mem'[q].found = {} /\ mem'[q].lines = {}
        /\ pc'[q] = FS!First(a.op) /\ answer'[q] = "none"
    <3>1. pc[q] = "none" /\ mem[q].found = {} /\ mem[q].lines = {}
        BY BeginIs DEF Shaped, CallShape
    <3>2. a.op \notin FS!MustExist
        BY <1>3 DEF FS!Walks, FS!MustExist
    <3> QED
        BY <1>3, <3>1, <3>2, BeginIs
  <2>2. Todo(q)' = FS!Listing(FS!Top)
      BY <2>1, RootIs DEF Todo
  <2>3. \A p \in DOMAIN disk \ {FS!Top} : Ahead(q, p)'
      BY <2>1, <2>2, RootAhead DEF Ahead
  <2>4. FreshShape(q)'
    <3>1. \A x \in FS!Listing(FS!Top) : x.kind = disk[x.at].kind
        BY ListingIs DEF Shaped
    <3> QED
        BY <2>1, <2>2, <3>1 DEF FreshShape
  <2>5. a.op \in {"search", "tree", "packages"}
      BY <1>3 DEF FS!Walks
  <2>6. SearchShape(q)'
      BY <2>1, <2>3, <2>5, FS_EmptySet DEF SearchShape, FS!First, FS!Ok
  <2>7. TreeShape(q)' /\ PackagesShape(q)'
      BY <2>1, <2>3, <2>5 DEF TreeShape, PackagesShape, FS!First, FS!Ok
  <2> QED
      BY <1>3, <2>4, <2>6, <2>7 DEF WalkShape
<1> QED
    BY <1>1, <1>2, <1>3

(* The inductive invariant of the walks.                                       *)
Walked == Shaped /\ \A r \in Call : WalkShape(r)

(* A walk finds each file that is there all the time.                          *)
THEOREM WalksFind == FS!Spec => []UndisturbedFound
<1>1. FS!Init => Walked
  <2> SUFFICES ASSUME FS!Init PROVE \A r \in Call : WalkShape(r)
      BY TypedInit DEF Walked
  <2>1. pc = [r \in Call |-> "none"] /\ arg = [r \in Call |-> FS!NoArg]
      BY DEF FS!Init
  <2> QED
      BY <2>1 DEF WalkShape, FreshShape, SearchShape, TreeShape, PackagesShape, Walking,
         FS!NoArg
<1>2. Walked /\ [FS!Next]_FS!vars => Walked'
  <2> SUFFICES ASSUME Walked, [FS!Next]_FS!vars PROVE Walked'
      OBVIOUS
  <2>1. Shaped /\ \A r \in Call : WalkShape(r)
      BY DEF Walked
  <2>2. ASSUME NEW q \in Call, NEW a \in FS!Arg, FS!Begin(q, a) PROVE Walked'
      BY <2>1, <2>2, TypedBegun, WalkBegun DEF Walked
  <2>3. ASSUME NEW q \in Call,
               \/ FS!Read(q) \/ FS!Mkdir(q) \/ FS!Write(q) \/ FS!Delete(q) \/ FS!Rename(q)
               \/ FS!Search(q) \/ FS!Tree(q) \/ FS!Packages(q)
        PROVE  Walked'
    <3>1. Alone(q) /\ Changes(q) /\ Shaped'
        BY <2>1, <2>3, ActiveIs, TypedKept
    <3>2. ASSUME NEW r \in Call \ {q} PROVE WalkShape(r)'
      <4>1. /\ arg'[r] = arg[r] /\ mem'[r] = mem[r] /\ pc'[r] = pc[r] /\ answer'[r] = answer[r]
            /\ steady'[r] \subseteq steady[r] /\ \A p \in steady'[r] : disk'[p] = disk[p]
          BY <3>1 DEF Alone, Held, Steadied
      <4> QED
          BY <2>1, <4>1, WalkOthers
    <3>3. WalkShape(q)'
      <4>1. CASE arg[q].op \in {"search", "tree", "packages"}
        <5>1. FS!Search(q) \/ FS!Tree(q) \/ FS!Packages(q)
            BY <2>1, <2>3, <4>1, KindOfStep
        <5> QED
            BY <2>1, <5>1, WalkOwn
      <4>2. CASE arg[q].op \notin {"search", "tree", "packages"}
          BY <2>1, <3>1, <4>2, WalkElse
      <4> QED
          BY <4>1, <4>2
    <3> QED
        BY <3>1, <3>2, <3>3 DEF Walked
  <2>4. CASE UNCHANGED FS!vars
    <3>1. /\ disk' = disk /\ arg' = arg /\ pc' = pc /\ mem' = mem /\ answer' = answer
          /\ steady' = steady
        BY <2>4 DEF FS!vars
    <3>2. Shaped'
        BY <2>1, <3>1 DEF Shaped, DiskShape, CallTypes, CallShape
    <3>3. \A r \in Call : WalkShape(r)'
        BY <2>1, <3>1, WalkOthers
    <3> QED
        BY <3>2, <3>3 DEF Walked
  <2> QED
      BY <2>2, <2>3, <2>4, StepIs
<1>3. Walked => UndisturbedFound
  <2> SUFFICES ASSUME Walked, NEW r \in Call, FS!Ok(r), NEW p \in steady[r] \ {FS!Top},
          FS!Due(r, p)
               PROVE  FS!Reported(r, p) \in mem[r].found
      BY DEF UndisturbedFound, FS!UndisturbedFound
  <2>1. pc[r] = "done" /\ WalkShape(r)
      BY DEF Walked, Shaped, CallShape, FS!Ok
  <2>2. CASE arg[r].op = "search"
    <3>1. ~FS!Full(mem[r].found) /\ (Named(p) \/ Matching(p))
        BY <2>2 DEF FS!Due, Named, Matching
    <3>2. p \in mem[r].found
        BY <2>1, <2>2, <3>1 DEF WalkShape, SearchShape
    <3> QED
        BY <2>2, <3>2 DEF FS!Reported
  <2>3. CASE arg[r].op = "tree"
    <3>1. disk[p].kind # "link" /\ (arg[r].flag \/ Len(p) = 1)
        BY <2>3 DEF FS!Due
    <3>2. p \in mem[r].found
        BY <2>1, <2>3, <3>1 DEF WalkShape, TreeShape
    <3> QED
        BY <2>3, <3>2 DEF FS!Reported
  <2>4. CASE arg[r].op = "packages"
    <3>1. Packed(p)
        BY <2>4 DEF FS!Due, Packed, Named
    <3>2. FS!Front(p) \in mem[r].found
        BY <2>1, <2>4, <3>1 DEF WalkShape, PackagesShape
    <3> QED
        BY <2>4, <3>2 DEF FS!Reported
  <2>5. arg[r].op \in {"search", "tree", "packages"}
      BY DEF FS!Due
  <2> QED
      BY <2>2, <2>3, <2>4, <2>5
<1> QED
    BY <1>1, <1>2, <1>3, PTL DEF FS!Spec

-----------------------------------------------------------------------------
(* What only others can do to a request stays what it was as it goes on.       *)
LEMMA StrayIs ==
    ASSUME Shaped, NEW q \in Call, Alone(q)
    PROVE  \A r \in Call : (Strayed(r)' <=> Strayed(r)) /\ (Prepared(r)' <=> Prepared(r))
<1>1. arg' = arg /\ \A r \in Call : mem'[r].after = mem[r].after
    BY RaceIs DEF Alone
<1>2. \A s \in Call : arg[s].op = "write" => mem'[s].at = mem[s].at
    BY DEF Alone, Held
<1>3. \A r \in Call : FS!RacedBy(r, {"rename"})' <=> FS!RacedBy(r, {"rename"})
    BY RaceIs
<1>4. \A r \in Call : FS!Relinked(r)' <=> FS!Relinked(r)
    BY <1>1 DEF FS!Relinked
<1>5. \A r \in Call : Prepared(r)' <=> Prepared(r)
    BY <1>1, <1>2 DEF Prepared
<1> QED
    BY <1>3, <1>4, <1>5 DEF Strayed

(* A request that begins leaves to the others what they have met.              *)
LEMMA StrayBegun ==
    ASSUME Shaped, NEW q \in Call, NEW a \in FS!Arg, FS!Begin(q, a), NEW r \in Call \ {q}
    PROVE  (Strayed(r) => Strayed(r)') /\ (Prepared(r) => Prepared(r)')
<1>1. arg[q].op = "none"
    BY BeginIs, OpIs
<1>2. \A s \in Call \ {q} : mem'[s] = mem[s] /\ arg'[s] = arg[s]
    BY BeginIs
<1>3. FS!RacedBy(r, {"rename"}) => FS!RacedBy(r, {"rename"})'
    BY RaceBegun
<1>4. FS!Relinked(r) => FS!Relinked(r)'
    BY <1>1, <1>2 DEF FS!Relinked
<1>5. Prepared(r) => Prepared(r)'
    BY <1>1, <1>2 DEF Prepared
<1> QED
    BY <1>3, <1>4, <1>5 DEF Strayed

(* Only mkdir, a write that makes the parent, and rename put a directory or a  *)
(* link where there was none.                                                  *)
LEMMA NoneMade ==
    ASSUME Shaped, NEW q \in Call, Changes(q), ~Makes(q), ~Renames(q)
    PROVE  \A p : FS!Entry(p)'.kind \in {"dir", "link"} => FS!Entry(p)' = FS!Entry(p)
<1>1. \A c : FS!File(c).kind \notin {"dir", "link"} /\ FS!Missing.kind \notin {"dir", "link"}
    BY StoredIs
<1>2. CASE Leaves(q) \/ Cuts(q)
    BY <1>2, LeavesIs
<1>3. CASE arg[q].op = "write" /\ Opens(q)
    BY <1>1, <1>3, OpensIs DEF Put
<1>4. CASE Fills(q)
    BY <1>1, <1>4, FillsIs DEF Completes
<1>5. CASE arg[q].op = "write" /\ Drops(q)
    BY <1>1, <1>5, DropsIs DEF Put
<1>6. CASE arg[q].op = "write" /\ Replaces(q)
    BY <1>1, <1>6, ReplacesIs DEF Carried
<1>7. CASE Removes(q)
    BY <1>1, <1>7, RemovesIs DEF Put
<1> QED
    BY <1>2, <1>3, <1>4, <1>5, <1>6, <1>7 DEF Changes

(* No request makes an entry with the temporary name of another.               *)
LEMMA TempsAre ==
    ASSUME Shaped, NEW r \in Call
    PROVE  \A p : p \in Temps(r) <=> p # FS!Top /\ FS!Last(p) = r /\ FS!Entry(p) # FS!Missing
BY EntryIs DEF Temps, Shaped

(* Only a write of its own, or a rename, brings a temporary file about.        *)
LEMMA TempsKept ==
    ASSUME Shaped, Shaped', NEW q \in Call, Changes(q), NEW r \in Call, r = q => ~Opens(q)
    PROVE  /\ Temps(r)' \subseteq Temps(r) \/ Renames(q)
           /\ Temps(r) = {} => Temps(r)' = {}
<1>1. \A p : p \in Temps(r) <=> p # FS!Top /\ FS!Last(p) = r /\ FS!Entry(p) # FS!Missing
    BY TempsAre
<1>2. \A p : p \in Temps(r)' <=> p # FS!Top /\ FS!Last(p) = r /\ FS!Entry(p)' # FS!Missing
  <2>1. DiskShape'
      BY DEF Shaped
  <2>2. \A p : p \in DOMAIN disk' <=> FS!Entry(p)' # FS!Missing
      BY <2>1, StoredIs DEF DiskShape, FS!Entry
  <2> QED
      BY <2>2 DEF Temps
<1>3. \A x \in FS!Path : FS!Last(x) # r
    BY SpotIs, NamesAssumption
<1>4. CASE Leaves(q) \/ Cuts(q)
    BY <1>1, <1>2, <1>4, LeavesIs
<1>5. CASE Makes(q)
    BY <1>1, <1>2, <1>3, <1>5, MakesIs DEF Put
<1>6. CASE arg[q].op = "write" /\ Opens(q)
    BY <1>1, <1>2, <1>6, OpensIs, FileIs DEF Put
<1>7. CASE Fills(q)
  <2>1. \A p : FS!Entry(p)' # FS!Missing => FS!Entry(p) # FS!Missing
      BY <1>7, FillsIs, ContentIs DEF Completes
  <2> QED
      BY <1>1, <1>2, <2>1
<1>8. CASE arg[q].op = "write" /\ Drops(q)
    BY <1>1, <1>2, <1>8, DropsIs DEF Put
<1>9. CASE arg[q].op = "write" /\ Replaces(q)
  <2>1. FS!Place(mem[q].at) \in FS!Path
      BY <1>9, FileIs
  <2> QED
      BY <1>1, <1>2, <1>3, <1>9, <2>1, ReplacesIs DEF Carried
<1>10. CASE Removes(q)
    BY <1>1, <1>2, <1>10, RemovesIs DEF Put
<1>11. CASE Renames(q)
  <2>1. ASSUME NEW p \in Temps(r)' PROVE Temps(r) # {}
    <3>1. p \in DOMAIN disk' \ {FS!Top} /\ FS!Last(p) = r /\ r \notin Name
        BY <2>1, NamesAssumption DEF Temps
    <3>2. PICK o \in DOMAIN disk \ {FS!Top} : FS!Last(p) = FS!Last(o)
        BY <1>11, <3>1, RenamesIs
    <3> QED
        BY <3>1, <3>2 DEF Temps
  <2> QED
      BY <1>11, <2>1
<1> QED
    BY <1>4, <1>5, <1>6, <1>7, <1>8, <1>9, <1>10, <1>11 DEF Changes

(* A link where a write is to leave its file leads to a directory only if one  *)
(* was made there meanwhile.                                                   *)
LEMMA LinkOthers ==
    ASSUME Shaped, NEW q \in Call, Alone(q), Changes(q), NEW r \in Call, LinkShape(r),
           r = q => ~Renames(q)
    PROVE  LinkShape(r)'
<1> SUFFICES ASSUME arg[r].op = "write", pc'[r] # "done"
             PROVE  \/ ~Linked(r)' \/ FS!Entry(FS!Follow(FS!Front(mem[r].at)))'.kind # "dir"
                    \/ Prepared(r)' \/ FS!RacedBy(r, {"rename"})'
    BY DEF LinkShape, Alone
<1>1. mem'[r].at = mem[r].at /\ pc[r] # "done"
    BY DEF Alone, Held, Active
<1>2. /\ \/ ~Linked(r) \/ FS!Entry(FS!Follow(FS!Front(mem[r].at))).kind # "dir"
         \/ Prepared(r) \/ FS!RacedBy(r, {"rename"})
    BY <1>1 DEF LinkShape
<1>3. PICK d : d = FS!Front(mem[r].at)
    OBVIOUS
<1>4. /\ Linked(r) <=> FS!Entry(d).kind = "link"
      /\ Linked(r)' <=> FS!Entry(d)'.kind = "link"
      /\ FS!Entry(FS!Follow(FS!Front(mem[r].at))) = FS!Entry(FS!Follow(d))
      /\ FS!Entry(FS!Follow(FS!Front(mem[r].at)))' = FS!Entry(FS!Follow(d))'
    BY <1>1, <1>3 DEF Linked
<1>5. (Prepared(r)' <=> Prepared(r)) /\ (FS!RacedBy(r, {"rename"})' <=> FS!RacedBy(r, {"rename"}))
    BY StrayIs, RaceIs
<1>6. CASE Renames(q)
  <2>1. FS!RacedBy(r, {"rename"})
      BY <1>6, RaceIs DEF Renames
  <2> QED
      BY <1>5, <2>1
<1>7. CASE Makes(q) /\ q # r
  <2>1. Prepared(r)
      BY <1>7, RaceIs DEF Makes, Prepared
  <2> QED
      BY <1>5, <2>1
<1>8. CASE Makes(q) /\ q = r
  <2>1. FS!Entry(d)' = FS!Dir
      BY <1>3, <1>8, MakesIs DEF Put
  <2> QED
      BY <1>4, <2>1, StoredIs
<1>9. CASE ~Makes(q) /\ ~Renames(q)
  <2>1. \A p : FS!Entry(p)'.kind \in {"dir", "link"} => FS!Entry(p)' = FS!Entry(p)
      BY <1>9, NoneMade
  <2>2. FS!Entry(d)'.kind = "link" => FS!Entry(d)' = FS!Entry(d) /\ FS!Follow(d)' = FS!Follow(d)
      BY <2>1 DEF FS!Follow
  <2>3. FS!Entry(d)'.kind = "link" => FS!Entry(FS!Follow(d))' = FS!Entry(FS!Follow(d))'
      OBVIOUS
  <2>4. ASSUME FS!Entry(d)'.kind = "link", FS!Entry(FS!Follow(d))'.kind = "dir"
        PROVE  FS!Entry(d).kind = "link" /\ FS!Entry(FS!Follow(d)).kind = "dir"
    <3>1. PICK t : t = FS!Follow(d)
        OBVIOUS
    <3>2. FS!Follow(d)' = t
        BY <2>2, <2>4, <3>1
    <3>3. FS!Entry(t)' = FS!Entry(FS!Follow(d))'
        BY <3>2
    <3> QED
        BY <2>1, <2>2, <2>4, <3>1, <3>3
  <2> QED
      BY <1>2, <1>4, <1>5, <2>4
<1> QED
    BY <1>6, <1>7, <1>8, <1>9

(* Where a write looks for its temporary file depends on its parent only.      *)
LEMMA FileOfNext ==
    ASSUME DiskShape, NEW r \in Call, mem[r].at \in FS!Path, mem'[r].at = mem[r].at,
           FS!Follow(FS!Front(mem[r].at))' = FS!Follow(FS!Front(mem[r].at))
    PROVE  FS!FileOf(r)' = FS!FileOf(r)
<1>1. FS!Front(mem[r].at) \in Dirs
    BY PlaceIs
<1>2. FS!Temp(r) # FS!Top /\ FS!Front(FS!Temp(r)) = FS!Front(mem[r].at)
          /\ FS!Last(FS!Temp(r)) = r
    BY <1>1, InSite DEF FS!Temp, Dirs
<1>3. FS!Temp(r)' = FS!Temp(r)
    BY DEF FS!Temp
<1>4. FS!FileOf(r) = Append(FS!Follow(FS!Front(mem[r].at)), r)
    BY <1>2 DEF FS!FileOf, FS!Place
<1>5. FS!FileOf(r)' = Append(FS!Follow(FS!Front(mem[r].at))', r)
  <2>1. PICK x, d : x = FS!Temp(r) /\ d = FS!Front(mem[r].at) /\ x # FS!Top /\ FS!Front(x) = d
            /\ FS!Last(x) = r
      BY <1>2
  <2>2. FS!FileOf(r)' = FS!Place(x)'
      BY <1>3, <2>1 DEF FS!FileOf
  <2>3. FS!Place(x)' = Append(FS!Follow(d)', r)
      BY <2>1 DEF FS!Place
  <2>4. FS!Follow(d)' = FS!Follow(FS!Front(mem[r].at))'
      BY <2>1
  <2> QED
      BY <2>2, <2>3, <2>4
<1> QED
    BY <1>4, <1>5

(* A write that waits for its turn looks for its temporary file where it left  *)
(* it, unless a rename moved it or the link that led there is another now.     *)
LEMMA FileOfKept ==
    ASSUME Shaped, Shaped', NEW q \in Call, Alone(q), Changes(q), NEW r \in Call \ {q},
           pc[r] \in {"fill", "replace"}, LinkShape(r), ~Strayed(r),
           NEW f, f = FS!FileOf(r), FS!Entry(f) # FS!Missing, FS!Entry(f)' # FS!Missing
    PROVE  FS!FileOf(r)' = f
<1>1. arg[r].op = "write" /\ pc[r] # "done" /\ mem'[r] = mem[r] /\ mem[r].at \in FS!Path
    BY OpIs DEF Alone, Held
<1>2. PICK d, t : d = FS!Front(mem[r].at) /\ t = FS!Follow(d) /\ d \in Dirs /\ t \in Dirs
    BY <1>1, FileOfIs DEF Shaped
<1>3. f # FS!Top /\ FS!Front(f) = t /\ DiskShape /\ DiskShape'
    BY <1>1, <1>2, FileIs DEF Shaped
<1>4. FS!Entry(t) = FS!Dir /\ FS!Entry(t)' = FS!Dir
  <2>1. f \in DOMAIN disk /\ f \in DOMAIN disk'
      BY DEF FS!Entry
  <2> QED
      BY <1>3, <2>1 DEF DiskShape, FS!Entry
<1>5. ~FS!RacedBy(r, {"rename"}) /\ ~FS!Relinked(r)
    BY DEF Strayed
<1>6. ~Renames(q)
    BY <1>5, RaceIs DEF Renames
<1>7. FS!Follow(d)' = t
  <2>1. CASE FS!Entry(d).kind # "link"
    <3>1. d = t
        BY <1>2, <2>1 DEF FS!Follow
    <3> QED
        BY <1>4, <3>1, StoredIs DEF FS!Follow
  <2>2. CASE FS!Entry(d).kind = "link" /\ FS!Entry(d)' = FS!Entry(d)
      BY <1>2, <2>2 DEF FS!Follow
  <2>3. CASE FS!Entry(d).kind = "link" /\ FS!Entry(d)' # FS!Entry(d)
    <3>1. Prepared(r)
      <4>1. Linked(r) /\ FS!Entry(FS!Follow(FS!Front(mem[r].at))).kind = "dir"
          BY <1>2, <1>4, <2>3, StoredIs DEF Linked
      <4> QED
          BY <1>1, <1>5, <4>1 DEF LinkShape
    <3>2. PICK s \in Call \ (mem[r].after \cup {r}) :
              arg[s].op = "mkdir" \/ (arg[s].op = "write" /\ Len(mem[s].at) = 2)
        BY <3>1 DEF Prepared
    <3>3. q \notin mem[r].after \cup {r}
        BY RaceIs
    <3>4. arg[q].op = "delete" \/ (arg[q].op = "write" /\ Len(mem[q].at) = 1)
      <4>1. CASE Leaves(q) \/ Cuts(q)
          BY <2>3, <4>1, LeavesIs
      <4>2. CASE Makes(q)
          BY <2>3, <4>2, MakesIs, StoredIs DEF Put
      <4>3. CASE arg[q].op = "write" /\ Opens(q)
          BY <1>2, <2>3, <4>3, OpensIs, FileIs DEF Put
      <4>4. CASE Fills(q)
          BY <2>3, <4>4, FillsIs, StoredIs DEF Completes
      <4>5. CASE arg[q].op = "write" /\ Drops(q)
          BY <1>2, <2>3, <4>5, DropsIs, FileIs DEF Put
      <4>6. CASE arg[q].op = "write" /\ Replaces(q)
        <5>1. d = FS!Place(mem[q].at)
            BY <1>2, <2>3, <4>6, ReplacesIs, FileIs DEF Carried
        <5>2. Len(d) = Len(mem[q].at) /\ Len(d) = 1
          <6>1. d # FS!Top
              BY <1>3, <2>3, EntryIs, StoredIs
          <6>2. Len(d) = 1
              BY <1>2, <6>1, PathFacts DEF Dirs
          <6> QED
              BY <1>3, <4>6, <5>1, <6>2, FileIs, PlaceIs
        <5> QED
            BY <4>6, <5>2
      <4>7. CASE Removes(q)
          BY <4>7 DEF Removes
      <4> QED
          BY <1>6, <4>1, <4>2, <4>3, <4>4, <4>5, <4>6, <4>7 DEF Changes
    <3>5. q # s
        BY <3>2, <3>4
    <3> QED
        BY <1>5, <3>2, <3>3, <3>4, <3>5 DEF FS!Relinked
  <2> QED
      BY <2>1, <2>2, <2>3
<1>8. FS!Follow(FS!Front(mem[r].at))' = FS!Follow(FS!Front(mem[r].at))
  <2>1. FS!Front(mem[r].at)' = d
      BY <1>1, <1>2
  <2> QED
      BY <1>2, <1>7, <2>1
<1> QED
    BY <1>1, <1>3, <1>8, FileOfNext

(* The temporary file of a write that waits.                                   *)
LEMMA TempOthers ==
    ASSUME Shaped, Shaped', NEW q \in Call, Alone(q), Changes(q), NEW r \in Call \ {q},
           TempShape(r), LinkShape(r)
    PROVE  TempShape(r)'
<1>1. pc'[r] = pc[r] /\ mem'[r] = mem[r] /\ (Strayed(r)' <=> Strayed(r))
    BY StrayIs DEF Alone, Held
<1>2. Temps(r) = {} => Temps(r)' = {}
    BY TempsKept
<1>3. CASE Strayed(r)
    BY <1>1, <1>2, <1>3 DEF TempShape
<1>4. CASE ~Strayed(r)
  <2>1. ~Renames(q)
      BY <1>4, RaceIs DEF Renames, Strayed
  <2>2. Temps(r)' \subseteq Temps(r)
      BY <2>1, TempsKept
  <2>3. ASSUME pc[r] \in {"fill", "replace"} PROVE Temps(r)' \subseteq {FS!FileOf(r)'}
    <3>1. SUFFICES ASSUME NEW p \in Temps(r)' PROVE p = FS!FileOf(r)'
        OBVIOUS
    <3>2. PICK f : f = FS!FileOf(r)
        OBVIOUS
    <3>3. p = f
        BY <1>4, <2>2, <2>3, <3>2 DEF TempShape
    <3>4. FS!Entry(f) # FS!Missing
        BY <2>2, <3>3, TempsAre
    <3>5. FS!Entry(f)' # FS!Missing
      <4>1. p \in DOMAIN disk' \ {FS!Top}
          BY DEF Temps
      <4>2. disk'[p] \in Stored
          BY <4>1 DEF Shaped, DiskShape
      <4> QED
          BY <3>3, <4>1, <4>2, StoredIs DEF FS!Entry
    <3> QED
        BY <1>4, <2>3, <3>2, <3>3, <3>4, <3>5, FileOfKept
  <2> QED
      BY <1>1, <1>2, <1>4, <2>2, <2>3 DEF TempShape
<1> QED
    BY <1>3, <1>4

-----------------------------------------------------------------------------
(* The steps of write_file, one by one.                                        *)
Looks(q) ==
    /\ pc[q] = "parent" /\ disk' = disk /\ mem' = mem
    /\ pc'[q] \in {"exists", "parents", "done"} /\ answer'[q] # "ok"
Settles(q) ==
    /\ pc[q] = "parents" /\ mem' = mem /\ (Leaves(q) \/ Makes(q))
    /\ pc'[q] \in {"exists", "done"} /\ answer'[q] # "ok"
Decides(q) ==
    /\ pc[q] = "exists" /\ disk' = disk /\ pc'[q] = "open" /\ answer'[q] = "none"
    /\ mem'[q].at = mem[q].at /\ mem'[q].fresh = ~FS!Exists(mem[q].at)
Fails(q) == pc[q] \in {"exists", "open"} /\ disk' = disk /\ pc'[q] = "done" /\ answer'[q] # "ok"
Ends(q) ==
    /\ Replaces(q) /\ mem'[q].fresh = mem[q].fresh
    /\ mem'[q].over = FS!Entry(FS!Place(mem[q].at))

(* write_file takes one of these steps.                                        *)
LEMMA WritesAre ==
    ASSUME Shaped, NEW q \in Call, FS!Write(q)
    PROVE  /\ Alone(q) /\ Changes(q) /\ arg[q].op = "write"
           /\ \/ Looks(q) \/ Settles(q) \/ Decides(q) \/ Fails(q) \/ Ends(q)
              \/ Opens(q) /\ mem' = mem /\ answer'[q] # "ok"
              \/ (Fills(q) \/ Cuts(q) \/ Drops(q)) /\ answer'[q] # "ok"
<1> DEFINE p == mem[q].at
<1>1. /\ Alone(q) /\ Changes(q) /\ arg[q].op = "write" /\ Active(q) /\ CallTypes
      /\ answer[q] = "none"
  <2>1. \/ pc[q] \in {"parent", "exists", "open", "fill", "replace"}
        \/ pc[q] = "parents" /\ arg[q].op = "write"
      BY DEF FS!Write, FS!Check, FS!Parents
  <2> QED
      BY <2>1, WritesIs, OpIs DEF Active, Shaped
<1>2. /\ {"parents", "exists", "open", "fill", "replace"} \subseteq Label \ {"none", "done"}
      /\ \A l \in {"parents", "exists", "open", "fill", "replace"} : arg[q].op \in OpOf(l)
      /\ {"ok", "FS_PATH_NOT_FOUND", "FS_WRITE_FAILED", "INTERNAL_ERROR"} \subseteq Code
      /\ FS!Whole(q) \in Content /\ FS!Partial(q) \in Content
    BY <1>1 DEF Label, OpOf, Code, Content
<1>3. /\ \A l \in Label : FS!Goto(q, l) => pc'[q] = l /\ answer'[q] = "none"
      /\ \A c \in Code : FS!Answer(q, c) => pc'[q] = "done" /\ answer'[q] = c
    BY <1>1, GotoIs, AnswerIs
<1>4. CASE FS!Check(q, "parent",
                 FS!Exists(FS!Front(p)) \/ (arg[q].flag /\ ~FS!Loops(FS!Front(p))),
                 IF FS!Exists(FS!Front(p)) THEN "exists" ELSE "parents",
                 FS!Thrown(FS!Front(p), "FS_PATH_NOT_FOUND"))
  <2> DEFINE next == IF FS!Exists(FS!Front(p)) THEN "exists" ELSE "parents"
             code == FS!Thrown(FS!Front(p), "FS_PATH_NOT_FOUND")
  <2>1. next \in {"exists", "parents"} /\ next \in Label
      BY <1>2
  <2>2. code \in Code /\ code # "ok"
      BY <1>2, ThrownIs DEF FS!Thrown
  <2>3. /\ pc[q] = "parent" /\ FS!Same /\ mem' = mem
        /\ FS!Goto(q, next) \/ FS!Answer(q, code)
      BY <1>4 DEF FS!Check
  <2> HIDE DEF next, code
  <2>4. pc'[q] \in {next, "done"} /\ answer'[q] # "ok"
      BY <1>2, <1>3, <2>1, <2>2, <2>3
  <2> QED
      BY <1>1, <2>1, <2>3, <2>4, SteadyIs DEF Looks
<1>5. CASE FS!Parents(q, "exists")
  <2>1. /\ pc[q] = "parents" /\ mem' = mem
        /\ FS!Goto(q, "exists") \/ FS!Answer(q, "FS_WRITE_FAILED")
      BY <1>5 DEF FS!Parents
  <2>2. Leaves(q) \/ Makes(q)
      BY <1>1, <1>5, ParentsIs
  <2>3. pc'[q] \in {"exists", "done"} /\ answer'[q] # "ok"
      BY <1>2, <1>3, <2>1
  <2> QED
      BY <1>1, <2>1, <2>2, <2>3 DEF Settles
<1>6. CASE /\ pc[q] = "exists" /\ mem' = [mem EXCEPT ![q].fresh = ~FS!Exists(p)] /\ FS!Same
           /\ IF FS!Loops(p) THEN FS!Answer(q, "INTERNAL_ERROR") ELSE FS!Goto(q, "open")
  <2>1. (~FS!Exists(p)) \in BOOLEAN
      BY DEF FS!Exists
  <2>2. mem'[q].at = mem[q].at /\ mem'[q].fresh = ~FS!Exists(p) /\ disk' = disk
      BY <1>6, <2>1, SetsFresh, SteadyIs
  <2>3. CASE FS!Loops(p)
    <3>1. pc'[q] = "done" /\ answer'[q] = "INTERNAL_ERROR"
        BY <1>2, <1>3, <1>6, <2>3
    <3> QED
        BY <1>1, <1>6, <2>2, <3>1 DEF Fails
  <2>4. CASE ~FS!Loops(p)
    <3>1. pc'[q] = "open" /\ answer'[q] = "none"
      <4>1. "open" \in Label
          BY <1>2
      <4> QED
          BY <1>3, <1>6, <2>4, <4>1
    <3> QED
        BY <1>1, <1>6, <2>2, <3>1 DEF Decides
  <2> QED
      BY <2>3, <2>4
<1>7. CASE pc[q] = "open" /\ mem' = mem
           /\ IF FS!Entry(FS!Front(FS!FileOf(q))).kind = "dir"
              THEN FS!Becomes(FS!With(FS!FileOf(q), FS!File(FS!Partial(q))))
                  /\ FS!Goto(q, "fill")
              ELSE FS!Same /\ FS!Answer(q, "FS_WRITE_FAILED")
  <2>1. CASE FS!Entry(FS!Front(FS!FileOf(q))).kind = "dir"
    <3>1. pc'[q] = "fill" /\ answer'[q] = "none"
              /\ disk' = FS!With(FS!FileOf(q), FS!File(FS!Partial(q)))
      <4>1. "fill" \in Label
          BY <1>2
      <4> QED
          BY <1>3, <1>7, <2>1, <4>1, SteadyIs
    <3> QED
        BY <1>1, <1>7, <2>1, <3>1 DEF Opens
  <2>2. CASE FS!Entry(FS!Front(FS!FileOf(q))).kind # "dir"
    <3>1. pc'[q] = "done" /\ answer'[q] = "FS_WRITE_FAILED" /\ disk' = disk
        BY <1>2, <1>3, <1>7, <2>2, SteadyIs
    <3> QED
        BY <1>1, <1>7, <3>1 DEF Fails
  <2> QED
      BY <2>1, <2>2
<1>8. CASE /\ pc[q] = "fill" /\ FS!Goto(q, "replace") /\ FS!Becomes(FS!Filled(q))
           /\ mem' = [mem EXCEPT ![q].data = FS!Whole(q)]
  <2>1. pc'[q] = "replace" /\ answer'[q] = "none" /\ disk' = FS!Filled(q)
    <3>1. "replace" \in Label
        BY <1>2
    <3> QED
        BY <1>3, <1>8, <3>1, SteadyIs
  <2>2. mem'[q].at = mem[q].at /\ mem'[q].fresh = mem[q].fresh
      BY <1>2, <1>8, SetsData
  <2> QED
      BY <1>1, <1>8, <2>1, <2>2 DEF Fills
<1>11. CASE /\ pc[q] = "fill" /\ FS!Same /\ FS!Goto(q, "replace")
            /\ mem' = [mem EXCEPT ![q].data = FS!Partial(q)]
  <2>1. pc'[q] = "replace" /\ answer'[q] = "none" /\ disk' = disk
    <3>1. "replace" \in Label
        BY <1>2
    <3> QED
        BY <1>3, <1>11, <3>1, SteadyIs
  <2>2. /\ mem'[q].at = mem[q].at /\ mem'[q].fresh = mem[q].fresh
        /\ mem'[q].data = FS!Partial(q)
      BY <1>2, <1>11, SetsData
  <2> QED
      BY <1>1, <1>11, <2>1, <2>2 DEF Cuts
<1>9. CASE /\ pc[q] \in {"fill", "replace"} /\ mem' = mem /\ FS!Undo(q)
  <2> DEFINE code == IF FS!Entry(FS!Front(FS!FileOf(q))).kind \in {"dir", "missing"}
                     THEN "FS_WRITE_FAILED" ELSE "INTERNAL_ERROR"
  <2>1. FS!Becomes(FS!Discarded(q)) /\ FS!Answer(q, code) /\ code \in Code /\ code # "ok"
      BY <1>2, <1>9 DEF FS!Undo
  <2> HIDE DEF code
  <2>2. pc'[q] = "done" /\ answer'[q] = code /\ disk' = FS!Discarded(q)
      BY <1>3, <2>1, SteadyIs
  <2> QED
      BY <1>1, <1>9, <2>1, <2>2 DEF Drops, code
<1>10. CASE /\ pc[q] = "replace" /\ FS!CanMove(FS!FileOf(q), FS!Place(p))
            /\ FS!Becomes(FS!Move(FS!FileOf(q), FS!Place(p))) /\ FS!Answer(q, "ok")
            /\ mem' = [mem EXCEPT ![q].over = FS!Entry(FS!Place(p))]
  <2>1. FS!Entry(FS!Place(p)) \in Stored \cup {FS!Missing}
      BY EntryIs DEF Shaped
  <2>2. mem'[q].over = FS!Entry(FS!Place(p)) /\ mem'[q].fresh = mem[q].fresh
      BY <1>10, <2>1, SetsOver
  <2>3. pc'[q] = "done" /\ disk' = FS!Move(FS!FileOf(q), FS!Place(p))
      BY <1>2, <1>3, <1>10, SteadyIs
  <2> QED
      BY <1>1, <1>10, <2>2, <2>3 DEF Replaces, Ends
<1> QED
    BY <1>1, <1>4, <1>5, <1>6, <1>7, <1>8, <1>9, <1>10, <1>11 DEF FS!Write

(* What opens and fills a temporary file leaves the parent of its target.      *)
LEMMA ParentKept ==
    ASSUME Shaped, NEW q \in Call, arg[q].op = "write", Opens(q) \/ Fills(q) \/ Cuts(q),
           NEW d \in Dirs
    PROVE  FS!Follow(d)' = FS!Follow(d)
<1>1. \A p : FS!Entry(p).kind = "link" => FS!Entry(p) # FS!File(FS!Partial(q))
    BY StoredIs
<1>2. CASE Opens(q)
  <2>1. FS!Entry(d)' = FS!Entry(d)
      BY <1>2, OpensIs, FileIs DEF Put
  <2> QED
      BY <2>1 DEF FS!Follow
<1>3. CASE Fills(q)
  <2>1. FS!Entry(d)' = FS!Entry(d) \/ (FS!Entry(d)'.kind = "file" /\ FS!Entry(d).kind = "file")
      BY <1>3, FillsIs, StoredIs DEF Completes
  <2> QED
      BY <2>1 DEF FS!Follow
<1>4. CASE Cuts(q)
  <2>1. FS!Entry(d)' = FS!Entry(d)
      BY <1>4, LeavesIs
  <2> QED
      BY <2>1 DEF FS!Follow
<1> QED
    BY <1>2, <1>3, <1>4

(* Nor does it move the temporary file.                                        *)
LEMMA FileStays ==
    ASSUME Shaped, NEW q \in Call, arg[q].op = "write", mem'[q].at = mem[q].at,
           Opens(q) \/ Fills(q) \/ Cuts(q)
    PROVE  FS!FileOf(q)' = FS!FileOf(q)
<1>1. PICK d : d = FS!Front(mem[q].at) /\ d \in Dirs
    BY FileIs
<1>2. FS!Follow(d)' = FS!Follow(d)
    BY <1>1, ParentKept
<1>3. FS!Front(mem[q].at)' = d
    BY <1>1
<1>4. FS!Follow(FS!Front(mem[q].at))' = FS!Follow(FS!Front(mem[q].at))
    BY <1>1, <1>2, <1>3
<1> QED
    BY <1>4, FileIs, FileOfNext

(* The temporary file of a write that goes on.                                 *)
LEMMA TempOwn ==
    ASSUME Shaped, Shaped', NEW q \in Call, FS!Write(q), TempShape(q)
    PROVE  TempShape(q)'
<1>1. Alone(q) /\ Changes(q) /\ arg[q].op = "write" /\ ~Renames(q)
    BY WritesAre DEF Renames
<1>2. Strayed(q)' <=> Strayed(q)
    BY <1>1, StrayIs
<1>3. /\ \A p : p \in Temps(q) <=> p # FS!Top /\ FS!Last(p) = q /\ FS!Entry(p) # FS!Missing
      /\ \A p : p \in Temps(q)' <=> p # FS!Top /\ FS!Last(p) = q /\ FS!Entry(p)' # FS!Missing
  <2>1. DiskShape'
      BY DEF Shaped
  <2>2. \A p : p \in DOMAIN disk' <=> FS!Entry(p)' # FS!Missing
      BY <2>1, StoredIs DEF DiskShape, FS!Entry
  <2> QED
      BY <2>2, TempsAre DEF Temps
<1>5. Opens(q) \/ Fills(q) \/ Cuts(q) => FS!FileOf(q)' = FS!FileOf(q)
  <2>1. mem'[q].at = mem[q].at
      BY <1>1 DEF Alone, Held
  <2> QED
      BY <1>1, <2>1, FileStays
<1>6. CASE /\ pc[q] \notin {"fill", "replace", "done"} /\ pc'[q] \notin {"fill", "replace"}
           /\ ~Opens(q)
    BY <1>1, <1>6, TempsKept DEF TempShape
<1>7. CASE pc[q] = "open" /\ Opens(q)
  <2>1. Temps(q) = {} /\ pc'[q] = "fill"
      BY <1>7 DEF TempShape, Opens
  <2>2. PICK f : f = FS!FileOf(q) /\ f = FS!FileOf(q)'
      BY <1>5, <1>7
  <2>3. \A p : FS!Entry(p)' = IF p = f THEN FS!File(FS!Partial(q)) ELSE FS!Entry(p)
      BY <1>1, <1>7, <2>2, OpensIs DEF Put
  <2>4. Temps(q)' \subseteq {f}
      BY <1>3, <2>1, <2>3
  <2> QED
      BY <2>1, <2>2, <2>4 DEF TempShape
<1>8. CASE Fills(q) \/ Cuts(q)
  <2>1. pc[q] = "fill" /\ pc'[q] = "replace"
      BY <1>8 DEF Fills, Cuts
  <2>2. Temps(q)' \subseteq Temps(q)
      BY <1>1, <1>8, <2>1, TempsKept DEF Opens
  <2>3. PICK f : f = FS!FileOf(q) /\ f = FS!FileOf(q)'
      BY <1>5, <1>8
  <2> QED
      BY <1>2, <2>1, <2>2, <2>3 DEF TempShape
<1>9. CASE Drops(q)
  <2>1. pc[q] \in {"fill", "replace"} /\ pc'[q] = "done"
      BY <1>9 DEF Drops
  <2>2. Temps(q) \subseteq {FS!FileOf(q)} => Temps(q)' = {}
      BY <1>1, <1>3, <1>9, DropsIs DEF Put
  <2> QED
      BY <1>2, <2>1, <2>2 DEF TempShape
<1>10. CASE Replaces(q)
  <2>1. pc[q] = "replace" /\ pc'[q] = "done"
      BY <1>10 DEF Replaces
  <2>2. FS!Last(FS!Place(mem[q].at)) # q
      BY <1>1, FileIs, SpotIs, NamesAssumption
  <2>3. Temps(q) \subseteq {FS!FileOf(q)} => Temps(q)' = {}
      BY <1>1, <1>3, <1>10, <2>2, ReplacesIs DEF Carried
  <2> QED
      BY <1>2, <2>1, <2>3 DEF TempShape
<1>11. \/ /\ pc[q] \notin {"fill", "replace", "done"} /\ pc'[q] \notin {"fill", "replace"}
          /\ ~Opens(q)
       \/ pc[q] = "open" /\ Opens(q)
       \/ Fills(q) \/ Cuts(q) \/ Drops(q) \/ Replaces(q)
    BY WritesAre DEF Looks, Settles, Decides, Ends, Fails, Opens
<1> QED
    BY <1>6, <1>7, <1>8, <1>9, <1>10, <1>11

(* A request that is no write has none.                                        *)
LEMMA TempElse ==
    ASSUME Shaped, Shaped', NEW q \in Call, Alone(q), Changes(q), arg[q].op # "write",
           TempShape(q)
    PROVE  TempShape(q)'
<1>1. pc[q] \notin {"fill", "replace", "done"} /\ pc'[q] \notin {"fill", "replace"}
    BY OpIs, WriteIs DEF Alone, Active
<1>2. ~Opens(q)
    BY <1>1 DEF Opens, Alone, OpOf
<1> QED
    BY <1>1, <1>2, TempsKept DEF TempShape

-----------------------------------------------------------------------------
(* A write is right about its target, unless another changes files meanwhile.  *)
LEMMA WriteOthers ==
    ASSUME Shaped, NEW q \in Call, Alone(q), Changes(q), NEW r \in Call \ {q}, WriteShape(r)
    PROVE  WriteShape(r)'
<1>1. /\ pc'[r] = pc[r] /\ mem'[r] = mem[r] /\ arg' = arg /\ answer'[r] = answer[r]
      /\ FS!RacedBy(r, Writers)' <=> FS!RacedBy(r, Writers)
    BY RaceIs DEF Alone, Held
<1>2. CASE FS!RacedBy(r, Writers)
    BY <1>1, <1>2 DEF WriteShape
<1>3. CASE ~FS!RacedBy(r, Writers)
  <2>1. arg[q].op \notin Writers
      BY <1>3, RaceIs
  <2>2. disk' = disk
      BY <2>1 DEF Changes, Makes, Removes, Renames, Leaves, Writers
  <2>3. PICK a : a = mem[r].at
      OBVIOUS
  <2>4. (FS!Exists(a)' <=> FS!Exists(a)) /\ (Empty(a)' <=> Empty(a))
      BY <2>2, SameIs
  <2>5. /\ FS!Exists(mem[r].at)' <=> FS!Exists(mem[r].at)
        /\ Empty(mem[r].at)' <=> Empty(mem[r].at)
      BY <1>1, <2>3, <2>4
  <2> QED
      BY <1>1, <2>5 DEF WriteShape, FS!Ok, FS!Replaced
<1> QED
    BY <1>2, <1>3

(* What a write has found it goes on with.                                     *)
LEMMA WriteOwn ==
    ASSUME Shaped, NEW q \in Call, FS!Write(q), WriteShape(q)
    PROVE  WriteShape(q)'
<1>1. /\ Alone(q) /\ Changes(q) /\ arg[q].op = "write" /\ arg' = arg /\ mem'[q].at = mem[q].at
      /\ DiskShape
  <2>1. Alone(q) /\ Changes(q) /\ arg[q].op = "write"
      BY WritesAre
  <2> QED
      BY <2>1 DEF Alone, Held, Shaped
<1>2. FS!RacedBy(q, Writers)' <=> FS!RacedBy(q, Writers)
    BY <1>1, RaceIs
<1>3. PICK a, d, b : /\ a = mem[q].at /\ d = FS!Front(a) /\ b = FS!Place(a)
                     /\ a \in FS!Path /\ d \in Dirs /\ b \in FS!Path
                           /\ b = Append(FS!Follow(d), FS!Last(a))
  <2>1. mem[q].at # FS!Top
      BY <1>1, FileIs, SpotIs
  <2> QED
      BY <1>1, <2>1, FileIs DEF FS!Place
<1>4. /\ FS!Exists(mem[q].at)' <=> FS!Exists(a)'
      /\ Empty(mem[q].at)' <=> Empty(a)'
    BY <1>1, <1>3
<1>5. CASE /\ disk' = disk
           /\ Looks(q) \/ Settles(q) \/ Decides(q) \/ Fails(q)
  <2>1. (FS!Exists(a)' <=> FS!Exists(a)) /\ (Empty(a)' <=> Empty(a))
      BY <1>5, SameIs
  <2>2. CASE Looks(q) \/ (Settles(q) /\ disk' = disk)
    <3>1. /\ pc[q] \in {"parent", "parents", "exists"} /\ mem' = mem
          /\ pc'[q] \in {"exists", "parents", "done"} /\ answer'[q] # "ok"
        BY <2>2 DEF Looks, Settles
    <3> QED
        BY <1>1, <1>2, <1>3, <1>4, <2>1, <3>1 DEF WriteShape, FS!Ok
  <2>3. CASE Decides(q)
    <3>1. /\ pc[q] = "exists" /\ pc'[q] = "open" /\ answer'[q] = "none"
          /\ mem'[q].fresh = ~FS!Exists(a)
        BY <1>3, <2>3 DEF Decides
    <3>2. mem'[q].fresh <=> ~FS!Exists(a)
        BY <3>1
    <3> QED
        BY <1>1, <1>2, <1>3, <1>4, <2>1, <3>1, <3>2 DEF WriteShape, FS!Ok
  <2>4. CASE pc'[q] = "done" /\ answer'[q] # "ok"
      BY <2>4 DEF WriteShape, FS!Ok
  <2>5. CASE Fails(q)
      BY <2>4, <2>5 DEF Fails
  <2> QED
      BY <1>5, <2>2, <2>3, <2>5
<1>6. CASE Settles(q) /\ Makes(q)
  <2>1. FS!Entry(d) = FS!Missing /\ \A p : FS!Entry(p)' = IF p = d THEN FS!Dir ELSE FS!Entry(p)
      BY <1>1, <1>3, <1>6, MakesIs DEF Put
  <2>2. a # FS!Top /\ a # d /\ FS!Entry(a) = FS!Missing
    <3>1. a # FS!Top /\ Len(d) # Len(a)
      <4>1. Len(a) = 2
          BY <1>1, <1>3, <1>6 DEF Makes
      <4>2. d \in {<<n>> : n \in Name}
        <5>1. IF Len(a) = 1 THEN FS!Front(a) = FS!Top ELSE FS!Front(a) \in {<<n>> : n \in Name}
            BY <1>3, SpotIs
        <5> QED
            BY <1>3, <4>1, <5>1
      <4>3. Len(d) = 1
          BY <4>2, PathFacts
      <4> QED
          BY <1>3, <4>1, <4>3, SpotIs
    <3>2. a \notin DOMAIN disk
      <4>1. a \in DOMAIN disk => FS!Entry(d) = FS!Dir
          BY <1>1, <1>3, <3>1, EntryIs
      <4> QED
          BY <2>1, <4>1, StoredIs
    <3> QED
        BY <3>1, <3>2 DEF FS!Entry
  <2>3. FS!Entry(d)' = FS!Dir /\ FS!Entry(a)' = FS!Missing
      BY <2>1, <2>2
  <2>4. FS!Follow(d)' = d /\ FS!Follow(a)' = a
      BY <2>3, StoredIs DEF FS!Follow
  <2>5. FS!Place(a)' = a
    <3>1. Append(d, FS!Last(a)) = a
        BY <1>3, SpotIs
    <3> QED
        BY <1>3, <2>2, <2>4, <3>1 DEF FS!Place
  <2>6. FS!Entry(FS!Place(a))' = FS!Missing /\ FS!Entry(FS!Follow(FS!Place(a)))' = FS!Missing
      BY <2>3, <2>4, <2>5
  <2>7. Empty(a)' /\ ~FS!Exists(a)'
      BY <2>6, StoredIs DEF Empty, FS!Exists, FS!Stat
  <2>8. pc'[q] \in {"exists", "done"} /\ answer'[q] # "ok"
      BY <1>6 DEF Settles
  <2> QED
      BY <1>4, <2>7, <2>8 DEF WriteShape, FS!Ok
<1>7. CASE Opens(q) \/ Fills(q) \/ Cuts(q)
  <2>1. /\ pc[q] \in {"open", "fill"} /\ pc'[q] \in {"fill", "replace"}
        /\ mem'[q].fresh = mem[q].fresh /\ answer'[q] # "ok"
      BY <1>7, WritesAre DEF Opens, Looks, Settles, Decides, Ends, Replaces, Fills, Cuts,
                             Drops, Fails
  <2>2. FS!Follow(d)' = FS!Follow(d)
      BY <1>1, <1>3, <1>7, ParentKept
  <2>3. FS!Place(a)' = b
    <3>1. a # FS!Top
        BY <1>3, SpotIs
    <3> QED
        BY <1>3, <2>2, <3>1 DEF FS!Place
  <2>4. FS!Entry(b)'.kind = FS!Entry(b).kind
    <3>1. CASE Opens(q)
        BY <1>1, <1>3, <3>1, OpensIs, FileIs DEF Put
    <3>2. CASE Fills(q)
        BY <3>2, FillsIs, StoredIs DEF Completes
    <3>3. CASE Cuts(q)
        BY <3>3, LeavesIs
    <3> QED
        BY <1>7, <3>1, <3>2, <3>3
  <2>5. Empty(a)' <=> Empty(a)
      BY <1>3, <2>3, <2>4 DEF Empty
  <2> QED
      BY <1>1, <1>2, <1>3, <1>4, <2>1, <2>5 DEF WriteShape, FS!Ok
<1>8. CASE Drops(q)
  <2>1. pc'[q] = "done" /\ answer'[q] # "ok"
      BY <1>8 DEF Drops
  <2> QED
      BY <2>1 DEF WriteShape, FS!Ok
<1>9. CASE Ends(q)
  <2>1. /\ pc[q] = "replace" /\ pc'[q] = "done" /\ mem'[q].fresh = mem[q].fresh
        /\ mem'[q].over = FS!Entry(b)
      BY <1>3, <1>9 DEF Ends, Replaces
  <2>2. Empty(a) <=> ~(FS!Entry(b).kind \in {"file", "dir"})
      BY <1>3 DEF Empty
  <2>3. FS!Replaced(q)' <=> FS!Entry(b).kind \in {"file", "dir"}
      BY <2>1 DEF FS!Replaced
  <2> QED
      BY <1>1, <1>2, <1>3, <2>1, <2>2, <2>3 DEF WriteShape
<1>10. \/ /\ disk' = disk
          /\ Looks(q) \/ Settles(q) \/ Decides(q) \/ Fails(q)
       \/ (Settles(q) /\ Makes(q)) \/ Opens(q) \/ Fills(q) \/ Cuts(q) \/ Drops(q)
       \/ Ends(q)
    BY WritesAre DEF Looks, Settles, Leaves, Decides, Fails
<1> QED
    BY <1>5, <1>6, <1>7, <1>8, <1>9, <1>10

-----------------------------------------------------------------------------
(* The target of a rename that is free stays free when another deletes files.  *)
LEMMA EmptyKept ==
    ASSUME DiskShape, DiskShape', NEW z \in Spot \ {FS!Top}, Put(z, FS!Missing),
           NEW p \in FS!Path, Empty(p)
    PROVE  Empty(p)'
<1>1. PICK d : d = FS!Front(p) /\ d \in Dirs /\ p # FS!Top
          /\ FS!Place(p) = Append(FS!Follow(d), FS!Last(p))
  <2>1. p # FS!Top /\ FS!Front(p) \in Dirs
      BY PlaceIs, SpotIs
  <2> QED
      BY <2>1 DEF FS!Place
<1>2. FS!Place(p)' = Append(FS!Follow(d)', FS!Last(p))
    BY <1>1 DEF FS!Place
<1>3. \A x : FS!Entry(x)'.kind \in {"file", "dir"} => FS!Entry(x)' = FS!Entry(x)
    BY StoredIs DEF Put
<1>4. CASE z # d
  <2>1. FS!Follow(d)' = FS!Follow(d)
      BY <1>4 DEF Put, FS!Follow
  <2>2. PICK b : b = FS!Place(p) /\ b = FS!Place(p)'
      BY <1>1, <1>2, <2>1
  <2>3. Empty(p)' <=> FS!Entry(b)'.kind \notin {"file", "dir"}
      BY <2>2 DEF Empty
  <2>4. FS!Entry(b).kind \notin {"file", "dir"}
      BY <2>2 DEF Empty
  <2> QED
      BY <1>3, <2>3, <2>4
<1>5. CASE z = d
  <2>1. FS!Entry(d)' = FS!Missing
      BY <1>5 DEF Put
  <2>2. FS!Follow(d)' = d
      BY <2>1, StoredIs DEF FS!Follow
  <2>3. Append(d, FS!Last(p)) = p
      BY <1>1, SpotIs
  <2>4. FS!Place(p)' = p
      BY <1>2, <2>2, <2>3
  <2>5. FS!Entry(p)' = FS!Missing
    <3>1. d \notin DOMAIN disk'
      <4>1. d \in DOMAIN disk' => disk'[d] \in Stored
          BY <1>5 DEF DiskShape
      <4> QED
          BY <2>1, <4>1, StoredIs DEF FS!Entry
    <3>2. p \notin DOMAIN disk'
        BY <1>1, <3>1 DEF DiskShape
    <3> QED
        BY <3>2 DEF FS!Entry
  <2>6. Empty(p)' <=> FS!Entry(p)'.kind \notin {"file", "dir"}
      BY <2>4 DEF Empty
  <2> QED
      BY <2>5, <2>6, StoredIs
<1> QED
    BY <1>4, <1>5

(* What others do to the target of a rename.                                   *)
LEMMA RenameOthers ==
    ASSUME Shaped, NEW q \in Call, Alone(q), Changes(q), NEW r \in Call \ {q}, RenameShape(r)
    PROVE  RenameShape(r)'
<1> DEFINE ops == {"write", "rename", "mkdir"}
<1>1. /\ pc'[r] = pc[r] /\ mem'[r] = mem[r] /\ arg' = arg
      /\ FS!RacedBy(r, ops)' <=> FS!RacedBy(r, ops)
    BY RaceIs DEF Alone, Held
<1>2. CASE FS!RacedBy(r, ops)
    BY <1>1, <1>2 DEF RenameShape
<1>3. CASE ~FS!RacedBy(r, ops)
  <2> SUFFICES ASSUME arg[r].op = "rename" PROVE RenameShape(r)'
      BY <1>1 DEF RenameShape
  <2>1. Leaves(q) \/ Removes(q)
    <3>1. arg[q].op \notin ops
        BY <1>3, RaceIs
    <3> QED
        BY <3>1 DEF Changes, Makes, Renames
  <2>2. PICK b : b = mem[r].to /\ b \in FS!Path
      BY OpIs
  <2>3. Empty(b) => Empty(b)'
    <3>1. CASE Leaves(q)
        BY <3>1, SameIs DEF Leaves
    <3>2. CASE Removes(q)
        BY <2>2, <3>2, RemovesIs, EmptyKept DEF Shaped
    <3> QED
        BY <2>1, <3>1, <3>2
  <2>4. /\ Empty(b) <=> FS!Entry(FS!Place(mem[r].to)).kind \notin {"file", "dir"}
        /\ Empty(b)' <=> FS!Entry(FS!Place(mem[r].to))'.kind \notin {"file", "dir"}
      BY <1>1, <2>2 DEF Empty
  <2> QED
      BY <1>1, <1>3, <2>3, <2>4 DEF RenameShape, FS!Replaced
<1> QED
    BY <1>2, <1>3

(* What a rename finds free it goes on to use.                                 *)
LEMMA RenameOwn ==
    ASSUME Shaped, NEW q \in Call, FS!Rename(q), RenameShape(q)
    PROVE  RenameShape(q)'
<1> DEFINE from == mem[q].at
           to == mem[q].to
           race == FS!RacedBy(q, {"write", "rename", "mkdir"})
<1>1. Alone(q) /\ arg[q].op = "rename" /\ Active(q) /\ to \in FS!Path
          /\ mem[q].over = FS!Missing
  <2>1. arg[q].op = "rename" /\ Active(q)
      BY OpIs DEF FS!Rename, FS!Check
  <2> QED
      BY <2>1, RenameIs, OpIs
<1>2. arg' = arg /\ mem'[q].to = to /\ (FS!RacedBy(q, {"write", "rename", "mkdir"})' <=> race)
    BY <1>1, RaceIs DEF Alone, Held
<1>3. PICK b : b = to
    OBVIOUS
<1>4. ASSUME disk' = disk PROVE FS!Entry(FS!Place(mem[q].to))' = FS!Entry(FS!Place(to))
  <2>1. FS!Place(b)' = FS!Place(b)
      BY <1>4, SameIs
  <2>2. PICK c : c = FS!Place(b) /\ c = FS!Place(b)'
      BY <2>1
  <2>3. FS!Entry(c)' = FS!Entry(c)
      BY <1>4, SameIs
  <2>4. FS!Place(mem[q].to)' = c
      BY <1>2, <1>3, <2>2
  <2> QED
      BY <1>3, <2>2, <2>3, <2>4
<1>5. /\ {"dest", "toParent", "move"} \subseteq Label \ {"none", "done"}
      /\ \A l \in {"dest", "toParent", "move"} : arg[q].op \in OpOf(l)
      /\ {"ok", "FS_PATH_NOT_FOUND", "FS_PATH_EXISTS", "FS_WRITE_FAILED"} \subseteq Code
      /\ \A x : FS!Thrown(x, "FS_PATH_NOT_FOUND") \in Code
               /\ FS!Thrown(x, "FS_PATH_EXISTS") \in Code
    BY <1>1, ThrownIs DEF Label, OpOf, Code
<1>6. ASSUME NEW l \in {"from", "dest", "toParent"}, NEW good,
             NEW next \in {"dest", "toParent", "move"}, NEW code \in Code,
                 FS!Check(q, l, good, next, code)
      PROVE  /\ disk' = disk /\ mem' = mem /\ pc[q] = l
             /\ good => pc'[q] = next
             /\ ~good => pc'[q] = "done"
    BY <1>5, <1>6, CheckIs
<1>7. ASSUME mem' = mem, pc'[q] \in {"dest", "done"} PROVE RenameShape(q)'
  <2>1. ~FS!Replaced(q)'
      BY <1>1, <1>7, StoredIs DEF FS!Replaced
  <2> QED
      BY <1>7, <2>1 DEF RenameShape
<1>8. CASE FS!Check(q, "from", FS!Exists(from), "dest", FS!Thrown(from, "FS_PATH_NOT_FOUND"))
  <2>1. mem' = mem /\ pc'[q] \in {"dest", "done"}
      BY <1>5, <1>6, <1>8
  <2> QED
      BY <1>7, <2>1
<1>9. CASE FS!Check(q, "dest", FS!Free(to) /\ ~FS!Loops(to), "toParent",
                    FS!Thrown(to, "FS_PATH_EXISTS"))
  <2>1. /\ disk' = disk /\ mem' = mem
        /\ FS!Free(to) /\ ~FS!Loops(to) => pc'[q] = "toParent"
        /\ ~(FS!Free(to) /\ ~FS!Loops(to)) => pc'[q] = "done"
      BY <1>5, <1>6, <1>9
  <2>2. CASE FS!Free(to) /\ ~FS!Loops(to)
    <3>1. FS!Entry(FS!Place(to)).kind \notin {"file", "dir"}
        BY <1>1, <2>2, StatIs DEF Shaped, FS!Free, FS!Exists
    <3> QED
        BY <1>4, <2>1, <2>2, <3>1 DEF RenameShape
  <2> QED
      BY <1>7, <2>1, <2>2
<1>10. CASE FS!Check(q, "toParent", FS!Exists(FS!Front(to)), "move",
                     FS!Thrown(FS!Front(to), "FS_PATH_NOT_FOUND"))
  <2>1. disk' = disk /\ mem' = mem /\ pc[q] = "toParent" /\ pc'[q] \in {"move", "done"}
    <3>1. /\ FS!Same /\ mem' = mem /\ pc[q] = "toParent"
          /\ \/ FS!Goto(q, "move")
             \/ FS!Answer(q, FS!Thrown(FS!Front(to), "FS_PATH_NOT_FOUND"))
        BY <1>10 DEF FS!Check
    <3>2. pc'[q] \in {"move", "done"}
        BY <1>5, <3>1, GotoIs, AnswerIs DEF Shaped
    <3> QED
        BY <3>1, <3>2, SteadyIs
  <2>2. FS!Entry(FS!Place(to)).kind \notin {"file", "dir"} \/ race
      BY <1>1, <2>1 DEF RenameShape
  <2> QED
      BY <1>2, <1>4, <1>7, <2>1, <2>2 DEF RenameShape
<1>11. CASE /\ pc[q] = "move" /\ mem' = [mem EXCEPT ![q].over = FS!Entry(FS!Place(to))]
            /\ FS!Answer(q, "ok")
  <2>1. FS!Entry(FS!Place(to)) \in Stored \cup {FS!Missing}
      BY EntryIs DEF Shaped
  <2>2. mem'[q].over = FS!Entry(FS!Place(to))
      BY <1>11, <2>1, SetsOver
  <2>3. pc'[q] = "done"
      BY <1>5, <1>11, AnswerIs DEF Shaped
  <2>4. FS!Entry(FS!Place(to)).kind \notin {"file", "dir"} \/ race
      BY <1>1, <1>11 DEF RenameShape
  <2>5. FS!Entry(FS!Place(to)).kind \notin {"file", "dir"} => ~FS!Replaced(q)'
      BY <2>2 DEF FS!Replaced
  <2> QED
      BY <1>2, <2>3, <2>4, <2>5 DEF RenameShape
<1>12. CASE /\ pc[q] = "move" /\ mem' = mem
            /\ FS!Answer(q, IF from = to /\ FS!Entry(from) # FS!Missing THEN "ok"
                               ELSE "FS_WRITE_FAILED")
  <2>1. pc'[q] = "done"
    <3>1. (IF from = to /\ FS!Entry(from) # FS!Missing THEN "ok"
              ELSE "FS_WRITE_FAILED") \in Code
        BY <1>5
    <3> QED
        BY <1>12, <3>1, AnswerIs DEF Shaped
  <2> QED
      BY <1>7, <1>12, <2>1
<1> QED
    BY <1>8, <1>9, <1>10, <1>11, <1>12 DEF FS!Rename

(* A request that is not a rename replaces nothing by one.                     *)
LEMMA RenameElse ==
    ASSUME NEW q \in Call, Alone(q), arg[q].op # "rename"
    PROVE  RenameShape(q)'
BY DEF Alone, RenameShape

-----------------------------------------------------------------------------
(* A step of a walk: what is then ahead was ahead or is listed, a file whose   *)
(* size is asked is one, and it fails only at what is no longer what it was, or*)
(* at a link that goes round.                                                  *)
Meets(q) ==
    \/ \E e \in Todo(q) : e.kind = "dir" /\ FS!Entry(e.at).kind # "dir"
    \/ pc[q] = "fileSize" /\ FS!Stat(mem[q].at).kind # "file"
Halts(q) ==
    /\ answer'[q] = "INTERNAL_ERROR" /\ arg[q].op \in {"search", "packages"}
    /\ \E p \in DOMAIN disk : FS!GoesRound(p)
Strolls(q) ==
    /\ Alone(q) /\ disk' = disk
    /\ pc'[q] \in Walking =>
          /\ pc[q] \in Walking
          /\ \A x \in Todo(q)' : x \in Todo(q) \/ \E d : x \in FS!Listing(d)
    /\ pc'[q] = "fileSize" => FS!Stat(mem'[q].at).kind = "file"
    /\ answer'[q] \in {"INTERNAL_ERROR", "cut"} => (pc[q] \in Walking /\ Meets(q)) \/ Halts(q)

(* A step to an entry of a directory.                                          *)
LEMMA VisitStrolls ==
    ASSUME Shaped, NEW q \in Call, NEW l \in Walking, NEW e, FS!Visits(q, l, e),
           NEW into \in BOOLEAN,
           mem'[q].todo = FS!After(q, e, into), Alone(q), disk' = disk,
           \/ answer'[q] \notin {"INTERNAL_ERROR", "cut"}
           \/ e.kind = "dir" /\ FS!Entry(e.at).kind # "dir",
           pc'[q] = "fileSize" => FS!Stat(mem'[q].at).kind = "file"
    PROVE  Strolls(q)
<1>1. pc[q] \in Walking /\ e \in Todo(q)
    BY AfterIs DEF FS!Visits, Todo
<1>2. \A x \in Todo(q)' : x \in Todo(q) \/ x \in FS!Listing(e.at)
    BY AfterIs DEF Todo
<1> QED
    BY <1>1, <1>2 DEF Strolls, Meets

(* A link goes round only if it is one.                                        *)
LEMMA RoundIs ==
    ASSUME DiskShape
    PROVE  /\ \A p : FS!GoesRound(p) => /\ FS!Entry(p).kind = "link" /\ p \in DOMAIN disk
                                       /\ FS!Follow(p) = FS!Entry(p).data
           /\ \A p : FS!Loops(p) => \E x \in DOMAIN disk : FS!GoesRound(x)
<1>1. ASSUME NEW p, FS!GoesRound(p)
      PROVE  /\ FS!Entry(p).kind = "link" /\ p \in DOMAIN disk
             /\ FS!Follow(p) = FS!Entry(p).data
  <2>1. FS!Entry(p).kind = "link"
      BY <1>1 DEF FS!GoesRound, FS!Follow
  <2> QED
      BY <2>1, EntryIs DEF FS!Follow
<1> QED
    BY <1>1 DEF FS!Loops

(* Where a walk meets one it halts.                                            *)
LEMMA HaltIs ==
    ASSUME Shaped, NEW q \in Call, NEW l \in {"contents", "packages"}, FS!Stopped(q, l)
    PROVE  Strolls(q)
<1>1. /\ Alone(q) /\ disk' = disk /\ pc'[q] = "done" /\ answer'[q] = "INTERNAL_ERROR"
      /\ arg[q].op \in {"search", "packages"} /\ \E e \in Item : FS!Endless(e)
    BY StoppedIs
<1>2. \E p \in DOMAIN disk : FS!GoesRound(p)
    BY <1>1, RoundIs DEF Shaped, FS!Endless
<1> QED
    BY <1>1, <1>2 DEF Strolls, Halts, Walking

(* Each step of a walk is such a step.                                         *)
LEMMA WalkIs ==
    ASSUME Shaped, NEW q \in Call, FS!Search(q) \/ FS!Tree(q) \/ FS!Packages(q)
    PROVE  Strolls(q)
<1>1. CASE FS!ByName(q)
  <2>1. ASSUME NEW e, NameSeen(q, e) PROVE Strolls(q)
    <3>1. FS!Visits(q, "names", e) /\ "names" \in Walking
              /\ (e.kind = "dir" /\ ~FS!Skipped(e)) \in BOOLEAN
        BY <2>1 DEF NameSeen, Walking
    <3>2. /\ Alone(q) /\ disk' = disk
                /\ mem'[q].todo = FS!After(q, e, e.kind = "dir" /\ ~FS!Skipped(e))
          /\ pc'[q] # "fileSize"
          /\ answer'[q] = "none" \/ (e.kind = "dir" /\ FS!Entry(e.at).kind # "dir")
        BY <2>1, NameSeenIs
    <3> QED
        BY <3>1, <3>2, VisitStrolls
  <2>2. CASE /\ pc[q] = "names" /\ mem' = [mem EXCEPT ![q].todo = FS!Pushed(<<>>,
                   FS!Listing(FS!Top))]
             /\ FS!Same /\ FS!Goto(q, "contents")
    <3>1. /\ Alone(q) /\ disk' = disk /\ pc'[q] = "contents" /\ answer'[q] = "none"
          /\ mem'[q].todo = FS!Pushed(<<>>, FS!Listing(FS!Top))
        BY <2>2, HalfIs
    <3>2. Todo(q)' = FS!Listing(FS!Top)
        BY <3>1, RootIs DEF Todo
    <3> QED
        BY <2>2, <3>1, <3>2 DEF Strolls, Walking
  <2> QED
      BY <1>1, <2>1, <2>2 DEF FS!ByName, NameSeen
<1>2. CASE FS!ByContent(q)
  <2>1. ASSUME NEW e, LineSeen(q, e) PROVE Strolls(q)
    <3>1. FS!Visits(q, "contents", e) /\ "contents" \in Walking /\ (e.kind = "dir") \in BOOLEAN
        BY <2>1 DEF LineSeen, Walking
    <3>2. /\ Alone(q) /\ disk' = disk /\ mem'[q].todo = FS!After(q, e, e.kind = "dir")
          /\ pc'[q] # "fileSize"
          /\ answer'[q] = "none" \/ (e.kind = "dir" /\ FS!Entry(e.at).kind # "dir")
        BY <2>1, LineSeenIs
    <3> QED
        BY <3>1, <3>2, VisitStrolls
  <2>2. CASE FS!Go(q, "contents", "merge")
    <3>1. Alone(q) /\ disk' = disk /\ pc'[q] = "merge" /\ answer'[q] = "none"
        BY <2>2, LastIs
    <3> QED
        BY <3>1 DEF Strolls, Walking
  <2> QED
      BY <1>2, <2>1, <2>2, HaltIs DEF FS!ByContent, LineSeen, Matches, Regular
<1>3. CASE FS!Tree(q)
  <2>1. ASSUME NEW e, TreeSeen(q, e) PROVE Strolls(q)
    <3>1. /\ FS!Visits(q, "tree", e) /\ "tree" \in Walking
          /\ (FS!Entry(e.at).kind = "dir" /\ arg[q].flag) \in BOOLEAN
        BY <2>1 DEF TreeSeen, Walking
    <3>2. /\ Alone(q) /\ disk' = disk /\ answer'[q] = "none"
          /\ mem'[q].todo = FS!After(q, e, FS!Entry(e.at).kind = "dir" /\ arg[q].flag)
          /\ mem'[q].at = e.at /\ pc'[q] = IF FS!Stat(e.at).kind = "file" THEN "fileSize"
                                              ELSE "tree"
        BY <2>1, TreeSeenIs
    <3>3. pc'[q] = "fileSize" => FS!Stat(mem'[q].at).kind = "file"
        BY <3>2
    <3> QED
        BY <3>1, <3>2, <3>3, VisitStrolls
  <2>2. CASE FS!Check(q, "fileSize", FS!Stat(mem[q].at).kind = "file", "tree", "INTERNAL_ERROR")
    <3>1. /\ Alone(q) /\ disk' = disk /\ mem' = mem /\ pc[q] = "fileSize"
          /\ \/ pc'[q] = "tree" /\ answer'[q] = "none"
             \/ /\ pc'[q] = "done" /\ answer'[q] = "INTERNAL_ERROR"
                /\ FS!Stat(mem[q].at).kind # "file"
        BY <2>2, SizedIs
    <3>2. Todo(q)' = Todo(q)
        BY <3>1 DEF Todo
    <3> QED
        BY <3>1, <3>2 DEF Strolls, Meets, Walking
  <2>3. CASE FS!Finish(q, "tree")
    <3>1. Alone(q) /\ disk' = disk /\ pc'[q] = "done" /\ answer'[q] = "ok"
        BY <2>3, FinishIs
    <3> QED
        BY <3>1 DEF Strolls, Walking
  <2> QED
      BY <1>3, <2>1, <2>2, <2>3 DEF FS!Tree, TreeSeen
<1>4. CASE FS!Packages(q)
  <2>1. ASSUME NEW e, PackageSeen(q, e) PROVE Strolls(q)
    <3>1. /\ FS!Visits(q, "packages", e) /\ "packages" \in Walking
          /\ (e.kind = "dir" /\ ~FS!Skipped(e)) \in BOOLEAN
        BY <2>1 DEF PackageSeen, Walking
    <3>2. /\ Alone(q) /\ disk' = disk
                /\ mem'[q].todo = FS!After(q, e, e.kind = "dir" /\ ~FS!Skipped(e))
          /\ pc'[q] # "fileSize"
          /\ answer'[q] = "none" \/ (e.kind = "dir" /\ FS!Entry(e.at).kind # "dir")
        BY <2>1, PackageSeenIs
    <3> QED
        BY <3>1, <3>2, VisitStrolls
  <2>2. CASE FS!Finish(q, "packages")
    <3>1. Alone(q) /\ disk' = disk /\ pc'[q] = "done" /\ answer'[q] = "ok"
        BY <2>2, FinishIs
    <3> QED
        BY <3>1 DEF Strolls, Walking
  <2> QED
      BY <1>4, <2>1, <2>2, HaltIs DEF FS!Packages, PackageSeen, Package
<1>5. CASE FS!Merge(q)
  <2>1. Alone(q) /\ disk' = disk /\ pc'[q] = "done" /\ answer'[q] = "ok"
      BY <1>5, MergeIs
  <2> QED
      BY <2>1 DEF Strolls, Walking
<1> QED
    BY <1>1, <1>2, <1>3, <1>4, <1>5 DEF FS!Search

-----------------------------------------------------------------------------
(* What a walk has listed is still what it was, unless others race with it.    *)
LEMMA TodoIs ==
    ASSUME NEW q \in Call, mem[q] \in MemType
    PROVE  \A e \in Todo(q) : e.at \in Spot \ {FS!Top} /\ e.kind \in Kind
<1>1. mem[q].todo \in Lists
    BY DEF MemType, Lists, Item
<1>2. \A x \in FS!ToSet(mem[q].todo) : x \in SUBSET Item
    BY <1>1 DEF FS!ToSet, Lists
<1> QED
    BY <1>2 DEF Todo, Item

(* What others do to the entries that are ahead of a walk.                     *)
LEMMA StaleOthers ==
    ASSUME Shaped, Shaped', NEW q \in Call, Alone(q), Changes(q), NEW r \in Call \ {q},
           StaleShape(r)
    PROVE  StaleShape(r)'
<1> DEFINE ops == {"rename", "delete", "write"}
<1>1. /\ pc'[r] = pc[r] /\ mem'[r] = mem[r]
      /\ FS!RacedBy(r, ops)' <=> FS!RacedBy(r, ops)
    BY RaceIs DEF Alone, Held
<1>2. Todo(r)' = Todo(r)
    BY <1>1 DEF Todo
<1>3. CASE FS!RacedBy(r, ops)
    BY <1>1, <1>3 DEF StaleShape
<1>4. CASE ~FS!RacedBy(r, ops)
  <2>1. Leaves(q) \/ Makes(q)
    <3>1. arg[q].op \notin ops
        BY <1>4, RaceIs
    <3> QED
        BY <3>1 DEF Changes, Removes, Renames
  <2>2. CASE Leaves(q)
    <3>1. PICK a : a = mem[r].at
        OBVIOUS
    <3>2. (\A p : FS!Entry(p)' = FS!Entry(p)) /\ FS!Stat(a)' = FS!Stat(a)
        BY <2>2, SameIs DEF Leaves
    <3>3. FS!Stat(mem[r].at)' = FS!Stat(mem[r].at)
      <4>1. FS!Stat(mem[r].at)' = FS!Stat(a)'
          BY <1>1, <3>1
      <4> QED
          BY <3>1, <3>2, <4>1
    <3> QED
        BY <1>1, <1>2, <3>2, <3>3 DEF StaleShape
  <2>3. CASE Makes(q)
    <3>1. PICK x \in FS!Path : FS!Entry(x) = FS!Missing /\ Put(x, FS!Dir)
        BY <2>3, MakesIs
    <3>2. /\ DiskShape /\ DiskShape' /\ mem[r] \in MemType
        BY OpIs DEF Shaped
    <3>3. \A e \in Todo(r) : FS!Entry(e.at).kind = e.kind => FS!Entry(e.at)'.kind = e.kind
      <4>1. \A e \in Todo(r) : e.kind # "missing"
          BY <3>2, TodoIs DEF Kind
      <4> QED
          BY <3>1, <4>1, StoredIs DEF Put
    <3>4. PICK a \in Spot : a = mem[r].at
        BY <3>2 DEF MemType
    <3>5. FS!Stat(a).kind = "file" => FS!Stat(a)' = FS!Stat(a)
      <4>1. FS!Stat(FS!Top).kind = "dir"
          BY <3>2, EntryIs, PlaceIs, StatIs, StoredIs DEF Dirs
      <4>2. FS!Stat(a).kind = "file" => a # FS!Top /\ FS!Exists(a)
          BY <4>1 DEF FS!Exists
      <4> QED
          BY <3>1, <3>2, <4>2, StatKept
    <3>6. FS!Stat(mem[r].at)' = FS!Stat(a)' /\ FS!Stat(mem[r].at) = FS!Stat(a)
        BY <1>1, <3>4
    <3> QED
        BY <1>1, <1>2, <1>4, <3>3, <3>5, <3>6 DEF StaleShape
  <2> QED
      BY <2>1, <2>2, <2>3
<1> QED
    BY <1>3, <1>4

(* The listing a walk makes is what is there.                                  *)
LEMMA StaleOwn ==
    ASSUME Shaped, NEW q \in Call, Strolls(q), StaleShape(q)
    PROVE  StaleShape(q)'
<1> DEFINE race == FS!RacedBy(q, {"rename", "delete", "write"})
<1>1. Alone(q) /\ disk' = disk /\ (FS!RacedBy(q, {"rename", "delete", "write"})' <=> race)
    BY RaceIs DEF Strolls
<1>2. \A p : FS!Entry(p)' = FS!Entry(p)
    BY <1>1, SameIs
<1>3. ASSUME pc'[q] \in Walking, NEW x \in Todo(q)' PROVE FS!Entry(x.at)'.kind = x.kind \/ race
  <2>1. pc[q] \in Walking /\ (x \in Todo(q) \/ \E d : x \in FS!Listing(d))
      BY <1>3 DEF Strolls
  <2>2. CASE x \in Todo(q)
      BY <1>2, <2>1, <2>2 DEF StaleShape
  <2>3. CASE \E d : x \in FS!Listing(d)
    <3>1. x.at \in DOMAIN disk \ {FS!Top} /\ x.kind = disk[x.at].kind
        BY <2>3, ListingIs DEF Shaped
    <3> QED
        BY <1>2, <3>1, EntryIs DEF Shaped
  <2> QED
      BY <2>1, <2>2, <2>3
<1>4. pc'[q] = "fileSize" => FS!Stat(mem[q].at)'.kind = "file"
  <2>1. PICK b : b = mem'[q].at
      OBVIOUS
  <2>2. FS!Stat(b)' = FS!Stat(b) /\ FS!Stat(mem[q].at)' = FS!Stat(b)'
      BY <1>1, <2>1, SameIs
  <2> QED
      BY <2>1, <2>2 DEF Strolls
<1> QED
    BY <1>1, <1>3, <1>4 DEF StaleShape

(* A request that is not a walk has nothing listed.                            *)
LEMMA StaleElse ==
    ASSUME Shaped, NEW q \in Call, Alone(q), arg[q].op \notin {"search", "tree", "packages"}
    PROVE  StaleShape(q)'
<1>1. pc'[q] \notin Walking /\ pc'[q] # "fileSize"
    BY DEF Alone, OpOf, Walking, Ops
<1> QED
    BY <1>1 DEF StaleShape

-----------------------------------------------------------------------------
(* Links that go round.  Only a rename moves a link.                           *)
LEMMA LinksKept ==
    ASSUME Shaped, NEW q \in Call, Changes(q), ~Renames(q)
    PROVE  \A p : FS!Entry(p)'.kind = "link" => FS!Entry(p)' = FS!Entry(p)
<1>1. CASE Makes(q)
    BY <1>1, MakesIs, StoredIs DEF Put
<1>2. CASE ~Makes(q)
    BY <1>2, NoneMade
<1> QED
    BY <1>1, <1>2

(* So no other request makes one go round.                                     *)
LEMMA LoopsLess ==
    ASSUME Shaped, Shaped', NEW q \in Call, Changes(q), ~Renames(q), NEW p \in FS!Path,
           FS!Loops(p)'
    PROVE  FS!Loops(p)
<1>1. DiskShape /\ DiskShape'
    BY DEF Shaped
<1>2. ASSUME NEW x, FS!GoesRound(x)' PROVE FS!GoesRound(x) /\ FS!Entry(x)' = FS!Entry(x)
  <2>1. FS!Entry(x)'.kind = "link"
      BY <1>2 DEF FS!GoesRound, FS!Follow
  <2>2. FS!Entry(x)' = FS!Entry(x)
      BY <2>1, LinksKept
  <2>3. PICK y : y = FS!Follow(x)
      OBVIOUS
  <2>4. FS!Follow(x)' = y
      BY <2>2, <2>3 DEF FS!Follow
  <2>5. FS!Entry(y)'.kind = "link"
    <3>1. FS!Entry(FS!Follow(x))' = FS!Entry(y)'
        BY <2>4
    <3> QED
        BY <1>2, <3>1 DEF FS!GoesRound
  <2>6. FS!Entry(y)' = FS!Entry(y)
      BY <2>5, LinksKept
  <2> QED
      BY <2>2, <2>3, <2>5, <2>6 DEF FS!GoesRound
<1>3. PICK d : d = FS!Front(p) /\ d \in Dirs /\ p # FS!Top /\ p = Append(d, FS!Last(p))
    BY <1>1, PlaceIs, SpotIs
<1>4. /\ FS!Place(p) = Append(FS!Follow(d), FS!Last(p))
      /\ FS!Place(p)' = Append(FS!Follow(d)', FS!Last(p))
    BY <1>3 DEF FS!Place
<1>5. CASE FS!GoesRound(d)'
    BY <1>2, <1>3, <1>5 DEF FS!Loops
<1>6. CASE ~FS!GoesRound(d)'
  <2>1. PICK b : b = FS!Place(p)'
      OBVIOUS
  <2>2. FS!GoesRound(b)'
    <3>1. FS!GoesRound(FS!Front(p))' \/ FS!GoesRound(FS!Place(p))'
        BY DEF FS!Loops
    <3>2. FS!GoesRound(FS!Place(p))' <=> FS!GoesRound(b)'
        BY <2>1 DEF FS!GoesRound, FS!Follow
    <3> QED
        BY <1>3, <1>6, <3>1, <3>2
  <2>3. FS!GoesRound(b) /\ FS!Entry(b)' = FS!Entry(b)
      BY <1>2, <2>2
  <2>4. CASE FS!Entry(d)'.kind = "link"
    <3>1. FS!Follow(d)' = FS!Follow(d)
      <4>1. FS!Entry(d)' = FS!Entry(d)
          BY <2>4, LinksKept
      <4> QED
          BY <4>1 DEF FS!Follow
    <3> QED
        BY <1>4, <2>1, <2>3, <3>1 DEF FS!Loops
  <2>5. CASE FS!Entry(d)'.kind # "link"
    <3>1. b = p
        BY <1>3, <1>4, <2>1, <2>5 DEF FS!Follow
    <3>2. FS!Entry(d) = FS!Dir
      <4>1. p \in DOMAIN disk
          BY <1>1, <2>3, <3>1, RoundIs
      <4> QED
          BY <1>1, <1>3, <4>1, EntryIs
    <3>3. FS!Place(p) = p
        BY <1>3, <1>4, <3>2, StoredIs DEF FS!Follow
    <3> QED
        BY <2>3, <3>1, <3>3 DEF FS!Loops
  <2> QED
      BY <2>4, <2>5
<1> QED
    BY <1>5, <1>6

(* And one that goes round does so until another changes it.                   *)
LEMMA LoopsStay ==
    ASSUME Shaped, NEW q \in Call, Leaves(q) \/ Makes(q)
    PROVE  /\ \A x : FS!GoesRound(x) => FS!GoesRound(x)'
           /\ \A p \in FS!Path : FS!Loops(p) => FS!Loops(p)'
<1>1. DiskShape
    BY DEF Shaped
<1>2. \A x : FS!Entry(x) # FS!Missing => FS!Entry(x)' = FS!Entry(x)
    BY LeavesIs, MakesIs DEF Put
<1>3. \A x : FS!Entry(x).kind = "link" => FS!Entry(x)' = FS!Entry(x)
    BY <1>2, StoredIs
<1>4. ASSUME NEW x, FS!GoesRound(x) PROVE FS!GoesRound(x)'
  <2>1. PICK y : y = FS!Follow(x)
      OBVIOUS
  <2>2. FS!Entry(x).kind = "link" /\ FS!Entry(y).kind = "link"
      BY <1>1, <1>4, <2>1, RoundIs DEF FS!GoesRound
  <2>3. FS!Entry(x)' = FS!Entry(x) /\ FS!Entry(y)' = FS!Entry(y)
      BY <1>3, <2>2
  <2>4. FS!Follow(x)' = y
      BY <2>1, <2>3 DEF FS!Follow
  <2>5. FS!Entry(FS!Follow(x))' = FS!Entry(y)'
      BY <2>4
  <2> QED
      BY <2>2, <2>3, <2>5 DEF FS!GoesRound
<1>5. ASSUME NEW p \in FS!Path, FS!Loops(p) PROVE FS!Loops(p)'
  <2>1. PICK d : d = FS!Front(p) /\ d \in Dirs /\ p # FS!Top /\ p = Append(d, FS!Last(p))
      BY <1>1, PlaceIs, SpotIs
  <2>2. /\ FS!Place(p) = Append(FS!Follow(d), FS!Last(p))
        /\ FS!Place(p)' = Append(FS!Follow(d)', FS!Last(p))
      BY <2>1 DEF FS!Place
  <2>3. CASE FS!GoesRound(d)
    <3>1. FS!GoesRound(d)'
        BY <1>4, <2>3
    <3> QED
        BY <2>1, <3>1 DEF FS!Loops
  <2>4. CASE ~FS!GoesRound(d)
    <3>1. PICK b : b = FS!Place(p)
        OBVIOUS
    <3>2. FS!GoesRound(b)
        BY <1>5, <2>1, <2>4, <3>1 DEF FS!Loops
    <3>3. FS!Entry(d)' = FS!Entry(d)
      <4>1. CASE FS!Entry(d).kind = "link"
          BY <1>3, <4>1
      <4>2. CASE FS!Entry(d).kind # "link"
        <5>1. b = p
            BY <2>1, <2>2, <3>1, <4>2 DEF FS!Follow
        <5>2. p \in DOMAIN disk
            BY <1>1, <3>2, <5>1, RoundIs
        <5>3. FS!Entry(d) = FS!Dir
            BY <1>1, <2>1, <5>2, EntryIs
        <5> QED
            BY <1>2, <5>3, StoredIs
      <4> QED
          BY <4>1, <4>2
    <3>4. FS!Place(p)' = b
        BY <2>2, <3>1, <3>3 DEF FS!Follow
    <3>5. FS!GoesRound(FS!Place(p))'
      <4>1. FS!GoesRound(b)'
          BY <1>4, <3>2
      <4>2. FS!GoesRound(FS!Place(p))' <=> FS!GoesRound(b)'
          BY <3>4 DEF FS!GoesRound, FS!Follow
      <4> QED
          BY <4>1, <4>2
    <3> QED
        BY <3>5 DEF FS!Loops
  <2> QED
      BY <2>3, <2>4
<1> QED
    BY <1>4, <1>5

(* Both depend on the disk alone.                                              *)
LEMMA LoopsSame ==
    ASSUME disk' = disk
    PROVE  \A p : (FS!GoesRound(p)' <=> FS!GoesRound(p)) /\ (FS!Loops(p)' <=> FS!Loops(p))
<1>1. ASSUME NEW p PROVE FS!GoesRound(p)' <=> FS!GoesRound(p)
    BY DEF FS!GoesRound, FS!Follow, FS!Entry
<1>2. ASSUME NEW p PROVE FS!Loops(p)' <=> FS!Loops(p)
  <2>1. PICK b : b = FS!Place(p)
      OBVIOUS
  <2>2. FS!Place(p)' = b
      BY <2>1, SameIs
  <2>3. FS!GoesRound(FS!Place(p))' <=> FS!GoesRound(b)'
      BY <2>2 DEF FS!GoesRound, FS!Follow
  <2> QED
      BY <1>1, <2>1, <2>3 DEF FS!Loops
<1> QED
    BY <1>1, <1>2

(* Whether a request has met one depends on the disk and its parameters.       *)
LEMMA MetSame ==
    ASSUME disk' = disk, NEW r \in Call, arg'[r] = arg[r]
    PROVE  FS!LoopMet(r)' <=> FS!LoopMet(r)
<1>1. PICK m : m = FS!Made(arg[r])
    OBVIOUS
<1>2. FS!Loops(FS!Made(arg[r]))' <=> FS!Loops(m)'
  <2>1. FS!Made(arg[r])' = m
      BY <1>1
  <2> QED
      BY <2>1 DEF FS!Loops, FS!Place, FS!GoesRound, FS!Follow
<1> QED
    BY <1>1, <1>2, LoopsSame DEF FS!LoopMet

(* The paths it works on are free of them if they were before.                 *)
LEMMA LoopStays ==
    ASSUME NEW r \in Call, LoopShape(r), disk' = disk, arg'[r] = arg[r],
           Active(r)' => Active(r),
           mem'[r].at = mem[r].at, mem'[r].to = mem[r].to,
           FS!RacedBy(r, {"rename"}) => FS!RacedBy(r, {"rename"})'
    PROVE  LoopShape(r)'
<1>1. PICK a, b : a = mem[r].at /\ b = mem[r].to
    OBVIOUS
<1>2. /\ FS!Loops(mem[r].at)' <=> FS!Loops(a)'
      /\ FS!Loops(mem[r].to)' <=> FS!Loops(b)'
  <2>1. mem'[r].at = a /\ mem'[r].to = b
      BY <1>1
  <2> QED
      BY <2>1 DEF FS!Loops, FS!Place, FS!GoesRound, FS!Follow
<1>3. (FS!Loops(a)' <=> FS!Loops(a)) /\ (FS!Loops(b)' <=> FS!Loops(b))
    BY LoopsSame
<1> QED
    BY <1>1, <1>2, <1>3 DEF LoopShape

(* A path is free of them if the directory it is in is not, and the validator  *)
(* gives one that is.                                                          *)
LEMMA LoopsAbove ==
    ASSUME DiskShape, NEW p \in FS!Path, FS!Loops(FS!Front(p))
    PROVE  FS!Loops(p)
<1>1. PICK d \in Dirs : d = FS!Front(p)
    BY PlaceIs
<1>2. d # FS!Top /\ FS!Place(d) = d
    BY <1>1, TopIs, PlaceIs
<1>3. FS!Front(d) = FS!Top
    BY <1>2, PathFacts DEF Dirs
<1>4. ~FS!GoesRound(FS!Top)
    BY EntryIs, RoundIs, StoredIs
<1> QED
    BY <1>1, <1>2, <1>3, <1>4 DEF FS!Loops

LEMMA LoopsFree ==
    ASSUME DiskShape, NEW p \in FS!Path, FS!Exists(p) \/ ~FS!Loops(p)
    PROVE  ~FS!Loops(FS!Resolved(p))
<1>1. /\ FS!Front(p) \in Dirs /\ FS!Place(p) \in FS!Path /\ FS!Follow(FS!Place(p)) \in FS!Path
      /\ FS!Front(FS!Place(p)) = FS!Follow(FS!Front(p))
    BY PlaceIs
<1>2. ASSUME NEW x \in FS!Path, FS!Entry(FS!Front(x)).kind # "link" PROVE FS!Place(x) = x
          /\ (FS!Loops(x) => FS!GoesRound(x))
  <2>1. ~FS!GoesRound(FS!Front(x))
      BY <1>2, RoundIs
  <2> QED
      BY <1>2, <2>1, PlaceIs DEF FS!Loops
<1>3. CASE FS!Exists(p)
  <2>1. PICK x \in FS!Path : x = FS!Follow(FS!Place(p)) /\ x = FS!Resolved(p)
      BY <1>1, <1>3 DEF FS!Resolved
  <2>2. FS!Entry(x).kind \in {"file", "dir"}
      BY <1>3, <2>1, StatIs DEF FS!Exists
  <2>3. FS!Entry(FS!Front(x)) = FS!Dir
      BY <2>2, EntryIs, SpotIs
  <2>4. ~FS!GoesRound(x)
      BY <2>2, RoundIs
  <2> QED
      BY <1>2, <2>1, <2>3, <2>4, StoredIs
<1>4. CASE ~FS!Exists(p) /\ FS!Exists(FS!Front(p))
  <2>1. FS!Resolved(p) = FS!Place(p)
      BY <1>4 DEF FS!Resolved
  <2>2. FS!Place(FS!Front(p)) = FS!Front(p)
      BY <1>1, PlaceIs
  <2>3. FS!Entry(FS!Front(FS!Place(p))).kind \in {"file", "dir"}
      BY <1>1, <1>4, <2>2, StatIs DEF FS!Exists
  <2>4. ~FS!GoesRound(FS!Place(p))
      BY <1>4 DEF FS!Loops
  <2> QED
      BY <1>1, <1>2, <2>1, <2>3, <2>4
<1>5. CASE ~FS!Exists(p) /\ ~FS!Exists(FS!Front(p))
    BY <1>5 DEF FS!Resolved
<1> QED
    BY <1>3, <1>4, <1>5

(* A request that has begun meets none, unless a link is moved.                *)
LEMMA LoopKept ==
    ASSUME Shaped, Shaped', NEW q \in Call, Alone(q), Changes(q), NEW r \in Call, LoopShape(r),
           r = q => pc'[q] = "done" \/ ~Renames(q)
    PROVE  LoopShape(r)'
<1> SUFFICES ASSUME Active(r)', arg[r].op \notin FS!Walks
             PROVE  \/ /\ ~FS!Loops(mem[r].at)'
                       /\ arg[r].op = "rename" => ~FS!Loops(mem[r].to)'
                    \/ FS!RacedBy(r, {"rename"})'
    BY DEF LoopShape, Alone
<1>1. Active(r) /\ (FS!RacedBy(r, {"rename"})' <=> FS!RacedBy(r, {"rename"}))
    BY RaceIs DEF Alone, Active
<1>2. CASE FS!RacedBy(r, {"rename"})
    BY <1>1, <1>2
<1>3. CASE ~FS!RacedBy(r, {"rename"})
  <2>1. ~Renames(q)
    <3>1. r # q => ~Renames(q)
        BY <1>3, RaceIs DEF Renames
    <3>2. r = q => ~Renames(q)
        BY DEF Active
    <3> QED
        BY <3>1, <3>2
  <2>2. /\ mem'[r].at = mem[r].at /\ mem'[r].to = mem[r].to
        /\ mem[r].at \in FS!Path /\ (arg[r].op = "rename" => mem[r].to \in FS!Path)
        /\ ~FS!Loops(mem[r].at) /\ (arg[r].op = "rename" => ~FS!Loops(mem[r].to))
    <3>1. arg[r].op \in Ops \ FS!Walks
        BY <1>1, OpIs
    <3>2. arg[r].op # "tree" /\ arg[r].op \in {"read", "write", "delete", "rename", "mkdir"}
        BY <3>1 DEF FS!Walks, Ops
    <3> QED
        BY <1>1, <1>3, <3>1, <3>2, OpIs DEF LoopShape, Alone, Held
  <2>3. PICK a, b : a = mem[r].at /\ b = mem[r].to
      OBVIOUS
  <2>4. ~FS!Loops(a)' /\ (arg[r].op = "rename" => ~FS!Loops(b)')
      BY <2>1, <2>2, <2>3, LoopsLess
  <2>5. (FS!Loops(mem[r].at)' <=> FS!Loops(a)') /\ (FS!Loops(mem[r].to)' <=> FS!Loops(b)')
    <3>1. mem'[r].at = a /\ mem'[r].to = b
        BY <2>2, <2>3
    <3> QED
        BY <3>1 DEF FS!Loops, FS!Place, FS!GoesRound, FS!Follow
  <2> QED
      BY <2>4, <2>5
<1> QED
    BY <1>2, <1>3

(* The directory of a temporary file is there until another changes the tree.  *)
LEMMA HomeKept ==
    ASSUME Shaped, Shaped', NEW q \in Call, Alone(q), NEW r \in Call, HomeShape(r),
           pc[r] \in {"fill", "replace"}, mem'[r].at = mem[r].at,
           FS!Entry(FS!Front(FS!FileOf(r))).kind = "dir",
           \A p : FS!Entry(p).kind \in {"dir", "link"} => FS!Entry(p)' = FS!Entry(p)
    PROVE  FS!Entry(FS!Front(FS!FileOf(r)))'.kind = "dir"
<1>1. arg[r].op = "write" /\ mem[r].at \in FS!Path /\ DiskShape
    BY OpIs DEF Shaped
<1>2. PICK d, t : /\ d = FS!Front(mem[r].at) /\ t = FS!Follow(d) /\ d \in Dirs
                  /\ FS!Front(FS!FileOf(r)) = t
    BY <1>1, FileIs
<1>3. FS!Entry(t)' = FS!Entry(t)
    BY <1>2
<1>4. FS!Follow(d)' = t
    BY <1>2, <1>3 DEF FS!Follow
<1>5. FS!Follow(FS!Front(mem[r].at))' = FS!Follow(FS!Front(mem[r].at))
  <2>1. FS!Front(mem[r].at)' = d
      BY <1>2
  <2> QED
      BY <1>2, <1>4, <2>1
<1>6. FS!FileOf(r)' = FS!FileOf(r)
    BY <1>1, <1>5, FileOfNext
<1>7. FS!Front(FS!FileOf(r))' = t
  <2>1. PICK f : f = FS!FileOf(r)
      OBVIOUS
  <2> QED
      BY <1>2, <1>6, <2>1
<1> QED
    BY <1>2, <1>3, <1>7

LEMMA HomeOthers ==
    ASSUME Shaped, Shaped', NEW q \in Call, Alone(q), Changes(q), NEW r \in Call \ {q},
           HomeShape(r)
    PROVE  HomeShape(r)'
<1> DEFINE ops == {"rename", "delete", "write"}
<1>1. /\ pc'[r] = pc[r] /\ mem'[r] = mem[r]
      /\ FS!RacedBy(r, ops)' <=> FS!RacedBy(r, ops)
    BY RaceIs DEF Alone, Held
<1>2. CASE FS!RacedBy(r, ops)
    BY <1>1, <1>2 DEF HomeShape
<1>3. CASE ~FS!RacedBy(r, ops)
  <2>1. Leaves(q) \/ Makes(q)
    <3>1. arg[q].op \notin ops
        BY <1>3, RaceIs
    <3> QED
        BY <3>1 DEF Changes, Removes, Renames
  <2>2. \A p : FS!Entry(p).kind \in {"dir", "link"} => FS!Entry(p)' = FS!Entry(p)
      BY <2>1, LeavesIs, MakesIs, StoredIs DEF Put
  <2> QED
      BY <1>1, <1>3, <2>2, HomeKept DEF HomeShape
<1> QED
    BY <1>2, <1>3

LEMMA HomeOwn ==
    ASSUME Shaped, Shaped', NEW q \in Call, FS!Write(q), HomeShape(q)
    PROVE  HomeShape(q)'
<1> DEFINE ops == {"rename", "delete", "write"}
<1>1. Alone(q) /\ arg[q].op = "write" /\ mem'[q].at = mem[q].at
    BY WritesAre DEF Alone, Held
<1>2. FS!RacedBy(q, ops)' <=> FS!RacedBy(q, ops)
    BY <1>1, RaceIs
<1>3. CASE Opens(q)
  <2>1. FS!FileOf(q)' = FS!FileOf(q)
      BY <1>1, <1>3, FileStays
  <2>2. PICK f, t : f = FS!FileOf(q) /\ t = FS!Front(f)
      OBVIOUS
  <2>3. FS!Entry(t).kind = "dir" /\ t # f
      BY <1>1, <1>3, <2>2, FileIs DEF Opens
  <2>4. FS!Entry(t)' = FS!Entry(t)
      BY <1>1, <1>3, <2>2, <2>3, OpensIs DEF Put
  <2>5. FS!Front(FS!FileOf(q))' = t
      BY <2>1, <2>2
  <2> QED
      BY <2>3, <2>4, <2>5 DEF HomeShape
<1>4. CASE Fills(q) \/ Cuts(q)
  <2>1. pc[q] = "fill"
      BY <1>4 DEF Fills, Cuts
  <2>2. \A p : FS!Entry(p).kind \in {"dir", "link"} => FS!Entry(p)' = FS!Entry(p)
      BY <1>4, FillsIs, LeavesIs, StoredIs DEF Completes
  <2> QED
      BY <1>1, <1>2, <2>1, <2>2, HomeKept DEF HomeShape
<1>5. CASE pc'[q] \notin {"fill", "replace"}
    BY <1>5 DEF HomeShape
<1> QED
    BY <1>3, <1>4, <1>5, WritesAre DEF Looks, Settles, Decides, Fails, Ends, Replaces, Drops

-----------------------------------------------------------------------------
(* Only others make a request fail for internal reasons, or a link that goes   *)
(* round, or a content that is not to be sent.                                 *)
LEMMA AnswerOthers ==
    ASSUME Shaped, NEW q \in Call, Alone(q), Changes(q), NEW r \in Call \ {q}, AnswerShape(r)
    PROVE  AnswerShape(r)'
<1> DEFINE ops == {"rename", "delete", "write"}
<1>1. /\ answer'[r] = answer[r] /\ mem'[r] = mem[r] /\ arg' = arg
      /\ FS!RacedBy(r, ops)' <=> FS!RacedBy(r, ops)
    BY RaceIs DEF Alone, Held
<1>2. CASE FS!RacedBy(r, ops)
    BY <1>1, <1>2 DEF AnswerShape
<1>3. CASE ~FS!RacedBy(r, ops)
  <2>1. Leaves(q) \/ Makes(q)
    <3>1. arg[q].op \notin ops
        BY <1>3, RaceIs
    <3> QED
        BY <3>1 DEF Changes, Removes, Renames
  <2>2. FS!LoopMet(r) => FS!LoopMet(r)'
    <3>1. PICK m : m = FS!Made(arg[r])
        OBVIOUS
    <3>2. FS!Loops(m) => FS!Loops(m)'
      <4>1. m \in FS!Path \/ m = FS!Top
        <5>1. arg[r] \in FS!Arg \cup {FS!NoArg}
            BY DEF Shaped, CallTypes
        <5> QED
            BY <3>1, <5>1, ArgIs DEF FS!Made, FS!NoArg, FS!Walks
      <4> QED
          BY <2>1, <4>1, LoopsStay, TopIs DEF Shaped
    <3>3. FS!Loops(FS!Made(arg[r]))' <=> FS!Loops(m)'
        BY <1>1, <3>1 DEF FS!Loops, FS!Place, FS!GoesRound, FS!Follow
    <3>4. (\E p \in DOMAIN disk : FS!GoesRound(p))
              => \E p \in DOMAIN disk' : FS!GoesRound(p)'
      <4>1. ASSUME NEW p \in DOMAIN disk, FS!GoesRound(p)
            PROVE  p \in DOMAIN disk' /\ FS!GoesRound(p)'
        <5>1. FS!GoesRound(p)'
            BY <2>1, <4>1, LoopsStay
        <5>2. DiskShape'
            BY <2>1, LeavesIs, MakesIs
        <5>3. FS!Entry(p)'.kind = "link"
            BY <5>1 DEF FS!GoesRound, FS!Follow
        <5> QED
            BY <5>1, <5>3, StoredIs DEF FS!Entry
      <4> QED
          BY <4>1
    <3> QED
        BY <1>1, <3>1, <3>2, <3>3, <3>4 DEF FS!LoopMet
  <2> QED
      BY <1>1, <1>3, <2>2 DEF AnswerShape, FS!GarbledRead
<1> QED
    BY <1>2, <1>3

(* A walk fails at what has changed, or goes round.                            *)
LEMMA AnswerWalks ==
    ASSUME Shaped, NEW q \in Call, Strolls(q), StaleShape(q)
    PROVE  AnswerShape(q)'
<1> DEFINE ops == {"rename", "delete", "write"}
<1>1. (FS!RacedBy(q, ops)' <=> FS!RacedBy(q, ops)) /\ arg' = arg /\ disk' = disk
    BY RaceIs DEF Strolls, Alone
<1>2. Meets(q) /\ pc[q] \in Walking => FS!RacedBy(q, ops)
    BY DEF Meets, StaleShape
<1>3. Halts(q) => answer'[q] = "INTERNAL_ERROR" /\ FS!LoopMet(q)'
  <2>1. Halts(q) => \E p \in DOMAIN disk' : FS!GoesRound(p)'
      BY <1>1, LoopsSame DEF Halts
  <2> QED
      BY <1>1, <2>1 DEF Halts, FS!LoopMet
<1> QED
    BY <1>1, <1>2, <1>3 DEF AnswerShape, Strolls

(* A read fails at what is no file any more, or at its content.                *)
LEMMA AnswerReads ==
    ASSUME Shaped, NEW q \in Call, ReadShape(q), LoopShape(q), FS!Read(q)
    PROVE  AnswerShape(q)'
<1> DEFINE ops == {"rename", "delete", "write"}
           p == mem[q].at
<1>1. Alone(q) /\ arg[q].op = "read" /\ Active(q) /\ answer[q] = "none" /\ CallTypes
  <2>1. arg[q].op = "read" /\ Active(q)
      BY OpIs DEF FS!Read, FS!Check
  <2> QED
      BY <2>1, ReadIs, OpIs DEF Shaped
<1>2. FS!RacedBy(q, ops)' <=> FS!RacedBy(q, ops)
    BY <1>1, RaceIs
<1>3. {"write", "rename", "delete"} = ops
    OBVIOUS
<1>4. FS!Loops(p) => FS!RacedBy(q, ops)
    BY <1>1 DEF LoopShape, FS!Walks, FS!RacedBy
<1>5. ASSUME answer'[q] \in {"INTERNAL_ERROR", "cut"}
      PROVE  \/ pc[q] \in {"content", "size"} /\ FS!Stat(p).kind # "file"
             \/ FS!Loops(p) /\ answer'[q] = "INTERNAL_ERROR"
             \/ /\ pc[q] = "size" /\ mem' = [mem EXCEPT ![q].size = FS!Stat(p).data]
                /\ mem[q].data \in Garbled
  <2>1. \A c \in Code : FS!Answer(q, c) => answer'[q] = c
      BY <1>1, AnswerIs
  <2>2. \A l : FS!Goto(q, l) => answer'[q] = "none"
      BY <1>1 DEF FS!Goto
  <2>3. {"ok", "FS_PATH_NOT_FOUND", "FS_IS_DIRECTORY", "INTERNAL_ERROR"} \subseteq Code
      BY DEF Code
  <2>4. \A c \in Code : FS!Thrown(p, c) \in Code /\ (~FS!Loops(p) => FS!Thrown(p, c) = c)
            /\ (FS!Loops(p) => FS!Thrown(p, c) = "INTERNAL_ERROR")
      BY ThrownIs
  <2> QED
      BY <1>5, <2>1, <2>2, <2>3, <2>4 DEF FS!Read, FS!Check
<1>6. answer'[q] # "cut"
  <2>1. \A c \in Code : FS!Answer(q, c) => answer'[q] = c
      BY <1>1, AnswerIs
  <2>2. \A l : FS!Goto(q, l) => answer'[q] = "none"
      BY <1>1 DEF FS!Goto
  <2>3. {"ok", "FS_PATH_NOT_FOUND", "FS_IS_DIRECTORY", "INTERNAL_ERROR"} \subseteq Code
      BY DEF Code
  <2>4. \A c \in Code : FS!Thrown(p, c) \in {c, "INTERNAL_ERROR"}
      BY DEF FS!Thrown
  <2> QED
      BY <2>1, <2>2, <2>3, <2>4 DEF FS!Read, FS!Check
<1>7. pc[q] \in {"content", "size"} /\ FS!Stat(p).kind # "file" => FS!RacedBy(q, ops)
    BY <1>3, StoredIs DEF ReadShape
<1>8. ASSUME mem' = [mem EXCEPT ![q].size = FS!Stat(p).data], mem[q].data \in Garbled
      PROVE  FS!GarbledRead(q)'
  <2>1. FS!Stat(p).data \in Content \cup {FS!Top}
      BY StatIs DEF Shaped
  <2>2. mem'[q].data = mem[q].data /\ arg' = arg
      BY <1>1, <1>8, <2>1, SetsSize DEF Alone
  <2> QED
      BY <1>1, <1>8, <2>2 DEF FS!GarbledRead
<1> QED
    BY <1>2, <1>4, <1>5, <1>6, <1>7, <1>8 DEF AnswerShape

(* Those that change the disk fail so only where a call throws.                *)
LEMMA AnswerElse ==
    ASSUME Shaped, NEW q \in Call, LoopShape(q), HomeShape(q),
           FS!Mkdir(q) \/ FS!Write(q) \/ FS!Delete(q) \/ FS!Rename(q)
    PROVE  AnswerShape(q)'
<1> DEFINE plain == {"none", "ok", "FS_PATH_NOT_FOUND", "FS_PATH_EXISTS", "FS_WRITE_FAILED",
                     "FS_NOT_EMPTY", "FS_PERMISSION_DENIED"}
           race == FS!RacedBy(q, {"rename", "delete", "write"})
           p == mem[q].at
           to == mem[q].to
<1>1. CallTypes /\ answer[q] = "none" /\ Active(q) /\ DiskShape
  <2>1. Active(q)
    <3>1. FS!Mkdir(q) => Active(q)
        BY DEF FS!Mkdir, FS!Check, FS!Parents, Active
    <3>2. FS!Write(q) => Active(q)
        BY DEF FS!Write, FS!Check, FS!Parents, Active
    <3>3. FS!Delete(q) => Active(q)
        BY DEF FS!Delete, FS!Check, FS!Go, Active
    <3>4. FS!Rename(q) => Active(q)
        BY DEF FS!Rename, FS!Check, Active
    <3> QED
        BY <3>1, <3>2, <3>3, <3>4
  <2> QED
      BY <2>1, OpIs DEF Shaped
<1>2. /\ \A c : FS!Answer(q, c) => answer'[q] = c
      /\ \A l : FS!Goto(q, l) => answer'[q] = "none"
    BY <1>1 DEF CallTypes, FS!Answer, FS!Goto
<1>3. /\ arg[q].op \in {"mkdir", "write", "delete", "rename"}
      /\ arg[q].op = "rename" <=> FS!Rename(q)
      /\ FS!RacedBy(q, {"rename", "delete", "write"})' <=> race
  <2>1. /\ arg[q].op = "mkdir" <=> FS!Mkdir(q)
        /\ arg[q].op = "write" <=> FS!Write(q)
        /\ arg[q].op = "delete" <=> FS!Delete(q)
        /\ arg[q].op = "rename" <=> FS!Rename(q)
      BY KindOfStep
  <2>2. Alone(q)
      BY ActiveIs
  <2> QED
      BY <2>1, <2>2, RaceIs
<1>4. FS!Loops(p) \/ FS!Loops(FS!Front(p)) => race
  <2>1. p \in FS!Path
      BY <1>3, OpIs
  <2>2. FS!Loops(p) => race
      BY <1>1, <1>3 DEF LoopShape, FS!Walks, FS!RacedBy
  <2> QED
      BY <1>1, <2>1, <2>2, LoopsAbove
<1>5. FS!Rename(q) /\ (FS!Loops(to) \/ FS!Loops(FS!Front(to))) => race
  <2>1. FS!Rename(q) => to \in FS!Path
      BY <1>3, OpIs
  <2>2. FS!Rename(q) /\ FS!Loops(to) => race
      BY <1>1, <1>3 DEF LoopShape, FS!Walks, FS!RacedBy
  <2> QED
      BY <1>1, <2>1, <2>2, LoopsAbove
<1>6. \A x : \A c \in plain : /\ FS!Thrown(x, c) \in plain \cup {"INTERNAL_ERROR"}
                              /\ ~FS!Loops(x) => FS!Thrown(x, c) \in plain
    BY DEF FS!Thrown
<1>7. ASSUME answer'[q] \in plain \/ (race /\ answer'[q] = "INTERNAL_ERROR")
      PROVE  AnswerShape(q)'
    BY <1>3, <1>7 DEF AnswerShape
<1> HIDE DEF race, p, to
<1>8. ASSUME NEW l, NEW good, NEW next, NEW x, NEW c \in plain, FS!Loops(x) => race,
             FS!Check(q, l, good, next, FS!Thrown(x, c))
      PROVE  AnswerShape(q)'
  <2>1. FS!Goto(q, next) \/ FS!Answer(q, FS!Thrown(x, c))
      BY <1>8 DEF FS!Check
  <2>2. answer'[q] = "none" \/ answer'[q] = FS!Thrown(x, c)
      BY <1>2, <2>1
  <2> QED
      BY <1>6, <1>7, <1>8, <2>2
<1>9. CASE FS!Mkdir(q)
  <2>1. CASE FS!Check(q, "free", ~FS!Exists(p) /\ ~FS!Loops(p),
                      IF arg[q].flag THEN "parents" ELSE "make",
                      FS!Thrown(p, "FS_PATH_EXISTS"))
      BY <1>4, <1>8, <2>1
  <2>2. CASE answer'[q] \in plain
      BY <1>7, <2>2
  <2> QED
      BY <1>2, <1>9, <2>1, <2>2 DEF FS!Mkdir, FS!Parents, p
<1>10. CASE FS!Write(q)
  <2>1. CASE FS!Check(q, "parent",
                 FS!Exists(FS!Front(p)) \/ (arg[q].flag /\ ~FS!Loops(FS!Front(p))),
                 IF FS!Exists(FS!Front(p)) THEN "exists" ELSE "parents",
                 FS!Thrown(FS!Front(p), "FS_PATH_NOT_FOUND"))
      BY <1>4, <1>8, <2>1
  <2>2. CASE answer'[q] \in plain \/ (FS!Loops(p) /\ answer'[q] = "INTERNAL_ERROR")
      BY <1>4, <1>7, <2>2
  <2>3. CASE pc[q] \in {"fill", "replace"} /\ FS!Undo(q)
    <3>1. \/ answer'[q] = "FS_WRITE_FAILED"
          \/ /\ answer'[q] = "INTERNAL_ERROR"
             /\ FS!Entry(FS!Front(FS!FileOf(q))).kind \notin {"dir", "missing"}
        BY <1>2, <2>3 DEF FS!Undo
    <3> QED
        BY <1>7, <2>3, <3>1 DEF HomeShape, race
  <2> QED
      BY <1>2, <1>10, <2>1, <2>2, <2>3 DEF FS!Write, FS!Parents, p
<1>11. CASE FS!Delete(q)
  <2>1. CASE FS!Check(q, "look", FS!Exists(p), "kind", FS!Thrown(p, "FS_PATH_NOT_FOUND"))
      BY <1>4, <1>8, <2>1
  <2>2. CASE answer'[q] \in plain \/ (FS!Loops(p) /\ answer'[q] = "INTERNAL_ERROR")
      BY <1>4, <1>7, <2>2
  <2> QED
      BY <1>2, <1>11, <2>1, <2>2 DEF FS!Delete, FS!Check, FS!Go, p
<1>12. CASE FS!Rename(q)
  <2>1. CASE FS!Check(q, "from", FS!Exists(p), "dest", FS!Thrown(p, "FS_PATH_NOT_FOUND"))
      BY <1>4, <1>8, <2>1
  <2>2. CASE FS!Check(q, "dest", FS!Free(to) /\ ~FS!Loops(to), "toParent",
                      FS!Thrown(to, "FS_PATH_EXISTS"))
      BY <1>5, <1>8, <1>12, <2>2
  <2>3. CASE FS!Check(q, "toParent", FS!Exists(FS!Front(to)), "move",
                      FS!Thrown(FS!Front(to), "FS_PATH_NOT_FOUND"))
      BY <1>5, <1>8, <1>12, <2>3
  <2>4. CASE answer'[q] \in plain
      BY <1>7, <2>4
  <2> QED
      BY <1>2, <1>12, <2>1, <2>2, <2>3, <2>4 DEF FS!Rename, p, to
<1> QED
    BY <1>9, <1>10, <1>11, <1>12

-----------------------------------------------------------------------------
(* What others change of each request, and what each makes of itself.          *)
RaceShape(r) ==
    /\ RenameShape(r) /\ WriteShape(r) /\ TempShape(r) /\ LinkShape(r)
    /\ StaleShape(r) /\ LoopShape(r) /\ HomeShape(r) /\ AnswerShape(r)
Misled == Reads /\ \A r \in Call : RaceShape(r)

(* A request that waits while the disk stays the same.                         *)
LEMMA RaceStays ==
    ASSUME NEW r \in Call, RaceShape(r), disk' = disk,
           arg'[r] = arg[r], mem'[r] = mem[r], pc'[r] = pc[r], answer'[r] = answer[r],
           \A ops : "none" \notin ops /\ FS!RacedBy(r, ops) => FS!RacedBy(r, ops)',
           Strayed(r) => Strayed(r)', Prepared(r) => Prepared(r)'
    PROVE  RaceShape(r)'
<1>1. /\ FS!RacedBy(r, {"write", "rename", "mkdir"})
            => FS!RacedBy(r, {"write", "rename", "mkdir"})'
      /\ FS!RacedBy(r, Writers) => FS!RacedBy(r, Writers)'
      /\ FS!RacedBy(r, {"rename"}) => FS!RacedBy(r, {"rename"})'
      /\ FS!RacedBy(r, {"rename", "delete", "write"})
            => FS!RacedBy(r, {"rename", "delete", "write"})'
    BY DEF Writers
<1>2. PICK a, b, x : a = mem[r].at /\ b = mem[r].to /\ x = FS!Temp(r)
    OBVIOUS
<1>3. /\ FS!Exists(mem[r].at)' <=> FS!Exists(mem[r].at)
      /\ Empty(mem[r].at)' <=> Empty(mem[r].at)
  <2>1. (FS!Exists(a)' <=> FS!Exists(a)) /\ (Empty(a)' <=> Empty(a))
      BY SameIs
  <2>2. (FS!Exists(mem[r].at)' <=> FS!Exists(a)') /\ (Empty(mem[r].at)' <=> Empty(a)')
      BY <1>2
  <2> QED
      BY <1>2, <2>1, <2>2
<1>4. RenameShape(r)'
  <2>1. Empty(b)' <=> Empty(b)
      BY SameIs
  <2>2. /\ Empty(b) <=> FS!Entry(FS!Place(mem[r].to)).kind \notin {"file", "dir"}
        /\ Empty(b)' <=> FS!Entry(FS!Place(mem[r].to))'.kind \notin {"file", "dir"}
      BY <1>2 DEF Empty
  <2> QED
      BY <1>1, <2>1, <2>2 DEF RaceShape, RenameShape, FS!Replaced
<1>5. WriteShape(r)'
    BY <1>1, <1>3 DEF RaceShape, WriteShape, FS!Replaced, FS!Ok
<1>6. TempShape(r)'
  <2>1. Temps(r)' = Temps(r)
      BY DEF Temps
  <2>2. FS!FileOf(r)' = FS!FileOf(r)
    <3>1. FS!Temp(r)' = x
        BY <1>2 DEF FS!Temp
    <3>2. FS!FileOf(r)' = FS!Place(x)'
        BY <3>1 DEF FS!FileOf
    <3> QED
        BY <1>2, <3>2, SameIs DEF FS!FileOf
  <2> QED
      BY <2>1, <2>2 DEF RaceShape, TempShape
<1>7. LinkShape(r)'
  <2>1. PICK d : d = FS!Front(mem[r].at)
      OBVIOUS
  <2>2. Linked(r)' <=> Linked(r)
      BY <2>1 DEF Linked, FS!Entry
  <2>3. FS!Entry(FS!Follow(FS!Front(mem[r].at)))' = FS!Entry(FS!Follow(FS!Front(mem[r].at)))
      BY <2>1 DEF FS!Follow, FS!Entry
  <2> QED
      BY <1>1, <2>2, <2>3 DEF RaceShape, LinkShape
<1>8. StaleShape(r)'
  <2>1. Todo(r)' = Todo(r) /\ \A p : FS!Entry(p)' = FS!Entry(p)
      BY SameIs DEF Todo
  <2>2. FS!Stat(mem[r].at)' = FS!Stat(mem[r].at)
    <3>1. FS!Stat(mem[r].at)' = FS!Stat(a)' /\ FS!Stat(a)' = FS!Stat(a)
        BY <1>2, SameIs
    <3> QED
        BY <1>2, <3>1
  <2> QED
      BY <1>1, <2>1, <2>2 DEF RaceShape, StaleShape
<1>9. AnswerShape(r)'
  <2>1. FS!LoopMet(r)' <=> FS!LoopMet(r)
      BY MetSame
  <2>2. FS!GarbledRead(r)' <=> FS!GarbledRead(r)
      BY DEF FS!GarbledRead
  <2> QED
      BY <1>1, <2>1, <2>2 DEF RaceShape, AnswerShape
<1>10. LoopShape(r)'
  <2>1. Active(r)' => Active(r)
      BY DEF Active
  <2> QED
      BY <1>1, <2>1, LoopStays DEF RaceShape
<1>11. HomeShape(r)'
  <2>1. PICK f : f = FS!FileOf(r)
      OBVIOUS
  <2>2. FS!FileOf(r)' = f
    <3>1. FS!Temp(r)' = x
        BY <1>2 DEF FS!Temp
    <3>2. FS!FileOf(r)' = FS!Place(x)'
        BY <3>1 DEF FS!FileOf
    <3> QED
        BY <1>2, <2>1, <3>2, SameIs DEF FS!FileOf
  <2>3. FS!Entry(FS!Front(FS!FileOf(r)))' = FS!Entry(FS!Front(FS!FileOf(r)))
      BY <2>1, <2>2 DEF FS!Entry
  <2> QED
      BY <1>1, <2>3 DEF RaceShape, HomeShape
<1> QED
    BY <1>4, <1>5, <1>6, <1>7, <1>8, <1>9, <1>10, <1>11 DEF RaceShape

(* A request that begins.                                                      *)
LEMMA MisledBegun ==
    ASSUME Shaped, NEW q \in Call, NEW a \in FS!Arg, FS!Begin(q, a), NEW r \in Call,
           RaceShape(r)
    PROVE  RaceShape(r)'
<1>1. CASE r # q
  <2>1. /\ disk' = disk /\ arg'[r] = arg[r] /\ mem'[r] = mem[r] /\ pc'[r] = pc[r]
        /\ answer'[r] = answer[r]
      BY <1>1, BeginIs
  <2> QED
      BY <1>1, <2>1, RaceBegun, StrayBegun, RaceStays
<1>2. CASE r = q
  <2>1. /\ disk' = disk /\ arg'[q] = a /\ a.op \in Ops /\ pc[q] = "none" /\ DiskShape
        /\ mem'[q].at = FS!Resolved(a.path) /\ mem'[q].to = FS!Resolved(a.to)
        /\ mem'[q].over = FS!Missing
        /\ mem'[q].todo = IF a.op \in FS!Walks THEN FS!Pushed(<<>>, FS!Listing(FS!Top))
                             ELSE <<>>
      BY ArgIs, BeginIs DEF Shaped
  <2>2. \/ pc'[q] = "done" /\ answer'[q] = "FS_PATH_NOT_FOUND" /\ a.op \in FS!MustExist
        \/ /\ pc'[q] = "done" /\ answer'[q] = "INTERNAL_ERROR" /\ a.op \notin FS!Walks
           /\ FS!Loops(FS!Made(a))
        \/ /\ pc'[q] = FS!First(a.op) /\ answer'[q] = "none"
           /\ a.op \in FS!MustExist => FS!Exists(a.path)
           /\ ~FS!Loops(FS!Made(a))
      BY BeginIs
  <2>3. /\ FS!First(a.op) \notin {"toParent", "move", "parents", "exists", "open", "fill",
              "replace",
                               "fileSize", "done"}
        /\ a.op \notin {"search", "tree", "packages"} => FS!First(a.op) \notin Walking
      BY <2>1 DEF FS!First, Ops, Walking
  <2>4. RenameShape(q)'
      BY <2>1, <2>2, <2>3, StoredIs DEF RenameShape, FS!Replaced
  <2>5. a.op = "write" =>
            /\ FS!Exists(mem'[q].at) <=> ~Empty(mem'[q].at)
            /\ FS!Entry(FS!Front(mem'[q].at)).kind = "link" =>
                   FS!Entry(FS!Follow(FS!Front(mem'[q].at))).kind # "dir"
    <3>1. a.op = "write" => a.path \in FS!Path
        BY ArgIs DEF FS!Walks
    <3> QED
        BY <2>1, <3>1, ResolvedIs
  <2>6. PICK b : b = mem'[q].at
      OBVIOUS
  <2>7. WriteShape(q)'
    <3>1. /\ FS!Exists(mem[q].at)' <=> FS!Exists(b)
          /\ Empty(mem[q].at)' <=> Empty(b)
      <4>1. (FS!Exists(mem[q].at)' <=> FS!Exists(b)') /\ (Empty(mem[q].at)' <=> Empty(b)')
          BY <2>6
      <4> QED
          BY <2>1, <4>1, SameIs
    <3> QED
        BY <2>1, <2>2, <2>3, <2>5, <2>6, <3>1 DEF WriteShape, FS!Ok, FS!MustExist
  <2>8. TempShape(q)'
    <3>1. Temps(q)' = {}
        BY <1>2, <2>1 DEF Temps, RaceShape, TempShape
    <3> QED
        BY <2>2, <2>3, <3>1 DEF TempShape
  <2>9. LinkShape(q)'
    <3>1. PICK d : d = FS!Front(b)
        OBVIOUS
    <3>2. Linked(q)' <=> FS!Entry(d).kind = "link"
        BY <2>1, <2>6, <3>1 DEF Linked, FS!Entry
    <3>3. FS!Entry(FS!Follow(FS!Front(mem[q].at)))' = FS!Entry(FS!Follow(d))
        BY <2>1, <2>6, <3>1 DEF FS!Follow, FS!Entry
    <3> QED
        BY <2>1, <2>5, <2>6, <3>1, <3>2, <3>3 DEF LinkShape
  <2>10. StaleShape(q)'
    <3>1. CASE pc'[q] \in Walking
      <4>1. a.op \in FS!Walks
          BY <2>1, <2>2, <2>3, <3>1 DEF FS!Walks, Walking
      <4>2. Todo(q)' = FS!Listing(FS!Top)
          BY <2>1, <4>1, RootIs DEF Todo
      <4>3. \A x \in FS!Listing(FS!Top) : FS!Entry(x.at)'.kind = x.kind
        <5>1. \A x \in FS!Listing(FS!Top) : FS!Entry(x.at).kind = x.kind
            BY <2>1, ListingIs, EntryIs
        <5> QED
            BY <2>1, <5>1, SameIs
      <4> QED
          BY <2>2, <2>3, <4>2, <4>3 DEF StaleShape
    <3>2. CASE pc'[q] \notin Walking
        BY <3>2, <2>2, <2>3 DEF StaleShape
    <3> QED
        BY <3>1, <3>2
  <2>11. AnswerShape(q)'
    <3>1. PICK m : m = FS!Made(a)
        OBVIOUS
    <3>2. FS!Loops(m) => FS!LoopMet(q)'
      <4>1. FS!Made(arg[q])' = m
          BY <2>1, <3>1
      <4>2. FS!Loops(FS!Made(arg[q]))' <=> FS!Loops(m)'
          BY <4>1 DEF FS!Loops, FS!Place, FS!GoesRound, FS!Follow
      <4> QED
          BY <2>1, <4>2, LoopsSame DEF FS!LoopMet
    <3> QED
        BY <2>2, <3>1, <3>2 DEF AnswerShape
  <2>12. LoopShape(q)'
    <3> SUFFICES ASSUME Active(q)', a.op \notin FS!Walks
                 PROVE  /\ ~FS!Loops(mem[q].at)'
                        /\ a.op = "rename" => ~FS!Loops(mem[q].to)'
        BY <2>1 DEF LoopShape
    <3>1. /\ a.op \in FS!MustExist => FS!Exists(a.path)
          /\ ~FS!Loops(FS!Made(a))
        BY <2>2 DEF Active
    <3>2. ~FS!Loops(FS!Resolved(a.path))
      <4>1. a.path \in FS!Path
          BY ArgIs
      <4>2. FS!Exists(a.path) \/ ~FS!Loops(a.path)
          BY <2>1, <3>1 DEF FS!Made, FS!MustExist, FS!Walks, Ops
      <4> QED
          BY <2>1, <4>1, <4>2, LoopsFree
    <3>3. a.op = "rename" => ~FS!Loops(FS!Resolved(a.to))
      <4>1. a.op = "rename" => a.to \in FS!Path /\ ~FS!Loops(a.to)
          BY <3>1, ArgIs DEF FS!Made
      <4> QED
          BY <2>1, <4>1, LoopsFree
    <3>4. PICK x, y : x = FS!Resolved(a.path) /\ y = FS!Resolved(a.to)
        OBVIOUS
    <3>5. /\ FS!Loops(mem[q].at)' <=> FS!Loops(x)'
          /\ FS!Loops(mem[q].to)' <=> FS!Loops(y)'
      <4>1. mem'[q].at = x /\ mem'[q].to = y
          BY <2>1, <3>4
      <4> QED
          BY <4>1 DEF FS!Loops, FS!Place, FS!GoesRound, FS!Follow
    <3>6. (FS!Loops(x)' <=> FS!Loops(x)) /\ (FS!Loops(y)' <=> FS!Loops(y))
        BY <2>1, LoopsSame
    <3> QED
        BY <3>2, <3>3, <3>4, <3>5, <3>6
  <2>13. HomeShape(q)'
      BY <2>2, <2>3 DEF HomeShape
  <2> QED
      BY <1>2, <2>4, <2>7, <2>8, <2>9, <2>10, <2>11, <2>12, <2>13 DEF RaceShape
<1> QED
    BY <1>1, <1>2

(* A request that waits while another takes a step.                            *)
LEMMA MisledOthers ==
    ASSUME Shaped, Shaped', NEW q \in Call, Alone(q), Changes(q), NEW r \in Call \ {q},
           RaceShape(r)
    PROVE  RaceShape(r)'
<1>1. /\ RenameShape(r) /\ WriteShape(r) /\ TempShape(r) /\ LinkShape(r)
      /\ StaleShape(r) /\ LoopShape(r) /\ HomeShape(r) /\ AnswerShape(r)
    BY DEF RaceShape
<1>2. RenameShape(r)'
    BY <1>1, RenameOthers
<1>3. WriteShape(r)'
    BY <1>1, WriteOthers
<1>4. TempShape(r)' /\ LinkShape(r)'
    BY <1>1, TempOthers, LinkOthers
<1>5. StaleShape(r)' /\ AnswerShape(r)'
    BY <1>1, StaleOthers, AnswerOthers
<1>6. LoopShape(r)' /\ HomeShape(r)'
    BY <1>1, LoopKept, HomeOthers
<1> QED
    BY <1>2, <1>3, <1>4, <1>5, <1>6 DEF RaceShape

(* A request that takes a step of its own.                                     *)
LEMMA MisledOwn ==
    ASSUME Shaped, Shaped', NEW q \in Call, RaceShape(q), ReadShape(q),
           \/ FS!Read(q) \/ FS!Mkdir(q) \/ FS!Write(q) \/ FS!Delete(q) \/ FS!Rename(q)
           \/ FS!Search(q) \/ FS!Tree(q) \/ FS!Packages(q)
    PROVE  RaceShape(q)'
<1>1. /\ Alone(q) /\ Changes(q) /\ arg' = arg
      /\ RenameShape(q) /\ WriteShape(q) /\ TempShape(q) /\ LinkShape(q) /\ StaleShape(q)
      /\ LoopShape(q) /\ HomeShape(q)
    BY ActiveIs DEF RaceShape, Alone
<1>2. /\ arg[q].op = "read" <=> FS!Read(q)
      /\ arg[q].op = "write" <=> FS!Write(q)
      /\ arg[q].op = "rename" <=> FS!Rename(q)
      /\ arg[q].op \in {"search", "tree", "packages"}
            <=> FS!Search(q) \/ FS!Tree(q) \/ FS!Packages(q)
    BY KindOfStep
<1>3. RenameShape(q)'
    BY <1>1, <1>2, RenameOwn, RenameElse
<1>4. WriteShape(q)'
  <2>1. arg[q].op # "write" => WriteShape(q)'
      BY <1>1 DEF WriteShape
  <2> QED
      BY <1>1, <1>2, <2>1, WriteOwn
<1>5. TempShape(q)'
    BY <1>1, <1>2, TempOwn, TempElse
<1>6. LinkShape(q)'
  <2>1. arg[q].op # "write" => LinkShape(q)'
      BY <1>1 DEF LinkShape
  <2>2. arg[q].op = "write" => ~Renames(q)
      BY DEF Renames
  <2> QED
      BY <1>1, <2>1, <2>2, LinkOthers
<1>7. StaleShape(q)' /\ AnswerShape(q)'
  <2>1. CASE arg[q].op \in {"search", "tree", "packages"}
      BY <1>1, <1>2, <2>1, WalkIs, StaleOwn, AnswerWalks
  <2>2. CASE arg[q].op \notin {"search", "tree", "packages"}
    <3>1. StaleShape(q)'
        BY <1>1, <2>2, StaleElse
    <3>2. AnswerShape(q)'
        BY <1>1, <1>2, <2>2, AnswerReads, AnswerElse
    <3> QED
        BY <3>1, <3>2
  <2> QED
      BY <2>1, <2>2
<1>8. LoopShape(q)'
  <2>1. CASE pc'[q] = "done" \/ ~Renames(q)
      BY <1>1, <2>1, LoopKept
  <2>2. CASE pc'[q] # "done" /\ Renames(q)
    <3>1. FS!Rename(q)
        BY <1>2, <2>2 DEF Renames
    <3>2. disk' = disk /\ mem' = mem
      <4>1. \A c : FS!Answer(q, c) => pc'[q] = "done"
        <5>1. pc \in [Call -> Label]
            BY DEF Shaped, CallTypes
        <5> QED
            BY <5>1 DEF FS!Answer
      <4> QED
          BY <2>2, <3>1, <4>1 DEF FS!Rename, FS!Check, FS!Same
    <3>3. FS!RacedBy(q, {"rename"})' <=> FS!RacedBy(q, {"rename"})
        BY <1>1, RaceIs
    <3>4. Active(q) /\ arg'[q] = arg[q]
        BY <1>1 DEF Alone
    <3> QED
        BY <1>1, <3>2, <3>3, <3>4, LoopStays
  <2> QED
      BY <2>1, <2>2
<1>9. HomeShape(q)'
  <2>1. CASE FS!Write(q)
      BY <1>1, <2>1, HomeOwn
  <2>2. CASE ~FS!Write(q)
    <3>1. arg[q].op # "write" /\ arg[q].op \in OpOf(pc'[q])
        BY <1>1, <1>2, <2>2 DEF Alone
    <3>2. pc'[q] \notin {"fill", "replace"}
        BY <3>1 DEF OpOf
    <3> QED
        BY <3>2 DEF HomeShape
  <2> QED
      BY <2>1, <2>2
<1> QED
    BY <1>3, <1>4, <1>5, <1>6, <1>7, <1>8, <1>9 DEF RaceShape

(* Requests mislead, fail, stop half way or leave a temporary file only when   *)
(* others race with them, when a link goes round, or when the answer is not to *)
(* be sent: a text that is not UTF-8.                                          *)
THEOREM RacesOnly == FS!Spec => []OnlyRacesMislead
<1>1. FS!Init => Misled
  <2> SUFFICES ASSUME FS!Init PROVE \A r \in Call : RaceShape(r)
      BY ReadsInit DEF Misled
  <2>1. /\ disk \in Disks /\ pc = [r \in Call |-> "none"] /\ arg = [r \in Call |-> FS!NoArg]
        /\ answer = [r \in Call |-> "none"]
      BY DEF FS!Init
  <2>2. \A r \in Call : Temps(r) = {}
    <3>1. \A p \in DOMAIN disk \ {FS!Top} : p \in FS!Path
        BY <2>1, DisksAssumption
    <3> QED
        BY <3>1, SpotIs, NamesAssumption DEF Temps
  <2> QED
      BY <2>1, <2>2 DEF RaceShape, RenameShape, WriteShape, TempShape, LinkShape, StaleShape,
                        LoopShape, HomeShape, Active, AnswerShape, FS!NoArg, Walking
<1>2. Misled /\ [FS!Next]_FS!vars => Misled'
  <2> SUFFICES ASSUME Misled, [FS!Next]_FS!vars PROVE \A r \in Call : RaceShape(r)'
      BY ReadsKept DEF Misled
  <2>1. Shaped /\ Shaped' /\ \A r \in Call : ReadShape(r) /\ RaceShape(r)
      BY ReadsKept DEF Misled, Reads
  <2>2. ASSUME NEW q \in Call, NEW a \in FS!Arg, FS!Begin(q, a), NEW r \in Call
        PROVE RaceShape(r)'
      BY <2>1, <2>2, MisledBegun
  <2>3. ASSUME NEW q \in Call, NEW r \in Call,
               \/ FS!Read(q) \/ FS!Mkdir(q) \/ FS!Write(q) \/ FS!Delete(q) \/ FS!Rename(q)
               \/ FS!Search(q) \/ FS!Tree(q) \/ FS!Packages(q)
        PROVE  RaceShape(r)'
    <3>1. Alone(q) /\ Changes(q)
        BY <2>1, <2>3, ActiveIs
    <3>2. r # q => RaceShape(r)'
        BY <2>1, <3>1, MisledOthers
    <3>3. RaceShape(q)'
        BY <2>1, <2>3, MisledOwn
    <3> QED
        BY <3>2, <3>3
  <2>4. ASSUME UNCHANGED FS!vars, NEW r \in Call PROVE RaceShape(r)'
    <3>1. disk' = disk /\ arg' = arg /\ pc' = pc /\ mem' = mem /\ answer' = answer
        BY <2>4 DEF FS!vars
    <3>2. /\ \A ops : FS!RacedBy(r, ops) => FS!RacedBy(r, ops)'
          /\ Strayed(r) => Strayed(r)'
          /\ Prepared(r) => Prepared(r)'
        BY <3>1 DEF FS!RacedBy, Strayed, FS!Relinked, Prepared
    <3> QED
        BY <2>1, <3>1, <3>2, RaceStays
  <2> QED
      BY <2>2, <2>3, <2>4, StepIs
<1>3. Misled => OnlyRacesMislead
  <2> SUFFICES ASSUME Misled, NEW r \in Call, pc[r] = "done"
               PROVE  /\ arg[r].op = "rename" /\ FS!Replaced(r)
                            => FS!RacedBy(r, {"write", "rename", "mkdir"})
                      /\ arg[r].op = "write" /\ FS!Ok(r) /\ mem[r].fresh = FS!Replaced(r)
                            => FS!RacedBy(r, {"write", "rename", "delete", "mkdir"})
                      /\ answer[r] = "INTERNAL_ERROR"
                            => \/ FS!RacedBy(r, {"rename", "delete", "write"})
                               \/ FS!LoopMet(r) \/ FS!GarbledRead(r)
                      /\ answer[r] = "cut" => FS!RacedBy(r, {"rename", "delete", "write"})
                      /\ \A p \in DOMAIN disk :
                            p # FS!Top /\ FS!Last(p) = r
                                => FS!RacedBy(r, {"rename"}) \/ FS!Relinked(r)
      BY DEF OnlyRacesMislead, FS!OnlyRacesMislead
  <2>1. /\ RenameShape(r) /\ WriteShape(r) /\ TempShape(r) /\ AnswerShape(r)
        /\ mem[r].fresh \in BOOLEAN
    <3>1. mem[r] \in MemType
        BY OpIs DEF Misled, Reads
    <3> QED
        BY <3>1 DEF Misled, RaceShape, MemType
  <2>2. arg[r].op = "rename" /\ FS!Replaced(r) => FS!RacedBy(r, {"write", "rename", "mkdir"})
      BY <2>1 DEF RenameShape
  <2>3. arg[r].op = "write" /\ FS!Ok(r) /\ mem[r].fresh = FS!Replaced(r)
            => FS!RacedBy(r, {"write", "rename", "delete", "mkdir"})
      BY <2>1 DEF WriteShape, Writers
  <2>4. \A p \in DOMAIN disk : p # FS!Top /\ FS!Last(p) = r
              => FS!RacedBy(r, {"rename"}) \/ FS!Relinked(r)
      BY <2>1 DEF TempShape, Temps, Strayed
  <2> QED
      BY <2>1, <2>2, <2>3, <2>4 DEF AnswerShape
<1> QED
    BY <1>1, <1>2, <1>3, PTL DEF FS!Spec
===============================================================================
