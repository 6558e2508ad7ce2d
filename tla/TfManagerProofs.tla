---------------------------- MODULE TfManagerProofs ----------------------------
(* Proofs about the one echo stream of TfManager, for any number of            *)
(* connections, subscriptions and streams, and any number of lines: no two     *)
(* processes run at once, and a restart leaves none.                           *)
EXTENDS TfManager, TLAPS

(* A handler at work has the id it works on.                                   *)
HandlerShape == \A c \in Conn : hpc[c] # "idle" => want[c] \in Sub

(* One reader has the mutex.                                                   *)
LockShape == \A s, r \in Stream : rpc[s] = "deliver" /\ rpc[r] = "deliver" => s = r

(* The stopper has a stream while it works, which the manager has no more; it  *)
(* is done with the manager, not the other way round.                          *)
StopShape ==
    /\ target # NoStream <=> spc \notin {"idle", "done"}
    /\ target # NoStream => handle = NoStream
    /\ spc \in {"idle", "done"} \/ phase \in {"up", "shut"}
    /\ phase = "up" => spc # "done"
    /\ phase \in {"replaced", "destroyed"} => spc = "done"

(* A stream not started has no threads and nobody has its handle.              *)
StartShape ==
    \A s \in Stream : child[s] = "none" =>
        /\ rpc[s] = "none" /\ wpc[s] = "none"
        /\ ~cleaned[s] /\ ~joined[s] /\ s # handle /\ s # target

(* Whoever is past the wait for a process, or past the exchange and the join   *)
(* that its end allows, works on one that has ended.  The stopper alone sends  *)
(* SIGKILL, joins the reader and only then waits.                              *)
GoneShape ==
    \A s \in Stream :
        /\ wpc[s] \notin {"none", "wait"} => child[s] = "gone"
        /\ cleaned[s] => child[s] = "gone" \/ (s = target /\ spc \in {"join", "reap"})
        /\ joined[s] => child[s] = "gone" \/ (s = target /\ spc = "reap")
        /\ s = target /\ spc = "free" => child[s] = "gone"

(* Before an abort, a process that runs is that of the manager's stream or of  *)
(* the one being stopped.                                                      *)
HolderShape == Alive => \A s \in Stream : Live(s) => s = handle \/ s = target

(* After the shutdown there is a process only for a subscription made since.   *)
LeftShape == spc = "done" /\ subs = {} => handle = NoStream /\ \A s \in Stream : ~Live(s)

IInv ==
    /\ TypeOK
    /\ HandlerShape
    /\ LockShape
    /\ StopShape
    /\ StartShape
    /\ GoneShape
    /\ HolderShape
    /\ LeftShape
    /\ OneStream

-----------------------------------------------------------------------------
(* A handler is called with an id ...                                          *)
LEMMA SubscribeTfStep ==
    ASSUME IInv, NEW c \in Conn, NEW i \in Sub, SubscribeTf(c, i)
    PROVE  IInv'
<1> USE DEF SubscribeTf, Ready, Alive, manager, process, threads, stopper
<1>1. TypeOK'
    BY DEF IInv, TypeOK, ReaderPC, WaiterPC, StopPC, Faults
<1>2. HandlerShape'
    BY DEF IInv, TypeOK, HandlerShape
<1>3. /\ LockShape' /\ StopShape' /\ StartShape' /\ GoneShape' /\ HolderShape'
      /\ LeftShape' /\ OneStream'
    BY DEF IInv, LockShape, StopShape, StartShape, GoneShape, HolderShape,
           LeftShape, OneStream, Live
<1> QED
    BY <1>1, <1>2, <1>3 DEF IInv

(* ... which is in use ...                                                     *)
LEMMA SubscribeRefusedStep ==
    ASSUME IInv, NEW c \in Conn, SubscribeRefused(c)
    PROVE  IInv'
<1> USE DEF SubscribeRefused, Enters, Alive, manager, process, threads, stopper
<1>1. TypeOK'
    BY DEF IInv, TypeOK, ReaderPC, WaiterPC, StopPC, Faults
<1>2. HandlerShape'
    BY DEF IInv, TypeOK, HandlerShape
<1>3. /\ LockShape' /\ StopShape' /\ StartShape' /\ GoneShape' /\ HolderShape'
      /\ LeftShape' /\ OneStream'
    BY DEF IInv, LockShape, StopShape, StartShape, GoneShape, HolderShape,
           LeftShape, OneStream, Live
<1> QED
    BY <1>1, <1>2, <1>3 DEF IInv

(* ... or is the first, and starts the stream ...                              *)
LEMMA SubscribeStartsStep ==
    ASSUME IInv, NEW c \in Conn, NEW s \in Stream, SubscribeStarts(c, s)
    PROVE  IInv'
<1> USE DEF SubscribeStarts, Enters, NeedsStream, Alive, stopper
<1>1. TypeOK'
    BY DEF IInv, TypeOK, HandlerShape, ReaderPC, WaiterPC, StopPC, Faults
<1>2. HandlerShape'
    BY DEF IInv, TypeOK, HandlerShape
<1>3. LockShape'
    BY DEF IInv, TypeOK, StartShape, LockShape
<1>4. StopShape'
    BY DEF IInv, TypeOK, StopShape
<1>5. StartShape'
    BY DEF IInv, TypeOK, StopShape, StartShape
<1>6. GoneShape'
    BY DEF IInv, TypeOK, StartShape, GoneShape
<1>7. HolderShape'
    BY DEF IInv, TypeOK, StopShape, HolderShape, Live
<1>8. LeftShape'
    BY DEF IInv, TypeOK, HandlerShape, LeftShape, Live
<1>9. OneStream'
  <2>1. \A r \in Stream : ~Live(r)
      BY NoneAssumption DEF IInv, TypeOK, StopShape, HolderShape
  <2> QED
      BY <2>1 DEF IInv, TypeOK, OneStream, Live
<1> QED
    BY <1>1, <1>2, <1>3, <1>4, <1>5, <1>6, <1>7, <1>8, <1>9 DEF IInv

(* ... or joins it.                                                            *)
LEMMA SubscribeJoinsStep ==
    ASSUME IInv, NEW c \in Conn, SubscribeJoins(c)
    PROVE  IInv'
<1> USE DEF SubscribeJoins, Enters, Alive, process, threads, stopper
<1>1. TypeOK'
    BY DEF IInv, TypeOK, HandlerShape, ReaderPC, WaiterPC, StopPC, Faults
<1>2. HandlerShape'
    BY DEF IInv, TypeOK, HandlerShape
<1>3. LeftShape'
    BY DEF IInv, TypeOK, HandlerShape, LeftShape, Live
<1>4. /\ LockShape' /\ StopShape' /\ StartShape' /\ GoneShape' /\ HolderShape'
      /\ OneStream'
    BY DEF IInv, LockShape, StopShape, StartShape, GoneShape, HolderShape,
           OneStream, Live
<1> QED
    BY <1>1, <1>2, <1>3, <1>4 DEF IInv

(* The manager is gone.                                                        *)
LEMMA SubscribeDanglesStep ==
    ASSUME IInv, NEW c \in Conn, SubscribeDangles(c)
    PROVE  IInv'
<1> USE DEF SubscribeDangles, manager, channel, process, threads, stopper
<1>1. TypeOK'
    BY DEF IInv, TypeOK, ReaderPC, WaiterPC, StopPC, Faults
<1>2. HolderShape'
    BY DEF IInv, TypeOK, HolderShape, Live, Alive
<1>3. /\ HandlerShape' /\ LockShape' /\ StopShape' /\ StartShape' /\ GoneShape'
      /\ LeftShape' /\ OneStream'
    BY DEF IInv, HandlerShape, LockShape, StopShape, StartShape, GoneShape,
           LeftShape, OneStream, Live
<1> QED
    BY <1>1, <1>2, <1>3 DEF IInv

(* The channel lists the connection.                                           *)
LEMMA RegisterStep ==
    ASSUME IInv, NEW c \in Conn, Register(c)
    PROVE  IInv'
<1> USE DEF Register, Alive, manager, process, threads, stopper
<1>1. TypeOK'
  <2>1. want[c] \in Sub
      BY DEF IInv, TypeOK, HandlerShape
  <2>2. /\ listed' \in [Sub -> SUBSET Conn] /\ want' \in [Conn -> Sub \cup {NoSub}]
        /\ hpc' \in [Conn -> {"idle", "subscribe", "register"}]
      BY <2>1 DEF IInv, TypeOK
  <2> QED
      BY <2>2 DEF IInv, TypeOK
<1>2. HandlerShape'
    BY DEF IInv, TypeOK, HandlerShape
<1>3. /\ LockShape' /\ StopShape' /\ StartShape' /\ GoneShape' /\ HolderShape'
      /\ LeftShape' /\ OneStream'
    BY DEF IInv, LockShape, StopShape, StartShape, GoneShape, HolderShape,
           LeftShape, OneStream, Live
<1> QED
    BY <1>1, <1>2, <1>3 DEF IInv

(* A connection closes.                                                        *)
LEMMA DisconnectStep ==
    ASSUME IInv, NEW c \in Conn, Disconnect(c)
    PROVE  IInv'
<1> USE DEF Disconnect, Ready, Alive, Unlisted, manager, process, threads, stopper
<1>1. TypeOK'
    BY DEF IInv, TypeOK, ReaderPC, WaiterPC, StopPC, Faults
<1>2. /\ HandlerShape' /\ LockShape' /\ StopShape' /\ StartShape' /\ GoneShape'
      /\ HolderShape' /\ LeftShape' /\ OneStream'
    BY DEF IInv, HandlerShape, LockShape, StopShape, StartShape, GoneShape,
           HolderShape, LeftShape, OneStream, Live
<1> QED
    BY <1>1, <1>2 DEF IInv

(* The reader of the stream takes a line ...                                   *)
LEMMA ReaderLineStep ==
    ASSUME IInv, NEW s \in Stream, ReaderLine(s)
    PROVE  IInv'
<1> USE DEF ReaderLine, Alive, manager, channel, process, stopper
<1>1. TypeOK'
  <2>1. lines' \in [Stream -> 0..MaxLines]
      BY LinesAssumption DEF IInv, TypeOK
  <2>2. rpc' \in [Stream -> ReaderPC]
      BY DEF IInv, TypeOK, ReaderPC
  <2>3. (\E r \in Stream : rpc[r] = "deliver") = (\E r \in Stream : rpc'[r] = "deliver")
      BY DEF IInv, TypeOK
  <2> QED
      BY <2>1, <2>2, <2>3 DEF IInv, TypeOK
<1>2. LockShape'
    BY DEF IInv, TypeOK, LockShape
<1>3. StartShape'
    BY DEF IInv, TypeOK, StartShape
<1>4. /\ HandlerShape' /\ StopShape' /\ GoneShape' /\ HolderShape' /\ LeftShape'
      /\ OneStream'
    BY DEF IInv, HandlerShape, StopShape, GoneShape, HolderShape, LeftShape,
           OneStream, Live
<1> QED
    BY <1>1, <1>2, <1>3, <1>4 DEF IInv

(* ... or ends.                                                                *)
LEMMA ReaderEndsStep ==
    ASSUME IInv, NEW s \in Stream, ReaderEnds(s)
    PROVE  IInv'
<1> USE DEF ReaderEnds, Alive, manager, channel, process, stopper
<1>1. TypeOK'
    BY DEF IInv, TypeOK, ReaderPC, WaiterPC, StopPC, Faults
<1>2. LockShape'
    BY DEF IInv, TypeOK, LockShape
<1>3. StartShape'
    BY DEF IInv, TypeOK, StartShape
<1>4. /\ HandlerShape' /\ StopShape' /\ GoneShape' /\ HolderShape' /\ LeftShape'
      /\ OneStream'
    BY DEF IInv, HandlerShape, StopShape, GoneShape, HolderShape, LeftShape,
           OneStream, Live
<1> QED
    BY <1>1, <1>2, <1>3, <1>4 DEF IInv

(* It takes the mutex ...                                                      *)
LEMMA ReaderLocksStep ==
    ASSUME IInv, NEW s \in Stream, ReaderLocks(s)
    PROVE  IInv'
<1> USE DEF ReaderLocks, Alive, channel, process, stopper
<1>1. TypeOK'
    BY DEF IInv, TypeOK, ReaderPC, WaiterPC, StopPC, Faults
<1>2. LockShape'
    BY DEF IInv, TypeOK, LockShape
<1>3. StartShape'
    BY DEF IInv, TypeOK, StartShape
<1>4. /\ HandlerShape' /\ StopShape' /\ GoneShape' /\ HolderShape' /\ LeftShape'
      /\ OneStream'
    BY DEF IInv, HandlerShape, StopShape, GoneShape, HolderShape, LeftShape,
           OneStream, Live
<1> QED
    BY <1>1, <1>2, <1>3, <1>4 DEF IInv

(* ... copies the recipients of an update ...                                  *)
LEMMA ReaderCopiesStep ==
    ASSUME IInv, NEW s \in Stream, ReaderCopies(s)
    PROVE  IInv'
<1> USE DEF ReaderCopies, Alive, manager, channel, process, stopper
<1>1. TypeOK'
    BY DEF IInv, TypeOK, ReaderPC, WaiterPC, StopPC, Faults
<1>2. /\ HandlerShape' /\ LockShape' /\ StopShape' /\ StartShape' /\ GoneShape'
      /\ HolderShape' /\ LeftShape' /\ OneStream'
    BY DEF IInv, HandlerShape, LockShape, StopShape, StartShape, GoneShape,
           HolderShape, LeftShape, OneStream, Live
<1> QED
    BY <1>1, <1>2 DEF IInv

(* ... sends to each ...                                                       *)
LEMMA ReaderSendsStep ==
    ASSUME IInv, NEW s \in Stream, ReaderSends(s)
    PROVE  IInv'
<1> USE DEF ReaderSends, Alive, manager, channel, process, stopper
<1>1. TypeOK'
    BY DEF IInv, TypeOK, ReaderPC, WaiterPC, StopPC, Faults
<1>2. HolderShape'
    BY DEF IInv, TypeOK, HolderShape, Live
<1>3. /\ HandlerShape' /\ LockShape' /\ StopShape' /\ StartShape' /\ GoneShape'
      /\ LeftShape' /\ OneStream'
    BY DEF IInv, HandlerShape, LockShape, StopShape, StartShape, GoneShape,
           LeftShape, OneStream, Live
<1> QED
    BY <1>1, <1>2, <1>3 DEF IInv

(* ... and gives it back.                                                      *)
LEMMA ReaderUnlocksStep ==
    ASSUME IInv, NEW s \in Stream, ReaderUnlocks(s)
    PROVE  IInv'
<1> USE DEF ReaderUnlocks, Alive, channel, process, stopper
<1>1. TypeOK'
    BY DEF IInv, TypeOK, LockShape, ReaderPC, WaiterPC, StopPC, Faults
<1>2. LockShape'
    BY DEF IInv, TypeOK, LockShape
<1>3. StartShape'
    BY DEF IInv, TypeOK, StartShape
<1>4. /\ HandlerShape' /\ StopShape' /\ GoneShape' /\ HolderShape' /\ LeftShape'
      /\ OneStream'
    BY DEF IInv, HandlerShape, StopShape, GoneShape, HolderShape, LeftShape,
           OneStream, Live
<1> QED
    BY <1>1, <1>2, <1>3, <1>4 DEF IInv

(* The exit-waiter finds its process ended ...                                 *)
LEMMA WaiterReapsStep ==
    ASSUME IInv, NEW s \in Stream, WaiterReaps(s)
    PROVE  IInv'
<1> USE DEF WaiterReaps, WaiterGoto, WaiterKeeps, Alive, manager, channel, stopper
<1>1. TypeOK'
    BY DEF IInv, TypeOK, ReaderPC, WaiterPC, StopPC, Faults
<1>2. StartShape'
    BY DEF IInv, TypeOK, StartShape
<1>3. GoneShape'
    BY DEF IInv, TypeOK, GoneShape
<1>4. /\ HandlerShape' /\ LockShape' /\ StopShape' /\ HolderShape' /\ LeftShape'
      /\ OneStream'
    BY DEF IInv, HandlerShape, LockShape, StopShape, HolderShape, LeftShape,
           OneStream, Live
<1> QED
    BY <1>1, <1>2, <1>3, <1>4 DEF IInv

(* ... marks the handle, if it is the first ...                                *)
LEMMA WaiterExchangesStep ==
    ASSUME IInv, NEW s \in Stream, WaiterExchanges(s)
    PROVE  IInv'
<1> USE DEF WaiterExchanges, WaiterGoto, WaiterKeeps, Alive, manager, channel,
            stopper
<1>1. TypeOK'
    BY DEF IInv, TypeOK, ReaderPC, WaiterPC, StopPC, Faults
<1>2. StartShape'
    BY DEF IInv, TypeOK, StartShape
<1>3. GoneShape'
    BY DEF IInv, TypeOK, GoneShape
<1>4. /\ HandlerShape' /\ LockShape' /\ StopShape' /\ HolderShape' /\ LeftShape'
      /\ OneStream'
    BY DEF IInv, HandlerShape, LockShape, StopShape, HolderShape, LeftShape,
           OneStream, Live
<1> QED
    BY <1>1, <1>2, <1>3, <1>4 DEF IInv

(* ... joins the reader ...                                                    *)
LEMMA WaiterJoinsStep ==
    ASSUME IInv, NEW s \in Stream, WaiterJoins(s)
    PROVE  IInv'
<1> USE DEF WaiterJoins, WaiterGoto, WaiterKeeps, Alive, ReaderDone, manager,
            channel, stopper
<1>1. TypeOK'
    BY DEF IInv, TypeOK, ReaderPC, WaiterPC, StopPC, Faults
<1>2. StartShape'
    BY DEF IInv, TypeOK, StartShape
<1>3. GoneShape'
    BY DEF IInv, TypeOK, GoneShape
<1>4. /\ HandlerShape' /\ LockShape' /\ StopShape' /\ HolderShape' /\ LeftShape'
      /\ OneStream'
    BY DEF IInv, HandlerShape, LockShape, StopShape, HolderShape, LeftShape,
           OneStream, Live
<1> QED
    BY <1>1, <1>2, <1>3, <1>4 DEF IInv

(* ... if it does not find the handle destroyed ...                            *)
LEMMA WaiterTouchesFreedStep ==
    ASSUME IInv, NEW s \in Stream, WaiterTouchesFreed(s)
    PROVE  IInv'
<1> USE DEF WaiterTouchesFreed, manager, channel, process, threads, stopper
<1>1. TypeOK'
    BY DEF IInv, TypeOK, ReaderPC, WaiterPC, StopPC, Faults
<1>2. HolderShape'
    BY DEF IInv, TypeOK, HolderShape, Live, Alive
<1>3. /\ HandlerShape' /\ LockShape' /\ StopShape' /\ StartShape' /\ GoneShape'
      /\ LeftShape' /\ OneStream'
    BY DEF IInv, HandlerShape, LockShape, StopShape, StartShape, GoneShape,
           LeftShape, OneStream, Live
<1> QED
    BY <1>1, <1>2, <1>3 DEF IInv

(* ... and drops the handle the manager has by now.                            *)
LEMMA OnExitStep ==
    ASSUME IInv, NEW s \in Stream, OnExit(s)
    PROVE  IInv'
<1> USE DEF OnExit, Destroyed, FaultOfFree, Alive, channel, stopper
<1>1. TypeOK'
    BY DEF IInv, TypeOK, ReaderPC, WaiterPC, StopPC, Faults
<1>2. StopShape'
    BY DEF IInv, TypeOK, StopShape
<1>3. StartShape'
    BY DEF IInv, TypeOK, StartShape
<1>4. GoneShape'
    BY DEF IInv, TypeOK, StopShape, GoneShape
<1>5. HolderShape'
    BY DEF IInv, TypeOK, GoneShape, StopShape, HolderShape, Live
<1>6. LeftShape'
    BY DEF IInv, TypeOK, LeftShape, Live
<1>7. HandlerShape' /\ LockShape' /\ OneStream'
    BY DEF IInv, HandlerShape, LockShape, OneStream, Live
<1> QED
    BY <1>1, <1>2, <1>3, <1>4, <1>5, <1>6, <1>7 DEF IInv

(* The manager is gone.                                                        *)
LEMMA OnExitDanglesStep ==
    ASSUME IInv, NEW s \in Stream, OnExitDangles(s)
    PROVE  IInv'
<1> USE DEF OnExitDangles, manager, channel, process, threads, stopper
<1>1. TypeOK'
    BY DEF IInv, TypeOK, ReaderPC, WaiterPC, StopPC, Faults
<1>2. HolderShape'
    BY DEF IInv, TypeOK, HolderShape, Live, Alive
<1>3. /\ HandlerShape' /\ LockShape' /\ StopShape' /\ StartShape' /\ GoneShape'
      /\ LeftShape' /\ OneStream'
    BY DEF IInv, HandlerShape, LockShape, StopShape, StartShape, GoneShape,
           LeftShape, OneStream, Live
<1> QED
    BY <1>1, <1>2, <1>3 DEF IInv

(* The last subscription stops the stream.                                     *)
LEMMA UnsubscribeTfStep ==
    ASSUME IInv, NEW i \in Sub, UnsubscribeTf(i)
    PROVE  IInv'
<1> USE DEF UnsubscribeTf, Last, BeginStop, Alive, channel, process, threads,
            stopper
<1>1. TypeOK'
    BY DEF IInv, TypeOK, StopShape, ReaderPC, WaiterPC, StopPC, Faults
<1>2. StopShape'
    BY DEF IInv, TypeOK, StopShape
<1>3. StartShape'
    BY DEF IInv, TypeOK, StopShape, StartShape
<1>4. GoneShape'
    BY DEF IInv, TypeOK, StopShape, GoneShape
<1>5. HolderShape'
    BY DEF IInv, TypeOK, StopShape, HolderShape, Live
<1>6. LeftShape'
    BY DEF IInv, TypeOK, StopShape, LeftShape, Live
<1>7. HandlerShape' /\ LockShape' /\ OneStream'
    BY DEF IInv, HandlerShape, LockShape, OneStream, Live
<1> QED
    BY <1>1, <1>2, <1>3, <1>4, <1>5, <1>6, <1>7 DEF IInv

(* So does a restart.                                                          *)
LEMMA ShutdownStep ==
    ASSUME IInv, Shutdown
    PROVE  IInv'
<1> USE DEF Shutdown, BeginStop, Alive, channel, process, threads, stopper
<1>1. TypeOK'
    BY DEF IInv, TypeOK, StopShape, ReaderPC, WaiterPC, StopPC, Faults
<1>2. StopShape'
    BY DEF IInv, TypeOK, StopShape
<1>3. StartShape'
    BY DEF IInv, TypeOK, StartShape
<1>4. GoneShape'
    BY DEF IInv, TypeOK, StopShape, GoneShape
<1>5. HolderShape'
    BY DEF IInv, TypeOK, StopShape, HolderShape, Live
<1>6. LeftShape'
  <2>1. CASE handle = NoStream
    <3>1. \A r \in Stream : ~Live(r)
        BY <2>1, NoneAssumption DEF IInv, TypeOK, StopShape, HolderShape
    <3> QED
        BY <2>1, <3>1 DEF LeftShape, Live
  <2>2. CASE handle # NoStream
      BY <2>2 DEF LeftShape
  <2> QED
      BY <2>1, <2>2
<1>7. HandlerShape' /\ LockShape' /\ OneStream'
    BY DEF IInv, HandlerShape, LockShape, OneStream, Live
<1> QED
    BY <1>1, <1>2, <1>3, <1>4, <1>5, <1>6, <1>7 DEF IInv

(* A stop kills the process ...                                                *)
LEMMA StopSignalsStep ==
    ASSUME IInv, StopSignals
    PROVE  IInv'
<1> USE DEF StopSignals, StopGoto, StopKeeps, Alive, Killed, manager, channel,
            threads
<1>1. TypeOK'
    BY DEF IInv, TypeOK, StopShape, ReaderPC, WaiterPC, StopPC, Faults
<1>2. StopShape'
    BY DEF IInv, TypeOK, StopShape
<1>3. StartShape'
    BY DEF IInv, TypeOK, StopShape, StartShape
<1>4. GoneShape'
    BY DEF IInv, TypeOK, GoneShape
<1>5. HolderShape'
    BY DEF IInv, TypeOK, HolderShape, Live
<1>6. LeftShape'
    BY DEF IInv, TypeOK, StopShape, LeftShape, Live
<1>7. OneStream'
    BY DEF IInv, TypeOK, OneStream, Live
<1>8. HandlerShape' /\ LockShape'
    BY DEF IInv, HandlerShape, LockShape
<1> QED
    BY <1>1, <1>2, <1>3, <1>4, <1>5, <1>6, <1>7, <1>8 DEF IInv

(* ... marks the handle ...                                                    *)
LEMMA StopExchangesStep ==
    ASSUME IInv, StopExchanges
    PROVE  IInv'
<1> USE DEF StopExchanges, StopGoto, StopKeeps, Alive, manager, channel, threads
<1>1. TypeOK'
    BY DEF IInv, TypeOK, StopShape, ReaderPC, WaiterPC, StopPC, Faults
<1>2. StopShape'
    BY DEF IInv, TypeOK, StopShape
<1>3. StartShape'
    BY DEF IInv, TypeOK, StopShape, StartShape
<1>4. GoneShape'
    BY DEF IInv, TypeOK, StopShape, GoneShape
<1>5. LeftShape'
    BY DEF IInv, TypeOK, LeftShape, Live
<1>6. HandlerShape' /\ LockShape' /\ HolderShape' /\ OneStream'
    BY DEF IInv, HandlerShape, LockShape, HolderShape, OneStream, Live
<1> QED
    BY <1>1, <1>2, <1>3, <1>4, <1>5, <1>6 DEF IInv

(* ... joins the reader ...                                                    *)
LEMMA StopJoinsStep ==
    ASSUME IInv, StopJoins
    PROVE  IInv'
<1> USE DEF StopJoins, StopGoto, StopKeeps, Alive, ReaderDone, manager, channel,
            threads
<1>1. TypeOK'
    BY DEF IInv, TypeOK, StopShape, ReaderPC, WaiterPC, StopPC, Faults
<1>2. StopShape'
    BY DEF IInv, TypeOK, StopShape
<1>3. StartShape'
    BY DEF IInv, TypeOK, StopShape, StartShape
<1>4. GoneShape'
    BY DEF IInv, TypeOK, StopShape, GoneShape
<1>5. LeftShape'
    BY DEF IInv, TypeOK, LeftShape, Live
<1>6. HandlerShape' /\ LockShape' /\ HolderShape' /\ OneStream'
    BY DEF IInv, HandlerShape, LockShape, HolderShape, OneStream, Live
<1> QED
    BY <1>1, <1>2, <1>3, <1>4, <1>5, <1>6 DEF IInv

(* ... waits for the process ...                                               *)
LEMMA StopReapsStep ==
    ASSUME IInv, StopReaps
    PROVE  IInv'
<1> USE DEF StopReaps, StopGoto, StopKeeps, Alive, Reaped, manager, channel,
            process, threads
<1>1. TypeOK'
    BY DEF IInv, TypeOK, ReaderPC, WaiterPC, StopPC, Faults
<1>2. StopShape'
    BY DEF IInv, TypeOK, StopShape
<1>3. GoneShape'
    BY DEF IInv, TypeOK, StopShape, GoneShape
<1>4. LeftShape'
    BY DEF IInv, TypeOK, LeftShape, Live
<1>5. HandlerShape' /\ LockShape' /\ StartShape' /\ HolderShape' /\ OneStream'
    BY DEF IInv, HandlerShape, LockShape, StartShape, HolderShape, OneStream, Live
<1> QED
    BY <1>1, <1>2, <1>3, <1>4, <1>5 DEF IInv

(* ... and destroys the handle.                                                *)
LEMMA StopFreesStep ==
    ASSUME IInv, StopFrees
    PROVE  IInv'
<1> USE DEF StopFrees, StopGoto, Alive, Destroyed, FaultOfFree, channel, threads
<1>1. TypeOK'
    BY DEF IInv, TypeOK, StopShape, ReaderPC, WaiterPC, StopPC, Faults
<1>2. StopShape'
    BY DEF IInv, TypeOK, StopShape
<1>3. StartShape'
    BY DEF IInv, TypeOK, StopShape, StartShape
<1>4. GoneShape'
    BY DEF IInv, TypeOK, StopShape, GoneShape
<1>5. HolderShape'
    BY DEF IInv, TypeOK, GoneShape, StopShape, HolderShape, Live
<1>6. LeftShape'
  <2>1. \A r \in Stream : ~Live(r)
      BY NoneAssumption DEF IInv, TypeOK, StopShape, GoneShape, HolderShape, Live
  <2> QED
      BY <2>1 DEF IInv, StopShape, LeftShape, Live
<1>7. HandlerShape' /\ LockShape' /\ OneStream'
    BY DEF IInv, HandlerShape, LockShape, OneStream, Live
<1> QED
    BY <1>1, <1>2, <1>3, <1>4, <1>5, <1>6, <1>7 DEF IInv

(* The channel gets another manager ...                                        *)
LEMMA ReplaceStep ==
    ASSUME IInv, Replace
    PROVE  IInv'
<1> USE DEF Replace, Alive, channel, process, threads, stopper
<1>1. TypeOK'
    BY DEF IInv, TypeOK, ReaderPC, WaiterPC, StopPC, Faults
<1>2. StopShape'
    BY DEF IInv, TypeOK, StopShape
<1>3. /\ HandlerShape' /\ LockShape' /\ StartShape' /\ GoneShape'
      /\ HolderShape' /\ LeftShape' /\ OneStream'
    BY DEF IInv, HandlerShape, LockShape, StartShape, GoneShape, HolderShape,
           LeftShape, OneStream, Live
<1> QED
    BY <1>1, <1>2, <1>3 DEF IInv

(* ... and the old one goes.                                                   *)
LEMMA DestroyStep ==
    ASSUME IInv, Destroy
    PROVE  IInv'
<1> USE DEF Destroy, Alive, Destroyed, FaultOfFree, channel, threads, stopper
<1>1. TypeOK'
    BY DEF IInv, TypeOK, ReaderPC, WaiterPC, StopPC, Faults
<1>2. StopShape'
    BY DEF IInv, TypeOK, StopShape
<1>3. StartShape'
    BY NoneAssumption DEF IInv, TypeOK, StartShape
<1>4. HolderShape'
    BY DEF IInv, TypeOK, GoneShape, StopShape, HolderShape, Live
<1>5. LeftShape'
    BY DEF IInv, TypeOK, LeftShape, Live
<1>6. HandlerShape' /\ LockShape' /\ GoneShape' /\ OneStream'
    BY DEF IInv, HandlerShape, LockShape, GoneShape, OneStream, Live
<1> QED
    BY <1>1, <1>2, <1>3, <1>4, <1>5, <1>6 DEF IInv

(* The echo process ends ...                                                   *)
LEMMA ChildExitsStep ==
    ASSUME IInv, NEW s \in Stream, ChildExits(s)
    PROVE  IInv'
<1> USE DEF ChildExits, Alive, ChildKeeps, manager, channel, threads, stopper
<1>1. TypeOK'
    BY DEF IInv, TypeOK, ReaderPC, WaiterPC, StopPC, Faults
<1>2. StartShape'
    BY DEF IInv, TypeOK, StartShape
<1>3. GoneShape'
    BY DEF IInv, TypeOK, GoneShape
<1>4. HolderShape'
    BY DEF IInv, TypeOK, HolderShape, Live
<1>5. LeftShape'
    BY DEF IInv, TypeOK, LeftShape, Live
<1>6. OneStream'
    BY DEF IInv, TypeOK, OneStream, Live
<1>7. HandlerShape' /\ LockShape' /\ StopShape'
    BY DEF IInv, HandlerShape, LockShape, StopShape
<1> QED
    BY <1>1, <1>2, <1>3, <1>4, <1>5, <1>6, <1>7 DEF IInv

(* ... or dies of SIGKILL.                                                     *)
LEMMA ChildDiesStep ==
    ASSUME IInv, NEW s \in Stream, ChildDies(s)
    PROVE  IInv'
<1> USE DEF ChildDies, Alive, ChildKeeps, manager, channel, threads, stopper
<1>1. TypeOK'
    BY DEF IInv, TypeOK, ReaderPC, WaiterPC, StopPC, Faults
<1>2. StartShape'
    BY DEF IInv, TypeOK, StartShape
<1>3. GoneShape'
    BY DEF IInv, TypeOK, GoneShape
<1>4. HolderShape'
    BY DEF IInv, TypeOK, HolderShape, Live
<1>5. LeftShape'
    BY DEF IInv, TypeOK, LeftShape, Live
<1>6. OneStream'
    BY DEF IInv, TypeOK, OneStream, Live
<1>7. HandlerShape' /\ LockShape' /\ StopShape'
    BY DEF IInv, HandlerShape, LockShape, StopShape
<1> QED
    BY <1>1, <1>2, <1>3, <1>4, <1>5, <1>6, <1>7 DEF IInv

-----------------------------------------------------------------------------
(* The manager starts with no stream and no subscriber.                        *)
LEMMA InitIInv == Init => IInv
<1> SUFFICES ASSUME Init PROVE IInv
    OBVIOUS
<1> USE DEF Init
<1>1. TypeOK
  <2>1. lines \in [Stream -> 0..MaxLines]
      BY LinesAssumption
  <2> QED
      BY <2>1 DEF TypeOK, ReaderPC, WaiterPC, StopPC, Faults
<1>2. HandlerShape /\ LockShape /\ StopShape
    BY DEF HandlerShape, LockShape, StopShape
<1>3. StartShape /\ GoneShape
    BY NoneAssumption DEF StartShape, GoneShape
<1>4. HolderShape /\ LeftShape /\ OneStream
    BY DEF HolderShape, LeftShape, OneStream, Live
<1> QED
    BY <1>1, <1>2, <1>3, <1>4 DEF IInv

(* A step that changes nothing keeps every part.                               *)
LEMMA StutterStep ==
    ASSUME IInv, UNCHANGED vars
    PROVE  IInv'
<1> USE DEF IInv, vars, manager, channel, process, threads, stopper
<1>1. TypeOK'
    BY DEF TypeOK
<1>2. HandlerShape' /\ LockShape' /\ StopShape' /\ StartShape' /\ GoneShape'
    BY DEF HandlerShape, LockShape, StopShape, StartShape, GoneShape
<1>3. HolderShape' /\ LeftShape' /\ OneStream'
    BY DEF HolderShape, LeftShape, OneStream, Live, Alive
<1> QED
    BY <1>1, <1>2, <1>3

(* The invariant is inductive: it holds of every reachable state.              *)
THEOREM Inductive == Spec => []IInv
<1>1. IInv /\ [Next]_vars => IInv'
  <2> SUFFICES ASSUME IInv, [Next]_vars PROVE IInv'
      OBVIOUS
  <2>1. ASSUME NEW c \in Conn, NEW i \in Sub, SubscribeTf(c, i) PROVE IInv'
      BY <2>1, SubscribeTfStep
  <2>2. ASSUME NEW c \in Conn, Handler(c) \/ Disconnect(c) PROVE IInv'
      BY <2>2, SubscribeRefusedStep, SubscribeStartsStep, SubscribeJoinsStep,
         SubscribeDanglesStep, RegisterStep, DisconnectStep DEF Handler
  <2>3. ASSUME NEW s \in Stream, ReaderLine(s) \/ Reader(s) PROVE IInv'
      BY <2>3, ReaderLineStep, ReaderEndsStep, ReaderLocksStep, ReaderCopiesStep,
         ReaderSendsStep, ReaderUnlocksStep DEF Reader
  <2>4. ASSUME NEW s \in Stream, Waiter(s) PROVE IInv'
      BY <2>4, WaiterReapsStep, WaiterExchangesStep, WaiterJoinsStep,
         WaiterTouchesFreedStep, OnExitStep, OnExitDanglesStep DEF Waiter
  <2>5. ASSUME NEW s \in Stream, ChildExits(s) \/ ChildDies(s) PROVE IInv'
      BY <2>5, ChildExitsStep, ChildDiesStep
  <2>6. ASSUME NEW i \in Sub, UnsubscribeTf(i) PROVE IInv'
      BY <2>6, UnsubscribeTfStep
  <2>7. CASE Shutdown \/ Stop \/ Restart
      BY <2>7, ShutdownStep, StopSignalsStep, StopExchangesStep, StopJoinsStep,
         StopReapsStep, StopFreesStep, ReplaceStep, DestroyStep DEF Stop, Restart
  <2>8. CASE Ended \/ UNCHANGED vars
      BY <2>8, StutterStep DEF Ended
  <2> QED
      BY <2>1, <2>2, <2>3, <2>4, <2>5, <2>6, <2>7, <2>8 DEF Next
<1> QED
    BY <1>1, InitIInv, PTL DEF Spec

-----------------------------------------------------------------------------
(* Every variable has its type, and the mutex its one holder, with any number  *)
(* of connections, subscriptions and streams.                                  *)
THEOREM TypeCorrect == Spec => []TypeOK
<1>1. IInv => TypeOK
    BY DEF IInv
<1> QED
    BY <1>1, Inductive, PTL

(* Two echo processes never run at once.                                       *)
THEOREM OnlyOneStream == Spec => []OneStream
<1>1. IInv => OneStream
    BY DEF IInv
<1> QED
    BY <1>1, Inductive, PTL

(* A restart leaves no echo process without a subscription behind.             *)
THEOREM RestartLeavesNothing == Spec => []NothingLeftBehind
<1>1. IInv => NothingLeftBehind
    BY DEF IInv, StopShape, LeftShape, NothingLeftBehind
<1> QED
    BY <1>1, Inductive, PTL

=============================================================================
