--------------------------- MODULE PtyManagerProofs ---------------------------
(* Proofs that the safety properties of PtyManager hold for any number of      *)
(* connections, terminals and sessions, and for any limit.                     *)
EXTENDS PtyManager, TLAPS

(* A session is allocated when create picks it, and not in use before.         *)
AllocatedOnce ==
    \A s \in Session :
        /\ rpc[s] = "none" <=> fds[s] = "none"
        /\ rpc[s] = "none" <=> child[s] = "none"
        /\ rpc[s] = "none" <=> owner[s] = NoConn
        /\ rpc[s] = "none" => made[s] = 0 /\ out[s] = 0 /\ ~pipe[s]

(* One entry of the map per session.                                           *)
OneEntry ==
    \A t, u \in Term : sessions[t] = sessions[u] /\ sessions[t] # NoSession => t = u

(* The fds of a session are open exactly while the map or a handler owns it.   *)
OpenIffOwned ==
    \A s \in Session :
        fds[s] = "open" <=> s \in Mapped \/ \E c \in Conn : Holds(c, s)

(* How the place a handler has reached constrains what it owns.                *)
HandlerShape ==
    \A c \in Conn :
        /\ cur[c] = NoSession <=> pc[c] \in {"idle", "next"}
        /\ pc[c] = "reply" => rpc[cur[c]] # "none"
        /\ pc[c] = "close" => rpc[cur[c]] = "done"
        /\ cur[c] \notin todo[c]
        /\ pc[c] \in {"idle", "reply"} => todo[c] = {} /\ conn[c] # "closing"
        /\ pc[c] # "idle" => conn[c] # "gone"

(* How far the reader has got tells the state of the shell and of the wire.    *)
ReaderShape ==
    \A s \in Session :
        /\ rpc[s] \in {"exit", "done"} <=> child[s] = "reaped"
        /\ exited[s] = 1 <=> rpc[s] = "done"
        /\ fds[s] = "closed" => rpc[s] = "done"
        /\ rpc[s] = "read" => HungUp(s) \/ out[s] < made[s]

(* A terminal in the map belongs to a client that has not begun to leave.      *)
MappedOwnerOpen == \A s \in Mapped : conn[owner[s]] = "open"

(* Nothing but the end of file stops the reader of a terminal in the map.      *)
MappedUndisturbed ==
    \A s \in Mapped :
        /\ ~pipe[s]
        /\ rpc[s] \in {"check", "select", "read"} => running[s]
        /\ rpc[s] \in {"kill", "wait", "exit", "done"} => out[s] = made[s] /\ HungUp(s)
        /\ rpc[s] = "wait" => child[s] \in {"killed", "zombie"}

IInv ==
    /\ TypeOK
    /\ AllocatedOnce
    /\ OneEntry
    /\ OpenIffOwned
    /\ SingleOwner
    /\ HandlerShape
    /\ ReaderShape
    /\ MappedOwnerOpen
    /\ MappedUndisturbed

-----------------------------------------------------------------------------
(* Nothing is allocated, mapped or held at the start.                        *)
LEMMA InitIInv == Init => IInv
<1> SUFFICES ASSUME Init PROVE IInv
    OBVIOUS
<1> USE NoneAssumption, LimitAssumption DEF Init
<1>1. TypeOK
    BY DEF TypeOK, HandlerPC, ReaderPC, ChildState, Answers
<1>2. Mapped = {} /\ \A c \in Conn, s \in Session : ~Holds(c, s)
    BY DEF Mapped, Holds
<1>3. AllocatedOnce /\ OneEntry /\ HandlerShape /\ ReaderShape
    BY DEF AllocatedOnce, OneEntry, HandlerShape, ReaderShape
<1>4. OpenIffOwned /\ SingleOwner /\ MappedOwnerOpen /\ MappedUndisturbed
    BY <1>2 DEF OpenIffOwned, SingleOwner, MappedOwnerOpen, MappedUndisturbed
<1> QED
    BY <1>1, <1>3, <1>4 DEF IInv

(* A step that leaves the map and the handlers alone leaves ownership alone.   *)
LEMMA OwnershipKept ==
    ASSUME UNCHANGED <<sessions, pc, cur, todo>>
    PROVE  /\ Mapped' = Mapped
           /\ \A c \in Conn, s \in Session : Holds(c, s)' = Holds(c, s)
    BY DEF Mapped, Holds

(* create puts a fresh session in the map; nobody held it before.            *)
LEMMA CreateStep ==
    ASSUME IInv, NEW c \in Conn, NEW t \in Term, NEW s \in Session, Create(c, t, s)
    PROVE  IInv'
<1> USE NoneAssumption
<1>1. TypeOK'
    BY DEF IInv, TypeOK, Create, HandlerPC, ReaderPC, ChildState, Answers
<1>2. /\ s \notin Mapped
      /\ \A d \in Conn : ~Holds(d, s)
    BY DEF IInv, OpenIffOwned, AllocatedOnce, Create
<1>3. Mapped' = Mapped \cup {s}
    BY DEF IInv, TypeOK, Mapped, Create, CreateRefused
<1>4. \A d \in Conn, r \in Session : Holds(d, r)' = Holds(d, r)
    BY DEF IInv, TypeOK, HandlerShape, Holds, Create, Ready
<1>5. AllocatedOnce'
    BY DEF IInv, TypeOK, AllocatedOnce, Create
<1>6. OneEntry'
    BY <1>2 DEF IInv, TypeOK, OneEntry, Mapped, Create
<1>7. OpenIffOwned' /\ SingleOwner'
    BY <1>2, <1>3, <1>4 DEF IInv, TypeOK, OpenIffOwned, SingleOwner, Create
<1>8. HandlerShape'
    BY DEF IInv, TypeOK, HandlerShape, Create, Ready
<1>9. ReaderShape'
    BY DEF IInv, TypeOK, ReaderShape, AllocatedOnce, Create, HungUp
<1>10. MappedOwnerOpen'
    BY <1>3 DEF IInv, TypeOK, MappedOwnerOpen, Create, Ready
<1>11. MappedUndisturbed'
    BY <1>3 DEF IInv, TypeOK, MappedUndisturbed, AllocatedOnce, Create, HungUp
<1> QED
    BY <1>1, <1>5, <1>6, <1>7, <1>8, <1>9, <1>10, <1>11 DEF IInv

(* A refusal, a write, a resize: only the answer changes.                      *)
LEMMA AnswerStep ==
    ASSUME IInv, answer' \in Answers,
           UNCHANGED <<sessions, conn, pc, cur, todo, sessionVars>>
    PROVE  IInv'
<1>1. TypeOK'
    BY DEF IInv, TypeOK, sessionVars
<1>2. Mapped' = Mapped /\ \A c \in Conn, s \in Session : Holds(c, s)' = Holds(c, s)
    BY OwnershipKept
<1>3. AllocatedOnce' /\ OneEntry' /\ HandlerShape' /\ ReaderShape'
    BY DEF IInv, AllocatedOnce, OneEntry, HandlerShape, ReaderShape, HungUp, sessionVars
<1>4. OpenIffOwned' /\ SingleOwner' /\ MappedOwnerOpen' /\ MappedUndisturbed'
    BY <1>2 DEF IInv, OpenIffOwned, SingleOwner, MappedOwnerOpen, MappedUndisturbed,
                HungUp, sessionVars
<1> QED
    BY <1>1, <1>3, <1>4 DEF IInv

(* The "created" reply gives up the reference create has returned.           *)
LEMMA SendCreatedStep ==
    ASSUME IInv, NEW c \in Conn, SendCreated(c)
    PROVE  IInv'
<1> USE NoneAssumption
<1>1. TypeOK'
    BY DEF IInv, TypeOK, SendCreated, HandlerPC
<1>2. Mapped' = Mapped /\ \A d \in Conn, s \in Session : Holds(d, s)' = Holds(d, s)
    BY DEF IInv, TypeOK, Mapped, Holds, SendCreated
<1>3. AllocatedOnce' /\ OneEntry' /\ ReaderShape'
    BY DEF IInv, AllocatedOnce, OneEntry, ReaderShape, HungUp, SendCreated
<1>4. HandlerShape'
    BY DEF IInv, TypeOK, HandlerShape, SendCreated
<1>5. OpenIffOwned' /\ SingleOwner' /\ MappedOwnerOpen' /\ MappedUndisturbed'
    BY <1>2 DEF IInv, OpenIffOwned, SingleOwner, MappedOwnerOpen, MappedUndisturbed,
                HungUp, SendCreated
<1> QED
    BY <1>1, <1>3, <1>4, <1>5 DEF IInv

(* kill moves one session from the map into the hands of its handler.        *)
LEMMA KillStep ==
    ASSUME IInv, NEW c \in Conn, NEW t \in Term, Kill(c, t)
    PROVE  IInv'
<1> USE NoneAssumption
<1> DEFINE s == sessions[t]
<1>1. s \in Mapped /\ \A d \in Conn : ~Holds(d, s)
    BY DEF IInv, TypeOK, Mapped, SingleOwner, Kill
<1>2. TypeOK'
    BY DEF IInv, TypeOK, Kill, Erased, HandlerPC, Answers, sessionVars
<1>3. Mapped' = Mapped \ {s}
    BY DEF IInv, TypeOK, OneEntry, Mapped, Kill, Erased
<1>4. \A d \in Conn, r \in Session : Holds(d, r)' <=> Holds(d, r) \/ (d = c /\ r = s)
    BY DEF IInv, TypeOK, HandlerShape, Holds, Kill, Ready
<1>5. AllocatedOnce' /\ OneEntry' /\ ReaderShape'
    BY DEF IInv, TypeOK, AllocatedOnce, OneEntry, ReaderShape, HungUp, Kill, Erased,
           sessionVars
<1>6. OpenIffOwned' /\ SingleOwner'
    BY <1>1, <1>3, <1>4 DEF IInv, OpenIffOwned, SingleOwner, Mapped, Kill, sessionVars
<1>7. HandlerShape'
    BY DEF IInv, TypeOK, HandlerShape, Kill, Ready, sessionVars
<1>8. MappedOwnerOpen' /\ MappedUndisturbed'
    BY <1>3 DEF IInv, MappedOwnerOpen, MappedUndisturbed, HungUp, Kill, sessionVars
<1> QED
    BY <1>2, <1>5, <1>6, <1>7, <1>8 DEF IInv

(* close_all moves the whole map into the hands of the leaving client.       *)
LEMMA DisconnectStep ==
    ASSUME IInv, NEW c \in Conn, Disconnect(c)
    PROVE  IInv'
<1> USE NoneAssumption
<1>1. TypeOK'
    BY DEF IInv, TypeOK, Disconnect, ToClose, Mapped, HandlerPC, sessionVars
<1>2. Mapped' = {}
    BY DEF Mapped, Disconnect
<1>3. \A d \in Conn, r \in Session :
          Holds(d, r)' <=> Holds(d, r) \/ (d = c /\ r \in Mapped)
    BY DEF IInv, TypeOK, HandlerShape, Holds, Disconnect, ToClose, Ready
<1>4. AllocatedOnce' /\ OneEntry' /\ ReaderShape'
    BY DEF IInv, TypeOK, AllocatedOnce, OneEntry, ReaderShape, HungUp, Disconnect,
           sessionVars
<1>5. OpenIffOwned' /\ SingleOwner'
    BY <1>2, <1>3 DEF IInv, OpenIffOwned, SingleOwner, Disconnect, sessionVars
<1>6. HandlerShape'
    BY DEF IInv, TypeOK, HandlerShape, Disconnect, ToClose, Mapped, Ready, sessionVars
<1>7. MappedOwnerOpen' /\ MappedUndisturbed'
    BY <1>2 DEF MappedOwnerOpen, MappedUndisturbed
<1> QED
    BY <1>1, <1>4, <1>5, <1>6, <1>7 DEF IInv

(* shutdown_session up to the join: the handler moves on, its session stays    *)
(* its own.  These steps only disturb what is said about an unmapped session.  *)
LEMMA ShutdownStep ==
    ASSUME IInv, NEW c \in Conn,
           ShutdownFlag(c) \/ ShutdownPipe(c) \/ ShutdownKill(c) \/ ShutdownJoin(c)
    PROVE  IInv'
<1> USE NoneAssumption
<1> DEFINE s == cur[c]
<1>1. /\ s \in Session /\ Holds(c, s) /\ s \notin Mapped
      /\ rpc[s] # "none"
  <2>1. pc[c] \in {"flag", "pipe", "kill", "join"}
    BY DEF Goto, ShutdownFlag, ShutdownPipe, ShutdownKill, ShutdownJoin
  <2>2. s \in Session /\ Holds(c, s)
    BY <2>1 DEF IInv, TypeOK, HandlerShape, Holds
  <2>3. fds[s] = "open" /\ s \notin Mapped
    BY <2>2 DEF IInv, OpenIffOwned, SingleOwner
  <2> QED
    BY <2>2, <2>3 DEF IInv, AllocatedOnce
<1>2. /\ UNCHANGED <<sessions, conn, cur, todo, answer, owner, rpc, fds, made, out,
                     exited, told>>
      /\ pc[c] \in {"flag", "pipe", "kill", "join"}
      /\ \E p \in {"pipe", "kill", "join", "close"} : pc' = [pc EXCEPT ![c] = p]
      /\ pc'[c] = "close" => rpc[s] = "done"
    BY DEF IInv, TypeOK, Goto, ShutdownFlag, ShutdownPipe, ShutdownKill, ShutdownJoin,
           Joined, closerKeeps, sessionVars
<1>3. /\ running' \in [Session -> BOOLEAN]
      /\ pipe' \in [Session -> BOOLEAN]
      /\ \A r \in Session \ {s} : running'[r] = running[r] /\ pipe'[r] = pipe[r]
    BY DEF IInv, TypeOK, ShutdownFlag, ShutdownPipe, ShutdownKill, ShutdownJoin,
           closerKeeps, sessionVars
<1>4. /\ child' \in [Session -> ChildState]
      /\ \A r \in Session : \/ child'[r] = child[r]
                            \/ child[r] \in {"up", "detached"} /\ child'[r] = "killed"
  <2>1. child' = child \/ child' = Killed(s)
    BY DEF ShutdownFlag, ShutdownPipe, ShutdownKill, ShutdownJoin, sessionVars
  <2>2. child \in [Session -> ChildState]
    BY DEF IInv, TypeOK
  <2> QED
    BY <1>1, <2>1, <2>2 DEF Killed, ChildState
<1>5. TypeOK'
    BY <1>2, <1>3, <1>4 DEF IInv, TypeOK, HandlerPC
<1>6. Mapped' = Mapped /\ \A d \in Conn, r \in Session : Holds(d, r)' = Holds(d, r)
    BY <1>2 DEF IInv, TypeOK, Mapped, Holds
<1>7. AllocatedOnce' /\ OneEntry'
    BY <1>1, <1>2, <1>3, <1>4 DEF IInv, AllocatedOnce, OneEntry
<1>8. OpenIffOwned' /\ SingleOwner' /\ MappedOwnerOpen'
    BY <1>2, <1>6 DEF IInv, OpenIffOwned, SingleOwner, MappedOwnerOpen
<1>9. HandlerShape'
    BY <1>2 DEF IInv, TypeOK, HandlerShape
<1>10. ReaderShape'
    BY <1>2, <1>4 DEF IInv, ReaderShape, HungUp
<1>11. MappedUndisturbed'
    BY <1>1, <1>2, <1>3, <1>4, <1>6 DEF IInv, MappedUndisturbed, HungUp, Mapped
<1> QED
    BY <1>5, <1>7, <1>8, <1>9, <1>10, <1>11 DEF IInv

(* Closing the fds of a joined session ends all ownership of it.             *)
LEMMA ShutdownCloseStep ==
    ASSUME IInv, NEW c \in Conn, ShutdownClose(c)
    PROVE  IInv'
<1> USE NoneAssumption
<1> DEFINE s == cur[c]
<1>1. /\ s \in Session /\ s \notin todo[c] /\ s \notin Mapped
      /\ rpc[s] = "done"
      /\ \A d \in Conn \ {c} : ~Holds(d, s)
    BY DEF IInv, TypeOK, HandlerShape, SingleOwner, Holds, Goto, ShutdownClose
<1>2. TypeOK'
    BY DEF IInv, TypeOK, ShutdownClose, Goto, closerKeeps, HandlerPC
<1>3. Mapped' = Mapped
    BY DEF Mapped, ShutdownClose, closerKeeps
<1>4. \A d \in Conn, r \in Session : Holds(d, r)' <=> Holds(d, r) /\ r # s
    BY <1>1 DEF IInv, TypeOK, SingleOwner, Holds, ShutdownClose, Goto, closerKeeps
<1>5. AllocatedOnce' /\ OneEntry' /\ ReaderShape'
    BY <1>1 DEF IInv, TypeOK, AllocatedOnce, OneEntry, ReaderShape, HungUp,
                ShutdownClose, closerKeeps
<1>6. OpenIffOwned' /\ SingleOwner'
    BY <1>1, <1>3, <1>4 DEF IInv, TypeOK, OpenIffOwned, SingleOwner, ShutdownClose
<1>7. HandlerShape'
    BY DEF IInv, TypeOK, HandlerShape, ShutdownClose, Goto, closerKeeps
<1>8. MappedOwnerOpen' /\ MappedUndisturbed'
    BY <1>3 DEF IInv, MappedOwnerOpen, MappedUndisturbed, HungUp, ShutdownClose,
                closerKeeps
<1> QED
    BY <1>2, <1>5, <1>6, <1>7, <1>8 DEF IInv

(* close_all's next session stays with the same handler.                     *)
LEMMA ShutdownNextStep ==
    ASSUME IInv, NEW c \in Conn, NEW s \in Session, ShutdownNext(c, s)
    PROVE  IInv'
<1> USE NoneAssumption
<1>1. TypeOK'
    BY DEF IInv, TypeOK, ShutdownNext, Goto, sessionVars, HandlerPC
<1>2. Mapped' = Mapped
    BY DEF Mapped, ShutdownNext
<1>3. \A d \in Conn, r \in Session : Holds(d, r)' <=> Holds(d, r)
    BY DEF IInv, TypeOK, HandlerShape, Holds, ShutdownNext, Goto
<1>4. AllocatedOnce' /\ OneEntry' /\ ReaderShape'
    BY DEF IInv, AllocatedOnce, OneEntry, ReaderShape, HungUp, ShutdownNext, sessionVars
<1>5. OpenIffOwned' /\ SingleOwner' /\ MappedOwnerOpen' /\ MappedUndisturbed'
    BY <1>2, <1>3 DEF IInv, OpenIffOwned, SingleOwner, MappedOwnerOpen,
                      MappedUndisturbed, HungUp, ShutdownNext, sessionVars
<1>6. HandlerShape'
    BY DEF IInv, TypeOK, HandlerShape, ShutdownNext, Goto, sessionVars
<1> QED
    BY <1>1, <1>4, <1>5, <1>6 DEF IInv

(* A handler returns, and a connection goes away, with nothing in hand.      *)
LEMMA HandlerReturnsStep ==
    ASSUME IInv, NEW c \in Conn, HandlerReturns(c)
    PROVE  IInv'
<1> USE NoneAssumption
<1>1. TypeOK'
    BY DEF IInv, TypeOK, HandlerReturns, Goto, sessionVars, HandlerPC
<1>2. Mapped' = Mapped
    BY DEF Mapped, HandlerReturns
<1>3. \A d \in Conn, r \in Session : Holds(d, r)' <=> Holds(d, r)
    BY DEF IInv, TypeOK, HandlerShape, Holds, HandlerReturns, Goto
<1>4. AllocatedOnce' /\ OneEntry' /\ ReaderShape'
    BY DEF IInv, AllocatedOnce, OneEntry, ReaderShape, HungUp, HandlerReturns, sessionVars
<1>5. OpenIffOwned' /\ SingleOwner' /\ MappedUndisturbed'
    BY <1>2, <1>3 DEF IInv, OpenIffOwned, SingleOwner, MappedUndisturbed, HungUp,
                      HandlerReturns, sessionVars
<1>6. MappedOwnerOpen'
    BY <1>2 DEF IInv, TypeOK, MappedOwnerOpen, HandlerReturns, sessionVars, Mapped
<1>7. HandlerShape'
    BY DEF IInv, TypeOK, HandlerShape, HandlerReturns, Drained, Goto, sessionVars
<1> QED
    BY <1>1, <1>4, <1>5, <1>6, <1>7 DEF IInv

-----------------------------------------------------------------------------
(* A reader or a shell leaves the map and the handlers alone.                  *)
LEMMA ReaderKeepsOwnership ==
    ASSUME IInv, UNCHANGED readerKeeps
    PROVE  /\ Mapped' = Mapped
           /\ \A c \in Conn, s \in Session : Holds(c, s)' = Holds(c, s)
           /\ OneEntry' /\ OpenIffOwned' /\ SingleOwner' /\ MappedOwnerOpen'
<1>1. UNCHANGED <<sessions, pc, cur, todo, conn, owner, fds>>
    BY DEF readerKeeps, handlerVars
<1>2. Mapped' = Mapped /\ \A c \in Conn, s \in Session : Holds(c, s)' = Holds(c, s)
    BY <1>1, OwnershipKept
<1> QED
    BY <1>1, <1>2 DEF IInv, OneEntry, OpenIffOwned, SingleOwner, MappedOwnerOpen

(* A reader never goes back to "none", and "done" is final.                    *)
LEMMA ReaderKeepsHandlers ==
    ASSUME IInv, UNCHANGED readerKeeps,
           \A s \in Session : /\ rpc'[s] = "none" <=> rpc[s] = "none"
                              /\ rpc[s] = "done" => rpc'[s] = "done"
    PROVE  HandlerShape'
<1>1. UNCHANGED <<conn, pc, cur, todo>>
    BY DEF readerKeeps, handlerVars
<1>2. \A c \in Conn : pc[c] \in {"reply", "close"} => cur[c] \in Session
    BY DEF IInv, TypeOK, HandlerShape
<1> QED
    BY <1>1, <1>2 DEF IInv, HandlerShape

(* Every step of a reader thread keeps the invariant.                        *)
LEMMA ReaderStep ==
    ASSUME IInv, NEW s \in Session, Reader(s)
    PROVE  IInv'
<1> USE LimitAssumption
<1> SUFFICES ASSUME UNCHANGED readerKeeps
             PROVE  /\ TypeOK' /\ AllocatedOnce' /\ ReaderShape' /\ MappedUndisturbed'
                    /\ \A r \in Session : /\ rpc'[r] = "none" <=> rpc[r] = "none"
                                          /\ rpc[r] = "done" => rpc'[r] = "done"
    BY ReaderKeepsOwnership, ReaderKeepsHandlers
       DEF IInv, Reader, ReaderCheck, ReaderSelect, ReaderRead, ReaderKill, ReaderWait,
           ReaderExit
<1> USE DEF readerKeeps, handlerVars, ReaderGoto, IInv, TypeOK
<1>0. Mapped' = Mapped
    BY ReaderKeepsOwnership
<1>1. CASE ReaderCheck(s)
    BY <1>0, <1>1 DEF ReaderCheck, ReaderPC, AllocatedOnce, ReaderShape,
                      MappedUndisturbed, HungUp
<1>2. CASE ReaderSelect(s)
    BY <1>0, <1>2 DEF ReaderSelect, ReaderPC, AllocatedOnce, ReaderShape,
                      MappedUndisturbed, HungUp
<1>3. CASE ReaderRead(s)
    BY <1>0, <1>3 DEF ReaderRead, AtEof, ReaderPC, AllocatedOnce, ReaderShape,
                      MappedUndisturbed, HungUp
<1>4. CASE ReaderKill(s)
  <2>1. /\ child' \in [Session -> ChildState]
        /\ \A r \in Session : \/ child'[r] = child[r]
                              \/ child[r] \in {"up", "detached"} /\ child'[r] = "killed"
    BY <1>4 DEF ReaderKill, Killed, ChildState
  <2>2. TypeOK'
    BY <1>4, <2>1 DEF ReaderKill, ReaderPC
  <2>3. AllocatedOnce' /\ ReaderShape'
    BY <1>4, <2>1 DEF ReaderKill, ReaderPC, AllocatedOnce, ReaderShape, HungUp
  <2>4. MappedUndisturbed'
    <3> SUFFICES ASSUME NEW r \in Mapped
                 PROVE  /\ ~pipe'[r]
                        /\ rpc'[r] \in {"check", "select", "read"} => running'[r]
                        /\ rpc'[r] \in {"kill", "wait", "exit", "done"} =>
                               out'[r] = made'[r] /\ HungUp(r)'
                        /\ rpc'[r] = "wait" => child'[r] \in {"killed", "zombie"}
      BY <1>0 DEF MappedUndisturbed
    <3>1. r \in Session
      BY DEF Mapped
    <3>2. CASE r = s
      BY <1>4, <2>1, <3>2, <3>1 DEF ReaderKill, Killed, ChildState, MappedUndisturbed,
                                    ReaderShape, HungUp
    <3>3. CASE r # s
      BY <1>4, <2>1, <3>3, <3>1 DEF ReaderKill, MappedUndisturbed, HungUp
    <3> QED
      BY <3>2, <3>3
  <2> QED
    BY <1>4, <2>2, <2>3, <2>4 DEF ReaderKill
<1>5. CASE ReaderWait(s)
    BY <1>0, <1>5 DEF ReaderWait, ReaderPC, ChildState, AllocatedOnce, ReaderShape,
                      MappedUndisturbed, HungUp
<1>6. CASE ReaderExit(s)
    BY <1>0, <1>6 DEF ReaderExit, ReaderPC, AllocatedOnce, ReaderShape,
                      MappedUndisturbed, HungUp
<1> QED
    BY <1>1, <1>2, <1>3, <1>4, <1>5, <1>6 DEF Reader

(* Every step of a shell keeps the invariant.                                *)
LEMMA ShellStep ==
    ASSUME IInv, NEW s \in Session,
           \/ ShellStarts(s) \/ ShellWrites(s) \/ ShellDetaches(s) \/ ShellExits(s)
           \/ ShellIsKilled(s)
    PROVE  IInv'
<1> USE LimitAssumption
<1> SUFFICES ASSUME UNCHANGED readerKeeps, UNCHANGED rpc
             PROVE  TypeOK' /\ AllocatedOnce' /\ ReaderShape' /\ MappedUndisturbed'
    BY ReaderKeepsOwnership, ReaderKeepsHandlers
       DEF IInv, ShellStarts, ShellWrites, ShellDetaches, ShellExits, ShellIsKilled, Dies
<1> USE DEF readerKeeps, handlerVars, IInv, TypeOK
<1>0. Mapped' = Mapped
    BY ReaderKeepsOwnership
<1>1. CASE ShellWrites(s)
  <2>1. TypeOK' /\ AllocatedOnce'
    BY <1>1 DEF ShellWrites, AllocatedOnce
  <2>2. ReaderShape'
    BY <1>1 DEF ShellWrites, ReaderShape, HungUp
  <2>3. MappedUndisturbed'
    BY <1>0, <1>1 DEF ShellWrites, MappedUndisturbed, HungUp, Mapped
  <2> QED
    BY <2>1, <2>2, <2>3
<1>2. CASE ShellStarts(s) \/ ShellDetaches(s)
  <2>1. TypeOK' /\ AllocatedOnce'
    BY <1>2 DEF ShellStarts, ShellDetaches, ChildState, AllocatedOnce
  <2>2. ReaderShape'
    BY <1>2 DEF ShellStarts, ShellDetaches, ReaderShape, HungUp
  <2>3. MappedUndisturbed'
    BY <1>0, <1>2 DEF ShellStarts, ShellDetaches, MappedUndisturbed, HungUp, Mapped
  <2> QED
    BY <2>1, <2>2, <2>3
<1>3. CASE ShellExits(s) \/ ShellIsKilled(s)
  <2>1. TypeOK' /\ AllocatedOnce'
    BY <1>3 DEF ShellExits, ShellIsKilled, Dies, ChildState, AllocatedOnce
  <2>2. ReaderShape'
    BY <1>3 DEF ShellExits, ShellIsKilled, Dies, ReaderShape, HungUp
  <2>3. MappedUndisturbed'
    BY <1>0, <1>3 DEF ShellExits, ShellIsKilled, Dies, MappedUndisturbed, HungUp, Mapped
  <2> QED
    BY <2>1, <2>2, <2>3
<1> QED
    BY <1>1, <1>2, <1>3

-----------------------------------------------------------------------------
(* The inductive invariant holds in every reachable state.                     *)
THEOREM Inductive == Spec => []IInv
<1>1. IInv /\ [Next]_vars => IInv'
  <2> SUFFICES ASSUME IInv, [Next]_vars PROVE IInv'
    OBVIOUS
  <2>1. ASSUME NEW c \in Conn, Request(c) PROVE IInv'
    <3>1. CASE \E t \in Term, s \in Session : Create(c, t, s)
      BY <3>1, CreateStep
    <3>2. CASE \E t \in Term :
                   CreateFails(c, t) \/ WriteOrResize(c, t) \/ KillUnknown(c, t)
      BY <3>2, AnswerStep DEF CreateFails, WriteOrResize, KillUnknown, Answers
    <3>3. CASE \E t \in Term : Kill(c, t)
      BY <3>3, KillStep
    <3>4. CASE Disconnect(c)
      BY <3>4, DisconnectStep
    <3> QED
      BY <2>1, <3>1, <3>2, <3>3, <3>4 DEF Request
  <2>2. ASSUME NEW c \in Conn, Handler(c) PROVE IInv'
    BY <2>2, SendCreatedStep, ShutdownStep, ShutdownCloseStep, ShutdownNextStep,
       HandlerReturnsStep DEF Handler
  <2>3. ASSUME NEW s \in Session,
               \/ Reader(s) \/ ShellStarts(s) \/ ShellWrites(s) \/ ShellDetaches(s)
               \/ ShellExits(s) \/ ShellIsKilled(s)
        PROVE  IInv'
    BY <2>3, ReaderStep, ShellStep
  <2>4. CASE UNCHANGED vars
    BY <2>4, AnswerStep DEF vars, handlerVars, IInv, TypeOK
  <2> QED
    BY <2>1, <2>2, <2>3, <2>4 DEF Next, AllClosed
<1> QED
    BY InitIInv, <1>1, PTL DEF Spec

(* Type correctness, for every instance.                                       *)
THEOREM TypeCorrect == Spec => []TypeOK
<1>1. IInv => TypeOK
    BY DEF IInv
<1> QED
    BY Inductive, <1>1, PTL

(* A session is reachable by one owner at a time: never two threads that join  *)
(* its reader or close its fds.                                                *)
THEOREM OneOwner == Spec => []SingleOwner
<1>1. IInv => SingleOwner
    BY DEF IInv
<1> QED
    BY Inductive, <1>1, PTL

(* Closed fds are out of everybody's reach: join-before-close is enough.       *)
THEOREM ClosedIsUnreachable == Spec => []NoUseAfterClose
<1>1. IInv => NoUseAfterClose
  <2> SUFFICES ASSUME IInv, NEW s \in Session, fds[s] = "closed"
               PROVE  /\ rpc[s] = "done" /\ s \notin Mapped
                      /\ \A c \in Conn : ~Holds(c, s)
    BY DEF NoUseAfterClose
  <2>1. s \notin Mapped /\ \A c \in Conn : ~Holds(c, s)
    BY DEF IInv, OpenIffOwned
  <2> QED
    BY <2>1 DEF IInv, ReaderShape
<1> QED
    BY Inductive, <1>1, PTL

(* Every shell that still has to be reaped has an owner that can do it.        *)
THEOREM NoShellForgotten == Spec => []NoOrphanShell
<1>1. IInv => NoOrphanShell
  <2> SUFFICES ASSUME IInv, NEW s \in Session, child[s] \notin {"none", "reaped"}
               PROVE  s \in Mapped \/ \E c \in Conn : Holds(c, s)
    BY DEF NoOrphanShell
  <2>1. fds[s] = "open"
    BY DEF IInv, TypeOK, AllocatedOnce, ReaderShape
  <2> QED
    BY <2>1 DEF IInv, OpenIffOwned
<1> QED
    BY Inductive, <1>1, PTL

(* The one window in which a reader outlives its client's connection.          *)
THEOREM DanglingWindow == Spec => []DanglingOnlyInForeignClose
<1>1. IInv => DanglingOnlyInForeignClose
  <2> SUFFICES ASSUME IInv, NEW s \in Session, rpc[s] \notin {"none", "done"},
                      conn[owner[s]] = "gone"
               PROVE  \E c \in Conn \ {owner[s]} : Holds(c, s)
    BY DEF DanglingOnlyInForeignClose
  <2>1. fds[s] = "open"
    BY DEF IInv, TypeOK, AllocatedOnce, ReaderShape
  <2>2. s \notin Mapped
    BY DEF IInv, MappedOwnerOpen
  <2>3. PICK c \in Conn : Holds(c, s)
    BY <2>1, <2>2 DEF IInv, OpenIffOwned
  <2>4. conn[c] # "gone"
    BY <2>3, NoneAssumption DEF IInv, HandlerShape, Holds
  <2> QED
    BY <2>3, <2>4
<1> QED
    BY Inductive, <1>1, PTL

(* A terminal that ends by itself has told its client everything.              *)
THEOREM ExitIsComplete == Spec => []NothingLostOnExit
<1>1. IInv => NothingLostOnExit
    BY DEF IInv, NothingLostOnExit, ReaderShape, MappedUndisturbed, Mapped
<1> QED
    BY Inductive, <1>1, PTL

(* A reader hangs on a live shell only in a terminal that is being closed.     *)
THEOREM OnlyClosingHangs == Spec => []SparedOnlyIfClosed
<1>1. IInv => SparedOnlyIfClosed
  <2> SUFFICES ASSUME IInv, NEW s \in Session, Spared(s)
               PROVE  \E c \in Conn : Holds(c, s)
    BY DEF SparedOnlyIfClosed
  <2>1. fds[s] = "open"
    BY DEF IInv, TypeOK, AllocatedOnce, ReaderShape, Spared
  <2>2. s \notin Mapped
    BY DEF IInv, MappedUndisturbed, Spared
  <2> QED
    BY <2>1, <2>2 DEF IInv, OpenIffOwned
<1> QED
    BY Inductive, <1>1, PTL
=============================================================================
