------------------------------ MODULE PtyManager ------------------------------
(* The terminals of the IDE backend: LocalPtyManager and the handlers of       *)
(* TerminalChannel that drive it.                                              *)
(*                                                                             *)
(* Three kinds of actors interleave.                                           *)
(*   - One handler thread per WebSocket connection: the handlers of one        *)
(*     connection are serial, those of two connections are not.                *)
(*   - One reader thread per PtySession, which relays output and, at the end,  *)
(*     kills and reaps the shell and reports its exit.                         *)
(*   - The shell process at the other end of the PTY.                          *)
(*                                                                             *)
(* mutex_ guards only sessions_, and nothing blocks while it is held: each     *)
(* critical section is one action.  Everything shutdown_session does happens   *)
(* outside the mutex and is modelled statement by statement.                   *)
EXTENDS Naturals, FiniteSets

CONSTANTS
    Conn,          \* connections, each with the thread that runs its handlers
    Term,          \* client-assigned terminal ids
    Session,       \* PtySession objects; each is allocated at most once
    NoConn,        \* the owner of a session not allocated yet
    NoSession,     \* "no session": an absent map entry, an empty unique_ptr
    MaxTerminals,  \* MAX_TERMINALS
    MaxChunks      \* bound on the chunks of output one shell writes

ASSUME NoneAssumption == NoSession \notin Session /\ NoConn \notin Conn
ASSUME LimitAssumption == MaxTerminals \in Nat \ {0} /\ MaxChunks \in Nat

VARIABLES
    sessions,  \* sessions_: terminal id -> the session it owns
    conn,      \* the connection object: open, closing (on_close runs), gone
    pc,        \* where the handler of a connection stands
    cur,       \* the session shutdown_session works on
    todo,      \* close_all's to_close: moved out of the map, not yet shut down
    answer,    \* the outcome of the last request that has returned one
    owner,     \* conn_ptr, captured by the callbacks of a session
    rpc,       \* where the reader thread of a session stands
    running,   \* PtySession::running
    pipe,      \* a byte waits in shutdown_pipe
    fds,       \* master_fd and shutdown_pipe: none, open or closed
    child,     \* the shell process
    made,      \* chunks the shell has written to the PTY
    out,       \* chunks sent to the client as "output"
    exited,    \* "exited" messages sent to the client
    told       \* the "created" message has been sent

sessionVars == <<owner, rpc, running, pipe, fds, child, made, out, exited, told>>
handlerVars == <<conn, pc, cur, todo, answer>>
readerKeeps == <<sessions, handlerVars, owner, pipe, fds, told>>
closerKeeps == <<sessions, conn, answer, owner, rpc, made, out, exited, told>>
vars == <<sessions, handlerVars, sessionVars>>

HandlerPC == {"idle", "reply", "flag", "pipe", "kill", "join", "close", "next"}
ReaderPC == {"none", "check", "select", "read", "kill", "wait", "exit", "done"}

(* A child is "forked" until its setsid makes it the leader of a process group *)
(* and "up" until it exits; one that let go of its tty ("detached") or was     *)
(* sent SIGKILL ("killed") is still a process, a "zombie" waits to be reaped.  *)
ChildState == {"none", "forked", "up", "detached", "killed", "zombie", "reaped"}
Answers == {"ok", "limit", "not_found", "error"}

Mapped == {s \in Session : \E t \in Term : sessions[t] = s}

(* A thread owns the sessions it moved out of the map until it frees them.     *)
Holds(c, s) == s \in todo[c] \/ (cur[c] = s /\ pc[c] # "reply")

(* The slave side has no live holder: a read of the master returns EOF or EIO  *)
(* (a process that was sent SIGKILL runs no code of its own any more).         *)
HungUp(s) == child[s] \notin {"none", "forked", "up"}

(* killpg(child_pid, SIGKILL): of no effect on a process that has exited, nor  *)
(* on one that has not reached setsid, as there is no such group yet.          *)
NotKilled(s) == child
Killed(s) == IF child[s] \in {"up", "detached"}
             THEN [child EXCEPT ![s] = "killed"] ELSE child

Init ==
    /\ sessions = [t \in Term |-> NoSession]
    /\ conn = [c \in Conn |-> "open"]
    /\ pc = [c \in Conn |-> "idle"]
    /\ cur = [c \in Conn |-> NoSession]
    /\ todo = [c \in Conn |-> {}]
    /\ answer = "ok"
    /\ owner = [s \in Session |-> NoConn]
    /\ rpc = [s \in Session |-> "none"]
    /\ running = [s \in Session |-> FALSE]
    /\ pipe = [s \in Session |-> FALSE]
    /\ fds = [s \in Session |-> "none"]
    /\ child = [s \in Session |-> "none"]
    /\ made = [s \in Session |-> 0]
    /\ out = [s \in Session |-> 0]
    /\ exited = [s \in Session |-> 0]
    /\ told = [s \in Session |-> FALSE]

-----------------------------------------------------------------------------
(* Requests.  A handler starts only when the connection has no other running.  *)

Ready(c) == conn[c] = "open" /\ pc[c] = "idle"

(* The two refusals of create: the limit, then a terminal id already in use.   *)
CreateRefused(t) == Cardinality(Mapped) >= MaxTerminals \/ sessions[t] # NoSession

Create(c, t, s) ==
    /\ Ready(c)
    /\ ~CreateRefused(t)
    /\ rpc[s] = "none"
    /\ sessions' = [sessions EXCEPT ![t] = s]
    /\ owner' = [owner EXCEPT ![s] = c]
    /\ rpc' = [rpc EXCEPT ![s] = "check"]
    /\ running' = [running EXCEPT ![s] = TRUE]
    /\ fds' = [fds EXCEPT ![s] = "open"]
    /\ child' = [child EXCEPT ![s] = "forked"]
    /\ pc' = [pc EXCEPT ![c] = "reply"]
    /\ cur' = [cur EXCEPT ![c] = s]
    /\ answer' = "ok"
    /\ UNCHANGED <<conn, todo, pipe, made, out, exited, told>>

(* A failing posix_openpt, pipe or fork is undone before create returns.       *)
CreateFails(c, t) ==
    /\ Ready(c)
    /\ answer' = IF CreateRefused(t) THEN "limit" ELSE "error"
    /\ UNCHANGED <<sessions, conn, pc, cur, todo, sessionVars>>

(* handle_create sends "created" once create has returned: the reader thread   *)
(* has been running since.                                                     *)
SendCreated(c) ==
    /\ pc[c] = "reply"
    /\ told' = [told EXCEPT ![cur[c]] = TRUE]
    /\ pc' = [pc EXCEPT ![c] = "idle"]
    /\ cur' = [cur EXCEPT ![c] = NoSession]
    /\ UNCHANGED <<sessions, conn, todo, answer, owner, rpc, running, pipe, fds,
                   child, made, out, exited>>

(* write and resize: an operation on the master of a mapped session; a write   *)
(* fails when the terminal's input queue is full.                              *)
WriteOrResize(c, t) ==
    /\ Ready(c)
    /\ answer' \in IF sessions[t] = NoSession THEN {"not_found"} ELSE {"ok", "error"}
    /\ UNCHANGED <<sessions, conn, pc, cur, todo, sessionVars>>

KillUnknown(c, t) ==
    /\ Ready(c)
    /\ sessions[t] = NoSession
    /\ answer' = "not_found"
    /\ UNCHANGED <<sessions, conn, pc, cur, todo, sessionVars>>

(* The session leaves the map under the mutex; what follows runs without it.   *)
NotErased(t) == sessions
Erased(t) == [sessions EXCEPT ![t] = NoSession]

Kill(c, t) ==
    /\ Ready(c)
    /\ sessions[t] # NoSession
    /\ sessions' = Erased(t)
    /\ cur' = [cur EXCEPT ![c] = sessions[t]]
    /\ pc' = [pc EXCEPT ![c] = "flag"]
    /\ answer' = "ok"
    /\ UNCHANGED <<conn, todo, sessionVars>>

(* handle_disconnect: close_all takes every session, whoever created it.       *)
OwnSessions(c) == {s \in Mapped : owner[s] = c}
ToClose(c) == Mapped

Disconnect(c) ==
    /\ Ready(c)
    /\ conn' = [conn EXCEPT ![c] = "closing"]
    /\ pc' = [pc EXCEPT ![c] = "next"]
    /\ todo' = [todo EXCEPT ![c] = ToClose(c)]
    /\ sessions' = [t \in Term |-> NoSession]
    /\ UNCHANGED <<cur, answer, sessionVars>>

-----------------------------------------------------------------------------
(* shutdown_session, statement by statement.                                   *)

Goto(c, from, to) == pc[c] = from /\ pc' = [pc EXCEPT ![c] = to]

ShutdownFlag(c) ==
    /\ Goto(c, "flag", "pipe")
    /\ running' = [running EXCEPT ![cur[c]] = FALSE]
    /\ UNCHANGED <<closerKeeps, cur, todo, pipe, fds, child>>

ShutdownPipe(c) ==
    /\ Goto(c, "pipe", "kill")
    /\ pipe' = [pipe EXCEPT ![cur[c]] = TRUE]
    /\ UNCHANGED <<closerKeeps, cur, todo, running, fds, child>>

ShutdownKill(c) ==
    /\ Goto(c, "kill", "join")
    /\ child' = Killed(cur[c])
    /\ UNCHANGED <<closerKeeps, cur, todo, running, pipe, fds>>

(* join() returns when the reader thread has.                                  *)
NotJoined(s) == TRUE
Joined(s) == rpc[s] = "done"

ShutdownJoin(c) ==
    /\ Goto(c, "join", "close")
    /\ Joined(cur[c])
    /\ UNCHANGED <<sessions, conn, cur, todo, answer, sessionVars>>

(* The fds are closed and the PtySession is destroyed.                         *)
ShutdownClose(c) ==
    /\ Goto(c, "close", "next")
    /\ fds' = [fds EXCEPT ![cur[c]] = "closed"]
    /\ cur' = [cur EXCEPT ![c] = NoSession]
    /\ UNCHANGED <<closerKeeps, todo, running, pipe, child>>

(* close_all's loop: the next session of to_close, in any order.               *)
ShutdownNext(c, s) ==
    /\ Goto(c, "next", "flag")
    /\ s \in todo[c]
    /\ cur' = [cur EXCEPT ![c] = s]
    /\ todo' = [todo EXCEPT ![c] = @ \ {s}]
    /\ UNCHANGED <<sessions, conn, answer, sessionVars>>

(* kill returns; after close_all the connection object is destroyed.           *)
StopsEarly(c) == TRUE
Drained(c) == todo[c] = {}

HandlerReturns(c) ==
    /\ Goto(c, "next", "idle")
    /\ Drained(c)
    /\ conn' = [conn EXCEPT ![c] = IF @ = "closing" THEN "gone" ELSE @]
    /\ UNCHANGED <<sessions, cur, todo, answer, sessionVars>>

Handler(c) ==
    \/ SendCreated(c)
    \/ ShutdownFlag(c)
    \/ ShutdownPipe(c)
    \/ ShutdownKill(c)
    \/ ShutdownJoin(c)
    \/ ShutdownClose(c)
    \/ \E s \in Session : ShutdownNext(c, s)
    \/ HandlerReturns(c)

Request(c) ==
    \/ \E t \in Term, s \in Session : Create(c, t, s)
    \/ \E t \in Term :
          CreateFails(c, t) \/ WriteOrResize(c, t) \/ KillUnknown(c, t) \/ Kill(c, t)
    \/ Disconnect(c)

-----------------------------------------------------------------------------
(* reader_loop.                                                                *)

ReaderGoto(s, from, to) == rpc[s] = from /\ rpc' = [rpc EXCEPT ![s] = to]

ReaderCheck(s) ==
    /\ ReaderGoto(s, "check", IF running[s] THEN "select" ELSE "kill")
    /\ UNCHANGED <<readerKeeps, running, child, made, out, exited>>

(* select: the shutdown pipe is looked at before the master; neither readable  *)
(* is the 100ms timeout.                                                       *)
ReaderSelect(s) ==
    /\ ReaderGoto(s, "select",
                  IF pipe[s] THEN "kill"
                  ELSE IF made[s] > out[s] \/ HungUp(s) THEN "read"
                  ELSE "check")
    /\ UNCHANGED <<readerKeeps, running, child, made, out, exited>>

(* read returns what was written before it returns the end of file; a chunk is *)
(* relayed to the connection that created the session.                         *)
EofAtHangup(s) == HungUp(s)
AtEof(s) == made[s] = out[s]

ReaderRead(s) ==
    /\ ReaderGoto(s, "read", IF AtEof(s) THEN "kill" ELSE "check")
    /\ out' = [out EXCEPT ![s] = IF AtEof(s) THEN @ ELSE @ + 1]
    /\ UNCHANGED <<readerKeeps, running, child, made, exited>>

(* running = false, then killpg: nobody reads the flag in between.             *)
ReaderKill(s) ==
    /\ ReaderGoto(s, "kill", "wait")
    /\ running' = [running EXCEPT ![s] = FALSE]
    /\ child' = Killed(s)
    /\ UNCHANGED <<readerKeeps, made, out, exited>>

(* waitpid blocks until the shell is dead and reaps it.                        *)
ReaderWait(s) ==
    /\ ReaderGoto(s, "wait", "exit")
    /\ child[s] = "zombie"
    /\ child' = [child EXCEPT ![s] = "reaped"]
    /\ UNCHANGED <<readerKeeps, running, made, out, exited>>

(* on_exit sends "exited"; the thread returns.                                 *)
ReaderExit(s) ==
    /\ ReaderGoto(s, "exit", "done")
    /\ exited' = [exited EXCEPT ![s] = @ + 1]
    /\ UNCHANGED <<readerKeeps, running, child, made, out>>

Reader(s) ==
    \/ ReaderCheck(s)
    \/ ReaderSelect(s)
    \/ ReaderRead(s)
    \/ ReaderKill(s)
    \/ ReaderWait(s)
    \/ ReaderExit(s)

-----------------------------------------------------------------------------
(* The shell: it starts, writes, lets go of its terminal, exits, or dies of    *)
(* SIGKILL.                                                                    *)

ShellStarts(s) ==
    /\ child[s] = "forked"
    /\ child' = [child EXCEPT ![s] = "up"]
    /\ UNCHANGED <<readerKeeps, rpc, running, made, out, exited>>

ShellWrites(s) ==
    /\ child[s] = "up"
    /\ made[s] < MaxChunks
    /\ made' = [made EXCEPT ![s] = @ + 1]
    /\ UNCHANGED <<readerKeeps, rpc, running, child, out, exited>>

ShellDetaches(s) ==
    /\ child[s] = "up"
    /\ child' = [child EXCEPT ![s] = "detached"]
    /\ UNCHANGED <<readerKeeps, rpc, running, made, out, exited>>

Dies(s, state) ==
    /\ child[s] = state
    /\ child' = [child EXCEPT ![s] = "zombie"]
    /\ UNCHANGED <<readerKeeps, rpc, running, made, out, exited>>

ShellExits(s) == Dies(s, "up") \/ Dies(s, "detached")
ShellIsKilled(s) == Dies(s, "killed")

(* Every client has left and nothing runs any more.                            *)
AllClosed ==
    /\ \A c \in Conn : conn[c] = "gone" /\ pc[c] = "idle"
    /\ \A s \in Session : rpc[s] \in {"none", "done"}
    /\ UNCHANGED vars

Next ==
    \/ \E c \in Conn : Request(c) \/ Handler(c)
    \/ \E s \in Session :
          Reader(s) \/ ShellStarts(s) \/ ShellWrites(s) \/ ShellDetaches(s)
                    \/ ShellExits(s) \/ ShellIsKilled(s)
    \/ AllClosed

Spec == Init /\ [][Next]_vars

(* The kernel runs every thread and process that can run and delivers SIGKILL. *)
(* Nothing is assumed of the clients, nor of a shell nobody has killed.        *)
Fairness ==
    /\ \A c \in Conn : WF_vars(Handler(c))
    /\ \A s \in Session :
          WF_vars(Reader(s)) /\ WF_vars(ShellStarts(s)) /\ WF_vars(ShellIsKilled(s))

FairSpec == Spec /\ Fairness

-----------------------------------------------------------------------------
(* Every variable has its type; no more is relayed than the shell has written. *)
TypeOK ==
    /\ sessions \in [Term -> Session \cup {NoSession}]
    /\ conn \in [Conn -> {"open", "closing", "gone"}]
    /\ pc \in [Conn -> HandlerPC]
    /\ cur \in [Conn -> Session \cup {NoSession}]
    /\ todo \in [Conn -> SUBSET Session]
    /\ answer \in Answers
    /\ owner \in [Session -> Conn \cup {NoConn}]
    /\ rpc \in [Session -> ReaderPC]
    /\ running \in [Session -> BOOLEAN]
    /\ pipe \in [Session -> BOOLEAN]
    /\ fds \in [Session -> {"none", "open", "closed"}]
    /\ child \in [Session -> ChildState]
    /\ made \in [Session -> 0..MaxChunks]
    /\ out \in [Session -> 0..MaxChunks]
    /\ \A s \in Session : out[s] <= made[s]
    /\ exited \in [Session -> {0, 1}]
    /\ told \in [Session -> BOOLEAN]

(* Whoever can reach a session - the map, a handler that shuts it down, its    *)
(* own reader - finds its fds open and the object alive: write, resize, select *)
(* and read never touch a closed (perhaps reused) descriptor, nor a destroyed  *)
(* PtySession ("Now safe to close all fds").                                   *)
NoUseAfterClose ==
    \A s \in Session : fds[s] = "closed" =>
        /\ rpc[s] = "done"
        /\ s \notin Mapped
        /\ \A c \in Conn : ~Holds(c, s)

(* A session has one owner: the map or a single handler.  Otherwise two        *)
(* threads would join the same reader and close the same fds.                  *)
SingleOwner ==
    \A s \in Session, c \in Conn : Holds(c, s) =>
        /\ s \notin Mapped
        /\ \A d \in Conn \ {c} : ~Holds(d, s)

(* No shell is forgotten: as long as a shell has not been reaped, its session  *)
(* is in the map, where a close or a disconnect finds it, or in the hands of a *)
(* handler that is shutting it down.                                           *)
NoOrphanShell ==
    \A s \in Session : child[s] \notin {"none", "reaped"} =>
        s \in Mapped \/ \E c \in Conn : Holds(c, s)

(* A reader relays to the raw connection pointer it was given.  The connection *)
(* may be destroyed under it only while the handler of ANOTHER connection is   *)
(* shutting the session down: close_all of the owner cannot see that session   *)
(* any more and does not wait for its reader.                                  *)
DanglingOnlyInForeignClose ==
    \A s \in Session : (rpc[s] \notin {"none", "done"} /\ conn[owner[s]] = "gone") =>
        \E c \in Conn \ {owner[s]} : Holds(c, s)

(* A terminal nobody has closed reports "exited" only after all its output has *)
(* been relayed.                                                               *)
NothingLostOnExit ==
    \A s \in Mapped : exited[s] = 1 => out[s] = made[s]

(* Its reader waits for a shell that no SIGKILL has reached.                   *)
Spared(s) == rpc[s] = "wait" /\ child[s] \in {"forked", "up", "detached"}

(* A reader waits for a shell that lives on only if a client closes the        *)
(* terminal before the shell has become a group leader; a terminal in the map  *)
(* never loses its reader that way.                                            *)
SparedOnlyIfClosed ==
    \A s \in Session : Spared(s) => \E c \in Conn : Holds(c, s)

(* Whatever a handler has taken out of the map to shut down is eventually      *)
(* closed, unless a spared shell keeps the join waiting: close_all gets        *)
(* through its list.                                                           *)
ShutdownCompletes ==
    \A c \in Conn, s \in Session :
        Holds(c, s) ~> fds[s] = "closed" \/ \E r \in Session : Spared(r)

(* A shell that has let go of its terminal, dead or alive, is reaped and       *)
(* reported even when no client asks for it, unless the close of its terminal  *)
(* has spared it.                                                              *)
HangupReported ==
    \A s \in Session : HungUp(s) ~> exited[s] = 1 \/ (Spared(s) /\ s \notin Mapped)
=============================================================================
