--------------------------- MODULE SubprocessStream ---------------------------
(* One streaming subprocess of SubprocessExecutor, from start_streaming to the *)
(* destruction of its StreamingHandle.                                         *)
(*                                                                             *)
(* Its threads share the handle without a lock: one reader per output pipe,    *)
(* the detached exit-waiter, and the thread that calls stop_streaming.  What   *)
(* the waiter and stop_streaming must not both do is decided by                *)
(* cleaned.exchange(true).  Undefined behaviour is recorded in "fault" and     *)
(* ends the behaviour: what a build does next is not modelled.  So is a write, *)
(* a signal or a wait that goes to a number the kernel may have given to       *)
(* another descriptor or process by then.                                      *)
EXTENDS Naturals

CONSTANTS
    Readers,    \* the output pipes that have a callback, hence a reader thread
    MaxChunks   \* bound on the chunks written to one pipe

ASSUME MaxChunksAssumption == MaxChunks \in Nat

VARIABLES
    child,    \* the subprocess; "missed": SIGKILL came before its setpgid
    running,  \* StreamingHandle::running
    cleaned,  \* StreamingHandle::cleaned
    pipe,     \* a byte waits in shutdown_pipe
    fds,      \* the read ends and shutdown_pipe: none, open or closed
    joined,   \* the reader threads have been joined
    freed,    \* the handle has been destroyed
    wpc,      \* where the exit-waiter stands
    spc,      \* where the caller of stop_streaming stands
    rpc,      \* where each reader stands
    made,     \* chunks written by the child, per pipe
    taken,    \* chunks its reader has read
    out,      \* chunks handed to the callback; the rest waits in line_buf
    told,     \* on_exit has been called
    calm,     \* history: stop_streaming was called after on_exit had been
    fault     \* the undefined behaviour reached, if any

handle == <<running, cleaned, pipe, fds, joined, freed>>
stream == <<rpc, made, taken, out>>
vars == <<child, handle, wpc, spc, stream, told, calm, fault>>

WaiterPC == {"none", "start", "wait", "flag", "pipe", "exchange", "join", "close",
             "callback", "done"}
StopPC == {"idle", "check", "term", "kill", "pipe", "exchange", "join", "close",
           "reap", "free", "done"}
ReaderPC == {"none", "check", "select", "read", "flush", "done"}
ChildState == {"none", "new", "missed", "up", "term", "killed", "zombie", "reaped"}
Faults == {"none", "use_after_free", "double_close", "terminate", "foreign"}

(* Nothing is said of what a build does after undefined behaviour.             *)
Alive == fault = "none"

Gone == child \in {"zombie", "reaped"}

(* The numbers of closed descriptors and of reaped processes are still used.   *)
MayStray(stale) == fault' \in IF stale THEN {fault, "foreign"} ELSE {fault}

AllRead == \A r \in Readers : rpc[r] = "done"

Init ==
    /\ child = "none"
    /\ running = FALSE /\ cleaned = FALSE /\ pipe = FALSE
    /\ fds = "none" /\ joined = FALSE /\ freed = FALSE
    /\ wpc = "none" /\ spc = "idle" /\ rpc = [r \in Readers |-> "none"]
    /\ made = [r \in Readers |-> 0]
    /\ taken = [r \in Readers |-> 0]
    /\ out = [r \in Readers |-> 0]
    /\ told = FALSE /\ calm = FALSE
    /\ fault = "none"

(* start_streaming: pipes, fork, readers, waiter.                              *)
Start ==
    /\ child = "none"
    /\ child' = "new"
    /\ running' = TRUE
    /\ fds' = "open"
    /\ rpc' = [r \in Readers |-> "check"]
    /\ wpc' = "start"
    /\ UNCHANGED <<cleaned, pipe, joined, freed, spc, made, taken, out, told, calm, fault>>

-----------------------------------------------------------------------------
(* reader_loop.                                                                *)

Unread(r) == made[r] > taken[r]

ReaderGoto(r, from, to) == Alive /\ rpc[r] = from /\ rpc' = [rpc EXCEPT ![r] = to]
ReaderKeeps == UNCHANGED <<child, handle, wpc, spc, made, told, calm, fault>>

ReaderCheck(r) ==
    /\ ReaderGoto(r, "check", IF running THEN "select" ELSE "flush")
    /\ ReaderKeeps /\ UNCHANGED <<taken, out>>

(* The shutdown pipe is looked at first.  Neither readable: the 100ms timeout. *)
ReaderSelect(r) ==
    /\ ReaderGoto(r, "select",
                  IF pipe THEN "flush"
                  ELSE IF Unread(r) \/ Gone THEN "read" ELSE "check")
    /\ ReaderKeeps /\ UNCHANGED <<taken, out>>

(* A chunk that ends a line is delivered with all that waited in line_buf, one *)
(* that does not is kept there.                                                *)
ReaderRead(r) ==
    /\ Unread(r)
    /\ ReaderGoto(r, "read", "check")
    /\ taken' = [taken EXCEPT ![r] = @ + 1]
    /\ out' = out \/ out' = [out EXCEPT ![r] = taken[r] + 1]
    /\ ReaderKeeps

ReaderEof(r) ==
    /\ ~Unread(r)
    /\ ReaderGoto(r, "read", "flush")
    /\ ReaderKeeps /\ UNCHANGED <<taken, out>>

NotFlushed(r) == out
Flushed(r) == [out EXCEPT ![r] = taken[r]]

ReaderFlush(r) ==
    /\ ReaderGoto(r, "flush", "done")
    /\ out' = Flushed(r)
    /\ ReaderKeeps /\ UNCHANGED taken

Reader(r) ==
    ReaderCheck(r) \/ ReaderSelect(r) \/ ReaderRead(r) \/ ReaderEof(r) \/ ReaderFlush(r)

-----------------------------------------------------------------------------
(* The detached exit-waiter.  Up to the callback each of its steps goes        *)
(* through the raw handle pointer.                                             *)

WaiterGoto(from, to) == Alive /\ wpc = from /\ ~freed /\ wpc' = to
WaiterKeeps == UNCHANGED <<spc, stream, told, calm, freed>>

WaiterTouchesFreed ==
    /\ Alive
    /\ wpc \in {"start", "flag", "pipe", "exchange", "join", "close"}
    /\ freed
    /\ fault' = "use_after_free"
    /\ UNCHANGED <<child, handle, wpc, spc, stream, told, calm>>

WaiterStart ==
    /\ WaiterGoto("start", "wait")
    /\ WaiterKeeps /\ UNCHANGED <<child, running, cleaned, pipe, fds, joined, fault>>

(* waitpid returns with the status, or with ECHILD if the child is reaped.     *)
WaiterReaps ==
    /\ Alive
    /\ wpc = "wait"
    /\ Gone
    /\ wpc' = "flag"
    /\ child' = "reaped"
    /\ MayStray(child = "reaped")
    /\ WaiterKeeps /\ UNCHANGED <<running, cleaned, pipe, fds, joined>>

WaiterFlag ==
    /\ WaiterGoto("flag", "pipe")
    /\ running' = FALSE
    /\ WaiterKeeps /\ UNCHANGED <<child, cleaned, pipe, fds, joined, fault>>

WaiterPipe ==
    /\ WaiterGoto("pipe", "exchange")
    /\ pipe' = TRUE
    /\ MayStray(fds = "closed")
    /\ WaiterKeeps /\ UNCHANGED <<child, running, cleaned, fds, joined>>

(* cleaned.exchange(true); a plain test would leave the flag for later.        *)
NotExchanged == cleaned
Exchanged == TRUE

(* Whoever loses the exchange still reports the exit.                          *)
LoserIsSilent == IF cleaned THEN "done" ELSE "join"
AfterExchange == IF cleaned THEN "callback" ELSE "join"

WaiterExchange ==
    /\ WaiterGoto("exchange", AfterExchange)
    /\ cleaned' = Exchanged
    /\ WaiterKeeps /\ UNCHANGED <<child, running, pipe, fds, joined, fault>>

WaiterJoin ==
    /\ WaiterGoto("join", "close")
    /\ AllRead
    /\ joined' = TRUE
    /\ WaiterKeeps /\ UNCHANGED <<child, running, cleaned, pipe, fds, fault>>

CloseAll ==
    IF fds = "open" THEN fds' = "closed" /\ UNCHANGED fault
                    ELSE fault' = "double_close" /\ UNCHANGED fds

WaiterClose ==
    /\ WaiterGoto("close", "callback")
    /\ CloseAll
    /\ WaiterKeeps /\ UNCHANGED <<child, running, cleaned, pipe, joined>>

(* on_exit is a copy of the callback: it needs no handle.                      *)
WaiterCallback ==
    /\ Alive
    /\ wpc = "callback"
    /\ wpc' = "done"
    /\ told' = TRUE
    /\ UNCHANGED <<child, handle, spc, stream, calm, fault>>

Waiter ==
    \/ WaiterStart \/ WaiterReaps \/ WaiterFlag \/ WaiterPipe \/ WaiterExchange
    \/ WaiterJoin \/ WaiterClose \/ WaiterCallback \/ WaiterTouchesFreed

-----------------------------------------------------------------------------
(* stop_streaming.  It owns the unique_ptr, so it runs at most once.           *)

StopGoto(from, to) == Alive /\ spc = from /\ spc' = to
StopKeeps == UNCHANGED <<wpc, stream, told>>

StopBegin ==
    /\ StopGoto("idle", "check")
    /\ child # "none"
    /\ calm' = (wpc \in {"callback", "done"})
    /\ StopKeeps /\ UNCHANGED <<child, handle, fault>>

StopCheck ==
    /\ StopGoto("check", IF running THEN "term" ELSE "pipe")
    /\ StopKeeps /\ UNCHANGED <<child, handle, calm, fault>>

StopTerm ==
    /\ StopGoto("term", "kill")
    /\ running' = FALSE
    /\ child' = IF child = "up" THEN "term" ELSE child
    /\ MayStray(child = "reaped")
    /\ StopKeeps /\ UNCHANGED <<cleaned, pipe, fds, joined, freed, calm>>

(* SIGKILL after the 500ms of grace; killpg misses a child that has not yet    *)
(* made its process group.                                                     *)
NotSignalled == child
Signalled ==
    CASE child \in {"up", "term"} -> "killed"
      [] child = "new" -> "missed"
      [] OTHER -> child

StopKill ==
    /\ StopGoto("kill", "pipe")
    /\ child' = Signalled
    /\ MayStray(child = "reaped")
    /\ StopKeeps /\ UNCHANGED <<handle, calm>>

StopPipe ==
    /\ StopGoto("pipe", "exchange")
    /\ pipe' = TRUE
    /\ MayStray(fds = "closed")
    /\ StopKeeps /\ UNCHANGED <<child, running, cleaned, fds, joined, freed, calm>>

StopExchange ==
    /\ StopGoto("exchange", IF cleaned THEN "free" ELSE "join")
    /\ cleaned' = TRUE
    /\ StopKeeps /\ UNCHANGED <<child, running, pipe, fds, joined, freed, calm, fault>>

StopJoin ==
    /\ StopGoto("join", "close")
    /\ AllRead
    /\ joined' = TRUE
    /\ StopKeeps /\ UNCHANGED <<child, running, cleaned, pipe, fds, freed, calm, fault>>

StopClose ==
    /\ StopGoto("close", "reap")
    /\ CloseAll
    /\ StopKeeps /\ UNCHANGED <<child, running, cleaned, pipe, joined, freed, calm>>

StopReaps ==
    /\ StopGoto("reap", "free")
    /\ Gone
    /\ child' = "reaped"
    /\ MayStray(child = "reaped")
    /\ StopKeeps /\ UNCHANGED <<handle, calm>>

(* The destructor of a joinable std::thread calls std::terminate.              *)
StopFrees ==
    /\ StopGoto("free", "done")
    /\ IF joined THEN freed' = TRUE /\ UNCHANGED fault
                 ELSE fault' = "terminate" /\ UNCHANGED freed
    /\ StopKeeps /\ UNCHANGED <<child, running, cleaned, pipe, fds, joined, calm>>

Stop ==
    \/ StopCheck \/ StopTerm \/ StopKill \/ StopPipe \/ StopExchange \/ StopJoin
    \/ StopClose \/ StopReaps \/ StopFrees

-----------------------------------------------------------------------------
(* The child makes its process group, writes, exits when it likes, may take    *)
(* its time over SIGTERM or ignore it, and dies of SIGKILL.                    *)

ChildKeeps == UNCHANGED <<handle, wpc, spc, rpc, taken, out, told, calm, fault>>

ChildStarts ==
    /\ Alive
    /\ child \in {"new", "missed"}
    /\ child' = "up"
    /\ ChildKeeps /\ UNCHANGED made

ChildWrites(r) ==
    /\ Alive
    /\ child \in {"up", "term"}
    /\ made[r] < MaxChunks
    /\ made' = [made EXCEPT ![r] = @ + 1]
    /\ ChildKeeps /\ UNCHANGED child

ChildExits ==
    /\ Alive
    /\ child \in {"up", "term"}
    /\ child' = "zombie"
    /\ ChildKeeps /\ UNCHANGED made

ChildDies ==
    /\ Alive
    /\ child = "killed"
    /\ child' = "zombie"
    /\ ChildKeeps /\ UNCHANGED made

Finished ==
    /\ wpc = "done" /\ AllRead
    /\ spc = "done"
    /\ UNCHANGED vars

Ended == ~Alive /\ UNCHANGED vars

Next ==
    \/ Start \/ Waiter \/ StopBegin \/ Stop
    \/ ChildStarts \/ ChildExits \/ ChildDies
    \/ \E r \in Readers : Reader(r) \/ ChildWrites(r)
    \/ Finished \/ Ended

Spec == Init /\ [][Next]_vars

(* The kernel runs every thread that can run, and SIGKILL kills.  Nobody has   *)
(* to call stop_streaming and no child has to exit by itself.                  *)
Fairness ==
    /\ WF_vars(Waiter)
    /\ WF_vars(Stop)
    /\ WF_vars(ChildDies)
    /\ \A r \in Readers : WF_vars(Reader(r))

FairSpec == Spec /\ Fairness

-----------------------------------------------------------------------------
(* Every variable has its type; lines are read and delivered once, in order.   *)
TypeOK ==
    /\ child \in ChildState
    /\ running \in BOOLEAN /\ cleaned \in BOOLEAN /\ pipe \in BOOLEAN
    /\ fds \in {"none", "open", "closed"}
    /\ joined \in BOOLEAN /\ freed \in BOOLEAN
    /\ told \in BOOLEAN /\ calm \in BOOLEAN
    /\ wpc \in WaiterPC /\ spc \in StopPC /\ rpc \in [Readers -> ReaderPC]
    /\ made \in [Readers -> 0..MaxChunks]
    /\ taken \in [Readers -> 0..MaxChunks]
    /\ out \in [Readers -> 0..MaxChunks]
    /\ \A r \in Readers : out[r] <= taken[r] /\ taken[r] <= made[r]
    /\ fault \in Faults

(* "cleaned" does its job: whichever way the exit and the stop of a stream     *)
(* interleave, a single path joins the readers and closes the fds, and not     *)
(* before the readers, who would select and read on reused descriptors.        *)
CleanedOnce ==
    /\ fault # "double_close"
    /\ ~(wpc \in {"join", "close"} /\ spc \in {"join", "close"})
    /\ fds = "closed" => \A r \in Readers : rpc[r] = "done"

(* on_exit comes after the last line.  Only stop_streaming, which takes the    *)
(* join over from the waiter, lets a reader deliver lines after on_exit.       *)
ExitReportedLast ==
    told /\ spc = "idle" => \A r \in Readers : rpc[r] = "done" /\ out[r] = taken[r]

(* After on_exit a stop finds the process reaped and everything cleaned: it    *)
(* joins, closes, signals and reaps nothing.  All it can do wrong is its write *)
(* to shutdown_pipe[1], which the waiter has closed and nobody has reset.      *)
StopAfterExitIsSafe ==
    calm => /\ spc \in {"check", "pipe", "exchange", "free", "done"}
            /\ fault # "none" => fault = "foreign" /\ spc = "exchange"

(* A subprocess that exits is reaped and reported.                             *)
ExitReported == child = "zombie" ~> told \/ fault # "none"

(* stop_streaming returns, even for a child that ignores SIGTERM, unless its   *)
(* SIGKILL has missed the child.                                               *)
StopReturns ==
    spc = "check" ~> spc = "done" \/ fault # "none" \/ child = "missed"

-----------------------------------------------------------------------------
(* What the comments and the tests say and the code does not keep.             *)

(* test_subprocess.cpp: after on_exit of a child that printed three lines, at  *)
(* least three lines have been delivered.  The waiter wakes the readers by the *)
(* shutdown pipe, which they obey before they have drained the output.         *)
AllLinesDelivered ==
    told /\ spc = "idle" => \A r \in Readers : out[r] = made[r]
=============================================================================
