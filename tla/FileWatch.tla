------------------------------- MODULE FileWatch -------------------------------
(* File watches on Linux: LocalFileWatchManager with its event thread, the     *)
(* FileWatchChannel in front of it, and the inotify instance behind it.        *)
(*                                                                             *)
(* watch and unwatch are one critical section of watches_mutex_; the event     *)
(* thread holds it from the lookup of an event to the last send.  The channel  *)
(* keeps its own table under its own mutex and calls the manager outside it.   *)
(* Several watches may have the same directory or the same id, and inotify has *)
(* one descriptor per directory.                                               *)
EXTENDS WatchedFiles, Sequences, FiniteSets

(* A descriptor: inotify never hands out the same number twice.                *)
Wd == Dir \X (0..(MaxOps + MaxChanges))

VARIABLES
    exists,     \* the directories that exist
    inotify,    \* the directories the kernel watches
    gen,        \* directory -> descriptors it has lost so far
    queue,      \* events waiting in inotify_fd_
    watches,    \* watches_, its ids
    recursive,  \* WatchEntry::recursive, the ids for which it is set
    wds,        \* WatchEntry::wds
    wdMap,      \* wd_map_: descriptor -> id; the path is that of its directory
    tpc,        \* where the event thread stands
    note,       \* the event it is passing on: its watch and its recipients
    running,    \* running_, or no byte in shutdown_pipe_
    spc,        \* where shutdown stands
    listed,     \* FileWatchChannel::subscribers_: id -> connections
    conn,       \* the connection: open, closing or gone
    hpc,        \* where the handler of a connection stands
    req,        \* the watch or unwatch request it works on
    todo,       \* to_cleanup of handle_disconnect
    ops,        \* requests so far
    changes,    \* file system changes so far
    cover,      \* history: id -> the directories its watch has taken charge of
    shared,     \* history: ids used by two connections, or with overlapping paths
    users,      \* history: id -> the connections that have used it
    scope,      \* history: id -> the directories its watch lays claim to
    missed      \* history: ids of which a listed client was not told a change

disk == <<exists, gen, inotify, queue, changes>>
manager == <<watches, recursive, wds, wdMap>>
thread == <<tpc, note>>
closing == <<running, spc>>
channel == <<listed, conn, hpc, req, todo, ops>>
history == <<cover, shared, users, scope, missed>>
vars == <<disk, manager, thread, closing, channel, history>>

HandlerPC == {"idle", "watch", "register", "unwatch", "unlist", "cleanup"}
NoReq == [id |-> NoId, dir |-> NoDir, rec |-> FALSE]
NoNote == [id |-> NoId, to |-> {}, due |-> {}]

Tree(d, rec) == IF rec THEN {d} \cup Inside[d] ELSE {d}
IsParent(p, d) == d \in Inside[p] /\ \A x \in Inside[p] : d \notin Inside[x]
WdOf(d, g) == <<d, g[d]>>

(* watches_mutex_ is free: the event thread holds it while it notifies.        *)
Unlocked == tpc \in {"wait", "done"}

Init ==
    /\ exists = First /\ inotify = {} /\ gen = [d \in Dir |-> 0]
    /\ queue = <<>> /\ changes = 0
    /\ watches = {} /\ recursive = {}
    /\ wds = [i \in Id |-> {}] /\ wdMap = [w \in Wd |-> NoId]
    /\ tpc = "wait" /\ note = NoNote
    /\ running = TRUE /\ spc = "idle"
    /\ listed = [i \in Id |-> {}]
    /\ conn = [c \in Conn |-> "open"] /\ hpc = [c \in Conn |-> "idle"]
    /\ req = [c \in Conn |-> NoReq] /\ todo = [c \in Conn |-> {}] /\ ops = 0
    /\ cover = [i \in Id |-> {}] /\ shared = {} /\ missed = {}
    /\ users = [i \in Id |-> {}] /\ scope = [i \in Id |-> {}]

-----------------------------------------------------------------------------
(* Steps of the manager, under watches_mutex_.                                 *)

(* inotify_rm_watch and wd_map_.erase for every descriptor of an entry; those  *)
(* the kernel does not know any more are refused by it.                        *)
NoneDropped(i) == {}
Dropped(i) == {d \in inotify : WdOf(d, gen) \in wds[i]}
GenAfter(D) == [d \in Dir |-> IF d \in D THEN gen[d] + 1 ELSE gen[d]]
ErasedFromMap(W) == [w \in Wd |-> IF w \in W THEN NoId ELSE wdMap[w]]

(* History: a client of i asks for another watch, or for none; what was due to *)
(* it is not due any more.                                                     *)
Forgive(i) ==
    queue' = [k \in DOMAIN queue |->
                 [queue[k] EXCEPT !.due = {p \in @ : p[2] # i}]]

(* History: the directories a watch lays claim to, now or when they are made,  *)
(* and the watches that claim one of them too.                                 *)
Claim(i, d, rec) == Tree(d, rec \/ i \in recursive)
Overlapping(i, S) == {j \in Id \ {i} : scope[j] \cap S # {}}
SharedBy(c, i, others) ==
    shared \cup (IF users[i] \subseteq {c} THEN {} ELSE {i})
           \cup (IF others = {} THEN {} ELSE {i} \cup others)

(* watch of a directory that could be watched, or a recursive one: the entry   *)
(* of an id that is in use stays, with its recursive flag and descriptors.     *)
Watched(i, d, rec) ==
    LET g == GenAfter(Dropped(i))
        new == Tree(d, rec) \cap exists
        newWds == {WdOf(x, g) : x \in new}
        map == ErasedFromMap(wds[i])
    IN  /\ gen' = g
        /\ inotify' = (inotify \ Dropped(i)) \cup new
        /\ watches' = watches \cup {i}
        /\ recursive' = IF rec /\ i \notin watches THEN recursive \cup {i} ELSE recursive
        /\ wds' = [wds EXCEPT ![i] = (IF i \in watches THEN @ ELSE {}) \cup newWds]
        /\ wdMap' = [w \in Wd |-> IF w \in newWds THEN i ELSE map[w]]
        /\ cover' = [cover EXCEPT ![i] = new]
        /\ scope' = [scope EXCEPT ![i] = Claim(i, d, rec)]

(* unwatch, and a watch whose inotify_add_watch fails: the entry goes.         *)
Unwatched(i) ==
    /\ gen' = GenAfter(Dropped(i))
    /\ inotify' = inotify \ Dropped(i)
    /\ watches' = watches \ {i}
    /\ recursive' = recursive \ {i}
    /\ wds' = [wds EXCEPT ![i] = {}]
    /\ wdMap' = ErasedFromMap(wds[i])
    /\ scope' = [scope EXCEPT ![i] = {}]

-----------------------------------------------------------------------------
(* The channel: handlers, serial within one connection.                        *)

Ready(c) == conn[c] = "open" /\ hpc[c] = "idle" /\ spc = "idle"
Goto(c, from, to) == hpc[c] = from /\ hpc' = [hpc EXCEPT ![c] = to]

(* A watch request; a path that does not exist is refused before the lock.     *)
WatchRequest(c, i, d, rec) ==
    /\ Ready(c) /\ ops < MaxOps
    /\ d \in exists
    /\ Goto(c, "idle", "watch")
    /\ req' = [req EXCEPT ![c] = [id |-> i, dir |-> d, rec |-> rec]]
    /\ ops' = ops + 1
    /\ UNCHANGED <<disk, manager, thread, closing, listed, conn, todo, history>>

ManagerWatches(c) ==
    LET i == req[c].id  d == req[c].dir  rec == req[c].rec IN
    /\ Goto(c, "watch", "register")
    /\ Unlocked
    /\ rec \/ d \in exists
    /\ Watched(i, d, rec)
    /\ Forgive(i)
    /\ users' = [users EXCEPT ![i] = @ \cup {c}]
    /\ shared' = SharedBy(c, i, Overlapping(i, Claim(i, d, rec)))
    /\ UNCHANGED <<exists, changes, thread, closing, listed, conn, req, todo, ops, missed>>

(* inotify_add_watch fails: no permission, or the directory has gone since.    *)
ManagerRefuses(c) ==
    LET i == req[c].id IN
    /\ Goto(c, "watch", "idle")
    /\ Unlocked
    /\ ~req[c].rec
    /\ Unwatched(i)
    /\ Forgive(i) /\ cover' = [cover EXCEPT ![i] = {}]
    /\ req' = [req EXCEPT ![c] = NoReq]
    /\ users' = [users EXCEPT ![i] = @ \cup {c}]
    /\ shared' = SharedBy(c, i, {})
    /\ UNCHANGED <<exists, changes, thread, closing, listed, conn, todo, ops, missed>>

(* The connection is listed and "watching" is sent.                            *)
Register(c) ==
    /\ Goto(c, "register", "idle")
    /\ listed' = [listed EXCEPT ![req[c].id] = @ \cup {c}]
    /\ req' = [req EXCEPT ![c] = NoReq]
    /\ UNCHANGED <<disk, manager, thread, closing, conn, todo, ops, history>>

UnwatchRequest(c, i) ==
    /\ Ready(c) /\ ops < MaxOps
    /\ Goto(c, "idle", "unwatch")
    /\ req' = [req EXCEPT ![c] = [NoReq EXCEPT !.id = i]]
    /\ ops' = ops + 1
    /\ UNCHANGED <<disk, manager, thread, closing, listed, conn, todo, history>>

(* An id the manager does not know: an error, and the channel's list stays.    *)
ManagerUnwatches(c) ==
    LET i == req[c].id IN
    /\ hpc[c] = "unwatch"
    /\ Unlocked
    /\ hpc' = [hpc EXCEPT ![c] = IF i \in watches THEN "unlist" ELSE "idle"]
    /\ req' = [req EXCEPT ![c] = IF i \in watches THEN @ ELSE NoReq]
    /\ users' = [users EXCEPT ![i] = @ \cup {c}]
    /\ shared' = SharedBy(c, i, {})
    /\ Unwatched(i)
    /\ Forgive(i) /\ cover' = [cover EXCEPT ![i] = {}]
    /\ UNCHANGED <<exists, changes, thread, closing, listed, conn, todo, ops, missed>>

(* The whole list of the id goes, whoever is on it.                            *)
Unlist(c) ==
    /\ Goto(c, "unlist", "idle")
    /\ listed' = [listed EXCEPT ![req[c].id] = {}]
    /\ req' = [req EXCEPT ![c] = NoReq]
    /\ UNCHANGED <<disk, manager, thread, closing, conn, todo, ops, history>>

(* The ids to clean up: those whose last connection this is.                   *)
WithoutOthers(c) == {i \in Id : listed[i] \subseteq {c}}
OnlyOn(c) == {i \in Id : listed[i] = {c}}

(* handle_disconnect: first the lists, then, best effort, the manager.         *)
Disconnect(c) ==
    /\ Ready(c)
    /\ Goto(c, "idle", "cleanup")
    /\ conn' = [conn EXCEPT ![c] = "closing"]
    /\ listed' = [i \in Id |-> listed[i] \ {c}]
    /\ todo' = [todo EXCEPT ![c] = OnlyOn(c)]
    /\ UNCHANGED <<disk, manager, thread, closing, req, ops, history>>

CleanUp(c, i) ==
    /\ hpc[c] = "cleanup" /\ i \in todo[c]
    /\ Unlocked
    /\ todo' = [todo EXCEPT ![c] = @ \ {i}]
    /\ Unwatched(i)
    /\ UNCHANGED <<exists, queue, changes, thread, closing, listed, conn, hpc, req,
                   ops, cover, shared, users, missed>>

Cleaned(c) == todo[c] = {}

Leave(c) ==
    /\ Goto(c, "cleanup", "idle")
    /\ Cleaned(c)
    /\ conn' = [conn EXCEPT ![c] = "gone"]
    /\ todo' = [todo EXCEPT ![c] = {}]
    /\ UNCHANGED <<disk, manager, thread, closing, listed, req, ops, history>>

Handler(c) ==
    \/ ManagerWatches(c) \/ ManagerRefuses(c) \/ Register(c)
    \/ ManagerUnwatches(c) \/ Unlist(c)
    \/ (\E i \in Id : CleanUp(c, i)) \/ Leave(c)

-----------------------------------------------------------------------------
(* event_thread_linux.                                                         *)

(* The map leads from the descriptor to one watch.  A new directory below a    *)
(* recursive watch is added to it - it alone, not what it contains by now.     *)
Adds(i, d) == d # NoDir /\ d \in exists /\ i \in recursive

(* History: who is still connected of those to whom an event is due.           *)
Waiting(due) == {p \in due : conn[p[1]] = "open"}

ThreadLooksUp ==
    /\ tpc = "wait" /\ queue # <<>>
    /\ LET e == Head(queue)
           i == wdMap[e.wd]
       IN  /\ queue' = Tail(queue)
           /\ missed' = missed \cup ({p[2] : p \in Waiting(e.due)} \ {i})
           /\ tpc' = IF i = NoId THEN "wait" ELSE "notify"
           /\ note' = IF i = NoId THEN note
                      ELSE [id |-> i, to |-> {}, due |-> {p \in e.due : p[2] = i}]
           /\ IF i # NoId /\ Adds(i, e.sub)
              THEN /\ inotify' = inotify \cup {e.sub}
                   /\ wds' = [wds EXCEPT ![i] = @ \cup {WdOf(e.sub, gen)}]
                   /\ wdMap' = [wdMap EXCEPT ![WdOf(e.sub, gen)] = i]
                   /\ cover' = [cover EXCEPT ![i] = @ \cup {e.sub}]
              ELSE UNCHANGED <<inotify, wds, wdMap, cover>>
    /\ UNCHANGED <<exists, gen, changes, watches, recursive, closing, channel,
                   shared, users, scope>>

(* on_file_changed copies the list of the id under the channel's mutex and     *)
(* sends outside it, still under watches_mutex_.                               *)
ThreadNotifies ==
    /\ tpc = "notify"
    /\ tpc' = "send"
    /\ note' = [note EXCEPT !.to = listed[note.id]]
    /\ missed' = missed \cup {p[2] : p \in {q \in Waiting(note.due) :
                                              q[1] \notin listed[q[2]]}}
    /\ UNCHANGED <<disk, manager, closing, channel, cover, shared, users, scope>>

Gone(C) == {c \in C : conn[c] = "gone"}

ThreadSends ==
    /\ tpc = "send" /\ Gone(note.to) = {}
    /\ tpc' = "wait"
    /\ note' = NoNote
    /\ UNCHANGED <<disk, manager, closing, channel, history>>

(* Undefined behaviour: send_text on a connection that has been destroyed.     *)
SendDangles ==
    /\ tpc = "send" /\ Gone(note.to) # {}
    /\ tpc' = "crashed"
    /\ UNCHANGED <<disk, manager, note, closing, channel, history>>

(* Between two batches of events the loop looks at running_ and the pipe.      *)
ThreadEnds ==
    /\ tpc = "wait" /\ ~running
    /\ tpc' = "done"
    /\ UNCHANGED <<disk, manager, note, closing, channel, history>>

Thread ==
    ThreadLooksUp \/ ThreadNotifies \/ ThreadSends \/ SendDangles \/ ThreadEnds

-----------------------------------------------------------------------------
(* shutdown, once the server has no handlers any more.                         *)

ShutdownBegins ==
    /\ spc = "idle"
    /\ \A c \in Conn : hpc[c] = "idle"
    /\ running' = FALSE
    /\ spc' = "join"
    /\ UNCHANGED <<disk, manager, thread, channel, history>>

ShutdownClears ==
    /\ spc = "join"
    /\ tpc = "done"
    /\ spc' = "done"
    /\ watches' = {} /\ recursive' = {}
    /\ wds' = [i \in Id |-> {}] /\ wdMap' = [w \in Wd |-> NoId]
    /\ inotify' = {} /\ queue' = <<>>
    /\ cover' = [i \in Id |-> {}] /\ scope' = [i \in Id |-> {}]
    /\ UNCHANGED <<exists, gen, changes, thread, running, channel,
                   shared, users, missed>>

-----------------------------------------------------------------------------
(* The file system and the events the kernel makes of it.                      *)

(* History: who is entitled to hear of a change in d.                          *)
Due(d) == {p \in Conn \X Id : p[1] \in listed[p[2]] /\ d \in cover[p[2]]}

Changed(d, sub, watching) ==
    /\ changes < MaxChanges /\ spc = "idle"
    /\ changes' = changes + 1
    /\ queue' = IF d \in watching
                THEN Append(queue, [wd |-> WdOf(d, gen), sub |-> sub, due |-> Due(d)])
                ELSE queue
    /\ missed' = IF d \in watching THEN missed ELSE missed \cup {p[2] : p \in Due(d)}

(* A file of d is written, created, deleted or moved.                          *)
Touch(d) ==
    /\ d \in exists
    /\ Changed(d, NoDir, inotify)
    /\ UNCHANGED <<exists, gen, inotify, manager, thread, closing, channel,
                   cover, shared, users, scope>>

MakeDir(p, d) ==
    /\ p \in exists /\ d \notin exists /\ IsParent(p, d)
    /\ Changed(p, d, inotify)
    /\ exists' = exists \cup {d}
    /\ UNCHANGED <<gen, inotify, manager, thread, closing, channel,
                   cover, shared, users, scope>>

(* The kernel drops the watch of a directory that is removed; the IN_IGNORED   *)
(* it reports has no name and is skipped, so wd_map_ keeps the descriptor.     *)
RemoveDir(p, d) ==
    /\ d \in exists /\ IsParent(p, d) /\ Inside[d] \cap exists = {}
    /\ Changed(p, NoDir, inotify)
    /\ exists' = exists \ {d}
    /\ inotify' = inotify \ {d}
    /\ gen' = GenAfter(inotify \cap {d})
    /\ cover' = [i \in Id |-> cover[i] \ {d}]
    /\ UNCHANGED <<manager, thread, closing, channel, shared, users, scope>>

FileSystem ==
    \/ \E d \in Dir : Touch(d)
    \/ \E p, d \in Dir : MakeDir(p, d) \/ RemoveDir(p, d)

Next ==
    \/ \E c \in Conn :
          \/ \E i \in Id, d \in Dir, rec \in BOOLEAN : WatchRequest(c, i, d, rec)
          \/ \E i \in Id : UnwatchRequest(c, i)
          \/ Disconnect(c) \/ Handler(c)
    \/ Thread
    \/ FileSystem
    \/ ShutdownBegins \/ ShutdownClears

Spec == Init /\ [][Next]_vars

(* Threads that can run do; no client and no file has to do anything.          *)
Fairness ==
    /\ \A c \in Conn : WF_vars(Handler(c))
    /\ WF_vars(Thread) /\ WF_vars(ShutdownClears)

FairSpec == Spec /\ Fairness

-----------------------------------------------------------------------------
(* Every variable has its type.                                                *)
TypeOK ==
    /\ exists \subseteq Dir /\ inotify \subseteq exists
    /\ gen \in [Dir -> 0..(MaxOps + MaxChanges)]
    /\ \A k \in DOMAIN queue : /\ queue[k].wd \in Wd
                               /\ queue[k].sub \in Dir \cup {NoDir}
                               /\ queue[k].due \subseteq Conn \X Id
    /\ watches \subseteq Id /\ recursive \subseteq watches
    /\ wds \in [Id -> SUBSET Wd] /\ wdMap \in [Wd -> Id \cup {NoId}]
    /\ tpc \in {"wait", "notify", "send", "crashed", "done"}
    /\ note.id \in Id \cup {NoId} /\ note.to \subseteq Conn
    /\ running \in BOOLEAN /\ spc \in {"idle", "join", "done"}
    /\ listed \in [Id -> SUBSET Conn]
    /\ conn \in [Conn -> {"open", "closing", "gone"}]
    /\ hpc \in [Conn -> HandlerPC] /\ todo \in [Conn -> SUBSET Id]
    /\ \A c \in Conn : req[c].id \in Id \cup {NoId}
    /\ ops \in 0..MaxOps /\ changes \in 0..MaxChanges
    /\ cover \in [Id -> SUBSET Dir] /\ users \in [Id -> SUBSET Conn]
    /\ shared \subseteq Id /\ missed \subseteq Id

(* Every directory the kernel watches belongs to exactly one watch, which will *)
(* remove it: no descriptor leaks, whatever is shared, removed or made anew.   *)
NoLeak ==
    \A d \in inotify :
        LET i == wdMap[WdOf(d, gen)]
        IN  i \in watches /\ WdOf(d, gen) \in wds[i]

(* A client that keeps its ids and directories to itself is told of every      *)
(* change in the directories it has been confirmed to watch; and its watches   *)
(* end with it: none is left when it has gone.                                 *)
AloneIsServed ==
    /\ missed \subseteq shared
    /\ \A i \in watches :
          (users[i] # {} /\ \A c \in users[i] : conn[c] = "gone") => i \in shared

-----------------------------------------------------------------------------
(* What docs/API_CONTRACT.md says and the code does not keep.                  *)

(* "Subscribe to file system events under a path": two watches of a directory  *)
(* have one descriptor, and only the later one is told.                        *)
NothingMissed == missed = {}
=============================================================================
