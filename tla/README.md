# ros-web-ide in TLA+

`ros-web-ide` is a C++ server (Crow, HTTP and WebSocket) that puts a ROS 2
workspace behind a browser: terminals, builds, launches, topic streams,
service and action calls, transforms, file watches and a file API.  Nearly all
of it is child processes and threads that read their pipes, shared by clients
that come and go, and torn down while they work.  These modules model that:
who may still touch what when something exits, is stopped, or is replaced.

Paths below are relative to the repository; code is under `src/`.

## Contents

| module | models | kind |
| --- | --- | --- |
| `PtyManager` | terminals: `terminal/local_pty_manager.cpp`, `ws/terminal_channel.cpp` | component |
| `PtyManagerProofs` | theorems about `PtyManager` | proofs |
| `SubprocessStream` | `start_streaming` / `stop_streaming` of `subprocess/subprocess_executor.cpp` | component |
| `BuildManager` | builds of `build/local_build_manager.cpp`, `api/build_controller.cpp` | component |
| `BuildManagerProofs` | theorems about `BuildManager`, its refinement of `BuildSlot` | proofs |
| `BuildSlot` | what clients may count on of builds | abstract specification |
| `LaunchManager` | launches of `build/local_build_manager.cpp` | component |
| `LaunchManagerProofs` | theorems about `LaunchManager` | proofs |
| `TfManager` | `tf/local_tf_manager.cpp`, `ws/tf_channel.cpp` | component |
| `TfManagerProofs` | theorems about `TfManager` | proofs |
| `RosTopics` | topic streams of `ros/local_ros_stream_manager.cpp`, `ws/ros_channel.cpp` | component |
| `RosTopicsProofs` | theorems about `RosTopics` | proofs |
| `RosCalls` | service and action calls and bags of the same manager and channel, `execute` | component |
| `RosCallsProofs` | theorems about `RosCalls` | proofs |
| `FileWatch` | `filewatch/local_filewatch_manager.cpp` (Linux), `ws/filewatch_channel.cpp` | component |
| `WatchedFiles` | its constants and what is assumed of them | component |
| `Server` | `server/server.cpp`, `system/local_system_info.cpp` (`set_domain_id`), `api/workspace_controller.cpp` | composition of the managers |
| `BuildChannel` | `ws/build_channel.cpp`, `ws/ws_router.cpp` | component |
| `FileStore` | `fs/local_filesystem.cpp`, `fs/path_validator.cpp`, `fs/file_search.cpp`, `workspace/package_discovery.cpp` | component |
| `ServerProofs` | theorems about `Server`, `BuildChannel` and `FileWatch` | proofs |
| `SystemProofs` | theorems about what rests on the operating system alone: `SubprocessStream` and `FileStore` | proofs |
| `MC*` | the same modules on small instances, one `.cfg` per question; `MCServer` joins `Server`, as `FS` of `MCFileStore` `FileStore` and, as `Chan` of `MCBuildChannel`, `BuildChannel`; `MCFileWatch` has `FileWatch` as `Watch` | for TLC |

`PROJECT.json` lists the components, runs, the source lines of every
definition, the hazards with the properties aimed at them, the mutants that
show each property can fail, and the findings.

## Inventory

**Terminals** (`LocalPtyManager`, `TerminalChannel`).  State: a map from
terminal id to `PtySession` (master fd, shutdown pipe, child pid, reader
thread, `running`).  Operations: create, write, resize, kill, `close_all` at
every disconnect, and the reader.  The map has a mutex; shutting a session down
runs outside it.  Hard: the reader reaps the child and reports to a raw
connection pointer while any client may close any terminal.  Correct when a
session is shut down once, its fds outlive its users, no shell is forgotten,
and an exit is reported after all output.

**Streaming subprocesses** (`SubprocessExecutor`).  A `StreamingHandle` with
two readers, a detached exit-waiter and whoever calls `stop_streaming`, without
a lock: only `cleaned.exchange(true)` separates the last two.  Correct when one
path cleans up, fds close after the readers, and the exit comes last.

**Builds** (`LocalBuildManager`, `BuildController`).  A map of `BuildProcess`
under `builds_mutex_`, a detached waiter and two readers per build, and a
`shutdown` in phases.  Correct when one build runs at a time, clients get its
output, then its true status, and a restart gets through.

**Launches** (same class).  A second map under a second mutex, any number at
once, with a `stop_launch` that erases and destroys the process its waiter uses.
Correct when every live launch can still be stopped, its true code is
reported, and a stop ends.

**Build channel and router** (`BuildChannel`, `WsRouter`).  Sets of raw
connection pointers per subscription; a broadcast copies them under a mutex and
sends without it.  Correct when an event reaches who is subscribed, once, and
no set keeps a connection that is destroyed.

**ROS topic streams** (`LocalRosStreamManager`, `RosChannel`).  Subscriptions
by id, one `ros2 topic echo` per topic shared by them, torn down with the last.
Correct when every running echo is in somebody's hands and a message consists
of lines of one echo.

**ROS calls, actions, bags, node monitor** (same classes).  A call runs in a
thread or a process of its own and is answered by id: the manager has the calls
under one mutex, the channel the connections to answer under another.  Correct
when each call is answered once, to who made it, and no process is forgotten.

**Transforms** (`LocalTfManager`, `TfChannel`).  Subscriptions, one shared
stream, and one mutex that readers, exits, stops and subscribers all need.

**File watches** (`LocalFileWatchManager`, `FileWatchChannel`).  Watches by id,
the descriptors of each, a map from descriptor to watch, an event thread; the
channel keeps connections per id under another mutex.

**Server and ROS restart** (`Server`, `SystemController`, `LocalSystemInfo`).
A change of `ROS_DOMAIN_ID` rewrites `~/.zshrc`, shuts the build, ROS and TF
managers down and replaces them wherever they are used, under requests in
flight and without a lock.  Correct when everybody uses the new managers, which
report to the channels once, and shells agree with the server on the domain.

**Workspace switch** (`WorkspaceController`).  Gives the new root to one
component after the other.  Correct when all have the same.

**File system, path validation, search, package discovery** (`LocalFileSystem`,
`PathValidator`, `FileSearch`, `PackageDiscovery`).  Requests without state of
their own, each a sequence of system calls on a tree that others change.
Correct when readers see whole files, nothing is overwritten unasked, and walks
find what is there.

**ROS introspection, system information, binary detection, JSON models.**  Runs
of a command, reads of `/proc`, conversions.

Interaction: `WsRouter` calls one channel per message, in the thread of the
connection; the channels call their manager, and managers call channels back
from their reader and waiter threads.  The managers of builds, topics and
transforms build on subprocesses in the same way; a ROS restart calls
`shutdown` of each and replaces it in its channel and controller.

## Conventions

* One step per critical section, or per statement where another thread can
  look in between; a counter of a thread's place (`pc`, `rpc`, `wpc`, `spc`).
* Undefined behaviour (a destroyed object used, a thread joined twice) and
  `std::terminate` set `fault`; nothing happens afterwards.  Properties then say
  either that `fault` cannot occur, or what it needs.
* A pid that has been reaped and a descriptor that has been closed keep their
  numbers in the objects of the program, and the code goes on using them.  Such
  a call fails, and nothing comes of it, or the kernel has given the number to
  another process or file by then: fault `foreign` (`MayStray`).  Both are
  steps of the model, as nothing in the code excludes either.
* Ids are model values and unique objects are drawn from a finite set, each
  used once; a pool that is used up ends the creation of new ones.
* Output is counted in chunks, bounded by `MaxChunks` / `MaxLines`.
* A process that was sent SIGKILL runs no more code of its own.
* Requests that only read the state of a manager are operators.
* Variables marked *history* only record what happened, for the properties.

Mutants sit beside what they mutate (`NotKilled` beside `Killed`); no action
refers to them.

## Modules, runs and what they show

### PtyManager

State: `sessions` is `sessions_`; `pc`, `cur`, `todo` are the place, session and
`to_close` list of each connection's handler; `rpc`, `running`, `pipe`, `fds`,
`child` are a `PtySession`, its thread and its shell; `made` and `out` count
output.  `Create`, `Kill` and `Disconnect` are the critical sections;
`ShutdownFlag` to `ShutdownClose` the statements of `shutdown_session`; the
`Reader*` actions `reader_loop`.  The shell is external: it starts (that is,
reaches `setsid`), writes, lets go of its terminal, exits.

* `pty_safety`: two clients, ids and sessions, limit 2, one chunk: every pair
  of close, close, exit, read (2.2 million states).  No descriptor is used after
  its close, one owner shuts a session down, no shell is forgotten, an exit comes
  after all output, and only a foreign disconnect leaves a reader with a
  connection that is gone.
* `pty_liveness`: one client; every session that is taken out gets closed and
  every hang-up is reported, unless a shell was *spared*: closed so soon that
  its process group did not yet exist when SIGKILL was sent to it.
  `reader_loop` says that its wait for the shell is "fast after SIGKILL"; for a
  spared one it lasts until the shell exits by itself (`SparedOnlyIfClosed`,
  proved, says that no other terminal is so affected).

Two simplifications.  The terminal hangs up with its shell: background jobs
that keep the slave open, so that the end of file comes later
(`local_pty_manager.cpp:265`), are left out.  And `terminal_channel.cpp:55`
throws, in the reader's thread, for a chunk of output that is cut inside a
character or not UTF-8 at all, which ends the server; what is proved and checked
is about the order of steps up to there.

### SubprocessStream

The waiter, the stopper and the readers statement by statement.  `calm` records
that `stop_streaming` was called after the exit had been reported.  The child
makes its process group some time after the fork (`ChildStarts`); a SIGKILL
that comes before has no group to go to, and the child is *missed*.

* `subprocess`: two readers, two chunks each.  An exit nobody interferes with
  comes last; a stop after it finds everything cleaned and the process reaped,
  and joins, closes, signals and reaps nothing.  It still writes a byte to
  `shutdown_pipe[1]` (`subprocess_executor.cpp:270`), which the waiter has
  closed and not reset: if the number has been given to another file, it goes
  there.  Any other undefined behaviour needs a stop that overlaps the waiter.
  Exits are reported whoever wins the exchange; a stop returns, unless its
  SIGKILL came half a second after the fork and still missed the child.  That
  one path cleans up, after both readers, is proved.
* Finding `subprocess_lines`: the last lines of a command can be dropped, which
  `tests/test_subprocess.cpp` takes to be delivered when `on_exit` runs.  The
  waiter clears `running` before it writes to the shutdown pipe, so a reader
  leaves by either test (`:340`, `:356`).

`TfManager` and `RosTopics` have no missed child: their stops wait half a second
before SIGKILL, and what they say does not rest on whom it reaches.

### BuildManager and BuildSlot

`builds` is `builds_`; one reader stands for the two of a build, which run the
same code and are joined together.  `late` and `calm` record builds started
after, and all reported before, the shutdown of a restart.

* `build`: two builds, their threads and a restart.  Until a shutdown clears
  `running` one build runs at a time; a status that is reported is true until the
  second loop of a shutdown, which may reap the process first.  Use of a freed
  `BuildProcess` and a second join need a build that a shutdown meets unreported
  or that is started during it; a joinable thread destroyed, and a shutdown that
  does not end, need the latter (`OverlapIsNeeded`, `ShutdownEnds`).  What no
  quiet moment excludes is that the shutdown signals, writes to and closes again
  what a reported build had: it is in `builds_` with the pid that
  `wait_for_build` reaped and the descriptors it closed
  (`local_build_manager.cpp:302-307`, `:332-335`, `:576-579`), none of them
  reset.
  `ImplementsSlot`: without a restart `BuildManager` implements `BuildSlot`,
  liveness included.  Builds with output are followed as long as no restart
  comes (`Bounded` in `MCBuildManager`): none of what a restart does depends on
  output, and neither of the two steps the bound restrains is fair.
* "Only one build at a time" (a comment of `start_build`) does not hold during
  a restart, which is why `OneBuildUntilShutdown` says "until shutdown":
  `shutdown` clears `running` half a second before it kills anything.

### LaunchManager

`launches` is `launches_`; `child`, `code`, `running`, `pipe`, `fds` are a
`LaunchProcess` and its process, `joined` and `freed` what has become of its
threads and of the object; `wpc`, `stop` and `spc` are the places of
`wait_for_launch`, of a `stop_launch` and of the launch half of `shutdown`.
The steps that all three have in common (join the readers, reap the process)
are operators they share, as the code repeats them.  Output is not counted.
`rushed` (history) has the launches a stop or a restart met before they were
reported.

* `launch`: two launches, a stop of each, one restart (850 thousand states).
  A memory error or an abort needs a rushed launch.  A signal, a write or a
  close that may hit another's process or file needs one that was stopped or met
  by a restart, reported or not: a reported launch stays in `launches_` with
  the descriptors `wait_for_launch` closed (`:604-607`), and `stop_launch`
  (`:180-192`) and `shutdown` (`:293-297`, `:344-347`) write to them and close
  them again.  One that was left alone is reported with the code it ended with,
  after the end of its readers.  A stop that comes after the report tells
  "stopped" once more, with code 0, as its waitpid fails (`:195-199`): of waiter
  and stop, the one that reaped has the code.  No live launch is out of
  everybody's reach; and a stop that waits for its process has sent it SIGKILL,
  unless a restart is under way.  The exception is real: a restart clears
  `running` half a second before it kills, and a `stop_launch` in between takes
  the launch out of the map and, finding `running` clear, kills nothing.

That a stop rushes its launch is the normal case: a client stops a launch
because it runs.  `RushIsNeeded` says how far the trouble reaches, not that
there is none: in `launch` waiter and stopper join one thread, and the waiter
uses the object the stop has destroyed.  That is why the property names each
kind of fault with what it needs.

### TfManager

`subs`, `handle` and `mutex` are `subscriptions_`, `tf_stream_handle_` and
`subscriptions_mutex_`; of the subprocess only what meets the mutex is kept
(`SubprocessStream` has the rest).  `phase` follows a ROS restart.  A line
notifies any subset of the subscriptions: frame filter and throttle decide.
No message and no disconnect calls `unsubscribe_tf` today; it is part of the
manager's interface and an action all the same.

* `tf`: one client, two ids, two streams, one line each: subscribing twice,
  a stream that ends and is started anew, a restart at any point.  One stream
  runs at a time, nothing of the old manager is left behind, and a stop ends
  unless it joins a reader that waits for the stopper's mutex (`Stuck`).

`Stuck` is real: `unsubscribe_tf` and `shutdown` hold `subscriptions_mutex_`
(`tf/local_tf_manager.cpp:72`, `:303`) while `stop_tf_stream` joins a reader
whose next line needs it (`:178`).  So "Stop the stream if no more
subscriptions" (`:70`) may never end, and with it a ROS restart.

What a line contains is left out, so that one thing is only told here:
`yaml_block_to_json` never makes an array of what `ros2` prints, and an array
is what its callers look for (`:192`, `:102`); so no update and no tree ever has a frame in it.

### RosTopics

`topicOf` is `subscriptions_`; `ids`, `stream`, `buffer` are the
`TopicStream` of each topic; `listed` is the channel's `topic_subscribers_`.
A critical section of `topics_mutex_` is one step; `pc`, `target`, `todo` are
the place of each handler, and of the restart, in a `stop_streaming`.  A handler
enters with the manager its channel had, which may be gone when it gets there
(`ManagerDangles`).  The buffer of a topic is the set of streams whose lines
are in it, as the question about a message is whose lines it is made of.  A
reader may handle lines as long as it has not ended: what it has read it
delivers, stopped or not, into the stream its *topic* has by then.  `stopped`
and `garbled` (history) record the streams a stop has taken over and the topics
with a mixed message.

The delivery of a message to a subscriber's connection happens under
`topics_mutex_` and is part of the reader's step; the throttle is a choice.
That `RosChannel` copies the connections under its own mutex and sends after it
(`ros_channel.cpp:270-285`) is left out here: it is what `RosCalls` has for
results and `BuildChannel` for builds, and meets nothing that is particular to topics.
Ids and topics are checked after the handler has entered, so a request is
made without them (`want` is set where they begin to matter).

* `topics`: two clients, two ids, one topic, two streams, one restart (1.9
  million states): the last unsubscribe against a new subscriber, an exit
  against a stop, a stop against the restart.  Each running echo is in the map
  or being stopped, and as long as nothing is stopped no handle is used after
  its end and no message mixes the lines of two streams.  With a stop both
  happen: `on_exit` erases whatever stream its topic has by then, and destroys
  its handle with the reader running.  That the maps agree and a topic has one
  echo that nobody stops is proved.

A subscription outlives its connection: `on_disconnect` cleans the channel's
table only.  So a client that comes back and subscribes under its id again is
refused, which `docs/API_CONTRACT.md:81` does not lead it to expect.

One topic is enough: a step touches the entries of one topic, except the
restart, which touches all alike, and the proofs below are for any number.
That a stop ends is not checked here: `stop_streaming` is called outside the
mutex, and `subprocess` shows that it returns.

### RosCalls

A `Call` is one use of an id; `kind`, `id`, `by` say what, under which id, whose.
`active`, `threads` and `held` are `active_service_calls_`, `service_threads_`
and the maps of actions and bags; `listed` has the three tables of `RosChannel`;
`phase` is where `shutdown` stands.  `pc`, `want` are the place and the call of
each handler and of the restart; `child`, `thread`, `reader`, `handle` the
process of a call, its service thread or exit-waiter, and its
`StreamingHandle`.  What the channel tells it tells in two steps: it copies the
pointers to the connections listed (`Copies`) and sends after it has released
its mutex (`Sends`); a connection may be destroyed in between.  `execute` is part of the service thread: the end of the
output or the timeout, then a wait without limit.  A handler and the manager
both keep what they know of an *id*; the histories `outcome`, `strangers`,
`crossed`, `taken` tell the calls behind one id apart.

* `ros_calls`: two clients, one id, any two calls of the three kinds, with
  cancels, timeouts, exits, disconnects and a ROS restart (1.5 million states).
  No call has two results.  A result goes astray in two ways only
  (`AstrayOnlyByRace`): it came before the channel had registered who asked
  (`call_service` returns, and only then does `ros_channel.cpp:167` register
  the caller), or the end of an earlier cancel unregistered the caller of a
  later call.  What one process says is taken for another's only after a stop of
  an earlier call with the id.  No handle, thread or manager is used after its
  end without a stop or a restart; a connection is, if it disconnects between
  copy and send (`ros_channel.cpp:301-315`, `:327-340`, `:354-368`, `:408-421`),
  and whom the channel lists is always there (`OnlyStopBreaks`).  No process is
  left without a thread, a map or a stopper.

What a bag tells is not counted: "stopped" may be told of one bag twice, by
`stop_bag` (`local_ros_stream_manager.cpp:458`) and by its exit (`:418`), so
`AnsweredOnce` speaks of services and actions.

The answer to "start recording" has the same order: `start_bag` reports
"recording" before it returns, and only then is the client listed
(`ros_channel.cpp:233`), so the client does not hear
it unless an earlier recording with the id has left it listed.  A restart stops actions and
bags and tells nobody.

### FileWatch

`watches`, `recursive`, `wds`, `wdMap` are the entries and `wd_map_`; `listed`
is the channel's table; `inotify`, `gen`, `queue`, `exists` are the kernel:
one descriptor per directory, never reused, dropped when the directory goes.
`shared` records ids used by two clients or overlapping in their paths; what
holds for the others is what a client that keeps to itself may count on.
The walk of a directory tree is one step: a directory is watched before it is
listed, so what is made meanwhile is either listed or reported.  A directory
below that cannot be added is passed over by the code without a word
(`local_filewatch_manager.cpp:302`); here adding it succeeds or, if it has
gone, has nothing to watch.

* `watch`: two clients, two ids, two nested directories, three requests,
  two changes: enough for re-watching, sharing, removal and re-creation.  No
  descriptor is without a watch, and a client that shares neither its id nor its
  directories leaves nothing and hears of every change in the directories the
  code took charge of for it (`cover`).  That is less than all below its path: a
  directory made in one that is itself so new that the event thread has not
  added it (`:387`) is not among them, nor is what a second request with the
  same id asks for, as the entry keeps its first recursive flag (`:81`, `:384`).
* Finding `watch_missed`: two watches of one directory share its descriptor,
  and only the later one is told.

### Server

What surrounds the managers.  A manager is an *instance*, numbered in the order
of creation; `current`, `channel`, `controller`, `aware` are the four places
that point to one (`Server`, the channel, `BuildController`, the list of the
workspace), `life`, `rootOf`, `bornIn`, `listens` what an instance is, has, was
made in and whom it tells.  `stage` and `step` place a request in
`handle_set_domain_id` with `restart_ros_subsystems`, or in
`handle_open_workspace`.  A pointer read and used in two steps is `slot`: a
restart takes the server's pointer (`RestartTakes`) and gives what it took to
the controller, a channel, `add_listener` or the list of the workspace, with any
step of another restart in between.  `DataRace` is the unsynchronised
assignment of a `shared_ptr`.  `env` is the environment, `lines` are the lines
of `~/.zshrc` with the variable, by their kind (`Line`): a program that looks
for "export" in front of the name does not see `typeset`, and one that removes
lines by their beginning leaves indented or compound ones.  At the start file and
environment are any, and need not agree.  A write of the file ends whole, cut
short without notice, or with a file that could not be opened (`written`).
What a manager does in its shutdown is in its own module.

* `server`, parts "restarts" and "domains".  Two restarts or changes of the
  workspace, in any interleaving: when none is served, the managers the server
  has are up and the channels listen to them, even if two restarts overlapped.
  That the channels, the controller and the list have *these* managers, that
  channels listen once, and that none of the old ones is left needs more: no
  two restarts may overlap, as one that is preempted between taking a pointer
  and giving it brings back a manager another has replaced.  A change of the workspace
  reaches all components unless it overlaps another request.
* Two changes of the domain, one after the other, with every first state of
  file and environment.  Server and managers agree, unless the file could not be
  opened: the environment is changed before it, and stays changed.  New shells
  agree if the file was written to its end: with a value there is an export line
  of it, and lines of other kinds differ only if `typeset`; without one no
  line begins with the export, but indented, compound and bare ones may stay
  (`Told`).  HOME unset and a file that cannot be read are left out.

The parts "restarts" and "domains" are one specification, `Server`: in the
first the domain stays unset, in the second requests do not overlap, which only
bounds the run; the proofs are about all of it.

### FileStore

`disk` is the tree: directories, files with a content, links.  `arg`, `pc`,
`mem` are the operation, the next system call and the local variables of a
request; `steady` has what no one has changed since it began.  `Resolved` is
`validate_and_resolve`, `Move` is rename(2), a walk is a stack of listings as
`recursive_directory_iterator` keeps it.  The operations: read, write, delete,
rename, mkdir, tree, search by name and content, package discovery.

* `server`, part "store": two requests on six small trees, with names that
  walks skip, links to a file and to a directory, one that goes round, one that
  leads to it, and a content that is not UTF-8.  A reader gets a whole content,
  and its size too unless the path was changed between the two calls.  One
  failure nobody notices: `good()` is tested while the content is still
  buffered, and if the flush at the closing of the stream fails
  (`local_filesystem.cpp:149`), the rename puts an empty or partial file in
  place and the request answers ok.  So `ReadersSeeWhole` excepts the content of
  a writer whose flush failed (`Cut`), and nothing else.
* A write that lies about creating a file, a rename over an existing target, an
  internal error, a walk cut short and a temporary file that stays behind all
  need a race, each with one of the operations `OnlyRacesMislead` names, but for
  two causes of internal errors that need none: a link that goes round, where
  a call that is not given an `error_code` throws (`local_filesystem.cpp:122`,
  `:133`, `:178`, `file_search.cpp:71`, `path_validator.cpp:47`), and an answer that is
  not UTF-8, which `dump()` refuses (`rest_helpers.cpp:9`).  A
  temporary file needs a rename, or two others at once (`Relinked`): a write into
  a link to a directory that is just being made, while another write replaces
  the link by a file.  That takes three requests, more than the run has; the attempt to
  prove the shorter claim found it.  A walk finds every file that is there all
  the time.

By links and names some single requests surprise, and the model has it so:
delete and rename of a link act on what it points to, since the path has been
resolved; a rename onto a dangling link replaces it; the content search descends
into directories the name search skips (and so does read `build` and `.git`).
One link is followed: a link to a link is taken for one that goes round, so
that chains of links that end are left out.  The depth of a tree is bounded by
`MAX_TREE_DEPTH` in the code (`:11`), which two levels do not reach; names are
taken to be UTF-8, and a search of one kind is one of the two walks of
`search_all`.
The `total` of a search answer is the size of a list just moved from, 0
(`fs/local_filesystem.cpp:314`; `docs/API_CONTRACT.md:294` has 1 for one
result); answers are modelled without it.  A temporary file is named by the address
of a local variable; two requests at a time have different ones.

### BuildChannel

`subs` has the three tables of subscribers, `conn` the life of a connection
(open, `on_close` begun, removed here, destroyed).  An event is told by a thread
of the manager (`phase`), copied to `inbox` under the mutex and sent one by one
outside it.  `due` (history) is who has listened since the event was told.

* `server`, part "channel": one event, two connections, two builds or launches.  A
  client hears it at most once however it is subscribed, and does if it was all
  along.  A destroyed connection is touched only by a copy made before the
  channel forgot it: that much is possible, and no more.

An output that is not UTF-8 makes `dump()` throw before the first send
(`build_channel.cpp:143`), and with it the thread that tells; that is left out.

`Server`, `FileStore` and `BuildChannel` share no variable; `part` chooses what
a behaviour of `server` shows, so the run covers each part completely
(640 thousand states).

## Bounds

Two of everything that can interfere (clients, sessions, builds, streams, ids,
calls, requests) give every pairwise race; a third adds no new kind of step, as
each handler and thread meets one other at a time through one object.  One chunk
per reader gives "output before exit", "output during shutdown" and "none"; two
where a reader holds one back.  `RosCalls` has one id, as calls meet only under
a common one, and `MaxCalls` 2.  `Server` has two roots, and one domain besides
none: what matters is whether it was changed.  `FileStore` has paths of
`MaxDepth` 2 over two names, one of them left out by walks, of which a loop of
links made by a race would need more, and searches of at
most `MaxResults` 3 results, which two requests do reach.  `BuildChannel` has
one event: each has its own thread, copy and inbox, and events meet only in
the tables, which they do not change.  `MaxOps` 3 and `MaxChanges` 2 bound
`FileWatch`.  Symmetry is used for sets that no definition orders and only in
runs without liveness.

Every module has one type invariant; it was checked with the runs' instances
while the modules were written and is proved for every component.  It is not
part of a run: the invariants above fail as soon as a variable leaves its type.

## Fairness

Every thread that can run does, a free mutex is granted, and a process that was
sent SIGKILL dies: the kernel's doing, hence weak fairness on handlers, readers,
waiters, stoppers and such deaths.  No client need call, no process need exit or
write by itself, no restart need happen.

## Proofs

`PtyManagerProofs` proves, for any sets of clients, ids and sessions, any limit
and any output, that every safety invariant of `pty_safety` holds, and that
terminals are spared only if closed.  From `NoneAssumption` and
`LimitAssumption` only.  None of the properties is inductive: that fds are
closed after the reader is gone rests on who owns a session, and that on the
shape of each handler.  `IInv` adds: a session is allocated once
(`AllocatedOnce`), mapped once (`OneEntry`), open exactly while owned
(`OpenIffOwned`); what a handler has at each place (`HandlerShape`) and what
the reader's place says of the shell (`ReaderShape`); and for terminals in the
map, that the owner's connection is open and nothing but the end of file stops
the reader.  One lemma per action, then `Inductive`, then one theorem per
property.

`RosTopicsProofs` proves the invariants of `topics`, that the maps agree and
that a topic has one echo, for any sets of clients, ids, topics and streams,
from `NoneAssumption` and `RestarterAssumption`.  What a manager holds under a
topic says nothing yet of the process, so `IInv` follows each stream: not
started, it is nowhere (`FreshOrStarted`); in the map, it is under its own
topic and nobody stops it (`MappedByTopic`); running, it is in the map if it is
not stopped and in the hands of an agent if it is (`LiveIsOwned`), where a
joined reader and a live child leave only one place for its stopper
(`JoinShape`).  `CalmReaders`, `CalmBuffers` and `CalmWaiters` say what holds
where no stop has been: a reader, a buffer, a waiter belong to the stream the
topic has.  `QuietStep` and `FaultStep` carry the invariant over the steps that
touch nothing of this; the others have a lemma each.

`SystemProofs` has two parts.  For `SubprocessStream` it proves
`ExitReportedLast`, `StopAfterExitIsSafe`, `CleanedOnce` and the types, for any readers and any output, from
`MaxChunksAssumption`.  The argument is who has won `cleaned.exchange`:
`OneCleans` says that waiter and stopper are not both past it as winners,
`WaiterCleaned` and `CalmStop` what a place of either says of the readers, of
`running` and of the handle, `ReaderShape` what a reader that has ended has delivered.

`BuildManagerProofs` proves the three invariants of `build`, for any builds and
any output, from `NoBuildAssumption` and `BoundsAssumption`.  Before a restart
the flag `running` tells truly which build lives (`IdleShape`); a status is
true as the waiter alone has reaped (`ReapShape`), has got the code of the
process (`CodeShape`) and tells its verdict (`ToldShape`), all of it until the
second loop of a shutdown reaps as well.  For the restart, `CloserShape` says
that a shutdown has joined or will join every build it found, and without a
late one that is every build; `CalmShape`, that no waiter is left if all were
reported. `RefinesSlot` proves that `BuildManager` implements `Slot!Safety`:
under `IInv` each action before a restart is one action of `BuildSlot` or
leaves what it shows alone (`SlotStep`), and a restart is never taken back
(`GoneForGood`).

`LaunchManagerProofs` proves the invariants of `launch`, for any number of
launches, from `NoLaunchAssumption`.  A launch nobody rushed was reported
before anything stopped or destroyed it (`RushShape`), so that the waiter reaps
it and has its code (`CodeShape`); a stop that is done has ended its process,
and the second loop of a shutdown leaves out none of the map (`EndShape`),
which is what `NoLaunchForgotten` needs when the map is destroyed.  `KillShape`
is why a stop that waits has killed: before a restart a live launch has its
flag, or a stop on its way to the SIGKILL.

`TfManagerProofs` proves `OneStream` and `NothingLeftBehind`, for any clients,
subscriptions, streams and lines, from `NoneAssumption` and `LinesAssumption`.
Neither is about threads, yet both are decided by them: a live process is that
of the manager's handle or of the one being stopped (`HolderShape`), never
both, as whoever is past the wait for a process, the exchange or the join works
on one that has ended or is the stopper (`GoneShape`); after the shutdown only
a new subscription starts one (`LeftShape`).

`RosCallsProofs` proves the five invariants of `ros_calls`, for any clients and
ids and any number of calls, from `MaxCallsAssumption`, `RestarterAssumption`
and `ClientAssumption` (that there is a client and an id, as the initial state
names one), in two layers.  `Core` is about processes: a stream that is neither
in its map nor taken over is an action that has been answered, and its process
is gone (`LeaveShape`), so that one that lives is in somebody's hands
(`ProcessShape`); service calls never share an id (`OwnerShape`), and a result
comes exactly when a call gives up its id or leaves its map (`AnswerShape`),
hence once.  `Race`, on top of it, is about the channel: a registered client is
still listed unless a stop of another call with the id came in between
(`WaitShape`), who is listed waits for a call without a result or one that
nobody will answer (`ListShape`), and a result before the registration can
reach its client only by such a call (`EarlyShape`).  Together they are
inductive and give `AstrayOnlyByRace`.  What the operators do to the maps is
stated once (`TakenOutIs`, `EmptiedIs`, `PutInIs`, `MadeIs`, `ResultIs`), as is
what keeps the second layer (`RaceKeeps`), and cited by the lemmas about the
actions.

`ServerProofs` has three parts, one for each module the runs instantiate; they
share nothing but the file.

For `Server` it proves `RestartComplete`, `RootsAgree` and `DomainAgrees`, for
any number of requests, from `RequestAssumption` (finitely many: instances are
numbered by restarts), `RootAssumption` (there is a root) and `ZshrcAssumption`
(what the file has are lines).  All three speak of the
moment when no request is served, so `ServerInv` has to say what each lacks
meanwhile.  A number tells how far a restart is (`pos`), and every clause reads
"it is as it should be, or a request has still to pass the place where it is
put right": an instance is being replaced (`LiveShape`) or not heard yet
(`HeardShape`).  However restarts overlap, `FreshShape` bounds the instances by
the restarts that have created one.  As long as no two overlap, a restart has
saved what is used (`SoloShape`), the channels and the controller point to it
but for the ones still to be set (`LinkShape`), and the list of the workspace
and the count of listeners are exact (`ListShape`, `OnceShape`); as long as
nothing overlaps,
so are the roots (`RootShape`, `NewRootShape`, `GiveShape`).  `DomainShape` and
`BornShape` compare the environment with the file and with what each manager
was made in.  One lemma says what passing from one position to the next does
to all this (`Advances`), for every step.

For `BuildChannel` it proves `HeardOnce` and `NoStaleSubscriber` for any
connections, events and topics; only that there is a topic (`TopicAssumption`)
is assumed, for the types.  `ChannelInv` follows an event: who is due listens
until the copy (`DueListens`), the copy has each connection once
(`Deliveries`), and a connection removed from the tables never comes back
(`Forgotten`, `TouchedGone`), as only an open one subscribes.

For `FileWatch` it proves `NoLeak` and `AloneIsServed`, for any clients, ids and
tree of directories, any requests and any changes, from
`NoneAssumption`, `TreeAssumption` (what is below a directory that is below
another is below that too, and nothing below itself) and `BoundsAssumption`.
A descriptor outlives neither its directory nor its watch, but the map from
descriptors to watches is cleaned by neither at once, so `WatchInv` tells lost
descriptors from live ones by their numbers: a live one is of a directory its
watch lays claim to (`Handed`), the map leads to a watch that has it
(`Mapped`), and each directory the kernel watches to a watch that exists
(`Owned`), which is `NoLeak`.  `Counted` shows that the numbers never run out.
For those who share nothing the rest follows a change on its way to the client:
claims that meet are known to be shared (`Apart`), so that descriptors are not
(`Single`); what a watch has taken charge of is watched for it, and stays so
(`Closed`, `Covered`); a report that is due leads, from the queue and through
the thread, to an id where its client is listed (`Promised`), nothing is due any
longer where it is about to be unlisted (`Unlisting`), and a watch has a client
that is listed, about to be, or leaving with it on its list (`Attended`).  The
reason that no report is lost in between is that a request or an unwatch
changes map and descriptors under one mutex and only for its own id
(`Spares`, on which all lemmas about handlers rest).

For `FileStore`, `SystemProofs` proves `ReadersSeeWhole`, `OnlyRacesMislead`
and `UndisturbedFound`, for any number of requests, any names and any tree of
two levels with links into its first (`DisksAssumption`), from
`NamesAssumption` (a temporary file has no other file's name) and
`ResultsAssumption`.  That the disk stays a tree under all operations
(`Shaped`) comes first; what a step makes of an entry, and of what a path
leads to through links, is stated once per kind of change (`MakesIs`,
`OpensIs`, `FillsIs`, `DropsIs`, `ReplacesIs`, `RemovesIs`, `RenamesIs`) and
cited everywhere.  Each property is about the end of a request and decided by
what it has seen on its way, so each invariant follows the request: `Reads`
says what a read may rely on between its four calls (`ReadShape`) and that a
file in part has a temporary name and a writer that has not come to replace
(`PartialShape`).  `Walked` says that what a walk has not found yet, itself or
the directory it is in, lies ahead on the stack of listings (`WalkShape`), with
the kind it was listed with as long as it is steady (`FreshShape`).  `Misled`
adds for each kind of request what is still true of the disk it has checked "or
another races with it": the target of a rename is free (`RenameShape`), the
file a write found is there (`WriteShape`), its temporary file is where the
write will look for it (`TempShape`, `LinkShape`) in a directory that is there
(`HomeShape`), a listed entry is what it was (`StaleShape`), and a path that
was checked does not run into links that go round (`LoopShape`).  Races only grow, and who takes a step races with whoever
has not ended (`RaceIs`), so that only a request's own steps need a look.

Every invariant that a passing run checks is proved.  Only model-checked: all
liveness, which needs fairness and `ENABLED` and has no support in the prover,
and with it the fair half of `ImplementsSlot`.  The findings are
counterexamples and have nothing to prove.

## Not modelled

`PROJECT.json` has the list of components; the reasons:

* No state of their own, one comparison or conversion each: ROS introspection,
  the reading part of system information, binary detection, JSON models and
  errors, the parsing of `package.xml`, of `ros2` and `colcon` output and of
  messages; `find_executables`, `find_package_for_path`,
  `discover_launch_files`; the check that a path is inside the workspace.
* Never run: the node monitor, which nothing starts, and `map_fs_error`, which
  nothing calls.
* Of the operating system: short writes to a terminal, permissions, an
  overflowing inotify queue, renames of watched directories, descriptors and
  memory running out, except where a failed spawn matters.
* The FSEvents half of the file watches: the other platform's.

## Plan

The runs stay few, one per question: modules that share no state share a run
where that is cheaper, and a claim of a comment that fails gets a run of its own
only where no property of a passing run says already when it fails.
