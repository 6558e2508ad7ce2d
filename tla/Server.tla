-------------------------------- MODULE Server --------------------------------
(* The server around the managers: a change of the ROS domain, which replaces  *)
(* three managers under everyone who uses them, and a change of the workspace, *)
(* which tells every component its root.  Crow serves each request in a thread *)
(* of its own; only the listeners of a manager and the root within a component *)
(* have a mutex.                                                               *)
EXTENDS Integers, Sequences, FiniteSets

CONSTANTS
    Request,    \* the changes of domain and of workspace in a behaviour
    Root,       \* workspace roots, canonical and existing
    Domain,     \* values of ROS_DOMAIN_ID
    NoDomain,   \* it is unset, or empty: none of Domain
    Zshrc       \* what ~/.zshrc may say of it when the server starts

(* The lines of ~/.zshrc with "ROS_DOMAIN_ID=" in them: "export" and "bare"    *)
(* ones begin with it, with and without export; "nested" ones have an "export" *)
(* somewhere before it (indented, after another command, in a comment, or for  *)
(* a variable whose name ends alike); "typeset" ones have none.                *)
Line == [kind : {"export", "bare", "nested", "typeset"}, value : Domain \cup {NoDomain}]
Export(d) == [kind |-> "export", value |-> d]

ASSUME RequestAssumption == IsFiniteSet(Request)
ASSUME RootAssumption == Root # {}
ASSUME ZshrcAssumption == Zshrc \subseteq SUBSET Line

VARIABLES
    job,        \* what a request asks for
    stage, step,\* where it stands, and at which component
    domain,     \* the value a domain request sets
    old,        \* the managers a restart has saved
    slot, seen, \* the instance and the root a request has just read
    env,        \* ROS_DOMAIN_ID of the process
    lines,      \* the lines of ~/.zshrc with ROS_DOMAIN_ID=
    read,       \* request -> those it has read
    root,       \* PathValidator::workspace_root_
    current,    \* Server's shared_ptr to each manager
    channel,    \* the one of the channel
    controller, \* the one of BuildController
    aware,      \* the one in WorkspaceController::workspace_aware_
    life,       \* component -> instance -> none, up, shutting or shut
    rootOf,     \* component -> instance -> its workspace_root_
    bornIn,     \* component -> instance -> env at its construction
    listens,    \* component -> instance -> how often the channel is a listener
    overlap,    \* history: the kinds of requests that were served together
    written,    \* history: how the last write of ~/.zshrc has ended
    fault       \* the undefined behaviour reached, if any

locals == <<domain, old, slot, seen, read>>
place == <<job, stage, step>>
pointers == <<current, channel, controller, aware>>
instances == <<life, rootOf, bornIn, listens>>
vars == <<place, locals, env, lines, root, pointers, instances, overlap, written,
          fault>>

(* The components in the order of workspace_aware_, and those restarted.       *)
Components == <<"build", "pty", "ros", "stream", "tf">>
Managers == <<"build", "stream", "tf">>
Component == {Components[i] : i \in 1..Len(Components)}
Managed == {Managers[i] : i \in 1..Len(Managers)}
Instance == 0..Cardinality(Request)   \* a restart creates one of each
Stage == {"done", "answer", "zshrc", "write", "save", "shutdown", "shutting", "unlisten",
          "root", "create", "controller", "controls", "channel", "sets", "listen", "adds",
          "aware", "replaces", "assign", "pick", "give"}

Alive == fault = "none"
Under(r) == Managers[step[r]]
Fresh(m) == CHOOSE g \in Instance : life[m][g] = "none" /\ \A h \in 0..(g - 1) : life[m][h] # "none"

(* A manager lives as long as somebody has a shared_ptr to it.                 *)
Referenced(m, g) ==
    m \in Managed =>
        \/ g \in {current[m], channel[m], aware[m]}
        \/ m = "build" /\ g = controller
        \/ \E r \in Request :
              \/ old[r][m] = g
              \/ stage[r] \in {"controls", "sets", "replaces"} /\ Under(r) = m /\ slot[r] = g

Init ==
    /\ job = [r \in Request |-> "none"] /\ stage = [r \in Request |-> "done"]
    /\ step = [r \in Request |-> 1] /\ domain = [r \in Request |-> NoDomain]
    /\ old = [r \in Request |-> [m \in Managed |-> -1]]
    /\ slot = [r \in Request |-> 0] /\ seen = [r \in Request |-> CHOOSE w \in Root : TRUE]
    /\ env \in Domain \cup {NoDomain} /\ lines \in Zshrc
    /\ read = [r \in Request |-> {}]
    /\ root = CHOOSE w \in Root : TRUE
    /\ current = [m \in Managed |-> 0] /\ channel = current /\ controller = 0
    /\ aware = [m \in Component |-> 0]
    /\ life = [m \in Component |-> [g \in Instance |-> IF g = 0 THEN "up" ELSE "none"]]
    /\ rootOf = [m \in Component |-> [g \in Instance |-> root]]
    /\ bornIn = [m \in Component |-> [g \in Instance |-> env]]
    /\ listens = [m \in Component |-> [g \in Instance |->
                      IF g = 0 /\ m \in Managed THEN 1 ELSE 0]]
    /\ overlap = {} /\ written = "never" /\ fault = "none"

-----------------------------------------------------------------------------
Served(r) == job[r] # "none" /\ stage[r] # "done"

Begins(r, j, first) ==
    /\ Alive /\ job[r] = "none"
    /\ job' = [job EXCEPT ![r] = j]
    /\ stage' = [stage EXCEPT ![r] = first]
    /\ overlap' = overlap \cup {{j, job[q]} : q \in {q \in Request : Served(q)}}
    /\ UNCHANGED step

At(r, s) == Alive /\ job[r] # "none" /\ stage[r] = s

Goes(r, next) ==
    /\ stage' = [stage EXCEPT ![r] = next]
    /\ step' = [step EXCEPT ![r] = 1]
    /\ UNCHANGED <<job, overlap>>

(* The next of the components, or the next stage after the last of them.       *)
Loops(r, over, again, next) ==
    IF step[r] = Len(over) THEN Goes(r, next)
    ELSE /\ stage' = [stage EXCEPT ![r] = again]
         /\ step' = [step EXCEPT ![r] = @ + 1]
         /\ UNCHANGED <<job, overlap>>

Turns(r, next) ==
    /\ stage' = [stage EXCEPT ![r] = next]
    /\ UNCHANGED <<job, step, overlap>>

-----------------------------------------------------------------------------
(* handle_set_domain_id: LocalSystemInfo::set_domain_id reads ~/.zshrc, sets   *)
(* the environment and writes the file back, then the restart follows.         *)
RestKeeps == UNCHANGED <<written, fault>>

SetDomain(r, d) ==
    /\ Begins(r, "domain", "zshrc")
    /\ domain' = [domain EXCEPT ![r] = d]
    /\ UNCHANGED <<old, slot, seen, read, env, lines, root, pointers, instances>> /\ RestKeeps

SetDomainReads(r) ==
    /\ At(r, "zshrc")
    /\ read' = [read EXCEPT ![r] = lines]
    /\ env' = domain[r]
    /\ Goes(r, "write")
    /\ UNCHANGED <<domain, old, slot, seen, lines, root, pointers, instances>> /\ RestKeeps

(* With a value, the lines it is looked for in become the export line, or that *)
(* is added; without one, only lines that begin with the export go.            *)
LeftAlone(l, d) == IF d = NoDomain THEN l.kind # "export" ELSE l.kind = "typeset"
Added(d) == IF d = NoDomain THEN {} ELSE {Export(d)}
NotRemoved(r) ==
    IF domain[r] = NoDomain THEN read[r]
    ELSE {l \in read[r] : LeftAlone(l, domain[r])} \cup Added(domain[r])
Rewritten(r) == {l \in read[r] : LeftAlone(l, domain[r])} \cup Added(domain[r])

SetDomainWrites(r) ==
    /\ At(r, "write")
    /\ lines' = Rewritten(r) /\ written' = "whole"
    /\ Goes(r, "save")
    /\ UNCHANGED <<locals, env, root, pointers, instances, fault>>

(* The file cannot be opened: the request fails, with the environment set.     *)
SetDomainFails(r) ==
    /\ At(r, "write")
    /\ written' = "failed"
    /\ Goes(r, "answer")
    /\ UNCHANGED <<locals, env, lines, root, pointers, instances, fault>>

(* Once it is open, nothing tells that a write of it has failed: a part of the *)
(* lines is left, the last of them perhaps cut within its value.               *)
Cuts(some) == {some} \cup {(some \ {l}) \cup {[l EXCEPT !.value = v]} :
                              l \in some, v \in Domain \cup {NoDomain}}

SetDomainCut(r) ==
    /\ At(r, "write")
    /\ \E some \in SUBSET Rewritten(r) : lines' \in Cuts(some)
    /\ written' = "cut"
    /\ Goes(r, "save")
    /\ UNCHANGED <<locals, env, root, pointers, instances, fault>>

-----------------------------------------------------------------------------
(* restart_ros_subsystems.                                                     *)
RestartKeeps == UNCHANGED <<domain, env, lines, read, root>> /\ RestKeeps

RestartSaves(r) ==
    /\ At(r, "save")
    /\ old' = [old EXCEPT ![r][Under(r)] = current[Under(r)]]
    /\ Loops(r, Managers, "save", "shutdown")
    /\ UNCHANGED <<slot, seen, pointers, instances>> /\ RestartKeeps

(* shutdown of a manager takes its time; a second shutdown does not wait for   *)
(* the first (that of the build manager may, and does what is left to do).     *)
RestartShuts(r) ==
    LET m == Under(r)  g == old[r][m]
    IN  /\ At(r, "shutdown")
        /\ IF life[m][g] = "up"
           THEN life' = [life EXCEPT ![m][g] = "shutting"] /\ Turns(r, "shutting")
           ELSE UNCHANGED life /\ Loops(r, Managers, "shutdown", "unlisten")
        /\ UNCHANGED <<old, slot, seen, pointers, rootOf, bornIn, listens>> /\ RestartKeeps

RestartHasShut(r) ==
    LET m == Under(r)
    IN  /\ At(r, "shutting")
        /\ life' = [life EXCEPT ![m][old[r][m]] = "shut"]
        /\ Loops(r, Managers, "shutdown", "unlisten")
        /\ UNCHANGED <<old, slot, seen, pointers, rootOf, bornIn, listens>> /\ RestartKeeps

(* remove_listener: of the build manager one registration, of the others all.  *)
Unlistened(m, n) == IF m = "build" /\ n > 0 THEN n - 1 ELSE 0

RestartUnlistens(r) ==
    /\ At(r, "unlisten")
    /\ listens' = [listens EXCEPT ![Under(r)][old[r][Under(r)]] = Unlistened(Under(r), @)]
    /\ Loops(r, Managers, "unlisten", "root")
    /\ UNCHANGED <<old, slot, seen, pointers, life, rootOf, bornIn>> /\ RestartKeeps

RootAtStart(r) == CHOOSE w \in Root : TRUE
RootNow(r) == root

RestartReadsRoot(r) ==
    /\ At(r, "root")
    /\ seen' = [seen EXCEPT ![r] = RootNow(r)]
    /\ Goes(r, "create")
    /\ UNCHANGED <<old, slot, pointers, instances>> /\ RestartKeeps

RestartCreates(r) ==
    LET m == Under(r)  g == Fresh(m)
    IN  /\ At(r, "create")
        /\ life' = [life EXCEPT ![m][g] = "up"]
        /\ rootOf' = [rootOf EXCEPT ![m][g] = seen[r]]
        /\ bornIn' = [bornIn EXCEPT ![m][g] = env]
        /\ current' = [current EXCEPT ![m] = g]
        /\ Loops(r, Managers, "create", "controller")
        /\ UNCHANGED <<old, slot, seen, channel, controller, aware, listens>> /\ RestartKeeps

(* Each of the places a manager is given to gets what current is when the call *)
(* is made: a copy, or for add_listener only the object it points to then.     *)
Taking(s) ==
    CASE s = "controller" -> "controls"
      [] s = "channel" -> "sets"
      [] s = "listen" -> "adds"
      [] s = "aware" -> "replaces"

RestartTakes(r) ==
    \E s \in {"controller", "channel", "listen", "aware"} :
        /\ At(r, s)
        /\ slot' = [slot EXCEPT ![r] = current[Under(r)]]
        /\ Turns(r, Taking(s))
        /\ UNCHANGED <<old, seen, pointers, instances>> /\ RestartKeeps

RestartController(r) ==
    /\ At(r, "controls")
    /\ controller' = slot[r]
    /\ Goes(r, "channel")
    /\ UNCHANGED <<old, slot, seen, current, channel, aware, instances>> /\ RestartKeeps

(* set_manager of the channel, then add_listener.                              *)
RestartChannel(r) ==
    /\ At(r, "sets")
    /\ channel' = [channel EXCEPT ![Under(r)] = slot[r]]
    /\ Turns(r, "listen")
    /\ UNCHANGED <<old, slot, seen, current, controller, aware, instances>> /\ RestartKeeps

RestartListens(r) ==
    /\ At(r, "adds") /\ Referenced(Under(r), slot[r])
    /\ listens' = [listens EXCEPT ![Under(r)][slot[r]] = @ + 1]
    /\ Loops(r, Managers, "channel", "aware")
    /\ UNCHANGED <<old, slot, seen, pointers, life, rootOf, bornIn>> /\ RestartKeeps

RestartDangles(r) ==
    /\ At(r, "adds") /\ ~Referenced(Under(r), slot[r])
    /\ fault' = "use_after_free"
    /\ UNCHANGED <<place, locals, env, lines, root, pointers, instances, overlap,
                   written>>

(* replace_workspace_aware, where the old manager still is in the list.        *)
NotReplaced(r) == aware
Replaced(r) ==
    IF aware[Under(r)] = old[r][Under(r)]
    THEN [aware EXCEPT ![Under(r)] = slot[r]] ELSE aware

RestartAware(r) ==
    /\ At(r, "replaces")
    /\ aware' = Replaced(r)
    /\ Loops(r, Managers, "aware", "answer")
    /\ UNCHANGED <<old, slot, seen, current, channel, controller, instances>> /\ RestartKeeps

DomainRequest(r) ==
    \/ SetDomainReads(r) \/ SetDomainWrites(r) \/ SetDomainFails(r) \/ SetDomainCut(r)
    \/ RestartSaves(r) \/ RestartShuts(r) \/ RestartHasShut(r) \/ RestartUnlistens(r)
    \/ RestartReadsRoot(r) \/ RestartCreates(r) \/ RestartTakes(r) \/ RestartController(r)
    \/ RestartChannel(r) \/ RestartListens(r) \/ RestartDangles(r) \/ RestartAware(r)

-----------------------------------------------------------------------------
(* handle_open_workspace: the validator first ...                              *)
OpenKeeps == UNCHANGED <<domain, old, read, env, lines, pointers>> /\ RestKeeps

OpenWorkspace(r) ==
    /\ Begins(r, "open", "assign")
    /\ OpenKeeps /\ UNCHANGED <<slot, seen, root, instances>>

OpenAssigns(r, w) ==
    /\ At(r, "assign")
    /\ root' = w
    /\ Goes(r, "pick")
    /\ OpenKeeps /\ UNCHANGED <<slot, seen, instances>>

(* ... then each component is given the root the validator has by then.        *)
OpenPicks(r) ==
    /\ At(r, "pick")
    /\ slot' = [slot EXCEPT ![r] = aware[Components[step[r]]]]
    /\ seen' = [seen EXCEPT ![r] = root]
    /\ Turns(r, "give")
    /\ OpenKeeps /\ UNCHANGED <<root, instances>>

OpenGives(r) ==
    LET m == Components[step[r]]
    IN  /\ At(r, "give") /\ Referenced(m, slot[r])
        /\ rootOf' = [rootOf EXCEPT ![m][slot[r]] = seen[r]]
        /\ Loops(r, Components, "pick", "answer")
        /\ OpenKeeps /\ UNCHANGED <<slot, seen, root, life, bornIn, listens>>

OpenDangles(r) ==
    /\ At(r, "give") /\ ~Referenced(Components[step[r]], slot[r])
    /\ fault' = "use_after_free"
    /\ UNCHANGED <<place, locals, env, lines, root, pointers, instances, overlap,
                   written>>

OpenRequest(r) == (\E w \in Root : OpenAssigns(r, w)) \/ OpenPicks(r) \/ OpenGives(r) \/ OpenDangles(r)

(* Either request ends, and its locals with it.                                *)
Answers(r) ==
    /\ At(r, "answer")
    /\ Goes(r, "done")
    /\ domain' = [domain EXCEPT ![r] = NoDomain]
    /\ old' = [old EXCEPT ![r] = [m \in Managed |-> -1]]
    /\ slot' = [slot EXCEPT ![r] = 0]
    /\ seen' = [seen EXCEPT ![r] = CHOOSE w \in Root : TRUE]
    /\ read' = [read EXCEPT ![r] = {}]
    /\ UNCHANGED <<env, lines, root, pointers, instances>> /\ RestKeeps

-----------------------------------------------------------------------------
(* Two requests that access one unguarded variable, one of them to assign it:  *)
(* a data race, which may do no harm or anything.                              *)
Writes(r) ==
    CASE stage[r] = "assign" -> {<<"root", "">>}
      [] stage[r] = "create" -> {<<"current", Under(r)>>}
      [] stage[r] = "controls" -> {<<"controller", "">>}
      [] stage[r] = "sets" -> {<<"channel", Under(r)>>}
      [] stage[r] = "replaces" -> {<<"aware", Under(r)>>}
      [] OTHER -> {}
Reads(r) ==
    CASE stage[r] = "pick" -> {<<"root", "">>, <<"aware", Components[step[r]]>>}
      [] stage[r] = "root" -> {<<"root", "">>}
      [] stage[r] \in {"save", "controller", "channel", "listen", "aware"} ->
             {<<"current", Under(r)>>}
      [] stage[r] = "replaces" -> {<<"aware", m>> : m \in Component}
      [] OTHER -> {}

DataRace(r, q) ==
    /\ Alive /\ r # q /\ Writes(r) \cap (Writes(q) \cup Reads(q)) # {}
    /\ fault' = "data_race"
    /\ UNCHANGED <<place, locals, env, lines, root, pointers, instances, overlap,
                   written>>

-----------------------------------------------------------------------------
Idle == (\A r \in Request : job[r] # "none" /\ stage[r] = "done")
Ended == (~Alive \/ Idle) /\ UNCHANGED vars

Next ==
    \/ \E r \in Request :
          \/ OpenWorkspace(r)
          \/ \E d \in Domain \cup {NoDomain} : SetDomain(r, d)
          \/ DomainRequest(r) \/ OpenRequest(r) \/ Answers(r)
          \/ \E q \in Request : DataRace(r, q)
    \/ Ended

Spec == Init /\ [][Next]_vars

-----------------------------------------------------------------------------
(* Every variable has its type.                                                *)
TypeOK ==
    /\ job \in [Request -> {"none", "domain", "open"}]
    /\ stage \in [Request -> Stage] /\ step \in [Request -> 1..Len(Components)]
    /\ domain \in [Request -> Domain \cup {NoDomain}]
    /\ old \in [Request -> [Managed -> Instance \cup {-1}]]
    /\ slot \in [Request -> Instance] /\ seen \in [Request -> Root]
    /\ env \in Domain \cup {NoDomain} /\ lines \subseteq Line
    /\ read \in [Request -> SUBSET Line]
    /\ root \in Root
    /\ current \in [Managed -> Instance] /\ channel \in [Managed -> Instance]
    /\ controller \in Instance /\ aware \in [Component -> Instance]
    /\ life \in [Component -> [Instance -> {"none", "up", "shutting", "shut"}]]
    /\ rootOf \in [Component -> [Instance -> Root]]
    /\ listens \in [Component -> [Instance -> Nat]]
    /\ written \in {"never", "whole", "cut", "failed"}
    /\ fault \in {"none", "use_after_free", "data_race"}

Quiet == Alive /\ \A r \in Request : ~Served(r)

(* However restarts overlap, when none runs the managers the server has are up *)
(* and have the channels as listeners.  If no two overlap, the channels, the   *)
(* build controller and the list of the workspace have these managers too, the *)
(* channels listen once, and no manager before them is left.                   *)
RestartComplete ==
    Quiet =>
        /\ \A m \in Managed : listens[m][current[m]] >= 1 /\ life[m][current[m]] = "up"
        /\ {"domain"} \notin overlap =>
              /\ channel = current /\ controller = current["build"]
              /\ \A m \in Managed :
                    /\ aware[m] = current[m] /\ listens[m][current[m]] = 1
                    /\ \A g \in Instance :
                          life[m][g] # "none" /\ Referenced(m, g) => g = current[m]

(* A change of the workspace that meets no other and no restart reaches every  *)
(* component; so does one made before a restart.                               *)
RootsAgree ==
    Quiet /\ overlap \cap {{"open"}, {"open", "domain"}, {"domain"}} = {} =>
        \A m \in Component : rootOf[m][aware[m]] = root

(* ~/.zshrc tells shells the domain of the server: by an export line, and by   *)
(* no line that differs but for typeset ones; or, if it is unset, by no line   *)
(* that begins with the export.                                                *)
Told ==
    /\ env # NoDomain => /\ Export(env) \in lines
                         /\ \A l \in lines : l.kind # "typeset" => l = Export(env)
    /\ env = NoDomain => \A l \in lines : l.kind # "export"

(* If no two changes of the domain overlap, the managers were made in the      *)
(* domain the server has, unless the last change could not open ~/.zshrc; and  *)
(* if that wrote all of it, shells started from now on are told this domain    *)
(* too, whatever the file and the server said before.                          *)
DomainAgrees ==
    Quiet /\ {"domain"} \notin overlap =>
        /\ written # "failed" => \A m \in Managed : bornIn[m][current[m]] = env
        /\ written = "whole" => Told
=============================================================================
