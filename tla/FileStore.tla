------------------------------ MODULE FileStore ------------------------------
(* LocalFileSystem, PathValidator, FileSearch and PackageDiscovery: requests   *)
(* that read, write, delete, rename, make and walk the files of a workspace,   *)
(* each in a thread of its own, with no lock.  One step is one call of the     *)
(* operating system; between two of them the other requests go on.             *)
EXTENDS Naturals, FiniteSets, SequencesExt

CONSTANTS
    Request,    \* requests, each of one operation
    Name,       \* names of files and directories
    Noise,      \* those of directories a walk leaves out
    Hit,        \* those that match the pattern of a search; "package.xml" is one
    Disks,      \* what the disk may be like at first: path -> entry
    Garbled,    \* contents that are not UTF-8, nor binary to the detector
    MaxResults  \* the maxResults of a search

VARIABLES
    disk,       \* path -> directory, link to a path, or file with a content
    arg,        \* request -> its operation and parameters
    pc,         \* request -> its next step
    mem,        \* request -> its local variables
    answer,     \* request -> the code it has answered, "ok", or "none" yet
    steady      \* history: request -> what has not changed since it began

vars == <<disk, arg, pc, mem, answer, steady>>

(* A path is a sequence of names; MaxDepth bounds it.  A request writes its    *)
(* temporary file under a name no other uses, here the request itself.         *)
MaxDepth == 2
Path == UNION {[1..n -> Name] : n \in 1..MaxDepth}
Top == <<>>

Dir == [kind |-> "dir", data |-> <<>>]
File(content) == [kind |-> "file", data |-> content]
Link(target) == [kind |-> "link", data |-> target]
Missing == [kind |-> "missing", data |-> <<>>]

(* What a file holds: at first a path, the one it is at then; later what a     *)
(* request writes, all of it or part.  A search looks for a text all the first *)
(* contents have.                                                              *)
Whole(r) == <<r>>
Partial(r) == <<r, r>>
Holds(content) == content \in Path

Walks == {"search", "tree", "packages"}
Arg ==
    [op : {"write", "delete", "mkdir"}, path : Path, to : {Top}, flag : BOOLEAN]
    \cup [op : {"read"}, path : Path, to : {Top}, flag : {FALSE}]
    \cup [op : {"rename"}, path : Path, to : Path, flag : {FALSE}]
    \cup [op : {"tree"}, path : {Top}, to : {Top}, flag : BOOLEAN]
    \cup [op : {"search", "packages"}, path : {Top}, to : {Top}, flag : {FALSE}]

NoArg == [op |-> "none", path |-> Top, to |-> Top, flag |-> FALSE]
NoMem == [at |-> Top, to |-> Top, fresh |-> FALSE, over |-> Missing, data |-> <<>>,
          size |-> <<>>, todo |-> <<>>, found |-> {}, lines |-> {}, after |-> {}]

Init ==
    /\ disk \in Disks
    /\ arg = [r \in Request |-> NoArg] /\ pc = [r \in Request |-> "none"]
    /\ mem = [r \in Request |-> NoMem] /\ answer = [r \in Request |-> "none"]
    /\ steady = [r \in Request |-> {}]

-----------------------------------------------------------------------------
(* What the operating system finds at a path, and what the validator makes of  *)
(* one: all links are followed if the path exists, else those of the part that *)
(* does.  One link is followed: chains of links that end are left out, so that *)
(* a link to a link goes round, as one to itself does.  Nothing exists where a *)
(* path loops, and a call that is not given an error_code throws there.        *)
Entry(p) == IF p \in DOMAIN disk THEN disk[p] ELSE Missing
Follow(p) == IF Entry(p).kind = "link" THEN Entry(p).data ELSE p
Place(p) == IF p = Top THEN p ELSE Append(Follow(Front(p)), Last(p))
Stat(p) == LET e == Entry(Follow(Place(p))) IN IF e.kind = "link" THEN Missing ELSE e
Exists(p) == Stat(p).kind # "missing"

GoesRound(p) == Entry(Follow(p)).kind = "link"
Loops(p) == GoesRound(Front(p)) \/ GoesRound(Place(p))
Thrown(p, code) == IF Loops(p) THEN "INTERNAL_ERROR" ELSE code

Resolved(p) ==
    IF Exists(p) THEN Follow(Place(p)) ELSE IF Exists(Front(p)) THEN Place(p) ELSE p

Children(d) == {p \in DOMAIN disk : p # Top /\ Front(p) = d}
Pushed(s, x) == IF x = {} THEN s ELSE Append(s, x)
Listing(d) == {[at |-> p, kind |-> disk[p].kind] : p \in Children(d)}

With(p, e) == [q \in DOMAIN disk \cup {p} |-> IF q = p THEN e ELSE disk[q]]
Without(p) == [q \in DOMAIN disk \ {p} |-> disk[q]]

CanMake(p) == Entry(Place(p)).kind = "missing" /\ Entry(Front(Place(p))).kind = "dir"
CanRemove(p) == Entry(p).kind = "dir" => Children(p) = {}

(* rename(2): the target is replaced if it is of the kind of the source, a     *)
(* directory only if it is empty.                                              *)
Below(p) == {q \in DOMAIN disk : IsPrefix(p, q)}
Moved(from, to, q) == to \o SubSeq(q, Len(from) + 1, Len(q))

CanMove(from, to) ==
    /\ Entry(from).kind # "missing" /\ Entry(Front(to)).kind = "dir"
    /\ IF Entry(from).kind = "dir"
       THEN /\ Entry(to).kind \in {"missing", "dir"} /\ Children(to) = {}
            /\ ~IsPrefix(from, to)
            /\ \A q \in Below(from) : Len(Moved(from, to, q)) <= MaxDepth
       ELSE Entry(to).kind # "dir"

Move(from, to) ==
    LET Old(q) == IF IsPrefix(to, q) THEN Moved(to, from, q) ELSE q
        kept == DOMAIN disk \ (Below(from) \cup {to})
    IN  [q \in kept \cup {Moved(from, to, q) : q \in Below(from)} |->
            IF q \in kept THEN disk[q] ELSE disk[Old(q)]]

(* The disk becomes d: a path is steady as long as its entry does not change.  *)
Becomes(d) ==
    /\ disk' = d
    /\ steady' = [r \in Request |->
                     {p \in steady[r] : p \in DOMAIN d /\ d[p] = disk[p]}]
Same == UNCHANGED <<disk, steady>>

-----------------------------------------------------------------------------
(* Steps of a request: it goes on, or it answers.                              *)
Goto(r, l) == pc' = [pc EXCEPT ![r] = l] /\ UNCHANGED <<arg, answer>>
Answer(r, code) ==
    /\ pc' = [pc EXCEPT ![r] = "done"] /\ answer' = [answer EXCEPT ![r] = code]
    /\ UNCHANGED arg

Check(r, l, good, next, code) ==
    /\ pc[r] = l
    /\ IF good THEN Goto(r, next) ELSE Answer(r, code)
    /\ Same /\ UNCHANGED mem

Go(r, l, next) == pc[r] = l /\ Goto(r, next) /\ Same /\ UNCHANGED mem
Finish(r, l) == pc[r] = l /\ Answer(r, "ok") /\ Same /\ UNCHANGED mem

First(op) ==
    CASE op = "write" -> "parent" [] op = "delete" -> "look" [] op = "rename" -> "from"
      [] op = "mkdir" -> "free" [] op = "read" -> "readable" [] op = "search" -> "names"
      [] OTHER -> op

MustExist == {"read", "delete", "rename"}

(* The handler reads its parameters and validate_and_resolve the paths, with   *)
(* canonical those that must exist and weakly_canonical, which throws, those to*)
(* make; a walk opens the root.                                                *)
Made(a) ==
    CASE a.op \in {"write", "mkdir"} -> a.path [] a.op = "rename" -> a.to [] OTHER -> Top

Begin(r, a) ==
    /\ pc[r] = "none"
    /\ arg' = [arg EXCEPT ![r] = a]
    /\ mem' = [mem EXCEPT ![r].at = Resolved(a.path), ![r].to = Resolved(a.to),
                          ![r].todo =
                              IF a.op \in Walks THEN Pushed(<<>>, Listing(Top)) ELSE <<>>,
                          ![r].after = {q \in Request : pc[q] = "done"}]
    /\ LET missing == a.op \in MustExist /\ ~Exists(a.path) IN
       IF missing \/ Loops(Made(a))
       THEN /\ pc' = [pc EXCEPT ![r] = "done"]
            /\ answer' = [answer EXCEPT ![r] =
                              IF missing THEN "FS_PATH_NOT_FOUND" ELSE "INTERNAL_ERROR"]
       ELSE pc' = [pc EXCEPT ![r] = First(a.op)] /\ UNCHANGED answer
    /\ steady' = [steady EXCEPT ![r] = IF a.op \in Walks THEN DOMAIN disk ELSE {}]
    /\ UNCHANGED disk

-----------------------------------------------------------------------------
(* read_file.  Content and size come from two calls; a file that is gone, or   *)
(* is a directory now, makes one of them throw, and so does the dump() of the  *)
(* answer if the content is garbled.                                           *)
Read(r) ==
    LET p == mem[r].at IN
    \/ Check(r, "readable", Exists(p), "notDir", "FS_PATH_NOT_FOUND")
    \/ Check(r, "notDir", Stat(p).kind # "dir" /\ ~Loops(p), "regular",
             Thrown(p, "FS_IS_DIRECTORY"))
    \/ Check(r, "regular", Stat(p).kind = "file", "content", Thrown(p, "FS_PATH_NOT_FOUND"))
    \/ /\ pc[r] = "content"
       /\ mem' = [mem EXCEPT ![r].data = Stat(p).data] /\ Same
       /\ IF Stat(p).kind = "file" THEN Goto(r, "size") ELSE Answer(r, "INTERNAL_ERROR")
    \/ /\ pc[r] = "size"
       /\ mem' = [mem EXCEPT ![r].size = Stat(p).data] /\ Same
       /\ Answer(r, IF Stat(p).kind = "file" /\ mem[r].data \notin Garbled
                    THEN "ok" ELSE "INTERNAL_ERROR")

-----------------------------------------------------------------------------
(* create_directories and create_directory, of write_file and mkdir.           *)
Parents(r, next) ==
    LET d == Front(mem[r].at) IN
    /\ pc[r] = "parents"
    /\ IF CanMake(d) THEN Becomes(With(Place(d), Dir)) ELSE Same
    /\ IF Stat(d).kind = "dir" \/ CanMake(d)
       THEN Goto(r, next) ELSE Answer(r, "FS_WRITE_FAILED")
    /\ UNCHANGED mem

Mkdir(r) ==
    LET p == mem[r].at IN
    \/ Check(r, "free", ~Exists(p) /\ ~Loops(p),
             IF arg[r].flag THEN "parents" ELSE "make", Thrown(p, "FS_PATH_EXISTS"))
    \/ arg[r].op = "mkdir" /\ Parents(r, "make")
    \/ /\ pc[r] = "make"
       /\ IF CanMake(p) THEN Becomes(With(Place(p), Dir)) ELSE Same
       /\ mem' = [mem EXCEPT ![r].fresh = CanMake(p)]
       /\ Answer(r, IF CanMake(p) \/ Stat(p).kind = "dir" THEN "ok" ELSE "FS_WRITE_FAILED")

-----------------------------------------------------------------------------
(* write_file: a temporary file beside the target, renamed over it.  good() is *)
(* asked while the end of the content is in the stream's buffer: if the flush  *)
(* fails when the stream is closed, nobody sees it and the request goes on.    *)
(* The temporary file is removed by a call that throws if a file, or a link    *)
(* that goes round, is where its directory has been.                           *)
InPlace(r) == mem[r].at
Temp(r) == Append(Front(mem[r].at), r)
FileOf(r) == Place(Temp(r))

Discarded(r) == Without(FileOf(r))

Filled(r) ==
    [p \in DOMAIN disk |-> IF disk[p] = File(Partial(r)) THEN File(Whole(r)) ELSE disk[p]]

Undo(r) ==
    /\ Becomes(Discarded(r))
    /\ Answer(r, IF Entry(Front(FileOf(r))).kind \in {"dir", "missing"}
                 THEN "FS_WRITE_FAILED" ELSE "INTERNAL_ERROR")

Write(r) ==
    LET p == mem[r].at IN
    \/ Check(r, "parent", Exists(Front(p)) \/ (arg[r].flag /\ ~Loops(Front(p))),
             IF Exists(Front(p)) THEN "exists" ELSE "parents",
             Thrown(Front(p), "FS_PATH_NOT_FOUND"))
    \/ arg[r].op = "write" /\ Parents(r, "exists")
    \/ /\ pc[r] = "exists" /\ Same
       /\ mem' = [mem EXCEPT ![r].fresh = ~Exists(p)]
       /\ IF Loops(p) THEN Answer(r, "INTERNAL_ERROR") ELSE Goto(r, "open")
    \/ /\ pc[r] = "open" /\ UNCHANGED mem
       /\ IF Entry(Front(FileOf(r))).kind = "dir"
          THEN Becomes(With(FileOf(r), File(Partial(r)))) /\ Goto(r, "fill")
          ELSE Same /\ Answer(r, "FS_WRITE_FAILED")
    \/ /\ pc[r] = "fill"
       /\ \/ /\ Becomes(Filled(r)) /\ Goto(r, "replace")
             /\ mem' = [mem EXCEPT ![r].data = Whole(r)]
          \/ Same /\ Goto(r, "replace") /\ mem' = [mem EXCEPT ![r].data = Partial(r)]
          \/ Undo(r) /\ UNCHANGED mem
    \/ /\ pc[r] = "replace"
       /\ IF CanMove(FileOf(r), Place(p))
          THEN /\ Becomes(Move(FileOf(r), Place(p))) /\ Answer(r, "ok")
               /\ mem' = [mem EXCEPT ![r].over = Entry(Place(p))]
          ELSE Undo(r) /\ UNCHANGED mem

-----------------------------------------------------------------------------
(* delete_path.  remove takes a path that is gone for removed; remove_all      *)
(* empties the directory as it was listed.                                     *)
Delete(r) ==
    LET p == mem[r].at IN
    \/ Check(r, "look", Exists(p), "kind", Thrown(p, "FS_PATH_NOT_FOUND"))
    \/ Check(r, "kind", ~Loops(p), IF Stat(p).kind # "dir" THEN "remove"
                                   ELSE IF arg[r].flag THEN "list" ELSE "empty",
             "INTERNAL_ERROR")
    \/ Check(r, "empty", Stat(p).kind = "dir" /\ Children(Follow(p)) = {}, "remove",
             IF Stat(p).kind = "dir" THEN "FS_NOT_EMPTY" ELSE "FS_PERMISSION_DENIED")
    \/ /\ pc[r] = "list" /\ Same
       /\ mem' = [mem EXCEPT ![r].found = Children(p)] /\ Goto(r, "entries")
    \/ /\ pc[r] = "entries" /\ mem[r].found # {}
       /\ \E q \in mem[r].found :
             /\ mem' = [mem EXCEPT ![r].found = @ \ {q}]
             /\ IF CanRemove(q) THEN Becomes(Without(q)) /\ Goto(r, "entries")
                                ELSE Same /\ Answer(r, "FS_PERMISSION_DENIED")
    \/ mem[r].found = {} /\ Go(r, "entries", "remove")
    \/ /\ pc[r] = "remove" /\ UNCHANGED mem
       /\ IF CanRemove(Place(p)) THEN Becomes(Without(Place(p))) /\ Answer(r, "ok")
                                 ELSE Same /\ Answer(r, "FS_PERMISSION_DENIED")

-----------------------------------------------------------------------------
(* rename: three checks, then the call, which does not check again.            *)
Unchecked(p) == TRUE
Free(p) == ~Exists(p)

Rename(r) ==
    LET from == mem[r].at
        to == mem[r].to
    IN  \/ Check(r, "from", Exists(from), "dest", Thrown(from, "FS_PATH_NOT_FOUND"))
        \/ Check(r, "dest", Free(to) /\ ~Loops(to), "toParent", Thrown(to, "FS_PATH_EXISTS"))
        \/ Check(r, "toParent", Exists(Front(to)), "move",
                 Thrown(Front(to), "FS_PATH_NOT_FOUND"))
        \/ /\ pc[r] = "move"
           /\ IF from # to /\ CanMove(Place(from), Place(to))
              THEN /\ Becomes(Move(Place(from), Place(to)))
                   /\ mem' = [mem EXCEPT ![r].over = Entry(Place(to))]
                   /\ Answer(r, "ok")
              ELSE /\ Same /\ UNCHANGED mem
                   /\ Answer(r, IF from = to /\ Entry(from) # Missing
                                THEN "ok" ELSE "FS_WRITE_FAILED")

-----------------------------------------------------------------------------
(* A walk goes depth first; a directory's listing has the kinds of its entries.*)
Popped(s, e) == Pushed(Front(s), Last(s) \ {e})

Visits(r, l, e) == pc[r] = l /\ mem[r].todo # <<>> /\ e \in Last(mem[r].todo)

(* The walk goes on after e, into it if it is a directory that is to be listed;*)
(* code is what it answers if that directory cannot be opened.                 *)
After(r, e, into) ==
    Pushed(Popped(mem[r].todo, e), IF into THEN Listing(e.at) ELSE {})

Onward(r, l, e, into, code) ==
    /\ Same
    /\ IF into /\ Entry(e.at).kind # "dir" THEN Answer(r, code) ELSE Goto(r, l)

Skipped(e) == Last(e.at) \in Noise

(* What a listed link leads to is asked for with a call that throws.           *)
Endless(e) == e.kind = "link" /\ Loops(e.at)
Stopped(r, l) ==
    \E e \in UNION ToSet(mem[r].todo) :
        Visits(r, l, e) /\ Endless(e) /\ Answer(r, "INTERNAL_ERROR") /\ Same /\ UNCHANGED mem

(* search_by_name, search_by_content, and what search_all makes of both.       *)
Full(s) == Cardinality(s) >= MaxResults

ByName(r) ==
    \/ \E e \in UNION ToSet(mem[r].todo) :
          LET into == e.kind = "dir" /\ ~Skipped(e) IN
          /\ Visits(r, "names", e) /\ ~Full(mem[r].found)
          /\ mem' = [mem EXCEPT
                ![r].todo = After(r, e, into),
                ![r].found = IF ~Skipped(e) /\ Last(e.at) \in Hit THEN @ \cup {e.at} ELSE @]
          /\ Onward(r, "names", e, into, "INTERNAL_ERROR")
    \/ /\ pc[r] = "names" /\ (mem[r].todo = <<>> \/ Full(mem[r].found))
       /\ Goto(r, "contents") /\ Same
       /\ mem' = [mem EXCEPT ![r].todo = Pushed(<<>>, Listing(Top))]

ByContent(r) ==
    \/ \E e \in UNION ToSet(mem[r].todo) :
          LET regular == e.kind = "file" \/ (e.kind = "link" /\ Stat(e.at).kind = "file")
              into == e.kind = "dir"
          IN  /\ Visits(r, "contents", e) /\ ~Full(mem[r].lines) /\ ~Endless(e)
              /\ mem' = [mem EXCEPT
                    ![r].todo = After(r, e, into),
                    ![r].lines = IF /\ regular /\ ~Skipped(e)
                                    /\ Stat(e.at).kind = "file" /\ Holds(Stat(e.at).data)
                                 THEN @ \cup {e.at} ELSE @]
              /\ Onward(r, "contents", e, into, "INTERNAL_ERROR")
    \/ ~Full(mem[r].lines) /\ Stopped(r, "contents")
    \/ /\ (mem[r].todo = <<>> \/ Full(mem[r].lines)) /\ Go(r, "contents", "merge")

NamesOnly(names, lines) == {names}
Merged(names, lines) ==
    {s \in SUBSET (names \cup lines) :
        names \subseteq s /\ (s = names \cup lines \/ Cardinality(s) = MaxResults)}

Merge(r) ==
    /\ pc[r] = "merge" /\ Same
    /\ \E s \in Merged(mem[r].found, mem[r].lines) :
          mem' = [mem EXCEPT ![r].found = s, ![r].lines = {}, ![r].todo = <<>>]
    /\ Answer(r, "ok")

(* get_tree: an entry whose status fails is left out; the size of a file that  *)
(* has gone since throws.  A directory that cannot be opened has no children.  *)
Tree(r) ==
    \/ \E e \in UNION ToSet(mem[r].todo) :
          LET into == Entry(e.at).kind = "dir" /\ arg[r].flag IN
          /\ Visits(r, "tree", e) /\ Same
          /\ mem' = [mem EXCEPT ![r].todo = After(r, e, into), ![r].at = e.at,
                                ![r].found = IF Exists(e.at) THEN @ \cup {e.at} ELSE @]
          /\ Goto(r, IF Stat(e.at).kind = "file" THEN "fileSize" ELSE "tree")
    \/ Check(r, "fileSize", Stat(mem[r].at).kind = "file", "tree", "INTERNAL_ERROR")
    \/ mem[r].todo = <<>> /\ Finish(r, "tree")

(* discover_packages: a directory that cannot be opened ends the walk, and the *)
(* answer is what has been found ("cut" is "ok" to the client).                *)
Packages(r) ==
    \/ \E e \in UNION ToSet(mem[r].todo) :
          LET into == e.kind = "dir" /\ ~Skipped(e) IN
          /\ Visits(r, "packages", e) /\ ~Endless(e)
          /\ mem' = [mem EXCEPT
                ![r].todo = After(r, e, into),
                ![r].found = IF /\ Last(e.at) \in Hit /\ e.kind # "dir"
                                /\ Stat(e.at).kind = "file" /\ Holds(Stat(e.at).data)
                             THEN @ \cup {Front(e.at)} ELSE @]
          /\ Onward(r, "packages", e, into, "cut")
    \/ Stopped(r, "packages")
    \/ mem[r].todo = <<>> /\ Finish(r, "packages")

-----------------------------------------------------------------------------
Search(r) == ByName(r) \/ ByContent(r) \/ Merge(r)

AtRest == \A r \in Request : pc[r] = "done"
Ended == AtRest /\ UNCHANGED vars

Next ==
    \/ \E r \in Request :
          \/ \E a \in Arg : Begin(r, a)
          \/ Read(r) \/ Mkdir(r) \/ Write(r) \/ Delete(r) \/ Rename(r)
          \/ Search(r) \/ Tree(r) \/ Packages(r)
    \/ Ended

Spec == Init /\ [][Next]_vars

-----------------------------------------------------------------------------
(* The disk is a tree: what an entry is in is a directory.                     *)
TypeOK ==
    /\ \A p \in DOMAIN disk : p = Top \/ (Front(p) \in DOMAIN disk /\ disk[Front(p)] = Dir)
    /\ arg \in [Request -> Arg \cup {NoArg}]
    /\ \A r \in Request : steady[r] \subseteq DOMAIN disk

Ok(r) == answer[r] = "ok"

(* Another request of one of these operations has run at a time with r.        *)
RacedBy(r, ops) ==
    \E q \in Request \ {r} : arg[q].op \in ops /\ q \notin mem[r].after

(* This writer has put in its file part of its content, and does not know.     *)
Cut(r) == arg[r].op = "write" /\ mem[r].data = Partial(r)

(* A reader gets all of what one writer wrote, or all of what was there before,*)
(* unless the writer's flush failed without its notice, and the size of just   *)
(* that, unless the path changed meanwhile.                                    *)
ReadersSeeWhole ==
    \A r \in Request : arg[r].op = "read" /\ Ok(r) =>
        /\ \/ mem[r].data \in Path \cup {Whole(q) : q \in Request}
           \/ \E q \in Request : Cut(q) /\ mem[r].data = Partial(q)
        /\ mem[r].size # mem[r].data => RacedBy(r, {"write", "rename", "delete"})

Relinked(r) ==
    \E q, s \in Request \ (mem[r].after \cup {r}) :
        q # s /\ arg[q].op \in {"write", "delete"} /\ arg[s].op \in {"write", "mkdir"}

(* A request that would make what it names meets a link that goes round only on*)
(* the way to it, a search and discover_packages anywhere in the tree.         *)
LoopMet(r) ==
    \/ Loops(Made(arg[r]))
    \/ arg[r].op \in {"search", "packages"} /\ \E p \in DOMAIN disk : GoesRound(p)
GarbledRead(r) == arg[r].op = "read" /\ mem[r].data \in Garbled

(* A link that leads nowhere counts for nothing in these handlers.             *)
Replaced(r) == mem[r].over.kind \in {"file", "dir"}

(* A rename replaces nothing, a write is right about whether it replaces a     *)
(* file, and no request fails for internal reasons or stops half way, unless   *)
(* another changed the same tree at that time, a link went round, or the answer*)
(* was not UTF-8; a rename or a write then misleads only in these ways.  A     *)
(* temporary file outlives its request only when the directory it is in has    *)
(* been moved from under it, or when its path led through a link: that takes   *)
(* two requests, one to make what the link leads to, one to remove the link.   *)
OnlyRacesMislead ==
    \A r \in Request : pc[r] = "done" =>
        /\ arg[r].op = "rename" /\ Replaced(r)
              => RacedBy(r, {"write", "rename", "mkdir"})
        /\ arg[r].op = "write" /\ Ok(r) /\ mem[r].fresh = Replaced(r)
              => RacedBy(r, {"write", "rename", "delete", "mkdir"})
        /\ answer[r] = "INTERNAL_ERROR" =>
              RacedBy(r, {"rename", "delete", "write"}) \/ LoopMet(r) \/ GarbledRead(r)
        /\ answer[r] = "cut" => RacedBy(r, {"rename", "delete", "write"})
        /\ \A p \in DOMAIN disk :
              p # Top /\ Last(p) = r => RacedBy(r, {"rename"}) \/ Relinked(r)

(* A walk that answers, and a search that has not reached its maximum, has     *)
(* found each file that was there all the time, whatever else has changed.     *)
Clean(p) == \A i \in DOMAIN p : p[i] \notin Noise
Due(r, p) ==
    CASE arg[r].op = "search" /\ ~Full(mem[r].found) ->
              \/ Clean(p) /\ Last(p) \in Hit
              \/ Last(p) \notin Noise /\ disk[p].kind = "file" /\ Holds(disk[p].data)
      [] arg[r].op = "tree" -> disk[p].kind # "link" /\ (arg[r].flag \/ Len(p) = 1)
      [] arg[r].op = "packages" ->
              Clean(p) /\ Last(p) \in Hit /\ disk[p].kind = "file" /\ Holds(disk[p].data)
      [] OTHER -> FALSE
Reported(r, p) == IF arg[r].op = "packages" THEN Front(p) ELSE p

UndisturbedFound ==
    \A r \in Request : Ok(r) =>
        \A p \in steady[r] \ {Top} : Due(r, p) => Reported(r, p) \in mem[r].found
=============================================================================
