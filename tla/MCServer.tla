------------------------------- MODULE MCServer -------------------------------
(* The requests that change the server (Server), those that work on files      *)
(* (FileStore), or the events of a build manager (BuildChannel): the three     *)
(* share no state, so a behaviour shows one of them.  Of the first, either     *)
(* changes of the domain are served together, all of them to unset it, or one  *)
(* at a time, for any file and value.  The workspaces are                      *)
(* small: directories with files, of which searches skip one, a link to a      *)
(* file, a link to a directory, a link that goes round and one that leads to   *)
(* it, and room to move to.                                                    *)
EXTENDS Server, MCFileStore, MCBuildChannel, TLC

CONSTANTS src, build                                    \* two names

VARIABLE part

Folder == [kind |-> "dir", data |-> <<>>]
FileWith(p) == [kind |-> "file", data |-> p]
LinkTo(p) == [kind |-> "link", data |-> p]

Tree1 == (<<>> :> Folder) @@ (<<src>> :> Folder) @@ (<<src, src>> :> FileWith(<<src, src>>))
            @@ (<<build>> :> Folder) @@ (<<build, src>> :> FileWith(<<build, src>>))
Tree2 == (<<>> :> Folder) @@ (<<src>> :> FileWith(<<src>>)) @@ (<<build>> :> Folder)
            @@ (<<build, src>> :> FileWith(<<build, src>>))
Tree3 == (<<>> :> Folder) @@ (<<src>> :> Folder) @@ (<<src, build>> :> LinkTo(<<build>>))
            @@ (<<build>> :> FileWith(<<build>>))
Tree4 == (<<>> :> Folder) @@ (<<src>> :> Folder) @@ (<<src, src>> :> FileWith(<<src, src>>))
            @@ (<<build>> :> LinkTo(<<src>>))
Tree5 == (<<>> :> Folder) @@ (<<src>> :> Folder) @@ (<<src, build>> :> FileWith(<<src, build>>))
Tree6 == (<<>> :> Folder) @@ (<<src>> :> Folder) @@ (<<src, src>> :> FileWith(<<src, src>>))
            @@ (<<src, build>> :> LinkTo(<<build>>)) @@ (<<build>> :> LinkTo(<<build>>))

(* ~/.zshrc says nothing, or has lines that shells do not export all of.       *)
Files == {{}, {[kind |-> k, value |-> d] : k \in {"bare", "typeset"}, d \in Domain}}

Trees == {Tree1, Tree2, Tree3, Tree4, Tree5, Tree6}

(* The file of Tree3 that a link leads to cannot be sent.                      *)
Unsendable == {<<build>>}

MCInit ==
    /\ Init /\ FS!Init /\ Chan!Init
    /\ part \in {"restarts", "domains", "store", "channel"}
    /\ IF part = "domains" THEN env = NoDomain <=> lines # {} ELSE env = NoDomain /\ lines = {}
    /\ part # "store" => disk = Tree1
MCNext ==
    /\ \/ /\ part = "restarts" /\ Next /\ UNCHANGED <<storeVars, channelVars>>
          /\ \A r \in Request : domain'[r] = NoDomain
          /\ written' \in {"never", "whole"}
       \/ /\ part = "domains" /\ Next /\ UNCHANGED <<storeVars, channelVars>>
          /\ {"domain"} \notin overlap'
       \/ part = "store" /\ FS!Next /\ UNCHANGED <<vars, channelVars>>
       \/ part = "channel" /\ Chan!Next /\ UNCHANGED <<vars, storeVars>>
    /\ UNCHANGED part
MCSpec == MCInit /\ [][MCNext]_<<vars, storeVars, channelVars, part>>

(* Requests are interchangeable.                                               *)
Symmetry == Permutations(Request)
=============================================================================
