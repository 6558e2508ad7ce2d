----------------------------- MODULE MCFileStore -----------------------------
(* The files of a workspace, as part of an instance for TLC.                   *)
EXTENDS Naturals, Sequences

CONSTANTS Call, Name, Noise, Hit, Disks, Garbled, MaxResults

VARIABLES disk, arg, pc, mem, answer, steady

FS == INSTANCE FileStore WITH Request <- Call

storeVars == <<disk, arg, pc, mem, answer, steady>>

(* No temporary file has the name of another file, a disk is a tree of what a  *)
(* request can name, and each file has its place for its content.              *)
ASSUME NamesAssumption == Name \cap Call = {}
ASSUME DisksAssumption ==
    \A d \in Disks :
        /\ DOMAIN d \subseteq {FS!Top} \cup FS!Path
        /\ FS!Top \in DOMAIN d /\ d[FS!Top] = FS!Dir
        /\ \A p \in DOMAIN d \ {FS!Top} :
              /\ FS!Front(p) \in DOMAIN d /\ d[FS!Front(p)] = FS!Dir
              /\ \/ d[p] = FS!Dir
                 \/ \E q \in FS!Path : d[p] = FS!File(q)
                 \/ \E n \in Name : d[p] = FS!Link(<<n>>)
ASSUME ResultsAssumption == MaxResults \in Nat

(* A reader gets a whole content, but for a flush that failed unseen, and its  *)
(* size if the path does not change.                                           *)
ReadersSeeWhole == FS!ReadersSeeWhole

(* Requests mislead, fail, stop half way or leave a temporary file only when   *)
(* others race with them, a link goes round or what is read is garbled.        *)
OnlyRacesMislead == FS!OnlyRacesMislead

(* A walk finds each file that is there all the time.                          *)
UndisturbedFound == FS!UndisturbedFound
=============================================================================
