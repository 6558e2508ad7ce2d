------------------------------ MODULE BuildSlot ------------------------------
(* What a client of the build service may count on: one build at a time, all   *)
(* output before the final status, a final status that tells how the build     *)
(* ended, and one for every build; until the ROS restart replaces the manager, *)
(* after which nothing is promised.                                            *)
EXTENDS Naturals, FiniteSets

CONSTANTS
    Build,     \* build ids
    MaxChunks  \* bound on the output of one build

VARIABLES
    phase,   \* build -> idle, live, or how it ended: ok, bad
    output,  \* build -> chunks of output the clients have got
    report,  \* build -> the final status the clients have got
    gone     \* the manager is being replaced

slotVars == <<phase, output, report, gone>>

Init ==
    /\ phase = [b \in Build |-> "idle"]
    /\ output = [b \in Build |-> 0]
    /\ report = [b \in Build |-> "none"]
    /\ gone = FALSE

Begin(b) ==
    /\ ~gone
    /\ \A c \in Build : phase[c] # "live"
    /\ phase[b] = "idle"
    /\ phase' = [phase EXCEPT ![b] = "live"]
    /\ UNCHANGED <<output, report, gone>>

End(b, outcome) ==
    /\ ~gone
    /\ phase[b] = "live"
    /\ phase' = [phase EXCEPT ![b] = outcome]
    /\ UNCHANGED <<output, report, gone>>

Output(b) ==
    /\ ~gone
    /\ phase[b] # "idle"
    /\ report[b] = "none"
    /\ output[b] < MaxChunks
    /\ output' = [output EXCEPT ![b] = @ + 1]
    /\ UNCHANGED <<phase, report, gone>>

Report(b) ==
    /\ ~gone
    /\ phase[b] \in {"ok", "bad"}
    /\ report[b] = "none"
    /\ report' = [report EXCEPT ![b] = IF phase[b] = "ok" THEN "completed" ELSE "failed"]
    /\ UNCHANGED <<phase, output, gone>>

Replaced == gone' = TRUE

Next ==
    \/ \E b \in Build :
          Begin(b) \/ End(b, "ok") \/ End(b, "bad") \/ Output(b) \/ Report(b)
    \/ Replaced

Safety == Init /\ [][Next]_slotVars

Spec == Safety /\ \A b \in Build : WF_slotVars(Report(b))
=============================================================================
