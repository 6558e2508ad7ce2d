---------------------------- MODULE MCBuildManager ----------------------------
(* BuildManager on a small instance for TLC.                                   *)
EXTENDS BuildManager, TLC

(* A bound: a restart is checked for builds without output.  Neither of the    *)
(* two actions it restrains is fair.                                           *)
Bounded == spc' = "idle" \/ \A b \in Build : made'[b] = 0

MCSpec == Init /\ [][Next /\ Bounded]_vars /\ Fairness
=============================================================================
