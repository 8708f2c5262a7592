---------------------------- MODULE MCValhallaHost ----------------------------
(***************************************************************************)
(* Small instances of ValhallaHost for TLC. The two processes are explored *)
(* to different depths: the script alone with every bound, and both of     *)
(* them around one activation.                                             *)
(***************************************************************************)
EXTENDS ValhallaHost

ScriptAlone ==
    /\ budget = [faults |-> MaxFaults, crashes |-> MaxCrashes, starts |-> MaxStarts]
    /\ bounds = [runs |-> 0, kills |-> 0]

(* At most one of a failing command, a crash and a killed run. *)
Together ==
    /\ bounds.runs = MaxRuns
    /\ budget.starts = 1
    /\ budget.faults + budget.crashes + bounds.kills = 1

MCInit == HostInit /\ (ScriptAlone \/ Together)
MCSpec == MCInit /\ [][HostNext]_hostVars /\ HostFairness
===============================================================================
