---------------------------- MODULE ValhallaRelease ----------------------------
(***************************************************************************)
(* deploy/valhalla/weekly-update.sh: it builds a routing release, proves   *)
(* it on a candidate container, activates it by switching the `current'    *)
(* link, and takes an activation that failed or was interrupted back.      *)
(*                                                                         *)
(* One process at a time holds the lock file, so the script is one record: *)
(* the command it is about to run (pc), its mode and its shell variables.  *)
(* Every command may fail. Under set -E the ERR trap runs                  *)
(* unexpected_failure for it, in a function too and even after set +e,     *)
(* unless the command is a condition. The process may be killed and the    *)
(* host may lose power between any two commands.                           *)
(*                                                                         *)
(* Abstractions: the build is four steps; the files of update-work and the *)
(* texts of the state files are left out; removing a tree is one step.     *)
(***************************************************************************)
EXTENDS ValhallaRuntime, FiniteSets

CONSTANTS
    RetainReleases, \* RETAIN_RELEASES
    MaxFaults,      \* bounds of the exploration: commands that fail,
    MaxCrashes,     \*   kills and power failures,
    MaxStarts       \*   starts by an operator or the weekly timer

ASSUME ReleaseAssumption ==
    /\ RetainReleases \in Nat \ {0}
    /\ MaxFaults \in Nat /\ MaxCrashes \in Nat /\ MaxStarts \in Nat

VARIABLES
    script,     \* the process that holds weekly-update.lock
    transaction,\* transaction.env: PREVIOUS_TARGET and NEW_TARGET
    proven,     \* history: releases that passed a validation in production
    lastId,     \* the newest release id given out
    budget      \* what is left of the exploration bounds

scriptVars == <<script, transaction, proven, lastId, budget>>
releaseVars == <<runtimeVars, scriptVars>>

Modes == {"run", "build", "activate", "recover"}
NoPair == [previous |-> None, next |-> None]
Pair == [previous: Releases, next: Releases]
Idle == [pc |-> "idle", mode |-> "recover", release |-> None,
         previous |-> None, switched |-> FALSE]

BuildSteps == {"prepare", "download", "compile", "candidate", "sealed"}
ActivateSteps == {"check", "begin", "stop", "switch", "forget", "traffic",
                  "recreate", "validate", "commit", "record", "prune"}
RollbackSteps == {"rbStop", "rbSwitch", "rbForget", "rbTraffic",
                  "rbRecreate", "rbValidate", "rbCommit"}
TrapSteps == {"trapStop", "trapSwitch", "trapRecreate", "trapValidate"}

ReleaseTypeOK ==
    /\ RuntimeTypeOK
    /\ script \in [pc: {"idle", "recover"} \cup BuildSteps \cup ActivateSteps
                       \cup RollbackSteps \cup TrapSteps,
                   mode: Modes, release: Releases \cup {None},
                   previous: Releases \cup {None}, switched: BOOLEAN]
    /\ transaction \in Pair \cup {NoPair}
    /\ proven \subseteq Releases
    /\ lastId \in Releases
    /\ budget \in [faults: 0..MaxFaults, crashes: 0..MaxCrashes,
                   starts: 0..MaxStarts]

ReleaseInit ==
    /\ RuntimeInit
    /\ script = Idle
    /\ transaction = NoPair
    /\ proven = {1}
    /\ lastId = 1
    /\ budget \in [faults: 0..MaxFaults, crashes: 0..MaxCrashes, starts: 0..MaxStarts]

-----------------------------------------------------------------------------
(* Control of the script *)

At(step) == script.pc = step
Goto(step) == script' = [script EXCEPT !.pc = step]
Exits == script' = Idle

Fault ==
    /\ budget.faults > 0
    /\ budget' = [budget EXCEPT !.faults = @ - 1]

(* fail: in the modes that build, the release under construction goes,     *)
(* whatever it is used for by now. PRESERVE_FAILED_BUILD or a failing      *)
(* removal keeps it.                                                       *)
fail ==
    /\ Exits
    /\ \/ /\ script.mode \in {"run", "build"}
          /\ dirs' = [dirs EXCEPT ![script.release] = "absent"]
       \/ UNCHANGED dirs
    /\ UNCHANGED <<current, served, trafficVars, transaction>>

(* unexpected_failure, the ERR trap. *)
unexpected_failure ==
    \/ /\ script.switched
       /\ Goto("trapStop")
       /\ UNCHANGED <<runtimeVars, transaction>>
    \/ /\ ~script.switched
       /\ fail

(* The commands whose failure is not a condition of an if or an ||. *)
Unguarded ==
    (BuildSteps \cup ActivateSteps \cup RollbackSteps)
        \ {"check", "switch", "recreate", "validate", "prune", "rbValidate"}

CommandFails ==
    /\ script.pc \in Unguarded
    /\ Fault
    /\ unexpected_failure
    /\ UNCHANGED <<proven, lastId>>

Kept == UNCHANGED <<proven, lastId, budget>>

-----------------------------------------------------------------------------
(* Start and recovery *)

(* A process that gets the lock: the weekly timer or an operator. *)
Start(mode, r) ==
    /\ At("idle")
    /\ budget.starts > 0
    /\ budget' = [budget EXCEPT !.starts = @ - 1]
    /\ CASE mode \in {"run", "build"} -> r = lastId + 1 /\ lastId' = r
         [] mode = "activate" -> r <= lastId /\ UNCHANGED lastId
         [] OTHER -> r = 1 /\ UNCHANGED lastId
    /\ script' = [Idle EXCEPT !.pc = "recover", !.mode = mode, !.release = r]
    /\ UNCHANGED <<runtimeVars, transaction, proven>>

(* valhalla-update-recovery.service after a boot, or `weekly-update.sh     *)
(* recover' by an operator after a failure.                                *)
StartRecovery ==
    /\ At("idle")
    /\ transaction # NoPair
    /\ script' = [Idle EXCEPT !.pc = "recover"]
    /\ UNCHANGED <<runtimeVars, transaction, proven, lastId, budget>>

ModeBegins ==
    CASE script.mode \in {"run", "build"} -> Goto("prepare")
      [] script.mode = "activate" -> Goto("check")
      [] OTHER -> Exits

\* Mutant: a transaction whose switch was done is taken for finished.
RecoveryTrustsSwitch ==
    /\ At("recover")
    /\ \/ /\ transaction = NoPair \/ transaction.next = current
          /\ ModeBegins
          /\ transaction' = NoPair
       \/ /\ transaction # NoPair /\ transaction.next # current
          /\ script' = [script EXCEPT !.pc = "rbStop",
                                      !.previous = transaction.previous]
          /\ UNCHANGED transaction
    /\ UNCHANGED runtimeVars
    /\ Kept

recover_transaction ==
    /\ At("recover")
    /\ \/ /\ transaction = NoPair
          /\ ModeBegins
       \/ /\ transaction # NoPair
          /\ script' = [script EXCEPT !.pc = "rbStop",
                                      !.previous = transaction.previous]
    /\ UNCHANGED <<runtimeVars, transaction>>
    /\ Kept

-----------------------------------------------------------------------------
(* build_release *)

(* check_capacity, prepare_tools_image, prepare_release_layout: the layout *)
(* is taken from the current release, which must be there.                 *)
prepare_release_layout ==
    /\ At("prepare")
    /\ \/ /\ Exists(current)
          /\ Goto("download")
          /\ dirs' = [dirs EXCEPT ![script.release] = "building"]
          /\ UNCHANGED <<current, served, trafficVars, transaction>>
       \/ /\ ~Exists(current)
          /\ fail
    /\ Kept

BuildStep(from, to) ==
    /\ At(from)
    /\ Goto(to)
    /\ UNCHANGED <<runtimeVars, transaction>>
    /\ Kept

download_sources == BuildStep("download", "compile")
compile_release == BuildStep("compile", "candidate")

(* The seal comes after the full validation of the candidate. *)
validate_candidate ==
    /\ At("candidate")
    /\ Goto("sealed")
    /\ dirs' = [dirs EXCEPT ![script.release] = "sealed"]
    /\ UNCHANGED <<current, served, trafficVars, transaction>>
    /\ Kept

candidate_ready ==
    /\ At("sealed")
    /\ IF script.mode = "run" THEN Goto("check") ELSE Exits
    /\ UNCHANGED <<runtimeVars, transaction>>
    /\ Kept
-----------------------------------------------------------------------------
(* activate_release *)

\* Mutants: the previous release is not looked for, or not recorded.
PreviousNotChecked ==
    /\ At("check")
    /\ \/ /\ dirs[script.release] = "sealed"
          /\ script' = [script EXCEPT !.pc = "begin", !.previous = current]
          /\ UNCHANGED <<runtimeVars, transaction>>
       \/ /\ dirs[script.release] # "sealed"
          /\ fail
    /\ Kept
PreviousNotRecorded ==
    /\ At("check")
    /\ \/ /\ dirs[script.release] = "sealed" /\ Exists(current)
          /\ Goto("begin")
          /\ UNCHANGED <<runtimeVars, transaction>>
       \/ /\ dirs[script.release] # "sealed" \/ ~Exists(current)
          /\ fail
    /\ Kept

check_complete ==
    /\ At("check")
    /\ \/ /\ dirs[script.release] = "sealed" /\ Exists(current)
          /\ script' = [script EXCEPT !.pc = "begin", !.previous = current]
          /\ UNCHANGED <<runtimeVars, transaction>>
       \/ /\ dirs[script.release] # "sealed" \/ ~Exists(current)
          /\ fail
    /\ Kept

write_transaction ==
    /\ At("begin")
    /\ Goto("stop")
    /\ transaction' = [previous |-> script.previous, next |-> script.release]
    /\ UNCHANGED runtimeVars
    /\ Kept

stop_production(from, to) ==
    /\ At(from)
    /\ Goto(to)
    /\ served' = None
    /\ UNCHANGED <<dirs, current, trafficVars, transaction>>
    /\ Kept

switch_current(from, to, target) ==
    /\ At(from)
    /\ Goto(to)
    /\ current' = target
    /\ UNCHANGED <<dirs, served, trafficVars, transaction>>
    /\ Kept

(* The || of the switch: production comes up again as it was, then fail.   *)
SwitchFails ==
    /\ At("switch")
    /\ Fault
    /\ Exits
    /\ \/ ContainerStarts
       \/ UNCHANGED <<served, archive>>
    /\ \/ /\ script.mode = "run"
          /\ dirs' = [dirs EXCEPT ![script.release] = "absent"]
       \/ UNCHANGED dirs
    /\ UNCHANGED <<current, edgeList, lastApplied, detached, transaction,
                   proven, lastId>>

(* prepare_runtime_traffic: first the two lists of what was applied go, *)
(* then the archive becomes the skeleton of the target. No update.lock.  *)
forget_applied(from, to) ==
    /\ At(from)
    /\ Goto(to)
    /\ edgeList' = NoList
    /\ lastApplied' = None
    /\ UNCHANGED <<dirs, current, served, archive, detached, transaction>>
    /\ Kept

install_skeleton(from, to, target, switched) ==
    /\ At(from)
    /\ script' = [script EXCEPT !.pc = to, !.switched = switched]
    /\ archive' = IF Exists(target) THEN Skeleton(target) ELSE NoArchive
    /\ detached' = TRUE
    /\ UNCHANGED <<dirs, current, served, edgeList, lastApplied, transaction>>
    /\ Kept

recreate_production(from, to) ==
    /\ At(from)
    /\ ContainerStarts
    /\ Goto(to)
    /\ UNCHANGED <<dirs, current, edgeList, lastApplied, detached, transaction>>
    /\ Kept

validate_full ==
    /\ At("validate")
    /\ Goto("commit")
    /\ proven' = proven \cup {served}
    /\ UNCHANGED <<runtimeVars, transaction, lastId, budget>>

(* The new release does not start or does not pass: rollback_to. *)
ActivationFails ==
    /\ script.pc \in {"recreate", "validate"}
    /\ Fault
    /\ Goto("rbStop")
    /\ UNCHANGED <<runtimeVars, transaction, proven, lastId>>

commit_activation ==
    /\ At("commit")
    /\ script' = [script EXCEPT !.pc = "record", !.switched = FALSE]
    /\ transaction' = NoPair
    /\ UNCHANGED runtimeVars
    /\ Kept

(* active.env, last-success.env and the state file, which nothing reads back. *)
record_success ==
    /\ At("record")
    /\ Goto("prune")
    /\ UNCHANGED <<runtimeVars, transaction>>
    /\ Kept

(* prune_releases: what is not among the newest and not active goes; a *)
(* removal that fails is logged.                                        *)
Newer(r) == {q \in Releases : q > r /\ Exists(q)}
Prunable ==
    {r \in Releases : Exists(r) /\ Cardinality(Newer(r)) >= RetainReleases
                      /\ r # current}
prune_releases ==
    /\ At("prune")
    /\ Exits
    /\ \E gone \in SUBSET Prunable :
          dirs' = [r \in Releases |-> IF r \in gone THEN "absent" ELSE dirs[r]]
    /\ UNCHANGED <<current, served, trafficVars, transaction>>
    /\ Kept

-----------------------------------------------------------------------------
(* rollback_to, from a failed activation or from recover_transaction *)

RollbackInvalid ==
    /\ At("rbValidate")
    /\ Fault
    /\ fail
    /\ UNCHANGED <<proven, lastId>>

rollback_validated ==
    /\ At("rbValidate")
    /\ Goto("rbCommit")
    /\ proven' = proven \cup {served}
    /\ UNCHANGED <<runtimeVars, transaction, lastId, budget>>

\* Mutant: a recovery leaves the transaction file behind.
RecoveryKeepsTransaction ==
    /\ At("rbCommit")
    /\ \/ /\ script.switched
          /\ Exits
          /\ transaction' = NoPair
          /\ \/ /\ script.mode = "run"
                /\ dirs' = [dirs EXCEPT ![script.release] = "absent"]
             \/ UNCHANGED dirs
       \/ /\ ~script.switched
          /\ ModeBegins
          /\ UNCHANGED <<dirs, transaction>>
    /\ UNCHANGED <<current, served, trafficVars>>
    /\ Kept

(* The activation goes on to fail; a recovery to the mode it was asked for. *)
rollback_committed ==
    /\ At("rbCommit")
    /\ transaction' = NoPair
    /\ \/ /\ script.switched
          /\ Exits
          /\ \/ /\ script.mode = "run"
                /\ dirs' = [dirs EXCEPT ![script.release] = "absent"]
             \/ UNCHANGED dirs
       \/ /\ ~script.switched
          /\ ModeBegins
          /\ UNCHANGED dirs
    /\ UNCHANGED <<current, served, trafficVars>>
    /\ Kept

(* The body of the trap, after the switch. A command that fails ends it, *)
(* except the stop, and the transaction stays for the next recovery.     *)
TrapStops ==
    /\ At("trapStop")
    /\ Goto("trapSwitch")
    /\ \/ served' = None /\ UNCHANGED budget
       \/ Fault /\ UNCHANGED served
    /\ UNCHANGED <<dirs, current, trafficVars, transaction, proven, lastId>>

TrapFails ==
    /\ script.pc \in TrapSteps \ {"trapStop"}
    /\ Fault
    /\ Exits
    /\ UNCHANGED <<runtimeVars, transaction, proven, lastId>>

TrapRestored ==
    /\ At("trapValidate")
    /\ Exits
    /\ transaction' = NoPair
    /\ proven' = proven \cup {served}
    /\ UNCHANGED <<runtimeVars, lastId, budget>>

-----------------------------------------------------------------------------
(* Kills and power failures *)

ScriptKilled ==
    /\ ~At("idle")
    /\ budget.crashes > 0
    /\ budget' = [budget EXCEPT !.crashes = @ - 1]
    /\ Exits
    /\ UNCHANGED <<runtimeVars, transaction, proven, lastId>>

PowerFails ==
    /\ budget.crashes > 0
    /\ budget' = [budget EXCEPT !.crashes = @ - 1]
    /\ Exits
    /\ HostReboots
    /\ UNCHANGED <<transaction, proven, lastId>>

ScriptStep ==
    \/ recover_transaction
    \/ prepare_release_layout \/ download_sources \/ compile_release
    \/ validate_candidate \/ candidate_ready
    \/ check_complete \/ write_transaction
    \/ stop_production("stop", "switch")
    \/ switch_current("switch", "forget", script.release)
    \/ forget_applied("forget", "traffic")
    \/ install_skeleton("traffic", "recreate", script.release, TRUE)
    \/ recreate_production("recreate", "validate")
    \/ validate_full \/ commit_activation \/ record_success \/ prune_releases
    \/ stop_production("rbStop", "rbSwitch")
    \/ switch_current("rbSwitch", "rbForget", script.previous)
    \/ forget_applied("rbForget", "rbTraffic")
    \/ install_skeleton("rbTraffic", "rbRecreate", script.previous, script.switched)
    \/ recreate_production("rbRecreate", "rbValidate")
    \/ rollback_validated \/ rollback_committed
    \/ TrapStops
    \/ switch_current("trapSwitch", "trapRecreate", script.previous)
    \/ recreate_production("trapRecreate", "trapValidate")
    \/ TrapRestored

ReleaseStep ==
    \/ \E mode \in Modes, r \in Releases : Start(mode, r)
    \/ StartRecovery
    \/ ScriptStep
    \/ CommandFails \/ SwitchFails \/ ActivationFails
    \/ RollbackInvalid \/ TrapFails
    \/ ScriptKilled

ReleaseNext == ReleaseStep \/ PowerFails

ReleaseSpec == ReleaseInit /\ [][ReleaseNext]_releaseVars

-----------------------------------------------------------------------------
(* Properties *)

(* An interrupted activation can be taken back at any time: the release    *)
(* the transaction names as the previous one is there, sealed. It concerns *)
(* what fail and prune_releases delete while a transaction survives.       *)
RollbackTargetKept ==
    transaction # NoPair => dirs[transaction.previous] = "sealed"

(* When no script runs and no transaction is left over, production runs    *)
(* the release `current' names, and that one has passed a validation in    *)
(* production: no order of failures, kills and power failures between the  *)
(* switch, the restart, the validation and the two copies of the rollback  *)
(* leaves an unvalidated release behind as if it were final. (A release    *)
(* that fail deleted is not there to be run, see CurrentReleaseKept.)      *)
SettledIsValidated ==
    At("idle") /\ transaction = NoPair /\ Exists(current)
        => served = current /\ current \in proven

(* A surviving transaction is resolved at last: no failure of a rollback   *)
(* makes the next recovery impossible (runbook, "Failure and recovery").   *)
TransactionResolved == transaction # NoPair ~> transaction = NoPair

(* "Do not delete the current or immediately previous release": the link   *)
(* always names a release that is there.                                   *)
CurrentReleaseKept == Exists(current)
================================================================================
