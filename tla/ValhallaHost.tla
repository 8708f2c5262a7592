------------------------------ MODULE ValhallaHost ------------------------------
(***************************************************************************)
(* The release script and the traffic updater on one host. They share the  *)
(* link, the container and the files of /run/valhalla-traffic, and nothing *)
(* orders their steps: prepare_runtime_traffic takes no update.lock.       *)
(***************************************************************************)
EXTENDS ValhallaRelease, TrafficUpdater

hostVars == <<releaseVars, updaterVars>>

HostTypeOK == ReleaseTypeOK /\ UpdaterTypeOK

HostInit == ReleaseInit /\ UpdaterInit

(* What a step of the script does to the records the updater answers for:  *)
(* a new archive has none set, and a removed list loses those it named.    *)
UpdaterSees ==
    /\ lost' = IF archive' # archive /\ upd.pc \notin {"wipe", "write", "list"} THEN {}
               ELSE IF edgeList' = NoList THEN lost \cup edgeList.edges
               ELSE lost
    /\ aged' = (aged /\ edgeList'.there)
    /\ UNCHANGED <<feed, changed, maps, upd, bounds>>

(* A power failure takes the run with it. *)
HostFails ==
    /\ PowerFails
    /\ upd' = Resting /\ aged' = FALSE /\ lost' = {}
    /\ UNCHANGED <<feed, changed, maps, bounds>>

UpdaterActs == UpdaterNext /\ UNCHANGED scriptVars

HostNext ==
    \/ ReleaseStep /\ UpdaterSees
    \/ HostFails
    \/ UpdaterActs

(* Commands end; after a boot the recovery service runs, and after a       *)
(* failure the operator of the runbook or the next weekly run.             *)
HostFairness ==
    /\ WF_hostVars((ScriptStep \/ ActivationFails) /\ UpdaterSees)
    /\ WF_hostVars(StartRecovery /\ UpdaterSees)

HostSpec == HostInit /\ [][HostNext]_hostVars /\ HostFairness

-----------------------------------------------------------------------------
(* "The next run can still clear every possibly modified record"           *)
(* (traffic-update.py:294): every record set in the archive is in the      *)
(* list, whatever was killed or switched in between, except for records    *)
(* of a list that was itself cut short or removed.                         *)
EdgeListCoversArchive == archive.set \subseteq edgeList.edges \cup lost

(* "A map from an earlier graph cannot be applied accidentally" (ADR 0020): *)
(* a record that is set belongs to the graph of the archive.                *)
EarlierGraphNeverApplied ==
    archive.graph # None => archive.set \subseteq {archive.graph}
================================================================================
