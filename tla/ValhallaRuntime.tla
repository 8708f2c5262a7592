---------------------------- MODULE ValhallaRuntime ----------------------------
(***************************************************************************)
(* What the two host scripts of deploy/valhalla share: the release         *)
(* directories and the `current' link, the production container, and the   *)
(* memory-backed directory /run/valhalla-traffic. weekly-update.sh         *)
(* (ValhallaRelease) and traffic-update.py (TrafficUpdater) are separate   *)
(* processes; only the second takes update.lock.                           *)
(*                                                                         *)
(* A release id is a UTC time stamp (weekly-update.sh:47), here a number:  *)
(* a later one is newer. 1 is the baseline that install.sh adopted.        *)
(* A graph has one directed edge with a live speed, named by its release:  *)
(* edge ids are not stable across builds, so the edge of one graph is a    *)
(* wrong record in the archive of another.                                 *)
(***************************************************************************)
EXTENDS Naturals

CONSTANT MaxReleases    \* bound of the exploration: release ids

ASSUME RuntimeAssumption == MaxReleases \in Nat \ {0}

Releases == 1..MaxReleases
None == 0               \* no release; a container that is stopped

VARIABLES
    dirs,       \* dirs[r]: the directory of release r
    current,    \* the release the link `current' names, there or not
    served,     \* the release the production container runs
    archive,    \* traffic.tar: the graph it was made for, and its set records
    edgeList,   \* applied-edges.json
    lastApplied,\* last-applied.json: the dataset applied, or None
    detached    \* traffic.tar has been replaced since the updater opened it

runtimeVars == <<dirs, current, served, archive, edgeList, lastApplied, detached>>
trafficVars == <<archive, edgeList, lastApplied, detached>>

Edges == Releases

RuntimeTypeOK ==
    /\ dirs \in [Releases -> {"absent", "building", "sealed"}]
    /\ current \in Releases
    /\ served \in Releases \cup {None}
    /\ archive \in [graph: Releases \cup {None}, set: SUBSET Edges]
    /\ edgeList \in [there: BOOLEAN, edges: SUBSET Edges]
    /\ lastApplied \in Releases \cup {None}
    /\ detached \in BOOLEAN

NoArchive == [graph |-> None, set |-> {}]
Skeleton(r) == [graph |-> r, set |-> {}]
NoList == [there |-> FALSE, edges |-> {}]
ListOf(S) == [there |-> TRUE, edges |-> S]

Exists(r) == dirs[r] # "absent"

(* The baseline is sealed and served with an empty overlay. *)
RuntimeInit ==
    /\ dirs = [r \in Releases |-> IF r = 1 THEN "sealed" ELSE "absent"]
    /\ current = 1
    /\ served = 1
    /\ archive = Skeleton(1)
    /\ edgeList = NoList
    /\ lastApplied = None
    /\ detached = FALSE

(* recreate_production: the container mounts what `current' names, and its *)
(* entry point copies the skeleton if there is no archive.                 *)
ContainerStarts ==
    /\ Exists(current)
    /\ served' = current
    /\ archive' = IF archive = NoArchive THEN Skeleton(current) ELSE archive

(* The host loses power: /run is empty, and the container starts again     *)
(* unless it was stopped (restart: unless-stopped).                        *)
HostReboots ==
    /\ edgeList' = NoList
    /\ lastApplied' = None
    /\ detached' = FALSE
    /\ \/ /\ served # None /\ Exists(current)
          /\ served' = current
          /\ archive' = Skeleton(current)
       \/ /\ served = None \/ ~Exists(current)
          /\ served' = None
          /\ archive' = NoArchive
    /\ UNCHANGED <<dirs, current>>
================================================================================
