---------------------------- MODULE TrafficUpdater ----------------------------
(***************************************************************************)
(* deploy/valhalla/traffic-update.py, run once a minute by a systemd timer *)
(* (one instance at a time): it asks SIM for live speeds, maps them to the *)
(* edges of the routing graph, and writes them into the traffic archive in *)
(* place. applied-edges.json lists the records it may have set, so that    *)
(* the next run can clear them.                                            *)
(*                                                                         *)
(* A run is a record: the next step (pc) and its local variables. Between  *)
(* any two steps the release script may switch the graph, and the run may  *)
(* be killed (TimeoutStartSec, MemoryMax).                                 *)
(*                                                                         *)
(* Abstractions: a data set is its release; the static revision is left    *)
(* out, a change of it is a refetch that fails; the flows of a feed that   *)
(* are fresh and mapped are any subset of the edges of the map; time is    *)
(* one flag, `aged': the speeds applied last are older than the maximum.   *)
(***************************************************************************)
EXTENDS ValhallaRuntime

CONSTANTS
    MaxRuns,    \* bounds of the exploration: runs that do anything,
    MaxKills    \*   and runs killed

ASSUME UpdaterAssumption == MaxRuns \in Nat /\ MaxKills \in Nat

VARIABLES
    feed,       \* what SIM answers: "speeds", "idle" (204) or "down"
    changed,    \* the feed has a revision that has not been applied
    aged,       \* the speeds applied last are older than TRAFFIC_MAX_AGE
    maps,       \* the cached maps: <<data set it is filed under, graph traced>>
    upd,        \* the run under way
    lost,       \* history: records of a list that was cut short or removed
    bounds      \* what is left of the exploration bounds

updaterVars == <<feed, changed, aged, maps, upd, lost, bounds>>

Resting == [pc |-> "idle", dataset |-> None, mapped |-> None, copy |-> None,
            previous |-> {}, speeds |-> {}]
UpdaterSteps == {"trace", "refetch", "archive", "replace", "superset", "wipe",
                 "write", "list", "report", "unlink"}

UpdaterTypeOK ==
    /\ feed \in {"speeds", "idle", "down"}
    /\ {changed, aged} \subseteq BOOLEAN
    /\ lost \subseteq Edges
    /\ maps \subseteq Releases \X (Releases \cup {None})
    /\ upd \in [pc: {"idle"} \cup UpdaterSteps, dataset: Releases \cup {None},
                mapped: Releases \cup {None}, copy: Releases \cup {None},
                previous: SUBSET Edges, speeds: SUBSET Edges]
    /\ bounds \in [runs: 0..MaxRuns, kills: 0..MaxKills]

UpdaterInit ==
    /\ feed = "speeds" /\ changed = TRUE /\ aged = FALSE
    /\ maps = {}
    /\ upd = Resting
    /\ lost = {}
    /\ bounds \in [runs: 0..MaxRuns, kills: 0..MaxKills]

-----------------------------------------------------------------------------
AtStep(step) == upd.pc = step
Then(step) == upd' = [upd EXCEPT !.pc = step]
Ends == upd' = Resting

Mapped(d) == \E g \in Releases \cup {None} : <<d, g>> \in maps
MapOf(d) == CHOOSE g \in Releases \cup {None} : <<d, g>> \in maps

(* read_previous_edges: a list that is missing or cut short is empty. *)
read_previous_edges == edgeList.edges

HistoryKept == UNCHANGED <<feed, changed, lost, bounds>>
FilesKept == UNCHANGED <<archive, edgeList, lastApplied, detached>>

(* run: with speeds, and a Valhalla that answers /status, nothing is done  *)
(* only if this data set and revision were applied and all files exist.    *)
RunBegins ==
    /\ AtStep("idle")
    /\ feed = "speeds"
    /\ served # None
    /\ ~(/\ Mapped(served) /\ archive # NoArchive /\ edgeList.there
         /\ lastApplied = served /\ ~changed)
    /\ bounds.runs > 0
    /\ bounds' = [bounds EXCEPT !.runs = @ - 1]
    /\ upd' = IF Mapped(served)
              THEN [Resting EXCEPT !.pc = "archive", !.dataset = served,
                                   !.mapped = MapOf(served)]
              ELSE [Resting EXCEPT !.pc = "trace", !.dataset = served]
    /\ FilesKept
    /\ UNCHANGED <<feed, changed, aged, maps, lost>>

(* clear_expired_runtime, when the lease is not active. *)
ClearBegins ==
    /\ AtStep("idle")
    /\ feed = "idle"
    /\ archive # NoArchive /\ edgeList.there /\ aged
    /\ bounds.runs > 0
    /\ bounds' = [bounds EXCEPT !.runs = @ - 1]
    /\ upd' = [Resting EXCEPT !.pc = "superset"]
    /\ FilesKept
    /\ UNCHANGED <<feed, changed, aged, maps, lost>>

(* build_mapping: each segment is traced on the graph served at that time; *)
(* a trace that fails counts as a segment without edges. The map is filed  *)
(* under the data set the run began with.                                  *)
build_mapping ==
    /\ AtStep("trace")
    /\ feed = "speeds"
    /\ \E g \in {served, None} :
          /\ maps' = maps \cup {<<upd.dataset, g>>}
          /\ upd' = [upd EXCEPT !.pc = "refetch", !.mapped = g]
    /\ FilesKept /\ HistoryKept
    /\ UNCHANGED aged

RefetchAfterMapping ==
    /\ AtStep("refetch")
    /\ feed = "speeds"
    /\ Then("archive")
    /\ FilesKept /\ HistoryKept
    /\ UNCHANGED <<aged, maps>>

(* ensure_runtime_archive: the copy of the skeleton takes a while, then it *)
(* replaces whatever archive is there by then.                             *)
ensure_runtime_archive ==
    /\ AtStep("archive")
    /\ \/ /\ archive # NoArchive
          /\ Then("superset")
       \/ /\ archive = NoArchive /\ Exists(current)
          /\ upd' = [upd EXCEPT !.pc = "replace", !.copy = current]
    /\ FilesKept /\ HistoryKept
    /\ UNCHANGED <<aged, maps>>

ReplaceArchive ==
    /\ AtStep("replace")
    /\ archive' = Skeleton(upd.copy)
    /\ upd' = [upd EXCEPT !.pc = "superset", !.copy = None]
    /\ lost' = {}
    /\ UNCHANGED <<feed, changed, bounds>>
    /\ UNCHANGED <<edgeList, lastApplied, detached, aged, maps>>

\* Mutant: the list names the new records only.
WriteNewOnly ==
    /\ AtStep("superset")
    /\ archive # NoArchive
    /\ \E speeds \in SUBSET (Edges \cap {upd.mapped}) :
          /\ upd' = [upd EXCEPT !.pc = "wipe", !.previous = read_previous_edges,
                                !.speeds = speeds]
          /\ edgeList' = ListOf(speeds)
    /\ detached' = FALSE
    /\ aged' = (aged /\ lastApplied # None)
    /\ HistoryKept
    /\ UNCHANGED <<archive, lastApplied, maps>>

(* current_edge_speeds, then apply_speeds under update.lock: the list of   *)
(* all records that may be set from now on is written before the archive   *)
(* is opened. Without last-applied.json the age is that of the list.       *)
WriteSuperset ==
    /\ AtStep("superset")
    /\ archive # NoArchive
    /\ \E speeds \in SUBSET (Edges \cap {upd.mapped}) :
          /\ upd' = [upd EXCEPT !.pc = "wipe", !.previous = read_previous_edges,
                                !.speeds = speeds]
          /\ edgeList' = ListOf(read_previous_edges \cup speeds)
    /\ detached' = FALSE
    /\ aged' = (aged /\ lastApplied # None)
    /\ HistoryKept
    /\ UNCHANGED <<archive, lastApplied, maps>>

Rewrite(S) == archive' = IF detached THEN archive ELSE [archive EXCEPT !.set = S]

ClearPrevious ==
    /\ AtStep("wipe")
    /\ archive # NoArchive
    /\ Rewrite(archive.set \ upd.previous)
    /\ Then("write")
    /\ HistoryKept
    /\ UNCHANGED <<edgeList, lastApplied, detached, aged, maps>>

WriteSpeeds ==
    /\ AtStep("write")
    /\ Rewrite(archive.set \cup upd.speeds)
    /\ Then("list")
    /\ HistoryKept
    /\ UNCHANGED <<edgeList, lastApplied, detached, aged, maps>>

WriteList ==
    /\ AtStep("list")
    /\ edgeList' = ListOf(upd.speeds)
    /\ IF upd.dataset = None THEN Then("unlink") ELSE Then("report")
    /\ aged' = (aged /\ lastApplied # None)
    /\ HistoryKept
    /\ UNCHANGED <<archive, lastApplied, detached, maps>>

(* post_report comes before last-applied.json: a report that fails leaves  *)
(* the revision to be applied again.                                       *)
ReportAndRemember ==
    /\ AtStep("report")
    /\ feed # "down"
    /\ lastApplied' = upd.dataset
    /\ changed' = FALSE
    /\ aged' = FALSE
    /\ Ends
    /\ UNCHANGED <<archive, edgeList, detached, feed, maps, lost, bounds>>

UnlinkRevision ==
    /\ AtStep("unlink")
    /\ lastApplied' = None
    /\ Ends
    /\ HistoryKept
    /\ UNCHANGED <<archive, edgeList, detached, aged, maps>>

(* An exception ends the run: the feed is gone or idle at a refetch, the   *)
(* report fails, a file is missing.                                        *)
RunFails ==
    /\ \/ AtStep("trace") /\ feed # "speeds"
       \/ AtStep("refetch") /\ feed # "speeds"
       \/ AtStep("archive") /\ archive = NoArchive /\ ~Exists(current)
       \/ AtStep("superset") /\ archive = NoArchive
       \/ AtStep("wipe") /\ archive = NoArchive
       \/ AtStep("report") /\ feed = "down"
    /\ Ends
    /\ FilesKept /\ HistoryKept
    /\ UNCHANGED <<aged, maps>>

(* Killed, possibly while write_text has cut the list and not refilled it. *)
RunKilled ==
    /\ ~AtStep("idle")
    /\ bounds.kills > 0
    /\ bounds' = [bounds EXCEPT !.kills = @ - 1]
    /\ Ends
    /\ \/ UNCHANGED <<edgeList, lost>>
       \/ /\ \/ AtStep("superset") /\ archive # NoArchive
             \/ AtStep("list")
          /\ edgeList' = ListOf({})
          /\ lost' = lost \cup edgeList.edges
    /\ UNCHANGED <<archive, lastApplied, detached, feed, changed, aged, maps>>

(* SIM and time: a new revision, a lease that expires, an outage, speeds *)
(* that grow old. (Explored while a run may still see it.)               *)
FeedChanges ==
    /\ bounds.runs > 0 \/ ~AtStep("idle")
    /\ \/ /\ \E f \in {"speeds", "idle", "down"} : feed' = f
          /\ changed' \in {changed, TRUE}
          /\ UNCHANGED aged
       \/ /\ aged' = edgeList.there
          /\ UNCHANGED <<feed, changed>>
    /\ FilesKept
    /\ UNCHANGED <<maps, upd, lost, bounds>>

UpdaterStep ==
    \/ build_mapping \/ RefetchAfterMapping
    \/ ensure_runtime_archive \/ ReplaceArchive
    \/ WriteSuperset \/ ClearPrevious \/ WriteSpeeds \/ WriteList
    \/ ReportAndRemember \/ UnlinkRevision \/ RunFails

UpdaterNext ==
    /\ RunBegins \/ ClearBegins \/ UpdaterStep \/ RunKilled \/ FeedChanges
    /\ UNCHANGED <<dirs, current, served>>
================================================================================
