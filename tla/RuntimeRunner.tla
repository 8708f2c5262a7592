----------------------------- MODULE RuntimeRunner -----------------------------
(***************************************************************************)
(* RuntimeRunner of apps/simulator-api/src/runtime-runner.ts together with *)
(* the scenario routes of app.ts and the JsonStore they share: the life    *)
(* cycle of the scenarios, the one runtime record, the interval timer and  *)
(* the ticks it starts.                                                    *)
(*                                                                         *)
(* Code between two awaits is one step. The awaits that matter are those   *)
(* on the publisher (publishTick, retryDueQueue), which may take long or   *)
(* throw, and those on JsonStore.save. A route call that awaits            *)
(* publishTick occupies a slot; the scheduled tick has its own.            *)
(*                                                                         *)
(* A scenario is an object of the store's array, and PATCH replaces that   *)
(* object while calls under way keep the one they found. So a scenario has *)
(* versions, each with its status, and a call holds a version. An id is a  *)
(* randomUUID: a deleted one is never used again.                          *)
(*                                                                         *)
(* Abstractions: a tick generates one event; speed and interval are left   *)
(* out, so that a run lasts Duration ticks; a save writes the store in one *)
(* step and the saves still to be done are one flag, since each writes all *)
(* of the data.                                                            *)
(***************************************************************************)
EXTENDS Naturals, FiniteSets

CONSTANTS
    Scenarios,      \* scenario ids
    Stored,         \* drafts already in the store file at the first start
    Slots,          \* route calls that can await the publisher at once
    Duration,       \* ticks a run lasts
    None,           \* no scenario
    MaxCommands,    \* bounds of the exploration: route calls,
    MaxPatches,     \*   PATCH calls of one scenario,
    MaxFaults       \*   exceptions of the publisher or of a save, and crashes

ASSUME RunnerAssumption ==
    /\ None \notin Scenarios
    /\ Stored \subseteq Scenarios
    /\ Duration \in Nat
    /\ MaxCommands \in Nat
    /\ MaxPatches \in Nat
    /\ MaxFaults \in Nat

Versions == 0..MaxPatches

VARIABLES
    up,         \* the process is running
    exists,     \* scenario ids in store.data.scenarios
    current,    \* current[s]: the version the array holds
    status,     \* status[s][v]: scenario.status of version v of s
    runtime,    \* store.data.runtime
    timer,      \* the scenario the interval timer ticks, or None
    inFlight,   \* RuntimeRunner.inFlight
    tick,       \* the scheduled tick under way
    call,       \* call[c]: the route call of slot c that awaits the publisher
    unsaved,    \* a save has been called and has not written yet
    disk,       \* what the store file holds
    begun,      \* publications begun since this runtime began
    failed,     \* some publication or save has failed
    budget      \* what is left of the exploration bounds

store == <<exists, current, status>>
vars == <<up, exists, current, status, runtime, timer, inFlight, tick, call,
          unsaved, disk, begun, failed, budget>>
-----------------------------------------------------------------------------
ScenarioStatus == {"DRAFT", "READY", "RUNNING", "PAUSED", "STOPPED", "ERROR"}

NoRuntime == [scenario |-> None, state |-> "STOPPED", tick |-> 0, generated |-> 0]

Nothing == [at |-> "idle", kind |-> "none", scenario |-> None, version |-> 0, tick |-> 0]

StatusOf(s) == status[s][current[s]]

Init ==
    /\ up = TRUE
    /\ exists = Stored
    /\ current = [s \in Scenarios |-> 0]
    /\ status = [s \in Scenarios |->
         [v \in Versions |-> IF v = 0 /\ s \in Stored THEN "DRAFT" ELSE "NONE"]]
    /\ runtime = NoRuntime
    /\ timer = None
    /\ inFlight = FALSE
    /\ tick = Nothing
    /\ call = [c \in Slots |-> Nothing]
    /\ unsaved = FALSE
    /\ disk = [exists |-> Stored, current |-> current, status |-> status, runtime |-> NoRuntime]
    /\ begun = 0
    /\ failed = FALSE
    /\ budget = [command |-> MaxCommands, fault |-> MaxFaults]

Spend(kind) ==
    /\ budget[kind] > 0
    /\ budget' = [budget EXCEPT ![kind] = @ - 1]

Fail == Spend("fault") /\ failed' = TRUE

Command(s) == up /\ s \in exists /\ Spend("command")
-----------------------------------------------------------------------------
(* publishTick: the events are generated in the step that calls it; after  *)
(* the publisher returned, the runtime record is updated from its then     *)
(* current value.                                                          *)

\* Mutant: the counter is derived from the number of the tick.
CountFromTick(job) ==
    /\ runtime' = [runtime EXCEPT !.scenario = job.scenario,
                                  !.state = status[job.scenario][job.version],
                                  !.generated = job.tick + 1,
                                  !.tick = job.tick]

Published(job) ==
    /\ runtime' = [runtime EXCEPT !.scenario = job.scenario,
                                  !.state = status[job.scenario][job.version],
                                  !.generated = @ + 1,
                                  !.tick = job.tick]

\* A fresh runtime record, as start and reset make it.
NewRuntime(s, state) ==
    runtime' = [scenario |-> s, state |-> state, tick |-> 0, generated |-> 0]
-----------------------------------------------------------------------------
(* Route calls of app.ts.                                                  *)

create ==
    /\ up
    /\ Spend("command")
    /\ \E s \in Scenarios :
         /\ StatusOf(s) = "NONE"
         /\ exists' = exists \cup {s}
         /\ status' = [status EXCEPT ![s][current[s]] = "DRAFT"]
    /\ unsaved' = TRUE
    /\ UNCHANGED <<up, current, runtime, timer, inFlight, tick, call, disk, begun, failed>>

\* Mutant: the new object does not take over the status.
PatchDropsStatus(s) ==
    /\ Command(s)
    /\ current[s] < MaxPatches
    /\ current' = [current EXCEPT ![s] = @ + 1]
    /\ unsaved' = TRUE
    /\ UNCHANGED <<up, exists, status, runtime, timer, inFlight, tick, call, disk, begun, failed>>

\* PATCH puts a new object with the old status in the array.
patch(s) ==
    /\ Command(s)
    /\ current[s] < MaxPatches
    /\ current' = [current EXCEPT ![s] = @ + 1]
    /\ status' = [status EXCEPT ![s][current[s] + 1] = StatusOf(s)]
    /\ unsaved' = TRUE
    /\ UNCHANGED <<up, exists, runtime, timer, inFlight, tick, call, disk, begun, failed>>

delete(s) ==
    /\ Command(s)
    /\ StatusOf(s) \notin {"RUNNING", "PAUSED"}
    /\ exists' = exists \ {s}
    /\ unsaved' = TRUE
    /\ UNCHANGED <<up, current, status, runtime, timer, inFlight, tick, call, disk, begun, failed>>

\* start and stopOtherScenarios, up to the await of publishTick(scenario, 0).
start(c, s) ==
    /\ Command(s)
    /\ call[c] = Nothing
    /\ timer' = None
    /\ status' = [o \in Scenarios |->
         IF o = s THEN [status[s] EXCEPT ![current[s]] = "RUNNING"]
         ELSE IF o \in exists /\ StatusOf(o) \in {"RUNNING", "PAUSED"}
              THEN [status[o] EXCEPT ![current[o]] = "STOPPED"]
              ELSE status[o]]
    /\ NewRuntime(s, "RUNNING")
    /\ call' = [call EXCEPT ![c] = [at |-> "publish", kind |-> "start", scenario |-> s,
                                    version |-> current[s], tick |-> 0]]
    /\ begun' = 1
    /\ UNCHANGED <<up, exists, current, inFlight, tick, unsaved, disk, failed>>

\* The rest of start: schedule, whatever happened meanwhile, and save.
startReturns(c) ==
    /\ up
    /\ call[c].kind = "start"
    /\ Published(call[c])
    /\ timer' = call[c].scenario
    /\ call' = [call EXCEPT ![c] = Nothing]
    /\ unsaved' = TRUE
    /\ UNCHANGED <<up, store, inFlight, tick, disk, begun, budget, failed>>

step(c, s) ==
    /\ Command(s)
    /\ call[c] = Nothing
    /\ call' = [call EXCEPT ![c] = [at |-> "publish", kind |-> "step", scenario |-> s,
                                    version |-> current[s], tick |-> runtime.tick + 1]]
    /\ begun' = begun + 1
    /\ UNCHANGED <<up, store, runtime, timer, inFlight, tick, unsaved, disk, failed>>

stepReturns(c) ==
    /\ up
    /\ call[c].kind = "step"
    /\ Published(call[c])
    /\ call' = [call EXCEPT ![c] = Nothing]
    /\ unsaved' = TRUE
    /\ UNCHANGED <<up, store, timer, inFlight, tick, disk, begun, budget, failed>>

\* The publisher throws: the route answers 500 and nothing is undone.
callThrows(c) ==
    /\ up
    /\ call[c] # Nothing
    /\ Fail
    /\ call' = [call EXCEPT ![c] = Nothing]
    /\ UNCHANGED <<up, store, runtime, timer, inFlight, tick, unsaved, disk, begun>>

SetStatus(s, v, st) == status' = [status EXCEPT ![s][v] = st]

pause(s) ==
    /\ Command(s)
    /\ timer' = None
    /\ SetStatus(s, current[s], "PAUSED")
    /\ runtime' = [runtime EXCEPT !.scenario = s, !.state = "PAUSED"]
    /\ unsaved' = TRUE
    /\ UNCHANGED <<up, exists, current, inFlight, tick, call, disk, begun, failed>>

resume(s) ==
    /\ Command(s)
    /\ timer' = s
    /\ SetStatus(s, current[s], "RUNNING")
    /\ runtime' = [runtime EXCEPT !.scenario = s, !.state = "RUNNING"]
    /\ unsaved' = TRUE
    /\ UNCHANGED <<up, exists, current, inFlight, tick, call, disk, begun, failed>>

StopScenario(s) ==
    /\ timer' = None
    /\ SetStatus(s, current[s], "STOPPED")
    /\ runtime' = [runtime EXCEPT !.scenario = s, !.state = "STOPPED"]
    /\ unsaved' = TRUE

stop(s) ==
    /\ Command(s)
    /\ StopScenario(s)
    /\ UNCHANGED <<up, exists, current, inFlight, tick, call, disk, begun, failed>>

reset(s) ==
    /\ Command(s)
    /\ timer' = None
    /\ SetStatus(s, current[s], "READY")
    /\ NewRuntime(s, "READY")
    /\ begun' = 0
    /\ unsaved' = TRUE
    /\ UNCHANGED <<up, exists, current, inFlight, tick, call, disk, failed>>
-----------------------------------------------------------------------------
(* runScheduledTick.                                                       *)

TimerDue == up /\ timer # None /\ ~inFlight /\ runtime.state = "RUNNING"

tickScenarioGone ==
    /\ TimerDue
    /\ timer \notin exists
    /\ timer' = None
    /\ runtime' = [runtime EXCEPT !.scenario = timer, !.state = "ERROR"]
    /\ unsaved' = TRUE
    /\ UNCHANGED <<up, store, inFlight, tick, call, disk, begun, budget, failed>>

tickEndsRun ==
    /\ TimerDue
    /\ timer \in exists
    /\ runtime.tick + 1 > Duration
    /\ StopScenario(timer)
    /\ UNCHANGED <<up, exists, current, inFlight, tick, call, disk, begun, budget, failed>>

\* The number of the tick is fixed here, before the await of retryDueQueue.
tickBegins ==
    /\ TimerDue
    /\ timer \in exists
    /\ runtime.tick + 1 <= Duration
    /\ inFlight' = TRUE
    /\ tick' = [at |-> "retry", kind |-> "tick", scenario |-> timer,
                version |-> current[timer], tick |-> runtime.tick + 1]
    /\ UNCHANGED <<up, store, runtime, timer, call, unsaved, disk, begun, budget, failed>>

tickRetried ==
    /\ up
    /\ tick.at = "retry"
    /\ tick' = [tick EXCEPT !.at = "publish"]
    /\ begun' = begun + 1
    /\ UNCHANGED <<up, store, runtime, timer, inFlight, call, unsaved, disk, budget, failed>>

tickPublished ==
    /\ up
    /\ tick.at = "publish"
    /\ Published(tick)
    /\ tick' = [tick EXCEPT !.at = "save"]
    /\ UNCHANGED <<up, store, timer, inFlight, call, unsaved, disk, begun, budget, failed>>

\* The catch block: no more ticks, and the error is saved in turn.
tickThrows ==
    /\ up
    /\ tick.at \in {"retry", "publish", "save"}
    /\ Fail
    /\ timer' = None
    /\ SetStatus(tick.scenario, tick.version, "ERROR")
    /\ runtime' = [runtime EXCEPT !.scenario = tick.scenario, !.state = "ERROR"]
    /\ tick' = [tick EXCEPT !.at = "saveError"]
    /\ UNCHANGED <<up, exists, current, inFlight, call, unsaved, disk, begun>>

Snapshot == [exists |-> exists, current |-> current, status |-> status, runtime |-> runtime]

\* Mutant: only the error path is saved.
SavesErrorsOnly ==
    /\ up
    /\ tick.at \in {"save", "saveError"}
    /\ disk' = IF tick.at = "saveError" THEN Snapshot ELSE disk
    /\ tick' = Nothing
    /\ inFlight' = FALSE
    /\ UNCHANGED <<up, store, runtime, timer, call, unsaved, begun, budget, failed>>

\* Mutant: inFlight is reset after a good tick only.
FailureKeepsInFlight ==
    /\ up
    /\ tick.at \in {"save", "saveError"}
    /\ disk' = Snapshot
    /\ tick' = Nothing
    /\ inFlight' = (tick.at = "saveError")
    /\ UNCHANGED <<up, store, runtime, timer, call, unsaved, begun, budget, failed>>

\* The finally block.
tickReturns ==
    /\ up
    /\ tick.at \in {"save", "saveError"}
    /\ disk' = Snapshot
    /\ tick' = Nothing
    /\ inFlight' = FALSE
    /\ UNCHANGED <<up, store, runtime, timer, call, unsaved, begun, budget, failed>>
-----------------------------------------------------------------------------
(* The store, a crash, and the start of the service.                       *)

save ==
    /\ up
    /\ unsaved
    /\ disk' = Snapshot
    /\ unsaved' = FALSE
    /\ UNCHANGED <<up, store, runtime, timer, inFlight, tick, call, begun, budget, failed>>

\* A save that rejects: the route answers 500, memory keeps what it has.
saveThrows ==
    /\ up
    /\ unsaved
    /\ Fail
    /\ unsaved' = FALSE
    /\ UNCHANGED <<up, store, runtime, timer, inFlight, tick, call, disk, begun>>

\* A second failing save in the catch block is an unhandled rejection, which
\* ends the process: a crash like any other.
crash ==
    /\ up
    /\ Spend("fault") /\ UNCHANGED failed
    /\ up' = FALSE
    /\ timer' = None
    /\ inFlight' = FALSE
    /\ tick' = Nothing
    /\ call' = [c \in Slots |-> Nothing]
    /\ unsaved' = FALSE
    /\ UNCHANGED <<store, runtime, disk, begun>>

\* JsonStore.load, then recover.
recover ==
    /\ ~up
    /\ up' = TRUE
    /\ exists' = disk.exists
    /\ current' = disk.current
    /\ LET r == disk.runtime
           alive == r.state \in {"RUNNING", "PAUSED"}
       IN \/ /\ ~alive
             /\ runtime' = r
             /\ status' = disk.status
             /\ UNCHANGED <<timer, unsaved>>
          \/ /\ alive /\ r.scenario \notin disk.exists
             /\ runtime' = [r EXCEPT !.state = "ERROR"]
             /\ status' = disk.status
             /\ unsaved' = TRUE
             /\ UNCHANGED timer
          \/ /\ alive /\ r.scenario \in disk.exists
             /\ runtime' = r
             /\ status' = [disk.status EXCEPT ![r.scenario][disk.current[r.scenario]] = r.state]
             /\ timer' = IF r.state = "RUNNING" THEN r.scenario ELSE None
             /\ unsaved' = TRUE
    /\ begun' = disk.runtime.generated
    /\ UNCHANGED <<inFlight, tick, call, disk, budget, failed>>
-----------------------------------------------------------------------------
TickProcess ==
    \/ tickScenarioGone
    \/ tickEndsRun
    \/ tickBegins
    \/ tickRetried
    \/ tickPublished
    \/ tickReturns

CallReturns(c) == startReturns(c) \/ stepReturns(c)

Route(s) ==
    \/ patch(s)
    \/ delete(s)
    \/ pause(s)
    \/ resume(s)
    \/ stop(s)
    \/ reset(s)
    \/ \E c \in Slots : start(c, s) \/ step(c, s)

Next ==
    \/ create
    \/ \E s \in Scenarios : Route(s)
    \/ \E c \in Slots : CallReturns(c) \/ callThrows(c)
    \/ TickProcess
    \/ tickThrows
    \/ save
    \/ saveThrows
    \/ crash
    \/ recover

Spec == Init /\ [][Next]_vars

\* setInterval keeps firing; publishEvents and retryDueQueue end (each request
\* has a timeout) and so do writes; a crashed service is restarted. Commands,
\* failures and crashes may or may not happen.
Fairness ==
    /\ WF_vars(TickProcess)
    /\ \A c \in Slots : WF_vars(CallReturns(c))
    /\ WF_vars(save)
    /\ WF_vars(recover)

FairSpec == Spec /\ Fairness
-----------------------------------------------------------------------------
(* Properties.                                                             *)

Job == [at : {"idle", "retry", "publish", "save", "saveError"},
        kind : {"none", "start", "step", "tick"},
        scenario : Scenarios \cup {None}, version : Versions, tick : Nat]

Runtime == [scenario : Scenarios \cup {None}, state : ScenarioStatus,
            tick : Nat, generated : Nat]

TypeOK ==
    /\ up \in BOOLEAN
    /\ exists \subseteq Scenarios
    /\ current \in [Scenarios -> Versions]
    /\ status \in [Scenarios -> [Versions -> ScenarioStatus \cup {"NONE"}]]
    /\ \A s \in exists : StatusOf(s) # "NONE"
    /\ runtime \in Runtime
    /\ timer \in Scenarios \cup {None}
    /\ inFlight \in BOOLEAN
    /\ tick \in Job
    /\ call \in [Slots -> Job]
    /\ unsaved \in BOOLEAN
    /\ disk \in [exists : SUBSET Scenarios, current : [Scenarios -> Versions],
                 status : [Scenarios -> [Versions -> ScenarioStatus \cup {"NONE"}]],
                 runtime : Runtime]
    /\ begun \in Nat
    /\ failed \in BOOLEAN
    /\ budget \in [{"command", "fault"} -> Nat]

\* The publications of the scheduled tick and of the routes under way.
UnderWay ==
    Cardinality({c \in Slots : call[c].at = "publish"})
        + IF tick.at = "publish" THEN 1 ELSE 0

\* Ticks, steps and starts that overlap lose no count: unless one failed,
\* generatedEvents holds every publication begun since the runtime began but
\* those still under way, though each was awaited while others changed the
\* record (publishTick reads currentStatus again after its await).
NoCountLost == up /\ ~failed => begun <= runtime.generated + UnderWay

\* When every call has returned and no save or publication failed, the store
\* file holds what memory holds: whatever order the calls and ticks came in,
\* a crash from then on loses nothing.
QuietIsPersisted ==
    /\ up /\ ~unsaved
    /\ tick = Nothing /\ call = [c \in Slots |-> Nothing]
    /\ ~failed
    => disk = Snapshot

\* A run that has a timer comes to an end: overlapping steps, replaced or
\* deleted scenarios, failing ticks and crashes never leave the timer firing
\* for ever, with every tick skipped or the same tick again and again.
RunEnds ==
    (up /\ timer # None /\ runtime.state = "RUNNING")
        ~> (up /\ (runtime.state # "RUNNING" \/ timer = None))

\* docs/simulation/01_SIMULATION_MODEL.md:38 says the consecutive points of an
\* object form a smooth trajectory: the scheduled tick never publishes an
\* earlier tick of the scenario than the one published before it.
TrajectoryMovesForward ==
    [][tick.at = "retry" /\ tick'.at = "publish" /\ runtime.scenario = tick.scenario
          => tick.tick >= runtime.tick]_vars

\* apps/simulator-api/test/contract.test.ts:251 "scopes published event counts
\* to the active runtime": the record counts no event of an earlier runtime,
\* so never more publications than were begun in this one.
CountsScopedToRuntime == runtime.generated <= begun
=============================================================================
