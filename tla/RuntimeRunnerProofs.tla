-------------------------- MODULE RuntimeRunnerProofs --------------------------
(***************************************************************************)
(* Why RuntimeRunner is typed, loses no count and leaves nothing unsaved,  *)
(* for any scenarios, any number of route calls at once, any length of a   *)
(* run and any number of commands, PATCH calls and faults.                 *)
(***************************************************************************)
EXTENDS RuntimeRunner, FiniteSetTheorems, TLAPS

(* A call that awaits the publisher holds a version of a scenario that has *)
(* been an object of the array: its status is what publishTick will copy   *)
(* into the runtime record after the await.                                *)
IsKnown(job) ==
    /\ job.scenario \in Scenarios
    /\ status[job.scenario][job.version] # "NONE"

CallsAreKnown ==
    \A c \in Slots :
        \/ call[c] = Nothing
        \/ /\ call[c].at = "publish"
           /\ call[c].kind \in {"start", "step"}
           /\ IsKnown(call[c])

(* The same of the scheduled tick; it is alone, because inFlight is set    *)
(* for as long as it lasts.                                                *)
TickIsKnown ==
    \/ tick = Nothing
    \/ /\ tick.at \in {"retry", "publish", "save", "saveError"}
       /\ tick.kind = "tick"
       /\ inFlight
       /\ IsKnown(tick)

(* A process that is down has neither calls nor saves to finish. *)
DownIsIdle ==
    ~up => tick = Nothing /\ call = [c \in Slots |-> Nothing] /\ ~unsaved

(* What a restart finds in the file is sound, too. *)
DiskIsSound ==
    \A s \in disk.exists : disk.status[s][disk.current[s]] # "NONE"

RunnerInv == TypeOK /\ CallsAreKnown /\ TickIsKnown /\ DownIsIdle /\ DiskIsSound

Statuses == [Scenarios -> [Versions -> ScenarioStatus \cup {"NONE"}]]

-----------------------------------------------------------------------------
LEMMA VersionZero == 0 \in Versions
  BY RunnerAssumption DEF Versions

LEMMA NothingIsJob == Nothing \in Job /\ Nothing.at = "idle" /\ Nothing.kind = "none"
  BY VersionZero DEF Nothing, Job

LEMMA RunnerInitial == Init => RunnerInv
<1> SUFFICES ASSUME Init PROVE RunnerInv
  OBVIOUS
<1> USE VersionZero, NothingIsJob, RunnerAssumption
<1>1. current \in [Scenarios -> Versions] /\ status \in Statuses
  BY DEF Init, Statuses, ScenarioStatus
<1>2. \A s \in exists : StatusOf(s) # "NONE"
  BY DEF Init, StatusOf
<1>3. NoRuntime \in Runtime
  BY DEF NoRuntime, Runtime, ScenarioStatus
<1>4. disk \in [exists : SUBSET Scenarios, current : [Scenarios -> Versions],
                status : Statuses, runtime : Runtime]
  BY <1>1, <1>3 DEF Init
<1>5. budget \in [{"command", "fault"} -> Nat]
  BY DEF Init
<1>6. TypeOK
  <2>1. call \in [Slots -> Job] /\ tick \in Job /\ runtime \in Runtime
    BY <1>3 DEF Init
  <2> QED
    BY <2>1, <1>1, <1>2, <1>4, <1>5 DEF Init, TypeOK, Statuses
<1>7. DiskIsSound
  BY <1>2 DEF Init, DiskIsSound, StatusOf
<1> QED
  BY <1>6, <1>7 DEF Init, RunnerInv, CallsAreKnown, TickIsKnown, DownIsIdle

(* The runtime records the actions make. *)
LEMMA PublishedTyped ==
    ASSUME RunnerInv, NEW job \in Job, IsKnown(job), Published(job)
    PROVE  runtime' \in Runtime
<1>1. job.version \in Versions /\ job.tick \in Nat /\ job.scenario \in Scenarios
  BY DEF Job, IsKnown
<1>2. status[job.scenario][job.version] \in ScenarioStatus
  BY <1>1 DEF RunnerInv, TypeOK, IsKnown
<1>3. runtime.generated + 1 \in Nat
  BY DEF RunnerInv, TypeOK, Runtime
<1> QED
  BY <1>1, <1>2, <1>3 DEF RunnerInv, TypeOK, Published, Runtime

LEMMA MarkedTyped ==
    ASSUME RunnerInv, NEW s \in Scenarios, NEW st \in ScenarioStatus,
           runtime' = [runtime EXCEPT !.scenario = s, !.state = st]
    PROVE  runtime' \in Runtime
  BY DEF RunnerInv, TypeOK, Runtime

LEMMA FreshTyped ==
    ASSUME NEW s \in Scenarios, NEW st \in ScenarioStatus, NewRuntime(s, st)
    PROVE  runtime' \in Runtime
  BY DEF NewRuntime, Runtime

(* Setting one status leaves every known version known. *)
LEMMA StatusSet ==
    ASSUME RunnerInv, NEW s \in Scenarios, NEW v \in Versions,
           NEW st \in ScenarioStatus, SetStatus(s, v, st)
    PROVE  /\ status' \in Statuses
           /\ \A t \in Scenarios, w \in Versions :
                status[t][w] # "NONE" => status'[t][w] # "NONE"
  BY DEF RunnerInv, TypeOK, Statuses, SetStatus, ScenarioStatus

(* What an action keeps that leaves the calls and the file alone, takes no *)
(* scenario away from its version, and has typed all it changes.           *)
LEMMA Kept ==
    ASSUME RunnerInv, UNCHANGED <<tick, call, disk, inFlight>>, up' = up,
           exists' \subseteq Scenarios, current' \in [Scenarios -> Versions],
           status' \in Statuses, runtime' \in Runtime,
           timer' \in Scenarios \cup {None}, unsaved' \in BOOLEAN,
           begun' \in Nat, failed' \in BOOLEAN,
           budget' \in [{"command", "fault"} -> Nat],
           \A s \in exists' : status'[s][current'[s]] # "NONE",
           \A s \in Scenarios, v \in Versions :
                status[s][v] # "NONE" => status'[s][v] # "NONE",
           up \/ ~unsaved'
    PROVE  RunnerInv'
<1>1. TypeOK'
  BY DEF RunnerInv, TypeOK, Statuses, StatusOf
<1>2. \A job \in Job : IsKnown(job) => job.scenario \in Scenarios /\ status'[job.scenario][job.version] # "NONE"
  BY DEF IsKnown, Job
<1>3. CallsAreKnown'
  BY <1>2 DEF RunnerInv, TypeOK, CallsAreKnown, IsKnown
<1>4. TickIsKnown'
  BY <1>2 DEF RunnerInv, TypeOK, TickIsKnown, IsKnown
<1>5. DownIsIdle' /\ DiskIsSound'
  BY DEF RunnerInv, DownIsIdle, DiskIsSound
<1> QED
  BY <1>1, <1>3, <1>4, <1>5 DEF RunnerInv

(* What an action keeps that begins, moves or ends a call or the tick.     *)
LEMMA JobsMoved ==
    ASSUME RunnerInv, up, up', UNCHANGED <<store, disk>>,
           timer' \in Scenarios \cup {None},
           tick' \in Job, call' \in [Slots -> Job],
           \A c \in Slots :
               \/ call'[c] = call[c] \/ call'[c] = Nothing
               \/ /\ call'[c].at = "publish"
                  /\ call'[c].kind \in {"start", "step"}
                  /\ IsKnown(call'[c]),
           \/ UNCHANGED <<tick, inFlight>> \/ tick' = Nothing
           \/ /\ tick'.at \in {"retry", "publish", "save", "saveError"}
              /\ tick'.kind = "tick"
              /\ inFlight'
              /\ IsKnown(tick'),
           runtime' \in Runtime, inFlight' \in BOOLEAN, unsaved' \in BOOLEAN,
           begun' \in Nat, failed' \in BOOLEAN,
           budget' \in [{"command", "fault"} -> Nat]
    PROVE  RunnerInv'
<1>1. TypeOK'
  BY DEF RunnerInv, TypeOK, store, StatusOf
<1>2. CallsAreKnown'
  BY DEF RunnerInv, CallsAreKnown, IsKnown, store
<1>3. TickIsKnown'
  BY DEF RunnerInv, TickIsKnown, IsKnown, store
<1>4. DownIsIdle' /\ DiskIsSound'
  BY DEF RunnerInv, DownIsIdle, DiskIsSound
<1> QED
  BY <1>1, <1>2, <1>3, <1>4 DEF RunnerInv

LEMMA BudgetTyped ==
    ASSUME RunnerInv, NEW kind \in {"command", "fault"}, Spend(kind)
    PROVE  budget' \in [{"command", "fault"} -> Nat]
  BY DEF RunnerInv, TypeOK, Spend

-----------------------------------------------------------------------------
LEMMA CreateKeeps == RunnerInv /\ create => RunnerInv'
<1> SUFFICES ASSUME RunnerInv, create PROVE RunnerInv'
  OBVIOUS
<1>1. PICK s \in Scenarios : /\ StatusOf(s) = "NONE"
                             /\ exists' = exists \cup {s}
                             /\ SetStatus(s, current[s], "DRAFT")
  BY DEF create, SetStatus
<1>2. current[s] \in Versions
  BY DEF RunnerInv, TypeOK
<1>3. status' \in Statuses /\ \A t \in Scenarios, w \in Versions :
                status[t][w] # "NONE" => status'[t][w] # "NONE"
  BY <1>1, <1>2, StatusSet DEF ScenarioStatus
<1>4. \A t \in exists' : status'[t][current'[t]] # "NONE"
  <2>1. status'[s][current[s]] = "DRAFT"
    BY <1>1, <1>2 DEF SetStatus, RunnerInv, TypeOK
  <2>2. \A t \in exists : t \in Scenarios /\ current[t] \in Versions /\ status[t][current[t]] # "NONE"
    BY DEF RunnerInv, TypeOK, StatusOf
  <2> QED
    BY <2>1, <2>2, <1>1, <1>3 DEF create
<1>5. budget' \in [{"command", "fault"} -> Nat]
  BY BudgetTyped DEF create
<1> QED
  BY <1>1, <1>3, <1>4, <1>5, Kept DEF create, RunnerInv, TypeOK

LEMMA PatchKeeps == ASSUME NEW s \in Scenarios, RunnerInv, patch(s) PROVE RunnerInv'
<1>1. current[s] \in Versions /\ current[s] + 1 \in Versions
  BY RunnerAssumption DEF RunnerInv, TypeOK, Versions, patch
<1>2. StatusOf(s) \in ScenarioStatus
  BY <1>1 DEF RunnerInv, TypeOK, patch, Command, StatusOf
<1>3. SetStatus(s, current[s] + 1, StatusOf(s))
  BY DEF patch, SetStatus
<1>4. status' \in Statuses /\ \A t \in Scenarios, w \in Versions :
                status[t][w] # "NONE" => status'[t][w] # "NONE"
  BY <1>1, <1>2, <1>3, StatusSet
<1>5. current' \in [Scenarios -> Versions] /\ current' = [current EXCEPT ![s] = current[s] + 1]
  BY <1>1 DEF RunnerInv, TypeOK, patch
<1>6. \A t \in exists' : status'[t][current'[t]] # "NONE"
  <2>1. status'[s][current[s] + 1] = StatusOf(s)
    BY <1>1, <1>3 DEF SetStatus, RunnerInv, TypeOK
  <2>2. \A t \in exists : t \in Scenarios /\ current[t] \in Versions /\ status[t][current[t]] # "NONE"
    BY DEF RunnerInv, TypeOK, StatusOf
  <2>3. StatusOf(s) # "NONE" /\ exists' = exists
    BY <1>2 DEF ScenarioStatus, patch
  <2> QED
    BY <2>1, <2>2, <2>3, <1>4, <1>5 DEF RunnerInv, TypeOK
<1>7. budget' \in [{"command", "fault"} -> Nat]
  BY BudgetTyped DEF patch, Command
<1> QED
  BY <1>4, <1>5, <1>6, <1>7, Kept DEF patch, Command, RunnerInv, TypeOK

LEMMA DeleteKeeps == ASSUME NEW s \in Scenarios, RunnerInv, delete(s) PROVE RunnerInv'
<1>1. budget' \in [{"command", "fault"} -> Nat]
  BY BudgetTyped DEF delete, Command
<1>2. \A t \in exists' : status'[t][current'[t]] # "NONE"
  BY DEF delete, RunnerInv, TypeOK, StatusOf
<1> QED
  BY <1>1, <1>2, Kept DEF delete, Command, RunnerInv, TypeOK, Statuses

(* pause, resume, stop, reset and the two ways a tick ends a run without   *)
(* publishing set one status and the record.                               *)
LEMMA MarkingKeeps ==
    ASSUME RunnerInv, NEW s \in Scenarios, NEW v \in Versions, NEW st \in ScenarioStatus,
           SetStatus(s, v, st), up, up', UNCHANGED <<tick, call, disk, inFlight, exists, current>>,
           runtime' \in Runtime, timer' \in Scenarios \cup {None},
           unsaved' \in BOOLEAN, begun' \in Nat, failed' \in BOOLEAN,
           budget' \in [{"command", "fault"} -> Nat]
    PROVE  RunnerInv'
<1>1. status' \in Statuses /\ \A t \in Scenarios, w \in Versions :
                status[t][w] # "NONE" => status'[t][w] # "NONE"
  BY StatusSet
<1>2. \A t \in exists' : status'[t][current'[t]] # "NONE"
  BY <1>1 DEF RunnerInv, TypeOK, StatusOf
<1> QED
  BY <1>1, <1>2, Kept DEF RunnerInv, TypeOK

LEMMA CommandKeeps ==
    ASSUME NEW s \in Scenarios, RunnerInv, pause(s) \/ resume(s) \/ stop(s) \/ reset(s)
    PROVE  RunnerInv'
<1>1. up /\ up' /\ budget' \in [{"command", "fault"} -> Nat]
  BY BudgetTyped DEF pause, resume, stop, reset, Command
<1>2. current[s] \in Versions /\ runtime \in Runtime
  BY DEF RunnerInv, TypeOK
<1>3. runtime' \in Runtime
  <2>1. CASE reset(s)
    BY <2>1, FreshTyped DEF reset, ScenarioStatus
  <2>2. CASE pause(s) \/ resume(s) \/ stop(s)
    BY <2>2, MarkedTyped DEF pause, resume, stop, StopScenario, ScenarioStatus
  <2> QED
    BY <2>1, <2>2
<1>4. PICK st \in {"PAUSED", "RUNNING", "STOPPED", "READY"} : SetStatus(s, current[s], st)
  BY DEF pause, resume, stop, reset, StopScenario
<1>5. /\ UNCHANGED <<tick, call, disk, inFlight, exists, current, failed>>
      /\ begun' \in {begun, 0} /\ timer' \in {None, s} /\ unsaved' = TRUE
  <2>1. CASE pause(s)
    BY <2>1 DEF pause
  <2>2. CASE resume(s)
    BY <2>2 DEF resume
  <2>3. CASE stop(s)
    BY <2>3 DEF stop, StopScenario
  <2>4. CASE reset(s)
    BY <2>4 DEF reset
  <2> QED
    BY <2>1, <2>2, <2>3, <2>4
<1>6. st \in ScenarioStatus
  BY <1>4 DEF ScenarioStatus
<1>7. failed' \in BOOLEAN /\ begun' \in Nat
  BY <1>5 DEF RunnerInv, TypeOK
<1> QED
  BY <1>1, <1>2, <1>3, <1>4, <1>5, <1>6, <1>7, MarkingKeeps

LEMMA StartKeeps ==
    ASSUME NEW s \in Scenarios, NEW c \in Slots, RunnerInv, start(c, s) PROVE RunnerInv'
<1>1. current[s] \in Versions /\ 0 \in Nat /\ 1 \in Nat
  BY DEF RunnerInv, TypeOK
<1>2. status' \in Statuses
  <2>1. \A o \in Scenarios : status[o] \in [Versions -> ScenarioStatus \cup {"NONE"}]
    BY DEF RunnerInv, TypeOK
  <2>2. \A o \in Scenarios, st \in ScenarioStatus :
          [status[o] EXCEPT ![current[o]] = st] \in [Versions -> ScenarioStatus \cup {"NONE"}]
    BY <2>1
  <2>3. "RUNNING" \in ScenarioStatus /\ "STOPPED" \in ScenarioStatus
    BY DEF ScenarioStatus
  <2> QED
    BY <2>1, <2>2, <2>3 DEF start, Statuses
<1>3. \A t \in Scenarios, w \in Versions : status[t][w] # "NONE" => status'[t][w] # "NONE"
  BY DEF start, RunnerInv, TypeOK
<1>4. status'[s][current[s]] = "RUNNING"
  BY <1>1 DEF start, RunnerInv, TypeOK
<1>5. PICK j : /\ j = [at |-> "publish", kind |-> "start", scenario |-> s,
                       version |-> current[s], tick |-> 0]
              /\ call' = [call EXCEPT ![c] = j]
  BY DEF start
<1>6. j \in Job /\ j.at = "publish" /\ j.kind = "start" /\ j.scenario = s /\ j.version = current[s]
  BY <1>1, <1>5 DEF Job
<1>7. up /\ up' /\ UNCHANGED <<exists, current, tick, disk, inFlight, unsaved, failed>>
      /\ timer' = None /\ begun' = 1
  BY DEF start, Command
<1>8. budget' \in [{"command", "fault"} -> Nat] /\ runtime' \in Runtime
  BY BudgetTyped, FreshTyped DEF start, Command, ScenarioStatus
<1>9. TypeOK'
  <2>1. \A t \in exists' : status'[t][current'[t]] # "NONE"
    BY <1>3, <1>7 DEF RunnerInv, TypeOK, StatusOf
  <2>2. call' \in [Slots -> Job]
    BY <1>5, <1>6 DEF RunnerInv, TypeOK
  <2> QED
    BY <1>1, <1>2, <1>7, <1>8, <2>1, <2>2 DEF RunnerInv, TypeOK, Statuses, StatusOf
<1>10. \A job \in Job : IsKnown(job) => job.scenario \in Scenarios /\ status'[job.scenario][job.version] # "NONE"
  BY <1>3 DEF IsKnown, Job
<1>11. CallsAreKnown'
  <2> SUFFICES ASSUME NEW d \in Slots, call'[d] # Nothing
               PROVE  /\ call'[d].at = "publish"
                      /\ call'[d].kind \in {"start", "step"}
                      /\ call'[d].scenario \in Scenarios
                      /\ status'[call'[d].scenario][call'[d].version] # "NONE"
    BY DEF CallsAreKnown, IsKnown
  <2>1. CASE d = c
    BY <2>1, <1>4, <1>5, <1>6 DEF RunnerInv, TypeOK
  <2>2. CASE d # c
    BY <2>2, <1>5, <1>10 DEF RunnerInv, TypeOK, CallsAreKnown
  <2> QED
    BY <2>1, <2>2
<1>12. TickIsKnown'
  BY <1>7, <1>10 DEF RunnerInv, TypeOK, TickIsKnown, IsKnown
<1> QED
  BY <1>7, <1>9, <1>11, <1>12 DEF RunnerInv, DownIsIdle, DiskIsSound

LEMMA StepKeeps ==
    ASSUME NEW s \in Scenarios, NEW c \in Slots, RunnerInv, step(c, s) PROVE RunnerInv'
<1>1. PICK j : /\ j = [at |-> "publish", kind |-> "step", scenario |-> s,
                       version |-> current[s], tick |-> runtime.tick + 1]
              /\ call' = [call EXCEPT ![c] = j]
  BY DEF step
<1>2. current[s] \in Versions /\ runtime.tick + 1 \in Nat /\ begun + 1 \in Nat
  BY DEF RunnerInv, TypeOK, Runtime
<1>3. j \in Job /\ j.at = "publish" /\ j.kind = "step" /\ IsKnown(j)
  BY <1>1, <1>2 DEF Job, IsKnown, RunnerInv, TypeOK, StatusOf, step, Command
<1>4. budget' \in [{"command", "fault"} -> Nat]
  BY BudgetTyped DEF step, Command
<1>5. call' \in [Slots -> Job] /\ \A d \in Slots : call'[d] = call[d] \/ call'[d] = j
  BY <1>1, <1>3 DEF RunnerInv, TypeOK
<1>6. up /\ up' /\ begun' \in Nat
      /\ UNCHANGED <<store, runtime, timer, inFlight, tick, unsaved, disk, failed>>
  BY <1>2 DEF step, Command
<1> QED
  BY <1>3, <1>4, <1>5, <1>6, JobsMoved DEF RunnerInv, TypeOK

LEMMA ReturnKeeps ==
    ASSUME NEW c \in Slots, RunnerInv, CallReturns(c) \/ callThrows(c) PROVE RunnerInv'
<1>1. call' = [call EXCEPT ![c] = Nothing]
  BY DEF CallReturns, startReturns, stepReturns, callThrows
<1>2. call' \in [Slots -> Job] /\ \A d \in Slots : call'[d] = call[d] \/ call'[d] = Nothing
  BY <1>1, NothingIsJob DEF RunnerInv, TypeOK
<1>3. CASE callThrows(c)
  <2>1. budget' \in [{"command", "fault"} -> Nat] /\ failed' \in BOOLEAN /\ up'
        /\ UNCHANGED <<store, runtime, timer, inFlight, tick, unsaved, disk, begun, up>>
    BY <1>3, BudgetTyped DEF callThrows, Fail
  <2> QED
    BY <1>2, <2>1, JobsMoved DEF RunnerInv, TypeOK
<1>4. CASE CallReturns(c)
  <2>1. /\ Published(call[c]) /\ up /\ up' /\ unsaved'
        /\ UNCHANGED <<store, inFlight, tick, disk, begun, budget, failed>>
        /\ timer' = timer \/ timer' = call[c].scenario
    BY <1>4 DEF CallReturns, startReturns, stepReturns
  <2>2. call[c] \in Job /\ IsKnown(call[c])
    BY <1>4, NothingIsJob DEF CallReturns, startReturns, stepReturns, RunnerInv, TypeOK, CallsAreKnown
  <2>3. runtime' \in Runtime
    BY <2>1, <2>2, PublishedTyped
  <2>4. timer' \in Scenarios \cup {None} /\ unsaved' \in BOOLEAN
    BY <2>1, <2>2, <1>4 DEF IsKnown, RunnerInv, TypeOK, CallReturns, startReturns, stepReturns
  <2> QED
    BY <1>2, <2>1, <2>3, <2>4, JobsMoved DEF RunnerInv, TypeOK
<1> QED
  BY <1>3, <1>4

LEMMA TickKeeps == RunnerInv /\ TickProcess => RunnerInv'
<1> SUFFICES ASSUME RunnerInv, TickProcess PROVE RunnerInv'
  OBVIOUS
<1>1. CASE tickScenarioGone
  <2>1. timer \in Scenarios /\ runtime' \in Runtime
    BY <1>1, MarkedTyped DEF tickScenarioGone, TimerDue, RunnerInv, TypeOK, ScenarioStatus
  <2> QED
    BY <1>1, <2>1, Kept DEF tickScenarioGone, TimerDue, RunnerInv, TypeOK, store, Statuses, StatusOf
<1>2. CASE tickEndsRun
  <2>1. timer \in Scenarios /\ runtime' \in Runtime /\ current[timer] \in Versions
    BY <1>2, MarkedTyped DEF tickEndsRun, StopScenario, TimerDue, RunnerInv, TypeOK, ScenarioStatus
  <2>2. SetStatus(timer, current[timer], "STOPPED") /\ "STOPPED" \in ScenarioStatus
    BY <1>2 DEF tickEndsRun, StopScenario, ScenarioStatus
  <2> QED
    BY <1>2, <2>1, <2>2, MarkingKeeps DEF tickEndsRun, StopScenario, TimerDue, RunnerInv, TypeOK
<1>3. CASE tickBegins
  <2>1. PICK j : /\ j = [at |-> "retry", kind |-> "tick", scenario |-> timer,
                         version |-> current[timer], tick |-> runtime.tick + 1]
                /\ tick' = j
    BY <1>3 DEF tickBegins
  <2>2. timer \in Scenarios /\ current[timer] \in Versions /\ runtime.tick + 1 \in Nat
        /\ status[timer][current[timer]] # "NONE"
    BY <1>3 DEF tickBegins, RunnerInv, TypeOK, Runtime, StatusOf
  <2>3. j \in Job /\ j.at = "retry" /\ j.kind = "tick" /\ IsKnown(j)
    BY <2>1, <2>2 DEF Job, IsKnown
  <2>4. up /\ up' /\ inFlight'
        /\ UNCHANGED <<store, runtime, timer, call, unsaved, disk, begun, budget, failed>>
    BY <1>3 DEF tickBegins, TimerDue
  <2> QED
    BY <2>1, <2>3, <2>4, <1>3, JobsMoved DEF RunnerInv, TypeOK, tickBegins
<1>4. CASE tickRetried
  <2>1. PICK j : j = [tick EXCEPT !.at = "publish"] /\ tick' = j
    BY <1>4 DEF tickRetried
  <2>2. tick # Nothing
    BY <1>4, NothingIsJob DEF tickRetried
  <2>3. j \in Job /\ j.at = "publish" /\ j.kind = "tick" /\ IsKnown(j) /\ inFlight
    BY <2>1, <2>2 DEF Job, IsKnown, RunnerInv, TypeOK, TickIsKnown
  <2>4. up /\ up' /\ begun' \in Nat
        /\ UNCHANGED <<store, runtime, timer, inFlight, call, unsaved, disk, budget, failed>>
    BY <1>4 DEF tickRetried, RunnerInv, TypeOK
  <2> QED
    BY <2>1, <2>3, <2>4, JobsMoved DEF RunnerInv, TypeOK
<1>5. CASE tickPublished
  <2>1. PICK j : j = [tick EXCEPT !.at = "save"] /\ tick' = j
    BY <1>5 DEF tickPublished
  <2>2. tick # Nothing /\ tick \in Job
    BY <1>5, NothingIsJob DEF tickPublished, RunnerInv, TypeOK
  <2>3. j \in Job /\ j.at = "save" /\ j.kind = "tick" /\ IsKnown(j) /\ IsKnown(tick)
        /\ inFlight
    BY <2>1, <2>2 DEF Job, IsKnown, RunnerInv, TypeOK, TickIsKnown
  <2>4. runtime' \in Runtime
    BY <1>5, <2>2, <2>3, PublishedTyped DEF tickPublished
  <2>5. up /\ up'
        /\ UNCHANGED <<store, timer, inFlight, call, unsaved, disk, begun, budget, failed>>
    BY <1>5 DEF tickPublished
  <2> QED
    BY <2>1, <2>3, <2>4, <2>5, JobsMoved DEF RunnerInv, TypeOK
<1>6. CASE tickReturns
  <2>1. up /\ up' /\ tick' = Nothing /\ inFlight' = FALSE /\ disk' = Snapshot
        /\ UNCHANGED <<store, runtime, timer, call, unsaved, begun, budget, failed>>
    BY <1>6 DEF tickReturns
  <2>2. TypeOK'
    BY <2>1, NothingIsJob DEF RunnerInv, TypeOK, store, StatusOf, Snapshot
  <2>3. DiskIsSound'
    BY <2>1 DEF DiskIsSound, RunnerInv, TypeOK, StatusOf, Snapshot
  <2> QED
    BY <2>1, <2>2, <2>3 DEF RunnerInv, CallsAreKnown, TickIsKnown, DownIsIdle, IsKnown, store
<1> QED
  BY <1>1, <1>2, <1>3, <1>4, <1>5, <1>6 DEF TickProcess

LEMMA ThrowKeeps == RunnerInv /\ tickThrows => RunnerInv'
<1> SUFFICES ASSUME RunnerInv, tickThrows PROVE RunnerInv'
  OBVIOUS
<1>1. tick # Nothing /\ tick \in Job
  BY NothingIsJob DEF tickThrows, RunnerInv, TypeOK
<1>2. tick.scenario \in Scenarios /\ tick.version \in Versions /\ tick.kind = "tick" /\ IsKnown(tick)
      /\ inFlight
  BY <1>1 DEF Job, RunnerInv, TickIsKnown, IsKnown
<1>3. SetStatus(tick.scenario, tick.version, "ERROR") /\ "ERROR" \in ScenarioStatus
  BY DEF tickThrows, ScenarioStatus
<1>4. status' \in Statuses /\ \A t \in Scenarios, w \in Versions :
                status[t][w] # "NONE" => status'[t][w] # "NONE"
  BY <1>2, <1>3, StatusSet
<1>5. runtime' \in Runtime
  BY <1>2, <1>3, MarkedTyped DEF tickThrows
<1>6. PICK j : j = [tick EXCEPT !.at = "saveError"] /\ tick' = j
  BY DEF tickThrows
<1>7. j \in Job /\ j.at = "saveError" /\ j.kind = "tick" /\ j.scenario = tick.scenario
      /\ j.version = tick.version
  BY <1>1, <1>2, <1>6 DEF Job
<1>8. up /\ up' /\ timer' = None /\ failed' = TRUE
      /\ UNCHANGED <<exists, current, inFlight, call, unsaved, disk, begun>>
  BY DEF tickThrows, Fail
<1>9. budget' \in [{"command", "fault"} -> Nat]
  BY BudgetTyped DEF tickThrows, Fail
<1>10. TypeOK'
  BY <1>4, <1>5, <1>6, <1>7, <1>8, <1>9 DEF RunnerInv, TypeOK, StatusOf, Statuses
<1>11. \A job \in Job : IsKnown(job) => job.scenario \in Scenarios /\ status'[job.scenario][job.version] # "NONE"
  BY <1>4 DEF IsKnown, Job
<1>12. CallsAreKnown'
  BY <1>8, <1>11 DEF RunnerInv, TypeOK, CallsAreKnown, IsKnown
<1>13. TickIsKnown'
  BY <1>1, <1>2, <1>6, <1>7, <1>8, <1>11 DEF TickIsKnown, IsKnown
<1> QED
  BY <1>8, <1>10, <1>12, <1>13 DEF RunnerInv, DownIsIdle, DiskIsSound

LEMMA SaveKeeps == RunnerInv /\ (save \/ saveThrows) => RunnerInv'
<1> SUFFICES ASSUME RunnerInv, save \/ saveThrows PROVE RunnerInv'
  OBVIOUS
<1>1. CASE save
  <2>1. up /\ up' /\ disk' = Snapshot /\ unsaved' = FALSE
        /\ UNCHANGED <<store, runtime, timer, inFlight, tick, call, begun, budget, failed>>
    BY <1>1 DEF save
  <2>2. TypeOK'
    BY <2>1 DEF RunnerInv, TypeOK, store, StatusOf, Snapshot
  <2>3. DiskIsSound'
    BY <2>1 DEF DiskIsSound, RunnerInv, TypeOK, StatusOf, Snapshot
  <2> QED
    BY <2>1, <2>2, <2>3 DEF RunnerInv, CallsAreKnown, TickIsKnown, DownIsIdle, IsKnown, store
<1>2. CASE saveThrows
  <2>1. budget' \in [{"command", "fault"} -> Nat]
    BY <1>2, BudgetTyped DEF saveThrows, Fail
  <2>2. up /\ up' /\ failed' = TRUE /\ unsaved' = FALSE
        /\ UNCHANGED <<store, runtime, timer, inFlight, tick, call, disk, begun>>
    BY <1>2 DEF saveThrows, Fail
  <2> QED
    BY <2>1, <2>2, JobsMoved DEF RunnerInv, TypeOK
<1> QED
  BY <1>1, <1>2

LEMMA CrashKeeps == RunnerInv /\ crash => RunnerInv'
<1> SUFFICES ASSUME RunnerInv, crash PROVE RunnerInv'
  OBVIOUS
<1>1. budget' \in [{"command", "fault"} -> Nat]
  BY BudgetTyped DEF crash
<1>2. /\ up' = FALSE /\ timer' = None /\ inFlight' = FALSE /\ tick' = Nothing
      /\ call' = [c \in Slots |-> Nothing] /\ unsaved' = FALSE
      /\ UNCHANGED <<store, runtime, disk, begun, failed>>
  BY DEF crash
<1>3. TypeOK'
  BY <1>1, <1>2, NothingIsJob DEF RunnerInv, TypeOK, store, StatusOf
<1> QED
  BY <1>2, <1>3 DEF RunnerInv, CallsAreKnown, TickIsKnown, DownIsIdle, DiskIsSound

LEMMA RecoverKeeps == RunnerInv /\ recover => RunnerInv'
<1> SUFFICES ASSUME RunnerInv, recover PROVE RunnerInv'
  OBVIOUS
<1> DEFINE r == disk.runtime
<1>1. /\ disk.exists \subseteq Scenarios /\ disk.current \in [Scenarios -> Versions]
      /\ disk.status \in Statuses /\ r \in Runtime
  BY DEF RunnerInv, TypeOK, Statuses
<1>2. /\ ~up /\ up' = TRUE /\ exists' = disk.exists /\ current' = disk.current
      /\ begun' = r.generated
      /\ UNCHANGED <<inFlight, tick, call, disk, budget, failed>>
  BY DEF recover
<1>3. /\ status' \in Statuses /\ runtime' \in Runtime
      /\ timer' \in Scenarios \cup {None} /\ unsaved' \in BOOLEAN
      /\ \A s \in Scenarios, v \in Versions : disk.status[s][v] # "NONE" => status'[s][v] # "NONE"
  <2>1. CASE r.state \notin {"RUNNING", "PAUSED"}
    BY <1>1, <2>1 DEF recover, RunnerInv, TypeOK
  <2>2. CASE r.state \in {"RUNNING", "PAUSED"} /\ r.scenario \notin disk.exists
    <3>1. status' = disk.status /\ runtime' = [r EXCEPT !.state = "ERROR"] /\ unsaved' /\ timer' = timer
      BY <2>2 DEF recover
    <3>2. runtime' \in Runtime
      BY <1>1, <3>1 DEF Runtime, ScenarioStatus
    <3> QED
      BY <1>1, <3>1, <3>2 DEF RunnerInv, TypeOK, recover
  <2>3. CASE r.state \in {"RUNNING", "PAUSED"} /\ r.scenario \in disk.exists
    <3>1. /\ status' = [disk.status EXCEPT ![r.scenario][disk.current[r.scenario]] = r.state]
          /\ runtime' = r /\ timer' \in {r.scenario, None}
      BY <2>3 DEF recover
    <3>2. r.scenario \in Scenarios /\ disk.current[r.scenario] \in Versions
          /\ r.state \in ScenarioStatus \ {"NONE"}
      BY <1>1, <2>3 DEF ScenarioStatus
    <3>3. unsaved' \in BOOLEAN
      BY <2>3 DEF recover
    <3> HIDE DEF r
    <3>4. status' \in Statuses /\ \A s \in Scenarios, v \in Versions :
             disk.status[s][v] # "NONE" => status'[s][v] # "NONE"
      BY <1>1, <3>1, <3>2 DEF Statuses
    <3> QED
      BY <1>1, <3>1, <3>2, <3>3, <3>4
  <2> QED
    BY <2>1, <2>2, <2>3
<1>4. TypeOK'
  BY <1>1, <1>2, <1>3 DEF RunnerInv, TypeOK, Statuses, StatusOf, DiskIsSound, Runtime
<1> QED
  BY <1>2, <1>4 DEF RunnerInv, CallsAreKnown, TickIsKnown, DownIsIdle, DiskIsSound

LEMMA RunnerStep == RunnerInv /\ [Next]_vars => RunnerInv'
<1> SUFFICES ASSUME RunnerInv, [Next]_vars PROVE RunnerInv'
  OBVIOUS
<1>1. CASE UNCHANGED vars
  BY <1>1 DEF vars, store, RunnerInv, TypeOK, StatusOf, CallsAreKnown, TickIsKnown,
              DownIsIdle, DiskIsSound, IsKnown
<1>2. ASSUME NEW s \in Scenarios, Route(s) PROVE RunnerInv'
  BY <1>2, PatchKeeps, DeleteKeeps, CommandKeeps, StartKeeps, StepKeeps DEF Route
<1> QED
  BY <1>1, <1>2, CreateKeeps, ReturnKeeps, TickKeeps, ThrowKeeps, SaveKeeps, CrashKeeps,
     RecoverKeeps DEF Next

LEMMA RunnerAlways == Spec => []RunnerInv
  BY RunnerInitial, RunnerStep, PTL DEF Spec

(* TypeOK, for every value of the constants: in particular no call ever    *)
(* copies the status of an object that was never in the store, though      *)
(* PATCH, DELETE and a restart replace the objects under it.               *)
THEOREM RunnerTyped == Spec => []TypeOK
<1>1. RunnerInv => TypeOK
  BY DEF RunnerInv
<1> QED
  BY <1>1, RunnerAlways, PTL

-----------------------------------------------------------------------------
LEMMA QuietInitial == Init => QuietIsPersisted
  BY DEF Init, QuietIsPersisted, Snapshot

LEMMA QuietStep == RunnerInv /\ QuietIsPersisted /\ [Next]_vars => QuietIsPersisted'
<1> SUFFICES ASSUME RunnerInv, QuietIsPersisted, [Next]_vars PROVE QuietIsPersisted'
  OBVIOUS
<1>1. CASE UNCHANGED vars
  BY <1>1 DEF vars, store, QuietIsPersisted, Snapshot
<1>2. CASE unsaved' = TRUE \/ failed' = TRUE \/ up' = FALSE
  BY <1>2 DEF QuietIsPersisted
<1>3. CASE tick' # Nothing
  BY <1>3 DEF QuietIsPersisted
<1>4. CASE disk' = Snapshot'
  BY <1>4 DEF QuietIsPersisted
<1>5. CASE create
  BY <1>2, <1>5 DEF create
<1>6. ASSUME NEW s \in Scenarios, Route(s) PROVE QuietIsPersisted'
  <2>1. CASE patch(s) \/ delete(s) \/ pause(s) \/ resume(s) \/ stop(s) \/ reset(s)
    BY <1>2, <2>1 DEF patch, delete, pause, resume, stop, StopScenario, reset
  <2>2. ASSUME NEW c \in Slots, start(c, s) \/ step(c, s) PROVE QuietIsPersisted'
    <3>1. PICK j : j.at = "publish" /\ call' = [call EXCEPT ![c] = j]
      BY <2>2 DEF start, step
    <3>2. call'[c] # Nothing
      BY <3>1, NothingIsJob DEF RunnerInv, TypeOK
    <3> QED
      BY <3>2 DEF QuietIsPersisted
  <2> QED
    BY <1>6, <2>1, <2>2 DEF Route
<1>7. ASSUME NEW c \in Slots, CallReturns(c) \/ callThrows(c) PROVE QuietIsPersisted'
  BY <1>2, <1>7 DEF CallReturns, startReturns, stepReturns, callThrows, Fail
<1>8. CASE TickProcess
  <2>1. CASE tickScenarioGone \/ tickEndsRun
    BY <1>2, <2>1 DEF tickScenarioGone, tickEndsRun, StopScenario
  <2>2. CASE tickBegins
    BY <1>3, <2>2, NothingIsJob DEF tickBegins
  <2>3. CASE tickRetried \/ tickPublished
    BY <1>3, <2>3, NothingIsJob DEF tickRetried, tickPublished, RunnerInv, TypeOK, Job
  <2>4. CASE tickReturns
    BY <1>4, <2>4 DEF tickReturns, store, Snapshot
  <2> QED
    BY <1>8, <2>1, <2>2, <2>3, <2>4 DEF TickProcess
<1>9. CASE tickThrows \/ saveThrows
  BY <1>2, <1>9 DEF tickThrows, saveThrows, Fail
<1>10. CASE save
  BY <1>4, <1>10 DEF save, store, Snapshot
<1>11. CASE crash
  BY <1>2, <1>11 DEF crash
<1>12. CASE recover
  <2>1. CASE unsaved' = TRUE
    BY <1>2, <2>1
  <2>2. CASE unsaved' # TRUE
    BY <1>4, <1>12, <2>2 DEF recover, Snapshot, RunnerInv, TypeOK
  <2> QED
    BY <2>1, <2>2
<1> QED
  BY <1>1, <1>5, <1>6, <1>7, <1>8, <1>9, <1>10, <1>11, <1>12 DEF Next

(* Whatever order calls, ticks and saves come in, once all of them have    *)
(* returned without an error the store file holds what memory holds: the   *)
(* saves that overtake each other leave nothing behind.                    *)
THEOREM NothingStaysUnsaved == Spec => []QuietIsPersisted
  BY QuietInitial, QuietStep, RunnerAlways, PTL DEF Spec

-----------------------------------------------------------------------------
(* Counting the publications under way needs finitely many of them.        *)
Publishing == {c \in Slots : call[c].at = "publish"}

LEMMA UnderWayIs ==
    ASSUME IsFiniteSet(Slots)
    PROVE  /\ IsFiniteSet(Publishing) /\ Cardinality(Publishing) \in Nat
           /\ UnderWay = Cardinality(Publishing) + (IF tick.at = "publish" THEN 1 ELSE 0)
           /\ UnderWay \in Nat
<1>1. IsFiniteSet(Publishing) /\ Cardinality(Publishing) \in Nat
  BY FS_Subset, FS_CardinalityType DEF Publishing
<1> QED
  BY <1>1 DEF UnderWay, Publishing

(* A call that begins is one more under way, one that ends one less.       *)
LEMMA OneMore ==
    ASSUME IsFiniteSet(Slots), RunnerInv, NEW c \in Slots, call[c] = Nothing,
           NEW j, j.at = "publish", call' = [call EXCEPT ![c] = j], tick' = tick
    PROVE  UnderWay' = UnderWay + 1
<1>1. Publishing' = Publishing \cup {c} /\ c \notin Publishing
  BY NothingIsJob DEF Publishing, RunnerInv, TypeOK
<1>2. Cardinality(Publishing \cup {c}) = Cardinality(Publishing) + 1
  BY <1>1, UnderWayIs, FS_AddElement
<1>3. UnderWay' = Cardinality(Publishing') + (IF tick'.at = "publish" THEN 1 ELSE 0)
  BY DEF UnderWay, Publishing
<1> QED
  BY <1>1, <1>2, <1>3, UnderWayIs

LEMMA OneLess ==
    ASSUME IsFiniteSet(Slots), RunnerInv, NEW c \in Slots, call[c] # Nothing,
           call' = [call EXCEPT ![c] = Nothing], tick' = tick
    PROVE  UnderWay = UnderWay' + 1
<1>1. Publishing' = Publishing \ {c} /\ c \in Publishing
  BY NothingIsJob DEF Publishing, RunnerInv, TypeOK, CallsAreKnown
<1>2. Cardinality(Publishing \ {c}) = Cardinality(Publishing) - 1
  BY <1>1, UnderWayIs, FS_RemoveElement
<1>3. UnderWay' = Cardinality(Publishing') + (IF tick'.at = "publish" THEN 1 ELSE 0)
  BY DEF UnderWay, Publishing
<1> QED
  BY <1>1, <1>2, <1>3, UnderWayIs

LEMMA CountStep ==
    ASSUME IsFiniteSet(Slots), RunnerInv, NoCountLost, [Next]_vars
    PROVE  NoCountLost'
<1>1. /\ UnderWay \in Nat /\ begun \in Nat /\ runtime.generated \in Nat
      /\ failed \in BOOLEAN /\ up \in BOOLEAN
  BY UnderWayIs DEF RunnerInv, TypeOK, Runtime
<1>2. ASSUME begun' = begun, runtime'.generated = runtime.generated, up,
             UNCHANGED <<tick, call, failed>>
      PROVE  NoCountLost'
  <2>1. UnderWay' = UnderWay
    BY <1>2 DEF UnderWay
  <2> QED
    BY <1>1, <1>2, <2>1 DEF NoCountLost
<1>3. ASSUME failed' = TRUE \/ up' = FALSE PROVE NoCountLost'
  BY <1>3 DEF NoCountLost
<1>4. CASE UNCHANGED vars
  BY <1>2, <1>4 DEF vars, NoCountLost
<1>5. CASE create
  BY <1>2, <1>5 DEF create
<1>6. ASSUME NEW s \in Scenarios, Route(s) PROVE NoCountLost'
  <2>1. CASE patch(s) \/ delete(s)
    BY <1>2, <2>1 DEF patch, delete, Command
  <2>2. CASE pause(s) \/ resume(s) \/ stop(s)
    <3>1. runtime'.generated = runtime.generated
      BY <2>2 DEF pause, resume, stop, StopScenario, RunnerInv, TypeOK, Runtime
    <3> QED
      BY <1>2, <2>2, <3>1 DEF pause, resume, stop, StopScenario, Command
  <2>3. CASE reset(s)
    <3>1. begun' = 0 /\ runtime'.generated = 0
      BY <2>3 DEF reset, NewRuntime
    <3>2. UnderWay' = UnderWay
      BY <2>3 DEF reset, UnderWay
    <3> QED
      BY <1>1, <3>1, <3>2 DEF NoCountLost
  <2>4. ASSUME NEW c \in Slots, start(c, s) PROVE NoCountLost'
    <3>1. PICK j : j.at = "publish" /\ call' = [call EXCEPT ![c] = j]
      BY <2>4 DEF start
    <3>2. UnderWay' = UnderWay + 1
      BY <2>4, <3>1, OneMore DEF start
    <3>3. begun' = 1 /\ runtime'.generated = 0
      BY <2>4 DEF start, NewRuntime
    <3> QED
      BY <1>1, <3>2, <3>3 DEF NoCountLost
  <2>5. ASSUME NEW c \in Slots, step(c, s) PROVE NoCountLost'
    <3>1. PICK j : j.at = "publish" /\ call' = [call EXCEPT ![c] = j]
      BY <2>5 DEF step
    <3>2. UnderWay' = UnderWay + 1
      BY <2>5, <3>1, OneMore DEF step
    <3>3. begun' = begun + 1 /\ up /\ UNCHANGED <<up, runtime, failed>>
      BY <2>5 DEF step, Command
    <3> QED
      BY <1>1, <3>2, <3>3 DEF NoCountLost
  <2> QED
    BY <1>6, <2>1, <2>2, <2>3, <2>4, <2>5 DEF Route
<1>7. ASSUME NEW c \in Slots, CallReturns(c) PROVE NoCountLost'
  <2>1. /\ call[c] # Nothing /\ call' = [call EXCEPT ![c] = Nothing] /\ Published(call[c])
        /\ up /\ UNCHANGED <<up, begun, failed, tick>>
    BY <1>7, NothingIsJob DEF CallReturns, startReturns, stepReturns
  <2>2. UnderWay = UnderWay' + 1 /\ UnderWay' \in Nat
    <3>1. UnderWay = UnderWay' + 1
      BY <2>1, OneLess
    <3>2. UnderWay' \in Nat
      <4>1. IsFiniteSet(Publishing')
        BY FS_Subset DEF Publishing
      <4> QED
        BY <4>1, FS_CardinalityType DEF UnderWay, Publishing
    <3> QED
      BY <3>1, <3>2
  <2>3. runtime'.generated = runtime.generated + 1
    BY <2>1 DEF Published, RunnerInv, TypeOK, Runtime
  <2> QED
    BY <1>1, <2>1, <2>2, <2>3 DEF NoCountLost
<1>8. CASE TickProcess
  <2>1. CASE tickScenarioGone \/ tickEndsRun
    <3>1. runtime'.generated = runtime.generated
      BY <2>1 DEF tickScenarioGone, tickEndsRun, StopScenario, RunnerInv, TypeOK, Runtime
    <3> QED
      BY <1>2, <2>1, <3>1 DEF tickScenarioGone, tickEndsRun, StopScenario, TimerDue
  <2>2. CASE tickBegins \/ tickRetried \/ tickPublished \/ tickReturns
    <3>1. UNCHANGED <<up, call, failed>> /\ up
      BY <2>2 DEF tickBegins, tickRetried, tickPublished, tickReturns, TimerDue
    <3>2. Publishing' = Publishing
      BY <3>1 DEF Publishing
    <3>3. PICK n \in Nat : n = Cardinality(Publishing) /\ n = Cardinality(Publishing')
      BY <3>2, UnderWayIs
    <3>4. /\ UnderWay = n + (IF tick.at = "publish" THEN 1 ELSE 0)
          /\ UnderWay' = n + (IF tick'.at = "publish" THEN 1 ELSE 0)
      BY <3>3 DEF UnderWay, Publishing
    <3>5. CASE tickBegins
      <4>1. tick.at = "idle" /\ tick'.at = "retry" /\ UNCHANGED <<begun, runtime>>
        BY <3>5, NothingIsJob DEF tickBegins, TimerDue, RunnerInv, TickIsKnown
      <4> QED
        BY <1>1, <3>1, <3>4, <4>1 DEF NoCountLost
    <3>6. CASE tickRetried
      <4>1. tick.at = "retry" /\ tick'.at = "publish" /\ begun' = begun + 1 /\ runtime' = runtime
        BY <3>6 DEF tickRetried, RunnerInv, TypeOK, Job
      <4> QED
        BY <1>1, <3>1, <3>3, <3>4, <4>1 DEF NoCountLost
    <3>7. CASE tickPublished
      <4>1. tick.at = "publish" /\ tick'.at = "save" /\ begun' = begun
            /\ runtime'.generated = runtime.generated + 1
        BY <3>7 DEF tickPublished, Published, RunnerInv, TypeOK, Job, Runtime
      <4> QED
        BY <1>1, <3>1, <3>3, <3>4, <4>1 DEF NoCountLost
    <3>8. CASE tickReturns
      <4>1. tick.at \in {"save", "saveError"} /\ tick'.at = "idle" /\ UNCHANGED <<begun, runtime>>
        BY <3>8, NothingIsJob DEF tickReturns
      <4> QED
        BY <1>1, <3>1, <3>4, <4>1 DEF NoCountLost
    <3> QED
      BY <2>2, <3>5, <3>6, <3>7, <3>8
  <2> QED
    BY <1>8, <2>1, <2>2 DEF TickProcess
<1>9. ASSUME NEW c \in Slots, callThrows(c) PROVE NoCountLost'
  BY <1>3, <1>9 DEF callThrows, Fail
<1>10. CASE tickThrows \/ saveThrows
  BY <1>3, <1>10 DEF tickThrows, saveThrows, Fail
<1>11. CASE save
  BY <1>2, <1>11 DEF save
<1>12. CASE crash
  BY <1>3, <1>12 DEF crash
<1>13. CASE recover
  <2>1. begun' = runtime'.generated /\ begun' \in Nat /\ UNCHANGED <<tick, call>>
    BY <1>13 DEF recover, RunnerInv, TypeOK, Runtime
  <2>2. UnderWay' = UnderWay
    BY <2>1 DEF UnderWay
  <2> QED
    BY <1>1, <2>1, <2>2 DEF NoCountLost
<1> QED
  BY <1>4, <1>5, <1>6, <1>7, <1>8, <1>9, <1>10, <1>11, <1>12, <1>13 DEF Next

(* Overlapping ticks, steps and starts lose no count, for any number of    *)
(* route calls at once (finitely many, as the processes of a machine are). *)
THEOREM EveryPublicationCounts ==
    ASSUME IsFiniteSet(Slots) PROVE Spec => []NoCountLost
<1>1. Init => NoCountLost
  <2> SUFFICES ASSUME Init PROVE begun <= runtime.generated + UnderWay
    BY DEF NoCountLost
  <2>1. Publishing = {}
    BY NothingIsJob DEF Init, Publishing
  <2>2. UnderWay = Cardinality(Publishing) + 0
    BY UnderWayIs, NothingIsJob DEF Init
  <2>3. UnderWay = 0
    BY <2>1, <2>2, FS_EmptySet
  <2> QED
    BY <2>3 DEF Init, NoRuntime
<1>2. RunnerInv /\ NoCountLost /\ [Next]_vars => NoCountLost'
  BY CountStep
<1> QED
  BY <1>1, <1>2, RunnerAlways, PTL DEF Spec
================================================================================
