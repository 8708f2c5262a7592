---------------------------- MODULE PublisherQueue ----------------------------
(***************************************************************************)
(* PublisherClient of packages/publisher-client/src/index.ts: the queue of *)
(* events the simulator delivers to the COP, its copy on disk, and every   *)
(* call that works on it.                                                  *)
(*                                                                         *)
(* The service is one Node process: code between two awaits is one step.   *)
(* A worker is a call of publishEvents, publishEvent, retryDueQueue,       *)
(* retryQueue or processItem that has not returned; several can be under   *)
(* way and they share the item objects, so each await of                   *)
(* processExistingItem (a write of the store, a request to the COP) is a   *)
(* point where the others run. pc[w][e] says at which await worker w is    *)
(* with event e.                                                           *)
(*                                                                         *)
(* Abstractions: an item is named by its event (every event gets a fresh   *)
(* randomUUID). The order of data.items is left out: which due items a     *)
(* bounded pass takes, and which delivered items the prune keeps, is any   *)
(* choice of the right size. Times are reduced to due: whether             *)
(* nextAttemptAt has passed. A write of the store is one step: it takes    *)
(* its snapshot and renames it into place, and the caller resumes.         *)
(***************************************************************************)
EXTENDS Naturals, FiniteSets

CONSTANTS
    Events,           \* the events ever published
    Workers,          \* calls that can be under way at once
    Mode,             \* config.mode
    MaxRetries,       \* config.maxRetries
    DueLimit,         \* MAX_DUE_RETRIES_PER_TICK
    Concurrency,      \* BATCH_PUBLISH_CONCURRENCY
    MaxRetained,      \* MAX_RETAINED_DELIVERED_ITEMS
    MaxCrashes,       \* bounds of the exploration: process crashes,
    MaxWriteFailures, \*   failing writes of the store,
    MaxLoadFailures,  \*   restarts that cannot read or rewrite the store,
    MaxCalls          \*   operator calls

ASSUME ConstantsAssumption ==
    /\ Mode \in {"LIVE", "MOCK", "DRY_RUN"}
    /\ MaxRetries \in Nat \ {0}
    /\ DueLimit \in Nat \ {0}
    /\ Concurrency \in Nat \ {0}
    /\ MaxRetained \in Nat
    /\ MaxCrashes \in Nat
    /\ MaxWriteFailures \in Nat
    /\ MaxLoadFailures \in Nat
    /\ MaxCalls \in Nat

VARIABLES
    up,       \* the process is running
    enabled,  \* data.publishingEnabled
    items,    \* the events whose item is in data.items
    obj,      \* obj[e]: the item object of e; a worker may hold it after a clear
    disk,     \* the store file: [items, enabled, obj]
    pass,     \* pass[w]: the call of worker w, its phase and the items it has left
    pc,       \* pc[w][e]: where worker w is in processExistingItem(e)
    admin,    \* stopPublishing, enablePublishing, clearQueue calls awaiting persist
    cop,      \* events the COP has taken
    late,     \* requests nobody waits for that may still reach the COP
    issued,   \* events ever handed to the publisher
    written,  \* events that were ever in the store file
    waived,   \* events an operator cleared, unless a crash undid the clear
    erased,   \* events in a store file that a failing load replaced
    stopped,  \* a stopPublishing call has returned and was not superseded
    budget    \* what is left of the exploration bounds

memory == <<enabled, items, obj>>
calls == <<pass, pc, admin>>
outside == <<cop, late>>
history == <<issued, written, waived, erased, stopped>>
vars == <<up, enabled, items, obj, disk, pass, pc, admin, cop, late,
          issued, written, waived, erased, stopped, budget>>
-----------------------------------------------------------------------------
QueueState == {"PENDING", "SENDING", "SENT", "RETRY_SCHEDULED", "DEAD_LETTER",
               "DRY_RUN_VALIDATED"}

NoItem == [state |-> "NONE", attempts |-> 0, due |-> FALSE]
Item == [state : QueueState \cup {"NONE"}, attempts : Nat, due : BOOLEAN]

NewItem == [state |-> "PENDING", attempts |-> 0, due |-> TRUE]

\* Mutant: dead letters count as delivered and are pruned with them.
DeadLetterIsDelivered(s) == s \in {"SENT", "DRY_RUN_VALIDATED", "DEAD_LETTER"}

isDeliveredState(s) == s \in {"SENT", "DRY_RUN_VALIDATED"}

Delivered == {e \in items : isDeliveredState(obj[e].state)}
Active == items \ Delivered

Least(a, b) == IF a < b THEN a ELSE b

\* The subsets of S that slice(0, limit) can return.
Slices(S, limit) ==
    {C \in SUBSET S : Cardinality(C) = Least(limit, Cardinality(S))}

Image(I, o, on) ==
    [items |-> I, enabled |-> on,
     obj |-> [e \in Events |-> IF e \in I THEN o[e] ELSE NoItem]]

Steps == {"idle",
          "parking",   \* persisting RETRY_SCHEDULED: publishing is stopped
          "dry",       \* persisting DRY_RUN_VALIDATED
          "claiming",  \* persisting SENDING before the request
          "sending",   \* the request has not reached the COP
          "accepted",  \* the COP took it, the answer is under way
          "duplicate", \* the COP already had it and answers 409
          "invalid",   \* the COP answers 400, 401, 403 or 422
          "storing",   \* persisting SENT
          "failing"}   \* persisting the failure

Kinds == {"none", "batch", "single", "due", "operator"}
Phases == {"idle",
           "store",   \* persisting the new items
           "work",    \* processing a chunk of a batch, or one item of another call
           "flush"}   \* a batch persisting its finished chunk
IdlePass == [kind |-> "none", phase |-> "idle", todo |-> {}]
AdminCalls == {"stop", "enable", "clear"}

Init ==
    /\ up = TRUE
    /\ enabled = TRUE
    /\ items = {}
    /\ obj = [e \in Events |-> NoItem]
    /\ disk = Image({}, [e \in Events |-> NoItem], TRUE)
    /\ pass = [w \in Workers |-> IdlePass]
    /\ pc = [w \in Workers |-> [e \in Events |-> "idle"]]
    /\ admin = {}
    /\ cop = {}
    /\ late = {}
    /\ issued = {}
    /\ written = {}
    /\ waived = {}
    /\ erased = {}
    /\ stopped = FALSE
    /\ budget = [crash |-> MaxCrashes, write |-> MaxWriteFailures,
                 load |-> MaxLoadFailures, call |-> MaxCalls]

Spend(kind) ==
    /\ budget[kind] > 0
    /\ budget' = [budget EXCEPT ![kind] = @ - 1]
-----------------------------------------------------------------------------
(* Writing the store: prune, snapshot, temporary file, rename.             *)

\* Mutant: the retention limit also cuts undelivered items.
PruneCutsActiveItems ==
    \E K \in Slices(items, MaxRetained) : items' = K

pruneRetainedItems ==
    \E K \in Slices(Delivered, MaxRetained) : items' = Active \cup K

persist ==
    /\ pruneRetainedItems
    /\ disk' = Image(items', obj, enabled)
    /\ written' = written \cup items'

\* A write that throws leaves the old file, after the prune.
persistFails ==
    /\ Spend("write")
    /\ pruneRetainedItems
    /\ UNCHANGED <<disk, written>>
-----------------------------------------------------------------------------
(* One event in processExistingItem.                                       *)

Busy(w) == {e \in Events : pc[w][e] # "idle"}
Deferred(w) == pass[w].kind = "batch"

At(w, e, step) == up /\ pc[w][e] = step

Goto(w, e, step) ==
    /\ pc' = [pc EXCEPT ![w][e] = step]
    /\ UNCHANGED pass

AllIdle == [e \in Events |-> "idle"]

Return(w) ==
    /\ pass' = [pass EXCEPT ![w] = IdlePass]
    /\ pc' = [pc EXCEPT ![w] = AllIdle]

\* In a batch processExistingItem(e) returns to Promise.all: the last one of
\* the chunk starts the write of the chunk.
FinishDeferred(w, e) ==
    /\ pc' = [pc EXCEPT ![w][e] = "idle"]
    /\ pass' = [pass EXCEPT ![w].phase = IF Busy(w) = {e} THEN "flush" ELSE @]

\* The synchronous head of processExistingItem: the new object and the await
\* it reaches; with deferPersist there is no write to wait for.
Begin(o) ==
    IF ~enabled THEN [o EXCEPT !.state = "RETRY_SCHEDULED", !.due = FALSE]
    ELSE IF Mode = "DRY_RUN" THEN [o EXCEPT !.state = "DRY_RUN_VALIDATED"]
    ELSE [o EXCEPT !.state = "SENDING", !.attempts = @ + 1]

\* Mutant: the request leaves without SENDING being stored first.
SendBeforeStore(deferred) ==
    IF enabled THEN "sending" ELSE IF deferred THEN "idle" ELSE "parking"

FirstStep(deferred) ==
    CASE ~enabled -> IF deferred THEN "idle" ELSE "parking"
      [] enabled /\ Mode = "DRY_RUN" -> IF deferred THEN "idle" ELSE "dry"
      [] enabled /\ Mode # "DRY_RUN" -> IF deferred THEN "sending" ELSE "claiming"

\* The loops over a pass: begin the next item, or the next chunk of a batch,
\* whatever state its item is in by now; return after the last one.
Proceed(w, kind, todo) ==
    \/ todo = {} /\ Return(w) /\ UNCHANGED obj
    \/ \E C \in Slices(todo, IF kind = "batch" THEN Concurrency ELSE 1) \ {{}} :
         LET step == FirstStep(kind = "batch") IN
         /\ obj' = [e \in Events |-> IF e \in C THEN Begin(obj[e]) ELSE obj[e]]
         /\ pc' = [pc EXCEPT ![w] = [e \in Events |-> IF e \in C THEN step ELSE "idle"]]
         /\ pass' = [pass EXCEPT ![w] =
                       [kind |-> kind, todo |-> todo \ C,
                        phase |-> IF step = "idle" THEN "flush" ELSE "work"]]

\* Mutant: storing a result puts the item back into data.items.
StoringReaddsItem(w, e) ==
    /\ up
    /\ pc[w][e] \in {"parking", "dry", "storing", "failing"}
    /\ items' = items \cup {e}
    /\ disk' = Image(items', obj, enabled)
    /\ written' = written \cup items'
    /\ Proceed(w, pass[w].kind, pass[w].todo)
    /\ UNCHANGED <<up, enabled, admin, outside, issued, waived, erased, stopped, budget>>

\* The write after RETRY_SCHEDULED (stopped), DRY_RUN_VALIDATED, SENT or a
\* failure was recorded: the call goes on with its next item.
ItemStored(w, e) ==
    /\ up
    /\ pc[w][e] \in {"parking", "dry", "storing", "failing"}
    /\ persist
    /\ Proceed(w, pass[w].kind, pass[w].todo)
    /\ UNCHANGED <<up, enabled, admin, outside, issued, waived, erased, stopped, budget>>

\* Outside the try block a failing write rejects the whole call: what it had
\* not reached, and the item it was at, stay as they are.
ItemNotStored(w, e) ==
    /\ up
    /\ pc[w][e] \in {"parking", "dry", "claiming", "failing"}
    /\ persistFails
    /\ Return(w)
    /\ UNCHANGED <<up, enabled, obj, admin, outside, issued, waived, erased, stopped>>

\* SENDING is on disk: the request leaves.
Claimed(w, e) ==
    /\ At(w, e, "claiming")
    /\ persist
    /\ Goto(w, e, "sending")
    /\ UNCHANGED <<up, enabled, obj, admin, outside, issued, waived, erased, stopped, budget>>

\* The COP answers: it may take a new event or refuse it as invalid; a
\* duplicate is taken again or answered with 409, as its policy goes.
CopAnswers(w, e) ==
    /\ At(w, e, "sending")
    /\ \/ cop' = cop \cup {e} /\ Goto(w, e, "accepted")
       \/ e \in cop /\ Mode = "LIVE" /\ Goto(w, e, "duplicate") /\ UNCHANGED cop
       \/ e \notin cop /\ Mode = "LIVE" /\ Goto(w, e, "invalid") /\ UNCHANGED cop
    /\ UNCHANGED <<up, memory, disk, admin, late, history, budget>>

\* Mutant: response.ok is not looked at.
AnyAnswerSucceeds(w, e) ==
    /\ up
    /\ pc[w][e] \in {"accepted", "duplicate", "invalid"}
    /\ obj' = [obj EXCEPT ![e].state = "SENT"]
    /\ IF Deferred(w) THEN FinishDeferred(w, e) ELSE Goto(w, e, "storing")
    /\ UNCHANGED <<up, enabled, items, disk, admin, outside, history, budget>>

\* A 2xx answer arrives.
SendSucceeds(w, e) ==
    /\ At(w, e, "accepted")
    /\ obj' = [obj EXCEPT ![e].state = "SENT"]
    /\ IF Deferred(w) THEN FinishDeferred(w, e) ELSE Goto(w, e, "storing")
    /\ UNCHANGED <<up, enabled, items, disk, admin, outside, history, budget>>

\* The catch block: another attempt later, or the dead letter queue.
AfterFailure(o) ==
    IF o.attempts >= MaxRetries
    THEN [o EXCEPT !.state = "DEAD_LETTER"]
    ELSE [o EXCEPT !.state = "RETRY_SCHEDULED", !.due = FALSE]

\* Network error, 10 s timeout, 5xx, or any other answer that is not ok. A
\* request given up before the COP saw it may still arrive there.
SendFails(w, e) ==
    /\ up /\ Mode = "LIVE"
    /\ \/ pc[w][e] = "sending" /\ late' \in {late, late \cup {e}}
       \/ pc[w][e] \in {"accepted", "duplicate", "invalid"} /\ UNCHANGED late
    /\ obj' = [obj EXCEPT ![e] = AfterFailure(@)]
    /\ IF Deferred(w) THEN FinishDeferred(w, e) ELSE Goto(w, e, "failing")
    /\ UNCHANGED <<up, enabled, items, disk, admin, cop, history, budget>>

\* The write of SENT is inside the try block: if it throws, the delivered
\* item is recorded as a failure.
SentNotStored(w, e) ==
    /\ At(w, e, "storing")
    /\ persistFails
    /\ obj' = [obj EXCEPT ![e] = AfterFailure(@)]
    /\ Goto(w, e, "failing")
    /\ UNCHANGED <<up, enabled, admin, outside, issued, waived, erased, stopped>>
-----------------------------------------------------------------------------
(* The calls that start a pass over some items.                            *)

Free(w) == up /\ pass[w] = IdlePass

Enqueue(w, kind, E) ==
    /\ Free(w)
    /\ pass' = [pass EXCEPT ![w] = [kind |-> kind, phase |-> "store", todo |-> E]]
    /\ items' = items \cup E
    /\ issued' = issued \cup E
    /\ obj' = [e \in Events |-> IF e \in E THEN NewItem ELSE obj[e]]
    /\ UNCHANGED <<up, enabled, disk, pc, admin, outside, written, waived, erased, stopped, budget>>

\* publishEvents creates all items before its first await.
publishEvents(w) == \E E \in SUBSET (Events \ issued) \ {{}} : Enqueue(w, "batch", E)

\* publishEvent: enqueue, then the same item as a pass of its own.
publishEvent(w) == \E e \in Events \ issued : Enqueue(w, "single", {e})

\* A write awaited by the call itself: after enqueueing, after a chunk.
PassStored(w) ==
    /\ up
    /\ pass[w].phase \in {"store", "flush"}
    /\ persist
    /\ Proceed(w, pass[w].kind, pass[w].todo)
    /\ UNCHANGED <<up, enabled, admin, outside, issued, waived, erased, stopped, budget>>

PassNotStored(w) ==
    /\ up
    /\ pass[w].phase \in {"store", "flush"}
    /\ persistFails
    /\ Return(w)
    /\ UNCHANGED <<up, enabled, obj, admin, outside, issued, waived, erased, stopped>>

\* Mutant: items that were never attempted are not retried.
DueSkipsPending == {e \in items : obj[e].state = "RETRY_SCHEDULED" /\ obj[e].due}

DueCandidates ==
    {e \in items : obj[e].state \in {"PENDING", "RETRY_SCHEDULED"} /\ obj[e].due}

\* The scheduled tick calls retryDueQueue, and RuntimeRunner.inFlight admits
\* one scheduled tick at a time. The candidates are read once, here.
retryDueQueue(w) ==
    /\ Free(w)
    /\ DueCandidates # {}
    /\ \A v \in Workers : pass[v].kind # "due"
    /\ \E C \in Slices(DueCandidates, DueLimit) : Proceed(w, "due", C)
    /\ UNCHANGED <<up, enabled, items, disk, admin, outside, history, budget>>

RetryCandidates ==
    {e \in items : obj[e].state \in {"RETRY_SCHEDULED", "DEAD_LETTER", "PENDING"}}

\* The operator's retry: the selected items, or all of them.
retryQueue(w) ==
    /\ Free(w)
    /\ Spend("call")
    /\ \E S \in SUBSET RetryCandidates \ {{}} : Proceed(w, "operator", S)
    /\ UNCHANGED <<up, enabled, items, disk, admin, outside, history>>

\* processItem looks at no state at all.
processItem(w) ==
    /\ Free(w)
    /\ Spend("call")
    /\ \E e \in items : Proceed(w, "operator", {e})
    /\ UNCHANGED <<up, enabled, items, disk, admin, outside, history>>
-----------------------------------------------------------------------------
(* Operator calls on the queue as a whole; each awaits a write.            *)

Call(a) ==
    /\ up
    /\ a \notin admin
    /\ Spend("call")
    /\ admin' = admin \cup {a}

stopPublishing ==
    /\ Call("stop")
    /\ enabled' = FALSE
    /\ UNCHANGED <<up, items, obj, disk, pass, pc, outside, history>>

enablePublishing ==
    /\ Call("enable")
    /\ enabled' = TRUE
    /\ stopped' = FALSE
    /\ UNCHANGED <<up, items, obj, disk, pass, pc, outside, issued, written, waived, erased>>

clearQueue ==
    /\ Call("clear")
    /\ items' = {}
    /\ waived' = waived \cup items
    /\ UNCHANGED <<up, enabled, obj, disk, pass, pc, outside, issued, written, erased, stopped>>

CallReturns(a) ==
    /\ up
    /\ a \in admin
    /\ persist
    /\ admin' = admin \ {a}
    /\ stopped' = IF a = "stop" THEN ~enabled ELSE stopped
    /\ UNCHANGED <<up, enabled, obj, pass, pc, outside, issued, waived, erased, budget>>

CallThrows(a) ==
    /\ up
    /\ a \in admin
    /\ persistFails
    /\ admin' = admin \ {a}
    /\ UNCHANGED <<up, enabled, obj, pass, pc, outside, issued, waived, erased, stopped>>
-----------------------------------------------------------------------------
(* The world around the queue.                                             *)

\* nextAttemptAt passes.
BecomesDue(e) ==
    /\ up
    /\ obj[e].state = "RETRY_SCHEDULED" /\ ~obj[e].due
    /\ obj' = [obj EXCEPT ![e].due = TRUE]
    /\ UNCHANGED <<up, enabled, items, disk, calls, outside, history, budget>>

\* A request its sender gave up reaches the COP after all.
LateArrival(e) ==
    /\ e \in late
    /\ late' = late \ {e}
    /\ cop' = cop \cup {e}
    /\ UNCHANGED <<up, memory, disk, calls, history, budget>>

InFlight == {e \in Events : \E w \in Workers : pc[w][e] = "sending"}

Crash ==
    /\ up
    /\ Spend("crash")
    /\ up' = FALSE
    /\ enabled' = TRUE
    /\ items' = {}
    /\ obj' = [e \in Events |-> NoItem]
    /\ pass' = [w \in Workers |-> IdlePass]
    /\ pc' = [w \in Workers |-> [e \in Events |-> "idle"]]
    /\ admin' = {}
    /\ \E L \in SUBSET InFlight : late' = late \cup L
    /\ UNCHANGED <<disk, cop, history>>

\* Mutants: interrupted sends are left as they are, or get an unknown state.
NoRecovery(o) == o
RecoverToUnknown(o) == IF o.state = "SENDING" THEN [o EXCEPT !.state = "RETRY"] ELSE o

recoverInterruptedSends(o) ==
    IF o.state = "SENDING" THEN [o EXCEPT !.state = "RETRY_SCHEDULED", !.due = TRUE] ELSE o

\* Mutant: a restart enables publishing again.
LoadForgetsStop ==
    /\ ~up
    /\ up' = TRUE
    /\ enabled' = TRUE
    /\ obj' = [e \in Events |-> recoverInterruptedSends(disk.obj[e])]
    /\ items' = disk.items
    /\ disk' = Image(items', obj', enabled')
    /\ waived' = waived \ disk.items
    /\ UNCHANGED <<calls, outside, issued, written, erased, stopped, budget>>

\* load: read the file, recover, prune, write it back. A clear that never
\* reached the file did not happen.
load ==
    /\ ~up
    /\ up' = TRUE
    /\ enabled' = disk.enabled
    /\ obj' = [e \in Events |-> recoverInterruptedSends(disk.obj[e])]
    /\ \E K \in Slices({e \in disk.items : isDeliveredState(disk.obj[e].state)}, MaxRetained) :
         items' = {e \in disk.items : ~isDeliveredState(disk.obj[e].state)} \cup K
    /\ disk' = Image(items', obj', enabled')
    /\ waived' = waived \ disk.items
    /\ UNCHANGED <<calls, outside, issued, written, erased, stopped, budget>>

\* The catch block of load: any error while reading or rewriting the file
\* replaces it by an empty queue.
loadFails ==
    /\ ~up
    /\ Spend("load")
    /\ up' = TRUE
    /\ enabled' = TRUE
    /\ items' = {}
    /\ obj' = [e \in Events |-> NoItem]
    /\ disk' = Image(items', obj', enabled')
    /\ erased' = erased \cup disk.items
    /\ UNCHANGED <<calls, outside, issued, written, waived, stopped>>
-----------------------------------------------------------------------------
ItemStep(w, e) ==
    \/ ItemStored(w, e)
    \/ Claimed(w, e)
    \/ CopAnswers(w, e)
    \/ SendSucceeds(w, e)
    \/ SendFails(w, e)

ItemFault(w, e) ==
    \/ ItemNotStored(w, e)
    \/ SentNotStored(w, e)

Publish(w) == publishEvents(w) \/ publishEvent(w)

OperatorPass(w) == retryQueue(w) \/ processItem(w)

Operator == stopPublishing \/ enablePublishing \/ clearQueue

Next ==
    \/ \E w \in Workers :
         \/ Publish(w)
         \/ retryDueQueue(w)
         \/ OperatorPass(w)
         \/ PassStored(w)
         \/ PassNotStored(w)
         \/ \E e \in Events : ItemStep(w, e) \/ ItemFault(w, e)
    \/ Operator
    \/ \E a \in AdminCalls : CallReturns(a) \/ CallThrows(a)
    \/ \E e \in Events : BecomesDue(e) \/ LateArrival(e)
    \/ Crash
    \/ load
    \/ loadFails

Spec == Init /\ [][Next]_vars

\* Writes end, a request is answered or given up (after 10 s for the head of
\* the answer, by fetch's own limit for its body), the clock moves, the runtime
\* keeps ticking (each tick calls retryDueQueue), and a crashed service is
\* restarted. Nothing is assumed of operators, publishers or faults.
Fairness ==
    /\ \A w \in Workers :
         /\ WF_vars(PassStored(w))
         /\ \A e \in Events : WF_vars(ItemStep(w, e))
    /\ WF_vars(\E w \in Workers : retryDueQueue(w))
    /\ \A e \in Events : WF_vars(BecomesDue(e))
    /\ \A a \in AdminCalls : WF_vars(CallReturns(a))
    /\ WF_vars(load)

FairSpec == Spec /\ Fairness
-----------------------------------------------------------------------------
(* Properties.                                                             *)

TypeOK ==
    /\ up \in BOOLEAN
    /\ enabled \in BOOLEAN
    /\ items \subseteq issued
    /\ obj \in [Events -> Item]
    /\ disk \in [items : SUBSET Events, enabled : BOOLEAN, obj : [Events -> Item]]
    /\ pass \in [Workers -> [kind : Kinds, phase : Phases, todo : SUBSET Events]]
    /\ pc \in [Workers -> [Events -> Steps]]
    /\ admin \subseteq AdminCalls
    /\ cop \subseteq Events
    /\ late \subseteq Events
    /\ issued \subseteq Events
    /\ written \subseteq issued
    /\ waived \subseteq Events
    /\ erased \subseteq Events
    /\ stopped \in BOOLEAN
    /\ budget \in [{"crash", "write", "load", "call"} -> Nat]

\* Whatever crashes, failing writes and concurrent passes do, an event that
\* once reached the store file is still in it until the COP has the event,
\* unless an operator cleared the queue or a failing load emptied it:
\* at-least-once delivery. A dry run has no COP to deliver to. (persist,
\* pruneRetainedItems, the order of the writes in processExistingItem.)
DurableUntilDelivered ==
    Mode # "DRY_RUN" => written \subseteq cop \cup waived \cup erased \cup disk.items

\* No request leaves before its event is in the store file, in whichever pass
\* it is sent first, also while the write of the batch it came with is still
\* pending: after a crash the publisher knows of every event the COP may have,
\* but for one cleared between its creation and its first write.
RecordedBeforeSent == InFlight \cup late \cup cop \subseteq written \cup waived

\* An item counts as delivered, in memory and in the file a restart reads,
\* only if the COP took the event, though several passes may handle the same
\* item at once and answers get lost.
DeliveredMeansTaken ==
    \A e \in Events :
        "SENT" \in {obj[e].state, disk.obj[e].state} => e \in cop

\* An item that says SENDING has a call under way that will settle it; no pass
\* ever picks such an item up again (retryQueue and retryDueQueue skip it).
SendingIsOwned ==
    \A e \in items :
        obj[e].state = "SENDING" => \E w \in Workers : pc[w][e] # "idle"

\* A cleared event that has left the file never returns to it, though passes
\* that still hold its item keep writing the store (clearQueue).
ClearedNeverReturns == [][waived \cap disk'.items \subseteq disk.items]_vars

\* Once stopPublishing has returned no further attempt is charged to any
\* item, also after a restart that can read the store; only requests under way
\* end (the check of publishingEnabled and the persisted flag).
StopHolds ==
    [][up /\ stopped => \A e \in Events : obj'[e].attempts <= obj[e].attempts]_vars

\* The events the queue still has to do something about.
Unsettled ==
    {e \in items : obj[e].state \in {"PENDING", "SENDING", "RETRY_SCHEDULED"}}

\* Every event in the queue is at last delivered, dead-lettered or cleared, or
\* publishing is stopped: crashes, lost answers, duplicate passes and a bounded
\* retry batch never leave one behind. (While the process is down nothing
\* counts as settled.)
EventuallySettled ==
    \A e \in Events : (e \in Unsettled) ~> (up /\ (e \notin Unsettled \/ ~enabled))

\* The publisher implements the abstract delivery promise: recorded, then
\* delivered; discarded only when an operator waived it.
Delivery == INSTANCE DurableDelivery WITH
    waived <- waived \cup erased,
    fate <- [e \in Events |->
                IF e \in cop THEN "delivered"
                ELSE IF e \in disk.items THEN "recorded"
                ELSE IF e \in written \cup waived \cup erased THEN "discarded"
                ELSE "absent"]
ImplementsDelivery == Delivery!DeliverySpec

\* docs/integration/03_PUBLISHER_CONTRACT.md:36 says answers of the COP that
\* report a duplicate are not taken for a loss: no event the COP has taken and
\* answered for as a duplicate ends among the undeliverable ones.
DuplicateIsNotLoss ==
    [][\A w \in Workers, e \in Events :
          pc[w][e] = "duplicate" /\ pc'[w][e] # "duplicate" /\ up'
              => obj'[e].state # "DEAD_LETTER"]_vars

\* docs/integration/03_PUBLISHER_CONTRACT.md:48 says the dead letter queue
\* keeps events that cannot be delivered automatically and leaves the retry to
\* the operator: the automatic retry never takes a dead letter up again.
DeadLetterWaitsForOperator ==
    [][\A w \in Workers, e \in Events :
          pass[w].kind = "due" /\ pc[w][e] = "idle" /\ pc'[w][e] # "idle"
              => obj[e].state # "DEAD_LETTER"]_vars
=============================================================================
