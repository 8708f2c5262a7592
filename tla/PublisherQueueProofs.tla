-------------------------- MODULE PublisherQueueProofs --------------------------
(***************************************************************************)
(* What PublisherQueue guarantees for every number of events and workers,  *)
(* every retry limit, batch size and retention limit, and any number of    *)
(* crashes, failing writes, failing restarts and operator calls.           *)
(***************************************************************************)
EXTENDS PublisherQueue, FiniteSetTheorems, TLAPS

-----------------------------------------------------------------------------
(* What the helpers of the model return.                                   *)

LEMMA SlicesAreSubsets ==
    ASSUME NEW S, NEW limit, NEW C \in Slices(S, limit)
    PROVE  C \subseteq S
BY DEF Slices

Disk == [items : SUBSET Events, enabled : BOOLEAN, obj : [Events -> Item]]

LEMMA ImageType ==
    ASSUME NEW I \in SUBSET Events, NEW o \in [Events -> Item], NEW on \in BOOLEAN
    PROVE  /\ Image(I, o, on) \in Disk
           /\ Image(I, o, on).items = I
           /\ \A e \in Events : Image(I, o, on).obj[e] \in {o[e], NoItem}
<1>1. NoItem \in Item
  BY DEF NoItem, Item
<1>2. [e \in Events |-> IF e \in I THEN o[e] ELSE NoItem] \in [Events -> Item]
  BY <1>1
<1> QED
  BY <1>2 DEF Image, Disk

\* The prune drops delivered items only.
LEMMA PruneDropsDelivered ==
    ASSUME pruneRetainedItems
    PROVE  items' \subseteq items /\ items \ items' \subseteq Delivered
<1>1. PICK K \in Slices(Delivered, MaxRetained) : items' = Active \cup K
  BY DEF pruneRetainedItems
<1>2. K \subseteq Delivered
  BY SlicesAreSubsets, <1>1
<1> QED
  BY <1>1, <1>2 DEF Active, Delivered

LEMMA PersistFacts ==
    ASSUME TypeOK, persist
    PROVE  /\ items' \subseteq items
           /\ items \ items' \subseteq Delivered
           /\ disk' \in Disk
           /\ disk'.items = items'
           /\ \A e \in Events : disk'.obj[e] \in {obj[e], NoItem}
           /\ written' = written \cup items'
<1>1. items' \subseteq items /\ items \ items' \subseteq Delivered
  BY PruneDropsDelivered DEF persist
<1>2. items' \in SUBSET Events /\ obj \in [Events -> Item] /\ enabled \in BOOLEAN
  BY <1>1 DEF TypeOK
<1> QED
  BY <1>1, <1>2, ImageType DEF persist

LEMMA PersistFailsFacts ==
    ASSUME TypeOK, persistFails
    PROVE  /\ items' \subseteq items
           /\ items \ items' \subseteq Delivered
           /\ disk' = disk /\ written' = written
           /\ budget' \in [{"crash", "write", "load", "call"} -> Nat]
<1>1. items' \subseteq items /\ items \ items' \subseteq Delivered
  BY PruneDropsDelivered DEF persistFails
<1>2. budget' \in [{"crash", "write", "load", "call"} -> Nat]
  BY DEF persistFails, Spend, TypeOK
<1> QED
  BY <1>1, <1>2 DEF persistFails

LEMMA SpendType ==
    ASSUME TypeOK, NEW kind \in {"crash", "write", "load", "call"}, Spend(kind)
    PROVE  budget' \in [{"crash", "write", "load", "call"} -> Nat]
BY DEF Spend, TypeOK

Pass == [kind : Kinds, phase : Phases, todo : SUBSET Events]

LEMMA ReturnType ==
    ASSUME TypeOK, NEW w \in Workers, Return(w)
    PROVE  pass' \in [Workers -> Pass] /\ pc' \in [Workers -> [Events -> Steps]]
BY DEF TypeOK, Return, IdlePass, AllIdle, Pass, Kinds, Phases, Steps

LEMMA BeginType ==
    ASSUME enabled \in BOOLEAN, NEW o \in Item
    PROVE  /\ Begin(o) \in Item
           /\ Begin(o).state \in {"RETRY_SCHEDULED", "DRY_RUN_VALIDATED", "SENDING"}
           /\ Mode # "DRY_RUN" => Begin(o).state # "DRY_RUN_VALIDATED"
<1>1. CASE ~enabled
  BY <1>1 DEF Begin, Item, QueueState
<1>2. CASE enabled /\ Mode = "DRY_RUN"
  BY <1>2 DEF Begin, Item, QueueState
<1>3. CASE enabled /\ Mode # "DRY_RUN"
  <2>1. Begin(o) = [state |-> "SENDING", attempts |-> o.attempts + 1, due |-> o.due]
    BY <1>3 DEF Begin, Item
  <2>2. o.attempts + 1 \in Nat /\ o.due \in BOOLEAN
    BY DEF Item
  <2> QED
    BY <2>1, <2>2 DEF Item, QueueState
<1> QED
  BY <1>1, <1>2, <1>3

LEMMA FirstStepType ==
    ASSUME enabled \in BOOLEAN, NEW d \in BOOLEAN
    PROVE  FirstStep(d) \in {"idle", "parking", "dry", "sending", "claiming"}
BY DEF FirstStep

LEMMA ProceedType ==
    ASSUME TypeOK, NEW w \in Workers, NEW kind \in Kinds, NEW todo \in SUBSET Events,
           Proceed(w, kind, todo)
    PROVE  /\ obj' \in [Events -> Item]
           /\ pass' \in [Workers -> Pass]
           /\ pc' \in [Workers -> [Events -> Steps]]
<1>1. CASE Return(w) /\ UNCHANGED obj
  BY <1>1, ReturnType DEF TypeOK
<1>2. CASE \E C \in Slices(todo, IF kind = "batch" THEN Concurrency ELSE 1) \ {{}} :
         LET step == FirstStep(kind = "batch") IN
         /\ obj' = [e \in Events |-> IF e \in C THEN Begin(obj[e]) ELSE obj[e]]
         /\ pc' = [pc EXCEPT ![w] = [e \in Events |-> IF e \in C THEN step ELSE "idle"]]
         /\ pass' = [pass EXCEPT ![w] =
                       [kind |-> kind, todo |-> todo \ C,
                        phase |-> IF step = "idle" THEN "flush" ELSE "work"]]
  <2> DEFINE step == FirstStep(kind = "batch")
  <2>1. step \in {"idle", "parking", "dry", "sending", "claiming"}
    BY FirstStepType DEF TypeOK
  <2> HIDE DEF step
  <2>2. PICK C : /\ obj' = [e \in Events |-> IF e \in C THEN Begin(obj[e]) ELSE obj[e]]
                 /\ pc' = [pc EXCEPT ![w] = [e \in Events |-> IF e \in C THEN step ELSE "idle"]]
                 /\ pass' = [pass EXCEPT ![w] =
                       [kind |-> kind, todo |-> todo \ C,
                        phase |-> IF step = "idle" THEN "flush" ELSE "work"]]
    BY <1>2 DEF step
  <2>3. obj' \in [Events -> Item]
    BY <2>2, BeginType DEF TypeOK
  <2>4. pc' \in [Workers -> [Events -> Steps]]
    BY <2>1, <2>2 DEF TypeOK, Steps
  <2>5. pass' \in [Workers -> Pass]
    BY <2>2 DEF TypeOK, Pass, Phases
  <2> QED
    BY <2>3, <2>4, <2>5
<1> QED
  BY <1>1, <1>2 DEF Proceed
-----------------------------------------------------------------------------
(* Type correctness.                                                       *)

\* TypeOK needs one more fact: what is in the store file was written there.
TypeInv == TypeOK /\ disk.items \subseteq written

LEMMA TypeInit == ConstantsAssumption /\ Init => TypeInv
<1> SUFFICES ASSUME ConstantsAssumption, Init PROVE TypeInv
  OBVIOUS
<1>1. NoItem \in Item /\ IdlePass \in Pass
  BY DEF NoItem, Item, IdlePass, Pass, Kinds, Phases
<1>2. disk \in Disk /\ disk.items = {}
  BY <1>1, ImageType DEF Init
<1>3. budget \in [{"crash", "write", "load", "call"} -> Nat]
  BY DEF Init, ConstantsAssumption
<1> QED
  BY <1>1, <1>2, <1>3 DEF Init, TypeInv, TypeOK, Disk, Pass, Steps, AdminCalls

\* The parts of the state a step may leave in any well-typed shape.
LEMMA TypeFromParts ==
    ASSUME TypeInv,
           up' \in BOOLEAN, enabled' \in BOOLEAN, stopped' \in BOOLEAN,
           items' \subseteq issued', issued' \subseteq Events,
           written' \subseteq issued', disk'.items \subseteq written',
           obj' \in [Events -> Item],
           disk' \in Disk,
           pass' \in [Workers -> Pass],
           pc' \in [Workers -> [Events -> Steps]],
           admin' \subseteq AdminCalls,
           cop' \subseteq Events, late' \subseteq Events,
           waived' \subseteq Events, erased' \subseteq Events,
           budget' \in [{"crash", "write", "load", "call"} -> Nat]
    PROVE  TypeInv'
BY DEF TypeInv, TypeOK, Disk, Pass

LEMMA TypeParts ==
    ASSUME TypeInv
    PROVE  /\ TypeOK
           /\ disk \in Disk
           /\ pass \in [Workers -> Pass]
           /\ \A w \in Workers : /\ pass[w].kind \in Kinds
                                 /\ pass[w].todo \in SUBSET Events
BY DEF TypeInv, TypeOK, Disk, Pass

\* A step that changes at most the calls under way and the budget.
LEMMA TypeCalls ==
    ASSUME TypeInv,
           UNCHANGED <<up, enabled, items, disk, admin, outside, history>>,
           obj' \in [Events -> Item],
           pass' \in [Workers -> Pass],
           pc' \in [Workers -> [Events -> Steps]],
           budget' \in [{"crash", "write", "load", "call"} -> Nat]
    PROVE  TypeInv'
BY DEF TypeInv, TypeOK, Disk, Pass, outside, history

\* A step that writes the store and goes on with a call.
LEMMA TypePersist ==
    ASSUME TypeInv, persist,
           UNCHANGED <<up, enabled, outside, issued, waived, erased, budget>>,
           stopped' \in BOOLEAN, admin' \subseteq AdminCalls,
           obj' \in [Events -> Item],
           pass' \in [Workers -> Pass],
           pc' \in [Workers -> [Events -> Steps]]
    PROVE  TypeInv'
<1>1. /\ items' \subseteq items /\ disk' \in Disk
      /\ disk'.items = items' /\ written' = written \cup items'
  BY PersistFacts, TypeParts
<1> QED
  BY <1>1, TypeFromParts DEF TypeInv, TypeOK, outside

\* A step in which a write of the store fails.
LEMMA TypePersistFails ==
    ASSUME TypeInv, persistFails,
           UNCHANGED <<up, enabled, outside, issued, waived, erased, stopped>>,
           admin' \subseteq AdminCalls,
           obj' \in [Events -> Item],
           pass' \in [Workers -> Pass],
           pc' \in [Workers -> [Events -> Steps]]
    PROVE  TypeInv'
<1>1. /\ items' \subseteq items
      /\ disk' = disk /\ written' = written
      /\ budget' \in [{"crash", "write", "load", "call"} -> Nat]
  BY PersistFailsFacts, TypeParts
<1>2. disk' \in Disk
  BY <1>1, TypeParts
<1> QED
  BY <1>1, <1>2, TypeFromParts DEF TypeInv, TypeOK, outside
LEMMA AfterFailureType ==
    ASSUME NEW o \in Item
    PROVE  /\ AfterFailure(o) \in Item
           /\ AfterFailure(o).state \in {"DEAD_LETTER", "RETRY_SCHEDULED"}
BY DEF AfterFailure, Item, QueueState

LEMMA RecoverType ==
    ASSUME NEW o \in Item
    PROVE  /\ recoverInterruptedSends(o) \in Item
           /\ \/ recoverInterruptedSends(o) = o
              \/ recoverInterruptedSends(o).state = "RETRY_SCHEDULED"
BY DEF recoverInterruptedSends, Item, QueueState

LEMMA GotoType ==
    ASSUME TypeInv, NEW w \in Workers, NEW e \in Events, NEW step \in Steps,
           \/ Goto(w, e, step)
           \/ FinishDeferred(w, e)
    PROVE  pass' \in [Workers -> Pass] /\ pc' \in [Workers -> [Events -> Steps]]
<1>1. CASE Goto(w, e, step)
  BY <1>1 DEF Goto, TypeInv, TypeOK, Pass
<1>2. CASE FinishDeferred(w, e)
  <2>1. pc' \in [Workers -> [Events -> Steps]]
    BY <1>2 DEF FinishDeferred, TypeInv, TypeOK, Steps
  <2>2. pass' = [pass EXCEPT ![w].phase = IF Busy(w) = {e} THEN "flush" ELSE pass[w].phase]
    BY <1>2 DEF FinishDeferred
  <2>3. pass \in [Workers -> Pass] /\ pass[w] \in Pass
    BY TypeParts
  <2>4. [pass[w] EXCEPT !.phase = IF Busy(w) = {e} THEN "flush" ELSE pass[w].phase] \in Pass
    BY <2>3 DEF Pass, Phases
  <2>5. pass' \in [Workers -> Pass]
    BY <2>2, <2>3, <2>4
  <2> QED
    BY <2>1, <2>5
<1> QED
  BY <1>1, <1>2

\* The steps of one worker.
LEMMA TypeWorkerStep ==
    ASSUME TypeInv, NEW w \in Workers,
           \/ Publish(w) \/ retryDueQueue(w) \/ OperatorPass(w)
           \/ PassStored(w) \/ PassNotStored(w)
    PROVE  TypeInv'
<1> USE TypeParts
<1>1. ASSUME NEW kind \in Kinds, NEW E \in SUBSET Events, Enqueue(w, kind, E)
      PROVE  TypeInv'
  <2>1. obj' \in [Events -> Item]
    BY <1>1 DEF Enqueue, TypeInv, TypeOK, NewItem, Item, QueueState
  <2>2. pass' \in [Workers -> Pass]
    BY <1>1 DEF Enqueue, Pass, Phases
  <2> QED
    BY <1>1, <2>1, <2>2, TypeFromParts DEF Enqueue, TypeInv, TypeOK, outside
<1>2. CASE Publish(w)
  <2>1. \/ \E E \in SUBSET Events : Enqueue(w, "batch", E)
        \/ \E E \in SUBSET Events : Enqueue(w, "single", E)
    BY <1>2 DEF Publish, publishEvents, publishEvent
  <2>2. "batch" \in Kinds /\ "single" \in Kinds
    BY DEF Kinds
  <2> QED
    BY <1>1, <2>1, <2>2
<1>3. ASSUME NEW kind \in Kinds, NEW E \in SUBSET Events, Proceed(w, kind, E)
      PROVE  /\ obj' \in [Events -> Item]
             /\ pass' \in [Workers -> Pass]
             /\ pc' \in [Workers -> [Events -> Steps]]
  BY <1>3, ProceedType
<1>4. CASE retryDueQueue(w)
  <2>1. PICK C \in Slices(DueCandidates, DueLimit) : Proceed(w, "due", C)
    BY <1>4 DEF retryDueQueue
  <2>2. C \in SUBSET Events
    BY <2>1, SlicesAreSubsets DEF DueCandidates, TypeOK
  <2>3. "due" \in Kinds
    BY DEF Kinds
  <2>4. UNCHANGED <<up, enabled, items, disk, admin, outside, history, budget>>
    BY <1>4 DEF retryDueQueue
  <2> QED
    BY <1>3, <2>1, <2>2, <2>3, <2>4, TypeCalls DEF TypeOK
<1>5. CASE OperatorPass(w)
  <2>1. \E S \in SUBSET Events : Proceed(w, "operator", S)
    BY <1>5 DEF OperatorPass, retryQueue, processItem, RetryCandidates, TypeOK
  <2>2. "operator" \in Kinds
    BY DEF Kinds
  <2>3. Spend("call") /\ UNCHANGED <<up, enabled, items, disk, admin, outside, history>>
    BY <1>5 DEF OperatorPass, retryQueue, processItem
  <2> QED
    BY <1>3, <2>1, <2>2, <2>3, SpendType, TypeCalls
<1>6. CASE PassStored(w)
  BY <1>3, <1>6, TypePersist DEF PassStored, TypeOK
<1>7. CASE PassNotStored(w)
  BY <1>7, ReturnType, TypePersistFails DEF PassNotStored, TypeOK
<1> QED
  BY <1>2, <1>4, <1>5, <1>6, <1>7

\* The steps of a worker at one event.
LEMMA TypeItemStep ==
    ASSUME TypeInv, NEW w \in Workers, NEW e \in Events,
           ItemStep(w, e) \/ ItemFault(w, e)
    PROVE  TypeInv'
<1> USE TypeParts
<1>1. CASE ItemStored(w, e)
  BY <1>1, ProceedType, TypePersist DEF ItemStored, TypeOK
<1>2. CASE Claimed(w, e)
  <2>1. pass' \in [Workers -> Pass] /\ pc' \in [Workers -> [Events -> Steps]]
    BY <1>2, GotoType DEF Claimed, Steps
  <2> QED
    BY <1>2, <2>1, TypePersist DEF Claimed, TypeOK
<1>3. CASE CopAnswers(w, e)
  <2>1. pass' \in [Workers -> Pass] /\ pc' \in [Workers -> [Events -> Steps]]
    BY <1>3, GotoType DEF CopAnswers, Steps
  <2>2. cop' \subseteq Events
    BY <1>3 DEF CopAnswers, TypeOK
  <2> QED
    BY <1>3, <2>1, <2>2, TypeFromParts DEF CopAnswers, TypeInv, TypeOK, memory, history
<1>4. CASE SendSucceeds(w, e)
  <2>1. pass' \in [Workers -> Pass] /\ pc' \in [Workers -> [Events -> Steps]]
    BY <1>4, GotoType DEF SendSucceeds, Steps
  <2>2. obj' \in [Events -> Item]
    BY <1>4 DEF SendSucceeds, TypeOK, Item, QueueState
  <2> QED
    BY <1>4, <2>1, <2>2, TypeCalls DEF SendSucceeds, TypeOK
<1>5. CASE SendFails(w, e)
  <2>1. pass' \in [Workers -> Pass] /\ pc' \in [Workers -> [Events -> Steps]]
    BY <1>5, GotoType DEF SendFails, Steps
  <2>2. obj' \in [Events -> Item]
    BY <1>5, AfterFailureType DEF SendFails, TypeOK
  <2>3. late' \subseteq Events
    BY <1>5 DEF SendFails, TypeOK
  <2> QED
    BY <1>5, <2>1, <2>2, <2>3, TypeFromParts DEF SendFails, TypeInv, TypeOK, history
<1>6. CASE ItemNotStored(w, e)
  BY <1>6, ReturnType, TypePersistFails DEF ItemNotStored, TypeOK
<1>7. CASE SentNotStored(w, e)
  <2>1. pass' \in [Workers -> Pass] /\ pc' \in [Workers -> [Events -> Steps]]
    BY <1>7, GotoType DEF SentNotStored, Steps
  <2>2. obj' \in [Events -> Item]
    BY <1>7, AfterFailureType DEF SentNotStored, TypeOK
  <2> QED
    BY <1>7, <2>1, <2>2, TypePersistFails DEF SentNotStored, TypeOK
<1> QED
  BY <1>1, <1>2, <1>3, <1>4, <1>5, <1>6, <1>7 DEF ItemStep, ItemFault

\* Operator calls, the COP, crashes and restarts.
LEMMA TypeOutsideStep ==
    ASSUME TypeInv,
           \/ Operator
           \/ \E a \in AdminCalls : CallReturns(a) \/ CallThrows(a)
           \/ \E e \in Events : BecomesDue(e) \/ LateArrival(e)
           \/ Crash \/ load \/ loadFails
    PROVE  TypeInv'
<1> USE TypeParts
<1>1. CASE Operator
  <2>1. budget' \in [{"crash", "write", "load", "call"} -> Nat]
    BY <1>1, SpendType DEF Operator, stopPublishing, enablePublishing, clearQueue, Call
  <2>2. admin' \subseteq AdminCalls
    BY <1>1 DEF Operator, stopPublishing, enablePublishing, clearQueue, Call, AdminCalls, TypeOK
  <2>3. /\ items' \subseteq items /\ waived' \subseteq Events
        /\ enabled' \in BOOLEAN /\ stopped' \in BOOLEAN
        /\ UNCHANGED <<up, obj, disk, pass, pc, outside, issued, written, erased>>
    BY <1>1 DEF Operator, stopPublishing, enablePublishing, clearQueue, TypeOK, history
  <2> QED
    BY <2>1, <2>2, <2>3, TypeFromParts DEF TypeInv, TypeOK, outside
<1>2. ASSUME NEW a \in AdminCalls, CallReturns(a)
      PROVE  TypeInv'
  BY <1>2, TypePersist DEF CallReturns, TypeOK
<1>3. ASSUME NEW a \in AdminCalls, CallThrows(a)
      PROVE  TypeInv'
  BY <1>3, TypePersistFails DEF CallThrows, TypeOK
<1>4. ASSUME NEW e \in Events, BecomesDue(e)
      PROVE  TypeInv'
  <2> DEFINE o == obj[e]
  <2>0. obj \in [Events -> Item] /\ o \in Item
    BY DEF TypeOK
  <2> HIDE DEF o
  <2>1. [o EXCEPT !.due = TRUE] \in Item
    BY <2>0 DEF Item
  <2>2. obj' \in [Events -> Item]
    BY <1>4, <2>0, <2>1 DEF BecomesDue, o
  <2> QED
    BY <1>4, <2>2, TypeCalls DEF BecomesDue, TypeOK, calls
<1>5. ASSUME NEW e \in Events, LateArrival(e)
      PROVE  TypeInv'
  BY <1>5, TypeFromParts DEF LateArrival, TypeInv, TypeOK, memory, calls, history
<1>6. NoItem \in Item /\ IdlePass \in Pass
  BY DEF NoItem, Item, IdlePass, Pass, Kinds, Phases
<1>7. CASE Crash
  <2>1. budget' \in [{"crash", "write", "load", "call"} -> Nat]
    BY <1>7, SpendType DEF Crash
  <2>2. late' \subseteq Events
    BY <1>7 DEF Crash, InFlight, TypeOK
  <2>3. /\ obj' \in [Events -> Item]
        /\ pass' \in [Workers -> Pass]
        /\ pc' \in [Workers -> [Events -> Steps]]
    BY <1>6, <1>7 DEF Crash, Steps
  <2> QED
    BY <1>7, <2>1, <2>2, <2>3, TypeFromParts DEF Crash, TypeInv, TypeOK, history
<1>8. CASE load
  <2>1. obj' \in [Events -> Item]
    BY <1>8, RecoverType DEF load, Disk
  <2>2. items' \subseteq disk.items
    BY <1>8, SlicesAreSubsets DEF load
  <2>3. enabled' \in BOOLEAN /\ items' \in SUBSET Events
    BY <1>8, <2>2 DEF load, Disk
  <2>4. disk' \in Disk /\ disk'.items = items'
    BY <1>8, <2>1, <2>3, ImageType DEF load
  <2> QED
    BY <1>8, <2>1, <2>2, <2>3, <2>4, TypeFromParts DEF load, TypeInv, TypeOK, calls, outside
<1>9. CASE loadFails
  <2>1. budget' \in [{"crash", "write", "load", "call"} -> Nat]
    BY <1>9, SpendType DEF loadFails
  <2>2. obj' \in [Events -> Item] /\ enabled' \in BOOLEAN /\ items' = {}
    BY <1>6, <1>9 DEF loadFails
  <2>3. disk' \in Disk /\ disk'.items = {}
    BY <1>9, <2>2, ImageType DEF loadFails
  <2> QED
    BY <1>9, <2>1, <2>2, <2>3, TypeFromParts DEF loadFails, TypeInv, TypeOK, Disk, calls, outside
<1> QED
  BY <1>1, <1>2, <1>3, <1>4, <1>5, <1>7, <1>8, <1>9

LEMMA TypeStep == TypeInv /\ [Next]_vars => TypeInv'
<1> SUFFICES ASSUME TypeInv, [Next]_vars PROVE TypeInv'
  OBVIOUS
<1>1. CASE Next
  BY <1>1, TypeWorkerStep, TypeItemStep, TypeOutsideStep DEF Next
<1>2. CASE UNCHANGED vars
  BY <1>2 DEF vars, TypeInv, TypeOK
<1> QED
  BY <1>1, <1>2

\* Whatever order the calls, faults and restarts come in, every variable keeps
\* its type; the store file never holds an event nobody published.
THEOREM TypeCorrect == Spec => []TypeOK
<1>1. TypeInv => TypeOK
  BY DEF TypeInv
<1> QED
  BY <1>1, TypeInit, TypeStep, ConstantsAssumption, PTL DEF Spec
-----------------------------------------------------------------------------
(* The inductive invariant behind the safety properties, for a publisher   *)
(* that delivers (LIVE or MOCK).                                           *)

\* What the publisher knows to be safe to forget.
Known == written \cup waived

NeverValidated ==
    \A e \in Events : "DRY_RUN_VALIDATED" \notin {obj[e].state, disk.obj[e].state}

\* Memory, which the next write copies to the file, forgets no event either.
RememberedUntilDelivered ==
    up => written \subseteq cop \cup waived \cup erased \cup items

DownIsEmpty == ~up => items = {}

\* Every event a call still works on is in the queue, was once in the file,
\* or was cleared; before its request leaves, one of the latter two. A 2xx
\* answer under way is about an event the COP has.
Works(w) ==
    /\ pass[w].todo \subseteq items \cup Known
    /\ pass[w].kind = "batch" /\ pass[w].phase # "store" => pass[w].todo \subseteq Known
    /\ pass[w].phase # "work" => \A e \in Events : pc[w][e] = "idle"
    /\ \A e \in Events :
         /\ pc[w][e] = "claiming" => e \in items \cup Known
         /\ pc[w][e] = "sending" => e \in Known
         /\ pc[w][e] = "accepted" => e \in cop

WorkIsKnown == \A w \in Workers : Works(w)

\* What an operator or a failing load discarded is not in the queue.
DiscardedStaysOut ==
    /\ up => items \cap (waived \cup erased) = {}
    /\ disk.items \cap erased = {}
    /\ waived \cup erased \subseteq issued

SafeInv ==
    /\ TypeInv
    /\ DeliveredMeansTaken
    /\ NeverValidated
    /\ DurableUntilDelivered
    /\ RememberedUntilDelivered
    /\ DownIsEmpty
    /\ RecordedBeforeSent
    /\ WorkIsKnown
    /\ DiscardedStaysOut
LEMMA SafeInit == ConstantsAssumption /\ Init => SafeInv
<1> SUFFICES ASSUME ConstantsAssumption, Init PROVE SafeInv
  OBVIOUS
<1>1. TypeInv
  BY TypeInit
<1>2. \A e \in Events : obj[e] = NoItem /\ disk.obj[e] = NoItem
  BY DEF Init, Image
<1>3. disk.items = {}
  BY DEF Init, Image
<1>4. DeliveredMeansTaken /\ NeverValidated
  BY <1>2 DEF DeliveredMeansTaken, NeverValidated, NoItem
<1>5. WorkIsKnown /\ InFlight = {}
  BY DEF Init, WorkIsKnown, Works, IdlePass, InFlight
<1> QED
  BY <1>1, <1>3, <1>4, <1>5
  DEF Init, SafeInv, DurableUntilDelivered, RememberedUntilDelivered, DownIsEmpty,
      RecordedBeforeSent, DiscardedStaysOut

\* The invariant but for the calls under way.
QueueInv ==
    /\ DeliveredMeansTaken
    /\ NeverValidated
    /\ DurableUntilDelivered
    /\ RememberedUntilDelivered
    /\ DownIsEmpty
    /\ DiscardedStaysOut

\* No item becomes delivered in this step.
NothingDelivered ==
    \A e \in Events : /\ obj'[e].state = "SENT" => e \in cop'
                      /\ obj'[e].state # "DRY_RUN_VALIDATED"

\* What was in the queue is known after a write.
LEMMA PersistKnows ==
    ASSUME SafeInv, Mode # "DRY_RUN", persist, waived' = waived
    PROVE  items \cup Known \subseteq Known'
<1>1. items \ items' \subseteq Delivered /\ written' = written \cup items'
  BY PersistFacts DEF SafeInv, TypeInv
<1>2. Delivered \subseteq cop
  BY DEF Delivered, isDeliveredState, SafeInv, DeliveredMeansTaken, NeverValidated, TypeInv, TypeOK
<1>3. cop \subseteq Known
  BY DEF SafeInv, RecordedBeforeSent, Known
<1> QED
  BY <1>1, <1>2, <1>3 DEF Known

\* A write of the store keeps the queue safe.
LEMMA PersistKeeps ==
    ASSUME SafeInv, Mode # "DRY_RUN", up, persist, NothingDelivered,
           UNCHANGED <<up, cop, issued, waived, erased>>
    PROVE  QueueInv'
<1>1. /\ items' \subseteq items
      /\ items \ items' \subseteq Delivered
      /\ disk'.items = items'
      /\ \A e \in Events : disk'.obj[e] \in {obj[e], NoItem}
      /\ written' = written \cup items'
  BY PersistFacts DEF SafeInv, TypeInv
<1>2. Delivered \subseteq cop
  BY DEF Delivered, isDeliveredState, SafeInv, DeliveredMeansTaken, NeverValidated, TypeInv, TypeOK
<1>3. DeliveredMeansTaken' /\ NeverValidated'
  BY <1>1 DEF NothingDelivered, SafeInv, DeliveredMeansTaken, NeverValidated, NoItem
<1>4. DurableUntilDelivered' /\ RememberedUntilDelivered'
  BY <1>1, <1>2 DEF SafeInv, DurableUntilDelivered, RememberedUntilDelivered
<1>5. DownIsEmpty' /\ DiscardedStaysOut'
  BY <1>1 DEF SafeInv, DownIsEmpty, DiscardedStaysOut
<1> QED
  BY <1>3, <1>4, <1>5 DEF QueueInv

\* So does a write that fails: it has only forgotten what the COP has.
LEMMA PersistFailsKeeps ==
    ASSUME SafeInv, Mode # "DRY_RUN", up, persistFails, NothingDelivered,
           UNCHANGED <<up, cop, issued, waived, erased>>
    PROVE  /\ QueueInv'
           /\ items \cup Known \subseteq items' \cup Known'
           /\ Known' = Known
<1>1. /\ items' \subseteq items
      /\ items \ items' \subseteq Delivered
      /\ disk' = disk /\ written' = written
  BY PersistFailsFacts DEF SafeInv, TypeInv
<1>2. Delivered \subseteq cop
  BY DEF Delivered, isDeliveredState, SafeInv, DeliveredMeansTaken, NeverValidated, TypeInv, TypeOK
<1>3. cop \subseteq Known
  BY DEF SafeInv, RecordedBeforeSent, Known
<1>4. DeliveredMeansTaken' /\ NeverValidated'
  BY <1>1 DEF NothingDelivered, SafeInv, DeliveredMeansTaken, NeverValidated
<1>5. DurableUntilDelivered' /\ RememberedUntilDelivered'
  BY <1>1, <1>2 DEF SafeInv, DurableUntilDelivered, RememberedUntilDelivered
<1>6. DownIsEmpty' /\ DiscardedStaysOut'
  BY <1>1 DEF SafeInv, DownIsEmpty, DiscardedStaysOut
<1>7. items \cup Known \subseteq items' \cup Known' /\ Known' = Known
  BY <1>1, <1>2, <1>3 DEF Known
<1> QED
  BY <1>4, <1>5, <1>6, <1>7 DEF QueueInv

\* A step of one worker leaves the others' work known.
LEMMA WorkKeeps ==
    ASSUME SafeInv, NEW w \in Workers, Works(w)',
           \A v \in Workers : v # w => pass'[v] = pass[v] /\ pc'[v] = pc[v],
           items \cup Known \subseteq items' \cup Known',
           Known \subseteq Known', cop \subseteq cop',
           late' \cup cop' \subseteq Known'
    PROVE  WorkIsKnown' /\ RecordedBeforeSent'
<1>1. \A v \in Workers : v # w => Works(v)'
  <2> SUFFICES ASSUME NEW v \in Workers, v # w PROVE Works(v)'
    OBVIOUS
  <2>1. Works(v) /\ pass'[v] = pass[v] /\ pc'[v] = pc[v]
    BY DEF SafeInv, WorkIsKnown
  <2> QED
    BY <2>1 DEF Works
<1>2. WorkIsKnown'
  BY <1>1 DEF WorkIsKnown
<1>3. InFlight' \subseteq Known'
  BY <1>2 DEF WorkIsKnown, Works, InFlight
<1> QED
  BY <1>2, <1>3 DEF RecordedBeforeSent, Known

LEMMA SafeFromParts ==
    ASSUME TypeInv', QueueInv', WorkIsKnown', RecordedBeforeSent'
    PROVE  SafeInv'
BY DEF SafeInv, QueueInv
LEMMA ReturnWorks ==
    ASSUME TypeInv, NEW w \in Workers, Return(w)
    PROVE  /\ Works(w)'
           /\ \A v \in Workers : v # w => pass'[v] = pass[v] /\ pc'[v] = pc[v]
<1>1. pass \in [Workers -> Pass] /\ pc \in [Workers -> [Events -> Steps]]
  BY TypeParts DEF TypeOK
<1>2. /\ pass'[w] = IdlePass
      /\ \A e \in Events : pc'[w][e] = "idle"
      /\ \A v \in Workers : v # w => pass'[v] = pass[v] /\ pc'[v] = pc[v]
  BY <1>1 DEF Return, AllIdle
<1> QED
  BY <1>2 DEF Works, IdlePass

\* A call moves to another await, having what the step asks for.
LEMMA GotoWorks ==
    ASSUME SafeInv, NEW w \in Workers, NEW e \in Events, NEW step \in Steps,
           pc[w][e] # "idle",
           Goto(w, e, step),
           step # "claiming",
           step = "sending" => e \in Known',
           step = "accepted" => e \in cop',
           items \cup Known \subseteq items' \cup Known',
           Known \subseteq Known', cop \subseteq cop'
    PROVE  /\ Works(w)'
           /\ \A v \in Workers : v # w => pass'[v] = pass[v] /\ pc'[v] = pc[v]
<1>1. pass \in [Workers -> Pass] /\ pc \in [Workers -> [Events -> Steps]]
  BY TypeParts DEF SafeInv, TypeOK
<1>2. /\ pass' = pass
      /\ pc'[w][e] = step
      /\ \A f \in Events : f # e => pc'[w][f] = pc[w][f]
      /\ \A v \in Workers : v # w => pass'[v] = pass[v] /\ pc'[v] = pc[v]
  BY <1>1 DEF Goto
<1>3. Works(w)
  BY DEF SafeInv, WorkIsKnown
<1> QED
  BY <1>2, <1>3 DEF Works

\* An event of a batch is done; its chunk is written after the last one.
LEMMA FinishWorks ==
    ASSUME SafeInv, NEW w \in Workers, NEW e \in Events,
           pc[w][e] # "idle",
           FinishDeferred(w, e),
           items \cup Known \subseteq items' \cup Known',
           Known \subseteq Known', cop \subseteq cop'
    PROVE  /\ Works(w)'
           /\ \A v \in Workers : v # w => pass'[v] = pass[v] /\ pc'[v] = pc[v]
<1>1. pass \in [Workers -> Pass] /\ pc \in [Workers -> [Events -> Steps]]
  BY TypeParts DEF SafeInv, TypeOK
<1>2. /\ pc'[w][e] = "idle"
      /\ \A f \in Events : f # e => pc'[w][f] = pc[w][f]
      /\ \A v \in Workers : v # w => pass'[v] = pass[v] /\ pc'[v] = pc[v]
  BY <1>1 DEF FinishDeferred
<1>3. /\ pass'[w].todo = pass[w].todo /\ pass'[w].kind = pass[w].kind
      /\ pass'[w].phase = IF Busy(w) = {e} THEN "flush" ELSE pass[w].phase
  BY <1>1 DEF FinishDeferred, Pass
<1>4. Works(w)
  BY DEF SafeInv, WorkIsKnown
<1>5. pass[w].phase = "work"
  BY <1>4 DEF Works
<1>6. CASE Busy(w) = {e}
  BY <1>2, <1>3, <1>4, <1>5, <1>6 DEF Works, Busy
<1>7. CASE Busy(w) # {e}
  BY <1>2, <1>3, <1>4, <1>5, <1>7 DEF Works
<1> QED
  BY <1>2, <1>6, <1>7

\* The next item, or the next chunk, of a pass: its request can leave at once
\* only in a batch, whose events are in the file by then.
LEMMA ProceedWorks ==
    ASSUME SafeInv, Mode # "DRY_RUN",
           NEW w \in Workers, NEW kind \in Kinds, NEW todo \in SUBSET Events,
           Proceed(w, kind, todo),
           todo \subseteq items' \cup Known',
           kind = "batch" => todo \subseteq Known',
           cop' = cop
    PROVE  /\ Works(w)'
           /\ \A v \in Workers : v # w => pass'[v] = pass[v] /\ pc'[v] = pc[v]
           /\ NothingDelivered
<1>1. /\ TypeInv /\ TypeOK
      /\ pass \in [Workers -> Pass] /\ pc \in [Workers -> [Events -> Steps]]
  BY TypeParts DEF SafeInv, TypeOK
<1>2. CASE Return(w) /\ UNCHANGED obj
  <2>1. NothingDelivered
    BY <1>2 DEF NothingDelivered, SafeInv, DeliveredMeansTaken, NeverValidated
  <2> QED
    BY <1>1, <1>2, <2>1, ReturnWorks
<1>3. ASSUME NEW C \in Slices(todo, IF kind = "batch" THEN Concurrency ELSE 1) \ {{}},
             LET step == FirstStep(kind = "batch") IN
             /\ obj' = [e \in Events |-> IF e \in C THEN Begin(obj[e]) ELSE obj[e]]
             /\ pc' = [pc EXCEPT ![w] = [e \in Events |-> IF e \in C THEN step ELSE "idle"]]
             /\ pass' = [pass EXCEPT ![w] =
                           [kind |-> kind, todo |-> todo \ C,
                            phase |-> IF step = "idle" THEN "flush" ELSE "work"]]
      PROVE  /\ Works(w)'
             /\ \A v \in Workers : v # w => pass'[v] = pass[v] /\ pc'[v] = pc[v]
             /\ NothingDelivered
  <2> DEFINE step == FirstStep(kind = "batch")
  <2>1. /\ step \in {"idle", "parking", "sending", "claiming"}
        /\ kind = "batch" => step \in {"idle", "sending"}
        /\ kind # "batch" => step \in {"parking", "claiming"}
    BY DEF FirstStep
  <2>2. /\ obj' = [e \in Events |-> IF e \in C THEN Begin(obj[e]) ELSE obj[e]]
        /\ pc' = [pc EXCEPT ![w] = [e \in Events |-> IF e \in C THEN step ELSE "idle"]]
        /\ pass' = [pass EXCEPT ![w] =
                      [kind |-> kind, todo |-> todo \ C,
                       phase |-> IF step = "idle" THEN "flush" ELSE "work"]]
    BY <1>3
  <2> HIDE DEF step
  <2>3. C \subseteq todo
    BY SlicesAreSubsets
  <2>4. /\ pass'[w] = [kind |-> kind, todo |-> todo \ C,
                       phase |-> IF step = "idle" THEN "flush" ELSE "work"]
        /\ \A e \in Events : pc'[w][e] = IF e \in C THEN step ELSE "idle"
        /\ \A v \in Workers : v # w => pass'[v] = pass[v] /\ pc'[v] = pc[v]
    BY <1>1, <2>2
  <2>5. Works(w)'
    BY <2>1, <2>3, <2>4 DEF Works
  <2>6. NothingDelivered
    <3> SUFFICES ASSUME NEW e \in Events
                 PROVE  /\ obj'[e].state = "SENT" => e \in cop'
                        /\ obj'[e].state # "DRY_RUN_VALIDATED"
      BY DEF NothingDelivered
    <3>1. CASE e \in C
      <4>1. obj'[e].state \in {"RETRY_SCHEDULED", "SENDING"}
        BY <1>1, <2>2, <3>1, BeginType DEF TypeOK
      <4> QED
        BY <4>1
    <3>2. CASE e \notin C
      BY <2>2, <3>2 DEF SafeInv, DeliveredMeansTaken, NeverValidated
    <3> QED
      BY <3>1, <3>2
  <2> QED
    BY <2>4, <2>5, <2>6
<1> QED
  BY <1>2, <1>3 DEF Proceed
\* A step that leaves queue and file alone keeps them safe.
LEMMA QueueKeeps ==
    ASSUME SafeInv, NothingDelivered, cop \subseteq cop',
           UNCHANGED <<up, items, disk, issued, written, waived, erased>>
    PROVE  /\ QueueInv'
           /\ items \cup Known \subseteq items' \cup Known'
           /\ Known' = Known
<1>1. DeliveredMeansTaken' /\ NeverValidated'
  BY DEF NothingDelivered, SafeInv, DeliveredMeansTaken, NeverValidated
<1> QED
  BY <1>1 DEF SafeInv, QueueInv, DurableUntilDelivered, RememberedUntilDelivered,
              DownIsEmpty, DiscardedStaysOut, Known

LEMMA SafeWorkerStep ==
    ASSUME SafeInv, Mode # "DRY_RUN", TypeInv', NEW w \in Workers,
           \/ Publish(w) \/ retryDueQueue(w) \/ OperatorPass(w)
           \/ PassStored(w) \/ PassNotStored(w)
    PROVE  SafeInv'
<1>1. /\ TypeInv /\ TypeOK /\ Works(w) /\ late \cup cop \subseteq Known
      /\ pass[w].kind \in Kinds /\ pass[w].todo \in SUBSET Events
  BY TypeParts DEF SafeInv, WorkIsKnown, RecordedBeforeSent, Known
<1>2. ASSUME NEW kind \in Kinds, NEW E \in SUBSET (Events \ issued), Enqueue(w, kind, E)
      PROVE  SafeInv'
  <2>1. /\ Free(w) /\ items' = items \cup E /\ issued' = issued \cup E
        /\ UNCHANGED <<up, disk, pc, cop, late, written, waived, erased>>
    BY <1>2 DEF Enqueue, outside
  <2>2. \A v \in Workers : v # w => pass'[v] = pass[v] /\ pc'[v] = pc[v]
    BY <1>1, <1>2, TypeParts DEF Enqueue
  <2>3. pass'[w] = [kind |-> kind, phase |-> "store", todo |-> E]
    BY <1>1, <1>2, TypeParts DEF Enqueue
  <2>4. \A e \in Events : pc[w][e] = "idle"
    BY <1>1, <2>1 DEF Works, Free, IdlePass
  <2>5. Works(w)'
    BY <2>1, <2>3, <2>4 DEF Works
  <2>6. NothingDelivered
    BY <1>2, <2>1 DEF Enqueue, NewItem, NothingDelivered, SafeInv, DeliveredMeansTaken, NeverValidated
  <2>7. DeliveredMeansTaken' /\ NeverValidated'
    BY <2>1, <2>6 DEF NothingDelivered, SafeInv, DeliveredMeansTaken, NeverValidated
  <2>8. QueueInv'
    BY <2>1, <2>7 DEF SafeInv, QueueInv, DurableUntilDelivered, RememberedUntilDelivered,
                      DownIsEmpty, DiscardedStaysOut, Free
  <2>9. WorkIsKnown' /\ RecordedBeforeSent'
    BY <1>1, <2>1, <2>2, <2>5, WorkKeeps DEF Known
  <2> QED
    BY <2>8, <2>9, SafeFromParts
<1>3. CASE Publish(w)
  <2>1. \/ \E E \in SUBSET (Events \ issued) : Enqueue(w, "batch", E)
        \/ \E E \in SUBSET (Events \ issued) : Enqueue(w, "single", E)
    BY <1>3 DEF Publish, publishEvents, publishEvent
  <2>2. "batch" \in Kinds /\ "single" \in Kinds
    BY DEF Kinds
  <2> QED
    BY <1>2, <2>1, <2>2
<1>4. ASSUME NEW kind \in {"due", "operator"}, NEW S \in SUBSET items, Proceed(w, kind, S),
             UNCHANGED <<up, enabled, items, disk, admin, outside, history>>
      PROVE  SafeInv'
  <2>1. UNCHANGED <<items, written, waived, up, disk, issued, erased, cop, late>>
    BY <1>4 DEF history, outside
  <2>2. kind \in Kinds /\ S \in SUBSET Events
    BY <1>1 DEF Kinds, TypeOK
  <2>3. /\ Works(w)' /\ NothingDelivered
        /\ \A v \in Workers : v # w => pass'[v] = pass[v] /\ pc'[v] = pc[v]
    BY <1>4, <2>1, <2>2, ProceedWorks
  <2>4. QueueInv' /\ Known' = Known
    BY <2>1, <2>3, QueueKeeps
  <2>5. WorkIsKnown' /\ RecordedBeforeSent'
    BY <1>1, <2>1, <2>3, <2>4, WorkKeeps
  <2> QED
    BY <2>4, <2>5, SafeFromParts
<1>5. CASE retryDueQueue(w)
  <2>1. PICK C \in Slices(DueCandidates, DueLimit) : Proceed(w, "due", C)
    BY <1>5 DEF retryDueQueue
  <2>2. C \in SUBSET items
    BY <2>1, SlicesAreSubsets DEF DueCandidates
  <2>3. UNCHANGED <<up, enabled, items, disk, admin, outside, history>>
    BY <1>5 DEF retryDueQueue
  <2> QED
    BY <1>4, <2>1, <2>2, <2>3
<1>6. CASE OperatorPass(w)
  <2>1. \E S \in SUBSET items : Proceed(w, "operator", S)
    BY <1>6 DEF OperatorPass, retryQueue, processItem, RetryCandidates
  <2>2. UNCHANGED <<up, enabled, items, disk, admin, outside, history>>
    BY <1>6 DEF OperatorPass, retryQueue, processItem
  <2> QED
    BY <1>4, <2>1, <2>2
<1>7. CASE PassStored(w)
  <2>1. /\ up /\ persist /\ Proceed(w, pass[w].kind, pass[w].todo)
        /\ UNCHANGED <<up, cop, late, issued, waived, erased>>
    BY <1>7 DEF PassStored, outside
  <2>2. written' = written \cup items' /\ items' \subseteq items
    BY <1>1, <2>1, PersistFacts
  <2>3. items \cup Known \subseteq Known'
    BY <2>1, PersistKnows
  <2>4. pass[w].todo \subseteq Known'
    BY <1>1, <2>3 DEF Works
  <2>5. /\ Works(w)' /\ NothingDelivered
        /\ \A v \in Workers : v # w => pass'[v] = pass[v] /\ pc'[v] = pc[v]
    BY <1>1, <2>1, <2>4, ProceedWorks
  <2>6. QueueInv'
    BY <2>1, <2>5, PersistKeeps
  <2>7. WorkIsKnown' /\ RecordedBeforeSent'
    BY <1>1, <2>1, <2>3, <2>5, WorkKeeps
  <2> QED
    BY <2>6, <2>7, SafeFromParts
<1>8. CASE PassNotStored(w)
  <2>1. /\ up /\ persistFails /\ Return(w)
        /\ UNCHANGED <<up, obj, cop, late, issued, waived, erased>>
    BY <1>8 DEF PassNotStored, outside
  <2>2. /\ Works(w)'
        /\ \A v \in Workers : v # w => pass'[v] = pass[v] /\ pc'[v] = pc[v]
    BY <1>1, <2>1, ReturnWorks
  <2>3. NothingDelivered
    BY <2>1 DEF NothingDelivered, SafeInv, DeliveredMeansTaken, NeverValidated
  <2>4. QueueInv' /\ items \cup Known \subseteq items' \cup Known' /\ Known' = Known
    BY <2>1, <2>3, PersistFailsKeeps
  <2>5. WorkIsKnown' /\ RecordedBeforeSent'
    BY <1>1, <2>1, <2>2, <2>4, WorkKeeps
  <2> QED
    BY <2>4, <2>5, SafeFromParts
<1> QED
  BY <1>3, <1>5, <1>6, <1>7, <1>8
LEMMA SafeItemStep ==
    ASSUME SafeInv, Mode # "DRY_RUN", TypeInv', NEW w \in Workers, NEW e \in Events,
           ItemStep(w, e) \/ ItemFault(w, e)
    PROVE  SafeInv'
<1>1. /\ TypeInv /\ TypeOK /\ Works(w) /\ late \cup cop \subseteq Known
      /\ pass[w].kind \in Kinds /\ pass[w].todo \in SUBSET Events
  BY TypeParts DEF SafeInv, WorkIsKnown, RecordedBeforeSent, Known
<1>2. ASSUME obj' = [obj EXCEPT ![e] = AfterFailure(@)]
      PROVE  NothingDelivered \/ cop' # cop
  <2>1. AfterFailure(obj[e]).state \in {"DEAD_LETTER", "RETRY_SCHEDULED"}
    BY <1>1, AfterFailureType DEF TypeOK
  <2> QED
    BY <1>1, <1>2, <2>1
    DEF NothingDelivered, SafeInv, DeliveredMeansTaken, NeverValidated, TypeOK
<1>3. CASE ItemStored(w, e)
  <2>1. /\ up /\ persist /\ Proceed(w, pass[w].kind, pass[w].todo)
        /\ UNCHANGED <<up, cop, late, issued, waived, erased>>
    BY <1>3 DEF ItemStored, outside
  <2>2. items \cup Known \subseteq Known'
    BY <2>1, PersistKnows
  <2>3. pass[w].todo \subseteq Known'
    BY <1>1, <2>2 DEF Works
  <2>4. /\ Works(w)' /\ NothingDelivered
        /\ \A v \in Workers : v # w => pass'[v] = pass[v] /\ pc'[v] = pc[v]
    BY <1>1, <2>1, <2>3, ProceedWorks
  <2>5. QueueInv'
    BY <2>1, <2>4, PersistKeeps
  <2>6. WorkIsKnown' /\ RecordedBeforeSent'
    BY <1>1, <2>1, <2>2, <2>4, WorkKeeps
  <2> QED
    BY <2>5, <2>6, SafeFromParts
<1>4. CASE Claimed(w, e)
  <2>1. /\ up /\ persist /\ Goto(w, e, "sending") /\ pc[w][e] = "claiming"
        /\ UNCHANGED <<up, obj, cop, late, issued, waived, erased>>
    BY <1>4 DEF Claimed, At, outside
  <2>2. items \cup Known \subseteq Known'
    BY <2>1, PersistKnows
  <2>3. e \in Known' /\ "sending" \in Steps
    BY <1>1, <2>1, <2>2 DEF Works, Steps
  <2>4. /\ Works(w)'
        /\ \A v \in Workers : v # w => pass'[v] = pass[v] /\ pc'[v] = pc[v]
    BY <2>1, <2>2, <2>3, GotoWorks
  <2>5. NothingDelivered
    BY <2>1 DEF NothingDelivered, SafeInv, DeliveredMeansTaken, NeverValidated
  <2>6. QueueInv'
    BY <2>1, <2>5, PersistKeeps
  <2>7. WorkIsKnown' /\ RecordedBeforeSent'
    BY <1>1, <2>1, <2>2, <2>4, WorkKeeps
  <2> QED
    BY <2>6, <2>7, SafeFromParts
<1>5. CASE CopAnswers(w, e)
  <2>1. /\ pc[w][e] = "sending" /\ cop \subseteq cop' /\ cop' \subseteq cop \cup {e}
        /\ UNCHANGED <<up, items, obj, disk, late, issued, written, waived, erased>>
    BY <1>5 DEF CopAnswers, At, memory, history
  <2>2. NothingDelivered
    BY <2>1 DEF NothingDelivered, SafeInv, DeliveredMeansTaken, NeverValidated
  <2>3. QueueInv' /\ items \cup Known \subseteq items' \cup Known' /\ Known' = Known
    BY <2>1, <2>2, QueueKeeps
  <2>4. \/ Goto(w, e, "accepted") /\ e \in cop'
        \/ Goto(w, e, "duplicate") \/ Goto(w, e, "invalid")
    BY <1>5 DEF CopAnswers
  <2>5. {"accepted", "duplicate", "invalid"} \subseteq Steps
    BY DEF Steps
  <2>6. /\ Works(w)'
        /\ \A v \in Workers : v # w => pass'[v] = pass[v] /\ pc'[v] = pc[v]
    BY <2>1, <2>3, <2>4, <2>5, GotoWorks
  <2>7. late' \cup cop' \subseteq Known'
    BY <1>1, <2>1, <2>3 DEF Works
  <2>8. WorkIsKnown' /\ RecordedBeforeSent'
    BY <2>1, <2>3, <2>6, <2>7, WorkKeeps
  <2> QED
    BY <2>3, <2>8, SafeFromParts
<1>6. ASSUME NEW step \in {"storing", "failing"}, pc[w][e] # "idle",
             FinishDeferred(w, e) \/ Goto(w, e, step),
             late' \cup cop' \subseteq Known, cop \subseteq cop',
             NothingDelivered,
             UNCHANGED <<up, items, disk, issued, written, waived, erased>>
      PROVE  SafeInv'
  <2>1. QueueInv' /\ items \cup Known \subseteq items' \cup Known' /\ Known' = Known
    BY <1>6, QueueKeeps
  <2>2. step \in Steps
    BY DEF Steps
  <2>3. /\ Works(w)'
        /\ \A v \in Workers : v # w => pass'[v] = pass[v] /\ pc'[v] = pc[v]
    BY <1>6, <2>1, <2>2, GotoWorks, FinishWorks
  <2>4. WorkIsKnown' /\ RecordedBeforeSent'
    BY <1>6, <2>1, <2>3, WorkKeeps
  <2> QED
    BY <2>1, <2>4, SafeFromParts
<1>7. CASE SendSucceeds(w, e)
  <2>1. /\ pc[w][e] = "accepted" /\ obj' = [obj EXCEPT ![e].state = "SENT"]
        /\ FinishDeferred(w, e) \/ Goto(w, e, "storing")
        /\ UNCHANGED <<up, items, disk, cop, late, issued, written, waived, erased>>
    BY <1>7 DEF SendSucceeds, At, outside, history
  <2>2. e \in cop
    BY <1>1, <2>1 DEF Works
  <2>3. NothingDelivered
    BY <1>1, <2>1, <2>2
    DEF NothingDelivered, SafeInv, DeliveredMeansTaken, NeverValidated, TypeOK, Item
  <2> QED
    BY <1>1, <1>6, <2>1, <2>3
<1>8. CASE SendFails(w, e)
  <2>1. /\ pc[w][e] # "idle" /\ obj' = [obj EXCEPT ![e] = AfterFailure(@)]
        /\ FinishDeferred(w, e) \/ Goto(w, e, "failing")
        /\ UNCHANGED <<up, items, disk, cop, issued, written, waived, erased>>
    BY <1>8 DEF SendFails, history
  <2>2. late' \subseteq Known
    BY <1>1, <1>8 DEF SendFails, Works
  <2> QED
    BY <1>1, <1>2, <1>6, <2>1, <2>2
<1>9. CASE ItemNotStored(w, e)
  <2>1. /\ up /\ persistFails /\ Return(w)
        /\ UNCHANGED <<up, obj, cop, late, issued, waived, erased>>
    BY <1>9 DEF ItemNotStored, outside
  <2>2. /\ Works(w)'
        /\ \A v \in Workers : v # w => pass'[v] = pass[v] /\ pc'[v] = pc[v]
    BY <1>1, <2>1, ReturnWorks
  <2>3. NothingDelivered
    BY <2>1 DEF NothingDelivered, SafeInv, DeliveredMeansTaken, NeverValidated
  <2>4. QueueInv' /\ items \cup Known \subseteq items' \cup Known' /\ Known' = Known
    BY <2>1, <2>3, PersistFailsKeeps
  <2>5. WorkIsKnown' /\ RecordedBeforeSent'
    BY <1>1, <2>1, <2>2, <2>4, WorkKeeps
  <2> QED
    BY <2>4, <2>5, SafeFromParts
<1>10. CASE SentNotStored(w, e)
  <2>1. /\ up /\ persistFails /\ Goto(w, e, "failing") /\ pc[w][e] = "storing"
        /\ obj' = [obj EXCEPT ![e] = AfterFailure(@)]
        /\ UNCHANGED <<up, cop, late, issued, waived, erased>>
    BY <1>10 DEF SentNotStored, At, outside
  <2>2. NothingDelivered
    BY <1>2, <2>1
  <2>3. QueueInv' /\ items \cup Known \subseteq items' \cup Known' /\ Known' = Known
    BY <2>1, <2>2, PersistFailsKeeps
  <2>4. /\ Works(w)'
        /\ \A v \in Workers : v # w => pass'[v] = pass[v] /\ pc'[v] = pc[v]
    BY <2>1, <2>3, GotoWorks DEF Steps
  <2>5. WorkIsKnown' /\ RecordedBeforeSent'
    BY <1>1, <2>1, <2>3, <2>4, WorkKeeps
  <2> QED
    BY <2>3, <2>5, SafeFromParts
<1> QED
  BY <1>3, <1>4, <1>5, <1>7, <1>8, <1>9, <1>10 DEF ItemStep, ItemFault

\* A step that leaves the calls under way alone.
LEMMA CallsKeep ==
    ASSUME SafeInv, UNCHANGED <<pass, pc>>,
           items \cup Known \subseteq items' \cup Known',
           Known \subseteq Known', cop \subseteq cop',
           late' \cup cop' \subseteq Known'
    PROVE  WorkIsKnown' /\ RecordedBeforeSent'
<1>1. \A w \in Workers : Works(w)'
  BY DEF SafeInv, WorkIsKnown, Works
<1>2. InFlight' \subseteq Known'
  BY <1>1 DEF Works, InFlight
<1> QED
  BY <1>1, <1>2 DEF WorkIsKnown, RecordedBeforeSent, Known

LEMMA SafeOutsideStep ==
    ASSUME SafeInv, Mode # "DRY_RUN", TypeInv',
           \/ Operator
           \/ \E a \in AdminCalls : CallReturns(a) \/ CallThrows(a)
           \/ \E e \in Events : BecomesDue(e) \/ LateArrival(e)
           \/ Crash \/ load \/ loadFails
    PROVE  SafeInv'
<1>1. /\ TypeInv /\ TypeOK /\ disk \in Disk /\ disk.items \subseteq written
      /\ late \cup cop \subseteq Known
  BY TypeParts DEF SafeInv, RecordedBeforeSent, Known, TypeInv
<1>2. obj' = obj => NothingDelivered \/ ~(cop \subseteq cop')
  BY DEF NothingDelivered, SafeInv, DeliveredMeansTaken, NeverValidated
<1>3. CASE stopPublishing \/ enablePublishing
  <2>1. UNCHANGED <<up, items, obj, disk, pass, pc, cop, late, issued, written, waived, erased>>
    BY <1>3 DEF stopPublishing, enablePublishing, outside, history
  <2>2. QueueInv' /\ items \cup Known \subseteq items' \cup Known' /\ Known' = Known
    BY <1>2, <2>1, QueueKeeps
  <2> QED
    BY <1>1, <2>1, <2>2, CallsKeep, SafeFromParts
<1>4. CASE clearQueue
  <2>1. /\ items' = {} /\ waived' = waived \cup items
        /\ UNCHANGED <<up, obj, disk, pass, pc, cop, late, issued, written, erased>>
    BY <1>4 DEF clearQueue, outside
  <2>2. QueueInv'
    BY <1>1, <2>1 DEF SafeInv, QueueInv, DeliveredMeansTaken, NeverValidated,
       DurableUntilDelivered, RememberedUntilDelivered, DownIsEmpty, DiscardedStaysOut, TypeOK
  <2>3. items \cup Known \subseteq Known'
    BY <2>1 DEF Known
  <2> QED
    BY <1>1, <2>1, <2>2, <2>3, CallsKeep, SafeFromParts
<1>5. ASSUME NEW a \in AdminCalls, CallReturns(a)
      PROVE  SafeInv'
  <2>1. up /\ persist /\ UNCHANGED <<up, obj, pass, pc, cop, late, issued, waived, erased>>
    BY <1>5 DEF CallReturns, outside
  <2>2. QueueInv' /\ items \cup Known \subseteq Known'
    BY <1>2, <2>1, PersistKeeps, PersistKnows
  <2> QED
    BY <1>1, <2>1, <2>2, CallsKeep, SafeFromParts
<1>6. ASSUME NEW a \in AdminCalls, CallThrows(a)
      PROVE  SafeInv'
  <2>1. up /\ persistFails /\ UNCHANGED <<up, obj, pass, pc, cop, late, issued, waived, erased>>
    BY <1>6 DEF CallThrows, outside
  <2>2. QueueInv' /\ items \cup Known \subseteq items' \cup Known' /\ Known' = Known
    BY <1>2, <2>1, PersistFailsKeeps
  <2> QED
    BY <1>1, <2>1, <2>2, CallsKeep, SafeFromParts
<1>7. ASSUME NEW e \in Events, BecomesDue(e)
      PROVE  SafeInv'
  <2>1. UNCHANGED <<up, items, disk, pass, pc, cop, late, issued, written, waived, erased>>
    BY <1>7 DEF BecomesDue, calls, outside, history
  <2>2. NothingDelivered
    BY <1>1, <1>7, <2>1 DEF BecomesDue, NothingDelivered, SafeInv, DeliveredMeansTaken,
       NeverValidated, TypeOK, Item
  <2>3. QueueInv' /\ items \cup Known \subseteq items' \cup Known' /\ Known' = Known
    BY <2>1, <2>2, QueueKeeps
  <2> QED
    BY <1>1, <2>1, <2>3, CallsKeep, SafeFromParts
<1>8. ASSUME NEW e \in Events, LateArrival(e)
      PROVE  SafeInv'
  <2>1. /\ e \in late /\ late' = late \ {e} /\ cop' = cop \cup {e}
        /\ UNCHANGED <<up, items, obj, disk, pass, pc, issued, written, waived, erased>>
    BY <1>8 DEF LateArrival, memory, calls, history
  <2>2. QueueInv' /\ items \cup Known \subseteq items' \cup Known' /\ Known' = Known
    BY <1>2, <2>1, QueueKeeps
  <2>3. late' \cup cop' \subseteq Known' /\ cop \subseteq cop'
    BY <1>1, <2>1, <2>2
  <2> QED
    BY <2>1, <2>2, <2>3, CallsKeep, SafeFromParts
<1>9. CASE Crash
  <2>1. /\ up' = FALSE /\ items' = {} /\ obj' = [f \in Events |-> NoItem]
        /\ pass' = [w \in Workers |-> IdlePass]
        /\ pc' = [w \in Workers |-> [f \in Events |-> "idle"]]
        /\ late' \subseteq late \cup InFlight
        /\ UNCHANGED <<disk, cop, issued, written, waived, erased>>
    BY <1>9 DEF Crash, history
  <2>2. QueueInv'
    BY <2>1 DEF SafeInv, QueueInv, DeliveredMeansTaken, NeverValidated, NoItem,
       DurableUntilDelivered, RememberedUntilDelivered, DownIsEmpty, DiscardedStaysOut
  <2>3. WorkIsKnown' /\ InFlight' = {}
    BY <2>1 DEF WorkIsKnown, Works, IdlePass, InFlight
  <2>4. RecordedBeforeSent'
    BY <2>1, <2>3 DEF SafeInv, RecordedBeforeSent
  <2> QED
    BY <2>2, <2>3, <2>4, SafeFromParts
<1>10. CASE load
  <2>1. /\ ~up /\ waived' = waived \ disk.items
        /\ obj' = [f \in Events |-> recoverInterruptedSends(disk.obj[f])]
        /\ UNCHANGED <<pass, pc, cop, late, issued, written, erased>>
    BY <1>10 DEF load, calls, outside
  <2>2. /\ items' \subseteq disk.items
        /\ \A f \in disk.items \ items' : isDeliveredState(disk.obj[f].state)
    BY <1>10, SlicesAreSubsets DEF load
  <2>3. disk.items \ items' \subseteq cop
    BY <1>1, <2>2 DEF Disk, isDeliveredState, SafeInv, DeliveredMeansTaken, NeverValidated
  <2>4. NothingDelivered
    <3> SUFFICES ASSUME NEW f \in Events
                 PROVE  /\ obj'[f].state = "SENT" => f \in cop'
                        /\ obj'[f].state # "DRY_RUN_VALIDATED"
      BY DEF NothingDelivered
    <3>1. obj'[f] = disk.obj[f] \/ obj'[f].state = "RETRY_SCHEDULED"
      BY <1>1, <2>1, RecoverType DEF Disk
    <3> QED
      BY <2>1, <3>1 DEF SafeInv, DeliveredMeansTaken, NeverValidated
  <2>5. /\ disk'.items = items'
        /\ \A f \in Events : disk'.obj[f] \in {obj'[f], NoItem}
    BY <1>10 DEF load, Image
  <2>6. DeliveredMeansTaken' /\ NeverValidated'
    BY <2>1, <2>4, <2>5 DEF NothingDelivered, DeliveredMeansTaken, NeverValidated, NoItem
  <2>7. up' = TRUE /\ items = {}
    BY <1>10, <2>1 DEF load, SafeInv, DownIsEmpty
  <2>8. QueueInv'
    BY <1>1, <2>1, <2>2, <2>3, <2>5, <2>6, <2>7
    DEF SafeInv, QueueInv, DurableUntilDelivered, RememberedUntilDelivered, DownIsEmpty,
        DiscardedStaysOut
  <2>9. items \cup Known \subseteq Known'
    BY <1>1, <2>1, <2>7 DEF Known
  <2> QED
    BY <1>1, <2>1, <2>8, <2>9, CallsKeep, SafeFromParts
<1>11. CASE loadFails
  <2>1. /\ ~up /\ up' = TRUE /\ items' = {} /\ erased' = erased \cup disk.items
        /\ obj' = [f \in Events |-> NoItem] /\ disk' = Image(items', obj', enabled')
        /\ UNCHANGED <<pass, pc, cop, late, issued, written, waived>>
    BY <1>11 DEF loadFails, calls, outside
  <2>2. disk'.items = {} /\ \A f \in Events : disk'.obj[f] = NoItem /\ obj'[f] = NoItem
    BY <2>1 DEF Image
  <2>3. DeliveredMeansTaken' /\ NeverValidated'
    BY <2>2 DEF DeliveredMeansTaken, NeverValidated, NoItem
  <2>4. QueueInv' /\ items = {}
    BY <1>1, <2>1, <2>2, <2>3
    DEF SafeInv, QueueInv, DurableUntilDelivered, RememberedUntilDelivered, DownIsEmpty,
        DiscardedStaysOut, TypeOK
  <2>5. items \cup Known \subseteq Known'
    BY <2>1, <2>4 DEF Known
  <2> QED
    BY <1>1, <2>1, <2>4, <2>5, CallsKeep, SafeFromParts
<1> QED
  BY <1>3, <1>4, <1>5, <1>6, <1>7, <1>8, <1>9, <1>10, <1>11 DEF Operator
LEMMA SafeStep ==
    ASSUME Mode # "DRY_RUN"
    PROVE  SafeInv /\ [Next]_vars => SafeInv'
<1> SUFFICES ASSUME SafeInv, [Next]_vars PROVE SafeInv'
  OBVIOUS
<1>1. TypeInv'
  BY TypeStep DEF SafeInv
<1>2. CASE Next
  BY <1>1, <1>2, SafeWorkerStep, SafeItemStep, SafeOutsideStep DEF Next
<1>3. CASE UNCHANGED vars
  <2>1. QueueInv' /\ items \cup Known \subseteq items' \cup Known' /\ Known' = Known
    BY <1>3, QueueKeeps
    DEF vars, NothingDelivered, SafeInv, DeliveredMeansTaken, NeverValidated
  <2>2. late' \cup cop' \subseteq Known'
    BY <1>3 DEF vars, SafeInv, RecordedBeforeSent, Known
  <2> QED
    BY <1>1, <1>3, <2>1, <2>2, CallsKeep, SafeFromParts DEF vars
<1> QED
  BY <1>2, <1>3

\* The invariant the safety properties follow from.
THEOREM Safe ==
    ASSUME Mode # "DRY_RUN"
    PROVE  Spec => []SafeInv
<1>1. ConstantsAssumption /\ Init => SafeInv
  BY SafeInit
<1>2. SafeInv /\ [Next]_vars => SafeInv'
  BY SafeStep
<1> QED
  BY <1>1, <1>2, ConstantsAssumption, PTL DEF Spec

-----------------------------------------------------------------------------
(* The safety properties.                                                  *)

\* At-least-once delivery, whatever the mode: an event that was once in the
\* store file is there until the COP has it, it was cleared, or a failing load
\* emptied the file.
THEOREM EventsAreDurable == Spec => []DurableUntilDelivered
<1>1. CASE Mode # "DRY_RUN"
  <2>1. Spec => []SafeInv
    BY <1>1, Safe
  <2>2. SafeInv => DurableUntilDelivered
    BY DEF SafeInv
  <2> QED
    BY <2>1, <2>2, PTL
<1>2. CASE Mode = "DRY_RUN"
  <2>1. DurableUntilDelivered
    BY <1>2 DEF DurableUntilDelivered
  <2> QED
    BY <2>1, PTL
<1> QED
  BY <1>1, <1>2

\* No event reaches the COP, or may still reach it, that the store file never
\* held and no operator cleared.
THEOREM RecordedFirst ==
    ASSUME Mode # "DRY_RUN"
    PROVE  Spec => []RecordedBeforeSent
<1>1. SafeInv => RecordedBeforeSent
  BY DEF SafeInv
<1> QED
  BY <1>1, Safe, PTL

\* SENT, in memory or in the file, is never a guess.
THEOREM SentIsTaken ==
    ASSUME Mode # "DRY_RUN"
    PROVE  Spec => []DeliveredMeansTaken
<1>1. SafeInv => DeliveredMeansTaken
  BY DEF SafeInv
<1> QED
  BY <1>1, Safe, PTL

-----------------------------------------------------------------------------
(* The publisher implements DurableDelivery.                               *)

\* How far one step can move what the delivery promise is about.
Progress ==
    /\ cop \subseteq cop' /\ cop' \subseteq cop \cup Known
    /\ written \subseteq written' /\ written' \subseteq written \cup disk'.items
    /\ waived \subseteq waived' \cup disk.items
    /\ erased \subseteq erased'
    /\ disk'.items \subseteq disk.items \cup items
    /\ ~up => disk'.items \subseteq disk.items

LEMMA PersistProgress ==
    ASSUME SafeInv, up, persist \/ persistFails,
           UNCHANGED <<cop, waived, erased>>
    PROVE  Progress
<1>1. CASE persist
  BY <1>1, PersistFacts DEF Progress, SafeInv, TypeInv
<1>2. CASE persistFails
  BY <1>2, PersistFailsFacts DEF Progress, SafeInv, TypeInv
<1> QED
  BY <1>1, <1>2

LEMMA StepProgress ==
    ASSUME SafeInv, [Next]_vars
    PROVE  Progress
<1>1. ASSUME UNCHANGED <<cop, disk, written, waived, erased>>
      PROVE  Progress
  BY <1>1 DEF Progress
<1>2. ASSUME NEW w \in Workers,
             \/ Publish(w) \/ retryDueQueue(w) \/ OperatorPass(w)
             \/ PassStored(w) \/ PassNotStored(w)
      PROVE  Progress
  <2>1. CASE Publish(w) \/ retryDueQueue(w) \/ OperatorPass(w)
    BY <1>1, <2>1 DEF Publish, publishEvents, publishEvent, Enqueue, retryDueQueue,
       OperatorPass, retryQueue, processItem, outside, history
  <2>2. CASE PassStored(w) \/ PassNotStored(w)
    BY <2>2, PersistProgress DEF PassStored, PassNotStored, outside
  <2> QED
    BY <1>2, <2>1, <2>2
<1>3. ASSUME NEW w \in Workers, NEW e \in Events, ItemStep(w, e) \/ ItemFault(w, e)
      PROVE  Progress
  <2>1. CASE ItemStored(w, e) \/ Claimed(w, e) \/ ItemNotStored(w, e) \/ SentNotStored(w, e)
    BY <2>1, PersistProgress DEF ItemStored, Claimed, ItemNotStored, SentNotStored, At, outside
  <2>2. CASE SendSucceeds(w, e) \/ SendFails(w, e)
    BY <1>1, <2>2 DEF SendSucceeds, SendFails, outside, history
  <2>3. CASE CopAnswers(w, e)
    <3>1. e \in Known
      BY <2>3 DEF CopAnswers, At, SafeInv, WorkIsKnown, Works
    <3> QED
      BY <2>3, <3>1 DEF CopAnswers, Progress, history
  <2> QED
    BY <1>3, <2>1, <2>2, <2>3 DEF ItemStep, ItemFault
<1>4. CASE Operator
  BY <1>4 DEF Operator, stopPublishing, enablePublishing, clearQueue, Progress, outside, history
<1>5. ASSUME NEW a \in AdminCalls, CallReturns(a) \/ CallThrows(a)
      PROVE  Progress
  BY <1>5, PersistProgress DEF CallReturns, CallThrows, outside
<1>6. ASSUME NEW e \in Events, BecomesDue(e) \/ LateArrival(e)
      PROVE  Progress
  BY <1>6 DEF BecomesDue, LateArrival, Progress, Known, SafeInv, RecordedBeforeSent,
     outside, history
<1>7. CASE Crash
  BY <1>1, <1>7 DEF Crash, history
<1>8. CASE load
  <2>1. items' \subseteq disk.items /\ disk'.items = items'
    BY <1>8, SlicesAreSubsets DEF load, Image
  <2> QED
    BY <1>8, <2>1 DEF load, Progress, outside
<1>9. CASE loadFails
  <2>1. disk'.items = {}
    BY <1>9 DEF loadFails, Image
  <2> QED
    BY <1>9, <2>1 DEF loadFails, Progress, outside
<1>10. CASE UNCHANGED vars
  BY <1>1, <1>10 DEF vars
<1> QED
  BY <1>2, <1>3, <1>4, <1>5, <1>6, <1>7, <1>8, <1>9, <1>10 DEF Next

\* The fate of an event in the abstract specification.
Fate(e) ==
    IF e \in cop THEN "delivered"
    ELSE IF e \in disk.items THEN "recorded"
    ELSE IF e \in written \cup waived \cup erased THEN "discarded"
    ELSE "absent"

LEMMA FateMoves ==
    ASSUME SafeInv, SafeInv', Progress, Mode # "DRY_RUN", NEW e \in Events
    PROVE  \/ Fate(e)' = Fate(e)
           \/ Fate(e) = "absent" /\ Fate(e)' = "recorded"
           \/ Fate(e) = "recorded" /\ Fate(e)' = "delivered"
           \/ /\ Fate(e) \in {"absent", "recorded"} /\ Fate(e)' = "discarded"
              /\ e \in (waived \cup erased)'
           \/ Fate(e) = "discarded" /\ Fate(e)' = "delivered"
<1>1. /\ disk.items \subseteq written /\ disk'.items \subseteq written'
      /\ written \subseteq cop \cup waived \cup erased \cup disk.items
      /\ written' \subseteq cop' \cup waived' \cup erased' \cup disk'.items
      /\ up => items \cap (waived \cup erased) = {}
      /\ disk.items \cap erased = {}
  BY DEF SafeInv, TypeInv, DurableUntilDelivered, DiscardedStaysOut
<1>2. CASE e \in cop
  BY <1>2 DEF Fate, Progress
<1>3. CASE e \notin cop /\ e \in disk.items
  BY <1>1, <1>3 DEF Fate, Progress
<1>4. CASE e \notin cop /\ e \notin disk.items /\ e \in written \cup waived \cup erased
  BY <1>1, <1>4 DEF Fate, Progress
<1>5. CASE e \notin cop /\ e \notin disk.items /\ e \notin written \cup waived \cup erased
  BY <1>1, <1>5 DEF Fate, Progress, Known
<1> QED
  BY <1>2, <1>3, <1>4, <1>5

LEMMA StepDelivers ==
    ASSUME SafeInv, SafeInv', [Next]_vars, Mode # "DRY_RUN"
    PROVE  Delivery!DeliveryNext
<1>1. \A e \in Events : Delivery!Moves(e)
  BY StepProgress, FateMoves DEF Delivery!Moves, Fate
<1>2. (waived \cup erased)' \subseteq Events
  BY DEF SafeInv, TypeInv, TypeOK
<1> QED
  BY <1>1, <1>2 DEF Delivery!DeliveryNext, Delivery!Fates

\* In a publisher that delivers, each step records, delivers or discards what
\* the abstract specification allows, or changes nothing it speaks of.
THEOREM DeliveryImplemented ==
    ASSUME Mode # "DRY_RUN"
    PROVE  Spec => ImplementsDelivery
<1>1. Init => Delivery!DeliveryInit
  BY DEF Init, Image, Delivery!DeliveryInit
<1>2. SafeInv /\ SafeInv' /\ [Next]_vars
        => [Delivery!DeliveryNext]_(Delivery!deliveryVars)
  BY StepDelivers
<1> QED
  BY <1>1, <1>2, Safe, PTL DEF Spec, ImplementsDelivery, Delivery!DeliverySpec
-----------------------------------------------------------------------------
(* What operators rely on.                                                 *)

\* An event an operator cleared, once out of the store file, never comes back
\* to it, whatever calls still hold its item and write the file.
THEOREM ClearedStaysCleared ==
    ASSUME Mode # "DRY_RUN"
    PROVE  Spec => ClearedNeverReturns
<1>1. ASSUME SafeInv, [Next]_vars
      PROVE  waived \cap disk'.items \subseteq disk.items
  <2>1. /\ disk'.items \subseteq disk.items \cup items
        /\ ~up => disk'.items \subseteq disk.items
    BY <1>1, StepProgress DEF Progress
  <2>2. up => items \cap waived = {}
    BY <1>1 DEF SafeInv, DiscardedStaysOut
  <2> QED
    BY <2>1, <2>2
<1>2. SafeInv /\ [Next]_vars => [waived \cap disk'.items \subseteq disk.items]_vars
  BY <1>1
<1> QED
  BY <1>2, Safe, PTL DEF Spec, ClearedNeverReturns

\* A stop that has returned is in memory and in the file, where no restart
\* fails to read the file.
StopInv ==
    /\ TypeInv
    /\ stopped => ~disk.enabled /\ (up => ~enabled)
    /\ budget.load = 0

LEMMA SpendKeepsLoad ==
    ASSUME TypeOK, budget.load = 0,
           NEW kind \in {"crash", "write", "load", "call"}, Spend(kind)
    PROVE  kind # "load" /\ budget'.load = 0
BY DEF Spend, TypeOK

LEMMA PersistCopiesEnabled ==
    ASSUME persist
    PROVE  disk'.enabled = enabled
BY DEF persist, Image

\* While publishing is stopped, a pass begins its items without an attempt.
LEMMA ProceedChargesNothing ==
    ASSUME TypeOK, ~enabled, NEW w \in Workers, NEW kind, NEW todo, Proceed(w, kind, todo)
    PROVE  \A e \in Events : obj'[e].attempts <= obj[e].attempts
<1>1. \A e \in Events : obj[e].attempts \in Nat /\ Begin(obj[e]).attempts = obj[e].attempts
  BY DEF TypeOK, Begin, Item
<1>2. CASE UNCHANGED obj
  BY <1>1, <1>2
<1>3. ASSUME NEW C, obj' = [e \in Events |-> IF e \in C THEN Begin(obj[e]) ELSE obj[e]]
      PROVE  \A e \in Events : obj'[e].attempts <= obj[e].attempts
  BY <1>1, <1>3
<1> QED
  BY <1>2, <1>3 DEF Proceed

\* Only enablePublishing and a failing load undo a stop.
LEMMA StopStep == StopInv /\ [Next]_vars => StopInv'
<1> SUFFICES ASSUME StopInv, [Next]_vars PROVE StopInv'
  OBVIOUS
<1>1. TypeInv' /\ TypeOK /\ budget.load = 0
  BY TypeStep DEF StopInv, TypeInv
<1>2. ASSUME UNCHANGED <<up, enabled, stopped>>, budget'.load = 0,
             UNCHANGED disk \/ (up /\ persist)
      PROVE  StopInv'
  BY <1>1, <1>2, PersistCopiesEnabled DEF StopInv
<1>3. ASSUME persistFails PROVE budget'.load = 0 /\ disk' = disk
  BY <1>1, <1>3, SpendKeepsLoad DEF persistFails
<1>4. ASSUME NEW w \in Workers,
             \/ Publish(w) \/ retryDueQueue(w) \/ OperatorPass(w)
             \/ PassStored(w) \/ PassNotStored(w)
      PROVE  StopInv'
  <2>1. CASE Publish(w) \/ retryDueQueue(w) \/ PassStored(w)
    BY <1>1, <1>2, <2>1 DEF Publish, publishEvents, publishEvent, Enqueue,
       retryDueQueue, PassStored, history
  <2>2. CASE OperatorPass(w)
    BY <1>1, <1>2, <2>2, SpendKeepsLoad DEF OperatorPass, retryQueue, processItem, history
  <2>3. CASE PassNotStored(w)
    BY <1>2, <1>3, <2>3 DEF PassNotStored
  <2> QED
    BY <1>4, <2>1, <2>2, <2>3
<1>5. ASSUME NEW w \in Workers, NEW e \in Events, ItemStep(w, e) \/ ItemFault(w, e)
      PROVE  StopInv'
  <2>1. CASE ItemStep(w, e)
    BY <1>1, <1>2, <2>1 DEF ItemStep, ItemStored, Claimed, At, CopAnswers, SendSucceeds,
       SendFails, memory, history
  <2>2. CASE ItemFault(w, e)
    BY <1>2, <1>3, <2>2 DEF ItemFault, ItemNotStored, SentNotStored
  <2> QED
    BY <1>5, <2>1, <2>2
<1>6. CASE Operator
  <2>1. budget'.load = 0 /\ disk' = disk /\ up' = up
    BY <1>1, <1>6, SpendKeepsLoad DEF Operator, stopPublishing, enablePublishing, clearQueue, Call
  <2> QED
    BY <1>1, <1>6, <2>1 DEF Operator, stopPublishing, enablePublishing, clearQueue,
       StopInv, history
<1>7. ASSUME NEW a \in AdminCalls, CallReturns(a)
      PROVE  StopInv'
  BY <1>1, <1>7, PersistCopiesEnabled DEF CallReturns, StopInv
<1>8. ASSUME NEW a \in AdminCalls, CallThrows(a)
      PROVE  StopInv'
  BY <1>2, <1>3, <1>8 DEF CallThrows
<1>9. ASSUME NEW e \in Events, BecomesDue(e) \/ LateArrival(e)
      PROVE  StopInv'
  BY <1>1, <1>2, <1>9 DEF BecomesDue, LateArrival, memory, history
<1>10. CASE Crash
  BY <1>1, <1>10, SpendKeepsLoad DEF Crash, StopInv, history
<1>11. CASE load
  BY <1>1, <1>11 DEF load, Image, StopInv
<1>12. CASE loadFails
  BY <1>1, <1>12, SpendKeepsLoad DEF loadFails
<1>13. CASE UNCHANGED vars
  BY <1>1, <1>2, <1>13 DEF vars
<1> QED
  BY <1>4, <1>5, <1>6, <1>7, <1>8, <1>9, <1>10, <1>11, <1>12, <1>13 DEF Next

\* No step charges an attempt while a stop holds.
LEMMA StopChargesNothing ==
    ASSUME StopInv, [Next]_vars, up, stopped, NEW x \in Events
    PROVE  obj'[x].attempts <= obj[x].attempts
<1>1. TypeOK /\ ~enabled /\ obj[x].attempts \in Nat
  BY DEF StopInv, TypeInv, TypeOK, Item
<1>2. ASSUME obj'[x].attempts = obj[x].attempts PROVE obj'[x].attempts <= obj[x].attempts
  BY <1>1, <1>2
<1>3. ASSUME obj'[x] = NoItem \/ obj'[x] = NewItem PROVE obj'[x].attempts <= obj[x].attempts
  BY <1>1, <1>3 DEF NoItem, NewItem
<1>4. ASSUME NEW w \in Workers,
             \/ Publish(w) \/ retryDueQueue(w) \/ OperatorPass(w)
             \/ PassStored(w) \/ PassNotStored(w)
      PROVE  obj'[x].attempts <= obj[x].attempts
  <2>1. CASE Publish(w)
    BY <1>2, <1>3, <2>1 DEF Publish, publishEvents, publishEvent, Enqueue
  <2>2. CASE retryDueQueue(w) \/ OperatorPass(w) \/ PassStored(w)
    BY <1>1, <2>2, ProceedChargesNothing
    DEF retryDueQueue, OperatorPass, retryQueue, processItem, PassStored
  <2>3. CASE PassNotStored(w)
    BY <1>2, <2>3 DEF PassNotStored
  <2> QED
    BY <1>4, <2>1, <2>2, <2>3
<1>5. ASSUME NEW w \in Workers, NEW e \in Events, ItemStep(w, e) \/ ItemFault(w, e)
      PROVE  obj'[x].attempts <= obj[x].attempts
  <2>1. CASE ItemStored(w, e)
    BY <1>1, <2>1, ProceedChargesNothing DEF ItemStored
  <2>2. CASE Claimed(w, e) \/ CopAnswers(w, e) \/ ItemNotStored(w, e)
    BY <1>2, <2>2 DEF Claimed, CopAnswers, ItemNotStored, memory
  <2>3. CASE SendSucceeds(w, e)
    BY <1>1, <1>2, <2>3 DEF SendSucceeds, TypeOK, Item
  <2>4. CASE SendFails(w, e) \/ SentNotStored(w, e)
    <3>1. obj' = [obj EXCEPT ![e] = AfterFailure(@)]
      BY <2>4 DEF SendFails, SentNotStored
    <3>2. AfterFailure(obj[x]).attempts = obj[x].attempts
      BY <1>1 DEF AfterFailure, TypeOK, Item
    <3> QED
      BY <1>1, <1>2, <3>1, <3>2 DEF TypeOK
  <2> QED
    BY <1>5, <2>1, <2>2, <2>3, <2>4 DEF ItemStep, ItemFault
<1>6. CASE Operator \/ UNCHANGED vars \/ \E a \in AdminCalls : CallReturns(a) \/ CallThrows(a)
  BY <1>2, <1>6 DEF Operator, stopPublishing, enablePublishing, clearQueue, CallReturns,
     CallThrows, vars
<1>7. ASSUME NEW e \in Events, BecomesDue(e) \/ LateArrival(e)
      PROVE  obj'[x].attempts <= obj[x].attempts
  <2>1. CASE BecomesDue(e)
    <3>1. obj[x] \in Item /\ obj' = [obj EXCEPT ![e].due = TRUE]
      BY <1>1, <2>1 DEF BecomesDue, TypeOK
    <3>2. obj'[x].attempts = obj[x].attempts
      BY <1>1, <3>1 DEF TypeOK, Item
    <3> QED
      BY <1>2, <3>2
  <2>2. CASE LateArrival(e)
    BY <1>2, <2>2 DEF LateArrival, memory
  <2> QED
    BY <1>7, <2>1, <2>2
<1>8. CASE Crash
  BY <1>3, <1>8 DEF Crash
<1>9. ~load /\ ~loadFails
  BY DEF load, loadFails
<1> QED
  BY <1>4, <1>5, <1>6, <1>7, <1>8, <1>9 DEF Next

\* Once a stop has returned no attempt is charged to any item until publishing
\* is enabled, also after crashes, as long as restarts can read the store.
THEOREM StoppedMeansStopped ==
    ASSUME MaxLoadFailures = 0
    PROVE  Spec => StopHolds
<1>1. ConstantsAssumption /\ Init => StopInv
  BY TypeInit DEF StopInv, Init
<1>2. StopInv /\ [Next]_vars => StopInv'
  BY StopStep
<1>3. StopInv /\ [Next]_vars =>
        [up /\ stopped => \A e \in Events : obj'[e].attempts <= obj[e].attempts]_vars
  BY StopChargesNothing
<1> QED
  BY <1>1, <1>2, <1>3, ConstantsAssumption, PTL DEF Spec, StopHolds

-----------------------------------------------------------------------------
(* No item of the queue is left SENDING without a call that will settle it,*)
(* for any finite set of events, any number of calls, crashes, failing     *)
(* restarts and operator calls, as long as no write of the store fails: one*)
(* that fails while it stores SENDING abandons the item (index.ts:174).    *)

(* The awaits that follow SENDING and precede its settlement; a batch      *)
(* stands at no others.                                                    *)
Answering == {"sending", "accepted", "duplicate", "invalid"}
Holding == {"claiming"} \cup Answering

(* How a call stands: at an await of an item only while it works, a call   *)
(* other than a batch at one item at a time.                               *)
Shape(w) ==
    /\ pass[w].phase # "work" => \A e \in Events : pc[w][e] = "idle"
    /\ pass[w].kind # "batch" =>
          \A e, f \in Events : pc[w][e] # "idle" /\ pc[w][f] # "idle" => e = f
    /\ pass[w].kind = "batch" => \A e \in Events : pc[w][e] \in {"idle"} \cup Answering

Held(e) == \E w \in Workers : pc[w][e] \in Holding

(* Also for items that were cleared, which a call may still have in hand.  *)
SendingIsHeld == \A e \in Events : obj[e].state = "SENDING" => Held(e)

CallsInShape == \A w \in Workers : Shape(w)

OwnInv ==
    /\ TypeInv
    /\ CallsInShape
    /\ SendingIsHeld
    /\ budget["write"] = 0

-----------------------------------------------------------------------------
LEMMA OwnTypes ==
    ASSUME OwnInv
    PROVE  /\ obj \in [Events -> Item]
           /\ pass \in [Workers -> Pass]
           /\ pc \in [Workers -> [Events -> Steps]]
           /\ items \subseteq Events
           /\ disk.obj \in [Events -> Item]
           /\ budget \in [{"crash", "write", "load", "call"} -> Nat]
           /\ \A w \in Workers : pass[w].kind \in Kinds /\ pass[w].todo \subseteq Events
BY DEF OwnInv, TypeInv, TypeOK, Pass

LEMMA NoWriteFails ==
    ASSUME OwnInv
    PROVE  ~Spend("write") /\ ~persistFails
BY OwnTypes DEF OwnInv, Spend, persistFails

LEMMA SpendKeepsWrite ==
    ASSUME OwnInv, NEW kind \in {"crash", "load", "call"}, Spend(kind)
    PROVE  budget'["write"] = 0
BY OwnTypes DEF OwnInv, Spend

(* A bounded pass of one item takes exactly one.                           *)
LEMMA SliceOfOne ==
    ASSUME IsFiniteSet(Events), NEW todo \in SUBSET Events,
           NEW C \in Slices(todo, 1) \ {{}}
    PROVE  \E e \in Events : C = {e}
<1>1. C \in SUBSET todo /\ Cardinality(C) = Least(1, Cardinality(todo)) /\ C # {}
  BY DEF Slices
<1>2. IsFiniteSet(todo) /\ IsFiniteSet(C)
  BY <1>1, FS_Subset
<1>3. Cardinality(todo) \in Nat /\ Cardinality(C) \in Nat /\ Cardinality(C) # 0
  BY <1>1, <1>2, FS_CardinalityType, FS_EmptySet
<1>4. Cardinality(C) = 1
  BY <1>1, <1>3 DEF Least
<1>5. PICK e : C = {e}
  BY <1>2, <1>4, FS_Singleton
<1> QED
  BY <1>1, <1>5

-----------------------------------------------------------------------------
(* What the helpers keep.                                                  *)

(* A step that leaves the calls alone and starts no attempt.               *)
LEMMA StayOwns ==
    ASSUME OwnInv, pass' = pass, pc' = pc,
           \A e \in Events : obj'[e].state = "SENDING" => obj[e].state = "SENDING"
    PROVE  CallsInShape' /\ SendingIsHeld'
BY DEF OwnInv, CallsInShape, Shape, SendingIsHeld, Held

LEMMA GotoOwns ==
    ASSUME OwnInv, NEW w \in Workers, NEW e \in Events, NEW step \in Steps \ {"idle"},
           pc[w][e] # "idle",
           pass[w].kind = "batch" => step \in Answering,
           step \in Holding \/ obj'[e].state # "SENDING",
           \A f \in Events \ {e} : obj'[f] = obj[f],
           Goto(w, e, step)
    PROVE  CallsInShape' /\ SendingIsHeld'
<1>1. pass' = pass /\ pc' = [pc EXCEPT ![w][e] = step]
  BY DEF Goto
<1>2. /\ \A v \in Workers \ {w} : pc'[v] = pc[v]
      /\ \A f \in Events \ {e} : pc'[w][f] = pc[w][f]
      /\ pc'[w][e] = step
  BY <1>1, OwnTypes
<1>3. ASSUME NEW v \in Workers PROVE Shape(v)'
  <2>1. Shape(v)
    BY DEF OwnInv, CallsInShape
  <2>2. CASE v = w
    BY <1>1, <1>2, <2>1, <2>2 DEF Shape
  <2>3. CASE v # w
    BY <1>1, <1>2, <2>1, <2>3 DEF Shape
  <2> QED
    BY <2>2, <2>3
<1>4. ASSUME NEW f \in Events, obj'[f].state = "SENDING" PROVE Held(f)'
  <2>1. CASE f = e
    BY <1>2, <1>4, <2>1 DEF Held
  <2>2. CASE f # e
    <3>1. PICK v \in Workers : pc[v][f] \in Holding
      BY <1>4, <2>2 DEF OwnInv, SendingIsHeld, Held
    <3>2. pc'[v][f] = pc[v][f]
      BY <1>2, <2>2
    <3> QED
      BY <3>1, <3>2 DEF Held
  <2> QED
    BY <2>1, <2>2
<1> QED
  BY <1>3, <1>4 DEF CallsInShape, SendingIsHeld

LEMMA FinishOwns ==
    ASSUME OwnInv, NEW w \in Workers, NEW e \in Events,
           pc[w][e] # "idle", Deferred(w),
           obj'[e].state # "SENDING",
           \A f \in Events \ {e} : obj'[f] = obj[f],
           FinishDeferred(w, e)
    PROVE  CallsInShape' /\ SendingIsHeld'
<1>1. /\ pc' = [pc EXCEPT ![w][e] = "idle"]
      /\ pass' = [pass EXCEPT ![w].phase = IF Busy(w) = {e} THEN "flush" ELSE @]
  BY DEF FinishDeferred
<1>2. /\ \A v \in Workers \ {w} : pc'[v] = pc[v] /\ pass'[v] = pass[v]
      /\ \A f \in Events \ {e} : pc'[w][f] = pc[w][f]
      /\ pc'[w][e] = "idle"
      /\ pass'[w].kind = pass[w].kind
      /\ pass'[w].phase = IF Busy(w) = {e} THEN "flush" ELSE pass[w].phase
  BY <1>1, OwnTypes DEF Pass
<1>3. ASSUME NEW v \in Workers PROVE Shape(v)'
  <2>1. Shape(v)
    BY DEF OwnInv, CallsInShape
  <2>2. CASE v = w
    <3>1. pass[w].kind = "batch"
      BY DEF Deferred
    <3>2. \A f \in Events : pc'[w][f] \in {"idle"} \cup Answering
      BY <1>2, <2>1, <2>2, <3>1 DEF Shape
    <3>3. CASE Busy(w) = {e}
      <4>1. \A f \in Events : pc'[w][f] = "idle"
        BY <1>2, <3>3 DEF Busy
      <4> QED
        BY <1>2, <2>2, <3>1, <3>2, <4>1 DEF Shape
    <3>4. CASE Busy(w) # {e}
      BY <1>2, <2>1, <2>2, <3>1, <3>2, <3>4 DEF Shape
    <3> QED
      BY <3>3, <3>4
  <2>3. CASE v # w
    BY <1>2, <2>1, <2>3 DEF Shape
  <2> QED
    BY <2>2, <2>3
<1>4. ASSUME NEW f \in Events, obj'[f].state = "SENDING" PROVE Held(f)'
  <2>1. f # e
    BY <1>4
  <2>2. PICK v \in Workers : pc[v][f] \in Holding
    BY <1>4, <2>1 DEF OwnInv, SendingIsHeld, Held
  <2>3. pc'[v][f] = pc[v][f]
    BY <1>2, <2>1
  <2> QED
    BY <2>2, <2>3 DEF Held
<1> QED
  BY <1>3, <1>4 DEF CallsInShape, SendingIsHeld

(* A call that holds no item may go on with others: those it makes SENDING *)
(* it holds from then on.                                                  *)
LEMMA ProceedOwns ==
    ASSUME OwnInv, IsFiniteSet(Events),
           NEW w \in Workers, NEW kind \in Kinds, NEW todo \in SUBSET Events,
           \A e \in Events : pc[w][e] \notin Holding,
           Proceed(w, kind, todo)
    PROVE  CallsInShape' /\ SendingIsHeld'
<1>1. ASSUME NEW v \in Workers \ {w}, pass'[v] = pass[v], pc'[v] = pc[v] PROVE Shape(v)'
  BY <1>1 DEF OwnInv, CallsInShape, Shape
<1>2. CASE todo = {} /\ Return(w) /\ UNCHANGED obj
  <2>1. /\ \A v \in Workers \ {w} : pc'[v] = pc[v] /\ pass'[v] = pass[v]
        /\ pc'[w] = AllIdle /\ pass'[w] = IdlePass
    BY <1>2, OwnTypes DEF Return
  <2>2. Shape(w)'
    BY <2>1 DEF Shape, AllIdle, IdlePass
  <2>3. ASSUME NEW f \in Events, obj'[f].state = "SENDING" PROVE Held(f)'
    <3>1. PICK v \in Workers : pc[v][f] \in Holding
      BY <1>2, <2>3 DEF OwnInv, SendingIsHeld, Held
    <3>2. pc'[v][f] = pc[v][f]
      BY <2>1, <3>1
    <3> QED
      BY <3>1, <3>2 DEF Held
  <2> QED
    BY <1>1, <2>1, <2>2, <2>3 DEF CallsInShape, SendingIsHeld
<1>3. CASE ~(todo = {} /\ Return(w) /\ UNCHANGED obj)
  <2> DEFINE step == FirstStep(kind = "batch")
  <2>1. PICK C \in Slices(todo, IF kind = "batch" THEN Concurrency ELSE 1) \ {{}} :
          /\ obj' = [e \in Events |-> IF e \in C THEN Begin(obj[e]) ELSE obj[e]]
          /\ pc' = [pc EXCEPT ![w] = [e \in Events |-> IF e \in C THEN step ELSE "idle"]]
          /\ pass' = [pass EXCEPT ![w] =
                        [kind |-> kind, todo |-> todo \ C,
                         phase |-> IF step = "idle" THEN "flush" ELSE "work"]]
    BY <1>3 DEF Proceed
  <2>2. /\ kind = "batch" => step \in {"idle", "sending"}
        /\ kind # "batch" => step \in {"parking", "dry", "claiming"}
    BY ConstantsAssumption DEF FirstStep
  <2>3. enabled /\ Mode # "DRY_RUN" => step \in Holding
    BY DEF FirstStep, Holding, Answering
  <2>4. \A o \in Item : Begin(o).state = "SENDING" => enabled /\ Mode # "DRY_RUN"
    BY DEF Begin, Item
  <2> HIDE DEF step
  <2>5. /\ \A v \in Workers \ {w} : pc'[v] = pc[v] /\ pass'[v] = pass[v]
        /\ \A e \in Events : pc'[w][e] = IF e \in C THEN step ELSE "idle"
        /\ pass'[w].kind = kind
        /\ pass'[w].phase = IF step = "idle" THEN "flush" ELSE "work"
    BY <2>1, OwnTypes
  <2>6. Shape(w)'
    <3>1. CASE kind = "batch"
      BY <2>2, <2>5, <3>1 DEF Shape, Answering
    <3>2. CASE kind # "batch"
      <4>1. PICK e \in Events : C = {e}
        BY <2>1, <3>2, SliceOfOne
      <4> QED
        BY <2>2, <2>5, <3>2, <4>1 DEF Shape
    <3> QED
      BY <3>1, <3>2
  <2>7. ASSUME NEW f \in Events, obj'[f].state = "SENDING" PROVE Held(f)'
    <3>1. CASE f \in C
      <4>1. obj'[f] = Begin(obj[f]) /\ obj[f] \in Item
        BY <2>1, <3>1, OwnTypes
      <4>2. step \in Holding
        BY <2>3, <2>4, <2>7, <4>1
      <4> QED
        BY <2>5, <3>1, <4>2 DEF Held
    <3>2. CASE f \notin C
      <4>1. obj[f].state = "SENDING"
        BY <2>1, <2>7, <3>2
      <4>2. PICK v \in Workers : pc[v][f] \in Holding
        BY <4>1 DEF OwnInv, SendingIsHeld, Held
      <4>3. pc'[v][f] = pc[v][f]
        BY <2>5, <4>2
      <4> QED
        BY <4>2, <4>3 DEF Held
    <3> QED
      BY <3>1, <3>2
  <2> QED
    BY <1>1, <2>5, <2>6, <2>7 DEF CallsInShape, SendingIsHeld
<1> QED
  BY <1>2, <1>3

(* A call that has no item in hand, or one whose result it has stored.     *)
LEMMA NothingHeld ==
    ASSUME OwnInv, NEW w \in Workers,
           \/ pass[w].phase # "work"
           \/ \E e \in Events : pc[w][e] \in {"parking", "dry", "storing", "failing"}
    PROVE  \A e \in Events : pc[w][e] \notin Holding
<1>1. Shape(w)
  BY DEF OwnInv, CallsInShape
<1>2. CASE pass[w].phase # "work"
  BY <1>1, <1>2 DEF Shape, Holding, Answering
<1>3. CASE \E e \in Events : pc[w][e] \in {"parking", "dry", "storing", "failing"}
  <2>1. PICK e \in Events : pc[w][e] \in {"parking", "dry", "storing", "failing"}
    BY <1>3
  <2>2. pass[w].kind # "batch"
    BY <1>1, <2>1 DEF Shape, Answering
  <2>3. ASSUME NEW f \in Events, pc[w][f] \in Holding PROVE FALSE
    BY <1>1, <2>1, <2>2, <2>3 DEF Shape, Holding, Answering
  <2> QED
    BY <2>3
<1> QED
  BY <1>2, <1>3

-----------------------------------------------------------------------------
LEMMA OwnInitial == Init /\ MaxWriteFailures = 0 => OwnInv
<1> SUFFICES ASSUME Init, MaxWriteFailures = 0 PROVE OwnInv
  OBVIOUS
<1>1. TypeInv
  BY TypeInit, ConstantsAssumption
<1>2. CallsInShape
  BY DEF Init, CallsInShape, Shape, IdlePass
<1>3. SendingIsHeld
  BY DEF Init, SendingIsHeld, NoItem
<1> QED
  BY <1>1, <1>2, <1>3 DEF Init, OwnInv

LEMMA OwnWorkerStep ==
    ASSUME OwnInv, IsFiniteSet(Events), NEW w \in Workers,
           \/ Publish(w) \/ retryDueQueue(w) \/ OperatorPass(w)
           \/ PassStored(w) \/ PassNotStored(w)
    PROVE  CallsInShape' /\ SendingIsHeld' /\ budget'["write"] = 0
<1>1. budget["write"] = 0 /\ pass[w].kind \in Kinds /\ pass[w].todo \in SUBSET Events
  BY OwnTypes DEF OwnInv
<1>2. Free(w) => \A e \in Events : pc[w][e] \notin Holding
  BY NothingHeld DEF Free, IdlePass
<1>3. ASSUME NEW kind \in Kinds, NEW E \in SUBSET Events, Enqueue(w, kind, E)
      PROVE  CallsInShape' /\ SendingIsHeld' /\ budget'["write"] = 0
  <2>1. /\ Free(w) /\ pc' = pc /\ budget' = budget
        /\ pass' = [pass EXCEPT ![w] = [kind |-> kind, phase |-> "store", todo |-> E]]
        /\ obj' = [e \in Events |-> IF e \in E THEN NewItem ELSE obj[e]]
    BY <1>3 DEF Enqueue
  <2>2. \A e \in Events : pc[w][e] = "idle"
    BY <2>1 DEF OwnInv, CallsInShape, Shape, Free, IdlePass
  <2>3. ASSUME NEW v \in Workers PROVE Shape(v)'
    <3>1. CASE v = w
      BY <2>1, <2>2, <3>1, OwnTypes DEF Shape
    <3>2. CASE v # w
      <4>1. pass'[v] = pass[v] /\ pc'[v] = pc[v]
        BY <2>1, <3>2, OwnTypes
      <4> QED
        BY <4>1 DEF OwnInv, CallsInShape, Shape
    <3> QED
      BY <3>1, <3>2
  <2>4. SendingIsHeld'
    BY <2>1 DEF OwnInv, SendingIsHeld, Held, NewItem
  <2> QED
    BY <1>1, <2>1, <2>3, <2>4 DEF CallsInShape
<1>4. CASE Publish(w)
  <2>1. PICK kind \in Kinds, E \in SUBSET Events : Enqueue(w, kind, E)
    BY <1>4 DEF Publish, publishEvents, publishEvent, Kinds
  <2> QED
    BY <1>3, <2>1
<1>5. CASE retryDueQueue(w)
  <2>1. PICK C \in Slices(DueCandidates, DueLimit) : Proceed(w, "due", C)
    BY <1>5 DEF retryDueQueue
  <2>2. C \in SUBSET Events /\ "due" \in Kinds
    BY OwnTypes, SlicesAreSubsets DEF DueCandidates, Kinds
  <2>3. Free(w) /\ budget' = budget
    BY <1>5 DEF retryDueQueue
  <2> QED
    BY <1>1, <1>2, <2>1, <2>2, <2>3, ProceedOwns
<1>6. CASE retryQueue(w)
  <2>1. PICK S \in SUBSET RetryCandidates : Proceed(w, "operator", S)
    BY <1>6 DEF retryQueue
  <2>2. S \in SUBSET Events /\ "operator" \in Kinds
    BY OwnTypes DEF RetryCandidates, Kinds
  <2>3. Free(w) /\ budget'["write"] = 0
    BY <1>6, SpendKeepsWrite DEF retryQueue
  <2> QED
    BY <1>2, <2>1, <2>2, <2>3, ProceedOwns
<1>7. CASE processItem(w)
  <2>1. PICK e \in items : Proceed(w, "operator", {e})
    BY <1>7 DEF processItem
  <2>2. {e} \in SUBSET Events /\ "operator" \in Kinds
    BY OwnTypes DEF Kinds
  <2>3. Free(w) /\ budget'["write"] = 0
    BY <1>7, SpendKeepsWrite DEF processItem
  <2> QED
    BY <1>2, <2>1, <2>2, <2>3, ProceedOwns
<1>8. CASE PassStored(w)
  <2>1. /\ pass[w].phase # "work" /\ budget' = budget
        /\ Proceed(w, pass[w].kind, pass[w].todo)
    BY <1>8 DEF PassStored
  <2> QED
    BY <1>1, <2>1, NothingHeld, ProceedOwns
<1>9. CASE PassNotStored(w)
  BY <1>9, NoWriteFails DEF PassNotStored
<1> QED
  BY <1>4, <1>5, <1>6, <1>7, <1>8, <1>9 DEF OperatorPass

LEMMA OwnItemStep ==
    ASSUME OwnInv, IsFiniteSet(Events), NEW w \in Workers, NEW e \in Events,
           ItemStep(w, e) \/ ItemFault(w, e)
    PROVE  CallsInShape' /\ SendingIsHeld' /\ budget'["write"] = 0
<1>1. budget["write"] = 0 /\ pass[w].kind \in Kinds /\ pass[w].todo \in SUBSET Events
  BY OwnTypes DEF OwnInv
<1>2. pass[w].kind = "batch" => pc[w][e] \in {"idle"} \cup Answering
  BY DEF OwnInv, CallsInShape, Shape
<1>3. /\ \A x : obj' = [obj EXCEPT ![e] = x] =>
             obj'[e] = x /\ \A f \in Events \ {e} : obj'[f] = obj[f]
      /\ obj' = [obj EXCEPT ![e].state = "SENT"] =>
             obj'[e].state = "SENT" /\ \A f \in Events \ {e} : obj'[f] = obj[f]
  BY OwnTypes DEF Item
<1>4. obj[e] \in Item /\ \A o \in Item : AfterFailure(o).state # "SENDING"
  BY OwnTypes DEF AfterFailure, Item
<1>5. CASE ItemStored(w, e)
  <2>1. /\ pc[w][e] \in {"parking", "dry", "storing", "failing"} /\ budget' = budget
        /\ Proceed(w, pass[w].kind, pass[w].todo)
    BY <1>5 DEF ItemStored
  <2> QED
    BY <1>1, <2>1, NothingHeld, ProceedOwns
<1>6. CASE Claimed(w, e)
  <2>1. /\ pc[w][e] = "claiming" /\ Goto(w, e, "sending")
        /\ obj' = obj /\ budget' = budget
    BY <1>6 DEF Claimed, At
  <2> QED
    BY <1>1, <2>1, GotoOwns DEF Steps, Holding, Answering
<1>7. CASE CopAnswers(w, e)
  <2>1. /\ pc[w][e] = "sending" /\ obj' = obj /\ budget' = budget
        /\ \E step \in {"accepted", "duplicate", "invalid"} : Goto(w, e, step)
    BY <1>7 DEF CopAnswers, At, memory
  <2>2. PICK step \in {"accepted", "duplicate", "invalid"} : Goto(w, e, step)
    BY <2>1
  <2>3. step \in Steps \ {"idle"} /\ step \in Answering /\ step \in Holding
    BY DEF Steps, Holding, Answering
  <2> QED
    BY <1>1, <2>1, <2>2, <2>3, GotoOwns
<1>8. CASE SendSucceeds(w, e)
  <2>1. /\ pc[w][e] = "accepted" /\ budget' = budget
        /\ obj' = [obj EXCEPT ![e].state = "SENT"]
        /\ IF Deferred(w) THEN FinishDeferred(w, e) ELSE Goto(w, e, "storing")
    BY <1>8 DEF SendSucceeds, At
  <2>2. obj'[e].state # "SENDING" /\ \A f \in Events \ {e} : obj'[f] = obj[f]
    BY <1>3, <2>1
  <2>3. CASE Deferred(w)
    BY <1>1, <2>1, <2>2, <2>3, FinishOwns
  <2>4. CASE ~Deferred(w)
    <3>1. Goto(w, e, "storing") /\ pass[w].kind # "batch" /\ "storing" \in Steps \ {"idle"}
      BY <2>1, <2>4 DEF Deferred, Steps
    <3> QED
      BY <1>1, <2>1, <2>2, <3>1, GotoOwns
  <2> QED
    BY <2>3, <2>4
<1>9. CASE SendFails(w, e)
  <2>1. /\ pc[w][e] # "idle" /\ budget' = budget
        /\ obj' = [obj EXCEPT ![e] = AfterFailure(obj[e])]
        /\ IF Deferred(w) THEN FinishDeferred(w, e) ELSE Goto(w, e, "failing")
    BY <1>9 DEF SendFails
  <2>2. obj'[e].state # "SENDING" /\ \A f \in Events \ {e} : obj'[f] = obj[f]
    BY <1>3, <1>4, <2>1
  <2>3. CASE Deferred(w)
    BY <1>1, <2>1, <2>2, <2>3, FinishOwns
  <2>4. CASE ~Deferred(w)
    <3>1. Goto(w, e, "failing") /\ pass[w].kind # "batch" /\ "failing" \in Steps \ {"idle"}
      BY <2>1, <2>4 DEF Deferred, Steps
    <3> QED
      BY <1>1, <2>1, <2>2, <3>1, GotoOwns
  <2> QED
    BY <2>3, <2>4
<1>10. CASE ItemFault(w, e)
  BY <1>10, NoWriteFails DEF ItemFault, ItemNotStored, SentNotStored
<1> QED
  BY <1>5, <1>6, <1>7, <1>8, <1>9, <1>10 DEF ItemStep

LEMMA OwnOutsideStep ==
    ASSUME OwnInv,
           \/ Operator
           \/ \E a \in AdminCalls : CallReturns(a) \/ CallThrows(a)
           \/ \E e \in Events : BecomesDue(e) \/ LateArrival(e)
           \/ Crash \/ load \/ loadFails
    PROVE  CallsInShape' /\ SendingIsHeld' /\ budget'["write"] = 0
<1>1. budget["write"] = 0
  BY DEF OwnInv
<1>2. CASE Operator
  <2>1. pass' = pass /\ pc' = pc /\ obj' = obj
    BY <1>2 DEF Operator, stopPublishing, enablePublishing, clearQueue
  <2>2. Spend("call")
    BY <1>2 DEF Operator, stopPublishing, enablePublishing, clearQueue, Call
  <2> QED
    BY <2>1, <2>2, StayOwns, SpendKeepsWrite
<1>3. CASE \E a \in AdminCalls : CallReturns(a) \/ CallThrows(a)
  <2>1. PICK a \in AdminCalls : CallReturns(a)
    BY <1>3, NoWriteFails DEF CallThrows
  <2>2. pass' = pass /\ pc' = pc /\ obj' = obj /\ budget' = budget
    BY <2>1 DEF CallReturns
  <2> QED
    BY <1>1, <2>2, StayOwns
<1>4. CASE \E e \in Events : BecomesDue(e)
  <2>1. PICK e \in Events : BecomesDue(e)
    BY <1>4
  <2>2. /\ pass' = pass /\ pc' = pc /\ budget' = budget
        /\ obj' = [obj EXCEPT ![e].due = TRUE]
    BY <2>1 DEF BecomesDue, calls
  <2>3. \A f \in Events : obj'[f].state = obj[f].state
    BY <2>2, OwnTypes DEF Item
  <2> QED
    BY <1>1, <2>2, <2>3, StayOwns
<1>5. CASE \E e \in Events : LateArrival(e)
  <2>1. pass' = pass /\ pc' = pc /\ obj' = obj /\ budget' = budget
    BY <1>5 DEF LateArrival, memory, calls
  <2> QED
    BY <1>1, <2>1, StayOwns
<1>6. CASE Crash
  <2>1. /\ pass' = [w \in Workers |-> IdlePass]
        /\ pc' = [w \in Workers |-> [e \in Events |-> "idle"]]
        /\ obj' = [e \in Events |-> NoItem]
        /\ Spend("crash")
    BY <1>6 DEF Crash
  <2>2. CallsInShape'
    BY <2>1 DEF CallsInShape, Shape, IdlePass
  <2>3. SendingIsHeld'
    BY <2>1 DEF SendingIsHeld, NoItem
  <2> QED
    BY <2>1, <2>2, <2>3, SpendKeepsWrite
<1>7. CASE load
  <2>1. /\ pass' = pass /\ pc' = pc /\ budget' = budget
        /\ obj' = [e \in Events |-> recoverInterruptedSends(disk.obj[e])]
    BY <1>7 DEF load, calls
  <2>2. \A o \in Item : recoverInterruptedSends(o).state # "SENDING"
    BY DEF recoverInterruptedSends, Item
  <2>3. \A e \in Events : obj'[e].state # "SENDING"
    BY <2>1, <2>2, OwnTypes
  <2> QED
    BY <1>1, <2>1, <2>3, StayOwns
<1>8. CASE loadFails
  <2>1. /\ pass' = pass /\ pc' = pc /\ obj' = [e \in Events |-> NoItem] /\ Spend("load")
    BY <1>8 DEF loadFails, calls
  <2>2. \A e \in Events : obj'[e].state # "SENDING"
    BY <2>1 DEF NoItem
  <2> QED
    BY <2>1, <2>2, StayOwns, SpendKeepsWrite
<1> QED
  BY <1>2, <1>3, <1>4, <1>5, <1>6, <1>7, <1>8

LEMMA OwnStep ==
    ASSUME IsFiniteSet(Events), OwnInv, [Next]_vars
    PROVE  OwnInv'
<1>1. TypeInv'
  BY TypeStep DEF OwnInv
<1>2. CallsInShape' /\ SendingIsHeld' /\ budget'["write"] = 0
  <2>1. CASE Next
    BY <2>1, OwnWorkerStep, OwnItemStep, OwnOutsideStep DEF Next
  <2>2. CASE UNCHANGED vars
    BY <2>2, StayOwns DEF vars, OwnInv
  <2> QED
    BY <2>1, <2>2
<1> QED
  BY <1>1, <1>2 DEF OwnInv

(* Overlapping passes, operators, lost answers, crashes and restarts leave *)
(* no item SENDING that nobody will settle, if every write of the store    *)
(* ends well. retryDueQueue and retryQueue never take up such an item, so  *)
(* it would wait for the next restart.                                     *)
THEOREM SendingHasAnOwner ==
    ASSUME IsFiniteSet(Events), MaxWriteFailures = 0
    PROVE  Spec => []SendingIsOwned
<1>1. Init => OwnInv
  BY OwnInitial
<1>2. OwnInv /\ [Next]_vars => OwnInv'
  BY OwnStep
<1>3. OwnInv => SendingIsOwned
  <2> SUFFICES ASSUME OwnInv PROVE SendingIsOwned
    OBVIOUS
  <2>1. items \subseteq Events /\ SendingIsHeld
    BY OwnTypes DEF OwnInv
  <2> QED
    BY <2>1 DEF SendingIsHeld, Held, Holding, Answering, SendingIsOwned
<1> QED
  BY <1>1, <1>2, <1>3, PTL DEF Spec
=================================================================================
