-------------------------- MODULE ScenarioEventsProofs --------------------------
(***************************************************************************)
(* Theorems about ScenarioEvents: no track leaves the picture before it    *)
(* was reported lost, a hostile object ends with its interceptor, and the  *)
(* rates of the blocks bound the events of a run.                          *)
(***************************************************************************)
EXTENDS ScenarioEvents, FiniteSetTheorems, WellFoundedInduction, TLAPS

(* The scenario that is run, and what its objects are.                     *)
ScenarioTyped ==
    /\ scenario.blocks \in Seq(Blocks) /\ scenario.duration \in Nat \ {0}
    /\ life \in Nat \ {0}

LEMMA ScenarioTypes == EventsTypeOK => ScenarioTyped
BY EventsAssumption DEF EventsTypeOK, ScenarioTyped

LEMMA CountTyped ==
    ASSUME NEW block \in Blocks
    PROVE  cappedObjectCount(block) \in 0..MaxObjectsPerBlock
<1>1. block.objectCount \in Int /\ MaxObjectsPerBlock \in Nat
  BY EventsAssumption DEF Blocks
<1> QED
  BY <1>1 DEF cappedObjectCount, Clamp

LEMMA ObjectTyped ==
    ASSUME ScenarioTyped, NEW o \in ScenarioObjects
    PROVE  /\ o[1] \in DOMAIN scenario.blocks /\ Block(o) \in Blocks
           /\ o[2] \in Nat /\ o[2] < cappedObjectCount(Block(o)) /\ o = <<o[1], o[2]>>
<1>1. PICK b \in DOMAIN scenario.blocks :
          o \in {b} \X (0..(cappedObjectCount(scenario.blocks[b]) - 1))
  BY DEF ScenarioObjects
<1>2. o[1] = b /\ o[2] \in 0..(cappedObjectCount(scenario.blocks[b]) - 1) /\ o = <<o[1], o[2]>>
  BY <1>1
<1>3. scenario.blocks[b] \in Blocks
  BY <1>1 DEF ScenarioTyped
<1>4. cappedObjectCount(scenario.blocks[b]) \in Nat
  BY <1>3, CountTyped, EventsAssumption
<1> QED
  BY <1>1, <1>2, <1>3, <1>4 DEF Block

LEMMA ObjectsFinite ==
    ASSUME ScenarioTyped
    PROVE  IsFiniteSet(ScenarioObjects) /\ Cardinality(ScenarioObjects) \in Nat
<1>1. Len(scenario.blocks) \in Nat /\ DOMAIN scenario.blocks = 1..Len(scenario.blocks)
  BY DEF ScenarioTyped
<1> DEFINE box == (1..Len(scenario.blocks)) \X (0..MaxObjectsPerBlock)
<1>2. IsFiniteSet(box)
  <2>1. IsFiniteSet(1..Len(scenario.blocks)) /\ IsFiniteSet(0..MaxObjectsPerBlock)
    <3>1. MaxObjectsPerBlock \in Int /\ Len(scenario.blocks) \in Int /\ 0 \in Int /\ 1 \in Int
      BY <1>1, EventsAssumption
    <3>2. \A m, n \in Int : IsFiniteSet(m..n)
      BY FS_Interval
    <3> QED
      BY <3>1, <3>2, Zenon
  <2> QED
    BY <2>1, FS_Product
<1>3. ScenarioObjects \in SUBSET box
  <2> SUFFICES ASSUME NEW o \in ScenarioObjects
               PROVE  o \in box
    OBVIOUS
  <2>1. /\ o[1] \in DOMAIN scenario.blocks /\ Block(o) \in Blocks
        /\ o[2] \in Nat /\ o[2] < cappedObjectCount(Block(o)) /\ o = <<o[1], o[2]>>
    BY ObjectTyped
  <2>2. cappedObjectCount(Block(o)) \in 0..MaxObjectsPerBlock
    BY <2>1, CountTyped
  <2>3. o[2] \in 0..MaxObjectsPerBlock
    BY <2>1, <2>2, EventsAssumption
  <2> QED
    BY <1>1, <2>1, <2>3
<1> QED
  BY <1>2, <1>3, FS_Subset, FS_CardinalityType

LEMMA SomeObjects ==
    ASSUME ScenarioTyped, NEW S, S \subseteq ScenarioObjects
    PROVE  IsFiniteSet(S) /\ Cardinality(S) \in 0..Cardinality(ScenarioObjects)
<1>1. IsFiniteSet(S) /\ Cardinality(S) <= Cardinality(ScenarioObjects)
  BY ObjectsFinite, FS_Subset
<1> QED
  BY <1>1, ObjectsFinite, FS_CardinalityType

LEMMA RunnerTypes ==
    ASSUME EventsTypeOK
    PROVE  /\ runner.interval \in Nat \ {0} /\ runner.speed \in Nat \ {0}
           /\ Delta \in Nat \ {0} /\ record.tick \in Nat
<1>1. runner.interval \in 1..40 /\ runner.speed \in 1..200 /\ record.tick \in 0..MaxTick
  BY DEF EventsTypeOK
<1>2. runner.interval \in Nat \ {0} /\ runner.speed \in Nat \ {0}
  BY <1>1
<1>3. \A a, b \in Nat \ {0} : a * b \in Nat \ {0}
  OBVIOUS
<1> QED
  BY <1>1, <1>2, <1>3, EventsAssumption DEF Delta

(* What a tick does to the types.                                          *)
LEMMA TickTyped ==
    ASSUME ScenarioTyped, UNCHANGED scenario, NEW tick \in 0..MaxTick,
           NEW interval \in 1..40, NEW speed \in 1..200,
           NEW before \in [state: {"READY", "RUNNING", "STOPPED"}, tick: 0..MaxTick,
                           generated: Nat, active: 0..Cardinality(ScenarioObjects)],
           NEW sight \in [ScenarioObjects -> {Unreported, "ACTIVE", "LOST"}],
           publishTick(before, sight, tick, interval, speed)
    PROVE  /\ record' \in [state: {"READY", "RUNNING", "STOPPED"}, tick: 0..MaxTick,
                           generated: Nat, active: 0..Cardinality(ScenarioObjects)]
           /\ seen' \in [ScenarioObjects -> {Unreported, "ACTIVE", "LOST"}]
<1> DEFINE events == generateScenarioEvents(tick, interval, speed)
           elapsed == tick * interval * speed
           flying == {o \in ScenarioObjects : ~Expired(o, elapsed, interval * speed)}
<1>1. Cardinality(events) \in Nat
  BY SomeObjects, ObjectsFinite DEF generateScenarioEvents
<1>2. countActiveScenarioObjects(elapsed, interval * speed) \in 0..Cardinality(ScenarioObjects)
  <2>1. countActiveScenarioObjects(elapsed, interval * speed) = Cardinality(flying)
    BY DEF countActiveScenarioObjects
  <2>2. flying \subseteq ScenarioObjects
    OBVIOUS
  <2> HIDE DEF flying
  <2> QED
    BY <2>1, <2>2, SomeObjects
<1>3. /\ seen' = [o \in ScenarioObjects |->
                     IF o \in events THEN TrackStatus(o, elapsed) ELSE sight[o]]
      /\ record' = [before EXCEPT
              !.tick = tick, !.generated = @ + Cardinality(events),
              !.active = countActiveScenarioObjects(elapsed, interval * speed)]
  BY DEF publishTick
<1>4. \A o \in ScenarioObjects : TrackStatus(o, elapsed) \in {"ACTIVE", "LOST"}
  BY DEF TrackStatus
<1> HIDE DEF events, elapsed
<1>5. seen' \in [ScenarioObjects -> {Unreported, "ACTIVE", "LOST"}]
  BY <1>3, <1>4
<1>6. before.generated + Cardinality(events) \in Nat
  BY <1>1 DEF events
<1> DEFINE active == countActiveScenarioObjects(elapsed, interval * speed)
<1>7. active \in 0..Cardinality(ScenarioObjects)
  BY <1>2 DEF elapsed
<1>8. record' = [before EXCEPT !.tick = tick,
                               !.generated = before.generated + Cardinality(events),
                               !.active = active]
  BY <1>3
<1> HIDE DEF active
<1>9. record' \in [state: {"READY", "RUNNING", "STOPPED"}, tick: 0..MaxTick,
                   generated: Nat, active: 0..Cardinality(ScenarioObjects)]
  BY <1>6, <1>7, <1>8
<1> QED
  BY <1>5, <1>9

LEMMA ScenarioKept ==
    ASSUME UNCHANGED scenario
    PROVE  ScenarioObjects' = ScenarioObjects
BY DEF ScenarioObjects

LEMMA EventsInitTyped == EventsInit => EventsTypeOK
<1> SUFFICES ASSUME EventsInit
             PROVE  EventsTypeOK
  OBVIOUS
<1>1. ScenarioTyped
  BY EventsAssumption DEF EventsInit, ScenarioTyped
<1>2. Cardinality(ScenarioObjects) \in Nat
  BY <1>1, ObjectsFinite
<1> QED
  BY <1>2, EventsAssumption DEF EventsInit, EventsTypeOK, NoRecord, NothingSeen

LEMMA EventsStepTyped == EventsTypeOK /\ [EventsNext]_eventsVars => EventsTypeOK'
<1> SUFFICES ASSUME EventsTypeOK, [EventsNext]_eventsVars
             PROVE  EventsTypeOK'
  OBVIOUS
<1>1. ScenarioTyped
  BY ScenarioTypes
<1>2. Cardinality(ScenarioObjects) \in Nat
  BY <1>1, ObjectsFinite
<1>3. ASSUME NEW interval \in IntervalInputs, NEW speed \in SpeedInputs,
             start(interval, speed)
      PROVE  EventsTypeOK'
  <2>1. interval \in Int /\ speed \in Int
    BY EventsAssumption
  <2>2. /\ runner' = [interval |-> Clamp(interval, 1, 40), speed |-> Clamp(speed, 1, 200)]
        /\ UNCHANGED <<scenario, life>>
    BY <1>3 DEF start
  <2>3. runner'.interval \in 1..40 /\ runner'.speed \in 1..200
    <3>1. Clamp(interval, 1, 40) \in 1..40 /\ Clamp(speed, 1, 200) \in 1..200
      BY <2>1 DEF Clamp
    <3> QED
      BY <2>2, <3>1
  <2>4. publishTick([NoRecord EXCEPT !.state = "RUNNING"], NothingSeen, 0,
                    runner'.interval, runner'.speed)
    BY <1>3 DEF start
  <2>5. /\ [NoRecord EXCEPT !.state = "RUNNING"] \in
               [state: {"READY", "RUNNING", "STOPPED"}, tick: 0..MaxTick,
                generated: Nat, active: 0..Cardinality(ScenarioObjects)]
        /\ NothingSeen \in [ScenarioObjects -> {Unreported, "ACTIVE", "LOST"}]
        /\ 0 \in 0..MaxTick
    BY <1>2, EventsAssumption DEF NoRecord, NothingSeen
  <2>6. /\ record' \in [state: {"READY", "RUNNING", "STOPPED"}, tick: 0..MaxTick,
                        generated: Nat, active: 0..Cardinality(ScenarioObjects)]
        /\ seen' \in [ScenarioObjects -> {Unreported, "ACTIVE", "LOST"}]
    BY <1>1, <2>2, <2>3, <2>4, <2>5, TickTyped
  <2> QED
    BY <2>2, <2>3, <2>6, ScenarioKept DEF EventsTypeOK
<1>4. CASE publishNextTick
  <2>1. /\ record.tick + 1 \in 0..MaxTick
        /\ publishTick(record, seen, record.tick + 1, runner.interval, runner.speed)
        /\ UNCHANGED <<scenario, life, runner>>
    BY <1>4, EventsAssumption DEF publishNextTick, EventsTypeOK
  <2>2. runner.interval \in 1..40 /\ runner.speed \in 1..200
    BY DEF EventsTypeOK
  <2>3. /\ record' \in [state: {"READY", "RUNNING", "STOPPED"}, tick: 0..MaxTick,
                        generated: Nat, active: 0..Cardinality(ScenarioObjects)]
        /\ seen' \in [ScenarioObjects -> {Unreported, "ACTIVE", "LOST"}]
    BY <1>1, <2>1, <2>2, TickTyped DEF EventsTypeOK
  <2> QED
    BY <2>1, <2>3, ScenarioKept DEF EventsTypeOK
<1>5. CASE lastTick
  BY <1>5, ScenarioKept DEF lastTick, EventsTypeOK
<1>6. CASE resetRun
  BY <1>2, <1>6, ScenarioKept, EventsAssumption DEF resetRun, EventsTypeOK, NoRecord, NothingSeen
<1>7. CASE UNCHANGED eventsVars
  BY <1>7, ScenarioKept DEF eventsVars, EventsTypeOK
<1> QED
  BY <1>3, <1>4, <1>5, <1>6, <1>7 DEF EventsNext, stepRun, scheduledTick

(* Scenario, record and reports keep their types.                          *)
THEOREM EventsTyped == EventsSpec => []EventsTypeOK
BY EventsInitTyped, EventsStepTyped, PTL DEF EventsSpec

-----------------------------------------------------------------------------
(* Engagements. The two numberings are inverse to each other: the routes   *)
(* of ten hostile objects, but the tenth, meet nine interceptors.          *)
LEMMA NumbersMatch ==
    /\ \A i \in Nat : i % 10 # 9 => friendlyIndexToHostileIndex(hostileIndexToFriendlyIndex(i)) = i
    /\ \A f \in Nat : /\ friendlyIndexToHostileIndex(f) % 10 # 9
                      /\ hostileIndexToFriendlyIndex(friendlyIndexToHostileIndex(f)) = f
BY DEF friendlyIndexToHostileIndex, hostileIndexToFriendlyIndex

(* Whoever names another is named by it, and the two have one route.       *)
LEMMA NamesBack ==
    ASSUME ScenarioTyped, NEW o \in ScenarioObjects, NEW p \in ScenarioObjects, Names(o, p)
    PROVE  /\ Names(p, o)
           /\ PairIndex(o) = PairIndex(p)
           /\ Block(o).family = Block(p).family
           /\ {Block(o).role, Block(p).role} = {"HOSTILE_INBOUND", "FRIEND_INTERCEPTOR"}
<1>1. o[2] \in Nat /\ p[2] \in Nat
  BY ObjectTyped
<1>2. /\ IsIntercepted(o) /\ Block(o).family = Block(p).family /\ p[2] = PairedIndex(o)
      /\ {Block(o).role, Block(p).role} = {"HOSTILE_INBOUND", "FRIEND_INTERCEPTOR"}
  BY DEF Names
<1>3. CASE Block(o).role = "HOSTILE_INBOUND" /\ Block(p).role = "FRIEND_INTERCEPTOR"
  <2>1. o[2] % 10 # 9 /\ PairIndex(o) = o[2]
    BY <1>2, <1>3 DEF IsIntercepted, PairIndex, isDestroyedHostileIndex
  <2>2. p[2] = hostileIndexToFriendlyIndex(o[2])
    BY <1>2, <1>3, <2>1 DEF PairedIndex
  <2>3. PairIndex(p) = o[2]
    BY <1>1, <1>3, <2>1, <2>2, NumbersMatch DEF PairIndex
  <2>4. IsIntercepted(p) /\ PairedIndex(p) = o[2]
    BY <1>3, <2>3 DEF IsIntercepted, PairedIndex
  <2> QED
    BY <1>2, <2>1, <2>3, <2>4 DEF Names
<1>4. CASE Block(o).role = "FRIEND_INTERCEPTOR" /\ Block(p).role = "HOSTILE_INBOUND"
  <2>1. p[2] = friendlyIndexToHostileIndex(o[2]) /\ PairIndex(o) = p[2] /\ PairIndex(p) = p[2]
    BY <1>2, <1>4 DEF PairedIndex, PairIndex
  <2>2. p[2] % 10 # 9 /\ hostileIndexToFriendlyIndex(p[2]) = o[2]
    BY <1>1, <2>1, NumbersMatch
  <2>3. IsIntercepted(p) /\ PairedIndex(p) = o[2]
    BY <1>4, <2>1, <2>2 DEF IsIntercepted, PairedIndex, isDestroyedHostileIndex
  <2> QED
    BY <1>2, <2>1, <2>3 DEF Names
<1> QED
  BY <1>2, <1>3, <1>4

(* The two of an engagement leave the picture at the same moment.          *)
LEMMA PairAlike ==
    ASSUME ScenarioTyped, NEW o \in ScenarioObjects, NEW p \in ScenarioObjects, Names(o, p),
           NEW elapsed, NEW delta
    PROVE  /\ Expired(o, elapsed, delta) <=> Expired(p, elapsed, delta)
           /\ TrackStatus(o, elapsed) = TrackStatus(p, elapsed)
<1>1. /\ Names(p, o) /\ PairIndex(o) = PairIndex(p) /\ Block(o).family = Block(p).family
      /\ Block(o).role # "SHORT_LIVED_TRACK" /\ Block(p).role # "SHORT_LIVED_TRACK"
  BY NamesBack
<1>2. Terminates(o) /\ Terminates(p)
  BY <1>1 DEF Names, Terminates
<1>3. EndsAt(o) = EndsAt(p)
  BY <1>1 DEF EndsAt
<1>4. TwiceLostWindow(o, delta) = TwiceLostWindow(p, delta)
  BY <1>1 DEF TwiceLostWindow
<1> QED
  BY <1>2, <1>3, <1>4 DEF Expired, TrackStatus

(* A tick that starts from pairs seen alike leaves them seen alike.        *)
LEMMA TickPairs ==
    ASSUME ScenarioTyped, UNCHANGED scenario, NEW before, NEW sight,
           NEW tick, NEW interval, NEW speed, publishTick(before, sight, tick, interval, speed),
           NEW o \in ScenarioObjects, NEW p \in ScenarioObjects, Names(o, p),
           Block(o).rate = Block(p).rate, sight[o] = sight[p]
    PROVE  seen'[o] = seen'[p]
<1> DEFINE events == generateScenarioEvents(tick, interval, speed)
           elapsed == tick * interval * speed
<1>1. seen' = [q \in ScenarioObjects |->
                  IF q \in events THEN TrackStatus(q, elapsed) ELSE sight[q]]
  BY DEF publishTick
<1>2. shouldEmitBlock(Block(o), tick, interval) <=> shouldEmitBlock(Block(p), tick, interval)
  BY DEF shouldEmitBlock, IntervalTicks
<1>3. /\ Expired(o, elapsed, interval * speed) <=> Expired(p, elapsed, interval * speed)
      /\ TrackStatus(o, elapsed) = TrackStatus(p, elapsed)
  BY PairAlike
<1>4. o \in events <=> p \in events
  BY <1>2, <1>3 DEF generateScenarioEvents
<1> HIDE DEF events, elapsed
<1> QED
  BY <1>1, <1>3, <1>4

LEMMA NamesKept ==
    ASSUME UNCHANGED scenario, NEW o, NEW p
    PROVE  /\ Names(o, p)' <=> Names(o, p)
           /\ Block(o)' = Block(o)
BY DEF Names, Block, IsIntercepted, PairedIndex, PairIndex

PairsInv == EventsTypeOK /\ PairsEndTogether

LEMMA PairsInitInv == EventsInit => PairsInv
<1> SUFFICES ASSUME EventsInit
             PROVE  PairsInv
  OBVIOUS
<1>1. EventsTypeOK /\ ScenarioTyped
  BY EventsInitTyped, ScenarioTypes
<1>2. \A o, p \in ScenarioObjects : Names(o, p) => Names(p, o) /\ seen[o] = seen[p]
  BY <1>1, NamesBack DEF EventsInit, NothingSeen
<1> QED
  BY <1>1, <1>2 DEF PairsInv, PairsEndTogether

LEMMA PairsStepInv == PairsInv /\ [EventsNext]_eventsVars => PairsInv'
<1> SUFFICES ASSUME PairsInv, [EventsNext]_eventsVars
             PROVE  PairsInv'
  OBVIOUS
<1>1. EventsTypeOK /\ ScenarioTyped /\ EventsTypeOK'
  BY ScenarioTypes, EventsStepTyped DEF PairsInv
<1>2. UNCHANGED scenario
  BY DEF EventsNext, stepRun, scheduledTick, publishNextTick, start, lastTick, resetRun, eventsVars
<1>3. ASSUME NEW o \in ScenarioObjects, NEW p \in ScenarioObjects, Names(o, p),
             Block(o).rate = Block(p).rate
      PROVE  seen'[o] = seen'[p]
  <2>1. seen[o] = seen[p]
    BY <1>3 DEF PairsInv, PairsEndTogether
  <2>2. NothingSeen[o] = NothingSeen[p]
    BY DEF NothingSeen
  <2>3. ASSUME NEW interval \in IntervalInputs, NEW speed \in SpeedInputs,
               start(interval, speed)
        PROVE  seen'[o] = seen'[p]
    <3>1. publishTick([NoRecord EXCEPT !.state = "RUNNING"], NothingSeen, 0,
                      runner'.interval, runner'.speed)
      BY <2>3 DEF start
    <3> QED
      BY <1>1, <1>2, <1>3, <2>2, <3>1, TickPairs
  <2>4. CASE publishNextTick
    <3>1. publishTick(record, seen, record.tick + 1, runner.interval, runner.speed)
      BY <2>4 DEF publishNextTick
    <3> QED
      BY <1>1, <1>2, <1>3, <2>1, <3>1, TickPairs
  <2>5. CASE resetRun
    BY <1>2, <2>2, <2>5 DEF resetRun
  <2>6. CASE UNCHANGED seen
    BY <2>1, <2>6
  <2> QED
    BY <2>3, <2>4, <2>5, <2>6 DEF EventsNext, stepRun, scheduledTick, lastTick, eventsVars
<1>4. \A o, p \in ScenarioObjects : Names(o, p) => Names(p, o)
  BY <1>1, NamesBack
<1>5. PairsEndTogether'
  <2> SUFFICES ASSUME NEW o \in ScenarioObjects, NEW p \in ScenarioObjects, Names(o, p)'
               PROVE  Names(p, o)' /\ (Block(o)'.rate = Block(p)'.rate => seen'[o] = seen'[p])
    BY <1>2, ScenarioKept DEF PairsEndTogether
  <2> QED
    BY <1>2, <1>3, <1>4, NamesKept
<1> QED
  BY <1>1, <1>5 DEF PairsInv

(* For any scenarios: a hostile object and the interceptor it names name   *)
(* each other (buildCustomRoute), and no tick reports one of them as lost  *)
(* and the other as flying, when their blocks report at one rate.          *)
THEOREM EngagementsEndTogether == EventsSpec => []PairsEndTogether
<1>1. PairsInv => PairsEndTogether
  BY DEF PairsInv
<1> QED
  BY <1>1, PairsInitInv, PairsStepInv, PTL DEF EventsSpec

-----------------------------------------------------------------------------
(* The end of a track. Once a tick fell between its end and the end of its *)
(* window, and its block reports in that tick, it stays seen as lost.      *)
LostOnceReported ==
    \A o \in ScenarioObjects, m \in 1..record.tick :
        /\ Terminates(o) /\ m % IntervalTicks(Block(o), runner.interval) = 0
        /\ m * Delta >= EndsAt(o) /\ ~Expired(o, m * Delta, Delta)
        => seen[o] = "LOST"

LostInv == EventsTypeOK /\ LostOnceReported

LEMMA MaxOfTwo ==
    \A a, b \in Int : Max({a, b}) \in {a, b} /\ Max({a, b}) >= a /\ Max({a, b}) >= b
<1> TAKE a, b \in Int
<1>1. \E x \in {a, b} : \A y \in {a, b} : x >= y
  OBVIOUS
<1> QED
  BY <1>1 DEF Max

LEMMA MinOfTwo ==
    \A a, b \in Int : Min({a, b}) \in {a, b}
<1> TAKE a, b \in Int
<1>1. \E x \in {a, b} : \A y \in {a, b} : x =< y
  OBVIOUS
<1> QED
  BY <1>1 DEF Min

LEMMA Monotonic ==
    /\ \A a, b, c \in Nat : a <= b => a * c <= b * c
    /\ \A a, b, c \in Int : a * b * c = a * (b * c)
    /\ \A a, b \in Nat : b > 0 => (a * b) % b = 0
OBVIOUS

LEMMA LeastElement ==
    ASSUME NEW T, T \subseteq Nat, T # {}
    PROVE  \E x \in T : \A y \in T : x <= y
<1> DEFINE below == {0..k : k \in T}
<1>1. IsWellFoundedOn(StrictSubsetOrdering(Nat), FiniteSubsetsOf(Nat))
  BY FS_StrictSubsetOrderingWellFounded
<1>2. below \subseteq FiniteSubsetsOf(Nat) /\ below # {}
  <2>1. \A m, n \in Int : IsFiniteSet(m..n)
    BY FS_Interval
  <2>2. \A k \in T : IsFiniteSet(0..k) /\ 0..k \in SUBSET Nat
    <3> TAKE k \in T
    <3>1. k \in Int /\ 0 \in Int
      OBVIOUS
    <3>2. IsFiniteSet(0..k)
      BY <2>1, <3>1, Zenon
    <3> QED
      BY <3>2
  <2> QED
    BY <2>2 DEF FiniteSubsetsOf
<1>3. PICK x \in below : \A y \in below : <<y, x>> \notin StrictSubsetOrdering(Nat)
  <2> HIDE DEF below
  <2> QED
    BY <1>1, <1>2, WFMin
<1>4. PICK k \in T : x = 0..k
  BY <1>3
<1>5. ASSUME NEW j \in T, j < k
      PROVE  FALSE
  <2>1. 0..j \in below /\ 0..j \in SUBSET Nat /\ 0..k \in SUBSET Nat
    OBVIOUS
  <2>2. 0..j \subseteq 0..k /\ k \notin 0..j /\ k \in 0..k
    BY <1>5
  <2>3. <<0..j, x>> \in StrictSubsetOrdering(Nat)
    BY <1>4, <2>1, <2>2 DEF StrictSubsetOrdering
  <2> QED
    BY <1>3, <2>1, <2>3
<1> QED
  BY <1>4, <1>5

(* Ticks between reports, ends and windows are numbers above 0.            *)
LEMMA TicksTyped ==
    ASSUME NEW block \in Blocks, NEW interval \in Nat \ {0}
    PROVE  IntervalTicks(block, interval) \in Nat \ {0}
<1> DEFINE perTick == block.rate * interval
<1>1. perTick \in Nat \ {0}
  BY DEF Blocks
<1> HIDE DEF perTick
<1>2. (2 * Second + perTick) \div (2 * perTick) \in Nat
  BY <1>1 DEF Second
<1> DEFINE rounded == (2 * Second + perTick) \div (2 * perTick)
<1>3. Max({1, rounded}) \in Nat \ {0}
  <2>1. rounded \in Int /\ 1 \in Int
    BY <1>2
  <2> HIDE DEF rounded
  <2>2. Max({1, rounded}) \in {1, rounded} /\ Max({1, rounded}) >= 1
    BY <2>1, MaxOfTwo, Zenon
  <2> QED
    BY <2>1, <2>2
<1> QED
  BY <1>3 DEF IntervalTicks, perTick

LEMMA EndTyped ==
    ASSUME ScenarioTyped, NEW o \in ScenarioObjects
    PROVE  EndsAt(o) \in Nat \ {0}
<1>1. o[2] \in Nat
  BY ObjectTyped
<1>2. PairIndex(o) \in Nat
  <2>1. friendlyIndexToHostileIndex(o[2]) \in Nat
    BY <1>1 DEF friendlyIndexToHostileIndex
  <2> QED
    BY <1>1, <2>1 DEF PairIndex
<1> DEFINE route == PairIndex(o) % RouteCount
           wave == PairIndex(o) \div RouteCount
           family == Block(o).family
           planned == IF family = "missile" THEN 100 + route * 12 + wave * 50
                                            ELSE 1220 + route * 65 + wave * 220
           latest == Max({30, scenario.duration - 30})
<1>3. route \in Nat /\ wave \in Nat
  BY <1>2, EventsAssumption
<1>4. planned \in Nat \ {0}
  <2> HIDE DEF route, wave
  <2> QED
    BY <1>3
<1>5. latest \in Nat \ {0}
  <2>1. scenario.duration - 30 \in Int /\ 30 \in Int
    BY DEF ScenarioTyped
  <2>2. latest \in {30, scenario.duration - 30} /\ latest >= 30
    BY <2>1, MaxOfTwo, Zenon
  <2> QED
    BY <2>1, <2>2
<1>6. Min({latest, planned}) \in Nat \ {0}
  <2> HIDE DEF latest, planned
  <2> QED
    BY <1>4, <1>5, MinOfTwo
<1>7. terminalAtSecondsForUkraineDemo(family, PairIndex(o)) \in Nat \ {0}
  BY <1>6 DEF terminalAtSecondsForUkraineDemo
<1>8. life \in Nat \ {0}
  BY DEF ScenarioTyped
<1> QED
  BY <1>7, <1>8 DEF EndsAt, Second

LEMMA WindowTyped ==
    ASSUME NEW o, NEW delta \in Nat
    PROVE  /\ TwiceLostWindow(o, delta) \in Nat
           /\ TwiceLostWindow(o, delta) >= 2 * Second /\ TwiceLostWindow(o, delta) >= 3 * delta
<1> DEFINE shortest == 2 * Second * (IF Block(o).role = "SHORT_LIVED_TRACK" THEN 1 ELSE 2)
<1>1. shortest \in Nat /\ shortest >= 2 * Second /\ 3 * delta \in Nat
  BY DEF Second
<1> HIDE DEF shortest
<1>2. Max({shortest, 3 * delta}) \in {shortest, 3 * delta} /\ Max({shortest, 3 * delta}) >= shortest
      /\ Max({shortest, 3 * delta}) >= 3 * delta
  BY <1>1, MaxOfTwo
<1>3. TwiceLostWindow(o, delta) = Max({shortest, 3 * delta})
  BY DEF TwiceLostWindow, shortest
<1> QED
  BY <1>1, <1>2, <1>3 DEF Second

(* A track that has ended but is not gone is reported as lost by any tick  *)
(* in which its block reports.                                             *)
LEMMA ReportedAsLost ==
    ASSUME NEW o \in ScenarioObjects, Block(o) \in Blocks, NEW tick \in Nat \ {0},
           NEW interval, NEW speed,
           Terminates(o), tick % IntervalTicks(Block(o), interval) = 0,
           tick * interval * speed >= EndsAt(o),
           ~Expired(o, tick * interval * speed, interval * speed)
    PROVE  /\ o \in generateScenarioEvents(tick, interval, speed)
           /\ TrackStatus(o, tick * interval * speed) = "LOST"
<1>1. shouldEmitBlock(Block(o), tick, interval)
  BY DEF shouldEmitBlock, Blocks
<1> QED
  BY <1>1 DEF generateScenarioEvents, TrackStatus

LEMMA LostInitInv == EventsInit => LostInv
BY EventsInitTyped DEF EventsInit, LostInv, LostOnceReported, NoRecord

LEMMA LostStepInv == LostInv /\ [EventsNext]_eventsVars => LostInv'
<1> SUFFICES ASSUME LostInv, [EventsNext]_eventsVars
             PROVE  LostInv'
  OBVIOUS
<1>1. EventsTypeOK /\ ScenarioTyped /\ EventsTypeOK'
  BY ScenarioTypes, EventsStepTyped DEF LostInv
<1>2. UNCHANGED <<scenario, life>>
  BY DEF EventsNext, stepRun, scheduledTick, publishNextTick, start, lastTick, resetRun, eventsVars
<1>3. \A o : /\ Block(o)' = Block(o) /\ EndsAt(o)' = EndsAt(o)
             /\ Terminates(o)' = Terminates(o)
  BY <1>2 DEF Block, EndsAt, Terminates, IsIntercepted, PairIndex, terminalAtSecondsForUkraineDemo
<1>4. \A o, elapsed, delta : Expired(o, elapsed, delta)' = Expired(o, elapsed, delta)
  BY <1>3 DEF Expired, TwiceLostWindow
<1>5. ASSUME record'.tick = 0
      PROVE  LostOnceReported'
  BY <1>5 DEF LostOnceReported
<1>6. ASSUME NEW interval \in IntervalInputs, NEW speed \in SpeedInputs,
             start(interval, speed)
      PROVE  LostOnceReported'
  <2>1. record'.tick = 0
    BY <1>6 DEF start, publishTick, NoRecord
  <2> QED
    BY <1>5, <2>1
<1>7. ASSUME publishNextTick
      PROVE  LostOnceReported'
  <2> DEFINE t == record.tick
             next == t + 1
             i == runner.interval
             s == runner.speed
             events == generateScenarioEvents(next, i, s)
             elapsed == next * i * s
  <2>1. /\ t \in Nat /\ i \in Nat /\ s \in Nat /\ Delta \in Nat /\ Delta = i * s
        /\ next \in Nat \ {0}
    BY <1>1, RunnerTypes DEF Delta
  <2>2. /\ runner' = runner /\ Delta' = Delta /\ record'.tick = next
        /\ seen' = [o \in ScenarioObjects |->
                       IF o \in events THEN TrackStatus(o, elapsed) ELSE seen[o]]
    BY <1>1, <1>7 DEF publishNextTick, publishTick, Delta, EventsTypeOK
  <2>3. elapsed = next * Delta
    BY <2>1, Monotonic
  <2> SUFFICES ASSUME NEW o \in ScenarioObjects, NEW m \in 1..next,
                      Terminates(o), m % IntervalTicks(Block(o), i) = 0,
                      m * Delta >= EndsAt(o), ~Expired(o, m * Delta, Delta)
               PROVE  seen'[o] = "LOST"
    BY <1>2, <1>3, <1>4, <2>2, ScenarioKept DEF LostOnceReported
  <2>4. Block(o) \in Blocks /\ EndsAt(o) \in Nat
    BY <1>1, ObjectTyped, EndTyped
  <2>5. CASE m = next
    <3> HIDE DEF next, i, s, t
    <3>1. o \in events /\ TrackStatus(o, elapsed) = "LOST"
      BY <2>1, <2>3, <2>4, <2>5, ReportedAsLost
    <3> QED
      BY <2>2, <3>1
  <2>6. CASE m \in 1..t
    <3>1. seen[o] = "LOST"
      BY <2>6 DEF LostInv, LostOnceReported
    <3>2. elapsed >= EndsAt(o)
      <4> HIDE DEF elapsed
      <4>1. m \in Nat /\ m <= next /\ m * Delta \in Nat /\ next * Delta \in Nat
        BY <2>1, <2>6
      <4>2. m * Delta <= next * Delta
        BY <2>1, <4>1, Monotonic
      <4> HIDE DEF next
      <4> QED
        BY <2>3, <2>4, <4>1, <4>2
    <3>3. TrackStatus(o, elapsed) = "LOST"
      BY <3>2 DEF TrackStatus
    <3> HIDE DEF elapsed, events
    <3> QED
      BY <2>2, <3>1, <3>3
  <2>7. m = next \/ m \in 1..t
    <3>1. t \in Nat
      BY <2>1
    <3> HIDE DEF t
    <3> QED
      BY <3>1
  <2> QED
    BY <2>5, <2>6, <2>7
<1>8. ASSUME lastTick \/ UNCHANGED eventsVars
      PROVE  LostOnceReported'
  <2>1. record'.tick = record.tick /\ UNCHANGED <<runner, seen>>
    BY <1>1, <1>8 DEF lastTick, eventsVars, EventsTypeOK
  <2>2. Delta' = Delta
    BY <2>1 DEF Delta
  <2> QED
    BY <1>2, <1>3, <1>4, <2>1, <2>2, ScenarioKept DEF LostOnceReported, LostInv
<1>9. ASSUME resetRun
      PROVE  LostOnceReported'
  <2>1. record'.tick = 0
    BY <1>9 DEF resetRun, NoRecord
  <2> QED
    BY <1>5, <2>1
<1>10. LostOnceReported'
  BY <1>6, <1>7, <1>8, <1>9 DEF EventsNext, stepRun, scheduledTick
<1> QED
  BY <1>1, <1>10 DEF LostInv

(* A block that reports often has a tick between the end of a track and    *)
(* the end of its window.                                                  *)
LEMMA LostInvImplies == LostInv => LostBeforeGone
<1> SUFFICES ASSUME LostInv, NEW o \in ScenarioObjects,
                    Expired(o, record.tick * Delta, Delta), ReportsOften(o)
             PROVE  seen[o] = "LOST"
  BY DEF LostBeforeGone
<1> DEFINE t == record.tick
           k == IntervalTicks(Block(o), runner.interval)
           D == k * Delta
           E == EndsAt(o)
           W == TwiceLostWindow(o, Delta)
<1>1. /\ t \in Nat /\ runner.interval \in Nat \ {0} /\ Delta \in Nat \ {0}
      /\ ScenarioTyped
  BY ScenarioTypes, RunnerTypes DEF LostInv
<1>2. k \in Nat \ {0} /\ E \in Nat \ {0}
  BY <1>1, ObjectTyped, TicksTyped, EndTyped
<1>3. W \in Nat /\ W >= 2 * Second /\ W >= 3 * Delta
  BY <1>1, WindowTyped
<1>4. Terminates(o) /\ 2 * (t * Delta - E) > W
  BY DEF Expired
<1>5. k = 1 \/ k * Delta <= Second
  BY DEF ReportsOften
<1> HIDE DEF t, k, E, W
<1>6. D \in Nat \ {0}
  BY <1>1, <1>2
<1>7. 2 * D <= W
  BY <1>1, <1>2, <1>3, <1>5 DEF Second
<1> DEFINE late == {j \in Nat : j * D >= E}
<1>8. late \subseteq Nat /\ late # {}
  <2>1. E * D >= E
    BY <1>2, <1>6
  <2> QED
    BY <1>2, <2>1
<1>9. PICK j \in late : \A h \in late : j <= h
  <2> HIDE DEF late
  <2> QED
    BY <1>8, LeastElement
<1>10. j \in Nat \ {0} /\ j * D >= E
  <2>1. j \in Nat /\ j * D >= E
    BY <1>9
  <2>2. ASSUME j = 0
        PROVE  FALSE
    <3>1. 0 >= E
      BY <1>6, <2>1, <2>2
    <3> QED
      BY <1>2, <3>1
  <2> QED
    BY <2>1, <2>2
<1>11. (j - 1) * D < E
  <2>1. j - 1 \in Nat /\ j - 1 \notin late
    BY <1>9, <1>10
  <2>2. (j - 1) * D \in Int /\ E \in Int
    BY <1>2, <1>6, <2>1
  <2> QED
    BY <2>1, <2>2
<1>12. j * D < E + D
  <2>1. (j - 1) * D = j * D - D
    BY <1>6, <1>10
  <2>2. j * D \in Int
    BY <1>6, <1>10
  <2> HIDE DEF D
  <2> QED
    BY <1>2, <1>6, <1>11, <2>1, <2>2
<1> DEFINE m == j * k
<1>13. m \in Nat \ {0} /\ m % k = 0 /\ m * Delta = j * D
  BY <1>1, <1>2, <1>10, Monotonic
<1>14. m <= t
  <2>1. /\ t * Delta \in Int /\ m * Delta \in Int
    BY <1>1, <1>13
  <2>2. m * Delta < t * Delta
    <3> HIDE DEF D, m
    <3>1. 2 * (m * Delta) < 2 * E + 2 * D
      BY <1>2, <1>6, <1>12, <1>13, <2>1
    <3>2. 2 * (t * Delta) - 2 * E > W
      BY <1>2, <1>4, <2>1
    <3> QED
      BY <1>2, <1>3, <1>6, <1>7, <2>1, <3>1, <3>2
  <2>3. t <= m => t * Delta <= m * Delta
    BY <1>1, <1>13, Monotonic
  <2> HIDE DEF m
  <2> QED
    BY <1>1, <1>13, <2>1, <2>2, <2>3
<1>15. m * Delta >= E /\ ~Expired(o, m * Delta, Delta)
  <2> HIDE DEF m, D
  <2>1. 2 * (m * Delta - E) <= W
    BY <1>2, <1>3, <1>6, <1>7, <1>10, <1>12, <1>13
  <2>2. ~(2 * (m * Delta - E) > W)
    BY <1>1, <1>2, <1>3, <1>13, <2>1
  <2> QED
    BY <1>10, <1>13, <2>2 DEF Expired, E, W
<1>16. m \in 1..t
  <2> HIDE DEF m
  <2> QED
    BY <1>1, <1>13, <1>14
<1> HIDE DEF m
<1> QED
  BY <1>4, <1>13, <1>15, <1>16 DEF LostInv, LostOnceReported, t, k, E

(* For any scenarios, lives of tracks, speeds and tick intervals: an       *)
(* object whose block reports on every tick, or at least once within a     *)
(* second of simulated time, leaves the picture only after it was reported *)
(* LOST (computeTrackPosition, shouldEmitBlock).                           *)
THEOREM LostIsReported == EventsSpec => []LostBeforeGone
BY LostInitInv, LostStepInv, LostInvImplies, PTL DEF EventsSpec

-----------------------------------------------------------------------------
(* Sums over finite sets, as the library folds them: f summed over S takes *)
(* an element that CHOOSE names from S and adds it to the sum of the rest. *)
Pick(s) == CHOOSE x \in s : TRUE
Added(f, F, s) == IF s = {} THEN 0 ELSE f[Pick(s)] + F[s \ {Pick(s)}]
UpTo(D, n) == {s \in SUBSET D : Cardinality(s) <= n}
SumsUpTo(f, D, n, F) == F = [s \in UpTo(D, n) |-> Added(f, F, s)]

LEMMA PickTyped ==
    ASSUME NEW D, IsFiniteSet(D), NEW s \in SUBSET D, s # {}
    PROVE  /\ Pick(s) \in s /\ s \ {Pick(s)} \in SUBSET D
           /\ IsFiniteSet(s) /\ Cardinality(s) \in Nat /\ Cardinality(s) > 0
           /\ Cardinality(s \ {Pick(s)}) = Cardinality(s) - 1
<1>1. Pick(s) \in s
  BY DEF Pick
<1>2. IsFiniteSet(s)
  BY FS_Subset
<1>3. Cardinality(s \ {Pick(s)}) = Cardinality(s) - 1
  BY <1>1, <1>2, FS_RemoveElement
<1>4. Cardinality(s) \in Nat /\ Cardinality(s) # 0
  BY <1>2, FS_CardinalityType, FS_EmptySet
<1> QED
  BY <1>1, <1>2, <1>3, <1>4

LEMMA SumsExist ==
    ASSUME NEW D, IsFiniteSet(D), NEW f
    PROVE  \A n \in Nat : \E F : SumsUpTo(f, D, n, F)
<1> DEFINE Lacking == {n \in Nat : ~\E F : SumsUpTo(f, D, n, F)}
<1> SUFFICES ASSUME Lacking # {}
             PROVE  FALSE
  OBVIOUS
<1>1. PICK n \in Lacking : \A m \in Lacking : n <= m
  <2>1. Lacking \subseteq Nat
    OBVIOUS
  <2> HIDE DEF Lacking
  <2> QED
    BY <2>1, LeastElement
<1>2. n \in Nat /\ ~\E F : SumsUpTo(f, D, n, F)
  OBVIOUS
<1>3. CASE n = 0
  <2> DEFINE F == [s \in UpTo(D, n) |-> 0]
  <2>1. \A s \in UpTo(D, n) : s = {}
    <3> TAKE s \in UpTo(D, n)
    <3>1. s \in SUBSET D /\ Cardinality(s) <= 0
      BY <1>3 DEF UpTo
    <3>2. ASSUME s # {}
          PROVE  FALSE
      <4>1. Cardinality(s) \in Nat /\ Cardinality(s) > 0
        BY <3>1, <3>2, PickTyped
      <4> QED
        BY <3>1, <4>1
    <3> QED
      BY <3>2
  <2>2. F = [s \in UpTo(D, n) |-> Added(f, F, s)]
    BY <2>1 DEF Added
  <2> QED
    BY <1>2, <2>2 DEF SumsUpTo
<1>4. CASE n # 0
  <2>1. n - 1 \in Nat /\ n - 1 \notin Lacking
    BY <1>1, <1>2, <1>4
  <2>2. PICK G : G = [s \in UpTo(D, n - 1) |-> Added(f, G, s)]
    BY <2>1 DEF SumsUpTo
  <2> DEFINE F == [s \in UpTo(D, n) |-> Added(f, G, s)]
  <2>3. ASSUME NEW s \in UpTo(D, n), s # {}
        PROVE  F[s \ {Pick(s)}] = G[s \ {Pick(s)}]
    <3>1. s \in SUBSET D /\ Cardinality(s) <= n
      BY DEF UpTo
    <3> DEFINE r == s \ {Pick(s)}
    <3>2. r \in SUBSET D /\ Cardinality(r) <= n - 1 /\ Cardinality(r) <= n
      BY <1>2, <2>3, <3>1, PickTyped
    <3>3. r \in UpTo(D, n - 1) /\ r \in UpTo(D, n)
      BY <3>2 DEF UpTo
    <3>4. G[r] = Added(f, G, r)
      <4> HIDE DEF r
      <4> QED
        BY <2>2, <3>3
    <3> QED
      BY <3>3, <3>4
  <2>4. \A s \in UpTo(D, n) : Added(f, F, s) = Added(f, G, s)
    <3> HIDE DEF F
    <3> QED
      BY <2>3 DEF Added
  <2>5. F = [s \in UpTo(D, n) |-> Added(f, F, s)]
    BY <2>4
  <2> QED
    BY <1>2, <2>5 DEF SumsUpTo
<1> QED
  BY <1>3, <1>4

LEMMA SumSteps ==
    ASSUME NEW f, IsFiniteSet(DOMAIN f)
    PROVE  \E F : /\ SumFunction(f) = F[DOMAIN f] /\ F[{}] = 0
                  /\ \A s \in SUBSET DOMAIN f :
                        s # {} => F[s] = f[Pick(s)] + F[s \ {Pick(s)}]
<1> DEFINE D == DOMAIN f
           Sums == CHOOSE F : F = [s \in SUBSET D |-> Added(f, F, s)]
<1>1. SumFunction(f) = Sums[D]
  BY DEF SumFunction, SumFunctionOnSet, FoldFunctionOnSet, MapThenFoldSet, Added, Pick
<1>2. Sums = [s \in SUBSET D |-> Added(f, Sums, s)]
  <2>1. Cardinality(D) \in Nat /\ \A s \in SUBSET D : Cardinality(s) <= Cardinality(D)
    BY FS_Subset, FS_CardinalityType
  <2>2. UpTo(D, Cardinality(D)) = SUBSET D
    BY <2>1 DEF UpTo
  <2>3. \E F : F = [s \in SUBSET D |-> Added(f, F, s)]
    <3>1. \E F : SumsUpTo(f, D, Cardinality(D), F)
      <4>1. IsFiniteSet(D)
        OBVIOUS
      <4>2. \A n \in Nat : \E F : SumsUpTo(f, D, n, F)
        <5> HIDE DEF D
        <5> QED
          BY <4>1, SumsExist
      <4> QED
        BY <2>1, <4>2
    <3> QED
      BY <2>2, <3>1 DEF SumsUpTo
  <2> HIDE DEF D
  <2> QED
    BY <2>3
<1> HIDE DEF Sums
<1>3. \A s \in SUBSET D : Sums[s] = Added(f, Sums, s)
  BY <1>2
<1> QED
  BY <1>1, <1>3 DEF Added

(* What holds of the empty set and of a set when it holds of the rest of   *)
(* it holds of every subset: no subset is a smallest one that lacks it.    *)
LEMMA NoSmallest ==
    ASSUME NEW D, IsFiniteSet(D), NEW Bad \in SUBSET SUBSET D, {} \notin Bad,
           \A s \in Bad : s \ {Pick(s)} \in Bad
    PROVE  Bad = {}
<1> SUFFICES ASSUME Bad # {}
             PROVE  FALSE
  OBVIOUS
<1> DEFINE sizes == {n \in Nat : \E s \in Bad : Cardinality(s) = n}
<1>1. sizes \subseteq Nat /\ sizes # {}
  <2>1. PICK s \in Bad : TRUE
    OBVIOUS
  <2>2. s \in SUBSET D /\ s # {}
    BY <2>1
  <2>3. Cardinality(s) \in Nat
    BY <2>2, PickTyped
  <2> QED
    BY <2>1, <2>3
<1>2. PICK n \in sizes : \A m \in sizes : n <= m
  <2> HIDE DEF sizes
  <2> QED
    BY <1>1, LeastElement
<1>3. PICK s \in Bad : Cardinality(s) = n
  BY <1>2
<1>4. s # {} /\ s \ {Pick(s)} \in Bad /\ n \in Nat
  BY <1>2
<1>5. Cardinality(s \ {Pick(s)}) = n - 1 /\ n > 0
  BY <1>3, <1>4, PickTyped
<1>6. n - 1 \in sizes
  BY <1>4, <1>5
<1> QED
  BY <1>2, <1>4, <1>6

-----------------------------------------------------------------------------
(* The rate limit. Every event after those of the start belongs to a tick  *)
(* in which its block reports.                                             *)
Reports(tick) ==
    {r \in (1..tick) \X ScenarioObjects :
        r[1] % IntervalTicks(Block(r[2]), runner.interval) = 0}

RateInv ==
    /\ EventsTypeOK
    /\ record.generated <= Cardinality(ScenarioObjects) + Cardinality(Reports(record.tick))

LEMMA ReportsFinite ==
    ASSUME ScenarioTyped, NEW tick \in Nat, NEW S, S \subseteq Reports(tick)
    PROVE  IsFiniteSet(S) /\ Cardinality(S) \in Nat
<1>1. IsFiniteSet(1..tick)
  <2>1. \A m, n \in Int : IsFiniteSet(m..n)
    BY FS_Interval
  <2>2. tick \in Int /\ 1 \in Int
    OBVIOUS
  <2> QED
    BY <2>1, <2>2, Zenon
<1>2. IsFiniteSet((1..tick) \X ScenarioObjects)
  BY <1>1, ObjectsFinite, FS_Product
<1>3. S \in SUBSET ((1..tick) \X ScenarioObjects)
  BY DEF Reports
<1> QED
  BY <1>2, <1>3, FS_Subset, FS_CardinalityType

LEMMA RateInitInv == EventsInit => RateInv
<1> SUFFICES ASSUME EventsInit
             PROVE  RateInv
  OBVIOUS
<1>1. EventsTypeOK /\ ScenarioTyped
  BY EventsInitTyped, ScenarioTypes
<1>2. Cardinality(ScenarioObjects) \in Nat
  BY <1>1, ObjectsFinite
<1>3. record.tick \in Nat /\ record.generated = 0
  BY <1>1, RunnerTypes DEF EventsInit, NoRecord
<1>4. Cardinality(Reports(record.tick)) \in Nat
  BY <1>1, <1>3, ReportsFinite
<1> QED
  BY <1>1, <1>2, <1>3, <1>4 DEF RateInv

LEMMA RateStepInv == RateInv /\ [EventsNext]_eventsVars => RateInv'
<1> SUFFICES ASSUME RateInv, [EventsNext]_eventsVars
             PROVE  RateInv'
  OBVIOUS
<1>1. EventsTypeOK /\ ScenarioTyped /\ EventsTypeOK'
  BY ScenarioTypes, EventsStepTyped DEF RateInv
<1>2. UNCHANGED scenario
  BY DEF EventsNext, stepRun, scheduledTick, publishNextTick, start, lastTick, resetRun, eventsVars
<1> DEFINE t == record.tick
           objects == Cardinality(ScenarioObjects)
           reported == Cardinality(Reports(t))
<1>3. /\ t \in Nat /\ objects \in Nat /\ reported \in Nat /\ record.generated \in Nat
      /\ record.generated <= objects + reported
  <2>1. record.generated \in Nat
    BY <1>1 DEF EventsTypeOK
  <2>2. t \in Nat
    BY <1>1, RunnerTypes
  <2>3. reported \in Nat
    BY <1>1, <2>2, ReportsFinite
  <2> QED
    BY <1>1, <2>1, <2>2, <2>3, ObjectsFinite DEF RateInv
<1>4. objects' = objects
  BY <1>2, ScenarioKept
<1>5. record'.tick \in Nat
  BY <1>1, EventsAssumption DEF EventsTypeOK
<1>7. reported' \in Nat
  <2>1. IsFiniteSet(Reports(record.tick)') /\ Cardinality(Reports(record.tick)') \in Nat
    <3>2. IsFiniteSet((1..(record'.tick)) \X ScenarioObjects)
      <4>1. \A m, n \in Int : IsFiniteSet(m..n)
        BY FS_Interval
      <4>2. record'.tick \in Int /\ 1 \in Int
        BY <1>5
      <4>3. IsFiniteSet(1..(record'.tick))
        BY <4>1, <4>2, Zenon
      <4> QED
        BY <1>1, <4>3, ObjectsFinite, FS_Product
    <3>3. Reports(record.tick)' \in SUBSET ((1..(record'.tick)) \X ScenarioObjects)
      BY <1>2, ScenarioKept DEF Reports
    <3> QED
      BY <3>2, <3>3, FS_Subset, FS_CardinalityType
  <2> QED
    BY <2>1
<1> SUFFICES record'.generated <= objects + reported'
  BY <1>1, <1>4 DEF RateInv
<1>8. ASSUME NEW interval \in IntervalInputs, NEW speed \in SpeedInputs,
             start(interval, speed)
      PROVE  record'.generated <= objects + reported'
  <2> DEFINE events == generateScenarioEvents(0, runner'.interval, runner'.speed)
  <2>1. record'.generated = 0 + Cardinality(events)
    BY <1>8 DEF start, publishTick, NoRecord
  <2>2. events \subseteq ScenarioObjects
    BY DEF generateScenarioEvents
  <2>3. Cardinality(events) \in 0..objects
    <3> HIDE DEF events
    <3> QED
      BY <1>1, <2>2, SomeObjects
  <2> HIDE DEF events, objects, reported
  <2> QED
    BY <1>3, <1>7, <2>1, <2>3
<1>9. ASSUME publishNextTick
      PROVE  record'.generated <= objects + reported'
  <2> DEFINE events == generateScenarioEvents(t + 1, runner.interval, runner.speed)
             added == {t + 1} \X events
  <2>1. /\ record'.generated = record.generated + Cardinality(events)
        /\ record'.tick = t + 1 /\ runner' = runner
    BY <1>1, <1>9 DEF publishNextTick, publishTick, EventsTypeOK
  <2>2. events \subseteq ScenarioObjects /\ IsFiniteSet(events) /\ Cardinality(events) \in Nat
    <3>1. events \subseteq ScenarioObjects
      BY DEF generateScenarioEvents
    <3> HIDE DEF events
    <3>2. IsFiniteSet(events)
      BY <1>1, <3>1, SomeObjects
    <3> QED
      BY <3>1, <3>2, FS_CardinalityType
  <2>3. \A o \in events : (t + 1) % IntervalTicks(Block(o), runner.interval) = 0
    BY <1>3 DEF generateScenarioEvents, shouldEmitBlock
  <2>4. Reports(t)' = {r \in (1..(t + 1)) \X ScenarioObjects :
                          r[1] % IntervalTicks(Block(r[2]), runner.interval) = 0}
    BY <1>2, <2>1, ScenarioKept DEF Reports, Block
  <2>5. Reports(t) \cup added \subseteq Reports(t)'
    <3> HIDE DEF events
    <3> QED
      BY <1>3, <2>2, <2>3, <2>4 DEF Reports
  <2>6. Reports(t) \cap added = {}
    <3>1. \A r \in Reports(t) : r[1] <= t
      BY <1>3 DEF Reports
    <3>2. \A r \in added : r[1] = t + 1
      OBVIOUS
    <3> QED
      BY <1>3, <3>1, <3>2
  <2>7. IsFiniteSet(added) /\ Cardinality(added) = Cardinality(events)
    <3> HIDE DEF events
    <3>1. IsFiniteSet({t + 1}) /\ Cardinality({t + 1}) = 1
      BY FS_Singleton
    <3>2. IsFiniteSet(added) /\ Cardinality(added) = Cardinality({t + 1}) * Cardinality(events)
      BY <2>2, <3>1, FS_Product
    <3> QED
      BY <2>2, <3>1, <3>2
  <2>8. Cardinality(Reports(t) \cup added) = reported + Cardinality(events)
        /\ IsFiniteSet(Reports(t) \cup added)
    <3>1. IsFiniteSet(Reports(t))
      BY <1>1, <1>3, ReportsFinite
    <3> HIDE DEF added, events
    <3>2. Cardinality(Reports(t) \cap added) = 0
      BY <2>6, FS_EmptySet
    <3> QED
      BY <1>3, <2>2, <2>7, <3>1, <3>2, FS_Union
  <2>9. Cardinality(Reports(t) \cup added) <= reported'
    <3>1. Reports(t)' = Reports(t + 1)
      BY <1>2, <2>4 DEF Reports
    <3>2. IsFiniteSet(Reports(t + 1))
      BY <1>1, <1>3, ReportsFinite
    <3> HIDE DEF added
    <3> QED
      BY <2>5, <3>1, <3>2, FS_Subset
  <2> HIDE DEF objects, events
  <2>10. reported + Cardinality(events) <= reported'
    BY <2>8, <2>9
  <2> HIDE DEF reported
  <2> QED
    BY <1>3, <1>7, <2>1, <2>2, <2>10
<1>10. ASSUME lastTick \/ UNCHANGED eventsVars
      PROVE  record'.generated <= objects + reported'
  <2>1. record'.tick = t /\ record'.generated = record.generated /\ runner' = runner
    BY <1>1, <1>10 DEF lastTick, eventsVars, EventsTypeOK
  <2>2. reported' = reported
    BY <1>2, <2>1, ScenarioKept DEF Reports, Block
  <2> QED
    BY <1>3, <2>1, <2>2
<1>11. ASSUME resetRun
      PROVE  record'.generated <= objects + reported'
  <2>1. record'.generated = 0
    BY <1>11 DEF resetRun, NoRecord
  <2>2. objects \in Nat /\ reported' \in Nat
    BY <1>3, <1>7
  <2>3. \A a, b \in Nat : 0 <= a + b
    OBVIOUS
  <2> HIDE DEF objects, reported
  <2> QED
    BY <2>1, <2>2, <2>3, Zenon
<1> QED
  BY <1>8, <1>9, <1>10, <1>11 DEF EventsNext, stepRun, scheduledTick

(* A report every IntervalTicks ticks is at most half as many again as the *)
(* rate accepts.                                                           *)
LEMMA TicksWithinRate ==
    ASSUME NEW block \in Blocks, NEW interval \in Nat \ {0}
    PROVE  2 * Second <= 3 * IntervalTicks(block, interval) * (block.rate * interval)
<1> DEFINE k == block.rate * interval
           q == (2 * Second + k) \div (2 * k)
           n == Max({1, q})
<1>1. k \in Nat \ {0}
  BY DEF Blocks
<1> HIDE DEF k
<1>2. q \in Nat /\ 2 * k * q > 80 - k
  BY <1>1 DEF Second
<1>3. n \in Nat /\ n >= 1 /\ n >= q
  <2> HIDE DEF q
  <2>1. q \in Int /\ 1 \in Int
    BY <1>2
  <2>2. Max({1, q}) \in {1, q} /\ Max({1, q}) >= 1 /\ Max({1, q}) >= q
    BY <2>1, MaxOfTwo, Zenon
  <2> QED
    BY <1>2, <2>2
<1> HIDE DEF q, n
<1>4. 2 * k * n >= 2 * k * q /\ k * n >= k
  BY <1>1, <1>2, <1>3
<1>5. 3 * n * k = 2 * k * n + k * n
  BY <1>1, <1>3
<1>6. 2 * k * n \in Int /\ k * n \in Int /\ 2 * k * q \in Int
  BY <1>1, <1>2, <1>3
<1>7. 80 <= 3 * n * k
  BY <1>1, <1>2, <1>4, <1>5, <1>6
<1> QED
  BY <1>7 DEF IntervalTicks, n, q, k, Second

(* What one block reports.                                                 *)
LEMMA BlockWithinRate ==
    ASSUME ScenarioTyped, NEW t \in Nat, runner.interval \in Nat \ {0},
           NEW b \in DOMAIN scenario.blocks
    PROVE  2 * Second * Cardinality({r \in Reports(t) : r[2][1] = b})
               <= 3 * t * (scenario.blocks[b].objectCount * scenario.blocks[b].rate * runner.interval)
<1> DEFINE block == scenario.blocks[b]
           n == IntervalTicks(block, runner.interval)
           c == cappedObjectCount(block)
           k == block.rate * runner.interval
           own == {r \in Reports(t) : r[2][1] = b}
           box == (1..(t \div n)) \X (0..(c - 1))
<1>1. block \in Blocks
  BY DEF ScenarioTyped
<1>2. /\ n \in Nat \ {0} /\ k \in Nat /\ block.objectCount \in Nat
      /\ 2 * Second <= 3 * n * k
  <2>1. block.rate \in Nat /\ block.objectCount \in Nat
    BY <1>1 DEF Blocks
  <2>2. k \in Nat
    BY <2>1
  <2> QED
    BY <1>1, <2>1, <2>2, TicksTyped, TicksWithinRate
<1>3. c \in Nat /\ c <= block.objectCount
  <2>1. MaxObjectsPerBlock \in Nat
    BY EventsAssumption
  <2> QED
    BY <1>2, <2>1 DEF cappedObjectCount, Clamp
<1> DEFINE f == [r \in own |-> <<r[1] \div n, r[2][2]>>]
<1>4. ASSUME NEW r \in own
      PROVE  /\ r[1] \in 1..t /\ r[1] % n = 0 /\ r[1] = n * (r[1] \div n)
             /\ r[1] \div n \in 1..(t \div n)
             /\ r[2] = <<b, r[2][2]>> /\ r[2][2] \in 0..(c - 1) /\ r = <<r[1], r[2]>>
  <2>1. /\ r[1] \in 1..t /\ r[2] \in ScenarioObjects /\ r[2][1] = b /\ r = <<r[1], r[2]>>
        /\ r[1] % IntervalTicks(Block(r[2]), runner.interval) = 0
    BY DEF Reports
  <2>2. Block(r[2]) = block
    BY <2>1 DEF Block
  <2>3. r[1] % n = 0
    BY <2>1, <2>2
  <2>4. r[2][2] \in 0..(c - 1) /\ r[2] = <<b, r[2][2]>>
    <3>1. r[2][2] \in Nat /\ r[2][2] < c /\ r[2] = <<r[2][1], r[2][2]>>
      BY <2>1, <2>2, ObjectTyped
    <3> HIDE DEF c
    <3> QED
      BY <1>3, <2>1, <3>1
  <2>5. r[1] = n * (r[1] \div n) /\ r[1] \div n \in 1..(t \div n)
    <3> HIDE DEF n, own
    <3> QED
      BY <1>2, <2>1, <2>3
  <2> QED
    BY <2>1, <2>3, <2>4, <2>5
<1>5. f \in Injection(own, box)
  <2>1. f \in [own -> box]
    <3> HIDE DEF n, c, own
    <3> QED
      BY <1>4
  <2>2. ASSUME NEW r \in own, NEW s \in own, f[r] = f[s]
        PROVE  r = s
    <3>1. r[1] \div n = s[1] \div n /\ r[2][2] = s[2][2]
      <4> HIDE DEF own, n
      <4> QED
        BY <2>2
    <3>2. r[1] = s[1] /\ r[2] = s[2]
      <4>1. r[1] = n * (r[1] \div n) /\ s[1] = n * (s[1] \div n)
        BY <1>4
      <4>2. r[2] = <<b, r[2][2]>> /\ s[2] = <<b, s[2][2]>>
        BY <1>4
      <4> HIDE DEF own, n
      <4> QED
        BY <3>1, <4>1, <4>2
    <3> QED
      BY <1>4, <3>2
  <2> HIDE DEF f, own, box
  <2> QED
    BY <2>1, <2>2 DEF Injection, IsInjective
<1>6. t \div n \in Nat /\ n * (t \div n) <= t
  <2> HIDE DEF n
  <2> QED
    BY <1>2
<1>7. IsFiniteSet(box) /\ Cardinality(box) = (t \div n) * c
  <2> DEFINE m == t \div n
  <2>1. \A x, y \in Int : IsFiniteSet(x..y) /\ Cardinality(x..y) = IF x > y THEN 0 ELSE y - x + 1
    BY FS_Interval
  <2>2. m \in Int /\ c - 1 \in Int /\ 0 \in Int /\ 1 \in Int
    BY <1>3, <1>6
  <2>3. IsFiniteSet(1..m) /\ Cardinality(1..m) = IF 1 > m THEN 0 ELSE m - 1 + 1
    <3> HIDE DEF m
    <3> QED
      BY <2>1, <2>2, Zenon
  <2>4. IsFiniteSet(0..(c - 1)) /\ Cardinality(0..(c - 1)) = IF 0 > c - 1 THEN 0 ELSE c - 1 - 0 + 1
    <3> HIDE DEF c
    <3> QED
      BY <2>1, <2>2, Zenon
  <2>5. Cardinality(1..m) = m /\ Cardinality(0..(c - 1)) = c
    <3> HIDE DEF m, c
    <3> QED
      BY <1>3, <1>6, <2>3, <2>4 DEF m
  <2> HIDE DEF m, c
  <2> QED
    BY <2>3, <2>4, <2>5, FS_Product DEF m
<1>8. Cardinality(own) <= (t \div n) * c /\ Cardinality(own) \in Nat
  <2> HIDE DEF f, own, box
  <2>1. Cardinality(own) <= Cardinality(box) /\ IsFiniteSet(own)
    BY <1>5, <1>7, FS_Injection
  <2> QED
    BY <1>7, <2>1, FS_CardinalityType
<1> DEFINE m == t \div n
           count == block.objectCount
           reported == Cardinality(own)
<1>9. 80 * reported <= 3 * t * (count * k)
  <2>1. /\ m \in Nat /\ n * m <= t /\ reported \in Nat /\ reported <= m * c
        /\ c \in Nat /\ count \in Nat /\ c <= count /\ k \in Nat /\ n \in Nat
        /\ 80 <= 3 * n * k
    BY <1>2, <1>3, <1>6, <1>8 DEF Second
  <2> HIDE DEF m, n, c, count, k, reported
  <2>2. m * c \in Nat /\ m * count \in Nat /\ m * c <= m * count
    BY <2>1
  <2>3. reported <= m * count
    BY <2>1, <2>2
  <2>4. 80 * reported <= 80 * (m * count)
    BY <2>1, <2>2, <2>3
  <2>5. 80 * (m * count) <= (3 * n * k) * (m * count)
    <3> DEFINE y == 3 * n * k
               x == m * count
    <3>1. y \in Nat /\ x \in Nat /\ 80 <= y
      BY <2>1, <2>2
    <3> HIDE DEF x, y
    <3>2. 80 * x <= y * x
      BY <3>1
    <3> QED
      BY <3>2 DEF x, y
  <2>6. (3 * n * k) * (m * count) = 3 * ((n * m) * (count * k))
    BY <2>1
  <2>7. (n * m) * (count * k) <= t * (count * k)
    <3> DEFINE y == n * m
               x == count * k
    <3>1. y \in Nat /\ x \in Nat /\ y <= t
      BY <2>1
    <3> HIDE DEF x, y
    <3>2. y * x <= t * x
      BY <3>1
    <3> QED
      BY <3>2 DEF x, y
  <2>8. 3 * t * (count * k) = 3 * (t * (count * k))
    BY <2>1
  <2>9. /\ 80 * reported \in Int /\ 80 * (m * count) \in Int
        /\ (n * m) * (count * k) \in Int /\ t * (count * k) \in Int
    BY <2>1
  <2> QED
    BY <2>4, <2>5, <2>6, <2>7, <2>8, <2>9
<1>10. count * k = block.objectCount * block.rate * runner.interval
  <2>1. block.rate \in Int /\ block.objectCount \in Int /\ runner.interval \in Int
    BY <1>1 DEF Blocks
  <2> QED
    BY <2>1, Monotonic
<1> QED
  BY <1>9, <1>10 DEF Second

LEMMA RateInvImplies == RateInv => GeneratedWithinRate
<1> SUFFICES ASSUME RateInv
             PROVE  GeneratedWithinRate
  OBVIOUS
<1> DEFINE D == DOMAIN scenario.blocks
           t == record.tick
           accepted == [b \in D |->
                   scenario.blocks[b].objectCount * scenario.blocks[b].rate * runner.interval]
           objects == Cardinality(ScenarioObjects)
           By(s) == {r \in Reports(t) : r[2][1] \in s}
<1>1. /\ EventsTypeOK /\ ScenarioTyped /\ t \in Nat /\ runner.interval \in Nat \ {0}
      /\ record.generated \in Nat /\ objects \in Nat
      /\ record.generated <= objects + Cardinality(Reports(t))
  <2>1. EventsTypeOK /\ ScenarioTyped
    BY ScenarioTypes DEF RateInv
  <2>2. record.generated \in Nat
    BY <2>1 DEF EventsTypeOK
  <2>3. t \in Nat /\ runner.interval \in Nat \ {0}
    BY <2>1, RunnerTypes
  <2> QED
    BY <2>1, <2>2, <2>3, ObjectsFinite DEF RateInv
<1>2. D = DOMAIN accepted /\ IsFiniteSet(D)
  <2>1. Len(scenario.blocks) \in Int /\ 1 \in Int /\ D = 1..Len(scenario.blocks)
    BY <1>1 DEF ScenarioTyped
  <2>2. \A m, n \in Int : IsFiniteSet(m..n)
    BY FS_Interval
  <2>3. IsFiniteSet(1..Len(scenario.blocks))
    BY <2>1, <2>2, Zenon
  <2> QED
    BY <2>1, <2>3
<1>3. \A b \in D : accepted[b] \in Nat
  <2> SUFFICES ASSUME NEW b \in D
               PROVE  accepted[b] \in Nat
    OBVIOUS
  <2>1. scenario.blocks[b] \in Blocks
    BY <1>1 DEF ScenarioTyped
  <2>2. scenario.blocks[b].objectCount \in Nat /\ scenario.blocks[b].rate \in Nat
    BY <2>1 DEF Blocks
  <2>3. scenario.blocks[b].objectCount * scenario.blocks[b].rate * runner.interval \in Nat
    BY <1>1, <2>2
  <2> QED
    BY <2>3
<1>4. \A b \in D : 2 * Second * Cardinality({r \in Reports(t) : r[2][1] = b}) <= 3 * t * accepted[b]
  BY <1>1, BlockWithinRate
<1>5. PICK F : /\ SumFunction(accepted) = F[D] /\ F[{}] = 0
               /\ \A s \in SUBSET D : s # {} => F[s] = accepted[Pick(s)] + F[s \ {Pick(s)}]
  <2>1. IsFiniteSet(DOMAIN accepted) /\ DOMAIN accepted = D
    BY <1>2
  <2> HIDE DEF accepted
  <2>2. \E F : /\ SumFunction(accepted) = F[DOMAIN accepted] /\ F[{}] = 0
               /\ \A s \in SUBSET DOMAIN accepted :
                     s # {} => F[s] = accepted[Pick(s)] + F[s \ {Pick(s)}]
    BY <2>1, SumSteps
  <2> QED
    BY <2>1, <2>2
<1> HIDE DEF accepted, D, t, objects
<1> DEFINE Kept(s) == F[s] \in Nat /\ 2 * Second * Cardinality(By(s)) <= 3 * t * F[s]
           Bad == {s \in SUBSET D : ~Kept(s)}
<1>6. \A s : IsFiniteSet(By(s)) /\ Cardinality(By(s)) \in Nat
  BY <1>1, ReportsFinite
<1>7. Kept({})
  <2>1. By({}) = {}
    OBVIOUS
  <2>2. Cardinality(By({})) = 0
    BY <2>1, FS_EmptySet
  <2> HIDE DEF By
  <2> QED
    BY <1>1, <1>5, <2>2 DEF Second
<1>8. ASSUME NEW s \in SUBSET D, s # {}, Kept(s \ {Pick(s)})
      PROVE  Kept(s)
  <2> DEFINE b == Pick(s)
             rest == s \ {b}
             own == {r \in Reports(t) : r[2][1] = b}
  <2>1. b \in D /\ b \in s
    BY <1>8 DEF Pick
  <2>2. F[s] = accepted[b] + F[rest] /\ accepted[b] \in Nat /\ F[rest] \in Nat
    BY <1>3, <1>5, <1>8, <2>1
  <2>3. By(s) = By(rest) \cup own
    BY <2>1
  <2>4. IsFiniteSet(own) /\ Cardinality(own) \in Nat
    BY <1>1, ReportsFinite
  <2>5. Cardinality(By(s)) <= Cardinality(By(rest)) + Cardinality(own)
    <3> HIDE DEF rest, own, By
    <3>1. IsFiniteSet(By(rest)) /\ Cardinality(By(rest)) \in Nat
      BY <1>6
    <3>2. IsFiniteSet(By(rest) \cap own)
      BY <3>1, FS_Subset
    <3>3. Cardinality(By(rest) \cap own) \in Nat
      BY <3>2, FS_CardinalityType
    <3>4. Cardinality(By(rest) \cup own)
              = Cardinality(By(rest)) + Cardinality(own) - Cardinality(By(rest) \cap own)
      BY <2>4, <3>1, FS_Union
    <3> QED
      BY <2>3, <2>4, <3>1, <3>3, <3>4
  <2>6. 80 * Cardinality(own) <= 3 * t * accepted[b]
    BY <1>4, <2>1 DEF Second
  <2>7. 80 * Cardinality(By(rest)) <= 3 * t * F[rest]
    BY <1>8 DEF Second
  <2>8. Cardinality(By(rest)) \in Nat /\ Cardinality(By(s)) \in Nat
    BY <1>6
  <2> HIDE DEF rest, own, By, b
  <2>9. 3 * t * F[s] = 3 * t * accepted[b] + 3 * t * F[rest]
    BY <1>1, <2>2
  <2>10. 3 * t * accepted[b] \in Int /\ 3 * t * F[rest] \in Int
    BY <1>1, <2>2
  <2>11. 80 * Cardinality(By(s)) <= 3 * t * F[s]
    BY <2>4, <2>5, <2>6, <2>7, <2>8, <2>9, <2>10
  <2> QED
    BY <2>2, <2>11 DEF Second
<1>9. Bad = {}
  <2>1. {} \notin Bad
    BY <1>7
  <2>2. \A s \in Bad : s \ {Pick(s)} \in Bad
    BY <1>7, <1>8
  <2>3. Bad \in SUBSET SUBSET D
    OBVIOUS
  <2> HIDE DEF Bad
  <2> QED
    BY <1>2, <2>1, <2>2, <2>3, NoSmallest
<1>10. Kept(D)
  BY <1>9
<1>11. By(D) = Reports(t)
  <2> SUFFICES ASSUME NEW r \in Reports(t)
               PROVE  r[2][1] \in D
    OBVIOUS
  <2>1. r[2] \in ScenarioObjects
    BY DEF Reports
  <2> QED
    BY <1>1, <2>1, ObjectTyped DEF D
<1>12. 2 * Second * Cardinality(Reports(t)) <= 3 * t * SumFunction(accepted)
       /\ SumFunction(accepted) \in Nat
  BY <1>5, <1>10, <1>11
<1> DEFINE total == SumFunction(accepted)
           reported == Cardinality(Reports(t))
<1>13. 2 * Second * (record.generated - objects) <= 3 * t * total
  <2>1. reported \in Nat
    BY <1>6, <1>11
  <2>2. 2 * Second * reported <= 3 * t * total /\ total \in Nat
    BY <1>12
  <2>3. record.generated <= objects + reported
    BY <1>1
  <2> HIDE DEF total, reported, By
  <2>4. 3 * t * total \in Int
    BY <1>1, <2>2
  <2> QED
    BY <1>1, <2>1, <2>2, <2>3, <2>4 DEF Second
<1> QED
  BY <1>13 DEF GeneratedWithinRate, accepted, D, t, objects

(* For any scenarios, speeds and tick intervals: beyond one report of      *)
(* every object at the start, a run generates at most half as many events  *)
(* again as the accepted rates of its blocks (shouldEmitBlock rounds to    *)
(* whole ticks).                                                           *)
THEOREM RateIsKept == EventsSpec => []GeneratedWithinRate
BY RateInitInv, RateStepInv, RateInvImplies, PTL DEF EventsSpec
=================================================================================
