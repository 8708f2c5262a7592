----------------------------- MODULE ScenarioEvents -----------------------------
(***************************************************************************)
(* generateScenarioEvents of simulation-core along the runs of a scenario: *)
(* which objects every tick reports and as what, what the runtime counts,  *)
(* and which tracks end with which.                                        *)
(*                                                                         *)
(* Abstractions: positions, headings and the other payload are left out; a *)
(* scenario is its duration and its enabled blocks; the seed is the life   *)
(* it gives to short-lived tracks, one for all of a scenario. Publishing   *)
(* and the races of RuntimeRunner are in modules of their own: here a tick *)
(* is one step, and pause, resume and stop, which only decide whether the  *)
(* timer ticks, are left out. Units: tick intervals in quarters of a       *)
(* second, speeds and rates in tenths, and so simulated time in 1/40 s.    *)
(***************************************************************************)
EXTENDS Integers, FiniteSetsExt, Sequences

CONSTANTS
    Scenarios,              \* [duration: seconds, blocks: sequence of blocks]
    Lives,                  \* what the seed may give: seconds
    IntervalInputs,         \* tick intervals asked of the start route
    SpeedInputs,            \* speed multipliers asked of it
    MaxObjectsPerBlock,
    RouteCount,             \* routes of the engagement demo
    Unreported,
    MaxTick                 \* bound of the exploration

Blocks == [role: {"HOSTILE_INBOUND", "FRIEND_INTERCEPTOR", "SHORT_LIVED_TRACK", "TRACK"},
           family: {"missile", "uav"}, objectCount: Nat, rate: Nat \ {0}]

(* scenario-block.schema.json: counts from 0 and rates above 0; a short    *)
(* life is 45 to 120 s.                                                    *)
ASSUME EventsAssumption ==
    /\ MaxObjectsPerBlock \in Nat /\ RouteCount \in Nat \ {0} /\ MaxTick \in Nat
    /\ IntervalInputs \subseteq Int /\ SpeedInputs \subseteq Int
    /\ Lives \subseteq Nat \ {0}
    /\ \A s \in Scenarios : s.duration \in Nat \ {0} /\ s.blocks \in Seq(Blocks)

VARIABLES
    scenario, life,     \* what is run
    runner,             \* interval and speed of RuntimeRunner
    record,             \* state, tick, generated and active objects of the runtime
    seen                \* history: how each object was last reported in this run

eventsVars == <<scenario, life, runner, record, seen>>

Second == 40
Clamp(value, low, high) == IF value < low THEN low ELSE IF value > high THEN high ELSE value

-----------------------------------------------------------------------------
Block(o) == scenario.blocks[o[1]]
cappedObjectCount(block) == Clamp(block.objectCount, 0, MaxObjectsPerBlock)
ScenarioObjects ==
    UNION {{b} \X (0..(cappedObjectCount(scenario.blocks[b]) - 1)) :
              b \in DOMAIN scenario.blocks}

\* Mutant: Math.floor.
FlooredTicks(block, interval) == Max({1, Second \div (block.rate * interval)})

(* Math.round(1 / (updateRateHz * tickIntervalSeconds)), at least 1. *)
IntervalTicks(block, interval) ==
    LET perTick == block.rate * interval IN Max({1, (2 * Second + perTick) \div (2 * perTick)})

shouldEmitBlock(block, tick, interval) ==
    tick = 0 \/ (block.rate > 0 /\ tick % IntervalTicks(block, interval) = 0)

-----------------------------------------------------------------------------
\* Mutant: interceptors are numbered as their targets are.
SameIndex(index) == index

(* The routes of an engagement: of ten hostile objects nine meet their     *)
(* interceptor, the tenth passes.                                          *)
isDestroyedHostileIndex(index) == index % 10 # 9
friendlyIndexToHostileIndex(index) == (index \div 9) * 10 + (index % 9)
hostileIndexToFriendlyIndex(index) == (index \div 10) * 9 + (index % 10)

PairIndex(o) ==
    IF Block(o).role = "FRIEND_INTERCEPTOR" THEN friendlyIndexToHostileIndex(o[2]) ELSE o[2]

IsIntercepted(o) ==
    \/ Block(o).role = "FRIEND_INTERCEPTOR"
    \/ Block(o).role = "HOSTILE_INBOUND" /\ isDestroyedHostileIndex(PairIndex(o))

terminalAtSecondsForUkraineDemo(family, pairIndex) ==
    LET route == pairIndex % RouteCount
        wave == pairIndex \div RouteCount
    IN  Min({Max({30, scenario.duration - 30}),
             IF family = "missile" THEN 100 + route * 12 + wave * 50
                                   ELSE 1220 + route * 65 + wave * 220})

(* The number an object names as pairedObjectId; hostile objects that pass *)
(* name none.                                                              *)
PairedIndex(o) ==
    IF Block(o).role = "FRIEND_INTERCEPTOR" THEN PairIndex(o)
    ELSE hostileIndexToFriendlyIndex(PairIndex(o))

Names(o, p) ==
    /\ IsIntercepted(o)
    /\ {Block(o).role, Block(p).role} = {"HOSTILE_INBOUND", "FRIEND_INTERCEPTOR"}
    /\ Block(o).family = Block(p).family
    /\ p[2] = PairedIndex(o)

-----------------------------------------------------------------------------
(* computeTrackPosition and computeCustomRoutePosition: a short-lived or   *)
(* intercepted track is LOST from its end on, and not reported at all once *)
(* the window is over. delta is the simulated time of one tick.            *)
Terminates(o) == Block(o).role = "SHORT_LIVED_TRACK" \/ IsIntercepted(o)
EndsAt(o) ==
    Second * IF Block(o).role = "SHORT_LIVED_TRACK" THEN life
             ELSE terminalAtSecondsForUkraineDemo(Block(o).family, PairIndex(o))
\* Mutant: the window does not grow with the simulated time of a tick.
FixedWindow(o, delta) == 2 * Second * (IF Block(o).role = "SHORT_LIVED_TRACK" THEN 1 ELSE 2)

TwiceLostWindow(o, delta) ==
    Max({2 * Second * (IF Block(o).role = "SHORT_LIVED_TRACK" THEN 1 ELSE 2), 3 * delta})

Expired(o, elapsed, delta) ==
    Terminates(o) /\ 2 * (elapsed - EndsAt(o)) > TwiceLostWindow(o, delta)
TrackStatus(o, elapsed) ==
    IF Terminates(o) /\ elapsed >= EndsAt(o) THEN "LOST" ELSE "ACTIVE"

Delta == runner.interval * runner.speed

-----------------------------------------------------------------------------
NoRecord == [state |-> "READY", tick |-> 0, generated |-> 0, active |-> 0]
NothingSeen == [o \in ScenarioObjects |-> Unreported]

EventsTypeOK ==
    /\ scenario \in Scenarios /\ life \in Lives
    /\ runner \in [interval: 1..40, speed: 1..200]
    /\ record \in [state: {"READY", "RUNNING", "STOPPED"}, tick: 0..MaxTick,
                   generated: Nat, active: 0..Cardinality(ScenarioObjects)]
    /\ seen \in [ScenarioObjects -> {Unreported, "ACTIVE", "LOST"}]

EventsInit ==
    /\ scenario \in Scenarios /\ life \in Lives
    /\ runner = [interval |-> 4, speed |-> 10]
    /\ record = NoRecord
    /\ seen = NothingSeen

countActiveScenarioObjects(elapsed, delta) ==
    Cardinality({o \in ScenarioObjects : ~Expired(o, elapsed, delta)})

(* The objects an event is generated for. *)
generateScenarioEvents(tick, interval, speed) ==
    {o \in ScenarioObjects :
        /\ shouldEmitBlock(Block(o), tick, interval)
        /\ ~Expired(o, tick * interval * speed, interval * speed)}

publishTick(before, sight, tick, interval, speed) ==
    LET events == generateScenarioEvents(tick, interval, speed)
        elapsed == tick * interval * speed
    IN  /\ seen' = [o \in ScenarioObjects |->
                       IF o \in events THEN TrackStatus(o, elapsed) ELSE sight[o]]
        /\ record' = [before EXCEPT
                !.tick = tick, !.generated = @ + Cardinality(events),
                !.active = countActiveScenarioObjects(elapsed, interval * speed)]

start(interval, speed) ==
    /\ runner' = [interval |-> Clamp(interval, 1, 40), speed |-> Clamp(speed, 1, 200)]
    /\ publishTick([NoRecord EXCEPT !.state = "RUNNING"], NothingSeen, 0,
                   runner'.interval, runner'.speed)
    /\ UNCHANGED <<scenario, life>>

publishNextTick ==
    /\ record.tick < MaxTick
    /\ publishTick(record, seen, record.tick + 1, runner.interval, runner.speed)
    /\ UNCHANGED <<scenario, life, runner>>

(* An operator may step a run that has not begun or is over. *)
stepRun == publishNextTick

IsOver == (record.tick + 1) * Delta > scenario.duration * Second

scheduledTick == record.state = "RUNNING" /\ ~IsOver /\ publishNextTick

lastTick ==
    /\ record.state = "RUNNING" /\ IsOver
    /\ record' = [record EXCEPT !.state = "STOPPED"]
    /\ UNCHANGED <<scenario, life, runner, seen>>

resetRun ==
    /\ record' = NoRecord
    /\ seen' = NothingSeen
    /\ UNCHANGED <<scenario, life, runner>>

EventsNext ==
    \/ \E interval \in IntervalInputs, speed \in SpeedInputs : start(interval, speed)
    \/ stepRun \/ scheduledTick \/ lastTick \/ resetRun

EventsSpec == EventsInit /\ [][EventsNext]_eventsVars

-----------------------------------------------------------------------------
(* "po TTL prechazi do track.lost" (docs/simulation/01): a track leaves    *)
(* the picture only after it was reported LOST, whatever speed and tick    *)
(* interval the run has, if its block reports on every tick, or at least   *)
(* once within the shortest window the code ever gives it. Blocks that     *)
(* report more rarely may lose tracks without a word.                      *)
ReportsOften(o) ==
    LET ticks == IntervalTicks(Block(o), runner.interval)
    IN  ticks = 1 \/ ticks * Delta <= Second

LostBeforeGone ==
    \A o \in ScenarioObjects :
        Expired(o, record.tick * Delta, Delta) /\ ReportsOften(o) => seen[o] = "LOST"

(* The limit on the update rate protects the publisher queue: beyond one   *)
(* report of every object at the start, a run generates at most half as    *)
(* many events again as the accepted rates of its blocks, which the        *)
(* rounding to whole ticks may cost.                                       *)
GeneratedWithinRate ==
    LET accepted == [b \in DOMAIN scenario.blocks |->
            scenario.blocks[b].objectCount * scenario.blocks[b].rate * runner.interval]
    IN  2 * Second * (record.generated - Cardinality(ScenarioObjects))
            <= 3 * record.tick * SumFunction(accepted)

(* "parovym ukoncenim zhruba 90 % cervenych cilu v miste stretu"           *)
(* (docs/simulation/08): a hostile object and the interceptor it names     *)
(* name each other, and no tick reports one of them as lost and the other  *)
(* as flying, when their blocks report at the same rate.                   *)
PairsEndTogether ==
    \A o, p \in ScenarioObjects :
        Names(o, p) =>
            Names(p, o) /\ (Block(o).rate = Block(p).rate => seen[o] = seen[p])
=================================================================================
