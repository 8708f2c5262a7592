--------------------------- MODULE DataServicesProofs ---------------------------
(***************************************************************************)
(* The instance that explores one component of the data services while the *)
(* others rest is a behaviour of each of them, so what is proved of a      *)
(* component holds of it.                                                  *)
(***************************************************************************)
EXTENDS MCDataServices, SituationDataProofs, FlightDataProofs, HydroHistoryProofs,
        ScenarioEventsProofs

(* What rests holds nothing that the clock could end.                      *)
RestingHoldsNothing ==
    /\ explored # "shared" => redis = Nothing
    /\ explored # "flight" => build = NoBuild

LEMMA ClockIsCommon ==
    ASSUME MCNext
    PROVE  ClockTicks \/ UNCHANGED now
<1>1. CASE explored = "cache"
  BY <1>1 DEF MCNext, CacheNext, getOrLoad, loadEnds, loadSucceeds, loadFails,
              rejectionUnhandled, SourceChanges
<1>2. CASE explored = "shared"
  BY <1>2 DEF MCNext, SharedNext, SharedProgress, getOrLoadShared, redisGets, readSharedEntry,
              storeEntry, writeSharedEntry, sharedLoadFails, EvictEntry, ProcessRestarts,
              TimePasses
<1>3. CASE explored = "flight"
  BY <1>3 DEF MCNext, FlightNext, upsert, getTracks, SourceAnswers, SourceFails, RoutesAnswer,
              FlightTimePasses
<1>4. CASE explored \notin {"cache", "shared", "flight"}
  BY <1>4 DEF MCNext
<1> QED
  BY <1>1, <1>2, <1>3, <1>4

LEMMA RestingHoldsNothingKept ==
    RestingHoldsNothing /\ [MCNext]_mcVars => RestingHoldsNothing'
<1> SUFFICES ASSUME RestingHoldsNothing, [MCNext]_mcVars
             PROVE  RestingHoldsNothing'
  OBVIOUS
<1>1. UNCHANGED explored
  BY DEF MCNext, mcVars
<1>2. explored # "shared" => UNCHANGED sharedState
  BY DEF MCNext, mcVars
<1>3. explored # "flight" => UNCHANGED flightState
  BY DEF MCNext, mcVars
<1> QED
  BY <1>1, <1>2, <1>3 DEF RestingHoldsNothing, sharedState, flightState

(* A step of the instance is a step of each component, or leaves it alone. *)
LEMMA ComponentsStep ==
    RestingHoldsNothing /\ [MCNext]_mcVars =>
        /\ [CacheNext]_cacheVars /\ [SharedNext]_sharedVars /\ [GeoNext]_geoVars
        /\ [TpegNext]_tpegVars /\ [HydroNext]_hydroVars /\ [FlightNext]_flightVars
        /\ [EventsNext]_eventsVars
<1> SUFFICES ASSUME RestingHoldsNothing, MCNext
             PROVE  /\ [CacheNext]_cacheVars /\ [SharedNext]_sharedVars /\ [GeoNext]_geoVars
                    /\ [TpegNext]_tpegVars /\ [HydroNext]_hydroVars /\ [FlightNext]_flightVars
                    /\ [EventsNext]_eventsVars
  BY DEF mcVars, cacheVars, sharedVars, flightVars
<1>1. ClockTicks \/ UNCHANGED now
  BY ClockIsCommon
<1>2. [CacheNext]_cacheVars
  BY <1>1 DEF MCNext, CacheNext, cacheVars
<1>3. [SharedNext]_sharedVars
  <2>1. CASE explored = "shared"
    BY <2>1 DEF MCNext
  <2>2. CASE explored # "shared" /\ ClockTicks
    <3>1. UNCHANGED sharedState /\ redis = Nothing
      BY <2>2 DEF MCNext, RestingHoldsNothing
    <3>2. TimePasses
      BY <2>2, <3>1 DEF TimePasses, sharedState
    <3> QED
      BY <3>2 DEF SharedNext
  <2>3. CASE explored # "shared" /\ UNCHANGED now
    BY <2>3 DEF MCNext, sharedVars
  <2> QED
    BY <1>1, <2>1, <2>2, <2>3
<1>4. [FlightNext]_flightVars
  <2>1. CASE explored = "flight"
    BY <2>1 DEF MCNext
  <2>2. CASE explored # "flight" /\ ClockTicks
    <3>1. UNCHANGED flightState /\ build = NoBuild
      BY <2>2 DEF MCNext, RestingHoldsNothing
    <3>2. FlightTimePasses
      BY <2>2, <3>1 DEF FlightTimePasses
    <3> QED
      BY <3>2 DEF FlightNext
  <2>3. CASE explored # "flight" /\ UNCHANGED now
    BY <2>3 DEF MCNext, flightVars
  <2> QED
    BY <1>1, <2>1, <2>2, <2>3
<1>5. [GeoNext]_geoVars /\ [TpegNext]_tpegVars /\ [HydroNext]_hydroVars /\ [EventsNext]_eventsVars
  BY DEF MCNext
<1> QED
  BY <1>2, <1>3, <1>4, <1>5

(* Whatever is explored, every component behaves as its module says: the   *)
(* run that checks them together checks the specifications the theorems    *)
(* are about.                                                              *)
THEOREM ComponentsBehave ==
    MCSpec => /\ CacheSpec /\ SharedSpec /\ GeoSpec /\ TpegSpec
              /\ HydroSpec /\ FlightSpec /\ EventsSpec
<1>1. MCInit => /\ CacheInit /\ SharedInit /\ GeoInit /\ TpegInit /\ HydroInit /\ FlightInit
                /\ EventsInit
  BY DEF MCInit
<1>2. MCInit => RestingHoldsNothing
  BY DEF MCInit, SharedInit, FlightInit, RestingHoldsNothing
<1> QED
  BY <1>1, <1>2, RestingHoldsNothingKept, ComponentsStep, PTL
     DEF MCSpec, CacheSpec, SharedSpec, GeoSpec, TpegSpec, HydroSpec, FlightSpec, EventsSpec

(* Every component of the instance keeps its types.                        *)
THEOREM ServicesTyped == MCSpec => []ServicesTypeOK
<1>1. /\ CacheTypeOK /\ SharedTypeOK /\ GeoTypeOK /\ TpegTypeOK
      /\ HydroTypeOK /\ FlightTypeOK /\ EventsTypeOK
      => ServicesTypeOK
  BY DEF ServicesTypeOK
<1> QED
  BY <1>1, ComponentsBehave, CacheTyped, SharedCacheTyped, GeoTyped, TpegTyped, HydroTyped,
     FlightTyped, EventsTyped, PTL

(* What the components promise holds in the instance, whatever the others  *)
(* do: the invariants and action properties of its run, the limits of the  *)
(* response cache, and whole answers to the traffic updater.               *)
THEOREM ServicesKeepPromises ==
    ASSUME TtlF > 0
    PROVE  MCSpec => /\ [](NeverTooOld /\ OneLoadPerProcess)
                     /\ [](NoForeignAnswer /\ StoredBeforeAnswered)
                     /\ []OneLinePerKey
                     /\ [](LiveTracksAreRecent /\ ExpiredTracksLeave)
                     /\ [](LostBeforeGone /\ GeneratedWithinRate /\ PairsEndTogether)
                     /\ []CacheIsBounded /\ AnswersNeverGoBack
                     /\ AnswersAreWhole
<1>1. SharedSpec => [](NeverTooOld /\ OneLoadPerProcess)
  BY NoAnswerIsTooOld, LoadsAreShared, PTL
<1>2. GeoSpec => [](NoForeignAnswer /\ StoredBeforeAnswered)
  BY NoClientGetsAForeignAnswer, AnswersWereStored, PTL
<1>3. FlightSpec => [](LiveTracksAreRecent /\ ExpiredTracksLeave)
  BY LiveMeansRecent, ExpiredMeansGone, PTL
<1>4. EventsSpec => [](LostBeforeGone /\ GeneratedWithinRate /\ PairsEndTogether)
  BY LostIsReported, RateIsKept, EngagementsEndTogether, PTL
<1> QED
  BY <1>1, <1>2, <1>3, <1>4, ComponentsBehave, HistoryHasNoDoubles, CacheKeepsItsLimits,
     NoAnswerGoesBack, UpdaterGetsWholeFeed, PTL
=================================================================================
