----------------------------- MODULE MCDataServices -----------------------------
(***************************************************************************)
(* The small instance, for TLC, of the components of the data services and *)
(* of event generation. They share no state but the clock, so a behaviour  *)
(* explores one of them while the others stay as they were started.        *)
(***************************************************************************)
EXTENDS ResponseCache, SharedResponseCache, GeoRouting, Tpeg2Source,
        HydroHistory, FlightPicture, ScenarioEvents

CONSTANTS
    c1, c2, c3, p1, p2,     \* callers of the shared cache and their processes
    h1, h2, h3              \* records of a station

TwoProcesses == c1 :> p1 @@ c2 :> p1 @@ c3 :> p2
OverlappingPayloads == {<<h1, h2>>, <<h2, h3>>}

OfBlock(role, count, rate) ==
    [role |-> role, family |-> "missile", objectCount |-> count, rate |-> rate]

Tracks == [duration |-> 60, blocks |-> <<OfBlock("SHORT_LIVED_TRACK", 1, 10),
                                         OfBlock("SHORT_LIVED_TRACK", 1, 4),
                                         OfBlock("TRACK", 4, 25)>>]
SmallScenarios ==
    {Tracks}
        \cup {[duration |-> d, blocks |-> <<OfBlock("HOSTILE_INBOUND", 11, 10),
                                            OfBlock("FRIEND_INTERCEPTOR", 10, 10)>>] :
               d \in {60, 150}}

VARIABLE explored

mcVars == <<cacheState, sharedState, geoVars, tpegVars, hydroVars, flightState,
            eventsVars, now, explored>>

MCInit ==
    /\ CacheInit /\ SharedInit /\ GeoInit /\ TpegInit /\ HydroInit /\ FlightInit
    /\ EventsInit
    /\ explored \in {"cache", "shared", "geo", "tpeg", "hydro", "flight", "events"}
    /\ explored # "events" => scenario = Tracks

MCNext ==
    /\ \/ explored = "cache" /\ CacheNext
       \/ explored # "cache" /\ UNCHANGED cacheState
    /\ \/ explored = "shared" /\ SharedNext
       \/ explored # "shared" /\ UNCHANGED sharedState
    /\ \/ explored = "geo" /\ GeoNext
       \/ explored # "geo" /\ UNCHANGED geoVars
    /\ \/ explored = "tpeg" /\ TpegNext
       \/ explored # "tpeg" /\ UNCHANGED tpegVars
    /\ \/ explored = "hydro" /\ HydroNext
       \/ explored # "hydro" /\ UNCHANGED hydroVars
    /\ \/ explored = "flight" /\ FlightNext
       \/ explored # "flight" /\ UNCHANGED flightState
    /\ \/ explored = "events" /\ EventsNext
       \/ explored # "events" /\ UNCHANGED eventsVars
    /\ explored \notin {"cache", "shared", "flight"} => UNCHANGED now
    /\ UNCHANGED explored

(* Loads, calls, fetches and file operations come to an end, and an updater *)
(* that holds the lease polls every minute; nothing else is fair.           *)
MCFairness ==
    /\ \A l \in Loads : WF_cacheVars(explored = "cache" /\ loadEnds(l))
    /\ \A c \in Callers : WF_sharedVars(explored = "shared" /\ SharedProgress(c))
    /\ \A p \in Persists : WF_hydroVars(explored = "hydro" /\ writeStationRecords(p))
    /\ WF_tpegVars(explored = "tpeg" /\ PollFeed)
    /\ WF_tpegVars(explored = "tpeg" /\ FetchReturns)
    /\ WF_tpegVars(explored = "tpeg" /\ \E o \in orphans : OrphanEnds(o))
    /\ \A f \in Hashed : WF_tpegVars(explored = "tpeg" /\ GrowsOld(f))

MCSpec == MCInit /\ [][MCNext]_mcVars /\ MCFairness

ServicesTypeOK ==
    /\ CacheTypeOK /\ SharedTypeOK /\ GeoTypeOK
    /\ TpegTypeOK /\ HydroTypeOK /\ FlightTypeOK /\ EventsTypeOK
=================================================================================
