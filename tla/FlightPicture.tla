----------------------------- MODULE FlightPicture -----------------------------
(***************************************************************************)
(* FlightAggregationService of flight-data-api for one aircraft, which an  *)
(* external source with a cache of its own and the store of the partners'  *)
(* tracks both may see. An aggregation takes the partners' observation,    *)
(* awaits the external source, picks the position and its stale flag, and  *)
(* awaits the route enrichment; its picture is then cached, and answered   *)
(* while it is refreshed in the background.                                *)
(*                                                                         *)
(* Abstractions: the picture has one key; a position is the time it was    *)
(* seen; the external source has the lower priority (80 against 95); every *)
(* source answers something, for the partners' store never fails.          *)
(***************************************************************************)
EXTENDS ServiceClock

CONSTANTS
    TtlF, StaleIfErrorF, StaleAfter, PartnerTtl,    \* configuration
    RequestTimeout,                                 \* what an await takes at most
    MaxDelay,                                       \* bound: how late a position comes
    Unseen                                          \* no observation

ASSUME FlightAssumption ==
    /\ {TtlF, StaleIfErrorF, StaleAfter, PartnerTtl, RequestTimeout, MaxDelay} \subseteq Nat
    /\ Unseen \notin Nat

VARIABLES
    partner,    \* PartnerAirTrackStore: the observation of the aircraft
    payload,    \* payloadCache of the external source
    build,      \* the aggregation that runs: its await, what it has, and its time limit
    picture,    \* the cached answer
    waiting,    \* a caller awaits the aggregation
    tooOld,     \* history: a position was answered as live past its bound
    lingered    \* history: a partner's track was answered past its bound

flightState == <<partner, payload, build, picture, waiting, tooOld, lingered>>
flightVars == <<flightState, now>>

Seen == Nat \cup {Unseen}
NoPartner == [seen |-> Unseen, until |-> 0]
NoPayload == [seen |-> Unseen, at |-> Unseen]
NoTrack == [seen |-> Unseen, stale |-> FALSE, until |-> Unseen]
NoBuild == [awaits |-> "nothing", partner |-> NoPartner, track |-> NoTrack, limit |-> 0]
NoPicture == [track |-> NoTrack, at |-> Unseen]

FlightTypeOK ==
    LET Partners == [seen: Seen, until: Nat]
        Tracks == [seen: Seen, stale: BOOLEAN, until: Seen] IN
    /\ partner \in Partners
    /\ payload \in [seen: Seen, at: Seen]
    /\ build \in [awaits: {"nothing", "source", "routes"}, partner: Partners,
                  track: Tracks, limit: Nat]
    /\ picture \in [track: Tracks, at: Seen]
    /\ {waiting, tooOld, lingered} \subseteq BOOLEAN

FlightInit ==
    /\ partner = NoPartner /\ payload = NoPayload
    /\ build = NoBuild /\ picture = NoPicture
    /\ waiting = FALSE /\ tooOld = FALSE /\ lingered = FALSE
    /\ now = 0

-----------------------------------------------------------------------------
Positions == {seen \in 0..now : seen + MaxDelay >= now}

(* PartnerAirTrackStore *)

(* A record may be late, and may say itself when it expires.               *)
mapRecord == [seen: Positions, until: {now + PartnerTtl, now + 1, now}]

(* The latest batch wins, whatever it observed when.                       *)
upsert ==
    /\ partner' \in mapRecord
    /\ UNCHANGED <<payload, build, picture, waiting, tooOld, lingered, now>>

\* Mutant: what has expired is still answered.
Unpruned == partner

(* fetch *)
Fetched == IF partner.until <= now THEN NoPartner ELSE partner

-----------------------------------------------------------------------------
(* deduplicateObservations *)

\* Mutant: the age is that of the fetch and not of the observation.
SinceFetch(seen) == build # NoBuild /\ now + RequestTimeout - build.limit > StaleAfter

IsStale(seen) == now - seen > StaleAfter

(* The partners' observation comes first, whichever was seen last.         *)
deduplicate(p, external) ==
    CASE p.seen # Unseen -> [seen |-> p.seen, stale |-> IsStale(p.seen), until |-> p.until]
      [] p.seen = Unseen /\ external # Unseen ->
            [seen |-> external, stale |-> IsStale(external), until |-> Unseen]
      [] OTHER -> NoTrack

Assembled(p, external) ==
    build' = [awaits |-> "routes", partner |-> p, track |-> deduplicate(p, external),
              limit |-> now + RequestTimeout]

-----------------------------------------------------------------------------
PayloadFresh == payload.at # Unseen /\ payload.at + TtlF > now
PayloadUsable == payload.at # Unseen /\ payload.at + TtlF + StaleIfErrorF > now

fetchTracks ==
    IF PayloadFresh
    THEN Assembled(Fetched, payload.seen)
    ELSE build' = [NoBuild EXCEPT !.awaits = "source", !.partner = Fetched,
                                  !.limit = now + RequestTimeout]

(* The source answers what it saw of the aircraft, if it saw it.           *)
SourceAnswers ==
    /\ build.awaits = "source"
    /\ \E seen \in Positions \cup {Unseen} :
          /\ payload' = [seen |-> seen, at |-> now]
          /\ Assembled(build.partner, seen)
    /\ UNCHANGED <<partner, picture, waiting, tooOld, lingered, now>>

(* allSettled: the picture is made without a source that fails.            *)
SourceFails ==
    /\ build.awaits = "source"
    /\ Assembled(build.partner, IF PayloadUsable THEN payload.seen ELSE Unseen)
    /\ UNCHANGED <<partner, payload, picture, waiting, tooOld, lingered, now>>

-----------------------------------------------------------------------------
PictureLife == TtlF + StaleIfErrorF
LiveBound == StaleAfter + RequestTimeout + PictureLife
PartnerBound == 2 * RequestTimeout + PictureLife - 1

Shows(track) ==
    /\ tooOld' = \/ tooOld
                 \/ /\ track.seen # Unseen /\ ~track.stale
                    /\ now - track.seen >= LiveBound
    /\ lingered' = \/ lingered
                   \/ track.until # Unseen /\ now >= track.until + PartnerBound
NotAnswered == UNCHANGED <<tooOld, lingered>>

(* getTracks: fresh, or stale and refreshed in the background, or awaited. *)
getTracks ==
    /\ ~waiting
    /\ LET cached == picture.at # Unseen
           fresh == cached /\ picture.at + TtlF > now
           usable == cached /\ picture.at + TtlF + StaleIfErrorF > now
       IN  /\ IF fresh \/ build # NoBuild THEN UNCHANGED build ELSE fetchTracks
           /\ IF usable THEN Shows(picture.track) /\ UNCHANGED waiting
              ELSE waiting' = TRUE /\ NotAnswered
    /\ UNCHANGED <<partner, payload, picture, now>>

(* enrichTracks answers or fails: the tracks stay what they were.          *)
RoutesAnswer ==
    /\ build.awaits = "routes"
    /\ picture' = [track |-> build.track, at |-> now]
    /\ IF waiting THEN Shows(build.track) ELSE NotAnswered
    /\ waiting' = FALSE
    /\ build' = NoBuild
    /\ UNCHANGED <<partner, payload, now>>

FlightTimePasses ==
    /\ build = NoBuild \/ now < build.limit
    /\ ClockTicks
    /\ UNCHANGED flightState

FlightNext ==
    \/ upsert \/ getTracks
    \/ SourceAnswers \/ SourceFails \/ RoutesAnswer
    \/ FlightTimePasses

FlightSpec == FlightInit /\ [][FlightNext]_flightVars

-----------------------------------------------------------------------------
(* "the normal staleAfterSeconds flag still identifies old tracks": the    *)
(* flag is set when the picture is made, from observations that two caches *)
(* may have kept, so a position answered as not stale may be older than    *)
(* StaleAfter, but never by more than one life of the picture's cache and  *)
(* the enrichment: the life of the source's cache does not add to it.      *)
LiveTracksAreRecent == ~tooOld

(* A partner's track is not answered longer past its expiry than an        *)
(* aggregation and the life of its picture take.                           *)
ExpiredTracksLeave == ~lingered
================================================================================
