------------------------------ MODULE Tpeg2Source ------------------------------
(***************************************************************************)
(* Tpeg2Source of situation-data-api, and the lease of                     *)
(* ValhallaTrafficCoordinator in front of it: three feeds of a provider    *)
(* are fetched conditionally, kept in memory, and answered to the traffic  *)
(* updater as a snapshot whose revisions are hashes computed once and kept *)
(* until the next refresh.                                                 *)
(*                                                                         *)
(* Abstractions: a feed's content, its ETag and the hash of the content    *)
(* are one version; times are the flags of a feed: never fetched, fresh,   *)
(* or old; persistSnapshot, whose files nothing reads, is left out.        *)
(***************************************************************************)
EXTENDS Naturals

CONSTANTS
    MaxProvider,    \* bounds of the exploration: versions of a feed,
    MaxTroubles     \*   and failures, restarts and ends of the lease

ASSUME Tpeg2Assumption == MaxProvider \in Nat \ {0} /\ MaxTroubles \in Nat

VARIABLES
    provider,   \* the version of each feed at the provider
    feed,       \* staticFeed, dynamicFeed, tecFeed
    revision,   \* staticRevision, dynamicRevision: the version hashed, or 0
    fetching,   \* the fetches of refreshPromise, by feed
    orphans,    \* fetches a failed refresh left behind
    refreshing, \* refreshPromise: the part of refresh it is in
    poll,       \* the updater waits for refreshPromise
    lease,      \* isActive
    snapshot,   \* what the updater was answered last
    troubles    \* how much of MaxTroubles is used

tpegVars == <<provider, feed, revision, fetching, orphans, refreshing, poll,
              lease, snapshot, troubles>>

Feeds == {"static", "dynamic", "tec"}
Hashed == {"static", "dynamic"}
Versions == 0..MaxProvider      \* 0: no value
Never == [value |-> 0, at |-> "never"]
NoFetch == [since |-> 0, etag |-> 0]
Fetches == [since: Versions, etag: Versions]

TpegTypeOK ==
    /\ provider \in [Feeds -> 1..MaxProvider]
    /\ feed \in [Feeds -> [value: Versions, at: {"never", "fresh", "old"}]]
    /\ revision \in [Hashed -> Versions]
    /\ fetching \in [Feeds -> Fetches]
    /\ orphans \subseteq [feed: Feeds, fetch: Fetches]
    /\ refreshing \in {"no", "static", "both"}
    /\ {poll, lease} \subseteq BOOLEAN
    /\ snapshot \in [Hashed -> [value: Versions, revision: Versions]]
    /\ troubles \in 0..MaxTroubles

TpegInit ==
    /\ provider = [f \in Feeds |-> 1]
    /\ feed = [f \in Feeds |-> Never]
    /\ revision = [f \in Hashed |-> 0]
    /\ fetching = [f \in Feeds |-> NoFetch]
    /\ orphans = {} /\ refreshing = "no" /\ poll = FALSE /\ lease = FALSE
    /\ snapshot = [f \in Hashed |-> [value |-> 0, revision |-> 0]]
    /\ troubles = 0

-----------------------------------------------------------------------------
Trouble == troubles < MaxTroubles /\ troubles' = troubles + 1
Complete(fd) == \A f \in Feeds : fd[f].value # 0

(* trafficSnapshot after ensureFresh: ??= keeps a revision hashed before.  *)
Snapshot(fd, rev) ==
    LET kept == [f \in Hashed |-> IF rev[f] = 0 THEN fd[f].value ELSE rev[f]]
    IN  /\ revision' = kept
        /\ snapshot' = [f \in Hashed |-> [value |-> fd[f].value, revision |-> kept[f]]]

(* fetchConditional up to its await; a fetch for each feed of S. *)
Fetch(f) == [since |-> provider[f], etag |-> feed[f].value]
FetchAll(S) == fetching' = [f \in Feeds |-> IF f \in S THEN Fetch(f) ELSE fetching[f]]

refreshFeeds ==
    IF feed["static"].at # "fresh"
    THEN refreshing' = "static" /\ FetchAll({"static"})
    ELSE refreshing' = "both" /\ FetchAll({"dynamic", "tec"})

(* feed of the coordinator, called by the updater once a minute: a complete *)
(* set of feeds is answered at once, refresh or not.                        *)
PollFeed ==
    /\ lease /\ ~poll
    /\ \/ feed["dynamic"].at = "fresh" /\ UNCHANGED <<refreshing, fetching>>
       \/ /\ feed["dynamic"].at # "fresh"
          /\ IF refreshing = "no" THEN refreshFeeds ELSE UNCHANGED <<refreshing, fetching>>
    /\ IF feed["dynamic"].at = "fresh" \/ Complete(feed)
       THEN Snapshot(feed, revision) /\ UNCHANGED poll
       ELSE poll' = TRUE /\ UNCHANGED <<revision, snapshot>>
    /\ UNCHANGED <<provider, feed, orphans, lease, troubles>>

(* 304 if the provider still has what the ETag names, or the new content. *)
Received(f, fetch, v) ==
    [feed EXCEPT ![f] = [value |-> IF v = fetch.etag THEN @.value ELSE v,
                         at |-> "fresh"]]

StaticReturns ==
    /\ refreshing = "static"
    /\ \E v \in fetching["static"].since..provider["static"] :
          feed' = Received("static", fetching["static"], v)
    /\ revision' = [revision EXCEPT !["static"] = 0]
    /\ refreshing' = "both"
    /\ fetching' = [f \in Feeds |-> IF f = "static" THEN NoFetch ELSE Fetch(f)]
    /\ UNCHANGED <<provider, orphans, poll, lease, snapshot, troubles>>

(* The first of the two feeds to arrive is answered to others from then on. *)
FirstReturns(f) ==
    /\ refreshing = "both"
    /\ \A g \in {"dynamic", "tec"} : fetching[g] # NoFetch
    /\ \E v \in fetching[f].since..provider[f] : feed' = Received(f, fetching[f], v)
    /\ fetching' = [fetching EXCEPT ![f] = NoFetch]
    /\ UNCHANGED <<provider, revision, orphans, refreshing, poll, lease, snapshot, troubles>>

\* Mutant: the revision is kept when the refresh succeeds.
RevisionKept(f) ==
    /\ refreshing = "both"
    /\ {g \in {"dynamic", "tec"} : fetching[g] # NoFetch} = {f}
    /\ \E v \in fetching[f].since..provider[f] :
          /\ feed' = Received(f, fetching[f], v)
          /\ IF poll THEN Snapshot(feed', revision)
             ELSE UNCHANGED <<revision, snapshot>>
    /\ fetching' = [fetching EXCEPT ![f] = NoFetch]
    /\ refreshing' = "no"
    /\ poll' = FALSE
    /\ UNCHANGED <<provider, orphans, lease, troubles>>

(* The second one ends the refresh, and the poll that waits for it.        *)
SecondReturns(f) ==
    /\ refreshing = "both"
    /\ {g \in {"dynamic", "tec"} : fetching[g] # NoFetch} = {f}
    /\ \E v \in fetching[f].since..provider[f] :
          /\ feed' = Received(f, fetching[f], v)
          /\ LET reset == [revision EXCEPT !["dynamic"] = 0] IN
             IF poll THEN Snapshot(feed', reset)
             ELSE revision' = reset /\ UNCHANGED snapshot
    /\ fetching' = [fetching EXCEPT ![f] = NoFetch]
    /\ refreshing' = "no"
    /\ poll' = FALSE
    /\ UNCHANGED <<provider, orphans, lease, troubles>>

(* The refresh fails as a whole, and the other fetch goes on by itself. A  *)
(* complete set of feeds is kept and not refreshed for a while, so a poll  *)
(* that waited is answered; else the poll gets the error.                  *)
FetchFails(f) ==
    /\ refreshing # "no" /\ fetching[f] # NoFetch
    /\ Trouble
    /\ orphans' = orphans \cup {[feed |-> g, fetch |-> fetching[g]] :
                                   g \in {h \in Feeds \ {f} : fetching[h] # NoFetch}}
    /\ fetching' = [g \in Feeds |-> NoFetch]
    /\ refreshing' = "no"
    /\ poll' = FALSE
    /\ \/ /\ Complete(feed)
          /\ feed' = [g \in Feeds |-> [feed[g] EXCEPT !.at = "fresh"]]
          /\ IF poll THEN Snapshot(feed, revision) ELSE UNCHANGED <<revision, snapshot>>
       \/ /\ ~Complete(feed)
          /\ UNCHANGED <<feed, revision, snapshot>>
    /\ UNCHANGED <<provider, lease>>

OrphanEnds(o) ==
    /\ o \in orphans
    /\ orphans' = orphans \ {o}
    /\ \/ \E v \in o.fetch.since..provider[o.feed] : feed' = Received(o.feed, o.fetch, v)
       \/ UNCHANGED feed
    /\ UNCHANGED <<provider, revision, fetching, refreshing, poll, lease, snapshot, troubles>>

-----------------------------------------------------------------------------
GrowsOld(f) ==
    /\ feed[f].at = "fresh"
    /\ feed' = [feed EXCEPT ![f].at = "old"]
    /\ UNCHANGED <<provider, revision, fetching, orphans, refreshing, poll, lease,
                   snapshot, troubles>>

ProviderPublishes(f) ==
    /\ provider[f] < MaxProvider
    /\ provider' = [provider EXCEPT ![f] = @ + 1]
    /\ UNCHANGED <<feed, revision, fetching, orphans, refreshing, poll, lease,
                   snapshot, troubles>>

activate ==
    /\ ~lease /\ lease' = TRUE
    /\ UNCHANGED <<provider, feed, revision, fetching, orphans, refreshing, poll,
                   snapshot, troubles>>

LeaseEnds ==
    /\ lease /\ lease' = FALSE
    /\ Trouble
    /\ UNCHANGED <<provider, feed, revision, fetching, orphans, refreshing, poll, snapshot>>

ServiceRestarts ==
    /\ Trouble
    /\ feed' = [f \in Feeds |-> Never]
    /\ revision' = [f \in Hashed |-> 0]
    /\ fetching' = [f \in Feeds |-> NoFetch]
    /\ orphans' = {} /\ refreshing' = "no" /\ poll' = FALSE /\ lease' = FALSE
    /\ UNCHANGED <<provider, snapshot>>

FetchReturns ==
    \/ StaticReturns
    \/ \E f \in {"dynamic", "tec"} : FirstReturns(f) \/ SecondReturns(f)

TpegNext ==
    \/ PollFeed
    \/ FetchReturns
    \/ \E f \in Feeds : FetchFails(f) \/ GrowsOld(f) \/ ProviderPublishes(f)
    \/ \E o \in orphans : OrphanEnds(o)
    \/ activate \/ LeaseEnds \/ ServiceRestarts

TpegSpec == TpegInit /\ [][TpegNext]_tpegVars

-----------------------------------------------------------------------------
(* Once the provider has stopped changing and failing, an updater that     *)
(* keeps its lease, and does nothing while the revisions stay the same, is *)
(* answered the provider's content under its revision for ever: no         *)
(* revision kept from an earlier content, no early return of ensureFresh   *)
(* and no fetch left behind hides the last change.                         *)
FeedCatchesUp ==
    []<>lease =>
        <>[](\A f \in Hashed :
                snapshot[f] = [value |-> provider[f], revision |-> provider[f]])
================================================================================
