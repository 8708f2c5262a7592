----------------------------- MODULE ResponseCache -----------------------------
(***************************************************************************)
(* ManagedResponseCache of flight-data-api; with Swr = 0 it is the one of  *)
(* safety-data-api. A promise turn (then, catch and finally included) runs *)
(* to its end, so getOrLoad and the end of a load are one step each.       *)
(*                                                                         *)
(* Abstractions: what a source answers for a key is a version that grows;  *)
(* a load gets one the source had between its start and its end. The       *)
(* counters of stats() are left out.                                       *)
(***************************************************************************)
EXTENDS ServiceClock, SequencesExt

CONSTANTS
    Keys, Readers,
    Loads,          \* the loads that may run at once
    None,
    Ttl, Swr, StaleIfError, MaxEntries,     \* the options of the cache
    MaxVersion      \* bound of the exploration

ASSUME CacheAssumption ==
    /\ Ttl \in Nat /\ Swr \in Nat /\ StaleIfError \in Nat
    /\ MaxEntries \in Nat \ {0} /\ MaxVersion \in Nat
    /\ None \notin Keys \cup Readers \cup Loads /\ None \notin Nat

VARIABLES
    entry,      \* entries: value and time it was stored, by key
    lru,        \* the order of the keys in the Map, the oldest first
    inflight,   \* inflight: the load whose promise is kept, by key
    loads,      \* the loads that run: their key and the version they began at
    awaiting,   \* the load each reader awaits
    source,     \* what the source would answer now, by key
    answered    \* history: the version answered last, by key

cacheState == <<entry, lru, inflight, loads, awaiting, source, answered>>
cacheVars == <<cacheState, now>>

NoEntry == [value |-> None, at |-> 0]
CacheTypeOK ==
    /\ entry \in [Keys -> [value: Nat, at: Nat] \cup {NoEntry}]
    /\ lru \in Seq(Keys)
    /\ inflight \in [Keys -> Loads \cup {None}]
    /\ loads \in [Loads -> [key: Keys, since: Nat] \cup {None}]
    /\ awaiting \in [Readers -> Loads \cup {None}]
    /\ source \in [Keys -> Nat]
    /\ answered \in [Keys -> Nat]
    /\ now \in Nat

CacheInit ==
    /\ entry = [k \in Keys |-> NoEntry]
    /\ lru = <<>>
    /\ inflight = [k \in Keys |-> None]
    /\ loads = [l \in Loads |-> None]
    /\ awaiting = [r \in Readers |-> None]
    /\ source = [k \in Keys |-> 0]
    /\ answered = [k \in Keys |-> 0]
    /\ now = 0

-----------------------------------------------------------------------------
Cached(k) == entry[k] # NoEntry
Fresh(k) == Cached(k) /\ entry[k].at + Ttl > now
Usable(k) == Cached(k) /\ entry[k].at + Ttl + StaleIfError > now
Revalidable(k) == Usable(k) /\ entry[k].at + Ttl + Swr > now

Newest(k) == Append(RemoveFirst(lru, k), k)

touchEntry(k) == lru' = Newest(k) /\ UNCHANGED entry

(* store and evictIfNeeded: one key may have to go. *)
store(k, v) ==
    LET order == Newest(k)
        stored == [entry EXCEPT ![k] = [value |-> v, at |-> now]]
    IN  IF Len(order) > MaxEntries
        THEN /\ lru' = Tail(order)
             /\ entry' = [stored EXCEPT ![Head(order)] = NoEntry]
        ELSE lru' = order /\ entry' = stored

Answer(k, v) == answered' = [answered EXCEPT ![k] = v]

refresh(k, l) ==
    /\ loads[l] = None
    /\ loads' = [loads EXCEPT ![l] = [key |-> k, since |-> source[k]]]
    /\ inflight' = [inflight EXCEPT ![k] = l]
NoRefresh == UNCHANGED <<loads, inflight>>

-----------------------------------------------------------------------------
(* getOrLoad *)

Hit(k) ==
    /\ Fresh(k)
    /\ touchEntry(k)
    /\ Answer(k, entry[k].value)
    /\ NoRefresh
    /\ UNCHANGED awaiting

\* Mutant: a refresh in the background is started by every stale hit.
RevalidateAlways(k) ==
    /\ ~Fresh(k) /\ Revalidable(k)
    /\ touchEntry(k)
    /\ Answer(k, entry[k].value)
    /\ \E l \in Loads : refresh(k, l)
    /\ UNCHANGED awaiting

(* The stale value is answered; nobody awaits the refresh it starts. *)
StaleHit(k) ==
    /\ ~Fresh(k) /\ Revalidable(k)
    /\ touchEntry(k)
    /\ Answer(k, entry[k].value)
    /\ \/ inflight[k] = None /\ \E l \in Loads : refresh(k, l)
       \/ inflight[k] # None /\ NoRefresh
    /\ UNCHANGED awaiting

Coalesced(r, k) ==
    /\ ~Fresh(k) /\ ~Revalidable(k)
    /\ inflight[k] # None
    /\ awaiting' = [awaiting EXCEPT ![r] = inflight[k]]
    /\ NoRefresh
    /\ UNCHANGED <<entry, lru, answered>>

Miss(r, k) ==
    /\ ~Fresh(k) /\ ~Revalidable(k)
    /\ inflight[k] = None
    /\ \E l \in Loads :
          refresh(k, l) /\ awaiting' = [awaiting EXCEPT ![r] = l]
    /\ UNCHANGED <<entry, lru, answered>>

getOrLoad(r, k) ==
    /\ awaiting[r] = None
    /\ Hit(k) \/ StaleHit(k) \/ Coalesced(r, k) \/ Miss(r, k)
    /\ UNCHANGED <<source, now>>

-----------------------------------------------------------------------------
(* The end of a load: everyone who awaits its promise is answered. *)

Awaited(l) == \E r \in Readers : awaiting[r] = l

\* Mutant: the load stays in inflight.
InflightKept(l) ==
    /\ loads' = [loads EXCEPT ![l] = None]
    /\ awaiting' = [r \in Readers |-> IF awaiting[r] = l THEN None ELSE awaiting[r]]
    /\ UNCHANGED inflight

Settle(l) ==
    /\ loads' = [loads EXCEPT ![l] = None]
    /\ inflight' = [inflight EXCEPT ![loads[l].key] = None]
    /\ awaiting' = [r \in Readers |-> IF awaiting[r] = l THEN None ELSE awaiting[r]]

loadSucceeds(l) ==
    /\ loads[l] # None
    /\ LET k == loads[l].key IN
       \E v \in loads[l].since..source[k] :
          /\ store(k, v)
          /\ IF Awaited(l) THEN Answer(k, v) ELSE UNCHANGED answered
    /\ Settle(l)
    /\ UNCHANGED <<source, now>>

(* stale-if-error, or the error for those who wait. *)
loadFails(l) ==
    /\ loads[l] # None
    /\ LET k == loads[l].key IN
       \/ /\ Usable(k)
          /\ touchEntry(k)
          /\ IF Awaited(l) THEN Answer(k, entry[k].value) ELSE UNCHANGED answered
       \/ /\ ~Usable(k)
          /\ Awaited(l)
          /\ UNCHANGED <<entry, lru, answered>>
    /\ Settle(l)
    /\ UNCHANGED <<source, now>>

(* Nobody awaits a refresh in the background: when it fails and the stale  *)
(* entry has run out or was evicted, the rejection is unhandled, which     *)
(* ends the process with the requests it holds. It starts again empty.     *)
rejectionUnhandled(l) ==
    /\ loads[l] # None
    /\ ~Usable(loads[l].key) /\ ~Awaited(l)
    /\ entry' = [k \in Keys |-> NoEntry] /\ lru' = <<>>
    /\ inflight' = [k \in Keys |-> None]
    /\ loads' = [m \in Loads |-> None]
    /\ awaiting' = [r \in Readers |-> None]
    /\ UNCHANGED <<source, answered, now>>

SourceChanges(k) ==
    /\ source[k] < MaxVersion
    /\ source' = [source EXCEPT ![k] = @ + 1]
    /\ UNCHANGED <<entry, lru, inflight, loads, awaiting, answered, now>>

loadEnds(l) == loadSucceeds(l) \/ loadFails(l) \/ rejectionUnhandled(l)

CacheNext ==
    \/ \E r \in Readers, k \in Keys : getOrLoad(r, k)
    \/ \E l \in Loads : loadEnds(l)
    \/ \E k \in Keys : SourceChanges(k)
    \/ ClockTicks /\ UNCHANGED cacheState

CacheSpec == CacheInit /\ [][CacheNext]_cacheVars

-----------------------------------------------------------------------------
(* What the cache answers for a key never goes back to an earlier version, *)
(* whatever hits, stale hits, refreshes in the background, evictions and   *)
(* failures interleave: there is "exactly one background aggregation       *)
(* refresh" (docs/runbooks/13), and a late load cannot undo a later one.   *)
AnswersNeverGoBack == [][\A k \in Keys : answered'[k] >= answered[k]]_cacheVars

(* Every reader that awaits a load is answered or gets its error: no load  *)
(* ends without the readers that joined it, and none is joined after it    *)
(* ended.                                                                  *)
ReadersAnswered == \A r \in Readers : awaiting[r] # None ~> awaiting[r] = None
================================================================================
