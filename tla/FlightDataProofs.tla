---------------------------- MODULE FlightDataProofs ----------------------------
(***************************************************************************)
(* Theorems about the caches of flight-data-api: the answers of its response*)
(* cache never go back, and how long a position may be answered as live.   *)
(***************************************************************************)
EXTENDS ResponseCache, FlightPicture, FiniteSetTheorems, SequenceTheorems,
        WellFoundedInduction, TLAPS

(* ManagedResponseCache, for any keys, readers and loads, any times to live*)
(* and any number of entries: a load that runs is the only one of its key, so*)
(* what it brings is at least as new as what was answered or stored since it*)
(* began.                                                                  *)

Stored == [value: Nat, at: Nat]
Load == [key: Keys, since: Nat]

(* The types the argument needs; the order of the keys plays no part.      *)
VersionTypes ==
    /\ entry \in [Keys -> Stored \cup {NoEntry}]
    /\ inflight \in [Keys -> Loads \cup {None}]
    /\ loads \in [Loads -> Load \cup {None}]
    /\ source \in [Keys -> Nat]
    /\ answered \in [Keys -> Nat]
    /\ now \in Nat

LoadsAreInflight ==
    \A l \in Loads : loads[l] # None => inflight[loads[l].key] = l

VersionsAreOrdered ==
    \A k \in Keys :
        /\ answered[k] <= source[k]
        /\ Cached(k) => answered[k] <= entry[k].value /\ entry[k].value <= source[k]

LoadsBeginLast ==
    \A l \in Loads : loads[l] # None =>
        /\ answered[loads[l].key] <= loads[l].since
        /\ loads[l].since <= source[loads[l].key]
        /\ Cached(loads[l].key) => entry[loads[l].key].value <= loads[l].since

CacheInv == VersionTypes /\ LoadsAreInflight /\ VersionsAreOrdered /\ LoadsBeginLast

NothingGoesBack == \A k \in Keys : answered'[k] >= answered[k]

-----------------------------------------------------------------------------
LEMMA CacheInitial == CacheInit => CacheInv
<1> SUFFICES ASSUME CacheInit PROVE CacheInv
  OBVIOUS
<1>1. VersionTypes
  BY DEF CacheInit, VersionTypes
<1>2. LoadsAreInflight /\ VersionsAreOrdered /\ LoadsBeginLast
  BY DEF CacheInit, LoadsAreInflight, VersionsAreOrdered, LoadsBeginLast, Cached
<1> QED
  BY <1>1, <1>2 DEF CacheInv

(* What getOrLoad does: answers come from the entries, and a load begins   *)
(* for a key that has none.                                                *)
LEMMA ReadsKeep ==
    ASSUME CacheInv, UNCHANGED <<entry, source, now>>,
           answered' \in [Keys -> Nat],
           \A k \in Keys : \/ answered'[k] = answered[k]
                           \/ Cached(k) /\ answered'[k] = entry[k].value,
           \/ NoRefresh
           \/ \E k \in Keys, l \in Loads : inflight[k] = None /\ refresh(k, l)
    PROVE  CacheInv' /\ NothingGoesBack
<1>1. NothingGoesBack
  BY DEF CacheInv, VersionTypes, VersionsAreOrdered, NothingGoesBack, Cached, Stored
<1>2. VersionsAreOrdered'
  BY DEF CacheInv, VersionTypes, VersionsAreOrdered, Cached, Stored
<1>3. CASE NoRefresh
  <2>1. VersionTypes' /\ LoadsAreInflight'
    BY <1>3 DEF CacheInv, VersionTypes, LoadsAreInflight, NoRefresh
  <2>2. LoadsBeginLast'
    BY <1>3
    DEF CacheInv, VersionTypes, LoadsBeginLast, Load, Stored, NoRefresh, Cached
  <2> QED
    BY <1>1, <1>2, <2>1, <2>2 DEF CacheInv
<1>4. ASSUME NEW k \in Keys, NEW l \in Loads, inflight[k] = None, refresh(k, l)
      PROVE  CacheInv'
  <2>1. PICK new \in Load :
           /\ loads' = [loads EXCEPT ![l] = new]
           /\ inflight' = [inflight EXCEPT ![k] = l]
           /\ new.key = k /\ new.since = source[k]
    <3>1. [key |-> k, since |-> source[k]] \in Load
      BY DEF CacheInv, VersionTypes, Load
    <3> QED
      BY <1>4, <3>1 DEF refresh
  <2>2. VersionTypes'
    BY <2>1 DEF CacheInv, VersionTypes
  <2>3. /\ loads'[l] = new
        /\ \A m \in Loads \ {l} : loads'[m] = loads[m]
    BY <2>1 DEF CacheInv, VersionTypes
  <2>4. \A m \in Loads : loads[m] # None => loads[m].key \in Keys \ {k}
    BY <1>4, CacheAssumption DEF CacheInv, VersionTypes, LoadsAreInflight, Load
  <2>5. LoadsAreInflight'
    <3> SUFFICES ASSUME NEW m \in Loads, loads'[m] # None
                 PROVE  inflight'[loads'[m].key] = m
      BY DEF LoadsAreInflight
    <3>1. CASE m = l
      BY <2>1, <2>3, <3>1 DEF CacheInv, VersionTypes
    <3>2. CASE m # l
      <4>1. loads'[m] = loads[m] /\ loads[m].key \in Keys \ {k}
        BY <2>3, <2>4, <3>2
      <4> QED
        BY <2>1, <4>1 DEF CacheInv, VersionTypes, LoadsAreInflight
    <3> QED
      BY <3>1, <3>2
  <2>6. LoadsBeginLast'
    <3> SUFFICES ASSUME NEW m \in Loads, loads'[m] # None
                 PROVE  /\ answered'[loads'[m].key] <= loads'[m].since
                        /\ loads'[m].since <= source'[loads'[m].key]
                        /\ entry'[loads'[m].key] # NoEntry
                              => entry'[loads'[m].key].value <= loads'[m].since
      BY DEF LoadsBeginLast, Cached
    <3>1. CASE m = l
      BY <1>2, <2>1, <2>3, <3>1 DEF CacheInv, VersionTypes, VersionsAreOrdered, Cached
    <3>2. CASE m # l
      <4>1. loads'[m] = loads[m] /\ loads[m] \in Load /\ loads[m].key \in Keys
        BY <2>3, <3>2 DEF CacheInv, VersionTypes, Load
      <4> QED
        BY <4>1 DEF CacheInv, VersionTypes, LoadsBeginLast, Load, Stored, Cached
    <3> QED
      BY <3>1, <3>2
  <2> QED
    BY <1>2, <2>2, <2>5, <2>6 DEF CacheInv
<1> QED
  BY <1>1, <1>3, <1>4

(* The end of a load leaves nothing of its key in flight, and the loads of *)
(* the other keys alone.                                                   *)
LEMMA LoadsOfOtherKeysGoOn ==
    ASSUME CacheInv, NEW l \in Loads, loads[l] # None, Settle(l)
    PROVE  /\ loads' \in [Loads -> Load \cup {None}]
           /\ inflight' \in [Keys -> Loads \cup {None}]
           /\ LoadsAreInflight'
           /\ \A m \in Loads : loads'[m] # None =>
                 loads'[m] = loads[m] /\ loads[m].key \in Keys \ {loads[l].key}
<1> DEFINE j == loads[l].key
<1>1. /\ j \in Keys /\ inflight[j] = l
      /\ loads' = [loads EXCEPT ![l] = None]
      /\ inflight' = [inflight EXCEPT ![j] = None]
  BY DEF Settle, CacheInv, VersionTypes, LoadsAreInflight, Load
<1> HIDE DEF j
<1>2. /\ loads' \in [Loads -> Load \cup {None}]
      /\ inflight' \in [Keys -> Loads \cup {None}]
      /\ \A k \in Keys \ {j} : inflight'[k] = inflight[k]
  BY <1>1 DEF CacheInv, VersionTypes
<1>3. \A m \in Loads : loads'[m] # None => m # l /\ loads'[m] = loads[m]
  BY <1>1 DEF CacheInv, VersionTypes
<1>4. \A m \in Loads : loads'[m] # None => loads[m].key \in Keys \ {j}
  BY <1>1, <1>3 DEF CacheInv, VersionTypes, LoadsAreInflight, Load
<1>5. LoadsAreInflight'
  BY <1>2, <1>3, <1>4 DEF CacheInv, LoadsAreInflight
<1> QED
  BY <1>2, <1>3, <1>4, <1>5 DEF j

LEMMA SuccessKeeps ==
    ASSUME CacheInv, NEW l \in Loads, NEW v \in Nat, loads[l] # None, Settle(l),
           UNCHANGED <<source, now>>,
           v >= loads[l].since, v <= source[loads[l].key],
           entry' \in [Keys -> Stored \cup {NoEntry}],
           answered' \in [Keys -> Nat],
           \A k \in Keys : \/ entry'[k] = NoEntry
                           \/ k = loads[l].key /\ entry'[k].value = v
                           \/ k # loads[l].key /\ entry'[k] = entry[k],
           \A k \in Keys : \/ answered'[k] = answered[k]
                           \/ k = loads[l].key /\ answered'[k] = v
    PROVE  CacheInv' /\ NothingGoesBack
<1>1. PICK j \in Keys : j = loads[l].key
  BY DEF CacheInv, VersionTypes, Load
<1>2. /\ answered[j] <= v /\ v <= source[j]
  BY <1>1 DEF CacheInv, VersionTypes, LoadsBeginLast, Load
<1>3. /\ VersionTypes' /\ LoadsAreInflight'
      /\ \A m \in Loads : loads'[m] # None =>
            /\ loads'[m] = loads[m] /\ loads[m] \in Load
            /\ loads[m].key \in Keys \ {j}
  BY <1>1, LoadsOfOtherKeysGoOn DEF CacheInv, VersionTypes
<1>4. NothingGoesBack
  BY <1>1, <1>2 DEF CacheInv, VersionTypes, NothingGoesBack
<1>5. VersionsAreOrdered'
  BY <1>1, <1>2 DEF CacheInv, VersionTypes, VersionsAreOrdered, Cached
<1>6. LoadsBeginLast'
  BY <1>1, <1>3 DEF CacheInv, LoadsBeginLast, Cached
<1> QED
  BY <1>3, <1>4, <1>5, <1>6 DEF CacheInv

LEMMA FailureKeeps ==
    ASSUME CacheInv, NEW l \in Loads, loads[l] # None, Settle(l),
           UNCHANGED <<entry, source, now>>,
           answered' \in [Keys -> Nat],
           \A k \in Keys : \/ answered'[k] = answered[k]
                           \/ Cached(k) /\ answered'[k] = entry[k].value
    PROVE  CacheInv' /\ NothingGoesBack
<1>1. /\ VersionTypes' /\ LoadsAreInflight'
      /\ \A m \in Loads : loads'[m] # None =>
            /\ loads'[m] = loads[m] /\ loads[m] \in Load /\ loads[m].key \in Keys
  BY LoadsOfOtherKeysGoOn DEF CacheInv, VersionTypes
<1>2. NothingGoesBack
  BY DEF CacheInv, VersionTypes, VersionsAreOrdered, NothingGoesBack, Cached, Stored
<1>3. VersionsAreOrdered'
  BY DEF CacheInv, VersionTypes, VersionsAreOrdered, Cached, Stored
<1>4. LoadsBeginLast'
  BY <1>1 DEF CacheInv, LoadsBeginLast, Cached
<1> QED
  BY <1>1, <1>2, <1>3, <1>4 DEF CacheInv

-----------------------------------------------------------------------------
LEMMA GetOrLoadStepKeeps ==
    ASSUME CacheInv, NEW r \in Readers, NEW k \in Keys, getOrLoad(r, k)
    PROVE  CacheInv' /\ NothingGoesBack
<1>1. UNCHANGED <<entry, source, now>>
  BY DEF getOrLoad, Hit, StaleHit, Coalesced, Miss, touchEntry
<1>2. /\ answered' \in [Keys -> Nat]
      /\ \A j \in Keys : \/ answered'[j] = answered[j]
                         \/ Cached(j) /\ answered'[j] = entry[j].value
  <2>1. CASE UNCHANGED answered
    BY <2>1 DEF CacheInv, VersionTypes
  <2>2. CASE Cached(k) /\ Answer(k, entry[k].value)
    BY <2>2 DEF Answer, CacheInv, VersionTypes, Cached, Stored
  <2> QED
    BY <2>1, <2>2
    DEF getOrLoad, Hit, StaleHit, Coalesced, Miss, Fresh, Revalidable, Usable
<1>3. NoRefresh \/ \E j \in Keys, l \in Loads : inflight[j] = None /\ refresh(j, l)
  BY DEF getOrLoad, Hit, StaleHit, Coalesced, Miss
<1> QED
  BY <1>1, <1>2, <1>3, ReadsKeep

LEMMA LoadSucceedsKeeps ==
    ASSUME CacheInv, NEW l \in Loads, loadSucceeds(l)
    PROVE  CacheInv' /\ NothingGoesBack
<1>1. /\ loads[l] # None /\ Settle(l) /\ UNCHANGED <<source, now>>
      /\ loads[l].key \in Keys /\ loads[l].since \in Nat
  BY DEF loadSucceeds, CacheInv, VersionTypes, Load
<1>2. PICK j \in Keys : j = loads[l].key
  BY <1>1
<1>3. PICK v \in loads[l].since..source[j] :
         /\ store(j, v)
         /\ Answer(j, v) \/ UNCHANGED answered
  BY <1>2 DEF loadSucceeds
<1>4. v \in Nat /\ v >= loads[l].since /\ v <= source[j]
  BY <1>1, <1>2, <1>3 DEF CacheInv, VersionTypes
<1>5. PICK evicted : entry' = [[entry EXCEPT ![j] = [value |-> v, at |-> now]]
                                  EXCEPT ![evicted] = NoEntry]
                     \/ entry' = [entry EXCEPT ![j] = [value |-> v, at |-> now]]
  BY <1>3 DEF store
<1>6. /\ entry' \in [Keys -> Stored \cup {NoEntry}]
      /\ \A k \in Keys : \/ entry'[k] = NoEntry
                         \/ k = j /\ entry'[k].value = v
                         \/ k # j /\ entry'[k] = entry[k]
  <2>1. PICK new \in Stored : new = [value |-> v, at |-> now] /\ new.value = v
    <3>1. [value |-> v, at |-> now] \in Stored
      BY <1>4 DEF Stored, CacheInv, VersionTypes
    <3> QED
      BY <3>1
  <2>2. CASE entry' = [entry EXCEPT ![j] = new]
    BY <2>1, <2>2 DEF CacheInv, VersionTypes
  <2>3. CASE entry' = [[entry EXCEPT ![j] = new] EXCEPT ![evicted] = NoEntry]
    BY <2>1, <2>3 DEF CacheInv, VersionTypes
  <2> QED
    BY <1>5, <2>1, <2>2, <2>3
<1>7. /\ answered' \in [Keys -> Nat]
      /\ \A k \in Keys : answered'[k] = answered[k] \/ (k = j /\ answered'[k] = v)
  BY <1>3, <1>4 DEF Answer, CacheInv, VersionTypes
<1> QED
  BY <1>1, <1>2, <1>4, <1>6, <1>7, SuccessKeeps

LEMMA LoadFailsKeeps ==
    ASSUME CacheInv, NEW l \in Loads, loadFails(l)
    PROVE  CacheInv' /\ NothingGoesBack
<1>1. /\ loads[l] # None /\ Settle(l) /\ UNCHANGED <<entry, source, now>>
      /\ loads[l].key \in Keys
  BY DEF loadFails, touchEntry, CacheInv, VersionTypes, Load
<1>2. PICK k \in Keys : k = loads[l].key
  BY <1>1
<1>3. /\ answered' \in [Keys -> Nat]
      /\ \A j \in Keys : \/ answered'[j] = answered[j]
                         \/ Cached(j) /\ answered'[j] = entry[j].value
  <2>1. CASE UNCHANGED answered
    BY <2>1 DEF CacheInv, VersionTypes
  <2>2. CASE Cached(k) /\ Answer(k, entry[k].value)
    BY <2>2 DEF Answer, CacheInv, VersionTypes, Cached, Stored
  <2> QED
    BY <1>2, <2>1, <2>2 DEF loadFails, Usable
<1> QED
  BY <1>1, <1>3, FailureKeeps

LEMMA RejectionKeeps ==
    ASSUME CacheInv, NEW l \in Loads, rejectionUnhandled(l)
    PROVE  CacheInv' /\ NothingGoesBack
<1>1. /\ entry' = [k \in Keys |-> NoEntry]
      /\ inflight' = [k \in Keys |-> None]
      /\ loads' = [m \in Loads |-> None]
      /\ UNCHANGED <<source, answered, now>>
  BY DEF rejectionUnhandled
<1>2. VersionTypes' /\ LoadsAreInflight' /\ LoadsBeginLast'
  BY <1>1 DEF CacheInv, VersionTypes, LoadsAreInflight, LoadsBeginLast
<1>3. VersionsAreOrdered'
  BY <1>1 DEF CacheInv, VersionsAreOrdered, Cached
<1> QED
  BY <1>1, <1>2, <1>3 DEF CacheInv, VersionTypes, NothingGoesBack

LEMMA SourceChangeKeeps ==
    ASSUME CacheInv, NEW k \in Keys, SourceChanges(k)
    PROVE  CacheInv' /\ NothingGoesBack
<1>1. /\ source' = [source EXCEPT ![k] = @ + 1]
      /\ UNCHANGED <<entry, inflight, loads, answered, now>>
  BY DEF SourceChanges
<1>2. /\ source' \in [Keys -> Nat]
      /\ \A j \in Keys : source'[j] >= source[j]
  BY <1>1 DEF CacheInv, VersionTypes
<1>3. VersionTypes' /\ LoadsAreInflight'
  BY <1>1, <1>2 DEF CacheInv, VersionTypes, LoadsAreInflight
<1>4. VersionsAreOrdered'
  BY <1>1, <1>2 DEF CacheInv, VersionTypes, VersionsAreOrdered, Cached, Stored
<1>5. LoadsBeginLast'
  BY <1>1, <1>2 DEF CacheInv, VersionTypes, LoadsBeginLast, Cached, Load
<1> QED
  BY <1>1, <1>3, <1>4, <1>5 DEF CacheInv, VersionTypes, NothingGoesBack

LEMMA CacheStepKeeps ==
    CacheInv /\ [CacheNext]_cacheVars => CacheInv' /\ NothingGoesBack
<1> SUFFICES ASSUME CacheInv, [CacheNext]_cacheVars PROVE CacheInv' /\ NothingGoesBack
  OBVIOUS
<1>1. ASSUME UNCHANGED cacheState, ClockTicks \/ UNCHANGED now
      PROVE  CacheInv' /\ NothingGoesBack
  BY <1>1 DEF cacheState, ClockTicks, CacheInv, VersionTypes, LoadsAreInflight,
              VersionsAreOrdered, LoadsBeginLast, Cached, NothingGoesBack
<1> QED
  BY <1>1, GetOrLoadStepKeeps, LoadSucceedsKeeps, LoadFailsKeeps, RejectionKeeps,
     SourceChangeKeeps DEF CacheNext, loadEnds, cacheVars

LEMMA CacheInvariant == CacheSpec => []CacheInv
BY CacheInitial, CacheStepKeeps, PTL DEF CacheSpec

(* No answer for a key is older than one given before, whatever hits,      *)
(* refreshes, failures and evictions come between them.                    *)
THEOREM NoAnswerGoesBack == CacheSpec => AnswersNeverGoBack
<1>1. CacheInv /\ [CacheNext]_cacheVars
         => [\A k \in Keys : answered'[k] >= answered[k]]_cacheVars
  BY CacheStepKeeps DEF NothingGoesBack
<1> QED
  BY <1>1, CacheInvariant, PTL DEF CacheSpec, AnswersNeverGoBack

(* The order of the keys keeps its type when a key moves to its end.        *)
LEMMA LeastPosition ==
    ASSUME NEW T, T \subseteq Nat, T # {}
    PROVE  \E x \in T : \A y \in T : x <= y
<1> DEFINE below == {0..k : k \in T}
<1>1. IsWellFoundedOn(StrictSubsetOrdering(Nat), FiniteSubsetsOf(Nat))
  BY FS_StrictSubsetOrderingWellFounded
<1>2. below \subseteq FiniteSubsetsOf(Nat) /\ below # {}
  <2>1. \A m, n \in Int : IsFiniteSet(m..n)
    BY FS_Interval
  <2>2. \A k \in T : IsFiniteSet(0..k) /\ 0..k \in SUBSET Nat
    <3> TAKE k \in T
    <3>1. k \in Int /\ 0 \in Int
      OBVIOUS
    <3>2. IsFiniteSet(0..k)
      BY <2>1, <3>1, Zenon
    <3> QED
      BY <3>2
  <2> QED
    BY <2>2 DEF FiniteSubsetsOf
<1>3. PICK x \in below : \A y \in below : <<y, x>> \notin StrictSubsetOrdering(Nat)
  <2> HIDE DEF below
  <2> QED
    BY <1>1, <1>2, WFMin
<1>4. PICK k \in T : x = 0..k
  BY <1>3
<1>5. ASSUME NEW j \in T, j < k
      PROVE  FALSE
  <2>1. 0..j \in below /\ 0..j \in SUBSET Nat /\ 0..k \in SUBSET Nat
    OBVIOUS
  <2>2. 0..j \subseteq 0..k /\ k \notin 0..j /\ k \in 0..k
    BY <1>5
  <2>3. <<0..j, x>> \in StrictSubsetOrdering(Nat)
    BY <1>4, <2>1, <2>2 DEF StrictSubsetOrdering
  <2> QED
    BY <1>3, <2>1, <2>3
<1> QED
  BY <1>4, <1>5

LEMMA NewestTyped ==
    ASSUME lru \in Seq(Keys), NEW k \in Keys
    PROVE  Newest(k) \in Seq(Keys) /\ Newest(k) # <<>>
<1> DEFINE n == Len(lru)
           found == {i \in 1..n : lru[i] = k}
<1>1. n \in Nat
  OBVIOUS
<1>2. RemoveFirst(lru, k) \in Seq(Keys)
  <2>1. CASE found = {}
    BY <2>1 DEF RemoveFirst
  <2>2. CASE found # {}
    <3>1. \E i \in found : \A j \in found : i <= j
      <4>1. found \subseteq Nat
        BY <1>1
      <4> HIDE DEF found
      <4> QED
        BY <2>2, <4>1, LeastPosition
    <3>2. Min(found) \in found
      <4> HIDE DEF found
      <4> QED
        BY <3>1 DEF Min
    <3>3. PICK j \in 1..n : RemoveFirst(lru, k) = RemoveAt(lru, j)
      BY <2>2, <3>2 DEF RemoveFirst, SelectInSeq
    <3>4. SubSeq(lru, 1, j - 1) \in Seq(Keys) /\ SubSeq(lru, j + 1, n) \in Seq(Keys)
      BY <1>1, <3>3
    <3> QED
      BY <3>3, <3>4, ConcatProperties DEF RemoveAt
  <2> QED
    BY <2>1, <2>2
<1> QED
  BY <1>2, AppendProperties DEF Newest

OrderTyped == lru \in Seq(Keys) /\ awaiting \in [Readers -> Loads \cup {None}]

LEMMA OrderStepTyped ==
    CacheInv /\ OrderTyped /\ [CacheNext]_cacheVars => OrderTyped'
<1> SUFFICES ASSUME CacheInv, OrderTyped, [CacheNext]_cacheVars
             PROVE  OrderTyped'
  OBVIOUS
<1>1. \A k \in Keys : touchEntry(k) => lru' \in Seq(Keys)
  BY NewestTyped DEF touchEntry, OrderTyped
<1>2. \A l \in Loads : loads[l] # None => loads[l].key \in Keys
  BY DEF CacheInv, VersionTypes, Load
<1>3. ASSUME NEW k \in Keys, NEW v, store(k, v)
      PROVE  lru' \in Seq(Keys)
  <2>1. Newest(k) \in Seq(Keys) /\ Newest(k) # <<>>
    BY NewestTyped DEF OrderTyped
  <2>2. lru' = Newest(k) \/ lru' = Tail(Newest(k))
    BY <1>3 DEF store
  <2> QED
    BY <2>1, <2>2, HeadTailProperties
<1>4. \A l \in Loads : Settle(l) => awaiting' \in [Readers -> Loads \cup {None}]
  BY DEF Settle, OrderTyped
<1>5. ASSUME NEW r \in Readers, NEW k \in Keys, getOrLoad(r, k)
      PROVE  OrderTyped'
  <2>1. lru' \in Seq(Keys)
    BY <1>1, <1>5 DEF getOrLoad, Hit, StaleHit, Coalesced, Miss, OrderTyped
  <2>2. awaiting' \in [Readers -> Loads \cup {None}]
    <3>1. inflight[k] \in Loads \cup {None}
      BY DEF CacheInv, VersionTypes
    <3> QED
      BY <1>5, <3>1 DEF getOrLoad, Hit, StaleHit, Coalesced, Miss, OrderTyped
  <2> QED
    BY <2>1, <2>2 DEF OrderTyped
<1>6. ASSUME NEW l \in Loads, loadSucceeds(l)
      PROVE  OrderTyped'
  BY <1>2, <1>3, <1>4, <1>6 DEF loadSucceeds, OrderTyped
<1>7. ASSUME NEW l \in Loads, loadFails(l)
      PROVE  OrderTyped'
  BY <1>1, <1>2, <1>4, <1>7 DEF loadFails, OrderTyped
<1>8. ASSUME NEW l \in Loads, rejectionUnhandled(l)
      PROVE  OrderTyped'
  BY <1>8 DEF rejectionUnhandled, OrderTyped
<1>9. ASSUME NEW k \in Keys, SourceChanges(k)
      PROVE  OrderTyped'
  BY <1>9 DEF SourceChanges, OrderTyped
<1>10. ASSUME UNCHANGED cacheState
       PROVE  OrderTyped'
  BY <1>10 DEF cacheState, OrderTyped
<1> QED
  BY <1>5, <1>6, <1>7, <1>8, <1>9, <1>10 DEF CacheNext, loadEnds, cacheVars

(* Entries, the order of the keys, loads and readers keep their types, for *)
(* any keys, loads, times to live and numbers of entries.                  *)
THEOREM CacheTyped == CacheSpec => []CacheTypeOK
<1>1. CacheInit => OrderTyped
  BY DEF CacheInit, OrderTyped
<1>2. CacheInv /\ OrderTyped => CacheTypeOK
  BY DEF CacheInv, VersionTypes, OrderTyped, CacheTypeOK, Stored, Load
<1> QED
  BY <1>1, <1>2, CacheInitial, CacheStepKeeps, OrderStepTyped, PTL DEF CacheSpec

(* How many loads and entries a key and the cache have. The order names    *)
(* each entry once, so it is the count that evictIfNeeded looks at.        *)
Ordered(k) == \E i \in DOMAIN lru : lru[i] = k
Once(s) == \A i, j \in DOMAIN s : s[i] = s[j] => i = j

CacheIsBounded ==
    /\ Len(lru) <= MaxEntries /\ Once(lru)
    /\ \A k \in Keys : Cached(k) <=> Ordered(k)
    /\ \A l, m \in Loads :
          loads[l] # None /\ loads[m] # None /\ loads[l].key = loads[m].key => l = m

OrderInv == CacheInv /\ OrderTyped /\ CacheIsBounded

LEMMA NewestMovesTheKey ==
    ASSUME lru \in Seq(Keys), Once(lru), NEW k \in Keys,
           NEW order, order = Newest(k)
    PROVE  /\ order \in Seq(Keys) /\ Once(order) /\ Len(order) # 0
           /\ order[Len(order)] = k
           /\ Len(order) = IF Ordered(k) THEN Len(lru) ELSE Len(lru) + 1
           /\ \A m \in Keys : (\E i \in DOMAIN order : order[i] = m) <=> m = k \/ Ordered(m)
<1> DEFINE n == Len(lru)
           found == {i \in 1..n : lru[i] = k}
<1>1. n \in Nat /\ DOMAIN lru = 1..n /\ order \in Seq(Keys) /\ DOMAIN order = 1..Len(order)
  BY NewestTyped
<1>2. CASE ~Ordered(k)
  <2>1. order = Append(lru, k)
    BY <1>1, <1>2 DEF Newest, RemoveFirst, Ordered
  <2>2. /\ Len(order) = n + 1 /\ order[n + 1] = k
        /\ \A i \in 1..n : order[i] = lru[i]
    BY <2>1, AppendProperties
  <2> HIDE DEF n, found
  <2>3. Once(order)
    BY <1>1, <1>2, <2>2 DEF Once, Ordered
  <2>4. \A m \in Keys : (\E i \in DOMAIN order : order[i] = m) <=> m = k \/ Ordered(m)
    <3> SUFFICES ASSUME NEW m \in Keys
                 PROVE  (\E i \in DOMAIN order : order[i] = m) <=> m = k \/ Ordered(m)
      OBVIOUS
    <3>1. ASSUME NEW i \in DOMAIN order, order[i] = m
          PROVE  m = k \/ Ordered(m)
      <4>1. i = n + 1 \/ i \in 1..n
        BY <1>1, <2>2
      <4> QED
        BY <1>1, <2>2, <3>1, <4>1 DEF Ordered
    <3>2. ASSUME m = k \/ Ordered(m)
          PROVE  \E i \in DOMAIN order : order[i] = m
      <4>1. n + 1 \in DOMAIN order /\ 1..n \subseteq DOMAIN order
        BY <1>1, <2>2
      <4> QED
        BY <1>1, <2>2, <3>2, <4>1 DEF Ordered
    <3> QED
      BY <3>1, <3>2
  <2>5. Len(order) = IF Ordered(k) THEN Len(lru) ELSE Len(lru) + 1
    BY <1>2, <2>2 DEF n
  <2> QED
    BY <1>1, <2>2, <2>3, <2>4, <2>5
<1>3. CASE Ordered(k)
  <2>1. PICK j \in 1..n : order = Append(RemoveAt(lru, j), k) /\ lru[j] = k
    <3>1. found # {} /\ found \subseteq Nat
      BY <1>1, <1>3 DEF Ordered
    <3>2. \E i \in found : \A m \in found : i <= m
      <4> HIDE DEF found
      <4> QED
        BY <3>1, LeastPosition
    <3>3. Min(found) \in found
      <4> HIDE DEF found
      <4> QED
        BY <3>2 DEF Min
    <3> QED
      BY <3>1, <3>3 DEF Newest, RemoveFirst, SelectInSeq
  <2> DEFINE before == SubSeq(lru, 1, j - 1)
             after == SubSeq(lru, j + 1, n)
  <2>2. /\ before \in Seq(Keys) /\ Len(before) = j - 1
        /\ \A i \in 1..(j - 1) : before[i] = lru[i]
    BY <1>1
  <2>3. /\ after \in Seq(Keys) /\ Len(after) = n - j
        /\ \A i \in 1..(n - j) : after[i] = lru[j + i]
    <3>1. /\ j + 1 \in Int /\ n \in Int /\ \A i \in (j + 1)..n : lru[i] \in Keys
          /\ n - (j + 1) + 1 = n - j
      BY <1>1
    <3>2. /\ after \in Seq(Keys)
          /\ Len(after) = IF j + 1 <= n THEN n - (j + 1) + 1 ELSE 0
          /\ \A i \in 1..(n - (j + 1) + 1) : after[i] = lru[(j + 1) + i - 1]
      <4> HIDE DEF n
      <4> QED
        BY <3>1, SubSeqProperties
    <3> HIDE DEF after, n
    <3>3. /\ \A i \in 1..(n - j) : (j + 1) + i - 1 = j + i
          /\ ~(j + 1 <= n) => n - j = 0
      BY <1>1
    <3> QED
      BY <3>1, <3>2, <3>3
  <2>4. order = Append(before \o after, k)
    BY <2>1 DEF RemoveAt
  <2> HIDE DEF n, found, before, after
  <2>5. j \in Nat /\ j >= 1 /\ j <= n
    BY <1>1
  <2>6. /\ before \o after \in Seq(Keys) /\ Len(before \o after) = n - 1
        /\ \A i \in 1..(n - 1) : (before \o after)[i] = lru[IF i < j THEN i ELSE i + 1]
    <3>1. /\ before \o after \in Seq(Keys) /\ Len(before \o after) = n - 1
          /\ \A i \in 1..(n - 1) :
                (before \o after)[i] = IF i <= j - 1 THEN before[i] ELSE after[i - (j - 1)]
      BY <1>1, <2>2, <2>3, <2>5, ConcatProperties
    <3>2. ASSUME NEW i \in 1..(n - 1)
          PROVE  (before \o after)[i] = lru[IF i < j THEN i ELSE i + 1]
      <4>1. CASE i < j
        BY <1>1, <2>2, <2>5, <3>1, <3>2, <4>1
      <4>2. CASE ~(i < j)
        <5>1. i - (j - 1) \in 1..(n - j) /\ j + (i - (j - 1)) = i + 1 /\ ~(i <= j - 1)
          BY <1>1, <2>5, <3>2, <4>2
        <5>2. after[i - (j - 1)] = lru[i + 1]
          BY <2>3, <5>1
        <5>3. (before \o after)[i] = after[i - (j - 1)]
          BY <3>1, <5>1
        <5> QED
          BY <4>2, <5>2, <5>3
      <4> QED
        BY <4>1, <4>2
    <3> QED
      BY <3>1, <3>2
  <2>7. /\ Len(order) = n /\ order[n] = k
        /\ \A i \in 1..(n - 1) : order[i] = lru[IF i < j THEN i ELSE i + 1]
    BY <1>1, <2>4, <2>5, <2>6, AppendProperties
  <2>8. lru[j] = k
    BY <2>1
  <2> DEFINE from(i) == IF i = n THEN j ELSE IF i < j THEN i ELSE i + 1
  <2>9. /\ \A i \in 1..n : from(i) \in 1..n /\ order[i] = lru[from(i)]
        /\ \A i, m \in 1..n : from(i) = from(m) => i = m
        /\ \A m \in 1..n : \E i \in 1..n : from(i) = m
    <3>1. \A i \in 1..n : from(i) \in 1..n /\ order[i] = lru[from(i)]
      BY <1>1, <2>5, <2>7, <2>8
    <3>2. \A i, m \in 1..n : from(i) = from(m) => i = m
      BY <1>1, <2>5
    <3>3. ASSUME NEW m \in 1..n
          PROVE  \E i \in 1..n : from(i) = m
      <4>1. CASE m = j
        BY <1>1, <2>5, <4>1
      <4>2. CASE m < j
        BY <1>1, <2>5, <3>3, <4>2
      <4>3. CASE m > j
        <5>1. m - 1 \in 1..n /\ from(m - 1) = m
          BY <1>1, <2>5, <3>3, <4>3
        <5> QED
          BY <5>1
      <4> QED
        BY <1>1, <2>5, <3>3, <4>1, <4>2, <4>3
    <3> QED
      BY <3>1, <3>2, <3>3
  <2> HIDE DEF from
  <2>10. DOMAIN order = 1..n
    BY <1>1, <2>7
  <2>11. Once(order)
    <3> SUFFICES ASSUME NEW i \in 1..n, NEW m \in 1..n, order[i] = order[m]
                 PROVE  i = m
      BY <2>10 DEF Once
    <3>1. from(i) \in 1..n /\ from(m) \in 1..n /\ lru[from(i)] = lru[from(m)]
      BY <2>9
    <3>2. from(i) = from(m)
      BY <1>1, <3>1 DEF Once
    <3> QED
      BY <2>9, <3>2
  <2>12. \A m \in Keys : (\E i \in DOMAIN order : order[i] = m) <=> m = k \/ Ordered(m)
    <3> SUFFICES ASSUME NEW m \in Keys
                 PROVE  (\E i \in 1..n : order[i] = m) <=> m = k \/ Ordered(m)
      BY <2>10
    <3>1. ASSUME NEW i \in 1..n, order[i] = m
          PROVE  Ordered(m)
      <4>1. from(i) \in DOMAIN lru /\ lru[from(i)] = m
        BY <1>1, <2>9, <3>1
      <4> QED
        BY <4>1 DEF Ordered
    <3>2. ASSUME Ordered(m)
          PROVE  \E i \in 1..n : order[i] = m
      <4>1. PICK p \in 1..n : lru[p] = m
        BY <1>1, <3>2 DEF Ordered
      <4>2. PICK i \in 1..n : from(i) = p
        BY <2>9
      <4>3. order[i] = lru[from(i)]
        BY <2>9
      <4> QED
        BY <4>1, <4>2, <4>3
    <3> QED
      BY <1>3, <3>1, <3>2
  <2>13. Len(order) = IF Ordered(k) THEN Len(lru) ELSE Len(lru) + 1
    BY <1>3, <2>7 DEF n
  <2>14. Len(order) # 0 /\ order[Len(order)] = k
    BY <1>1, <2>5, <2>7
  <2> QED
    BY <1>1, <2>11, <2>12, <2>13, <2>14
<1> QED
  BY <1>2, <1>3

(* A key that is cached moves to the end: nothing has to go.               *)
LEMMA TouchKeepsBound ==
    ASSUME OrderInv, NEW k \in Keys, Cached(k), touchEntry(k)
    PROVE  /\ Len(lru') <= MaxEntries /\ Once(lru')
           /\ \A m \in Keys : Cached(m)' <=> Ordered(m)'
<1> DEFINE order == Newest(k)
<1>1. lru \in Seq(Keys) /\ Once(lru) /\ Ordered(k) /\ Len(lru) <= MaxEntries
      /\ \A m \in Keys : Cached(m) <=> Ordered(m)
  BY DEF OrderInv, OrderTyped, CacheIsBounded
<1>2. /\ Once(order) /\ Len(order) = Len(lru)
      /\ \A m \in Keys : (\E i \in DOMAIN order : order[i] = m) <=> m = k \/ Ordered(m)
  BY <1>1, NewestMovesTheKey
<1>3. lru' = order /\ entry' = entry
  BY DEF touchEntry
<1> HIDE DEF order
<1> QED
  BY <1>1, <1>2, <1>3 DEF Cached, Ordered

(* A new key comes to the end, and the oldest goes if it is one too many.  *)
LEMMA StoreKeepsBound ==
    ASSUME OrderInv, NEW k \in Keys, NEW v \in Nat, store(k, v)
    PROVE  /\ Len(lru') <= MaxEntries /\ Once(lru')
           /\ \A m \in Keys : Cached(m)' <=> Ordered(m)'
<1> DEFINE order == Newest(k)
           stored == [entry EXCEPT ![k] = [value |-> v, at |-> now]]
<1>1. /\ lru \in Seq(Keys) /\ Once(lru) /\ Len(lru) <= MaxEntries
      /\ \A m \in Keys : Cached(m) <=> Ordered(m)
      /\ DOMAIN entry = Keys
  BY DEF OrderInv, OrderTyped, CacheIsBounded, CacheInv, VersionTypes
<1>2. /\ order \in Seq(Keys) /\ Once(order) /\ Len(order) # 0
      /\ order[Len(order)] = k
      /\ Len(order) = Len(lru) \/ Len(order) = Len(lru) + 1
      /\ \A m \in Keys : (\E i \in DOMAIN order : order[i] = m) <=> m = k \/ Ordered(m)
  BY <1>1, NewestMovesTheKey
<1>3. \A m \in Keys : stored[m] # NoEntry <=> m = k \/ Ordered(m)
  <2>1. [value |-> v, at |-> now] # NoEntry
    BY CacheAssumption DEF NoEntry
  <2> QED
    BY <1>1, <2>1 DEF Cached
<1>4. Len(order) \in Nat /\ DOMAIN order = 1..Len(order) /\ Len(lru) \in Nat
  <2> HIDE DEF order, stored
  <2> QED
    BY <1>1, <1>2, LenProperties
<1>5. DOMAIN stored = Keys
  BY <1>1
<1>6. CASE Len(order) <= MaxEntries
  <2>1. lru' = order /\ entry' = stored
    BY <1>4, <1>6, CacheAssumption DEF store
  <2> HIDE DEF order, stored
  <2> QED
    BY <1>2, <1>3, <1>6, <2>1 DEF Cached, Ordered
<1>7. CASE ~(Len(order) <= MaxEntries)
  <2>1. lru' = Tail(order) /\ entry' = [stored EXCEPT ![Head(order)] = NoEntry]
    BY <1>4, <1>7, CacheAssumption DEF store
  <2> HIDE DEF order, stored
  <2>2. Len(order) = MaxEntries + 1 /\ Len(order) > 1
    <3>1. \A a, b, c \in Nat : a <= c /\ (b = a \/ b = a + 1) /\ ~(b <= c) /\ c # 0
                                => b = c + 1 /\ b > 1
      OBVIOUS
    <3> QED
      BY <1>1, <1>2, <1>4, <1>7, <3>1, CacheAssumption
  <2>3. /\ Len(lru') = MaxEntries /\ DOMAIN lru' = 1..MaxEntries
        /\ \A i \in 1..MaxEntries : lru'[i] = order[i + 1]
        /\ Head(order) = order[1] /\ order[1] \in Keys
    BY <1>2, <2>1, <2>2, CacheAssumption
  <2>4. Once(lru')
    <3>1. \A i, j \in 1..MaxEntries : order[i + 1] = order[j + 1] => i + 1 = j + 1
      BY <1>2, <1>4, <2>2, CacheAssumption DEF Once
    <3> QED
      BY <2>3, <3>1, CacheAssumption DEF Once
  <2>5. ASSUME NEW m \in Keys
        PROVE  Cached(m)' <=> Ordered(m)'
    <3>1. Cached(m)' <=> stored[m] # NoEntry /\ m # order[1]
      BY <1>5, <2>1, <2>3 DEF Cached
    <3>2. (\E i \in DOMAIN order : order[i] = m) /\ m # order[1]
          <=> \E i \in 1..MaxEntries : order[i + 1] = m
      <4>1. ASSUME NEW i \in DOMAIN order, order[i] = m, m # order[1]
            PROVE  \E j \in 1..MaxEntries : order[j + 1] = m
        <5>1. i - 1 \in 1..MaxEntries /\ (i - 1) + 1 = i
          BY <1>4, <2>2, <4>1, CacheAssumption
        <5> QED
          BY <4>1, <5>1
      <4>2. ASSUME NEW i \in 1..MaxEntries, order[i + 1] = m
            PROVE  i + 1 \in DOMAIN order /\ m # order[1]
        <5>1. i + 1 \in DOMAIN order /\ 1 \in DOMAIN order /\ i + 1 # 1
          BY <1>4, <2>2, CacheAssumption
        <5> QED
          BY <1>2, <4>2, <5>1 DEF Once
      <4> QED
        BY <4>1, <4>2
    <3>3. (\E i \in 1..MaxEntries : order[i + 1] = m) <=> Ordered(m)'
      BY <2>3 DEF Ordered
    <3> QED
      BY <1>2, <1>3, <3>1, <3>2, <3>3
  <2> QED
    BY <2>3, <2>4, <2>5, CacheAssumption
<1> QED
  BY <1>6, <1>7

LEMMA OrderInvStep == OrderInv /\ [CacheNext]_cacheVars => OrderInv'
<1> SUFFICES ASSUME OrderInv, [CacheNext]_cacheVars PROVE OrderInv'
  OBVIOUS
<1>1. CacheInv' /\ OrderTyped'
  BY CacheStepKeeps, OrderStepTyped DEF OrderInv
<1>2. ASSUME NEW l \in Loads, NEW m \in Loads,
             loads'[l] # None, loads'[m] # None, loads'[l].key = loads'[m].key
      PROVE  l = m
  BY <1>1, <1>2 DEF CacheInv, LoadsAreInflight
<1> SUFFICES /\ Len(lru') <= MaxEntries /\ Once(lru')
             /\ \A k \in Keys : Cached(k)' <=> Ordered(k)'
  BY <1>1, <1>2 DEF OrderInv, CacheIsBounded
<1>3. \A l \in Loads : loads[l] # None => loads[l].key \in Keys /\ loads[l].since \in Nat
  BY DEF OrderInv, CacheInv, VersionTypes, Load
<1>4. ASSUME UNCHANGED <<entry, lru>>
      PROVE  /\ Len(lru') <= MaxEntries /\ Once(lru')
             /\ \A k \in Keys : Cached(k)' <=> Ordered(k)'
  BY <1>4 DEF OrderInv, CacheIsBounded, Cached, Ordered
<1>5. ASSUME NEW r \in Readers, NEW k \in Keys, getOrLoad(r, k)
      PROVE  /\ Len(lru') <= MaxEntries /\ Once(lru')
             /\ \A m \in Keys : Cached(m)' <=> Ordered(m)'
  <2>1. CASE Hit(k) \/ StaleHit(k)
    <3>1. Cached(k) /\ touchEntry(k)
      BY <2>1 DEF Hit, StaleHit, Fresh, Revalidable, Usable
    <3> QED
      BY <3>1, TouchKeepsBound
  <2>2. CASE Coalesced(r, k) \/ Miss(r, k)
    BY <1>4, <2>2 DEF Coalesced, Miss
  <2> QED
    BY <1>5, <2>1, <2>2 DEF getOrLoad
<1>6. ASSUME NEW l \in Loads, loadSucceeds(l)
      PROVE  /\ Len(lru') <= MaxEntries /\ Once(lru')
             /\ \A k \in Keys : Cached(k)' <=> Ordered(k)'
  <2>1. loads[l].key \in Keys /\ loads[l].since \in Nat /\ source[loads[l].key] \in Nat
    BY <1>3, <1>6 DEF loadSucceeds, OrderInv, CacheInv, VersionTypes
  <2>2. PICK v \in loads[l].since..source[loads[l].key] : store(loads[l].key, v)
    BY <1>6 DEF loadSucceeds
  <2>3. v \in Nat
    BY <2>1
  <2> QED
    BY <2>1, <2>2, <2>3, StoreKeepsBound
<1>7. ASSUME NEW l \in Loads, loadFails(l)
      PROVE  /\ Len(lru') <= MaxEntries /\ Once(lru')
             /\ \A k \in Keys : Cached(k)' <=> Ordered(k)'
  <2>1. loads[l].key \in Keys
    BY <1>3, <1>7 DEF loadFails
  <2>2. CASE Usable(loads[l].key) /\ touchEntry(loads[l].key)
    BY <2>1, <2>2, TouchKeepsBound DEF Usable
  <2>3. CASE UNCHANGED <<entry, lru>>
    BY <1>4, <2>3
  <2> QED
    BY <1>7, <2>2, <2>3 DEF loadFails
<1>8. ASSUME NEW l \in Loads, rejectionUnhandled(l)
      PROVE  /\ Len(lru') <= MaxEntries /\ Once(lru')
             /\ \A k \in Keys : Cached(k)' <=> Ordered(k)'
  <2>1. lru' = <<>> /\ \A k \in Keys : entry'[k] = NoEntry
    BY <1>8 DEF rejectionUnhandled
  <2> QED
    BY <2>1, CacheAssumption DEF Once, Cached, Ordered
<1>9. ASSUME NEW k \in Keys, SourceChanges(k)
      PROVE  UNCHANGED <<entry, lru>>
  BY <1>9 DEF SourceChanges
<1> QED
  BY <1>4, <1>5, <1>6, <1>7, <1>8, <1>9 DEF CacheNext, loadEnds, cacheVars, cacheState

(* For any keys, loads and limits: the cache holds at most MaxEntries      *)
(* entries (evictIfNeeded), its order names every one of them once, and a  *)
(* key has one load at a time, in the background or awaited (inflight).    *)
THEOREM CacheKeepsItsLimits == CacheSpec => []CacheIsBounded
<1>1. CacheInit => OrderInv
  <2> SUFFICES ASSUME CacheInit PROVE OrderInv
    OBVIOUS
  <2>1. CacheInv /\ OrderTyped
    BY CacheInitial DEF CacheInit, OrderTyped
  <2>2. lru = <<>> /\ \A k \in Keys : entry[k] = NoEntry
    BY DEF CacheInit
  <2>3. \A l \in Loads : loads[l] = None
    BY DEF CacheInit
  <2> QED
    BY <2>1, <2>2, <2>3, CacheAssumption DEF OrderInv, CacheIsBounded, Once, Cached, Ordered
<1>2. OrderInv => CacheIsBounded
  BY DEF OrderInv
<1> QED
  BY <1>1, <1>2, OrderInvStep, PTL DEF CacheSpec

-----------------------------------------------------------------------------
(* The picture of an aircraft: how long a position may be answered as live,*)
(* and a partner's track past its expiry, for any lives of the caches, limits*)
(* and delays.                                                             *)

(* How old what an aggregation or a picture shows may be at time t, when   *)
(* it awaited the routes until then.                                       *)
ShownInTime(track, t) ==
    /\ track.seen # Unseen /\ ~track.stale => track.seen + StaleAfter + RequestTimeout >= t
    /\ track.until # Unseen => track.until + 2 * RequestTimeout > t

(* An aggregation has its limit ahead of it, and what it took from the     *)
(* partners' store had not expired then.                                   *)
BuildIsRecent ==
    \/ build = NoBuild
    \/ /\ build.awaits = "source"
       /\ now <= build.limit
       /\ build.partner.seen # Unseen => build.partner.until + RequestTimeout > build.limit
    \/ /\ build.awaits = "routes"
       /\ now <= build.limit
       /\ ShownInTime(build.track, build.limit)

PictureIsRecent ==
    picture.at # Unseen => picture.at <= now /\ ShownInTime(picture.track, picture.at)

FlightInv ==
    /\ now \in Nat
    /\ FlightTypeOK
    /\ BuildIsRecent
    /\ PictureIsRecent
    /\ LiveTracksAreRecent
    /\ ExpiredTracksLeave

Partners == [seen: Seen, until: Nat]
TrackRecords == [seen: Seen, stale: BOOLEAN, until: Seen]
Builds == [awaits: {"nothing", "source", "routes"}, partner: Partners, track: TrackRecords, limit: Nat]

-----------------------------------------------------------------------------
LEMMA Numbers ==
    /\ TtlF \in Nat /\ StaleIfErrorF \in Nat /\ StaleAfter \in Nat /\ PartnerTtl \in Nat
    /\ RequestTimeout \in Nat
    /\ Unseen \notin Nat
BY FlightAssumption

LEMMA Nothings ==
    /\ NoPartner \in Partners /\ NoPartner.seen = Unseen
    /\ NoTrack \in TrackRecords /\ NoTrack.seen = Unseen /\ NoTrack.until = Unseen
    /\ NoBuild \in Builds /\ NoBuild.awaits = "nothing"
BY Numbers DEF NoPartner, NoTrack, NoBuild, Partners, TrackRecords, Builds, Seen

LEMMA FlightInitial == FlightInit => FlightInv
<1> SUFFICES ASSUME FlightInit PROVE FlightInv
  OBVIOUS
<1>1. FlightTypeOK
  BY Nothings, Numbers
     DEF FlightInit, FlightTypeOK, NoPayload, NoPicture, Seen, Partners, TrackRecords, Builds
<1>2. PictureIsRecent
  BY DEF FlightInit, PictureIsRecent, NoPicture
<1> QED
  BY <1>1, <1>2
     DEF FlightInit, FlightInv, BuildIsRecent, LiveTracksAreRecent, ExpiredTracksLeave

-----------------------------------------------------------------------------
(* What the store of the partners answers has not expired.                 *)
LEMMA FetchedIsValid ==
    ASSUME now \in Nat, FlightTypeOK
    PROVE  /\ Fetched \in Partners
           /\ Fetched.seen # Unseen => Fetched.until > now
BY Nothings, Numbers DEF Fetched, FlightTypeOK, Partners

(* The flag is set for the time the picture is assembled at.               *)
LEMMA DeduplicateShows ==
    ASSUME now \in Nat, NEW p \in Partners, NEW external \in Seen,
           p.seen # Unseen => p.until + RequestTimeout > now
    PROVE  /\ deduplicate(p, external) \in TrackRecords
           /\ ShownInTime(deduplicate(p, external), now + RequestTimeout)
<1> DEFINE d == deduplicate(p, external)
<1>1. p.seen \in Seen /\ p.until \in Nat
  BY DEF Partners
<1>2. CASE p.seen # Unseen
  <2>1. d = [seen |-> p.seen, stale |-> IsStale(p.seen), until |-> p.until]
    BY <1>2 DEF deduplicate
  <2>2. IsStale(p.seen) \in BOOLEAN /\ p.seen \in Nat
    BY <1>1, <1>2 DEF IsStale, Seen
  <2>3. ~IsStale(p.seen) => p.seen + StaleAfter >= now
    BY <2>2, Numbers DEF IsStale
  <2>4. d.seen = p.seen /\ d.stale = IsStale(p.seen) /\ d.until = p.until
    BY <2>1
  <2>5. d \in TrackRecords
    BY <2>1, <2>2, <1>1 DEF TrackRecords, Seen
  <2>6. ShownInTime(d, now + RequestTimeout)
    BY <2>2, <2>3, <2>4, <1>1, <1>2, Numbers DEF ShownInTime
  <2> QED
    BY <2>5, <2>6
<1>3. CASE p.seen = Unseen /\ external # Unseen
  <2>1. d = [seen |-> external, stale |-> IsStale(external), until |-> Unseen]
    BY <1>3 DEF deduplicate
  <2>2. IsStale(external) \in BOOLEAN /\ external \in Nat
    BY <1>3 DEF IsStale, Seen
  <2>3. ~IsStale(external) => external + StaleAfter >= now
    BY <2>2, Numbers DEF IsStale
  <2>4. d.seen = external /\ d.stale = IsStale(external) /\ d.until = Unseen
    BY <2>1
  <2>5. d \in TrackRecords
    BY <2>1, <2>2 DEF TrackRecords, Seen
  <2>6. ShownInTime(d, now + RequestTimeout)
    BY <2>2, <2>3, <2>4, Numbers DEF ShownInTime
  <2> QED
    BY <2>5, <2>6
<1>4. CASE p.seen = Unseen /\ external = Unseen
  <2>1. d = NoTrack
    BY <1>4 DEF deduplicate
  <2> QED
    BY <2>1, Nothings DEF ShownInTime
<1> QED
  BY <1>2, <1>3, <1>4

LEMMA AssembledIsRecent ==
    ASSUME now \in Nat, now' = now, NEW p \in Partners, NEW external \in Seen,
           p.seen # Unseen => p.until + RequestTimeout > now,
           Assembled(p, external)
    PROVE  build' \in Builds /\ BuildIsRecent'
<1>1. /\ deduplicate(p, external) \in TrackRecords
      /\ ShownInTime(deduplicate(p, external), now + RequestTimeout)
  BY DeduplicateShows
<1>2. now + RequestTimeout \in Nat /\ now <= now + RequestTimeout
  BY Numbers
<1>3. build' = [awaits |-> "routes", partner |-> p, track |-> deduplicate(p, external),
                limit |-> now + RequestTimeout]
  BY DEF Assembled
<1>4. build' \in Builds
  BY <1>1, <1>2, <1>3 DEF Builds
<1>5. BuildIsRecent'
  BY <1>1, <1>2, <1>3 DEF BuildIsRecent, ShownInTime
<1> QED
  BY <1>4, <1>5

LEMMA FetchIsRecent ==
    ASSUME FlightInv, now' = now, fetchTracks
    PROVE  build' \in Builds /\ BuildIsRecent'
<1>1. /\ now \in Nat /\ Fetched \in Partners
      /\ Fetched.seen # Unseen => Fetched.until > now
  BY FetchedIsValid DEF FlightInv
<1>2. Fetched.until \in Nat
  BY <1>1 DEF Partners
<1>3. CASE PayloadFresh
  <2>1. payload.seen \in Seen
    BY DEF FlightInv, FlightTypeOK
  <2>2. Fetched.seen # Unseen => Fetched.until + RequestTimeout > now
    BY <1>1, <1>2, Numbers
  <2> QED
    BY <1>1, <1>3, <2>1, <2>2, AssembledIsRecent DEF fetchTracks
<1>4. CASE ~PayloadFresh
  <2>1. build' = [NoBuild EXCEPT !.awaits = "source", !.partner = Fetched,
                                 !.limit = now + RequestTimeout]
    BY <1>4 DEF fetchTracks
  <2>2. build' = [awaits |-> "source", partner |-> Fetched, track |-> NoTrack,
                  limit |-> now + RequestTimeout]
    BY <2>1 DEF NoBuild
  <2>3. now + RequestTimeout \in Nat /\ now <= now + RequestTimeout
    BY <1>1, Numbers
  <2>4. Fetched.seen # Unseen => Fetched.until + RequestTimeout > now + RequestTimeout
    BY <1>1, <1>2, Numbers
  <2>5. build' \in Builds
    BY <1>1, <2>2, <2>3, Nothings DEF Builds
  <2>6. BuildIsRecent'
    BY <2>2, <2>3, <2>4 DEF BuildIsRecent
  <2> QED
    BY <2>5, <2>6
<1> QED
  BY <1>3, <1>4

-----------------------------------------------------------------------------
(* What is answered within the life of its picture keeps both bounds.      *)
LEMMA ShowsInBound ==
    ASSUME FlightInv, NEW track \in TrackRecords, NEW t \in Nat,
           ShownInTime(track, t), now < t + PictureLife,
           Shows(track)
    PROVE  tooOld' = FALSE /\ lingered' = FALSE
<1>1. tooOld = FALSE /\ lingered = FALSE /\ now \in Nat
  BY DEF FlightInv, LiveTracksAreRecent, ExpiredTracksLeave, FlightTypeOK
<1>2. track.seen \in Seen /\ track.until \in Seen
  BY DEF TrackRecords
<1>3. ASSUME track.seen # Unseen, ~track.stale
      PROVE  ~(now - track.seen >= LiveBound)
  <2>1. track.seen \in Nat
    BY <1>2, <1>3 DEF Seen
  <2>2. track.seen + StaleAfter + RequestTimeout >= t
    BY <1>3 DEF ShownInTime
  <2> QED
    BY <1>1, <2>1, <2>2, Numbers DEF LiveBound, PictureLife
<1>4. ASSUME track.until # Unseen
      PROVE  ~(now >= track.until + PartnerBound)
  <2>1. track.until \in Nat
    BY <1>2, <1>4 DEF Seen
  <2>2. track.until + 2 * RequestTimeout > t
    BY <1>4 DEF ShownInTime
  <2> QED
    BY <1>1, <2>1, <2>2, Numbers DEF PartnerBound, PictureLife
<1>5. tooOld' = FALSE
  BY <1>1, <1>3 DEF Shows
<1>6. lingered' = FALSE
  BY <1>1, <1>4 DEF Shows
<1> QED
  BY <1>5, <1>6

LEMMA FlightPreserved ==
    ASSUME TtlF > 0, FlightInv, [FlightNext]_flightVars
    PROVE  FlightInv'
<1> USE DEF flightVars, flightState
<1>1. /\ now \in Nat /\ partner \in Partners /\ payload \in [seen: Seen, at: Seen]
      /\ build \in Builds /\ picture \in [track: TrackRecords, at: Seen]
      /\ waiting \in BOOLEAN /\ tooOld = FALSE /\ lingered = FALSE
      /\ BuildIsRecent /\ PictureIsRecent
  BY DEF FlightInv, FlightTypeOK, LiveTracksAreRecent, ExpiredTracksLeave,
         Partners, TrackRecords, Builds
<1>2. SUFFICES /\ now' \in Nat /\ partner' \in Partners /\ payload' \in [seen: Seen, at: Seen]
               /\ build' \in Builds /\ picture' \in [track: TrackRecords, at: Seen]
               /\ waiting' \in BOOLEAN /\ tooOld' = FALSE /\ lingered' = FALSE
               /\ BuildIsRecent' /\ PictureIsRecent'
  BY DEF FlightInv, FlightTypeOK, LiveTracksAreRecent, ExpiredTracksLeave,
         Partners, TrackRecords, Builds
<1>3. build' = build /\ now' = now => BuildIsRecent'
  BY <1>1 DEF BuildIsRecent, ShownInTime
<1>4. picture' = picture /\ now' \in {now, now + 1} => PictureIsRecent'
  <2> SUFFICES ASSUME picture' = picture, now' \in {now, now + 1}, picture.at # Unseen
               PROVE  picture.at <= now' /\ ShownInTime(picture.track, picture.at)
    BY DEF PictureIsRecent, ShownInTime
  <2>1. picture.at \in Nat /\ picture.at <= now /\ ShownInTime(picture.track, picture.at)
    BY <1>1 DEF PictureIsRecent, Seen
  <2> QED
    BY <1>1, <2>1
<1>5. CASE upsert
  <2>1. now + PartnerTtl \in Nat /\ now + 1 \in Nat /\ Positions \subseteq Seen
    BY <1>1, Numbers DEF Positions, Seen
  <2>2. partner' \in Partners
    BY <1>1, <1>5, <2>1 DEF upsert, mapRecord, Partners
  <2> QED
    BY <1>1, <1>3, <1>4, <1>5, <2>2 DEF upsert
<1>6. CASE getTracks
  <2>1. /\ partner' = partner /\ payload' = payload /\ picture' = picture /\ now' = now
    BY <1>6 DEF getTracks
  <2>2. build' \in Builds /\ BuildIsRecent'
    <3>1. build' = build \/ fetchTracks
      BY <1>6 DEF getTracks
    <3> QED
      BY <1>1, <1>3, <2>1, <3>1, FetchIsRecent
  <2>3. waiting' \in BOOLEAN /\ tooOld' = FALSE /\ lingered' = FALSE
    <3> DEFINE usable == picture.at # Unseen /\ picture.at + TtlF + StaleIfErrorF > now
    <3>1. CASE usable
      <4>1. Shows(picture.track) /\ waiting' = waiting
        BY <1>6, <3>1 DEF getTracks
      <4>2. picture.at \in Nat /\ picture.track \in TrackRecords
        BY <1>1, <3>1 DEF Seen
      <4>3. ShownInTime(picture.track, picture.at)
        BY <1>1, <3>1 DEF PictureIsRecent
      <4>4. now < picture.at + PictureLife
        BY <1>1, <3>1, <4>2, Numbers DEF PictureLife
      <4> QED
        BY <1>1, <4>1, <4>2, <4>3, <4>4, ShowsInBound
    <3>2. CASE ~usable
      BY <1>1, <1>6, <3>2 DEF getTracks, NotAnswered
    <3> QED
      BY <3>1, <3>2
  <2> QED
    BY <1>1, <1>4, <2>1, <2>2, <2>3
<1>7. ASSUME build.awaits = "source"
      PROVE  /\ build.partner \in Partners
             /\ build.partner.seen # Unseen => build.partner.until + RequestTimeout > now
  <2>1. /\ now <= build.limit
        /\ build.partner.seen # Unseen => build.partner.until + RequestTimeout > build.limit
    BY <1>1, <1>7, Nothings DEF BuildIsRecent
  <2>2. build.limit \in Nat /\ build.partner \in Partners
    BY <1>1 DEF Builds
  <2>3. build.partner.until \in Nat
    BY <2>2 DEF Partners
  <2> QED
    BY <1>1, <2>1, <2>2, <2>3, Numbers
<1>8. CASE SourceAnswers
  <2>1. PICK seen \in Positions \cup {Unseen} :
           payload' = [seen |-> seen, at |-> now] /\ Assembled(build.partner, seen)
    BY <1>8 DEF SourceAnswers
  <2>2. seen \in Seen
    BY <1>1 DEF Positions, Seen
  <2>3. build.awaits = "source" /\ now' = now /\ picture' = picture /\ partner' = partner
        /\ waiting' = waiting /\ tooOld' = tooOld /\ lingered' = lingered
    BY <1>8 DEF SourceAnswers
  <2>4. build' \in Builds /\ BuildIsRecent'
    BY <1>1, <1>7, <2>1, <2>2, <2>3, AssembledIsRecent
  <2>5. payload' \in [seen: Seen, at: Seen]
    BY <1>1, <2>1, <2>2 DEF Seen
  <2> QED
    BY <1>1, <1>4, <2>3, <2>4, <2>5
<1>9. CASE SourceFails
  <2> DEFINE kept == IF PayloadUsable THEN payload.seen ELSE Unseen
  <2>1. /\ build.awaits = "source" /\ now' = now /\ picture' = picture /\ partner' = partner
        /\ waiting' = waiting /\ tooOld' = tooOld /\ lingered' = lingered
        /\ payload' = payload /\ Assembled(build.partner, kept)
    BY <1>9 DEF SourceFails
  <2>2. kept \in Seen
    BY <1>1 DEF Seen
  <2> HIDE DEF kept
  <2>3. build' \in Builds /\ BuildIsRecent'
    BY <1>1, <1>7, <2>1, <2>2, AssembledIsRecent
  <2> QED
    BY <1>1, <1>4, <2>1, <2>3
<1>10. CASE RoutesAnswer
  <2>1. /\ now' = now /\ partner' = partner /\ payload' = payload
        /\ picture' = [track |-> build.track, at |-> now]
        /\ build' = NoBuild /\ waiting' = FALSE
        /\ IF waiting THEN Shows(build.track) ELSE NotAnswered
    BY <1>10 DEF RoutesAnswer
  <2>2. /\ build.limit \in Nat /\ now <= build.limit
        /\ build.track \in TrackRecords /\ ShownInTime(build.track, build.limit)
    BY <1>1, <1>10, Nothings DEF RoutesAnswer, BuildIsRecent, Builds
  <2>3. picture' \in [track: TrackRecords, at: Seen] /\ build' \in Builds
    BY <1>1, <2>1, <2>2, Nothings DEF Seen
  <2>4. ShownInTime(build.track, now)
    <3>1. ASSUME build.track.seen # Unseen, ~build.track.stale
          PROVE  build.track.seen + StaleAfter + RequestTimeout >= now
      <4>1. build.track.seen \in Nat
        BY <2>2, <3>1 DEF TrackRecords, Seen
      <4> QED
        BY <1>1, <2>2, <3>1, <4>1, Numbers DEF ShownInTime
    <3>2. ASSUME build.track.until # Unseen
          PROVE  build.track.until + 2 * RequestTimeout > now
      <4>1. build.track.until \in Nat
        BY <2>2, <3>2 DEF TrackRecords, Seen
      <4> QED
        BY <1>1, <2>2, <3>2, <4>1, Numbers DEF ShownInTime
    <3> QED
      BY <3>1, <3>2 DEF ShownInTime
  <2>5. PictureIsRecent'
    BY <1>1, <2>1, <2>4 DEF PictureIsRecent, ShownInTime
  <2>6. BuildIsRecent'
    BY <2>1 DEF BuildIsRecent, NoBuild, NoPartner, NoTrack
  <2>7. tooOld' = FALSE /\ lingered' = FALSE
    <3>1. now < now + PictureLife
      BY <1>1, Numbers DEF PictureLife
    <3> QED
      BY <1>1, <2>1, <2>2, <2>4, <3>1, ShowsInBound DEF NotAnswered
  <2> QED
    BY <1>1, <2>1, <2>3, <2>5, <2>6, <2>7
<1>11. CASE FlightTimePasses
  <2>1. /\ now' = now + 1 /\ (build = NoBuild \/ now < build.limit)
        /\ UNCHANGED flightState
    BY <1>11 DEF FlightTimePasses, ClockTicks
  <2>2. build.limit \in Nat
    BY <1>1 DEF Builds
  <2>3. BuildIsRecent'
    BY <1>1, <2>1, <2>2 DEF BuildIsRecent, ShownInTime, NoBuild, NoPartner, NoTrack
  <2> QED
    BY <1>1, <1>4, <2>1, <2>3
<1>12. CASE UNCHANGED flightVars
  BY <1>1, <1>3, <1>4, <1>12
<1> QED
  BY <1>5, <1>6, <1>8, <1>9, <1>10, <1>11, <1>12 DEF FlightNext

-----------------------------------------------------------------------------
(* If the picture's cache keeps anything at all, no position is answered   *)
(* as live longer than StaleAfter, one enrichment and one life of the      *)
(* picture after it was seen, whatever the life of the source's own cache. *)
THEOREM LiveMeansRecent ==
    ASSUME TtlF > 0
    PROVE  FlightSpec => []LiveTracksAreRecent
<1>1. FlightInv /\ [FlightNext]_flightVars => FlightInv'
  BY FlightPreserved
<1>2. FlightInv => LiveTracksAreRecent
  BY DEF FlightInv
<1> QED
  BY <1>1, <1>2, FlightInitial, PTL DEF FlightSpec

(* Nor is a partner's track answered longer past its expiry than two       *)
(* awaits of an aggregation and one life of the picture.                   *)
THEOREM ExpiredMeansGone ==
    ASSUME TtlF > 0
    PROVE  FlightSpec => []ExpiredTracksLeave
<1>1. FlightInv /\ [FlightNext]_flightVars => FlightInv'
  BY FlightPreserved
<1>2. FlightInv => ExpiredTracksLeave
  BY DEF FlightInv
<1> QED
  BY <1>1, <1>2, FlightInitial, PTL DEF FlightSpec

-----------------------------------------------------------------------------
(* The types of the picture need no bound of the lives.                    *)
PictureTypes == now \in Nat /\ FlightTypeOK

LEMMA DeduplicateTyped ==
    ASSUME NEW p \in Partners, NEW external \in Seen
    PROVE  deduplicate(p, external) \in TrackRecords
<1>1. \A seen : IsStale(seen) \in BOOLEAN
  BY DEF IsStale
<1>2. p.seen \in Seen /\ p.until \in Seen
  BY DEF Partners, Seen
<1>3. CASE p.seen # Unseen
  BY <1>1, <1>2, <1>3 DEF deduplicate, TrackRecords
<1>4. CASE p.seen = Unseen /\ external # Unseen
  BY <1>1, <1>4 DEF deduplicate, TrackRecords, Seen
<1>5. CASE p.seen = Unseen /\ external = Unseen
  BY <1>5, Nothings DEF deduplicate
<1> QED
  BY <1>3, <1>4, <1>5

LEMMA AssembledTyped ==
    ASSUME now \in Nat, NEW p \in Partners, NEW external \in Seen, Assembled(p, external)
    PROVE  build' \in Builds
<1>1. now + RequestTimeout \in Nat
  BY Numbers
<1> QED
  BY <1>1, DeduplicateTyped DEF Assembled, Builds

LEMMA FlightStepTyped == PictureTypes /\ [FlightNext]_flightVars => PictureTypes'
<1> SUFFICES ASSUME PictureTypes, [FlightNext]_flightVars PROVE PictureTypes'
  OBVIOUS
<1> DEFINE Payloads == [seen: Seen, at: Seen]
           Pictures == [track: TrackRecords, at: Seen]
<1>1. /\ now \in Nat /\ partner \in Partners /\ payload \in Payloads
      /\ build \in Builds /\ picture \in Pictures
      /\ waiting \in BOOLEAN /\ tooOld \in BOOLEAN /\ lingered \in BOOLEAN
  BY DEF PictureTypes, FlightTypeOK, Partners, TrackRecords, Builds
<1> SUFFICES /\ now' \in Nat /\ partner' \in Partners /\ payload' \in Payloads
             /\ build' \in Builds /\ picture' \in Pictures
             /\ waiting' \in BOOLEAN /\ tooOld' \in BOOLEAN /\ lingered' \in BOOLEAN
  BY DEF PictureTypes, FlightTypeOK, Partners, TrackRecords, Builds
<1>2. \A seen \in Positions : seen \in Seen
  BY <1>1 DEF Positions, Seen
<1>3. now \in Seen
  BY <1>1 DEF Seen
<1>4. \A track : Shows(track) => tooOld' \in BOOLEAN /\ lingered' \in BOOLEAN
  BY DEF Shows
<1>5. CASE upsert
  <2>1. partner' \in mapRecord
    BY <1>5 DEF upsert
  <2>2. partner' \in Partners
    BY <1>1, <1>2, <2>1, Numbers DEF mapRecord, Partners
  <2> QED
    BY <1>1, <1>5, <2>2 DEF upsert
<1>6. Fetched \in Partners
  BY <1>1, Nothings DEF Fetched
<1>7. fetchTracks => build' \in Builds
  <2>1. payload.seen \in Seen
    BY <1>1
  <2>2. [NoBuild EXCEPT !.awaits = "source", !.partner = Fetched,
                        !.limit = now + RequestTimeout] \in Builds
    <3>1. now + RequestTimeout \in Nat
      BY <1>1, Numbers
    <3> HIDE DEF Payloads, Pictures
    <3> QED
      BY <1>6, <3>1, Nothings DEF Builds, NoBuild
  <2> QED
    BY <1>1, <1>6, <2>1, <2>2, AssembledTyped DEF fetchTracks
<1>8. CASE getTracks
  <2>1. build' \in Builds
    BY <1>1, <1>7, <1>8 DEF getTracks
  <2>2. waiting' \in BOOLEAN /\ tooOld' \in BOOLEAN /\ lingered' \in BOOLEAN
    BY <1>1, <1>4, <1>8 DEF getTracks, NotAnswered
  <2> QED
    BY <1>1, <1>8, <2>1, <2>2 DEF getTracks
<1>9. build.partner \in Partners /\ build.track \in TrackRecords /\ build.limit \in Nat
  BY <1>1 DEF Builds
<1>10. CASE SourceAnswers
  <2>1. PICK seen \in Positions \cup {Unseen} :
           payload' = [seen |-> seen, at |-> now] /\ Assembled(build.partner, seen)
    BY <1>10 DEF SourceAnswers
  <2>2. seen \in Seen
    BY <1>2, <2>1 DEF Seen
  <2>3. build' \in Builds /\ payload' \in Payloads
    BY <1>1, <1>3, <1>9, <2>1, <2>2, AssembledTyped
  <2> QED
    BY <1>1, <1>10, <2>3 DEF SourceAnswers
<1>11. CASE SourceFails
  <2>1. (IF PayloadUsable THEN payload.seen ELSE Unseen) \in Seen
    BY <1>1 DEF Seen
  <2>2. build' \in Builds
    BY <1>1, <1>9, <1>11, <2>1, AssembledTyped DEF SourceFails
  <2> QED
    BY <1>1, <1>11, <2>2 DEF SourceFails
<1>12. CASE RoutesAnswer
  <2>1. picture' \in Pictures /\ build' \in Builds
    BY <1>3, <1>9, <1>12, Nothings DEF RoutesAnswer
  <2>2. tooOld' \in BOOLEAN /\ lingered' \in BOOLEAN
    BY <1>1, <1>4, <1>12 DEF RoutesAnswer, NotAnswered
  <2> QED
    BY <1>1, <1>12, <2>1, <2>2 DEF RoutesAnswer
<1>13. CASE FlightTimePasses
  BY <1>1, <1>13 DEF FlightTimePasses, ClockTicks, flightState
<1>14. CASE UNCHANGED flightVars
  BY <1>1, <1>14 DEF flightVars, flightState
<1> QED
  BY <1>5, <1>8, <1>10, <1>11, <1>12, <1>13, <1>14 DEF FlightNext

(* The partners' store, the source's cache, the aggregation and its        *)
(* picture keep their types, for any configuration.                        *)
THEOREM FlightTyped == FlightSpec => []FlightTypeOK
<1>1. FlightInit => PictureTypes
  BY FlightInitial DEF FlightInv, PictureTypes
<1>2. PictureTypes => FlightTypeOK
  BY DEF PictureTypes
<1> QED
  BY <1>1, <1>2, FlightStepTyped, PTL DEF FlightSpec
=================================================================================
