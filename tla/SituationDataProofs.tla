-------------------------- MODULE SituationDataProofs ---------------------------
(***************************************************************************)
(* Theorems about situation-data-api: its two-level response cache, its    *)
(* idempotent routing and its traffic feed.                                *)
(***************************************************************************)
EXTENDS SharedResponseCache, GeoRouting, Tpeg2Source, TLAPS

(* ManagedResponseCache, for any number of callers and processes, any times*)
(* to live, and any evictions, restarts and failures of Redis: one load of a*)
(* key per process, and no answer past its time.                           *)

CallState == [pc: {"idle", "asks", "reads", "loads", "writes", "waits"},
              seen: Entry \cup {Nothing},
              load: Callers \cup {Nobody}]

(* A call that loads, or that stores what it loaded, is the one its        *)
(* process has in inflight.                                                *)
LoadsAreRunning ==
    \A c \in Callers : caller[c].pc \in {"loads", "writes"} => running[Home[c]] = c

(* However an entry was copied, its times are those of its load, which is  *)
(* not in the future.                                                      *)
Timed(e) ==
    e # Nothing => /\ e.loaded <= now
                   /\ e.expires = e.loaded + TtlS
                   /\ e.until = e.loaded + TtlS + StaleIfErrorS

EntriesAreTimed ==
    /\ \A p \in Processes : Timed(local[p])
    /\ Timed(redis)
    /\ \A c \in Callers : Timed(caller[c].seen)

SharedInv ==
    /\ SharedTypeOK /\ now \in Nat
    /\ LoadsAreRunning
    /\ EntriesAreTimed
    /\ NeverTooOld

-----------------------------------------------------------------------------
LEMMA IdleIsCallState ==
    /\ Idle \in CallState
    /\ Idle.pc = "idle" /\ Idle.seen = Nothing /\ Idle.load = Nobody
BY DEF Idle, CallState

LEMMA SharedInitial == SharedInit => SharedInv
<1> SUFFICES ASSUME SharedInit PROVE SharedInv
  OBVIOUS
<1>1. SharedTypeOK /\ now \in Nat
  <2>1. caller \in [Callers -> CallState]
    BY IdleIsCallState DEF SharedInit
  <2>2. disturbed \in 0..MaxDisturbances
    BY SharedCacheAssumption DEF SharedInit
  <2> QED
    BY <2>1, <2>2 DEF SharedInit, SharedTypeOK, CallState
<1>2. LoadsAreRunning /\ EntriesAreTimed
  BY IdleIsCallState DEF SharedInit, LoadsAreRunning, EntriesAreTimed, Timed
<1> QED
  BY <1>1, <1>2 DEF SharedInit, SharedInv, NeverTooOld

(* An entry that is fresh, or kept for errors, is not overdue.             *)
LEMMA AnswersInTime ==
    ASSUME SharedInv, NEW e \in Entry \cup {Nothing}, Timed(e),
           FreshS(e) \/ UsableS(e), AnsweredFromCache(e)
    PROVE  overdue' = FALSE
<1>1. /\ e # Nothing /\ e \in Entry
      /\ e.loaded + TtlS > now \/ e.loaded + TtlS + StaleIfErrorS > now
  BY DEF FreshS, UsableS, Timed
<1>2. e.loaded \in Nat /\ now \in Nat /\ TtlS \in Nat /\ StaleIfErrorS \in Nat
  BY <1>1, SharedCacheAssumption DEF Entry, SharedInv
<1>3. ~(now - e.loaded >= TtlS + StaleIfErrorS)
  BY <1>1, <1>2
<1> QED
  BY <1>3 DEF AnsweredFromCache, SharedInv, NeverTooOld

(* A step of one call that starts and ends no load, with what it has seen. *)
LEMMA CallKeeps ==
    ASSUME SharedInv, NEW c \in Callers, NEW new \in CallState,
           caller' = [caller EXCEPT ![c] = new],
           new.pc \notin {"loads", "writes"}, Timed(new.seen),
           UNCHANGED <<running, now>>
    PROVE  /\ caller' \in [Callers -> CallState]
           /\ LoadsAreRunning'
           /\ \A d \in Callers : Timed(caller[d].seen)'
<1>1. /\ caller'[c] = new
      /\ \A d \in Callers \ {c} : caller'[d] = caller[d]
  BY DEF SharedInv, SharedTypeOK
<1>2. caller' \in [Callers -> CallState]
  BY DEF SharedInv, SharedTypeOK, CallState
<1>3. LoadsAreRunning'
  BY <1>1 DEF SharedInv, LoadsAreRunning
<1>4. \A d \in Callers : Timed(caller[d].seen)'
  BY <1>1 DEF SharedInv, EntriesAreTimed, Timed
<1> QED
  BY <1>2, <1>3, <1>4

(* The end of a load takes it, and no other load, out of inflight.         *)
LEMMA LoadEnds ==
    ASSUME SharedInv, NEW c \in Callers, caller[c].pc \in {"loads", "writes"},
           Finally(c), now' = now
    PROVE  /\ caller' \in [Callers -> CallState]
           /\ running' \in [Processes -> Callers \cup {Nobody}]
           /\ LoadsAreRunning'
           /\ \A d \in Callers : Timed(caller[d].seen)'
<1>1. /\ running[Home[c]] = c
      /\ running' = [running EXCEPT ![Home[c]] = Nobody]
      /\ caller' = [d \in Callers |->
                      IF d = c \/ caller[d].load = c THEN Idle ELSE caller[d]]
      /\ Home \in [Callers -> Processes]
  BY SharedCacheAssumption DEF Finally, SharedInv, LoadsAreRunning
<1>2. caller' \in [Callers -> CallState]
  BY <1>1, IdleIsCallState DEF SharedInv, SharedTypeOK, CallState
<1>3. running' \in [Processes -> Callers \cup {Nobody}]
  BY <1>1 DEF SharedInv, SharedTypeOK
<1>4. \A d \in Callers : caller'[d] = Idle \/ (d # c /\ caller'[d] = caller[d])
  BY <1>1
<1>5. LoadsAreRunning'
  <2> SUFFICES ASSUME NEW d \in Callers, caller'[d].pc \in {"loads", "writes"}
               PROVE  running'[Home[d]] = d
    BY DEF LoadsAreRunning
  <2>1. d # c /\ caller'[d] = caller[d]
    BY <1>4, IdleIsCallState
  <2>2. running[Home[d]] = d /\ Home[d] \in Processes
    BY <1>1, <2>1 DEF SharedInv, LoadsAreRunning
  <2> QED
    BY <1>1, <2>1, <2>2 DEF SharedInv, SharedTypeOK
<1>6. \A d \in Callers : Timed(caller[d].seen)'
  BY <1>4, IdleIsCallState DEF SharedInv, EntriesAreTimed, Timed
<1> QED
  BY <1>2, <1>3, <1>5, <1>6

-----------------------------------------------------------------------------
LEMMA GetOrLoadKeeps ==
    ASSUME SharedInv, NEW c \in Callers, getOrLoadShared(c)
    PROVE  SharedInv'
<1> DEFINE p == Home[c]
<1>1. /\ p \in Processes /\ caller[c] \in CallState
      /\ local[p] \in Entry \cup {Nothing} /\ Timed(local[p])
      /\ UNCHANGED <<local, redis, running, disturbed, now>>
  BY SharedCacheAssumption
  DEF getOrLoadShared, SharedInv, SharedTypeOK, EntriesAreTimed, CallState
<1>2. CASE FreshS(local[p]) /\ AnsweredFromCache(local[p]) /\ UNCHANGED caller
  <2>1. overdue' = FALSE
    BY <1>1, <1>2, AnswersInTime
  <2> QED
    BY <1>1, <1>2, <2>1 DEF SharedInv, SharedTypeOK, LoadsAreRunning, EntriesAreTimed,
                            Timed, NeverTooOld
<1>3. ASSUME NEW new \in CallState, caller' = [caller EXCEPT ![c] = new],
             new.pc \notin {"loads", "writes"}, Timed(new.seen), UNCHANGED overdue
      PROVE  SharedInv'
  <2>1. /\ caller' \in [Callers -> CallState] /\ LoadsAreRunning'
        /\ \A d \in Callers : Timed(caller[d].seen)'
    BY <1>1, <1>3, CallKeeps
  <2> QED
    BY <1>1, <1>3, <2>1
    DEF SharedInv, SharedTypeOK, CallState, EntriesAreTimed, Timed, NeverTooOld
<1>4. CASE running[p] # Nobody /\ Waits(c, running[p]) /\ UNCHANGED overdue
  <2> DEFINE new == [Idle EXCEPT !.pc = "waits", !.load = running[p]]
  <2>1. running[p] \in Callers \cup {Nobody}
    BY <1>1 DEF SharedInv, SharedTypeOK
  <2>2. new \in CallState /\ new.pc = "waits" /\ new.seen = Nothing
    BY <2>1 DEF Idle, CallState
  <2>3. Timed(new.seen)
    BY <2>2 DEF Timed
  <2>4. caller' = [caller EXCEPT ![c] = new]
    BY <1>4 DEF Waits
  <2> HIDE DEF new
  <2> QED
    BY <1>3, <1>4, <2>2, <2>3, <2>4
<1>5. CASE Step(c, "asks") /\ UNCHANGED overdue
  <2> DEFINE new == [caller[c] EXCEPT !.pc = "asks"]
  <2>1. /\ new \in CallState /\ new.pc = "asks" /\ new.seen = caller[c].seen
    BY <1>1 DEF CallState
  <2>2. Timed(new.seen)
    BY <2>1 DEF SharedInv, EntriesAreTimed
  <2>3. caller' = [caller EXCEPT ![c] = new]
    BY <1>5 DEF Step
  <2> HIDE DEF new
  <2> QED
    BY <1>3, <1>5, <2>1, <2>2, <2>3
<1> QED
  BY <1>2, <1>4, <1>5 DEF getOrLoadShared

LEMMA RedisGetsKeeps ==
    ASSUME SharedInv, NEW c \in Callers, redisGets(c)
    PROVE  SharedInv'
<1>1. /\ caller[c] \in CallState /\ redis \in Entry \cup {Nothing}
      /\ disturbed' \in 0..MaxDisturbances
      /\ UNCHANGED <<local, redis, running, overdue, now>>
  BY SharedCacheAssumption DEF redisGets, Disturb, SharedInv, SharedTypeOK, CallState
<1>2. PICK new \in CallState :
         /\ caller' = [caller EXCEPT ![c] = new]
         /\ new.pc = "reads" /\ new.seen \in {redis, caller[c].seen}
  <2>1. CASE caller' = [caller EXCEPT ![c].pc = "reads", ![c].seen = redis]
    <3> DEFINE new == [caller[c] EXCEPT !.pc = "reads", !.seen = redis]
    <3>1. new \in CallState /\ new.pc = "reads" /\ new.seen = redis
      BY <1>1 DEF CallState
    <3>2. caller' = [caller EXCEPT ![c] = new]
      BY <2>1
    <3> QED
      BY <3>1, <3>2
  <2>2. CASE Step(c, "reads")
    <3> DEFINE new == [caller[c] EXCEPT !.pc = "reads"]
    <3>1. new \in CallState /\ new.pc = "reads" /\ new.seen = caller[c].seen
      BY <1>1 DEF CallState
    <3>2. caller' = [caller EXCEPT ![c] = new]
      BY <2>2 DEF Step
    <3> QED
      BY <3>1, <3>2
  <2> QED
    BY <2>1, <2>2 DEF redisGets
<1>3. Timed(new.seen)
  BY <1>2 DEF SharedInv, EntriesAreTimed
<1>4. /\ caller' \in [Callers -> CallState] /\ LoadsAreRunning'
      /\ \A d \in Callers : Timed(caller[d].seen)'
  BY <1>1, <1>2, <1>3, CallKeeps
<1> QED
  BY <1>1, <1>4
  DEF SharedInv, SharedTypeOK, CallState, EntriesAreTimed, Timed, NeverTooOld

LEMMA SharedHitKeeps ==
    ASSUME SharedInv, NEW c \in Callers, SharedHit(c),
           UNCHANGED <<redis, disturbed, now>>
    PROVE  SharedInv'
<1> DEFINE e == caller[c].seen
<1>1. /\ e \in Entry \cup {Nothing} /\ Timed(e) /\ FreshS(e) /\ AnsweredFromCache(e)
      /\ local' = [local EXCEPT ![Home[c]] = e]
      /\ caller' = [caller EXCEPT ![c] = Idle]
      /\ running' = running
  BY DEF SharedHit, SharedInv, SharedTypeOK, EntriesAreTimed
<1>2. overdue' = FALSE
  BY <1>1, AnswersInTime
<1>3. Idle.pc \notin {"loads", "writes"} /\ Timed(Idle.seen)
  BY IdleIsCallState DEF Timed
<1>4. /\ caller' \in [Callers -> CallState] /\ LoadsAreRunning'
      /\ \A d \in Callers : Timed(caller[d].seen)'
  BY <1>1, <1>3, IdleIsCallState, CallKeeps
<1> HIDE DEF e
<1>5. /\ local' \in [Processes -> Entry \cup {Nothing}]
      /\ \A p \in Processes : Timed(local[p])'
  BY <1>1 DEF SharedInv, SharedTypeOK, EntriesAreTimed, Timed
<1> QED
  BY <1>1, <1>2, <1>4, <1>5
  DEF SharedInv, SharedTypeOK, CallState, EntriesAreTimed, Timed, NeverTooOld

LEMMA JoinOrLoadKeeps ==
    ASSUME SharedInv, NEW c \in Callers, caller[c].pc = "reads", JoinOrLoad(c),
           UNCHANGED <<redis, disturbed, now>>
    PROVE  SharedInv'
<1>1. /\ caller[c] \in CallState /\ Home[c] \in Processes
      /\ UNCHANGED <<local, redis, disturbed, overdue, now>>
  BY SharedCacheAssumption DEF JoinOrLoad, SharedInv, SharedTypeOK, CallState
<1>2. SUFFICES /\ caller' \in [Callers -> CallState] /\ LoadsAreRunning'
               /\ running' \in [Processes -> Callers \cup {Nobody}]
               /\ \A d \in Callers : Timed(caller[d].seen)'
  BY <1>1 DEF SharedInv, SharedTypeOK, CallState, EntriesAreTimed, Timed, NeverTooOld
<1>3. CASE Waits(c, running[Home[c]]) /\ UNCHANGED running
  <2> DEFINE new == [Idle EXCEPT !.pc = "waits", !.load = running[Home[c]]]
  <2>1. running[Home[c]] \in Callers \cup {Nobody}
    BY <1>1 DEF SharedInv, SharedTypeOK
  <2>2. new \in CallState /\ new.pc = "waits" /\ new.seen = Nothing
    BY <2>1 DEF Idle, CallState
  <2>3. Timed(new.seen)
    BY <2>2 DEF Timed
  <2>4. caller' = [caller EXCEPT ![c] = new]
    BY <1>3 DEF Waits
  <2> HIDE DEF new
  <2>5. new.pc \notin {"loads", "writes"} /\ UNCHANGED <<running, now>>
    BY <1>1, <1>3, <2>2
  <2> QED
    BY <1>3, <2>2, <2>3, <2>4, <2>5, CallKeeps DEF SharedInv, SharedTypeOK
<1>4. CASE /\ running[Home[c]] = Nobody
           /\ Step(c, "loads")
           /\ running' = [running EXCEPT ![Home[c]] = c]
  <2>1. /\ caller'[c] \in CallState /\ caller'[c].pc = "loads"
        /\ caller'[c].seen = caller[c].seen
        /\ caller' \in [Callers -> CallState]
        /\ \A d \in Callers \ {c} : caller'[d] = caller[d]
    BY <1>1, <1>4 DEF Step, CallState, SharedInv, SharedTypeOK
  <2>2. running' \in [Processes -> Callers \cup {Nobody}] /\ running'[Home[c]] = c
    BY <1>1, <1>4 DEF SharedInv, SharedTypeOK
  <2>3. LoadsAreRunning'
    <3> SUFFICES ASSUME NEW d \in Callers, d # c, caller'[d].pc \in {"loads", "writes"}
                 PROVE  running'[Home[d]] = d
      BY <2>2 DEF LoadsAreRunning
    <3>1. running[Home[d]] = d /\ Home[d] \in Processes /\ d # Nobody
      BY <2>1, SharedCacheAssumption DEF SharedInv, LoadsAreRunning
    <3> QED
      BY <1>4, <3>1 DEF SharedInv, SharedTypeOK
  <2>4. \A d \in Callers : Timed(caller[d].seen)'
    BY <1>1, <2>1 DEF SharedInv, EntriesAreTimed, Timed
  <2> QED
    BY <2>1, <2>2, <2>3, <2>4
<1> QED
  BY <1>3, <1>4 DEF JoinOrLoad

LEMMA StoreKeeps ==
    ASSUME SharedInv, NEW c \in Callers, storeEntry(c)
    PROVE  SharedInv'
<1>1. PICK e \in Entry : /\ e = Loaded
                        /\ e.loaded = now /\ e.expires = now + TtlS
                        /\ e.until = now + TtlS + StaleIfErrorS
  <2>1. Loaded \in Entry
    BY SharedCacheAssumption DEF SharedInv, Loaded, Entry
  <2> QED
    BY <2>1 DEF Loaded
<1>2. /\ local' = [local EXCEPT ![Home[c]] = e]
      /\ caller' = [caller EXCEPT ![c].pc = "writes", ![c].seen = e]
      /\ caller[c] \in CallState /\ caller[c].pc = "loads"
      /\ UNCHANGED <<redis, running, disturbed, overdue, now>>
  BY <1>1 DEF storeEntry, SharedInv, SharedTypeOK, CallState
<1>3. now \in Nat
  BY DEF SharedInv
<1>4. Timed(e)
  BY <1>1, <1>3 DEF Timed
<1>5. /\ caller'[c].pc = "writes" /\ caller'[c].seen = e
      /\ caller' \in [Callers -> CallState]
      /\ \A d \in Callers \ {c} : caller'[d] = caller[d]
  BY <1>1, <1>2 DEF CallState, SharedInv, SharedTypeOK
<1>6. LoadsAreRunning'
  BY <1>2, <1>5 DEF SharedInv, LoadsAreRunning
<1>7. EntriesAreTimed'
  <2>1. \A p \in Processes : local'[p] \in {e, local[p]}
    BY <1>2 DEF SharedInv, SharedTypeOK
  <2>2. \A d \in Callers : caller'[d].seen \in {e, caller[d].seen}
    BY <1>5
  <2>3. \A p \in Processes : Timed(local[p])'
    <3>1. \A p \in Processes : Timed(local'[p])
      BY <1>4, <2>1 DEF SharedInv, EntriesAreTimed
    <3> QED
      BY <1>2, <3>1 DEF Timed
  <2>4. \A d \in Callers : Timed(caller[d].seen)'
    <3>1. \A d \in Callers : Timed(caller'[d].seen)
      BY <1>4, <2>2 DEF SharedInv, EntriesAreTimed
    <3> QED
      BY <1>2, <3>1 DEF Timed
  <2> QED
    BY <1>2, <2>3, <2>4 DEF SharedInv, EntriesAreTimed, Timed
<1> QED
  BY <1>1, <1>2, <1>5, <1>6, <1>7 DEF SharedInv, SharedTypeOK, CallState, NeverTooOld

LEMMA WriteKeeps ==
    ASSUME SharedInv, NEW c \in Callers, writeSharedEntry(c)
    PROVE  SharedInv'
<1>1. /\ caller[c].pc \in {"loads", "writes"} /\ Finally(c) /\ now' = now
      /\ UNCHANGED <<local, overdue>>
      /\ disturbed' \in 0..MaxDisturbances
      /\ redis' \in {redis, caller[c].seen, Nothing}
  BY SharedCacheAssumption DEF writeSharedEntry, Disturb, SharedInv, SharedTypeOK
<1>2. /\ caller' \in [Callers -> CallState] /\ LoadsAreRunning'
      /\ running' \in [Processes -> Callers \cup {Nobody}]
      /\ \A d \in Callers : Timed(caller[d].seen)'
  BY <1>1, LoadEnds
<1>3. redis' \in Entry \cup {Nothing} /\ Timed(redis)'
  BY <1>1 DEF SharedInv, SharedTypeOK, EntriesAreTimed, Timed
<1> QED
  BY <1>1, <1>2, <1>3
  DEF SharedInv, SharedTypeOK, CallState, EntriesAreTimed, Timed, NeverTooOld

LEMMA LoadFailureKeeps ==
    ASSUME SharedInv, NEW c \in Callers, sharedLoadFails(c)
    PROVE  SharedInv'
<1>1. /\ caller[c].pc \in {"loads", "writes"} /\ Finally(c)
      /\ UNCHANGED <<redis, disturbed, now>>
      /\ Home[c] \in Processes
  BY SharedCacheAssumption DEF sharedLoadFails
<1>2. /\ caller' \in [Callers -> CallState] /\ LoadsAreRunning'
      /\ running' \in [Processes -> Callers \cup {Nobody}]
      /\ \A d \in Callers : Timed(caller[d].seen)'
  BY <1>1, LoadEnds
<1>3. /\ local[Home[c]] \in Entry \cup {Nothing} /\ Timed(local[Home[c]])
      /\ caller[c].seen \in Entry \cup {Nothing} /\ Timed(caller[c].seen)
  BY <1>1 DEF SharedInv, SharedTypeOK, EntriesAreTimed
<1>4. /\ overdue' = FALSE
      /\ local' = local \/ local' = [local EXCEPT ![Home[c]] = caller[c].seen]
  <2>1. CASE UsableS(local[Home[c]]) /\ AnsweredFromCache(local[Home[c]]) /\ local' = local
    BY <1>3, <2>1, AnswersInTime
  <2>2. CASE /\ UsableS(caller[c].seen) /\ AnsweredFromCache(caller[c].seen)
             /\ local' = [local EXCEPT ![Home[c]] = caller[c].seen]
    BY <1>3, <2>2, AnswersInTime
  <2>3. CASE UNCHANGED <<local, overdue>>
    BY <2>3 DEF SharedInv, NeverTooOld
  <2> QED
    BY <2>1, <2>2, <2>3 DEF sharedLoadFails, StaleOrError
<1>5. /\ local' \in [Processes -> Entry \cup {Nothing}]
      /\ \A p \in Processes : Timed(local[p])'
  BY <1>1, <1>3, <1>4 DEF SharedInv, SharedTypeOK, EntriesAreTimed, Timed
<1> QED
  BY <1>1, <1>2, <1>4, <1>5
  DEF SharedInv, SharedTypeOK, CallState, EntriesAreTimed, Timed, NeverTooOld

-----------------------------------------------------------------------------
LEMMA EvictionKeeps ==
    ASSUME SharedInv, NEW p \in Processes, EvictEntry(p)
    PROVE  SharedInv'
<1>1. /\ local' = [local EXCEPT ![p] = Nothing]
      /\ disturbed' \in 0..MaxDisturbances
      /\ UNCHANGED <<redis, running, caller, overdue, now>>
  BY SharedCacheAssumption DEF EvictEntry, Disturb, SharedInv, SharedTypeOK
<1> QED
  BY <1>1 DEF SharedInv, SharedTypeOK, LoadsAreRunning, EntriesAreTimed, Timed, NeverTooOld

LEMMA RestartKeeps ==
    ASSUME SharedInv, NEW p \in Processes, ProcessRestarts(p)
    PROVE  SharedInv'
<1>1. /\ local' = [local EXCEPT ![p] = Nothing]
      /\ running' = [running EXCEPT ![p] = Nobody]
      /\ caller' = [c \in Callers |-> IF Home[c] = p THEN Idle ELSE caller[c]]
      /\ disturbed' \in 0..MaxDisturbances
      /\ UNCHANGED <<redis, overdue, now>>
  BY SharedCacheAssumption DEF ProcessRestarts, Disturb, SharedInv, SharedTypeOK
<1>2. \A c \in Callers : \/ caller'[c] = Idle
                         \/ Home[c] # p /\ caller'[c] = caller[c]
  BY <1>1
<1>3. SharedTypeOK'
  BY <1>1, IdleIsCallState DEF SharedInv, SharedTypeOK, CallState
<1>4. LoadsAreRunning'
  <2> SUFFICES ASSUME NEW c \in Callers, caller'[c].pc \in {"loads", "writes"}
               PROVE  running'[Home[c]] = c
    BY DEF LoadsAreRunning
  <2>1. Home[c] # p /\ Home[c] \in Processes /\ running[Home[c]] = c
    BY <1>2, IdleIsCallState, SharedCacheAssumption DEF SharedInv, LoadsAreRunning
  <2> QED
    BY <1>1, <2>1 DEF SharedInv, SharedTypeOK
<1>5. EntriesAreTimed'
  BY <1>1, <1>2, IdleIsCallState DEF SharedInv, SharedTypeOK, EntriesAreTimed, Timed
<1> QED
  BY <1>1, <1>3, <1>4, <1>5 DEF SharedInv, NeverTooOld

LEMMA TimeKeeps == SharedInv /\ TimePasses => SharedInv'
<1> SUFFICES ASSUME SharedInv, TimePasses PROVE SharedInv'
  OBVIOUS
<1>1. /\ now \in Nat /\ now' = now + 1 /\ redis' \in {redis, Nothing}
      /\ UNCHANGED <<local, running, caller, disturbed, overdue>>
  BY DEF TimePasses, ClockTicks, SharedInv
<1>2. EntriesAreTimed'
  <2>1. \A e \in Entry \cup {Nothing} : Timed(e) =>
           (e # Nothing => /\ e.loaded <= now'
                           /\ e.expires = e.loaded + TtlS
                           /\ e.until = e.loaded + TtlS + StaleIfErrorS)
    BY <1>1 DEF Entry, Timed
  <2> QED
    BY <1>1, <2>1 DEF SharedInv, SharedTypeOK, EntriesAreTimed, Timed
<1> QED
  BY <1>1, <1>2 DEF SharedInv, SharedTypeOK, LoadsAreRunning, NeverTooOld

LEMMA SharedStepKeeps == SharedInv /\ [SharedNext]_sharedVars => SharedInv'
<1> SUFFICES ASSUME SharedInv, [SharedNext]_sharedVars PROVE SharedInv'
  OBVIOUS
<1>1. ASSUME NEW c \in Callers, SharedProgress(c) PROVE SharedInv'
  <2>1. ASSUME readSharedEntry(c) PROVE SharedInv'
    BY <2>1, SharedHitKeeps, JoinOrLoadKeeps DEF readSharedEntry
  <2> QED
    BY <1>1, <2>1, RedisGetsKeeps, StoreKeeps, LoadFailureKeeps, WriteKeeps
    DEF SharedProgress
<1>2. ASSUME UNCHANGED sharedVars PROVE SharedInv'
  BY <1>2 DEF sharedVars, sharedState, SharedInv, SharedTypeOK, LoadsAreRunning,
              EntriesAreTimed, Timed, NeverTooOld
<1> QED
  BY <1>1, <1>2, GetOrLoadKeeps, EvictionKeeps, RestartKeeps, TimeKeeps DEF SharedNext

LEMMA SharedInvariant == SharedSpec => []SharedInv
BY SharedInitial, SharedStepKeeps, PTL DEF SharedSpec

(* The entries of the two levels, and the calls between their awaits, stay *)
(* what the code can make of them.                                         *)
THEOREM SharedCacheTyped == SharedSpec => []SharedTypeOK
<1>1. SharedInv => SharedTypeOK
  BY DEF SharedInv
<1> QED
  BY <1>1, SharedInvariant, PTL

(* A copy keeps the times of its load, so neither a fresh nor a stale      *)
(* answer is older than ttl + staleIfError, whatever was copied where.     *)
THEOREM NoAnswerIsTooOld == SharedSpec => []NeverTooOld
<1>1. SharedInv => NeverTooOld
  BY DEF SharedInv
<1> QED
  BY <1>1, SharedInvariant, PTL

(* Two calls of one process never load at the same time: each one would be *)
(* the load its process has in inflight.                                   *)
THEOREM LoadsAreShared == SharedSpec => []OneLoadPerProcess
<1>1. SharedInv => OneLoadPerProcess
  BY DEF SharedInv, LoadsAreRunning, OneLoadPerProcess
<1> QED
  BY <1>1, SharedInvariant, PTL

-----------------------------------------------------------------------------
(* idempotentCompute, for any number of clients, requests, datasets, failures*)
(* and crashes: no client gets the route of another request, and what a    *)
(* client gets had been stored before.                                     *)

Call == [pc: {"idle", "opens", "reads", "joins", "computes", "persists"},
         request: Requests \cup {Nil},
         found: Responses \cup {Nil},
         joined: Clients \cup {Nil}]

(* The flight is the one call that computes, and only a call that waits    *)
(* for it has joined it, with the same request.                            *)
FlightIsActive ==
    /\ \A c \in Clients : client[c].pc \in {"computes", "persists"} <=> active = c
    /\ \A c \in Clients :
          client[c].joined # Nil => /\ client[c].pc = "joins"
                                    /\ active = client[c].joined
                                    /\ client[client[c].joined].request = client[c].request

(* What a call has in hand: a stored response, or the one it computed.     *)
HandIsKnown ==
    \A c \in Clients :
        /\ client[c].pc # "idle" => client[c].request \in Requests
        /\ client[c].pc = "reads" /\ client[c].found # Nil => client[c].found \in stored
        /\ client[c].pc = "persists" => /\ client[c].found \in Responses
                                        /\ client[c].found.request = client[c].request

FileIsStored == file # Nil => file \in stored

GeoInv ==
    /\ GeoTypeOK
    /\ FlightIsActive
    /\ HandIsKnown
    /\ FileIsStored
    /\ NoForeignAnswer
    /\ StoredBeforeAnswered

-----------------------------------------------------------------------------
LEMMA WaitingIsCall == Waiting \in Call
BY DEF Waiting, Call

LEMMA ResponseIsNotNil ==
    ASSUME NEW r \in Responses
    PROVE  r.request \in Requests /\ r.dataset \in 1..MaxDataset
BY DEF Responses

LEMMA GeoInitial == GeoInit => GeoInv
<1> SUFFICES ASSUME GeoInit PROVE GeoInv
  OBVIOUS
<1>1. GeoTypeOK
  BY GeoAssumption, WaitingIsCall DEF GeoInit, GeoTypeOK, Call
<1>2. FlightIsActive /\ HandIsKnown /\ FileIsStored
  BY GeoAssumption DEF GeoInit, FlightIsActive, HandIsKnown, FileIsStored, Waiting
<1> QED
  BY <1>1, <1>2 DEF GeoInit, GeoInv, NoForeignAnswer, StoredBeforeAnswered

-----------------------------------------------------------------------------
(* The steps of a call that end no flight.                                 *)

LEMMA RequestKeeps ==
    ASSUME GeoInv, NEW c \in Clients, NEW r \in Requests, Request(c, r)
    PROVE  GeoInv'
<1> DEFINE asked == [Waiting EXCEPT !.pc = "opens", !.request = r]
<1>1. /\ asked \in Call
      /\ asked.pc = "opens" /\ asked.request = r /\ asked.joined = Nil
  BY DEF Waiting, Call
<1>2. client' = [client EXCEPT ![c] = asked] /\ client[c].pc = "idle"
  BY DEF Request, At
<1>3. UNCHANGED <<file, stored, active, dataset, disruptions, received>>
  BY DEF Request
<1> HIDE DEF asked
<1>4. GeoTypeOK'
  BY <1>1, <1>2, <1>3 DEF GeoInv, GeoTypeOK, Call
<1>5. FlightIsActive'
  BY <1>1, <1>2, <1>3, GeoAssumption DEF GeoInv, GeoTypeOK, FlightIsActive
<1>6. HandIsKnown' /\ FileIsStored'
  BY <1>1, <1>2, <1>3 DEF GeoInv, GeoTypeOK, HandIsKnown, FileIsStored
<1> QED
  BY <1>3, <1>4, <1>5, <1>6 DEF GeoInv, NoForeignAnswer, StoredBeforeAnswered

LEMMA ReadKeeps ==
    ASSUME GeoInv, NEW c \in Clients, readStored(c)
    PROVE  GeoInv'
<1>1. /\ client[c] \in Call /\ client[c].pc = "opens"
      /\ client' = [client EXCEPT ![c].pc = "reads", ![c].found = file]
      /\ UNCHANGED <<file, stored, active, dataset, disruptions, received>>
  BY DEF readStored, At, GeoInv, GeoTypeOK, Call
<1>2. /\ client'[c].pc = "reads" /\ client'[c].found = file
      /\ client'[c].request = client[c].request
      /\ client'[c].joined = client[c].joined
      /\ client'[c] \in Call
  BY <1>1 DEF Call, GeoInv, GeoTypeOK
<1>3. \A d \in Clients \ {c} : client'[d] = client[d]
  BY <1>1 DEF GeoInv, GeoTypeOK
<1>4. GeoTypeOK'
  BY <1>1, <1>2, <1>3 DEF GeoInv, GeoTypeOK, Call
<1>5. FlightIsActive'
  BY <1>1, <1>2, <1>3, GeoAssumption DEF GeoInv, GeoTypeOK, FlightIsActive
<1>6. HandIsKnown' /\ FileIsStored'
  BY <1>1, <1>2, <1>3 DEF GeoInv, GeoTypeOK, HandIsKnown, FileIsStored
<1> QED
  BY <1>1, <1>4, <1>5, <1>6 DEF GeoInv, NoForeignAnswer, StoredBeforeAnswered

LEMMA ReplayKeeps ==
    ASSUME GeoInv, NEW c \in Clients, replay(c)
    PROVE  GeoInv'
<1>1. /\ client[c].pc = "reads" /\ client[c].found # Nil
      /\ client' = [client EXCEPT ![c] = Waiting]
      /\ UNCHANGED <<file, stored, active, dataset, disruptions>>
  BY DEF replay, At, Released
<1>2. /\ client[c].found \in stored /\ client[c].found \in Responses
      /\ client[c].request \in Requests
  BY <1>1 DEF GeoInv, HandIsKnown, GeoTypeOK
<1>3. \/ received' = received
      \/ /\ received' = received \cup {[request |-> client[c].request,
                                        response |-> client[c].found]}
         /\ client[c].found.request = client[c].request
  BY DEF replay, Receives
<1>4. \A d \in Clients : client'[d] = Waiting \/ (d # c /\ client'[d] = client[d])
  BY <1>1 DEF GeoInv, GeoTypeOK
<1>5. GeoTypeOK'
  BY <1>1, <1>2, <1>3, WaitingIsCall DEF GeoInv, GeoTypeOK, Call
<1>6. FlightIsActive'
  <2>1. /\ Waiting.pc = "idle" /\ Waiting.joined = Nil
        /\ active # c
    BY <1>1, GeoAssumption DEF Waiting, GeoInv, FlightIsActive
  <2>2. \A d \in Clients : client[d].joined # c
    BY <2>1, GeoAssumption DEF GeoInv, FlightIsActive
  <2> QED
    BY <1>1, <1>4, <2>1, <2>2, GeoAssumption DEF GeoInv, GeoTypeOK, FlightIsActive
<1>7. HandIsKnown' /\ FileIsStored'
  BY <1>1, <1>4 DEF GeoInv, HandIsKnown, FileIsStored, Waiting
<1>8. NoForeignAnswer' /\ StoredBeforeAnswered'
  BY <1>1, <1>2, <1>3 DEF GeoInv, NoForeignAnswer, StoredBeforeAnswered
<1> QED
  BY <1>5, <1>6, <1>7, <1>8 DEF GeoInv

LEMMA JoinKeeps ==
    ASSUME GeoInv, NEW c \in Clients, join(c)
    PROVE  GeoInv'
<1>1. /\ client[c] \in Call /\ client[c].pc = "reads"
      /\ active \in Clients /\ active # Nil
      /\ UNCHANGED <<file, stored, active, dataset, disruptions, received>>
  BY DEF join, At, GeoInv, GeoTypeOK, Call
<1>2. CASE /\ client[active].request = client[c].request
           /\ client' = [client EXCEPT ![c].pc = "joins", ![c].joined = active]
  <2>1. /\ client'[c].pc = "joins" /\ client'[c].joined = active
        /\ client'[c].request = client[c].request
        /\ client'[c] \in Call
    BY <1>1, <1>2 DEF Call, GeoInv, GeoTypeOK
  <2>2. \A d \in Clients \ {c} : client'[d] = client[d]
    BY <1>1, <1>2 DEF GeoInv, GeoTypeOK
  <2>3. active # c
    BY <1>1 DEF GeoInv, FlightIsActive
  <2>4. GeoTypeOK'
    BY <1>1, <1>2, <2>1, <2>2 DEF GeoInv, GeoTypeOK, Call
  <2>5. FlightIsActive'
    <3>1. client'[active].request = client[active].request
      BY <1>1, <2>2, <2>3
    <3>2. \A d \in Clients : client[d].joined # Nil => client[d].joined # c
      BY <2>3 DEF GeoInv, FlightIsActive
    <3>3. \A d \in Clients \ {c} :
             client'[d].joined # Nil => client'[client'[d].joined].request = client[d].request
      BY <1>1, <2>2, <2>3, <3>1 DEF GeoInv, FlightIsActive
    <3>4. \A d \in Clients : client'[d].pc \in {"computes", "persists"} <=> active' = d
      BY <1>1, <2>1, <2>2, <2>3 DEF GeoInv, FlightIsActive
    <3>5. \A d \in Clients \ {c} :
             client'[d].joined # Nil => /\ client'[d].pc = "joins"
                                        /\ active' = client'[d].joined
      BY <1>1, <2>2 DEF GeoInv, FlightIsActive
    <3>6. client'[client'[c].joined].request = client'[c].request
      BY <1>2, <2>1, <3>1
    <3> QED
      BY <1>1, <2>1, <2>2, <3>3, <3>4, <3>5, <3>6 DEF FlightIsActive
  <2>6. HandIsKnown' /\ FileIsStored'
    BY <1>1, <2>1, <2>2 DEF GeoInv, HandIsKnown, FileIsStored
  <2> QED
    BY <1>1, <2>4, <2>5, <2>6 DEF GeoInv, NoForeignAnswer, StoredBeforeAnswered
<1>3. CASE client' = [client EXCEPT ![c] = Waiting]
  <2>1. \A d \in Clients : client'[d] = Waiting \/ (d # c /\ client'[d] = client[d])
    BY <1>3 DEF GeoInv, GeoTypeOK
  <2>2. Waiting.pc = "idle" /\ Waiting.joined = Nil /\ active # c
    BY <1>1 DEF Waiting, GeoInv, FlightIsActive
  <2>3. GeoTypeOK'
    BY <1>1, <1>3, WaitingIsCall DEF GeoInv, GeoTypeOK, Call
  <2>4. FlightIsActive'
    BY <1>1, <1>3, <2>1, <2>2 DEF GeoInv, GeoTypeOK, FlightIsActive
  <2>5. HandIsKnown' /\ FileIsStored'
    BY <1>1, <2>1 DEF GeoInv, HandIsKnown, FileIsStored, Waiting
  <2> QED
    BY <1>1, <2>3, <2>4, <2>5 DEF GeoInv, NoForeignAnswer, StoredBeforeAnswered
<1> QED
  BY <1>2, <1>3 DEF join, Released

LEMMA ComputeKeeps ==
    ASSUME GeoInv, NEW c \in Clients, compute(c)
    PROVE  GeoInv'
<1>1. /\ client[c] \in Call /\ client[c].pc = "reads"
      /\ active = Nil /\ active' = c
      /\ client' = [client EXCEPT ![c].pc = "computes"]
      /\ UNCHANGED <<file, stored, dataset, disruptions, received>>
  BY DEF compute, At, Becomes, GeoInv, GeoTypeOK, Call
<1>2. /\ client'[c].pc = "computes" /\ client'[c].joined = client[c].joined
      /\ client'[c].request = client[c].request
      /\ client'[c] \in Call
  BY <1>1 DEF Call, GeoInv, GeoTypeOK
<1>3. \A d \in Clients \ {c} : client'[d] = client[d]
  BY <1>1 DEF GeoInv, GeoTypeOK
<1>4. GeoTypeOK'
  BY <1>1, <1>2, <1>3 DEF GeoInv, GeoTypeOK, Call
<1>5. FlightIsActive'
  <2>1. \A d \in Clients : client[d].pc \notin {"computes", "persists"}
    BY <1>1, GeoAssumption DEF GeoInv, FlightIsActive
  <2>2. \A d \in Clients : client[d].joined = Nil
    <3> SUFFICES ASSUME NEW d \in Clients, client[d].joined # Nil PROVE FALSE
      OBVIOUS
    <3> QED
      BY <1>1 DEF GeoInv, FlightIsActive
  <2> QED
    BY <1>1, <1>2, <1>3, <2>1, <2>2 DEF FlightIsActive
<1>6. HandIsKnown' /\ FileIsStored'
  BY <1>1, <1>2, <1>3 DEF GeoInv, HandIsKnown, FileIsStored
<1> QED
  BY <1>1, <1>4, <1>5, <1>6 DEF GeoInv, NoForeignAnswer, StoredBeforeAnswered

LEMMA ComputeResponseKeeps ==
    ASSUME GeoInv, NEW c \in Clients, computeResponse(c)
    PROVE  GeoInv'
<1> DEFINE response == [request |-> client[c].request, dataset |-> dataset]
<1>1. /\ client[c] \in Call /\ client[c].pc = "computes"
      /\ client' = [client EXCEPT ![c].pc = "persists", ![c].found = response]
      /\ UNCHANGED <<file, stored, active, dataset, disruptions, received>>
  BY DEF computeResponse, At, GeoInv, GeoTypeOK, Call
<1>2. response \in Responses /\ response.request = client[c].request
  BY <1>1 DEF GeoInv, GeoTypeOK, HandIsKnown, Responses
<1> HIDE DEF response
<1>3. /\ client'[c].pc = "persists" /\ client'[c].found = response
      /\ client'[c].request = client[c].request
      /\ client'[c].joined = client[c].joined
      /\ client'[c] \in Call
  BY <1>1, <1>2 DEF Call, GeoInv, GeoTypeOK
<1>4. \A d \in Clients \ {c} : client'[d] = client[d]
  BY <1>1 DEF GeoInv, GeoTypeOK
<1>5. GeoTypeOK'
  BY <1>1, <1>3, <1>4 DEF GeoInv, GeoTypeOK, Call
<1>6. FlightIsActive'
  BY <1>1, <1>3, <1>4 DEF GeoInv, GeoTypeOK, FlightIsActive
<1>7. HandIsKnown' /\ FileIsStored'
  <2>1. client[c].request \in Requests
    BY <1>1 DEF GeoInv, HandIsKnown
  <2>2. \A d \in Clients \ {c} :
           /\ client'[d].pc # "idle" => client'[d].request \in Requests
           /\ client'[d].pc = "reads" /\ client'[d].found # Nil => client'[d].found \in stored
           /\ client'[d].pc = "persists" => /\ client'[d].found \in Responses
                                            /\ client'[d].found.request = client'[d].request
    BY <1>4 DEF GeoInv, HandIsKnown
  <2>3. stored' = stored
    BY <1>1
  <2>4. /\ client'[c].request \in Requests /\ client'[c].pc = "persists"
        /\ client'[c].found \in Responses
        /\ client'[c].found.request = client'[c].request
    BY <1>2, <1>3, <2>1
  <2>5. HandIsKnown'
    BY <2>2, <2>3, <2>4 DEF HandIsKnown
  <2> QED
    BY <1>1, <2>5 DEF GeoInv, FileIsStored
<1> QED
  BY <1>1, <1>5, <1>6, <1>7 DEF GeoInv, NoForeignAnswer, StoredBeforeAnswered

-----------------------------------------------------------------------------
(* The end of a flight frees the key and every call that waited for it.    *)
LEMMA FlightEndFreesTheKey ==
    ASSUME GeoInv, NEW c \in Clients, active = c, FlightEnds(c)
    PROVE  /\ client' \in [Clients -> Call]
           /\ FlightIsActive'
           /\ \A d \in Clients : \/ client'[d] = Waiting
                                 \/ d # c /\ client'[d] = client[d]
<1>1. /\ active' = Nil
      /\ \A d \in Clients :
            client'[d] = IF d = c \/ client[d].joined = c THEN Waiting ELSE client[d]
      /\ client' = [d \in Clients |->
                      IF d = c \/ client[d].joined = c THEN Waiting ELSE client[d]]
  BY DEF FlightEnds
<1>2. client' \in [Clients -> Call]
  BY <1>1, WaitingIsCall DEF GeoInv, GeoTypeOK, Call
<1>3. \A d \in Clients : client'[d].joined = Nil
  BY <1>1, GeoAssumption DEF GeoInv, FlightIsActive, Waiting
<1>4. \A d \in Clients : client'[d].pc \notin {"computes", "persists"}
  BY <1>1 DEF GeoInv, FlightIsActive, Waiting
<1>5. FlightIsActive'
  BY <1>1, <1>3, <1>4, GeoAssumption DEF FlightIsActive
<1> QED
  BY <1>1, <1>2, <1>5

LEMMA RenameKeeps ==
    ASSUME GeoInv, NEW c \in Clients, rename(c)
    PROVE  GeoInv'
<1> DEFINE response == client[c].found
           answered == {c} \cup Joiners(c)
<1>1. /\ active = c /\ response \in Responses
      /\ response.request = client[c].request
      /\ client[c].request \in Requests
  BY DEF rename, At, GeoInv, FlightIsActive, HandIsKnown
<1>2. \A d \in answered : d \in Clients /\ client[d].request = client[c].request
  BY <1>1, GeoAssumption DEF Joiners, GeoInv, FlightIsActive
<1>3. /\ file' = response /\ stored' = stored \cup {response}
      /\ received' = received \cup
            {[request |-> client[d].request, response |-> response] : d \in answered}
      /\ UNCHANGED <<dataset, disruptions>>
      /\ FlightEnds(c) /\ active' = Nil
  BY DEF rename, Receives, FlightEnds
<1>4. /\ client' \in [Clients -> Call]
      /\ FlightIsActive'
      /\ \A d \in Clients : client'[d] = Waiting \/ (d # c /\ client'[d] = client[d])
  BY <1>1, <1>3, FlightEndFreesTheKey
<1> HIDE DEF response, answered
<1>5. \A a \in received' : a \in received \/ a = [request |-> client[c].request,
                                                 response |-> response]
  BY <1>2, <1>3
<1>6. GeoTypeOK'
  <2>1. received' \subseteq [request: Requests, response: Responses]
    BY <1>1, <1>5 DEF GeoInv, GeoTypeOK
  <2> QED
    BY <1>1, <1>3, <1>4, <2>1 DEF GeoInv, GeoTypeOK, Call
<1>7. HandIsKnown' /\ FileIsStored'
  BY <1>3, <1>4 DEF GeoInv, HandIsKnown, FileIsStored, Waiting
<1>8. NoForeignAnswer' /\ StoredBeforeAnswered'
  BY <1>1, <1>3, <1>5 DEF GeoInv, NoForeignAnswer, StoredBeforeAnswered
<1> QED
  BY <1>4, <1>6, <1>7, <1>8 DEF GeoInv

LEMMA ComputeFailsKeeps ==
    ASSUME GeoInv, NEW c \in Clients, computeFails(c)
    PROVE  GeoInv'
<1>1. /\ active = c /\ active' = Nil
      /\ FlightEnds(c) /\ disruptions' \in 0..MaxDisruptions
      /\ UNCHANGED <<file, stored, dataset, received>>
  BY GeoAssumption
  DEF computeFails, At, Disrupts, FlightEnds, GeoInv, GeoTypeOK, FlightIsActive
<1>2. /\ client' \in [Clients -> Call]
      /\ FlightIsActive'
      /\ \A d \in Clients : client'[d] = Waiting \/ (d # c /\ client'[d] = client[d])
  BY <1>1, FlightEndFreesTheKey
<1>3. GeoTypeOK'
  BY <1>1, <1>2 DEF GeoInv, GeoTypeOK, Call
<1>4. HandIsKnown' /\ FileIsStored'
  BY <1>1, <1>2 DEF GeoInv, HandIsKnown, FileIsStored, Waiting
<1> QED
  BY <1>1, <1>2, <1>3, <1>4 DEF GeoInv, NoForeignAnswer, StoredBeforeAnswered

LEMMA CrashKeeps == GeoInv /\ ServiceCrashes => GeoInv'
<1> SUFFICES ASSUME GeoInv, ServiceCrashes PROVE GeoInv'
  OBVIOUS
<1>1. /\ active' = Nil /\ client' = [c \in Clients |-> Waiting]
      /\ disruptions' \in 0..MaxDisruptions
      /\ UNCHANGED <<dataset, received>>
  BY GeoAssumption DEF ServiceCrashes, Disrupts, GeoInv, GeoTypeOK
<1>2. /\ file' \in Responses \cup {Nil} /\ stored' \subseteq Responses
      /\ stored \subseteq stored'
      /\ FileIsStored'
  <2>1. CASE UNCHANGED <<file, stored>>
    BY <2>1 DEF GeoInv, GeoTypeOK, FileIsStored
  <2>2. CASE \E c \in Clients : /\ At(c, "persists")
                                /\ file' = client[c].found
                                /\ stored' = stored \cup {client[c].found}
    BY <2>2 DEF At, GeoInv, GeoTypeOK, HandIsKnown, FileIsStored
  <2> QED
    BY <2>1, <2>2 DEF ServiceCrashes
<1>3. GeoTypeOK'
  BY <1>1, <1>2, WaitingIsCall DEF GeoInv, GeoTypeOK, Call
<1>4. FlightIsActive' /\ HandIsKnown'
  BY <1>1, GeoAssumption DEF FlightIsActive, HandIsKnown, Waiting
<1> QED
  BY <1>1, <1>2, <1>3, <1>4 DEF GeoInv, NoForeignAnswer, StoredBeforeAnswered

-----------------------------------------------------------------------------
LEMMA GeoStepKeeps == GeoInv /\ [GeoNext]_geoVars => GeoInv'
<1> SUFFICES ASSUME GeoInv, [GeoNext]_geoVars PROVE GeoInv'
  OBVIOUS
<1>1. ASSUME NEW c \in Clients, GeoProgress(c) PROVE GeoInv'
  BY <1>1, ReadKeeps, ReplayKeeps, JoinKeeps, ComputeKeeps, ComputeResponseKeeps,
     RenameKeeps, ComputeFailsKeeps DEF GeoProgress
<1>2. ASSUME DatasetChanges PROVE GeoInv'
  <2>1. /\ dataset' \in 1..MaxDataset
        /\ UNCHANGED <<file, stored, active, client, disruptions, received>>
    BY <1>2, GeoAssumption DEF DatasetChanges, GeoInv, GeoTypeOK
  <2> QED
    BY <2>1 DEF GeoInv, GeoTypeOK, FlightIsActive, HandIsKnown, FileIsStored,
                NoForeignAnswer, StoredBeforeAnswered
<1>3. ASSUME UNCHANGED geoVars PROVE GeoInv'
  BY <1>3 DEF geoVars, GeoInv, GeoTypeOK, FlightIsActive, HandIsKnown, FileIsStored,
              NoForeignAnswer, StoredBeforeAnswered
<1> QED
  BY <1>1, <1>2, <1>3, RequestKeeps, CrashKeeps DEF GeoNext

LEMMA GeoInvariant == GeoSpec => []GeoInv
BY GeoInitial, GeoStepKeeps, PTL DEF GeoSpec

(* Whatever the races, failures and crashes, the service of one key stays  *)
(* in the states its code can name: one flight, known calls, a whole file. *)
THEOREM GeoTyped == GeoSpec => []GeoTypeOK
<1>1. GeoInv => GeoTypeOK
  BY DEF GeoInv
<1> QED
  BY <1>1, GeoInvariant, PTL

(* A client is never answered with the route of another request: the calls *)
(* that replay a file compare its request, and those that wait for a       *)
(* computation have the request it was started for.                        *)
THEOREM NoClientGetsAForeignAnswer == GeoSpec => []NoForeignAnswer
<1>1. GeoInv => NoForeignAnswer
  BY DEF GeoInv
<1> QED
  BY <1>1, GeoInvariant, PTL

(* An answer is on disk before a client has it, through the rename or the  *)
(* read of a renamed file, and no crash takes that back.                   *)
THEOREM AnswersWereStored == GeoSpec => []StoredBeforeAnswered
<1>1. GeoInv => StoredBeforeAnswered
  BY DEF GeoInv
<1> QED
  BY <1>1, GeoInvariant, PTL

-----------------------------------------------------------------------------
(* Tpeg2Source and the lease of the traffic coordinator.                   *)

FeedStates == [value: Versions, at: {"never", "fresh", "old"}]
Snapshots == [value: Versions, revision: Versions]

LEMMA VersionsTyped ==
    /\ 1..MaxProvider \subseteq Versions /\ 0 \in Versions
    /\ \A n \in 1..MaxProvider, m \in Versions : m..n \subseteq Versions
    /\ Never \in FeedStates /\ NoFetch \in Fetches
BY Tpeg2Assumption DEF Versions, Never, NoFetch, Fetches, FeedStates

(* What a refresh fetches, and what comes back.                            *)
LEMMA FetchTyped ==
    ASSUME TpegTypeOK, NEW f \in Feeds
    PROVE  Fetch(f) \in Fetches
BY VersionsTyped DEF Fetch, Fetches, TpegTypeOK

LEMMA ReceivedTyped ==
    ASSUME TpegTypeOK, NEW f \in Feeds, NEW fetch \in Fetches,
           NEW v \in fetch.since..provider[f]
    PROVE  Received(f, fetch, v) \in [Feeds -> FeedStates]
<1>1. v \in Versions
  <2>1. provider[f] \in 1..MaxProvider /\ fetch.since \in Versions
    BY DEF TpegTypeOK, Fetches
  <2> QED
    BY <2>1, VersionsTyped
<1> DEFINE new == [value |-> IF v = fetch.etag THEN feed[f].value ELSE v, at |-> "fresh"]
<1>2. feed \in [Feeds -> FeedStates]
  BY DEF TpegTypeOK, FeedStates
<1>3. new \in FeedStates
  BY <1>1, <1>2 DEF FeedStates
<1>4. Received(f, fetch, v) = [feed EXCEPT ![f] = new]
  BY DEF Received
<1> HIDE DEF new
<1> QED
  BY <1>2, <1>3, <1>4

LEMMA SnapshotTyped ==
    ASSUME NEW fd \in [Feeds -> FeedStates], NEW rev \in [Hashed -> Versions], Snapshot(fd, rev)
    PROVE  revision' \in [Hashed -> Versions] /\ snapshot' \in [Hashed -> Snapshots]
<1> DEFINE kept == [f \in Hashed |-> IF rev[f] = 0 THEN fd[f].value ELSE rev[f]]
<1>1. \A f \in Hashed : fd[f].value \in Versions
  BY DEF Hashed, Feeds, FeedStates
<1>2. kept \in [Hashed -> Versions]
  BY <1>1
<1>3. /\ revision' = kept
      /\ snapshot' = [f \in Hashed |-> [value |-> fd[f].value, revision |-> kept[f]]]
  BY DEF Snapshot
<1> HIDE DEF kept
<1> QED
  BY <1>1, <1>2, <1>3 DEF Snapshots

LEMMA TpegInitTyped == TpegInit => TpegTypeOK
<1> SUFFICES ASSUME TpegInit PROVE TpegTypeOK
  OBVIOUS
<1>1. feed \in [Feeds -> FeedStates] /\ fetching \in [Feeds -> Fetches]
  BY VersionsTyped DEF TpegInit
<1>2. /\ provider \in [Feeds -> 1..MaxProvider] /\ revision \in [Hashed -> Versions]
      /\ snapshot \in [Hashed -> Snapshots] /\ troubles \in 0..MaxTroubles
  BY Tpeg2Assumption, VersionsTyped DEF TpegInit, Snapshots
<1> QED
  BY <1>1, <1>2 DEF TpegInit, TpegTypeOK, FeedStates, Snapshots

LEMMA TpegStepTyped == TpegTypeOK /\ [TpegNext]_tpegVars => TpegTypeOK'
<1> SUFFICES ASSUME TpegTypeOK, [TpegNext]_tpegVars PROVE TpegTypeOK'
  OBVIOUS
<1>1. /\ provider \in [Feeds -> 1..MaxProvider]
      /\ feed \in [Feeds -> FeedStates]
      /\ revision \in [Hashed -> Versions]
      /\ fetching \in [Feeds -> Fetches]
      /\ orphans \subseteq [feed: Feeds, fetch: Fetches]
      /\ refreshing \in {"no", "static", "both"}
      /\ poll \in BOOLEAN /\ lease \in BOOLEAN
      /\ snapshot \in [Hashed -> Snapshots]
      /\ troubles \in 0..MaxTroubles
  BY DEF TpegTypeOK, FeedStates, Snapshots
<1> SUFFICES /\ provider' \in [Feeds -> 1..MaxProvider]
             /\ feed' \in [Feeds -> FeedStates]
             /\ revision' \in [Hashed -> Versions]
             /\ fetching' \in [Feeds -> Fetches]
             /\ orphans' \subseteq [feed: Feeds, fetch: Fetches]
             /\ refreshing' \in {"no", "static", "both"}
             /\ poll' \in BOOLEAN /\ lease' \in BOOLEAN
             /\ snapshot' \in [Hashed -> Snapshots]
             /\ troubles' \in 0..MaxTroubles
  BY DEF TpegTypeOK, FeedStates, Snapshots
<1>2. Trouble => troubles' \in 0..MaxTroubles
  BY <1>1, Tpeg2Assumption DEF Trouble
<1>3. "static" \in Feeds /\ "dynamic" \in Feeds /\ "tec" \in Feeds
      /\ Hashed \subseteq Feeds /\ "dynamic" \in Hashed /\ "static" \in Hashed
  BY DEF Feeds, Hashed
<1>4. \A S : [f \in Feeds |-> IF f \in S THEN Fetch(f) ELSE fetching[f]] \in [Feeds -> Fetches]
  BY <1>1, FetchTyped
<1>5. CASE PollFeed
  <2>1. UNCHANGED <<provider, feed, orphans, lease, troubles>>
    BY <1>5 DEF PollFeed
  <2>2. fetching' \in [Feeds -> Fetches] /\ refreshing' \in {"no", "static", "both"}
    BY <1>1, <1>4, <1>5 DEF PollFeed, refreshFeeds, FetchAll
  <2>3. poll' \in BOOLEAN /\ revision' \in [Hashed -> Versions] /\ snapshot' \in [Hashed -> Snapshots]
    BY <1>1, <1>5, SnapshotTyped DEF PollFeed
  <2> QED
    BY <1>1, <2>1, <2>2, <2>3
<1>6. CASE StaticReturns
  <2>1. feed' \in [Feeds -> FeedStates]
    BY <1>1, <1>3, <1>6, ReceivedTyped DEF StaticReturns
  <2>2. revision' \in [Hashed -> Versions]
    BY <1>1, <1>6, VersionsTyped DEF StaticReturns
  <2>3. fetching' \in [Feeds -> Fetches]
    BY <1>6, FetchTyped, VersionsTyped DEF StaticReturns
  <2> QED
    BY <1>1, <1>6, <2>1, <2>2, <2>3 DEF StaticReturns
<1>7. ASSUME NEW f \in {"dynamic", "tec"}, FirstReturns(f)
      PROVE  feed' \in [Feeds -> FeedStates] /\ fetching' \in [Feeds -> Fetches]
  BY <1>1, <1>3, <1>7, ReceivedTyped, VersionsTyped DEF FirstReturns
<1>8. ASSUME NEW f \in {"dynamic", "tec"}, SecondReturns(f)
      PROVE  /\ feed' \in [Feeds -> FeedStates] /\ fetching' \in [Feeds -> Fetches]
             /\ revision' \in [Hashed -> Versions] /\ snapshot' \in [Hashed -> Snapshots]
  <2> DEFINE reset == [revision EXCEPT !["dynamic"] = 0]
  <2>1. feed' \in [Feeds -> FeedStates] /\ fetching' \in [Feeds -> Fetches]
    BY <1>1, <1>3, <1>8, ReceivedTyped, VersionsTyped DEF SecondReturns
  <2>2. reset \in [Hashed -> Versions]
    BY <1>1, VersionsTyped
  <2>3. Snapshot(feed', reset) \/ (revision' = reset /\ UNCHANGED snapshot)
    BY <1>8 DEF SecondReturns
  <2> HIDE DEF reset
  <2>4. revision' \in [Hashed -> Versions] /\ snapshot' \in [Hashed -> Snapshots]
    BY <1>1, <2>1, <2>2, <2>3, SnapshotTyped
  <2> QED
    BY <2>1, <2>4
<1>9. ASSUME NEW f \in Feeds, FetchFails(f)
      PROVE  /\ orphans' \subseteq [feed: Feeds, fetch: Fetches]
             /\ feed' \in [Feeds -> FeedStates] /\ fetching' \in [Feeds -> Fetches]
             /\ revision' \in [Hashed -> Versions] /\ snapshot' \in [Hashed -> Snapshots]
  <2>1. fetching' \in [Feeds -> Fetches]
    BY <1>9, VersionsTyped DEF FetchFails
  <2>2. orphans' \subseteq [feed: Feeds, fetch: Fetches]
    BY <1>1, <1>9 DEF FetchFails
  <2>3. feed' \in [Feeds -> FeedStates]
    BY <1>1, <1>9 DEF FetchFails, FeedStates
  <2>4. revision' \in [Hashed -> Versions] /\ snapshot' \in [Hashed -> Snapshots]
    BY <1>1, <1>9, SnapshotTyped DEF FetchFails
  <2> QED
    BY <2>1, <2>2, <2>3, <2>4
<1>10. ASSUME NEW o \in orphans, OrphanEnds(o)
       PROVE  /\ orphans' \subseteq [feed: Feeds, fetch: Fetches]
              /\ feed' \in [Feeds -> FeedStates]
  BY <1>1, <1>10, ReceivedTyped DEF OrphanEnds
<1>11. ASSUME NEW f \in Feeds, GrowsOld(f)
       PROVE  feed' \in [Feeds -> FeedStates]
  BY <1>1, <1>11 DEF GrowsOld, FeedStates
<1>12. ASSUME NEW f \in Feeds, ProviderPublishes(f)
       PROVE  provider' \in [Feeds -> 1..MaxProvider]
  BY <1>1, <1>12, Tpeg2Assumption DEF ProviderPublishes
<1>13. CASE ServiceRestarts
  <2>1. /\ feed' \in [Feeds -> FeedStates] /\ fetching' \in [Feeds -> Fetches]
        /\ revision' \in [Hashed -> Versions]
    BY <1>13, VersionsTyped DEF ServiceRestarts
  <2> QED
    BY <1>1, <1>2, <1>13, <2>1 DEF ServiceRestarts
<1>14. CASE FetchReturns
  BY <1>1, <1>6, <1>7, <1>8, <1>14 DEF FetchReturns, FirstReturns, SecondReturns
<1>15. CASE \E f \in Feeds : FetchFails(f) \/ GrowsOld(f) \/ ProviderPublishes(f)
  BY <1>1, <1>2, <1>9, <1>11, <1>12, <1>15 DEF FetchFails, GrowsOld, ProviderPublishes
<1>16. CASE \E o \in orphans : OrphanEnds(o)
  BY <1>1, <1>10, <1>16 DEF OrphanEnds
<1>17. CASE activate \/ LeaseEnds
  BY <1>1, <1>2, <1>17 DEF activate, LeaseEnds
<1>18. CASE UNCHANGED tpegVars
  BY <1>1, <1>18 DEF tpegVars
<1> QED
  BY <1>5, <1>13, <1>14, <1>15, <1>16, <1>17, <1>18 DEF TpegNext

(* Feeds, revisions, fetches and the snapshot of the updater name versions *)
(* of the provider, whatever fails, is left behind or restarts.            *)
THEOREM TpegTyped == TpegSpec => []TpegTypeOK
BY TpegInitTyped, TpegStepTyped, PTL DEF TpegSpec

-----------------------------------------------------------------------------
(* trafficSnapshot answers an empty list for a feed that has no value      *)
(* (staticFeed.value ?? []), and ensureFresh returns at once when the      *)
(* dynamic feed is fresh: that no list is missing then rests on the order  *)
(* of the fetches, those that a failed refresh left behind included.       *)
HasValue(f) == feed[f].value # 0

FreshIsFetched == \A f \in Feeds : feed[f].at = "fresh" => HasValue(f)

(* A fetch begins with a version of the provider to come, and with the     *)
(* ETag of a value that stays.                                             *)
Began(f, fetch) == fetch.since # 0 /\ (fetch.etag # 0 => HasValue(f))

FetchesBegan == \A f \in Feeds : fetching[f] # NoFetch => Began(f, fetching[f])

OrphansBegan == \A o \in orphans : o.feed # "static" /\ Began(o.feed, o.fetch)

RefreshFetches ==
    /\ refreshing = "no" => \A f \in Feeds : fetching[f] = NoFetch
    /\ refreshing = "static" => \A f \in Feeds : fetching[f] # NoFetch <=> f = "static"
    /\ refreshing = "both" =>
         fetching["static"] = NoFetch /\ (fetching["dynamic"] = NoFetch => HasValue("dynamic"))

StaticComesFirst ==
    HasValue("dynamic") \/ refreshing = "both" \/ orphans # {} => HasValue("static")

FeedOrder == /\ FreshIsFetched /\ FetchesBegan /\ OrphansBegan
             /\ RefreshFetches /\ StaticComesFirst

FeedInv == TpegTypeOK /\ FeedOrder

LEMMA FeedNames ==
    Feeds = {"static", "dynamic", "tec"} /\ Hashed = {"static", "dynamic"}
BY DEF Feeds, Hashed

LEMMA FetchBegins ==
    ASSUME TpegTypeOK, NEW f \in Feeds
    PROVE  Fetch(f) # NoFetch /\ Began(f, Fetch(f))
<1>1. provider[f] \in 1..MaxProvider
  BY DEF TpegTypeOK
<1>2. provider[f] # 0
  BY <1>1, Tpeg2Assumption
<1> QED
  BY <1>2 DEF Fetch, NoFetch, Began, HasValue

(* What a fetch brings is a value, new or kept (304), and other feeds stay *)
(* as they are.                                                            *)
LEMMA ReceivedIsFetched ==
    ASSUME TpegTypeOK, NEW f \in Feeds, NEW fetch \in Fetches, Began(f, fetch),
           NEW v \in fetch.since..provider[f], feed' = Received(f, fetch, v)
    PROVE  /\ HasValue(f)' /\ \A g \in Feeds \ {f} : feed'[g] = feed[g]
           /\ \A g \in Feeds : HasValue(g) => HasValue(g)'
           /\ FreshIsFetched => FreshIsFetched'
<1>1. v # 0
  <2>1. provider[f] \in 1..MaxProvider /\ fetch.since \in Versions
    BY DEF TpegTypeOK, Fetches
  <2>2. provider[f] \in Nat /\ fetch.since \in Nat \ {0}
    BY <2>1, Tpeg2Assumption DEF Versions, Began
  <2> QED
    BY <2>2
<1>2. feed \in [Feeds -> FeedStates]
  BY DEF TpegTypeOK, FeedStates
<1>3. /\ feed'[f].value = (IF v = fetch.etag THEN feed[f].value ELSE v)
      /\ \A g \in Feeds \ {f} : feed'[g] = feed[g]
  BY <1>2 DEF Received
<1>4. HasValue(f)'
  BY <1>1, <1>3 DEF HasValue, Began
<1> QED
  BY <1>3, <1>4 DEF HasValue, FreshIsFetched

(* What a step must keep when no value is lost.                            *)
LEMMA BeganIsKept ==
    ASSUME \A f \in Feeds : HasValue(f) => HasValue(f)'
    PROVE  \A f \in Feeds : \A fetch : Began(f, fetch) => Began(f, fetch)'
BY DEF Began

LEMMA FeedInitInv == TpegInit => FeedInv
<1> SUFFICES ASSUME TpegInit PROVE FeedInv
  OBVIOUS
<1>1. TpegTypeOK
  BY TpegInitTyped
<1>2. \A f \in Feeds : feed[f].value = 0 /\ feed[f].at = "never" /\ fetching[f] = NoFetch
  BY DEF TpegInit, Never
<1> QED
  BY <1>1, <1>2, FeedNames DEF TpegInit, FeedInv, FeedOrder, FreshIsFetched, FetchesBegan, OrphansBegan,
     RefreshFetches, StaticComesFirst, HasValue

LEMMA PollKeepsFeed ==
    ASSUME FeedInv, PollFeed
    PROVE  FeedOrder'
<1>1. UNCHANGED <<feed, orphans>>
  BY DEF PollFeed
<1>2. \A f \in Feeds : HasValue(f)' <=> HasValue(f)
  BY <1>1 DEF HasValue
<1>3. FreshIsFetched' /\ OrphansBegan'
  BY <1>1 DEF FeedInv, FeedOrder, FreshIsFetched, OrphansBegan, HasValue, Began
<1>4. CASE UNCHANGED <<refreshing, fetching>>
  BY <1>1, <1>3, <1>4 DEF FeedInv, FeedOrder, FetchesBegan, RefreshFetches, StaticComesFirst, HasValue, Began
<1>5. CASE refreshing = "no" /\ refreshFeeds
  <2>1. \A f \in Feeds : fetching[f] = NoFetch
    BY <1>5 DEF FeedInv, FeedOrder, RefreshFetches
  <2>2. \A f \in Feeds : \A fetch : fetch = Fetch(f) => fetch # NoFetch /\ Began(f, fetch)'
    BY <1>2, FetchBegins, BeganIsKept DEF FeedInv, FeedOrder
  <2>3. CASE feed["static"].at # "fresh"
    <3>1. refreshing' = "static" /\ FetchAll({"static"})
      BY <1>5, <2>3 DEF refreshFeeds
    <3>2. \A f \in Feeds : fetching'[f] = IF f = "static" THEN Fetch(f) ELSE NoFetch
      BY <2>1, <3>1 DEF FetchAll
    <3>3. FetchesBegan' /\ RefreshFetches'
      BY <2>2, <3>1, <3>2, FeedNames DEF FetchesBegan, RefreshFetches
    <3> QED
      BY <1>1, <1>3, <3>1, <3>3 DEF FeedInv, FeedOrder, StaticComesFirst, HasValue
  <2>4. CASE feed["static"].at = "fresh"
    <3>1. refreshing' = "both" /\ FetchAll({"dynamic", "tec"})
      BY <1>5, <2>4 DEF refreshFeeds
    <3>2. \A f \in Feeds : fetching'[f] = IF f \in {"dynamic", "tec"} THEN Fetch(f) ELSE NoFetch
      BY <2>1, <3>1 DEF FetchAll
    <3>3. FetchesBegan' /\ RefreshFetches'
      BY <2>2, <3>1, <3>2, FeedNames DEF FetchesBegan, RefreshFetches
    <3>4. HasValue("static")'
      BY <1>1, <2>4, FeedNames DEF FeedInv, FeedOrder, FreshIsFetched, HasValue
    <3> QED
      BY <1>3, <3>3, <3>4 DEF FeedOrder, StaticComesFirst
  <2> QED
    BY <2>3, <2>4
<1> QED
  BY <1>4, <1>5 DEF PollFeed

LEMMA StaticKeepsFeed ==
    ASSUME FeedInv, StaticReturns
    PROVE  FeedOrder'
<1>1. refreshing' = "both" /\ orphans' = orphans /\ provider' = provider
  BY DEF StaticReturns
<1>2. fetching["static"] \in Fetches /\ Began("static", fetching["static"])
  BY FeedNames DEF FeedInv, FeedOrder, TpegTypeOK, RefreshFetches, FetchesBegan, StaticReturns
<1>3. PICK v \in fetching["static"].since..provider["static"] :
         feed' = Received("static", fetching["static"], v)
  BY DEF StaticReturns
<1>4. /\ HasValue("static")' /\ FreshIsFetched'
      /\ \A g \in Feeds : HasValue(g) => HasValue(g)'
      /\ \A g \in Feeds \ {"static"} : feed'[g] = feed[g]
  BY <1>2, <1>3, FeedNames, ReceivedIsFetched DEF FeedInv, FeedOrder
<1>5. \A f \in Feeds : \A fetch : Began(f, fetch) => Began(f, fetch)'
  BY <1>4, BeganIsKept
<1>6. \A f \in Feeds : fetching'[f] = IF f = "static" THEN NoFetch ELSE Fetch(f)
  BY DEF StaticReturns
<1>7. FetchesBegan' /\ RefreshFetches'
  BY <1>1, <1>5, <1>6, FetchBegins, FeedNames DEF FeedInv, FeedOrder, FetchesBegan, RefreshFetches
<1>8. OrphansBegan'
  BY <1>1, <1>5 DEF FeedInv, FeedOrder, TpegTypeOK, OrphansBegan
<1> QED
  BY <1>4, <1>7, <1>8 DEF FeedOrder, StaticComesFirst

(* The two others: the first, and the second which ends the refresh.       *)
LEMMA ReturnKeepsFeed ==
    ASSUME FeedInv, NEW f \in {"dynamic", "tec"}, FirstReturns(f) \/ SecondReturns(f)
    PROVE  /\ FeedOrder' /\ HasValue(f)'
           /\ \A g \in Feeds : HasValue(g) => HasValue(g)'
<1>1. /\ refreshing = "both" /\ orphans' = orphans /\ f \in Feeds /\ fetching[f] # NoFetch
      /\ fetching' = [fetching EXCEPT ![f] = NoFetch]
      /\ f # "static"
  BY FeedNames DEF FirstReturns, SecondReturns
<1>2. fetching[f] \in Fetches /\ Began(f, fetching[f]) /\ fetching \in [Feeds -> Fetches]
  BY <1>1 DEF FeedInv, FeedOrder, TpegTypeOK, FetchesBegan
<1>3. PICK v \in fetching[f].since..provider[f] : feed' = Received(f, fetching[f], v)
  BY DEF FirstReturns, SecondReturns
<1>4. /\ HasValue(f)' /\ FreshIsFetched'
      /\ \A g \in Feeds : HasValue(g) => HasValue(g)'
  BY <1>1, <1>2, <1>3, ReceivedIsFetched DEF FeedInv, FeedOrder
<1>5. \A g \in Feeds : \A fetch : Began(g, fetch) => Began(g, fetch)'
  BY <1>4, BeganIsKept
<1>6. FetchesBegan' /\ OrphansBegan'
  BY <1>1, <1>2, <1>5 DEF FeedInv, FeedOrder, TpegTypeOK, FetchesBegan, OrphansBegan
<1>7. HasValue("static")'
  BY <1>1, <1>4, FeedNames DEF FeedInv, FeedOrder, StaticComesFirst
<1>8. CASE FirstReturns(f)
  <2>1. /\ refreshing' = "both" /\ fetching'["static"] = NoFetch
        /\ fetching'["dynamic"] = NoFetch => HasValue("dynamic")'
    BY <1>1, <1>2, <1>4, <1>8, FeedNames DEF FirstReturns, FeedInv, FeedOrder, RefreshFetches
  <2> QED
    BY <1>4, <1>6, <1>7, <2>1 DEF FeedOrder, RefreshFetches, StaticComesFirst
<1>9. CASE SecondReturns(f)
  <2>1. {g \in {"dynamic", "tec"} : fetching[g] # NoFetch} = {f} /\ refreshing' = "no"
    BY <1>9 DEF SecondReturns
  <2>2. fetching["static"] = NoFetch
    BY <1>1 DEF FeedInv, FeedOrder, RefreshFetches
  <2>3. \A g \in Feeds : fetching'[g] = NoFetch
    BY <1>1, <1>2, <2>1, <2>2, FeedNames
  <2> QED
    BY <1>4, <1>6, <1>7, <2>1, <2>3 DEF FeedOrder, RefreshFetches, StaticComesFirst
<1> QED
  BY <1>8, <1>9

LEMMA FailureKeepsFeed ==
    ASSUME FeedInv, NEW f \in Feeds, FetchFails(f)
    PROVE  FeedOrder'
<1>1. /\ refreshing # "no" /\ refreshing' = "no" /\ fetching[f] # NoFetch
      /\ \A g \in Feeds : fetching'[g] = NoFetch
      /\ orphans' = orphans \cup {[feed |-> g, fetch |-> fetching[g]] :
                                     g \in {h \in Feeds \ {f} : fetching[h] # NoFetch}}
  BY DEF FetchFails
<1>2. \A g \in Feeds : feed'[g].value = feed[g].value
  <2>1. feed \in [Feeds -> FeedStates]
    BY DEF FeedInv, FeedOrder, TpegTypeOK, FeedStates
  <2> QED
    BY <2>1 DEF FetchFails, FeedStates
<1>3. \A g \in Feeds : HasValue(g)' <=> HasValue(g)
  BY <1>2 DEF HasValue
<1>4. FreshIsFetched'
  <2>1. CASE Complete(feed)
    BY <1>3, <2>1 DEF Complete, FreshIsFetched, HasValue
  <2>2. CASE ~Complete(feed)
    BY <2>2 DEF FetchFails, FeedInv, FeedOrder, FreshIsFetched, HasValue
  <2> QED
    BY <2>1, <2>2
<1>5. FetchesBegan' /\ RefreshFetches'
  BY <1>1 DEF FetchesBegan, RefreshFetches
<1>6. \A g \in Feeds : \A fetch : Began(g, fetch) => Began(g, fetch)'
  BY <1>3, BeganIsKept
<1>7. \A h \in Feeds \ {f} : fetching[h] # NoFetch => refreshing = "both" /\ h # "static"
  BY <1>1, FeedNames DEF FeedInv, FeedOrder, TpegTypeOK, RefreshFetches
<1>8. OrphansBegan'
  <2> SUFFICES ASSUME NEW o \in orphans'
               PROVE  o.feed # "static" /\ Began(o.feed, o.fetch)'
    BY DEF OrphansBegan
  <2>1. CASE o \in orphans
    BY <1>6, <2>1 DEF FeedInv, FeedOrder, TpegTypeOK, OrphansBegan
  <2>2. CASE o \notin orphans
    <3>1. PICK g \in {h \in Feeds \ {f} : fetching[h] # NoFetch} :
                 o = [feed |-> g, fetch |-> fetching[g]]
      BY <1>1, <2>2
    <3> QED
      BY <1>6, <1>7, <3>1 DEF FeedInv, FeedOrder, FetchesBegan
  <2> QED
    BY <2>1, <2>2
<1>9. StaticComesFirst'
  <2>1. orphans' # orphans => refreshing = "both"
    BY <1>1, <1>7
  <2> QED
    BY <1>1, <1>3, <2>1, FeedNames DEF FeedInv, FeedOrder, StaticComesFirst
<1> QED
  BY <1>4, <1>5, <1>8, <1>9 DEF FeedOrder

LEMMA OrphanKeepsFeed ==
    ASSUME FeedInv, NEW o \in orphans, OrphanEnds(o)
    PROVE  FeedOrder'
<1>1. /\ o.feed \in Feeds /\ o.fetch \in Fetches /\ Began(o.feed, o.fetch)
      /\ orphans' \subseteq orphans /\ UNCHANGED <<fetching, refreshing>>
      /\ HasValue("static")
  BY DEF FeedInv, FeedOrder, TpegTypeOK, OrphansBegan, OrphanEnds, StaticComesFirst
<1>2. /\ FreshIsFetched' /\ \A g \in Feeds : HasValue(g) => HasValue(g)'
  <2>1. CASE UNCHANGED feed
    BY <2>1 DEF FeedInv, FeedOrder, FreshIsFetched, HasValue
  <2>2. CASE ~UNCHANGED feed
    <3>1. PICK v \in o.fetch.since..provider[o.feed] : feed' = Received(o.feed, o.fetch, v)
      BY <2>2 DEF OrphanEnds
    <3> QED
      BY <1>1, <3>1, ReceivedIsFetched DEF FeedInv, FeedOrder
  <2> QED
    BY <2>1, <2>2
<1>3. \A g \in Feeds : \A fetch : Began(g, fetch) => Began(g, fetch)'
  BY <1>2, BeganIsKept
<1>4. FetchesBegan' /\ OrphansBegan' /\ RefreshFetches'
  BY <1>1, <1>2, <1>3, FeedNames
     DEF FeedInv, FeedOrder, TpegTypeOK, FetchesBegan, OrphansBegan, RefreshFetches
<1> QED
  BY <1>1, <1>2, <1>4, FeedNames DEF FeedOrder, StaticComesFirst

LEMMA FeedStepInv == FeedInv /\ [TpegNext]_tpegVars => FeedInv'
<1> SUFFICES ASSUME FeedInv, [TpegNext]_tpegVars PROVE FeedInv'
  OBVIOUS
<1>1. TpegTypeOK'
  BY TpegStepTyped DEF FeedInv, FeedOrder
<1> SUFFICES FeedOrder'
  BY <1>1 DEF FeedInv, FeedOrder
<1>2. ASSUME UNCHANGED <<feed, fetching, orphans, refreshing>>
      PROVE  FeedOrder'
  BY <1>2 DEF FeedInv, FeedOrder, FreshIsFetched, FetchesBegan, OrphansBegan, RefreshFetches,
              StaticComesFirst, HasValue, Began
<1>3. CASE PollFeed
  BY <1>3, PollKeepsFeed
<1>4. CASE FetchReturns
  BY <1>4, StaticKeepsFeed, ReturnKeepsFeed DEF FetchReturns
<1>5. ASSUME NEW f \in Feeds, FetchFails(f) \/ GrowsOld(f) \/ ProviderPublishes(f)
      PROVE  FeedOrder'
  <2>1. CASE GrowsOld(f)
    <3>1. /\ \A g \in Feeds : /\ feed'[g].value = feed[g].value
                              /\ feed'[g].at = "fresh" => feed[g].at = "fresh"
          /\ UNCHANGED <<fetching, orphans, refreshing>>
      <4>1. feed \in [Feeds -> FeedStates]
        BY DEF FeedInv, FeedOrder, TpegTypeOK, FeedStates
      <4> QED
        BY <2>1, <4>1 DEF GrowsOld, FeedStates
    <3>2. \A g \in Feeds : HasValue(g)' <=> HasValue(g)
      BY <3>1 DEF HasValue
    <3>3. \A g \in Feeds : \A fetch : Began(g, fetch) => Began(g, fetch)'
      BY <3>2, BeganIsKept
    <3>4. FreshIsFetched' /\ StaticComesFirst'
      BY <3>1, <3>2, FeedNames DEF FeedInv, FeedOrder, FreshIsFetched, StaticComesFirst
    <3> QED
      BY <3>1, <3>2, <3>3, <3>4, FeedNames DEF FeedInv, FeedOrder, TpegTypeOK, FetchesBegan, OrphansBegan, RefreshFetches
  <2>2. CASE ProviderPublishes(f)
    BY <1>2, <2>2 DEF ProviderPublishes
  <2>3. CASE FetchFails(f)
    BY <2>3, FailureKeepsFeed
  <2> QED
    BY <1>5, <2>1, <2>2, <2>3
<1>6. ASSUME NEW o \in orphans, OrphanEnds(o)
      PROVE  FeedOrder'
  BY <1>6, OrphanKeepsFeed
<1>7. CASE activate \/ LeaseEnds
  BY <1>2, <1>7 DEF activate, LeaseEnds
<1>8. CASE ServiceRestarts
  <2>1. /\ \A f \in Feeds : feed'[f].at = "never" /\ feed'[f].value = 0 /\ fetching'[f] = NoFetch
        /\ orphans' = {} /\ refreshing' = "no"
    BY <1>8 DEF ServiceRestarts, Never
  <2> QED
    BY <2>1, FeedNames DEF FreshIsFetched, FetchesBegan, OrphansBegan, RefreshFetches,
       StaticComesFirst, FeedOrder, HasValue
<1>9. CASE UNCHANGED tpegVars
  BY <1>2, <1>9 DEF tpegVars
<1> QED
  BY <1>3, <1>4, <1>5, <1>6, <1>7, <1>8, <1>9 DEF TpegNext

(* An answer of the feed to the updater: at once, or at the end of the     *)
(* refresh it waits for. It has both the segments and their flows.         *)
AnswersAreWhole ==
    [][snapshot' # snapshot \/ (PollFeed /\ ~poll')
       => \A f \in Hashed : snapshot'[f].value # 0]_tpegVars

LEMMA SnapshotIsWhole ==
    ASSUME NEW fd, NEW rev, Snapshot(fd, rev), \A f \in Hashed : fd[f].value # 0
    PROVE  \A f \in Hashed : snapshot'[f].value # 0
<1>1. \A f \in Hashed : snapshot'[f].value = fd[f].value
  BY DEF Snapshot
<1> QED
  BY <1>1

LEMMA AnswerStepWhole ==
    ASSUME FeedInv, TpegNext, snapshot' # snapshot \/ (PollFeed /\ ~poll')
    PROVE  \A f \in Hashed : snapshot'[f].value # 0
<1>1. CASE PollFeed
  <2>1. feed["dynamic"].at = "fresh" \/ Complete(feed)
    <3>1. CASE snapshot' # snapshot
      BY <1>1, <3>1 DEF PollFeed
    <3>2. CASE ~poll'
      BY <1>1, <3>2 DEF PollFeed
    <3> QED
      BY <3>1, <3>2, FeedNames
  <2>2. Snapshot(feed, revision)
    BY <1>1, <2>1 DEF PollFeed
  <2>3. \A f \in Hashed : feed[f].value # 0
    BY <2>1, FeedNames DEF FeedInv, FeedOrder, FreshIsFetched, StaticComesFirst, HasValue, Complete
  <2> QED
    BY <2>2, <2>3, SnapshotIsWhole
<1>2. ASSUME NEW f \in {"dynamic", "tec"}, SecondReturns(f), snapshot' # snapshot
      PROVE  \A g \in Hashed : snapshot'[g].value # 0
  <2>1. PICK rev : Snapshot(feed', rev)
    BY <1>2 DEF SecondReturns
  <2>2. HasValue(f)' /\ (HasValue("static") => HasValue("static")')
        /\ (HasValue("dynamic") => HasValue("dynamic")')
    BY <1>2, ReturnKeepsFeed, FeedNames
  <2>3. StaticComesFirst' /\ HasValue("static")
    BY <1>2, ReturnKeepsFeed DEF FeedInv, FeedOrder, StaticComesFirst, SecondReturns
  <2>4. HasValue("dynamic")'
    <3>1. f = "dynamic" \/ fetching["dynamic"] = NoFetch
      BY <1>2 DEF SecondReturns
    <3> QED
      BY <1>2, <2>2, <3>1 DEF SecondReturns, FeedInv, FeedOrder, RefreshFetches
  <2> QED
    BY <2>1, <2>2, <2>3, <2>4, SnapshotIsWhole, FeedNames DEF HasValue
<1>3. ASSUME NEW f \in Feeds, FetchFails(f), snapshot' # snapshot
      PROVE  \A g \in Hashed : snapshot'[g].value # 0
  <2>1. Complete(feed) /\ Snapshot(feed, revision)
    BY <1>3 DEF FetchFails
  <2> QED
    BY <2>1, SnapshotIsWhole, FeedNames DEF Complete
<1>4. \/ PollFeed
      \/ \E f \in {"dynamic", "tec"} : SecondReturns(f) /\ snapshot' # snapshot
      \/ \E f \in Feeds : FetchFails(f) /\ snapshot' # snapshot
  BY DEF TpegNext, FetchReturns, StaticReturns, FirstReturns, OrphanEnds, GrowsOld,
         ProviderPublishes, activate, LeaseEnds, ServiceRestarts
<1> QED
  BY <1>1, <1>2, <1>3, <1>4

(* For any provider and any failures: whenever the updater is answered, it *)
(* is answered segments and flows, although ensureFresh looks at the       *)
(* dynamic feed alone and a missing list would be answered as an empty one.*)
THEOREM UpdaterGetsWholeFeed == TpegSpec => AnswersAreWhole
<1>1. FeedInv /\ [TpegNext]_tpegVars
      => [snapshot' # snapshot \/ (PollFeed /\ ~poll')
            => \A f \in Hashed : snapshot'[f].value # 0]_tpegVars
  BY AnswerStepWhole
<1> QED
  BY <1>1, FeedInitInv, FeedStepInv, PTL DEF TpegSpec, AnswersAreWhole
=================================================================================
