-------------------------- MODULE SharedResponseCache --------------------------
(***************************************************************************)
(* ManagedResponseCache of situation-data-api: the processes of the        *)
(* service keep their own entries and share some through Redis. A caller   *)
(* that finds no fresh entry reads Redis, may then load, and the load      *)
(* writes Redis before its promise is settled; at each of these awaits the *)
(* other callers and processes go on.                                      *)
(*                                                                         *)
(* Abstractions: one key, since keys interact by eviction alone, which may *)
(* take the entry at any time; a load is named by the caller that started  *)
(* it. Of a value only the time it was loaded at is kept.                  *)
(***************************************************************************)
EXTENDS ServiceClock

CONSTANTS
    Callers, Processes,
    Home,                   \* the process each caller has reached
    TtlS, StaleIfErrorS,    \* the options of the cache
    Nobody, Nothing,
    MaxDisturbances         \* bound: evictions, restarts and failures of Redis

ASSUME SharedCacheAssumption ==
    /\ TtlS \in Nat /\ StaleIfErrorS \in Nat /\ MaxDisturbances \in Nat
    /\ Home \in [Callers -> Processes] /\ Nobody \notin Callers

VARIABLES
    local,      \* entries, by process
    redis,      \* the shared entry
    running,    \* inflight, by process: the caller that started the load
    caller,     \* what each caller is doing
    disturbed,  \* how much of MaxDisturbances is used
    overdue     \* history: a cache answered a value past its stale time

sharedState == <<local, redis, running, caller, disturbed, overdue>>
sharedVars == <<sharedState, now>>

Entry == [loaded: Nat, expires: Nat, until: Nat]
Idle == [pc |-> "idle", seen |-> Nothing, load |-> Nobody]

SharedTypeOK ==
    /\ local \in [Processes -> Entry \cup {Nothing}]
    /\ redis \in Entry \cup {Nothing}
    /\ running \in [Processes -> Callers \cup {Nobody}]
    /\ caller \in [Callers -> [pc: {"idle", "asks", "reads", "loads", "writes", "waits"},
                               seen: Entry \cup {Nothing},
                               load: Callers \cup {Nobody}]]
    /\ disturbed \in 0..MaxDisturbances
    /\ overdue \in BOOLEAN

SharedInit ==
    /\ local = [p \in Processes |-> Nothing]
    /\ redis = Nothing
    /\ running = [p \in Processes |-> Nobody]
    /\ caller = [c \in Callers |-> Idle]
    /\ disturbed = 0
    /\ overdue = FALSE
    /\ now = 0

-----------------------------------------------------------------------------
FreshS(e) == e # Nothing /\ e.expires > now
UsableS(e) == e # Nothing /\ e.until > now

Disturb == disturbed < MaxDisturbances /\ disturbed' = disturbed + 1

AnsweredFromCache(e) ==
    overdue' = (overdue \/ now - e.loaded >= TtlS + StaleIfErrorS)

Step(c, s) == caller' = [caller EXCEPT ![c].pc = s]
Waits(c, d) == caller' = [caller EXCEPT ![c] = [Idle EXCEPT !.pc = "waits", !.load = d]]

\* Mutant: the load stays in inflight.
RunningKept(c) ==
    /\ caller' = [d \in Callers |->
                     IF d = c \/ caller[d].load = c THEN Idle ELSE caller[d]]
    /\ UNCHANGED running

(* The promise of the load of c is settled: those who joined it go on. *)
Finally(c) ==
    /\ running' = [running EXCEPT ![Home[c]] = Nobody]
    /\ caller' = [d \in Callers |->
                     IF d = c \/ caller[d].load = c THEN Idle ELSE caller[d]]

-----------------------------------------------------------------------------
(* getOrLoad up to its first await *)
getOrLoadShared(c) ==
    LET p == Home[c] IN
    /\ caller[c].pc = "idle"
    /\ \/ /\ FreshS(local[p])
          /\ AnsweredFromCache(local[p])
          /\ UNCHANGED caller
       \/ /\ ~FreshS(local[p]) /\ running[p] # Nobody
          /\ Waits(c, running[p])
          /\ UNCHANGED overdue
       \/ /\ ~FreshS(local[p]) /\ running[p] = Nobody
          /\ Step(c, "asks")
          /\ UNCHANGED overdue
    /\ UNCHANGED <<local, redis, running, disturbed, now>>

(* Redis answers with what it holds; an error reads as nothing. *)
redisGets(c) ==
    /\ caller[c].pc = "asks"
    /\ \/ caller' = [caller EXCEPT ![c].pc = "reads", ![c].seen = redis]
          /\ UNCHANGED disturbed
       \/ Step(c, "reads") /\ Disturb
    /\ UNCHANGED <<local, redis, running, overdue, now>>

\* Mutant: the value from Redis is stored as if it had just been loaded.
SharedHitRenewed(c) ==
    LET e == caller[c].seen IN
    /\ FreshS(e)
    /\ local' = [local EXCEPT ![Home[c]] =
                    [e EXCEPT !.expires = now + TtlS, !.until = now + TtlS + StaleIfErrorS]]
    /\ AnsweredFromCache(e)
    /\ caller' = [caller EXCEPT ![c] = Idle]
    /\ UNCHANGED running

(* The shared entry is stored as it is, whatever was stored meanwhile. *)
SharedHit(c) ==
    LET e == caller[c].seen IN
    /\ FreshS(e)
    /\ local' = [local EXCEPT ![Home[c]] = e]
    /\ AnsweredFromCache(e)
    /\ caller' = [caller EXCEPT ![c] = Idle]
    /\ UNCHANGED running

\* Mutant: a load that another caller started meanwhile is not joined.
LoadsAgain(c) ==
    /\ ~FreshS(caller[c].seen)
    /\ Step(c, "loads")
    /\ running' = [running EXCEPT ![Home[c]] = c]
    /\ UNCHANGED <<local, overdue>>

(* No fresh entry in Redis: only inflight is looked at again. *)
JoinOrLoad(c) ==
    /\ ~FreshS(caller[c].seen)
    /\ \/ /\ running[Home[c]] # Nobody
          /\ Waits(c, running[Home[c]])
          /\ UNCHANGED running
       \/ /\ running[Home[c]] = Nobody
          /\ Step(c, "loads")
          /\ running' = [running EXCEPT ![Home[c]] = c]
    /\ UNCHANGED <<local, overdue>>

readSharedEntry(c) ==
    /\ caller[c].pc = "reads"
    /\ SharedHit(c) \/ JoinOrLoad(c)
    /\ UNCHANGED <<redis, disturbed, now>>

-----------------------------------------------------------------------------
Loaded == [loaded |-> now, expires |-> now + TtlS, until |-> now + TtlS + StaleIfErrorS]

storeEntry(c) ==
    /\ caller[c].pc = "loads"
    /\ local' = [local EXCEPT ![Home[c]] = Loaded]
    /\ caller' = [caller EXCEPT ![c].pc = "writes", ![c].seen = Loaded]
    /\ UNCHANGED <<redis, running, disturbed, overdue, now>>

(* With PX: Redis drops the entry when its time is up. *)
writeSharedEntry(c) ==
    /\ caller[c].pc = "writes"
    /\ \/ /\ redis' = IF UsableS(caller[c].seen) THEN caller[c].seen ELSE Nothing
          /\ UNCHANGED disturbed
       \/ Disturb /\ UNCHANGED redis
    /\ Finally(c)
    /\ UNCHANGED <<local, overdue, now>>

(* stale-if-error, from the local or the shared entry, or the error. *)
StaleOrError(c) ==
    \/ /\ UsableS(local[Home[c]])
       /\ AnsweredFromCache(local[Home[c]])
       /\ UNCHANGED local
    \/ /\ ~UsableS(local[Home[c]]) /\ UsableS(caller[c].seen)
       /\ local' = [local EXCEPT ![Home[c]] = caller[c].seen]
       /\ AnsweredFromCache(caller[c].seen)
    \/ /\ ~UsableS(local[Home[c]]) /\ ~UsableS(caller[c].seen)
       /\ UNCHANGED <<local, overdue>>

sharedLoadFails(c) ==
    /\ caller[c].pc = "loads"
    /\ StaleOrError(c)
    /\ Finally(c)
    /\ UNCHANGED <<redis, disturbed, now>>

-----------------------------------------------------------------------------
EvictEntry(p) ==
    /\ local[p] # Nothing
    /\ Disturb
    /\ local' = [local EXCEPT ![p] = Nothing]
    /\ UNCHANGED <<redis, running, caller, overdue, now>>

(* A process restarts, and its callers lose their connection. *)
ProcessRestarts(p) ==
    /\ Disturb
    /\ local' = [local EXCEPT ![p] = Nothing]
    /\ running' = [running EXCEPT ![p] = Nobody]
    /\ caller' = [c \in Callers |-> IF Home[c] = p THEN Idle ELSE caller[c]]
    /\ UNCHANGED <<redis, overdue, now>>

TimePasses ==
    /\ ClockTicks
    /\ redis' = IF redis # Nothing /\ redis.until <= now' THEN Nothing ELSE redis
    /\ UNCHANGED <<local, running, caller, disturbed, overdue>>

SharedProgress(c) ==
    \/ redisGets(c) \/ readSharedEntry(c)
    \/ storeEntry(c) \/ sharedLoadFails(c) \/ writeSharedEntry(c)

SharedNext ==
    \/ \E c \in Callers : getOrLoadShared(c) \/ SharedProgress(c)
    \/ \E p \in Processes : EvictEntry(p) \/ ProcessRestarts(p)
    \/ TimePasses

SharedSpec == SharedInit /\ [][SharedNext]_sharedVars

-----------------------------------------------------------------------------
(* However often a value is copied between processes, and whichever of the *)
(* two stale copies is answered after a failed load, no cache answers a    *)
(* value older than ttl + staleIfError since it was loaded.                *)
NeverTooOld == ~overdue

(* Concurrent misses of one process make one load, though callers lose     *)
(* sight of each other while they read Redis.                              *)
OneLoadPerProcess ==
    \A c, d \in Callers :
        /\ {caller[c].pc, caller[d].pc} \subseteq {"loads", "writes"}
        /\ Home[c] = Home[d]
        => c = d

(* Every caller gets an answer or an error: no load ends without those     *)
(* that joined it.                                                         *)
CallersAnswered == \A c \in Callers : caller[c].pc # "idle" ~> caller[c].pc = "idle"
================================================================================
