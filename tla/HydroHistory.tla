----------------------------- MODULE HydroHistory -----------------------------
(***************************************************************************)
(* ChmiHydroHistoryStore of safety-data-api: the history of one station, a *)
(* file of one line per record. Requests for the map and for the detail    *)
(* persist the payloads they fetched, each behind the writes queued before *)
(* it: read the file, then append what it lacks.                           *)
(*                                                                         *)
(* Abstractions: a record is its key (series and time); of a line only     *)
(* matters whether it parses; appendFile is cut after any whole record,    *)
(* within one, or before a newline, when the disk is full or the process   *)
(* ends. readStationRecords, which is not queued, is left out. The         *)
(* institute is assumed to name no time of a series twice in one payload.  *)
(***************************************************************************)
EXTENDS Naturals, SequencesExt

CONSTANTS
    Records,        \* the keys of the records
    Payloads,       \* what the institute answers for a station: sequences of keys
    Persists,       \* the calls of persistStationRecords that may be open at once
    Broken,         \* a line that does not parse
    MaxCuts         \* bound: appends that are cut

ASSUME HydroAssumption ==
    /\ Payloads \subseteq Seq(Records) \ {<<>>}
    /\ \A payload \in Payloads : IsInjective(payload)
    /\ Broken \notin Records /\ MaxCuts \in Nat

VARIABLES
    lines,      \* the lines of the file
    open,       \* the last line has no newline
    queue,      \* writeQueues: the calls in the order they write, the head runs
    write,      \* the payload of each call, and what it is to append once it has read
    cuts        \* how much of MaxCuts is used

hydroVars == <<lines, open, queue, write, cuts>>

NotOpen == [payload |-> <<>>, read |-> FALSE, fresh |-> <<>>]

HydroTypeOK ==
    /\ lines \in Seq(Records \cup {Broken})
    /\ open \in BOOLEAN /\ (open => lines # <<>>)
    /\ queue \in Seq(Persists) /\ IsInjective(queue)
    /\ write \in [Persists -> [payload: Payloads \cup {<<>>}, read: BOOLEAN,
                               fresh: Seq(Records)]]
    /\ cuts \in 0..MaxCuts

HydroInit ==
    /\ lines = <<>> /\ open = FALSE
    /\ queue = <<>>
    /\ write = [p \in Persists |-> NotOpen]
    /\ cuts = 0

-----------------------------------------------------------------------------
(* parseRecord drops the lines that do not parse. *)
Readable == {lines[i] : i \in DOMAIN lines} \ {Broken}

(* A text put behind a line without newline makes one broken line of both. *)
Behind(ls, isOpen, rs) ==
    IF isOpen /\ rs # <<>> THEN Front(ls) \o <<Broken>> \o Tail(rs) ELSE ls \o rs

appendFile(rs) == lines' = Behind(lines, open, rs) /\ open' = (open /\ rs = <<>>)

(* n records are written whole, and of the next nothing, a part, or all    *)
(* but the newline.                                                        *)
appendFileCut(rs) ==
    \E n \in 0..(Len(rs) - 1) :
        LET whole == Behind(lines, open, SubSeq(rs, 1, n))
            still == open /\ n = 0
        IN  \/ lines' = whole /\ open' = still
            \/ \E rest \in {Broken, rs[n + 1]} :
                  lines' = Behind(whole, still, <<rest>>) /\ open' = TRUE

\* Mutant: a call that has settled stays in the queue.
QueueKept(p) == UNCHANGED queue /\ write' = [write EXCEPT ![p] = NotOpen]

(* finally, and the turn of the next call in the queue: only its head runs. *)
Settles(p) ==
    /\ queue' = Tail(queue)
    /\ write' = [write EXCEPT ![p] = NotOpen]

-----------------------------------------------------------------------------
persistStationRecords(p, payload) ==
    /\ write[p] = NotOpen
    /\ write' = [write EXCEPT ![p].payload = payload]
    /\ queue' = Append(queue, p)
    /\ UNCHANGED <<lines, open, cuts>>

(* records.filter: what the file lacks, in the order of the payload. *)
Missing(payload) ==
    LET lacked == {i \in DOMAIN payload : payload[i] \notin Readable}
        order == CHOOSE f \in [1..Cardinality(lacked) -> lacked] :
                     \A m, n \in DOMAIN f : m < n => f[m] < f[n]
    IN  [n \in DOMAIN order |-> payload[order[n]]]

\* Mutant: a call reads the file without waiting for those before it.
NoQueue(p) ==
    /\ write[p] # NotOpen /\ ~write[p].read
    /\ write' = [write EXCEPT ![p].read = TRUE, ![p].fresh = Missing(write[p].payload)]
    /\ UNCHANGED <<lines, open, queue, cuts>>

\* Mutant: a line that does not parse makes the read fail.
BrokenLineThrows(p) ==
    /\ queue # <<>> /\ Head(queue) = p /\ ~write[p].read
    /\ IF \E i \in DOMAIN lines : lines[i] = Broken
       THEN Settles(p)
       ELSE /\ write' = [write EXCEPT ![p].read = TRUE,
                                      ![p].fresh = Missing(write[p].payload)]
            /\ UNCHANGED queue
    /\ UNCHANGED <<lines, open, cuts>>

(* writeStationRecords up to appendFile; the write before it may have      *)
(* failed, which is caught.                                                *)
readExisting(p) ==
    /\ queue # <<>> /\ Head(queue) = p /\ ~write[p].read
    /\ write' = [write EXCEPT ![p].read = TRUE, ![p].fresh = Missing(write[p].payload)]
    /\ UNCHANGED <<lines, open, queue, cuts>>

appendRecords(p) ==
    /\ write[p].read
    /\ appendFile(write[p].fresh)
    /\ Settles(p)
    /\ UNCHANGED cuts

Cut == cuts < MaxCuts /\ cuts' = cuts + 1

appendFails(p) ==
    /\ write[p].read
    /\ appendFileCut(write[p].fresh)
    /\ Settles(p)
    /\ Cut

(* The process ends, with or without a part of the running append. *)
HydroCrashes ==
    /\ Cut
    /\ \/ UNCHANGED <<lines, open>>
       \/ \E p \in Persists : write[p].read /\ appendFileCut(write[p].fresh)
    /\ queue' = <<>>
    /\ write' = [p \in Persists |-> NotOpen]

writeStationRecords(p) == readExisting(p) \/ appendRecords(p)

HydroNext ==
    \/ \E p \in Persists :
          \/ \E payload \in Payloads : persistStationRecords(p, payload)
          \/ writeStationRecords(p) \/ appendFails(p)
    \/ HydroCrashes

HydroSpec == HydroInit /\ [][HydroNext]_hydroVars

-----------------------------------------------------------------------------
(* "data se deduplikují podle série a času": the map and the detail, which *)
(* persist overlapping payloads of one station at once, never leave two    *)
(* lines with one key, after torn appends either.                          *)
OneLinePerKey ==
    \A i, j \in DOMAIN lines : lines[i] = lines[j] /\ lines[i] # Broken => i = j

(* A record the institute goes on answering is in the history for good at  *)
(* last, whatever appends were torn, glued to the next one or repeated.    *)
EveryRecordReadable ==
    \A k \in Records :
        []<>(\E p \in Persists : k \in {write[p].payload[i] : i \in DOMAIN write[p].payload})
        => <>[](k \in Readable)
================================================================================
