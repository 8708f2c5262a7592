------------------------------ MODULE GeoRouting ------------------------------
(***************************************************************************)
(* idempotentCompute of geo-routing.ts: the requests of one service        *)
(* identity that carry one Idempotency-Key. The first one computes a route *)
(* and stores it; the later ones replay it or are refused.                 *)
(*                                                                         *)
(* Abstractions: a request is its hash, a response the request it was      *)
(* computed for and the routing dataset it was computed on; the storage    *)
(* key is one file. The rate limit is left out.                            *)
(***************************************************************************)
EXTENDS Naturals

CONSTANTS
    Clients, Requests,
    Nil,
    MaxDataset, MaxDisruptions      \* bounds: weekly datasets, faults and crashes

ASSUME GeoAssumption ==
    /\ MaxDataset \in Nat \ {0} /\ MaxDisruptions \in Nat
    /\ Nil \notin Clients /\ Nil \notin Requests

VARIABLES
    file,       \* the stored response, if the file exists
    stored,     \* history: every response that was renamed into place
    active,     \* inFlight: the client whose computation is awaited
    client,     \* what each client's call is doing
    dataset,    \* the routing dataset Valhalla answers from
    disruptions,\* how much of MaxDisruptions is used
    received    \* history: what clients were answered: request and response

geoVars == <<file, stored, active, client, dataset, disruptions, received>>

Responses == [request: Requests, dataset: 1..MaxDataset]
Waiting == [pc |-> "idle", request |-> Nil, found |-> Nil, joined |-> Nil]

GeoTypeOK ==
    /\ file \in Responses \cup {Nil}
    /\ stored \subseteq Responses
    /\ active \in Clients \cup {Nil}
    /\ client \in [Clients -> [pc: {"idle", "opens", "reads", "joins", "computes", "persists"},
                               request: Requests \cup {Nil},
                               found: Responses \cup {Nil},
                               joined: Clients \cup {Nil}]]
    /\ dataset \in 1..MaxDataset
    /\ disruptions \in 0..MaxDisruptions
    /\ received \subseteq [request: Requests, response: Responses]

GeoInit ==
    /\ file = Nil /\ stored = {}
    /\ active = Nil
    /\ client = [c \in Clients |-> Waiting]
    /\ dataset = 1
    /\ disruptions = 0
    /\ received = {}

-----------------------------------------------------------------------------
At(c, s) == client[c].pc = s
Becomes(c, s) == client' = [client EXCEPT ![c].pc = s]
Released(c) == client' = [client EXCEPT ![c] = Waiting]
Receives(S, r) ==
    received' = received \cup {[request |-> client[d].request, response |-> r] : d \in S}
Disrupts == disruptions < MaxDisruptions /\ disruptions' = disruptions + 1

Joiners(c) == {d \in Clients : client[d].joined = c}

(* finally: the flight is deleted, and those who joined it are answered. *)
FlightEnds(c) ==
    /\ active' = Nil
    /\ client' = [d \in Clients |->
                     IF d = c \/ client[d].joined = c THEN Waiting ELSE client[d]]

-----------------------------------------------------------------------------
Request(c, r) ==
    /\ At(c, "idle")
    /\ client' = [client EXCEPT ![c] = [Waiting EXCEPT !.pc = "opens", !.request = r]]
    /\ UNCHANGED <<file, stored, active, dataset, disruptions, received>>

(* The file is read by another thread: the call goes on later. *)
readStored(c) ==
    /\ At(c, "opens")
    /\ client' = [client EXCEPT ![c].pc = "reads", ![c].found = file]
    /\ UNCHANGED <<file, stored, active, dataset, disruptions, received>>

\* Mutant: the hash of the stored request is not compared.
ReplaysAnything(c) ==
    /\ At(c, "reads")
    /\ client[c].found # Nil
    /\ Receives({c}, client[c].found)
    /\ Released(c)
    /\ UNCHANGED <<file, stored, active, dataset, disruptions>>

(* A stored response is replayed, or the key was used for another request. *)
replay(c) ==
    /\ At(c, "reads")
    /\ client[c].found # Nil
    /\ IF client[c].found.request = client[c].request
       THEN Receives({c}, client[c].found)
       ELSE UNCHANGED received
    /\ Released(c)
    /\ UNCHANGED <<file, stored, active, dataset, disruptions>>

join(c) ==
    /\ At(c, "reads")
    /\ client[c].found = Nil /\ active # Nil
    /\ \/ /\ client[active].request = client[c].request
          /\ client' = [client EXCEPT ![c].pc = "joins", ![c].joined = active]
       \/ /\ client[active].request # client[c].request
          /\ Released(c)
    /\ UNCHANGED <<file, stored, active, dataset, disruptions, received>>

compute(c) ==
    /\ At(c, "reads")
    /\ client[c].found = Nil /\ active = Nil
    /\ active' = c
    /\ Becomes(c, "computes")
    /\ UNCHANGED <<file, stored, dataset, disruptions, received>>

computeResponse(c) ==
    /\ At(c, "computes")
    /\ client' = [client EXCEPT ![c].pc = "persists",
                     ![c].found = [request |-> client[c].request, dataset |-> dataset]]
    /\ UNCHANGED <<file, stored, active, dataset, disruptions, received>>

\* Mutant: the response is answered while it is still being written.
AnswersBeforeRename(c) ==
    /\ At(c, "persists")
    /\ Receives({c} \cup Joiners(c), client[c].found)
    /\ FlightEnds(c)
    /\ UNCHANGED <<file, stored, dataset, disruptions>>

(* The temporary file is complete before it takes its name. *)
rename(c) ==
    /\ At(c, "persists")
    /\ file' = client[c].found
    /\ stored' = stored \cup {client[c].found}
    /\ Receives({c} \cup Joiners(c), client[c].found)
    /\ FlightEnds(c)
    /\ UNCHANGED <<dataset, disruptions>>

(* Valhalla or the file system fails: all who wait get the error. *)
computeFails(c) ==
    /\ At(c, "computes") \/ At(c, "persists")
    /\ Disrupts
    /\ FlightEnds(c)
    /\ UNCHANGED <<file, stored, dataset, received>>

(* The service ends, before or after the rename, and starts again. *)
ServiceCrashes ==
    /\ Disrupts
    /\ active' = Nil
    /\ client' = [c \in Clients |-> Waiting]
    /\ \/ UNCHANGED <<file, stored>>
       \/ \E c \in Clients :
             /\ At(c, "persists")
             /\ file' = client[c].found
             /\ stored' = stored \cup {client[c].found}
    /\ UNCHANGED <<dataset, received>>

DatasetChanges ==
    /\ dataset < MaxDataset
    /\ dataset' = dataset + 1
    /\ UNCHANGED <<file, stored, active, client, disruptions, received>>

GeoProgress(c) ==
    \/ readStored(c) \/ replay(c) \/ join(c) \/ compute(c)
    \/ computeResponse(c) \/ rename(c) \/ computeFails(c)

GeoNext ==
    \/ \E c \in Clients, r \in Requests : Request(c, r)
    \/ \E c \in Clients : GeoProgress(c)
    \/ ServiceCrashes
    \/ DatasetChanges

GeoSpec == GeoInit /\ [][GeoNext]_geoVars

-----------------------------------------------------------------------------
(* No client is answered with the route of another request, however the    *)
(* requests race for the key: those that join a computation, replay its    *)
(* file, or find the key taken while they were reading.                    *)
NoForeignAnswer == \A a \in received : a.response.request = a.request

(* What a client was answered had been stored before, whole: a backend     *)
(* that repeats its request after a crash of SIM can get it again.         *)
StoredBeforeAnswered == \A a \in received : a.response \in stored

(* "identical actor/key/request: return the original snapshot"             *)
OneSnapshotPerKey == \A a, b \in received : a.response = b.response
================================================================================
