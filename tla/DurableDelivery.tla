--------------------------- MODULE DurableDelivery ---------------------------
(***************************************************************************)
(* What the publisher promises for every event handed to it, without       *)
(* queues, retries or files: an event is first recorded durably, only then *)
(* can it reach the COP, it is never forgotten before the COP has it       *)
(* unless an operator asked for the queue to be cleared, and the COP never *)
(* loses it again.                                                         *)
(*                                                                         *)
(* PublisherQueue implements this specification (PublisherQueue!Delivery). *)
(***************************************************************************)
CONSTANT Events

VARIABLES
    fate,      \* fate[e]: where the event stands
    waived     \* the events an operator asked to discard

deliveryVars == <<fate, waived>>

Fates == {"absent", "recorded", "delivered", "discarded"}

DeliveryTypeOK ==
    /\ fate \in [Events -> Fates]
    /\ waived \subseteq Events

DeliveryInit ==
    /\ fate = [e \in Events |-> "absent"]
    /\ waived = {}

\* A step may move several events: one write of the store covers the whole queue.
Moves(e) ==
    \/ fate'[e] = fate[e]
    \/ fate[e] = "absent"    /\ fate'[e] = "recorded"
    \/ fate[e] = "recorded"  /\ fate'[e] = "delivered"
    \* only what an operator gave up leaves the store undelivered ...
    \/ fate[e] \in {"absent", "recorded"} /\ fate'[e] = "discarded" /\ e \in waived'
    \* ... and a request already under way may still arrive
    \/ fate[e] = "discarded" /\ fate'[e] = "delivered"

DeliveryNext ==
    /\ fate' \in [Events -> Fates]
    /\ waived' \subseteq Events
    /\ \A e \in Events : Moves(e)

DeliverySpec == DeliveryInit /\ [][DeliveryNext]_deliveryVars
=============================================================================
