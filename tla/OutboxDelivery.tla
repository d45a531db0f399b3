--------------------------- MODULE OutboxDelivery ---------------------------
(***************************************************************************)
(* What the outbox promises about an event: it is queued once, its handler *)
(* may run any number of times, it is acknowledged only after a handler    *)
(* run completed, and once acknowledged or given up it stays so.           *)
(***************************************************************************)
CONSTANT Events

VARIABLES
    fate,      \* fate[e]: "absent", "queued", "acknowledged" or "given up"
    delivered  \* events whose handler completed at least once

deliveryVars == <<fate, delivered>>

DeliveryInit ==
    /\ fate = [e \in Events |-> "absent"]
    /\ delivered = {}

Queue(e) ==
    /\ fate[e] = "absent"
    /\ fate' = [fate EXCEPT ![e] = "queued"]
    /\ UNCHANGED delivered

Deliver(e) ==
    /\ fate[e] # "absent"
    /\ delivered' = delivered \cup {e}
    /\ UNCHANGED fate

Acknowledge(e) ==
    /\ fate[e] = "queued"
    /\ e \in delivered
    /\ fate' = [fate EXCEPT ![e] = "acknowledged"]
    /\ UNCHANGED delivered

GiveUp(e) ==
    /\ fate[e] = "queued"
    /\ fate' = [fate EXCEPT ![e] = "given up"]
    /\ UNCHANGED delivered

DeliveryNext ==
    \E e \in Events : Queue(e) \/ Deliver(e) \/ Acknowledge(e) \/ GiveUp(e)

Delivery == DeliveryInit /\ [][DeliveryNext]_deliveryVars
=============================================================================
