-------------------------- MODULE MCWebhookDelivery --------------------------
(* Instances of WebhookDelivery: three events, two replicas, two attempts, batches of two. *)
EXTENDS WebhookDelivery

CONSTANTS d1, d2, d3, r1, r2

MCDeliveries == {d1, d2, d3}
MCReplicas == {r1, r2}
MCFaults == FaultKind
==============================================================================
