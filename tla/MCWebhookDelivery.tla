-------------------------- MODULE MCWebhookDelivery --------------------------
(***************************************************************************)
(* Instances of WebhookDelivery: every event goes to both endpoints; n1    *)
(* allows two attempts at first, n2 one.                                   *)
(***************************************************************************)
EXTENDS WebhookDelivery

CONSTANTS n1, n2

MCSubscribers == [e \in Event |-> Endpoint]
MCMaxAttempts == [n \in Endpoint |-> IF n = n1 THEN 2 ELSE 1]
=============================================================================
