-------------------------- MODULE MCWebhookDelivery --------------------------
(* Instances of WebhookDelivery for TLC. *)
EXTENDS WebhookDelivery, TLC

CONSTANTS d1, d2

\* One event with two handlers, one that nobody handles.
TwoAndNone == (d1 :> 2) @@ (d2 :> 0)
=============================================================================
