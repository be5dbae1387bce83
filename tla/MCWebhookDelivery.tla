------------------------- MODULE MCWebhookDelivery -------------------------
(* WebhookDelivery with the code's attempts, deadline, timeout and backoffs, *)
(* and answers that come at once or at the last moment.                      *)
EXTENDS WebhookDelivery
=============================================================================
