-------------------------- MODULE MCWebhookDelivery --------------------------
(* WebhookDelivery with the symmetry set of its safety run. *)
EXTENDS WebhookDelivery, TLC

Symmetry == Permutations(Procs)
=============================================================================
