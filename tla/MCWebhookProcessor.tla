------------------------- MODULE MCWebhookProcessor -------------------------
(* Small instances of WebhookProcessor: who writes the events, and the     *)
(* symmetry of the workers.                                                *)
EXTENDS WebhookProcessor, TLC

CONSTANTS ana, e1, e2

(* Every event is of one contact: two contacts share nothing but the queue.*)
Writers == [e \in Events |-> ana]

WorkerSymmetry == Permutations(Workers)
=============================================================================
