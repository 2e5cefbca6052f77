--------------------------- MODULE MCWebhookQueue ---------------------------
(* A small instance of WebhookQueue for TLC.                                *)
EXTENDS WebhookQueue

(* Reports that a payout was made.  They differ from the others in what     *)
(* they do to the wallet, which the queue never looks at; every handler may *)
(* raise.                                                                   *)
PaidReport == [kind : {"paid"}, key : Keys]
=============================================================================
