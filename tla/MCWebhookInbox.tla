--------------------------- MODULE MCWebhookInbox ---------------------------
(***************************************************************************)
(* Small instances of WebhookInbox for TLC.                                *)
(***************************************************************************)
EXTENDS WebhookInbox

CONSTANTS e1, h1, h2

OneEvent == {e1}
TwoHandlers == {h1, h2}
=============================================================================
