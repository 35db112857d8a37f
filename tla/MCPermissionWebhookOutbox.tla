---------------------- MODULE MCPermissionWebhookOutbox ----------------------
(* PermissionWebhookOutbox on small instances.  No symmetry: the runs check *)
(* temporal formulas.                                                       *)
EXTENDS PermissionWebhookOutbox
=============================================================================
