------------------------------- MODULE MCAccess ------------------------------
(* Access on small sets. *)
EXTENDS Access
=============================================================================
