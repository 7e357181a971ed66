------------------------------ MODULE MCEdgeHub ------------------------------
(* Instance of EdgeHub for TLC; the values are in the configurations. *)
EXTENDS EdgeHub
=============================================================================
