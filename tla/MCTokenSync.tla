---------------------------- MODULE MCTokenSync ----------------------------
(* Instances of TokenSync for TLC. *)
EXTENDS TokenSync
=============================================================================
