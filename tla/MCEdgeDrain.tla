---------------------------- MODULE MCEdgeDrain ----------------------------
(* Instances of EdgeDrain for TLC. *)
EXTENDS EdgeDrain
=============================================================================
