------------------------------ MODULE MCIngest ------------------------------
(* Instances of Ingest for TLC. *)
EXTENDS Ingest

\* Two signal logs in block 2, one in every other.
TwoInBlock2 == [b \in 1..MaxBlock |-> IF b = 2 THEN 2 ELSE 1]
=============================================================================
