----------------------------- MODULE MCPipeline -----------------------------
(* Instances of Pipeline for TLC. *)
EXTENDS Pipeline, TLC

CONSTANTS k1, k2, k3

\* k3 encodes beyond max_decompressed_bytes on its own.
MCSize == (k1 :> 1) @@ (k2 :> 1) @@ (k3 :> 5)
\* The journal held the log of k1 twice; insert took the first.
LoadedRecords == {[key |-> k1, seq |-> 1, hit |-> TRUE], [key |-> k1, seq |-> 2, hit |-> FALSE]}
OneRecovered == <<[key |-> k1, seq |-> 1, hit |-> TRUE]>>
=============================================================================
