----------------------------- MODULE MCWsSession -----------------------------
(* Instances of WsSession for TLC. The recovered record was a catalog miss:  *)
(* no edge starts with a cursor, so a recovered floor would refuse nobody.   *)
EXTENDS WsSession

CONSTANT k1

MCSize == [k \in Key |-> 1]
LoadedRecords == {[key |-> k1, seq |-> 1, hit |-> FALSE]}
OneRecovered == <<[key |-> k1, seq |-> 1, hit |-> FALSE]>>
=============================================================================
