------------------------------ MODULE MCJournal ------------------------------
(* Instances of Journal for TLC. *)
EXTENDS Journal, TLC

\* Long enough to compact with a command queued, then shorter lives.
Sequences2Restarts == (0 :> 8) @@ (1 :> 4) @@ (2 :> 3)

\* Sources are alike, and so are keys.
Alike == Permutations(Source) \cup Permutations(Key)
=============================================================================
