------------------------------ MODULE MCForfeit ------------------------------
(* Instances of Forfeit for TLC: two events, of two matches. *)
EXTENDS Forfeit

MCMatchOf == <<2, 1>>
MCMarketsOf == <<{"c"}, {"c"}>>
=============================================================================
