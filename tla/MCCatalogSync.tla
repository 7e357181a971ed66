--------------------------- MODULE MCCatalogSync ---------------------------
(* Instances of CatalogSync for TLC. *)
EXTENDS CatalogSync

Listed(stamps, closed) ==
  [stamp |-> [m \in Market |-> stamps[m]],
   place |-> [m \in Market |-> IF m \in closed THEN "closed" ELSE "active"]]

\* Two markets of one updatedAt and one to come; three closed ones, one of
\* them outside the lookback.
TiedAndClosed == {Listed(<<2, 2, 0>>, {}), Listed(<<2, 1, 3>>, {1, 2, 3})}
=============================================================================
