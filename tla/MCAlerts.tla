------------------------------- MODULE MCAlerts -------------------------------
(* Instances of Alerts for TLC: one node, a few situations, holds of 0 or 1. *)
EXTENDS Alerts

Fine == [rpc_connected |-> TRUE, connected |-> 2, configured |-> 2, idle |-> 0,
         recent |-> 100, markets |-> 10, counts |-> TRUE]
Bad  == [rpc_connected |-> FALSE, connected |-> 1, configured |-> 2, idle |-> 9,
         recent |-> 90, markets |-> 1, counts |-> TRUE]
Up   == [status |-> "Serving", connected |-> TRUE, seq |-> 9, lag |-> 0, recent |-> TRUE,
         clients |-> 1, max |-> 2]
Sick == [status |-> "Draining", connected |-> FALSE, seq |-> 1, lag |-> 9, recent |-> TRUE,
         clients |-> 2, max |-> 2]
Of(fresh, data, node, feed) ==
  [fresh |-> fresh, data |-> data, latest |-> 9, nodes |-> [n \in Node |-> node], feed |-> feed]
MCInputs ==
  {Of(TRUE, Fine, Up, TRUE), Of(TRUE, Bad, Sick, FALSE),
   Of(FALSE, Fine, [Up EXCEPT !.status = "Stale"], TRUE)}
MCHold == [r \in UpRule \cup EdgeRule \cup OwnRule |->
            IF r \in UpCounter \cup EdgeCounter \cup {"upstream_silent", "enrichment_recent_low"}
            THEN 0 ELSE 1]
MCWindow == [r \in UpCounter \cup EdgeCounter |-> 1]
MCLimit == [r \in UpRule \cup EdgeRule \cup OwnRule |->
             CASE r = "upstream_silent" -> 5 [] r = "enrichment_recent_low" -> 95
               [] r = "catalog_small" -> 5 [] r = "edge_near_full" -> 95
               [] r = "edge_sequence_lag" -> 5 [] r = "edge_link_lag" -> 5
               [] OTHER -> 1]
MCWatched == {"rpc_disconnected", "rpc_sources_degraded", "storage_dropped", "catalog_small",
              "edge_upstream_down", "edge_sequence_lag", "edge_near_full", "edge_stale",
              "tinyuma_unreachable", "cluster_serving_low", "panel_feed_down"}
MCGrowing == {<<"storage_dropped", "">>}
=============================================================================
