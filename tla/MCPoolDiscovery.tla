--------------------------- MODULE MCPoolDiscovery ----------------------------
(* A pool that its creation event, or its activity in another window, makes    *)
(* known with its tokens, and one whose creation event names none, as those of *)
(* Balancer. A run scans what trailing blocks are not covered, the whole chain *)
(* or block 3 alone.                                                           *)
EXTENDS PoolDiscovery, TLC

MCCreated == ("p1" :> 1) @@ ("p2" :> 2)
MCActive == ("p1" :> {3, 4}) @@ ("p2" :> {4})

MCRanges ==
    job'.runs > job.runs =>
        job'.ranges \in {<<>>, LookbackScanRanges(1, tip), <<<<1, tip>>>>, <<<<3, 3>>>>}
===============================================================================
