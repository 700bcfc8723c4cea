--------------------------- MODULE MCBackfillPipeline --------------------------
(* Backfills for TLC: the serial path, overlapping single blocks, chunks   *)
(* that divide the concurrency and chunks that do not, over the whole      *)
(* chain and a part of it.                                                 *)
EXTENDS BackfillPipeline

Loads == {<<1, 1>>, <<2, 1>>, <<4, 2>>, <<3, 2>>, <<4, 8>>}

AllRequests ==
    {[from |-> f, to |-> MaxHeight, concurrency |-> l[1], batch |-> l[2]] :
        f \in {0, 2}, l \in Loads}
=============================================================================
