------------------------------ MODULE ExplorerStore ------------------------------
(* What the writers of the explorer's database do, as its readers see it: each *)
(* step is one committed transaction. The facts of a height come at once, under *)
(* one version, and are never overwritten; a height goes only with everything  *)
(* above it. The checkpoint is a row of its own and promises nothing.          *)
EXTENDS Naturals

CONSTANTS Heights, Versions

VARIABLES
    stored,     \* blocks, mev_ops, blocks_classified: height -> version or Missing
    rejects,    \* rejected_candidates, as <<height, version>>
    indexedTo   \* sync_state.indexed_to

storeVars == <<stored, rejects, indexedTo>>

Missing == 0

StoreInit ==
    /\ stored \in [Heights -> Versions \cup {Missing}]
    /\ rejects \in SUBSET (Heights \X Versions)
    /\ indexedTo \in Heights

InsertBlockFacts(h, v) ==
    /\ stored[h] = Missing
    /\ stored' = [stored EXCEPT ![h] = v]
    /\ UNCHANGED <<rejects, indexedTo>>

(* Committed before the facts of the block, which may never follow.            *)
InsertRejects(h, v) ==
    /\ rejects' = rejects \cup {<<h, v>>}
    /\ UNCHANGED <<stored, indexedTo>>

UnwindFrom(fork) ==
    /\ stored' = [h \in Heights |-> IF h >= fork THEN Missing ELSE stored[h]]
    /\ rejects' = {r \in rejects : r[1] < fork}
    /\ UNCHANGED indexedTo

UpdateSyncState(to) == indexedTo' = to /\ UNCHANGED <<stored, rejects>>

StoreNext ==
    \/ \E h \in Heights, v \in Versions : InsertBlockFacts(h, v) \/ InsertRejects(h, v)
    \/ \E h \in Heights : UnwindFrom(h) \/ UpdateSyncState(h)

StoreSpec == StoreInit /\ [][StoreNext]_storeVars
===============================================================================
