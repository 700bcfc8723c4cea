--------------------------- MODULE BackfillPipeline ---------------------------
(***************************************************************************)
(* The historical backfill (core/src/explorer/ingest.rs, run_range): the   *)
(* missing blocks of a range are fetched in chunks that overlap, and are   *)
(* persisted one by one in ascending order.  A fetch that fails skips its  *)
(* chunk; a later run over the same range is to fill the gap.              *)
(*                                                                         *)
(* The code keeps the missing blocks in a vector with two indices; here    *)
(* todo is what next_spawn has not passed and left is what next_persist    *)
(* has not.  A chunk in flight is the set of its blocks.                   *)
(***************************************************************************)
EXTENDS Integers, FiniteSets

CONSTANTS
    MaxHeight,      \* bound: highest block of the model
    MaxTip,         \* bound: highest chain head
    Confirmations,  \* IngestConfig.confirmations
    Requests,       \* RangeRequest with rpc_batch_blocks, as records
    PriceStride,    \* native_price is refreshed at every such block (256)
    MaxErrors,      \* bound: number of failed RPC calls and store writes
    MaxRuns         \* bound: number of backfills

Blocks == 0 .. MaxHeight

ASSUME RequestsAssumption ==
    /\ MaxHeight \in Nat /\ MaxTip \in Nat /\ Confirmations \in Nat
    /\ MaxTip - Confirmations <= MaxHeight
    /\ PriceStride \in Nat \ {0} /\ MaxErrors \in Nat /\ MaxRuns \in Nat
    /\ Requests \subseteq [from : Blocks, to : Blocks, concurrency : Nat, batch : Nat]
    /\ \A r \in Requests : r.from <= r.to

VARIABLES
    classified, \* heights with a blocks_classified row
    jit,        \* heights whose JIT positions were applied
    indexedTo,  \* sync_state.indexed_to
    tip,        \* the chain head, as this run read it
    request,    \* the RangeRequest of this run
    missing,    \* unclassified_blocks, as this run read them
    todo,       \* missing[next_spawn ..]
    left,       \* missing[next_persist ..], without skipped blocks
    inflight,   \* chunks being fetched
    ready,      \* blocks fetched but not persisted
    skipped,    \* blocks given up on
    processed,  \* outcome.blocks_processed
    pc,         \* where the run is
    errors, runs

storeVars == <<classified, jit, indexedTo>>
runVars   == <<request, missing>>
fetchVars == <<todo, inflight>>
workVars  == <<left, ready, skipped, processed>>
vars == <<storeVars, runVars, fetchVars, workVars, tip, pc, errors, runs>>

Lesser(a, b) == IF a < b THEN a ELSE b
Greater(a, b) == IF a < b THEN b ELSE a
Monus(a, b) == IF a < b THEN 0 ELSE a - b

(* The parameters of a run over the blocks S.                              *)
Cap(S) == Lesser(Greater(request.concurrency, 1), Cardinality(S))
ChunkSize(S) == Lesser(Greater(request.batch, 1), Cap(S))

Posts(S) == Greater(Cap(S) \div ChunkSize(S), 1)

Pipelined == Cap(missing) > 1

End == Lesser(request.to, Monus(tip, Confirmations))
Asked == request.from .. End

Need == CHOOSE b \in left : \A c \in left : b <= c

Init ==
    /\ classified \in SUBSET Blocks /\ jit = classified /\ indexedTo = 0
    /\ tip = 0 /\ request \in Requests /\ missing = {}
    /\ todo = {} /\ left = {} /\ inflight = {} /\ ready = {} /\ skipped = {}
    /\ processed = 0 /\ pc = "idle" /\ errors = 0 /\ runs = 0

-----------------------------------------------------------------------------
Fails == errors < MaxErrors /\ errors' = errors + 1

(* The next n chunks of size blocks each, in order.                        *)
Rank(S, b) == Cardinality({c \in S : c < b})
Chunks(S, size, n) ==
    {{b \in S : Rank(S, b) \div size = k} : k \in 0 .. n - 1} \ {{}}

(* spawn_one until every post is in use or every block was asked for.      *)
Fill(S, waiting, flying) ==
    LET spawned == Chunks(waiting, ChunkSize(S), Posts(S) - Cardinality(flying))
    IN  /\ inflight' = flying \cup spawned
        /\ todo' = waiting \ UNION spawned

Request(r) ==
    /\ pc \in {"idle", "done", "failed"} /\ runs < MaxRuns
    /\ runs' = runs + 1 /\ request' = r /\ pc' = "head"
    /\ missing' = {} /\ todo' = {} /\ left' = {} /\ inflight' = {}
    /\ ready' = {} /\ skipped' = {} /\ processed' = 0
    /\ UNCHANGED <<storeVars, tip, errors>>

(* A range inside the confirmation lag has nothing to index yet.           *)
ReadHead(h) ==
    /\ pc = "head"
    /\ \/ /\ tip' = h /\ UNCHANGED errors
          /\ pc' = IF Lesser(request.to, Monus(h, Confirmations)) < request.from
                   THEN "done" ELSE "list"
       \/ Fails /\ pc' = "failed" /\ UNCHANGED tip
    /\ UNCHANGED <<storeVars, runVars, fetchVars, workVars, runs>>

(* unclassified_blocks and the native price; the pipeline is filled.       *)
ListMissing ==
    LET found == Asked \ classified IN
    /\ pc = "list"
    /\ \/ /\ missing' = found /\ left' = found /\ UNCHANGED errors
          /\ IF Cap(found) > 1
             THEN Fill(found, found, {})
             ELSE UNCHANGED fetchVars
          /\ pc' = IF found = {} THEN "ending" ELSE "run"
       \/ Fails /\ pc' = "failed" /\ UNCHANGED <<missing, left, fetchVars>>
    /\ UNCHANGED <<storeVars, request, tip, ready, skipped, processed, runs>>

-----------------------------------------------------------------------------
(* The fetches.                                                            *)

FetchOne ==
    /\ pc = "run" /\ ~Pipelined /\ left # {}
    /\ \/ /\ UNCHANGED <<left, skipped, errors>> /\ pc' = "facts"
       \/ /\ Fails /\ UNCHANGED pc
          /\ skipped' = skipped \cup {Need} /\ left' = left \ {Need}
    /\ UNCHANGED <<storeVars, runVars, fetchVars, tip, ready, processed, runs>>

Waiting == pc = "run" /\ Pipelined /\ left # {} /\ Need \notin ready

ChunkArrives(c) ==
    /\ Waiting /\ c \in inflight
    /\ ready' = ready \cup c
    /\ Fill(missing, todo, inflight \ {c})
    /\ UNCHANGED <<storeVars, runVars, tip, left, skipped, processed, pc, errors, runs>>

\* Mutant: the pipeline is not filled up again.
ChunkFailsNoRefill(c) ==
    /\ Waiting /\ c \in inflight /\ Fails
    /\ skipped' = skipped \cup c /\ left' = left \ c
    /\ inflight' = inflight \ {c} /\ UNCHANGED todo
    /\ UNCHANGED <<storeVars, runVars, tip, ready, processed, pc, runs>>

\* Mutant: only the block that is waited for is skipped.
ChunkFailsLosing(c) ==
    /\ Waiting /\ c \in inflight /\ Fails
    /\ skipped' = skipped \cup (c \cap {Need}) /\ left' = left \ c
    /\ Fill(missing, todo, inflight \ {c})
    /\ UNCHANGED <<storeVars, runVars, tip, ready, processed, pc, runs>>

(* A chunk whose fetch failed is skipped as a whole.                       *)
ChunkFails(c) ==
    /\ Waiting /\ c \in inflight /\ Fails
    /\ skipped' = skipped \cup c /\ left' = left \ c
    /\ Fill(missing, todo, inflight \ {c})
    /\ UNCHANGED <<storeVars, runVars, tip, ready, processed, pc, runs>>

-----------------------------------------------------------------------------
(* The persists, in ascending order.  A native price that cannot be read   *)
(* ends the run.                                                           *)

PriceDue(b) == (b - request.from) % PriceStride = 0

\* Mutant: whichever block is ready.
TakeAny ==
    /\ pc = "run" /\ Pipelined /\ ready # {}
    /\ left' = left \ {CHOOSE b \in ready : TRUE}
    /\ classified' = classified \cup {CHOOSE b \in ready : TRUE}
    /\ ready' = ready \ {CHOOSE b \in ready : TRUE}
    /\ UNCHANGED <<jit, indexedTo, runVars, fetchVars, tip, skipped, processed,
                   pc, errors, runs>>

Take ==
    /\ pc = "run" /\ Pipelined /\ left # {} /\ Need \in ready
    /\ ready' = ready \ {Need} /\ pc' = "facts"
    /\ UNCHANGED <<storeVars, runVars, fetchVars, tip, left, skipped, processed,
                   errors, runs>>

PriceFails ==
    /\ pc = "run" /\ left # {} /\ PriceDue(Need)
    /\ Pipelined => Need \in ready
    /\ Fails /\ pc' = "failed"
    /\ UNCHANGED <<storeVars, runVars, fetchVars, workVars, tip, runs>>

(* A block that cannot be indexed is skipped by the serial path and ends   *)
(* the run of the pipelined one.                                           *)
IndexFails ==
    /\ Fails
    /\ \/ /\ Pipelined /\ pc' = "failed" /\ UNCHANGED <<left, skipped>>
       \/ /\ ~Pipelined /\ pc' = "run"
          /\ skipped' = skipped \cup {Need} /\ left' = left \ {Need}

PersistFacts ==
    /\ pc = "facts"
    /\ \/ /\ classified' = classified \cup {Need} /\ pc' = "jit"
          /\ UNCHANGED <<left, skipped, errors>>
       \/ IndexFails /\ UNCHANGED classified
    /\ UNCHANGED <<jit, indexedTo, runVars, fetchVars, tip, ready, processed, runs>>

PersistJit ==
    /\ pc = "jit"
    /\ \/ /\ jit' = jit \cup {Need} /\ pc' = "run"
          /\ left' = left \ {Need} /\ processed' = processed + 1
          /\ Fill(missing, todo, inflight)
          /\ UNCHANGED <<skipped, errors>>
       \/ IndexFails /\ UNCHANGED <<jit, processed, fetchVars>>
    /\ UNCHANGED <<classified, indexedTo, runVars, tip, ready, runs>>

Finish ==
    /\ pc = "ending" \/ (pc = "run" /\ left = {})
    /\ \/ indexedTo' = End /\ pc' = "done" /\ UNCHANGED errors
       \/ Fails /\ pc' = "failed" /\ UNCHANGED indexedTo
    /\ UNCHANGED <<classified, jit, runVars, fetchVars, workVars, tip, runs>>

(* The process dies: the database is what it was at the last commit.       *)
Crash ==
    /\ pc \in {"run", "facts", "jit"} /\ runs < MaxRuns
    /\ pc' = "idle"
    /\ UNCHANGED <<storeVars, runVars, fetchVars, workVars, tip, errors, runs>>

-----------------------------------------------------------------------------
Backfill ==
    \/ \E h \in 0 .. MaxTip : ReadHead(h)
    \/ ListMissing \/ FetchOne
    \/ \E c \in inflight : ChunkArrives(c) \/ ChunkFails(c)
    \/ Take \/ PriceFails \/ PersistFacts \/ PersistJit \/ Finish

Next == Backfill \/ Crash \/ \E r \in Requests : Request(r)

Spec == Init /\ [][Next]_vars

-----------------------------------------------------------------------------
TypeOK ==
    /\ classified \subseteq Blocks /\ jit \subseteq Blocks
    /\ indexedTo \in Blocks /\ tip \in 0 .. MaxTip
    /\ request \in Requests /\ missing \subseteq Blocks
    /\ todo \subseteq missing /\ left \subseteq missing
    /\ inflight \subseteq SUBSET missing
    /\ ready \subseteq missing /\ skipped \subseteq missing
    /\ processed \in 0 .. MaxHeight + 1
    /\ pc \in {"idle", "head", "list", "run", "facts", "jit", "ending", "done",
               "failed"}
    /\ errors \in 0 .. MaxErrors /\ runs \in 0 .. MaxRuns

(* "Refill exactly like the success branch: without this the loop can      *)
(* drain inflight while next_spawn is still pending and bail out as        *)
(* stalled": whatever order the chunks arrive or fail in, a run that waits *)
(* for a block is fetching it (run_range; its bail has inflight = {}).     *)
NeverStalls == Waiting => \E c \in inflight : Need \in c

(* "classify/persist stays in ascending block order": within a run no      *)
(* block is persisted after a higher one (run_range).                      *)
Ascending ==
    [][\A b \in classified' \ classified : \A c \in missing \cap classified : c < b]_vars

(* A run that ends as complete has every block of its range in the store   *)
(* or in skipped_blocks: no chunk is lost between the fetches and the      *)
(* persists (run_range).                                                   *)
NothingLost ==
    pc = "done" /\ request.from <= End => Asked \subseteq classified \cup skipped

=============================================================================
