---------------------------- MODULE ExplorerIndex ----------------------------
(***************************************************************************)
(* The live explorer indexer (core/src/explorer/ingest.rs, run_live) over  *)
(* its SQLite store (core/src/explorer/store), against a chain that grows  *)
(* and reorganises.                                                        *)
(*                                                                         *)
(* A block is its height and its version: the number of the reorg that     *)
(* produced it, which is all that a block hash tells the code.  Each       *)
(* action of the indexer ends at an await or at the commit of a SQLite     *)
(* transaction, so the chain may move, and the process may die, between    *)
(* any two of them.                                                        *)
(***************************************************************************)
EXTENDS Integers

CONSTANTS
    MaxHeight,      \* bound: highest block of the model
    Confirmations,  \* IngestConfig.confirmations
    SweepBlocks,    \* REORG_SWEEP_BLOCKS
    MaxFailures,    \* MAX_CONSECUTIVE_LIVE_FAILURES
    MaxDepth,       \* environment: deepest reorg, in blocks below the head
    MaxReorgs,      \* bound: number of reorgs
    MaxErrors,      \* bound: number of failed RPC calls and store writes
    MaxRestarts,    \* bound: number of crashes and restarts of the process
    MaxLag,         \* environment: how far behind a provider's head may be
    ReorgAnytime,   \* environment: reorgs also while a poll is under way
    CanDie          \* environment: every provider may stop answering for good

ASSUME BoundsAssumption ==
    /\ MaxHeight \in Nat /\ Confirmations \in Nat
    /\ SweepBlocks \in Nat \ {0} /\ MaxFailures \in Nat \ {0}
    /\ MaxDepth \in Nat /\ MaxReorgs \in Nat /\ MaxErrors \in Nat
    /\ MaxRestarts \in Nat /\ MaxLag \in Nat
    /\ ReorgAnytime \in BOOLEAN /\ CanDie \in BOOLEAN

Blocks == 0 .. MaxHeight
Missing == 0                        \* no row for the block in the store
Versions == 1 .. MaxReorgs + 1
NoBlock == -1                       \* next_block: None, before the first poll

VARIABLES
    chain,      \* [Blocks -> Versions]: the block that is, or will be, at a height
    head,       \* the chain head
    version,    \* the version the next mined block gets
    dead,       \* no provider answers any more
    stored,     \* blocks and blocks_classified rows: version or Missing
    rejects,    \* rejected_candidates rows, as <<height, version>>
    jit,        \* heights whose JIT positions were applied
    indexedTo,  \* sync_state.indexed_to
    pc,         \* where run_live is
    safe,       \* head - confirmations, as read at the start of the poll
    cursor,     \* first block of this poll
    nextBlock,  \* next_block: where the next poll starts
    block,      \* the block being indexed
    bundle,     \* the version of it that was fetched
    probe,      \* the block whose stored hash is compared
    walkAt,     \* walk_to_fork: the next block to compare
    sweeping,   \* the probe is the sweep's and not the tip check's
    sinceSweep, \* since_reorg_check
    failures,   \* consecutive_failures
    first,      \* history: first block this session set out to index
    stop,       \* the stop flag run_live shares with its job
    errors, restarts

chainVars == <<chain, head, version, dead>>
storeVars == <<stored, rejects, jit, indexedTo>>
pollVars  == <<safe, cursor, nextBlock, first>>
walkVars  == <<probe, walkAt, sweeping>>
fetchVars == <<block, bundle>>
vars == <<chainVars, storeVars, pollVars, walkVars, fetchVars, pc, sinceSweep,
          failures, stop, errors, restarts>>

Least(a, b) == IF a < b THEN a ELSE b
Monus(a, b) == IF a < b THEN 0 ELSE a - b      \* u64::saturating_sub

Lookback == Confirmations + SweepBlocks

(* A fresh database, and a chain that already has the confirmed blocks.    *)
Init ==
    /\ chain = [b \in Blocks |-> 1]
    /\ head \in Blocks
    /\ version = 1 /\ dead = FALSE
    /\ stored = [b \in Blocks |-> Missing]
    /\ rejects = {} /\ jit = {} /\ indexedTo = 0
    /\ pc = "poll" /\ safe = 0 /\ cursor = 0 /\ nextBlock = NoBlock
    /\ first = NoBlock /\ block = 0 /\ bundle = Missing
    /\ probe = 0 /\ walkAt = 0 /\ sweeping = FALSE
    /\ sinceSweep = 0 /\ failures = 0 /\ stop = FALSE
    /\ errors = 0 /\ restarts = 0

-----------------------------------------------------------------------------
(* The chain.                                                              *)

Mine ==
    /\ head < MaxHeight
    /\ head' = head + 1
    /\ UNCHANGED <<chain, version, dead, storeVars, pollVars, walkVars,
                   fetchVars, pc, sinceSweep, failures, stop, errors, restarts>>

(* A longer branch that leaves the current one below height h wins.  The   *)
(* genesis block never changes.                                            *)
Reorg(h) ==
    /\ version <= MaxReorgs
    /\ ReorgAnytime \/ pc = "poll"
    /\ 0 < h /\ h <= head /\ h > head - MaxDepth
    /\ version' = version + 1
    /\ chain' = [b \in Blocks |-> IF b >= h THEN version + 1 ELSE chain[b]]
    /\ head' \in head .. MaxHeight
    /\ UNCHANGED <<dead, storeVars, pollVars, walkVars, fetchVars, pc,
                   sinceSweep, failures, stop, errors, restarts>>

Die ==
    /\ CanDie /\ ~dead
    /\ dead' = TRUE
    /\ UNCHANGED <<chain, head, version, storeVars, pollVars, walkVars,
                   fetchVars, pc, sinceSweep, failures, stop, errors, restarts>>

RequestStop ==
    /\ ~stop
    /\ stop' = TRUE
    /\ UNCHANGED <<chainVars, storeVars, pollVars, walkVars, fetchVars, pc,
                   sinceSweep, failures, errors, restarts>>

-----------------------------------------------------------------------------
(* What the calls of the indexer may do.                                   *)

(* An RPC call that the client gave up on after its own retries.           *)
RpcFails ==
    \/ dead /\ UNCHANGED errors
    \/ ~dead /\ errors < MaxErrors /\ errors' = errors + 1

RpcAnswers == ~dead /\ UNCHANGED errors

StoreFails == errors < MaxErrors /\ errors' = errors + 1

(* One failure more: the poll is given up, or the run at the cap.          *)
CountFailure ==
    /\ failures' = failures + 1
    /\ pc' = IF failures + 1 >= MaxFailures THEN "aborted" ELSE "poll"

-----------------------------------------------------------------------------
(* The head of a poll: the stop flag, safe_head, and where to start.       *)

\* Mutant: the head itself.
SafeHeadUnlagged(h) == h
\* Mutant: one confirmation too few.
SafeHeadOffByOne(h) == Monus(h + 1, Confirmations)

SafeHead(h) == Monus(h, Confirmations)

TipJumpCheckpoint(existing, s) ==
    IF existing = 0 THEN Monus(s, 1) ELSE Least(existing, Monus(s, 1))

Stop ==
    /\ pc = "poll" /\ stop
    /\ pc' = "stopped"
    /\ UNCHANGED <<chainVars, storeVars, pollVars, walkVars, fetchVars,
                   sinceSweep, failures, stop, errors, restarts>>

(* A failed safe_head sleeps and polls again without counting.             *)
HeadFails ==
    /\ pc = "poll" /\ ~stop
    /\ RpcFails
    /\ UNCHANGED <<chainVars, storeVars, pollVars, walkVars, fetchVars, pc,
                   sinceSweep, failures, stop, restarts>>

(* The first poll of a session jumps to the tip and lowers indexed_to to   *)
(* the older of the cursor found and tip - 1.  A sync_state row that       *)
(* cannot be read reads as 0; one that cannot be written ends the run.     *)
StartSession(s) ==
    /\ nextBlock = NoBlock
    /\ cursor' = s
    /\ \/ /\ indexedTo' = TipJumpCheckpoint(indexedTo, s)
          /\ pc' = "verify" /\ first' = s /\ UNCHANGED errors
       \/ /\ StoreFails /\ indexedTo' = TipJumpCheckpoint(0, s)
          /\ pc' = "verify" /\ first' = s
       \/ /\ StoreFails /\ pc' = "aborted" /\ UNCHANGED <<indexedTo, first>>
    /\ UNCHANGED nextBlock

\* Mutant: a poll waits for two new blocks.
ResumeSessionLate(s) ==
    /\ nextBlock # NoBlock
    /\ cursor' = nextBlock
    /\ pc' = IF s > nextBlock THEN "verify" ELSE "poll"
    /\ UNCHANGED <<indexedTo, nextBlock, first, errors>>

ResumeSession(s) ==
    /\ nextBlock # NoBlock
    /\ cursor' = nextBlock
    /\ pc' = IF s >= nextBlock THEN "verify" ELSE "poll"
    /\ UNCHANGED <<indexedTo, nextBlock, first, errors>>

PollHead(h) ==
    /\ pc = "poll" /\ ~stop /\ ~dead
    /\ h <= head /\ h >= head - MaxLag
    /\ safe' = SafeHead(h)
    /\ StartSession(SafeHead(h)) \/ ResumeSession(SafeHead(h))
    /\ UNCHANGED <<chainVars, stored, rejects, jit, walkVars, fetchVars,
                   sinceSweep, failures, stop, restarts>>

-----------------------------------------------------------------------------
(* The reorg probes: verify_indexed_tip on indexed_to in every poll, and   *)
(* check_reorg on cursor - 1 once every SweepBlocks polls.                 *)

(* The stored hash of b needs no comparison, or is the chain's.  A hash    *)
(* that cannot be read reads as missing.                                   *)
ProbeClean(b) ==
    \/ stored[b] = Missing /\ UNCHANGED errors
    \/ stored[b] # Missing /\ RpcAnswers /\ stored[b] = chain[b]
    \/ stored[b] # Missing /\ StoreFails

ProbeMismatch(b) == stored[b] # Missing /\ RpcAnswers /\ stored[b] # chain[b]

ProbeFails(b) == stored[b] # Missing /\ RpcFails

StartWalk(b, bySweep) ==
    /\ pc' = "walk" /\ probe' = b /\ walkAt' = b - 1 /\ sweeping' = bySweep

TipProbed == 0 < indexedTo /\ indexedTo < cursor

(* A sync_state row that cannot be read reads as 0: nothing to verify.     *)
VerifyTip ==
    /\ pc = "verify"
    /\ \/ /\ (~TipProbed /\ UNCHANGED errors) \/ StoreFails
          /\ pc' = "sweep" /\ UNCHANGED <<failures, walkVars>>
       \/ /\ TipProbed /\ ProbeClean(indexedTo)
          /\ pc' = "sweep" /\ UNCHANGED <<failures, walkVars>>
       \/ /\ TipProbed /\ ProbeMismatch(indexedTo)
          /\ StartWalk(indexedTo, FALSE) /\ UNCHANGED failures
       \/ /\ TipProbed /\ ProbeFails(indexedTo)
          /\ CountFailure /\ UNCHANGED walkVars
    /\ UNCHANGED <<chainVars, storeVars, pollVars, fetchVars, sinceSweep,
                   stop, restarts>>

(* since_reorg_check is counted up to SweepBlocks and reset by a sweep     *)
(* that came to a verdict.                                                 *)
SkipSweep ==
    /\ pc = "sweep" /\ sinceSweep + 1 < SweepBlocks
    /\ sinceSweep' = sinceSweep + 1
    /\ pc' = "price"
    /\ UNCHANGED <<chainVars, storeVars, pollVars, walkVars, fetchVars,
                   failures, stop, errors, restarts>>

Sweep ==
    LET checkAt == Monus(cursor, 1) IN
    /\ pc = "sweep" /\ sinceSweep + 1 >= SweepBlocks
    /\ \/ /\ ProbeClean(checkAt)
          /\ pc' = "price" /\ sinceSweep' = 0 /\ UNCHANGED <<failures, walkVars>>
       \/ /\ ProbeMismatch(checkAt)
          /\ StartWalk(checkAt, TRUE)
          /\ sinceSweep' = SweepBlocks /\ UNCHANGED failures
       \/ /\ ProbeFails(checkAt)
          /\ CountFailure /\ sinceSweep' = SweepBlocks /\ UNCHANGED walkVars
    /\ UNCHANGED <<chainVars, storeVars, pollVars, fetchVars, stop, restarts>>

(* walk_to_fork compares one block after the other below the probe.  It    *)
(* gives up without deleting when no common ancestor is in reach.          *)
InReach == walkAt >= Monus(probe, Lookback)

WalkOn ==
    /\ pc = "walk" /\ InReach /\ ProbeMismatch(walkAt)
    /\ walkAt' = walkAt - 1
    /\ UNCHANGED <<chainVars, storeVars, pollVars, fetchVars, pc, probe,
                   sweeping, sinceSweep, failures, stop, restarts>>

WalkFails ==
    /\ pc = "walk"
    /\ \/ ~InReach /\ UNCHANGED errors
       \/ InReach /\ ProbeFails(walkAt)
    /\ CountFailure
    /\ UNCHANGED <<chainVars, storeVars, pollVars, walkVars, fetchVars,
                   sinceSweep, stop, restarts>>

\* Mutant: rejected_candidates is left out of the transaction.
UnwindFromKeepRejects(fork) ==
    /\ stored' = [b \in Blocks |-> IF b >= fork THEN Missing ELSE stored[b]]
    /\ jit' = {b \in jit : b < fork}
    /\ UNCHANGED <<rejects, indexedTo>>

(* ExplorerStore::unwind_from: one transaction over every table; the       *)
(* sync_state row is not touched.                                          *)
UnwindFrom(fork) ==
    /\ stored' = [b \in Blocks |-> IF b >= fork THEN Missing ELSE stored[b]]
    /\ rejects' = {r \in rejects : r[1] < fork}
    /\ jit' = {b \in jit : b < fork}
    /\ UNCHANGED indexedTo

\* Mutant: the fork is the ancestor instead of the block above it.
WalkEndsAtAncestor ==
    /\ pc = "walk" /\ InReach /\ ProbeClean(walkAt)
    /\ UnwindFrom(walkAt)
    /\ cursor' = walkAt
    /\ \/ /\ sweeping /\ pc' = "price" /\ sinceSweep' = 0
       \/ /\ ~sweeping /\ pc' = "sweep" /\ UNCHANGED sinceSweep
    /\ UNCHANGED <<chainVars, safe, nextBlock, first, walkVars, fetchVars,
                   failures, stop, restarts>>

(* The fork is the lowest block seen to mismatch: the one above walkAt.    *)
WalkEnds ==
    /\ pc = "walk" /\ InReach /\ ProbeClean(walkAt)
    /\ UnwindFrom(walkAt + 1)
    /\ cursor' = walkAt + 1
    /\ \/ /\ sweeping /\ pc' = "price" /\ sinceSweep' = 0
       \/ /\ ~sweeping /\ pc' = "sweep" /\ UNCHANGED sinceSweep
    /\ UNCHANGED <<chainVars, safe, nextBlock, first, walkVars, fetchVars,
                   failures, stop, restarts>>

(* The unwinding transaction failed: run_live returns the error.           *)
UnwindFails ==
    /\ pc = "walk" /\ InReach /\ stored[walkAt] \in {Missing, chain[walkAt]}
    /\ StoreFails
    /\ pc' = "aborted"
    /\ UNCHANGED <<chainVars, storeVars, pollVars, walkVars, fetchVars,
                   sinceSweep, failures, stop, restarts>>

(* The one error native_price_cached returns is the store's.               *)
Price ==
    /\ pc = "price"
    /\ \/ /\ pc' = "index" /\ block' = cursor /\ UNCHANGED <<failures, errors>>
       \/ /\ StoreFails /\ CountFailure /\ UNCHANGED block
    /\ UNCHANGED <<chainVars, storeVars, pollVars, walkVars, bundle,
                   sinceSweep, stop, restarts>>

-----------------------------------------------------------------------------
(* index_block, for each block of cursor .. safe.                          *)

\* Mutant: the next poll goes on after the failed block.
BlockFailsSkipping ==
    /\ CountFailure
    /\ nextBlock' = block + 1
    /\ UNCHANGED <<safe, cursor, first>>

(* after_block_attempt with a failed block: the block is pinned for the    *)
(* next poll and the checkpoint stays.                                     *)
BlockFails ==
    /\ CountFailure
    /\ nextBlock' = block
    /\ UNCHANGED <<safe, cursor, first>>

NextInRange ==
    /\ block' = block + 1 /\ failures' = 0 /\ pc' = "index"

SkipClassified ==
    /\ pc = "index" /\ block <= safe /\ stored[block] # Missing
    /\ NextInRange
    /\ UNCHANGED <<chainVars, storeVars, pollVars, walkVars, bundle,
                   sinceSweep, stop, errors, restarts>>

Fetch ==
    /\ pc = "index" /\ block <= safe /\ stored[block] = Missing
    /\ RpcAnswers
    /\ bundle' = chain[block] /\ pc' = "rejects"
    /\ UNCHANGED <<chainVars, storeVars, pollVars, walkVars, block, sinceSweep,
                   failures, stop, restarts>>

(* Neither block_classified nor the fetch may answer.                      *)
FetchFails ==
    /\ pc = "index" /\ block <= safe
    /\ \/ StoreFails
       \/ stored[block] = Missing /\ RpcFails
    /\ BlockFails
    /\ UNCHANGED <<chainVars, storeVars, walkVars, fetchVars, sinceSweep, stop,
                   restarts>>

(* The reject rows (and the lookback rows of persist_mode_b_lookback) are  *)
(* committed before the facts, under the height of a block that the store  *)
(* does not hold yet.  A block may have none, and a row that fails to be   *)
(* inserted is only logged.                                                *)
PersistRejects ==
    /\ pc = "rejects"
    /\ \/ /\ rejects' \in {rejects, rejects \cup {<<block, bundle>>}}
          /\ pc' = "facts"
          /\ UNCHANGED <<failures, pollVars, errors>>
       \/ /\ StoreFails /\ BlockFails /\ UNCHANGED rejects
    /\ UNCHANGED <<chainVars, stored, jit, indexedTo, walkVars, fetchVars,
                   sinceSweep, stop, restarts>>

(* Prices are warmed, then insert_block_facts commits blocks, txs, swaps,  *)
(* transfers, mev_ops and blocks_classified in one transaction.            *)
PersistFacts ==
    /\ pc = "facts"
    /\ \/ /\ stored' = [stored EXCEPT ![block] = bundle] /\ pc' = "jit"
          /\ UNCHANGED <<failures, pollVars, errors>>
       \/ /\ StoreFails /\ BlockFails /\ UNCHANGED stored
    /\ UNCHANGED <<chainVars, rejects, jit, indexedTo, walkVars, fetchVars,
                   sinceSweep, stop, restarts>>

(* persist_jit_positions: a transaction of its own, after the facts.       *)
PersistJit ==
    /\ pc = "jit"
    /\ \/ /\ jit' = jit \cup {block} /\ NextInRange
          /\ UNCHANGED <<pollVars, errors>>
       \/ /\ StoreFails /\ BlockFails /\ UNCHANGED <<jit, block>>
    /\ UNCHANGED <<chainVars, stored, rejects, indexedTo, walkVars, bundle,
                   sinceSweep, stop, restarts>>

(* checkpoint_target: reached only when no block of the poll failed.       *)
Checkpoint ==
    /\ pc = "index" /\ block > safe
    /\ \/ /\ indexedTo' = safe /\ nextBlock' = safe + 1 /\ pc' = "poll"
          /\ UNCHANGED errors
       \/ /\ StoreFails /\ pc' = "aborted" /\ UNCHANGED <<indexedTo, nextBlock>>
    /\ UNCHANGED <<chainVars, stored, rejects, jit, safe, cursor, first,
                   walkVars, fetchVars, sinceSweep, failures, stop, restarts>>

(* The process dies, or its run has ended; it is started again.  The       *)
(* database is what it was at the last commit.                             *)
Restart ==
    /\ restarts < MaxRestarts
    /\ restarts' = restarts + 1
    /\ pc' = "poll" /\ nextBlock' = NoBlock /\ first' = NoBlock
    /\ sinceSweep' = 0 /\ failures' = 0 /\ stop' = FALSE
    /\ UNCHANGED <<chainVars, storeVars, safe, cursor, walkVars, fetchVars,
                   errors>>

-----------------------------------------------------------------------------
Indexer ==
    \/ Stop \/ HeadFails \/ \E h \in Blocks : PollHead(h)
    \/ VerifyTip \/ SkipSweep \/ Sweep
    \/ WalkOn \/ WalkFails \/ WalkEnds \/ UnwindFails
    \/ Price
    \/ SkipClassified \/ Fetch \/ FetchFails \/ PersistRejects \/ PersistFacts \/ PersistJit
    \/ Checkpoint

Environment ==
    \/ Mine \/ \E h \in Blocks : Reorg(h)
    \/ Die \/ RequestStop \/ Restart

Next == Indexer \/ Environment

Spec == Init /\ [][Next]_vars

-----------------------------------------------------------------------------
ChainTypeOK ==
    /\ chain \in [Blocks -> Versions] /\ head \in Blocks
    /\ version \in Versions

StoreTypeOK ==
    /\ stored \in [Blocks -> Versions \cup {Missing}]
    /\ rejects \subseteq Blocks \X Versions /\ jit \subseteq Blocks
    /\ indexedTo \in Blocks

PollTypeOK ==
    /\ safe \in Blocks /\ cursor \in 0 .. MaxHeight + 1
    /\ nextBlock \in -1 .. MaxHeight + 1 /\ first \in -1 .. MaxHeight
    /\ block \in 0 .. MaxHeight + 1 /\ bundle \in Versions \cup {Missing}
    /\ probe \in Blocks /\ walkAt \in -1 .. MaxHeight

ControlTypeOK ==
    /\ pc \in {"poll", "verify", "sweep", "walk", "price", "index", "rejects",
               "facts", "jit", "stopped", "aborted"}
    /\ sinceSweep \in 0 .. SweepBlocks /\ failures \in 0 .. MaxFailures
    /\ errors \in 0 .. MaxErrors /\ restarts \in 0 .. MaxRestarts

FlagTypeOK == dead \in BOOLEAN /\ sweeping \in BOOLEAN /\ stop \in BOOLEAN

(* Every row and every variable of the loop stays in its range: heights    *)
(* within the chain, versions that exist, counters at most at their cap.   *)
TypeOK == ChainTypeOK /\ StoreTypeOK /\ PollTypeOK /\ ControlTypeOK /\ FlagTypeOK

(* The indexer stays behind the head by the confirmations so that no       *)
(* indexed block is ever reorged away.  Where reorgs are no deeper than    *)
(* that, whatever the polls, failures and restarts, every stored block is  *)
(* the chain's block (safe_head, index_block, insert_block_facts).         *)
StoredCanonical == \A b \in Blocks : stored[b] \in {Missing, chain[b]}

(* Reject rows are committed before the facts of their block, outside      *)
(* their transaction, and a retry may fetch another block.  Where reorgs   *)
(* are no deeper than the confirmations no row is of an abandoned block    *)
(* (index_block_fetched).                                                  *)
RejectsCanonical == \A r \in rejects : r[2] = chain[r[1]]

(* "A partially indexed range must never be recorded as complete": no      *)
(* block from the session's first to indexed_to is missing, whichever      *)
(* blocks failed in whichever polls (after_block_attempt,                  *)
(* checkpoint_target).                                                     *)
SessionGapFree ==
    first # NoBlock =>
        \A b \in Blocks : first <= b /\ 0 < b /\ b <= indexedTo => stored[b] # Missing

(* An unwind starts at a block that is stale: it never takes a canonical   *)
(* block as its fork, though the chain may move during the walk            *)
(* (fork_block_from_checks).                                               *)
Removed(b) == stored[b] # Missing /\ stored'[b] = Missing

UnwindsFromStaleBlock ==
    [][\A b \in Blocks :
           Removed(b) /\ (\A c \in 0 .. b - 1 : ~Removed(c)) => stored[b] # chain[b]]_vars

(* What a reader of the database sees of the indexer is an ExplorerStore:   *)
(* every step commits at most one transaction, whole blocks come under one *)
(* version and are unwound from the top, the rejects with them             *)
(* (insert_block_facts, unwind_from).                                      *)
Store == INSTANCE ExplorerStore WITH Heights <- Blocks
StoreImplements == Store!StoreSpec

Ended == pc \in {"stopped", "aborted"}

(* Failed calls only delay the indexer: unless the run ends or the         *)
(* providers go, it reaches the confirmed tip and stays there (run_live).  *)
CatchesUp == <>[](Ended \/ dead \/ indexedTo = SafeHead(head))

=============================================================================
