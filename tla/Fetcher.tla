-------------------------------- MODULE Fetcher --------------------------------
(* The block fetcher (src/core/src/fetch/fetcher.rs) over the block cache: the *)
(* missing blocks of a range are cut into the providers' shards and those into *)
(* contiguous runs, the runs are fetched concurrently, each with a bounded     *)
(* number of requests under way, and all of them push what arrives into one    *)
(* write buffer that is flushed when it is full and at the end.                *)
(*                                                                             *)
(* Everything runs on one task (try_join_all), so what happens between two     *)
(* awaits is one step: a request that is answered pushes its blocks, flushes   *)
(* the buffer if that fills it, and asks the progress callback whether to go   *)
(* on. A block is its number; what a provider answers is that block. The       *)
(* concurrent, the chunked and the sequential way of fetching a run differ in  *)
(* the blocks of a request, the requests under way, and what a failed write    *)
(* does.                                                                       *)
EXTENDS Integers, Sequences, FiniteSets, SequencesExt, FiniteSetsExt

CONSTANTS
    LastBlock,          \* bound: blocks of the chain
    Active,             \* blocks with activity of the tracked pools
    Weight,             \* provider -> effective weight
    Parallelism,        \* runs fetched at once
    Concurrency,        \* block_concurrency
    BatchBlocks,        \* rpc_batch_blocks, 1 without batched requests
    BufferLimit,        \* blocks that make the buffer flush
    MaxFaults           \* bound: failing requests and writes

ASSUME FetcherAssumption ==
    /\ {LastBlock, Parallelism, Concurrency, BatchBlocks, BufferLimit} \subseteq Nat \ {0}
    /\ MaxFaults \in Nat
    /\ Active \subseteq 1..LastBlock
    /\ \A p \in DOMAIN Weight : Weight[p] \in Nat \ {0}

VARIABLES
    fetch,      \* "off", "runs", "flush", "refetch", "done" or "failed"
    wanted,     \* blocks the fetch under way set out to get
    runs,       \* the contiguous runs of it
    buffer,     \* blocks in the write buffer
    cached,     \* blocks in the cache
    missing,    \* missing_after_fetch, then those of it still to be asked for
    scan,       \* the fetch follows a scan for activity
    answered,   \* history: blocks answered in this fetch
    lostWrite,  \* history: a write of this fetch failed
    cancelled,  \* progress.cancelled()
    faults      \* failing requests and writes so far

fetchVars == <<fetch, wanted, runs, buffer, cached, missing, scan, answered, lostWrite,
               faults>>

Blocks == 1..LastBlock
Providers == DOMAIN Weight
AtMost(a, b) == IF a < b THEN a ELSE b
AtLeast(a, b) == IF a > b THEN a ELSE b

-------------------------------------------------------------------------------
(* Shards and runs.                                                            *)

Share(total, weight, all, assigned) ==
    AtMost(AtLeast((total * weight) \div all, 1), total - assigned)

(* One shard per available provider, in their order, by weight; the last takes *)
(* the rest, and a shard that gets nothing is empty.                           *)
DistributeBlocks(alive, lo, hi) ==
    LET total == hi - lo + 1
        order == SetToSortSeq(alive, LAMBDA a, b : a < b)
        all == FoldSet(LAMBDA p, sum : sum + Weight[p], 0, alive)
        Assign(done, p) ==
            LET n == IF p = Last(order) THEN AtLeast(total - done.at, 0)
                     ELSE Share(total, Weight[p], all, done.at)
            IN  [at |-> done.at + n,
                 shards |-> Append(done.shards, (lo + done.at)..(lo + done.at + n - 1))]
    IN  FoldLeft(Assign, [at |-> 0, shards |-> <<>>], order).shards

(* The maximal intervals of a set of blocks.                                   *)
EndOf(b, s) == CHOOSE e \in s : b..e \subseteq s /\ e >= b /\ e + 1 \notin s
ContiguousRanges(s) == {<<b, EndOf(b, s)>> : b \in {b \in s : b - 1 \notin s}}

NewRun(interval) ==
    [lo |-> interval[1], hi |-> interval[2], cursor |-> interval[1],
     tasks |-> {}, state |-> "waiting"]

(* The runs of the shards' blocks, each named by its interval.                 *)
RunsOf(blocks, shards) ==
    [r \in UNION {ContiguousRanges(blocks \intersect shards[i]) : i \in DOMAIN shards}
        |-> NewRun(r)]

MissingIn(lo, hi) == (lo..hi) \ cached

(* The scan for activity reports the blocks in which the pools emitted logs,   *)
(* except those whose query failed, alone, after its window was split.         *)
FoundActive(lo, hi) == {s \in SUBSET (Active \intersect (lo..hi)) :
                            Cardinality((Active \intersect (lo..hi)) \ s) <= MaxFaults - faults}

-------------------------------------------------------------------------------
(* How a run is fetched.                                                       *)

Cap(r) == AtMost(Concurrency, r.hi - r.lo + 1)
Chunked(r) == BatchBlocks > 1 /\ Cap(r) > 1
ChunkLen(r) == IF Chunked(r) THEN AtMost(BatchBlocks, Cap(r)) ELSE 1
Posts(r) == Cap(r) \div ChunkLen(r)
Sequential(r) == Cap(r) <= 1

Room(r) == Cardinality(r.tasks) < Posts(r)

Running == {i \in DOMAIN runs : runs[i].state = "running"}

(* Pushing blocks lo..hi one after the other onto a buffer that is not full:   *)
(* the block that fills it flushes it whole, with the blocks of other runs in  *)
(* it, and from then on every BufferLimit-th does. The buffer is empty after a *)
(* flush even if the write failed; the remaining blocks are then not pushed.   *)
Fills(lo) == lo + BufferLimit - 1 - Cardinality(buffer)

WriteBlockData(lo, hi, faulty) ==
    LET lastFlushed == hi - ((hi - Fills(lo)) % BufferLimit)
    IN  IF hi < Fills(lo)
        THEN [buffer |-> buffer \union lo..hi, cached |-> cached, failed |-> FALSE]
        ELSE IF faulty
        THEN [buffer |-> {}, cached |-> cached, failed |-> TRUE]
        ELSE [buffer |-> (lastFlushed + 1)..hi,
              cached |-> cached \union buffer \union lo..lastFlushed, failed |-> FALSE]

-------------------------------------------------------------------------------
FetcherInit ==
    /\ fetch = "off"
    /\ wanted = {} /\ runs = <<>> /\ buffer = {} /\ cached = {} /\ missing = {}
    /\ scan = FALSE /\ answered = {} /\ lostWrite = FALSE
    /\ cancelled = FALSE /\ faults = 0

Fault == faults < MaxFaults /\ faults' = faults + 1

(* A fetcher is made for each fetch: the buffer of an earlier one is gone.     *)
StartFetch(blocks, shards) ==
    /\ fetch' = IF blocks = {} THEN "done" ELSE "runs"
    /\ wanted' = blocks
    /\ runs' = RunsOf(blocks, shards)
    /\ buffer' = {} /\ missing' = {} /\ answered' = {} /\ lostWrite' = FALSE
    /\ UNCHANGED cached

FetchRange(lo, hi) ==
    \E alive \in SUBSET Providers :
        /\ StartFetch(MissingIn(lo, hi), DistributeBlocks(alive, lo, hi))
        /\ scan' = FALSE
        /\ UNCHANGED faults

(* Only blocks found active are fetched, cached or not, by any provider.       *)
FetchRelevant(lo, hi) ==
    \E found \in FoundActive(lo, hi) :
        /\ StartFetch(found, <<lo..hi>>)
        /\ faults' = faults + Cardinality((Active \intersect (lo..hi)) \ found)
        /\ scan' = TRUE

AcquirePermit(i) ==
    /\ fetch = "runs" /\ runs[i].state = "waiting"
    /\ Cardinality(Running) < AtMost(Parallelism, 30)
    /\ runs' = [runs EXCEPT ![i].state = "running"]
    /\ UNCHANGED <<fetch, wanted, buffer, cached, missing, scan, answered, lostWrite,
                   faults>>

(* The next request needs one of the run's permits, of which there are Posts,  *)
(* and the requests under way are not polled while it is waited for.           *)
Post(i) ==
    LET r == runs[i]
        hi == AtMost(r.cursor + ChunkLen(r) - 1, r.hi)
    IN  /\ fetch = "runs" /\ r.state = "running"
        /\ r.cursor <= r.hi /\ Room(r)
        /\ Cardinality(r.tasks) < Posts(r)
        /\ runs' = [runs EXCEPT ![i].cursor = hi + 1, ![i].tasks = @ \union {<<r.cursor, hi>>}]
        /\ UNCHANGED <<fetch, wanted, buffer, cached, missing, scan, answered,
                       lostWrite, faults>>

Reaping(i) ==
    LET r == runs[i] IN
    fetch = "runs" /\ r.state = "running" /\ (~Room(r) \/ r.cursor > r.hi)

Answered(i, t, faulty) ==
    LET r == runs[i]
        w == WriteBlockData(t[1], t[2], faulty)
    IN  /\ Reaping(i) /\ t \in r.tasks
        /\ buffer' = w.buffer /\ cached' = w.cached
        /\ IF w.failed THEN Fault ELSE UNCHANGED faults
        /\ lostWrite' = (lostWrite \/ w.failed)
        /\ runs' = [runs EXCEPT ![i].tasks = @ \ {t}]
        /\ fetch' = IF (w.failed /\ Sequential(r)) \/ (~w.failed /\ cancelled)
                    THEN "failed" ELSE fetch
        /\ answered' = answered \union t[1]..t[2]
        /\ UNCHANGED <<wanted, missing, scan>>

(* A request that fails leaves a gap; the run goes on.                         *)
Refused(i, t) ==
    /\ Reaping(i) /\ t \in runs[i].tasks
    /\ Fault
    /\ runs' = [runs EXCEPT ![i].tasks = @ \ {t}]
    /\ UNCHANGED <<fetch, wanted, buffer, cached, missing, scan, answered, lostWrite>>

RunEnds(i) ==
    LET r == runs[i] IN
    /\ fetch = "runs" /\ r.state = "running"
    /\ r.cursor > r.hi /\ r.tasks = {}
    /\ runs' = [runs EXCEPT ![i].state = "ended"]
    /\ fetch' = IF cancelled /\ ~scan THEN "failed" ELSE fetch
    /\ UNCHANGED <<wanted, buffer, cached, missing, scan, answered, lostWrite, faults>>

(* All runs are done: the buffer is flushed, and what is not in the cache is   *)
(* missing.                                                                    *)
EndRunsUnflushed ==
    /\ fetch = "runs" /\ \A i \in DOMAIN runs : runs[i].state = "ended"
    /\ fetch' = "done" /\ missing' = wanted \ cached
    /\ UNCHANGED <<wanted, runs, buffer, cached, scan, answered, lostWrite, faults>>
EndRuns ==
    /\ fetch = "runs" /\ \A i \in DOMAIN runs : runs[i].state = "ended"
    /\ \/ /\ fetch' = "done"
          /\ cached' = cached \union buffer
          /\ missing' = wanted \ cached'
          /\ UNCHANGED <<lostWrite, faults>>
       \/ /\ buffer # {} /\ Fault
          /\ fetch' = "failed" /\ lostWrite' = TRUE
          /\ UNCHANGED <<cached, missing>>
    /\ buffer' = {}
    /\ UNCHANGED <<wanted, runs, scan, answered>>

(* The gaps are asked for once more, each by itself, all at once up to the     *)
(* parallelism.                                                                *)
StartRefetch ==
    /\ fetch = "done" /\ missing # {}
    /\ fetch' = "refetch"
    /\ UNCHANGED <<wanted, runs, buffer, cached, missing, scan, answered, lostWrite, faults>>

Refetched(b, faulty) ==
    LET w == WriteBlockData(b, b, faulty) IN
    /\ fetch = "refetch" /\ b \in missing
    /\ buffer' = w.buffer /\ cached' = w.cached
    /\ IF w.failed THEN Fault ELSE UNCHANGED faults
    /\ lostWrite' = (lostWrite \/ w.failed)
    /\ missing' = missing \ {b}
    /\ fetch' = IF w.failed THEN "failed" ELSE fetch
    /\ answered' = answered \union {b}
    /\ UNCHANGED <<wanted, runs, scan>>

RefetchRefused(b) ==
    /\ fetch = "refetch" /\ b \in missing
    /\ Fault
    /\ missing' = missing \ {b}
    /\ UNCHANGED <<fetch, wanted, runs, buffer, cached, scan, answered, lostWrite>>

EndRefetch ==
    /\ fetch = "refetch" /\ missing = {}
    /\ \/ /\ fetch' = "done" /\ cached' = cached \union buffer
          /\ UNCHANGED <<lostWrite, faults>>
       \/ /\ buffer # {} /\ Fault
          /\ fetch' = "failed" /\ lostWrite' = TRUE
          /\ UNCHANGED cached
    /\ buffer' = {}
    /\ UNCHANGED <<wanted, runs, missing, scan, answered>>

Fetching ==
    \/ \E i \in DOMAIN runs :
        \/ AcquirePermit(i) \/ Post(i) \/ RunEnds(i)
        \/ \E t \in runs[i].tasks :
              Refused(i, t) \/ \E faulty \in BOOLEAN : Answered(i, t, faulty)
    \/ EndRuns
    \/ \E b \in missing : RefetchRefused(b) \/ \E faulty \in BOOLEAN : Refetched(b, faulty)
    \/ EndRefetch

-------------------------------------------------------------------------------

(* The write buffer is shared by the runs and flushed by whichever fills it:   *)
(* when a fetch or a refetch returns, every block that was answered is in the  *)
(* cache, unless a write failed.                                               *)
AnsweredIsCached == fetch = "done" /\ ~lostWrite => answered \subseteq cached

===============================================================================
