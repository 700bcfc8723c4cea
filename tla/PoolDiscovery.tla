----------------------------- MODULE PoolDiscovery ----------------------------
(* `mev-scout discover` (src/core/src/jobs/discover.rs, pool/discovery/mod.rs, *)
(* cache/store/pools.rs): scan blocks for activity and creation events of      *)
(* pools in windows, shards and split queries, write what was found, note the  *)
(* range as covered, merge with remote sources and write the merged universe.  *)
(* A query that fails does not fail the scan: it is logged and passed over.    *)
EXTENDS Integers, Sequences, FiniteSets, Functions

CONSTANTS
    Pools,
    Created,        \* the block of a pool's creation event; 0: before the chain we look at
    Active,         \* the blocks in which a pool emits activity
    Tokenless,      \* pools whose creation event names no tokens (Curve, Balancer, Fluid)
    Filled,         \* those of them whose contract is asked once they were active (Fluid)
    Nameless,       \* pools whose activity gives no tokens either (Curve, Pancake Infinity)
    Singletons,     \* pools of which activity alone says nothing (V4, Metric): they are passed over
    Remote,         \* the pools remote sources know
    Guessed,        \* those of them that a remote source labels as UniswapV2 for want of better
    MaxBlock,       \* bound: the chain's length
    MaxRuns,        \* bound: runs of the job
    MaxShards,      \* providers that take a share of a range: 1 or 2
    Batch,          \* blocks of an activity window
    FactoryStep,    \* blocks of a factory window
    MinSplit,       \* MIN_SPLIT_BATCH
    Lookback,       \* pool_discovery_lookback_blocks
    MaxPools,       \* the cap of the ranking
    Sources,        \* the sources a run may have
    Modes,          \* "explicit", "full", "lookback", "creation": how a run finds its range
    Unlimited,      \* whether the provider takes windows concurrently
    Faults          \* what may fail: a query, a contract call, a lookup, a put, the note, the span's read

ASSUME DiscoveryAssumption ==
    /\ {MaxBlock, MaxRuns, MaxShards, Batch, FactoryStep, MinSplit, Lookback} \subseteq Nat \ {0}
    /\ MaxPools \in Nat
    /\ Created \in [Pools -> 0..MaxBlock]
    /\ \A p \in Pools : Active[p] \subseteq (Created[p] + 1)..MaxBlock
    /\ Guessed \subseteq Remote /\ Remote \union Singletons \subseteq Pools
    /\ Filled \subseteq Tokenless /\ Tokenless \union Nameless \subseteq Pools
    /\ Filled \intersect Nameless = {}
    /\ Sources \subseteq {"onchain", "enrich", "hybrid", "remote"}
    /\ Modes \subseteq {"explicit", "full", "lookback", "creation"}
    /\ Faults \subseteq {"query", "call", "lookup", "put", "note", "span"}

VARIABLES
    tip,
    rows,       \* pool_info
    mark,       \* discovery_scan_watermark: the lowest and the highest block, or Unscanned
    job,        \* the run under way
    shards,     \* the shards of the range it scans
    scanned,    \* history: the blocks of the ranges that a run has noted
    lost,       \* history: the queries given up with a warning, as <<kind, block>>
    dropped     \* history: <<pool, block>> of what was seen and not written: no tokens, or no write

vars == <<tip, rows, mark, job, shards, scanned, lost, dropped>>

Blocks == 1..MaxBlock
Unscanned == <<0, 0>>
None == [created |-> 0, factory |-> FALSE, kind |-> "none", tokens |-> FALSE]
NoPools == [p \in Pools |-> None]
Known(found) == {p \in Pools : found[p] # None}
Found(created, factory, kind, tokens) ==
    [created |-> created, factory |-> factory, kind |-> kind, tokens |-> tokens]
Lowest(S) == CHOOSE x \in S : \A y \in S : x <= y
Least(a, b) == IF a < b THEN a ELSE b
Largest(a, b) == IF a > b THEN a ELSE b

-------------------------------------------------------------------------------
(* What a row takes from another one of the same pool: what it lacks, but for  *)
(* the tokens, which no merge fills in. The                                    *)
(* label UniswapV2 without a fee is a guess, with a fee it counts as confirmed *)
(* ("labelled").                                                               *)
MergeKind(a, b) == IF a.kind = "guess" THEN b.kind ELSE a.kind
MergeFrom(a, b) ==
    [created |-> IF a.created = 0 THEN b.created ELSE a.created,
     factory |-> a.factory \/ b.factory,
     kind |-> MergeKind(a, b),
     tokens |-> a.tokens]
MergePools(base, extra) ==
    [p \in Pools |-> IF base[p] = None THEN extra[p]
                     ELSE IF extra[p] = None THEN base[p] ELSE MergeFrom(base[p], extra[p])]

-------------------------------------------------------------------------------
(* Every n-th block.                                                           *)
Starts(from, to, n) == {x \in from..to : \E k \in 0..(to - from) : x = from + k * n}

(* A mutant that leaves out a last window of fewer than n blocks.              *)
BlockWindowsWhole(from, to, n) == {<<x, x + n - 1>> : x \in Starts(from, to - n + 1, n)}

(* Windows of n blocks that tile from..to.                                     *)
BlockWindows(from, to, n) == {<<x, Least(x + n - 1, to)>> : x \in Starts(from, to, n)}

Blocked(w) == w[1]..w[2]

(* The ways in which a query may turn out once it is split, as the blocks that *)
(* were answered and those given up: it is halved down to pieces of MinSplit,  *)
(* and a piece is answered, given up after its attempts, or halved again, down *)
(* to a single block, so that any of the blocks may be those answered.         *)
Answers(w) == {[got |-> g, skipped |-> Blocked(w) \ g] : g \in SUBSET Blocked(w)}
Answered(w) == [got |-> Blocked(w), skipped |-> {}]
GivenUp(w) == [got |-> {}, skipped |-> Blocked(w)]

(* An activity query that fails is split; a factory query is split only when   *)
(* its range was the trouble and it has no provider of its own.                *)
ActivityAnswers(w) == {Answered(w)} \union (IF "query" \in Faults THEN Answers(w) ELSE {})
FactoryAnswers(w, pinned) ==
    {Answered(w)}
      \union (IF "query" \in Faults THEN {GivenUp(w)} ELSE {})
      \union (IF "query" \in Faults /\ ~pinned /\ w[2] - w[1] >= MinSplit THEN Answers(w) ELSE {})

Emits(p, got) == Active[p] \intersect got # {}

-------------------------------------------------------------------------------
NoShard == [from |-> 1, to |-> 0, todo |-> {}, hits |-> [p \in Pools |-> 0], fact |-> {},
            phase |-> "merged"]
NewShard(from, to) ==
    [from |-> from, to |-> to, todo |-> BlockWindows(from, Least(from + FactoryStep - 1, to), Batch),
     hits |-> [p \in Pools |-> 0], fact |-> {}, phase |-> "activity"]
IdleJob == [pc |-> "idle", runs |-> 0, source |-> "onchain", cancelled |-> FALSE, ranges |-> <<>>,
            out |-> NoPools, pools |-> NoPools, todo |-> {}, misread |-> {}]

Init ==
    /\ tip \in 1..MaxBlock
    /\ rows = NoPools /\ mark = Unscanned
    /\ job = IdleJob /\ shards = <<>>
    /\ scanned = {} /\ lost = {} /\ dropped = {}

(* The tip is read when a run starts: it moves between runs.                   *)
Mine ==
    /\ job.pc = "idle" /\ tip < MaxBlock /\ tip' = tip + 1
    /\ UNCHANGED <<rows, mark, job, shards, scanned, lost, dropped>>

-------------------------------------------------------------------------------
(* The block range of a run: what it was told, or the last Lookback blocks.    *)
ScanWindow(mode) ==
    IF mode = "explicit" THEN {w \in Blocks \X Blocks : w[1] <= w[2] /\ w[2] <= tip}
    ELSE {<<Largest(tip - Lookback + 1, 1), tip>>}

(* Gaps below and above what is covered.                                       *)
WithGap(q, r) == IF r[1] <= r[2] THEN Append(q, r) ELSE q
LookbackScanRanges(from, to) ==
    IF mark = Unscanned THEN <<<<from, to>>>>
    ELSE LET below == <<from, Least(mark[1] - 1, to)>>
             above == <<Largest(mark[2] + 1, from), to>>
         IN  WithGap(WithGap(<<>>, below), above)

MaxCreationBlock == CHOOSE b \in 0..MaxBlock :
    /\ \A p \in Pools : rows[p].created <= b
    /\ b = 0 \/ \E p \in Pools : rows[p].created = b

ScanRanges(mode, from, to) ==
    CASE mode = "lookback" -> LookbackScanRanges(from, to)
      [] mode = "creation" -> IF MaxCreationBlock + 1 > to THEN <<>>
                              ELSE IF MaxCreationBlock = 0 THEN <<<<from, to>>>>
                              ELSE <<<<MaxCreationBlock + 1, to>>>>
      [] OTHER -> <<<<from, to>>>>

(* A run whose read of the span, or of the latest creation, fails scans all.   *)
Reads(mode) == IF "span" \in Faults THEN {mode, "full"} ELSE {mode}

StartRun ==
    /\ job.pc = "idle" /\ job.runs < MaxRuns
    /\ \E source \in Sources, mode \in Modes : \E w \in ScanWindow(mode), read \in Reads(mode) :
          LET ranges == IF source = "remote" THEN <<>> ELSE ScanRanges(read, w[1], w[2])
          IN  job' = [IdleJob EXCEPT !.pc = IF ranges # <<>> THEN "range"
                                            ELSE IF source = "onchain" THEN "idle" ELSE "remote",
                                     !.runs = job.runs + 1, !.source = source, !.ranges = ranges]
    /\ UNCHANGED <<tip, rows, mark, shards, scanned, lost, dropped>>

(* The flag is read while a range is scanned, and nowhere else.                *)
Cancel ==
    /\ job.pc \in {"range", "scan"} /\ ~job.cancelled
    /\ job' = [job EXCEPT !.cancelled = TRUE]
    /\ UNCHANGED <<tip, rows, mark, shards, scanned, lost, dropped>>

EndRun == [IdleJob EXCEPT !.runs = job.runs]

(* The next range is dealt out to one or two providers.                        *)
StartRange ==
    /\ job.pc = "range" /\ job.ranges # <<>>
    /\ LET from == Head(job.ranges)[1]
           to == Head(job.ranges)[2]
       IN  \/ shards' = <<NewShard(from, to)>>
           \/ MaxShards > 1 /\ \E m \in from..(to - 1) : shards' = <<NewShard(from, m), NewShard(m + 1, to)>>
    /\ job' = [job EXCEPT !.pc = "scan", !.out = NoPools]
    /\ UNCHANGED <<tip, rows, mark, scanned, lost, dropped>>

Pinned == Len(shards) > 1

(* One window's activity joins the shard's hits: the first window to come back *)
(* names the block at which a pool was first seen.                             *)
ScanActivity(s) ==
    LET shard == shards[s] IN
    /\ job.pc = "scan" /\ shard.phase = "activity"
    /\ \E w \in shard.todo :
          /\ Unlimited \/ \A v \in shard.todo : w[1] <= v[1]
          /\ \E a \in ActivityAnswers(w) :
                /\ shards' = [shards EXCEPT
                      ![s].hits = [p \in Pools |->
                          IF shard.hits[p] = 0 /\ Emits(p, a.got) THEN Lowest(Active[p] \intersect a.got)
                          ELSE shard.hits[p]],
                      ![s].todo = @ \ {w},
                      ![s].phase = IF shard.todo = {w} THEN "factory" ELSE @]
                /\ lost' = lost \union ({"activity"} \X a.skipped)
    /\ UNCHANGED <<tip, rows, mark, job, scanned, dropped>>

(* The creation events of the coarse window, and on to the next one; a shard   *)
(* that scans alone looks at the cancel flag in between.                       *)
ScanFactories(s) ==
    LET shard == shards[s]
        end == Least(shard.from + FactoryStep - 1, shard.to)
    IN
    /\ job.pc = "scan" /\ shard.phase = "factory"
    /\ \E a \in FactoryAnswers(<<shard.from, end>>, Pinned) :
          LET fact == shard.fact \union {p \in Pools : Created[p] \in a.got} IN
          /\ lost' = lost \union ({"factory"} \X a.skipped)
          /\ IF job.cancelled /\ ~Pinned
             THEN shards' = <<>> /\ job' = EndRun
             ELSE /\ shards' = [shards EXCEPT ![s] =
                        IF end = shard.to THEN [shard EXCEPT !.fact = fact, !.phase = "resolve"]
                        ELSE [NewShard(end + 1, shard.to) EXCEPT !.fact = fact, !.hits = shard.hits]]
                  /\ job' = job
    /\ UNCHANGED <<tip, rows, mark, scanned, dropped>>

Seen(shard, p) == p \in shard.fact \/ shard.hits[p] # 0
Cached(p, missed) == rows[p] # None /\ p \notin missed

(* Whose cached row is looked up: all that were active, but for those whose    *)
(* creation event was seen and said all.                                       *)
LooksUp(shard) == {p \in Pools : shard.hits[p] # 0 /\ (p \in shard.fact => p \in Filled)}

(* The contracts that are asked for tokens, and may not answer.                *)
Asks(shard, missed) == {p \in LooksUp(shard) \ (Nameless \union Singletons) : ~Cached(p, missed)}

FromCreation(shard, p, failed, missed) ==
    Found(Created[p], TRUE, "exact", p \notin Tokenless \/ (p \in Asks(shard, missed) \ failed /\ p \in Filled))

(* A mutant that does not look a pool up in the cache.                         *)
FromScanUncached(shard, p, failed, missed) ==
    IF p \in shard.fact THEN FromCreation(shard, p, failed, missed)
    ELSE IF shard.hits[p] = 0 \/ p \in Singletons THEN None
    ELSE Found(shard.hits[p], FALSE, "exact", p \notin failed \union Nameless)

(* What a shard makes of its hits: a creation event says all it ever says; a   *)
(* cached row is taken as it is, and a lookup that fails has no row; of the    *)
(* rest, those with a contract are asked for their tokens.                     *)
FromScan(shard, p, failed, missed) ==
    IF p \in shard.fact THEN FromCreation(shard, p, failed, missed)
    ELSE IF shard.hits[p] = 0 THEN None
    ELSE IF Cached(p, missed) THEN rows[p]
    ELSE IF p \in Singletons THEN None
    ELSE Found(shard.hits[p], FALSE, "exact", p \notin failed \union Nameless)

ThisRange == (Head(job.ranges)[1])..(Head(job.ranges)[2])

(* A shard is merged when it is done; the first shard to name a pool is        *)
(* believed.                                                                   *)
MergeShard(s) ==
    /\ job.pc = "scan" /\ shards[s].phase = "resolve"
    /\ \E missed \in IF "lookup" \in Faults THEN SUBSET {p \in LooksUp(shards[s]) : rows[p] # None} ELSE {{}} :
       \E failed \in IF "call" \in Faults THEN SUBSET Asks(shards[s], missed) ELSE {{}} :
          LET told == [p \in Pools |-> FromScan(shards[s], p, failed, missed)] IN
          /\ job' = [job EXCEPT !.out = [p \in Pools |-> IF @[p] # None THEN @[p] ELSE told[p]],
                                !.misread = @ \union missed]
          /\ dropped' = dropped \union ({p \in Pools : Seen(shards[s], p) /\ told[p] = None} \X ThisRange)
    /\ shards' = [shards EXCEPT ![s] = NoShard]
    /\ UNCHANGED <<tip, rows, mark, scanned, lost>>

(* All shards are in: what they found is written, unless the run is cancelled. *)
EndScan ==
    /\ job.pc = "scan" /\ \A s \in DOMAIN shards : shards[s] = NoShard
    /\ shards' = <<>>
    /\ job' = IF Pinned /\ job.cancelled THEN EndRun
              ELSE [job EXCEPT !.pc = "write", !.todo = Known(job.out)]
    /\ UNCHANGED <<tip, rows, mark, scanned, lost, dropped>>

(* put_discovered_pool: the row is replaced. One without tokens is skipped,    *)
(* and counted in a warning; a write that fails is warned of.                  *)
WriteFound ==
    /\ job.pc = "write"
    /\ \E p \in job.todo :
          /\ \/ /\ job.out[p].tokens
                /\ rows' = [rows EXCEPT ![p] = job.out[p]]
                /\ dropped' = dropped
             \/ /\ job.out[p].tokens => "put" \in Faults
                /\ rows' = rows
                /\ dropped' = dropped \union ({p} \X ThisRange)
          /\ job' = [job EXCEPT !.todo = @ \ {p}]
    /\ UNCHANGED <<tip, mark, shards, scanned, lost>>

(* note_discovery_scan: the span grows to take the range in. If it fails the   *)
(* run goes on.                                                                *)
SpanWith(from, to) ==
    IF mark = Unscanned THEN <<from, to>> ELSE <<Least(mark[1], from), Largest(mark[2], to)>>

NoteScan ==
    /\ job.pc = "write" /\ job.todo = {}
    /\ \/ /\ mark' = SpanWith(Head(job.ranges)[1], Head(job.ranges)[2])
          /\ scanned' = scanned \union ThisRange
       \/ "note" \in Faults /\ UNCHANGED <<mark, scanned>>
    /\ job' = [job EXCEPT !.ranges = Tail(@), !.pools = MergePools(@, job.out), !.out = NoPools,
                          !.pc = IF Len(job.ranges) > 1 THEN "range" ELSE "remote"]
    /\ UNCHANGED <<tip, rows, shards, lost, dropped>>

-------------------------------------------------------------------------------
FromRemote(p) == Found(0, FALSE, IF p \in Guessed THEN "guess" ELSE "exact", TRUE)

(* The ranking keeps pools of known TVL, up to the cap.                        *)
Rankings(priced) ==
    {kept \in SUBSET priced :
        Cardinality(kept) = IF MaxPools = 0 THEN Cardinality(priced) ELSE Least(MaxPools, Cardinality(priced))}

(* Remote sources, of which any may be silent, tell of pools: these are filled *)
(* in or added to what the scan found, as the run's source has it.             *)
FromRemotes(told) == [p \in Pools |-> IF p \in told THEN FromRemote(p) ELSE None]
Merged(told) ==
    CASE job.source = "remote" -> FromRemotes(told)
      [] job.source = "hybrid" -> MergePools(job.pools, FromRemotes(told))
      [] job.source = "enrich" -> [p \in Pools |-> IF job.pools[p] = None THEN None
                                                   ELSE MergePools(job.pools, FromRemotes(told))[p]]
      [] OTHER -> job.pools

(* A run that asked remote sources is ranked.                                  *)
MergeRemote ==
    /\ job.pc = "remote"
    /\ \E told \in IF job.source = "onchain" THEN {{}} ELSE SUBSET Remote :
          \E kept \in IF job.source = "onchain" THEN {Known(job.pools)} ELSE Rankings(told \intersect Known(Merged(told))) :
             job' = [job EXCEPT !.pools = [p \in Pools |-> IF p \in kept THEN Merged(told)[p] ELSE None],
                                !.pc = "metadata"]
    /\ UNCHANGED <<tip, rows, mark, shards, scanned, lost, dropped>>

(* What a pool lacks is asked of its contract, which may not answer, or not    *)
(* have the call: a guess becomes a label with a fee, and tokens are filled    *)
(* in.                                                                         *)
Fillable(p) == p \notin Singletons /\ (p \in Filled \/ p \notin Tokenless \union Nameless)
Completed(x, rated, named) ==
    [x EXCEPT !.kind = IF rated THEN "labelled" ELSE @, !.tokens = @ \/ named]

ResolveMetadata ==
    /\ job.pc = "metadata"
    /\ \E rated \in SUBSET {p \in Known(job.pools) : job.pools[p].kind = "guess" /\ p \notin Singletons},
          named \in SUBSET {p \in Known(job.pools) : ~job.pools[p].tokens /\ Fillable(p)} :
          job' = [job EXCEPT !.pools = [p \in Pools |-> Completed(@[p], p \in rated, p \in named)],
                             !.pc = "health"]
    /\ UNCHANGED <<tip, rows, mark, shards, scanned, lost, dropped>>

(* A probe that says drained removes a pool, one that fails does not.          *)
HealthCheck ==
    /\ job.pc = "health"
    /\ \E drained \in SUBSET Known(job.pools) :
          LET kept == Known(job.pools) \ drained IN
          job' = [job EXCEPT !.pools = [p \in Pools |-> IF p \in kept THEN @[p] ELSE None],
                             !.todo = kept, !.pc = "persist"]
    /\ UNCHANGED <<tip, rows, mark, shards, scanned, lost, dropped>>

(* persist_universe, one pool: the new row takes from the stored one what it   *)
(* lacks, or replaces it if the lookup fails; one without tokens is skipped,   *)
(* and a write that fails is warned of.                                        *)
PersistPool ==
    /\ job.pc = "persist"
    /\ \E p \in job.todo, missed \in IF "lookup" \in Faults THEN BOOLEAN ELSE {FALSE} :
          LET new == IF Cached(p, IF missed THEN {p} ELSE {}) THEN MergeFrom(job.pools[p], rows[p])
                     ELSE job.pools[p]
          IN
          /\ \/ job.pools[p].tokens /\ rows' = [rows EXCEPT ![p] = new]
             \/ (job.pools[p].tokens => "put" \in Faults) /\ rows' = rows
          /\ job' = [job EXCEPT !.todo = @ \ {p}, !.misread = IF missed THEN @ \union {p} ELSE @]
    /\ UNCHANGED <<tip, mark, shards, scanned, lost, dropped>>

Finish ==
    /\ job.pc = "persist" /\ job.todo = {}
    /\ job' = EndRun
    /\ UNCHANGED <<tip, rows, mark, shards, scanned, lost, dropped>>

Crash ==
    /\ job.pc # "idle"
    /\ job' = EndRun /\ shards' = <<>>
    /\ UNCHANGED <<tip, rows, mark, scanned, lost, dropped>>

Next ==
    \/ Mine \/ StartRun \/ Cancel \/ StartRange
    \/ \E s \in DOMAIN shards : ScanActivity(s) \/ ScanFactories(s) \/ MergeShard(s)
    \/ EndScan \/ WriteFound \/ NoteScan
    \/ MergeRemote \/ ResolveMetadata \/ HealthCheck \/ PersistPool \/ Finish \/ Crash

Spec == Init /\ [][Next]_vars
-------------------------------------------------------------------------------
(* A row, a span and a run keep their shape, and the span stays within the     *)
(* chain (pool_info, discovery_scan_watermark, job_discover).                  *)
TypeOK ==
    /\ tip \in 1..MaxBlock
    /\ rows \in [Pools -> [created : 0..MaxBlock, factory : BOOLEAN, kind : {"none", "guess", "labelled", "exact"},
                        tokens : BOOLEAN]]
    /\ \A p \in Known(rows) : rows[p].tokens
    /\ mark # Unscanned => (1 <= mark[1] /\ mark[1] <= mark[2] /\ mark[2] <= tip)
    /\ job.pc \in {"idle", "range", "scan", "write", "remote", "metadata", "health", "persist"}
    /\ job.runs \in 0..MaxRuns /\ job.cancelled \in BOOLEAN
    /\ dropped \subseteq Pools \X Blocks /\ lost \subseteq {"activity", "factory"} \X Blocks

(* A block of a range that a run has noted as scanned is within the span, and  *)
(* what its pools emitted there is in the cache, or the log said that the      *)
(* query was given up, that the pool has no tokens, or that its row could not  *)
(* be written: no window, split, shard, cancellation or crash loses a block in *)
(* silence (note_discovery_scan after discover_and_cache).                     *)
FoundAt(p, b) ==
    /\ b \in Active[p] /\ <<"activity", b>> \notin lost => rows[p] # None \/ <<p, b>> \in dropped
    /\ b = Created[p] /\ <<"factory", b>> \notin lost => rows[p] # None \/ <<p, b>> \in dropped
CoveredIsFound ==
    \A b \in scanned : mark[1] <= b /\ b <= mark[2] /\ \A p \in Pools : FoundAt(p, b)

(* What one run knows of a pool is not lost to a later run that saw less of    *)
(* it: its row stays, with the factory that made it, and its creation is never *)
(* put later than it was, nor before the event, unless the later run's lookup  *)
(* of the row failed, which it takes for no row (persist_universe, the cached  *)
(* rows of fetch_dex_metadata).                                                *)
KnowledgeKept ==
    [][\A p \in Known(rows) \ job'.misread :
          /\ rows'[p] # None
          /\ rows[p].factory => rows'[p].factory
          /\ rows[p].created # 0 => rows'[p].created \in Largest(1, Created[p])..rows[p].created]_rows

===============================================================================
