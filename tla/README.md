# TLA+ models of mev-scout

mev-scout watches EVM chains for extractable value. Its *explorer* indexes blocks
into an SQLite store, classifies what searchers did in them and reports on it. Its
*backtest* and *live* jobs fetch blocks into a cache, replay them over the state of
the pools, look for opportunities, and account for them in a paper ledger, which
may run them against a fork. Everything reads the chain through one RPC client
over a pool of unreliable providers.

This directory models what the code keeps between two steps and what can happen
there: reorgs, failed calls, crashes, concurrent calls and processes, answers that
come late or twice, state that is kept too long. The models are translated from
the source. `PROJECT.json` maps every definition to its lines, lists the hazards of
the code with the properties about them, and for every property a mutant: a
plausible bug, in the place of the definition that follows it, with which the
property fails. Paths below are under `src/core/src/` unless they say otherwise.

## Inventory

| Component | State | Operations | What is hard, and what makes it correct | Modules |
|---|---|---|---|---|
| Live indexer (`explorer/ingest.rs`, `run_live`) | cursor, next block, failure and sweep counters; the store | a poll: safe head, tip compare, sweep, price, a block at a time, checkpoint | The chain reorganises between two awaits, a poll fails half-way, the process dies. The store holds the chain, nothing is skipped, an unwind takes only stale blocks. | `ExplorerIndex` |
| Index job (`jobs/index.rs`) | stop and cancel flags | `run_live` joined with a cancel poller and a deadline | `join!` waits for all three. | `IndexJob` |
| Historical backfill (`run_range`) | missing blocks, chunks under way, fetched and skipped blocks | serial path, pipeline of overlapping chunks | Arrival in any order, failed chunks, a crash and a second run. | `BackfillPipeline` |
| Explorer store (`explorer/store`) | facts per block, rejects, JIT positions, checkpoint, schema version | inserts, unwinds, migrations, queries | Which rows share a transaction; two processes that open an old file. | `ExplorerStore`, `ExplorerSchema`, `ExplorerFacts` |
| RPC client (`rpc/client.rs`, `middleware.rs`) | per provider: alive, cooldown, capability, weight, bucket | calls with fallback, pinned calls, batches, the search for the horizon | Calls share the health of the providers and hold lists that are out of date. | `RpcProviders`, `RpcRequests` |
| Fetcher (`fetch/fetcher.rs`) | shared write buffer | `fetch_range`, `fetch_relevant`, refetch of gaps | A buffer of many tasks, cancellation, the first error. | `Fetcher` |
| Block cache (`cache/store`) | blocks, receipts, accounts, pools, spans, schema | reads, batch writes, migrations | What is recorded as covered; a file opened half-way. | `Fetcher`, `PoolDiscovery`, `CacheSchema` |
| Live session (`jobs/live.rs`) | last block, failures, span, results | poll, pass, persist, ledger | A pass that fails half-way is retried over a range that has grown. | `LiveSession` |
| Discovery (`pool/discovery`) | covered spans, pool rows | scan, split, merge, rank, health check | Queries given up, shards that finish in any order, several sources. | `PoolDiscovery` |
| Pool state (`pool/state`) | the pools, index, pairs, dirty set, learned taxes, undo log | load, apply logs, undo, quote | Load by fallbacks over calls and slots; state carried from block to block. | `PoolInit`, `PoolState`, `PoolQuotes` |
| Pool maths (`pool/math`) | none | quotes, bands, search for the best input | Rounding, band edges, walks over ticks. | `PoolQuotes` |
| Detectors (`mev/detectors`) | emission keys, mints, graph | two-hop, backrun, multi-hop, JIT | Only touched pools are scanned again; the search bans pools and goes on. | `BacktestRunner`, `MevDetectors` |
| Pipeline (`pipeline/runner.rs`) | the manager, results | a range of blocks, replayed or log-only | A replay fails in the middle and the block is synchronised instead. | `BacktestRunner`, `BlockApply` |
| Replay (`replay`) | the database of a fork over the cache | replay, filtered replay, what-if | State cached too long, skipped transactions. | `BlockReplay` |
| Classification (`explorer/classify`, `decode`, `profit.rs`) | claims, open positions | seven passes and the claims | Passes emit independently for the same transaction. | `ExplorerFacts`, `ExplorerClassify` |
| Dashboard and report (`explorer/dashboard`, `src/cli/.../report.rs`) | none | queries, reduction, CSV | The store is written to while it is read. | `ExplorerReport` |
| Paper ledger (`paper`) | positions, capital, counters | three ways of booking, reconciliation | Three modes with gates of their own book the same list. | `PaperLedger` |
| Execution session (`exec`) | forks, cached answers | plan, run in revm or on anvil, book | Answers outlive the fork they come from. | `ExecSession` |
| `src/contracts/src/FlashArbExecutor.sol` | owner | execute and its callback | Approvals, repayment, revert as a whole. | `FlashExecutor` |
| Multicall, token caches, range resolver, signatures, configuration, command line | none, or a map | encoding, lookup, parsing | See *Not modelled*. | |

How they interact. The command line starts a job; a job owns an RPC client and a
store. `job_index` shares a flag with `run_live`. `run_live` and `run_range` write
the same store through `index_block_fetched`, which calls the classification;
reports and pages read that store from other processes. Discovery writes pool rows
into the block cache; the factory turns them into the manager's pools. The live
session drives fetcher, pipeline, execution session and ledger in turn; the
pipeline drives replay and detectors over the manager; the detectors ask the pool
maths for the best input. All fetches go through the client.

## Modules

```
ExplorerStore            what the writers of the store do, as readers see it
  ExplorerIndex          the live indexer, its store and the chain; implements ExplorerStore
    IndexJob             EXTENDS it with the tasks the job joins it with
    ExplorerIndexProofs
  ExplorerReport         the readers, EXTENDS ExplorerStore
    MCExplorerReport     with StoreSchemas
ExplorerSchema, CacheSchema
  StoreSchemas           the two side by side
BackfillPipeline         MCBackfillPipeline; BackfillStoresProofs, with StoreSchemas
RpcProviders             MCRpcProviders; ClientAndDiscoveryProofs, with PoolDiscovery
RpcRequests              MCRpcRequests, RpcRequestsProofs
BlockApply               what a replay promises about pool state
  PoolState              the manager, as operators from managers to managers
    BacktestRunner       the range, EXTENDS PoolState; implements BlockApply
      BacktestRunnerProofs
      MCMevDetectors     with MevDetectors and PoolQuotes, over MCBacktestRunner
PoolInit, BlockReplay    MCPoolInit, MCChainState
ExplorerFacts            what is read out of a transaction
  ExplorerClassify       MCExplorerClassify, ExplorerClassifyProofs
Fetcher
  LiveSession            EXTENDS it; MCLiveSession, LiveSessionProofs
PoolDiscovery            MCPoolDiscovery
PaperLedger, FlashExecutor
  ExecSession            EXTENDS both; MCExecSession, ExecSessionProofs
```

Three MC modules put components side by side that share nothing: a constant
`session` (or `command`) of a behaviour chooses which of them takes steps.

### ExplorerIndex, IndexJob

A block is a height and a version, the number of the reorg that produced it: all
that a block hash tells this code. `chain` gives the version at each height,
`head` the tip, and `Reorg(h)` renews everything from `h` up. `stored[b]` stands for
the rows of one `insert_block_facts`, which are committed and deleted together;
`rejects` and `jit` are written in transactions of their own; `indexedTo` is the
checkpoint.

| Action | Code |
|---|---|
| `Stop`, `HeadFails`, `PollHead` | the head of the loop: stop flag, `safe_head`, tip jump or resume |
| `VerifyTip`, `SkipSweep`, `Sweep` | the two reorg probes |
| `WalkOn`, `WalkFails`, `WalkEnds`, `UnwindFails` | `walk_to_fork`, one hash per step, and `unwind_from` |
| `Price`, `SkipClassified`, `Fetch`, `FetchFails` | up to a fetched block |
| `PersistRejects`, `PersistFacts`, `PersistJit` | the three transactions of `index_block_fetched` |
| `Checkpoint` | the end of a poll |
| `Mine`, `Reorg`, `Die`, `RequestStop`, `Restart` | the environment |

Every action ends at an `await` or a commit, so the environment may act between
any two. Errors of queries that the store turns into "no row" are modelled so.
`IndexJob` adds the cancel poller, the deadline and the join.

### BackfillPipeline

`todo` is `missing[next_spawn..]`, `left` is `missing[next_persist..]` without the
skipped blocks, and a chunk under way is a set of blocks. `Fill` is the refill that
follows each of the three places where it stands in the code. `Crash` keeps what was
committed. The chain does not reorganise here: the code takes the range as final.

### RpcProviders, RpcRequests

`RpcProviders` has the passes of `retry_call_impl` per call (`sorted`, `tried`,
`found`, `waits`) over the health that calls share; reading a list and recording an
outcome are separate steps, since the lock is released between them. Times are left
out: a cooldown ends at any moment. A provider may be down, or answer without what was
asked for (`partial`: it lags, or lacks the block), which the code records as a failure
too. `RpcRequests` has what that leaves out, for
the operations that take several requests: buckets and permits, weights that are
rates, repetitions, batches that are split, the binary search for the horizon, the
probes that do not retry; there time passes in ticks, `allowance` is a history of what
a provider was configured to admit, and `opening` of the requests that the check at the
start sent without a token.

### Fetcher, LiveSession

Everything runs on one task, so what happens between two awaits is one step: an
answer pushes its blocks, flushes the buffer if it is full, and asks whether to go
on. A batch of blocks is an interval, so the buffer after it is given in closed form:
`Fills(lo)` says how many of its blocks fill the buffer the first time, and the last
flush takes what lies below the rest of the division. `LiveSession` extends it with setup, one pass or following the tip, scan,
persistence, ledger and the last row, with failures at each place the code catches.

### PoolDiscovery

Windows, shards and split queries over a chain in which pools are created and are
active at given blocks; what is given up, what a run notes as covered, and the
merged universe that is written back. `mark` is the span that is stored, which is a
hull; `scanned` is a history of the ranges themselves, and `CoveredIsFound` is about
those: of a gap between two of them the code knows nothing. Calls of the cache, of
contracts and of nodes fail by kind (`Faults`). A creation event names tokens or it
does not (`Tokenless`), and what was seen and not written is in `dropped`; the pools of
which a lookup failed in the run under way are `job.misread`.

### PoolInit, BlockReplay

`PoolInit`: a task per pool, whose next call is the first of those its answers so
far call for; repair, fetch, removal and indexing are rounds. `BlockReplay`: a toy
EVM (external) with nonces, balances, a slot per contract and delegated code, over a
database that loads lazily from the cache or the providers.

### PoolState, BacktestRunner, MevDetectors, PoolQuotes

`PoolState` gives the methods of the manager as operators; `BacktestRunner` is the
loop over the range with rollback and incremental scanning. `MevDetectors` has the
detectors over one block, with prices as logarithms: a path earns at some size
exactly when its rates at size zero multiply to more than one. `PoolQuotes` has what
that abstracts: the quotes by kind of pool, the walk over ticks, the bands, the
closed form for two products, the golden-section search as actions
(`OpenBracket`, `NarrowLow`, `NarrowHigh`, `CloseBracket`), and the state a swap
leaves (`Consume`, `Requote`). Square roots of prices are multiples of 1/1000, and
`Word` and `Limb` stand for 2^128 and 2^64. Pools with an invariant are any
increasing concave curve.

### ExplorerFacts, ExplorerClassify

A library of transactions as the decoder sees them; attachment of tokens, balances,
cycles, the seven passes in their order, the claims, upserts and open positions.

### ExplorerReport, ExplorerSchema, CacheSchema, StoreSchemas

The nine queries of a report are a step each and a page is one; between them the
steps of `ExplorerStore`. `ExplorerSchema` runs a statement per step (the rebuilds of
`mev_ops` are one transaction), for several openers, each of which may die anywhere. `FilesAssumption` says what an
old file may hold: rows that the tables of its version allow.
`CacheSchema` runs the list of the cache, whose version is never recorded.
`StoreSchemas` states what both promise whoever has opened them.

### PaperLedger, ExecSession, FlashExecutor

A ledger is a value and an operator takes it past one opportunity, in each of three
modes. `ExecSession` books the list again after every pass and runs what has no
answer yet, in revm or on an anvil fork; both run `FlashExecutor`, in which a step
that reverts reverts the call.

## Runs

All twelve pass. Bounds are constants named in the modules. Counters that are
constants of the code (failure caps, sweep length, waits, buffer and batch sizes)
are made small: the code compares against each of them in one place, and the values
taken are the least at which below, at and beyond differ.

| Run | Question | Bounds |
|---|---|---|
| `IndexDeep` | Does an unwind take only what is stale, and is the indexer an `ExplorerStore` to its readers? | two reorgs up to three deep at any moment, so that one may hit the walk that the other caused; an error, a crash, providers that die |
| `JobEnds` | Is the store canonical and the session without gaps, do a cancel and a deadline end the job, is the tip reached? | the indexer in its job, a reorg no deeper than the confirmation, an error, a lagging head, providers that may die |
| `BackfillSafe` | Is a block lost, or persisted out of order, or does the pipeline stall? | six blocks, one to four chunks at a time, of one, two, three and over-long ones; two errors, two runs |
| `RpcCalls` | Can a call fail too early, or without a provider that could have served it? | two calls, three providers: an archive, one that only says so, a full node; one change of what a provider answers |
| `Requests` | Do requests keep to the rate, do batches come back whole and in order, does each operation end? | two operations at once, a limited and an unlimited provider, a failure, an outage; the check at the start asks a provider that answers once, one that does not up to its last attempt |
| `Live` | Is a block lost between answer and cache, applied twice, or outside the span; does a session go on? | four blocks, two providers, two faults, cancel and deadline at any moment |
| `Discover` | Does a covered block lose anything in silence, and does a run forget what an earlier one knew? | two pools, of which one creation names no tokens and one is known to a remote source, two shards, two runs over four blocks: the trailing ones that are not covered, which may be two ranges, all, or the third alone, so that a gap is covered by the hull; every kind of fault |
| `ChainState` | Have loaded pools the state of their block, and is each that answers kept? Do replays agree with the receipts? | universes of up to three pools of every kind, balances around one limb, two faults; three blocks replayed three times, with a fork and a blob transaction |
| `Backtest` | Is a profitable pair left unscanned, a failed replay undone, the range a `BlockApply`? Do the detectors agree and find what there is? Is the size found the best? | five pools and three blocks; three transactions of a block, two pools paired of most tokens; nineteen pairs and cycles, and swaps in two parts |
| `Classify` | Do claims and events agree, and was an arbitrage earned? | every block of two transactions of the library, of three of its core, of four and five of smaller ones |
| `Paper` | Do answers stand, are quotes what the contract earns, do the three modes settle? | nine opportunities of two blocks, three passes, both backends, four faults |
| `Reports` | Do sections and panels agree while the store is written? Is an opened file complete, and are its rows there? | three heights in two versions, two writes; five old files and three caches, two openers, a death |

Three properties are conjunctions: `PoolsAreLoaded` (what is kept is of its block;
what answers is kept and indexed), `OpenedIsComplete` (either database, once
open), and `SessionProgresses` (a stop ends a session; otherwise the tip is
reached).

Some preconditions are there because the code promises no more, or does less (see
below): `StoredCanonical` and the two next to it hold for reorgs no deeper than the
confirmations; `QuietMeansAligned` where marginal rates are exact and the tokens are
no more than the rounds of relaxation; `MirrorsTwoHop` for pairs that the smaller of
their tokens claims; `JitIsCompleted` names the range only where a transaction opened one
position on the pool; `ReplayIsChain` while no transaction was skipped, and up to the
first blob transaction of a block; `PoolsAreLoaded` for balances of one limb where the
code reads one (Curve, bins, Pendle); `ClosedFormIsBest` for products that are squares;
`SplitGainsNothing` for swaps that end inside the known range; `RowsAreTheBlocks` pairs by index only where
the dropped transactions stand last; `CoveredIsFound` but for pools whose tokens are not
known and rows that could not be written, of which the log warns; `KnowledgeKept` but for
pools whose row could not be looked up; `AnswersStand` allows another run for each answer
that was lost.

`CHECK_DEADLOCK FALSE` is given where the system may stop: a run that was stopped or
gave up, a session that ended, a list that is done. `RpcCalls` checks for deadlock.

### Fairness

* `IndexJob!JobSpec`: weak fairness of `run_live`, of the two other tasks and of the
  join. `run_live` is a loop of awaits each of which completes (the HTTP client has
  a timeout), the runtime polls all joined tasks, the deadline passes. Nothing is
  assumed of the chain, of providers or of the user. Errors are limited by their
  bound, so `CatchesUp` speaks of an indexer whose calls fail finitely often.
* `LiveSession!Spec`: weak fairness of the session's own steps, for the same reason.
* `RpcRequests!Spec`: weak fairness of every task and of time, which refills buckets
  and ends cooldowns. Providers need not come back.

### Refinement

`IndexDeep` checks, and `IndexerImplementsStore` proves, that `ExplorerIndex` with its
own `stored`, `rejects` and `indexedTo` implements `ExplorerStore`; the readers of
`ExplorerReport` are checked over that specification instead of the indexer, so what
they rely on is what the indexer provides. `Backtest` checks that `BacktestRunner`
implements `BlockApply` under the mapping that shows, while a block is under way, the
pools as they were before it.

## Theorems

Proved for every value of the constants that satisfies the assumptions of the module:
`BoundsAssumption`, `RequestsAssumption`, `PoolAssumption`, `FetcherAssumption`,
`SessionAssumption`, `DiscoveryAssumption`, `FilesAssumption`, `SchemaAssumption`,
`CacheAssumption`, `ClassifyAssumption`, `RunnerAssumption`, `LedgerAssumption`,
`OppsAssumption`, `SnapshotAssumption`, `ExecAssumption`, `ChainAssumption`. They say that limits are naturals, and positive where the code
divides by them or counts up to them; that providers are finitely many; that a pool is
active after it was created; that a block is a sequence of transactions; that a log which
decodes carries numbers, and a pool's first state holds some; that an opportunity is known by its id; that what is simulated is a cycle; that a pair has
two tokens, charges something and less than everything, and does not change its tokens or
fee between two blocks; and what an old file holds. TLC evaluates each of them in a run.

Live indexer, `ExplorerIndexProofs`:

* `TypeCorrect`. `TypeOK` needs `FlightOK`: the block in flight is a height of the
  chain, and a run that goes on is below its failure cap.
* `UnwindsFromStaleBlockThm`, for reorgs of any depth at any moment. The invariant
  is `VersionInv` (no row is of a version that does not exist yet) with `WalkInv`:
  during a walk the block above `walkAt` is stored and stale. It was compared some
  steps ago and the chain may have moved since, but a version never comes back.
* `IndexerImplementsStore`: the initial states map to the store's, and each action to
  one of its steps or to a stutter.
* `StoreIsCanonical`, `RejectsAreCanonical`, `SessionHasNoGap`, each under
  `MaxDepth <= Confirmations`. `ConfirmedInv` says that every row, and whatever is
  in flight, is the chain's block at or below `head - confirmations`; the lemma
  `ConfirmedStable` that a step never changes that part of the chain; hence no probe
  mismatches and `pc` is never `"walk"`. `SessionInv` adds that the blocks from the
  session's first to where the poll stands are stored, at each point of the loop.
  The last theorem needs the premise: with deeper reorgs it is false.

Backfill, `BackfillStoresProofs`:

* `NothingIsLost` from `CoverInv` (the range is covered by the store, what is left and
  what was skipped) and `PersistsInOrder` from `OrderInv` (what is left lies above what
  this run persisted).
* `PipelineNeverStalls`: the `bail!` on a pipeline that waits with nothing under way
  cannot be reached. `FlowInv` has two parts. `Apart`: arrived blocks, chunks and blocks
  to be asked for are disjoint, and the last lie above the others. `Accounted`: each
  block that is left is in one of the three, and while blocks are to be asked for some
  chunk is under way. The second needs what a refill spawns to be the lowest blocks,
  which is where chunks of a size (`Rank`, division) come in.

Client, `ClientAndDiscoveryProofs` and `RpcRequestsProofs`:

* `ClientAndDiscoveryProofs!TypeCorrect`, and `NoProviderLeftOut`: `CallInv` follows a call
  through its first pass, in which `tried` is within the list; `PassComplete` shows
  by cardinality that the test `tried.len() >= sorted.len()` ends that pass only
  when all were tried. It says nothing of later passes, where the list may shrink
  under the set of those tried. `AbleAreAsked` is about the providers that were up and
  lacked nothing since `validate_all` (`steady`): `SteadyOK` keeps them available, and
  capable if they have the state, through every step of every call; so a call is offered
  all that could serve it, and what they refused it was never held against them.
* `QuotaIsKept`. Buckets are refilled when somebody looks, at the rate of that moment,
  and weights move both the rate and the size. `QuotaInv` therefore bounds `Reach`, the
  tokens of a bucket plus the time it was left alone at its full configured rate, by the
  `allowance`, with what the check at the start took of it without a token: every change
  of weight only takes from it.
* `BatchesAreTheBlocks`. `BatchInv`: the rows are those of the first blocks that were
  asked for, and the parts in the queue are the slices of the rest between
  increasing cuts (`Cuts`); a part that fails puts its two halves in its place, which
  adds a cut, and one that is answered takes the first away.

Live session, `LiveSessionProofs`:

* `AnswersReachTheCache`. `FetchInv`: while runs go on and no write failed, what was
  answered is in the cache or in the buffer (`WriteLosesNothing`, for any batch and
  buffer size); the final flush empties the buffer.
* `SpanIsWhatWasApplied`. `SessionInv` relates, at each place of the loop, the last
  block, the range under way, the blocks applied to the pools and the span. A scan that
  is cancelled leaves the pools ahead of `last`; no later pass may then start, which
  is the part of it (`Place`) that is not obvious.

Discovery, `ClientAndDiscoveryProofs`: `NotedIsFound` and `KnowledgeIsKept`, from the one
invariant `DiscoverInv`. `ScanInv` says of each block of the range under way that what
happened there is found, given up with a warning, or still to be asked for by some open
shard, or `dropped` with one. `RangesInv`, `PoolsFit` and `OutInv` are about what several
ranges say of one pool: a later range lies above the earlier ones, so it cannot hold the
creation of a pool that is known, and what a run holds of a pool never puts its creation
later than its row does (`NoLater`); writing it takes nothing back. All that is said of
pools that were not misread.

Schema, `BackfillStoresProofs!EventsAreKept`: in every interleaving of the statements of
any openers, with deaths, each operation of the file is a row, and once. `RowsInv` says
which name a row goes by in either shape of the table (`Named`) and that an opener
that is at a rebuild has a table to rebuild.

`OpenedIsHead`, of any file that is whole when it is first opened (`Whole`: it has what
its version says; `StaysWhole` is that it has it again whenever nobody has it open, until
one is killed behind another, which is what `torn` records). The shape of the file alone is
not inductive, since an opener that lags rebuilds `mev_ops` to an older shape, creates a
paper table without its later columns, or lowers the version. `HeadInv` says of each
version that some live opener, or the mark in the file, has reached: what nobody takes
back is there (`Behind`), and each of the other steps is done or is covered (`Covers`), that
is, an opener still below it is on its way and will not fail before it gets there. One that
is about to add a column that is there by now, or is at the first rebuild, covers nothing
(`Doomed`). `HeadStep` reduces every action to what one opener's step does to each step of
the list (`Settles`). TLC found `HeadInv` to hold for two openers of files of versions 0, 4
and 9 with one death (299,951 states).

`CachesAreComplete`: a cache that is ready has every column, since no opener ever finds a
version recorded and each keeps what it has added (`CacherOK`). `StoresAreComplete` joins
the two.

Classification, `ExplorerClassifyProofs!ClaimsAreSettled`: `ClaimInv` follows the passes.
Events of all kinds but two touch only their own transaction; sandwiches consume what they
touch, and `Apart` says that a frontrun touches nothing of a sandwich. So the kind that
wins the front of a bundle is the bundle's own, which is why a claim on the close is not
left behind. The JIT pass drops arbitrages, each for an event of the same transaction
(`JitKeeps`).

Backtest, `BacktestRunnerProofs`, from one invariant, `RunnerInv`:

* `FailureIsUndone`. The manager has an undo log instead of a copy, so what is to be
  shown is that nothing changes without being recorded. `Records(pm, base)` says that the
  log holds the state in `base` of each pool whose state differs, and that what has no
  entry in it (index, known pools) has not changed; `OneLog` is that every log keeps it.
  A pool is recorded once, before its first change, or the rollback would restore the
  middle of a block (the mutant `RecordedLast`).
* `NarrowScanMissesNothing`. `Unscanned(pm, scope, seen)` says of every direction that
  is profitable now, on pools the block has not touched, that it was emitted at about
  its present liquidity. It holds because the first scan of a block is of all
  pairs, a pool that no log marks keeps its state (`Since`), a learned tax can only
  remove directions, and the keys of backruns are not those of arbitrages.
* `ReplayIsBlockwise`. `InStep`: the pools are what the transactions done so far make of
  `base.pools`, alone: no log reads the index, the pairs, the taxes or the undo log
  (`PoolsAfterLog`). So a block that was replayed in part, rolled back and synchronised
  from its logs ends as one that was synchronised at once.

`RunnerInv` also has that the dirty set is empty between transactions and that each pool
of the cache is tracked, whatever the order in which they were listed (`FilledOk`).

Ledger and session, `ExecSessionProofs`, from one invariant, `SessionInv` (`SessionSound`):

* `AnswersAreFinal`. `Listed` says that the ledger of a pass is what `Books`, booking from
  the cache alone, makes of the first opportunities of the list, and that what is still to
  come is the rest of it (`Ranked` puts a session in one order, `RankedLists`, since
  `SortKey` ends in the id). An answer is kept before it is booked, so a pass agrees with the
  cache it leaves (`BooksAgree`), and a pass that brings nothing new reads the same
  answers (`BooksStand`). `Counted` is that each opportunity was run as often as the answer
  to that was lost, and once more if an answer is kept. What is not in the cache was not sent, for want of a fork or of a plan:
  the candidates that are exempted, `LeftOut`, are those of the former kind.
* `QuotesAreExecuted`. `ForkSound` says that the pools of a fork differ from the known ones in
  their reserves alone, whatever ran on it. `RunsAlike` is an induction along the legs of a
  plan: the contract holds what the walk quotes and nothing else (`Alike`). `SwappedIs` and
  `PaidOut` are its arithmetic: what a pair pays is less than its reserve, and its
  product, less its own fee, does not fall; so a pair accepts whatever is quoted and is not
  zero. `LastRun` is that the history of the latest execution is such a run.
* `ModesAreSettled`. Each of the three ledgers of a session is taken past the same list one
  opportunity at a time (`BookedBy`), and to be taken past one is to gain one entry and stay
  accounted for (`Takes`): `BookOneTakes`, `AssumedTakes` and `SimulatedTakes` say so of
  each mode, `SettledIs` of the whole list. The last needs that the pools a block is
  simulated over stay pairs (`Pairs`), which is `QuotedPair` at every leg. That the list goes
  from block to block (`BlocksRise`) makes the pools used in a block (`Apart`) those of its
  fills. Executed fills and reverts have an answer (`BooksAnswered`) and the fills of a
  ledger differ by id, so verdicts inject into the answered fills (`VerdictsAnswered`).

Lemmas about operators that these rest on and others may use: `ContiguousRanges` and
`EndOf` (the runs of a set of blocks), `Cuts` and `Halves` (slices of a sequence), `Rank`
(chunks), `LeastExists` and `OrderExists` (`Min` and `Ascending` are well defined),
`PassComplete` (cardinality).

Model-checked only:

* Liveness: `CatchesUp`, `StopEndsJob`, `SessionProgresses`, `OperationsEnd`. No prover
  here reasons about fairness.
* What folds and sums over data compute: `ReplayIsChain`, `PoolsAreLoaded`,
  `SectionsNest`, `PanelsAgree`, `ArbIsEarned`,
  `MirrorsTwoHop`, `QuietMeansAligned`, `JitIsCompleted`. Each would need an induction over the data.
* `ClosedFormIsBest`, `BracketsAreBands`, `SplitGainsNothing`: arithmetic of rounded
  quotients with variable divisors.

## Where the code does less than it says

Met while modelling. Each is in the models as the code has it; no run of this
project is expected to fail, and where one of these would break a property the
property says so in its precondition. Numbers are lines.

Live indexer and backfill (`explorer/ingest.rs`):

* 1322: the first completed poll moves the checkpoint over the gap that 247 says it
  keeps visible.
* 1199: a price failure after an unwind forgets the fork block, and the next checkpoint
  passes the blocks that were unwound (1060: "must never be recorded as complete").
* 1196: the tip compare takes the checkpoint, which is not the last indexed block after
  a poll that failed half-way (795). 1223: the sweep compares one block (797).
* 1161: a failed `safe_head` is not counted, so dead providers do not end a run (1136).
* 549: rejects of a block that was reorganised before its facts were in stay (541).
* 602: a block whose facts are in and whose JIT positions failed is not retried (1289),
  nor filled by a second backfill (`store/sync.rs` 65, against 1343).
* 664: closes are applied after opens and by key, so a position burned and minted again
  in a block is not open afterwards (622).
* 1555: the pipelined path returns an index error instead of recording the block
  (1432). 1586: blocks after a skipped chunk are classified without it (1347). 1605: the
  checkpoint is the end of the range whatever was skipped.
* `jobs/index.rs` 109: `run_live` sets no stop flag when it returns an error, and `join!`
  waits for the cancel poller until somebody cancels (85).

Classification, store and readers: `classify/jit.rs` 265 stamps the transaction hash of
`Jit` only, so two JIT arbs on a pool and range are one row (`store/schema.rs` 117). The
sections of a report have no common read transaction; a route that visits a pool twice
counts twice in `top_pools`.

Schema: a file stamped 1 in the middle of version 1 never replays it; two openers of a
fresh file may leave one that fails at version 6. An opener that lags rebuilds `mev_ops`
to an older shape and drops columns before it heals. Version 10 adds flag columns without
filling them from `details_json`, as its comment says. The cache never inserts its
version, so all its statements run at every open.

Client (`rpc`):

* `client.rs` 573: providers tried in earlier passes count against a list that has
  become shorter, so a pass may end with an available provider not asked (568).
* `middleware.rs` 212: a provider marked dead is not available when its cooldown is
  over (199). `client.rs` 1310: a pinned batch does not fall back (1260).
* `client.rs` 1435: transactions are numbered after those of other types were dropped,
  while receipts keep their index; `explorer/ingest.rs` 328 pairs them by it.
* `client.rs` 852: the check at the start asks every provider up to three times without
  a permit, on top of the configured rate (584).
* `client.rs` 661: a provider that lags and answers null, or with short receipts, is
  penalised like one that is down; 650: one whose error says "header not found" loses
  its state capability for good, though it may only lag.
* `client.rs` 1723: the horizon search takes a failed call for missing state.
* `resolve_token_decimals` zips answers that come in any order with chunks in order.

Discovery and loading: the covered span is a hull, so a gap between two ranges counts as
covered. The first of two shards is believed and may hide a creation event. Rows are
written with `REPLACE`, without the stored TVL, before ranking and health check.
`pool/discovery/mod.rs` 1635: the creation rows of Curve and Balancer, which name no tokens
(`pool/discovery/curve.rs` 83, `balancer.rs` 75), are never written, and 1640: a row
that cannot be written is only warned of, while their range is noted as covered.
1075, `jobs/discover.rs` 184: a lookup of the cache that fails counts as no row, and what
replaces the row then may know less of the creation.
`pool/discovery/mod.rs` 492: the fee a contract answers makes a remote guess pass for a
confirmed type (304). `pool/state/factory.rs` 1845, 1881, 1933, 1996: balances of Curve pools, bins and markets
are read as their lowest 64 bits, so larger ones are wrong, and a pool whose balances are
multiples of 2^64 is removed as empty. Pools of the stable kind leave the token index on a rebuild; pools
of Balancer and V4 are always dropped; the storage fallback of a V3 pool reads its
liquidity from slot 1; `filter_existing_pools` has no caller (`runner.rs` 718).

Replay: a transaction that is skipped or cannot be loaded leaves the state as it was, so a
later one of its sender has the wrong nonce and is reported as reverted (`replayer.rs` 581,
850). `replayer.rs` 525: blob transactions are kept by the client (`rpc/client.rs` 1020)
and handed to the EVM without their blobs, so it refuses them and they are reported as
reverted. Comments of `runner.rs` 807 say that detectors run on the state after a transaction;
they run on the one before.

Detectors: banning the pools of a candidate that is then rejected hides other cycles
through them; the search can miss cycles on five tokens or more; the prefilter drops pairs
that earn slightly; trades after the burn still make a full JIT; a pair may be reported by
both detectors. `pool/state/manager.rs` 419: of each token only so many pools are paired (50,
line 150), so the multi-hop search finds pairs that two-hop never scans; and a pair that is
cut at the smaller of its tokens is claimed by the larger, where the two report it under
different tokens (`mev/detectors/multi_hop.rs` 297: "the smallest-address token claims the
pair"). `mev/detectors/jit.rs` 206: the key of a report has no range, so of the positions
that a transaction opens on a pool one is reported open and one complete.

Sizing (`pool/math`): `core.rs` 411 keeps the highest output and not the highest profit
(its comment: the most profitable bracket), and a golden section that sees only zeros goes
right, so a profitable range at the low end of a bracket can be missed (350). Quotes of
2^64 and more are none, and the largest input is cut to 64 bits (`v3.rs`). An initialised
tick equal to the current one is not crossed going down, and after a crossing down is
skipped on the way up. A walk that ends beyond the known range keeps the old price, so the
next candidate is quoted against liquidity that is gone (`pool/state/sim.rs` 3).
`compose_n_hop_breakpoints` leaves out the first pool. The quote of a Pendle pool falls
where its damping sets in.

Ledger and session: `exec/session.rs` 100: answers are not replayed on the fork of a later
pass, which knows nothing of the earlier fills of a block (`paper/ledger.rs` 514).
`exec/anvil.rs` 201: when the node has taken a transaction and the answer to the request
is lost, the attempt counts as never built; it is not kept, the fork has moved, and the
next pass sends it again (`exec/session.rs` 257: "only after the attempt reached a
backend"). 232: a balance that cannot be read after a run makes its net zero.
`exec/session.rs` 120, 217: a candidate that could not be sent, because the wallet does not pay the
deployment, leaves the revm fork closed or the anvil node reset under its old mark, so a pass
with nothing new may run it on another fork, and book otherwise than the pass before.
`paper/recon.rs` 242: a run that ended at a loss counts as one that never ran (207).
`jobs/live.rs` 469: the span of a session includes blocks whose activity query failed or
whose gap was left (297).

## Bounds and what they leave out

Two actors at a time (calls, openers, shards, operations) show every interleaving of
two; three would add none of the hazards listed, which are all between an actor and one
other. A chain of three to six heights has heights below, at and above any fork or
checkpoint. A fault budget of one to four lets a retry fail as well. The transactions of
`Classify` and the pools of `ChainState` and `Backtest` are libraries: one of each kind
the code tells apart, with the combinations that meet in a claim, a band or a cycle, and
nothing outside the library is covered. Amounts are small, so overflow is checked only
where the code has a bound of its own (`Word`, `Limb`, `Modulus`, `W`).

## Not modelled

* Decoding of logs, calldata and RPC answers, formatting, HTML, JSON, tables, progress.
* Curve, Balancer and Crypto invariants (256-bit iterations): any concave curve.
* Gas and slippage estimates, the pending block and the verdicts of opportunities.
* USD prices, tags, evidence and the explanations of rejects.
* Hypothetical bundles, block hashes and access lists of the replay.
* Manifests, integrity checks and tick rows of the cache.
* Multicall: encoding of a batch over the client. Token caches: a map whose merge fills
  missing fields. Range resolver: a binary search that runs before a job begins.
  Signatures, configuration, chain tables and command line: lookups and parsing.
* In the paper ledger and the executor, legs of concentrated pools other than as products
  of two balances, a budget of 0 (no limit), and what the revm fork falls back to when
  the state after the block cannot be had. The cut of CSV lists at 100 rows.
* The owner's sweeps and the access checks of the contract; the process of the anvil
  node; the other jobs of `jobs/`.

## Plan

What would add most next: the end of the third and
later passes of a call, which is only model-checked; the backfill beside the live indexer on one store; the verdicts of
opportunities as operators.
