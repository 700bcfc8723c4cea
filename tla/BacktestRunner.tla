---------------------------- MODULE BacktestRunner -----------------------------
(* The replay of a block range over the pool manager: run_range_hybrid of      *)
(* src/core/src/pipeline/runner.rs with the detection it drives.               *)
(*                                                                             *)
(* A block at or above Horizon is replayed transaction by transaction; a       *)
(* replay may fail after any of them, the manager is rolled back and the block *)
(* is synchronised from its receipts' logs instead, as blocks below Horizon    *)
(* are from the start. Every transaction is scanned for arbitrage before its   *)
(* logs are applied, over all pairs until the block has touched a pool and     *)
(* over the touched pools' pairs from then on; the backrun detector compares   *)
(* the pairs it touched before and after.                                      *)
(*                                                                             *)
(* A transaction is the sequence of its logs, drawn from Txs. The optimizer's  *)
(* answer for a direction of a pair is a function of the two pools' states,    *)
(* for which the difference of their liquidity stands. Gas is one price.       *)
EXTENDS PoolState, TLC

CONSTANTS
    Txs,            \* the log sequences a transaction can carry
    Start,          \* pool -> its state after init_pools
    InitOrder,      \* the pools in the order in which the cache listed them
    MaxTxs,         \* bound: transactions of each block
    LastBlock,      \* the range is 1..LastBlock
    Horizon,        \* first block whose state can be replayed
    GasCost, MinProfit, MaxCandidates,
    Grace           \* PERSISTENCE_GRACE_BLOCKS

(* What the events of a pool carry, and the states of one that can be read.    *)
Carries(l) ==
    /\ l.topic \in {"Swap", "Sync"} => l.args[1] \in Int /\ l.args[2] \in Int
    /\ l.topic = "Swap" => l.args[3] \in Int /\ l.args[4] \in Int
    /\ l.topic = "ClSwap" => l.args[2] \in Int
    /\ l.topic = "MintBurn" => l.args[3] \in Int
    /\ l.topic = "Exchange" => l.args[3] \in Int /\ l.args[4] \in Int
PoolOk(p, s) ==
    CASE Family[p] = "cl" -> "liq" \in DOMAIN s /\ s.liq \in Int
      [] Family[p] = "flow" -> TRUE
      [] OTHER -> s.res = <<>> \/ (s.res[1] \in Int /\ s.res[2] \in Int)

ASSUME RunnerAssumption ==
    /\ Pools \subseteq Nat \ {0} /\ W \in Nat \ {0}
    /\ InitOrder \in Seq(Pools) /\ Pools = {InitOrder[i] : i \in DOMAIN InitOrder}
    /\ \A p \in Pools : PoolOk(p, Start[p])
    /\ \A tx \in Txs : /\ Len(tx) \in Nat /\ DOMAIN tx = 1 .. Len(tx)
                       /\ \A i \in DOMAIN tx : tx[i].decodes \in BOOLEAN
                                               /\ (tx[i].decodes => Carries(tx[i]))
    /\ LastBlock \in Nat /\ \A b \in 1..LastBlock : MaxTxs[b] \in Nat

VARIABLES
    pm,             \* the pool manager
    block,          \* the block under way, or the next one
    step,           \* "idle", "replay", "logs", "fallback" or "over"
    txs,            \* the transactions of the block under way
    next,           \* index of the next of them
    scope,          \* pools touched by the block, or Full
    seen,           \* direction -> liquidities at its last emission in the block
    found,          \* opportunities of the block so far
    pendingSeeds,   \* pool snapshots taken at detection, not yet promoted
    observed,       \* gas observations, per block
    persistence,    \* direction -> last block and streak
    modes,          \* committed block -> "full" or "log_only"
    committed,      \* block -> opportunities kept
    base            \* history: the manager when the block began

vars == <<pm, block, step, txs, next, scope, seen, found, pendingSeeds, observed,
          persistence, modes, committed, base>>
blockVars == <<txs, next, scope, seen, found>>

Full == {0}
Blocks == 1..LastBlock

-------------------------------------------------------------------------------
(* Detection.                                                                  *)

Profit(m, a, b) == LiquidityEstimate(m, b) - LiquidityEstimate(m, a)

(* The token a two-token pool trades against the shared one.                   *)
OtherToken(p, t) == IF Token0[p] = t THEN Token1[p] ELSE Token0[p]

(* The two-hop detector on the pairs in scope, before its dedup.               *)
Directions(m, within) ==
    {d \in {<<q[1], q[2], q[3]>> : q \in ArbitragePairs(m).pairs}
           \union {<<q[2], q[1], q[3]>> : q \in ArbitragePairs(m).pairs} :
        /\ within = Full \/ InScope(within, <<d[1], d[2]>>)
        /\ {OtherToken(d[1], d[3]), OtherToken(d[2], d[3])} \cap m.fot = {}
        /\ Profit(m, d[1], d[2]) > 0}

Liquidities(m, a, b) == <<LiquidityEstimate(m, a), LiquidityEstimate(m, b)>>

Distance(a, b) == IF a > b THEN a - b ELSE b - a

(* check_dedup_key: a direction is emitted again when a liquidity has moved by *)
(* more than a thousandth of what it was, and by more than one unit.           *)
Steady(now, then) ==
    Distance(now, then) <= IF then \div 1000 > 1 THEN then \div 1000 ELSE 1
Fresher(m, sn, key, a, b) ==
    key \in DOMAIN sn => \E i \in {1, 2} : ~Steady(Liquidities(m, a, b)[i], sn[key][i])

Opportunity(strategy, m, d, t) ==
    [strategy |-> strategy, a |-> d[1], b |-> d[2], tx |-> t,
     profit |-> Profit(m, d[1], d[2])]

Arbs(m, within, sn, t) ==
    {Opportunity("arb", m, d, t) :
        d \in {d \in Directions(m, within) : Fresher(m, sn, <<d[1], d[2]>>, d[1], d[2])}}

Onto(sn, new) ==
    [k \in DOMAIN sn \union DOMAIN new |-> IF k \in DOMAIN new THEN new[k] ELSE sn[k]]

SeenAfter(m, sn, opps) ==
    Onto(sn, [k \in {<<o.a, o.b>> : o \in opps} |-> Liquidities(m, k[1], k[2])])

(* The backrun detector: directions with a positive net on the state after the *)
(* transaction, for which the last profit of the pair before it was no more    *)
(* than the gas. Its key does not tell the two directions apart.               *)
PairKey(a, b) == IF a < b THEN <<a, b, "backrun">> ELSE <<b, a, "backrun">>

ProfitsBefore(before, touched, a, b) ==
    {Profit(before, d[1], d[2]) :
        d \in {d \in Directions(before, touched) : {d[1], d[2]} = {a, b}}}

Backruns(before, after, touched, dirty, sn, t) ==
    {Opportunity("backrun", after, d, t) :
        d \in {d \in Directions(after, dirty) :
                /\ Profit(after, d[1], d[2]) > GasCost
                /\ \A p \in ProfitsBefore(before, touched, d[1], d[2]) : p <= GasCost
                /\ Fresher(after, sn, PairKey(d[1], d[2]), d[1], d[2])}}

BackrunSeen(m, sn, opps) ==
    Onto(sn, [k \in {PairKey(o.a, o.b) : o \in opps} |-> Liquidities(m, k[1], k[2])])

SeedsOf(m, opps) == {[a |-> o.a, b |-> o.b, tx |-> o.tx, strategy |-> o.strategy,
                      states |-> <<m.pools[o.a], m.pools[o.b]>>] : o \in opps}

TouchedBy(m, logs) == {logs[i].pool : i \in DOMAIN logs} \intersect Tracked(m)

(* The first pools touched narrow the scan from every pair to theirs.          *)
WidenedNever(dirty) ==
    IF dirty = {} \/ scope = Full THEN scope \ Full ELSE scope \union dirty
Widened(dirty) ==
    IF dirty = {} THEN scope ELSE IF scope = Full THEN dirty ELSE scope \union dirty

(* One transaction: scan, apply, compare.                                      *)
DetectTx ==
    LET logs == txs[next]
        scanned == ArbitragePairs(pm)
        arbs == Arbs(scanned, scope, seen, next)
        updated == UpdateFromLogs(LearnTaxes(scanned, logs), logs)
        dirty == updated.dirty
        runs == IF dirty = {} THEN {}
                ELSE Backruns(scanned, updated, TouchedBy(pm, logs), dirty, seen, next)
    IN  /\ found' = found \union arbs \union runs
        /\ seen' = BackrunSeen(updated, SeenAfter(scanned, seen, arbs), runs)
        /\ pendingSeeds' = pendingSeeds \union SeedsOf(scanned, arbs) \union SeedsOf(updated, runs)
        /\ observed' = [observed EXCEPT ![block] =
                            @ + (IF TouchedBy(pm, logs) # {} THEN 1 ELSE 0)]
        /\ scope' = Widened(dirty)
        /\ pm' = TakeDirty(updated)

-------------------------------------------------------------------------------
(* The end of a block.                                                         *)

Unsuperseded(opps) ==
    {o \in opps : o.strategy = "arb" =>
        \A r \in opps : r.strategy = "backrun" => {r.a, r.b} # {o.a, o.b}}

Worthwhile(opps) ==
    {o \in opps : o.profit > GasCost /\ (MinProfit > 0 => o.profit > MinProfit)}

(* The cap that is named for a transaction counts the whole block.             *)
Capped(opps) ==
    LET Ahead(o) == {r \in opps : r.profit > o.profit}
    IN  IF MaxCandidates = 0 THEN {opps}
        ELSE {s \in SUBSET opps :
                /\ Cardinality(s) = IF Cardinality(opps) < MaxCandidates
                                    THEN Cardinality(opps) ELSE MaxCandidates
                /\ \A o \in s : Ahead(o) \subseteq s}

PersistKey(o) == <<o.strategy, o.a, o.b>>

UpdatePersistence(map, opps) ==
    LET recent == {k \in DOMAIN map : block <= map[k].last + Grace}
        hit == {PersistKey(o) : o \in opps}
    IN  [k \in recent \union hit |->
            IF k \notin hit THEN map[k]
            ELSE [last |-> block,
                  streak |-> IF k \in recent /\ map[k].last + 1 = block
                             THEN map[k].streak + 1 ELSE 1]]

FinalizeBlock(opps, mode, m) ==
    \E kept \in Capped(Worthwhile(Unsuperseded(opps))) :
        /\ committed' = [committed EXCEPT ![block] = kept]
        /\ persistence' = UpdatePersistence(persistence, kept)
        /\ pendingSeeds' = {}
        /\ modes' = (block :> mode) @@ modes
        /\ pm' = EndUndo(m)

NextBlock ==
    /\ block' = block + 1
    /\ step' = "idle"
    /\ txs' = <<>> /\ next' = 1 /\ scope' = Full /\ seen' = <<>> /\ found' = {}

-------------------------------------------------------------------------------
Filled ==
    LET after[i \in 0 .. Len(InitOrder)] ==
            IF i = 0 THEN EmptyManager
            ELSE AddPool(after[i - 1], InitOrder[i], Start[InitOrder[i]])
    IN  after

Init ==
    /\ pm = Filled[Len(InitOrder)]
    /\ block = 1 /\ step = "idle"
    /\ txs = <<>> /\ next = 1 /\ scope = Full /\ seen = <<>> /\ found = {}
    /\ pendingSeeds = {}
    /\ observed = [b \in Blocks |-> 0]
    /\ persistence = <<>>
    /\ modes = <<>>
    /\ committed = [b \in Blocks |-> {}]
    /\ base = pm

(* A block that is not cached, or whose probe fails, is passed over.           *)
SkipUncached ==
    /\ step = "idle" /\ block \in Blocks
    /\ NextBlock
    /\ UNCHANGED <<pm, pendingSeeds, observed, persistence, modes, committed, base>>

(* A block without transactions is done before the undo log is opened.         *)
EmptyBlock ==
    /\ step = "idle" /\ block \in Blocks
    /\ modes' = (block :> IF block >= Horizon THEN "full" ELSE "log_only") @@ modes
    /\ NextBlock
    /\ UNCHANGED <<pm, pendingSeeds, observed, persistence, committed, base>>

BeginBlock ==
    /\ step = "idle" /\ block \in Blocks
    /\ \E n \in 1..MaxTxs[block] : txs' \in [1..n -> Txs]
    /\ step' = IF block >= Horizon THEN "replay" ELSE "logs"
    /\ pm' = BeginUndo(pm)
    /\ base' = pm
    /\ UNCHANGED <<block, next, scope, seen, found, pendingSeeds, observed, persistence,
                   modes, committed>>

(* A block whose transactions or receipts cannot be loaded is dropped.         *)
Unloadable ==
    /\ step \in {"idle", "fallback"} /\ block \in Blocks
    /\ NextBlock
    /\ UNCHANGED <<pm, pendingSeeds, observed, persistence, modes, committed, base>>

Step ==
    /\ step \in {"replay", "logs"} /\ next <= Len(txs)
    /\ DetectTx
    /\ next' = next + 1
    /\ UNCHANGED <<block, step, txs, persistence, modes, committed, base>>

(* The rollback covers the manager; the seeds and the gas observations of the  *)
(* failed replay stay.                                                         *)
ReplayFails ==
    /\ step = "replay"
    /\ pm' = Undo(pm)
    /\ step' = "fallback"
    /\ next' = 1 /\ scope' = Full /\ seen' = <<>> /\ found' = {}
    /\ UNCHANGED <<block, txs, pendingSeeds, observed, persistence, modes, committed,
                   base>>

SyncFromLogs ==
    /\ step = "fallback"
    /\ step' = "logs"
    /\ pm' = BeginUndo(pm)
    /\ base' = pm
    /\ UNCHANGED <<block, blockVars, pendingSeeds, observed, persistence, modes, committed>>

FinishBlock ==
    /\ step \in {"replay", "logs"} /\ next > Len(txs)
    /\ FinalizeBlock(found, IF step = "replay" THEN "full" ELSE "log_only", pm)
    /\ NextBlock
    /\ UNCHANGED <<observed, base>>

(* The progress callback asks to stop, after the block was committed; or the   *)
(* range is done.                                                              *)
Finish ==
    /\ step = "idle"
    /\ block > 1
    /\ step' = "over"
    /\ UNCHANGED <<pm, block, blockVars, pendingSeeds, observed, persistence, modes,
                   committed, base>>

Next == \/ SkipUncached \/ EmptyBlock \/ BeginBlock \/ Unloadable \/ Step
        \/ ReplayFails \/ SyncFromLogs \/ FinishBlock \/ Finish

Spec == Init /\ [][Next]_vars

-------------------------------------------------------------------------------
(* Incremental scanning: once a transaction of a block has been scanned,       *)
(* every direction that is profitable on the state it was scanned on, on any   *)
(* pair, has been emitted in this block at about its present liquidity,        *)
(* although only the pairs of touched pools were looked at.                    *)
NothingUnscanned ==
    [][Step => \A d \in Directions(pm, Full) :
                   /\ <<d[1], d[2]>> \in DOMAIN seen'
                   /\ \A i \in {1, 2} :
                        Steady(Liquidities(pm, d[1], d[2])[i], seen'[<<d[1], d[2]>>][i])]_vars

(* A block that fails part-way leaves the manager as it was before the block:  *)
(* pools, index, dirty set and learned taxes.                                  *)
FailureUndone ==
    [][ReplayFails => \A f \in {"pools", "known", "index", "dirty", "fot"} : pm'[f] = base[f]]_vars

(* The runner implements BlockApply: until a block is committed the pools are  *)
(* those it began with, so a failed replay, its rollback and the second        *)
(* attempt from the logs are one step, and none of it is applied twice.        *)
PoolsShown == IF step \in {"replay", "logs"} THEN base.pools ELSE pm.pools
Holding(ps) == [EmptyManager EXCEPT !.pools = ps, !.known = DOMAIN ps]
AfterTxs(ps, c) ==
    LET after[i \in 0 .. Len(c)] ==
            IF i = 0 THEN Holding(ps) ELSE UpdateFromLogs(after[i - 1], c[i])
    IN  after
ApplyTxs(ps, c) == AfterTxs(ps, c)[Len(c)].pools
Contents == UNION {[1..n -> Txs] : n \in UNION {1..MaxTxs[b] : b \in Blocks}}
Replay == INSTANCE BlockApply WITH
    Apply <- ApplyTxs, Initial <- [p \in Pools |-> Start[p]], Final <- LastBlock,
    pools <- PoolsShown, height <- block
ReplayImplements == Replay!Spec
===============================================================================
