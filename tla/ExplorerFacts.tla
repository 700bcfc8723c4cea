----------------------------- MODULE ExplorerFacts -----------------------------
(* What the explorer reads out of a transaction (src/core/src/explorer/decode, *)
(* profit.rs, classify/legs.rs): the facts decoded from its logs, the balance  *)
(* ledger of its transfers, the closed walks of its swaps, and whose they are. *)
(*                                                                             *)
(* Addresses are numbers, in the order of their bytes; 0 is the zero address,   *)
(* a negative one the sentinel of a side that is still to be resolved.         *)
(* A transaction is a record [from, to, value, ok, logs]; a log is a record    *)
(* with a "log" field and what the decoder takes from a log of that family.    *)
(* A swap log gives its direction as the decoder does, by the sentinels        *)
(* Token0 and Token1, or names the tokens (aggregators).                       *)
EXTENDS Integers, Sequences, FiniteSets, FiniteSetsExt, SequencesExt

CONSTANTS
    Registry,           \* pool |-> <<token0, token1>>, for the known pools
    Priority,           \* profit_policy.priority: sequence of tokens
    WrappedNative,      \* the wrapped native token
    DustPart,           \* a deficit of 1/DustPart of a hop is dust (10 000)
    ProximityWindow     \* PROXIMITY_LOG_WINDOW

Zero == 0
Token0 == -1
Token1 == -2
Native == 1000          \* NATIVE_MARKER

Unresolved(t) == t <= Zero
HasUnresolved(s) == Unresolved(s.tin) \/ Unresolved(s.tout)

-------------------------------------------------------------------------------
(* Decoding: the facts of a log stream, in log order, each with its log index. *)

FactsOf(logs, families) ==
    LET at == SetToSortSeq({i \in DOMAIN logs : logs[i].log \in families}, <)
    IN  [k \in DOMAIN at |-> [index |-> at[k], f |-> logs[at[k]]]]

Side(t, pair) == IF t = Token0 THEN pair[1] ELSE IF t = Token1 THEN pair[2] ELSE t
Other(t, pair) == IF t = pair[1] THEN pair[2] ELSE pair[1]

ByRegistry(tin, tout, pool) ==
    IF pool \notin DOMAIN Registry THEN <<tin, tout>>
    ELSE LET pair == Registry[pool]
             in1  == Side(tin, pair)
             out1 == Side(tout, pair)
             in2  == IF Unresolved(in1) /\ ~Unresolved(out1) THEN Other(out1, pair) ELSE in1
         IN  <<in2, IF Unresolved(out1) /\ ~Unresolved(in2) THEN Other(in2, pair) ELSE out1>>

Dist(a, b) == IF a < b THEN b - a ELSE a - b
Nearest(S, index) ==
    CHOOSE t \in S : \A u \in S : \/ Dist(t.index, index) < Dist(u.index, index)
                                  \/ Dist(t.index, index) = Dist(u.index, index) /\ t.index <= u.index

NearestToken(S, index, known) ==
    IF Unresolved(known) /\ S # {} THEN Nearest(S, index).f.token ELSE known

Attached(s, paid, index, in, out) ==
    [s EXCEPT !.tin = in, !.tout = out,
              !.owner = IF @ = Zero /\ paid # {} THEN Nearest(paid, index).f.from ELSE @]

InFromNear(pool, near, index, in, out) ==
    IF out = Zero THEN in
    ELSE NearestToken({t \in near : t.f.to = pool /\ t.f.token \notin {Zero, out}}, index, in)
OutFromNear(pool, near, index, in, out) ==
    NearestToken({t \in near : t.f.from = pool /\ t.f.token \notin {Zero, in}}, index, out)

AttachNear(s, near, paid, index, in, out) ==
    Attached(s, paid, index, InFromNear(s.pool, near, index, in, out), out)
AttachPaid(s, near, paid, index, in, out) ==
    AttachNear(s, near, paid, index, in, OutFromNear(s.pool, near, index, in, out))

AttachKnown(s, all, index, known) ==
    LET paid == {t \in all : t.f.to = s.pool /\ t.index < index}
        sent == {t \in all : t.f.from = s.pool /\ t.index > index}
    IN  AttachPaid(s, {t \in all : Dist(t.index, index) <= ProximityWindow}, paid, index,
                   NearestToken(paid, index, known[1]), NearestToken(sent, index, known[2]))

(* attach_swap_tokens: the registry, then the nearest transfer into the pool   *)
(* before the swap and out of it after, then any transfer of the pool in the   *)
(* window. The owner is who paid the nearest transfer in.                      *)
Attach(swap, transfers) ==
    LET s == swap.f
    IN  IF s.amm = "balancer" THEN s
        ELSE AttachKnown(s, {transfers[k] : k \in DOMAIN transfers}, swap.index,
                         ByRegistry(s.tin, s.tout, s.pool))

(* An aggregator's edge is dropped when a chain of at most three pool swaps    *)
(* already carries its flow, within the tolerance at both ends.                *)
AmountsMatch(a, b, bps) == Dist(a, b) * 10000 <= bps * (IF a > b THEN a ELSE b)
Carries(path, agg) ==
    LET n == Len(path)
        bps == IF n = 1 THEN 200 ELSE 400
    IN  /\ path[1].tin = agg.tin /\ path[n].tout = agg.tout
        /\ \A k \in 1..(n - 1) : path[k].tout = path[k + 1].tin
        /\ n = 2 => path[1].tout # agg.tin
        /\ n = 3 => ~HasUnresolved(path[2]) /\ path[3].tin # path[1].tout
        /\ AmountsMatch(path[1].ain, agg.ain, bps) /\ AmountsMatch(path[n].aout, agg.aout, bps)
Redundant(agg, swaps) ==
    LET dexs == {swaps[k] : k \in {j \in DOMAIN swaps : swaps[j].amm # "aggregator"}}
    IN  /\ agg.amm = "aggregator" /\ ~HasUnresolved(agg) /\ agg.ain # 0
        /\ \E n \in 1..3 : \E path \in [1..n -> dexs] : Carries(path, agg)

Bare(facts) == [k \in DOMAIN facts |-> facts[k].f]

DecodeTx(tx) ==
    LET transfers == FactsOf(tx.logs, {"transfer"})
        swapLogs  == FactsOf(tx.logs, {"swap"})
        swaps     == [k \in DOMAIN swapLogs |-> Attach(swapLogs[k], transfers)]
    IN  [from |-> tx.from, to |-> tx.to, value |-> tx.value,
         transfers |-> Bare(transfers),
         swaps |-> SelectSeq(swaps, LAMBDA s : ~Redundant(s, swaps)),
         liquidity |-> FactsOf(tx.logs, {"mint", "burn"}),
         liquidations |-> Bare(FactsOf(tx.logs, {"liquidation"})),
         loans |-> Bare(FactsOf(tx.logs, {"loan"})),
         buys |-> Bare(FactsOf(tx.logs, {"buy"})),
         pairOps |-> {tx.logs[i].pool : i \in {j \in DOMAIN tx.logs : tx.logs[j].log = "pairop"}},
         keepers |-> Bare(FactsOf(tx.logs, {"keeper"})),
         userOps |-> Bare(FactsOf(tx.logs, {"userop"}))]

-------------------------------------------------------------------------------
(* The ledger of a stream of transfers: who gained and lost how much of what.  *)
(* "netted" holds what flash loans take off again.                             *)

WrapNoise(t, value) ==
    value > 0 /\ t.token = WrappedNative /\ Zero \in {t.from, t.to}

Ledger(transfers, spender, value) ==
    [transfers |-> SelectSeq(transfers, LAMBDA t : ~WrapNoise(t, value)),
     spender |-> spender, value |-> value, netted |-> <<>>]

TxLedger(tx) == Ledger(tx.transfers, tx.from, tx.value)

Total(seq, Weight(_)) == MapThenSumSet(LAMBDA i : Weight(seq[i]), DOMAIN seq)

Net(ledger, a, token) ==
    IF a = Zero THEN 0
    ELSE Total(ledger.transfers, LAMBDA t :
               IF t.token # token THEN 0
               ELSE (IF t.to = a THEN t.amt ELSE 0) - (IF t.from = a THEN t.amt ELSE 0))
         - Total(ledger.netted, LAMBDA n : IF n.owner = a /\ n.token = token THEN n.amt ELSE 0)
         - (IF token = Native /\ ledger.spender = a THEN ledger.value ELSE 0)

TokensOf(ledger) ==
    {ledger.transfers[i].token : i \in DOMAIN ledger.transfers}
    \cup {ledger.netted[i].token : i \in DOMAIN ledger.netted} \cup {Native}

HoldersOf(ledger) ==
    {ledger.transfers[i].to : i \in DOMAIN ledger.transfers} \ {Zero}

Deficit(ledger, a, token) == IF Net(ledger, a, token) < 0 THEN -Net(ledger, a, token) ELSE 0
IsDust(deficit, hop) == deficit <= 1 \/ deficit <= hop \div DustPart
HasInventorySpend(ledger, a) == \E t \in TokensOf(ledger) : Net(ledger, a, t) < 0

(* The first priority token with a gain, else the token of the largest one.    *)
ProfitToken(ledger, a) ==
    LET gains    == {t \in TokensOf(ledger) : Net(ledger, a, t) > 0}
        priority == {k \in DOMAIN Priority : Priority[k] \in gains}
        largest  == {t \in gains : \A u \in gains : Net(ledger, a, u) <= Net(ledger, a, t)}
    IN  IF priority # {} THEN Priority[Min(priority)]
        ELSE IF gains # {} THEN Min(largest) ELSE Zero

-------------------------------------------------------------------------------
(* Closed walks: the depth-first search returns the first path, in the order   *)
(* of the edges, that comes back to its start over two pools or more; a path   *)
(* that comes back to its start goes no further.                               *)

Walks(edges) ==
    {w \in UNION {[1..n -> DOMAIN edges] : n \in 2..Len(edges)} :
        LET n == Len(w) IN
        /\ IsInjective(w)
        /\ \A k \in 1..(n - 1) : edges[w[k]].tout = edges[w[k + 1]].tin
        /\ edges[w[n]].tout = edges[w[1]].tin
        /\ \A k \in 2..(n - 1) : edges[w[k]].tout # edges[w[1]].tin
        /\ Cardinality({edges[w[k]].pool : k \in 1..n}) >= 2}

Before(v, w) ==
    \E k \in DOMAIN v : k \in DOMAIN w /\ v[k] < w[k] /\ \A j \in 1..(k - 1) : v[j] = w[j]

FirstWalk(edges) ==
    LET walks == Walks(edges)
    IN  IF walks = {} THEN <<>>
        ELSE CHOOSE w \in walks : \A v \in walks : v = w \/ Before(w, v)

WalkTokens(edges, walk) ==
    UNION {{edges[walk[k]].tin, edges[walk[k]].tout} : k \in DOMAIN walk}

-------------------------------------------------------------------------------
(* Whose walk it is.                                                           *)

(* The sender, the contract it called, and, sorted, whoever takes part in two  *)
(* transfers or more.                                                          *)
Participation(tx, a) ==
    Total(tx.transfers, LAMBDA t : (IF t.from = a THEN 1 ELSE 0) + (IF t.to = a THEN 1 ELSE 0))

SearcherCandidates(tx) ==
    LET first  == <<tx.from>> \o (IF tx.to = Zero THEN <<>> ELSE <<tx.to>>)
        others == UNION {{tx.transfers[i].from, tx.transfers[i].to} : i \in DOMAIN tx.transfers}
                  \ {tx.from, tx.to}
    IN  first \o SetToSortSeq({a \in others : Participation(tx, a) >= 2}, <)

InRange(a, seq) == \E k \in DOMAIN seq : seq[k] = a

DexEdges(swaps) == SelectSeq(swaps, LAMBDA s : s.amm # "aggregator" /\ ~HasUnresolved(s))
PoolsOf(swaps) == {swaps[k].pool : k \in DOMAIN swaps}

(* Every leg that somebody outside the route paid for is paid by one and the   *)
(* same candidate.                                                             *)
FlowAttributable(swaps, candidates) ==
    LET owners == {swaps[k].owner : k \in {j \in DOMAIN swaps : ~HasUnresolved(swaps[j])}}
                  \ ({Zero} \cup PoolsOf(DexEdges(swaps)))
    IN  /\ Cardinality(owners) <= 1
        /\ \A o \in owners : InRange(o, candidates)

(* tx_cycle_profit: what a causal pass takes for the profit of a transaction.  *)
CycleProfit(tx) ==
    LET ledger     == TxLedger(tx)
        edges      == SelectSeq(tx.swaps, LAMBDA s : ~HasUnresolved(s))
        candidates == SearcherCandidates(tx)
        clean      == {k \in DOMAIN candidates : ~HasInventorySpend(ledger, candidates[k])}
        gaining    == {k \in clean : ProfitToken(ledger, candidates[k]) # Zero}
        miss       == [searcher |-> Zero, token |-> Zero, amt |-> 0]
    IN  IF Len(edges) < 2 THEN [miss |-> "few edges"] @@ miss
        ELSE IF FirstWalk(edges) = <<>> THEN [miss |-> "not closed"] @@ miss
        ELSE IF ~FlowAttributable(tx.swaps, candidates) THEN [miss |-> "not attributable"] @@ miss
        ELSE IF gaining = {} THEN [miss |-> IF clean = {} THEN "inventory" ELSE "no residual"] @@ miss
        ELSE LET a == candidates[Min(gaining)]
                 t == ProfitToken(ledger, a)
             IN  [miss |-> "none", searcher |-> a, token |-> t, amt |-> Net(ledger, a, t)]
===============================================================================
