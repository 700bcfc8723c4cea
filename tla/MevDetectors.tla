------------------------------ MODULE MevDetectors ------------------------------
(* The detectors of src/core/src/mev/detectors over the transactions of one    *)
(* block: two-hop pairs, multi-hop cycles found by Bellman-Ford on the graph   *)
(* of tokens, and just-in-time positions. Each transaction is scanned against  *)
(* the pools as they were before it, and its logs are applied afterwards.      *)
(*                                                                             *)
(* Prices are logarithms, so a rate is an integer, the product of the rates of *)
(* a path is a sum, and fees are subtracted. The search for the best input,    *)
(* which PoolQuotes has, is abstracted here by what it is to find: a path      *)
(* earns something at some size exactly when its rates at size zero multiply   *)
(* to more than one. Pools hold two tokens; an address is a number. Gas,       *)
(* slippage and normalization to the native token only decorate an opportunity.*)
EXTENDS Integers, Sequences, FiniteSets, SequencesExt, FiniteSetsExt, TLC

CONSTANTS
    Quoting,        \* pool -> "v2", "cl", "curve", "bins" or "opaque"
    TokenA, TokenB, \* pool -> token
    Fee,            \* pool -> its fee
    TaxedTokens,    \* fee-on-transfer tokens
    MaxScanned,     \* token -> the most pools of it that are paired, 0 for all
    Starts,         \* a block begins with [order, market, ranked]: the pools of
                    \* the manager as it iterates over them, their prices, and
                    \* the pools by liquidity when the pairs were listed
    BlockTxs,       \* transactions: [from, logs]
    MaxBlockTxs,    \* bound: transactions of the block
    MaxDepth,       \* hops of a cycle, and rounds of relaxation
    MaxCycles,      \* MAX_NEGATIVE_CYCLES
    MaxAttempts     \* MAX_CYCLE_ATTEMPTS

ASSUME DetectorsAssumption == {MaxBlockTxs, MaxDepth, MaxCycles, MaxAttempts} \subseteq Nat

VARIABLES
    market,         \* pool -> [price, liq]: log price of token 0, liquidity estimate
    order,          \* the pools of the manager, as it iterates over them
    pairs,          \* the cached pairs: two pools and the token they share
    touched,          \* pools touched by the block, or Everything
    twoSeen, multiSeen,     \* opportunity key -> liquidities at its last emission
    mints, emitted, ticks,  \* the JIT detector
    opps,           \* opportunities of the block
    done            \* history: the transactions so far

detectorVars == <<market, order, pairs, touched, twoSeen, multiSeen, mints, emitted, ticks, opps, done>>

Everything == {0}
Held == ToSet(order)
TokensOf(p) == {TokenA[p], TokenB[p]}
AllTokens == UNION {TokensOf(p) : p \in Held}
OtherOf(p, t) == IF t = TokenA[p] THEN TokenB[p] ELSE TokenA[p]
TouchesScope(ps) == touched = Everything \/ ps \cap touched # {}

-------------------------------------------------------------------------------
(* Rates. The marginal rate of a curve pool is the ratio of its balances, which *)
(* its quotes flatten; the log price stored of it is that ratio.               *)

Toward(p, tin, price) == IF tin = TokenA[p] THEN price ELSE -price

(* marginal_exchange_rate, where the pool has one.                             *)
Rate(p, tin) == Toward(p, tin, market[p].price) - (IF Quoting[p] = "curve" THEN 0 ELSE Fee[p])

(* What a leg of small size gives (quote_exact_in).                            *)
Gain(p, tin) ==
    IF Quoting[p] = "curve" THEN Toward(p, tin, market[p].price \div 2) - Fee[p] ELSE Rate(p, tin)

(* A price without a closed form passes the prefilter.                         *)
PassesSpotPrefilter(a, b, shared) ==
    \/ {Quoting[a], Quoting[b]} \cap {"curve", "opaque"} # {}
    \/ Rate(a, OtherOf(a, shared)) + Rate(b, shared) > 0

IsFotPair(tin, tout) == {tin, tout} \cap TaxedTokens # {}

Opp(strategy, path, tin, tout) ==
    [strategy |-> strategy, path |-> path, tin |-> tin, tout |-> tout, tx |-> Len(done)]
OppKey(o) == <<o.path[1], Last(o.path), o.tin, o.tout>>

(* A key is emitted again when a liquidity has moved by more than one unit.    *)
Shifted(o, seen) ==
    OppKey(o) \in DOMAIN seen =>
        \E i \in {1, 2} : LET was == seen[OppKey(o)][i] IN
                          LET now == market[OppKey(o)[i]].liq IN now - was \notin -1..1
Remember(seen, os) ==
    [k \in {OppKey(o) : o \in os} |-> <<market[k[1]].liq, market[k[2]].liq>>] @@ seen

-------------------------------------------------------------------------------
(* The pairs the manager lists and keeps until a pool is added: of each token  *)
(* only the most liquid pools are paired. The smallest token that is left with *)
(* both pools claims their pair.                                               *)
ArbPairs(ranked) ==
    LET held(t)   == SelectSeq(ranked, LAMBDA p : t \in TokensOf(p))
        listed(t) == IF MaxScanned[t] = 0 THEN ToSet(ranked)
                     ELSE ToSet(SubSeq(held(t), 1, Min({MaxScanned[t], Len(held(t))})))
        claims(p, q, t) == t \in TokensOf(p) \cap TokensOf(q) /\ {p, q} \subseteq listed(t)
    IN  {c \in ToSet(ranked) \X ToSet(ranked) \X UNION {TokensOf(p) : p \in ToSet(ranked)} :
            /\ c[1] < c[2] /\ claims(c[1], c[2], c[3])
            /\ \A t \in TokensOf(c[1]) : t < c[3] => ~claims(c[1], c[2], t)}

(* Two-hop: both directions of each listed pair, over the token that claims it. *)

Supported(p) == Quoting[p] \in {"v2", "cl", "curve"}

CheckDirection(buy, sell, shared) ==
    LET tin  == OtherOf(buy, shared)
        tout == OtherOf(sell, shared)
    IN  IF /\ PassesSpotPrefilter(buy, sell, shared)
           /\ ~IsFotPair(tin, tout)
           /\ Supported(buy) /\ Supported(sell)
           /\ Gain(buy, tin) + Gain(sell, shared) > 0
        THEN {Opp("two", <<buy, sell>>, tin, tout)} ELSE {}

TwoHop ==
    UNION {CheckDirection(c[1], c[2], c[3]) \cup CheckDirection(c[2], c[1], c[3]) :
        c \in {c \in pairs : TouchesScope({c[1], c[2]})}}

-------------------------------------------------------------------------------
(* The graph: two edges of each pool that has a rate, by the token they leave, *)
(* tokens in the order in which the pools name them first.                     *)

Graphed == SelectSeq(order, LAMBDA p : TokenA[p] # TokenB[p])

NodeOrder ==
    FoldLeft(LAMBDA ns, t : IF Contains(ns, t) THEN ns ELSE Append(ns, t), <<>>,
             FoldLeft(LAMBDA ts, p : ts \o <<TokenA[p], TokenB[p]>>, <<>>, Graphed))

EdgesFrom(t) ==
    LET ps == SelectSeq(Graphed, LAMBDA p : t \in TokensOf(p) /\ Quoting[p] # "opaque")
    IN  [i \in DOMAIN ps |-> [pool |-> ps[i], from |-> t, to |-> OtherOf(ps[i], t),
                              weight |-> -Rate(ps[i], t)]]

Edges == FoldLeft(LAMBDA es, t : es \o EdgesFrom(t), <<>>, NodeOrder)

Relaxed(s, e) ==
    IF s.dist[e.from] + e.weight >= s.dist[e.to] THEN s
    ELSE [dist |-> [s.dist EXCEPT ![e.to] = s.dist[e.from] + e.weight],
          pred |-> [s.pred EXCEPT ![e.to] = <<e>>],
          last |-> Append(s.last, e.to)]

(* MaxDepth rounds from a source at distance nought of every token, distances  *)
(* updated in place; the tokens relaxed in the last round are kept.            *)
BellmanFord(banned) ==
    LET edges == SelectSeq(Edges, LAMBDA e : e.pool \notin banned)
        round[n \in 0 .. MaxDepth] ==
            IF n = 0 THEN [dist |-> [t \in AllTokens |-> 0], pred |-> [t \in AllTokens |-> <<>>], last |-> <<>>]
            ELSE FoldLeft(Relaxed, [round[n - 1] EXCEPT !.last = <<>>], edges)
    IN  round[MaxDepth]

(* The predecessors of start, and the cycle that the first token met twice     *)
(* closes, in the order of its hops: of two hops at least, and not too long.   *)
ExtractCycle(pred, start) ==
    LET back[n \in 0 .. MaxDepth + 1] ==
            IF n = 0 THEN <<start>>
            ELSE LET c == back[n - 1] IN
                 IF pred[Last(c)] = <<>> \/ \E i \in 1 .. Len(c) - 1 : c[i] = Last(c) THEN c
                 ELSE Append(c, pred[Last(c)][1].from)
        chain == back[MaxDepth + 1]
        loops == {i \in 1 .. Len(chain) - 1 : chain[i] = Last(chain)}
    IN  IF loops = {} \/ Len(chain) - Min(loops) \notin 2 .. MaxDepth THEN <<>>
        ELSE Reverse([k \in 1 .. Len(chain) - Min(loops) |-> pred[chain[Min(loops) + k - 1]][1]])

FindNegativeCycle(banned) ==
    LET s == BellmanFord(banned)
        good == SelectSeq(s.last, LAMBDA t : ExtractCycle(s.pred, t) # <<>>)
    IN  IF good = <<>> THEN <<>> ELSE ExtractCycle(s.pred, Head(good))

Weight(c) == FoldLeft(LAMBDA w, e : w + e.weight, 0, c)
PoolsOf(c) == [i \in DOMAIN c |-> c[i].pool]

\* Mutant: the smallest pool is put first and the others stay where they are.
NormalizeRotationSwaps(path) ==
    LET k == SelectInSeq(path, LAMBDA p : p = Min(ToSet(path)))
    IN  <<path[k]>> \o RemoveAt(path, k)

NormalizeRotation(path) ==
    LET k == SelectInSeq(path, LAMBDA p : p = Min(ToSet(path)))
    IN  SubSeq(path, k, Len(path)) \o SubSeq(path, 1, k - 1)

(* Candidates are taken out of the graph with all their pools, whether they    *)
(* are used or not, until none is left.                                        *)
NegativeCyclePaths ==
    LET search[n \in 0 .. MaxAttempts] ==
            IF n = 0 THEN [banned |-> {}, out |-> <<>>]
            ELSE LET s == search[n - 1]
                     c == IF Len(s.out) >= MaxCycles THEN <<>> ELSE FindNegativeCycle(s.banned)
                     ps == ToSet(PoolsOf(c))
                 IN  IF c = <<>> THEN s
                     ELSE [banned |-> s.banned \cup ps,
                           out |-> IF Weight(c) < 0 /\ TouchesScope(ps)
                                   THEN Append(s.out, NormalizeRotation(PoolsOf(c))) ELSE s.out]
    IN  search[MaxAttempts].out

-------------------------------------------------------------------------------
(* Multi-hop: a path of pools is given its tokens and direction back.          *)

SharedOf(p, q) == IF TokenA[p] \in TokensOf(q) THEN TokenA[p] ELSE TokenB[p]

WalksFrom(path, entry) ==
    IF Len(path) = 2 /\ TokensOf(path[1]) = TokensOf(path[2])
    THEN <<[path |-> path, tin |-> entry, tout |-> entry],
           [path |-> Reverse(path), tin |-> entry, tout |-> entry]>>
    ELSE <<[path |-> path,
            tin |-> OtherOf(path[1], SharedOf(path[1], path[2])),
            tout |-> OtherOf(Last(path), SharedOf(Last(path), path[Len(path) - 1]))]>>

\* Mutant: the smaller token is spent, whose bucket claims the pair.
WalksSmaller(path) == WalksFrom(path, Min(TokensOf(path[1])))

(* Two pools of the same tokens leave both open: the larger token is spent,    *)
(* and both orders are priced.                                                 *)
Walks(path) == WalksFrom(path, Max(TokensOf(path[1])))

(* The walk leg by leg, where each pool takes what the one before gives.       *)
WalkQuote(path, tin) ==
    LET step(s, p) ==
            IF ~s.ok \/ s.token \notin TokensOf(p) \/ Quoting[p] = "opaque" THEN [s EXCEPT !.ok = FALSE]
            ELSE [ok |-> TRUE, token |-> OtherOf(p, s.token), gain |-> s.gain + Gain(p, s.token)]
    IN  FoldLeft(step, [ok |-> TRUE, token |-> tin, gain |-> 0], path)

Earns(w) ==
    /\ ~IsFotPair(w.tin, w.tout)
    /\ WalkQuote(w.path, w.tin).ok /\ WalkQuote(w.path, w.tin).gain > 0

CheckPath(path) ==
    LET shared == SharedOf(path[1], path[2])
        aligned == /\ Len(path) = 2
                   /\ ~PassesSpotPrefilter(path[1], path[2], shared)
                   /\ ~PassesSpotPrefilter(path[2], path[1], shared)
        paying == SelectSeq(Walks(path), LAMBDA w : Earns(w))
    IN  IF aligned \/ paying = <<>> THEN {}
        ELSE {Opp("multi", Head(paying).path, Head(paying).tin, Head(paying).tout)}

MultiHop == UNION {CheckPath(path) : path \in ToSet(NegativeCyclePaths)}

-------------------------------------------------------------------------------
(* Just-in-time positions. Mints and burns of a transaction are read before    *)
(* its swaps. Any burn of its sender and range closes the first open mint.     *)

InRange(m, tick) == m.lower <= tick /\ tick < m.upper

Burns(ms, log, from) ==
    LET open == {i \in DOMAIN ms : /\ ~ms[i].burned /\ ms[i].pool = log.pool /\ ms[i].from = from
                                   /\ ms[i].lower = log.lower /\ ms[i].upper = log.upper}
    IN  IF open = {} THEN ms ELSE [ms EXCEPT ![Min(open)].burned = TRUE]

MintOrBurn(ms, log, tx) ==
    CASE log.kind = "mint" ->
             Append(ms, [pool |-> log.pool, lower |-> log.lower, upper |-> log.upper, from |-> tx.from,
                         tx |-> Len(done) + 1, swapped |-> FALSE, burned |-> FALSE])
      [] log.kind = "burn" -> Burns(ms, log, tx.from)
      [] OTHER -> ms

(* A position has worked when the price was in its range before or after.      *)
Swapped(s, log) ==
    IF log.kind # "swap" \/ Quoting[log.pool] # "cl" THEN s
    ELSE [mints |-> [i \in DOMAIN s.mints |->
              IF /\ s.mints[i].pool = log.pool
                 /\ \/ log.pool \in DOMAIN s.ticks /\ InRange(s.mints[i], s.ticks[log.pool])
                    \/ InRange(s.mints[i], log.price)
              THEN [s.mints[i] EXCEPT !.swapped = TRUE] ELSE s.mints[i]],
          ticks |-> (log.pool :> log.price) @@ s.ticks]

ProcessTx(tx) ==
    LET ms == FoldLeft(LAMBDA acc, log : MintOrBurn(acc, log, tx), mints, tx.logs)
    IN  FoldLeft(Swapped, [mints |-> ms, ticks |-> ticks], tx.logs)

JitMade(m) == <<m.pool, m.tx>>

\* Mutant: a position that was reported open is not looked at again.
JitKeyOnce(m) == JitMade(m)

(* The key of a report leaves out the range: once open and once closed for all *)
(* the positions of a transaction on a pool.                                   *)
JitKey(m) == <<m.pool, m.tx, m.burned>>

JitOpps(ms) ==
    LET news == {i \in DOMAIN ms : /\ ms[i].swapped /\ JitKey(ms[i]) \notin emitted
                                   /\ \A j \in 1 .. i - 1 : ms[j].swapped => JitKey(ms[j]) # JitKey(ms[i])}
    IN  {ms[i] : i \in news}

-------------------------------------------------------------------------------
AfterMove(mk, log) ==
    CASE log.pool \notin Held -> mk
      [] log.kind = "swap" -> [mk EXCEPT ![log.pool] = [price |-> log.price, liq |-> log.liq]]
      [] log.kind = "mint" /\ InRange(log, mk[log.pool].price) -> [mk EXCEPT ![log.pool].liq = @ + log.amount]
      [] log.kind = "burn" /\ InRange(log, mk[log.pool].price) -> [mk EXCEPT ![log.pool].liq = @ - log.amount]
      [] OTHER -> mk

TouchedPools(tx) == {tx.logs[i].pool : i \in DOMAIN tx.logs} \cap Held

DetectorsInit ==
    /\ \E s \in Starts : order = s.order /\ market = s.market /\ pairs = ArbPairs(s.ranked)
    /\ touched = Everything /\ twoSeen = <<>> /\ multiSeen = <<>>
    /\ mints = <<>> /\ emitted = {}
    /\ ticks = [p \in {p \in Held : Quoting[p] = "cl"} |-> market[p].price]
    /\ opps = {} /\ done = <<>>

Detect(tx) ==
    LET two   == {o \in TwoHop : Shifted(o, twoSeen)}
        multi == {o \in MultiHop : Shifted(o, multiSeen)}
        jit   == ProcessTx(tx)
        fresh == JitOpps(jit.mints)
    IN  /\ twoSeen' = Remember(twoSeen, two) /\ multiSeen' = Remember(multiSeen, multi)
        /\ mints' = jit.mints /\ ticks' = jit.ticks
        /\ emitted' = emitted \cup {JitKey(m) : m \in fresh}
        /\ opps' = opps \cup two \cup multi \cup {[strategy |-> "jit", mint |-> m] : m \in fresh}

ScanTx ==
    /\ Len(done) < MaxBlockTxs
    /\ \E tx \in BlockTxs :
          /\ Detect(tx)
          /\ market' = FoldLeft(AfterMove, market, tx.logs)
          /\ touched' = IF TouchedPools(tx) = {} THEN touched ELSE (touched \ Everything) \cup TouchedPools(tx)
          /\ done' = Append(done, tx)
    /\ UNCHANGED <<order, pairs>>

DetectorsNext == ScanTx

DetectorsSpec == DetectorsInit /\ [][DetectorsNext]_detectorVars

-------------------------------------------------------------------------------
(* A two-pool cycle that the multi-hop detector reports is one that the        *)
(* two-hop detector has reported in the block, pools, order and tokens the     *)
(* same, where it quotes both pools and the smaller of their tokens claims the *)
(* pair (check_path, "Mirror that"): the limit may leave the pair out of the   *)
(* list, or leave it to the larger token.                                      *)
Found(strategy) == {o \in opps : o.strategy = strategy}
ListedBySmaller(path) ==
    \E c \in pairs : {c[1], c[2]} = ToSet(path) /\ c[3] = Min(TokensOf(c[1]))
MirrorsTwoHop ==
    \A o \in Found("multi") :
        Len(o.path) = 2 /\ (\A p \in ToSet(o.path) : Supported(p)) /\ ListedBySmaller(o.path) =>
            \E t \in Found("two") : OppKey(t) = OppKey(o) /\ t.tx <= o.tx

(* The reference: closed walks over distinct tokens and pools.                 *)
Closed(path, tin) == WalkQuote(path, tin).ok /\ WalkQuote(path, tin).token = tin
Cycles ==
    UNION {{[path |-> path, tin |-> t] : path \in
               {s \in [1 .. n -> Held] : /\ Cardinality(ToSet(s)) = n /\ Closed(s, t)
                                          /\ \A i \in 1 .. n - 1 : ~Closed(SubSeq(s, 1, i), t)}} :
           n \in 2 .. MaxDepth, t \in AllTokens}

(* "converged: no further bounded negative cycles": a full scan that reports   *)
(* no cycle has left none that earns, where the marginal rates are exact and   *)
(* the tokens are no more than the rounds of relaxation.                       *)
QuietMeansAligned ==
    /\ touched = Everything /\ done = <<>> /\ TaxedTokens = {}
    /\ Cardinality(AllTokens) <= MaxDepth /\ \A p \in Held : Quoting[p] # "curve"
    /\ MultiHop = {}
    => \A c \in Cycles : WalkQuote(c.path, c.tin).gain <= 0

(* A position that was minted, traded through and burned by its sender in      *)
(* separate transactions is reported as complete by the end of the last of     *)
(* them, though it was reported open before (detect of JitDetector). Of the    *)
(* positions that one transaction opened on a pool only one is reported, so    *)
(* the report may be of another range where there are several.                 *)
Did(i, kind, m) ==
    \E k \in DOMAIN done[i].logs : LET l == done[i].logs[k] IN
        l.kind = kind /\ l.pool = m.pool /\ l.lower = m.lower /\ l.upper = m.upper /\ done[i].from = m.from
TradedIn(i, m) ==
    \E k \in DOMAIN done[i].logs : LET l == done[i].logs[k] IN
        l.kind = "swap" /\ l.pool = m.pool /\ InRange(m, l.price)
OnlyOf(n) == \A i \in DOMAIN mints : JitMade(mints[i]) = JitMade(mints[n]) => i = n
JitIsCompleted ==
    \A n \in DOMAIN mints : LET m == mints[n] IN
        (\E j \in DOMAIN done, k \in DOMAIN done :
            /\ m.tx < j /\ j < k /\ TradedIn(j, m) /\ Did(k, "burn", m)
            /\ \A i \in 1 .. k - 1 : ~Did(i, "burn", m) /\ (i # m.tx => ~Did(i, "mint", m)))
        => \E o \in Found("jit") :
              /\ o.mint.burned /\ JitMade(o.mint) = JitMade(m)
              /\ OnlyOf(n) => o.mint.lower = m.lower /\ o.mint.upper = m.upper
===============================================================================
