------------------------------- MODULE PoolState -------------------------------
(* The pool manager of the replay (src/core/src/pool/state): the state of      *)
(* every tracked pool, the token index, the cached arbitrage pairs, the dirty  *)
(* set, the tokens learned to be taxed, and the undo log of a block.           *)
(*                                                                             *)
(* The manager is one record, and a method that changes it is an operator from *)
(* managers to managers, so that the runner can be written with the same       *)
(* operators. A pool belongs to a family by the way logs change it:            *)
(*   "v2"       two reserves, set by Sync and moved by Swap, wrapping at W     *)
(*   "curve"    two balances, as v2 and by its own exchange event, saturating  *)
(*   "weighted" two balances moved by its own exchange event (Balancer, LB,    *)
(*              Pendle), saturating                                            *)
(*   "cl"       liquidity, tick and the net liquidity of ticks (V3, V4)        *)
(*   "flow"     the last observed swap (Fluid, Metric)                         *)
(* Amounts are u128 in the code and naturals below W here; fee growth, prices  *)
(* and the rest of a pool's description are left out.                          *)
EXTENDS Integers, Sequences, FiniteSets, SequencesExt

CONSTANTS
    Pools,      \* pool addresses, as numbers: pairs are ordered by address
    Family,     \* pool -> family
    Token0,     \* pool -> token
    Token1,
    Rebasing,   \* tokens whose supply is elastic: never taken for taxed
    W,          \* amounts wrap or saturate at W
    MaxPairs,   \* max_pairs_per_token, 0 for no limit
    MinTax,     \* MIN_TAX_CHECK_AMOUNT
    Ticks       \* ticks of the liquidity positions

Tokens == {Token0[p] : p \in Pools} \union {Token1[p] : p \in Pools}
TokenAt(p, i) == IF i = 1 THEN Token0[p] ELSE Token1[p]

-------------------------------------------------------------------------------
(* States of one pool.                                                         *)

Fresh(p) ==
    CASE Family[p] = "cl"    -> [liq |-> 0, tick |-> 0, net |-> [t \in Ticks |-> 0]]
      [] Family[p] = "flow"  -> [last |-> 0]
      [] Family[p] = "curve" -> [res |-> <<>>]
      [] OTHER               -> [res |-> <<0, 0>>]

WrapAdd(a, b) == (a + b) % W
WrapSub(a, b) == (a - b) % W
SatAdd(a, b) == IF a + b >= W THEN W - 1 ELSE a + b
SatSub(a, b) == IF a < b THEN 0 ELSE a - b

V2Swap(s, x) ==
    [res |-> <<WrapSub(WrapAdd(s.res[1], x[1]), x[3]),
               WrapSub(WrapAdd(s.res[2], x[2]), x[4])>>]

ClSwap(s, x) == [s EXCEPT !.tick = x[1], !.liq = x[2]]

MintBurn(s, x) ==
    [s EXCEPT !.net[x[1]] = @ + x[3],
              !.net[x[2]] = @ - x[3],
              !.liq = IF x[3] > 0 THEN SatAdd(@, x[3]) ELSE SatSub(@, -x[3])]

Exchange(s, x) ==
    [res |-> [i \in {1, 2} |->
        IF i = x[1] THEN SatAdd(s.res[i], x[3])
        ELSE IF i = x[2] THEN SatSub(s.res[i], x[4]) ELSE s.res[i]]]

(* What one event does to the pool that emitted it; an event of another family *)
(* changes nothing.                                                            *)
AfterLog(p, s, l) ==
    LET f == Family[p] IN
    CASE l.topic = "Swap" /\ f \in {"v2", "curve"} /\ s.res # <<>> -> V2Swap(s, l.args)
      [] l.topic = "Sync" /\ f \in {"v2", "curve"} /\ s.res # <<>> -> [res |-> l.args]
      [] l.topic = "ClSwap" /\ f = "cl" -> ClSwap(s, l.args)
      [] l.topic = "MintBurn" /\ f = "cl" -> MintBurn(s, l.args)
      [] l.topic = "Exchange" /\ f \in {"curve", "weighted"} /\ s.res # <<>> ->
            Exchange(s, l.args)
      [] l.topic = "Flow" /\ f = "flow" -> [last |-> l.args[1]]
      [] OTHER -> s

-------------------------------------------------------------------------------
(* The manager.                                                                *)

NoUndo == [open |-> FALSE]
NoIndex == <<>>
NoPairs == {<<>>}
EmptyManager ==
    [pools |-> <<>>, known |-> {}, index |-> [t \in Tokens |-> <<>>],
     pairs |-> NoPairs, dirty |-> {}, fot |-> {}, undo |-> NoUndo]

BeginUndo(m) ==
    [m EXCEPT !.undo = [open |-> TRUE, previous |-> <<>>, added |-> {},
                        dirty |-> m.dirty, fot |-> m.fot, index |-> NoIndex]]

EndUndo(m) == [m EXCEPT !.undo = NoUndo]

Tracked(m) == DOMAIN m.pools

Put(f, p, s) == [q \in DOMAIN f \union {p} |-> IF q = p THEN s ELSE f[q]]

RecordedLast(m, p) ==
    IF ~m.undo.open \/ p \in m.undo.added THEN m
    ELSE [m EXCEPT !.undo.previous = Put(@, p, m.pools[p])]
Recorded(m, p) ==
    IF ~m.undo.open THEN m
    ELSE IF p \in m.undo.added \union DOMAIN m.undo.previous THEN m
    ELSE [m EXCEPT !.undo.previous = Put(@, p, m.pools[p])]

(* retain: a bucket without the addresses in gone.                             *)
AppendUnless(gone, bucket, p) == IF p \in gone THEN bucket ELSE Append(bucket, p)
Retained(bucket, gone) ==
    LET kept[i \in 0 .. Len(bucket)] ==
            IF i = 0 THEN <<>> ELSE AppendUnless(gone, kept[i - 1], bucket[i])
    IN  kept
Retain(bucket, gone) == Retained(bucket, gone)[Len(bucket)]

UndoNothing(m) == EndUndo(m)
Undo(m) ==
    IF ~m.undo.open THEN m
    ELSE LET u == m.undo
             kept == (Tracked(m) \union DOMAIN u.previous) \ u.added
         IN  [pools |-> [p \in kept |->
                            IF p \in DOMAIN u.previous THEN u.previous[p] ELSE m.pools[p]],
              known |-> m.known \ u.added,
              index |-> IF u.index # NoIndex THEN u.index
                        ELSE [t \in Tokens |-> Retain(m.index[t], u.added)],
              pairs |-> NoPairs,
              dirty |-> u.dirty,
              fot |-> u.fot,
              undo |-> NoUndo]

(* add_pool pushes the address into the index even when it is there already.   *)
AddPool(m, p, s) ==
    LET logged ==
            IF ~m.undo.open THEN m.undo
            ELSE IF p \in Tracked(m)
            THEN [Recorded(m, p).undo EXCEPT !.index = IF @ = NoIndex THEN m.index ELSE @]
            ELSE [m.undo EXCEPT !.added = @ \union {p}]
        Entries(t) == IF Token0[p] = t /\ Token1[p] = t THEN <<p, p>>
                      ELSE IF t \in {Token0[p], Token1[p]} THEN <<p>> ELSE <<>>
    IN  [m EXCEPT !.undo = logged,
                  !.known = @ \union {p},
                  !.pools = Put(@, p, s),
                  !.index = [t \in Tokens |-> @[t] \o Entries(t)],
                  !.pairs = NoPairs]

MarkDirty(m, p) == [m EXCEPT !.dirty = @ \union {p}]
TakeDirty(m) == [m EXCEPT !.dirty = {}]

ApplyLog(m, l) ==
    IF l.pool \notin m.known THEN m
    ELSE LET d == MarkDirty(m, l.pool)
         IN  IF ~l.decodes \/ l.pool \notin Tracked(m) THEN d
             ELSE [Recorded(d, l.pool) EXCEPT !.pools[l.pool] = AfterLog(l.pool, @, l)]

(* The managers after each of the logs.                                        *)
AfterLogs(m, logs) ==
    LET after[i \in 0 .. Len(logs)] == IF i = 0 THEN m ELSE ApplyLog(after[i - 1], logs[i])
    IN  after
UpdateFromLogs(m, logs) == AfterLogs(m, logs)[Len(logs)]

-------------------------------------------------------------------------------
(* Learning which tokens take a tax on transfer, from one transaction's logs:  *)
(* what its swaps declare against what the token contracts moved.              *)

Moved(m, logs, dir, p, t) ==
    LET Value(l) ==
            IF /\ l.topic = "Transfer" /\ l.decodes /\ l.pool = t
               /\ p = IF dir = "in" THEN l.args[2] ELSE l.args[1]
               /\ p \in m.known
            THEN l.args[3] ELSE 0
    IN  FoldLeft(LAMBDA sum, l : sum + Value(l), 0, logs)

(* A concentrated-liquidity swap declares only what it takes of token0 and     *)
(* what it pays of token1.                                                     *)
Declared(m, l) ==
    IF ~l.decodes \/ l.pool \notin Tracked(m) THEN {}
    ELSE LET p == l.pool
             x == l.args
         IN  CASE l.topic = "Swap" ->
                    {<<Token0[p], "in", x[1]>>, <<Token0[p], "out", x[3]>>,
                     <<Token1[p], "in", x[2]>>, <<Token1[p], "out", x[4]>>}
               [] l.topic = "ClSwap" ->
                    {<<Token0[p], "in", x[3]>>, <<Token1[p], "out", -x[4]>>}
               [] l.topic = "Exchange" /\ Family[p] \in {"curve", "weighted"} ->
                    {<<TokenAt(p, x[1]), "in", x[3]>>, <<TokenAt(p, x[2]), "out", x[4]>>}
               [] OTHER -> {}

Shortfall(actual, declared) == actual * 20 < declared * 19

LearnTaxes(m, logs) ==
    LET Taxed(l) == {d[1] : d \in {d \in Declared(m, l) :
                        /\ d[3] >= MinTax
                        /\ d[1] \notin Rebasing
                        /\ Shortfall(Moved(m, logs, d[2], l.pool, d[1]), d[3])}}
    IN  [m EXCEPT !.fot = @ \union UNION {Taxed(logs[i]) : i \in DOMAIN logs}]

-------------------------------------------------------------------------------
(* Arbitrage pairs.                                                            *)

LiquidityEstimate(m, p) ==
    IF p \notin Tracked(m) THEN 0
    ELSE LET s == m.pools[p] IN
         IF Family[p] = "cl" THEN s.liq
         ELSE IF Family[p] = "flow" \/ s.res = <<>> THEN 0
         ELSE IF Family[p] = "curve" THEN s.res[1] + s.res[2]
         ELSE IF s.res[1] < s.res[2] THEN s.res[1] ELSE s.res[2]

(* The positions of a token's bucket that survive the truncation: a stable     *)
(* sort by descending liquidity, then the first MaxPairs.                      *)
Kept(m, t) ==
    LET b == m.index[t]
        L(i) == LiquidityEstimate(m, b[i])
        Ahead(i) == {j \in DOMAIN b : L(j) > L(i) \/ (L(j) = L(i) /\ j < i)}
    IN  {i \in DOMAIN b : MaxPairs = 0 \/ Cardinality(Ahead(i)) < MaxPairs}

ComputedPairs(m) ==
    LET In(a, b, t) ==
            \E i, j \in Kept(m, t) : i # j /\ m.index[t][i] = a /\ m.index[t][j] = b
    IN  {q \in m.known \X m.known \X Tokens :
            /\ q[1] <= q[2]
            /\ In(q[1], q[2], q[3])
            /\ \A t \in Tokens : t < q[3] => ~In(q[1], q[2], t)}

(* The cache answers until add_pool or undo clears it.                         *)
ArbitragePairs(m) ==
    IF m.pairs # NoPairs THEN m ELSE [m EXCEPT !.pairs = ComputedPairs(m)]

InScope(scope, q) == q[1] \in scope \/ q[2] \in scope
===============================================================================
