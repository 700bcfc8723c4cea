------------------------------- MODULE PoolInit -------------------------------
(* Pools read from the chain when a session begins                             *)
(* (src/core/src/pool/state/factory.rs). The rows of the pool cache become     *)
(* pools without state; a first round of calls repairs what the rows lack, a   *)
(* second one fetches what each kind of pool needs, one task per pool, all at  *)
(* once; then the pools that came to nothing are removed. What a pool is asked *)
(* for depends on what it has answered, so a task is the sequence of calls     *)
(* that its answers so far call for, and its next call is the first of them it *)
(* has not made. Amounts are small numbers, and Limb is where the code cuts    *)
(* those it reads as one 64-bit limb.                                          *)
EXTENDS Integers, Sequences, FiniteSets, FiniteSetsExt, Functions, SequencesExt, TLC

CONSTANTS
    Universes,      \* the sets of pools a cache may hold
    Row,            \* pool -> its row in the cache
    Chain,          \* pool -> the contract's state after each block, a sequence
    MaxInits,       \* bound: sessions
    MaxFaults,      \* bound: calls that get no answer
    Radius,         \* words of the tick bitmap on either side of the current one
    WordSize, MaxTicks, MaxCoins, MaxRatio, Limb, DefaultSpacing,
    FeeUnit         \* what a Curve fee is divided by

NoToken == "none"
Pools == DOMAIN Row
LastBlock == Len(Chain[CHOOSE p \in Pools : TRUE])

ASSUME InitAssumption ==
    /\ \A u \in Universes : u \subseteq Pools
    /\ DOMAIN Chain = Pools /\ \A p \in Pools : Len(Chain[p]) = LastBlock
    /\ {MaxInits, MaxFaults, Radius} \subseteq Nat
    /\ {WordSize, MaxTicks, MaxCoins, MaxRatio, Limb, DefaultSpacing, FeeUnit} \subseteq Nat \ {0}

VARIABLES
    universe,   \* the pools of the cache
    tip,        \* the latest block
    inits,      \* sessions begun
    phase,      \* "idle", "repair", "fetch" or "ready"
    block,      \* the target block
    latest,     \* use_latest: calls are served at the tip
    pools,      \* pool -> its state in the manager
    index,      \* token -> the pools that trade it
    got,        \* pool -> the answers of its calls of this phase
    ticks,      \* v3_tick_cache: <<pool, center word>> -> [spacing, map]
    faults,
    hit         \* history: the pools of which a call has got no answer

vars == <<universe, tip, inits, phase, block, latest, pools, index, got, ticks, faults, hit>>

NoAnswers == [q \in {} |-> 0]

-------------------------------------------------------------------------------
(* What a contract answers. Calls to an account without code return nothing,   *)
(* which no caller takes for an answer; its storage reads as zero.             *)

Answer(v) == [ok |-> TRUE, v |-> v]
NoAnswer == [ok |-> FALSE, v |-> 0]
When(condition, v) == IF condition THEN Answer(v) ELSE NoAnswer

InWord(c, w) == {t \div c.spacing : t \in {u \in DOMAIN c.map : (u \div c.spacing) \div WordSize = w}}
Overload(c, q) == c.ints = q[3]

Says(c, q) ==
    CASE q[1] = "storage" ->
            IF c.kind = "pair" THEN Answer(IF q[2] = c.slot THEN c.amounts ELSE c.junk)
            ELSE IF c.kind = "cl" THEN Answer(IF q[2] = 0 THEN <<c.price, c.tick>> ELSE <<c.growth, 0>>)
            ELSE Answer(<<0, 0>>)
      [] c.kind = "none" -> NoAnswer
      [] q[1] = "token0" -> When("t0" \in DOMAIN c, c.t0)
      [] q[1] = "token1" -> When("t1" \in DOMAIN c, c.t1)
      [] q[1] = "readTokens" -> When(c.kind = "market", <<c.t0, c.t1>>)
      [] q[1] = "getReserves" -> When(c.kind = "pair", c.amounts)
      [] q[1] = "fee" -> When("fee" \in DOMAIN c, c.fee)
      [] q[1] = "tickSpacing" -> When(c.kind = "cl", c.spacing)
      [] q[1] = "slot0" -> When(c.kind = "cl", <<c.price, c.tick>>)
      [] q[1] = "liquidity" -> When(c.kind = "cl", c.liq)
      [] q[1] = "bitmap" -> When(c.kind = "cl", InWord(c, q[2]))
      [] q[1] = "ticks" -> When(c.kind = "cl", IF q[2] \in DOMAIN c.map THEN c.map[q[2]] ELSE 0)
      [] q[1] = "coins" ->
            When(c.kind = "coins" /\ Overload(c, q),
                 IF q[2] < Len(c.coins) THEN c.coins[q[2] + 1] ELSE NoToken)
      [] q[1] = "balances" ->
            When(c.kind = "coins" /\ Overload(c, q) /\ q[2] < Len(c.coins), c.amounts[q[2] + 1])
      [] q[1] = "get_A" -> When(c.kind = "coins" /\ c.gamma # 0, c.a)
      [] q[1] = "A" -> When(c.kind = "coins", c.a)
      [] q[1] = "gamma" -> When(c.kind = "coins" /\ c.gamma # 0, c.gamma)
      [] q[1] = "base_pool" -> When(c.kind = "coins" /\ c.base # 0, c.base)
      [] q[1] = "price_scale" -> When(c.kind = "coins" /\ c.gamma # 0, c.scale)
      [] q[1] = "activeId" -> When(c.kind = "bins", c.active)
      [] q[1] = "binStep" -> When(c.kind = "bins", c.step)
      [] q[1] = "bin" -> When(c.kind = "bins", IF q[2] = c.active THEN c.amounts ELSE <<0, 0>>)
      [] q[1] = "readState" -> When(c.kind = "market", c.amounts)

-------------------------------------------------------------------------------
(* Pools without state, and the round that repairs their rows.                 *)

Concentrated == {"v3", "v4", "infinity"}
Fresh(row) ==
    [row |-> row, amounts |-> IF row.kind \in {"curve", "balancer"} THEN <<>> ELSE <<0, 0>>,
     price |-> 0, tick |-> 0, liq |-> 0, map |-> NoAnswers, active |-> 0,
     a |-> IF row.kind = "stable" THEN 200 ELSE 100, gamma |-> 0, base |-> 0, scale |-> 0]

Unresolved(row) == NoToken \in {row.t0, row.t1}

(* Curve and Balancer pools resolve tokens and fees in the second round.       *)
RepairCalls(p) ==
    LET row == pools[p].row
        Lacks(kinds, condition, q) == IF row.kind \in kinds /\ condition THEN <<q>> ELSE <<>>
        tokens == IF ~Unresolved(row) THEN <<>>
                  ELSE IF row.kind = "pendle" THEN << <<"readTokens">> >>
                  ELSE << <<"token0">>, <<"token1">> >>
    IN  IF row.kind \in {"curve", "balancer"} THEN <<>>
        ELSE tokens \o Lacks({"v3", "v4"}, row.fee = 0, <<"fee">>)
                    \o Lacks({"v3", "v4"}, row.spacing = 0, <<"tickSpacing">>)
                    \o Lacks({"lb"}, row.step = 0, <<"binStep">>)

Ok(a, q) == q \in DOMAIN a /\ a[q].ok
Of(a, q) == a[q].v

Repaired(p, a) ==
    LET row == pools[p].row
        Filled(known, lacking, q) == IF known = lacking /\ Ok(a, q) THEN Of(a, q) ELSE known
        Token(known, i) == IF known = NoToken /\ Ok(a, <<"readTokens">>)
                           THEN Of(a, <<"readTokens">>)[i] ELSE known
    IN  [row EXCEPT !.t0 = Filled(Token(@, 1), NoToken, <<"token0">>),
                    !.t1 = Filled(Token(@, 2), NoToken, <<"token1">>),
                    !.fee = Filled(@, 0, <<"fee">>),
                    !.spacing = Filled(@, 0, <<"tickSpacing">>),
                    !.step = Filled(@, 0, <<"binStep">>)]

(* Only pools that were asked about are dropped for a token that is missing.   *)
Asked(p) == RepairCalls(p) # <<>>
Dropped == {p \in DOMAIN pools : Asked(p) /\ Unresolved(Repaired(p, got[p]))}

-------------------------------------------------------------------------------
(* Pairs: the storage slots of the factory's layout, of which the first that   *)
(* is not zero counts; if it does not look like reserves, getReserves.         *)

NonZero(v) == v[1] > 0 \/ v[2] > 0
\* Mutant: any content of the slot passes for reserves.
AnyReserves(v) == NonZero(v)

LooksLikeReserves(v) ==
    /\ v[1] > 0 /\ v[2] > 0
    /\ (IF v[1] > v[2] THEN v[1] \div v[2] ELSE v[2] \div v[1]) < MaxRatio

Slot(p, i) == <<"storage", pools[p].row.slots[i]>>
SlotHits(p, a) == {i \in DOMAIN pools[p].row.slots : Ok(a, Slot(p, i)) /\ NonZero(Of(a, Slot(p, i)))}
Again(p) == <<"storage", pools[p].row.slots[1], "again">>

FromStorage(p, a) ==
    IF SlotHits(p, a) # {} THEN Answer(Of(a, Slot(p, Min(SlotHits(p, a)))))
    ELSE IF Again(p) \in DOMAIN a THEN a[Again(p)] ELSE NoAnswer
StorageIsReserves(p, a) == FromStorage(p, a).ok /\ LooksLikeReserves(FromStorage(p, a).v)

PairCalls(p, a) ==
    LET slots == pools[p].row.slots
        tried == IF SlotHits(p, a) = {} THEN Len(slots) ELSE Min(SlotHits(p, a))
    IN  [i \in 1 .. tried |-> Slot(p, i)]
        \o (IF SlotHits(p, a) = {} THEN <<Again(p)>> ELSE <<>>)
        \o (IF StorageIsReserves(p, a) THEN <<>> ELSE << <<"getReserves">> >>)

WithReserves(p, a) ==
    IF StorageIsReserves(p, a) THEN [pools[p] EXCEPT !.amounts = FromStorage(p, a).v]
    ELSE IF Ok(a, <<"getReserves">>) THEN [pools[p] EXCEPT !.amounts = Of(a, <<"getReserves">>)]
    ELSE pools[p]

-------------------------------------------------------------------------------
(* Concentrated liquidity: price and liquidity by two calls, or else from two  *)
(* storage slots; then the ticks around the current one, unless the cache has  *)
(* a map for the same center word.                                             *)

Spacing(row) == IF row.spacing = 0 THEN DefaultSpacing ELSE row.spacing
Viewed(a) == Ok(a, <<"slot0">>) /\ Ok(a, <<"liquidity">>)
Stored(a) == Ok(a, <<"storage", 0>>) /\ Ok(a, <<"storage", 1>>)
Based(a) == Viewed(a) \/ Stored(a)
Base(a) == IF Viewed(a) THEN Of(a, <<"slot0">>) ELSE Of(a, <<"storage", 0>>)
BaseLiquidity(a) == IF Viewed(a) THEN Of(a, <<"liquidity">>) ELSE Of(a, <<"storage", 1>>)[1]

Center(p, a) == (Base(a)[2] \div Spacing(pools[p].row)) \div WordSize
Cached(p, a) ==
    /\ <<p, Center(p, a)>> \in DOMAIN ticks
    /\ ticks[<<p, Center(p, a)>>].spacing = Spacing(pools[p].row)

FoundTicks(a) ==
    LET found == {t \in {q[2] : q \in {r \in DOMAIN a : r[1] = "ticks"}} :
                    Ok(a, <<"ticks", t>>) /\ Of(a, <<"ticks", t>>) # 0}
    IN  [t \in found |-> Of(a, <<"ticks", t>>)]

TickCalls(p, a) ==
    LET TicksOf(w) ==
            IF Ok(a, <<"bitmap", w>>)
            THEN [i \in 1 .. Cardinality(Of(a, <<"bitmap", w>>)) |->
                    <<"ticks", SetToSortSeq(Of(a, <<"bitmap", w>>), <)[i] * Spacing(pools[p].row)>>]
            ELSE <<>>
        Word(calls, i) == LET w == Center(p, a) - Radius + i - 1
                          IN  calls \o << <<"bitmap", w>> >> \o TicksOf(w)
    IN  IF Cardinality(DOMAIN FoundTicks(a)) >= MaxTicks THEN <<>>
        ELSE FoldLeft(Word, <<>>, [i \in 1 .. 2 * Radius + 1 |-> i])

ClCalls(p, a) ==
    << <<"slot0">>, <<"liquidity">> >>
    \o (IF {<<"slot0">>, <<"liquidity">>} \subseteq DOMAIN a /\ ~Viewed(a)
        THEN << <<"storage", 0>> >> \o (IF Ok(a, <<"storage", 0>>) THEN << <<"storage", 1>> >> ELSE <<>>)
        ELSE <<>>)
    \o (IF Based(a) /\ ~Cached(p, a) THEN TickCalls(p, a) ELSE <<>>)

WithPrice(p, a) ==
    IF ~Based(a) THEN pools[p]
    ELSE [pools[p] EXCEPT !.price = Base(a)[1], !.tick = Base(a)[2], !.liq = BaseLiquidity(a),
                          !.map = IF Cached(p, a) THEN ticks[<<p, Center(p, a)>>].map ELSE FoundTicks(a)]

(* The map found is kept for the next session, if it holds anything.           *)
KeptTicks(p, a) ==
    IF Based(a) /\ ~Cached(p, a) /\ DOMAIN FoundTicks(a) # {}
    THEN (<<p, Center(p, a)>> :> [spacing |-> Spacing(pools[p].row), map |-> FoundTicks(a)]) @@ ticks
    ELSE ticks

(* Pancake Infinity: from the manager, by the pool's id, and without ticks.    *)
InfinityCalls(p, a) ==
    IF ~pools[p].row.id THEN <<>>
    ELSE << <<"slot0">> >> \o (IF Ok(a, <<"slot0">>) THEN << <<"liquidity">> >> ELSE <<>>)
WithManager(p, a) ==
    IF ~Viewed(a) THEN pools[p]
    ELSE [pools[p] EXCEPT !.price = Base(a)[1], !.tick = Base(a)[2], !.liq = BaseLiquidity(a)]

-------------------------------------------------------------------------------
(* Curve: token after token with its balance, by the two overloads of the      *)
(* getters; a zero token, or a call that both refuse, ends the list. Tokens    *)
(* the cache knows are not asked for.                                          *)

Overloads(name, i) == << <<name, i, "u256">>, <<name, i, "i128">> >>

Tried(a, calls) == IF calls[1] \in DOMAIN a /\ ~Ok(a, calls[1]) THEN calls ELSE <<calls[1]>>
Got(a, calls) ==
    IF Ok(a, calls[1]) THEN Answer(Of(a, calls[1]))
    ELSE IF Ok(a, calls[2]) THEN Answer(Of(a, calls[2])) ELSE NoAnswer

Coin(p, a, i) ==
    LET known == pools[p].row.coins
    IN  IF known = <<>> THEN Got(a, Overloads("coins", i))
        ELSE Answer(IF i < Len(known) THEN known[i + 1] ELSE NoToken)
CoinCalls(p, a, i) == IF pools[p].row.coins = <<>> THEN Tried(a, Overloads("coins", i)) ELSE <<>>

(* s is [calls, tokens, amounts, open].                                        *)
CoinStep(p, a, s, i, coin, balance) ==
    IF ~s.open THEN s
    ELSE IF ~coin.ok \/ coin.v = NoToken
         THEN [s EXCEPT !.calls = @ \o CoinCalls(p, a, i), !.open = FALSE]
    ELSE IF ~balance.ok
         THEN [s EXCEPT !.calls = @ \o CoinCalls(p, a, i) \o Tried(a, Overloads("balances", i)),
                        !.open = FALSE]
    ELSE [calls |-> s.calls \o CoinCalls(p, a, i) \o Tried(a, Overloads("balances", i)),
          tokens |-> Append(s.tokens, coin.v), amounts |-> Append(s.amounts, balance.v % Limb),
          open |-> TRUE]

Coins(p, a) ==
    FoldLeft(LAMBDA s, n : CoinStep(p, a, s, n - 1, Coin(p, a, n - 1), Got(a, Overloads("balances", n - 1))),
             [calls |-> <<>>, tokens |-> <<>>, amounts |-> <<>>, open |-> TRUE],
             [n \in 1 .. MaxCoins |-> n])

IsCrypto(a) == Ok(a, <<"gamma">>) /\ Of(a, <<"gamma">>) # 0

CurveCallsAfter(p, a, coins) ==
    IF Len(coins.tokens) < 2 THEN coins.calls
    ELSE coins.calls \o Tried(a, << <<"get_A">>, <<"A">> >>) \o << <<"fee">>, <<"gamma">> >>
         \o (IF <<"gamma">> \notin DOMAIN a THEN <<>>
             ELSE IF IsCrypto(a) THEN << <<"price_scale">> >> ELSE << <<"base_pool">> >>)
CurveCalls(p, a) == CurveCallsAfter(p, a, Coins(p, a))

Or(a, q, default) == IF Ok(a, q) THEN Of(a, q) ELSE default
OrElse(found, default) == IF found.ok THEN found.v ELSE default

WithCoins(p, a, coins) ==
    IF Len(coins.tokens) < 2 THEN pools[p]
    ELSE [pools[p] EXCEPT
            !.amounts = coins.amounts,
            !.row.coins = coins.tokens, !.row.t0 = coins.tokens[1], !.row.t1 = coins.tokens[2],
            !.row.fee = Or(a, <<"fee">>, 0) \div FeeUnit,
            !.a = OrElse(Got(a, << <<"get_A">>, <<"A">> >>), 100),
            !.gamma = IF IsCrypto(a) THEN Of(a, <<"gamma">>) ELSE 0,
            !.scale = IF IsCrypto(a) THEN Or(a, <<"price_scale">>, 0) ELSE 0,
            !.base = IF IsCrypto(a) THEN 0 ELSE Or(a, <<"base_pool">>, 0)]

-------------------------------------------------------------------------------
(* Bins and markets. A call that fails after the first reads as zeros.         *)

Limbs(v) == <<v[1] % Limb, v[2] % Limb>>

BinCalls(p, a) ==
    << <<"activeId">> >>
    \o (IF Ok(a, <<"activeId">>) THEN << <<"binStep">>, <<"bin", Of(a, <<"activeId">>)>> >> ELSE <<>>)
WithBin(p, a) ==
    IF ~Ok(a, <<"activeId">>) THEN pools[p]
    ELSE [pools[p] EXCEPT !.active = Of(a, <<"activeId">>), !.row.step = Or(a, <<"binStep">>, 0),
                          !.amounts = Limbs(Or(a, <<"bin", Of(a, <<"activeId">>)>>, <<0, 0>>))]

WithMarket(p, a) == [pools[p] EXCEPT !.amounts = Limbs(Or(a, <<"readState">>, <<0, 0>>))]

-------------------------------------------------------------------------------
(* The two rounds. Balancer pools are asked for nothing, since no pool brings  *)
(* its pool id along.                                                          *)

FetchCalls(p, a) ==
    LET kind == pools[p].row.kind
    IN  CASE kind \in {"pair", "stable"} -> PairCalls(p, a)
          [] kind \in {"v3", "v4"} -> ClCalls(p, a)
          [] kind = "infinity" -> InfinityCalls(p, a)
          [] kind = "curve" -> CurveCalls(p, a)
          [] kind = "lb" -> BinCalls(p, a)
          [] kind = "pendle" -> << <<"readState">> >>
          [] kind \in {"balancer", "metric"} -> <<>>

Fetched(p, a) ==
    LET kind == pools[p].row.kind
    IN  CASE kind \in {"pair", "stable"} -> WithReserves(p, a)
          [] kind \in {"v3", "v4"} -> WithPrice(p, a)
          [] kind = "infinity" -> WithManager(p, a)
          [] kind = "curve" -> WithCoins(p, a, Coins(p, a))
          [] kind = "lb" -> WithBin(p, a)
          [] kind = "pendle" -> WithMarket(p, a)
          [] kind \in {"balancer", "metric"} -> pools[p]

Unhealthy(pool) ==
    CASE pool.row.kind = "metric" -> FALSE
      [] pool.row.kind \in Concentrated -> pool.price = 0
      [] OTHER -> \A i \in DOMAIN pool.amounts : pool.amounts[i] = 0

(* The tokens a pool is indexed under: of the kinds with a token list, that.   *)
TokensOf(pool) ==
    (IF pool.row.kind \in {"curve", "stable", "balancer"}
     THEN {pool.row.coins[i] : i \in DOMAIN pool.row.coins}
     ELSE {pool.row.t0, pool.row.t1}) \ {NoToken}

(* add_pool: by the two tokens of the row.                                     *)
AddedIndex(state) ==
    LET Two(p) == {state[p].row.t0, state[p].row.t1} \ {NoToken}
    IN  [t \in UNION {Two(p) : p \in DOMAIN state} |-> {p \in DOMAIN state : t \in Two(p)}]

(* rebuild_token_index.                                                        *)
IndexOf(state) ==
    [t \in UNION {TokensOf(state[p]) : p \in DOMAIN state} |->
        {p \in DOMAIN state : t \in TokensOf(state[p])}]

Calls(p, a) == IF phase = "repair" THEN RepairCalls(p) ELSE FetchCalls(p, a)
Unmade(calls, a) == {i \in DOMAIN calls : calls[i] \notin DOMAIN a}
FirstOf(calls, a) == {calls[i] : i \in {j \in Unmade(calls, a) : \A k \in Unmade(calls, a) : j <= k}}
NextCall(p) == FirstOf(Calls(p, got[p]), got[p])

-------------------------------------------------------------------------------
Init ==
    /\ universe \in Universes /\ tip = 1 /\ inits = 0 /\ phase = "idle" /\ block = 0
    /\ latest = FALSE /\ pools = <<>> /\ index = <<>> /\ got = <<>> /\ ticks = <<>>
    /\ faults = 0 /\ hit = {}

Mine ==
    /\ tip < LastBlock
    /\ tip' = tip + 1
    /\ UNCHANGED <<universe, inits, phase, block, latest, pools, index, got, ticks, faults, hit>>

(* Rows of pools created after the target are left out; without any the        *)
(* session has no pools and asks for nothing.                                  *)
Loaded(b) == {p \in universe : Row[p].created <= b}

Load(b, live) ==
    /\ phase = "idle" /\ inits < MaxInits /\ b >= 1
    /\ inits' = inits + 1 /\ block' = b /\ latest' = live
    /\ pools' = [p \in Loaded(b) |-> Fresh(Row[p])]
    /\ index' = AddedIndex(pools')
    /\ got' = [p \in Loaded(b) |-> NoAnswers]
    /\ phase' = IF Loaded(b) = {} THEN "ready" ELSE "repair"
    /\ hit' = {}
    /\ UNCHANGED <<universe, tip, ticks, faults>>

(* A backtest begins at a block of its own, a live session before the tip.     *)
Begin == Load(tip - 1, TRUE) \/ \E b \in 1 .. tip : Load(b, FALSE)

(* A task is done with its last answer, and then keeps the ticks it found.     *)
At(q) == IF latest \/ (q[1] = "binStep" /\ phase = "fetch") THEN tip ELSE block

Kept(p, a) ==
    IF phase = "fetch" /\ pools[p].row.kind \in {"v3", "v4"} /\ Unmade(ClCalls(p, a), a) = {}
    THEN KeptTicks(p, a) ELSE ticks

Take(p, a) == got' = [got EXCEPT ![p] = a] /\ ticks' = Kept(p, a)

Call(p) ==
    /\ \E q \in NextCall(p) : Take(p, (q :> Says(Chain[p][At(q)], q)) @@ got[p])
    /\ UNCHANGED <<universe, tip, inits, phase, block, latest, pools, index, faults, hit>>

(* No provider answers.                                                        *)
CallFails(p) ==
    /\ faults < MaxFaults /\ faults' = faults + 1 /\ hit' = hit \cup {p}
    /\ \E q \in NextCall(p) : Take(p, (q :> NoAnswer) @@ got[p])
    /\ UNCHANGED <<universe, tip, inits, phase, block, latest, pools, index>>

Answered == \A p \in DOMAIN pools : NextCall(p) = {}

(* What the rows lack is filled in, and pools without both tokens go.          *)
EndRepair ==
    /\ phase = "repair" /\ Answered
    /\ phase' = "fetch"
    /\ pools' = [p \in DOMAIN pools \ Dropped |-> [pools[p] EXCEPT !.row = Repaired(p, got[p])]]
    /\ got' = [p \in DOMAIN pools' |-> NoAnswers]
    /\ UNCHANGED <<universe, tip, inits, block, latest, index, ticks, faults, hit>>

Healthy(state) == [p \in {r \in DOMAIN state : ~Unhealthy(state[r])} |-> state[p]]

EndFetch ==
    /\ phase = "fetch" /\ Answered
    /\ phase' = "ready"
    /\ pools' = Healthy([p \in DOMAIN pools |-> Fetched(p, got[p])])
    /\ index' = IndexOf(pools')
    /\ got' = <<>>
    /\ UNCHANGED <<universe, tip, inits, block, latest, ticks, faults, hit>>

(* The session ends, or the process dies; the cache stays.                     *)
Leave ==
    /\ phase # "idle" /\ inits < MaxInits
    /\ phase' = "idle" /\ pools' = <<>> /\ index' = <<>> /\ got' = <<>>
    /\ UNCHANGED <<universe, tip, inits, block, latest, ticks, faults, hit>>

Next == Mine \/ Begin \/ EndRepair \/ EndFetch \/ Leave
        \/ (\E p \in DOMAIN got : Call(p)) \/ (\E p \in DOMAIN got : CallFails(p))

Spec == Init /\ [][Next]_vars

-------------------------------------------------------------------------------

(* Balances of Curve pools, bins and markets are read as one limb.             *)
OneLimb(c) == c.kind \in {"coins", "bins", "market"} => \A i \in DOMAIN c.amounts : c.amounts[i] < Limb

IsPrefixOf(v, w) == Len(v) <= Len(w) /\ \A i \in DOMAIN v : v[i] = w[i]

(* "the target block" (init_pools): whichever calls failed or were answered by *)
(* a fallback, a pool that a backtest keeps has the reserves, price, active    *)
(* bin and balances that its contract has at that block. Where a call of the   *)
(* pool failed, reserves may be of another slot, liquidity of another field    *)
(* and balances cut short; and of balances of more than one limb the lowest is *)
(* taken for all.                                                              *)
KeptIsOfBlock ==
    phase = "ready" /\ ~latest =>
        \A p \in DOMAIN pools :
            LET c == Chain[p][block]
                s == pools[p]
            IN  /\ c.kind = "pair" /\ p \notin hit => s.amounts = c.amounts
                /\ c.kind = "cl" => /\ s.price = c.price /\ s.tick = c.tick
                                    /\ p \in hit \/ s.liq = c.liq
                /\ c.kind = "coins" => /\ OneLimb(c) => IsPrefixOf(s.amounts, c.amounts)
                                       /\ Len(s.amounts) >= 2
                                       /\ p \in hit \/ (s.a = c.a /\ Len(s.amounts) = Len(c.amounts))
                /\ c.kind = "bins" => s.active = c.active
                /\ c.kind \in {"bins", "market"} /\ OneLimb(c) => s.amounts = c.amounts
                /\ c.kind # "none"

(* A pool whose contract answers is not lost to another one's failure: it is   *)
(* kept, with its row completed, and indexed under every token it trades, and  *)
(* the index lists nothing else. Balancer pools and those of the v4 singleton  *)
(* come to nothing, and so may balances of more than one limb; stable pairs    *)
(* are not indexed.                                                            *)
Answers(p) ==
    /\ Row[p].kind \notin {"balancer", "v4"} /\ Row[p].created <= block
    /\ \A b \in block .. (IF latest THEN tip ELSE block) : Chain[p][b].kind # "none" /\ OneLimb(Chain[p][b])

Trades(p) == IF pools[p].row.coins = <<>> THEN {pools[p].row.t0, pools[p].row.t1}
             ELSE Range(pools[p].row.coins)

LivePoolIsKept ==
    phase = "ready" =>
        /\ \A p \in universe \ hit : Answers(p) =>
                /\ p \in DOMAIN pools /\ ~Unresolved(pools[p].row)
                /\ pools[p].row.kind = "v3" => pools[p].row.fee # 0 /\ pools[p].row.spacing # 0
                /\ pools[p].row.kind = "lb" => pools[p].row.step # 0
        /\ \A p \in DOMAIN pools : pools[p].row.kind # "stable" =>
                \A t \in Trades(p) : t \in DOMAIN index /\ p \in index[t]
        /\ \A t \in DOMAIN index : \A p \in index[t] : p \in DOMAIN pools /\ t \in Trades(p)

(* Both: the manager that a session starts from is neither wrong nor short of  *)
(* a pool (init_pools).                                                        *)
PoolsAreLoaded == KeptIsOfBlock /\ LivePoolIsKept
===============================================================================
