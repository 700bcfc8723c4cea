--------------------------- MODULE ExplorerClassify ---------------------------
(* Classifying a block and storing what was found (classify_block and its      *)
(* passes in src/core/src/explorer/classify, index_block_fetched in ingest.rs, *)
(* insert_block_facts in store/facts.rs). The passes run in order over the     *)
(* decoded block; each may emit an event for the same transaction, and the     *)
(* claims decide which of them stand. Events are then upserted by their        *)
(* canonical id and transaction hash, and open JIT positions carried over.     *)
(*                                                                             *)
(* USD prices, tags, evidence and gas are left out: an event's amount stands   *)
(* for what is revised when its row is priced again.                           *)
EXTENDS ExplorerFacts, TLC

CONSTANTS
    Transactions,   \* the transactions that may come
    Blocks,         \* the blocks that may come: sequences of them
    NBlocks,        \* how many of them are indexed
    V2Pools,        \* v2_like_pools
    TipSinks,       \* the coinbase and tip_sink_addresses
    Window,         \* causal_window_txs
    MinPct,         \* causal_price_min_pct
    JitWindow       \* jit_window_blocks

ASSUME ClassifyAssumption ==
    /\ {NBlocks, Window, JitWindow, MinPct} \subseteq Nat
    /\ Blocks \subseteq Seq(Transactions)

VARIABLES
    number,         \* block_number
    pc,             \* the pass that is next
    facts,          \* tx_inputs: [tx |-> tx_index, f |-> facts], in order
    events,         \* the events of the block so far
    emitted,        \* history: every event a pass of this block emitted
    rejects,        \* <<tx, reason>>; tx is AnyTx for a row of the whole block
    consumed,       \* transactions of sandwiches, then of frontruns too
    open,           \* jit_open_positions
    rows,           \* mev_ops: <<canonical id, hash>> |-> row
    wanted          \* history: <<block, event>> of every event that was stored

vars == <<number, pc, facts, events, emitted, rejects, consumed, open, rows, wanted>>

AnyTx == 0
NoHash == <<0, 0>>

Precedence(kind) ==
    CHOOSE k \in 0..8 :
        <<"sandwich", "frontrun", "backrun", "jit arb", "liquidation", "jit", "skim",
          "arb", "utility">>[k + 1] = kind

(* An event of tx; "also" are the other transactions it claims, "key" what its *)
(* canonical id names, "at" tells apart what one transaction emits.            *)
Event(kind, tx, at, searcher, token, amt, basis, key) ==
    [kind |-> kind, tx |-> tx, at |-> at, searcher |-> searcher, token |-> token,
     amt |-> amt, basis |-> basis, exact |-> TRUE, also |-> {}, key |-> key]

Txs == {facts[k].tx : k \in DOMAIN facts}
TxAt(i) == facts[CHOOSE k \in DOMAIN facts : facts[k].tx = i].f

Emit(new) == events' = events \cup new /\ emitted' = emitted \cup new
Reject(new) == rejects' = rejects \cup new

Init ==
    /\ number = 0 /\ pc = "next" /\ facts = <<>> /\ events = {} /\ emitted = {}
    /\ rejects = {} /\ consumed = {} /\ open = {} /\ rows = <<>> /\ wanted = {}

Decoded == [t \in Transactions |-> DecodeTx(t)]

(* Only transactions that succeeded are decoded, in the order of the block.    *)
Succeeded(block) == {i \in DOMAIN block : block[i].ok}
Ascending(S) ==
    CHOOSE s \in [1 .. Cardinality(S) -> S] : \A i, j \in DOMAIN s : i < j => s[i] < s[j]

NextBlock ==
    /\ pc = "next" /\ number < NBlocks
    /\ \E block \in Blocks :
        LET at == Ascending(Succeeded(block))
        IN  facts' = [k \in DOMAIN at |-> [tx |-> at[k], f |-> Decoded[block[at[k]]]]]
    /\ number' = number + 1 /\ pc' = "liquidations"
    /\ events' = {} /\ emitted' = {} /\ rejects' = {} /\ consumed' = {}
    /\ UNCHANGED <<open, rows, wanted>>

-------------------------------------------------------------------------------
(* Liquidations, and purchases of absorbed collateral.                         *)

LiquidationsOf(i) ==
    LET tx == TxAt(i)
    IN  {LET l == tx.liquidations[k]
             by == IF l.liquidator = Zero THEN tx.from ELSE l.liquidator
         IN  Event("liquidation", i, k, by, l.coll, l.amt, "O", <<l.user, by>>)
         : k \in DOMAIN tx.liquidations}

Paired(i) ==
    \E j \in Txs : j <= i /\ \E k \in DOMAIN TxAt(j).liquidations :
                                    TxAt(j).liquidations[k].coll = Zero

BuysOf(i) ==
    LET tx == TxAt(i)
    IN  {LET b == tx.buys[k]
             by == IF b.buyer = Zero THEN tx.from ELSE b.buyer
         IN  [Event("liquidation", i, 100 + k, by, b.coll, b.amt, "O", <<Zero, by>>)
                EXCEPT !.exact = Paired(i)]
         : k \in DOMAIN tx.buys}

Unreconciled(i) ==
    {e \in LiquidationsOf(i) :
        e.token # Zero /\ Net(TxLedger(TxAt(i)), e.searcher, e.token) < e.amt}

Liquidations ==
    /\ pc = "liquidations" /\ pc' = "skims"
    /\ Emit(UNION {LiquidationsOf(i) \cup BuysOf(i) : i \in Txs})
    /\ Reject({<<i, "liquidation not reconciled">> : i \in {j \in Txs : Unreconciled(j) # {}}})
    /\ UNCHANGED <<number, facts, consumed, open, rows, wanted>>

-------------------------------------------------------------------------------
(* Skims: a pair pays out in a transaction that did nothing else with it.      *)

Outflows(tx) == {i \in DOMAIN tx.transfers : tx.transfers[i].amt > 0 /\ tx.transfers[i].from # Zero}
PaysOut(tx, pools) ==
    {tx.transfers[i].from : i \in {j \in Outflows(tx) : tx.transfers[j].from \in pools}}
TakesIn(tx) ==
    {tx.transfers[i].to : i \in {j \in DOMAIN tx.transfers : tx.transfers[j].amt > 0}}

SkimPools(tx) == PaysOut(tx, V2Pools) \ (PoolsOf(tx.swaps) \cup tx.pairOps)

Skim(i, pool) ==
    LET tx      == TxAt(i)
        paid    == {j \in Outflows(tx) : tx.transfers[j].from = pool}
        tokens  == {tx.transfers[j].token : j \in paid}
        sum(t)  == MapThenSumSet(LAMBDA j : tx.transfers[j].amt,
                                 {j \in paid : tx.transfers[j].token = t})
        first   == {t \in tokens : InRange(t, Priority)}
        largest == {t \in tokens : \A u \in tokens : sum(u) <= sum(t)}
        token   == IF first # {} THEN Min(first) ELSE Max(largest)
    IN  Event("skim", i, pool, tx.from, token, sum(token), "R", <<pool, tx.from>>)

Skims ==
    /\ pc = "skims" /\ pc' = "arbs"
    /\ Emit(UNION {{Skim(i, p) : p \in SkimPools(TxAt(i)) \ TakesIn(TxAt(i))} : i \in Txs})
    /\ Reject({<<i, "skim looks like swap">> : i \in {j \in Txs :
                    SkimPools(TxAt(j)) \cap TakesIn(TxAt(j)) # {}}}
              \cup {<<AnyTx, "skim pool not registered">> : i \in {j \in Txs :
                    PaysOut(TxAt(j), TxAt(j).pairOps) \ V2Pools # {}}})
    /\ UNCHANGED <<number, facts, consumed, open, rows, wanted>>

-------------------------------------------------------------------------------
(* Atomic arbitrage.                                                           *)

(* A loan whose repayment is not among the transfers is taken off whoever got  *)
(* it, with its fee.                                                           *)
Borrower(tx, loan) == IF loan.initiator = Zero THEN tx.from ELSE loan.initiator
Repaid(tx, loan) ==
    loan.amt <= Total(tx.transfers, LAMBDA t :
        IF /\ t.token = loan.token /\ t.from \in {Borrower(tx, loan), tx.from}
           /\ t.to \in {loan.provider, loan.recipient}
        THEN t.amt ELSE 0)
Owed(tx, loan) ==
    [owner |-> IF loan.recipient = Zero THEN Borrower(tx, loan) ELSE loan.recipient,
     token |-> loan.token, amt |-> loan.amt + loan.fee]

\* Mutant: the loans stay in the balance.
NetLoansNot(tx) == TxLedger(tx)

NetLoans(tx) ==
    LET unpaid == SelectSeq(tx.loans, LAMBDA l : l.token # Zero /\ l.amt # 0 /\ ~Repaid(tx, l))
    IN  [TxLedger(tx) EXCEPT !.netted = [k \in DOMAIN unpaid |-> Owed(tx, unpaid[k])]]

HopMax(swaps, token) ==
    LET used == DexEdges(swaps)
    IN  Max({0} \cup {used[k].ain : k \in {j \in DOMAIN used : used[j].tin = token}}
                \cup {used[k].aout : k \in {j \in DOMAIN used : used[j].tout = token}})

(* The one outsider who gained the anchor and got it from the sender or its    *)
(* contract only; or a tip sink.                                               *)
Forwarded(tx, ledger, insiders, anchor) ==
    LET holders == {a \in HoldersOf(ledger) \ (insiders \cup PoolsOf(DexEdges(tx.swaps))) :
                        Net(ledger, a, anchor) > 0}
        a       == Min(holders)
        inbound == {tx.transfers[i] : i \in {j \in DOMAIN tx.transfers :
                        LET t == tx.transfers[j] IN t.token = anchor /\ t.to = a /\ t.amt > 0}}
        none    == [how |-> "none", a |-> Zero]
    IN  IF Cardinality(holders) # 1 THEN none
        ELSE IF a \in TipSinks THEN [how |-> "tip", a |-> a]
        ELSE IF /\ \A k \in DOMAIN tx.swaps : tx.swaps[k].owner # a
                /\ inbound # {} /\ \A t \in inbound : t.from \in {tx.from, tx.to} \ {Zero}
             THEN [how |-> "wallet", a |-> a] ELSE none

(* What the sender put in is not profit of the contract that holds it.         *)
AnchorProfit(ledger, eoa, searcher, anchor) ==
    LET own == Net(ledger, searcher, anchor)
        put == Net(ledger, eoa, anchor)
    IN  Max({0, IF eoa \notin {Zero, searcher} /\ put < 0 /\ own > 0 THEN own + put ELSE own})

Material(tx, ledger, a, token, walked) ==
    LET d == Deficit(ledger, a, token)
    IN  d > 0 /\ (token \notin walked \/ ~IsDust(d, HopMax(tx.swaps, token)))

MaterialDeficit(tx, ledger, a, walked) ==
    \E t \in TokensOf(ledger) \ {Native} : Material(tx, ledger, a, t, walked)

Funded(tx, ledger, searcher, anchor) ==
    /\ \E i \in DOMAIN tx.transfers :
        LET t == tx.transfers[i]
        IN  t.token = anchor /\ t.from = tx.from /\ t.to = searcher /\ t.amt > 0
    /\ Net(ledger, searcher, anchor) > 0

InitiatorBlocks(tx, ledger, searcher, anchor, walked) ==
    /\ tx.from \notin {Zero, searcher}
    /\ \E t \in TokensOf(ledger) \ {Native} :
        IF t = anchor
        THEN Deficit(ledger, tx.from, t) > 0 /\ ~Funded(tx, ledger, searcher, anchor)
        ELSE Material(tx, ledger, tx.from, t, walked)

(* The first candidate that gained the anchor, else one that gained something, *)
(* else the wallet the gain was forwarded to.                                  *)
SearcherOf(ledger, holders, anchor, forwarded) ==
    LET gaining == {k \in DOMAIN holders : Net(ledger, holders[k], anchor) > 0}
        holding == {k \in DOMAIN holders : ProfitToken(ledger, holders[k]) # Zero}
    IN  IF gaining # {} THEN [a |-> holders[Min(gaining)], held |-> TRUE]
        ELSE IF holding # {} THEN [a |-> holders[Min(holding)], held |-> TRUE]
        ELSE [a |-> IF forwarded.how = "wallet" THEN forwarded.a ELSE Zero, held |-> FALSE]

ArbBy(i, tx, ledger, anchor, walked, forwarded, searcher) ==
    LET amt == AnchorProfit(ledger, tx.from, searcher.a, anchor)
    IN  IF searcher.a = Zero
        THEN <<"reject", IF forwarded.how = "tip" THEN "builder tip" ELSE "net zero searcher">>
        ELSE IF amt = 0 THEN <<"reject", "net zero searcher">>
        ELSE IF MaterialDeficit(tx, ledger, searcher.a, walked) THEN <<"reject", "material deficit">>
        ELSE IF InitiatorBlocks(tx, ledger, searcher.a, anchor, walked)
             THEN <<"reject", "open inventory">>
        ELSE <<"event", [Event("arb", i, 0, searcher.a, anchor, amt, "R", PoolsOf(tx.swaps))
                            EXCEPT !.exact = searcher.held]>>

ArbOfHolders(i, tx, ledger, anchor, walked, holders, forwarded) ==
    ArbBy(i, tx, ledger, anchor, walked, forwarded, SearcherOf(ledger, holders, anchor, forwarded))

ArbOfWalk(i, tx, ledger, anchor, walked, holders) ==
    ArbOfHolders(i, tx, ledger, anchor, walked, holders,
                 Forwarded(tx, ledger, Range(holders), anchor))

(* <<"event", e>>, <<"reject", reason>> or <<>>.                               *)
ArbOn(i, tx, edges, walk, candidates) ==
    IF tx.swaps = <<>> THEN <<>>
    ELSE IF walk = <<>>
         THEN IF Len(edges) >= 2 THEN <<"reject", "unresolved cycle">> ELSE <<>>
    ELSE IF ~FlowAttributable(tx.swaps, candidates) THEN <<"reject", "mixed flow owner">>
    ELSE ArbOfWalk(i, tx, NetLoans(tx), edges[walk[1]].tin, WalkTokens(edges, walk),
                   SelectSeq(candidates, LAMBDA a : a \notin PoolsOf(edges)))

ArbOfTx(i, tx) ==
    ArbOn(i, tx, DexEdges(tx.swaps), FirstWalk(DexEdges(tx.swaps)), SearcherCandidates(tx))
ArbOf(i) == ArbOfTx(i, TxAt(i))

KeepersOf(i) ==
    {LET k == TxAt(i).keepers[n]
     IN  Event("utility", i, n, TxAt(i).from, k.token, k.fee, "F", {}) : n \in DOMAIN TxAt(i).keepers}

BundlesOf(i) ==
    {LET u == TxAt(i).userOps[n]
     IN  Event("utility", i, 100 + n, TxAt(i).from, WrappedNative, u.gas, "gas", {})
     : n \in {m \in DOMAIN TxAt(i).userOps : TxAt(i).userOps[m].ok}}

(* Claimed tokens that are sold in the same transaction, unless it is an arb.  *)
ClaimSold(tx) ==
    \E j \in DOMAIN tx.transfers :
        LET t == tx.transfers[j]
        IN  /\ t.from = Zero /\ t.amt > 0 /\ t.token # Zero
            /\ \E k \in DOMAIN tx.swaps : tx.swaps[k].tin = t.token /\ tx.swaps[k].ain > 0

ClaimAndSellOf(i) ==
    LET tx == TxAt(i)
        t  == ProfitToken(TxLedger(tx), tx.from)
    IN  IF ClaimSold(tx) /\ t # Zero
        THEN {Event("utility", i, 200, tx.from, t, Net(TxLedger(tx), tx.from, t), "R",
                    PoolsOf(tx.swaps))}
        ELSE {}

Found(result) == {i \in Txs : result[i] # <<>> /\ result[i][1] = "event"}
Missed(result) == {i \in Txs \ Found(result) : result[i] # <<>>}

EmitArbs(result) ==
    /\ Emit({result[i][2] : i \in Found(result)}
            \cup (UNION {KeepersOf(i) \cup BundlesOf(i) : i \in Txs})
            \cup (UNION {ClaimAndSellOf(i) : i \in Txs \ Found(result)}))
    /\ Reject({<<i, result[i][2]>> : i \in Missed(result)})

Arbs ==
    /\ pc = "arbs" /\ pc' = "jit"
    /\ EmitArbs([i \in Txs |-> ArbOf(i)])
    /\ UNCHANGED <<number, facts, consumed, open, rows, wanted>>

-------------------------------------------------------------------------------
(* JIT liquidity: a mint, or a position still open from an earlier block, and  *)
(* a later burn of all of it. Each burn closes at most one position.           *)

Position(l) == <<l.pool, l.owner, l.lo, l.hi>>

LiquidityOf(kind) ==
    FlattenSeq([k \in DOMAIN facts |->
        LET ops == SelectSeq(facts[k].f.liquidity, LAMBDA o : o.f.log = kind)
        IN  [n \in DOMAIN ops |-> [tx |-> facts[k].tx, index |-> ops[n].index,
                                   position |-> Position(ops[n].f), liq |-> ops[n].f.liq]]])

(* What waits for a burn, in order: the mints of the block, then the open      *)
(* positions in the window; a position has tx 0.                               *)
Waiting ==
    LiquidityOf("mint")
    \o SetToSeq({[tx |-> 0, index |-> 0, position |-> o.position, liq |-> o.liq] :
                    o \in {q \in open : q.opened >= number - JitWindow}})

Closes(b, m, used) ==
    /\ b.tx > m.tx /\ <<b.tx, b.index>> \notin used
    /\ b.position = m.position /\ b.liq >= m.liq

FirstBurn(m, used) ==
    LET burns == SelectSeq(LiquidityOf("burn"), LAMBDA b : Closes(b, m, used))
    IN  IF burns = <<>> THEN <<>> ELSE <<burns[1]>>

Pairs ==
    FoldLeft(LAMBDA acc, m :
                LET b == FirstBurn(m, {<<p.burn.tx, p.burn.index>> : p \in acc})
                IN  IF b = <<>> THEN acc ELSE acc \cup {[mint |-> m, burn |-> b[1]]},
             {}, Waiting)

SwappedIn(position) ==
    \E i \in Txs : \E k \in DOMAIN TxAt(i).swaps :
        LET s == TxAt(i).swaps[k]
        IN  s.pool = position[1] /\ s.tick \in position[3]..position[4]

JitEvent(p) ==
    [kind |-> "jit", tx |-> IF p.mint.tx = 0 THEN p.burn.tx ELSE p.mint.tx, at |-> p.burn.index,
     searcher |-> p.mint.position[2], token |-> Zero, amt |-> 0, basis |-> "F", exact |-> FALSE,
     also |-> {}, key |-> <<p.mint.position[1], p.mint.position[3], p.mint.position[4]>>,
     burn |-> p.burn.tx]

(* A JIT event of a transaction that is an arb becomes a JIT arb, and the arb  *)
(* goes.                                                                       *)
Upgraded(new, arbTxs) ==
    {[e EXCEPT !.kind = IF e.tx \in arbTxs THEN "jit arb" ELSE @] : e \in new}

DropArbs(txs) == {e \in events : ~(e.kind = "arb" /\ e.tx \in txs)}

Mints == {LiquidityOf("mint")[k] : k \in DOMAIN LiquidityOf("mint")}
Burns == {LiquidityOf("burn")[k] : k \in DOMAIN LiquidityOf("burn")}

Unmatched(pairs, valid) == {m \in Mints : ~\E p \in valid : p.mint = m}

Jit ==
    /\ pc = "jit" /\ pc' = "sandwiches"
    /\ LET pairs   == Pairs
           valid   == {p \in pairs : SwappedIn(p.mint.position)}
           arbTxs  == {e.tx : e \in {f \in events : f.kind = "arb"}}
           new     == Upgraded({JitEvent(p) : p \in valid}, arbTxs)
       IN  /\ events' = DropArbs({e.tx : e \in {f \in new : f.kind = "jit arb"}}) \cup new
           /\ emitted' = emitted \cup new
           /\ Reject({<<m.tx, "jit unmatched">> : m \in Unmatched(pairs, valid)})
    /\ UNCHANGED <<number, facts, consumed, open, rows, wanted>>

-------------------------------------------------------------------------------
(* Bundles. The legs of a pool are the resolved swaps on it in block order.    *)

LegsOf(pool) ==
    FlattenSeq([k \in DOMAIN facts |->
        LET legs == SelectSeq(facts[k].f.swaps, LAMBDA s : s.pool = pool /\ ~HasUnresolved(s))
        IN  [n \in DOMAIN legs |-> [tx |-> facts[k].tx, from |-> facts[k].f.from, s |-> legs[n]]]])

LegPools == UNION {PoolsOf(SelectSeq(TxAt(i).swaps, LAMBDA s : ~HasUnresolved(s))) : i \in Txs}

SameDir(a, b) == a.s.tin = b.s.tin /\ a.s.tout = b.s.tout
OppositeDir(a, b) == a.s.tin = b.s.tout /\ a.s.tout = b.s.tin

(* out/in of the one exceeds that of the other by more than MinPct per cent.   *)
PriceAbove(hi, lo, of) ==
    /\ hi.s.ain > 0 /\ lo.s.ain > 0 /\ of.s.aout > 0
    /\ (hi.s.aout * lo.s.ain - lo.s.aout * hi.s.ain) * 100 * of.s.ain
         > MinPct * of.s.aout * hi.s.ain * lo.s.ain
PriceBetter(b, ref) == PriceAbove(b, ref, ref)
PriceWorse(v, front) == PriceAbove(front, v, front)

(* A sandwich: the attacker's first swap on the pool, others' swaps the same   *)
(* way, and the first swap of the attacker back after one of them.             *)
Walk(legs, attacker) ==
    LET mine    == {k \in DOMAIN legs : legs[k].from = attacker}
        front   == Min(mine)
        victims == {k \in DOMAIN legs \ mine : k > front /\ SameDir(legs[front], legs[k])}
        backs   == {k \in mine : k > front /\ OppositeDir(legs[front], legs[k])}
        closing == {k \in backs : \E v \in victims : v < k}
    IN  [front |-> legs[front], victims |-> victims, backs |-> backs, closing |-> closing]

SandwichOf(pool, attacker, legs, w) ==
    LET back == legs[Min(w.closing)]
    IN  [Event("sandwich", w.front.tx, pool, attacker, w.front.s.tin,
               Max({0, back.s.aout - w.front.s.ain}), "gross",
               <<pool, Cardinality({v \in w.victims : v < Min(w.closing)}), back.tx>>)
           EXCEPT !.also = {back.tx}, !.exact = FALSE]

Attacks == {pa \in LegPools \X {TxAt(i).from : i \in Txs} :
                \E k \in DOMAIN LegsOf(pa[1]) : LegsOf(pa[1])[k].from = pa[2]}

EmitSandwiches(walks) ==
    LET done == {pa \in DOMAIN walks : walks[pa].closing # {}}
        new  == {SandwichOf(pa[1], pa[2], LegsOf(pa[1]), walks[pa]) : pa \in done}
    IN  /\ Emit(new)
        /\ consumed' = UNION {{e.tx} \cup e.also : e \in new}
        /\ Reject({<<walks[pa].front.tx, IF walks[pa].victims = {} THEN "no victim"
                                         ELSE "cycle not closed">> :
                     pa \in {q \in DOMAIN walks \ done :
                                 walks[q].victims # {} \/ walks[q].backs # {}}})

Sandwiches ==
    /\ pc = "sandwiches" /\ pc' = "frontruns"
    /\ EmitSandwiches([pa \in Attacks |-> Walk(LegsOf(pa[1]), pa[2])])
    /\ UNCHANGED <<number, facts, open, rows, wanted>>

(* A frontrun: a swap, within the window somebody else's swap the same way at  *)
(* a worse price, and a later transaction of the same sender after which the   *)
(* sender's transfers since the front leave a gain in what the front paid.     *)
Between(a, b) == SelectSeq(facts, LAMBDA t : t.tx \in a..b)

CrossTx(searcher, front, close, anchor) ==
    LET txs    == Between(front, close)
        swaps  == FlattenSeq([k \in DOMAIN txs |-> txs[k].f.swaps])
        real   == SelectSeq(swaps, LAMBDA s : s.tin # Zero /\ s.tout # Zero)
        value  == Total(txs, LAMBDA t : IF t.f.from = searcher THEN t.f.value ELSE 0)
        ledger == Ledger(FlattenSeq([k \in DOMAIN txs |-> txs[k].f.transfers]), searcher, value)
        walked == {anchor} \cup WalkTokens(real, [k \in DOMAIN real |-> k])
        hop(t) == Max({0} \cup {real[k].ain : k \in {j \in DOMAIN real : real[j].tin = t}}
                          \cup {real[k].aout : k \in {j \in DOMAIN real : real[j].tout = t}})
    IN  [net |-> Max({0, Net(ledger, searcher, anchor)}),
         dusty |-> \A t \in TokensOf(ledger) \ {Native} :
                      LET d == Deficit(ledger, searcher, t)
                      IN  d = 0 \/ (t \in walked /\ IsDust(d, hop(t)))]

Victims(legs, f) ==
    {v \in DOMAIN legs : /\ v > f /\ legs[v].tx # legs[f].tx /\ legs[v].tx <= legs[f].tx + Window
                         /\ legs[v].from # legs[f].from /\ SameDir(legs[v], legs[f])}
Degraded(legs, f) == {v \in Victims(legs, f) : PriceWorse(legs[v], legs[f])}

ClosesOf(legs, f, v) ==
    {c \in Txs \ consumed : /\ c \in legs[v].tx..(legs[f].tx + Window)
                            /\ TxAt(c).from = legs[f].from
                            /\ LET x == CrossTx(legs[f].from, legs[f].tx, c, legs[f].s.tin)
                               IN  x.net > 0 /\ x.dusty}

FrontrunOf(pool, legs, f) ==
    LET v == Min(Degraded(legs, f))
        c == Min(ClosesOf(legs, f, v))
    IN  [Event("frontrun", legs[f].tx, pool, legs[f].from, legs[f].s.tin,
               CrossTx(legs[f].from, legs[f].tx, c, legs[f].s.tin).net, "R",
               <<pool, legs[v].tx>>)
           EXCEPT !.also = {c}, !.exact = FALSE]

\* Mutant: the front of a sandwich may be one of a frontrun.
FrontsOfAny(legs) == DOMAIN legs

Fronts(legs) == {f \in DOMAIN legs : legs[f].tx \notin consumed}

FrontrunsIn(pool, legs) ==
    LET hit    == {f \in Fronts(legs) : Degraded(legs, f) # {}}
        closed == {f \in hit : ClosesOf(legs, f, Min(Degraded(legs, f))) # {}}
        pair(f) == <<legs[f].tx, legs[Min(Degraded(legs, f))].tx>>
        Claimed(f, by) == \E h \in by : h < f /\ pair(h) = pair(f)
        Result(by) ==
            [new  |-> {FrontrunOf(pool, legs, f) : f \in {g \in by : ~Claimed(g, by)}},
             open |-> {legs[f].tx : f \in {g \in hit \ by : ~Claimed(g, by)}},
             alone |-> \E f \in Fronts(legs) : Victims(legs, f) = {}]
    IN  Result(closed)

FrontrunsOf(pool) == FrontrunsIn(pool, LegsOf(pool))

EmitFrontruns(found) ==
    LET new == UNION {found[p].new : p \in DOMAIN found}
    IN  /\ Emit(new)
        /\ consumed' = consumed \cup {e.tx : e \in new}
        /\ Reject({<<i, "cycle not closed">> : i \in UNION {found[p].open : p \in DOMAIN found}}
                  \cup {<<AnyTx, "no victim">> : p \in {q \in DOMAIN found : found[q].alone}})

Frontruns ==
    /\ pc = "frontruns" /\ pc' = "backruns"
    /\ EmitFrontruns([p \in LegPools |-> FrontrunsOf(p)])
    /\ UNCHANGED <<number, facts, open, rows, wanted>>

(* A backrun: a transaction that closes a walk at a profit, of which the first *)
(* leg on the pool answers an earlier leg of somebody else the other way, at a *)
(* better price than a third leg before that one.                              *)
FirstOnPool(legs, b) == \A k \in DOMAIN legs : legs[k].tx = legs[b].tx => b <= k

(* The nearest leg before a of b's direction, not of a's sender.               *)
Refs(legs, a, b) ==
    {r \in 1..(a - 1) : legs[r].from # legs[a].from /\ SameDir(legs[r], legs[b])}
Ref(legs, a, b) == Max(Refs(legs, a, b))

Answers(legs, a, b) ==
    legs[a].tx < legs[b].tx /\ legs[a].from # legs[b].from /\ OppositeDir(legs[a], legs[b])
Near(legs, a, b) == legs[b].tx - legs[a].tx <= Window

(* The earlier legs that may be the move, and those that are one.              *)
Moves(legs, b) ==
    {a \in 1..(b - 1) : /\ Answers(legs, a, b) /\ Near(legs, a, b)
                        /\ legs[a].s.aout >= legs[b].s.ain /\ Refs(legs, a, b) # {}}
Better(legs, b) == {a \in Moves(legs, b) : PriceBetter(legs[b], legs[Ref(legs, a, b)])}

(* The scan goes back to the nearest move; what it passes over is a reject.    *)
ScanRejects(legs, b) ==
    LET scanned == (IF Better(legs, b) = {} THEN 1 ELSE Max(Better(legs, b)))..(b - 1)
        far     == {a \in scanned : Answers(legs, a, b) /\ ~Near(legs, a, b)}
        moves   == scanned \cap Moves(legs, b)
        farRef  == {a \in moves : ~Near(legs, Ref(legs, a, b), b)}
        below   == moves \ (Better(legs, b) \cup farRef)
        named   == {<<legs[a].tx, "causal window too wide">> : a \in far \cup farRef}
                   \cup {<<legs[a].tx, "price below floor">> : a \in below}
    IN  IF named = {} /\ Better(legs, b) = {} THEN {<<legs[b].tx, "no counterparty leg">>}
        ELSE named

MissReject(i, miss) ==
    <<IF miss = "few edges" THEN AnyTx ELSE i,
      CASE miss \in {"few edges", "not closed"} -> "cycle not closed"
        [] miss = "not attributable" -> "mixed flow owner"
        [] miss = "inventory" -> "material deficit"
        [] miss = "no residual" -> "net zero searcher">>

BackrunOf(pool, legs, b, cycle) ==
    [Event("backrun", legs[b].tx, pool, legs[b].from, cycle.token, cycle.amt, "R",
           <<pool, legs[Max(Better(legs, b))].tx>>) EXCEPT !.exact = FALSE]

BackrunsIn(pool, legs, cycles) ==
    LET closed == {b \in DOMAIN cycles : cycles[b].miss = "none"}
    IN  [new     |-> {BackrunOf(pool, legs, b, cycles[b]) : b \in {c \in closed : Better(legs, c) # {}}},
         rejects |-> (UNION {ScanRejects(legs, b) : b \in closed})
                     \cup {MissReject(legs[b].tx, cycles[b].miss) : b \in DOMAIN cycles \ closed}]

BackrunsOn(pool, legs) ==
    BackrunsIn(pool, legs,
               [b \in {k \in DOMAIN legs : legs[k].tx \notin consumed /\ FirstOnPool(legs, k)} |->
                    CycleProfit(TxAt(legs[b].tx))])
BackrunsOf(pool) == BackrunsOn(pool, LegsOf(pool))

EmitBackruns(found) ==
    /\ Emit(UNION {found[p].new : p \in DOMAIN found})
    /\ Reject(UNION {found[p].rejects : p \in DOMAIN found})

Backruns ==
    /\ pc = "backruns" /\ pc' = "claims"
    /\ EmitBackruns([p \in LegPools |-> BackrunsOf(p)])
    /\ UNCHANGED <<number, facts, consumed, open, rows, wanted>>

-------------------------------------------------------------------------------
(* The claims: of each transaction the kind that comes first stands. Sandwiches *)
(* and frontruns also claim the transaction they close with.                   *)

Touched(e) == {e.tx} \cup e.also

ClaimedBy(i) == {e.kind : e \in {f \in events : i \in Touched(f)}}

Winner(i) ==
    CHOOSE k \in ClaimedBy(i) : \A l \in ClaimedBy(i) : Precedence(k) <= Precedence(l)

Claims ==
    /\ pc = "claims" /\ pc' = "persist"
    /\ events' = {[e EXCEPT !.exact = @ /\ e.basis = "R" /\ e.amt > 0] :
                     e \in {f \in events : Winner(f.tx) = f.kind}}
    /\ UNCHANGED <<number, facts, emitted, rejects, consumed, open, rows, wanted>>

-------------------------------------------------------------------------------
(* Storing the block.                                                          *)

CanonicalId(e) == <<IF e.kind = "jit arb" THEN "jit" ELSE e.kind, e.key>>

(* JIT events get their hash late, and a JIT arb never.                        *)
HashOf(e) == IF e.kind = "jit arb" THEN NoHash ELSE <<number, e.tx>>
RowKey(e) == <<CanonicalId(e), HashOf(e)>>

(* A row in conflict keeps what it is and takes the new price. The rows of one *)
(* block come in the order of their transactions.                              *)
Upsert(table, e) ==
    LET k == RowKey(e)
    IN  (k :> IF k \in DOMAIN table THEN [table[k] EXCEPT !.priced = e.amt]
              ELSE [block |-> number, kind |-> e.kind, token |-> e.token, amt |-> e.amt,
                    priced |-> e.amt])
        @@ table

InOrder(S) == SetToSortSeq(S, LAMBDA d, e : d.tx < e.tx \/ (d.tx = e.tx /\ d.at < e.at))

(* persist_jit_positions: the mints without a burn in their transaction are    *)
(* opened, then the positions of all burns are closed, whatever was burned.    *)
After(b, m) == b.tx > m.tx \/ (b.tx = m.tx /\ b.index > m.index)
Opened ==
    LET kept == {m \in Mints : ~\E b \in Burns : b.tx = m.tx /\ b.position = m.position}
    IN  {[position |-> m.position, opened |-> number, liq |-> m.liq] :
            m \in {l \in kept : ~\E n \in kept : n.position = l.position /\ After(n, l)}}
KeepPositions ==
    LET new == {o \in open : \A m \in Opened : m.position # o.position} \cup Opened
    IN  IF Opened = {} /\ Burns = {} THEN open
        ELSE {o \in new : /\ \A b \in Burns : b.position # o.position
                          /\ o.opened >= number - JitWindow}

Persist ==
    /\ pc = "persist" /\ pc' = "next"
    /\ rows' = FoldLeft(Upsert, rows, InOrder(events))
    /\ wanted' = wanted \cup {<<RowKey(e), number, e.tx, e.at>> : e \in events}
    /\ open' = KeepPositions
    /\ UNCHANGED <<number, facts, events, emitted, rejects, consumed>>

Next == NextBlock \/ Liquidations \/ Skims \/ Arbs \/ Jit \/ Sandwiches \/ Frontruns
        \/ Backruns \/ Claims \/ Persist

Spec == Init /\ [][Next]_vars

-------------------------------------------------------------------------------

Classified == pc = "persist"

(* What a pass found is not lost to the claims: of each transaction an event   *)
(* was emitted for, one stands, on it or closing with it. A frontrun that loses *)
(* its front to a sandwich would leave the claim on its close behind.          *)
(* And a transaction makes its money once: those that touch it are of one kind *)
(* (TxClaims).                                                                 *)
ClaimsSettle ==
    Classified =>
        /\ \A e \in emitted : \E f \in events : e.tx \in Touched(f)
        /\ \A e, f \in events : Touched(e) \cap Touched(f) # {} => e.kind = f.kind

(* Borrowed principal is not profit, nor is what the sender put in: an         *)
(* arbitrage makes at most what its sender and its searcher gained together,   *)
(* less what they borrowed and are not seen to pay back.                       *)
ArbIsEarned ==
    \A e \in {f \in emitted : f.kind = "arb"} :
        LET tx   == TxAt(e.tx)
            both == {tx.from, e.searcher}
        IN  e.amt <= MapThenSumSet(LAMBDA a : Net(TxLedger(tx), a, e.token), both)
                     - Total(tx.loans, LAMBDA l :
                             IF /\ l.token = e.token /\ ~Repaid(tx, l)
                                /\ Owed(tx, l).owner \in both
                             THEN l.amt + l.fee ELSE 0)

===============================================================================
