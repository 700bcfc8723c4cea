------------------------------ MODULE PaperLedger ------------------------------
(* The paper ledger (src/core/src/paper): which of the opportunities of a      *)
(* session a searcher with one gas wallet would have taken, what they earned,  *)
(* and how far an executed ledger bears that out.                              *)
(*                                                                             *)
(* A ledger is a value and an operator takes it past one opportunity. There    *)
(* are three ways past: Assumed believes the detector, Simulated quotes again  *)
(* over the pools as the earlier fills of the block left them, and Executed    *)
(* books what a backend answered. Pools are constant-product pairs.            *)
EXTENDS Integers, Sequences, FiniteSets, FiniteSetsExt, Functions

CONSTANTS
    Opps,           \* the opportunities, as records with a field id
    Snapshot,       \* id -> the pools of an opportunity as they were when it was detected
    MaxSeeds,       \* max_candidates_per_block
    Starting,       \* starting_gas_wei
    Reserve,        \* reserve_wei
    MaxFills,       \* max_fills_per_block, clamped
    Modulus,        \* what an amount wraps at, 2^128
    Native,         \* the wrapped native token
    FlashLoan,      \* sim.flash_loan
    FeeBps,         \* sim.fee_bps
    Tolerance       \* RECON_TOLERANCE_PCT

ASSUME LedgerAssumption ==
    /\ {Starting, Reserve, FeeBps, Tolerance, MaxSeeds} \subseteq Nat /\ MaxFills \in Nat \ {0}
    /\ Modulus \in Nat \ {0} /\ FlashLoan \in BOOLEAN

(* An opportunity is known by its canonical id.                                *)
ASSUME OppsAssumption ==
    /\ IsFiniteSet(Opps)
    /\ \A o \in Opps :
          /\ {o.id, o.block, o.tx, o.profit, o.gas, o.input} \subseteq Nat
          /\ o.mempool \in BOOLEAN /\ o.path \in Seq(Range(o.path))
          /\ \A e \in Opps : e.id = o.id => e = o

(* A pair: two tokens, their reserves, the fee it is believed to charge, in    *)
(* basis points, and the one it does.                                          *)
PairOk(p) ==
    /\ DOMAIN p = {"t0", "t1", "r0", "r1", "fee", "charged", "kind"}
    /\ p.t0 # p.t1 /\ {p.r0, p.r1, p.fee, p.charged} \subseteq Nat
    /\ p.fee < 10000 /\ p.charged > 0 /\ p.charged < 10000
ASSUME SnapshotAssumption ==
    \A id \in DOMAIN Snapshot :
        \A a \in DOMAIN Snapshot[id].pools : PairOk(Snapshot[id].pools[a])

Over(f, g) == [x \in DOMAIN f \union DOMAIN g |-> IF x \in DOMAIN f THEN f[x] ELSE g[x]]
Lesser(x, y) == IF x < y THEN x ELSE y
Less0(x, y) == IF x > y THEN x - y ELSE 0
Abs(x) == IF x < 0 THEN 0 - x ELSE x

-------------------------------------------------------------------------------
(* Amounts. An unsigned amount that is cast to a signed one keeps its bits.    *)
AsSigned(x) == IF 2 * x >= Modulus THEN x - Modulus ELSE x
NetWei(o) == AsSigned(Lesser(o.profit, Modulus - 1)) - o.gas

NativeEligible(o) == o.strategy \in {"arb", "backrun", "jit"}
Simulatable(o) == o.strategy \in {"arb", "backrun"}

(* Within a block the best net first, then those of a mined transaction.       *)
SortKey(o) == <<o.block, 0 - NetWei(o), IF o.mempool THEN 1 ELSE 0, o.tx, o.id>>
RankedBefore(a, b) ==
    \E i \in 1 .. 5 : /\ SortKey(a)[i] < SortKey(b)[i]
                      /\ \A j \in 1 .. i - 1 : SortKey(a)[j] = SortKey(b)[j]
Ranked(opps) ==
    [i \in 1 .. Cardinality(opps) |->
        CHOOSE o \in opps : Cardinality({e \in opps : RankedBefore(e, o)}) = i - 1]

-------------------------------------------------------------------------------
(* The ledger.                                                                 *)

NewLedger == [wallet |-> Starting, peak |-> Starting, drawdown |-> 0,
              fills |-> <<>>, skips |-> <<>>, net |-> 0, gas |-> 0,
              reverts |-> 0, revertGas |-> 0, loss |-> 0,
              block |-> 0, count |-> 0, used |-> {}, overlay |-> <<>>, written |-> <<>>]

(* What is kept for the block under way is dropped at the next one.            *)
AtBlockAnew(l, b) ==
    [l EXCEPT !.block = b, !.count = 0, !.used = {}, !.overlay = <<>>, !.written = <<>>]
AtBlock(l, b) ==
    IF l.block = b THEN l
    ELSE [l EXCEPT !.block = b, !.count = 0, !.used = {}, !.overlay = <<>>, !.written = <<>>]

Skipped(l, o, why) == [l EXCEPT !.skips = Append(@, [id |-> o.id, why |-> why])]

Moved(l, delta) ==
    LET wallet == IF l.wallet + delta < 0 THEN 0 ELSE l.wallet + delta
    IN  [l EXCEPT !.wallet = wallet,
                  !.peak = IF wallet > @ THEN wallet ELSE @,
                  !.drawdown = IF l.peak - wallet > @ THEN l.peak - wallet ELSE @]

Filled(l, o, net, gas, drift) ==
    LET after == Moved(l, net)
    IN  [after EXCEPT !.count = @ + 1, !.net = @ + net, !.gas = @ + gas,
                      !.fills = Append(@, [id |-> o.id, block |-> o.block, net |-> net,
                                           gross |-> net + gas, drift |-> drift])]

(* The gates every candidate passes, in the order of the code.                 *)
Gate(l, o) ==
    LET checks == << <<~NativeEligible(o), "not_native_unit">>,
                     <<NetWei(o) <= 0, "non_positive_net">>,
                     <<l.count >= MaxFills, "max_fills_per_block">>,
                     <<o.gas > Less0(l.wallet, Reserve), "insufficient_gas">> >>
        shut == {i \in DOMAIN checks : checks[i][1]}
    IN  IF shut = {} THEN "open" ELSE checks[Min(shut)][2]

Assumed(l0, o) ==
    LET l == AtBlock(l0, o.block)
    IN  IF Gate(l, o) # "open" THEN Skipped(l, o, Gate(l, o))
        ELSE IF Range(o.path) \intersect l.used # {} THEN Skipped(l, o, "pool_conflict")
        ELSE [Filled(l, o, NetWei(o), o.gas, FALSE) EXCEPT !.used = @ \union Range(o.path)]

-------------------------------------------------------------------------------
(* Quotes of constant-product pools, and walks over several of them.           *)

TokenOut(p, token) == IF p.t0 = token THEN p.t1 ELSE p.t0
QuoteOfSpot(p, token, amount) ==
    (amount * (10000 - p.fee) * (IF p.t0 = token THEN p.r1 ELSE p.r0))
        \div (10000 * (IF p.t0 = token THEN p.r0 ELSE p.r1))
Quote(p, token, amount) ==
    LET in == IF p.t0 = token THEN p.r0 ELSE p.r1
        out == IF p.t0 = token THEN p.r1 ELSE p.r0
        kept == amount * (10000 - p.fee)
    IN  (kept * out) \div (in * 10000 + kept)
AfterSwap(p, token, in, out) ==
    IF p.t0 = token THEN [p EXCEPT !.r0 = @ + in, !.r1 = @ - out]
    ELSE [p EXCEPT !.r0 = @ - out, !.r1 = @ + in]

(* A walk stops at a pool that is missing, of another kind, or pays nothing.   *)
Leg(w, a) ==
    LET p == w.pools[a]
        out == Quote(p, w.token, w.amount)
    IN  IF \/ ~w.ok \/ p.kind \notin {"v2", "v3"} \/ w.token \notin {p.t0, p.t1}
           \/ w.amount = 0 \/ p.r0 = 0 \/ p.r1 = 0 \/ out = 0
        THEN [w EXCEPT !.ok = FALSE]
        ELSE [w EXCEPT !.amount = out, !.token = TokenOut(p, w.token),
                       !.pools[a] = AfterSwap(p, w.token, w.amount, out)]
Walked(pools, path, token, amount) ==
    LET w[i \in 0 .. Len(path)] ==
            IF i = 0 THEN [ok |-> TRUE, pools |-> pools, token |-> token, amount |-> amount]
            ELSE Leg(w[i - 1], path[i])
    IN  w
WalkQuotePost(pools, path, token, amount) == Walked(pools, path, token, amount)[Len(path)]

FlashLoanFee(borrowed) == IF FlashLoan THEN (borrowed * FeeBps) \div 10000 ELSE 0

(* A block keeps the snapshots of its first candidates.                        *)
Seeded(o) ==
    /\ Simulatable(o) /\ o.id \in DOMAIN Snapshot
    /\ MaxSeeds > Cardinality({e \in Opps : /\ e.block = o.block /\ e.id < o.id
                                            /\ Simulatable(e) /\ e.id \in DOMAIN Snapshot})

(* Pools the block has not seen come from the snapshot of the candidate, up to *)
(* the first that it lacks, and they stay, whatever becomes of the candidate.  *)
WithSeeds(l, o) ==
    LET seen == Snapshot[o.id].pools
        lacking == {i \in DOMAIN o.path : o.path[i] \notin DOMAIN l.overlay \union DOMAIN seen}
        reached == {o.path[i] : i \in {j \in DOMAIN o.path : \A k \in lacking : j < k}}
    IN  [l EXCEPT !.overlay = Over(@, Restrict(seen, reached \intersect DOMAIN seen))]

Drifted(l, o) ==
    \E a \in Range(o.path) \intersect DOMAIN l.written : l.written[a] # Snapshot[o.id].tx

(* What a candidate earns over the overlay. The profit stays in the token of   *)
(* the loan: the pools it would be normalised with are a manager of their own, *)
(* which knows no native token.                                                *)
Outcome(l, o) ==
    LET w == WalkQuotePost(Restrict(l.overlay, Range(o.path)), o.path, o.token, o.input)
        gross == Less0(Less0(w.amount, o.input), FlashLoanFee(o.input))
        why == IF ~w.ok THEN "sim_path_unavailable"
               ELSE IF FlashLoan /\ w.amount < o.input + FlashLoanFee(o.input)
                    THEN "sim_repay_shortfall"
               ELSE IF gross = 0 \/ gross - o.gas <= 0 THEN "sim_price_consumed"
               ELSE "filled"
    IN  [why |-> why, net |-> gross - o.gas, pools |-> w.pools]

Commit(l, o, pools) ==
    [l EXCEPT !.overlay = Over(pools, @), !.written = Over([a \in DOMAIN pools |-> o.tx], @)]

Simulated(l0, o) ==
    LET l == AtBlock(l0, o.block)
        seeded == WithSeeds(l, o)
        outcome == Outcome(seeded, o)
    IN  IF Gate(l, o) # "open" THEN Skipped(l, o, Gate(l, o))
        ELSE IF ~Simulatable(o) THEN Skipped(l, o, "sim_strategy_unsupported")
        ELSE IF ~Seeded(o) THEN Skipped(l, o, "sim_not_quotable")
        ELSE IF \/ ~Range(o.path) \subseteq DOMAIN seeded.overlay
                \/ Cardinality(Range(o.path)) # Len(o.path) \/ o.input = 0
             THEN Skipped(seeded, o, "sim_path_unavailable")
        ELSE IF outcome.why # "filled" THEN Skipped(seeded, o, outcome.why)
        ELSE Commit(Filled(seeded, o, outcome.net, o.gas, Drifted(l, o)), o, outcome.pools)

(* The ledgers after each of a list.                                           *)
AllAssumed(list) ==
    LET l[i \in 0 .. Len(list)] == IF i = 0 THEN NewLedger ELSE Assumed(l[i - 1], list[i]) IN l
AllSimulated(list) ==
    LET l[i \in 0 .. Len(list)] == IF i = 0 THEN NewLedger ELSE Simulated(l[i - 1], list[i]) IN l
Apply(opps) == AllAssumed(Ranked(opps))[Cardinality(opps)]
ApplySimulated(opps) == AllSimulated(Ranked(opps))[Cardinality(opps)]

-------------------------------------------------------------------------------
(* Booking what a backend answered. A failed attempt was never sent, unless it *)
(* failed with exec_revert.                                                    *)

Failed(why) == [status |-> FALSE, net |-> 0, gas |-> 0, hash |-> FALSE, fail |-> why]
Ran(status, net, gas) ==
    [status |-> status, net |-> net, gas |-> gas, hash |-> TRUE, fail |-> "none"]
Unanswered == [Failed("exec_revert") EXCEPT !.hash = TRUE]

ExecGate(l, o) ==
    IF ~Simulatable(o) THEN "exec_strategy_unsupported"
    ELSE IF Gate(l, o) = "open" /\ l.wallet <= Reserve THEN "insufficient_gas"
    ELSE Gate(l, o)

Reverted(l, gas) ==
    [Moved(l, 0 - gas) EXCEPT !.reverts = @ + 1, !.revertGas = @ + gas, !.gas = @ + gas]

Lost(l, a) == [Moved(l, a.net) EXCEPT !.loss = @ - a.net, !.gas = @ + a.gas]

Executed(l, o, a) ==
    IF a.fail = "exec_revert" \/ (a.fail = "none" /\ ~a.status)
    THEN Skipped(Reverted(l, a.gas), o, "exec_revert")
    ELSE IF a.fail # "none" THEN Skipped(l, o, a.fail)
    ELSE IF a.net <= 0 THEN Skipped(Lost(l, a), o, "non_positive_net")
    ELSE Filled(l, o, a.net, a.gas, l.count > 0)

-------------------------------------------------------------------------------
(* Reconciliation of a simulated ledger with the executed one.                 *)

ExecutedFrom(l) ==
    LET filled == {f.id : f \in Range(l.fills)}
        reverted == {s.id : s \in {t \in Range(l.skips) : t.why = "exec_revert"}}
    IN  [id \in filled \union reverted |->
            IF id \in filled
            THEN [status |-> TRUE, net |-> (CHOOSE f \in Range(l.fills) : f.id = id).net]
            ELSE [status |-> FALSE, net |-> 0]]

FillVerdict(fill, executed) ==
    IF fill.id \notin DOMAIN executed THEN "unverifiable"
    ELSE IF /\ executed[fill.id].status
            /\ 100 * Abs(fill.net - executed[fill.id].net) <= Tolerance * Abs(fill.net)
         THEN "pass" ELSE "fail"

Reconcile(sim, exec) ==
    LET verdicts == [i \in DOMAIN sim.fills |-> FillVerdict(sim.fills[i], ExecutedFrom(exec))]
        counted(v) == Cardinality({i \in DOMAIN verdicts : verdicts[i] = v})
    IN  [pass |-> counted("pass"), fail |-> counted("fail"),
         unverifiable |-> counted("unverifiable")]
===============================================================================
