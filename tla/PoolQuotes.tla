------------------------------- MODULE PoolQuotes -------------------------------
(* The amounts of an opportunity of two or more hops (mev/detectors/two_hop.rs *)
(* and multi_hop.rs): what a pool gives for an input (pool/math), the largest  *)
(* input it is asked for and where its quote changes its piece (pool/state/    *)
(* quoting.rs), and the search for the best input over a path of them.         *)
(*                                                                             *)
(* An amount that is None is 0. Square roots of prices are whole numbers of    *)
(* 1/Unit in place of 1/2^96, one for each tick in a table; amounts are small, *)
(* and Word and Limb are in the place of 2^128 and 2^64. Pools with an         *)
(* invariant (Curve, Balancer) quote in floating point: any concave curve here. *)
EXTENDS Integers, Sequences, FiniteSets, SequencesExt, FiniteSetsExt, TLC

CONSTANTS
    SizedPairs,             \* <<pool a, pool b, shared token>>: pools are records
                            \* [kind, tokens, bal, fee, price, tick, liq, net, curve]
    SizedCycles,            \* <<pools, token in>>: a cycle as check_path walks it
    Swaps,                  \* <<pool, token in, amount, amount>>: swaps in two parts
    Unit, Ratios,           \* square root of the price of each tick, in 1/Unit
    Word, Limb,             \* bounds of an amount and of a limb of one
    Bps, Ppm,               \* denominators of the two units of fees
    MaxPoints, MaxInverted, \* bands taken of a pool, of the second pool
    MaxCycleCuts,           \* and of a cycle
    Narrowings              \* GOLDEN_SECTION_REFINE_ITERATIONS

ASSUME QuotesAssumption ==
    /\ {Unit, Word, Limb, Bps, Ppm} \subseteq Nat \ {0}
    /\ {MaxPoints, MaxInverted, MaxCycleCuts, Narrowings} \subseteq Nat

VARIABLE sizing             \* [phase, ...]: a path, its brackets and its search

Least(a, b) == IF a <= b THEN a ELSE b
Most(a, b) == IF a >= b THEN a ELSE b
Up(a, b) == (a + b - 1) \div b
Less(a, b) == IF a > b THEN a - b ELSE 0

-------------------------------------------------------------------------------
(* Fees, and the pools that quote in closed form.                              *)

FeeFraction(p) ==
    CASE p.kind \in {"v2", "bins"} -> <<p.fee, Bps>>
      [] p.kind \in {"v3", "invariant"} -> <<p.fee, Ppm>>
      [] OTHER -> <<0, Bps>>

ConstantProduct(x, in, out, fee) ==
    LET kept == x * Less(fee[2], fee[1])
    IN  IF x = 0 \/ in = 0 \/ out = 0 \/ kept * out >= Word \/ in * fee[2] + kept >= Word THEN 0
        ELSE (kept * out) \div (in * fee[2] + kept)

(* lb_output_amount: the active bin alone, as a constant product.              *)
ActiveBin(x, in, out, fee) == ConstantProduct(x, in, out, fee)

(* pendle_output_amount: no fee, and a share of the input above a fifth damps. *)
Damped(x, in, out) ==
    LET whole == (x * out) \div (in + x)
        share == (x * 1000) \div in
    IN  IF x = 0 \/ in = 0 \/ out = 0 \/ x * out >= Word \/ x * 1000 >= Word THEN 0
        ELSE IF share <= 200 THEN whole ELSE (whole * Most(Less(1000, share), 200)) \div 1000

-------------------------------------------------------------------------------
(* Concentrated liquidity. A direction is down when token 0 comes in.          *)

NoTick == -999
MinTick == CHOOSE t \in DOMAIN Ratios : \A u \in DOMAIN Ratios : t <= u
MaxTick == CHOOSE t \in DOMAIN Ratios : \A u \in DOMAIN Ratios : t >= u
RatioAt(t) == IF t \in DOMAIN Ratios THEN Ratios[t] ELSE 0
Lowest == RatioAt(MinTick + 1)
Highest == RatioAt(MaxTick - 1)

Amount0(a, b, liq, up) ==
    LET low == Least(a, b) high == Most(a, b)
        scaled == (liq * Unit * (high - low)) \div high
    IN  IF low = 0 THEN 0 ELSE IF up THEN Up(scaled, low) ELSE scaled \div low
Amount1(a, b, liq, up) ==
    LET n == liq * (Most(a, b) - Least(a, b)) IN IF up THEN Up(n, Unit) ELSE n \div Unit
AmountIn(from, to, liq) ==
    IF to < from THEN Amount0(to, from, liq, TRUE) ELSE Amount1(from, to, liq, TRUE)
AmountOut(from, to, liq) ==
    IF to < from THEN Amount1(to, from, liq, FALSE) ELSE Amount0(from, to, liq, FALSE)

PriceAfter(price, liq, x, down) ==
    IF liq = 0 \/ x = 0 THEN price
    ELSE IF down THEN (liq * Unit * price) \div (liq * Unit + x * price)
    ELSE price + (x * Unit) \div liq

(* What it takes to move the price onto the target, and what an amount does.   *)
WithFee(x, fee) == x + Up(x * fee[1], fee[2])
Cost(from, to, liq, fee) == WithFee(AmountIn(from, to, liq), fee)
StepTo(price, next, liq, used) == [price |-> next, used |-> used, out |-> AmountOut(price, next, liq)]
SwapStep(price, target, liq, x, fee) ==
    LET charged == Up(x * fee[1], fee[2])
        after == Less(x, charged)
    IN  IF x >= Cost(price, target, liq, fee)
        THEN StepTo(price, target, liq, Cost(price, target, liq, fee))
        ELSE StepTo(price, PriceAfter(price, liq, after, target < price), liq, after + charged)

NextTick(net, tick, down) ==
    LET there == {t \in DOMAIN net : net[t] # 0 /\ IF down THEN t < tick ELSE t > tick}
    IN  IF there = {} THEN NoTick
        ELSE CHOOSE t \in there : \A u \in there : IF down THEN u <= t ELSE t <= u

Target(net, tick, price, down) ==
    LET t == NextTick(net, tick, down)
    IN  CASE t = NoTick -> IF down THEN Lowest ELSE Highest
          [] OTHER -> IF down THEN Least(Most(RatioAt(t), Lowest), price)
                      ELSE Most(Least(RatioAt(t), Highest), price)

(* A quote walks through the bands of a pool, w = [price, tick, liq, ...].     *)
Crossed(net, w, down) ==
    LET t == NextTick(net, w.tick, down)
        delta == IF down THEN -net[t] ELSE net[t]
    IN  [w EXCEPT !.tick = t, !.liq = IF delta >= 0 THEN @ + delta ELSE Less(@, -delta)]

Entered(p, w) == [price |-> p.price, tick |-> p.tick, liq |-> p.liq, ended |-> FALSE] @@ w
Bands(p) == Cardinality(DOMAIN p.net) + 2

(* A step s towards the target is paid for and leaves the walk inside its band, *)
(* at the end of what is known, or in the next band, which is over.            *)
AfterStep(w, s, target, real, over) ==
    LET paid == [left |-> Less(w.left, s.used), out |-> w.out + s.out]
    IN  IF target = w.price THEN [w EXCEPT !.ended = TRUE]
        ELSE IF s.price # target THEN paid @@ [w EXCEPT !.price = s.price]
        ELSE IF ~real THEN paid @@ [w EXCEPT !.ended = TRUE]
        ELSE IF over.liq = 0 THEN paid @@ [over EXCEPT !.ended = TRUE]
        ELSE paid @@ [over EXCEPT !.price = target]

QuoteTowards(p, w, down, target) ==
    AfterStep(w, SwapStep(w.price, target, w.liq, w.left, FeeFraction(p)), target,
              NextTick(p.net, w.tick, down) # NoTick, Crossed(p.net, w, down))
QuoteBand(p, w, down) == QuoteTowards(p, w, down, Target(p.net, w.tick, w.price, down))

NoQuote == [out |-> 0]
QuotePost(p, x, down) ==
    LET walk[n \in 0..Bands(p)] ==
            IF n = 0 THEN Entered(p, [left |-> x, out |-> 0])
            ELSE LET w == walk[n - 1]
                 IN  IF w.ended \/ w.left = 0 THEN w ELSE QuoteBand(p, w, down)
        end == walk[Bands(p)]
    IN  IF x = 0 \/ p.liq = 0 \/ p.price = 0 \/ end.out >= Limb THEN NoQuote ELSE end

(* The inputs at which a quote goes over into the next band: what it takes to  *)
(* get to the target is added to what it took to get here.                     *)
AfterPoint(w, target, sum, max, real, over) ==
    LET end == [w EXCEPT !.ended = TRUE]
    IN  IF target = w.price \/ sum >= max \/ sum = w.sum THEN end
        ELSE IF ~real \/ over.liq = 0 THEN [end EXCEPT !.points = Append(@, sum)]
        ELSE [over EXCEPT !.price = target, !.sum = sum, !.points = Append(@, sum)]

PointBandFree(p, w, max, down, target) ==
    AfterPoint(w, target, w.sum + AmountIn(w.price, target, w.liq), max,
               NextTick(p.net, w.tick, down) # NoTick, Crossed(p.net, w, down))
PointBand(p, w, max, down, target) ==
    AfterPoint(w, target, w.sum + Cost(w.price, target, w.liq, FeeFraction(p)), max,
               NextTick(p.net, w.tick, down) # NoTick, Crossed(p.net, w, down))

Breakpoints(p, max, down) ==
    LET walk[n \in 0..Bands(p)] ==
            IF n = 0 THEN Entered(p, [sum |-> 0, points |-> <<>>])
            ELSE LET w == walk[n - 1]
                 IN  IF w.ended \/ Len(w.points) >= MaxPoints THEN w
                     ELSE PointBand(p, w, max, down, Target(p.net, w.tick, w.price, down))
    IN  IF max = 0 \/ p.liq = 0 \/ p.price = 0 THEN <<>> ELSE walk[Bands(p)].points

(* The input that moves the price to the next tick, in the lowest limb.        *)
Charging(in, fee) == ((in * fee[2]) \div (fee[2] - Least(fee[1], fee[2] - 1))) % Limb
MaxTradeable(p, down) ==
    LET charged == Charging(AmountIn(p.price, Target(p.net, p.tick, p.price, down), p.liq), FeeFraction(p))
    IN  IF p.liq = 0 \/ p.price = 0 THEN 0
        ELSE IF charged = 0 THEN p.liq \div 100 ELSE charged

-------------------------------------------------------------------------------
(* What a pool answers, by its kind. Pools of the kind "disabled" (Metric and  *)
(* Fluid) are stored and never quoted; two-token pools do not read the token   *)
(* that is asked for.                                                          *)

Pair(p) == {p.tokens[1], p.tokens[2]}
Flip(p, t) == IF p.tokens[1] = t THEN p.tokens[2] ELSE p.tokens[1]
Down(p, t) == t = p.tokens[1]

Quote(p, from, to, x) ==
    CASE x = 0 -> 0
      [] p.kind = "invariant" ->
            IF {from, to} \subseteq ToSet(p.tokens)
            THEN (p.curve * x) \div (x + p.bal[from]) ELSE 0
      [] p.kind = "disabled" \/ from \notin Pair(p) -> 0
      [] p.kind = "v3" -> QuotePost(p, x, Down(p, from)).out
      [] p.kind = "bins" -> ActiveBin(x, p.bal[from], p.bal[Flip(p, from)], FeeFraction(p))
      [] p.kind = "pendle" -> Damped(x, p.bal[from], p.bal[Flip(p, from)])
      [] OTHER -> ConstantProduct(x, p.bal[from], p.bal[Flip(p, from)], FeeFraction(p))

QuoteKind(p) ==
    CASE p.kind = "v2" -> "product"
      [] p.kind = "v3" -> "piecewise"
      [] p.kind = "invariant" -> "generic"
      [] OTHER -> "unsupported"

SellReserve(p, t) == IF t \in ToSet(p.tokens) THEN p.bal[t] ELSE 0
MaxInput(p, t) == IF p.kind = "v3" THEN MaxTradeable(p, Down(p, t)) ELSE SellReserve(p, t)

MaxCycleInput(p) ==
    CASE p.kind = "v3" -> Most(MaxTradeable(p, TRUE), MaxTradeable(p, FALSE))
      [] p.kind = "invariant" -> CHOOSE n \in {p.bal[t] : t \in DOMAIN p.bal} :
                                    \A t \in DOMAIN p.bal : p.bal[t] <= n
      [] p.kind = "disabled" -> 0
      [] OTHER -> Least(p.bal[p.tokens[1]], p.bal[p.tokens[2]])

SegBreakpoints(p, max, t) == IF p.kind = "v3" THEN Breakpoints(p, max, Down(p, t)) ELSE <<>>

(* A route is a sequence of legs <<pool, token in, token out>>.                *)
Through(legs, x) == FoldLeft(LAMBDA y, leg : Quote(leg[1], leg[2], leg[3], y), x, legs)
Earned(legs, x) == Less(Through(legs, x), x)

(* Two pools over a shared token. With more than two tokens the pair that     *)
(* earns most at a thousandth of the first balance is taken, and one of them  *)
(* in the order of a hash map where several do.                               *)
Candidates(p, s) ==
    IF p.kind = "invariant" THEN ToSet(p.tokens) \ {s}
    ELSE IF s \in Pair(p) THEN {Flip(p, s)} ELSE {}

Estimate(a, b, s, ends) ==
    Earned(<< <<a, ends[1], s>>, <<b, s, ends[2]>> >>, Most(MaxInput(a, ends[1]) \div 1000, 1))

Likeliest(all, est) ==
    IF \E e \in all : est[e] > 0 THEN {e \in all : \A f \in all : est[f] <= est[e]}
    ELSE {e \in all : \A f \in all : e[1] <= f[1] /\ e[2] <= f[2]}

ArbTokens(a, b, s) ==
    LET all == Candidates(a, s) \X Candidates(b, s)
    IN  IF s \in Pair(a) \cap Pair(b) THEN {<<Flip(a, s), Flip(b, s)>>}
        ELSE Likeliest(all, [e \in all |-> Estimate(a, b, s, e)])

Legs(a, b, s, ends) == << <<a, ends[1], s>>, <<b, s, ends[2]>> >>

(* A cycle quotes a pool of many tokens into the least of the others, and goes *)
(* on with the other token of its first two.                                   *)
CycleLegs(ps, from) ==
    LET token[i \in 1..Len(ps)] == IF i = 1 THEN from ELSE Flip(ps[i - 1], token[i - 1])
        asked(i) == IF ps[i].kind # "invariant" THEN Flip(ps[i], token[i])
                    ELSE CHOOSE t \in ToSet(ps[i].tokens) \ {token[i]} :
                            \A u \in ToSet(ps[i].tokens) \ {token[i]} : t <= u
    IN  [i \in 1..Len(ps) |-> <<ps[i], token[i], asked(i)>>]

-------------------------------------------------------------------------------
(* The optimum of two constant products, by its closed form.                   *)

Root(n) ==
    LET bits == Min({b \in 0..30 : 2^b > n})
        newton[i \in 0..30] ==
            IF i = 0 THEN 2^((bits + 1) \div 2)
            ELSE LET x == newton[i - 1] IN Least(x, (x + n \div x) \div 2)
    IN  IF n = 0 THEN 0 ELSE newton[30]

MostProfitableLast(legs, xs) == Last(xs)

(* The most profitable of the candidates, and the first of them among equals.  *)
FirstHighest(ns) ==
    CHOOSE i \in DOMAIN ns : \A j \in DOMAIN ns : ns[i] > ns[j] \/ (ns[i] = ns[j] /\ i <= j)
MostProfitable(legs, xs) == xs[FirstHighest([i \in DOMAIN xs |-> Earned(legs, xs[i])])]

ClosedForm(legs) ==
    LET a == legs[1][1] b == legs[2][1]
        aIn == a.bal[legs[1][2]] aOut == a.bal[legs[1][3]]
        bIn == b.bal[legs[2][2]] bOut == b.bal[legs[2][3]]
        kept(p) == Less(FeeFraction(p)[2], FeeFraction(p)[1])
        max == Least(aIn, bOut)
        d0 == aIn * bIn * Bps * Bps
        d1 == bIn * Bps * kept(a) + kept(a) * kept(b) * aOut
        root == Root(Bps * kept(a) * Bps * kept(b)) * Root(aOut * bOut) * Root(aIn * bIn)
        base == Least((root - d0) \div d1, max)
        spread == Least(Most(base \div 1073741824, 2), max)
        around == SelectSeq(<<Less(base, spread), Less(base, 1), base, base + 1, base + spread, max>>,
                            LAMBDA x : x \in 1..max /\ Earned(legs, x) > 0)
    IN  IF max < 2 \/ aOut = 0 \/ bIn = 0 \/ d1 = 0 \/ root <= d0 \/ around = <<>> THEN 0
        ELSE MostProfitable(legs, around)

-------------------------------------------------------------------------------
(* Where the input is cut into brackets.                                       *)

(* invert_monotone_quote: the least input that gives as much.                  *)
Inverted(legs, target, max) ==
    IF target = 0 \/ Through(legs, max) < target THEN 0
    ELSE Min({x \in 1..max : Through(legs, x) >= target})

InvertedAll(legs, targets, max, most) ==
    LET reached == SelectSeq(targets, LAMBDA t : t \in 1..Through(legs, max))
    IN  {Inverted(legs, reached[i], max) : i \in 1..Least(most, Len(reached))}

PathMax(legs) ==
    LET a == legs[1] b == legs[2]
    IN  CASE QuoteKind(a[1]) = "piecewise" /\ QuoteKind(b[1]) = "piecewise" ->
                Most(MaxInput(a[1], a[2]), MaxInput(b[1], b[2]))
          [] QuoteKind(a[1]) = "piecewise" /\ QuoteKind(b[1]) = "product" -> SellReserve(b[1], b[3])
          [] OTHER -> MaxInput(a[1], a[2])

PathCuts(legs) ==
    LET a == legs[1] b == legs[2] max == PathMax(legs) first == SubSeq(legs, 1, 1)
    IN  ToSet(SegBreakpoints(a[1], max, a[2]))
        \cup InvertedAll(first, SegBreakpoints(b[1], Through(first, max), b[2]), max, MaxInverted)

CycleCuts(legs) ==
    LET max == MaxCycleInput(legs[1][1])
        before(i) == SubSeq(legs, 1, i - 1)
        points(i) == SegBreakpoints(legs[i][1], Through(before(i), max), legs[i][2])
        cuts[i \in 1..Len(legs)] ==
            IF i = 1 THEN <<>>
            ELSE LET more == SelectSeq(points(i), LAMBDA t : t \in 1..Through(before(i), max))
                     room == Less(MaxCycleCuts, Len(cuts[i - 1]))
                 IN  cuts[i - 1] \o [n \in 1..Least(room, Len(more)) |-> Inverted(before(i), more[n], max)]
    IN  ToSet(cuts[Len(legs)])

-------------------------------------------------------------------------------
(* The search: each bracket's ends are considered, and what a golden section   *)
(* between them ends with. An input that does not earn counts as one of        *)
(* profit 0, and the one that is kept is the one with the highest output.      *)

Idle == [phase |-> "idle"]
None == <<0, 0>>
QuotesInit == sizing = Idle

Answer(legs, x) == [phase |-> "done", legs |-> legs, best |-> IF x = 0 THEN None ELSE <<x, Through(legs, x)>>]
Search(legs, max, cuts) ==
    IF max = 0 THEN Answer(legs, 0)
    ELSE [phase |-> "brackets", legs |-> legs, best |-> None, max |-> max, lo |-> 1,
          cuts |-> (cuts \cap 1..max - 1) \cup {max}]

(* quote_path.                                                                 *)
SizePath ==
    /\ sizing.phase = "idle"
    /\ \E pair \in SizedPairs :
       LET a == pair[1] b == pair[2] s == pair[3]
       IN  \E ends \in ArbTokens(a, b, s) :
           LET legs == Legs(a, b, s, ends) kinds == {QuoteKind(a), QuoteKind(b)}
           IN  sizing' = CASE "unsupported" \in kinds -> Answer(legs, 0)
                           [] kinds = {"product"} -> Answer(legs, ClosedForm(legs))
                           [] OTHER -> Search(legs, PathMax(legs), PathCuts(legs))

SizeCycle ==
    /\ sizing.phase = "idle"
    /\ \E c \in SizedCycles :
       LET legs == CycleLegs(c[1], c[2])
       IN  sizing' = Search(legs, MaxCycleInput(legs[1][1]), CycleCuts(legs))

Higher(best, x, out) == IF out <= x \/ (best # None /\ best[2] >= out) THEN best ELSE <<x, out>>
Considered(legs, best, x) == Higher(best, x, Through(legs, x))

Golden(n) == (n * 618034) \div 1000000
LowProbe(lo, hi) == Most(hi - Golden(hi - lo), lo + 1)
HighProbe(lo, hi) == Least(lo + Golden(hi - lo), hi - 1)

OpenBracket ==
    /\ sizing.phase = "brackets"
    /\ LET s == sizing hi == Min(s.cuts)
           both == Considered(s.legs, Considered(s.legs, s.best, s.lo), hi)
           x1 == LowProbe(s.lo, hi) x2 == HighProbe(s.lo, hi)
       IN  IF hi > s.lo /\ x1 < x2
           THEN sizing' = [phase |-> "golden", hi |-> hi, x1 |-> x1, x2 |-> x2, round |-> 0,
                           f1 |-> Earned(s.legs, x1), f2 |-> Earned(s.legs, x2)]
                          @@ [s EXCEPT !.best = both]
           ELSE IF Cardinality(s.cuts) = 1
           THEN sizing' = [phase |-> "done", legs |-> s.legs, best |-> both]
           ELSE sizing' = [s EXCEPT !.best = both, !.lo = hi, !.cuts = @ \ {hi}]

Unsettled(s) == s.round < Narrowings /\ s.hi - s.lo > 1

NarrowLow ==
    /\ sizing.phase = "golden" /\ Unsettled(sizing) /\ sizing.f1 > sizing.f2
    /\ LET s == sizing x1 == LowProbe(s.lo, s.x2)
       IN  sizing' = [s EXCEPT !.hi = s.x2, !.x2 = s.x1, !.f2 = s.f1, !.x1 = x1,
                               !.f1 = Earned(s.legs, x1), !.round = @ + 1]

NarrowHigh ==
    /\ sizing.phase = "golden" /\ Unsettled(sizing) /\ sizing.f1 <= sizing.f2
    /\ LET s == sizing x2 == HighProbe(s.x1, s.hi)
       IN  sizing' = [s EXCEPT !.lo = s.x1, !.x1 = s.x2, !.f1 = s.f2, !.x2 = x2,
                               !.f2 = Earned(s.legs, x2), !.round = @ + 1]

CloseBracket ==
    /\ sizing.phase = "golden" /\ ~Unsettled(sizing)
    /\ LET s == sizing
           x == IF s.f1 >= s.f2 /\ s.f1 > 0 THEN s.x1 ELSE IF s.f2 > 0 THEN s.x2 ELSE 0
           best == Considered(s.legs, s.best, x)
       IN  sizing' = IF Cardinality(s.cuts) = 1 THEN [phase |-> "done", legs |-> s.legs, best |-> best]
                     ELSE [phase |-> "brackets", legs |-> s.legs, best |-> best, max |-> s.max,
                           lo |-> Min(s.cuts), cuts |-> s.cuts \ {Min(s.cuts)}]

MovedPool(p, post) == [p EXCEPT !.price = post.price, !.tick = post.tick, !.liq = post.liq]
AfterSwapUncrossed(p, from, x) ==
    LET out == Quote(p, from, Flip(p, from), x)
    IN  IF p.kind = "v2" THEN [p EXCEPT !.bal[from] = @ + x, !.bal[Flip(p, from)] = Less(@, out)]
        ELSE [p EXCEPT !.price = QuotePost(p, x, Down(p, from)).price]

(* quote_swap_post and apply_post_state: a swap consumes what the next one is  *)
(* quoted against.                                                             *)
AfterSwap(p, from, x) ==
    LET out == Quote(p, from, Flip(p, from), x)
    IN  IF p.kind = "v2" THEN [p EXCEPT !.bal[from] = @ + x, !.bal[Flip(p, from)] = Less(@, out)]
        ELSE MovedPool(p, QuotePost(p, x, Down(p, from)))

Consume ==
    /\ sizing.phase = "idle"
    /\ \E s \in Swaps :
       LET p == s[1] from == s[2] out == Quote(p, from, Flip(p, from), s[3])
       IN  /\ p.kind \in {"v2", "v3"} /\ out > 0
           /\ sizing' = [phase |-> "consumed", swap |-> s, pool |-> AfterSwap(p, from, s[3]), outs |-> <<out>>]

Requote ==
    /\ sizing.phase = "consumed"
    /\ LET s == sizing.swap out == Quote(sizing.pool, s[2], Flip(s[1], s[2]), s[4])
       IN  sizing' = [sizing EXCEPT !.phase = "requoted", !.outs = Append(@, out)]

Reported ==
    /\ sizing.phase \in {"done", "requoted"}
    /\ sizing' = Idle

QuotesNext == \/ SizePath \/ SizeCycle \/ OpenBracket \/ NarrowLow \/ NarrowHigh \/ CloseBracket
              \/ Consume \/ Requote \/ Reported

-------------------------------------------------------------------------------
(* Properties.                                                                 *)

(* The closed form and its window find the best input of all: a brute-force    *)
(* scan of the exact quotes finds none that earns more (optimal_two_hop_arb,   *)
(* whose roots are rounded down). Stated of products that are squares.         *)
ClosedFormIsBest ==
    sizing.phase = "done" /\ Len(sizing.legs) = 2 /\ (\A i \in 1..2 : sizing.legs[i][1].kind = "v2") =>
        LET max == Least(sizing.legs[1][1].bal[sizing.legs[1][2]], sizing.legs[2][1].bal[sizing.legs[2][3]])
        IN  \A x \in 1..max : Earned(sizing.legs, x) <= Less(sizing.best[2], sizing.best[1])

(* Between two neighbouring inputs that no cut is next to, both pools of a     *)
(* path stay in one tick band, so that a bracket is searched over one piece of *)
(* the quote: the cuts are where v3_breakpoints and the inversion through the  *)
(* first pool put them, and the walk of the quote is where it goes over, which *)
(* the rounding of a price may let it do one unit early.                       *)
BandAt(leg, x) == IF leg[1].kind = "v3" THEN QuotePost(leg[1], x, Down(leg[1], leg[2])) ELSE Idle
BracketsAreBands ==
    sizing.phase = "brackets" /\ sizing.lo = 1 /\ Len(sizing.legs) = 2 =>
        LET first == SubSeq(sizing.legs, 1, 1)
            tick(w) == IF w = NoQuote \/ w = Idle THEN 0 ELSE w.tick
            bands(x) == <<tick(BandAt(sizing.legs[1], x)), tick(BandAt(sizing.legs[2], Through(first, x)))>>
        IN  \A x \in 1..sizing.max - 2 :
                /\ Through(first, x) > 0 /\ {x + 1, x + 2} \cap sizing.cuts = {}
                /\ Through(first, x + 1) < Through(first, sizing.max)
                => bands(x) = bands(x + 1)

(* A swap in two parts, the second against what the first one left, gives what *)
(* one swap gives, up to rounding: liquidity that a candidate consumed is      *)
(* neither kept nor lost for the next (sim.rs). Of swaps that end inside the   *)
(* known range: one that ends beyond it leaves the price where it was.         *)
SplitGainsNothing ==
    sizing.phase = "requoted" =>
        LET s == sizing.swap whole == Quote(s[1], s[2], Flip(s[1], s[2]), s[3] + s[4])
            end == QuotePost(s[1], s[3] + s[4], Down(s[1], s[2]))
            parts == sizing.outs[1] + sizing.outs[2]
        IN  s[1].kind = "v2" \/ (end # NoQuote /\ ~end.ended) => parts \in whole - 3..whole + 1
===============================================================================
