---------------------------- MODULE MCMevDetectors -----------------------------
(* A session is a backtest of three blocks, the detectors' scan of the         *)
(* transactions of one, or the sizing of a path. For the second, a pair over   *)
(* tokens 1 and 2, a triangle with a concentrated pool and one of bins, a      *)
(* quadrangle, a curve pool over the pair in one of the starts, and a pool of  *)
(* 3 and 4 that has no marginal rate; transactions that trade, that trade and  *)
(* come back, and that mint, trade and burn together or apart, on pools the    *)
(* manager holds and on one it does not.                                       *)
EXTENDS MCBacktestRunner, MevDetectors, PoolQuotes

VARIABLE session
mcVars == <<vars, detectorVars, sizing, session>>

MCQuoting == <<"v2", "v2", "cl", "bins", "curve", "opaque", "v2", "cl">>
MCTokenA  == <<1, 1, 2, 1, 1, 3, 3, 1>>
MCTokenB  == <<2, 2, 3, 3, 2, 4, 4, 4>>
MCFee     == [p \in 1..8 |-> 1]

Market(ps, prices) == [p \in ps |-> [price |-> prices[p], liq |-> 5]]
Start1(os, ranked, prices) == [order |-> os, ranked |-> ranked, market |-> Market(ToSet(os), prices)]
MCMaxScanned == <<2, 2, 2, 0>>

(* The pair of 1 and 2 is claimed by token 1, by token 2, by neither.          *)
Tables == {<< <<1, 2, 3, 4>>, <<1, 2, 3, 4>> >>, << <<4, 3, 2, 1>>, <<4, 2, 1, 3>> >>,
           << <<4, 1, 2, 3>>, <<4, 3, 2, 1>> >>, << <<2, 6, 1>>, <<6, 2, 1>> >>,
           << <<3, 7, 8, 1>>, <<1, 3, 7, 8>> >>}
MCStarts ==
    {Start1(os[1], os[2], <<p1, p2, p3, p4, 0, 0, 0, p8>>) :
        os \in Tables, p1 \in {0, 3}, p2 \in {0, 3}, p3 \in {0, -4}, p4 \in {0, 3}, p8 \in {0, 5}}
    \cup {Start1(<<5, 1, 3, 4>>, <<5, 1, 3, 4>>, <<0, 0, 0, p4, p5, 0, 0, 0>>) : p4 \in {0, 4}, p5 \in {0, 4, 8}}

Trade(p, price, liq) == [kind |-> "swap", pool |-> p, price |-> price, liq |-> liq]
Ranging(kind, p, lower, upper) == [kind |-> kind, pool |-> p, lower |-> lower, upper |-> upper, amount |-> 2]
Position(kind, p) == Ranging(kind, p, -1, 3)
Below(kind, p) == Ranging(kind, p, -6, -1)
Sent(from, logs) == [from |-> from, logs |-> logs]
MCBlockTxs == {
    Sent("ann", <<>>),
    Sent("ann", <<Trade(1, 3, 6)>>),
    Sent("ann", <<Trade(3, -4, 8), Trade(3, 0, 5)>>),
    Sent("bob", <<Position("mint", 3)>>),
    Sent("bob", <<Below("mint", 3), Position("mint", 3)>>),
    Sent("bob", <<Below("burn", 3), Position("burn", 3)>>),
    Sent("ann", <<Position("burn", 3)>>),
    Sent("bob", <<Position("mint", 8), Trade(8, 2, 7), Position("burn", 8)>>) }

(* Pools to size paths over. Ticks are far apart and the ratio of a tick is a  *)
(* whole number of thousandths.                                                *)
MCRatios == [t \in -3..3 |-> <<731, 812, 902, 1000, 1109, 1231, 1367>>[t + 4]]
Product(kind, t0, t1, r0, r1, fee) ==
    [kind |-> kind, tokens |-> <<t0, t1>>, bal |-> (t0 :> r0) @@ (t1 :> r1), fee |-> fee]
Ranged(t0, t1, tick, price, liq, net) ==
    [kind |-> "v3", tokens |-> <<t0, t1>>, tick |-> tick, price |-> price, liq |-> liq, net |-> net, fee |-> 100]
Curve(tokens, n) ==
    [kind |-> "invariant", tokens |-> tokens, bal |-> [t \in ToSet(tokens) |-> 60 * t], fee |-> 4, curve |-> n]

Wide(tick, price) == Ranged(1, 2, tick, price, 900, (-1 :> 400) @@ (1 :> -400))
Steps(tick, price) == Ranged(1, 2, tick, price, 500, (-2 :> 300) @@ (-1 :> 200) @@ (1 :> 300) @@ (2 :> -800))
Bare(price) == Ranged(2, 3, 0, price, 300, <<>>)
MCSizedPairs == {
    <<Product("v2", 1, 2, 200, 400, 1), Product("v2", 2, 3, 200, 400, 1), 2>>,
    <<Product("v2", 1, 2, 400, 400, 1), Product("v2", 2, 1, 225, 324, 1), 2>>,
    <<Product("v2", 1, 2, 324, 400, 0), Product("v2", 1, 2, 400, 100, 2), 2>>,
    <<Product("v2", 1, 2, 400, 100, 1), Product("v2", 1, 2, 100, 400, 1), 2>>,
    <<Product("v2", 1, 2, 200, 400, 1), Product("bins", 2, 3, 200, 400, 1), 2>>,
    <<Wide(0, 1000), Wide(1, 1150), 1>>, <<Wide(1, 1150), Wide(-1, 950), 1>>, <<Wide(-2, 850), Wide(1, 1180), 2>>,
    <<Steps(0, 1000), Wide(-1, 950), 2>>, <<Wide(0, 1040), Steps(-2, 830), 2>>,
    <<Steps(-1, 950), Product("v2", 2, 1, 300, 200, 1), 2>>, <<Product("v2", 1, 2, 300, 700, 1), Wide(0, 1000), 2>>,
    <<Curve(<<1, 2, 3>>, 200), Wide(0, 1000), 2>>, <<Curve(<<1, 2, 3>>, 200), Curve(<<3, 4, 1>>, 180), 3>>,
    <<Bare(1000), Product("v2", 3, 2, 100, 200, 1), 3>>, <<Product("disabled", 1, 2, 9, 9, 0), Bare(1000), 2>> }
MCSizedCycles == {
    << <<Wide(0, 1000), Product("bins", 2, 3, 200, 400, 1), Product("v2", 1, 3, 300, 200, 1)>>, 1 >>,
    << <<Product("pendle", 1, 2, 200, 300, 0), Bare(1100), Steps(0, 1000), Curve(<<2, 1, 3>>, 150)>>, 1 >>,
    << <<Curve(<<1, 2, 4>>, 250), Bare(1000), Product("v2", 1, 3, 200, 100, 1)>>, 1 >> }
MCSwaps == {<<p, t, x, y>> : p \in {Product("v2", 1, 2, 300, 400, 1), Wide(0, 1000), Steps(0, 1050), Steps(-2, 850)},
            t \in {1, 2}, x \in {3, 20, 50, 90, 140, 200}, y \in {5, 40, 100}}

(* The session that is not the one under way stays where it begins.            *)
MCInit ==
    /\ Init /\ DetectorsInit /\ QuotesInit /\ session \in {"backtest", "scan", "sizing"}
    /\ session # "scan" => order = <<2, 6, 1>> /\ \A p \in Held : market[p].price = 0
MCNext == \/ session = "backtest" /\ Next /\ UNCHANGED <<detectorVars, sizing, session>>
          \/ session = "scan" /\ DetectorsNext /\ UNCHANGED <<vars, sizing, session>>
          \/ session = "sizing" /\ QuotesNext /\ UNCHANGED <<vars, detectorVars, session>>
MCSpec == MCInit /\ [][MCNext]_mcVars
===============================================================================
