---------------------------- MODULE MCExecSession -----------------------------
(* Two blocks. Both arbitrages of block 1 take the same two pairs; the pending *)
(* one of block 2 goes through a pair whose fee is not known.                  *)
EXTENDS ExecSession

Pair(t0, t1, r0, r1, fee, charged, kind) ==
    [t0 |-> t0, t1 |-> t1, r0 |-> r0, r1 |-> r1, fee |-> fee, charged |-> charged, kind |-> kind]
Genesis ==
    ("p1" :> Pair("W", "T", 100, 200, 30, 30, "v2")) @@
    ("p2" :> Pair("T", "W", 100, 150, 5, 5, "v3")) @@
    ("p3" :> Pair("W", "T", 90, 200, 0, 30, "v2")) @@
    ("p4" :> Pair("W", "T", 50, 200, 4, 4, "curve"))
AfterTx0 == [Genesis EXCEPT !["p1"].r0 = 110, !["p1"].r1 = 190]
AfterTx1 == [AfterTx0 EXCEPT !["p2"].r0 = 90, !["p2"].r1 = 170]
AfterTx2 == [AfterTx1 EXCEPT !["p3"].r0 = 95, !["p3"].r1 = 190]
AfterTx3 == [AfterTx2 EXCEPT !["p1"].r0 = 104, !["p1"].r1 = 200]
MCChain == (0 :> <<Genesis>>) @@ (1 :> <<Genesis, AfterTx0, AfterTx1>>) @@ (2 :> <<AfterTx1, AfterTx2, AfterTx3>>)

Opp(id, block, tx, strategy, path, token, input, profit, mempool) ==
    [id |-> id, block |-> block, tx |-> tx, strategy |-> strategy, path |-> path, token |-> token,
     input |-> input, profit |-> profit, gas |-> 2, mempool |-> mempool]
First == Opp(1, 1, 0, "arb", <<"p1", "p2">>, "W", 10, 12, FALSE)
Second == Opp(2, 1, 1, "backrun", <<"p1", "p2">>, "W", 40, 10, FALSE)
Third == Opp(3, 1, 1, "jit", <<"p3">>, "W", 10, 8, FALSE)
Pending == Opp(4, 2, 0, "arb", <<"p3", "p2">>, "W", 5, 6, TRUE)
Foreign == Opp(5, 2, 1, "arb", <<"p2", "p1">>, "T", 10, 5, FALSE)
Huge == Opp(6, 2, 0, "arb", <<"p1", "p2">>, "W", 10, 600, FALSE)
Curved == Opp(7, 1, 0, "arb", <<"p4", "p2">>, "W", 10, 20, FALSE)
Late == Opp(8, 2, 1, "backrun", <<"p1", "p2">>, "W", 40, 4, FALSE)
Sandwich == Opp(9, 2, 0, "sandwich", <<"p1">>, "W", 40, 4, FALSE)

MCOpps == {First, Second, Third, Pending, Foreign, Huge, Curved, Late, Sandwich}
MCDelivered == << {First, Second, Third, Curved, Pending}, {Foreign, Huge, Late, Sandwich}, {} >>
Seen(tx, pools) == [tx |-> tx, pools |-> pools]
MCSnapshot ==
    (1 :> Seen(0, Restrict(Genesis, {"p1", "p2"}))) @@
    (2 :> Seen(1, Restrict(AfterTx0, {"p1", "p2"}))) @@
    (4 :> Seen(0, Restrict(AfterTx1, {"p2", "p3"}))) @@
    (5 :> Seen(1, Restrict(AfterTx2, {"p1", "p2"}))) @@
    (6 :> Seen(0, Restrict(AfterTx1, {"p1", "p2"}))) @@
    (7 :> Seen(0, Restrict(Genesis, {"p4", "p2"}))) @@
    (8 :> Seen(1, Restrict(AfterTx2, {"p1", "p2"})))

MCDeploys == [limit |-> 12, used |-> 9]
MCExecutes == [limit |-> 10, used |-> 3]
MCPrice == <<1, 2>>
===============================================================================
