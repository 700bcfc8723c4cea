------------------------------ MODULE MCPoolInit ------------------------------
(* Pools of every kind over a chain of two blocks for TLC: rows that are       *)
(* complete and rows of aggregators, layouts the cache guesses right and wrong, *)
(* both overloads of the Curve getters, contracts that come late, and balances  *)
(* of more than one limb, one of which leaves nothing in the lowest.           *)
EXTENDS PoolInit

Plain(kind) ==
    [kind |-> kind, t0 |-> "a", t1 |-> "b", fee |-> 3, spacing |-> 2, step |-> 0,
     slots |-> <<6>>, coins |-> <<>>, id |-> FALSE, created |-> 0]
Bare(kind) == [Plain(kind) EXCEPT !.t0 = "none", !.t1 = "none", !.fee = 0, !.spacing = 0]

Pair(slot, amounts, junk) ==
    [kind |-> "pair", t0 |-> "a", t1 |-> "b", slot |-> slot, amounts |-> amounts, junk |-> junk]
Cl(tick, liq) ==
    [kind |-> "cl", t0 |-> "a", t1 |-> "b", fee |-> 3, spacing |-> 2, price |-> 10 + tick, tick |-> tick,
     liq |-> liq, growth |-> 77, map |-> (0 :> 5 @@ 2 :> liq @@ -4 :> 1)]
CoinsOf(ints, coins, amounts, gamma) ==
    [kind |-> "coins", ints |-> ints, coins |-> coins, amounts |-> amounts, fee |-> 40, a |-> 50,
     gamma |-> gamma, base |-> 0, scale |-> 9]
Bins(active, amounts) == [kind |-> "bins", active |-> active, step |-> 25, amounts |-> amounts,
                          t0 |-> "a", t1 |-> "b"]
Market(amounts) == [kind |-> "market", t0 |-> "a", t1 |-> "b", amounts |-> amounts]
Prop == [kind |-> "metric"]
Undeployed == [kind |-> "none"]

MCRow ==
    [pair |-> Plain("pair"), bare |-> Bare("pair"), wrong |-> Plain("pair"),
     twoSlots |-> [Plain("pair") EXCEPT !.slots = <<6, 12>>],
     late |-> [Plain("pair") EXCEPT !.created = 2],
     v3 |-> Bare("v3"), known |-> Plain("v3"), v4 |-> Plain("v4"),
     old |-> Plain("curve"), crypto |-> [Plain("curve") EXCEPT !.coins = <<"a", "b", "c">>],
     lb |-> Plain("lb"), market |-> Bare("pendle"), stable |-> Plain("stable"),
     inf |-> [Plain("infinity") EXCEPT !.id = TRUE], bal |-> Plain("balancer"),
     metric |-> Plain("metric")]

MCChain ==
    [pair |-> <<Pair(6, <<4, 5>>, <<0, 0>>), Pair(6, <<5, 4>>, <<0, 0>>)>>,
     bare |-> <<Undeployed, Pair(6, <<2, 5>>, <<0, 0>>)>>,
     wrong |-> <<Pair(8, <<4, 5>>, <<90, 1>>), Pair(8, <<0, 5>>, <<90, 1>>)>>,
     twoSlots |-> <<Pair(12, <<4, 5>>, <<0, 0>>), Pair(6, <<5, 4>>, <<3, 3>>)>>,
     late |-> <<Undeployed, Pair(6, <<2, 5>>, <<0, 0>>)>>,
     v3 |-> <<Cl(1, 6), Cl(1, 7)>>, known |-> <<Cl(-1, 6), Cl(3, 7)>>, v4 |-> <<Undeployed, Undeployed>>,
     old |-> <<CoinsOf("i128", <<"a", "b">>, <<4, 5>>, 0), CoinsOf("i128", <<"a", "b">>, <<0, 9>>, 0)>>,
     crypto |-> <<CoinsOf("u256", <<"a", "b", "c">>, <<4, 5, 6>>, 8),
                  CoinsOf("u256", <<"a", "b", "c">>, <<4, 6, 6>>, 8)>>,
     lb |-> <<Bins(3, <<4, 5>>), Bins(4, <<0, 8>>)>>,
     market |-> <<Market(<<4, 5>>), Market(<<4, 9>>)>>,
     stable |-> <<Pair(6, <<4, 5>>, <<0, 0>>), Pair(6, <<5, 4>>, <<0, 0>>)>>,
     inf |-> <<Cl(1, 6), Cl(3, 7)>>, bal |-> <<Undeployed, Undeployed>>,
     metric |-> <<Prop, Prop>>]

MCUniverses ==
    {{"pair", "wrong", "bare"}, {"v3", "twoSlots"}, {"known", "late"}, {"old", "metric"},
     {"crypto", "bal"}, {"market", "inf"}, {"lb", "stable"}, {"v4"}}
===============================================================================
