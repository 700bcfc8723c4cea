--------------------------- MODULE MCBacktestRunner ----------------------------
(* Five pools, one of each family, over four tokens, and transactions that     *)
(* move reserves both ways, touch two pools, pay a tax, or touch no pool.      *)
EXTENDS BacktestRunner

MCPools == 1..5
MCFamily == <<"v2", "curve", "weighted", "cl", "flow">>
MCToken0 == <<11, 11, 11, 12, 12>>
MCToken1 == <<12, 12, 13, 14, 14>>
MCStart == <<[res |-> <<2, 4>>], [res |-> <<2, 1>>], [res |-> <<3, 3>>],
             [liq |-> 3, tick |-> 0, net |-> <<0, 0>>], [last |-> 0]>>

MCInitOrder == <<2, 1, 3, 5, 4>>

Log(p, topic, args) == [pool |-> p, topic |-> topic, args |-> args, decodes |-> TRUE]

MCMaxTxs == <<1, 2, 1>>

MCTxs == {
    <<Log(1, "Sync", <<5, 6>>)>>,
    <<Log(1, "Swap", <<2, 0, 0, 2>>), Log(11, "Transfer", <<9, 1, 2>>)>>,
    <<Log(3, "Exchange", <<1, 2, 4, 2>>), Log(13, "Transfer", <<3, 9, 2>>),
      Log(2, "Sync", <<1, 1>>)>>,
    <<Log(4, "MintBurn", <<1, 2, 2>>), Log(4, "ClSwap", <<1, 6, 2, -2>>),
      Log(5, "Flow", <<1>>), [Log(3, "Exchange", <<>>) EXCEPT !.decodes = FALSE]>>,
    <<Log(7, "Sync", <<1, 1>>)>> }
===============================================================================
