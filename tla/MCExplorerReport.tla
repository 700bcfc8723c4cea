---------------------------- MODULE MCExplorerReport ----------------------------
(* A session is a reader of the explorer's store, or the openers of its file,  *)
(* or those of the block cache. The readers: three heights over two days, in   *)
(* two versions each, rows that are priced and not, excluded from net, with    *)
(* one pool twice in a route, at a loss, and two senders of one contract. The  *)
(* files: none, one of rejects alone, and older ones with an unknown op, with  *)
(* a reject held twice, with an op held twice, and without a reject table.     *)
EXTENDS ExplorerReport, StoreSchemas

VARIABLE session
mcVars == <<vars, schemaVars, cacheVars, session>>

Time == 1 :> 90000 @@ 2 :> 172500 @@ 3 :> 176790
MCNow == 176800

Op(id, h, tx, kind, eoa, contract) ==
    [id |-> id, block |-> h, tx |-> tx, ts |-> Time[h], kind |-> kind, sub |-> None,
     confidence |-> "exact", eoa |-> eoa, contract |-> contract, gross |-> <<>>, gas |-> <<1>>,
     fee |-> <<>>, volume |-> <<50>>, net |-> <<>>, excluded |-> FALSE,
     route |-> <<[pool |-> 21, amm |-> "v2"], [pool |-> 22, amm |-> "v3"], [pool |-> 21, amm |-> "v2"]>>,
     token |-> 31, tags |-> {"known"}, flags |-> {}]

MCOps ==
    <<1, 1>> :> {[Op(1, 1, 0, "arb", 1, 11) EXCEPT !.gross = <<9>>, !.net = <<8>>]} @@
    <<1, 2>> :> {} @@
    <<2, 1>> :> {[Op(2, 2, 0, "arb", 2, 11) EXCEPT !.gross = <<4>>, !.net = <<-3>>, !.fee = <<6>>],
                 [Op(3, 2, 1, "jit", 2, None) EXCEPT !.confidence = "inferred", !.gross = <<30>>,
                     !.net = <<29>>, !.excluded = TRUE, !.flags = {"outlier"}, !.tags = {"new"}]} @@
    <<2, 2>> :> {[Op(4, 2, 1, "jit", 1, None) EXCEPT !.route = <<>>, !.token = None]} @@
    <<3, 1>> :> {[Op(5, 3, 2, "arb", 1, 12) EXCEPT !.gross = <<-2>>, !.net = <<-3>>, !.tags = {}]} @@
    <<3, 2>> :> {}

MCReasons == [r \in {1, 2, 3} \X {1, 2} |-> IF r[2] = 1 THEN "no_profit" ELSE "bot"]
MCFilters == {[kind |-> "any", confidence |-> "any"], [kind |-> "arb", confidence |-> "exact"]}

Row(key, copy, kind, tag) ==
    [key |-> key, copy |-> copy, kind |-> kind, tag |-> tag, sub |-> "none"]
FileWith(ts, rows, n) ==
    [version |-> 0, tables |-> ts, kinds |-> {"arb", "unknown"}, cols |-> {}, paper |-> {},
     natural |-> FALSE, rejectKey |-> FALSE, ops |-> rows,
     rejects |-> [r \in {"r1", "r2"} |-> IF r = "r1" THEN n ELSE 0]]
NoFile == FileWith({}, {}, 0)
Older == {"ops", "classified", "rejects"}
MCFiles == {
    NoFile, FileWith({"rejects"}, {}, 2),
    FileWith(Older, {Row("a", 1, "unknown", "keeper"), Row("b", 1, "arb", "none")}, 2),
    FileWith(Older, {Row("a", 1, "arb", "none"), Row("a", 2, "arb", "none")}, 1),
    FileWith({"ops", "classified"}, {Row("b", 1, "arb", "none")}, 0) }
MCNewOps == {Row("c", 1, "skim", "none"), Row("d", 1, "utility", "bundler")}
MCCacheFiles == {{}, {2, 5}, {1, 2, 3, 5}}

(* The sessions that are not the one under way stay where they begin.          *)
MCInit ==
    /\ Init /\ SchemaInit /\ CacheInit /\ session \in {"reports", "schema", "cache"}
    /\ session # "reports" => indexedTo = 1 /\ \A h \in Heights : stored[h] = Missing
    /\ session # "schema" => file = NoFile
    /\ session # "cache" => columns = {}
MCNext ==
    \/ session = "reports" /\ Next /\ UNCHANGED <<schemaVars, cacheVars, session>>
    \/ session = "schema" /\ SchemaNext /\ UNCHANGED <<vars, cacheVars, session>>
    \/ session = "cache" /\ CacheNext /\ UNCHANGED <<vars, schemaVars, session>>
MCSpec == MCInit /\ [][MCNext]_mcVars
===============================================================================
