----------------------------- MODULE MCRpcRequests -----------------------------
(* An own node that is not limited and a public one that is, which is an       *)
(* archive, and two tasks. The second block ends with a transaction of another *)
(* type, as on Polygon, the third begins with one, as on Optimism. The check   *)
(* at the start asks a provider that answers once, one that does not until it  *)
(* gives up.                                                                   *)
EXTENDS RpcRequests

MCRps == ("own" :> 0) @@ ("public" :> 2)
MCArchives == {"public"}
MCOldest == ("own" :> 3) @@ ("public" :> 2)
MCMissing == ("own" :> {2}) @@ ("public" :> {3})
MCTxs == << <<"std">>, <<"std", "std", "other">>, <<"other", "std">> >>
MCBatches == {<<2, 3>>}

MCOpening == \A p \in Providers : opening'[p] # opening[p] => opening'[p] = (IF p \in up THEN 1 ELSE Attempts)
===============================================================================
