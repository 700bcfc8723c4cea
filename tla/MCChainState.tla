----------------------------- MODULE MCChainState -----------------------------
(* The state of a block, read in two ways: a process either begins sessions or *)
(* replays blocks. The replayed blocks are the last one before Polygon's       *)
(* Prague fork and the first one after it. In the first a contract is called   *)
(* by two senders and reverts once, after a transaction that touches nothing   *)
(* tracked; in the second the state is synced, an account's code is replaced   *)
(* and the account called, with a precompile. The third calls the new code and *)
(* ends in a blob transaction, as other chains have them, and a fourth was not *)
(* fetched.                                                                    *)
EXTENDS MCPoolInit, BlockReplay

VARIABLE command
mcVars == <<vars, replayVars, command>>

Tx2(kind, from, to, value, nonce) == [kind |-> kind, from |-> from, to |-> to, value |-> value, nonce |-> nonce]
SetTx(from, to, nonce, auth, code) == Tx2("set", from, to, 1, nonce) @@ [auth |-> auth, code |-> code]

FirstBlock == 73440255
MCHeader ==
    FirstBlock :> [time |-> 1700000000, arbos |-> 0] @@
    FirstBlock + 1 :> [time |-> 1700000002, arbos |-> 0] @@
    FirstBlock + 2 :> [time |-> 1700000004, arbos |-> 0] @@
    FirstBlock + 3 :> [time |-> 1700000006, arbos |-> 0]
MCSent ==
    FirstBlock :> << Tx2("call", "bob", "pool", 2, 0), Tx2("call", "ann", "bob", 1, 0),
                     Tx2("call", "ann", "pool", 2, 1), Tx2("call", "miner", "blake", 1, 0) >> @@
    FirstBlock + 1 :> << SetTx("bob", "pool", 1, "pool", "plain"), Tx2("call", "bob", "pool", 3, 2),
                         [kind |-> "system", to |-> "ann", value |-> 5], Tx2("call", "ann", "bob", 4, 2) >> @@
    FirstBlock + 2 :> << Tx2("call", "ann", "pool", 3, 3), Tx2("blob", "bob", "pool", 1, 3) >> @@
    FirstBlock + 3 :> <<>>

Account(nonce, bal, code) == [nonce |-> nonce, bal |-> bal, code |-> code]
MCGenesis ==
    [acct |-> "ann" :> Account(0, 9, "none") @@ "bob" :> Account(0, 20, "none")
              @@ "miner" :> Account(0, 5, "none") @@ "pool" :> Account(0, 0, "capped")
              @@ "blake" :> Account(0, 0, "plain") @@ "receiver" :> Account(0, 0, "plain"),
     slot |-> [a \in {"ann", "bob", "miner", "pool", "blake", "receiver"} |-> 0]]
MCBlocks == FirstBlock..FirstBlock + 2

MCInit == Init /\ ReplayInit /\ command \in {"session", "replay"}

SessionStep == command = "session" /\ Next /\ UNCHANGED <<replayVars, command>>
ReplayStep == command = "replay" /\ ReplayNext /\ UNCHANGED <<vars, command>>
MCNext == SessionStep \/ ReplayStep
MCSpec == MCInit /\ [][MCNext]_mcVars
===============================================================================
