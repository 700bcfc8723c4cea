------------------------------ MODULE BlockReplay ------------------------------
(* Blocks executed again (src/core/src/replay): the transactions of a cached   *)
(* block run through an EVM over a database that loads the state before the    *)
(* block lazily, from the block cache or else from the providers, and keeps    *)
(* what it loaded in the cache for the next replay. A backtest executes only   *)
(* the transactions that touch tracked addresses and takes the others from     *)
(* their receipts, a verification executes all of them, and a what-if stops at *)
(* the first state it cannot load.                                             *)
(*                                                                             *)
(* The EVM is external. What matters here of it: a transaction must carry the  *)
(* nonce of its sender and be able to pay, a call of a contract adds its value *)
(* to a slot that it reports in a log, a capped contract reverts when the slot *)
(* would pass Room, and from the Prague fork on a transaction can set the code *)
(* of an account. Gas is one price per transaction. An account's code hash is  *)
(* its code.                                                                   *)
EXTENDS Integers, Sequences, FiniteSets, SequencesExt, TLC

CONSTANTS
    ChainId,
    Header,         \* block -> [time, arbos]; blocks are consecutive numbers
    Sent,           \* block -> the chain's transactions in it
    Genesis,        \* the state before the first block
    Coinbase,
    Tracked,        \* addresses of tracked pools and tokens
    Precompiles,    \* BLS12_377_ADDRESSES
    Receiver,       \* STATE_RECEIVER
    SystemAddrs,
    Gas, Room,
    CachedBlocks,   \* blocks the fetcher has stored
    MaxReplays,     \* bound: commands
    MaxWanted,      \* bound: transactions a what-if asks for
    MaxLoadFaults   \* bound: loads that fail

ASSUME ReplayAssumption ==
    /\ {Gas, Room, MaxReplays, MaxWanted, MaxLoadFaults} \subseteq Nat
    /\ DOMAIN Sent = DOMAIN Header /\ CachedBlocks \subseteq DOMAIN Header

VARIABLES
    state,      \* the cache's accounts, slots and code
    replay,     \* the replay under way, or the last one
    replays, loadFaults

replayVars == <<state, replay, replays, loadFaults>>

Numbers == DOMAIN Header
FirstNumber == CHOOSE n \in Numbers : n - 1 \notin Numbers
NoCode == "none"

-------------------------------------------------------------------------------
(* Forks.                                                                      *)

Specs == <<"frontier", "homestead", "tangerine", "spurious_dragon", "byzantium", "petersburg",
           "istanbul", "berlin", "london", "merge", "shanghai", "cancun", "prague", "osaka">>
Latest == "osaka"
Rank(spec) == CHOOSE i \in DOMAIN Specs : Specs[i] = spec

Fork(number, time, spec) == [number |-> number, time |-> time, spec |-> spec]

Schedule ==
    1 :> << Fork(0, 0, "frontier"), Fork(1150000, 0, "homestead"), Fork(2463000, 0, "tangerine"),
            Fork(2675000, 0, "spurious_dragon"), Fork(4370000, 0, "byzantium"),
            Fork(7280000, 0, "petersburg"), Fork(9069000, 0, "istanbul"), Fork(12244000, 0, "berlin"),
            Fork(12965000, 0, "london"), Fork(15537394, 0, "merge"), Fork(17034870, 0, "shanghai"),
            Fork(19426587, 0, "cancun"), Fork(22431084, 0, "prague"), Fork(23935694, 0, "osaka") >> @@
    137 :> << Fork(0, 0, "petersburg"), Fork(3395000, 0, "istanbul"), Fork(14750000, 0, "berlin"),
              Fork(23850000, 0, "london"), Fork(50523000, 0, "shanghai"), Fork(54876000, 0, "cancun"),
              Fork(73440256, 0, "prague") >> @@
    56 :> << Fork(0, 0, "istanbul"), Fork(31302048, 0, "london"), Fork(31302048, 1705996800, "shanghai"),
             Fork(31302048, 1718863500, "cancun"), Fork(31302048, 1742436600, "prague"),
             Fork(31302048, 1777343400, "osaka") >> @@
    43114 :> << Fork(0, 0, "istanbul"), Fork(1640340, 0, "berlin"), Fork(3308552, 0, "london"),
                Fork(3308552, 1709740800, "shanghai"), Fork(3308552, 1734368400, "cancun") >> @@
    10 :> << Fork(0, 0, "merge"), Fork(0, 1704992401, "shanghai"), Fork(0, 1710374401, "cancun"),
             Fork(0, 1746806401, "prague") >>

(* Arbitrum says its version in the header; without one the latest is assumed. *)
ArbSpec(v) ==
    CASE v = 0 \/ v >= 50 -> Latest [] v \in 40..49 -> "prague" [] v \in 20..39 -> "cancun"
      [] v \in 11..19 -> "shanghai" [] OTHER -> "merge"

SpecFor(b) ==
    IF ChainId = 42161 THEN ArbSpec(Header[b].arbos)
    ELSE IF ChainId \notin DOMAIN Schedule THEN Latest
    ELSE Last(SelectSeq(Schedule[ChainId], LAMBDA f : f.number <= b /\ f.time <= Header[b].time)).spec

-------------------------------------------------------------------------------
(* The EVM and the chain.                                                      *)

Payable(s, t) == s.acct[t.from].nonce = t.nonce /\ s.acct[t.from].bal >= t.value + Gas

(* A blob transaction is handed over without its blobs and their fee, and such *)
(* a one is not valid to the EVM.                                              *)
Converted(t) == t.kind # "blob"
Valid(s, t, canSet) == Converted(t) /\ Payable(s, t) /\ (t.kind = "set" => canSet)

Charged(s, t) ==
    LET paid == [s.acct EXCEPT ![t.from].nonce = @ + 1, ![t.from].bal = @ - Gas]
        set  == IF t.kind = "set" THEN [paid EXCEPT ![t.auth].code = t.code, ![t.auth].nonce = @ + 1]
                ELSE paid
    IN  [set EXCEPT ![Coinbase].bal = @ + Gas]

Moved(acct, t) == [acct EXCEPT ![t.from].bal = @ - t.value, ![t.to].bal = @ + t.value]

Run(s, t) ==
    LET acct == Charged(s, t)
        code == acct[t.to].code
        sum  == s.slot[t.to] + t.value
        ok   == code # "capped" \/ sum <= Room
    IN  [ok |-> ok,
         logs |-> IF ok /\ code # NoCode THEN <<[addr |-> t.to, data |-> sum]>> ELSE <<>>,
         state |-> IF ~ok THEN [s EXCEPT !.acct = acct]
                   ELSE [acct |-> Moved(acct, t),
                         slot |-> IF code = NoCode THEN s.slot ELSE [s.slot EXCEPT ![t.to] = sum]]]

(* What a transaction does to the accounts of the database, without the block's *)
(* beneficiary, where it does something.                                       *)
Deltas(pre, post) ==
    LET moved == {a \in DOMAIN pre.acct \ {Coinbase} : pre.acct[a].bal # post.acct[a].bal}
    IN  [a \in moved |-> post.acct[a].bal - pre.acct[a].bal]

(* The chain. A system transaction credits an account and is none that the     *)
(* client can read.                                                            *)
OnChain(s, t) ==
    IF t.kind = "system" THEN [s EXCEPT !.acct[t.to].bal = @ + t.value]
    ELSE Run(s, t).state

After(s, b, k) == FoldLeft(OnChain, s, SubSeq(Sent[b], 1, k))
Before[b \in Numbers] ==
    IF b = FirstNumber THEN Genesis ELSE After(Before[b - 1], b - 1, Len(Sent[b - 1]))

-------------------------------------------------------------------------------
(* The cached block: the transactions that could be read, renumbered, and the  *)
(* receipts that belong to them.                                               *)

Readable(b) == SelectSeq([k \in DOMAIN Sent[b] |-> k], LAMBDA k : Sent[b][k].kind # "system")
Txs(b) == [i \in DOMAIN Readable(b) |-> Sent[b][Readable(b)[i]]]
PreOf(b, i) == After(Before[b], b, Readable(b)[i] - 1)
Receipt(b, i) == LET r == Run(PreOf(b, i), Txs(b)[i]) IN [status |-> r.ok, logs |-> r.logs]

-------------------------------------------------------------------------------
(* The database: accounts and slots of the cache are of the block before, code *)
(* is of the address, and is used when it is the code of the account's hash.   *)

Over(f, k, v) == (k :> v) @@ f

Hash(st, b, a) ==
    IF <<b - 1, a>> \in DOMAIN st.accounts THEN st.accounts[<<b - 1, a>>].hash ELSE Before[b].acct[a].code

\* Mutant: code of the cache is used whatever its hash.
HasCodeUnverified(st, b, a) == Hash(st, b, a) = NoCode \/ a \in DOMAIN st.code

HasCode(st, b, a) ==
    Hash(st, b, a) = NoCode \/ (a \in DOMAIN st.code /\ st.code[a] = Hash(st, b, a))

Known(st, b, a) == <<b - 1, a>> \in DOMAIN st.accounts /\ HasCode(st, b, a)

LoadCode(st, b, a) ==
    IF Hash(st, b, a) = NoCode THEN NoCode
    ELSE IF HasCode(st, b, a) THEN st.code[a] ELSE Before[b].acct[a].code

Basic(st, b, a) ==
    IF <<b - 1, a>> \in DOMAIN st.accounts
    THEN LET row == st.accounts[<<b - 1, a>>]
         IN  [nonce |-> row.nonce, bal |-> row.bal, code |-> LoadCode(st, b, a)]
    ELSE Before[b].acct[a]

Storage(st, b, a) == IF <<b - 1, a>> \in DOMAIN st.slots THEN st.slots[<<b - 1, a>>] ELSE Before[b].slot[a]

(* An account that is asked of a provider is kept, and so is its code; a       *)
(* contract's code that has changed replaces the cached one.                   *)
PutCode(st, a, code) == IF code = NoCode THEN st ELSE [st EXCEPT !.code = Over(@, a, code)]
PutAccount(st, b, a) ==
    IF Known(st, b, a) THEN st
    ELSE LET now == Basic(st, b, a)
         IN  [PutCode(st, a, now.code) EXCEPT
                  !.accounts = Over(@, <<b - 1, a>>, [nonce |-> now.nonce, bal |-> now.bal, hash |-> now.code])]
PutSlot(st, b, a) == [st EXCEPT !.slots = Over(@, <<b - 1, a>>, Storage(st, b, a))]

(* The state as the EVM sees it: what the replay has committed, over what the  *)
(* database says.                                                              *)
Seen ==
    [acct |-> [a \in DOMAIN Genesis.acct |->
                  IF a \in DOMAIN replay.acct THEN replay.acct[a] ELSE Basic(state, replay.block, a)],
     slot |-> [a \in DOMAIN Genesis.acct |->
                  IF a \in DOMAIN replay.slot THEN replay.slot[a] ELSE Storage(state, replay.block, a)]]

CanSet == Rank(SpecFor(replay.block)) >= Rank("prague")

(* What a transaction loads, in order: a sender that cannot send is all of it. *)
Loads(t) ==
    LET acct(a) == <<[what |-> "acct", addr |-> a]>>
        runs == Seen.acct[t.to].code # NoCode \/ (t.kind = "set" /\ t.auth = t.to)
    IN  IF ~Converted(t) \/ (t.kind = "set" /\ ~CanSet) THEN <<>>
        ELSE IF ~Payable(Seen, t) THEN acct(t.from)
        ELSE acct(t.from) \o (IF t.kind = "set" THEN acct(t.auth) ELSE <<>>) \o acct(t.to) \o
             (IF runs THEN <<[what |-> "slot", addr |-> t.to]>> ELSE <<>>) \o acct(Coinbase)

Local(l) ==
    CASE l.what = "acct" -> l.addr \in DOMAIN replay.acct \/ Known(state, replay.block, l.addr)
      [] l.what = "slot" -> l.addr \in DOMAIN replay.slot \/ <<replay.block - 1, l.addr>> \in DOMAIN state.slots

KeepOne(st, l) ==
    CASE l.what = "acct" -> IF l.addr \in DOMAIN replay.acct THEN st ELSE PutAccount(st, replay.block, l.addr)
      [] l.what = "slot" -> IF l.addr \in DOMAIN replay.slot THEN st ELSE PutSlot(st, replay.block, l.addr)
Keep(ls) == FoldLeft(KeepOne, state, ls)

-------------------------------------------------------------------------------
(* Replays.                                                                    *)

Idle == [mode |-> "off"]
Running == replay # Idle
Empty == [a \in {} |-> 0]

ReplayInit ==
    /\ state = [accounts |-> <<>>, slots |-> <<>>, code |-> <<>>]
    /\ replay = Idle /\ replays = 0 /\ loadFaults = 0

(* On Polygon the precompiles are entered with the code that could be read,    *)
(* the state receiver without any, and both without nonce or balance.          *)
Stub(code) == [nonce |-> 0, bal |-> 0, code |-> code]
Registered(b, unread) ==
    IF ChainId # 137 THEN Empty
    ELSE [a \in Precompiles |-> Stub(IF a \in unread THEN NoCode ELSE Before[b].acct[a].code)]
         @@ (Receiver :> Stub(NoCode))

CreateDb(mode, b, want, unread) ==
    /\ ~Running /\ replays < MaxReplays
    /\ replays' = replays + 1
    /\ loadFaults' = loadFaults + Cardinality(unread) /\ loadFaults' <= MaxLoadFaults
    /\ replay' = [mode |-> mode, block |-> b, want |-> want, next |-> 1, blind |-> unread,
                  acct |-> Registered(b, unread), slot |-> Empty, out |-> <<>>]
    /\ UNCHANGED state

Unread == IF ChainId = 137 THEN SUBSET Precompiles ELSE {{}}

ReplayTo ==
    \E b \in CachedBlocks, unread \in Unread :
        \E last \in DOMAIN Txs(b) : CreateDb("all", b, 1..last, unread)

ReplayEachFiltered ==
    \E b \in CachedBlocks, unread \in Unread : CreateDb("filtered", b, DOMAIN Txs(b), unread)

WhatIfRealTxs ==
    \E b \in CachedBlocks, unread \in Unread :
        \E want \in SUBSET DOMAIN Txs(b) :
            Cardinality(want) \in 1..MaxWanted /\ CreateDb("whatif", b, want, unread)

(* A block that is not in the cache ends the command.                          *)
NotInCache ==
    /\ ~Running /\ replays < MaxReplays
    /\ Numbers \ CachedBlocks # {}
    /\ replay' = Idle /\ replays' = replays + 1
    /\ UNCHANGED <<state, loadFaults>>

Tx == Txs(replay.block)[replay.next]
TheReceipt == Receipt(replay.block, replay.next)
Ended ==
    replay.next > IF replay.mode = "all" THEN Cardinality(replay.want) ELSE Len(Txs(replay.block))

Filter == Tx.to \in Tracked \/ \E i \in DOMAIN TheReceipt.logs : TheReceipt.logs[i].addr \in Tracked
Executes == Running /\ ~Ended /\ (replay.mode = "filtered" => Filter)

(* A result taken from the receipt says why it was.                            *)
Synthesized(error) == [status |-> TheReceipt.status, logs |-> TheReceipt.logs, error |-> error]

Outside(logs) == SelectSeq(logs, LAMBDA l : l.addr \notin SystemAddrs)
Verified(ok, logs) ==
    [status |-> ok, logs |-> logs,
     error |-> IF ok = TheReceipt.status /\ Outside(logs) = Outside(TheReceipt.logs) THEN "" ELSE "mismatch"]

Committed(after) ==
    [replay EXCEPT !.next = @ + 1,
                   !.acct = [a \in DOMAIN @ \cup {l.addr : l \in ToSet(Loads(Tx))} |-> after.acct[a]],
                   !.slot = IF Seen.slot[Tx.to] = after.slot[Tx.to] THEN @ ELSE Over(@, Tx.to, after.slot[Tx.to])]

(* A what-if reports the transactions it was asked for.                        *)
Report(r, out) ==
    IF r.mode = "whatif" /\ replay.next \notin r.want THEN r
    ELSE [r EXCEPT !.out = Over(@, replay.next, out)]

SkipTx ==
    /\ Running /\ ~Ended /\ ~Executes
    /\ replay' = [Report(replay, Synthesized("skipped")) EXCEPT !.next = @ + 1]
    /\ UNCHANGED <<state, replays, loadFaults>>

ExecuteTx ==
    /\ Executes /\ Valid(Seen, Tx, CanSet)
    /\ state' = Keep(Loads(Tx))
    /\ LET r == Run(Seen, Tx)
       IN  replay' = Report(Committed(r.state),
                            IF replay.mode = "whatif"
                            THEN [status |-> r.ok, committed |-> TRUE, deltas |-> Deltas(Seen, r.state)]
                            ELSE Verified(r.ok, r.logs))
    /\ UNCHANGED <<replays, loadFaults>>

(* A transaction the EVM does not accept changes nothing and passes for one    *)
(* that reverted.                                                              *)
RejectTx ==
    /\ Executes /\ ~Valid(Seen, Tx, CanSet)
    /\ state' = Keep(Loads(Tx))
    /\ replay' = [Report(replay, IF replay.mode = "whatif"
                                 THEN [status |-> FALSE, committed |-> FALSE, deltas |-> Empty]
                                 ELSE Verified(FALSE, <<>>)) EXCEPT !.next = @ + 1]
    /\ UNCHANGED <<replays, loadFaults>>

LoadFailed ==
    IF replay.mode = "whatif" THEN Idle
    ELSE [Report(replay, Synthesized("unloaded")) EXCEPT !.next = @ + 1]

(* What was loaded before the load that failed is kept.                        *)
LoadFails ==
    /\ Executes /\ loadFaults < MaxLoadFaults
    /\ \E k \in DOMAIN Loads(Tx) :
          /\ ~Local(Loads(Tx)[k])
          /\ state' = Keep(SubSeq(Loads(Tx), 1, k - 1))
    /\ replay' = LoadFailed
    /\ loadFaults' = loadFaults + 1
    /\ UNCHANGED replays

EndReplay ==
    /\ Running /\ Ended
    /\ replay' = Idle
    /\ UNCHANGED <<state, replays, loadFaults>>

ReplayNext ==
    \/ ReplayTo \/ ReplayEachFiltered \/ WhatIfRealTxs \/ NotInCache
    \/ SkipTx \/ ExecuteTx \/ RejectTx \/ LoadFails \/ EndReplay

-------------------------------------------------------------------------------
(* Nothing up to the i-th transaction of the block was out of reach: no system *)
(* transaction, blob transaction or precompile without its code.               *)
InReach(i) ==
    /\ Readable(replay.block)[i] = i /\ replay.blind = {}
    /\ \A j \in 1..i : Converted(Txs(replay.block)[j])

(* Whatever was loaded, cached, replaced or lost by earlier replays of this or *)
(* other blocks: as long as every transaction of the block so far has been     *)
(* executed, a replay agrees with the receipts (build_executed_tx); after one  *)
(* that was skipped or could not be loaded it need not. And a what-if never    *)
(* passes off as executed what the chain did not do: what it reports has the   *)
(* status and the native deltas it had on chain (what_if_real_txs).            *)
ReplayIsChain ==
    replay # Idle => \A i \in DOMAIN replay.out :
        InReach(i) =>
            IF replay.mode = "whatif"
            THEN LET r == Run(PreOf(replay.block, i), Txs(replay.block)[i])
                 IN  replay.out[i] = [status |-> r.ok, committed |-> TRUE,
                                      deltas |-> Deltas(PreOf(replay.block, i), r.state)]
            ELSE (\A j \in 1..i : replay.out[j].error \notin {"skipped", "unloaded"})
                 => replay.out[i].error = "" /\ replay.out[i].logs = Receipt(replay.block, i).logs
===============================================================================
