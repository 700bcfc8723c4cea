------------------------------ MODULE RpcRequests -------------------------------
(* What the RPC client asks its providers, and at what rate (src/core/src/rpc/  *)
(* client.rs, middleware.rs). A request to a provider waits for a token of its  *)
(* bucket, is repeated on transport errors, and moves the provider's weight,    *)
(* which is the bucket's rate. Above the requests are the operations that take  *)
(* several: batches of blocks that are split when they fail, the binary search  *)
(* for the state horizon, and the probes that do not retry. Latencies may order *)
(* providers of one preference in any way, so a list is a set. The waits of     *)
(* archive calls are RpcProviders'.                                             *)
EXTENDS Integers, Sequences, FiniteSets, FiniteSetsExt, SequencesExt

CONSTANTS
    Providers,
    Rps,            \* provider -> its configured rate, 0 for unlimited
    Archives,       \* the providers configured as archive nodes
    Oldest,         \* provider -> the first block whose state it keeps
    Missing,        \* provider -> blocks whose receipts it does not have
    Txs,            \* block -> the kinds of its transactions, in order
    Attempts,       \* how often a request to a provider is made (the code's 3)
    Tasks,          \* concurrent users of the client: they are alike, and numbered as they begin
    Batches,        \* the lists of blocks that a task may ask for
    MaxDepth,       \* how far below the tip the horizon is searched
    Fallback,       \* the depth assumed when there is no state at the tip
    MaxFails,       \* the exponent at which the back-off stops growing
    MaxOutages,     \* bound: how often a provider goes down or comes back
    MaxOps,         \* bound: operations begun
    MaxAge          \* bound: the seconds for which a bucket was left alone that are told apart

Blocks == DOMAIN Txs
Tip == Max(Blocks)
One == 2            \* a token; weights and rates are halves, rounded, never zero
NoOne == CHOOSE x \in {"nobody"} : x \notin Providers

ASSUME RequestsAssumption ==
    /\ IsFiniteSet(Providers) /\ Providers # {} /\ Archives \subseteq Providers
    /\ Rps \in [Providers -> Nat] /\ Oldest \in [Providers -> Nat]
    /\ Tasks \subseteq Nat /\ Blocks \subseteq Nat \ {0} /\ \A b \in Batches : b \in Seq(Blocks) /\ b # <<>>
    /\ \A b \in Blocks : Txs[b] \in Seq(STRING)
    /\ Attempts \in Nat \ {0}
    /\ {MaxDepth, Fallback, MaxFails, MaxOutages, MaxOps, MaxAge} \subseteq Nat

VARIABLES
    up,         \* providers that answer
    outages,
    ops,        \* operations begun
    provider,   \* provider -> its weight, health and token bucket
    task,       \* task -> the operation it runs and the call it is in
    allowance,  \* history: provider -> what its configured rate would still admit
    opening     \* history: provider -> the requests of check_connection, which take no token

vars == <<up, outages, opening, ops, provider, task, allowance>>

Less(a, b) == IF a < b THEN a ELSE b
More(a, b) == IF a > b THEN a ELSE b
Limited(p) == Rps[p] > 0

-------------------------------------------------------------------------------
(* The bucket of a provider, and its weight.                                   *)

(* Tokens are credited when somebody looks, at the rate of that moment.        *)
Refilled(s) == [s EXCEPT !.tokens = Less(s.burst, @ + s.age * s.rate), !.age = 0]

Rated(s) == [s EXCEPT !.rate = s.weight, !.burst = More(One, s.weight)]

(* The weight of an unlimited provider only ranks it, and is left out.          *)
Reduced(w, p) == IF Limited(p) THEN More(w, More(1, Rps[p] \div 10)) ELSE 0

Succeeded(p, s) ==
    Rated([s EXCEPT !.fails = 0, !.alive = TRUE, !.cool = 0,
                    !.weight = Less(Rps[p], (3 * s.weight + 1) \div 2)])

Failed(p, s) ==
    Rated([s EXCEPT !.fails = Less(MaxFails, @ + 1), !.cool = 2 ^ Less(MaxFails, s.fails + 1),
                    !.weight = Reduced(s.weight \div 2, p)])

Throttled(p, s) ==
    Rated([s EXCEPT !.cool = 1, !.weight = Reduced((7 * s.weight) \div 10, p)])

Dead(p, s) ==
    [s EXCEPT !.alive = FALSE, !.fails = Less(MaxFails, @ + 1), !.cool = 2 ^ MaxFails,
              !.weight = Reduced(s.weight \div 2, p)]

Available(p) == provider[p].alive /\ provider[p].cool = 0

(* A second passes.                                                            *)
Tick ==
    /\ provider' = [p \in Providers |->
           [provider[p] EXCEPT !.cool = More(0, @ - 1),
                               !.age = IF Limited(p) THEN Less(MaxAge, @ + 1) ELSE 0]]
    /\ allowance' = [p \in Providers |-> Less(More(One, Rps[p]), allowance[p] + Rps[p])]
    /\ UNCHANGED <<up, outages, opening, ops, task>>

Flip(p) ==
    /\ outages < MaxOutages /\ outages' = outages + 1 /\ UNCHANGED ops
    /\ up' = IF p \in up THEN up \ {p} ELSE up \cup {p}
    /\ UNCHANGED <<opening, provider, task, allowance>>

-------------------------------------------------------------------------------
(* What a block request returns. Transactions of other than the standard types *)
(* are dropped from the block and from the receipts; a transaction is numbered *)
(* by its place among those left, a receipt keeps the place it has on chain.   *)

Standard(b) == {i \in DOMAIN Txs[b] : Txs[b][i] = "std"}
Left(b) ==
    CHOOSE s \in [1 .. Cardinality(Standard(b)) -> Standard(b)] : \A i, j \in DOMAIN s : i < j => s[i] < s[j]

Row(b) ==
    [number |-> b,
     txs |-> [k \in DOMAIN Left(b) |-> [hash |-> Left(b)[k], index |-> k - 1]],
     receipts |-> [k \in DOMAIN Left(b) |-> [hash |-> Left(b)[k], index |-> Left(b)[k] - 1]]]

(* run_range_hybrid takes the receipt in the transaction's place, the explorer *)
(* the one with the transaction's index.                                       *)
ByPlace(row) == {<<row.txs[k], row.receipts[k]>> : k \in DOMAIN row.txs \cap DOMAIN row.receipts}
ByIndex(row) == {pair \in Range(row.txs) \X Range(row.receipts) : pair[1].index = pair[2].index}

-------------------------------------------------------------------------------
(* The operations. `ask` is what the call under way asks for.                  *)

Idle == [op |-> "none", pc |-> "idle", ask |-> <<>>, groups |-> <<{}, {}>>, tried |-> {},
         first |-> TRUE, found |-> FALSE, at |-> NoOne, tries |-> 0,
         wanted |-> <<>>, work |-> <<>>, rows |-> <<>>, lo |-> 0, hi |-> 0, ok |-> TRUE]

\* The next call of an operation starts with a list of its own.
Calling(x, ask) ==
    [x EXCEPT !.pc = "list", !.ask = ask, !.tried = {}, !.first = TRUE, !.found = FALSE, !.tries = 0,
              !.at = NoOne]
Done(x, ok) == [Idle EXCEPT !.op = x.op, !.pc = "done", !.ok = ok, !.wanted = x.wanted, !.rows = x.rows,
                            !.lo = x.lo]

GetBlocks(blocks) == Calling([Idle EXCEPT !.op = "blocks", !.wanted = blocks, !.work = <<blocks>>], blocks)

\* Mutant: the halves are taken in the wrong order.
HalvesSwapped(s) == << SubSeq(s, Len(s) \div 2 + 1, Len(s)), SubSeq(s, 1, Len(s) \div 2) >>

Halves(s) == << SubSeq(s, 1, Len(s) \div 2), SubSeq(s, Len(s) \div 2 + 1, Len(s)) >>

(* get_blocks_and_receipts_batch: a part that fails is halved, one block that  *)
(* fails fails the whole.                                                      *)
BlocksAfter(x, ok) ==
    LET rest == IF ok THEN Tail(x.work) ELSE Halves(x.ask) \o Tail(x.work)
        y == [x EXCEPT !.work = rest,
                       !.rows = IF ok THEN @ \o [k \in DOMAIN x.ask |-> Row(x.ask[k])] ELSE @]
    IN  IF ~ok /\ Len(x.ask) = 1 THEN Done(x, FALSE)
        ELSE IF rest = <<>> THEN Done(y, TRUE)
        ELSE Calling(y, Head(rest))

DetectHorizon ==
    Calling([Idle EXCEPT !.op = "smoke", !.lo = More(0, Tip - MaxDepth), !.hi = More(1, Tip - 1)],
            <<More(1, Tip - 1)>>)

\* Mutant: the lower end is not moved past a block without state.
NarrowedTo(x, ok) == IF ok THEN [x EXCEPT !.hi = x.ask[1]] ELSE [x EXCEPT !.lo = x.ask[1]]

Narrowed(x, ok) == IF ok THEN [x EXCEPT !.hi = x.ask[1]] ELSE [x EXCEPT !.lo = x.ask[1] + 1]

Searching(x) ==
    IF x.lo < x.hi THEN Calling([x EXCEPT !.op = "search"], <<x.lo + (x.hi - x.lo) \div 2>>)
    ELSE Done([x EXCEPT !.op = "search"], TRUE)

HorizonAfter(x, ok) ==
    IF x.op = "search" THEN Searching(Narrowed(x, ok))
    ELSE IF ok THEN Searching(x)
    ELSE Done([x EXCEPT !.lo = More(0, Tip - Fallback)], FALSE)

After(x, ok) ==
    IF x.op = "blocks" THEN BlocksAfter(x, ok)
    ELSE IF x.op \in {"smoke", "search"} THEN HorizonAfter(x, ok)
    ELSE Done(x, ok)

OfState(x) == x.op \in {"smoke", "search", "code"}

-------------------------------------------------------------------------------
(* The calls: retry_call_impl.                                                 *)

Init ==
    /\ up \in SUBSET Providers /\ outages = 0 /\ ops = 0
    /\ provider = [p \in Providers |->
           [weight |-> Rps[p], alive |-> TRUE, cool |-> 0, fails |-> 0, capable |-> TRUE,
            tokens |-> More(One, Rps[p]), age |-> 0, rate |-> Rps[p], burst |-> More(One, Rps[p])]]
    /\ task = [t \in Tasks |-> [Idle EXCEPT !.pc = "off"]]
    /\ allowance = [p \in Providers |-> More(One, Rps[p])] /\ opening = [p \in Providers |-> 0]

(* check_connection asks every provider for its block number, again after a    *)
(* transport error (retry_transport), and takes no token for it; the program   *)
(* goes on with one provider that answers.                                     *)
Connect ==
    /\ \A t \in Tasks : task[t].pc = "off"
    /\ up # {}
    /\ \E sent \in [Providers -> 0 .. Attempts] :
          /\ \A p \in Providers : (sent[p] = 0) <=> ~Limited(p)     \* nobody counts the others
          /\ opening' = [p \in Providers |-> opening[p] + sent[p]]
          /\ allowance' = [p \in Providers |-> allowance[p] - One * sent[p]]
    /\ provider' = [p \in Providers |-> IF p \in up THEN provider[p] ELSE Dead(p, provider[p])]
    /\ task' = [t \in Tasks |-> Idle]
    /\ UNCHANGED <<up, outages, ops>>

At(t, x) ==
    /\ task' = [task EXCEPT ![t] = x]
    /\ allowance' = IF x.pc = "sent" /\ Limited(x.at) THEN [allowance EXCEPT ![x.at] = @ - One] ELSE allowance

Free(t) == task[t].pc \in {"idle", "done"} /\ \A u \in Tasks : u < t => task[u].op # "none"

Start(t) ==
    /\ Free(t) /\ ops < MaxOps /\ ops' = ops + 1
    /\ \/ \E s \in Batches : At(t, GetBlocks(s))
       \/ At(t, DetectHorizon)
    /\ UNCHANGED <<up, outages, opening, provider>>

Awake == {p \in Providers : Available(p)}
Unlimited == {p \in Providers : ~Limited(p)}
Capable == {p \in Awake : provider[p].capable}

(* The providers of a pass, the preferred ones first. State reads have a scope *)
(* of their own, which on the first pass may fall back to everybody.           *)
Groups(x) ==
    IF OfState(x) /\ (Capable # {} \/ ~x.first) THEN <<Capable, {}>>
    ELSE <<Awake \cap Unlimited, Awake \ Unlimited>>

Listed(x) == x.groups[1] \cup x.groups[2]
MoreToTry(x) == Listed(x) \ x.tried # {} /\ Cardinality(x.tried) < Cardinality(Listed(x))
Preferred(x) == IF x.groups[1] \subseteq x.tried THEN x.groups[2] ELSE x.groups[1]

(* Where a call goes from here: to the next provider of its list, to another   *)
(* list when this one had somebody, or back to its operation.                  *)
Turns(x) ==
    IF MoreToTry(x)
    THEN {[x EXCEPT !.pc = IF Limited(p) THEN "permit" ELSE "sent", !.tried = @ \cup {p},
                    !.found = TRUE, !.at = p, !.tries = 1] : p \in Preferred(x) \ x.tried}
    ELSE IF x.found THEN {[x EXCEPT !.pc = "list"]}
    ELSE {After(x, FALSE)}

Turn(t, x) == \E y \in Turns(x) : At(t, y)

List(t) ==
    LET x == task[t] IN
    /\ x.pc = "list"
    /\ Turn(t, [x EXCEPT !.groups = Groups(x), !.first = FALSE, !.found = FALSE])
    /\ UNCHANGED <<up, outages, opening, ops, provider>>

(* acquire: a token, or a look at the bucket that leaves what it has credited. *)
Acquire(t) ==
    LET x == task[t]  p == x.at  s == Refilled(provider[p]) IN
    /\ x.pc = "permit"
    /\ IF s.tokens < One
       THEN provider' = [provider EXCEPT ![p] = s] /\ UNCHANGED <<task, allowance>>
       ELSE /\ provider' = [provider EXCEPT ![p] = [s EXCEPT !.tokens = @ - One]]
            /\ At(t, [x EXCEPT !.pc = "sent"])
    /\ UNCHANGED <<up, outages, opening, ops>>

\* Mutant: a repeated request takes no token.
RetryFree(x) == [x EXCEPT !.pc = "sent", !.tries = @ + 1]

Retry(x) == [x EXCEPT !.pc = IF Limited(x.at) THEN "permit" ELSE "sent", !.tries = @ + 1]

Lacks(x, p) ==
    IF OfState(x) THEN Oldest[p] > x.ask[1] ELSE Range(x.ask) \cap Missing[p] # {}
Strict(x) == x.op \in {"code", "logs"}
Recorded(p, s) == provider' = [provider EXCEPT ![p] = s]

Answered(t) ==
    LET x == task[t] IN
    /\ x.pc = "sent" /\ x.at \in up /\ ~Lacks(x, x.at)
    /\ IF x.op = "code" THEN UNCHANGED provider ELSE Recorded(x.at, Succeeded(x.at, provider[x.at]))
    /\ At(t, After(x, TRUE))
    /\ UNCHANGED <<up, outages, opening, ops>>

(* A transport error or a throttled request is repeated up to Attempts times.  *)
Repeat(t) ==
    LET x == task[t] IN
    /\ x.pc = "sent" /\ x.at \notin up /\ ~Strict(x) /\ x.tries < Attempts
    /\ At(t, Retry(x))
    /\ UNCHANGED <<up, outages, opening, ops, provider>>

GivesUpOn(t) ==
    LET x == task[t] IN
    /\ x.pc = "sent" /\ x.at \notin up /\ ~Strict(x) /\ x.tries = Attempts
    /\ \/ Recorded(x.at, Failed(x.at, provider[x.at]))
       \/ Recorded(x.at, Throttled(x.at, provider[x.at]))
    /\ Turn(t, x)
    /\ UNCHANGED <<up, outages, opening, ops>>

(* A definite error is not repeated: state that is gone costs the provider its *)
(* capability, a block that it does not have counts as a failure.              *)
Declines(t) ==
    LET x == task[t]  s == provider[x.at] IN
    /\ x.pc = "sent" /\ x.at \in up /\ Lacks(x, x.at) /\ ~Strict(x)
    /\ Recorded(x.at, IF OfState(x) THEN [s EXCEPT !.capable = FALSE] ELSE Failed(x.at, s))
    /\ Turn(t, x)
    /\ UNCHANGED <<up, outages, opening, ops>>

(* The requests without retries, of one provider: get_code_no_retry takes the  *)
(* best that is available, get_logs_pinned_strict probes an unlimited one, and *)
(* their errors leave its health alone.                                        *)
BestForCode ==
    CASE Capable \cap Archives # {} -> Capable \cap Archives
      [] Capable \cap Archives = {} /\ Capable # {} -> Capable
      [] OTHER -> Awake

StartStrict(t) ==
    /\ Free(t) /\ ops < MaxOps /\ ops' = ops + 1
    /\ \E op \in {"code", "logs"} :
           \E p \in (IF op = "code" THEN BestForCode ELSE Awake \cap Unlimited) :
              At(t, [Idle EXCEPT !.op = op, !.pc = IF Limited(p) THEN "permit" ELSE "sent",
                                 !.at = p, !.ask = <<Tip>>])
    /\ UNCHANGED <<up, outages, opening, provider>>

StrictFails(t) ==
    LET x == task[t] IN
    /\ x.pc = "sent" /\ Strict(x) /\ (x.at \notin up \/ Lacks(x, x.at))
    /\ At(t, Done(x, FALSE))
    /\ UNCHANGED <<up, outages, opening, ops, provider>>

Proceed(t) ==
    \/ List(t)
    \/ Acquire(t)
    \/ Answered(t)
    \/ Repeat(t)
    \/ GivesUpOn(t)
    \/ Declines(t)
    \/ StrictFails(t)

Next ==
    \/ Tick
    \/ \E p \in Providers : Flip(p)
    \/ Connect
    \/ \E t \in Tasks : Start(t)
    \/ \E t \in Tasks : StartStrict(t)
    \/ \E t \in Tasks : Proceed(t)

(* Time passes, and the runtime polls every task; requests have a time-out.    *)
Spec == Init /\ [][Next]_vars /\ WF_vars(Tick) /\ \A t \in Tasks : WF_vars(Proceed(t))

-------------------------------------------------------------------------------
(* Health and buckets stay within what the configuration gives a provider, and *)
(* a call is sent to somebody (middleware.rs, retry_call_impl).                *)
TypeOK ==
    /\ \A p \in Providers : LET s == provider[p] IN
          /\ s.weight <= Rps[p] /\ s.cool \in 0 .. 2 ^ MaxFails
          /\ Limited(p) => s.rate \in 1 .. Rps[p] /\ s.tokens \in 0 .. More(One, Rps[p])
    /\ \A t \in Tasks : task[t].pc \in {"permit", "sent"} => task[t].at \in Providers

(* "Retries must re-acquire so they can't burst past the configured            *)
(* per-provider RPS": in no stretch of time does a provider get more requests  *)
(* than its configured burst and rate admit, whatever the concurrent calls,    *)
(* repetitions, cooldowns and changes of the rate (retry_call_impl, acquire,   *)
(* set_rate), but for those of the check at the start, one to Attempts, which  *)
(* wait for no token (check_provider_connectivity) and come on top.            *)
QuotaKept == \A p \in Providers : Limited(p) => allowance[p] + One * opening[p] >= 0

(* A batch that was split, any number of times, returns the blocks that were   *)
(* asked for, in their order (get_blocks_and_receipts_batch); each block's     *)
(* transactions come with their own receipts by place, as run_range_hybrid     *)
(* takes them, and by index, as the explorer takes them, unless a transaction  *)
(* that was dropped stood before a standard one (decode_block_and_receipts).   *)
RowsAreTheBlocks ==
    \A t \in Tasks : LET x == task[t] IN
        x.op = "blocks" =>
            /\ [k \in DOMAIN x.rows |-> x.rows[k].number] = SubSeq(x.wanted, 1, Len(x.rows))
            /\ x.pc = "done" /\ x.ok => Len(x.rows) = Len(x.wanted)
            /\ \A row \in Range(x.rows) :
                  LET trailing == Standard(row.number) = 1 .. Cardinality(Standard(row.number)) IN
                  \A pair \in ByPlace(row) \cup (IF trailing THEN ByIndex(row) ELSE {}) :
                      pair[1].hash = pair[2].hash

(* Every operation ends: splitting and searching run out, a pass tries nobody  *)
(* twice, and tokens and cooldowns come (retry_call_impl,                      *)
(* get_blocks_and_receipts_batch, detect_state_horizon).                       *)
OperationsEnd == \A t \in Tasks : task[t].pc = "list" ~> task[t].pc = "done"
===============================================================================
