------------------------------ MODULE ExecSession ------------------------------
(* The executed ledger of a live session (src/core/src/exec/session.rs): after *)
(* every pass the whole list of opportunities is booked again, and those that  *)
(* no backend has answered yet are run, in revm or on an anvil fork. Answers   *)
(* are kept for the session. A revm fork lives for a pass; the anvil node      *)
(* lives for the session, and what the session believes of it is kept beside   *)
(* it.                                                                         *)
EXTENDS PaperLedger, FlashExecutor, SequencesExt

CONSTANTS
    Delivered,      \* the opportunities of each pass, a sequence of sets
    Chain,          \* block -> the pools after each of its transactions, first those before
    Deploys,        \* [limit, used]: the gas a deployment must be able to pay, and pays
    Executes,       \* the same of an execution
    Price,          \* block -> what a unit of gas costs in it
    MaxFaults       \* bound: failures of a backend

(* The pools the session knows, and the tokens a path goes through.           *)
Known == Chain[0][1]
LegTokens(o) ==
    LET t[i \in 0 .. Len(o.path)] == IF i = 0 THEN o.token ELSE TokenOut(Known[o.path[i]], t[i - 1])
    IN  t

ASSUME ExecAssumption ==
    /\ Delivered \in Seq(SUBSET Opps)
    /\ {Deploys.limit, Deploys.used, Executes.limit, Executes.used, MaxFaults} \subseteq Nat
    /\ Deploys.used <= Deploys.limit /\ Executes.used <= Executes.limit
    /\ \A o \in Opps : Price[o.block] \in Nat

(* A block has the same pools after each transaction, and they differ in what  *)
(* they hold alone. What is simulated and run are cycles.                      *)
ASSUME ChainAssumption ==
    /\ DOMAIN Chain \subseteq Nat /\ 0 \in DOMAIN Chain
    /\ \A b \in DOMAIN Chain :
          /\ Chain[b] \in Seq(Range(Chain[b])) /\ Chain[b] # <<>>
          /\ \A i \in DOMAIN Chain[b] :
                /\ DOMAIN Chain[b][i] = DOMAIN Known
                /\ \A a \in DOMAIN Known :
                      /\ PairOk(Chain[b][i][a])
                      /\ \A f \in {"t0", "t1", "fee", "charged", "kind"} :
                            Chain[b][i][a][f] = Known[a][f]
    /\ \A o \in Opps :
          /\ {o.block - 1, o.block} \subseteq DOMAIN Chain
          /\ Range(o.path) \subseteq DOMAIN Known
          /\ Simulatable(o) => LegTokens(o)[Len(o.path)] = o.token

VARIABLES
    mode,       \* --exec: "revm" or "anvil"
    pass,       \* passes delivered
    session,    \* session_opps
    ledger,     \* the ledger of the pass under way
    todo,       \* what it has still to consider, in order
    cache,      \* id -> the answer of a backend
    fork,       \* the fork the backend holds
    prepared,   \* anvil_block: the block the executor was deployed at, or NoBlock
    setupGas,
    faults,
    booked,     \* history: the ledger of the pass before
    last,       \* history: the latest execution
    sent,       \* history: id -> how often a backend was made to run it
    lost        \* history: id -> how often the answer to that was lost

vars == <<mode, pass, session, ledger, todo, cache, fork, prepared, setupGas, faults,
          booked, last, sent, lost>>

Ids == {o.id : o \in Opps}
NoBlock == -1
NoFork == [block |-> NoBlock, pending |-> FALSE, pools |-> <<>>, balance |-> 0,
           executor |-> FALSE, live |-> FALSE]
NoRun == [id |-> 0, ok |-> FALSE, pools |-> <<>>, gain |-> 0, forked |-> FALSE]

Init ==
    /\ mode \in {"revm", "anvil"}
    /\ pass = 0 /\ session = {} /\ todo = <<>>
    /\ ledger = NewLedger /\ booked = NewLedger
    /\ cache = <<>> /\ fork = NoFork /\ prepared = NoBlock /\ setupGas = 0 /\ faults = 0
    /\ last = NoRun /\ sent = [id \in Ids |-> 0] /\ lost = sent

-------------------------------------------------------------------------------
(* A pass begins with its opportunities, and with no revm fork.                *)
BeginPass ==
    /\ todo = <<>> /\ pass < Len(Delivered)
    /\ pass' = pass + 1
    /\ session' = session \union Delivered[pass + 1]
    /\ todo' = Ranked(session')
    /\ ledger' = NewLedger
    /\ booked' = ledger
    /\ fork' = IF mode = "revm" THEN NoFork ELSE fork
    /\ setupGas' = 0
    /\ UNCHANGED <<mode, cache, prepared, faults, last, sent, lost>>

-------------------------------------------------------------------------------
(* One opportunity.                                                            *)

DeployLimit(o) == Deploys.limit * Price[o.block]
DeployGas(o) == Deploys.used * Price[o.block]
ExecLimit(o) == Executes.limit * Price[o.block]
ExecGas(o) == Executes.used * Price[o.block]

Now == AtBlock(ledger, Head(todo).block)

Book(a) ==
    /\ ledger' = Executed(Now, Head(todo), a)
    /\ todo' = Tail(todo)

(* An answer is kept if the attempt reached the backend.                       *)
ReachedOk(a) == a.status
Reached(a) == a.hash \/ a.status \/ a.fail = "exec_revert"

Put(f, k, v) == [x \in DOMAIN f \union {k} |-> IF x = k THEN v ELSE f[x]]
Remember(o, a) ==
    cache' = IF Reached(a) THEN Put(cache, o.id, a) ELSE cache

GatedOut ==
    /\ todo # <<>> /\ ExecGate(Now, Head(todo)) # "open"
    /\ ledger' = Skipped(Now, Head(todo), ExecGate(Now, Head(todo)))
    /\ todo' = Tail(todo)
    /\ UNCHANGED <<mode, pass, session, cache, fork, prepared, setupGas, faults, booked,
                   last, sent, lost>>

Considering(o) ==
    /\ todo # <<>> /\ o = Head(todo) /\ ExecGate(Now, o) = "open"

FromCache ==
    \E o \in session :
        /\ Considering(o) /\ o.id \in DOMAIN cache
        /\ Book(cache[o.id])
        /\ UNCHANGED <<mode, pass, session, cache, fork, prepared, setupGas, faults, booked,
                       last, sent, lost>>

Running(o) == Considering(o) /\ o.id \notin DOMAIN cache

(* The plan: legs through pairs and V3 pools whose fee is known.               *)
Routable(p) == p.kind = "v2" \/ (p.kind = "v3" /\ p.fee > 0)
Plannable(o) ==
    /\ o.input > 0 /\ o.path # <<>>
    /\ \A i \in DOMAIN o.path :
          /\ Routable(Known[o.path[i]])
          /\ LegTokens(o)[i - 1] \in {Known[o.path[i]].t0, Known[o.path[i]].t1}
Plan(o) ==
    LET tokens == LegTokens(o)
    IN  [token |-> o.token, amount |-> o.input, minProfit |-> 1,
         legs |-> [i \in DOMAIN o.path |->
            [pool |-> o.path[i], in |-> tokens[i - 1], out |-> tokens[i],
             kind |-> Known[o.path[i]].kind, fee |-> Known[o.path[i]].fee]]]

Fault == faults < MaxFaults /\ faults' = faults + 1

(* The attempt comes to nothing before it is sent, and may be run again.       *)
BuildFails ==
    /\ Book(Failed("exec_build_failed"))
    /\ UNCHANGED <<mode, pass, session, cache, booked, last>>

(* What happens on the fork, and what the history notes of it.                 *)
Answer(o, a) ==
    /\ Book(a) /\ Remember(o, a)
    /\ sent' = [sent EXCEPT ![o.id] = @ + 1] /\ lost' = lost
Noted(o, r) ==
    [id |-> o.id, ok |-> r.ok, pools |-> fork.pools, gain |-> r.gain,
     forked |-> fork.executor /\ fork.block = o.block - (IF o.mempool THEN 1 ELSE 0)]
Mined(o, r) ==
    [fork EXCEPT !.pools = r.pools, !.balance = @ + r.gain - ExecGas(o)]

-------------------------------------------------------------------------------
(* revm: a fork per block, positioned after the transaction of the candidate   *)
(* that opens it, with the wallet as balance.                                  *)
ForkedAt(o) == fork.block = o.block - (IF o.mempool THEN 1 ELSE 0) /\ fork.pending = o.mempool
RevmState(o) ==
    IF o.mempool THEN Last(Chain[o.block - 1])
    ELSE Chain[o.block][Lesser(o.tx + 2, Len(Chain[o.block]))]

OpenRevm ==
    \E o \in session :
        /\ mode = "revm" /\ Running(o) /\ ~ForkedAt(o)
        /\ Now.wallet >= DeployLimit(o)
        /\ fork' = [block |-> o.block - (IF o.mempool THEN 1 ELSE 0), pending |-> o.mempool,
                    pools |-> RevmState(o), balance |-> Now.wallet - DeployGas(o),
                    executor |-> TRUE, live |-> TRUE]
        /\ setupGas' = setupGas + DeployGas(o)
        /\ UNCHANGED <<mode, pass, session, ledger, todo, cache, prepared, faults, booked,
                       last, sent, lost>>

OpenRevmFails ==
    \E o \in session :
        /\ mode = "revm" /\ Running(o) /\ ~ForkedAt(o)
        /\ IF Now.wallet >= DeployLimit(o) THEN Fault ELSE UNCHANGED faults
        /\ BuildFails /\ UNCHANGED <<fork, prepared, setupGas, sent, lost>>

(* A transaction whose limit the balance cannot pay is not valid, and reported *)
(* as one that used it up. The database goes with a transaction that fails.    *)
RunRevm ==
    \E o \in session :
        /\ mode = "revm" /\ Running(o) /\ ForkedAt(o) /\ Plannable(o) /\ fork.live
        /\ LET r == Execute(fork.pools, Plan(o), Native)
           IN  IF fork.balance < ExecLimit(o)
               THEN /\ Answer(o, Ran(FALSE, 0, ExecLimit(o))) /\ UNCHANGED <<fork, last>>
               ELSE /\ Answer(o, Ran(r.ok, r.gain - ExecGas(o), ExecGas(o)))
                    /\ fork' = Mined(o, r) /\ last' = Noted(o, r)
        /\ UNCHANGED <<mode, pass, session, prepared, setupGas, faults, booked>>

RunRevmFails ==
    \E o \in session :
        /\ mode = "revm" /\ Running(o) /\ ForkedAt(o)
        /\ IF Plannable(o) /\ fork.live
           THEN Fault /\ fork' = [fork EXCEPT !.live = FALSE]
           ELSE UNCHANGED <<faults, fork>>
        /\ BuildFails /\ UNCHANGED <<prepared, setupGas, sent, lost>>

-------------------------------------------------------------------------------
(* anvil: the node is reset to the block and the executor deployed on it.      *)
ForkBlock(o) == o.block - (IF o.mempool THEN 1 ELSE 0)

Unplannable ==
    \E o \in session :
        /\ mode = "anvil" /\ Running(o) /\ ~Plannable(o)
        /\ BuildFails /\ UNCHANGED <<fork, prepared, setupGas, faults, sent, lost>>

ResetNode(o, gas, code) ==
    fork' = [block |-> ForkBlock(o), pending |-> o.mempool, pools |-> Last(Chain[ForkBlock(o)]),
             balance |-> Now.wallet - gas, executor |-> code, live |-> TRUE]

PrepareAnvil ==
    \E o \in session :
        /\ mode = "anvil" /\ Running(o) /\ Plannable(o) /\ prepared # ForkBlock(o)
        /\ Now.wallet >= DeployLimit(o)
        /\ ResetNode(o, DeployGas(o), TRUE)
        /\ prepared' = ForkBlock(o) /\ setupGas' = setupGas + DeployGas(o)
        /\ UNCHANGED <<mode, pass, session, ledger, todo, cache, faults, booked, last,
                       sent, lost>>

(* The reset may have been done when what follows it fails, and so may the     *)
(* deployment when its receipt does not come: its code may or may not be at    *)
(* the address the session remembers.                                          *)
PrepareAnvilFails ==
    \E o \in session :
        /\ mode = "anvil" /\ Running(o) /\ Plannable(o) /\ prepared # ForkBlock(o)
        /\ \/ Now.wallet >= DeployLimit(o) /\ Fault /\ UNCHANGED fork
           \/ Now.wallet >= DeployLimit(o) /\ Fault /\ ResetNode(o, 0, FALSE)
           \/ /\ Now.wallet >= DeployLimit(o) /\ Fault
              /\ \E code \in BOOLEAN : ResetNode(o, DeployGas(o), code)
           \/ Now.wallet < DeployLimit(o) /\ ResetNode(o, 0, FALSE) /\ UNCHANGED faults
        /\ BuildFails /\ UNCHANGED <<prepared, setupGas, sent, lost>>

(* A call to an address without code succeeds and does nothing.                *)
Called(o) ==
    IF fork.executor THEN Execute(fork.pools, Plan(o), Native)
    ELSE [ok |-> TRUE, pools |-> fork.pools, gain |-> 0]

(* What was earned is the difference of two balances; if the second cannot be  *)
(* read it is zero.                                                            *)
SendAnvil ==
    \E o \in session :
        /\ mode = "anvil" /\ Running(o) /\ Plannable(o) /\ prepared = ForkBlock(o)
        /\ fork.balance >= ExecLimit(o)
        /\ LET r == Called(o)
           IN  /\ \/ Answer(o, Ran(r.ok, r.gain - ExecGas(o), ExecGas(o))) /\ UNCHANGED faults
                  \/ Answer(o, Ran(r.ok, 0, ExecGas(o))) /\ Fault
               /\ fork' = Mined(o, r) /\ last' = Noted(o, r)
        /\ UNCHANGED <<mode, pass, session, prepared, setupGas, booked>>

(* No receipt came in time: the transaction may have been mined or not.        *)
ReceiptFails ==
    \E o \in session :
        /\ mode = "anvil" /\ Running(o) /\ Plannable(o) /\ prepared = ForkBlock(o)
        /\ fork.balance >= ExecLimit(o) /\ Fault
        /\ Answer(o, Unanswered)
        /\ fork' \in {fork, Mined(o, Called(o))}
        /\ UNCHANGED <<mode, pass, session, prepared, setupGas, booked, last>>

(* Nothing is sent, or the node takes the transaction and mines it and its     *)
(* answer is lost: either way nothing is kept, and a later pass sends it anew. *)
SendAnvilFails ==
    \E o \in session :
        /\ mode = "anvil" /\ Running(o) /\ Plannable(o) /\ prepared = ForkBlock(o)
        /\ \/ fork.balance < ExecLimit(o) /\ UNCHANGED <<faults, fork, sent, lost>>
           \/ fork.balance >= ExecLimit(o) /\ Fault /\ UNCHANGED <<fork, sent, lost>>
           \/ /\ fork.balance >= ExecLimit(o) /\ Fault
              /\ fork' = Mined(o, Called(o))
              /\ sent' = [sent EXCEPT ![o.id] = @ + 1]
              /\ lost' = [lost EXCEPT ![o.id] = @ + 1]
        /\ BuildFails /\ UNCHANGED <<prepared, setupGas>>

Next ==
    \/ BeginPass \/ GatedOut \/ FromCache
    \/ OpenRevm \/ OpenRevmFails \/ RunRevm \/ RunRevmFails
    \/ Unplannable \/ PrepareAnvil \/ PrepareAnvilFails
    \/ SendAnvil \/ ReceiptFails \/ SendAnvilFails

Spec == Init /\ [][Next]_vars

-------------------------------------------------------------------------------
(* Properties.                                                                 *)

(* The totals of a ledger account for its wallet: what was earned less what    *)
(* reverts and losing runs cost, save what a wallet that was emptied could not *)
(* pay. The drawdown is at least the distance to the peak, and the whole start *)
(* if the wallet was ever emptied.                                             *)
Balance(l) == Starting + l.net - l.revertGas - l.loss
Accounted(l) ==
    /\ l.wallet >= Balance(l)
    /\ l.drawdown < Starting => l.wallet = Balance(l)
    /\ l.peak >= l.wallet /\ l.peak - l.wallet <= l.drawdown

(* What the ledger quotes a candidate at over the pools of the fork is what    *)
(* the contract earns on them, and the contract reverts where the quote would  *)
(* not repay: when the fee the pool is believed to charge is the one it does.  *)
TrueFees(o, pools) == \A a \in Range(o.path) : pools[a].fee = pools[a].charged
QuoteIsExecuted ==
    \A o \in session :
        (last.id = o.id /\ last.forked /\ o.token = Native /\ TrueFees(o, last.pools)) =>
            LET w == WalkQuotePost(last.pools, o.path, o.token, o.input)
            IN  /\ last.ok <=> (w.ok /\ w.amount > o.input)
                /\ last.ok => last.gain = w.amount - o.input

(* Once a pass is booked, all three modes (the assumed, the simulated and the  *)
(* executed ledger) have booked or skipped each opportunity of the session     *)
(* once and account for their wallets; the assumed one has filled no pool      *)
(* twice in a block; and a simulated fill that no backend ran is neither       *)
(* confirmed nor contradicted.                                                 *)
Entries(l) == [i \in DOMAIN l.fills |-> l.fills[i].id] \o [i \in DOMAIN l.skips |-> l.skips[i].id]
FillPools(l, i) == Range((CHOOSE o \in session : o.id = l.fills[i].id).path)
ModesSettle ==
    todo = <<>> =>
        LET assumed == Apply(session)
            simulated == ApplySimulated(session)
            verdict == Reconcile(simulated, ledger)
        IN  /\ \A l \in {ledger, assumed, simulated} :
                  /\ Accounted(l)
                  /\ Len(Entries(l)) = Cardinality(session)
                  /\ Range(Entries(l)) = {o.id : o \in session}
            /\ \A i, j \in DOMAIN assumed.fills :
                  (i # j /\ assumed.fills[i].block = assumed.fills[j].block) =>
                      FillPools(assumed, i) \intersect FillPools(assumed, j) = {}
            /\ verdict.pass + verdict.fail <=
                  Cardinality({f.id : f \in Range(simulated.fills)} \intersect DOMAIN cache)

(* An opportunity that a backend was made to run is not sent again, whatever   *)
(* the passes, forks and failures that follow, unless its answer was lost, and *)
(* the answer stands: a pass that brings nothing new books what the pass       *)
(* before it booked, and runs nothing again on a fork that has moved on        *)
(* (execute_ledger), unless that pass left out a candidate that could have     *)
(* been sent.                                                                  *)
LeftOut(l) ==
    {o \in session : /\ Plannable(o)
                     /\ \E i \in DOMAIN l.skips :
                            l.skips[i] = [id |-> o.id, why |-> "exec_build_failed"]}
AnswersStand ==
    /\ \A id \in Ids : sent[id] <= lost[id] + 1
    /\ (todo = <<>> /\ pass > 0 /\ Delivered[pass] = {} /\ LeftOut(booked) = {}) =>
          ledger = booked
===============================================================================
