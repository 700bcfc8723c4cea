------------------------------ MODULE LiveSession ------------------------------
(* The live job (src/core/src/jobs/live.rs) over the fetcher: a session reads  *)
(* the tip, initialises the pools, and then either makes one pass over the     *)
(* last Width blocks or follows the tip, one pass per poll over the blocks     *)
(* that are new. A pass fetches its range, retries the gaps once, scans the    *)
(* cached blocks, records what it found, and folds it into the session's       *)
(* ledger, of which one row is written at the end.                             *)
(*                                                                             *)
(* A block that is scanned has an opportunity or none; opportunities are named *)
(* by their block. The result of executing the ledger is not part of it: with  *)
(* Exec it may fail.                                                           *)
EXTENDS Fetcher

CONSTANTS
    Width,              \* single_pass_blocks
    FailCap,            \* MAX_CONSECUTIVE_FAILURES
    MaxBlocks,          \* --max-blocks, 0 without
    Exec                \* --exec: the ledger is executed, which may fail

ASSUME SessionAssumption ==
    {Width, FailCap} \subseteq Nat \ {0} /\ MaxBlocks \in Nat /\ Exec \in BOOLEAN

VARIABLES
    head,       \* the chain's head
    pc,         \* where the session is
    loop,       \* --loop
    tracked,    \* the cache lists discovered pools
    tip,        \* the tip read during setup
    last,       \* last_block
    from,       \* range of the pass under way: from..target
    target,
    failures,   \* consecutive_failures
    scanAt,     \* next block of the range to scan
    found,      \* opportunities of the pass
    applied,    \* the blocks applied to the pool state, in order
    span,       \* scanned_span
    sessionOpps,
    recorded,   \* opportunities in the store
    row,        \* the paper session written, or NoRow
    processed,  \* blocks_processed
    expired,    \* the deadline has passed
    passed      \* history: blocks of completed passes

sessionVars == <<pc, loop, tracked, tip, last, from, target, failures, scanAt, found,
                 applied, span, sessionOpps, recorded, row, processed, passed>>
envVars == <<head, cancelled, expired>>
vars == <<fetchVars, sessionVars, envVars>>

NoSpan == <<>>
NoRow == [span |-> NoSpan, opps |-> {-1}]
Ended == {"ended", "failed"}

Init ==
    /\ FetcherInit
    /\ head = 1 /\ pc = "setup"
    /\ loop \in BOOLEAN /\ tracked \in BOOLEAN
    /\ tip = 0 /\ last = 0 /\ from = 0 /\ target = 0 /\ failures = 0 /\ scanAt = 0
    /\ found = {} /\ applied = <<>> /\ span = NoSpan /\ sessionOpps = {} /\ recorded = {}
    /\ row = NoRow /\ processed = 0 /\ expired = FALSE /\ passed = {}

(* The chain, the user and the clock.                                          *)
Mine ==
    /\ head < LastBlock /\ head' = head + 1
    /\ UNCHANGED <<fetchVars, sessionVars, cancelled, expired>>
Cancel ==
    /\ cancelled' = TRUE
    /\ UNCHANGED <<fetchVars, sessionVars, head, expired>>
Expire ==
    /\ loop /\ expired' = TRUE
    /\ UNCHANGED <<fetchVars, sessionVars, head, cancelled>>

-------------------------------------------------------------------------------
(* Setup: the tip is read, then the pools are initialised at the latest block. *)
Setup ==
    /\ pc = "setup"
    /\ \/ /\ tip' = head /\ last' = head
          /\ pc' = IF loop THEN "sleep" ELSE "once"
          /\ UNCHANGED faults
       \/ /\ Fault /\ pc' = "failed" /\ UNCHANGED <<tip, last>>
    /\ UNCHANGED <<fetch, wanted, runs, buffer, cached, missing, scan, answered, lostWrite,
                   loop, tracked, from, target, failures, scanAt, found, applied, span,
                   sessionOpps, recorded, row, processed, passed, envVars>>

ShouldStop == cancelled \/ expired \/ (MaxBlocks > 0 /\ processed >= MaxBlocks)

Wake ==
    /\ pc = "sleep"
    /\ pc' = IF ShouldStop THEN "closing" ELSE "poll"
    /\ UNCHANGED <<fetchVars, loop, tracked, tip, last, from, target, failures, scanAt,
                   found, applied, span, sessionOpps, recorded, row, processed, passed,
                   envVars>>

BeginPass(lo, hi) ==
    /\ from' = lo /\ target' = hi
    /\ pc' = "fetch"
    /\ found' = {} /\ scanAt' = lo
    /\ IF tracked THEN FetchRelevant(lo, hi) ELSE FetchRange(lo, hi)

(* A failure of a poll, a fetch or a scan counts towards the cap.              *)
CountFailure ==
    /\ failures' = failures + 1
    /\ pc' = IF failures + 1 >= FailCap THEN "failed" ELSE "sleep"

NewRangeOfTwo(lo, hi) ==
    IF lo >= hi
    THEN pc' = "sleep" /\ UNCHANGED <<fetchVars, from, target, scanAt, found>>
    ELSE BeginPass(lo, hi)
NewRange(lo, hi) ==
    IF lo > hi
    THEN pc' = "sleep" /\ UNCHANGED <<fetchVars, from, target, scanAt, found>>
    ELSE BeginPass(lo, hi)

NextFromLast == last
NextFrom == last + 1

PollTip ==
    /\ pc = "poll"
    /\ NewRange(NextFrom, head)
    /\ UNCHANGED <<loop, tracked, tip, last, failures, applied, span, sessionOpps, recorded,
                   row, processed, passed, envVars>>

PollFails ==
    /\ pc = "poll" /\ Fault
    /\ CountFailure
    /\ UNCHANGED <<fetch, wanted, runs, buffer, cached, missing, scan, answered, lostWrite,
                   loop, tracked, tip, last, from, target, scanAt, found, applied, span,
                   sessionOpps, recorded, row, processed, passed, envVars>>

(* One pass: the tip is read again, and the setup's is used if that fails.     *)
RunOnce ==
    /\ pc = "once"
    /\ \E t \in {head, tip} : BeginPass(AtLeast(t - (Width - 1), 0), t)
    /\ UNCHANGED <<loop, tracked, tip, last, failures, applied, span, sessionOpps, recorded,
                   row, processed, passed, envVars>>

-------------------------------------------------------------------------------
(* A pass.                                                                     *)

FetchStep ==
    /\ pc = "fetch"
    /\ Fetching \/ StartRefetch
    /\ UNCHANGED <<sessionVars, envVars>>

Fetched ==
    /\ pc = "fetch" /\ fetch = "done" /\ missing = {}
    /\ pc' = "scan"
    /\ UNCHANGED <<fetchVars, loop, tracked, tip, last, from, target, failures, scanAt,
                   found, applied, span, sessionOpps, recorded, row, processed, passed,
                   envVars>>

PassFails ==
    IF loop THEN CountFailure ELSE pc' = "failed" /\ UNCHANGED failures

FetchFails ==
    /\ pc = "fetch" /\ fetch = "failed"
    /\ PassFails
    /\ UNCHANGED <<fetchVars, loop, tracked, tip, last, from, target, scanAt, found,
                   applied, span, sessionOpps, recorded, row, processed, passed, envVars>>

(* A block that is not in the cache is passed over without asking the progress *)
(* callback; after any other a cancelled scan drops what the pass has found.   *)
ScanBlock ==
    /\ pc = "scan" /\ scanAt <= target
    /\ scanAt' = scanAt + 1
    /\ IF scanAt \notin cached
       THEN UNCHANGED <<pc, failures, found, applied>>
       ELSE /\ applied' = Append(applied, scanAt)
            /\ \E opps \in {{}, {scanAt}} : found' = found \union opps
            /\ IF cancelled THEN PassFails ELSE UNCHANGED <<pc, failures>>
    /\ UNCHANGED <<fetchVars, loop, tracked, tip, last, from, target, span, sessionOpps,
                   recorded, row, processed, passed, envVars>>

WidenSpan(lo, hi) ==
    IF span = NoSpan THEN <<lo, hi>> ELSE <<AtMost(span[1], lo), AtLeast(span[2], hi)>>

(* The results of a pass are recorded, or the error is only logged.            *)
PersistResults ==
    /\ pc = "scan" /\ scanAt > target
    /\ span' = WidenSpan(from, target)
    /\ \/ recorded' = recorded \union found /\ UNCHANGED faults
       \/ Fault /\ UNCHANGED recorded
    /\ pc' = "ledger"
    /\ UNCHANGED <<fetch, wanted, runs, buffer, cached, missing, scan, answered, lostWrite,
                   loop, tracked, tip, last, from, target, failures, scanAt, found, applied,
                   sessionOpps, row, processed, passed, envVars>>

ExecFails ==
    /\ Exec /\ pc \in {"ledger", "closing"} /\ Fault
    /\ sessionOpps' = sessionOpps \union (IF pc = "ledger" THEN found ELSE {})
    /\ pc' = "failed"
    /\ UNCHANGED <<fetch, wanted, runs, buffer, cached, missing, scan, answered, lostWrite,
                   loop, tracked, tip, last, from, target, failures, scanAt, found, applied,
                   span, recorded, row, processed, passed, envVars>>

WriteRow(opps) ==
    \/ row' = [span |-> span, opps |-> opps] /\ UNCHANGED faults
    \/ Fault /\ UNCHANGED row

(* The ledger is applied to every opportunity of the session so far.           *)
UpdateLedger ==
    /\ pc = "ledger"
    /\ sessionOpps' = sessionOpps \union found
    /\ passed' = passed \union from..target
    /\ IF loop
       THEN /\ last' = target /\ processed' = processed + (target - from + 1)
            /\ failures' = 0 /\ pc' = "sleep"
            /\ UNCHANGED <<row, faults>>
       ELSE /\ WriteRow(sessionOpps')
            /\ pc' = "ended"
            /\ UNCHANGED <<last, processed, failures>>
    /\ UNCHANGED <<fetch, wanted, runs, buffer, cached, missing, scan, answered, lostWrite,
                   loop, tracked, tip, from, target, scanAt, found, applied, span, recorded,
                   envVars>>

Close ==
    /\ pc = "closing"
    /\ WriteRow(sessionOpps)
    /\ pc' = "ended"
    /\ UNCHANGED <<fetch, wanted, runs, buffer, cached, missing, scan, answered, lostWrite,
                   loop, tracked, tip, last, from, target, failures, scanAt, found, applied,
                   span, sessionOpps, recorded, processed, passed, envVars>>

Session ==
    \/ Setup \/ Wake \/ PollTip \/ PollFails \/ RunOnce
    \/ FetchStep \/ Fetched \/ FetchFails
    \/ ScanBlock \/ PersistResults \/ ExecFails \/ UpdateLedger \/ Close

Next == Session \/ Mine \/ Cancel \/ Expire

Spec == Init /\ [][Next]_vars /\ WF_vars(Session)

-------------------------------------------------------------------------------
(* What a session did and what it says it did are the same: a range that is    *)
(* retried, after a failed fetch or in a later poll with a higher tip, is not  *)
(* applied to the pools a second time nor out of order, and the span that the  *)
(* manifest and the session row carry is that of the completed passes, without *)
(* a hole between two of them and without the tip only observed at startup.    *)
SpanIsApplied ==
    /\ \A i, j \in DOMAIN applied : i < j => applied[i] < applied[j]
    /\ pc \notin {"ledger", "failed"} =>
           passed = IF span = NoSpan THEN {} ELSE span[1]..span[2]

(* A cancelled session ends, wherever it was when it was cancelled, and so     *)
(* does one whose deadline has passed.                                         *)
StopEndsSession == (cancelled \/ expired) ~> pc \in Ended

(* With fewer failures than the cap, the session gets to every block: the head *)
(* of any moment is scanned unless the session is stopped or has reached its   *)
(* limit.                                                                      *)
TipIsReached ==
    \A b \in Blocks : (loop /\ pc = "sleep" /\ head >= b) ~> (last >= b \/ ShouldStop \/ pc \in Ended)

(* Both: between a stop and the tip, a session does not stand still            *)
(* (run_live_loop).                                                            *)
SessionProgresses == StopEndsSession /\ TipIsReached

===============================================================================
