---------------------------- MODULE LiveSessionProofs ----------------------------
(***************************************************************************)
(* Theorems about LiveSession and the fetcher under it, for every chain,   *)
(* set of providers, batching, buffer, and choice of the session's limits. *)
(***************************************************************************)
EXTENDS LiveSession, FiniteSetTheorems, WellFoundedInduction, TLAPS

(* A nonempty set of integers below a bound has a greatest element.        *)
LEMMA GreatestExists ==
  ASSUME NEW s, s \subseteq Int, s # {}, NEW top \in Int, \A e \in s : e <= top
  PROVE  \E e \in s : \A f \in s : f <= e
<1> DEFINE gaps == {n \in Nat : \E e \in s : n = top - e}
<1>1. gaps \subseteq Nat /\ gaps # {}
  <2> PICK e \in s : TRUE
    OBVIOUS
  <2>1. top - e \in Nat
    OBVIOUS
  <2> QED
    BY <2>1
<1> HIDE DEF gaps
<1>2. PICK n \in gaps : \A m \in gaps : ~ (<<m, n>> \in OpToRel(<, Nat))
  BY <1>1, NatLessThanWellFounded, WFMin
<1>3. \A m \in gaps : ~ (m < n)
  BY <1>1, <1>2 DEF OpToRel
<1>4. PICK e \in s : n = top - e
  BY DEF gaps
<1>5. \A f \in s : top - f \in gaps
  BY DEF gaps
<1>6. \A f \in s : f <= e
  BY <1>3, <1>4, <1>5
<1> QED
  BY <1>6

(* The run that starts at b in a set of blocks below a bound has an end.   *)
LEMMA EndOfRun ==
  ASSUME NEW s, s \subseteq Int, NEW b \in s, NEW top \in Int, \A e \in s : e <= top
  PROVE  EndOf(b, s) \in s /\ b..EndOf(b, s) \subseteq s /\ EndOf(b, s) >= b
<1> DEFINE ends == {e \in s : b..e \subseteq s /\ e >= b}
<1>1. b \in ends
  OBVIOUS
<1>2. PICK e \in ends : \A f \in ends : f <= e
  <2>1. ends \subseteq Int /\ ends # {} /\ \A f \in ends : f <= top
    BY <1>1
  <2> HIDE DEF ends
  <2> QED
    BY <2>1, GreatestExists
<1>3. e + 1 \notin s
  <2> SUFFICES ASSUME e + 1 \in s PROVE FALSE
    OBVIOUS
  <2>1. b..(e + 1) \subseteq s
    OBVIOUS
  <2>2. e + 1 \in ends
    BY <2>1
  <2> QED
    BY <1>2, <2>2
<1> QED
  BY <1>2, <1>3 DEF EndOf

(***************************************************************************)
(* The fetcher: what was answered is in the cache or still in the buffer.  *)
(***************************************************************************)
Run == [lo : Int, hi : Int, cursor : Int, tasks : SUBSET (Int \X Int),
        state : {"waiting", "running", "ended"}]

FetchTyped ==
    /\ fetch \in {"off", "runs", "refetch", "done", "failed"}
    /\ IsFiniteSet(buffer)
    /\ wanted \subseteq Int /\ missing \subseteq Int
    /\ runs \in [DOMAIN runs -> Run]
    /\ lostWrite \in BOOLEAN

Buffered ==
    fetch \in {"runs", "refetch"} /\ ~lostWrite => answered \subseteq cached \union buffer

FetchInv == FetchTyped /\ Buffered /\ AnsweredIsCached

(* Pushing blocks onto a buffer loses none of them unless the write fails. *)
LEMMA WriteLosesNothing ==
  ASSUME NEW lo \in Int, NEW hi \in Int, NEW faulty \in BOOLEAN, IsFiniteSet(buffer)
  PROVE  LET w == WriteBlockData(lo, hi, faulty) IN
         /\ IsFiniteSet(w.buffer) /\ w.failed \in BOOLEAN
         /\ cached \subseteq w.cached
         /\ ~w.failed => cached \union buffer \union lo..hi \subseteq w.cached \union w.buffer
<1> DEFINE lastFlushed == hi - ((hi - Fills(lo)) % BufferLimit)
<1>1. Fills(lo) \in Int
  BY FS_CardinalityType, FetcherAssumption DEF Fills, FetcherAssumption
<1>2. lastFlushed \in Int
  BY <1>1, FetcherAssumption DEF FetcherAssumption
<1>3. lo..hi \subseteq lo..lastFlushed \union (lastFlushed + 1)..hi
  BY <1>2
<1> HIDE DEF lastFlushed
<1>4. IsFiniteSet(buffer \union lo..hi) /\ IsFiniteSet((lastFlushed + 1)..hi) /\ IsFiniteSet({})
  <2>1. IsFiniteSet(lo..hi) /\ IsFiniteSet((lastFlushed + 1)..hi)
    BY <1>2, FS_Interval
  <2> QED
    BY <2>1, FS_Union, FS_EmptySet
<1>5. WriteBlockData(lo, hi, faulty) =
        IF hi < Fills(lo)
        THEN [buffer |-> buffer \union lo..hi, cached |-> cached, failed |-> FALSE]
        ELSE IF faulty
        THEN [buffer |-> {}, cached |-> cached, failed |-> TRUE]
        ELSE [buffer |-> (lastFlushed + 1)..hi,
              cached |-> cached \union buffer \union lo..lastFlushed, failed |-> FALSE]
  BY DEF WriteBlockData, lastFlushed
<1> QED
  BY <1>3, <1>4, <1>5

(* A fetch starts with well-formed runs and with nothing answered.         *)
LEMMA FetchStarts ==
  ASSUME NEW blocks, NEW shards, NEW lo \in Int, NEW hi \in Int, blocks \subseteq lo..hi,
         StartFetch(blocks, shards)
  PROVE  FetchInv'
<1>1. ASSUME NEW i \in DOMAIN shards, NEW r \in ContiguousRanges(blocks \intersect shards[i])
      PROVE  r[1] \in Int /\ r[2] \in Int
  <2> DEFINE s == blocks \intersect shards[i]
  <2>1. s \subseteq Int /\ \A e \in s : e <= hi
    <3>1. \A e \in blocks : e \in Int /\ e <= hi
      OBVIOUS
    <3> QED
      BY <3>1
  <2>2. PICK b \in s : r = <<b, EndOf(b, s)>>
    BY DEF ContiguousRanges
  <2> HIDE DEF s
  <2>3. EndOf(b, s) \in s
    BY <2>1, EndOfRun
  <2> QED
    BY <2>1, <2>2, <2>3
<1>2. \A r \in DOMAIN RunsOf(blocks, shards) : NewRun(r) \in Run
  BY <1>1 DEF RunsOf, NewRun, Run
<1>3. RunsOf(blocks, shards) \in [DOMAIN RunsOf(blocks, shards) -> Run]
  BY <1>2 DEF RunsOf
<1>4. wanted' \subseteq Int /\ missing' = {} /\ answered' = {} /\ lostWrite' = FALSE
      /\ buffer' = {} /\ fetch' \in {"runs", "done"} /\ runs' = RunsOf(blocks, shards)
  BY DEF StartFetch
<1>5. IsFiniteSet(buffer')
  BY <1>4, FS_EmptySet
<1>6. runs' \in [DOMAIN runs' -> Run]
  BY <1>3, <1>4
<1> QED
  BY <1>4, <1>5, <1>6 DEF FetchInv, FetchTyped, Buffered, AnsweredIsCached


(* A request covers integers, and what it is cut from is of the type.      *)
LEMMA RequestTyped ==
  ASSUME FetchTyped, NEW i \in DOMAIN runs
  PROVE  /\ runs[i] \in Run
         /\ ChunkLen(runs[i]) \in Int
         /\ AtMost(runs[i].cursor + ChunkLen(runs[i]) - 1, runs[i].hi) \in Int
<1>1. runs[i] \in Run
  BY DEF FetchTyped
<1>2. Cap(runs[i]) \in Int
  BY <1>1, FetcherAssumption DEF Cap, AtMost, Run, FetcherAssumption
<1>3. ChunkLen(runs[i]) \in Int
  BY <1>2, FetcherAssumption DEF ChunkLen, AtMost, FetcherAssumption
<1> QED
  BY <1>1, <1>3 DEF AtMost, Run

(* Every step of the fetcher preserves FetchInv.                           *)
LEMMA FetchSteps ==
  ASSUME FetchInv, Fetching \/ StartRefetch
  PROVE  FetchInv'
<1> USE DEF FetchInv, Buffered, AnsweredIsCached
<1>1. ASSUME NEW i \in DOMAIN runs, AcquirePermit(i) \/ RunEnds(i)
      PROVE  FetchInv'
  <2>1. runs[i] \in Run
    BY DEF FetchTyped
  <2>2. runs' \in [DOMAIN runs' -> Run]
    BY <1>1, <2>1 DEF AcquirePermit, RunEnds, FetchTyped, Run
  <2> QED
    BY <1>1, <2>2 DEF AcquirePermit, RunEnds, FetchTyped
<1>2. ASSUME NEW i \in DOMAIN runs, Post(i)
      PROVE  FetchInv'
  <2> DEFINE hi == AtMost(runs[i].cursor + ChunkLen(runs[i]) - 1, runs[i].hi)
  <2>1. runs[i] \in Run /\ hi \in Int
    BY RequestTyped
  <2> HIDE DEF hi
  <2>2. runs' = [runs EXCEPT ![i].cursor = hi + 1, ![i].tasks = @ \union {<<runs[i].cursor, hi>>}]
    BY <1>2 DEF Post, hi
  <2>3. runs' \in [DOMAIN runs' -> Run]
    BY <2>1, <2>2 DEF FetchTyped, Run
  <2> QED
    BY <1>2, <2>3 DEF Post, FetchTyped
<1>3. ASSUME NEW i \in DOMAIN runs, NEW t \in runs[i].tasks, Refused(i, t)
      PROVE  FetchInv'
  <2>1. runs[i] \in Run
    BY DEF FetchTyped
  <2>2. runs' \in [DOMAIN runs' -> Run]
    BY <1>3, <2>1 DEF Refused, FetchTyped, Run
  <2> QED
    BY <1>3, <2>2 DEF Refused, FetchTyped
<1>4. ASSUME NEW i \in DOMAIN runs, NEW t \in runs[i].tasks, NEW faulty \in BOOLEAN,
             Answered(i, t, faulty)
      PROVE  FetchInv'
  <2> DEFINE w == WriteBlockData(t[1], t[2], faulty)
  <2>1. runs[i] \in Run
    BY DEF FetchTyped
  <2>2. t[1] \in Int /\ t[2] \in Int
    BY <2>1 DEF Run
  <2>3. /\ IsFiniteSet(w.buffer) /\ w.failed \in BOOLEAN
        /\ cached \subseteq w.cached
        /\ ~w.failed => cached \union buffer \union t[1]..t[2] \subseteq w.cached \union w.buffer
    BY <2>2, WriteLosesNothing DEF FetchTyped
  <2> HIDE DEF w
  <2>4. /\ fetch = "runs" /\ fetch' \in {"runs", "failed"}
        /\ buffer' = w.buffer /\ cached' = w.cached
        /\ lostWrite' = (lostWrite \/ w.failed)
        /\ runs' = [runs EXCEPT ![i].tasks = @ \ {t}]
        /\ answered' = answered \union t[1]..t[2]
        /\ UNCHANGED <<wanted, missing>>
    BY <1>4 DEF Answered, Reaping, w
  <2>5. runs' \in [DOMAIN runs' -> Run]
    BY <2>1, <2>4 DEF FetchTyped, Run
  <2>6. ~lostWrite' => answered' \subseteq cached' \union buffer'
    BY <2>3, <2>4 DEF FetchTyped
  <2> QED
    BY <2>3, <2>4, <2>5, <2>6 DEF FetchTyped
<1>5. CASE EndRuns
  <2>1. IsFiniteSet(buffer')
    BY <1>5, FS_EmptySet DEF EndRuns
  <2>2. UNCHANGED <<wanted, runs, answered>> /\ fetch = "runs" /\ buffer' = {}
    BY <1>5 DEF EndRuns
  <2>3. CASE fetch' = "done" /\ cached' = cached \union buffer /\ missing' = wanted \ cached'
             /\ lostWrite' = lostWrite
    BY <2>1, <2>2, <2>3 DEF FetchTyped
  <2>4. CASE fetch' = "failed" /\ lostWrite' = TRUE /\ missing' = missing
    BY <2>1, <2>2, <2>4 DEF FetchTyped
  <2> QED
    BY <1>5, <2>3, <2>4 DEF EndRuns
<1>6. ASSUME NEW b \in missing, RefetchRefused(b)
      PROVE  FetchInv'
  BY <1>6 DEF RefetchRefused, FetchTyped
<1>7. ASSUME NEW b \in missing, NEW faulty \in BOOLEAN, Refetched(b, faulty)
      PROVE  FetchInv'
  <2> DEFINE w == WriteBlockData(b, b, faulty)
  <2>1. b \in Int
    BY DEF FetchTyped
  <2>2. /\ IsFiniteSet(w.buffer) /\ w.failed \in BOOLEAN
        /\ cached \subseteq w.cached
        /\ ~w.failed => cached \union buffer \union b..b \subseteq w.cached \union w.buffer
    BY <2>1, WriteLosesNothing DEF FetchTyped
  <2> HIDE DEF w
  <2>3. /\ fetch = "refetch" /\ fetch' \in {"refetch", "failed"}
        /\ buffer' = w.buffer /\ cached' = w.cached
        /\ lostWrite' = (lostWrite \/ w.failed)
        /\ missing' = missing \ {b}
        /\ answered' = answered \union {b}
        /\ UNCHANGED <<wanted, runs>>
    BY <1>7 DEF Refetched, w
  <2>4. b \in b..b
    BY <2>1
  <2>5. ~lostWrite' => answered' \subseteq cached' \union buffer'
    BY <2>2, <2>3, <2>4 DEF FetchTyped
  <2> QED
    BY <2>2, <2>3, <2>5 DEF FetchTyped
<1>8. CASE EndRefetch
  <2>1. IsFiniteSet(buffer')
    BY <1>8, FS_EmptySet DEF EndRefetch
  <2> QED
    BY <1>8, <2>1 DEF EndRefetch, FetchTyped
<1>9. CASE StartRefetch
  BY <1>9 DEF StartRefetch, FetchTyped
<1> QED
  BY <1>1, <1>2, <1>3, <1>4, <1>5, <1>6, <1>7, <1>8, <1>9 DEF Fetching


(***************************************************************************)
(* The session: what each point of a pass knows of the span.               *)
(***************************************************************************)
SessionTyped ==
    /\ {head, tip} \subseteq Nat
    /\ {last, from, target, scanAt} \subseteq Int
    /\ applied \in Seq(Int)
    /\ span = NoSpan \/ span \in Int \X Int
    /\ loop \in BOOLEAN /\ cancelled \in BOOLEAN

AppliedUpTo(b) == \A i \in DOMAIN applied : applied[i] <= b

Ordered == \A i, j \in DOMAIN applied : i < j => applied[i] < applied[j]

(* One pass or many.                                                       *)
Mode ==
    /\ pc \in {"sleep", "poll", "closing"} => loop
    /\ pc = "once" => ~loop
    /\ pc \in {"setup", "once"} \/ (pc = "fetch" /\ ~loop) => applied = <<>>
    /\ pc \in {"setup", "once"} \/ (pc \in {"fetch", "scan"} /\ ~loop) => span = NoSpan

(* The pass under way starts after the last one, and the pools have been   *)
(* applied up to where it has got to. A scan that is cancelled leaves the  *)
(* pools ahead of last, and the session then goes no further.              *)
Place ==
    /\ loop /\ (pc \in {"poll", "fetch"} \/ (pc = "sleep" /\ ~cancelled)) => AppliedUpTo(last)
    /\ pc \in {"fetch", "scan", "ledger"} => from <= target /\ (loop => from = last + 1)
    /\ pc = "fetch" => scanAt = from
    /\ pc = "scan" => from <= scanAt /\ scanAt <= target + 1 /\ AppliedUpTo(scanAt - 1)
    /\ pc = "ledger" => AppliedUpTo(target)

(* The span ends at the last block of a following session; while a pass is *)
(* being entered into the ledger, the span already has it.                 *)
Spanned ==
    /\ pc \notin {"ledger", "failed"} =>
           passed = IF span = NoSpan THEN {} ELSE span[1]..span[2]
    /\ loop /\ span # NoSpan /\ pc \notin {"ledger", "failed"} =>
           span[1] <= span[2] /\ span[2] = last
    /\ pc = "ledger" =>
           /\ span # NoSpan /\ span[1] <= span[2]
           /\ passed \union from..target = span[1]..span[2]
           /\ loop => span[2] = target

SessionInv == SessionTyped /\ Ordered /\ Mode /\ Place /\ Spanned


(* FetchInv and SessionInv hold initially.                                 *)
LEMMA SessionInit == Init => FetchInv /\ SessionInv
<1> SUFFICES ASSUME Init PROVE FetchInv /\ SessionInv
  OBVIOUS
<1>1. FetchInv
  <2>1. <<>> \in [DOMAIN <<>> -> Run]
    OBVIOUS
  <2>2. runs \in [DOMAIN runs -> Run]
    BY <2>1 DEF Init, FetcherInit
  <2> QED
    BY <2>2, FS_EmptySet DEF Init, FetcherInit, FetchInv, FetchTyped, Buffered, AnsweredIsCached
<1>2. SessionInv
  <2>1. SessionTyped
    <3>1. loop \in BOOLEAN /\ cancelled \in BOOLEAN
      BY DEF Init, FetcherInit
    <3> QED
      BY <3>1 DEF Init, SessionTyped
  <2>2. Ordered
    BY DEF Init, Ordered
  <2>3. Mode /\ Place /\ Spanned
    BY DEF Init, AppliedUpTo, Mode, Place, Spanned, NoSpan
  <2> QED
    BY <2>1, <2>2, <2>3 DEF SessionInv
<1> QED
  BY <1>1, <1>2

(* A pass begins with a fetch, of a range of integers.                     *)
LEMMA PassBegins ==
  ASSUME NEW lo \in Int, NEW hi \in Int, BeginPass(lo, hi)
  PROVE  FetchInv'
<1>1. CASE FetchRange(lo, hi)
  <2>1. MissingIn(lo, hi) \subseteq lo..hi
    BY DEF MissingIn
  <2> QED
    BY <1>1, <2>1, FetchStarts DEF FetchRange
<1>2. CASE FetchRelevant(lo, hi)
  <2>1. PICK f \in FoundActive(lo, hi) : StartFetch(f, <<lo..hi>>)
    BY <1>2 DEF FetchRelevant
  <2>2. f \subseteq lo..hi
    BY DEF FoundActive
  <2> QED
    BY <2>1, <2>2, FetchStarts
<1> QED
  BY <1>1, <1>2 DEF BeginPass

(* Every step of a session preserves FetchInv.                             *)
LEMMA FetchStays == FetchInv /\ SessionTyped /\ [Next]_vars => FetchInv'
<1> SUFFICES ASSUME FetchInv, SessionTyped, [Next]_vars PROVE FetchInv'
  OBVIOUS
<1> DEFINE still == UNCHANGED <<fetch, wanted, runs, buffer, cached, missing, answered, lostWrite>>
<1>1. ASSUME still PROVE FetchInv'
  BY <1>1 DEF FetchInv, FetchTyped, Buffered, AnsweredIsCached
<1>2. CASE PollTip
  <2>1. NextFrom \in Int /\ head \in Int
    BY DEF NextFrom, SessionTyped
  <2>2. UNCHANGED fetchVars \/ BeginPass(NextFrom, head)
    BY <1>2 DEF PollTip, NewRange
  <2> QED
    BY <2>1, <2>2, <1>1, PassBegins DEF fetchVars
<1>3. CASE RunOnce
  <2>1. PICK t \in {head, tip} : BeginPass(AtLeast(t - (Width - 1), 0), t)
    BY <1>3 DEF RunOnce
  <2>2. t \in Int /\ AtLeast(t - (Width - 1), 0) \in Int
    BY SessionAssumption DEF SessionTyped, AtLeast, SessionAssumption
  <2> QED
    BY <2>1, <2>2, PassBegins
<1>4. CASE FetchStep
  BY <1>4, FetchSteps DEF FetchStep
<1>5. CASE Mine \/ Cancel \/ Expire \/ Setup \/ Wake \/ PollFails \/ Fetched \/ FetchFails
  BY <1>5, <1>1 DEF Mine, Cancel, Expire, Setup, Wake, PollFails, Fetched, FetchFails, fetchVars
<1>6. CASE ScanBlock \/ PersistResults \/ ExecFails \/ UpdateLedger \/ Close
  BY <1>6, <1>1 DEF ScanBlock, PersistResults, ExecFails, UpdateLedger, Close, fetchVars
<1>7. CASE UNCHANGED vars
  BY <1>7, <1>1 DEF vars, fetchVars
<1> QED
  BY <1>2, <1>3, <1>4, <1>5, <1>6, <1>7 DEF Next, Session


(* The steps of the environment preserve SessionInv.                       *)
LEMMA EnvironmentStep == SessionInv /\ (Mine \/ Cancel \/ Expire \/ UNCHANGED vars) => SessionInv'
<1> SUFFICES ASSUME SessionInv, Mine \/ Cancel \/ Expire \/ UNCHANGED vars PROVE SessionInv'
  OBVIOUS
<1>1. UNCHANGED sessionVars
  BY DEF Mine, Cancel, Expire, vars
<1>2. head' \in Nat /\ cancelled' \in BOOLEAN /\ (cancelled => cancelled')
  <2>1. CASE Mine \/ Expire \/ UNCHANGED vars
    <3>1. head' \in {head, head + 1} /\ cancelled' = cancelled
      BY <2>1 DEF Mine, Expire, vars, envVars
    <3> QED
      BY <3>1 DEF SessionInv, SessionTyped
  <2>2. CASE Cancel
    BY <2>2 DEF Cancel, SessionInv, SessionTyped
  <2> QED
    BY <2>1, <2>2
<1>3. SessionTyped' /\ Ordered'
  BY <1>1, <1>2 DEF SessionInv, SessionTyped, Ordered, sessionVars
<1>4. Mode' /\ Place' /\ Spanned'
  BY <1>1, <1>2 DEF SessionInv, Mode, AppliedUpTo, Place, Spanned, sessionVars
<1> QED
  BY <1>3, <1>4 DEF SessionInv

(* The steps before a pass and the fetch of a pass preserve SessionInv.    *)
LEMMA BeforePassStep ==
  SessionInv /\ (Setup \/ Wake \/ PollFails \/ FetchStep \/ Fetched \/ FetchFails) => SessionInv'
<1> SUFFICES ASSUME SessionInv,
                    Setup \/ Wake \/ PollFails \/ FetchStep \/ Fetched \/ FetchFails
             PROVE  SessionInv'
  OBVIOUS
<1> USE DEF SessionInv, SessionTyped, Ordered, Mode, AppliedUpTo, Place, Spanned, envVars
<1>1. CASE Setup
  BY <1>1 DEF Setup
<1>2. CASE Wake
  BY <1>2 DEF Wake, ShouldStop
<1>3. CASE PollFails
  BY <1>3 DEF PollFails, CountFailure
<1>4. CASE FetchStep
  BY <1>4 DEF FetchStep, sessionVars
<1>5. CASE Fetched
  BY <1>5 DEF Fetched
<1>6. CASE FetchFails
  BY <1>6 DEF FetchFails, PassFails, CountFailure
<1> QED
  BY <1>1, <1>2, <1>3, <1>4, <1>5, <1>6

(* The start of a pass preserves SessionInv.                               *)
LEMMA BeginStep == SessionInv /\ (PollTip \/ RunOnce) => SessionInv'
<1> SUFFICES ASSUME SessionInv, PollTip \/ RunOnce PROVE SessionInv'
  OBVIOUS
<1> USE DEF SessionInv, SessionTyped, Ordered, Mode, AppliedUpTo, Place, Spanned, envVars
<1>1. CASE PollTip /\ pc' = "sleep"
  BY <1>1 DEF PollTip, NewRange, BeginPass
<1>2. CASE PollTip /\ pc' # "sleep"
  BY <1>2 DEF PollTip, NewRange, BeginPass, NextFrom
<1>3. CASE RunOnce
  <2>1. PICK t \in {head, tip} : BeginPass(AtLeast(t - (Width - 1), 0), t)
    BY <1>3 DEF RunOnce
  <2>2. t \in Nat /\ AtLeast(t - (Width - 1), 0) \in Nat /\ AtLeast(t - (Width - 1), 0) <= t
    BY SessionAssumption DEF AtLeast, SessionAssumption
  <2> QED
    BY <1>3, <2>1, <2>2 DEF RunOnce, BeginPass
<1> QED
  BY <1>1, <1>2, <1>3

(* A pass preserves SessionInv.                                            *)
LEMMA PassStep ==
  SessionInv /\ (ScanBlock \/ PersistResults \/ ExecFails \/ UpdateLedger \/ Close) => SessionInv'
<1> SUFFICES ASSUME SessionInv,
                    ScanBlock \/ PersistResults \/ ExecFails \/ UpdateLedger \/ Close
             PROVE  SessionInv'
  OBVIOUS
<1> USE DEF SessionInv, SessionTyped, Mode, envVars
<1>1. CASE ScanBlock
  <2>1. CASE scanAt \notin cached
    BY <1>1, <2>1 DEF ScanBlock, Ordered, AppliedUpTo, Place, Spanned
  <2>2. CASE scanAt \in cached
    <3>1. applied' = Append(applied, scanAt) /\ scanAt' = scanAt + 1 /\ pc = "scan"
      BY <1>1, <2>2 DEF ScanBlock
    <3>2. DOMAIN applied' = 1..(Len(applied) + 1) /\ DOMAIN applied = 1..Len(applied)
          /\ applied'[Len(applied) + 1] = scanAt
          /\ \A i \in DOMAIN applied : applied'[i] = applied[i]
      BY <3>1
    <3>3. \A i \in DOMAIN applied : applied[i] < scanAt
      BY <3>1 DEF Place, AppliedUpTo
    <3>4. Ordered'
      BY <3>2, <3>3 DEF Ordered
    <3>5. \A i \in DOMAIN applied' : applied'[i] <= scanAt
      BY <3>2, <3>3
    <3>6. SessionTyped' /\ Mode' /\ Spanned'
      BY <1>1, <2>2, <3>1 DEF ScanBlock, PassFails, CountFailure, Spanned
    <3>7. Place'
      BY <1>1, <2>2, <3>1, <3>5, SMTT(30) DEF ScanBlock, PassFails, CountFailure, Place, AppliedUpTo
    <3> QED
      BY <3>4, <3>6, <3>7
  <2> QED
    BY <2>1, <2>2
<1>2. CASE PersistResults
  <2>1. SessionTyped' /\ Ordered' /\ Mode'
    BY <1>2 DEF PersistResults, WidenSpan, Ordered, AtMost, AtLeast, NoSpan
  <2>2. Place'
    BY <1>2 DEF PersistResults, Place, AppliedUpTo
  <2>3. /\ pc = "scan" /\ pc' = "ledger" /\ span' = WidenSpan(from, target)
        /\ UNCHANGED <<loop, from, target, passed>>
    BY <1>2 DEF PersistResults
  <2>4. from \in Int /\ target \in Int /\ from <= target /\ (loop => from = last + 1)
    BY <2>3 DEF Place
  <2>5. CASE span = NoSpan
    <3>1. span' = <<from, target>> /\ passed = {}
      BY <2>3, <2>5 DEF WidenSpan, Spanned
    <3> QED
      BY <2>1, <2>2, <2>3, <2>4, <3>1 DEF Spanned, NoSpan
  <2>6. CASE span # NoSpan
    <3>1. loop /\ span \in Int \X Int /\ span[1] <= span[2] /\ span[2] = last
          /\ passed = span[1]..span[2]
      BY <2>3, <2>6 DEF Spanned
    <3>2. AtMost(span[1], from) = span[1] /\ AtLeast(span[2], target) = target
      BY <2>4, <3>1 DEF AtMost, AtLeast
    <3>3. span' = <<span[1], target>>
      BY <2>3, <2>6, <3>2 DEF WidenSpan
    <3>4. span[1]..span[2] \union from..target = span[1]..target
      BY <2>4, <3>1
    <3> QED
      BY <2>1, <2>2, <2>3, <2>4, <3>1, <3>3, <3>4 DEF Spanned, NoSpan
  <2> QED
    BY <2>5, <2>6
<1>3. CASE ExecFails
  BY <1>3 DEF ExecFails, Ordered, AppliedUpTo, Place, Spanned
<1>4. CASE UpdateLedger
  BY <1>4 DEF UpdateLedger, Ordered, AppliedUpTo, Place, Spanned
<1>5. CASE Close
  BY <1>5 DEF Close, Ordered, AppliedUpTo, Place, Spanned
<1> QED
  BY <1>1, <1>2, <1>3, <1>4, <1>5

(* Both invariants together are inductive.                                 *)
LEMMA SessionInvariant == Spec => [](FetchInv /\ SessionInv)
<1>1. FetchInv /\ SessionInv /\ [Next]_vars => SessionInv'
  BY EnvironmentStep, BeforePassStep, BeginStep, PassStep DEF Next, Session
<1>2. FetchInv /\ SessionInv /\ [Next]_vars => FetchInv'
  BY FetchStays DEF SessionInv
<1> QED
  BY SessionInit, <1>1, <1>2, PTL DEF Spec

(* When a fetch or a refetch returns, what was answered is in the cache    *)
(* unless a write failed, whatever the providers, the shards, the batching *)
(* and the limit of the shared buffer (Fetcher::fetch_range).              *)
THEOREM AnswersReachTheCache == Spec => []AnsweredIsCached
<1>1. FetchInv => AnsweredIsCached
  BY DEF FetchInv
<1> QED
  BY SessionInvariant, <1>1, PTL

(* The pools are applied in block order and once each, and the span of a   *)
(* session is exactly its completed passes, for every chain, width, cap    *)
(* and limit (run_live_loop, LiveSession::finish).                         *)
THEOREM SpanIsWhatWasApplied == Spec => []SpanIsApplied
<1>1. SessionInv => SpanIsApplied
  BY DEF SessionInv, Ordered, Spanned, SpanIsApplied
<1> QED
  BY SessionInvariant, <1>1, PTL

==================================================================================
