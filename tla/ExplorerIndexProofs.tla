------------------------ MODULE ExplorerIndexProofs ------------------------
(***************************************************************************)
(* Theorems about ExplorerIndex, for every value of its constants.         *)
(***************************************************************************)
EXTENDS ExplorerIndex, TLAPS

(* TypeOK and what it needs to be inductive: the block in flight is within *)
(* the poll's range, and the run goes on only below the failure cap.       *)
FlightOK ==
    /\ pc \in {"rejects", "facts", "jit"} => block \in Blocks
    /\ pc \in {"rejects", "facts"} => bundle \in Versions
    /\ pc # "aborted" => failures < MaxFailures

TypeInv == TypeOK /\ FlightOK

(* TypeInv holds initially.                                                *)
LEMMA TypeInit == Init => TypeInv
<1> SUFFICES ASSUME Init PROVE TypeInv
  OBVIOUS
<1> USE BoundsAssumption
    DEF Init, BoundsAssumption, Blocks, Versions, Missing, NoBlock
<1>1. ChainTypeOK
  BY DEF ChainTypeOK
<1>2. StoreTypeOK
  BY DEF StoreTypeOK
<1>3. PollTypeOK
  BY DEF PollTypeOK
<1>4. ControlTypeOK
  BY DEF ControlTypeOK
<1>5. FlagTypeOK
  BY DEF FlagTypeOK
<1>6. FlightOK
  BY DEF FlightOK
<1> QED
  BY <1>1, <1>2, <1>3, <1>4, <1>5, <1>6 DEF TypeInv, TypeOK

(* Every step preserves TypeInv.                                           *)
LEMMA TypeStep == TypeInv /\ [Next]_vars => TypeInv'
<1> SUFFICES ASSUME TypeInv, [Next]_vars PROVE TypeInv'
  OBVIOUS
<1> USE BoundsAssumption
    DEF BoundsAssumption, TypeInv, TypeOK, ChainTypeOK, StoreTypeOK, PollTypeOK,
        ControlTypeOK, FlagTypeOK, FlightOK, Blocks, Versions, Missing, NoBlock,
        chainVars, storeVars, pollVars, walkVars, fetchVars
<1>1. CASE Mine
  BY <1>1 DEF Mine
<1>2. ASSUME NEW h \in Blocks, Reorg(h) PROVE TypeInv'
  BY <1>2 DEF Reorg
<1>3. CASE Die
  BY <1>3 DEF Die
<1>4. CASE RequestStop
  BY <1>4 DEF RequestStop
<1>5. CASE Restart
  <2>1. ChainTypeOK'
    BY <1>5 DEF Restart
  <2>2. StoreTypeOK'
    BY <1>5 DEF Restart
  <2>3. PollTypeOK'
    BY <1>5 DEF Restart
  <2>4. ControlTypeOK'
    BY <1>5 DEF Restart
  <2>5. FlagTypeOK'
    BY <1>5 DEF Restart
  <2>6. FlightOK'
    BY <1>5 DEF Restart
  <2> QED
    BY <2>1, <2>2, <2>3, <2>4, <2>5, <2>6
<1>6. CASE Stop
  BY <1>6 DEF Stop
<1>7. CASE HeadFails
  BY <1>7 DEF HeadFails, RpcFails
<1>8. ASSUME NEW h \in Blocks, PollHead(h) PROVE TypeInv'
  <2>1. SafeHead(h) \in Blocks
    BY DEF SafeHead, Monus
  <2>2. CASE StartSession(SafeHead(h))
    <3>1. TipJumpCheckpoint(indexedTo, SafeHead(h)) \in Blocks
      BY <2>1 DEF TipJumpCheckpoint, Monus, Least
    <3>2. TipJumpCheckpoint(0, SafeHead(h)) \in Blocks
      BY <2>1 DEF TipJumpCheckpoint, Monus
    <3>3. indexedTo' \in Blocks /\ errors' \in 0 .. MaxErrors
      BY <2>2, <3>1, <3>2, SMTT(30) DEF StartSession, StoreFails
    <3>4. pc' \in {"verify", "aborted"} /\ first' \in {first, SafeHead(h)}
      BY <2>2 DEF StartSession
    <3>5. cursor' = SafeHead(h) /\ safe' = SafeHead(h)
      BY <1>8, <2>2 DEF PollHead, StartSession
    <3>6. /\ UNCHANGED <<chainVars, stored, rejects, jit, walkVars, fetchVars>>
          /\ UNCHANGED <<sinceSweep, failures, stop, restarts, nextBlock>>
      BY <1>8, <2>2 DEF PollHead, StartSession
    <3>7. StoreTypeOK' /\ ChainTypeOK' /\ FlagTypeOK'
      BY <3>3, <3>6
    <3>8. PollTypeOK'
      BY <2>1, <3>4, <3>5, <3>6
    <3>9. ControlTypeOK' /\ FlightOK'
      BY <1>8, <3>3, <3>4, <3>6 DEF PollHead
    <3> QED
      BY <3>7, <3>8, <3>9
  <2>3. CASE ResumeSession(SafeHead(h))
    BY <1>8, <2>1, <2>3 DEF PollHead, ResumeSession
  <2> QED
    BY <1>8, <2>2, <2>3 DEF PollHead
<1>9. CASE VerifyTip
  <2>1. ChainTypeOK'
    BY <1>9 DEF VerifyTip, TipProbed, ProbeClean, ProbeMismatch, ProbeFails,
           RpcAnswers, RpcFails, StoreFails, StartWalk, CountFailure
  <2>2. StoreTypeOK'
    BY <1>9 DEF VerifyTip, TipProbed, ProbeClean, ProbeMismatch, ProbeFails,
           RpcAnswers, RpcFails, StoreFails, StartWalk, CountFailure
  <2>3. PollTypeOK'
    BY <1>9 DEF VerifyTip, TipProbed, ProbeClean, ProbeMismatch, ProbeFails,
           RpcAnswers, RpcFails, StoreFails, StartWalk, CountFailure
  <2>4. ControlTypeOK'
    <3>1. errors' \in 0 .. MaxErrors
      <4>1. \/ ProbeClean(indexedTo) \/ ProbeMismatch(indexedTo)
            \/ ProbeFails(indexedTo) \/ UNCHANGED errors \/ StoreFails
        BY <1>9 DEF VerifyTip
      <4> QED
        BY <4>1 DEF ProbeClean, ProbeMismatch, ProbeFails, RpcAnswers, RpcFails,
                    StoreFails
    <3>2. \/ pc' \in {"sweep", "walk", "aborted"} /\ UNCHANGED failures
          \/ CountFailure
      BY <1>9 DEF VerifyTip, StartWalk
    <3>3. pc' \in {"sweep", "walk", "poll", "aborted"} /\ failures' \in 0 .. MaxFailures
      BY <1>9, <3>2 DEF VerifyTip, CountFailure
    <3> QED
      BY <1>9, <3>1, <3>3 DEF VerifyTip
  <2>5. FlagTypeOK'
    BY <1>9 DEF VerifyTip, TipProbed, ProbeClean, ProbeMismatch, ProbeFails,
           RpcAnswers, RpcFails, StoreFails, StartWalk, CountFailure
  <2>6. FlightOK'
    BY <1>9 DEF VerifyTip, TipProbed, ProbeClean, ProbeMismatch, ProbeFails,
           RpcAnswers, RpcFails, StoreFails, StartWalk, CountFailure
  <2> QED
    BY <2>1, <2>2, <2>3, <2>4, <2>5, <2>6
<1>10. CASE SkipSweep
  BY <1>10 DEF SkipSweep
<1>11. CASE Sweep
  <2>1. ChainTypeOK'
    BY <1>11 DEF Sweep, Monus, ProbeClean, ProbeMismatch, ProbeFails, RpcAnswers,
           RpcFails, StoreFails, StartWalk, CountFailure
  <2>2. StoreTypeOK'
    BY <1>11 DEF Sweep, Monus, ProbeClean, ProbeMismatch, ProbeFails, RpcAnswers,
           RpcFails, StoreFails, StartWalk, CountFailure
  <2>3. PollTypeOK'
    BY <1>11 DEF Sweep, Monus, ProbeClean, ProbeMismatch, ProbeFails, RpcAnswers,
           RpcFails, StoreFails, StartWalk, CountFailure
  <2>4. ControlTypeOK'
    BY <1>11, SMTT(30) DEF Sweep, Monus, ProbeClean, ProbeMismatch, ProbeFails, RpcAnswers,
           RpcFails, StoreFails, StartWalk, CountFailure
  <2>5. FlagTypeOK'
    BY <1>11 DEF Sweep, Monus, ProbeClean, ProbeMismatch, ProbeFails, RpcAnswers,
           RpcFails, StoreFails, StartWalk, CountFailure
  <2>6. FlightOK'
    BY <1>11 DEF Sweep, Monus, ProbeClean, ProbeMismatch, ProbeFails, RpcAnswers,
           RpcFails, StoreFails, StartWalk, CountFailure
  <2> QED
    BY <2>1, <2>2, <2>3, <2>4, <2>5, <2>6
<1>12. CASE WalkOn
  BY <1>12 DEF WalkOn, InReach, Monus, Lookback, ProbeMismatch, RpcAnswers
<1>13. CASE WalkFails
  BY <1>13 DEF WalkFails, ProbeFails, RpcFails, CountFailure
<1>14. CASE WalkEnds
  <2>1. ChainTypeOK'
    BY <1>14 DEF WalkEnds, InReach, Monus, Lookback, ProbeClean, RpcAnswers,
           StoreFails, UnwindFrom
  <2>2. StoreTypeOK'
    BY <1>14 DEF WalkEnds, InReach, Monus, Lookback, ProbeClean, RpcAnswers,
           StoreFails, UnwindFrom
  <2>3. PollTypeOK'
    BY <1>14 DEF WalkEnds, InReach, Monus, Lookback, ProbeClean, RpcAnswers,
           StoreFails, UnwindFrom
  <2>4. ControlTypeOK'
    BY <1>14 DEF WalkEnds, InReach, Monus, Lookback, ProbeClean, RpcAnswers,
           StoreFails, UnwindFrom
  <2>5. FlagTypeOK'
    BY <1>14 DEF WalkEnds, InReach, Monus, Lookback, ProbeClean, RpcAnswers,
           StoreFails, UnwindFrom
  <2>6. FlightOK'
    BY <1>14 DEF WalkEnds, InReach, Monus, Lookback, ProbeClean, RpcAnswers,
           StoreFails, UnwindFrom
  <2> QED
    BY <2>1, <2>2, <2>3, <2>4, <2>5, <2>6
<1>15. CASE UnwindFails
  BY <1>15 DEF UnwindFails, StoreFails
<1>16. CASE Price
  <2>1. ChainTypeOK'
    BY <1>16 DEF Price, StoreFails, CountFailure
  <2>2. StoreTypeOK'
    BY <1>16 DEF Price, StoreFails, CountFailure
  <2>3. PollTypeOK'
    BY <1>16 DEF Price, StoreFails, CountFailure
  <2>4. ControlTypeOK'
    BY <1>16 DEF Price, StoreFails, CountFailure
  <2>5. FlagTypeOK'
    BY <1>16 DEF Price, StoreFails, CountFailure
  <2>6. FlightOK'
    BY <1>16 DEF Price, StoreFails, CountFailure
  <2> QED
    BY <2>1, <2>2, <2>3, <2>4, <2>5, <2>6
<1>17. CASE SkipClassified
  BY <1>17 DEF SkipClassified, NextInRange
<1>18. CASE Fetch
  BY <1>18 DEF Fetch, RpcAnswers
<1>19. CASE FetchFails
  <2>1. ChainTypeOK'
    BY <1>19 DEF FetchFails, StoreFails, RpcFails, BlockFails, CountFailure
  <2>2. StoreTypeOK'
    BY <1>19 DEF FetchFails, StoreFails, RpcFails, BlockFails, CountFailure
  <2>3. PollTypeOK'
    BY <1>19 DEF FetchFails, StoreFails, RpcFails, BlockFails, CountFailure
  <2>4. ControlTypeOK'
    BY <1>19 DEF FetchFails, StoreFails, RpcFails, BlockFails, CountFailure
  <2>5. FlagTypeOK'
    BY <1>19 DEF FetchFails, StoreFails, RpcFails, BlockFails, CountFailure
  <2>6. FlightOK'
    BY <1>19 DEF FetchFails, StoreFails, RpcFails, BlockFails, CountFailure
  <2> QED
    BY <2>1, <2>2, <2>3, <2>4, <2>5, <2>6
<1>20. CASE PersistRejects
  <2>1. ChainTypeOK'
    BY <1>20 DEF PersistRejects, StoreFails, BlockFails, CountFailure
  <2>2. StoreTypeOK'
    <3>1. rejects' \in {rejects, rejects \cup {<<block, bundle>>}}
      BY <1>20 DEF PersistRejects
    <3>2. <<block, bundle>> \in Blocks \X Versions
      BY <1>20 DEF PersistRejects
    <3>3. UNCHANGED <<stored, jit, indexedTo>>
      BY <1>20 DEF PersistRejects
    <3> QED
      BY <3>1, <3>2, <3>3
  <2>3. PollTypeOK'
    <3>1. nextBlock' \in {nextBlock, block} /\ UNCHANGED <<safe, cursor, first>>
      BY <1>20 DEF PersistRejects, BlockFails
    <3>2. UNCHANGED <<block, bundle, probe, walkAt>>
      BY <1>20 DEF PersistRejects
    <3> QED
      BY <3>1, <3>2
  <2>4. ControlTypeOK'
    BY <1>20 DEF PersistRejects, StoreFails, BlockFails, CountFailure
  <2>5. FlagTypeOK'
    BY <1>20 DEF PersistRejects, StoreFails, BlockFails, CountFailure
  <2>6. FlightOK'
    BY <1>20 DEF PersistRejects, StoreFails, BlockFails, CountFailure
  <2> QED
    BY <2>1, <2>2, <2>3, <2>4, <2>5, <2>6
<1>21. CASE PersistFacts
  <2>1. ChainTypeOK'
    BY <1>21 DEF PersistFacts, StoreFails, BlockFails, CountFailure
  <2>2. StoreTypeOK'
    BY <1>21 DEF PersistFacts, StoreFails, BlockFails, CountFailure
  <2>3. PollTypeOK'
    <3>1. nextBlock' \in {nextBlock, block} /\ UNCHANGED <<safe, cursor, first>>
      BY <1>21 DEF PersistFacts, BlockFails
    <3>2. UNCHANGED <<block, bundle, probe, walkAt>>
      BY <1>21 DEF PersistFacts
    <3> QED
      BY <3>1, <3>2
  <2>4. ControlTypeOK'
    <3>1. CASE pc' = "jit" /\ UNCHANGED <<failures, errors>>
      BY <1>21, <3>1 DEF PersistFacts
    <3>2. CASE StoreFails /\ CountFailure
      BY <1>21, <3>2 DEF PersistFacts, StoreFails, CountFailure
    <3> QED
      BY <1>21, <3>1, <3>2 DEF PersistFacts, BlockFails
  <2>5. FlagTypeOK'
    BY <1>21 DEF PersistFacts, StoreFails, BlockFails, CountFailure
  <2>6. FlightOK'
    BY <1>21 DEF PersistFacts, StoreFails, BlockFails, CountFailure
  <2> QED
    BY <2>1, <2>2, <2>3, <2>4, <2>5, <2>6
<1>22. CASE PersistJit
  <2>1. ChainTypeOK'
    BY <1>22 DEF PersistJit, NextInRange, StoreFails, BlockFails, CountFailure
  <2>2. StoreTypeOK'
    BY <1>22 DEF PersistJit, NextInRange, StoreFails, BlockFails, CountFailure
  <2>3. PollTypeOK'
    <3>1. nextBlock' \in {nextBlock, block} /\ UNCHANGED <<safe, cursor, first>>
      BY <1>22 DEF PersistJit, BlockFails
    <3>2. block' \in {block, block + 1} /\ UNCHANGED <<bundle, probe, walkAt>>
      BY <1>22 DEF PersistJit, NextInRange
    <3>3. block \in Blocks
      BY <1>22 DEF PersistJit
    <3> QED
      BY <3>1, <3>2, <3>3
  <2>4. ControlTypeOK'
    BY <1>22 DEF PersistJit, NextInRange, StoreFails, BlockFails, CountFailure
  <2>5. FlagTypeOK'
    BY <1>22 DEF PersistJit, NextInRange, StoreFails, BlockFails, CountFailure
  <2>6. FlightOK'
    BY <1>22 DEF PersistJit, NextInRange, StoreFails, BlockFails, CountFailure
  <2> QED
    BY <2>1, <2>2, <2>3, <2>4, <2>5, <2>6
<1>23. CASE Checkpoint
  <2>1. ChainTypeOK'
    BY <1>23 DEF Checkpoint, StoreFails
  <2>2. StoreTypeOK'
    BY <1>23 DEF Checkpoint, StoreFails
  <2>3. PollTypeOK'
    BY <1>23 DEF Checkpoint, StoreFails
  <2>4. ControlTypeOK'
    BY <1>23 DEF Checkpoint, StoreFails
  <2>5. FlagTypeOK'
    BY <1>23 DEF Checkpoint, StoreFails
  <2>6. FlightOK'
    BY <1>23 DEF Checkpoint, StoreFails
  <2> QED
    BY <2>1, <2>2, <2>3, <2>4, <2>5, <2>6
<1>24. CASE UNCHANGED vars
  BY <1>24 DEF vars
<1> QED
  BY <1>1, <1>2, <1>3, <1>4, <1>5, <1>6, <1>7, <1>8, <1>9, <1>10, <1>11,
     <1>12, <1>13, <1>14, <1>15, <1>16, <1>17, <1>18, <1>19, <1>20, <1>21,
     <1>22, <1>23, <1>24
  DEF Next, Indexer, Environment

(* TypeInv is an invariant.                                                *)
LEMMA TypeInvariance == Spec => []TypeInv
<1>1. TypeInv /\ [Next]_vars => TypeInv'
  BY TypeStep
<1> QED
  BY TypeInit, <1>1, PTL DEF Spec

(* Every variable of the indexer stays in its type whatever the polls,     *)
(* reorgs, failures and restarts (run_live).                               *)
THEOREM TypeCorrect == Spec => []TypeOK
<1>1. TypeInv => TypeOK
  BY DEF TypeInv
<1> QED
  BY TypeInvariance, <1>1, PTL

-----------------------------------------------------------------------------
(* Unwinding.  Versions are never reused, so a block that was seen to      *)
(* mismatch stays stale, however the chain moves during the walk.          *)
VersionInv ==
    /\ \A b \in Blocks : chain[b] <= version /\ stored[b] <= version
    /\ bundle <= version

WalkInv ==
    pc = "walk" =>
        walkAt + 1 \in Blocks /\ stored[walkAt + 1] \notin {Missing, chain[walkAt + 1]}

(* Every step preserves VersionInv.                                        *)
LEMMA VersionStep == TypeInv /\ VersionInv /\ [Next]_vars => VersionInv'
<1> SUFFICES ASSUME TypeInv, VersionInv, [Next]_vars PROVE VersionInv'
  OBVIOUS
<1> USE BoundsAssumption
    DEF BoundsAssumption, TypeInv, TypeOK, ChainTypeOK, StoreTypeOK, PollTypeOK,
        FlightOK, VersionInv, Blocks, Versions, Missing,
        chainVars, storeVars, fetchVars
<1>1. CASE UNCHANGED <<chain, version, stored, bundle>>
  BY <1>1
<1>2. ASSUME NEW h \in Blocks, Reorg(h) PROVE VersionInv'
  <2>1. \A b \in Blocks : chain'[b] \in {version + 1, chain[b]}
    BY <1>2 DEF Reorg
  <2>2. version' = version + 1 /\ UNCHANGED <<stored, bundle>>
    BY <1>2 DEF Reorg
  <2>3. \A b \in Blocks : chain[b] \in Int /\ stored[b] \in Int
    OBVIOUS
  <2>4. version \in Int /\ bundle \in Int
    OBVIOUS
  <2>5. ASSUME NEW b \in Blocks PROVE chain'[b] <= version' /\ stored'[b] <= version'
    <3>1. chain[b] <= version /\ stored[b] <= version
      BY DEF VersionInv
    <3> QED
      BY ONLY <2>1, <2>2, <2>3, <2>4, <3>1
  <2>6. bundle' <= version'
    BY <2>2, <2>4
  <2> QED
    BY <2>5, <2>6 DEF VersionInv
<1>3. CASE Fetch
  BY <1>3 DEF Fetch
<1>4. CASE PersistFacts
  BY <1>4 DEF PersistFacts
<1>5. CASE WalkEnds
  BY <1>5 DEF WalkEnds, UnwindFrom
<1>6. CASE Mine \/ Die \/ RequestStop \/ Restart
  BY <1>1, <1>6 DEF Mine, Die, RequestStop, Restart
<1>7. CASE Stop \/ HeadFails \/ \E h \in Blocks : PollHead(h)
  BY <1>1, <1>7 DEF Stop, HeadFails, PollHead
<1>8. CASE VerifyTip \/ SkipSweep \/ Sweep \/ WalkOn \/ WalkFails \/ UnwindFails
  BY <1>1, <1>8 DEF VerifyTip, SkipSweep, Sweep, WalkOn, WalkFails, UnwindFails
<1>9. CASE Price \/ SkipClassified \/ FetchFails \/ PersistRejects \/ PersistJit
           \/ Checkpoint
  BY <1>1, <1>9 DEF Price, SkipClassified, FetchFails, PersistRejects, PersistJit,
                    Checkpoint
<1>10. CASE UNCHANGED vars
  BY <1>1, <1>10 DEF vars
<1> QED
  BY <1>2, <1>3, <1>4, <1>5, <1>6, <1>7, <1>8, <1>9, <1>10
  DEF Next, Indexer, Environment

(* Every step preserves WalkInv: the block above walkAt mismatched, and    *)
(* the chain cannot return to its version.                                 *)
LEMMA WalkStep == TypeInv /\ VersionInv /\ WalkInv /\ [Next]_vars => WalkInv'
<1> SUFFICES ASSUME TypeInv, VersionInv, WalkInv, [Next]_vars, pc' = "walk"
             PROVE  WalkInv'
  BY DEF WalkInv
<1> USE BoundsAssumption
    DEF BoundsAssumption, TypeInv, TypeOK, ChainTypeOK, StoreTypeOK, PollTypeOK,
        VersionInv, WalkInv, Blocks, Versions, Missing,
        chainVars, storeVars, pollVars, walkVars
<1>1. CASE UNCHANGED <<chain, stored, walkAt, pc>>
  BY <1>1
<1>2. ASSUME NEW h \in Blocks, Reorg(h) PROVE WalkInv'
  BY <1>2 DEF Reorg
<1>3. CASE VerifyTip
  BY <1>3 DEF VerifyTip, TipProbed, ProbeMismatch, StartWalk, CountFailure
<1>4. CASE Sweep
  <2>1. Monus(cursor, 1) \in Blocks
    BY DEF Monus
  <2> QED
    BY <1>4, <2>1 DEF Sweep, ProbeMismatch, StartWalk, CountFailure
<1>5. CASE WalkOn
  <2>1. walkAt \in Blocks
    BY <1>5 DEF WalkOn, InReach, Monus, Lookback
  <2>2. walkAt' + 1 = walkAt /\ UNCHANGED <<chain, stored>>
    BY <1>5, <2>1 DEF WalkOn
  <2> QED
    BY <1>5, <2>1, <2>2 DEF WalkOn, ProbeMismatch
<1>6. CASE Mine \/ Die \/ RequestStop \/ Restart
  BY <1>1, <1>6 DEF Mine, Die, RequestStop, Restart
<1>7. CASE Stop \/ HeadFails \/ \E h \in Blocks : PollHead(h)
  BY <1>7 DEF Stop, HeadFails, PollHead, StartSession, ResumeSession
<1>8. CASE SkipSweep \/ WalkFails \/ WalkEnds \/ UnwindFails
  BY <1>8 DEF SkipSweep, WalkFails, WalkEnds, UnwindFails, CountFailure
<1>9. CASE Price \/ SkipClassified \/ Fetch \/ FetchFails \/ Checkpoint
  BY <1>9 DEF Price, SkipClassified, Fetch, FetchFails, Checkpoint, NextInRange,
              BlockFails, CountFailure
<1>10. CASE PersistRejects \/ PersistFacts \/ PersistJit
  BY <1>10 DEF PersistRejects, PersistFacts, PersistJit, NextInRange, BlockFails,
               CountFailure
<1>11. CASE UNCHANGED vars
  BY <1>1, <1>11 DEF vars
<1> QED
  BY <1>2, <1>3, <1>4, <1>5, <1>6, <1>7, <1>8, <1>9, <1>10, <1>11
  DEF Next, Indexer, Environment

(* Only WalkEnds removes rows, and all of them from walkAt + 1 on.         *)
LEMMA OnlyWalkEndsRemoves ==
    ASSUME TypeInv, [Next]_vars, NEW b \in Blocks, Removed(b)
    PROVE  WalkEnds
<1> USE DEF Removed, TypeInv, TypeOK, StoreTypeOK, PollTypeOK, ChainTypeOK, FlightOK,
            Versions, Missing, storeVars
<1>1. CASE UNCHANGED stored
  BY <1>1
<1>2. CASE PersistFacts
  BY <1>2, BoundsAssumption DEF PersistFacts, BoundsAssumption
<1>3. CASE Mine \/ Die \/ RequestStop \/ Restart \/ \E h \in Blocks : Reorg(h)
  BY <1>1, <1>3 DEF Mine, Die, RequestStop, Restart, Reorg
<1>4. CASE Stop \/ HeadFails \/ \E h \in Blocks : PollHead(h)
  BY <1>1, <1>4 DEF Stop, HeadFails, PollHead
<1>5. CASE VerifyTip \/ SkipSweep \/ Sweep \/ WalkOn \/ WalkFails \/ UnwindFails
  BY <1>1, <1>5 DEF VerifyTip, SkipSweep, Sweep, WalkOn, WalkFails, UnwindFails
<1>6. CASE Price \/ SkipClassified \/ Fetch \/ FetchFails \/ PersistRejects
           \/ PersistJit \/ Checkpoint
  BY <1>1, <1>6 DEF Price, SkipClassified, Fetch, FetchFails, PersistRejects,
                    PersistJit, Checkpoint
<1>7. CASE UNCHANGED vars
  BY <1>1, <1>7 DEF vars
<1> QED
  BY <1>2, <1>3, <1>4, <1>5, <1>6, <1>7 DEF Next, Indexer, Environment

(* An unwind starts at a block that is stale when it is removed, though    *)
(* the chain may have moved since its hash was compared (walk_to_fork,     *)
(* unwind_from).                                                           *)
THEOREM UnwindsFromStaleBlockThm == Spec => UnwindsFromStaleBlock
<1>1. Init => VersionInv /\ WalkInv
  BY BoundsAssumption
  DEF Init, VersionInv, WalkInv, Blocks, Missing, BoundsAssumption
<1>2. ASSUME TypeInv, WalkInv, [Next]_vars, NEW b \in Blocks, Removed(b),
             \A c \in 0 .. b - 1 : ~Removed(c)
      PROVE  stored[b] # chain[b]
  <2>1. WalkEnds
    BY <1>2, OnlyWalkEndsRemoves
  <2>2. walkAt + 1 \in Blocks /\ stored[walkAt + 1] \notin {Missing, chain[walkAt + 1]}
    BY <1>2, <2>1 DEF WalkEnds, WalkInv
  <2>3. \A c \in Blocks : c >= walkAt + 1 => stored'[c] = Missing
    BY <2>1 DEF WalkEnds, UnwindFrom
  <2>4. \A c \in Blocks : c < walkAt + 1 => stored'[c] = stored[c]
    BY <2>1, <2>2 DEF WalkEnds, UnwindFrom, Blocks
  <2>5. Removed(walkAt + 1)
    BY <2>2, <2>3 DEF Removed, Blocks
  <2>6. b >= walkAt + 1
    BY <1>2, <2>2, <2>4 DEF Removed, Blocks
  <2>7. b = walkAt + 1
    BY <1>2, <2>2, <2>5, <2>6, BoundsAssumption DEF Blocks, BoundsAssumption
  <2> QED
    BY <2>2, <2>7
<1>3. TypeInv /\ WalkInv /\ [Next]_vars =>
        [\A b \in Blocks : Removed(b) /\ (\A c \in 0 .. b - 1 : ~Removed(c))
            => stored[b] # chain[b]]_vars
  BY <1>2
<1> QED
  BY TypeInvariance, <1>1, VersionStep, WalkStep, <1>3, PTL
  DEF Spec, UnwindsFromStaleBlock

-----------------------------------------------------------------------------
(* The database as its readers see it.  Facts are inserted only for a      *)
(* block that has none: between the look that found none and the commit    *)
(* nothing else of this process writes.                                    *)
InFlightMissing == pc \in {"rejects", "facts"} => stored[block] = Missing

(* Every step preserves InFlightMissing.                                   *)
LEMMA InFlightStep == TypeInv /\ InFlightMissing /\ [Next]_vars => InFlightMissing'
<1> SUFFICES ASSUME TypeInv, InFlightMissing, [Next]_vars,
                    pc' \in {"rejects", "facts"}
             PROVE  stored'[block'] = Missing
  BY DEF InFlightMissing
<1> USE DEF InFlightMissing, TypeInv, FlightOK, storeVars, fetchVars
<1>1. CASE UNCHANGED <<stored, block, pc>>
  BY <1>1
<1>2. CASE Fetch
  BY <1>2 DEF Fetch
<1>3. CASE PersistRejects
  BY <1>3 DEF PersistRejects, BlockFails, CountFailure
<1>4. CASE Mine \/ Die \/ RequestStop \/ Restart \/ \E h \in Blocks : Reorg(h)
  BY <1>1, <1>4 DEF Mine, Die, RequestStop, Restart, Reorg
<1>5. CASE Stop \/ HeadFails \/ \E h \in Blocks : PollHead(h)
  BY <1>1, <1>5 DEF Stop, HeadFails, PollHead, StartSession, ResumeSession
<1>6. CASE VerifyTip \/ SkipSweep \/ Sweep \/ WalkOn \/ WalkFails \/ WalkEnds \/ UnwindFails
  BY <1>6 DEF VerifyTip, SkipSweep, Sweep, WalkOn, WalkFails, WalkEnds, UnwindFails,
              StartWalk, CountFailure
<1>7. CASE Price \/ SkipClassified \/ FetchFails \/ PersistFacts \/ PersistJit \/ Checkpoint
  BY <1>7 DEF Price, SkipClassified, FetchFails, PersistFacts, PersistJit, Checkpoint,
              NextInRange, BlockFails, CountFailure
<1>8. CASE UNCHANGED vars
  BY <1>1, <1>8 DEF vars
<1> QED
  BY <1>2, <1>3, <1>4, <1>5, <1>6, <1>7, <1>8 DEF Next, Indexer, Environment

(* Every step of the indexer is one transaction of the store, or none.     *)
LEMMA StoreStep ==
    ASSUME TypeInv, TypeInv', InFlightMissing, [Next]_vars
    PROVE  [Store!StoreNext]_<<stored, rejects, indexedTo>>
<1> USE DEF storeVars
<1>1. CASE UNCHANGED <<stored, rejects, indexedTo>>
  BY <1>1
<1>2. ASSUME UNCHANGED <<stored, rejects>> PROVE [Store!StoreNext]_<<stored, rejects, indexedTo>>
  <2>1. indexedTo' \in Blocks
    BY DEF TypeInv, TypeOK, StoreTypeOK
  <2>2. Store!UpdateSyncState(indexedTo')
    BY <1>2 DEF Store!UpdateSyncState
  <2> QED
    BY <2>1, <2>2 DEF Store!StoreNext
<1>3. CASE WalkEnds
  <2>1. walkAt \in -1 .. MaxHeight /\ walkAt' = walkAt
    BY <1>3 DEF WalkEnds, walkVars, TypeInv, TypeOK, PollTypeOK
  <2>2. CASE walkAt + 1 \in Blocks
    <3>1. Store!UnwindFrom(walkAt + 1)
      BY <1>3 DEF WalkEnds, UnwindFrom, Store!UnwindFrom, Store!Missing, Missing
    <3> QED
      BY <2>2, <3>1 DEF Store!StoreNext
  <2>3. CASE walkAt + 1 \notin Blocks
    <3>1. \A b \in Blocks : ~(b >= walkAt + 1)
      BY <2>1, <2>3, BoundsAssumption DEF Blocks, BoundsAssumption
    <3>2. stored' = [b \in Blocks |-> stored[b]] /\ stored \in [Blocks -> Versions \cup {Missing}]
      BY <1>3, <3>1 DEF WalkEnds, UnwindFrom, TypeInv, TypeOK, StoreTypeOK
    <3>3. stored' = stored
      BY <3>2
    <3>4. \A r \in rejects : r[1] < walkAt + 1
      BY <2>1, <3>1 DEF TypeInv, TypeOK, StoreTypeOK, Blocks
    <3>5. rejects' = rejects
      BY <1>3, <3>4 DEF WalkEnds, UnwindFrom
    <3> QED
      BY <1>2, <3>3, <3>5
  <2> QED
    BY <2>2, <2>3
<1>4. CASE PersistRejects
  <2>1. block \in Blocks /\ bundle \in Versions
    BY <1>4 DEF PersistRejects, TypeInv, FlightOK
  <2>2. UNCHANGED <<stored, indexedTo>>
    BY <1>4 DEF PersistRejects
  <2>3. CASE rejects' = rejects
    BY <1>1, <2>2, <2>3
  <2>4. CASE rejects' = rejects \cup {<<block, bundle>>}
    BY <2>1, <2>2, <2>4 DEF Store!StoreNext, Store!InsertRejects
  <2> QED
    BY <1>4, <2>3, <2>4 DEF PersistRejects
<1>5. CASE PersistFacts
  <2>1. block \in Blocks /\ bundle \in Versions /\ stored[block] = Missing
    BY <1>5 DEF PersistFacts, TypeInv, FlightOK, InFlightMissing
  <2>2. UNCHANGED <<rejects, indexedTo>>
    BY <1>5 DEF PersistFacts
  <2>3. CASE UNCHANGED stored
    BY <1>1, <2>2, <2>3
  <2>4. CASE stored' = [stored EXCEPT ![block] = bundle]
    <3>1. Store!InsertBlockFacts(block, bundle)
      BY <2>1, <2>2, <2>4 DEF Store!InsertBlockFacts, Store!Missing, Missing
    <3> QED
      BY <2>1, <3>1 DEF Store!StoreNext
  <2> QED
    BY <1>5, <2>3, <2>4 DEF PersistFacts
<1>6. CASE Mine \/ Die \/ RequestStop \/ Restart \/ \E h \in Blocks : Reorg(h)
  BY <1>1, <1>6 DEF Mine, Die, RequestStop, Restart, Reorg
<1>7. CASE Stop \/ HeadFails \/ \E h \in Blocks : PollHead(h)
  BY <1>1, <1>2, <1>7 DEF Stop, HeadFails, PollHead
<1>8. CASE VerifyTip \/ SkipSweep \/ Sweep \/ WalkOn \/ WalkFails \/ UnwindFails
  BY <1>1, <1>8 DEF VerifyTip, SkipSweep, Sweep, WalkOn, WalkFails, UnwindFails
<1>9. CASE Price \/ SkipClassified \/ Fetch \/ FetchFails \/ PersistJit \/ Checkpoint
  BY <1>1, <1>2, <1>9 DEF Price, SkipClassified, Fetch, FetchFails, PersistJit, Checkpoint
<1>10. CASE UNCHANGED vars
  BY <1>1, <1>10 DEF vars
<1> QED
  BY <1>3, <1>4, <1>5, <1>6, <1>7, <1>8, <1>9, <1>10 DEF Next, Indexer, Environment

(* What a reader of the database sees of the indexer is the abstract       *)
(* store: whole blocks, each under one version, that go only from the top  *)
(* (insert_block_facts, insert_rejected_candidate, unwind_from,            *)
(* set_sync_state).                                                        *)
THEOREM IndexerImplementsStore == Spec => StoreImplements
<1>1. Init => InFlightMissing
  BY DEF Init, InFlightMissing
<1>2. Init => Store!StoreInit
  BY BoundsAssumption
  DEF Init, Store!StoreInit, Store!Missing, Missing, BoundsAssumption, Blocks
<1>3. TypeInv /\ TypeInv' /\ InFlightMissing /\ [Next]_vars => [Store!StoreNext]_(Store!storeVars)
  BY StoreStep DEF Store!storeVars
<1> QED
  BY TypeInvariance, <1>1, <1>2, <1>3, InFlightStep, PTL
  DEF Spec, StoreImplements, Store!StoreSpec

-----------------------------------------------------------------------------
(* Where no reorg is deeper than the confirmations.  Everything in the     *)
(* store and in flight is at most at the confirmed height, which no reorg  *)
(* reaches; so the store is canonical, no probe ever mismatches, and       *)
(* nothing is unwound.                                                     *)
ConfirmedHeight == Monus(head, Confirmations)

StoreConfirmed ==
    /\ \A b \in Blocks :
          stored[b] # Missing => stored[b] = chain[b] /\ b <= ConfirmedHeight
    /\ \A r \in rejects : r[2] = chain[r[1]] /\ r[1] <= ConfirmedHeight

LoopConfirmed ==
    /\ safe <= ConfirmedHeight
    /\ pc \in {"rejects", "facts", "jit"} => block <= safe
    /\ pc \in {"rejects", "facts"} => bundle = chain[block]
    /\ pc # "walk"

ConfirmedInv == StoreConfirmed /\ LoopConfirmed

(* A saturating subtraction is monotone.                                   *)
LEMMA MonusMonotone ==
    ASSUME NEW a \in Nat, NEW b \in Nat, NEW c \in Nat, a <= b
    PROVE  Monus(a, c) <= Monus(b, c)
BY DEF Monus

(* A saturating subtraction stays below its first argument's bound.        *)
LEMMA MonusBounded ==
    ASSUME NEW a \in Nat, NEW c \in Nat, NEW m \in Nat, a <= m
    PROVE  Monus(a, c) \in 0 .. m
BY DEF Monus

(* ConfirmedInv holds initially.                                           *)
LEMMA ConfirmedInit == Init => ConfirmedInv
BY BoundsAssumption
   DEF Init, ConfirmedInv, StoreConfirmed, LoopConfirmed, ConfirmedHeight, Monus,
       Blocks, Missing, BoundsAssumption

(* The confirmed part of the chain only grows.                             *)
LEMMA ConfirmedStable ==
    ASSUME MaxDepth <= Confirmations, TypeInv, [Next]_vars
    PROVE  /\ ConfirmedHeight \in Blocks
           /\ ConfirmedHeight' \in Blocks
           /\ ConfirmedHeight <= ConfirmedHeight'
           /\ \A b \in Blocks : b <= ConfirmedHeight => chain'[b] = chain[b]
<1> USE BoundsAssumption
    DEF BoundsAssumption, TypeInv, TypeOK, ChainTypeOK, ConfirmedHeight, Monus, Blocks,
        chainVars
<1>1. CASE UNCHANGED <<chain, head>>
  BY <1>1
<1>2. CASE Mine
  BY <1>2 DEF Mine
<1>3. ASSUME NEW h \in Blocks, Reorg(h)
      PROVE  /\ ConfirmedHeight' \in Blocks /\ ConfirmedHeight <= ConfirmedHeight'
             /\ \A b \in Blocks : b <= ConfirmedHeight => chain'[b] = chain[b]
  <2>1. head' \in Blocks /\ head <= head'
    BY <1>3 DEF Reorg
  <2>2. ConfirmedHeight < h
    BY <1>3 DEF Reorg
  <2>3. \A b \in Blocks : b < h => chain'[b] = chain[b]
    BY <1>3 DEF Reorg
  <2>4. \A b \in Blocks : b <= ConfirmedHeight => chain'[b] = chain[b]
    BY <2>2, <2>3
  <2>5. ConfirmedHeight' \in Blocks /\ ConfirmedHeight <= ConfirmedHeight'
    <3>1. /\ head \in Nat /\ head' \in Nat /\ head <= head' /\ head' <= MaxHeight
          /\ Confirmations \in Nat /\ MaxHeight \in Nat
      BY <2>1
    <3>2. Monus(head, Confirmations) <= Monus(head', Confirmations)
      BY ONLY <3>1, MonusMonotone
    <3>3. Monus(head', Confirmations) \in 0 .. MaxHeight
      BY ONLY <3>1, MonusBounded
    <3> QED
      BY <3>2, <3>3
  <2> QED
    BY <2>4, <2>5
<1>4. ConfirmedHeight \in Blocks
  OBVIOUS
<1>5. CASE Die \/ RequestStop \/ Restart \/ Stop \/ HeadFails
           \/ \E h \in Blocks : PollHead(h)
  BY <1>1, <1>5 DEF Die, RequestStop, Restart, Stop, HeadFails, PollHead
<1>6. CASE VerifyTip \/ SkipSweep \/ Sweep \/ WalkOn \/ WalkFails \/ WalkEnds
           \/ UnwindFails
  BY <1>1, <1>6 DEF VerifyTip, SkipSweep, Sweep, WalkOn, WalkFails, WalkEnds,
                    UnwindFails
<1>7. CASE Price \/ SkipClassified \/ Fetch \/ FetchFails \/ PersistRejects
           \/ PersistFacts \/ PersistJit \/ Checkpoint
  BY <1>1, <1>7 DEF Price, SkipClassified, Fetch, FetchFails, PersistRejects,
                    PersistFacts, PersistJit, Checkpoint
<1>8. CASE UNCHANGED vars
  BY <1>1, <1>8 DEF vars
<1> QED
  BY <1>2, <1>3, <1>4, <1>5, <1>6, <1>7, <1>8 DEF Next, Indexer, Environment

(* What a step stores or adds to the rejects is at or below the confirmed  *)
(* height.                                                                 *)
LEMMA StoreConfirmedStep ==
    ASSUME MaxDepth <= Confirmations, TypeInv, ConfirmedInv, [Next]_vars
    PROVE  StoreConfirmed'
<1> USE DEF ConfirmedInv, StoreConfirmed, LoopConfirmed, TypeInv, TypeOK, StoreTypeOK,
            storeVars, fetchVars
<1>1. /\ ConfirmedHeight \in Blocks /\ ConfirmedHeight' \in Blocks
      /\ ConfirmedHeight <= ConfirmedHeight'
      /\ \A b \in Blocks : b <= ConfirmedHeight => chain'[b] = chain[b]
  BY ConfirmedStable
<1>2. \A b, c, d \in Blocks : b <= c /\ c <= d => b <= d
  BY BoundsAssumption DEF Blocks, BoundsAssumption
<1>3. CASE UNCHANGED <<stored, rejects>>
  <2>1. ASSUME NEW b \in Blocks, stored'[b] # Missing
        PROVE  stored'[b] = chain'[b] /\ b <= ConfirmedHeight'
    BY <1>1, <1>2, <1>3, <2>1
  <2>2. ASSUME NEW r \in rejects'
        PROVE  r[2] = chain'[r[1]] /\ r[1] <= ConfirmedHeight'
    <3>1. r[1] \in Blocks /\ r[1] <= ConfirmedHeight /\ r[2] = chain[r[1]]
      BY <1>3, <2>2
    <3> QED
      BY <1>1, <1>2, <3>1
  <2> QED
    BY <2>1, <2>2 DEF StoreConfirmed, Missing
<1>4. CASE PersistFacts \/ PersistRejects
  <2>1. block \in Blocks /\ block <= ConfirmedHeight /\ bundle = chain[block]
    <3>1. pc \in {"rejects", "facts"}
      BY <1>4 DEF PersistFacts, PersistRejects
    <3>2. block \in Blocks /\ block <= safe /\ bundle = chain[block] /\ safe \in Blocks
      BY <3>1 DEF FlightOK, PollTypeOK
    <3> QED
      BY <1>1, <1>2, <3>2
  <2>2. UNCHANGED chain /\ ConfirmedHeight' = ConfirmedHeight
    BY <1>4 DEF PersistFacts, PersistRejects, chainVars, ConfirmedHeight
  <2>3. \A b \in Blocks :
          stored'[b] # Missing => stored'[b] = chain'[b] /\ b <= ConfirmedHeight'
    <3>1. ASSUME NEW b \in Blocks
          PROVE  stored'[b] = stored[b] \/ (b = block /\ stored'[b] = bundle)
      <4>1. stored' \in {stored, [stored EXCEPT ![block] = bundle]}
        BY <1>4 DEF PersistFacts, PersistRejects
      <4> QED
        BY <4>1
    <3> QED
      BY <2>1, <2>2, <3>1
  <2>4. \A r \in rejects' : r[2] = chain'[r[1]] /\ r[1] <= ConfirmedHeight'
    <3>1. \A r \in rejects' : r \in rejects \/ r = <<block, bundle>>
      BY <1>4 DEF PersistFacts, PersistRejects
    <3> QED
      BY <2>1, <2>2, <3>1
  <2> QED
    BY <2>3, <2>4
<1>5. ~WalkEnds
  BY DEF WalkEnds
<1>6. CASE Mine \/ Die \/ RequestStop \/ Restart \/ \E h \in Blocks : Reorg(h)
  BY <1>3, <1>6 DEF Mine, Die, RequestStop, Restart, Reorg
<1>7. CASE Stop \/ HeadFails \/ \E h \in Blocks : PollHead(h)
  BY <1>3, <1>7 DEF Stop, HeadFails, PollHead
<1>8. CASE VerifyTip \/ SkipSweep \/ Sweep \/ WalkOn \/ WalkFails \/ UnwindFails
  BY <1>3, <1>8 DEF VerifyTip, SkipSweep, Sweep, WalkOn, WalkFails, UnwindFails
<1>9. CASE Price \/ SkipClassified \/ Fetch \/ FetchFails \/ PersistJit \/ Checkpoint
  BY <1>3, <1>9 DEF Price, SkipClassified, Fetch, FetchFails, PersistJit, Checkpoint
<1>10. CASE UNCHANGED vars
  BY <1>3, <1>10 DEF vars
<1> QED
  BY <1>4, <1>5, <1>6, <1>7, <1>8, <1>9, <1>10 DEF Next, Indexer, Environment

(* With a canonical store no probe mismatches, so no walk ever starts; and *)
(* what is fetched is read from the chain at or below the confirmed height.*)
LEMMA LoopConfirmedStep ==
    ASSUME MaxDepth <= Confirmations, TypeInv, ConfirmedInv, [Next]_vars
    PROVE  LoopConfirmed'
<1> USE DEF ConfirmedInv, StoreConfirmed, LoopConfirmed, TypeInv, TypeOK
<1>1. /\ ConfirmedHeight \in Blocks /\ ConfirmedHeight' \in Blocks
      /\ ConfirmedHeight <= ConfirmedHeight'
      /\ \A b \in Blocks : b <= ConfirmedHeight => chain'[b] = chain[b]
  BY ConfirmedStable
<1>2. /\ safe \in Blocks /\ indexedTo \in Blocks /\ Monus(cursor, 1) \in Blocks
      /\ block \in 0 .. MaxHeight + 1 /\ MaxHeight \in Nat
  BY BoundsAssumption
  DEF PollTypeOK, StoreTypeOK, Monus, Blocks, BoundsAssumption
<1>3. CASE UNCHANGED <<pc, safe, block, bundle>>
  <2>1. safe <= ConfirmedHeight'
    BY <1>1, <1>2 DEF Blocks
  <2>2. pc \in {"rejects", "facts"} => chain'[block] = chain[block]
    BY <1>1, <1>2 DEF FlightOK, Blocks
  <2> QED
    BY <1>3, <2>1, <2>2
<1>4. ASSUME safe' <= ConfirmedHeight', pc' \notin {"rejects", "facts", "jit", "walk"}
      PROVE  LoopConfirmed'
  BY <1>4
<1>5. CASE UNCHANGED safe /\ pc' \notin {"rejects", "facts", "jit", "walk"}
  BY <1>1, <1>2, <1>4, <1>5 DEF Blocks
<1>6. ASSUME NEW h \in Blocks, PollHead(h) PROVE LoopConfirmed'
  <2>1. h <= head /\ safe' = Monus(h, Confirmations) /\ UNCHANGED head
    BY <1>6 DEF PollHead, SafeHead, chainVars
  <2>2. safe' <= ConfirmedHeight'
    <3>1. h \in Nat /\ head \in Nat /\ Confirmations \in Nat
      BY BoundsAssumption DEF ChainTypeOK, Blocks, BoundsAssumption
    <3>2. ConfirmedHeight' = Monus(head, Confirmations)
      BY <2>1 DEF ConfirmedHeight
    <3> QED
      BY <2>1, <3>1, <3>2, MonusMonotone
  <2>3. pc' \in {"verify", "poll", "aborted"}
    BY <1>6 DEF PollHead, StartSession, ResumeSession
  <2> QED
    BY <1>4, <2>2, <2>3
<1>7. ~ProbeMismatch(indexedTo) /\ ~ProbeMismatch(Monus(cursor, 1))
  BY <1>2 DEF ProbeMismatch
<1>8. CASE VerifyTip \/ Sweep
  BY <1>5, <1>7, <1>8 DEF VerifyTip, Sweep, CountFailure, pollVars
<1>9. CASE Fetch
  BY <1>1, <1>2, <1>9 DEF Fetch, pollVars, chainVars, ConfirmedHeight, Blocks
<1>10. CASE PersistRejects \/ PersistFacts
  <2>1. UNCHANGED <<chain, head, safe, block, bundle>>
    BY <1>10
    DEF PersistRejects, PersistFacts, BlockFails, pollVars, chainVars, fetchVars
  <2>2. pc' \in {"facts", "jit", "poll", "aborted"}
    BY <1>10 DEF PersistRejects, PersistFacts, BlockFails, CountFailure
  <2>3. pc \in {"rejects", "facts"}
    BY <1>10 DEF PersistRejects, PersistFacts
  <2> QED
    BY <2>1, <2>2, <2>3 DEF ConfirmedHeight
<1>11. CASE PersistJit
  BY <1>5, <1>11 DEF PersistJit, NextInRange, BlockFails, CountFailure, pollVars
<1>13. CASE Mine \/ Die \/ RequestStop \/ HeadFails \/ \E h \in Blocks : Reorg(h)
  BY <1>3, <1>13 DEF Mine, Die, RequestStop, HeadFails, Reorg, pollVars, fetchVars
<1>14. CASE Restart \/ Stop \/ SkipSweep
  BY <1>5, <1>14 DEF Restart, Stop, SkipSweep, pollVars
<1>15. CASE WalkOn \/ WalkFails \/ WalkEnds \/ UnwindFails
  BY <1>15 DEF WalkOn, WalkFails, WalkEnds, UnwindFails
<1>16. CASE Price \/ SkipClassified \/ FetchFails \/ Checkpoint
  BY <1>5, <1>16 DEF Price, SkipClassified, FetchFails, Checkpoint, NextInRange,
                     BlockFails, CountFailure, pollVars
<1>17. CASE UNCHANGED vars
  BY <1>3, <1>17 DEF vars, pollVars, fetchVars
<1> QED
  BY <1>6, <1>8, <1>9, <1>10, <1>11, <1>13, <1>14, <1>15, <1>16, <1>17
  DEF Next, Indexer, Environment

(* Where reorgs are no deeper than the confirmations, ConfirmedInv is an   *)
(* invariant.                                                              *)
LEMMA ConfirmedInvariance == MaxDepth <= Confirmations => (Spec => []ConfirmedInv)
<1> SUFFICES ASSUME MaxDepth <= Confirmations PROVE Spec => []ConfirmedInv
  OBVIOUS
<1>1. TypeInv /\ ConfirmedInv /\ [Next]_vars => ConfirmedInv'
  BY StoreConfirmedStep, LoopConfirmedStep DEF ConfirmedInv
<1> QED
  BY TypeInvariance, ConfirmedInit, <1>1, PTL DEF Spec

(* The confirmation lag keeps the index on the canonical chain: where no   *)
(* reorg is deeper than it, every stored block is the chain's (safe_head,  *)
(* run_live).                                                              *)
THEOREM StoreIsCanonical == MaxDepth <= Confirmations => (Spec => []StoredCanonical)
<1>1. ConfirmedInv => StoredCanonical
  BY DEF ConfirmedInv, StoreConfirmed, StoredCanonical
<1> QED
  BY ConfirmedInvariance, <1>1, PTL

(* The same of the reject rows, although they are committed before the     *)
(* block they belong to (index_block_fetched).                             *)
THEOREM RejectsAreCanonical == MaxDepth <= Confirmations => (Spec => []RejectsCanonical)
<1>1. ConfirmedInv => RejectsCanonical
  BY DEF ConfirmedInv, StoreConfirmed, RejectsCanonical
<1> QED
  BY ConfirmedInvariance, <1>1, PTL

-----------------------------------------------------------------------------
(* No gap within a session.  What the session has behind it is filled: up  *)
(* to the block pinned for the next poll, to the cursor of this poll, and, *)
(* while indexing, to the block in hand.                                   *)
Filled(a, b) == \A c \in Blocks : a <= c /\ c < b => stored[c] # Missing

BeforeIndexing == pc \in {"verify", "sweep", "price"}
Indexing == pc \in {"index", "rejects", "facts", "jit"}

SessionInv ==
    /\ nextBlock # NoBlock => first # NoBlock /\ Filled(first, nextBlock)
    /\ BeforeIndexing => first # NoBlock /\ Filled(first, cursor)
    /\ Indexing => first # NoBlock /\ Filled(first, block)
    /\ pc = "jit" => stored[block] # Missing
    /\ SessionGapFree

(* Every step preserves SessionInv.                                        *)
LEMMA SessionStep ==
    ASSUME MaxDepth <= Confirmations, TypeInv, ConfirmedInv, SessionInv, [Next]_vars
    PROVE  SessionInv'
<1> USE DEF SessionInv, BeforeIndexing, Indexing
<1>1. \A c \in Blocks : stored[c] # Missing => stored'[c] # Missing
  BY OnlyWalkEndsRemoves DEF Removed, ConfirmedInv, LoopConfirmed, WalkEnds
<1>2. /\ \A a, b : Filled(a, b) => Filled(a, b)'
      /\ UNCHANGED <<first, indexedTo>> => SessionGapFree'
  BY <1>1 DEF Filled, SessionGapFree
<1>3. /\ first \in Int /\ cursor \in Int /\ block \in Int /\ safe \in Int
      /\ indexedTo \in Int /\ nextBlock \in Int /\ \A c \in Blocks : c \in Int
  BY BoundsAssumption
  DEF TypeInv, TypeOK, PollTypeOK, StoreTypeOK, Blocks, BoundsAssumption
<1>4. CASE UNCHANGED <<pc, nextBlock, first, cursor, block, indexedTo>>
  <2>1. pc = "jit" => block \in Blocks
    BY DEF TypeInv, FlightOK
  <2> QED
    BY <1>1, <1>2, <1>4, <2>1
<1>5. CASE UNCHANGED <<nextBlock, first, indexedTo>> /\ pc' \in {"poll", "stopped", "aborted"}
  BY <1>2, <1>5
<1>6. CASE /\ UNCHANGED <<nextBlock, first, cursor, indexedTo>>
           /\ BeforeIndexing /\ BeforeIndexing'
  BY <1>2, <1>6
<1>7. CASE /\ UNCHANGED <<nextBlock, first, block, indexedTo>>
           /\ Indexing /\ pc' \in {"rejects", "facts"}
  BY <1>2, <1>7
<1>8. CASE /\ UNCHANGED <<nextBlock, first, indexedTo>>
           /\ Indexing /\ stored[block] # Missing
           /\ block' = block + 1 /\ pc' = "index"
  <2>1. Filled(first, block + 1)
    BY <1>3, <1>8 DEF Filled
  <2> QED
    BY <1>2, <1>8, <2>1
<1>9. CASE /\ UNCHANGED <<first, indexedTo>> /\ Indexing
           /\ nextBlock' = block /\ pc' \in {"poll", "aborted"}
  BY <1>2, <1>9
<1>10. ASSUME NEW h \in Blocks, PollHead(h) PROVE SessionInv'
  <2> DEFINE s == SafeHead(h)
  <2>1. s \in Nat
    BY BoundsAssumption DEF SafeHead, Monus, Blocks, BoundsAssumption
  <2>2. \A e \in Int : TipJumpCheckpoint(e, s) < s \/ TipJumpCheckpoint(e, s) = 0
    BY <2>1 DEF TipJumpCheckpoint, Monus, Least
  <2>3. UNCHANGED stored
    BY <1>10 DEF PollHead
  <2>4. CASE pc' = "verify" /\ first' = s /\ cursor' = s /\ nextBlock' = NoBlock
             /\ (indexedTo' < s \/ indexedTo' = 0) /\ indexedTo' \in Int
    <3>1. s # NoBlock
      BY <2>1 DEF NoBlock
    <3>2. Filled(s, s)' /\ SessionGapFree'
      BY <1>3, <2>1, <2>4 DEF Filled, SessionGapFree
    <3> QED
      BY <2>4, <3>1, <3>2
  <2>5. CASE StartSession(s)
    <3>1. CASE UNCHANGED <<nextBlock, first, indexedTo>> /\ pc' = "aborted"
      BY <1>5, <3>1
    <3>2. CASE pc' = "verify" /\ first' = s
      <4>1. indexedTo' \in {TipJumpCheckpoint(indexedTo, s), TipJumpCheckpoint(0, s)}
        BY <2>5, <3>2 DEF StartSession
      <4>2. indexedTo' < s \/ indexedTo' = 0
        BY <1>3, <2>2, <4>1
      <4>3. indexedTo' \in Int
        BY <1>3, <2>1, <4>1 DEF TipJumpCheckpoint, Monus, Least
      <4> QED
        BY <2>4, <2>5, <3>2, <4>2, <4>3 DEF StartSession
    <3> QED
      BY <2>5, <3>1, <3>2 DEF StartSession
  <2>6. CASE ResumeSession(s)
    <3>1. /\ nextBlock # NoBlock /\ cursor' = nextBlock /\ pc' \in {"verify", "poll"}
          /\ UNCHANGED <<nextBlock, first, indexedTo>>
      BY <2>6 DEF ResumeSession
    <3> QED
      BY <1>2, <3>1
  <2> QED
    BY <1>10, <2>5, <2>6 DEF PollHead
<1>11. CASE Restart
  BY <1>11 DEF Restart, NoBlock, SessionGapFree
<1>12. CASE VerifyTip \/ Sweep \/ SkipSweep
  <2>1. ~ProbeMismatch(indexedTo) /\ ~ProbeMismatch(Monus(cursor, 1))
    BY BoundsAssumption
    DEF ProbeMismatch, ConfirmedInv, StoreConfirmed, TypeInv, TypeOK, StoreTypeOK,
        PollTypeOK, Monus, Blocks, BoundsAssumption
  <2>2. BeforeIndexing /\ pc' \in {"sweep", "price", "poll", "aborted"}
    BY <1>12, <2>1 DEF VerifyTip, Sweep, SkipSweep, CountFailure
  <2>3. UNCHANGED <<nextBlock, first, cursor, indexedTo>>
    BY <1>12 DEF VerifyTip, Sweep, SkipSweep, pollVars, storeVars
  <2> QED
    BY <1>5, <1>6, <2>2, <2>3
<1>13. CASE Price
  <2>1. UNCHANGED <<nextBlock, first, cursor, indexedTo>> /\ pc = "price"
    BY <1>13 DEF Price, pollVars, storeVars
  <2>2. CASE pc' = "index" /\ block' = cursor
    BY <1>2, <2>1, <2>2
  <2> QED
    BY <1>5, <1>13, <2>1, <2>2 DEF Price, CountFailure
<1>14. CASE SkipClassified
  BY <1>8, <1>14 DEF SkipClassified, NextInRange, pollVars, storeVars
<1>15. CASE Fetch
  BY <1>7, <1>15 DEF Fetch, pollVars, storeVars
<1>16. CASE FetchFails
  BY <1>9, <1>16 DEF FetchFails, BlockFails, CountFailure, storeVars
<1>17. CASE PersistRejects
  BY <1>7, <1>9, <1>17
  DEF PersistRejects, BlockFails, CountFailure, pollVars, fetchVars
<1>18. CASE PersistFacts
  <2>1. CASE StoreFails /\ BlockFails
    BY <1>9, <1>18, <2>1 DEF PersistFacts, BlockFails, CountFailure
  <2>2. CASE stored' = [stored EXCEPT ![block] = bundle] /\ pc' = "jit" /\ UNCHANGED pollVars
    <3>1. stored'[block] # Missing
      BY <1>18, <2>2, BoundsAssumption
      DEF PersistFacts, TypeInv, TypeOK, StoreTypeOK, FlightOK, Versions, Missing,
          BoundsAssumption
    <3>2. UNCHANGED <<nextBlock, first, block, indexedTo>> /\ pc = "facts"
      BY <1>18, <2>2 DEF PersistFacts, pollVars, fetchVars
    <3> QED
      BY <1>2, <2>2, <3>1, <3>2
  <2> QED
    BY <1>18, <2>1, <2>2 DEF PersistFacts
<1>19. CASE PersistJit
  BY <1>8, <1>9, <1>19 DEF PersistJit, NextInRange, BlockFails, CountFailure, pollVars
<1>20. CASE Checkpoint
  <2>1. CASE pc' = "aborted" /\ UNCHANGED <<indexedTo, nextBlock>>
    BY <1>5, <1>20, <2>1 DEF Checkpoint
  <2>2. CASE indexedTo' = safe /\ nextBlock' = safe + 1 /\ pc' = "poll"
    <3>1. first # NoBlock /\ Filled(first, safe + 1)
      BY <1>3, <1>20 DEF Checkpoint, Filled
    <3>2. SessionGapFree'
      BY <1>1, <1>3, <1>20, <2>2, <3>1 DEF Checkpoint, Filled, SessionGapFree
    <3> QED
      BY <1>2, <1>20, <2>2, <3>1, <3>2 DEF Checkpoint
  <2> QED
    BY <1>20, <2>1, <2>2 DEF Checkpoint
<1>21. CASE Mine \/ Die \/ RequestStop \/ HeadFails \/ \E h \in Blocks : Reorg(h)
  BY <1>4, <1>21
  DEF Mine, Die, RequestStop, HeadFails, Reorg, pollVars, fetchVars, storeVars
<1>22. CASE Stop
  BY <1>5, <1>22 DEF Stop, pollVars, storeVars
<1>23. CASE WalkOn \/ WalkFails \/ WalkEnds \/ UnwindFails
  BY <1>23 DEF WalkOn, WalkFails, WalkEnds, UnwindFails, ConfirmedInv, LoopConfirmed
<1>24. CASE UNCHANGED vars
  BY <1>4, <1>24 DEF vars, pollVars, fetchVars, storeVars
<1> QED
  BY <1>10, <1>11, <1>12, <1>13, <1>14, <1>15, <1>16, <1>17, <1>18, <1>19, <1>20,
     <1>21, <1>22, <1>23, <1>24
  DEF Next, Indexer, Environment

(* "A partially indexed range must never be recorded as complete": without *)
(* reorgs deeper than the confirmations, no block of the session that is   *)
(* at or below the checkpoint is missing, whichever calls failed and       *)
(* whenever the process was restarted (after_block_attempt,                *)
(* checkpoint_target, run_live).                                           *)
THEOREM SessionHasNoGap == MaxDepth <= Confirmations => (Spec => []SessionGapFree)
<1> SUFFICES ASSUME MaxDepth <= Confirmations PROVE Spec => []SessionGapFree
  OBVIOUS
<1>1. Init => SessionInv
  BY DEF Init, SessionInv, BeforeIndexing, Indexing, SessionGapFree
<1>2. TypeInv /\ ConfirmedInv /\ SessionInv /\ [Next]_vars => SessionInv'
  BY SessionStep
<1>3. SessionInv => SessionGapFree
  BY DEF SessionInv
<1> QED
  BY TypeInvariance, ConfirmedInvariance, <1>1, <1>2, <1>3, PTL DEF Spec
=============================================================================
