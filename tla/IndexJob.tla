-------------------------------- MODULE IndexJob -------------------------------
(***************************************************************************)
(* The index job (core/src/jobs/index.rs, job_index): run_live joined with *)
(* a task that watches for a cancel and a task that sleeps up to the       *)
(* deadline.  The three share one stop flag, and the job returns when all  *)
(* three have.                                                             *)
(***************************************************************************)
EXTENDS ExplorerIndex

VARIABLES
    limited,      \* the job has a --duration
    cancelled,    \* progress.cancelled()
    cancelPoll,   \* cancel_poll is still running
    deadlinePoll, \* deadline_poll is still running
    joined        \* tokio::join! has returned

jobVars == <<limited, cancelled, cancelPoll, deadlinePoll, joined>>

JobInit ==
    /\ Init
    /\ limited \in BOOLEAN /\ cancelled = FALSE
    /\ cancelPoll = TRUE /\ deadlinePoll = limited /\ joined = FALSE

-----------------------------------------------------------------------------
\* run_live and the chain, which know of the job only the stop flag.
RunLive == Indexer /\ UNCHANGED jobVars

Chain == (Mine \/ Die \/ \E h \in Blocks : Reorg(h)) /\ UNCHANGED jobVars

Cancel ==
    /\ ~cancelled /\ ~joined
    /\ cancelled' = TRUE
    /\ UNCHANGED <<vars, limited, cancelPoll, deadlinePoll, joined>>

SetStop ==
    /\ stop' = TRUE
    /\ UNCHANGED <<chainVars, storeVars, pollVars, walkVars, fetchVars, pc,
                   sinceSweep, failures, errors, restarts>>

(* Every 200 ms: a cancel is passed on, a stop by the deadline noticed.    *)
CancelPoll ==
    /\ cancelPoll
    /\ \/ cancelled /\ SetStop
       \/ ~cancelled /\ stop /\ UNCHANGED vars
    /\ cancelPoll' = FALSE
    /\ UNCHANGED <<limited, cancelled, deadlinePoll, joined>>

\* Mutant: the deadline only ends its own task.
DeadlineForgets ==
    /\ deadlinePoll
    /\ UNCHANGED vars
    /\ deadlinePoll' = FALSE
    /\ UNCHANGED <<limited, cancelled, cancelPoll, joined>>

(* The sleep is over.  No cancel cuts it short.                            *)
Deadline ==
    /\ deadlinePoll
    /\ SetStop
    /\ deadlinePoll' = FALSE
    /\ UNCHANGED <<limited, cancelled, cancelPoll, joined>>

Join ==
    /\ Ended /\ ~cancelPoll /\ ~deadlinePoll /\ ~joined
    /\ joined' = TRUE
    /\ UNCHANGED <<vars, limited, cancelled, cancelPoll, deadlinePoll>>

JobNext == RunLive \/ Chain \/ Cancel \/ CancelPoll \/ Deadline \/ Join

(* The tasks are polled by one runtime; time passes.  Nothing makes a user *)
(* cancel.                                                                 *)
JobSpec ==
    /\ JobInit /\ [][JobNext]_<<vars, jobVars>>
    /\ WF_<<vars, jobVars>>(RunLive)
    /\ WF_<<vars, jobVars>>(CancelPoll) /\ WF_<<vars, jobVars>>(Deadline)
    /\ WF_<<vars, jobVars>>(Join)

-----------------------------------------------------------------------------
(* A cancel ends the job, and so does its duration, whatever run_live is   *)
(* doing, whether providers answer or not, and when run_live gave up       *)
(* before (cancel_poll, deadline_poll).                                    *)
StopEndsJob == (cancelled \/ limited) ~> joined

=============================================================================
