------------------------------ MODULE WorkerLoop ------------------------------
(***************************************************************************)
(* quant/queue/worker_loop.py: the single process that claims QUEUED jobs, *)
(* starts a worker for each and ends the ones that hang, die or are        *)
(* cancelled.                                                              *)
(*                                                                         *)
(* lpc says which call the loop makes next.  Every database call is a step *)
(* of its own, since the API and the workers write the same rows between   *)
(* them; todo is the list a phase iterates over, as it was when read, and  *)
(* cur the job a pending write is for.  The order within a list is left    *)
(* open.  A SIGKILL is taken to end the child within the 5 s the loop      *)
(* waits for it.                                                           *)
(***************************************************************************)
EXTENDS BacktestWorker

CONSTANTS
    MaxConcurrent,     \* MAX_CONCURRENT_WORKERS
    OrphansSurvive,    \* do children outlive the loop's process?  Not when it
                       \* is PID 1 of its container; yes when started by hand
    MaxFaults          \* bound on restarts of the loop

ASSUME LoopAssumption ==
    /\ MaxConcurrent \in Nat \ {0}
    /\ OrphansSurvive \in BOOLEAN
    /\ MaxFaults \in Nat

\* recover_stale sees every RUNNING row: they fit in one listing.
ASSUME CapacityAssumption == MaxConcurrent <= ListLimit

VARIABLES
    lpc,          \* the loop's control point
    todo,         \* the jobs left of the list the current phase iterates over
    cur,          \* the job in hand
    active,       \* keys of _active
    expired,      \* keys of _active started JOB_TIMEOUT_S ago or more
    running,      \* _running
    faults        \* restarts so far

loopVars == <<lpc, todo, cur, active, expired, running, faults>>

\* Where a write for cur is due.
Writing == {"reapwrite", "cancelwrite", "timeoutwrite", "claim", "spawn"}

Control ==
    {"down", "recover", "reap", "reaping", "cancels", "cancelling",
     "timeouts", "killing", "fill", "wait", "drain"} \cup Writing

LoopTypeOK ==
    /\ lpc \in Control
    /\ todo \in SUBSET Job
    /\ cur \in Job \cup {NoJob}
    /\ active \in SUBSET Job
    /\ expired \in SUBSET active
    /\ running \in BOOLEAN
    /\ faults \in 0 .. MaxFaults

LoopInit ==
    /\ lpc = "down"
    /\ todo = {}
    /\ cur = NoJob
    /\ active = {}
    /\ expired = {}
    /\ running = FALSE
    /\ faults = 0

\* _active.pop(j, None)
Drop(j) ==
    /\ active' = active \ {j}
    /\ expired' = expired \ {j}

\* The pending mark_terminal of cur, from the row the loop holds for it.
MarkTerminal(at, s, next) ==
    /\ lpc = at
    /\ SP_INS_QUEUE(cur, s)
    /\ lpc' = next
    /\ cur' = NoJob
    /\ UNCHANGED <<todo, running, faults, workerVars>>

\* The list of a phase is used up.
PhaseDone(at, next) ==
    /\ lpc = at
    /\ todo = {}
    /\ lpc' = next
    /\ UNCHANGED <<todo, cur, active, expired, running, faults, workerVars, queueVars>>

-----------------------------------------------------------------------------
(* Boot recovery.                                                          *)

\* run starts: _running is set and recover_stale lists the RUNNING rows.
Boot ==
    /\ lpc = "down"
    /\ lpc' = "recover"
    /\ running' = TRUE
    /\ todo' = SP_GET_QUEUE("RUNNING")
    /\ UNCHANGED <<cur, active, expired, faults, workerVars, queueVars>>

\* A plausible bug: an orphaned job put back in the queue instead of failed.
RecoverOne_Requeue(j) ==
    /\ lpc = "recover"
    /\ j \in todo
    /\ SP_INS_QUEUE(j, "QUEUED")
    /\ todo' = todo \ {j}
    /\ UNCHANGED <<lpc, cur, active, expired, running, faults, workerVars>>

\* recover_stale ends one listed job.
RecoverOne(j) ==
    /\ lpc = "recover"
    /\ j \in todo
    /\ SP_INS_QUEUE(j, "FAILED")
    /\ todo' = todo \ {j}
    /\ UNCHANGED <<lpc, cur, active, expired, running, faults, workerVars>>

\* The while of run: a tick, unless stop() came first.
AfterRecover == PhaseDone("recover", IF running THEN "reap" ELSE "drain")

-----------------------------------------------------------------------------
(* _reap_children.                                                         *)

\* The children that have exited so far.
ReapScan ==
    /\ lpc = "reap"
    /\ todo' = {j \in active : proc[j] \notin Live}
    /\ lpc' = "reaping"
    /\ UNCHANGED <<cur, active, expired, running, faults, workerVars, queueVars>>

\* Pop a finished child; after a non-zero exit re-read its row, which is
\* marked FAILED only when it still says RUNNING.
ReapOne(j) ==
    /\ lpc = "reaping"
    /\ j \in todo
    /\ todo' = todo \ {j}
    /\ Drop(j)
    /\ IF proc[j] = "exit1" /\ status[j] = "RUNNING"
       THEN lpc' = "reapwrite" /\ cur' = j
       ELSE UNCHANGED <<lpc, cur>>
    /\ UNCHANGED <<running, faults, workerVars, queueVars>>

ReapWrite == MarkTerminal("reapwrite", "FAILED", "reaping") /\ UNCHANGED <<active, expired>>

AfterReap == PhaseDone("reaping", "cancels")

-----------------------------------------------------------------------------
(* _enforce_cancels.                                                       *)

\* A plausible bug: only requests for this loop's own children observed.
CancelScan_OwnChildren ==
    /\ lpc = "cancels"
    /\ todo' = SP_GET_QUEUE("CANCEL_REQUESTED") \cap active
    /\ lpc' = "cancelling"
    /\ UNCHANGED <<cur, active, expired, running, faults, workerVars, queueVars>>

\* The CANCEL_REQUESTED rows, those of a loop that died included.
CancelScan ==
    /\ lpc = "cancels"
    /\ todo' = SP_GET_QUEUE("CANCEL_REQUESTED")
    /\ lpc' = "cancelling"
    /\ UNCHANGED <<cur, active, expired, running, faults, workerVars, queueVars>>

\* A plausible bug: the entry popped and the child left running.
CancelStop_NoKill(j) ==
    /\ lpc = "cancelling"
    /\ j \in todo
    /\ todo' = todo \ {j}
    /\ Drop(j)
    /\ lpc' = "cancelwrite"
    /\ cur' = j
    /\ UNCHANGED <<running, faults, workerVars, queueVars>>

\* _stop_child on the job's child, if this loop has one.
CancelStop(j) ==
    /\ lpc = "cancelling"
    /\ j \in todo
    /\ todo' = todo \ {j}
    /\ Drop(j)
    /\ proc' = Killed(active \cap {j})
    /\ lpc' = "cancelwrite"
    /\ cur' = j
    /\ UNCHANGED <<running, faults, spawns, result, queueVars>>

\* CANCELLED, from the row as it was listed.
CancelledWrite ==
    MarkTerminal("cancelwrite", "CANCELLED", "cancelling") /\ UNCHANGED <<active, expired>>

AfterCancels == PhaseDone("cancelling", "timeouts")

-----------------------------------------------------------------------------
(* _enforce_timeouts.                                                      *)

\* now is read once, for all the children.
TimeoutScan ==
    /\ lpc = "timeouts"
    /\ todo' = expired
    /\ lpc' = "killing"
    /\ UNCHANGED <<cur, active, expired, running, faults, workerVars, queueVars>>

\* A child that exited by itself is left to the next _reap_children; one
\* still alive is killed.
TimeoutKill(j) ==
    /\ lpc = "killing"
    /\ j \in todo
    /\ todo' = todo \ {j}
    /\ proc' = Killed({j})
    /\ IF proc[j] \in Live
       THEN lpc' = "timeoutwrite" /\ cur' = j
       ELSE UNCHANGED <<lpc, cur>>
    /\ UNCHANGED <<active, expired, running, faults, spawns, result, queueVars>>

\* FAILED, from the row of the claim, without another look at the table.
TimeoutWrite == MarkTerminal("timeoutwrite", "FAILED", "killing") /\ Drop(cur)

AfterTimeouts == PhaseDone("killing", "fill")

-----------------------------------------------------------------------------
(* Filling the capacity.                                                   *)

HasRoom == Cardinality(active) < MaxConcurrent

\* claim_next, the read: the head of the listed QUEUED rows.
ClaimRead(j) ==
    /\ lpc = "fill"
    /\ running
    /\ HasRoom
    /\ j \in Heads(SP_GET_QUEUE("QUEUED"))
    /\ cur' = j
    /\ lpc' = "claim"
    /\ UNCHANGED <<todo, active, expired, running, faults, workerVars, queueVars>>

\* claim_next, the write.
ClaimWrite ==
    /\ lpc = "claim"
    /\ SP_INS_QUEUE(cur, "RUNNING")
    /\ lpc' = "spawn"
    /\ UNCHANGED <<todo, cur, active, expired, running, faults, workerVars>>

\* _spawn and the entry in _active.
Spawn ==
    /\ lpc = "spawn"
    /\ SpawnWorker(cur)
    /\ active' = active \cup {cur}
    /\ cur' = NoJob
    /\ lpc' = "fill"
    /\ UNCHANGED <<todo, expired, running, faults, queueVars>>

\* No capacity, nothing queued, or stop(): the tick is over.
AfterFill ==
    /\ lpc = "fill"
    /\ ~running \/ ~HasRoom \/ SP_GET_QUEUE("QUEUED") = {}
    /\ lpc' = IF running THEN "wait" ELSE "drain"
    /\ UNCHANGED <<todo, cur, active, expired, running, faults, workerVars, queueVars>>

-----------------------------------------------------------------------------
(* Waiting and shutting down.                                              *)

\* wait_for_wake returns, on a token or after 30 s, and the while of run
\* looks at _running.
WaitForWake ==
    /\ lpc = "wait"
    /\ lpc' = IF running THEN "reap" ELSE "drain"
    /\ UNCHANGED <<todo, cur, active, expired, running, faults, workerVars, queueVars>>

\* _drain, one child: it exits in time or is killed.
DrainOne(j) ==
    /\ lpc = "drain"
    /\ j \in active
    /\ Drop(j)
    /\ proc' = Killed({j})
    /\ UNCHANGED <<lpc, todo, cur, running, faults, spawns, result, queueVars>>

\* main returns.
AfterDrain ==
    /\ lpc = "drain"
    /\ active = {}
    /\ lpc' = "down"
    /\ UNCHANGED <<todo, cur, active, expired, running, faults, workerVars, queueVars>>

\* SIGTERM or SIGINT while the loop is up.
Stop ==
    /\ lpc # "down"
    /\ running
    /\ faults < MaxFaults
    /\ faults' = faults + 1
    /\ running' = FALSE
    /\ UNCHANGED <<lpc, todo, cur, active, expired, workerVars, queueVars>>

\* The loop's process ends between two calls: an error of the database or of
\* Redis leaves run through main, a spawn fails, the host kills it.
LoopCrash ==
    /\ lpc # "down"
    /\ faults < MaxFaults
    /\ faults' = faults + 1
    /\ lpc' = "down"
    /\ todo' = {}
    /\ cur' = NoJob
    /\ active' = {}
    /\ expired' = {}
    /\ running' = FALSE
    /\ proc' = IF OrphansSurvive THEN proc ELSE Killed(Job)
    /\ UNCHANGED <<spawns, result, queueVars>>

\* JOB_TIMEOUT_S have passed since j was started.
Expire(j) ==
    /\ j \in active \ expired
    /\ expired' = expired \cup {j}
    /\ UNCHANGED <<lpc, todo, cur, active, running, faults, workerVars, queueVars>>

\* The steps of the loop's own thread, its restart by the supervisor included.
LoopStep ==
    \/ Boot \/ AfterRecover
    \/ ReapScan \/ ReapWrite \/ AfterReap
    \/ CancelScan \/ CancelledWrite \/ AfterCancels
    \/ TimeoutScan \/ TimeoutWrite \/ AfterTimeouts
    \/ ClaimWrite \/ Spawn \/ AfterFill
    \/ WaitForWake \/ AfterDrain
    \/ \E j \in Job :
          \/ RecoverOne(j) \/ ReapOne(j) \/ CancelStop(j)
          \/ TimeoutKill(j) \/ ClaimRead(j) \/ DrainOne(j)

LoopNext == LoopStep \/ Stop \/ LoopCrash \/ \E j \in Job : Expire(j)
=============================================================================
