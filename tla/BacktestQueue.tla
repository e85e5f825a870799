----------------------------- MODULE BacktestQueue -----------------------------
(***************************************************************************)
(* The backtest queue as it is deployed: API request threads, one worker   *)
(* loop and the worker processes it starts, all writing BT.QUEUE.          *)
(***************************************************************************)
EXTENDS JobsService, WorkerLoop

vars == <<queueVars, req, workerVars, loopVars>>

Init == QueueInit /\ JobsInit /\ WorkerInit /\ LoopInit

\* A request thread, the loop or a worker makes a step.
Next ==
    \/ JobsNext /\ UNCHANGED <<workerVars, loopVars>>
    \/ LoopNext /\ UNCHANGED req
    \/ (\E j \in Job : WorkerStep(j)) /\ UNCHANGED <<req, loopVars>>

Spec == Init /\ [][Next]_vars

\* The loop's thread runs and its supervisor restarts it; time passes.
\* Nothing is assumed of the users or of the workers, which may hang.
Fairness ==
    /\ WF_vars(LoopStep /\ UNCHANGED req)
    /\ \A j \in Job : WF_vars(Expire(j) /\ UNCHANGED req)

FairSpec == Spec /\ Fairness

-----------------------------------------------------------------------------
(* Invariants.                                                             *)

\* Every variable keeps the type of the column, field or process it stands for.
TypeOK == QueueTypeOK /\ JobsTypeOK /\ WorkerTypeOK /\ LoopTypeOK

\* No job is run twice.  "Never auto-requeue": partial results may exist, so
\* neither the recovery after a restart of the loop nor a race between a
\* cancel and a claim may hand a job to a second worker process.
SpawnedAtMostOnce == \A j \in Job : spawns[j] <= 1

\* No RUNNING row is stranded: while the loop is in its tick, it holds the
\* child of every RUNNING row or is about to write the row.  A crash between
\* the RUNNING row and the spawn, or before a dead child was reaped, leaves
\* rows only boot recovery can see, and recovery must see all of them.
RunningOwned ==
    \A j \in Job : status[j] = "RUNNING" =>
        \/ j \in active
        \/ lpc \in {"down", "drain"}
        \/ lpc = "recover" /\ j \in todo
        \/ lpc \in {"spawn", "reapwrite"} /\ cur = j

\* A job that reads COMPLETED has its result, whatever killed the worker or
\* the loop in between.
CompletedHasResult == \A j \in Job : status[j] = "COMPLETED" => j \in result

\* A loop whose children die with it never has more workers alive than
\* max_concurrent, across crashes, cancels and timeouts.
AtMostMaxConcurrent ==
    ~OrphansSurvive => Cardinality({j \in Job : proc[j] \in Live}) <= MaxConcurrent

\* The loop ends a job only when no worker of the job is left to land a row
\* on top of that verdict (the order _enforce_cancels insists on).
VerdictAfterDeath ==
    ~OrphansSurvive =>
        /\ lpc \in {"reapwrite", "cancelwrite", "timeoutwrite"} => proc[cur] \notin Live
        /\ lpc = "recover" => \A j \in todo : proc[j] \notin Live

-----------------------------------------------------------------------------
(* Action properties.                                                      *)

\* A terminal row nobody is still acting on: no worker alive, no cancel in
\* flight, not in the loop's hands.
AtRest(j) ==
    /\ status[j] \in Terminal
    /\ proc[j] \notin Live
    /\ \A h \in Handler : req[h].at = "cancel" => req[h].job # j
    /\ cur # j
    /\ lpc \in {"recover", "cancelling"} => j \notin todo

\* What comes to rest in a terminal state stays there: only a writer that
\* read the row before it became terminal can still replace it, and none
\* starts afterwards.  A re-enqueue makes a new job.
RestIsFinal == [][\A j \in Job : AtRest(j) => status'[j] = status[j]]_vars

-----------------------------------------------------------------------------
(* Liveness.                                                               *)

\* Every submitted job ends, and in the end stays ended, although workers
\* hang or die, cancels race with claims and the loop is restarted.
Settles == <>[](\A j \in Job : status[j] \in Terminal \cup {"NONE"})

-----------------------------------------------------------------------------
(* The promise of the queue as a whole.                                    *)

Lifecycle == INSTANCE JobLifecycle WITH started <- {j \in Job : spawns[j] > 0}

\* Readers of BT.QUEUE see the life of a job JobLifecycle describes.
ImplementsLifecycle == Lifecycle!Spec

-----------------------------------------------------------------------------
(* The cap.                                                                *)

\* enqueue and reenqueue count and insert in two calls, so requests that
\* overlap take a user over max_queued_per_user: the QUEUED jobs and those about
\* to be inserted exceed the cap by at most one per request beside the last one
\* that counted, however claims, cancels and re-enqueues fall in between.
QueuedCapOverrun ==
    \A u \in User :
        SP_GET_QUEUED_COUNT(u) + Cardinality({h \in Handler : req[h].at = "insert" /\ req[h].user = u})
            <= MaxQueued + Cardinality(Handler) - 1
=============================================================================
