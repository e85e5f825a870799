---------------------------- MODULE BacktestWorker ----------------------------
(***************************************************************************)
(* quant/queue/worker.py: the subprocess that runs one queued backtest.    *)
(*                                                                         *)
(* proc[j] is where the process started for job j stands: before the next  *)
(* call that another process can see, or how it exited.  The worker reads  *)
(* its row once, never looks at the status in it, and writes its verdict   *)
(* over whatever the open row says by then.  A stored-procedure call is    *)
(* one transaction, so a process killed around it has either made it or    *)
(* not.  The promotion run between result and verdict is swallowed on      *)
(* error and touches no row of BT.QUEUE.                                   *)
(***************************************************************************)
EXTENDS BtQueueRepo

VARIABLES
    proc,         \* the subprocess of each job
    spawns,       \* how many subprocesses the job has been given
    result        \* the jobs with a BT.RESULT row

workerVars == <<proc, spawns, result>>

\* Popen.poll() is None
Live == {"run", "save", "complete", "fail", "closing"}

Proc == {"none", "exit0", "exit1"} \cup Live

WorkerTypeOK ==
    /\ proc \in [Job -> Proc]
    /\ spawns \in [Job -> Nat]
    /\ result \in SUBSET Job

WorkerInit ==
    /\ proc = [j \in Job |-> "none"]
    /\ spawns = [j \in Job |-> 0]
    /\ result = {}

Goto(j, p) == proc' = [proc EXCEPT ![j] = p]

\* Popen of quant.queue.worker for j.
SpawnWorker(j) ==
    /\ Goto(j, "run")
    /\ spawns' = [spawns EXCEPT ![j] = @ + 1]
    /\ UNCHANGED result

\* proc with every live process of js ended by a signal.
Killed(js) ==
    [j \in Job |-> IF j \in js /\ proc[j] \in Live THEN "exit1" ELSE proc[j]]

-----------------------------------------------------------------------------

\* fetch_job and run_optimize return a response, or run_optimize raises.
WorkerOptimize(j) ==
    /\ proc[j] = "run"
    /\ \E next \in {"save", "fail"} : Goto(j, next)
    /\ UNCHANGED <<spawns, result, queueVars>>

\* BT.SP_INS_RESULT.
WorkerInsResult(j) ==
    /\ proc[j] = "save"
    /\ result' = result \cup {j}
    /\ Goto(j, "complete")
    /\ UNCHANGED <<spawns, queueVars>>

\* The COMPLETED row.
WorkerComplete(j) ==
    /\ proc[j] = "complete"
    /\ SP_INS_QUEUE(j, "COMPLETED")
    /\ Goto(j, "closing")
    /\ UNCHANGED <<spawns, result>>

\* The FAILED row of a run_optimize that raised.
WorkerFail(j) ==
    /\ proc[j] = "fail"
    /\ SP_INS_QUEUE(j, "FAILED")
    /\ Goto(j, "closing")
    /\ UNCHANGED <<spawns, result>>

\* The terminal event is out, the pools are closed, main returns 0.
WorkerExit(j) ==
    /\ proc[j] = "closing"
    /\ Goto(j, "exit0")
    /\ UNCHANGED <<spawns, result, queueVars>>

\* main returns 1 or 2 (Redis or the row missing, a configuration that does
\* not validate, a procedure error on a write), or the process dies.
WorkerCrash(j) ==
    /\ proc[j] \in Live
    /\ Goto(j, "exit1")
    /\ UNCHANGED <<spawns, result, queueVars>>

WorkerStep(j) ==
    \/ WorkerOptimize(j)
    \/ WorkerInsResult(j)
    \/ WorkerComplete(j)
    \/ WorkerFail(j)
    \/ WorkerExit(j)
    \/ WorkerCrash(j)
=============================================================================
