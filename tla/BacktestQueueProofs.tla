-------------------------- MODULE BacktestQueueProofs --------------------------
(***************************************************************************)
(* Safety of the backtest queue for any number of jobs, users, request     *)
(* threads, workers and restarts.                                          *)
(***************************************************************************)
EXTENDS BacktestQueue, FiniteSetTheorems, TLAPS

-----------------------------------------------------------------------------
(* The inductive invariant.                                                *)

\* The write order of rows is irreflexive.
BeforeStrict == \A j \in Job : <<j, j>> \notin before

\* A worker process exists exactly after a spawn, there is at most one, and
\* none before the job has left the queue.
SpawnFacts ==
    \A j \in Job :
        /\ spawns[j] \in {0, 1}
        /\ spawns[j] = 0 <=> proc[j] = "none"
        /\ spawns[j] = 1 => status[j] \notin {"NONE", "QUEUED"}

\* A cancel in flight is for a submitted job; one that read RUNNING finds a
\* job that has been claimed.
RequestFacts ==
    \A h \in Handler : req[h].at = "cancel" =>
        /\ status[req[h].job] # "NONE"
        /\ req[h].target = "CANCEL_REQUESTED" =>
              /\ status[req[h].job] # "QUEUED"
              /\ ~(lpc = "claim" /\ cur = req[h].job)

\* What the loop knows of the job in hand.
HandFacts ==
    /\ lpc \in Writing => cur \in Job
    /\ lpc \in Writing => status[cur] # "NONE"
    /\ lpc \in {"claim", "spawn"} => spawns[cur] = 0
    /\ lpc = "claim" => status[cur] \in {"QUEUED", "CANCELLED"}
    /\ lpc = "spawn" => status[cur] \in {"RUNNING", "CANCEL_REQUESTED", "CANCELLED"}
    /\ lpc \in {"reapwrite", "timeoutwrite", "cancelwrite"} => status[cur] # "QUEUED"
    /\ lpc = "cancelwrite" => status[cur] # "RUNNING"
    /\ lpc \in {"reapwrite", "cancelwrite"} => cur \notin active
    /\ lpc \in {"reapwrite", "timeoutwrite"} => proc[cur] = "exit1"
    /\ lpc = "timeoutwrite" => cur \in active

\* What the loop knows of the jobs on its list.
ListFacts ==
    /\ lpc = "recover" => \A j \in todo : status[j] \notin {"NONE", "QUEUED"}
    /\ lpc \in {"cancelling", "cancelwrite"} =>
          \A j \in todo : status[j] \notin {"NONE", "QUEUED", "RUNNING"}
    /\ lpc \in {"reaping", "reapwrite"} =>
          \A j \in todo : j \in active /\ proc[j] \notin Live
    /\ lpc = "reapwrite" => cur \notin todo
    /\ lpc \in {"killing", "timeoutwrite"} => todo \subseteq active
    /\ lpc = "timeoutwrite" => cur \notin todo

\* _active holds started jobs, and is empty until the first tick.
ActiveFacts ==
    /\ lpc \in {"down", "recover"} => active = {}
    /\ \A j \in active : spawns[j] = 1

\* A worker that has written its verdict left no RUNNING row behind, and one
\* about to report success has saved its result.
VerdictFacts ==
    \A j \in Job :
        /\ proc[j] \in {"closing", "exit0"} => status[j] # "RUNNING"
        /\ proc[j] = "complete" => j \in result

\* Without orphans a live worker is in _active.
NoOrphans == ~OrphansSurvive => \A j \in Job : proc[j] \in Live => j \in active

RunningRows == {j \in Job : status[j] = "RUNNING"}

\* The RUNNING rows and the children fit the capacity.
CapacityFacts ==
    /\ Cardinality(RunningRows) <= MaxConcurrent
    /\ Cardinality(active) <= MaxConcurrent
    /\ lpc \in {"claim", "spawn"} => Cardinality(active) < MaxConcurrent

\* All but the capacity.
Inv ==
    /\ TypeOK
    /\ BeforeStrict
    /\ SpawnFacts
    /\ RequestFacts
    /\ HandFacts
    /\ ListFacts
    /\ ActiveFacts
    /\ VerdictFacts
    /\ NoOrphans
    /\ CompletedHasResult
    /\ RunningOwned

QueueInv == Inv /\ CapacityFacts

-----------------------------------------------------------------------------
(* Shapes of a request.                                                    *)

\* What a request thread holds at each point of a request.
LEMMA RequestShape ==
    ASSUME JobsTypeOK, NEW h \in Handler
    PROVE  /\ req[h].at \in {"idle", "insert", "cancel", "count"}
           /\ req[h].at = "insert" => req[h].priority \in Priority /\ req[h].user \in User
           /\ req[h].at = "cancel" => /\ req[h].job \in Job
                                     /\ req[h].target \in {"CANCELLED", "CANCEL_REQUESTED"}
           /\ req[h].at = "count" => req[h].job \in Job
  BY DEF JobsTypeOK, Request, Idle

\* The row a write adds is the newest: the order stays within Job \X Job and
\* irreflexive.
LEMMA NewestOrder ==
    ASSUME before \in SUBSET (Job \X Job), BeforeStrict, NEW j \in Job
    PROVE  /\ Newest(j) \in SUBSET (Job \X Job)
           /\ \A k \in Job : <<k, k>> \notin Newest(j)
  BY DEF Newest, BeforeStrict

-----------------------------------------------------------------------------
(* Inv is inductive: one lemma per actor.                                  *)

\* The invariant holds at the start.
LEMMA InitInv == Init => Inv
  <1> SUFFICES ASSUME Init PROVE Inv
    OBVIOUS
  <1> USE DEF Init, QueueInit, JobsInit, WorkerInit, LoopInit
  <1>1. QueueTypeOK
    BY DEF QueueTypeOK, Status
  <1>2. JobsTypeOK
    BY DEF JobsTypeOK, Request
  <1>3. WorkerTypeOK
    BY DEF WorkerTypeOK, Proc
  <1>4. LoopTypeOK
    <2>1. running \in BOOLEAN
      OBVIOUS
    <2>2. faults \in 0 .. MaxFaults
      BY LoopAssumption
    <2> QED
      BY <2>1, <2>2 DEF LoopTypeOK, Control
  <1>5. RequestFacts
    BY DEF RequestFacts, Idle
  <1>6. SpawnFacts /\ VerdictFacts /\ NoOrphans /\ CompletedHasResult /\ RunningOwned
    BY DEF SpawnFacts, VerdictFacts, NoOrphans, CompletedHasResult, RunningOwned, Live
  <1> QED
    BY <1>1, <1>2, <1>3, <1>4, <1>5, <1>6
    DEF Inv, TypeOK, BeforeStrict, HandFacts, ListFacts, ActiveFacts, Writing

\* The steps of the request threads.
LEMMA JobsInv ==
    ASSUME Inv, NEW h \in Handler, UNCHANGED <<workerVars, loopVars>>
    PROVE  /\ \A u \in User, p \in Priority : EnqueueCheck(h, u, p) => Inv'
           /\ \A j \in Job : InsertQueued(h, j) => Inv'
           /\ \A j \in Job : CancelRead(h, j) => Inv'
           /\ CancelWrite(h) => Inv'
           /\ \A j \in Job : ReenqueueRead(h, j) => Inv'
           /\ ReenqueueCheck(h) => Inv'
           /\ RequestFails(h) => Inv'
  <1> USE DEF Inv, workerVars, loopVars, queueVars, TypeOK, WorkerTypeOK, LoopTypeOK,
              HandFacts, ListFacts, ActiveFacts, VerdictFacts, NoOrphans, BeforeStrict,
              CompletedHasResult, RunningOwned, SpawnFacts
  <1>s. \A i \in Handler :
           /\ req[i].at \in {"idle", "insert", "cancel", "count"}
           /\ req[i].at = "insert" => req[i].priority \in Priority /\ req[i].user \in User
           /\ req[i].at = "cancel" => /\ req[i].job \in Job
                                     /\ req[i].target \in {"CANCELLED", "CANCEL_REQUESTED"}
           /\ req[i].at = "count" => req[i].job \in Job
    BY RequestShape
  <1>1. ASSUME NEW u \in User, NEW p \in Priority, EnqueueCheck(h, u, p)
        PROVE  Inv'
    <2>1. JobsTypeOK'
      BY <1>1 DEF EnqueueCheck, JobsTypeOK, Request
    <2>2. RequestFacts'
      BY <1>1 DEF EnqueueCheck, JobsTypeOK, RequestFacts
    <2> QED
      BY <1>1, <2>1, <2>2 DEF EnqueueCheck, QueueTypeOK
  <1>2. ASSUME NEW j \in Job, InsertQueued(h, j)
        PROVE  Inv'
    <2>1. JobsTypeOK'
      BY <1>2 DEF InsertQueued, JobsTypeOK, Request
    <2>2. QueueTypeOK' /\ BeforeStrict'
      BY <1>2, <1>s, NewestOrder DEF InsertQueued, SP_INS_QUEUE_NEW, QueueTypeOK, Status
    <2>3. RequestFacts'
      BY <1>2, <1>s DEF InsertQueued, SP_INS_QUEUE_NEW, JobsTypeOK, RequestFacts, QueueTypeOK, Idle
    <2> QED
      BY <1>2, <2>1, <2>2, <2>3 DEF InsertQueued, SP_INS_QUEUE_NEW, QueueTypeOK, Writing
  <1>3. ASSUME NEW j \in Job, CancelRead(h, j)
        PROVE  Inv'
    <2>1. JobsTypeOK'
      BY <1>3 DEF CancelRead, CancelTarget, JobsTypeOK, Request
    <2>2. RequestFacts'
      BY <1>3 DEF CancelRead, CancelTarget, JobsTypeOK, RequestFacts, Writing
    <2> QED
      BY <1>3, <2>1, <2>2 DEF CancelRead, QueueTypeOK
  <1>4. ASSUME CancelWrite(h)
        PROVE  Inv'
    <2>1. JobsTypeOK'
      BY <1>4 DEF CancelWrite, JobsTypeOK, Request
    <2>2. QueueTypeOK' /\ BeforeStrict'
      BY <1>4, <1>s, NewestOrder DEF CancelWrite, SP_INS_QUEUE, QueueTypeOK, Status, Terminal
    <2>3. RequestFacts'
      BY <1>4, <1>s DEF CancelWrite, SP_INS_QUEUE, JobsTypeOK, RequestFacts, QueueTypeOK, Idle
    <2> QED
      BY <1>4, <1>s, <2>1, <2>2, <2>3
      DEF CancelWrite, SP_INS_QUEUE, QueueTypeOK, Writing, RequestFacts
  <1>5. ASSUME NEW j \in Job, ReenqueueRead(h, j)
        PROVE  Inv'
    <2>1. JobsTypeOK'
      BY <1>5 DEF ReenqueueRead, JobsTypeOK, Request
    <2>2. RequestFacts'
      BY <1>5 DEF ReenqueueRead, JobsTypeOK, RequestFacts
    <2> QED
      BY <1>5, <2>1, <2>2 DEF ReenqueueRead, QueueTypeOK
  <1>6. ASSUME ReenqueueCheck(h)
        PROVE  Inv'
    <2>1. JobsTypeOK'
      BY <1>6, <1>s DEF ReenqueueCheck, JobsTypeOK, Request, QueueTypeOK
    <2>2. RequestFacts'
      BY <1>6 DEF ReenqueueCheck, JobsTypeOK, RequestFacts
    <2> QED
      BY <1>6, <2>1, <2>2 DEF ReenqueueCheck, QueueTypeOK
  <1>7. ASSUME RequestFails(h)
        PROVE  Inv'
    <2>1. JobsTypeOK'
      BY <1>7 DEF RequestFails, JobsTypeOK, Request
    <2>2. RequestFacts'
      BY <1>7 DEF RequestFails, JobsTypeOK, RequestFacts, Idle
    <2> QED
      BY <1>7, <2>1, <2>2 DEF RequestFails, QueueTypeOK
  <1> QED
    BY <1>1, <1>2, <1>3, <1>4, <1>5, <1>6, <1>7

\* A write of a status other than QUEUED and RUNNING over a row of a job that
\* has left the queue: what every supervisor and worker write has in common.
LEMMA WriteRow ==
    ASSUME Inv, NEW j \in Job, NEW s \in Status \ {"NONE", "QUEUED"},
           SP_INS_QUEUE(j, s)
    PROVE  /\ QueueTypeOK'
           /\ BeforeStrict'
           /\ status'[j] = s
           /\ \A k \in Job \ {j} : status'[k] = status[k]
  BY NewestOrder DEF Inv, TypeOK, QueueTypeOK, SP_INS_QUEUE, BeforeStrict

\* The steps of a worker.
LEMMA WorkerInv ==
    ASSUME Inv, NEW j \in Job, WorkerStep(j), UNCHANGED <<req, loopVars>>
    PROVE  Inv'
  <1> USE DEF Inv, loopVars, queueVars, TypeOK, WorkerTypeOK, LoopTypeOK, JobsTypeOK, Goto
  <1>s. \A i \in Handler : req[i].at = "cancel" => req[i].job \in Job
    BY RequestShape
  <1>o. proc[j] \in Live => spawns[j] = 1 /\ status[j] \notin {"NONE", "QUEUED"}
    BY DEF SpawnFacts, Live
  <1>1. ASSUME NEW p \in Proc, proc[j] \in Live, Goto(j, p), p # "none",
               p = "complete" => proc[j] = "complete",
               p \in {"closing", "exit0"} => proc[j] = "closing",
               UNCHANGED <<spawns, result, queueVars>>
        PROVE  Inv'
    <2>1. proc' = [proc EXCEPT ![j] = p] /\ WorkerTypeOK'
      BY <1>1
    <2>2. SpawnFacts' /\ VerdictFacts' /\ NoOrphans'
      BY <1>1, <2>1 DEF SpawnFacts, VerdictFacts, NoOrphans, Live
    <2>3. HandFacts' /\ ListFacts'
      BY <1>1, <2>1 DEF HandFacts, ListFacts, Live
    <2>4. QueueTypeOK' /\ BeforeStrict' /\ RequestFacts' /\ CompletedHasResult' /\ RunningOwned'
      BY <1>1 DEF QueueTypeOK, BeforeStrict, RequestFacts, CompletedHasResult, RunningOwned
    <2>5. ActiveFacts'
      BY <1>1 DEF ActiveFacts
    <2> QED
      BY <2>1, <2>2, <2>3, <2>4, <2>5
  <1>2. CASE WorkerInsResult(j)
    BY <1>2
    DEF WorkerInsResult, QueueTypeOK, Proc, Live, BeforeStrict, SpawnFacts,
        RequestFacts, HandFacts, ListFacts, ActiveFacts, VerdictFacts, NoOrphans,
        CompletedHasResult, RunningOwned
  <1>3. ASSUME NEW s \in {"COMPLETED", "FAILED"}, NEW p \in {"complete", "fail"},
               proc[j] = p, s = "COMPLETED" => p = "complete",
               SP_INS_QUEUE(j, s), Goto(j, "closing"), UNCHANGED <<spawns, result>>
        PROVE  Inv'
    <2>1. /\ QueueTypeOK' /\ BeforeStrict' /\ status'[j] = s
          /\ \A k \in Job \ {j} : status'[k] = status[k]
      BY <1>3, WriteRow DEF Status, Terminal
    <2>2. WorkerTypeOK' /\ LoopTypeOK' /\ JobsTypeOK'
      BY <1>3 DEF Proc, Live
    <2>3. RequestFacts'
      BY <1>3, <2>1, <1>s DEF RequestFacts
    <2>4. SpawnFacts' /\ VerdictFacts' /\ CompletedHasResult'
      BY <1>3, <2>1, <1>o DEF SpawnFacts, VerdictFacts, CompletedHasResult, Live
    <2>5. HandFacts'
      BY <1>3, <2>1, <1>o DEF HandFacts, Live, Writing
    <2>6. ListFacts'
      BY <1>3, <2>1, <1>o DEF ListFacts, Live
    <2>7. ActiveFacts' /\ NoOrphans' /\ RunningOwned'
      BY <1>3, <2>1 DEF ActiveFacts, NoOrphans, RunningOwned, Live
    <2> QED
      BY <2>1, <2>2, <2>3, <2>4, <2>5, <2>6, <2>7
  <1> QED
    <2>1. CASE WorkerOptimize(j) \/ WorkerExit(j) \/ WorkerCrash(j)
      BY <1>1, <2>1 DEF WorkerOptimize, WorkerExit, WorkerCrash, Proc, Live
    <2>2. CASE WorkerComplete(j) \/ WorkerFail(j)
      BY <1>3, <2>2 DEF WorkerComplete, WorkerFail
    <2> QED
      BY <1>2, <2>1, <2>2 DEF WorkerStep

\* recover_stale's listing is complete: the RUNNING rows fit the capacity, and
\* the capacity fits the listing.
LEMMA RecoverySeesAll ==
    ASSUME QueueInv
    PROVE  SP_GET_QUEUE("RUNNING") = RunningRows
  <1>1. IsFiniteSet(RunningRows) /\ Cardinality(RunningRows) \in Nat
    BY JobAssumption, FS_Subset, FS_CardinalityType DEF RunningRows
  <1>2. ASSUME NEW j \in RunningRows
        PROVE  Cardinality({k \in RunningRows : <<j, k>> \in before}) < ListLimit
    <2> DEFINE newer == {k \in RunningRows : <<j, k>> \in before}
    <2>1. newer \subseteq RunningRows \ {j}
      BY DEF QueueInv, Inv, BeforeStrict, RunningRows
    <2>2. /\ IsFiniteSet(RunningRows \ {j})
          /\ Cardinality(RunningRows \ {j}) = Cardinality(RunningRows) - 1
      BY <1>1, <1>2, FS_RemoveElement
    <2>3. Cardinality(newer) \in Nat /\ Cardinality(newer) <= Cardinality(RunningRows \ {j})
      BY <2>1, <2>2, FS_Subset, FS_CardinalityType
    <2> QED
      BY <1>1, <2>2, <2>3, LoopAssumption, LimitAssumption, CapacityAssumption
      DEF QueueInv, CapacityFacts
  <1> QED
    BY <1>2 DEF SP_GET_QUEUE, RunningRows

\* The steps of the loop that write no row.
LEMMA LoopControlInv ==
    ASSUME QueueInv, UNCHANGED <<req, queueVars>>
    PROVE  /\ Boot \/ AfterRecover => Inv'
           /\ ReapScan \/ AfterReap => Inv'
           /\ CancelScan \/ AfterCancels => Inv'
           /\ TimeoutScan \/ AfterTimeouts => Inv'
           /\ AfterFill \/ WaitForWake \/ AfterDrain => Inv'
           /\ \A j \in Job : ReapOne(j) => Inv'
           /\ \A j \in Job : CancelStop(j) => Inv'
           /\ \A j \in Job : TimeoutKill(j) => Inv'
           /\ \A j \in Job : ClaimRead(j) => Inv'
           /\ \A j \in Job : DrainOne(j) => Inv'
           /\ \A j \in Job : Expire(j) => Inv'
           /\ Spawn => Inv'
           /\ Stop => Inv'
           /\ LoopCrash => Inv'
  <1> USE DEF QueueInv, Inv, queueVars, workerVars, TypeOK, QueueTypeOK, JobsTypeOK, BeforeStrict
  <1>t. \A s : SP_GET_QUEUE(s) \subseteq {j \in Job : status[j] = s}
    BY DEF SP_GET_QUEUE
  <1>r. SP_GET_QUEUE("RUNNING") = RunningRows
    BY RecoverySeesAll
  \* Only lpc, todo and running move.
  <1>p. ASSUME NEW l \in Control \ Writing, lpc' = l, todo' \in SUBSET Job,
               running' \in BOOLEAN, UNCHANGED <<cur, active, expired, faults, workerVars>>,
               l \in {"down", "recover"} => active = {},
               l = "recover" => todo' = RunningRows,
               l = "cancelling" => \A j \in todo' : status[j] = "CANCEL_REQUESTED",
               l = "reaping" => \A j \in todo' : j \in active /\ proc[j] \notin Live,
               l = "killing" => todo' \subseteq active,
               l \notin {"down", "drain", "recover"} => RunningRows \subseteq active
        PROVE  Inv'
    <2>1. LoopTypeOK' /\ WorkerTypeOK'
      BY <1>p DEF LoopTypeOK, WorkerTypeOK
    <2>2. SpawnFacts' /\ VerdictFacts' /\ NoOrphans' /\ CompletedHasResult'
      BY <1>p DEF SpawnFacts, VerdictFacts, NoOrphans, CompletedHasResult
    <2>3. RequestFacts' /\ HandFacts'
      BY <1>p DEF RequestFacts, HandFacts, Writing
    <2>4. ListFacts' /\ ActiveFacts'
      BY <1>p DEF ListFacts, ActiveFacts, RunningRows, Writing
    <2>5. RunningOwned'
      BY <1>p DEF RunningOwned, RunningRows
    <2> QED
      BY <2>1, <2>2, <2>3, <2>4, <2>5
  <1>1. Boot \/ AfterRecover => Inv'
    <2>1. CASE Boot
      <3>1. active = {} /\ running' \in BOOLEAN /\ todo' = RunningRows
        BY <2>1, <1>r DEF Boot, ActiveFacts
      <3> QED
        BY <2>1, <3>1, <1>p DEF Boot, RunningRows, Control, Writing
    <2>2. CASE AfterRecover
      BY <2>2, <1>p DEF AfterRecover, PhaseDone, LoopTypeOK, Control, Writing, RunningOwned, RunningRows
    <2> QED
      BY <2>1, <2>2
  <1>2. ReapScan \/ AfterReap => Inv'
    BY <1>p DEF ReapScan, AfterReap, PhaseDone, LoopTypeOK, Control, Writing, RunningOwned, RunningRows
  <1>3. CancelScan \/ AfterCancels => Inv'
    BY <1>p, <1>t DEF CancelScan, AfterCancels, PhaseDone, LoopTypeOK, Control, Writing, RunningOwned, RunningRows
  <1>4. TimeoutScan \/ AfterTimeouts => Inv'
    BY <1>p DEF TimeoutScan, AfterTimeouts, PhaseDone, LoopTypeOK, Control, Writing, RunningOwned, RunningRows
  <1>5. AfterFill \/ WaitForWake \/ AfterDrain => Inv'
    BY <1>p DEF AfterFill, WaitForWake, AfterDrain, LoopTypeOK, Control, Writing, RunningOwned, RunningRows
  <1>6. ASSUME NEW j \in Job, ReapOne(j)
        PROVE  Inv'
    <2>1. proc[j] \in {"exit0", "exit1"} /\ j \in active
      BY <1>6 DEF ReapOne, ListFacts, ActiveFacts, SpawnFacts, WorkerTypeOK, Proc
    <2>2. LoopTypeOK' /\ WorkerTypeOK'
      BY <1>6 DEF ReapOne, Drop, LoopTypeOK, WorkerTypeOK, Control, Writing
    <2>3. SpawnFacts' /\ VerdictFacts' /\ CompletedHasResult' /\ NoOrphans'
      BY <1>6, <2>1 DEF ReapOne, Drop, SpawnFacts, VerdictFacts, CompletedHasResult, NoOrphans, Live
    <2>4. RequestFacts' /\ HandFacts'
      BY <1>6, <2>1 DEF ReapOne, Drop, RequestFacts, HandFacts, Writing
    <2>5. ListFacts' /\ ActiveFacts'
      BY <1>6 DEF ReapOne, Drop, ListFacts, ActiveFacts
    <2>6. RunningOwned'
      BY <1>6, <2>1 DEF ReapOne, Drop, RunningOwned, VerdictFacts
    <2> QED
      BY <2>2, <2>3, <2>4, <2>5, <2>6
  <1>7. ASSUME NEW j \in Job, CancelStop(j)
        PROVE  Inv'
    <2>1. \A k \in Job : proc'[k] = IF k = j /\ k \in active /\ proc[k] \in Live THEN "exit1" ELSE proc[k]
      BY <1>7 DEF CancelStop, Killed
    <2>2. LoopTypeOK' /\ WorkerTypeOK'
      BY <1>7 DEF CancelStop, Killed, Drop, LoopTypeOK, WorkerTypeOK, Control, Writing, Proc
    <2>3. SpawnFacts' /\ VerdictFacts' /\ CompletedHasResult'
      BY <1>7, <2>1 DEF CancelStop, SpawnFacts, VerdictFacts, CompletedHasResult, Live
    <2>4. NoOrphans'
      BY <1>7, <2>1 DEF CancelStop, Drop, NoOrphans, Live
    <2>5. RequestFacts' /\ HandFacts'
      BY <1>7 DEF CancelStop, Drop, RequestFacts, HandFacts, ListFacts, Writing
    <2>6. ListFacts' /\ ActiveFacts'
      BY <1>7 DEF CancelStop, Drop, ListFacts, ActiveFacts
    <2>7. RunningOwned'
      BY <1>7 DEF CancelStop, Drop, RunningOwned, ListFacts
    <2> QED
      BY <2>2, <2>3, <2>4, <2>5, <2>6, <2>7
  <1>8. ASSUME NEW j \in Job, TimeoutKill(j)
        PROVE  Inv'
    <2>1. \A k \in Job : proc'[k] = IF k = j /\ proc[k] \in Live THEN "exit1" ELSE proc[k]
      BY <1>8 DEF TimeoutKill, Killed
    <2>2. LoopTypeOK' /\ WorkerTypeOK'
      BY <1>8 DEF TimeoutKill, Killed, LoopTypeOK, WorkerTypeOK, Control, Writing, Proc
    <2>3. SpawnFacts' /\ VerdictFacts' /\ CompletedHasResult' /\ NoOrphans'
      BY <1>8, <2>1 DEF TimeoutKill, SpawnFacts, VerdictFacts, CompletedHasResult, NoOrphans, Live
    <2>4. RequestFacts'
      BY <1>8 DEF TimeoutKill, RequestFacts
    <2>5. HandFacts'
      BY <1>8, <2>1 DEF TimeoutKill, HandFacts, ListFacts, ActiveFacts, SpawnFacts, Writing
    <2>6. ListFacts' /\ ActiveFacts'
      BY <1>8 DEF TimeoutKill, ListFacts, ActiveFacts
    <2>7. RunningOwned'
      BY <1>8 DEF TimeoutKill, RunningOwned
    <2> QED
      BY <2>2, <2>3, <2>4, <2>5, <2>6, <2>7
  <1>9. ASSUME NEW j \in Job, ClaimRead(j)
        PROVE  Inv'
    <2>1. status[j] = "QUEUED"
      BY <1>9, <1>t DEF ClaimRead, Heads
    <2>2. LoopTypeOK' /\ WorkerTypeOK'
      BY <1>9 DEF ClaimRead, LoopTypeOK, WorkerTypeOK, Control, Writing
    <2>3. SpawnFacts' /\ VerdictFacts' /\ CompletedHasResult' /\ NoOrphans'
      BY <1>9 DEF ClaimRead, SpawnFacts, VerdictFacts, CompletedHasResult, NoOrphans
    <2>4. RequestFacts' /\ HandFacts'
      BY <1>9, <2>1 DEF ClaimRead, RequestFacts, HandFacts, SpawnFacts, Writing
    <2>5. ListFacts' /\ ActiveFacts' /\ RunningOwned'
      BY <1>9 DEF ClaimRead, ListFacts, ActiveFacts, RunningOwned
    <2> QED
      BY <2>2, <2>3, <2>4, <2>5
  <1>10. ASSUME NEW j \in Job, DrainOne(j)
         PROVE  Inv'
    <2>1. \A k \in Job : proc'[k] = IF k = j /\ proc[k] \in Live THEN "exit1" ELSE proc[k]
      BY <1>10 DEF DrainOne, Killed
    <2>2. LoopTypeOK' /\ WorkerTypeOK'
      BY <1>10 DEF DrainOne, Killed, Drop, LoopTypeOK, WorkerTypeOK, Proc
    <2>3. SpawnFacts' /\ VerdictFacts' /\ CompletedHasResult' /\ NoOrphans'
      BY <1>10, <2>1 DEF DrainOne, Drop, SpawnFacts, VerdictFacts, CompletedHasResult, NoOrphans, Live
    <2>4. RequestFacts' /\ HandFacts' /\ ListFacts' /\ ActiveFacts' /\ RunningOwned'
      BY <1>10 DEF DrainOne, Drop, RequestFacts, HandFacts, ListFacts, ActiveFacts, RunningOwned, Writing
    <2> QED
      BY <2>2, <2>3, <2>4
  <1>11. ASSUME NEW j \in Job, Expire(j)
         PROVE  Inv'
    BY <1>11 DEF Expire, LoopTypeOK, WorkerTypeOK, SpawnFacts, VerdictFacts, CompletedHasResult,
                 NoOrphans, RequestFacts, HandFacts, ListFacts, ActiveFacts, RunningOwned
  <1>12. Spawn => Inv'
    <2> SUFFICES ASSUME Spawn PROVE Inv'
      OBVIOUS
    <2>1. cur \in Job /\ spawns[cur] = 0 /\ status[cur] \notin {"NONE", "QUEUED"}
      BY DEF Spawn, HandFacts, Writing
    <2>2. /\ proc' = [proc EXCEPT ![cur] = "run"]
          /\ spawns' = [spawns EXCEPT ![cur] = @ + 1]
      BY DEF Spawn, SpawnWorker, Goto
    <2>3. LoopTypeOK' /\ WorkerTypeOK'
      BY <2>1, <2>2 DEF Spawn, SpawnWorker, LoopTypeOK, WorkerTypeOK, Control, Proc, Live
    <2>4. SpawnFacts' /\ VerdictFacts' /\ CompletedHasResult' /\ NoOrphans'
      BY <2>1, <2>2 DEF Spawn, SpawnWorker, SpawnFacts, VerdictFacts, CompletedHasResult, NoOrphans, WorkerTypeOK
    <2>5. RequestFacts' /\ HandFacts'
      BY DEF Spawn, RequestFacts, HandFacts, Writing
    <2>6. ListFacts' /\ ActiveFacts'
      BY <2>1, <2>2 DEF Spawn, ListFacts, ActiveFacts, WorkerTypeOK
    <2>7. RunningOwned'
      BY DEF Spawn, RunningOwned
    <2> QED
      BY <2>3, <2>4, <2>5, <2>6, <2>7
  <1>13. Stop => Inv'
    <2> SUFFICES ASSUME Stop PROVE Inv'
      OBVIOUS
    <2>1. running' \in BOOLEAN
      BY DEF Stop
    <2>2. faults' \in 0 .. MaxFaults
      BY LoopAssumption DEF Stop, LoopTypeOK
    <2> QED
      BY <2>1, <2>2
      DEF Stop, LoopTypeOK, WorkerTypeOK, SpawnFacts, VerdictFacts, CompletedHasResult,
          NoOrphans, RequestFacts, HandFacts, ListFacts, ActiveFacts, RunningOwned
  <1>14. LoopCrash => Inv'
    <2> SUFFICES ASSUME LoopCrash PROVE Inv'
      OBVIOUS
    <2>1. \A k \in Job : \/ proc'[k] = proc[k] /\ (~OrphansSurvive => proc[k] \notin Live)
                         \/ proc[k] \in Live /\ proc'[k] = "exit1"
      BY DEF LoopCrash, Killed
    <2>2. WorkerTypeOK'
      BY DEF LoopCrash, Killed, WorkerTypeOK, Proc
    <2>3. running' \in BOOLEAN
      BY DEF LoopCrash
    <2>4. LoopTypeOK'
      BY <2>3, LoopAssumption DEF LoopCrash, LoopTypeOK, Control
    <2>5. SpawnFacts' /\ VerdictFacts' /\ CompletedHasResult' /\ NoOrphans'
      BY <2>1 DEF LoopCrash, SpawnFacts, VerdictFacts, CompletedHasResult, NoOrphans, Live
    <2>6. RequestFacts' /\ HandFacts' /\ ListFacts' /\ ActiveFacts' /\ RunningOwned'
      BY DEF LoopCrash, RequestFacts, HandFacts, ListFacts, ActiveFacts, RunningOwned, Writing
    <2> QED
      BY <2>2, <2>4, <2>5, <2>6
  <1> QED
    BY <1>1, <1>2, <1>3, <1>4, <1>5, <1>6, <1>7, <1>8, <1>9, <1>10, <1>11, <1>12, <1>13, <1>14

\* The steps of the loop that write a row.
LEMMA LoopWriteInv ==
    ASSUME Inv, UNCHANGED req
    PROVE  /\ \A j \in Job : RecoverOne(j) => Inv'
           /\ ReapWrite => Inv'
           /\ CancelledWrite => Inv'
           /\ TimeoutWrite => Inv'
           /\ ClaimWrite => Inv'
  <1> USE DEF Inv, TypeOK, workerVars
  <1>s. \A h \in Handler : req[h].at = "cancel" => req[h].job \in Job
    BY RequestShape
  \* A terminal row for a job that has left the queue; the loop's control is
  \* left to each action.
  <1>w. ASSUME NEW j \in Job, NEW s \in {"FAILED", "CANCELLED"}, SP_INS_QUEUE(j, s),
               status[j] # "QUEUED", status[j] # "NONE",
               UNCHANGED workerVars, lpc' # "claim"
        PROVE  /\ QueueTypeOK' /\ WorkerTypeOK' /\ JobsTypeOK' /\ BeforeStrict'
               /\ SpawnFacts' /\ VerdictFacts' /\ CompletedHasResult' /\ RequestFacts'
               /\ status'[j] = s
               /\ \A k \in Job \ {j} : status'[k] = status[k]
    <2>1. /\ QueueTypeOK' /\ BeforeStrict' /\ status'[j] = s
          /\ \A k \in Job \ {j} : status'[k] = status[k]
      BY <1>w, WriteRow DEF Status, Terminal
    <2>2. WorkerTypeOK' /\ JobsTypeOK' /\ SpawnFacts' /\ VerdictFacts' /\ CompletedHasResult'
      BY <1>w, <2>1 DEF WorkerTypeOK, JobsTypeOK, SpawnFacts, VerdictFacts, CompletedHasResult
    <2>3. RequestFacts'
      BY <1>w, <2>1, <1>s DEF RequestFacts
    <2> QED
      BY <2>1, <2>2, <2>3
  <1>1. ASSUME NEW j \in Job, RecoverOne(j)
        PROVE  Inv'
    <2>1. /\ QueueTypeOK' /\ WorkerTypeOK' /\ JobsTypeOK' /\ BeforeStrict'
          /\ SpawnFacts' /\ VerdictFacts' /\ CompletedHasResult' /\ RequestFacts'
          /\ status'[j] = "FAILED" /\ \A k \in Job \ {j} : status'[k] = status[k]
      BY <1>1, <1>w DEF RecoverOne, ListFacts
    <2>2. LoopTypeOK' /\ NoOrphans'
      BY <1>1 DEF RecoverOne, LoopTypeOK, NoOrphans
    <2>3. HandFacts' /\ ListFacts' /\ ActiveFacts' /\ RunningOwned'
      BY <1>1, <2>1 DEF RecoverOne, LoopTypeOK, HandFacts, ListFacts, ActiveFacts, RunningOwned, Writing
    <2> QED
      BY <2>1, <2>2, <2>3
  <1>2. ASSUME NEW at \in {"reapwrite", "cancelwrite", "timeoutwrite"},
               NEW s \in {"FAILED", "CANCELLED"},
               NEW next \in {"reaping", "cancelling", "killing"},
               at = "reapwrite" => next = "reaping",
               at = "cancelwrite" => next = "cancelling",
               at = "timeoutwrite" => next = "killing",
               MarkTerminal(at, s, next),
               at = "timeoutwrite" => Drop(cur),
               at # "timeoutwrite" => UNCHANGED <<active, expired>>
        PROVE  Inv'
    <2>0. cur \in Job /\ status[cur] # "QUEUED" /\ status[cur] # "NONE" /\ lpc = at
      BY <1>2 DEF MarkTerminal, HandFacts, Writing
    <2>1. /\ QueueTypeOK' /\ WorkerTypeOK' /\ JobsTypeOK' /\ BeforeStrict'
          /\ SpawnFacts' /\ VerdictFacts' /\ CompletedHasResult' /\ RequestFacts'
          /\ status'[cur] = s /\ \A k \in Job \ {cur} : status'[k] = status[k]
      BY <1>2, <2>0, <1>w DEF MarkTerminal
    <2>2. LoopTypeOK'
      BY <1>2 DEF MarkTerminal, Drop, LoopTypeOK, Control
    <2>3. NoOrphans'
      BY <1>2, <2>0 DEF MarkTerminal, Drop, NoOrphans, HandFacts, Live
    <2>4. HandFacts'
      BY <1>2 DEF MarkTerminal, HandFacts, Writing
    <2>5. ListFacts'
      BY <1>2, <2>0, <2>1 DEF MarkTerminal, Drop, ListFacts, LoopTypeOK
    <2>6. ActiveFacts'
      BY <1>2 DEF MarkTerminal, Drop, ActiveFacts
    <2>7. RunningOwned'
      BY <1>2, <2>0, <2>1 DEF MarkTerminal, Drop, RunningOwned
    <2> QED
      BY <2>1, <2>2, <2>3, <2>4, <2>5, <2>6, <2>7
  <1>3. ReapWrite => Inv'
    BY <1>2 DEF ReapWrite
  <1>4. CancelledWrite => Inv'
    BY <1>2 DEF CancelledWrite
  <1>5. TimeoutWrite => Inv'
    BY <1>2 DEF TimeoutWrite
  <1>6. ClaimWrite => Inv'
    <2> SUFFICES ASSUME ClaimWrite PROVE Inv'
      OBVIOUS
    <2>0. cur \in Job /\ spawns[cur] = 0 /\ proc[cur] = "none"
      BY DEF ClaimWrite, HandFacts, Writing, SpawnFacts
    <2>1. /\ QueueTypeOK' /\ BeforeStrict' /\ status'[cur] = "RUNNING"
          /\ \A k \in Job \ {cur} : status'[k] = status[k]
      BY <2>0, WriteRow DEF ClaimWrite, Status
    <2>2. WorkerTypeOK' /\ JobsTypeOK' /\ LoopTypeOK'
      BY DEF ClaimWrite, WorkerTypeOK, JobsTypeOK, LoopTypeOK, Control, Writing
    <2>3. SpawnFacts' /\ VerdictFacts' /\ CompletedHasResult' /\ NoOrphans'
      BY <2>0, <2>1 DEF ClaimWrite, SpawnFacts, VerdictFacts, CompletedHasResult, NoOrphans
    <2>4. RequestFacts'
      BY <2>0, <2>1, <1>s DEF ClaimWrite, RequestFacts
    <2>5. HandFacts' /\ ListFacts' /\ ActiveFacts' /\ RunningOwned'
      BY <2>0, <2>1 DEF ClaimWrite, HandFacts, ListFacts, ActiveFacts, RunningOwned, Writing
    <2> QED
      BY <2>1, <2>2, <2>3, <2>4, <2>5
  <1> QED
    BY <1>1, <1>3, <1>4, <1>5, <1>6

\* A step changes nothing, or is one of the actors'.
LEMMA NextInv ==
    ASSUME QueueInv, [Next]_vars
    PROVE  Inv'
  <1>1. CASE JobsNext /\ UNCHANGED <<workerVars, loopVars>>
    BY <1>1, JobsInv DEF QueueInv, JobsNext
  <1>2. CASE LoopNext /\ UNCHANGED req
    <2>1. ASSUME UNCHANGED queueVars PROVE Inv'
      BY <1>2, <2>1, LoopControlInv, LoopWriteInv DEF LoopNext, LoopStep, QueueInv
    <2>2. CASE \/ ReapWrite \/ CancelledWrite \/ TimeoutWrite \/ ClaimWrite
               \/ \E j \in Job : RecoverOne(j)
      BY <1>2, <2>2, LoopWriteInv DEF QueueInv
    <2>3. \/ UNCHANGED queueVars
          \/ ReapWrite \/ CancelledWrite \/ TimeoutWrite \/ ClaimWrite
          \/ \E j \in Job : RecoverOne(j)
      BY <1>2
      DEF LoopNext, LoopStep, Boot, AfterRecover, ReapScan, AfterReap, CancelScan, AfterCancels,
          TimeoutScan, AfterTimeouts, Spawn, AfterFill, WaitForWake, AfterDrain, ReapOne,
          CancelStop, TimeoutKill, ClaimRead, DrainOne, Stop, LoopCrash, Expire, PhaseDone
    <2> QED
      BY <2>1, <2>2, <2>3
  <1>3. CASE (\E j \in Job : WorkerStep(j)) /\ UNCHANGED <<req, loopVars>>
    BY <1>3, WorkerInv DEF QueueInv
  <1>4. CASE UNCHANGED vars
    BY <1>4
    DEF vars, queueVars, workerVars, loopVars, QueueInv, Inv, TypeOK, QueueTypeOK, JobsTypeOK,
        WorkerTypeOK, LoopTypeOK, BeforeStrict, SpawnFacts, RequestFacts, HandFacts, ListFacts,
        ActiveFacts, VerdictFacts, NoOrphans, CompletedHasResult, RunningOwned
  <1> QED
    BY <1>1, <1>2, <1>3, <1>4 DEF Next

\* How a step can change the RUNNING rows and _active: only a claim adds a
\* row, only a spawn adds a child, and both follow a look at the capacity.
LEMMA CapacityStep ==
    ASSUME QueueInv, Next
    PROVE  /\ \/ RunningRows' \subseteq RunningRows
              \/ lpc = "claim" /\ RunningRows' \subseteq active \cup {cur}
           /\ \/ active' \subseteq active
              \/ lpc = "spawn" /\ active' = active \cup {cur}
           /\ lpc' \in {"claim", "spawn"} =>
                 active' = active /\ (lpc \in {"claim", "spawn"} \/ HasRoom)
  <1> USE DEF QueueInv, Inv, TypeOK, QueueTypeOK, RunningRows
  <1>1. CASE JobsNext /\ UNCHANGED <<workerVars, loopVars>>
    <2>1. active' = active /\ lpc' = lpc
      BY <1>1 DEF loopVars
    <2>2. ASSUME NEW h \in Handler, CancelWrite(h)
          PROVE  RunningRows' \subseteq RunningRows
      BY <2>2, RequestShape DEF CancelWrite, SP_INS_QUEUE
    <2>3. ASSUME NEW h \in Handler, NEW j \in Job, InsertQueued(h, j)
          PROVE  RunningRows' \subseteq RunningRows
      BY <2>3 DEF InsertQueued, SP_INS_QUEUE_NEW
    <2>4. \/ status' = status
          \/ \E h \in Handler : CancelWrite(h) \/ \E j \in Job : InsertQueued(h, j)
      BY <1>1 DEF JobsNext, EnqueueCheck, CancelRead, ReenqueueRead, ReenqueueCheck, RequestFails, queueVars
    <2>5. RunningRows' \subseteq RunningRows
      BY <2>2, <2>3, <2>4
    <2> QED
      BY <2>1, <2>5
  <1>2. CASE LoopNext /\ UNCHANGED req
    <2>1. CASE ClaimWrite
      <3>1. \A j \in Job : status[j] = "RUNNING" => j \in active
        BY <2>1 DEF ClaimWrite, RunningOwned
      <3>2. cur \in Job
        BY <2>1 DEF ClaimWrite, HandFacts, Writing
      <3> QED
        BY <2>1, <3>1, <3>2 DEF ClaimWrite, SP_INS_QUEUE
    <2>2. CASE Spawn
      BY <2>2 DEF Spawn, queueVars
    <2>3. CASE \E j \in Job : ClaimRead(j)
      BY <2>3 DEF ClaimRead, queueVars
    <2>4. ASSUME NEW j \in Job, RecoverOne(j)
          PROVE  RunningRows' \subseteq RunningRows /\ active' = active /\ lpc' = lpc
      BY <2>4 DEF RecoverOne, SP_INS_QUEUE
    <2>5. CASE ReapWrite \/ CancelledWrite \/ TimeoutWrite
      <3>1. cur \in Job
        BY <2>5 DEF ReapWrite, CancelledWrite, TimeoutWrite, MarkTerminal, HandFacts, Writing
      <3> QED
        BY <2>5, <3>1 DEF ReapWrite, CancelledWrite, TimeoutWrite, MarkTerminal, SP_INS_QUEUE, Drop
    <2>6. CASE \/ Boot \/ AfterRecover \/ ReapScan \/ AfterReap \/ CancelScan \/ AfterCancels
               \/ TimeoutScan \/ AfterTimeouts \/ AfterFill \/ WaitForWake \/ AfterDrain
               \/ Stop \/ LoopCrash
      BY <2>6
      DEF Boot, AfterRecover, ReapScan, AfterReap, CancelScan, AfterCancels, TimeoutScan,
          AfterTimeouts, AfterFill, WaitForWake, AfterDrain, Stop, LoopCrash, PhaseDone, queueVars
    <2>7. ASSUME NEW j \in Job,
                 ReapOne(j) \/ CancelStop(j) \/ TimeoutKill(j) \/ DrainOne(j) \/ Expire(j)
          PROVE  /\ RunningRows' \subseteq RunningRows
                 /\ active' \subseteq active
                 /\ lpc' \in {"claim", "spawn"} => active' = active /\ lpc \in {"claim", "spawn"}
      BY <2>7 DEF ReapOne, CancelStop, TimeoutKill, DrainOne, Expire, Drop, queueVars
    <2> QED
      BY <1>2, <2>1, <2>2, <2>3, <2>4, <2>5, <2>6, <2>7 DEF LoopNext, LoopStep
  <1>3. CASE (\E j \in Job : WorkerStep(j)) /\ UNCHANGED <<req, loopVars>>
    BY <1>3
    DEF WorkerStep, WorkerOptimize, WorkerInsResult, WorkerComplete, WorkerFail, WorkerExit,
        WorkerCrash, SP_INS_QUEUE, queueVars, loopVars
  <1> QED
    BY <1>1, <1>2, <1>3 DEF Next

\* Every step keeps the count of live workers within the limit.
LEMMA CapacityInv ==
    ASSUME QueueInv, [Next]_vars
    PROVE  CapacityFacts'
  <1>f. ASSUME NEW S \in SUBSET Job
        PROVE  IsFiniteSet(S) /\ Cardinality(S) \in Nat
    BY JobAssumption, FS_Subset, FS_CardinalityType
  <1>m. MaxConcurrent \in Nat
    BY LoopAssumption
  <1>a. active \in SUBSET Job /\ RunningRows \in SUBSET Job
    BY DEF QueueInv, Inv, TypeOK, LoopTypeOK, RunningRows
  <1>1. CASE UNCHANGED vars
    BY <1>1 DEF vars, queueVars, loopVars, QueueInv, CapacityFacts, RunningRows
  <1>2. CASE Next
    <2>u. /\ IsFiniteSet(active \cup {cur})
          /\ Cardinality(active \cup {cur}) <= Cardinality(active) + 1
      BY <1>a, <1>f, FS_AddElement
    <2>v. lpc \in {"claim", "spawn"} => Cardinality(active \cup {cur}) <= MaxConcurrent
      BY <1>a, <1>f, <1>m, <2>u, FS_CardinalityType DEF QueueInv, CapacityFacts
    <2>1. Cardinality(RunningRows') <= MaxConcurrent
      <3>1. CASE RunningRows' \subseteq RunningRows
        <4>1. Cardinality(RunningRows') <= Cardinality(RunningRows) /\ IsFiniteSet(RunningRows')
          BY <3>1, <1>a, <1>f, FS_Subset
        <4> QED
          BY <4>1, <1>a, <1>f, <1>m, FS_CardinalityType DEF QueueInv, CapacityFacts
      <3>2. CASE lpc = "claim" /\ RunningRows' \subseteq active \cup {cur}
        <4>1. Cardinality(RunningRows') <= Cardinality(active \cup {cur}) /\ IsFiniteSet(RunningRows')
          BY <3>2, <2>u, FS_Subset
        <4> QED
          BY <4>1, <3>2, <2>u, <2>v, <1>m, FS_CardinalityType
      <3> QED
        BY <1>2, <3>1, <3>2, CapacityStep
    <2>2. Cardinality(active') <= MaxConcurrent
      <3>1. CASE active' \subseteq active
        <4>1. Cardinality(active') <= Cardinality(active) /\ IsFiniteSet(active')
          BY <3>1, <1>a, <1>f, FS_Subset
        <4> QED
          BY <4>1, <1>a, <1>f, <1>m, FS_CardinalityType DEF QueueInv, CapacityFacts
      <3>2. CASE lpc = "spawn" /\ active' = active \cup {cur}
        BY <3>2, <2>v
      <3> QED
        BY <1>2, <3>1, <3>2, CapacityStep
    <2>3. lpc' \in {"claim", "spawn"} => Cardinality(active') < MaxConcurrent
      BY <1>2, CapacityStep DEF HasRoom, QueueInv, CapacityFacts
    <2> QED
      BY <2>1, <2>2, <2>3 DEF CapacityFacts
  <1> QED
    BY <1>1, <1>2

-----------------------------------------------------------------------------
(* The theorems.                                                           *)

\* The inductive invariant holds in every reachable state.
THEOREM Invariance == Spec => []QueueInv
  <1>1. Init => QueueInv
    <2>1. Init => RunningRows = {} /\ active = {} /\ lpc = "down"
      BY DEF Init, QueueInit, LoopInit, RunningRows
    <2> QED
      BY <2>1, InitInv, FS_EmptySet, LoopAssumption DEF QueueInv, CapacityFacts
  <1>2. QueueInv /\ [Next]_vars => QueueInv'
    BY NextInv, CapacityInv DEF QueueInv
  <1> QED
    BY <1>1, <1>2, PTL DEF Spec

\* Types: what the columns, requests, processes and loop variables hold.
THEOREM TypeCorrect == Spec => []TypeOK
  <1>1. QueueInv => TypeOK
    BY DEF QueueInv, Inv
  <1> QED
    BY <1>1, Invariance, PTL

\* "Never auto-requeue": no job is handed to a second worker process, whatever
\* cancels race with its claim and whenever the loop is restarted.
THEOREM NoSecondRun == Spec => []SpawnedAtMostOnce
  <1>1. QueueInv => SpawnedAtMostOnce
    BY DEF QueueInv, Inv, SpawnFacts, SpawnedAtMostOnce
  <1> QED
    BY <1>1, Invariance, PTL

\* No RUNNING row is stranded: the loop holds its child, is about to write the
\* row, or recovery has it on its list.
THEOREM NoStrandedJob == Spec => []RunningOwned
  <1>1. QueueInv => RunningOwned
    BY DEF QueueInv, Inv
  <1> QED
    BY <1>1, Invariance, PTL

\* A COMPLETED job has its result.
THEOREM SuccessIsBacked == Spec => []CompletedHasResult
  <1>1. QueueInv => CompletedHasResult
    BY DEF QueueInv, Inv
  <1> QED
    BY <1>1, Invariance, PTL

\* The loop writes a verdict only over a dead worker, where children do not
\* outlive the loop.
THEOREM VerdictsAreFinal == Spec => []VerdictAfterDeath
  <1>1. QueueInv => VerdictAfterDeath
    BY DEF QueueInv, Inv, TypeOK, LoopTypeOK, VerdictAfterDeath, HandFacts, ActiveFacts, NoOrphans,
           Live, Writing
  <1> QED
    BY <1>1, Invariance, PTL

\* Never more live workers than max_concurrent, where children do not outlive
\* the loop.
THEOREM CapacityRespected == Spec => []AtMostMaxConcurrent
  <1>1. QueueInv => AtMostMaxConcurrent
    <2> SUFFICES ASSUME QueueInv, ~OrphansSurvive
                 PROVE  Cardinality({j \in Job : proc[j] \in Live}) <= MaxConcurrent
      BY DEF AtMostMaxConcurrent
    <2> DEFINE live == {j \in Job : proc[j] \in Live}
    <2>1. live \subseteq active /\ active \subseteq Job
      BY DEF QueueInv, Inv, NoOrphans, TypeOK, LoopTypeOK
    <2>2. IsFiniteSet(active) /\ Cardinality(active) \in Nat
      BY <2>1, JobAssumption, FS_Subset, FS_CardinalityType
    <2>3. IsFiniteSet(live) /\ Cardinality(live) \in Nat /\ Cardinality(live) <= Cardinality(active)
      BY <2>1, <2>2, FS_Subset, FS_CardinalityType
    <2> QED
      BY <2>2, <2>3, LoopAssumption DEF QueueInv, CapacityFacts
  <1> QED
    BY <1>1, Invariance, PTL

\* A step rewrites the row of one job at most, and the writer is a request
\* holding a cancel, a worker, the loop with the job on its list or in hand, or
\* an enqueue of a new job.
LEMMA WhoWrites ==
    ASSUME QueueInv, Next, NEW j \in Job, status'[j] # status[j]
    PROVE  \/ status[j] = "NONE"
           \/ proc[j] \in Live
           \/ \E h \in Handler : req[h].at = "cancel" /\ req[h].job = j
           \/ cur = j
           \/ lpc = "recover" /\ j \in todo
  <1> USE DEF QueueInv, Inv, TypeOK, QueueTypeOK
  <1>1. CASE JobsNext
    <2>1. ASSUME NEW h \in Handler, CancelWrite(h)
          PROVE  req[h].at = "cancel" /\ req[h].job = j
      BY <2>1, RequestShape DEF CancelWrite, SP_INS_QUEUE
    <2>2. ASSUME NEW h \in Handler, NEW k \in Job, InsertQueued(h, k)
          PROVE  status[j] = "NONE"
      BY <2>2 DEF InsertQueued, SP_INS_QUEUE_NEW
    <2> QED
      BY <1>1, <2>1, <2>2
      DEF JobsNext, EnqueueCheck, CancelRead, ReenqueueRead, ReenqueueCheck, RequestFails, queueVars
  <1>2. CASE LoopNext
    <2>1. ASSUME NEW k \in Job, RecoverOne(k)
          PROVE  lpc = "recover" /\ j \in todo
      BY <2>1 DEF RecoverOne, SP_INS_QUEUE
    <2>2. CASE ReapWrite \/ CancelledWrite \/ TimeoutWrite \/ ClaimWrite
      BY <2>2 DEF ReapWrite, CancelledWrite, TimeoutWrite, ClaimWrite, MarkTerminal, SP_INS_QUEUE
    <2>3. \/ UNCHANGED queueVars
          \/ ReapWrite \/ CancelledWrite \/ TimeoutWrite \/ ClaimWrite
          \/ \E k \in Job : RecoverOne(k)
      BY <1>2
      DEF LoopNext, LoopStep, Boot, AfterRecover, ReapScan, AfterReap, CancelScan, AfterCancels,
          TimeoutScan, AfterTimeouts, Spawn, AfterFill, WaitForWake, AfterDrain, ReapOne,
          CancelStop, TimeoutKill, ClaimRead, DrainOne, Stop, LoopCrash, Expire, PhaseDone
    <2> QED
      BY <2>1, <2>2, <2>3 DEF queueVars
  <1>3. CASE \E k \in Job : WorkerStep(k)
    BY <1>3
    DEF WorkerStep, WorkerOptimize, WorkerInsResult, WorkerComplete, WorkerFail, WorkerExit,
        WorkerCrash, SP_INS_QUEUE, queueVars, Live
  <1> QED
    BY <1>1, <1>2, <1>3 DEF Next

\* A job at rest in a terminal state stays in it.
THEOREM RestStays == Spec => RestIsFinal
  <1>1. QueueInv /\ [Next]_vars => [\A j \in Job : AtRest(j) => status'[j] = status[j]]_vars
    BY WhoWrites DEF AtRest, Terminal
  <1> QED
    BY <1>1, Invariance, PTL DEF Spec, RestIsFinal

-----------------------------------------------------------------------------
(* The cap on a user's queue.                                              *)

QueuedOf(u) == {j \in Job : status[j] = "QUEUED" /\ owner[j] = u}

Inserting(u) == {h \in Handler : req[h].at = "insert" /\ req[h].user = u}

\* What a step can do to a user's QUEUED jobs and pending inserts: shrink them,
\* let a request in that counted fewer than the cap, or turn a pending insert
\* into a job.
LEMMA QueueMoves ==
    ASSUME QueueInv, Next, NEW u \in User
    PROVE  \/ QueuedOf(u)' \subseteq QueuedOf(u) /\ Inserting(u)' \subseteq Inserting(u)
           \/ /\ Cardinality(QueuedOf(u)) < MaxQueued
              /\ QueuedOf(u)' = QueuedOf(u)
           \/ \E h \in Inserting(u), j \in Job :
                 /\ QueuedOf(u)' = QueuedOf(u) \cup {j}
                 /\ Inserting(u)' = Inserting(u) \ {h}
  <1> USE DEF QueueInv, Inv, TypeOK, QueueTypeOK, JobsTypeOK
  \* A write of another status to an existing row only takes jobs out.
  <1>w. ASSUME NEW k, NEW s, s # "QUEUED", SP_INS_QUEUE(k, s)
        PROVE  QueuedOf(u)' \subseteq QueuedOf(u)
    BY <1>w DEF SP_INS_QUEUE, QueuedOf
  <1>k. UNCHANGED queueVars => QueuedOf(u)' = QueuedOf(u)
    BY DEF queueVars, QueuedOf
  <1>r. UNCHANGED req => Inserting(u)' = Inserting(u)
    BY DEF Inserting
  <1>1. CASE JobsNext
    <2> PICK h \in Handler :
            \/ \E v \in User, p \in Priority : EnqueueCheck(h, v, p)
            \/ \E j \in Job : InsertQueued(h, j)
            \/ \E j \in Job : CancelRead(h, j)
            \/ CancelWrite(h)
            \/ \E j \in Job : ReenqueueRead(h, j)
            \/ ReenqueueCheck(h)
            \/ RequestFails(h)
      BY <1>1 DEF JobsNext
    <2>s. req \in [Handler -> Request]
      OBVIOUS
    \* The handler moves on to insert for v, who was under the cap.
    <2>e. ASSUME NEW v, NEW p, UnderCap(v), UNCHANGED queueVars,
                 req' = [req EXCEPT ![h] = [at |-> "insert", priority |-> p, user |-> v]]
          PROVE  \/ Inserting(u)' \subseteq Inserting(u)
                 \/ Cardinality(QueuedOf(u)) < MaxQueued
      <3>1. CASE v = u
        BY <2>e, <3>1 DEF UnderCap, SP_GET_QUEUED_COUNT, QueuedOf
      <3>2. CASE v # u
        BY <2>e, <3>2, <2>s DEF Inserting
      <3> QED
        BY <3>1, <3>2
    \* The handler moves anywhere else.
    <2>d. ASSUME NEW r, r.at # "insert", req' = [req EXCEPT ![h] = r]
          PROVE  Inserting(u)' \subseteq Inserting(u)
      BY <2>d, <2>s DEF Inserting
    <2>1. CASE \E v \in User, p \in Priority : EnqueueCheck(h, v, p)
      BY <2>1, <2>e, <1>k DEF EnqueueCheck
    <2>2. ASSUME NEW j \in Job, InsertQueued(h, j)
          PROVE  \/ QueuedOf(u)' \subseteq QueuedOf(u) /\ Inserting(u)' \subseteq Inserting(u)
                 \/ \E i \in Inserting(u), l \in Job :
                       /\ QueuedOf(u)' = QueuedOf(u) \cup {l}
                       /\ Inserting(u)' = Inserting(u) \ {i}
      <3>1. /\ req[h].at = "insert"
            /\ status[j] = "NONE" /\ status' = [status EXCEPT ![j] = "QUEUED"]
            /\ owner' = [owner EXCEPT ![j] = req[h].user]
            /\ req' = [req EXCEPT ![h] = Idle]
        BY <2>2 DEF InsertQueued, SP_INS_QUEUE_NEW
      <3>2. CASE req[h].user = u
        <4>1. h \in Inserting(u) /\ Inserting(u)' = Inserting(u) \ {h}
          BY <3>1, <3>2, <2>s DEF Inserting, Idle
        <4>2. QueuedOf(u)' = QueuedOf(u) \cup {j}
          BY <3>1, <3>2 DEF QueuedOf
        <4> QED
          BY <4>1, <4>2
      <3>3. CASE req[h].user # u
        <4>1. Inserting(u)' \subseteq Inserting(u)
          BY <3>1, <2>d DEF Idle
        <4>2. QueuedOf(u)' \subseteq QueuedOf(u)
          BY <3>1, <3>3 DEF QueuedOf
        <4> QED
          BY <4>1, <4>2
      <3> QED
        BY <3>2, <3>3
    <2>3. CASE \E j \in Job : CancelRead(h, j) \/ ReenqueueRead(h, j)
      BY <2>3, <2>d, <1>k DEF CancelRead, ReenqueueRead
    <2>4. CASE CancelWrite(h)
      <3>1. req[h].target # "QUEUED"
        BY <2>4, RequestShape DEF CancelWrite
      <3> QED
        BY <2>4, <3>1, <2>d, <1>w DEF CancelWrite, Idle
    <2>5. CASE ReenqueueCheck(h)
      BY <2>5, <2>e, <1>k DEF ReenqueueCheck
    <2>6. CASE RequestFails(h)
      BY <2>6, <2>d, <1>k DEF RequestFails, Idle
    <2> QED
      BY <2>1, <2>2, <2>3, <2>4, <2>5, <2>6
  <1>2. CASE LoopNext /\ UNCHANGED req
    <2>1. ASSUME NEW k \in Job, RecoverOne(k)
          PROVE  QueuedOf(u)' \subseteq QueuedOf(u)
      BY <2>1, <1>w DEF RecoverOne
    <2>2. CASE ReapWrite \/ CancelledWrite \/ TimeoutWrite \/ ClaimWrite
      <3>1. PICK k : k = cur
        OBVIOUS
      <3>2. \E s \in {"FAILED", "CANCELLED", "RUNNING"} : SP_INS_QUEUE(k, s)
        BY <2>2, <3>1 DEF ReapWrite, CancelledWrite, TimeoutWrite, ClaimWrite, MarkTerminal
      <3> QED
        BY <1>2, <3>2, <1>w, <1>r
    <2>3. \/ UNCHANGED queueVars
          \/ ReapWrite \/ CancelledWrite \/ TimeoutWrite \/ ClaimWrite
          \/ \E k \in Job : RecoverOne(k)
      BY <1>2
      DEF LoopNext, LoopStep, Boot, AfterRecover, ReapScan, AfterReap, CancelScan, AfterCancels,
          TimeoutScan, AfterTimeouts, Spawn, AfterFill, WaitForWake, AfterDrain, ReapOne,
          CancelStop, TimeoutKill, ClaimRead, DrainOne, Stop, LoopCrash, Expire, PhaseDone
    <2> QED
      BY <1>2, <2>1, <2>2, <2>3, <1>k, <1>r
  <1>3. CASE (\E k \in Job : WorkerStep(k)) /\ UNCHANGED req
    <2>1. PICK k \in Job : WorkerStep(k)
      BY <1>3
    <2>2. \/ UNCHANGED queueVars
          \/ SP_INS_QUEUE(k, "COMPLETED") \/ SP_INS_QUEUE(k, "FAILED")
      BY <2>1
      DEF WorkerStep, WorkerOptimize, WorkerInsResult, WorkerComplete, WorkerFail, WorkerExit,
          WorkerCrash
    <2> QED
      BY <1>3, <2>2, <1>w, <1>k, <1>r
  <1> QED
    BY <1>1, <1>2, <1>3 DEF Next

\* The cap is overrun by at most the requests in flight: it is inductive over
\* the invariant of the queue, because a request that counts while others are
\* about to insert counted fewer than the cap.
LEMMA CapStep ==
    ASSUME QueueInv, QueuedCapOverrun, [Next]_vars
    PROVE  QueuedCapOverrun'
  <1>1. CASE UNCHANGED vars
    BY <1>1 DEF vars, queueVars, QueuedCapOverrun, SP_GET_QUEUED_COUNT
  <1>2. CASE Next
    <2> SUFFICES ASSUME NEW u \in User
                 PROVE  Cardinality(QueuedOf(u)') + Cardinality(Inserting(u)')
                            <= MaxQueued + Cardinality(Handler) - 1
      BY DEF QueuedCapOverrun, SP_GET_QUEUED_COUNT, QueuedOf, Inserting
    <2>h. IsFiniteSet(Handler) /\ Cardinality(Handler) \in Nat /\ MaxQueued \in Nat
      BY HandlerAssumption, MaxQueuedAssumption, FS_CardinalityType
    <2>f. /\ \A S \in SUBSET Job : IsFiniteSet(S) /\ Cardinality(S) \in Nat
          /\ \A S \in SUBSET Handler :
                IsFiniteSet(S) /\ Cardinality(S) \in Nat /\ Cardinality(S) <= Cardinality(Handler)
      BY <2>h, JobAssumption, FS_Subset, FS_CardinalityType
    <2>s. /\ QueuedOf(u) \in SUBSET Job /\ QueuedOf(u)' \in SUBSET Job
          /\ Inserting(u) \in SUBSET Handler /\ Inserting(u)' \in SUBSET Handler
      BY DEF QueuedOf, Inserting
    <2>o. Cardinality(QueuedOf(u)) + Cardinality(Inserting(u)) <= MaxQueued + Cardinality(Handler) - 1
      BY DEF QueuedCapOverrun, SP_GET_QUEUED_COUNT, QueuedOf, Inserting
    <2>1. CASE QueuedOf(u)' \subseteq QueuedOf(u) /\ Inserting(u)' \subseteq Inserting(u)
      <3>1. /\ Cardinality(QueuedOf(u)') <= Cardinality(QueuedOf(u))
            /\ Cardinality(Inserting(u)') <= Cardinality(Inserting(u))
        BY <2>1, <2>f, <2>s, FS_Subset
      <3> QED
        BY <3>1, <2>f, <2>h, <2>s, <2>o
    <2>2. CASE Cardinality(QueuedOf(u)) < MaxQueued /\ QueuedOf(u)' = QueuedOf(u)
      BY <2>2, <2>f, <2>h, <2>s
    <2>3. ASSUME NEW h \in Inserting(u), NEW j \in Job,
                 QueuedOf(u)' = QueuedOf(u) \cup {j}, Inserting(u)' = Inserting(u) \ {h}
          PROVE  Cardinality(QueuedOf(u)') + Cardinality(Inserting(u)')
                     <= MaxQueued + Cardinality(Handler) - 1
      <3>1. Cardinality(QueuedOf(u)') <= Cardinality(QueuedOf(u)) + 1
        BY <2>3, <2>f, <2>s, FS_AddElement
      <3>2. Cardinality(Inserting(u)') = Cardinality(Inserting(u)) - 1
        BY <2>3, <2>f, <2>s, FS_RemoveElement
      <3> QED
        BY <3>1, <3>2, <2>f, <2>h, <2>s, <2>o
    <2> QED
      BY <1>2, <2>1, <2>2, <2>3, QueueMoves
  <1> QED
    BY <1>1, <1>2

\* However many requests count before any of them inserts, a user's queue
\* exceeds max_queued_per_user by at most one job per other request thread.
THEOREM CapIsOverrunByRequests == Spec => []QueuedCapOverrun
  <1>1. Init => QueuedCapOverrun
    <2> SUFFICES ASSUME Init, NEW u \in User
                 PROVE  Cardinality(QueuedOf(u)) + Cardinality(Inserting(u))
                            <= MaxQueued + Cardinality(Handler) - 1
      BY DEF QueuedCapOverrun, SP_GET_QUEUED_COUNT, QueuedOf, Inserting
    <2>1. QueuedOf(u) = {} /\ Inserting(u) = {}
      BY DEF Init, QueueInit, JobsInit, Idle, QueuedOf, Inserting
    <2>2. Cardinality(Handler) \in Nat /\ Cardinality(Handler) # 0 /\ MaxQueued \in Nat
      BY HandlerAssumption, MaxQueuedAssumption, FS_CardinalityType, FS_EmptySet
    <2> QED
      BY <2>1, <2>2, FS_EmptySet
  <1>2. QueueInv /\ QueuedCapOverrun /\ [Next]_vars => QueuedCapOverrun'
    BY CapStep
  <1> QED
    BY <1>1, <1>2, Invariance, PTL DEF Spec

-----------------------------------------------------------------------------
(* The queue implements JobLifecycle.                                      *)

\* An initial queue maps to an initial life cycle.
LEMMA LifecycleInit == Init => Lifecycle!Init
  BY DEF Init, QueueInit, WorkerInit, Lifecycle!Init

\* A step that leaves status, spawns and results alone is a stutter.
LEMMA LifecycleStutter ==
    ASSUME UNCHANGED <<status, spawns, result>>
    PROVE  UNCHANGED Lifecycle!vars
  BY DEF Lifecycle!vars

\* A step that only writes the row of j is a write of the abstract system.
LEMMA LifecycleWrite ==
    ASSUME QueueInv, NEW j \in Job, NEW s, status' = [status EXCEPT ![j] = s],
           UNCHANGED <<spawns, result>>
    PROVE  Lifecycle!Write(j, s)
  BY DEF Lifecycle!Write

\* Every step is a step of JobLifecycle or a stutter.
LEMMA LifecycleNext ==
    ASSUME QueueInv, [Next]_vars
    PROVE  [Lifecycle!Next]_(Lifecycle!vars)
  <1> USE DEF QueueInv, Inv, TypeOK, QueueTypeOK, WorkerTypeOK
  <1>1. CASE JobsNext /\ UNCHANGED <<workerVars, loopVars>>
    <2>1. ASSUME NEW h \in Handler, CancelWrite(h)
          PROVE  Lifecycle!Next
      <3>1. /\ req[h].job \in Job /\ req[h].target \in {"CANCELLED", "CANCEL_REQUESTED"}
            /\ req[h].at = "cancel"
        BY <2>1, RequestShape DEF CancelWrite
      <3>2. Lifecycle!Write(req[h].job, req[h].target)
        BY <1>1, <2>1, <3>1, LifecycleWrite DEF CancelWrite, SP_INS_QUEUE, workerVars
      <3>3. Lifecycle!Cancel(req[h].job) \/ Lifecycle!RequestCancel(req[h].job)
        BY <3>1, <3>2 DEF RequestFacts, Lifecycle!Cancel, Lifecycle!RequestCancel, Lifecycle!Submitted
      <3> QED
        BY <3>1, <3>3 DEF Lifecycle!Next
    <2>2. ASSUME NEW h \in Handler, NEW j \in Job, InsertQueued(h, j)
          PROVE  Lifecycle!Next
      <3>1. Lifecycle!Write(j, "QUEUED") /\ status[j] = "NONE"
        BY <1>1, <2>2, LifecycleWrite DEF InsertQueued, SP_INS_QUEUE_NEW, workerVars
      <3> QED
        BY <3>1 DEF Lifecycle!Submit, Lifecycle!Next
    <2>3. \/ status' = status
          \/ \E h \in Handler : CancelWrite(h) \/ \E j \in Job : InsertQueued(h, j)
      BY <1>1 DEF JobsNext, EnqueueCheck, CancelRead, ReenqueueRead, ReenqueueCheck, RequestFails, queueVars
    <2> QED
      BY <1>1, <2>1, <2>2, <2>3, LifecycleStutter DEF workerVars
  <1>2. CASE LoopNext /\ UNCHANGED req
    <2>1. ASSUME NEW j \in Job, RecoverOne(j)
          PROVE  Lifecycle!Next
      <3>1. Lifecycle!Write(j, "FAILED") /\ status[j] \notin {"NONE", "QUEUED"}
        BY <2>1, LifecycleWrite DEF RecoverOne, SP_INS_QUEUE, workerVars, ListFacts
      <3> QED
        BY <3>1 DEF Lifecycle!Fail, Lifecycle!Submitted, Lifecycle!Next
    <2>2. CASE ReapWrite \/ TimeoutWrite
      <3>1. cur \in Job /\ status[cur] \notin {"NONE", "QUEUED"}
        BY <2>2 DEF ReapWrite, TimeoutWrite, MarkTerminal, HandFacts, Writing
      <3>2. Lifecycle!Write(cur, "FAILED")
        BY <2>2, <3>1, LifecycleWrite DEF ReapWrite, TimeoutWrite, MarkTerminal, SP_INS_QUEUE, workerVars
      <3> QED
        BY <3>1, <3>2 DEF Lifecycle!Fail, Lifecycle!Submitted, Lifecycle!Next
    <2>3. CASE CancelledWrite
      <3>1. cur \in Job /\ status[cur] # "NONE"
        BY <2>3 DEF CancelledWrite, MarkTerminal, HandFacts, Writing
      <3>2. Lifecycle!Write(cur, "CANCELLED")
        BY <2>3, <3>1, LifecycleWrite DEF CancelledWrite, MarkTerminal, SP_INS_QUEUE, workerVars
      <3> QED
        BY <3>1, <3>2 DEF Lifecycle!Cancel, Lifecycle!Submitted, Lifecycle!Next
    <2>4. CASE ClaimWrite
      <3>1. cur \in Job /\ status[cur] \in {"QUEUED", "CANCELLED"} /\ spawns[cur] = 0
        BY <2>4 DEF ClaimWrite, HandFacts, Writing
      <3>2. Lifecycle!Write(cur, "RUNNING")
        BY <2>4, <3>1, LifecycleWrite DEF ClaimWrite, SP_INS_QUEUE, workerVars
      <3> QED
        BY <3>1, <3>2 DEF Lifecycle!Claim, Lifecycle!Next
    <2>5. CASE Spawn
      <3>1. /\ cur \in Job /\ spawns[cur] = 0
            /\ status[cur] \in {"RUNNING", "CANCEL_REQUESTED", "CANCELLED"}
        BY <2>5 DEF Spawn, HandFacts, Writing
      <3>2. PICK c \in Job : c = cur
        BY <3>1
      <3>3. /\ spawns' = [spawns EXCEPT ![c] = @ + 1]
            /\ UNCHANGED <<status, result>>
        BY <2>5, <3>2 DEF Spawn, SpawnWorker, queueVars
      <3>4. {j \in Job : spawns'[j] > 0} = {j \in Job : spawns[j] > 0} \cup {c}
        BY <3>1, <3>2, <3>3
      <3>5. Lifecycle!Start(c)
        BY <3>1, <3>2, <3>3, <3>4 DEF Lifecycle!Start
      <3> QED
        BY <3>5 DEF Lifecycle!Next
    <2>6. CASE \/ Boot \/ AfterRecover \/ ReapScan \/ AfterReap \/ CancelScan \/ AfterCancels
               \/ TimeoutScan \/ AfterTimeouts \/ AfterFill \/ WaitForWake \/ AfterDrain
               \/ Stop \/ LoopCrash
               \/ \E j \in Job : \/ ReapOne(j) \/ CancelStop(j) \/ TimeoutKill(j)
                                 \/ ClaimRead(j) \/ DrainOne(j) \/ Expire(j)
      <3>1. UNCHANGED <<status, spawns, result>>
        BY <2>6
        DEF Boot, AfterRecover, ReapScan, AfterReap, CancelScan, AfterCancels, TimeoutScan,
            AfterTimeouts, AfterFill, WaitForWake, AfterDrain, Stop, LoopCrash, PhaseDone,
            ReapOne, CancelStop, TimeoutKill, ClaimRead, DrainOne, Expire, queueVars, workerVars
      <3> QED
        BY <3>1, LifecycleStutter
    <2> QED
      BY <1>2, <2>1, <2>2, <2>3, <2>4, <2>5, <2>6 DEF LoopNext, LoopStep
  <1>3. ASSUME NEW j \in Job, WorkerStep(j)
        PROVE  [Lifecycle!Next]_(Lifecycle!vars)
    <2>1. CASE WorkerOptimize(j) \/ WorkerExit(j) \/ WorkerCrash(j)
      BY <2>1, LifecycleStutter DEF WorkerOptimize, WorkerExit, WorkerCrash, queueVars
    <2>2. proc[j] \in Live => spawns[j] > 0 /\ status[j] \notin {"NONE", "QUEUED"}
      BY DEF SpawnFacts, Live
    <2>3. CASE WorkerInsResult(j)
      <3>1. spawns[j] > 0 /\ result' = result \cup {j} /\ UNCHANGED <<status, spawns>>
        BY <2>2, <2>3 DEF WorkerInsResult, queueVars, Live
      <3>2. Lifecycle!Save(j)
        BY <3>1 DEF Lifecycle!Save
      <3> QED
        BY <3>2 DEF Lifecycle!Next
    <2>4. CASE WorkerComplete(j)
      <3>1. Lifecycle!Write(j, "COMPLETED") /\ spawns[j] > 0 /\ j \in result
        BY <2>2, <2>4, LifecycleWrite DEF WorkerComplete, SP_INS_QUEUE, VerdictFacts, Live
      <3> QED
        BY <3>1 DEF Lifecycle!Complete, Lifecycle!Next
    <2>5. CASE WorkerFail(j)
      <3>1. Lifecycle!Write(j, "FAILED") /\ status[j] \notin {"NONE", "QUEUED"}
        BY <2>2, <2>5, LifecycleWrite DEF WorkerFail, SP_INS_QUEUE, Live
      <3> QED
        BY <3>1 DEF Lifecycle!Fail, Lifecycle!Submitted, Lifecycle!Next
    <2> QED
      BY <1>3, <2>1, <2>3, <2>4, <2>5 DEF WorkerStep
  <1>4. CASE UNCHANGED vars
    BY <1>4, LifecycleStutter DEF vars, queueVars, workerVars
  <1> QED
    BY <1>1, <1>2, <1>3, <1>4 DEF Next

\* The queue implements the lifecycle its readers rely on.
THEOREM LifecycleRefined == Spec => ImplementsLifecycle
  <1>1. QueueInv /\ [Next]_vars => [Lifecycle!Next]_(Lifecycle!vars)
    BY LifecycleNext
  <1> QED
    BY <1>1, LifecycleInit, Invariance, PTL DEF Spec, ImplementsLifecycle, Lifecycle!Spec

=============================================================================
