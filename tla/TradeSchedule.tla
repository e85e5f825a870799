--------------------------- MODULE TradeSchedule ----------------------------
(***************************************************************************)
(* Deployments under their users and the scheduler: clients of             *)
(* TradeService, calls of the tick endpoint and the poller share the       *)
(* deployment and schedule rows, and each works from what it read last.    *)
(***************************************************************************)
EXTENDS DeploymentService, SchedulePoller

CONSTANT CreatedRows    \* versions a client creates

ASSUME CreatedAssumption == CreatedRows \subseteq Row

vars == <<deployment, schedule, now, request, sweep, poller>>

Ticks == Sweeps \ {Poller}

Init == RepoInit /\ ServiceInit /\ TickInit /\ PollerInit

\* run_schedule_tick: the endpoint answers with the reports and forgets them.
TickAnswers(s) ==
    /\ sweep[s].pc = "returned"
    /\ sweep' = [sweep EXCEPT ![s] = Idle]
    /\ UNCHANGED <<repoVars, now>>

Serve(u) ==
    /\ \/ \E d \in Deployments, row \in CreatedRows : create_deployment(u, d, row)
       \/ \E d \in Deployments, patch \in Patches : UpdateReads(u, d, patch)
       \/ \E d \in Deployments : StopReads(u, d)
       \/ UpdateWrites(u) \/ StopWrites(u) \/ RequestFails(u)
    /\ UNCHANGED <<sweep, poller>>

run_schedule_tick(s) ==
    /\ Begin(s) \/ TickAnswers(s) \/ Crash(s)
    /\ UNCHANGED <<request, poller>>

PollerStep ==
    /\ Poller \in Sweeps
    /\ DrainPass \/ drain \/ Wake \/ poll_once
    /\ UNCHANGED request

PollerStops ==
    /\ Poller \in Sweeps
    /\ stop \/ PollerCrash
    /\ UNCHANGED request

\* Whoever drives it, a sweep goes on.
Work(s) == SweepStep(s) /\ UNCHANGED <<request, poller>>

TimePasses == Tick /\ UNCHANGED <<repoVars, request, sweep, poller>>

Next ==
    \/ \E u \in Users : Serve(u)
    \/ \E s \in Ticks : run_schedule_tick(s)
    \/ PollerStep \/ PollerStops
    \/ \E s \in Sweeps : Work(s)
    \/ TimePasses

Spec == Init /\ [][Next]_vars

\* Ticks are called every hour and sweeps go on; nobody makes a client act, stop
\* the poller or apply anything, and a call that may fail need not.
Fairness ==
    /\ \A s \in Ticks : WF_vars(Begin(s) /\ UNCHANGED <<request, poller>>)
    /\ \A s \in Ticks : WF_vars(TickAnswers(s) /\ UNCHANGED <<request, poller>>)
    /\ WF_vars(PollerStep)
    /\ \A s \in Sweeps : WF_vars(Work(s))

FairSpec == Spec /\ Fairness

-----------------------------------------------------------------------------
TypeOK == RepoTypeOK /\ ServiceTypeOK /\ TickTypeOK /\ PollerTypeOK

\* A deployment that is enabled, not paused or stopped, and has a cadence holds a
\* pending slot, whatever requests and sweeps overlapped: none is "enabled and
\* never fired" (update_deployment, service.py:236).
LiveIsPending ==
    \A d \in Deployments :
        Live(d) /\ Scheduled(d) => schedule[d] # NoSchedule /\ schedule[d].status = "PENDING"

\* Every cursor lies an offset before a bar's close, however late ticks ran and
\* whatever was paused, resumed or re-created in between ("keeps its original
\* phase", _advance, tick.py:280).
CursorOnSlot ==
    \A d \in Deployments :
        Scheduled(d) /\ schedule[d] # NoSchedule =>
            LET i == deployment[d].schedule_tm_interval_id
            IN  (schedule[d].scheduled_ts + Offset[i]) % Period[i] = 0

\* The scheduler never switches a deployment on: one that was disabled, paused
\* or stopped behind a sweep's back becomes live again only by a client's
\* write (_auto_pause writes a whole version from its snapshot).
SweepNeverRevives ==
    [][\A d \in Deployments : ~Live(d) /\ Live(d)' => UNCHANGED sweep]_vars

\* A stopped deployment becomes live again only if it is posted anew, if a PATCH
\* names its status, or by a PATCH that read it before the stop
\* (update_deployment writes a whole version, service.py:253): the switch alone
\* does not resume it, and no sweep does.
StopUndoneOnlyByStaleRead ==
    [][\A d \in Deployments :
         deployment[d] # NoRow /\ deployment[d].deployment_status = "STOPPED" /\ Live(d)' =>
           \/ \E row \in CreatedRows : deployment'[d] = row
           \/ \E u \in Users :
                /\ request[u] # NoReq /\ request'[u] = NoReq /\ request[u].id = d
                /\ \/ request[u].patch.deployment_status # Omitted
                   \/ request[u].current.deployment_status # "STOPPED"]_vars

\* When the drain ends by itself, nothing that was due when its last pass began
\* is still due (SchedulePoller.drain, "apply everything already overdue").
DrainComplete ==
    [][ /\ poller.phase = "drain" /\ poller'.phase # "drain"
        /\ ~sweep[Poller].stuck /\ poller.passes + 1 < MaxDrainPasses
        => \A d \in Deployments : IsDue(d) => schedule[d].scheduled_ts > poller.since]_vars

\* A due slot does not stay due: it is applied, or its deployment is paused, or
\* somebody changed the deployment (run_interval, _auto_pause).
DueIsClosed ==
    \A d \in Deployments, t \in 0..MaxNow :
        (IsDue(d) /\ schedule[d].scheduled_ts = t) ~> ~(IsDue(d) /\ schedule[d].scheduled_ts = t)

-----------------------------------------------------------------------------
(* What a comment says, and the code does not keep.                        *)

\* "stopping one stops it trading" (router.py:6): a stopped deployment becomes
\* live again only by a create, or by a PATCH that names the switch or the status.
StopHolds ==
    [][\A d \in Deployments :
         deployment[d] # NoRow /\ deployment[d].deployment_status = "STOPPED" /\ Live(d)' =>
           \/ UNCHANGED request
           \/ \E u \in Users :
                /\ request[u] # NoReq /\ request'[u] = NoReq
                /\ \/ request[u].patch.enabled = TRUE
                   \/ request[u].patch.deployment_status # Omitted]_vars
=============================================================================
