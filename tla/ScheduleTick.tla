---------------------------- MODULE ScheduleTick ----------------------------
(***************************************************************************)
(* ScheduleSweeper and ScheduleTickRunner: a sweep visits every interval,  *)
(* reads the deployments due on it once, and applies them one by one from  *)
(* that snapshot.  An applied deployment's cursor moves to the next slot   *)
(* of the snapshot; one that keeps failing is paused by writing the        *)
(* snapshot back as a new version.  Several sweeps can run at once: the    *)
(* tick endpoint takes no lease.  What an apply does at the venue is the   *)
(* order path's; here it succeeds, fails, or fails for the operator.       *)
(***************************************************************************)
EXTENDS DeploymentRepo

CONSTANTS
    Sweeps,         \* sweeps that can run at once
    TickAttempts,   \* tick_max_attempts
    NoDue           \* no row is being applied

ASSUME TickAssumption == TickAttempts \in Nat \ {0}

VARIABLE sweep

DueRowType == [deployment_id : Deployments, row : Row, scheduled_ts : Int,
               next_scheduled_ts : Int]

\* advanced, stuck: what the reports of this sweep will say.
Sweep == [pc : {"idle", "sweep", "apply", "pause", "advance", "returned"},
          todo : SUBSET Interval, rows : SUBSET DueRowType, due : DueRowType \cup {NoDue},
          attempt : 0..TickAttempts, advanced : BOOLEAN, stuck : BOOLEAN]

TickTypeOK == sweep \in [Sweeps -> Sweep]

Idle == [pc |-> "idle", todo |-> {}, rows |-> {}, due |-> NoDue, attempt |-> 0,
         advanced |-> FALSE, stuck |-> FALSE]

TickInit == sweep = [s \in Sweeps |-> Idle]

-----------------------------------------------------------------------------
Begin(s) ==
    /\ sweep[s].pc = "idle"
    /\ sweep' = [sweep EXCEPT ![s] = [Idle EXCEPT !.pc = "sweep", !.todo = Interval]]
    /\ UNCHANGED <<repoVars, now>>

\* The due list of one interval is read once.
run_interval(s, i) ==
    /\ sweep[s].pc = "sweep" /\ sweep[s].rows = {} /\ i \in sweep[s].todo
    /\ sweep' = [sweep EXCEPT ![s].todo = @ \ {i},
                              ![s].rows = SP_GET_MISSED_DUE_DEPLOYMENTS(i)]
    /\ UNCHANGED <<repoVars, now>>

\* A failing read takes its interval out of this sweep.
ReadFails(s, i) ==
    /\ "read_fails" \in Faults
    /\ sweep[s].pc = "sweep" /\ sweep[s].rows = {} /\ i \in sweep[s].todo
    /\ sweep' = [sweep EXCEPT ![s].todo = @ \ {i}]
    /\ UNCHANGED <<repoVars, now>>

\* Rows come ordered by SCHEDULED_TS.
_run_one(s) ==
    /\ sweep[s].pc = "sweep"
    /\ \E due \in sweep[s].rows :
         /\ \A other \in sweep[s].rows : due.scheduled_ts <= other.scheduled_ts
         /\ sweep' = [sweep EXCEPT ![s].pc = "apply", ![s].due = due, ![s].attempt = 1,
                                   ![s].rows = @ \ {due}]
    /\ UNCHANGED <<repoVars, now>>

\* apply_deployment looks at the kill switch of the open version, nothing else.
Applied(s) ==
    /\ sweep[s].pc = "apply"
    /\ deployment[sweep[s].due.deployment_id].is_enabled_ind = "Y"
    /\ sweep' = [sweep EXCEPT ![s].pc = "advance"]
    /\ UNCHANGED <<repoVars, now>>

\* Any failure, the kill switch among them.
ApplyFails(s) ==
    /\ sweep[s].pc = "apply"
    /\ sweep' = [sweep EXCEPT ![s] = IF @.attempt < TickAttempts
                                     THEN [@ EXCEPT !.attempt = sweep[s].attempt + 1]
                                     ELSE [@ EXCEPT !.pc = "pause"]]
    /\ UNCHANGED <<repoVars, now>>

\* A reason with requires_operator_fix: no second attempt.
ApplyRefused(s) ==
    /\ sweep[s].pc = "apply"
    /\ deployment[sweep[s].due.deployment_id].is_enabled_ind = "Y"
    /\ sweep' = [sweep EXCEPT ![s].pc = "pause"]
    /\ UNCHANGED <<repoVars, now>>

-----------------------------------------------------------------------------
\* A plausible bug: the kill switch of the snapshot is written back.
PausedRow_KeepsSwitch(due) == [due.row EXCEPT !.deployment_status = "ACTIVE"]

\* The version _auto_pause writes: the snapshot's fields, disabled.
PausedRow(due) == [due.row EXCEPT !.is_enabled_ind = "N", !.deployment_status = "PAUSED"]

\* A row is done; the sweep takes the next.
Done(s, advanced, stuck) ==
    sweep' = [sweep EXCEPT ![s] = [@ EXCEPT !.pc = "sweep", !.due = NoDue, !.attempt = 0,
                                            !.advanced = sweep[s].advanced \/ advanced,
                                            !.stuck = sweep[s].stuck \/ stuck]]

_auto_pause(s) ==
    /\ sweep[s].pc = "pause"
    /\ SP_INS_DEPLOYMENT(sweep[s].due.deployment_id, PausedRow(sweep[s].due), NoTs)
    /\ Done(s, FALSE, FALSE)
    /\ UNCHANGED now

\* ABANDONED: write_deployment raised, either because the version was not
\* written or because reading it back failed.  The cursor is advanced instead.
PauseFails(s) ==
    /\ sweep[s].pc = "pause"
    /\ \/ "write_fails" \in Faults /\ UNCHANGED repoVars
       \/ /\ "readback_fails" \in Faults
          /\ SP_INS_DEPLOYMENT(sweep[s].due.deployment_id, PausedRow(sweep[s].due), NoTs)
    /\ sweep' = [sweep EXCEPT ![s].pc = "advance"]
    /\ UNCHANGED now

\* The slot the cursor moves to comes off the snapshot.
AdvanceTo(due) == due.next_scheduled_ts

_advance(s) ==
    /\ sweep[s].pc = "advance"
    /\ SP_INS_DEPLOYMENT_SCHEDULE_STATUS(sweep[s].due.deployment_id, "PENDING",
                                         AdvanceTo(sweep[s].due))
    /\ Done(s, TRUE, FALSE)
    /\ UNCHANGED <<deployment, now>>

\* STUCK: the row stays due and will be applied again.
AdvanceFails(s) ==
    /\ "advance_fails" \in Faults /\ sweep[s].pc = "advance"
    /\ Done(s, FALSE, TRUE)
    /\ UNCHANGED <<repoVars, now>>

\* The list of reports is handed to the driver.
Return(s) ==
    /\ sweep[s].pc = "sweep" /\ sweep[s].rows = {} /\ sweep[s].todo = {}
    /\ sweep' = [sweep EXCEPT ![s].pc = "returned"]
    /\ UNCHANGED <<repoVars, now>>

\* The process dies; what the sweep had in memory is gone.
Crash(s) ==
    /\ "crash" \in Faults /\ sweep[s].pc # "idle"
    /\ sweep' = [sweep EXCEPT ![s] = Idle]
    /\ UNCHANGED <<repoVars, now>>

SweepStep(s) ==
    \/ \E i \in Interval : run_interval(s, i) \/ ReadFails(s, i)
    \/ _run_one(s) \/ Applied(s) \/ ApplyFails(s) \/ ApplyRefused(s)
    \/ _auto_pause(s) \/ PauseFails(s) \/ _advance(s) \/ AdvanceFails(s)
    \/ Return(s)
=============================================================================
