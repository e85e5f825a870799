--------------------------- MODULE DeploymentRepo ---------------------------
(***************************************************************************)
(* TRADE.DEPLOYMENT and TRADE.DEPLOYMENT_SCHEDULE_STATUS behind TradeRepo: *)
(* the open version of every deployment, its current schedule row, and the *)
(* procedures that read and write them.  A procedure is one transaction.   *)
(* Version numbers are written and never read for a decision, but for      *)
(* "is this the first version", which is whether a row exists.             *)
(***************************************************************************)
EXTENDS BarIntervals

CONSTANTS
    Deployments,
    Interval,       \* REFDATA.TM_INTERVAL ids
    NoInterval,     \* SCHEDULE_TM_INTERVAL_ID null: manual-only
    Period,         \* PERIOD_LENGTH of each interval
    Offset,         \* EXECUTE_OFFSET of each interval
    Qtys,
    Day,            \* a day, in time units
    MarketClose,    \* MARKET_CLOSE_TIME of the listing exchange
    NoClose,        \* null: a continuous market
    NoTs, NoRow, NoSchedule,
    MaxNow,         \* bound on the clock
    InitialRows,    \* versions a deployment may have at the start
    Faults          \* calls that may fail

FaultKinds == {"schedule_lost", "write_fails", "readback_fails",
               "advance_fails", "read_fails", "crash"}

DeploymentStatus == {"CREATED", "ACTIVE", "PAUSED", "STOPPED"}
OptInterval == Interval \cup {NoInterval}

\* fitted is the interval the strategy's parameters were fitted on
\* (CONFIG_JSON.tm_interval_id), the one cadence the policy admits.
Row == [is_enabled_ind : {"Y", "N"}, deployment_status : DeploymentStatus,
        schedule_tm_interval_id : OptInterval, fitted : Interval, qty : Qtys]
ScheduleRow == [status : {"PENDING", "SUCCESS"}, scheduled_ts : Int]

ASSUME RepoAssumption ==
    /\ Period \in [Interval -> Nat \ {0}]
    /\ Offset \in [Interval -> Nat] /\ \A i \in Interval : Offset[i] < Period[i]
    /\ NoInterval \notin Interval /\ NoTs \notin Int /\ Day \in Nat \ {0} /\ MaxNow \in Nat
    /\ MarketClose # NoClose => /\ MarketClose \in 0..(Day - 1)
                                /\ \A i \in Interval : Offset[i] <= Day
    /\ Faults \subseteq FaultKinds
    /\ InitialRows \subseteq Row /\ NoRow \notin Row /\ NoSchedule \notin ScheduleRow

VARIABLES
    deployment,     \* the open DEPLOYMENT row
    schedule,       \* the current DEPLOYMENT_SCHEDULE_STATUS row
    now             \* NOW(), shared by the database and the services

repoVars == <<deployment, schedule>>

RepoTypeOK ==
    /\ deployment \in [Deployments -> Row \cup {NoRow}]
    /\ schedule \in [Deployments -> ScheduleRow \cup {NoSchedule}]
    /\ now \in Nat

-----------------------------------------------------------------------------
\* A plausible bug: a bar's close for its slot, without the lead.
compute_initial_scheduled_ts_AtClose(i) == next_run_at(now, Period[i])

compute_initial_scheduled_ts(i) ==
    IF MarketClose # NoClose /\ Period[i] >= Day
    THEN next_session_apply_slot(now, Day, MarketClose, Offset[i])
    ELSE next_apply_slot(now, Period[i], Offset[i])

\* A version that is not to fire.
Closes(row) == row.is_enabled_ind = "N" \/ row.deployment_status \in {"PAUSED", "STOPPED"}

\* The schedule row that goes with a new version of d.  The first version is
\* PENDING whatever its status.
NextSchedule(d, row, initial) ==
    LET prior == schedule[d]
        ts == IF initial # NoTs THEN initial
              ELSE IF prior # NoSchedule THEN prior.scheduled_ts ELSE now
    IN  IF row.schedule_tm_interval_id # NoInterval
        THEN [status |-> IF deployment[d] # NoRow /\ Closes(row) THEN "SUCCESS" ELSE "PENDING",
              scheduled_ts |-> ts]
        ELSE IF prior # NoSchedule THEN [prior EXCEPT !.status = "SUCCESS"]
        ELSE NoSchedule

\* What creating the deployments at time 0 leaves, and none of them at all.
RepoInit ==
    /\ now = 0
    /\ deployment \in [Deployments -> InitialRows \cup {NoRow}]
    /\ schedule = [d \in Deployments |->
         IF deployment[d] = NoRow \/ deployment[d].schedule_tm_interval_id = NoInterval
         THEN NoSchedule
         ELSE [status |-> "PENDING",
               scheduled_ts |-> compute_initial_scheduled_ts(
                                  deployment[d].schedule_tm_interval_id)]]

\* The nested procedure swallows its own failure (two writers of one schedule
\* row collide on the current-row index) and its status is not looked at: the
\* version is then written without its schedule row.
SP_INS_DEPLOYMENT(d, row, initial) ==
    /\ deployment' = [deployment EXCEPT ![d] = row]
    /\ \/ schedule' = [schedule EXCEPT ![d] = NextSchedule(d, row, initial)]
       \/ "schedule_lost" \in Faults /\ UNCHANGED schedule

\* Replaces the current row whatever it says.
SP_INS_DEPLOYMENT_SCHEDULE_STATUS(d, status, ts) ==
    schedule' = [schedule EXCEPT ![d] = [status |-> status, scheduled_ts |-> ts]]

-----------------------------------------------------------------------------
\* The scheduler may fire d when its slot comes.
Live(d) == deployment[d] # NoRow /\ ~Closes(deployment[d])

Scheduled(d) == deployment[d] # NoRow /\ deployment[d].schedule_tm_interval_id # NoInterval

\* The WHERE clause of the missed-due list; a join drops a deployment without
\* a cadence or a schedule row.
IsDue(d) ==
    /\ Live(d) /\ Scheduled(d)
    /\ schedule[d] # NoSchedule
    /\ schedule[d].status = "PENDING" /\ schedule[d].scheduled_ts <= now

DueRow(d) ==
    [deployment_id |-> d, row |-> deployment[d],
     scheduled_ts |-> schedule[d].scheduled_ts,
     next_scheduled_ts |-> schedule[d].scheduled_ts
                             + Period[deployment[d].schedule_tm_interval_id]]

SP_GET_MISSED_DUE_DEPLOYMENTS(i) ==
    {DueRow(d) : d \in {e \in Deployments : IsDue(e) /\ deployment[e].schedule_tm_interval_id = i}}

\* Time passes.
Tick == now < MaxNow /\ now' = now + 1
=============================================================================
