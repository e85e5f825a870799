------------------------ MODULE TradeScheduleProofs -------------------------
(***************************************************************************)
(* Theorems about deployments and the scheduler, for every set of          *)
(* deployments, cadences, clients and overlapping sweeps: types, that a    *)
(* live deployment always holds a pending slot as long as no schedule row  *)
(* is lost inside a procedure, that a sweep never switches one on, that    *)
(* cursors stay on the slots of a common cadence, and that the drain of a  *)
(* boot, undisturbed, leaves nothing overdue.                              *)
(***************************************************************************)
EXTENDS TradeSchedule, BarIntervalsProofs

\* A sweep that applies, pauses or advances holds a row of its due list.
HoldsRow ==
    \A s \in Sweeps : sweep[s].pc \in {"apply", "pause", "advance"} => sweep[s].due \in DueRowType

\* A drain that goes on has passes left.
PassesLeft == poller.phase = "drain" => poller.passes < MaxDrainPasses

TInv == TypeOK /\ HoldsRow /\ PassesLeft

USE DEF repoVars, vars

-----------------------------------------------------------------------------
(* The procedures.                                                         *)

\* The slot a create or a realignment seeds is an instant.
LEMMA SlotTyped ==
    ASSUME now \in Nat, NEW i \in Interval
    PROVE  compute_initial_scheduled_ts(i) \in Int
<1>1. Period[i] \in Nat \ {0} /\ Offset[i] \in 0..(Period[i] - 1)
  BY RepoAssumption
<1>2. next_apply_slot(now, Period[i], Offset[i]) \in Int
  <2>1. now \in Int
    OBVIOUS
  <2> QED BY <1>1, <2>1, SlotIsAhead
<1>3. CASE MarketClose # NoClose
  <2>1. Day \in Nat \ {0} /\ MarketClose \in 0..(Day - 1) /\ Offset[i] \in 0..Day
    BY <1>1, <1>3, RepoAssumption
  <2>2. next_session_apply_slot(now, Day, MarketClose, Offset[i]) \in Int
    <3>1. Offset[i] \in 0..(6 * Day)
      BY <2>1
    <3> QED BY <2>1, <3>1, SessionSlotIsAhead
  <2> QED BY <1>2, <2>2 DEF compute_initial_scheduled_ts
<1> QED BY <1>2, <1>3 DEF compute_initial_scheduled_ts

\* SP_INS_DEPLOYMENT writes a well-formed schedule row, or leaves none.
LEMMA NextScheduleTyped ==
    ASSUME RepoTypeOK, NEW d \in Deployments, NEW row \in Row, NEW initial \in Int \cup {NoTs}
    PROVE  NextSchedule(d, row, initial) \in ScheduleRow \cup {NoSchedule}
BY DEF NextSchedule, RepoTypeOK, ScheduleRow

\* The procedure writes a version and a schedule row of their types.
LEMMA InsTyped ==
    ASSUME RepoTypeOK, NEW d \in Deployments, NEW row \in Row, NEW initial \in Int \cup {NoTs},
           SP_INS_DEPLOYMENT(d, row, initial), now' = now
    PROVE  RepoTypeOK'
<1>1. NextSchedule(d, row, initial) \in ScheduleRow \cup {NoSchedule}
  BY NextScheduleTyped
<1> QED BY <1>1 DEF SP_INS_DEPLOYMENT, RepoTypeOK

\* A version that is to fire is written with a pending slot.
LEMMA InsPending ==
    ASSUME RepoTypeOK, LiveIsPending, "schedule_lost" \notin Faults,
           NEW d \in Deployments, NEW row \in Row, NEW initial \in Int \cup {NoTs},
           SP_INS_DEPLOYMENT(d, row, initial)
    PROVE  LiveIsPending'
<1>1. /\ deployment' = [deployment EXCEPT ![d] = row]
      /\ schedule' = [schedule EXCEPT ![d] = NextSchedule(d, row, initial)]
  BY DEF SP_INS_DEPLOYMENT
<1>2. ASSUME NEW e \in Deployments, Live(e)', Scheduled(e)'
      PROVE  schedule'[e] # NoSchedule /\ schedule'[e].status = "PENDING"
  <2>1. CASE e = d
    <3>1. deployment'[d] = row /\ schedule'[d] = NextSchedule(d, row, initial)
      BY <1>1 DEF RepoTypeOK
    <3>2. ~Closes(row) /\ row.schedule_tm_interval_id # NoInterval
      BY <1>2, <2>1, <3>1 DEF Live, Scheduled, Closes
    <3>3. NextSchedule(d, row, initial).status = "PENDING"
      BY <3>2 DEF NextSchedule
    <3>4. NextSchedule(d, row, initial) \in ScheduleRow
      BY <3>2 DEF NextSchedule, RepoTypeOK, ScheduleRow
    <3> QED BY <2>1, <3>1, <3>3, <3>4, RepoAssumption
  <2>2. CASE e # d
    <3>1. deployment'[e] = deployment[e] /\ schedule'[e] = schedule[e]
      BY <1>1, <2>2 DEF RepoTypeOK
    <3>2. Live(e) /\ Scheduled(e)
      BY <1>2, <3>1 DEF Live, Scheduled, Closes
    <3> QED BY <3>1, <3>2 DEF LiveIsPending
  <2> QED BY <2>1, <2>2
<1> QED BY <1>2 DEF LiveIsPending

-----------------------------------------------------------------------------
(* Types.  One lemma per component.                                        *)

\* The invariant holds at the start.
LEMMA TInvInit == Init => TInv
<1> SUFFICES ASSUME Init PROVE TInv
  OBVIOUS
<1> USE DEF Init
<1>1. now \in Nat /\ deployment \in [Deployments -> Row \cup {NoRow}]
  BY RepoAssumption DEF RepoInit
<1>2. schedule \in [Deployments -> ScheduleRow \cup {NoSchedule}]
  <2> DEFINE value(d) ==
               IF deployment[d] = NoRow \/ deployment[d].schedule_tm_interval_id = NoInterval
               THEN NoSchedule
               ELSE [status |-> "PENDING",
                     scheduled_ts |-> compute_initial_scheduled_ts(
                                        deployment[d].schedule_tm_interval_id)]
  <2>1. schedule = [d \in Deployments |-> value(d)]
    BY DEF RepoInit
  <2>2. ASSUME NEW d \in Deployments PROVE value(d) \in ScheduleRow \cup {NoSchedule}
    <3>1. CASE deployment[d] = NoRow \/ deployment[d].schedule_tm_interval_id = NoInterval
      BY <3>1
    <3>2. CASE ~(deployment[d] = NoRow \/ deployment[d].schedule_tm_interval_id = NoInterval)
      <4>1. deployment[d].schedule_tm_interval_id \in Interval
        BY <1>1, <3>2 DEF Row, OptInterval
      <4>2. compute_initial_scheduled_ts(deployment[d].schedule_tm_interval_id) \in Int
        BY <1>1, <4>1, SlotTyped
      <4> QED BY <3>2, <4>2 DEF ScheduleRow
    <3> QED BY <3>1, <3>2
  <2> HIDE DEF value
  <2> QED BY <2>1, <2>2
<1>3. ServiceTypeOK
  BY DEF ServiceInit, ServiceTypeOK
<1>4. TickTypeOK /\ HoldsRow
  BY TickAssumption DEF TickInit, TickTypeOK, HoldsRow, Idle, Sweep
<1>5. PollerTypeOK /\ PassesLeft
  BY PollerAssumption DEF PollerInit, PollerTypeOK, PassesLeft, Booted, PollerType
<1> QED BY <1>1, <1>2, <1>3, <1>4, <1>5 DEF TInv, TypeOK, RepoTypeOK

\* The version a PATCH writes.
LEMMA PatchedTyped ==
    ASSUME NEW current \in Row, NEW patch \in PatchType
    PROVE  Patched(current, patch) \in Row
<1>1. PatchedInterval(current, patch) \in OptInterval
  BY DEF PatchedInterval, Row, OptInterval
<1>2. PatchedStatus(current, patch) \in DeploymentStatus
  BY DEF PatchedStatus, Row, PatchType, DeploymentStatus
<1>3. (CASE patch.enabled = TRUE -> "Y" [] patch.enabled = FALSE -> "N"
         [] OTHER -> current.is_enabled_ind) \in {"Y", "N"}
  BY DEF Row
<1>4. current.fitted \in Interval /\ (IF patch.qty = Omitted THEN current.qty ELSE patch.qty) \in Qtys
  BY DEF Row, PatchType
<1> QED BY <1>1, <1>2, <1>3, <1>4 DEF Patched, Row

\* What a client's step writes: a version with the slot it seeds, or nothing.
LEMMA ServeWrites ==
    ASSUME RepoTypeOK, ServiceTypeOK, NEW u \in Users, Serve(u)
    PROVE  /\ ServiceTypeOK' /\ UNCHANGED <<now, sweep, poller>>
           /\ \/ UNCHANGED repoVars
              \/ \E d \in Deployments, row \in Row, initial \in Int \cup {NoTs} :
                    SP_INS_DEPLOYMENT(d, row, initial)
<1> USE DEF Serve
<1>1. now \in Nat
  BY DEF RepoTypeOK
<1>2. CASE \E d \in Deployments, row \in CreatedRows : create_deployment(u, d, row)
  <2>1. PICK d \in Deployments, row \in CreatedRows : create_deployment(u, d, row)
    BY <1>2
  <2>2. row \in Row
    BY CreatedAssumption
  <2>3. (IF row.schedule_tm_interval_id = NoInterval THEN NoTs
         ELSE compute_initial_scheduled_ts(row.schedule_tm_interval_id)) \in Int \cup {NoTs}
    BY <1>1, <2>2, SlotTyped DEF Row, OptInterval
  <2> QED BY <2>1, <2>2, <2>3 DEF create_deployment, ServiceTypeOK
<1>3. CASE \E d \in Deployments, patch \in Patches : UpdateReads(u, d, patch)
  <2>1. PICK d \in Deployments, patch \in Patches : UpdateReads(u, d, patch)
    BY <1>3
  <2>2. deployment[d] \in Row /\ patch \in PatchType
    BY <2>1, ServiceAssumption DEF UpdateReads, RepoTypeOK
  <2>3. [op |-> "update", id |-> d, patch |-> patch, current |-> deployment[d]] \in Request
    BY <2>2 DEF Request
  <2> QED BY <2>1, <2>3 DEF UpdateReads, ServiceTypeOK
<1>4. CASE \E d \in Deployments : StopReads(u, d)
  <2>1. PICK d \in Deployments : StopReads(u, d)
    BY <1>4
  <2>2. deployment[d] \in Row /\ NoPatch \in PatchType
    BY <2>1 DEF StopReads, RepoTypeOK, NoPatch, PatchType
  <2>3. [op |-> "stop", id |-> d, patch |-> NoPatch, current |-> deployment[d]] \in Request
    BY <2>2 DEF Request
  <2> QED BY <2>1, <2>3 DEF StopReads, ServiceTypeOK
<1>5. CASE UpdateWrites(u)
  <2> DEFINE req == request[u]
             i == PatchedInterval(req.current, req.patch)
             initial == IF should_realign_schedule(req.current, req.patch) /\ i # NoInterval
                        THEN compute_initial_scheduled_ts(i) ELSE NoTs
  <2>1. req \in Request
    BY <1>5 DEF UpdateWrites, ServiceTypeOK
  <2>2. req.current \in Row /\ req.patch \in PatchType /\ req.id \in Deployments
    BY <2>1 DEF Request
  <2>3. Patched(req.current, req.patch) \in Row
    BY <2>2, PatchedTyped
  <2>4. i \in OptInterval
    BY <2>2 DEF PatchedInterval, Row, OptInterval
  <2>5. SP_INS_DEPLOYMENT(req.id, Patched(req.current, req.patch), initial)
    BY <1>5 DEF UpdateWrites
  <2>6. ServiceTypeOK' /\ UNCHANGED <<now, sweep, poller>>
    BY <1>5 DEF UpdateWrites, ServiceTypeOK
  <2> HIDE DEF i, req
  <2>7. initial \in Int \cup {NoTs}
    BY <1>1, <2>4, SlotTyped DEF OptInterval
  <2> HIDE DEF initial
  <2> QED BY <2>2, <2>3, <2>5, <2>6, <2>7
<1>6. CASE StopWrites(u)
  <2> DEFINE row == [request[u].current EXCEPT !.is_enabled_ind = "N",
                                               !.deployment_status = "STOPPED"]
  <2>1. request[u] \in Request
    BY <1>6 DEF StopWrites, ServiceTypeOK
  <2>2. request[u].id \in Deployments /\ row \in Row
    BY <2>1 DEF Request, Row, DeploymentStatus
  <2>3. SP_INS_DEPLOYMENT(request[u].id, row, NoTs)
    BY <1>6 DEF StopWrites
  <2>4. ServiceTypeOK' /\ UNCHANGED <<now, sweep, poller>>
    BY <1>6 DEF StopWrites, ServiceTypeOK
  <2> QED BY <2>2, <2>3, <2>4
<1>7. CASE RequestFails(u)
  BY <1>7 DEF RequestFails, ServiceTypeOK
<1> QED BY <1>2, <1>3, <1>4, <1>5, <1>6, <1>7

\* Replacing what one sweep remembers.
LEMMA SweepReplaced ==
    ASSUME TickTypeOK, HoldsRow, NEW s \in Sweeps, NEW v \in Sweep,
           v.pc \in {"apply", "pause", "advance"} => v.due \in DueRowType,
           sweep' = [sweep EXCEPT ![s] = v]
    PROVE  TickTypeOK' /\ HoldsRow'
BY DEF TickTypeOK, HoldsRow

\* The due list is made of well-formed rows.
LEMMA DueListTyped ==
    ASSUME RepoTypeOK, NEW i \in Interval
    PROVE  SP_GET_MISSED_DUE_DEPLOYMENTS(i) \in SUBSET DueRowType
<1>1. ASSUME NEW d \in Deployments, IsDue(d) PROVE DueRow(d) \in DueRowType
  <2>1. deployment[d] \in Row /\ deployment[d].schedule_tm_interval_id \in Interval
    BY <1>1 DEF IsDue, Live, Scheduled, RepoTypeOK, Row, OptInterval
  <2>2. schedule[d].scheduled_ts \in Int
    BY <1>1 DEF IsDue, RepoTypeOK, ScheduleRow
  <2>3. Period[deployment[d].schedule_tm_interval_id] \in Int
    BY <2>1, RepoAssumption
  <2> QED BY <2>1, <2>2, <2>3 DEF DueRow, DueRowType
<1> QED BY <1>1 DEF SP_GET_MISSED_DUE_DEPLOYMENTS

\* The version _auto_pause writes is well-formed and not to fire.
LEMMA PausedRowCloses ==
    ASSUME NEW due \in DueRowType
    PROVE  PausedRow(due) \in Row /\ Closes(PausedRow(due))
BY DEF PausedRow, DueRowType, Row, DeploymentStatus, Closes

\* What a step of a sweep writes: nothing, a version that is not to fire, or a
\* pending slot.
LEMMA SweepWrites ==
    ASSUME RepoTypeOK, TickTypeOK, HoldsRow, NEW s \in Sweeps, SweepStep(s)
    PROVE  /\ TickTypeOK' /\ HoldsRow' /\ now' = now
           /\ \/ UNCHANGED repoVars
              \/ \E d \in Deployments, row \in Row :
                    Closes(row) /\ SP_INS_DEPLOYMENT(d, row, NoTs)
              \/ /\ UNCHANGED deployment
                 /\ \E d \in Deployments, ts \in Int :
                       SP_INS_DEPLOYMENT_SCHEDULE_STATUS(d, "PENDING", ts)
<1>1. sweep[s] \in Sweep
  BY DEF TickTypeOK
<1>2. ASSUME NEW i \in Interval, run_interval(s, i)
      PROVE  TickTypeOK' /\ HoldsRow' /\ UNCHANGED <<repoVars, now>>
  <2> DEFINE v == [sweep[s] EXCEPT !.todo = @ \ {i}, !.rows = SP_GET_MISSED_DUE_DEPLOYMENTS(i)]
  <2>1. v \in Sweep /\ v.pc = "sweep"
    BY <1>1, <1>2, DueListTyped DEF run_interval, Sweep
  <2>2. sweep' = [sweep EXCEPT ![s] = v] /\ UNCHANGED <<repoVars, now>>
    BY <1>1, <1>2 DEF run_interval, TickTypeOK
  <2> HIDE DEF v
  <2> QED BY <2>1, <2>2, SweepReplaced
<1>3. ASSUME NEW i \in Interval, ReadFails(s, i)
      PROVE  TickTypeOK' /\ HoldsRow' /\ UNCHANGED <<repoVars, now>>
  <2> DEFINE v == [sweep[s] EXCEPT !.todo = @ \ {i}]
  <2>1. v \in Sweep /\ v.pc = "sweep"
    BY <1>1, <1>3 DEF ReadFails, Sweep
  <2>2. sweep' = [sweep EXCEPT ![s] = v] /\ UNCHANGED <<repoVars, now>>
    BY <1>1, <1>3 DEF ReadFails, TickTypeOK
  <2> HIDE DEF v
  <2> QED BY <2>1, <2>2, SweepReplaced
<1>4. ASSUME _run_one(s)
      PROVE  TickTypeOK' /\ HoldsRow' /\ UNCHANGED <<repoVars, now>>
  <2>1. PICK due \in sweep[s].rows :
               sweep' = [sweep EXCEPT ![s].pc = "apply", ![s].due = due, ![s].attempt = 1,
                                      ![s].rows = @ \ {due}]
    BY <1>4 DEF _run_one
  <2> DEFINE v == [sweep[s] EXCEPT !.pc = "apply", !.due = due, !.attempt = 1,
                                   !.rows = @ \ {due}]
  <2>2. due \in DueRowType
    BY <1>1 DEF Sweep
  <2>3. v \in Sweep /\ v.due = due
    <3>1. 1 \in 0..TickAttempts
      BY TickAssumption
    <3>2. sweep[s].rows \ {due} \in SUBSET DueRowType
      BY <1>1 DEF Sweep
    <3> QED BY <1>1, <2>2, <3>1, <3>2 DEF Sweep
  <2>4. sweep' = [sweep EXCEPT ![s] = v]
    BY <1>1, <2>1 DEF TickTypeOK
  <2> HIDE DEF v
  <2> QED BY <1>4, <2>2, <2>3, <2>4, SweepReplaced DEF _run_one
<1>5. ASSUME Applied(s)
      PROVE  TickTypeOK' /\ HoldsRow' /\ UNCHANGED <<repoVars, now>>
  <2> DEFINE v == [sweep[s] EXCEPT !.pc = "advance"]
  <2>1. v \in Sweep /\ v.due \in DueRowType
    BY <1>1, <1>5 DEF Applied, Sweep, HoldsRow
  <2>2. sweep' = [sweep EXCEPT ![s] = v] /\ UNCHANGED <<repoVars, now>>
    BY <1>1, <1>5 DEF Applied, TickTypeOK
  <2> HIDE DEF v
  <2> QED BY <2>1, <2>2, SweepReplaced
<1>6. ASSUME ApplyFails(s)
      PROVE  TickTypeOK' /\ HoldsRow' /\ UNCHANGED <<repoVars, now>>
  <2> DEFINE v == IF sweep[s].attempt < TickAttempts
                  THEN [sweep[s] EXCEPT !.attempt = @ + 1]
                  ELSE [sweep[s] EXCEPT !.pc = "pause"]
  <2>1. v \in Sweep /\ v.due \in DueRowType
    BY <1>1, <1>6, TickAssumption DEF ApplyFails, Sweep, HoldsRow
  <2>2. sweep' = [sweep EXCEPT ![s] = v] /\ UNCHANGED <<repoVars, now>>
    BY <1>6, Zenon DEF ApplyFails
  <2> HIDE DEF v
  <2> QED BY <2>1, <2>2, SweepReplaced
<1>7. ASSUME ApplyRefused(s)
      PROVE  TickTypeOK' /\ HoldsRow' /\ UNCHANGED <<repoVars, now>>
  <2> DEFINE v == [sweep[s] EXCEPT !.pc = "pause"]
  <2>1. v \in Sweep /\ v.due \in DueRowType
    BY <1>1, <1>7 DEF ApplyRefused, Sweep, HoldsRow
  <2>2. sweep' = [sweep EXCEPT ![s] = v] /\ UNCHANGED <<repoVars, now>>
    BY <1>1, <1>7 DEF ApplyRefused, TickTypeOK
  <2> HIDE DEF v
  <2> QED BY <2>1, <2>2, SweepReplaced
<1>8. ASSUME NEW advanced \in BOOLEAN, NEW stuck \in BOOLEAN, Done(s, advanced, stuck)
      PROVE  TickTypeOK' /\ HoldsRow'
  <2> DEFINE v == [sweep[s] EXCEPT !.pc = "sweep", !.due = NoDue, !.attempt = 0,
                                   !.advanced = @ \/ advanced, !.stuck = @ \/ stuck]
  <2>1. v \in Sweep /\ v.pc = "sweep"
    <3> DEFINE a == sweep[s].advanced \/ advanced
               b == sweep[s].stuck \/ stuck
    <3>1. a \in BOOLEAN /\ b \in BOOLEAN
      OBVIOUS
    <3>2. v = [sweep[s] EXCEPT !.pc = "sweep", !.due = NoDue, !.attempt = 0,
                               !.advanced = a, !.stuck = b]
      BY Zenon
    <3>3. 0 \in 0..TickAttempts
      BY TickAssumption
    <3> HIDE DEF a, b, v
    <3> QED BY <1>1, <3>1, <3>2, <3>3 DEF Sweep
  <2>2. sweep' = [sweep EXCEPT ![s] = v]
    BY <1>8, Zenon DEF Done
  <2> HIDE DEF v
  <2> QED BY <2>1, <2>2, SweepReplaced
<1> DEFINE due == sweep[s].due
<1>9. sweep[s].pc = "pause" => /\ due.deployment_id \in Deployments
                               /\ PausedRow(due) \in Row /\ Closes(PausedRow(due))
  <2> SUFFICES ASSUME sweep[s].pc = "pause"
               PROVE  due.deployment_id \in Deployments /\ PausedRow(due) \in Row
                        /\ Closes(PausedRow(due))
    OBVIOUS
  <2>1. due \in DueRowType
    BY DEF HoldsRow
  <2> QED BY <2>1, PausedRowCloses DEF DueRowType
<1>10. CASE _auto_pause(s)
  <2>1. TickTypeOK' /\ HoldsRow'
    BY <1>8, <1>10 DEF _auto_pause
  <2> QED BY <1>9, <1>10, <2>1 DEF _auto_pause
<1>11. CASE PauseFails(s)
  <2> DEFINE v == [sweep[s] EXCEPT !.pc = "advance"]
  <2>1. v \in Sweep /\ v.due \in DueRowType
    BY <1>1, <1>11 DEF PauseFails, Sweep, HoldsRow
  <2>2. sweep' = [sweep EXCEPT ![s] = v]
    BY <1>1, <1>11 DEF PauseFails, TickTypeOK
  <2> HIDE DEF v
  <2>3. TickTypeOK' /\ HoldsRow'
    BY <2>1, <2>2, SweepReplaced
  <2> QED BY <1>9, <1>11, <2>3 DEF PauseFails
<1>12. CASE _advance(s)
  <2>1. TickTypeOK' /\ HoldsRow'
    BY <1>8, <1>12 DEF _advance
  <2>2. due \in DueRowType
    BY <1>12 DEF _advance, HoldsRow
  <2>3. due.deployment_id \in Deployments /\ AdvanceTo(due) \in Int
    BY <2>2 DEF DueRowType, AdvanceTo
  <2> QED BY <1>12, <2>1, <2>3 DEF _advance
<1>13. CASE AdvanceFails(s)
  <2>1. TickTypeOK' /\ HoldsRow'
    BY <1>8, <1>13 DEF AdvanceFails
  <2> QED BY <1>13, <2>1 DEF AdvanceFails
<1>14. ASSUME Return(s)
       PROVE  TickTypeOK' /\ HoldsRow' /\ UNCHANGED <<repoVars, now>>
  <2> DEFINE v == [sweep[s] EXCEPT !.pc = "returned"]
  <2>1. v \in Sweep /\ v.pc = "returned"
    BY <1>1 DEF Sweep
  <2>2. sweep' = [sweep EXCEPT ![s] = v] /\ UNCHANGED <<repoVars, now>>
    BY <1>1, <1>14 DEF Return, TickTypeOK
  <2> HIDE DEF v
  <2> QED BY <2>1, <2>2, SweepReplaced
<1> QED BY <1>2, <1>3, <1>4, <1>5, <1>6, <1>7, <1>10, <1>11, <1>12, <1>13, <1>14 DEF SweepStep

\* The steps of the drivers replace a sweep by one that holds no row.
LEMMA DriverTyped ==
    ASSUME TickTypeOK, HoldsRow, NEW s \in Sweeps
    PROVE  /\ sweep' = [sweep EXCEPT ![s] = Idle] => TickTypeOK' /\ HoldsRow'
           /\ Begin(s) => TickTypeOK' /\ HoldsRow'
<1>1. Idle \in Sweep /\ Idle.pc = "idle"
  BY TickAssumption DEF Idle, Sweep
<1> DEFINE v == [Idle EXCEPT !.pc = "sweep", !.todo = Interval]
<1>2. v \in Sweep /\ v.pc = "sweep"
  BY <1>1 DEF Sweep
<1>3. Begin(s) => sweep' = [sweep EXCEPT ![s] = v]
  BY DEF Begin
<1> HIDE DEF v
<1>4. sweep' = [sweep EXCEPT ![s] = Idle] => TickTypeOK' /\ HoldsRow'
  BY <1>1, SweepReplaced
<1>5. sweep' = [sweep EXCEPT ![s] = v] => TickTypeOK' /\ HoldsRow'
  BY <1>2, SweepReplaced
<1> QED BY <1>3, <1>4, <1>5

\* The endpoint and the poller write no row.
LEMMA DriverWrites ==
    ASSUME TInv, (\E s \in Ticks : run_schedule_tick(s)) \/ PollerStep \/ PollerStops
    PROVE  /\ UNCHANGED <<repoVars, now, request>>
           /\ TickTypeOK' /\ HoldsRow' /\ PollerTypeOK' /\ PassesLeft'
<1>1. TickTypeOK /\ HoldsRow /\ poller \in PollerType /\ PassesLeft /\ now \in Nat
  BY DEF TInv, TypeOK, PollerTypeOK, RepoTypeOK
<1>2. ASSUME NEW s \in Ticks, run_schedule_tick(s)
      PROVE  /\ UNCHANGED <<repoVars, now, request, poller>>
             /\ TickTypeOK' /\ HoldsRow'
  <2>1. s \in Sweeps
    BY DEF Ticks
  <2> QED BY <1>1, <1>2, <2>1, DriverTyped DEF run_schedule_tick, Begin, TickAnswers, Crash
<1>3. CASE PollerStep
  <2>1. Poller \in Sweeps /\ UNCHANGED request
    BY <1>3 DEF PollerStep
  <2>2. CASE DrainPass
    <3>1. UNCHANGED <<repoVars, now>> /\ TickTypeOK' /\ HoldsRow'
      BY <1>1, <2>1, <2>2, DriverTyped DEF DrainPass, Begin
    <3>2. PollerTypeOK' /\ PassesLeft'
      BY <1>1, <2>2 DEF DrainPass, PollerType, PollerTypeOK, PassesLeft
    <3> QED BY <2>1, <3>1, <3>2
  <2>3. CASE drain
    <3>1. UNCHANGED <<repoVars, now>> /\ TickTypeOK' /\ HoldsRow'
      BY <1>1, <2>1, <2>3, DriverTyped DEF drain
    <3>2. poller.passes < MaxDrainPasses /\ poller.passes + 1 \in 0..MaxDrainPasses
      BY <1>1, <2>3, PollerAssumption DEF drain, PollerType, PassesLeft
    <3> DEFINE over == DrainOver(sweep[Poller]) \/ poller.passes + 1 = MaxDrainPasses
               phase == IF over THEN Loop ELSE "drain"
    <3>3. phase \in {"drain", "sleep", "poll", "stopped"}
      BY DEF Loop
    <3>4. phase = "drain" => poller.passes + 1 # MaxDrainPasses
      BY DEF Loop
    <3>5. poller' = [poller EXCEPT !.passes = @ + 1, !.phase = phase]
      BY <1>1, <2>3 DEF drain
    <3> HIDE DEF phase
    <3>6. PollerTypeOK'
      BY <1>1, <3>2, <3>3, <3>5 DEF PollerType, PollerTypeOK
    <3>7. poller'.phase = phase /\ poller'.passes = poller.passes + 1
      BY <1>1, <3>5 DEF PollerType
    <3>8. PassesLeft'
      BY <1>1, <3>2, <3>4, <3>7, PollerAssumption DEF PollerType, PassesLeft
    <3> QED BY <2>1, <3>1, <3>6, <3>8
  <2>4. CASE Wake
    <3>1. CASE Begin(Poller) /\ poller' = [poller EXCEPT !.phase = "poll"]
      <4>1. PollerTypeOK' /\ PassesLeft'
        BY <1>1, <3>1 DEF PollerType, PollerTypeOK, PassesLeft
      <4> QED BY <1>1, <2>1, <3>1, <4>1, DriverTyped DEF Begin
    <3>2. CASE poller' = [poller EXCEPT !.phase = "stopped"] /\ UNCHANGED <<sweep, repoVars, now>>
      <4>1. PollerTypeOK' /\ PassesLeft'
        BY <1>1, <3>2 DEF PollerType, PollerTypeOK, PassesLeft
      <4> QED BY <1>1, <2>1, <3>2, <4>1 DEF TickTypeOK, HoldsRow
    <3> QED BY <2>4, <3>1, <3>2 DEF Wake
  <2>5. CASE poll_once
    <3>1. UNCHANGED <<repoVars, now>> /\ TickTypeOK' /\ HoldsRow'
      BY <1>1, <2>1, <2>5, DriverTyped DEF poll_once
    <3>2. Loop \in {"sleep", "stopped"}
      BY DEF Loop
    <3>3. PollerTypeOK' /\ PassesLeft'
      BY <1>1, <2>5, <3>2 DEF poll_once, PollerType, PollerTypeOK, PassesLeft
    <3> QED BY <2>1, <3>1, <3>3
  <2> QED BY <1>3, <2>2, <2>3, <2>4, <2>5 DEF PollerStep
<1>4. CASE PollerStops
  <2>1. Poller \in Sweeps /\ UNCHANGED request
    BY <1>4 DEF PollerStops
  <2>2. CASE stop
    <3>1. PollerTypeOK' /\ PassesLeft'
      BY <1>1, <2>2 DEF stop, PollerType, PollerTypeOK, PassesLeft
    <3> QED BY <1>1, <2>1, <2>2, <3>1 DEF stop, TickTypeOK, HoldsRow
  <2>3. CASE PollerCrash
    <3>1. PollerTypeOK' /\ PassesLeft'
      BY <2>3, PollerAssumption DEF PollerCrash, Booted, PollerType, PollerTypeOK, PassesLeft
    <3> QED BY <1>1, <2>1, <2>3, <3>1, DriverTyped DEF PollerCrash, Crash
  <2> QED BY <1>4, <2>2, <2>3 DEF PollerStops
<1>5. CASE \E s \in Ticks : run_schedule_tick(s)
  BY <1>1, <1>2, <1>5 DEF PollerTypeOK, PassesLeft
<1> QED BY <1>3, <1>4, <1>5

-----------------------------------------------------------------------------
\* Every step keeps the invariant, and writes nothing, a client's version, a
\* version that is not to fire, or a pending slot.
LEMMA StepWrites ==
    ASSUME TInv, [Next]_vars
    PROVE  /\ TInv'
           /\ \/ UNCHANGED repoVars
              \/ /\ UNCHANGED sweep
                 /\ \E d \in Deployments, row \in Row, initial \in Int \cup {NoTs} :
                       SP_INS_DEPLOYMENT(d, row, initial)
              \/ \E d \in Deployments, row \in Row :
                    Closes(row) /\ SP_INS_DEPLOYMENT(d, row, NoTs)
              \/ /\ UNCHANGED deployment
                 /\ \E d \in Deployments, ts \in Int :
                       SP_INS_DEPLOYMENT_SCHEDULE_STATUS(d, "PENDING", ts)
<1> USE DEF TInv, TypeOK
<1>1. ASSUME NEW u \in Users, Serve(u)
      PROVE  /\ TInv'
             /\ \/ UNCHANGED repoVars
                \/ /\ UNCHANGED sweep
                   /\ \E d \in Deployments, row \in Row, initial \in Int \cup {NoTs} :
                         SP_INS_DEPLOYMENT(d, row, initial)
  <2>1. /\ ServiceTypeOK' /\ UNCHANGED <<now, sweep, poller>>
        /\ \/ UNCHANGED repoVars
           \/ \E d \in Deployments, row \in Row, initial \in Int \cup {NoTs} :
                 SP_INS_DEPLOYMENT(d, row, initial)
    BY <1>1, ServeWrites
  <2>2. RepoTypeOK'
    <3>1. CASE UNCHANGED repoVars
      BY <2>1, <3>1 DEF RepoTypeOK
    <3>2. CASE \E d \in Deployments, row \in Row, initial \in Int \cup {NoTs} :
                  SP_INS_DEPLOYMENT(d, row, initial)
      BY <2>1, <3>2, InsTyped
    <3> QED BY <2>1, <3>1, <3>2
  <2>3. TickTypeOK' /\ HoldsRow' /\ PollerTypeOK' /\ PassesLeft'
    BY <2>1 DEF TickTypeOK, HoldsRow, PollerTypeOK, PassesLeft
  <2> QED BY <2>1, <2>2, <2>3
<1>2. ASSUME (\E s \in Ticks : run_schedule_tick(s)) \/ PollerStep \/ PollerStops
      PROVE  TInv' /\ UNCHANGED repoVars
  BY <1>2, DriverWrites DEF RepoTypeOK, ServiceTypeOK
<1>3. ASSUME NEW s \in Sweeps, Work(s)
      PROVE  /\ TInv'
             /\ \/ UNCHANGED repoVars
                \/ \E d \in Deployments, row \in Row :
                      Closes(row) /\ SP_INS_DEPLOYMENT(d, row, NoTs)
                \/ /\ UNCHANGED deployment
                   /\ \E d \in Deployments, ts \in Int :
                         SP_INS_DEPLOYMENT_SCHEDULE_STATUS(d, "PENDING", ts)
  <2>1. /\ TickTypeOK' /\ HoldsRow' /\ now' = now
        /\ \/ UNCHANGED repoVars
           \/ \E d \in Deployments, row \in Row :
                 Closes(row) /\ SP_INS_DEPLOYMENT(d, row, NoTs)
           \/ /\ UNCHANGED deployment
              /\ \E d \in Deployments, ts \in Int :
                    SP_INS_DEPLOYMENT_SCHEDULE_STATUS(d, "PENDING", ts)
    BY <1>3, SweepWrites DEF Work
  <2>2. RepoTypeOK'
    <3>1. CASE UNCHANGED repoVars
      BY <2>1, <3>1 DEF RepoTypeOK
    <3>2. CASE \E d \in Deployments, row \in Row : Closes(row) /\ SP_INS_DEPLOYMENT(d, row, NoTs)
      BY <2>1, <3>2, InsTyped
    <3>3. CASE /\ UNCHANGED deployment
               /\ \E d \in Deployments, ts \in Int :
                     SP_INS_DEPLOYMENT_SCHEDULE_STATUS(d, "PENDING", ts)
      <4>1. PICK d \in Deployments, ts \in Int :
                 schedule' = [schedule EXCEPT ![d] = [status |-> "PENDING", scheduled_ts |-> ts]]
        BY <3>3 DEF SP_INS_DEPLOYMENT_SCHEDULE_STATUS
      <4>2. [status |-> "PENDING", scheduled_ts |-> ts] \in ScheduleRow
        BY DEF ScheduleRow
      <4> QED BY <2>1, <3>3, <4>1, <4>2 DEF RepoTypeOK
    <3> QED BY <2>1, <3>1, <3>2, <3>3
  <2>3. ServiceTypeOK' /\ PollerTypeOK' /\ PassesLeft'
    BY <1>3 DEF Work, ServiceTypeOK, PollerTypeOK, PassesLeft
  <2> QED BY <2>1, <2>2, <2>3
<1>4. ASSUME TimePasses \/ UNCHANGED vars
      PROVE  TInv' /\ UNCHANGED repoVars
  <2>1. UNCHANGED <<repoVars, request, sweep, poller>> /\ now' \in Nat
    BY <1>4 DEF TimePasses, Tick, RepoTypeOK
  <2> QED BY <2>1 DEF RepoTypeOK, ServiceTypeOK, TickTypeOK, HoldsRow, PollerTypeOK, PassesLeft
<1> QED BY <1>1, <1>2, <1>3, <1>4 DEF Next

\* Every row, request, sweep and poller state stays well-formed, however requests,
\* sweeps, failures and crashes overlap: in particular a sweep never makes more
\* than tick_max_attempts attempts (tick.py:191) and a drain never more than its
\* passes (poller.py:89).
THEOREM TypeCorrect == Spec => []TypeOK
<1>1. TInv /\ [Next]_vars => TInv'
  BY StepWrites
<1>2. TInv => TypeOK
  BY DEF TInv
<1> QED BY <1>1, <1>2, TInvInit, PTL DEF Spec

\* As long as no schedule row is lost inside SP_INS_DEPLOYMENT, a deployment that is
\* to fire holds a pending slot, for any number of overlapping clients and sweeps.
THEOREM LiveHoldsSlot ==
    ASSUME "schedule_lost" \notin Faults
    PROVE  Spec => []LiveIsPending
<1>1. Init => LiveIsPending
  <2> SUFFICES ASSUME Init PROVE LiveIsPending
    OBVIOUS
  <2>1. RepoTypeOK
    BY TInvInit DEF TInv, TypeOK
  <2>2. ASSUME NEW d \in Deployments, Scheduled(d)
        PROVE  schedule[d] # NoSchedule /\ schedule[d].status = "PENDING"
    <3>1. deployment[d] # NoRow /\ deployment[d].schedule_tm_interval_id # NoInterval
      BY <2>2 DEF Scheduled
    <3>2. schedule[d] = [status |-> "PENDING",
                         scheduled_ts |-> compute_initial_scheduled_ts(
                                            deployment[d].schedule_tm_interval_id)]
      BY <3>1 DEF Init, RepoInit
    <3>3. deployment[d].schedule_tm_interval_id \in Interval /\ now \in Nat
      BY <2>1, <3>1 DEF RepoTypeOK, Row, OptInterval
    <3>4. schedule[d] \in ScheduleRow
      BY <3>2, <3>3, SlotTyped DEF ScheduleRow
    <3> QED BY <3>2, <3>4, RepoAssumption
  <2> QED BY <2>2 DEF LiveIsPending
<1>2. TInv /\ LiveIsPending /\ [Next]_vars => LiveIsPending'
  <2> SUFFICES ASSUME TInv, LiveIsPending, [Next]_vars PROVE LiveIsPending'
    OBVIOUS
  <2>1. RepoTypeOK
    BY DEF TInv, TypeOK
  <2>2. CASE UNCHANGED repoVars
    BY <2>2 DEF LiveIsPending, Live, Scheduled, Closes
  <2>3. CASE \E d \in Deployments, row \in Row, initial \in Int \cup {NoTs} :
                SP_INS_DEPLOYMENT(d, row, initial)
    BY <2>1, <2>3, InsPending
  <2>4. CASE \E d \in Deployments, row \in Row : Closes(row) /\ SP_INS_DEPLOYMENT(d, row, NoTs)
    BY <2>1, <2>4, InsPending
  <2>5. CASE /\ UNCHANGED deployment
             /\ \E d \in Deployments, ts \in Int :
                   SP_INS_DEPLOYMENT_SCHEDULE_STATUS(d, "PENDING", ts)
    <3>1. PICK d \in Deployments, ts \in Int :
               schedule' = [schedule EXCEPT ![d] = [status |-> "PENDING", scheduled_ts |-> ts]]
      BY <2>5 DEF SP_INS_DEPLOYMENT_SCHEDULE_STATUS
    <3>2. [status |-> "PENDING", scheduled_ts |-> ts] # NoSchedule
      BY RepoAssumption DEF ScheduleRow
    <3>3. ASSUME NEW e \in Deployments, Live(e)', Scheduled(e)'
          PROVE  schedule'[e] # NoSchedule /\ schedule'[e].status = "PENDING"
      <4>1. Live(e) /\ Scheduled(e)
        BY <2>5, <3>3 DEF Live, Scheduled, Closes
      <4> QED BY <2>1, <3>1, <3>2, <4>1 DEF LiveIsPending, RepoTypeOK
    <3> QED BY <3>3 DEF LiveIsPending
  <2> QED BY <2>2, <2>3, <2>4, <2>5, StepWrites
<1>3. TInv /\ [Next]_vars => TInv'
  BY StepWrites
<1> QED BY <1>1, <1>2, <1>3, TInvInit, PTL DEF Spec

\* Whatever was written behind a sweep's back, its steps never make a deployment
\* live that was disabled, paused or stopped (_auto_pause, tick.py:217).
THEOREM SweepsOnlySwitchOff == Spec => SweepNeverRevives
<1>1. TInv /\ [Next]_vars =>
        [\A d \in Deployments : ~Live(d) /\ Live(d)' => UNCHANGED sweep]_vars
  <2> SUFFICES ASSUME TInv, [Next]_vars, NEW e \in Deployments, ~Live(e), Live(e)'
               PROVE  UNCHANGED sweep
    OBVIOUS
  <2>1. RepoTypeOK
    BY DEF TInv, TypeOK
  <2>2. deployment'[e] # deployment[e]
    BY DEF Live, Closes
  <2>3. ASSUME NEW d \in Deployments, NEW row \in Row, Closes(row),
               SP_INS_DEPLOYMENT(d, row, NoTs)
        PROVE  FALSE
    <3>1. deployment' = [deployment EXCEPT ![d] = row]
      BY <2>3 DEF SP_INS_DEPLOYMENT
    <3>2. deployment'[e] = row
      BY <2>1, <2>2, <3>1 DEF RepoTypeOK
    <3> QED BY <2>3, <3>2 DEF Live, Closes
  <2> QED BY <2>2, <2>3, StepWrites
<1>2. TInv /\ [Next]_vars => TInv'
  BY StepWrites
<1> QED BY <1>1, <1>2, TInvInit, PTL DEF Spec, SweepNeverRevives

\* A stop is undone only by a post, by a PATCH that names the status, or by one that
\* read the deployment before the stop, for any number of clients and sweeps.
THEOREM StopsHold == Spec => StopUndoneOnlyByStaleRead
<1> DEFINE Undone(d) ==
             \/ \E row \in CreatedRows : deployment'[d] = row
             \/ \E u \in Users :
                  /\ request[u] # NoReq /\ request'[u] = NoReq /\ request[u].id = d
                  /\ \/ request[u].patch.deployment_status # Omitted
                     \/ request[u].current.deployment_status # "STOPPED"
           Stopped(d) == deployment[d] # NoRow /\ deployment[d].deployment_status = "STOPPED"
<1>1. ASSUME TInv, NEW u \in Users, Serve(u), NEW d \in Deployments, Stopped(d), Live(d)'
      PROVE  Undone(d)
  <2>1. RepoTypeOK /\ ServiceTypeOK
    BY <1>1 DEF TInv, TypeOK
  <2>2. deployment'[d] # deployment[d]
    BY <1>1 DEF Live, Closes
  <2>3. CASE \E e \in Deployments, row \in CreatedRows : create_deployment(u, e, row)
    <3>1. PICK e \in Deployments, row \in CreatedRows : deployment' = [deployment EXCEPT ![e] = row]
      BY <2>3 DEF create_deployment, SP_INS_DEPLOYMENT
    <3>2. deployment'[d] = row
      BY <2>1, <2>2, <3>1 DEF RepoTypeOK
    <3> QED BY <3>2
  <2>4. CASE UpdateWrites(u)
    <3> DEFINE row == Patched(request[u].current, request[u].patch)
    <3>1. request[u] # NoReq /\ request[u] \in Request /\ request'[u] = NoReq
      BY <2>1, <2>4 DEF UpdateWrites, ServiceTypeOK
    <3>2. deployment' = [deployment EXCEPT ![request[u].id] = row]
      BY <2>4 DEF UpdateWrites, SP_INS_DEPLOYMENT
    <3> HIDE DEF row
    <3>3. request[u].id = d /\ deployment'[d] = row
      BY <2>1, <2>2, <3>2 DEF RepoTypeOK
    <3>4. ~Closes(row)
      BY <1>1, <3>3 DEF Live, Closes
    <3>5. row.deployment_status = PatchedStatus(request[u].current, request[u].patch)
      BY DEF row, Patched
    <3>6. \/ request[u].patch.deployment_status # Omitted
          \/ request[u].current.deployment_status # "STOPPED"
      BY <3>4, <3>5 DEF Closes, PatchedStatus
    <3> QED BY <3>1, <3>3, <3>6
  <2>5. CASE StopWrites(u)
    <3> DEFINE row == [request[u].current EXCEPT !.is_enabled_ind = "N",
                                                 !.deployment_status = "STOPPED"]
    <3>1. request[u] \in Request
      BY <2>1, <2>5 DEF StopWrites, ServiceTypeOK
    <3>2. Closes(row)
      BY <3>1 DEF Request, Row, Closes
    <3>3. deployment' = [deployment EXCEPT ![request[u].id] = row]
      BY <2>5 DEF StopWrites, SP_INS_DEPLOYMENT
    <3> HIDE DEF row
    <3>4. deployment'[d] = row
      BY <2>1, <2>2, <3>3 DEF RepoTypeOK
    <3> QED BY <1>1, <3>2, <3>4 DEF Live, Closes
  <2>6. CASE UNCHANGED deployment
    BY <2>2, <2>6
  <2> QED BY <1>1, <2>3, <2>4, <2>5, <2>6 DEF Serve, UpdateReads, StopReads, RequestFails
<1>2. ASSUME TInv, [Next]_vars, NEW d \in Deployments, Stopped(d), Live(d)'
      PROVE  Undone(d)
  <2>1. ~Live(d)
    BY <1>2 DEF Live, Closes
  <2>2. CASE \E u \in Users : Serve(u)
    BY <1>1, <1>2, <2>2
  <2>3. CASE UNCHANGED deployment
    BY <1>2, <2>1, <2>3 DEF Live, Closes
  <2>4. CASE \E s \in Sweeps : Work(s)
    <3>1. \/ UNCHANGED deployment
          \/ \E e \in Deployments, row \in Row : Closes(row) /\ SP_INS_DEPLOYMENT(e, row, NoTs)
      BY <1>2, <2>4, SweepWrites DEF Work, TInv, TypeOK
    <3>2. ASSUME NEW e \in Deployments, NEW row \in Row, Closes(row),
                 SP_INS_DEPLOYMENT(e, row, NoTs)
          PROVE  FALSE
      <4>1. deployment' = [deployment EXCEPT ![e] = row]
        BY <3>2 DEF SP_INS_DEPLOYMENT
      <4>2. deployment'[d] = row \/ deployment'[d] = deployment[d]
        BY <1>2, <4>1 DEF TInv, TypeOK, RepoTypeOK
      <4> QED BY <1>2, <2>1, <3>2, <4>2 DEF Live, Closes
    <3> QED BY <2>3, <3>1, <3>2
  <2>5. CASE (\E s \in Ticks : run_schedule_tick(s)) \/ PollerStep \/ PollerStops
    BY <1>2, <2>3, <2>5, DriverWrites
  <2>6. CASE TimePasses \/ UNCHANGED vars
    BY <2>3, <2>6 DEF TimePasses
  <2> QED BY <1>2, <2>2, <2>4, <2>5, <2>6 DEF Next
<1>3. TInv /\ [Next]_vars => TInv'
  BY StepWrites
<1>4. TInv /\ [Next]_vars =>
        [\A d \in Deployments : Stopped(d) /\ Live(d)' => Undone(d)]_vars
  BY <1>2
<1> QED BY <1>3, <1>4, TInvInit, PTL DEF Spec, StopUndoneOnlyByStaleRead

-----------------------------------------------------------------------------
(* Cursors.                                                                *)

\* Every deployment is on the same cadence of a market that does not close during
\* it, and no schedule row is lost inside SP_INS_DEPLOYMENT.
OneCadence ==
    /\ \A i, j \in Interval : Period[i] = Period[j] /\ Offset[i] = Offset[j]
    /\ \A i \in Interval : MarketClose = NoClose \/ Period[i] < Day
    /\ "schedule_lost" \notin Faults

\* An offset before a bar's close.
OnGrid(ts) == \A i \in Interval : SlotAt(ts, Period[i], Offset[i])

CursorsOnGrid == \A d \in Deployments : schedule[d] # NoSchedule => OnGrid(schedule[d].scheduled_ts)

\* A schedule row, once there, stays: what has a cadence has a row, ...
ScheduledHasRow == \A d \in Deployments : Scheduled(d) => schedule[d] # NoSchedule

\* ... what a client read of a deployment with a cadence is of one with a row, ...
RequestsHaveRows ==
    \A u \in Users : request[u] # NoReq /\ request[u].current.schedule_tm_interval_id # NoInterval =>
        schedule[request[u].id] # NoSchedule

\* ... and so is what a sweep holds, whose next slot is a slot.
DueOnGrid(rows, due) == rows[due.deployment_id] # NoSchedule /\ OnGrid(due.next_scheduled_ts)

SweepsOnGrid ==
    \A s \in Sweeps :
        /\ \A due \in sweep[s].rows : DueOnGrid(schedule, due)
        /\ sweep[s].pc \in {"apply", "pause", "advance"} => DueOnGrid(schedule, sweep[s].due)

GridInv == CursorsOnGrid /\ ScheduledHasRow /\ RequestsHaveRows /\ SweepsOnGrid

RowsStay == \A d \in Deployments : schedule[d] # NoSchedule => schedule'[d] # NoSchedule

\* The slot a create or a realignment seeds.
LEMMA SeedOnGrid ==
    ASSUME OneCadence, now \in Nat, NEW i \in Interval
    PROVE  OnGrid(compute_initial_scheduled_ts(i))
<1>1. Period[i] \in Nat \ {0} /\ Offset[i] \in 0..(Period[i] - 1) /\ Day \in Nat \ {0} /\ now \in Int
  BY RepoAssumption
<1>2. compute_initial_scheduled_ts(i) = next_apply_slot(now, Period[i], Offset[i])
  <2>1. MarketClose = NoClose \/ ~(Period[i] >= Day)
    BY <1>1 DEF OneCadence
  <2> QED BY <2>1 DEF compute_initial_scheduled_ts
<1>3. SlotAt(next_apply_slot(now, Period[i], Offset[i]), Period[i], Offset[i])
  BY <1>1, SlotIsAhead
<1> QED BY <1>2, <1>3 DEF OnGrid, OneCadence

\* A period after a slot.
LEMMA NextOnGrid ==
    ASSUME OneCadence, NEW ts \in Int, OnGrid(ts), NEW i \in Interval
    PROVE  OnGrid(ts + Period[i])
<1> SUFFICES ASSUME NEW j \in Interval
             PROVE  SlotAt(ts + Period[i], Period[j], Offset[j])
  BY DEF OnGrid
<1>1. PICK p \in Int, o \in Int : p = Period[j] /\ o = Offset[j]
  BY RepoAssumption
<1>2. PICK k \in Int : ts + o = k * p
  BY <1>1 DEF OnGrid, SlotAt
<1>3. ts + p + o = (k + 1) * p
  BY <1>2
<1>4. SlotAt(ts + p, p, o)
  BY <1>3 DEF SlotAt
<1> QED BY <1>1, <1>4 DEF OneCadence

\* A slot, as CursorOnSlot says it.
LEMMA GridIsSlot ==
    ASSUME NEW ts \in Int, OnGrid(ts), NEW i \in Interval
    PROVE  (ts + Offset[i]) % Period[i] = 0
<1>1. PICK p \in Nat \ {0}, o \in Int : p = Period[i] /\ o = Offset[i]
  BY RepoAssumption
<1>2. PICK k \in Int : ts + o = k * p
  BY <1>1 DEF OnGrid, SlotAt
<1>3. PICK x \in Int : x = ts + o
  OBVIOUS
<1>4. x \div p \in Int /\ x = (x \div p) * p + (x % p) /\ 0 <= x % p /\ x % p < p
  OBVIOUS
<1>5. PICK q \in Int, r \in Int : q = x \div p /\ r = x % p
  BY <1>4
<1>6. k * p = q * p + r /\ 0 <= r /\ r < p
  BY <1>2, <1>3, <1>4, <1>5
<1>7. CASE k * p > q * p
  <2>1. k * p >= (q + 1) * p
    BY <1>7, MultiplesOrdered
  <2>2. (q + 1) * p = q * p + p
    OBVIOUS
  <2> QED BY <1>6, <2>1, <2>2
<1>8. CASE ~(k * p > q * p)
  <2>1. k * p \in Int /\ q * p \in Int
    OBVIOUS
  <2>2. r = 0
    BY <1>6, <1>8, <2>1
  <2> QED BY <1>1, <1>3, <1>5, <2>2
<1> QED BY <1>7, <1>8

\* SP_INS_DEPLOYMENT: the slot it is given, or that of the row before.
LEMMA InsOnGrid ==
    ASSUME OneCadence, RepoTypeOK, CursorsOnGrid, ScheduledHasRow,
           NEW d \in Deployments, NEW row \in Row, NEW initial \in Int \cup {NoTs},
           initial # NoTs => OnGrid(initial),
           initial = NoTs /\ row.schedule_tm_interval_id # NoInterval => schedule[d] # NoSchedule,
           SP_INS_DEPLOYMENT(d, row, initial)
    PROVE  CursorsOnGrid' /\ ScheduledHasRow' /\ RowsStay
<1> DEFINE next == NextSchedule(d, row, initial)
<1>1. deployment' = [deployment EXCEPT ![d] = row] /\ schedule' = [schedule EXCEPT ![d] = next]
  BY DEF SP_INS_DEPLOYMENT, OneCadence
<1>2. schedule[d] # NoSchedule => schedule[d] \in ScheduleRow /\ OnGrid(schedule[d].scheduled_ts)
  BY DEF RepoTypeOK, CursorsOnGrid
<1>3. CASE row.schedule_tm_interval_id # NoInterval
  <2> DEFINE ts == IF initial # NoTs THEN initial ELSE schedule[d].scheduled_ts
  <2>1. ts \in Int /\ OnGrid(ts)
    BY <1>2, <1>3 DEF ScheduleRow
  <2>2. PICK st \in {"PENDING", "SUCCESS"} : next = [status |-> st, scheduled_ts |-> ts]
    BY <1>3 DEF NextSchedule
  <2> HIDE DEF ts
  <2>3. next \in ScheduleRow /\ next.scheduled_ts = ts
    BY <2>1, <2>2 DEF ScheduleRow
  <2>4. next # NoSchedule /\ OnGrid(next.scheduled_ts)
    BY <2>1, <2>3, RepoAssumption
  <2> HIDE DEF next
  <2> QED BY <1>1, <2>4 DEF RepoTypeOK, CursorsOnGrid, ScheduledHasRow, Scheduled, RowsStay, OnGrid
<1>4. CASE row.schedule_tm_interval_id = NoInterval /\ schedule[d] # NoSchedule
  <2>1. next = [schedule[d] EXCEPT !.status = "SUCCESS"]
    BY <1>4 DEF NextSchedule
  <2>2. next \in ScheduleRow /\ next.scheduled_ts = schedule[d].scheduled_ts
    BY <1>2, <1>4, <2>1 DEF ScheduleRow
  <2>3. next # NoSchedule /\ OnGrid(next.scheduled_ts)
    BY <1>2, <1>4, <2>2, RepoAssumption
  <2> HIDE DEF next
  <2> QED BY <1>1, <2>3 DEF RepoTypeOK, CursorsOnGrid, ScheduledHasRow, Scheduled, RowsStay, OnGrid
<1>5. CASE row.schedule_tm_interval_id = NoInterval /\ schedule[d] = NoSchedule
  <2>1. next = NoSchedule
    BY <1>5 DEF NextSchedule
  <2> HIDE DEF next
  <2> QED BY <1>1, <1>5, <2>1 DEF RepoTypeOK, CursorsOnGrid, ScheduledHasRow, Scheduled, RowsStay, OnGrid
<1> QED BY <1>3, <1>4, <1>5

\* What requests and sweeps hold, they still hold when rows stay.
LEMMA HoldersKeep ==
    ASSUME TInv, RowsStay
    PROVE  /\ RequestsHaveRows /\ UNCHANGED request => RequestsHaveRows'
           /\ SweepsOnGrid /\ UNCHANGED sweep => SweepsOnGrid'
<1>1. RequestsHaveRows /\ UNCHANGED request => RequestsHaveRows'
  BY DEF RequestsHaveRows, RowsStay, TInv, TypeOK, ServiceTypeOK, Request
<1>2. \A due \in DueRowType : DueOnGrid(schedule, due) => DueOnGrid(schedule', due)
  BY DEF DueOnGrid, DueRowType, RowsStay, OnGrid
<1>3. \A s \in Sweeps : sweep[s].rows \in SUBSET DueRowType
  BY DEF TInv, TypeOK, TickTypeOK, Sweep
<1>4. SweepsOnGrid /\ UNCHANGED sweep => SweepsOnGrid'
  BY <1>2, <1>3 DEF SweepsOnGrid, TInv, HoldsRow
<1> QED BY <1>1, <1>4

\* A client's step.
LEMMA ServeOnGrid ==
    ASSUME OneCadence, TInv, GridInv, NEW u \in Users, Serve(u)
    PROVE  GridInv'
<1> USE DEF Serve, GridInv
<1>1. RepoTypeOK /\ ServiceTypeOK /\ now \in Nat /\ UNCHANGED <<now, sweep>>
  <2>1. UNCHANGED <<now, sweep, poller>>
    BY ServeWrites DEF TInv, TypeOK
  <2> QED BY <2>1 DEF TInv, TypeOK, RepoTypeOK
<1>2. CASE \E d \in Deployments, row \in CreatedRows : create_deployment(u, d, row)
  <2>1. PICK d \in Deployments, row \in CreatedRows : create_deployment(u, d, row)
    BY <1>2
  <2>2. row \in Row /\ (row.schedule_tm_interval_id # NoInterval => row.schedule_tm_interval_id \in Interval)
    BY CreatedAssumption DEF Row, OptInterval
  <2>3. PICK initial \in Int \cup {NoTs} :
             /\ SP_INS_DEPLOYMENT(d, row, initial)
             /\ initial # NoTs => OnGrid(initial)
             /\ initial = NoTs => row.schedule_tm_interval_id = NoInterval
    <3>1. CASE row.schedule_tm_interval_id = NoInterval
      BY <2>1, <3>1 DEF create_deployment
    <3>2. CASE row.schedule_tm_interval_id # NoInterval
      <4> DEFINE ts == compute_initial_scheduled_ts(row.schedule_tm_interval_id)
      <4>1. ts \in Int /\ OnGrid(ts)
        BY <1>1, <2>2, <3>2, SlotTyped, SeedOnGrid
      <4>2. SP_INS_DEPLOYMENT(d, row, ts)
        BY <2>1, <3>2 DEF create_deployment
      <4> HIDE DEF ts
      <4> QED BY <4>1, <4>2, RepoAssumption
    <3> QED BY <3>1, <3>2
  <2>4. CursorsOnGrid' /\ ScheduledHasRow' /\ RowsStay
    BY <1>1, <2>2, <2>3, InsOnGrid
  <2>5. UNCHANGED request
    BY <2>1 DEF create_deployment
  <2> QED BY <1>1, <2>4, <2>5, HoldersKeep
<1>3. ASSUME NEW id \in Deployments, NEW req \in Request, req.id = id, req.current = deployment[id],
             deployment[id] # NoRow, request' = [request EXCEPT ![u] = req], UNCHANGED repoVars
      PROVE  GridInv'
  <2>1. req.current.schedule_tm_interval_id # NoInterval => schedule[id] # NoSchedule
    BY <1>3 DEF ScheduledHasRow, Scheduled
  <2>2. RequestsHaveRows'
    BY <1>1, <1>3, <2>1 DEF RequestsHaveRows, ServiceTypeOK
  <2>3. RowsStay /\ CursorsOnGrid' /\ ScheduledHasRow'
    BY <1>3 DEF RowsStay, CursorsOnGrid, ScheduledHasRow, Scheduled, OnGrid
  <2> QED BY <1>1, <2>2, <2>3, HoldersKeep
<1>4. ASSUME request' = [request EXCEPT ![u] = NoReq]
      PROVE  RequestsHaveRows /\ RowsStay => RequestsHaveRows'
  BY <1>1, <1>4 DEF RequestsHaveRows, RowsStay, ServiceTypeOK, Request
<1>5. CASE \E d \in Deployments, patch \in Patches : UpdateReads(u, d, patch)
  <2>1. PICK d \in Deployments, patch \in Patches : UpdateReads(u, d, patch)
    BY <1>5
  <2>2. PICK row \in Row, pt \in PatchType : row = deployment[d] /\ pt = patch /\ row # NoRow
    BY <1>1, <2>1, ServiceAssumption DEF UpdateReads, RepoTypeOK
  <2>3. PICK req \in Request : req = [op |-> "update", id |-> d, patch |-> pt, current |-> row]
    BY DEF Request
  <2>4. req.id = d /\ req.current = row
    BY <2>3
  <2>5. request' = [request EXCEPT ![u] = req] /\ UNCHANGED repoVars
    BY <2>1, <2>2, <2>3, Zenon DEF UpdateReads
  <2> QED BY <1>3, <2>2, <2>4, <2>5
<1>6. CASE \E d \in Deployments : StopReads(u, d)
  <2>1. PICK d \in Deployments : StopReads(u, d)
    BY <1>6
  <2>2. PICK row \in Row, pt \in PatchType : row = deployment[d] /\ pt = NoPatch /\ row # NoRow
    <3>1. deployment[d] \in Row /\ deployment[d] # NoRow
      BY <1>1, <2>1 DEF StopReads, RepoTypeOK
    <3>2. NoPatch \in PatchType
      BY DEF NoPatch, PatchType
    <3> QED BY <3>1, <3>2, Zenon
  <2>3. PICK req \in Request : req = [op |-> "stop", id |-> d, patch |-> pt, current |-> row]
    BY DEF Request
  <2>4. req.id = d /\ req.current = row
    BY <2>3
  <2>5. request' = [request EXCEPT ![u] = req] /\ UNCHANGED repoVars
    BY <2>1, <2>2, <2>3, Zenon DEF StopReads
  <2> QED BY <1>3, <2>2, <2>4, <2>5
<1>7. CASE UpdateWrites(u)
  <2>1. PICK req \in Request : req = request[u] /\ request[u] # NoReq
    BY <1>1, <1>7 DEF UpdateWrites, ServiceTypeOK
  <2>2. PICK current \in Row, patch \in PatchType, id \in Deployments :
             current = req.current /\ patch = req.patch /\ id = req.id
    BY DEF Request
  <2>3. PICK i \in OptInterval : i = PatchedInterval(current, patch)
    BY DEF PatchedInterval, Row, OptInterval
  <2>4. PICK row \in Row : row = Patched(current, patch) /\ row.schedule_tm_interval_id = i
    <3>1. Patched(current, patch) \in Row
      BY PatchedTyped
    <3>2. Patched(current, patch).schedule_tm_interval_id = i
      BY <2>3 DEF Patched
    <3> QED BY <3>1, <3>2
  <2>5. PICK initial \in Int \cup {NoTs} :
             /\ SP_INS_DEPLOYMENT(id, row, initial)
             /\ initial # NoTs => OnGrid(initial)
             /\ initial = NoTs /\ i # NoInterval => current.schedule_tm_interval_id # NoInterval
    <3>1. CASE should_realign_schedule(current, patch) /\ i # NoInterval
      <4> DEFINE ts == compute_initial_scheduled_ts(i)
      <4>1. ts \in Int /\ OnGrid(ts)
        BY <1>1, <3>1, SlotTyped, SeedOnGrid DEF OptInterval
      <4>2. SP_INS_DEPLOYMENT(id, row, ts)
        BY <1>7, <2>1, <2>2, <2>3, <2>4, <3>1 DEF UpdateWrites
      <4> HIDE DEF ts
      <4> QED BY <4>1, <4>2, RepoAssumption
    <3>2. CASE ~(should_realign_schedule(current, patch) /\ i # NoInterval)
      <4>1. SP_INS_DEPLOYMENT(id, row, NoTs)
        BY <1>7, <2>1, <2>2, <2>3, <2>4, <3>2 DEF UpdateWrites
      <4>2. i # NoInterval => current.schedule_tm_interval_id # NoInterval
        BY <2>3, <3>2, RepoAssumption DEF should_realign_schedule, PatchedInterval, Row
      <4> QED BY <4>1, <4>2
    <3> QED BY <3>1, <3>2
  <2>6. current.schedule_tm_interval_id # NoInterval => schedule[id] # NoSchedule
    BY <2>1, <2>2 DEF RequestsHaveRows
  <2>7. CursorsOnGrid' /\ ScheduledHasRow' /\ RowsStay
    BY <1>1, <2>4, <2>5, <2>6, InsOnGrid
  <2>8. request' = [request EXCEPT ![u] = NoReq]
    BY <1>7 DEF UpdateWrites
  <2> QED BY <1>1, <1>4, <2>7, <2>8, HoldersKeep
<1>8. CASE StopWrites(u)
  <2>1. PICK req \in Request : req = request[u] /\ request[u] # NoReq
    BY <1>1, <1>8 DEF StopWrites, ServiceTypeOK
  <2>2. PICK row \in Row :
             /\ row = [req.current EXCEPT !.is_enabled_ind = "N", !.deployment_status = "STOPPED"]
             /\ row.schedule_tm_interval_id = req.current.schedule_tm_interval_id
    <3> DEFINE row == [req.current EXCEPT !.is_enabled_ind = "N", !.deployment_status = "STOPPED"]
    <3>1. row \in Row /\ row.schedule_tm_interval_id = req.current.schedule_tm_interval_id
      BY DEF Request, Row, DeploymentStatus
    <3> QED BY <3>1, Zenon
  <2>3. SP_INS_DEPLOYMENT(req.id, row, NoTs) /\ req.id \in Deployments
    BY <1>8, <2>1, <2>2 DEF StopWrites, Request
  <2>4. row.schedule_tm_interval_id # NoInterval => schedule[req.id] # NoSchedule
    BY <2>1, <2>2 DEF RequestsHaveRows
  <2>5. CursorsOnGrid' /\ ScheduledHasRow' /\ RowsStay
    BY <1>1, <2>3, <2>4, InsOnGrid
  <2>6. request' = [request EXCEPT ![u] = NoReq]
    BY <1>8 DEF StopWrites
  <2> QED BY <1>1, <1>4, <2>5, <2>6, HoldersKeep
<1>9. CASE RequestFails(u)
  <2>1. request' = [request EXCEPT ![u] = NoReq] /\ UNCHANGED repoVars
    BY <1>9 DEF RequestFails
  <2>2. RowsStay /\ CursorsOnGrid' /\ ScheduledHasRow'
    BY <2>1 DEF RowsStay, CursorsOnGrid, ScheduledHasRow, Scheduled, OnGrid
  <2> QED BY <1>1, <1>4, <2>1, <2>2, HoldersKeep
<1> QED BY <1>2, <1>5, <1>6, <1>7, <1>8, <1>9

\* Replacing what one sweep remembers.
LEMMA SweepOnGrid ==
    ASSUME TInv, SweepsOnGrid, RowsStay, NEW s \in Sweeps, NEW v \in Sweep,
           \A due \in v.rows : DueOnGrid(schedule', due),
           v.pc \in {"apply", "pause", "advance"} => DueOnGrid(schedule', v.due),
           sweep' = [sweep EXCEPT ![s] = v]
    PROVE  SweepsOnGrid'
<1>1. \A due \in DueRowType : DueOnGrid(schedule, due) => DueOnGrid(schedule', due)
  BY DEF DueOnGrid, DueRowType, RowsStay, OnGrid
<1>2. \A t \in Sweeps : sweep[t].rows \in SUBSET DueRowType
  BY DEF TInv, TypeOK, TickTypeOK, Sweep
<1>3. ASSUME NEW t \in Sweeps
      PROVE  /\ \A due \in sweep'[t].rows : DueOnGrid(schedule', due)
             /\ sweep'[t].pc \in {"apply", "pause", "advance"} => DueOnGrid(schedule', sweep'[t].due)
  <2>1. CASE t = s
    <3>1. sweep'[t] = v
      BY <2>1 DEF TInv, TypeOK, TickTypeOK
    <3> QED BY <3>1
  <2>2. CASE t # s
    <3>1. sweep'[t] = sweep[t]
      BY <2>2 DEF TInv, TypeOK, TickTypeOK
    <3> QED BY <1>1, <1>2, <3>1 DEF SweepsOnGrid, TInv, HoldsRow
  <2> QED BY <2>1, <2>2
<1> QED BY <1>3 DEF SweepsOnGrid, DueOnGrid, OnGrid

\* A step of a sweep.
LEMMA WorkOnGrid ==
    ASSUME OneCadence, TInv, GridInv, NEW s \in Sweeps, Work(s)
    PROVE  GridInv'
<1> USE DEF GridInv
<1>1. RepoTypeOK /\ UNCHANGED request /\ SweepStep(s)
  BY DEF Work, TInv, TypeOK
<1>2. PICK v \in Sweep : v = sweep[s]
  BY DEF TInv, TypeOK, TickTypeOK
<1>3. /\ v.rows \in SUBSET DueRowType /\ \A due \in v.rows : DueOnGrid(schedule, due)
      /\ v.pc \in {"apply", "pause", "advance"} => v.due \in DueRowType /\ DueOnGrid(schedule, v.due)
  BY <1>2 DEF Sweep, SweepsOnGrid, TInv, HoldsRow
<1>4. UNCHANGED repoVars => RowsStay /\ CursorsOnGrid' /\ ScheduledHasRow'
  BY DEF RowsStay, CursorsOnGrid, ScheduledHasRow, Scheduled, OnGrid
<1>5. RowsStay => \A due \in DueRowType : DueOnGrid(schedule, due) => DueOnGrid(schedule', due)
  BY DEF DueOnGrid, DueRowType, RowsStay, OnGrid
<1>6. \E x \in Sweep : sweep' = [sweep EXCEPT ![s] = x]
  <2>1. TickTypeOK'
    BY <1>1, SweepWrites DEF TInv, TypeOK
  <2>2. sweep' = [sweep EXCEPT ![s] = sweep'[s]]
    BY <1>1, <2>1 DEF SweepStep, run_interval, ReadFails, _run_one, Applied, ApplyFails, ApplyRefused,
                      _auto_pause, PauseFails, _advance, AdvanceFails, Return, Done, TickTypeOK, TInv, TypeOK
  <2> QED BY <2>1, <2>2 DEF TickTypeOK
<1>7. PICK x \in Sweep : sweep' = [sweep EXCEPT ![s] = x]
  BY <1>6
<1>8. x = sweep'[s]
  BY <1>7 DEF TInv, TypeOK, TickTypeOK
\* What it holds afterwards is what it held, or what it has read.
<1>9. CASE \E i \in Interval : run_interval(s, i)
  <2>1. PICK i \in Interval : run_interval(s, i)
    BY <1>9
  <2>2. x.rows = SP_GET_MISSED_DUE_DEPLOYMENTS(i) /\ x.pc = "sweep" /\ UNCHANGED repoVars
    BY <1>2, <1>8, <2>1 DEF run_interval, Sweep, TInv, TypeOK, TickTypeOK
  <2>3. ASSUME NEW d \in Deployments, IsDue(d), deployment[d].schedule_tm_interval_id = i
        PROVE  DueRow(d) \in DueRowType /\ DueOnGrid(schedule, DueRow(d))
    <3>1. DueRow(d) \in DueRowType
      <4>1. DueRow(d) \in SP_GET_MISSED_DUE_DEPLOYMENTS(i)
        BY <2>3 DEF SP_GET_MISSED_DUE_DEPLOYMENTS
      <4> QED BY <1>1, <4>1, DueListTyped
    <3>2. schedule[d] # NoSchedule /\ schedule[d].scheduled_ts \in Int /\ OnGrid(schedule[d].scheduled_ts)
      BY <1>1, <2>3 DEF IsDue, RepoTypeOK, ScheduleRow, CursorsOnGrid
    <3>3. OnGrid(schedule[d].scheduled_ts + Period[i])
      BY <3>2, NextOnGrid
    <3> QED BY <2>3, <3>1, <3>2, <3>3 DEF DueRow, DueOnGrid
  <2>4. \A due \in x.rows : due \in DueRowType /\ DueOnGrid(schedule, due)
    BY <2>2, <2>3 DEF SP_GET_MISSED_DUE_DEPLOYMENTS
  <2> QED BY <1>1, <1>4, <1>5, <1>7, <2>2, <2>4, SweepOnGrid, HoldersKeep
<1>10. ASSUME NEW a \in BOOLEAN, NEW b \in BOOLEAN, Done(s, a, b)
       PROVE  x.rows = v.rows /\ x.pc = "sweep"
  <2>1. x = [v EXCEPT !.pc = "sweep", !.due = NoDue, !.attempt = 0,
                      !.advanced = v.advanced \/ a, !.stuck = v.stuck \/ b]
    BY <1>2, <1>8, <1>10 DEF Done, TickTypeOK, TInv, TypeOK
  <2> QED BY <2>1 DEF Sweep
<1>11. ASSUME RowsStay, CursorsOnGrid', ScheduledHasRow', x.rows \subseteq v.rows,
              \/ x.pc \notin {"apply", "pause", "advance"}
              \/ x.due = v.due /\ v.pc \in {"apply", "pause", "advance"}
              \/ x.due \in v.rows
       PROVE  GridInv'
  <2>1. \A due \in x.rows : DueOnGrid(schedule', due)
    BY <1>3, <1>5, <1>11
  <2>2. x.pc \in {"apply", "pause", "advance"} => DueOnGrid(schedule', x.due)
    BY <1>3, <1>5, <1>11
  <2> QED BY <1>1, <1>7, <1>11, <2>1, <2>2, SweepOnGrid, HoldersKeep
<1>12. CASE UNCHANGED repoVars /\ ~(\E i \in Interval : run_interval(s, i))
  <2> DEFINE Keeps == /\ x.rows \subseteq v.rows
                      /\ \/ x.pc \notin {"apply", "pause", "advance"}
                         \/ x.due = v.due /\ v.pc \in {"apply", "pause", "advance"}
                         \/ x.due \in v.rows
  <2>1. ASSUME NEW i \in Interval, ReadFails(s, i)
        PROVE  Keeps
    <3>1. v.pc = "sweep" /\ x = [v EXCEPT !.todo = v.todo \ {i}]
      BY <1>2, <1>8, <2>1 DEF ReadFails, TickTypeOK, TInv, TypeOK
    <3> QED BY <3>1 DEF Sweep
  <2>2. ASSUME _run_one(s)
        PROVE  Keeps
    <3>1. PICK due \in v.rows : x = [v EXCEPT !.pc = "apply", !.due = due, !.attempt = 1, !.rows = @ \ {due}]
      BY <1>2, <1>8, <2>2 DEF _run_one, TickTypeOK, TInv, TypeOK
    <3> QED BY <3>1 DEF Sweep
  <2>3. ASSUME Applied(s) \/ ApplyRefused(s) \/ PauseFails(s)
        PROVE  Keeps
    <3>1. PICK to \in {"pause", "advance"} : x = [v EXCEPT !.pc = to]
      BY <1>2, <1>8, <2>3 DEF Applied, ApplyRefused, PauseFails, TickTypeOK, TInv, TypeOK
    <3>2. v.pc \in {"apply", "pause"}
      BY <1>2, <2>3 DEF Applied, ApplyRefused, PauseFails
    <3> QED BY <3>1, <3>2 DEF Sweep
  <2>4. ASSUME ApplyFails(s)
        PROVE  Keeps
    <3>1. v.pc = "apply" /\ (x = [v EXCEPT !.attempt = v.attempt + 1] \/ x = [v EXCEPT !.pc = "pause"])
      BY <1>2, <1>8, <2>4 DEF ApplyFails, TickTypeOK, TInv, TypeOK
    <3> QED BY <3>1 DEF Sweep
  <2>5. ASSUME _auto_pause(s) \/ _advance(s) \/ AdvanceFails(s)
        PROVE  Keeps
    <3>1. \E a, b \in BOOLEAN : Done(s, a, b)
      BY <2>5 DEF _auto_pause, _advance, AdvanceFails
    <3> QED BY <3>1, <1>10
  <2>6. ASSUME Return(s)
        PROVE  Keeps
    <3>1. x = [v EXCEPT !.pc = "returned"]
      BY <1>2, <1>8, <2>6 DEF Return, TickTypeOK, TInv, TypeOK
    <3> QED BY <3>1 DEF Sweep
  <2>7. Keeps
    BY <1>1, <1>12, <2>1, <2>2, <2>3, <2>4, <2>5, <2>6 DEF SweepStep
  <2> QED BY <1>4, <1>11, <1>12, <2>7
\* The version a pause writes keeps the slot of the row.
<1>13. CASE _auto_pause(s) \/ (PauseFails(s) /\ SP_INS_DEPLOYMENT(v.due.deployment_id, PausedRow(v.due), NoTs))
  <2>1. v.pc = "pause" /\ SP_INS_DEPLOYMENT(v.due.deployment_id, PausedRow(v.due), NoTs)
    BY <1>2, <1>13 DEF _auto_pause, PauseFails
  <2>2. PICK due \in DueRowType : due = v.due /\ DueOnGrid(schedule, due)
    BY <1>3, <2>1
  <2>3. due.deployment_id \in Deployments /\ schedule[due.deployment_id] # NoSchedule /\ PausedRow(due) \in Row
    BY <2>2, PausedRowCloses DEF DueRowType, DueOnGrid
  <2>4. CursorsOnGrid' /\ ScheduledHasRow' /\ RowsStay
    BY <1>1, <2>1, <2>2, <2>3, InsOnGrid
  <2>5. x.rows = v.rows /\ x.pc \in {"sweep", "advance"} /\ (x.pc = "advance" => x.due = v.due)
    <3>1. CASE _auto_pause(s)
      BY <1>10, <3>1 DEF _auto_pause
    <3>2. CASE PauseFails(s)
      <4>1. x = [v EXCEPT !.pc = "advance"]
        BY <1>2, <1>8, <3>2 DEF PauseFails, TickTypeOK, TInv, TypeOK
      <4> QED BY <4>1 DEF Sweep
    <3> QED BY <1>13, <3>1, <3>2
  <2> QED BY <1>11, <2>1, <2>4, <2>5
\* The cursor moves to the next slot of the row it was read with.
<1>14. CASE _advance(s)
  <2>1. PICK due \in DueRowType : due = v.due /\ DueOnGrid(schedule, due)
    BY <1>2, <1>3, <1>14 DEF _advance
  <2>2. PICK ts \in Int, d \in Deployments : ts = due.next_scheduled_ts /\ d = due.deployment_id
    BY DEF DueRowType
  <2>3. UNCHANGED deployment /\ schedule' = [schedule EXCEPT ![d] = [status |-> "PENDING", scheduled_ts |-> ts]]
    BY <1>2, <1>14, <2>1, <2>2 DEF _advance, SP_INS_DEPLOYMENT_SCHEDULE_STATUS, AdvanceTo
  <2>4. PICK row \in ScheduleRow : row = [status |-> "PENDING", scheduled_ts |-> ts]
    BY DEF ScheduleRow
  <2>5. row.scheduled_ts = ts /\ row # NoSchedule /\ OnGrid(row.scheduled_ts)
    BY <2>1, <2>2, <2>4, RepoAssumption DEF DueOnGrid
  <2>6. CursorsOnGrid' /\ ScheduledHasRow' /\ RowsStay
    BY <1>1, <2>3, <2>4, <2>5 DEF RepoTypeOK, CursorsOnGrid, ScheduledHasRow, Scheduled, RowsStay, OnGrid
  <2>7. x.rows = v.rows /\ x.pc = "sweep"
    BY <1>10, <1>14 DEF _advance
  <2> QED BY <1>11, <2>6, <2>7
<1>15. \/ UNCHANGED repoVars \/ _auto_pause(s) \/ _advance(s)
       \/ PauseFails(s) /\ SP_INS_DEPLOYMENT(v.due.deployment_id, PausedRow(v.due), NoTs)
  BY <1>1, <1>2 DEF SweepStep, run_interval, ReadFails, _run_one, Applied, ApplyFails, ApplyRefused,
                    PauseFails, AdvanceFails, Return
<1> QED BY <1>9, <1>12, <1>13, <1>14, <1>15

\* Every step keeps the cursors on their slots.
LEMMA GridStep ==
    ASSUME OneCadence, TInv, GridInv, [Next]_vars
    PROVE  GridInv'
<1>1. CASE (\E s \in Ticks : run_schedule_tick(s)) \/ PollerStep \/ PollerStops
  <2>1. UNCHANGED <<repoVars, request>>
    BY <1>1, DriverWrites
  <2>2. RowsStay /\ CursorsOnGrid' /\ ScheduledHasRow'
    BY <2>1 DEF RowsStay, CursorsOnGrid, ScheduledHasRow, Scheduled, OnGrid, GridInv
  <2>4. \/ UNCHANGED sweep
        \/ \E s \in Sweeps : Begin(s) \/ sweep' = [sweep EXCEPT ![s] = Idle]
    BY <1>1 DEF run_schedule_tick, PollerStep, PollerStops, Ticks, TickAnswers, Crash, DrainPass, drain, Wake,
                poll_once, stop, PollerCrash
  <2>5. ASSUME NEW s \in Sweeps, NEW v \in Sweep, v.rows = {}, v.pc \in {"idle", "sweep"},
               sweep' = [sweep EXCEPT ![s] = v]
        PROVE  SweepsOnGrid'
    BY <2>2, <2>5, SweepOnGrid DEF GridInv
  <2>6. ASSUME NEW s \in Sweeps, Begin(s) \/ sweep' = [sweep EXCEPT ![s] = Idle] PROVE SweepsOnGrid'
    <3>1. Idle \in Sweep /\ Idle.rows = {} /\ Idle.pc = "idle"
      BY TickAssumption DEF Idle, Sweep
    <3> DEFINE v == [Idle EXCEPT !.pc = "sweep", !.todo = Interval]
    <3>2. v \in Sweep /\ v.rows = {} /\ v.pc = "sweep"
      BY <3>1 DEF Sweep
    <3>3. Begin(s) => sweep' = [sweep EXCEPT ![s] = v]
      BY DEF Begin
    <3> HIDE DEF v
    <3> QED BY <2>5, <2>6, <3>1, <3>2, <3>3
  <2> QED BY <2>1, <2>2, <2>4, <2>6, HoldersKeep DEF GridInv
<1>2. CASE TimePasses \/ UNCHANGED vars
  <2>1. UNCHANGED <<repoVars, request, sweep>>
    BY <1>2 DEF TimePasses
  <2>2. RowsStay /\ CursorsOnGrid' /\ ScheduledHasRow'
    BY <2>1 DEF RowsStay, CursorsOnGrid, ScheduledHasRow, Scheduled, OnGrid, GridInv
  <2> QED BY <2>1, <2>2, HoldersKeep DEF GridInv
<1> QED BY <1>1, <1>2, ServeOnGrid, WorkOnGrid DEF Next

\* Where deployments share a cadence, every cursor stays an offset before a bar's
\* close (next_apply_slot, NEXT_SCHEDULED_TS, _advance), however many requests and
\* sweeps overlap, with rows as old as they may be, and wherever they fail.
THEOREM CursorsStayOnSlots ==
    ASSUME OneCadence
    PROVE  Spec => []CursorOnSlot
<1>1. Init => GridInv
  <2> SUFFICES ASSUME Init PROVE GridInv
    OBVIOUS
  <2>1. RepoTypeOK /\ now \in Nat
    BY TInvInit DEF TInv, TypeOK, RepoTypeOK
  <2>2. ASSUME NEW d \in Deployments
        PROVE  /\ Scheduled(d) => schedule[d] # NoSchedule
               /\ schedule[d] # NoSchedule => OnGrid(schedule[d].scheduled_ts)
    <3>1. CASE ~Scheduled(d)
      BY <3>1 DEF Scheduled, Init, RepoInit
    <3>2. CASE Scheduled(d)
      <4>1. PICK i \in Interval : i = deployment[d].schedule_tm_interval_id
        BY <2>1, <3>2 DEF Scheduled, RepoTypeOK, Row, OptInterval
      <4>2. PICK ts \in Int : ts = compute_initial_scheduled_ts(i)
        BY <2>1, SlotTyped
      <4>3. schedule[d] = [status |-> "PENDING", scheduled_ts |-> ts]
        BY <3>2, <4>1, <4>2 DEF Scheduled, Init, RepoInit
      <4>4. schedule[d] \in ScheduleRow
        BY <4>3 DEF ScheduleRow
      <4> QED BY <2>1, <4>2, <4>3, <4>4, SeedOnGrid, RepoAssumption
    <3> QED BY <3>1, <3>2
  <2>3. RequestsHaveRows /\ SweepsOnGrid
    BY DEF Init, ServiceInit, TickInit, Idle, RequestsHaveRows, SweepsOnGrid
  <2> QED BY <2>2, <2>3 DEF GridInv, CursorsOnGrid, ScheduledHasRow
<1>2. TInv /\ GridInv => CursorOnSlot
  <2> SUFFICES ASSUME TInv, GridInv, NEW d \in Deployments, Scheduled(d), schedule[d] # NoSchedule
               PROVE  LET i == deployment[d].schedule_tm_interval_id
                      IN  (schedule[d].scheduled_ts + Offset[i]) % Period[i] = 0
    BY DEF CursorOnSlot
  <2>1. PICK i \in Interval : i = deployment[d].schedule_tm_interval_id
    BY DEF Scheduled, TInv, TypeOK, RepoTypeOK, Row, OptInterval
  <2>2. schedule[d].scheduled_ts \in Int /\ OnGrid(schedule[d].scheduled_ts)
    BY DEF GridInv, CursorsOnGrid, TInv, TypeOK, RepoTypeOK, ScheduleRow
  <2> QED BY <2>1, <2>2, GridIsSlot
<1>3. TInv /\ GridInv /\ [Next]_vars => TInv' /\ GridInv'
  BY StepWrites, GridStep
<1> QED BY <1>1, <1>2, <1>3, TInvInit, PTL DEF Spec

-----------------------------------------------------------------------------
(* The drain.                                                              *)

\* Nobody edits deployments and nobody else sweeps, as while the process boots, and
\* no interval is dropped because its due list could not be read.
Undisturbed == Users = {} /\ Sweeps = {Poller} /\ "read_fails" \notin Faults

\* Due when the latest drain pass began.
Overdue(d) == IsDue(d) /\ schedule[d].scheduled_ts <= poller.since

\* The sweep has d before it: its interval, its row, or its row in hand.
Ahead(v, d) ==
    \/ deployment[d].schedule_tm_interval_id \in v.todo
    \/ \E due \in v.rows : due.deployment_id = d
    \/ v.pc \in {"apply", "pause", "advance"} /\ v.due.deployment_id = d

\* A pass that has moved no cursor and is not stuck has passed over nothing.
PassComplete(v) ==
    /\ v.pc = "returned" => v.todo = {} /\ v.rows = {}
    /\ v.pc # "idle" /\ ~v.advanced /\ ~v.stuck =>
          \A d \in Deployments : Overdue(d) => Ahead(v, d)

DrainInv ==
    /\ poller.since <= now
    /\ poller.phase = "drain" => PassComplete(sweep[Poller])

\* What was due when the pass began is as due after a step that leaves rows alone.
LEMMA OverdueStays ==
    ASSUME TInv, poller.since <= now, now' \in {now, now + 1}, UNCHANGED <<repoVars, poller>>,
           NEW d \in Deployments, Overdue(d)'
    PROVE  Overdue(d) /\ deployment'[d] = deployment[d]
<1>1. schedule[d] # NoSchedule => schedule[d].scheduled_ts \in Int
  BY DEF TInv, TypeOK, RepoTypeOK, ScheduleRow
<1>2. poller.since \in Int /\ now \in Int
  BY DEF TInv, TypeOK, RepoTypeOK, PollerTypeOK, PollerType
<1> QED BY <1>1, <1>2 DEF Overdue, IsDue, Live, Scheduled

\* A step of the poller's sweep passes over nothing overdue.
LEMMA DrainWorks ==
    ASSUME Undisturbed, TInv, poller.since <= now, PassComplete(sweep[Poller]), Work(Poller)
    PROVE  PassComplete(sweep[Poller])'
<1>1. Poller \in Sweeps /\ SweepStep(Poller) /\ now' = now /\ UNCHANGED poller
  <2>1. Poller \in Sweeps /\ SweepStep(Poller) /\ UNCHANGED poller
    BY DEF Undisturbed, Work
  <2> QED BY <2>1, SweepWrites DEF TInv, TypeOK
<1>2. PICK v \in Sweep : v = sweep[Poller] /\ PassComplete(v)
  BY <1>1 DEF TInv, TypeOK, TickTypeOK
<1>3. PICK x \in Sweep : x = sweep'[Poller]
  <2>1. TickTypeOK'
    BY <1>1, SweepWrites DEF TInv, TypeOK
  <2> QED BY <1>1, <2>1 DEF TickTypeOK
<1>4. sweep \in [Sweeps -> Sweep]
  BY DEF TInv, TypeOK, TickTypeOK
\* Steps that write nothing: enough that the sweep keeps its backlog before it.
<1>5. ASSUME UNCHANGED repoVars, x.pc = "returned" => x.todo = {} /\ x.rows = {},
             \/ x.advanced \/ x.stuck
             \/ /\ v.pc # "idle" /\ x.advanced = v.advanced /\ x.stuck = v.stuck
                /\ \A d \in Deployments : Overdue(d) /\ Ahead(v, d) => Ahead(x, d)
      PROVE  PassComplete(x)'
  <2>1. ASSUME NEW d \in Deployments, Overdue(d)' PROVE Overdue(d) /\ deployment'[d] = deployment[d]
    <3>1. now' \in {now, now + 1} /\ UNCHANGED <<repoVars, poller>>
      BY <1>1, <1>5
    <3> QED BY <2>1, <3>1, OverdueStays
  <2>2. \A d \in Deployments : Ahead(x, d) => Ahead(x, d)'
    BY <1>5 DEF Ahead
  <2> QED BY <1>2, <1>5, <2>1, <2>2 DEF PassComplete
<1>6. ASSUME NEW i \in Interval, run_interval(Poller, i) PROVE PassComplete(x)'
  <2>1. v.pc = "sweep" /\ v.rows = {} /\ UNCHANGED repoVars
    BY <1>2, <1>6 DEF run_interval
  <2>2. x = [v EXCEPT !.todo = v.todo \ {i}, !.rows = SP_GET_MISSED_DUE_DEPLOYMENTS(i)]
    BY <1>1, <1>2, <1>3, <1>4, <1>6 DEF run_interval
  <2>3. /\ x.todo = v.todo \ {i} /\ x.rows = SP_GET_MISSED_DUE_DEPLOYMENTS(i)
        /\ x.pc = "sweep" /\ x.advanced = v.advanced /\ x.stuck = v.stuck
    BY <2>1, <2>2 DEF Sweep
  <2>4. ASSUME NEW d \in Deployments, Overdue(d), Ahead(v, d) PROVE Ahead(x, d)
    <3>1. deployment[d].schedule_tm_interval_id \in v.todo
      BY <2>1, <2>4 DEF Ahead
    <3>2. CASE deployment[d].schedule_tm_interval_id # i
      BY <2>3, <3>1, <3>2 DEF Ahead
    <3>3. CASE deployment[d].schedule_tm_interval_id = i
      <4>1. DueRow(d) \in x.rows
        BY <2>3, <2>4, <3>3 DEF Overdue, SP_GET_MISSED_DUE_DEPLOYMENTS
      <4>2. DueRow(d).deployment_id = d
        BY DEF DueRow
      <4> QED BY <4>1, <4>2 DEF Ahead
    <3> QED BY <3>2, <3>3
  <2> QED BY <1>5, <2>1, <2>3, <2>4
<1>7. ASSUME _run_one(Poller) PROVE PassComplete(x)'
  <2>1. v.pc = "sweep" /\ UNCHANGED repoVars
    BY <1>2, <1>7 DEF _run_one
  <2>2. PICK due \in v.rows : x = [v EXCEPT !.pc = "apply", !.due = due, !.attempt = 1, !.rows = v.rows \ {due}]
    BY <1>1, <1>2, <1>3, <1>4, <1>7 DEF _run_one
  <2>3. /\ x.todo = v.todo /\ x.rows = v.rows \ {due} /\ x.due = due
        /\ x.pc = "apply" /\ x.advanced = v.advanced /\ x.stuck = v.stuck
    BY <2>2 DEF Sweep
  <2>4. \A d \in Deployments : Ahead(v, d) => Ahead(x, d)
    BY <2>1, <2>3 DEF Ahead
  <2> QED BY <1>5, <2>1, <2>3, <2>4
<1>8. ASSUME Applied(Poller) \/ ApplyFails(Poller) \/ ApplyRefused(Poller) \/ PauseFails(Poller),
             UNCHANGED repoVars
      PROVE  PassComplete(x)'
  <2>1. v.pc \in {"apply", "pause"} /\ UNCHANGED repoVars
    BY <1>2, <1>8 DEF Applied, ApplyFails, ApplyRefused, PauseFails
  <2>2. \/ \E to \in {"pause", "advance"} : x = [v EXCEPT !.pc = to]
        \/ v.pc = "apply" /\ x = [v EXCEPT !.attempt = v.attempt + 1]
    BY <1>1, <1>2, <1>3, <1>4, <1>8 DEF Applied, ApplyFails, ApplyRefused, PauseFails
  <2>3. /\ x.todo = v.todo /\ x.rows = v.rows /\ x.due = v.due
        /\ x.pc \in {"apply", "pause", "advance"} /\ x.advanced = v.advanced /\ x.stuck = v.stuck
    BY <2>1, <2>2 DEF Sweep
  <2>4. \A d \in Deployments : Ahead(v, d) => Ahead(x, d)
    BY <2>1, <2>3 DEF Ahead
  <2> QED BY <1>5, <2>1, <2>3, <2>4
<1>9. ASSUME Return(Poller) PROVE PassComplete(x)'
  <2>1. v.pc = "sweep" /\ v.todo = {} /\ v.rows = {} /\ UNCHANGED repoVars
    BY <1>2, <1>9 DEF Return
  <2>2. x = [v EXCEPT !.pc = "returned"]
    BY <1>1, <1>2, <1>3, <1>4, <1>9 DEF Return
  <2>3. x.todo = {} /\ x.rows = {} /\ x.advanced = v.advanced /\ x.stuck = v.stuck
    BY <2>1, <2>2 DEF Sweep
  <2>4. \A d \in Deployments : Ahead(v, d) => Ahead(x, d)
    BY <2>1 DEF Ahead
  <2> QED BY <1>5, <2>1, <2>3, <2>4
\* A cursor has moved, or is stuck.
<1>10. ASSUME _advance(Poller) \/ AdvanceFails(Poller) PROVE PassComplete(x)'
  <2>1. PICK a \in BOOLEAN, b \in BOOLEAN : Done(Poller, a, b) /\ (a \/ b)
    BY <1>10 DEF _advance, AdvanceFails
  <2>2. x = [v EXCEPT !.pc = "sweep", !.due = NoDue, !.attempt = 0,
                      !.advanced = v.advanced \/ a, !.stuck = v.stuck \/ b]
    BY <1>1, <1>2, <1>3, <1>4, <2>1 DEF Done
  <2>3. x.pc = "sweep" /\ x.advanced = (v.advanced \/ a) /\ x.stuck = (v.stuck \/ b)
    BY <2>2 DEF Sweep
  <2> QED BY <2>1, <2>3 DEF PassComplete
\* A paused version is not due; the other deployments keep theirs.
<1>11. ASSUME SP_INS_DEPLOYMENT(v.due.deployment_id, PausedRow(v.due), NoTs), v.pc = "pause",
              x.todo = v.todo, x.rows = v.rows, x.pc # "returned",
              x.advanced = v.advanced, x.stuck = v.stuck
       PROVE  PassComplete(x)'
  <2>1. PICK due \in DueRowType : due = v.due
    BY <1>1, <1>2, <1>11 DEF TInv, HoldsRow
  <2>2. PICK e \in Deployments : e = due.deployment_id
    BY DEF DueRowType
  <2>3. PICK row \in Row : row = PausedRow(due) /\ Closes(row)
    BY PausedRowCloses
  <2>4. SP_INS_DEPLOYMENT(e, row, NoTs)
    BY <1>11, <2>1, <2>2, <2>3
  <2>5. /\ deployment \in [Deployments -> Row \cup {NoRow}]
        /\ schedule \in [Deployments -> ScheduleRow \cup {NoSchedule}]
    BY DEF TInv, TypeOK, RepoTypeOK
  <2>6. deployment'[e] = row
    BY <2>4, <2>5 DEF SP_INS_DEPLOYMENT
  <2>7. ~IsDue(e)'
    BY <2>3, <2>6 DEF IsDue, Live, Closes
  <2>8. ASSUME NEW d \in Deployments, d # e
        PROVE  deployment'[d] = deployment[d] /\ schedule'[d] = schedule[d]
    BY <2>4, <2>5, <2>8 DEF SP_INS_DEPLOYMENT
  <2>9. ASSUME NEW d \in Deployments, Overdue(d)', ~v.advanced, ~v.stuck
        PROVE  Ahead(x, d)'
    <3>1. d # e
      BY <2>7, <2>9 DEF Overdue
    <3>2. Overdue(d)
      BY <1>1, <2>8, <2>9, <3>1 DEF Overdue, IsDue, Live, Scheduled, Closes
    <3>3. Ahead(v, d)
      BY <1>2, <1>11, <2>9, <3>2 DEF PassComplete
    <3> QED BY <1>11, <2>1, <2>2, <2>8, <3>1, <3>3 DEF Ahead
  <2> QED BY <1>11, <2>9 DEF PassComplete
<1>12. ASSUME _auto_pause(Poller) PROVE PassComplete(x)'
  <2>1. x = [v EXCEPT !.pc = "sweep", !.due = NoDue, !.attempt = 0,
                      !.advanced = v.advanced \/ FALSE, !.stuck = v.stuck \/ FALSE]
    BY <1>1, <1>2, <1>3, <1>4, <1>12 DEF _auto_pause, Done
  <2>2. v.advanced \in BOOLEAN /\ v.stuck \in BOOLEAN
    BY DEF Sweep
  <2>3. (v.advanced \/ FALSE) = v.advanced /\ (v.stuck \/ FALSE) = v.stuck
    BY <2>2
  <2>4. x.todo = v.todo /\ x.rows = v.rows /\ x.pc = "sweep" /\ x.advanced = v.advanced /\ x.stuck = v.stuck
    BY <2>1, <2>3 DEF Sweep
  <2>5. v.pc = "pause" /\ SP_INS_DEPLOYMENT(v.due.deployment_id, PausedRow(v.due), NoTs)
    BY <1>2, <1>12 DEF _auto_pause
  <2> QED BY <1>11, <2>4, <2>5
<1>13. ASSUME PauseFails(Poller), SP_INS_DEPLOYMENT(v.due.deployment_id, PausedRow(v.due), NoTs)
       PROVE  PassComplete(x)'
  <2>1. v.pc = "pause"
    BY <1>2, <1>13 DEF PauseFails
  <2>2. x = [v EXCEPT !.pc = "advance"]
    BY <1>1, <1>2, <1>3, <1>4, <1>13 DEF PauseFails
  <2>3. x.todo = v.todo /\ x.rows = v.rows /\ x.pc = "advance" /\ x.advanced = v.advanced /\ x.stuck = v.stuck
    BY <2>2 DEF Sweep
  <2> QED BY <1>11, <1>13, <2>1, <2>3
<1>14. PauseFails(Poller) => \/ UNCHANGED repoVars
                             \/ SP_INS_DEPLOYMENT(v.due.deployment_id, PausedRow(v.due), NoTs)
  BY <1>2 DEF PauseFails
<1>15. ~(\E i \in Interval : ReadFails(Poller, i))
  BY DEF Undisturbed, ReadFails
<1>16. PassComplete(x)'
  <2>1. CASE \E i \in Interval : run_interval(Poller, i)
    BY <1>6, <2>1
  <2>2. CASE PauseFails(Poller)
    BY <1>8, <1>13, <1>14, <2>2
  <2>3. \/ \E i \in Interval : run_interval(Poller, i)
        \/ _run_one(Poller) \/ Applied(Poller) \/ ApplyFails(Poller) \/ ApplyRefused(Poller)
        \/ _auto_pause(Poller) \/ PauseFails(Poller) \/ _advance(Poller) \/ AdvanceFails(Poller)
        \/ Return(Poller)
    BY <1>1, <1>15 DEF SweepStep
  <2>4. CASE Applied(Poller) \/ ApplyFails(Poller) \/ ApplyRefused(Poller)
    <3>1. UNCHANGED repoVars
      BY <2>4 DEF Applied, ApplyFails, ApplyRefused
    <3> QED BY <1>8, <2>4, <3>1
  <2>5. CASE _advance(Poller) \/ AdvanceFails(Poller)
    BY <1>10, <2>5
  <2>6. CASE _run_one(Poller) \/ _auto_pause(Poller) \/ Return(Poller)
    BY <1>7, <1>9, <1>12, <2>6
  <2> QED BY <2>1, <2>2, <2>3, <2>4, <2>5, <2>6
<1> QED BY <1>3, <1>16 DEF PassComplete, Ahead

\* Every step keeps the invariant of the drain.
LEMMA DrainStep ==
    ASSUME Undisturbed, TInv, DrainInv, [Next]_vars
    PROVE  DrainInv'
<1>1. /\ poller \in PollerType /\ now \in Nat /\ sweep \in [Sweeps -> Sweep] /\ Poller \in Sweeps
      /\ poller.since \in Nat /\ poller.since <= now
  BY DEF TInv, TypeOK, RepoTypeOK, PollerTypeOK, TickTypeOK, PollerType, Undisturbed, DrainInv
<1>2. Idle.pc = "idle"
  BY DEF Idle
<1>3. CASE Work(Poller)
  <2>1. now' = now /\ UNCHANGED poller
    BY <1>1, <1>3, SweepWrites DEF Work, TInv, TypeOK
  <2> QED BY <1>1, <1>3, <2>1, DrainWorks DEF DrainInv
<1>4. CASE TimePasses \/ UNCHANGED vars
  <2>1. now' \in {now, now + 1} /\ UNCHANGED <<repoVars, sweep, poller>>
    BY <1>4 DEF TimePasses, Tick
  <2>2. \A d \in Deployments : Overdue(d)' => Overdue(d) /\ deployment'[d] = deployment[d]
    BY <1>1, <2>1, OverdueStays
  <2>3. poller.phase = "drain" => PassComplete(sweep[Poller])'
    BY <2>1, <2>2 DEF DrainInv, PassComplete, Ahead
  <2> QED BY <1>1, <2>1, <2>3 DEF DrainInv
<1>5. CASE DrainPass /\ UNCHANGED request
  <2>1. now' = now /\ poller' = [poller EXCEPT !.since = now] /\ UNCHANGED repoVars
    BY <1>5 DEF DrainPass, Begin
  <2>2. poller'.since = now
    BY <1>1, <2>1 DEF PollerType
  <2>3. sweep'[Poller].pc = "sweep" /\ sweep'[Poller].todo = Interval
    BY <1>1, <1>5 DEF DrainPass, Begin, Idle
  <2>4. \A d \in Deployments : Overdue(d)' => deployment'[d].schedule_tm_interval_id \in Interval
    BY <2>1 DEF Overdue, IsDue, Scheduled, TInv, TypeOK, RepoTypeOK, Row, OptInterval
  <2> QED BY <1>1, <2>1, <2>2, <2>3, <2>4 DEF DrainInv, PassComplete, Ahead
<1>6. CASE drain /\ UNCHANGED request
  <2>1. sweep'[Poller].pc = "idle" /\ now' = now /\ poller'.since = poller.since
    BY <1>1, <1>6 DEF drain, Idle, PollerType
  <2> QED BY <1>1, <2>1 DEF DrainInv, PassComplete
<1>7. CASE (Wake \/ poll_once) /\ UNCHANGED request
  <2>1. now' = now /\ poller'.since = poller.since /\ poller'.phase # "drain"
    BY <1>1, <1>7 DEF Wake, poll_once, Begin, PollerType, Loop
  <2> QED BY <1>1, <2>1 DEF DrainInv
<1>8. CASE stop /\ UNCHANGED request
  <2>1. UNCHANGED <<repoVars, now, sweep>> /\ poller'.since = poller.since /\ poller'.phase = poller.phase
    BY <1>1, <1>8 DEF stop, PollerType
  <2>2. \A d \in Deployments : Overdue(d)' <=> Overdue(d)
    BY <2>1 DEF Overdue, IsDue, Live, Scheduled, Closes
  <2> QED BY <1>1, <2>1, <2>2 DEF DrainInv, PassComplete, Ahead
<1>9. CASE PollerCrash /\ UNCHANGED request
  <2>1. sweep'[Poller].pc = "idle" /\ now' = now /\ poller'.since = 0
    BY <1>1, <1>9 DEF PollerCrash, Crash, Idle, Booted
  <2> QED BY <1>1, <2>1 DEF DrainInv, PassComplete
<1> QED BY <1>3, <1>4, <1>5, <1>6, <1>7, <1>8, <1>9
        DEF Next, Undisturbed, Ticks, PollerStep, PollerStops

\* The drain of a boot ends by itself only when nothing that was due as its last
\* pass began is still due (SchedulePoller.drain), whatever fails or is paused in it.
THEOREM DrainClearsTheBacklog ==
    ASSUME Undisturbed
    PROVE  Spec => DrainComplete
<1>1. Init => DrainInv
  BY DEF Init, RepoInit, TickInit, PollerInit, Booted, Idle, DrainInv, PassComplete, Undisturbed
<1>2. TInv /\ DrainInv /\ [Next]_vars =>
        [ /\ poller.phase = "drain" /\ poller'.phase # "drain"
          /\ ~sweep[Poller].stuck /\ poller.passes + 1 < MaxDrainPasses
          => \A d \in Deployments : IsDue(d) => schedule[d].scheduled_ts > poller.since]_vars
  <2> SUFFICES ASSUME TInv, DrainInv, [Next]_vars, poller.phase = "drain", poller'.phase # "drain",
                      ~sweep[Poller].stuck, poller.passes + 1 < MaxDrainPasses,
                      NEW d \in Deployments, IsDue(d)
               PROVE  schedule[d].scheduled_ts > poller.since
    OBVIOUS
  <2>1. poller \in PollerType /\ MaxDrainPasses \in Nat /\ poller.passes \in Nat
    BY PollerAssumption DEF TInv, TypeOK, PollerTypeOK, PollerType
  <2>2. drain
    <3>1. ASSUME DrainPass \/ stop PROVE poller'.phase = poller.phase
      BY <2>1, <3>1 DEF DrainPass, stop, PollerType
    <3>2. PollerCrash => poller'.phase = "drain"
      BY DEF PollerCrash, Booted
    <3>3. ~Wake /\ ~poll_once
      BY DEF Wake, poll_once
    <3> QED BY <3>1, <3>2, <3>3 DEF Next, Undisturbed, Ticks, Work, PollerStep, PollerStops, TimePasses
  <2>3. sweep[Poller].pc = "returned" /\ ~sweep[Poller].advanced
    BY <2>1, <2>2 DEF drain, DrainOver, PollerType
  <2>4. ~Overdue(d)
    BY <2>3 DEF DrainInv, PassComplete, Ahead
  <2>5. schedule[d].scheduled_ts \in Int /\ poller.since \in Int
    BY <2>1 DEF IsDue, TInv, TypeOK, RepoTypeOK, ScheduleRow, PollerType
  <2> QED BY <2>4, <2>5 DEF Overdue
<1>3. TInv /\ DrainInv /\ [Next]_vars => TInv' /\ DrainInv'
  BY StepWrites, DrainStep
<1> QED BY <1>1, <1>2, <1>3, TInvInit, PTL DEF Spec, DrainComplete

=============================================================================
