------------------------- MODULE DeploymentService --------------------------
(***************************************************************************)
(* TradeService: create, PATCH and stop of a deployment.  PATCH and stop   *)
(* read the open version, decide, and write a whole new version; another   *)
(* request or a tick may write in between.  The checks of a PATCH (cadence *)
(* fitted, quantity tradable) only refuse, and a refused request leaves no *)
(* trace, so the patches offered are ones that pass.                       *)
(***************************************************************************)
EXTENDS DeploymentRepo

CONSTANTS
    Users,          \* HTTP clients; each has one request at a time
    Patches,        \* UpdateDeploymentRequest bodies
    NoReq,          \* no request is being served
    Omitted         \* a field that is not in model_fields_set, or is null

PatchType == [enabled : BOOLEAN \cup {Omitted},
              deployment_status : DeploymentStatus \cup {Omitted},
              schedule : {"fitted", "null", Omitted},
              qty : Qtys \cup {Omitted}]

ASSUME ServiceAssumption == Patches \subseteq PatchType

VARIABLE request    \* what each client's request has read

Request == [op : {"update", "stop"}, id : Deployments, patch : PatchType, current : Row]

ServiceTypeOK == request \in [Users -> Request \cup {NoReq}]

ServiceInit == request = [u \in Users |-> NoReq]

NoPatch == [enabled |-> Omitted, deployment_status |-> Omitted, schedule |-> Omitted,
            qty |-> Omitted]

-----------------------------------------------------------------------------
\* The whole request: its checks read nothing another writer changes.  Posting
\* an existing id versions that deployment.
create_deployment(u, d, row) ==
    /\ request[u] = NoReq
    /\ row.schedule_tm_interval_id \in {row.fitted, NoInterval}
    /\ SP_INS_DEPLOYMENT(d, row,
          IF row.schedule_tm_interval_id = NoInterval THEN NoTs
          ELSE compute_initial_scheduled_ts(row.schedule_tm_interval_id))
    /\ UNCHANGED <<request, now>>

\* get_deployment, in update_deployment.
UpdateReads(u, d, patch) ==
    /\ request[u] = NoReq /\ deployment[d] # NoRow
    /\ request' = [request EXCEPT ![u] = [op |-> "update", id |-> d, patch |-> patch,
                                          current |-> deployment[d]]]
    /\ UNCHANGED <<repoVars, now>>

StopReads(u, d) ==
    /\ request[u] = NoReq /\ deployment[d] # NoRow
    /\ deployment[d].deployment_status # "STOPPED"
    /\ request' = [request EXCEPT ![u] = [op |-> "stop", id |-> d, patch |-> NoPatch,
                                          current |-> deployment[d]]]
    /\ UNCHANGED <<repoVars, now>>

-----------------------------------------------------------------------------
PatchedInterval(current, patch) ==
    CASE patch.schedule = "fitted" -> current.fitted
      [] patch.schedule = "null" -> NoInterval
      [] OTHER -> current.schedule_tm_interval_id

should_realign_schedule(current, patch) ==
    \/ /\ patch.schedule = "fitted" /\ current.fitted # current.schedule_tm_interval_id
    \/ /\ current.schedule_tm_interval_id # NoInterval
       /\ \/ patch.enabled = TRUE /\ current.is_enabled_ind # "Y"
          \/ patch.deployment_status = "ACTIVE" /\ current.deployment_status = "PAUSED"

\* A plausible bug: enabling resumes a deployment whatever its status.
PatchedStatus_ResumesAny(current, patch) ==
    IF patch.deployment_status # Omitted THEN patch.deployment_status
    ELSE IF patch.enabled = TRUE THEN "ACTIVE"
    ELSE current.deployment_status

\* Enabling a PAUSED deployment resumes it.
PatchedStatus(current, patch) ==
    IF patch.deployment_status # Omitted THEN patch.deployment_status
    ELSE IF patch.enabled = TRUE /\ current.deployment_status = "PAUSED" THEN "ACTIVE"
    ELSE current.deployment_status

Patched(current, patch) ==
    [is_enabled_ind |-> CASE patch.enabled = TRUE -> "Y"
                          [] patch.enabled = FALSE -> "N"
                          [] OTHER -> current.is_enabled_ind,
     deployment_status |-> PatchedStatus(current, patch),
     schedule_tm_interval_id |-> PatchedInterval(current, patch),
     fitted |-> current.fitted,
     qty |-> IF patch.qty = Omitted THEN current.qty ELSE patch.qty]

\* The slot is computed just before the write.
UpdateWrites(u) ==
    /\ request[u] # NoReq /\ request[u].op = "update"
    /\ LET req == request[u]
           i   == PatchedInterval(req.current, req.patch)
       IN  SP_INS_DEPLOYMENT(req.id, Patched(req.current, req.patch),
             IF should_realign_schedule(req.current, req.patch) /\ i # NoInterval
             THEN compute_initial_scheduled_ts(i) ELSE NoTs)
    /\ request' = [request EXCEPT ![u] = NoReq]
    /\ UNCHANGED now

StopWrites(u) ==
    /\ request[u] # NoReq /\ request[u].op = "stop"
    /\ SP_INS_DEPLOYMENT(request[u].id,
          [request[u].current EXCEPT !.is_enabled_ind = "N", !.deployment_status = "STOPPED"],
          NoTs)
    /\ request' = [request EXCEPT ![u] = NoReq]
    /\ UNCHANGED now

\* The procedure reports an error, or the request is refused before it.
RequestFails(u) ==
    /\ "write_fails" \in Faults /\ request[u] # NoReq
    /\ request' = [request EXCEPT ![u] = NoReq]
    /\ UNCHANGED <<repoVars, now>>
=============================================================================
