----------------------------- MODULE JobLifecycle -----------------------------
(***************************************************************************)
(* What the backtest queue promises about a job, whoever writes its row.   *)
(*                                                                         *)
(* A job is submitted once and never returns to the queue.  Its worker is  *)
(* started at most once, after a claim.  A claim takes a job that is       *)
(* QUEUED, or that a cancel ended between the two calls of the claim.  A   *)
(* COMPLETED row has a result behind it.  FAILED and CANCELLED may be      *)
(* written over any row of a submitted job, a terminal one included: the   *)
(* writers do not look at what they replace.                               *)
(***************************************************************************)
CONSTANT Job

VARIABLES
    status,       \* the status readers of BT.QUEUE see
    started,      \* jobs that were given a worker
    result        \* jobs with a result

vars == <<status, started, result>>

Submitted == {j \in Job : status[j] # "NONE"}

Init ==
    /\ status = [j \in Job |-> "NONE"]
    /\ started = {}
    /\ result = {}

Write(j, s) == status' = [status EXCEPT ![j] = s] /\ UNCHANGED <<started, result>>

Submit(j) == status[j] = "NONE" /\ Write(j, "QUEUED")

Claim(j) ==
    /\ status[j] \in {"QUEUED", "CANCELLED"}
    /\ j \notin started
    /\ Write(j, "RUNNING")

\* The worker starts once, whatever a cancel made of the row since the claim.
Start(j) ==
    /\ status[j] \in {"RUNNING", "CANCEL_REQUESTED", "CANCELLED"}
    /\ j \notin started
    /\ started' = started \cup {j}
    /\ UNCHANGED <<status, result>>

Save(j) ==
    /\ j \in started
    /\ result' = result \cup {j}
    /\ UNCHANGED <<status, started>>

Complete(j) == j \in started \cap result /\ Write(j, "COMPLETED")

Fail(j) == j \in Submitted /\ status[j] # "QUEUED" /\ Write(j, "FAILED")

RequestCancel(j) == j \in Submitted /\ status[j] # "QUEUED" /\ Write(j, "CANCEL_REQUESTED")

Cancel(j) == j \in Submitted /\ Write(j, "CANCELLED")

Next ==
    \E j \in Job :
        \/ Submit(j) \/ Claim(j) \/ Start(j) \/ Save(j)
        \/ Complete(j) \/ Fail(j) \/ RequestCancel(j) \/ Cancel(j)

Spec == Init /\ [][Next]_vars
=============================================================================
