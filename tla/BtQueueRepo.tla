----------------------------- MODULE BtQueueRepo -----------------------------
(***************************************************************************)
(* BT.QUEUE as the queue code sees it: quant/queue/repo.py over the stored *)
(* procedures of db/liquidbase/bt.                                         *)
(*                                                                         *)
(* The table is a soft-versioned log: every transition appends a row and   *)
(* closes the previous one.  No reader but the history view looks behind   *)
(* the open row, so the state here is the open row of each QUEUE_ID, one   *)
(* variable per column that a decision reads.  TRANSACT_FROM_TS and        *)
(* CREATED_AT are both the time of the transaction that wrote the row; only *)
(* their order is ever used, so they are kept as the relation "before".    *)
(***************************************************************************)
EXTENDS Integers, FiniteSets

CONSTANTS
    Job,          \* the QUEUE_IDs uuid4() may produce
    User,         \* owners of jobs
    Priority,     \* the values of REFDATA.QUEUE_PRIORITY, lower runs sooner
    ListLimit,    \* LIMIT of list_by_status: 1000 in the code
    NoJob         \* "no job in hand"; not a member of Job

ASSUME JobAssumption == IsFiniteSet(Job) /\ NoJob \notin Job
ASSUME PriorityAssumption == Priority \subseteq Nat
ASSUME LimitAssumption == ListLimit \in Nat \ {0}

VARIABLES
    status,       \* QUEUE_STATUS of the open row, "NONE" before the first insert
    priority,     \* PRIORITY of the open row
    owner,        \* USER_ID of the open row
    before        \* <<i, j>>: the open row of i was written before that of j

queueVars == <<status, priority, owner, before>>

Terminal == {"COMPLETED", "FAILED", "CANCELLED"}

Status == {"NONE", "QUEUED", "RUNNING", "CANCEL_REQUESTED"} \cup Terminal

QueueTypeOK ==
    /\ status \in [Job -> Status]
    /\ priority \in [Job -> Priority]
    /\ owner \in [Job -> User]
    /\ before \in SUBSET (Job \X Job)

QueueInit ==
    /\ status = [j \in Job |-> "NONE"]
    /\ priority \in {[j \in Job |-> p] : p \in Priority}
    /\ owner \in {[j \in Job |-> u] : u \in User}
    /\ before = {}

-----------------------------------------------------------------------------
(* Writes.                                                                 *)

\* The new version of j's row is the newest row of the table.
Newest(j) ==
    {p \in before : p[1] # j /\ p[2] # j}
        \cup {<<i, j>> : i \in {k \in Job : k # j /\ status[k] # "NONE"}}

\* BT.SP_INS_QUEUE for a job that exists: close the open row of j, insert the
\* next version with status s.  The caller passes the job's own priority and
\* user back, and nothing in the procedure looks at the status it replaces.
SP_INS_QUEUE(j, s) ==
    /\ status' = [status EXCEPT ![j] = s]
    /\ before' = Newest(j)
    /\ UNCHANGED <<priority, owner>>

\* A plausible bug: a re-enqueue that reuses the QUEUE_ID of the job it repeats.
SP_INS_QUEUE_NEW_InPlace(j, p, u) ==
    /\ status[j] \in {"NONE", "FAILED", "CANCELLED"}
    /\ status' = [status EXCEPT ![j] = "QUEUED"]
    /\ priority' = [priority EXCEPT ![j] = p]
    /\ owner' = [owner EXCEPT ![j] = u]
    /\ before' = Newest(j)

\* The same procedure for a fresh QUEUE_ID: version 1 of the row.
SP_INS_QUEUE_NEW(j, p, u) ==
    /\ status[j] = "NONE"
    /\ status' = [status EXCEPT ![j] = "QUEUED"]
    /\ priority' = [priority EXCEPT ![j] = p]
    /\ owner' = [owner EXCEPT ![j] = u]
    /\ before' = Newest(j)

-----------------------------------------------------------------------------
(* Reads.                                                                  *)

\* BT.SP_GET_QUEUE by status: the open rows with status s, newest first, cut
\* at ListLimit.  A row is returned when fewer than ListLimit are newer.
SP_GET_QUEUE(s) ==
    LET rows == {j \in Job : status[j] = s}
    IN  {j \in rows : Cardinality({k \in rows : <<j, k>> \in before}) < ListLimit}

\* in_run_order: lower priority first, then the row written earlier.
RunsSooner(i, j) ==
    \/ priority[i] < priority[j]
    \/ priority[i] = priority[j] /\ <<i, j>> \in before

\* The first row in_run_order puts out (none when rows is empty).
Heads(rows) == {j \in rows : \A k \in rows \ {j} : RunsSooner(j, k)}

\* BT.SP_GET_QUEUED_COUNT: this user's open QUEUED rows.
SP_GET_QUEUED_COUNT(u) ==
    Cardinality({j \in Job : status[j] = "QUEUED" /\ owner[j] = u})
=============================================================================
