----------------------------- MODULE JobsService -----------------------------
(***************************************************************************)
(* quant/api/services/jobs.py: enqueue, cancel and reenqueue.              *)
(*                                                                         *)
(* FastAPI runs each request in a thread of its pool, and a request makes  *)
(* one database call at a time: what it read may be stale when it writes.  *)
(* A Handler is such a thread; req[h] is where its request stands and what *)
(* it has read.  publish_wake only shortens the loop's wait, and that wait *)
(* may end at any time anyway (WaitForWake in WorkerLoop), so the token is *)
(* not state; queued_position only reads.                                  *)
(***************************************************************************)
EXTENDS BtQueueRepo

CONSTANTS
    Handler,        \* request threads of the API
    MaxQueued       \* CONFIG.SETTING max_queued_per_user

ASSUME MaxQueuedAssumption == MaxQueued \in Nat
ASSUME HandlerAssumption == IsFiniteSet(Handler) /\ Handler # {}

VARIABLE req

Idle == [at |-> "idle"]

Request ==
    {Idle}
        \cup [at : {"insert"}, priority : Priority, user : User]
        \cup [at : {"cancel"}, job : Job, target : {"CANCELLED", "CANCEL_REQUESTED"}]
        \cup [at : {"count"}, job : Job]

JobsTypeOK == req \in [Handler -> Request]

JobsInit == req = [h \in Handler |-> Idle]

\* A plausible bug: the cap compared with > instead of >=.
UnderCap_OffByOne(u) == SP_GET_QUEUED_COUNT(u) <= MaxQueued

\* RateLimitError unless the user is under the cap.
UnderCap(u) == SP_GET_QUEUED_COUNT(u) < MaxQueued

\* enqueue, up to the count: over the cap the request ends in a 429 and
\* changes nothing.
EnqueueCheck(h, u, p) ==
    /\ req[h].at = "idle"
    /\ UnderCap(u)
    /\ req' = [req EXCEPT ![h] = [at |-> "insert", priority |-> p, user |-> u]]
    /\ UNCHANGED queueVars

\* enqueue and reenqueue, the insert of the QUEUED row under a new QUEUE_ID.
InsertQueued(h, j) ==
    /\ req[h].at = "insert"
    /\ SP_INS_QUEUE_NEW(j, req[h].priority, req[h].user)
    /\ req' = [req EXCEPT ![h] = Idle]

\* A plausible bug: every cancel left for the loop to observe.
CancelTarget_Always(s) == "CANCEL_REQUESTED"

\* _CANCEL_TARGET: the status a cancel writes for the status it read.
CancelTarget(s) == IF s = "QUEUED" THEN "CANCELLED" ELSE "CANCEL_REQUESTED"

\* cancel, the read: a job that is neither QUEUED nor RUNNING is a 409.
CancelRead(h, j) ==
    /\ req[h].at = "idle"
    /\ status[j] \in {"QUEUED", "RUNNING"}
    /\ req' = [req EXCEPT ![h] =
                  [at |-> "cancel", job |-> j, target |-> CancelTarget(status[j])]]
    /\ UNCHANGED queueVars

\* cancel, the write: the target chosen from the row as it was read.
CancelWrite(h) ==
    /\ req[h].at = "cancel"
    /\ SP_INS_QUEUE(req[h].job, req[h].target)
    /\ req' = [req EXCEPT ![h] = Idle]

\* reenqueue, the read: only a FAILED or CANCELLED job.
ReenqueueRead(h, j) ==
    /\ req[h].at = "idle"
    /\ status[j] \in {"FAILED", "CANCELLED"}
    /\ req' = [req EXCEPT ![h] = [at |-> "count", job |-> j]]
    /\ UNCHANGED queueVars

\* reenqueue, the cap: the new row takes the source row's priority and user.
ReenqueueCheck(h) ==
    LET j == req[h].job IN
    /\ req[h].at = "count"
    /\ UnderCap(owner[j])
    /\ req' = [req EXCEPT ![h] =
                  [at |-> "insert", priority |-> priority[j], user |-> owner[j]]]
    /\ UNCHANGED queueVars

\* A request that ends before its write: a 429 on reenqueue, a procedure
\* error (two writers of one QUEUE_ID collide on the primary key), a restart
\* of the API.
RequestFails(h) ==
    /\ req[h].at # "idle"
    /\ req' = [req EXCEPT ![h] = Idle]
    /\ UNCHANGED queueVars

JobsNext ==
    \E h \in Handler :
        \/ \E u \in User, p \in Priority : EnqueueCheck(h, u, p)
        \/ \E j \in Job : InsertQueued(h, j)
        \/ \E j \in Job : CancelRead(h, j)
        \/ CancelWrite(h)
        \/ \E j \in Job : ReenqueueRead(h, j)
        \/ ReenqueueCheck(h)
        \/ RequestFails(h)
=============================================================================
