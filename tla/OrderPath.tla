------------------------------ MODULE OrderPath ------------------------------
(***************************************************************************)
(* One deployment from the scheduler's tick, or a user's manual apply, to  *)
(* the venue: ScheduleTickRunner._run_one and the API's apply endpoint     *)
(* drive TradeService.apply_deployment, which runs LiveApplyOrchestrator   *)
(* and with it the order executor.  The diary rows a cycle appends (intent,*)
(* execution events, transaction) are read by nothing on this path and are *)
(* left out; a failing intent write is one of the ways an apply raises.    *)
(***************************************************************************)
EXTENDS OrderExecutor

CONSTANTS
    TickAttempts,   \* tick_max_attempts
    Drivers         \* who applies: "tick", "manual"

ASSUME PathAssumption == TickAttempts \in Nat \ {0} /\ Drivers \subseteq {"tick", "manual"}

VARIABLES
    enabled,        \* IS_ENABLED_IND = 'Y' and not PAUSED or STOPPED
    driver,         \* who started the cycle that is running
    tries           \* attempt of _run_one

pathVars == <<enabled, driver, tries>>
vars == <<venueVars, execVars, pathVars>>

Pc == ExecPc \cup {"idle", "apply", "report"}

Init ==
    /\ VenueInit
    /\ pc = "idle" /\ sig = 0 /\ pos = 0 /\ req = 0 /\ att = 0 /\ polls = 0
    /\ oid = Nobody /\ res = Success(0)
    /\ enabled = TRUE /\ driver = "tick" /\ tries = 0

-----------------------------------------------------------------------------
(* apply_deployment and LiveApplyOrchestrator.run.                         *)

\* The due list holds only enabled deployments; apply_deployment checks the
\* kill switch itself.
Start(d) ==
    /\ pc = "idle" /\ enabled
    /\ pc' = "apply" /\ driver' = d /\ tries' = 1
    /\ UNCHANGED <<venueVars, sig, pos, req, att, polls, oid, res, enabled>>

\* The signal is computed, the intent written, the session opened.
Apply ==
    /\ pc = "apply" /\ enabled
    /\ \E s \in Signal : sig' = s
    /\ pc' = "read" /\ att' = 1
    /\ UNCHANGED <<venueVars, pos, req, polls, oid, res, pathVars>>

\* The apply raises: kill switch, credential, stale bars, intent write, session,
\* position read or an order the adapter will not send.  No order is open by
\* this cycle's hand.  Only a broker error carries a reason.
ApplyRaises ==
    /\ pc \in {"apply", "read", "place"}
    /\ \E reason \in {"NONE", "IP_NOT_ALLOWED", "REGION_RESTRICTED", "KEY_REFUSED"} :
         Finish(Failure(FALSE, "other", reason))
    /\ UNCHANGED <<venueVars, sig, pos, req, att, polls, oid, pathVars>>

-----------------------------------------------------------------------------
(* _run_one and _auto_pause.                                               *)

\* The apply returned and its local variables are gone.
Returned(next) ==
    /\ pc' = next
    /\ sig' = 0 /\ pos' = 0 /\ req' = 0 /\ att' = 0 /\ polls' = 0
    /\ oid' = Nobody /\ res' = Success(0)
    /\ UNCHANGED <<venueVars, driver>>

ToIdle == Returned("idle") /\ tries' = 0

\* Filled, or nothing to do: the schedule advances.
TickApplied ==
    /\ pc = "report" /\ driver = "tick" /\ res.success
    /\ ToIdle /\ UNCHANGED enabled

GivesUp == res.reason \in requires_operator_fix \/ tries >= TickAttempts

TickRetries_uncounted ==
    /\ pc = "report" /\ driver = "tick" /\ ~res.success /\ ~GivesUp
    /\ Returned("apply")
    /\ UNCHANGED <<enabled, tries>>

\* Another apply of the same row after tick_retry_backoff_s.
TickRetries ==
    /\ pc = "report" /\ driver = "tick" /\ ~res.success /\ ~GivesUp
    /\ Returned("apply") /\ tries' = tries + 1
    /\ UNCHANGED enabled

\* _auto_pause disables the deployment.
TickPauses ==
    /\ pc = "report" /\ driver = "tick" /\ ~res.success /\ GivesUp
    /\ enabled' = FALSE
    /\ ToIdle

\* The pause could not be written: the schedule advances instead (ABANDONED).
TickAbandons ==
    /\ "pause_fails" \in Faults
    /\ pc = "report" /\ driver = "tick" /\ ~res.success /\ GivesUp
    /\ ToIdle /\ UNCHANGED enabled

\* The apply endpoint hands the report, or the error, to its caller.
ManualDone ==
    /\ pc = "report" /\ driver = "manual"
    /\ ToIdle /\ UNCHANGED enabled

-----------------------------------------------------------------------------
(* The user, and the venue.                                                *)

\* The kill switch, at any moment.
Disable ==
    /\ enabled /\ enabled' = FALSE
    /\ UNCHANGED <<venueVars, execVars, driver, tries>>

\* The user enables the deployment again, in the middle of a cycle too.  After
\* a pause someone reconciles the account first: no order of it is left open.
Reconcile ==
    /\ ~enabled /\ enabled' = TRUE
    /\ pc # "idle" \/ NoneOpen
    /\ UNCHANGED <<venueVars, execVars, driver, tries>>

VenueMoves ==
    /\ \E o \in OrderId :
         VenueFill(o) \/ VenueEnd(o) \/ (o # oid /\ VenueForget(o))
    /\ UNCHANGED <<execVars, pathVars>>

\* The cycle in hand moves on.
CycleStep ==
    \/ ExecNext /\ UNCHANGED pathVars
    \/ Apply \/ ApplyRaises
    \/ TickApplied \/ TickRetries \/ TickPauses \/ TickAbandons \/ ManualDone

Next ==
    \/ CycleStep
    \/ \E d \in Drivers : Start(d)
    \/ Disable \/ Reconcile \/ VenueMoves

Spec == Init /\ [][Next]_vars

\* The thread that runs a cycle goes on: every call it makes returns or times
\* out.  Nothing is assumed of the venue's fills, the user or the scheduler.
FairSpec == Spec /\ WF_vars(CycleStep)

-----------------------------------------------------------------------------
(* Invariants.                                                             *)

\* Every variable keeps the type of the value it stands for.
TypeOK ==
    /\ VenueTypeOK
    /\ pc \in Pc /\ sig \in Signal /\ pos \in Int /\ req \in Int
    /\ att \in 0 .. MaxAttempts /\ polls \in 0 .. Polls
    /\ oid \in OrderId \cup {Nobody} /\ res \in OrderResult
    /\ enabled \in BOOLEAN /\ driver \in {"tick", "manual"} /\ tries \in 0 .. TickAttempts

\* Never two orders of one deployment on the book, across the attempts of a
\* cycle, the retries of a tick and the pause after a failed cancel ("the next
\* place is then a second order", OrderRetryExecutor).
AtMostOneOpen == \A o1, o2 \in OrderId : IsOpen(o1) /\ IsOpen(o2) => o1 = o2

\* "Repeated applies converge instead of stacking" (poller.py): the position
\* never exceeds the deployment's qty, plus the dust taken for flat, however
\* fills, cancels and retries interleave.
ExposureBounded == Abs(position) <= Qty + FlatEps

\* A cycle that reports success reports the truth: the position it read plus
\* the fill it reports is the venue's position, late and partial fills of
\* cancelled attempts included ("a wrong position is worse than a missing one",
\* tick.py).
ReportedPositionTrue ==
    pc = "report" /\ res.success => position = pos + res.filled

-----------------------------------------------------------------------------
(* Action properties, liveness, refinement.                                *)

\* Trading never carries a real position through zero: a flatten is sized from
\* the reading it was decided on, and that reading is not stale when it fills.
FlattenNeverFlips ==
    [][ /\ position > FlatEps => position' >= 0
        /\ position < -FlatEps => position' <= 0 ]_vars

\* A cycle that started ends: polls, order attempts and tick attempts run out,
\* whatever the venue answers or fails to answer.
CycleEnds == pc # "idle" ~> pc = "idle"

\* The part of the open order that may still trade.
LiveLeft(book) ==
    LET open == {o \in OrderId : book[o].st = "open"} IN
    IF open = {} THEN 0
    ELSE LET o == CHOOSE x \in open : TRUE IN book[o].size - book[o].filled

Target == INSTANCE TargetPosition WITH live <- LiveLeft(orders)

\* Every order is sent when no other is live and is the one due at the
\* position of that moment.
ImplementsTarget == Target!Spec
=============================================================================
