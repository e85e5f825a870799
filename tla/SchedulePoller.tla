--------------------------- MODULE SchedulePoller ---------------------------
(***************************************************************************)
(* SchedulePoller: on boot it sweeps until a sweep moves nothing, then on  *)
(* a timer.  Its sweep is one of the sweeps of ScheduleTick, in a worker   *)
(* thread.                                                                 *)
(***************************************************************************)
EXTENDS ScheduleTick

CONSTANTS
    Poller,         \* the poller's sweep
    MaxDrainPasses

ASSUME PollerAssumption == MaxDrainPasses \in Nat \ {0}

VARIABLE poller     \* since: when the latest drain pass began

PollerType == [phase : {"drain", "sleep", "poll", "stopped"}, running : BOOLEAN,
               passes : 0..MaxDrainPasses, since : Nat]

PollerTypeOK == poller \in PollerType

Booted == [phase |-> "drain", running |-> TRUE, passes |-> 0, since |-> 0]

PollerInit == poller = Booted

-----------------------------------------------------------------------------
\* The loop of run: asleep while the poller runs.
Loop == IF poller.running THEN "sleep" ELSE "stopped"

DrainPass ==
    /\ poller.phase = "drain" /\ Begin(Poller)
    /\ poller' = [poller EXCEPT !.since = now]

\* A plausible bug: the drain ends after its first pass.
DrainOver_AtOnce(reports) == TRUE

\* has_stuck, or nothing advanced.
DrainOver(reports) == reports.stuck \/ ~reports.advanced

drain ==
    /\ poller.phase = "drain" /\ sweep[Poller].pc = "returned"
    /\ sweep' = [sweep EXCEPT ![Poller] = Idle]
    /\ poller' = [poller EXCEPT
                    !.passes = @ + 1,
                    !.phase = IF DrainOver(sweep[Poller]) \/ poller.passes + 1 = MaxDrainPasses
                              THEN Loop ELSE @]
    /\ UNCHANGED <<repoVars, now>>

\* The timer fires; _running is looked at again.
Wake ==
    /\ poller.phase = "sleep"
    /\ \/ /\ poller.running /\ Begin(Poller)
          /\ poller' = [poller EXCEPT !.phase = "poll"]
       \/ /\ ~poller.running
          /\ poller' = [poller EXCEPT !.phase = "stopped"]
          /\ UNCHANGED <<sweep, repoVars, now>>

poll_once ==
    /\ poller.phase = "poll" /\ sweep[Poller].pc = "returned"
    /\ sweep' = [sweep EXCEPT ![Poller] = Idle]
    /\ poller' = [poller EXCEPT !.phase = Loop]
    /\ UNCHANGED <<repoVars, now>>

stop ==
    /\ poller.running /\ poller.phase # "stopped"
    /\ poller' = [poller EXCEPT !.running = FALSE]
    /\ UNCHANGED <<sweep, repoVars, now>>

\* The process dies and is started again: it drains afresh.
PollerCrash ==
    /\ Crash(Poller)
    /\ poller' = Booted
=============================================================================
