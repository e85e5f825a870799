-------------------------- MODULE MCTradeSchedule ---------------------------
(***************************************************************************)
(* Instances of TradeSchedule for TLC.  Time is counted in units of half a *)
(* bar; a slot is one unit before the bar's close.                         *)
(***************************************************************************)
EXTENDS TradeSchedule, TLC

OnePeriod == [i \in Interval |-> 2]
TwoPeriods == [i \in Interval |-> IF i = (CHOOSE j \in Interval : TRUE) THEN 2 ELSE 3]
OneOffset == [i \in Interval |-> 1]

\* A deployment as the dialog creates it, and without a cadence.
Fresh == {[is_enabled_ind |-> "Y", deployment_status |-> "CREATED",
           schedule_tm_interval_id |-> i, fitted |-> i, qty |-> q] :
             i \in Interval, q \in {CHOOSE q \in Qtys : TRUE}}
Manual == {[r EXCEPT !.schedule_tm_interval_id = NoInterval] : r \in Fresh}
Switched == Fresh \cup {[r EXCEPT !.is_enabled_ind = "N"] : r \in Fresh}
AnyCreated == Switched \cup Manual

\* One field at a time, and resuming with both fields as the tests do.
SetEnabled(b) == [NoPatch EXCEPT !.enabled = b]
SetStatus(st) == [NoPatch EXCEPT !.deployment_status = st]
SetSchedule(x) == [NoPatch EXCEPT !.schedule = x]
SetQty(q) == [NoPatch EXCEPT !.qty = q]

SwitchPatches == {SetEnabled(TRUE), SetEnabled(FALSE)}
AllPatches ==
    SwitchPatches
      \cup {SetStatus(st) : st \in {"ACTIVE", "PAUSED"}}
      \cup {SetSchedule("fitted"), SetSchedule("null")}
      \cup {[SetEnabled(TRUE) EXCEPT !.deployment_status = "ACTIVE"]}
QtyPatches == {SetQty(q) : q \in Qtys}

Symmetry == Permutations(Ticks) \cup Permutations(Users)
=============================================================================
