---------------------------- MODULE BarIntervals ----------------------------
(***************************************************************************)
(* The interval arithmetic of quant/shared/intervals.py, on whole time     *)
(* units since the epoch.  Bars are binned from the epoch; a slot is the   *)
(* instant at which a scheduled apply is due.  Time zones are left out: a  *)
(* listed session closes at the same time of every day, so changes to and  *)
(* from summer time are not seen.                                          *)
(***************************************************************************)
EXTENDS Integers, FiniteSetsExt

floor_to_period(ts, period) == (ts \div period) * period

last_closed_bar(ts, period) == floor_to_period(ts, period) - period

next_run_at(after, period) == floor_to_period(after, period) + period

\* A plausible bug: a slot that is now counts as still ahead.
next_apply_slot_AtOrAfter(after, period, offset) ==
    LET candidate == next_run_at(after, period) - offset
    IN  IF candidate >= after THEN candidate ELSE candidate + period

\* An offset before the close of the bar that contains after, if that instant
\* is still ahead; otherwise the same lead on the next bar.
next_apply_slot(after, period, offset) ==
    LET candidate == next_run_at(after, period) - offset
    IN  IF candidate > after THEN candidate ELSE candidate + period

\* date.weekday(): Monday is 0; the epoch is a Thursday.
weekday(day) == (day + 3) % 7

\* The loop tries ten dates in order and returns the first that fits, so the
\* least.
next_session_apply_slot(after, day, close, offset) ==
    LET dates == {d \in (after \div day)..(after \div day + 9) :
                    weekday(d) < 5 /\ d * day + close - offset > after}
    IN  Min(dates) * day + close - offset

\* The loop starts at the first boundary not before start.
bar_starts(start, end, period) ==
    LET opening == floor_to_period(start, period)
        first   == IF opening < start THEN opening + period ELSE opening
    IN  {first + k * period : k \in 0..((end - first) \div period)}
=============================================================================
