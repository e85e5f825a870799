----------------------------- MODULE MarketData -----------------------------
(***************************************************************************)
(* The market-data part of the API process: signals read windows, the      *)
(* scheduled warm pass (quant/market_data/warm.py) keeps the series of     *)
(* deployments and subscriptions current, users backfill ranges.           *)
(***************************************************************************)
EXTENDS PriceBarService

vars == <<now, bars, client, call>>

\* Every series of the venue has the same market.
OneMarket == [s \in Series |-> CHOOSE m \in Market : TRUE]

Init == BarsInit

\* BarWarmer.run, called by the scheduler's POST /price-bars/sync; which series
\* it reads is up to deployments and subscriptions (SeriesSubscr).
WarmRun(t) == \E instruments \in SUBSET Series : Sync(t, instruments)

Request ==
    \/ \E t \in Signal, s \in Series : LoadWindow(t, s)
    \/ \E t \in Job : WarmRun(t)
    \/ \E t \in Job, s \in Series, start \in BackfillStarts, end \in BackfillEnds :
         Backfill(t, s, start, end)

Next ==
    \/ \E t \in Thread : Step(t)
    \/ Request \/ Restart \/ Clock

Spec == Init /\ [][Next]_vars

\* A thread of the process goes on with the call it is in.
FairSpec == Spec /\ \A t \in Thread : WF_vars(Step(t))

-----------------------------------------------------------------------------
Due(t) ==
    {ts \in window(call[t].begun, call[t].lookback) \cap window(newest_at(now), call[t].lookback) :
        ts >= Listed}

Returned(t) ==
    /\ call[t] # NoCall /\ call[t].at \in {"coverage", "gaps", "page", "store"}
    /\ call[t].op = "window"
    /\ call'[t] # NoCall /\ call'[t].at = "read"

(* When ensure_fresh returns to a signal, by its freshness gate or after a
   fetch, every bar of its lookback that the venue has, and that a window as of
   now still wants, is stored; crashes in the middle of a store and other
   threads do not open a hole behind the newest row (ensure_fresh, _store).  A
   call whose clock reading is a bar old may pass the gate on the row another
   thread stored, without the oldest bar of its own window. *)
EnsuredWindow ==
    [][\A t \in Thread : Returned(t) => Due(t) \subseteq {row.ts : row \in bars'[call[t].s]}]_vars

(* A stored row is a closed bar of the series' own market, as long as the
   series of a venue share one market type: a partial candle would stay for
   ever under the natural key.  Only a backfill whose caller
   asked for an end past the last close stores one (fetch_bars, _insert). *)
RowsTrue ==
    \A s \in Series : \A row \in bars[s] :
        /\ row.market = MarketOf[s]
        /\ row.final \/ row.open_end

(* A window handed to a signal has a hole only when a bar closed between the
   two clock readings of load_window: one missing bar in five passes the
   coverage floor. *)
ServedWithoutHoles ==
    \A t \in Thread : At(t, "served") =>
        LET w == call[t].closed
        IN  \/ bar_starts(Min(w), Max(w), Period) = w
            \/ call[t].begun < Max(w) - Period

(* A backfill plan asks for bars that are all absent and that one fill may
   span; when the venue has served the pass, the next plan counts one pass
   fewer, and after the last one the target is covered (plan_backfill). *)
PlansConverge ==
    \A s \in Series, target \in window(newest_at(now), 2 * MaxBackfillBars) :
        LET plan  == plan_backfill(Stored(s), target, now)
            asked == bar_starts(plan.start, plan.end, Period)
            after == plan_backfill(Stored(s) \cup asked, target, now)
        IN  plan # NoPlan =>
              /\ asked # {} /\ Cardinality(asked) <= MaxBackfillBars
              /\ asked \cap Stored(s) = {}
              /\ IF plan.passes = 1 THEN after = NoPlan ELSE after.passes = plan.passes - 1

(* Every call comes to its end: pages run out, stop at a replayed page or reach
   until, and stores and warm passes are finite (fetch_bars, sync). *)
CallsEnd == \A t \in Thread : call[t] # NoCall ~> call[t] = NoCall
=============================================================================
