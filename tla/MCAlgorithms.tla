---------------------------- MODULE MCAlgorithms ----------------------------
(***************************************************************************)
(* The pure algorithms on bounded inputs.  A behaviour is either a clock    *)
(* that moves on, against which BarIntervals is compared with reference     *)
(* definitions, or a market that prints one bar after another, on which     *)
(* every quantity of Performance and WalkForward is computed anew.          *)
(***************************************************************************)
EXTENDS BarIntervals, WalkForward

CONSTANTS MaxTs, MaxPeriod, Day, MaxBars, MaxClose, MinObs

ASSUME BoundsAssumption ==
    /\ MaxTs \in Nat /\ MaxPeriod \in Nat \ {0} /\ Day \in Nat \ {0}
    /\ MaxBars \in Nat \ {0} /\ MaxClose \in Nat \ {0} /\ MinObs \in Nat

VARIABLES part, ts, period, offset,    \* the clock, and what it is divided by
          strategy, data               \* the strategy, and the bars printed so far

vars == <<part, ts, period, offset, strategy, data>>

Sub(symbol, ind, direction, long_only) ==
    [symbol |-> symbol, ind |-> ind,
     func |-> resolve_signal_func(direction, long_only, ind)]

\* Strategies that between them use every indicator, direction and conjunction.
Strategies ==
    {[symbol |-> "main", conjunction |-> choice[1], subs |-> choice[2]] :
       choice \in
         {<<"AND", <<Sub("main", "sma", "momentum", FALSE)>>>>,
          <<"AND", <<Sub("main", "stochastic", "reversion", FALSE)>>>>,
          <<"AND", <<Sub("main", "rsi", "reversion", TRUE)>>>>,
          <<"AND", <<Sub("main", "bollinger", "momentum", FALSE),
                     Sub("other", "sma", "reversion", FALSE)>>>>,
          <<"OR", <<Sub("main", "ema", "momentum", FALSE),
                    Sub("other", "rsi", "momentum", FALSE)>>>>,
          <<"FILTER", <<Sub("other", "sma", "momentum", FALSE),
                        Sub("main", "sma", "reversion", FALSE),
                        Sub("main", "rsi", "momentum", FALSE)>>>>}}

windows_of(s) == [j \in DOMAIN s.subs |-> IF s.subs[j].ind \in {"bollinger", "ema"} THEN 2 ELSE 1]
signals_of(s) == [j \in DOMAIN s.subs |->
                   CASE s.subs[j].ind \in {"rsi", "stochastic"} -> Num(50)
                     [] s.subs[j].ind = "bollinger" -> <<1, 4>>
                     [] OTHER -> Num(1)]
space_of(s) == [windows |-> [j \in DOMAIN s.subs |-> IF j = 1 THEN {1, 2} ELSE {windows_of(s)[j]}],
                signals |-> [j \in DOMAIN s.subs |-> IF j = 1 THEN {signals_of(s)[1], Num(2)}
                                                     ELSE {signals_of(s)[j]}]]
Cost == <<1, 2>>

Init ==
    /\ ts = 0
    /\ \/ /\ part = "clock" /\ period \in 1..MaxPeriod /\ offset \in 0..(period - 1)
          /\ strategy = [symbol |-> "main"] /\ data = [main |-> <<>>]
       \/ /\ part = "market" /\ period = 1 /\ offset = 0
          /\ strategy \in Strategies /\ data = [s \in {"main", "other"} |-> <<>>]

\* The bound on time is in the guard; at the bound the clock stands still.
Tick == part = "clock" /\ ts < MaxTs /\ ts' = ts + 1
        /\ UNCHANGED <<part, period, offset, strategy, data>>

Bar(c) == [high |-> c + 1, low |-> c - 1, close |-> c]
WithBar(frame, date, bar) == [d \in DOMAIN frame \cup {date} |-> IF d = date THEN bar ELSE frame[d]]

\* The other product moves against the traded one, and may miss one bar: with
\* two of five missing it is refused as a factor.
NextBar(c, gap) ==
    /\ part = "market" /\ ts < MaxBars
    /\ gap => Cardinality(DOMAIN data.other) = ts
    /\ ts' = ts + 1
    /\ data' = [main  |-> WithBar(data.main, ts', Bar(c)),
                other |-> IF gap THEN data.other ELSE WithBar(data.other, ts', Bar(MaxClose + 1 - c))]
    /\ UNCHANGED <<part, period, offset, strategy>>

AtBound == ts = (IF part = "clock" THEN MaxTs ELSE MaxBars) /\ UNCHANGED vars

Next == Tick \/ AtBound \/ \E c \in 1..MaxClose, gap \in BOOLEAN : NextBar(c, gap)

Spec == Init /\ [][Next]_vars

-----------------------------------------------------------------------------
Slots == {t \in 0..(ts + 2 * period) : (t + offset) % period = 0}
Boundaries == {t \in 0..(ts + period) : t % period = 0}

OnSession(t, close) == \E d \in 0..(ts \div Day + 12) : weekday(d) < 5 /\ t = d * Day + close - offset

\* The slot a deployment is seeded with (schedule_align.py) is the first instant
\* strictly in the future that lies an offset before a bar's close, or, for a
\* listed product, before the close of a weekday's session: none is skipped and
\* the present one is never returned.  The bars a window asks for are the
\* boundaries inside it, from whatever instant the window starts, and the last
\* closed bar is over while its successor is not.
SlotsAndBars ==
    part = "clock" =>
      /\ next_apply_slot(ts, period, offset) = Min({s \in Slots : s > ts})
      /\ \A close \in 0..(Day - 1) :
           LET slot == next_session_apply_slot(ts, Day, close, offset)
           IN  /\ slot > ts /\ OnSession(slot, close)
               /\ \A t \in (ts + 1)..(slot - 1) : ~OnSession(t, close)
      /\ \A start \in 0..ts :
           bar_starts(start, ts, period) = {b \in Boundaries : start <= b /\ b <= ts}
      /\ LET bar == last_closed_bar(ts, period)
         IN  bar + period <= ts /\ ts < bar + 2 * period /\ bar % period = 0

-----------------------------------------------------------------------------
PositionOn(d) == FinalPosition(d, strategy, windows_of(strategy), signals_of(strategy))

\* A bar that is printed changes no position of an earlier bar, whichever
\* indicators, directions and conjunction a strategy uses, gaps in a factor and
\* conflicts between factors included: a backtest decides every bar on what was
\* known on it (_conviction, reindex, rolling windows).
NoLookAhead ==
    [][part = "market" => PositionOn(data) = SubSeq(PositionOn(data'), 1, ts)]_vars

AgreesAtNewest(full, seen, cols) ==
    LET i  == _latest_known(seen)
    IN  /\ full[ts] # Unknown => i = Len(seen)
        /\ i > 0 => \/ full[i + ts - Len(seen)] = seen[i]
                    \/ {1, -1} \subseteq {cols[j][i] : j \in DOMAIN cols}

\* A live evaluation loads only the newest bars (live_lookback_bars), and still
\* answers for the newest bar whenever the backtest has a position on it, with the
\* backtest's position, but where conviction ranks a reading among all the bars
\* loaded (a conflict of factors) or an average runs from the first bar loaded
\* (the exponential one).
LiveAgrees ==
    (part = "market" /\ ts > 0 /\ \A j \in DOMAIN strategy.subs : strategy.subs[j].ind # "ema") =>
      LET live  == LiveData(data, strategy, windows_of(strategy), 0)
          cols  == [j \in DOMAIN strategy.subs |->
                     positions_of(strategy.subs[j].func,
                                  indicator_of(live, strategy, strategy.subs[j], windows_of(strategy)[j]),
                                  Threshold(strategy.subs[j].ind, signals_of(strategy)[j]))]
      IN  AgreesAtNewest(PositionOn(data), PositionOn(live), cols)

CurveHonest(curve, pos) ==
    \A i \in DOMAIN curve : ~IsNaN(curve[i].cumu) =>
      /\ ~Gt(Num(-1), curve[i].cumu)
      /\ ~Gt(Num(0), curve[i].dd) /\ ~Gt(curve[i].dd, Num(1))
      /\ \A k \in i..Len(curve) : (curve[i].cumu = Num(-1) /\ ~IsNaN(curve[k].cumu))
                             => curve[k].cumu = Num(-1)
      /\ (i > 1 /\ ~IsNaN(curve[i - 1].cumu) /\ pos[i] = 0 /\ pos[i - 1] = 0)
           => curve[i] = curve[i - 1]

EquityOf(pos) == CurveHonest(_compound(strategy_pnl(pos, chg(data.main), Cost)), pos)

\* The equity curve of any strategy on any prices, fees paid: the capital never
\* falls below zero and a ruined account stays ruined, the drop from the peak
\* stays within [0, 1], and a bar in which the strategy holds nothing and trades
\* nothing leaves the curve where it was.
EquityHonest == (part = "market" /\ ts > 0) => EquityOf(PositionOn(data))

Agreed(sharpe) ==
    \A t \in TrialSets(space_of(strategy), 1) \cup TrialSets(space_of(strategy), 4) :
      Search(data, strategy, t, Cost, MinObs).best =
        {c \in t : ~IsNaN(sharpe[c]) /\ \A q \in t : ~IsNaN(sharpe[q]) => ~Gt(sharpe[q], sharpe[c])}

\* What the search returns as best is what the reports would call best: among
\* all parameters tried, the whole grid or any draw from it, those whose reported
\* Sharpe ratio is defined and largest, and none only if no report has one.  The
\* two are computed by different code (Objective and Performance).
BestIsReportedBest ==
    (part = "market" /\ ts = MaxBars /\ Computable(data, strategy)) =>
      Agreed([c \in SearchSpace(space_of(strategy)) |->
               Reported(data, strategy, c.windows, c.signals, Cost, MinObs).strategy.sharpe])

\* The bars held out do not reach the fit: whatever is printed after the split,
\* a walk-forward test runs or refuses alike, chooses the same parameters and
\* reports the same in-sample metrics, although every frame is cut by its own row
\* numbers and a factor with gaps keeps later rows in its part.
HoldOutUnseen ==
    (part = "market" /\ ts = MaxBars /\ Splittable(data, strategy, 3, 5)) =>
      LET k   == split_idx(data, strategy, 3, 5)
          alt == [s \in DOMAIN data |->
                   [d \in DOMAIN data[s] |-> IF d > k THEN Bar(1) ELSE data[s][d]]]
          fit(d) == IF WalkForwardRuns(d, strategy, space_of(strategy), 3, 5, Cost, MinObs)
                    THEN {[best |-> r.best, is |-> r.is] :
                           r \in walk_forward(d, strategy, space_of(strategy), 3, 5, Cost, MinObs)}
                    ELSE {}
      IN  fit(alt) = fit(data)
=============================================================================
