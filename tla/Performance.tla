---------------------------- MODULE Performance -----------------------------
(***************************************************************************)
(* quant/strategy/performance.py and objective.py: from the series a        *)
(* strategy reads to its position on every bar, its profit and loss, and    *)
(* the numbers reported and searched by.  data[symbol] is a frame: a        *)
(* function from dates to bars [high, low, close]; the close is the price   *)
(* and the factor.  A strategy is a record of the traded symbol, the        *)
(* conjunction and a sequence of substrategies [symbol, ind, func].         *)
(***************************************************************************)
EXTENDS Signals

\* The dates of a frame in order.
Index(frame) == Ordered(DOMAIN frame)

\* At least 0.80 of the traded product's dates.
_require_coverage(main, frame) ==
    5 * Cardinality(DOMAIN main \cap DOMAIN frame) >= 4 * Cardinality(DOMAIN main)

\* factor(): a product's closes at the traded product's dates.
factor(data, strategy, sub) ==
    LET index == Index(data[strategy.symbol])
    IN  Column(Len(index), LAMBDA i : IF index[i] \in DOMAIN data[sub.symbol]
                                      THEN Num(data[sub.symbol][index[i]].close) ELSE NaN)

\* With one factor the whole frame goes to the indicator; with several, a
\* frame of the factor column alone does, and the stochastic has no bars.
Computable(data, strategy) ==
    /\ \A j \in DOMAIN strategy.subs :
         strategy.subs[j].symbol # strategy.symbol
            => _require_coverage(data[strategy.symbol], data[strategy.subs[j].symbol])
    /\ Len(strategy.subs) > 1 => \A j \in DOMAIN strategy.subs : strategy.subs[j].ind # "stochastic"

\* _indicator_and_position(), of one substrategy: single_factor_frame() keeps
\* the traded product's bars beside the factor column.
indicator_of(data, strategy, sub, window) ==
    LET main  == data[strategy.symbol]
        index == Index(main)
    IN  indicator(sub.ind, [factor |-> factor(data, strategy, sub),
                            bars   |-> Column(Len(index), LAMBDA i : main[index[i]])], window)

\* The signal function of every factor on its readings, and their combination.
PositionFrom(strategy, cols, signals) ==
    combine_positions(
      Column(Len(cols), LAMBDA j : positions_of(strategy.subs[j].func, cols[j],
                                                Threshold(strategy.subs[j].ind, signals[j]))),
      cols, strategy.conjunction)

\* _compute_single_factor_outputs() and _compute_multi_factor_outputs().
FinalPosition(data, strategy, windows, signals) ==
    PositionFrom(strategy,
      Column(Len(strategy.subs), LAMBDA j :
        indicator_of(data, strategy, strategy.subs[j], windows[j])), signals)

\* price.pct_change()
chg(frame) ==
    LET index == Index(frame)
    IN  Column(Len(index), LAMBDA i :
          IF i = 1 THEN NaN
          ELSE Minus(Over(Num(frame[index[i]].close), Num(frame[index[i - 1]].close)), Num(1)))

\* The bar's return goes to the position held entering it; a fee is paid on a
\* change between two known positions.
strategy_pnl(pos, ret, cost) ==
    Column(Len(pos), LAMBDA i :
      LET prior == IF i = 1 THEN Unknown ELSE pos[i - 1]
          turnover == IF pos[i] > prior THEN pos[i] - prior ELSE prior - pos[i]
      IN  IF prior = Unknown \/ pos[i] = Unknown THEN NaN
          ELSE Minus(Times(Num(prior), ret[i]), Times(Num(turnover), cost)))

\* A plausible bug: the equity is not floored at zero.
_compound_NotClipped(pnl) ==
    LET equity[i \in 0..Len(pnl)] ==
          IF i = 0 THEN Num(1)
          ELSE IF IsNaN(pnl[i]) THEN equity[i - 1]
          ELSE Times(equity[i - 1], Plus(Num(1), pnl[i]))
        peak[i \in 0..Len(pnl)] ==
          IF i = 0 THEN Num(1) ELSE Larger(peak[i - 1], equity[i])
    IN  Column(Len(pnl), LAMBDA i :
          IF IsNaN(pnl[i]) THEN [cumu |-> NaN, dd |-> NaN]
          ELSE [cumu |-> Minus(equity[i], Num(1)),
                dd   |-> Minus(Num(1), Over(equity[i], peak[i]))])

\* _compound(): the equity curve from a capital of one, floored at zero, and
\* the drop from its peak.  A bar without profit and loss has neither.
_compound(pnl) ==
    LET equity[i \in 0..Len(pnl)] ==
          IF i = 0 THEN Num(1)
          ELSE IF IsNaN(pnl[i]) THEN equity[i - 1]
          ELSE Times(equity[i - 1], Larger(Plus(Num(1), pnl[i]), Num(0)))
        peak[i \in 0..Len(pnl)] ==
          IF i = 0 THEN Num(1) ELSE Larger(peak[i - 1], equity[i])
    IN  Column(Len(pnl), LAMBDA i :
          IF IsNaN(pnl[i]) THEN [cumu |-> NaN, dd |-> NaN]
          ELSE [cumu |-> Minus(equity[i], Num(1)),
                dd   |-> Minus(Num(1), Over(equity[i], peak[i]))])

-----------------------------------------------------------------------------
MaxWindow(windows) == CHOOSE w \in Range(windows) : \A v \in Range(windows) : v <= w

\* _metric_col(): what is measured starts after the longest window.
_metric_col(col, windows) == SubSeq(col, MaxWindow(windows) + 1, Len(col))

\* Mean over sample deviation of n numbers from their sum and the sum of their
\* squares, as its signed square.
MeanOverDeviation(n, s, sq) ==
    LET var == Minus(Times(Num(n), sq), Square(s))
    IN  IF var[1] = 0 THEN NaN
        ELSE Signed(Times(Num(n - 1), Over(Square(s), var)), s)

\* sharpe_ratio(), as its signed square without the constant factor of the
\* trading period: NaN below min_obs finite bars and without spread.
sharpe_ratio(col, min_obs) ==
    LET xs == Finite(col)
    IN  IF Len(xs) < min_obs \/ Len(xs) <= 1 THEN NaN
        ELSE MeanOverDeviation(Len(xs), SumOf(xs),
                               SumOf(Column(Len(xs), LAMBDA k : Square(xs[k]))))

\* Series.max() over the bars that have a drop.
MaxDrawdown(curve) ==
    LET dds == Finite(Column(Len(curve), LAMBDA i : curve[i].dd))
        top[i \in 1..Len(dds)] == IF i = 1 THEN dds[1] ELSE Larger(top[i - 1], dds[i])
    IN  IF dds = <<>> THEN NaN ELSE top[Len(dds)]

\* get_strategy_performance() on a column of bar returns and its equity curve.
\* The annual return and the Calmar ratio are defined, or not, together with
\* what they are computed from; their values are not kept.
metrics_of(col, curve, windows, n_obs, min_obs) ==
    LET measured == _metric_col(col, windows)
        enough   == n_obs >= min_obs /\ Finite(measured) # <<>>
        dd       == MaxDrawdown(curve)
    IN  [total_return |-> Last(curve).cumu,
         annualized   |-> enough,
         sharpe       |-> sharpe_ratio(measured, min_obs),
         max_drawdown |-> dd,
         calmar       |-> enough /\ Gt(dd, Num(0))]

MetricsOfBoth(pnl, hold, windows, min_obs) ==
    LET n_obs == Len(Finite(_metric_col(pnl, windows)))
    IN  [n_obs    |-> n_obs,
         strategy |-> metrics_of(pnl, _compound(pnl), windows, n_obs, min_obs),
         buy_hold |-> metrics_of(hold, _compound(hold), windows, n_obs, min_obs)]

\* enrich_performance(): buy-and-hold is measured on the bars the strategy
\* enters with a position.
enrich_performance(pos, ret, windows, cost, min_obs) ==
    MetricsOfBoth(strategy_pnl(pos, ret, cost),
                  Column(Len(ret), LAMBDA i :
                    IF i = 1 THEN NaN ELSE IF pos[i - 1] = Unknown THEN NaN ELSE ret[i]),
                  windows, min_obs)

\* The numbers reported for a strategy.
Reported(data, strategy, windows, signals, cost, min_obs) ==
    enrich_performance(FinalPosition(data, strategy, windows, signals),
                       chg(data[strategy.symbol]), windows, cost, min_obs)

\* Objective.__call__(): the search's own path to the Sharpe ratio, from one
\* cache of readings per factor.
Objective(data, strategy, windows, signals, cost, min_obs) ==
    LET subs  == strategy.subs
        cache == [j \in DOMAIN subs |->
                   [w \in {windows[j]} |-> indicator_of(data, strategy, subs[j], w)]]
        pos   == PositionFrom(strategy, Column(Len(subs), LAMBDA j : cache[j][windows[j]]), signals)
        pnl   == strategy_pnl(pos, chg(data[strategy.symbol]), cost)
    IN  sharpe_ratio(_metric_col(pnl, windows), min_obs)

-----------------------------------------------------------------------------
\* _latest_final_position(): the newest bar that has a position; 0 if none has.
_latest_known(pos) ==
    LET known == {i \in DOMAIN pos : pos[i] # Unknown}
    IN  IF known = {} THEN 0 ELSE CHOOSE i \in known : \A k \in known : k <= i

\* A plausible bug: one window of history.
live_lookback_bars_OneWindow(windows, pad) == MaxWindow(windows) + pad

\* The bars a live evaluation loads, by count: pad is 60 in the code.
live_lookback_bars(windows, pad) == MaxWindow(windows) * 3 + pad

\* The frames a live evaluation sees of what a backtest sees: the newest bars.
LiveData(data, strategy, windows, pad) ==
    LET index == Index(data[strategy.symbol])
        kept  == live_lookback_bars(windows, pad)
        first == index[IF Len(index) > kept THEN Len(index) - kept + 1 ELSE 1]
    IN  [s \in DOMAIN data |-> [d \in {e \in DOMAIN data[s] : e >= first} |-> data[s][d]]]
=============================================================================
