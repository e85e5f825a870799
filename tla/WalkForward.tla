---------------------------- MODULE WalkForward -----------------------------
(***************************************************************************)
(* quant/strategy/optimizer.py and walk_forward.py: the search for the best *)
(* parameters over a grid, and the test that fits them on the first part of *)
(* the data and measures them on the rest.                                  *)
(***************************************************************************)
EXTENDS Performance

\* SearchSpace: one range of windows and one of thresholds per factor; total is
\* the number of combinations.
Combos(space) == [windows : [DOMAIN space.windows -> UNION Range(space.windows)],
                  signals : [DOMAIN space.signals -> UNION Range(space.signals)]]
SearchSpace(space) ==
    {c \in Combos(space) : \A j \in DOMAIN space.windows :
       c.windows[j] \in space.windows[j] /\ c.signals[j] \in space.signals[j]}

\* _select_search(): exhaustive when the trials asked for cover the space.
_select_search(total, max_trials) ==
    LET n == IF total < max_trials THEN total ELSE max_trials
    IN  [exhaustive |-> n >= total, trials |-> n]

\* A plausible bug: a trial without a score counts as a score of zero.
_build_result_NaNAsZero(rows) ==
    LET score(r) == IF IsNaN(rows[r]) THEN Num(0) ELSE rows[r]
    IN  [n_valid |-> Cardinality(DOMAIN rows),
         best    |-> {r \in DOMAIN rows : \A q \in DOMAIN rows : ~Gt(score(q), score(r))}]

\* _rows_from_study() and _build_result(): rows maps each trial to its score,
\* NaN where the evaluation raised or gave no finite Sharpe ratio.  The sort is
\* not stable, so of equal scores any may come first.
_build_result(rows) ==
    LET valid == {r \in DOMAIN rows : ~IsNaN(rows[r])}
    IN  [n_valid |-> Cardinality(valid),
         best    |-> {r \in valid : \A q \in valid : ~Gt(rows[q], rows[r])}]

\* What the search may try: the whole space, or as many draws as it has trials,
\* with any repetitions (the sampler is external).
TrialSets(space, max_trials) ==
    LET all == SearchSpace(space)
        how == _select_search(Cardinality(all), max_trials)
    IN  IF how.exhaustive THEN {all}
        ELSE {t \in SUBSET all : t # {} /\ Cardinality(t) <= how.trials}

\* evaluate() of every combination tried: an exception is a trial without a score.
Search(data, strategy, trials, cost, min_obs) ==
    _build_result([c \in trials |->
                    IF Computable(data, strategy)
                    THEN Objective(data, strategy, c.windows, c.signals, cost, min_obs)
                    ELSE NaN])

ExhaustiveSearch(data, strategy, space, cost, min_obs) ==
    Search(data, strategy, SearchSpace(space), cost, min_obs)

-----------------------------------------------------------------------------
\* The split is a row number of the traded product's frame, num/den of its rows.
split_idx(data, strategy, num, den) == (Cardinality(DOMAIN data[strategy.symbol]) * num) \div den

\* A partition of fewer than two rows is refused.
Splittable(data, strategy, num, den) ==
    LET k == split_idx(data, strategy, num, den)
    IN  k >= 2 /\ k < Cardinality(DOMAIN data[strategy.symbol]) - 1

\* A plausible bug: the split row is in both parts.
in_sample_OneMore(data, k) ==
    [s \in DOMAIN data |->
      LET index == Index(data[s])
      IN  [d \in {index[i] : i \in {m \in DOMAIN index : m <= k + 1}} |-> data[s][d]]]

\* df.iloc[:split_idx] and df.iloc[split_idx:], of every frame by its own rows.
in_sample(data, k) ==
    [s \in DOMAIN data |->
      LET index == Index(data[s])
      IN  [d \in {index[i] : i \in {m \in DOMAIN index : m <= k}} |-> data[s][d]]]
out_of_sample(data, k) ==
    [s \in DOMAIN data |->
      LET index == Index(data[s])
      IN  [d \in {index[i] : i \in {m \in DOMAIN index : m > k}} |-> data[s][d]]]

\* WalkForward.run() raises where the split, either part's coverage or the
\* choice of the best parameters does; the reported metrics of both parts are
\* those of one best choice.
WalkForwardRuns(data, strategy, space, num, den, cost, min_obs) ==
    LET k   == split_idx(data, strategy, num, den)
        fit == ExhaustiveSearch(in_sample(data, k), strategy, space, cost, min_obs)
    IN  /\ Splittable(data, strategy, num, den)
        /\ fit.n_valid > 0
        /\ Computable(in_sample(data, k), strategy)
        /\ Computable(out_of_sample(data, k), strategy)

walk_forward(data, strategy, space, num, den, cost, min_obs) ==
    LET k   == split_idx(data, strategy, num, den)
        fit == ExhaustiveSearch(in_sample(data, k), strategy, space, cost, min_obs)
        measure(part, c) == Reported(part, strategy, c.windows, c.signals, cost, min_obs)
    IN  {[best |-> c, is |-> measure(in_sample(data, k), c),
          oos |-> measure(out_of_sample(data, k), c)] : c \in fit.best}

-----------------------------------------------------------------------------
\* require_scoreable_sample() of backtest_service.py.
require_scoreable_sample(data, strategy, space, min_obs) ==
    Cardinality(DOMAIN data[strategy.symbol])
        >= MaxWindow([j \in DOMAIN space.windows |-> MaxWindow(SetToSeq(space.windows[j]))]) + min_obs
=============================================================================
