------------------------------ MODULE Signals -------------------------------
(***************************************************************************)
(* quant/strategy/signals.py: what an indicator reading means as a position,*)
(* and how the positions of several factors are combined into one.          *)
(* A position is -1, 0, 1, or Unknown where a reading is NaN.               *)
(***************************************************************************)
EXTENDS Indicators

Unknown == 2
\* resolve_signal_func(): the indicator's row says whether its range is
\* bounded, the signal type's row names the function of each kind.
resolve_signal_func(direction, long_only, name) ==
    [direction |-> direction, long_only |-> long_only,
     bounded |-> name \in {"rsi", "stochastic"}]

\* The threshold on the other side: the mirror image at zero or at fifty.
Lower(func, s) == IF func.bounded THEN Minus(Num(100), s) ELSE Neg(s)

momentum_signal(x, s, lower) ==
    IF Gt(x, s) THEN 1 ELSE IF Gt(lower, x) THEN -1 ELSE 0

reversion_signal(x, s, lower) ==
    IF Gt(lower, x) THEN 1 ELSE IF Gt(x, s) THEN -1 ELSE 0

_long_only(p) == IF p = -1 THEN 0 ELSE p

\* A signal function applied to a column of readings.
positions_of(func, col, s) ==
    LET lower == Lower(func, s)
        one(x) == IF IsNaN(x) THEN Unknown
                  ELSE IF func.direction = "momentum" THEN momentum_signal(x, s, lower)
                  ELSE reversion_signal(x, s, lower)
    IN  Column(Len(col), LAMBDA i : IF func.long_only THEN _long_only(one(col[i]))
                                    ELSE one(col[i]))

-----------------------------------------------------------------------------
\* A plausible bug: ranks over the whole series.
_conviction_WholeSeries(col, i) ==
    LET seen == {k \in DOMAIN col : ~IsNaN(col[k])}
        rank == Cardinality({k \in seen : ~Gt(col[k], col[i])})
        far  == 2 * rank - Cardinality(seen)
    IN  IF IsNaN(col[i]) \/ Cardinality(seen) = 1 THEN Num(0)
        ELSE <<IF far < 0 THEN -far ELSE far, Cardinality(seen)>>

\* How extreme a reading is among the readings of its factor up to its own bar:
\* twice the distance of its percentile rank from the median.
_conviction(col, i) ==
    LET seen == {k \in 1..i : ~IsNaN(col[k])}
        rank == Cardinality({k \in seen : ~Gt(col[k], col[i])})
        far  == 2 * rank - Cardinality(seen)
    IN  IF IsNaN(col[i]) \/ Cardinality(seen) = 1 THEN Num(0)
        ELSE <<IF far < 0 THEN -far ELSE far, Cardinality(seen)>>

\* The sign of the most convicted factor that is not flat, the first of equals.
_strongest_sign(signs, conviction) ==
    LET acting == {j \in DOMAIN signs : signs[j] # 0}
        best == {j \in acting : \A k \in acting : ~Gt(conviction[k], conviction[j])}
    IN  signs[CHOOSE j \in best : \A k \in best : j <= k]

\* Non-zero only when every factor agrees.  A flat factor vetoes; conviction
\* decides only when no factor is flat.
_combine_and(signs, conviction) ==
    LET held == {signs[j] : j \in DOMAIN signs}
    IN  IF held = {1} THEN 1
        ELSE IF held = {-1} THEN -1
        ELSE IF held = {-1, 1} THEN _strongest_sign(signs, conviction)
        ELSE 0

\* A position as soon as one factor has one; conviction decides a conflict.
_combine_or(signs, conviction) ==
    LET held == {signs[j] : j \in DOMAIN signs}
    IN  IF {-1, 1} \subseteq held THEN _strongest_sign(signs, conviction)
        ELSE IF 1 \in held THEN 1
        ELSE IF -1 \in held THEN -1
        ELSE 0

\* The first factor gates, the others are combined like AND.
_combine_filter(signs, conviction) ==
    IF signs[1] = 0 THEN 0
    ELSE IF Len(signs) = 2 THEN signs[2]
    ELSE _combine_and(Tail(signs), Tail(conviction))

_combine(conjunction, signs, conviction) ==
    CASE conjunction = "AND" -> _combine_and(signs, conviction)
      [] conjunction = "OR" -> _combine_or(signs, conviction)
      [] conjunction = "FILTER" -> _combine_filter(signs, conviction)

\* cols[j] are the readings and positions[j] the positions of factor j.  A bar
\* on which some factor has no position has none; a single factor is its own
\* combination.  Every caller in the repository passes the readings along as
\* strengths, so a conflict is always decided by conviction.
combine_positions(positions, cols, conjunction) ==
    LET signs(i) == Column(Len(positions), LAMBDA j : positions[j][i])
        conviction(i) == Column(Len(cols), LAMBDA j : _conviction(cols[j], i))
    IN  IF Len(positions) = 1 THEN positions[1]
        ELSE Column(Len(positions[1]), LAMBDA i :
               IF \E j \in DOMAIN positions : positions[j][i] = Unknown THEN Unknown
               ELSE _combine(conjunction, signs(i), conviction(i)))
=============================================================================
