------------------------------ MODULE Promotion ------------------------------
(***************************************************************************)
(* quant/promotion/evaluate.py: how a finished backtest is ranked against  *)
(* the best version of its lineage.  A payload is what the evaluation      *)
(* reads of a stored result: the strategy's metrics, the buy-and-hold      *)
(* Sharpe and the hold-out Sharpe, each an integer or None.                *)
(***************************************************************************)
EXTENDS Integers, Sequences, SequencesExt

CONSTANTS
    None,              \* a metric, row or payload that is not there
    PromotionMetrics   \* CONFIG.PROMOTION_METRIC, in priority order

\* _extract_metric: the excess is missing when either of its terms is.
extract_metric(payload, key) ==
    CASE key = "OOS Sharpe Ratio" -> payload.oos
      [] key = "Sharpe Excess" ->
            IF None \in {payload.sharpe, payload.buy_hold} THEN None
            ELSE payload.sharpe - payload.buy_hold
      [] key = "Sharpe Ratio" -> payload.sharpe
      [] OTHER -> payload.calmar

\* _compare: a is at least as good as b, and strictly better than b.
as_good(a, b, direction) == IF direction = "lower_is_better" THEN a =< b ELSE a >= b
better(a, b, direction) == as_good(a, b, direction) /\ a # b

\* _group_by_type
group(type) == SelectSeq(PromotionMetrics, LAMBDA m : m.requirement_type = type)

\* A plausible bug: a missing metric does not fail its gate.
meets_threshold_MissingPasses(val, m) ==
    val = None \/ as_good(val, m.threshold, m.direction)

\* _meets_threshold
meets_threshold(val, m) ==
    val # None /\ as_good(val, m.threshold, m.direction)

\* passes_hard_gates, _evaluate_hard: a metric without a threshold is no gate.
passes_hard_gates(payload) ==
    \A i \in DOMAIN PromotionMetrics :
        LET m == PromotionMetrics[i]
        IN  m.requirement_type = "HARD" /\ m.threshold # None =>
                meets_threshold(extract_metric(payload, m.metric_key), m)

\* A soft metric that settles new against best: one the candidate has and the
\* best lacks, or on which they differ.
decisive(m, new, best) ==
    LET n == extract_metric(new, m.metric_key)
        b == extract_metric(best, m.metric_key)
    IN  n # None /\ (b = None \/ n # b)

\* _evaluate_soft: the first decisive metric; KEPT when there is none.
evaluate_soft(new, best) ==
    LET soft == group("SOFT")
        first == SelectInSeq(soft, LAMBDA m : decisive(m, new, best))
        m == soft[first]
        b == extract_metric(best, m.metric_key)
    IN  IF first = 0 THEN "KEPT"
        ELSE IF b = None \/ better(extract_metric(new, m.metric_key), b, m.direction)
             THEN "PROMOTED" ELSE "KEPT"

\* evaluate_promotion
evaluate_promotion(new, best, is_current_best, vid) ==
    CASE PromotionMetrics = << >> -> "REJECTED"
      [] is_current_best /\ PromotionMetrics # << >> ->
            IF vid = 1 \/ passes_hard_gates(new) THEN "KEPT" ELSE "DEMOTED"
      [] OTHER ->
            IF ~ passes_hard_gates(new) THEN "REJECTED"
            ELSE IF best = None THEN "PROMOTED" ELSE evaluate_soft(new, best)
=============================================================================
