----------------------------- MODULE OrderPolicy -----------------------------
(***************************************************************************)
(* quant/trade/order_policy.py: what to place, and whether to try again.   *)
(* Quantities are integers in some unit of the venue; an order is a signed *)
(* quantity, a buy positive and a sell negative, and 0 is no order.        *)
(***************************************************************************)
EXTENDS Integers

CONSTANTS
    Qty,          \* the deployment's qty
    FlatEps       \* _FLAT_EPS: a position this small is float noise

ASSUME QtyAssumption == Qty \in Nat /\ FlatEps \in Nat /\ FlatEps < Qty

Abs(x) == IF x < 0 THEN -x ELSE x

\* int(round(signal)): only its sign is looked at.
Signal == {-1, 0, 1}

-----------------------------------------------------------------------------
(* From the signal and the position to at most one order.                  *)

intended_action(sig, p) ==
    LET q == IF Abs(p) <= FlatEps THEN 0 ELSE p IN
    CASE q < 0 /\ sig >= 0 -> "CLOSE_SHORT"
      [] q > 0 /\ sig <= 0 -> "SELL"
      [] q = 0 /\ sig > 0  -> "BUY"
      [] q = 0 /\ sig < 0  -> "OPEN_SHORT"
      [] OTHER             -> "HOLD"

\* A flatten is sized from the position the action was decided on.
order_for(action, p) ==
    CASE action = "BUY"         -> Qty
      [] action = "OPEN_SHORT"  -> -Qty
      [] action = "SELL"        -> -Abs(p)
      [] action = "CLOSE_SHORT" -> Abs(p)
      [] action = "HOLD"        -> 0

\* The order a signal calls for at a position.
OrderDue(sig, p) == order_for(intended_action(sig, p), p)

-----------------------------------------------------------------------------
(* OrderResult and the retry decision.                                     *)

OrderRejectReason ==
    {"SIZE_BELOW_MINIMUM", "IP_NOT_ALLOWED", "REGION_RESTRICTED",
     "KEY_READ_ONLY", "KEY_REFUSED", "INSUFFICIENT_FUNDS", "INVALID_ORDER",
     "VENUE_REJECTED", "NOT_ACKNOWLEDGED", "CANCEL_FAILED"}

requires_operator_fix_forgetful ==
    {"SIZE_BELOW_MINIMUM", "IP_NOT_ALLOWED", "REGION_RESTRICTED", "KEY_READ_ONLY"}

\* OrderRejectReason.requires_operator_fix.
requires_operator_fix ==
    {"SIZE_BELOW_MINIMUM", "IP_NOT_ALLOWED", "REGION_RESTRICTED",
     "KEY_READ_ONLY", "CANCEL_FAILED"}

\* What the policy reads of a result: whether it has a vendor_order_id
\* ("acked"), which of the policy's marker texts the message holds, the typed
\* reason ("NONE" when nobody classified the failure) and the signed fill.
OrderResult ==
    [success : BOOLEAN, acked : BOOLEAN,
     msg : {"filled", "unconfirmed", "transient", "other"},
     reason : OrderRejectReason \cup {"NONE"}, filled : Int]

Failure(acked, msg, reason) ==
    [success |-> FALSE, acked |-> acked, msg |-> msg, reason |-> reason, filled |-> 0]

\* A fill, or the None of a cycle that had nothing to place.
Success(filled) ==
    [success |-> TRUE, acked |-> filled # 0, msg |-> "filled",
     reason |-> "NONE", filled |-> filled]

is_unconfirmed(r) == r.msg = "unconfirmed"

is_retryable(r) ==
    /\ ~r.success
    /\ r.reason = "NONE"
    /\ is_unconfirmed(r) \/ r.acked \/ r.msg = "transient"
=============================================================================
