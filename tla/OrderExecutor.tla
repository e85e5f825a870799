---------------------------- MODULE OrderExecutor ----------------------------
(***************************************************************************)
(* OrderRetryExecutor.execute over the ccxt adapter's place_order and      *)
(* confirm_market_order: read the book, place, poll for the fill, cancel   *)
(* before a retry.  One step per call that leaves the process; between two *)
(* of them the venue moves.                                                *)
(***************************************************************************)
EXTENDS OrderPolicy, Venue

CONSTANTS
    MaxAttempts,    \* order_max_attempts
    Polls,          \* number of fill_confirm_delays_s
    Faults          \* the answers of the outside world the run allows

ASSUME ExecutorAssumption == MaxAttempts \in Nat \ {0} /\ Polls \in Nat

Nobody == "nobody"
ASSUME NobodyAssumption == Nobody \notin OrderId

VARIABLES
    pc,             \* the next call of the apply cycle
    sig,            \* the signal the cycle computed
    pos,            \* position_qty of the current attempt
    req,            \* the order of the current attempt
    att,            \* attempt_num
    polls,          \* polls made for the current order
    oid,            \* vendor_order_id of the current attempt
    res             \* the OrderResult of the last attempt

execVars == <<pc, sig, pos, req, att, polls, oid, res>>

ExecPc == {"read", "place", "poll", "judge", "cancel"}

\* Typed refusals that come before or instead of the order reaching the book:
\* _key_refusal, _undersized and the typed errors of create_market_order.
Refusals ==
    {"SIZE_BELOW_MINIMUM", "KEY_READ_ONLY", "REGION_RESTRICTED", "IP_NOT_ALLOWED",
     "KEY_REFUSED", "INSUFFICIENT_FUNDS", "INVALID_ORDER"}

\* How fetch_order may be refused: _auth_error types every refused key.
PollRefusals ==
    {"IP_NOT_ALLOWED", "REGION_RESTRICTED"}
        \cup IF "poll_denied" \in Faults THEN {"KEY_REFUSED"} ELSE {}

\* The attempt has its result, which the executor judges next.
Judge(r) == pc' = "judge" /\ res' = r

\* The cycle is over, with r for a result.
Finish(r) == pc' = "report" /\ res' = r

-----------------------------------------------------------------------------
(* One attempt.                                                            *)

\* get_position_qty, then the decision.  Nothing due ends the cycle.
ReadBook ==
    /\ pc = "read"
    /\ pos' = position
    /\ req' = OrderDue(sig, position)
    /\ \/ req' = 0 /\ Finish(Success(0))
       \/ req' # 0 /\ pc' = "place" /\ UNCHANGED res
    /\ UNCHANGED <<venueVars, sig, att, polls, oid>>

\* A typed refusal: the order is not on the book.
PlaceRefused ==
    /\ pc = "place"
    /\ \E reason \in Refusals : Judge(Failure(FALSE, "other", reason))
    /\ oid' = Nobody
    /\ UNCHANGED <<venueVars, sig, pos, req, att, polls>>

\* create_order raised and nobody could say why, or it answered without an
\* id.  Either may hide an order that reached the book.
PlaceUnanswered ==
    /\ pc = "place"
    /\ \E r \in {Failure(FALSE, "transient", "NONE"), Failure(FALSE, "other", "NONE"),
                  Failure(FALSE, "other", "NOT_ACKNOWLEDGED")} : Judge(r)
    /\ \/ UNCHANGED venueVars
       \/ "lost_ack" \in Faults /\ \E o \in OrderId : Book(o, req)
    /\ oid' = Nobody
    /\ UNCHANGED <<sig, pos, req, att, polls>>

\* create_order answered with an id; confirm_market_order starts to poll.
PlaceAcked ==
    /\ pc = "place"
    /\ \E o \in OrderId : Book(o, req) /\ oid' = o
    /\ pc' = "poll"
    /\ polls' = 0
    /\ UNCHANGED <<sig, pos, req, att, res>>

-----------------------------------------------------------------------------
(* confirm_market_order.                                                   *)

_parse_terminal_anyfill(o) ==
    IF o.filled # 0 \/ o.st = "closed" THEN Success(o.filled)
    ELSE Failure(TRUE, "other", "VENUE_REJECTED")

\* A closed order, or an ended one that filled in part, is a fill; an order
\* that ended unfilled is a typed reject.
_parse_terminal(o) ==
    IF o.st = "closed" \/ (o.st = "canceled" /\ o.filled # 0) THEN Success(o.filled)
    ELSE Failure(TRUE, "other", "VENUE_REJECTED")

\* The order is not there yet, or it is and has not ended.
PollAgain ==
    /\ pc = "poll" /\ polls < Polls
    /\ polls' = polls + 1
    /\ UNCHANGED <<venueVars, pc, sig, pos, req, att, oid, res>>

PollTerminal_eager ==
    /\ pc = "poll" /\ polls < Polls
    /\ orders[oid].st # "open" \/ orders[oid].filled # 0
    /\ Judge(_parse_terminal_anyfill(orders[oid]))
    /\ UNCHANGED <<venueVars, sig, pos, req, att, polls, oid>>

PollTerminal ==
    /\ pc = "poll" /\ polls < Polls
    /\ orders[oid].st # "open"
    /\ Judge(_parse_terminal(orders[oid]))
    /\ UNCHANGED <<venueVars, sig, pos, req, att, polls, oid>>

\* fetch_order was refused with a typed reason, which is then the outcome.
PollDenied ==
    /\ pc = "poll" /\ polls < Polls
    /\ \E reason \in PollRefusals : Judge(Failure(TRUE, "other", reason))
    /\ UNCHANGED <<venueVars, sig, pos, req, att, polls, oid>>

\* The poll budget is spent, or fetch_order failed without a reason.
PollUnconfirmed ==
    /\ pc = "poll"
    /\ Judge(Failure(TRUE, "unconfirmed", "NONE"))
    /\ UNCHANGED <<venueVars, sig, pos, req, att, polls, oid>>

-----------------------------------------------------------------------------
(* What the executor makes of a result.                                    *)

\* Another attempt, or the end when this was the last.
NextAttempt ==
    \/ att >= MaxAttempts /\ Finish(res) /\ UNCHANGED att
    \/ att < MaxAttempts /\ pc' = "read" /\ att' = att + 1 /\ res' = Success(0)

\* A fill, or a failure no retry may follow.
JudgeFinal ==
    /\ pc = "judge"
    /\ ~is_retryable(res)
    /\ Finish(res)
    /\ UNCHANGED <<venueVars, sig, pos, req, att, polls, oid>>

JudgeCancel_skips ==
    /\ pc = "judge"
    /\ is_retryable(res) /\ is_unconfirmed(res) /\ res.acked
    /\ NextAttempt
    /\ UNCHANGED <<venueVars, sig, pos, req, polls, oid>>

\* An unconfirmed order is cancelled before anything else is placed.
JudgeCancel ==
    /\ pc = "judge"
    /\ is_retryable(res) /\ is_unconfirmed(res) /\ res.acked
    /\ pc' = "cancel"
    /\ UNCHANGED <<venueVars, sig, pos, req, att, polls, oid, res>>

JudgeRetry ==
    /\ pc = "judge"
    /\ is_retryable(res) /\ ~(is_unconfirmed(res) /\ res.acked)
    /\ NextAttempt
    /\ UNCHANGED <<venueVars, sig, pos, req, polls, oid>>

CancelAccepted ==
    /\ pc = "cancel"
    /\ VenueCancel(oid)
    /\ NextAttempt
    /\ UNCHANGED <<sig, pos, req, polls, oid>>

\* A cancel that returns failure proves nothing, and is final.
CancelFailed ==
    /\ pc = "cancel"
    /\ Finish([res EXCEPT !.reason = "CANCEL_FAILED"])
    /\ UNCHANGED <<venueVars, sig, pos, req, att, polls, oid>>

ExecNext ==
    \/ ReadBook \/ PlaceRefused \/ PlaceUnanswered \/ PlaceAcked
    \/ PollAgain \/ PollTerminal \/ PollDenied \/ PollUnconfirmed
    \/ JudgeFinal \/ JudgeCancel \/ JudgeRetry \/ CancelAccepted \/ CancelFailed
=============================================================================
