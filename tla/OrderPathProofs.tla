--------------------------- MODULE OrderPathProofs ---------------------------
(***************************************************************************)
(* Proofs about OrderPath for a deployment the scheduler alone drives, at  *)
(* a venue that hides no order (no fault): for every qty, flat tolerance,  *)
(* number of attempts, polls and tick retries.                             *)
(***************************************************************************)
EXTENDS OrderPath, TLAPS

\* The setting of the theorems.
Quiet == Faults = {} /\ Drivers = {"tick"}

\* An open order is in the hands of the cycle that sent it, which will cancel
\* it or give up with a reason that pauses; or the deployment is paused.
OpenHeld ==
    \A o \in OrderId : IsOpen(o) =>
        \/ pc \in {"poll", "cancel"} /\ oid = o
        \/ /\ pc = "judge" /\ oid = o /\ ~res.success /\ res.acked
           /\ \/ res.reason \in requires_operator_fix
              \/ res.reason = "NONE" /\ res.msg = "unconfirmed"
        \/ pc = "report" /\ ~res.success /\ res.reason \in requires_operator_fix
        \/ pc = "idle" /\ ~enabled

\* Where the position stands once an open order has traded to its end.
Ends(o) == position + (orders[o].size - orders[o].filled)

\* The end an open order heads for is within bounds and on the same side.
Headed ==
    \A o \in OrderId : IsOpen(o) =>
        /\ -(Qty + FlatEps) <= Ends(o) /\ Ends(o) <= Qty + FlatEps
        /\ position > FlatEps => Ends(o) >= 0
        /\ position < -FlatEps => Ends(o) <= 0

Bounded == -(Qty + FlatEps) <= position /\ position <= Qty + FlatEps

\* What the cycle knows of the position is what the venue holds.
Knows ==
    /\ pc = "place" => pos = position /\ req = OrderDue(sig, position)
    /\ pc \in {"poll", "cancel"} => oid \in OrderId
    /\ pc = "judge" /\ res.acked => oid \in OrderId
    /\ pc = "cancel" => ~res.success
    /\ pc = "poll" => position = pos + orders[oid].filled
    /\ pc \in {"judge", "report"} /\ res.success => position = pos + res.filled

Cycle ==
    /\ driver = "tick"
    /\ pc \in ExecPc => att >= 1
    /\ pc # "idle" => tries >= 1

OrderInv ==
    TypeOK /\ AtMostOneOpen /\ OpenHeld /\ Headed /\ Bounded /\ Knows /\ Cycle

-----------------------------------------------------------------------------
(* The decision.                                                           *)

\* The order due takes a position within bounds to one within bounds, and
\* never through zero.
LEMMA DueBound ==
    ASSUME NEW s \in Signal, NEW p \in Int,
           -(Qty + FlatEps) <= p, p <= Qty + FlatEps
    PROVE  /\ OrderDue(s, p) \in Int
           /\ -(Qty + FlatEps) <= p + OrderDue(s, p)
           /\ p + OrderDue(s, p) <= Qty + FlatEps
           /\ p > FlatEps => p + OrderDue(s, p) >= 0
           /\ p < -FlatEps => p + OrderDue(s, p) <= 0
<1>1. Qty \in Nat /\ FlatEps \in Nat /\ FlatEps < Qty
  BY QtyAssumption
<1>2. CASE p > FlatEps
  BY <1>1, <1>2 DEF OrderDue, order_for, intended_action, Abs, Signal
<1>3. CASE p < -FlatEps
  BY <1>1, <1>3 DEF OrderDue, order_for, intended_action, Abs, Signal
<1>4. CASE -FlatEps <= p /\ p <= FlatEps
  BY <1>1, <1>4 DEF OrderDue, order_for, intended_action, Abs, Signal
<1>5. QED
  BY <1>1, <1>2, <1>3, <1>4

\* What a failure after the order was accepted is.
LEMMA AckedFailure ==
    ASSUME NEW m \in {"filled", "unconfirmed", "transient", "other"},
           NEW r \in OrderRejectReason \cup {"NONE"}
    PROVE  /\ Failure(TRUE, m, r) \in OrderResult
           /\ ~Failure(TRUE, m, r).success
           /\ Failure(TRUE, m, r).acked
           /\ Failure(TRUE, m, r).msg = m
           /\ Failure(TRUE, m, r).reason = r
  BY DEF Failure, OrderResult

\* What a failure before the order was accepted is.
LEMMA UnackedFailure ==
    ASSUME NEW m \in {"filled", "unconfirmed", "transient", "other"},
           NEW r \in OrderRejectReason \cup {"NONE"}
    PROVE  /\ Failure(FALSE, m, r) \in OrderResult
           /\ ~Failure(FALSE, m, r).success
           /\ ~Failure(FALSE, m, r).acked
           /\ Failure(FALSE, m, r).msg = m
           /\ Failure(FALSE, m, r).reason = r
  BY DEF Failure, OrderResult

\* What a success is.
LEMMA SuccessType ==
    ASSUME NEW f \in Int
    PROVE  /\ Success(f) \in OrderResult
           /\ Success(f).success
           /\ Success(f).reason = "NONE"
           /\ Success(f).msg = "filled"
           /\ Success(f).filled = f
  BY DEF Success, OrderResult

-----------------------------------------------------------------------------
(* The first state, and steps that leave the venue alone.                  *)

\* The invariant holds at the start.
LEMMA InitInv == Init => OrderInv
<1> SUFFICES ASSUME Init PROVE OrderInv
  OBVIOUS
<1>1. Success(0) \in OrderResult
  BY SuccessType, 0 \in Int
<1>2. TypeOK
  BY <1>1, ExecutorAssumption, PathAssumption
     DEF Init, VenueInit, NoOrder, TypeOK, VenueTypeOK, OrderStatus, Pc, Signal
<1>3. \A o \in OrderId : ~IsOpen(o)
  BY DEF Init, VenueInit, NoOrder, IsOpen
<1>4. AtMostOneOpen /\ OpenHeld /\ Headed
  BY <1>3 DEF AtMostOneOpen, OpenHeld, Headed
<1>5. Bounded /\ Knows /\ Cycle
  BY QtyAssumption DEF Init, VenueInit, Bounded, Knows, Cycle, ExecPc
<1>6. QED
  BY <1>2, <1>4, <1>5 DEF OrderInv

\* A step that leaves the venue alone keeps what is known of it.
LEMMA VenueKept ==
    ASSUME OrderInv, UNCHANGED venueVars
    PROVE  VenueTypeOK' /\ AtMostOneOpen' /\ Headed' /\ Bounded'
  BY DEF OrderInv, TypeOK, venueVars, VenueTypeOK, AtMostOneOpen, Headed, Bounded, Ends, IsOpen

\* Nothing is open when a cycle starts, reads, places, or ended well.
LEMMA NothingOpen ==
    ASSUME OrderInv
    PROVE  /\ pc \in {"apply", "read", "place"} => NoneOpen
           /\ pc = "idle" /\ enabled => NoneOpen
           /\ pc \in {"judge", "report"} /\ res.success => NoneOpen
  BY DEF OrderInv, OpenHeld, NoneOpen

-----------------------------------------------------------------------------
(* One lemma per action.                                                   *)

\* Nothing is open when the book is read, so the reading stays true.
LEMMA ReadBookInv ==
    ASSUME Quiet, OrderInv, ReadBook, UNCHANGED pathVars
    PROVE  OrderInv'
<1>1. UNCHANGED venueVars
  BY DEF ReadBook
<1>2. VenueTypeOK' /\ AtMostOneOpen' /\ Headed' /\ Bounded'
  BY <1>1, VenueKept
<1>3. TypeOK'
  BY <1>2, DueBound, SuccessType, 0 \in Int DEF OrderInv, TypeOK, Pc, ExecPc, Bounded, ReadBook, Finish, venueVars, VenueTypeOK, pathVars
<1>4. OpenHeld'
  BY <1>1, NothingOpen DEF OrderInv, OpenHeld, IsOpen, NoneOpen, venueVars, ReadBook, Finish
<1>5. Knows'
  BY <1>1, SuccessType, 0 \in Int DEF OrderInv, TypeOK, VenueTypeOK, Knows, venueVars, ReadBook, Finish
<1>6. Cycle'
  BY DEF OrderInv, Cycle, ExecPc, pathVars, ReadBook, Finish
<1>7. QED
  BY <1>2, <1>3, <1>4, <1>5, <1>6 DEF OrderInv

\* A refused order is not on the book.
LEMMA PlaceRefusedInv ==
    ASSUME Quiet, OrderInv, PlaceRefused, UNCHANGED pathVars
    PROVE  OrderInv'
<1>0. res' \in OrderResult /\ ~res'.success /\ ~res'.acked
  <2>1. PICK r \in Refusals : res' = Failure(FALSE, "other", r)
    BY DEF PlaceRefused, Judge
  <2>2. r \in OrderRejectReason \cup {"NONE"}
    BY DEF Refusals, OrderRejectReason
  <2>3. QED
    BY <2>1, <2>2, UnackedFailure
<1>1. UNCHANGED venueVars
  BY DEF PlaceRefused
<1>2. VenueTypeOK' /\ AtMostOneOpen' /\ Headed' /\ Bounded'
  BY <1>1, VenueKept
<1>3. TypeOK'
  BY <1>2, <1>0 DEF OrderInv, TypeOK, Pc, ExecPc, PlaceRefused, Judge, pathVars
<1>4. OpenHeld'
  BY <1>1, NothingOpen DEF OrderInv, OpenHeld, IsOpen, NoneOpen, venueVars, PlaceRefused, Judge
<1>5. Knows'
  BY <1>1, <1>0 DEF OrderInv, Knows, venueVars, PlaceRefused, Judge
<1>6. Cycle'
  BY DEF OrderInv, Cycle, ExecPc, pathVars, PlaceRefused, Judge
<1>7. QED
  BY <1>2, <1>3, <1>4, <1>5, <1>6 DEF OrderInv

\* Without a fault, an unanswered order is not on the book.
LEMMA PlaceUnansweredInv ==
    ASSUME Quiet, OrderInv, PlaceUnanswered, UNCHANGED pathVars
    PROVE  OrderInv'
<1>0. res' \in OrderResult /\ ~res'.success /\ ~res'.acked
  <2>1. \/ res' = Failure(FALSE, "transient", "NONE")
        \/ res' = Failure(FALSE, "other", "NONE")
        \/ res' = Failure(FALSE, "other", "NOT_ACKNOWLEDGED")
    BY DEF PlaceUnanswered, Judge
  <2>2. "NOT_ACKNOWLEDGED" \in OrderRejectReason
    BY DEF OrderRejectReason
  <2>3. CASE res' = Failure(FALSE, "transient", "NONE")
    BY <2>3, UnackedFailure
  <2>4. CASE res' = Failure(FALSE, "other", "NONE")
    BY <2>4, UnackedFailure
  <2>5. CASE res' = Failure(FALSE, "other", "NOT_ACKNOWLEDGED")
    BY <2>2, <2>5, UnackedFailure
  <2>6. QED
    BY <2>1, <2>3, <2>4, <2>5
<1>1. UNCHANGED venueVars
  BY DEF PlaceUnanswered, Quiet
<1>2. VenueTypeOK' /\ AtMostOneOpen' /\ Headed' /\ Bounded'
  BY <1>1, VenueKept
<1>3. TypeOK'
  BY <1>2, <1>0 DEF OrderInv, TypeOK, Pc, ExecPc, PlaceUnanswered, Judge, pathVars
<1>4. OpenHeld'
  BY <1>1, NothingOpen DEF OrderInv, OpenHeld, IsOpen, NoneOpen, venueVars, PlaceUnanswered, Judge
<1>5. Knows'
  BY <1>1, <1>0 DEF OrderInv, Knows, venueVars, PlaceUnanswered, Judge
<1>6. Cycle'
  BY DEF OrderInv, Cycle, ExecPc, pathVars, PlaceUnanswered, Judge
<1>7. QED
  BY <1>2, <1>3, <1>4, <1>5, <1>6 DEF OrderInv

\* Another poll.
LEMMA PollAgainInv ==
    ASSUME Quiet, OrderInv, PollAgain, UNCHANGED pathVars
    PROVE  OrderInv'
<1>1. UNCHANGED venueVars
  BY DEF PollAgain
<1>2. VenueTypeOK' /\ AtMostOneOpen' /\ Headed' /\ Bounded'
  BY <1>1, VenueKept
<1>3. TypeOK'
  BY <1>2, ExecutorAssumption DEF OrderInv, TypeOK, Pc, ExecPc, PollAgain, pathVars
<1>4. OpenHeld'
  BY <1>1 DEF OrderInv, OpenHeld, IsOpen, NoneOpen, venueVars, PollAgain
<1>5. Knows'
  BY <1>1 DEF OrderInv, Knows, venueVars, PollAgain
<1>6. Cycle'
  BY DEF OrderInv, Cycle, ExecPc, pathVars, PollAgain
<1>7. QED
  BY <1>2, <1>3, <1>4, <1>5, <1>6 DEF OrderInv

\* The order ended; what it filled is what the position moved by.
LEMMA PollTerminalInv ==
    ASSUME Quiet, OrderInv, PollTerminal, UNCHANGED pathVars
    PROVE  OrderInv'
<1>0. /\ res' \in OrderResult
      /\ res'.success => res'.filled = orders[oid].filled
  <2>1. oid \in OrderId /\ orders[oid].filled \in Int
    BY DEF OrderInv, TypeOK, VenueTypeOK, Knows, PollTerminal
  <2>2. res' = Success(orders[oid].filled) \/ res' = Failure(TRUE, "other", "VENUE_REJECTED")
    BY DEF PollTerminal, Judge, _parse_terminal
  <2>3. "VENUE_REJECTED" \in OrderRejectReason
    BY DEF OrderRejectReason
  <2>4. CASE res' = Success(orders[oid].filled)
    BY <2>1, <2>4, SuccessType
  <2>5. CASE res' = Failure(TRUE, "other", "VENUE_REJECTED")
    BY <2>3, <2>5, AckedFailure
  <2>6. QED
    BY <2>2, <2>4, <2>5
<1>1. UNCHANGED venueVars
  BY DEF PollTerminal
<1>2. VenueTypeOK' /\ AtMostOneOpen' /\ Headed' /\ Bounded'
  BY <1>1, VenueKept
<1>3. TypeOK'
  BY <1>2, <1>0 DEF OrderInv, TypeOK, Pc, ExecPc, PollTerminal, Judge, pathVars
<1>4. OpenHeld'
  BY <1>1 DEF OrderInv, OpenHeld, IsOpen, NoneOpen, venueVars, PollTerminal, Judge
<1>5. Knows'
  BY <1>1, <1>0 DEF OrderInv, Knows, venueVars, PollTerminal, Judge
<1>6. Cycle'
  BY DEF OrderInv, Cycle, ExecPc, pathVars, PollTerminal, Judge
<1>7. QED
  BY <1>2, <1>3, <1>4, <1>5, <1>6 DEF OrderInv

\* Without a fault, a refused poll carries a reason that pauses.
LEMMA PollDeniedInv ==
    ASSUME Quiet, OrderInv, PollDenied, UNCHANGED pathVars
    PROVE  OrderInv'
<1>0. res' \in OrderResult /\ ~res'.success /\ res'.acked
      /\ res'.reason \in requires_operator_fix
  <2>1. PICK r \in PollRefusals : res' = Failure(TRUE, "other", r)
    BY DEF PollDenied, Judge
  <2>2. r \in requires_operator_fix /\ r \in OrderRejectReason \cup {"NONE"}
    BY DEF PollRefusals, Quiet, OrderRejectReason, requires_operator_fix
  <2>3. QED
    BY <2>1, <2>2, AckedFailure
<1>1. UNCHANGED venueVars
  BY DEF PollDenied
<1>2. VenueTypeOK' /\ AtMostOneOpen' /\ Headed' /\ Bounded'
  BY <1>1, VenueKept
<1>3. TypeOK'
  BY <1>2, <1>0 DEF OrderInv, TypeOK, Pc, ExecPc, PollDenied, Judge, pathVars
<1>4. OpenHeld'
  BY <1>1, <1>0 DEF OrderInv, OpenHeld, IsOpen, NoneOpen, venueVars, PollDenied, Judge
<1>5. Knows'
  BY <1>1, <1>0 DEF OrderInv, Knows, venueVars, PollDenied, Judge
<1>6. Cycle'
  BY DEF OrderInv, Cycle, ExecPc, pathVars, PollDenied, Judge
<1>7. QED
  BY <1>2, <1>3, <1>4, <1>5, <1>6 DEF OrderInv

\* An unconfirmed order goes to be cancelled.
LEMMA PollUnconfirmedInv ==
    ASSUME Quiet, OrderInv, PollUnconfirmed, UNCHANGED pathVars
    PROVE  OrderInv'
<1>0. /\ res' \in OrderResult /\ ~res'.success /\ res'.acked
      /\ res'.reason = "NONE" /\ res'.msg = "unconfirmed"
  BY AckedFailure DEF PollUnconfirmed, Judge
<1>1. UNCHANGED venueVars
  BY DEF PollUnconfirmed
<1>2. VenueTypeOK' /\ AtMostOneOpen' /\ Headed' /\ Bounded'
  BY <1>1, VenueKept
<1>3. TypeOK'
  BY <1>2, <1>0 DEF OrderInv, TypeOK, Pc, ExecPc, PollUnconfirmed, Judge, pathVars
<1>4. OpenHeld'
  BY <1>1, <1>0 DEF OrderInv, OpenHeld, IsOpen, NoneOpen, venueVars, PollUnconfirmed, Judge
<1>5. Knows'
  BY <1>1, <1>0 DEF OrderInv, Knows, venueVars, PollUnconfirmed, Judge
<1>6. Cycle'
  BY DEF OrderInv, Cycle, ExecPc, pathVars, PollUnconfirmed, Judge
<1>7. QED
  BY <1>2, <1>3, <1>4, <1>5, <1>6 DEF OrderInv

\* A result no retry may follow: what is still open has a reason that pauses.
LEMMA JudgeFinalInv ==
    ASSUME Quiet, OrderInv, JudgeFinal, UNCHANGED pathVars
    PROVE  OrderInv'
<1>1. UNCHANGED venueVars
  BY DEF JudgeFinal
<1>2. VenueTypeOK' /\ AtMostOneOpen' /\ Headed' /\ Bounded'
  BY <1>1, VenueKept
<1>3. TypeOK'
  BY <1>2 DEF OrderInv, TypeOK, Pc, ExecPc, JudgeFinal, Finish, pathVars
<1>4. OpenHeld'
  BY <1>1 DEF OrderInv, OpenHeld, IsOpen, NoneOpen, venueVars, JudgeFinal, Finish, is_retryable, is_unconfirmed, requires_operator_fix
<1>5. Knows'
  BY <1>1 DEF OrderInv, Knows, venueVars, JudgeFinal, Finish
<1>6. Cycle'
  BY DEF OrderInv, Cycle, ExecPc, pathVars, JudgeFinal, Finish
<1>7. QED
  BY <1>2, <1>3, <1>4, <1>5, <1>6 DEF OrderInv

\* The open order is about to be cancelled.
LEMMA JudgeCancelInv ==
    ASSUME Quiet, OrderInv, JudgeCancel, UNCHANGED pathVars
    PROVE  OrderInv'
<1>1. UNCHANGED venueVars
  BY DEF JudgeCancel
<1>2. VenueTypeOK' /\ AtMostOneOpen' /\ Headed' /\ Bounded'
  BY <1>1, VenueKept
<1>3. TypeOK'
  BY <1>2 DEF OrderInv, TypeOK, Pc, ExecPc, JudgeCancel, pathVars
<1>4. OpenHeld'
  BY <1>1 DEF OrderInv, OpenHeld, IsOpen, NoneOpen, venueVars, JudgeCancel
<1>5. Knows'
  BY <1>1 DEF OrderInv, OpenHeld, Knows, venueVars, JudgeCancel, is_retryable
<1>6. Cycle'
  BY DEF OrderInv, Cycle, ExecPc, pathVars, JudgeCancel
<1>7. QED
  BY <1>2, <1>3, <1>4, <1>5, <1>6 DEF OrderInv

\* A retry without a cancel follows only an order that is not on the book.
LEMMA JudgeRetryInv ==
    ASSUME Quiet, OrderInv, JudgeRetry, UNCHANGED pathVars
    PROVE  OrderInv'
<1>0. NoneOpen
  BY DEF OrderInv, OpenHeld, NoneOpen, JudgeRetry, is_retryable, is_unconfirmed, requires_operator_fix
<1>1. UNCHANGED venueVars
  BY DEF JudgeRetry
<1>2. VenueTypeOK' /\ AtMostOneOpen' /\ Headed' /\ Bounded'
  BY <1>1, VenueKept
<1>3. TypeOK'
  BY <1>2, SuccessType, 0 \in Int, ExecutorAssumption DEF OrderInv, TypeOK, Pc, ExecPc, JudgeRetry, NextAttempt, Finish, pathVars
<1>4. OpenHeld'
  BY <1>1, <1>0 DEF OrderInv, OpenHeld, IsOpen, NoneOpen, venueVars, JudgeRetry, NextAttempt, Finish
<1>5. Knows'
  BY <1>1 DEF OrderInv, Knows, venueVars, JudgeRetry, NextAttempt, Finish, is_retryable
<1>6. Cycle'
  BY ExecutorAssumption DEF OrderInv, TypeOK, Cycle, ExecPc, pathVars, JudgeRetry, NextAttempt, Finish
<1>7. QED
  BY <1>2, <1>3, <1>4, <1>5, <1>6 DEF OrderInv

\* A failed cancel ends the cycle with a reason that pauses.
LEMMA CancelFailedInv ==
    ASSUME Quiet, OrderInv, CancelFailed, UNCHANGED pathVars
    PROVE  OrderInv'
<1>0. res' \in OrderResult /\ ~res'.success /\ res'.reason = "CANCEL_FAILED"
  BY DEF OrderInv, TypeOK, Cycle, Knows, OrderResult, OrderRejectReason, CancelFailed, Finish
<1>1. UNCHANGED venueVars
  BY DEF CancelFailed
<1>2. VenueTypeOK' /\ AtMostOneOpen' /\ Headed' /\ Bounded'
  BY <1>1, VenueKept
<1>3. TypeOK'
  BY <1>2, <1>0 DEF OrderInv, TypeOK, Pc, ExecPc, CancelFailed, Finish, pathVars
<1>4. OpenHeld'
  BY <1>1, <1>0 DEF OrderInv, OpenHeld, IsOpen, NoneOpen, venueVars, CancelFailed, Finish, requires_operator_fix
<1>5. Knows'
  BY <1>1, <1>0 DEF OrderInv, Knows, venueVars, CancelFailed, Finish
<1>6. Cycle'
  BY DEF OrderInv, Cycle, ExecPc, pathVars, CancelFailed, Finish
<1>7. QED
  BY <1>2, <1>3, <1>4, <1>5, <1>6 DEF OrderInv

\* The order due goes on an empty book, decided on the position it will move.
LEMMA PlaceAckedInv ==
    ASSUME Quiet, OrderInv, PlaceAcked, UNCHANGED pathVars
    PROVE  OrderInv'
<1>1. PICK o \in OrderId : Book(o, req) /\ oid' = o
  BY DEF PlaceAcked
<1>2. NoneOpen /\ pc = "place" /\ pos = position /\ req = OrderDue(sig, position)
  BY NothingOpen DEF PlaceAcked, OrderInv, Knows
<1>3. /\ orders' \in [OrderId -> [st : OrderStatus, size : Int, filled : Int]]
      /\ orders'[o] = [st |-> "open", size |-> req, filled |-> 0]
      /\ \A x \in OrderId : x # o => orders'[x] = orders[x]
  BY <1>1 DEF OrderInv, TypeOK, VenueTypeOK, Book, OrderStatus
<1>4. \A x \in OrderId : IsOpen(x)' => x = o
  BY <1>2, <1>3 DEF IsOpen, NoneOpen
<1>5. UNCHANGED <<position, pos, req, sig, pathVars>> /\ pc' = "poll" /\ polls' = 0
  BY <1>1 DEF PlaceAcked, Book
<1>6. TypeOK'
  BY <1>1, <1>3, <1>5, ExecutorAssumption
     DEF OrderInv, TypeOK, VenueTypeOK, Pc, ExecPc, PlaceAcked, pathVars
<1>7. AtMostOneOpen' /\ OpenHeld'
  BY <1>1, <1>4, <1>5 DEF AtMostOneOpen, OpenHeld
<1>8. Headed' /\ Bounded'
  <2>1. position \in Int /\ sig \in Signal /\ Bounded
    BY DEF OrderInv, TypeOK, VenueTypeOK
  <2>2. /\ req \in Int
        /\ -(Qty + FlatEps) <= position + req /\ position + req <= Qty + FlatEps
        /\ position > FlatEps => position + req >= 0
        /\ position < -FlatEps => position + req <= 0
    BY <1>2, <2>1, DueBound DEF Bounded
  <2>3. Ends(o)' = position + req
    BY <1>3, <1>5, <2>1, <2>2 DEF Ends
  <2>4. QED
    BY <1>4, <1>5, <2>1, <2>2, <2>3 DEF Headed, Bounded
<1>9. Knows' /\ Cycle'
  BY <1>1, <1>2, <1>3, <1>5 DEF OrderInv, TypeOK, VenueTypeOK, Knows, Cycle, ExecPc, pathVars, PlaceAcked
<1>10. QED
  BY <1>6, <1>7, <1>8, <1>9 DEF OrderInv

\* Once a cancel is accepted nothing is open.
LEMMA CancelAcceptedInv ==
    ASSUME Quiet, OrderInv, CancelAccepted, UNCHANGED pathVars
    PROVE  OrderInv'
<1>1. /\ pc = "cancel" /\ oid \in OrderId /\ VenueCancel(oid) /\ ~res.success
      /\ \A x \in OrderId : IsOpen(x) => x = oid
  BY DEF CancelAccepted, OrderInv, Knows, OpenHeld
<1>2. /\ orders' \in [OrderId -> [st : OrderStatus, size : Int, filled : Int]]
      /\ \A x \in OrderId : ~IsOpen(x)'
  BY <1>1 DEF OrderInv, TypeOK, VenueTypeOK, VenueCancel, OrderStatus, IsOpen
<1>3. UNCHANGED <<position, pos, req, sig, polls, oid, pathVars>>
  BY DEF CancelAccepted, VenueCancel
<1>4. \/ pc' = "report" /\ res' = res /\ att' = att
      \/ pc' = "read" /\ res' = Success(0) /\ att' = att + 1 /\ att < MaxAttempts
  BY DEF CancelAccepted, NextAttempt, Finish
<1>5. TypeOK'
  BY <1>2, <1>3, <1>4, SuccessType, 0 \in Int, ExecutorAssumption
     DEF OrderInv, TypeOK, VenueTypeOK, Pc, ExecPc, pathVars
<1>6. AtMostOneOpen' /\ OpenHeld' /\ Headed'
  BY <1>2 DEF AtMostOneOpen, OpenHeld, Headed
<1>7. Bounded' /\ Knows' /\ Cycle'
  BY <1>1, <1>3, <1>4, ExecutorAssumption
     DEF OrderInv, TypeOK, Bounded, Knows, Cycle, ExecPc, pathVars
<1>8. QED
  BY <1>5, <1>6, <1>7 DEF OrderInv

\* Every call of the executor.
LEMMA ExecInv ==
    ASSUME Quiet, OrderInv, ExecNext, UNCHANGED pathVars
    PROVE  OrderInv'
  BY ReadBookInv, PlaceRefusedInv, PlaceUnansweredInv, PlaceAckedInv,
     PollAgainInv, PollTerminalInv, PollDeniedInv, PollUnconfirmedInv,
     JudgeFinalInv, JudgeCancelInv, JudgeRetryInv, CancelAcceptedInv, CancelFailedInv
     DEF ExecNext

-----------------------------------------------------------------------------
(* The cycle around the executor, the user and the venue.                  *)

\* A cycle starts only when nothing is open: an open order has paused.
LEMMA StartInv ==
    ASSUME Quiet, OrderInv, NEW d \in Drivers, Start(d)
    PROVE  OrderInv'
<1>1. UNCHANGED venueVars /\ NoneOpen /\ d = "tick"
  BY NothingOpen DEF Start, Quiet
<1>2. VenueTypeOK' /\ AtMostOneOpen' /\ Headed' /\ Bounded'
  BY <1>1, VenueKept
<1>3. TypeOK'
  BY <1>1, <1>2, PathAssumption DEF OrderInv, TypeOK, Pc, ExecPc, Start
<1>4. OpenHeld' /\ Knows' /\ Cycle'
  BY <1>1 DEF OrderInv, OpenHeld, IsOpen, NoneOpen, venueVars, Knows, Cycle, ExecPc, Start
<1>5. QED
  BY <1>2, <1>3, <1>4 DEF OrderInv

\* The start of a cycle preserves the invariant.
LEMMA ApplyInv ==
    ASSUME Quiet, OrderInv, Apply
    PROVE  OrderInv'
<1>1. UNCHANGED venueVars /\ NoneOpen
  BY NothingOpen DEF Apply
<1>2. VenueTypeOK' /\ AtMostOneOpen' /\ Headed' /\ Bounded'
  BY <1>1, VenueKept
<1>3. TypeOK'
  BY <1>2, ExecutorAssumption DEF OrderInv, TypeOK, Pc, ExecPc, Apply, pathVars
<1>4. OpenHeld' /\ Knows' /\ Cycle'
  BY <1>1 DEF OrderInv, OpenHeld, IsOpen, NoneOpen, venueVars, Knows, Cycle, ExecPc, Apply, pathVars
<1>5. QED
  BY <1>2, <1>3, <1>4 DEF OrderInv

\* An apply that raises leaves no order behind.
LEMMA ApplyRaisesInv ==
    ASSUME Quiet, OrderInv, ApplyRaises
    PROVE  OrderInv'
<1>1. UNCHANGED venueVars /\ NoneOpen
  BY NothingOpen DEF ApplyRaises
<1>2. VenueTypeOK' /\ AtMostOneOpen' /\ Headed' /\ Bounded'
  BY <1>1, VenueKept
<1>3. res' \in OrderResult /\ ~res'.success
  <2>1. PICK r \in {"NONE", "IP_NOT_ALLOWED", "REGION_RESTRICTED", "KEY_REFUSED"} :
          res' = Failure(FALSE, "other", r)
    BY DEF ApplyRaises, Finish
  <2>2. r \in OrderRejectReason \cup {"NONE"}
    BY DEF OrderRejectReason
  <2>3. QED
    BY <2>1, <2>2, UnackedFailure
<1>4. TypeOK'
  BY <1>2, <1>3 DEF OrderInv, TypeOK, Pc, ExecPc, ApplyRaises, Finish, pathVars
<1>5. OpenHeld' /\ Knows' /\ Cycle'
  BY <1>1, <1>3 DEF OrderInv, OpenHeld, IsOpen, NoneOpen, venueVars, Knows, Cycle, ExecPc,
                    ApplyRaises, Finish, pathVars
<1>6. QED
  BY <1>2, <1>4, <1>5 DEF OrderInv

\* The end of an apply keeps the invariant when nothing is open, or when the
\* deployment is left paused.
LEMMA ReturnedInv ==
    ASSUME OrderInv, NEW next \in {"idle", "apply"}, Returned(next),
           enabled' \in BOOLEAN, tries' \in 0 .. TickAttempts,
           next = "apply" => tries' >= 1,
           NoneOpen \/ (next = "idle" /\ ~enabled')
    PROVE  OrderInv'
<1>1. UNCHANGED venueVars /\ pc' = next
  BY DEF Returned
<1>2. VenueTypeOK' /\ AtMostOneOpen' /\ Headed' /\ Bounded'
  BY <1>1, VenueKept
<1>3. TypeOK'
  BY <1>2, SuccessType, 0 \in Int, ExecutorAssumption
     DEF OrderInv, TypeOK, Pc, ExecPc, Signal, Returned
<1>4. OpenHeld' /\ Knows' /\ Cycle'
  BY <1>1 DEF OrderInv, OpenHeld, IsOpen, NoneOpen, venueVars, Knows, Cycle, ExecPc, Returned
<1>5. QED
  BY <1>2, <1>3, <1>4 DEF OrderInv

\* What is open when a cycle reports has a reason that pauses, so the tick
\* neither advances nor tries again over it.
LEMMA TickInv ==
    ASSUME Quiet, OrderInv,
           TickApplied \/ TickRetries \/ TickPauses \/ TickAbandons \/ ManualDone
    PROVE  OrderInv'
<1>1. enabled \in BOOLEAN /\ tries \in 0 .. TickAttempts /\ 0 \in 0 .. TickAttempts
  BY PathAssumption DEF OrderInv, TypeOK
<1>2. CASE TickApplied
  <2>1. NoneOpen /\ Returned("idle") /\ tries' = 0 /\ enabled' = enabled
    BY <1>2, NothingOpen DEF TickApplied, ToIdle
  <2>2. QED
    BY <1>1, <2>1, ReturnedInv
<1>3. CASE TickRetries
  <2>1. NoneOpen /\ Returned("apply") /\ tries' = tries + 1 /\ enabled' = enabled
    BY <1>3 DEF OrderInv, OpenHeld, NoneOpen, TickRetries, GivesUp
  <2>2. tries' \in 0 .. TickAttempts /\ tries' >= 1
    BY <1>1, <1>3, <2>1, PathAssumption DEF TickRetries, GivesUp
  <2>3. QED
    BY <1>1, <2>1, <2>2, ReturnedInv
<1>4. CASE TickPauses
  <2>1. Returned("idle") /\ tries' = 0 /\ ~enabled' /\ enabled' \in BOOLEAN
    BY <1>4 DEF TickPauses, ToIdle
  <2>2. QED
    BY <1>1, <2>1, ReturnedInv
<1>5. CASE TickAbandons
  BY <1>5 DEF TickAbandons, Quiet
<1>6. CASE ManualDone
  BY <1>6 DEF ManualDone, OrderInv, Cycle
<1>7. QED
  BY <1>2, <1>3, <1>4, <1>5, <1>6

\* The kill switch and the user preserve the invariant.
LEMMA UserInv ==
    ASSUME OrderInv, Disable \/ Reconcile
    PROVE  OrderInv'
<1>1. UNCHANGED venueVars
  BY DEF Disable, Reconcile
<1>2. VenueTypeOK' /\ AtMostOneOpen' /\ Headed' /\ Bounded'
  BY <1>1, VenueKept
<1>3. TypeOK' /\ Knows' /\ Cycle'
  BY <1>1, <1>2 DEF OrderInv, TypeOK, Knows, Cycle, Disable, Reconcile, execVars, venueVars
<1>4. OpenHeld'
  BY <1>1 DEF OrderInv, OpenHeld, IsOpen, NoneOpen, venueVars, Disable, Reconcile, execVars
<1>5. QED
  BY <1>2, <1>3, <1>4 DEF OrderInv

-----------------------------------------------------------------------------
(* The venue's own steps.                                                  *)

\* A fill of the one open order: the end it heads for does not move, and the
\* position goes towards it without passing it.
LEMMA FillMoves ==
    ASSUME OrderInv, NEW o \in OrderId, VenueFill(o)
    PROVE  /\ orders' \in [OrderId -> [st : OrderStatus, size : Int, filled : Int]]
           /\ \A x \in OrderId : x # o => orders'[x] = orders[x]
           /\ IsOpen(o) /\ orders'[o].st \in {"open", "closed"}
           /\ position' \in Int /\ Ends(o) \in Int /\ Ends(o)' = Ends(o)
           /\ orders'[o].st = "closed" => position' = Ends(o)
           /\ orders'[o].filled - orders[o].filled = position' - position
           /\ \/ position < position' /\ position' <= Ends(o)
              \/ Ends(o) <= position' /\ position' < position
<1>1. PICK d \in -PositionLimit .. PositionLimit :
        LET left == orders[o].size - orders[o].filled IN
        /\ \/ 0 < d /\ d <= left
           \/ left <= d /\ d < 0
        /\ position' = position + d
        /\ orders' = [orders EXCEPT ![o] =
                       [st |-> IF d = left THEN "closed" ELSE "open",
                        size |-> @.size, filled |-> @.filled + d]]
  BY DEF VenueFill
<1>2. d \in Int /\ position \in Int /\ orders[o].size \in Int /\ orders[o].filled \in Int
  BY VenueAssumption DEF OrderInv, TypeOK, VenueTypeOK
<1>3. orders \in [OrderId -> [st : OrderStatus, size : Int, filled : Int]] /\ IsOpen(o)
  BY DEF OrderInv, TypeOK, VenueTypeOK, VenueFill
<1>4. /\ orders'[o].st = IF d = orders[o].size - orders[o].filled THEN "closed" ELSE "open"
      /\ orders'[o].size = orders[o].size /\ orders'[o].filled = orders[o].filled + d
      /\ \A x \in OrderId : x # o => orders'[x] = orders[x]
  BY <1>1, <1>3
<1>5. orders' \in [OrderId -> [st : OrderStatus, size : Int, filled : Int]]
  BY <1>1, <1>2, <1>3 DEF OrderStatus
<1>6. QED
  BY <1>1, <1>2, <1>3, <1>4, <1>5 DEF Ends

\* A fill preserves the invariant: the order keeps the end it heads for.
LEMMA VenueFillInv ==
    ASSUME OrderInv, NEW o \in OrderId, VenueFill(o), UNCHANGED <<execVars, pathVars>>
    PROVE  OrderInv'
<1>1. /\ orders' \in [OrderId -> [st : OrderStatus, size : Int, filled : Int]]
      /\ \A x \in OrderId : x # o => orders'[x] = orders[x]
      /\ IsOpen(o) /\ orders'[o].st \in {"open", "closed"}
      /\ position' \in Int /\ Ends(o) \in Int /\ Ends(o)' = Ends(o)
      /\ orders'[o].filled - orders[o].filled = position' - position
      /\ \/ position < position' /\ position' <= Ends(o)
         \/ Ends(o) <= position' /\ position' < position
  BY FillMoves
<1>2. \A x \in OrderId : IsOpen(x)' => x = o
  BY <1>1 DEF OrderInv, AtMostOneOpen, IsOpen
<1>3. TypeOK' /\ Cycle'
  BY <1>1 DEF OrderInv, TypeOK, VenueTypeOK, Cycle, execVars, pathVars
<1>4. AtMostOneOpen' /\ OpenHeld'
  BY <1>1, <1>2 DEF OrderInv, AtMostOneOpen, OpenHeld, execVars, pathVars
<1>5. Headed' /\ Bounded'
  <2>1. position \in Int /\ Qty \in Nat /\ FlatEps \in Nat
    BY QtyAssumption DEF OrderInv, TypeOK, VenueTypeOK
  <2>2. /\ -(Qty + FlatEps) <= Ends(o) /\ Ends(o) <= Qty + FlatEps
        /\ position > FlatEps => Ends(o) >= 0
        /\ position < -FlatEps => Ends(o) <= 0
    BY <1>1 DEF OrderInv, Headed
  <2>3. Bounded'
    BY <1>1, <2>1, <2>2 DEF OrderInv, Bounded
  <2>4. /\ position' > FlatEps => Ends(o) >= 0
        /\ position' < -FlatEps => Ends(o) <= 0
    BY <1>1, <2>1, <2>2
  <2>5. QED
    BY <1>1, <1>2, <2>2, <2>3, <2>4 DEF Headed
<1>6. Knows'
  <2>1. ~(pc = "place") /\ ~(pc \in {"judge", "report"} /\ res.success)
    BY <1>1, NothingOpen DEF NoneOpen
  <2>2. pc = "poll" => oid = o
    BY <1>1 DEF OrderInv, OpenHeld
  <2>3. ASSUME pc = "poll" PROVE position' = pos + orders'[o].filled
    <3>1. position = pos + orders[o].filled
      BY <2>2, <2>3 DEF OrderInv, Knows
    <3>2. position \in Int /\ pos \in Int /\ orders[o].filled \in Int /\ orders'[o].filled \in Int
      BY <1>1 DEF OrderInv, TypeOK, VenueTypeOK
    <3>3. QED
      BY <1>1, <3>1, <3>2
  <2>4. QED
    BY <2>1, <2>2, <2>3 DEF OrderInv, Knows, execVars
<1>7. QED
  BY <1>3, <1>4, <1>5, <1>6 DEF OrderInv

\* An order that ends or is forgotten is no longer open; the others and the
\* fills the cycle asks about stay as they are.
LEMMA VenueEndInv ==
    ASSUME OrderInv, NEW o \in OrderId, VenueEnd(o) \/ (o # oid /\ VenueForget(o)),
           UNCHANGED <<execVars, pathVars>>
    PROVE  OrderInv'
<1>1. /\ orders' \in [OrderId -> [st : OrderStatus, size : Int, filled : Int]]
      /\ \A x \in OrderId : x # o => orders'[x] = orders[x]
      /\ orders'[o].st # "open"
      /\ oid = o => orders'[o].filled = orders[o].filled
      /\ position' = position
  BY DEF OrderInv, TypeOK, VenueTypeOK, VenueEnd, VenueForget, NoOrder, OrderStatus
<1>2. \A x \in OrderId : IsOpen(x)' => x # o /\ IsOpen(x) /\ Ends(x)' = Ends(x)
  BY <1>1 DEF IsOpen, Ends
<1>3. TypeOK' /\ Cycle' /\ Bounded'
  BY <1>1 DEF OrderInv, TypeOK, VenueTypeOK, Cycle, Bounded, execVars, pathVars
<1>4. AtMostOneOpen' /\ OpenHeld'
  BY <1>2 DEF OrderInv, AtMostOneOpen, OpenHeld, execVars, pathVars
<1>5. Headed'
  BY <1>1, <1>2 DEF OrderInv, Headed
<1>6. Knows'
  <2>1. oid \in OrderId => orders'[oid].filled = orders[oid].filled
    BY <1>1
  <2>2. QED
    BY <1>1, <2>1 DEF OrderInv, Knows, execVars
<1>7. QED
  BY <1>3, <1>4, <1>5, <1>6 DEF OrderInv

\* Every step preserves the invariant.
LEMMA NextInv ==
    ASSUME Quiet, OrderInv, [Next]_vars
    PROVE  OrderInv'
<1>1. CASE UNCHANGED vars
  BY <1>1 DEF vars, venueVars, execVars, pathVars, OrderInv, TypeOK, VenueTypeOK, AtMostOneOpen,
              OpenHeld, Headed, Bounded, Knows, Cycle, IsOpen, Ends
<1>2. CASE CycleStep
  BY <1>2, ExecInv, ApplyInv, ApplyRaisesInv, TickInv DEF CycleStep
<1>3. CASE \E d \in Drivers : Start(d)
  BY <1>3, StartInv
<1>4. CASE Disable \/ Reconcile
  BY <1>4, UserInv
<1>5. CASE VenueMoves
  BY <1>5, VenueFillInv, VenueEndInv DEF VenueMoves
<1>6. QED
  BY <1>1, <1>2, <1>3, <1>4, <1>5 DEF Next

-----------------------------------------------------------------------------
(* The theorems.                                                           *)

\* The inductive invariant: whatever is open is held by the cycle that sent
\* it or has paused the deployment.
THEOREM Invariance ==
    ASSUME Quiet
    PROVE  Spec => []OrderInv
<1>1. Init => OrderInv
  BY InitInv
<1>2. OrderInv /\ [Next]_vars => OrderInv'
  BY NextInv
<1>3. QED
  BY <1>1, <1>2, PTL DEF Spec

\* Every variable keeps its type; att stays within order_max_attempts and
\* tries within tick_max_attempts.
THEOREM TypeCorrect ==
    ASSUME Quiet
    PROVE  Spec => []TypeOK
<1>1. OrderInv => TypeOK
  BY DEF OrderInv
<1>2. QED
  BY <1>1, Invariance, PTL

\* Never two orders of one deployment on the book, for any number of attempts,
\* polls and tick retries.
THEOREM OneOrderOnTheBook ==
    ASSUME Quiet
    PROVE  Spec => []AtMostOneOpen
<1>1. OrderInv => AtMostOneOpen
  BY DEF OrderInv
<1>2. QED
  BY <1>1, Invariance, PTL

\* The position never exceeds the deployment's qty plus the flat tolerance,
\* whatever the sequence of signals, partial fills, cancels and retries.
THEOREM AppliesConverge ==
    ASSUME Quiet
    PROVE  Spec => []ExposureBounded
<1>1. OrderInv => ExposureBounded
  BY QtyAssumption DEF OrderInv, TypeOK, VenueTypeOK, Bounded, ExposureBounded, Abs
<1>2. QED
  BY <1>1, Invariance, PTL

\* A cycle that reports success has read and reported the position the venue
\* holds.
THEOREM ReportsAreTrue ==
    ASSUME Quiet
    PROVE  Spec => []ReportedPositionTrue
<1>1. OrderInv => ReportedPositionTrue
  BY DEF OrderInv, Knows, ReportedPositionTrue
<1>2. QED
  BY <1>1, Invariance, PTL

\* Only a fill of the open order moves the position.
LEMMA PositionMoves ==
    ASSUME [Next]_vars, position' # position
    PROVE  \E o \in OrderId : VenueFill(o)
<1>1. UNCHANGED position \/ VenueMoves
  BY DEF vars, venueVars, Next, CycleStep, ExecNext, ReadBook, PlaceRefused, PlaceUnanswered,
         PlaceAcked, PollAgain, PollTerminal, PollDenied, PollUnconfirmed, JudgeFinal,
         JudgeCancel, JudgeRetry, CancelAccepted, CancelFailed, Book, VenueCancel,
         Apply, ApplyRaises, TickApplied, TickRetries, TickPauses, TickAbandons, ManualDone,
         ToIdle, Returned, Start, Disable, Reconcile
<1>2. QED
  BY <1>1 DEF VenueMoves, VenueEnd, VenueForget

\* No step carries a real position through zero.
THEOREM FlattenIsSafe ==
    ASSUME Quiet
    PROVE  Spec => FlattenNeverFlips
<1>1. ASSUME OrderInv, [Next]_vars
      PROVE  [ /\ position > FlatEps => position' >= 0
               /\ position < -FlatEps => position' <= 0 ]_vars
  <2>1. position \in Int /\ FlatEps \in Nat
    BY <1>1, QtyAssumption DEF OrderInv, TypeOK, VenueTypeOK
  <2>2. CASE position' = position
    BY <2>1, <2>2
  <2>3. CASE position' # position
    <3>1. PICK o \in OrderId : VenueFill(o)
      BY <1>1, <2>3, PositionMoves
    <3>2. /\ IsOpen(o) /\ position' \in Int /\ Ends(o) \in Int
          /\ \/ position < position' /\ position' <= Ends(o)
             \/ Ends(o) <= position' /\ position' < position
      BY <1>1, <3>1, FillMoves
    <3>3. /\ position > FlatEps => Ends(o) >= 0
          /\ position < -FlatEps => Ends(o) <= 0
      BY <1>1, <3>2 DEF OrderInv, Headed
    <3>4. QED
      BY <2>1, <3>2, <3>3
  <2>4. QED
    BY <2>2, <2>3
<1>2. QED
  BY <1>1, Invariance, PTL DEF Spec, FlattenNeverFlips

-----------------------------------------------------------------------------
(* The refinement of TargetPosition.                                       *)

\* Without an open order nothing is left to fill.
LEMMA LiveNone ==
    ASSUME NEW book, \A x \in OrderId : book[x].st # "open"
    PROVE  LiveLeft(book) = 0
  BY DEF LiveLeft

\* With one open order what is left is its own remainder.
LEMMA LiveOne ==
    ASSUME NEW book, NEW o \in OrderId, book[o].st = "open",
           \A x \in OrderId : book[x].st = "open" => x = o
    PROVE  LiveLeft(book) = book[o].size - book[o].filled
<1>1. {x \in OrderId : book[x].st = "open"} = {o}
  OBVIOUS
<1>2. (CHOOSE x \in {o} : TRUE) = o
  OBVIOUS
<1>3. QED
  BY <1>1, <1>2 DEF LiveLeft

\* The two modules decide on the same order.
LEMMA SameDue ==
    ASSUME NEW s, NEW p
    PROVE  Target!OrderDue(s, p) = OrderDue(s, p)
  BY DEF OrderDue, Target!OrderDue, order_for, Target!order_for,
         intended_action, Target!intended_action, Abs, Target!Abs

\* What a step can do to the venue.
LEMMA VenueSteps ==
    ASSUME Quiet, [Next]_vars
    PROVE  \/ UNCHANGED venueVars
           \/ PlaceAcked \/ CancelAccepted
           \/ \E o \in OrderId : VenueFill(o) \/ VenueEnd(o) \/ (o # oid /\ VenueForget(o))
  BY DEF Quiet, vars, venueVars, Next, CycleStep, ExecNext, ReadBook, PlaceRefused, PlaceUnanswered,
         PollAgain, PollTerminal, PollDenied, PollUnconfirmed, JudgeFinal,
         JudgeCancel, JudgeRetry, CancelFailed,
         Apply, ApplyRaises, TickApplied, TickRetries, TickPauses, TickAbandons, ManualDone,
         ToIdle, Returned, Start, Disable, Reconcile, VenueMoves

\* The book after a step that leaves nothing open.
LEMMA DropStep ==
    ASSUME NoneOpen', position' = position
    PROVE  [Target!Next]_Target!vars
<1>1. LiveLeft(orders') = 0
  BY LiveNone DEF NoneOpen, IsOpen
<1>2. LiveLeft(orders)' = LiveLeft(orders')
  BY DEF LiveLeft
<1>3. QED
  BY <1>1, <1>2 DEF Target!Next, Target!Drop

\* An acknowledged order is sent with nothing live, and is the one due.
LEMMA SendStep ==
    ASSUME Quiet, OrderInv, PlaceAcked
    PROVE  Target!Send
<1>1. PICK o \in OrderId : Book(o, req)
  BY DEF PlaceAcked
<1>2. /\ NoneOpen /\ req = OrderDue(sig, position) /\ sig \in Signal
      /\ position \in Int /\ Bounded /\ position' = position
  BY <1>1, NothingOpen DEF PlaceAcked, OrderInv, Knows, TypeOK, VenueTypeOK, Book
<1>3. LiveLeft(orders) = 0
  BY <1>2, LiveNone DEF NoneOpen, IsOpen
<1>4. /\ orders'[o] = [st |-> "open", size |-> req, filled |-> 0]
      /\ \A x \in OrderId : orders'[x].st = "open" => x = o
  BY <1>1, <1>2 DEF OrderInv, TypeOK, VenueTypeOK, Book, NoneOpen, IsOpen
<1>5. LiveLeft(orders') = req - 0
  BY <1>4, LiveOne
<1>6. req \in Int
  BY <1>2, DueBound DEF Bounded
<1>7. LiveLeft(orders)' = Target!OrderDue(sig, position)
  <2>1. LiveLeft(orders)' = LiveLeft(orders')
    BY DEF LiveLeft
  <2>2. QED
    BY <1>2, <1>5, <1>6, <2>1, SameDue
<1>8. QED
  BY <1>2, <1>3, <1>7 DEF Target!Send, Target!Signal, Signal

\* A fill trades a part of what is live.
LEMMA TradeStep ==
    ASSUME OrderInv, NEW o \in OrderId, VenueFill(o)
    PROVE  Target!Trade
<1>1. /\ orders' \in [OrderId -> [st : OrderStatus, size : Int, filled : Int]]
      /\ \A x \in OrderId : x # o => orders'[x] = orders[x]
      /\ IsOpen(o) /\ orders'[o].st \in {"open", "closed"}
      /\ position' \in Int /\ Ends(o) \in Int /\ Ends(o)' = Ends(o)
      /\ orders'[o].st = "closed" => position' = Ends(o)
      /\ \/ position < position' /\ position' <= Ends(o)
         \/ Ends(o) <= position' /\ position' < position
  BY FillMoves
<1>2. /\ \A x \in OrderId : orders[x].st = "open" => x = o
      /\ \A x \in OrderId : orders'[x].st = "open" => x = o
      /\ position \in Int
      /\ orders[o].size \in Int /\ orders[o].filled \in Int
      /\ orders'[o].size \in Int /\ orders'[o].filled \in Int
  BY <1>1 DEF OrderInv, AtMostOneOpen, IsOpen, TypeOK, VenueTypeOK
<1>3. position + LiveLeft(orders) = Ends(o) /\ LiveLeft(orders) \in Int
  BY <1>1, <1>2, LiveOne DEF IsOpen, Ends
<1>4. position' + LiveLeft(orders') = Ends(o) /\ LiveLeft(orders') \in Int
  <2>1. CASE orders'[o].st = "open"
    <3>1. LiveLeft(orders') = orders'[o].size - orders'[o].filled
      BY <1>2, <2>1, LiveOne
    <3>2. QED
      BY <1>1, <1>2, <3>1 DEF Ends
  <2>2. CASE orders'[o].st = "closed"
    <3>1. LiveLeft(orders') = 0
      BY <1>2, <2>2, LiveNone
    <3>2. QED
      BY <1>1, <2>2, <3>1
  <2>3. QED
    BY <1>1, <2>1, <2>2
<1>5. LiveLeft(orders)' = LiveLeft(orders')
  BY DEF LiveLeft
<1>6. QED
  BY <1>1, <1>2, <1>3, <1>4, <1>5 DEF Target!Trade

\* A step of the order path is a step of TargetPosition or leaves its
\* variables alone.
LEMMA TargetStep ==
    ASSUME Quiet, OrderInv, [Next]_vars
    PROVE  [Target!Next]_Target!vars
<1>1. CASE UNCHANGED venueVars
  BY <1>1 DEF venueVars, Target!vars, LiveLeft
<1>2. CASE PlaceAcked
  BY <1>2, SendStep DEF Target!Next
<1>3. CASE CancelAccepted
  <2>1. oid \in OrderId /\ \A x \in OrderId : IsOpen(x) => x = oid
    BY <1>3 DEF CancelAccepted, OrderInv, Knows, OpenHeld
  <2>2. NoneOpen' /\ position' = position
    BY <1>3, <2>1 DEF CancelAccepted, VenueCancel, OrderInv, TypeOK, VenueTypeOK, NoneOpen, IsOpen
  <2>3. QED
    BY <2>2, DropStep
<1>4. ASSUME NEW o \in OrderId, VenueFill(o) PROVE Target!Next
  BY <1>4, TradeStep DEF Target!Next
<1>5. ASSUME NEW o \in OrderId, VenueEnd(o) PROVE [Target!Next]_Target!vars
  <2>1. NoneOpen' /\ position' = position
    BY <1>5 DEF VenueEnd, OrderInv, AtMostOneOpen, TypeOK, VenueTypeOK, NoneOpen, IsOpen
  <2>2. QED
    BY <2>1, DropStep
<1>6. ASSUME NEW o \in OrderId, VenueForget(o) PROVE [Target!Next]_Target!vars
  <2>1. /\ position' = position
        /\ \A x \in OrderId : /\ orders'[x].st = "open" <=> orders[x].st = "open"
                              /\ orders[x].st = "open" => orders'[x] = orders[x]
    BY <1>6 DEF VenueForget, NoOrder, OrderInv, TypeOK, VenueTypeOK
  <2>2. CASE NoneOpen
    <3>1. NoneOpen'
      BY <2>1, <2>2 DEF NoneOpen, IsOpen
    <3>2. QED
      BY <2>1, <3>1, DropStep
  <2>3. CASE ~NoneOpen
    <3>1. PICK x \in OrderId : IsOpen(x)
      BY <2>3 DEF NoneOpen
    <3>2. /\ \A y \in OrderId : orders[y].st = "open" => y = x
          /\ \A y \in OrderId : orders'[y].st = "open" => y = x
          /\ orders[x].st = "open" /\ orders'[x] = orders[x]
      BY <2>1, <3>1 DEF OrderInv, AtMostOneOpen, IsOpen
    <3>3. LiveLeft(orders') = LiveLeft(orders)
      BY <3>2, LiveOne
    <3>4. LiveLeft(orders)' = LiveLeft(orders')
      BY DEF LiveLeft
    <3>5. QED
      BY <2>1, <3>3, <3>4 DEF Target!vars
  <2>4. QED
    BY <2>2, <2>3
<1>7. QED
  BY <1>1, <1>2, <1>3, <1>4, <1>5, <1>6, VenueSteps

\* The order path implements TargetPosition: one order at a time, each the one
\* due at the position of the moment it is sent.
THEOREM Refinement ==
    ASSUME Quiet
    PROVE  Spec => ImplementsTarget
<1>1. Init => Target!Init
  <2>1. Init => LiveLeft(orders) = 0 /\ position = 0
    BY LiveNone DEF Init, VenueInit, NoOrder
  <2>2. QED
    BY <2>1 DEF Target!Init
<1>2. OrderInv /\ [Next]_vars => [Target!Next]_Target!vars
  BY TargetStep
<1>3. QED
  BY <1>1, <1>2, Invariance, PTL DEF Spec, ImplementsTarget, Target!Spec
=============================================================================
