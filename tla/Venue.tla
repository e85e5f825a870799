-------------------------------- MODULE Venue --------------------------------
(***************************************************************************)
(* The exchange, as the ccxt adapter uses it: the market orders of one     *)
(* deployment and the signed position they made.  An order fills in parts  *)
(* or at once, or the venue ends it; nothing says when.  External.         *)
(***************************************************************************)
EXTENDS Integers

CONSTANTS
    OrderId,        \* ids the venue hands out; an ended order's may return
    PositionLimit   \* bound: the venue fills no order past this position

ASSUME VenueAssumption == PositionLimit \in Nat

VARIABLES
    orders,         \* per id: status, signed size and signed filled part
    position        \* the signed position

venueVars == <<orders, position>>

OrderStatus == {"none", "open", "closed", "canceled", "rejected"}

NoOrder == [st |-> "none", size |-> 0, filled |-> 0]

VenueTypeOK ==
    /\ orders \in [OrderId -> [st : OrderStatus, size : Int, filled : Int]]
    /\ position \in Int

VenueInit == orders = [o \in OrderId |-> NoOrder] /\ position = 0

IsOpen(o) == orders[o].st = "open"

NoneOpen == \A o \in OrderId : ~IsOpen(o)

\* create_order puts an order on the book.
Book(o, size) ==
    /\ orders[o].st = "none"
    /\ orders' = [orders EXCEPT ![o] = [st |-> "open", size |-> size, filled |-> 0]]
    /\ UNCHANGED position

\* A part d of what is left of an order trades.
VenueFill(o) ==
    /\ IsOpen(o)
    /\ \E d \in -PositionLimit .. PositionLimit :
         LET left == orders[o].size - orders[o].filled IN
         /\ \/ 0 < d /\ d <= left
            \/ left <= d /\ d < 0
         /\ -PositionLimit <= position + d /\ position + d <= PositionLimit
         /\ position' = position + d
         /\ orders' = [orders EXCEPT ![o] =
                        [st |-> IF d = left THEN "closed" ELSE "open",
                         size |-> @.size, filled |-> @.filled + d]]

\* The venue cancels or expires what is left, or rejects an unfilled order.
VenueEnd(o) ==
    /\ IsOpen(o)
    /\ \/ orders' = [orders EXCEPT ![o].st = "canceled"]
       \/ orders[o].filled = 0 /\ orders' = [orders EXCEPT ![o].st = "rejected"]
    /\ UNCHANGED position

\* cancel_order was accepted: what was left of the order is gone.
VenueCancel(o) ==
    /\ orders' = IF IsOpen(o) THEN [orders EXCEPT ![o].st = "canceled"] ELSE orders
    /\ UNCHANGED position

\* Nobody asks for an ended order any more, and its record is dropped.
VenueForget(o) ==
    /\ orders[o].st \in {"closed", "canceled", "rejected"}
    /\ orders' = [orders EXCEPT ![o] = NoOrder]
    /\ UNCHANGED position
=============================================================================
