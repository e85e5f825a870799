---------------------------- MODULE TargetPosition ----------------------------
(***************************************************************************)
(* What the order path promises of one deployment's account: one order at  *)
(* a time, each decided on the position as it is when the order is sent.   *)
(***************************************************************************)
EXTENDS OrderPolicy

VARIABLES
    position,     \* the signed position at the venue
    live          \* signed part of the one order that may still trade

vars == <<position, live>>

Init == position = 0 /\ live = 0

\* No order is live, and the new one is the one due at this very position.
Send ==
    /\ live = 0
    /\ \E s \in Signal : live' = OrderDue(s, position)
    /\ UNCHANGED position

\* Some of the live order trades.
Trade ==
    /\ position' + live' = position + live
    /\ \/ 0 <= live' /\ live' < live
       \/ live < live' /\ live' <= 0

\* What is left of the live order is gone.
Drop == live' = 0 /\ UNCHANGED position

Next == Send \/ Trade \/ Drop

Spec == Init /\ [][Next]_vars
=============================================================================
