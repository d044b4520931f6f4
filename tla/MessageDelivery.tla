---------------------------- MODULE MessageDelivery ----------------------------
(***************************************************************************)
(* What the ports of apps/messaging promise, whatever the backend: every   *)
(* subscription has its own copy of a message, a copy that is out with a   *)
(* consumer may come back, and it is gone only once its message has been   *)
(* handled.                                                                *)
(***************************************************************************)
EXTENDS Naturals

CONSTANT Copies  \* what a broker keeps: message and subscription

VARIABLES
    place,   \* place[k]: where copy k is
    handled  \* copies an acknowledgement may settle

Places == {"none", "ready", "out", "done"}

Init == place = [k \in Copies |-> "none"] /\ handled = {}

\* The moves of one copy.
Moves(k, from, to) ==
    \/ from = to
    \/ from = "none" /\ to = "ready"               \* published, or found in the stream
    \/ from = "ready" /\ to = "out"                \* pulled
    \/ from = "out" /\ to = "ready"                \* redelivered
    \/ from = "out" /\ to = "done" /\ k \in handled \* acknowledged

Next ==
    /\ place' \in [Copies -> Places]
    /\ \A k \in Copies : Moves(k, place[k], place'[k])
    /\ handled' \subseteq Copies

Spec == Init /\ [][Next]_<<place, handled>>
=============================================================================
