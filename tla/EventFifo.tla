------------------------------ MODULE EventFifo ------------------------------
(***************************************************************************)
(* What the event buffer of the client library promises: the events that   *)
(* arrive are kept in order, up to its capacity; one that arrives when it  *)
(* is full is refused, and the others are kept.                            *)
(***************************************************************************)
EXTENDS Integers, Sequences

CONSTANTS Event, Capacity

VARIABLES events, full
vars == <<events, full>>

Init == events = <<>> /\ full = FALSE

Put(e) == Len(events) < Capacity /\ events' = Append(events, e) /\ UNCHANGED full

Refuse == Len(events) = Capacity /\ full' = TRUE /\ UNCHANGED events

Get == events # <<>> /\ events' = Tail(events) /\ UNCHANGED full

\* The program clears the error and goes on.
Forget == full /\ full' = FALSE /\ UNCHANGED events

Next == (\E e \in Event : Put(e)) \/ Refuse \/ Get \/ Forget

Spec == Init /\ [][Next]_vars
=============================================================================
