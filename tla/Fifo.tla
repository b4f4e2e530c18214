-------------------------------- MODULE Fifo --------------------------------
(* What the message queues (queue.c) promise their users: a bounded queue. *)
(* A message offered to a full queue is dropped; every other message is    *)
(* handled once, in the order of arrival, behind those pushed in front.    *)
EXTENDS Sequences, Naturals

CONSTANTS Messages, Capacity

VARIABLES
    items,     \* the messages waiting, the next one first
    handled    \* the message the reader took last

vars == <<items, handled>>

Init == items = <<>> /\ handled \in Messages

Append1(m)  == Len(items) < Capacity /\ items' = Append(items, m)
Prepend1(m) == Len(items) < Capacity /\ items' = <<m>> \o items

Take == items # <<>> /\ handled' = Head(items) /\ items' = Tail(items)

Next ==
    \/ \E m \in Messages : (Append1(m) \/ Prepend1(m)) /\ UNCHANGED handled
    \/ Take

(* The reader polls the queue: what waits is taken.                        *)
Spec == Init /\ [][Next]_vars /\ WF_vars(Take)
=============================================================================
