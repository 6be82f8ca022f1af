------------------------------ MODULE AtLeastOnce ------------------------------
(***************************************************************************)
(* What the group of streaming/consumer.py promises about its topic, with  *)
(* no processes, windows or restarts: the messages are handled in their    *)
(* order, the one at the group's offset as often as it takes, and the      *)
(* offset passes a message only once it was handled.                       *)
(***************************************************************************)
EXTENDS Naturals

CONSTANTS FromBeginning, None

VARIABLES
    size,     \* messages of the topic
    handled,  \* offsets of the messages that were handled
    offset    \* the next message to handle, None before the first was acknowledged

vars == <<size, handled, offset>>

Untouched == size = 0 /\ handled = {} /\ offset = None

Send ==
    /\ size' = size + 1
    /\ UNCHANGED <<handled, offset>>

\* A group without an offset begins with the first message, or wherever it joins.
Handle ==
    /\ \E n \in 0..(size - 1) :
          /\ IF offset # None THEN n = offset ELSE FromBeginning => n = 0
          /\ handled' = handled \cup {n}
    /\ UNCHANGED <<size, offset>>

Acknowledge ==
    /\ \E n \in handled :
          /\ offset # None => n = offset
          /\ offset' = n + 1
    /\ UNCHANGED <<size, handled>>

Spec == Untouched /\ [][Send \/ Handle \/ Acknowledge]_vars
=============================================================================
