---------------------------- MODULE MCMeasurement ----------------------------
(***************************************************************************)
(* Instances of Measurement for TLC.                                       *)
(***************************************************************************)
EXTENDS Measurement

Two(judge, first, second, fresh) ==
    [judge |-> judge,
     replays |-> <<[work |-> first, fresh |-> TRUE], [work |-> second, fresh |-> fresh]>>]

\* A regression that reproduces and one that does not, a page that costs more the
\* larger it is, a patch that restores the work.
Some == {Two("differential", 0, 1, TRUE), Two("differential", 1, 0, TRUE),
         Two("scaling", 0, 1, FALSE), Two("validation", 1, 0, TRUE)}

\* A patch that does three times the work.
Worse == {Two("validation", 1, 3, TRUE)}
=============================================================================
