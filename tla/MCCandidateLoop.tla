--------------------------- MODULE MCCandidateLoop ---------------------------
(***************************************************************************)
(* Instances of CandidateLoop for TLC. The first incident went from one    *)
(* operation to four and has no page size; the second from one to two on a *)
(* route with a page size.                                                 *)
(***************************************************************************)
EXTENDS CandidateLoop, TLC

Evidences == <<[good |-> 2, bad |-> 8, sized |-> FALSE], [good |-> 2, bad |-> 4, sized |-> TRUE]>>

\* A test that discriminates, and one that breaks where it should fail.
Tests == {[bad |-> 1, good |-> 0], [bad |-> 2, good |-> 0]}

Fixed == [strays |-> FALSE, work |-> 2, same |-> TRUE]

\* A fix, a patch that fixes nothing, and one that answers something else.
Fixes == {Fixed, [Fixed EXCEPT !.work = 8], [Fixed EXCEPT !.same = FALSE]}
=============================================================================
