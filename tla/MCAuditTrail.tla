----------------------------- MODULE MCAuditTrail -----------------------------
(***************************************************************************)
(* Instances of AuditTrail for TLC. Three commits: `a` does 2 operations   *)
(* per request, `b` 6 of them (the regression), `c` 2 but slowly and with  *)
(* errors (a regression that is not one of work).                          *)
(***************************************************************************)
EXTENDS AuditTrail, TLC

CONSTANTS a, b, c

AB == {a, b}
ABC == {a, b, c}
ABWork == (a :> 2) @@ (b :> 6)
ABCWork == (a :> 2) @@ (b :> 6) @@ (c :> 2)

\* What a query finds: everything, or nothing any more (two commits); with three,
\* both versions that are compared, or one of them alone.
ABViews == {{}, {a, b}}
ABCViews == {{a, b}, {a, c}, {a}, {c}}

Interchangeable == Permutations(Procs) \cup Permutations(HypIds)
=============================================================================
