------------------------------ MODULE MCSandbox ------------------------------
(***************************************************************************)
(* Instances of Sandbox for TLC.                                           *)
(***************************************************************************)
EXTENDS Sandbox, TLC

CONSTANTS u1, u2, bad, fix

\* `aftermerge test gate` beside a validation: the bad commit is in the use of both.

SomeUses == (u1 :> {bad}) @@ (u2 :> {bad, fix})
=============================================================================
