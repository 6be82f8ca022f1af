--------------------------- MODULE MCStreamConsumer ---------------------------
(***************************************************************************)
(* Instances of StreamConsumer for TLC: the version `v2` does three times  *)
(* the database work of `v1`.                                              *)
(***************************************************************************)
EXTENDS StreamConsumer, TLC

CONSTANTS v1, v2

Two == {v1, v2}
Work == (v1 :> 2) @@ (v2 :> 6)
=============================================================================
