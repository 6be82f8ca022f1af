------------------------------ MODULE MCTTLCache ------------------------------
(***************************************************************************)
(* Instances of TTLCache for TLC: fewer entries than keys, so that storing *)
(* evicts, and a clock that runs past the expiry of what was stored first. *)
(***************************************************************************)
EXTENDS TTLCache, TLC

Interchangeable == Permutations(Callers) \cup Permutations(Keys)
=============================================================================
