--------------------------- MODULE MCRollupRefresh ---------------------------
(***************************************************************************)
(* Instances of RollupRefresh for TLC.                                     *)
(***************************************************************************)
EXTENDS RollupRefresh

BothTables == <<"otel_route_rollup", "otel_db_work_rollup">>
OneTable == <<"otel_route_rollup">>
=============================================================================
