----------------------------- MODULE MCPmemPool -----------------------------
(* Two chunks per pool and room for three pools: every boundary of the     *)
(* ring (dummy first, dummy last, dummy alone) is reached several times.   *)
EXTENDS PmemPool
=============================================================================
