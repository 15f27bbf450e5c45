------------------------- MODULE MCLiveRecalibration -------------------------
(* Two workloads, so that two files can number them differently. *)
EXTENDS LiveRecalibration

MCWorkloadOf == [w \in Windows |-> IF w % 2 = 1 THEN "web" ELSE "db"]
===============================================================================
