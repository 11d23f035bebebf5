---------------------------- MODULE MCRosBridge ----------------------------
(* A small instance of RosBridge for TLC. *)
EXTENDS RosBridge

CONSTANTS none

QueueDepths == [t \in Sensors \cup {"camera"} |-> IF t = "odom" THEN 2 ELSE 1]
=============================================================================
