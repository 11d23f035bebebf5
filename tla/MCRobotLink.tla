---------------------------- MODULE MCRobotLink ----------------------------
(* Small instances of RobotLink for TLC. *)
EXTENDS RobotLink

CONSTANTS cmd, offer
=============================================================================
