---------------------------- MODULE MCTeleopPath ----------------------------
(* A small instance of TeleopPath for TLC. *)
EXTENDS TeleopPath

CONSTANTS none
=============================================================================
