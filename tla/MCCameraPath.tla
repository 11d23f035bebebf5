--------------------------- MODULE MCCameraPath ---------------------------
(* A small instance of CameraPath for TLC. *)
EXTENDS CameraPath

CONSTANTS q1, q2, a, b, none, idle, working, failed, unanswered, abandoned
===========================================================================
