-------------------------- MODULE MCVideoStreamer --------------------------
(* Small instances of VideoStreamer for TLC. *)
EXTENDS VideoStreamer

CONSTANTS a, b, x, y, z, ros1, none
=============================================================================
