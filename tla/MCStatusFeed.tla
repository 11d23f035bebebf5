---------------------------- MODULE MCStatusFeed ----------------------------
(* A small instance of StatusFeed for TLC. *)
EXTENDS StatusFeed

CONSTANTS h1, h2, idle
=============================================================================
