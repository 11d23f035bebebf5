-------------------------- MODULE MCControlPlane --------------------------
(* Small instances of ControlPlane for TLC. *)
EXTENDS ControlPlane, TLC

CONSTANTS r1, alice, bob, t1, t2, t3, nobody

OperatorSymmetry == Permutations(Operators) \cup Permutations(Tasks)
===========================================================================
