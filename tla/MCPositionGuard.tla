-------------------------- MODULE MCPositionGuard --------------------------
(* Two adapter processes, an old one and its replacement, on one database. *)
EXTENDS PositionGuard, TLC

CONSTANTS p1, p2, n1

MCSymmetry == Permutations({p1, p2})
=============================================================================
