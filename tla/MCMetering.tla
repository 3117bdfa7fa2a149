----------------------------- MODULE MCMetering -----------------------------
(* Small instances of Metering.                                             *)
EXTENDS Metering, TLC
CONSTANTS q1, q2

RequestSymmetry == Permutations({q1, q2})
=============================================================================
