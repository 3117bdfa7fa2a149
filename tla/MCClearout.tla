----------------------------- MODULE MCClearout -----------------------------
(* A small instance of Clearout: one verify() call of three addresses.      *)
EXTENDS Clearout, TLC
CONSTANTS w1, w2, w3, b1

OneBatch == [w \in {w1, w2, w3} |-> b1]
=============================================================================
