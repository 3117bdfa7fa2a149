----------------------------- MODULE MCSmtpProbe -----------------------------
(* A small instance of SmtpProbe.                                            *)
EXTENDS SmtpProbe, TLC
CONSTANTS a1, a2, a3

ThreeInOrder == <<a1, a2, a3>>
=============================================================================
