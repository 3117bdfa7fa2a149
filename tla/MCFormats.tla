----------------------------- MODULE MCFormats -----------------------------
(* Small instance: a person with three candidates, which read well, badly    *)
(* and fairly well, and a role account with the format of the second.        *)
EXTENDS Formats, TLC
CONSTANTS p1, p2, p3, info, who

MCShape == p1 :> "a.a" @@ p2 :> "a" @@ p3 :> "a_a" @@ info :> "a"
MCNoise == p1 :> 0 @@ p2 :> 90 @@ p3 :> 15 @@ info :> 0
MCPatterns == who :> <<p1, p2, p3>>
MCLines == {0, 70}
=============================================================================
