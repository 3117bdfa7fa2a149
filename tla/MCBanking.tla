------------------------------ MODULE MCBanking ------------------------------
(* Small instances of Banking.                                              *)
EXTENDS Banking, TLC
CONSTANTS r1, r2, a1, a2

\* A bulk job overlaps a single check, or the command line.
WebOrCli == {r1 :> "job" @@ r2 :> "web", r1 :> "job" @@ r2 :> "cli"}
BothLists == r1 :> {a1, a2} @@ r2 :> {a1}
=============================================================================
