------------------------------ MODULE MCShelf ------------------------------
(* A small instance of Shelf.                                               *)
EXTENDS Shelf, TLC
CONSTANTS a1, a2, d1

OneDomain == a1 :> d1 @@ a2 :> d1
=============================================================================
