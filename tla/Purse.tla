-------------------------------- MODULE Purse --------------------------------
(***************************************************************************)
(* What the project promises about bought verdicts, apart from how the     *)
(* engine, the cache and the jobs keep it: a run buys an address at most   *)
(* once, and what it has bought it holds until it puts all of it on the    *)
(* shelf in one step, or ends and loses all of it in one step.  A run that *)
(* settles and has a shelf leaves nothing out, and what the vendor said of *)
(* an address stays on the shelf until a later run says something else.    *)
(***************************************************************************)

CONSTANTS
  Runs,       \* engine runs
  Addresses,  \* canonical addresses
  Keepers,    \* the runs that were given a shelf
  Answers     \* what the vendor sells

VARIABLES
  held,   \* what each run has bought of each address and not put yet
  shelf,  \* what the vendor said of each address, as far as it is on file
  fate    \* of each run: "open", "settled" or "over"

pvars == <<held, shelf, fate>>

Nothing == [a \in Addresses |-> "none"]

PInit ==
  /\ held = [r \in Runs |-> Nothing]
  /\ shelf = Nothing
  /\ fate = [r \in Runs |-> "open"]

Buy(r, a) ==
  /\ fate[r] = "open"
  /\ held[r][a] = "none"
  /\ \E s \in Answers : held' = [held EXCEPT ![r][a] = s]
  /\ UNCHANGED <<shelf, fate>>

\* Everything held goes to the shelf.  Of the addresses the run did not buy,
\* some have a free verdict, which displaces what the vendor said of them.
Bank(r) ==
  /\ fate[r] = "open"
  /\ fate' = [fate EXCEPT ![r] = "settled"]
  /\ held' = [held EXCEPT ![r] = Nothing]
  /\ \E free \in SUBSET Addresses :
       shelf' = [a \in Addresses |->
         IF r \notin Keepers THEN shelf[a]
         ELSE IF held[r][a] # "none" THEN held[r][a]
         ELSE IF a \in free THEN "none" ELSE shelf[a]]

\* Some runs end: they are finished, or a failure or a restart ends them.
End(R) ==
  /\ fate' = [r \in Runs |-> IF r \in R THEN "over" ELSE fate[r]]
  /\ held' = [r \in Runs |-> IF r \in R THEN Nothing ELSE held[r]]
  /\ UNCHANGED shelf

PNext ==
  \/ \E r \in Runs, a \in Addresses : Buy(r, a)
  \/ \E r \in Runs : Bank(r)
  \/ \E R \in SUBSET Runs : End(R)

PSpec == PInit /\ [][PNext]_pvars
=============================================================================
