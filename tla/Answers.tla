------------------------------ MODULE Answers ------------------------------
(***************************************************************************)
(* What the verdict database promises to the programs that share it:       *)
(* whoever asks about an address is given the answer on the shelf; an      *)
(* answer stays there for its life, and nothing but an import, or a run    *)
(* that asked while there was none, puts another one in its place.         *)
(***************************************************************************)
EXTENDS Naturals

CONSTANTS
  Addresses,
  Runs,      \* those that ask, and answer what the shelf could not
  Verdicts,  \* what an answer may say
  Life       \* how long it is given out

VARIABLES
  shelf,  \* the answers, each with who gave it and the time it has left
  open    \* what each run asked about in vain

vars == <<shelf, open>>

Nothing == [says |-> "nothing", by |-> "nobody", left |-> 0]
Answers(who) == [says : Verdicts, by : {who}, left : {Life}]
Shelves == [Addresses -> [says : Verdicts, by : {"run", "import"}, left : 1 .. Life] \cup {Nothing}]
Blank(a) == shelf[a] = Nothing

Init ==
  /\ shelf = [a \in Addresses |-> Nothing]
  /\ open = [r \in Runs |-> {}]

\* A run asks, and keeps what it has to find out itself.
Ask(r) ==
  /\ open[r] = {}
  /\ \E some \in SUBSET {a \in Addresses : Blank(a)} : open' = [open EXCEPT ![r] = some]
  /\ UNCHANGED shelf

\* New answers about some addresses, or the news that there is none.
Replaced(some, who) ==
  /\ shelf' \in Shelves
  /\ \A a \in Addresses :
       shelf'[a] # shelf[a] => a \in some /\ shelf'[a] \in Answers(who) \cup {Nothing}

\* It answers some of them; what others answered meanwhile it does not see.
Answer(r) ==
  /\ Replaced(open[r], "run")
  /\ open' = [open EXCEPT ![r] = {}]

Import ==
  /\ Replaced(Addresses, "import")
  /\ UNCHANGED open

Pass ==
  /\ shelf' = [a \in Addresses |->
       IF shelf[a].left <= 1 THEN Nothing ELSE [shelf[a] EXCEPT !.left = @ - 1]]
  /\ UNCHANGED open

Next == (\E r \in Runs : Ask(r) \/ Answer(r)) \/ Import \/ Pass

Spec == Init /\ [][Next]_vars
=============================================================================
