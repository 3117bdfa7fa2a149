--------------------------- MODULE FormatsProofs ---------------------------
(***************************************************************************)
(* Proofs about Formats: type correctness, that guesses follow what was    *)
(* proven, and what the words of the finder claim - for any addresses,     *)
(* formats, candidates and engine runs.                                    *)
(***************************************************************************)
EXTENDS Formats, FiniteSetTheorems, TLAPS

-----------------------------------------------------------------------------
(* Lists of candidates.                                                    *)

\* A set of positions has a least one.
LEMMA LeastPosition ==
  ASSUME NEW n \in Nat, NEW U, U \subseteq 1 .. n, U # {}
  PROVE  \E i \in U : \A j \in U : i <= j
<1> DEFINE Upto == {1 .. i : i \in U}
<1>1. Upto \subseteq FiniteSubsetsOf(1 .. n)
  <2> SUFFICES ASSUME NEW i \in U PROVE 1 .. i \in FiniteSubsetsOf(1 .. n)
    OBVIOUS
  <2>1. IsFiniteSet(1 .. i)
    BY FS_Interval
  <2> QED
    BY <2>1 DEF FiniteSubsetsOf
<1>2. Upto # {}
  OBVIOUS
<1>3. IsWellFoundedOn(StrictSubsetOrdering(1 .. n), FiniteSubsetsOf(1 .. n))
  BY FS_StrictSubsetOrderingWellFounded
<1>4. PICK I \in Upto : \A J \in Upto : <<J, I>> \notin StrictSubsetOrdering(1 .. n)
  <2> HIDE DEF Upto
  <2> QED
    BY <1>1, <1>2, <1>3, WFMin, Zenon
<1>5. PICK i \in U : I = 1 .. i
  BY <1>4
<1>6. ASSUME NEW j \in U, j < i PROVE FALSE
  <2>1. i \in 1 .. i /\ i \notin 1 .. j
    BY <1>6
  <2>2. 1 .. j \subseteq 1 .. i /\ 1 .. j # 1 .. i
    BY <2>1, <1>6
  <2>3. 1 .. j \in SUBSET (1 .. n) /\ 1 .. i \in SUBSET (1 .. n)
    OBVIOUS
  <2>4. <<1 .. j, 1 .. i>> \in StrictSubsetOrdering(1 .. n)
    BY <2>2, <2>3 DEF StrictSubsetOrdering
  <2> QED
    BY <1>4, <1>5, <2>4
<1> QED
  BY <1>6

Distinct(list) == \A i, j \in DOMAIN list : list[i] = list[j] => i = j
Weights == [Shapes -> Nat]

\* Position i before position j: a strict total order.
LEMMA Order ==
  ASSUME NEW list \in Seq(Addresses), NEW weight \in Weights
  PROVE  \A i, j, k \in DOMAIN list :
           /\ ~ Before(list, weight, i, i)
           /\ i # j => Before(list, weight, i, j) \/ Before(list, weight, j, i)
           /\ Before(list, weight, i, j) /\ Before(list, weight, j, k) =>
                Before(list, weight, i, k)
<1> SUFFICES ASSUME NEW i \in DOMAIN list, NEW j \in DOMAIN list, NEW k \in DOMAIN list
             PROVE  /\ ~ Before(list, weight, i, i)
                    /\ i # j => Before(list, weight, i, j) \/ Before(list, weight, j, i)
                    /\ Before(list, weight, i, j) /\ Before(list, weight, j, k) =>
                         Before(list, weight, i, k)
  OBVIOUS
<1>1. \A l \in DOMAIN list : weight[Shape[list[l]]] \in Nat /\ l \in Nat
  BY DEF Shapes, Weights
<1> QED
  BY <1>1 DEF Before

\* The places of a list are its positions, each taken once.
LEMMA Places ==
  ASSUME NEW list \in Seq(Addresses), NEW weight \in Weights
  PROVE  [j \in DOMAIN list |-> Place(list, weight, j)] \in Surjection(DOMAIN list, DOMAIN list)
<1> DEFINE Earlier(j) == {i \in DOMAIN list : Before(list, weight, i, j)}
           place == [j \in DOMAIN list |-> Place(list, weight, j)]
<1>1. DOMAIN list = 1 .. Len(list) /\ Len(list) \in Nat
  OBVIOUS
<1>2. IsFiniteSet(DOMAIN list) /\ Cardinality(DOMAIN list) = Len(list)
  BY <1>1, FS_Interval
<1>3. \A j \in DOMAIN list : IsFiniteSet(Earlier(j)) /\ Cardinality(Earlier(j)) \in Nat
  BY <1>2, FS_Subset, FS_CardinalityType
<1>p. \A j \in DOMAIN list : place[j] = 1 + Cardinality(Earlier(j))
  BY DEF Place
<1>o. \A i \in DOMAIN list : \A j : i \in Earlier(j) <=> Before(list, weight, i, j)
  OBVIOUS
<1>s. \A j : Earlier(j) \subseteq DOMAIN list
  OBVIOUS
<1> HIDE DEF Earlier, place
<1>4. ASSUME NEW j \in DOMAIN list PROVE place[j] \in DOMAIN list
  <2>1. Earlier(j) \in SUBSET (DOMAIN list) /\ Earlier(j) # DOMAIN list
    BY <1>o, <1>s, Order
  <2>2. Cardinality(Earlier(j)) <= Len(list) /\ Cardinality(Earlier(j)) # Len(list)
    BY <1>2, <2>1, FS_Subset
  <2>3. Cardinality(Earlier(j)) \in Nat /\ place[j] = 1 + Cardinality(Earlier(j))
    BY <1>3, <1>p
  <2> QED
    BY <1>1, <2>2, <2>3
<1>5. ASSUME NEW i \in DOMAIN list, NEW j \in DOMAIN list, Before(list, weight, i, j)
      PROVE  place[i] # place[j]
  <2>1. Earlier(i) \in SUBSET Earlier(j) /\ i \in Earlier(j) /\ i \notin Earlier(i)
    BY <1>5, <1>o, <1>s, Order
  <2>2. Cardinality(Earlier(i)) # Cardinality(Earlier(j))
    BY <1>3, <2>1, FS_Subset
  <2>3. /\ Cardinality(Earlier(i)) \in Nat /\ place[i] = 1 + Cardinality(Earlier(i))
        /\ Cardinality(Earlier(j)) \in Nat /\ place[j] = 1 + Cardinality(Earlier(j))
    BY <1>3, <1>p
  <2> QED
    BY <2>2, <2>3
<1>6. place \in Injection(DOMAIN list, DOMAIN list)
  <2>1. place \in [DOMAIN list -> DOMAIN list]
    BY <1>4 DEF place
  <2>2. \A i, j \in DOMAIN list : place[i] = place[j] => i = j
    BY <1>5, Order
  <2> QED
    BY <2>1, <2>2 DEF Injection, IsInjective
<1> QED
  BY <1>2, <1>6, FS_Injection DEF place

LEMMA SortedList ==
  ASSUME NEW list \in Seq(Addresses), Distinct(list), NEW weight \in Weights
  PROVE  /\ Sorted(list, weight) \in Seq(Addresses)
         /\ Len(Sorted(list, weight)) = Len(list)
         /\ Distinct(Sorted(list, weight))
         /\ list # <<>> => \A i \in DOMAIN list :
              weight[Shape[list[i]]] <= weight[Shape[Sorted(list, weight)[1]]]
<1> DEFINE at(k) == CHOOSE j \in DOMAIN list : Place(list, weight, j) = k
<1>0. DOMAIN list = 1 .. Len(list) /\ Len(list) \in Nat
  OBVIOUS
<1>1. \A k \in DOMAIN list : \E j \in DOMAIN list : Place(list, weight, j) = k
  BY Places DEF Surjection
<1>2. \A k \in DOMAIN list : at(k) \in DOMAIN list /\ Place(list, weight, at(k)) = k
  BY <1>1
<1>3. Sorted(list, weight) = [k \in DOMAIN list |-> list[at(k)]]
  BY DEF Sorted
<1> HIDE DEF at
<1>4. Sorted(list, weight) \in Seq(Addresses) /\ Len(Sorted(list, weight)) = Len(list)
  <2>1. [k \in 1 .. Len(list) |-> list[at(k)]] \in Seq(Addresses)
    BY <1>0, <1>2
  <2>2. Len([k \in 1 .. Len(list) |-> list[at(k)]]) = Len(list)
    BY <1>0
  <2> QED
    BY <1>0, <1>3, <2>1, <2>2
<1>5. Distinct(Sorted(list, weight))
  BY <1>2, <1>3 DEF Distinct
<1>6. ASSUME list # <<>>, NEW i \in DOMAIN list
      PROVE  weight[Shape[list[i]]] <= weight[Shape[Sorted(list, weight)[1]]]
  <2>1. 1 \in DOMAIN list
    BY <1>0, <1>6
  <2>2. {j \in DOMAIN list : Before(list, weight, j, at(1))} = {}
    <3>1. IsFiniteSet({j \in DOMAIN list : Before(list, weight, j, at(1))})
      <4>1. IsFiniteSet(DOMAIN list)
        BY <1>0, FS_Interval
      <4> QED
        BY <4>1, FS_Subset
    <3>2. Cardinality({j \in DOMAIN list : Before(list, weight, j, at(1))}) = 0
      BY <1>2, <2>1, <3>1, FS_CardinalityType DEF Place
    <3> QED
      BY <3>1, <3>2, FS_EmptySet
  <2>3. ~ Before(list, weight, i, at(1))
    BY <2>2
  <2>4. weight[Shape[list[i]]] \in Nat /\ weight[Shape[list[at(1)]]] \in Nat
    BY <1>2, <2>1 DEF Shapes, Weights
  <2>5. weight[Shape[list[i]]] <= weight[Shape[list[at(1)]]]
    BY <2>3, <2>4 DEF Before
  <2> QED
    BY <1>3, <2>1, <2>5
<1> QED
  BY <1>4, <1>5, <1>6

\* Cutting a list keeps what is in front.
LEMMA CutList ==
  ASSUME NEW list \in Seq(Addresses)
  PROVE  /\ Cut(list) \in Seq(Addresses) /\ Len(Cut(list)) <= MaxCandidates
         /\ Distinct(list) => Distinct(Cut(list))
         /\ list # <<>> => Cut(list) # <<>> /\ Cut(list)[1] = list[1]
<1> DEFINE n == Smaller(MaxCandidates, Len(list))
<1>1. n \in Nat /\ n <= Len(list) /\ n <= MaxCandidates /\ (list # <<>> => n >= 1)
  BY FormatsAssumption DEF Smaller
<1>2. Cut(list) = [i \in 1 .. n |-> list[i]]
  BY <1>1 DEF Cut
<1> HIDE DEF n
<1>3. [i \in 1 .. n |-> list[i]] \in Seq(Addresses) /\ Len([i \in 1 .. n |-> list[i]]) = n
  BY <1>1
<1>4. Distinct(list) => Distinct(Cut(list))
  BY <1>1, <1>2 DEF Distinct
<1> QED
  BY <1>1, <1>2, <1>3, <1>4

-----------------------------------------------------------------------------
(* Scores.                                                                 *)

LEMMA ReadBounds == \A a \in Addresses : Read(a) \in 20 .. 80
<1> SUFFICES ASSUME NEW a \in Addresses PROVE Read(a) \in 20 .. 80
  OBVIOUS
<1>1. Noise[a] \in 0 .. 100
  BY FormatsAssumption
<1>2. ((100 - Noise[a]) * 60) \div 100 \in 0 .. 60
  BY <1>1
<1> QED
  BY <1>2 DEF Read

\* A score stays in its range.  A guess that is good enough has no evidence
\* against it.  A name that nothing speaks for scores at most 80, and at most 45
\* if it has evidence against it.
LEMMA ScoreBounds ==
  ASSUME NEW a \in Addresses, NEW profile \in Weights
  PROVE  /\ Score(a, profile) \in 0 .. 100
         /\ Score(a, profile) >= LikelyFrom =>
              a \in Roles \/ Fits(a, profile) \/ ~ Evidence(profile)
         /\ a \notin Roles /\ ~ Fits(a, profile) =>
              Score(a, profile) <= (IF Evidence(profile) THEN 45 ELSE 80)
<1>1. Read(a) \in 20 .. 80
  BY ReadBounds
<1>2. CASE a \in Roles
  <2>1. Score(a, profile) = 90
    BY <1>2 DEF Score
  <2> QED
    BY <1>2, <2>1
<1>3. CASE a \notin Roles /\ ~ Evidence(profile)
  <2>1. Score(a, profile) = Read(a)
    <3>1. ~ Fits(a, profile)
      BY <1>3 DEF Evidence, Fits, Shapes
    <3> QED
      BY <1>3, <3>1 DEF Score
  <2> QED
    BY <1>1, <1>3, <2>1
<1>4. CASE a \notin Roles /\ Evidence(profile) /\ Fits(a, profile)
  <2>1. Score(a, profile) = Smaller(95, Read(a) + 25)
    BY <1>4 DEF Score
  <2> QED
    BY <1>1, <1>4, <2>1 DEF Smaller
<1>5. CASE a \notin Roles /\ Evidence(profile) /\ ~ Fits(a, profile)
  <2>1. Score(a, profile) = Larger(5, Read(a) - 35)
    BY <1>5 DEF Score
  <2> QED
    BY <1>1, <1>5, <2>1 DEF Larger, LikelyFrom
<1> QED
  BY <1>2, <1>3, <1>4, <1>5

EngineTypes ==
  /\ shapes \in Weights
  /\ stage \in {"start", "patterns", "vendor"}
  /\ DOMAIN row \subseteq Addresses /\ row \in [DOMAIN row -> Rows]
  /\ line \in Lines \cup {0}
  /\ told \subseteq Addresses /\ guessed \subseteq Addresses
  /\ runs \in 0 .. MaxRuns

\* What is on file is counted, and what the run has proven.
LEMMA ProfileType ==
  ASSUME EngineTypes
  PROVE  /\ Profile \in Weights
         /\ \A s \in Shapes : Profile[s] >= shapes[s]
         /\ \A s \in Shapes : Profile[s] > 0 =>
              shapes[s] > 0 \/ \E b \in Proven : Shape[b] = s
<1> DEFINE Like(s) == {a \in Proven : Shape[a] = s}
<1>1. \A s : IsFiniteSet(Like(s)) /\ Cardinality(Like(s)) \in Nat
  <2>1. \A s : Like(s) \in SUBSET Addresses
    BY DEF EngineTypes, Proven
  <2> QED
    BY <2>1, FormatsAssumption, FS_Subset, FS_CardinalityType
<1>2. \A s : Cardinality(Like(s)) > 0 => Like(s) # {}
  <2>1. Cardinality({}) = 0
    BY FS_EmptySet
  <2> QED
    BY <1>1, <2>1
<1>3. Profile = [s \in Shapes |-> shapes[s] + Cardinality(Like(s))]
  BY DEF Profile
<1>4. \A s : Like(s) # {} => \E b \in Proven : Shape[b] = s
  OBVIOUS
<1>5. \A s \in Shapes : shapes[s] \in Nat
  BY DEF EngineTypes, Weights
<1> HIDE DEF Like
<1>6. \A s \in Shapes : /\ Profile[s] \in Nat /\ Profile[s] >= shapes[s]
                        /\ Profile[s] > 0 => shapes[s] > 0 \/ Like(s) # {}
  BY <1>1, <1>2, <1>3, <1>5
<1>7. Profile \in Weights
  BY <1>3, <1>6 DEF Weights
<1> QED
  BY <1>4, <1>6, <1>7

-----------------------------------------------------------------------------
(* Types of the engine.                                                    *)

Scored(a, score, trusted) ==
  [status |-> IF trusted THEN "likely_valid" ELSE row[a].status, open |-> ~ trusted,
   score |-> score]
Trusted(a) == line > 0 /\ Score(a, Profile) >= LikelyFrom /\ Score(a, Profile) >= line

\* What the pattern tier leaves of a row.
LEMMA ScoredRows ==
  ASSUME EngineTypes, Tier35
  PROVE  /\ DOMAIN row' = DOMAIN row
         /\ \A a \in DOMAIN row :
              row'[a] = IF Open(a) THEN Scored(a, Score(a, Profile), Trusted(a)) ELSE row[a]
BY DEF Tier35, Scored, Trusted

LEMMA EngineStep == EngineTypes /\ [Next]_vars => EngineTypes'
<1> SUFFICES ASSUME EngineTypes, [Next]_vars PROVE EngineTypes'
  OBVIOUS
<1>1. CASE Begin
  <2>1. PICK list \in SUBSET Addresses :
          \E proof \in [list -> Statuses] :
            /\ \A a \in list : proof[a] = "likely_valid" => a \in guessed
            /\ row' = [a \in list |-> Judged(proof[a])]
            /\ told' = told \cup {a \in list : proof[a] = "valid"}
    BY <1>1 DEF Begin
  <2>2. PICK proof \in [list -> Statuses] :
            /\ \A a \in list : proof[a] = "likely_valid" => a \in guessed
            /\ row' = [a \in list |-> Judged(proof[a])]
            /\ told' = told \cup {a \in list : proof[a] = "valid"}
    BY <2>1
  <2>3. \A status \in Statuses : Judged(status) \in Rows
    BY DEF Judged, Rows, Statuses
  <2>4. DOMAIN row' \subseteq Addresses /\ row' \in [DOMAIN row' -> Rows]
    BY <2>2, <2>3
  <2>5. told' \subseteq Addresses
    BY <2>2 DEF EngineTypes
  <2>6. runs' \in 0 .. MaxRuns
    BY <1>1, FormatsAssumption DEF Begin, EngineTypes
  <2> QED
    BY <1>1, <2>4, <2>5, <2>6 DEF Begin, EngineTypes
<1>2. CASE Tier35
  <2>1. shapes' \in Weights
    BY <1>2, ProfileType DEF Tier35, EngineTypes
  <2>2. ASSUME NEW a \in DOMAIN row PROVE row'[a] \in Rows
    <3>1. a \in Addresses /\ row[a] \in Rows
      BY DEF EngineTypes
    <3>2. Score(a, Profile) \in 0 .. 100
      BY <3>1, ScoreBounds, ProfileType
    <3>3. Scored(a, Score(a, Profile), TRUE) \in Rows /\ Scored(a, Score(a, Profile), FALSE) \in Rows
      BY <3>1, <3>2 DEF Scored, Rows, Statuses
    <3>4. Trusted(a) \in BOOLEAN
      BY DEF Trusted
    <3> QED
      BY <1>2, <3>1, <3>3, <3>4, ScoredRows
  <2>3. DOMAIN row' = DOMAIN row /\ row' = [a \in DOMAIN row |-> row'[a]]
    BY <1>2 DEF Tier35
  <2>4. row' \in [DOMAIN row' -> Rows]
    BY <2>2, <2>3
  <2> QED
    BY <1>2, <2>1, <2>3, <2>4 DEF Tier35, EngineTypes
<1>3. CASE NoTier35
  BY <1>3 DEF NoTier35, EngineTypes
<1>4. CASE Finish
  <2>1. row' = [a \in {} |-> {}] /\ DOMAIN row' = {}
    BY <1>4 DEF Finish
  <2>2. guessed' \subseteq Addresses
    BY <1>4 DEF Finish, EngineTypes
  <2> QED
    BY <1>4, <2>1, <2>2 DEF Finish, EngineTypes
<1>5. CASE \E n \in Names : Prepare(n) \/ AskMicrosoft(n) \/ AskSmtp(n) \/ Unprobed(n) \/ Fail(n)
  BY <1>5 DEF Prepare, AskMicrosoft, AskSmtp, Unprobed, Fail, engine, EngineTypes
<1>6. CASE UNCHANGED vars
  BY <1>6 DEF vars, engine, EngineTypes
<1> QED
  BY <1>1, <1>2, <1>3, <1>4, <1>5, <1>6 DEF Next

LEMMA EngineInit == Init => EngineTypes
BY FormatsAssumption DEF Init, EngineTypes, Weights

-----------------------------------------------------------------------------
(* Guesses follow the evidence.                                            *)

\* Formats on file were proven, and so is every valid row of a run that has not
\* scored yet; what is likely valid by then was on file, and is settled.
Learned ==
  /\ \A s \in Shapes : shapes[s] > 0 => \E b \in told : Shape[b] = s
  /\ stage = "patterns" =>
       \A a \in DOMAIN row :
         /\ row[a].status = "valid" => a \in told
         /\ row[a].status = "likely_valid" => ~ Open(a)
         /\ row[a].score = -1

LEMMA LearnedStep == EngineTypes /\ Learned /\ [Next]_vars => Learned'
<1> SUFFICES ASSUME EngineTypes, Learned, [Next]_vars PROVE Learned'
  OBVIOUS
<1>1. CASE Begin
  <2>1. PICK list \in SUBSET Addresses :
          \E proof \in [list -> Statuses] :
            /\ \A a \in list : proof[a] = "likely_valid" => a \in guessed
            /\ row' = [a \in list |-> Judged(proof[a])]
            /\ told' = told \cup {a \in list : proof[a] = "valid"}
    BY <1>1 DEF Begin
  <2>2. PICK proof \in [list -> Statuses] :
            /\ \A a \in list : proof[a] = "likely_valid" => a \in guessed
            /\ row' = [a \in list |-> Judged(proof[a])]
            /\ told' = told \cup {a \in list : proof[a] = "valid"}
    BY <2>1
  <2>3. told \subseteq told' /\ shapes' = shapes
    BY <1>1, <2>2 DEF Begin
  <2>4. \A a \in DOMAIN row' : /\ row'[a].status = "valid" => a \in told'
                               /\ row'[a].status = "likely_valid" => ~ row'[a].open
                               /\ row'[a].score = -1
    BY <2>2 DEF Judged
  <2> QED
    BY <2>3, <2>4 DEF Learned, Open
<1>2. CASE Tier35
  <2>1. stage = "patterns" /\ stage' = "vendor" /\ told' = told
    BY <1>2 DEF Tier35
  <2>2. ASSUME NEW s \in Shapes, shapes'[s] > 0 PROVE \E b \in told : Shape[b] = s
    <3>1. shapes[s] > 0 \/ \E b \in Proven : Shape[b] = s
      BY <1>2, <2>2, ProfileType DEF Tier35
    <3> QED
      BY <2>1, <3>1 DEF Learned, Proven
  <2> QED
    BY <2>1, <2>2 DEF Learned
<1>3. CASE NoTier35
  BY <1>3 DEF NoTier35, Learned
<1>4. CASE Finish
  BY <1>4 DEF Finish, Learned
<1>5. CASE \E n \in Names : Prepare(n) \/ AskMicrosoft(n) \/ AskSmtp(n) \/ Unprobed(n) \/ Fail(n)
  BY <1>5 DEF Prepare, AskMicrosoft, AskSmtp, Unprobed, Fail, engine, Learned, Open
<1>6. CASE UNCHANGED vars
  BY <1>6 DEF vars, engine, Learned, Open
<1> QED
  BY <1>1, <1>2, <1>3, <1>4, <1>5, <1>6 DEF Next

LEMMA LearnedInit == Init => Learned
BY DEF Init, Learned

Founded(a) == a \in Roles \/ \E b \in told : Shape[b] = Shape[a]

LEMMA GuessesStep ==
  EngineTypes /\ Learned /\ GuessesFollowEvidence /\ [Next]_vars => GuessesFollowEvidence'
<1> SUFFICES ASSUME EngineTypes, Learned, GuessesFollowEvidence, [Next]_vars
             PROVE  GuessesFollowEvidence'
  OBVIOUS
<1>1. CASE Begin \/ Finish
  BY <1>1 DEF Begin, Finish, GuessesFollowEvidence
<1>2. CASE Tier35
  <2>1. stage = "patterns" /\ told' = told /\ Profile \in Weights
    BY <1>2, ProfileType DEF Tier35
  <2>2. SUFFICES ASSUME NEW a \in DOMAIN row
                 PROVE  /\ row'[a].status = "likely_valid" /\ row'[a].score # -1 =>
                             Founded(a) \/ ~ \E s \in Shapes : shapes'[s] > 0
                        /\ \A threshold \in Thresholds :
                             row'[a].open /\ ~ (row'[a].score = -1 \/ row'[a].score < threshold) =>
                               \/ Founded(a)
                               \/ threshold <= (IF \E s \in Shapes : shapes'[s] > 0 THEN 45 ELSE 80)
    BY <1>2, <2>1, ScoredRows DEF GuessesFollowEvidence, Open, Bought, Founded
  <2>3. a \in Addresses /\ row[a] \in Rows /\ row[a].score = -1
    BY <2>1 DEF EngineTypes, Learned
  <2>4. CASE ~ Open(a)
    BY <1>2, <2>3, <2>4, ScoredRows DEF Open
  <2>5. CASE Open(a)
    <3>1. row'[a] = Scored(a, Score(a, Profile), Trusted(a)) /\ shapes' = Profile
      BY <1>2, <2>5, ScoredRows DEF Tier35
    <3>2. Fits(a, Profile) => Founded(a)
      <4>1. Shape[a] \in Shapes
        BY <2>3 DEF Shapes
      <4> QED
        BY <2>1, <4>1, ProfileType DEF Fits, Learned, Proven, Founded
    <3>3. Evidence(Profile) <=> \E s \in Shapes : shapes'[s] > 0
      BY <3>1 DEF Evidence
    <3>4. row'[a].status = "likely_valid" => Score(a, Profile) >= LikelyFrom
      BY <2>1, <2>5, <3>1 DEF Scored, Trusted, Learned
    <3>5. row'[a].score = Score(a, Profile)
      BY <3>1 DEF Scored
    <3>6. /\ Score(a, Profile) \in 0 .. 100
          /\ Score(a, Profile) >= LikelyFrom =>
               a \in Roles \/ Fits(a, Profile) \/ ~ Evidence(Profile)
          /\ a \notin Roles /\ ~ Fits(a, Profile) =>
               Score(a, Profile) <= (IF Evidence(Profile) THEN 45 ELSE 80)
      BY <2>1, <2>3, ScoreBounds
    <3>7. row'[a].status = "likely_valid" => Founded(a) \/ ~ Evidence(Profile)
      BY <3>2, <3>4, <3>6 DEF Founded
    <3>8. ASSUME NEW threshold \in Thresholds, ~ (row'[a].score < threshold), ~ Founded(a)
          PROVE  threshold <= (IF Evidence(Profile) THEN 45 ELSE 80)
      <4>1. Score(a, Profile) <= (IF Evidence(Profile) THEN 45 ELSE 80)
        BY <3>2, <3>6, <3>8 DEF Founded
      <4>2. threshold \in 0 .. 100 /\ Score(a, Profile) \in 0 .. 100
        BY <3>6 DEF Thresholds
      <4>3. Score(a, Profile) >= threshold
        BY <3>5, <3>8, <4>2
      <4> QED
        BY <4>1, <4>2, <4>3
    <3> QED
      BY <3>3, <3>7, <3>8
  <2> QED
    BY <2>4, <2>5
<1>3. CASE NoTier35
  <2>1. stage = "patterns" /\ row' = row /\ told' = told /\ shapes' = shapes
    BY <1>3 DEF NoTier35
  <2>2. \A a \in DOMAIN row : row[a].score = -1
    BY <2>1 DEF Learned
  <2> QED
    BY <2>1, <2>2 DEF GuessesFollowEvidence, Open, Bought
<1>4. CASE \E n \in Names : Prepare(n) \/ AskMicrosoft(n) \/ AskSmtp(n) \/ Unprobed(n) \/ Fail(n)
  BY <1>4 DEF Prepare, AskMicrosoft, AskSmtp, Unprobed, Fail, engine, GuessesFollowEvidence, Open,
              Bought
<1>5. CASE UNCHANGED vars
  BY <1>5 DEF vars, engine, GuessesFollowEvidence, Open, Bought
<1> QED
  BY <1>1, <1>2, <1>3, <1>4, <1>5 DEF Next

LEMMA GuessesInit == Init => GuessesFollowEvidence
BY DEF Init, GuessesFollowEvidence

\* Nothing is promoted against what was proven of the domain, whatever guesses are
\* on file; and what the vendor's line keeps, wherever it is, is founded, or below
\* what a name alone can score.
THEOREM GuessesAreFounded == Spec => []GuessesFollowEvidence
<1> QED
  BY EngineInit, EngineStep, LearnedInit, LearnedStep, GuessesInit, GuessesStep, PTL DEF Spec

-----------------------------------------------------------------------------
(* The finder.                                                             *)

Tries(l) == {l.order[i] : i \in DOMAIN l.order}
Excluded(n, l) ==
  IF host \in NoRoute THEN {Patterns[n][i] : i \in DOMAIN Patterns[n]} ELSE Tries(l)
Witnessed(s) == \E b \in told : Shape[b] = s

\* What LookupIsHonest says of the answer l about the name n
Honest(n, l) ==
  /\ l.status = "found" /\ ~ l.blind =>
       /\ l.email \in Tries(l) \cap exists
       /\ \A i \in {i \in DOMAIN l.order : l.order[i] = l.email} : \A j \in 1 .. i - 1 :
            l.order[j] \in exists => l.order[j] \in l.spurned \/ host = "microsoft"
  /\ l.status = "not_found" /\ host # "aaaa" => Excluded(n, l) \cap exists \subseteq l.spurned
  /\ l.status = "guess" =>
       \A i \in DOMAIN Patterns[n] : l.weight[Shape[Patterns[n][i]]] <= l.weight[Shape[l.email]]
  /\ l.confidence = 75 => Witnessed(Shape[l.email])

\* A lookup that is being probed asks about the best candidates, by the formats
\* that were on file, each of which was proven.
Prepared(n, l) ==
  /\ l.stage # "done" => l.status = "none" /\ l.confidence = 0
  /\ l.stage = "probe" => Patterns[n] # <<>> /\ l.order = Cut(Sorted(Patterns[n], l.weight))
  /\ \A s \in Shapes : l.weight[s] > 0 => Witnessed(s)

Sound(n, l) ==
  l \in Lookups /\ Len(l.order) <= MaxCandidates /\ Prepared(n, l) /\ Honest(n, l)

LookInv ==
  /\ host = "no_mail" => exists = {}
  /\ look \in [Names -> Lookups]
  /\ \A n \in Names : Sound(n, look[n])

\* The candidates that are probed.
LEMMA ProbedList ==
  ASSUME NEW n \in Names, NEW l, Sound(n, l), l.stage = "probe"
  PROVE  /\ l.order \in Seq(Addresses) /\ l.order # <<>> /\ Distinct(l.order)
         /\ l.order[1] \in Addresses
         /\ \A i \in DOMAIN Patterns[n] :
              l.weight[Shape[Patterns[n][i]]] <= l.weight[Shape[l.order[1]]]
<1>1. l.weight \in Weights /\ Patterns[n] # <<>> /\ l.order = Cut(Sorted(Patterns[n], l.weight))
  BY DEF Sound, Prepared, Lookups, Weights
<1>2. Patterns[n] \in Seq(Addresses) /\ Distinct(Patterns[n])
  BY FormatsAssumption DEF Distinct
<1> DEFINE sorted == Sorted(Patterns[n], l.weight)
<1>3. /\ sorted \in Seq(Addresses) /\ Len(sorted) = Len(Patterns[n]) /\ Distinct(sorted)
      /\ \A i \in DOMAIN Patterns[n] : l.weight[Shape[Patterns[n][i]]] <= l.weight[Shape[sorted[1]]]
  BY <1>1, <1>2, SortedList
<1>4. sorted # <<>>
  BY <1>1, <1>2, <1>3
<1> HIDE DEF sorted
<1>5. /\ Cut(sorted) \in Seq(Addresses) /\ Distinct(Cut(sorted))
      /\ Cut(sorted) # <<>> /\ Cut(sorted)[1] = sorted[1]
  BY <1>3, <1>4, CutList
<1>6. l.order = Cut(sorted)
  BY <1>1 DEF sorted
<1>7. Cut(sorted)[1] \in Addresses
  BY <1>5
<1> QED
  BY <1>3, <1>5, <1>6, <1>7

\* The first candidate in a set.
LEMMA First ==
  ASSUME NEW n \in Names, look[n].order \in Seq(Addresses),
         NEW S, S \cap Candidates(n) # {}
  PROVE  \E i \in DOMAIN look[n].order :
           /\ FirstIn(n, S) = look[n].order[i] /\ look[n].order[i] \in S
           /\ \A j \in 1 .. i - 1 : look[n].order[j] \notin S
<1> DEFINE order == look[n].order
           U == {i \in DOMAIN order : order[i] \in S}
<1>1. U \subseteq 1 .. Len(order) /\ Len(order) \in Nat /\ DOMAIN order = 1 .. Len(order)
  OBVIOUS
<1>2. U # {}
  BY DEF Candidates
<1>3. PICK i \in U : \A j \in U : i <= j
  BY <1>1, <1>2, LeastPosition
<1>4. \A j \in 1 .. i - 1 : order[j] \notin S
  BY <1>1, <1>3
<1>5. \E k \in DOMAIN order : order[k] \in S /\ \A j \in 1 .. k - 1 : order[j] \notin S
  BY <1>3, <1>4
<1> QED
  BY <1>5 DEF FirstIn

Answers == {"found", "guess", "not_found", "unknown"}

\* An answer leaves the list and the formats it was made with.
LEMMA Said ==
  ASSUME NEW n \in Names, look[n] \in Lookups,
         NEW status \in Answers, NEW email \in Addresses \cup {"none"},
         NEW confidence \in {0, 45, 75, 98, 99}
  PROVE  Say(n, status, email, confidence) \in Lookups
<1>1. look[n].order \in Seq(Addresses) /\ look[n].weight \in [Shapes -> Nat]
  BY DEF Lookups
<1> QED
  BY <1>1 DEF Say, Lookups, Answers

LEMMA Blinded ==
  ASSUME NEW l \in Lookups, NEW b \in BOOLEAN, NEW k, k = [l EXCEPT !.blind = b]
  PROVE  /\ k \in Lookups /\ k.blind = b /\ k.stage = l.stage
         /\ k.status = l.status /\ k.email = l.email /\ k.confidence = l.confidence
         /\ k.order = l.order /\ k.weight = l.weight /\ k.spurned = l.spurned
BY DEF Lookups

LEMMA Spurned ==
  ASSUME NEW l \in Lookups, NEW S \in SUBSET Addresses, NEW k, k = [l EXCEPT !.spurned = S]
  PROVE  /\ k \in Lookups /\ k.spurned = S /\ k.stage = l.stage
         /\ k.status = l.status /\ k.email = l.email /\ k.confidence = l.confidence
         /\ k.order = l.order /\ k.weight = l.weight /\ k.blind = l.blind
BY DEF Lookups

LEMMA AnswerSound ==
  ASSUME NEW n \in Names, Sound(n, look[n]), NEW l \in Lookups, l.stage = "done",
         l.order = look[n].order, l.weight = look[n].weight, Honest(n, l)
  PROVE  Sound(n, l)
BY DEF Sound, Prepared

\* A guess is the best known.
LEMMA GuessSound ==
  ASSUME NEW n \in Names, Sound(n, look[n]), look[n].stage = "probe"
  PROVE  /\ Guess(n) \in Lookups /\ Sound(n, Guess(n))
         /\ \A b \in BOOLEAN : Sound(n, [Guess(n) EXCEPT !.blind = b])
<1> DEFINE top == look[n].order[1]
           confidence == IF look[n].weight[Shape[top]] > 0 THEN 75 ELSE 45
<1>1. /\ top \in Addresses
      /\ \A i \in DOMAIN Patterns[n] :
           look[n].weight[Shape[Patterns[n][i]]] <= look[n].weight[Shape[top]]
  BY ProbedList
<1>2. Shape[top] \in Shapes
  BY <1>1 DEF Shapes
<1>3. confidence \in {45, 75} /\ (confidence = 75 => Witnessed(Shape[top]))
  BY <1>2 DEF Sound, Prepared
<1>4. Guess(n) = Say(n, "guess", top, confidence)
  BY DEF Guess
<1>5. look[n] \in Lookups
  BY DEF Sound
<1> HIDE DEF top, confidence
<1>l. PICK l : l = Guess(n)
  OBVIOUS
<1>6. /\ l \in Lookups /\ l.stage = "done"
      /\ l.status = "guess" /\ l.email = top /\ l.confidence = confidence
      /\ l.order = look[n].order /\ l.weight = look[n].weight
  <2>1. Say(n, "guess", top, confidence) \in Lookups
    BY <1>1, <1>3, <1>5, Said DEF Answers
  <2>2. l = Say(n, "guess", top, confidence)
    BY <1>4, <1>l
  <2> QED
    BY <2>1, <2>2 DEF Say
<1>7. Honest(n, l)
  BY <1>1, <1>3, <1>6 DEF Honest
<1>8. ASSUME NEW b \in BOOLEAN PROVE Sound(n, [l EXCEPT !.blind = b])
  <2>l. PICK k : k = [l EXCEPT !.blind = b]
    OBVIOUS
  <2>1. /\ k \in Lookups /\ k.stage = "done"
        /\ k.status = "guess" /\ k.email = top /\ k.confidence = confidence
        /\ k.order = look[n].order /\ k.weight = look[n].weight
    BY <1>6, <2>l, Blinded
  <2>2. Honest(n, k)
    BY <1>1, <1>3, <2>1 DEF Honest
  <2> QED
    BY <2>l, <2>1, <2>2, AnswerSound
<1>9. Sound(n, l)
  BY <1>6, <1>7, AnswerSound
<1> QED
  BY <1>l, <1>6, <1>8, <1>9

LEMMA UnknownSound ==
  ASSUME NEW n \in Names, Sound(n, look[n])
  PROVE  Sound(n, Say(n, "unknown", "none", 0))
<1>0. PICK l : l = Say(n, "unknown", "none", 0)
  OBVIOUS
<1>1. /\ l \in Lookups /\ l.stage = "done" /\ l.status = "unknown" /\ l.confidence = 0
      /\ l.order = look[n].order /\ l.weight = look[n].weight
  <2>1. look[n] \in Lookups
    BY DEF Sound
  <2>2. Say(n, "unknown", "none", 0) \in Lookups
    BY <2>1, Said DEF Answers
  <2> QED
    BY <1>0, <2>2 DEF Say
<1>2. Honest(n, l)
  BY <1>1 DEF Honest
<1> QED
  BY <1>0, <1>1, <1>2, AnswerSound

\* Microsoft's directory lists who exists, unless it is a tenant that knows
\* everyone and is not seen to be one.
LEMMA ListedSound ==
  ASSUME NEW n \in Names, Sound(n, look[n]), look[n].stage = "probe", host = "microsoft",
         NEW S, S \subseteq Candidates(n), S # {}, NEW b \in BOOLEAN, b \/ S \subseteq exists
  PROVE  Sound(n, [Say(n, "found", FirstIn(n, S), 99) EXCEPT !.blind = b])
<1>1. look[n] \in Lookups /\ look[n].order \in Seq(Addresses)
  BY ProbedList DEF Sound
<1>2. PICK i \in DOMAIN look[n].order :
        FirstIn(n, S) = look[n].order[i] /\ look[n].order[i] \in S
  <2>1. S \cap Candidates(n) # {}
    OBVIOUS
  <2> QED
    BY <1>1, <2>1, First
<1> DEFINE email == FirstIn(n, S)
<1>3. email \in S /\ email \in Candidates(n) /\ email \in Addresses
  BY <1>1, <1>2
<1> HIDE DEF email
<1>4. Say(n, "found", email, 99) \in Lookups
  BY <1>1, <1>3, Said DEF Answers
<1>l. PICK l : l = Say(n, "found", email, 99)
  OBVIOUS
<1>5. /\ l \in Lookups /\ l.stage = "done"
      /\ l.status = "found" /\ l.email = email /\ l.confidence = 99
      /\ l.order = look[n].order /\ l.weight = look[n].weight
  BY <1>4, <1>l DEF Say
<1>k. PICK k : k = [l EXCEPT !.blind = b]
  OBVIOUS
<1>6. /\ k \in Lookups /\ k.blind = b /\ k.stage = "done"
      /\ k.status = "found" /\ k.email = email /\ k.confidence = 99
      /\ k.order = look[n].order /\ k.weight = look[n].weight
  BY <1>5, <1>k, Blinded
<1>7. ~ k.blind => k.email \in Tries(k) \cap exists
  BY <1>3, <1>6 DEF Tries, Candidates
<1>8. Honest(n, k)
  BY <1>6, <1>7 DEF Honest
<1>9. Sound(n, k)
  BY <1>6, <1>8, AnswerSound
<1> QED
  BY <1>l, <1>k, <1>9 DEF email

\* The first candidate that a server takes; those before it that exist were
\* turned away.
LEMMA TakenSound ==
  ASSUME NEW n \in Names, Sound(n, look[n]), look[n].stage = "probe",
         NEW T \in SUBSET (Candidates(n) \cap exists), (Candidates(n) \cap exists) \ T # {}
  PROVE  Sound(n, [Say(n, "found", FirstIn(n, (Candidates(n) \cap exists) \ T), 98)
                     EXCEPT !.spurned = T])
<1> DEFINE S == (Candidates(n) \cap exists) \ T
<1>1. look[n] \in Lookups /\ look[n].order \in Seq(Addresses) /\ Distinct(look[n].order)
  BY ProbedList DEF Sound
<1>2. PICK i \in DOMAIN look[n].order :
        /\ FirstIn(n, S) = look[n].order[i] /\ look[n].order[i] \in S
        /\ \A j \in 1 .. i - 1 : look[n].order[j] \notin S
  <2>1. S \cap Candidates(n) # {}
    OBVIOUS
  <2> HIDE DEF S
  <2> QED
    BY <1>1, <2>1, First
<1> DEFINE email == FirstIn(n, S)
<1>3. email \in S /\ email = look[n].order[i] /\ email \in Addresses
  BY <1>1, <1>2
<1>4. T \in SUBSET Addresses
  BY <1>1 DEF Candidates
<1>5. \A j \in 1 .. i - 1 : look[n].order[j] \in exists => look[n].order[j] \in T
  <2> SUFFICES ASSUME NEW j \in 1 .. i - 1, look[n].order[j] \in exists
               PROVE  look[n].order[j] \in T
    OBVIOUS
  <2>1. j \in DOMAIN look[n].order
    BY <1>1
  <2> QED
    BY <1>2, <2>1 DEF Candidates
<1>6. \A m \in DOMAIN look[n].order : look[n].order[m] = email => m = i
  BY <1>1, <1>2, <1>3 DEF Distinct
<1>s. email \in Candidates(n) \cap exists
  BY <1>3
<1>d. S = (Candidates(n) \cap exists) \ T
  OBVIOUS
<1> HIDE DEF email, S
<1>7. Say(n, "found", email, 98) \in Lookups
  BY <1>1, <1>3, Said DEF Answers
<1>l. PICK l : l = Say(n, "found", email, 98)
  OBVIOUS
<1>8. /\ l \in Lookups /\ l.stage = "done"
      /\ l.status = "found" /\ l.email = email /\ l.confidence = 98
      /\ l.order = look[n].order /\ l.weight = look[n].weight
  BY <1>7, <1>l DEF Say
<1>k. PICK k : k = [l EXCEPT !.spurned = T]
  OBVIOUS
<1>9. /\ k \in Lookups /\ k.spurned = T /\ k.stage = "done"
      /\ k.status = "found" /\ k.email = email /\ k.confidence = 98
      /\ k.order = look[n].order /\ k.weight = look[n].weight
  BY <1>4, <1>8, <1>k, Spurned
<1>10. k.email \in Tries(k) \cap exists
  BY <1>s, <1>9 DEF Tries, Candidates
<1>11. \A m \in {m \in DOMAIN k.order : k.order[m] = k.email} : \A j \in 1 .. m - 1 :
         k.order[j] \in exists => k.order[j] \in k.spurned
  BY <1>5, <1>6, <1>9
<1>12. Honest(n, k)
  BY <1>9, <1>10, <1>11 DEF Honest
<1>13. Sound(n, k)
  BY <1>9, <1>12, AnswerSound
<1> QED
  BY <1>l, <1>k, <1>13 DEF email, S

\* No candidate exists that was not turned away.
LEMMA RefusedSound ==
  ASSUME NEW n \in Names, Sound(n, look[n]),
         NEW T \in SUBSET (Candidates(n) \cap exists), Candidates(n) \cap exists \subseteq T,
         host \notin NoRoute
  PROVE  Sound(n, [Say(n, "not_found", "none", 0) EXCEPT !.spurned = T])
<1>1. look[n] \in Lookups /\ T \in SUBSET Addresses
  <2>1. look[n] \in Lookups
    BY DEF Sound
  <2> QED
    BY <2>1 DEF Candidates, Lookups
<1>2. Say(n, "not_found", "none", 0) \in Lookups
  BY <1>1, Said DEF Answers
<1>l. PICK l : l = Say(n, "not_found", "none", 0)
  OBVIOUS
<1>3. /\ l \in Lookups /\ l.stage = "done" /\ l.status = "not_found" /\ l.confidence = 0
      /\ l.order = look[n].order /\ l.weight = look[n].weight
  BY <1>2, <1>l DEF Say
<1>k. PICK k : k = [l EXCEPT !.spurned = T]
  OBVIOUS
<1>4. /\ k \in Lookups /\ k.spurned = T /\ k.stage = "done"
      /\ k.status = "not_found" /\ k.confidence = 0
      /\ k.order = look[n].order /\ k.weight = look[n].weight
  BY <1>1, <1>3, <1>k, Spurned
<1>5. Honest(n, k)
  BY <1>4 DEF Honest, Excluded, Tries, Candidates
<1>6. Sound(n, k)
  BY <1>4, <1>5, AnswerSound
<1> QED
  BY <1>l, <1>k, <1>6

\* A domain that takes no mail has nobody.
LEMMA NoMailSound ==
  ASSUME NEW n \in Names, Sound(n, look[n]), host = "aaaa" \/ exists = {}
  PROVE  Sound(n, Say(n, "not_found", "none", 0))
<1>1. look[n] \in Lookups
  BY DEF Sound
<1>2. Say(n, "not_found", "none", 0) \in Lookups
  BY <1>1, Said DEF Answers
<1>l. PICK l : l = Say(n, "not_found", "none", 0)
  OBVIOUS
<1>3. /\ l \in Lookups /\ l.stage = "done" /\ l.status = "not_found" /\ l.confidence = 0
      /\ l.order = look[n].order /\ l.weight = look[n].weight
  BY <1>2, <1>l DEF Say
<1>4. Honest(n, l)
  BY <1>3 DEF Honest
<1>5. Sound(n, l)
  BY <1>3, <1>4, AnswerSound
<1> QED
  BY <1>l, <1>5

\* A lookup that begins: the candidates by the formats on file.
LEMMA TriedSound ==
  ASSUME EngineTypes, Learned, NEW n \in Names, Patterns[n] # <<>>
  PROVE  Sound(n, [NoLookup EXCEPT !.stage = "probe", !.order = Tried(n), !.weight = shapes])
<1>1. shapes \in Weights /\ \A s \in Shapes : shapes[s] > 0 => Witnessed(s)
  BY DEF EngineTypes, Learned, Weights, Witnessed
<1>2. Patterns[n] \in Seq(Addresses) /\ Distinct(Patterns[n])
  BY FormatsAssumption DEF Distinct
<1> DEFINE sorted == Sorted(Patterns[n], shapes)
<1>3. sorted \in Seq(Addresses) /\ Distinct(sorted) /\ Len(sorted) = Len(Patterns[n])
  BY <1>1, <1>2, SortedList
<1>s. sorted # <<>>
  BY <1>2, <1>3
<1>t. Tried(n) = Cut(sorted)
  BY DEF Tried
<1> HIDE DEF sorted
<1>4. Tried(n) \in Seq(Addresses) /\ Len(Tried(n)) <= MaxCandidates
  BY <1>3, <1>s, <1>t, CutList
<1>a. PICK a : a = NoLookup
  OBVIOUS
<1>b. PICK b : b = [a EXCEPT !.stage = "probe"]
  OBVIOUS
<1>c. PICK c : c = [b EXCEPT !.order = Tried(n)]
  OBVIOUS
<1>d. PICK l : l = [c EXCEPT !.weight = shapes]
  OBVIOUS
<1>5. /\ a \in Lookups /\ a.status = "none" /\ a.confidence = 0
  <2>1. [s \in Shapes |-> 0] \in [Shapes -> Nat]
    OBVIOUS
  <2> QED
    BY <1>a, <2>1 DEF NoLookup, Lookups
<1>6. b \in Lookups /\ b.stage = "probe" /\ b.status = "none" /\ b.confidence = 0
  BY <1>5, <1>b DEF Lookups
<1>7. /\ c \in Lookups /\ c.stage = "probe" /\ c.status = "none" /\ c.confidence = 0
      /\ c.order = Tried(n)
  BY <1>4, <1>6, <1>c DEF Lookups
<1>8. /\ l \in Lookups /\ l.stage = "probe" /\ l.status = "none" /\ l.confidence = 0
      /\ l.order = Tried(n) /\ l.weight = shapes
  BY <1>1, <1>7, <1>d DEF Lookups, Weights
<1>9. Prepared(n, l)
  BY <1>1, <1>8 DEF Prepared, Tried
<1>10. Honest(n, l)
  BY <1>8 DEF Honest
<1>11. Sound(n, l)
  BY <1>4, <1>8, <1>9, <1>10 DEF Sound
<1> QED
  BY <1>a, <1>b, <1>c, <1>d, <1>11

\* What an action of the lookup n leaves.
LEMMA LookFrame ==
  ASSUME LookInv, NEW n \in Names, NEW l, Sound(n, l), look' = [look EXCEPT ![n] = l],
         UNCHANGED <<truth, engine>>
  PROVE  LookInv'
<1>1. \A m \in Names : Sound(m, look'[m])
  BY DEF LookInv
<1>3. exists' = exists /\ host' = host /\ told' = told
  BY DEF truth, engine
<1>4. \A m \in Names : Sound(m, look[m])'
  BY <1>1, <1>3 DEF Sound, Prepared, Honest, Excluded, Tries, Witnessed
<1>5. l \in Lookups
  BY DEF Sound
<1> QED
  BY <1>3, <1>4, <1>5 DEF LookInv

LEMMA LookStep == EngineTypes /\ Learned /\ LookInv /\ [Next]_vars => LookInv'
<1> SUFFICES ASSUME EngineTypes, Learned, LookInv, [Next]_vars PROVE LookInv'
  OBVIOUS
<1>0. \A n \in Names : Sound(n, look[n])
  BY DEF LookInv
<1>1. ASSUME NEW n \in Names, Prepare(n) PROVE LookInv'
  <2>0. UNCHANGED <<truth, engine>> /\ Sound(n, look[n])
    BY <1>0, <1>1 DEF Prepare
  <2>1. CASE host \in NoRoute
    <3>1. look' = [look EXCEPT ![n] = Say(n, "not_found", "none", 0)]
      BY <1>1, <2>1 DEF Prepare
    <3>2. Sound(n, Say(n, "not_found", "none", 0))
      BY <2>0, <2>1, NoMailSound DEF LookInv, NoRoute
    <3> QED
      BY <2>0, <3>1, <3>2, LookFrame
  <2>2. CASE host \notin NoRoute /\ Patterns[n] = <<>>
    <3>1. look' = [look EXCEPT ![n] = Say(n, "unknown", "none", 0)]
      BY <1>1, <2>2 DEF Prepare
    <3> QED
      BY <2>0, <3>1, UnknownSound, LookFrame
  <2>3. CASE host \notin NoRoute /\ Patterns[n] # <<>>
    <3>1. look' = [look EXCEPT ![n] = [NoLookup EXCEPT !.stage = "probe", !.order = Tried(n),
                                                       !.weight = shapes]]
      BY <1>1, <2>3 DEF Prepare
    <3>2. Sound(n, [NoLookup EXCEPT !.stage = "probe", !.order = Tried(n), !.weight = shapes])
      BY <2>3, TriedSound
    <3> QED
      BY <2>0, <3>1, <3>2, LookFrame
  <2> QED
    BY <2>1, <2>2, <2>3
<1>2. ASSUME NEW n \in Names, AskMicrosoft(n) PROVE LookInv'
  <2>0. /\ UNCHANGED <<truth, engine>> /\ Sound(n, look[n])
        /\ look[n].stage = "probe" /\ host = "microsoft"
    BY <1>0, <1>2 DEF AskMicrosoft
  <2>1. PICK listed \in SUBSET (IF blurred THEN Candidates(n) ELSE Candidates(n) \cap exists) :
          \E heard \in BOOLEAN :
            LET answer == IF blurred /\ heard THEN Guess(n)
                          ELSE IF listed = {} THEN Guess(n)
                          ELSE Say(n, "found", FirstIn(n, listed), 99)
            IN  look' = [look EXCEPT ![n] = [answer EXCEPT !.blind = blurred /\ ~heard]]
    BY <1>2 DEF AskMicrosoft
  <2>2. PICK heard \in BOOLEAN :
          LET answer == IF blurred /\ heard THEN Guess(n)
                        ELSE IF listed = {} THEN Guess(n)
                        ELSE Say(n, "found", FirstIn(n, listed), 99)
          IN  look' = [look EXCEPT ![n] = [answer EXCEPT !.blind = blurred /\ ~heard]]
    BY <2>1
  <2> DEFINE b == blurred /\ ~heard
  <2>b. b \in BOOLEAN
    OBVIOUS
  <2>3. CASE (blurred /\ heard) \/ listed = {}
    <3>1. look' = [look EXCEPT ![n] = [Guess(n) EXCEPT !.blind = b]]
      BY <2>2, <2>3
    <3> HIDE DEF b
    <3>2. Sound(n, [Guess(n) EXCEPT !.blind = b])
      BY <2>0, <2>b, GuessSound
    <3> QED
      BY <2>0, <3>1, <3>2, LookFrame
  <2>4. CASE ~(blurred /\ heard) /\ listed # {}
    <3>1. look' = [look EXCEPT ![n] = [Say(n, "found", FirstIn(n, listed), 99) EXCEPT !.blind = b]]
      BY <2>2, <2>4
    <3>2. listed \subseteq Candidates(n) /\ (b \/ listed \subseteq exists)
      BY <2>4
    <3> HIDE DEF b
    <3>3. Sound(n, [Say(n, "found", FirstIn(n, listed), 99) EXCEPT !.blind = b])
      BY <2>0, <2>4, <2>b, <3>2, ListedSound
    <3> QED
      BY <2>0, <3>1, <3>3, LookFrame
  <2> QED
    BY <2>3, <2>4
<1>3. ASSUME NEW n \in Names, AskSmtp(n) PROVE LookInv'
  <2>0. /\ UNCHANGED <<truth, engine>> /\ Sound(n, look[n])
        /\ look[n].stage = "probe" /\ host \notin NoRoute
    BY <1>0, <1>3 DEF AskSmtp, NoRoute
  <2>1. CASE look' = [look EXCEPT ![n] = Guess(n)]
    BY <2>0, <2>1, GuessSound, LookFrame
  <2>2. CASE \E T \in SUBSET (Candidates(n) \cap exists) :
               LET taken == (Candidates(n) \cap exists) \ T
                   answer == IF taken = {} THEN Say(n, "not_found", "none", 0)
                             ELSE Say(n, "found", FirstIn(n, taken), 98)
               IN  look' = [look EXCEPT ![n] = [answer EXCEPT !.spurned = T]]
    <3>1. PICK T \in SUBSET (Candidates(n) \cap exists) :
               LET taken == (Candidates(n) \cap exists) \ T
                   answer == IF taken = {} THEN Say(n, "not_found", "none", 0)
                             ELSE Say(n, "found", FirstIn(n, taken), 98)
               IN  look' = [look EXCEPT ![n] = [answer EXCEPT !.spurned = T]]
      BY <2>2
    <3> DEFINE taken == (Candidates(n) \cap exists) \ T
    <3>2. CASE taken = {}
      <4>1. look' = [look EXCEPT ![n] = [Say(n, "not_found", "none", 0) EXCEPT !.spurned = T]]
        BY <3>1, <3>2
      <4>2. Sound(n, [Say(n, "not_found", "none", 0) EXCEPT !.spurned = T])
        BY <2>0, <3>2, RefusedSound
      <4> QED
        BY <2>0, <4>1, <4>2, LookFrame
    <3>3. CASE taken # {}
      <4>1. look' = [look EXCEPT ![n] =
                       [Say(n, "found", FirstIn(n, taken), 98) EXCEPT !.spurned = T]]
        BY <3>1, <3>3
      <4>2. Sound(n, [Say(n, "found", FirstIn(n, taken), 98) EXCEPT !.spurned = T])
        BY <2>0, <3>3, TakenSound
      <4> QED
        BY <2>0, <4>1, <4>2, LookFrame
    <3> QED
      BY <3>2, <3>3
  <2> QED
    BY <1>3, <2>1, <2>2 DEF AskSmtp
<1>4. ASSUME NEW n \in Names, Unprobed(n) PROVE LookInv'
  BY <1>0, <1>4, GuessSound, LookFrame DEF Unprobed
<1>5. ASSUME NEW n \in Names, Fail(n) PROVE LookInv'
  BY <1>0, <1>5, UnknownSound, LookFrame DEF Fail
<1>6. CASE Begin \/ Tier35 \/ NoTier35 \/ Finish \/ UNCHANGED vars
  <2>1. exists' = exists /\ host' = host /\ look' = look /\ told \subseteq told'
    BY <1>6 DEF Begin, Tier35, NoTier35, Finish, vars, engine, truth
  <2>2. \A n \in Names : Sound(n, look[n])'
    BY <1>0, <2>1 DEF Sound, Prepared, Honest, Excluded, Tries, Witnessed
  <2> QED
    BY <2>1, <2>2 DEF LookInv
<1> QED
  BY <1>1, <1>2, <1>3, <1>4, <1>5, <1>6 DEF Next

LEMMA LookInit == Init => LookInv
<1> SUFFICES ASSUME Init PROVE LookInv
  OBVIOUS
<1>1. NoLookup \in Lookups
  <2>1. [s \in Shapes |-> 0] \in [Shapes -> Nat]
    OBVIOUS
  <2> QED
    BY <2>1 DEF NoLookup, Lookups
<1>2. ASSUME NEW n \in Names PROVE Sound(n, NoLookup)
  <2>1. PICK l : l = NoLookup
    OBVIOUS
  <2>2. /\ l.stage = "idle" /\ l.status = "none" /\ l.confidence = 0 /\ l.order = <<>>
        /\ \A s \in Shapes : l.weight[s] = 0
    BY <2>1 DEF NoLookup
  <2>3. Prepared(n, l)
    BY <2>2 DEF Prepared
  <2>4. Honest(n, l)
    BY <2>2 DEF Honest
  <2>5. Len(l.order) <= MaxCandidates
    BY <2>2, FormatsAssumption
  <2> QED
    BY <1>1, <2>1, <2>3, <2>4, <2>5 DEF Sound
<1>3. look = [n \in Names |-> NoLookup] /\ (host = "no_mail" => exists = {})
  BY DEF Init
<1> QED
  BY <1>1, <1>2, <1>3 DEF LookInv

\* What the finder answers can be relied on as far as its words go.
THEOREM AnswersAreHonest == Spec => []LookupIsHonest
<1>1. LookInv => LookupIsHonest
  BY DEF LookInv, Sound, Honest, LookupIsHonest, Excluded, Tries, Candidates, Witnessed
<1> QED
  BY <1>1, EngineInit, EngineStep, LearnedInit, LearnedStep, LookInit, LookStep, PTL DEF Spec

\* The truth is what it was.
LEMMA TruthTypes ==
  /\ Init => exists \subseteq Sought /\ host \in Hosts
                                     /\ blurred \in BOOLEAN
  /\ [Next]_vars => UNCHANGED truth
<1>1. Init => exists \subseteq Sought /\ host \in Hosts
                                     /\ blurred \in BOOLEAN
  BY DEF Init
<1>2. [Next]_vars => UNCHANGED truth
  BY DEF Next, Begin, Tier35, NoTier35, Finish, Prepare, AskMicrosoft, AskSmtp, Unprobed, Fail, vars
<1> QED
  BY <1>1, <1>2

\* Every variable of the two keeps its type.
THEOREM TypeCorrect == Spec => []TypeOK
<1> DEFINE Truth == exists \subseteq Sought /\ host \in Hosts
                                           /\ blurred \in BOOLEAN
<1>1. Init => Truth
  BY TruthTypes
<1>2. Truth /\ [Next]_vars => Truth'
  BY TruthTypes DEF truth
<1>3. Truth /\ EngineTypes /\ LookInv => TypeOK
  BY DEF EngineTypes, LookInv, Sound, TypeOK, Weights
<1> HIDE DEF Truth
<1> QED
  BY <1>1, <1>2, <1>3, EngineInit, EngineStep, LearnedInit, LearnedStep, LookInit, LookStep, PTL
     DEF Spec
=============================================================================
