------------------------------ MODULE Formats ------------------------------
(***************************************************************************)
(* What a run learns about the way one domain forms its addresses, and     *)
(* the two that guess with it:                                             *)
(*   tier 3.5 of the engine (prefilter/engine.py, prefilter/patterns.py)   *)
(*            scores what no probe could settle, and decides with the      *)
(*            score what is trusted unproven and what is not bought        *)
(*   the finder (prefilter/finder.py find, find_many) tries the candidates *)
(*            for a name in the order of the formats on file               *)
(* The tiers before 3.5 and the vendor may say anything here; what they    *)
(* say of whom is the subject of Engine.  The finder's conversation with a *)
(* mail server is SmtpProbe, of which FinderIsRight is used.               *)
(***************************************************************************)
EXTENDS Integers, Sequences, FiniteSets

CONSTANTS
  Addresses,   \* addresses of the domain
  Shape,       \* local_shape of an address
  Noise,       \* its gibberish_score in percent, 100 or a multiple of 15
  Roles,       \* addresses like info@ and sales@
  Names,       \* the people looked for
  Patterns,    \* name -> candidates, in the order of PATTERNS
  MaxCandidates,
  Lines,       \* pattern_threshold of a run: 0 is off
  MaxRuns,     \* bound on engine runs
  MaxRows      \* bound on the addresses of a run

Thresholds == 0 .. 100  \* vendor_threshold: CLEAROUT_THRESHOLD, 90 by default
LikelyFrom == 70        \* from this score on a guess is labelled likely_valid
Shapes == {Shape[a] : a \in Addresses}
\* The addresses a lookup may ask about
Sought == UNION {{Patterns[n][i] : i \in DOMAIN Patterns[n]} : n \in Names}

ASSUME FormatsAssumption ==
  /\ IsFiniteSet(Addresses)
  /\ Noise \in [Addresses -> 0 .. 100]
  /\ Roles \subseteq Addresses
  /\ Patterns \in [Names -> Seq(Addresses)]
  /\ \A n \in Names : \A i, j \in DOMAIN Patterns[n] :
       Patterns[n][i] = Patterns[n][j] => i = j
  /\ MaxCandidates \in Nat \ {0}
  /\ Lines \subseteq Nat /\ MaxRuns \in Nat /\ MaxRows \in Nat

VARIABLES
  exists,   \* truth: the addresses that have a mailbox
  host,     \* truth: Microsoft, one reached by SMTP or not at all, none; or an
            \* AAAA record alone, which takes mail and is taken for none
  blurred,  \* truth: it takes every recipient, or its directory knows everyone
  shapes,   \* domain_shapes: how often each format was proven
  stage,    \* the next tier of the engine run
  row,      \* its rows, address -> status, disposition, score
  line,     \* its pattern_threshold
  look,     \* the lookups of the finder, one for each name
  told,     \* history: addresses a probe, or an answer on file, called valid
  guessed,  \* history: addresses banked as likely_valid
  runs

truth == <<exists, host, blurred>>
engine == <<shapes, stage, row, line, told, guessed, runs>>
vars == <<truth, engine, look>>

Statuses == {"valid", "invalid", "unknown", "likely_valid"}
Hosts == {"no_mail", "aaaa", "microsoft", "smtp"}
Rows == [status : Statuses, open : BOOLEAN, score : {-1} \cup 0 .. 100]
Lookups ==
  [stage : {"idle", "probe", "done"},
   status : {"none", "found", "guess", "not_found", "unknown"},
   email : Addresses \cup {"none"}, confidence : {0, 45, 75, 98, 99},
   order : Seq(Addresses), weight : [Shapes -> Nat],
   spurned : SUBSET Addresses, blind : BOOLEAN]
NoLookup == [stage |-> "idle", status |-> "none", email |-> "none", confidence |-> 0,
             order |-> <<>>, weight |-> [s \in Shapes |-> 0], spurned |-> {}, blind |-> FALSE]

TypeOK ==
  /\ exists \subseteq Sought
  /\ host \in Hosts /\ blurred \in BOOLEAN
  /\ shapes \in [Shapes -> Nat]
  /\ stage \in {"start", "patterns", "vendor"}
  /\ DOMAIN row \subseteq Addresses /\ row \in [DOMAIN row -> Rows]
  /\ line \in Lines \cup {0}
  /\ told \subseteq Addresses /\ guessed \subseteq Addresses
  /\ runs \in 0 .. MaxRuns
  /\ look \in [Names -> Lookups]
  /\ \A n \in Names : Len(look[n].order) <= MaxCandidates

\* The domains classify finds no mail server for
NoRoute == {"no_mail", "aaaa"}

Init ==
  /\ host \in Hosts
  /\ exists \in (IF host = "no_mail" THEN {{}} ELSE SUBSET Sought)
  /\ blurred \in (IF host \in NoRoute THEN {FALSE} ELSE BOOLEAN)
  /\ shapes = [s \in Shapes |-> 0]
  /\ stage = "start" /\ row = [a \in {} |-> {}] /\ line = 0
  /\ told = {} /\ guessed = {} /\ runs = 0
  /\ look = [n \in Names |-> NoLookup]

-----------------------------------------------------------------------------
(* patterns.py.  A definition named Name_Fault is a faulty variant of Name *)
(* that some property must refuse.                                         *)

Evidence(profile) == \E s \in Shapes : profile[s] > 0
Fits(a, profile) == profile[Shape[a]] > 0

Read(a) == ((100 - Noise[a]) * 60) \div 100 + 20
Smaller(x, y) == IF x < y THEN x ELSE y
Larger(x, y) == IF x > y THEN x ELSE y

Score_Unclamped(a, profile) ==
  CASE a \in Roles -> 90
    [] a \notin Roles /\ ~Evidence(profile) -> Read(a)
    [] OTHER -> Read(a) + (IF Fits(a, profile) THEN 25 ELSE -35)

\* score_address: formats dominate how the local part reads; a role account is
\* near-always deliverable.
Score(a, profile) ==
  CASE a \in Roles -> 90
    [] a \notin Roles /\ ~Evidence(profile) -> Read(a)
    [] a \notin Roles /\ Fits(a, profile) -> Smaller(95, Read(a) + 25)
    [] OTHER -> Larger(5, Read(a) - 35)

-----------------------------------------------------------------------------
(* A run of the engine over some addresses of the domain.                  *)

Open(a) == row[a].open
Judged(status) == [status |-> status, open |-> status = "unknown", score |-> -1]

\* Tiers 0 to 3: a list, and what the database and the probes say of it.  A guess
\* on file settles its address as a proof does.
Begin ==
  /\ stage = "start" /\ runs < MaxRuns
  /\ runs' = runs + 1
  /\ line' \in Lines
  /\ \E list \in SUBSET Addresses :
       /\ Cardinality(list) \in 1 .. MaxRows
       /\ \E proof \in [list -> Statuses] :
            /\ \A a \in list : proof[a] = "likely_valid" => a \in guessed
            /\ row' = [a \in list |-> Judged(proof[a])]
            /\ told' = told \cup {a \in list : proof[a] = "valid"}
  /\ stage' = "patterns"
  /\ UNCHANGED <<truth, shapes, guessed, look>>

Proven_Guesses == {a \in DOMAIN row : row[a].status \in {"valid", "likely_valid"}}

\* The rows whose format is learned
Proven == {a \in DOMAIN row : row[a].status = "valid"}

\* What is on file for the domain, and what this run has proven - counted
\* again, if an earlier run has proven it before.
Profile == [s \in Shapes |-> shapes[s] + Cardinality({a \in Proven : Shape[a] = s})]

\* The pattern tier: it learns, and files what it has learned, only when there
\* is something to score.
Tier35 ==
  /\ stage = "patterns"
  /\ row' = [a \in DOMAIN row |->
       LET score == Score(a, Profile)
           trusted == line > 0 /\ score >= LikelyFrom /\ score >= line
       IN  IF ~Open(a) THEN row[a]
           ELSE [status |-> IF trusted THEN "likely_valid" ELSE row[a].status,
                 open |-> ~trusted, score |-> score]]
  /\ shapes' = IF \E a \in DOMAIN row : Open(a) THEN Profile ELSE shapes
  /\ stage' = "vendor"
  /\ UNCHANGED <<truth, line, look, told, guessed, runs>>

\* A run without the pattern tier
NoTier35 ==
  /\ stage = "patterns"
  /\ stage' = "vendor"
  /\ UNCHANGED <<truth, shapes, row, line, look, told, guessed, runs>>

\* What tier 4 buys: everything open below the line, and what was not scored.
Bought(a, threshold) == Open(a) /\ (row[a].score = -1 \/ row[a].score < threshold)

\* The end of the run, which banks its guesses.  What was bought teaches nothing
\* yet: the answer on file is a proof of the next run that lists the address.
Finish ==
  /\ stage = "vendor"
  /\ stage' = "start"
  /\ guessed' = guessed \cup {a \in DOMAIN row : row[a].status = "likely_valid"}
  /\ row' = [a \in {} |-> {}] /\ line' = 0
  /\ UNCHANGED <<truth, shapes, look, told, runs>>

-----------------------------------------------------------------------------
(* finder.py.                                                              *)

Cut(list) == SubSeq(list, 1, Smaller(MaxCandidates, Len(list)))

\* By falling weight; equal weights keep their order.
Before(list, weight, i, j) ==
  \/ weight[Shape[list[i]]] > weight[Shape[list[j]]]
  \/ weight[Shape[list[i]]] = weight[Shape[list[j]]] /\ i < j
Place(list, weight, j) == 1 + Cardinality({i \in DOMAIN list : Before(list, weight, i, j)})
Sorted(list, weight) ==
  [k \in DOMAIN list |-> list[CHOOSE j \in DOMAIN list : Place(list, weight, j) = k]]

Tried_CutFirst(n) == Sorted(Cut(Patterns[n]), shapes)

\* generate() and max_candidates
Tried(n) == Cut(Sorted(Patterns[n], shapes))

\* What find() answers
Say(n, status, email, confidence) ==
  [stage |-> "done", status |-> status, email |-> email, confidence |-> confidence,
   order |-> look[n].order, weight |-> look[n].weight, spurned |-> {}, blind |-> FALSE]
Guess(n) ==
  LET top == look[n].order[1]
  IN  Say(n, "guess", top, IF look[n].weight[Shape[top]] > 0 THEN 75 ELSE 45)

\* Before the first await of the probes: the route, the formats, the candidates.
Prepare(n) ==
  /\ look[n].stage = "idle"
  /\ look' = [look EXCEPT ![n] =
       CASE host \in NoRoute -> Say(n, "not_found", "none", 0)
         [] host \notin NoRoute /\ Patterns[n] = <<>> -> Say(n, "unknown", "none", 0)
         [] OTHER -> [NoLookup EXCEPT !.stage = "probe", !.order = Tried(n),
                                      !.weight = shapes]]
  /\ UNCHANGED <<truth, engine>>

Candidates(n) == {look[n].order[i] : i \in DOMAIN look[n].order}
FirstIn(n, S) ==
  look[n].order[CHOOSE i \in DOMAIN look[n].order :
                  /\ look[n].order[i] \in S
                  /\ \A j \in 1 .. i - 1 : look[n].order[j] \notin S]

\* Microsoft's directory.  It lists some of those that exist, the sign-in names
\* it gave an answer about; to be unlisted proves nothing.  Blind is a
\* tenant that knows everyone and whose control query was lost.
AskMicrosoft(n) ==
  /\ look[n].stage = "probe" /\ host = "microsoft"
  /\ \E listed \in SUBSET (IF blurred THEN Candidates(n) ELSE Candidates(n) \cap exists),
        heard \in BOOLEAN :
       LET answer == IF blurred /\ heard THEN Guess(n)
                     ELSE IF listed = {} THEN Guess(n)
                     ELSE Say(n, "found", FirstIn(n, listed), 99)
       IN  look' = [look EXCEPT ![n] = [answer EXCEPT !.blind = blurred /\ ~heard]]
  /\ UNCHANGED <<truth, engine>>

\* SMTP, as SmtpProbe has it: spurned are existing candidates that were
\* deferred, refused for another reason, or are full.  The conversation may
\* also break off, or not begin.
AskSmtp(n) ==
  /\ look[n].stage = "probe" /\ host = "smtp"
  /\ \/ look' = [look EXCEPT ![n] = Guess(n)]
     \/ /\ ~blurred
        /\ \E spurned \in SUBSET (Candidates(n) \cap exists) :
             LET taken == (Candidates(n) \cap exists) \ spurned
                 answer == IF taken = {} THEN Say(n, "not_found", "none", 0)
                           ELSE Say(n, "found", FirstIn(n, taken), 98)
             IN  look' = [look EXCEPT ![n] = [answer EXCEPT !.spurned = spurned]]
  /\ UNCHANGED <<truth, engine>>

\* A gateway, a domain no resolver could answer for, or SMTP not enabled
Unprobed(n) ==
  /\ look[n].stage = "probe"
  /\ look' = [look EXCEPT ![n] = Guess(n)]
  /\ UNCHANGED <<truth, engine>>

\* find_many turns an exception into an answer.
Fail(n) ==
  /\ look[n].stage = "probe"
  /\ look' = [look EXCEPT ![n] = Say(n, "unknown", "none", 0)]
  /\ UNCHANGED <<truth, engine>>

-----------------------------------------------------------------------------

Next ==
  \/ Begin \/ Tier35 \/ NoTier35 \/ Finish
  \/ \E n \in Names : Prepare(n) \/ AskMicrosoft(n) \/ AskSmtp(n) \/ Unprobed(n) \/ Fail(n)

Spec == Init /\ [][Next]_vars

-----------------------------------------------------------------------------
(* Properties.                                                             *)

\* A guess follows the evidence, which is what was proven, in any run: not what
\* runs have guessed, though guesses are served from the table as proofs are.  A
\* run promotes an address only if it is a role account, has a format someone was
\* proven to have, or nothing is proven of the domain.  And what is neither proven
\* nor bought, because its score is at the vendor's line, is one of the first two,
\* at any line above 80; a line down to 46 keeps a good-looking name as well, if
\* nothing is proven of the domain; a lower one may keep anything
\* (engine.py:251-276, 299-310, patterns.py:158-174, main.py:134-135).
GuessesFollowEvidence ==
  stage = "vendor" =>
    \A a \in DOMAIN row :
      LET founded == a \in Roles \/ \E b \in told : Shape[b] = Shape[a]
          known == \E s \in Shapes : shapes[s] > 0
      IN  /\ row[a].status = "likely_valid" /\ row[a].score # -1 => founded \/ ~known
          /\ \A threshold \in Thresholds :
               Open(a) /\ ~Bought(a, threshold) =>
                 founded \/ threshold <= (IF known THEN 45 ELSE 80)

\* What find() answers can be relied on as far as its words go.  Found: the
\* mailbox exists, and a candidate before it that exists was turned away or is
\* no sign-in name, unless Microsoft's control query was lost.  Not found: no
\* candidate that was tried exists, but for those turned away; and no candidate
\* at all, where there is no mail server - unless the domain has an AAAA record
\* alone, which classify takes for none (providers.py:107-112, finder.py:216-219).
\* A guess has the format that was best known when the lookup began, of all the
\* name could have, those cut off included; confidence 75 says that someone was
\* proven to have it (finder.py:113-118, 222-273).
LookupIsHonest ==
  \A n \in Names :
    LET l == look[n]
        position == {i \in DOMAIN l.order : l.order[i] = l.email}
        tried == IF host \in NoRoute THEN {Patterns[n][i] : i \in DOMAIN Patterns[n]}
                 ELSE Candidates(n)
    IN
    /\ l.status = "found" /\ ~l.blind =>
         /\ l.email \in Candidates(n) \cap exists
         /\ \A i \in position : \A j \in 1 .. i - 1 :
              l.order[j] \in exists => l.order[j] \in l.spurned \/ host = "microsoft"
    /\ l.status = "not_found" /\ host # "aaaa" => tried \cap exists \subseteq l.spurned
    /\ l.status = "guess" =>
         \A i \in DOMAIN Patterns[n] : l.weight[Shape[Patterns[n][i]]] <= l.weight[Shape[l.email]]
    /\ l.confidence = 75 => \E a \in told : Shape[a] = Shape[l.email]
=============================================================================
