--------------------------- MODULE BankingProofs ---------------------------
(***************************************************************************)
(* Proofs about Banking: type correctness, that runs implement Purse, that *)
(* rows, ledger and jobs agree about credits, and that an address is bought *)
(* again only for a reason - for any runs, lists, vendors, and numbers of  *)
(* restarts and faults.                                                    *)
(***************************************************************************)
EXTENDS Banking, FiniteSetTheorems, TLAPS

-----------------------------------------------------------------------------
(* Types.                                                                  *)

\* The vendor sells none of the words that stand for no answer.
LEMMA NotSold ==
  /\ Answers \subseteq {"valid", "invalid", "catch_all", "unknown"}
  /\ "none" \notin Answers /\ "unanswered" \notin Answers
BY BankingAssumption DEF Statuses

LEMMA BoundsType == MaxCrashes \in Nat /\ MaxFaults \in Nat
BY BankingAssumption

Stages == {"idle", "accepted", "probing", "buying", "banked", "written", "recorded", "over"}
JobStates == {"none", "queued", "running", "done", "failed"}
Replies == Answers \cup {"none", "unanswered"}

\* The types of what a run changes
RunTypes ==
  /\ stage \in [Runs -> Stages]
  /\ verdict \in [Runs -> [Addresses -> Verdicts]]
  /\ answer \in [Runs -> [Addresses -> Replies]]
  /\ cache \in [Addresses -> Rows]

BookTypes ==
  /\ job \in [Runs -> JobStates]
  /\ credits \in [Runs -> Nat] /\ spend \in Nat
  /\ paid \in [Addresses -> Nat]
  /\ knew \in [Runs -> SUBSET Addresses]

PurchaseTypes ==
  /\ banked \subseteq Runs \X Addresses /\ lost \subseteq Runs \X Addresses
  /\ good \subseteq Addresses

BoundTypes == crashes \in 0 .. MaxCrashes /\ faults \in 0 .. MaxFaults

LEMMA TypeParts ==
  TypeOK <=> kind \in Castings /\ RunTypes /\ BookTypes /\ PurchaseTypes /\ BoundTypes
BY DEF TypeOK, RunTypes, BookTypes, PurchaseTypes, BoundTypes, Stages, JobStates, Replies

LEMMA HeldType == \A r \in Runs : HeldBy(r) \subseteq Runs \X Addresses
BY DEF HeldBy, BoughtBy

LEMMA BilledType ==
  ASSUME NEW r \in Runs
  PROVE  Billed(r) \in Nat
<1>1. IsFiniteSet({a \in ListOf[r] : verdict[r][a].tier = "clearout"})
  <2>1. ListOf[r] \subseteq Addresses /\ IsFiniteSet(Addresses)
    BY BankingAssumption
  <2> QED
    BY <2>1, FS_Subset
<1> QED
  BY <1>1, FS_CardinalityType DEF Billed

\* A bought answer, or what was known of the address, is a verdict.
LEMMA BoughtType ==
  ASSUME TypeOK, NEW r \in Runs
  PROVE  Bought(r) \in [Addresses -> Verdicts]
<1> SUFFICES ASSUME NEW a \in Addresses PROVE Bought(r)[a] \in Verdicts
  BY DEF Bought
<1>1. CASE a \in BoughtBy(r)
  <2>1. answer[r][a] \in Statuses
    BY <1>1, NotSold DEF BoughtBy, Statuses
  <2> QED
    BY <1>1, <2>1 DEF Bought, Verdicts, Tiers
<1>2. CASE a \notin BoughtBy(r)
  BY <1>2 DEF Bought, TypeOK
<1> QED
  BY <1>1, <1>2

LEMMA RunTypesStep == TypeOK /\ [Next]_vars => RunTypes'
<1> SUFFICES ASSUME TypeOK, [Next]_vars PROVE RunTypes'
  OBVIOUS
<1>0. RunTypes
  BY TypeParts
<1> USE DEF memory, tables
<1>1. ASSUME UNCHANGED <<verdict, answer, cache>>,
             \/ UNCHANGED stage
             \/ \E r \in Runs, s \in Stages : SetStage(r, s)
      PROVE  RunTypes'
  BY <1>0, <1>1 DEF RunTypes, SetStage
<1>2. ASSUME NEW r \in Runs, Lookup(r) PROVE RunTypes'
  <2>1. \A a \in Addresses : cache[a].status \in Statuses
    BY <1>0 DEF RunTypes, Rows
  <2>2. Pending \in Verdicts /\ \A s \in Statuses : [tier |-> "cache", status |-> s] \in Verdicts
    BY DEF Pending, Verdicts, Tiers, Statuses
  <2>3. [a \in Addresses |->
           IF a \in ListOf[r] /\ r \in Keepers /\ Servable(a)
           THEN [tier |-> "cache", status |-> cache[a].status]
           ELSE Pending] \in [Addresses -> Verdicts]
    BY <2>1, <2>2
  <2>4. verdict' \in [Runs -> [Addresses -> Verdicts]]
    BY <1>0, <1>2, <2>3 DEF Lookup, RunTypes
  <2> QED
    BY <1>0, <1>2, <2>4 DEF Lookup, RunTypes, SetStage, Stages
<1>3. ASSUME NEW r \in Runs, Settle(r) PROVE RunTypes'
  <2>1. PICK proven \in SUBSET Unproven(r) :
          \E sure \in SUBSET (Unproven(r) \ proven), proof \in [proven -> Proofs] :
            /\ verdict' = [verdict EXCEPT ![r] = [a \in Addresses |->
                 CASE a \in proven -> [tier |-> "probe", status |-> proof[a]]
                   [] a \in sure /\ r \in OptedIn ->
                        [tier |-> "pattern", status |-> "likely_valid"]
                   [] OTHER -> verdict[r][a]]]
            /\ answer' = [answer EXCEPT ![r] = [a \in Addresses |->
                 IF a \in sure /\ r \notin OptedIn THEN "unanswered" ELSE "none"]]
    BY <1>3 DEF Settle
  <2>2. PICK sure \in SUBSET (Unproven(r) \ proven) :
          \E proof \in [proven -> Proofs] :
            /\ verdict' = [verdict EXCEPT ![r] = [a \in Addresses |->
                 CASE a \in proven -> [tier |-> "probe", status |-> proof[a]]
                   [] a \in sure /\ r \in OptedIn ->
                        [tier |-> "pattern", status |-> "likely_valid"]
                   [] OTHER -> verdict[r][a]]]
            /\ answer' = [answer EXCEPT ![r] = [a \in Addresses |->
                 IF a \in sure /\ r \notin OptedIn THEN "unanswered" ELSE "none"]]
    BY <2>1
  <2>3. PICK proof \in [proven -> Proofs] :
            /\ verdict' = [verdict EXCEPT ![r] = [a \in Addresses |->
                 CASE a \in proven -> [tier |-> "probe", status |-> proof[a]]
                   [] a \in sure /\ r \in OptedIn ->
                        [tier |-> "pattern", status |-> "likely_valid"]
                   [] OTHER -> verdict[r][a]]]
            /\ answer' = [answer EXCEPT ![r] = [a \in Addresses |->
                 IF a \in sure /\ r \notin OptedIn THEN "unanswered" ELSE "none"]]
    BY <2>2
  <2> DEFINE settled == [a \in Addresses |->
                 CASE a \in proven -> [tier |-> "probe", status |-> proof[a]]
                   [] a \in sure /\ r \in OptedIn ->
                        [tier |-> "pattern", status |-> "likely_valid"]
                   [] OTHER -> verdict[r][a]]
  <2>4. settled \in [Addresses -> Verdicts]
    <3> SUFFICES ASSUME NEW a \in Addresses PROVE settled[a] \in Verdicts
      OBVIOUS
    <3>1. verdict[r][a] \in Verdicts
      BY <1>0 DEF RunTypes
    <3>2. [tier |-> "pattern", status |-> "likely_valid"] \in Verdicts
      BY DEF Verdicts, Tiers, Statuses
    <3>3. a \in proven => [tier |-> "probe", status |-> proof[a]] \in Verdicts
      BY <2>3, BankingAssumption DEF Verdicts, Tiers, Statuses
    <3> QED
      BY <3>1, <3>2, <3>3
  <2>5. verdict' = [verdict EXCEPT ![r] = settled]
    BY <2>3
  <2> HIDE DEF settled
  <2>6. verdict' \in [Runs -> [Addresses -> Verdicts]]
    BY <1>0, <2>4, <2>5 DEF RunTypes
  <2>7. answer' \in [Runs -> [Addresses -> Replies]]
    BY <1>0, <2>3 DEF RunTypes, Replies
  <2> QED
    BY <1>0, <1>3, <2>6, <2>7 DEF Settle, RunTypes, SetStage, Stages
<1>4. ASSUME NEW r \in Runs, Return(r) PROVE RunTypes'
  <2>1. verdict' \in [Runs -> [Addresses -> Verdicts]]
    BY <1>0, <1>4, BoughtType DEF Return, RunTypes
  <2>2. answer' \in [Runs -> [Addresses -> Replies]]
    BY <1>0, <1>4 DEF Return, RunTypes, NoAnswers, Replies
  <2>3. cache' \in [Addresses -> Rows]
    <3> SUFFICES ASSUME NEW a \in Addresses PROVE cache'[a] \in Rows
      BY <1>4 DEF Return, BankVerdicts
    <3>1. Bought(r)[a].tier \in Tiers /\ Bought(r)[a].status \in Statuses
      BY BoughtType DEF Verdicts
    <3>2. cache[a] \in Rows
      BY <1>0 DEF RunTypes
    <3> QED
      BY <1>4, <3>1, <3>2 DEF Return, BankVerdicts, Rows
  <2> QED
    BY <1>0, <1>4, <2>1, <2>2, <2>3 DEF Return, RunTypes, SetStage, Stages
<1>5. ASSUME NEW r \in Runs, NEW a \in Addresses, Buy(r, a) \/ NoReply(r, a) PROVE RunTypes'
  <2>1. PICK s \in Replies : answer' = [answer EXCEPT ![r][a] = s]
    BY <1>5 DEF Buy, NoReply, Replies
  <2>2. answer' = [answer EXCEPT ![r] = [answer[r] EXCEPT ![a] = s]]
    BY <1>0, <2>1 DEF RunTypes
  <2>3. [answer[r] EXCEPT ![a] = s] \in [Addresses -> Replies]
    BY <1>0 DEF RunTypes
  <2> QED
    BY <1>0, <1>5, <2>2, <2>3 DEF Buy, NoReply, RunTypes
<1>6. ASSUME NEW r \in Runs, Fault(r) PROVE RunTypes'
  BY <1>0, <1>6 DEF Fault, RunTypes, SetStage, Stages, NoAnswers, Replies
<1>7. CASE Crash
  BY <1>0, <1>7 DEF Crash, RunTypes, Stages, NoAnswers, Replies
<1>8. ASSUME NEW a \in Addresses, Expire(a) PROVE RunTypes'
  <2>1. cache' = [cache EXCEPT ![a] = [cache[a] EXCEPT !.fresh = FALSE]]
    BY <1>0, <1>8 DEF Expire, RunTypes
  <2>2. [cache[a] EXCEPT !.fresh = FALSE] \in Rows
    BY <1>0 DEF RunTypes, Rows
  <2> QED
    BY <1>0, <1>8, <2>1, <2>2 DEF Expire, RunTypes
<1>9. ASSUME NEW r \in Runs, Accept(r) \/ OpenFails(r) PROVE RunTypes'
  BY <1>1, <1>9 DEF Accept, OpenFails, Stages
<1>10. ASSUME NEW r \in Runs, WriteResults(r) \/ RecordSpend(r) \/ Finish(r) PROVE RunTypes'
  BY <1>1, <1>10 DEF WriteResults, RecordSpend, Finish, Stages
<1>11. CASE AllOver \/ UNCHANGED vars
  BY <1>1, <1>11 DEF AllOver, vars
<1> QED
  BY <1>2, <1>3, <1>4, <1>5, <1>6, <1>7, <1>8, <1>9, <1>10, <1>11 DEF Next

LEMMA BookTypesStep == TypeOK /\ [Next]_vars => BookTypes' /\ kind' = kind
<1> SUFFICES ASSUME TypeOK, [Next]_vars PROVE BookTypes' /\ kind' = kind
  OBVIOUS
<1>0. BookTypes
  BY TypeParts
<1> USE DEF tables
<1>1. ASSUME NEW r \in Runs, NEW s \in JobStates, SetJob(r, s)
      PROVE  job' \in [Runs -> JobStates]
  BY <1>0, <1>1 DEF SetJob, BookTypes
<1>2. ASSUME NEW r \in Runs, Accept(r) \/ Fault(r) \/ OpenFails(r) PROVE BookTypes' /\ kind' = kind
  BY <1>0, <1>1, <1>2 DEF Accept, Fault, OpenFails, BookTypes, JobStates
<1>3. ASSUME NEW r \in Runs, Lookup(r) PROVE BookTypes' /\ kind' = kind
  BY <1>0, <1>1, <1>3, TypeParts DEF Lookup, BookTypes, PurchaseTypes, JobStates
<1>4. ASSUME NEW r \in Runs, NEW a \in Addresses, Buy(r, a) PROVE BookTypes' /\ kind' = kind
  BY <1>0, <1>4 DEF Buy, BookTypes
<1>5. ASSUME NEW r \in Runs, RecordSpend(r) PROVE BookTypes' /\ kind' = kind
  <2>1. spend' \in Nat
    BY <1>0, <1>5, BilledType DEF RecordSpend, BookTypes
  <2> QED
    BY <1>0, <1>5, <2>1 DEF RecordSpend, BookTypes
<1>6. ASSUME NEW r \in Runs, Finish(r) PROVE BookTypes' /\ kind' = kind
  <2>1. credits' \in [Runs -> Nat]
    BY <1>0, <1>6, BilledType DEF Finish, BookTypes
  <2>2. job' \in [Runs -> JobStates]
    BY <1>1, <1>6 DEF Finish, JobStates
  <2> QED
    BY <1>0, <1>6, <2>1, <2>2 DEF Finish, BookTypes
<1>7. CASE UNCHANGED <<kind, job, credits, spend, paid, knew>>
  BY <1>0, <1>7 DEF BookTypes
<1>8. ASSUME NEW r \in Runs, Settle(r) \/ Return(r) \/ WriteResults(r)
      PROVE  UNCHANGED <<kind, job, credits, spend, paid, knew>>
  BY <1>8 DEF Settle, Return, WriteResults
<1>9. ASSUME NEW r \in Runs, NEW a \in Addresses, NoReply(r, a)
      PROVE  UNCHANGED <<kind, job, credits, spend, paid, knew>>
  BY <1>9 DEF NoReply
<1>10. ASSUME NEW a \in Addresses, Expire(a)
       PROVE  UNCHANGED <<kind, job, credits, spend, paid, knew>>
  BY <1>10 DEF Expire
<1>11. CASE Crash \/ AllOver \/ UNCHANGED vars
  BY <1>7, <1>11 DEF Crash, AllOver, vars
<1> QED
  BY <1>2, <1>3, <1>4, <1>5, <1>6, <1>7, <1>8, <1>9, <1>10, <1>11 DEF Next

LEMMA PurchaseTypesStep == TypeOK /\ [Next]_vars => PurchaseTypes' /\ BoundTypes'
<1> SUFFICES ASSUME TypeOK, [Next]_vars PROVE PurchaseTypes' /\ BoundTypes'
  OBVIOUS
<1>0. PurchaseTypes /\ BoundTypes
  BY TypeParts
<1> USE DEF purchases, counters
<1>1. ASSUME NEW r \in Runs, Return(r) PROVE PurchaseTypes' /\ BoundTypes'
  BY <1>0, <1>1, HeldType DEF Return, PurchaseTypes, BoundTypes, BoughtBy
<1>2. ASSUME NEW r \in Runs, Fault(r) PROVE PurchaseTypes' /\ BoundTypes'
  BY <1>0, <1>2, HeldType, BoundsType DEF Fault, PurchaseTypes, BoundTypes
<1>3. ASSUME NEW r \in Runs, OpenFails(r) PROVE PurchaseTypes' /\ BoundTypes'
  BY <1>0, <1>3, BoundsType DEF OpenFails, PurchaseTypes, BoundTypes
<1>4. CASE Crash
  <2>1. PICK gone \in SUBSET Runs : lost' = lost \cup UNION {HeldBy(r) : r \in gone}
    BY <1>4 DEF Crash
  <2>2. UNION {HeldBy(r) : r \in gone} \subseteq Runs \X Addresses
    BY HeldType
  <2> QED
    BY <1>0, <1>4, <2>1, <2>2, BoundsType DEF Crash, PurchaseTypes, BoundTypes
<1>5. CASE UNCHANGED <<banked, lost, good, crashes, faults>>
  BY <1>0, <1>5 DEF PurchaseTypes, BoundTypes
<1>6. ASSUME NEW r \in Runs, Accept(r) \/ Lookup(r) \/ Settle(r)
      PROVE  UNCHANGED <<banked, lost, good, crashes, faults>>
  BY <1>6 DEF Accept, Lookup, Settle
<1>7. ASSUME NEW r \in Runs, WriteResults(r) \/ RecordSpend(r) \/ Finish(r)
      PROVE  UNCHANGED <<banked, lost, good, crashes, faults>>
  BY <1>7 DEF WriteResults, RecordSpend, Finish
<1>8. ASSUME NEW r \in Runs, NEW a \in Addresses, Buy(r, a) \/ NoReply(r, a)
      PROVE  UNCHANGED <<banked, lost, good, crashes, faults>>
  BY <1>8 DEF Buy, NoReply
<1>9. ASSUME NEW a \in Addresses, Expire(a) PROVE PurchaseTypes' /\ BoundTypes'
  BY <1>0, <1>9 DEF Expire, PurchaseTypes, BoundTypes
<1>10. CASE AllOver \/ UNCHANGED vars
  BY <1>5, <1>10 DEF AllOver, vars
<1> QED
  BY <1>1, <1>2, <1>3, <1>4, <1>5, <1>6, <1>7, <1>8, <1>9, <1>10 DEF Next

LEMMA TypeStep == TypeOK /\ [Next]_vars => TypeOK'
<1> SUFFICES ASSUME TypeOK, [Next]_vars PROVE TypeOK'
  OBVIOUS
<1>1. RunTypes' /\ BookTypes' /\ PurchaseTypes' /\ BoundTypes' /\ kind' \in Castings
  BY RunTypesStep, BookTypesStep, PurchaseTypesStep, TypeParts
<1> QED
  BY <1>1 DEF TypeOK, RunTypes, BookTypes, PurchaseTypes, BoundTypes, Stages, JobStates, Replies

LEMMA TypeInit == Init => TypeOK
<1> SUFFICES ASSUME Init PROVE TypeOK
  OBVIOUS
<1>1. RunTypes
  BY DEF Init, RunTypes, Stages, Pending, Verdicts, Tiers, Statuses, NoAnswers, Replies, NoRow, Rows
<1>2. BookTypes /\ PurchaseTypes /\ kind \in Castings
  BY DEF Init, BookTypes, PurchaseTypes, JobStates
<1>3. BoundTypes
  BY BoundsType DEF Init, BoundTypes
<1> QED
  BY <1>1, <1>2, <1>3, TypeParts

\* TypeOK holds of every reachable state.
THEOREM TypeCorrect == Spec => []TypeOK
BY TypeInit, TypeStep, PTL DEF Spec

-----------------------------------------------------------------------------
(* Purchases: held while a run buys, settled when it returns.              *)

\* A run holds purchases only while it buys, and none of its purchases is
\* settled before it has returned.
HoldsWhileBuying == \A r \in Runs : stage[r] # "buying" => BoughtBy(r) = {}
SettledAfter == \A r \in Runs : stage[r] \in Before => \A p \in banked \cup lost : p[1] # r

Flow == HoldsWhileBuying /\ SettledAfter

Held == UNION {HeldBy(r) : r \in Runs}

LEMMA HeldPairs ==
  \A r, a : <<r, a>> \in Held <=> r \in Runs /\ a \in BoughtBy(r)
BY DEF Held, HeldBy

LEMMA HeldOfRun ==
  ASSUME NEW r \in Runs
  PROVE  /\ {p \in Held : p[1] = r} = HeldBy(r)
         /\ \A p \in HeldBy(r) : p[1] = r
BY DEF Held, HeldBy

\* The purchases of the runs whose answers a step leaves alone stay.
LEMMA HeldFrame ==
  ASSUME TypeOK, NEW R \in SUBSET Runs,
         \A s \in Runs \ R : answer'[s] = answer[s],
         \A r \in R : answer'[r] = NoAnswers
  PROVE  Held' = {p \in Held : p[1] \notin R}
<1>1. \A r \in R : BoughtBy(r)' = {}
  BY NotSold DEF BoughtBy, NoAnswers
<1>2. \A s \in Runs \ R : HeldBy(s)' = HeldBy(s)
  BY DEF HeldBy, BoughtBy
<1>3. \A r \in R : HeldBy(r)' = {}
  BY <1>1 DEF HeldBy
<1> QED
  BY <1>2, <1>3, HeldOfRun DEF Held

LEMMA SettleFrame ==
  ASSUME TypeOK, Flow, NEW r \in Runs, Settle(r)
  PROVE  BoughtBy(r) = {} /\ BoughtBy(r)' = {} /\ \A s \in Runs \ {r} : answer'[s] = answer[s]
<1>1. PICK answered : answer' = [answer EXCEPT ![r] = answered]
                      /\ \A a \in Addresses : answered[a] \in {"unanswered", "none"}
  <2>1. \E sure : answer' = [answer EXCEPT ![r] = [a \in Addresses |->
                    IF a \in sure /\ r \notin OptedIn THEN "unanswered" ELSE "none"]]
    BY DEF Settle
  <2>2. PICK sure : answer' = [answer EXCEPT ![r] = [a \in Addresses |->
                    IF a \in sure /\ r \notin OptedIn THEN "unanswered" ELSE "none"]]
    BY <2>1
  <2> DEFINE answered == [a \in Addresses |->
                    IF a \in sure /\ r \notin OptedIn THEN "unanswered" ELSE "none"]
  <2>3. answer' = [answer EXCEPT ![r] = answered]
    BY <2>2
  <2>4. \A a \in Addresses : answered[a] \in {"unanswered", "none"}
    OBVIOUS
  <2> HIDE DEF answered
  <2> QED
    BY <2>3, <2>4
<1>2. BoughtBy(r)' = {}
  BY <1>1, NotSold DEF BoughtBy, TypeOK
<1>3. BoughtBy(r) = {}
  BY DEF Settle, Flow, HoldsWhileBuying
<1> QED
  BY <1>1, <1>2, <1>3 DEF TypeOK

LEMMA ReplyFrame ==
  ASSUME TypeOK, NEW r \in Runs, NEW a \in Addresses, Buy(r, a) \/ NoReply(r, a)
  PROVE  /\ a \notin BoughtBy(r)
         /\ \A s \in Runs \ {r} : answer'[s] = answer[s]
         /\ Buy(r, a) => BoughtBy(r)' = BoughtBy(r) \cup {a}
         /\ NoReply(r, a) => BoughtBy(r)' = BoughtBy(r)
<1>1. a \notin BoughtBy(r)
  BY NotSold DEF Buy, NoReply, Targets, BoughtBy
<1>2. PICK s : answer' = [answer EXCEPT ![r][a] = s]
               /\ (Buy(r, a) => s \in Answers) /\ (NoReply(r, a) => s = "unanswered")
  <2>1. CASE Buy(r, a) /\ ~ NoReply(r, a)
    BY <2>1 DEF Buy
  <2>2. CASE NoReply(r, a) /\ ~ Buy(r, a)
    BY <2>2 DEF NoReply
  <2>3. ~ (Buy(r, a) /\ NoReply(r, a))
    <3> SUFFICES ASSUME Buy(r, a), NoReply(r, a) PROVE FALSE
      OBVIOUS
    <3>1. paid' = [paid EXCEPT ![a] = paid[a] + 1] /\ paid' = paid
      BY DEF Buy, NoReply
    <3>2. paid[a] = paid[a] + 1 /\ paid[a] \in Nat
      BY <3>1 DEF TypeOK
    <3> QED
      BY <3>2
  <2> QED
    BY <2>1, <2>2, <2>3
<1>3. answer'[r] = [answer[r] EXCEPT ![a] = s] /\ \A t \in Runs \ {r} : answer'[t] = answer[t]
  BY <1>2 DEF TypeOK
<1>4. answer'[r][a] = s /\ \A b \in Addresses \ {a} : answer'[r][b] = answer[r][b]
  BY <1>3 DEF TypeOK
<1> QED
  BY <1>1, <1>2, <1>3, <1>4, NotSold DEF BoughtBy

LEMMA FlowStep == TypeOK /\ Flow /\ [Next]_vars => Flow'
<1> SUFFICES ASSUME TypeOK, Flow, [Next]_vars PROVE Flow'
  OBVIOUS
<1>0. stage \in [Runs -> Stages]
  BY TypeParts DEF RunTypes
<1> USE DEF purchases, memory
\* A step that settles nothing, holds nothing new and moves a run on.
<1>1. ASSUME NEW r \in Runs, NEW s \in Stages, SetStage(r, s),
             UNCHANGED <<answer, banked, lost>>,
             stage[r] # "buying" /\ (s \in Before => stage[r] \in Before)
      PROVE  Flow'
  BY <1>0, <1>1 DEF SetStage, Flow, HoldsWhileBuying, SettledAfter, BoughtBy
<1>2. ASSUME NEW r \in Runs, Accept(r) \/ Lookup(r) \/ OpenFails(r) PROVE Flow'
  BY <1>1, <1>2 DEF Accept, Lookup, OpenFails, Stages, Before
<1>3. ASSUME NEW r \in Runs, WriteResults(r) \/ RecordSpend(r) \/ Finish(r) PROVE Flow'
  BY <1>1, <1>3 DEF WriteResults, RecordSpend, Finish, Stages, Before
<1>4. ASSUME NEW r \in Runs, Settle(r) PROVE Flow'
  <2>1. BoughtBy(r)' = {} /\ \A s \in Runs \ {r} : BoughtBy(s)' = BoughtBy(s)
    BY <1>4, SettleFrame DEF BoughtBy
  <2>2. stage' = [stage EXCEPT ![r] = "buying"] /\ stage[r] = "probing"
        /\ UNCHANGED <<banked, lost>>
    BY <1>4 DEF Settle, SetStage
  <2> QED
    BY <1>0, <2>1, <2>2 DEF Flow, HoldsWhileBuying, SettledAfter, Before
<1>5. ASSUME NEW r \in Runs, NEW a \in Addresses, Buy(r, a) \/ NoReply(r, a) PROVE Flow'
  <2>1. \A s \in Runs \ {r} : BoughtBy(s)' = BoughtBy(s)
    BY <1>5, ReplyFrame DEF BoughtBy
  <2>2. stage' = stage /\ stage[r] = "buying" /\ UNCHANGED <<banked, lost>>
    BY <1>5 DEF Buy, NoReply
  <2> QED
    BY <2>1, <2>2 DEF Flow, HoldsWhileBuying, SettledAfter
\* A step that ends the buying of some runs and settles purchases of theirs only.
<1>6. ASSUME NEW R \in SUBSET Runs, stage' \in [Runs -> Stages],
             \A s \in Runs \ R : answer'[s] = answer[s] /\ stage'[s] = stage[s],
             \A r \in R : answer'[r] = NoAnswers /\ stage'[r] \notin Before,
             \A p \in banked' \cup lost' : p \in banked \cup lost \/ p[1] \in R
      PROVE  Flow'
  <2>1. \A r \in R : BoughtBy(r)' = {}
    BY <1>6, NotSold DEF BoughtBy, NoAnswers
  <2>2. \A s \in Runs \ R : BoughtBy(s)' = BoughtBy(s)
    BY <1>6 DEF BoughtBy
  <2>3. HoldsWhileBuying'
    BY <1>6, <2>1, <2>2 DEF Flow, HoldsWhileBuying
  <2>4. SettledAfter'
    BY <1>6 DEF Flow, SettledAfter
  <2> QED
    BY <2>3, <2>4 DEF Flow
<1>7. ASSUME NEW r \in Runs, Return(r) \/ Fault(r) PROVE Flow'
  <2>1. PICK s \in {"banked", "over"} : stage' = [stage EXCEPT ![r] = s]
    BY <1>7 DEF Return, Fault, SetStage
  <2>2. answer' = [answer EXCEPT ![r] = NoAnswers]
    BY <1>7 DEF Return, Fault
  <2>3. \A p \in banked' \cup lost' : p \in banked \cup lost \/ p[1] \in {r}
    BY <1>7, HeldOfRun DEF Return, Fault
  <2>4. stage' \in [Runs -> Stages] /\ stage'[r] \notin Before
    BY <1>0, <2>1 DEF Stages, Before
  <2>5. /\ \A t \in Runs \ {r} : answer'[t] = answer[t] /\ stage'[t] = stage[t]
        /\ answer'[r] = NoAnswers
    BY <1>0, <2>1, <2>2 DEF TypeOK
  <2>6. {r} \in SUBSET Runs
    OBVIOUS
  <2> QED
    BY <1>6, <2>3, <2>4, <2>5, <2>6
<1>8. CASE Crash
  <2> DEFINE gone == {r \in Runs : Server(r) /\ stage[r] \notin {"idle", "over"}}
  <2>1. /\ stage' = [r \in Runs |-> IF r \in gone THEN "over" ELSE stage[r]]
        /\ lost' = lost \cup UNION {HeldBy(r) : r \in gone} /\ banked' = banked
        /\ answer' = [r \in Runs |-> IF r \in gone THEN NoAnswers ELSE answer[r]]
    BY <1>8 DEF Crash
  <2>2. gone \in SUBSET Runs
    OBVIOUS
  <2> HIDE DEF gone
  <2>3. \A p \in banked' \cup lost' : p \in banked \cup lost \/ p[1] \in gone
    BY <2>1, <2>2, HeldOfRun
  <2>4. stage' \in [Runs -> Stages] /\ \A r \in gone : stage'[r] \notin Before
    BY <1>0, <2>1, <2>2 DEF Stages, Before
  <2>5. /\ \A s \in Runs \ gone : answer'[s] = answer[s] /\ stage'[s] = stage[s]
        /\ \A r \in gone : answer'[r] = NoAnswers
    BY <2>1, <2>2
  <2> QED
    BY <1>6, <2>2, <2>3, <2>4, <2>5
<1>9. CASE UNCHANGED <<stage, answer, banked, lost>>
  BY <1>9 DEF Flow, HoldsWhileBuying, SettledAfter, BoughtBy
<1>10. ASSUME NEW a \in Addresses, Expire(a) PROVE Flow'
  BY <1>9, <1>10 DEF Expire
<1>11. CASE AllOver \/ UNCHANGED vars
  BY <1>9, <1>11 DEF AllOver, vars
<1> QED
  BY <1>2, <1>3, <1>4, <1>5, <1>7, <1>8, <1>10, <1>11 DEF Next

LEMMA FlowInit == Init => Flow
BY NotSold DEF Init, NoAnswers, Flow, HoldsWhileBuying, SettledAfter, BoughtBy

-----------------------------------------------------------------------------
(* A step of one run leaves the others alone.                              *)

RunActs(r) ==
  \/ Accept(r) \/ Lookup(r) \/ Settle(r) \/ Return(r)
  \/ \E a \in Addresses : Buy(r, a) \/ NoReply(r, a)
  \/ WriteResults(r) \/ RecordSpend(r) \/ Finish(r)
  \/ OpenFails(r) \/ Fault(r)

LEMMA RunFrame ==
  ASSUME TypeOK, NEW r \in Runs, RunActs(r), NEW s \in Runs \ {r}
  PROVE  /\ stage'[s] = stage[s] /\ verdict'[s] = verdict[s] /\ answer'[s] = answer[s]
         /\ job'[s] = job[s] /\ credits'[s] = credits[s]
<1>0. /\ stage \in [Runs -> Stages] /\ verdict \in [Runs -> [Addresses -> Verdicts]]
      /\ answer \in [Runs -> [Addresses -> Replies]]
      /\ job \in [Runs -> JobStates] /\ credits \in [Runs -> Nat]
  BY TypeParts DEF RunTypes, BookTypes
<1> USE DEF memory, tables, SetStage, SetJob
<1>1. CASE Accept(r) \/ Lookup(r) \/ Return(r)
  BY <1>0, <1>1 DEF Accept, Lookup, Return
<1>2. CASE Settle(r)
  BY <1>0, <1>2 DEF Settle
<1>3. CASE \E a \in Addresses : Buy(r, a) \/ NoReply(r, a)
  BY <1>0, <1>3 DEF Buy, NoReply
<1>4. CASE WriteResults(r) \/ RecordSpend(r) \/ Finish(r)
  BY <1>0, <1>4 DEF WriteResults, RecordSpend, Finish
<1>5. CASE OpenFails(r) \/ Fault(r)
  BY <1>0, <1>5 DEF OpenFails, Fault
<1> QED
  BY <1>1, <1>2, <1>3, <1>4, <1>5 DEF RunActs

\* What a step settles was held, and what is settled stays so.
LEMMA PurchasesGrow ==
  ASSUME TypeOK, [Next]_vars
  PROVE  /\ banked \subseteq banked' /\ banked' \subseteq banked \cup Held
         /\ lost \subseteq lost' /\ lost' \subseteq lost \cup Held
<1> DEFINE Goal == /\ banked \subseteq banked' /\ banked' \subseteq banked \cup Held
                   /\ lost \subseteq lost' /\ lost' \subseteq lost \cup Held
<1> SUFFICES Goal
  BY DEF Goal
<1>0. \A r \in Runs : HeldBy(r) \subseteq Held
  BY DEF Held
<1>1. CASE UNCHANGED <<banked, lost>>
  BY <1>1 DEF Goal
<1> HIDE DEF Goal
<1> USE DEF purchases
<1>2. ASSUME NEW r \in Runs, Return(r) \/ Fault(r) PROVE Goal
  BY <1>0, <1>2 DEF Return, Fault, Goal
<1>3. CASE Crash
  <2>1. PICK gone \in SUBSET Runs :
          lost' = lost \cup UNION {HeldBy(r) : r \in gone} /\ banked' = banked
    BY <1>3 DEF Crash
  <2> QED
    BY <1>0, <2>1 DEF Goal
<1>4. ASSUME NEW r \in Runs, Accept(r) \/ Lookup(r) \/ Settle(r) \/ OpenFails(r) PROVE Goal
  BY <1>1, <1>4 DEF Accept, Lookup, Settle, OpenFails
<1>5. ASSUME NEW r \in Runs, WriteResults(r) \/ RecordSpend(r) \/ Finish(r) PROVE Goal
  BY <1>1, <1>5 DEF WriteResults, RecordSpend, Finish
<1>6. ASSUME NEW r \in Runs, NEW a \in Addresses, Buy(r, a) \/ NoReply(r, a) PROVE Goal
  BY <1>1, <1>6 DEF Buy, NoReply
<1>7. ASSUME NEW a \in Addresses, Expire(a) PROVE Goal
  BY <1>1, <1>7 DEF Expire
<1>8. CASE AllOver \/ UNCHANGED vars
  BY <1>1, <1>8 DEF AllOver, vars
<1> QED
  BY <1>2, <1>3, <1>4, <1>5, <1>6, <1>7, <1>8 DEF Next

\* Of a verdict, tiers 1 to 3.5 touch only what no tier has settled.
LEMMA SettleVerdicts ==
  ASSUME TypeOK, NEW r \in Runs, Settle(r), NEW a \in Addresses
  PROVE  \/ verdict'[r][a] = verdict[r][a]
         \/ /\ a \in Unproven(r) /\ verdict'[r][a].tier \in {"probe", "pattern"}
            /\ verdict'[r][a].status # "unknown"
<1>1. PICK proven \in SUBSET Unproven(r) :
          \E sure \in SUBSET (Unproven(r) \ proven), proof \in [proven -> Proofs] :
            /\ verdict' = [verdict EXCEPT ![r] = [b \in Addresses |->
                 CASE b \in proven -> [tier |-> "probe", status |-> proof[b]]
                   [] b \in sure /\ r \in OptedIn ->
                        [tier |-> "pattern", status |-> "likely_valid"]
                   [] OTHER -> verdict[r][b]]]
            /\ answer' = [answer EXCEPT ![r] = [b \in Addresses |->
                 IF b \in sure /\ r \notin OptedIn THEN "unanswered" ELSE "none"]]
  BY DEF Settle
<1>2. PICK sure \in SUBSET (Unproven(r) \ proven) :
          \E proof \in [proven -> Proofs] :
            /\ verdict' = [verdict EXCEPT ![r] = [b \in Addresses |->
                 CASE b \in proven -> [tier |-> "probe", status |-> proof[b]]
                   [] b \in sure /\ r \in OptedIn ->
                        [tier |-> "pattern", status |-> "likely_valid"]
                   [] OTHER -> verdict[r][b]]]
            /\ answer' = [answer EXCEPT ![r] = [b \in Addresses |->
                 IF b \in sure /\ r \notin OptedIn THEN "unanswered" ELSE "none"]]
  BY <1>1
<1>3. PICK proof \in [proven -> Proofs] :
            /\ verdict' = [verdict EXCEPT ![r] = [b \in Addresses |->
                 CASE b \in proven -> [tier |-> "probe", status |-> proof[b]]
                   [] b \in sure /\ r \in OptedIn ->
                        [tier |-> "pattern", status |-> "likely_valid"]
                   [] OTHER -> verdict[r][b]]]
            /\ answer' = [answer EXCEPT ![r] = [b \in Addresses |->
                 IF b \in sure /\ r \notin OptedIn THEN "unanswered" ELSE "none"]]
  BY <1>2
<1>4. verdict'[r][a] =
        CASE a \in proven -> [tier |-> "probe", status |-> proof[a]]
          [] a \in sure /\ r \in OptedIn -> [tier |-> "pattern", status |-> "likely_valid"]
          [] OTHER -> verdict[r][a]
  BY <1>3 DEF TypeOK
<1>5. CASE a \in proven
  <2>1. proof[a] # "unknown"
    BY <1>3, <1>5, BankingAssumption
  <2> QED
    BY <1>4, <1>5, <2>1
<1>6. CASE a \notin proven /\ a \in sure /\ r \in OptedIn
  BY <1>4, <1>6
<1>7. CASE a \notin proven /\ ~ (a \in sure /\ r \in OptedIn)
  BY <1>4, <1>7
<1> QED
  BY <1>5, <1>6, <1>7

-----------------------------------------------------------------------------
(* The books: rows.                                                        *)

\* Whatever a run has bought was on its list and is paid for; before it returns,
\* no verdict of its own claims to be bought, and those it has say something.
PaidFor == \A r \in Runs : \A a \in BoughtBy(r) : a \in ListOf[r] /\ paid[a] > 0
Unbilled == \A r \in Runs : stage[r] \in Before =>
              \A a \in Addresses :
                /\ verdict[r][a].tier # "clearout"
                /\ verdict[r][a].tier # "none" => verdict[r][a].status # "unknown"

RowsInv == PaidFor /\ Unbilled /\ ClearoutRowsPaid

LEMMA PaidGrows == TypeOK /\ [Next]_vars => \A a \in Addresses : paid[a] > 0 => paid'[a] > 0
<1> SUFFICES ASSUME TypeOK, [Next]_vars PROVE \A a \in Addresses : paid[a] > 0 => paid'[a] > 0
  OBVIOUS
<1>0. paid \in [Addresses -> Nat]
  BY TypeParts DEF BookTypes
<1>1. ASSUME NEW r \in Runs, NEW b \in Addresses, Buy(r, b)
      PROVE  \A a \in Addresses : paid[a] > 0 => paid'[a] > 0
  BY <1>0, <1>1 DEF Buy
<1>2. CASE UNCHANGED paid
  BY <1>2
<1>3. ASSUME NEW r \in Runs, Accept(r) \/ Lookup(r) \/ Settle(r) \/ Return(r)
      PROVE  UNCHANGED paid
  BY <1>3 DEF Accept, Lookup, Settle, Return
<1>4. ASSUME NEW r \in Runs, WriteResults(r) \/ RecordSpend(r) \/ Finish(r) PROVE UNCHANGED paid
  BY <1>4 DEF WriteResults, RecordSpend, Finish
<1>5. ASSUME NEW r \in Runs, OpenFails(r) \/ Fault(r) PROVE UNCHANGED paid
  BY <1>5 DEF OpenFails, Fault
<1>6. ASSUME NEW r \in Runs, NEW a \in Addresses, NoReply(r, a) PROVE UNCHANGED paid
  BY <1>6 DEF NoReply
<1>7. ASSUME NEW a \in Addresses, Expire(a) PROVE UNCHANGED paid
  BY <1>7 DEF Expire
<1>8. CASE Crash \/ AllOver \/ UNCHANGED vars
  BY <1>2, <1>8 DEF Crash, AllOver, vars
<1> QED
  BY <1>1, <1>2, <1>3, <1>4, <1>5, <1>6, <1>7, <1>8 DEF Next

LEMMA PaidForStep == TypeOK /\ Flow /\ Flow' /\ RowsInv /\ [Next]_vars => PaidFor'
<1> SUFFICES ASSUME TypeOK, Flow, Flow', RowsInv, [Next]_vars,
                    NEW r \in Runs, NEW a \in Addresses, a \in BoughtBy(r)'
             PROVE  a \in ListOf[r] /\ paid'[a] > 0
  BY DEF PaidFor, BoughtBy
<1>0. paid \in [Addresses -> Nat] /\ stage \in [Runs -> Stages]
  BY TypeParts DEF BookTypes, RunTypes
<1>1. CASE a \in BoughtBy(r)
  BY <1>1, PaidGrows DEF RowsInv, PaidFor
<1>2. CASE a \notin BoughtBy(r)
  <2>1. ASSUME NEW s \in Runs, RunActs(s) PROVE s = r /\ Buy(r, a)
    <3>1. s = r
      <4>1. CASE s # r
        BY <1>2, <2>1, <4>1, RunFrame DEF BoughtBy
      <4> QED
        BY <4>1
    <3>2. stage'[r] = "buying"
      BY DEF Flow, HoldsWhileBuying
    <3>3. ~ (Accept(r) \/ Lookup(r) \/ Return(r) \/ OpenFails(r) \/ Fault(r))
      BY <1>0, <3>2 DEF Accept, Lookup, Return, OpenFails, Fault, SetStage
    <3>4. ~ (WriteResults(r) \/ RecordSpend(r) \/ Finish(r))
      BY <1>0, <3>2 DEF WriteResults, RecordSpend, Finish, SetStage
    <3>5. ~ Settle(r)
      BY SettleFrame
    <3>6. \A b \in Addresses : NoReply(r, b) => FALSE
      BY <1>2, ReplyFrame
    <3>7. \A b \in Addresses : Buy(r, b) => b = a
      BY <1>2, ReplyFrame
    <3> QED
      BY <2>1, <3>1, <3>3, <3>4, <3>5, <3>6, <3>7 DEF RunActs
  <2>2. ~ Crash
    BY <1>2, NotSold DEF Crash, BoughtBy, NoAnswers
  <2>3. ~ UNCHANGED answer
    BY <1>2 DEF BoughtBy
  <2>4. ~ \E b \in Addresses : Expire(b)
    BY <2>3 DEF Expire, memory
  <2>5. ~ (AllOver \/ UNCHANGED vars)
    BY <2>3 DEF AllOver, vars, memory
  <2>6. Buy(r, a)
    BY <2>1, <2>2, <2>4, <2>5 DEF Next, RunActs
  <2> QED
    BY <1>0, <2>6 DEF Buy, Targets, Unproven
<1> QED
  BY <1>1, <1>2

LEMMA UnbilledStep == TypeOK /\ RowsInv /\ [Next]_vars => Unbilled'
<1> SUFFICES ASSUME TypeOK, RowsInv, [Next]_vars,
                    NEW r \in Runs, stage'[r] \in Before, NEW a \in Addresses
             PROVE  /\ verdict'[r][a].tier # "clearout"
                    /\ verdict'[r][a].tier # "none" => verdict'[r][a].status # "unknown"
  BY DEF Unbilled
<1> DEFINE Goal == /\ verdict'[r][a].tier # "clearout"
                   /\ verdict'[r][a].tier # "none" => verdict'[r][a].status # "unknown"
<1> SUFFICES Goal
  BY DEF Goal
<1> HIDE DEF Goal
<1> USE DEF memory
<1>0. stage \in [Runs -> Stages] /\ verdict \in [Runs -> [Addresses -> Verdicts]]
  BY TypeParts DEF RunTypes
<1>1. CASE verdict'[r] = verdict[r] /\ stage[r] \in Before
  BY <1>1 DEF RowsInv, Unbilled, Goal
<1>2. CASE Lookup(r)
  <2>1. \/ Servable(a) /\ verdict'[r][a] = [tier |-> "cache", status |-> cache[a].status]
        \/ verdict'[r][a] = Pending
    BY <1>0, <1>2 DEF Lookup
  <2>2. CASE verdict'[r][a] = Pending
    BY <2>2 DEF Pending, Goal
  <2>3. CASE Servable(a) /\ verdict'[r][a] = [tier |-> "cache", status |-> cache[a].status]
    BY <2>3 DEF Servable, Goal
  <2> QED
    BY <2>1, <2>2, <2>3
<1>3. CASE Settle(r)
  <2>1. stage[r] \in Before
    BY <1>3 DEF Settle, Before
  <2>2. /\ verdict[r][a].tier # "clearout"
        /\ verdict[r][a].tier # "none" => verdict[r][a].status # "unknown"
    BY <2>1 DEF RowsInv, Unbilled
  <2> QED
    BY <1>3, <2>2, SettleVerdicts DEF Goal
<1>4. CASE Accept(r) \/ \E b \in Addresses : Buy(r, b) \/ NoReply(r, b)
  BY <1>1, <1>4 DEF Accept, Buy, NoReply, Before
<1>5. ~ (Return(r) \/ WriteResults(r) \/ RecordSpend(r) \/ Finish(r) \/ OpenFails(r) \/ Fault(r))
  BY <1>0 DEF Return, WriteResults, RecordSpend, Finish, OpenFails, Fault, SetStage, Before
<1>6. ASSUME NEW s \in Runs, RunActs(s) PROVE Goal
  <2>1. CASE s # r
    BY <1>1, <1>6, <2>1, RunFrame
  <2>2. CASE s = r
    BY <1>2, <1>3, <1>4, <1>5, <1>6, <2>2 DEF RunActs
  <2> QED
    BY <2>1, <2>2
<1>7. CASE Crash
  BY <1>0, <1>1, <1>7 DEF Crash, Before
<1>8. ASSUME NEW b \in Addresses, Expire(b) PROVE Goal
  BY <1>1, <1>8 DEF Expire
<1>9. CASE AllOver \/ UNCHANGED vars
  BY <1>1, <1>9 DEF AllOver, vars
<1> QED
  BY <1>6, <1>7, <1>8, <1>9 DEF Next, RunActs

LEMMA RowsPaidStep == TypeOK /\ RowsInv /\ [Next]_vars => ClearoutRowsPaid'
<1> SUFFICES ASSUME TypeOK, RowsInv, [Next]_vars,
                    NEW a \in Addresses, cache'[a].source = "clearout"
             PROVE  paid'[a] > 0 /\ cache'[a].status \in Answers
  BY DEF ClearoutRowsPaid
<1> USE DEF tables
<1>0. cache \in [Addresses -> Rows]
  BY TypeParts DEF RunTypes
<1>1. CASE cache'[a].source = cache[a].source /\ cache'[a].status = cache[a].status
  BY <1>1, PaidGrows DEF RowsInv, ClearoutRowsPaid
<1>2. ASSUME NEW r \in Runs, Return(r) PROVE paid'[a] > 0 /\ cache'[a].status \in Answers
  <2>1. cache'[a] = IF r \in Keepers /\ Bought(r)[a].tier \notin {"none", "cache"}
          THEN [source |-> Bought(r)[a].tier, status |-> Bought(r)[a].status, fresh |-> TRUE]
          ELSE cache[a]
    BY <1>2 DEF Return, BankVerdicts
  <2>2. CASE cache'[a] = cache[a]
    BY <1>1, <2>2
  <2>3. CASE cache'[a] # cache[a]
    <3>1. /\ cache'[a].source = Bought(r)[a].tier
          /\ cache'[a].status = Bought(r)[a].status
      BY <2>1, <2>3
    <3>2. verdict[r][a].tier # "clearout"
      BY <1>2 DEF Return, Before, RowsInv, Unbilled
    <3>3. a \in BoughtBy(r) /\ Bought(r)[a].status = answer[r][a]
      BY <3>1, <3>2 DEF Bought
    <3> QED
      BY <3>1, <3>3, PaidGrows DEF RowsInv, PaidFor, BoughtBy
  <2> QED
    BY <2>2, <2>3
<1>3. ASSUME NEW b \in Addresses, Expire(b) PROVE paid'[a] > 0 /\ cache'[a].status \in Answers
  <2>1. cache' = [cache EXCEPT ![b] = [cache[b] EXCEPT !.fresh = FALSE]]
    BY <1>0, <1>3 DEF Expire
  <2>2. cache'[a].source = cache[a].source /\ cache'[a].status = cache[a].status
    BY <1>0, <2>1 DEF Rows
  <2> QED
    BY <1>1, <2>2
<1>4. CASE UNCHANGED cache
  BY <1>1, <1>4
<1>5. ASSUME NEW r \in Runs, Accept(r) \/ Lookup(r) \/ Settle(r) PROVE UNCHANGED cache
  BY <1>5 DEF Accept, Lookup, Settle
<1>6. ASSUME NEW r \in Runs, WriteResults(r) \/ RecordSpend(r) \/ Finish(r) PROVE UNCHANGED cache
  BY <1>6 DEF WriteResults, RecordSpend, Finish
<1>7. ASSUME NEW r \in Runs, OpenFails(r) \/ Fault(r) PROVE UNCHANGED cache
  BY <1>7 DEF OpenFails, Fault
<1>8. ASSUME NEW r \in Runs, NEW b \in Addresses, Buy(r, b) \/ NoReply(r, b)
      PROVE  UNCHANGED cache
  BY <1>8 DEF Buy, NoReply
<1>9. CASE Crash \/ AllOver \/ UNCHANGED vars
  BY <1>4, <1>9 DEF Crash, AllOver, vars
<1> QED
  BY <1>2, <1>3, <1>4, <1>5, <1>6, <1>7, <1>8, <1>9 DEF Next

LEMMA RowsStep == TypeOK /\ Flow /\ Flow' /\ RowsInv /\ [Next]_vars => RowsInv'
BY PaidForStep, UnbilledStep, RowsPaidStep DEF RowsInv

LEMMA RowsInit == Init => RowsInv
BY NotSold DEF Init, NoAnswers, Pending, NoRow, RowsInv, PaidFor, Unbilled, ClearoutRowsPaid, BoughtBy

-----------------------------------------------------------------------------
(* An address is bought again only for a reason.                           *)

KnownSettled ==
  \A r \in Keepers : stage[r] \in {"probing", "buying"} =>
    \A a \in knew[r] \cap ListOf[r] : verdict[r][a].tier # "none"

Known == KnownSettled /\ RebuyHasAReason

\* The latest answer bought of a good address is on file, or a free verdict over
\* it: either way the cache serves the address.
GoodServed == \A a \in good : Servable(a)

LEMMA GoodStep == TypeOK /\ RowsInv /\ GoodServed /\ [Next]_vars => GoodServed'
<1> SUFFICES ASSUME TypeOK, RowsInv, GoodServed, [Next]_vars, NEW a \in good'
             PROVE  Servable(a)'
  BY DEF GoodServed
<1> USE DEF tables, purchases
<1>0. cache \in [Addresses -> Rows] /\ good \subseteq Addresses
  BY TypeParts DEF RunTypes, PurchaseTypes
<1>1. CASE UNCHANGED <<cache, good>>
  BY <1>1 DEF GoodServed, Servable
<1>2. ASSUME NEW r \in Runs, Return(r) PROVE Servable(a)'
  <2>1. a \in Addresses
    BY <1>0, <1>2 DEF Return, BoughtBy
  <2>2. cache'[a] = IF r \in Keepers /\ Bought(r)[a].tier \notin {"none", "cache"}
          THEN [source |-> Bought(r)[a].tier, status |-> Bought(r)[a].status, fresh |-> TRUE]
          ELSE cache[a]
    BY <1>2, <2>1 DEF Return, BankVerdicts
  <2>3. CASE cache'[a] = cache[a] /\ a \in good
    BY <2>3 DEF GoodServed, Servable
  <2>4. CASE r \notin Keepers
    BY <1>2, <2>2, <2>3, <2>4 DEF Return
  <2>5. CASE r \in Keepers /\ a \in BoughtBy(r)
    <3>1. answer[r][a] # "unknown"
      BY <1>2, <2>5 DEF Return
    <3>2. Bought(r)[a] = [tier |-> "clearout", status |-> answer[r][a]]
      BY <2>1, <2>5 DEF Bought
    <3> QED
      BY <2>2, <2>5, <3>1, <3>2 DEF Servable
  <2>6. CASE r \in Keepers /\ a \notin BoughtBy(r)
    <3>1. a \in good /\ stage[r] \in Before
      BY <1>2, <2>6 DEF Return, Before
    <3>2. Bought(r)[a] = verdict[r][a]
      BY <2>1, <2>6 DEF Bought
    <3>3. verdict[r][a].tier # "none" => verdict[r][a].status # "unknown"
      BY <2>1, <3>1 DEF RowsInv, Unbilled
    <3> QED
      BY <2>2, <2>3, <3>1, <3>2, <3>3 DEF Servable
  <2> QED
    BY <2>4, <2>5, <2>6
<1>3. ASSUME NEW b \in Addresses, Expire(b) PROVE Servable(a)'
  <2>1. a \in good /\ a # b /\ cache' = [cache EXCEPT ![b].fresh = FALSE]
    BY <1>3 DEF Expire
  <2>2. cache'[a] = cache[a]
    BY <1>0, <2>1
  <2> QED
    BY <2>1, <2>2 DEF GoodServed, Servable
<1>4. ASSUME NEW r \in Runs, Accept(r) \/ Lookup(r) \/ Settle(r) PROVE Servable(a)'
  BY <1>1, <1>4 DEF Accept, Lookup, Settle
<1>5. ASSUME NEW r \in Runs, WriteResults(r) \/ RecordSpend(r) \/ Finish(r) PROVE Servable(a)'
  BY <1>1, <1>5 DEF WriteResults, RecordSpend, Finish
<1>6. ASSUME NEW r \in Runs, OpenFails(r) \/ Fault(r) PROVE Servable(a)'
  BY <1>1, <1>6 DEF OpenFails, Fault
<1>7. ASSUME NEW r \in Runs, NEW b \in Addresses, Buy(r, b) \/ NoReply(r, b) PROVE Servable(a)'
  BY <1>1, <1>7 DEF Buy, NoReply
<1>8. CASE Crash \/ AllOver \/ UNCHANGED vars
  BY <1>1, <1>8 DEF Crash, AllOver, vars
<1> QED
  BY <1>2, <1>3, <1>4, <1>5, <1>6, <1>7, <1>8 DEF Next

LEMMA KnownStep == TypeOK /\ Flow /\ Flow' /\ GoodServed /\ Known /\ [Next]_vars => Known'
<1> SUFFICES ASSUME TypeOK, Flow, Flow', GoodServed, Known, [Next]_vars, NEW r \in Keepers
             PROVE  /\ stage'[r] \in {"probing", "buying"} =>
                         \A a \in knew'[r] \cap ListOf[r] : verdict'[r][a].tier # "none"
                    /\ knew'[r] \cap BoughtBy(r)' = {}
  BY DEF Known, KnownSettled, RebuyHasAReason
<1> USE DEF memory, tables
<1>0. /\ r \in Runs
      /\ stage \in [Runs -> Stages] /\ verdict \in [Runs -> [Addresses -> Verdicts]]
      /\ knew \in [Runs -> SUBSET Addresses]
  BY TypeParts, BankingAssumption DEF RunTypes, BookTypes
\* Once the run does not buy, there is nothing to show.
<1>1. ASSUME stage'[r] \notin {"probing", "buying"}
      PROVE  /\ stage'[r] \in {"probing", "buying"} =>
                  \A a \in knew'[r] \cap ListOf[r] : verdict'[r][a].tier # "none"
             /\ knew'[r] \cap BoughtBy(r)' = {}
  BY <1>0, <1>1 DEF Flow, HoldsWhileBuying
<1>2. CASE UNCHANGED <<verdict, answer, knew>> /\ stage'[r] = stage[r]
  BY <1>2 DEF Known, KnownSettled, RebuyHasAReason, BoughtBy
<1>3. CASE Lookup(r)
  <2>1. \A a \in Addresses : verdict'[r][a] =
          IF a \in ListOf[r] /\ r \in Keepers /\ Servable(a)
          THEN [tier |-> "cache", status |-> cache[a].status] ELSE Pending
    BY <1>0, <1>3 DEF Lookup
  <2>2. knew'[r] = good /\ \A a \in good : a \in Addresses /\ Servable(a)
    BY <1>0, <1>3, TypeParts DEF Lookup, PurchaseTypes, GoodServed
  <2>3. stage'[r] = "probing"
    BY <1>0, <1>3 DEF Lookup, SetStage
  <2>4. BoughtBy(r)' = {}
    BY <1>0, <2>3 DEF Flow, HoldsWhileBuying
  <2>5. ASSUME NEW a \in knew'[r] \cap ListOf[r] PROVE verdict'[r][a].tier = "cache"
    <3>1. a \in Addresses /\ Servable(a)
      BY <2>2
    <3>2. verdict'[r][a] = [tier |-> "cache", status |-> cache[a].status]
      BY <2>1, <3>1
    <3> QED
      BY <3>2
  <2> QED
    BY <2>4, <2>5
<1>4. CASE Settle(r)
  <2>1. BoughtBy(r)' = {} /\ knew' = knew /\ stage[r] = "probing"
    BY <1>0, <1>4, SettleFrame DEF Settle
  <2>4. \A a \in Addresses : a \notin Unproven(r) => verdict'[r][a] = verdict[r][a]
    BY <1>0, <1>4, SettleVerdicts
  <2>5. \A a \in knew[r] \cap ListOf[r] : verdict[r][a].tier # "none"
    BY <2>1 DEF Known, KnownSettled
  <2>6. \A a \in knew[r] \cap ListOf[r] : a \in Addresses /\ a \notin Unproven(r)
    BY <1>0, <2>5 DEF Unproven
  <2> QED
    BY <2>1, <2>4, <2>5, <2>6
<1>5. ASSUME NEW a \in Addresses, Buy(r, a) \/ NoReply(r, a)
      PROVE  /\ stage'[r] \in {"probing", "buying"} =>
                  \A b \in knew'[r] \cap ListOf[r] : verdict'[r][b].tier # "none"
             /\ knew'[r] \cap BoughtBy(r)' = {}
  <2>1. UNCHANGED <<stage, verdict, knew>> /\ stage[r] = "buying" /\ a \in Unproven(r)
    BY <1>5 DEF Buy, NoReply, Targets
  <2>2. a \notin knew[r]
    BY <2>1 DEF Unproven, Known, KnownSettled
  <2>3. BoughtBy(r)' \subseteq BoughtBy(r) \cup {a}
    BY <1>0, <1>5, ReplyFrame
  <2> QED
    BY <2>1, <2>2, <2>3 DEF Known, KnownSettled, RebuyHasAReason
<1>6. CASE Return(r) \/ Fault(r) \/ OpenFails(r) \/ Finish(r)
  BY <1>0, <1>1, <1>6 DEF Return, Fault, OpenFails, Finish, SetStage
<1>7. CASE Accept(r) \/ WriteResults(r) \/ RecordSpend(r)
  BY <1>0, <1>1, <1>7 DEF Accept, WriteResults, RecordSpend, SetStage
<1>8. ASSUME NEW s \in Runs, s # r, RunActs(s)
      PROVE  /\ stage'[r] \in {"probing", "buying"} =>
                  \A b \in knew'[r] \cap ListOf[r] : verdict'[r][b].tier # "none"
             /\ knew'[r] \cap BoughtBy(r)' = {}
  <2>1. stage'[r] = stage[r] /\ verdict'[r] = verdict[r] /\ answer'[r] = answer[r]
    BY <1>0, <1>8, RunFrame
  <2>2. knew'[r] = knew[r]
    <3>1. CASE Lookup(s)
      BY <1>0, <1>8, <3>1 DEF Lookup
    <3>2. CASE Accept(s) \/ Settle(s) \/ Return(s)
      BY <3>2 DEF Accept, Settle, Return
    <3>3. CASE \E a \in Addresses : Buy(s, a) \/ NoReply(s, a)
      BY <3>3 DEF Buy, NoReply
    <3>4. CASE WriteResults(s) \/ RecordSpend(s) \/ Finish(s)
      BY <3>4 DEF WriteResults, RecordSpend, Finish
    <3>5. CASE OpenFails(s) \/ Fault(s)
      BY <3>5 DEF OpenFails, Fault
    <3> QED
      BY <1>8, <3>1, <3>2, <3>3, <3>4, <3>5 DEF RunActs
  <2> QED
    BY <2>1, <2>2 DEF Known, KnownSettled, RebuyHasAReason, BoughtBy
<1>9. CASE Crash
  <2>1. CASE stage'[r] = "over"
    BY <1>1, <2>1
  <2>2. CASE stage'[r] # "over"
    <3>1. stage'[r] = stage[r] /\ answer'[r] = answer[r]
      BY <1>0, <1>9, <2>2 DEF Crash
    <3>2. UNCHANGED <<verdict, knew>>
      BY <1>9 DEF Crash
    <3> QED
      BY <3>1, <3>2 DEF Known, KnownSettled, RebuyHasAReason, BoughtBy
  <2> QED
    BY <2>1, <2>2
<1>10. ASSUME NEW a \in Addresses, Expire(a) PROVE UNCHANGED <<verdict, answer, knew, stage>>
  BY <1>10 DEF Expire
<1>11. CASE AllOver \/ UNCHANGED vars
  BY <1>2, <1>11 DEF AllOver, vars
<1>12. ASSUME NEW s \in Runs, RunActs(s)
       PROVE  /\ stage'[r] \in {"probing", "buying"} =>
                   \A b \in knew'[r] \cap ListOf[r] : verdict'[r][b].tier # "none"
              /\ knew'[r] \cap BoughtBy(r)' = {}
  BY <1>3, <1>4, <1>5, <1>6, <1>7, <1>8, <1>12 DEF RunActs
<1> QED
  BY <1>2, <1>9, <1>10, <1>11, <1>12 DEF Next, RunActs

\* A run with a cache buys an address that was bought and banked before it looked
\* only if the latest answer bought is "unknown" or over 90 days old (Cache.lookup;
\* engine.py tier 0 and the live lists of later tiers).
THEOREM RebuysHaveReasons == Spec => []RebuyHasAReason
<1>1. Init => Known /\ GoodServed
  BY BankingAssumption, NotSold
     DEF Init, Known, KnownSettled, RebuyHasAReason, BoughtBy, NoAnswers, GoodServed
<1>2. Known => RebuyHasAReason
  BY DEF Known
<1> QED
  BY <1>1, <1>2, TypeInit, TypeStep, FlowInit, FlowStep, RowsInit, RowsStep, GoodStep, KnownStep,
     PTL DEF Spec

-----------------------------------------------------------------------------
(* The refinement of Purse.                                                *)

\* What the refinement reads off a state.
HeldOf(r) == [a \in Addresses |-> IF a \in BoughtBy(r) THEN answer[r][a] ELSE "none"]
HeldMap == [r \in Runs |-> HeldOf(r)]
OnShelf(a) == IF cache[a].source = "clearout" THEN cache[a].status ELSE "none"
ShelfMap == [a \in Addresses |-> OnShelf(a)]
FateOf(r) == IF stage[r] = "over" THEN "over"
             ELSE IF stage[r] \in Before THEN "open" ELSE "settled"
FateMap == [r \in Runs |-> FateOf(r)]
NoneHeld == [a \in Addresses |-> "none"]

\* A run that buys nothing holds nothing.
LEMMA HoldsNone ==
  /\ \A r \in Runs : BoughtBy(r) = {} => HeldOf(r) = NoneHeld
  /\ \A r \in Runs : BoughtBy(r)' = {} => HeldOf(r)' = NoneHeld
BY DEF HeldOf, NoneHeld

LEMMA HeldSame ==
  ASSUME NEW r \in Runs, answer'[r] = answer[r]
  PROVE  HeldOf(r)' = HeldOf(r)
BY DEF HeldOf, BoughtBy

\* A stuttering step of Purse
LEMMA PurseStutter ==
  ASSUME \A r \in Runs : HeldOf(r)' = HeldOf(r) /\ FateOf(r)' = FateOf(r),
         \A a \in Addresses : OnShelf(a)' = OnShelf(a)
  PROVE  UNCHANGED P!pvars
<1>1. HeldMap' = HeldMap /\ FateMap' = FateMap
  BY DEF HeldMap, FateMap
<1>2. ShelfMap' = ShelfMap
  BY DEF ShelfMap
<1> QED
  BY <1>1, <1>2 DEF P!pvars, HeldMap, HeldOf, FateMap, FateOf, ShelfMap, OnShelf

\* Some runs end: Purse loses what they hold.
LEMMA PurseEnd ==
  ASSUME NEW R \in SUBSET Runs, UNCHANGED cache,
         \A r \in R : HeldOf(r)' = NoneHeld /\ stage'[r] = "over",
         \A s \in Runs \ R : HeldOf(s)' = HeldOf(s) /\ stage'[s] = stage[s]
  PROVE  P!PNext
<1>1. ShelfMap' = ShelfMap
  BY DEF ShelfMap, OnShelf
<1>2. HeldMap' = [r \in Runs |-> IF r \in R THEN NoneHeld ELSE HeldMap[r]]
  BY DEF HeldMap
<1>3. FateMap' = [r \in Runs |-> IF r \in R THEN "over" ELSE FateMap[r]]
  BY DEF FateMap, FateOf
<1>4. P!End(R)
  BY <1>1, <1>2, <1>3
     DEF P!End, P!Nothing, NoneHeld, HeldMap, HeldOf, FateMap, FateOf, ShelfMap, OnShelf
<1> QED
  BY <1>4 DEF P!PNext

\* The vendor sells an answer.
LEMMA PurseBuy ==
  ASSUME TypeOK, NEW r \in Runs, NEW a \in Addresses, Buy(r, a)
  PROVE  P!PNext
<1> USE DEF tables
<1>1. PICK s \in Answers : answer' = [answer EXCEPT ![r][a] = s]
  BY DEF Buy
<1>2. a \notin BoughtBy(r) /\ BoughtBy(r)' = BoughtBy(r) \cup {a}
      /\ \A t \in Runs \ {r} : answer'[t] = answer[t]
  BY ReplyFrame
<1>3. answer'[r][a] = s /\ \A b \in Addresses \ {a} : answer'[r][b] = answer[r][b]
  BY <1>1 DEF TypeOK
<1>4. HeldOf(r)' = [HeldOf(r) EXCEPT ![a] = s] /\ HeldOf(r)[a] = "none"
  BY <1>2, <1>3 DEF HeldOf
<1>5. \A t \in Runs \ {r} : HeldOf(t)' = HeldOf(t)
  BY <1>2, HeldSame
<1>6. HeldMap' = [HeldMap EXCEPT ![r][a] = s] /\ HeldMap[r][a] = "none"
  BY <1>4, <1>5 DEF HeldMap
<1>7. ShelfMap' = ShelfMap /\ FateMap' = FateMap /\ FateMap[r] = "open"
  BY DEF Buy, ShelfMap, OnShelf, FateMap, FateOf, Before
<1>8. P!Buy(r, a)
  BY <1>6, <1>7 DEF P!Buy, HeldMap, HeldOf, FateMap, FateOf, ShelfMap, OnShelf
<1> QED
  BY <1>8 DEF P!PNext

\* A run returns: with a cache, all it holds is put; without one, all is lost.
LEMMA PurseReturn ==
  ASSUME TypeOK, Flow, RowsInv, NEW r \in Runs, Return(r)
  PROVE  P!PNext
<1>0. stage \in [Runs -> Stages] /\ answer \in [Runs -> [Addresses -> Replies]]
  BY TypeParts DEF RunTypes
<1> DEFINE free == {a \in Addresses : Bought(r)[a].tier \in {"probe", "pattern"}}
<1>1. HeldMap' = [HeldMap EXCEPT ![r] = NoneHeld]
  <2>1. answer'[r] = NoAnswers /\ \A t \in Runs \ {r} : answer'[t] = answer[t]
    BY <1>0 DEF Return
  <2>2. BoughtBy(r)' = {}
    BY <2>1, NotSold DEF BoughtBy, NoAnswers
  <2> QED
    BY <2>1, <2>2, HoldsNone, HeldSame DEF HeldMap
<1>2. FateMap' = [FateMap EXCEPT ![r] = "settled"] /\ FateMap[r] = "open"
  BY <1>0 DEF Return, SetStage, FateMap, FateOf, Before
<1>3. ASSUME NEW a \in Addresses
      PROVE  OnShelf(a)' = IF r \notin Keepers THEN OnShelf(a)
                           ELSE IF HeldOf(r)[a] # "none" THEN HeldOf(r)[a]
                           ELSE IF a \in free THEN "none" ELSE OnShelf(a)
  <2>1. cache'[a] = IF r \in Keepers /\ Bought(r)[a].tier \notin {"none", "cache"}
          THEN [source |-> Bought(r)[a].tier, status |-> Bought(r)[a].status, fresh |-> TRUE]
          ELSE cache[a]
    BY DEF Return, BankVerdicts
  <2>2. CASE a \in BoughtBy(r)
    <3>1. Bought(r)[a] = [tier |-> "clearout", status |-> answer[r][a]]
      BY <2>2 DEF Bought
    <3>2. HeldOf(r)[a] = answer[r][a] /\ answer[r][a] # "none"
      BY <2>2, NotSold DEF HeldOf, BoughtBy
    <3> QED
      BY <2>1, <3>1, <3>2 DEF OnShelf
  <2>3. CASE a \notin BoughtBy(r)
    <3>1. Bought(r)[a] = verdict[r][a] /\ HeldOf(r)[a] = "none"
      BY <2>3 DEF Bought, HeldOf
    <3>2. verdict[r][a].tier \in {"none", "cache", "probe", "pattern"}
      <4>1. stage[r] \in Before
        BY DEF Return, Before
      <4>2. verdict[r][a].tier # "clearout" /\ verdict[r][a] \in Verdicts
        BY <4>1 DEF RowsInv, Unbilled, TypeOK
      <4> QED
        BY <4>2 DEF Verdicts, Tiers
    <3> QED
      BY <2>1, <3>1, <3>2 DEF OnShelf
  <2> QED
    BY <2>2, <2>3
<1>4. free \in SUBSET Addresses
  OBVIOUS
<1> HIDE DEF free
<1>5. ShelfMap' = [a \in Addresses |->
         IF r \notin Keepers THEN ShelfMap[a]
         ELSE IF HeldMap[r][a] # "none" THEN HeldMap[r][a]
         ELSE IF a \in free THEN "none" ELSE ShelfMap[a]]
  BY <1>3 DEF ShelfMap, HeldMap
<1>6. P!Bank(r)
  BY <1>1, <1>2, <1>4, <1>5
     DEF P!Bank, P!Nothing, NoneHeld, HeldMap, HeldOf, FateMap, FateOf, ShelfMap, OnShelf
<1> QED
  BY <1>6 DEF P!PNext

\* Every step of the runs is a step of Purse, or moves nothing bought.
LEMMA PurseStep == TypeOK /\ Flow /\ RowsInv /\ [Next]_vars => [P!PNext]_(P!pvars)
<1> SUFFICES ASSUME TypeOK, Flow, RowsInv, [Next]_vars PROVE [P!PNext]_(P!pvars)
  OBVIOUS
<1> USE DEF memory, tables
<1>0. /\ stage \in [Runs -> Stages] /\ cache \in [Addresses -> Rows]
      /\ answer \in [Runs -> [Addresses -> Replies]]
  BY TypeParts DEF RunTypes
\* A step that moves a run on within its purchase, or within its books.
<1>1. ASSUME NEW r \in Runs, NEW s \in Stages \ {"over"}, SetStage(r, s),
             s \in Before <=> stage[r] \in Before, stage[r] # "over",
             UNCHANGED cache, \A t \in Runs : HeldOf(t)' = HeldOf(t)
      PROVE  UNCHANGED P!pvars
  <2>1. \A t \in Runs : FateOf(t)' = FateOf(t)
    BY <1>0, <1>1 DEF SetStage, FateOf
  <2> QED
    BY <1>1, <2>1, PurseStutter DEF OnShelf
<1>2. ASSUME NEW r \in Runs, Accept(r) \/ Lookup(r) PROVE UNCHANGED P!pvars
  <2>1. \A t \in Runs : HeldOf(t)' = HeldOf(t)
    BY <1>2, HeldSame DEF Accept, Lookup
  <2> QED
    BY <1>1, <1>2, <2>1 DEF Accept, Lookup, Stages, Before
<1>3. ASSUME NEW r \in Runs, WriteResults(r) \/ RecordSpend(r) PROVE UNCHANGED P!pvars
  <2>1. \A t \in Runs : HeldOf(t)' = HeldOf(t)
    BY <1>3, HeldSame DEF WriteResults, RecordSpend
  <2> QED
    BY <1>1, <1>3, <2>1 DEF WriteResults, RecordSpend, Stages, Before
<1>4. ASSUME NEW r \in Runs, Settle(r) PROVE UNCHANGED P!pvars
  <2>1. BoughtBy(r) = {} /\ BoughtBy(r)' = {} /\ \A s \in Runs \ {r} : answer'[s] = answer[s]
    BY <1>4, SettleFrame
  <2>2. \A t \in Runs : HeldOf(t)' = HeldOf(t)
    BY <2>1, HoldsNone, HeldSame
  <2> QED
    BY <1>1, <1>4, <2>2 DEF Settle, Stages, Before
<1>5. ASSUME NEW r \in Runs, NEW a \in Addresses, NoReply(r, a) PROVE UNCHANGED P!pvars
  <2>1. /\ \A s \in Runs \ {r} : answer'[s] = answer[s]
        /\ BoughtBy(r)' = BoughtBy(r) /\ a \notin BoughtBy(r)
    BY <1>5, ReplyFrame
  <2>2. answer' = [answer EXCEPT ![r][a] = "unanswered"]
    BY <1>5 DEF NoReply
  <2>3. \A b \in BoughtBy(r) : answer'[r][b] = answer[r][b]
    BY <1>0, <2>1, <2>2 DEF BoughtBy
  <2>4. HeldOf(r)' = HeldOf(r)
    BY <2>1, <2>3 DEF HeldOf
  <2>5. \A t \in Runs : HeldOf(t)' = HeldOf(t) /\ FateOf(t)' = FateOf(t)
    BY <1>5, <2>1, <2>4, HeldSame DEF NoReply, FateOf
  <2>6. \A b \in Addresses : OnShelf(b)' = OnShelf(b)
    BY <1>5 DEF NoReply, OnShelf
  <2> QED
    BY <2>5, <2>6, PurseStutter
<1>6. ASSUME NEW a \in Addresses, Expire(a) PROVE UNCHANGED P!pvars
  <2>1. cache' = [cache EXCEPT ![a] = [cache[a] EXCEPT !.fresh = FALSE]]
    BY <1>0, <1>6 DEF Expire
  <2>2. \A b \in Addresses : cache'[b].source = cache[b].source /\ cache'[b].status = cache[b].status
    BY <1>0, <2>1 DEF Rows
  <2>3. \A b \in Addresses : OnShelf(b)' = OnShelf(b)
    BY <2>2 DEF OnShelf
  <2>4. \A t \in Runs : HeldOf(t)' = HeldOf(t) /\ FateOf(t)' = FateOf(t)
    BY <1>6, HeldSame DEF Expire, FateOf
  <2> QED
    BY <2>3, <2>4, PurseStutter
<1>7. CASE AllOver \/ UNCHANGED vars
  <2>1. UNCHANGED <<stage, answer, cache>>
    BY <1>7 DEF AllOver, vars
  <2> QED
    BY <2>1, HeldSame, PurseStutter DEF FateOf, OnShelf
<1>8. ASSUME NEW r \in Runs, Fault(r) \/ OpenFails(r) \/ Finish(r) PROVE P!PNext
  <2>1. stage'[r] = "over" /\ (\A s \in Runs \ {r} : stage'[s] = stage[s]) /\ UNCHANGED cache
    BY <1>0, <1>8 DEF Fault, OpenFails, Finish, SetStage
  <2>2. BoughtBy(r)' = {} /\ \A s \in Runs \ {r} : answer'[s] = answer[s]
    <3>1. CASE answer' = [answer EXCEPT ![r] = NoAnswers]
      BY <1>0, <3>1, NotSold DEF BoughtBy, NoAnswers
    <3>2. CASE answer' = answer /\ stage[r] # "buying"
      BY <3>2 DEF BoughtBy, Flow, HoldsWhileBuying
    <3> QED
      BY <1>8, <3>1, <3>2 DEF Fault, OpenFails, Finish
  <2>3. {r} \in SUBSET Runs
    OBVIOUS
  <2> QED
    BY <2>1, <2>2, <2>3, HoldsNone, HeldSame, PurseEnd
<1>9. CASE Crash
  <2> DEFINE gone == {r \in Runs : Server(r) /\ stage[r] \notin {"idle", "over"}}
  <2>1. /\ stage' = [r \in Runs |-> IF r \in gone THEN "over" ELSE stage[r]]
        /\ answer' = [r \in Runs |-> IF r \in gone THEN NoAnswers ELSE answer[r]]
        /\ UNCHANGED cache
    BY <1>9 DEF Crash
  <2>2. gone \in SUBSET Runs
    OBVIOUS
  <2> HIDE DEF gone
  <2>3. \A r \in gone : BoughtBy(r)' = {} /\ stage'[r] = "over"
    BY <2>1, <2>2, NotSold DEF BoughtBy, NoAnswers
  <2>4. \A s \in Runs \ gone : answer'[s] = answer[s] /\ stage'[s] = stage[s]
    BY <2>1
  <2> QED
    BY <2>1, <2>2, <2>3, <2>4, HoldsNone, HeldSame, PurseEnd
<1> QED
  BY <1>2, <1>3, <1>4, <1>5, <1>6, <1>7, <1>8, <1>9, PurseBuy, PurseReturn DEF Next

LEMMA PurseInit == Init => P!PInit
BY NotSold DEF Init, P!PInit, P!Nothing, NoAnswers, NoRow, BoughtBy, Before

\* What runs do to the answers they hold and to the rows of the cache implements
\* Purse: a run with a cache puts all it bought or none of it, and what the vendor
\* said stays on file until a later run replaces it (engine.py:353-372).
THEOREM ImplementsPurse == Spec => PurseKept
BY TypeInit, TypeStep, FlowInit, FlowStep, RowsInit, RowsStep, PurseInit, PurseStep, PTL
   DEF Spec, PurseKept, P!PSpec

-----------------------------------------------------------------------------
(* The books: jobs.                                                        *)

Settled == banked \cup lost
Of(r) == {p \in Settled : p[1] = r}

\* From Return to the end of the caller, the verdicts of a run claim to be
\* bought exactly for what the run settled.
ClaimsMatch(r) ==
  /\ \A a \in Addresses : verdict[r][a].tier = "clearout" <=> <<r, a>> \in Settled
  /\ \A a \in Addresses : <<r, a>> \in Settled => a \in ListOf[r]
  /\ r \in Keepers => \A p \in lost : p[1] # r

Claims ==
  \A r \in Runs :
    /\ stage[r] \in Busy => ClaimsMatch(r)
    /\ stage[r] = "written" => kind[r] = "job"
    /\ stage[r] = "recorded" => Server(r)

\* What a run has settled stays as it is once the run holds nothing.
LEMMA OfFrame ==
  ASSUME TypeOK, Flow, [Next]_vars, NEW r \in Runs, stage[r] # "buying"
  PROVE  \A p : p[1] = r => (p \in banked' <=> p \in banked) /\ (p \in lost' <=> p \in lost)
<1>1. HeldBy(r) = {}
  BY DEF Flow, HoldsWhileBuying, HeldBy
<1>2. \A p \in Held : p[1] # r
  BY <1>1, HeldOfRun
<1> QED
  BY <1>2, PurchasesGrow

LEMMA SettledFinite == TypeOK => IsFiniteSet(Settled)
<1>1. IsFiniteSet(Runs \X Addresses)
  BY BankingAssumption, FS_Product
<1> QED
  BY <1>1, FS_Subset, TypeParts DEF PurchaseTypes, Settled

\* The bill of a run that has returned is the number of its purchases.
LEMMA BillIsHonest ==
  ASSUME TypeOK, Claims, NEW r \in Runs, stage[r] \in Busy
  PROVE  Billed(r) = Cardinality(Of(r))
<1> DEFINE S == {a \in ListOf[r] : verdict[r][a].tier = "clearout"}
<1>1. S \subseteq Addresses /\ IsFiniteSet(S)
  <2>1. ListOf[r] \subseteq Addresses /\ IsFiniteSet(Addresses)
    BY BankingAssumption
  <2> QED
    BY <2>1, FS_Subset
<1>2. Of(r) = {r} \X S
  <2>1. ClaimsMatch(r)
    BY DEF Claims
  <2>2. Of(r) \subseteq {r} \X S
    <3> SUFFICES ASSUME NEW p \in Of(r) PROVE p \in {r} \X S
      OBVIOUS
    <3>1. p \in Runs \X Addresses /\ p[1] = r /\ p \in Settled
      BY TypeParts DEF PurchaseTypes, Of, Settled
    <3>2. p = <<r, p[2]>> /\ p[2] \in Addresses
      BY <3>1
    <3> QED
      BY <2>1, <3>1, <3>2 DEF ClaimsMatch
  <2>3. {r} \X S \subseteq Of(r)
    <3> SUFFICES ASSUME NEW a \in S PROVE <<r, a>> \in Of(r)
      OBVIOUS
    <3> QED
      BY <1>1, <2>1 DEF ClaimsMatch, Of
  <2> QED
    BY <2>2, <2>3
<1>3. IsFiniteSet({r}) /\ Cardinality({r}) = 1
  BY FS_Singleton
<1>4. Cardinality(S) \in Nat
  BY <1>1, FS_CardinalityType
<1>5. Cardinality({r} \X S) = Cardinality({r}) * Cardinality(S)
  BY <1>1, <1>3, FS_Product
<1> HIDE DEF S
<1>6. Cardinality(Of(r)) = Cardinality(S)
  BY <1>2, <1>3, <1>4, <1>5
<1> QED
  BY <1>6 DEF Billed, S

LEMMA ClaimsStep == TypeOK /\ Flow /\ RowsInv /\ Claims /\ [Next]_vars => Claims'
<1> SUFFICES ASSUME TypeOK, Flow, RowsInv, Claims, [Next]_vars, NEW r \in Runs
             PROVE  /\ stage'[r] \in Busy => ClaimsMatch(r)'
                    /\ stage'[r] = "written" => kind'[r] = "job"
                    /\ stage'[r] = "recorded" => Server(r)'
  BY DEF Claims
<1> DEFINE Goal == /\ stage'[r] \in Busy => ClaimsMatch(r)'
                   /\ stage'[r] = "written" => kind'[r] = "job"
                   /\ stage'[r] = "recorded" => Server(r)'
<1> SUFFICES Goal
  BY DEF Goal
<1> HIDE DEF Goal
<1> USE DEF memory
<1>0. stage \in [Runs -> Stages] /\ verdict \in [Runs -> [Addresses -> Verdicts]] /\ kind' = kind
  BY TypeParts, BookTypesStep DEF RunTypes
\* Once busy, a run's claims stay.
<1>1. ASSUME stage[r] \in Busy, verdict'[r] = verdict[r] PROVE ClaimsMatch(r)'
  <2>1. \A p : p[1] = r => (p \in banked' <=> p \in banked) /\ (p \in lost' <=> p \in lost)
    BY <1>1, OfFrame DEF Busy
  <2>2. ClaimsMatch(r)
    BY <1>1 DEF Claims
  <2>3. \A a : <<r, a>> \in Settled' <=> <<r, a>> \in Settled
    BY <2>1 DEF Settled
  <2>4. r \in Keepers => \A p \in lost' : p[1] # r
    BY <2>1, <2>2 DEF ClaimsMatch
  <2> QED
    BY <1>1, <2>2, <2>3, <2>4 DEF ClaimsMatch
<1>2. CASE stage'[r] = stage[r] /\ verdict'[r] = verdict[r]
  BY <1>0, <1>1, <1>2 DEF Claims, Server, Goal
<1>3. CASE stage'[r] \notin Busy
  BY <1>3 DEF Busy, Goal
<1>4. CASE Return(r)
  <2>1. stage'[r] = "banked" /\ stage[r] = "buying"
    BY <1>0, <1>4 DEF Return, SetStage
  <2>2. \A p \in Settled : p[1] # r
    BY <2>1 DEF Flow, SettledAfter, Before, Settled
  <2>3. /\ Settled' = Settled \cup HeldBy(r)
        /\ r \in Keepers => lost' = lost
    BY <1>4 DEF Return, Settled
  <2>4. \A a \in Addresses : <<r, a>> \in Settled' <=> a \in BoughtBy(r)
    BY <2>2, <2>3 DEF HeldBy
  <2>5. ASSUME NEW a \in Addresses
        PROVE  verdict'[r][a].tier = "clearout" <=> a \in BoughtBy(r)
    <3>1. verdict'[r] = Bought(r)
      BY <1>0, <1>4 DEF Return
    <3>2. verdict[r][a].tier # "clearout"
      BY <2>1 DEF RowsInv, Unbilled, Before
    <3> QED
      BY <3>1, <3>2 DEF Bought
  <2>6. \A a \in BoughtBy(r) : a \in ListOf[r]
    BY DEF RowsInv, PaidFor
  <2>7. ClaimsMatch(r)'
    BY <2>2, <2>3, <2>4, <2>5, <2>6 DEF ClaimsMatch, Settled
  <2> QED
    BY <2>1, <2>7 DEF Goal
<1>5. CASE WriteResults(r) \/ RecordSpend(r)
  <2>1. stage[r] \in Busy /\ verdict'[r] = verdict[r]
    BY <1>5 DEF WriteResults, RecordSpend, Busy
  <2>2. stage'[r] = "written" => kind[r] = "job"
    BY <1>0, <1>5 DEF WriteResults, RecordSpend, SetStage
  <2>3. stage'[r] = "recorded" => Server(r)
    BY <1>0, <1>5 DEF WriteResults, RecordSpend, SetStage, Claims, Server
  <2> QED
    BY <1>0, <1>1, <2>1, <2>2, <2>3 DEF Server, Goal
<1>6. ASSUME Accept(r) \/ Lookup(r) \/ Settle(r) \/ Finish(r) \/ OpenFails(r) \/ Fault(r)
      PROVE  Goal
  BY <1>0, <1>3, <1>6 DEF Accept, Lookup, Settle, Finish, OpenFails, Fault, SetStage, Busy
<1>7. CASE \E a \in Addresses : Buy(r, a) \/ NoReply(r, a)
  BY <1>2, <1>7 DEF Buy, NoReply
<1>8. ASSUME NEW s \in Runs, RunActs(s) PROVE Goal
  <2>1. CASE s # r
    BY <1>2, <1>8, <2>1, RunFrame
  <2>2. CASE s = r
    BY <1>4, <1>5, <1>6, <1>7, <1>8, <2>2 DEF RunActs
  <2> QED
    BY <2>1, <2>2
<1>9. CASE Crash
  BY <1>0, <1>2, <1>3, <1>9 DEF Crash, Busy
<1>10. ASSUME NEW a \in Addresses, Expire(a) PROVE Goal
  BY <1>2, <1>10 DEF Expire
<1>11. CASE AllOver \/ UNCHANGED vars
  BY <1>2, <1>11 DEF AllOver, vars
<1> QED
  BY <1>8, <1>9, <1>10, <1>11 DEF Next, RunActs

DoneIsOver == \A r \in Runs : job[r] = "done" => stage[r] = "over"

JobsInv == DoneIsOver /\ DoneIsBookkept

LEMMA JobsStep == TypeOK /\ Flow /\ Claims /\ JobsInv /\ [Next]_vars => JobsInv'
<1> SUFFICES ASSUME TypeOK, Flow, Claims, JobsInv, [Next]_vars, NEW r \in Runs, job'[r] = "done"
             PROVE  /\ stage'[r] = "over"
                    /\ credits'[r] = Cardinality(Of(r)')
                    /\ r \in Keepers => \A p \in lost' : p[1] # r
  BY DEF JobsInv, DoneIsOver, DoneIsBookkept, Of, Settled
<1> DEFINE Goal == /\ stage'[r] = "over"
                   /\ credits'[r] = Cardinality(Of(r)')
                   /\ r \in Keepers => \A p \in lost' : p[1] # r
<1> SUFFICES Goal
  BY DEF Goal
<1> HIDE DEF Goal
<1> USE DEF memory, tables
<1>0. stage \in [Runs -> Stages] /\ job \in [Runs -> JobStates] /\ credits \in [Runs -> Nat]
  BY TypeParts DEF RunTypes, BookTypes
\* The row of a job that is done is not touched again.
<1>1. ASSUME job[r] = "done", stage'[r] = stage[r], credits'[r] = credits[r] PROVE Goal
  <2>1. stage[r] = "over" /\ credits[r] = Cardinality(Of(r))
        /\ (r \in Keepers => \A p \in lost : p[1] # r)
    BY <1>1 DEF JobsInv, DoneIsOver, DoneIsBookkept, Of, Settled
  <2>2. \A p : p[1] = r => (p \in banked' <=> p \in banked) /\ (p \in lost' <=> p \in lost)
    BY <2>1, OfFrame
  <2>3. Of(r)' = Of(r)
    BY <2>2 DEF Of, Settled
  <2> QED
    BY <1>1, <2>1, <2>2, <2>3 DEF Goal
<1>2. CASE Finish(r)
  <2>1. CASE kind[r] = "job"
    <3>1. stage[r] = "recorded" /\ stage'[r] = "over"
      BY <1>0, <1>2, <2>1 DEF Finish, SetStage
    <3>2. credits'[r] = Billed(r)
      BY <1>0, <1>2, <2>1 DEF Finish
    <3>3. Of(r)' = Of(r) /\ lost' = lost
      BY <1>2 DEF Finish, purchases, Of, Settled
    <3>4. ClaimsMatch(r) /\ Billed(r) = Cardinality(Of(r))
      BY <3>1, BillIsHonest DEF Claims, Busy
    <3> QED
      BY <3>1, <3>2, <3>3, <3>4 DEF ClaimsMatch, Goal
  <2>2. CASE kind[r] # "job"
    <3>1. job[r] = "done" /\ stage[r] # "over"
      BY <1>2, <2>2 DEF Finish, SetJob
    <3> QED
      BY <3>1 DEF JobsInv, DoneIsOver
  <2> QED
    BY <2>1, <2>2
\* No other step makes a job done, or acts for a run that is over.
<1>3. ASSUME RunActs(r), ~ Finish(r) PROVE FALSE
  <2>1. stage[r] # "over"
    BY <1>3 DEF RunActs, Accept, Lookup, Settle, Return, Buy, NoReply, WriteResults,
                RecordSpend, OpenFails, Fault
  <2>2. job[r] # "done"
    BY <2>1 DEF JobsInv, DoneIsOver
  <2>3. CASE Accept(r) \/ Lookup(r) \/ OpenFails(r) \/ Fault(r)
    BY <1>0, <2>2, <2>3 DEF Accept, Lookup, OpenFails, Fault, SetJob
  <2>4. CASE Settle(r) \/ Return(r) \/ WriteResults(r) \/ RecordSpend(r)
    BY <2>2, <2>4 DEF Settle, Return, WriteResults, RecordSpend
  <2>5. CASE \E a \in Addresses : Buy(r, a) \/ NoReply(r, a)
    BY <2>2, <2>5 DEF Buy, NoReply
  <2> QED
    BY <1>3, <2>3, <2>4, <2>5 DEF RunActs
<1>4. ASSUME NEW s \in Runs, RunActs(s) PROVE Goal
  <2>1. CASE s # r
    BY <1>1, <1>4, <2>1, RunFrame
  <2>2. CASE s = r
    BY <1>2, <1>3, <1>4, <2>2
  <2> QED
    BY <2>1, <2>2
<1>5. CASE Crash
  <2>1. job' = job /\ credits' = credits /\ stage[r] = "over"
    BY <1>5 DEF Crash, JobsInv, DoneIsOver
  <2>2. stage'[r] = "over"
    BY <1>0, <1>5, <2>1 DEF Crash
  <2> QED
    BY <1>1, <2>1, <2>2
<1>6. ASSUME NEW a \in Addresses, Expire(a) PROVE Goal
  BY <1>1, <1>6 DEF Expire
<1>7. CASE AllOver \/ UNCHANGED vars
  BY <1>1, <1>7 DEF AllOver, vars
<1> QED
  BY <1>4, <1>5, <1>6, <1>7 DEF Next, RunActs

-----------------------------------------------------------------------------
(* The books: the spend ledger.                                            *)

Posted == {"recorded", "over"}
OfRuns(R) == {p \in Settled : p[1] \in R}

\* The ledger is the bill of some runs of the server that are posted; of all of
\* them while nothing has failed.
LedgerOf(R) ==
  /\ spend = Cardinality(OfRuns(R))
  /\ \A r \in R : Server(r) /\ stage[r] \in Posted
  /\ crashes = 0 /\ faults = 0 =>
       \A r \in Runs : Server(r) /\ stage[r] \in Posted => r \in R

LedgerInv == \E R \in SUBSET Runs : LedgerOf(R)

LEMMA PostedStay ==
  ASSUME TypeOK, [Next]_vars, NEW r \in Runs, stage[r] \in Posted
  PROVE  stage'[r] \in Posted
<1>0. stage \in [Runs -> Stages]
  BY TypeParts DEF RunTypes
<1>1. CASE stage'[r] = stage[r]
  BY <1>1
<1>2. CASE Finish(r) \/ Fault(r)
  BY <1>0, <1>2 DEF Finish, Fault, SetStage, Posted
<1>3. ASSUME RunActs(r), ~ (Finish(r) \/ Fault(r)) PROVE FALSE
  BY <1>3 DEF RunActs, Accept, Lookup, Settle, Return, Buy, NoReply, WriteResults,
              RecordSpend, OpenFails, Posted
<1>4. ASSUME NEW s \in Runs, RunActs(s) PROVE stage'[r] \in Posted
  <2>1. CASE s # r
    BY <1>1, <1>4, <2>1, RunFrame
  <2>2. CASE s = r
    BY <1>2, <1>3, <1>4, <2>2
  <2> QED
    BY <2>1, <2>2
<1>5. CASE Crash
  BY <1>0, <1>5 DEF Crash, Posted
<1>6. ASSUME NEW a \in Addresses, Expire(a) PROVE stage'[r] \in Posted
  BY <1>1, <1>6 DEF Expire
<1>7. CASE AllOver \/ UNCHANGED vars
  BY <1>1, <1>7 DEF AllOver, vars
<1> QED
  BY <1>4, <1>5, <1>6, <1>7 DEF Next, RunActs

\* While nothing fails, a run of the server is posted by RecordSpend alone.
LEMMA PostedByRecord ==
  ASSUME TypeOK, [Next]_vars, NEW r \in Runs, Server(r),
         crashes' = 0, faults' = 0, stage'[r] \in Posted
  PROVE  crashes = 0 /\ faults = 0 /\ (stage[r] \in Posted \/ RecordSpend(r))
<1>0. stage \in [Runs -> Stages] /\ crashes \in Nat /\ faults \in Nat
  BY TypeParts, BoundsType DEF RunTypes, BoundTypes
<1> DEFINE Goal == crashes = 0 /\ faults = 0 /\ (stage[r] \in Posted \/ RecordSpend(r))
<1> SUFFICES Goal
  BY DEF Goal
<1> HIDE DEF Goal
<1> USE DEF counters
<1>1. CASE UNCHANGED counters /\ stage'[r] = stage[r]
  BY <1>1 DEF Goal
<1>2. ASSUME NEW s \in Runs, OpenFails(s) \/ Fault(s) PROVE FALSE
  BY <1>0, <1>2 DEF OpenFails, Fault
<1>3. ASSUME NEW s \in Runs, RunActs(s), ~ (OpenFails(s) \/ Fault(s))
      PROVE  UNCHANGED counters
  <2>1. CASE Accept(s) \/ Lookup(s) \/ Settle(s) \/ Return(s)
    BY <2>1 DEF Accept, Lookup, Settle, Return
  <2>2. CASE \E a \in Addresses : Buy(s, a) \/ NoReply(s, a)
    BY <2>2 DEF Buy, NoReply
  <2>3. CASE WriteResults(s) \/ RecordSpend(s) \/ Finish(s)
    BY <2>3 DEF WriteResults, RecordSpend, Finish
  <2> QED
    BY <1>3, <2>1, <2>2, <2>3 DEF RunActs
<1>4. CASE RecordSpend(r)
  BY <1>4 DEF RecordSpend, Goal
<1>5. CASE Finish(r)
  <2>1. stage[r] = "recorded"
    BY <1>5 DEF Finish, Server
  <2> QED
    BY <1>5, <2>1 DEF Finish, Posted, Goal
<1>6. ~ (Accept(r) \/ Lookup(r) \/ Settle(r) \/ Return(r) \/ WriteResults(r))
  BY <1>0 DEF Accept, Lookup, Settle, Return, WriteResults, SetStage, Posted
<1>7. ASSUME NEW a \in Addresses, Buy(r, a) \/ NoReply(r, a) PROVE Goal
  BY <1>1, <1>7 DEF Buy, NoReply
<1>8. ASSUME NEW s \in Runs, RunActs(s) PROVE Goal
  <2>1. CASE s # r
    <3>1. stage'[r] = stage[r]
      BY <1>8, <2>1, RunFrame
    <3> QED
      BY <1>1, <1>2, <1>3, <1>8, <3>1
  <2>2. CASE s = r
    BY <1>2, <1>4, <1>5, <1>6, <1>7, <1>8, <2>2 DEF RunActs
  <2> QED
    BY <2>1, <2>2
<1>9. ~ Crash
  BY <1>0 DEF Crash
<1>10. ASSUME NEW a \in Addresses, Expire(a) PROVE Goal
  BY <1>1, <1>10 DEF Expire
<1>11. CASE AllOver \/ UNCHANGED vars
  BY <1>1, <1>11 DEF AllOver, vars
<1> QED
  BY <1>8, <1>9, <1>10, <1>11 DEF Next, RunActs

LEMMA SpendFrame ==
  ASSUME TypeOK, [Next]_vars, \A r \in Runs : ~ RecordSpend(r)
  PROVE  spend' = spend
<1> USE DEF tables
<1>1. ASSUME NEW r \in Runs, Accept(r) \/ Lookup(r) \/ Settle(r) \/ Return(r)
      PROVE  spend' = spend
  BY <1>1 DEF Accept, Lookup, Settle, Return
<1>2. ASSUME NEW r \in Runs, WriteResults(r) \/ Finish(r) \/ OpenFails(r) \/ Fault(r)
      PROVE  spend' = spend
  BY <1>2 DEF WriteResults, Finish, OpenFails, Fault
<1>3. ASSUME NEW r \in Runs, NEW a \in Addresses, Buy(r, a) \/ NoReply(r, a)
      PROVE  spend' = spend
  BY <1>3 DEF Buy, NoReply
<1>4. ASSUME NEW a \in Addresses, Expire(a) PROVE spend' = spend
  BY <1>4 DEF Expire
<1>5. CASE Crash \/ AllOver \/ UNCHANGED vars
  BY <1>5 DEF Crash, AllOver, vars
<1> QED
  BY <1>1, <1>2, <1>3, <1>4, <1>5 DEF Next

LEMMA LedgerStep == TypeOK /\ Flow /\ Claims /\ LedgerInv /\ [Next]_vars => LedgerInv'
<1> SUFFICES ASSUME TypeOK, Flow, Claims, LedgerInv, [Next]_vars PROVE LedgerInv'
  OBVIOUS
<1>0. kind' = kind /\ stage \in [Runs -> Stages]
  BY BookTypesStep, TypeParts DEF RunTypes
<1>1. PICK R \in SUBSET Runs : LedgerOf(R)
  BY DEF LedgerInv
<1>2. \A r \in R : Server(r)' /\ stage'[r] \in Posted
  BY <1>0, <1>1, PostedStay DEF LedgerOf, Server
\* The purchases of posted runs are settled for good.
<1>3. OfRuns(R)' = OfRuns(R)
  <2>1. ASSUME NEW p, p[1] \in R PROVE p \in Settled' <=> p \in Settled
    <3>1. p[1] \in Runs /\ stage[p[1]] # "buying"
      BY <1>1, <2>1 DEF LedgerOf, Posted
    <3> QED
      BY <3>1, OfFrame DEF Settled
  <2> QED
    BY <2>1 DEF OfRuns
<1>4. CASE \A r \in Runs : ~ RecordSpend(r)
  <2>1. spend' = spend
    BY <1>4, SpendFrame
  <2>2. crashes' = 0 /\ faults' = 0 =>
          \A r \in Runs : Server(r)' /\ stage'[r] \in Posted => r \in R
    BY <1>0, <1>1, <1>4, PostedByRecord DEF LedgerOf, Server
  <2>3. LedgerOf(R)'
    BY <1>1, <1>2, <1>3, <2>1, <2>2 DEF LedgerOf
  <2> QED
    BY <2>3 DEF LedgerInv
<1>5. ASSUME NEW r \in Runs, RecordSpend(r) PROVE LedgerInv'
  <2>1. stage[r] \in {"written", "banked"} /\ stage'[r] = "recorded" /\ Server(r)
    BY <1>0, <1>5 DEF RecordSpend, SetStage, Claims, Server
  <2>2. r \notin R
    BY <1>1, <2>1 DEF LedgerOf, Posted
  <2>3. spend' = Cardinality(OfRuns(R)) + Cardinality(Of(r))
    BY <1>1, <1>5, <2>1, BillIsHonest DEF RecordSpend, LedgerOf, Busy
  <2>4. OfRuns(R \cup {r}) = OfRuns(R) \cup Of(r) /\ OfRuns(R) \cap Of(r) = {}
    BY <2>2 DEF OfRuns, Of
  <2>5. Cardinality(OfRuns(R) \cup Of(r)) = Cardinality(OfRuns(R)) + Cardinality(Of(r))
    <3>1. IsFiniteSet(OfRuns(R)) /\ IsFiniteSet(Of(r))
      BY SettledFinite, FS_Subset DEF OfRuns, Of
    <3>2. Cardinality(OfRuns(R)) \in Nat /\ Cardinality(Of(r)) \in Nat
      BY <3>1, FS_CardinalityType
    <3>3. Cardinality(OfRuns(R) \cup Of(r)) =
            Cardinality(OfRuns(R)) + Cardinality(Of(r)) - Cardinality(OfRuns(R) \cap Of(r))
      BY <3>1, FS_Union
    <3>4. Cardinality(OfRuns(R) \cap Of(r)) = 0
      BY <2>4, FS_EmptySet
    <3> QED
      BY <3>2, <3>3, <3>4
  <2>6. OfRuns(R \cup {r})' = OfRuns(R \cup {r})
    BY <1>5 DEF RecordSpend, purchases, OfRuns, Settled
  <2>7. spend' = Cardinality(OfRuns(R \cup {r})')
    BY <2>3, <2>4, <2>5, <2>6
  <2>8. \A s \in R \cup {r} : Server(s)' /\ stage'[s] \in Posted
    BY <1>0, <1>2, <2>1 DEF Server, Posted
  <2>9. \A s \in Runs \ {r} : stage'[s] = stage[s]
    BY <1>0, <1>5 DEF RecordSpend, SetStage
  <2>10. crashes' = 0 /\ faults' = 0 =>
          \A s \in Runs : Server(s)' /\ stage'[s] \in Posted => s \in R \cup {r}
    BY <1>0, <1>1, <1>5, <2>9 DEF RecordSpend, counters, LedgerOf, Server
  <2>11. LedgerOf(R \cup {r})'
    BY <2>7, <2>8, <2>10 DEF LedgerOf
  <2>12. R \cup {r} \in SUBSET Runs
    OBVIOUS
  <2> QED
    BY <2>11, <2>12 DEF LedgerInv
<1> QED
  BY <1>4, <1>5

LEMMA LedgerIsHonest == TypeOK /\ Flow /\ LedgerInv => LedgerHonest
<1> SUFFICES ASSUME TypeOK, Flow, LedgerInv PROVE LedgerHonest
  OBVIOUS
<1>1. PICK R \in SUBSET Runs : LedgerOf(R)
  BY DEF LedgerInv
<1>2. OfRuns(R) \subseteq ServerPurchases
  BY <1>1 DEF LedgerOf, OfRuns, ServerPurchases, Settled
<1>3. IsFiniteSet(ServerPurchases)
  BY SettledFinite, FS_Subset DEF ServerPurchases, Settled
<1>4. spend <= Cardinality(ServerPurchases)
  <2>1. Cardinality(OfRuns(R)) <= Cardinality(ServerPurchases)
    BY <1>2, <1>3, FS_Subset
  <2> QED
    BY <1>1, <2>1 DEF LedgerOf
<1>5. ASSUME crashes = 0, faults = 0, \A r \in Runs : stage[r] \in {"idle", "over"}
      PROVE  spend = Cardinality(ServerPurchases)
  <2>1. ASSUME NEW p \in ServerPurchases PROVE p \in OfRuns(R)
    <3>1. p \in Settled /\ p[1] \in Runs /\ Server(p[1])
      BY TypeParts DEF ServerPurchases, Settled, PurchaseTypes
    <3>2. stage[p[1]] # "idle"
      BY <3>1 DEF Flow, SettledAfter, Settled, Before
    <3>3. p[1] \in R
      BY <1>1, <1>5, <3>1, <3>2 DEF LedgerOf, Posted
    <3> QED
      BY <3>1, <3>3 DEF OfRuns
  <2>2. OfRuns(R) = ServerPurchases
    BY <1>2, <2>1
  <2> QED
    BY <1>1, <2>2 DEF LedgerOf
<1> QED
  BY <1>4, <1>5 DEF LedgerHonest

BooksInv == RowsInv /\ Claims /\ JobsInv /\ LedgerInv

LEMMA BooksInit == Init => BooksInv
<1> SUFFICES ASSUME Init PROVE BooksInv
  OBVIOUS
<1>1. RowsInv
  BY RowsInit
<1>2. Claims /\ JobsInv
  BY DEF Init, Claims, Busy, JobsInv, DoneIsOver, DoneIsBookkept
<1>3. LedgerOf({})
  <2>1. OfRuns({}) = {}
    BY DEF OfRuns
  <2>2. Cardinality({}) = 0
    BY FS_EmptySet
  <2> QED
    BY <2>1, <2>2 DEF Init, LedgerOf, Posted
<1>4. LedgerInv
  BY <1>3 DEF LedgerInv
<1> QED
  BY <1>1, <1>2, <1>4 DEF BooksInv

LEMMA BooksStep == TypeOK /\ Flow /\ Flow' /\ BooksInv /\ [Next]_vars => BooksInv'
<1> SUFFICES ASSUME TypeOK, Flow, Flow', BooksInv, [Next]_vars PROVE BooksInv'
  OBVIOUS
<1>1. RowsInv'
  BY RowsStep DEF BooksInv
<1>2. Claims' /\ JobsInv' /\ LedgerInv'
  BY ClaimsStep, JobsStep, LedgerStep DEF BooksInv
<1> QED
  BY <1>1, <1>2 DEF BooksInv

\* Rows, ledger and jobs tell the same story about credits over any sequence of
\* faults and restarts (engine.py run(), main.py _run_job, users.py:457).
THEOREM BooksAreKept == Spec => []BooksKept
<1>1. TypeOK /\ Flow /\ BooksInv => BooksKept
  BY LedgerIsHonest DEF BooksInv, BooksKept, RowsInv, JobsInv
<1> QED
  BY <1>1, TypeInit, TypeStep, FlowInit, FlowStep, BooksInit, BooksStep, PTL DEF Spec

=============================================================================
