---------------------------- MODULE ShelfProofs ----------------------------
(***************************************************************************)
(* Proofs about Shelf: type correctness, the bound on the age of what a    *)
(* verdict rests on, and that the tables of cache.py, as pipeline.py,      *)
(* engine.py and cli.py use them, implement Answers - for any addresses,   *)
(* domains, runs and lifetimes.                                            *)
(***************************************************************************)
EXTENDS Shelf, TLAPS

-----------------------------------------------------------------------------
(* Types.                                                                  *)

\* An address whose labels agree, or not, is given a status.
LEMMA AgreedStatus ==
  ASSUME NEW labels \in SUBSET Labels, labels # {}
  PROVE  Agreed(labels) \in {"valid", "invalid", "catch_all", "unknown"}
<1>1. (CHOOSE l \in labels : TRUE) \in labels
  OBVIOUS
<1> QED
  BY <1>1, ShelfAssumption DEF Agreed

\* What the pre-filter banks is a status, and a decided one.
LEMMA ResultStatus ==
  ASSUME NEW r, NEW a, Result(r, a) # "open"
  PROVE  Result(r, a) \in {"disposable", "invalid", "role"}
BY DEF Result

LEMMA OlderType ==
  ASSUME NEW limit \in Nat, NEW n \in 0 .. limit
  PROVE  /\ Older(n, limit) \in 0 .. limit
         /\ n < limit => Older(n, limit) = n + 1
         /\ n = limit => Older(n, limit) = n
BY DEF Older

LEMMA LimitType == Limit \in Nat /\ TTL \in Nat /\ DomainTTL \in Nat /\ MaxSpan \in Nat
                   /\ TTL <= Limit /\ DomainTTL <= Limit /\ MaxSpan <= Limit
BY ShelfAssumption DEF Limit

Sources == {"none", "prefilter", "engine", "clearout", "smtp"}
VerdictRows == [source : Sources, status : Statuses, age : 0 .. TTL + 1]
DomainRows == [dns : Outcomes \cup {"none"}, age : 0 .. DomainTTL + 1]
Heard == [dns : Outcomes \cup {"none"}, age : 0 .. Limit + 1]
RunRows == [stage : {"idle", "dns", "bank", "work"}, missed : SUBSET Addresses,
            drop : BOOLEAN, heard : [Domains -> Heard], span : 0 .. MaxSpan]

LEMMA DomainType == \A a \in Addresses : DomainOf[a] \in Domains
BY DEF Domains

LEMMA NewRow ==
  ASSUME NEW source \in Sources, NEW status \in Statuses
  PROVE  Row(source, status) \in VerdictRows
BY LimitType DEF Row, VerdictRows

LEMMA IdleType == Idle \in RunRows
<1>1. [d \in Domains |-> NoDomain] \in [Domains -> Heard]
  BY LimitType DEF NoDomain, Heard
<1> QED
  BY <1>1, LimitType DEF Idle, RunRows

-----------------------------------------------------------------------------
(* Every action keeps every variable in its type.                          *)

LEMMA TypeStep == TypeOK /\ [Next]_vars => TypeOK'
<1> SUFFICES ASSUME TypeOK, [Next]_vars PROVE TypeOK'
  OBVIOUS
<1> USE LimitType
<1>0. /\ verdicts \in [Addresses -> VerdictRows]
      /\ domains \in [Domains -> DomainRows]
      /\ run \in [Runs -> RunRows]
      /\ noted \in [Domains -> 0 .. Limit + 1]
      /\ basis \in [Addresses -> 0 .. Limit + 1]
      /\ zone \in [Domains -> Outcomes \ {"error"}]
  BY DEF TypeOK, VerdictRows, DomainRows, RunRows, Heard, Sources
<1> DEFINE Typed == /\ verdicts' \in [Addresses -> VerdictRows]
                    /\ domains' \in [Domains -> DomainRows]
                    /\ run' \in [Runs -> RunRows]
                    /\ noted' \in [Domains -> 0 .. Limit + 1]
                    /\ basis' \in [Addresses -> 0 .. Limit + 1]
                    /\ zone' \in [Domains -> Outcomes \ {"error"}]
                    /\ name' = name
<1> SUFFICES Typed
  BY DEF TypeOK, VerdictRows, DomainRows, RunRows, Heard, Sources
<1>1. CASE Tick
  <2>1. verdicts' \in [Addresses -> VerdictRows]
    <3> SUFFICES ASSUME NEW a \in Addresses PROVE verdicts'[a] \in VerdictRows
      BY <1>1 DEF Tick
    <3>1. verdicts[a] \in VerdictRows
      BY <1>0
    <3>2. Older(verdicts[a].age, TTL + 1) \in 0 .. TTL + 1
      BY <3>1, OlderType DEF VerdictRows
    <3>3. NoRow \in VerdictRows
      BY DEF NoRow, VerdictRows, Sources, Statuses
    <3>4. [verdicts[a] EXCEPT !.age = Older(@, TTL + 1)] \in VerdictRows
      BY <3>1, <3>2 DEF VerdictRows
    <3> QED
      BY <1>1, <3>3, <3>4 DEF Tick
  <2>2. domains' \in [Domains -> DomainRows]
    <3> SUFFICES ASSUME NEW d \in Domains PROVE domains'[d] \in DomainRows
      BY <1>1 DEF Tick
    <3>1. domains[d] \in DomainRows
      BY <1>0
    <3>2. Older(domains[d].age, DomainTTL + 1) \in 0 .. DomainTTL + 1
      BY <3>1, OlderType DEF DomainRows
    <3>3. NoDomain \in DomainRows
      BY DEF NoDomain, DomainRows
    <3>4. [domains[d] EXCEPT !.age = Older(@, DomainTTL + 1)] \in DomainRows
      BY <3>1, <3>2 DEF DomainRows
    <3> QED
      BY <1>1, <3>3, <3>4 DEF Tick
  <2>3. run' \in [Runs -> RunRows]
    <3> SUFFICES ASSUME NEW r \in Runs PROVE run'[r] \in RunRows
      BY <1>1 DEF Tick
    <3>1. CASE run[r].stage = "idle"
      BY <1>1, <3>1, IdleType DEF Tick
    <3>2. CASE run[r].stage # "idle"
      <4> DEFINE aged == Aged(run[r].heard)
      <4>1. run[r] \in RunRows
        BY <1>0
      <4>2. aged \in [Domains -> Heard]
        <5> SUFFICES ASSUME NEW d \in Domains PROVE aged[d] \in Heard
          BY DEF Aged
        <5>1. run[r].heard[d] \in Heard
          BY <4>1 DEF RunRows
        <5>2. Older(run[r].heard[d].age, Limit + 1) \in 0 .. Limit + 1
          BY <5>1, OlderType DEF Heard
        <5>3. NoDomain \in Heard
          BY DEF NoDomain, Heard
        <5>4. [run[r].heard[d] EXCEPT !.age = Older(@, Limit + 1)] \in Heard
          BY <5>1, <5>2 DEF Heard
        <5> QED
          BY <5>3, <5>4 DEF Aged
      <4>3. run[r].span + 1 \in 0 .. MaxSpan
        <5>1. run[r].span < MaxSpan
          BY <1>1, <3>2 DEF Tick
        <5>2. run[r].span \in 0 .. MaxSpan
          BY <4>1 DEF RunRows
        <5> QED
          BY <5>1, <5>2
      <4>4. run'[r] = [run[r] EXCEPT !.span = run[r].span + 1, !.heard = aged]
        BY <1>1, <3>2 DEF Tick
      <4> HIDE DEF aged
      <4> QED
        BY <4>1, <4>2, <4>3, <4>4 DEF RunRows
    <3> QED
      BY <3>1, <3>2
  <2>4. \A n \in 0 .. Limit + 1 : Older(n, Limit + 1) \in 0 .. Limit + 1
    BY OlderType
  <2>5. noted' \in [Domains -> 0 .. Limit + 1] /\ basis' \in [Addresses -> 0 .. Limit + 1]
    <3>1. /\ noted' = [d \in Domains |->
               IF domains[d].dns = "none" THEN 0 ELSE Older(noted[d], Limit + 1)]
          /\ basis' = [a \in Addresses |->
               IF verdicts[a].source = "none" THEN 0 ELSE Older(basis[a], Limit + 1)]
      BY <1>1 DEF Tick
    <3> QED
      BY <1>0, <2>4, <3>1
  <2> QED
    BY <1>0, <1>1, <2>1, <2>2, <2>3, <2>5 DEF Tick
<1>2. ASSUME NEW e \in Domains, DnsChanges(e) PROVE Typed
  BY <1>0, <1>2 DEF DnsChanges, tables
<1>3. ASSUME NEW r \in Prefilters, Read(r) PROVE Typed
  <2>1. PICK drop \in BOOLEAN :
          run' = [run EXCEPT ![r] =
            [stage |-> "dns", missed |-> Missed, drop |-> drop, span |-> 0,
             heard |-> [d \in Domains |->
               IF Known(d) THEN [dns |-> domains[d].dns, age |-> noted[d]] ELSE NoDomain]]]
    BY <1>3 DEF Read
  <2>2. [d \in Domains |->
           IF Known(d) THEN [dns |-> domains[d].dns, age |-> noted[d]] ELSE NoDomain]
         \in [Domains -> Heard]
    BY <1>0 DEF Heard, NoDomain, DomainRows
  <2>3. Missed \in SUBSET Addresses
    BY DEF Missed
  <2>4. run'[r] \in RunRows
    BY <1>0, <2>1, <2>2, <2>3 DEF RunRows, Runs
  <2> QED
    BY <1>0, <1>3, <2>1, <2>4 DEF Read, tables
<1>4. ASSUME NEW r \in Prefilters, Query(r) PROVE Typed
  <2>1. PICK lost \in SUBSET {d \in Pending(r) : run[r].heard[d].dns = "none"} :
          LET heard == [d \in Domains |->
                CASE run[r].heard[d].dns # "none" \/ d \notin Pending(r) -> run[r].heard[d]
                  [] d \in lost -> [dns |-> "error", age |-> 0]
                  [] OTHER -> [dns |-> zone[d], age |-> 0]]
          IN  /\ domains' = [d \in Domains |->
                   IF d \in Stored(r) THEN [dns |-> heard[d].dns, age |-> 0] ELSE domains[d]]
              /\ noted' = [d \in Domains |->
                   IF d \in Stored(r) THEN heard[d].age ELSE noted[d]]
              /\ run' = [run EXCEPT ![r].heard = heard, ![r].stage = "bank"]
    BY <1>4 DEF Query
  <2> DEFINE heard == [d \in Domains |->
                CASE run[r].heard[d].dns # "none" \/ d \notin Pending(r) -> run[r].heard[d]
                  [] d \in lost -> [dns |-> "error", age |-> 0]
                  [] OTHER -> [dns |-> zone[d], age |-> 0]]
  <2>2. r \in Runs /\ run[r] \in RunRows
    BY <1>0 DEF Runs
  <2>3. heard \in [Domains -> Heard]
    <3> SUFFICES ASSUME NEW d \in Domains PROVE heard[d] \in Heard
      OBVIOUS
    <3>1. run[r].heard[d] \in Heard /\ zone[d] \in Outcomes
      BY <1>0, <2>2 DEF RunRows
    <3> QED
      BY <3>1 DEF Heard, Outcomes
  <2>4. /\ domains' = [d \in Domains |->
             IF d \in Stored(r) THEN [dns |-> heard[d].dns, age |-> 0] ELSE domains[d]]
        /\ noted' = [d \in Domains |-> IF d \in Stored(r) THEN heard[d].age ELSE noted[d]]
        /\ run' = [run EXCEPT ![r] = [run[r] EXCEPT !.heard = heard, !.stage = "bank"]]
    BY <1>0, <2>1, <2>2
  <2> HIDE DEF heard
  <2>5. domains' \in [Domains -> DomainRows] /\ noted' \in [Domains -> 0 .. Limit + 1]
    BY <1>0, <2>3, <2>4 DEF DomainRows, Heard
  <2>6. run'[r] \in RunRows
    BY <1>0, <2>2, <2>3, <2>4 DEF RunRows
  <2> QED
    BY <1>0, <1>4, <2>4, <2>5, <2>6 DEF Query
<1>5. ASSUME NEW r \in Prefilters, Bank(r) PROVE Typed
  <2>1. verdicts' \in [Addresses -> VerdictRows]
    <3> SUFFICES ASSUME NEW a \in Addresses PROVE verdicts'[a] \in VerdictRows
      BY <1>5 DEF Bank
    <3>1. CASE a \in Resolved(r)
      <4>1. Result(r, a) \in Statuses
        BY <3>1, ResultStatus DEF Resolved, Statuses
      <4>2. Row("prefilter", Result(r, a)) \in VerdictRows
        BY <4>1, NewRow DEF Sources
      <4> QED
        BY <1>5, <3>1, <4>2 DEF Bank
    <3>2. CASE a \notin Resolved(r)
      BY <1>0, <1>5, <3>2 DEF Bank
    <3> QED
      BY <3>1, <3>2
  <2>2. run[r] \in RunRows
    BY <1>0 DEF Runs
  <2>3. basis' \in [Addresses -> 0 .. Limit + 1]
    <3> SUFFICES ASSUME NEW a \in Addresses PROVE basis'[a] \in 0 .. Limit + 1
      BY <1>5 DEF Bank
    <3>1. run[r].heard[DomainOf[a]].age \in 0 .. Limit + 1 /\ run[r].span \in 0 .. Limit + 1
      BY <2>2, DomainType DEF RunRows, Heard
    <3> QED
      BY <1>0, <1>5, <3>1 DEF Bank
  <2> QED
    BY <1>0, <1>5, <2>1, <2>3, IdleType DEF Bank
<1>6. ASSUME NEW r \in Engines, Start(r) PROVE Typed
  <2>1. [Idle EXCEPT !.stage = "work", !.missed = Missed] \in RunRows
    BY IdleType DEF RunRows, Missed
  <2> QED
    BY <1>0, <1>6, <2>1 DEF Start, tables
<1>7. ASSUME NEW r \in Engines, Settle(r) PROVE Typed
  <2>1. PICK some \in SUBSET run[r].missed :
          \E said \in [some -> {"valid", "unknown", "likely_valid"}] :
            /\ verdicts' = [a \in Addresses |->
                 IF a \in some THEN Row("engine", said[a]) ELSE verdicts[a]]
            /\ basis' = [a \in Addresses |-> IF a \in some THEN Grounds(r, said[a]) ELSE basis[a]]
    BY <1>7 DEF Settle
  <2>2. PICK said \in [some -> {"valid", "unknown", "likely_valid"}] :
            /\ verdicts' = [a \in Addresses |->
                 IF a \in some THEN Row("engine", said[a]) ELSE verdicts[a]]
            /\ basis' = [a \in Addresses |-> IF a \in some THEN Grounds(r, said[a]) ELSE basis[a]]
    BY <2>1
  <2>3. verdicts' \in [Addresses -> VerdictRows]
    <3>1. \A a \in some : Row("engine", said[a]) \in VerdictRows
      BY <2>2, NewRow DEF Sources, Statuses
    <3> QED
      BY <1>0, <2>2, <3>1
  <2>4. \A a \in some : Grounds(r, said[a]) \in 0 .. Limit + 1
    <3>1. run[r].span \in 0 .. Limit + 1
      BY <1>0 DEF Runs, RunRows
    <3> QED
      BY <3>1 DEF Grounds, Ancient
  <2> QED
    BY <1>0, <1>7, <2>2, <2>3, <2>4, IdleType DEF Settle
<1>8. ASSUME NEW r \in Runs, Kill(r) PROVE Typed
  BY <1>0, <1>8, IdleType DEF Kill, tables
<1>9. CASE Ingest
  <2>1. PICK file \in [Addresses -> SUBSET Labels] :
          /\ verdicts' = [a \in Addresses |->
               IF file[a] # {} THEN Row("clearout", Agreed(file[a])) ELSE verdicts[a]]
          /\ basis' = [a \in Addresses |-> IF file[a] # {} THEN Ancient ELSE basis[a]]
    BY <1>9 DEF Ingest
  <2>2. \A a \in Addresses : file[a] # {} => Row("clearout", Agreed(file[a])) \in VerdictRows
    <3> SUFFICES ASSUME NEW a \in Addresses, file[a] # {}
                 PROVE  Row("clearout", Agreed(file[a])) \in VerdictRows
      OBVIOUS
    <3>1. Agreed(file[a]) \in Statuses
      BY AgreedStatus DEF Statuses
    <3> QED
      BY <3>1, NewRow DEF Sources
  <2> QED
    BY <1>0, <1>9, <2>1, <2>2 DEF Ingest, Ancient
<1>10. CASE MergeSmtp
  <2>1. PICK some \in SUBSET Addresses :
          \E told \in [some -> Labels \cap {"valid", "invalid"}] :
            /\ verdicts' = [a \in Addresses |->
                 IF a \in some THEN Row("smtp", told[a]) ELSE verdicts[a]]
            /\ basis' = [a \in Addresses |-> IF a \in some THEN Ancient ELSE basis[a]]
    BY <1>10 DEF MergeSmtp
  <2>2. PICK told \in [some -> Labels \cap {"valid", "invalid"}] :
            /\ verdicts' = [a \in Addresses |->
                 IF a \in some THEN Row("smtp", told[a]) ELSE verdicts[a]]
            /\ basis' = [a \in Addresses |-> IF a \in some THEN Ancient ELSE basis[a]]
    BY <2>1
  <2>3. \A a \in some : Row("smtp", told[a]) \in VerdictRows
    BY <2>2, NewRow DEF Sources, Statuses
  <2> QED
    BY <1>0, <1>10, <2>2, <2>3 DEF MergeSmtp, Ancient
<1>11. CASE UNCHANGED vars
  BY <1>0, <1>11 DEF vars, tables
<1> QED
  BY <1>1, <1>2, <1>3, <1>4, <1>5, <1>6, <1>7, <1>8, <1>9, <1>10, <1>11 DEF Next

LEMMA TypeInit == Init => TypeOK
<1> SUFFICES ASSUME Init PROVE TypeOK
  OBVIOUS
<1>1. run \in [Runs -> RunRows]
  BY IdleType DEF Init
<1> QED
  BY <1>1, LimitType
     DEF Init, TypeOK, NoRow, NoDomain, Statuses, RunRows, Heard

\* TypeOK holds of every reachable state.
THEOREM TypeCorrect == Spec => []TypeOK
BY TypeInit, TypeStep, PTL DEF Spec

-----------------------------------------------------------------------------
(* The age of the evidence.                                                *)

\* What a run has looked up itself
Own(a) ==
  /\ verdicts[a].source \in {"prefilter", "engine"}
  /\ verdicts[a].status # "likely_valid"
Allowance(a) == IF verdicts[a].status = "invalid" THEN DomainTTL + MaxSpan ELSE MaxSpan

\* A domain that the table still answers was looked up when its row says.
DomainsDated ==
  \A d \in Domains : domains[d].dns # "none" /\ domains[d].age <= DomainTTL =>
    noted[d] <= domains[d].age

\* What a run has read of a domain was still served when it began.
HeardDated ==
  \A r \in Runs, d \in Domains :
    run[r].stage # "idle" /\ run[r].heard[d].dns # "none" =>
      run[r].heard[d].age <= DomainTTL + run[r].span

\* A verdict was no older than the run that reached it allows when it was put.
VerdictsDated ==
  \A a \in Addresses : Own(a) /\ verdicts[a].age <= TTL =>
    basis[a] <= verdicts[a].age + Allowance(a)

Dated == DomainsDated /\ HeardDated /\ VerdictsDated

\* Time passes for the rows and for what they rest on alike.
LEMMA DatedTick == TypeOK /\ Dated /\ Tick => Dated'
<1> SUFFICES ASSUME TypeOK, Dated, Tick PROVE Dated'
  OBVIOUS
<1> USE LimitType
<1>1. DomainsDated'
  <2> SUFFICES ASSUME NEW d \in Domains, domains'[d].dns # "none", domains'[d].age <= DomainTTL
               PROVE  noted'[d] <= domains'[d].age
    BY DEF DomainsDated
  <2>1. domains[d].dns # "none"
    BY DEF Tick, NoDomain
  <2>2. domains[d].age \in 0 .. DomainTTL + 1 /\ noted[d] \in 0 .. Limit + 1
    BY DEF TypeOK
  <2>3. domains'[d] = [domains[d] EXCEPT !.age = Older(@, DomainTTL + 1)]
    BY <2>1 DEF Tick
  <2>4. domains'[d].age = Older(domains[d].age, DomainTTL + 1)
    BY <2>3 DEF TypeOK
  <2>5. noted'[d] = Older(noted[d], Limit + 1)
    BY <2>1 DEF Tick
  <2>6. domains[d].age <= DomainTTL /\ domains'[d].age = domains[d].age + 1
    BY <2>2, <2>4 DEF Older
  <2>7. noted[d] <= domains[d].age
    BY <2>1, <2>6 DEF Dated, DomainsDated
  <2>8. noted'[d] <= noted[d] + 1
    BY <2>2, <2>5 DEF Older
  <2> QED
    BY <2>2, <2>5, <2>6, <2>7, <2>8 DEF Older
<1>2. HeardDated'
  <2> SUFFICES ASSUME NEW r \in Runs, NEW d \in Domains,
                      run'[r].stage # "idle", run'[r].heard[d].dns # "none"
               PROVE  run'[r].heard[d].age <= DomainTTL + run'[r].span
    BY DEF HeardDated
  <2>1. run[r].stage # "idle"
    BY DEF Tick, Idle
  <2>2. run'[r] = [run[r] EXCEPT !.span = run[r].span + 1, !.heard = Aged(run[r].heard)]
    BY <2>1 DEF Tick
  <2>3. run'[r].span = run[r].span + 1 /\ run'[r].heard = Aged(run[r].heard)
    BY <2>2 DEF TypeOK
  <2>4. run[r].heard[d].dns # "none"
    BY <2>3 DEF Aged, NoDomain
  <2>5. run[r].heard[d].age \in 0 .. Limit + 1 /\ run[r].span \in 0 .. MaxSpan
    BY DEF TypeOK
  <2>6. run'[r].heard[d] = [run[r].heard[d] EXCEPT !.age = Older(@, Limit + 1)]
    BY <2>3, <2>4 DEF Aged
  <2>7. run'[r].heard[d].age = Older(run[r].heard[d].age, Limit + 1)
    BY <2>6 DEF TypeOK
  <2>8. run[r].heard[d].age <= DomainTTL + run[r].span
    BY <2>1, <2>4 DEF Dated, HeardDated
  <2>9. Older(run[r].heard[d].age, Limit + 1) <= run[r].heard[d].age + 1
        /\ Older(run[r].heard[d].age, Limit + 1) \in 0 .. Limit + 1
    BY <2>5 DEF Older
  <2> QED
    BY <2>3, <2>5, <2>7, <2>8, <2>9
<1>3. VerdictsDated'
  <2> SUFFICES ASSUME NEW a \in Addresses, Own(a)', verdicts'[a].age <= TTL
               PROVE  basis'[a] <= verdicts'[a].age + Allowance(a)'
    BY DEF VerdictsDated
  <2>1. verdicts[a].source # "none"
    BY DEF Tick, NoRow, Own
  <2>2. verdicts'[a] = [verdicts[a] EXCEPT !.age = Older(@, TTL + 1)]
    BY <2>1 DEF Tick
  <2>3. /\ verdicts'[a].age = Older(verdicts[a].age, TTL + 1)
        /\ verdicts'[a].status = verdicts[a].status
        /\ verdicts'[a].source = verdicts[a].source
    BY <2>2 DEF TypeOK
  <2>4. basis'[a] = Older(basis[a], Limit + 1)
    BY <2>1 DEF Tick
  <2>5. verdicts[a].age \in 0 .. TTL + 1 /\ basis[a] \in 0 .. Limit + 1
    BY DEF TypeOK
  <2>6. verdicts[a].age <= TTL /\ verdicts'[a].age = verdicts[a].age + 1
    BY <2>3, <2>5 DEF Older
  <2>7. Own(a) /\ Allowance(a)' = Allowance(a)
    BY <2>3 DEF Own, Allowance
  <2>8. basis[a] <= verdicts[a].age + Allowance(a)
    BY <2>6, <2>7 DEF Dated, VerdictsDated
  <2>9. basis'[a] <= basis[a] + 1 /\ basis'[a] \in 0 .. Limit + 1
    BY <2>4, <2>5 DEF Older
  <2>10. Allowance(a) \in Nat
    BY DEF Allowance
  <2> QED
    BY <2>5, <2>6, <2>7, <2>8, <2>9, <2>10
<1> QED
  BY <1>1, <1>2, <1>3 DEF Dated

\* A run writes a domain only on the day it has asked, and a verdict no older
\* than what it rests on allows.
LEMMA DatedStep == TypeOK /\ Dated /\ [Next]_vars => Dated'
<1> SUFFICES ASSUME TypeOK, Dated, [Next]_vars PROVE Dated'
  OBVIOUS
<1> USE LimitType
<1>1. CASE Tick
  BY <1>1, DatedTick
<1>2. ASSUME NEW e \in Domains, DnsChanges(e) PROVE Dated'
  BY <1>2 DEF DnsChanges, tables, Dated, DomainsDated, HeardDated, VerdictsDated, Own, Allowance
<1>3. ASSUME NEW r \in Prefilters, Read(r) PROVE Dated'
  <2>1. r \in Runs
    BY DEF Runs
  <2>2. PICK drop \in BOOLEAN :
          run' = [run EXCEPT ![r] =
            [stage |-> "dns", missed |-> Missed, drop |-> drop, span |-> 0,
             heard |-> [d \in Domains |->
               IF Known(d) THEN [dns |-> domains[d].dns, age |-> noted[d]] ELSE NoDomain]]]
    BY <1>3 DEF Read
  <2>3. HeardDated'
    <3> SUFFICES ASSUME NEW s \in Runs, NEW d \in Domains,
                        run'[s].stage # "idle", run'[s].heard[d].dns # "none"
                 PROVE  run'[s].heard[d].age <= DomainTTL + run'[s].span
      BY DEF HeardDated
    <3>1. CASE s = r
      <4>1. /\ run'[r].span = 0
            /\ run'[r].heard[d] =
                 IF Known(d) THEN [dns |-> domains[d].dns, age |-> noted[d]] ELSE NoDomain
        BY <2>1, <2>2 DEF TypeOK
      <4>2. Known(d) /\ run'[r].heard[d].age = noted[d]
        BY <3>1, <4>1 DEF NoDomain
      <4>3. noted[d] <= domains[d].age /\ domains[d].age <= DomainTTL
        BY <4>2 DEF Known, Dated, DomainsDated
      <4>4. noted[d] \in 0 .. Limit + 1 /\ domains[d].age \in 0 .. DomainTTL + 1
        BY DEF TypeOK
      <4> QED
        BY <3>1, <4>1, <4>2, <4>3, <4>4
    <3>2. CASE s # r
      <4>1. run'[s] = run[s]
        BY <2>2, <3>2 DEF TypeOK
      <4> QED
        BY <4>1 DEF Dated, HeardDated
    <3> QED
      BY <3>1, <3>2
  <2> QED
    BY <1>3, <2>3 DEF Read, tables, Dated, DomainsDated, VerdictsDated, Own, Allowance
<1>4. ASSUME NEW r \in Prefilters, Query(r) PROVE Dated'
  <2>1. PICK lost \in SUBSET {d \in Pending(r) : run[r].heard[d].dns = "none"} :
          LET heard == [d \in Domains |->
                CASE run[r].heard[d].dns # "none" \/ d \notin Pending(r) -> run[r].heard[d]
                  [] d \in lost -> [dns |-> "error", age |-> 0]
                  [] OTHER -> [dns |-> zone[d], age |-> 0]]
          IN  /\ domains' = [d \in Domains |->
                   IF d \in Stored(r) THEN [dns |-> heard[d].dns, age |-> 0] ELSE domains[d]]
              /\ noted' = [d \in Domains |->
                   IF d \in Stored(r) THEN heard[d].age ELSE noted[d]]
              /\ run' = [run EXCEPT ![r].heard = heard, ![r].stage = "bank"]
    BY <1>4 DEF Query
  <2> DEFINE heard == [d \in Domains |->
                CASE run[r].heard[d].dns # "none" \/ d \notin Pending(r) -> run[r].heard[d]
                  [] d \in lost -> [dns |-> "error", age |-> 0]
                  [] OTHER -> [dns |-> zone[d], age |-> 0]]
  <2>2. r \in Runs
    BY DEF Runs
  <2>3. /\ domains' = [d \in Domains |->
             IF d \in Stored(r) THEN [dns |-> heard[d].dns, age |-> 0] ELSE domains[d]]
        /\ noted' = [d \in Domains |-> IF d \in Stored(r) THEN heard[d].age ELSE noted[d]]
        /\ run' = [run EXCEPT ![r] = [run[r] EXCEPT !.heard = heard, !.stage = "bank"]]
    BY <2>1, <2>2 DEF TypeOK
  <2>4. \A d \in Domains :
          IF run[r].heard[d].dns # "none" \/ d \notin Pending(r)
          THEN heard[d] = run[r].heard[d] ELSE heard[d].age = 0
    OBVIOUS
  <2> HIDE DEF heard
  <2>5. DomainsDated'
    <3> SUFFICES ASSUME NEW d \in Domains, domains'[d].dns # "none", domains'[d].age <= DomainTTL
                 PROVE  noted'[d] <= domains'[d].age
      BY DEF DomainsDated
    <3>1. CASE d \in Stored(r)
      BY <2>3, <2>4, <3>1 DEF Stored
    <3>2. CASE d \notin Stored(r)
      BY <2>3, <3>2 DEF Dated, DomainsDated
    <3> QED
      BY <3>1, <3>2
  <2>6. HeardDated'
    <3> SUFFICES ASSUME NEW s \in Runs, NEW d \in Domains,
                        run'[s].stage # "idle", run'[s].heard[d].dns # "none"
                 PROVE  run'[s].heard[d].age <= DomainTTL + run'[s].span
      BY DEF HeardDated
    <3>1. CASE s = r
      <4>1. run'[r].heard = heard /\ run'[r].span = run[r].span
        BY <2>2, <2>3 DEF TypeOK
      <4>2. run[r].stage # "idle" /\ run[r].span \in 0 .. MaxSpan
        BY <1>4, <2>2 DEF Query, TypeOK
      <4> QED
        BY <2>2, <2>4, <3>1, <4>1, <4>2 DEF Dated, HeardDated
    <3>2. CASE s # r
      <4>1. run'[s] = run[s]
        BY <2>3, <3>2 DEF TypeOK
      <4> QED
        BY <4>1 DEF Dated, HeardDated
    <3> QED
      BY <3>1, <3>2
  <2> QED
    BY <1>4, <2>5, <2>6 DEF Query, Dated, VerdictsDated, Own, Allowance
<1>5. ASSUME NEW r \in Prefilters, Bank(r) PROVE Dated'
  <2>1. r \in Runs
    BY DEF Runs
  <2>2. HeardDated'
    BY <1>5, <2>1 DEF Bank, Idle, TypeOK, Dated, HeardDated
  <2>3. VerdictsDated'
    <3> SUFFICES ASSUME NEW a \in Addresses, Own(a)', verdicts'[a].age <= TTL
                 PROVE  basis'[a] <= verdicts'[a].age + Allowance(a)'
      BY DEF VerdictsDated
    <3>1. run[r].span \in 0 .. MaxSpan
      BY <2>1 DEF TypeOK
    <3>2. CASE a \notin Resolved(r)
      BY <1>5, <3>2 DEF Bank, Dated, VerdictsDated, Own, Allowance
    <3>3. CASE a \in Resolved(r) /\ Result(r, a) = "invalid"
      <4>1. verdicts'[a] = Row("prefilter", "invalid")
            /\ basis'[a] = run[r].heard[DomainOf[a]].age
        BY <1>5, <3>3 DEF Bank
      <4>2. run[r].heard[DomainOf[a]].dns # "none"
        BY <3>3 DEF Result
      <4>3. run[r].heard[DomainOf[a]].age <= DomainTTL + run[r].span
        BY <1>5, <2>1, <4>2, DomainType DEF Bank, Dated, HeardDated
      <4>4. run[r].heard[DomainOf[a]].age \in 0 .. Limit + 1
        BY <2>1, DomainType DEF TypeOK
      <4>5. verdicts'[a].age = 0 /\ Allowance(a)' = DomainTTL + MaxSpan
        BY <4>1 DEF Row, Allowance
      <4> QED
        BY <3>1, <4>1, <4>3, <4>4, <4>5
    <3>4. CASE a \in Resolved(r) /\ Result(r, a) # "invalid"
      <4>1. verdicts'[a] = Row("prefilter", Result(r, a)) /\ basis'[a] = run[r].span
        BY <1>5, <3>4 DEF Bank
      <4>2. verdicts'[a].age = 0 /\ Allowance(a)' = MaxSpan
        BY <3>4, <4>1 DEF Row, Allowance
      <4> QED
        BY <3>1, <4>1, <4>2
    <3> QED
      BY <3>2, <3>3, <3>4
  <2> QED
    BY <1>5, <2>2, <2>3 DEF Bank, Dated, DomainsDated
<1>6. ASSUME NEW r \in Engines, Start(r) PROVE Dated'
  <2>1. HeardDated'
    <3> SUFFICES ASSUME NEW s \in Runs, NEW d \in Domains,
                        run'[s].stage # "idle", run'[s].heard[d].dns # "none"
                 PROVE  run'[s].heard[d].age <= DomainTTL + run'[s].span
      BY DEF HeardDated
    <3>1. s # r
      BY <1>6 DEF Start, Idle, NoDomain, TypeOK
    <3>2. run'[s] = run[s]
      BY <1>6, <3>1 DEF Start, TypeOK
    <3> QED
      BY <3>2 DEF Dated, HeardDated
  <2> QED
    BY <1>6, <2>1 DEF Start, tables, Dated, DomainsDated, VerdictsDated, Own, Allowance
<1>7. ASSUME NEW r \in Engines, Settle(r) PROVE Dated'
  <2>1. PICK some \in SUBSET run[r].missed :
          \E said \in [some -> {"valid", "unknown", "likely_valid"}] :
            /\ verdicts' = [a \in Addresses |->
                 IF a \in some THEN Row("engine", said[a]) ELSE verdicts[a]]
            /\ basis' = [a \in Addresses |-> IF a \in some THEN Grounds(r, said[a]) ELSE basis[a]]
    BY <1>7 DEF Settle
  <2>2. PICK said \in [some -> {"valid", "unknown", "likely_valid"}] :
            /\ verdicts' = [a \in Addresses |->
                 IF a \in some THEN Row("engine", said[a]) ELSE verdicts[a]]
            /\ basis' = [a \in Addresses |-> IF a \in some THEN Grounds(r, said[a]) ELSE basis[a]]
    BY <2>1
  <2>3. run[r].span \in 0 .. MaxSpan
    BY DEF TypeOK, Runs
  <2>4. VerdictsDated'
    <3> SUFFICES ASSUME NEW a \in Addresses, Own(a)', verdicts'[a].age <= TTL
                 PROVE  basis'[a] <= verdicts'[a].age + Allowance(a)'
      BY DEF VerdictsDated
    <3>1. CASE a \in some
      <4>1. verdicts'[a] = Row("engine", said[a]) /\ basis'[a] = run[r].span
        BY <2>2, <3>1 DEF Own, Row, Grounds
      <4>2. verdicts'[a].age = 0 /\ Allowance(a)' = MaxSpan
        BY <2>2, <3>1, <4>1 DEF Row, Allowance
      <4> QED
        BY <2>3, <4>1, <4>2
    <3>2. CASE a \notin some
      BY <2>2, <3>2 DEF Dated, VerdictsDated, Own, Allowance
    <3> QED
      BY <3>1, <3>2
  <2>5. HeardDated'
    BY <1>7 DEF Settle, Idle, TypeOK, Dated, HeardDated
  <2> QED
    BY <1>7, <2>4, <2>5 DEF Settle, Dated, DomainsDated
<1>8. ASSUME NEW r \in Runs, Kill(r) PROVE Dated'
  BY <1>8 DEF Kill, tables, Idle, TypeOK, Dated, DomainsDated, HeardDated, VerdictsDated,
              Own, Allowance
<1>9. CASE Ingest
  <2>1. \A a \in Addresses : Own(a)' => verdicts'[a] = verdicts[a] /\ basis'[a] = basis[a]
    BY <1>9 DEF Ingest, Own, Row
  <2> QED
    BY <1>9, <2>1 DEF Ingest, Dated, DomainsDated, HeardDated, VerdictsDated, Own, Allowance
<1>10. CASE MergeSmtp
  <2>1. \A a \in Addresses : Own(a)' => verdicts'[a] = verdicts[a] /\ basis'[a] = basis[a]
    BY <1>10 DEF MergeSmtp, Own, Row
  <2> QED
    BY <1>10, <2>1 DEF MergeSmtp, Dated, DomainsDated, HeardDated, VerdictsDated, Own, Allowance
<1>11. CASE UNCHANGED vars
  BY <1>11 DEF vars, tables, Dated, DomainsDated, HeardDated, VerdictsDated, Own, Allowance
<1> QED
  BY <1>1, <1>2, <1>3, <1>4, <1>5, <1>6, <1>7, <1>8, <1>9, <1>10, <1>11 DEF Next

LEMMA DatedInit == Init => Dated
BY DEF Init, NoRow, NoDomain, Idle, Dated, DomainsDated, HeardDated, VerdictsDated, Own

\* Nothing a run has looked up itself is served when the lookup is older than the
\* lifetimes of both tables together (cache.py lookup and get_domain).  Imports
\* and guesses are not bounded.
THEOREM EvidenceIsBounded == Spec => []EvidenceBounded
<1>1. TypeOK /\ Dated => EvidenceBounded
  <2> SUFFICES ASSUME TypeOK, Dated, NEW a \in Addresses, Served(a), Own(a)
               PROVE  /\ basis[a] <= Limit
                      /\ verdicts[a].status # "invalid" => basis[a] <= TTL + MaxSpan
    BY DEF EvidenceBounded, Own
  <2>1. basis[a] <= verdicts[a].age + Allowance(a) /\ verdicts[a].age <= TTL
    BY DEF Served, Dated, VerdictsDated
  <2>2. basis[a] \in 0 .. Limit + 1 /\ verdicts[a].age \in 0 .. TTL + 1
    BY DEF TypeOK
  <2> QED
    BY <2>1, <2>2, LimitType DEF Allowance, Limit
<1> QED
  BY <1>1, TypeInit, TypeStep, DatedInit, DatedStep, PTL DEF Spec

-----------------------------------------------------------------------------
(* The refinement.                                                         *)

\* A run that is not under way has asked for nothing.
IdleAsksNothing == \A r \in Runs : run[r].stage = "idle" => run[r].missed = {}

LEMMA IdleStep == TypeOK /\ IdleAsksNothing /\ [Next]_vars => IdleAsksNothing'
<1> SUFFICES ASSUME TypeOK, IdleAsksNothing, [Next]_vars, NEW s \in Runs,
                    run'[s].stage = "idle"
             PROVE  run'[s].missed = {}
  BY DEF IdleAsksNothing
<1>1. CASE Tick
  <2>1. CASE run[s].stage = "idle"
    BY <1>1, <2>1 DEF Tick, Idle
  <2>2. CASE run[s].stage # "idle"
    <3>1. run'[s] = [run[s] EXCEPT !.span = run[s].span + 1, !.heard = Aged(run[s].heard)]
      BY <1>1, <2>2 DEF Tick
    <3>2. run'[s].stage = run[s].stage
      BY <3>1 DEF TypeOK
    <3> QED
      BY <2>2, <3>2
  <2> QED
    BY <2>1, <2>2
<1>2. ASSUME NEW r \in Runs, run' = [run EXCEPT ![r] = Idle] PROVE run'[s].missed = {}
  BY <1>2 DEF IdleAsksNothing, Idle, TypeOK
<1>3. ASSUME NEW r \in Prefilters, Read(r) PROVE run'[s].missed = {}
  BY <1>3 DEF Read, IdleAsksNothing, TypeOK
<1>4. ASSUME NEW r \in Prefilters, Query(r) PROVE run'[s].missed = {}
  <2>1. PICK heard : run' = [run EXCEPT ![r].heard = heard, ![r].stage = "bank"]
    BY <1>4 DEF Query
  <2>2. run' = [run EXCEPT ![r] = [run[r] EXCEPT !.heard = heard, !.stage = "bank"]]
    BY <2>1 DEF TypeOK, Runs
  <2>3. s # r
    BY <2>2 DEF TypeOK
  <2>4. run'[s] = run[s]
    BY <2>2, <2>3 DEF TypeOK
  <2> QED
    BY <2>4 DEF IdleAsksNothing
<1>5. ASSUME NEW r \in Engines, Start(r) PROVE run'[s].missed = {}
  <2>1. run' = [run EXCEPT ![r] = [Idle EXCEPT !.stage = "work", !.missed = Missed]]
    BY <1>5 DEF Start
  <2>2. s # r
    BY <2>1 DEF Idle, TypeOK
  <2> QED
    BY <2>1, <2>2 DEF IdleAsksNothing, TypeOK
<1>6. CASE UNCHANGED run
  BY <1>6 DEF IdleAsksNothing
<1>7. ASSUME NEW d \in Domains, DnsChanges(d) PROVE run' = run
  BY <1>7 DEF DnsChanges
<1>8. CASE Ingest \/ MergeSmtp \/ UNCHANGED vars
  BY <1>6, <1>8 DEF Ingest, MergeSmtp, vars
<1> QED
  BY <1>1, <1>2, <1>3, <1>4, <1>5, <1>6, <1>7, <1>8 DEF Next, Bank, Settle, Kill, Runs

LEMMA IdleInit == Init => IdleAsksNothing
BY DEF Init, Idle, IdleAsksNothing

Open == [r \in Runs |-> run[r].missed]

\* What the database shows is an answer, or nothing.
LEMMA ShownType == TypeOK => Shown \in A!Shelves
<1> SUFFICES ASSUME TypeOK, NEW a \in Addresses
             PROVE  Shown[a] \in [says : Statuses \ {"unknown"}, by : {"run", "import"},
                                  left : 1 .. TTL + 1] \cup {A!Nothing}
  BY DEF A!Shelves, Shown
<1>1. CASE Served(a)
  <2>1. verdicts[a].status \in Statuses \ {"unknown"} /\ verdicts[a].age \in 0 .. TTL
    BY <1>1, LimitType DEF Served, TypeOK
  <2>2. TTL + 1 - verdicts[a].age \in 1 .. TTL + 1
    BY <2>1, LimitType
  <2> QED
    BY <1>1, <2>1, <2>2 DEF Shown, Writer
<1>2. CASE ~ Served(a)
  BY <1>2 DEF Shown, A!Nothing
<1> QED
  BY <1>1, <1>2

\* A row that was just put is shown for its whole life, unless it says unknown.
LEMMA FreshAnswer ==
  ASSUME NEW a \in Addresses, NEW source \in Sources \ {"none"}, NEW status \in Statuses,
         verdicts'[a] = Row(source, status)
  PROVE  Shown'[a] \in A!Answers(IF source \in {"clearout", "smtp"} THEN "import" ELSE "run")
                       \cup {A!Nothing}
<1>1. /\ verdicts'[a].source = source
      /\ verdicts'[a].status = status
      /\ verdicts'[a].age = 0
  BY DEF Row
<1>2. CASE status = "unknown"
  BY <1>1, <1>2 DEF Shown, Served, A!Nothing
<1>3. CASE status # "unknown"
  <2>1. Served(a)' /\ TTL + 1 - 0 = TTL + 1
    BY <1>1, <1>3, LimitType DEF Served, Sources
  <2>2. Shown'[a] = [says |-> status, by |-> Writer(a)', left |-> TTL + 1]
    BY <1>1, <2>1 DEF Shown
  <2> QED
    BY <1>1, <1>3, <2>2 DEF Writer, A!Answers
<1> QED
  BY <1>2, <1>3

LEMMA SameAnswer ==
  ASSUME NEW a \in Addresses, verdicts'[a] = verdicts[a]
  PROVE  Shown'[a] = Shown[a]
BY DEF Shown, Served, Writer

\* A commit of a run, or its end without one, answers what it had asked.
LEMMA Answered ==
  ASSUME TypeOK, TypeOK', NEW r \in Runs, run' = [run EXCEPT ![r] = Idle],
         \A a \in Addresses :
           \/ verdicts'[a] = verdicts[a]
           \/ /\ a \in run[r].missed
              /\ \E source \in {"prefilter", "engine"}, status \in Statuses :
                   verdicts'[a] = Row(source, status)
  PROVE  A!Answer(r)
<1>1. Shown' \in A!Shelves
  <2>1. (TypeOK => Shown \in A!Shelves)'
    BY ShownType, PTL
  <2> QED
    BY <2>1 DEF A!Shelves, A!Nothing
<1>2. ASSUME NEW a \in Addresses, Shown'[a] # Shown[a]
      PROVE  a \in run[r].missed /\ Shown'[a] \in A!Answers("run") \cup {A!Nothing}
  <2>1. verdicts'[a] # verdicts[a]
    BY <1>2, SameAnswer
  <2>2. PICK source \in {"prefilter", "engine"}, status \in Statuses :
          verdicts'[a] = Row(source, status)
    BY <2>1
  <2>3. Shown'[a] \in A!Answers(IF source \in {"clearout", "smtp"} THEN "import" ELSE "run")
                      \cup {A!Nothing}
    BY <2>2, FreshAnswer DEF Sources
  <2> QED
    BY <2>1, <2>2, <2>3
<1>3. Open' = [Open EXCEPT ![r] = {}]
  BY DEF Open, Idle, TypeOK
<1> QED
  BY <1>1, <1>2, <1>3 DEF A!Answer, A!Replaced, Open

\* An import answers whatever it likes, and asks nothing.
LEMMA Imported ==
  ASSUME TypeOK', UNCHANGED run,
         \A a \in Addresses :
           \/ verdicts'[a] = verdicts[a]
           \/ \E source \in {"clearout", "smtp"}, status \in Statuses :
                verdicts'[a] = Row(source, status)
  PROVE  A!Import
<1>1. Shown' \in A!Shelves
  <2>1. (TypeOK => Shown \in A!Shelves)'
    BY ShownType, PTL
  <2> QED
    BY <2>1 DEF A!Shelves, A!Nothing
<1>2. ASSUME NEW a \in Addresses, Shown'[a] # Shown[a]
      PROVE  Shown'[a] \in A!Answers("import") \cup {A!Nothing}
  <2>1. verdicts'[a] # verdicts[a]
    BY <1>2, SameAnswer
  <2>2. PICK source \in {"clearout", "smtp"}, status \in Statuses :
          verdicts'[a] = Row(source, status)
    BY <2>1
  <2>3. Shown'[a] \in A!Answers(IF source \in {"clearout", "smtp"} THEN "import" ELSE "run")
                      \cup {A!Nothing}
    BY <2>2, FreshAnswer DEF Sources
  <2> QED
    BY <2>2, <2>3
<1> QED
  BY <1>1, <1>2 DEF A!Import, A!Replaced

\* Time passes for the answers as it does for the rows.
LEMMA Passed == ASSUME TypeOK, IdleAsksNothing, Tick PROVE A!Pass
<1> USE LimitType
<1>1. ASSUME NEW a \in Addresses
      PROVE  Shown'[a] = IF Shown[a].left <= 1 THEN A!Nothing
                         ELSE [Shown[a] EXCEPT !.left = @ - 1]
  <2>1. CASE verdicts[a].source = "none"
    <3>1. verdicts'[a].source = "none"
      BY <2>1 DEF Tick, NoRow
    <3>2. Shown[a] = A!Nothing /\ Shown'[a] = A!Nothing
      BY <2>1, <3>1 DEF Shown, Served, A!Nothing
    <3> QED
      BY <3>2 DEF A!Nothing
  <2>2. CASE verdicts[a].source # "none"
    <3>1. verdicts'[a] = [verdicts[a] EXCEPT !.age = Older(verdicts[a].age, TTL + 1)]
      BY <2>2 DEF Tick
    <3>2. /\ verdicts'[a].age = Older(verdicts[a].age, TTL + 1)
          /\ verdicts'[a].status = verdicts[a].status
          /\ verdicts'[a].source = verdicts[a].source
          /\ verdicts[a].age \in 0 .. TTL + 1
      BY <3>1 DEF TypeOK
    <3>3. Writer(a)' = Writer(a)
      BY <3>2 DEF Writer
    <3>4. CASE Served(a) /\ verdicts[a].age < TTL
      <4>1. verdicts'[a].age = verdicts[a].age + 1
        BY <3>2, <3>4 DEF Older
      <4>2. Served(a)'
        BY <3>2, <3>4, <4>1 DEF Served
      <4>3. /\ Shown[a] = [says |-> verdicts[a].status, by |-> Writer(a),
                           left |-> TTL + 1 - verdicts[a].age]
            /\ Shown'[a] = [says |-> verdicts[a].status, by |-> Writer(a),
                            left |-> TTL + 1 - (verdicts[a].age + 1)]
        BY <3>2, <3>3, <3>4, <4>1, <4>2 DEF Shown
      <4>4. TTL + 1 - (verdicts[a].age + 1) = (TTL + 1 - verdicts[a].age) - 1
            /\ ~ (TTL + 1 - verdicts[a].age <= 1)
        BY <3>2, <3>4
      <4> QED
        BY <4>3, <4>4
    <3>5. CASE Served(a) /\ ~ (verdicts[a].age < TTL)
      <4>1. TTL + 1 - verdicts[a].age <= 1 /\ verdicts'[a].age = TTL + 1
        BY <3>2, <3>5 DEF Older, Served
      <4>2. ~ Served(a)'
        BY <4>1 DEF Served
      <4> QED
        BY <3>5, <4>1, <4>2 DEF Shown, A!Nothing
    <3>6. CASE ~ Served(a)
      <4>1. ~ Served(a)'
        BY <3>2, <3>6 DEF Served, Older
      <4> QED
        BY <3>6, <4>1 DEF Shown, A!Nothing
    <3> QED
      BY <3>4, <3>5, <3>6
  <2> QED
    BY <2>1, <2>2
<1>2. Shown' = [a \in Addresses |->
        IF Shown[a].left <= 1 THEN A!Nothing ELSE [Shown[a] EXCEPT !.left = @ - 1]]
  BY <1>1 DEF Shown
<1>3. ASSUME NEW r \in Runs PROVE run'[r].missed = run[r].missed
  <2>1. CASE run[r].stage = "idle"
    BY <2>1 DEF Tick, Idle, IdleAsksNothing
  <2>2. CASE run[r].stage # "idle"
    <3>1. run'[r] = [run[r] EXCEPT !.span = run[r].span + 1, !.heard = Aged(run[r].heard)]
      BY <2>2 DEF Tick
    <3> QED
      BY <3>1 DEF TypeOK
  <2> QED
    BY <2>1, <2>2
<1> QED
  BY <1>2, <1>3 DEF A!Pass

\* Every step of the programs is a step of Answers, or shows nothing.
LEMMA RefinesStep == TypeOK /\ TypeOK' /\ IdleAsksNothing /\ [Next]_vars => [A!Next]_(A!vars)
<1> SUFFICES ASSUME TypeOK, TypeOK', IdleAsksNothing, [Next]_vars PROVE [A!Next]_(A!vars)
  OBVIOUS
<1>1. CASE Tick
  BY <1>1, Passed DEF A!Next
<1>2. ASSUME UNCHANGED verdicts, \A r \in Runs : run'[r].missed = run[r].missed
      PROVE  UNCHANGED A!vars
  BY <1>2 DEF A!vars, Shown, Served, Writer
<1>3. ASSUME NEW r \in Runs, run[r].stage = "idle", UNCHANGED verdicts,
             NEW row, run' = [run EXCEPT ![r] = row], row.missed = Missed
      PROVE  A!Next
  <2>1. Open[r] = {}
    BY <1>3 DEF Open, IdleAsksNothing
  <2>2. Missed \in SUBSET {a \in Addresses : A!Blank(a)}
    BY DEF Missed, A!Blank, A!Nothing, Shown
  <2>3. Open' = [Open EXCEPT ![r] = Missed]
    BY <1>3 DEF Open, TypeOK
  <2>4. Shown' = Shown
    BY <1>3 DEF Shown, Served, Writer
  <2>5. A!Ask(r)
    BY <2>1, <2>2, <2>3, <2>4 DEF A!Ask, Open
  <2> QED
    BY <2>5 DEF A!Next
<1>4. ASSUME NEW d \in Domains, DnsChanges(d) PROVE UNCHANGED A!vars
  BY <1>2, <1>4 DEF DnsChanges, tables
<1>5. ASSUME NEW r \in Prefilters, Read(r) PROVE A!Next
  <2>1. r \in Runs /\ run[r].stage = "idle" /\ UNCHANGED verdicts
    BY <1>5 DEF Runs, Read, tables
  <2>2. PICK drop \in BOOLEAN :
          run' = [run EXCEPT ![r] =
            [stage |-> "dns", missed |-> Missed, drop |-> drop, span |-> 0,
             heard |-> [d \in Domains |->
               IF Known(d) THEN [dns |-> domains[d].dns, age |-> noted[d]] ELSE NoDomain]]]
    BY <1>5 DEF Read
  <2> DEFINE row == [stage |-> "dns", missed |-> Missed, drop |-> drop, span |-> 0,
                     heard |-> [d \in Domains |->
                       IF Known(d) THEN [dns |-> domains[d].dns, age |-> noted[d]] ELSE NoDomain]]
  <2>3. row.missed = Missed /\ run' = [run EXCEPT ![r] = row]
    BY <2>2
  <2> HIDE DEF row
  <2> QED
    BY <1>3, <2>1, <2>3
<1>6. ASSUME NEW r \in Prefilters, Query(r) PROVE UNCHANGED A!vars
  <2>1. PICK heard : run' = [run EXCEPT ![r].heard = heard, ![r].stage = "bank"]
    BY <1>6 DEF Query
  <2>2. run' = [run EXCEPT ![r] = [run[r] EXCEPT !.heard = heard, !.stage = "bank"]]
    BY <2>1 DEF TypeOK, Runs
  <2>3. \A s \in Runs : run'[s].missed = run[s].missed
    BY <2>2 DEF TypeOK
  <2> QED
    BY <1>2, <1>6, <2>3 DEF Query
<1>7. ASSUME NEW r \in Prefilters, Bank(r) PROVE A!Answer(r)
  <2>1. ASSUME NEW a \in Addresses, verdicts'[a] # verdicts[a]
        PROVE  a \in run[r].missed /\ \E source \in {"prefilter", "engine"}, status \in Statuses :
                 verdicts'[a] = Row(source, status)
    <3>1. a \in Resolved(r) /\ verdicts'[a] = Row("prefilter", Result(r, a))
      BY <1>7, <2>1 DEF Bank
    <3>2. Result(r, a) \in Statuses
      BY <3>1, ResultStatus DEF Resolved, Statuses
    <3> QED
      BY <3>1, <3>2 DEF Resolved
  <2>2. r \in Runs /\ run' = [run EXCEPT ![r] = Idle]
    BY <1>7 DEF Runs, Bank
  <2> QED
    BY <2>1, <2>2, Answered
<1>8. ASSUME NEW r \in Engines, Start(r) PROVE A!Next
  <2>1. r \in Runs /\ run[r].stage = "idle" /\ UNCHANGED verdicts
    BY <1>8 DEF Runs, Start, tables
  <2>2. [Idle EXCEPT !.stage = "work", !.missed = Missed].missed = Missed
    BY DEF Idle
  <2> QED
    BY <1>3, <1>8, <2>1, <2>2 DEF Start
<1>9. ASSUME NEW r \in Engines, Settle(r) PROVE A!Answer(r)
  <2>0. PICK some \in SUBSET run[r].missed :
          \E said \in [some -> {"valid", "unknown", "likely_valid"}] :
            verdicts' = [a \in Addresses |->
              IF a \in some THEN Row("engine", said[a]) ELSE verdicts[a]]
    BY <1>9 DEF Settle
  <2>1. PICK said \in [some -> {"valid", "unknown", "likely_valid"}] :
          verdicts' = [a \in Addresses |->
            IF a \in some THEN Row("engine", said[a]) ELSE verdicts[a]]
    BY <2>0
  <2>2. \A a \in some : said[a] \in Statuses
    BY <2>1 DEF Statuses
  <2>3. r \in Runs /\ run' = [run EXCEPT ![r] = Idle]
    BY <1>9 DEF Runs, Settle
  <2> QED
    BY <2>1, <2>2, <2>3, Answered
<1>10. ASSUME NEW r \in Runs, Kill(r) PROVE A!Answer(r)
  BY <1>10, Answered DEF Kill, tables
<1>11. CASE Ingest
  <2>1. PICK file \in [Addresses -> SUBSET Labels] :
          verdicts' = [a \in Addresses |->
            IF file[a] # {} THEN Row("clearout", Agreed(file[a])) ELSE verdicts[a]]
    BY <1>11 DEF Ingest
  <2>2. \A a \in Addresses : file[a] # {} => Agreed(file[a]) \in Statuses
    BY AgreedStatus DEF Statuses
  <2>3. A!Import
    BY <1>11, <2>1, <2>2, Imported DEF Ingest
  <2> QED
    BY <2>3 DEF A!Next
<1>12. CASE MergeSmtp
  <2>0. PICK some \in SUBSET Addresses :
          \E told \in [some -> Labels \cap {"valid", "invalid"}] :
            verdicts' = [a \in Addresses |->
              IF a \in some THEN Row("smtp", told[a]) ELSE verdicts[a]]
    BY <1>12 DEF MergeSmtp
  <2>1. PICK told \in [some -> Labels \cap {"valid", "invalid"}] :
          verdicts' = [a \in Addresses |-> IF a \in some THEN Row("smtp", told[a]) ELSE verdicts[a]]
    BY <2>0
  <2>2. \A a \in some : told[a] \in Statuses
    BY <2>1 DEF Statuses
  <2>3. A!Import
    BY <1>12, <2>1, <2>2, Imported DEF MergeSmtp
  <2> QED
    BY <2>3 DEF A!Next
<1>13. CASE UNCHANGED vars
  BY <1>2, <1>13 DEF vars, tables
<1>14. \A r \in Runs : A!Answer(r) => A!Next
  BY DEF A!Next
<1> QED
  BY <1>1, <1>4, <1>5, <1>6, <1>7, <1>8, <1>9, <1>10, <1>11, <1>12, <1>13, <1>14 DEF Next, Runs

LEMMA RefinesInit == Init => A!Init
BY DEF Init, A!Init, NoRow, Idle, Shown, Served, A!Nothing

\* The tables keep what Answers promises: pipeline.py and engine.py bank only
\* what was not served to them (pipeline.py:209, engine.py:363), so an answer
\* is given out for its life and never renewed.
THEOREM ImplementsAnswers == Spec => AnswersStand
BY TypeInit, TypeStep, IdleInit, IdleStep, RefinesInit, RefinesStep, PTL
   DEF Spec, AnswersStand, A!Spec
=============================================================================
