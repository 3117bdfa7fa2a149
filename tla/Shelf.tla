------------------------------- MODULE Shelf -------------------------------
(***************************************************************************)
(* The verdict database over time: the verdicts and domains tables of      *)
(* prefilter/cache.py, their two lifetimes, and the programs that share    *)
(* them while the DNS changes:                                             *)
(*   run         prefilter/pipeline.py run_pipeline, step by step          *)
(*   engine      prefilter/engine.py, of which only the reading of the     *)
(*               table and the writing at the end matter here              *)
(*   ingest      a result file of the vendor                               *)
(*   merge-smtp  the results of a script                                   *)
(* Programs overlap, and may be killed between two commits.  What they     *)
(* conclude, and whether it is true, is the subject of Engine and Offline; *)
(* here it is how old a conclusion can be when it is served.               *)
(*                                                                         *)
(* The rows hold ages instead of dates.                                    *)
(***************************************************************************)
EXTENDS Naturals, FiniteSets

CONSTANTS
  Addresses,
  DomainOf,    \* address -> domain
  Roles,       \* addresses like info@ and sales@
  Prefilters,  \* runs of the pre-filter
  Engines,     \* runs of the engine
  Labels,      \* what an import may say of an address
  TTL,         \* ttl_days, in ticks
  DomainTTL,   \* domain_ttl_days
  MaxSpan      \* bound on the ticks a run may see

Domains == {DomainOf[a] : a \in Addresses}
Runs == Prefilters \cup Engines
Limit == TTL + DomainTTL + MaxSpan
Ancient == Limit + 1   \* every age that is over the limit

ASSUME ShelfAssumption ==
  /\ Roles \subseteq Addresses
  /\ Prefilters \cap Engines = {}
  /\ Labels \subseteq {"valid", "invalid", "catch_all", "unknown"}
  /\ TTL \in Nat /\ DomainTTL \in Nat /\ MaxSpan \in Nat

VARIABLES
  name,      \* truth: a disposable domain, one that looks like a typing error
  zone,      \* truth: what the DNS says of a domain today
  verdicts,  \* the verdicts table
  domains,   \* the domains table
  run,       \* the runs under way
  noted,     \* history: age of the observation in a row of domains
  basis      \* history: age of the observation a verdict rests on

tables == <<verdicts, domains>>
vars == <<name, zone, tables, run, noted, basis>>

Outcomes == {"found", "nxdomain", "no_mail", "error"}
Statuses == {"valid", "invalid", "catch_all", "unknown", "likely_valid", "disposable", "role"}
NoRow == [source |-> "none", status |-> "unknown", age |-> 0]
NoDomain == [dns |-> "none", age |-> 0]
Idle == [stage |-> "idle", missed |-> {}, drop |-> FALSE, heard |-> [d \in Domains |-> NoDomain],
         span |-> 0]

TypeOK ==
  /\ name \in [Domains -> {"plain", "disposable", "lookalike"}]
  /\ zone \in [Domains -> Outcomes \ {"error"}]
  /\ verdicts \in [Addresses -> [source : {"none", "prefilter", "engine", "clearout", "smtp"},
                                 status : Statuses, age : 0 .. TTL + 1]]
  /\ domains \in [Domains -> [dns : Outcomes \cup {"none"}, age : 0 .. DomainTTL + 1]]
  /\ run \in [Runs -> [stage : {"idle", "dns", "bank", "work"}, missed : SUBSET Addresses,
                       drop : BOOLEAN,
                       heard : [Domains -> [dns : Outcomes \cup {"none"}, age : 0 .. Limit + 1]],
                       span : 0 .. MaxSpan]]
  /\ noted \in [Domains -> 0 .. Limit + 1]
  /\ basis \in [Addresses -> 0 .. Limit + 1]

Init ==
  /\ name \in [Domains -> {"plain", "disposable", "lookalike"}]
  /\ zone \in [Domains -> Outcomes \ {"error"}]
  /\ verdicts = [a \in Addresses |-> NoRow]
  /\ domains = [d \in Domains |-> NoDomain]
  /\ run = [r \in Runs |-> Idle]
  /\ noted = [d \in Domains |-> 0]
  /\ basis = [a \in Addresses |-> 0]

-----------------------------------------------------------------------------
(* Reading and writing the tables.  A definition named Name_Fault is a     *)
(* faulty variant of Name that some property must refuse.                  *)

Served_AnyAge(a) == verdicts[a].source # "none" /\ verdicts[a].status # "unknown"

\* Cache.lookup
Served(a) ==
  /\ verdicts[a].source # "none"
  /\ verdicts[a].status # "unknown"
  /\ verdicts[a].age <= TTL

\* Cache.get_domain
Known(d) ==
  /\ domains[d].dns \notin {"none", "error"}
  /\ domains[d].age <= DomainTTL

\* Cache.put
Row(source, status) == [source |-> source, status |-> status, age |-> 0]

-----------------------------------------------------------------------------
(* Time and the world.                                                     *)

Older(n, limit) == IF n < limit THEN n + 1 ELSE n
Aged(heard) == [d \in Domains |->
  IF heard[d].dns = "none" THEN NoDomain
  ELSE [heard[d] EXCEPT !.age = Older(@, Limit + 1)]]

Tick ==
  /\ \A r \in Runs : run[r].stage # "idle" => run[r].span < MaxSpan
  /\ verdicts' = [a \in Addresses |->
       IF verdicts[a].source = "none" THEN NoRow
       ELSE [verdicts[a] EXCEPT !.age = Older(@, TTL + 1)]]
  /\ domains' = [d \in Domains |->
       IF domains[d].dns = "none" THEN NoDomain
       ELSE [domains[d] EXCEPT !.age = Older(@, DomainTTL + 1)]]
  /\ run' = [r \in Runs |->
       IF run[r].stage = "idle" THEN Idle
       ELSE [run[r] EXCEPT !.span = @ + 1, !.heard = Aged(@)]]
  /\ noted' = [d \in Domains |->
       IF domains[d].dns = "none" THEN 0 ELSE Older(noted[d], Limit + 1)]
  /\ basis' = [a \in Addresses |->
       IF verdicts[a].source = "none" THEN 0 ELSE Older(basis[a], Limit + 1)]
  /\ UNCHANGED <<name, zone>>

DnsChanges(d) ==
  /\ zone' \in [Domains -> Outcomes \ {"error"}]
  /\ \A e \in Domains \ {d} : zone'[e] = zone[e]
  /\ UNCHANGED <<name, tables, run, noted, basis>>

-----------------------------------------------------------------------------
(* prefilter run.                                                          *)

Missed == {a \in Addresses : ~Served(a)}

\* Stages 2 to 4 up to the await: what the tables can answer.
Read(r) ==
  /\ run[r].stage = "idle"
  /\ \E drop \in BOOLEAN :
       run' = [run EXCEPT ![r] =
         [stage |-> "dns", missed |-> Missed, drop |-> drop, span |-> 0,
          heard |-> [d \in Domains |-> IF Known(d) THEN [dns |-> domains[d].dns, age |-> noted[d]]
                                           ELSE NoDomain]]]
  /\ UNCHANGED <<name, zone, tables, noted, basis>>

\* The domains of the addresses that are still pending
Pending(r) == {DomainOf[a] : a \in run[r].missed} \cap {d \in Domains : name[d] # "disposable"}

Stored_AllUsed(r) == Pending(r)

\* Those asked about, which are written to the table; a domain it answered
\* keeps its date.
Stored(r) == {d \in Pending(r) : run[r].heard[d].dns = "none"}

\* resolve_domains, put_domain and the first commit.  Any query may fail.
Query(r) ==
  /\ run[r].stage = "dns"
  /\ \E lost \in SUBSET {d \in Pending(r) : run[r].heard[d].dns = "none"} :
       LET heard == [d \in Domains |->
             CASE run[r].heard[d].dns # "none" \/ d \notin Pending(r) -> run[r].heard[d]
               [] d \in lost -> [dns |-> "error", age |-> 0]
               [] OTHER -> [dns |-> zone[d], age |-> 0]]
       IN  /\ domains' = [d \in Domains |->
                IF d \in Stored(r) THEN [dns |-> heard[d].dns, age |-> 0] ELSE domains[d]]
           /\ noted' = [d \in Domains |->
                IF d \in Stored(r) THEN heard[d].age ELSE noted[d]]
           /\ run' = [run EXCEPT ![r].heard = heard, ![r].stage = "bank"]
  /\ UNCHANGED <<name, zone, verdicts, basis>>

\* Stages 3 to 5 for an address: the status it is resolved with; "open" if it
\* is escalated or left to a human.
Result(r, a) ==
  LET d == DomainOf[a]  dns == run[r].heard[d].dns  typo == name[d] = "lookalike" IN
  CASE name[d] = "disposable" -> "disposable"
    [] name[d] # "disposable" /\ (dns = "no_mail" \/ (dns = "nxdomain" /\ ~typo)) -> "invalid"
    [] name[d] # "disposable" /\ (dns = "error" \/ (dns = "found" /\ ~typo))
         /\ run[r].drop /\ a \in Roles -> "role"
    [] OTHER -> "open"

Resolved_All(r) == {a \in Addresses : Result(r, a) \notin {"open", "none"}}

\* The rows that are banked: not what the database answered.
Resolved(r) == {a \in run[r].missed : Result(r, a) # "open"}

\* The verdicts and the second commit
Bank(r) ==
  /\ run[r].stage = "bank"
  /\ verdicts' = [a \in Addresses |->
       IF a \in Resolved(r) THEN Row("prefilter", Result(r, a)) ELSE verdicts[a]]
  /\ basis' = [a \in Addresses |->
       CASE a \notin Resolved(r) -> basis[a]
         [] a \in Resolved(r) /\ Result(r, a) = "invalid" -> run[r].heard[DomainOf[a]].age
         [] OTHER -> run[r].span]
  /\ run' = [run EXCEPT ![r] = Idle]
  /\ UNCHANGED <<name, zone, domains, noted>>

-----------------------------------------------------------------------------
(* prefilter engine, and the jobs of the web application.                  *)

\* Tier 0
Start(r) ==
  /\ run[r].stage = "idle"
  /\ run' = [run EXCEPT ![r] = [Idle EXCEPT !.stage = "work", !.missed = Missed]]
  /\ UNCHANGED <<name, zone, tables, noted, basis>>

\* What a verdict of the engine rests on: what this run was told; but a guess on
\* the shapes a company's addresses have taken, which are kept for ever.
Grounds(r, said) == IF said = "likely_valid" THEN Ancient ELSE run[r].span

\* The end of the run: what it settled itself, in one commit.  It may bank an
\* "unknown" it was sold, or a guess; it resolves domains without the table.
Settle(r) ==
  /\ run[r].stage = "work"
  /\ \E some \in SUBSET run[r].missed :
       \E said \in [some -> {"valid", "unknown", "likely_valid"}] :
         /\ verdicts' = [a \in Addresses |->
              IF a \in some THEN Row("engine", said[a]) ELSE verdicts[a]]
         /\ basis' = [a \in Addresses |-> IF a \in some THEN Grounds(r, said[a]) ELSE basis[a]]
  /\ run' = [run EXCEPT ![r] = Idle]
  /\ UNCHANGED <<name, zone, domains, noted>>

\* A run is interrupted; what it has committed stays.
Kill(r) ==
  /\ run[r].stage # "idle"
  /\ run' = [run EXCEPT ![r] = Idle]
  /\ UNCHANGED <<name, zone, tables, noted, basis>>

-----------------------------------------------------------------------------
(* prefilter ingest and prefilter merge-smtp.  A file may be of any age;   *)
(* its rows are dated the day it is read.                                  *)

Agreed_Conflict(labels) ==
  IF Cardinality(labels) = 1 THEN CHOOSE l \in labels : TRUE ELSE "conflict"

\* An address with different labels in one import is unknown.
Agreed(labels) == IF Cardinality(labels) = 1 THEN CHOOSE l \in labels : TRUE ELSE "unknown"

Ingest ==
  /\ \E file \in [Addresses -> SUBSET Labels] :
       /\ verdicts' = [a \in Addresses |->
            IF file[a] # {} THEN Row("clearout", Agreed(file[a])) ELSE verdicts[a]]
       /\ basis' = [a \in Addresses |-> IF file[a] # {} THEN Ancient ELSE basis[a]]
  /\ UNCHANGED <<name, zone, domains, run, noted>>

\* Only what the script calls proven is banked.
MergeSmtp ==
  /\ \E some \in SUBSET Addresses :
       \E told \in [some -> Labels \cap {"valid", "invalid"}] :
         /\ verdicts' = [a \in Addresses |->
              IF a \in some THEN Row("smtp", told[a]) ELSE verdicts[a]]
         /\ basis' = [a \in Addresses |-> IF a \in some THEN Ancient ELSE basis[a]]
  /\ UNCHANGED <<name, zone, domains, run, noted>>

-----------------------------------------------------------------------------

Next ==
  \/ Tick
  \/ \E d \in Domains : DnsChanges(d)
  \/ \E r \in Prefilters : Read(r) \/ Query(r) \/ Bank(r)
  \/ \E r \in Engines : Start(r) \/ Settle(r)
  \/ \E r \in Runs : Kill(r)
  \/ Ingest \/ MergeSmtp

Spec == Init /\ [][Next]_vars

-----------------------------------------------------------------------------
(* Properties.                                                             *)

\* The database as its users see it
Writer(a) == IF verdicts[a].source \in {"clearout", "smtp"} THEN "import" ELSE "run"
Shown == [a \in Addresses |->
  IF Served(a)
  THEN [says |-> verdicts[a].status, by |-> Writer(a), left |-> TTL + 1 - verdicts[a].age]
  ELSE [says |-> "nothing", by |-> "nobody", left |-> 0]]

A == INSTANCE Answers WITH
  Runs <- Runs,
  Verdicts <- Statuses \ {"unknown"},
  Life <- TTL + 1,
  shelf <- Shown,
  open <- [r \in Runs |-> run[r].missed]

\* Every program sees an answer for its life and no longer, whatever other
\* programs do meanwhile, in whatever order they commit and wherever they are
\* killed: only an import, or a run that had asked before there was an answer,
\* changes one.  (A run that put back what it was served would renew it for
\* ever: pipeline.py:209, engine.py:363.)
AnswersStand == A!Spec

\* What a run has looked up itself is never served when the lookup is older than
\* the two lifetimes together: a domain looked up once may decide for domain_ttl
\* days, and the decision is served for ttl days.  Neither what is asked often,
\* nor what was kept over a failed query, gets older than that, and what a run
\* was told to drop leaves other runs for ttl days and no longer.  Nothing bounds
\* the age of two kinds of row: an import, dated the day its file is read
\* (cli.py:288, 456), and a guess, which rests on domain_shapes, whose updated_at
\* nobody reads (cache.py:217-229, engine.py:257-262).
EvidenceBounded ==
  \A a \in Addresses :
    /\ Served(a)
    /\ verdicts[a].source \in {"prefilter", "engine"}
    /\ verdicts[a].status # "likely_valid"
    => /\ basis[a] <= Limit
       /\ verdicts[a].status # "invalid" => basis[a] <= TTL + MaxSpan
=============================================================================
