------------------------------- MODULE Engine -------------------------------
(***************************************************************************)
(* What the engine concludes about an address: prefilter/engine.py run(),  *)
(* tier by tier, with the routing of prefilter/providers.py, the directory *)
(* probe of prefilter/microsoft.py, the verdict cache, and the rows that   *)
(* webapp/jobs.py writes back beside the uploaded ones.  Offline adds the  *)
(* other programs that write the cache.                                    *)
(*                                                                         *)
(* The world is chosen in the initial state and the tiers see only part of *)
(* it.  Tier 3 answers within what SmtpProbe guarantees; tier 4 may say    *)
(* anything.  Runs follow each other on one cache; runs that overlap are   *)
(* the subject of Banking.                                                 *)
(***************************************************************************)
EXTENDS Naturals, Sequences, FiniteSets

CONSTANTS
  List,         \* the uploaded column: a sequence of spellings
  Canonical,    \* spelling -> canonical address, or Malformed, or Odd
  Malformed,    \* parse() says HARD_INVALID
  Odd,          \* parse() says NEEDS_REVIEW
  DomainOf,     \* canonical address -> domain
  Zones,        \* what the DNS can hold about a domain
  Lines,        \* pattern_threshold of a run: 0 is off
  VendorLine,   \* vendor_threshold
  Confidences,  \* scores of the pattern tier; 0 is none
  Answers,      \* statuses the vendor sells
  MaxRuns       \* bound on runs over the list

LikelyFrom == 70   \* from this score on a guess is labelled likely_valid

Rows == DOMAIN List
Canon(i) == Canonical[List[i]]
Addresses == DOMAIN DomainOf
Domains == {DomainOf[a] : a \in Addresses}

ASSUME EngineAssumption ==
  /\ List \in Seq(DOMAIN Canonical)
  /\ Malformed # Odd /\ {Malformed, Odd} \cap Addresses = {}
  /\ \A s \in DOMAIN Canonical : Canonical[s] \in Addresses \cup {Malformed, Odd}
  /\ Zones \subseteq {"nxdomain", "null", "empty", "mx", "a", "aaaa"}
  /\ Lines \subseteq Nat /\ VendorLine \in 0 .. 100 /\ Confidences \subseteq 1 .. 100
  /\ Answers \subseteq {"valid", "invalid", "catch_all", "unknown"}
  /\ MaxRuns \in Nat

VARIABLES
  name,     \* truth: a disposable domain, one that looks like a typing error
  zone,     \* truth: the DNS records of a domain
  host,     \* truth: what its MX names tell of the mail host
  tenant,   \* truth: how Microsoft's directory answers about a domain
  mailbox,  \* truth: the addresses that receive mail
  login,    \* truth: those that are sign-in names
  stage,    \* the next tier of the run
  option,   \* what the run was asked to do
  route,    \* result of classify()
  verdict,  \* Verdict of each row
  origin,   \* history: who had filed the entry the run found for a row
  cache,    \* verdict cache
  blind,    \* history: domains probed without an answer about the fake
  runs

world == <<name, zone, host, tenant, mailbox, login>>
vars == <<world, stage, option, route, verdict, origin, cache, blind, runs>>

Hosts == {"microsoft", "gsuite", "gateway", "smtp"}
Statuses == {"valid", "invalid", "catch_all", "unknown", "likely_valid", "disposable",
             "duplicate", "role", "other"}
Tiers == {"", "local", "cache", "microsoft", "smtp", "pattern", "clearout"}
Verdicts == [status : Statuses, disposition : {"to_vendor", "siphoned", "review"},
             tier : Tiers, confidence : Nat]
Options == [microsoft : BOOLEAN, smtp : BOOLEAN, line : Lines, vendor : BOOLEAN]
Sources == (Tiers \ {"cache"}) \cup {"prefilter"}
NoEntry == [source |-> "", status |-> "unknown"]

TakesMail(d) == zone[d] \in {"mx", "a", "aaaa"}

TypeOK ==
  /\ name \in [Domains -> {"plain", "disposable", "lookalike"}]
  /\ zone \in [Domains -> Zones] /\ host \in [Domains -> Hosts]
  /\ tenant \in [Domains -> {"none", "honest", "opaque"}]
  /\ mailbox \subseteq Addresses /\ login \subseteq mailbox
  /\ stage \in {"start", "dns", "microsoft", "smtp", "patterns", "vendor", "report"}
  /\ option \in Options
  /\ route \in [Domains -> Hosts \cup {"no_mail", "unresolved"}]
  /\ verdict \in [Rows -> Verdicts]
  /\ origin \in [Rows -> Sources]
  /\ cache \in [Addresses -> [source : Sources, status : Statuses \ {"duplicate"}]]
  /\ blind \subseteq Domains
  /\ runs \in 0 .. MaxRuns

Fresh == [status |-> "unknown", disposition |-> "to_vendor", tier |-> "", confidence |-> 0]

Init ==
  /\ name \in [Domains -> {"plain", "disposable", "lookalike"}]
  /\ zone \in [Domains -> Zones]
  /\ host \in [Domains -> Hosts]
  /\ tenant \in [Domains -> {"none", "honest", "opaque"}]
  /\ \A d \in Domains : zone[d] # "mx" => host[d] = "smtp"
  /\ \A d \in Domains : tenant[d] # "none" => host[d] \in {"microsoft", "gateway"}
  /\ mailbox \in SUBSET {a \in Addresses : TakesMail(DomainOf[a])}
  /\ login \in SUBSET {a \in mailbox : tenant[DomainOf[a]] # "none"}
  /\ stage = "start"
  /\ option \in {o \in Options : ~o.microsoft /\ ~o.smtp /\ ~o.vendor}
  /\ route = [d \in Domains |-> "unresolved"]
  /\ verdict = [i \in Rows |-> Fresh]
  /\ origin = [i \in Rows |-> ""]
  /\ cache = [a \in Addresses |-> NoEntry]
  /\ blind = {} /\ runs = 0

-----------------------------------------------------------------------------
(* Before the first await: _seed, tier 0, disposable domains.  A           *)
(* definition named Name_Fault is a faulty variant of Name that some       *)
(* property must refuse.                                                   *)

Settled(status, tier) ==
  [status |-> status, disposition |-> "siphoned", tier |-> tier, confidence |-> 0]
Review(status) ==
  [status |-> status, disposition |-> "review", tier |-> "local", confidence |-> 0]

\* An address is decided on its first row.
FirstRows ==
  {i \in Rows : Canon(i) \in Addresses /\ \A j \in Rows : Canon(j) = Canon(i) => i <= j}
Live(i) == i \in FirstRows
Dom(i) == DomainOf[Canon(i)]

\* Cache.lookup: an unknown is a miss.
Hit(a) == cache[a].source # "" /\ cache[a].status # "unknown"

\* Rows that no tier looks at
Bystander(i) ==
  CASE Canon(i) = Malformed -> Settled("invalid", "local")
    [] Canon(i) = Odd -> Review("unknown")
    [] OTHER -> Settled("duplicate", "local")

Seeded(i) ==
  CASE ~Live(i) -> Bystander(i)
    [] Live(i) /\ Hit(Canon(i)) -> Settled(cache[Canon(i)].status, "cache")
    [] Live(i) /\ ~Hit(Canon(i)) /\ name[Dom(i)] = "disposable" -> Settled("disposable", "local")
    [] OTHER -> Fresh

Start ==
  /\ stage = "start" /\ runs < MaxRuns
  /\ runs' = runs + 1
  /\ option' \in Options
  /\ verdict' = [i \in Rows |-> Seeded(i)]
  /\ origin' = [i \in Rows |-> IF Live(i) THEN cache[Canon(i)].source ELSE ""]
  /\ stage' = "dns"
  /\ UNCHANGED <<world, route, cache, blind>>

-----------------------------------------------------------------------------
(* Tier 1: DNS.                                                            *)

Open(i) == verdict[i].disposition = "to_vendor"

\* _try_resolve and route_for.  Without an MX only an A record is asked for.
RouteOf(d) ==
  CASE zone[d] \in {"nxdomain", "null", "empty", "aaaa"} -> "no_mail"
    [] zone[d] = "a" -> "smtp"
    [] zone[d] = "mx" -> host[d]

\* The resolvers are asked in turn; a domain none of them can answer for stays
\* unresolved.  A dead domain makes its addresses invalid, or a case for a
\* human when it looks like a typing error.
Dns ==
  /\ stage = "dns"
  /\ \E lost \in SUBSET {Dom(i) : i \in {k \in Rows : Open(k)}} :
       route' = [d \in Domains |-> IF d \in lost THEN "unresolved" ELSE RouteOf(d)]
  /\ verdict' = [i \in Rows |->
       IF Open(i) /\ route'[Dom(i)] = "no_mail"
       THEN IF name[Dom(i)] = "lookalike" THEN Review("invalid") ELSE Settled("invalid", "local")
       ELSE verdict[i]]
  /\ stage' = "microsoft"
  /\ UNCHANGED <<world, option, origin, cache, blind, runs>>

-----------------------------------------------------------------------------
(* Tier 2: Microsoft's directory.                                          *)

\* IfExistsResult: 0, 5 and 6 are "exists", 1 is "absent".  After the retries a
\* query may end in an error, or in a code that says nothing.
About(a) ==
  {"error", "other"} \cup
    CASE tenant[DomainOf[a]] = "opaque" -> {"exists"}
      [] a \in login -> {"exists"}
      [] OTHER -> {"absent"}
AboutFake(d) ==
  {"error", "other"} \cup {IF tenant[d] = "opaque" THEN "exists" ELSE "absent"}

Directory_ControlIgnored(reply, control) ==
  IF reply = "exists" THEN "valid" ELSE "unknown"

Directory_AbsentIsInvalid(reply, control) ==
  CASE reply = "error" -> "unknown"
    [] reply # "error" /\ control = "exists" -> "catch_all"
    [] reply = "exists" /\ control # "exists" -> "valid"
    [] OTHER -> "invalid"

\* _probe_domain: the tenant is opaque if it says the fake exists; a control
\* query that failed does not make it opaque.
Directory(reply, control) ==
  CASE reply = "error" -> "unknown"
    [] reply # "error" /\ control = "exists" -> "catch_all"
    [] reply = "exists" /\ control # "exists" -> "valid"
    [] OTHER -> "unknown"

Heard_EverySettles(v, status, tier) ==
  IF status = "unknown" THEN v ELSE Settled(status, tier)

\* What a result makes of a verdict, in tiers 2 and 3: a proof settles it, a
\* catch-all is shown, anything else leaves it as it was.
Heard(v, status, tier) ==
  CASE status \in {"valid", "invalid"} -> Settled(status, tier)
    [] status = "catch_all" -> [v EXCEPT !.status = status]
    [] OTHER -> v

Microsoft ==
  /\ stage = "microsoft"
  /\ LET asked == {i \in Rows : /\ option.microsoft /\ Open(i)
                                /\ route[Dom(i)] \in {"microsoft", "gateway"}}
         tenants == {Dom(i) : i \in asked}
     IN  \E control \in [tenants -> {"exists", "absent", "other", "error"}],
            reply \in [asked -> {"exists", "absent", "other", "error"}] :
           /\ \A d \in tenants : control[d] \in AboutFake(d)
           /\ \A i \in asked : reply[i] \in About(Canon(i))
           /\ verdict' = [i \in Rows |->
                IF i \in asked
                THEN Heard(verdict[i], Directory(reply[i], control[Dom(i)]), "microsoft")
                ELSE verdict[i]]
           /\ blind' = blind \cup {d \in tenants : control[d] \in {"other", "error"}}
  /\ stage' = "smtp"
  /\ UNCHANGED <<world, option, route, origin, cache, runs>>

-----------------------------------------------------------------------------
(* Tiers 3 to 4, and the end of the run.                                   *)

\* probe_all, as far as its properties ValidIsTrue and InvalidIsTrue say.
SmtpResults(a) ==
  {"catch_all", "unknown", "blocked"} \cup
    {IF a \in mailbox THEN "valid" ELSE "invalid"}

Smtp_AsReported ==
  /\ stage = "smtp"
  /\ LET asked == {i \in Rows : option.smtp /\ Open(i) /\ route[Dom(i)] \in {"smtp", "gsuite"}}
     IN  \E result \in [asked -> {"valid", "invalid", "catch_all", "unknown", "blocked"}] :
           /\ \A i \in asked : result[i] \in SmtpResults(Canon(i))
           /\ verdict' = [i \in Rows |->
                IF i \in asked THEN [verdict[i] EXCEPT !.status = result[i]] ELSE verdict[i]]
  /\ stage' = "patterns"
  /\ UNCHANGED <<world, option, route, origin, cache, blind, runs>>

Smtp ==
  /\ stage = "smtp"
  /\ LET asked == {i \in Rows : option.smtp /\ Open(i) /\ route[Dom(i)] \in {"smtp", "gsuite"}}
     IN  \E result \in [asked -> {"valid", "invalid", "catch_all", "unknown", "blocked"}] :
           /\ \A i \in asked : result[i] \in SmtpResults(Canon(i))
           /\ verdict' = [i \in Rows |->
                IF i \in asked THEN Heard(verdict[i], result[i], "smtp") ELSE verdict[i]]
  /\ stage' = "patterns"
  /\ UNCHANGED <<world, option, route, origin, cache, blind, runs>>

\* Every open row gets a score.  It settles the row only above the line the
\* user drew, and only if it is likely at all.
Patterns ==
  /\ stage = "patterns"
  /\ \E score \in [{i \in Rows : Open(i)} -> Confidences] :
       verdict' = [i \in Rows |->
         CASE ~Open(i) -> verdict[i]
           [] Open(i) /\ option.line > 0 /\ score[i] >= LikelyFrom /\ score[i] >= option.line ->
                [Settled("likely_valid", "pattern") EXCEPT !.confidence = score[i]]
           [] OTHER -> [verdict[i] EXCEPT !.confidence = score[i]]]
  /\ stage' = "vendor"
  /\ UNCHANGED <<world, option, route, origin, cache, blind, runs>>

\* What is open, and below the vendor's line or not scored
Target(i) ==
  option.vendor /\ Open(i) /\ (verdict[i].confidence = 0 \/ verdict[i].confidence < VendorLine)

\* Tier 4 buys its targets.  An answer that was not billed changes nothing.
Vendor ==
  /\ stage = "vendor"
  /\ LET asked == {i \in Rows : Target(i)}
     IN  \E sold \in [asked -> Answers \cup {"unbilled"}] :
           verdict' = [i \in Rows |->
             IF i \in asked /\ sold[i] # "unbilled"
             THEN Settled(sold[i], "clearout") ELSE verdict[i]]
  /\ stage' = "report"
  /\ UNCHANGED <<world, option, route, origin, cache, blind, runs>>

\* What this run settled itself
News ==
  {i \in Rows : Live(i) /\ verdict[i].disposition = "siphoned" /\ verdict[i].tier # "cache"}

\* cache.put, address by address
Report ==
  /\ stage = "report"
  /\ cache' = [a \in Addresses |->
       IF \E i \in News : Canon(i) = a
       THEN LET i == CHOOSE k \in News : Canon(k) = a
            IN  [source |-> verdict[i].tier, status |-> verdict[i].status]
       ELSE cache[a]]
  /\ stage' = "start"
  /\ UNCHANGED <<world, option, route, verdict, origin, blind, runs>>

Next == Start \/ Dns \/ Microsoft \/ Smtp \/ Patterns \/ Vendor \/ Report

Spec == Init /\ [][Next]_vars

-----------------------------------------------------------------------------
(* The enriched file: every uploaded row with the verdict on its spelling. *)

Spelled(s) == {i \in Rows : List[i] = s}
First(S) == CHOOSE i \in S : \A j \in S : i <= j
Last(S) == CHOOSE i \in S : \A j \in S : i >= j

Enriched_LastWins(s) == verdict[Last(Spelled(s))]

\* _write_enriched: a duplicate marker does not replace what is there.
Enriched(s) ==
  LET real == {i \in Spelled(s) : verdict[i].status # "duplicate"}
  IN  IF real # {} THEN verdict[Last(real)] ELSE verdict[First(Spelled(s))]

-----------------------------------------------------------------------------
(* Properties.                                                             *)

\* Where a verdict comes from, through the cache: what the entry was when the
\* run read it, for a later program may file another.
Source(i) == IF verdict[i].tier = "cache" THEN origin[i] ELSE verdict[i].tier
Parsed(i) == Canon(i) \in Addresses
Free == {"local", "microsoft", "smtp", "prefilter"}

\* The errors of the free tiers, in this run or in an earlier one whose verdict
\* the cache serves.
WronglyValid ==
  {i \in Rows : verdict[i].status = "valid" /\ Source(i) \in Free /\ Canon(i) \notin mailbox}
WronglyInvalid ==
  {i \in Rows : /\ Parsed(i) /\ verdict[i].status = "invalid" /\ Source(i) \in Free
                /\ Canon(i) \in mailbox}

\* An address that no tier could decide stays billable in every run until the
\* vendor answers or a guess clears the line: "unproven" is never settled.
UndecidedStaysBillable ==
  \A i \in Rows : Parsed(i) /\ verdict[i].disposition = "siphoned" =>
    \/ verdict[i].status \notin {"unknown", "catch_all"}
    \/ Source(i) = "clearout"

\* Rows spelled alike carry one verdict; it is the engine's verdict on the
\* address if this is how the address was first spelled in the list.
RowsCarryTheVerdict ==
  stage = "start" /\ runs > 0 =>
    \A i \in Rows : Live(i) => Enriched(List[i]) = verdict[i]

-----------------------------------------------------------------------------
(* What comments say, and the code does not keep.                          *)

\* engine.py:18, "wrong in the direction that costs a credit, never the
\* direction that bounces": a mailbox that does not exist is not called valid.
NeverTowardsABounce == WronglyValid = {}
=============================================================================
