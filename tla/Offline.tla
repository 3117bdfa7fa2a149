------------------------------ MODULE Offline ------------------------------
(***************************************************************************)
(* The command line's own use of the verdict database, between the runs of *)
(* the engine (prefilter/cli.py):                                          *)
(*   run         the older pre-filter, prefilter/pipeline.py run_pipeline, *)
(*               with its own DNS code, prefilter/dns_check.py             *)
(*   ingest      a result file of the vendor becomes verdicts              *)
(*   merge-smtp  the results of server/smtp_tier.py, which was given the   *)
(*               addresses an engine run could not probe, become verdicts  *)
(* All of them write the table that tier 0 of the engine trusts.           *)
(***************************************************************************)
EXTENDS Engine

CONSTANTS
  Roles,   \* addresses like info@ and sales@
  Labels   \* what the status column of a result file may say, after mapping

ASSUME OfflineAssumption ==
  /\ Roles \subseteq Addresses
  /\ Labels \subseteq Statuses \ {"duplicate", "likely_valid"}

VARIABLES
  misheard   \* history: addresses the SMTP script was wrong about

ovars == <<vars, misheard>>

OInit == Init /\ misheard = {}

\* A program that changes nothing but the database.
Command ==
  /\ stage = "start" /\ runs < MaxRuns
  /\ runs' = runs + 1
  /\ UNCHANGED <<world, stage, option, route, verdict, origin, blind>>

-----------------------------------------------------------------------------
(* prefilter run.                                                          *)

\* resolve_domains: found, dead, or undecided.  Without an MX an A or an AAAA
\* record is enough.
Resolved(d, lost) ==
  CASE d \in lost -> "error"
    [] d \notin lost /\ TakesMail(d) -> "found"
    [] d \notin lost /\ zone[d] = "nxdomain" -> "nxdomain"
    [] OTHER -> "no_mail"

\* Stages 2 to 5 for an address: the status it is resolved with; "open" if it
\* is escalated or left to a human.
Prefiltered(a, drop, lost) ==
  LET d == DomainOf[a]  dns == Resolved(d, lost)  typo == name[d] = "lookalike" IN
  CASE name[d] = "disposable" -> "disposable"
    [] name[d] # "disposable" /\ (dns = "no_mail" \/ (dns = "nxdomain" /\ ~typo)) -> "invalid"
    [] name[d] # "disposable" /\ (dns = "error" \/ (dns = "found" /\ ~typo))
         /\ drop /\ a \in Roles -> "role"
    [] OTHER -> "open"

\* What the database could not answer
Missed(a) == ~Hit(a) /\ \E i \in Rows : Canon(i) = a

Prefilter ==
  /\ Command
  /\ \E drop \in BOOLEAN, lost \in SUBSET Domains :
       cache' = [a \in Addresses |->
         IF Missed(a) /\ Prefiltered(a, drop, lost) # "open"
         THEN [source |-> "prefilter", status |-> Prefiltered(a, drop, lost)]
         ELSE cache[a]]
  /\ UNCHANGED misheard

-----------------------------------------------------------------------------
(* prefilter ingest and prefilter merge-smtp.                              *)

\* An address with different labels in one import is unknown.
Agreed(labels) == IF Cardinality(labels) = 1 THEN CHOOSE l \in labels : TRUE ELSE "unknown"

Ingest ==
  /\ Command
  /\ \E file \in [Addresses -> SUBSET Labels] :
       cache' = [a \in Addresses |->
         IF file[a] # {} THEN [source |-> "clearout", status |-> Agreed(file[a])]
         ELSE cache[a]]
  /\ UNCHANGED misheard

\* needs_smtp.csv of the latest engine run, which leaves Google Workspace out
NeedsSmtp ==
  {a \in Addresses : ~option.smtp /\ route[DomainOf[a]] = "smtp"
                     /\ \E i \in Rows : Canon(i) = a /\ Open(i)}

\* Only what the script calls proven is banked.  When it is right about that
\* is the subject of SmtpProbe; here it may be wrong.
MergeSmtp ==
  /\ Command
  /\ \E told \in [NeedsSmtp -> {"valid", "invalid", "unproven"}] :
       /\ cache' = [a \in Addresses |->
            IF a \in NeedsSmtp /\ told[a] # "unproven"
            THEN [source |-> "smtp", status |-> told[a]] ELSE cache[a]]
       /\ misheard' = misheard \cup
            {a \in NeedsSmtp : told[a] = IF a \in mailbox THEN "invalid" ELSE "valid"}

-----------------------------------------------------------------------------

Import == Ingest \/ MergeSmtp

ONext == (Next /\ UNCHANGED misheard) \/ Prefilter \/ Import

OSpec == OInit /\ [][ONext]_ovars

-----------------------------------------------------------------------------
(* Properties.                                                             *)

\* What the free tiers conclude is true, in their own run and in every later
\* one that the database answers.  The errors that do happen have a name: a
\* tenant probed without an answer about the fake, a domain with only an AAAA
\* record, and what the SMTP script was misled about.
VerdictsAreTrue ==
  /\ \A i \in WronglyValid : Dom(i) \in blind \/ Canon(i) \in misheard
  /\ \A i \in WronglyInvalid : zone[Dom(i)] = "aaaa" \/ Canon(i) \in misheard
=============================================================================
