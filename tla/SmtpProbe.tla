----------------------------- MODULE SmtpProbe -----------------------------
(***************************************************************************)
(* Asking a mail server about addresses of one domain, without sending     *)
(* mail.  Four clients hold nearly the same conversation:                  *)
(*   check  prefilter/smtp_check.py _probe_domain, tier 3 of the engine    *)
(*   tier   server/smtp_tier.py, the script for a server with a clean IP   *)
(*   calib  server/calibrate.py, which measures the method against results *)
(*          of the vendor                                                  *)
(*   find   prefilter/finder.py _smtp_find, which looks for the one        *)
(*          candidate that exists                                          *)
(* A step is one command and its reply.  The server may turn against the   *)
(* prober, defer, drop the line or fall silent at any command; apart from  *)
(* that it tells the truth about its mailboxes.                            *)
(***************************************************************************)
EXTENDS Naturals, Sequences, FiniteSets

CONSTANTS
  Addresses,  \* addresses of the domain
  List,       \* the order in which they are asked about
  Hosts       \* number of MX hosts of the domain

Clients == {"check", "tier", "calib", "find"}
Scripts == {"tier", "calib"}
\* nouser: the 5xx for a mailbox that does not exist; full: a 5xx about an
\* existing one; policy: a 5xx about the prober; callout: one that the older
\* expression of calibrate.py does not recognise; odd: any other code.
Replies == {"ok", "temp", "policy", "callout", "nouser", "full", "odd", "late", "gone"}
Statuses == {"valid", "invalid", "catch_all", "unknown", "blocked"}

ASSUME SmtpAssumption ==
  /\ IsFiniteSet(Addresses)
  /\ List \in Seq(Addresses)
  /\ \A a \in Addresses : \E i \in DOMAIN List : List[i] = a
  /\ Hosts \in Nat \ {0}

VARIABLES
  client,     \* which program is asking
  domain,     \* truth: does the domain exist
  exists,     \* truth: the addresses that have a mailbox
  takesAll,   \* truth: the hosts that accept every recipient
  stage,      \* the next command of the conversation
  host,       \* index of the MX host being asked
  pass,       \* the first run over the list, or the retry after 300 s
  asking,     \* the positions of List that this pass asks about
  said,       \* replies of this conversation, by address
  control,    \* the reply to the made-up address of this conversation
  verdict,    \* results, each with the control reply it was given under
  outcome     \* what _smtp_find returns

truth == <<domain, exists, takesAll>>
vars == <<client, truth, stage, host, pass, asking, said, control, verdict, outcome>>

Stages == {"dns", "connect", "ehlo", "helo", "mail", "control", "postmaster", "rcpt",
           "wait", "done"}
Silence == [a \in Addresses |-> "none"]
NoVerdict == [status |-> "none", under |-> "none"]

TypeOK ==
  /\ client \in Clients
  /\ domain \in BOOLEAN /\ exists \subseteq Addresses
  /\ takesAll \subseteq 1 .. Hosts
  /\ stage \in Stages
  /\ host \in 1 .. Hosts /\ pass \in {1, 2}
  /\ asking \subseteq DOMAIN List
  /\ said \in [Addresses -> Replies \cup {"none"}]
  /\ control \in Replies \cup {"none", "nxdomain", "servfail"}
  /\ verdict \in [Addresses -> [status : Statuses \cup {"none"},
                                under : Replies \cup {"none", "nxdomain", "servfail"}]]
  /\ outcome \in {"none", "found", "exhausted", "catch_all", "unknown", "blocked"}

\* find() has classified the domain before it probes.
Init ==
  /\ client \in Clients
  /\ domain \in BOOLEAN
  /\ exists \in (IF domain THEN SUBSET Addresses ELSE {{}})
  /\ takesAll \in SUBSET (1 .. Hosts)
  /\ stage = IF client = "find" THEN "connect" ELSE "dns"
  /\ client = "find" => domain
  /\ host = 1 /\ pass = 1
  /\ asking = DOMAIN List
  /\ said = Silence /\ control = "none"
  /\ verdict = [a \in Addresses |-> NoVerdict]
  /\ outcome = "none"

-----------------------------------------------------------------------------
(* The mail server.                                                        *)

\* To all but calibrate.py a failed callout is a refusal like another.
Disturbance ==
  {"temp", "policy", "odd", "late", "gone"} \cup (IF client = "calib" THEN {"callout"} ELSE {})

\* The reply to a greeting, HELO or MAIL FROM.
Courtesy == ({"ok"} \cup Disturbance) \ {"callout"}

\* The reply to RCPT TO for a made-up address.
AboutFake == Disturbance \cup {IF host \in takesAll THEN "ok" ELSE "nouser"}

\* The reply to RCPT TO for an address of the list.
About(a) == Disturbance \cup
  (IF host \in takesAll THEN {"ok"}
   ELSE IF a \in exists THEN {"ok", "full"} ELSE {"nouser"})

-----------------------------------------------------------------------------
(* How a conversation ends.  A definition named Name_Fault is a faulty     *)
(* variant of Name that some property must refuse.                         *)

\* MAX_MX_ATTEMPTS of the scripts, mx_hosts[:3] of the finder
Attempts == CASE client = "check" -> 1 [] client \in Scripts -> 2 [] OTHER -> 3

\* The retry replaces an undecided result, and only by a decided one.
Merged(results) ==
  [a \in Addresses |->
     IF a \in DOMAIN results /\ (pass = 1 \/ results[a].status # "unknown")
     THEN results[a] ELSE verdict[a]]

Undecided(v) == {a \in Addresses : v[a].status = "unknown"}

\* The domain's results are in.
Give(results) ==
  /\ verdict' = Merged(results)
  /\ stage' = IF client \in Scripts /\ pass = 1 /\ Undecided(verdict') # {}
              THEN "wait" ELSE "done"
  /\ UNCHANGED <<host, outcome>>

Asked == {List[i] : i \in asking}

\* all_as: what was heard before is forgotten.
AllAs(status, under) == [a \in Asked |-> [status |-> status, under |-> under]]

\* The conversation ends early; again: another MX host may do better.
Abandon(status, under, again) ==
  IF again /\ host < Attempts /\ host < Hosts
  THEN /\ host' = host + 1
       /\ stage' = "connect"
       /\ UNCHANGED <<verdict, outcome>>
  ELSE IF client = "find"
  THEN /\ outcome' = status
       /\ stage' = "done"
       /\ UNCHANGED <<verdict, host>>
  ELSE Give(AllAs(status, under))

Blame_Raw(r) == r

\* What a broken conversation says of every address: nothing but who is to
\* blame.  The finder makes no difference between a timeout and a reset.
Blame(r) ==
  IF r = "late" \/ (client = "find" /\ (r = "gone" \/ stage = "connect"))
  THEN "unknown" ELSE "blocked"

Dead == {"late", "gone"}
\* A script tries its next host after a refusal, a timeout or a reset; the
\* finder only when it has not been greeted.
GoOn == client \in Scripts \/ (client = "find" /\ stage = "connect")

-----------------------------------------------------------------------------
(* The conversation.                                                       *)

Quiet == UNCHANGED <<client, truth, pass, asking>>

\* Resolving the MX hosts.  The scripts run dig +short, which prints nothing
\* for a failing name server as it does for a missing domain.
Resolve ==
  /\ stage = "dns"
  /\ \/ /\ domain
        /\ stage' = "connect"
        /\ UNCHANGED <<host, verdict, outcome>>
     \/ /\ ~domain
        /\ Give(AllAs("invalid", "nxdomain"))
     \/ Give(AllAs("unknown", "late"))
     \/ Give(AllAs(IF client \in Scripts THEN "invalid" ELSE "unknown", "servfail"))
  /\ Quiet /\ UNCHANGED <<said, control>>

\* Connecting and reading the banner.
Connect ==
  /\ stage = "connect"
  /\ said' = Silence /\ control' = "none"
  /\ \E r \in Courtesy :
       IF r = "ok"
       THEN stage' = "ehlo" /\ UNCHANGED <<host, verdict, outcome>>
       ELSE Abandon(Blame(r), "none", GoOn)
  /\ Quiet

\* EHLO, and HELO for a server that does not know it.
Hello ==
  /\ stage \in {"ehlo", "helo"}
  /\ \E r \in Courtesy :
       IF r = "ok"
       THEN stage' = "mail" /\ UNCHANGED <<host, verdict, outcome>>
       ELSE IF stage = "ehlo" /\ r \notin Dead
       THEN stage' = "helo" /\ UNCHANGED <<host, verdict, outcome>>
       ELSE Abandon(Blame(r), "none", GoOn)
  /\ Quiet /\ UNCHANGED <<said, control>>

MailFrom ==
  /\ stage = "mail"
  /\ \E r \in Courtesy :
       IF r = "ok"
       THEN stage' = "control" /\ UNCHANGED <<host, verdict, outcome>>
       ELSE Abandon(Blame(r), "none", GoOn)
  /\ Quiet /\ UNCHANGED <<said, control>>

\* The replies to the control that become the fingerprint of "no such
\* mailbox".  The scripts do not ask whether it is a refusal, and calibrate.py
\* not whether it is about the mailbox.
Baseline(r) ==
  \/ r = "nouser"
  \/ client \in Scripts /\ r = "odd"
  \/ client = "calib" /\ r \in {"policy", "callout"}

\* RCPT TO for a made-up address; if that is accepted, nothing is knowable.
\* calibrate.py asks for postmaster first, which must exist.
Control ==
  /\ stage = "control"
  /\ \E r \in AboutFake :
       /\ control' = r
       /\ CASE r = "ok" /\ client # "calib" -> Abandon("catch_all", r, FALSE)
            [] r = "ok" /\ client = "calib" ->
                 stage' = "postmaster" /\ UNCHANGED <<host, verdict, outcome>>
            [] Baseline(r) ->
                 /\ stage' = IF client = "calib" THEN "postmaster" ELSE "rcpt"
                 /\ UNCHANGED <<host, verdict, outcome>>
            [] r \in {"temp", "odd"} /\ ~Baseline(r) -> Abandon("unknown", r, FALSE)
            [] OTHER -> Abandon(Blame(r), r, GoOn)
  /\ Quiet /\ UNCHANGED said

\* RCPT TO for postmaster: its answer is evidence for the reader of the report
\* and decides nothing.
Postmaster ==
  /\ stage = "postmaster"
  /\ \E r \in Courtesy \cup {"nouser"} :
       CASE r \in Dead -> Abandon(Blame(r), control, GoOn)
         [] r \notin Dead /\ control = "ok" -> Abandon("catch_all", control, FALSE)
         [] OTHER -> stage' = "rcpt" /\ UNCHANGED <<host, verdict, outcome>>
  /\ Quiet /\ UNCHANGED <<said, control>>

Judge_Any5xx(r) ==
  CASE r = "ok" -> "valid"
    [] r = "policy" -> "blocked"
    [] r \in {"nouser", "full"} -> "invalid"
    [] OTHER -> "unknown"

\* The verdict for a reply, against the fingerprint of the control.
Judge(r) ==
  CASE r = "ok" -> "valid"
    [] r = "policy" -> "blocked"
    [] r = "nouser" /\ control = "nouser" -> "invalid"
    [] OTHER -> "unknown"

\* calibrate.py: the same refusal as the made-up address, whatever that was.
Calibrated(r) ==
  CASE r = "ok" -> "valid"
    [] r = "policy" -> "blocked"
    [] r \in {"nouser", "full", "callout"} /\ r = control -> "invalid"
    [] OTHER -> "unknown"

Unasked == {i \in asking : said[List[i]] = "none"}
Turn_Backwards == CHOOSE i \in Unasked : \A j \in Unasked : i >= j

\* The next address in the order of the list.
Turn == CHOOSE i \in Unasked : \A j \in Unasked : i <= j

\* RCPT TO for the next address.
Ask ==
  /\ stage = "rcpt"
  /\ Unasked # {}
  /\ \E r \in About(List[Turn]) :
       IF r \in Dead
       THEN Abandon(Blame(r), control, GoOn) /\ UNCHANGED said
       ELSE /\ said' = [said EXCEPT ![List[Turn]] = r]
            /\ IF client = "find" /\ r = "ok"
               THEN outcome' = "found" /\ stage' = "done"
               ELSE UNCHANGED <<outcome, stage>>
            /\ UNCHANGED <<verdict, host>>
  /\ Quiet /\ UNCHANGED control

\* Every address has been asked about.
Quit ==
  /\ stage = "rcpt"
  /\ Unasked = {}
  /\ IF client = "find"
     THEN outcome' = "exhausted" /\ stage' = "done" /\ UNCHANGED <<verdict, host>>
     ELSE Give([a \in Asked |->
                  [status |-> IF client = "calib" THEN Calibrated(said[a]) ELSE Judge(said[a]),
                   under |-> control]])
  /\ Quiet /\ UNCHANGED <<said, control>>

Again_WholeList ==
  /\ stage = "wait"
  /\ pass' = 2 /\ host' = 1 /\ stage' = "dns"
  /\ asking' = DOMAIN List
  /\ UNCHANGED <<client, truth, said, control, verdict, outcome>>

Again_Forever ==
  /\ stage = "wait"
  /\ host' = 1 /\ stage' = "dns"
  /\ asking' = {i \in DOMAIN List : verdict[List[i]].status = "unknown"}
  /\ UNCHANGED <<client, truth, pass, said, control, verdict, outcome>>

\* RETRY_DELAY is over: the undecided addresses are asked about once more.
Again ==
  /\ stage = "wait"
  /\ pass' = 2 /\ host' = 1 /\ stage' = "dns"
  /\ asking' = {i \in DOMAIN List : verdict[List[i]].status = "unknown"}
  /\ UNCHANGED <<client, truth, said, control, verdict, outcome>>

Over == stage = "done" /\ UNCHANGED vars

Next ==
  \/ Resolve \/ Connect \/ Hello \/ MailFrom \/ Control \/ Postmaster \/ Ask \/ Quit
  \/ Again \/ Over

Spec == Init /\ [][Next]_vars
\* Every reply is awaited with a deadline, and the loop resumes the waiter.
FairSpec == Spec /\ WF_vars(Next)

-----------------------------------------------------------------------------
(* Properties.                                                             *)

\* A valid address exists, and not all hosts take everything, whatever the
\* server did in between.  The scripts may be misled by a control that is
\* neither accepted nor refused, calibrate.py by a server that refuses the
\* prober while it asks about the control and then takes everything.
ValidIsTrue ==
  \A a \in Addresses :
    verdict[a].status = "valid" =>
      \/ a \in exists /\ takesAll # 1 .. Hosts
      \/ verdict[a].under \in {"odd", "policy", "callout"}

\* An invalid address does not exist: a refusal of the prober, a full
\* mailbox or a deferral is never taken for it (smtp_check.py:6-11).  The
\* scripts may be misled by a name server that fails, and calibrate.py by a
\* server that gives every address the same refusal of the prober.
InvalidIsTrue ==
  \A a \in Addresses :
    verdict[a].status = "invalid" => a \notin exists \/ verdict[a].under \in {"servfail", "callout"}

\* What the probes call proven is true.
VerdictsAreTrue == ValidIsTrue /\ InvalidIsTrue

\* What the finder reports as found exists, and is the first candidate the
\* server accepted, with no candidate left out before it.  When it reports that
\* all were rejected, each of them was asked about, and one that exists was
\* turned away for another reason: finder.py:190 takes any other answer than
\* an acceptance for a rejection.
FinderIsRight ==
  /\ outcome = "found" =>
       \E i \in DOMAIN List :
         /\ said[List[i]] = "ok" /\ List[i] \in exists
         /\ \A j \in 1 .. i - 1 : said[List[j]] \notin {"ok", "none"}
  /\ outcome = "exhausted" =>
       \A a \in Addresses :
         said[a] # "none" /\ (a \in exists => said[a] \in {"temp", "policy", "odd", "full"})

\* The retry settles what was open and unsettles nothing.
RetryOnlySettles ==
  [][\A a \in Addresses :
       verdict[a].status \notin {"none", "unknown"} => verdict'[a] = verdict[a]]_vars

\* Every conversation ends, and with an answer for every address.
EveryAddressAnswered ==
  <>(/\ stage = "done"
     /\ IF client = "find" THEN outcome # "none"
        ELSE \A a \in Addresses : verdict[a].status # "none")

-----------------------------------------------------------------------------
(* What comments say, and the code does not keep.                          *)

\* smtp_tier.py:17-19: only the fingerprint of the fake's rejection makes an
\* address invalid, "Anything else -> unknown, which escalates rather than
\* rejects".
InvalidNeedsProof ==
  \A a \in Addresses : verdict[a].status = "invalid" => a \notin exists
=============================================================================
