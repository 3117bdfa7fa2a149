---------------------------- MODULE OfflineProofs ----------------------------
(***************************************************************************)
(* Proofs about the engine and the other programs on its database (Engine  *)
(* and Offline): type correctness, that verdicts are true but for the      *)
(* named errors, that what no tier could decide stays billable, and that   *)
(* the enriched file carries the engine's verdicts - for any list,         *)
(* spellings, domains, worlds and number of programs.                      *)
(***************************************************************************)
EXTENDS Offline, FiniteSetTheorems, WellFoundedInduction, TLAPS

-----------------------------------------------------------------------------
(* The invariant.                                                          *)

\* What a free tier says of the address a is true, or its error has a name: B
\* are the domains probed without an answer about the fake, M the addresses the
\* SMTP script was wrong about.
TrueOf(a, status, source, B, M) ==
  source \in Free =>
    /\ status = "valid" => a \in mailbox \/ DomainOf[a] \in B \/ a \in M
    /\ status = "invalid" => a \notin mailbox \/ zone[DomainOf[a]] = "aaaa" \/ a \in M

\* What the database says: only the vendor's word files a catch-all.
SoundEntry(a, status, source, B, M) ==
  /\ TrueOf(a, status, source, B, M)
  /\ status = "catch_all" => source = "clearout"

\* The verdict v on the address a.  If the database served it, o is the source
\* of the entry it was.
SoundRow(a, v, B, M, o) ==
  /\ v.status # "duplicate"
  /\ v.tier = "cache" =>
       /\ v.disposition = "siphoned" /\ v.status # "unknown"
       /\ SoundEntry(a, v.status, o, B, M)
  /\ v.tier # "cache" =>
       /\ TrueOf(a, v.status, v.tier, B, M)
       /\ v.disposition = "siphoned" /\ v.status \in {"unknown", "catch_all"} => v.tier = "clearout"

World == \A a \in mailbox : TakesMail(DomainOf[a])

EntriesSound == \A a \in Addresses : SoundEntry(a, cache[a].status, cache[a].source, blind, misheard)

RowsSound ==
  \A i \in Rows : Live(i) => SoundRow(Canon(i), verdict[i], blind, misheard, origin[i])

\* Once a run has seeded the list
Bystanders ==
  \/ stage = "start" /\ verdict = [i \in Rows |-> Fresh]
  \/ \A i \in Rows : ~Live(i) => verdict[i] = Bystander(i)

IInv == TypeOK /\ World /\ EntriesSound /\ RowsSound /\ Bystanders

-----------------------------------------------------------------------------
(* Rows, addresses and verdicts.                                           *)

LEMMA CanonType ==
  ASSUME NEW i \in Rows
  PROVE  Canon(i) \in Addresses \cup {Malformed, Odd}
BY EngineAssumption DEF Rows, Canon

LEMMA LiveType ==
  ASSUME NEW i \in Rows, Live(i)
  PROVE  Canon(i) \in Addresses /\ Dom(i) \in Domains /\ Dom(i) = DomainOf[Canon(i)]
BY DEF Live, FirstRows, Dom, Domains

\* An address has one live row.
LEMMA OneLive ==
  ASSUME NEW i \in Rows, NEW j \in Rows, Live(i), Live(j), Canon(i) = Canon(j)
  PROVE  i = j
<1>1. i \in Nat /\ j \in Nat
  BY EngineAssumption DEF Rows
<1>2. i <= j /\ j <= i
  BY DEF Live, FirstRows
<1> QED
  BY <1>1, <1>2

\* Verdicts as the tiers make them.
LEMMA SettledType ==
  ASSUME NEW status \in Statuses, NEW tier \in Tiers
  PROVE  /\ Settled(status, tier) \in Verdicts
         /\ Settled(status, tier).status = status /\ Settled(status, tier).tier = tier
         /\ Settled(status, tier).disposition = "siphoned"
BY DEF Settled, Verdicts

LEMMA ReviewType ==
  ASSUME NEW status \in Statuses
  PROVE  /\ Review(status) \in Verdicts
         /\ Review(status).status = status /\ Review(status).tier = "local"
         /\ Review(status).disposition = "review"
BY DEF Review, Verdicts, Tiers

LEMMA FreshType ==
  /\ Fresh \in Verdicts
  /\ Fresh.status = "unknown" /\ Fresh.tier = "" /\ Fresh.disposition = "to_vendor"
BY DEF Fresh, Verdicts, Statuses, Tiers

LEMMA MarkedType ==
  ASSUME NEW v \in Verdicts, NEW status \in Statuses
  PROVE  /\ [v EXCEPT !.status = status] \in Verdicts
         /\ [v EXCEPT !.status = status].status = status
         /\ [v EXCEPT !.status = status].tier = v.tier
         /\ [v EXCEPT !.status = status].disposition = v.disposition
BY DEF Verdicts

LEMMA ScoredType ==
  ASSUME NEW v \in Verdicts, NEW score \in Confidences
  PROVE  /\ [v EXCEPT !.confidence = score] \in Verdicts
         /\ [v EXCEPT !.confidence = score].status = v.status
         /\ [v EXCEPT !.confidence = score].tier = v.tier
         /\ [v EXCEPT !.confidence = score].disposition = v.disposition
<1>1. score \in Nat
  BY EngineAssumption
<1> QED
  BY <1>1 DEF Verdicts

\* What a tier does is sound.
LEMMA SettledSound ==
  ASSUME NEW a, NEW status \in Statuses \ {"duplicate"}, NEW tier \in Tiers \ {"cache"},
         NEW B, NEW M, NEW o, TrueOf(a, status, tier, B, M),
         status \in {"unknown", "catch_all"} => tier = "clearout"
  PROVE  SoundRow(a, Settled(status, tier), B, M, o)
BY SettledType DEF SoundRow

LEMMA FreshSound ==
  ASSUME NEW a, NEW B, NEW M, NEW o
  PROVE  SoundRow(a, Fresh, B, M, o)
BY FreshType DEF SoundRow, TrueOf

Results == {"valid", "invalid", "catch_all", "unknown", "blocked"}

LEMMA HeardSound ==
  ASSUME NEW a, NEW v \in Verdicts, NEW B, NEW M, NEW o, SoundRow(a, v, B, M, o),
         v.disposition = "to_vendor", NEW status \in Results, NEW tier \in {"microsoft", "smtp"},
         TrueOf(a, status, tier, B, M)
  PROVE  /\ Heard(v, status, tier) \in Verdicts
         /\ SoundRow(a, Heard(v, status, tier), B, M, o)
<1>1. tier \in Tiers \ {"cache"}
  BY DEF Tiers
<1>2. CASE status \in {"valid", "invalid"}
  <2>1. status \in Statuses \ {"duplicate"} /\ status \notin {"unknown", "catch_all"}
    BY <1>2 DEF Statuses
  <2>2. Heard(v, status, tier) = Settled(status, tier)
    BY <1>2 DEF Heard
  <2> QED
    BY <1>1, <2>1, <2>2, SettledType, SettledSound
<1>3. CASE status = "catch_all"
  <2>1. status \in Statuses
    BY <1>3 DEF Statuses
  <2>2. Heard(v, status, tier) = [v EXCEPT !.status = status]
    BY <1>3 DEF Heard
  <2>3. v.tier # "cache"
    BY DEF SoundRow
  <2>4. PICK w : w = [v EXCEPT !.status = status]
    OBVIOUS
  <2>5. /\ w \in Verdicts /\ w.status = "catch_all" /\ w.tier # "cache"
        /\ w.disposition = "to_vendor"
    BY <1>3, <2>1, <2>3, <2>4, MarkedType
  <2>6. SoundRow(a, w, B, M, o)
    BY <2>5 DEF SoundRow, TrueOf
  <2> QED
    BY <2>2, <2>4, <2>5, <2>6
<1>4. CASE status \notin {"valid", "invalid", "catch_all"}
  BY <1>4 DEF Heard
<1> QED
  BY <1>2, <1>3, <1>4

\* The named errors only grow.
LEMMA SoundGrows ==
  ASSUME NEW a, NEW v, NEW B, NEW M, NEW o, SoundRow(a, v, B, M, o),
         NEW C, B \subseteq C
  PROVE  SoundRow(a, v, C, M, o)
BY DEF SoundRow, SoundEntry, TrueOf

\* A row that no tier looks at is never open.
LEMMA BystanderType ==
  ASSUME NEW i \in Rows, ~Live(i)
  PROVE  /\ Bystander(i) \in Verdicts /\ Bystander(i).disposition # "to_vendor"
         /\ Bystander(i).status # "valid" /\ Bystander(i).tier = "local"
         /\ Parsed(i) => Bystander(i).status = "duplicate"
<1>1. {"invalid", "unknown", "duplicate"} \subseteq Statuses /\ "local" \in Tiers
  BY DEF Statuses, Tiers
<1>2. CASE Canon(i) = Malformed
  BY <1>1, <1>2, SettledType, EngineAssumption DEF Bystander, Parsed
<1>3. CASE Canon(i) = Odd
  BY <1>1, <1>3, ReviewType, EngineAssumption DEF Bystander, Parsed
<1>4. CASE Canon(i) # Malformed /\ Canon(i) # Odd
  BY <1>1, <1>4, SettledType DEF Bystander
<1> QED
  BY <1>2, <1>3, <1>4

\* While a run is under way, only live rows are open.
LEMMA OpenIsLive ==
  ASSUME Bystanders, stage # "start", NEW i \in Rows, Open(i)
  PROVE  Live(i)
BY BystanderType DEF Bystanders, Open

-----------------------------------------------------------------------------
(* The engine.  Each tier keeps the verdicts in their types and sound.     *)

\* What a tier has to show about the rows it leaves.
LEMMA TierStep ==
  ASSUME IInv, UNCHANGED <<world, cache, misheard>>, blind \subseteq blind', blind' \subseteq Domains,
         option' \in Options, route' \in [Domains -> Hosts \cup {"no_mail", "unresolved"}],
         runs' \in 0 .. MaxRuns,
         stage' \in {"start", "dns", "microsoft", "smtp", "patterns", "vendor", "report"},
         NEW f, verdict' = [i \in Rows |-> f[i]], origin' \in [Rows -> Sources],
         \A i \in Rows : Live(i) => /\ f[i] \in Verdicts
                                    /\ SoundRow(Canon(i), f[i], blind', misheard, origin'[i]),
         \A i \in Rows : ~Live(i) => f[i] = Bystander(i)
  PROVE  IInv'
<1>1. \A i \in Rows : verdict'[i] = f[i]
  OBVIOUS
<1>2. verdict' \in [Rows -> Verdicts]
  BY BystanderType
<1>3. TypeOK'
  BY <1>2 DEF IInv, TypeOK, world
<1>4. World'
  BY DEF IInv, World, TakesMail, world
<1>5. EntriesSound'
  BY DEF IInv, EntriesSound, SoundEntry, TrueOf, world
<1>6. RowsSound'
  BY <1>1 DEF RowsSound, SoundRow, SoundEntry, TrueOf, world
<1>7. Bystanders'
  BY <1>1 DEF Bystanders
<1> QED
  BY <1>3, <1>4, <1>5, <1>6, <1>7 DEF IInv

LEMMA StartStep == IInv /\ Start /\ UNCHANGED misheard => IInv'
<1> SUFFICES ASSUME IInv, Start, UNCHANGED misheard PROVE IInv'
  OBVIOUS
<1>f. PICK f : f = [i \in Rows |-> Seeded(i)]
  OBVIOUS
<1>1. ASSUME NEW i \in Rows, Live(i)
      PROVE  Seeded(i) \in Verdicts /\ SoundRow(Canon(i), Seeded(i), blind, misheard, origin'[i])
  <2>1. Canon(i) \in Addresses /\ Canon(i) # Malformed /\ Canon(i) # Odd
    BY <1>1, LiveType, EngineAssumption
  <2>d. Dom(i) = DomainOf[Canon(i)]
    BY DEF Dom
  <2> DEFINE a == Canon(i)
  <2>2. CASE Hit(a)
    <3>1. Seeded(i) = Settled(cache[a].status, "cache")
      BY <1>1, <2>1, <2>2 DEF Seeded
    <3>2. /\ cache[a].status \in Statuses \ {"duplicate"} /\ "cache" \in Tiers
          /\ cache[a].status # "unknown"
      BY <2>1, <2>2 DEF IInv, TypeOK, Hit, Tiers
    <3>3. /\ Seeded(i) \in Verdicts /\ Seeded(i).status = cache[a].status
          /\ Seeded(i).tier = "cache" /\ Seeded(i).disposition = "siphoned"
      BY <3>1, <3>2, SettledType
    <3>4. origin'[i] = cache[a].source
      BY <1>1 DEF Start
    <3> QED
      BY <2>1, <3>2, <3>3, <3>4 DEF SoundRow, IInv, EntriesSound
  <2>3. CASE ~Hit(a) /\ name[DomainOf[a]] = "disposable"
    <3>1. Seeded(i) = Settled("disposable", "local")
      BY <1>1, <2>1, <2>d, <2>3 DEF Seeded
    <3>2. "disposable" \in Statuses \ {"duplicate"} /\ "local" \in Tiers \ {"cache"}
      BY DEF Statuses, Tiers
    <3>3. TrueOf(a, "disposable", "local", blind, misheard)
      BY DEF TrueOf
    <3> QED
      BY <3>1, <3>2, <3>3, SettledType, SettledSound
  <2>4. CASE ~Hit(a) /\ name[DomainOf[a]] # "disposable"
    <3>1. Seeded(i) = Fresh
      BY <1>1, <2>1, <2>d, <2>4 DEF Seeded
    <3> QED
      BY <3>1, FreshType, FreshSound
  <2> QED
    BY <2>2, <2>3, <2>4
<1>2. ASSUME NEW i \in Rows, ~Live(i) PROVE Seeded(i) = Bystander(i)
  BY <1>2 DEF Seeded
<1>r. runs' \in 0 .. MaxRuns
  <2>1. runs \in 0 .. MaxRuns /\ runs < MaxRuns /\ runs' = runs + 1
    BY DEF Start, IInv, TypeOK
  <2> QED
    BY <2>1, EngineAssumption
<1>3. /\ UNCHANGED <<world, cache, misheard, route, blind>> /\ blind \subseteq Domains
      /\ option' \in Options /\ stage' = "dns" /\ verdict' = [i \in Rows |-> f[i]]
      /\ route \in [Domains -> Hosts \cup {"no_mail", "unresolved"}]
  BY <1>f DEF Start, IInv, TypeOK
<1>o. origin' \in [Rows -> Sources]
  <2>1. \A i \in Rows : Live(i) => cache[Canon(i)].source \in Sources
    BY LiveType DEF IInv, TypeOK
  <2>2. "" \in Sources
    BY DEF Sources, Tiers
  <2> QED
    BY <2>1, <2>2 DEF Start
<1>4. \A i \in Rows : f[i] = Seeded(i)
  BY <1>f
<1> QED
  BY <1>1, <1>2, <1>3, <1>4, <1>o, <1>r, TierStep

\* Where a run under way stands: its live rows are sound and typed, the others
\* stay as they were seeded.
LEMMA UnderWay ==
  ASSUME IInv, stage # "start"
  PROVE  /\ \A i \in Rows : Live(i) =>
              /\ verdict[i] \in Verdicts /\ Canon(i) \in Addresses
              /\ SoundRow(Canon(i), verdict[i], blind, misheard, origin[i])
         /\ \A i \in Rows : ~Live(i) => verdict[i] = Bystander(i) /\ ~Open(i)
         /\ verdict \in [Rows -> Verdicts] /\ option \in Options /\ runs \in 0 .. MaxRuns
         /\ route \in [Domains -> Hosts \cup {"no_mail", "unresolved"}] /\ blind \subseteq Domains
         /\ origin \in [Rows -> Sources]
BY LiveType, OpenIsLive DEF IInv, TypeOK, RowsSound, Bystanders

\* A domain without mail has no mailbox, unless it has an AAAA record only.
LEMMA NoMailSound ==
  ASSUME IInv, NEW a \in Addresses, RouteOf(DomainOf[a]) = "no_mail", NEW tier
  PROVE  TrueOf(a, "invalid", tier, blind, misheard)
<1>1. DomainOf[a] \in Domains
  BY DEF Domains
<1>2. zone[DomainOf[a]] \in {"nxdomain", "null", "empty", "mx", "a", "aaaa"}
      /\ host[DomainOf[a]] # "no_mail"
  BY <1>1, EngineAssumption DEF IInv, TypeOK, Hosts
<1>3. zone[DomainOf[a]] \in {"nxdomain", "null", "empty", "aaaa"}
  BY <1>2 DEF RouteOf
<1> QED
  BY <1>3 DEF IInv, World, TakesMail, TrueOf

LEMMA RouteType ==
  ASSUME TypeOK, NEW d \in Domains
  PROVE  RouteOf(d) \in Hosts \cup {"no_mail", "unresolved"}
<1>1. zone[d] \in {"nxdomain", "null", "empty", "mx", "a", "aaaa"} /\ host[d] \in Hosts
  BY EngineAssumption DEF TypeOK
<1> QED
  BY <1>1 DEF RouteOf, Hosts

LEMMA DnsStep == IInv /\ Dns /\ UNCHANGED misheard => IInv'
<1> SUFFICES ASSUME IInv, Dns, UNCHANGED misheard PROVE IInv'
  OBVIOUS
<1>0. stage # "start"
  BY DEF Dns
<1>1. PICK lost : route' = [d \in Domains |-> IF d \in lost THEN "unresolved" ELSE RouteOf(d)]
  BY DEF Dns
<1>2. route' \in [Domains -> Hosts \cup {"no_mail", "unresolved"}]
  BY <1>1, RouteType DEF IInv
<1>f. PICK f : f = [i \in Rows |->
        IF Open(i) /\ route'[Dom(i)] = "no_mail"
        THEN IF name[Dom(i)] = "lookalike" THEN Review("invalid") ELSE Settled("invalid", "local")
        ELSE verdict[i]]
  OBVIOUS
<1>3. ASSUME NEW i \in Rows, Live(i)
      PROVE  f[i] \in Verdicts /\ SoundRow(Canon(i), f[i], blind, misheard, origin[i])
  <2>0. "invalid" \in Statuses \ {"duplicate"} /\ "local" \in Tiers \ {"cache"}
    BY DEF Statuses, Tiers
  <2>1. CASE Open(i) /\ route'[Dom(i)] = "no_mail"
    <3>1. Canon(i) \in Addresses /\ RouteOf(DomainOf[Canon(i)]) = "no_mail"
      BY <1>1, <1>3, <2>1, LiveType
    <3>2. TrueOf(Canon(i), "invalid", "local", blind, misheard)
      BY <3>1, NoMailSound
    <3>3. CASE f[i] = Settled("invalid", "local")
      BY <2>0, <3>2, <3>3, SettledType, SettledSound
    <3>4. CASE f[i] = Review("invalid")
      BY <2>0, <3>2, <3>4, ReviewType DEF SoundRow
    <3> QED
      BY <1>f, <2>1, <3>3, <3>4
  <2>2. CASE ~ (Open(i) /\ route'[Dom(i)] = "no_mail")
    BY <1>0, <1>3, <1>f, <2>2, UnderWay
  <2> QED
    BY <2>1, <2>2
<1>4. ASSUME NEW i \in Rows, ~Live(i) PROVE f[i] = Bystander(i)
  BY <1>0, <1>4, <1>f, UnderWay
<1>5. /\ UNCHANGED <<world, cache, misheard, origin, option, blind, runs>> /\ stage' = "microsoft"
      /\ verdict' = [i \in Rows |-> f[i]]
  BY <1>f DEF Dns
<1> QED
  BY <1>0, <1>2, <1>3, <1>4, <1>5, UnderWay, TierStep

\* Microsoft's answer about an address is true, or the tenant is blind: it was
\* asked about the fake without an answer.
LEMMA DirectorySound ==
  ASSUME IInv, NEW a \in Addresses, NEW reply \in About(a), NEW control \in AboutFake(DomainOf[a]),
         NEW B, control \in {"other", "error"} => DomainOf[a] \in B
  PROVE  /\ Directory(reply, control) \in Results
         /\ TrueOf(a, Directory(reply, control), "microsoft", B, misheard)
<1>1. Directory(reply, control) \in {"valid", "catch_all", "unknown"}
  BY DEF Directory
<1>2. ASSUME Directory(reply, control) = "valid" PROVE a \in mailbox \/ DomainOf[a] \in B
  <2>1. reply = "exists" /\ control # "exists"
    BY <1>2 DEF Directory
  <2>2. CASE tenant[DomainOf[a]] = "opaque"
    BY <2>1, <2>2 DEF AboutFake
  <2>3. CASE tenant[DomainOf[a]] # "opaque"
    <3>1. a \in login
      BY <2>1, <2>3 DEF About
    <3> QED
      BY <3>1 DEF IInv, TypeOK
  <2> QED
    BY <2>2, <2>3
<1> QED
  BY <1>1, <1>2 DEF Results, TrueOf

LEMMA MicrosoftStep == IInv /\ Microsoft /\ UNCHANGED misheard => IInv'
<1> SUFFICES ASSUME IInv, Microsoft, UNCHANGED misheard PROVE IInv'
  OBVIOUS
<1>0. stage # "start"
  BY DEF Microsoft
<1> DEFINE asked == {i \in Rows : /\ option.microsoft /\ Open(i)
                                  /\ route[Dom(i)] \in {"microsoft", "gateway"}}
           tenants == {Dom(i) : i \in asked}
<1>a. PICK control, reply :
        /\ \A d \in tenants : control[d] \in AboutFake(d)
        /\ \A i \in asked : reply[i] \in About(Canon(i))
        /\ verdict' = [i \in Rows |->
             IF i \in asked
             THEN Heard(verdict[i], Directory(reply[i], control[Dom(i)]), "microsoft")
             ELSE verdict[i]]
        /\ blind' = blind \cup {d \in tenants : control[d] \in {"other", "error"}}
  BY DEF Microsoft
<1>f. PICK f : f = [i \in Rows |->
             IF i \in asked
             THEN Heard(verdict[i], Directory(reply[i], control[Dom(i)]), "microsoft")
             ELSE verdict[i]]
  OBVIOUS
<1>b. \A i \in asked : i \in Rows /\ Open(i) /\ Live(i) /\ Dom(i) \in Domains
                     /\ Canon(i) \in Addresses /\ Dom(i) = DomainOf[Canon(i)]
  BY <1>0, OpenIsLive, LiveType DEF IInv
<1>c. \A i \in asked : Dom(i) \in tenants
  OBVIOUS
<1>d. \A d \in tenants : d \in Domains
  BY <1>b
<1> HIDE DEF asked, tenants
<1>1. blind \subseteq blind' /\ blind' \subseteq Domains
  BY <1>a, <1>d DEF IInv, TypeOK
<1>2. ASSUME NEW i \in Rows, Live(i)
      PROVE  f[i] \in Verdicts /\ SoundRow(Canon(i), f[i], blind', misheard, origin[i])
  <2>0. /\ verdict[i] \in Verdicts /\ Canon(i) \in Addresses
        /\ SoundRow(Canon(i), verdict[i], blind', misheard, origin[i])
    BY <1>0, <1>1, <1>2, UnderWay, SoundGrows
  <2>1. CASE i \in asked
    <3> DEFINE d == Dom(i)  result == Directory(reply[i], control[d])
    <3>1. /\ reply[i] \in About(Canon(i)) /\ control[d] \in AboutFake(d) /\ d = DomainOf[Canon(i)]
          /\ control[d] \in {"other", "error"} => d \in blind'
      BY <1>a, <1>b, <1>c, <2>1
    <3>2. result \in Results /\ TrueOf(Canon(i), result, "microsoft", blind', misheard)
      BY <2>0, <3>1, DirectorySound
    <3>3. verdict[i].disposition = "to_vendor"
      BY <1>b, <2>1 DEF Open
    <3>4. f[i] = Heard(verdict[i], result, "microsoft")
      BY <1>f, <2>1
    <3> HIDE DEF result
    <3> QED
      BY <2>0, <3>2, <3>3, <3>4, HeardSound
  <2>2. CASE i \notin asked
    BY <1>f, <2>0, <2>2
  <2> QED
    BY <2>1, <2>2
<1>3. ASSUME NEW i \in Rows, ~Live(i) PROVE f[i] = Bystander(i)
  BY <1>0, <1>3, <1>b, <1>f, UnderWay
<1>4. /\ UNCHANGED <<world, cache, misheard, origin, option, route, runs>> /\ stage' = "smtp"
      /\ verdict' = [i \in Rows |-> f[i]]
  BY <1>a, <1>f DEF Microsoft
<1> QED
  BY <1>0, <1>1, <1>2, <1>3, <1>4, UnderWay, TierStep

LEMMA SmtpStep == IInv /\ Smtp /\ UNCHANGED misheard => IInv'
<1> SUFFICES ASSUME IInv, Smtp, UNCHANGED misheard PROVE IInv'
  OBVIOUS
<1>0. stage # "start"
  BY DEF Smtp
<1> DEFINE asked == {i \in Rows : option.smtp /\ Open(i) /\ route[Dom(i)] \in {"smtp", "gsuite"}}
<1>a. PICK result :
        /\ \A i \in asked : result[i] \in SmtpResults(Canon(i))
        /\ verdict' = [i \in Rows |->
             IF i \in asked THEN Heard(verdict[i], result[i], "smtp") ELSE verdict[i]]
  BY DEF Smtp
<1>f. PICK f : f = [i \in Rows |->
             IF i \in asked THEN Heard(verdict[i], result[i], "smtp") ELSE verdict[i]]
  OBVIOUS
<1>b. \A i \in asked : i \in Rows /\ Open(i) /\ Live(i)
  BY <1>0, OpenIsLive DEF IInv
<1> HIDE DEF asked
<1>2. ASSUME NEW i \in Rows, Live(i)
      PROVE  f[i] \in Verdicts /\ SoundRow(Canon(i), f[i], blind, misheard, origin[i])
  <2>0. /\ verdict[i] \in Verdicts
        /\ SoundRow(Canon(i), verdict[i], blind, misheard, origin[i])
    BY <1>0, <1>2, UnderWay
  <2>1. CASE i \in asked
    <3>1. result[i] \in Results /\ TrueOf(Canon(i), result[i], "smtp", blind, misheard)
      BY <1>a, <2>1 DEF SmtpResults, Results, TrueOf
    <3>2. verdict[i].disposition = "to_vendor"
      BY <1>b, <2>1 DEF Open
    <3>3. f[i] = Heard(verdict[i], result[i], "smtp")
      BY <1>f, <2>1
    <3> QED
      BY <2>0, <3>1, <3>2, <3>3, HeardSound
  <2>2. CASE i \notin asked
    BY <1>f, <2>0, <2>2
  <2> QED
    BY <2>1, <2>2
<1>3. ASSUME NEW i \in Rows, ~Live(i) PROVE f[i] = Bystander(i)
  BY <1>0, <1>3, <1>b, <1>f, UnderWay
<1>4. /\ UNCHANGED <<world, cache, misheard, origin, option, route, blind, runs>> /\ stage' = "patterns"
      /\ verdict' = [i \in Rows |-> f[i]]
  BY <1>a, <1>f DEF Smtp
<1> QED
  BY <1>0, <1>2, <1>3, <1>4, UnderWay, TierStep

LEMMA PatternsStep == IInv /\ Patterns /\ UNCHANGED misheard => IInv'
<1> SUFFICES ASSUME IInv, Patterns, UNCHANGED misheard PROVE IInv'
  OBVIOUS
<1>0. stage # "start"
  BY DEF Patterns
<1>a. PICK score \in [{i \in Rows : Open(i)} -> Confidences] :
        verdict' = [i \in Rows |->
         CASE ~Open(i) -> verdict[i]
           [] Open(i) /\ option.line > 0 /\ score[i] >= LikelyFrom /\ score[i] >= option.line ->
                [Settled("likely_valid", "pattern") EXCEPT !.confidence = score[i]]
           [] OTHER -> [verdict[i] EXCEPT !.confidence = score[i]]]
  BY DEF Patterns
<1>f. PICK f : f = [i \in Rows |->
         CASE ~Open(i) -> verdict[i]
           [] Open(i) /\ option.line > 0 /\ score[i] >= LikelyFrom /\ score[i] >= option.line ->
                [Settled("likely_valid", "pattern") EXCEPT !.confidence = score[i]]
           [] OTHER -> [verdict[i] EXCEPT !.confidence = score[i]]]
  OBVIOUS
<1>2. ASSUME NEW i \in Rows, Live(i)
      PROVE  f[i] \in Verdicts /\ SoundRow(Canon(i), f[i], blind, misheard, origin[i])
  <2>0. /\ verdict[i] \in Verdicts
        /\ SoundRow(Canon(i), verdict[i], blind, misheard, origin[i])
    BY <1>0, <1>2, UnderWay
  <2>1. CASE ~Open(i)
    BY <1>f, <2>0, <2>1
  <2>2. CASE Open(i)
    <3>0. score[i] \in Confidences
      BY <2>2
    <3>1. PICK w : w = Settled("likely_valid", "pattern")
      OBVIOUS
    <3>2. PICK likely : likely = [w EXCEPT !.confidence = score[i]]
      OBVIOUS
    <3>3. PICK scored : scored = [verdict[i] EXCEPT !.confidence = score[i]]
      OBVIOUS
    <3>4. f[i] = likely \/ f[i] = scored
      BY <1>f, <2>2, <3>1, <3>2, <3>3
    <3>5. CASE f[i] = likely
      <4>0. "likely_valid" \in Statuses /\ "pattern" \in Tiers
        BY DEF Statuses, Tiers
      <4>1. /\ w \in Verdicts /\ w.status = "likely_valid" /\ w.tier = "pattern"
        BY <3>1, <4>0, SettledType
      <4>2. /\ likely \in Verdicts /\ likely.status = "likely_valid" /\ likely.tier = "pattern"
        BY <3>0, <3>2, <4>1, ScoredType
      <4> QED
        BY <3>5, <4>2 DEF SoundRow, TrueOf, Free
    <3>6. CASE f[i] = scored
      <4>1. /\ scored \in Verdicts /\ scored.status = verdict[i].status
            /\ scored.tier = verdict[i].tier /\ scored.disposition = verdict[i].disposition
        BY <2>0, <3>0, <3>3, ScoredType
      <4> QED
        BY <2>0, <3>6, <4>1 DEF SoundRow
    <3> QED
      BY <3>4, <3>5, <3>6
  <2> QED
    BY <2>1, <2>2
<1>3. ASSUME NEW i \in Rows, ~Live(i) PROVE f[i] = Bystander(i)
  <2>1. ~Open(i) /\ verdict[i] = Bystander(i)
    BY <1>0, <1>3, UnderWay
  <2> QED
    BY <1>f, <2>1
<1>4. /\ UNCHANGED <<world, cache, misheard, origin, option, route, blind, runs>> /\ stage' = "vendor"
      /\ verdict' = [i \in Rows |-> f[i]]
  BY <1>a, <1>f DEF Patterns
<1> QED
  BY <1>0, <1>2, <1>3, <1>4, UnderWay, TierStep

LEMMA VendorStep == IInv /\ Vendor /\ UNCHANGED misheard => IInv'
<1> SUFFICES ASSUME IInv, Vendor, UNCHANGED misheard PROVE IInv'
  OBVIOUS
<1>0. stage # "start"
  BY DEF Vendor
<1> DEFINE asked == {i \in Rows : Target(i)}
<1>a. PICK sold \in [asked -> Answers \cup {"unbilled"}] :
        verdict' = [i \in Rows |-> IF i \in asked /\ sold[i] # "unbilled"
                                   THEN Settled(sold[i], "clearout") ELSE verdict[i]]
  BY DEF Vendor
<1>f. PICK f : f = [i \in Rows |-> IF i \in asked /\ sold[i] # "unbilled"
                                   THEN Settled(sold[i], "clearout") ELSE verdict[i]]
  OBVIOUS
<1>b. \A i \in asked : i \in Rows /\ Open(i) /\ Live(i)
  BY <1>0, OpenIsLive DEF IInv, Target
<1>2. ASSUME NEW i \in Rows, Live(i)
      PROVE  f[i] \in Verdicts /\ SoundRow(Canon(i), f[i], blind, misheard, origin[i])
  <2>0. /\ verdict[i] \in Verdicts
        /\ SoundRow(Canon(i), verdict[i], blind, misheard, origin[i])
    BY <1>0, <1>2, UnderWay
  <2>1. CASE i \in asked /\ sold[i] # "unbilled"
    <3>1. sold[i] \in Statuses \ {"duplicate"} /\ "clearout" \in Tiers \ {"cache"}
      BY <1>a, <2>1, EngineAssumption DEF Statuses, Tiers
    <3>2. TrueOf(Canon(i), sold[i], "clearout", blind, misheard)
      BY DEF TrueOf, Free
    <3>3. f[i] = Settled(sold[i], "clearout")
      BY <1>f, <2>1
    <3> QED
      BY <3>1, <3>2, <3>3, SettledType, SettledSound
  <2>2. CASE ~(i \in asked /\ sold[i] # "unbilled")
    BY <1>f, <2>0, <2>2
  <2> QED
    BY <2>1, <2>2
<1>3. ASSUME NEW i \in Rows, ~Live(i) PROVE f[i] = Bystander(i)
  BY <1>0, <1>3, <1>b, <1>f, UnderWay
<1>4. /\ UNCHANGED <<world, cache, misheard, origin, option, route, blind, runs>> /\ stage' = "report"
      /\ verdict' = [i \in Rows |-> f[i]]
  BY <1>a, <1>f DEF Vendor
<1> QED
  BY <1>0, <1>2, <1>3, <1>4, UnderWay, TierStep

-----------------------------------------------------------------------------
(* The end of a run, and the programs beside the engine: steps that change *)
(* the database and no verdict.                                            *)

\* What such a step has to show about the entries.
LEMMA FilingStep ==
  ASSUME IInv, UNCHANGED <<world, option, route, verdict, origin, blind>>,
         NEW M, misheard' = M, misheard \subseteq M,
         runs' \in 0 .. MaxRuns, stage' \in {"start", "dns"}, stage' = stage \/ stage # "start",
         NEW f, cache' = [a \in Addresses |-> f[a]],
         \A a \in Addresses : /\ f[a] \in [source : Sources, status : Statuses \ {"duplicate"}]
                              /\ SoundEntry(a, f[a].status, f[a].source, blind, M)
  PROVE  IInv'
<1>1. cache' \in [Addresses -> [source : Sources, status : Statuses \ {"duplicate"}]]
  OBVIOUS
<1>2. TypeOK'
  BY <1>1 DEF IInv, TypeOK, world
<1>3. World'
  BY DEF IInv, World, TakesMail, world
<1>4. EntriesSound'
  <2> SUFFICES ASSUME NEW a \in Addresses
               PROVE  SoundEntry(a, f[a].status, f[a].source, blind, M)'
    BY DEF EntriesSound
  <2>1. SoundEntry(a, f[a].status, f[a].source, blind, M)
    OBVIOUS
  <2> QED
    BY <2>1 DEF SoundEntry, TrueOf, world
<1>5. RowsSound'
  BY DEF IInv, RowsSound, SoundRow, SoundEntry, TrueOf, world
<1>6. Bystanders'
  BY DEF IInv, Bystanders
<1> QED
  BY <1>2, <1>3, <1>4, <1>5, <1>6 DEF IInv

\* An entry that stays as it was
LEMMA Kept ==
  ASSUME IInv, NEW a \in Addresses, NEW M, misheard \subseteq M
  PROVE  /\ cache[a] \in [source : Sources, status : Statuses \ {"duplicate"}]
         /\ SoundEntry(a, cache[a].status, cache[a].source, blind, M)
BY DEF IInv, TypeOK, EntriesSound, SoundEntry, TrueOf

LEMMA Entry ==
  ASSUME NEW source \in Sources, NEW status \in Statuses \ {"duplicate"}
  PROVE  /\ [source |-> source, status |-> status]
                \in [source : Sources, status : Statuses \ {"duplicate"}]
         /\ [source |-> source, status |-> status].source = source
         /\ [source |-> source, status |-> status].status = status
OBVIOUS

\* What a run settled itself can be filed.
LEMMA NewsSound ==
  ASSUME IInv, NEW i \in News
  PROVE  /\ verdict[i].tier \in Sources /\ verdict[i].status \in Statuses \ {"duplicate"}
         /\ SoundEntry(Canon(i), verdict[i].status, verdict[i].tier, blind, misheard)
<1>1. /\ i \in Rows /\ Live(i) /\ verdict[i].disposition = "siphoned"
      /\ verdict[i].tier # "cache"
  BY DEF News
<1>2. verdict[i] \in Verdicts /\ SoundRow(Canon(i), verdict[i], blind, misheard, origin[i])
  BY <1>1 DEF IInv, TypeOK, RowsSound
<1> QED
  BY <1>1, <1>2 DEF Verdicts, Sources, SoundRow, SoundEntry

LEMMA ReportStep == IInv /\ Report /\ UNCHANGED misheard => IInv'
<1> SUFFICES ASSUME IInv, Report, UNCHANGED misheard PROVE IInv'
  OBVIOUS
<1>f. PICK f : f = [a \in Addresses |->
       IF \E i \in News : Canon(i) = a
       THEN LET i == CHOOSE k \in News : Canon(k) = a
            IN  [source |-> verdict[i].tier, status |-> verdict[i].status]
       ELSE cache[a]]
  OBVIOUS
<1>1. ASSUME NEW a \in Addresses
      PROVE  /\ f[a] \in [source : Sources, status : Statuses \ {"duplicate"}]
             /\ SoundEntry(a, f[a].status, f[a].source, blind, misheard)
  <2>1. CASE \E i \in News : Canon(i) = a
    <3> DEFINE i == CHOOSE k \in News : Canon(k) = a
    <3>1. i \in News /\ Canon(i) = a
      BY <2>1
    <3>2. f[a] = [source |-> verdict[i].tier, status |-> verdict[i].status]
      BY <1>f, <2>1
    <3> HIDE DEF i
    <3> QED
      BY <3>1, <3>2, NewsSound, Entry
  <2>2. CASE ~ \E i \in News : Canon(i) = a
    BY <1>f, <2>2, Kept
  <2> QED
    BY <2>1, <2>2
<1>2. /\ UNCHANGED <<world, option, route, verdict, origin, blind, runs>>
      /\ misheard' = misheard /\ stage' = "start" /\ stage = "report"
      /\ cache' = [a \in Addresses |-> f[a]] /\ runs \in 0 .. MaxRuns
  BY <1>f DEF Report, IInv, TypeOK
<1> QED
  BY <1>1, <1>2, FilingStep

\* The programs beside the engine, but for the entries
LEMMA CommandKeeps ==
  ASSUME IInv, Command
  PROVE  /\ UNCHANGED <<world, option, route, verdict, origin, blind>>
         /\ stage' = "start" /\ stage = "start" /\ runs' \in 0 .. MaxRuns
<1>1. runs \in 0 .. MaxRuns /\ runs < MaxRuns /\ runs' = runs + 1
  BY DEF Command, IInv, TypeOK
<1>2. runs' \in 0 .. MaxRuns
  BY <1>1, EngineAssumption
<1> QED
  BY <1>2 DEF Command

\* The older pre-filter files nothing false about a domain that takes mail.
LEMMA PrefilteredSound ==
  ASSUME IInv, NEW a \in Addresses, NEW drop, NEW lost, Prefiltered(a, drop, lost) # "open"
  PROVE  /\ Prefiltered(a, drop, lost) \in Statuses \ {"duplicate"}
         /\ SoundEntry(a, Prefiltered(a, drop, lost), "prefilter", blind, misheard)
<1> DEFINE d == DomainOf[a]  dns == Resolved(d, lost)  result == Prefiltered(a, drop, lost)
<1>1. result \in {"disposable", "invalid", "role"}
  BY DEF Prefiltered
<1>2. ASSUME result = "invalid" PROVE a \notin mailbox
  <2>1. dns \in {"no_mail", "nxdomain"}
    BY <1>2 DEF Prefiltered
  <2>2. ~TakesMail(d)
    BY <2>1 DEF Resolved, TakesMail
  <2> QED
    BY <2>2 DEF IInv, World
<1> HIDE DEF result
<1>3. result \in Statuses \ {"duplicate"}
  BY <1>1 DEF Statuses
<1>4. SoundEntry(a, result, "prefilter", blind, misheard)
  BY <1>1, <1>2 DEF SoundEntry, TrueOf
<1> QED
  BY <1>3, <1>4 DEF result

LEMMA PrefilterStep == IInv /\ Prefilter => IInv'
<1> SUFFICES ASSUME IInv, Prefilter PROVE IInv'
  OBVIOUS
<1>a. PICK drop \in BOOLEAN, lost \in SUBSET Domains :
       cache' = [a \in Addresses |->
         IF Missed(a) /\ Prefiltered(a, drop, lost) # "open"
         THEN [source |-> "prefilter", status |-> Prefiltered(a, drop, lost)]
         ELSE cache[a]]
  BY DEF Prefilter
<1>f. PICK f : f = [a \in Addresses |->
         IF Missed(a) /\ Prefiltered(a, drop, lost) # "open"
         THEN [source |-> "prefilter", status |-> Prefiltered(a, drop, lost)]
         ELSE cache[a]]
  OBVIOUS
<1>1. ASSUME NEW a \in Addresses
      PROVE  /\ f[a] \in [source : Sources, status : Statuses \ {"duplicate"}]
             /\ SoundEntry(a, f[a].status, f[a].source, blind, misheard)
  <2>1. CASE Missed(a) /\ Prefiltered(a, drop, lost) # "open"
    <3>1. f[a] = [source |-> "prefilter", status |-> Prefiltered(a, drop, lost)]
      BY <1>f, <2>1
    <3>2. "prefilter" \in Sources
      BY DEF Sources
    <3> QED
      BY <2>1, <3>1, <3>2, PrefilteredSound, Entry
  <2>2. CASE ~(Missed(a) /\ Prefiltered(a, drop, lost) # "open")
    BY <1>f, <2>2, Kept
  <2> QED
    BY <2>1, <2>2
<1>2. misheard' = misheard /\ cache' = [a \in Addresses |-> f[a]] /\ Command
  BY <1>a, <1>f DEF Prefilter
<1> QED
  BY <1>1, <1>2, CommandKeeps, FilingStep

LEMMA AgreedType ==
  ASSUME NEW labels \in SUBSET Labels
  PROVE  Agreed(labels) \in Statuses \ {"duplicate"}
<1>1. CASE Cardinality(labels) = 1
  <2>1. labels # {}
    BY <1>1, FS_EmptySet
  <2> QED
    BY <1>1, <2>1, OfflineAssumption DEF Agreed
<1>2. CASE Cardinality(labels) # 1
  BY <1>2 DEF Agreed, Statuses
<1> QED
  BY <1>1, <1>2

LEMMA IngestStep == IInv /\ Ingest => IInv'
<1> SUFFICES ASSUME IInv, Ingest PROVE IInv'
  OBVIOUS
<1>a. PICK file \in [Addresses -> SUBSET Labels] :
       cache' = [a \in Addresses |->
         IF file[a] # {} THEN [source |-> "clearout", status |-> Agreed(file[a])]
         ELSE cache[a]]
  BY DEF Ingest
<1>f. PICK f : f = [a \in Addresses |->
         IF file[a] # {} THEN [source |-> "clearout", status |-> Agreed(file[a])]
         ELSE cache[a]]
  OBVIOUS
<1>1. ASSUME NEW a \in Addresses
      PROVE  /\ f[a] \in [source : Sources, status : Statuses \ {"duplicate"}]
             /\ SoundEntry(a, f[a].status, f[a].source, blind, misheard)
  <2>1. CASE file[a] # {}
    <3>1. f[a] = [source |-> "clearout", status |-> Agreed(file[a])]
      BY <1>f, <2>1
    <3>2. "clearout" \in Sources /\ Agreed(file[a]) \in Statuses \ {"duplicate"}
      BY AgreedType DEF Sources, Tiers
    <3>3. f[a].source = "clearout"
          /\ f[a] \in [source : Sources, status : Statuses \ {"duplicate"}]
      BY <3>1, <3>2, Entry
    <3> QED
      BY <3>3 DEF SoundEntry, TrueOf, Free
  <2>2. CASE file[a] = {}
    BY <1>f, <2>2, Kept
  <2> QED
    BY <2>1, <2>2
<1>2. misheard' = misheard /\ cache' = [a \in Addresses |-> f[a]] /\ Command
  BY <1>a, <1>f DEF Ingest
<1> QED
  BY <1>1, <1>2, CommandKeeps, FilingStep

LEMMA MergeStep == IInv /\ MergeSmtp => IInv'
<1> SUFFICES ASSUME IInv, MergeSmtp PROVE IInv'
  OBVIOUS
<1>a. PICK told \in [NeedsSmtp -> {"valid", "invalid", "unproven"}] :
       /\ cache' = [a \in Addresses |->
            IF a \in NeedsSmtp /\ told[a] # "unproven"
            THEN [source |-> "smtp", status |-> told[a]] ELSE cache[a]]
       /\ misheard' = misheard \cup
            {a \in NeedsSmtp : told[a] = IF a \in mailbox THEN "invalid" ELSE "valid"}
  BY DEF MergeSmtp
<1>f. PICK f : f = [a \in Addresses |->
            IF a \in NeedsSmtp /\ told[a] # "unproven"
            THEN [source |-> "smtp", status |-> told[a]] ELSE cache[a]]
  OBVIOUS
<1>M. PICK M : M = misheard \cup
            {a \in NeedsSmtp : told[a] = IF a \in mailbox THEN "invalid" ELSE "valid"}
  OBVIOUS
<1>1. ASSUME NEW a \in Addresses
      PROVE  /\ f[a] \in [source : Sources, status : Statuses \ {"duplicate"}]
             /\ SoundEntry(a, f[a].status, f[a].source, blind, M)
  <2>1. CASE a \in NeedsSmtp /\ told[a] # "unproven"
    <3>1. f[a] = [source |-> "smtp", status |-> told[a]]
      BY <1>f, <2>1
    <3>2. "smtp" \in Sources /\ told[a] \in {"valid", "invalid"}
      BY <2>1 DEF Sources, Tiers
    <3>3. told[a] \in Statuses \ {"duplicate"}
      BY <3>2 DEF Statuses
    <3>4. SoundEntry(a, told[a], "smtp", blind, M)
      BY <1>M, <2>1, <3>2 DEF SoundEntry, TrueOf
    <3> QED
      BY <3>1, <3>2, <3>3, <3>4, Entry
  <2>2. CASE ~(a \in NeedsSmtp /\ told[a] # "unproven")
    BY <1>f, <1>M, <2>2, Kept
  <2> QED
    BY <2>1, <2>2
<1>2. /\ misheard' = M /\ misheard \subseteq M /\ cache' = [a \in Addresses |-> f[a]]
      /\ Command
  BY <1>a, <1>f, <1>M DEF MergeSmtp
<1> QED
  BY <1>1, <1>2, CommandKeeps, FilingStep

-----------------------------------------------------------------------------
(* The invariant is inductive.                                             *)

LEMMA InitInv == OInit => IInv
<1> SUFFICES ASSUME OInit PROVE IInv
  OBVIOUS
<1>1. Fresh \in Verdicts /\ NoEntry.source = "" /\ NoEntry.status = "unknown"
  BY FreshType DEF NoEntry
<1>2. "" \in Sources /\ "unknown" \in Statuses \ {"duplicate"}
  BY DEF Sources, Tiers, Statuses
<1>3. NoEntry \in [source : Sources, status : Statuses \ {"duplicate"}]
  BY <1>2 DEF NoEntry
<1>4. 0 \in 0 .. MaxRuns
  BY EngineAssumption
<1>5. TypeOK
  BY <1>1, <1>2, <1>3, <1>4 DEF OInit, Init, TypeOK
<1>6. World
  BY DEF OInit, Init, World
<1>7. EntriesSound
  BY <1>1 DEF OInit, Init, EntriesSound, SoundEntry, TrueOf, Free
<1>8. RowsSound
  BY FreshSound DEF OInit, Init, RowsSound
<1>9. Bystanders
  BY DEF OInit, Init, Bystanders
<1> QED
  BY <1>5, <1>6, <1>7, <1>8, <1>9 DEF IInv

LEMMA StepInv == IInv /\ [ONext]_ovars => IInv'
<1> SUFFICES ASSUME IInv, [ONext]_ovars PROVE IInv'
  OBVIOUS
<1>1. CASE Start /\ UNCHANGED misheard
  BY <1>1, StartStep
<1>2. CASE Dns /\ UNCHANGED misheard
  BY <1>2, DnsStep
<1>3. CASE Microsoft /\ UNCHANGED misheard
  BY <1>3, MicrosoftStep
<1>4. CASE Smtp /\ UNCHANGED misheard
  BY <1>4, SmtpStep
<1>5. CASE Patterns /\ UNCHANGED misheard
  BY <1>5, PatternsStep
<1>6. CASE Vendor /\ UNCHANGED misheard
  BY <1>6, VendorStep
<1>7. CASE Report /\ UNCHANGED misheard
  BY <1>7, ReportStep
<1>8. CASE Prefilter
  BY <1>8, PrefilterStep
<1>9. CASE Ingest
  BY <1>9, IngestStep
<1>10. CASE MergeSmtp
  BY <1>10, MergeStep
<1>11. CASE UNCHANGED ovars
  <2>1. UNCHANGED <<world, stage, option, route, verdict, origin, cache, blind, runs, misheard>>
    BY <1>11 DEF ovars, vars
  <2>2. TypeOK' /\ World'
    BY <2>1 DEF IInv, TypeOK, World, TakesMail, world
  <2>3. EntriesSound' /\ RowsSound'
    BY <2>1 DEF IInv, EntriesSound, RowsSound, SoundRow, SoundEntry, TrueOf, world
  <2>4. Bystanders'
    BY <2>1 DEF IInv, Bystanders
  <2> QED
    BY <2>2, <2>3, <2>4 DEF IInv
<1> QED
  BY <1>1, <1>2, <1>3, <1>4, <1>5, <1>6, <1>7, <1>8, <1>9, <1>10, <1>11 DEF ONext, Next, Import

LEMMA Inductive == OSpec => []IInv
BY InitInv, StepInv, PTL DEF OSpec

-----------------------------------------------------------------------------
(* The theorems.                                                           *)

\* Every state of the engine and of the programs beside it is one of its types.
THEOREM TypeCorrect == OSpec => []TypeOK
<1>1. IInv => TypeOK
  BY DEF IInv
<1> QED
  BY <1>1, Inductive, PTL

\* Who a verdict comes from speaks the truth, or the error has a name.
LEMMA SourceSound ==
  ASSUME IInv, NEW i \in Rows, Live(i)
  PROVE  TrueOf(Canon(i), verdict[i].status, Source(i), blind, misheard)
BY DEF IInv, RowsSound, SoundRow, SoundEntry, Source

\* What the tiers that cost nothing conclude about an address is true, in the
\* run that concludes it and in every later one that the database answers, but
\* for the errors that have a name (engine.py run, cli.py cmd_run, cmd_ingest,
\* cmd_merge_smtp).
THEOREM VerdictsStayTrue == OSpec => []VerdictsAreTrue
<1>1. ASSUME IInv PROVE VerdictsAreTrue
  <2>1. ASSUME NEW i \in Rows, ~Live(i)
        PROVE  verdict[i].status # "valid" /\ (Parsed(i) => verdict[i].status # "invalid")
    <3>1. CASE verdict[i] = Fresh
      BY <3>1, FreshType
    <3>2. CASE verdict[i] = Bystander(i)
      BY <2>1, <3>2, BystanderType
    <3> QED
      BY <1>1, <2>1, <3>1, <3>2 DEF IInv, Bystanders
  <2>2. ASSUME NEW i \in WronglyValid PROVE Dom(i) \in blind \/ Canon(i) \in misheard
    <3>1. i \in Rows /\ verdict[i].status = "valid" /\ Source(i) \in Free /\ Canon(i) \notin mailbox
      BY DEF WronglyValid
    <3>2. Live(i)
      BY <2>1, <3>1
    <3> QED
      BY <1>1, <3>1, <3>2, SourceSound DEF TrueOf, Dom
  <2>3. ASSUME NEW i \in WronglyInvalid PROVE zone[Dom(i)] = "aaaa" \/ Canon(i) \in misheard
    <3>1. /\ i \in Rows /\ Parsed(i) /\ verdict[i].status = "invalid" /\ Source(i) \in Free
          /\ Canon(i) \in mailbox
      BY DEF WronglyInvalid
    <3>2. Live(i)
      BY <2>1, <3>1
    <3> QED
      BY <1>1, <3>1, <3>2, SourceSound DEF TrueOf, Dom
  <2> QED
    BY <2>2, <2>3 DEF VerdictsAreTrue
<1> QED
  BY <1>1, Inductive, PTL

\* An address that no tier could decide is settled only by the vendor, in its
\* run or through the database: an unknown or a catch-all of any other tier
\* stays billable (engine.py run, cache.py lookup).
THEOREM BillableStays == OSpec => []UndecidedStaysBillable
<1>1. ASSUME IInv PROVE UndecidedStaysBillable
  <2> SUFFICES ASSUME NEW i \in Rows, Parsed(i), verdict[i].disposition = "siphoned",
                      verdict[i].status \in {"unknown", "catch_all"}
               PROVE  Source(i) = "clearout"
    BY DEF UndecidedStaysBillable
  <2>1. CASE Live(i)
    BY <1>1, <2>1 DEF IInv, RowsSound, SoundRow, SoundEntry, Source
  <2>2. CASE ~Live(i)
    <3>1. verdict[i] # Fresh
      BY FreshType
    <3>2. verdict[i] = Bystander(i)
      BY <1>1, <2>2, <3>1 DEF IInv, Bystanders
    <3> QED
      BY <2>2, <3>2, BystanderType
  <2> QED
    BY <2>1, <2>2
<1> QED
  BY <1>1, Inductive, PTL

\* A set of positions has a last one.
LEMMA LastPosition ==
  ASSUME NEW n \in Nat, NEW U, U \subseteq 1 .. n, U # {}
  PROVE  \E i \in U : \A j \in U : i >= j
<1> DEFINE From == {i .. n : i \in U}
<1>1. From \subseteq FiniteSubsetsOf(1 .. n)
  <2> SUFFICES ASSUME NEW i \in U PROVE i .. n \in FiniteSubsetsOf(1 .. n)
    OBVIOUS
  <2>1. IsFiniteSet(i .. n) /\ i .. n \subseteq 1 .. n
    BY FS_Interval
  <2> QED
    BY <2>1 DEF FiniteSubsetsOf
<1>2. From # {}
  OBVIOUS
<1>3. IsWellFoundedOn(StrictSubsetOrdering(1 .. n), FiniteSubsetsOf(1 .. n))
  BY FS_StrictSubsetOrderingWellFounded
<1>4. PICK I \in From : \A J \in From : <<J, I>> \notin StrictSubsetOrdering(1 .. n)
  <2> HIDE DEF From
  <2> QED
    BY <1>1, <1>2, <1>3, WFMin, Zenon
<1>5. PICK i \in U : I = i .. n
  BY <1>4
<1>6. ASSUME NEW j \in U, j > i PROVE FALSE
  <2>1. i \in i .. n /\ i \notin j .. n
    BY <1>6
  <2>2. j .. n \subseteq i .. n /\ j .. n # i .. n /\ i .. n \subseteq 1 .. n
    BY <2>1, <1>6
  <2>3. <<j .. n, i .. n>> \in StrictSubsetOrdering(1 .. n)
    BY <2>2 DEF StrictSubsetOrdering
  <2> QED
    BY <1>4, <1>5, <2>3
<1> QED
  BY <1>6

\* Rows spelled alike carry one verdict in the enriched file, the engine's
\* verdict on the address when this is how it was first spelled: a duplicate
\* marker never replaces it (jobs.py _write_enriched).
THEOREM RowsCarry == OSpec => []RowsCarryTheVerdict
<1>1. ASSUME IInv PROVE RowsCarryTheVerdict
  <2> SUFFICES ASSUME NEW i \in Rows, Live(i) PROVE Enriched(List[i]) = verdict[i]
    BY DEF RowsCarryTheVerdict
  <2> DEFINE same == Spelled(List[i])
             real == {j \in same : verdict[j].status # "duplicate"}
  <2>1. /\ same \subseteq Rows /\ i \in same
        /\ \A j \in same : j \in Rows /\ Canon(j) = Canon(i) /\ Canon(j) \in Addresses
    BY LiveType DEF Spelled, Canon
  <2>2. i \in real
    BY <1>1, <2>1 DEF IInv, RowsSound, SoundRow
  <2>3. Enriched(List[i]) = verdict[Last(real)]
    BY <2>2 DEF Enriched
  <2>4. CASE verdict = [k \in Rows |-> Fresh]
    <3>1. PICK n \in Nat : Rows = 1 .. n
      BY EngineAssumption DEF Rows
    <3>2. real \subseteq 1 .. n /\ real # {}
      BY <2>1, <2>2, <3>1
    <3> HIDE DEF real
    <3>3. \E k \in real : \A j \in real : k >= j
      BY <3>2, LastPosition
    <3>4. Last(real) \in real
      BY <3>3 DEF Last
    <3> QED
      BY <2>3, <2>4, <3>1, <3>2, <3>4
  <2>5. CASE \A k \in Rows : ~Live(k) => verdict[k] = Bystander(k)
    <3>1. ASSUME NEW j \in real PROVE j = i
      <4>1. j \in Rows /\ Canon(j) = Canon(i) /\ Parsed(j) /\ verdict[j].status # "duplicate"
        BY <2>1 DEF Parsed
      <4>2. Live(j)
        BY <2>5, <4>1, BystanderType
      <4> QED
        BY <4>1, <4>2, OneLive
    <3>2. real = {i}
      BY <2>2, <3>1
    <3>3. i \in Nat
      BY EngineAssumption DEF Rows
    <3> HIDE DEF real
    <3>4. \E k \in real : \A j \in real : k >= j
      BY <3>2, <3>3
    <3>5. Last(real) \in real
      BY <3>4 DEF Last
    <3> QED
      BY <2>3, <3>2, <3>5
  <2> QED
    BY <1>1, <2>4, <2>5 DEF IInv, Bystanders
<1> QED
  BY <1>1, Inductive, PTL
=============================================================================
