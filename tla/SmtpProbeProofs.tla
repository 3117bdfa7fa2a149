-------------------------- MODULE SmtpProbeProofs --------------------------
(***************************************************************************)
(* Proofs about SmtpProbe: type correctness, that what a conversation      *)
(* calls proven is true, what the finder's words mean, and that the retry  *)
(* unsettles nothing - for any addresses, list, mailboxes and MX hosts,    *)
(* and for a server that may turn against the prober at any command.       *)
(***************************************************************************)
EXTENDS SmtpProbe, FiniteSetTheorems, TLAPS

-----------------------------------------------------------------------------
(* The first position of the list that is open.                            *)

\* A set of positions has a least one.
LEMMA LeastPosition ==
  ASSUME NEW n \in Nat, NEW U, U \subseteq 1 .. n, U # {}
  PROVE  \E i \in U : \A j \in U : i <= j
<1> DEFINE Upto == {1 .. i : i \in U}
<1>1. Upto \subseteq FiniteSubsetsOf(1 .. n)
  <2> SUFFICES ASSUME NEW i \in U PROVE 1 .. i \in FiniteSubsetsOf(1 .. n)
    OBVIOUS
  <2>1. IsFiniteSet(1 .. i)
    BY FS_Interval
  <2> QED
    BY <2>1 DEF FiniteSubsetsOf
<1>2. Upto # {}
  OBVIOUS
<1>3. IsWellFoundedOn(StrictSubsetOrdering(1 .. n), FiniteSubsetsOf(1 .. n))
  BY FS_StrictSubsetOrderingWellFounded
<1>4. PICK I \in Upto : \A J \in Upto : <<J, I>> \notin StrictSubsetOrdering(1 .. n)
  <2> HIDE DEF Upto
  <2> QED
    BY <1>1, <1>2, <1>3, WFMin, Zenon
<1>5. PICK i \in U : I = 1 .. i
  BY <1>4
<1>6. ASSUME NEW j \in U, j < i PROVE FALSE
  <2>1. i \in 1 .. i /\ i \notin 1 .. j
    BY <1>6
  <2>2. 1 .. j \subseteq 1 .. i /\ 1 .. j # 1 .. i
    BY <2>1, <1>6
  <2>3. 1 .. j \in SUBSET (1 .. n) /\ 1 .. i \in SUBSET (1 .. n)
    OBVIOUS
  <2>4. <<1 .. j, 1 .. i>> \in StrictSubsetOrdering(1 .. n)
    BY <2>2, <2>3 DEF StrictSubsetOrdering
  <2> QED
    BY <1>4, <1>5, <2>4
<1> QED
  BY <1>6

LEMMA Positions ==
  /\ DOMAIN List \subseteq Nat
  /\ \A i \in DOMAIN List : List[i] \in Addresses
  /\ Hosts \in Nat \ {0}
BY SmtpAssumption

\* Turn is an open position, and none before it is open.
LEMMA TurnIsFirst ==
  ASSUME asking \subseteq DOMAIN List, Unasked # {}
  PROVE  /\ Turn \in Unasked
         /\ \A j \in Unasked : Turn <= j
<1>1. Unasked \subseteq 1 .. Len(List) /\ Len(List) \in Nat
  BY SmtpAssumption DEF Unasked
<1>2. \E i \in Unasked : \A j \in Unasked : i <= j
  BY <1>1, LeastPosition
<1> QED
  BY <1>2 DEF Turn

-----------------------------------------------------------------------------
(* How a conversation ends.                                                *)

Unders == Replies \cup {"none", "nxdomain", "servfail"}
Results == [status : Statuses \cup {"none"}, under : Unders]
Undecisive == {"catch_all", "unknown", "blocked"}

LEMMA BlameType == \A r : Blame(r) \in {"unknown", "blocked"}
BY DEF Blame

\* Results of the domain replace those of addresses that were asked about.
LEMMA Given ==
  ASSUME TypeOK, NEW results, DOMAIN results \subseteq Addresses,
         \A a \in DOMAIN results : results[a] \in Results,
         Give(results)
  PROVE  /\ verdict' \in [Addresses -> Results]
         /\ stage' \in {"wait", "done"} /\ (stage' = "wait" => pass = 1 /\ client \in Scripts)
         /\ host' = host /\ outcome' = outcome
         /\ \A a \in Addresses :
              verdict'[a] # verdict[a] => a \in DOMAIN results /\ verdict'[a] = results[a]
<1>1. verdict \in [Addresses -> Results]
  BY DEF TypeOK, Results, Unders
<1>2. verdict' = Merged(results)
  BY DEF Give
<1>3. \A a \in Addresses : verdict'[a] \in {verdict[a]} \cup (IF a \in DOMAIN results THEN {results[a]} ELSE {})
  BY <1>2 DEF Merged
<1>4. verdict' \in [Addresses -> Results]
  <2>1. \A a \in Addresses : verdict'[a] \in Results
    BY <1>1, <1>3
  <2>2. verdict' = [a \in Addresses |-> verdict'[a]]
    BY <1>2 DEF Merged
  <2> QED
    BY <2>1, <2>2
<1>5. \A a \in Addresses :
        verdict'[a] # verdict[a] => a \in DOMAIN results /\ verdict'[a] = results[a]
  BY <1>3
<1>6. /\ stage' \in {"wait", "done"} /\ (stage' = "wait" => pass = 1 /\ client \in Scripts)
      /\ host' = host /\ outcome' = outcome
  BY DEF Give
<1> QED
  BY <1>4, <1>5, <1>6

LEMMA AskedAddresses == TypeOK => Asked \subseteq Addresses
BY Positions DEF TypeOK, Asked

\* A broken conversation goes on with the next host, or settles nothing.
LEMMA Abandoned ==
  ASSUME TypeOK, NEW status \in Undecisive, NEW under \in Unders, NEW again \in BOOLEAN,
         Abandon(status, under, again)
  PROVE  /\ verdict' \in [Addresses -> Results]
         /\ stage' \in {"connect", "wait", "done"}
         /\ stage' = "wait" => pass = 1 /\ client \in Scripts
         /\ host' \in 1 .. Hosts
         /\ outcome' = outcome \/ outcome' = status
         /\ stage' # "done" => outcome' = outcome
         /\ stage' = "connect" => again /\ verdict' = verdict
         /\ \A a \in Addresses : verdict'[a] # verdict[a] =>
              a \in Asked /\ verdict'[a] = [status |-> status, under |-> under]
<1>0. verdict \in [Addresses -> Results] /\ host \in 1 .. Hosts
  BY DEF TypeOK, Results, Unders
<1>1. CASE again /\ host < Attempts /\ host < Hosts
  <2>1. host' = host + 1 /\ stage' = "connect" /\ verdict' = verdict /\ outcome' = outcome
    BY <1>1 DEF Abandon
  <2> QED
    BY <1>0, <1>1, <2>1, Positions
<1>2. CASE ~ (again /\ host < Attempts /\ host < Hosts) /\ client = "find"
  <2>1. outcome' = status /\ stage' = "done" /\ verdict' = verdict /\ host' = host
    BY <1>2 DEF Abandon
  <2> QED
    BY <1>0, <2>1
<1>3. CASE ~ (again /\ host < Attempts /\ host < Hosts) /\ client # "find"
  <2>1. Give(AllAs(status, under))
    BY <1>3 DEF Abandon
  <2>2. DOMAIN AllAs(status, under) = Asked
    BY DEF AllAs
  <2>3. \A a \in Asked : AllAs(status, under)[a] = [status |-> status, under |-> under]
    BY DEF AllAs
  <2>4. [status |-> status, under |-> under] \in Results
    BY DEF Results, Undecisive, Statuses
  <2>5. \A a \in DOMAIN AllAs(status, under) : AllAs(status, under)[a] \in Results
    BY <2>2, <2>3, <2>4
  <2>6. /\ verdict' \in [Addresses -> Results]
        /\ stage' \in {"wait", "done"} /\ (stage' = "wait" => pass = 1 /\ client \in Scripts)
        /\ host' = host /\ outcome' = outcome
        /\ \A a \in Addresses : verdict'[a] # verdict[a] =>
             a \in DOMAIN AllAs(status, under) /\ verdict'[a] = AllAs(status, under)[a]
    BY <2>1, <2>2, <2>5, Given, AskedAddresses
  <2> QED
    BY <1>0, <2>2, <2>3, <2>6
<1> QED
  BY <1>1, <1>2, <1>3

-----------------------------------------------------------------------------
(* Types.                                                                  *)

Outcomes == {"none", "found", "exhausted", "catch_all", "unknown", "blocked"}
Stopped == {"connect", "wait", "done"}

\* What an action leaves in the variables that the conversation may end with.
Ended ==
  /\ verdict' \in [Addresses -> Results]
  /\ stage' \in Stages
  /\ host' \in 1 .. Hosts
  /\ outcome' \in Outcomes

LEMMA RepliesType ==
  /\ Courtesy \subseteq Replies
  /\ AboutFake \subseteq Replies
  /\ \A a : About(a) \subseteq Replies
BY DEF Courtesy, AboutFake, About, Disturbance, Replies

LEMMA GoOnType == GoOn \in BOOLEAN
BY DEF GoOn

LEMMA AbandonEnds ==
  ASSUME TypeOK, NEW status \in Undecisive, NEW under \in Unders, NEW again \in BOOLEAN,
         Abandon(status, under, again)
  PROVE  Ended
<1>1. outcome \in Outcomes
  BY DEF TypeOK, Outcomes
<1> QED
  BY <1>1, Abandoned DEF Ended, Outcomes, Stages, Undecisive

LEMMA GiveEnds ==
  ASSUME TypeOK, NEW results, DOMAIN results \subseteq Addresses,
         \A a \in DOMAIN results : results[a] \in Results,
         Give(results)
  PROVE  Ended
<1>1. outcome \in Outcomes /\ host \in 1 .. Hosts
  BY DEF TypeOK, Outcomes
<1> QED
  BY <1>1, Given DEF Ended, Stages

\* The same result for all that were asked about.
LEMMA AllAsType ==
  ASSUME TypeOK, NEW status \in Statuses, NEW under \in Unders
  PROVE  /\ DOMAIN AllAs(status, under) = Asked
         /\ DOMAIN AllAs(status, under) \subseteq Addresses
         /\ \A a \in Asked : AllAs(status, under)[a] = [status |-> status, under |-> under]
         /\ \A a \in Asked : AllAs(status, under)[a] \in Results
BY AskedAddresses DEF AllAs, Results

\* The results of a conversation that came to its end.
Final(a) == [status |-> IF client = "calib" THEN Calibrated(said[a]) ELSE Judge(said[a]),
             under |-> control]

LEMMA JudgeType ==
  \A r : /\ Judge(r) \in {"valid", "invalid", "blocked", "unknown"}
        /\ Calibrated(r) \in {"valid", "invalid", "blocked", "unknown"}
<1> SUFFICES ASSUME NEW r
             PROVE  /\ Judge(r) \in {"valid", "invalid", "blocked", "unknown"}
                    /\ Calibrated(r) \in {"valid", "invalid", "blocked", "unknown"}
  OBVIOUS
<1>1. Judge(r) \in {"valid", "invalid", "blocked", "unknown"}
  BY DEF Judge
<1>2. Calibrated(r) \in {"valid", "invalid", "blocked", "unknown"}
  BY DEF Calibrated
<1> QED
  BY <1>1, <1>2

LEMMA FinalType == TypeOK => \A a \in Addresses : Final(a) \in Results
BY JudgeType DEF TypeOK, Final, Results, Statuses, Unders

\* The answer about the made-up address: on with the conversation, or no more.
LEMMA ControlReply ==
  ASSUME Control
  PROVE  \E r \in AboutFake :
           /\ control' = r
           /\ \/ /\ r = "ok" /\ client = "calib" /\ stage' = "postmaster"
                 /\ UNCHANGED <<host, verdict, outcome>>
              \/ /\ Baseline(r) /\ r # "ok"
                 /\ stage' = IF client = "calib" THEN "postmaster" ELSE "rcpt"
                 /\ UNCHANGED <<host, verdict, outcome>>
              \/ \E s \in Undecisive, again \in BOOLEAN : Abandon(s, r, again)
<1>1. PICK r \in AboutFake :
        /\ control' = r
        /\ CASE r = "ok" /\ client # "calib" -> Abandon("catch_all", r, FALSE)
             [] r = "ok" /\ client = "calib" ->
                  stage' = "postmaster" /\ UNCHANGED <<host, verdict, outcome>>
             [] Baseline(r) ->
                  /\ stage' = IF client = "calib" THEN "postmaster" ELSE "rcpt"
                  /\ UNCHANGED <<host, verdict, outcome>>
             [] r \in {"temp", "odd"} /\ ~Baseline(r) -> Abandon("unknown", r, FALSE)
             [] OTHER -> Abandon(Blame(r), r, GoOn)
  BY DEF Control
<1>2. Baseline(r) \in BOOLEAN /\ (r = "ok" => ~ Baseline(r))
  BY DEF Baseline
<1>3. \/ /\ r = "ok" /\ client = "calib" /\ stage' = "postmaster"
         /\ UNCHANGED <<host, verdict, outcome>>
      \/ /\ Baseline(r) /\ r # "ok"
         /\ stage' = IF client = "calib" THEN "postmaster" ELSE "rcpt"
         /\ UNCHANGED <<host, verdict, outcome>>
      \/ Abandon("catch_all", r, FALSE) \/ Abandon("unknown", r, FALSE)
      \/ Abandon(Blame(r), r, GoOn)
  BY <1>1, <1>2
<1>4. Abandon("catch_all", r, FALSE) \/ Abandon("unknown", r, FALSE)
      \/ Abandon(Blame(r), r, GoOn) =>
        \E s \in Undecisive, again \in BOOLEAN : Abandon(s, r, again)
  BY BlameType, GoOnType DEF Undecisive
<1> QED
  BY <1>1, <1>3, <1>4

\* The answer about postmaster decides nothing.
LEMMA PostmasterReply ==
  ASSUME Postmaster
  PROVE  \/ stage' = "rcpt" /\ control # "ok" /\ UNCHANGED <<host, verdict, outcome>>
         \/ \E s \in Undecisive, again \in BOOLEAN : Abandon(s, control, again)
<1>1. PICK r \in Courtesy \cup {"nouser"} :
        CASE r \in Dead -> Abandon(Blame(r), control, GoOn)
          [] r \notin Dead /\ control = "ok" -> Abandon("catch_all", control, FALSE)
          [] OTHER -> stage' = "rcpt" /\ UNCHANGED <<host, verdict, outcome>>
  BY DEF Postmaster
<1>2. CASE r \in Dead
  BY <1>1, <1>2, BlameType, GoOnType DEF Undecisive
<1>3. CASE r \notin Dead /\ control = "ok"
  BY <1>1, <1>3, BlameType, GoOnType DEF Undecisive
<1>4. CASE r \notin Dead /\ control # "ok"
  BY <1>1, <1>4
<1> QED
  BY <1>2, <1>3, <1>4

LEMMA SilenceType == Silence \in [Addresses -> Replies \cup {"none"}]
BY DEF Silence

LEMMA TypeStep == TypeOK /\ [Next]_vars => TypeOK'
<1> SUFFICES ASSUME TypeOK, [Next]_vars PROVE TypeOK'
  OBVIOUS
<1>0. /\ client \in Clients /\ domain \in BOOLEAN /\ exists \subseteq Addresses
      /\ takesAll \subseteq 1 .. Hosts
      /\ pass \in {1, 2} /\ asking \subseteq DOMAIN List
      /\ said \in [Addresses -> Replies \cup {"none"}]
      /\ control \in Unders
      /\ verdict \in [Addresses -> Results]
      /\ stage \in Stages /\ host \in 1 .. Hosts /\ outcome \in Outcomes
  BY DEF TypeOK, Results, Unders, Outcomes
<1>e. Ended /\ Quiet /\ said' \in [Addresses -> Replies \cup {"none"}] /\ control' \in Unders
        => TypeOK'
  BY <1>0 DEF Ended, Quiet, truth, TypeOK, Results, Unders, Outcomes
<1>s. ASSUME NEW s \in Stages, stage' = s, UNCHANGED <<host, verdict, outcome>> PROVE Ended
  BY <1>0, <1>s DEF Ended
<1>1. CASE Resolve
  <2>1. Ended
    <3>1. CASE domain /\ stage' = "connect" /\ UNCHANGED <<host, verdict, outcome>>
      BY <1>s, <3>1 DEF Stages
    <3>2. ASSUME NEW s \in Statuses, NEW u \in Unders, Give(AllAs(s, u)) PROVE Ended
      BY <3>2, AllAsType, GiveEnds
    <3> QED
      BY <1>1, <3>1, <3>2 DEF Resolve, Statuses, Unders, Replies
  <2> QED
    BY <1>0, <1>1, <1>e, <2>1 DEF Resolve
<1>2. CASE Connect
  <2>1. PICK r \in Courtesy :
          IF r = "ok"
          THEN stage' = "ehlo" /\ UNCHANGED <<host, verdict, outcome>>
          ELSE Abandon(Blame(r), "none", GoOn)
    BY <1>2 DEF Connect
  <2>2. Ended
    BY <1>s, <2>1, AbandonEnds, BlameType, GoOnType DEF Stages, Undecisive, Unders
  <2> QED
    BY <1>2, <1>e, <2>2, SilenceType DEF Connect, Unders
<1>3. CASE Hello
  <2>1. PICK r \in Courtesy :
          IF r = "ok"
          THEN stage' = "mail" /\ UNCHANGED <<host, verdict, outcome>>
          ELSE IF stage = "ehlo" /\ r \notin Dead
          THEN stage' = "helo" /\ UNCHANGED <<host, verdict, outcome>>
          ELSE Abandon(Blame(r), "none", GoOn)
    BY <1>3 DEF Hello
  <2>2. Ended
    BY <1>s, <2>1, AbandonEnds, BlameType, GoOnType DEF Stages, Undecisive, Unders
  <2> QED
    BY <1>0, <1>3, <1>e, <2>2 DEF Hello
<1>4. CASE MailFrom
  <2>1. PICK r \in Courtesy :
          IF r = "ok"
          THEN stage' = "control" /\ UNCHANGED <<host, verdict, outcome>>
          ELSE Abandon(Blame(r), "none", GoOn)
    BY <1>4 DEF MailFrom
  <2>2. Ended
    BY <1>s, <2>1, AbandonEnds, BlameType, GoOnType DEF Stages, Undecisive, Unders
  <2> QED
    BY <1>0, <1>4, <1>e, <2>2 DEF MailFrom
<1>5. CASE Control
  <2>1. PICK r \in AboutFake :
          /\ control' = r
          /\ \/ stage' \in {"postmaster", "rcpt"} /\ UNCHANGED <<host, verdict, outcome>>
             \/ \E s \in Undecisive, again \in BOOLEAN : Abandon(s, r, again)
    BY <1>5, ControlReply
  <2>2. r \in Unders
    BY RepliesType DEF Unders
  <2>3. Ended
    BY <1>s, <2>1, <2>2, AbandonEnds DEF Stages
  <2> QED
    BY <1>0, <1>5, <1>e, <2>1, <2>2, <2>3 DEF Control
<1>6. CASE Postmaster
  <2>1. Ended
    BY <1>0, <1>6, <1>s, PostmasterReply, AbandonEnds DEF Stages
  <2> QED
    BY <1>0, <1>6, <1>e, <2>1 DEF Postmaster
<1>7. CASE Ask
  <2>1. PICK r \in About(List[Turn]) :
          IF r \in Dead
          THEN Abandon(Blame(r), control, GoOn) /\ UNCHANGED said
          ELSE /\ said' = [said EXCEPT ![List[Turn]] = r]
               /\ IF client = "find" /\ r = "ok"
                  THEN outcome' = "found" /\ stage' = "done"
                  ELSE UNCHANGED <<outcome, stage>>
               /\ UNCHANGED <<verdict, host>>
    BY <1>7 DEF Ask
  <2>2. r \in Replies
    BY RepliesType
  <2>3. Ended
    BY <1>0, <2>1, AbandonEnds, BlameType, GoOnType DEF Ended, Stages, Outcomes, Undecisive
  <2>4. said' \in [Addresses -> Replies \cup {"none"}]
    BY <1>0, <2>1, <2>2
  <2> QED
    BY <1>0, <1>7, <1>e, <2>3, <2>4 DEF Ask
<1>8. CASE Quit
  <2>1. Ended
    <3>1. CASE client = "find"
      BY <1>0, <1>8, <3>1 DEF Quit, Ended, Stages, Outcomes
    <3>2. CASE client # "find"
      <4>1. Give([a \in Asked |-> Final(a)])
        BY <1>8, <3>2 DEF Quit, Final
      <4> QED
        BY <4>1, FinalType, AskedAddresses, GiveEnds
    <3> QED
      BY <3>1, <3>2
  <2> QED
    BY <1>0, <1>8, <1>e, <2>1 DEF Quit
<1>9. CASE Again
  BY <1>0, <1>9, Positions DEF Again, TypeOK, truth, Results, Unders, Outcomes, Stages
<1>10. CASE UNCHANGED vars
  BY <1>10 DEF vars, truth, TypeOK
<1> QED
  BY <1>1, <1>2, <1>3, <1>4, <1>5, <1>6, <1>7, <1>8, <1>9, <1>10 DEF Next, Over

LEMMA TypeInit == Init => TypeOK
<1> SUFFICES ASSUME Init PROVE TypeOK
  OBVIOUS
<1>1. exists \subseteq Addresses
  BY DEF Init
<1>2. verdict \in [Addresses -> [status : Statuses \cup {"none"},
                                under : Replies \cup {"none", "nxdomain", "servfail"}]]
  BY DEF Init, NoVerdict
<1> QED
  BY <1>1, <1>2, Positions, SilenceType DEF Init, TypeOK, Stages

\* The state stays in its types.
THEOREM TypeCorrect == Spec => []TypeOK
<1> QED
  BY TypeInit, TypeStep, PTL DEF Spec

-----------------------------------------------------------------------------
(* What a step may write into a verdict.                                   *)

\* Nothing decided; a missing domain; a name server that fails; or what a
\* conversation that came to its end says.
Written(a) ==
  \/ verdict'[a].status \in Undecisive
  \/ verdict'[a].status = "invalid" /\ verdict'[a].under = "servfail"
  \/ verdict'[a].status = "invalid" /\ ~ domain
  \/ stage = "rcpt" /\ said[a] # "none" /\ verdict'[a] = Final(a)

Settled(a) == a \in Asked /\ stage \notin {"wait", "done"} /\ stage' \in {"wait", "done"}

LEMMA AbandonWrites ==
  ASSUME TypeOK, NEW status \in Undecisive, NEW under \in Unders, NEW again \in BOOLEAN,
         Abandon(status, under, again), stage \notin {"wait", "done"},
         NEW a \in Addresses, verdict'[a] # verdict[a]
  PROVE  Written(a) /\ Settled(a)
<1>1. /\ a \in Asked /\ verdict'[a] = [status |-> status, under |-> under]
      /\ stage' \in {"connect", "wait", "done"}
      /\ stage' = "connect" => verdict' = verdict
  BY Abandoned
<1> QED
  BY <1>1 DEF Written, Settled

LEMMA Changes ==
  ASSUME TypeOK, [Next]_vars, NEW a \in Addresses, verdict'[a] # verdict[a]
  PROVE  Written(a) /\ Settled(a)
<1>0. control \in Unders /\ "none" \in Unders
  BY DEF TypeOK, Unders
<1>1. CASE Resolve
  <2>1. ASSUME NEW s \in Statuses, NEW u \in Unders, Give(AllAs(s, u))
        PROVE  verdict'[a] = [status |-> s, under |-> u] /\ Settled(a)
    <3>1. /\ DOMAIN AllAs(s, u) \subseteq Addresses
          /\ \A b \in DOMAIN AllAs(s, u) : AllAs(s, u)[b] \in Results
          /\ DOMAIN AllAs(s, u) = Asked
          /\ \A b \in Asked : AllAs(s, u)[b] = [status |-> s, under |-> u]
      BY AllAsType
    <3>2. /\ a \in DOMAIN AllAs(s, u) /\ verdict'[a] = AllAs(s, u)[a]
          /\ stage' \in {"wait", "done"}
      BY <2>1, <3>1, Given
    <3> QED
      BY <1>1, <3>1, <3>2 DEF Settled, Resolve
  <2>2. CASE UNCHANGED <<host, verdict, outcome>>
    BY <2>2
  <2>3. CASE ~ domain /\ Give(AllAs("invalid", "nxdomain"))
    <3>1. verdict'[a] = [status |-> "invalid", under |-> "nxdomain"] /\ Settled(a)
      BY <2>1, <2>3 DEF Statuses, Unders
    <3> QED
      BY <2>3, <3>1 DEF Written
  <2>4. CASE Give(AllAs("unknown", "late"))
    BY <2>1, <2>4 DEF Written, Statuses, Unders, Replies, Undecisive
  <2>5. CASE Give(AllAs(IF client \in Scripts THEN "invalid" ELSE "unknown", "servfail"))
    <3>1. PICK s \in {"invalid", "unknown"} : Give(AllAs(s, "servfail"))
      BY <2>5
    <3>2. verdict'[a] = [status |-> s, under |-> "servfail"] /\ Settled(a)
      BY <2>1, <3>1 DEF Statuses, Unders
    <3> QED
      BY <3>1, <3>2 DEF Written, Undecisive
  <2> QED
    BY <1>1, <2>2, <2>3, <2>4, <2>5 DEF Resolve
<1>2. CASE Connect \/ Hello \/ MailFrom
  <2>1. \E r \in Courtesy :
          UNCHANGED <<host, verdict, outcome>> \/ Abandon(Blame(r), "none", GoOn)
    BY <1>2 DEF Connect, Hello, MailFrom
  <2>2. stage \notin {"wait", "done"}
    BY <1>2 DEF Connect, Hello, MailFrom
  <2> QED
    BY <1>0, <2>1, <2>2, AbandonWrites, BlameType, GoOnType DEF Undecisive
<1>3. CASE Control
  <2>1. PICK r \in AboutFake : \E s \in Undecisive, again \in BOOLEAN : Abandon(s, r, again)
    BY <1>3, ControlReply
  <2>2. r \in Unders /\ stage \notin {"wait", "done"}
    BY <1>3, RepliesType DEF Unders, Control
  <2> QED
    BY <2>1, <2>2, AbandonWrites
<1>4. CASE Postmaster
  <2>1. stage \notin {"wait", "done"}
    BY <1>4 DEF Postmaster
  <2> QED
    BY <1>0, <1>4, <2>1, PostmasterReply, AbandonWrites
<1>5. CASE Ask
  <2>1. \E r \in About(List[Turn]) : Abandon(Blame(r), control, GoOn) \/ verdict' = verdict
    BY <1>5 DEF Ask
  <2>2. stage \notin {"wait", "done"}
    BY <1>5 DEF Ask
  <2> QED
    BY <1>0, <2>1, <2>2, AbandonWrites, BlameType, GoOnType DEF Undecisive
<1>6. CASE Quit
  <2>1. stage = "rcpt" /\ Unasked = {} /\ Give([b \in Asked |-> Final(b)])
    BY <1>6 DEF Quit, Final
  <2>2. a \in Asked /\ verdict'[a] = Final(a) /\ stage' \in {"wait", "done"}
    BY <2>1, FinalType, AskedAddresses, Given
  <2>3. said[a] # "none"
    BY <2>1, <2>2 DEF Asked, Unasked
  <2> QED
    BY <2>1, <2>2, <2>3 DEF Written, Settled
<1>7. CASE Again \/ UNCHANGED vars
  BY <1>7 DEF Again, vars
<1> QED
  BY <1>1, <1>2, <1>3, <1>4, <1>5, <1>6, <1>7 DEF Next, Over

-----------------------------------------------------------------------------
(* The two passes.                                                         *)

\* The first pass writes into a clean sheet, the retry over what is undecided.
Passes ==
  /\ stage = "wait" => pass = 1
  /\ stage \notin {"wait", "done"} =>
       \A a \in Asked : verdict[a].status = IF pass = 1 THEN "none" ELSE "unknown"

\* A waiting client does nothing but ask again, and a finished one nothing.
LEMMA Resting ==
  ASSUME [Next]_vars
  PROVE  /\ stage = "wait" => Again \/ UNCHANGED vars
         /\ stage = "done" => UNCHANGED vars
         /\ ~ Again => UNCHANGED <<client, truth, pass, asking>>
BY DEF Next, Resolve, Connect, Hello, MailFrom, Control, Postmaster, Ask, Quit, Again, Over,
       Quiet, vars

LEMMA Fixed == [Next]_vars => UNCHANGED <<client, truth>>
BY Resting DEF Again

\* A client waits only in its first pass.
LEMMA WaitsOnce == TypeOK /\ [Next]_vars /\ stage' = "wait" => stage = "wait" \/ pass = 1
<1> SUFFICES ASSUME TypeOK, [Next]_vars, stage' = "wait", stage # "wait" PROVE pass = 1
  OBVIOUS
<1>0. control \in Unders /\ "none" \in Unders
  BY DEF TypeOK, Unders
<1>a. ASSUME NEW s \in Undecisive, NEW u \in Unders, NEW again \in BOOLEAN, Abandon(s, u, again)
      PROVE  pass = 1
  BY <1>a, Abandoned
<1>g. ASSUME NEW results, Give(results) PROVE pass = 1
  BY <1>g DEF Give
<1>1. CASE Resolve \/ Quit
  BY <1>1, <1>g DEF Resolve, Quit
<1>2. CASE Connect \/ Hello \/ MailFrom
  <2>1. \E r \in Courtesy : Abandon(Blame(r), "none", GoOn)
    BY <1>2 DEF Connect, Hello, MailFrom
  <2> QED
    BY <1>0, <1>a, <2>1, BlameType, GoOnType DEF Undecisive
<1>3. CASE Control
  <2>1. PICK r \in AboutFake : \E s \in Undecisive, again \in BOOLEAN : Abandon(s, r, again)
    BY <1>3, ControlReply
  <2> QED
    BY <1>a, <2>1, RepliesType DEF Unders
<1>4. CASE Postmaster
  BY <1>0, <1>4, <1>a, PostmasterReply
<1>5. CASE Ask
  <2>1. \E r : Abandon(Blame(r), control, GoOn)
    BY <1>5 DEF Ask
  <2> QED
    BY <1>0, <1>a, <2>1, BlameType, GoOnType DEF Undecisive
<1>6. CASE Again \/ UNCHANGED vars
  BY <1>6 DEF Again, vars
<1> QED
  BY <1>1, <1>2, <1>3, <1>4, <1>5, <1>6 DEF Next, Over

LEMMA PassesStep == TypeOK /\ Passes /\ [Next]_vars => Passes'
<1> SUFFICES ASSUME TypeOK, Passes, [Next]_vars PROVE Passes'
  OBVIOUS
<1>0. Asked \subseteq Addresses
  BY AskedAddresses
<1>1. CASE Again
  BY <1>1 DEF Again, Passes, Asked
<1>2. CASE ~ Again
  <2>1. pass' = pass /\ Asked' = Asked
    BY <1>2, Resting DEF Asked
  <2>2. stage' = "wait" => pass = 1
    BY WaitsOnce DEF Passes
  <2>3. ASSUME stage' \notin {"wait", "done"}, NEW a \in Asked
        PROVE  verdict'[a].status = IF pass = 1 THEN "none" ELSE "unknown"
    <3>1. stage \notin {"wait", "done"}
      BY <1>2, <2>3, Resting DEF vars
    <3>2. verdict'[a] = verdict[a]
      BY <1>0, <2>3, Changes DEF Settled
    <3> QED
      BY <3>1, <3>2 DEF Passes
  <2> QED
    BY <2>1, <2>2, <2>3 DEF Passes
<1> QED
  BY <1>1, <1>2

LEMMA PassesInit == Init => Passes
<1> SUFFICES ASSUME Init PROVE Passes
  OBVIOUS
<1>1. \A a \in Asked : a \in Addresses
  BY Positions DEF Init, Asked
<1> QED
  BY <1>1 DEF Init, Passes, NoVerdict

\* The retry settles what was open and unsettles nothing (smtp_tier.py:276).
THEOREM RetrySettlesOnly == Spec => RetryOnlySettles
<1>1. TypeOK /\ Passes /\ [Next]_vars =>
        [\A a \in Addresses :
           verdict[a].status \notin {"none", "unknown"} => verdict'[a] = verdict[a]]_vars
  BY Changes DEF Settled, Passes
<1> QED
  BY <1>1, TypeInit, TypeStep, PassesInit, PassesStep, PTL DEF Spec, RetryOnlySettles

-----------------------------------------------------------------------------
(* What a conversation has heard.                                          *)

Opening == {"ehlo", "helo", "mail", "control", "postmaster"}

\* A client asks about addresses only when the made-up one was refused, for its
\* name or, as the scripts see it, for something else; the host that refused the
\* name does not take everything, and it is the host that is still asked.
Baselined ==
  /\ stage = "postmaster" =>
       client = "calib" /\ control \in {"ok", "nouser", "odd", "policy", "callout"}
  /\ stage = "rcpt" =>
       \/ control = "nouser"
       \/ control = "odd" /\ client \in Scripts
       \/ control \in {"policy", "callout"} /\ client = "calib"
  /\ stage \in {"postmaster", "rcpt"} /\ control = "nouser" => host \notin takesAll

\* Nothing is carried over from an earlier host, and what was heard since is
\* what this host says of its mailboxes.
Heard ==
  /\ stage \in Opening => said = Silence
  /\ stage = "rcpt" => \A a \in Addresses : said[a] \in {"none"} \cup (About(a) \ Dead)

Trusted == (~ domain => exists = {}) /\ Baselined /\ Heard

\* A conversation that is broken off is not at its questions.
LEMMA Off ==
  ASSUME TypeOK, NEW status \in Undecisive, NEW under \in Unders, NEW again \in BOOLEAN,
         Abandon(status, under, again)
  PROVE  stage' \in Stopped
BY Abandoned DEF Stopped

LEMMA TrustedStep == TypeOK /\ Trusted /\ [Next]_vars => Trusted'
<1> SUFFICES ASSUME TypeOK, Trusted, [Next]_vars PROVE Trusted'
  OBVIOUS
<1>0. /\ control \in Unders /\ "none" \in Unders
      /\ truth' = truth /\ client' = client
  BY Fixed DEF TypeOK, Unders
<1>t. (~ domain => exists = {})'
  BY <1>0 DEF Trusted, truth
<1>f. stage' \in Stopped \cup {"dns"} => Trusted'
  BY <1>t DEF Trusted, Baselined, Heard, Opening, Stopped
<1>1. CASE Resolve \/ Quit
  BY <1>1, <1>f DEF Resolve, Quit, Give, Stopped
<1>2. CASE Connect \/ Hello \/ MailFrom
  <2>1. \/ stage' \in {"ehlo", "helo", "mail", "control"}
        \/ \E r \in Courtesy : Abandon(Blame(r), "none", GoOn)
    BY <1>2 DEF Connect, Hello, MailFrom
  <2>2. CASE stage' \in {"ehlo", "helo", "mail", "control"}
    <3>1. said' = Silence
      BY <1>2 DEF Connect, Hello, MailFrom, Trusted, Heard, Opening
    <3> QED
      BY <1>t, <2>2, <3>1 DEF Trusted, Baselined, Heard, Silence
  <2>3. CASE \E r \in Courtesy : Abandon(Blame(r), "none", GoOn)
    BY <1>0, <1>f, <2>3, Off, BlameType, GoOnType DEF Undecisive
  <2> QED
    BY <2>1, <2>2, <2>3
<1>3. CASE Control
  <2>1. PICK r \in AboutFake :
          /\ control' = r
          /\ \/ /\ r = "ok" /\ client = "calib" /\ stage' = "postmaster"
                /\ UNCHANGED <<host, verdict, outcome>>
             \/ /\ Baseline(r) /\ r # "ok"
                /\ stage' = IF client = "calib" THEN "postmaster" ELSE "rcpt"
                /\ UNCHANGED <<host, verdict, outcome>>
             \/ \E s \in Undecisive, again \in BOOLEAN : Abandon(s, r, again)
    BY <1>3, ControlReply
  <2>2. said' = said /\ said = Silence
    BY <1>3 DEF Control, Trusted, Heard, Opening
  <2>3. CASE r = "ok" /\ client = "calib" /\ stage' = "postmaster"
    BY <1>0, <1>t, <2>1, <2>2, <2>3 DEF Trusted, Baselined, Heard, Opening, Silence
  <2>4. CASE Baseline(r) /\ (stage' = IF client = "calib" THEN "postmaster" ELSE "rcpt")
             /\ UNCHANGED <<host, verdict, outcome>>
    <3>1. r = "nouser" => host \notin takesAll
      BY DEF AboutFake, Disturbance
    <3>2. r \in {"nouser", "odd", "policy", "callout"}
      BY <2>4 DEF Baseline
    <3>3. Baselined'
      BY <1>0, <2>1, <2>4, <3>1, <3>2 DEF Baselined, Baseline, Scripts, truth
    <3>4. Heard'
      BY <2>2, <2>4 DEF Heard, Silence
    <3> QED
      BY <1>t, <3>3, <3>4 DEF Trusted
  <2>5. CASE \E s \in Undecisive, again \in BOOLEAN : Abandon(s, r, again)
    BY <1>f, <2>5, Off, RepliesType DEF Unders
  <2> QED
    BY <2>1, <2>3, <2>4, <2>5
<1>4. CASE Postmaster
  <2>1. CASE stage' = "rcpt" /\ control # "ok" /\ UNCHANGED <<host, verdict, outcome>>
    <3>1. stage = "postmaster" /\ said' = said /\ control' = control
      BY <1>4 DEF Postmaster
    <3>2. Baselined'
      BY <1>0, <2>1, <3>1 DEF Trusted, Baselined, Scripts, truth
    <3>3. Heard'
      BY <2>1, <3>1 DEF Trusted, Heard, Opening, Silence
    <3> QED
      BY <1>t, <3>2, <3>3 DEF Trusted
  <2>2. CASE \E s \in Undecisive, again \in BOOLEAN : Abandon(s, control, again)
    BY <1>0, <1>f, <2>2, Off
  <2> QED
    BY <1>4, <2>1, <2>2, PostmasterReply
<1>5. CASE Ask
  <2>1. PICK r \in About(List[Turn]) :
          IF r \in Dead
          THEN Abandon(Blame(r), control, GoOn) /\ UNCHANGED said
          ELSE /\ said' = [said EXCEPT ![List[Turn]] = r]
               /\ IF client = "find" /\ r = "ok"
                  THEN outcome' = "found" /\ stage' = "done"
                  ELSE UNCHANGED <<outcome, stage>>
               /\ UNCHANGED <<verdict, host>>
    BY <1>5 DEF Ask
  <2>2. CASE r \in Dead
    BY <1>0, <1>f, <2>1, <2>2, Off, BlameType, GoOnType DEF Undecisive
  <2>3. CASE r \notin Dead /\ stage' = "done"
    BY <1>f, <2>3 DEF Stopped
  <2>4. CASE r \notin Dead /\ stage' = stage
    <3>1. host' = host /\ control' = control /\ stage = "rcpt"
      BY <1>5, <2>1, <2>4 DEF Ask
    <3>2. Baselined'
      BY <1>0, <2>4, <3>1 DEF Trusted, Baselined, Scripts, truth
    <3>3. \A a : About(a)' = About(a)
      BY <1>0, <3>1 DEF About, Disturbance, truth
    <3>4. \A a \in Addresses : said'[a] \in {"none"} \cup (About(a) \ Dead)
      BY <2>1, <2>4, <3>1 DEF TypeOK, Trusted, Heard
    <3>5. Heard'
      BY <2>4, <3>1, <3>3, <3>4 DEF Heard, Opening, Dead
    <3> QED
      BY <1>t, <3>2, <3>5 DEF Trusted
  <2> QED
    BY <2>1, <2>2, <2>3, <2>4
<1>6. CASE Again
  BY <1>6, <1>f DEF Again
<1>7. CASE UNCHANGED vars
  BY <1>7 DEF vars, truth, Trusted, Baselined, Heard, About, Disturbance
<1> QED
  BY <1>1, <1>2, <1>3, <1>4, <1>5, <1>6, <1>7 DEF Next, Over

LEMMA TrustedInit == Init => Trusted
BY DEF Init, Trusted, Baselined, Heard, Opening

-----------------------------------------------------------------------------
(* What is called proven is true.                                          *)

\* The end of a conversation.
LEMMA FinalIsTrue ==
  ASSUME TypeOK, Trusted, stage = "rcpt", NEW a \in Addresses, said[a] # "none"
  PROVE  /\ Final(a).status = "valid" =>
              \/ a \in exists /\ takesAll # 1 .. Hosts
              \/ Final(a).under \in {"odd", "policy", "callout"}
         /\ Final(a).status = "invalid" => a \notin exists \/ Final(a).under = "callout"
<1>1. said[a] \in About(a) \ Dead
  BY DEF Trusted, Heard
<1>2. control \in {"nouser", "odd", "policy", "callout"}
      /\ (control = "nouser" => host \notin takesAll)
  BY DEF Trusted, Baselined
<1>3. host \in 1 .. Hosts
  BY DEF TypeOK
<1>4. Final(a).status = "valid" => said[a] = "ok"
  BY DEF Final, Judge, Calibrated
<1>5. said[a] = "ok" /\ host \notin takesAll => a \in exists /\ takesAll # 1 .. Hosts
  BY <1>1, <1>3 DEF About, Disturbance
<1>6. Final(a).status = "invalid" => said[a] = "nouser" \/ Final(a).under = "callout"
  BY <1>2 DEF Final, Judge, Calibrated
<1>7. said[a] = "nouser" => a \notin exists
  BY <1>1 DEF About, Disturbance
<1>8. Final(a).under = control
  BY DEF Final
<1> QED
  BY <1>2, <1>4, <1>5, <1>6, <1>7, <1>8

LEMMA TrueStep == TypeOK /\ Trusted /\ VerdictsAreTrue /\ [Next]_vars => VerdictsAreTrue'
<1> SUFFICES ASSUME TypeOK, Trusted, VerdictsAreTrue, [Next]_vars, NEW a \in Addresses
             PROVE  /\ verdict'[a].status = "valid" =>
                         \/ a \in exists /\ takesAll # 1 .. Hosts
                         \/ verdict'[a].under \in {"odd", "policy", "callout"}
                    /\ verdict'[a].status = "invalid" =>
                         a \notin exists \/ verdict'[a].under \in {"servfail", "callout"}
  <2> QED
    BY Fixed DEF VerdictsAreTrue, ValidIsTrue, InvalidIsTrue, truth
<1>1. CASE verdict'[a] = verdict[a]
  BY <1>1 DEF VerdictsAreTrue, ValidIsTrue, InvalidIsTrue
<1>2. CASE verdict'[a] # verdict[a]
  <2>1. Written(a)
    BY <1>2, Changes
  <2>2. CASE stage = "rcpt" /\ said[a] # "none" /\ verdict'[a] = Final(a)
    BY <2>2, FinalIsTrue
  <2> QED
    BY <2>1, <2>2 DEF Written, Undecisive, Trusted
<1> QED
  BY <1>1, <1>2

LEMMA TrueInit == Init => VerdictsAreTrue
BY DEF Init, VerdictsAreTrue, ValidIsTrue, InvalidIsTrue, NoVerdict

\* What the probes call proven is true, whatever the server does in between.
THEOREM ProvenIsTrue == Spec => []VerdictsAreTrue
<1> QED
  BY TypeInit, TypeStep, TrustedInit, TrustedStep, TrueInit, TrueStep, PTL DEF Spec

-----------------------------------------------------------------------------
(* The finder.                                                             *)

\* A lookup asks about the whole list, and is over with the first acceptance.
Searching ==
  /\ client # "find" => outcome = "none"
  /\ client = "find" =>
       /\ stage \notin {"dns", "wait", "postmaster"} /\ asking = DOMAIN List
       /\ stage # "done" => outcome = "none" /\ \A a \in Addresses : said[a] # "ok"

\* The programs that are no finder find nothing.
LEMMA OthersFindNothing ==
  ASSUME TypeOK, [Next]_vars, client # "find"
  PROVE  outcome' = outcome
<1>a. ASSUME NEW s, NEW u, NEW again \in BOOLEAN, Abandon(s, u, again) PROVE outcome' = outcome
  BY <1>a DEF Abandon, Give
<1>1. CASE Resolve \/ Quit
  BY <1>1 DEF Resolve, Quit, Give
<1>2. CASE Connect \/ Hello \/ MailFrom
  <2>1. outcome' = outcome \/ \E r \in Courtesy : Abandon(Blame(r), "none", GoOn)
    BY <1>2 DEF Connect, Hello, MailFrom
  <2> QED
    BY <1>a, <2>1, GoOnType
<1>3. CASE Control
  BY <1>3, <1>a, ControlReply
<1>4. CASE Postmaster
  BY <1>4, <1>a, PostmasterReply
<1>5. CASE Ask
  <2>1. outcome' = outcome \/ \E r : Abandon(Blame(r), control, GoOn)
    BY <1>5 DEF Ask
  <2> QED
    BY <1>a, <2>1, GoOnType
<1>6. CASE Again \/ UNCHANGED vars
  BY <1>6 DEF Again, vars
<1> QED
  BY <1>1, <1>2, <1>3, <1>4, <1>5, <1>6 DEF Next, Over

LEMMA FinderStep ==
  TypeOK /\ Trusted /\ Searching /\ FinderIsRight /\ [Next]_vars => Searching' /\ FinderIsRight'
<1> SUFFICES ASSUME TypeOK, Trusted, Searching, FinderIsRight, [Next]_vars
             PROVE  Searching' /\ FinderIsRight'
  OBVIOUS
<1> DEFINE Goal == Searching' /\ FinderIsRight'
<1> SUFFICES Goal
  OBVIOUS
<1>0. client' = client /\ truth' = truth
  BY Fixed
<1>1. CASE client # "find"
  <2>1. outcome' = "none"
    BY <1>1, OthersFindNothing DEF Searching
  <2> QED
    BY <1>0, <1>1, <2>1 DEF Searching, FinderIsRight
<1>2. CASE client = "find" /\ UNCHANGED vars
  BY <1>2 DEF vars, truth, Searching, FinderIsRight
<1>3. CASE client = "find" /\ ~ UNCHANGED vars
  <2>0. /\ stage \notin {"dns", "wait", "done", "postmaster"}
        /\ asking' = asking /\ asking = DOMAIN List
        /\ outcome = "none" /\ \A a \in Addresses : said[a] # "ok"
    BY <1>3, Resting DEF Searching, Again
  <2>f. ASSUME stage' \notin {"dns", "wait", "postmaster"},
               outcome' \in {"none"} \cup Undecisive,
               stage' # "done" => outcome' = "none" /\ \A a \in Addresses : said'[a] # "ok"
        PROVE  Goal
    BY <1>0, <1>3, <2>0, <2>f DEF Searching, FinderIsRight, Undecisive
  <2>a. ASSUME NEW s \in Undecisive, NEW u \in Unders, NEW again \in BOOLEAN, Abandon(s, u, again),
               \A a \in Addresses : said'[a] # "ok"
        PROVE  Goal
    <3>1. /\ stage' \in {"connect", "wait", "done"} /\ stage' # "wait"
          /\ outcome' = outcome \/ outcome' = s
          /\ stage' # "done" => outcome' = outcome
      BY <1>3, <2>a, Abandoned DEF Scripts
    <3> QED
      BY <2>0, <2>a, <2>f, <3>1
  <2>1. control \in Unders /\ "none" \in Unders
    BY DEF TypeOK, Unders
  <2>2. CASE Connect \/ Hello \/ MailFrom
    <3>1. \A a \in Addresses : said'[a] # "ok"
      BY <2>0, <2>2 DEF Connect, Hello, MailFrom, Silence
    <3>2. \/ stage' \in {"ehlo", "helo", "mail", "control"} /\ outcome' = outcome
          \/ \E r \in Courtesy : Abandon(Blame(r), "none", GoOn)
      BY <2>2 DEF Connect, Hello, MailFrom
    <3>3. CASE stage' \in {"ehlo", "helo", "mail", "control"} /\ outcome' = outcome
      BY <2>0, <2>f, <3>1, <3>3
    <3>4. CASE \E r \in Courtesy : Abandon(Blame(r), "none", GoOn)
      <4>1. PICK r \in Courtesy : Abandon(Blame(r), "none", GoOn)
        BY <3>4
      <4>2. Blame(r) \in Undecisive
        BY BlameType DEF Undecisive
      <4> QED
        BY <2>1, <2>a, <3>1, <4>1, <4>2, GoOnType
    <3> QED
      BY <3>2, <3>3, <3>4
  <2>3. CASE Control
    <3>1. \A a \in Addresses : said'[a] # "ok"
      BY <2>0, <2>3 DEF Control
    <3>2. PICK r \in AboutFake :
            \/ stage' = "rcpt" /\ UNCHANGED <<host, verdict, outcome>>
            \/ \E s \in Undecisive, again \in BOOLEAN : Abandon(s, r, again)
      BY <1>3, <2>3, ControlReply
    <3>3. CASE stage' = "rcpt" /\ UNCHANGED <<host, verdict, outcome>>
      BY <2>0, <2>f, <3>1, <3>3
    <3>4. CASE \E s \in Undecisive, again \in BOOLEAN : Abandon(s, r, again)
      <4>1. r \in Unders
        BY RepliesType DEF Unders
      <4> QED
        BY <2>a, <3>1, <3>4, <4>1
    <3> QED
      BY <3>2, <3>3, <3>4
  <2>4. CASE Ask
    <3>1. Turn \in Unasked /\ \A j \in Unasked : Turn <= j
      BY <2>4, TurnIsFirst DEF Ask, TypeOK
    <3>2. Turn \in DOMAIN List /\ List[Turn] \in Addresses /\ said[List[Turn]] = "none"
      BY <2>0, <3>1, Positions DEF Unasked
    <3>3. PICK r \in About(List[Turn]) :
            IF r \in Dead
            THEN Abandon(Blame(r), control, GoOn) /\ UNCHANGED said
            ELSE /\ said' = [said EXCEPT ![List[Turn]] = r]
                 /\ IF client = "find" /\ r = "ok"
                    THEN outcome' = "found" /\ stage' = "done"
                    ELSE UNCHANGED <<outcome, stage>>
                 /\ UNCHANGED <<verdict, host>>
      BY <2>4 DEF Ask
    <3>4. CASE r \in Dead
      <4>1. Blame(r) \in Undecisive
        BY BlameType DEF Undecisive
      <4> QED
        BY <2>0, <2>1, <2>a, <3>3, <3>4, <4>1, GoOnType
    <3>5. CASE r \notin Dead /\ r # "ok"
      <4>1. UNCHANGED <<outcome, stage>> /\ said' = [said EXCEPT ![List[Turn]] = r]
        BY <1>3, <3>3, <3>5
      <4>2. \A a \in Addresses : said'[a] # "ok"
        BY <2>0, <3>5, <4>1 DEF TypeOK
      <4> QED
        BY <2>0, <2>f, <4>1, <4>2
    <3>6. CASE r = "ok"
      <4>1. /\ outcome' = "found" /\ stage' = "done"
            /\ said' = [said EXCEPT ![List[Turn]] = "ok"]
        BY <1>3, <3>3, <3>6 DEF Dead
      <4>2. host \notin takesAll
        BY <1>3, <2>4 DEF Ask, Trusted, Baselined, Scripts
      <4>3. List[Turn] \in exists /\ exists' = exists
        BY <1>0, <3>6, <4>2 DEF About, Disturbance, truth
      <4>4. said'[List[Turn]] = "ok"
        BY <3>2, <4>1 DEF TypeOK
      <4>5. ASSUME NEW j \in 1 .. Turn - 1 PROVE said'[List[j]] \notin {"ok", "none"}
        <5>1. j \in DOMAIN List /\ j < Turn
          BY <3>2, SmtpAssumption
        <5>2. List[j] \in Addresses /\ said[List[j]] # "none"
          BY <2>0, <3>1, <3>2, <5>1, Positions DEF Unasked
        <5>3. List[j] # List[Turn]
          BY <3>2, <5>2
        <5>4. said'[List[j]] = said[List[j]]
          BY <4>1, <5>2, <5>3 DEF TypeOK
        <5> QED
          BY <2>0, <5>2, <5>4
      <4>6. FinderIsRight'
        BY <3>2, <4>1, <4>3, <4>4, <4>5 DEF FinderIsRight
      <4>7. Searching'
        BY <1>0, <1>3, <2>0, <4>1 DEF Searching
      <4> QED
        BY <4>6, <4>7
    <3> QED
      BY <3>4, <3>5, <3>6
  <2>5. CASE Quit
    <3>1. outcome' = "exhausted" /\ stage' = "done" /\ said' = said /\ Unasked = {}
          /\ stage = "rcpt"
      BY <1>3, <2>5 DEF Quit
    <3>2. ASSUME NEW a \in Addresses
          PROVE  said[a] # "none" /\ (a \in exists => said[a] \in {"temp", "policy", "odd", "full"})
      <4>1. PICK i \in DOMAIN List : List[i] = a
        BY SmtpAssumption
      <4>2. said[a] # "none"
        BY <2>0, <3>1, <4>1 DEF Unasked
      <4>3. said[a] \in About(a) \ Dead /\ said[a] # "ok"
        BY <2>0, <3>1, <4>2 DEF Trusted, Heard
      <4>4. host \notin takesAll
        BY <1>3, <3>1 DEF Trusted, Baselined, Scripts
      <4> QED
        BY <1>3, <4>2, <4>3, <4>4 DEF About, Disturbance, Dead
    <3>3. FinderIsRight'
      BY <1>0, <3>1, <3>2 DEF FinderIsRight, truth
    <3>4. Searching'
      BY <1>0, <1>3, <2>0, <3>1 DEF Searching
    <3> QED
      BY <3>3, <3>4
  <2>6. ~ (Resolve \/ Postmaster \/ Again \/ Over)
    BY <2>0 DEF Resolve, Postmaster, Again, Over
  <2> QED
    BY <1>3, <2>2, <2>3, <2>4, <2>5, <2>6 DEF Next
<1> QED
  BY <1>1, <1>2, <1>3

LEMMA FinderInit == Init => Searching /\ FinderIsRight
<1> SUFFICES ASSUME Init PROVE Searching /\ FinderIsRight
  OBVIOUS
<1>1. outcome = "none" /\ asking = DOMAIN List /\ \A a \in Addresses : said[a] # "ok"
  BY DEF Init, Silence
<1> QED
  BY <1>1 DEF Init, Searching, FinderIsRight

\* What the finder says it found exists and is the first candidate that was
\* accepted, and it says that all were rejected only after asking about each.
THEOREM FinderSaysTheTruth == Spec => []FinderIsRight
<1> QED
  BY TypeInit, TypeStep, TrustedInit, TrustedStep, FinderInit, FinderStep, PTL DEF Spec
=============================================================================
