------------------------------ MODULE Metering ------------------------------
(***************************************************************************)
(* Who may check how much: the daily quota of an account (consume,          *)
(* set_quota and set_plan of webapp/users.py), the server-wide counters    *)
(* (bump_counter), and the requests that draw on them: the keyed API of    *)
(* webapp/api.py, the single tools and the demo of webapp/main.py - and    *)
(* those that do not: the lists uploaded to the web page.                  *)
(*                                                                         *)
(* total_checks and the query log are for display and are left out.        *)
(*                                                                         *)
(* A handler takes its checks, and the permission to probe over SMTP,      *)
(* before its first await.  Midnight may pass between the two moments at   *)
(* which consume() asks for the date.                                      *)
(***************************************************************************)
EXTENDS Naturals, FiniteSets, FiniteSetsExt

CONSTANTS
  Users,      \* accounts
  Requests,   \* requests that may be under way together
  Kinds,      \* the requests considered: a subset of AllKinds
  ListSize,   \* addresses of a v1_bulk request, and of an uploaded list
  MaxUploaded, \* bound on the addresses an account uploads in a day
  Tries,      \* candidates a find may probe
  Quotas,     \* daily quotas an administrator sets
  FreeQuota,  \* FREE_DAILY_QUOTA
  Cap,        \* limit of a counter; at least one request may pass
  Window,     \* its window_seconds, in ticks of the clock
  DayLength,  \* ticks of a day
  MaxTime     \* bound on the clock

\* The uploads of the web page: no call of consume()
Unmetered == {"bulk", "bulk_find"}
AllKinds == {"v1_verify", "v1_find", "v1_bulk", "web_verify", "web_find", "demo"} \cup Unmetered
Counters == {"smtp_global", "demo"}

ASSUME MeteringAssumption ==
  /\ IsFiniteSet(Users) /\ IsFiniteSet(Requests)
  /\ Kinds \subseteq AllKinds
  /\ ListSize \in Nat \ {0} /\ MaxUploaded \in Nat /\ Tries \in Nat \ {0}
  /\ Quotas \subseteq Nat /\ FreeQuota \in Nat
  /\ Cap \in Nat \ {0} /\ Window \in Nat
  /\ DayLength \in Nat \ {0} /\ MaxTime \in Nat

VARIABLES
  clock,
  account,   \* users row: used_today, quota_date, daily_quota, disabled
  counter,   \* counters rows
  request,   \* the requests under way
  today,     \* history: checks an account may make today, metered or not
  uploaded,  \* history: those that it uploaded as lists
  highest,   \* history: the highest quota it had today
  granted,   \* history: when a counter let requests pass, each with a number
  probed     \* history: addresses the keyed API may probe, by the time of asking

tables == <<account, counter>>
history == <<today, uploaded, highest, granted, probed>>
mvars == <<clock, tables, request, history>>

Times == 0 .. MaxTime
Day(t) == t \div DayLength
NoCounter == [exists |-> FALSE, start |-> 0, count |-> 0]

MTypeOK ==
  /\ clock \in Times
  /\ account \in [Users -> [used : Nat, date : Nat, quota : Nat, disabled : BOOLEAN]]
  /\ counter \in [Counters -> [exists : BOOLEAN, start : Times, count : 0 .. Cap]]
  /\ request \subseteq Requests
  /\ today \in [Users -> Nat] /\ uploaded \in [Users -> 0 .. MaxUploaded]
  /\ highest \in [Users -> Nat]
  /\ granted \in [Counters -> SUBSET (Times \X Nat)]
  /\ probed \in [Times -> Nat]

MInit ==
  /\ clock = 0
  /\ account = [u \in Users |-> [used |-> 0, date |-> 0, quota |-> FreeQuota,
                                 disabled |-> FALSE]]
  /\ counter = [c \in Counters |-> NoCounter]
  /\ request = {}
  /\ today = [u \in Users |-> 0] /\ uploaded = [u \in Users |-> 0]
  /\ highest = [u \in Users |-> FreeQuota]
  /\ granted = [c \in Counters |-> {}]
  /\ probed = [t \in Times |-> 0]

-----------------------------------------------------------------------------
(* The two meters.  A definition named Name_Fault is a faulty variant of   *)
(* Name that some property must refuse.                                    *)

Used(u, d) == IF account[u].date = d THEN account[u].used ELSE 0

\* consume(): the check, with the date d
MayConsume(u, n, d) == ~account[u].disabled /\ Used(u, d) + n <= account[u].quota

Charged_DateKept(u, n, d, e) == [account[u] EXCEPT !.used = Used(u, d) + n]

\* consume(): the update, with the date e
Charged(u, n, d, e) == [account[u] EXCEPT !.used = Used(u, d) + n, !.date = e]

Expired(c, t) == t - counter[c].start > Window

\* bump_counter(name, limit, window_seconds) at time t: does it return TRUE
Passes(c, t) ==
  IF ~counter[c].exists \/ Expired(c, t) THEN 1 <= Cap ELSE counter[c].count + 1 <= Cap

Bumped_StartKept(c, t) ==
  CASE ~counter[c].exists -> [exists |-> TRUE, start |-> t, count |-> 1]
    [] counter[c].exists /\ Expired(c, t) -> [counter[c] EXCEPT !.count = 1]
    [] OTHER -> [counter[c] EXCEPT !.count = @ + (IF Passes(c, t) THEN 1 ELSE 0)]

Bumped_Refused(c, t) ==
  IF ~counter[c].exists \/ Expired(c, t)
  THEN [exists |-> TRUE, start |-> t, count |-> 1]
  ELSE [counter[c] EXCEPT !.count = @ + 1]

\* bump_counter: the row it leaves.  The first bump of a window starts it.
Bumped(c, t) ==
  IF ~counter[c].exists \/ Expired(c, t)
  THEN [exists |-> TRUE, start |-> t, count |-> 1]
  ELSE [counter[c] EXCEPT !.count = @ + (IF Passes(c, t) THEN 1 ELSE 0)]

\* The history of a request that passes at time t
Grant(c, t) == [granted EXCEPT ![c] = @ \cup {<<t, Cardinality(@)>>}]

-----------------------------------------------------------------------------
(* Time.                                                                   *)

NewDay(t) == Day(t) # Day(clock)

\* The history of a day that ends
Turn(t) ==
  /\ clock' = t
  /\ highest' = IF NewDay(t) THEN [u \in Users |-> account[u].quota] ELSE highest
  /\ uploaded' = IF NewDay(t) THEN [u \in Users |-> 0] ELSE uploaded

Tick ==
  /\ clock < MaxTime
  /\ Turn(clock + 1)
  /\ today' = IF NewDay(clock + 1) THEN [u \in Users |-> 0] ELSE today
  /\ UNCHANGED <<tables, request, granted, probed>>

-----------------------------------------------------------------------------
(* Requests.                                                               *)

ChecksOf(k) == CASE k = "v1_bulk" -> ListSize [] k = "demo" -> 0 [] OTHER -> 1
ProbesOf(k) ==
  CASE k = "v1_bulk" -> ListSize [] k = "v1_find" -> Tries [] k = "v1_verify" -> 1
    [] OTHER -> 0

\* The keyed API of a server that probes for the public (ENABLE_SMTP and
\* PUBLIC_SMTP) asks the counter for leave; without it the request goes on
\* without SMTP.
AskToProbe(k, t) ==
  /\ counter' = [counter EXCEPT !["smtp_global"] = Bumped("smtp_global", t)]
  /\ IF Passes("smtp_global", t)
     THEN /\ granted' = Grant("smtp_global", t)
          /\ probed' = [probed EXCEPT ![t] = @ + ProbesOf(k)]
     ELSE UNCHANGED <<granted, probed>>

\* A request that is granted its checks; late if the day ends meanwhile.
Accept(q, u, k, late) ==
  /\ q \notin request
  /\ k \notin {"demo"} \cup Unmetered
  /\ MayConsume(u, ChecksOf(k), Day(clock))
  /\ late => clock < MaxTime /\ NewDay(clock + 1)
  /\ LET t == IF late THEN clock + 1 ELSE clock IN
       /\ account' = [account EXCEPT ![u] = Charged(u, ChecksOf(k), Day(clock), Day(t))]
       /\ Turn(t)
       /\ today' = [w \in Users |-> (IF late THEN 0 ELSE today[w])
                                     + (IF w = u THEN ChecksOf(k) ELSE 0)]
       /\ IF k \in {"v1_verify", "v1_find", "v1_bulk"}
          THEN AskToProbe(k, t) ELSE UNCHANGED <<counter, granted, probed>>
  /\ request' = request \cup {q}

\* verify_one with an unknown Clearout pool: refused after the check was taken.
RefusePool(u) ==
  /\ "web_verify" \in Kinds
  /\ MayConsume(u, 1, Day(clock))
  /\ account' = [account EXCEPT ![u] = Charged(u, 1, Day(clock), Day(clock))]
  /\ today' = [today EXCEPT ![u] = @ + 1]
  /\ UNCHANGED <<clock, counter, request, uploaded, highest, granted, probed>>

\* bulk and bulk_find: any account that is not disabled may upload, whatever its
\* quota; the list is checked by a job in the background (Jobs).
Upload(u) ==
  /\ Kinds \cap Unmetered # {}
  /\ ~account[u].disabled
  /\ uploaded[u] + ListSize <= MaxUploaded
  /\ today' = [today EXCEPT ![u] = @ + ListSize]
  /\ uploaded' = [uploaded EXCEPT ![u] = @ + ListSize]
  /\ UNCHANGED <<clock, tables, request, highest, granted, probed>>

\* The landing page's try-it: no account, its own counter, no SMTP.
Demo(q) ==
  /\ "demo" \in Kinds
  /\ q \notin request
  /\ counter' = [counter EXCEPT !["demo"] = Bumped("demo", clock)]
  /\ IF Passes("demo", clock)
     THEN /\ granted' = Grant("demo", clock)
          /\ request' = request \cup {q}
     ELSE UNCHANGED <<granted, request>>
  /\ UNCHANGED <<clock, account, today, uploaded, highest, probed>>

\* The answer, or a 500 when the engine raises: nothing is given back.
End(q) ==
  /\ q \in request
  /\ request' = request \ {q}
  /\ UNCHANGED <<clock, tables, history>>

Restart ==
  /\ request # {}
  /\ request' = {}
  /\ UNCHANGED <<clock, tables, history>>

-----------------------------------------------------------------------------
(* The administrator.                                                      *)

\* set_quota, set_plan
SetQuota(u, n) ==
  /\ account' = [account EXCEPT ![u].quota = n]
  /\ highest' = [highest EXCEPT ![u] = IF n > @ THEN n ELSE @]
  /\ UNCHANGED <<clock, counter, request, today, uploaded, granted, probed>>

SetDisabled(u) ==
  /\ account' = [account EXCEPT ![u].disabled = ~@]
  /\ UNCHANGED <<clock, counter, request, history>>

-----------------------------------------------------------------------------

MNext ==
  \/ Tick
  \/ \E q \in Requests, u \in Users, k \in Kinds, late \in BOOLEAN : Accept(q, u, k, late)
  \/ \E u \in Users : RefusePool(u) \/ Upload(u)
  \/ \E q \in Requests : Demo(q) \/ End(q)
  \/ Restart
  \/ \E u \in Users, n \in Quotas : SetQuota(u, n)
  \/ \E u \in Users : SetDisabled(u)

MSpec == MInit /\ [][MNext]_mvars

-----------------------------------------------------------------------------
(* Properties.                                                             *)

\* Apart from the lists it uploads, which no meter counts, an account may make no
\* more checks in a day than the highest quota it had on that day, through any
\* sequence of requests, quota changes, restarts, and midnights in the middle of a
\* charge.
QuotaKept == \A u \in Users : today[u] <= highest[u] + uploaded[u]

\* The windows do not slide: the end of one and the start of the next fit in a
\* stretch of the window's length, with all their requests but one, for the first
\* of the earlier window lies too far back.
During(t) == {s \in Times : t <= s /\ s <= t + Window}
Within(t, G) == {g \in G : g[1] \in During(t)}
TwoWindowsAtMost ==
  \A c \in Counters, t \in Times : Cardinality(Within(t, granted[c])) <= 2 * Cap - 1

-----------------------------------------------------------------------------
(* What a docstring says, and the code does not keep.                      *)

\* api.py:8-9, "a global rolling cap on total probes, so no number of users can
\* burst the server IP".
ProbesCapped ==
  \A t \in Times : MapThenSumSet(LAMBDA s : probed[s], During(t)) <= Cap
=============================================================================
