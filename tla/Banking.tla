------------------------------- MODULE Banking -------------------------------
(***************************************************************************)
(* Engine runs that spend money: prefilter/engine.py run() from tier 0 to  *)
(* the banking of verdicts, inside the callers that start it: a bulk job   *)
(* (webapp/main.py _run_job), a single check (verify_one), and the command *)
(* line (prefilter/cli.py cmd_engine).                                     *)
(*                                                                         *)
(* Jobs and single checks are coroutines of one event loop, so the code    *)
(* from the end of the paid tier to the end of the caller is one stretch   *)
(* that no other coroutine can enter, though a restart can cut it between  *)
(* two commits.  The command line is another process on the same cache.    *)
(* Tiers 1 to 3.5 settle an address in one step here: between the cache    *)
(* look-up and the purchase only their outcome matters.                    *)
(***************************************************************************)
EXTENDS Naturals, FiniteSets

CONSTANTS
  Runs,        \* requests that start an engine run
  Addresses,   \* canonical addresses
  ListOf,      \* the addresses of a run
  Castings,    \* what the runs may be: functions from Runs to Kinds
  Keepers,     \* runs that were given a verdict cache
  OptedIn,     \* runs with a pattern_threshold: guesses may settle addresses
  Answers,     \* statuses the vendor sells
  Proofs,      \* statuses the free tiers can prove
  Expiry,      \* TRUE if cached verdicts may outlive their 90 days
  MaxCrashes,  \* bound on restarts of the server
  MaxFaults    \* bound on failing writes and callbacks

Statuses == {"valid", "invalid", "catch_all", "unknown", "likely_valid"}
Kinds == {"job", "web", "cli"}

ASSUME BankingAssumption ==
  /\ IsFiniteSet(Runs) /\ IsFiniteSet(Addresses)
  /\ ListOf \in [Runs -> SUBSET Addresses]
  /\ Castings \subseteq [Runs -> Kinds]
  /\ Keepers \subseteq Runs
  /\ OptedIn \subseteq Runs
  /\ Answers \subseteq Statuses \ {"likely_valid"}
  /\ Proofs \subseteq {"valid", "invalid"}
  /\ Expiry \in BOOLEAN
  /\ MaxCrashes \in Nat /\ MaxFaults \in Nat

VARIABLES
  kind,     \* what started each run: chosen once, in the initial state
  stage,    \* how far each run is
  verdict,  \* Verdict objects of the run, by address
  answer,   \* what the vendor said so far to the clearout.verify() of the run
  cache,    \* verdicts table: at most one row per address
  job,      \* status column of the run's row in the jobs table
  credits,  \* credits_spent column of that row
  spend,    \* clearout_spend.credits of the pool
  paid,     \* history: credits the vendor took for an address
  banked, lost,      \* history: purchases put into the cache, or thrown away
  good,              \* history: addresses bought and banked in the last 90 days
                     \*   whose latest bought answer was not "unknown"
  knew,              \* history: what was good when the run looked
  crashes, faults

memory == <<verdict, answer>>
tables == <<cache, job, credits, spend>>
purchases == <<banked, lost, good>>
counters == <<crashes, faults>>
vars == <<kind, stage, memory, tables, paid, purchases, knew, counters>>

Tiers == {"none", "cache", "probe", "pattern", "clearout"}
Pending == [tier |-> "none", status |-> "unknown"]
Verdicts == [tier : Tiers, status : Statuses]
NoRow == [source |-> "none", status |-> "unknown", fresh |-> FALSE]
Rows == [source : Tiers, status : Statuses, fresh : BOOLEAN]
NoAnswers == [a \in Addresses |-> "none"]

Server(r) == kind[r] \in {"job", "web"}
\* Between these stages of a server run the event loop is never given away.
Busy == {"banked", "written", "recorded"}
Before == {"idle", "accepted", "probing", "buying"}
LoopFree(r) ==
  Server(r) => \A s \in Runs \ {r} : Server(s) => stage[s] \notin Busy

TypeOK ==
  /\ kind \in Castings
  /\ stage \in [Runs -> {"idle", "accepted", "probing", "buying", "banked",
                         "written", "recorded", "over"}]
  /\ verdict \in [Runs -> [Addresses -> Verdicts]]
  /\ answer \in [Runs -> [Addresses -> Answers \cup {"none", "unanswered"}]]
  /\ cache \in [Addresses -> Rows]
  /\ job \in [Runs -> {"none", "queued", "running", "done", "failed"}]
  /\ credits \in [Runs -> Nat]
  /\ spend \in Nat
  /\ paid \in [Addresses -> Nat]
  /\ banked \subseteq Runs \X Addresses
  /\ lost \subseteq Runs \X Addresses
  /\ good \subseteq Addresses
  /\ knew \in [Runs -> SUBSET Addresses]
  /\ crashes \in 0 .. MaxCrashes
  /\ faults \in 0 .. MaxFaults

Init ==
  /\ kind \in Castings
  /\ stage = [r \in Runs |-> "idle"]
  /\ verdict = [r \in Runs |-> [a \in Addresses |-> Pending]]
  /\ answer = [r \in Runs |-> NoAnswers]
  /\ cache = [a \in Addresses |-> NoRow]
  /\ job = [r \in Runs |-> "none"]
  /\ credits = [r \in Runs |-> 0]
  /\ spend = 0
  /\ paid = [a \in Addresses |-> 0]
  /\ banked = {} /\ lost = {} /\ good = {}
  /\ knew = [r \in Runs |-> {}]
  /\ crashes = 0 /\ faults = 0

-----------------------------------------------------------------------------
(* A run, from request to purchase.  A definition named Name_Fault is a    *)
(* faulty variant of Name that some property must refuse.                  *)

SetStage(r, s) == stage' = [stage EXCEPT ![r] = s]
SetJob(r, s) ==
  job' = IF kind[r] = "job" THEN [job EXCEPT ![r] = s] ELSE job

\* bulk() creates the row and queues the task; the other callers just start.
Accept(r) ==
  /\ LoopFree(r)
  /\ stage[r] = "idle"
  /\ SetStage(r, "accepted")
  /\ SetJob(r, "queued")
  /\ UNCHANGED <<kind, memory, cache, credits, spend, paid, purchases, knew, counters>>

\* Cache.lookup: no row, an 'unknown' or an expired row is a miss.
Servable(a) ==
  cache[a].source # "none" /\ cache[a].status # "unknown" /\ cache[a].fresh

\* RUNNING, _seed and tier 0, up to the first await.
Lookup(r) ==
  /\ LoopFree(r)
  /\ stage[r] = "accepted"
  /\ verdict' = [verdict EXCEPT ![r] = [a \in Addresses |->
        IF a \in ListOf[r] /\ r \in Keepers /\ Servable(a)
        THEN [tier |-> "cache", status |-> cache[a].status]
        ELSE Pending]]
  /\ knew' = [knew EXCEPT ![r] = good]
  /\ SetStage(r, "probing")
  /\ SetJob(r, "running")
  /\ UNCHANGED <<kind, answer, cache, credits, spend, paid, purchases, counters>>

Unproven_Cached(r) == {a \in ListOf[r] : verdict[r][a].tier \in {"none", "cache"}}

\* engine.py run(): the verdicts still live.
Unproven(r) == {a \in ListOf[r] : verdict[r][a].tier = "none"}

\* Tiers 1 to 3.5: some addresses are proven, some of the rest are scored
\* above the confidence lines ("sure").  A sure guess settles the address of
\* a run that opted in, and keeps it out of tier 4 in any run.
Settle(r) ==
  /\ LoopFree(r)
  /\ stage[r] = "probing"
  /\ \E proven \in SUBSET Unproven(r) :
     \E sure \in SUBSET (Unproven(r) \ proven), proof \in [proven -> Proofs] :
       /\ verdict' = [verdict EXCEPT ![r] = [a \in Addresses |->
            CASE a \in proven -> [tier |-> "probe", status |-> proof[a]]
              [] a \in sure /\ r \in OptedIn ->
                   [tier |-> "pattern", status |-> "likely_valid"]
              [] OTHER -> verdict[r][a]]]
       /\ answer' = [answer EXCEPT ![r] = [a \in Addresses |->
            IF a \in sure /\ r \notin OptedIn THEN "unanswered" ELSE "none"]]
  /\ SetStage(r, "buying")
  /\ UNCHANGED <<kind, tables, paid, purchases, knew, counters>>

\* The addresses tier 4 asks for and has no reply for yet.  The command line
\* runs the engine without the paid tier.
Targets(r) == {a \in Unproven(r) : kind[r] # "cli" /\ answer[r][a] = "none"}

\* The vendor charges for an address and its verdict reaches the worker.
Buy(r, a) ==
  /\ LoopFree(r)
  /\ stage[r] = "buying"
  /\ a \in Targets(r)
  /\ \E s \in Answers : answer' = [answer EXCEPT ![r][a] = s]
  /\ paid' = [paid EXCEPT ![a] = @ + 1]
  /\ UNCHANGED <<kind, stage, verdict, tables, purchases, knew, counters>>

\* The worker of an address gives up unbilled (see Clearout).
NoReply(r, a) ==
  /\ LoopFree(r)
  /\ stage[r] = "buying"
  /\ a \in Targets(r)
  /\ answer' = [answer EXCEPT ![r][a] = "unanswered"]
  /\ UNCHANGED <<kind, stage, verdict, tables, paid, purchases, knew, counters>>

-----------------------------------------------------------------------------
(* From purchase to books: one stretch of the event loop.                  *)

BoughtBy_Unbilled(r) == {a \in Addresses : answer[r][a] # "none"}

\* The results that say billed.
BoughtBy(r) == {a \in Addresses : answer[r][a] \in Answers}
HeldBy(r) == {r} \X BoughtBy(r)

\* A billed result becomes the verdict; an unbilled one leaves it alone.
Bought(r) ==
  [a \in Addresses |->
     IF a \in BoughtBy(r) THEN [tier |-> "clearout", status |-> answer[r][a]]
     ELSE verdict[r][a]]

BankVerdicts_NotUnknown(r) ==
  cache' = [a \in Addresses |->
    IF r \in Keepers /\ Bought(r)[a].tier \notin {"none", "cache"}
                    /\ Bought(r)[a].status # "unknown"
    THEN [source |-> Bought(r)[a].tier, status |-> Bought(r)[a].status, fresh |-> TRUE]
    ELSE cache[a]]

\* cache.put for every settled address that did not come from the cache.
BankVerdicts(r) ==
  cache' = [a \in Addresses |->
    IF r \in Keepers /\ Bought(r)[a].tier \notin {"none", "cache"}
    THEN [source |-> Bought(r)[a].tier, status |-> Bought(r)[a].status, fresh |-> TRUE]
    ELSE cache[a]]

\* clearout.verify() returns: apply the results, tally, put and commit.
Return(r) ==
  /\ LoopFree(r)
  /\ stage[r] = "buying"
  /\ Targets(r) = {}
  /\ verdict' = [verdict EXCEPT ![r] = Bought(r)]
  /\ BankVerdicts(r)
  /\ banked' = IF r \in Keepers THEN banked \cup HeldBy(r) ELSE banked
  /\ lost' = IF r \in Keepers THEN lost ELSE lost \cup HeldBy(r)
  /\ good' = IF r \in Keepers
             THEN (good \ BoughtBy(r)) \cup {a \in BoughtBy(r) : answer[r][a] # "unknown"}
             ELSE good
  /\ answer' = [answer EXCEPT ![r] = NoAnswers]
  /\ SetStage(r, "banked")
  /\ UNCHANGED <<kind, job, credits, spend, paid, knew, counters>>

Billed_WithCacheHits(r) ==
  Cardinality({a \in ListOf[r] : verdict[r][a].tier \in {"clearout", "cache"}})

\* report.vendor_billed
Billed(r) == Cardinality({a \in ListOf[r] : verdict[r][a].tier = "clearout"})

\* store.write_results
WriteResults(r) ==
  /\ stage[r] = "banked" /\ kind[r] = "job"
  /\ SetStage(r, "written")
  /\ UNCHANGED <<kind, memory, tables, paid, purchases, knew, counters>>

\* users.record_clearout_spend: the command line has no such ledger.
RecordSpend(r) ==
  /\ \/ stage[r] = "written"
     \/ stage[r] = "banked" /\ kind[r] = "web"
  /\ spend' = spend + Billed(r)
  /\ SetStage(r, "recorded")
  /\ UNCHANGED <<kind, memory, cache, job, credits, paid, purchases, knew, counters>>

Finish_NoUpdate(r) ==
  /\ \/ stage[r] = "recorded"
     \/ stage[r] = "banked" /\ kind[r] = "cli"
  /\ SetStage(r, "over")
  /\ UNCHANGED <<kind, memory, tables, paid, purchases, knew, counters>>

\* The final update of the row, or the answer to the request.
Finish(r) ==
  /\ \/ stage[r] = "recorded"
     \/ stage[r] = "banked" /\ kind[r] = "cli"
  /\ SetStage(r, "over")
  /\ SetJob(r, "done")
  /\ credits' = IF kind[r] = "job"
                THEN [credits EXCEPT ![r] = Billed(r)] ELSE credits
  /\ UNCHANGED <<kind, memory, cache, spend, paid, purchases, knew, counters>>

-----------------------------------------------------------------------------
(* What goes wrong.                                                        *)

\* The update to RUNNING raises, or _cache() raises after it: both come before
\* the try block.
OpenFails(r) ==
  /\ LoopFree(r)
  /\ faults < MaxFaults
  /\ stage[r] = "accepted"
  /\ faults' = faults + 1
  /\ SetStage(r, "over")
  /\ SetJob(r, "running") \/ UNCHANGED job
  /\ UNCHANGED <<kind, memory, cache, credits, spend, paid, purchases, knew, crashes>>

\* An exception: a progress callback that cannot write the row while the
\* vendor is being asked, a locked cache under put, a full disk under
\* write_results, a locked accounts database.  A job is marked failed, a
\* single check answers 500, the command line ends.
Fault(r) ==
  /\ LoopFree(r)
  /\ faults < MaxFaults
  /\ \/ stage[r] \in {"probing", "buying", "banked", "written"}
     \/ stage[r] = "recorded" /\ kind[r] = "job"
  /\ faults' = faults + 1
  /\ SetStage(r, "over")
  /\ SetJob(r, "failed")
  /\ lost' = lost \cup HeldBy(r)
  /\ answer' = [answer EXCEPT ![r] = NoAnswers]
  /\ UNCHANGED <<kind, verdict, cache, credits, spend, paid, banked, good, knew, crashes>>

\* The server process is restarted.  No start-up code looks at the jobs table.
Crash ==
  /\ crashes < MaxCrashes
  /\ crashes' = crashes + 1
  /\ LET gone == {r \in Runs : Server(r) /\ stage[r] \notin {"idle", "over"}}
     IN  /\ gone # {}
         /\ stage' = [r \in Runs |-> IF r \in gone THEN "over" ELSE stage[r]]
         /\ lost' = lost \cup UNION {HeldBy(r) : r \in gone}
         /\ answer' = [r \in Runs |-> IF r \in gone THEN NoAnswers ELSE answer[r]]
  /\ UNCHANGED <<kind, verdict, tables, paid, banked, good, knew, faults>>

\* Ninety days pass for one row.
Expire(a) ==
  /\ Expiry
  /\ cache[a].fresh
  /\ cache' = [cache EXCEPT ![a].fresh = FALSE]
  /\ good' = good \ {a}
  /\ UNCHANGED <<kind, stage, memory, job, credits, spend, paid, banked, lost, knew, counters>>

-----------------------------------------------------------------------------

RunStep(r) ==
  \/ Accept(r) \/ Lookup(r) \/ Settle(r) \/ Return(r)
  \/ \E a \in Addresses : Buy(r, a) \/ NoReply(r, a)
  \/ WriteResults(r) \/ RecordSpend(r) \/ Finish(r)

AllOver == (\A r \in Runs : stage[r] = "over") /\ UNCHANGED vars

Next ==
  \/ \E r \in Runs :
       \/ Accept(r) \/ Lookup(r) \/ Settle(r) \/ Return(r)
       \/ \E a \in Addresses : Buy(r, a) \/ NoReply(r, a)
       \/ WriteResults(r) \/ RecordSpend(r) \/ Finish(r)
       \/ OpenFails(r) \/ Fault(r)
  \/ \E a \in Addresses : Expire(a)
  \/ Crash
  \/ AllOver

Spec == Init /\ [][Next]_vars

\* The event loop resumes every coroutine whose wait is over, and every wait
\* of a run ends: probes and vendor calls have deadlines (see Clearout).
FairSpec == Spec /\ \A r \in Runs : WF_vars(RunStep(r))

-----------------------------------------------------------------------------
(* Properties.                                                             *)

\* What runs do to the answers they hold and to the rows of the cache implements
\* the promise of Purse: a run that ends its purchases with a cache puts every
\* answer it bought into the cache in one step, "unknown" included, and one that
\* fails or is restarted before that touches no row; no other step changes what
\* is on file from the vendor (clearout.py:11-12, "A credit spent is a credit banked").
P == INSTANCE Purse WITH
  held <- [r \in Runs |-> [a \in Addresses |->
             IF a \in BoughtBy(r) THEN answer[r][a] ELSE "none"]],
  shelf <- [a \in Addresses |->
             IF cache[a].source = "clearout" THEN cache[a].status ELSE "none"],
  fate <- [r \in Runs |->
             IF stage[r] = "over" THEN "over"
             ELSE IF stage[r] \in Before THEN "open" ELSE "settled"]
PurseKept == P!PSpec

\* A row that claims to come from the vendor was paid for: a failed call never
\* becomes a cached answer (clearout.py, "A failed call is not an answer").
ClearoutRowsPaid ==
  \A a \in Addresses : cache[a].source = "clearout" =>
    /\ paid[a] > 0
    /\ cache[a].status \in Answers

\* The purchases of the server's runs, whatever became of them.
ServerPurchases == {p \in banked \cup lost : Server(p[1])}

\* The spend ledger never claims more than was bought, through any sequence
\* of faults and restarts; while nothing fails it is exact whenever no run is
\* under way.
LedgerHonest ==
  /\ spend <= Cardinality(ServerPurchases)
  /\ (/\ crashes = 0 /\ faults = 0
      /\ \A r \in Runs : stage[r] \in {"idle", "over"})
     => spend = Cardinality(ServerPurchases)

\* A job that says done has every purchase in the cache it was given, and
\* shows the user the number of credits those purchases cost.
DoneIsBookkept ==
  \A r \in Runs : job[r] = "done" =>
    /\ credits[r] = Cardinality({p \in banked \cup lost : p[1] = r})
    /\ r \in Keepers => \A p \in lost : p[1] # r

\* The books agree: rows, ledger and jobs tell the same story about credits,
\* over any sequence of faults and restarts.
BooksKept == ClearoutRowsPaid /\ LedgerHonest /\ DoneIsBookkept

\* A run with a cache buys an address that was bought and banked before it
\* looked only for one of two reasons: the latest answer bought was "unknown",
\* or it is more than 90 days old.  README.md:49 and clearout.py:11-12 say that
\* an address is never bought twice.  The code has these two exceptions
\* (Cache.lookup) and a third that is outside this property: two runs that
\* overlap both look before either has banked, and both buy.
RebuyHasAReason ==
  \A r \in Keepers : knew[r] \cap BoughtBy(r) = {}

\* Unless the server is restarted or a write fails, every job that was
\* accepted reaches a final status.
JobsFinish ==
  \A r \in Runs : job[r] = "queued" ~>
    (job[r] \in {"done", "failed"} \/ crashes > 0 \/ faults > 0)

=============================================================================
