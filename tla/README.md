# TLA+ models of the e-mail verification service

The repository is a Python program that decides whether e-mail addresses can
receive mail. A tiered engine asks the cheapest source first (a verdict cache,
DNS, Microsoft's sign-in endpoint, an SMTP conversation, pattern statistics)
and buys from the vendor Clearout only what is left. Around it stand a web
application (accounts, API keys, quotas, bulk jobs), a command line, and two
scripts for an external SMTP server, one of which only measures how often the
other's method is right.

Sections: 1 the system, 2 the modules, 3 the runs, 4 bounds, 5 fairness,
6 proofs, 7 disagreements between code and comments, 8 what is not modelled,
9 the plan.

## 1. The system

### Parts

The server is one uvicorn process with one event loop. Handlers and the bulk
runner `_run_job` are coroutines; every sqlite call is synchronous. Code between
two awaits is therefore atomic with respect to other coroutines, and the awaits
(engine run, vendor call, probes, reading an upload or a form) are where
interleavings happen. systemd restarts the process at any time
(`Restart=always`), and the deployment script restarts it on every release. The
command line and the SMTP scripts are other processes on the same files, and
the page in the browser is another machine.

| Part | State | Operations | Correct when |
|---|---|---|---|
| Paid client (`prefilter/clearout.py`) | one worker per address, a semaphore, a rate gate, `fatal` | post, retry, back off, give up, gather | credits accounted; a raise loses no paid verdict; calls spaced; every batch returns |
| Engine (`prefilter/engine.py`, `providers.py`, `microsoft.py`) | one `Verdict` per row, routes of domains | tiers 0 to 4, tally, bank | what is called proven is true; what is undecided stays billable; bought verdicts banked and counted |
| Verdict cache (`prefilter/cache.py`) | verdicts by canonical address, with origin and age; what DNS said of a domain, with age; the formats of a domain | lookup, put, get_domain, put_domain, learn_shape, load_shapes | a row claims only what was found out; an answer stands until it expires, and not longer; formats come from proofs |
| Command line (`prefilter/cli.py`, `pipeline.py`, `dns_check.py`) | the same database | run, engine, ingest, merge-smtp | as above, whatever the order of the programs |
| SMTP probing (`smtp_check.py`, `server/smtp_tier.py`, `server/calibrate.py`, `finder.py`) | connection, control reply, results | greet, control, RCPT, sort replies, retry | invalid only against a trusted baseline; a catch-all never yields a proof; every conversation ends |
| Finder and pattern scores (`finder.py`, `patterns.py`) | candidates for a name, by weight of their format; scores | generate, probe, guess, score | found means found; a guess is the best the formats on file allow |
| Jobs (`webapp/jobs.py`, `_run_job`, `static/app.js`) | jobs table, result files; what the page watches | create, run, progress, finish, delete; upload, poll | a final status is final and its files are there; deleted stays deleted; the page learns the end |
| Accounts (`webapp/users.py`, `api.py`) | users, api_keys, code and reset columns | sign up, verify, reset, key create/revoke/rotate, admin, migrate | a revoked key never works again; an account keeps a working key; a code works for its purpose, a bounded number of times |
| Metering (`consume`, `bump_counter`) | usage columns, counters table | consume, bump, quota changes | no more than the quota per day; windows bound calls |

### Who touches what

* A bulk upload creates a job row, starts `_run_job`, and returns; `_run_job`
  starts the engine; the engine starts `clearout.verify`; the verdicts return
  through the engine into the cache, then into files, the spend ledger and the
  job row, in that order and with no await in between. The page polls the row.
* Single checks start the same engine on the same cache. A keyed API request
  draws on the account's quota first, and on a server-wide counter for leave to
  use SMTP.
* The command line runs the engine, or an older pre-filter with DNS code of its
  own, on a cache file, and imports the vendor's result files and the SMTP
  script's results into it. Tier 0 of the engine trusts every row it finds.
* The engine files the format of every address it proves (`domain_shapes`); its
  own pattern tier scores with it in later runs, and the finder orders its
  candidates by it. Two tables of different lifetimes feed each other: a cached
  domain decides for addresses whose verdicts are then cached.
* `users.api_key` and `api_keys` both hold an account's primary key; every
  start of the server copies what is missing from the one to the other.

### What is hard here

State read before an await and used after it (`fatal` before the sleep at the
gate; the cache before the probes and the purchase; the account before the form
is read; `currentJob` in the page before and after a fetch); a restart between
two commits, which nothing repairs at start-up; lost replies of a vendor that
charges anyway; servers that change their mind in the middle of a conversation;
tables that several programs write; windows and days that end in the middle of
an operation; and the liveness of a pool whose workers wait for a semaphore and
for a gate. PROJECT.json lists these hazards at their lines.

## 2. The modules

| Module | Models | Composes |
|---|---|---|
| Clearout | `verify`, `_verify_one`, `_RateGate` and the vendor | |
| ClearoutProofs | theorems about Clearout | Clearout |
| Purse | abstract: a run holds what it buys until it shelves all of it, or loses all of it | |
| Answers | abstract: an answer on file stands for its life | |
| Banking | an engine run that spends money, inside its callers | INSTANCE Purse (refinement) |
| BankingProofs | theorems about Banking, the refinement among them | Banking |
| Engine | what each tier concludes, the cache, the enriched file | uses what SmtpProbe guarantees |
| Offline | pre-filter runs and imports on the database between engine runs | EXTENDS Engine |
| OfflineProofs | theorems about Engine and Offline | Offline |
| Shelf | verdicts and domains tables over time, shared by programs that overlap | INSTANCE Answers (refinement) |
| ShelfProofs | theorems about Shelf, the refinement among them | Shelf |
| Formats | formats learned from proofs, tier 3.5, the finder | uses what SmtpProbe guarantees |
| FormatsProofs | theorems about Formats | Formats |
| SmtpProbe | the four SMTP clients | |
| SmtpProbeProofs | theorems about SmtpProbe | SmtpProbe |
| Jobs | rows, files, coroutines, delete, the page | |
| JobsProofs | theorems about Jobs | Jobs |
| Accounts | accounts, codes, links, keys, migration | |
| Metering | quotas, counters, the requests that draw on them | |
| UsersProofs | theorems about Accounts and Metering | Accounts, Metering |

Each `MCx` module only names model values and small constants for TLC. A
definition called `Name_Fault` just before `Name` is the same definition with a
plausible bug; it is used by no specification and exists to show that some
property notices.

**Clearout.** A worker is one coroutine: `queued` (at the semaphore), `gated`
(asleep in `_RateGate.wait`), `posted`, `answered`, `backoff`, `done`. `Attempt`
is everything between the top of the retry loop and the sleep; `Post` does not
look at `fatal` again, as the code does not. The vendor is external: it may
charge and lose the reply, answer with something that is not JSON, serve a
request nobody waits for (`orphans`), run out of credits, or see its key revoked.
Time is relative (`gap`, `wait`), so the clock needs no bound. `charged`,
`abandoned` and `late` are history.

**Banking.** `stage` follows a run from the upload to the end of its caller. The
event loop is given away only in the stages that await; the stretch from the end
of the paid tier to the last commit is several actions, because a restart or a
failing write can fall between any two of them, but no other coroutine of the
server runs meanwhile (`LoopFree`). The command line is another process and is
bound by none of this, and buys nothing. `Castings` says which callers the runs may be.
Purse is read off the state: `held` is what `verify()` has been told (`answer`), `shelf`
what the rows of the cache say the vendor said, `fate` where the run is (`stage`).
`good` and `knew` are history: the addresses whose latest bought answer is on file,
decided and under 90 days old, now and when a run looked.

**Engine and Offline.** The initial state chooses a world: DNS records, mail
host, tenant, mailboxes, sign-in names. The tiers see only what the protocols
show. One action per tier, each a function from the open rows to verdicts as in
the code, with every failure as a choice. Tier 3 answers within what SmtpProbe
shows (`VerdictsAreTrue` there). `Target` is a row tier 4 pays for; the line it is held against, `VendorLine`, is a
constant, as `CLEAROUT_THRESHOLD` is for a server. `Source` follows a verdict through
the cache to the tier that found it out; for that, `origin` is the history of who had filed the
entry a run was served, which a later program may replace. Offline adds `Prefilter`
(`run_pipeline` with `dns_check`), `Ingest` and `MergeSmtp`: programs that change only the database.

**Shelf.** Where Engine and Offline ask whether a verdict is true when it is
given, Shelf asks how old it can be when it is served. Rows hold ages, so no clock
is needed; a row past its lifetime keeps the age one past it. The pre-filter is
three steps (`Read`, `Query`, `Bank`) with a commit after the second and the third,
the engine two (`Start`, `Settle`), and any number of ticks, imports, other runs or a
`Kill` falls between them; `MaxSpan` bounds the ticks of one run. `noted` and
`basis` are history: the age of the look-up behind a domain row, and of the
observation behind a verdict. What rests on something without a date - a guess, on
`domain_shapes`; an import, on a file - has the basis `Ancient`, older than any bound. `Shown` is the database as its readers see it, and
the refinement mapping to Answers: an answer is the verdict, who gave it, and the
time it has left.

**Formats.** `shapes` is `domain_shapes` of one domain. `Begin` leaves to choice what
the database and the probes said of a list, guesses of earlier runs among it
(`guessed`), which tier 0 serves like any verdict; `Tier35` scores with the formats on file
and those of this run, as `build_profiles` does, and files them only if something
was left to score, as the early return at engine.py:250 has it. Of `score_address`
all the arithmetic is there, in integers; how much a local part looks like noise is
a constant of each address. A lookup of the finder reads the formats in `Prepare`
and uses them after the probes, while engine runs file new ones. The host `aaaa` is a
domain that has an AAAA record alone: it takes mail, and `classify` says it has no mail
server.

**SmtpProbe.** One conversation, one action per command and its reply, for the
client chosen in the initial state: the engine's tier, the finder, the script, and
the calibration script with its extra question for postmaster and its cruder
reading of refusals. The server is truthful about its mailboxes
but may at any command refuse the prober, defer, drop the line or fall silent;
each MX host may accept everybody. Each verdict remembers the control reply it
was given under.

**Jobs.** The row, the three files, and the coroutine of each job; `delete_job`
removes file after file and then the row, and a restart can cut it anywhere; a file
that cannot be unlinked is skipped (`stuck`), as the swallowed `OSError` has it. The
page has two panels, each with the job it watches, its timer, its links, what it
shows, and any number of status requests under way: the timer fires without waiting
for answers, which arrive in any order. `learned` is the history of the jobs whose end
the page was told.

**Accounts.** Handlers are one step, except those that await a form after the
middleware has let the request in (`AdmitKey`/`NewKey`, `AdmitCode`/`CheckCode`).
`Start` is the whole of `Users.__init__` and `seed_admin`: migration, adoption of
keys, grandfathering.

**Metering.** `consume` asks for the date twice, so `Accept` may be `late`: the
day ends between the check and the update. The row then carries the used checks
of the old day into the new one. `Upload` is the lists of the web page, which are
checked without `consume`; `uploaded` is how many addresses came that way. `granted` is the history of what the counters let
through, as pairs of a time and a serial number. `Bumped` is the row `bump_counter`
leaves and `Passes` what it answers.

## 3. The runs

| Run | Question | Distinct states |
|---|---|---|
| clearout | Do the books of one `verify()` call balance, is it polite, does it return? | 670 000 |
| banking | Do two runs refine Purse, keep the ledger honest and finish? | 39 000 |
| accounts | Do keys, codes and links keep their promises through a restart? | 957 000 |
| smtp | Are proofs true, and does every conversation of the four clients end with answers? | 1 640 000 |
| smtp_servfail | (violated) Is an address rejected only on the fake's fingerprint? | |
| jobs | Are files, rows and links in step, and does the page learn the end? | 649 000 |
| engine | Are conclusions true and undecided addresses billable, for several programs on one database? | 1 900 000 |
| engine_opaque | (violated) Is the engine never wrong towards a bounce? | |
| shelf | Does the database refine Answers, and how old can what it serves be? | 174 000 |
| formats | Do guesses follow what was proven, and does the finder say no more than it found out? | 2 090 000 |
| metering | Are quotas kept over midnight, and counters bounded? | 1 580 000 |
| metering_probes | (violated) Does the counter cap probes? | |

What the properties say is in the comment above each of them. The ones a reader
should not miss:

* `CreditsAccounted`, `RaiseLosesNoVerdict`: a credit the vendor takes is in a
  billed result or was lost on the wire, and `verify()` never throws a paid
  answer away, whatever the order in which workers meet fatal replies.
* `LatePostsBounded`: `fatal` is stale after the sleep at the gate, but this
  costs at most `concurrency - 1` posts.
* `PurseKept`: the answers a run has bought enter the cache together, every one of
  them, or not at all, and no other step touches what is on file from the vendor.
  `RebuyHasAReason`: an address that was bought and banked before a run looked is
  bought again only if the latest answer bought was "unknown", or is over 90 days old.
* `BooksKept`: cache rows, spend ledger and jobs tell one story. `ClearoutRowsPaid`:
  what claims to come from the vendor was paid for; `LedgerHonest`: the ledger never
  claims too much; `DoneIsBookkept`: a job that says done shows what it cost.
* `VerdictsAreTrue` and `UndecidedStaysBillable` of the engine: the free tiers are
  right in every world except the named ones; unproven is never settled.
* `AnswersStand`: only an import, or a run that asked while there was no answer,
  changes an answer before its time, and nobody renews one by reading it.
* `EvidenceBounded`: what a run has looked up itself and the table serves is no older
  than the lifetimes of both tables together, and no older than one unless it is a
  rejection. Guesses and imports are outside: nothing bounds what they rest on.
* `GuessesFollowEvidence`: nothing is promoted on a format that only guesses had,
  although guesses are served like proofs; and for every vendor line 0 to 100, what it
  keeps from the vendor is founded, or below what a name alone can score.
  `LookupIsHonest`: what the finder's words claim.
* `VerdictsAreTrue` and `FinderIsRight` of SmtpProbe: a proof is true whatever the
  server does in between; the finder skips no candidate.
* `WorkingKeyKept`, `RevokedForGood`, `InStep`: two tables, rotation, revocation
  and restarts. `SecretsSpent`: a code is worth `OTP_MAX_TRIES` guesses
  (`GuessesBounded`) and a link one reset (`LinkWorksOnce`).
* `PageLearnsTheEnd`, `OverIsOver`, `RowsFitFiles`: jobs deleted while they work,
  restarts in the middle of a write (`DoneHasResults`) or of a delete, and files that
  cannot be removed (`FilesHaveARow`), answers out of order.
* `QuotaKept`, `TwoWindowsAtMost`: the day that ends inside `consume`, and windows
  that do not slide: in the length of one, two can fill but for one request.

Limits the properties state themselves: `LedgerHonest` (in `BooksKept`) is exact only while
nothing fails (when `write_results` fails the credits of the job are in no
ledger); `JobsFinish` and `PageLearnsTheEnd` speak of jobs that end, because a
restart leaves a row `queued` or `running` for ever; `InStep` speaks of accounts
the latest start found, because sign-up shows a key before `api_keys` has it;
`LinksWork` and `PageLearnsTheEnd` leave out an answer about an earlier job that
arrives after a new upload (`crossed`), which `pollJob` takes for its own;
`PageLearnsTheEnd` says that the page is told, not that it goes on showing it;
`FilesHaveARow` leaves out what an unlink left behind and the results of a job that was
deleted while it worked; `QuotaKept` leaves out the uploads.

## 4. Bounds

* clearout: three workers, two at a time: one waits at the semaphore while one
  sleeps at the gate and one has posted, which is what every race there needs;
  two posts each, so a retry and an exhausted retry exist; balance 1, so the
  vendor runs out between two workers. One batch: batches share nothing but the
  vendor's balance. The theorems have no bound.
* banking: two runs, two addresses, lists that share one; one restart and one
  fault, which may fall into the same run. More runs only repeat the overlap.
* engine: six rows, two addresses of one domain, one of them spelled twice and
  uploaded twice, one malformed row and one that needs review; domains meet only
  in the resolver, which treats each alone. `MaxRuns = 2`: a program and one that
  runs after it. Longer histories are the theorems' (section 6): a verdict can be
  served, overwritten by an import and overwritten again, which takes four programs.
  Confidences 50 and 95
  lie on both sides of both lines. A null MX or an empty zone is routed like
  `nxdomain` (`RouteOf`) and left out; imported files say `valid`, `unknown`, or
  both about one address.
* smtp: three addresses (one before, one after the one in question), two hosts (the
  code tries no more than two, so a third would only be out of reach), two passes.
* shelf: one address and one run of each kind. Rows of different addresses meet only
  in the row of their domain, and a domain row is read and written alike for each
  of them. A lifetime of two ticks for verdicts and of one for domains has the order
  of the defaults (90 and 30 days), and a run may see one tick pass: something
  expires before, during and after it.
* formats: a person with three candidates of three formats and room for two, whose
  names read well, badly and fairly well, and a role account with the format of the
  second. The scores are 5, 26, 36, 45, 51, 71, 80, 90 and 95: both clamps, both sides of
  70, and the two bounds (45 and 80) themselves. The vendor's line is not bounded: the
  property asks for each of 0 to 100. Two runs of at most two rows: one proves and
  learns, or guesses, the other guesses with it, or is served the guess.
* jobs: two lists for one panel, the bulk or the find panel (panels share nothing); two
  status requests or answers of a panel under way, so a second one is asked while the
  first is unanswered and a late "running" can follow "done"; one delete; one restart,
  failing write or failing unlink. Requests that would get the same answer are one.
* accounts: three keys, two accounts (one older than the migration), two starts,
  one guess per code (`MaxTries = 1`), so a guess too many is one step away.
* metering: two requests, times 0 to 3, days of two ticks and windows of one: a
  window and a day end in every way relative to each other. `Cap = 2` with requests at
  times 0, 1 and 2 lets the end of one window and the whole of the next fall into one
  stretch of a window's length, and the bound of three is reached. One uploaded list of
  two addresses per account and day.

Counters that only grow (starts, calls, mails, runs, mishaps) are bounded in the
guards by constants named for it: `MaxStarts`, `MaxCalls`, `MaxCodes`,
`MaxLinks`, `MaxRuns`, `MaxRows`, `MaxSpan`, `MaxCrashes`, `MaxFaults`, `MaxMishaps`, `MaxDeletes`,
`MaxPolls`, `MaxUploaded`, `MaxTime`.

Deadlock is checked in clearout, banking, accounts, smtp and shelf. The other
specifications may stop: MaxRuns or MaxTime is used up, every lookup is answered,
or every job is over and the page is closed.

## 5. Fairness

* Clearout: weak fairness of each worker, of `gather` and of the clock. The event
  loop resumes a coroutine whose wait is over, sleeps end, and an httpx request
  has a deadline, so `LoseReply` is always possible for a posted request. Nothing
  is assumed of the vendor.
* Banking, Jobs: weak fairness of every coroutine of a job; Jobs also of the
  page's timer and of each request being answered or broken off. Nothing makes a
  restart, a fault, an upload or a delete happen.
* SmtpProbe: weak fairness of the conversation: each reply is awaited with a
  deadline. The deadline is per line, so a reply without an end is outside the
  model.

Accounts, Engine, Offline, Shelf, Formats and Metering state safety only: nothing in
them waits for anything.

## 6. Proofs

**ClearoutProofs** proves, for any number of workers and batches, any
concurrency, number of retries, interval and balance, from the assumption
`ClearoutAssumption`: `TypeOK`, `CreditsAccounted`, `BilledIsCharged`,
`RaiseLosesNoVerdict`, `PoolBounded`, `SlotsSpaced` and `LatePostsBounded`. None
but the first two is inductive alone. The invariant is
`TypeOK /\ Passes /\ Accounts /\ Slots /\ Doomed`:

* `Passes`: a worker about to post has a post left (types of `tries`).
* `Accounts`: replies exist only while they are read, a billed result is final,
  and a raise found nothing billed. The credits follow.
* `Slots`: the next free slot is a full interval after every slot still slept
  for. Without it, a new sleeper could be given a slot too near an old one.
* `Doomed`: once the batch is doomed, the late posts and the sleepers together
  are fewer than the semaphore admits. The worker that met the fatal reply was
  not a sleeper, which is where the `- 1` comes from; the cardinality lemmas
  about `Holders` and `AtGate` carry it.

**ShelfProofs** proves `TypeOK`, `EvidenceBounded` and `AnswersStand`, the
refinement of Answers, for any addresses, domains, runs and lifetimes, from
`ShelfAssumption`.

* `EvidenceBounded` speaks of what is served of the runs' own findings, and is not
  inductive: a verdict may
  come from a domain row that was itself kept over a run, so the invariant `Dated`
  follows an observation along its way. A row of domains that is still answered
  was looked up no earlier than it says (`DomainsDated`); what a run has read of it
  is at most a domain lifetime and the run itself old (`HeardDated`); a verdict is
  no older than its row and the longest run allow (`VerdictsDated`). Time ages the
  row and what it rests on alike, which is why the sums stay.
* The refinement needs beside the types only that a run which is not under way has
  asked for nothing (`IdleAsksNothing`). Then reading the table is `Ask`, the last
  commit of a run or its death is `Answer`, an import is `Import`, a tick is `Pass`;
  the DNS and the first commit of a run show nothing. What carries it is that a
  run banks only what was not served to it (`Answered`).

**BankingProofs** proves `TypeOK`, `PurseKept`, `RebuyHasAReason` and
`BooksKept`, for any addresses, runs, lists, faults and restarts.

* `PurseKept`: an answer of the vendor is Purse's `Buy`, the commit that banks the
  verdicts is `Bank`, a fault or a restart before it is `End`, and everything else
  stutters. It needs that a run holds answers only while it buys (`Flow`), and that no
  verdict claims to be bought before the run returns (`Unbilled`, in `RowsInv`): or the
  commit would put on the shelf what nobody held.
* `RebuyHasAReason`: what is `good` is on file, or under a free verdict, and so is served
  (`GoodServed`); what was served when a run looked is settled before anything is bought
  (`Known`).
* `BooksKept` needs the most. Rows that claim the vendor were paid for, and what a
  run has in its hands is what it settled (`RowsInv`, `Claims`); a job that says
  done is past its last commit (`JobsInv`). The ledger is a sum, and a sum over
  a set is out of the provers' reach as an induction; it is instead the bill of
  *some* set of server runs that were posted, and of all of them while nothing has
  failed (`LedgerInv`). Each posting adds one run to that set.

**UsersProofs** proves of Accounts `TypeOK`, `VerifiedForAReason`, `SecretsSpent`,
`InStep`, `RevokedForGood` and `WorkingKeyKept`, for any accounts, keys, codes and
tries.

* A code has as many tries left as guesses are missing, and a link as many resets
  (`Worths`); with it `SecretsSpent` is inductive.
* An account is verified for a reason because what the migration finds has no code
  and no mail under way (`Unmigrated`).
* A key has one owner, also when it is only in the column of `users`, and the row of
  `api_keys` belongs to the account that shows it (`OneOwner`, `OwnRow`, `InStep`).
* `RevokedForGood` and `WorkingKeyKept` follow from what one step does to a row
  (`RowsKept`): a row is revoked once and for all, and only by a handler that saw
  another working key (`AnotherKey`).

Of Metering it proves `MTypeOK`, `QuotaKept` and `TwoWindowsAtMost`, for any accounts,
requests, list size, quotas, limits, and lengths of day and window.

* For `QuotaKept` the invariant adds that the row knows at least what was granted today
  (`UsageRemembered`) and that no quota in force is above the highest of the day
  (`QuotaWithin`). The central lemma, `ChargeInv`, is about one grant, with a case for
  the day that ends in the middle of it. An upload adds to both sides of the bound.
* `TwoWindowsAtMost`: a window of the counter begins more than `Window` after the one
  before it, so a stretch of that length touches at most two, and each lets through no
  more than the limit; the first request of the earlier one is out of the stretch, which
  leaves `2 * Cap - 1`. The invariant `Windows` says which leaves belong to the window
  in force and which to an earlier one. The leaves are numbered, so that counting
  them is the cardinality of a set of pairs and needs no induction.

**JobsProofs** proves `TypeOK`, `OverIsOver`, `RowsFitFiles` and `LinksWork`, for
any jobs, panels, request limits and mishaps. Nearly all of it rests on `Focus`: a
job is changed by its own coroutine, its own deletion and a restart, and by nothing
else.

* Files: a coroutine that has written says so (`Written`), and a file that is gone
  was taken by a deletion under way, while one that is left without a row was stuck, or
  was written later by a job that was deleted early (`Gone`).
* Page: an answer under way was true when it was given, and what it says of a job
  that is over stays true (`PollsTrue`); links are offered for files that were there
  and go only with their job (`LinksTrue`). The theorem holds for any number of
  lists given to one panel and any number of requests under way, where the run has two
  of each: with three lists, the list an answer was mistaken
  for need not be the latest, which is why `crossed` remembers jobs and not panels.

**SmtpProbeProofs** proves `TypeOK`, `VerdictsAreTrue`, `RetryOnlySettles` and
`FinderIsRight`, for any list, mailboxes and MX hosts, for each client, and for a
server that may turn against the prober at any command. The invariant has four parts:

* `Passes`: the first pass writes into an empty sheet, the retry over what was left
  undecided; a client waits only in the first.
* `Baselined`, inside `Trusted`: addresses are asked about only after the made-up one
  was refused, so a host that said "no such user" does not take everything.
* `Heard`: what a conversation knows was said by the host it talks to now; nothing
  is carried over from a host that was given up.
* `Searching`: a lookup of the finder asks about its whole list and is over at the first
  acceptance.

**FormatsProofs** proves `TypeOK`, `GuessesFollowEvidence` and `LookupIsHonest`, for any
addresses, formats, noise, candidates and engine runs.

* `Learned`: a format on file was proven by someone a run was told about, a row
  that reaches tier 3.5 is unscored, and one that is likely valid by then was guessed
  before and is settled. The score bounds (`ScoreBounds`) do the rest: a name alone
  scores at most 80, and at most 45 against the evidence, which is below the line of a
  guess; the lines above these numbers keep nothing unfounded.
* `SortedList` and `CutList`: ordering the candidates by weight gives a list that begins
  with a best one, and cutting it keeps that one. `Places` is the lemma under it:
  the places of the candidates are a bijection, by counting.
* `LookInv`: each answer is honest when it is given (`GuessSound`, `ListedSound`,
  `TakenSound`, `RefusedSound`, `NoMailSound`, `UnknownSound`), and nothing that happens
  later takes that away, because what was once proven stays proven. `NoMailSound` is about
  domains that take no mail; of one that is only taken for such the property says nothing.

**OfflineProofs** proves, of the engine and the programs beside it, `TypeOK`,
`VerdictsAreTrue`, `UndecidedStaysBillable` and `RowsCarryTheVerdict`, for any list with
any duplicates, any addresses and domains, every world, and any number of programs on
one database. The invariant has four parts beside the types:

* `World`: a mailbox has a domain that takes mail.
* `RowsSound`: what the live rows say is true if its source is a free tier, and an
  undecided row is settled by the vendor alone. `EntriesSound` says the same of the
  database. Neither holds without the other: a run files its rows (`NewsSound`), and a
  later run serves what is filed (`StartStep`).
* `Bystanders`: rows that are malformed, odd or duplicates stay as `_seed` left them.
  So only live rows are open (`OpenIsLive`), an address has one live row (`OneLive`),
  and a tier need only be looked at there (`TierStep`). `RowsCarryTheVerdict` follows:
  of the rows spelled like a live one, it alone is no duplicate.
* The errors with a name only grow: a domain that was once probed blindly
  (`DirectorySound`) or an address that was once misheard stays one, so an entry that
  was excused stays excused.

The attempt to prove it corrected the model twice. A CASE with overlapping guards leaves
the choice open in TLA+, though TLC takes the first; the guards of `Seeded` are disjoint
now. And `Source` used to read the entry as it is now, not as it was when it was
served: after an import of `valid`, an engine run that is served it, an import of
`unknown` and a pre-filter run that finds the domain disposable, the vendor's error counted as
the pre-filter's. Two programs, as in the run, do not show this.

Only model-checked: liveness, because the prover has no fairness: `EveryBatchReturns`,
`JobsFinish`, `EveryAddressAnswered`, `PageLearnsTheEnd`; and the absence of deadlock,
which is about ENABLED.
Every other property of a passing run has a theorem.

## 7. Where code and comments disagree

With a run that shows it:

* `smtp_servfail`: smtp_tier.py:17-19 says anything but the fake's fingerprint is
  unknown. `dig +short` prints nothing on SERVFAIL, and nothing means invalid.
* `engine_opaque`: engine.py:18-20 says never wrong towards a bounce. If the query
  about the fake fails, an opaque tenant is believed.
* `metering_probes`: api.py:8-9 says a cap on total probes. The counter counts
  requests; a list of a thousand addresses is one.

Named as exceptions in the properties that would otherwise fail:

* README.md:49-50 and clearout.py:11-12 say an address is never bought twice. It is
  bought again when the vendor's answer was "unknown", which is banked and never served
  (`Cache.lookup`), and when the answer is more than 90 days old (`RebuyHasAReason`). It
  is also bought twice by two runs that overlap, for the cache is read at the start of a
  run and written at its end; the property speaks of what was banked before a run looked.
* users.py:3-4 says accounts are metered by a daily quota. A list uploaded to the web page
  (main.py:482-529, 609-626) is checked without a call of `consume` (`QuotaKept`).
* engine.py:17-18 says invalid only on positive proof, and dns_check.py that an AAAA
  record is enough for mail. providers.py:107-112 asks for A only, so a domain with nothing
  but an AAAA record is called invalid (`VerdictsAreTrue` of Offline), and the finder says
  "not found" of everybody there (finder.py:216-219, `LookupIsHonest`).
* finder.py:190 counts a candidate that was deferred, or is full, as rejected: "not
  found" may be said of a mailbox that exists (`FinderIsRight`, `LookupIsHonest`).
* README.md:45-48 has the vendor's line at 90 by default, and README.md:152 lets it be
  set. At 80 or less a name that reads well keeps its address from the vendor with no
  evidence at all; at 45 or less, so does one that has the evidence against it
  (`GuessesFollowEvidence`).
* cache.py gives a verdict 90 days. A guess of that age rests on `domain_shapes`, which
  never expire, and an import is dated the day its file is read (cli.py:288, 456)
  (`EvidenceBounded`).
* jobs.py:122-127 swallows the error of an unlink and deletes the row all the same: the
  file is left with nothing to find it by. So are the results of a job that is deleted
  while it works: it goes on and writes them (`FilesHaveARow`).
* app.js:320 and 240 poll on an interval, whatever is unanswered. An answer "running" that
  is later than "done" repaints the panel, and the timer is off by then; one about an
  earlier job is taken for the end of the job that is watched (`PageLearnsTheEnd`,
  `LinksWork`).
* calibrate.py takes any answer about the made-up address for a baseline
  (`VerdictsAreTrue` of SmtpProbe). It measures and decides nothing.

Seen while modelling, with no property to break:

* cache.py:52-54 says formats accumulate across every list ever run. A list with
  nothing left to score files none (engine.py:250), a verdict that was bought only
  counts when a later run is served it, and a format is counted again in every run
  that is served the address (`Profile`).

## 8. What is not modelled

String rules of address parsing (an address is malformed, odd, or canonical), how
gibberish a local part looks and how candidates are spelled, shadow statistics of
the cache, the contents of result files except which verdict a row gets, how a
table is recognised in an upload, which Clearout pool pays (chosen before the run
and fixed for it), session cookies, mail texts, pages and styles, the table
`calibrate.py` prints, and the deployment scripts apart from the restarts they
cause. PROJECT.json gives the reason for each.

Smaller things the modules leave out:

* SmtpProbe: a domain with an AAAA record alone, of which the script says "no MX and no A
  record" (smtp_tier.py:89-93, 214-215); the engine does not send it such domains. A
  reply that never ends: the deadline is per line.
* Clearout: the ceiling of calls of an account over several `verify()` calls at once;
  each call has its own gate.
* Jobs: the links of the History tab (app.js:445-447), drawn from the list of jobs at one
  moment and not updated.

And two where a module allows more than the code does: the engine run of the command
line may use the vendor in Engine, and in Metering every keyed request asks for leave to
probe, also on a server that does not probe for the public. What holds of more holds of
less.

## 9. The plan

Done: the modules above, in the order Clearout, Banking with Purse, Accounts,
SmtpProbe, Jobs, Engine, Metering, Offline, Shelf with Answers, Formats; the proofs
of all of them, but for liveness.

Next, in this order:

1. Prove: that what the engine and the finder take for granted of tier 3
   (`SmtpResults`, the probes of Formats) is what SmtpProbe guarantees.
2. Model: the composition of Jobs and Banking under one event loop with several
   pools; the rows of the spend ledger by pool.
