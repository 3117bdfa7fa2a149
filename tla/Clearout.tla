------------------------------ MODULE Clearout ------------------------------
(***************************************************************************)
(* The paid tier: prefilter/clearout.py, verify() and _verify_one().       *)
(*                                                                         *)
(* A verify() call ("batch") starts one worker per address.  A semaphore   *)
(* lets Concurrency of them run; each makes at most MaxRetries posts, all  *)
(* of them spaced by the rate gate of the batch, and stops early when a    *)
(* worker of the batch has met a fatal reply.  The vendor is external: it  *)
(* may charge a request whose reply never arrives, and may serve a request *)
(* the client has already given up.                                        *)
(*                                                                         *)
(* Time is kept relative: gap[b] is _next - now and wait[w] is what is     *)
(* left of the sleep in _RateGate.wait, both cut off at zero, so no clock  *)
(* grows and no bound on it is needed.                                     *)
(***************************************************************************)
EXTENDS Naturals, FiniteSets

CONSTANTS
  Workers,      \* one worker coroutine per address of a batch
  Batches,      \* the verify() calls in progress at the same time
  BatchOf,      \* the batch a worker belongs to
  Concurrency,  \* Config.concurrency
  MaxRetries,   \* Config.max_retries
  Interval,     \* 60 / Config.max_rpm, in ticks; 0 switches the gate off
  Balance       \* credits on the vendor account when the batches start

ASSUME ClearoutAssumption ==
  /\ BatchOf \in [Workers -> Batches]
  /\ IsFiniteSet(Workers)
  /\ Concurrency \in Nat \ {0}
  /\ MaxRetries \in Nat \ {0}
  /\ Interval \in Nat
  /\ Balance \in Nat

VARIABLES
  phase,     \* where each worker is in _verify_one
  tries,     \* posts the worker has made
  wait,      \* ticks left of the worker's sleep at the gate
  gap,       \* ticks until the next free slot of the batch's gate
  fatal,     \* the shared one-slot list of the batch is not empty
  billed,    \* VendorResult.billed of the worker's result
  outcome,   \* what verify() did: still "running", "returned" or "raised"
  reply,     \* the reply on its way to the worker
  balance, keyOk, orphans,          \* the vendor's side
  charged, abandoned, late          \* history, read by properties only

client == <<phase, tries, wait, gap, fatal, billed, outcome>>
vendor == <<balance, keyOk, orphans>>
history == <<charged, abandoned, late>>
vars == <<client, reply, vendor, history>>

Phases == {"queued", "gated", "posted", "answered", "backoff", "done"}
Replies == {"none", "success", "denied", "broke", "busy", "refused", "garbled"}

Of(b) == {w \in Workers : BatchOf[w] = b}
\* Workers inside "async with semaphore".
Holders(b) == {w \in Of(b) : phase[w] \notin {"queued", "done"}}
AtGate(b) == {w \in Of(b) : phase[w] = "gated"}

TypeOK ==
  /\ phase \in [Workers -> Phases]
  /\ tries \in [Workers -> 0 .. MaxRetries]
  /\ wait \in [Workers -> Nat]
  /\ gap \in [Batches -> Nat]
  /\ fatal \in [Batches -> BOOLEAN]
  /\ billed \in [Workers -> BOOLEAN]
  /\ outcome \in [Batches -> {"running", "returned", "raised"}]
  /\ reply \in [Workers -> Replies]
  /\ balance \in Nat
  /\ keyOk \in BOOLEAN
  /\ orphans \in [Workers -> Nat]
  /\ charged \in [Workers -> Nat]
  /\ abandoned \in [Workers -> Nat]
  /\ late \in [Batches -> Nat]

Init ==
  /\ phase = [w \in Workers |-> "queued"]
  /\ tries = [w \in Workers |-> 0]
  /\ wait = [w \in Workers |-> 0]
  /\ gap = [b \in Batches |-> 0]
  /\ fatal = [b \in Batches |-> FALSE]
  /\ billed = [w \in Workers |-> FALSE]
  /\ outcome = [b \in Batches |-> "running"]
  /\ reply = [w \in Workers |-> "none"]
  /\ balance = Balance
  /\ keyOk = TRUE
  /\ orphans = [w \in Workers |-> 0]
  /\ charged = [w \in Workers |-> 0]
  /\ abandoned = [w \in Workers |-> 0]
  /\ late = [b \in Batches |-> 0]

-----------------------------------------------------------------------------
(* The worker.                                                             *)

MayAttempt_OneMoreTry(w) ==
  \/ /\ phase[w] = "queued"
     /\ Cardinality(Holders(BatchOf[w])) < Concurrency
  \/ /\ phase[w] = "backoff"
     /\ tries[w] <= MaxRetries

\* The worker is about to begin a pass of the retry loop: it has just got the
\* semaphore, or the backoff of its last pass is over and passes are left.
MayAttempt(w) ==
  \/ /\ phase[w] = "queued"
     /\ Cardinality(Holders(BatchOf[w])) < Concurrency
  \/ /\ phase[w] = "backoff"
     /\ tries[w] < MaxRetries

ReserveSlot_FromNow(w) ==
  /\ wait' = [wait EXCEPT ![w] = gap[BatchOf[w]]]
  /\ gap' = [gap EXCEPT ![BatchOf[w]] = Interval]

\* _RateGate.wait up to its sleep: no await, so one step.
ReserveSlot(w) ==
  /\ wait' = [wait EXCEPT ![w] = gap[BatchOf[w]]]
  /\ gap' = [gap EXCEPT ![BatchOf[w]] = @ + Interval]

Attempt_FatalReadOnce(w) ==
  /\ MayAttempt(w)
  /\ phase[w] = "queued" => ~fatal[BatchOf[w]]
  /\ ReserveSlot(w)
  /\ phase' = [phase EXCEPT ![w] = "gated"]
  /\ UNCHANGED <<tries, fatal, billed, outcome, reply, vendor, history>>

\* No fatal reply so far: take a slot and sleep until it is due.
Attempt(w) ==
  /\ MayAttempt(w)
  /\ ~fatal[BatchOf[w]]
  /\ ReserveSlot(w)
  /\ phase' = [phase EXCEPT ![w] = "gated"]
  /\ UNCHANGED <<tries, fatal, billed, outcome, reply, vendor, history>>

\* A fatal reply reached some worker of the batch: return its error.
GiveUp(w) ==
  /\ MayAttempt(w)
  /\ fatal[BatchOf[w]]
  /\ phase' = [phase EXCEPT ![w] = "done"]
  /\ UNCHANGED <<tries, wait, gap, fatal, billed, outcome, reply, vendor, history>>

Post_Uncounted(w) ==
  /\ phase[w] = "gated"
  /\ wait[w] = 0
  /\ phase' = [phase EXCEPT ![w] = "posted"]
  /\ UNCHANGED <<tries, wait, gap, fatal, billed, outcome, reply, vendor, history>>

\* The slot is due: post.  fatal is not looked at again after the sleep.
Post(w) ==
  /\ phase[w] = "gated"
  /\ wait[w] = 0
  /\ phase' = [phase EXCEPT ![w] = "posted"]
  /\ tries' = [tries EXCEPT ![w] = @ + 1]
  /\ late' = IF fatal[BatchOf[w]]
             THEN [late EXCEPT ![BatchOf[w]] = @ + 1] ELSE late
  /\ UNCHANGED <<wait, gap, fatal, billed, outcome, reply, vendor, charged, abandoned>>

ReceiveVerdict_Retried(w) ==
  /\ reply[w] = "success"
  /\ phase' = [phase EXCEPT ![w] = "backoff"]
  /\ UNCHANGED <<fatal, billed, abandoned>>

\* 200 with status "success": _interpret, the only place a result is billed.
ReceiveVerdict(w) ==
  /\ reply[w] = "success"
  /\ billed' = [billed EXCEPT ![w] = TRUE]
  /\ phase' = [phase EXCEPT ![w] = "done"]
  /\ UNCHANGED <<fatal, abandoned>>

\* 401, 403 or 402: the whole batch is doomed.
ReceiveFatal(w) ==
  /\ reply[w] \in {"denied", "broke"}
  /\ fatal' = [fatal EXCEPT ![BatchOf[w]] = TRUE]
  /\ phase' = [phase EXCEPT ![w] = "done"]
  /\ UNCHANGED <<billed, abandoned>>

\* 429 or 5xx: back off, then try again.
ReceiveBusy(w) ==
  /\ reply[w] = "busy"
  /\ phase' = [phase EXCEPT ![w] = "backoff"]
  /\ UNCHANGED <<fatal, billed, abandoned>>

\* A rejected address, or a 200 whose body is not JSON: unbilled, no retry.
ReceiveUnusable(w) ==
  /\ reply[w] \in {"refused", "garbled"}
  /\ phase' = [phase EXCEPT ![w] = "done"]
  /\ abandoned' = IF reply[w] = "garbled"
                  THEN [abandoned EXCEPT ![w] = @ + 1] ELSE abandoned
  /\ UNCHANGED <<fatal, billed>>

Receive(w) ==
  /\ phase[w] = "answered"
  /\ \/ ReceiveVerdict(w)
     \/ ReceiveFatal(w)
     \/ ReceiveBusy(w)
     \/ ReceiveUnusable(w)
  /\ reply' = [reply EXCEPT ![w] = "none"]
  /\ UNCHANGED <<tries, wait, gap, outcome, vendor, charged, late>>

\* Our deadline passes or the connection breaks, before or after the vendor
\* has served the request.  (A 5xx from a proxy in front of a vendor that is
\* still working, such as 524, is the same event.)
LoseReply(w) ==
  /\ phase[w] \in {"posted", "answered"}
  /\ phase' = [phase EXCEPT ![w] = "backoff"]
  /\ reply' = [reply EXCEPT ![w] = "none"]
  /\ orphans' = IF phase[w] = "posted"
                THEN [orphans EXCEPT ![w] = @ + 1] ELSE orphans
  /\ abandoned' = [abandoned EXCEPT ![w] = @ + 1]
  /\ UNCHANGED <<tries, wait, gap, fatal, billed, outcome, balance, keyOk, charged, late>>

\* The backoff after the last pass ends the loop.
Exhaust(w) ==
  /\ phase[w] = "backoff"
  /\ tries[w] = MaxRetries
  /\ phase' = [phase EXCEPT ![w] = "done"]
  /\ UNCHANGED <<tries, wait, gap, fatal, billed, outcome, reply, vendor, history>>

-----------------------------------------------------------------------------
(* verify(): gather() returns when every worker has.                       *)

Gather_RaiseAnyway(b) ==
  /\ outcome[b] = "running"
  /\ \A w \in Of(b) : phase[w] = "done"
  /\ outcome' = [outcome EXCEPT ![b] = IF fatal[b] THEN "raised" ELSE "returned"]
  /\ UNCHANGED <<phase, tries, wait, gap, fatal, billed, reply, vendor, history>>

Gather(b) ==
  /\ outcome[b] = "running"
  /\ \A w \in Of(b) : phase[w] = "done"
  /\ outcome' = [outcome EXCEPT ![b] =
        IF fatal[b] /\ \A w \in Of(b) : ~billed[w] THEN "raised" ELSE "returned"]
  /\ UNCHANGED <<phase, tries, wait, gap, fatal, billed, reply, vendor, history>>

\* One tick of the clock, for every sleeper and every gate.
Tick ==
  /\ \/ \E w \in Workers : wait[w] > 0
     \/ \E b \in Batches : gap[b] > 0
  /\ wait' = [w \in Workers |-> IF wait[w] > 0 THEN wait[w] - 1 ELSE 0]
  /\ gap' = [b \in Batches |-> IF gap[b] > 0 THEN gap[b] - 1 ELSE 0]
  /\ UNCHANGED <<phase, tries, fatal, billed, outcome, reply, vendor, history>>

-----------------------------------------------------------------------------
(* The vendor.                                                             *)

Charge(w) ==
  /\ keyOk
  /\ balance > 0
  /\ balance' = balance - 1
  /\ charged' = [charged EXCEPT ![w] = @ + 1]

\* The replies the vendor may give, charging or not.
Verdict(w, r) == r \in {"success", "garbled"} /\ Charge(w)
Refusal(w, r) ==
  /\ \/ r = "denied" /\ ~keyOk
     \/ r = "broke" /\ keyOk /\ balance = 0
     \/ r \in {"busy", "refused", "garbled"}
  /\ UNCHANGED <<balance, charged>>

Serve(w) ==
  /\ phase[w] = "posted"
  /\ \E r \in Replies \ {"none"} :
       /\ Verdict(w, r) \/ Refusal(w, r)
       /\ reply' = [reply EXCEPT ![w] = r]
  /\ phase' = [phase EXCEPT ![w] = "answered"]
  /\ UNCHANGED <<tries, wait, gap, fatal, billed, outcome, keyOk, orphans, abandoned, late>>

\* A request nobody waits for any more is served, and may still be charged.
ServeOrphan(w) ==
  /\ orphans[w] > 0
  /\ orphans' = [orphans EXCEPT ![w] = @ - 1]
  /\ Charge(w) \/ UNCHANGED <<balance, charged>>
  /\ UNCHANGED <<client, reply, keyOk, abandoned, late>>

RevokeKey ==
  /\ keyOk
  /\ keyOk' = FALSE
  /\ UNCHANGED <<client, reply, balance, orphans, history>>

-----------------------------------------------------------------------------

WorkerStep(w) ==
  Attempt(w) \/ GiveUp(w) \/ Post(w) \/ Receive(w) \/ LoseReply(w) \/ Exhaust(w)

Done == \A b \in Batches : outcome[b] # "running"

\* Every batch has returned: the remaining steps are the vendor's own.
Finished == Done /\ UNCHANGED vars

Next ==
  \/ \E w \in Workers :
       \/ Attempt(w) \/ GiveUp(w) \/ Post(w) \/ Receive(w) \/ LoseReply(w)
       \/ Exhaust(w) \/ Serve(w) \/ ServeOrphan(w)
  \/ \E b \in Batches : Gather(b)
  \/ Tick
  \/ RevokeKey
  \/ Finished

\* Coroutines are resumed when what they wait for is ready, sleeps end, and a
\* posted request is answered or runs into the HTTP deadline.  Nothing is
\* assumed of the vendor: LoseReply alone is enough for a posted request.
Fairness ==
  /\ \A w \in Workers : WF_vars(WorkerStep(w))
  /\ \A b \in Batches : WF_vars(Gather(b))
  /\ WF_vars(Tick)

Spec == Init /\ [][Next]_vars
FairSpec == Spec /\ Fairness

-----------------------------------------------------------------------------
(* Properties.                                                             *)

InHand(w) ==
  \/ billed[w]
  \/ phase[w] = "answered" /\ reply[w] \in {"success", "garbled"}

\* Every credit the vendor took for an address is in a billed result, or is
\* the price of one request whose reply was lost: the retry loop itself never
\* drops an answer it was given (clearout.py, "A credit spent is a credit
\* banked").
CreditsAccounted ==
  \A w \in Workers :
    charged[w] + orphans[w] <= abandoned[w] + (IF InHand(w) THEN 1 ELSE 0)

\* A result that says billed was paid for, whatever was retried on the way.
BilledIsCharged == \A w \in Workers : billed[w] => charged[w] > 0

\* verify() raises VendorError, and so throws every result of the batch away,
\* only if all the credits it cost were lost on the wire.
RaiseLosesNoVerdict ==
  \A b \in Batches : outcome[b] = "raised" =>
    \A w \in Of(b) : charged[w] <= abandoned[w]

\* The semaphore bounds the workers that are past it.
PoolBounded == \A b \in Batches : Cardinality(Holders(b)) <= Concurrency

\* Workers asleep at the gate when the batch is doomed still make their post,
\* one each, and there are fewer of them than the semaphore admits: the batch
\* does not "grind through hundreds of requests that cannot succeed".
LatePostsBounded == \A b \in Batches : late[b] <= Concurrency - 1

\* Two sleepers of one batch wake at least Interval apart.
SlotsSpaced ==
  \A v, w \in Workers :
    ( /\ v # w /\ BatchOf[v] = BatchOf[w]
      /\ wait[v] > 0 /\ wait[w] > 0 )
    => wait[v] >= wait[w] + Interval \/ wait[w] >= wait[v] + Interval

-----------------------------------------------------------------------------
(* The inductive invariant behind the safety properties, by concern.       *)

\* A worker that is about to post has a post left.
Passes ==
  \A w \in Workers :
    /\ phase[w] = "queued" => tries[w] = 0
    /\ phase[w] = "gated" => tries[w] < MaxRetries

\* Where the money is: replies exist only while they are being read, a billed
\* result is final, and a finished batch is finished for all its workers.
Accounts ==
  /\ CreditsAccounted
  /\ \A w \in Workers :
       /\ phase[w] # "answered" => reply[w] = "none"
       /\ billed[w] => phase[w] = "done"
       /\ billed[w] \/ reply[w] = "success" => charged[w] > 0
  /\ \A b \in Batches :
       /\ outcome[b] # "running" => \A w \in Of(b) : phase[w] = "done"
       /\ outcome[b] = "raised" => \A w \in Of(b) : ~billed[w]

\* The next free slot is a full interval after every slot still slept for.
Slots ==
  /\ SlotsSpaced
  /\ \A w \in Workers : wait[w] > 0 =>
       /\ phase[w] = "gated"
       /\ gap[BatchOf[w]] >= wait[w] + Interval

\* Who can still post once the batch is doomed: the sleepers, and the worker
\* that met the fatal reply is not one of them.
Doomed ==
  /\ PoolBounded
  /\ \A b \in Batches :
       IF fatal[b] THEN late[b] + Cardinality(AtGate(b)) <= Concurrency - 1
                   ELSE late[b] = 0

IInv == TypeOK /\ Passes /\ Accounts /\ Slots /\ Doomed

-----------------------------------------------------------------------------
\* Every verify() call comes back, though the vendor may never answer and the
\* semaphore and the gate make workers wait for one another.
EveryBatchReturns == \A b \in Batches : <>(outcome[b] # "running")

=============================================================================
