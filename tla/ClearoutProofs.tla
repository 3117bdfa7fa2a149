--------------------------- MODULE ClearoutProofs ---------------------------
(***************************************************************************)
(* Proofs about Clearout: type correctness, the accounting of credits, the *)
(* spacing of the gate and the bound on posts after a fatal reply, for any *)
(* finite number of workers, any batches and any configuration.            *)
(***************************************************************************)
EXTENDS Clearout, FiniteSetTheorems, TLAPS

TypeInv == TypeOK /\ Passes

\* Every action keeps every variable in its type: a worker never posts more
\* often than the retry loop has passes.
LEMMA TypeStep == TypeInv /\ [Next]_vars => TypeInv'
<1> SUFFICES ASSUME TypeInv, [Next]_vars PROVE TypeInv'
  OBVIOUS
<1> USE ClearoutAssumption DEF TypeInv, TypeOK, Passes, Phases, Replies, client, vendor, history
<1>1. ASSUME NEW w \in Workers, Attempt(w) PROVE TypeInv'
  BY <1>1 DEF Attempt, MayAttempt, ReserveSlot
<1>2. ASSUME NEW w \in Workers, GiveUp(w) PROVE TypeInv'
  BY <1>2 DEF GiveUp
<1>3. ASSUME NEW w \in Workers, Post(w) PROVE TypeInv'
  BY <1>3 DEF Post
<1>4. ASSUME NEW w \in Workers, Receive(w) PROVE TypeInv'
  <2>1. CASE ReceiveVerdict(w)
    BY <1>4, <2>1 DEF Receive, ReceiveVerdict
  <2>2. CASE ReceiveFatal(w)
    BY <1>4, <2>2 DEF Receive, ReceiveFatal
  <2>3. CASE ReceiveBusy(w)
    BY <1>4, <2>3 DEF Receive, ReceiveBusy
  <2>4. CASE ReceiveUnusable(w)
    BY <1>4, <2>4 DEF Receive, ReceiveUnusable
  <2> QED
    BY <1>4, <2>1, <2>2, <2>3, <2>4 DEF Receive
<1>5. ASSUME NEW w \in Workers, LoseReply(w) PROVE TypeInv'
  BY <1>5 DEF LoseReply
<1>6. ASSUME NEW w \in Workers, Exhaust(w) PROVE TypeInv'
  BY <1>6 DEF Exhaust
<1>7. ASSUME NEW w \in Workers, Serve(w) PROVE TypeInv'
  BY <1>7 DEF Serve, Verdict, Refusal, Charge
<1>8. ASSUME NEW w \in Workers, ServeOrphan(w) PROVE TypeInv'
  BY <1>8 DEF ServeOrphan, Charge
<1>9. ASSUME NEW b \in Batches, Gather(b) PROVE TypeInv'
  BY <1>9 DEF Gather
<1>10. CASE Tick
  BY <1>10 DEF Tick
<1>11. CASE RevokeKey
  BY <1>11 DEF RevokeKey
<1>12. CASE UNCHANGED vars
  BY <1>12 DEF vars
<1> QED
  BY <1>1, <1>2, <1>3, <1>4, <1>5, <1>6, <1>7, <1>8, <1>9, <1>10, <1>11, <1>12
     DEF Next, Finished

\* TypeOK holds of every reachable state.
THEOREM TypeCorrect == Spec => []TypeOK
<1>1. Init => TypeInv
  BY ClearoutAssumption DEF Init, TypeInv, TypeOK, Passes, Phases, Replies
<1>2. TypeInv => TypeOK
  BY DEF TypeInv
<1> QED
  BY <1>1, <1>2, TypeStep, PTL DEF Spec

LEMMA TypeInvCorrect == Spec => []TypeInv
<1>1. Init => TypeInv
  BY ClearoutAssumption DEF Init, TypeInv, TypeOK, Passes, Phases, Replies
<1> QED
  BY <1>1, TypeStep, PTL DEF Spec

-----------------------------------------------------------------------------
(* The accounting of credits.                                              *)

\* No step of a worker, of gather or of the vendor loses sight of a credit.
LEMMA AccountsStep == TypeInv /\ Accounts /\ [Next]_vars => Accounts'
<1> SUFFICES ASSUME TypeInv, Accounts, [Next]_vars PROVE Accounts'
  OBVIOUS
<1> USE ClearoutAssumption
    DEF TypeInv, TypeOK, Accounts, CreditsAccounted, InHand, Of,
        Phases, Replies, client, vendor, history
<1>1. ASSUME NEW w \in Workers, Attempt(w) PROVE Accounts'
  BY <1>1 DEF Attempt, MayAttempt
<1>2. ASSUME NEW w \in Workers, GiveUp(w) PROVE Accounts'
  BY <1>2 DEF GiveUp, MayAttempt
<1>3. ASSUME NEW w \in Workers, Post(w) PROVE Accounts'
  BY <1>3 DEF Post
<1>4. ASSUME NEW w \in Workers, Receive(w) PROVE Accounts'
  <2>1. CASE ReceiveVerdict(w)
    BY <1>4, <2>1 DEF Receive, ReceiveVerdict
  <2>2. CASE ReceiveFatal(w)
    BY <1>4, <2>2 DEF Receive, ReceiveFatal
  <2>3. CASE ReceiveBusy(w)
    BY <1>4, <2>3 DEF Receive, ReceiveBusy
  <2>4. CASE ReceiveUnusable(w)
    BY <1>4, <2>4 DEF Receive, ReceiveUnusable
  <2> QED
    BY <1>4, <2>1, <2>2, <2>3, <2>4 DEF Receive
<1>5. ASSUME NEW w \in Workers, LoseReply(w) PROVE Accounts'
  BY <1>5 DEF LoseReply
<1>6. ASSUME NEW w \in Workers, Exhaust(w) PROVE Accounts'
  BY <1>6 DEF Exhaust
<1>7. ASSUME NEW w \in Workers, Serve(w) PROVE Accounts'
  <2>1. PICK r \in Replies \ {"none"} :
          /\ Verdict(w, r) \/ Refusal(w, r)
          /\ reply' = [reply EXCEPT ![w] = r]
    BY <1>7 DEF Serve
  <2>2. CASE Verdict(w, r)
    BY <1>7, <2>1, <2>2 DEF Serve, Verdict, Charge
  <2>3. CASE Refusal(w, r)
    BY <1>7, <2>1, <2>3 DEF Serve, Refusal
  <2> QED
    BY <2>1, <2>2, <2>3
<1>8. ASSUME NEW w \in Workers, ServeOrphan(w) PROVE Accounts'
  BY <1>8 DEF ServeOrphan, Charge
<1>9. ASSUME NEW b \in Batches, Gather(b) PROVE Accounts'
  BY <1>9 DEF Gather
<1>10. CASE Tick
  BY <1>10 DEF Tick
<1>11. CASE RevokeKey
  BY <1>11 DEF RevokeKey
<1>12. CASE UNCHANGED vars
  BY <1>12 DEF vars
<1> QED
  BY <1>1, <1>2, <1>3, <1>4, <1>5, <1>6, <1>7, <1>8, <1>9, <1>10, <1>11, <1>12
     DEF Next, Finished

LEMMA AccountsCorrect == Spec => []Accounts
<1>1. Init => Accounts
  BY ClearoutAssumption DEF Init, Accounts, CreditsAccounted, InHand
<1> QED
  BY <1>1, TypeInvCorrect, AccountsStep, PTL DEF Spec

\* Every credit taken is in a billed result or is the price of one lost reply.
THEOREM CreditsAreAccounted == Spec => []CreditsAccounted
<1>1. Accounts => CreditsAccounted
  BY DEF Accounts
<1> QED
  BY <1>1, AccountsCorrect, PTL

\* A result that says billed was paid for.
THEOREM BilledResultsAreCharged == Spec => []BilledIsCharged
<1>1. Accounts => BilledIsCharged
  BY DEF Accounts, BilledIsCharged
<1> QED
  BY <1>1, AccountsCorrect, PTL

\* A batch that raises VendorError throws no bought verdict away.
THEOREM RaisingLosesNoVerdict == Spec => []RaiseLosesNoVerdict
<1>1. TypeInv /\ Accounts => RaiseLosesNoVerdict
  <2> SUFFICES ASSUME TypeInv, Accounts,
                      NEW b \in Batches, outcome[b] = "raised",
                      NEW w \in Of(b)
               PROVE  charged[w] <= abandoned[w]
    BY DEF RaiseLosesNoVerdict
  <2>1. w \in Workers /\ phase[w] = "done" /\ ~billed[w]
    BY DEF Accounts, Of
  <2>2. charged[w] + orphans[w] <= abandoned[w]
    BY <2>1 DEF Accounts, CreditsAccounted, InHand, TypeInv, TypeOK
  <2> QED
    BY <2>1, <2>2 DEF TypeInv, TypeOK
<1> QED
  BY <1>1, TypeInvCorrect, AccountsCorrect, PTL

-----------------------------------------------------------------------------
(* The rate gate.                                                          *)

\* Reserving a slot, sleeping and posting keep the slots an interval apart.
LEMMA SlotsStep == TypeInv /\ Slots /\ [Next]_vars => Slots'
<1> SUFFICES ASSUME TypeInv, Slots, [Next]_vars PROVE Slots'
  OBVIOUS
<1> USE ClearoutAssumption
    DEF TypeInv, TypeOK, Slots, SlotsSpaced, Phases, client, vendor, history
<1>1. ASSUME NEW w \in Workers, Attempt(w) PROVE Slots'
  <2> DEFINE b == BatchOf[w]
  <2>1. phase[w] # "gated" /\ wait[w] = 0
    BY <1>1 DEF Attempt, MayAttempt
  <2>2. /\ wait' = [wait EXCEPT ![w] = gap[b]]
        /\ gap' = [gap EXCEPT ![b] = gap[b] + Interval]
        /\ phase' = [phase EXCEPT ![w] = "gated"]
    BY <1>1 DEF Attempt, ReserveSlot
  <2>3. \A v \in Workers \ {w} :
          wait'[v] > 0 /\ BatchOf[v] = b => wait'[w] >= wait'[v] + Interval
    BY <2>2
  <2>4. SlotsSpaced'
    BY <2>2, <2>3
  <2>5. \A v \in Workers : wait'[v] > 0 =>
          phase'[v] = "gated" /\ gap'[BatchOf[v]] >= wait'[v] + Interval
    BY <2>1, <2>2
  <2> QED
    BY <2>4, <2>5
<1>2. ASSUME NEW w \in Workers, GiveUp(w) PROVE Slots'
  BY <1>2 DEF GiveUp, MayAttempt
<1>3. ASSUME NEW w \in Workers, Post(w) PROVE Slots'
  BY <1>3 DEF Post
<1>4. ASSUME NEW w \in Workers, Receive(w) PROVE Slots'
  <2>1. phase[w] = "answered" /\ UNCHANGED <<wait, gap>>
    BY <1>4 DEF Receive
  <2>2. \A v \in Workers \ {w} : phase'[v] = phase[v]
    BY <1>4 DEF Receive, ReceiveVerdict, ReceiveFatal, ReceiveBusy, ReceiveUnusable
  <2> QED
    BY <2>1, <2>2
<1>5. ASSUME NEW w \in Workers, LoseReply(w) PROVE Slots'
  BY <1>5 DEF LoseReply
<1>6. ASSUME NEW w \in Workers, Exhaust(w) PROVE Slots'
  BY <1>6 DEF Exhaust
<1>7. ASSUME NEW w \in Workers, Serve(w) PROVE Slots'
  BY <1>7 DEF Serve
<1>8. ASSUME NEW w \in Workers, ServeOrphan(w) PROVE Slots'
  BY <1>8 DEF ServeOrphan
<1>9. ASSUME NEW b \in Batches, Gather(b) PROVE Slots'
  BY <1>9 DEF Gather
<1>10. CASE Tick
  BY <1>10 DEF Tick
<1>11. CASE RevokeKey
  BY <1>11 DEF RevokeKey
<1>12. CASE UNCHANGED vars
  BY <1>12 DEF vars
<1> QED
  BY <1>1, <1>2, <1>3, <1>4, <1>5, <1>6, <1>7, <1>8, <1>9, <1>10, <1>11, <1>12
     DEF Next, Finished

\* Two sleepers of one batch wake at least an interval apart.
THEOREM GateSpacesSlots == Spec => []SlotsSpaced
<1>1. Init => Slots
  BY ClearoutAssumption DEF Init, Slots, SlotsSpaced
<1>2. Slots => SlotsSpaced
  BY DEF Slots
<1> QED
  BY <1>1, <1>2, TypeInvCorrect, SlotsStep, PTL DEF Spec

-----------------------------------------------------------------------------
(* The semaphore, and the posts that are made after a fatal reply.         *)

\* The sets that are counted are finite, and the sleepers hold the semaphore.
LEMMA CountedSets ==
  ASSUME NEW b \in Batches
  PROVE  /\ IsFiniteSet(Holders(b)) /\ IsFiniteSet(AtGate(b))
         /\ Cardinality(Holders(b)) \in Nat /\ Cardinality(AtGate(b)) \in Nat
         /\ AtGate(b) \subseteq Holders(b)
<1>1. Holders(b) \subseteq Workers /\ AtGate(b) \subseteq Holders(b)
  BY DEF Holders, AtGate, Of
<1>2. IsFiniteSet(Holders(b))
  BY <1>1, ClearoutAssumption, FS_Subset
<1>3. IsFiniteSet(AtGate(b))
  BY <1>1, <1>2, FS_Subset
<1> QED
  BY <1>1, <1>2, <1>3, FS_CardinalityType

\* The bound survives a step in which nobody of any batch enters the pool or
\* the gate, no batch becomes doomed and no late post is made.
LEMMA DoomedByShrinking ==
  ASSUME TypeInv, TypeInv', Doomed,
         \A b \in Batches : /\ Holders(b)' \subseteq Holders(b)
                            /\ AtGate(b)' \subseteq AtGate(b)
                            /\ fatal'[b] = fatal[b]
                            /\ late'[b] = late[b]
  PROVE  Doomed'
<1> SUFFICES ASSUME NEW b \in Batches
             PROVE  /\ Cardinality(Holders(b)') <= Concurrency
                    /\ IF fatal'[b]
                       THEN late'[b] + Cardinality(AtGate(b)') <= Concurrency - 1
                       ELSE late'[b] = 0
  BY DEF Doomed, PoolBounded
<1>1. Cardinality(Holders(b)') <= Cardinality(Holders(b))
  BY CountedSets, FS_Subset
<1>2. Cardinality(AtGate(b)') <= Cardinality(AtGate(b))
  BY CountedSets, FS_Subset
<1>3. /\ Cardinality(Holders(b)') \in Nat
      /\ Cardinality(AtGate(b)') \in Nat
  <2>1. IsFiniteSet(Holders(b)') /\ IsFiniteSet(AtGate(b)')
    BY CountedSets, FS_Subset
  <2> QED
    BY <2>1, FS_CardinalityType
<1> QED
  BY <1>1, <1>2, <1>3, CountedSets, ClearoutAssumption
     DEF Doomed, PoolBounded, TypeInv, TypeOK

\* Getting the semaphore, or going round the loop, keeps both bounds.
LEMMA AttemptDoomed ==
  ASSUME TypeInv, TypeInv', Doomed, NEW w \in Workers, Attempt(w)
  PROVE  Doomed'
<1> DEFINE c == BatchOf[w]
<1>0. c \in Batches
  BY ClearoutAssumption
<1>1. /\ MayAttempt(w) /\ ~fatal[c]
      /\ phase' = [phase EXCEPT ![w] = "gated"]
      /\ fatal' = fatal /\ late' = late
  BY DEF Attempt, history
<1>2. \A b \in Batches : ~fatal'[b] => late'[b] = 0
  BY <1>1 DEF Doomed
<1>3. \A b \in Batches \ {c} : Holders(b)' = Holders(b) /\ AtGate(b)' = AtGate(b)
  BY <1>1 DEF Holders, AtGate, Of, TypeInv, TypeOK
<1>4. Cardinality(Holders(c)') <= Concurrency
  <2>1. Holders(c)' = Holders(c) \cup {w}
    BY <1>0, <1>1 DEF Holders, Of, TypeInv, TypeOK
  <2>2. CASE phase[w] = "queued"
    <3>1. w \notin Holders(c) /\ Cardinality(Holders(c)) < Concurrency
      BY <1>1, <2>2 DEF MayAttempt, Holders
    <3>2. Cardinality(Holders(c)') = Cardinality(Holders(c)) + 1
      BY <1>0, <2>1, <3>1, CountedSets, FS_AddElement
    <3> QED
      BY <1>0, <3>1, <3>2, CountedSets, ClearoutAssumption
  <2>3. CASE phase[w] = "backoff"
    <3>1. Holders(c)' = Holders(c)
      BY <2>1, <2>3 DEF Holders, Of
    <3> QED
      BY <1>0, <3>1 DEF Doomed, PoolBounded
  <2> QED
    BY <1>1, <2>2, <2>3 DEF MayAttempt
<1> QED
  BY <1>0, <1>1, <1>2, <1>3, <1>4 DEF Doomed, PoolBounded

\* A late post is one sleeper less.
LEMMA PostDoomed ==
  ASSUME TypeInv, TypeInv', Doomed, NEW w \in Workers, Post(w)
  PROVE  Doomed'
<1> DEFINE c == BatchOf[w]
<1>0. c \in Batches
  BY ClearoutAssumption
<1>1. /\ phase[w] = "gated"
      /\ phase' = [phase EXCEPT ![w] = "posted"]
      /\ fatal' = fatal
      /\ late' = IF fatal[c] THEN [late EXCEPT ![c] = @ + 1] ELSE late
  BY DEF Post
<1>2. \A b \in Batches : Holders(b)' = Holders(b)
  BY <1>1 DEF Holders, Of, TypeInv, TypeOK
<1>3. \A b \in Batches \ {c} : AtGate(b)' = AtGate(b) /\ late'[b] = late[b]
  BY <1>1 DEF AtGate, Of, TypeInv, TypeOK
<1>4. Cardinality(AtGate(c)') = Cardinality(AtGate(c)) - 1
  <2>1. w \in AtGate(c) /\ AtGate(c)' = AtGate(c) \ {w}
    BY <1>1 DEF AtGate, Of, TypeInv, TypeOK
  <2> QED
    BY <1>0, <2>1, CountedSets, FS_RemoveElement
<1>5. IF fatal'[c] THEN late'[c] + Cardinality(AtGate(c)') <= Concurrency - 1
                   ELSE late'[c] = 0
  BY <1>0, <1>1, <1>4, CountedSets, ClearoutAssumption DEF Doomed, TypeInv, TypeOK
<1> QED
  BY <1>1, <1>2, <1>3, <1>5 DEF Doomed, PoolBounded

\* The worker that meets the fatal reply is in the pool and not at the gate.
LEMMA FatalDoomed ==
  ASSUME TypeInv, TypeInv', Doomed, NEW w \in Workers,
         Receive(w), ReceiveFatal(w)
  PROVE  Doomed'
<1> DEFINE c == BatchOf[w]
<1>0. c \in Batches
  BY ClearoutAssumption
<1>1. /\ phase[w] = "answered"
      /\ phase' = [phase EXCEPT ![w] = "done"]
      /\ fatal' = [fatal EXCEPT ![c] = TRUE]
      /\ late' = late
  BY DEF Receive, ReceiveFatal
<1>2. \A b \in Batches : AtGate(b)' = AtGate(b)
  BY <1>1 DEF AtGate, Of, TypeInv, TypeOK
<1>3. \A b \in Batches : Holders(b)' \subseteq Holders(b)
  BY <1>1 DEF Holders, Of, TypeInv, TypeOK
<1>4. \A b \in Batches : Cardinality(Holders(b)') <= Concurrency
  <2> SUFFICES ASSUME NEW b \in Batches
               PROVE  Cardinality(Holders(b)') <= Concurrency
    OBVIOUS
  <2>1. /\ IsFiniteSet(Holders(b)')
        /\ Cardinality(Holders(b)') <= Cardinality(Holders(b))
    BY <1>3, CountedSets, FS_Subset
  <2>2. Cardinality(Holders(b)') \in Nat
    BY <2>1, FS_CardinalityType
  <2> QED
    BY <2>1, <2>2, CountedSets, ClearoutAssumption DEF Doomed, PoolBounded
<1>5. Cardinality(AtGate(c)) <= Cardinality(Holders(c)) - 1
  <2>1. AtGate(c) \subseteq Holders(c) \ {w} /\ w \in Holders(c)
    BY <1>1 DEF AtGate, Holders, Of
  <2>2. /\ IsFiniteSet(Holders(c) \ {w})
        /\ Cardinality(Holders(c) \ {w}) = Cardinality(Holders(c)) - 1
    BY <1>0, <2>1, CountedSets, FS_RemoveElement
  <2> QED
    BY <2>1, <2>2, FS_Subset
<1>6. late'[c] + Cardinality(AtGate(c)') <= Concurrency - 1
  <2>1. CASE fatal[c]
    BY <1>0, <1>1, <1>2, <2>1 DEF Doomed
  <2>2. CASE ~fatal[c]
    BY <1>0, <1>1, <1>2, <1>5, <2>2, CountedSets, ClearoutAssumption
       DEF Doomed, PoolBounded, TypeInv, TypeOK
  <2> QED
    BY <2>1, <2>2
<1> QED
  BY <1>0, <1>1, <1>2, <1>4, <1>6 DEF Doomed, PoolBounded, TypeInv, TypeOK

LEMMA DoomedStep == TypeInv /\ TypeInv' /\ Doomed /\ [Next]_vars => Doomed'
<1> SUFFICES ASSUME TypeInv, TypeInv', Doomed, [Next]_vars PROVE Doomed'
  OBVIOUS
<1> USE ClearoutAssumption
    DEF TypeInv, TypeOK, Holders, AtGate, Of, Phases, client, vendor, history
<1>1. ASSUME NEW w \in Workers, Attempt(w) PROVE Doomed'
  BY <1>1, AttemptDoomed
<1>2. ASSUME NEW w \in Workers, GiveUp(w) PROVE Doomed'
  BY <1>2, DoomedByShrinking DEF GiveUp
<1>3. ASSUME NEW w \in Workers, Post(w) PROVE Doomed'
  BY <1>3, PostDoomed
<1>4. ASSUME NEW w \in Workers, Receive(w) PROVE Doomed'
  <2>1. CASE ReceiveFatal(w)
    BY <1>4, <2>1, FatalDoomed
  <2>2. CASE ReceiveVerdict(w)
    BY <1>4, <2>2, DoomedByShrinking DEF Receive, ReceiveVerdict
  <2>3. CASE ReceiveBusy(w)
    BY <1>4, <2>3, DoomedByShrinking DEF Receive, ReceiveBusy
  <2>4. CASE ReceiveUnusable(w)
    BY <1>4, <2>4, DoomedByShrinking DEF Receive, ReceiveUnusable
  <2> QED
    BY <1>4, <2>1, <2>2, <2>3, <2>4 DEF Receive
<1>5. ASSUME NEW w \in Workers, LoseReply(w) PROVE Doomed'
  BY <1>5, DoomedByShrinking DEF LoseReply
<1>6. ASSUME NEW w \in Workers, Exhaust(w) PROVE Doomed'
  BY <1>6, DoomedByShrinking DEF Exhaust
<1>7. ASSUME NEW w \in Workers, Serve(w) PROVE Doomed'
  BY <1>7, DoomedByShrinking DEF Serve
<1>8. ASSUME NEW w \in Workers, ServeOrphan(w) PROVE Doomed'
  BY <1>8, DoomedByShrinking DEF ServeOrphan
<1>9. ASSUME NEW b \in Batches, Gather(b) PROVE Doomed'
  BY <1>9, DoomedByShrinking DEF Gather
<1>10. CASE Tick
  BY <1>10, DoomedByShrinking DEF Tick
<1>11. CASE RevokeKey
  BY <1>11, DoomedByShrinking DEF RevokeKey
<1>12. CASE UNCHANGED vars
  BY <1>12, DoomedByShrinking DEF vars
<1> QED
  BY <1>1, <1>2, <1>3, <1>4, <1>5, <1>6, <1>7, <1>8, <1>9, <1>10, <1>11, <1>12
     DEF Next, Finished

LEMMA DoomedCorrect == Spec => []Doomed
<1>1. Init => Doomed
  <2> SUFFICES ASSUME Init, NEW b \in Batches
               PROVE  Cardinality(Holders(b)) <= Concurrency /\ ~fatal[b] /\ late[b] = 0
    BY DEF Doomed, PoolBounded
  <2>1. Holders(b) = {}
    BY ClearoutAssumption DEF Init, Holders, Of
  <2> QED
    BY <2>1, FS_EmptySet, ClearoutAssumption DEF Init
<1> QED
  BY <1>1, TypeInvCorrect, DoomedStep, PTL DEF Spec

\* The semaphore bounds the pool of every batch.
THEOREM SemaphoreBoundsPool == Spec => []PoolBounded
<1>1. Doomed => PoolBounded
  BY DEF Doomed
<1> QED
  BY <1>1, DoomedCorrect, PTL

\* After a fatal reply, fewer posts are made than the pool has places.
THEOREM LatePostsAreBounded == Spec => []LatePostsBounded
<1>1. TypeInv /\ Doomed => LatePostsBounded
  <2> SUFFICES ASSUME TypeInv, Doomed, NEW b \in Batches
               PROVE  late[b] <= Concurrency - 1
    BY DEF LatePostsBounded
  <2> QED
    BY CountedSets, ClearoutAssumption DEF Doomed, TypeInv, TypeOK
<1> QED
  BY <1>1, TypeInvCorrect, DoomedCorrect, PTL
=============================================================================
