---------------------------- MODULE OutboxProofs ----------------------------
(***************************************************************************)
(* Proofs about the outbox, for any number of relays and events, any batch *)
(* size and any retry limit.  ClaimInv is inductive by itself; the facts   *)
(* about what Kafka holds are proved on top of it.                           *)
(***************************************************************************)
EXTENDS Outbox, TLAPS

\* A relay without work holds no event.
IdleHoldsNothing ==
  \A r \in Relays : pc[r] \in {"down", "idle"} => batch[r] = {}

\* RetryBudget, strengthened to the rows a relay is working on.
OpenHasRetries ==
  \A e \in Events :
    /\ status[e] \in {"absent", "pending", "processing"} => retries[e] < MaxRetries
    /\ status[e] = "failed" => retries[e] = MaxRetries

ClaimInv ==
  /\ TypeOK
  /\ IdleHoldsNothing
  /\ OpenHasRetries
  /\ ClaimIsCurrent
  /\ ExclusiveClaim

\* What every step of the proofs expands.
USE DEF Statuses, Labels, Budget

\* No relay holds anything at first.
LEMMA ClaimInvInit == Init => ClaimInv
<1> SUFFICES ASSUME Init PROVE ClaimInv
  OBVIOUS
<1>1. TypeOK
  BY OutboxAssumption DEF Init, TypeOK
<1>2. IdleHoldsNothing /\ ClaimIsCurrent /\ ExclusiveClaim
  BY DEF Init, IdleHoldsNothing, ClaimIsCurrent, ExclusiveClaim
<1>3. OpenHasRetries
  BY OutboxAssumption DEF Init, OpenHasRetries
<1> QED
  BY <1>1, <1>2, <1>3 DEF ClaimInv

\* A fault spends its budget; a call cut short by Stop costs nothing.
LEMMA BudgetTyped ==
  ASSUME TypeOK
  PROVE  /\ \A kind \in DOMAIN Budget : Spend(kind) => left' \in [DOMAIN Budget -> Nat]
         /\ \A r \in Relays : CallFails(r) => left' \in [DOMAIN Budget -> Nat]
<1>1. \A kind \in DOMAIN Budget : Spend(kind) => left' \in [DOMAIN Budget -> Nat]
  BY DEF Spend, TypeOK
<1>2. "fault" \in DOMAIN Budget
  OBVIOUS
<1> QED
  BY <1>1, <1>2 DEF CallFails, TypeOK

\* Enqueue touches a row nobody has claimed.
LEMMA ClaimInvEnqueue ==
  ASSUME ClaimInv, NEW e \in Events, Enqueue(e)
  PROVE  ClaimInv'
<1> USE DEF ClaimInv
<1>1. TypeOK'
  BY DEF Enqueue, TypeOK
<1>2. IdleHoldsNothing' /\ ExclusiveClaim'
  BY DEF Enqueue, IdleHoldsNothing, ExclusiveClaim
<1>3. OpenHasRetries'
  BY DEF Enqueue, TypeOK, OpenHasRetries
<1>4. ClaimIsCurrent'
  BY DEF Enqueue, TypeOK, ClaimIsCurrent
<1> QED
  BY <1>1, <1>2, <1>3, <1>4

\* RetryFailed touches failed rows only, which nobody has claimed.
LEMMA ClaimInvRetryFailed ==
  ASSUME ClaimInv, RetryFailed
  PROVE  ClaimInv'
<1> USE DEF ClaimInv
<1>1. TypeOK'
  BY OutboxAssumption DEF RetryFailed, Spend, TypeOK
<1>2. IdleHoldsNothing' /\ ExclusiveClaim'
  BY DEF RetryFailed, IdleHoldsNothing, ExclusiveClaim
<1>3. OpenHasRetries'
  BY OutboxAssumption DEF RetryFailed, Resettable, TypeOK, OpenHasRetries
<1>4. ClaimIsCurrent'
  BY DEF RetryFailed, Resettable, TypeOK, ClaimIsCurrent
<1> QED
  BY <1>1, <1>2, <1>3, <1>4

\* Start, Stop, Exit, Crash: only the relay's own life changes, and a crashed or
\* stopped relay holds nothing.
LEMMA ClaimInvLife ==
  ASSUME ClaimInv, NEW r \in Relays, Start(r) \/ Stop(r) \/ Exit(r) \/ Crash(r)
  PROVE  ClaimInv'
<1> USE DEF ClaimInv
<1>1. TypeOK'
  <2>1. "stop" \in DOMAIN Budget /\ "crash" \in DOMAIN Budget
    OBVIOUS
  <2>2. left' \in [DOMAIN Budget -> Nat]
    BY <2>1, BudgetTyped DEF Start, Stop, Exit, Crash, TypeOK
  <2> HIDE DEF Budget
  <2>3. CASE Start(r) \/ Stop(r)
    BY <2>2, <2>3 DEF Start, Stop, TypeOK
  <2>4. CASE Exit(r) \/ Crash(r)
    BY <2>2, <2>4 DEF Exit, Crash, TypeOK
  <2> QED
    BY <2>3, <2>4
<1>2. IdleHoldsNothing'
  BY DEF Start, Stop, Exit, Crash, TypeOK, IdleHoldsNothing
<1>3. OpenHasRetries'
  BY DEF Start, Stop, Exit, Crash, OpenHasRetries
<1>4. ClaimIsCurrent'
  <2> HIDE DEF Budget
  <2>1. CASE Start(r) \/ Stop(r)
    BY <2>1 DEF Start, Stop, TypeOK, IdleHoldsNothing, ClaimIsCurrent
  <2>2. CASE Exit(r) \/ Crash(r)
    BY <2>2 DEF Exit, Crash, TypeOK, IdleHoldsNothing, ClaimIsCurrent
  <2> QED
    BY <2>1, <2>2
<1>5. ExclusiveClaim'
  BY DEF Start, Stop, Exit, Crash, TypeOK, ExclusiveClaim
<1> QED
  BY <1>1, <1>2, <1>3, <1>4, <1>5

\* The select takes pending rows no other relay has locked: the batches stay apart.
LEMMA ClaimInvFetchSelect ==
  ASSUME ClaimInv, NEW r \in Relays, FetchSelect(r)
  PROVE  ClaimInv'
<1> USE DEF ClaimInv
<1>1. PICK S \in SUBSET Claimable :
        /\ batch' = [batch EXCEPT ![r] = S]
        /\ seen' = [seen EXCEPT ![r] = [e \in Events |-> IF e \in S THEN retries[e] ELSE @[e]]]
  BY DEF FetchSelect
<1>2. /\ S \subseteq Events
      /\ \A e \in S : status[e] = "pending"
      /\ \A e \in S, s \in Relays : pc[s] = "claiming" => e \notin batch[s]
  BY <1>1 DEF Claimable, IsFetchable, LockedRows
<1>3. pc[r] = "idle" /\ pc' = [pc EXCEPT ![r] = "claiming"]
  BY DEF FetchSelect
<1>4. UNCHANGED <<status, retries, cancelled, topic, acked, unsure, left>>
  BY DEF FetchSelect
<1>5. TypeOK'
  BY <1>1, <1>2, <1>3, <1>4 DEF TypeOK
<1>6. IdleHoldsNothing'
  BY <1>1, <1>3 DEF TypeOK, IdleHoldsNothing
<1>7. OpenHasRetries'
  BY <1>4 DEF OpenHasRetries
<1>8. ClaimIsCurrent'
  BY <1>1, <1>2, <1>3, <1>4 DEF TypeOK, ClaimIsCurrent
<1>9. \A e \in S, s \in Relays : e \notin batch[s]
  \* An event of another relay's batch is locked, or no longer pending.
  BY <1>2 DEF TypeOK, ClaimIsCurrent
<1>10. ExclusiveClaim'
  BY <1>1, <1>9 DEF TypeOK, ExclusiveClaim
<1> QED
  BY <1>5, <1>6, <1>7, <1>8, <1>10

\* The commit moves the rows of this batch, and of no other, to processing.
LEMMA ClaimInvFetchCommit ==
  ASSUME ClaimInv, NEW r \in Relays, FetchCommit(r)
  PROVE  ClaimInv'
<1> USE DEF ClaimInv
<1>1. TypeOK'
  BY DEF FetchCommit, Processing, TypeOK
<1>2. IdleHoldsNothing' /\ ExclusiveClaim'
  BY DEF FetchCommit, TypeOK, IdleHoldsNothing, ExclusiveClaim
<1>3. OpenHasRetries'
  BY DEF FetchCommit, Processing, TypeOK, ClaimIsCurrent, OpenHasRetries
<1>4. ClaimIsCurrent'
  BY DEF FetchCommit, Processing, TypeOK, ExclusiveClaim, ClaimIsCurrent
<1> QED
  BY <1>1, <1>2, <1>3, <1>4

\* FetchFail drops the whole batch, whether or not the claim was committed.
LEMMA ClaimInvFetchFail ==
  ASSUME ClaimInv, NEW r \in Relays, FetchFail(r)
  PROVE  ClaimInv'
<1> USE DEF ClaimInv
<1>1. TypeOK'
  <2>1. left' \in [DOMAIN Budget -> Nat]
    BY BudgetTyped DEF FetchFail
  <2> HIDE DEF Budget
  <2> QED
    BY <2>1 DEF FetchFail, Processing, TypeOK
<1>2. IdleHoldsNothing' /\ ExclusiveClaim'
  BY DEF FetchFail, TypeOK, IdleHoldsNothing, ExclusiveClaim
<1>3. OpenHasRetries'
  BY DEF FetchFail, Processing, TypeOK, ClaimIsCurrent, OpenHasRetries
<1>4. ClaimIsCurrent'
  BY DEF FetchFail, Processing, TypeOK, ExclusiveClaim, ClaimIsCurrent
<1> QED
  BY <1>1, <1>2, <1>3, <1>4

\* Publishing changes no row.
LEMMA ClaimInvPublish ==
  ASSUME ClaimInv, NEW r \in Relays, NEW e \in Events, PublishOk(r, e) \/ PublishErr(r, e)
  PROVE  ClaimInv'
<1> USE DEF ClaimInv
<1>1. TypeOK'
  <2> HIDE DEF Budget
  <2> QED
    BY DEF PublishOk, PublishErr, TypeOK
<1>2. IdleHoldsNothing' /\ ExclusiveClaim'
  BY DEF PublishOk, PublishErr, TypeOK, IdleHoldsNothing, ExclusiveClaim
<1>3. OpenHasRetries'
  BY DEF PublishOk, PublishErr, OpenHasRetries
<1>4. ClaimIsCurrent'
  BY DEF PublishOk, PublishErr, TypeOK, ClaimIsCurrent
<1> QED
  BY <1>1, <1>2, <1>3, <1>4

\* A late message changes no row either.
LEMMA ClaimInvArrives ==
  ASSUME ClaimInv, NEW e \in Events, ArrivesUnacknowledged(e)
  PROVE  ClaimInv'
  BY DEF ArrivesUnacknowledged, ClaimInv, TypeOK, IdleHoldsNothing, OpenHasRetries,
         ClaimIsCurrent, ExclusiveClaim

\* MarkCompleted writes only the row its relay holds, and then lets go of it.
LEMMA ClaimInvMarkCompleted ==
  ASSUME ClaimInv, NEW r \in Relays, NEW e \in Events, MarkCompleted(r, e)
  PROVE  ClaimInv'
<1> USE DEF ClaimInv
<1>1. /\ status' \in {status, [status EXCEPT ![e] = "completed"]}
      /\ e \in batch[r] /\ pc[r] = "completing"
      /\ batch' = [batch EXCEPT ![r] = @ \ {e}]
      /\ pc' = [pc EXCEPT ![r] = IF batch[r] = {e} THEN "idle" ELSE "publishing"]
  BY DEF MarkCompleted, IsCurrent, Advance
<1>2. TypeOK'
  <2>1. left' \in [DOMAIN Budget -> Nat]
    BY BudgetTyped DEF MarkCompleted, TypeOK
  <2> HIDE DEF Budget
  <2> QED
    BY <1>1, <2>1 DEF MarkCompleted, TypeOK
<1>3. IdleHoldsNothing'
  BY <1>1 DEF TypeOK, IdleHoldsNothing
<1>4. OpenHasRetries'
  BY <1>1 DEF MarkCompleted, TypeOK, OpenHasRetries
<1>5. ClaimIsCurrent'
  BY <1>1 DEF MarkCompleted, TypeOK, ClaimIsCurrent, ExclusiveClaim
<1>6. ExclusiveClaim'
  BY <1>1 DEF TypeOK, ExclusiveClaim
<1> QED
  BY <1>2, <1>3, <1>4, <1>5, <1>6

\* The count written back is one more than the row's own: it never exceeds MaxRetries.
LEMMA ClaimInvMarkFailed ==
  ASSUME ClaimInv, NEW r \in Relays, NEW e \in Events, MarkFailed(r, e)
  PROVE  ClaimInv'
<1> USE DEF ClaimInv
<1> DEFINE n == retries[e] + 1
<1>1. /\ e \in batch[r] /\ pc[r] = "failing"
      /\ batch' = [batch EXCEPT ![r] = @ \ {e}]
      /\ pc' = [pc EXCEPT ![r] = IF batch[r] = {e} THEN "idle" ELSE "publishing"]
  BY DEF MarkFailed, IsCurrent, Advance
<1>2. seen[r][e] = retries[e] /\ status[e] = "processing" /\ retries[e] < MaxRetries
  BY <1>1 DEF ClaimIsCurrent, OpenHasRetries
<1>3. \/ UNCHANGED table
      \/ /\ status' = [status EXCEPT ![e] = IF n < MaxRetries THEN "pending" ELSE "failed"]
         /\ retries' = [retries EXCEPT ![e] = n]
  BY <1>2 DEF MarkFailed, NextRetryCount, CanRetry
<1>4. n \in 0..MaxRetries
  BY <1>2, OutboxAssumption DEF TypeOK
<1>5. TypeOK'
  <2>1. status' \in [Events -> Statuses] /\ retries' \in [Events -> 0..MaxRetries]
    <3> DEFINE new == IF n < MaxRetries THEN "pending" ELSE "failed"
    <3>1. new \in Statuses
      OBVIOUS
    <3>2. status \in [Events -> Statuses] /\ retries \in [Events -> 0..MaxRetries]
      BY DEF TypeOK
    <3>3. UNCHANGED table \/ (status' = [status EXCEPT ![e] = new] /\ retries' = [retries EXCEPT ![e] = n])
      BY <1>3
    <3> HIDE DEF n, new, Statuses
    <3> QED
      BY <3>1, <3>2, <3>3, <1>4 DEF table
  <2>2. left' \in [DOMAIN Budget -> Nat]
    BY BudgetTyped DEF MarkFailed, TypeOK
  <2>3. batch' \in [Relays -> SUBSET Events] /\ pc' \in [Relays -> Labels]
    BY <1>1 DEF TypeOK
  <2> HIDE DEF Budget
  <2> QED
    BY <2>1, <2>2, <2>3 DEF MarkFailed, TypeOK
<1>6. IdleHoldsNothing'
  BY <1>1 DEF TypeOK, IdleHoldsNothing
<1>7. OpenHasRetries'
  <2>1. n < MaxRetries \/ n = MaxRetries
    BY <1>4, OutboxAssumption
  <2> HIDE DEF n
  <2> QED
    BY <1>3, <2>1, OutboxAssumption DEF TypeOK, OpenHasRetries, table
<1>8. ClaimIsCurrent'
  BY <1>1, <1>3 DEF MarkFailed, TypeOK, ClaimIsCurrent, ExclusiveClaim, table
<1>9. ExclusiveClaim'
  BY <1>1 DEF TypeOK, ExclusiveClaim
<1> QED
  BY <1>5, <1>6, <1>7, <1>8, <1>9

\* The clean-up deletes completed rows, which nobody holds.
LEMMA ClaimInvCleanup ==
  ASSUME ClaimInv, NEW r \in Relays, Cleanup(r)
  PROVE  ClaimInv'
<1> USE DEF ClaimInv
<1>1. TypeOK'
  BY DEF Cleanup, TypeOK
<1>2. IdleHoldsNothing' /\ ExclusiveClaim'
  BY DEF Cleanup, IdleHoldsNothing, ExclusiveClaim
<1>3. OpenHasRetries'
  BY DEF Cleanup, IsDeletable, TypeOK, OpenHasRetries
<1>4. ClaimIsCurrent'
  BY DEF Cleanup, IsDeletable, TypeOK, ClaimIsCurrent
<1> QED
  BY <1>1, <1>2, <1>3, <1>4

\* ClaimInv is a property of the state.
LEMMA ClaimInvStutter == ClaimInv /\ UNCHANGED vars => ClaimInv'
  BY DEF ClaimInv, TypeOK, IdleHoldsNothing, OpenHasRetries, ClaimIsCurrent, ExclusiveClaim, vars

\* ClaimInv is inductive: one step per action of Next.
LEMMA ClaimInvNext == ClaimInv /\ [Next]_vars => ClaimInv'
<1> SUFFICES ASSUME ClaimInv, [Next]_vars PROVE ClaimInv'
  OBVIOUS
<1>1. ASSUME NEW e \in Events, Enqueue(e) PROVE ClaimInv'
  BY <1>1, ClaimInvEnqueue
<1>2. CASE RetryFailed
  BY <1>2, ClaimInvRetryFailed
<1>3. ASSUME NEW r \in Relays, Start(r) \/ Stop(r) \/ Exit(r) \/ Crash(r) PROVE ClaimInv'
  BY <1>3, ClaimInvLife
<1>4. ASSUME NEW r \in Relays, FetchSelect(r) PROVE ClaimInv'
  BY <1>4, ClaimInvFetchSelect
<1>5. ASSUME NEW r \in Relays, FetchCommit(r) PROVE ClaimInv'
  BY <1>5, ClaimInvFetchCommit
<1>6. ASSUME NEW r \in Relays, FetchFail(r) PROVE ClaimInv'
  BY <1>6, ClaimInvFetchFail
<1>7. ASSUME NEW r \in Relays, NEW e \in Events, PublishOk(r, e) \/ PublishErr(r, e)
      PROVE  ClaimInv'
  BY <1>7, ClaimInvPublish
<1>8. ASSUME NEW r \in Relays, NEW e \in Events, MarkCompleted(r, e) PROVE ClaimInv'
  BY <1>8, ClaimInvMarkCompleted
<1>9. ASSUME NEW r \in Relays, NEW e \in Events, MarkFailed(r, e) PROVE ClaimInv'
  BY <1>9, ClaimInvMarkFailed
<1>10. ASSUME NEW r \in Relays, Cleanup(r) PROVE ClaimInv'
  BY <1>10, ClaimInvCleanup
<1>11. CASE UNCHANGED vars
  BY <1>11, ClaimInvStutter
<1>12. ASSUME NEW e \in Events, ArrivesUnacknowledged(e) PROVE ClaimInv'
  BY <1>12, ClaimInvArrives
<1> QED
  BY <1>1, <1>2, <1>3, <1>4, <1>5, <1>6, <1>7, <1>8, <1>9, <1>10, <1>11, <1>12
  DEF Next, RelayStep

\* Claims are exclusive and current, and retries within budget, at all times.
THEOREM ClaimInvariant == Spec => []ClaimInv
  BY ClaimInvInit, ClaimInvNext, PTL DEF Spec

\* Type correctness: the retry count stays within its limit and every relay is in one
\* of the places the loops of outbox_relay.go have.
THEOREM TypeCorrect == Spec => []TypeOK
  BY ClaimInvariant, PTL DEF ClaimInv

\* FetchPending's promise, for any number of relays: no two of them ever work on the
\* same event (FOR UPDATE SKIP LOCKED and the processing status together).
THEOREM ClaimsAreExclusive == Spec => []ExclusiveClaim
  BY ClaimInvariant, PTL DEF ClaimInv

\* Nobody changes a claimed row behind the relay that works on it, so the retry count
\* it writes back from memory is current.
THEOREM ClaimsAreCurrent == Spec => []ClaimIsCurrent
  BY ClaimInvariant, PTL DEF ClaimInv

\* A row is parked as failed exactly when its retries are used up.
THEOREM RetriesAreBudgeted == Spec => []RetryBudget
<1>1. OpenHasRetries => RetryBudget
  BY DEF OpenHasRetries, RetryBudget
<1> QED
  BY <1>1, ClaimInvariant, PTL DEF ClaimInv

-----------------------------------------------------------------------------
(* What Kafka holds.                                                       *)

\* The event a relay is about to complete has been acknowledged by Kafka.
CompletingWasAcknowledged ==
  \A r \in Relays, e \in Events :
    pc[r] = "completing" /\ IsCurrent(r, e) => e \in acked

CompletedWasAcknowledged ==
  \A e \in Events : status[e] \in {"completed", "deleted"} => e \in acked

\* What Kafka acknowledged it holds, and it was only ever sent what has a row.
SentHasRow ==
  /\ acked \subseteq topic
  /\ \A e \in topic \cup unsure : status[e] # "absent"

PublishInv ==
  /\ SentHasRow
  /\ CompletingWasAcknowledged
  /\ CompletedWasAcknowledged
  /\ AcknowledgedIsNotResent

\* Kafka is empty at first.
LEMMA PublishInvInit == Init => PublishInv
  BY DEF Init, PublishInv, SentHasRow, CompletingWasAcknowledged, CompletedWasAcknowledged,
         AcknowledgedIsNotResent

\* Enqueue, RetryFailed, Stop and Cleanup complete nothing and put nothing back that
\* Kafka has acknowledged.
LEMMA PublishInvRows ==
  ASSUME ClaimInv, PublishInv,
         \/ \E e \in Events : Enqueue(e)
         \/ RetryFailed
         \/ \E r \in Relays : Stop(r) \/ Cleanup(r)
         \/ UNCHANGED vars
  PROVE  PublishInv'
<1> USE DEF PublishInv
<1>1. UNCHANGED <<pc, batch, topic, acked, unsure>>
  BY DEF Enqueue, RetryFailed, Stop, Cleanup, vars
<1>2. \A e \in Events :
        /\ status'[e] \in {"completed", "deleted"} => status[e] \in {"completed", "deleted"}
        /\ status'[e] \in {"pending", "failed"} => status[e] \in {"absent", "pending", "failed"}
        /\ status'[e] = "absent" => status[e] = "absent"
  BY DEF Enqueue, RetryFailed, Resettable, Stop, Cleanup, IsDeletable, vars, ClaimInv, TypeOK
<1>3. topic \subseteq Events /\ acked \subseteq Events /\ unsure \subseteq Events
  BY DEF ClaimInv, TypeOK
<1>4. SentHasRow'
  BY <1>1, <1>2, <1>3 DEF SentHasRow
<1>5. CompletingWasAcknowledged' /\ CompletedWasAcknowledged'
  BY <1>1, <1>2 DEF CompletingWasAcknowledged, CompletedWasAcknowledged, IsCurrent
<1>6. AcknowledgedIsNotResent'
  BY <1>1, <1>2, <1>3 DEF SentHasRow, AcknowledgedIsNotResent, IsCurrent
<1> QED
  BY <1>4, <1>5, <1>6

\* A relay starts, exits or crashes: what it held is dropped, and only the event a
\* crashed relay was publishing is in doubt.
LEMMA PublishInvLife ==
  ASSUME ClaimInv, PublishInv, NEW r \in Relays, Start(r) \/ Exit(r) \/ Crash(r)
  PROVE  PublishInv'
<1> USE DEF ClaimInv, PublishInv
<1>1. /\ UNCHANGED <<status, topic, acked>>
      /\ UNCHANGED batch \/ batch' = [batch EXCEPT ![r] = {}]
      /\ \E label \in {"down", "idle"} : pc' = [pc EXCEPT ![r] = label]
  BY DEF Start, Exit, Crash
<1>2. \A e \in unsure' : e \in unsure \/ (e \in batch[r] /\ pc[r] = "publishing")
  BY DEF Start, Exit, Crash, IsCurrent
<1>3. batch'[r] = {}
  BY <1>1 DEF Start, Exit, Crash, TypeOK, IdleHoldsNothing
<1>4. SentHasRow'
  BY <1>1, <1>2 DEF SentHasRow, ClaimIsCurrent
<1>5. \A s \in Relays \ {r} : pc'[s] = pc[s] /\ batch'[s] = batch[s]
  BY <1>1 DEF TypeOK
<1>6. CompletingWasAcknowledged'
  BY <1>1, <1>3, <1>5 DEF CompletingWasAcknowledged, IsCurrent
<1>7. CompletedWasAcknowledged'
  BY <1>1 DEF CompletedWasAcknowledged
<1>8. AcknowledgedIsNotResent'
  BY <1>1, <1>3, <1>5 DEF AcknowledgedIsNotResent, IsCurrent
<1> QED
  BY <1>4, <1>6, <1>7, <1>8

\* Fetching a batch completes nothing and publishes nothing, and takes up pending rows
\* only, none of them acknowledged.
LEMMA PublishInvFetch ==
  ASSUME ClaimInv, PublishInv, NEW r \in Relays,
         FetchSelect(r) \/ FetchCommit(r) \/ FetchFail(r)
  PROVE  PublishInv'
<1> USE DEF ClaimInv, PublishInv
<1>1. /\ UNCHANGED <<topic, acked, unsure>>
      /\ pc[r] \in {"idle", "claiming"}
      /\ \E label \in {"idle", "claiming", "publishing"} : pc' = [pc EXCEPT ![r] = label]
      /\ status' \in {status, Processing(batch[r])}
  BY DEF FetchSelect, FetchCommit, FetchFail
<1>2. \A s \in Relays \ {r} : batch'[s] = batch[s] /\ pc'[s] = pc[s]
  BY <1>1 DEF FetchSelect, FetchCommit, FetchFail, TypeOK
<1>3. pc'[r] # "completing"
  BY <1>1 DEF TypeOK
<1>4. \A e \in batch[r] : status[e] = "pending"
  BY DEF FetchSelect, FetchCommit, FetchFail, IdleHoldsNothing, ClaimIsCurrent
<1>5. \A e \in batch'[r] : status[e] = "pending"
  BY <1>4 DEF FetchSelect, FetchCommit, FetchFail, Claimable, IsFetchable, TypeOK
<1>6. SentHasRow'
  BY <1>1 DEF SentHasRow, Processing, TypeOK
<1>7. CompletingWasAcknowledged'
  BY <1>1, <1>2, <1>3 DEF CompletingWasAcknowledged, IsCurrent
<1>8. CompletedWasAcknowledged'
  BY <1>1 DEF Processing, CompletedWasAcknowledged
<1>9. AcknowledgedIsNotResent'
  BY <1>1, <1>2, <1>4, <1>5 DEF Processing, AcknowledgedIsNotResent, IsCurrent, TypeOK
<1> QED
  BY <1>6, <1>7, <1>8, <1>9

\* A relay handles one event at a time.
LEMMA OneCurrent ==
  ASSUME NEW r \in Relays, NEW e \in Events, NEW f \in Events, IsCurrent(r, e), IsCurrent(r, f)
  PROVE  e = f
<1>1. e \in Nat /\ f \in Nat
  BY OutboxAssumption
<1>2. e <= f /\ f <= e
  BY DEF IsCurrent
<1> QED
  BY <1>1, <1>2

\* Only the current event of one relay is sent and acknowledged: no other relay has it.
LEMMA PublishInvPublish ==
  ASSUME ClaimInv, PublishInv, NEW r \in Relays, NEW e \in Events,
         PublishOk(r, e) \/ PublishErr(r, e)
  PROVE  PublishInv'
<1> USE DEF ClaimInv, PublishInv
<1>1. /\ UNCHANGED <<status, batch>>
      /\ pc[r] = "publishing" /\ IsCurrent(r, e) /\ e \in batch[r]
      /\ status[e] = "processing"
      /\ topic' \subseteq topic \cup {e} /\ unsure' \subseteq unsure \cup {e}
  BY DEF PublishOk, PublishErr, IsCurrent, ClaimIsCurrent
<1>2. \/ acked' = acked \cup {e} /\ e \in topic' /\ pc' = [pc EXCEPT ![r] = "completing"]
      \/ acked' = acked /\ pc' = [pc EXCEPT ![r] = "failing"]
  BY DEF PublishOk, PublishErr
<1>3. \A s \in Relays \ {r} : pc'[s] = pc[s] /\ e \notin batch[s]
  BY <1>1, <1>2 DEF TypeOK, ExclusiveClaim
<1>4. \A f \in Events : IsCurrent(r, f) => f = e
  BY <1>1, OneCurrent
<1>5. SentHasRow'
  BY <1>1 DEF PublishOk, PublishErr, SentHasRow
<1>6. CompletingWasAcknowledged'
  BY <1>1, <1>2, <1>3, <1>4 DEF CompletingWasAcknowledged, IsCurrent, TypeOK
<1>7. CompletedWasAcknowledged'
  BY <1>1, <1>2 DEF CompletedWasAcknowledged
<1>8. AcknowledgedIsNotResent'
  <2> SUFFICES ASSUME NEW f \in acked'
               PROVE  /\ status'[f] \notin {"pending", "failed"}
                      /\ \A s \in Relays : f \in batch'[s] =>
                           pc'[s] = "completing" /\ IsCurrent(s, f)'
    BY DEF AcknowledgedIsNotResent
  <2>1. CASE f \in acked
    <3>1. f \notin batch[r]
      BY <2>1, <1>1 DEF AcknowledgedIsNotResent
    <3> QED
      BY <2>1, <3>1, <1>1, <1>3 DEF AcknowledgedIsNotResent, IsCurrent
  <2>2. CASE f = e /\ pc' = [pc EXCEPT ![r] = "completing"]
    <3>1. pc'[r] = "completing" /\ IsCurrent(r, e)'
      BY <2>2, <1>1 DEF TypeOK, IsCurrent
    <3> QED
      BY <2>2, <3>1, <1>1, <1>3
  <2> QED
    BY <2>1, <2>2, <1>2
<1> QED
  BY <1>5, <1>6, <1>7, <1>8

\* A late message is of an event with a row, and acknowledges nothing.
LEMMA PublishInvArrives ==
  ASSUME PublishInv, NEW e \in Events, ArrivesUnacknowledged(e)
  PROVE  PublishInv'
  BY DEF ArrivesUnacknowledged, PublishInv, SentHasRow, CompletingWasAcknowledged,
         CompletedWasAcknowledged, AcknowledgedIsNotResent, IsCurrent

\* Recording the outcome of e: only a completed row can be that of an acknowledged
\* event, and the rest of the batch was never current.
LEMMA PublishInvRecord ==
  ASSUME ClaimInv, PublishInv, NEW r \in Relays, NEW e \in Events,
         MarkCompleted(r, e) \/ MarkFailed(r, e)
  PROVE  PublishInv'
<1> USE DEF ClaimInv, PublishInv
<1>1. /\ UNCHANGED <<topic, acked, unsure>>
      /\ IsCurrent(r, e) /\ e \in batch[r]
      /\ batch' = [batch EXCEPT ![r] = @ \ {e}]
      /\ pc' = [pc EXCEPT ![r] = IF batch[r] = {e} THEN "idle" ELSE "publishing"]
  BY DEF MarkCompleted, MarkFailed, IsCurrent, Advance
<1>2. /\ \A f \in Events \ {e} : status'[f] = status[f]
      /\ status'[e] # "absent"
      /\ \/ pc[r] = "completing" /\ status'[e] \in {"processing", "completed"}
         \/ pc[r] = "failing" /\ status'[e] \in {"processing", "pending", "failed"}
  BY <1>1 DEF MarkCompleted, MarkFailed, table, TypeOK, ClaimIsCurrent
<1>3. \A f \in Events : IsCurrent(r, f) => f = e
  BY <1>1, OneCurrent
<1>4. \A s \in Relays \ {r} : pc'[s] = pc[s] /\ batch'[s] = batch[s]
  BY <1>1 DEF TypeOK
<1>5. pc'[r] # "completing" /\ batch'[r] = batch[r] \ {e}
  BY <1>1 DEF TypeOK
<1>6. SentHasRow'
  BY <1>1, <1>2 DEF SentHasRow, TypeOK
<1>7. CompletingWasAcknowledged'
  BY <1>1, <1>4, <1>5 DEF CompletingWasAcknowledged, IsCurrent
<1>8. CompletedWasAcknowledged'
  BY <1>1, <1>2 DEF CompletingWasAcknowledged, CompletedWasAcknowledged
<1>9. AcknowledgedIsNotResent'
  <2> SUFFICES ASSUME NEW f \in acked
               PROVE  /\ status'[f] \notin {"pending", "failed"}
                      /\ \A s \in Relays : f \in batch'[s] =>
                           pc'[s] = "completing" /\ IsCurrent(s, f)'
    BY <1>1 DEF AcknowledgedIsNotResent
  <2>1. f \in Events
    BY DEF TypeOK
  <2>2. f \notin batch'[r]
    BY <2>1, <1>3, <1>5 DEF AcknowledgedIsNotResent
  <2>3. status'[f] \notin {"pending", "failed"}
    BY <2>1, <1>1, <1>2 DEF AcknowledgedIsNotResent
  <2> QED
    BY <2>2, <2>3, <1>4 DEF AcknowledgedIsNotResent, IsCurrent
<1> QED
  BY <1>6, <1>7, <1>8, <1>9

\* PublishInv is inductive, given ClaimInv.
LEMMA PublishInvNext == ClaimInv /\ PublishInv /\ [Next]_vars => PublishInv'
<1> SUFFICES ASSUME ClaimInv, PublishInv, [Next]_vars PROVE PublishInv'
  OBVIOUS
<1>1. CASE \/ \E e \in Events : Enqueue(e)
           \/ RetryFailed
           \/ \E r \in Relays : Stop(r) \/ Cleanup(r)
           \/ UNCHANGED vars
  BY <1>1, PublishInvRows
<1>2. ASSUME NEW r \in Relays, Start(r) \/ Exit(r) \/ Crash(r) PROVE PublishInv'
  BY <1>2, PublishInvLife
<1>3. ASSUME NEW r \in Relays, FetchSelect(r) \/ FetchCommit(r) \/ FetchFail(r)
      PROVE  PublishInv'
  BY <1>3, PublishInvFetch
<1>4. ASSUME NEW r \in Relays, NEW e \in Events, PublishOk(r, e) \/ PublishErr(r, e)
      PROVE  PublishInv'
  BY <1>4, PublishInvPublish
<1>5. ASSUME NEW r \in Relays, NEW e \in Events, MarkCompleted(r, e) \/ MarkFailed(r, e)
      PROVE  PublishInv'
  BY <1>5, PublishInvRecord
<1>6. ASSUME NEW e \in Events, ArrivesUnacknowledged(e) PROVE PublishInv'
  BY <1>6, PublishInvArrives
<1> QED
  BY <1>1, <1>2, <1>3, <1>4, <1>5, <1>6 DEF Next, RelayStep

\* What Kafka acknowledged is accounted for at all times.
THEOREM PublishInvariant == Spec => []PublishInv
  BY ClaimInvariant, PublishInvInit, PublishInvNext, PTL DEF Spec

\* No row is recorded as completed, or cleaned up, before Kafka has its event.
THEOREM CompletedIsPublished == Spec => []CompletedWasPublished
<1>1. PublishInv => CompletedWasPublished
  BY DEF PublishInv, SentHasRow, CompletedWasAcknowledged, CompletedWasPublished
<1> QED
  BY <1>1, PublishInvariant, PTL

\* Whatever relays crash, stop or fail to record, and whatever is put back by the retry
\* endpoint, no event is published again after a Publish call that returned nil.
THEOREM NoResendAfterAck == Spec => []AcknowledgedIsNotResent
  BY PublishInvariant, PTL DEF PublishInv

-----------------------------------------------------------------------------
(* Refinement: every step is a step of the ledger or a stutter.            *)

Open == {e \in Events : status[e] \in {"pending", "processing"}}
Delivered == topic
SettledRows == {e \in Events : status[e] \in {"completed", "deleted"}}
Parked == {e \in Events : status[e] = "failed"}

\* The empty table is the empty ledger.
LEMMA LedgerInit == Init => Ledger!Init
  BY DEF Init, Ledger!Init

\* Steps that keep every row in its class and what Kafka holds.
LEMMA LedgerStutter ==
  ASSUME ClaimInv, [Next]_vars,
         \/ \E r \in Relays : \/ Start(r) \/ Stop(r) \/ Exit(r) \/ Crash(r) \/ Cleanup(r)
                              \/ FetchSelect(r) \/ FetchCommit(r) \/ FetchFail(r)
         \/ UNCHANGED vars
  PROVE  UNCHANGED Ledger!vars
<1>1. UNCHANGED topic
  BY DEF Start, Stop, Exit, Crash, Cleanup, FetchSelect, FetchCommit, FetchFail, vars
<1>2. \A e \in Events :
        \/ status'[e] = status[e]
        \/ status[e] = "completed" /\ status'[e] = "deleted"
        \/ status[e] = "pending" /\ status'[e] = "processing"
  BY DEF Start, Stop, Exit, Crash, Cleanup, IsDeletable, FetchSelect, FetchCommit,
         FetchFail, Processing, vars, ClaimInv, TypeOK, ClaimIsCurrent
<1>3. Open' = Open /\ SettledRows' = SettledRows /\ Parked' = Parked /\ Delivered' = Delivered
  BY <1>1, <1>2 DEF Open, SettledRows, Parked, Delivered
<1> QED
  BY <1>3 DEF Ledger!vars, Open, SettledRows, Parked, Delivered

\* Enqueue is Accept.
LEMMA LedgerAccept ==
  ASSUME ClaimInv, NEW e \in Events, Enqueue(e)
  PROVE  Ledger!Accept(e)
<1>1. Open' = Open \cup {e} /\ SettledRows' = SettledRows /\ Parked' = Parked
      /\ Delivered' = Delivered
  BY DEF Enqueue, ClaimInv, TypeOK, Open, SettledRows, Parked, Delivered
<1>2. e \notin Open \cup SettledRows \cup Parked
  BY DEF Enqueue, Open, SettledRows, Parked
<1> QED
  BY <1>1, <1>2 DEF Ledger!Accept, Open, SettledRows, Parked, Delivered

\* RetryFailed is Reopen.
LEMMA LedgerReopen ==
  ASSUME ClaimInv, RetryFailed
  PROVE  Ledger!Reopen
<1>1. /\ Open' = Open \cup Parked
      /\ Parked' = {}
      /\ SettledRows' = SettledRows
      /\ Delivered' = Delivered
  BY DEF RetryFailed, Resettable, ClaimInv, TypeOK, Open, SettledRows, Parked, Delivered
<1> QED
  BY <1>1 DEF Ledger!Reopen, Open, SettledRows, Parked, Delivered

\* PublishOk and PublishErr are Deliver, or change nothing.
LEMMA LedgerDeliver ==
  ASSUME ClaimInv, NEW r \in Relays, NEW e \in Events, PublishOk(r, e) \/ PublishErr(r, e)
  PROVE  Ledger!Deliver(e) \/ UNCHANGED Ledger!vars
<1>1. e \in Open
  BY DEF PublishOk, PublishErr, IsCurrent, ClaimInv, ClaimIsCurrent, Open
<1>2. UNCHANGED status
  BY DEF PublishOk, PublishErr
<1>3. Open' = Open /\ SettledRows' = SettledRows /\ Parked' = Parked
  BY <1>2 DEF Open, SettledRows, Parked
<1>4. Delivered' = Delivered \cup {e} \/ Delivered' = Delivered
  BY DEF PublishOk, PublishErr, Delivered
<1> QED
  BY <1>1, <1>3, <1>4 DEF Ledger!Deliver, Ledger!vars, Open, SettledRows, Parked, Delivered

\* A late message is Deliver: its event is open or parked, for a settled one has long
\* been acknowledged.
LEMMA LedgerArrives ==
  ASSUME ClaimInv, PublishInv, NEW e \in Events, ArrivesUnacknowledged(e)
  PROVE  Ledger!Deliver(e)
<1>1. status[e] \in {"pending", "processing", "failed"}
  BY DEF ArrivesUnacknowledged, ClaimInv, TypeOK, PublishInv, SentHasRow,
         CompletedWasAcknowledged
<1>2. e \in Open \cup Parked
  BY <1>1 DEF Open, Parked
<1>3. /\ Open' = Open /\ SettledRows' = SettledRows /\ Parked' = Parked
      /\ Delivered' = Delivered \cup {e}
  BY DEF ArrivesUnacknowledged, Open, SettledRows, Parked, Delivered
<1> QED
  BY <1>2, <1>3 DEF Ledger!Deliver, Open, SettledRows, Parked, Delivered

\* Only what Kafka has is settled: this is where the publish invariant is needed.
LEMMA LedgerRecord ==
  ASSUME ClaimInv, PublishInv, NEW r \in Relays, NEW e \in Events,
         MarkCompleted(r, e) \/ MarkFailed(r, e)
  PROVE  Ledger!Settle(e) \/ Ledger!Park(e) \/ UNCHANGED Ledger!vars
<1>1. /\ UNCHANGED topic
      /\ \A f \in Events \ {e} : status'[f] = status[f]
      /\ status[e] = "processing"
      /\ \/ status'[e] = "completed" /\ e \in topic
         \/ status'[e] \in {"processing", "pending", "failed"}
  BY DEF MarkCompleted, MarkFailed, IsCurrent, table, ClaimInv, TypeOK, ClaimIsCurrent,
         PublishInv, SentHasRow, CompletingWasAcknowledged
<1>2. e \in Open
  BY <1>1 DEF Open
<1>3. Delivered' = Delivered
  BY <1>1 DEF Delivered
<1>4. CASE status'[e] = "completed" /\ e \in topic
  <2>1. /\ Open' = Open \ {e}
        /\ SettledRows' = SettledRows \cup {e}
        /\ Parked' = Parked
        /\ e \in Delivered
    BY <1>1, <1>4 DEF Open, SettledRows, Parked, Delivered
  <2> QED
    BY <1>2, <1>3, <2>1 DEF Ledger!Settle, Open, SettledRows, Parked, Delivered
<1>5. CASE status'[e] = "failed"
  <2>1. Open' = Open \ {e} /\ Parked' = Parked \cup {e} /\ SettledRows' = SettledRows
    BY <1>1, <1>5 DEF Open, SettledRows, Parked
  <2> QED
    BY <1>2, <1>3, <2>1 DEF Ledger!Park, Open, SettledRows, Parked, Delivered
<1>6. CASE status'[e] \in {"processing", "pending"}
  <2>1. Open' = Open /\ Parked' = Parked /\ SettledRows' = SettledRows
    BY <1>1, <1>6 DEF Open, SettledRows, Parked
  <2> QED
    BY <1>3, <2>1 DEF Ledger!vars, Open, SettledRows, Parked, Delivered
<1> QED
  BY <1>1, <1>4, <1>5, <1>6

\* Every step of the outbox is a step of the ledger or changes nothing in it.
LEMMA LedgerNext == ClaimInv /\ PublishInv /\ [Next]_vars => [Ledger!Next]_(Ledger!vars)
<1> SUFFICES ASSUME ClaimInv, PublishInv, [Next]_vars PROVE [Ledger!Next]_(Ledger!vars)
  OBVIOUS
<1>1. CASE \/ \E r \in Relays : \/ Start(r) \/ Stop(r) \/ Exit(r) \/ Crash(r) \/ Cleanup(r)
                                \/ FetchSelect(r) \/ FetchCommit(r) \/ FetchFail(r)
           \/ UNCHANGED vars
  BY <1>1, LedgerStutter
<1>2. ASSUME NEW e \in Events, Enqueue(e) PROVE Ledger!Next
  BY <1>2, LedgerAccept DEF Ledger!Next
<1>3. CASE RetryFailed
  BY <1>3, LedgerReopen DEF Ledger!Next
<1>4. ASSUME NEW r \in Relays, NEW e \in Events, PublishOk(r, e) \/ PublishErr(r, e)
      PROVE  [Ledger!Next]_(Ledger!vars)
  BY <1>4, LedgerDeliver DEF Ledger!Next
<1>5. ASSUME NEW r \in Relays, NEW e \in Events, MarkCompleted(r, e) \/ MarkFailed(r, e)
      PROVE  [Ledger!Next]_(Ledger!vars)
  BY <1>5, LedgerRecord DEF Ledger!Next
<1>6. ASSUME NEW e \in Events, ArrivesUnacknowledged(e) PROVE Ledger!Next
  BY <1>6, LedgerArrives DEF Ledger!Next
<1> QED
  BY <1>1, <1>2, <1>3, <1>4, <1>5, <1>6 DEF Next, RelayStep

\* The relays, the clean-up and the endpoint together implement the delivery ledger.
THEOREM OutboxImplementsLedger == Spec => ImplementsLedger
<1>1. Spec => []ClaimInv /\ []PublishInv
  BY ClaimInvariant, PublishInvariant
<1> QED
  BY <1>1, LedgerInit, LedgerNext, PTL DEF Spec, ImplementsLedger, Ledger!Spec

\* A completed row is never taken up again, and only completed rows are cleaned up.
THEOREM CompletedStaysFinal == Spec => CompletedIsFinal
<1> DEFINE Final ==
      \A e \in Events :
        /\ status'[e] = "deleted" => status[e] \in {"completed", "deleted"}
        /\ status[e] = "completed" => status'[e] \in {"completed", "deleted"}
<1>1. ClaimInv /\ [Next]_vars => [Final]_status
  <2> SUFFICES ASSUME ClaimInv, [Next]_vars PROVE Final
    OBVIOUS
  <2> USE DEF ClaimInv
  <2>1. CASE \/ \E e \in Events : Enqueue(e)
             \/ RetryFailed
             \/ \E r \in Relays : Cleanup(r) \/ FetchCommit(r) \/ FetchFail(r)
    BY <2>1 DEF Enqueue, RetryFailed, Resettable, Cleanup, IsDeletable, FetchCommit,
                FetchFail, Processing, TypeOK, ClaimIsCurrent
  <2>2. CASE \E r \in Relays, e \in Events : MarkCompleted(r, e) \/ MarkFailed(r, e)
    BY <2>2 DEF MarkCompleted, MarkFailed, IsCurrent, table, TypeOK, ClaimIsCurrent
  <2>3. CASE UNCHANGED status
    BY <2>3
  <2> QED
    BY <2>1, <2>2, <2>3 DEF Next, RelayStep, Start, Stop, Crash, Exit, FetchSelect,
                            PublishOk, PublishErr, ArrivesUnacknowledged, vars
<1> QED
  BY <1>1, ClaimInvariant, PTL DEF Spec, CompletedIsFinal
=============================================================================
