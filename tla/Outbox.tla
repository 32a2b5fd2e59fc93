------------------------------- MODULE Outbox -------------------------------
(***************************************************************************)
(* The transactional outbox of the backend (apps/backend/internal/outbox): *)
(* rows of outbox_events written by domain services, relays that claim     *)
(* batches of pending rows and publish them to Kafka, the clean-up loop of *)
(* each relay, and the admin endpoint that re-queues failed rows.          *)
(*                                                                         *)
(* An event is named by its created_at, so "ORDER BY created_at" is <.     *)
(* Every database call is one action at the moment it returns; a call that *)
(* fails may or may not have taken effect.  A relay's batch is the set of  *)
(* claimed events it has not handled yet; it handles them oldest first.    *)
(*                                                                         *)
(* Where two definitions of one thing stand together, such as              *)
(* CanRetryOffByOne and CanRetry,                                          *)
(* the first is a plausible slip that no specification uses: it is put in  *)
(* the place of the second to see that a property notices.                 *)
(***************************************************************************)
EXTENDS Naturals, FiniteSets

CONSTANTS
  Relays,      \* running instances of OutboxRelay
  Events,      \* the events ever enqueued, as their creation times
  MaxRetries,  \* OutboxEvent.MaxRetries (5 in the code)
  BatchSize,   \* RelayConfig.BatchSize (50 in the code)
  MaxCrashes, MaxFaults, MaxStops, MaxResets,  \* bounds on the environment, by kind
  MaxTroubles                                  \* and all kinds together

ASSUME OutboxAssumption ==
  /\ Events \subseteq Nat
  /\ MaxRetries \in Nat \ {0}
  /\ BatchSize \in Nat \ {0}
  /\ {MaxCrashes, MaxFaults, MaxStops, MaxResets, MaxTroubles} \subseteq Nat

VARIABLES
  status,     \* status[e]: column status of the row of e; "absent"/"deleted" without a row
  retries,    \* retries[e]: column retry_count
  pc,         \* pc[r]: what relay r does next
  batch,      \* batch[r]: events of r's current batch still to handle
  seen,       \* seen[r][e]: RetryCount in r's in-memory copy of e
  cancelled,  \* cancelled[r]: Stop has cancelled the context of r
  topic,      \* events Kafka holds a message of: one or more, see Publish below
  acked,      \* events a Publish call has returned nil for
  unsure,     \* events a Publish call failed or died on: their messages may yet arrive
  left        \* how often each environment event may still happen

table == <<status, retries>>
vars == <<status, retries, pc, batch, seen, cancelled, topic, acked, unsure, left>>

Statuses == {"absent", "pending", "processing", "completed", "failed", "deleted"}
Labels == {"down", "idle", "claiming", "publishing", "completing", "failing"}
Budget == [crash |-> MaxCrashes, fault |-> MaxFaults, stop |-> MaxStops, reset |-> MaxResets,
           any |-> MaxTroubles]

\* Types; a retry count never exceeds MaxRetries, in the row or in memory.
TypeOK ==
  /\ status \in [Events -> Statuses]
  /\ retries \in [Events -> 0..MaxRetries]
  /\ pc \in [Relays -> Labels]
  /\ batch \in [Relays -> SUBSET Events]
  /\ seen \in [Relays -> [Events -> 0..MaxRetries]]
  /\ cancelled \in [Relays -> BOOLEAN]
  /\ {topic, acked, unsure} \subseteq SUBSET Events
  /\ left \in [DOMAIN Budget -> Nat]

Init ==
  /\ status = [e \in Events |-> "absent"]
  /\ retries = [e \in Events |-> 0]
  /\ pc = [r \in Relays |-> "down"]
  /\ batch = [r \in Relays |-> {}]
  /\ seen = [r \in Relays |-> [e \in Events |-> 0]]
  /\ cancelled = [r \in Relays |-> FALSE]
  /\ topic = {} /\ acked = {} /\ unsure = {}
  /\ left = Budget

Spend(kind) ==
  /\ left[kind] > 0 /\ left["any"] > 0
  /\ left' = [left EXCEPT ![kind] = @ - 1, !["any"] = @ - 1]

\* A call on r's context fails because the context is cancelled or by a fault.
CallFails(r) == IF cancelled[r] THEN UNCHANGED left ELSE Spend("fault")

-----------------------------------------------------------------------------
(* The domain services and the admin endpoint.                             *)

\* Publish / PublishDirect: the row is committed.  A transaction may commit after
\* one with a later created_at, so events appear in any order.
Enqueue(e) ==
  /\ status[e] = "absent"
  /\ status' = [status EXCEPT ![e] = "pending"]
  /\ UNCHANGED <<retries, pc, batch, seen, cancelled, topic, acked, unsure, left>>

Resettable == {e \in Events : status[e] = "failed"}

\* POST /admin/outbox/retry: one UPDATE over all failed rows.
RetryFailed ==
  /\ Resettable # {}
  /\ Spend("reset")
  /\ status' = [e \in Events |-> IF e \in Resettable THEN "pending" ELSE status[e]]
  /\ retries' = [e \in Events |-> IF e \in Resettable THEN 0 ELSE retries[e]]
  /\ UNCHANGED <<pc, batch, seen, cancelled, topic, acked, unsure>>

-----------------------------------------------------------------------------
(* A relay's life: Start, Stop, and a crash of the process.                *)

Start(r) ==
  /\ pc[r] = "down"
  /\ pc' = [pc EXCEPT ![r] = "idle"]
  /\ cancelled' = [cancelled EXCEPT ![r] = FALSE]
  /\ UNCHANGED <<status, retries, batch, seen, topic, acked, unsure, left>>

\* Stop cancels the context and then waits for the loops (see Exit).
Stop(r) ==
  /\ pc[r] # "down" /\ ~cancelled[r]
  /\ Spend("stop")
  /\ cancelled' = [cancelled EXCEPT ![r] = TRUE]
  /\ UNCHANGED <<status, retries, pc, batch, seen, topic, acked, unsure>>

\* pollLoop sees ctx.Done between two batches; Stop returns.
Exit(r) ==
  /\ pc[r] = "idle" /\ cancelled[r]
  /\ pc' = [pc EXCEPT ![r] = "down"]
  /\ UNCHANGED <<status, retries, batch, seen, cancelled, topic, acked, unsure, left>>

\* The event the relay is handling: the oldest of its batch.
IsCurrent(r, e) == e \in batch[r] /\ \A f \in batch[r] : e <= f

\* The batch is lost; Postgres rolls back a claim that was not committed, and a
\* message under way to Kafka may get there or not.
Crash(r) ==
  /\ pc[r] # "down"
  /\ Spend("crash")
  /\ pc' = [pc EXCEPT ![r] = "down"]
  /\ batch' = [batch EXCEPT ![r] = {}]
  /\ unsure' = unsure \cup {e \in Events : pc[r] = "publishing" /\ IsCurrent(r, e)}
  /\ UNCHANGED <<status, retries, seen, cancelled, topic, acked>>

-----------------------------------------------------------------------------
(* FetchPending: SELECT ... FOR UPDATE SKIP LOCKED, UPDATE, COMMIT.        *)

NoRowLocks == {}
LockedRows == UNION {batch[r] : r \in {x \in Relays : pc[x] = "claiming"}}

IsUnfinished(e) == status[e] \in {"pending", "processing"}
IsFetchable(e) == status[e] = "pending"

Claimable == {e \in Events : IsFetchable(e)} \ LockedRows

\* S is the BatchSize oldest members of C (all of C when there are fewer).
IsOldest(S, C) ==
  /\ Cardinality(S) = IF Cardinality(C) < BatchSize THEN Cardinality(C) ELSE BatchSize
  /\ \A e \in S, f \in C \ S : e < f

FetchSelect(r) ==
  /\ pc[r] = "idle" /\ ~cancelled[r]
  /\ Claimable # {}
  /\ \E S \in SUBSET Claimable :
       /\ IsOldest(S, Claimable)
       /\ batch' = [batch EXCEPT ![r] = S]
       /\ seen' = [seen EXCEPT ![r] = [e \in Events |-> IF e \in S THEN retries[e] ELSE @[e]]]
  /\ pc' = [pc EXCEPT ![r] = "claiming"]
  /\ UNCHANGED <<status, retries, cancelled, topic, acked, unsure, left>>

Processing(S) == [e \in Events |-> IF e \in S THEN "processing" ELSE status[e]]

FetchCommit(r) ==
  /\ pc[r] = "claiming"
  /\ status' = Processing(batch[r])
  /\ pc' = [pc EXCEPT ![r] = "publishing"]
  /\ UNCHANGED <<retries, batch, seen, cancelled, topic, acked, unsure, left>>

\* The transaction rolls back, or commits without the relay learning of it:
\* processBatch returns either way.
FetchFail(r) ==
  /\ pc[r] = "claiming"
  /\ CallFails(r)
  /\ status' \in {status, Processing(batch[r])}
  /\ pc' = [pc EXCEPT ![r] = "idle"]
  /\ batch' = [batch EXCEPT ![r] = {}]
  /\ UNCHANGED <<retries, seen, cancelled, topic, acked, unsure>>

-----------------------------------------------------------------------------
(* processBatch: publish the current event, then record the outcome.       *)

\* The loop moves past e: to the next event of the batch, or back to the ticker.
Advance(r, e) ==
  /\ batch' = [batch EXCEPT ![r] = @ \ {e}]
  /\ pc' = [pc EXCEPT ![r] = IF batch[r] = {e} THEN "idle" ELSE "publishing"]

(* Publish: WriteMessages of a writer with MaxAttempts 5 and no producer   *)
(* id.  The call resends within itself, so that a nil as well as an error  *)
(* may stand for several messages in Kafka; "topic" says only whether      *)
(* there is one.  What a failed call sent may arrive after it returned.    *)

\* WriteMessages returns nil only before the context is cancelled.
PublishOk(r, e) ==
  /\ pc[r] = "publishing" /\ ~cancelled[r]
  /\ IsCurrent(r, e)
  /\ topic' = topic \cup {e}
  /\ acked' = acked \cup {e}
  /\ pc' = [pc EXCEPT ![r] = "completing"]
  /\ UNCHANGED <<status, retries, batch, seen, cancelled, unsure, left>>

\* An error of the broker, or the cancelled context.
PublishErr(r, e) ==
  /\ pc[r] = "publishing"
  /\ IsCurrent(r, e)
  /\ unsure' = unsure \cup {e}
  /\ pc' = [pc EXCEPT ![r] = "failing"]
  /\ UNCHANGED <<status, retries, batch, seen, cancelled, topic, acked, left>>

\* A message of a call that was not acknowledged is in Kafka after all.
ArrivesUnacknowledged(e) ==
  /\ e \in unsure \ topic
  /\ topic' = topic \cup {e}
  /\ UNCHANGED <<status, retries, pc, batch, seen, cancelled, acked, unsure, left>>

MarkCompleted(r, e) ==
  /\ pc[r] = "completing"
  /\ IsCurrent(r, e)
  /\ \/ /\ ~cancelled[r]
        /\ status' = [status EXCEPT ![e] = "completed"]
        /\ UNCHANGED left
     \/ /\ CallFails(r)
        /\ status' \in {status, [status EXCEPT ![e] = "completed"]}
  /\ Advance(r, e)
  /\ UNCHANGED <<retries, seen, cancelled, topic, acked, unsure>>

SameRetryCount(n) == n
NextRetryCount(n) == n + 1

CanRetryOffByOne(n) == n <= MaxRetries
CanRetry(n) == n < MaxRetries

\* OutboxEvent.MarkFailed on the in-memory copy, then the UPDATE.
MarkFailed(r, e) ==
  LET n == NextRetryCount(seen[r][e])
      failed == [status EXCEPT ![e] = IF CanRetry(n) THEN "pending" ELSE "failed"]
      counted == [retries EXCEPT ![e] = n]
  IN  /\ pc[r] = "failing"
      /\ IsCurrent(r, e)
      /\ \/ ~cancelled[r] /\ status' = failed /\ retries' = counted /\ UNCHANGED left
         \/ /\ CallFails(r)
            /\ \/ UNCHANGED table
               \/ status' = failed /\ retries' = counted
      /\ Advance(r, e)
      /\ UNCHANGED <<seen, cancelled, topic, acked, unsure>>

IsFinished(e) == status[e] \in {"completed", "failed"}
IsDeletable(e) == status[e] = "completed"

\* cleanupLoop: DeleteCompleted removes the rows older than the retention; which
\* ones these are is left open.
Cleanup(r) ==
  /\ pc[r] # "down" /\ ~cancelled[r]
  /\ \E S \in SUBSET {e \in Events : IsDeletable(e)} :
       /\ S # {}
       /\ status' = [e \in Events |-> IF e \in S THEN "deleted" ELSE status[e]]
  /\ UNCHANGED <<retries, pc, batch, seen, cancelled, topic, acked, unsure, left>>

-----------------------------------------------------------------------------
RelayStep(r) ==
  \/ FetchSelect(r) \/ FetchCommit(r) \/ FetchFail(r) \/ Exit(r)
  \/ \E e \in Events : PublishOk(r, e) \/ PublishErr(r, e)
  \/ \E e \in Events : MarkCompleted(r, e) \/ MarkFailed(r, e)

Next ==
  \/ \E e \in Events : Enqueue(e) \/ ArrivesUnacknowledged(e)
  \/ RetryFailed
  \/ \E r \in Relays : RelayStep(r) \/ Start(r) \/ Stop(r) \/ Crash(r) \/ Cleanup(r)

Spec == Init /\ [][Next]_vars

\* A started relay keeps running, and a stopped or crashed one is started again.
FairSpec == Spec /\ \A r \in Relays : WF_vars(RelayStep(r)) /\ WF_vars(Start(r))

-----------------------------------------------------------------------------
(* Properties.                                                             *)

\* No two relays work on the same event, through the select, the commit and the
\* whole handling of the batch (domain/repository.go: FetchPending "prevents
\* concurrent relay workers from picking up the same events").
ExclusiveClaim ==
  \A r, s \in Relays : r # s => batch[r] \cap batch[s] = {}

\* While a relay holds an event nobody else changes its row: neither another relay,
\* nor the clean-up, nor RetryFailed.  So the retry count MarkFailed writes back
\* from memory is never stale and no row is written after its deletion.
ClaimIsCurrent ==
  \A r \in Relays : \A e \in batch[r] :
    /\ retries[e] = seen[r][e]
    /\ status[e] = IF pc[r] = "claiming" THEN "pending" ELSE "processing"

\* A row is completed, and so eventually deleted, only if Kafka has the event.
CompletedWasPublished ==
  \A e \in Events : status[e] \in {"completed", "deleted"} => e \in topic

\* Once a Publish call has returned nil for an event, no relay publishes it again and
\* its row is not left where one would: neither crashes, Stop, failed bookkeeping nor
\* the retry endpoint resend it.  So whatever more than one call sent of an event, all
\* calls but the last failed; how many messages a single call leaves is the writer's.
AcknowledgedIsNotResent ==
  \A e \in acked :
    /\ status[e] \notin {"pending", "failed"}
    /\ \A r \in Relays : e \in batch[r] => pc[r] = "completing" /\ IsCurrent(r, e)

\* A row is re-queued only while it has retries left and is failed exactly when it
\* has none (OutboxEvent.MarkFailed, RetryFailed).
RetryBudget ==
  \A e \in Events :
    /\ status[e] = "pending" => retries[e] < MaxRetries
    /\ status[e] = "failed" => retries[e] = MaxRetries

\* A row that carries an undelivered event is never removed, and a completed row is
\* never taken up again (DeleteCompleted against FetchPending and RetryFailed).
CompletedIsFinal ==
  [][\A e \in Events :
       /\ status'[e] = "deleted" => status[e] \in {"completed", "deleted"}
       /\ status[e] = "completed" => status'[e] \in {"completed", "deleted"}]_status

\* Nobody works on e any more, and no query selects it: its relay crashed, was stopped,
\* or could not record the outcome.
Orphaned(e) == status[e] = "processing" /\ \A r \in Relays : e \notin batch[r]

\* Every queued event is published and recorded, parked as failed, or orphaned by a
\* crash, a stop or a database fault, whatever the broker does: the retry counter stops
\* an event that always fails, and no event is starved by the others.
QueuedSettles ==
  \A e \in Events :
    status[e] = "pending" ~>
      status[e] \in {"completed", "deleted", "failed"} \/ Orphaned(e)

-----------------------------------------------------------------------------
\* The outbox implements the delivery ledger: open rows are pending or processing,
\* settled ones completed or deleted, parked ones failed.
Ledger == INSTANCE DeliveryLedger WITH
  open <- {e \in Events : status[e] \in {"pending", "processing"}},
  delivered <- topic,
  settled <- {e \in Events : status[e] \in {"completed", "deleted"}},
  parked <- {e \in Events : status[e] = "failed"}

\* Every step of the relays, the clean-up and the endpoint is a step of the ledger or
\* changes nothing in it: no event is settled undelivered, delivered before it is
\* accepted, or reopened when it is settled.
ImplementsLedger == Ledger!Spec
=============================================================================
