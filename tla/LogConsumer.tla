---------------------------- MODULE LogConsumer ----------------------------
(***************************************************************************)
(* The consumers of the Kafka topic "logs": log-processor, which writes to *)
(* ClickHouse, and embedding-worker, which writes to Postgres.  Both run   *)
(* the same loop (infrastructure/kafka/consumer.go): fetch a message, call *)
(* the handler, commit the offset; a handler error skips the commit.       *)
(*                                                                         *)
(* The topic has one partition, so a consumer group delivers it to one     *)
(* member at a time.  A log is named by its offset.  Kafka's side of the   *)
(* group (assignments and the committed offset) is external.               *)
(*                                                                         *)
(* Where two definitions of one thing stand together, such as              *)
(* CommitsOnRead and AfterFetch,                                           *)
(* the first is a plausible slip that no specification uses: it is put in  *)
(* the place of the second to see that a property notices.                 *)
(***************************************************************************)
EXTENDS Naturals

CONSTANTS
  Members,     \* consumer processes
  NoMember,    \* the partition has no owner
  Unparsable,  \* offsets of messages that are no JSON log (another producer's)
  MaxLogs,     \* bound on the logs ever ingested
  MaxFailures, MaxStops, MaxCrashes, MaxRebalances  \* bounds on the environment

ASSUME ConsumerAssumption ==
  /\ NoMember \notin Members
  /\ Unparsable \subseteq Nat
  /\ {MaxLogs, MaxFailures, MaxStops, MaxCrashes, MaxRebalances} \subseteq Nat

VARIABLES
  produced,   \* number of messages in the topic
  committed,  \* the group's committed offset: where a new assignment starts
  owner,      \* member the partition is assigned to
  position,   \* position[m]: next offset m's reader delivers
  pc,         \* pc[m]: where the Consume loop of m is
  current,    \* current[m]: offset of the message m handles or commits
  cancelled,  \* cancelled[m]: m received SIGTERM
  rows,       \* rows[m][i]: rows m has written for log i
  failed,     \* logs whose handler returned an error at least once
  assigned,   \* assigned[m]: number of assignments m has received
  left        \* how often each environment event may still happen

group == <<committed, owner, position, assigned>>
vars == <<produced, committed, owner, position, pc, current, cancelled, rows,
          failed, assigned, left>>

Offsets == 0..(MaxLogs - 1)
Labels == {"down", "fetching", "handling", "committing"}
Budget == [failure |-> MaxFailures, stop |-> MaxStops, crash |-> MaxCrashes,
           rebalance |-> MaxRebalances]

\* Types; neither the reader nor the committed offset runs past the end of the topic.
TypeOK ==
  /\ produced \in 0..MaxLogs
  /\ committed \in 0..produced
  /\ owner \in Members \cup {NoMember}
  /\ position \in [Members -> Nat]
  /\ \A m \in Members : position[m] <= produced
  /\ pc \in [Members -> Labels]
  /\ current \in [Members -> Nat]
  /\ \A m \in Members : pc[m] \in {"handling", "committing"} => current[m] < produced
  /\ cancelled \in [Members -> BOOLEAN]
  /\ rows \in [Members -> [Offsets -> Nat]]
  /\ failed \subseteq Offsets
  /\ assigned \in [Members -> Nat]
  /\ left \in [DOMAIN Budget -> Nat]

Init ==
  /\ produced = 0 /\ committed = 0
  /\ owner = NoMember
  /\ position = [m \in Members |-> 0]
  /\ pc = [m \in Members |-> "down"]
  /\ current = [m \in Members |-> 0]
  /\ cancelled = [m \in Members |-> FALSE]
  /\ rows = [m \in Members |-> [i \in Offsets |-> 0]]
  /\ failed = {}
  /\ assigned = [m \in Members |-> 0]
  /\ left = Budget

Spend(kind) == left[kind] > 0 /\ left' = [left EXCEPT ![kind] = @ - 1]

\* The ingest API publishes a log.
Produce ==
  /\ produced < MaxLogs
  /\ produced' = produced + 1
  /\ UNCHANGED <<group, pc, current, cancelled, rows, failed, left>>

-----------------------------------------------------------------------------
(* The process of a member: start, SIGTERM, crash.                         *)

Start(m) ==
  /\ pc[m] = "down"
  /\ pc' = [pc EXCEPT ![m] = "fetching"]
  /\ cancelled' = [cancelled EXCEPT ![m] = FALSE]
  /\ UNCHANGED <<produced, group, current, rows, failed, left>>

Stop(m) ==
  /\ pc[m] # "down" /\ ~cancelled[m]
  /\ Spend("stop")
  /\ cancelled' = [cancelled EXCEPT ![m] = TRUE]
  /\ UNCHANGED <<produced, group, pc, current, rows, failed>>

Leave(m) ==
  /\ pc' = [pc EXCEPT ![m] = "down"]
  /\ owner' = IF owner = m THEN NoMember ELSE owner

\* FetchMessage returns ctx.Err(), Consume returns it and Close leaves the group.
Exit(m) ==
  /\ pc[m] = "fetching" /\ cancelled[m]
  /\ Leave(m)
  /\ UNCHANGED <<produced, committed, position, current, cancelled, rows, failed, assigned, left>>

Written(m, i) == [rows EXCEPT ![m][i] = @ + 1]

\* The insert of the log in m's hands happens or not; an unparsable one is not inserted.
MaybeWritten(m) ==
  {rows} \cup {Written(m, i) : i \in {current[m]} \ Unparsable}

\* The process dies, possibly after its insert; the group notices when the session times out.
Crash(m) ==
  /\ pc[m] # "down"
  /\ Spend("crash")
  /\ Leave(m)
  /\ rows' \in IF pc[m] = "handling" THEN MaybeWritten(m) ELSE {rows}
  /\ UNCHANGED <<produced, committed, position, current, cancelled, failed, assigned>>

-----------------------------------------------------------------------------
(* The group coordinator.                                                  *)

\* Where the reader of a new assignment starts.
StartOffset == committed

\* m gets the partition: at once when nobody owns it, by a rebalance otherwise (a
\* missed heartbeat of the owner).  The old owner may still be in its handler.
Assign(m) ==
  /\ pc[m] # "down"
  /\ \/ owner = NoMember /\ UNCHANGED left
     \/ owner # NoMember /\ Spend("rebalance")
  /\ owner' = m
  /\ position' = [position EXCEPT ![m] = StartOffset]
  /\ assigned' = [assigned EXCEPT ![m] = @ + 1]
  /\ UNCHANGED <<produced, committed, pc, current, cancelled, rows, failed>>

-----------------------------------------------------------------------------
(* Consume.                                                                *)

PositionAfter(i) == i + 1

CommitsOnRead == "committing"
\* FetchMessage, unlike ReadMessage, commits nothing: the handler comes first.
AfterFetch == "handling"

\* FetchMessage.  Its select may prefer a buffered message to a cancelled context.
Fetch(m) ==
  /\ pc[m] = "fetching"
  /\ owner = m /\ position[m] < produced
  /\ current' = [current EXCEPT ![m] = position[m]]
  /\ position' = [position EXCEPT ![m] = PositionAfter(@)]
  /\ pc' = [pc EXCEPT ![m] = AfterFetch]
  /\ UNCHANGED <<produced, committed, owner, cancelled, rows, failed, assigned, left>>

\* handleMessage returns nil: the log is inserted, or it is no log at all.
HandleOk(m) ==
  /\ pc[m] = "handling"
  /\ rows' = IF current[m] \in Unparsable THEN rows ELSE Written(m, current[m])
  /\ pc' = [pc EXCEPT ![m] = "committing"]
  /\ UNCHANGED <<produced, group, current, cancelled, failed, left>>

\* A call on the context of m fails because it is cancelled or by a fault.
CallFails(m) == IF cancelled[m] THEN UNCHANGED left ELSE Spend("failure")

RetriesInPlace == "handling"
\* Both loops log the error and continue.
AfterHandlerError == "fetching"

\* handleMessage fails (the store, Ollama, or the cancelled context); the insert may
\* have happened.  The loop goes on to the next message.
HandleErr(m) ==
  /\ pc[m] = "handling" /\ current[m] \notin Unparsable
  /\ CallFails(m)
  /\ rows' \in MaybeWritten(m)
  /\ failed' = failed \cup {current[m]}
  /\ pc' = [pc EXCEPT ![m] = AfterHandlerError]
  /\ UNCHANGED <<produced, group, current, cancelled>>

\* CommitMessages is given the handled message and commits the offset after it.
CommitOffset(i) == i + 1

\* CommitMessages takes effect (an error after that is only logged).  The commit of a
\* former owner is accepted too, so the committed offset may move back.
Commit(m) ==
  /\ pc[m] = "committing"
  /\ committed' = CommitOffset(current[m])
  /\ pc' = [pc EXCEPT ![m] = "fetching"]
  /\ UNCHANGED <<produced, owner, position, current, cancelled, rows, failed, assigned, left>>

\* CommitMessages fails without effect; the error is only logged.
CommitErr(m) ==
  /\ pc[m] = "committing"
  /\ CallFails(m)
  /\ pc' = [pc EXCEPT ![m] = "fetching"]
  /\ UNCHANGED <<produced, group, current, cancelled, rows, failed>>

MemberStep(m) == Exit(m) \/ Fetch(m) \/ HandleOk(m) \/ HandleErr(m) \/ Commit(m) \/ CommitErr(m)

Next ==
  \/ Produce
  \/ \E m \in Members : MemberStep(m) \/ Start(m) \/ Stop(m) \/ Crash(m) \/ Assign(m)

Spec == Init /\ [][Next]_vars

\* Processes are restarted and keep running, and a free partition is assigned.
FairSpec ==
  /\ Spec
  /\ \A m \in Members : WF_vars(MemberStep(m)) /\ WF_vars(Start(m))
  /\ WF_vars(owner = NoMember /\ \E m \in Members : Assign(m))

-----------------------------------------------------------------------------
(* Properties.                                                             *)

\* The handler is done with log i: some member stored it, it is no log, or storing it
\* failed.
Settled(i) == i \in Unparsable \cup failed \/ \E m \in Members : rows[m][i] > 0

\* The committed offset never passes a log nobody has handled, whichever members
\* crash, are cancelled, lose the partition in a handler or commit late.
CommittedAreSettled == \A i \in Offsets : i < committed => Settled(i)

\* A member stores a log at most once per assignment of the partition: only a restart
\* or a rebalance duplicates rows (each delivery inserts under a fresh uuid).
OncePerAssignment == \A m \in Members, i \in Offsets : rows[m][i] <= assigned[m]

\* Every log that reaches the topic is handled at least once, through crashes, stops,
\* rebalances, failed inserts and failed commits.
EveryLogIsTried == \A i \in Offsets : i < produced ~> Settled(i)

\* log-processor is to "consume logs from Kafka and write to ClickHouse" and the
\* embedding worker to embed and store them in Postgres: every member stores every log.
EveryMemberStoresEveryLog ==
  \A i \in Offsets \ Unparsable : i < produced ~> \A m \in Members : rows[m][i] > 0
=============================================================================
