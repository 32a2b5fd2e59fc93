------------------------- MODULE LogConsumerProofs -------------------------
(***************************************************************************)
(* Proofs about the log consumers, for any number of members and messages. *)
(***************************************************************************)
EXTENDS LogConsumer, TLAPS

Busy == {"handling", "committing"}

\* The owner of the partition is a running member.
OwnerIsUp == owner \in Members => pc[owner] # "down"

TypeInv == TypeOK /\ OwnerIsUp

USE DEF Labels, Offsets, Budget, AfterFetch, AfterHandlerError

\* The first state is typed.
LEMMA TypeInvInit == Init => TypeInv
  BY ConsumerAssumption DEF Init, TypeInv, TypeOK, OwnerIsUp

\* A fault spends its budget; a call cut short by SIGTERM costs nothing.
LEMMA BudgetTyped ==
  ASSUME TypeOK
  PROVE  /\ \A kind \in DOMAIN Budget : Spend(kind) => left' \in [DOMAIN Budget -> Nat]
         /\ \A m \in Members : CallFails(m) => left' \in [DOMAIN Budget -> Nat]
<1>1. \A kind \in DOMAIN Budget : Spend(kind) => left' \in [DOMAIN Budget -> Nat]
  BY DEF Spend, TypeOK
<1>2. "failure" \in DOMAIN Budget
  OBVIOUS
<1> QED
  BY <1>1, <1>2 DEF CallFails, TypeOK

\* An insert leaves the table of rows typed.
LEMMA WrittenTyped ==
  ASSUME TypeOK, NEW m \in Members, pc[m] = "handling"
  PROVE  /\ current[m] \in Offsets
         /\ Written(m, current[m]) \in [Members -> [Offsets -> Nat]]
         /\ MaybeWritten(m) \subseteq [Members -> [Offsets -> Nat]]
<1>1. current[m] \in Offsets
  BY ConsumerAssumption DEF TypeOK
<1>2. [rows[m] EXCEPT ![current[m]] = @ + 1] \in [Offsets -> Nat]
  <2>1. rows[m] \in [Offsets -> Nat]
    BY DEF TypeOK
  <2> HIDE DEF Offsets
  <2>2. rows[m][current[m]] + 1 \in Nat
    BY <1>1, <2>1
  <2> QED
    BY <2>1, <2>2
<1>3. Written(m, current[m]) \in [Members -> [Offsets -> Nat]]
  <2> DEFINE row == [rows[m] EXCEPT ![current[m]] = @ + 1]
  <2>1. Written(m, current[m]) = [rows EXCEPT ![m] = row]
    BY DEF Written
  <2> HIDE DEF row
  <2> QED
    BY <1>2, <2>1 DEF TypeOK, row
<1> QED
  BY <1>1, <1>3 DEF MaybeWritten, TypeOK

\* The steps outside Consume.
LEMMA TypeInvEnvironment ==
  ASSUME TypeInv, NEW m \in Members,
         Produce \/ Start(m) \/ Stop(m) \/ Crash(m) \/ Assign(m)
  PROVE  TypeInv'
<1> USE DEF TypeInv
<1>0. {"stop", "crash", "rebalance"} \subseteq DOMAIN Budget
  OBVIOUS
<1>1. left' \in [DOMAIN Budget -> Nat]
  BY <1>0, BudgetTyped DEF Produce, Start, Stop, Crash, Assign, TypeOK
<1> HIDE DEF Budget
<1>2. CASE Produce
  <2>1. produced' = produced + 1 /\ produced' \in 0..MaxLogs
    BY <1>2, ConsumerAssumption DEF Produce, TypeOK
  <2>2. produced \in Nat /\ committed \in 0..produced
    BY ConsumerAssumption DEF TypeOK
  <2>3. committed \in 0..produced'
    BY <2>1, <2>2
  <2>4. /\ \A n \in Members : position[n] <= produced'
        /\ \A n \in Members : pc[n] \in {"handling", "committing"} => current[n] < produced'
    BY <2>1, <2>2 DEF TypeOK
  <2> HIDE DEF Offsets
  <2> QED
    BY <1>2, <1>1, <2>1, <2>3, <2>4 DEF Produce, group, TypeOK, OwnerIsUp
<1> HIDE DEF Offsets
<1>3. CASE Start(m)
  BY <1>1, <1>3 DEF Start, group, TypeOK, OwnerIsUp
<1>3a. CASE Stop(m)
  BY <1>1, <1>3a DEF Stop, group, TypeOK, OwnerIsUp
<1>4. CASE Crash(m)
  BY <1>1, <1>4, WrittenTyped, ConsumerAssumption DEF Crash, Leave, TypeOK, OwnerIsUp
<1>5. CASE Assign(m)
  BY <1>1, <1>5, ConsumerAssumption DEF Assign, StartOffset, TypeOK, OwnerIsUp
<1> QED
  BY <1>2, <1>3, <1>3a, <1>4, <1>5

\* The steps of a Consume loop keep the types.
LEMMA TypeInvMember ==
  ASSUME TypeInv, NEW m \in Members, MemberStep(m)
  PROVE  TypeInv'
<1> USE DEF TypeInv
<1>1. left' \in [DOMAIN Budget -> Nat]
  BY BudgetTyped DEF MemberStep, Exit, Fetch, HandleOk, HandleErr, Commit, CommitErr, TypeOK
<1> HIDE DEF Budget
<1>2. CASE Exit(m)
  BY <1>1, <1>2, ConsumerAssumption DEF Exit, Leave, TypeOK, OwnerIsUp
<1>3. CASE Fetch(m)
  BY <1>1, <1>3, ConsumerAssumption DEF Fetch, PositionAfter, TypeOK, OwnerIsUp
<1>4. CASE HandleOk(m)
  BY <1>1, <1>4, WrittenTyped, ConsumerAssumption DEF HandleOk, group, TypeOK, OwnerIsUp
<1>5. CASE HandleErr(m)
  <2>1. failed' \subseteq Offsets
    BY <1>5, WrittenTyped DEF HandleErr, TypeOK
  <2> QED
    BY <1>1, <1>5, <2>1, WrittenTyped, ConsumerAssumption DEF HandleErr, group, TypeOK, OwnerIsUp
<1>6. CASE Commit(m)
  <2>1. produced \in Nat /\ current[m] \in Nat /\ current[m] < produced
    BY <1>6, ConsumerAssumption DEF Commit, TypeOK
  <2>2. committed' = current[m] + 1
    BY <1>6 DEF Commit, CommitOffset
  <2>3. committed' \in 0..produced
    BY <2>1, <2>2
  <2> HIDE DEF Offsets
  <2> QED
    BY <1>1, <1>6, <2>3 DEF Commit, TypeOK, OwnerIsUp
<1>7. CASE CommitErr(m)
  BY <1>1, <1>7, ConsumerAssumption DEF CommitErr, group, TypeOK, OwnerIsUp
<1> QED
  BY <1>2, <1>3, <1>4, <1>5, <1>6, <1>7 DEF MemberStep

\* TypeInv is inductive.
LEMMA TypeInvNext == TypeInv /\ [Next]_vars => TypeInv'
<1> SUFFICES ASSUME TypeInv, [Next]_vars PROVE TypeInv'
  OBVIOUS
<1>1. CASE UNCHANGED vars
  BY <1>1 DEF vars, TypeInv, TypeOK, OwnerIsUp
<1>2. CASE Produce
  \* Produce needs no member; the lemma above is stated for one.
  <2>1. CASE Members = {}
    BY <1>2, <2>1, ConsumerAssumption DEF Produce, group, TypeInv, TypeOK, OwnerIsUp
  <2>2. CASE Members # {}
    BY <1>2, <2>2, TypeInvEnvironment
  <2> QED
    BY <2>1, <2>2
<1> QED
  BY <1>1, <1>2, TypeInvEnvironment, TypeInvMember DEF Next

\* Types, and the partition belongs to a running process, at all times.
THEOREM TypeInvariant == Spec => []TypeInv
  BY TypeInvInit, TypeInvNext, PTL DEF Spec

\* Type correctness; in particular a reader never delivers, and nobody commits, past
\* the end of the topic.
THEOREM TypeCorrect == Spec => []TypeOK
  BY TypeInvariant, PTL DEF TypeInv

-----------------------------------------------------------------------------
(* The committed offset never passes a log nobody has handled.             *)

\* Everything an owner's reader has passed is settled, but for the message in its
\* handler.
PassedAreSettled ==
  owner \in Members =>
    \A i \in Offsets : i < position[owner] =>
      Settled(i) \/ (pc[owner] = "handling" /\ i = current[owner])

\* A busy member, owner or not, has only settled logs below its message, so that its
\* commit passes nothing else.
BelowCurrentAreSettled ==
  \A m \in Members : pc[m] \in Busy =>
    \A i \in Offsets : i < current[m] => Settled(i)

CommittingIsSettled ==
  \A m \in Members : pc[m] = "committing" => Settled(current[m])

SettledInv ==
  /\ CommittedAreSettled
  /\ PassedAreSettled
  /\ BelowCurrentAreSettled
  /\ CommittingIsSettled

\* Nothing is committed yet.
LEMMA SettledInvInit == Init => SettledInv
  BY ConsumerAssumption DEF Init, SettledInv, CommittedAreSettled, PassedAreSettled,
         BelowCurrentAreSettled, CommittingIsSettled, Busy

\* What is settled stays settled: rows are only added, and so are failures.
LEMMA SettledIsStable ==
  ASSUME TypeInv, [Next]_vars, NEW i \in Offsets, Settled(i)
  PROVE  Settled(i)'
<1> USE DEF TypeInv
<1>1. failed \subseteq failed'
  BY DEF Next, MemberStep, Produce, Start, Stop, Exit, Crash, Assign, Fetch, HandleOk,
         HandleErr, Commit, CommitErr, vars
<1>2. \A m \in Members : rows'[m][i] >= rows[m][i]
  <2>1. ASSUME NEW n \in Members, pc[n] = "handling", rows' = Written(n, current[n])
        PROVE  \A m \in Members : rows'[m][i] >= rows[m][i]
    <3>1. current[n] \in Offsets
      BY <2>1, WrittenTyped
    <3>2. \A m \in Members : rows[m] \in [Offsets -> Nat]
      BY DEF TypeOK
    <3>3. \A m \in Members, j \in Offsets : rows[m][j] \in Nat
      BY <3>2
    <3> HIDE DEF Offsets
    <3> QED
      BY <2>1, <3>1, <3>2, <3>3 DEF Written, TypeOK
  <2>2. CASE UNCHANGED rows
    <3>1. \A m \in Members : rows[m][i] \in Nat
      BY DEF TypeOK
    <3> QED
      BY <2>2, <3>1
  <2>3. UNCHANGED rows \/ \E n \in Members : pc[n] = "handling" /\ rows' = Written(n, current[n])
    BY DEF Next, MemberStep, Produce, Start, Stop, Exit, Crash, Assign, Fetch, HandleOk,
           HandleErr, Commit, CommitErr, MaybeWritten, vars
  <2> QED
    BY <2>1, <2>2, <2>3
<1>3. \A m \in Members : rows[m][i] \in Nat /\ rows'[m][i] \in Nat
  <2>1. rows \in [Members -> [Offsets -> Nat]] /\ rows' \in [Members -> [Offsets -> Nat]]
    BY TypeInvNext DEF TypeOK
  <2> HIDE DEF TypeInv, Offsets
  <2> QED
    BY <2>1
<1> HIDE DEF TypeInv, Offsets
<1> QED
  BY <1>1, <1>2, <1>3 DEF Settled

\* Steps after which no member is further than before.
LEMMA SettledInvQuiet ==
  ASSUME TypeInv, SettledInv, NEW m \in Members,
         Produce \/ Start(m) \/ Stop(m) \/ Crash(m) \/ Exit(m) \/ CommitErr(m) \/ UNCHANGED vars
  PROVE  SettledInv'
<1>1. [Next]_vars
  BY DEF Next, MemberStep
<1>2. \A i \in Offsets : Settled(i) => Settled(i)'
  BY <1>1, SettledIsStable
<1>3. UNCHANGED <<committed, position, current>> /\ owner' \in {owner, NoMember}
  BY DEF Produce, Start, Stop, Crash, Exit, CommitErr, Leave, group, vars
<1>4. /\ \A n \in Members \ {m} : pc'[n] = pc[n]
      /\ pc'[m] = pc[m] \/ pc'[m] \notin Busy
      /\ owner' = m => pc'[m] = "handling" \/ pc[m] # "handling"
  BY ConsumerAssumption
     DEF Produce, Start, Stop, Crash, Exit, CommitErr, Leave, group, vars, Busy,
         TypeInv, TypeOK, OwnerIsUp
<1>5. \A n \in Members : pc'[n] \in Busy => pc[n] \in Busy /\ pc'[n] = pc[n]
  BY <1>4
<1>6. CommittedAreSettled'
  BY <1>2, <1>3 DEF SettledInv, CommittedAreSettled
<1>7. PassedAreSettled'
  BY <1>2, <1>3, <1>4, ConsumerAssumption DEF SettledInv, PassedAreSettled
<1>8. BelowCurrentAreSettled'
  BY <1>2, <1>3, <1>5 DEF SettledInv, BelowCurrentAreSettled
<1>9. CommittingIsSettled'
  <2>1. \A n \in Members : pc[n] = "committing" => current[n] \in Offsets
    BY ConsumerAssumption DEF TypeInv, TypeOK
  <2> QED
    BY <1>2, <1>3, <1>5, <2>1 DEF SettledInv, CommittingIsSettled, Busy
<1> QED
  BY <1>6, <1>7, <1>8, <1>9 DEF SettledInv

\* A new owner starts at the committed offset, below which all is settled.
LEMMA SettledInvAssign ==
  ASSUME TypeInv, SettledInv, NEW m \in Members, Assign(m)
  PROVE  SettledInv'
<1>1. UNCHANGED <<committed, current, rows, failed, pc>>
  BY DEF Assign
<1>2. \A i : Settled(i)' = Settled(i)
  BY <1>1 DEF Settled
<1>3. owner' = m /\ position'[m] = committed
  BY DEF Assign, StartOffset, TypeInv, TypeOK
<1> QED
  BY <1>1, <1>2, <1>3 DEF SettledInv, CommittedAreSettled, PassedAreSettled,
     BelowCurrentAreSettled, CommittingIsSettled

\* The next message: all below it is passed, so settled.
LEMMA SettledInvFetch ==
  ASSUME TypeInv, SettledInv, NEW m \in Members, Fetch(m)
  PROVE  SettledInv'
<1>1. /\ UNCHANGED <<committed, owner, rows, failed>>
      /\ owner = m /\ pc[m] = "fetching"
      /\ pc' = [pc EXCEPT ![m] = "handling"]
      /\ current' = [current EXCEPT ![m] = position[m]]
      /\ position' = [position EXCEPT ![m] = @ + 1]
  BY DEF Fetch, PositionAfter
<1>2. \A i : Settled(i)' = Settled(i)
  BY <1>1 DEF Settled
<1>3. /\ pc'[m] = "handling" /\ current'[m] = position[m] /\ position'[m] = position[m] + 1
      /\ \A n \in Members \ {m} : pc'[n] = pc[n] /\ current'[n] = current[n]
  BY <1>1 DEF TypeInv, TypeOK
<1>4. CommittedAreSettled'
  BY <1>1, <1>2 DEF SettledInv, CommittedAreSettled
<1>5. \A i \in Offsets : i < position[m] => Settled(i)
  BY <1>1 DEF SettledInv, PassedAreSettled
<1>6. PassedAreSettled'
  <2>1. position[m] \in Nat
    BY DEF TypeInv, TypeOK
  <2> QED
    BY <1>1, <1>2, <1>3, <1>5, <2>1 DEF PassedAreSettled
<1>7. BelowCurrentAreSettled'
  BY <1>2, <1>3, <1>5 DEF SettledInv, BelowCurrentAreSettled
<1>8. CommittingIsSettled'
  BY <1>2, <1>3 DEF SettledInv, CommittingIsSettled
<1> QED
  BY <1>4, <1>6, <1>7, <1>8 DEF SettledInv

\* After its handler, with or without an error, the message of m is settled.
LEMMA SettledInvHandle ==
  ASSUME TypeInv, SettledInv, NEW m \in Members, HandleOk(m) \/ HandleErr(m)
  PROVE  SettledInv'
<1>1. [Next]_vars
  BY DEF Next, MemberStep
<1>2. \A i \in Offsets : Settled(i) => Settled(i)'
  BY <1>1, SettledIsStable
<1>3. /\ UNCHANGED <<committed, owner, position, current>>
      /\ pc[m] = "handling"
      /\ \A n \in Members \ {m} : pc'[n] = pc[n]
      /\ pc'[m] \in {"committing", "fetching"}
  BY DEF HandleOk, HandleErr, group, TypeInv, TypeOK
<1>4. Settled(current[m])'
  <2>1. CASE HandleErr(m)
    BY <2>1 DEF HandleErr, Settled
  <2>2. CASE HandleOk(m) /\ current[m] \in Unparsable
    BY <2>2 DEF HandleOk, Settled
  <2>3. CASE HandleOk(m) /\ current[m] \notin Unparsable
    <3>1. rows' = Written(m, current[m]) /\ current' = current
      BY <2>3 DEF HandleOk
    <3>2. current[m] \in Offsets
      BY <1>3, WrittenTyped DEF TypeInv
    <3>3. rows[m] \in [Offsets -> Nat] /\ rows \in [Members -> [Offsets -> Nat]]
      BY DEF TypeInv, TypeOK
    <3>4. rows[m][current[m]] + 1 > 0
      <4> HIDE DEF Offsets
      <4>1. rows[m][current[m]] \in Nat
        BY <3>2, <3>3
      <4> QED
        BY <4>1
    <3>5. rows'[m][current[m]] = rows[m][current[m]] + 1
      <4> HIDE DEF Offsets
      <4> QED
        BY <3>1, <3>2, <3>3 DEF Written
    <3> QED
      BY <3>1, <3>4, <3>5 DEF Settled
  <2> QED
    BY <2>1, <2>2, <2>3
<1>5. CommittedAreSettled'
  BY <1>2, <1>3 DEF SettledInv, CommittedAreSettled
<1>6. PassedAreSettled'
  BY <1>2, <1>3, <1>4 DEF SettledInv, PassedAreSettled
<1>7. BelowCurrentAreSettled'
  BY <1>2, <1>3 DEF SettledInv, BelowCurrentAreSettled, Busy
<1>8. CommittingIsSettled'
  <2>1. \A n \in Members : pc[n] = "committing" => current[n] \in Offsets
    BY ConsumerAssumption DEF TypeInv, TypeOK
  <2> QED
    BY <1>2, <1>3, <1>4, <2>1 DEF SettledInv, CommittingIsSettled
<1> QED
  BY <1>5, <1>6, <1>7, <1>8 DEF SettledInv

\* Also the commit of a member that lost the partition passes settled logs only.
LEMMA SettledInvCommit ==
  ASSUME TypeInv, SettledInv, NEW m \in Members, Commit(m)
  PROVE  SettledInv'
<1>1. /\ UNCHANGED <<owner, position, current, rows, failed>>
      /\ pc[m] = "committing"
      /\ committed' = current[m] + 1
      /\ pc' = [pc EXCEPT ![m] = "fetching"]
  BY DEF Commit, CommitOffset
<1>2. \A i : Settled(i)' = Settled(i)
  BY <1>1 DEF Settled
<1>3. current[m] \in Nat
  BY DEF TypeInv, TypeOK
<1>4. \A i \in Offsets : i < current[m] + 1 => i < current[m] \/ i = current[m]
  BY <1>3
<1>5. CommittedAreSettled'
  BY <1>1, <1>2, <1>4 DEF SettledInv, CommittedAreSettled, BelowCurrentAreSettled,
     CommittingIsSettled, Busy
<1>6. \A n \in Members : pc'[n] = pc[n] \/ (n = m /\ pc'[n] = "fetching" /\ pc[n] # "handling")
  BY <1>1 DEF TypeInv, TypeOK
<1> QED
  BY <1>1, <1>2, <1>5, <1>6 DEF SettledInv, PassedAreSettled, BelowCurrentAreSettled,
     CommittingIsSettled, Busy

\* SettledInv is inductive, given the types.
LEMMA SettledInvNext == TypeInv /\ SettledInv /\ [Next]_vars => SettledInv'
<1> SUFFICES ASSUME TypeInv, SettledInv, [Next]_vars PROVE SettledInv'
  OBVIOUS
<1>1. CASE Members # {}
  BY <1>1, SettledInvQuiet, SettledInvAssign, SettledInvFetch, SettledInvHandle,
     SettledInvCommit DEF Next, MemberStep
<1>2. CASE Members = {}
  <2>1. UNCHANGED <<committed, rows, failed>> /\ UNCHANGED owner
    BY <1>2 DEF Next, Produce, group, vars
  <2> QED
    BY <1>2, <2>1 DEF SettledInv, CommittedAreSettled, PassedAreSettled,
       BelowCurrentAreSettled, CommittingIsSettled, Settled
<1> QED
  BY <1>1, <1>2

\* However many members crash, are rebalanced in the middle of a handler or commit
\* late, the committed offset never skips a log that no handler has seen.
THEOREM CommitsSkipNothing == Spec => []CommittedAreSettled
<1>1. Spec => []SettledInv
  BY TypeInvariant, SettledInvInit, SettledInvNext, PTL DEF Spec
<1> QED
  BY <1>1, PTL DEF SettledInv

-----------------------------------------------------------------------------
(* A member stores a log at most once per assignment.                      *)

InHand(m, i) == IF pc[m] = "handling" /\ current[m] = i THEN 1 ELSE 0
Ahead(m, i) == IF owner = m /\ position[m] <= i THEN 1 ELSE 0

\* The rows of m, the one its handler may still write and the one the rest of its
\* assignment may still bring are all paid for by an assignment.
OnceInv ==
  \A m \in Members, i \in Offsets : rows[m][i] + InHand(m, i) + Ahead(m, i) <= assigned[m]

\* Nothing is stored yet.
LEMMA OnceInvInit == Init => OnceInv
  BY ConsumerAssumption DEF Init, OnceInv, InHand, Ahead

\* How one step changes the four counters of a log.
LEMMA OnceInvStep ==
  ASSUME TypeInv, [Next]_vars, NEW m \in Members, NEW i \in Offsets
  PROVE  \/ /\ rows'[m][i] = rows[m][i] /\ assigned'[m] = assigned[m]
            /\ InHand(m, i)' <= InHand(m, i) /\ Ahead(m, i)' <= Ahead(m, i)
         \/ /\ rows'[m][i] = rows[m][i] /\ assigned'[m] = assigned[m]
            /\ Ahead(m, i) = 1 /\ Ahead(m, i)' = 0 /\ InHand(m, i)' = 1
         \/ /\ rows'[m][i] = rows[m][i] + 1 /\ assigned'[m] = assigned[m]
            /\ InHand(m, i) = 1 /\ InHand(m, i)' = 0 /\ Ahead(m, i)' <= Ahead(m, i)
         \/ /\ rows'[m][i] = rows[m][i] /\ assigned'[m] = assigned[m] + 1
            /\ InHand(m, i)' = InHand(m, i)
<1> USE DEF TypeInv
<1>1. ASSUME NEW n \in Members, Fetch(n) PROVE
         \/ /\ UNCHANGED <<rows, assigned>>
            /\ InHand(m, i)' <= InHand(m, i) /\ Ahead(m, i)' <= Ahead(m, i)
         \/ /\ UNCHANGED <<rows, assigned>>
            /\ Ahead(m, i) = 1 /\ Ahead(m, i)' = 0 /\ InHand(m, i)' = 1
  <2>1. /\ UNCHANGED <<rows, assigned, owner>> /\ owner = n
        /\ pc[n] = "fetching" /\ pc'[n] = "handling"
        /\ current'[n] = position[n] /\ position'[n] = position[n] + 1
        /\ n # m => pc'[m] = pc[m] /\ current'[m] = current[m] /\ position'[m] = position[m]
    BY <1>1 DEF Fetch, PositionAfter, TypeOK
  <2>2. position[n] \in Nat /\ i \in Nat
    BY DEF TypeOK
  <2> QED
    BY <2>1, <2>2 DEF InHand, Ahead
<1>2. ASSUME NEW n \in Members, Assign(n) PROVE
         /\ UNCHANGED rows
         /\ InHand(m, i)' = InHand(m, i) /\ InHand(m, i)' <= InHand(m, i)
         /\ \/ assigned'[m] = assigned[m] + 1
            \/ assigned'[m] = assigned[m] /\ Ahead(m, i)' <= Ahead(m, i)
  BY <1>2 DEF Assign, InHand, Ahead, TypeOK
<1>3. ASSUME NEW n \in Members, HandleOk(n) \/ HandleErr(n) \/ Crash(n) PROVE
         \/ /\ rows'[m][i] = rows[m][i]
            /\ InHand(m, i)' <= InHand(m, i) /\ Ahead(m, i)' <= Ahead(m, i)
         \/ /\ rows'[m][i] = rows[m][i] + 1
            /\ InHand(m, i) = 1 /\ InHand(m, i)' = 0 /\ Ahead(m, i)' <= Ahead(m, i)
  <2>1. /\ UNCHANGED <<position, current>> /\ owner' \in {owner, NoMember}
        /\ pc'[n] # "handling" /\ (n # m => pc'[m] = pc[m])
    BY <1>3 DEF HandleOk, HandleErr, Crash, Leave, group, TypeOK
  <2>2. UNCHANGED rows \/ (pc[n] = "handling" /\ rows' = Written(n, current[n]))
    BY <1>3 DEF HandleOk, HandleErr, Crash, MaybeWritten
  <2>3. InHand(m, i)' <= InHand(m, i) /\ Ahead(m, i)' <= Ahead(m, i)
    BY <2>1, ConsumerAssumption DEF InHand, Ahead
  <2>4. CASE UNCHANGED rows
    BY <2>3, <2>4
  <2>5. CASE pc[n] = "handling" /\ rows' = Written(n, current[n])
    <3>1. current[n] \in Offsets
      BY <2>5, WrittenTyped
    <3>2. rows \in [Members -> [Offsets -> Nat]]
      BY DEF TypeOK
    <3> HIDE DEF Offsets, TypeInv
    <3>3. rows'[m][i] = IF m = n /\ i = current[n] THEN rows[m][i] + 1 ELSE rows[m][i]
      BY <2>5, <3>1, <3>2 DEF Written
    <3> QED
      BY <2>1, <2>3, <2>5, <3>3 DEF InHand
  <2> QED
    BY <2>2, <2>4, <2>5
<1>4. ASSUME NEW n \in Members,
             Produce \/ Start(n) \/ Stop(n) \/ Exit(n) \/ Commit(n) \/ CommitErr(n) \/ UNCHANGED vars
      PROVE  /\ UNCHANGED <<rows, assigned>>
             /\ InHand(m, i)' <= InHand(m, i) /\ Ahead(m, i)' <= Ahead(m, i)
  <2>1. /\ UNCHANGED <<rows, assigned, position, current>>
        /\ owner' \in {owner, NoMember}
    BY <1>4 DEF Produce, Start, Stop, Exit, Leave, Commit, CommitErr, group, vars
  <2>2. pc'[m] = "handling" => pc[m] = "handling"
    BY <1>4 DEF Produce, Start, Stop, Exit, Leave, Commit, CommitErr, group, vars, TypeOK
  <2> QED
    BY <2>1, <2>2, ConsumerAssumption DEF InHand, Ahead
<1>5. \A n \in Members : HandleOk(n) \/ HandleErr(n) \/ Crash(n) => UNCHANGED assigned
  BY DEF HandleOk, HandleErr, Crash, group
<1> HIDE DEF TypeInv
<1>6. CASE \E n \in Members : Fetch(n)
  BY <1>1, <1>6
<1>7. CASE \E n \in Members : Assign(n)
  BY <1>2, <1>7
<1>8. CASE \E n \in Members : HandleOk(n) \/ HandleErr(n) \/ Crash(n)
  BY <1>3, <1>5, <1>8
<1>9. CASE \/ \E n \in Members : Start(n) \/ Stop(n) \/ Exit(n) \/ Commit(n) \/ CommitErr(n)
           \/ Produce \/ UNCHANGED vars
  BY <1>4, <1>9
<1> QED
  BY <1>6, <1>7, <1>8, <1>9 DEF Next, MemberStep

\* OnceInv is inductive, given the types.
LEMMA OnceInvNext == TypeInv /\ OnceInv /\ [Next]_vars => OnceInv'
<1> SUFFICES ASSUME TypeInv, OnceInv, [Next]_vars, NEW m \in Members, NEW i \in Offsets
             PROVE  (rows[m][i] + InHand(m, i) + Ahead(m, i) <= assigned[m])'
  BY DEF OnceInv
<1>1. rows \in [Members -> [Offsets -> Nat]] /\ assigned \in [Members -> Nat]
  BY DEF TypeInv, TypeOK
<1> HIDE DEF Offsets
<1>2. rows[m][i] \in Nat /\ assigned[m] \in Nat
  BY <1>1
<1>3. /\ InHand(m, i) \in 0..1 /\ Ahead(m, i) \in 0..1
      /\ InHand(m, i)' \in 0..1 /\ Ahead(m, i)' \in 0..1
  BY DEF InHand, Ahead
<1>4. rows[m][i] + InHand(m, i) + Ahead(m, i) <= assigned[m]
  BY DEF OnceInv
<1> QED
  BY <1>2, <1>3, <1>4, OnceInvStep

\* A log is stored a second time by the same member only after the partition was
\* assigned to it again: neither its loop nor a lost commit repeats a delivery.
THEOREM StoredOncePerAssignment == Spec => []OncePerAssignment
<1>1. Spec => []OnceInv
  BY TypeInvariant, OnceInvInit, OnceInvNext, PTL DEF Spec
<1>2. TypeInv /\ OnceInv => OncePerAssignment
  <2> SUFFICES ASSUME TypeInv, OnceInv, NEW m \in Members, NEW i \in Offsets
               PROVE  rows[m][i] <= assigned[m]
    BY DEF OncePerAssignment
  <2>1. rows \in [Members -> [Offsets -> Nat]] /\ assigned \in [Members -> Nat]
    BY DEF TypeInv, TypeOK
  <2> HIDE DEF Offsets
  <2>2. rows[m][i] \in Nat /\ assigned[m] \in Nat
    BY <2>1
  <2>3. rows[m][i] + InHand(m, i) + Ahead(m, i) <= assigned[m]
    BY DEF OnceInv
  <2> QED
    BY <2>2, <2>3 DEF InHand, Ahead
<1> QED
  BY <1>1, <1>2, TypeInvariant, PTL
=============================================================================
