--------------------------- MODULE GoClientProofs ---------------------------
(***************************************************************************)
(* Proofs about the Go SDK client, for any number of callers, closers and  *)
(* workers and any buffer size.                                            *)
(***************************************************************************)
EXTENDS GoClient, SequenceTheorems, TLAPS

USE DEF CallStates, CloseStates

\* New starts from a typed state.
LEMMA TypeInit == Init => TypeOK
<1>1. <<>> \in Seq(Entries) /\ Len(<<>>) <= BufferSize
  BY GoClientAssumption
<1> QED
  BY <1>1 DEF Init, TypeOK

\* Send and TrySend keep the types; only Enqueue touches the channel, and only with room in it.
LEMMA TypeCall == ASSUME TypeOK, NEW e \in Entries, CallStep(e) PROVE TypeOK'
<1>1. CASE Enter(e)
  BY <1>1 DEF Enter, TypeOK
<1>2. CASE Enqueue(e)
  <2>1. Append(queue, e) \in Seq(Entries) /\ Len(Append(queue, e)) = Len(queue) + 1
    BY DEF TypeOK
  <2>2. Len(queue) \in Nat
    BY DEF TypeOK
  <2>3. queue' \in Seq(Entries) /\ Len(queue') <= BufferSize
    BY <1>2, <2>1, <2>2, GoClientAssumption DEF Enqueue, HasRoom
  <2> QED
    BY <1>2, <2>3 DEF Enqueue, EnqueueResult, TypeOK
<1>3. CASE GiveUp(e)
  BY <1>3 DEF GiveUp, TypeOK
<1> QED
  BY <1>1, <1>2, <1>3 DEF CallStep

\* Close keeps the types.
LEMMA TypeClose ==
  ASSUME TypeOK, NEW c \in Closers, CloseLock(c) \/ CloseStep(c) PROVE TypeOK'
  BY DEF CloseLock, CloseStep, CloseQueue, CloseReturn, TypeOK

\* Workers keep the types: they take from the head of the channel.
LEMMA TypeWorker == ASSUME TypeOK, NEW w \in Workers, WorkerStep(w) PROVE TypeOK'
<1>1. CASE Take(w)
  <2>1. queue \in Seq(Entries) /\ queue # <<>>
    BY <1>1 DEF Take, TypeOK
  <2>2. Head(queue) \in Entries /\ Tail(queue) \in Seq(Entries) /\ Len(Tail(queue)) = Len(queue) - 1
    BY <2>1, HeadTailProperties
  <2>3. queue' \in Seq(Entries) /\ Len(queue') <= BufferSize
    BY <1>1, <2>1, <2>2, GoClientAssumption DEF Take, TypeOK
  <2> QED
    BY <1>1, <2>2, <2>3 DEF Take, TypeOK
<1>2. CASE Post(w)
  BY <1>2 DEF Post, TypeOK
<1>3. CASE WorkerExit(w)
  BY <1>3 DEF WorkerExit, TypeOK
<1> QED
  BY <1>1, <1>2, <1>3 DEF WorkerStep

\* TypeOK is inductive.
LEMMA TypeNext == TypeOK /\ [Next]_vars => TypeOK'
<1> SUFFICES ASSUME TypeOK, [Next]_vars PROVE TypeOK'
  OBVIOUS
<1>1. ASSUME NEW x \in Entries \cup Closers, ContextDone(x) PROVE TypeOK'
  BY <1>1 DEF ContextDone, TypeOK
<1>2. CASE UNCHANGED vars
  BY <1>2 DEF vars, TypeOK
<1> QED
  BY <1>1, <1>2, TypeCall, TypeClose, TypeWorker DEF Next

\* Type correctness; the channel never holds more than BufferSize entries.
THEOREM TypeCorrect == Spec => []TypeOK
  BY TypeInit, TypeNext, PTL DEF Spec

-----------------------------------------------------------------------------
\* The lock keeps senders and the close of the channel apart: whoever is past the
\* check of closed holds the read lock, and the channel is closed under the write lock.
THEOREM SendersNeverMeetClose == Spec => []NoSendOnClosedQueue
<1>1. Init => NoSendOnClosedQueue
  BY DEF Init, NoSendOnClosedQueue
<1>2. TypeOK /\ NoSendOnClosedQueue /\ [Next]_vars => NoSendOnClosedQueue'
  <2> SUFFICES ASSUME TypeOK, NoSendOnClosedQueue, [Next]_vars PROVE NoSendOnClosedQueue'
    OBVIOUS
  <2> USE DEF NoSendOnClosedQueue, HoldsRead
  <2>1. ASSUME NEW e \in Entries, CallStep(e) PROVE NoSendOnClosedQueue'
    BY <2>1 DEF CallStep, Enter, Enqueue, EnqueueResult, GiveUp, TypeOK
  <2>2. ASSUME NEW c \in Closers, CloseLock(c) \/ CloseStep(c) PROVE NoSendOnClosedQueue'
    BY <2>2 DEF CloseLock, CloseStep, CloseQueue, CloseReturn, NoReaders, TypeOK
  <2>3. CASE UNCHANGED <<call, closed>>
    BY <2>3
  <2> QED
    BY <2>1, <2>2, <2>3 DEF Next, WorkerStep, Take, Post, WorkerExit, ContextDone, vars
<1> QED
  BY <1>1, <1>2, TypeCorrect, PTL DEF Spec

-----------------------------------------------------------------------------
(* Where an entry is: in the channel, with a worker, or posted.            *)

\* Only entries whose call returned nil, and that are not posted yet, are in the
\* channel or with a worker, each once.
PendingOnce ==
  /\ \A i \in DOMAIN queue : call[queue[i]] = "accepted" /\ outcome[queue[i]] = "none"
  /\ \A i, j \in DOMAIN queue : queue[i] = queue[j] => i = j
  /\ \A w \in Workers : busy[w] # None =>
       /\ call[busy[w]] = "accepted" /\ outcome[busy[w]] = "none"
       /\ \A i \in DOMAIN queue : queue[i] # busy[w]
       /\ \A v \in Workers : busy[v] = busy[w] => v = w
  /\ \A e \in Entries : outcome[e] # "none" => call[e] = "accepted"

\* An accepted entry is not lost.
NothingLost ==
  \A e \in Entries : call[e] = "accepted" /\ outcome[e] = "none" =>
    (\E i \in DOMAIN queue : queue[i] = e) \/ (\E w \in Workers : busy[w] = e)

PlaceInv == PendingOnce /\ NothingLost

\* Nothing has been submitted yet.
LEMMA PlaceInvInit == Init => PlaceInv
  BY DEF Init, PlaceInv, PendingOnce, NothingLost

\* Steps that submit, take and post nothing, and turn no call into an accepted one.
LEMMA PlaceInvQuiet ==
  ASSUME TypeOK, PlaceInv, UNCHANGED <<queue, busy, outcome>>,
         \A e \in Entries : call'[e] = "accepted" <=> call[e] = "accepted"
  PROVE  PlaceInv'
<1>1. \A i \in DOMAIN queue : queue[i] \in Entries
  BY DEF TypeOK
<1>2. PendingOnce'
  BY <1>1 DEF PlaceInv, PendingOnce, TypeOK
<1>3. NothingLost'
  BY DEF PlaceInv, NothingLost
<1> QED
  BY <1>2, <1>3 DEF PlaceInv

\* Enqueue puts an entry that was nowhere into the channel, once.
LEMMA PlaceInvEnqueue ==
  ASSUME TypeOK, PlaceInv, NEW e \in Entries, Enqueue(e)
  PROVE  PlaceInv'
<1>1. /\ queue \in Seq(Entries) /\ queue' = Append(queue, e)
      /\ call[e] \in {"send", "try"} /\ call' = [call EXCEPT ![e] = "accepted"]
      /\ UNCHANGED <<busy, outcome>>
  BY DEF Enqueue, EnqueueResult, TypeOK
<1>2. /\ DOMAIN queue = 1..Len(queue) /\ DOMAIN queue' = 1..(Len(queue) + 1)
      /\ \A i \in 1..Len(queue) : queue'[i] = queue[i] /\ queue[i] \in Entries
      /\ queue'[Len(queue) + 1] = e
      /\ Len(queue) \in Nat
  BY <1>1
<1>3. /\ \A f \in Entries \ {e} : call'[f] = call[f]
      /\ call'[e] = "accepted"
  BY <1>1 DEF TypeOK
<1>4. /\ outcome[e] = "none"
      /\ \A i \in 1..Len(queue) : queue[i] # e
      /\ \A w \in Workers : busy[w] # e
  <2>1. call[e] # "accepted" /\ e # None
    BY <1>1, GoClientAssumption
  <2>2. outcome[e] = "none"
    BY <2>1 DEF PlaceInv, PendingOnce
  <2>3. \A i \in 1..Len(queue) : queue[i] # e
    BY <2>1, <1>2 DEF PlaceInv, PendingOnce
  <2>4. \A w \in Workers : busy[w] # e
    BY <2>1 DEF PlaceInv, PendingOnce
  <2> QED
    BY <2>2, <2>3, <2>4
<1>5. \A i \in 1..(Len(queue) + 1) : i \in 1..Len(queue) \/ i = Len(queue) + 1
  BY <1>2
<1>6. PendingOnce'
  <2>1. \A i \in DOMAIN queue' : call'[queue'[i]] = "accepted" /\ outcome'[queue'[i]] = "none"
    BY <1>1, <1>2, <1>3, <1>4, <1>5 DEF PlaceInv, PendingOnce
  <2>2. \A i, j \in DOMAIN queue' : queue'[i] = queue'[j] => i = j
    BY <1>2, <1>4, <1>5 DEF PlaceInv, PendingOnce
  <2>3. \A w \in Workers : busy'[w] # None =>
          /\ call'[busy'[w]] = "accepted" /\ outcome'[busy'[w]] = "none"
          /\ \A i \in DOMAIN queue' : queue'[i] # busy'[w]
          /\ \A v \in Workers : busy'[v] = busy'[w] => v = w
    BY <1>1, <1>2, <1>3, <1>4, <1>5 DEF PlaceInv, PendingOnce, TypeOK
  <2>4. \A f \in Entries : outcome'[f] # "none" => call'[f] = "accepted"
    BY <1>1, <1>3 DEF PlaceInv, PendingOnce
  <2> QED
    BY <2>1, <2>2, <2>3, <2>4 DEF PendingOnce
<1>7. NothingLost'
  <2> SUFFICES ASSUME NEW f \in Entries, call'[f] = "accepted", outcome'[f] = "none"
               PROVE  (\E i \in DOMAIN queue' : queue'[i] = f) \/ (\E w \in Workers : busy'[w] = f)
    BY DEF NothingLost
  <2>1. CASE f = e
    BY <2>1, <1>2
  <2>2. CASE f # e
    <3>1. (\E i \in DOMAIN queue : queue[i] = f) \/ (\E w \in Workers : busy[w] = f)
      BY <2>2, <1>1, <1>3 DEF PlaceInv, NothingLost
    <3> QED
      BY <3>1, <1>1, <1>2
  <2> QED
    BY <2>1, <2>2
<1> QED
  BY <1>6, <1>7 DEF PlaceInv

\* The head of the channel moves to a worker.
LEMMA PlaceInvTake ==
  ASSUME TypeOK, PlaceInv, NEW w \in Workers, Take(w)
  PROVE  PlaceInv'
<1> DEFINE h == queue[1]
<1>1. /\ queue \in Seq(Entries) /\ queue # <<>> /\ queue' = Tail(queue)
      /\ busy[w] = None /\ busy' = [busy EXCEPT ![w] = h]
      /\ UNCHANGED <<call, outcome>>
  BY DEF Take, TypeOK
<1>2. /\ Len(queue) \in Nat \ {0} /\ DOMAIN queue = 1..Len(queue)
      /\ DOMAIN queue' = 1..(Len(queue) - 1)
      /\ \A i \in 1..(Len(queue) - 1) : queue'[i] = queue[i + 1]
  BY <1>1, HeadTailProperties
<1>3. /\ \A i \in DOMAIN queue : queue[i] \in Entries
      /\ 1 \in DOMAIN queue /\ h \in Entries
      /\ \A i \in DOMAIN queue' : i + 1 \in DOMAIN queue /\ i + 1 # 1
      /\ \A i \in DOMAIN queue : i = 1 \/ i - 1 \in DOMAIN queue'
  BY <1>1, <1>2
<1>4. busy'[w] = h /\ \A v \in Workers \ {w} : busy'[v] = busy[v]
  BY <1>1 DEF TypeOK
<1>5. /\ call[h] = "accepted" /\ outcome[h] = "none"
      /\ \A i \in DOMAIN queue : queue[i] = h => i = 1
      /\ \A v \in Workers : busy[v] # h
  BY <1>3, GoClientAssumption DEF PlaceInv, PendingOnce
<1> HIDE DEF h
<1>6. PendingOnce'
  <2>1. \A i \in DOMAIN queue' : call'[queue'[i]] = "accepted" /\ outcome'[queue'[i]] = "none"
    BY <1>1, <1>2, <1>3 DEF PlaceInv, PendingOnce
  <2>2. \A i, j \in DOMAIN queue' : queue'[i] = queue'[j] => i = j
    <3> SUFFICES ASSUME NEW i \in DOMAIN queue', NEW j \in DOMAIN queue', queue'[i] = queue'[j]
                 PROVE  i = j
      OBVIOUS
    <3>1. i + 1 = j + 1
      BY <1>2, <1>3 DEF PlaceInv, PendingOnce
    <3> QED
      BY <3>1, <1>2
  <2>3. \A i \in DOMAIN queue' : queue'[i] # h
    BY <1>2, <1>3, <1>5
  <2>4. ASSUME NEW v \in Workers, busy'[v] # None
        PROVE  /\ call'[busy'[v]] = "accepted" /\ outcome'[busy'[v]] = "none"
               /\ \A i \in DOMAIN queue' : queue'[i] # busy'[v]
               /\ \A u \in Workers : busy'[u] = busy'[v] => u = v
    <3>1. CASE v = w
      BY <3>1, <1>1, <1>4, <1>5, <2>3
    <3>2. CASE v # w
      <4>1. busy'[v] = busy[v] /\ busy[v] # h
        BY <3>2, <1>4, <1>5
      <4> QED
        BY <2>4, <4>1, <1>1, <1>2, <1>3, <1>4 DEF PlaceInv, PendingOnce
    <3> QED
      BY <3>1, <3>2
  <2>5. \A e \in Entries : outcome'[e] # "none" => call'[e] = "accepted"
    BY <1>1 DEF PlaceInv, PendingOnce
  <2> QED
    BY <2>1, <2>2, <2>4, <2>5 DEF PendingOnce
<1>7. NothingLost'
  <2> SUFFICES ASSUME NEW e \in Entries, call[e] = "accepted", outcome[e] = "none"
               PROVE  (\E i \in DOMAIN queue' : queue'[i] = e) \/ (\E v \in Workers : busy'[v] = e)
    BY <1>1 DEF NothingLost
  <2>1. ASSUME NEW i \in DOMAIN queue, queue[i] = e
        PROVE  (\E k \in DOMAIN queue' : queue'[k] = e) \/ busy'[w] = e
    <3>1. CASE i = 1
      BY <2>1, <3>1, <1>4 DEF h
    <3>2. CASE i # 1
      <4>1. i - 1 \in DOMAIN queue' /\ queue'[i - 1] = queue[i]
        BY <3>2, <1>2, <1>3
      <4> QED
        BY <2>1, <4>1
    <3> QED
      BY <3>1, <3>2
  <2>2. ASSUME NEW v \in Workers, busy[v] = e PROVE busy'[v] = e
    <3>1. v # w
      BY <2>2, <1>1, GoClientAssumption
    <3> QED
      BY <2>2, <3>1, <1>4
  <2>3. (\E i \in DOMAIN queue : queue[i] = e) \/ (\E v \in Workers : busy[v] = e)
    BY DEF PlaceInv, NothingLost
  <2> QED
    BY <2>1, <2>2, <2>3
<1> QED
  BY <1>6, <1>7 DEF PlaceInv

\* Post moves an entry from the hands of its worker to the posted ones.
LEMMA PlaceInvPost ==
  ASSUME TypeOK, PlaceInv, NEW w \in Workers, Post(w)
  PROVE  PlaceInv'
<1> DEFINE b == busy[w]
<1>1. /\ b # None /\ b \in Entries
      /\ busy' = [busy EXCEPT ![w] = None]
      /\ \E o \in {"delivered", "failed"} : outcome' = [outcome EXCEPT ![b] = o]
      /\ UNCHANGED <<call, queue>>
  BY DEF Post, TypeOK
<1>2. /\ busy'[w] = None /\ outcome'[b] # "none"
      /\ \A v \in Workers \ {w} : busy'[v] = busy[v]
      /\ \A e \in Entries \ {b} : outcome'[e] = outcome[e]
  BY <1>1 DEF TypeOK
<1>3. /\ call[b] = "accepted"
      /\ \A i \in DOMAIN queue : queue[i] # b /\ queue[i] \in Entries
      /\ \A v \in Workers \ {w} : busy[v] # b
      /\ \A v \in Workers : busy[v] \in Entries \cup {None}
  BY <1>1 DEF PlaceInv, PendingOnce, TypeOK
<1> HIDE DEF b
<1>4. PendingOnce'
  BY <1>1, <1>2, <1>3, GoClientAssumption DEF PlaceInv, PendingOnce
<1>5. NothingLost'
  BY <1>1, <1>2, <1>3 DEF PlaceInv, NothingLost, b
<1> QED
  BY <1>4, <1>5 DEF PlaceInv

\* PlaceInv is inductive, given the types.
LEMMA PlaceInvNext == TypeOK /\ PlaceInv /\ [Next]_vars => PlaceInv'
<1> SUFFICES ASSUME TypeOK, PlaceInv, [Next]_vars PROVE PlaceInv'
  OBVIOUS
<1>1. ASSUME NEW e \in Entries, Enter(e) \/ GiveUp(e) PROVE PlaceInv'
  <2>1. /\ UNCHANGED <<queue, busy, outcome>>
        /\ \A f \in Entries : call'[f] = "accepted" <=> call[f] = "accepted"
    BY <1>1 DEF Enter, GiveUp, TypeOK
  <2> QED
    BY <2>1, PlaceInvQuiet
<1>2. CASE UNCHANGED <<call, queue, busy, outcome>>
  BY <1>2, PlaceInvQuiet
<1>3. \/ \E e \in Entries : Enqueue(e) \/ Enter(e) \/ GiveUp(e)
      \/ \E w \in Workers : Take(w) \/ Post(w)
      \/ UNCHANGED <<call, queue, busy, outcome>>
  BY DEF Next, CallStep, CloseLock, CloseStep, CloseQueue, CloseReturn, WorkerStep,
         WorkerExit, ContextDone, vars
<1> QED
  BY <1>1, <1>2, <1>3, PlaceInvEnqueue, PlaceInvTake, PlaceInvPost

\* Every pending entry is in one place and no accepted one is in none, at all times.
THEOREM PlaceInvariant == Spec => []PlaceInv
  BY TypeCorrect, PlaceInvInit, PlaceInvNext, PTL DEF Spec

\* Every entry whose call returned nil is in exactly one place: once in the channel,
\* with one worker, or posted (Send, TrySend, worker).
AcceptedInOnePlace ==
  \A e \in Accepted :
    LET queued == {i \in DOMAIN queue : queue[i] = e}
        held == {w \in Workers : busy[w] = e}
    IN  /\ outcome[e] # "none" <=> queued \cup held = {}
        /\ \A x, y \in queued \cup held : x = y

\* An accepted entry is in exactly one place, so it is neither lost nor posted twice.
THEOREM AcceptedOnce == Spec => []AcceptedInOnePlace
<1>1. TypeOK /\ PlaceInv => AcceptedInOnePlace
  <2> SUFFICES ASSUME TypeOK, PlaceInv, NEW e \in Accepted
               PROVE  LET queued == {i \in DOMAIN queue : queue[i] = e}
                          held == {w \in Workers : busy[w] = e}
                      IN  /\ outcome[e] # "none" <=> queued \cup held = {}
                          /\ \A x, y \in queued \cup held : x = y
    BY DEF AcceptedInOnePlace
  <2>1. e \in Entries /\ call[e] = "accepted" /\ e # None
    BY GoClientAssumption DEF Accepted
  <2> QED
    BY <2>1 DEF PlaceInv, PendingOnce, NothingLost
<1> QED
  BY <1>1, TypeCorrect, PlaceInvariant, PTL

\* No entry is posted for a caller that was told of an error.
THEOREM ErrorsAreNotPosted == Spec => []ErrorMeansNotPosted
<1>1. TypeOK /\ PlaceInv => ErrorMeansNotPosted
  BY GoClientAssumption DEF PlaceInv, PendingOnce, ErrorMeansNotPosted, TypeOK
<1> QED
  BY <1>1, TypeCorrect, PlaceInvariant, PTL

-----------------------------------------------------------------------------
(* Close returns nil only when everything accepted is posted.              *)

\* Workers leave a closed and empty channel, which stays so: no sender is left.
ExitInv ==
  /\ exited # {} => closed /\ queue = <<>>
  /\ \A w \in exited : busy[w] = None
  /\ \A c \in Closers : closing[c] = "drained" => exited = Workers

\* ExitInv is inductive: workers leave only a closed and empty channel, and nobody refills it.
LEMMA ExitInvNext ==
  TypeOK /\ NoSendOnClosedQueue /\ ExitInv /\ [Next]_vars => ExitInv'
<1> SUFFICES ASSUME TypeOK, NoSendOnClosedQueue, ExitInv, [Next]_vars PROVE ExitInv'
  OBVIOUS
<1>1. ASSUME NEW e \in Entries, CallStep(e) PROVE ExitInv'
  BY <1>1 DEF CallStep, Enter, Enqueue, GiveUp, HoldsRead, NoSendOnClosedQueue, ExitInv
<1>2. ASSUME NEW c \in Closers, CloseLock(c) \/ CloseStep(c) PROVE ExitInv'
  BY <1>2 DEF CloseLock, CloseStep, CloseQueue, CloseReturn, WorkersDone, ExitInv, TypeOK
<1>3. ASSUME NEW w \in Workers, WorkerStep(w) PROVE ExitInv'
  BY <1>3 DEF WorkerStep, Take, Post, WorkerExit, RangeEnds, ExitInv, TypeOK
<1>4. CASE UNCHANGED <<closing, closed, queue, busy, exited>>
  BY <1>4 DEF ExitInv
<1> QED
  BY <1>1, <1>2, <1>3, <1>4 DEF Next, ContextDone, vars

\* What the Close that drained the client promises: nothing accepted is left unposted,
\* not even an entry accepted while Close was waiting for the lock.
THEOREM DrainedIsPosted == Spec => []DrainedMeansPosted
<1>1. Init => ExitInv
  BY DEF Init, ExitInv
<1>2. Spec => []ExitInv
  BY <1>1, ExitInvNext, TypeCorrect, SendersNeverMeetClose, PTL DEF Spec
<1>3. TypeOK /\ PlaceInv /\ ExitInv => DrainedMeansPosted
  <2> SUFFICES ASSUME TypeOK, PlaceInv, ExitInv, NEW c \in Closers, closing[c] = "drained",
                      NEW e \in Accepted
               PROVE  outcome[e] # "none"
    BY DEF DrainedMeansPosted
  <2>1. queue = <<>> /\ \A w \in Workers : busy[w] = None
    BY GoClientAssumption DEF ExitInv
  <2> QED
    BY <2>1, GoClientAssumption DEF PlaceInv, NothingLost, Accepted
<1> QED
  BY <1>2, <1>3, TypeCorrect, PlaceInvariant, PTL
=============================================================================
