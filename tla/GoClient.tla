------------------------------ MODULE GoClient ------------------------------
(***************************************************************************)
(* The asynchronous mode of the Go SDK client (sdks/go/client.go): callers *)
(* of Send and TrySend, a bounded channel, a pool of workers that post one *)
(* entry at a time, and callers of Close.  The synchronous mode has no     *)
(* state and is left out.                                                  *)
(*                                                                         *)
(* Each entry is one call of Send or TrySend by a goroutine of its own,    *)
(* and is named after it.  A goroutine is a reader of c.mu exactly while   *)
(* its call is "send" or "try"; a closer is the (single) waiting writer    *)
(* while it is "locking".  As in sync.RWMutex, a waiting writer keeps new  *)
(* readers out.                                                            *)
(*                                                                         *)
(* Where several definitions of one thing stand together, such as          *)
(* BufferEmpty and WorkersDone, all but the last are plausible slips that  *)
(* no specification uses: one is put in the place of the last to see that  *)
(* a property notices.                                                     *)
(***************************************************************************)
EXTENDS Naturals, Sequences

CONSTANTS
  Entries,        \* calls of Send and TrySend
  Closers,        \* calls of Close
  Workers,        \* worker goroutines
  BufferSize,     \* capacity of the channel
  ClientTimeout,  \* httpClient.Timeout, where net/http reads 0 as "no timeout"
  ServerMayFail,  \* whether posting an entry may fail
  None            \* "no entry"

ASSUME GoClientAssumption ==
  /\ BufferSize \in Nat \ {0}
  /\ ClientTimeout \in Nat
  /\ ServerMayFail \in BOOLEAN
  /\ None \notin Entries
  /\ Workers # {}    \* New replaces a worker count of 0 or less

VARIABLES
  call,     \* call[e]: where the call that submits e is, or what it returned
  closing,  \* closing[c]: where a call of Close is, or what it returned
  expired,  \* the calls whose context is done
  closed,   \* field closed; the channel is closed in the same critical section
  queue,    \* contents of the channel
  busy,     \* busy[w]: the entry worker w is posting, or None
  exited,   \* workers that have left their loop
  outcome   \* outcome[e]: what became of the HTTP request for e

vars == <<call, closing, expired, closed, queue, busy, exited, outcome>>
callers == <<call, closing, expired>>
workers == <<busy, exited, outcome>>

CallStates == {"ready", "send", "try", "accepted", "errClosed", "errContext", "errFull"}
CloseStates == {"ready", "locking", "waiting", "drained", "alreadyClosed", "errContext"}

\* Types, and the channel never holds more than its capacity.
TypeOK ==
  /\ call \in [Entries -> CallStates]
  /\ closing \in [Closers -> CloseStates]
  /\ expired \subseteq Entries \cup Closers
  /\ closed \in BOOLEAN
  /\ queue \in Seq(Entries) /\ Len(queue) <= BufferSize
  /\ busy \in [Workers -> Entries \cup {None}]
  /\ exited \subseteq Workers
  /\ outcome \in [Entries -> {"none", "delivered", "failed"}]

Init ==
  /\ call = [e \in Entries |-> "ready"]
  /\ closing = [c \in Closers |-> "ready"]
  /\ expired = {}
  /\ closed = FALSE
  /\ queue = <<>>
  /\ busy = [w \in Workers |-> None]
  /\ exited = {}
  /\ outcome = [e \in Entries |-> "none"]

-----------------------------------------------------------------------------
(* c.mu                                                                    *)

HoldsReadAfterFull(e) == call[e] \in {"send", "try", "errFull"}
HoldsRead(e) == call[e] \in {"send", "try"}
WriterWaits == \E c \in Closers : closing[c] = "locking"

NoMutualExclusion == TRUE
NoReaders == \A e \in Entries : ~HoldsRead(e)

-----------------------------------------------------------------------------
(* Send and TrySend.                                                       *)

ContextDone(x) ==
  /\ x \notin expired
  /\ expired' = expired \cup {x}
  /\ UNCHANGED <<call, closing, closed, queue, busy, exited, outcome>>

\* RLock, then the check of closed.
Enter(e) ==
  /\ call[e] = "ready" /\ ~WriterWaits
  /\ \/ closed /\ call' = [call EXCEPT ![e] = "errClosed"]
     \/ ~closed /\ \E m \in {"send", "try"} : call' = [call EXCEPT ![e] = m]
  /\ UNCHANGED <<closing, expired, closed, queue, busy, exited, outcome>>

HasRoom == Len(queue) < BufferSize

ContextCheckedLast(e) == IF e \in expired THEN "errContext" ELSE "accepted"
EnqueueResult(e) == "accepted"

\* The channel send and the deferred RUnlock.
Enqueue(e) ==
  /\ call[e] \in {"send", "try"} /\ HasRoom
  /\ queue' = Append(queue, e)
  /\ call' = [call EXCEPT ![e] = EnqueueResult(e)]
  /\ UNCHANGED <<closing, expired, closed, busy, exited, outcome>>

\* The other branch of select: ctx.Done in Send, default in TrySend.
GiveUp(e) ==
  /\ \/ call[e] = "send" /\ e \in expired /\ call' = [call EXCEPT ![e] = "errContext"]
     \/ call[e] = "try" /\ ~HasRoom /\ call' = [call EXCEPT ![e] = "errFull"]
  /\ UNCHANGED <<closing, expired, closed, queue, busy, exited, outcome>>

-----------------------------------------------------------------------------
(* Close.                                                                  *)

\* Lock: the writer announces itself; another Close waits its turn.
CloseLock(c) ==
  /\ closing[c] = "ready" /\ ~WriterWaits
  /\ closing' = [closing EXCEPT ![c] = "locking"]
  /\ UNCHANGED <<call, expired, closed, queue, busy, exited, outcome>>

\* The critical section, entered when the last reader has left.
CloseQueue(c) ==
  /\ closing[c] = "locking" /\ NoReaders
  /\ closed' = TRUE
  /\ closing' = [closing EXCEPT ![c] = IF closed THEN "alreadyClosed" ELSE "waiting"]
  /\ UNCHANGED <<call, expired, queue, busy, exited, outcome>>

BufferEmpty == queue = <<>>
WorkersDone == exited = Workers

\* select between wg.Wait and ctx.Done.
CloseReturn(c) ==
  /\ closing[c] = "waiting"
  /\ \/ WorkersDone /\ closing' = [closing EXCEPT ![c] = "drained"]
     \/ c \in expired /\ closing' = [closing EXCEPT ![c] = "errContext"]
  /\ UNCHANGED <<call, expired, closed, queue, busy, exited, outcome>>

-----------------------------------------------------------------------------
(* worker: for entry := range c.queue                                      *)

Take(w) ==
  /\ w \notin exited /\ busy[w] = None
  /\ queue # <<>>
  /\ busy' = [busy EXCEPT ![w] = Head(queue)]
  /\ queue' = Tail(queue)
  /\ UNCHANGED <<call, closing, expired, closed, exited, outcome>>

\* context.WithTimeout(ctx, 0) is done at once, so the request fails unsent.
\* A failed entry goes to the error handler and is dropped; there is no retry.
Post(w) ==
  /\ busy[w] # None
  /\ \E o \in {"delivered", "failed"} :
       /\ o = "delivered" => ClientTimeout > 0
       /\ o = "failed" => ServerMayFail \/ ClientTimeout = 0
       /\ outcome' = [outcome EXCEPT ![busy[w]] = o]
  /\ busy' = [busy EXCEPT ![w] = None]
  /\ UNCHANGED <<call, closing, expired, closed, queue, exited>>

EndsOnClose == closed
EndsOnStop == closed \/ WriterWaits
RangeEnds == closed /\ queue = <<>>

WorkerExit(w) ==
  /\ w \notin exited /\ busy[w] = None
  /\ RangeEnds
  /\ exited' = exited \cup {w}
  /\ UNCHANGED <<call, closing, expired, closed, queue, busy, outcome>>

-----------------------------------------------------------------------------
CallStep(e) == Enter(e) \/ Enqueue(e) \/ GiveUp(e)
CloseStep(c) == CloseQueue(c) \/ CloseReturn(c)
WorkerStep(w) == Take(w) \/ Post(w) \/ WorkerExit(w)

Next ==
  \/ \E e \in Entries : CallStep(e)
  \/ \E c \in Closers : CloseLock(c) \/ CloseStep(c)
  \/ \E w \in Workers : WorkerStep(w)
  \/ \E x \in Entries \cup Closers : ContextDone(x)

Spec == Init /\ [][Next]_vars

\* Goroutines that can run do run; whether Close is ever called and whether a
\* context is ever done is up to the application.
FairSpec ==
  /\ Spec
  /\ \A e \in Entries : WF_vars(Enqueue(e) \/ GiveUp(e))
  /\ \A c \in Closers : WF_vars(CloseStep(c))
  /\ \A w \in Workers : WF_vars(WorkerStep(w))

-----------------------------------------------------------------------------
(* Properties.                                                             *)

Accepted == {e \in Entries : call[e] = "accepted"}

\* "We never send on a closed queue" (comment on Client.mu): a sender past the check
\* of closed, however long it blocks on a full channel, never meets a closed one.
NoSendOnClosedQueue == \A e \in Entries : HoldsRead(e) => ~closed

\* An entry whose call returned an error is never posted.
ErrorMeansNotPosted ==
  \A e \in Entries :
    call[e] \in {"errClosed", "errContext", "errFull"} =>
      /\ outcome[e] = "none"
      /\ \A i \in DOMAIN queue : queue[i] # e
      /\ \A w \in Workers : busy[w] # e

\* When the Close that closed the queue returns nil, every entry ever accepted has
\* been posted, those accepted while it was waiting for the lock included.
DrainedMeansPosted ==
  (\E c \in Closers : closing[c] = "drained") =>
    \A e \in Accepted : outcome[e] # "none"

\* An accepted entry is eventually posted, with or without Close.
AcceptedIsPosted ==
  \A e \in Entries : call[e] = "accepted" ~> outcome[e] # "none"

\* Close always returns, its context done or not: neither blocked senders nor
\* another Close can hold it for ever.
CloseReturns ==
  \A c \in Closers : closing[c] = "locking" ~> closing[c] \notin {"locking", "waiting"}

\* A Send always returns, with or without a deadline in its context, however many block on
\* the full channel and whatever Close waits for their read locks: the workers go on making
\* room until the last sender has left (Send, Close, worker).
SendReturns ==
  \A e \in Entries : call[e] = "send" ~> call[e] # "send"
=============================================================================
