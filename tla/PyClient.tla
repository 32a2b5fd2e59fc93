------------------------------ MODULE PyClient ------------------------------
(***************************************************************************)
(* The asynchronous mode of the Python SDK client                          *)
(* (sdks/python/logify/client.py): threads calling send and try_send, a    *)
(* queue.Queue, worker threads, and threads calling close, which sets a    *)
(* flag without any lock and then puts one sentinel per worker behind the  *)
(* entries.                                                                *)
(*                                                                         *)
(* Each entry is one call of send or try_send by a thread of its own.  The *)
(* test of _closed and the put are separate steps: another thread may run  *)
(* in between.                                                             *)
(*                                                                         *)
(* Where two definitions of one thing stand together, such as              *)
(* SomeJoined and AllJoined,                                               *)
(* the first is a plausible slip that no specification uses: it is put in  *)
(* the place of the second to see that a property notices.                 *)
(***************************************************************************)
EXTENDS Naturals, Sequences, FiniteSets

CONSTANTS
  Entries,     \* calls of send and try_send
  Closers,     \* calls of close
  Workers,     \* worker threads
  BufferSize,  \* maxsize of the queue
  Shutdown,    \* the sentinel _SHUTDOWN
  None         \* "no item"

ASSUME PyClientAssumption ==
  /\ BufferSize \in Nat \ {0}
  /\ IsFiniteSet(Workers) /\ Workers # {}
  /\ Shutdown \notin Entries /\ None \notin Entries

VARIABLES
  call,     \* call[e]: where the call that submits e is, or how it ended
  closing,  \* closing[c]: where a call of close is, or how it ended
  toPut,    \* toPut[c]: sentinels that close c has still to put
  closed,   \* attribute _closed
  queue,    \* contents of the queue
  busy,     \* busy[w]: the entry worker w is posting, or None
  exited,   \* workers that have returned
  outcome,  \* outcome[e]: what became of the HTTP request for e
  early     \* history: entries queued while _closed was still False

vars == <<call, closing, toPut, closed, queue, busy, exited, outcome, early>>

CallStates == {"ready", "send", "try", "accepted", "errClosed", "errFull"}
CloseStates == {"ready", "open", "putting", "joining", "joined", "timedOut", "noop"}

\* Types, and the queue never holds more than its maxsize.
TypeOK ==
  /\ call \in [Entries -> CallStates]
  /\ closing \in [Closers -> CloseStates]
  /\ toPut \in [Closers -> 0..Cardinality(Workers)]
  /\ closed \in BOOLEAN
  /\ queue \in Seq(Entries \cup {Shutdown}) /\ Len(queue) <= BufferSize
  /\ busy \in [Workers -> Entries \cup {None}]
  /\ exited \subseteq Workers
  /\ outcome \in [Entries -> {"none", "delivered", "failed"}]
  /\ early \subseteq Entries

Init ==
  /\ call = [e \in Entries |-> "ready"]
  /\ closing = [c \in Closers |-> "ready"]
  /\ toPut = [c \in Closers |-> 0]
  /\ closed = FALSE
  /\ queue = <<>>
  /\ busy = [w \in Workers |-> None]
  /\ exited = {}
  /\ outcome = [e \in Entries |-> "none"]
  /\ early = {}

-----------------------------------------------------------------------------
(* send and try_send.                                                      *)

CheckOpen(e) ==
  /\ call[e] = "ready"
  /\ \/ closed /\ call' = [call EXCEPT ![e] = "errClosed"]
     \/ ~closed /\ \E m \in {"send", "try"} : call' = [call EXCEPT ![e] = m]
  /\ UNCHANGED <<closing, toPut, closed, queue, busy, exited, outcome, early>>

HasRoom == Len(queue) < BufferSize

PutResult == "accepted"

\* put or put_nowait finds room; no second look at _closed.
Put(e) ==
  /\ call[e] \in {"send", "try"} /\ HasRoom
  /\ queue' = Append(queue, e)
  /\ call' = [call EXCEPT ![e] = PutResult]
  /\ early' = IF closed THEN early ELSE early \cup {e}
  /\ UNCHANGED <<closing, toPut, closed, busy, exited, outcome>>

Full(e) ==
  /\ call[e] = "try" /\ ~HasRoom
  /\ call' = [call EXCEPT ![e] = "errFull"]
  /\ UNCHANGED <<closing, toPut, closed, queue, busy, exited, outcome, early>>

-----------------------------------------------------------------------------
(* close.                                                                  *)

CloseCheck(c) ==
  /\ closing[c] = "ready"
  /\ closing' = [closing EXCEPT ![c] = IF closed THEN "noop" ELSE "open"]
  /\ UNCHANGED <<call, toPut, closed, queue, busy, exited, outcome, early>>

OneSentinel == 1
SentinelCount == Cardinality(Workers)

SetClosed(c) ==
  /\ closing[c] = "open"
  /\ closed' = TRUE
  /\ toPut' = [toPut EXCEPT ![c] = SentinelCount]
  /\ closing' = [closing EXCEPT ![c] = "putting"]
  /\ UNCHANGED <<call, queue, busy, exited, outcome, early>>

SentinelFirst(q) == <<Shutdown>> \o q
WithSentinel(q) == Append(q, Shutdown)

\* A put blocks while the queue is full; the timeout of close does not apply yet.
PutSentinel(c) ==
  /\ closing[c] = "putting" /\ HasRoom
  /\ queue' = WithSentinel(queue)
  /\ toPut' = [toPut EXCEPT ![c] = @ - 1]
  /\ closing' = [closing EXCEPT ![c] = IF toPut[c] = 1 THEN "joining" ELSE @]
  /\ UNCHANGED <<call, closed, busy, exited, outcome, early>>

SomeJoined == exited # {}
AllJoined == exited = Workers

JoinWorkers(c) ==
  /\ closing[c] = "joining" /\ AllJoined
  /\ closing' = [closing EXCEPT ![c] = "joined"]
  /\ UNCHANGED <<call, toPut, closed, queue, busy, exited, outcome, early>>

\* The deadline, counted from the last sentinel, passes.
JoinTimeout(c) ==
  /\ closing[c] = "joining"
  /\ closing' = [closing EXCEPT ![c] = "timedOut"]
  /\ UNCHANGED <<call, toPut, closed, queue, busy, exited, outcome, early>>

-----------------------------------------------------------------------------
(* _worker                                                                 *)

Remaining(q) == Tail(q)

Get(w) ==
  /\ w \notin exited /\ busy[w] = None
  /\ queue # <<>>
  /\ queue' = Remaining(queue)
  /\ \/ /\ Head(queue) = Shutdown
        /\ exited' = exited \cup {w}
        /\ UNCHANGED busy
     \/ /\ Head(queue) # Shutdown
        /\ busy' = [busy EXCEPT ![w] = Head(queue)]
        /\ UNCHANGED exited
  /\ UNCHANGED <<call, closing, toPut, closed, outcome, early>>

\* _send returns or raises; a failed entry goes to on_error and is dropped.
Post(w) ==
  /\ busy[w] # None
  /\ \E o \in {"delivered", "failed"} : outcome' = [outcome EXCEPT ![busy[w]] = o]
  /\ busy' = [busy EXCEPT ![w] = None]
  /\ UNCHANGED <<call, closing, toPut, closed, queue, exited, early>>

-----------------------------------------------------------------------------
CallStep(e) == CheckOpen(e) \/ Put(e) \/ Full(e)
CloseStep(c) == SetClosed(c) \/ PutSentinel(c) \/ JoinWorkers(c)
WorkerStep(w) == Get(w) \/ Post(w)

Next ==
  \/ \E e \in Entries : CallStep(e)
  \/ \E c \in Closers : CloseCheck(c) \/ CloseStep(c) \/ JoinTimeout(c)
  \/ \E w \in Workers : WorkerStep(w)

Spec == Init /\ [][Next]_vars

\* Threads that can run do run; a close may be given no timeout.
FairSpec ==
  /\ Spec
  /\ \A e \in Entries : WF_vars(Put(e) \/ Full(e))
  /\ \A c \in Closers : WF_vars(CloseStep(c))
  /\ \A w \in Workers : WF_vars(WorkerStep(w))

-----------------------------------------------------------------------------
(* Properties.                                                             *)

Accepted == {e \in Entries : call[e] = "accepted"}

\* Every entry that send took is in exactly one place: once in the queue, with one
\* worker, or posted.
AcceptedInOnePlace ==
  \A e \in Accepted :
    LET queued == {i \in DOMAIN queue : queue[i] = e}
        held == {w \in Workers : busy[w] = e}
    IN  /\ outcome[e] # "none" <=> queued \cup held = {}
        /\ \A x, y \in queued \cup held : x = y

\* An entry whose call raised is never posted.
ErrorMeansNotPosted ==
  \A e \in Entries :
    call[e] \in {"errClosed", "errFull"} =>
      /\ outcome[e] = "none"
      /\ \A i \in DOMAIN queue : queue[i] # e
      /\ \A w \in Workers : busy[w] # e

\* When close returns with all workers joined, every entry queued before the flag was
\* set has been posted: the sentinels stay behind those entries, even when several
\* closes race and put twice as many.
JoinedMeansEarlyPosted ==
  (\E c \in Closers : closing[c] = "joined") => \A e \in early : outcome[e] # "none"

\* An entry queued before the flag was set is eventually posted.
EarlyIsPosted == \A e \in Entries : e \in early ~> outcome[e] # "none"

\* A close returns unless another one raced with it past the test of _closed: when it
\* waits for room for its k-th sentinel it has stopped fewer than k workers, so one is
\* left to make room, however many late entries compete with the sentinels.
LoneCloseReturns ==
  \A c \in Closers :
    closing[c] = "putting" ~>
      \/ closing[c] \in {"joined", "timedOut"}
      \/ \E d \in Closers \ {c} : closing[d] \notin {"ready", "noop"}
=============================================================================
