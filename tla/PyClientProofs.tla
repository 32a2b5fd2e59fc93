--------------------------- MODULE PyClientProofs ---------------------------
(***************************************************************************)
(* Proofs about the Python SDK client, for any number of callers, closers  *)
(* and workers and any queue size.                                         *)
(***************************************************************************)
EXTENDS PyClient, SequenceTheorems, FiniteSetTheorems, TLAPS

USE DEF CallStates, CloseStates

\* TypeOK, and a close that is putting has a sentinel left to put.
TypeInv == TypeOK /\ \A c \in Closers : closing[c] = "putting" => toPut[c] >= 1

\* There is at least one worker, and so one sentinel to put.
LEMMA WorkerCount == Cardinality(Workers) \in Nat /\ Cardinality(Workers) >= 1
<1>1. Cardinality(Workers) \in Nat
  BY PyClientAssumption, FS_CardinalityType
<1>2. Cardinality(Workers) # 0
  BY PyClientAssumption, FS_EmptySet
<1> QED
  BY <1>1, <1>2

\* The constructor leaves a typed state.
LEMMA TypeInit == Init => TypeInv
<1>1. <<>> \in Seq(Entries \cup {Shutdown}) /\ Len(<<>>) <= BufferSize
  BY PyClientAssumption
<1>2. 0 \in 0..Cardinality(Workers)
  BY WorkerCount
<1>3. Init => toPut \in [Closers -> 0..Cardinality(Workers)]
  BY <1>2 DEF Init
<1>4. Init => queue \in Seq(Entries \cup {Shutdown}) /\ Len(queue) <= BufferSize
  BY <1>1 DEF Init
<1>5. Init => TypeOK
  BY <1>3, <1>4 DEF Init, TypeOK
<1>6. Init => \A c \in Closers : closing[c] # "putting"
  BY DEF Init
<1> QED
  BY <1>5, <1>6 DEF TypeInv

\* An item put into a queue with room fits.
LEMMA PutFits ==
  ASSUME TypeOK, HasRoom, NEW x \in Entries \cup {Shutdown}
  PROVE  Append(queue, x) \in Seq(Entries \cup {Shutdown}) /\ Len(Append(queue, x)) <= BufferSize
<1>1. /\ Append(queue, x) \in Seq(Entries \cup {Shutdown})
      /\ Len(Append(queue, x)) = Len(queue) + 1
      /\ Len(queue) \in Nat
  BY DEF TypeOK
<1> QED
  BY <1>1, PyClientAssumption DEF HasRoom

\* send and try_send keep the types.
LEMMA TypeCall == ASSUME TypeInv, NEW e \in Entries, CallStep(e) PROVE TypeInv'
<1>1. CASE CheckOpen(e)
  BY <1>1 DEF CheckOpen, TypeOK, TypeInv
<1>2. CASE Put(e)
  <2>1. queue' \in Seq(Entries \cup {Shutdown}) /\ Len(queue') <= BufferSize
    BY <1>2, PutFits DEF Put, TypeInv
  <2> QED
    BY <1>2, <2>1 DEF Put, PutResult, TypeOK, TypeInv
<1>3. CASE Full(e)
  BY <1>3 DEF Full, TypeOK, TypeInv
<1> QED
  BY <1>1, <1>2, <1>3 DEF CallStep

\* close keeps the types: it puts as many sentinels as it set out to.
LEMMA TypeClose ==
  ASSUME TypeInv, NEW c \in Closers, CloseCheck(c) \/ CloseStep(c) \/ JoinTimeout(c)
  PROVE  TypeInv'
<1>1. CASE CloseCheck(c) \/ JoinWorkers(c) \/ JoinTimeout(c)
  BY <1>1 DEF CloseCheck, JoinWorkers, JoinTimeout, TypeOK, TypeInv
<1>2. CASE SetClosed(c)
  BY <1>2, WorkerCount DEF SetClosed, SentinelCount, TypeOK, TypeInv
<1>3. CASE PutSentinel(c)
  <2>1. queue' \in Seq(Entries \cup {Shutdown}) /\ Len(queue') <= BufferSize
    BY <1>3, PutFits DEF PutSentinel, WithSentinel, TypeInv
  <2>2. toPut[c] \in 0..Cardinality(Workers) /\ toPut[c] >= 1
    BY <1>3 DEF PutSentinel, TypeOK, TypeInv
  <2>3. toPut[c] - 1 \in 0..Cardinality(Workers) /\ (toPut[c] # 1 => toPut[c] - 1 >= 1)
    BY <2>2, WorkerCount
  <2>4. /\ toPut' = [toPut EXCEPT ![c] = toPut[c] - 1]
        /\ closing' = [closing EXCEPT ![c] = IF toPut[c] = 1 THEN "joining" ELSE closing[c]]
        /\ UNCHANGED <<call, closed, busy, exited, outcome, early>>
    BY <1>3 DEF PutSentinel
  <2> QED
    BY <2>1, <2>3, <2>4 DEF TypeOK, TypeInv
<1> QED
  BY <1>1, <1>2, <1>3 DEF CloseStep

\* Workers keep the types: they take from the head of the queue.
LEMMA TypeWorker == ASSUME TypeInv, NEW w \in Workers, WorkerStep(w) PROVE TypeInv'
<1>1. CASE Get(w)
  <2>1. queue \in Seq(Entries \cup {Shutdown}) /\ queue # <<>> /\ Len(queue) <= BufferSize
    BY <1>1 DEF Get, TypeOK, TypeInv
  <2>2. /\ Head(queue) \in Entries \cup {Shutdown}
        /\ Tail(queue) \in Seq(Entries \cup {Shutdown})
        /\ Len(Tail(queue)) = Len(queue) - 1 /\ Len(queue) \in Nat
    BY <2>1, HeadTailProperties
  <2>3. queue' \in Seq(Entries \cup {Shutdown}) /\ Len(queue') <= BufferSize
    BY <1>1, <2>1, <2>2, PyClientAssumption DEF Get, Remaining
  <2> QED
    BY <1>1, <2>2, <2>3 DEF Get, TypeOK, TypeInv
<1>2. CASE Post(w)
  BY <1>2 DEF Post, TypeOK, TypeInv
<1> QED
  BY <1>1, <1>2 DEF WorkerStep

\* TypeInv is inductive.
LEMMA TypeNext == TypeInv /\ [Next]_vars => TypeInv'
<1>1. TypeInv /\ UNCHANGED vars => TypeInv'
  BY DEF vars, TypeOK, TypeInv
<1> QED
  BY <1>1, TypeCall, TypeClose, TypeWorker DEF Next

\* Type correctness with the count of sentinels to put.
LEMMA TypeInvariant == Spec => []TypeInv
  BY TypeInit, TypeNext, PTL DEF Spec

\* Type correctness; the queue never holds more than its maxsize.
THEOREM TypeCorrect == Spec => []TypeOK
<1>1. TypeInv => TypeOK
  BY DEF TypeInv
<1> QED
  BY <1>1, TypeInvariant, PTL

-----------------------------------------------------------------------------
(* The sentinels stay behind the early entries.                            *)

\* The flag is set before the first sentinel is put, and stays set.
ClosedFirst ==
  /\ exited # {} \/ (\E i \in DOMAIN queue : queue[i] = Shutdown) => closed
  /\ \A c \in Closers : closing[c] \in {"putting", "joining", "joined", "timedOut"} => closed

\* No early entry stands behind a sentinel, nor in the queue once a worker has taken one;
\* a worker that has left holds nothing.
EarlyBeforeSentinel ==
  /\ \A i, j \in DOMAIN queue : queue[i] = Shutdown /\ i < j => queue[j] \notin early
  /\ exited # {} => \A j \in DOMAIN queue : queue[j] \notin early
  /\ \A w \in exited : busy[w] = None
  /\ \A c \in Closers : closing[c] = "joined" => exited = Workers

\* An early entry is queued, with a worker, or posted.
EarlyKept ==
  /\ \A e \in early : call[e] = "accepted"
  /\ \A e \in early :
       \/ outcome[e] # "none"
       \/ \E i \in DOMAIN queue : queue[i] = e
       \/ \E w \in Workers : busy[w] = e

EarlyInv == ClosedFirst /\ EarlyBeforeSentinel /\ EarlyKept

\* What Append makes of the queue.
LEMMA AppendedQueue ==
  ASSUME TypeOK, NEW x, queue' = Append(queue, x)
  PROVE  /\ Len(queue) \in Nat /\ DOMAIN queue = 1..Len(queue)
         /\ DOMAIN queue' = 1..(Len(queue) + 1)
         /\ \A i \in DOMAIN queue : i \in DOMAIN queue' /\ queue'[i] = queue[i]
         /\ Len(queue) + 1 \in DOMAIN queue' /\ queue'[Len(queue) + 1] = x
         /\ \A i \in DOMAIN queue' : i \in DOMAIN queue \/ i = Len(queue) + 1
  BY DEF TypeOK

\* What taking the head makes of the queue.
LEMMA RestOfQueue ==
  ASSUME TypeOK, queue # <<>>, queue' = Tail(queue)
  PROVE  /\ Head(queue) = queue[1] /\ 1 \in DOMAIN queue
         /\ DOMAIN queue \subseteq Nat
         /\ \A i \in DOMAIN queue : queue[i] \in Entries \cup {Shutdown}
         /\ \A i \in DOMAIN queue' :
              i + 1 \in DOMAIN queue /\ 1 < i + 1 /\ queue'[i] = queue[i + 1]
         /\ \A i \in DOMAIN queue : i = 1 \/ (i - 1 \in DOMAIN queue' /\ queue'[i - 1] = queue[i])
         /\ DOMAIN queue' \subseteq Nat
<1>1. /\ queue \in Seq(Entries \cup {Shutdown}) /\ Head(queue) = queue[1]
      /\ Len(queue) \in Nat \ {0} /\ DOMAIN queue = 1..Len(queue)
      /\ DOMAIN queue' = 1..(Len(queue) - 1)
      /\ \A i \in 1..(Len(queue) - 1) : queue'[i] = queue[i + 1]
  BY HeadTailProperties DEF TypeOK
<1> QED
  BY <1>1

\* Put: an entry queued after the flag was set is not early, one queued before it finds
\* no sentinel in the queue.
LEMMA EarlyPut == ASSUME TypeOK, EarlyInv, NEW e \in Entries, Put(e) PROVE EarlyInv'
<1>1. /\ queue' = Append(queue, e) /\ call[e] # "accepted"
      /\ call' = [call EXCEPT ![e] = "accepted"]
      /\ early' = IF closed THEN early ELSE early \cup {e}
      /\ UNCHANGED <<closing, closed, busy, exited, outcome>>
  BY DEF Put, PutResult
<1>2. e # Shutdown /\ e \notin early
  BY <1>1, PyClientAssumption DEF EarlyInv, EarlyKept
<1>3. ClosedFirst'
  BY <1>1, <1>2, AppendedQueue DEF EarlyInv, ClosedFirst
<1>4. EarlyBeforeSentinel'
  <2>1. CASE closed
    BY <2>1, <1>1, <1>2, AppendedQueue DEF EarlyInv, EarlyBeforeSentinel
  <2>2. CASE ~closed
    <3>1. exited = {} /\ \A i \in DOMAIN queue' : queue'[i] # Shutdown
      BY <2>2, <1>1, <1>2, AppendedQueue DEF EarlyInv, ClosedFirst
    <3> QED
      BY <3>1, <1>1 DEF EarlyInv, EarlyBeforeSentinel
  <2> QED
    BY <2>1, <2>2
<1>5. EarlyKept'
  <2>1. \A f \in early \cup {e} : call'[f] = "accepted"
    BY <1>1 DEF EarlyInv, EarlyKept, TypeOK
  <2>2. /\ \E i \in DOMAIN queue' : queue'[i] = e
        /\ \A i \in DOMAIN queue : i \in DOMAIN queue' /\ queue'[i] = queue[i]
    BY <1>1, AppendedQueue
  <2>3. \A f \in early \cup {e} :
          \/ outcome[f] # "none"
          \/ \E i \in DOMAIN queue' : queue'[i] = f
          \/ \E w \in Workers : busy[w] = f
    BY <2>2 DEF EarlyInv, EarlyKept
  <2> QED
    BY <2>1, <2>3, <1>1 DEF EarlyKept
<1> QED
  BY <1>3, <1>4, <1>5 DEF EarlyInv

\* A sentinel goes to the end, when the flag is set.
LEMMA EarlySentinel == ASSUME TypeOK, EarlyInv, NEW c \in Closers, PutSentinel(c) PROVE EarlyInv'
<1>1. /\ queue' = Append(queue, Shutdown) /\ closing[c] = "putting"
      /\ closing' = [closing EXCEPT ![c] = IF toPut[c] = 1 THEN "joining" ELSE closing[c]]
      /\ UNCHANGED <<call, closed, busy, exited, outcome, early>>
  BY DEF PutSentinel, WithSentinel
<1>2. closed /\ Shutdown \notin early
  BY <1>1, PyClientAssumption DEF EarlyInv, ClosedFirst, TypeOK
<1>3. \A d \in Closers : closing'[d] = closing[d] \/ closing'[d] = "joining"
  BY <1>1 DEF TypeOK
<1>4. ClosedFirst'
  BY <1>1, <1>2 DEF ClosedFirst
<1>5. EarlyBeforeSentinel'
  BY <1>1, <1>2, <1>3, AppendedQueue DEF EarlyInv, EarlyBeforeSentinel
<1>6. EarlyKept'
  BY <1>1, AppendedQueue DEF EarlyInv, EarlyKept
<1> QED
  BY <1>4, <1>5, <1>6 DEF EarlyInv

\* The head goes to a worker; when it is a sentinel, nothing early is left behind it.
LEMMA EarlyGet == ASSUME TypeOK, EarlyInv, NEW w \in Workers, Get(w) PROVE EarlyInv'
<1>1. /\ w \notin exited /\ busy[w] = None
      /\ queue # <<>> /\ queue' = Tail(queue)
      /\ UNCHANGED <<call, closing, closed, outcome, early>>
  BY DEF Get, Remaining
<1>2. CASE Head(queue) = Shutdown /\ exited' = exited \cup {w} /\ UNCHANGED busy
  <2>1. queue[1] = Shutdown /\ 1 \in DOMAIN queue /\ Shutdown \notin early
    BY <1>1, <1>2, RestOfQueue, PyClientAssumption DEF TypeOK
  <2>2. closed
    BY <2>1 DEF EarlyInv, ClosedFirst
  <2>3. ClosedFirst'
    BY <2>2, <1>1 DEF ClosedFirst
  <2>4. \A j \in DOMAIN queue' : queue'[j] \notin early
    BY <2>1, <1>1, RestOfQueue DEF EarlyInv, EarlyBeforeSentinel
  <2>5. EarlyBeforeSentinel'
    BY <2>4, <1>1, <1>2 DEF EarlyInv, EarlyBeforeSentinel, TypeOK
  <2>6. EarlyKept'
    <3>1. ASSUME NEW e \in early, NEW i \in DOMAIN queue, queue[i] = e
          PROVE  \E k \in DOMAIN queue' : queue'[k] = e
      <4>1. i # 1
        BY <3>1, <2>1
      <4>2. i - 1 \in DOMAIN queue' /\ queue'[i - 1] = queue[i]
        BY <4>1, <1>1, RestOfQueue
      <4> QED
        BY <3>1, <4>2
    <3> QED
      BY <3>1, <1>1, <1>2 DEF EarlyInv, EarlyKept
  <2> QED
    BY <2>3, <2>5, <2>6 DEF EarlyInv
<1>3. CASE Head(queue) # Shutdown /\ busy' = [busy EXCEPT ![w] = Head(queue)] /\ UNCHANGED exited
  <2>1. /\ busy'[w] = queue[1]
        /\ \A v \in Workers \ {w} : busy'[v] = busy[v]
    BY <1>1, <1>3, RestOfQueue DEF TypeOK
  <2>2. ClosedFirst'
    BY <1>1, <1>3, RestOfQueue DEF EarlyInv, ClosedFirst
  <2>3. EarlyBeforeSentinel'
    <3>1. \A i, j \in DOMAIN queue' : queue'[i] = Shutdown /\ i < j => queue'[j] \notin early
      <4> SUFFICES ASSUME NEW i \in DOMAIN queue', NEW j \in DOMAIN queue',
                          queue'[i] = Shutdown, i < j
                   PROVE  queue'[j] \notin early
        OBVIOUS
      <4>1. /\ i + 1 \in DOMAIN queue /\ queue[i + 1] = Shutdown
            /\ j + 1 \in DOMAIN queue /\ queue'[j] = queue[j + 1]
            /\ i + 1 < j + 1
        BY <1>1, RestOfQueue
      <4> QED
        BY <4>1 DEF EarlyInv, EarlyBeforeSentinel
    <3>2. exited' # {} => \A j \in DOMAIN queue' : queue'[j] \notin early
      BY <1>1, <1>3, RestOfQueue DEF EarlyInv, EarlyBeforeSentinel
    <3>3. \A v \in exited' : busy'[v] = None
      BY <2>1, <1>1, <1>3 DEF EarlyInv, EarlyBeforeSentinel, TypeOK
    <3> QED
      BY <3>1, <3>2, <3>3, <1>1, <1>3 DEF EarlyInv, EarlyBeforeSentinel
  <2>4. EarlyKept'
    <3> SUFFICES ASSUME NEW e \in early, outcome[e] = "none"
                 PROVE  \/ \E i \in DOMAIN queue' : queue'[i] = e
                        \/ \E v \in Workers : busy'[v] = e
      BY <1>1 DEF EarlyInv, EarlyKept
    <3>1. ASSUME NEW i \in DOMAIN queue, queue[i] = e
          PROVE  (\E k \in DOMAIN queue' : queue'[k] = e) \/ busy'[w] = e
      BY <3>1, <2>1, <1>1, RestOfQueue
    <3>2. ASSUME NEW v \in Workers, busy[v] = e PROVE busy'[v] = e
      BY <3>2, <2>1, <1>1, PyClientAssumption DEF TypeOK
    <3> QED
      BY <3>1, <3>2 DEF EarlyInv, EarlyKept
  <2> QED
    BY <2>2, <2>3, <2>4 DEF EarlyInv
<1> QED
  BY <1>2, <1>3 DEF Get

\* EarlyInv is inductive, given the types.
LEMMA EarlyNext == TypeOK /\ EarlyInv /\ [Next]_vars => EarlyInv'
<1> SUFFICES ASSUME TypeOK, EarlyInv, [Next]_vars PROVE EarlyInv'
  OBVIOUS
<1>1. ASSUME NEW e \in Entries, CheckOpen(e) \/ Full(e) PROVE EarlyInv'
  <2>1. /\ UNCHANGED <<closing, closed, queue, busy, exited, outcome, early>>
        /\ \A f \in Entries : call[f] = "accepted" => call'[f] = "accepted"
        /\ early \subseteq Entries
    BY <1>1 DEF CheckOpen, Full, TypeOK
  <2> QED
    BY <2>1 DEF EarlyInv, ClosedFirst, EarlyBeforeSentinel, EarlyKept
<1>2. ASSUME NEW c \in Closers, CloseCheck(c) \/ SetClosed(c) \/ JoinWorkers(c) \/ JoinTimeout(c)
      PROVE  EarlyInv'
  <2>1. /\ UNCHANGED <<call, queue, busy, exited, outcome, early>>
        /\ closed => closed'
    BY <1>2 DEF CloseCheck, SetClosed, JoinWorkers, JoinTimeout
  <2>2. \A d \in Closers :
          /\ closing'[d] \in {"putting", "joining", "joined", "timedOut"} => closed'
          /\ closing'[d] = "joined" => exited = Workers
    BY <1>2 DEF CloseCheck, SetClosed, JoinWorkers, JoinTimeout, AllJoined,
                EarlyInv, ClosedFirst, EarlyBeforeSentinel, TypeOK
  <2> QED
    BY <2>1, <2>2 DEF EarlyInv, ClosedFirst, EarlyBeforeSentinel, EarlyKept
<1>3. ASSUME NEW w \in Workers, Post(w) PROVE EarlyInv'
  <2>1. /\ UNCHANGED <<call, closing, closed, queue, exited, early>>
        /\ busy[w] # None /\ busy[w] \in Entries /\ busy'[w] = None
        /\ \A v \in Workers \ {w} : busy'[v] = busy[v]
        /\ outcome'[busy[w]] # "none"
        /\ \A e \in Entries \ {busy[w]} : outcome'[e] = outcome[e]
        /\ early \subseteq Entries /\ exited \subseteq Workers
    BY <1>3 DEF Post, TypeOK
  <2> QED
    BY <2>1 DEF EarlyInv, ClosedFirst, EarlyBeforeSentinel, EarlyKept
<1>4. CASE UNCHANGED vars
  BY <1>4 DEF vars, EarlyInv, ClosedFirst, EarlyBeforeSentinel, EarlyKept
<1> QED
  BY <1>1, <1>2, <1>3, <1>4, EarlyPut, EarlySentinel, EarlyGet
  DEF Next, CallStep, CloseStep, WorkerStep

\* A close that returns with every worker joined leaves no early entry unposted, however
\* many closes race and however many sends slip in behind the flag.
THEOREM JoinedIsPosted == Spec => []JoinedMeansEarlyPosted
<1>1. Init => EarlyInv
  BY DEF Init, EarlyInv, ClosedFirst, EarlyBeforeSentinel, EarlyKept
<1>2. Spec => []EarlyInv
  BY <1>1, EarlyNext, TypeCorrect, PTL DEF Spec
<1>3. TypeOK /\ EarlyInv => JoinedMeansEarlyPosted
  <2> SUFFICES ASSUME TypeOK, EarlyInv, NEW c \in Closers, closing[c] = "joined", NEW e \in early
               PROVE  outcome[e] # "none"
    BY DEF JoinedMeansEarlyPosted
  <2>1. exited = Workers /\ exited # {}
    BY PyClientAssumption DEF EarlyInv, EarlyBeforeSentinel
  <2>2. e \in Entries /\ e # None
    BY PyClientAssumption DEF TypeOK
  <2> QED
    BY <2>1, <2>2 DEF EarlyInv, EarlyBeforeSentinel, EarlyKept
<1> QED
  BY <1>2, <1>3, TypeCorrect, PTL
-----------------------------------------------------------------------------
(* Where an entry is: in the queue, with a worker, or posted.              *)

\* Only entries whose call returned, and that are not posted yet, are in the queue or
\* with a worker, each once.
PendingOnce ==
  /\ \A i \in DOMAIN queue : queue[i] # Shutdown =>
       call[queue[i]] = "accepted" /\ outcome[queue[i]] = "none"
  /\ \A i, j \in DOMAIN queue : queue[i] # Shutdown /\ queue[i] = queue[j] => i = j
  /\ \A w \in Workers : busy[w] # None =>
       /\ call[busy[w]] = "accepted" /\ outcome[busy[w]] = "none"
       /\ \A i \in DOMAIN queue : queue[i] # busy[w]
       /\ \A v \in Workers : busy[v] = busy[w] => v = w
  /\ \A e \in Entries : outcome[e] # "none" => call[e] = "accepted"

\* An accepted entry is not lost: a sentinel stops a worker, it takes no entry along.
NothingLost ==
  \A e \in Entries : call[e] = "accepted" /\ outcome[e] = "none" =>
    (\E i \in DOMAIN queue : queue[i] = e) \/ (\E w \in Workers : busy[w] = e)

PlaceInv == PendingOnce /\ NothingLost

\* Steps that put, take and post nothing, and turn no call into an accepted one.
LEMMA PlaceQuiet ==
  ASSUME TypeOK, PlaceInv, UNCHANGED <<queue, busy, outcome>>,
         \A e \in Entries : call'[e] = "accepted" <=> call[e] = "accepted"
  PROVE  PlaceInv'
<1>1. \A i \in DOMAIN queue : queue[i] \in Entries \cup {Shutdown}
  BY DEF TypeOK
<1>2. PendingOnce'
  BY <1>1 DEF PlaceInv, PendingOnce, TypeOK
<1>3. NothingLost'
  BY DEF PlaceInv, NothingLost
<1> QED
  BY <1>2, <1>3 DEF PlaceInv

\* Put puts an entry that was nowhere into the queue, once.
LEMMA PlacePut == ASSUME TypeOK, PlaceInv, NEW e \in Entries, Put(e) PROVE PlaceInv'
<1>1. /\ queue' = Append(queue, e) /\ call[e] # "accepted"
      /\ call' = [call EXCEPT ![e] = "accepted"]
      /\ UNCHANGED <<busy, outcome>>
  BY DEF Put, PutResult
<1>2. call'[e] = "accepted" /\ \A f \in Entries \ {e} : call'[f] = call[f]
  BY <1>1 DEF TypeOK
<1>3. /\ outcome[e] = "none" /\ e # Shutdown
      /\ \A i \in DOMAIN queue : queue[i] # e /\ queue[i] \in Entries \cup {Shutdown}
      /\ \A w \in Workers : busy[w] # e /\ busy[w] \in Entries \cup {None}
  BY <1>1, PyClientAssumption DEF PlaceInv, PendingOnce, TypeOK
<1>4. /\ \A i \in DOMAIN queue : i \in DOMAIN queue' /\ queue'[i] = queue[i]
      /\ Len(queue) + 1 \in DOMAIN queue' /\ queue'[Len(queue) + 1] = e
      /\ \A i \in DOMAIN queue' : i \in DOMAIN queue \/ i = Len(queue) + 1
  BY <1>1, AppendedQueue
<1>5. PendingOnce'
  <2>1. \A i \in DOMAIN queue' : queue'[i] # Shutdown =>
          call'[queue'[i]] = "accepted" /\ outcome'[queue'[i]] = "none"
    BY <1>1, <1>2, <1>3, <1>4 DEF PlaceInv, PendingOnce
  <2>2. \A i, j \in DOMAIN queue' : queue'[i] # Shutdown /\ queue'[i] = queue'[j] => i = j
    BY <1>3, <1>4 DEF PlaceInv, PendingOnce
  <2>3. \A w \in Workers : busy'[w] # None =>
          /\ call'[busy'[w]] = "accepted" /\ outcome'[busy'[w]] = "none"
          /\ \A i \in DOMAIN queue' : queue'[i] # busy'[w]
          /\ \A v \in Workers : busy'[v] = busy'[w] => v = w
    BY <1>1, <1>2, <1>3, <1>4 DEF PlaceInv, PendingOnce
  <2>4. \A f \in Entries : outcome'[f] # "none" => call'[f] = "accepted"
    BY <1>1, <1>2 DEF PlaceInv, PendingOnce
  <2> QED
    BY <2>1, <2>2, <2>3, <2>4 DEF PendingOnce
<1>6. NothingLost'
  BY <1>1, <1>2, <1>4 DEF PlaceInv, NothingLost
<1> QED
  BY <1>5, <1>6 DEF PlaceInv

\* A sentinel is no entry: it disturbs no place.
LEMMA PlaceSentinel == ASSUME TypeOK, PlaceInv, NEW c \in Closers, PutSentinel(c) PROVE PlaceInv'
<1>1. queue' = Append(queue, Shutdown) /\ UNCHANGED <<call, busy, outcome>>
  BY DEF PutSentinel, WithSentinel
<1>2. /\ \A i \in DOMAIN queue : i \in DOMAIN queue' /\ queue'[i] = queue[i]
      /\ Len(queue) + 1 \in DOMAIN queue' /\ queue'[Len(queue) + 1] = Shutdown
      /\ \A i \in DOMAIN queue' : i \in DOMAIN queue \/ i = Len(queue) + 1
  BY <1>1, AppendedQueue
<1>3. \A w \in Workers : busy[w] # None => busy[w] # Shutdown
  BY PyClientAssumption DEF TypeOK
<1>4. PendingOnce'
  BY <1>1, <1>2, <1>3 DEF PlaceInv, PendingOnce
<1>5. NothingLost'
  BY <1>1, <1>2 DEF PlaceInv, NothingLost
<1> QED
  BY <1>4, <1>5 DEF PlaceInv

\* The head of the queue moves to a worker, or is a sentinel and vanishes.
LEMMA PlaceGet == ASSUME TypeOK, PlaceInv, NEW w \in Workers, Get(w) PROVE PlaceInv'
<1> DEFINE h == Head(queue)
<1>1. /\ queue # <<>> /\ queue' = Tail(queue) /\ busy[w] = None
      /\ UNCHANGED <<call, outcome>>
      /\ \/ h = Shutdown /\ UNCHANGED busy
         \/ h # Shutdown /\ busy' = [busy EXCEPT ![w] = h]
  BY DEF Get, Remaining
<1>2. /\ h = queue[1] /\ 1 \in DOMAIN queue /\ h \in Entries \cup {Shutdown}
      /\ DOMAIN queue \subseteq Nat /\ DOMAIN queue' \subseteq Nat
      /\ \A i \in DOMAIN queue' : i + 1 \in DOMAIN queue /\ 1 < i + 1 /\ queue'[i] = queue[i + 1]
      /\ \A i \in DOMAIN queue : i = 1 \/ (i - 1 \in DOMAIN queue' /\ queue'[i - 1] = queue[i])
  BY <1>1, RestOfQueue
<1> HIDE DEF h
<1>3. /\ \A i \in DOMAIN queue' : queue'[i] # Shutdown =>
           call[queue'[i]] = "accepted" /\ outcome[queue'[i]] = "none"
      /\ \A i, j \in DOMAIN queue' : queue'[i] # Shutdown /\ queue'[i] = queue'[j] => i = j
      /\ \A i \in DOMAIN queue', v \in Workers : busy[v] # None => queue'[i] # busy[v]
  <2>1. ASSUME NEW i \in DOMAIN queue', NEW j \in DOMAIN queue',
               queue'[i] # Shutdown, queue'[i] = queue'[j]
        PROVE  i = j
    <3>1. i + 1 = j + 1
      BY <2>1, <1>2 DEF PlaceInv, PendingOnce
    <3> QED
      BY <3>1, <1>2
  <2> QED
    BY <2>1, <1>2 DEF PlaceInv, PendingOnce
<1>4. CASE h = Shutdown
  <2>1. UNCHANGED busy
    BY <1>1, <1>4
  <2>2. PendingOnce'
    BY <2>1, <1>1, <1>3 DEF PlaceInv, PendingOnce
  <2>3. NothingLost'
    <3>1. ASSUME NEW e \in Entries, NEW i \in DOMAIN queue, queue[i] = e
          PROVE  \E k \in DOMAIN queue' : queue'[k] = e
      BY <3>1, <1>2, <1>4, PyClientAssumption
    <3> QED
      BY <3>1, <2>1, <1>1 DEF PlaceInv, NothingLost
  <2> QED
    BY <2>2, <2>3 DEF PlaceInv
<1>5. CASE h # Shutdown
  <2>1. busy'[w] = h /\ \A v \in Workers \ {w} : busy'[v] = busy[v]
    BY <1>1, <1>5 DEF TypeOK
  <2>2. /\ call[h] = "accepted" /\ outcome[h] = "none" /\ h # None
        /\ \A i \in DOMAIN queue : queue[i] = h => i = 1
        /\ \A v \in Workers : busy[v] # h
    BY <1>2, <1>5, PyClientAssumption DEF PlaceInv, PendingOnce
  <2>3. \A i \in DOMAIN queue' : queue'[i] # h
    BY <1>2, <2>2
  <2>4. ASSUME NEW v \in Workers, busy'[v] # None
        PROVE  /\ call[busy'[v]] = "accepted" /\ outcome[busy'[v]] = "none"
               /\ \A i \in DOMAIN queue' : queue'[i] # busy'[v]
               /\ \A u \in Workers : busy'[u] = busy'[v] => u = v
    <3>1. CASE v = w
      BY <3>1, <2>1, <2>2, <2>3
    <3>2. CASE v # w
      <4>1. busy'[v] = busy[v] /\ busy[v] # h
        BY <3>2, <2>1, <2>2
      <4> QED
        BY <2>4, <4>1, <2>1, <1>3 DEF PlaceInv, PendingOnce
    <3> QED
      BY <3>1, <3>2
  <2>5. PendingOnce'
    BY <2>4, <1>1, <1>3 DEF PlaceInv, PendingOnce
  <2>6. NothingLost'
    <3> SUFFICES ASSUME NEW e \in Entries, call[e] = "accepted", outcome[e] = "none"
                 PROVE  (\E i \in DOMAIN queue' : queue'[i] = e) \/ (\E v \in Workers : busy'[v] = e)
      BY <1>1 DEF NothingLost
    <3>1. ASSUME NEW i \in DOMAIN queue, queue[i] = e
          PROVE  (\E k \in DOMAIN queue' : queue'[k] = e) \/ busy'[w] = e
      BY <3>1, <1>2, <2>1
    <3>2. ASSUME NEW v \in Workers, busy[v] = e PROVE busy'[v] = e
      BY <3>2, <1>1, <2>1, PyClientAssumption
    <3> QED
      BY <3>1, <3>2 DEF PlaceInv, NothingLost
  <2> QED
    BY <2>5, <2>6 DEF PlaceInv
<1> QED
  BY <1>4, <1>5

\* Post moves an entry from the hands of its worker to the posted ones.
LEMMA PlacePost == ASSUME TypeOK, PlaceInv, NEW w \in Workers, Post(w) PROVE PlaceInv'
<1> DEFINE b == busy[w]
<1>1. /\ b # None /\ b \in Entries /\ b # Shutdown
      /\ UNCHANGED <<call, queue>>
      /\ busy'[w] = None /\ \A v \in Workers \ {w} : busy'[v] = busy[v]
      /\ outcome'[b] # "none" /\ \A e \in Entries \ {b} : outcome'[e] = outcome[e]
  BY PyClientAssumption DEF Post, TypeOK
<1>2. /\ call[b] = "accepted"
      /\ \A i \in DOMAIN queue : queue[i] # b /\ queue[i] \in Entries \cup {Shutdown}
      /\ \A v \in Workers \ {w} : busy[v] # b
      /\ \A v \in Workers : busy[v] \in Entries \cup {None}
  BY <1>1 DEF PlaceInv, PendingOnce, TypeOK
<1> HIDE DEF b
<1>3. PendingOnce'
  BY <1>1, <1>2, PyClientAssumption DEF PlaceInv, PendingOnce
<1>4. NothingLost'
  BY <1>1, <1>2 DEF PlaceInv, NothingLost, b
<1> QED
  BY <1>3, <1>4 DEF PlaceInv

\* PlaceInv is inductive, given the types.
LEMMA PlaceNext == TypeOK /\ PlaceInv /\ [Next]_vars => PlaceInv'
<1> SUFFICES ASSUME TypeOK, PlaceInv, [Next]_vars PROVE PlaceInv'
  OBVIOUS
<1>1. ASSUME NEW e \in Entries, CheckOpen(e) \/ Full(e) PROVE PlaceInv'
  <2>1. /\ UNCHANGED <<queue, busy, outcome>>
        /\ \A f \in Entries : call'[f] = "accepted" <=> call[f] = "accepted"
    BY <1>1 DEF CheckOpen, Full, TypeOK
  <2> QED
    BY <2>1, PlaceQuiet
<1>2. CASE UNCHANGED <<call, queue, busy, outcome>>
  BY <1>2, PlaceQuiet
<1>3. \/ \E e \in Entries : Put(e) \/ CheckOpen(e) \/ Full(e)
      \/ \E c \in Closers : PutSentinel(c)
      \/ \E w \in Workers : Get(w) \/ Post(w)
      \/ UNCHANGED <<call, queue, busy, outcome>>
  BY DEF Next, CallStep, CloseCheck, CloseStep, SetClosed, JoinWorkers, JoinTimeout,
         WorkerStep, vars
<1> QED
  BY <1>1, <1>2, <1>3, PlacePut, PlaceSentinel, PlaceGet, PlacePost

\* Every pending entry is in one place and no accepted one is in none, at all times.
LEMMA PlaceInvariant == Spec => []PlaceInv
<1>1. Init => PlaceInv
  BY DEF Init, PlaceInv, PendingOnce, NothingLost
<1> QED
  BY <1>1, TypeCorrect, PlaceNext, PTL DEF Spec

\* An accepted entry is in exactly one place, so it is neither lost nor posted twice.
THEOREM AcceptedOnce == Spec => []AcceptedInOnePlace
<1>1. TypeOK /\ PlaceInv => AcceptedInOnePlace
  <2> SUFFICES ASSUME TypeOK, PlaceInv, NEW e \in Accepted
               PROVE  LET queued == {i \in DOMAIN queue : queue[i] = e}
                          held == {w \in Workers : busy[w] = e}
                      IN  /\ outcome[e] # "none" <=> queued \cup held = {}
                          /\ \A x, y \in queued \cup held : x = y
    BY DEF AcceptedInOnePlace
  <2>1. e \in Entries /\ call[e] = "accepted" /\ e # None /\ e # Shutdown
    BY PyClientAssumption DEF Accepted
  <2> QED
    BY <2>1 DEF PlaceInv, PendingOnce, NothingLost
<1> QED
  BY <1>1, TypeCorrect, PlaceInvariant, PTL

\* No entry is posted for a caller that was told of an error.
THEOREM ErrorsAreNotPosted == Spec => []ErrorMeansNotPosted
<1>1. TypeOK /\ PlaceInv => ErrorMeansNotPosted
  BY PyClientAssumption DEF PlaceInv, PendingOnce, ErrorMeansNotPosted, TypeOK
<1> QED
  BY <1>1, TypeCorrect, PlaceInvariant, PTL
=============================================================================
