------------------------------ MODULE FileTail ------------------------------
(***************************************************************************)
(* The file input of the agent (apps/agent/internal/input/file.go) tailing *)
(* one path without a multiline rule, with its checkpoint in the registry  *)
(* (internal/registry) and the hand-off of lines to the shipping pipeline, *)
(* through rotation, truncation, crashes and restarts.                     *)
(*                                                                         *)
(* A log line l is written in one piece, <<l, "whole">>, or in two,        *)
(* <<l, "start">> and <<l, "end">>, the last with its newline: lines have  *)
(* different lengths, so that an offset of one file may be in the middle   *)
(* of a line of another.  Offsets count pieces.  The reader's position in  *)
(* the open file, tail.pos, is ahead of the committed tail.offset by the   *)
(* length of the stashed partial line.                                     *)
(*                                                                         *)
(* Where two definitions of one thing stand together, such as              *)
(* ShrunkOrEqual and Shrunk,                                               *)
(* the first is a plausible slip that no specification uses: it is put in  *)
(* the place of the second to see that a property notices.                 *)
(***************************************************************************)
EXTENDS Naturals, Sequences, FiniteSets

CONSTANTS
  MaxLines,       \* lines the application writes
  Inodes,         \* inode numbers of the file system
  FromBeginning,  \* from_beginning in the input's configuration
  ReuseInodes,    \* whether the file system gives a new file the number of a deleted one
  MaxRotations, MaxTruncations, MaxCrashes, MaxStops, MaxFaults,  \* bounds on the environment
  MaxTroubles,                                                    \* and on all of it together
  None            \* "no file", "not tailed", "no checkpoint"

Lines == 1..MaxLines
Units == Lines \X {"whole", "start", "end"}
EndsLine(u) == u[2] # "start"   \* the piece has the newline
Torn == 0        \* a record put together from pieces of different lines
Checkpoint == [ino: Inodes, offset: Nat]
TailedFile == [ino: Inodes, fh: Inodes, pos: Nat, offset: Nat, partial: Seq(Units)]

ASSUME FileTailAssumption ==
  /\ {FromBeginning, ReuseInodes} \subseteq BOOLEAN
  /\ {MaxLines, MaxRotations, MaxTruncations, MaxCrashes, MaxStops, MaxFaults,
      MaxTroubles} \subseteq Nat
  /\ None \notin Inodes /\ None \notin TailedFile /\ None \notin Checkpoint

VARIABLES
  path,     \* the inode at the tailed path, or None
  data,     \* data[i]: contents of inode i
  used,     \* inodes that have held a file
  wrote,    \* number of lines begun so far
  up,       \* the agent is running
  pc,       \* what the input does next
  info,     \* the inode and size the last Stat returned
  tail,     \* the tailedFile in f.active, or None
  mem,      \* the registry's State of the path in memory, or None
  disk,     \* the same in the registry file
  emitted,  \* history: the records sent to the pipeline, in order
  inflight, \* lines held in memory by the pipeline
  delivered,\* lines the backend has accepted
  raced,    \* history: a rotation fell between a Stat and the Open after it
  left      \* how often each environment event may still happen

files == <<path, data, used, wrote>>
vars == <<path, data, used, wrote, up, pc, info, tail, mem, disk,
          emitted, inflight, delivered, raced, left>>

Budget == [rotate |-> MaxRotations, truncate |-> MaxTruncations,
           crash |-> MaxCrashes, stop |-> MaxStops, fault |-> MaxFaults,
           any |-> MaxTroubles]

\* Types of the state; offsets are natural numbers and tail is a whole tailedFile or None.
TypeOK ==
  /\ path \in Inodes \cup {None}
  /\ data \in [Inodes -> Seq(Units)]
  /\ used \subseteq Inodes
  /\ wrote \in 0..MaxLines
  /\ up \in BOOLEAN
  /\ pc \in {"idle", "open", "reopen", "read"}
  /\ info \in [ino: Inodes \cup {None}, size: Nat]
  /\ tail = None \/ tail \in TailedFile
  /\ mem = None \/ mem \in Checkpoint
  /\ disk = None \/ disk \in Checkpoint
  /\ emitted \in Seq(Lines \cup {Torn})
  /\ inflight \subseteq Lines /\ delivered \subseteq Lines
  /\ raced \in BOOLEAN
  /\ left \in [DOMAIN Budget -> Nat]

Init ==
  /\ path = None
  /\ data = [i \in Inodes |-> <<>>]
  /\ used = {}
  /\ wrote = 0
  /\ up = FALSE /\ pc = "idle"
  /\ info = [ino |-> None, size |-> 0]
  /\ tail = None /\ mem = None /\ disk = None
  /\ emitted = <<>> /\ inflight = {} /\ delivered = {}
  /\ raced = FALSE
  /\ left = Budget

Spend(kind) ==
  /\ left[kind] > 0 /\ left["any"] > 0
  /\ left' = [left EXCEPT ![kind] = @ - 1, !["any"] = @ - 1]

-----------------------------------------------------------------------------
(* The application and logrotate.                                          *)

Size(i) == Len(data[i])
MidLine == path # None /\ data[path] # <<>> /\ ~EndsLine(data[path][Size(path)])

Grow(u) == data' = [data EXCEPT ![path] = Append(@, u)]

WriteLine(part) ==
  /\ path # None /\ ~MidLine /\ wrote < MaxLines
  /\ Grow(<<wrote + 1, part>>)
  /\ wrote' = wrote + 1
  /\ UNCHANGED <<path, used, up, pc, info, tail, mem, disk, emitted, inflight, delivered, raced, left>>

WriteEnd ==
  /\ MidLine
  /\ Grow(<<wrote, "end">>)
  /\ UNCHANGED <<path, used, wrote, up, pc, info, tail, mem, disk, emitted, inflight, delivered, raced, left>>

\* The file is renamed away; an open handle still reads it.
Rotate ==
  /\ path # None /\ ~MidLine
  /\ Spend("rotate")
  /\ path' = None
  /\ raced' = (raced \/ pc \in {"open", "reopen"})
  /\ UNCHANGED <<data, used, wrote, up, pc, info, tail, mem, disk, emitted, inflight, delivered>>

\* A new file; its number is fresh or that of a deleted file nobody has open.
Create(i) ==
  /\ path = None
  /\ i \in used => ReuseInodes
  /\ tail # None => tail.fh # i
  /\ path' = i
  /\ data' = [data EXCEPT ![i] = <<>>]
  /\ used' = used \cup {i}
  /\ UNCHANGED <<wrote, up, pc, info, tail, mem, disk, emitted, inflight, delivered, raced, left>>

\* copytruncate
Truncate ==
  /\ path # None
  /\ Spend("truncate")
  /\ data' = [data EXCEPT ![path] = <<>>]
  /\ UNCHANGED <<path, used, wrote, up, pc, info, tail, mem, disk, emitted, inflight, delivered, raced>>

-----------------------------------------------------------------------------
(* The agent's life.                                                       *)

\* registry.Open, then Run.
Start ==
  /\ ~up
  /\ up' = TRUE
  /\ mem' = disk
  /\ UNCHANGED <<path, data, used, wrote, pc, info, tail, disk, emitted, inflight, delivered, raced, left>>

Down == up' = FALSE /\ pc' = "idle" /\ tail' = None

\* Everything in memory is lost.
Crash ==
  /\ up /\ Spend("crash")
  /\ Down
  /\ inflight' = {}
  /\ UNCHANGED <<path, data, used, wrote, info, mem, disk, emitted, delivered, raced>>

\* The end of the next whole line in the open file, 0 if there is none.
LineEnd ==
  LET ends == {k \in (tail.pos + 1)..Size(tail.fh) : EndsLine(data[tail.fh][k])}
  IN  IF ends = {} THEN 0 ELSE CHOOSE k \in ends : \A j \in ends : k <= j

\* The context is cancelled: between two polls, or while a line waits for room in
\* the channel, where read returns before reg.Set.  closeAll flushes the registry;
\* consumers and Close then drain the pipeline.
Stop ==
  /\ up /\ Spend("stop")
  /\ pc = "idle" \/ (pc = "read" /\ LineEnd > 0)
  /\ Down
  /\ disk' = mem
  /\ inflight' = {} /\ delivered' = delivered \cup inflight
  /\ UNCHANGED <<path, data, used, wrote, info, mem, emitted, raced>>

\* flushLoop; what Flush itself can do wrong is the subject of Registry.
Flush ==
  /\ up /\ disk # mem
  /\ disk' = mem
  /\ UNCHANGED <<path, data, used, wrote, up, pc, info, tail, mem, emitted, inflight, delivered, raced, left>>

\* The pipeline posts a line.
Ship(l) ==
  /\ up /\ l \in inflight
  /\ inflight' = inflight \ {l}
  /\ delivered' = delivered \cup {l}
  /\ UNCHANGED <<path, data, used, wrote, up, pc, info, tail, mem, disk, emitted, raced, left>>

-----------------------------------------------------------------------------
(* discover and open.                                                      *)

StatPath == info' = [ino |-> path, size |-> Size(path)]

Discover ==
  /\ up /\ pc = "idle" /\ tail = None
  /\ path # None
  /\ StatPath
  /\ pc' = "open"
  /\ UNCHANGED <<path, data, used, wrote, up, tail, mem, disk, emitted, inflight, delivered, raced, left>>

ResumeAtEnd == info.size
\* open: the saved offset if the inode matches and the file is long enough, else the
\* end, or the beginning with from_beginning.
ResumePoint ==
  IF mem # None /\ mem.ino = info.ino /\ mem.offset <= info.size THEN mem.offset
  ELSE IF FromBeginning THEN 0 ELSE info.size

OpenSucceeds == path # None

Open ==
  /\ pc = "open"
  /\ pc' = "idle"
  /\ \/ path = None /\ UNCHANGED <<tail, mem>>
     \/ /\ OpenSucceeds
        /\ tail' = [ino |-> info.ino, fh |-> path, pos |-> ResumePoint,
                    offset |-> ResumePoint, partial |-> <<>>]
        /\ mem' = [ino |-> info.ino, offset |-> ResumePoint]
  /\ UNCHANGED <<path, data, used, wrote, up, info, disk, emitted, inflight, delivered, raced, left>>

-----------------------------------------------------------------------------
(* read, on each poll.                                                     *)

Rotated == path # tail.ino
ShrunkOrEqual == Size(path) <= tail.offset
Shrunk == Size(path) < tail.offset

AtStart(partial) == [tail EXCEPT !.pos = 0, !.offset = 0, !.partial = partial]
Rewound == AtStart(<<>>)

Poll ==
  /\ up /\ pc = "idle" /\ tail # None
  /\ \/ path = None /\ tail' = None /\ UNCHANGED <<pc, info>>   \* Stat fails: dropped
     \/ /\ path # None
        /\ StatPath
        /\ \/ Rotated /\ pc' = "reopen" /\ UNCHANGED tail
           \/ ~Rotated /\ pc' = "read" /\ tail' = IF Shrunk THEN Rewound ELSE tail
  /\ UNCHANGED <<path, data, used, wrote, up, mem, disk, emitted, inflight, delivered, raced, left>>

KeptPartial == tail.partial
ReopenedPartial == <<>>

Reopen ==
  /\ pc = "reopen"
  /\ \/ path = None /\ tail' = None /\ pc' = "idle"
     \/ /\ path # None
        /\ tail' = [AtStart(ReopenedPartial) EXCEPT !.ino = info.ino, !.fh = path]
        /\ pc' = "read"
  /\ UNCHANGED <<path, data, used, wrote, up, info, mem, disk, emitted, inflight, delivered, raced, left>>

Decode(units) ==
  IF \E l \in Lines : units \in {<< <<l, "whole">> >>, << <<l, "start">>, <<l, "end">> >>}
  THEN units[1][1] ELSE Torn

\* The offset moves by the whole line, the stashed part included.
Committed(line) == tail.offset + Len(line)

\* One turn of the loop: a complete line is committed and emitted.
ReadLine ==
  LET line == tail.partial \o SubSeq(data[tail.fh], tail.pos + 1, LineEnd)
  IN  /\ pc = "read" /\ LineEnd > 0
      /\ tail' = [tail EXCEPT !.pos = LineEnd, !.offset = Committed(line), !.partial = <<>>]
      /\ emitted' = Append(emitted, Decode(line))
      /\ inflight' = inflight \cup ({Decode(line)} \ {Torn})
      /\ UNCHANGED <<path, data, used, wrote, up, pc, info, mem, disk, delivered, raced, left>>

RegisteredPosition(t) == t.pos
Registered(t) == t.offset

\* End of file: stash a partial line, register the committed offset.
ReadEOF ==
  LET rest == SubSeq(data[tail.fh], tail.pos + 1, Size(tail.fh))
  IN  /\ pc = "read" /\ LineEnd = 0
      /\ tail' = [tail EXCEPT !.pos = @ + Len(rest), !.partial = @ \o rest]
      /\ mem' = [ino |-> tail.ino, offset |-> Registered(tail')]
      /\ pc' = "idle"
      /\ UNCHANGED <<path, data, used, wrote, up, info, disk, emitted, inflight, delivered, raced, left>>

\* A read error: the file is dropped until it is rediscovered.
ReadError ==
  /\ pc = "read" /\ Spend("fault")
  /\ tail' = None /\ pc' = "idle"
  /\ UNCHANGED <<path, data, used, wrote, up, info, mem, disk, emitted, inflight, delivered, raced>>

-----------------------------------------------------------------------------
InputStep == Discover \/ Open \/ Poll \/ Reopen \/ ReadLine \/ ReadEOF

Next ==
  \/ \E part \in {"whole", "start"} : WriteLine(part)
  \/ WriteEnd \/ Rotate \/ Truncate
  \/ \E i \in Inodes : Create(i)
  \/ Start \/ Crash \/ Stop \/ Flush
  \/ InputStep \/ ReadError
  \/ \E l \in Lines : Ship(l)

Spec == Init /\ [][Next]_vars

\* The service manager restarts the agent, and the tickers of a running one fire.
FairSpec == Spec /\ WF_vars(Start) /\ WF_vars(InputStep)

-----------------------------------------------------------------------------
(* Properties.                                                             *)

Emitted == {emitted[k] : k \in DOMAIN emitted}
WholeLines(i, offset) ==
  {data[i][k][1] : k \in {j \in 1..Size(i) : j <= offset /\ EndsLine(data[i][j])}}

\* No truncation, or no rotation, has happened yet.
NeverTruncated == left.truncate = MaxTruncations
NeverRotated == left.rotate = MaxRotations

\* Without truncation no record mixes pieces of two lines, however polls interleave
\* with half-written lines, rotations, crashes and restarts.
NoTornRecord == NeverTruncated => Torn \notin Emitted

\* The agent has not been stopped and has met no crash and no read error so far.
OneLife ==
  left.crash = MaxCrashes /\ left.stop = MaxStops /\ left.fault = MaxFaults

\* Within one life of the agent no line is emitted twice or out of order, across
\* rotations and truncations, whatever was torn or lost in between, provided no
\* rotation falls between a Stat and the Open after it (then a file is read twice).
InOrderOnce ==
  OneLife /\ ~raced => \A j, k \in DOMAIN emitted :
    j < k /\ Torn \notin {emitted[j], emitted[k]} => emitted[j] < emitted[k]

\* Until a truncation, no checkpoint of the file at the path, in memory or on disk, covers
\* a line that was not emitted: a restart resumes at or before the first line the pipeline
\* does not have.
CheckpointCovered ==
  NeverTruncated =>
    \A c \in {mem, disk} \ {None} :
      c.ino = path => WholeLines(c.ino, c.offset) \subseteq Emitted

\* The committed offset is the reader's position less the stashed partial line, on a
\* line boundary of the open file, until a truncation is noticed.
OffsetOnBoundary ==
  tail # None /\ NeverTruncated /\ tail.ino = tail.fh =>
    /\ tail.pos = tail.offset + Len(tail.partial)
    /\ tail.offset > 0 => EndsLine(data[tail.fh][tail.offset])

\* Every complete line is eventually emitted unless the file is rotated or truncated,
\* through crashes, restarts and read errors.
LinesAreEmitted ==
  \A l \in Lines :
    wrote > l \/ (wrote = l /\ ~MidLine) ~>
      l \in Emitted \/ ~NeverRotated \/ ~NeverTruncated

\* "File offsets are checkpointed so restarts don't duplicate or drop": while the agent
\* is down, what the saved offset covers has been delivered.
RestartDoesNotDrop ==
  ~up /\ disk # None => WholeLines(disk.ino, disk.offset) \subseteq delivered
=============================================================================
