------------------------------ MODULE Registry ------------------------------
(***************************************************************************)
(* The agent's offset registry (apps/agent/internal/registry/registry.go): *)
(* a map in memory, a dirty flag, and Flush, which takes a snapshot under  *)
(* the lock and then, outside it, writes a temporary file and renames it   *)
(* over the registry file.  Three kinds of goroutines call it, and may do  *)
(* so at once: the flush loop at its ticks, a file input when it stops, and *)
(* Run at its end, after all the others (agent.go, file.go).               *)
(*                                                                         *)
(* The contents of the map are named by a version that every effective Set *)
(* increases.  Files are inodes with two possible names; a file that was   *)
(* created or truncated but not written is Empty, one whose bytes come     *)
(* from two snapshots is Mixed, and neither is the JSON of a snapshot.     *)
(*                                                                         *)
(* Where two definitions of one thing stand together, such as              *)
(* LoadedNothing and Loaded,                                               *)
(* the first is a plausible slip that no specification uses: it is put in  *)
(* the place of the second to see that a property notices.                 *)
(***************************************************************************)
EXTENDS Integers

CONSTANTS
  Inputs,     \* the file inputs of the agent
  FlushLoop,  \* the goroutine of flushLoop
  RunEnd,     \* the goroutine of Run
  Inodes,     \* inodes of the file system
  MaxSets,    \* bound on effective Sets
  None        \* "no file"

ASSUME RegistryAssumption ==
  /\ MaxSets \in Nat
  /\ None \notin Inodes
  /\ FlushLoop # RunEnd /\ {FlushLoop, RunEnd} \cap Inputs = {}

Flushers == Inputs \cup {FlushLoop, RunEnd}

VARIABLES
  stage,    \* "running"; "stopping" with the context cancelled; "final" when only Run
            \* is left; "down"
  tailing,  \* inputs that have not come to their closeAll
  mem,      \* version of r.state
  dirty,    \* r.dirty
  pc,       \* pc[f]: what flusher f does next
  snap,     \* snap[f]: version in f's snapshot
  fd,       \* fd[f]: inode f has open for writing, or None
  content,  \* content[i]: Free, Empty, Mixed or a version
  tmpName,  \* inode named path.tmp, or None
  name,     \* inode named path, or None
  alone,    \* history: the flush in progress, or the last one, overlapped no other
  trusted,  \* history: no overlapped flush came to its rename since one that was alone did
  failed    \* history: the last flush to end failed

agent == <<stage, tailing, mem, dirty>>
fs == <<content, tmpName, name>>
history == <<alone, trusted, failed>>
vars == <<agent, pc, snap, fd, fs, history>>

Free == -3
Mixed == -2
Empty == -1
Versions == 0..MaxSets

\* Types, and path and path.tmp never name the same inode.
TypeOK ==
  /\ stage \in {"running", "stopping", "final", "down"}
  /\ tailing \subseteq Inputs
  /\ mem \in Versions
  /\ pc \in [Flushers -> {"idle", "open", "write", "rename"}]
  /\ snap \in [Flushers -> Versions]
  /\ fd \in [Flushers -> Inodes \cup {None}]
  /\ content \in [Inodes -> Versions \cup {Free, Mixed, Empty}]
  /\ {tmpName, name} \subseteq Inodes \cup {None}
  /\ tmpName = name => name = None
  /\ {dirty, alone, trusted, failed} \subseteq BOOLEAN

Init ==
  /\ stage = "running" /\ tailing = Inputs /\ mem = 0 /\ dirty = FALSE
  /\ pc = [f \in Flushers |-> "idle"]
  /\ snap = [f \in Flushers |-> 0]
  /\ fd = [f \in Flushers |-> None]
  /\ content = [i \in Inodes |-> Free]
  /\ tmpName = None /\ name = None
  /\ alone = TRUE /\ trusted = TRUE /\ failed = FALSE

\* The version in the registry file; without a file, the empty map.
Saved == IF name = None THEN 0 ELSE content[name]
Unlinked(i) == i \notin {tmpName, name}
Up == stage # "down"
AllIdle == \A f \in Flushers : pc[f] = "idle"

-----------------------------------------------------------------------------
(* The life of the agent around the registry.                              *)

\* An input records an offset when it opens a file or has read from it.
Set ==
  /\ Up /\ tailing # {}
  /\ mem < MaxSets
  /\ mem' = mem + 1
  /\ dirty' = TRUE
  /\ UNCHANGED <<stage, tailing, pc, snap, fd, fs, history>>

\* The context of Run is cancelled; every input will find out in its own time.
Cancel ==
  /\ stage = "running"
  /\ stage' = "stopping"
  /\ UNCHANGED <<tailing, mem, dirty, pc, snap, fd, fs, history>>

\* The inputs have returned, and the flush loop has been stopped and waited for.
OthersDone ==
  /\ stage = "stopping" /\ tailing = {} /\ AllIdle
  /\ stage' = "final"
  /\ UNCHANGED <<tailing, mem, dirty, pc, snap, fd, fs, history>>

\* Run returns after its Flush, which has nothing to do when the map is clean.
Exit ==
  /\ stage = "final" /\ AllIdle /\ ~dirty
  /\ stage' = "down"
  /\ UNCHANGED <<tailing, mem, dirty, pc, snap, fd, fs, history>>

Crash ==
  /\ Up
  /\ stage' = "down"
  /\ pc' = [f \in Flushers |-> "idle"]
  /\ fd' = [f \in Flushers |-> None]
  /\ UNCHANGED <<tailing, mem, dirty, snap, fs, history>>

LoadedNothing == 0
Loaded == IF Saved = Empty THEN 0 ELSE Saved

\* Open takes an empty file for an empty map; bytes that are not the JSON of a
\* snapshot keep the agent from starting.
Restart ==
  /\ ~Up /\ Saved # Mixed
  /\ stage' = "running"
  /\ tailing' = Inputs
  /\ mem' = Loaded
  /\ dirty' = FALSE
  /\ failed' = FALSE
  /\ UNCHANGED <<pc, snap, fd, fs, alone, trusted>>

-----------------------------------------------------------------------------
(* Flush.                                                                  *)

\* The flush loop at a tick, an input in its closeAll, Run when all others are done.
CallsFlush(f) ==
  \/ f = FlushLoop /\ stage \in {"running", "stopping"}
  \/ f \in tailing /\ stage = "stopping"
  \/ f = RunEnd /\ stage = "final"

\* The critical section of Flush.
FlushSnapshot(f) ==
  /\ CallsFlush(f) /\ pc[f] = "idle"
  /\ dirty
  /\ snap' = [snap EXCEPT ![f] = mem]
  /\ dirty' = FALSE
  /\ pc' = [pc EXCEPT ![f] = "open"]
  /\ tailing' = tailing \ {f}
  /\ alone' = AllIdle
  /\ UNCHANGED <<stage, mem, fd, fs, trusted, failed>>

\* A clean registry is not written.
FlushNothing(f) ==
  /\ CallsFlush(f) /\ pc[f] = "idle"
  /\ ~dirty
  /\ tailing' = tailing \ {f}
  /\ UNCHANGED <<stage, mem, dirty, pc, snap, fd, fs, history>>

\* WriteFile opens path.tmp with O_CREATE and O_TRUNC: an existing file is emptied.
FlushOpen(f) ==
  /\ pc[f] = "open"
  /\ \E i \in Inodes :
       /\ IF tmpName = None
            THEN content[i] = Free /\ \A g \in Flushers : fd[g] # i
            ELSE i = tmpName
       /\ tmpName' = i
       /\ fd' = [fd EXCEPT ![f] = i]
       /\ content' = [content EXCEPT ![i] = Empty]
  /\ pc' = [pc EXCEPT ![f] = "write"]
  /\ UNCHANGED <<agent, snap, name, history>>

\* The write at offset 0; over other bytes it may leave some of them behind.
FlushWrite(f) ==
  /\ pc[f] = "write"
  /\ \E c \in {snap[f], Mixed} :
       /\ c = Mixed => content[fd[f]] # Empty
       /\ content' = [content EXCEPT ![fd[f]] = IF Unlinked(fd[f]) THEN Free ELSE c]
  /\ fd' = [fd EXCEPT ![f] = None]
  /\ pc' = [pc EXCEPT ![f] = "rename"]
  /\ UNCHANGED <<agent, snap, tmpName, name, history>>

RenameOver ==
  /\ name' = tmpName
  /\ tmpName' = None
  /\ content' = IF name = None THEN content ELSE [content EXCEPT ![name] = Free]

ClearedAfterFlush == FALSE
\* Only the critical section at the start of Flush touches the flag.
DirtyAfterFlush == dirty

\* Rename fails when another flusher has renamed the same temporary file already.
FlushRename(f) ==
  /\ pc[f] = "rename"
  /\ IF tmpName = None THEN UNCHANGED fs ELSE RenameOver
  /\ pc' = [pc EXCEPT ![f] = "idle"]
  /\ dirty' = DirtyAfterFlush
  /\ trusted' = alone
  /\ failed' = (tmpName = None)
  /\ UNCHANGED <<stage, tailing, mem, snap, fd, alone>>

ErrorIgnored == "rename"
AfterFlushError == "idle"

\* MkdirAll, the open, the write (halfway) or the rename fails; dirty stays cleared.
FlushError(f) ==
  /\ pc[f] # "idle"
  /\ pc' = [pc EXCEPT ![f] = AfterFlushError]
  /\ fd' = [fd EXCEPT ![f] = None]
  /\ content' = [i \in Inodes |-> IF i = fd[f] /\ ~Unlinked(i) THEN Mixed ELSE content[i]]
  /\ failed' = TRUE
  /\ UNCHANGED <<agent, snap, tmpName, name, alone, trusted>>

FlushStep(f) ==
  \/ FlushSnapshot(f) \/ FlushNothing(f) \/ FlushOpen(f)
  \/ FlushWrite(f) \/ FlushRename(f) \/ FlushError(f)

Next ==
  \/ Set \/ Cancel \/ OthersDone \/ Exit \/ Crash \/ Restart
  \/ \E f \in Flushers : FlushStep(f)

Spec == Init /\ [][Next]_vars

-----------------------------------------------------------------------------
(* Properties.                                                             *)

\* The registry file holds a whole snapshot whenever the agent crashes or a write
\* fails, and while flushes overlap up to the first rename among them.  What overlapping
\* flushes leave at the path or in path.tmp, the next flush that is alone puts right.
SavedIsWhole == trusted => Saved >= 0

\* What is saved goes back to an older snapshot only by a flush that overlapped another:
\* not by a crash, a restart, a failed write, nor by a flush that is alone, whatever
\* overlapping ones left behind.
SavedNeverRegresses == [][trusted' => Saved' >= Saved]_vars

\* Between flushes, and so when Run returns, a clean registry is a saved one, unless the
\* last flush failed or overlapped another: a Set during the write of a snapshot is not
\* taken for saved, and an earlier failure is made good.
CleanMeansSaved ==
  Up /\ ~dirty /\ AllIdle /\ trusted /\ ~failed => Saved = mem
=============================================================================
