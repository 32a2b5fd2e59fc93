---------------------------- MODULE RegistryProofs ----------------------------
(***************************************************************************)
(* Proofs about the offset registry, for any number of inputs, Sets,       *)
(* crashes, failed writes and inodes, with flushes overlapping as they     *)
(* will: the types, and what a flush that is alone guarantees.             *)
(***************************************************************************)
EXTENDS Registry, TLAPS

USE DEF Free, Mixed, Empty, Versions

\* A flusher has a file open between its open and its write, and a file that has a name
\* is in use.
FilesInv ==
  /\ \A f \in Flushers : pc[f] = "write" <=> fd[f] # None
  /\ tmpName # None => content[tmpName] # Free
  /\ name # None => content[name] # Free

TypeInv == TypeOK /\ FilesInv

\* The steps of the agent's life, which leave the files and the flushers alone.
Quiet ==
  \/ Set \/ Cancel \/ OthersDone \/ Exit
  \/ \E f \in Flushers : FlushNothing(f)
  \/ UNCHANGED vars

\* The start is typed.
LEMMA TypeInit == Init => TypeInv
<1>1. 0 \in 0..MaxSets
  BY RegistryAssumption
<1> QED
  BY <1>1, RegistryAssumption DEF Init, TypeOK, FilesInv, TypeInv

\* What quiet steps change: only a Set makes the map newer, and dirty.
LEMMA QuietSteps ==
  ASSUME Quiet
  PROVE  /\ UNCHANGED <<pc, snap, fd, content, tmpName, name, alone, trusted, failed>>
         /\ Up => UNCHANGED <<mem, dirty>> \/ (mem < MaxSets /\ mem' = mem + 1 /\ dirty' = TRUE)
         /\ ~Up => UNCHANGED <<mem, dirty>>
         /\ Up' => Up
         /\ tailing' \subseteq tailing
         /\ stage' \in {stage, "running", "stopping", "final", "down"}
  BY DEF Quiet, Set, Cancel, OthersDone, Exit, FlushNothing, vars, agent, fs, history, Up

\* Every step of Flush keeps the types, whoever else is flushing.
LEMMA TypeFlush == ASSUME TypeInv, NEW f \in Flushers, FlushStep(f) PROVE TypeInv'
<1> USE DEF TypeInv, TypeOK, FilesInv
<1>1. CASE FlushSnapshot(f)
  <2>1. alone' \in BOOLEAN
    BY <1>1 DEF FlushSnapshot, AllIdle
  <2>2. snap' \in [Flushers -> 0..MaxSets] /\ pc' \in [Flushers -> {"idle", "open", "write", "rename"}]
    BY <1>1 DEF FlushSnapshot
  <2>3. \A g \in Flushers : pc'[g] = "write" <=> fd'[g] # None
    BY <1>1 DEF FlushSnapshot
  <2> QED
    BY <1>1, <2>1, <2>2, <2>3 DEF FlushSnapshot, fs
<1>2. CASE FlushOpen(f)
  <2>1. PICK i \in Inodes :
          /\ IF tmpName = None
               THEN content[i] = Free /\ \A g \in Flushers : fd[g] # i
               ELSE i = tmpName
          /\ tmpName' = i /\ fd' = [fd EXCEPT ![f] = i]
          /\ content' = [content EXCEPT ![i] = Empty]
    BY <1>2 DEF FlushOpen
  <2>2. /\ UNCHANGED <<stage, tailing, mem, dirty, snap, name, alone, trusted, failed>>
        /\ pc' = [pc EXCEPT ![f] = "write"]
    BY <1>2 DEF FlushOpen, agent, history
  <2>3. i # name
    BY <2>1, RegistryAssumption
  <2> QED
    BY <2>1, <2>2, <2>3, RegistryAssumption
<1>3. CASE FlushWrite(f)
  <2>1. PICK c \in {snap[f], Mixed} :
          content' = [content EXCEPT ![fd[f]] = IF Unlinked(fd[f]) THEN Free ELSE c]
    BY <1>3 DEF FlushWrite
  <2>2. /\ UNCHANGED <<stage, tailing, mem, dirty, snap, tmpName, name, alone, trusted, failed>>
        /\ pc[f] = "write"
        /\ fd' = [fd EXCEPT ![f] = None] /\ pc' = [pc EXCEPT ![f] = "rename"]
    BY <1>3 DEF FlushWrite, agent, history
  <2>3. fd[f] \in Inodes /\ c \in 0..MaxSets \cup {Mixed} /\ c # Free
    BY <2>2, RegistryAssumption
  <2> QED
    BY <2>1, <2>2, <2>3, RegistryAssumption DEF Unlinked
<1>4. CASE FlushRename(f)
  <2>1. /\ UNCHANGED <<stage, tailing, mem, snap, fd, alone>> /\ dirty' = dirty
        /\ pc[f] = "rename" /\ pc' = [pc EXCEPT ![f] = "idle"]
        /\ trusted' = alone /\ failed' \in BOOLEAN
    BY <1>4 DEF FlushRename, DirtyAfterFlush
  <2>2. CASE tmpName = None
    BY <1>4, <2>1, <2>2 DEF FlushRename, fs
  <2>3. CASE tmpName # None
    <3>1. /\ name' = tmpName /\ tmpName' = None
          /\ content' = IF name = None THEN content ELSE [content EXCEPT ![name] = Free]
      BY <1>4, <2>3 DEF FlushRename, RenameOver
    <3> QED
      BY <2>1, <2>3, <3>1, RegistryAssumption
  <2> QED
    BY <2>2, <2>3
<1>5. CASE FlushError(f)
  <2>1. /\ UNCHANGED <<stage, tailing, mem, dirty, snap, tmpName, name, alone, trusted>>
        /\ failed' = TRUE
        /\ pc' = [pc EXCEPT ![f] = "idle"] /\ fd' = [fd EXCEPT ![f] = None]
        /\ content' = [i \in Inodes |-> IF i = fd[f] /\ ~Unlinked(i) THEN Mixed ELSE content[i]]
    BY <1>5 DEF FlushError, AfterFlushError, agent
  <2> QED
    BY <2>1, RegistryAssumption
<1>6. CASE FlushNothing(f)
  BY <1>6 DEF FlushNothing, fs, history
<1> QED
  BY <1>1, <1>2, <1>3, <1>4, <1>5, <1>6 DEF FlushStep

\* TypeInv is inductive.
LEMMA TypeNext == TypeInv /\ [Next]_vars => TypeInv'
<1> SUFFICES ASSUME TypeInv, [Next]_vars PROVE TypeInv'
  OBVIOUS
<1>1. CASE Quiet
  <2>1. \/ UNCHANGED <<mem, dirty>>
        \/ mem < MaxSets /\ mem' = mem + 1 /\ dirty' = TRUE
    BY <1>1, QuietSteps
  <2>2. mem' \in 0..MaxSets
    BY <2>1, RegistryAssumption DEF TypeInv, TypeOK
  <2>3. dirty' \in BOOLEAN
    BY <2>1 DEF TypeInv, TypeOK
  <2> QED
    BY <1>1, <2>2, <2>3, QuietSteps DEF TypeInv, TypeOK, FilesInv
<1>2. CASE Crash
  <2>1. /\ pc' \in [Flushers -> {"idle", "open", "write", "rename"}]
        /\ fd' \in [Flushers -> Inodes \cup {None}]
        /\ \A f \in Flushers : pc'[f] = "idle" /\ fd'[f] = None
    BY <1>2 DEF Crash
  <2>2. UNCHANGED <<tailing, mem, dirty, snap, content, tmpName, name, alone, trusted, failed>>
        /\ stage' = "down"
    BY <1>2 DEF Crash, fs, history
  <2> QED
    BY <2>1, <2>2 DEF TypeInv, TypeOK, FilesInv
<1>3. CASE Restart
  <2>1. Loaded \in 0..MaxSets
    BY <1>3, RegistryAssumption DEF Restart, Loaded, Saved, TypeInv, TypeOK, FilesInv
  <2> QED
    BY <1>3, <2>1 DEF Restart, fs, TypeInv, TypeOK, FilesInv
<1> QED
  BY <1>1, <1>2, <1>3, TypeFlush DEF Next, Quiet

\* TypeInv holds at all times.
LEMMA TypeInvariant == Spec => []TypeInv
  BY TypeInit, TypeNext, PTL DEF Spec

\* Type correctness; the registry file and the temporary one are never the same inode.
THEOREM TypeCorrect == Spec => []TypeOK
<1>1. TypeInv => TypeOK
  BY DEF TypeInv
<1> QED
  BY <1>1, TypeInvariant, PTL

-----------------------------------------------------------------------------
(* What flushes do to the file, alone and overlapping.                     *)

\* Nothing that is or will be saved is newer than the map.  Only the temporary file that
\* a former life of the agent left may be, until somebody opens it.
NoneIsNewer ==
  /\ Up => Saved <= mem
  /\ \A f \in Flushers :
       /\ pc[f] # "idle" => Up /\ snap[f] <= mem
       /\ fd[f] # None => content[fd[f]] <= mem
       /\ pc[f] \in {"write", "rename"} /\ tmpName # None => content[tmpName] <= mem

\* A flush that is alone owns the temporary file, which is empty before its write and
\* its snapshot after; and that is no older than what is saved.
AloneOwnsTmp ==
  \A f \in Flushers :
    alone /\ pc[f] # "idle" =>
      /\ \A g \in Flushers : g # f => pc[g] = "idle"
      /\ pc[f] = "write" => fd[f] = tmpName /\ content[tmpName] = Empty
      /\ pc[f] = "rename" => tmpName # None /\ content[tmpName] = snap[f]
      /\ Saved <= snap[f]

\* A file that a flush put in place alone is whole, and nobody has it open.
TrustedIsWhole ==
  trusted =>
    /\ Saved \in 0..MaxSets
    /\ \A f \in Flushers : fd[f] # None => fd[f] # name

\* A clean map is saved, or in the snapshot of the one flush in progress.
CleanIsSafe ==
  Up /\ ~dirty =>
    /\ AllIdle /\ trusted /\ ~failed => Saved = mem
    /\ alone => \A f \in Flushers : pc[f] # "idle" => snap[f] = mem

FlushInv ==
  /\ TypeInv
  /\ NoneIsNewer
  /\ AloneOwnsTmp
  /\ TrustedIsWhole
  /\ CleanIsSafe

\* What a step must show: the invariant, and what is saved no older if it is trusted.
Kept == FlushInv' /\ (trusted' => Saved' >= Saved)

\* The start: no file, an empty map.
LEMMA FlushInvInit == Init => FlushInv
<1> SUFFICES ASSUME Init PROVE FlushInv
  OBVIOUS
<1>1. TypeInv
  BY TypeInit
<1>2. Saved = 0
  BY DEF Init, Saved
<1> QED
  BY <1>1, <1>2, RegistryAssumption
  DEF Init, FlushInv, NoneIsNewer, AloneOwnsTmp, TrustedIsWhole, CleanIsSafe, Up

\* What the types say, in the form the steps below use.
LEMMA Typed ==
  ASSUME TypeInv
  PROVE  /\ mem \in 0..MaxSets /\ MaxSets \in Nat /\ mem \in Int
         /\ pc \in [Flushers -> {"idle", "open", "write", "rename"}]
         /\ fd \in [Flushers -> Inodes \cup {None}] /\ snap \in [Flushers -> 0..MaxSets]
         /\ content \in [Inodes -> 0..MaxSets \cup {Free, Mixed, Empty}]
         /\ name \in Inodes \cup {None} /\ tmpName \in Inodes \cup {None}
         /\ tmpName = name => name = None
         /\ dirty \in BOOLEAN /\ alone \in BOOLEAN /\ trusted \in BOOLEAN /\ failed \in BOOLEAN
         /\ \A f \in Flushers : pc[f] = "write" <=> fd[f] # None
         /\ Saved \in 0..MaxSets \cup {Free, Mixed, Empty} /\ Saved \in Int
  BY RegistryAssumption DEF TypeInv, TypeOK, FilesInv, Saved

\* Quiet steps only make the map newer, and then dirty.
LEMMA FlushInvQuiet == ASSUME FlushInv, Quiet PROVE Kept
<1> USE DEF FlushInv
<1>1. TypeInv'
  BY TypeNext DEF Quiet, Next, FlushStep
<1>2. /\ UNCHANGED <<pc, snap, fd, content, tmpName, name, alone, trusted, failed>>
      /\ Up => UNCHANGED <<mem, dirty>> \/ (mem' = mem + 1 /\ dirty' = TRUE)
      /\ ~Up => UNCHANGED <<mem, dirty>>
      /\ Up' => Up
      /\ Saved' = Saved /\ AllIdle' = AllIdle
  BY QuietSteps DEF Saved, AllIdle
<1>3. Up => Up' \/ AllIdle
  BY DEF Quiet, Set, Cancel, OthersDone, Exit, FlushNothing, CallsFlush, vars, agent, Up
<1>4. mem' >= mem /\ mem' \in Int
  BY <1>2, Typed
<1>5. NoneIsNewer'
  BY <1>2, <1>3, <1>4, Typed DEF NoneIsNewer, AllIdle
<1>6. AloneOwnsTmp' /\ TrustedIsWhole'
  BY <1>2 DEF AloneOwnsTmp, TrustedIsWhole
<1>7. CleanIsSafe'
  BY <1>2 DEF CleanIsSafe
<1> QED
  BY <1>1, <1>2, <1>5, <1>6, <1>7, Typed DEF Kept

\* A crash closes every file, and a restart takes what is saved for the map.
LEMMA FlushInvLife == ASSUME FlushInv, Crash \/ Restart PROVE Kept
<1> USE DEF FlushInv
<1>1. TypeInv'
  BY TypeNext DEF Next
<1>2. Saved' = Saved /\ UNCHANGED <<content, tmpName, name, alone, trusted>>
  BY DEF Crash, Restart, fs, history, Saved
<1>3. CASE Crash
  <2>1. ~Up' /\ \A f \in Flushers : pc'[f] = "idle" /\ fd'[f] = None
    BY <1>3 DEF Crash, Up
  <2> QED
    BY <1>1, <1>2, <2>1, Typed
    DEF Kept, NoneIsNewer, AloneOwnsTmp, TrustedIsWhole, CleanIsSafe
<1>4. CASE Restart
  <2>1. UNCHANGED <<pc, snap, fd>> /\ \A f \in Flushers : pc[f] = "idle"
    BY <1>4 DEF Restart, NoneIsNewer
  <2>2. mem' >= Saved /\ (trusted => mem' = Saved)
    BY <1>4, Typed DEF Restart, Loaded, TrustedIsWhole
  <2>3. \A f \in Flushers : fd[f] = None
    BY <2>1, Typed
  <2>4. NoneIsNewer' /\ AloneOwnsTmp' /\ TrustedIsWhole'
    BY <1>2, <2>1, <2>2, <2>3, Typed DEF NoneIsNewer, AloneOwnsTmp, TrustedIsWhole
  <2>5. CleanIsSafe'
    BY <1>2, <2>1, <2>2 DEF CleanIsSafe, TrustedIsWhole
  <2> QED
    BY <1>1, <1>2, <2>4, <2>5, Typed DEF Kept
<1> QED
  BY <1>3, <1>4

\* A snapshot is of the map as it is; it is alone if nobody else is flushing.
LEMMA FlushInvSnapshot == ASSUME FlushInv, NEW f \in Flushers, FlushSnapshot(f) PROVE Kept
<1> USE DEF FlushInv
<1>1. TypeInv'
  BY TypeNext DEF Next, FlushStep
<1>2. /\ Saved' = Saved /\ UNCHANGED <<mem, fd, content, tmpName, name, trusted, failed>>
      /\ snap' = [snap EXCEPT ![f] = mem] /\ pc' = [pc EXCEPT ![f] = "open"]
      /\ alone' = AllIdle /\ Up /\ Up' /\ pc[f] = "idle"
  BY DEF FlushSnapshot, fs, Saved, CallsFlush, Up, Flushers
<1>3. /\ pc'[f] = "open" /\ snap'[f] = mem
      /\ \A g \in Flushers \ {f} : pc'[g] = pc[g] /\ snap'[g] = snap[g]
  BY <1>2, Typed
<1>4. NoneIsNewer'
  BY <1>2, <1>3, Typed DEF NoneIsNewer
<1>5. AloneOwnsTmp'
  BY <1>2, <1>3, Typed DEF AloneOwnsTmp, NoneIsNewer, AllIdle
<1>6. TrustedIsWhole'
  BY <1>2 DEF TrustedIsWhole
<1>7. CleanIsSafe'
  BY <1>2, <1>3 DEF CleanIsSafe, AllIdle
<1> QED
  BY <1>1, <1>2, <1>4, <1>5, <1>6, <1>7, Typed DEF Kept

\* Opening empties the temporary file, or makes one; the file in place is another.
LEMMA FlushInvOpen == ASSUME FlushInv, NEW f \in Flushers, FlushOpen(f) PROVE Kept
<1> USE DEF FlushInv
<1>1. TypeInv'
  BY TypeNext DEF Next, FlushStep
<1>2. PICK i \in Inodes :
        /\ IF tmpName = None THEN content[i] = Free ELSE i = tmpName
        /\ tmpName' = i /\ fd' = [fd EXCEPT ![f] = i]
        /\ content' = [content EXCEPT ![i] = Empty]
  BY DEF FlushOpen
<1>3. /\ UNCHANGED <<stage, mem, dirty, snap, name, alone, trusted, failed>>
      /\ pc[f] = "open" /\ pc' = [pc EXCEPT ![f] = "write"]
  BY DEF FlushOpen, agent, history
<1>4. i # name
  BY <1>2, Typed, RegistryAssumption DEF TypeInv, FilesInv
<1>5. Saved' = Saved
  BY <1>2, <1>3, <1>4, Typed DEF Saved
<1>6. /\ pc'[f] = "write" /\ fd'[f] = i /\ content'[i] = Empty
      /\ \A g \in Flushers \ {f} : pc'[g] = pc[g] /\ fd'[g] = fd[g]
      /\ \A j \in Inodes \ {i} : content'[j] = content[j]
      /\ Up' = Up
  BY <1>2, <1>3, Typed DEF Up
<1>7. NoneIsNewer'
  BY <1>2, <1>3, <1>5, <1>6, Typed DEF NoneIsNewer
<1>8. AloneOwnsTmp'
  BY <1>2, <1>3, <1>5, <1>6, Typed DEF AloneOwnsTmp
<1>9. TrustedIsWhole'
  BY <1>2, <1>3, <1>4, <1>5, <1>6 DEF TrustedIsWhole
<1>10. CleanIsSafe'
  BY <1>3, <1>5, <1>6 DEF CleanIsSafe, AllIdle
<1> QED
  BY <1>1, <1>3, <1>5, <1>7, <1>8, <1>9, <1>10, Typed DEF Kept

\* A write goes to the file in place only when that is no longer trusted.
LEMMA FlushInvWrite == ASSUME FlushInv, NEW f \in Flushers, FlushWrite(f) PROVE Kept
<1> USE DEF FlushInv
<1>1. TypeInv'
  BY TypeNext DEF Next, FlushStep
<1>2. PICK c \in {snap[f], Mixed} :
        /\ c = Mixed => content[fd[f]] # Empty
        /\ content' = [content EXCEPT ![fd[f]] = IF Unlinked(fd[f]) THEN Free ELSE c]
  BY DEF FlushWrite
<1>3. /\ UNCHANGED <<stage, mem, dirty, snap, tmpName, name, alone, trusted, failed>>
      /\ pc[f] = "write"
      /\ fd' = [fd EXCEPT ![f] = None] /\ pc' = [pc EXCEPT ![f] = "rename"]
  BY DEF FlushWrite, agent, history
<1>4. fd[f] \in Inodes /\ snap[f] <= mem /\ Up
  BY <1>3, Typed DEF NoneIsNewer
<1>5. /\ pc'[f] = "rename" /\ fd'[f] = None
      /\ content'[fd[f]] \in {Free, snap[f], Mixed}
      /\ \A g \in Flushers \ {f} : pc'[g] = pc[g] /\ fd'[g] = fd[g]
      /\ \A j \in Inodes \ {fd[f]} : content'[j] = content[j]
      /\ Up' = Up
  BY <1>2, <1>3, <1>4, Typed DEF Up
<1>6. content'[fd[f]] <= mem
  BY <1>4, <1>5, Typed
<1>7. NoneIsNewer'
  BY <1>3, <1>4, <1>5, <1>6, Typed DEF NoneIsNewer, Saved
<1>8. fd[f] # name => Saved' = Saved
  BY <1>3, <1>4, <1>5, Typed DEF Saved
<1>9. AloneOwnsTmp'
  <2> SUFFICES ASSUME NEW g \in Flushers, alone, pc'[g] # "idle"
               PROVE  /\ \A h \in Flushers : h # g => pc'[h] = "idle"
                      /\ pc'[g] = "write" => fd'[g] = tmpName /\ content'[tmpName] = Empty
                      /\ pc'[g] = "rename" => tmpName # None /\ content'[tmpName] = snap[g]
                      /\ Saved' <= snap[g]
    BY <1>3 DEF AloneOwnsTmp
  <2>1. g = f
    BY <1>3, <1>5 DEF AloneOwnsTmp
  <2>2. fd[f] = tmpName /\ content[tmpName] = Empty /\ Saved <= snap[f]
    BY <1>3 DEF AloneOwnsTmp
  <2>3. fd[f] # name
    BY <2>2, <1>4, Typed, RegistryAssumption
  <2>4. content'[tmpName] = snap[f]
    BY <2>2, <1>2, <1>4, Typed DEF Unlinked
  <2> QED
    BY <2>1, <2>2, <2>3, <2>4, <1>3, <1>4, <1>5, <1>8, RegistryAssumption DEF AloneOwnsTmp
<1>10. trusted => Saved' = Saved
  BY <1>4, <1>8, RegistryAssumption DEF TrustedIsWhole
<1>11. TrustedIsWhole'
  BY <1>3, <1>5, <1>10 DEF TrustedIsWhole
<1>12. CleanIsSafe'
  BY <1>3, <1>5, <1>10 DEF CleanIsSafe, AllIdle
<1> QED
  BY <1>1, <1>3, <1>7, <1>9, <1>10, <1>11, <1>12, Typed DEF Kept

\* A rename alone puts the newest snapshot in place; any other loses the trust.
LEMMA FlushInvRename == ASSUME FlushInv, NEW f \in Flushers, FlushRename(f) PROVE Kept
<1> USE DEF FlushInv
<1>1. TypeInv'
  BY TypeNext DEF Next, FlushStep
<1>2. /\ UNCHANGED <<stage, mem, snap, fd, alone>> /\ dirty' = dirty
      /\ pc[f] = "rename" /\ pc' = [pc EXCEPT ![f] = "idle"]
      /\ trusted' = alone /\ failed' = (tmpName = None)
  BY DEF FlushRename, DirtyAfterFlush
<1>3. /\ pc'[f] = "idle" /\ Up /\ Up' = Up
      /\ \A g \in Flushers \ {f} : pc'[g] = pc[g]
  BY <1>2, Typed DEF Up, NoneIsNewer
<1>4. CASE tmpName = None
  <2>1. UNCHANGED <<content, tmpName, name>> /\ Saved' = Saved /\ ~alone
    BY <1>2, <1>4 DEF FlushRename, fs, Saved, AloneOwnsTmp
  <2>2. NoneIsNewer'
    BY <1>2, <1>3, <2>1 DEF NoneIsNewer
  <2>3. AloneOwnsTmp' /\ TrustedIsWhole' /\ CleanIsSafe'
    BY <1>2, <2>1 DEF AloneOwnsTmp, TrustedIsWhole, CleanIsSafe
  <2> QED
    BY <1>1, <1>2, <2>1, <2>2, <2>3 DEF Kept
<1>5. CASE tmpName # None
  <2>1. /\ name' = tmpName /\ tmpName' = None /\ tmpName \in Inodes
        /\ content' = IF name = None THEN content ELSE [content EXCEPT ![name] = Free]
    BY <1>5, Typed DEF FlushRename, RenameOver
  <2>2. /\ Saved' = content[tmpName] /\ content[tmpName] <= mem
        /\ \A j \in Inodes : content'[j] = content[j] \/ content'[j] = Free
    BY <1>2, <1>5, <2>1, Typed, RegistryAssumption DEF Saved, NoneIsNewer
  <2>3. NoneIsNewer'
    BY <1>2, <1>3, <2>1, <2>2, Typed DEF NoneIsNewer
  <2>4. ASSUME alone
        PROVE  /\ Saved' = snap[f] /\ Saved <= snap[f]
               /\ \A g \in Flushers : pc'[g] = "idle" /\ fd[g] = None
    <3>1. \A g \in Flushers : pc'[g] = "idle"
      BY <1>2, <1>3, <2>4 DEF AloneOwnsTmp
    <3>2. \A g \in Flushers : fd[g] = None
      BY <1>2, <1>3, <3>1, Typed
    <3> QED
      BY <1>2, <2>2, <2>4, <3>1, <3>2 DEF AloneOwnsTmp
  <2>5. AloneOwnsTmp'
    BY <1>2, <2>4 DEF AloneOwnsTmp
  <2>6. TrustedIsWhole'
    BY <1>2, <2>4, Typed DEF TrustedIsWhole
  <2>7. alone /\ ~dirty => snap[f] = mem
    BY <1>2, <1>3 DEF CleanIsSafe
  <2>8. CleanIsSafe'
    BY <1>2, <1>3, <2>4, <2>7 DEF CleanIsSafe, AllIdle
  <2> QED
    BY <1>1, <1>2, <2>3, <2>4, <2>5, <2>6, <2>8 DEF Kept
<1> QED
  BY <1>4, <1>5

\* A failed step leaves at worst a broken temporary file.
LEMMA FlushInvError == ASSUME FlushInv, NEW f \in Flushers, FlushError(f) PROVE Kept
<1> USE DEF FlushInv
<1>1. TypeInv'
  BY TypeNext DEF Next, FlushStep
<1>2. /\ UNCHANGED <<stage, mem, dirty, snap, tmpName, name, alone, trusted>>
      /\ failed' = TRUE
      /\ pc[f] # "idle" /\ pc' = [pc EXCEPT ![f] = "idle"] /\ fd' = [fd EXCEPT ![f] = None]
      /\ content' = [i \in Inodes |-> IF i = fd[f] /\ ~Unlinked(i) THEN Mixed ELSE content[i]]
  BY DEF FlushError, AfterFlushError, agent
<1>3. /\ pc'[f] = "idle" /\ fd'[f] = None /\ Up' = Up
      /\ \A g \in Flushers \ {f} : pc'[g] = pc[g] /\ fd'[g] = fd[g]
      /\ \A j \in Inodes : content'[j] = content[j] \/ (j = fd[f] /\ content'[j] = Mixed)
  BY <1>2, Typed DEF Up
<1>4. \A j \in Inodes : content[j] \in Int /\ (content[j] <= mem => content'[j] <= mem)
  BY <1>3, Typed
<1>5. NoneIsNewer'
  BY <1>2, <1>3, <1>4, Typed DEF NoneIsNewer, Saved
<1>6. AloneOwnsTmp'
  BY <1>2, <1>3 DEF AloneOwnsTmp
<1>7. trusted => Saved' = Saved
  BY <1>2, <1>3, Typed, RegistryAssumption DEF TrustedIsWhole, Saved
<1>8. TrustedIsWhole'
  BY <1>2, <1>3, <1>7 DEF TrustedIsWhole
<1>9. CleanIsSafe'
  <2>1. Up' /\ alone' => \A g \in Flushers : pc'[g] = "idle"
    BY <1>2, <1>3 DEF AloneOwnsTmp
  <2> QED
    BY <1>2, <2>1 DEF CleanIsSafe
<1> QED
  BY <1>1, <1>2, <1>5, <1>6, <1>7, <1>8, <1>9, Typed DEF Kept

\* Every step keeps the invariant, and a trusted file never regresses.
LEMMA FlushInvNext == FlushInv /\ [Next]_vars => Kept
<1> SUFFICES ASSUME FlushInv, [Next]_vars PROVE Kept
  OBVIOUS
<1>1. CASE Quiet
  BY <1>1, FlushInvQuiet
<1>2. CASE Crash \/ Restart
  BY <1>2, FlushInvLife
<1>3. ASSUME NEW f \in Flushers, FlushSnapshot(f) \/ FlushOpen(f) \/ FlushWrite(f)
      PROVE  Kept
  BY <1>3, FlushInvSnapshot, FlushInvOpen, FlushInvWrite
<1>4. ASSUME NEW f \in Flushers, FlushRename(f) \/ FlushError(f) PROVE Kept
  BY <1>4, FlushInvRename, FlushInvError
<1> QED
  BY <1>1, <1>2, <1>3, <1>4 DEF Next, FlushStep, Quiet

\* FlushInv holds at all times.
LEMMA FlushInvariant == Spec => []FlushInv
<1>1. FlushInv /\ [Next]_vars => FlushInv'
  BY FlushInvNext DEF Kept
<1> QED
  BY <1>1, FlushInvInit, PTL DEF Spec

\* Whatever flushes overlap, crash or fail, and whatever they leave behind: the file that
\* a flush put in place alone is a whole snapshot, until overlapping flushes rename.
THEOREM FlushAloneIsWhole == Spec => []SavedIsWhole
<1>1. FlushInv => SavedIsWhole
  BY RegistryAssumption DEF FlushInv, TrustedIsWhole, SavedIsWhole
<1> QED
  BY <1>1, FlushInvariant, PTL

\* Between flushes a clean map is a saved one, if the last flush was alone and succeeded.
THEOREM CleanIsSaved == Spec => []CleanMeansSaved
<1>1. FlushInv => CleanMeansSaved
  BY DEF FlushInv, CleanIsSafe, CleanMeansSaved
<1> QED
  BY <1>1, FlushInvariant, PTL

\* Only overlapping flushes can put an older snapshot in place of a newer one.
THEOREM FlushAloneAdvances == Spec => SavedNeverRegresses
<1>1. FlushInv /\ [Next]_vars => [trusted' => Saved' >= Saved]_vars
  BY FlushInvNext DEF Kept
<1> QED
  BY <1>1, FlushInvariant, PTL DEF Spec, SavedNeverRegresses
=============================================================================
