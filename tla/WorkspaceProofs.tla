-------------------------- MODULE WorkspaceProofs --------------------------
(***************************************************************************)
(* Proofs about the projects and the log views of the web application, for *)
(* any number of projects, filters, requests and mounts of the shell.      *)
(***************************************************************************)
EXTENDS Workspace, FiniteSetTheorems, WellFoundedInduction, TLAPS

-----------------------------------------------------------------------------
(* What a step of the whole does to the projects and to the log views.     *)

\* The actions of the user on the projects that stop when their bound is reached.
ProjectUserStep ==
  \/ Unmount \/ Reload \/ OpenCreate \/ CloseCreate
  \/ \E p \in Projects : SetProject(p) \/ Submit(p)

\* What the projects go through, whatever happens to the log views.
LEMMA ProjectPart ==
  ASSUME [Next]_vars
  PROVE  \/ Mount \/ ProjectUserStep \/ ProjectAnswers \/ ProjectServer \/ OtherTabs
         \/ UNCHANGED projectVars
  BY DEF Next, User, ProjectUser, ProjectUserStep, vars

\* What the log views go through: only answers, effects and the user's events on them.
LEMMA LogsPart ==
  ASSUME [Next]_vars
  PROVE  \/ LogsStart
         \/ ProjectsChange
         \/ LogsUser
         \/ LogsAnswers \/ LoadEffect \/ BoardEffect
         \/ UNCHANGED logsVars
  BY DEF Next, User, Settle, vars

-----------------------------------------------------------------------------
(* One dialog creates one project at a time.                               *)

\* The flag of the dialog stays set as long as its request is out.
CreateInv ==
  /\ creates \subseteq Create /\ submitting \in BOOLEAN /\ reopened \in BOOLEAN
  /\ ~mounted => \A c \in creates : ~c.here
  /\ ~reopened =>
       /\ \A c \in creates : c.here => submitting
       /\ \A c, d \in creates : c.here /\ d.here => c = d

\* CreateInv is inductive: the dialog is submitted only when the flag is down.
LEMMA CreateNext == CreateInv /\ [Next]_vars => CreateInv'
<1> SUFFICES ASSUME CreateInv, [Next]_vars PROVE CreateInv'
  OBVIOUS
<1> USE DEF CreateInv, Create, storage, serverState, shell, lists, dialog
<1>1. CASE Mount
  BY <1>1 DEF Mount
<1>2. CASE Unmount
  <2>1. \A c \in creates : [c EXCEPT !.here = FALSE] \in Create /\ ~[c EXCEPT !.here = FALSE].here
    OBVIOUS
  <2> QED
    BY <1>2, <2>1 DEF Unmount, Abandoned
<1>3. CASE Reload \/ OpenCreate \/ CloseCreate
  BY <1>3 DEF Reload, OpenCreate, CloseCreate
<1>4. ASSUME NEW p \in Projects, SetProject(p) PROVE CreateInv'
  BY <1>4 DEF SetProject
<1>5. ASSUME NEW p \in Projects, Submit(p) PROVE CreateInv'
  <2> DEFINE new == [id |-> p, done |-> FALSE, here |-> TRUE]
  <2>1. new \in Create /\ new.here
    OBVIOUS
  <2>2. /\ mounted /\ ~submitting /\ submitting' = TRUE
        /\ creates' = creates \cup {new}
        /\ UNCHANGED <<mounted, reopened>>
    BY <1>5 DEF Submit, CanSubmit
  <2> HIDE DEF new
  <2>3. ~reopened => \A c \in creates : ~c.here
    BY <2>2
  <2> QED
    BY <2>1, <2>2, <2>3
<1>6. CASE ListArrives \/ ListFails
  BY <1>6 DEF ListArrives, ListFails
<1>7. ASSUME NEW c \in creates, CreateSucceeds(c) PROVE CreateInv'
  BY <1>7 DEF CreateSucceeds
<1>8. ASSUME NEW c \in creates, CreateFails(c) PROVE CreateInv'
  BY <1>8 DEF CreateFails
<1>9. CASE ListIsComputed
  BY <1>9 DEF ListIsComputed
<1>10. ASSUME NEW c \in creates, CreateIsDone(c) PROVE CreateInv'
  BY <1>10 DEF CreateIsDone
<1>11. CASE OtherTabs
  BY <1>11 DEF OtherTabs, CreatedElsewhere, SavedElsewhere
<1>12. CASE UNCHANGED projectVars
  BY <1>12 DEF projectVars
<1> QED
  BY <1>1, <1>2, <1>3, <1>4, <1>5, <1>6, <1>7, <1>8, <1>9, <1>10, <1>11, <1>12, ProjectPart
  DEF ProjectUserStep, ProjectAnswers, ProjectServer

\* One dialog does not create two projects at a time, however its answers are delayed.
THEOREM CreatesOne == Spec => []OneCreateAtATime
<1>1. Init => CreateInv
  BY DEF Init, ProjectInit, CreateInv
<1>2. CreateInv => OneCreateAtATime
  <2> SUFFICES ASSUME CreateInv, ~reopened PROVE Cardinality({c \in creates : c.here}) <= 1
    BY DEF OneCreateAtATime
  <2>1. CASE {c \in creates : c.here} = {}
    BY <2>1, FS_EmptySet
  <2>2. CASE {c \in creates : c.here} # {}
    <3>1. PICK d \in creates : d.here
      BY <2>2
    <3>2. {c \in creates : c.here} = {d}
      BY <3>1 DEF CreateInv
    <3>3. Cardinality({d}) = 1
      BY FS_Singleton
    <3> QED
      BY <3>2, <3>3
  <2> QED
    BY <2>1, <2>2
<1> QED
  BY <1>1, <1>2, CreateNext, PTL DEF Spec

-----------------------------------------------------------------------------
(* Leaving a context brings the search back.                               *)

\* Until answers race, a context is only shown, and asked for, inside a context.
ContextInv ==
  /\ context = (cache # NoCache)
  /\ shown.kind \in {"empty", "page", "context"}
  /\ cache # NoCache => cache.kind \in {"empty", "page", "context"}
  /\ \A a \in asks : a.kind \in {"page", "context"}
  /\ ~raced =>
       /\ shown.kind = "context" => context
       /\ \A a \in asks : a.kind = "context" => context
       /\ context => cache.kind # "context"

\* Asking for a page never adds a context to what is on its way.
LEMMA AskAdds ==
  ASSUME NEW kind, NEW p, NEW f, NEW cursor, SendAsk(kind, p, f, cursor)
  PROVE  /\ \A a \in asks' : a \in asks \/ a.kind = kind
         /\ ~raced' => ~raced /\ \A a \in asks : a.kind = kind
<1>1. PICK n : asks' = asks \cup {[n |-> n, kind |-> kind, project |-> p, filter |-> f, cursor |-> cursor]}
  BY DEF SendAsk, NewAsk
<1>2. raced' = (raced \/ Races(kind, p, f, cursor))
  BY DEF SendAsk
<1>3. ~Races(kind, p, f, cursor) => \A a \in asks : a.kind = kind
  BY DEF Races
<1>4. [n |-> n, kind |-> kind, project |-> p, filter |-> f, cursor |-> cursor].kind = kind
  OBVIOUS
<1>5. \A a \in asks' : a \in asks \/ a.kind = kind
  BY <1>1, <1>4
<1>6. ~raced' => ~raced /\ ~Races(kind, p, f, cursor)
  BY <1>2
<1> QED
  BY <1>3, <1>5, <1>6

\* refetch asks for pages or empties the view.
LEMMA RefetchKeeps ==
  ASSUME ContextInv, NEW f, NEW cursor, Refetch(f, cursor), UNCHANGED <<context, cache>>
  PROVE  ContextInv'
<1> USE DEF ContextInv
<1>1. CASE UNCHANGED <<shown, asks, raced>>
  BY <1>1
<1>2. CASE ApplyEmpty
  BY <1>2 DEF ApplyEmpty, Show, NoLogs
<1>3. CASE SendAsk("page", project, f, cursor) /\ UNCHANGED shown
  BY <1>3, AskAdds
<1> QED
  BY <1>1, <1>2, <1>3 DEF Refetch

\* Entering a context, from a search or from another context, keeps the search.
LEMMA ContextEnter == ASSUME ContextInv, EnterContext PROVE ContextInv'
<1> USE DEF ContextInv
<1>1. /\ context' = TRUE /\ UNCHANGED shown
      /\ cache' = (IF cache = NoCache THEN shown ELSE cache)
      /\ SendAsk("context", rowsProject, None, FALSE)
  BY DEF EnterContext, CacheSearch
<1>2. shown # NoCache
  BY DEF NoCache
<1>3. /\ cache' # NoCache
      /\ cache'.kind \in {"empty", "page", "context"}
      /\ ~raced => cache'.kind # "context"
  BY <1>1, <1>2
<1> QED
  BY <1>1, <1>3, AskAdds

\* ContextInv is inductive.
LEMMA ContextNext == ContextInv /\ [Next]_vars => ContextInv'
<1> SUFFICES ASSUME ContextInv, [Next]_vars PROVE ContextInv'
  OBVIOUS
<1>1. CASE LogsStart
  BY <1>1 DEF LogsStart, NoLogs, ContextInv
<1>2. CASE ProjectsChange
  BY <1>2 DEF ProjectsChange, ContextInv
<1>3. CASE LogsUser
  <2>1. ASSUME NEW r, Navigate(r) PROVE ContextInv'
    BY <2>1 DEF Navigate, ContextInv
  <2>2. CASE Run
    BY <2>2, RefetchKeeps DEF Run
  <2>3. ASSUME NEW r, BoardRange(r) PROVE ContextInv'
    <3>1. CASE context
      BY <2>3, <3>1 DEF BoardRange, ContextInv
    <3>2. CASE ~context
      BY <2>3, <3>2, RefetchKeeps DEF BoardRange
    <3> QED
      BY <3>1, <3>2
  <2>4. CASE LoadMore \/ BoardRefresh
    BY <2>4, RefetchKeeps DEF LoadMore, BoardRefresh
  <2>5. CASE EnterContext
    BY <2>5, ContextEnter
  <2>6. CASE ExitContext
    <3>1. /\ context' = FALSE /\ cache' = NoCache /\ UNCHANGED asks
          /\ shown' = shown \/ (cache # NoCache /\ shown' = cache)
          /\ context
          /\ raced' = (raced \/ asks # {})
      BY <2>6 DEF ExitContext, Show
    <3>2. cache # NoCache /\ shown' = cache
      BY <2>6, <3>1 DEF ExitContext, Show, ContextInv
    <3> QED
      BY <3>1, <3>2 DEF ContextInv
  <2>7. ASSUME NEW x, TypeQuery(x) \/ PickRange(x) PROVE ContextInv'
    BY <2>7 DEF TypeQuery, PickRange, ContextInv
  <2> QED
    BY <1>3, <2>1, <2>2, <2>3, <2>4, <2>5, <2>6, <2>7 DEF LogsUser
<1>4. CASE LogsAnswers
  <2>1. ASSUME NEW a \in asks, NEW more \in BOOLEAN, Arrives(a, more) PROVE ContextInv'
    <3>1. /\ shown'.kind = a.kind /\ asks' \subseteq asks
          /\ UNCHANGED <<context, cache, raced>>
      BY <2>1 DEF Arrives, Show
    <3> QED
      BY <3>1 DEF ContextInv
  <2>2. ASSUME NEW a \in asks, Fails(a) PROVE ContextInv'
    <3>1. /\ shown' = shown \/ shown'.kind = "empty"
          /\ asks' \subseteq asks /\ UNCHANGED <<context, cache, raced>>
      BY <2>2 DEF Fails, Show, NoLogs
    <3> QED
      BY <3>1 DEF ContextInv
  <2> QED
    BY <1>4, <2>1, <2>2 DEF LogsAnswers
<1>5. CASE LoadEffect
  <2>1. UNCHANGED <<context, cache>>
    BY <1>5 DEF LoadEffect
  <2>2. \/ UNCHANGED <<shown, asks, raced>>
        \/ ApplyEmpty
        \/ Refetch(applied, FALSE)
    BY <1>5 DEF LoadEffect
  <2>3. CASE UNCHANGED <<shown, asks, raced>> \/ ApplyEmpty
    <3>1. CASE UNCHANGED <<shown, asks, raced>>
      BY <2>1, <3>1 DEF ContextInv
    <3>2. CASE ApplyEmpty
      BY <2>1, <3>2 DEF ApplyEmpty, Show, NoLogs, ContextInv
    <3> QED
      BY <2>3, <3>1, <3>2
  <2> QED
    BY <2>1, <2>2, <2>3, RefetchKeeps
<1>6. CASE BoardEffect
  BY <1>6, RefetchKeeps DEF BoardEffect
<1>7. CASE UNCHANGED logsVars
  BY <1>7 DEF logsVars, ContextInv
<1> QED
  BY <1>1, <1>2, <1>3, <1>4, <1>5, <1>6, <1>7, LogsPart

\* Entering contexts keeps the results of the search until they are left, for any number
\* of contexts entered in a row, unless answers raced.
THEOREM SearchIsKept == Spec => []ContextKeepsSearch
<1>1. Init => ContextInv
  <2> SUFFICES ASSUME Init PROVE ContextInv
    OBVIOUS
  <2>1. /\ shown.kind = "empty" /\ context = FALSE /\ cache = NoCache /\ asks = {}
    BY DEF Init, NoLogs
  <2> QED
    BY <2>1 DEF ContextInv
<1>2. ContextInv => ContextKeepsSearch
  BY DEF ContextInv, ContextKeepsSearch
<1> QED
  BY <1>1, <1>2, ContextNext, PTL DEF Spec

-----------------------------------------------------------------------------
(* The active project.                                                     *)

\* No project twice.
NoTwice(list) == \A i, j \in DOMAIN list : list[i] = list[j] => i = j

\* What is listed where: an id is given out once, and a project that is still being
\* created is in no list.
ListInv ==
  /\ {server, projects, answer} \subseteq Seq(Projects) /\ fresh \subseteq Projects
  /\ \A list \in {server, projects, answer} : fresh \cap Range(list) = {}
  /\ \A c \in creates : c.id \notin fresh
  /\ \A c, d \in creates : c.id = d.id => c = d
  /\ \A c \in creates : ~c.done => c.id \notin Range(server) /\ c.id \notin Range(answer)
  /\ NoTwice(server) /\ NoTwice(answer)

\* The active project is listed; a project created since its shell's list arrived is new to it.
ActiveInv ==
  /\ (project = None) = (projects = <<>>)
  /\ project # None => project \in Range(projects)
  /\ mounted /\ listing # "none" => status = "loading"
  /\ ~early => NoTwice(projects)
  /\ ~early => \A c \in creates : c.here => c.id \notin Range(projects) /\ listing = "none"

\* What is saved is active, until somebody else saves something.
SavedInv ==
  /\ works \/ saved = None
  /\ SavedIsActive

ProjectsInv == CreateInv /\ ListInv /\ ActiveInv /\ SavedInv

\* A list with one more project at its end, or at its beginning.
LEMMA OneMore ==
  ASSUME NEW list \in Seq(Projects), NEW p \in Projects
  PROVE  /\ Append(list, p) \in Seq(Projects) /\ <<p>> \o list \in Seq(Projects)
         /\ Range(Append(list, p)) = Range(list) \cup {p}
         /\ Range(<<p>> \o list) = Range(list) \cup {p}
         /\ p \notin Range(list) /\ NoTwice(list) =>
              NoTwice(Append(list, p)) /\ NoTwice(<<p>> \o list)
<1> DEFINE a == Append(list, p)
           b == <<p>> \o list
           n == Len(list)
<1>1. /\ n \in Nat /\ DOMAIN list = 1..n
      /\ a \in Seq(Projects) /\ DOMAIN a = 1..(n + 1)
      /\ a[n + 1] = p /\ \A i \in 1..n : a[i] = list[i]
  OBVIOUS
<1>2. /\ b \in Seq(Projects) /\ DOMAIN b = 1..(n + 1)
      /\ b[1] = p
      /\ \A i \in 1..n : b[i + 1] = list[i]
      /\ \A i \in 1..(n + 1) : i # 1 => b[i] = list[i - 1]
  OBVIOUS
<1>3. \A i \in 1..(n + 1) : (i # n + 1 => i \in 1..n) /\ (i # 1 => i - 1 \in 1..n)
  BY <1>1
<1>4. n + 1 \in 1..(n + 1) /\ 1 \in 1..(n + 1) /\ \A i \in 1..n : i \in 1..(n + 1) /\ i + 1 \in 1..(n + 1)
  BY <1>1
<1> HIDE DEF a, b, n
<1>5. Range(a) = Range(list) \cup {p}
  BY <1>1, <1>3, <1>4 DEF Range
<1>6. Range(b) = Range(list) \cup {p}
  <2>1. ASSUME NEW i \in DOMAIN b PROVE b[i] \in Range(list) \cup {p}
    <3>1. CASE i = 1
      BY <3>1, <1>2
    <3>2. CASE i # 1
      <4>1. i - 1 \in DOMAIN list /\ b[i] = list[i - 1]
        BY <3>2, <1>1, <1>2, <1>3
      <4> QED
        BY <4>1 DEF Range
    <3> QED
      BY <3>1, <3>2
  <2>2. p \in Range(b)
    BY <1>2, <1>4 DEF Range
  <2>3. ASSUME NEW i \in DOMAIN list PROVE list[i] \in Range(b)
    <3>1. i + 1 \in DOMAIN b /\ b[i + 1] = list[i]
      BY <1>1, <1>2, <1>4
    <3> QED
      BY <3>1 DEF Range
  <2>4. Range(b) = {b[i] : i \in DOMAIN b} /\ Range(list) = {list[i] : i \in DOMAIN list}
    BY DEF Range
  <2> QED
    BY <2>1, <2>2, <2>3, <2>4
<1>7. ASSUME p \notin Range(list), NoTwice(list) PROVE NoTwice(a)
  <2>1. \A i \in 1..n : list[i] # p
    BY <1>7, <1>1 DEF Range
  <2> SUFFICES ASSUME NEW i \in 1..(n + 1), NEW j \in 1..(n + 1), a[i] = a[j] PROVE i = j
    BY <1>1 DEF NoTwice
  <2>2. CASE i = n + 1 \/ j = n + 1
    BY <2>1, <2>2, <1>1, <1>3
  <2>3. CASE i # n + 1 /\ j # n + 1
    BY <2>3, <1>1, <1>3, <1>7 DEF NoTwice
  <2> QED
    BY <2>2, <2>3
<1>8. ASSUME p \notin Range(list), NoTwice(list) PROVE NoTwice(b)
  <2>1. \A i \in 1..n : list[i] # p
    BY <1>8, <1>1 DEF Range
  <2> SUFFICES ASSUME NEW i \in 1..(n + 1), NEW j \in 1..(n + 1), b[i] = b[j] PROVE i = j
    BY <1>2 DEF NoTwice
  <2>2. CASE i = 1 \/ j = 1
    BY <2>1, <2>2, <1>2, <1>3
  <2>3. CASE i # 1 /\ j # 1
    <3>1. /\ i - 1 \in 1..n /\ j - 1 \in 1..n
          /\ b[i] = list[i - 1] /\ b[j] = list[j - 1]
      BY <2>3, <1>2, <1>3
    <3>2. i - 1 = j - 1
      BY <3>1, <1>1, <1>8 DEF NoTwice
    <3> QED
      BY <3>2, <1>1
  <2> QED
    BY <2>2, <2>3
<1> QED
  BY <1>1, <1>2, <1>5, <1>6, <1>7, <1>8 DEF a, b

\* The empty list.
LEMMA EmptyList == <<>> \in Seq(Projects) /\ Range(<<>>) = {} /\ NoTwice(<<>>)
  BY DEF Range, NoTwice

\* A listed project is a project; a list with a project in it is not empty.
LEMMA Listed ==
  ASSUME NEW list \in Seq(Projects)
  PROVE  /\ Range(list) \subseteq Projects /\ None \notin Range(list)
         /\ list = <<>> <=> Range(list) = {}
         /\ list # <<>> => Head(list) \in Range(list)
<1>1. Range(list) \subseteq Projects
  BY DEF Range
<1>2. list # <<>> => 1 \in DOMAIN list /\ Head(list) = list[1]
  OBVIOUS
<1> QED
  BY <1>1, <1>2, EmptyList, ProjectStoreAssumption DEF Range

\* selectInitial chooses a listed project, the saved one if it can.
LEMMA Chosen ==
  ASSUME NEW list \in Seq(Projects)
  PROVE  /\ (SelectInitial(list) = None) = (list = <<>>)
         /\ list # <<>> => SelectInitial(list) \in Range(list)
         /\ saved \in Range(list) => SelectInitial(list) = saved
  BY Listed DEF SelectInitial

\* The shell comes and goes: its requests are abandoned.
LEMMA ProjectsShell ==
  ASSUME ProjectsInv, Mount \/ Unmount \/ Reload
  PROVE  ListInv' /\ ActiveInv' /\ SavedInv'
<1> USE DEF ProjectsInv, storage, lists, dialog
<1>1. CASE Mount
  <2>1. ListInv'
    BY <1>1, EmptyList DEF Mount, ListInv
  <2>2. ActiveInv'
    BY <1>1, EmptyList DEF Mount, ActiveInv, CreateInv
  <2>3. SavedInv'
    BY <1>1 DEF Mount, SavedInv, SavedIsActive
  <2> QED
    BY <2>1, <2>2, <2>3
<1>2. CASE Unmount \/ Reload
  <2>1. /\ answer' = <<>> /\ listing' = "none" /\ mounted' = FALSE
        /\ UNCHANGED <<works, saved, server, fresh, projects, project, status, early>>
        /\ creates' = {} \/ creates' = Abandoned
    BY <1>2 DEF Unmount, Reload
  <2>2. \A d \in creates' : \E c \in creates : d = [c EXCEPT !.here = FALSE]
    BY <2>1 DEF Abandoned
  <2>3. \A c \in creates : LET d == [c EXCEPT !.here = FALSE]
                          IN  ~d.here /\ d.id = c.id /\ d.done = c.done
    BY DEF CreateInv, Create
  <2>4. \A d \in creates' : ~d.here /\ \E c \in creates : c.id = d.id /\ c.done = d.done
    BY <2>2, <2>3
  <2>5. ASSUME NEW d \in creates', NEW e \in creates', d.id = e.id PROVE d = e
    <3>1. PICK c \in creates : d = [c EXCEPT !.here = FALSE]
      BY <2>2
    <3>2. PICK f \in creates : e = [f EXCEPT !.here = FALSE]
      BY <2>2
    <3>3. c.id = f.id
      BY <3>1, <3>2, <2>3, <2>5
    <3> QED
      BY <3>1, <3>2, <3>3 DEF ListInv
  <2>6. ListInv'
    BY <2>1, <2>4, <2>5, EmptyList DEF ListInv
  <2>7. ActiveInv' /\ SavedInv'
    BY <2>1, <2>4 DEF ActiveInv, SavedInv, SavedIsActive
  <2> QED
    BY <2>6, <2>7
<1> QED
  BY <1>1, <1>2

\* The list is computed and arrives, or fails to.
LEMMA ProjectsList ==
  ASSUME ProjectsInv, ListIsComputed \/ ListArrives \/ ListFails
  PROVE  ListInv' /\ ActiveInv' /\ SavedInv'
<1> USE DEF ProjectsInv, storage, shell, lists, dialog
<1>1. CASE ListIsComputed
  <2>1. ListInv'
    BY <1>1 DEF ListIsComputed, ListInv
  <2>2. ActiveInv' /\ SavedInv'
    BY <1>1 DEF ListIsComputed, ActiveInv, SavedInv, SavedIsActive
  <2> QED
    BY <2>1, <2>2
<1>2. CASE ListArrives
  <2>1. answer \in Seq(Projects)
    BY DEF ListInv
  <2>2. ListInv'
    BY <1>2, EmptyList DEF ListArrives, ListInv
  <2>3. ActiveInv'
    BY <1>2, <2>1, Chosen DEF ListArrives, ListInv, ActiveInv
  <2>4. SavedInv'
    BY <1>2, <2>1, Chosen DEF ListArrives, SavedInv, SavedIsActive
  <2> QED
    BY <2>2, <2>3, <2>4
<1>3. CASE ListFails
  <2>1. ListInv'
    BY <1>3, EmptyList DEF ListFails, ListInv
  <2>2. ActiveInv' /\ SavedInv'
    BY <1>3, EmptyList DEF ListFails, ProjectAfterFailure, ActiveInv, SavedInv, SavedIsActive
  <2> QED
    BY <2>1, <2>2
<1> QED
  BY <1>1, <1>2, <1>3

\* The switcher and the dialog.
LEMMA ProjectsUser ==
  ASSUME ProjectsInv,
         OpenCreate \/ CloseCreate \/ \E p \in Projects : SetProject(p) \/ Submit(p)
  PROVE  ListInv' /\ ActiveInv' /\ SavedInv'
<1> USE DEF ProjectsInv, storage, serverState, shell, lists, dialog
<1>1. CASE OpenCreate \/ CloseCreate
  BY <1>1 DEF OpenCreate, CloseCreate, ListInv, ActiveInv, SavedInv, SavedIsActive
<1>2. ASSUME NEW p \in Projects, SetProject(p) PROVE ListInv' /\ ActiveInv' /\ SavedInv'
  <2>1. ListInv'
    BY <1>2 DEF SetProject, ListInv
  <2>2. p # None /\ projects # <<>>
    BY <1>2, Listed, ProjectStoreAssumption DEF SetProject, ListInv
  <2>3. ActiveInv'
    BY <1>2, <2>2 DEF SetProject, ActiveInv
  <2>4. SavedInv'
    <3>1. None \notin Range(projects)
      BY Listed DEF ListInv
    <3> QED
      BY <1>2, <3>1 DEF SetProject, SaveProjectId, SavedInv, SavedIsActive
  <2> QED
    BY <2>1, <2>3, <2>4
<1>3. ASSUME NEW p \in Projects, Submit(p) PROVE ListInv' /\ ActiveInv' /\ SavedInv'
  <2> DEFINE new == [id |-> p, done |-> FALSE, here |-> TRUE]
  <2>1. new.id = p /\ ~new.done
    OBVIOUS
  <2>2. /\ mounted /\ p \in fresh /\ fresh' = fresh \ {p}
        /\ creates' = creates \cup {new}
        /\ early' = (early \/ status = "loading")
        /\ UNCHANGED <<works, saved, server, listing, answer, mounted, projects, project,
                       status, elsewhere>>
    BY <1>3 DEF Submit, CanSubmit
  <2> HIDE DEF new
  <2>3. p \notin Range(server) /\ p \notin Range(answer) /\ p \notin Range(projects)
    BY <2>2 DEF ListInv
  <2>4. ListInv'
    BY <2>1, <2>2, <2>3 DEF ListInv
  <2>5. ActiveInv'
    BY <2>1, <2>2, <2>3 DEF ActiveInv
  <2>6. SavedInv'
    BY <2>2 DEF SavedInv, SavedIsActive
  <2> QED
    BY <2>4, <2>5, <2>6
<1> QED
  BY <1>1, <1>2, <1>3

\* A project is created, and the dialog hears of it or of a failure.
LEMMA ProjectsCreate ==
  ASSUME ProjectsInv, NEW c \in creates, CreateIsDone(c) \/ CreateSucceeds(c) \/ CreateFails(c)
  PROVE  ListInv' /\ ActiveInv' /\ SavedInv'
<1> USE DEF ProjectsInv, storage, shell, lists, dialog
<1>0. c.id \in Projects
  BY DEF CreateInv, Create
<1>1. CASE CreateIsDone(c)
  <2> DEFINE d == [c EXCEPT !.done = TRUE]
  <2>1. d.id = c.id /\ d.here = c.here /\ d.done
    BY DEF CreateInv, Create
  <2>2. /\ ~c.done /\ server' = <<c.id>> \o server
        /\ creates' = (creates \ {c}) \cup {d}
        /\ UNCHANGED <<works, saved, fresh, listing, answer, mounted, early, projects, project,
                       status, elsewhere>>
    BY <1>1 DEF CreateIsDone
  <2> HIDE DEF d
  <2>3. /\ server' \in Seq(Projects) /\ Range(server') = Range(server) \cup {c.id}
        /\ NoTwice(server')
    BY <1>0, <2>2, OneMore DEF ListInv
  <2>4. ListInv'
    BY <2>1, <2>2, <2>3 DEF ListInv
  <2>5. ActiveInv' /\ SavedInv'
    BY <2>1, <2>2 DEF ActiveInv, SavedInv, SavedIsActive
  <2> QED
    BY <2>4, <2>5
<1>2. CASE CreateSucceeds(c) /\ c.here
  <2>1. /\ creates' = creates \ {c} /\ projects' = Append(projects, c.id) /\ project' = c.id
        /\ saved' = (IF works THEN c.id ELSE saved)
        /\ UNCHANGED <<works, server, fresh, listing, answer, mounted, early, status>>
    BY <1>2 DEF CreateSucceeds, SaveCreated, SaveProjectId
  <2>2. /\ projects' \in Seq(Projects) /\ Range(projects') = Range(projects) \cup {c.id}
        /\ c.id \notin Range(projects) /\ NoTwice(projects) => NoTwice(projects')
    BY <1>0, <2>1, OneMore DEF ListInv
  <2>3. ListInv'
    BY <2>1, <2>2 DEF ListInv
  <2>4. projects' # <<>> /\ None \notin Range(projects') /\ c.id # None
    BY <1>0, <2>2, Listed, ProjectStoreAssumption
  <2>5. ActiveInv'
    BY <1>2, <2>1, <2>2, <2>4 DEF ActiveInv, ListInv
  <2>6. SavedInv'
    BY <2>1, <2>4 DEF SavedInv, SavedIsActive
  <2> QED
    BY <2>3, <2>5, <2>6
<1>3. CASE (CreateSucceeds(c) /\ ~c.here) \/ CreateFails(c)
  <2>1. /\ creates' = creates \ {c}
        /\ UNCHANGED <<works, server, fresh, listing, answer, mounted, early, projects, project,
                       status>>
        /\ \/ elsewhere' = TRUE /\ saved' = IF works THEN c.id ELSE saved
           \/ UNCHANGED <<elsewhere, saved>>
    BY <1>3 DEF CreateSucceeds, CreateFails, SaveCreated, SaveProjectId
  <2>2. ListInv' /\ ActiveInv'
    BY <2>1 DEF ListInv, ActiveInv
  <2>3. SavedInv'
    BY <2>1 DEF SavedInv, SavedIsActive
  <2> QED
    BY <2>2, <2>3
<1> QED
  BY <1>1, <1>2, <1>3

\* Another tab creates a project, or stores its id.
LEMMA ProjectsElsewhere ==
  ASSUME ProjectsInv, NEW p \in Projects, CreatedElsewhere(p) \/ SavedElsewhere(p)
  PROVE  ListInv' /\ ActiveInv' /\ SavedInv'
<1> USE DEF ProjectsInv, storage, serverState, shell, lists, dialog
<1>1. CASE CreatedElsewhere(p)
  <2>1. /\ p \in fresh /\ fresh' = fresh \ {p} /\ server' = <<p>> \o server
        /\ UNCHANGED <<works, saved, listing, answer, creates, mounted, early, projects, project,
                       status, elsewhere>>
    BY <1>1 DEF CreatedElsewhere
  <2>2. /\ server' \in Seq(Projects) /\ Range(server') = Range(server) \cup {p}
        /\ NoTwice(server')
    BY <2>1, OneMore DEF ListInv
  <2>3. \A c \in creates : c.id # p
    BY <2>1 DEF ListInv
  <2>4. ListInv'
    BY <2>1, <2>2, <2>3 DEF ListInv
  <2>5. ActiveInv' /\ SavedInv'
    BY <2>1 DEF ActiveInv, SavedInv, SavedIsActive
  <2> QED
    BY <2>4, <2>5
<1>2. CASE SavedElsewhere(p)
  <2>1. /\ works /\ saved' = p /\ elsewhere' = TRUE
        /\ UNCHANGED <<works, server, fresh, listing, answer, creates, mounted, early, projects,
                       project, status>>
    BY <1>2 DEF SavedElsewhere, SaveProjectId
  <2>2. ListInv' /\ ActiveInv'
    BY <2>1 DEF ListInv, ActiveInv
  <2>3. SavedInv'
    BY <2>1 DEF SavedInv, SavedIsActive
  <2> QED
    BY <2>2, <2>3
<1> QED
  BY <1>1, <1>2

\* ProjectsInv is inductive.
LEMMA ProjectsNext == ProjectsInv /\ [Next]_vars => ProjectsInv'
<1> SUFFICES ASSUME ProjectsInv, [Next]_vars PROVE ListInv' /\ ActiveInv' /\ SavedInv'
  BY CreateNext DEF ProjectsInv
<1>1. CASE UNCHANGED projectVars
  BY <1>1 DEF projectVars, ProjectsInv, ListInv, ActiveInv, SavedInv, SavedIsActive
<1> QED
  BY <1>1, ProjectPart, ProjectsShell, ProjectsList, ProjectsUser, ProjectsCreate,
     ProjectsElsewhere
  DEF ProjectUserStep, ProjectAnswers, ProjectServer, OtherTabs

\* ProjectsInv holds at all times.
LEMMA ProjectsInvariant == Spec => []ProjectsInv
<1>1. Init => ProjectsInv
  <2> SUFFICES ASSUME Init PROVE ProjectsInv
    OBVIOUS
  <2>1. ProjectInit
    BY DEF Init
  <2>2. \A p \in Projects : <<p>> \in Seq(Projects) /\ NoTwice(<<p>>)
    BY DEF NoTwice
  <2>3. server \in Seq(Projects) /\ NoTwice(server)
    BY <2>1, <2>2, EmptyList DEF ProjectInit
  <2>4. ListInv
    BY <2>1, <2>3, EmptyList DEF ProjectInit, ListInv
  <2>5. CreateInv /\ ActiveInv
    BY <2>1, EmptyList DEF ProjectInit, CreateInv, ActiveInv
  <2>6. SavedInv
    BY <2>1 DEF ProjectInit, SavedInv, SavedIsActive
  <2> QED
    BY <2>4, <2>5, <2>6 DEF ProjectsInv
<1> QED
  BY <1>1, ProjectsNext, PTL DEF Spec

\* A list without repetitions has as many projects as places.
LEMMA CountOnce ==
  ASSUME NEW list \in Seq(Projects), NoTwice(list)
  PROVE  Cardinality(Range(list)) = Len(list)
<1>1. DOMAIN list = 1..Len(list) /\ Len(list) \in Nat
  OBVIOUS
<1>2. list \in Bijection(1..Len(list), Range(list))
  BY <1>1 DEF NoTwice, Range, Bijection, Injection, IsInjective, Surjection
<1>3. ExistsBijection(1..Len(list), Range(list))
  BY <1>2 DEF ExistsBijection
<1>4. IsFiniteSet(1..Len(list)) /\ Cardinality(1..Len(list)) = Len(list)
  BY <1>1, FS_Interval
<1> QED
  BY <1>3, <1>4, FS_Bijection

\* In whatever order lists and created projects arrive, the active project is listed,
\* there is one whenever any is listed, and none is listed twice but after an early create.
THEOREM ActiveProjectIsListed == Spec => []ActiveIsListed
<1>1. ProjectsInv => ActiveIsListed
  BY CountOnce DEF ProjectsInv, ListInv, ActiveInv, ActiveIsListed
<1> QED
  BY <1>1, ProjectsInvariant, PTL

\* The active project is the one a reload would choose, with and without a localStorage,
\* for any number of projects and tabs, until another tab or a shell that had gone stores
\* its own.
THEOREM SavedProjectIsActive == Spec => []SavedIsActive
<1>1. ProjectsInv => SavedIsActive
  BY DEF ProjectsInv, SavedInv
<1> QED
  BY <1>1, ProjectsInvariant, PTL

-----------------------------------------------------------------------------
(* What is shown.                                                          *)

\* What was last asked for in project p was asked for by one of the two effects: by the one
\* of LogsData, if it last ran on a log route, or by the one of the dashboard that is open.
Anchored(p) ==
  \/ ranFor[1] = TRUE => p = ranFor[2]
  \/ route = "boards" /\ boardFor # <<>> /\ p = boardFor[2]

\* Until answers race, requests that are out ask for what the view should show, and when
\* none is out the view shows it, as far as the effects have seen; a context keeps the
\* results of the search it was entered from.
ViewInv ==
  ~raced =>
    /\ ~context =>
         /\ \A a \in asks : a.kind = "page" /\ a.project = project /\ a.filter = applied
         /\ asks # {} => Anchored(project)
         /\ asks = {} /\ shown # NoLogs =>
              shown.kind = "page" /\ shown.filter = applied /\ Anchored(shown.project)
    /\ context =>
         /\ \A a \in asks : a.kind = "context"
         /\ cache.kind = "page" /\ cache.project = project /\ cache.filter = applied

\* What the log views go through, with what is left alone around it.
LEMMA ViewPart ==
  ASSUME [Next]_vars
  PROVE  \/ LogsStart
         \/ ProjectsChange
         \/ EffectsDone /\ LogsUser /\ project' = project
         \/ (LogsAnswers \/ LoadEffect \/ BoardEffect) /\ project' = project
         \/ UNCHANGED <<logsVars, project>>
  BY DEF Next, User, Settle, CloseCreate, ProjectServer, ListIsComputed, CreateIsDone,
         OtherTabs, CreatedElsewhere, SavedElsewhere, vars, projectVars, lists

\* Until answers race all requests that are out are the same.
LEMMA AskIs ==
  ASSUME NEW kind, NEW p, NEW f, NEW cursor, SendAsk(kind, p, f, cursor)
  PROVE  /\ asks' # {}
         /\ \A a \in asks' : a \in asks \/ (a.kind = kind /\ a.project = p /\ a.filter = f)
         /\ ~raced' => /\ ~raced
                       /\ \A a \in asks : a.kind = kind /\ a.project = p /\ a.filter = f
<1>1. PICK n : asks' = asks \cup {[n |-> n, kind |-> kind, project |-> p, filter |-> f, cursor |-> cursor]}
  BY DEF SendAsk, NewAsk
<1>2. raced' = (raced \/ Races(kind, p, f, cursor))
  BY DEF SendAsk
<1>3. ~Races(kind, p, f, cursor) => \A a \in asks : a.kind = kind /\ a.project = p /\ a.filter = f
  BY DEF Races
<1> DEFINE new == [n |-> n, kind |-> kind, project |-> p, filter |-> f, cursor |-> cursor]
<1>4. new.kind = kind /\ new.project = p /\ new.filter = f /\ asks' = asks \cup {new}
  BY <1>1
<1> HIDE DEF new
<1>5. ~raced' => ~raced /\ ~Races(kind, p, f, cursor)
  BY <1>2
<1> QED
  BY <1>3, <1>4, <1>5

\* refetch on a log route, with the filter that is applied then.
LEMMA RefetchView ==
  ASSUME ViewInv, NEW f, NEW cursor, Refetch(f, cursor), OnLogsRoute, Anchored(project)',
         UNCHANGED <<context, cache, project>>, applied' = f, context => f = applied
  PROVE  ViewInv'
<1> SUFFICES ASSUME ~raced' PROVE ViewInv'
  BY DEF ViewInv
<1>1. CASE context
  <2>1. UNCHANGED <<asks, raced>>
    BY <1>1 DEF Refetch
  <2> QED
    BY <1>1, <2>1 DEF ViewInv
<1>2. CASE ~context /\ project = None
  <2>1. shown' = NoLogs /\ asks' = asks /\ raced' = (raced \/ asks # {})
    BY <1>2 DEF Refetch, ApplyEmpty, Show
  <2> QED
    BY <1>2, <2>1 DEF ViewInv, NoLogs
<1>3. CASE ~context /\ project # None
  <2>1. SendAsk("page", project, f, cursor)
    BY <1>3 DEF Refetch
  <2>2. /\ asks' # {}
        /\ \A a \in asks' : a.kind = "page" /\ a.project = project /\ a.filter = f
    BY <2>1, AskIs
  <2> QED
    BY <1>3, <2>2 DEF ViewInv
<1> QED
  BY <1>1, <1>2, <1>3

\* With the effects done, a view at rest shows the applied filter in the active project.
LEMMA ViewAtRest ==
  ASSUME ViewInv, EffectsDone, mounted
  PROVE  /\ Anchored(project)
         /\ OnLogsRoute /\ ~raced /\ ~context /\ asks = {} /\ shown # NoLogs =>
              shown.kind = "page" /\ shown.project = project /\ shown.filter = applied
<1>1. ranFor[2] = project /\ (OnLogsRoute => ranFor[1] = TRUE)
  BY DEF EffectsDone, EffectKey
<1>2. route = "boards" => boardFor[2] = project
  BY DEF EffectsDone, BoardKey
<1>3. Anchored(project)
  BY <1>1 DEF Anchored
<1>4. ASSUME NEW p, OnLogsRoute, Anchored(p) PROVE p = project
  BY <1>1, <1>2, <1>4 DEF Anchored
<1> QED
  BY <1>3, <1>4 DEF ViewInv

\* The user's events keep ViewInv.
LEMMA ViewUser ==
  ASSUME ViewInv, ContextInv, EffectsDone, LogsUser, project' = project PROVE ViewInv'
<1>1. mounted /\ Anchored(project) /\ ranFor[2] = project
  BY ViewAtRest DEF LogsUser, EffectsDone, EffectKey
<1>2. ASSUME UNCHANGED <<ranFor, boardFor, route>> PROVE \A p : Anchored(p) => Anchored(p)'
  BY <1>2 DEF Anchored
<1>3. ASSUME UNCHANGED ranFor PROVE Anchored(project)'
  BY <1>1, <1>3 DEF Anchored
<1>4. ASSUME NEW r, Navigate(r) PROVE ViewInv'
  <2>1. UNCHANGED <<applied, shown, context, cache, asks, ranFor, raced>>
    BY <1>4 DEF Navigate
  <2>2. ASSUME ~raced, ~context, asks = {}, shown # NoLogs PROVE Anchored(shown.project)'
    <3>1. Anchored(shown.project)
      BY <2>2 DEF ViewInv
    <3>2. (ranFor[1] = TRUE => shown.project = ranFor[2])
      <4>1. route = "boards" => boardFor[2] = project
        BY <1>1 DEF EffectsDone, BoardKey
      <4> QED
        BY <1>1, <3>1, <4>1 DEF Anchored
    <3> QED
      BY <2>1, <3>2 DEF Anchored
  <2> QED
    BY <1>3, <2>1, <2>2 DEF ViewInv
<1>5. CASE Run
  BY <1>3, <1>5, RefetchView DEF Run, QueryBarShown, OnLogsPage, OnLogsRoute
<1>6. ASSUME NEW r, BoardRange(r) PROVE ViewInv'
  <2>1. CASE context
    BY <1>6, <2>1 DEF BoardRange, ViewInv
  <2>2. CASE ~context
    BY <1>3, <1>6, <2>2, RefetchView DEF BoardRange, OnLogsRoute
  <2> QED
    BY <2>1, <2>2
<1>7. CASE LoadMore \/ BoardRefresh
  BY <1>3, <1>7, RefetchView DEF LoadMore, BoardRefresh, PagerEnabled, OnLogsPage, OnLogsRoute
<1>8. CASE EnterContext
  <2>1. /\ OnLogsRoute /\ shown # NoLogs /\ context' = TRUE /\ UNCHANGED <<shown, applied>>
        /\ cache' = (IF cache = NoCache THEN shown ELSE cache)
        /\ SendAsk("context", rowsProject, None, FALSE)
    <3>1. route = "logs" /\ shown.kind # "empty"
      BY <1>8 DEF EnterContext, RowOffersContext, OnLogsPage
    <3>2. shown # NoLogs /\ OnLogsRoute
      BY <3>1 DEF NoLogs, OnLogsRoute
    <3> QED
      BY <1>8, <3>2 DEF EnterContext, CacheSearch
  <2>2. /\ ~raced' => ~raced /\ \A a \in asks : a.kind = "context"
        /\ \A a \in asks' : a \in asks \/ a.kind = "context"
    BY <2>1, AskIs
  <2>3. ASSUME ~raced' PROVE cache'.kind = "page" /\ cache'.project = project /\ cache'.filter = applied
    <3>1. CASE context
      BY <2>1, <2>2, <2>3, <3>1 DEF ViewInv, ContextInv
    <3>2. CASE ~context
      <4>1. asks = {} /\ cache' = shown
        BY <2>1, <2>2, <2>3, <3>2 DEF ViewInv, ContextInv
      <4> QED
        BY <1>1, <2>1, <2>2, <2>3, <3>2, <4>1, ViewAtRest
    <3> QED
      BY <3>1, <3>2
  <2> QED
    BY <2>1, <2>2, <2>3 DEF ViewInv
<1>9. CASE ExitContext
  <2>1. /\ context /\ context' = FALSE /\ UNCHANGED <<asks, applied, ranFor>>
        /\ raced' = (raced \/ asks # {}) /\ shown' = cache
    BY <1>9 DEF ExitContext, Show, ContextInv
  <2>2. ASSUME ~raced' PROVE asks' = {} /\ shown'.kind = "page" /\ shown'.filter = applied /\ shown'.project = project
    BY <2>1, <2>2 DEF ViewInv
  <2>3. ASSUME ~raced' PROVE Anchored(shown.project)'
    BY <1>3, <2>1, <2>2, <2>3 DEF Anchored
  <2> QED
    BY <2>1, <2>2, <2>3 DEF ViewInv
<1>10. ASSUME NEW x, TypeQuery(x) \/ PickRange(x) PROVE ViewInv'
  <2>1. UNCHANGED <<applied, shown, context, cache, asks, ranFor, boardFor, route, raced>>
    BY <1>10 DEF TypeQuery, PickRange
  <2> QED
    BY <1>2, <2>1 DEF ViewInv
<1> QED
  BY <1>4, <1>5, <1>6, <1>7, <1>8, <1>9, <1>10 DEF LogsUser

\* Answers keep ViewInv, in whatever order they come.
LEMMA ViewAnswers == ASSUME ViewInv, LogsAnswers, project' = project PROVE ViewInv'
<1>1. ASSUME NEW a \in asks, NEW more \in BOOLEAN, Arrives(a, more) PROVE ViewInv'
  <2>1. /\ asks' \subseteq asks /\ shown'.kind = a.kind /\ shown'.project = a.project
        /\ shown'.filter = a.filter
        /\ UNCHANGED <<route, applied, context, cache, ranFor, boardFor, raced>>
    BY <1>1 DEF Arrives, Show
  <2>2. \A p : Anchored(p)' <=> Anchored(p)
    BY <2>1 DEF Anchored
  <2> QED
    BY <2>1, <2>2 DEF ViewInv
<1>2. ASSUME NEW a \in asks, Fails(a) PROVE ViewInv'
  <2>1. /\ asks' \subseteq asks /\ (a.kind = "page" => shown' = NoLogs)
        /\ UNCHANGED <<route, applied, context, cache, ranFor, boardFor, raced>>
    BY <1>2 DEF Fails, Show
  <2>2. \A p : Anchored(p)' <=> Anchored(p)
    BY <2>1 DEF Anchored
  <2>3. NoLogs' = NoLogs
    BY DEF NoLogs
  <2> QED
    BY <2>1, <2>2, <2>3 DEF ViewInv
<1> QED
  BY <1>1, <1>2 DEF LogsAnswers

\* The effects keep ViewInv: what was asked for in another project is asked for anew.
LEMMA ViewEffects ==
  ASSUME ViewInv, LoadEffect \/ BoardEffect, project' = project PROVE ViewInv'
<1>1. CASE LoadEffect
  <2>1. ranFor' = <<OnLogsRoute, project>> /\ UNCHANGED <<route, applied, context, cache, boardFor>>
    BY <1>1 DEF LoadEffect, EffectKey
  <2>2. Anchored(project)'
    BY <2>1 DEF Anchored
  <2>3. CASE ~OnLogsRoute
    <3>1. UNCHANGED <<shown, asks, raced>>
      BY <1>1, <2>3 DEF LoadEffect
    <3>2. \A p : Anchored(p)'
      BY <2>1, <2>3 DEF Anchored
    <3> QED
      BY <2>1, <2>2, <3>1, <3>2 DEF ViewInv
  <2>4. CASE OnLogsRoute /\ project = None
    <3>1. shown' = NoLogs /\ asks' = asks /\ raced' = (raced \/ asks # {})
      BY <1>1, <2>4 DEF LoadEffect, ApplyEmpty, Show
    <3> QED
      BY <2>1, <3>1 DEF ViewInv, NoLogs
  <2>5. CASE OnLogsRoute /\ project # None
    BY <1>1, <2>1, <2>2, <2>5, RefetchView DEF LoadEffect
  <2> QED
    BY <2>3, <2>4, <2>5
<1>2. CASE BoardEffect
  <2>1. /\ route = "boards" /\ boardFor' = <<applied, project, context>>
        /\ Refetch(applied, FALSE) /\ UNCHANGED <<route, applied, context, cache>>
    BY <1>2 DEF BoardEffect, BoardKey
  <2>2. Anchored(project)' /\ OnLogsRoute
    BY <2>1 DEF Anchored, OnLogsRoute
  <2> QED
    BY <2>1, <2>2, RefetchView
<1> QED
  BY <1>1, <1>2

\* ViewInv is inductive relative to ContextInv: a change of the project under a request or
\* inside a context counts as a race.
LEMMA ViewNext == ContextInv /\ ViewInv /\ [Next]_vars => ViewInv'
<1> SUFFICES ASSUME ContextInv, ViewInv, [Next]_vars PROVE ViewInv'
  OBVIOUS
<1>1. CASE LogsStart
  BY <1>1 DEF LogsStart, ViewInv, NoLogs
<1>2. CASE ProjectsChange
  <2>1. /\ raced' = (raced \/ (project' # project /\ (context \/ asks # {})))
        /\ UNCHANGED <<route, applied, shown, context, cache, asks, ranFor, boardFor>>
    BY <1>2 DEF ProjectsChange
  <2>2. \A p : Anchored(p)' <=> Anchored(p)
    BY <2>1 DEF Anchored
  <2>3. NoLogs' = NoLogs
    BY DEF NoLogs
  <2>4. CASE project' = project
    <3>1. Anchored(project)' <=> Anchored(project)
      BY <2>1, <2>4 DEF Anchored
    <3> QED
      BY <2>1, <2>2, <2>3, <2>4, <3>1 DEF ViewInv
  <2>5. CASE project' # project
    BY <2>1, <2>2, <2>3, <2>5 DEF ViewInv
  <2> QED
    BY <2>4, <2>5
<1>3. CASE UNCHANGED <<logsVars, project>>
  <2>1. UNCHANGED <<route, applied, shown, context, cache, asks, ranFor, boardFor, raced, project>>
    BY <1>3 DEF logsVars
  <2>2. \A p : Anchored(p)' <=> Anchored(p)
    BY <2>1 DEF Anchored
  <2>3. Anchored(project)' <=> Anchored(project)
    BY <2>1 DEF Anchored
  <2> QED
    BY <2>1, <2>2, <2>3 DEF ViewInv, NoLogs
<1> QED
  BY <1>1, <1>2, <1>3, ViewPart, ViewUser, ViewAnswers, ViewEffects

\* When everything has settled, what is shown was searched in the active project with the
\* applied filter, in whatever order projects and answers arrive and effects run, unless
\* requests for different logs were out together or something changed under a request.
THEOREM CalmViewsAreCurrent == Spec => []CalmViewIsCurrent
<1>1. Init => ContextInv /\ ViewInv
  <2> SUFFICES ASSUME Init PROVE ContextInv /\ ViewInv
    OBVIOUS
  <2>1. /\ shown = NoLogs /\ shown.kind = "empty" /\ context = FALSE /\ cache = NoCache /\ asks = {}
    BY DEF Init, NoLogs
  <2> QED
    BY <2>1 DEF ContextInv, ViewInv
<1>2. ViewInv => CalmViewIsCurrent
  BY ViewAtRest DEF CalmViewIsCurrent
<1> QED
  BY <1>1, <1>2, ContextNext, ViewNext, PTL DEF Spec

-----------------------------------------------------------------------------
(* Types.  The number that tells equal requests apart is found, because no *)
(* more are out than were sent, and one more may be sent only below the    *)
(* bound.                                                                  *)

TypeInv ==
  /\ WorkspaceTypeOK
  /\ IsFiniteSet(asks) /\ Cardinality(asks) <= asked

\* Of some numbers one comes first.
LEMMA FirstNumber ==
  ASSUME NEW n \in Nat, NEW S, S \subseteq 1..n, S # {}
  PROVE  \E i \in S : \A j \in 1..(i - 1) : j \notin S
<1> DEFINE Below(k) == {j \in S : j < k}
           below == {Below(k) : k \in S}
           before == StrictSubsetOrdering(S)
<1>1. IsFiniteSet(S)
  <2>1. IsFiniteSet(1..n)
    BY FS_Interval
  <2> QED
    BY <2>1, FS_Subset
<1>2. IsWellFoundedOn(before, FiniteSubsetsOf(S))
  BY FS_StrictSubsetOrderingWellFounded
<1>3. below \subseteq FiniteSubsetsOf(S) /\ below # {}
  <2>1. ASSUME NEW k \in S PROVE Below(k) \in SUBSET S /\ IsFiniteSet(Below(k))
    <3>1. Below(k) \in SUBSET S
      OBVIOUS
    <3> HIDE DEF Below
    <3> QED
      BY <1>1, <3>1, FS_Subset
  <2> QED
    BY <2>1 DEF FiniteSubsetsOf
<1>4. PICK s \in below : \A r \in below : ~(<<r, s>> \in before)
  <2> HIDE DEF below, before
  <2> QED
    BY <1>2, <1>3, WFMin
<1>5. PICK i \in S : s = Below(i)
  BY <1>4
<1>6. ASSUME NEW j \in S, j < i PROVE FALSE
  <2>1. Below(j) \subseteq Below(i) /\ j \in Below(i) /\ j \notin Below(j)
    <3>1. \A l \in S : l < j => l < i
      BY <1>6
    <3>2. ~(j < j)
      BY <1>6
    <3> QED
      BY <1>6, <3>1, <3>2
  <2>2. Below(j) \in SUBSET S /\ s \in SUBSET S /\ Below(j) \in below
    BY <1>5
  <2>3. Below(j) \subseteq s /\ Below(j) # s
    BY <1>5, <2>1
  <2> HIDE DEF Below, below
  <2>4. <<Below(j), s>> \in before
    BY <2>2, <2>3 DEF StrictSubsetOrdering
  <2> QED
    BY <1>4, <2>2, <2>4
<1>7. \A j \in 1..(i - 1) : j < i
  BY <1>5
<1> QED
  BY <1>5, <1>6, <1>7

\* With fewer requests out than may be sent one of the numbers is free.
LEMMA FreeNumber ==
  ASSUME NEW n \in Nat, NEW S, IsFiniteSet(S), Cardinality(S) < n,
         NEW f \in [1..n -> Ask], \A i, j \in 1..n : f[i] = f[j] => i = j
  PROVE  \E i \in 1..n : f[i] \notin S /\ \A j \in 1..(i - 1) : f[j] \in S
<1> DEFINE free == {i \in 1..n : f[i] \notin S}
<1>1. free # {}
  <2> SUFFICES ASSUME \A i \in 1..n : f[i] \in S PROVE FALSE
    OBVIOUS
  <2>1. f \in [1..n -> S]
    OBVIOUS
  <2>2. IsFiniteSet(1..n) /\ Cardinality(1..n) = n
    BY FS_Interval
  <2>3. \E i, j \in 1..n : i # j /\ f[i] = f[j]
    BY <2>1, <2>2, FS_PigeonHole
  <2> QED
    BY <2>3
<1>2. free \subseteq 1..n
  OBVIOUS
<1>3. PICK i \in free : \A j \in 1..(i - 1) : j \notin free
  <2> HIDE DEF free
  <2> QED
    BY <1>1, <1>2, FirstNumber
<1>4. i \in 1..n /\ \A j \in 1..(i - 1) : j \in 1..n
  OBVIOUS
<1> QED
  BY <1>3, <1>4

\* A request that is sent is numbered, and no more are out than were sent.
LEMMA AskTyped ==
  ASSUME TypeInv, NEW kind \in {"page", "context"}, NEW p \in Projects,
         NEW f \in Filters \cup {None}, NEW cursor \in BOOLEAN, SendAsk(kind, p, f, cursor)
  PROVE  /\ asks' \subseteq Ask /\ asked' \in 0..MaxAsks /\ loading' \in BOOLEAN
         /\ raced' \in BOOLEAN
         /\ IsFiniteSet(asks') /\ Cardinality(asks') <= asked'
<1> DEFINE ask(i) == [n |-> i, kind |-> kind, project |-> p, filter |-> f, cursor |-> cursor]
           asking == [i \in 1..MaxAsks |-> ask(i)]
           n == CHOOSE i \in 1..MaxAsks : ask(i) \notin asks /\ \A j \in 1..(i - 1) : ask(j) \in asks
<1>1. /\ asks \subseteq Ask /\ IsFiniteSet(asks) /\ Cardinality(asks) <= asked
      /\ asked \in 0..MaxAsks /\ raced \in BOOLEAN /\ MaxAsks \in Nat
  BY WorkspaceAssumption DEF TypeInv, WorkspaceTypeOK
<1>2. /\ asked < MaxAsks /\ asked' = asked + 1 /\ loading' = TRUE
      /\ asks' = asks \cup {ask(n)}
      /\ raced' = (raced \/ Races(kind, p, f, cursor))
  BY DEF SendAsk, NewAsk
<1>3. Cardinality(asks) \in Nat /\ Cardinality(asks) < MaxAsks
  BY <1>1, <1>2, FS_CardinalityType
<1>4. asking \in [1..MaxAsks -> Ask] /\ \A i, j \in 1..MaxAsks : asking[i] = asking[j] => i = j
  BY DEF Ask
<1>5. n \in 1..MaxAsks
  <2>1. \E i \in 1..MaxAsks : asking[i] \notin asks /\ \A j \in 1..(i - 1) : asking[j] \in asks
    <3> HIDE DEF asking
    <3> QED
      BY <1>1, <1>3, <1>4, FreeNumber
  <2>2. \A i \in 1..MaxAsks : \A j \in 1..(i - 1) : j \in 1..MaxAsks
    BY <1>1
  <2>3. \E i \in 1..MaxAsks : ask(i) \notin asks /\ \A j \in 1..(i - 1) : ask(j) \in asks
    BY <2>1, <2>2
  <2> HIDE DEF ask
  <2> QED
    BY <2>3
<1>6. ask(n) \in Ask
  <2> HIDE DEF n
  <2> QED
    BY <1>5 DEF Ask
<1> HIDE DEF ask, n
<1>7. IsFiniteSet(asks') /\ Cardinality(asks') <= Cardinality(asks) + 1
  <2>1. /\ IsFiniteSet(asks \cup {ask(n)})
        /\ ask(n) \in asks => Cardinality(asks \cup {ask(n)}) = Cardinality(asks)
        /\ ask(n) \notin asks => Cardinality(asks \cup {ask(n)}) = Cardinality(asks) + 1
    BY <1>1, FS_AddElement
  <2> QED
    BY <1>2, <1>3, <2>1
<1>8. Cardinality(asks') \in Nat
  BY <1>7, FS_CardinalityType
<1>9. raced' \in BOOLEAN
  BY <1>1, <1>2 DEF Races
<1> QED
  BY <1>1, <1>2, <1>3, <1>6, <1>7, <1>8, <1>9

\* The empty view is a view.
LEMMA NoLogsTyped == NoLogs \in Shown
  BY DEF NoLogs, Shown

\* refetch keeps the types, and shows nothing or leaves what is shown.
LEMMA RefetchTyped ==
  ASSUME TypeInv, NEW f \in Filters, NEW cursor \in BOOLEAN, Refetch(f, cursor)
  PROVE  /\ shown' \in Shown /\ asks' \subseteq Ask /\ asked' \in 0..MaxAsks
         /\ loading' \in BOOLEAN /\ raced' \in BOOLEAN /\ rowsProject' \in Projects \cup {None}
         /\ IsFiniteSet(asks') /\ Cardinality(asks') <= asked'
<1>1. /\ shown \in Shown /\ rowsProject \in Projects \cup {None} /\ project \in Projects \cup {None}
      /\ asks \subseteq Ask /\ asked \in 0..MaxAsks /\ loading \in BOOLEAN /\ raced \in BOOLEAN
      /\ IsFiniteSet(asks) /\ Cardinality(asks) <= asked
  BY DEF TypeInv, WorkspaceTypeOK, ProjectTypeOK
<1>2. CASE ~OnLogsRoute \/ context
  BY <1>1, <1>2 DEF Refetch
<1>3. CASE OnLogsRoute /\ ~context /\ project = None
  BY <1>1, <1>3, NoLogsTyped DEF Refetch, ApplyEmpty, Show
<1>4. CASE OnLogsRoute /\ ~context /\ project # None
  <2>1. SendAsk("page", project, f, cursor) /\ UNCHANGED <<shown, rowsProject>>
    BY <1>4 DEF Refetch
  <2> QED
    BY <1>1, <1>4, <2>1, AskTyped
<1> QED
  BY <1>2, <1>3, <1>4

\* The user's events on the log views keep the types.
LEMMA LogsUserTyped ==
  ASSUME TypeInv, LogsUser, UNCHANGED projectVars, moves' \in 0..MaxMoves PROVE TypeInv'
<1>1. ProjectTypeOK'
  BY DEF TypeInv, WorkspaceTypeOK, ProjectTypeOK, projectVars
<1> USE DEF TypeInv, WorkspaceTypeOK
<1>2. project \in Projects \cup {None}
  BY DEF ProjectTypeOK
<1>3. ASSUME NEW r \in {"logs", "boards", "away"}, Navigate(r) PROVE TypeInv'
  BY <1>1, <1>3 DEF Navigate
<1>4. ASSUME NEW q \in Queries, TypeQuery(q) PROVE TypeInv'
  <2>1. [draft EXCEPT !.query = q] \in Filters
    BY DEF Filters
  <2> QED
    BY <1>1, <1>4, <2>1 DEF TypeQuery
<1>5. ASSUME NEW r \in Ranges, PickRange(r) PROVE TypeInv'
  <2>1. [draft EXCEPT !.range = r] \in Filters
    BY DEF Filters
  <2> QED
    BY <1>1, <1>5, <2>1 DEF PickRange
<1>6. ASSUME NEW r \in Ranges, BoardRange(r) PROVE TypeInv'
  <2>1. [draft EXCEPT !.range = r] \in Filters /\ [applied EXCEPT !.range = r] \in Filters
    BY DEF Filters
  <2>2. /\ applied' \in Filters /\ draft' \in Filters
        /\ UNCHANGED <<route, context, cache>>
    BY <1>6, <2>1 DEF BoardRange
  <2>3. CASE context
    BY <1>1, <1>6, <2>2, <2>3 DEF BoardRange
  <2>4. CASE ~context
    <3>1. Refetch([applied EXCEPT !.range = r], FALSE)
      BY <1>6, <2>4 DEF BoardRange
    <3> QED
      BY <1>1, <2>1, <2>2, <3>1, RefetchTyped
  <2> QED
    BY <2>3, <2>4
<1>7. CASE Run
  <2>1. /\ Refetch(draft, FALSE) /\ applied' = draft
        /\ UNCHANGED <<route, draft, context, cache>>
    BY <1>7 DEF Run
  <2> QED
    BY <1>1, <2>1, RefetchTyped
<1>8. CASE LoadMore \/ BoardRefresh
  <2>1. \E cursor \in BOOLEAN : Refetch(applied, cursor)
    BY <1>8 DEF LoadMore, BoardRefresh
  <2>2. UNCHANGED <<route, draft, applied, context, cache>>
    BY <1>8 DEF LoadMore, BoardRefresh
  <2> QED
    BY <1>1, <2>1, <2>2, RefetchTyped
<1>9. CASE EnterContext
  <2>1. /\ rowsProject \in Projects /\ SendAsk("context", rowsProject, None, FALSE)
        /\ context' = TRUE /\ rowsProject' = project /\ UNCHANGED <<route, draft, applied, shown>>
    BY <1>9 DEF EnterContext
  <2>2. cache' \in Shown \cup {NoCache}
    BY <1>9 DEF EnterContext, CacheSearch
  <2> QED
    BY <1>1, <1>2, <2>1, <2>2, AskTyped
<1>10. CASE ExitContext
  <2>1. /\ context' = FALSE /\ cache' = NoCache /\ raced' = (raced \/ asks # {})
        /\ UNCHANGED <<route, draft, applied, loading, asks, asked>>
    BY <1>10 DEF ExitContext
  <2>2. shown' \in Shown /\ rowsProject' \in Projects \cup {None}
    BY <1>2, <1>10 DEF ExitContext, Show
  <2> QED
    BY <1>1, <2>1, <2>2
<1> QED
  BY <1>3, <1>4, <1>5, <1>6, <1>7, <1>8, <1>9, <1>10 DEF LogsUser

\* Answers and effects keep the types.
LEMMA SettleTyped ==
  ASSUME TypeInv, Settle, UNCHANGED <<projectVars, moves>> PROVE TypeInv'
<1>1. ProjectTypeOK'
  BY DEF TypeInv, WorkspaceTypeOK, ProjectTypeOK, projectVars
<1> USE DEF TypeInv, WorkspaceTypeOK
<1>2. project \in Projects \cup {None}
  BY DEF ProjectTypeOK
<1>3. ASSUME NEW a \in asks
      PROVE  IsFiniteSet(asks \ {a}) /\ Cardinality(asks \ {a}) <= asked
  <2>1. /\ Cardinality(asks) \in Nat /\ Cardinality(asks \ {a}) \in Nat
        /\ IsFiniteSet(asks \ {a}) /\ Cardinality(asks \ {a}) <= Cardinality(asks)
    BY FS_Subset, FS_CardinalityType
  <2>2. Cardinality(asks) <= asked /\ asked \in Nat
    BY WorkspaceAssumption
  <2> QED
    BY <2>1, <2>2
<1>4. ASSUME NEW a \in asks, NEW more \in BOOLEAN, Arrives(a, more) PROVE TypeInv'
  <2>1. a \in Ask
    OBVIOUS
  <2>2. [kind |-> a.kind, project |-> a.project, filter |-> a.filter,
         older |-> more /\ a.kind = "page", newer |-> a.cursor] \in Shown
    <3>1. /\ a.kind \in {"page", "context"} /\ a.project \in Projects
          /\ a.filter \in Filters \cup {None} /\ a.cursor \in BOOLEAN
      BY <2>1 DEF Ask
    <3>2. (more /\ a.kind = "page") \in BOOLEAN
      OBVIOUS
    <3> QED
      BY <3>1, <3>2 DEF Shown
  <2>3. /\ asks' = asks \ {a} /\ loading' = FALSE /\ shown' \in Shown
        /\ rowsProject' = project
        /\ UNCHANGED <<route, draft, applied, context, cache, asked, raced>>
    BY <1>4, <2>2 DEF Arrives, Show, Finish
  <2> QED
    BY <1>1, <1>2, <1>3, <2>3
<1>5. ASSUME NEW a \in asks, Fails(a) PROVE TypeInv'
  <2>1. /\ asks' = asks \ {a} /\ loading' = FALSE
        /\ shown' \in Shown /\ rowsProject' \in Projects \cup {None}
        /\ UNCHANGED <<route, draft, applied, context, cache, asked, raced>>
    BY <1>2, <1>5, NoLogsTyped DEF Fails, Show, Finish
  <2> QED
    BY <1>1, <1>3, <2>1
<1>6. CASE LoadEffect
  <2>1. UNCHANGED <<route, draft, applied, context, cache>>
    BY <1>6 DEF LoadEffect
  <2>2. CASE ~OnLogsRoute
    BY <1>1, <1>6, <2>1, <2>2 DEF LoadEffect
  <2>3. CASE OnLogsRoute /\ project = None
    BY <1>1, <1>2, <1>6, <2>1, <2>3, NoLogsTyped DEF LoadEffect, ApplyEmpty, Show
  <2>4. CASE OnLogsRoute /\ project # None
    <3>1. Refetch(applied, FALSE)
      BY <1>6, <2>4 DEF LoadEffect
    <3> QED
      BY <1>1, <2>1, <3>1, RefetchTyped
  <2> QED
    BY <2>2, <2>3, <2>4
<1>7. CASE BoardEffect
  <2>1. Refetch(applied, FALSE) /\ UNCHANGED <<route, draft, applied, context, cache>>
    BY <1>7 DEF BoardEffect
  <2> QED
    BY <1>1, <2>1, RefetchTyped
<1> QED
  BY <1>4, <1>5, <1>6, <1>7 DEF Settle, LogsAnswers

\* What the projects go through keeps their types: ids are listed, computed and chosen.
LEMMA ProjectsTyped ==
  ASSUME ProjectTypeOK, ProjectsInv,
         \/ Mount \/ ProjectUserStep \/ ProjectAnswers \/ ProjectServer \/ OtherTabs
         \/ UNCHANGED projectVars,
         ProjectsInv'
  PROVE  ProjectTypeOK'
<1> USE DEF ProjectTypeOK, storage, serverState, shell, lists, dialog
<1>1. creates' \subseteq Create /\ {server', projects', answer'} \subseteq Seq(Projects) /\ fresh' \subseteq Projects
  BY DEF ProjectsInv, CreateInv, ListInv
<1>2. project' \in Projects \cup {None}
  BY <1>1, Listed DEF ProjectsInv, ActiveInv
<1>3. CASE Mount
  <2>1. mounts' \in 0..MaxMounts
    <3>1. mounts \in 0..MaxMounts /\ MaxMounts \in Nat
      BY ProjectStoreAssumption
    <3>2. mounts < MaxMounts /\ mounts' = mounts + 1
      BY <1>3 DEF Mount
    <3> QED
      BY <3>1, <3>2
  <2>2. /\ {works', mounted', createOpen', submitting', early', elsewhere', reopened'} \subseteq BOOLEAN
        /\ saved' = saved /\ status' = "loading" /\ listing' = "asked"
    BY <1>3 DEF Mount
  <2> QED
    BY <1>1, <1>2, <2>1, <2>2
<1>4. CASE Unmount \/ Reload \/ OpenCreate \/ CloseCreate
  BY <1>1, <1>2, <1>4 DEF Unmount, Reload, OpenCreate, CloseCreate
<1>5. ASSUME NEW p \in Projects, SetProject(p) \/ Submit(p) PROVE ProjectTypeOK'
  <2>1. saved' \in Projects \cup {None}
    BY <1>5 DEF SetProject, Submit, SaveProjectId
  <2>2. CASE SetProject(p)
    BY <1>1, <1>2, <2>1, <2>2 DEF SetProject
  <2>3. CASE Submit(p)
    BY <1>1, <1>2, <2>1, <2>3 DEF Submit, CanSubmit
  <2> QED
    BY <1>5, <2>2, <2>3
<1>6. CASE ListArrives \/ ListFails \/ ListIsComputed
  BY <1>1, <1>2, <1>6 DEF ListArrives, ListFails, ListIsComputed
<1>7. ASSUME NEW c \in creates, CreateIsDone(c) \/ CreateSucceeds(c) \/ CreateFails(c)
      PROVE  ProjectTypeOK'
  <2>1. c.id \in Projects /\ c.here \in BOOLEAN
    BY DEF Create
  <2>2. CASE CreateIsDone(c) \/ CreateFails(c)
    BY <1>1, <1>2, <2>1, <2>2 DEF CreateIsDone, CreateFails
  <2>3. CASE CreateSucceeds(c)
    <3>1. saved' \in Projects \cup {None}
      BY <2>1, <2>3 DEF CreateSucceeds, SaveCreated, SaveProjectId
    <3> QED
      BY <1>1, <1>2, <2>1, <2>3, <3>1 DEF CreateSucceeds
  <2> QED
    BY <1>7, <2>2, <2>3
<1>8. ASSUME NEW p \in Projects, CreatedElsewhere(p) \/ SavedElsewhere(p) PROVE ProjectTypeOK'
  <2>1. saved' \in Projects \cup {None}
    BY <1>8 DEF CreatedElsewhere, SavedElsewhere, SaveProjectId
  <2>2. CASE CreatedElsewhere(p)
    BY <1>1, <1>2, <2>1, <2>2 DEF CreatedElsewhere
  <2>3. CASE SavedElsewhere(p)
    BY <1>1, <1>2, <2>1, <2>3 DEF SavedElsewhere
  <2> QED
    BY <1>8, <2>2, <2>3
<1>9. CASE UNCHANGED projectVars
  BY <1>9 DEF projectVars
<1> QED
  BY <1>3, <1>4, <1>5, <1>6, <1>7, <1>8, <1>9
  DEF ProjectUserStep, ProjectAnswers, ProjectServer, OtherTabs

\* TypeInv is inductive relative to ProjectsInv.
LEMMA TypeNext == TypeInv /\ ProjectsInv /\ [Next]_vars => TypeInv'
<1> SUFFICES ASSUME TypeInv, ProjectsInv, [Next]_vars PROVE TypeInv'
  OBVIOUS
<1>1. ProjectTypeOK'
  BY ProjectsNext, ProjectPart, ProjectsTyped DEF TypeInv, WorkspaceTypeOK
<1>2. moves' \in 0..MaxMoves
  <2>1. moves \in 0..MaxMoves /\ MaxMoves \in Nat
    BY WorkspaceAssumption DEF TypeInv, WorkspaceTypeOK
  <2> QED
    BY <2>1 DEF Next, User, vars
<1>3. CASE LogsStart /\ UNCHANGED route
  <2>1. asked' \in 0..MaxAsks /\ route' \in {"logs", "boards", "away"}
    BY <1>3 DEF LogsStart, TypeInv, WorkspaceTypeOK
  <2>2. /\ {draft', applied'} \subseteq Filters /\ shown' \in Shown
        /\ cache' \in Shown \cup {NoCache} /\ rowsProject' \in Projects \cup {None}
    BY <1>3, NoLogsTyped, WorkspaceAssumption DEF LogsStart
  <2>3. /\ {loading', context', raced'} \subseteq BOOLEAN /\ asks' \subseteq Ask
        /\ IsFiniteSet(asks')
    BY <1>3, FS_EmptySet DEF LogsStart
  <2>4. Cardinality(asks') <= asked'
    <3>1. Cardinality(asks') = 0
      BY <1>3, FS_EmptySet DEF LogsStart
    <3>2. asked' \in Nat
      BY <2>1
    <3> QED
      BY <3>1, <3>2
  <2> QED
    BY <1>1, <1>2, <2>1, <2>2, <2>3, <2>4 DEF TypeInv, WorkspaceTypeOK
<1>4. CASE ProjectsChange
  BY <1>1, <1>2, <1>4 DEF ProjectsChange, TypeInv, WorkspaceTypeOK
<1>5. CASE LogsUser /\ UNCHANGED projectVars
  BY <1>2, <1>5, LogsUserTyped
<1>6. CASE Settle /\ UNCHANGED <<projectVars, moves>>
  BY <1>6, SettleTyped
<1>7. CASE UNCHANGED logsVars
  BY <1>1, <1>2, <1>7 DEF logsVars, TypeInv, WorkspaceTypeOK
<1>8. \/ LogsStart /\ UNCHANGED route
      \/ ProjectsChange
      \/ LogsUser /\ UNCHANGED projectVars
      \/ Settle /\ UNCHANGED <<projectVars, moves>>
      \/ UNCHANGED logsVars
  BY DEF Next, User, vars
<1> QED
  BY <1>3, <1>4, <1>5, <1>6, <1>7, <1>8

\* Everything the shell and the log views hold is of the kind the code gives it, whatever
\* arrives when; a request is always numbered, and no more are out than the bound allows.
THEOREM WorkspaceTypes == Spec => []WorkspaceTypeOK
<1>1. Init => TypeInv
  <2> SUFFICES ASSUME Init PROVE TypeInv
    OBVIOUS
  <2>1. ProjectTypeOK
    <3>1. ProjectInit
      BY DEF Init
    <3>2. {server, projects, answer} \subseteq Seq(Projects)
      <4>1. \A p \in Projects : <<p>> \in Seq(Projects)
        OBVIOUS
      <4> QED
        BY <3>1, <4>1, EmptyList DEF ProjectInit
    <3>3. {saved, project} \subseteq Projects \cup {None} /\ fresh \subseteq Projects
      BY <3>1 DEF ProjectInit
    <3>4. mounts \in 0..MaxMounts
      BY <3>1, ProjectStoreAssumption DEF ProjectInit
    <3>5. /\ {works, mounted, createOpen, submitting, early, elsewhere, reopened} \subseteq BOOLEAN
          /\ status \in {"loading", "ready", "error"} /\ listing \in {"none", "asked", "answered"}
          /\ creates \subseteq Create
      BY <3>1 DEF ProjectInit
    <3> QED
      BY <3>2, <3>3, <3>4, <3>5 DEF ProjectTypeOK
  <2>2. asked = 0 /\ moves = 0 /\ asked \in 0..MaxAsks /\ moves \in 0..MaxMoves
    BY WorkspaceAssumption DEF Init
  <2>3. /\ route \in {"logs", "boards", "away"} /\ {draft, applied} \subseteq Filters
        /\ shown \in Shown /\ cache \in Shown \cup {NoCache}
        /\ {loading, context, raced} \subseteq BOOLEAN /\ asks \subseteq Ask
        /\ rowsProject \in Projects \cup {None}
    BY NoLogsTyped, WorkspaceAssumption DEF Init
  <2>4. IsFiniteSet(asks) /\ Cardinality(asks) = 0
    BY FS_EmptySet DEF Init
  <2> QED
    BY <2>1, <2>2, <2>3, <2>4 DEF TypeInv, WorkspaceTypeOK
<1>2. TypeInv => WorkspaceTypeOK
  BY DEF TypeInv
<1> QED
  BY <1>1, <1>2, TypeNext, ProjectsInvariant, PTL DEF Spec
=============================================================================
