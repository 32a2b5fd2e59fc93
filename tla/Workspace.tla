------------------------------ MODULE Workspace ------------------------------
(***************************************************************************)
(* The log views of the web application (apps/web): the LogsStore and      *)
(* LogsData providers of lib/logs-store.tsx and lib/logs-data-context.tsx, *)
(* the logs page, the query bar, the log table and the dashboard view that *)
(* drive them, together with the projects they depend on (ProjectStore).   *)
(*                                                                         *)
(* A filter is the query and the time range of a search; the facets choose *)
(* a selection that no search uses (refetch), and are left out.  What is   *)
(* shown is told apart by the request it answers.  The effects of a        *)
(* rendering run before the next event of the user, but an answer may      *)
(* arrive before them.                                                     *)
(*                                                                         *)
(* Where two definitions of one thing stand together, such as CacheAlways  *)
(* and CacheSearch, the first is a plausible slip that no specification    *)
(* uses: it is put in the place of the second to see that a property       *)
(* notices.                                                                *)
(***************************************************************************)
EXTENDS ProjectStore

CONSTANTS
  Queries,    \* what may be typed
  Ranges,     \* time ranges
  Default,    \* the filter a page starts with
  MaxAsks,    \* bound on the requests sent for logs
  MaxMoves    \* bound on what the user does, here and in other tabs, closing the dialog apart

Filters == [query: Queries, range: Ranges]

ASSUME WorkspaceAssumption ==
  {MaxAsks, MaxMoves} \subseteq Nat /\ Default \in Filters /\ None \notin Filters

VARIABLES
  route,      \* "logs", "boards" (the dashboards) or "away"
  draft,      \* LogsStore: the filter that the query bar holds
  applied,    \* LogsStore: the filter that was run last
  shown,      \* LogsData: the logs shown, and whether there are more
  loading,    \* LogsData
  context,    \* LogsData: a log's surroundings are explored (contextLog is set)
  cache,      \* LogsData: what was shown before, or NoCache (searchCache)
  asks,       \* requests for logs not answered yet
  asked,      \* number of requests sent
  moves,      \* number of those events
  ranFor,     \* what the effect of LogsData ran for last
  boardFor,   \* what the effect of DashboardView ran for last, or None
  rowsProject,\* the project setContextLog was made with: it is not among its dependencies
  raced       \* history of this shell: see Races

logsVars == <<route, draft, applied, shown, loading, context, cache, asks, asked, ranFor,
              boardFor, rowsProject, raced>>
vars == <<projectVars, logsVars, moves>>

Shown == [kind: {"empty", "page", "context"}, project: Projects \cup {None},
          filter: Filters \cup {None}, older: BOOLEAN, newer: BOOLEAN]
NoLogs == [kind |-> "empty", project |-> None, filter |-> None, older |-> FALSE,
           newer |-> FALSE]
NoCache == [kind |-> "none"]
Ask == [n: 1..MaxAsks, kind: {"page", "context"}, project: Projects, filter: Filters \cup {None},
        cursor: BOOLEAN]

WorkspaceTypeOK ==
  /\ ProjectTypeOK
  /\ route \in {"logs", "boards", "away"}
  /\ {draft, applied} \subseteq Filters
  /\ shown \in Shown /\ cache \in Shown \cup {NoCache}
  /\ {loading, context, raced} \subseteq BOOLEAN
  /\ asks \subseteq Ask /\ asked \in 0..MaxAsks /\ moves \in 0..MaxMoves
  /\ rowsProject \in Projects \cup {None}

OnLogsRoute == route # "away"

EffectKeyOfRoute == <<OnLogsRoute, OnLogsRoute>>
\* The dependencies of the effect of LogsData, and of the one of DashboardView.
EffectKey == <<OnLogsRoute, project>>
BoardKey == <<applied, project, context>>

\* LogsData, LogsStore and the page as they are mounted.
LogsStart ==
  /\ draft' = Default /\ applied' = Default
  /\ shown' = NoLogs /\ loading' = FALSE /\ context' = FALSE /\ cache' = NoCache
  /\ asks' = {} /\ ranFor' = <<FALSE, None>> /\ boardFor' = <<>>
  /\ rowsProject' = None /\ raced' = FALSE
  /\ UNCHANGED asked

Init ==
  /\ ProjectInit
  /\ route \in {"logs", "away"}
  /\ draft = Default /\ applied = Default
  /\ shown = NoLogs /\ loading = FALSE /\ context = FALSE /\ cache = NoCache
  /\ asks = {} /\ asked = 0 /\ moves = 0 /\ ranFor = <<FALSE, None>> /\ boardFor = <<>>
  /\ rowsProject = None /\ raced = FALSE

-----------------------------------------------------------------------------
(* Fetching.                                                               *)

\* setLogs and the rest: setContextLog is made anew, with the project of this rendering.
Show(s) == shown' = s /\ rowsProject' = project

\* A request is out while another, different one is: either answer may be the last.
Races(kind, p, f, cursor) ==
  \E a \in asks : <<a.kind, a.project, a.filter, a.cursor>> # <<kind, p, f, cursor>>

\* Equal requests that are out at the same time are told apart by n.
NewAsk(kind, p, f, cursor) ==
  LET ask(i) == [n |-> i, kind |-> kind, project |-> p, filter |-> f, cursor |-> cursor]
  IN ask(CHOOSE i \in 1..MaxAsks : ask(i) \notin asks /\ \A j \in 1..(i - 1) : ask(j) \in asks)

SendAsk(kind, p, f, cursor) ==
  /\ asked < MaxAsks
  /\ asked' = asked + 1
  /\ asks' = asks \cup {NewAsk(kind, p, f, cursor)}
  /\ loading' = TRUE
  /\ raced' = (raced \/ Races(kind, p, f, cursor))

\* applyEmpty; an answer still to come overwrites it.
ApplyEmpty == Show(NoLogs) /\ raced' = (raced \/ asks # {}) /\ UNCHANGED <<asks, asked>>

\* refetch: nothing off the log routes and in a context, an empty view without a project.
Refetch(f, cursor) ==
  CASE ~OnLogsRoute \/ context ->
         UNCHANGED <<shown, rowsProject, loading, asks, asked, raced>>
    [] OnLogsRoute /\ ~context /\ project = None -> ApplyEmpty /\ loading' = FALSE
    [] OTHER -> SendAsk("page", project, f, cursor) /\ UNCHANGED <<shown, rowsProject>>

FinishOnSuccess(a, ok) == IF ok THEN FALSE ELSE loading
\* finally: the spinner goes with any answer.
Finish(a, ok) == FALSE

\* fetchFromApi and setContextLog go on: the view is replaced, whatever it has become.
Arrives(a, more) ==
  /\ a \in asks
  /\ asks' = asks \ {a}
  /\ Show([kind |-> a.kind, project |-> a.project, filter |-> a.filter,
           older |-> more /\ a.kind = "page", newer |-> a.cursor])
  /\ loading' = Finish(a, TRUE)
  /\ UNCHANGED <<route, draft, applied, context, cache, asked, ranFor, boardFor, raced>>

\* A failed search empties the view, a failed context leaves it.
Fails(a) ==
  /\ a \in asks
  /\ asks' = asks \ {a}
  /\ IF a.kind = "page" THEN Show(NoLogs) ELSE UNCHANGED <<shown, rowsProject>>
  /\ loading' = Finish(a, FALSE)
  /\ UNCHANGED <<route, draft, applied, context, cache, asked, ranFor, boardFor, raced>>

\* The effect of LogsData: "whenever the route or the active project changes".
LoadEffect ==
  /\ mounted /\ ranFor # EffectKey
  /\ ranFor' = EffectKey
  /\ CASE ~OnLogsRoute -> UNCHANGED <<shown, rowsProject, loading, asks, asked, raced>>
       [] OnLogsRoute /\ project = None -> ApplyEmpty /\ UNCHANGED loading
       [] OTHER -> Refetch(applied, FALSE)
  /\ UNCHANGED <<route, draft, applied, context, cache, boardFor>>

\* The effect of DashboardView.
BoardEffect ==
  /\ mounted /\ route = "boards" /\ boardFor # BoardKey
  /\ boardFor' = BoardKey
  /\ Refetch(applied, FALSE)
  /\ UNCHANGED <<route, draft, applied, context, cache, ranFor>>

-----------------------------------------------------------------------------
(* The user.                                                               *)

Navigate(r) ==
  /\ r # route
  /\ route' = r
  /\ boardFor' = <<>>
  /\ UNCHANGED <<draft, applied, shown, loading, context, cache, asks, asked, ranFor,
                 rowsProject, raced>>

\* The logs page shows its views only with a project.
OnLogsPage == route = "logs" /\ project # None

\* A context has its banner in the place of the query bar.
QueryBarShown == OnLogsPage /\ ~context

\* Typing, clearing, or taking a suggestion: nothing is searched for yet.
TypeQuery(q) ==
  /\ QueryBarShown /\ q # draft.query
  /\ draft' = [draft EXCEPT !.query = q]
  /\ UNCHANGED <<route, applied, shown, loading, context, cache, asks, asked, ranFor,
                 boardFor, rowsProject, raced>>

\* The time range menu of the query bar.
PickRange(r) ==
  /\ QueryBarShown /\ r # draft.range
  /\ draft' = [draft EXCEPT !.range = r]
  /\ UNCHANGED <<route, applied, shown, loading, context, cache, asks, asked, ranFor,
                 boardFor, rowsProject, raced>>

\* handleRun: applyFilters, and the filter of the query bar is searched for.
Run ==
  /\ QueryBarShown
  /\ applied' = draft
  /\ Refetch(draft, FALSE)
  /\ UNCHANGED <<route, draft, context, cache, ranFor, boardFor>>

\* The buttons below the table.
PagerEnabled == OnLogsPage /\ ~loading /\ ~context /\ (shown.older \/ shown.newer)

\* loadOlder and loadNewer go on with the filter that was run, not with the one of the bar.
LoadMore ==
  /\ PagerEnabled
  /\ Refetch(applied, TRUE)
  /\ UNCHANGED <<route, draft, applied, context, cache, ranFor, boardFor>>

CacheAlways == shown
\* The results of the search are kept, not those of a context.
CacheSearch == IF cache = NoCache THEN shown ELSE cache

\* "View in context" in the menu of a row, also inside a context.
RowOffersContext == OnLogsPage /\ shown.kind # "empty"

\* setContextLog with a log of the table
EnterContext ==
  /\ RowOffersContext /\ rowsProject # None
  /\ context' = TRUE
  /\ cache' = CacheSearch
  /\ SendAsk("context", rowsProject, None, FALSE)
  /\ rowsProject' = project
  /\ UNCHANGED <<route, draft, applied, shown, ranFor, boardFor>>

\* setContextLog(null): the answer to a context still to come overwrites what is restored.
ExitContext ==
  /\ OnLogsPage /\ context
  /\ context' = FALSE
  /\ cache' = NoCache
  /\ IF cache = NoCache THEN UNCHANGED <<shown, rowsProject>> ELSE Show(cache)
  /\ raced' = (raced \/ asks # {})
  /\ UNCHANGED <<route, draft, applied, loading, asks, asked, ranFor, boardFor>>

\* The dashboard's time range, which the query bar takes over; its effect searches once
\* more.
BoardRange(r) ==
  /\ route = "boards" /\ r # applied.range
  /\ applied' = [applied EXCEPT !.range = r]
  /\ draft' = [draft EXCEPT !.range = r]
  /\ IF context
     THEN raced' = TRUE /\ UNCHANGED <<shown, rowsProject, loading, asks, asked>>
     ELSE Refetch([applied EXCEPT !.range = r], FALSE)
  /\ UNCHANGED <<route, context, cache, ranFor, boardFor>>

\* The dashboard's refresh button and its timer.
BoardRefresh ==
  /\ route = "boards"
  /\ Refetch(applied, FALSE)
  /\ UNCHANGED <<route, draft, applied, context, cache, ranFor, boardFor>>

-----------------------------------------------------------------------------
EffectsDone == mounted => ranFor = EffectKey /\ (route = "boards" => boardFor = BoardKey)

\* The shell, or the project under the log views, changes.
ProjectsChange ==
  /\ raced' = (raced \/ (project' # project /\ (context \/ asks # {})))
  /\ UNCHANGED <<route, draft, applied, shown, loading, context, cache, asks, asked, ranFor,
                 boardFor, rowsProject>>

LogsUser ==
  /\ mounted
  /\ \/ \E r \in {"logs", "boards", "away"} : Navigate(r)
     \/ \E q \in Queries : TypeQuery(q)
     \/ \E r \in Ranges : PickRange(r) \/ BoardRange(r)
     \/ Run
     \/ LoadMore \/ EnterContext \/ ExitContext \/ BoardRefresh

LogsAnswers ==
  /\ mounted
  /\ \E a \in asks : (\E more \in BOOLEAN : Arrives(a, more)) \/ Fails(a)

User ==
  /\ EffectsDone /\ moves < MaxMoves
  /\ moves' = moves + 1
  /\ (ProjectUser /\ ProjectsChange) \/ (LogsUser /\ UNCHANGED projectVars)

Settle == LogsAnswers \/ LoadEffect \/ BoardEffect

Next ==
  \/ Mount /\ LogsStart /\ UNCHANGED <<route, moves>>
  \/ User
  \/ EffectsDone /\ CloseCreate /\ UNCHANGED <<logsVars, moves>>
  \/ ProjectAnswers /\ ProjectsChange /\ UNCHANGED moves
  \/ ProjectServer /\ UNCHANGED <<logsVars, moves>>
  \/ OtherTabs /\ moves < MaxMoves /\ moves' = moves + 1 /\ UNCHANGED logsVars
  \/ Settle /\ UNCHANGED <<projectVars, moves>>

Spec == Init /\ [][Next]_vars

\* Requests are answered or fail, and React runs the effects of what it has rendered.
FairSpec ==
  /\ Spec
  /\ WF_vars(LogsAnswers /\ UNCHANGED <<projectVars, moves>>)
  /\ WF_vars((LoadEffect \/ BoardEffect) /\ UNCHANGED <<projectVars, moves>>)

-----------------------------------------------------------------------------
(* Properties.                                                             *)

\* Entering a log's surroundings keeps the results of the search, however many are
\* entered in a row, unless answers raced; only leaving gives them up (setContextLog).
ContextKeepsSearch ==
  mounted => (context = (cache # NoCache) /\ (context /\ ~raced => cache.kind # "context"))

\* When everything has settled, what is shown was searched in the active project with the
\* applied filter, unless answers raced (Races) or the project or the range was changed
\* inside a context: those answers are applied to whatever the view has become.
CalmViewIsCurrent ==
  mounted /\ ~raced /\ asks = {} /\ EffectsDone /\ OnLogsRoute /\ ~context =>
    \/ shown = NoLogs
    \/ shown.kind = "page" /\ shown.project = project /\ shown.filter = applied

\* The spinner of the log views always goes away (the finally of refetch and setContextLog).
SpinnerStops == mounted /\ loading ~> ~mounted \/ ~loading
=============================================================================
