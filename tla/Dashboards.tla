----------------------------- MODULE Dashboards -----------------------------
(***************************************************************************)
(* The dashboards of the web application (apps/web): the store of          *)
(* lib/dashboards/dashboards-store.tsx, the dashboard view with its canvas *)
(* of twelve columns, its toolbar and the sheet that adds widgets, and the *)
(* dialog that makes a dashboard.                                          *)
(*                                                                         *)
(* The site is exported with a page for each dashboard of the mock data    *)
(* (next.config.ts, static-params.ts) and served with 404 for any other    *)
(* (nginx.conf): the page of a dashboard made later cannot be shown.       *)
(* Names, contents of widgets and the order of lists are left out.         *)
(*                                                                         *)
(* Where two definitions of one thing stand together, such as CopyShifted  *)
(* and CopyColumn, the first is a plausible slip that no specification     *)
(* uses: it is put in the place of the second to see that a property       *)
(* notices.                                                                *)
(***************************************************************************)
EXTENDS SavedState

CONSTANTS
  Mock,       \* MOCK_DASHBOARDS: the widgets of each exported dashboard
  Catalog     \* WIDGET_CATALOG: sizes a widget may be added with

Columns == 12
Widget == [id: Nat, x: Nat, y: Nat, w: Nat, h: Nat \ {0}]

WidgetIds(layout) == UNION {{w.id : w \in layout[b]} : b \in Boards}
FitsGrid(w) == w.x >= 1 /\ w.x + w.w - 1 <= Columns

\* The widgets of the mock data lie within the grid, and their ids differ, over all
\* dashboards: they stand for numbers from 1.
ASSUME DashboardsAssumption ==
  /\ IsFiniteSet(Boards)
  /\ Mock \in [Boards -> SUBSET Widget]
  /\ \A b \in Boards : IsFiniteSet(Mock[b]) /\ \A w \in Mock[b] : FitsGrid(w)
  /\ WidgetIds(Mock) \subseteq 1..Cardinality(WidgetIds(Mock))
  /\ \A b, c \in Boards : b # c => \A v \in Mock[b], w \in Mock[c] : v.id # w.id
  /\ Catalog \subseteq [w: 1..Columns, h: Nat \ {0}]

VARIABLES
  kept,       \* localStorage: what each dashboard holds, or NoBoards
  boards,     \* React state of a tab: what each dashboard holds, and how many were made
  loaded,     \* what the tab read and will be rendered with, or NoBoards
  editMode,   \* React state of the view
  selected,   \* React state of the view: a widget's id, or 0
  widgets,    \* number of widgets made
  wanted,     \* history: the widgets the user has added or found, and not removed
  created     \* history: number of dashboards made

boardVars == <<kept, boards, loaded, editMode, selected, widgets, wanted, created>>

NoBoards == [layout |-> [b \in Boards |-> {}], made |-> 0, there |-> FALSE]
MockBoards == [layout |-> Mock, made |-> 0, there |-> TRUE]

Held(s) == WidgetIds(s.layout)

BoardsState == [layout: [Boards -> SUBSET Widget], made: 0..MaxEdits, there: BOOLEAN]

DashboardsTypeOK ==
  /\ kept \in BoardsState
  /\ boards \in [Tabs -> BoardsState] /\ loaded \in [Tabs -> BoardsState]
  /\ editMode \in [Tabs -> BOOLEAN] /\ selected \in [Tabs -> Nat]
  /\ widgets \in 0..MaxEdits /\ wanted \subseteq Nat /\ created \in 0..MaxEdits

DashboardsInit ==
  /\ kept = NoBoards
  /\ boards = [t \in Tabs |-> NoBoards] /\ loaded = [t \in Tabs |-> NoBoards]
  /\ editMode = [t \in Tabs |-> FALSE] /\ selected = [t \in Tabs |-> 0]
  /\ widgets = 0 /\ wanted = Held(MockBoards) /\ created = 0

-----------------------------------------------------------------------------
(* The provider, mounted with the view of a dashboard.                     *)

OpenBoards(t, b) ==
  /\ MountView(t, b)
  /\ boards' = [boards EXCEPT ![t] = MockBoards]
  /\ UNCHANGED <<kept, loaded, editMode, selected, widgets, wanted, created>>

LoadBoardsAfterSave(t) == boards[t]
\* loadPersisted
LoadPersisted(t) == kept

\* The two effects: what is kept is read, then the mock data is kept.
BoardsEffects(t) ==
  /\ view[t] \in Boards /\ phase[t] = "fresh"
  /\ loaded' = [loaded EXCEPT ![t] = LoadPersisted(t)]
  /\ kept' = boards[t]
  /\ GoesTo(t, IF LoadPersisted(t).there THEN "loading" ELSE "ready")
  /\ UNCHANGED <<boards, editMode, selected, widgets, wanted, created>>

ShowLoaded(t) ==
  /\ view[t] \in Boards /\ phase[t] = "loading"
  /\ boards' = [boards EXCEPT ![t] = loaded[t]]
  /\ loaded' = [loaded EXCEPT ![t] = NoBoards]
  /\ GoesTo(t, "loaded")
  /\ UNCHANGED <<kept, editMode, selected, widgets, wanted, created>>

KeepBoards(t) ==
  /\ view[t] \in Boards /\ phase[t] = "loaded"
  /\ kept' = boards[t]
  /\ GoesTo(t, "ready")
  /\ UNCHANGED <<boards, loaded, editMode, selected, widgets, wanted, created>>

ViewGone(t) ==
  /\ editMode' = [editMode EXCEPT ![t] = FALSE] /\ selected' = [selected EXCEPT ![t] = 0]

LeaveBoards(t) ==
  /\ view[t] \in Boards /\ UnmountView(t) /\ UNCHANGED edits
  /\ boards' = [boards EXCEPT ![t] = NoBoards] /\ loaded' = [loaded EXCEPT ![t] = NoBoards]
  /\ ViewGone(t)
  /\ UNCHANGED <<kept, widgets, wanted, created>>

\* A link of the side bar: the provider stays, the view is a new one.
OpenBoard(t, b) ==
  /\ Ready(t, "boards") /\ b # view[t]
  /\ view' = [view EXCEPT ![t] = b]
  /\ ViewGone(t)
  /\ UNCHANGED <<phase, mounts, edits, disturbed, kept, boards, loaded, widgets, wanted, created>>

\* createDashboard: an empty one, first in the list.
WithNewBoard(s) == [s EXCEPT !.made = @ + 1]

\* A new dashboard is kept; then its page is asked for, which is a document of its own
\* that does not exist: the tab shows none of the application.
CreateDashboard(t) ==
  /\ Ready(t, "boards") /\ Edit
  /\ created' = created + 1
  /\ kept' = WithNewBoard(boards[t])
  /\ UnmountView(t)
  /\ boards' = [boards EXCEPT ![t] = NoBoards]
  /\ ViewGone(t)
  /\ UNCHANGED <<loaded, widgets, wanted>>

-----------------------------------------------------------------------------
(* The view.                                                               *)

Layout(t) == boards[t].layout[view[t]]

\* The toolbar's Edit and Done editing.
ToggleEdit(t) ==
  /\ Ready(t, "boards")
  /\ editMode' = [editMode EXCEPT ![t] = ~@]
  /\ selected' = [selected EXCEPT ![t] = IF editMode[t] THEN 0 ELSE @]
  /\ UNCHANGED <<tabVars, kept, boards, loaded, widgets, wanted, created>>

\* A click on a widget of the canvas.
SelectWidget(t, w) ==
  /\ Ready(t, "boards") /\ editMode[t] /\ w \in Layout(t)
  /\ selected' = [selected EXCEPT ![t] = IF @ = w.id THEN 0 ELSE w.id]
  /\ UNCHANGED <<tabVars, kept, boards, loaded, editMode, widgets, wanted, created>>

\* updateDashboard, with its effect.
SetLayout(t, l) ==
  LET s == [boards[t] EXCEPT !.layout[view[t]] = l]
  IN boards' = [boards EXCEPT ![t] = s] /\ kept' = s

NewId == Cardinality(Held(MockBoards)) + widgets + 1

\* nextWidgetY
NextWidgetY(l) ==
  IF l = {} THEN 1 ELSE 1 + Max({w.y + w.h : w \in l})

\* addWidget: below all others, at the left.
WithWidget(l, s) ==
  l \cup {[id |-> NewId, x |-> 1, y |-> NextWidgetY(l), w |-> s.w, h |-> s.h]}

\* The sheet opens from the toolbar in edit mode, and from an empty canvas.
SheetOffered(t) == editMode[t] \/ Layout(t) = {}

AddWidget(t, s) ==
  /\ Ready(t, "boards") /\ Edit
  /\ SheetOffered(t)
  /\ SetLayout(t, WithWidget(Layout(t), s))
  /\ widgets' = widgets + 1 /\ wanted' = wanted \cup {NewId}
  /\ UNCHANGED <<showing, loaded, editMode, selected, created>>

CopyShifted(w) == w.x + 1
\* The column of a copy.
CopyColumn(w) == Min({w.x + 1, Columns - w.w + 1})

\* The selected widget has its buttons in edit mode.
ButtonsShown(t, w) == editMode[t] /\ w \in Layout(t) /\ w.id = selected[t]

\* handleDuplicate
DuplicateWidget(t, w) ==
  /\ Ready(t, "boards") /\ ButtonsShown(t, w) /\ Edit
  /\ SetLayout(t, Layout(t) \cup
       {[w EXCEPT !.id = NewId, !.x = CopyColumn(w), !.y = w.y + w.h]})
  /\ selected' = [selected EXCEPT ![t] = NewId]
  /\ widgets' = widgets + 1 /\ wanted' = wanted \cup {NewId}
  /\ UNCHANGED <<showing, loaded, editMode, created>>

\* removeWidget
WithoutWidget(l, w) == {v \in l : v.id # w.id}

RemoveWidget(t, w) ==
  /\ Ready(t, "boards") /\ ButtonsShown(t, w) /\ Edit
  /\ SetLayout(t, WithoutWidget(Layout(t), w))
  /\ selected' = [selected EXCEPT ![t] = 0]
  /\ wanted' = wanted \ {w.id}
  /\ UNCHANGED <<showing, loaded, editMode, widgets, created>>

-----------------------------------------------------------------------------
DashboardsUser(t) ==
  \/ CreateDashboard(t) \/ ToggleEdit(t)
  \/ \E b \in Boards : OpenBoard(t, b)
  \/ \E s \in Catalog : AddWidget(t, s)
  \/ \E w \in UNION {boards[t].layout[b] : b \in Boards} :
       SelectWidget(t, w) \/ DuplicateWidget(t, w) \/ RemoveWidget(t, w)

DashboardsReact(t) == BoardsEffects(t) \/ ShowLoaded(t) \/ KeepBoards(t)

-----------------------------------------------------------------------------
(* Properties.                                                             *)

\* Every widget, however often it was copied, lies within the columns of the canvas
\* (addWidget, handleDuplicate).
WidgetsFitGrid ==
  \A s \in {kept} \cup Range(boards) : \A b \in Boards : \A w \in s.layout[b] : FitsGrid(w)

\* The widgets the user has and the dashboards made are kept, no more and no fewer, unless
\* two tabs had dashboards open or one was closed between the two effects and the storing of
\* what was read (the effects of DashboardsStoreProvider).
WidgetsSurvive ==
  "boards" \notin disturbed =>
    \E s \in {kept, MockBoards} \cup Range(boards) \cup Range(loaded) :
      /\ Held(s) = wanted /\ s.made = created
      /\ \/ s = kept
         \/ kept = NoBoards
         \/ \E t \in Tabs : view[t] \in Boards /\ phase[t] \in {"loading", "loaded"}
=============================================================================
