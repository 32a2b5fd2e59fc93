----------------------------- MODULE SavedState -----------------------------
(***************************************************************************)
(* How the web application (apps/web) keeps the Assist conversations and   *)
(* the dashboards: a provider holds everything in React state while one of *)
(* its routes is shown, reads localStorage once, when it is mounted, and   *)
(* writes all of it back after every change.  No provider listens to what  *)
(* other tabs write.                                                       *)
(*                                                                         *)
(* The effects of the first rendering run in the order they are written:   *)
(* one reads what is stored and asks for another rendering with it, the    *)
(* next stores what was rendered first.  A tab goes through the phases     *)
(*   "away"     no provider                                                *)
(*   "fresh"    rendered with the initial state, effects to come           *)
(*   "loading"  effects done, the rendering with what was read to come     *)
(*   "loaded"   rendered with what was read, the effect that stores it     *)
(*              to come                                                    *)
(*   "unsaved"  something else to store was rendered                       *)
(*   "ready"    rendered and stored                                        *)
(* What the user does comes when the tab is ready: React finishes effects  *)
(* before it handles a click.  Storing never fails here.                   *)
(***************************************************************************)
EXTENDS BrowserTabs, Naturals, Sequences, FiniteSets, SequencesExt

CONSTANTS
  Boards,     \* the dashboards that were exported with the site
  MaxMounts,  \* bound on how often a provider is mounted
  MaxEdits    \* bound on what the user makes or removes

ASSUME SavedStateAssumption == {MaxMounts, MaxEdits} \subseteq Nat /\ {"away", "assist"} \cap Boards = {}

VARIABLES
  view,       \* what a tab shows: "away", "assist" or a dashboard
  phase,      \* see above
  mounts,     \* how often a provider was mounted
  edits,      \* how often the user made or removed something
  disturbed   \* history: the stores another tab, or a close while loading, interfered with

tabVars == <<view, phase, mounts, edits, disturbed>>
showing == <<view, phase, mounts, disturbed>>

Stores == {"assist", "boards"}
StoreOf(v) == IF v \in Boards THEN "boards" ELSE v

TabsTypeOK ==
  /\ view \in [Tabs -> {"away", "assist"} \cup Boards]
  /\ phase \in [Tabs -> {"away", "fresh", "loading", "loaded", "unsaved", "ready"}]
  /\ \A t \in Tabs : (view[t] = "away") = (phase[t] = "away")
  /\ mounts \in 0..MaxMounts /\ edits \in 0..MaxEdits
  /\ disturbed \subseteq Stores

TabsInit ==
  /\ view = [t \in Tabs |-> "away"] /\ phase = [t \in Tabs |-> "away"]
  /\ mounts = 0 /\ edits = 0 /\ disturbed = {}

-----------------------------------------------------------------------------
\* The layout of a route, with its provider, is rendered for the first time.
MountView(t, v) ==
  /\ view[t] = "away" /\ mounts < MaxMounts
  /\ view' = [view EXCEPT ![t] = v] /\ phase' = [phase EXCEPT ![t] = "fresh"]
  /\ mounts' = mounts + 1
  /\ disturbed' = disturbed \cup
       {StoreOf(v) : u \in {u \in Tabs \ {t} : StoreOf(view[u]) = StoreOf(v)}}
  /\ UNCHANGED edits

\* Another route is shown, or the tab is closed or reloaded: a close may come at any time.
UnmountView(t) ==
  /\ view[t] # "away"
  /\ view' = [view EXCEPT ![t] = "away"] /\ phase' = [phase EXCEPT ![t] = "away"]
  /\ disturbed' = IF phase[t] \in {"loading", "loaded"}
                  THEN disturbed \cup {StoreOf(view[t])} ELSE disturbed
  /\ UNCHANGED mounts

GoesTo(t, p) == phase' = [phase EXCEPT ![t] = p] /\ UNCHANGED <<view, mounts, edits, disturbed>>

Edit == edits < MaxEdits /\ edits' = edits + 1

\* The user's turn, on store s.
Ready(t, s) == StoreOf(view[t]) = s /\ phase[t] = "ready"
=============================================================================
