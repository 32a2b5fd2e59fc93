----------------------------- MODULE SavedViews -----------------------------
(***************************************************************************)
(* Tabs of the web application that show Assist and the dashboards in      *)
(* turn: each route has a provider of its own, which goes when the tab     *)
(* turns to the other, and tabs share what is stored.                      *)
(***************************************************************************)
EXTENDS Assist, Dashboards

viewsVars == <<tabVars, assistVars, boardVars>>

ViewsInit == TabsInit /\ AssistInit /\ DashboardsInit

ViewsTypeOK == TabsTypeOK /\ AssistTypeOK /\ DashboardsTypeOK

AssistStep(t) == OpenAssist(t) \/ LeaveAssist(t) \/ AssistUser(t) \/ AssistReact(t) \/ Replies(t)

BoardsStep(t) ==
  \/ \E b \in Boards : OpenBoards(t, b)
  \/ LeaveBoards(t) \/ DashboardsUser(t) \/ DashboardsReact(t)

ViewsNext ==
  \E t \in Tabs :
    \/ AssistStep(t) /\ UNCHANGED boardVars
    \/ BoardsStep(t) /\ UNCHANGED assistVars

ViewsSpec == ViewsInit /\ [][ViewsNext]_viewsVars
=============================================================================
