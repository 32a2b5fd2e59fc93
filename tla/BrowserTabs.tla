----------------------------- MODULE BrowserTabs -----------------------------
(***************************************************************************)
(* The tabs of one browser on the origin of the web application (apps/web).*)
(* They share localStorage and nothing else: what a tab shows is its own.  *)
(***************************************************************************)
CONSTANT Tabs
=============================================================================
