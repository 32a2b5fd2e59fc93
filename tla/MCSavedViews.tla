---------------------------- MODULE MCSavedViews ----------------------------
(* Small instances of SavedViews for TLC. *)
EXTENDS SavedViews, TLC

CONSTANTS t1, t2, b1, b2

TwoTabs == {t1, t2}
TwoBoards == {b1, b2}
TabSymmetry == Permutations(TwoTabs)

\* One dashboard with a widget at the right of the canvas, and an empty one.
SmallMock ==
  (b1 :> {[id |-> 1, x |-> 9, y |-> 1, w |-> 4, h |-> 2]}) @@ (b2 :> {})
SmallCatalog == {[w |-> 8, h |-> 4]}
=============================================================================
