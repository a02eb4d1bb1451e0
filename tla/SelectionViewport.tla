--------------------------- MODULE SelectionViewport ---------------------------
(***************************************************************************)
(* Which items of a list are in view (widgets/selection_viewport_priv.c):  *)
(* used by the menu and by the suggestions.                                *)
(***************************************************************************)
EXTENDS Integers

Least(a, b) == IF a < b THEN a ELSE b

(* A slip for Update: a first item beyond the last full window is kept.    *)
UpdateUnclamped(firstVisible, selected, itemCount, visibleCount) ==
  CASE selected < firstVisible -> selected
    [] selected >= firstVisible + visibleCount -> selected - visibleCount + 1
    [] OTHER -> firstVisible

(* SelectionViewport_update.                                               *)
Update(firstVisible, selected, itemCount, visibleCount) ==
  LET first == Least(firstVisible, itemCount - visibleCount)
  IN  CASE selected < first -> selected
        [] selected >= first + visibleCount -> selected - visibleCount + 1
        [] OTHER -> first
=============================================================================
