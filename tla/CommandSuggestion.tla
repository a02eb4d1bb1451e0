-------------------------- MODULE CommandSuggestion --------------------------
(***************************************************************************)
(* The window of suggestions above the composer                            *)
(* (widgets/command_suggestion.c): how many candidates it shows, which, and*)
(* where.  The composer grows and shrinks with its text, the terminal with *)
(* the user's wishes, and the list with what is typed, while the window is *)
(* open.                                                                   *)
(***************************************************************************)
EXTENDS SelectionViewport

CONSTANTS
  MaxRows,     (* COMMAND_SUGGESTION_MAX_ROWS_                              *)
  Heights,     (* the terminal's rows                                       *)
  InputYs,     (* where the composer begins                                 *)
  Widths,      (* the terminal's columns, the composer's, a candidate's     *)
  Counts       (* how many candidates there may be                          *)

X == 2         \* COMMAND_SUGGESTION_X_

ASSUME SuggestionAssumption ==
  /\ MaxRows \in Nat \ {0}
  /\ Heights \subseteq Nat \ {0} /\ InputYs \subseteq Int /\ Widths \subseteq Nat \ {0}
  /\ Counts \subseteq Nat \ {0}

VARIABLES
  firstVisible,
  window,      (* history: what the plane shows                             *)
  asked        (* history: the arguments of the last call                   *)

suggestionVars == <<firstVisible, window, asked>>

Hidden == [rows |-> 0, cols |-> 0, y |-> 0, first |-> 0]
NotAsked == [inputY |-> 0, count |-> 1, selected |-> 0, cols |-> 0]

(* The arguments of CommandSuggestion_show, with the terminal's size and   *)
(* the width of the widest candidate.                                      *)
Requests ==
  {r \in [inputY : InputYs, rows : Heights, cols : Widths, maxCols : Widths, width : Widths,
          count : Counts, selected : UNION {0..(n - 1) : n \in Counts}] : r.selected < r.count}

SuggestionInit == firstVisible = 0 /\ window = Hidden /\ asked = NotAsked

HideWindow ==
  /\ firstVisible' = 0 /\ window' = Hidden
  /\ UNCHANGED asked

RowsShown(count, inputY) == Least(Least(count, MaxRows), inputY)

ColsShown(maxCols, parentCols, width) ==
  Least(width + 2, Least(maxCols, parentCols - X))

Fits(r) ==
  /\ r.inputY > 0 /\ r.inputY < r.rows /\ r.cols > X
  /\ ColsShown(r.maxCols, r.cols, r.width) >= 3

(* CommandSuggestion_show.                                                 *)
Show(r) ==
  /\ asked' = [inputY |-> r.inputY, count |-> r.count, selected |-> r.selected, cols |-> r.cols]
  /\ IF Fits(r)
     THEN LET rows == RowsShown(r.count, r.inputY)
          IN  /\ firstVisible' = Update(firstVisible, r.selected, r.count, rows)
              /\ window' = [rows |-> rows, cols |-> ColsShown(r.maxCols, r.cols, r.width),
                            y |-> r.inputY - rows, first |-> firstVisible']
     ELSE firstVisible' = 0 /\ window' = Hidden

ShowAny == \E r \in Requests : Show(r)

SuggestionNext == HideWindow \/ ShowAny

SuggestionSpec == SuggestionInit /\ [][SuggestionNext]_suggestionVars

-----------------------------------------------------------------------------
\* Properties

(* The window is as high as MaxRows at the most, and is hidden as a whole. *)
SuggestionTypeOK ==
  /\ firstVisible \in Nat
  /\ window.rows \in 0..MaxRows /\ (window.rows = 0 => window = Hidden)
  /\ window.cols \in Nat /\ window.y \in Nat /\ window.first = firstVisible

(* The selected candidate is in view, whatever the list and the window     *)
(* were before, and every row shows a candidate: none is read beyond the   *)
(* end of the list.                                                        *)
SelectedShown ==
  window # Hidden =>
    /\ asked.selected \in window.first..(window.first + window.rows - 1)
    /\ window.first + window.rows <= asked.count

(* The window ends where the composer begins and is within the terminal.   *)
WithinTerminal ==
  window # Hidden =>
    /\ window.y + window.rows = asked.inputY
    /\ X + window.cols <= asked.cols

(* The list moves in its window only when it has to: to bring the selection*)
(* to the nearer edge, or to leave no row empty.                           *)
MovesLeast ==
  [][(window # Hidden /\ window' # Hidden /\ window'.first # window.first) =>
       \/ asked'.selected \in {window'.first, window'.first + window'.rows - 1}
       \/ window'.first + window'.rows = asked'.count]_suggestionVars
=============================================================================
