---------------------------- MODULE ComposerView ----------------------------
(***************************************************************************)
(* The composer on the screen: how the line wraps (widgets/input_composer  *)
(* .c), which of its rows are in view, and how SM_UI divides the terminal  *)
(* between the text view, the composer and the key bar (sm_ui.c, "Shared   *)
(* layout policy").                                                        *)
(*                                                                         *)
(* The line is a sequence of code points and the cursor a position between *)
(* them, as InputCmpsMngr leaves them.  Notcurses joins code points into   *)
(* clusters and says how many columns each takes (external).               *)
(***************************************************************************)
EXTENDS Integers, Sequences, SequencesExt, FiniteSetsExt

CONSTANTS
  Columns,         (* columns of each code point                            *)
  Joined,          (* the pairs of adjacent code points that are one cluster*)
  PromptCols,      (* INPUT_COMPOSER_PROMPT_COLS_                           *)
  ComposerMaxRows, (* INPUT_COMPOSER_MAX_ROWS_                              *)
  MainY,           (* SM_UI_MAIN_Y_                                         *)
  MainMin,         (* SM_UI_MAIN_MIN_ROWS_                                  *)
  SideMargin,      (* SM_UI_SIDE_MARGIN_COLS_                               *)
  Terminals,       (* bound: the sizes <<rows, cols>> of the terminal       *)
  MaxLength        (* bound: the code points of the line                    *)

Codepoint == DOMAIN Columns

ASSUME LayoutAssumption ==
  /\ Columns \in [Codepoint -> 0..2] /\ Joined \subseteq Codepoint \X Codepoint
  /\ PromptCols \in Nat \ {0} /\ ComposerMaxRows \in Nat \ {0}
  /\ MainY \in Nat \ {0} /\ MainMin \in Nat \ {0} /\ SideMargin \in Nat
  /\ Terminals \subseteq (Nat \ {0}) \X (Nat \ {0})

VARIABLES
  shown,       (* [text |-> code points, pos |-> those before the cursor]   *)
  terminal,    (* <<rows, cols>> of the standard plane                      *)
  inputRows, inputCols, (* of composer->plane                               *)
  inputView,   (* viewRow, cursorRow and cursorCol                          *)
  cursorVisible,
  mainRows     (* rows of the text view's frame                             *)

composerVars == <<shown, terminal, inputRows, inputCols, inputView, cursorVisible, mainRows>>

-----------------------------------------------------------------------------
\* Wrapping

(* Where the clusters of a text start, and the first and the last code     *)
(* point of the cluster that code point i is of.                           *)
ClusterHeads(text) ==
  {i \in DOMAIN text : i = 1 \/ <<text[i - 1], text[i]>> \notin Joined}

ClusterHead(text, i) == Max({h \in ClusterHeads(text) : h <= i})

ClusterEnd(text, i) ==
  Max({j \in DOMAIN text : ClusterHead(text, j) = ClusterHead(text, i)})

ColumnSums(text) ==
  LET sum[i \in 0..Len(text)] == IF i = 0 THEN 0 ELSE sum[i - 1] + Columns[text[i]]
  IN  sum

ColumnsOf(text, from, to) == ColumnSums(text)[to] - ColumnSums(text)[from - 1]

Wrapped(at, width, max) ==
  IF at.col > 0 /\ at.col + width > max THEN [row |-> at.row + 1, col |-> 0] ELSE at

(* InputComposer_advance_.                                                 *)
Advanced(at, width, max) ==
  LET w == Wrapped(at, width, max)
  IN  [w EXCEPT !.col = IF width >= max THEN max ELSE @ + width]

(* Where the text ends if it ends with its i-th code point.                *)
TextEnds(text, max) ==
  LET end[i \in 0..Len(text)] ==
        IF i = 0 THEN [row |-> 0, col |-> 0]
        ELSE Advanced(end[ClusterHead(text, i) - 1],
                      ColumnsOf(text, ClusterHead(text, i), i), max)
  IN  end

ClusterCols(text, h) == ColumnsOf(text, h, ClusterEnd(text, h))

(* Where the cluster with this head is drawn.                              *)
DrawnAt(text, max, h) == Wrapped(TextEnds(text, max)[h - 1], ClusterCols(text, h), max)

(* The cursor behind the text, which is drawn as a cluster of one column.  *)
BehindText(end) == [end EXCEPT !.col = IF @ = 0 THEN 0 ELSE @ - 1]

CellAt(row, col, max) ==
  IF col >= max THEN [row |-> row + 1, col |-> 0] ELSE [row |-> row, col |-> col]

UnderCursor(d) == ClusterHead(d.text, d.pos + 1)

(* A slip for CellIn: code points are counted for columns.                 *)
CellByCount(at, d, max) ==
  CellAt(at.row, at.col + d.pos - UnderCursor(d) + 1, max)

(* The cursor in the cluster that is drawn there.                          *)
CellIn(at, d, max) ==
  CellAt(at.row, at.col + ColumnsOf(d.text, UnderCursor(d), d.pos), max)

TextEnd(d, max) ==
  LET end == TextEnds(d.text, max)[Len(d.text)]
  IN  IF d.pos = Len(d.text) THEN Advanced(end, 1, max) ELSE end

(* InputComposer_layout_.                                                  *)
CursorCell(d, max) ==
  IF d.pos = Len(d.text) THEN BehindText(TextEnd(d, max))
  ELSE CellIn(DrawnAt(d.text, max, UnderCursor(d)), d, max)

TotalRows(d, max) == Max({TextEnd(d, max).row, CursorCell(d, max).row}) + 1

-----------------------------------------------------------------------------
\* The rows in view

(* The first row in view, as near to from as a cursor in this row lets it. *)
Following(row, from, visible) ==
  IF row < from THEN row
  ELSE IF row >= from + visible THEN row - visible + 1
  ELSE from

ViewFrom(cursor, from, visible) ==
  LET to == Following(cursor.row, from, visible)
  IN  [viewRow |-> to, cursorRow |-> cursor.row - to, cursorCol |-> cursor.col]

(* InputComposer_updateView_: the view starts as near to the row it started*)
(* at as the text and the cursor let it.                                   *)
Viewed(d, viewRow, visible, max) ==
  ViewFrom(CursorCell(d, max), Min({viewRow, Max({0, TotalRows(d, max) - visible})}), visible)

PreferredRows(d, max) == Min({ComposerMaxRows, TotalRows(d, max)})

-----------------------------------------------------------------------------
\* Layout policy

PanelCols(c) == IF c > SideMargin THEN c - SideMargin ELSE 1

(* A slip for InputRows: the text view is left no rows.                         *)
InputRowsGreedy(r, desired) ==
  Min({desired, Max({1, r - (MainY + 1)})})

InputRows(r, desired) ==
  Min({desired, Max({1, r - (MainY + MainMin + 1)})})

MainRows(r, input) == Max({MainMin, r - MainY - (input + 1)})

KeybarY(r) == r - 1
InputY(r, input) == KeybarY(r) - input

-----------------------------------------------------------------------------
\* Operations

Nothing == [text |-> <<>>, pos |-> 0]

(* SM_InputCmpsMngr_create and the layout of the first frame.              *)
ComposerInit ==
  /\ shown = Nothing
  /\ terminal \in Terminals
  /\ inputRows = 1 /\ inputCols = PanelCols(terminal[2])
  /\ inputView = Viewed(Nothing, 0, 1, Max({1, inputCols - PromptCols}))
  /\ cursorVisible = TRUE
  /\ mainRows = MainRows(terminal[1], 1)

(* DBC_REQUIRE 212 and 232: with a narrower plane the program has ended.   *)
PanelHoldsPrompt == inputCols > PromptCols

(* A slip for Projected: the view stays at the row it is at.               *)
ProjectedInPlace(d, viewRow, r, c) ==
  /\ inputView' = [Viewed(d, viewRow, r, c - PromptCols) EXCEPT !.viewRow = viewRow]
  /\ inputRows' = r /\ inputCols' = c

Projected(d, viewRow, r, c) ==
  /\ inputView' = Viewed(d, viewRow, r, c - PromptCols)
  /\ inputRows' = r /\ inputCols' = c

(* A slip for Relaid: the composer keeps its size.                         *)
RelaidNever(d, viewRow) ==
  Projected(d, viewRow, inputRows, inputCols) /\ UNCHANGED mainRows

(* syncInputLayout_ after the line was shown from viewRow on: only another *)
(* number of rows draws it anew, from its first row (projectAll).          *)
Relaid(d, viewRow) ==
  \E input \in {InputRows(terminal[1], PreferredRows(d, PanelCols(terminal[2]) - PromptCols))} :
    IF input = inputRows
    THEN Projected(d, viewRow, inputRows, inputCols) /\ UNCHANGED mainRows
    ELSE /\ Projected(d, 0, input, PanelCols(terminal[2]))
         /\ mainRows' = MainRows(terminal[1], input)

ShowFrom(d, viewRow) ==
  /\ PanelHoldsPrompt /\ cursorVisible
  /\ shown' = d
  /\ Relaid(d, viewRow)
  /\ UNCHANGED <<terminal, cursorVisible>>

WithCodepoint(cp) ==
  [text |-> SubSeq(shown.text, 1, shown.pos) \o <<cp>>
              \o SubSeq(shown.text, shown.pos + 1, Len(shown.text)),
   pos |-> shown.pos + 1]

Insert(cp) ==
  /\ Len(shown.text) < MaxLength
  /\ ShowFrom(WithCodepoint(cp), inputView.viewRow)

DeleteBefore ==
  /\ shown.pos > 0
  /\ ShowFrom([text |-> RemoveAt(shown.text, shown.pos), pos |-> shown.pos - 1], inputView.viewRow)

MoveTo(p) ==
  /\ p # shown.pos
  /\ ShowFrom([shown EXCEPT !.pos = p], inputView.viewRow)

Left  == shown.pos > 0 /\ MoveTo(shown.pos - 1)
Right == shown.pos < Len(shown.text) /\ MoveTo(shown.pos + 1)
Home  == MoveTo(0)
End   == MoveTo(Len(shown.text))

(* A submitted line is cleared, an edit that does not fit is shown again:  *)
(* both are drawn from the first row.                                      *)
ClearLine == ShowFrom(Nothing, 0)
ShowAgain == ShowFrom(shown, 0)

(* The composer's focus: it is shown with or without a cursor.             *)
ToggleCursor ==
  /\ PanelHoldsPrompt
  /\ cursorVisible' = ~cursorVisible
  /\ Projected(shown, inputView.viewRow, inputRows, inputCols)
  /\ UNCHANGED <<shown, terminal, mainRows>>

(* Notcurses resizes the planes; of the callbacks SM_UI_input_cb_ is the   *)
(* last to lay out the text view and the composer.                         *)
TerminalResized(t) ==
  LET c == PanelCols(t[2])
      input == InputRows(t[1], PreferredRows(shown, c - PromptCols))
  IN  /\ PanelHoldsPrompt
      /\ terminal' = t
      /\ IF c > PromptCols
         THEN /\ Projected(shown, 0, input, c)
              /\ mainRows' = MainRows(t[1], input)
         ELSE inputCols' = c /\ UNCHANGED <<inputRows, inputView, mainRows>>
      /\ UNCHANGED <<shown, cursorVisible>>

ComposerNext ==
  \/ \E cp \in Codepoint : Insert(cp)
  \/ DeleteBefore \/ Left \/ Right \/ Home \/ End
  \/ ClearLine \/ ShowAgain \/ ToggleCursor
  \/ \E t \in Terminals : TerminalResized(t)

ComposerSpec == ComposerInit /\ [][ComposerNext]_composerVars

-----------------------------------------------------------------------------
\* Properties

ContentCols == inputCols - PromptCols

ComposerTypeOK ==
  /\ shown \in [text : Seq(Codepoint), pos : Nat] /\ shown.pos <= Len(shown.text)
  /\ terminal \in Terminals
  /\ inputRows \in 1..ComposerMaxRows /\ inputCols \in Nat
  /\ inputView \in [viewRow : Nat, cursorRow : Nat, cursorCol : Nat]
  /\ cursorVisible \in BOOLEAN /\ mainRows \in Nat

(* The cursor is in the composer (assertions 520 and 521), at the place the*)
(* line as it now is has it at this width: no edit, focus change or resize *)
(* leaves it where it was drawn before.                                    *)
CursorIsShown ==
  PanelHoldsPrompt =>
    /\ inputView.cursorRow < inputRows /\ inputView.cursorCol < ContentCols
    /\ CursorCell(shown, ContentCols) =
         [row |-> inputView.viewRow + inputView.cursorRow, col |-> inputView.cursorCol]

(* The composer has the rows its text needs, as far as the terminal and    *)
(* its limit of rows allow; then all of the text is in view, and otherwise *)
(* no row of the composer is left empty while text is scrolled out above.  *)
TextIsShown ==
  PanelHoldsPrompt =>
    LET total == TotalRows(shown, ContentCols)
    IN  /\ inputRows = InputRows(terminal[1], Min({ComposerMaxRows, total}))
        /\ inputView.viewRow = 0 \/ inputView.viewRow + inputRows <= total
        /\ inputRows >= total => inputView.viewRow = 0

(* From the smallest terminal the layout is made for, the text view, the   *)
(* composer and the key bar cover the screen below the bars without        *)
(* overlap, whatever is typed and however the terminal is resized.         *)
PanesTile ==
  (PanelHoldsPrompt /\ terminal[1] > MainY + MainMin + 1) =>
    /\ mainRows >= MainMin
    /\ MainY + mainRows = InputY(terminal[1], inputRows)

(* The cursor, the text and the panes are where they should be.            *)
ComposerInView == ComposerTypeOK /\ CursorIsShown /\ TextIsShown /\ PanesTile

(* The cursor is never on the right half of a wide cluster (assertion 542).*)
CursorOnWholeCell ==
  (PanelHoldsPrompt /\ cursorVisible /\ shown.pos < Len(shown.text)) =>
    LET width == ClusterCols(shown.text, UnderCursor(shown))
    IN  ~ /\ width = 2 /\ width <= ContentCols
          /\ DrawnAt(shown.text, ContentCols, UnderCursor(shown)) =
               [row |-> inputView.viewRow + inputView.cursorRow, col |-> inputView.cursorCol - 1]

(* What notcurses joins to a code point takes no columns of its own; not   *)
(* so the two halves of a flag.                                            *)
AccentsAreNarrow == \A pair \in Joined : Columns[pair[2]] = 0

(* The cursor is in the composer, where the line has it; the composer has  *)
(* the rows its text needs and that there are; text view, composer and key *)
(* bar tile the screen; and unless a letter is joined of several that take *)
(* columns, the cursor is on a whole cell.                                 *)
ComposerCurrent == ComposerInView /\ (AccentsAreNarrow => CursorOnWholeCell)
=============================================================================
