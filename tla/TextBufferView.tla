--------------------------- MODULE TextBufferView ---------------------------
(***************************************************************************)
(* The scrolling text view (widgets/text_buffer_view.c): a ring of lines   *)
(* (TextArea), a scroll offset counted back from the newest line, the      *)
(* scroll bar computed from both, and the plane they are drawn on when the *)
(* next frame is rendered (TextBufferView_refresh).                        *)
(*                                                                         *)
(* The history `written` of all lines since the last clear is kept for the *)
(* properties only.  A character is one byte and one column wide.          *)
(***************************************************************************)
EXTENDS Integers, Sequences, SequencesExt, FiniteSetsExt

CONSTANTS
  Cap,         (* TEXT_AREA_CAP_                                            *)
  Width,       (* TEXT_LINE_W_, the terminating 0 included                  *)
  Char,        (* the bytes of texts                                        *)
  NewLine,     (* '\n'                                                      *)
  Texts,       (* bound: the texts pushed                                   *)
  Sizes,       (* bound: the sizes <<rows, cols>> SM_UI gives the frame     *)
  MaxWritten   (* bound on the lines written between two clears             *)

ASSUME ViewAssumption ==
  /\ Cap \in Nat \ {0} /\ Width \in Nat \ {0}
  /\ Sizes \subseteq Nat \X Nat /\ Sizes # {}
  /\ NewLine \in Char /\ Texts \subseteq Seq(Char)

VARIABLES
  lineBuf, lineTotal, lineHead, scrollOff,  (* textArea                      *)
  size,        (* <<rows, cols>> of contentPlane                            *)
  dirty,
  drawn,       (* what the content plane shows                              *)
  written      (* history                                                   *)

vars == <<lineBuf, lineTotal, lineHead, scrollOff, size, dirty, drawn, written>>
ring == <<lineBuf, lineTotal, lineHead>>

Slots == 0..(Cap - 1)
Rows == size[1]
Cols == size[2]

(* The plane inside a frame of these rows and columns.                     *)
Content(s) == <<Max({s[1], 1}), Max({s[2] - 1, 1})>>

-----------------------------------------------------------------------------
\* TextArea

(* The lines of a text: each ends at a newline, or with the text.          *)
LineStarts(text) == {i \in DOMAIN text : i = 1 \/ text[i - 1] = NewLine}

NthStart(text, n) ==
  CHOOSE i \in LineStarts(text) : Cardinality({j \in LineStarts(text) : j <= i}) = n

LineFrom(text, i) ==
  LET end == Min({j \in i..Len(text) : text[j] = NewLine} \cup {Len(text) + 1})
  IN  SubSeq(text, i, Min({end - 1, i + Width - 2}))

LinesOf(text) ==
  [n \in 1..Cardinality(LineStarts(text)) |-> LineFrom(text, NthStart(text, n))]

(* The ring once the lines are in: line n in the slot behind line n - 1,   *)
(* which is the oldest line's as soon as the ring is full.                 *)
SlotOf(n) == (lineHead + lineTotal + n - 1) % Cap

Evicted(count) == Max({0, lineTotal + count - Cap})

(* A slip for Stored: the ring's head is not where the lines start.        *)
StoredFromZero(lines) ==
  [slot \in Slots |->
     LET here == {n \in DOMAIN lines : (lineTotal + n - 1) % Cap = slot}
     IN  IF here = {} THEN lineBuf[slot] ELSE lines[Max(here)]]

Stored(lines) ==
  [slot \in Slots |->
     LET here == {n \in DOMAIN lines : SlotOf(n) = slot}
     IN  IF here = {} THEN lineBuf[slot] ELSE lines[Max(here)]]

LineAt(i) == lineBuf[(lineHead + i) % Cap]

MaxScroll == IF lineTotal > Rows THEN lineTotal - Rows ELSE 0

Clamped(off) == Max({0, Min({off, MaxScroll})})

FirstVisible ==
  IF lineTotal > Rows THEN lineTotal - Rows - Clamped(scrollOff) ELSE 0

(* A slip for Preserved: the view follows the tail.                        *)
PreservedNot(off, added) == off

(* preserveScrollOnAppend.                                                 *)
Preserved(off, added) == IF off > 0 THEN off + added ELSE off

-----------------------------------------------------------------------------
\* ScrollBar

NoThumb == [height |-> 0, pos |-> 0, visible |-> FALSE, maxOff |-> 0]

(* A slip for ComputeThumb: the thumb is placed from the top.              *)
ComputeThumbFromTop(total, visible, off) ==
  IF total <= visible THEN NoThumb
  ELSE LET maxOff == total - visible
           back   == Min({off, maxOff})
           height == Min({visible, Max({1, (visible * visible) \div total})})
       IN  [height |-> height, visible |-> TRUE, maxOff |-> maxOff,
            pos |-> (back * (visible - height)) \div maxOff]

ComputeThumb(total, visible, off) ==
  IF total <= visible THEN NoThumb
  ELSE LET maxOff == total - visible
           back   == Min({off, maxOff})
           height == Min({visible, Max({1, (visible * visible) \div total})})
       IN  [height |-> height, visible |-> TRUE, maxOff |-> maxOff,
            pos |-> ((maxOff - back) * (visible - height)) \div maxOff]

(* cellCh, by row from the top.                                            *)
Cell(thumb, row) ==
  IF thumb.visible /\ row >= thumb.pos /\ row < thumb.pos + thumb.height
  THEN "thumb"
  ELSE IF thumb.maxOff > 0 THEN "track" ELSE "none"

-----------------------------------------------------------------------------
\* Drawing

(* The last column is the scroll bar's; a line is cut at it.               *)
RowText(i) ==
  IF Cols > 1 /\ FirstVisible + i < lineTotal
  THEN LET line == LineAt(FirstVisible + i)
       IN  SubSeq(line, 1, Min({Len(line), Cols - 1}))
  ELSE <<>>

Screen ==
  LET thumb == ComputeThumb(lineTotal, Rows, Clamped(scrollOff))
  IN  [text |-> [i \in 1..Rows |-> RowText(i - 1)],
       bar  |-> [i \in 1..Rows |-> Cell(thumb, i - 1)]]

(* What a plane shows until its next frame is of no interest.              *)
Stale == [text |-> <<>>, bar |-> <<>>]

-----------------------------------------------------------------------------
\* Operations

Init ==
  /\ lineBuf = [slot \in Slots |-> <<>>]
  /\ lineTotal = 0 /\ lineHead = 0 /\ scrollOff = 0
  /\ \E s \in Sizes : size = Content(s)
  /\ dirty = FALSE
  /\ drawn = Screen
  /\ written = <<>>

Dirtied == dirty' = TRUE /\ drawn' = Stale

PushText(text) ==
  LET lines == LinesOf(text)
  IN  /\ Len(written) + Len(lines) <= MaxWritten
      /\ lineBuf' = Stored(lines)
      /\ lineTotal' = Min({Cap, lineTotal + Len(lines)})
      /\ lineHead' = (lineHead + Evicted(Len(lines))) % Cap
      /\ scrollOff' = Preserved(scrollOff, Len(lines))
      /\ Dirtied
      /\ written' = written \o lines
      /\ UNCHANGED size

Clear ==
  /\ lineTotal' = 0 /\ lineHead' = 0 /\ scrollOff' = 0
  /\ Dirtied
  /\ written' = <<>>
  /\ UNCHANGED <<lineBuf, size>>

Scrolled(delta) ==
  /\ scrollOff' = Clamped(scrollOff + delta)
  /\ Dirtied
  /\ UNCHANGED <<ring, size, written>>

ScrollPageUp == Scrolled(Rows \div 2)
ScrollPageDown == Scrolled(-(Rows \div 2))

(* resizeFrame and resizeContent, which every caller runs in this order.   *)
Resize(s) ==
  /\ size' = Content(s)
  /\ Dirtied
  /\ UNCHANGED <<ring, scrollOff, written>>

Refresh ==
  /\ dirty
  /\ scrollOff' = Clamped(scrollOff)
  /\ drawn' = Screen
  /\ dirty' = FALSE
  /\ UNCHANGED <<ring, size, written>>

Next ==
  \/ \E text \in Texts : PushText(text)
  \/ Clear
  \/ ScrollPageUp \/ ScrollPageDown
  \/ \E s \in Sizes : Resize(s)
  \/ Refresh

Spec == Init /\ [][Next]_vars

-----------------------------------------------------------------------------
\* Properties

TypeOK ==
  /\ lineTotal \in 0..Cap /\ lineHead \in Slots
  /\ scrollOff \in Nat
  /\ DOMAIN lineBuf = Slots
  /\ \A slot \in Slots : Len(lineBuf[slot]) < Width /\ NewLine \notin Range(lineBuf[slot])
  /\ size \in Nat \X Nat /\ Rows > 0 /\ Cols > 0
  /\ dirty \in BOOLEAN

(* The ring holds the newest lines, as many as fit, and lineAt finds the   *)
(* i-th of them, wherever the ring starts.                                 *)
LinesAreNewest ==
  /\ lineTotal = Min({Cap, Len(written)})
  /\ \A i \in 0..(lineTotal - 1) :
       LineAt(i) = written[Len(written) - lineTotal + i + 1]

(* How many of the lines ever written are above the screen, and how many   *)
(* are no longer stored.                                                   *)
Above == Len(written) - lineTotal + FirstVisible
Lost == Len(written) - lineTotal

(* Text that arrives while the user reads older lines leaves these where   *)
(* they are on the screen, until the ring drops them; otherwise the screen *)
(* follows the newest line.  (Above and Lost speak of what the next frame  *)
(* will show.)                                                             *)
AppendKeepsPlace ==
  [][Len(written') > Len(written) =>
       IF scrollOff > 0
       THEN Above' = Max({Above, Lost'})
       ELSE Above' = Max({Lost', Len(written') - Rows'})]_vars

(* A frame that is not dirty shows the lines it should: the rows are       *)
(* consecutive lines as they were written, cut at the screen's width, none *)
(* of it left empty while a line is stored for it, and the thumb is at the *)
(* bottom exactly if the newest line is shown.                             *)
ScreenIsCurrent ==
  ~dirty =>
    /\ Len(drawn.text) = Rows
    /\ \A i \in 1..Rows :
         LET n == Above + i
         IN  drawn.text[i] =
               IF Cols > 1 /\ n <= Len(written)
               THEN SubSeq(written[n], 1, Min({Len(written[n]), Cols - 1}))
               ELSE <<>>
    /\ Above >= Lost
    /\ Above + Rows > Len(written) => Above = Lost
    /\ (\E i \in 1..Rows : drawn.bar[i] = "thumb") <=> lineTotal > Rows
    /\ (lineTotal > Rows /\ Rows > 1) =>
         (drawn.bar[Rows] = "thumb" <=> Above + Rows = Len(written))

(* A view in order: the ring holds the newest lines and a frame that is    *)
(* not dirty shows those of them that it should.                           *)
TextViewCurrent == TypeOK /\ LinesAreNewest /\ ScreenIsCurrent

=============================================================================
