----------------------------- MODULE WidgetProofs -----------------------------
(***************************************************************************)
(* Proofs about four widgets, for any sizes, texts, tables and bounds: the *)
(* window of suggestions (CommandSuggestion), the scrolling text view      *)
(* (TextBufferView), the line of the input composer (InputText,            *)
(* InputCmpsMngr) and that line on the screen (ComposerView).              *)
(*                                                                         *)
(* The line takes up the greater part.  Its invariant LineStands is        *)
(* inductive.  The argument:                                               *)
(*   - LineInv: the text is whole code points, tokens are apart and each   *)
(*     covers its command's text.  Places (Place) are where code points    *)
(*     start and no token is cut; every position an edit uses is one       *)
(*     (WordBackPlace .. NextPosPlace), and Relocated carries LineInv      *)
(*     through any change that keeps tokens with their bytes: a move, an   *)
(*     insertion, a cut widened to the tokens it touches.                  *)
(*   - What is suggested is about bytes of no token (SlashWordIs,          *)
(*     ArgumentWordIs), because a token starts with a byte no name has:    *)
(*     so accepting (ReplacedIs, SpacedIs) puts one text for another.      *)
(*   - Spells: the words of the line, by their bytes; a token is one       *)
(*     exactly if buildSubmission_ finds it fenced, and parseArg_ finds    *)
(*     the words behind it (ArgumentsAre), so the two readings agree.      *)
(*                                                                         *)
(* On the screen, Recursion gives the two functions the layout is computed *)
(* with; from their types the cursor has a cell within the text's rows     *)
(* (CursorCellIs), a view follows it (ViewedIs), and every step but a      *)
(* resize to too narrow a terminal draws such a view (ProjectedIs).        *)
(***************************************************************************)
EXTENDS CommandSuggestion, TextBufferView, ComposerView, InputCmpsMngr,
        SequenceTheorems, FiniteSetTheorems, WellFoundedInduction, TLAPS

-----------------------------------------------------------------------------
\* The window of suggestions

(* SelectionViewport_update, wherever the view was: the selection is in    *)
(* view, the view is within the list, and it moved no further than to an   *)
(* edge.                                                                   *)
LEMMA UpdateShows ==
  ASSUME NEW firstItem \in Nat, NEW itemCount \in Nat \ {0}, NEW selected \in 0..(itemCount - 1),
         NEW visibleCount \in 1..itemCount,
         NEW first, first = Update(firstItem, selected, itemCount, visibleCount)
  PROVE  /\ first \in Nat
         /\ selected \in first..(first + visibleCount - 1)
         /\ first + visibleCount <= itemCount
         /\ first # firstItem =>
              \/ selected \in {first, first + visibleCount - 1}
              \/ first + visibleCount = itemCount
<1> DEFINE start == Least(firstItem, itemCount - visibleCount)
<1>1. /\ start \in Nat /\ start + visibleCount <= itemCount
      /\ start # firstItem => start + visibleCount = itemCount
  BY DEF Least
<1>2. CASE selected < start
  <2>1. Update(firstItem, selected, itemCount, visibleCount) = selected
    BY <1>1, <1>2 DEF Update
  <2> QED
    BY <1>1, <1>2, <2>1
<1>3. CASE selected >= start + visibleCount
  <2>1. Update(firstItem, selected, itemCount, visibleCount) = selected - visibleCount + 1
    BY <1>1, <1>3 DEF Update
  <2> QED
    BY <1>1, <1>3, <2>1
<1>4. CASE ~(selected < start) /\ ~(selected >= start + visibleCount)
  <2>1. Update(firstItem, selected, itemCount, visibleCount) = start
    BY <1>4 DEF Update
  <2> QED
    BY <1>1, <1>4, <2>1
<1> QED
  BY <1>2, <1>3, <1>4

SuggestionInv == SuggestionTypeOK /\ SelectedShown /\ WithinTerminal

LEMMA RequestTypes ==
  ASSUME NEW r \in Requests
  PROVE  /\ r.inputY \in Int /\ r.count \in Nat \ {0} /\ r.selected \in 0..(r.count - 1)
         /\ r.cols \in Nat \ {0} /\ r.maxCols \in Nat /\ r.width \in Nat
<1>1. /\ r.inputY \in InputYs /\ r.count \in Counts
      /\ r.selected \in UNION {0..(n - 1) : n \in Counts}
      /\ r.cols \in Widths /\ r.maxCols \in Widths /\ r.width \in Widths
      /\ r.selected < r.count
  BY DEF Requests
<1>2. PICK n \in Counts : r.selected \in 0..(n - 1)
  BY <1>1
<1>3. n \in Nat /\ r.count \in Nat \ {0} /\ r.cols \in Nat \ {0}
  BY <1>1, SuggestionAssumption
<1>4. r.inputY \in Int /\ r.maxCols \in Nat /\ r.width \in Nat
  BY <1>1, SuggestionAssumption
<1>5. r.selected \in 0..(r.count - 1)
  BY <1>1, <1>2, <1>3
<1> QED
  BY <1>3, <1>4, <1>5

LEMMA SuggestionInitInv == SuggestionInit => SuggestionInv
  BY SuggestionAssumption
     DEF SuggestionInit, SuggestionInv, SuggestionTypeOK, SelectedShown, WithinTerminal, Hidden

(* A window that opens, or stays open, is where its arguments have it.     *)
LEMMA ShowInv ==
  ASSUME SuggestionInv, NEW r \in Requests, Show(r)
  PROVE  /\ SuggestionInv'
         /\ (window # Hidden /\ window' # Hidden /\ window'.first # window.first) =>
              \/ asked'.selected \in {window'.first, window'.first + window'.rows - 1}
              \/ window'.first + window'.rows = asked'.count
<1> DEFINE rows == RowsShown(r.count, r.inputY)
           cols == ColsShown(r.maxCols, r.cols, r.width)
<1>1. /\ r.inputY \in Int /\ r.count \in Nat \ {0} /\ r.selected \in 0..(r.count - 1)
      /\ r.cols \in Nat \ {0} /\ r.maxCols \in Nat /\ r.width \in Nat
  BY RequestTypes
<1>2. /\ asked'.inputY = r.inputY /\ asked'.count = r.count
      /\ asked'.selected = r.selected /\ asked'.cols = r.cols
  BY DEF Show
<1>3. CASE ~Fits(r)
  <2>1. firstVisible' = 0 /\ window' = Hidden
    BY <1>3 DEF Show
  <2> QED
    BY <2>1, SuggestionAssumption
       DEF SuggestionInv, SuggestionTypeOK, SelectedShown, WithinTerminal, Hidden
<1>4. CASE Fits(r)
  <2>1. /\ firstVisible' = Update(firstVisible, r.selected, r.count, rows)
        /\ window' = [rows |-> rows, cols |-> cols, y |-> r.inputY - rows,
                      first |-> firstVisible']
    BY <1>4 DEF Show
  <2>2. /\ rows \in 1..r.count /\ rows <= MaxRows /\ rows <= r.inputY
    BY <1>1, <1>4, SuggestionAssumption DEF Fits, RowsShown, Least
  <2>4. cols \in Nat /\ cols <= r.cols - X
    BY <1>1, <1>4 DEF Fits, ColsShown, Least, X
  <2>5. firstVisible \in Nat
    BY DEF SuggestionInv, SuggestionTypeOK
  <2> HIDE DEF rows, cols
  <2>6. /\ firstVisible' \in Nat
        /\ r.selected \in firstVisible'..(firstVisible' + rows - 1)
        /\ firstVisible' + rows <= r.count
        /\ firstVisible' # firstVisible =>
             \/ r.selected \in {firstVisible', firstVisible' + rows - 1}
             \/ firstVisible' + rows = r.count
    <3> DEFINE first == firstVisible'
               number == r.count
               choice == r.selected
    <3>1. /\ number \in Nat \ {0} /\ choice \in 0..(number - 1) /\ rows \in 1..number
          /\ first = Update(firstVisible, choice, number, rows)
      BY <1>1, <2>1, <2>2
    <3> HIDE DEF first, number, choice
    <3>2. /\ first \in Nat
          /\ choice \in first..(first + rows - 1)
          /\ first + rows <= number
          /\ first # firstVisible =>
               \/ choice \in {first, first + rows - 1}
               \/ first + rows = number
      BY <2>5, <3>1, UpdateShows
    <3> QED
      BY <3>2 DEF first, number, choice
  <2>7. /\ window'.rows = rows /\ window'.cols = cols /\ window'.y = r.inputY - rows
        /\ window'.first = firstVisible'
    BY <2>1
  <2>8. SuggestionTypeOK'
    <3>1. window'.rows \in 0..MaxRows /\ window'.rows # 0
      BY <2>2, <2>7, SuggestionAssumption
    <3>2. window'.y \in Nat
      BY <1>1, <2>2, <2>7
    <3> QED
      BY <2>4, <2>6, <2>7, <3>1, <3>2 DEF SuggestionTypeOK
  <2>9. SelectedShown'
    BY <1>2, <2>6, <2>7 DEF SelectedShown
  <2>10. WithinTerminal'
    BY <1>1, <1>2, <2>2, <2>4, <2>7 DEF WithinTerminal, X
  <2>11. window.first = firstVisible
    BY DEF SuggestionInv, SuggestionTypeOK
  <2> QED
    BY <1>2, <2>6, <2>7, <2>8, <2>9, <2>10, <2>11 DEF SuggestionInv
<1> QED
  BY <1>3, <1>4

(* No step, and no call, breaks the invariant or moves the view too far.   *)
LEMMA SuggestionNextInv ==
  ASSUME SuggestionInv, [SuggestionNext]_suggestionVars
  PROVE  /\ SuggestionInv'
         /\ (window # Hidden /\ window' # Hidden /\ window'.first # window.first) =>
              \/ asked'.selected \in {window'.first, window'.first + window'.rows - 1}
              \/ window'.first + window'.rows = asked'.count
<1>1. CASE HideWindow
  BY <1>1, SuggestionAssumption
     DEF HideWindow, SuggestionInv, SuggestionTypeOK, SelectedShown, WithinTerminal, Hidden
<1>2. CASE ShowAny
  <2>1. PICK r \in Requests : Show(r)
    BY <1>2 DEF ShowAny
  <2> QED
    BY <2>1, ShowInv
<1>3. CASE UNCHANGED suggestionVars
  BY <1>3 DEF suggestionVars, SuggestionInv, SuggestionTypeOK, SelectedShown, WithinTerminal
<1> QED
  BY <1>1, <1>2, <1>3 DEF SuggestionNext

(* The selected candidate is always in the window, every row of which is a *)
(* candidate's, for every list, window and terminal                        *)
(* (CommandSuggestion_show).                                               *)
THEOREM SelectionInView == SuggestionSpec => []SelectedShown
<1>1. SuggestionInv => SelectedShown
  BY DEF SuggestionInv
<1> QED
  BY <1>1, SuggestionInitInv, SuggestionNextInv, PTL DEF SuggestionSpec

(* The window is within the terminal, and above the composer.              *)
THEOREM WindowInTerminal == SuggestionSpec => [](SuggestionTypeOK /\ WithinTerminal)
<1>1. SuggestionInv => SuggestionTypeOK /\ WithinTerminal
  BY DEF SuggestionInv
<1> QED
  BY <1>1, SuggestionInitInv, SuggestionNextInv, PTL DEF SuggestionSpec

(* The view moves no further than the selection makes it                   *)
(* (SelectionViewport_update).                                             *)
THEOREM ViewMovesLeast == SuggestionSpec => MovesLeast
<1> DEFINE AtEdge == (window # Hidden /\ window' # Hidden /\ window'.first # window.first) =>
                       \/ asked'.selected \in {window'.first, window'.first + window'.rows - 1}
                       \/ window'.first + window'.rows = asked'.count
<1>1. SuggestionInv /\ [SuggestionNext]_suggestionVars => [AtEdge]_suggestionVars
  BY SuggestionNextInv
<1> QED
  BY <1>1, SuggestionInitInv, SuggestionNextInv, PTL DEF SuggestionSpec, MovesLeast

-----------------------------------------------------------------------------
\* Arithmetic of rings

LEMMA Division ==
  ASSUME NEW c \in Nat \ {0}, NEW a \in Nat
  PROVE  /\ a \div c \in Nat /\ a % c \in 0..(c - 1)
         /\ a = c * (a \div c) + (a % c)
  OBVIOUS

LEMMA MultiplesApart ==
  ASSUME NEW c \in Nat \ {0}, NEW k \in Int, c * k < c, -c < c * k
  PROVE  k = 0
<1>1. CASE k >= 1
  <2>1. c * k >= c
    BY <1>1
  <2> QED BY <2>1
<1>2. CASE k <= -1
  <2>1. c * k <= -c
    BY <1>2
  <2> QED BY <2>1
<1> QED BY <1>1, <1>2

LEMMA ModDistinct ==
  ASSUME NEW c \in Nat \ {0}, NEW a \in Nat, NEW b \in Nat, a < b, b - a < c
  PROVE  a % c # b % c
<1> DEFINE p == a \div c
           q == b \div c
           r == a % c
           s == b % c
<1>1. /\ p \in Nat /\ q \in Nat /\ r \in 0..(c - 1) /\ s \in 0..(c - 1)
      /\ a = c * p + r /\ b = c * q + s
  BY Division
<1> HIDE DEF p, q, r, s
<1>2. ASSUME r = s PROVE FALSE
  <2>1. b - a = c * (q - p)
    BY <1>1, <1>2
  <2>2. q - p = 0
    BY <1>1, <2>1, MultiplesApart
  <2> QED BY <1>1, <1>2, <2>2
<1> QED BY <1>2 DEF r, s

LEMMA ModOfSum ==
  ASSUME NEW c \in Nat \ {0}, NEW h \in Nat, NEW i \in Nat
  PROVE  ((h % c) + i) % c = (h + i) % c
<1> DEFINE r == h % c
           q == h \div c
           p1 == (r + i) \div c
           p2 == (h + i) \div c
           r1 == (r + i) % c
           r2 == (h + i) % c
<1>1. q \in Nat /\ r \in 0..(c - 1) /\ h = c * q + r
  BY Division
<1> HIDE DEF r, q
<1>2. /\ p1 \in Nat /\ r1 \in 0..(c - 1) /\ r + i = c * p1 + r1
      /\ p2 \in Nat /\ r2 \in 0..(c - 1) /\ h + i = c * p2 + r2
  <2>1. r + i \in Nat /\ h + i \in Nat
    BY <1>1
  <2> QED BY <2>1, Division
<1> HIDE DEF p1, p2, r1, r2
<1>3. c * (p2 - p1 - q) = r1 - r2
  BY <1>1, <1>2
<1>4. p2 - p1 - q = 0
  <2>1. p2 - p1 - q \in Int
    BY <1>1, <1>2
  <2>2. r1 - r2 < c /\ -c < r1 - r2
    BY <1>2
  <2> QED BY <1>3, <2>1, <2>2, MultiplesApart
<1>5. r1 = r2
  <2>1. c * (p2 - p1 - q) = 0
    BY <1>4
  <2> QED BY <1>2, <1>3, <2>1
<1> QED BY <1>5 DEF r1, r2, r

-----------------------------------------------------------------------------
\* Least and greatest elements

LEMMA MinIs ==
  ASSUME NEW I \in SUBSET Nat, I # {}
  PROVE  Min(I) \in I /\ \A j \in I : Min(I) <= j
<1>1. PICK i \in I : \A j \in I : ~(<<j, i>> \in OpToRel(<, Nat))
  BY NatLessThanWellFounded, WFMin
<1>2. \A j \in I : <<j, i>> \in Nat \X Nat /\ <<j, i>>[1] = j /\ <<j, i>>[2] = i
  OBVIOUS
<1>3. \A j \in I : ~(j < i)
  BY <1>1, <1>2 DEF OpToRel
<1>4. \A j \in I : i <= j
  BY <1>3
<1> QED
  BY <1>4 DEF Min

LEMMA MaxIs ==
  ASSUME NEW b \in Nat, NEW I \in SUBSET (0..b), I # {}
  PROVE  Max(I) \in I /\ \A j \in I : j <= Max(I)
<1> DEFINE J == {b - i : i \in I}
<1>1. \A i \in I : i \in 0..b
  OBVIOUS
<1>2. \A j \in J : j \in Nat
  BY <1>1
<1>3. J # {}
  OBVIOUS
<1>4. PICK m \in J : \A j \in J : m <= j
  <2>1. J \in SUBSET Nat
    BY <1>2
  <2> HIDE DEF J
  <2> QED
    BY <1>3, <2>1, MinIs
<1>5. PICK i \in I : m = b - i
  BY <1>4
<1>6. \A j \in I : b - j \in J
  OBVIOUS
<1>7. \A j \in I : m <= b - j
  BY <1>4, <1>6
<1>8. \A j \in I : j <= i
  BY <1>1, <1>5, <1>7
<1> QED
  BY <1>1, <1>8 DEF Max

LEMMA OfTwo ==
  ASSUME NEW a \in Int, NEW b \in Int
  PROVE  /\ Max({a, b}) = IF a >= b THEN a ELSE b
         /\ Min({a, b}) = IF a <= b THEN a ELSE b
<1>1. \E m \in {a, b} : m = (IF a >= b THEN a ELSE b) /\ \A j \in {a, b} : m >= j
  OBVIOUS
<1>2. \E m \in {a, b} : m = (IF a <= b THEN a ELSE b) /\ \A j \in {a, b} : m <= j
  OBVIOUS
<1>3. Max({a, b}) \in {a, b} /\ \A j \in {a, b} : Max({a, b}) >= j
  BY <1>1 DEF Max
<1>4. Min({a, b}) \in {a, b} /\ \A j \in {a, b} : Min({a, b}) <= j
  BY <1>2 DEF Min
<1> QED
  BY <1>3, <1>4

(* The elements of a finite set of numbers have every rank.                *)
LEMMA EveryRank ==
  ASSUME NEW b \in Nat, NEW S \in SUBSET (1..b), NEW n \in 1..Cardinality(S)
  PROVE  \E i \in S : Cardinality({j \in S : j <= i}) = n
<1> DEFINE U == [x \in 0..b |-> {j \in S : j <= x}]
           I == {x \in 0..b : Cardinality(U[x]) >= n}
<1>1. \A j \in S : j \in 1..b
  OBVIOUS
<1>2. IsFiniteSet(S)
  <2>1. IsFiniteSet(1..b)
    BY FS_Interval
  <2> QED
    BY <2>1, FS_Subset
<1>3. \A x \in 0..b : U[x] = {j \in S : j <= x}
  OBVIOUS
<1> HIDE DEF U
<1>4. \A x \in 0..b : IsFiniteSet(U[x]) /\ Cardinality(U[x]) \in Nat
  <2> TAKE x \in 0..b
  <2>1. U[x] \in SUBSET S
    BY <1>3
  <2>2. IsFiniteSet(U[x])
    BY <1>2, <2>1, FS_Subset
  <2> QED
    BY <2>2, FS_CardinalityType
<1>5. Cardinality(S) \in Nat /\ n \in Nat /\ n > 0 /\ n <= Cardinality(S)
  BY <1>2, FS_CardinalityType
<1>6. U[b] = S /\ U[0] = {}
  <2>1. \A j \in S : j <= b /\ ~(j <= 0)
    BY <1>1
  <2>2. {j \in S : j <= b} = S /\ {j \in S : j <= 0} = {}
    BY <2>1
  <2>3. b \in 0..b /\ 0 \in 0..b
    OBVIOUS
  <2> QED
    BY <1>3, <2>2, <2>3
<1>7. b \in I
  BY <1>5, <1>6
<1>8. PICK m \in I : \A x \in I : m <= x
  <2>1. I \in SUBSET Nat /\ I # {}
    BY <1>7
  <2> HIDE DEF I
  <2> QED
    BY <2>1, MinIs
<1>9. m \in 0..b /\ Cardinality(U[m]) >= n
  BY <1>8
<1>10. m # 0
  BY <1>5, <1>6, <1>9, FS_EmptySet
<1>11. m - 1 \in 0..b /\ Cardinality(U[m - 1]) < n
  <2>1. m - 1 \in 0..b /\ m - 1 \notin I
    BY <1>8, <1>9, <1>10
  <2> QED
    BY <1>4, <1>5, <2>1
<1>12. CASE m \notin S
  <2>1. \A j \in S : j <= m <=> j <= m - 1
    <3> TAKE j \in S
    <3>1. j \in Nat /\ j # m /\ m \in Nat
      BY <1>1, <1>9, <1>12
    <3> QED
      BY <3>1
  <2>2. {j \in S : j <= m} = {j \in S : j <= m - 1}
    BY <2>1
  <2>3. U[m] = U[m - 1]
    BY <1>3, <1>9, <1>11, <2>2
  <2> QED
    BY <1>4, <1>5, <1>9, <1>11, <2>3
<1>13. CASE m \in S
  <2>0. \A j \in S : (j <= m <=> j <= m - 1 \/ j = m) /\ ~(m <= m - 1)
    BY <1>1, <1>9
  <2>1. U[m] = U[m - 1] \cup {m} /\ m \notin U[m - 1]
    <3>1. {j \in S : j <= m} = {j \in S : j <= m - 1} \cup {m}
      BY <1>13, <2>0
    <3>2. m \notin {j \in S : j <= m - 1}
      BY <1>13, <2>0
    <3> QED
      BY <1>3, <1>9, <1>11, <3>1, <3>2
  <2>2. Cardinality(U[m]) = Cardinality(U[m - 1]) + 1
    BY <1>4, <1>11, <2>1, FS_AddElement
  <2>3. Cardinality(U[m]) = n
    BY <1>4, <1>5, <1>9, <1>11, <2>2
  <2> QED
    BY <1>3, <1>9, <1>13, <2>3
<1> QED
  BY <1>12, <1>13

-----------------------------------------------------------------------------
\* The lines of a text

StoredLine == {l \in Seq(Char) : Len(l) < Width /\ NewLine \notin Range(l)}

LEMMA LineFromIs ==
  ASSUME NEW text \in Seq(Char), NEW i \in 1..Len(text)
  PROVE  LineFrom(text, i) \in StoredLine
<1> DEFINE Ends == {j \in i..Len(text) : text[j] = NewLine} \cup {Len(text) + 1}
           end == Min(Ends)
           last == Min({end - 1, i + Width - 2})
<1>1. Len(text) \in Nat /\ \A j \in 1..Len(text) : text[j] \in Char
  BY LenProperties, ElementOfSeq
<1>2. Ends \in SUBSET Nat /\ Ends # {}
  BY <1>1
<1>3. end \in Ends /\ \A j \in Ends : end <= j
  BY <1>2, MinIs
<1> HIDE DEF end
<1>4. end \in i..(Len(text) + 1)
  BY <1>1, <1>3
<1>5. \A j \in i..(end - 1) : text[j] # NewLine
  BY <1>1, <1>3, <1>4
<1>6. last = IF end - 1 <= i + Width - 2 THEN end - 1 ELSE i + Width - 2
  <2>1. end - 1 \in Int /\ i + Width - 2 \in Int
    BY <1>4, ViewAssumption
  <2> QED
    BY <2>1, OfTwo
<1>7. last \in (i - 1)..(end - 1) /\ last - i + 1 < Width
  BY <1>4, <1>6, ViewAssumption
<1> HIDE DEF last
<1>8. \A j \in i..last : text[j] \in Char
  BY <1>1, <1>4, <1>7
<1> DEFINE line == SubSeq(text, i, last)
<1>9. /\ line \in Seq(Char)
      /\ Len(line) = (IF i <= last THEN last - i + 1 ELSE 0)
      /\ \A j \in 1..(last - i + 1) : line[j] = text[i + j - 1]
  BY <1>7, <1>8, SubSeqProperties
<1> HIDE DEF line
<1>10. Len(line) = last - i + 1
  BY <1>7, <1>9
<1>11. \A j \in 1..Len(line) : line[j] # NewLine
  <2> TAKE j \in 1..Len(line)
  <2>1. j \in 1..(last - i + 1)
    BY <1>10
  <2>2. i + j - 1 \in i..(end - 1)
    BY <1>4, <1>7, <2>1
  <2> QED
    BY <1>5, <1>9, <2>1, <2>2
<1>12. DOMAIN line = 1..Len(line)
  BY <1>9, LenProperties
<1>13. line \in StoredLine
  BY <1>7, <1>9, <1>10, <1>11, <1>12, ViewAssumption DEF StoredLine, Range
<1> QED
  BY <1>13 DEF LineFrom, line, last, end

LEMMA LinesAreLines ==
  ASSUME NEW text \in Seq(Char)
  PROVE  /\ LinesOf(text) \in Seq(StoredLine)
         /\ DOMAIN LinesOf(text) = 1..Len(LinesOf(text))
<1> DEFINE S == LineStarts(text)
           number == Cardinality(S)
<1>1. Len(text) \in Nat /\ DOMAIN text = 1..Len(text)
  BY LenProperties
<1>2. S \in SUBSET (1..Len(text))
  BY <1>1 DEF LineStarts
<1>3. number \in Nat
  <2>1. IsFiniteSet(1..Len(text))
    BY <1>1, FS_Interval
  <2>2. IsFiniteSet(S)
    BY <1>2, <2>1, FS_Subset
  <2> QED
    BY <2>2, FS_CardinalityType
<1>4. ASSUME NEW n \in 1..number
      PROVE  NthStart(text, n) \in 1..Len(text)
  <2>1. \E i \in S : Cardinality({j \in S : j <= i}) = n
    BY <1>1, <1>2, EveryRank
  <2>2. NthStart(text, n) \in S
    BY <2>1 DEF NthStart
  <2> QED
    BY <1>2, <2>2
<1>5. \A n \in 1..number : LineFrom(text, NthStart(text, n)) \in StoredLine
  BY <1>4, LineFromIs
<1>6. LinesOf(text) = [n \in 1..number |-> LineFrom(text, NthStart(text, n))]
  BY DEF LinesOf
<1> HIDE DEF S, number
<1>7. LinesOf(text) \in [1..number -> StoredLine]
  BY <1>5, <1>6
<1>8. LinesOf(text) \in Seq(StoredLine)
  BY <1>3, <1>7, SeqDef
<1> QED
  BY <1>8, LenProperties
-----------------------------------------------------------------------------
\* What is drawn

(* What a screen of these rows shows first of so many lines, scrolled back *)
(* by so many (TextArea_firstVisible).                                     *)
First(total, visible, off) ==
  IF total <= visible \/ off >= total - visible THEN 0 ELSE total - visible - off

LEMMA ClampIs ==
  ASSUME NEW off \in Int, NEW bound \in Nat
  PROVE  Max({0, Min({off, bound})}) = IF off <= 0 THEN 0 ELSE IF off <= bound THEN off ELSE bound
<1>1. Min({off, bound}) = IF off <= bound THEN off ELSE bound
  BY OfTwo
<1>2. Min({off, bound}) \in Int
  BY <1>1
<1>3. Max({0, Min({off, bound})}) = IF 0 >= Min({off, bound}) THEN 0 ELSE Min({off, bound})
  BY <1>2, OfTwo
<1> QED
  BY <1>1, <1>3

LEMMA MaxScrollIs ==
  ASSUME lineTotal \in Nat, Rows \in Nat
  PROVE  MaxScroll \in Nat /\ MaxScroll = IF lineTotal > Rows THEN lineTotal - Rows ELSE 0
  BY DEF MaxScroll

LEMMA ClampedIs ==
  ASSUME lineTotal \in Nat, Rows \in Nat, NEW off \in Int
  PROVE  /\ Clamped(off) \in Nat
         /\ Clamped(off) = IF off <= 0 THEN 0 ELSE IF off <= MaxScroll THEN off ELSE MaxScroll
  BY MaxScrollIs, ClampIs DEF Clamped

LEMMA FirstVisibleIs ==
  ASSUME lineTotal \in Nat, Rows \in Nat, scrollOff \in Nat
  PROVE  FirstVisible = First(lineTotal, Rows, scrollOff) /\ FirstVisible \in Nat
<1>1. Clamped(scrollOff) = IF scrollOff <= MaxScroll THEN scrollOff ELSE MaxScroll
  BY ClampedIs, MaxScrollIs
<1>2. MaxScroll \in Nat /\ MaxScroll = IF lineTotal > Rows THEN lineTotal - Rows ELSE 0
  BY MaxScrollIs
<1>3. FirstVisible = IF lineTotal > Rows THEN lineTotal - Rows - Clamped(scrollOff) ELSE 0
  BY DEF FirstVisible
<1>4. CASE lineTotal <= Rows
  BY <1>3, <1>4 DEF First
<1>5. CASE lineTotal > Rows
  BY <1>1, <1>2, <1>3, <1>5 DEF First
<1> QED
  BY <1>4, <1>5

LEMMA FirstVisibleNext ==
  ASSUME lineTotal' \in Nat, Rows' \in Nat, scrollOff' \in Nat
  PROVE  FirstVisible' = First(lineTotal', Rows', scrollOff') /\ FirstVisible' \in Nat
<1>1. /\ MaxScroll' \in Nat
      /\ MaxScroll' = IF lineTotal' > Rows' THEN lineTotal' - Rows' ELSE 0
  BY DEF MaxScroll, Rows
<1>2. Clamped(scrollOff)' = Max({0, Min({scrollOff', MaxScroll'})})
  BY DEF Clamped
<1>3. Clamped(scrollOff)' = IF scrollOff' <= MaxScroll' THEN scrollOff' ELSE MaxScroll'
  <2> DEFINE off == scrollOff'
             bound == MaxScroll'
  <2>1. off \in Nat /\ bound \in Nat
    BY <1>1
  <2> HIDE DEF off, bound
  <2>2. Max({0, Min({off, bound})}) = IF off <= bound THEN off ELSE bound
    BY <2>1, ClampIs
  <2> QED
    BY <1>2, <2>2 DEF off, bound
<1>4. FirstVisible' = IF lineTotal' > Rows' THEN lineTotal' - Rows' - Clamped(scrollOff)' ELSE 0
  BY DEF FirstVisible
<1> DEFINE total == lineTotal'
           visible == Rows'
           off == scrollOff'
           back == Clamped(scrollOff)'
           first == FirstVisible'
<1>5. /\ total \in Nat /\ visible \in Nat /\ off \in Nat
      /\ back = IF off <= (IF total > visible THEN total - visible ELSE 0)
                THEN off ELSE IF total > visible THEN total - visible ELSE 0
      /\ first = IF total > visible THEN total - visible - back ELSE 0
  BY <1>1, <1>3, <1>4
<1> HIDE DEF total, visible, off, back, first
<1>6. first = First(total, visible, off) /\ first \in Nat
  BY <1>5 DEF First
<1> QED
  BY <1>6 DEF total, visible, off, first

(* The thumb is within its bar, and at its bottom exactly if nothing is    *)
(* scrolled back.                                                          *)
LEMMA ThumbWithin ==
  ASSUME NEW total \in Nat, NEW visible \in Nat \ {0}, total > visible,
         NEW off \in 0..(total - visible),
         NEW thumb, thumb = ComputeThumb(total, visible, off)
  PROVE  /\ thumb.visible
         /\ thumb.height \in 1..visible
         /\ thumb.pos \in 0..(visible - thumb.height)
         /\ visible > 1 => (thumb.pos + thumb.height = visible <=> off = 0)
<1> DEFINE maxOff == total - visible
           share == (visible * visible) \div total
           height == Min({visible, Max({1, share})})
           room == visible - height
           pos == ((maxOff - Min({off, maxOff})) * room) \div maxOff
<1>1. thumb = [height |-> height, visible |-> TRUE, maxOff |-> maxOff, pos |-> pos]
  BY DEF ComputeThumb
<1>2. thumb.visible = TRUE /\ thumb.height = height /\ thumb.pos = pos
  BY <1>1
<1>3. maxOff \in Nat \ {0} /\ off \in 0..maxOff
  OBVIOUS
<1>4. share \in Nat /\ share < visible
  <2> DEFINE square == visible * visible
  <2>1. square \in Nat /\ square < visible * total
    OBVIOUS
  <2>2. share \in Nat /\ total * share <= square
    <3> HIDE DEF square
    <3>1. /\ square \div total \in Nat /\ square % total \in 0..(total - 1)
          /\ square = total * (square \div total) + (square % total)
      <4>1. total \in Nat \ {0}
        OBVIOUS
      <4> QED
        BY <2>1, <4>1, Division
    <3>2. share = square \div total
      BY DEF square
    <3> HIDE DEF share
    <3> QED
      BY <3>1, <3>2
  <2> HIDE DEF square, share
  <2>3. CASE share >= visible
    <3>1. total * share >= total * visible
      BY <2>2, <2>3
    <3> QED
      BY <2>1, <2>2, <3>1
  <2> QED
    BY <2>2, <2>3
<1> HIDE DEF share
<1>5. height \in 1..visible /\ (visible > 1 => height < visible)
  <2>1. Max({1, share}) = IF 1 >= share THEN 1 ELSE share
    BY <1>4, OfTwo
  <2>2. Max({1, share}) \in Int
    BY <1>4, <2>1
  <2>3. height = IF visible <= Max({1, share}) THEN visible ELSE Max({1, share})
    BY <2>2, OfTwo
  <2> HIDE DEF height
  <2> QED
    BY <1>4, <2>1, <2>3
<1>6. Min({off, maxOff}) = off
  <2>1. off \in Int /\ maxOff \in Int /\ off <= maxOff
    BY <1>3
  <2> HIDE DEF maxOff
  <2> QED
    BY <2>1, OfTwo
<1> HIDE DEF height
<1>7. room \in 0..(visible - 1) /\ (visible > 1 => room > 0) /\ room + height = visible
  BY <1>5
<1> DEFINE product == (maxOff - off) * room
<1>8. pos = product \div maxOff
  BY <1>6
<1> HIDE DEF maxOff, room, pos
<1>9. product \in Nat /\ product <= maxOff * room
  <2>1. maxOff - off \in Nat /\ maxOff - off <= maxOff
    BY <1>3
  <2> QED
    BY <1>3, <1>7, <2>1
<1>10. off = 0 => product = maxOff * room
  BY <1>3, <1>7
<1>11. off # 0 /\ room > 0 => product < maxOff * room
  <2>1. off # 0 => maxOff - off \in Nat /\ maxOff - off < maxOff
    BY <1>3
  <2> QED
    BY <1>3, <1>7, <2>1
<1> HIDE DEF product
<1>12. /\ pos \in Nat /\ maxOff * pos <= product /\ product < maxOff * pos + maxOff
  <2> DEFINE rest == product % maxOff
  <2>1. pos \in Nat /\ rest \in 0..(maxOff - 1) /\ product = maxOff * pos + rest
    BY <1>3, <1>8, <1>9, Division
  <2> HIDE DEF rest
  <2>2. maxOff * pos \in Int
    BY <1>3, <2>1
  <2> QED
    BY <1>3, <2>1, <2>2
<1>13. pos <= room
  <2>1. CASE pos >= room + 1
    <3>1. maxOff * pos >= maxOff * (room + 1) /\ maxOff * (room + 1) = maxOff * room + maxOff
      BY <1>3, <1>7, <1>12, <2>1
    <3> QED
      BY <1>3, <1>7, <1>9, <1>12, <3>1
  <2> QED
    BY <1>7, <1>12, <2>1
<1>14. off = 0 => pos = room
  <2>1. CASE off = 0 /\ pos < room
    <3>1. maxOff * (pos + 1) <= maxOff * room /\ maxOff * (pos + 1) = maxOff * pos + maxOff
      BY <1>3, <1>7, <1>12, <2>1
    <3> QED
      BY <1>3, <1>7, <1>10, <1>12, <2>1, <3>1
  <2> QED
    BY <1>7, <1>12, <1>13, <2>1
<1>15. off # 0 /\ room > 0 => pos # room
  <2>1. CASE off # 0 /\ room > 0 /\ pos = room
    <3>1. maxOff * pos = maxOff * room /\ maxOff * room \in Int
      BY <1>3, <1>7, <2>1
    <3> QED
      BY <1>9, <1>11, <1>12, <2>1, <3>1
  <2> QED
    BY <2>1
<1> QED
  BY <1>2, <1>5, <1>7, <1>12, <1>13, <1>14, <1>15

-----------------------------------------------------------------------------
\* The ring of lines

HeldInv == lineBuf \in [Slots -> StoredLine] /\ written \in Seq(StoredLine)

RingInv == HeldInv /\ TypeOK /\ LinesAreNewest

TextInv == RingInv /\ ScreenIsCurrent

LEMMA HeldTypes ==
  ASSUME HeldInv, lineTotal \in 0..Cap, lineHead \in Slots, scrollOff \in Nat,
         size \in Nat \X Nat, Rows > 0, Cols > 0, dirty \in BOOLEAN
  PROVE  TypeOK
  BY DEF TypeOK, HeldInv, StoredLine

LEMMA HeldLengths ==
  HeldInv => Len(written) \in Nat /\ \A n \in 1..Len(written) : written[n] \in StoredLine
  BY LenProperties, ElementOfSeq DEF HeldInv

(* What the ring stores of the lines of a text is the last line to come to *)
(* each slot.                                                              *)
LEMMA StoredIs ==
  ASSUME HeldInv, NEW lines \in Seq(StoredLine), NEW slot \in Slots
  PROVE  /\ Stored(lines)[slot] \in StoredLine
         /\ (\A n \in 1..Len(lines) : SlotOf(n) # slot) => Stored(lines)[slot] = lineBuf[slot]
         /\ \A n \in 1..Len(lines) :
              /\ SlotOf(n) = slot
              /\ \A m \in 1..Len(lines) : SlotOf(m) = slot => m <= n
              => Stored(lines)[slot] = lines[n]
<1> DEFINE here == {n \in DOMAIN lines : SlotOf(n) = slot}
<1>1. /\ DOMAIN lines = 1..Len(lines) /\ Len(lines) \in Nat
      /\ \A n \in 1..Len(lines) : lines[n] \in StoredLine
  BY LenProperties, ElementOfSeq
<1>2. Stored(lines)[slot] = IF here = {} THEN lineBuf[slot] ELSE lines[Max(here)]
  BY DEF Stored
<1>3. \A n \in here : n \in 1..Len(lines) /\ SlotOf(n) = slot
  BY <1>1
<1>4. \A n \in 1..Len(lines) : SlotOf(n) = slot => n \in here
  BY <1>1
<1>5. lineBuf[slot] \in StoredLine
  BY DEF HeldInv
<1> HIDE DEF here
<1>6. here # {} => Max(here) \in here /\ \A n \in here : n <= Max(here)
  <2>1. here \in SUBSET (0..Len(lines))
    BY <1>1, <1>3
  <2> QED
    BY <1>1, <2>1, MaxIs
<1>7. Stored(lines)[slot] \in StoredLine
  BY <1>1, <1>2, <1>3, <1>5, <1>6
<1>8. ASSUME \A n \in 1..Len(lines) : SlotOf(n) # slot
      PROVE  Stored(lines)[slot] = lineBuf[slot]
  BY <1>2, <1>3, <1>8
<1>9. ASSUME NEW n \in 1..Len(lines), SlotOf(n) = slot,
             \A m \in 1..Len(lines) : SlotOf(m) = slot => m <= n
      PROVE  Stored(lines)[slot] = lines[n]
  <2>1. n \in here
    BY <1>4, <1>9
  <2>2. Max(here) \in 1..Len(lines) /\ Max(here) <= n /\ n <= Max(here)
    BY <1>3, <1>6, <1>9, <2>1
  <2>3. Max(here) = n
    BY <1>1, <2>2
  <2> QED
    BY <1>2, <2>1, <2>3
<1> QED
  BY <1>7, <1>8, <1>9

(* The slots of two lines less than a ring apart differ.                   *)
LEMMA SlotsDiffer ==
  ASSUME NEW a \in Nat, NEW b \in Nat, a # b, a - b < Cap, b - a < Cap, NEW h \in Nat
  PROVE  (h + a) % Cap # (h + b) % Cap
<1>1. h + a \in Nat /\ h + b \in Nat
  OBVIOUS
<1>2. CASE a < b
  <2>1. h + a < h + b /\ (h + b) - (h + a) < Cap
    BY <1>2, ViewAssumption
  <2> QED
    BY <1>1, <2>1, ModDistinct, ViewAssumption
<1>3. CASE b < a
  <2>1. h + b < h + a /\ (h + a) - (h + b) < Cap
    BY <1>3, ViewAssumption
  <2> QED
    BY <1>1, <2>1, ModDistinct, ViewAssumption
<1> QED
  BY <1>2, <1>3

(* Line n of a text comes to the slot lineTotal + n - 1 behind the head.   *)
LEMMA SlotOfIs ==
  ASSUME TypeOK, NEW n \in Nat \ {0}
  PROVE  lineTotal + n - 1 \in Nat /\ SlotOf(n) = (lineHead + (lineTotal + n - 1)) % Cap
<1>1. lineTotal \in Nat /\ lineHead \in Nat
  BY ViewAssumption DEF TypeOK, Slots
<1>2. lineHead + lineTotal + n - 1 = lineHead + (lineTotal + n - 1)
  BY <1>1
<1> QED
  BY <1>1, <1>2 DEF SlotOf

LEMMA SlotIsSlot == \A n \in Nat : n % Cap \in Slots
  BY Division, ViewAssumption DEF Slots

(* However far a text wraps around the ring, the newest lines are in it    *)
(* and lineAt finds them.                                                  *)
LEMMA PushKeepsNewest ==
  ASSUME RingInv, NEW text \in Texts, PushText(text)
  PROVE  /\ HeldInv' /\ lineTotal' \in 0..Cap /\ lineHead' \in Slots /\ LinesAreNewest'
         /\ Len(LinesOf(text)) \in Nat
         /\ Len(written') = Len(written) + Len(LinesOf(text))
         /\ lineTotal' = IF lineTotal + Len(LinesOf(text)) >= Cap
                         THEN Cap ELSE lineTotal + Len(LinesOf(text))
<1> DEFINE lines == LinesOf(text)
           added == Len(lines)
           lost == Evicted(added)
           old == Len(written)
<1>1. /\ lines \in Seq(StoredLine) /\ added \in Nat
      /\ \A n \in 1..added : lines[n] \in StoredLine
  <2>1. text \in Seq(Char)
    BY ViewAssumption
  <2> QED
    BY <2>1, LinesAreLines, LenProperties, ElementOfSeq
<1>2. /\ lineTotal \in Nat /\ lineTotal <= Cap /\ lineHead \in Nat /\ lineHead \in Slots
      /\ Cap \in Nat /\ Cap > 0 /\ HeldInv
      /\ old \in Nat
  BY HeldLengths, ViewAssumption DEF RingInv, TypeOK, Slots
<1>3. /\ lineBuf' = Stored(lines)
      /\ lineTotal' = Min({Cap, lineTotal + added})
      /\ lineHead' = (lineHead + lost) % Cap
      /\ written' = written \o lines
  BY DEF PushText
<1>4. /\ lineTotal = Min({Cap, old})
      /\ \A i \in 0..(lineTotal - 1) :
           lineBuf[(lineHead + i) % Cap] = written[old - lineTotal + i + 1]
  BY DEF RingInv, LinesAreNewest, LineAt
<1>5. Evicted(added) = Max({0, lineTotal + added - Cap})
  BY DEF Evicted
<1> HIDE DEF lines, added
<1>6. lost = IF lineTotal + added > Cap THEN lineTotal + added - Cap ELSE 0
  <2>1. lineTotal + added - Cap \in Int
    BY <1>1, <1>2
  <2>2. Max({0, lineTotal + added - Cap})
          = IF 0 >= lineTotal + added - Cap THEN 0 ELSE lineTotal + added - Cap
    BY <2>1, OfTwo
  <2> QED
    BY <1>1, <1>2, <1>5, <2>1, <2>2
<1>7. lineTotal' = IF lineTotal + added >= Cap THEN Cap ELSE lineTotal + added
  <2>1. lineTotal + added \in Int /\ Cap \in Int
    BY <1>1, <1>2
  <2>2. Min({Cap, lineTotal + added}) = IF Cap <= lineTotal + added THEN Cap ELSE lineTotal + added
    BY <2>1, OfTwo
  <2> QED
    BY <1>3, <2>1, <2>2
<1>8. lineTotal = IF old >= Cap THEN Cap ELSE old
  <2>1. old \in Int /\ Cap \in Int
    BY <1>2
  <2>2. Min({Cap, old}) = IF Cap <= old THEN Cap ELSE old
    BY <2>1, OfTwo
  <2> QED
    BY <1>4, <2>1, <2>2
<1> HIDE DEF lost, old
<1>9. lost \in Nat /\ lineTotal' \in Nat /\ lineTotal' = lineTotal + added - lost
  BY <1>1, <1>2, <1>6, <1>7
<1>10. /\ written' \in Seq(StoredLine) /\ Len(written') = old + added
       /\ \A n \in 1..old : written'[n] = written[n]
       /\ \A n \in 1..added : written'[old + n] = lines[n]
  <2>1. /\ written' \in Seq(StoredLine) /\ Len(written') = Len(written) + Len(lines)
        /\ \A n \in 1..Len(written) + Len(lines) :
             (written \o lines)[n] = IF n <= Len(written) THEN written[n]
                                     ELSE lines[n - Len(written)]
    BY <1>1, <1>2, <1>3, ConcatProperties DEF HeldInv
  <2>2. \A n \in 1..(old + added) :
          written'[n] = IF n <= old THEN written[n] ELSE lines[n - old]
    BY <1>3, <2>1 DEF old, added
  <2>3. Len(written') = old + added
    BY <2>1 DEF old, added
  <2>4. \A n \in 1..old : written'[n] = written[n]
    BY <1>1, <1>2, <2>2
  <2>5. ASSUME NEW n \in 1..added
        PROVE  written'[old + n] = lines[n]
    <3> DEFINE k == old + n
    <3>1. k \in 1..(old + added) /\ ~(k <= old) /\ k - old = n
      BY <1>1, <1>2
    <3> HIDE DEF k
    <3>2. written'[k] = lines[n]
      BY <2>2, <3>1
    <3> QED
      BY <3>2 DEF k
  <2> QED
    BY <2>1, <2>3, <2>4, <2>5
<1>11. HeldInv'
  <2>1. \A slot \in Slots : Stored(lines)[slot] \in StoredLine
    BY <1>1, <1>2, StoredIs
  <2>2. Stored(lines) = [slot \in Slots |-> Stored(lines)[slot]]
    BY DEF Stored
  <2>3. lineBuf' \in [Slots -> StoredLine]
    BY <1>3, <2>1, <2>2
  <2> QED
    BY <1>10, <2>3 DEF HeldInv, Slots, StoredLine
<1>12. lineHead' \in Slots
  BY <1>2, <1>3, <1>9, SlotIsSlot
<1>13. ASSUME NEW n \in 1..added
       PROVE  lineTotal + n - 1 \in Nat /\ SlotOf(n) = (lineHead + (lineTotal + n - 1)) % Cap
  <2>1. n \in Nat \ {0}
    BY <1>1
  <2> QED
    BY <2>1, SlotOfIs DEF RingInv
<1>14. ASSUME NEW g \in Nat, lost <= g, g < lineTotal + added
       PROVE  lineBuf'[(lineHead + g) % Cap] = written'[old - lineTotal + g + 1]
  <2> DEFINE slot == (lineHead + g) % Cap
  <2>1. slot \in Slots
    BY <1>2, SlotIsSlot
  <2>2. CASE g < lineTotal
    <3>1. ASSUME NEW n \in 1..added
          PROVE  SlotOf(n) # slot
      <4>1. /\ lineTotal + n - 1 \in Nat /\ lineTotal + n - 1 # g
            /\ (lineTotal + n - 1) - g < Cap /\ g - (lineTotal + n - 1) < Cap
        BY <1>1, <1>2, <1>6, <1>14, <2>2
      <4>2. (lineHead + (lineTotal + n - 1)) % Cap # slot
        BY <1>2, <4>1, SlotsDiffer
      <4> QED
        BY <1>13, <4>2
    <3>2. lineBuf'[slot] = lineBuf[slot]
      BY <1>1, <1>2, <1>3, <2>1, <3>1, StoredIs DEF added
    <3>3. g \in 0..(lineTotal - 1) /\ old - lineTotal + g + 1 \in 1..old
      BY <1>2, <1>8, <2>2
    <3> QED
      BY <1>4, <1>10, <3>2, <3>3 DEF old
  <2>3. CASE g >= lineTotal
    <3> DEFINE k == g - lineTotal + 1
    <3>1. k \in 1..added /\ lineTotal + k - 1 = g
      BY <1>1, <1>2, <1>14, <2>3
    <3>2. SlotOf(k) = slot
      BY <1>13, <3>1
    <3>3. ASSUME NEW m \in 1..added, SlotOf(m) = slot
          PROVE  m <= k
      <4>1. lineTotal + m - 1 \in Nat /\ (lineHead + (lineTotal + m - 1)) % Cap = slot
        BY <1>13, <3>3
      <4>2. CASE m > k
        <5>1. /\ lineTotal + m - 1 # g
              /\ (lineTotal + m - 1) - g < Cap /\ g - (lineTotal + m - 1) < Cap
          BY <1>1, <1>2, <1>6, <1>14, <3>1, <4>2
        <5> QED
          BY <1>2, <4>1, <5>1, SlotsDiffer
      <4> QED
        BY <1>1, <3>1, <4>2
    <3> HIDE DEF slot
    <3>4. Stored(lines)[slot] = lines[k]
      BY <1>1, <1>2, <2>1, <3>1, <3>2, <3>3, StoredIs DEF added
    <3>5. old - lineTotal + g + 1 = old + k
      BY <1>2, <3>1
    <3> QED
      BY <1>3, <1>10, <3>1, <3>4, <3>5 DEF slot
  <2> QED
    BY <1>2, <2>2, <2>3
<1>15. ASSUME NEW i \in 0..(lineTotal' - 1)
       PROVE  lineBuf'[(lineHead' + i) % Cap] = written'[Len(written') - lineTotal' + i + 1]
  <2>1. i \in Nat /\ lost + i \in Nat /\ lost <= lost + i /\ lost + i < lineTotal + added
    BY <1>1, <1>2, <1>9
  <2>2. (((lineHead + lost) % Cap) + i) % Cap = ((lineHead + lost) + i) % Cap
    <3>1. lineHead + lost \in Nat /\ Cap \in Nat \ {0}
      BY <1>2, <1>9
    <3> QED
      BY <2>1, <3>1, ModOfSum
  <2>3. (lineHead + lost) + i = lineHead + (lost + i)
    BY <1>2, <1>9, <2>1
  <2>4. (lineHead' + i) % Cap = (lineHead + (lost + i)) % Cap
    BY <1>3, <2>2, <2>3
  <2>5. lineBuf'[(lineHead + (lost + i)) % Cap] = written'[old - lineTotal + (lost + i) + 1]
    BY <1>14, <2>1
  <2>6. Len(written') - lineTotal' + i + 1 = old - lineTotal + (lost + i) + 1
    <3>1. Len(written') = old + added
      BY <1>10
    <3> QED
      BY <1>1, <1>2, <1>9, <2>1, <3>1
  <2> QED
    BY <2>4, <2>5, <2>6
<1>16. LinesAreNewest'
  <2>0. old + added \in Int /\ Cap \in Int
    BY <1>1, <1>2
  <2>1. Min({Cap, old + added}) = IF Cap <= old + added THEN Cap ELSE old + added
    BY <2>0, OfTwo
  <2>2. lineTotal' = Min({Cap, Len(written')})
    <3>1. Len(written') = old + added
      BY <1>10
    <3>2. lineTotal' = IF Cap <= old + added THEN Cap ELSE old + added
      BY <1>1, <1>2, <1>7, <1>8
    <3> QED
      BY <2>1, <3>1, <3>2
  <2> QED
    BY <1>15, <2>2 DEF LinesAreNewest, LineAt
<1>17. lineTotal' \in 0..Cap
  BY <1>1, <1>2, <1>7
<1> QED
  BY <1>1, <1>7, <1>10, <1>11, <1>12, <1>16, <1>17 DEF lines, added, old

(* A plane just drawn shows the screen that the lines and the offset call  *)
(* for.                                                                    *)
Shows(plane) ==
  /\ Len(plane.text) = Rows
  /\ \A i \in 1..Rows :
       LET n == Above + i
       IN  plane.text[i] =
             IF Cols > 1 /\ n <= Len(written)
             THEN SubSeq(written[n], 1, Min({Len(written[n]), Cols - 1}))
             ELSE <<>>
  /\ Above >= Lost
  /\ Above + Rows > Len(written) => Above = Lost
  /\ (\E i \in 1..Rows : plane.bar[i] = "thumb") <=> lineTotal > Rows
  /\ (lineTotal > Rows /\ Rows > 1) =>
       (plane.bar[Rows] = "thumb" <=> Above + Rows = Len(written))

LEMMA CurrentIsShown == ScreenIsCurrent <=> (~dirty => Shows(drawn))
  BY DEF ScreenIsCurrent, Shows

LEMMA RingTypes ==
  ASSUME RingInv
  PROVE  /\ lineTotal \in Nat /\ lineHead \in Nat /\ scrollOff \in Nat /\ Cap \in Nat \ {0}
         /\ Rows \in Nat \ {0} /\ Cols \in Nat \ {0} /\ Len(written) \in Nat
         /\ lineTotal <= Cap /\ lineTotal <= Len(written)
         /\ lineTotal = IF Cap <= Len(written) THEN Cap ELSE Len(written)
<1>1. /\ lineTotal \in 0..Cap /\ lineHead \in 0..(Cap - 1) /\ scrollOff \in Nat
      /\ size \in Nat \X Nat /\ Rows > 0 /\ Cols > 0
      /\ lineTotal = Min({Cap, Len(written)})
  BY DEF RingInv, TypeOK, LinesAreNewest, Slots
<1>2. Cap \in Nat \ {0} /\ Len(written) \in Nat
  BY HeldLengths, ViewAssumption DEF RingInv
<1>3. Rows \in Nat \ {0} /\ Cols \in Nat \ {0}
  BY <1>1 DEF Rows, Cols
<1>4. Min({Cap, Len(written)}) = IF Cap <= Len(written) THEN Cap ELSE Len(written)
  <2>1. Cap \in Int /\ Len(written) \in Int
    BY <1>2
  <2> QED
    BY <2>1, OfTwo
<1> QED
  BY <1>1, <1>2, <1>3, <1>4

LEMMA ScreenShows ==
  ASSUME RingInv, NEW plane, plane = Screen
  PROVE  Shows(plane)
<1> DEFINE off == Clamped(scrollOff)
           thumb == ComputeThumb(lineTotal, Rows, off)
           count == Len(written)
<1>1. /\ lineTotal \in Nat /\ lineHead \in Nat /\ scrollOff \in Nat
      /\ Rows \in Nat \ {0} /\ Cols \in Nat \ {0} /\ count \in Nat /\ lineTotal <= count
  BY RingTypes
<1>2. /\ plane.text = [i \in 1..Rows |-> RowText(i - 1)]
      /\ plane.bar = [i \in 1..Rows |-> Cell(thumb, i - 1)]
  BY DEF Screen
<1>3. /\ MaxScroll = IF lineTotal > Rows THEN lineTotal - Rows ELSE 0
      /\ off = IF scrollOff <= MaxScroll THEN scrollOff ELSE MaxScroll
      /\ off \in Nat
  <2>1. MaxScroll \in Nat /\ MaxScroll = IF lineTotal > Rows THEN lineTotal - Rows ELSE 0
    BY <1>1, MaxScrollIs
  <2> QED
    BY <1>1, <2>1, ClampedIs
<1>4. FirstVisible = IF lineTotal > Rows THEN lineTotal - Rows - off ELSE 0
  BY DEF FirstVisible
<1>5. /\ Above = count - lineTotal + FirstVisible
      /\ Lost = count - lineTotal
  BY DEF Above, Lost
<1> HIDE DEF off, count
<1>6. /\ lineTotal > Rows => off \in 0..(lineTotal - Rows)
      /\ FirstVisible \in Nat
  BY <1>1, <1>3, <1>4
<1>7. Len(plane.text) = Rows
  BY <1>1, <1>2, LenProperties
<1>8. ASSUME NEW i \in 1..Rows
      PROVE  plane.text[i] = IF Cols > 1 /\ Above + i <= count
                             THEN SubSeq(written[Above + i], 1,
                                         Min({Len(written[Above + i]), Cols - 1}))
                             ELSE <<>>
  <2> DEFINE row == FirstVisible + (i - 1)
  <2>1. plane.text[i] = IF Cols > 1 /\ row < lineTotal
                        THEN SubSeq(LineAt(row), 1, Min({Len(LineAt(row)), Cols - 1}))
                        ELSE <<>>
    BY <1>2 DEF RowText
  <2>2. row < lineTotal <=> Above + i <= count
    BY <1>1, <1>5, <1>6
  <2>3. ASSUME row < lineTotal
        PROVE  LineAt(row) = written[Above + i]
    <3>1. row \in 0..(lineTotal - 1) /\ count - lineTotal + row + 1 = Above + i
      BY <1>1, <1>5, <1>6, <2>3
    <3> HIDE DEF row
    <3>2. LineAt(row) = written[Len(written) - lineTotal + row + 1]
      BY <3>1 DEF RingInv, LinesAreNewest
    <3> QED
      BY <3>1, <3>2 DEF count
  <2> HIDE DEF row
  <2> QED
    BY <2>1, <2>2, <2>3
<1>9. Above >= Lost
  BY <1>1, <1>5, <1>6
<1>10. Above + Rows > count => Above = Lost
  BY <1>1, <1>4, <1>5, <1>6
<1>11. /\ (\E i \in 1..Rows : plane.bar[i] = "thumb") <=> lineTotal > Rows
       /\ (lineTotal > Rows /\ Rows > 1) => (plane.bar[Rows] = "thumb" <=> Above + Rows = count)
  <2>1. CASE lineTotal <= Rows
    <3>1. thumb = NoThumb
      BY <2>1 DEF ComputeThumb
    <3>2. \A i \in 1..Rows : plane.bar[i] # "thumb"
      BY <1>2, <3>1 DEF Cell, NoThumb
    <3> QED
      BY <1>1, <2>1, <3>2
  <2>2. CASE lineTotal > Rows
    <3>1. /\ thumb.visible /\ thumb.height \in 1..Rows
          /\ thumb.pos \in 0..(Rows - thumb.height)
          /\ Rows > 1 => (thumb.pos + thumb.height = Rows <=> off = 0)
      <4>1. off \in 0..(lineTotal - Rows)
        BY <1>6, <2>2
      <4> QED
        BY <1>1, <2>2, <4>1, ThumbWithin
    <3> HIDE DEF thumb
    <3>2. \A i \in 1..Rows :
            plane.bar[i] = "thumb" <=> i - 1 >= thumb.pos /\ i - 1 < thumb.pos + thumb.height
      <4> TAKE i \in 1..Rows
      <4>1. plane.bar[i] = Cell(thumb, i - 1)
        BY <1>2
      <4> QED
        BY <3>1, <4>1 DEF Cell
    <3>3. thumb.pos + 1 \in 1..Rows
      BY <1>1, <3>1
    <3>4. plane.bar[thumb.pos + 1] = "thumb"
      BY <3>1, <3>2, <3>3
    <3>5. Above + Rows = count <=> off = 0
      BY <1>1, <1>3, <1>4, <1>5, <2>2
    <3>6. Rows \in 1..Rows
      BY <1>1
    <3>7. plane.bar[Rows] = "thumb" <=> thumb.pos + thumb.height = Rows
      <4>1. Rows - 1 >= thumb.pos /\ Rows - 1 < thumb.pos + thumb.height
              <=> thumb.pos + thumb.height = Rows
        BY <1>1, <3>1
      <4> QED
        BY <3>2, <3>6, <4>1
    <3> QED
      BY <2>2, <3>1, <3>3, <3>4, <3>5, <3>7
  <2> QED
    BY <1>1, <2>1, <2>2
<1> QED
  BY <1>7, <1>8, <1>9, <1>10, <1>11 DEF Shows, count

-----------------------------------------------------------------------------
\* The operations

LEMMA ContentIs ==
  ASSUME NEW s \in Sizes
  PROVE  Content(s) \in Nat \X Nat /\ Content(s)[1] > 0 /\ Content(s)[2] > 0
<1>1. s[1] \in Int /\ s[2] - 1 \in Int /\ 1 \in Int
  BY ViewAssumption
<1>2. /\ Max({s[1], 1}) = IF s[1] >= 1 THEN s[1] ELSE 1
      /\ Max({s[2] - 1, 1}) = IF s[2] - 1 >= 1 THEN s[2] - 1 ELSE 1
  BY <1>1, OfTwo
<1>3. Content(s) = <<Max({s[1], 1}), Max({s[2] - 1, 1})>>
  BY DEF Content
<1> QED
  BY <1>1, <1>2, <1>3

LEMMA EmptyTypes ==
  ASSUME Width > 0
  PROVE  <<>> \in StoredLine /\ <<>> \in Seq(StoredLine) /\ Len(<<>>) = 0
  BY DEF StoredLine, Range

LEMMA InitText == Init => TextInv
<1> SUFFICES ASSUME Init PROVE TextInv
  OBVIOUS
<1>1. /\ lineBuf = [slot \in Slots |-> <<>>] /\ written = <<>>
      /\ lineTotal = 0 /\ lineHead = 0 /\ scrollOff = 0 /\ dirty = FALSE /\ drawn = Screen
  BY DEF Init
<1>2. Cap \in Nat \ {0} /\ Width \in Nat \ {0}
  BY ViewAssumption
<1>3. /\ <<>> \in StoredLine /\ <<>> \in Seq(StoredLine) /\ Len(written) = 0
  BY <1>1, <1>2, EmptyTypes
<1>4. HeldInv
  BY <1>1, <1>3 DEF HeldInv
<1>5. size \in Nat \X Nat /\ Rows > 0 /\ Cols > 0
  BY ContentIs DEF Init, Rows, Cols
<1>6. lineTotal \in 0..Cap /\ lineHead \in Slots
  BY <1>1, <1>2 DEF Slots
<1>7. TypeOK
  BY <1>1, <1>4, <1>5, <1>6, HeldTypes
<1>8. LinesAreNewest
  <2>1. Min({Cap, 0}) = 0
    <3>1. Cap \in Int /\ 0 \in Int /\ ~(Cap <= 0)
      BY <1>2
    <3> QED
      BY <3>1, OfTwo
  <2> QED
    BY <1>1, <1>3, <2>1 DEF LinesAreNewest
<1>9. RingInv
  BY <1>4, <1>7, <1>8 DEF RingInv
<1> QED
  BY <1>1, <1>9, ScreenShows, CurrentIsShown DEF TextInv

(* What is dirty is not yet claimed to be current.                         *)
LEMMA DirtiedKeeps ==
  ASSUME HeldInv', lineTotal' \in 0..Cap, lineHead' \in Slots, scrollOff' \in Nat,
         size' \in Nat \X Nat, Rows' > 0, Cols' > 0, LinesAreNewest', Dirtied
  PROVE  TextInv'
<1>1. dirty' = TRUE
  BY DEF Dirtied
<1>2. TypeOK'
  BY <1>1 DEF TypeOK, HeldInv, StoredLine, Slots
<1>3. ScreenIsCurrent'
  BY <1>1 DEF ScreenIsCurrent
<1> QED
  BY <1>2, <1>3 DEF TextInv, RingInv

LEMMA RingUnchanged ==
  ASSUME RingInv, UNCHANGED <<lineBuf, lineTotal, lineHead, written>>
  PROVE  HeldInv' /\ lineTotal' \in 0..Cap /\ lineHead' \in Slots /\ LinesAreNewest'
<1>1. HeldInv' /\ LinesAreNewest'
  BY DEF RingInv, HeldInv, LinesAreNewest, LineAt, StoredLine, Slots
<1> QED
  BY <1>1 DEF RingInv, TypeOK

LEMMA PushKeeps ==
  ASSUME TextInv, NEW text \in Texts, PushText(text)
  PROVE  TextInv'
<1>1. RingInv
  BY DEF TextInv
<1>2. /\ HeldInv' /\ lineTotal' \in 0..Cap /\ lineHead' \in Slots /\ LinesAreNewest'
      /\ Len(LinesOf(text)) \in Nat
  BY <1>1, PushKeepsNewest
<1>3. scrollOff' \in Nat
  BY <1>1, <1>2, RingTypes DEF PushText, Preserved
<1>4. size' \in Nat \X Nat /\ Rows' > 0 /\ Cols' > 0
  BY <1>1 DEF RingInv, TypeOK, PushText, Rows, Cols
<1>5. Dirtied
  BY DEF PushText
<1> QED
  BY <1>2, <1>3, <1>4, <1>5, DirtiedKeeps

LEMMA ClearKeeps ==
  ASSUME TextInv, Clear
  PROVE  TextInv'
<1>1. RingInv
  BY DEF TextInv
<1>2. /\ lineTotal' = 0 /\ lineHead' = 0 /\ scrollOff' = 0 /\ written' = <<>>
      /\ lineBuf' = lineBuf /\ size' = size /\ Dirtied
  BY DEF Clear
<1>3. Cap \in Nat \ {0} /\ Width \in Nat \ {0}
  BY ViewAssumption
<1>4. /\ <<>> \in Seq(StoredLine) /\ Len(written') = 0
  BY <1>2, <1>3, EmptyTypes
<1>5. HeldInv'
  BY <1>1, <1>2, <1>4 DEF RingInv, HeldInv, StoredLine, Slots
<1>6. lineTotal' \in 0..Cap /\ lineHead' \in Slots /\ scrollOff' \in Nat
  BY <1>2, <1>3 DEF Slots
<1>7. size' \in Nat \X Nat /\ Rows' > 0 /\ Cols' > 0
  BY <1>1, <1>2 DEF RingInv, TypeOK, Rows, Cols
<1>8. LinesAreNewest'
  <2>1. Min({Cap, 0}) = 0
    <3>1. Cap \in Int /\ 0 \in Int /\ ~(Cap <= 0)
      BY <1>3
    <3> QED
      BY <3>1, OfTwo
  <2> QED
    BY <1>2, <1>4, <2>1 DEF LinesAreNewest
<1> QED
  BY <1>2, <1>5, <1>6, <1>7, <1>8, DirtiedKeeps

LEMMA ScrolledKeeps ==
  ASSUME TextInv, NEW delta \in Int, Scrolled(delta)
  PROVE  TextInv'
<1>1. RingInv
  BY DEF TextInv
<1>2. /\ scrollOff' = Clamped(scrollOff + delta) /\ Dirtied
      /\ UNCHANGED <<lineBuf, lineTotal, lineHead, written>> /\ size' = size
  BY DEF Scrolled, ring
<1>3. scrollOff' \in Nat
  <2>1. lineTotal \in Nat /\ Rows \in Nat /\ scrollOff + delta \in Int
    BY <1>1, RingTypes
  <2> QED
    BY <1>2, <2>1, ClampedIs
<1>4. size' \in Nat \X Nat /\ Rows' > 0 /\ Cols' > 0
  BY <1>1, <1>2 DEF RingInv, TypeOK, Rows, Cols
<1> QED
  BY <1>1, <1>2, <1>3, <1>4, RingUnchanged, DirtiedKeeps

LEMMA ResizeKeeps ==
  ASSUME TextInv, NEW s \in Sizes, Resize(s)
  PROVE  TextInv'
<1>1. RingInv
  BY DEF TextInv
<1>2. /\ size' = Content(s) /\ Dirtied /\ scrollOff' = scrollOff
      /\ UNCHANGED <<lineBuf, lineTotal, lineHead, written>>
  BY DEF Resize, ring
<1>3. size' \in Nat \X Nat /\ Rows' > 0 /\ Cols' > 0
  BY <1>2, ContentIs DEF Rows, Cols
<1>4. scrollOff' \in Nat
  BY <1>1, <1>2 DEF RingInv, TypeOK
<1> QED
  BY <1>1, <1>2, <1>3, <1>4, RingUnchanged, DirtiedKeeps

(* Clamping what is clamped changes nothing: the offset the frame is drawn *)
(* with is the one it is left with.                                        *)
LEMMA RefreshKeeps ==
  ASSUME TextInv, Refresh
  PROVE  TextInv'
<1>1. RingInv
  BY DEF TextInv
<1>2. /\ scrollOff' = Clamped(scrollOff) /\ drawn' = Screen /\ dirty' = FALSE
      /\ UNCHANGED <<lineBuf, lineTotal, lineHead, written>> /\ size' = size
  BY DEF Refresh, ring
<1>3. lineTotal \in Nat /\ Rows \in Nat /\ scrollOff \in Nat
  BY <1>1, RingTypes
<1>4. /\ MaxScroll \in Nat /\ MaxScroll = IF lineTotal > Rows THEN lineTotal - Rows ELSE 0
      /\ scrollOff' = IF scrollOff <= MaxScroll THEN scrollOff ELSE MaxScroll
  BY <1>2, <1>3, MaxScrollIs, ClampedIs
<1>5. Rows' = Rows /\ Cols' = Cols
  BY <1>2 DEF Rows, Cols
<1>6. TypeOK'
  <2>1. scrollOff' \in Nat
    BY <1>3, <1>4
  <2> QED
    BY <1>1, <1>2, <1>5, <2>1 DEF RingInv, TypeOK, Slots
<1>7. RingInv'
  BY <1>1, <1>2, <1>6, RingUnchanged DEF RingInv
<1>8. FirstVisible' = FirstVisible
  <2>1. FirstVisible = First(lineTotal, Rows, scrollOff)
    BY <1>3, FirstVisibleIs
  <2>2. lineTotal' \in Nat /\ Rows' \in Nat /\ scrollOff' \in Nat
    BY <1>2, <1>3, <1>4, <1>5
  <2>3. FirstVisible' = First(lineTotal', Rows', scrollOff')
    BY <2>2, FirstVisibleNext
  <2>4. FirstVisible' = First(lineTotal, Rows, scrollOff')
    BY <1>2, <1>5, <2>3
  <2>5. First(lineTotal, Rows, scrollOff') = First(lineTotal, Rows, scrollOff)
    BY <1>3, <1>4 DEF First
  <2> QED
    BY <2>1, <2>4, <2>5
<1>9. Above' = Above /\ Lost' = Lost
  BY <1>2, <1>8 DEF Above, Lost
<1>10. Shows(drawn')
  BY <1>1, <1>2, ScreenShows
<1>11. Shows(drawn)'
  BY <1>2, <1>5, <1>9, <1>10 DEF Shows
<1>12. ScreenIsCurrent'
  BY <1>11 DEF ScreenIsCurrent, Shows
<1> QED
  BY <1>7, <1>12 DEF TextInv

(* What arrives leaves what is read in its place.                          *)
LEMMA PushKeepsPlace ==
  ASSUME RingInv, NEW text \in Texts, PushText(text)
  PROVE  IF scrollOff > 0
         THEN Above' = Max({Above, Lost'})
         ELSE Above' = Max({Lost', Len(written') - Rows'})
<1> DEFINE added == Len(LinesOf(text))
           count == Len(written)
<1>1. /\ lineTotal \in Nat /\ scrollOff \in Nat /\ Cap \in Nat \ {0} /\ Rows \in Nat
      /\ count \in Nat /\ lineTotal <= Cap
  BY RingTypes
<1>2. /\ added \in Nat /\ Len(written') = count + added
      /\ lineTotal' = IF lineTotal + added >= Cap THEN Cap ELSE lineTotal + added
  BY PushKeepsNewest
<1>3. /\ scrollOff' = IF scrollOff > 0 THEN scrollOff + added ELSE scrollOff
      /\ Rows' = Rows
  BY DEF PushText, Preserved, Rows
<1> HIDE DEF added, count
<1>4. lineTotal' \in Nat /\ Rows' \in Nat /\ scrollOff' \in Nat
  BY <1>1, <1>2, <1>3
<1>5. FirstVisible = First(lineTotal, Rows, scrollOff) /\ FirstVisible \in Nat
  BY <1>1, FirstVisibleIs
<1>6. FirstVisible' = First(lineTotal', Rows, scrollOff') /\ FirstVisible' \in Nat
  BY <1>3, <1>4, FirstVisibleNext
<1>7. /\ Above = count - lineTotal + FirstVisible
      /\ Above' = count + added - lineTotal' + FirstVisible'
      /\ Lost' = count + added - lineTotal'
  <2>1. Above = count - lineTotal + FirstVisible
    BY DEF Above, count
  <2>2. /\ Above' = Len(written') - lineTotal' + FirstVisible'
        /\ Lost' = Len(written') - lineTotal'
    BY DEF Above, Lost
  <2>3. Len(written') = count + added
    BY <1>2
  <2>4. count \in Int /\ added \in Int /\ lineTotal' \in Int /\ FirstVisible' \in Int
    BY <1>1, <1>2, <1>4, <1>6
  <2> QED
    BY <2>1, <2>2, <2>3, <2>4
<1>8. Above \in Int /\ Lost' \in Int /\ Len(written') - Rows' \in Int
  BY <1>1, <1>2, <1>3, <1>4, <1>5, <1>7
<1>9. /\ Max({Above, Lost'}) = IF Above >= Lost' THEN Above ELSE Lost'
      /\ Max({Lost', Len(written') - Rows'})
           = IF Lost' >= Len(written') - Rows' THEN Lost' ELSE Len(written') - Rows'
  BY <1>8, OfTwo
<1>10. CASE scrollOff > 0
  <2>1. scrollOff' = scrollOff + added
    BY <1>3, <1>10
  <2>2. Above' = IF Above >= Lost' THEN Above ELSE Lost'
    BY <1>1, <1>2, <1>5, <1>6, <1>7, <1>10, <2>1 DEF First
  <2> QED
    BY <1>9, <1>10, <2>2
<1>11. CASE scrollOff = 0
  <2>1. scrollOff' = 0
    BY <1>3, <1>11
  <2>2. Above' = IF Lost' >= Len(written') - Rows' THEN Lost' ELSE Len(written') - Rows'
    BY <1>1, <1>2, <1>3, <1>6, <1>7, <2>1 DEF First
  <2> QED
    BY <1>9, <1>11, <2>2
<1> QED
  BY <1>1, <1>10, <1>11

-----------------------------------------------------------------------------
\* Every step

LEMMA NextKeeps ==
  ASSUME TextInv, [Next]_vars
  PROVE  /\ TextInv'
         /\ Len(written') > Len(written) =>
              IF scrollOff > 0
              THEN Above' = Max({Above, Lost'})
              ELSE Above' = Max({Lost', Len(written') - Rows'})
<1>1. RingInv
  BY DEF TextInv
<1>2. Len(written) \in Nat
  BY <1>1, RingTypes
<1>3. CASE \E text \in Texts : PushText(text)
  BY <1>1, <1>3, PushKeeps, PushKeepsPlace
<1>4. CASE Clear
  <2>1. written' = <<>>
    BY <1>4 DEF Clear
  <2>2. ~(Len(written') > Len(written))
    BY <1>2, <2>1
  <2> QED
    BY <1>4, <2>2, ClearKeeps
<1>5. CASE ScrollPageUp \/ ScrollPageDown
  <2>1. Rows \div 2 \in Nat
    BY <1>1, RingTypes
  <2>2. PICK delta \in Int : Scrolled(delta)
    BY <1>5, <2>1 DEF ScrollPageUp, ScrollPageDown
  <2>3. written' = written
    BY <2>2 DEF Scrolled
  <2> QED
    BY <1>2, <2>2, <2>3, ScrolledKeeps
<1>6. CASE \E s \in Sizes : Resize(s)
  <2>1. PICK s \in Sizes : Resize(s)
    BY <1>6
  <2>2. written' = written
    BY <2>1 DEF Resize
  <2> QED
    BY <1>2, <2>1, <2>2, ResizeKeeps
<1>7. CASE Refresh
  <2>1. written' = written
    BY <1>7 DEF Refresh
  <2> QED
    BY <1>2, <1>7, <2>1, RefreshKeeps
<1>8. CASE UNCHANGED vars
  <2>1. /\ UNCHANGED <<lineBuf, lineTotal, lineHead, written>>
        /\ UNCHANGED <<scrollOff, size, dirty, drawn>>
    BY <1>8 DEF vars
  <2>2. Rows' = Rows /\ Cols' = Cols
    BY <2>1 DEF Rows, Cols
  <2>3. TypeOK'
    BY <1>1, <2>1, <2>2 DEF RingInv, TypeOK, Slots
  <2>4. RingInv'
    BY <1>1, <2>1, <2>3, RingUnchanged DEF RingInv
  <2>5. Above' = Above /\ Lost' = Lost
    BY <2>1, <2>2 DEF Above, Lost, FirstVisible, Clamped, MaxScroll
  <2>6. ScreenIsCurrent'
    BY <2>1, <2>2, <2>5 DEF TextInv, ScreenIsCurrent
  <2> QED
    BY <1>2, <2>1, <2>4, <2>6 DEF TextInv
<1> QED
  BY <1>3, <1>4, <1>5, <1>6, <1>7, <1>8 DEF Next

(* At every moment the ring holds the newest lines, as many as fit, and    *)
(* lineAt finds each of them; a frame that is not dirty shows the lines    *)
(* that the scroll offset calls for, cut at the screen's width, with no    *)
(* row left empty that a line is stored for, and its thumb is at the       *)
(* bottom exactly if the newest line is shown (text_buffer_view.c).        *)
THEOREM TextViewStaysCurrent == Spec => []TextViewCurrent
<1>1. TextInv => TextViewCurrent
  BY DEF TextInv, RingInv, TextViewCurrent
<1> QED
  BY <1>1, InitText, NextKeeps, PTL DEF Spec

(* Text that arrives leaves the lines that are being read where they are   *)
(* on the screen until the ring drops them                                 *)
(* (TextArea_preserveScrollOnAppend).                                      *)
THEOREM TextStaysInPlace == Spec => AppendKeepsPlace
<1> DEFINE Placed == Len(written') > Len(written) =>
                       IF scrollOff > 0
                       THEN Above' = Max({Above, Lost'})
                       ELSE Above' = Max({Lost', Len(written') - Rows'})
<1>1. TextInv /\ [Next]_vars => [Placed]_vars
  BY NextKeeps
<1> QED
  BY <1>1, InitText, NextKeeps, PTL DEF Spec, AppendKeepsPlace

-----------------------------------------------------------------------------
\* Texts of whole code points

LEMMA SliceIs ==
  ASSUME NEW t \in Seq(Byte), NEW b \in Nat, NEW e \in b..Len(t)
  PROVE  /\ SubSeq(t, b + 1, e) \in Seq(Byte)
         /\ Len(SubSeq(t, b + 1, e)) = e - b
         /\ \A i \in 1..(e - b) : SubSeq(t, b + 1, e)[i] = t[b + i]
<1>1. Len(t) \in Nat /\ b + 1 \in Int /\ e \in Int
  BY LenProperties
<1>2. \A i \in (b + 1)..e : t[i] \in Byte
  BY <1>1, ElementOfSeq
<1>3. /\ SubSeq(t, b + 1, e) \in Seq(Byte)
      /\ Len(SubSeq(t, b + 1, e)) = (IF b + 1 <= e THEN e - (b + 1) + 1 ELSE 0)
      /\ \A i \in 1..(e - (b + 1) + 1) : SubSeq(t, b + 1, e)[i] = t[b + 1 + i - 1]
  BY <1>1, <1>2, SubSeqProperties
<1>4. e - (b + 1) + 1 = e - b /\ \A i \in Int : b + 1 + i - 1 = b + i
  BY <1>1
<1>5. (IF b + 1 <= e THEN e - (b + 1) + 1 ELSE 0) = e - b
  BY <1>1
<1>6. ASSUME NEW i \in 1..(e - b) PROVE SubSeq(t, b + 1, e)[i] = t[b + i]
  <2>1. i \in 1..(e - (b + 1) + 1) /\ b + 1 + i - 1 = b + i
    BY <1>1, <1>4
  <2>2. SubSeq(t, b + 1, e)[i] = t[b + 1 + i - 1]
    BY <1>3, <2>1
  <2> QED
    BY <2>1, <2>2
<1>7. Len(SubSeq(t, b + 1, e)) = e - b
  BY <1>3, <1>5
<1> QED
  BY <1>3, <1>6, <1>7

LEMMA JoinIs ==
  ASSUME NEW s \in Seq(Byte), NEW t \in Seq(Byte)
  PROVE  /\ s \o t \in Seq(Byte)
         /\ Len(s \o t) = Len(s) + Len(t)
         /\ \A i \in 1..Len(s) : (s \o t)[i] = s[i]
         /\ \A i \in 1..Len(t) : (s \o t)[Len(s) + i] = t[i]
<1>1. Len(s) \in Nat /\ Len(t) \in Nat
  BY LenProperties
<1>2. /\ s \o t \in Seq(Byte)
      /\ Len(s \o t) = Len(s) + Len(t)
      /\ \A i \in 1..(Len(s) + Len(t)) :
           (s \o t)[i] = IF i <= Len(s) THEN s[i] ELSE t[i - Len(s)]
  BY ConcatProperties
<1> DEFINE u == s \o t
           m == Len(s)
           n == Len(t)
<1> HIDE DEF u, m, n
<1>3. m \in Nat /\ n \in Nat /\ \A i \in 1..(m + n) : u[i] = IF i <= m THEN s[i] ELSE t[i - m]
  BY <1>1, <1>2 DEF u, m, n
<1>4. \A i \in 1..m : u[i] = s[i]
  BY <1>3
<1>5. \A i \in 1..n : u[m + i] = t[i]
  <2> TAKE i \in 1..n
  <2>1. m + i \in 1..(m + n) /\ ~(m + i <= m) /\ m + i - m = i
    BY <1>3
  <2> QED
    BY <1>3, <2>1
<1> QED
  BY <1>2, <1>4, <1>5 DEF u, m, n

(* The code point of t at p is whole and ends where another may start.     *)
Steps(t, p) ==
  /\ LeadSize[t[p + 1]] \in 1..4
  /\ p + LeadSize[t[p + 1]] <= Len(t)
  /\ \A i \in 2..LeadSize[t[p + 1]] : LeadSize[t[p + i]] = 0
  /\ Aligned(t, p + LeadSize[t[p + 1]])

LEMMA Leads ==
  ASSUME NEW t \in Seq(Byte), NEW p \in 0..(Len(t) - 1)
  PROVE  /\ p + 1 \in 1..Len(t) /\ t[p + 1] \in Byte
         /\ LeadSize[t[p + 1]] \in 0..4
         /\ Aligned(t, p) <=> LeadSize[t[p + 1]] # 0
<1>1. Len(t) \in Nat
  BY LenProperties
<1>2. p + 1 \in 1..Len(t) /\ p # Len(t)
  BY <1>1
<1>3. t[p + 1] \in Byte
  BY <1>2, ElementOfSeq
<1>4. LeadSize[t[p + 1]] \in 0..4
  BY <1>3, TextAssumption
<1> QED
  BY <1>2, <1>3, <1>4 DEF Aligned

LEMMA CodepointIs ==
  ASSUME NEW t \in Seq(Byte), NEW p \in 0..(Len(t) - 1), Aligned(t, p)
  PROVE  /\ CodepointSize(t, p) > 0 /\ Aligned(t, p + CodepointSize(t, p)) <=> Steps(t, p)
         /\ Steps(t, p) => CodepointSize(t, p) = LeadSize[t[p + 1]]
<1> DEFINE span == LeadSize[t[p + 1]]
<1>1. span \in 1..4 /\ Len(t) \in Nat
  BY Leads, LenProperties
<1>2. CASE p + span > Len(t) \/ \E i \in 2..span : LeadSize[t[p + i]] # 0
  <2>1. CodepointSize(t, p) = 0
    BY <1>2 DEF CodepointSize
  <2>2. ~Steps(t, p)
    BY <1>1, <1>2 DEF Steps
  <2> QED
    BY <2>1, <2>2
<1>3. CASE ~(p + span > Len(t) \/ \E i \in 2..span : LeadSize[t[p + i]] # 0)
  <2>1. CodepointSize(t, p) = span
    BY <1>3 DEF CodepointSize
  <2>2. Steps(t, p) <=> Aligned(t, p + span)
    BY <1>1, <1>3 DEF Steps
  <2> QED
    BY <1>1, <2>1, <2>2
<1> QED
  BY <1>2, <1>3

LEMMA WholeIs ==
  ASSUME NEW t \in Seq(Byte)
  PROVE  Whole(t) <=> /\ Aligned(t, 0)
                      /\ \A p \in 0..(Len(t) - 1) : Aligned(t, p) => Steps(t, p)
  BY CodepointIs DEF Whole

(* Joining whole texts splits no code point and joins none.                *)
LEMMA JoinAligned ==
  ASSUME NEW s \in Seq(Byte), NEW t \in Seq(Byte), Aligned(t, 0),
         NEW u, u = s \o t
  PROVE  /\ \A p \in 0..Len(s) : Aligned(u, p) <=> Aligned(s, p)
         /\ \A p \in 0..Len(t) : Aligned(u, Len(s) + p) <=> Aligned(t, p)
<1> DEFINE m == Len(s)
           n == Len(t)
<1>1. /\ m \in Nat /\ n \in Nat /\ Len(u) = m + n
      /\ \A i \in 1..m : u[i] = s[i]
      /\ \A i \in 1..n : u[m + i] = t[i]
  BY LenProperties, JoinIs
<1> HIDE DEF m, n
<1>2. \A p \in 0..n : Aligned(u, m + p) <=> Aligned(t, p)
  <2> TAKE p \in 0..n
  <2>1. CASE p = n
    BY <1>1, <2>1 DEF Aligned, n
  <2>2. CASE p < n
    <3>1. p + 1 \in 1..n /\ m + p + 1 = m + (p + 1) /\ m + p # m + n /\ p # n
      BY <1>1, <2>2
    <3>2. u[m + p + 1] = t[p + 1]
      BY <1>1, <3>1
    <3> QED
      BY <1>1, <3>1, <3>2 DEF Aligned, n
  <2> QED
    BY <1>1, <2>1, <2>2
<1>3. \A p \in 0..m : Aligned(u, p) <=> Aligned(s, p)
  <2> TAKE p \in 0..m
  <2>1. CASE p = m
    <3>1. m + 0 = p /\ 0 \in 0..n
      BY <1>1, <2>1
    <3>2. Aligned(u, p)
      BY <1>2, <3>1
    <3> QED
      BY <2>1, <3>2 DEF Aligned, m
  <2>2. CASE p < m
    <3>1. p + 1 \in 1..m /\ p # m /\ p # m + n
      BY <1>1, <2>2
    <3> QED
      BY <1>1, <3>1 DEF Aligned, m
  <2> QED
    BY <1>1, <2>1, <2>2
<1> QED
  BY <1>2, <1>3 DEF m, n

LEMMA JoinWhole ==
  ASSUME NEW s \in Seq(Byte), NEW t \in Seq(Byte), Whole(s), Whole(t)
  PROVE  Whole(s \o t)
<1> DEFINE u == s \o t
           m == Len(s)
           n == Len(t)
<1>1. /\ m \in Nat /\ n \in Nat /\ Len(u) = m + n /\ u \in Seq(Byte)
      /\ \A i \in 1..m : u[i] = s[i]
      /\ \A i \in 1..n : u[m + i] = t[i]
  BY LenProperties, JoinIs
<1>2. /\ Aligned(s, 0) /\ Aligned(t, 0)
      /\ \A p \in 0..(m - 1) : Aligned(s, p) => Steps(s, p)
      /\ \A p \in 0..(n - 1) : Aligned(t, p) => Steps(t, p)
  BY WholeIs
<1>3. /\ \A p \in 0..m : Aligned(u, p) <=> Aligned(s, p)
      /\ \A p \in 0..n : Aligned(u, m + p) <=> Aligned(t, p)
  BY <1>2, JoinAligned
<1>4. Len(s) = m /\ Len(t) = n
  OBVIOUS
<1> HIDE DEF u, m, n
<1>5. Aligned(u, 0)
  BY <1>1, <1>2, <1>3
<1>6. ASSUME NEW p \in 0..(m - 1), Aligned(u, p) PROVE Steps(u, p)
  <2> DEFINE span == LeadSize[s[p + 1]]
  <2>0. p \in 0..m
    BY <1>1
  <2>1. Steps(s, p)
    BY <1>2, <1>3, <1>6, <2>0
  <2>2. /\ span \in 1..4 /\ p + span <= m /\ Aligned(s, p + span)
        /\ \A i \in 2..span : LeadSize[s[p + i]] = 0
    BY <1>4, <2>1 DEF Steps
  <2> HIDE DEF span
  <2>3. p + 1 \in 1..m /\ p + span \in 0..m /\ \A i \in 2..span : p + i \in 1..m
    <3>1. m \in Nat /\ p \in 0..(m - 1) /\ span \in 1..4 /\ p + span <= m
      BY <1>1, <2>2
    <3>2. p + 1 \in 1..m /\ p + span \in 0..m
      BY <3>1
    <3>3. ASSUME NEW i \in 2..span PROVE p + i \in 1..m
      BY <3>1
    <3> QED
      BY <3>2, <3>3
  <2>4. u[p + 1] = s[p + 1] /\ \A i \in 2..span : u[p + i] = s[p + i]
    BY <1>1, <2>3
  <2>5. LeadSize[u[p + 1]] = span
    BY <2>4 DEF span
  <2>6. Aligned(u, p + span) /\ p + span <= Len(u)
    BY <1>1, <1>3, <2>2, <2>3
  <2> QED
    BY <2>2, <2>4, <2>5, <2>6 DEF Steps
<1>7. ASSUME NEW q \in 0..(n - 1), Aligned(u, m + q) PROVE Steps(u, m + q)
  <2> DEFINE span == LeadSize[t[q + 1]]
  <2>0. q \in 0..n
    BY <1>1
  <2>1. Steps(t, q)
    BY <1>2, <1>3, <1>7, <2>0
  <2>2. /\ span \in 1..4 /\ q + span <= n /\ Aligned(t, q + span)
        /\ \A i \in 2..span : LeadSize[t[q + i]] = 0
    BY <1>4, <2>1 DEF Steps
  <2> HIDE DEF span
  <2>3. /\ q + 1 \in 1..n /\ q + span \in 0..n /\ \A i \in 2..span : q + i \in 1..n
        /\ m + q + 1 = m + (q + 1) /\ m + q + span = m + (q + span)
        /\ \A i \in 2..span : m + q + i = m + (q + i)
    BY <1>1, <2>2
  <2>4. u[m + q + 1] = t[q + 1]
    <3> DEFINE j == q + 1
    <3>1. j \in 1..n /\ m + q + 1 = m + j
      BY <2>3
    <3> HIDE DEF j
    <3>2. u[m + j] = t[j]
      BY <1>1, <3>1
    <3> QED
      BY <3>1, <3>2 DEF j
  <2>5. \A i \in 2..span : u[m + q + i] = t[q + i]
    BY <1>1, <2>3
  <2>6. LeadSize[u[m + q + 1]] = span
    BY <2>4 DEF span
  <2>7. Aligned(u, m + q + span)
    BY <1>3, <2>2, <2>3
  <2>8. m + q + span <= Len(u)
    <3>1. m \in Nat /\ n \in Nat /\ Len(u) = m + n
      BY <1>1
    <3> HIDE DEF m, n, u
    <3> QED
      BY <2>2, <3>1
  <2> QED
    BY <2>2, <2>5, <2>6, <2>7, <2>8 DEF Steps
<1>8. ASSUME NEW p \in 0..(Len(u) - 1), Aligned(u, p) PROVE Steps(u, p)
  <2>1. CASE p < m
    <3>1. p \in 0..(m - 1)
      BY <1>1, <2>1
    <3> QED
      BY <1>6, <1>8, <3>1
  <2>2. CASE ~(p < m)
    <3>1. p - m \in 0..(n - 1) /\ m + (p - m) = p
      BY <1>1, <2>2
    <3>2. Aligned(u, m + (p - m))
      BY <1>8, <3>1
    <3>3. Steps(u, m + (p - m))
      BY <1>7, <3>1, <3>2
    <3> QED
      BY <3>1, <3>3
  <2> QED
    BY <2>1, <2>2
<1>9. Whole(u)
  BY <1>1, <1>5, <1>8, WholeIs
<1> QED
  BY <1>9 DEF u

(* So does cutting a whole text where no code point is split.              *)
LEMMA SliceAligned ==
  ASSUME NEW t \in Seq(Byte), NEW b \in Nat, NEW e \in b..Len(t), Aligned(t, e)
  PROVE  \A p \in 0..(e - b) : Aligned(SubSeq(t, b + 1, e), p) <=> Aligned(t, b + p)
<1> DEFINE u == SubSeq(t, b + 1, e)
<1>1. /\ Len(t) \in Nat /\ Len(u) = e - b
      /\ \A i \in 1..(e - b) : u[i] = t[b + i]
  BY LenProperties, SliceIs
<1> HIDE DEF u
<1>2. \A p \in 0..(e - b) : Aligned(u, p) <=> Aligned(t, b + p)
  <2> TAKE p \in 0..(e - b)
  <2>1. CASE p = e - b
    <3>1. b + p = e
      BY <1>1, <2>1
    <3> QED
      BY <1>1, <2>1, <3>1 DEF Aligned
  <2>2. CASE p < e - b
    <3>1. p + 1 \in 1..(e - b) /\ b + (p + 1) = b + p + 1 /\ p # e - b /\ b + p # Len(t)
      BY <1>1, <2>2
    <3>2. u[p + 1] = t[b + p + 1]
      BY <1>1, <3>1
    <3> QED
      BY <1>1, <3>1, <3>2 DEF Aligned
  <2> QED
    BY <1>1, <2>1, <2>2
<1> QED
  BY <1>2 DEF u

(* A code point ends before the next position that splits none.            *)
LEMMA StepStaysBehind ==
  ASSUME NEW t \in Seq(Byte), NEW p \in 0..(Len(t) - 1), Steps(t, p),
         NEW e \in (p + 1)..Len(t), Aligned(t, e)
  PROVE  p + LeadSize[t[p + 1]] <= e
<1> DEFINE span == LeadSize[t[p + 1]]
<1>1. /\ span \in 1..4 /\ p + span <= Len(t) /\ Len(t) \in Nat
      /\ \A i \in 2..span : LeadSize[t[p + i]] = 0
  BY LenProperties DEF Steps
<1> HIDE DEF span
<1>2. ASSUME p + span > e PROVE FALSE
  <2>1. e - p + 1 \in 2..span /\ p + (e - p + 1) = e + 1 /\ e # Len(t)
    BY <1>1, <1>2
  <2>2. LeadSize[t[e + 1]] = 0
    BY <1>1, <2>1
  <2> QED
    BY <2>1, <2>2 DEF Aligned
<1>3. p + span <= e
  BY <1>1, <1>2
<1> QED
  BY <1>3 DEF span

LEMMA SliceWhole ==
  ASSUME NEW t \in Seq(Byte), NEW b \in Nat, NEW e \in b..Len(t),
         Whole(t), Aligned(t, b), Aligned(t, e)
  PROVE  Whole(SubSeq(t, b + 1, e))
<1> DEFINE u == SubSeq(t, b + 1, e)
<1>1. /\ Len(t) \in Nat /\ u \in Seq(Byte) /\ Len(u) = e - b
      /\ \A i \in 1..(e - b) : u[i] = t[b + i]
  BY LenProperties, SliceIs
<1>2. \A p \in 0..(e - b) : Aligned(u, p) <=> Aligned(t, b + p)
  BY SliceAligned
<1>3. \A p \in 0..(Len(t) - 1) : Aligned(t, p) => Steps(t, p)
  BY WholeIs
<1> HIDE DEF u
<1>4. Aligned(u, 0)
  <2>1. 0 \in 0..(e - b) /\ b + 0 = b
    BY <1>1
  <2> QED
    BY <1>2, <2>1
<1>5. ASSUME NEW p \in 0..(Len(u) - 1), Aligned(u, p) PROVE Steps(u, p)
  <2> DEFINE q == b + p
             span == LeadSize[t[q + 1]]
  <2>1. p \in 0..(e - b) /\ q \in 0..(Len(t) - 1) /\ e \in (q + 1)..Len(t)
    BY <1>1
  <2>2. Steps(t, q)
    BY <1>2, <1>3, <1>5, <2>1
  <2>3. /\ span \in 1..4 /\ Aligned(t, q + span)
        /\ \A i \in 2..span : LeadSize[t[q + i]] = 0
    BY <2>2 DEF Steps
  <2>4. q + span <= e
    BY <2>1, <2>2, StepStaysBehind
  <2> HIDE DEF span
  <2>5. /\ p + span \in 0..(e - b) /\ p + span <= Len(u) /\ b + (p + span) = q + span
        /\ p + 1 \in 1..(e - b) /\ b + (p + 1) = q + 1
        /\ \A i \in 2..span : p + i \in 1..(e - b) /\ b + (p + i) = q + i
    BY <1>1, <2>3, <2>4
  <2>6. u[p + 1] = t[q + 1] /\ \A i \in 2..span : u[p + i] = t[q + i]
    <3> HIDE DEF q
    <3>1. u[p + 1] = t[q + 1]
      BY <1>1, <2>5
    <3>2. \A i \in 2..span : u[p + i] = t[q + i]
      BY <1>1, <2>5
    <3> QED
      BY <3>1, <3>2
  <2>7. LeadSize[u[p + 1]] = span
    BY <2>6 DEF span
  <2>8. Aligned(u, p + span)
    BY <1>2, <2>3, <2>5
  <2>9. \A i \in 2..span : LeadSize[u[p + i]] = 0
    BY <2>3, <2>6
  <2> QED
    BY <2>3, <2>5, <2>7, <2>8, <2>9 DEF Steps
<1>6. Whole(u)
  BY <1>1, <1>4, <1>5, WholeIs
<1> QED
  BY <1>6 DEF u

-----------------------------------------------------------------------------
\* Lines and their tokens

LineInv(d) == d \in Line /\ Valid(d) /\ Whole(d.text)

(* Where the cursor may be.                                                *)
Outside(d, p) == \A t \in d.tokens : p <= t.begin \/ p >= t.end
Place(d, p) == p \in 0..Length(d) /\ Aligned(d.text, p) /\ Outside(d, p)

LEMMA LineFacts ==
  ASSUME NEW d, LineInv(d)
  PROVE  /\ d.text \in Seq(Byte) /\ Length(d) \in Nat /\ Length(d) < BufSize
         /\ BufSize \in Nat
         /\ d.pos \in 0..Length(d) /\ d.tokens \in SUBSET Token /\ Place(d, d.pos)
         /\ d = [text |-> d.text, pos |-> d.pos, tokens |-> d.tokens]
         /\ Whole(d.text)
         /\ \A t, u \in d.tokens : t # u => Apart(t, u)
<1>1. /\ d.text \in Seq(Byte) /\ d.pos \in Nat /\ d.tokens \in SUBSET Token
      /\ d = [text |-> d.text, pos |-> d.pos, tokens |-> d.tokens]
  BY DEF LineInv, Line
<1>2. /\ Length(d) < BufSize /\ d.pos <= Length(d) /\ Aligned(d.text, d.pos)
      /\ \A t \in d.tokens : d.pos <= t.begin \/ d.pos >= t.end
      /\ \A t, u \in d.tokens : t # u => Apart(t, u)
  BY DEF LineInv, Valid, TokenStands
<1>3. Length(d) \in Nat
  BY <1>1, LenProperties DEF Length
<1>4. d.pos \in 0..Length(d)
  BY <1>1, <1>2, <1>3
<1>5. BufSize \in Nat
  BY TextAssumption
<1> QED
  BY <1>1, <1>2, <1>3, <1>4, <1>5 DEF LineInv, Place, Outside

LEMMA TokenFacts ==
  ASSUME NEW d, LineInv(d), NEW t \in d.tokens
  PROVE  /\ t \in Token /\ t.begin \in Nat /\ t.end \in Nat /\ t.command \in Command
         /\ t = [begin |-> t.begin, end |-> t.end, command |-> t.command]
         /\ t.begin < t.end /\ t.end <= Length(d)
         /\ Aligned(d.text, t.begin) /\ Aligned(d.text, t.end)
         /\ Place(d, t.begin) /\ Place(d, t.end)
<1>1. t \in Token
  BY LineFacts
<1>2. /\ t.begin \in Nat /\ t.end \in Nat /\ t.command \in Command
      /\ t = [begin |-> t.begin, end |-> t.end, command |-> t.command]
  BY <1>1 DEF Token
<1>3. \A u \in d.tokens : /\ u.begin < u.end /\ u.end <= Length(d)
                          /\ Aligned(d.text, u.begin) /\ Aligned(d.text, u.end)
  BY DEF LineInv, Valid, TokenStands
<1>4. \A u \in d.tokens : u # t => Apart(t, u)
  BY LineFacts
<1>5. \A u \in d.tokens : u.begin \in Nat /\ u.end \in Nat
  BY LineFacts DEF Token
<1>6. Length(d) \in Nat
  BY LineFacts
<1>7. Outside(d, t.begin) /\ Outside(d, t.end)
  <2>1. ASSUME NEW u \in d.tokens
        PROVE  /\ t.begin <= u.begin \/ t.begin >= u.end
               /\ t.end <= u.begin \/ t.end >= u.end
    <3>1. u = t \/ u.end <= t.begin \/ t.end <= u.begin
      BY <1>4 DEF Apart
    <3>2. u.begin \in Nat /\ u.end \in Nat /\ u.begin < u.end
      BY <1>3, <1>5
    <3> QED
      BY <1>2, <1>3, <3>1, <3>2
  <2> QED
    BY <2>1 DEF Outside
<1>8. t.begin \in 0..Length(d) /\ t.end \in 0..Length(d)
  BY <1>2, <1>3, <1>6
<1> QED
  BY <1>1, <1>2, <1>3, <1>7, <1>8 DEF Place

LEMMA TokensFinite ==
  ASSUME NEW d, LineInv(d)
  PROVE  /\ IsFiniteSet(d.tokens)
         /\ Cardinality(d.tokens) \in Nat /\ Cardinality(d.tokens) <= MaxTokens
<1> DEFINE f == [t \in d.tokens |-> t.begin]
<1>1. f \in [d.tokens -> 0..Length(d)]
  <2>1. \A t \in d.tokens : t.begin \in 0..Length(d)
    BY TokenFacts DEF Place
  <2> QED
    BY <2>1
<1>2. ASSUME NEW t \in d.tokens, NEW u \in d.tokens, f[t] = f[u] PROVE t = u
  <2>1. t.begin = u.begin
    BY <1>2
  <2>2. /\ t.begin \in Nat /\ t.end \in Nat /\ t.begin < t.end
        /\ u.begin \in Nat /\ u.end \in Nat /\ u.begin < u.end
    BY TokenFacts
  <2>3. t # u => Apart(t, u)
    BY LineFacts
  <2> QED
    BY <2>1, <2>2, <2>3 DEF Apart
<1>3. f \in Injection(d.tokens, 0..Length(d))
  BY <1>1, <1>2 DEF Injection, IsInjective
<1>4. IsFiniteSet(0..Length(d))
  <2>1. 0 \in Int /\ Length(d) \in Int
    BY LineFacts
  <2> QED
    BY <2>1, FS_Interval
<1>5. IsFiniteSet(d.tokens)
  BY <1>3, <1>4, FS_Injection
<1>6. Cardinality(d.tokens) \in Nat
  BY <1>5, FS_CardinalityType
<1> QED
  BY <1>5, <1>6 DEF LineInv, Valid

(* An entry of l_commands_.                                                *)
Entry == [name : Seq(Byte), token : Seq(Byte) \ {<<>>},
          kind : {"config", "connect", "load", "alone"}, args : Seq(Seq(Byte))]

LEMMA EntryIs ==
  ASSUME NEW c \in Command
  PROVE  /\ Table[c].name \in Seq(Byte) /\ Table[c].token \in Seq(Byte) \ {<<>>}
         /\ Table[c].kind \in {"config", "connect", "load", "alone"}
         /\ Table[c].args \in Seq(Seq(Byte))
<1>1. Table \in Seq(Entry)
  BY TextAssumption DEF Entry
<1>2. c \in 1..Len(Table)
  BY <1>1, LenProperties DEF Command
<1>3. Table[c] \in Entry
  BY <1>1, <1>2, ElementOfSeq
<1> QED
  BY <1>3 DEF Entry

LEMMA TokenTexts == \A c \in Command : Table[c].token \in Seq(Byte) /\ Len(Table[c].token) > 0
<1>1. ASSUME NEW c \in Command
      PROVE  Table[c].token \in Seq(Byte) /\ Len(Table[c].token) > 0
  <2>1. Table[c].token \in Seq(Byte) \ {<<>>}
    BY EntryIs
  <2>2. Len(Table[c].token) \in Nat \ {0}
    BY <2>1, EmptySeq
  <2> QED
    BY <2>1, <2>2
<1> QED
  BY <1>1

LEMMA BytesAre ==
  ASSUME NEW u \in Seq(Byte), NEW c \in Nat, NEW f \in c..Len(u), NEW w \in Seq(Byte),
         Len(w) = f - c, \A i \in 1..(f - c) : u[c + i] = w[i]
  PROVE  SubSeq(u, c + 1, f) = w
<1> DEFINE v == SubSeq(u, c + 1, f)
<1>1. v \in Seq(Byte) /\ Len(v) = f - c /\ \A i \in 1..(f - c) : v[i] = u[c + i]
  BY SliceIs
<1> HIDE DEF v
<1>2. Len(v) = Len(w) /\ \A i \in 1..Len(v) : v[i] = w[i]
  BY <1>1
<1>3. v = w
  BY <1>1, <1>2, SeqEqual
<1> QED
  BY <1>3 DEF v

LEMMA TokenText ==
  ASSUME NEW d, LineInv(d), NEW t \in d.tokens
  PROVE  /\ Table[t.command].token \in Seq(Byte)
         /\ Len(Table[t.command].token) = t.end - t.begin
         /\ \A i \in 1..(t.end - t.begin) : d.text[t.begin + i] = Table[t.command].token[i]
<1>1. /\ d.text \in Seq(Byte) /\ t.begin \in Nat /\ t.end \in t.begin..Len(d.text)
  BY LineFacts, TokenFacts DEF Length
<1>2. SubSeq(d.text, t.begin + 1, t.end) = Table[t.command].token
  BY DEF LineInv, Valid, TokenStands, Bytes
<1> DEFINE s == d.text
           b == t.begin
           e == t.end
           w == SubSeq(s, b + 1, e)
<1>3. s \in Seq(Byte) /\ b \in Nat /\ e \in b..Len(s)
  BY <1>1
<1> HIDE DEF s, b, e
<1>4. w \in Seq(Byte) /\ Len(w) = e - b /\ \A i \in 1..(e - b) : w[i] = s[b + i]
  BY <1>3, SliceIs
<1>5. w = Table[t.command].token
  BY <1>2 DEF s, b, e
<1> HIDE DEF w
<1> QED
  BY <1>4, <1>5 DEF s, b, e

(* What a change of the line to text u with the cursor at p makes of       *)
(* token t: the token v with the same bytes, elsewhere.                    *)
Follows(d, u, p, t, v) ==
  /\ v \in Token /\ v.command = t.command /\ v.end - v.begin = t.end - t.begin
  /\ v.end <= Len(u) /\ (p <= v.begin \/ p >= v.end)
  /\ Aligned(u, v.begin) /\ Aligned(u, v.end)
  /\ \A i \in 1..(t.end - t.begin) : u[v.begin + i] = d.text[t.begin + i]

LEMMA FollowerStands ==
  ASSUME NEW d, LineInv(d), NEW t \in d.tokens,
         NEW u \in Seq(Byte), NEW p \in Nat, NEW v, Follows(d, u, p, t, v), NEW T
  PROVE  TokenStands([text |-> u, pos |-> p, tokens |-> T], v)
<1> DEFINE n == [text |-> u, pos |-> p, tokens |-> T]
<1>1. n.text = u /\ n.pos = p
  OBVIOUS
<1>2. /\ d.text \in Seq(Byte) /\ t.begin \in Nat /\ t.end \in t.begin..Len(d.text)
      /\ t.begin < t.end
  BY LineFacts, TokenFacts DEF Length
<1>3. /\ v.begin \in Nat /\ v.end \in Nat /\ v.end - v.begin = t.end - t.begin /\ v.end <= Len(u)
      /\ v.command = t.command /\ (p <= v.begin \/ p >= v.end)
      /\ Aligned(u, v.begin) /\ Aligned(u, v.end)
      /\ \A i \in 1..(t.end - t.begin) : u[v.begin + i] = d.text[t.begin + i]
  BY DEF Follows, Token
<1>4. v.begin < v.end /\ v.end \in v.begin..Len(u)
  BY <1>2, <1>3, LenProperties
<1>5. SubSeq(u, v.begin + 1, v.end) = Table[t.command].token
  <2> DEFINE w == Table[t.command].token
             b == v.begin
             e == v.end
  <2>1. w \in Seq(Byte) /\ Len(w) = e - b
    BY <1>3, TokenText
  <2>2. \A i \in 1..(e - b) : u[b + i] = w[i]
    BY <1>3, TokenText
  <2>3. b \in Nat /\ e \in b..Len(u)
    BY <1>3, <1>4
  <2> HIDE DEF w, b, e
  <2>4. SubSeq(u, b + 1, e) = w
    BY <2>1, <2>2, <2>3, BytesAre
  <2> QED
    BY <2>4 DEF w, b, e
<1>7. Bytes(n, v.begin, v.end) = Table[v.command].token
  BY <1>1, <1>3, <1>5 DEF Bytes
<1> QED
  BY <1>1, <1>3, <1>4, <1>7 DEF TokenStands, Length

OfCommand(S, c) == {t \in S : t.command = c}

SameCommands(T, S) ==
  /\ Cardinality(T) = Cardinality(S)
  /\ \A c : Cardinality(OfCommand(T, c)) = Cardinality(OfCommand(S, c))

(* A change of the line that keeps the tokens S, in order and with their   *)
(* bytes, as the tokens T.                                                 *)
Relocation(d, u, p, S, f, T) ==
  /\ u \in Seq(Byte) /\ Whole(u) /\ Len(u) < BufSize
  /\ p \in 0..Len(u) /\ Aligned(u, p)
  /\ S \in SUBSET d.tokens /\ T = {f[t] : t \in S}
  /\ \A t \in S : Follows(d, u, p, t, f[t])
  /\ \A t, v \in S : t.end <= v.begin => f[t].end <= f[v].begin

LEMMA Relocated ==
  ASSUME NEW d, LineInv(d), NEW u, NEW p, NEW S, NEW f, NEW T, Relocation(d, u, p, S, f, T)
  PROVE  /\ LineInv([text |-> u, pos |-> p, tokens |-> T])
         /\ SameCommands(T, S)
<1> USE DEF Relocation
<1> DEFINE n == [text |-> u, pos |-> p, tokens |-> T]
<1>0. n.text = u /\ n.pos = p /\ n.tokens = T
  OBVIOUS
<1>1. \A t \in S : f[t] \in Token /\ f[t].command = t.command
  BY DEF Follows
<1>2. n \in Line
  <2>1. T \in SUBSET Token
    BY <1>1
  <2>2. p \in Nat
    BY LenProperties
  <2> QED
    BY <2>1, <2>2 DEF Line
<1>3. \A v \in T : TokenStands(n, v)
  <2> SUFFICES ASSUME NEW t \in S PROVE TokenStands(n, f[t])
    OBVIOUS
  <2>1. t \in d.tokens /\ p \in Nat /\ Follows(d, u, p, t, f[t])
    BY LenProperties
  <2> QED
    BY <2>1, FollowerStands
<1>4. ASSUME NEW t \in S, NEW v \in S, t # v PROVE Apart(f[t], f[v])
  <2>1. Apart(t, v)
    BY <1>4, LineFacts
  <2> QED
    BY <2>1 DEF Apart
<1>5. \A x, y \in T : x # y => Apart(x, y)
  <2> SUFFICES ASSUME NEW t \in S, NEW v \in S, f[t] # f[v] PROVE Apart(f[t], f[v])
    OBVIOUS
  <2> QED
    BY <1>4
<1>6. ASSUME NEW t \in S, NEW v \in S, f[t] = f[v] PROVE t = v
  <2>1. f[t].begin < f[t].end /\ f[t].begin \in Nat /\ f[t].end \in Nat
    BY <1>1, <1>3 DEF TokenStands, Token
  <2>2. ~Apart(f[t], f[v])
    BY <1>6, <2>1 DEF Apart
  <2> QED
    BY <1>4, <2>2
<1>7. IsFiniteSet(S) /\ Cardinality(S) \in Nat /\ Cardinality(S) <= MaxTokens
  <2>1. IsFiniteSet(S) /\ Cardinality(S) <= Cardinality(d.tokens)
    BY TokensFinite, FS_Subset
  <2>2. Cardinality(S) \in Nat /\ Cardinality(d.tokens) \in Nat
    BY <2>1, TokensFinite, FS_CardinalityType
  <2>3. MaxTokens \in Nat
    BY ManagerAssumption
  <2> QED
    BY <2>1, <2>2, <2>3, TokensFinite
<1>8. ASSUME NEW A \in SUBSET S, NEW B, B = {f[t] : t \in A}
      PROVE  Cardinality(B) = Cardinality(A)
  <2> DEFINE g == [t \in A |-> f[t]]
  <2>1. IsFiniteSet(A)
    BY <1>7, FS_Subset
  <2>2. g \in [A -> B] /\ \A b \in B : \E t \in A : g[t] = b
    BY <1>8
  <2>3. \A t, v \in A : g[t] = g[v] => t = v
    BY <1>6, <1>8
  <2> HIDE DEF g
  <2>4. g \in Bijection(A, B)
    BY <2>2, <2>3 DEF Bijection, Injection, Surjection, IsInjective
  <2> QED
    BY <2>1, <2>4, FS_Bijection DEF ExistsBijection
<1>9. Cardinality(T) <= MaxTokens
  BY <1>7, <1>8
<1>10. ASSUME NEW c PROVE Cardinality(OfCommand(T, c)) = Cardinality(OfCommand(S, c))
  <2>1. OfCommand(T, c) = {f[t] : t \in OfCommand(S, c)}
    BY <1>1 DEF OfCommand
  <2>2. OfCommand(S, c) \in SUBSET S
    BY DEF OfCommand
  <2> QED
    BY <1>8, <2>1, <2>2
<1>11. Valid(n)
  <2>1. p <= Len(u)
    BY LenProperties
  <2> HIDE DEF n
  <2> QED
    BY <1>0, <1>3, <1>5, <1>9, <2>1 DEF Valid, Length
<1>12. LineInv(n)
  BY <1>0, <1>2, <1>11 DEF LineInv
<1>13. Cardinality(T) = Cardinality(S)
  BY <1>8
<1> QED
  BY <1>10, <1>12, <1>13 DEF SameCommands

LEMMA MovedToKeeps ==
  ASSUME NEW d, LineInv(d), NEW p, Place(d, p)
  PROVE  LineInv(MovedTo(d, p))
<1> DEFINE n == MovedTo(d, p)
<1>1. n = [text |-> d.text, pos |-> p, tokens |-> d.tokens]
  BY LineFacts DEF MovedTo
<1>2. n.text = d.text /\ n.pos = p /\ n.tokens = d.tokens
  BY <1>1
<1>3. p \in Nat /\ p <= Length(d)
  BY LineFacts DEF Place
<1>4. n \in Line
  BY <1>1, <1>3, LineFacts DEF Line
<1> HIDE DEF n
<1>5. \A t \in d.tokens : TokenStands(n, t)
  BY <1>2 DEF LineInv, Valid, TokenStands, Place, Outside, Bytes, Length
<1>6. Valid(n)
  BY <1>2, <1>3, <1>5 DEF LineInv, Valid, Place, Length
<1>7. LineInv(n)
  BY <1>2, <1>4, <1>6 DEF LineInv
<1> QED
  BY <1>7 DEF n

-----------------------------------------------------------------------------
\* Insertion and removal

Spliced(t, p, s) == SubSeq(t, 0 + 1, p) \o s \o SubSeq(t, p + 1, Len(t))
CutOut(t, b, e) == SubSeq(t, 0 + 1, b) \o SubSeq(t, e + 1, Len(t))

(* u is t without the bytes from b up to e.                                *)
Lacks(t, b, e, u) ==
  /\ u \in Seq(Byte) /\ Len(u) = Len(t) - (e - b) /\ Len(u) \in Nat
  /\ \A i \in 1..b : u[i] = t[i]
  /\ \A i \in (e + 1)..Len(t) : u[i - (e - b)] = t[i]

LEMMA CutOutIs ==
  ASSUME NEW t \in Seq(Byte), NEW b \in Nat, NEW e \in b..Len(t), NEW u, u = CutOut(t, b, e)
  PROVE  Lacks(t, b, e, u)
<1> DEFINE n == Len(t)
           v == SubSeq(t, 0 + 1, b)
           w == SubSeq(t, e + 1, n)
<1>1. n \in Nat /\ 0 \in Nat /\ b \in 0..n /\ e \in Nat /\ n \in e..n
  BY LenProperties
<1>2. v \in Seq(Byte) /\ Len(v) = b - 0 /\ \A i \in 1..(b - 0) : v[i] = t[0 + i]
  BY <1>1, SliceIs
<1>3. w \in Seq(Byte) /\ Len(w) = n - e /\ \A i \in 1..(n - e) : w[i] = t[e + i]
  BY <1>1, SliceIs
<1>4. u = v \o w
  BY DEF CutOut
<1> HIDE DEF v, w
<1>5. /\ u \in Seq(Byte) /\ Len(u) = Len(v) + Len(w)
      /\ \A i \in 1..Len(v) : u[i] = v[i]
      /\ \A i \in 1..Len(w) : u[Len(v) + i] = w[i]
  <2>1. /\ (v \o w) \in Seq(Byte) /\ Len(v \o w) = Len(v) + Len(w)
        /\ \A i \in 1..Len(v) : (v \o w)[i] = v[i]
        /\ \A i \in 1..Len(w) : (v \o w)[Len(v) + i] = w[i]
    BY <1>2, <1>3, JoinIs
  <2> QED
    BY <1>4, <2>1
<1> HIDE DEF n
<1>6. Len(v) = b /\ Len(w) = n - e /\ \A i \in 1..b : v[i] = t[i]
  BY <1>1, <1>2, <1>3
<1>7. ASSUME NEW i \in (e + 1)..n PROVE u[i - (e - b)] = t[i]
  <2>1. i - e \in 1..(n - e) /\ b + (i - e) = i - (e - b) /\ e + (i - e) = i
    BY <1>1, <1>7
  <2>2. u[b + (i - e)] = w[i - e]
    BY <1>5, <1>6, <2>1
  <2>3. w[i - e] = t[e + (i - e)]
    BY <1>3, <2>1
  <2> QED
    BY <2>1, <2>2, <2>3
<1>8. Len(u) = n - (e - b) /\ Len(u) \in Nat
  BY <1>1, <1>5, <1>6
<1>9. \A i \in 1..b : u[i] = t[i]
  BY <1>5, <1>6
<1> QED
  BY <1>5, <1>7, <1>8, <1>9 DEF n, Lacks

LEMMA CutOutWhole ==
  ASSUME NEW t \in Seq(Byte), NEW b \in Nat, NEW e \in b..Len(t), NEW u, u = CutOut(t, b, e),
         Whole(t), Aligned(t, b), Aligned(t, e)
  PROVE  /\ Whole(u)
         /\ \A q \in 0..b : Aligned(u, q) <=> Aligned(t, q)
         /\ \A q \in e..Len(t) : Aligned(u, q - (e - b)) <=> Aligned(t, q)
<1> DEFINE n == Len(t)
           v == SubSeq(t, 0 + 1, b)
           w == SubSeq(t, e + 1, n)
<1>1. n \in Nat /\ 0 \in Nat /\ b \in 0..n /\ e \in Nat /\ n \in e..n
  BY LenProperties
<1>2. v \in Seq(Byte) /\ Len(v) = b - 0
  BY <1>1, SliceIs
<1>3. w \in Seq(Byte) /\ Len(w) = n - e
  BY <1>1, SliceIs
<1>4. u = v \o w
  BY DEF CutOut
<1>5. Aligned(t, 0) /\ Aligned(t, n)
  BY WholeIs DEF Aligned
<1>6. Whole(v) /\ \A q \in 0..(b - 0) : Aligned(v, q) <=> Aligned(t, 0 + q)
  BY <1>1, <1>5, SliceWhole, SliceAligned
<1>7. Whole(w) /\ \A q \in 0..(n - e) : Aligned(w, q) <=> Aligned(t, e + q)
  BY <1>1, <1>5, SliceWhole, SliceAligned
<1> HIDE DEF v, w
<1>8. Whole(u)
  BY <1>2, <1>3, <1>4, <1>6, <1>7, JoinWhole
<1>9. Aligned(w, 0)
  BY <1>3, <1>7, WholeIs
<1>10. /\ \A q \in 0..Len(v) : Aligned(u, q) <=> Aligned(v, q)
       /\ \A q \in 0..Len(w) : Aligned(u, Len(v) + q) <=> Aligned(w, q)
  BY <1>2, <1>3, <1>4, <1>9, JoinAligned
<1> HIDE DEF n
<1>11. Len(v) = b /\ Len(w) = n - e /\ \A q \in 0..b : 0 + q = q /\ q \in 0..(b - 0)
  BY <1>1, <1>2, <1>3
<1>12. \A q \in 0..b : Aligned(u, q) <=> Aligned(t, q)
  BY <1>6, <1>10, <1>11
<1>13. ASSUME NEW q \in e..n PROVE Aligned(u, q - (e - b)) <=> Aligned(t, q)
  <2>1. q - e \in 0..(n - e) /\ b + (q - e) = q - (e - b) /\ e + (q - e) = q
    BY <1>1, <1>13
  <2>2. Aligned(u, b + (q - e)) <=> Aligned(w, q - e)
    BY <1>10, <1>11, <2>1
  <2>3. Aligned(w, q - e) <=> Aligned(t, e + (q - e))
    BY <1>7, <2>1
  <2> QED
    BY <2>1, <2>2, <2>3
<1> QED
  BY <1>8, <1>12, <1>13 DEF n

(* u is t with the bytes s at p.                                           *)
Holds(t, p, s, u) ==
  /\ u \in Seq(Byte) /\ Len(u) = Len(t) + Len(s) /\ Len(s) \in Nat
  /\ \A i \in 1..p : u[i] = t[i]
  /\ \A i \in 1..Len(s) : u[p + i] = s[i]
  /\ \A i \in (p + 1)..Len(t) : u[i + Len(s)] = t[i]

LEMMA SplicedIs ==
  ASSUME NEW t \in Seq(Byte), NEW p \in 0..Len(t), NEW s \in Seq(Byte), NEW u, u = Spliced(t, p, s)
  PROVE  Holds(t, p, s, u)
<1> DEFINE n == Len(t)
           k == Len(s)
           v == SubSeq(t, 0 + 1, p)
           x == v \o s
           w == SubSeq(t, p + 1, n)
<1>1. n \in Nat /\ k \in Nat /\ 0 \in Nat /\ p \in Nat /\ n \in p..n
  BY LenProperties
<1>2. v \in Seq(Byte) /\ Len(v) = p - 0 /\ \A i \in 1..(p - 0) : v[i] = t[0 + i]
  BY <1>1, SliceIs
<1>3. w \in Seq(Byte) /\ Len(w) = n - p /\ \A i \in 1..(n - p) : w[i] = t[p + i]
  BY <1>1, SliceIs
<1> HIDE DEF v
<1>4. /\ x \in Seq(Byte) /\ Len(x) = Len(v) + Len(s)
      /\ \A i \in 1..Len(v) : x[i] = v[i]
      /\ \A i \in 1..Len(s) : x[Len(v) + i] = s[i]
  BY <1>2, JoinIs
<1>5. u = x \o w
  BY DEF Spliced, v
<1> HIDE DEF x, w
<1>6. /\ u \in Seq(Byte) /\ Len(u) = Len(x) + Len(w)
      /\ \A i \in 1..Len(x) : u[i] = x[i]
      /\ \A i \in 1..Len(w) : u[Len(x) + i] = w[i]
  <2>1. /\ (x \o w) \in Seq(Byte) /\ Len(x \o w) = Len(x) + Len(w)
        /\ \A i \in 1..Len(x) : (x \o w)[i] = x[i]
        /\ \A i \in 1..Len(w) : (x \o w)[Len(x) + i] = w[i]
    BY <1>3, <1>4, JoinIs
  <2> QED
    BY <1>5, <2>1
<1>7. Len(s) = k
  OBVIOUS
<1> HIDE DEF n, k
<1>8. /\ Len(v) = p /\ Len(x) = p + k /\ Len(w) = n - p /\ Len(u) = n + k
      /\ \A i \in 1..p : v[i] = t[i]
  BY <1>1, <1>2, <1>3, <1>4, <1>6, <1>7
<1>9. ASSUME NEW i \in 1..p PROVE u[i] = t[i]
  <2>1. i \in 1..(p + k)
    BY <1>1, <1>9
  <2>2. u[i] = x[i]
    BY <1>6, <1>8, <2>1
  <2>3. x[i] = v[i]
    BY <1>4, <1>8, <1>9
  <2> QED
    BY <1>8, <2>2, <2>3
<1>10. ASSUME NEW i \in 1..k PROVE u[p + i] = s[i]
  <2>1. p + i \in 1..(p + k)
    BY <1>1, <1>10
  <2>2. u[p + i] = x[p + i]
    BY <1>6, <1>8, <2>1
  <2>3. x[p + i] = s[i]
    BY <1>4, <1>7, <1>8, <1>10
  <2> QED
    BY <2>2, <2>3
<1>11. ASSUME NEW i \in (p + 1)..n PROVE u[i + k] = t[i]
  <2>1. i - p \in 1..(n - p) /\ p + k + (i - p) = i + k /\ p + (i - p) = i
    BY <1>1, <1>11
  <2>2. u[p + k + (i - p)] = w[i - p]
    BY <1>6, <1>8, <2>1
  <2>3. w[i - p] = t[p + (i - p)]
    BY <1>3, <2>1
  <2> QED
    BY <2>1, <2>2, <2>3
<1> QED
  BY <1>1, <1>6, <1>8, <1>9, <1>10, <1>11 DEF n, k, Holds

LEMMA SplicedWhole ==
  ASSUME NEW t \in Seq(Byte), NEW p \in 0..Len(t), NEW s \in Seq(Byte), NEW u, u = Spliced(t, p, s),
         Whole(t), Whole(s), Aligned(t, p)
  PROVE  /\ Whole(u)
         /\ \A q \in 0..p : Aligned(u, q) <=> Aligned(t, q)
         /\ \A q \in p..Len(t) : Aligned(u, q + Len(s)) <=> Aligned(t, q)
<1> DEFINE n == Len(t)
           k == Len(s)
           v == SubSeq(t, 0 + 1, p)
           x == v \o s
           w == SubSeq(t, p + 1, n)
<1>1. n \in Nat /\ k \in Nat /\ 0 \in Nat /\ p \in Nat /\ n \in p..n
  BY LenProperties
<1>2. v \in Seq(Byte) /\ Len(v) = p - 0
  BY <1>1, SliceIs
<1>3. w \in Seq(Byte) /\ Len(w) = n - p
  BY <1>1, SliceIs
<1>4. Aligned(t, 0) /\ Aligned(t, n) /\ Aligned(s, 0)
  BY WholeIs DEF Aligned
<1>5. Whole(v) /\ \A q \in 0..(p - 0) : Aligned(v, q) <=> Aligned(t, 0 + q)
  BY <1>1, <1>4, SliceWhole, SliceAligned
<1>6. Whole(w) /\ \A q \in 0..(n - p) : Aligned(w, q) <=> Aligned(t, p + q)
  BY <1>1, <1>4, SliceWhole, SliceAligned
<1> HIDE DEF v
<1>7. /\ x \in Seq(Byte) /\ Len(x) = Len(v) + Len(s) /\ Whole(x)
      /\ \A q \in 0..Len(v) : Aligned(x, q) <=> Aligned(v, q)
  BY <1>2, <1>4, <1>5, JoinIs, JoinWhole, JoinAligned
<1>8. u = x \o w
  BY DEF Spliced, v
<1> HIDE DEF x, w
<1>9. Whole(u)
  BY <1>3, <1>6, <1>7, <1>8, JoinWhole
<1>10. Aligned(w, 0)
  BY <1>3, <1>6, WholeIs
<1>11. /\ \A q \in 0..Len(x) : Aligned(u, q) <=> Aligned(x, q)
       /\ \A q \in 0..Len(w) : Aligned(u, Len(x) + q) <=> Aligned(w, q)
  BY <1>3, <1>7, <1>8, <1>10, JoinAligned
<1>12. Len(s) = k
  OBVIOUS
<1> HIDE DEF n, k
<1>13. Len(v) = p /\ Len(x) = p + k /\ Len(w) = n - p
  BY <1>1, <1>2, <1>3, <1>7, <1>12
<1>14. ASSUME NEW q \in 0..p PROVE Aligned(u, q) <=> Aligned(t, q)
  <2>1. q \in 0..(p + k) /\ q \in 0..(p - 0) /\ 0 + q = q
    BY <1>1, <1>14
  <2>2. Aligned(u, q) <=> Aligned(x, q)
    BY <1>11, <1>13, <2>1
  <2>3. Aligned(x, q) <=> Aligned(v, q)
    BY <1>7, <1>13, <1>14
  <2>4. Aligned(v, q) <=> Aligned(t, 0 + q)
    BY <1>5, <2>1
  <2> QED
    BY <2>1, <2>2, <2>3, <2>4
<1>15. ASSUME NEW q \in p..n PROVE Aligned(u, q + k) <=> Aligned(t, q)
  <2>1. q - p \in 0..(n - p) /\ p + k + (q - p) = q + k /\ p + (q - p) = q
    BY <1>1, <1>15
  <2>2. Aligned(u, p + k + (q - p)) <=> Aligned(w, q - p)
    BY <1>11, <1>13, <2>1
  <2>3. Aligned(w, q - p) <=> Aligned(t, p + (q - p))
    BY <1>6, <2>1
  <2> QED
    BY <2>1, <2>2, <2>3
<1> QED
  BY <1>9, <1>14, <1>15 DEF n, k

LEMMA MovedIs ==
  ASSUME NEW t \in Token, NEW by \in Int, t.begin + by >= 0, t.end + by >= 0
  PROVE  /\ Moved(t, by) \in Token /\ Moved(t, by).begin = t.begin + by
         /\ Moved(t, by).end = t.end + by /\ Moved(t, by).command = t.command
<1>1. t.begin \in Nat /\ t.end \in Nat /\ t.command \in Command
  BY DEF Token
<1>2. t.begin + by \in Nat /\ t.end + by \in Nat
  BY <1>1
<1> QED
  BY <1>1, <1>2 DEF Moved, Token

LEMMA InsertedKeeps ==
  ASSUME NEW d, LineInv(d), NEW s \in Seq(Byte), Whole(s), FitsIn(d, s),
         NEW n, n = Inserted(d, s)
  PROVE  /\ LineInv(n)
         /\ n.text = Spliced(d.text, d.pos, s) /\ n.pos = d.pos + Len(s)
         /\ SameCommands(n.tokens, d.tokens)
<1> DEFINE t == d.text
           p == d.pos
           k == Len(s)
           u == Spliced(t, p, s)
           f == [x \in d.tokens |-> IF x.begin >= p THEN Moved(x, k) ELSE x]
           T == {IF x.begin >= p THEN Moved(x, k) ELSE x : x \in d.tokens}
<1>1. n = [text |-> u, pos |-> p + k, tokens |-> T]
  BY DEF Inserted, Spliced, Bytes, Length
<1>2. /\ t \in Seq(Byte) /\ Len(t) \in Nat /\ p \in 0..Len(t) /\ Whole(t) /\ Aligned(t, p)
      /\ k \in Nat
  BY LineFacts, LenProperties DEF Length, Place
<1>u. u = Spliced(t, p, s)
  OBVIOUS
<1> HIDE DEF u
<1>3. /\ u \in Seq(Byte) /\ Len(u) = Len(t) + k
      /\ \A i \in 1..p : u[i] = t[i]
      /\ \A i \in (p + 1)..Len(t) : u[i + k] = t[i]
  <2> HIDE DEF t, p
  <2>1. Holds(t, p, s, u)
    BY <1>2, <1>u, SplicedIs
  <2> QED
    BY <2>1 DEF Holds
<1>4. /\ Whole(u)
      /\ \A q \in 0..p : Aligned(u, q) <=> Aligned(t, q)
      /\ \A q \in p..Len(t) : Aligned(u, q + k) <=> Aligned(t, q)
  <2> HIDE DEF t, p
  <2> QED
    BY <1>2, <1>u, SplicedWhole
<1>5. Len(u) < BufSize
  BY <1>2, <1>3 DEF FitsIn, Length
<1>6. p + k \in 0..Len(u) /\ Aligned(u, p + k)
  <2>1. p \in p..Len(t)
    BY <1>2
  <2> QED
    BY <1>2, <1>3, <1>4, <2>1
<1>7. T = {f[x] : x \in d.tokens}
  OBVIOUS
<1>8. \A x \in d.tokens : f[x] = IF x.begin >= p THEN Moved(x, k) ELSE x
  OBVIOUS
<1> HIDE DEF f, T, k, t, p
<1>9. ASSUME NEW x \in d.tokens
      PROVE  /\ Follows(d, u, p + k, x, f[x])
             /\ x.begin >= p => f[x].begin = x.begin + k /\ f[x].end = x.end + k
             /\ ~(x.begin >= p) => f[x] = x /\ x.end <= p
  <2>1. /\ x \in Token /\ x.begin \in Nat /\ x.end \in Nat /\ x.begin < x.end /\ x.end <= Len(t)
        /\ Aligned(t, x.begin) /\ Aligned(t, x.end)
    BY TokenFacts DEF Length, t
  <2>2. p <= x.begin \/ p >= x.end
    BY LineFacts DEF Place, Outside, p
  <2>3. CASE x.begin >= p
    <3>1. f[x] = Moved(x, k)
      BY <1>8, <2>3
    <3>2. /\ f[x] \in Token /\ f[x].begin = x.begin + k /\ f[x].end = x.end + k
          /\ f[x].command = x.command
      <4>1. k \in Int /\ x.begin + k >= 0 /\ x.end + k >= 0
        BY <1>2, <2>1
      <4> QED
        BY <2>1, <3>1, <4>1, MovedIs
    <3>3. Aligned(u, x.begin + k) /\ Aligned(u, x.end + k)
      <4>1. x.begin \in p..Len(t) /\ x.end \in p..Len(t)
        BY <1>2, <2>1, <2>3
      <4> QED
        BY <1>4, <2>1, <4>1
    <3>4. ASSUME NEW i \in 1..(x.end - x.begin) PROVE u[f[x].begin + i] = t[x.begin + i]
      <4> DEFINE j == x.begin + i
      <4>1. j \in (p + 1)..Len(t) /\ j + k = f[x].begin + i
        <5>1. j \in (p + 1)..Len(t)
          BY <1>2, <2>1, <2>3
        <5>2. j + k = x.begin + k + i
          BY <1>2, <2>1
        <5> QED
          BY <3>2, <5>1, <5>2
      <4> HIDE DEF j
      <4>2. u[j + k] = t[j]
        BY <1>3, <4>1
      <4>3. u[f[x].begin + i] = t[j]
        BY <4>1, <4>2
      <4> QED
        BY <4>3 DEF j
    <3>5. /\ f[x].end - f[x].begin = x.end - x.begin /\ f[x].end <= Len(u)
          /\ p + k <= f[x].begin
      <4>1. (x.end + k) - (x.begin + k) = x.end - x.begin
        BY <1>2, <2>1
      <4>2. x.end + k <= Len(t) + k
        BY <1>2, <2>1
      <4>3. p + k <= x.begin + k
        BY <1>2, <2>1, <2>3
      <4> QED
        BY <1>3, <3>2, <4>1, <4>2, <4>3
    <3>6. Follows(d, u, p + k, x, f[x])
      BY <3>2, <3>3, <3>4, <3>5 DEF Follows, t
    <3> QED
      BY <2>3, <3>2, <3>6
  <2>4. CASE ~(x.begin >= p)
    <3>1. f[x] = x
      BY <1>8, <2>4
    <3>2. x.end <= p
      BY <1>2, <2>1, <2>2, <2>4
    <3>3. Aligned(u, x.begin) /\ Aligned(u, x.end)
      <4>1. x.begin \in 0..p /\ x.end \in 0..p
        BY <1>2, <2>1, <3>2
      <4> QED
        BY <1>4, <2>1, <4>1
    <3>4. ASSUME NEW i \in 1..(x.end - x.begin) PROVE u[x.begin + i] = t[x.begin + i]
      <4>1. x.begin + i \in 1..p
        BY <1>2, <2>1, <3>2
      <4> QED
        BY <1>3, <4>1
    <3>5. x.end <= Len(u) /\ p + k >= x.end
      BY <1>2, <1>3, <2>1, <3>2
    <3>6. Follows(d, u, p + k, x, x)
      BY <2>1, <3>3, <3>4, <3>5 DEF Follows, t
    <3> QED
      BY <2>4, <3>1, <3>2, <3>6
  <2> QED
    BY <2>3, <2>4
<1>10. ASSUME NEW x \in d.tokens, NEW y \in d.tokens, x.end <= y.begin
       PROVE  f[x].end <= f[y].begin
  <2>1. /\ x.begin \in Nat /\ x.end \in Nat /\ x.begin < x.end
        /\ y.begin \in Nat /\ y.end \in Nat /\ y.begin < y.end
    BY TokenFacts
  <2>2. CASE x.begin >= p
    <3>1. y.begin >= p
      BY <1>2, <1>10, <2>1, <2>2
    <3>2. f[x].end = x.end + k /\ f[y].begin = y.begin + k
      BY <1>9, <2>2, <3>1
    <3>3. x.end + k <= y.begin + k
      BY <1>2, <1>10, <2>1
    <3> QED
      BY <3>2, <3>3
  <2>3. CASE ~(x.begin >= p) /\ y.begin >= p
    <3>1. f[x].end = x.end /\ f[y].begin = y.begin + k
      BY <1>9, <2>3
    <3>2. x.end <= y.begin + k
      BY <1>2, <1>10, <2>1
    <3> QED
      BY <3>1, <3>2
  <2>4. CASE ~(x.begin >= p) /\ ~(y.begin >= p)
    <3>1. f[x] = x /\ f[y] = y
      BY <1>9, <2>4
    <3> QED
      BY <1>10, <3>1
  <2> QED
    BY <2>2, <2>3, <2>4
<1>11. /\ LineInv([text |-> u, pos |-> p + k, tokens |-> T])
       /\ SameCommands(T, d.tokens)
  <2>1. /\ u \in Seq(Byte) /\ Whole(u) /\ Len(u) < BufSize /\ p + k \in 0..Len(u)
        /\ Aligned(u, p + k) /\ d.tokens \in SUBSET d.tokens
    BY <1>3, <1>4, <1>5, <1>6
  <2>2. \A x \in d.tokens : Follows(d, u, p + k, x, f[x])
    BY <1>9
  <2>3. \A x, y \in d.tokens : x.end <= y.begin => f[x].end <= f[y].begin
    BY <1>10
  <2> QED
    <3>1. Relocation(d, u, p + k, d.tokens, f, T)
      BY <1>7, <2>1, <2>2, <2>3 DEF Relocation
    <3> QED
      BY <3>1, Relocated
<1>12. n.text = u /\ n.pos = p + k /\ n.tokens = T
  BY <1>1
<1> QED
  BY <1>1, <1>11, <1>12 DEF u, t, p, k

(* A range no token straddles.                                             *)
Clean(d, b, e) == \A t \in d.tokens : t.end <= b \/ e <= t.begin \/ (b <= t.begin /\ t.end <= e)

LEMMA CutKeeps ==
  ASSUME NEW d, LineInv(d), NEW b \in 0..Length(d), NEW e \in b..Length(d), b < e,
         Aligned(d.text, b), Aligned(d.text, e), Clean(d, b, e),
         NEW n, n = Cut(d, b, e)
  PROVE  /\ LineInv(n)
         /\ n.text = CutOut(d.text, b, e)
         /\ n.pos = IF d.pos >= e THEN d.pos - (e - b) ELSE IF d.pos > b THEN b ELSE d.pos
         /\ Touched(d, b, e) = {} => SameCommands(n.tokens, d.tokens)
         /\ Touched(d, b, e) = {} => \A x \in n.tokens :
              x.end <= b \/ \E y \in d.tokens : y.begin >= e /\ x.begin = y.begin - (e - b)
<1> DEFINE t == d.text
           by == b - e
           u == CutOut(t, b, e)
           p == IF d.pos >= e THEN d.pos - (e - b) ELSE IF d.pos > b THEN b ELSE d.pos
           S == {x \in d.tokens : ~(x.begin >= b /\ x.end <= e)}
           f == [x \in d.tokens |-> IF x.begin >= e THEN Moved(x, by) ELSE x]
           T == {IF x.begin >= e THEN Moved(x, by) ELSE x : x \in S}
<1>1. n = [text |-> u, pos |-> p, tokens |-> T]
  BY DEF Cut, CutOut, Bytes, Length
<1>2. /\ t \in Seq(Byte) /\ Len(t) \in Nat /\ Length(d) = Len(t) /\ Whole(t)
      /\ b \in Nat /\ e \in b..Len(t) /\ e \in Nat
      /\ d.pos \in 0..Len(t) /\ Aligned(t, d.pos)
      /\ by \in Int /\ by = -(e - b)
  BY LineFacts DEF Length, Place
<1>u. u = CutOut(t, b, e)
  OBVIOUS
<1> HIDE DEF u
<1>3. /\ u \in Seq(Byte) /\ Len(u) = Len(t) - (e - b) /\ Len(u) \in Nat
      /\ \A i \in 1..b : u[i] = t[i]
      /\ \A i \in (e + 1)..Len(t) : u[i - (e - b)] = t[i]
  <2> HIDE DEF t
  <2>1. Lacks(t, b, e, u)
    BY <1>2, <1>u, CutOutIs
  <2> QED
    BY <2>1 DEF Lacks
<1>4. /\ Whole(u)
      /\ \A q \in 0..b : Aligned(u, q) <=> Aligned(t, q)
      /\ \A q \in e..Len(t) : Aligned(u, q - (e - b)) <=> Aligned(t, q)
  <2>1. Aligned(t, b) /\ Aligned(t, e)
    OBVIOUS
  <2> HIDE DEF t
  <2> QED
    BY <1>2, <1>u, <2>1, CutOutWhole
<1>5. Len(u) < BufSize
  <2>1. Len(t) < BufSize /\ BufSize \in Nat
    BY LineFacts DEF Length
  <2> QED
    BY <1>2, <1>3, <2>1
<1>6. p \in 0..Len(u) /\ Aligned(u, p)
  <2>1. CASE d.pos >= e
    <3>1. p = d.pos - (e - b) /\ d.pos \in e..Len(t)
      BY <1>2, <2>1
    <3> QED
      BY <1>2, <1>3, <1>4, <3>1
  <2>2. CASE ~(d.pos >= e) /\ d.pos > b
    <3>1. p = b /\ b \in 0..b
      BY <1>2, <2>2
    <3> QED
      BY <1>2, <1>3, <1>4, <3>1
  <2>3. CASE ~(d.pos >= e) /\ ~(d.pos > b)
    <3>1. p = d.pos /\ d.pos \in 0..b
      BY <1>2, <2>3
    <3> QED
      BY <1>2, <1>3, <1>4, <3>1
  <2> QED
    BY <2>1, <2>2, <2>3
<1>7. S \in SUBSET d.tokens /\ T = {f[x] : x \in S}
  OBVIOUS
<1>8. /\ \A x \in d.tokens : f[x] = IF x.begin >= e THEN Moved(x, by) ELSE x
      /\ \A x \in S : x \in d.tokens /\ ~(x.begin >= b /\ x.end <= e)
  OBVIOUS
<1>9. /\ d.pos >= e => p = d.pos - (e - b)
      /\ ~(d.pos >= e) => p <= b /\ p <= d.pos /\ (p = d.pos \/ p = b)
  BY <1>2
<1>10. p \in Nat
  BY <1>3, <1>6
<1>11. \A x \in d.tokens : x \in S <=> ~(x.begin >= b /\ x.end <= e)
  OBVIOUS
<1> HIDE DEF f, T, S, t, p, by
<1>12. ASSUME NEW x \in S
      PROVE  /\ Follows(d, u, p, x, f[x])
             /\ x.begin >= e => f[x].begin = x.begin - (e - b) /\ f[x].end = x.end - (e - b)
             /\ ~(x.begin >= e) => f[x] = x /\ x.end <= b
  <2>0. x \in d.tokens
    BY <1>8
  <2>1. /\ x \in Token /\ x.begin \in Nat /\ x.end \in Nat /\ x.begin < x.end /\ x.end <= Len(t)
        /\ Aligned(t, x.begin) /\ Aligned(t, x.end)
    BY <2>0, TokenFacts DEF Length, t
  <2>2. d.pos <= x.begin \/ d.pos >= x.end
    BY <2>0, LineFacts DEF Place, Outside
  <2>3. CASE x.begin >= e
    <3>1. f[x] = Moved(x, by)
      BY <1>8, <2>0, <2>3
    <3>2. /\ f[x] \in Token /\ f[x].begin = x.begin + by /\ f[x].end = x.end + by
          /\ f[x].command = x.command
      <4>1. by \in Int /\ x.begin + by >= 0 /\ x.end + by >= 0
        BY <1>2, <2>1, <2>3
      <4> QED
        BY <2>1, <3>1, <4>1, MovedIs
    <3>3. x.begin + by = x.begin - (e - b) /\ x.end + by = x.end - (e - b)
      BY <1>2, <2>1
    <3>4. Aligned(u, x.begin - (e - b)) /\ Aligned(u, x.end - (e - b))
      <4>1. x.begin \in e..Len(t) /\ x.end \in e..Len(t)
        BY <1>2, <2>1, <2>3
      <4> QED
        BY <1>4, <2>1, <4>1
    <3>5. ASSUME NEW i \in 1..(x.end - x.begin) PROVE u[f[x].begin + i] = t[x.begin + i]
      <4> DEFINE j == x.begin + i
      <4>0. f[x].begin = x.begin - (e - b)
        BY <3>2, <3>3
      <4>1. j \in (e + 1)..Len(t) /\ j - (e - b) = f[x].begin + i
        <5>1. j \in (e + 1)..Len(t)
          BY <1>2, <2>1, <2>3
        <5>2. j - (e - b) = x.begin - (e - b) + i
          BY <1>2, <2>1
        <5> QED
          BY <4>0, <5>1, <5>2
      <4> HIDE DEF j
      <4>2. u[j - (e - b)] = t[j]
        BY <1>3, <4>1
      <4>3. u[f[x].begin + i] = t[j]
        BY <4>1, <4>2
      <4> QED
        BY <4>3 DEF j
    <3>6. f[x].end - f[x].begin = x.end - x.begin /\ f[x].end <= Len(u)
      <4>1. f[x].begin = x.begin - (e - b) /\ f[x].end = x.end - (e - b)
        BY <3>2, <3>3
      <4>2. (x.end - (e - b)) - (x.begin - (e - b)) = x.end - x.begin
        BY <1>2, <2>1
      <4>3. x.end - (e - b) <= Len(t) - (e - b)
        BY <1>2, <2>1
      <4> QED
        BY <1>3, <4>1, <4>2, <4>3
    <3>7. p <= f[x].begin \/ p >= f[x].end
      <4>1. d.pos \in Nat /\ f[x].begin = x.begin - (e - b) /\ f[x].end = x.end - (e - b)
        BY <1>2, <3>2, <3>3
      <4>2. CASE d.pos >= e
        <5>1. p = d.pos - (e - b)
          BY <1>9, <4>2
        <5> QED
          BY <1>2, <2>1, <2>2, <4>1, <5>1
      <4>3. CASE ~(d.pos >= e)
        <5>1. p <= b
          BY <1>9, <4>3
        <5> QED
          BY <1>2, <1>10, <2>1, <2>3, <4>1, <5>1
      <4> QED
        BY <4>2, <4>3
    <3>8. Follows(d, u, p, x, f[x])
      BY <3>2, <3>3, <3>4, <3>5, <3>6, <3>7 DEF Follows, t
    <3> QED
      BY <2>3, <3>2, <3>3, <3>8
  <2>4. CASE ~(x.begin >= e)
    <3>1. f[x] = x
      BY <1>8, <2>0, <2>4
    <3>2. x.end <= b
      <4>1. x.end <= b \/ e <= x.begin \/ (b <= x.begin /\ x.end <= e)
        BY <2>0 DEF Clean
      <4> QED
        BY <1>2, <1>8, <2>1, <2>4, <4>1
    <3>3. Aligned(u, x.begin) /\ Aligned(u, x.end)
      <4>1. x.begin \in 0..b /\ x.end \in 0..b
        BY <1>2, <2>1, <3>2
      <4> QED
        BY <1>4, <2>1, <4>1
    <3>4. ASSUME NEW i \in 1..(x.end - x.begin) PROVE u[x.begin + i] = t[x.begin + i]
      <4>1. x.begin + i \in 1..b
        BY <1>2, <2>1, <3>2
      <4> QED
        BY <1>3, <4>1
    <3>5. x.end <= Len(u) /\ (p <= x.begin \/ p >= x.end)
      <4>1. x.end <= Len(u)
        BY <1>2, <1>3, <2>1, <3>2
      <4>2. CASE d.pos >= e
        <5>1. p = d.pos - (e - b)
          BY <1>9, <4>2
        <5> QED
          BY <1>2, <2>1, <2>2, <3>2, <4>1, <4>2, <5>1
      <4>3. CASE ~(d.pos >= e)
        BY <1>9, <1>10, <2>2, <3>2, <4>1, <4>3
      <4> QED
        BY <4>2, <4>3
    <3>6. Follows(d, u, p, x, x)
      BY <2>1, <3>3, <3>4, <3>5 DEF Follows, t
    <3> QED
      BY <2>4, <3>1, <3>2, <3>6
  <2> QED
    BY <2>3, <2>4
<1>13. ASSUME NEW x \in S, NEW y \in S, x.end <= y.begin
       PROVE  f[x].end <= f[y].begin
  <2>1. x \in d.tokens /\ y \in d.tokens
    BY <1>8
  <2>2. /\ x.begin \in Nat /\ x.end \in Nat /\ x.begin < x.end
        /\ y.begin \in Nat /\ y.end \in Nat /\ y.begin < y.end
    BY <2>1, TokenFacts
  <2>3. CASE x.begin >= e
    <3>1. y.begin >= e
      BY <1>2, <1>13, <2>2, <2>3
    <3>2. f[x].end = x.end - (e - b) /\ f[y].begin = y.begin - (e - b)
      BY <1>12, <2>3, <3>1
    <3>3. x.end - (e - b) <= y.begin - (e - b)
      BY <1>2, <1>13, <2>2
    <3> QED
      BY <3>2, <3>3
  <2>4. CASE ~(x.begin >= e) /\ y.begin >= e
    <3>1. f[x].end = x.end /\ x.end <= b /\ f[y].begin = y.begin - (e - b)
      BY <1>12, <2>4
    <3>2. b <= y.begin - (e - b)
      BY <1>2, <2>2, <2>4
    <3>3. x.end <= y.begin - (e - b)
      BY <1>2, <2>2, <3>1, <3>2
    <3> QED
      BY <3>1, <3>3
  <2>5. CASE ~(x.begin >= e) /\ ~(y.begin >= e)
    <3>1. f[x] = x /\ f[y] = y
      BY <1>12, <2>5
    <3> QED
      BY <1>13, <3>1
  <2> QED
    BY <2>3, <2>4, <2>5
<1>14. /\ LineInv([text |-> u, pos |-> p, tokens |-> T])
       /\ SameCommands(T, S)
  <2>1. /\ u \in Seq(Byte) /\ Whole(u) /\ Len(u) < BufSize /\ p \in 0..Len(u)
        /\ Aligned(u, p) /\ S \in SUBSET d.tokens
    BY <1>3, <1>4, <1>5, <1>6, <1>7
  <2>2. \A x \in S : Follows(d, u, p, x, f[x])
    BY <1>12
  <2>3. \A x, y \in S : x.end <= y.begin => f[x].end <= f[y].begin
    BY <1>13
  <2> QED
    <3>1. Relocation(d, u, p, S, f, T)
      BY <1>7, <2>1, <2>2, <2>3 DEF Relocation
    <3> QED
      BY <3>1, Relocated
<1>15. n.text = u /\ n.pos = p /\ n.tokens = T
  BY <1>1
<1>16. ASSUME Touched(d, b, e) = {} PROVE S = d.tokens
  <2>1. ASSUME NEW x \in d.tokens PROVE x \in S
    <3>1. ~(x.end > b /\ x.begin < e)
      BY <1>16 DEF Touched
    <3>2. x.begin \in Nat /\ x.end \in Nat /\ x.begin < x.end
      BY TokenFacts
    <3> QED
      BY <1>2, <1>11, <3>1, <3>2
  <2> QED
    BY <1>7, <2>1
<1>17. ASSUME NEW z \in T
       PROVE  z.end <= b \/ \E y \in d.tokens : y.begin >= e /\ z.begin = y.begin - (e - b)
  <2>1. PICK x \in S : z = f[x]
    BY <1>7, <1>17
  <2>2. x \in d.tokens
    BY <1>8
  <2> QED
    BY <1>12, <2>1, <2>2
<1> QED
  BY <1>1, <1>14, <1>15, <1>16, <1>17 DEF u, t, p

LEMMA RemovedRange ==
  ASSUME NEW d, LineInv(d), NEW b \in 0..Length(d), NEW e \in b..Length(d), b < e,
         Aligned(d.text, b), Aligned(d.text, e),
         NEW fb, fb = FirstRemoved(d, b, e), NEW le, le = LastRemoved(d, b, e)
  PROVE  /\ fb \in 0..Length(d) /\ le \in fb..Length(d) /\ fb < le
         /\ Aligned(d.text, fb) /\ Aligned(d.text, le) /\ Clean(d, fb, le)
         /\ Touched(d, b, e) = {} => fb = b /\ le = e
<1> DEFINE Part == Touched(d, b, e)
           B == {b} \cup {t.begin : t \in Part}
           E == {e} \cup {t.end : t \in Part}
           n == Length(d)
<1>1. n \in Nat /\ b \in Nat /\ e \in Nat
  BY LineFacts
<1>2. \A t \in d.tokens : /\ t.begin \in Nat /\ t.end \in Nat /\ t.begin < t.end /\ t.end <= n
                          /\ Aligned(d.text, t.begin) /\ Aligned(d.text, t.end)
  BY TokenFacts
<1>3. \A t \in d.tokens : t \in Part <=> t.end > b /\ t.begin < e
  BY DEF Touched
<1>4. \A t \in Part : t \in d.tokens
  BY DEF Touched
<1>5. \A t, u \in d.tokens : t # u => u.end <= t.begin \/ t.end <= u.begin
  BY LineFacts DEF Apart
<1> HIDE DEF n, Part
<1>6. B \in SUBSET Nat /\ B # {} /\ b \in B /\ \A t \in Part : t.begin \in B
  BY <1>1, <1>2, <1>4
<1>7. E \in SUBSET (0..n) /\ E # {} /\ e \in E /\ \A t \in Part : t.end \in E
  <2>1. \A t \in Part : t.end \in 0..n
    BY <1>1, <1>2, <1>4
  <2>2. e \in 0..n
    BY <1>1 DEF n
  <2> QED
    BY <2>1, <2>2
<1>8. \A m \in B : m = b \/ \E t \in Part : m = t.begin
  OBVIOUS
<1>9. \A m \in E : m = e \/ \E t \in Part : m = t.end
  OBVIOUS
<1>10. fb = Min(B) /\ le = Max(E)
  BY DEF FirstRemoved, LastRemoved, Part
<1>11. Part = {} => B = {b} /\ E = {e}
  OBVIOUS
<1> HIDE DEF B, E
<1>12. fb \in B /\ \A m \in B : fb <= m
  BY <1>6, <1>10, MinIs
<1>13. le \in E /\ \A m \in E : m <= le
  BY <1>1, <1>7, <1>10, MaxIs
<1>14. fb \in Nat /\ fb <= b /\ \A t \in Part : fb <= t.begin
  BY <1>6, <1>12
<1>15. le \in 0..n /\ e <= le /\ \A t \in Part : t.end <= le
  BY <1>7, <1>13
<1>16. Aligned(d.text, fb) /\ Aligned(d.text, le)
  <2>1. fb = b \/ \E t \in Part : fb = t.begin
    BY <1>8, <1>12
  <2>2. le = e \/ \E t \in Part : le = t.end
    BY <1>9, <1>13
  <2> QED
    BY <1>2, <1>4, <2>1, <2>2
<1>17. ASSUME NEW t \in d.tokens
       PROVE  t.end <= fb \/ le <= t.begin \/ (fb <= t.begin /\ t.end <= le)
  <2>1. CASE t \in Part
    BY <1>14, <1>15, <2>1
  <2>2. CASE t.end <= b
    <3>1. fb = b \/ \E u \in Part : fb = u.begin
      BY <1>8, <1>12
    <3>2. CASE \E u \in Part : fb = u.begin
      <4>1. PICK u \in Part : fb = u.begin
        BY <3>2
      <4>2. u \in d.tokens /\ u.end > b
        BY <1>3, <1>4
      <4>3. t = u \/ u.end <= t.begin \/ t.end <= u.begin
        BY <1>5, <4>2
      <4> QED
        BY <1>1, <1>2, <2>2, <4>1, <4>2, <4>3
    <3> QED
      BY <2>2, <3>1, <3>2
  <2>3. CASE e <= t.begin
    <3>1. le = e \/ \E u \in Part : le = u.end
      BY <1>9, <1>13
    <3>2. CASE \E u \in Part : le = u.end
      <4>1. PICK u \in Part : le = u.end
        BY <3>2
      <4>2. u \in d.tokens /\ u.begin < e
        BY <1>3, <1>4
      <4>3. t = u \/ u.end <= t.begin \/ t.end <= u.begin
        BY <1>5, <4>2
      <4> QED
        BY <1>1, <1>2, <2>3, <4>1, <4>2, <4>3
    <3> QED
      BY <2>3, <3>1, <3>2
  <2> QED
    BY <1>1, <1>2, <1>3, <2>1, <2>2, <2>3
<1>18. Clean(d, fb, le)
  BY <1>17 DEF Clean
<1>19. /\ fb \in 0..Length(d) /\ le \in fb..Length(d) /\ fb < le
  BY <1>1, <1>14, <1>15 DEF n
<1>20. Part = {} => fb = b /\ le = e
  BY <1>11, <1>12, <1>13
<1> QED
  BY <1>16, <1>18, <1>19, <1>20 DEF Part

LEMMA RemovedKeeps ==
  ASSUME NEW d, LineInv(d), NEW b \in 0..Length(d), NEW e \in b..Length(d),
         Aligned(d.text, b), Aligned(d.text, e)
  PROVE  LineInv(Removed(d, b, e))
<1>1. CASE b = e
  BY <1>1 DEF Removed
<1>2. CASE b # e
  <2> DEFINE fb == FirstRemoved(d, b, e)
             le == LastRemoved(d, b, e)
             n == Cut(d, fb, le)
  <2>1. b < e /\ Removed(d, b, e) = n
    BY <1>2, LineFacts DEF Removed
  <2>2. /\ fb \in 0..Length(d) /\ le \in fb..Length(d) /\ fb < le
        /\ Aligned(d.text, fb) /\ Aligned(d.text, le) /\ Clean(d, fb, le)
    BY <2>1, RemovedRange
  <2>3. n = Cut(d, fb, le)
    OBVIOUS
  <2> HIDE DEF fb, le, n
  <2>4. LineInv(n)
    BY <2>2, <2>3, CutKeeps
  <2> QED
    BY <2>1, <2>4
<1> QED
  BY <1>1, <1>2

(* Where nothing is touched the bytes go and nothing else does.            *)
RemovedOnly(d, b, e, n) ==
  /\ LineInv(n) /\ n.text = CutOut(d.text, b, e) /\ n.pos = b
  /\ SameCommands(n.tokens, d.tokens)
  /\ \A t \in n.tokens : t.end <= b \/ b <= t.begin

LEMMA RemovedClean ==
  ASSUME NEW d, LineInv(d), NEW b \in 0..Length(d), NEW e \in b..Length(d),
         Aligned(d.text, b), Aligned(d.text, e), Touched(d, b, e) = {}, d.pos \in b..e
  PROVE  RemovedOnly(d, b, e, Removed(d, b, e))
<1>0. Length(d) \in Nat /\ b \in Nat /\ e \in Nat /\ d.text \in Seq(Byte) /\ Length(d) = Len(d.text)
  BY LineFacts DEF Length
<1>1. CASE b = e
  <2>1. Removed(d, b, e) = d /\ d.pos = b
    BY <1>0, <1>1 DEF Removed
  <2> DEFINE t == d.text
             u == CutOut(t, b, e)
  <2>2. t \in Seq(Byte) /\ b \in Nat /\ e \in b..Len(t) /\ u = CutOut(t, b, e) /\ Len(t) \in Nat
    BY <1>0
  <2> HIDE DEF t, u
  <2>3. /\ u \in Seq(Byte) /\ Len(u) = Len(t) - (e - b)
        /\ \A i \in 1..b : u[i] = t[i]
        /\ \A i \in (e + 1)..Len(t) : u[i - (e - b)] = t[i]
    <3>1. Lacks(t, b, e, u)
      BY <2>2, CutOutIs
    <3> QED
      BY <3>1 DEF Lacks
  <2>4. Len(u) = Len(t) /\ \A i \in 1..Len(u) : u[i] = t[i]
    <3>1. Len(u) = Len(t) /\ \A i \in (b + 1)..Len(t) : i - (e - b) = i
      BY <1>0, <1>1, <2>2, <2>3
    <3>2. ASSUME NEW i \in 1..Len(u) PROVE u[i] = t[i]
      <4>1. i \in 1..b \/ (i \in (e + 1)..Len(t) /\ i - (e - b) = i)
        BY <1>0, <1>1, <2>2, <3>1
      <4> QED
        BY <2>3, <4>1
    <3> QED
      BY <3>1, <3>2
  <2>5. u = t
    BY <2>2, <2>3, <2>4, SeqEqual
  <2>6. \A x \in d.tokens : x.end <= b \/ b <= x.begin
    <3> TAKE x \in d.tokens
    <3>1. ~(x.end > b /\ x.begin < e)
      BY DEF Touched
    <3>2. x.begin \in Nat /\ x.end \in Nat
      BY TokenFacts
    <3> QED
      BY <1>0, <1>1, <3>1, <3>2
  <2> QED
    BY <2>1, <2>5, <2>6 DEF RemovedOnly, SameCommands, t, u
<1>2. CASE b # e
  <2> DEFINE fb == FirstRemoved(d, b, e)
             le == LastRemoved(d, b, e)
             n == Cut(d, b, e)
  <2>1. b < e
    BY <1>0, <1>2
  <2>2. fb = b /\ le = e
    BY <2>1, RemovedRange
  <2>3. Clean(d, b, e)
    <3>1. Clean(d, fb, le)
      BY <2>1, RemovedRange
    <3> HIDE DEF fb, le
    <3> QED
      BY <2>2, <3>1, Zenon
  <2>4. n = Cut(d, b, e) /\ Removed(d, b, e) = n
    BY <1>2, <2>2 DEF Removed
  <2> HIDE DEF n
  <2>5. /\ LineInv(n) /\ n.text = CutOut(d.text, b, e)
        /\ n.pos = IF d.pos >= e THEN d.pos - (e - b) ELSE IF d.pos > b THEN b ELSE d.pos
        /\ SameCommands(n.tokens, d.tokens)
        /\ \A x \in n.tokens :
              x.end <= b \/ \E y \in d.tokens : y.begin >= e /\ x.begin = y.begin - (e - b)
    BY <2>1, <2>3, <2>4, CutKeeps
  <2>6. n.pos = b
    <3>1. d.pos \in Nat /\ d.pos >= b /\ d.pos <= e
      BY <1>0
    <3> QED
      BY <1>0, <2>5, <3>1
  <2>7. \A x \in n.tokens : x.end <= b \/ b <= x.begin
    <3> TAKE x \in n.tokens
    <3>1. CASE \E y \in d.tokens : y.begin >= e /\ x.begin = y.begin - (e - b)
      <4>1. PICK y \in d.tokens : y.begin >= e /\ x.begin = y.begin - (e - b)
        BY <3>1
      <4>2. y.begin \in Nat
        BY TokenFacts
      <4> QED
        BY <1>0, <4>1, <4>2
    <3> QED
      BY <2>5, <3>1
  <2> QED
    BY <2>4, <2>5, <2>6, <2>7 DEF RemovedOnly
<1> QED
  BY <1>1, <1>2

-----------------------------------------------------------------------------
\* Where the cursor goes

LEMMA WordBackIs ==
  ASSUME NEW d, NEW p \in Nat, NEW q, q = WordBack(d, p)
  PROVE  /\ q \in 0..p /\ \A i \in q..(p - 1) : ~WhiteAt(d, i)
         /\ q = 0 \/ WhiteAt(d, q - 1)
<1> DEFINE Q == {r \in 0..p : \A i \in r..(p - 1) : ~WhiteAt(d, i)}
<1>1. p \in Q /\ Q \in SUBSET Nat
  OBVIOUS
<1>2. q = Min(Q)
  BY DEF WordBack
<1>3. \A r \in Nat : r \in Q <=> r <= p /\ \A i \in r..(p - 1) : ~WhiteAt(d, i)
  OBVIOUS
<1> HIDE DEF Q
<1>4. q \in Q /\ \A r \in Q : q <= r
  <2>1. Q # {}
    BY <1>1
  <2> QED
    BY <1>1, <1>2, <2>1, MinIs
<1>5. q \in Nat /\ q <= p /\ \A i \in q..(p - 1) : ~WhiteAt(d, i)
  BY <1>1, <1>3, <1>4
<1>6. ASSUME q # 0, ~WhiteAt(d, q - 1) PROVE FALSE
  <2>1. q - 1 \in Nat /\ q - 1 <= p /\ ~(q <= q - 1)
    BY <1>5, <1>6
  <2>2. \A i \in (q - 1)..(p - 1) : i = q - 1 \/ i \in q..(p - 1)
    BY <1>5
  <2>3. q - 1 \in Q
    BY <1>3, <1>5, <1>6, <2>1, <2>2
  <2> QED
    BY <1>4, <2>1, <2>3
<1> QED
  BY <1>5, <1>6

LEMMA WhiteBackIs ==
  ASSUME NEW d, NEW p \in Nat, NEW q, q = WhiteBack(d, p)
  PROVE  /\ q \in 0..p /\ \A i \in q..(p - 1) : WhiteAt(d, i)
         /\ q = 0 \/ ~WhiteAt(d, q - 1)
<1> DEFINE Q == {r \in 0..p : \A i \in r..(p - 1) : WhiteAt(d, i)}
<1>1. p \in Q /\ Q \in SUBSET Nat
  OBVIOUS
<1>2. q = Min(Q)
  BY DEF WhiteBack
<1>3. \A r \in Nat : r \in Q <=> r <= p /\ \A i \in r..(p - 1) : WhiteAt(d, i)
  OBVIOUS
<1> HIDE DEF Q
<1>4. q \in Q /\ \A r \in Q : q <= r
  <2>1. Q # {}
    BY <1>1
  <2> QED
    BY <1>1, <1>2, <2>1, MinIs
<1>5. q \in Nat /\ q <= p /\ \A i \in q..(p - 1) : WhiteAt(d, i)
  BY <1>1, <1>3, <1>4
<1>6. ASSUME q # 0, WhiteAt(d, q - 1) PROVE FALSE
  <2>1. q - 1 \in Nat /\ q - 1 <= p /\ ~(q <= q - 1)
    BY <1>5, <1>6
  <2>2. \A i \in (q - 1)..(p - 1) : i = q - 1 \/ i \in q..(p - 1)
    BY <1>5
  <2>3. q - 1 \in Q
    BY <1>3, <1>5, <1>6, <2>1, <2>2
  <2> QED
    BY <1>4, <2>1, <2>3
<1> QED
  BY <1>5, <1>6

LEMMA WordAheadIs ==
  ASSUME NEW d, Length(d) \in Nat, NEW p \in 0..Length(d), NEW q, q = WordAhead(d, p)
  PROVE  /\ q \in p..Length(d) /\ \A i \in p..(q - 1) : ~WhiteAt(d, i)
         /\ q = Length(d) \/ WhiteAt(d, q)
<1> DEFINE n == Length(d)
           Q == {r \in p..n : \A i \in p..(r - 1) : ~WhiteAt(d, i)}
<1>1. p \in Q /\ Q \in SUBSET (0..n) /\ n \in Nat /\ p \in 0..n
  OBVIOUS
<1>2. q = Max(Q)
  BY DEF WordAhead
<1>3. \A r \in p..n : r \in Q <=> \A i \in p..(r - 1) : ~WhiteAt(d, i)
  OBVIOUS
<1>4. \A r \in Q : r \in p..n
  OBVIOUS
<1> HIDE DEF Q, n
<1>5. q \in Q /\ \A r \in Q : r <= q
  <2>1. Q # {}
    BY <1>1
  <2> QED
    BY <1>1, <1>2, <2>1, MaxIs
<1>6. q \in p..n /\ \A i \in p..(q - 1) : ~WhiteAt(d, i)
  BY <1>3, <1>4, <1>5
<1>7. ASSUME q # n, ~WhiteAt(d, q) PROVE FALSE
  <2>1. q + 1 \in p..n /\ ~(q + 1 <= q)
    BY <1>1, <1>6, <1>7
  <2>2. \A i \in p..(q + 1 - 1) : i = q \/ i \in p..(q - 1)
    BY <1>1, <1>6
  <2>3. q + 1 \in Q
    BY <1>3, <1>6, <1>7, <2>1, <2>2
  <2> QED
    BY <1>5, <2>1, <2>3
<1> QED
  BY <1>6, <1>7 DEF n

LEMMA WhiteAheadIs ==
  ASSUME NEW d, Length(d) \in Nat, NEW p \in 0..Length(d), NEW q, q = WhiteAhead(d, p)
  PROVE  /\ q \in p..Length(d) /\ \A i \in p..(q - 1) : WhiteAt(d, i)
         /\ q = Length(d) \/ ~WhiteAt(d, q)
<1> DEFINE n == Length(d)
           Q == {r \in p..n : \A i \in p..(r - 1) : WhiteAt(d, i)}
<1>1. p \in Q /\ Q \in SUBSET (0..n) /\ n \in Nat /\ p \in 0..n
  OBVIOUS
<1>2. q = Max(Q)
  BY DEF WhiteAhead
<1>3. \A r \in p..n : r \in Q <=> \A i \in p..(r - 1) : WhiteAt(d, i)
  OBVIOUS
<1>4. \A r \in Q : r \in p..n
  OBVIOUS
<1> HIDE DEF Q, n
<1>5. q \in Q /\ \A r \in Q : r <= q
  <2>1. Q # {}
    BY <1>1
  <2> QED
    BY <1>1, <1>2, <2>1, MaxIs
<1>6. q \in p..n /\ \A i \in p..(q - 1) : WhiteAt(d, i)
  BY <1>3, <1>4, <1>5
<1>7. ASSUME q # n, WhiteAt(d, q) PROVE FALSE
  <2>1. q + 1 \in p..n /\ ~(q + 1 <= q)
    BY <1>1, <1>6, <1>7
  <2>2. \A i \in p..(q + 1 - 1) : i = q \/ i \in p..(q - 1)
    BY <1>1, <1>6
  <2>3. q + 1 \in Q
    BY <1>3, <1>6, <1>7, <2>1, <2>2
  <2> QED
    BY <1>5, <2>1, <2>3
<1> QED
  BY <1>6, <1>7 DEF n

(* No token holds white space.                                             *)
LEMMA TokenBytes ==
  ASSUME NEW d, LineInv(d), NEW t \in d.tokens, NEW i \in t.begin..(t.end - 1)
  PROVE  ~WhiteAt(d, i)
<1> DEFINE w == Table[t.command].token
           j == i - t.begin + 1
<1>1. /\ t.begin \in Nat /\ t.end \in Nat /\ t.command \in Command
      /\ w \in Seq(Byte) /\ Len(w) = t.end - t.begin
      /\ \A k \in 1..(t.end - t.begin) : d.text[t.begin + k] = w[k]
  BY TokenFacts, TokenText
<1>2. j \in 1..(t.end - t.begin) /\ t.begin + j = i + 1
  BY <1>1
<1>3. DOMAIN w = 1..Len(w)
  BY <1>1, LenProperties
<1>4. \A k \in DOMAIN w : w[k] \notin White
  BY <1>1, TextAssumption
<1> HIDE DEF w, j
<1>5. d.text[t.begin + j] = w[j] /\ w[j] \notin White
  BY <1>1, <1>2, <1>3, <1>4
<1>6. d.text[i + 1] \notin White
  BY <1>2, <1>5
<1> QED
  BY <1>6 DEF WhiteAt, ByteAt

(* White space is a place before it and behind it.                         *)
LEMMA WhitePlace ==
  ASSUME NEW d, LineInv(d), NEW i \in 0..(Length(d) - 1), WhiteAt(d, i)
  PROVE  Place(d, i) /\ Place(d, i + 1)
<1> DEFINE t == d.text
<1>1. t \in Seq(Byte) /\ Len(t) \in Nat /\ Length(d) = Len(t) /\ Whole(t)
  BY LineFacts DEF Length
<1>2. t[i + 1] \in White
  BY DEF WhiteAt, ByteAt
<1>3. LeadSize[t[i + 1]] = 1
  BY <1>2, TextAssumption
<1> HIDE DEF t
<1>4. i \in 0..(Len(t) - 1)
  BY <1>1
<1>5. Aligned(t, i)
  BY <1>1, <1>3, <1>4, Leads
<1>6. Steps(t, i)
  BY <1>1, <1>4, <1>5, WholeIs
<1>7. Aligned(t, i + 1)
  BY <1>3, <1>6 DEF Steps
<1>8. ASSUME NEW x \in d.tokens
      PROVE  /\ i <= x.begin \/ i >= x.end
             /\ i + 1 <= x.begin \/ i + 1 >= x.end
  <2>1. x.begin \in Nat /\ x.end \in Nat
    BY TokenFacts
  <2>2. i \notin x.begin..(x.end - 1)
    BY TokenBytes
  <2> QED
    BY <1>1, <1>4, <2>1, <2>2
<1>9. Outside(d, i) /\ Outside(d, i + 1)
  BY <1>8 DEF Outside
<1>10. i \in 0..Length(d) /\ i + 1 \in 0..Length(d)
  BY <1>1
<1> QED
  BY <1>5, <1>7, <1>9, <1>10 DEF Place, t

LEMMA EndPlaces ==
  ASSUME NEW d, LineInv(d)
  PROVE  Place(d, 0) /\ Place(d, Length(d))
<1>1. d.text \in Seq(Byte) /\ Length(d) \in Nat /\ Whole(d.text)
  BY LineFacts
<1>2. Aligned(d.text, 0) /\ Aligned(d.text, Length(d))
  BY <1>1, WholeIs DEF Aligned, Length
<1>3. \A x \in d.tokens : x.begin \in Nat /\ x.end <= Length(d) /\ x.end \in Nat
  BY TokenFacts
<1>4. Outside(d, 0) /\ Outside(d, Length(d))
  BY <1>1, <1>3 DEF Outside
<1> QED
  BY <1>1, <1>2, <1>4 DEF Place

LEMMA WordBackPlace ==
  ASSUME NEW d, LineInv(d), NEW p \in 0..Length(d)
  PROVE  Place(d, WordBack(d, p)) /\ WordBack(d, p) \in 0..p
<1> DEFINE q == WordBack(d, p)
<1>1. Length(d) \in Nat /\ p \in Nat
  BY LineFacts
<1>2. q \in 0..p /\ (q = 0 \/ WhiteAt(d, q - 1))
  BY <1>1, WordBackIs
<1> HIDE DEF q
<1>3. CASE q = 0
  BY <1>2, <1>3, EndPlaces DEF q
<1>4. CASE q # 0
  <2>1. q - 1 \in 0..(Length(d) - 1) /\ WhiteAt(d, q - 1) /\ q - 1 + 1 = q
    BY <1>1, <1>2, <1>4
  <2>2. Place(d, q - 1 + 1)
    BY <2>1, WhitePlace
  <2>3. Place(d, q)
    BY <2>1, <2>2
  <2> QED
    BY <1>2, <2>3 DEF q
<1> QED
  BY <1>3, <1>4

LEMMA WhiteBackPlace ==
  ASSUME NEW d, LineInv(d), NEW p, Place(d, p)
  PROVE  Place(d, WhiteBack(d, p)) /\ WhiteBack(d, p) \in 0..p
<1> DEFINE q == WhiteBack(d, p)
<1>1. Length(d) \in Nat /\ p \in Nat /\ p \in 0..Length(d)
  BY LineFacts DEF Place
<1>2. q \in 0..p /\ \A i \in q..(p - 1) : WhiteAt(d, i)
  BY <1>1, WhiteBackIs
<1> HIDE DEF q
<1>3. CASE q = p
  BY <1>2, <1>3 DEF q
<1>4. CASE q # p
  <2>1. q \in q..(p - 1) /\ q \in 0..(Length(d) - 1)
    BY <1>1, <1>2, <1>4
  <2>2. Place(d, q)
    BY <1>2, <2>1, WhitePlace
  <2> QED
    BY <1>2, <2>2 DEF q
<1> QED
  BY <1>3, <1>4

LEMMA WordAheadPlace ==
  ASSUME NEW d, LineInv(d), NEW p \in 0..Length(d)
  PROVE  Place(d, WordAhead(d, p)) /\ WordAhead(d, p) \in p..Length(d)
<1> DEFINE q == WordAhead(d, p)
<1>1. Length(d) \in Nat /\ p \in Nat
  BY LineFacts
<1>2. q \in p..Length(d) /\ (q = Length(d) \/ WhiteAt(d, q))
  BY <1>1, WordAheadIs
<1> HIDE DEF q
<1>3. CASE q = Length(d)
  BY <1>2, <1>3, EndPlaces DEF q
<1>4. CASE q # Length(d)
  <2>1. q \in 0..(Length(d) - 1)
    BY <1>1, <1>2, <1>4
  <2>2. Place(d, q)
    BY <1>2, <1>4, <2>1, WhitePlace
  <2> QED
    BY <1>2, <2>2 DEF q
<1> QED
  BY <1>3, <1>4

LEMMA WhiteAheadPlace ==
  ASSUME NEW d, LineInv(d), NEW p, Place(d, p)
  PROVE  Place(d, WhiteAhead(d, p)) /\ WhiteAhead(d, p) \in p..Length(d)
<1> DEFINE q == WhiteAhead(d, p)
<1>1. Length(d) \in Nat /\ p \in Nat /\ p \in 0..Length(d)
  BY LineFacts DEF Place
<1>2. q \in p..Length(d) /\ \A i \in p..(q - 1) : WhiteAt(d, i)
  BY <1>1, WhiteAheadIs
<1> HIDE DEF q
<1>3. CASE q = p
  BY <1>2, <1>3 DEF q
<1>4. CASE q # p
  <2>1. q - 1 \in p..(q - 1) /\ q - 1 \in 0..(Length(d) - 1) /\ q - 1 + 1 = q
    BY <1>1, <1>2, <1>4
  <2>2. Place(d, q - 1 + 1)
    BY <1>2, <2>1, WhitePlace
  <2>3. Place(d, q)
    BY <2>1, <2>2
  <2> QED
    BY <1>2, <2>3 DEF q
<1> QED
  BY <1>3, <1>4

LEMMA PrevPosPlace ==
  ASSUME NEW d, LineInv(d), NEW p, Place(d, p)
  PROVE  /\ PrevPos(d, p) \in 0..p /\ Aligned(d.text, PrevPos(d, p))
         /\ TokensEnding(d, p) = {} => Place(d, PrevPos(d, p))
<1> DEFINE n == Length(d)
           Q == {r \in 0..(p - 1) : r = 0 \/ LeadSize[ByteAt(d, r)] # 0}
           q == PrevPos(d, p)
<1>1. n \in Nat /\ p \in 0..n /\ p \in Nat /\ n = Len(d.text)
  BY LineFacts DEF Place, Length
<1>2. CASE p = 0
  <2>1. q = 0
    BY <1>2 DEF PrevPos
  <2> QED
    BY <1>1, <2>1, EndPlaces DEF Place
<1>3. CASE p # 0
  <2>1. q = Max(Q)
    BY <1>3 DEF PrevPos
  <2>2. 0 \in Q /\ Q \in SUBSET (0..n)
    BY <1>1, <1>3
  <2>3. \A r \in 0..(p - 1) : r \in Q <=> r = 0 \/ LeadSize[d.text[r + 1]] # 0
    BY DEF ByteAt
  <2>4. \A r \in Q : r \in 0..(p - 1)
    OBVIOUS
  <2> HIDE DEF Q, q, n
  <2>5. q \in Q /\ \A r \in Q : r <= q
    <3>1. Q # {}
      BY <2>2
    <3> QED
      BY <1>1, <2>1, <2>2, <3>1, MaxIs
  <2>6. q \in 0..(p - 1) /\ (q = 0 \/ LeadSize[d.text[q + 1]] # 0)
    BY <2>3, <2>4, <2>5
  <2>7. Aligned(d.text, q)
    <3>1. Aligned(d.text, 0)
      BY EndPlaces DEF Place
    <3>2. CASE q = 0
      BY <3>1, <3>2
    <3>3. CASE q # 0
      BY <2>6, <3>3 DEF Aligned
    <3> QED
      BY <3>2, <3>3
  <2>8. ASSUME TokensEnding(d, p) = {}, NEW x \in d.tokens PROVE q <= x.begin \/ q >= x.end
    <3>1. x.begin \in Nat /\ x.end \in Nat /\ x.begin < x.end /\ Aligned(d.text, x.end)
      BY TokenFacts
    <3>2. x.end # p
      BY <2>8 DEF TokensEnding
    <3>3. p <= x.begin \/ p >= x.end
      BY DEF Place, Outside
    <3>4. CASE x.end < p
      <4>1. x.end \in 0..(p - 1) /\ x.end # Len(d.text)
        BY <1>1, <3>1, <3>4
      <4>2. LeadSize[d.text[x.end + 1]] # 0
        BY <3>1, <4>1 DEF Aligned
      <4>3. x.end <= q
        BY <2>3, <2>5, <4>1, <4>2
      <4> QED
        BY <2>6, <3>1, <4>3
    <3> QED
      BY <1>1, <2>6, <3>1, <3>2, <3>3, <3>4
  <2>9. q \in 0..p /\ q \in 0..n
    BY <1>1, <2>6
  <2> QED
    BY <2>7, <2>8, <2>9 DEF Place, Outside, q, n
<1> QED
  BY <1>2, <1>3

LEMMA NextPosPlace ==
  ASSUME NEW d, LineInv(d), NEW p, Place(d, p), TokensStarting(d, p) = {}
  PROVE  Place(d, NextPos(d, p))
<1> DEFINE t == d.text
           n == Len(t)
           q == NextPos(d, p)
           k == LeadSize[t[p + 1]]
<1>1. n \in Nat /\ p \in 0..n /\ p \in Nat /\ Length(d) = n /\ t \in Seq(Byte) /\ Aligned(t, p)
      /\ Whole(t)
  BY LineFacts DEF Place, Length
<1>2. CASE p >= n
  <2>1. q = Length(d)
    BY <1>1, <1>2 DEF NextPos
  <2> QED
    BY <2>1, EndPlaces
<1>3. CASE p < n
  <2>0. p \in 0..(Len(t) - 1)
    BY <1>1, <1>3
  <2>1. q = p + CodepointSize(t, p)
    BY <1>1, <1>3 DEF NextPos
  <2>2. Steps(t, p)
    <3> HIDE DEF t
    <3> QED
      BY <1>1, <2>0, WholeIs
  <2>3. CodepointSize(t, p) = k
    <3> HIDE DEF t
    <3>1. CodepointSize(t, p) = LeadSize[t[p + 1]]
      BY <1>1, <2>0, <2>2, CodepointIs
    <3> QED
      BY <3>1
  <2>4. q = p + k /\ k \in 1..4 /\ p + k <= n /\ Aligned(t, p + k)
    BY <2>1, <2>2, <2>3 DEF Steps
  <2>5. ASSUME NEW x \in d.tokens PROVE q <= x.begin \/ q >= x.end
    <3>1. x.begin \in Nat /\ x.end \in Nat /\ x.begin < x.end /\ x.end <= n /\ Aligned(t, x.begin)
      BY TokenFacts DEF Length
    <3>2. x.begin # p
      BY DEF TokensStarting
    <3>3. p <= x.begin \/ p >= x.end
      BY DEF Place, Outside
    <3>4. CASE p < x.begin
      <4>1. x.begin \in (p + 1)..Len(t)
        BY <1>1, <3>1, <3>4
      <4> DEFINE b == x.begin
      <4>2. b \in (p + 1)..Len(t) /\ Aligned(t, b)
        BY <3>1, <4>1
      <4> HIDE DEF t, b
      <4>3. p + LeadSize[t[p + 1]] <= b
        BY <1>1, <2>0, <2>2, <4>2, StepStaysBehind
      <4> QED
        BY <2>4, <4>3 DEF b
    <3> HIDE DEF q, k, n
    <3> QED
      BY <1>1, <2>4, <3>1, <3>2, <3>3, <3>4
  <2> HIDE DEF q, k
  <2>6. q \in 0..Length(d) /\ Aligned(d.text, q)
    BY <1>1, <2>4
  <2>7. Outside(d, q)
    BY <2>5 DEF Outside
  <2>8. Place(d, q)
    BY <2>6, <2>7 DEF Place
  <2> QED
    BY <2>8 DEF q
<1> QED
  BY <1>1, <1>2, <1>3

LEMMA RemovedTo ==
  ASSUME NEW d, LineInv(d), NEW p, NEW q, Place(d, p), q \in 0..p, Aligned(d.text, q)
  PROVE  LineInv(Removed(d, q, p))
<1>1. p \in 0..Length(d) /\ Length(d) \in Nat /\ Aligned(d.text, p)
  BY LineFacts DEF Place
<1>2. q \in 0..Length(d) /\ p \in q..Length(d)
  BY <1>1
<1> QED
  BY <1>1, <1>2, RemovedKeeps

LEMMA DeletionsKeep ==
  ASSUME NEW d, LineInv(d)
  PROVE  LineInv(DeletedPrev(d)) /\ LineInv(DeletedToStart(d)) /\ LineInv(DeletedPrevWord(d))
<1>1. Place(d, d.pos) /\ d.pos \in 0..Length(d) /\ Length(d) \in Nat
  BY LineFacts
<1>2. LineInv(DeletedPrev(d))
  <2>1. CASE d.pos = 0
    BY <2>1 DEF DeletedPrev
  <2>2. CASE d.pos # 0 /\ TokensEnding(d, d.pos) # {}
    <3> DEFINE t == CHOOSE u \in TokensEnding(d, d.pos) : TRUE
    <3>1. t \in d.tokens
      BY <2>2 DEF TokensEnding
    <3>2. DeletedPrev(d) = Removed(d, t.begin, t.end)
      BY <2>2 DEF DeletedPrev
    <3> HIDE DEF t
    <3>3. /\ Place(d, t.end) /\ t.begin \in 0..t.end /\ Aligned(d.text, t.begin)
      <4>1. t.begin \in Nat /\ t.end \in Nat /\ t.begin < t.end
        BY <3>1, TokenFacts
      <4> QED
        BY <3>1, <4>1, TokenFacts
    <3>4. LineInv(Removed(d, t.begin, t.end))
      BY <3>3, RemovedTo
    <3> QED
      BY <3>2, <3>4
  <2>3. CASE d.pos # 0 /\ TokensEnding(d, d.pos) = {}
    <3>1. DeletedPrev(d) = Removed(d, PrevPos(d, d.pos), d.pos)
      BY <2>3 DEF DeletedPrev
    <3>2. PrevPos(d, d.pos) \in 0..d.pos /\ Aligned(d.text, PrevPos(d, d.pos))
      BY <1>1, PrevPosPlace
    <3> QED
      BY <1>1, <3>1, <3>2, RemovedTo
  <2> QED
    BY <2>1, <2>2, <2>3
<1>3. LineInv(DeletedToStart(d))
  <2>1. 0 \in 0..d.pos /\ Aligned(d.text, 0)
    BY <1>1, EndPlaces DEF Place
  <2> QED
    BY <1>1, <2>1, RemovedTo DEF DeletedToStart
<1>4. LineInv(DeletedPrevWord(d))
  <2> DEFINE p == WhiteBack(d, d.pos)
             q == WordBack(d, p)
  <2>1. Place(d, p) /\ p \in 0..d.pos
    BY <1>1, WhiteBackPlace
  <2> HIDE DEF p
  <2>2. p \in 0..Length(d)
    BY <2>1 DEF Place
  <2>3. Place(d, q) /\ q \in 0..p
    BY <2>2, WordBackPlace
  <2> HIDE DEF q
  <2>4. q \in 0..d.pos /\ Aligned(d.text, q)
    BY <1>1, <2>1, <2>3 DEF Place
  <2>5. LineInv(Removed(d, q, d.pos))
    BY <1>1, <2>4, RemovedTo
  <2> QED
    BY <2>5 DEF DeletedPrevWord, p, q
<1> QED
  BY <1>2, <1>3, <1>4

LEMMA TokenEdges ==
  ASSUME NEW d, LineInv(d), NEW p, NEW q
  PROVE  /\ (TokensEnding(d, p) = {} => Place(d, q)) => Place(d, TokenStartOr(d, p, q))
         /\ (TokensStarting(d, p) = {} => Place(d, q)) => Place(d, TokenEndOr(d, p, q))
<1>1. ASSUME TokensEnding(d, p) # {} PROVE Place(d, TokenStartOr(d, p, q))
  <2>1. (CHOOSE t \in TokensEnding(d, p) : TRUE) \in d.tokens
    BY <1>1 DEF TokensEnding
  <2> QED
    BY <1>1, <2>1, TokenFacts DEF TokenStartOr
<1>2. ASSUME TokensEnding(d, p) = {}, Place(d, q) PROVE Place(d, TokenStartOr(d, p, q))
  BY <1>2 DEF TokenStartOr
<1>3. ASSUME TokensStarting(d, p) # {} PROVE Place(d, TokenEndOr(d, p, q))
  <2>1. (CHOOSE t \in TokensStarting(d, p) : TRUE) \in d.tokens
    BY <1>3 DEF TokensStarting
  <2> QED
    BY <1>3, <2>1, TokenFacts DEF TokenEndOr
<1>4. ASSUME TokensStarting(d, p) = {}, Place(d, q) PROVE Place(d, TokenEndOr(d, p, q))
  BY <1>4 DEF TokenEndOr
<1>5. (TokensEnding(d, p) = {} => Place(d, q)) => Place(d, TokenStartOr(d, p, q))
  BY <1>1, <1>2
<1>6. (TokensStarting(d, p) = {} => Place(d, q)) => Place(d, TokenEndOr(d, p, q))
  BY <1>3, <1>4
<1> QED
  BY <1>5, <1>6

LEMMA MovesKeep ==
  ASSUME NEW d, LineInv(d)
  PROVE  /\ LineInv(MovedLeft(d)) /\ LineInv(MovedRight(d)) /\ LineInv(MovedPrevWord(d))
         /\ LineInv(MovedNextWord(d)) /\ LineInv(MovedHome(d)) /\ LineInv(MovedEnd(d))
<1>1. Place(d, d.pos) /\ d.pos \in 0..Length(d) /\ Length(d) \in Nat
  BY LineFacts
<1>2. LineInv(MovedLeft(d))
  <2>1. TokensEnding(d, d.pos) = {} => Place(d, PrevPos(d, d.pos))
    BY <1>1, PrevPosPlace
  <2>2. Place(d, TokenStartOr(d, d.pos, PrevPos(d, d.pos)))
    BY <2>1, TokenEdges
  <2> QED
    BY <2>2, MovedToKeeps DEF MovedLeft
<1>3. LineInv(MovedRight(d))
  <2>1. TokensStarting(d, d.pos) = {} => Place(d, NextPos(d, d.pos))
    BY <1>1, NextPosPlace
  <2>2. Place(d, TokenEndOr(d, d.pos, NextPos(d, d.pos)))
    BY <2>1, TokenEdges
  <2> QED
    BY <2>2, MovedToKeeps DEF MovedRight
<1>4. LineInv(MovedPrevWord(d))
  <2> DEFINE p == WhiteBack(d, d.pos)
  <2>1. Place(d, p) /\ p \in 0..Length(d)
    BY <1>1, WhiteBackPlace DEF Place
  <2>2. MovedPrevWord(d) = MovedTo(d, TokenStartOr(d, p, WordBack(d, p)))
    BY DEF MovedPrevWord
  <2> HIDE DEF p
  <2>3. Place(d, WordBack(d, p))
    BY <2>1, WordBackPlace
  <2>4. Place(d, TokenStartOr(d, p, WordBack(d, p)))
    BY <2>3, TokenEdges
  <2> QED
    BY <2>2, <2>4, MovedToKeeps
<1>5. LineInv(MovedNextWord(d))
  <2>1. Place(d, WordAhead(d, d.pos))
    BY <1>1, WordAheadPlace
  <2>2. Place(d, TokenEndOr(d, d.pos, WordAhead(d, d.pos)))
    BY <2>1, TokenEdges
  <2>3. Place(d, WhiteAhead(d, TokenEndOr(d, d.pos, WordAhead(d, d.pos))))
    BY <2>2, WhiteAheadPlace
  <2> QED
    BY <2>3, MovedToKeeps DEF MovedNextWord
<1>6. LineInv(MovedHome(d)) /\ LineInv(MovedEnd(d))
  BY EndPlaces, MovedToKeeps DEF MovedHome, MovedEnd
<1> QED
  BY <1>2, <1>3, <1>4, <1>5, <1>6

-----------------------------------------------------------------------------
\* What the manager suggests

LEMMA InOrderIs ==
  ASSUME NEW b \in Nat, NEW I \in SUBSET (1..b), NEW s, s = InOrder(I)
  PROVE  s \in Seq(I) /\ Len(s) = Cardinality(I) /\ Cardinality(I) \in Nat
<1> DEFINE r(n) == CHOOSE i \in I : Cardinality({j \in I : j <= i}) = n
<1>1. IsFiniteSet(I)
  <2>1. IsFiniteSet(1..b)
    BY FS_Interval
  <2> QED
    BY <2>1, FS_Subset
<1>2. Cardinality(I) \in Nat
  BY <1>1, FS_CardinalityType
<1>3. \A n \in 1..Cardinality(I) : r(n) \in I
  BY EveryRank
<1>4. s = [n \in 1..Cardinality(I) |-> r(n)]
  BY DEF InOrder
<1> HIDE DEF r
<1>5. s \in [1..Cardinality(I) -> I]
  BY <1>3, <1>4
<1> QED
  BY <1>2, <1>5, SeqDef, LenProperties

LEMMA CommandsAre == Command = 1..Len(Table) /\ Len(Table) \in Nat
  BY TextAssumption, LenProperties DEF Command

LEMMA CommandsNamedIs ==
  ASSUME NEW prefix
  PROVE  CommandsNamed(prefix) \in Seq(Command)
<1> DEFINE I == {c \in Command : IsPrefix(prefix, Table[c].name)}
<1>1. I \in SUBSET (1..Len(Table)) /\ Len(Table) \in Nat /\ I \in SUBSET Command
  BY CommandsAre
<1>2. CommandsNamed(prefix) = InOrder(I)
  BY DEF CommandsNamed
<1> HIDE DEF I
<1>3. CommandsNamed(prefix) \in Seq(I)
  BY <1>1, <1>2, InOrderIs
<1>4. /\ Len(CommandsNamed(prefix)) \in Nat
      /\ CommandsNamed(prefix) \in [1..Len(CommandsNamed(prefix)) -> I]
  BY <1>3, LenProperties
<1>5. CommandsNamed(prefix) \in [1..Len(CommandsNamed(prefix)) -> Command]
  BY <1>1, <1>4
<1> QED
  BY <1>4, <1>5, SeqDef

(* Words the manager may suggest.                                          *)
WordList(s) == s \in Seq(Seq(Byte)) /\ \A i \in DOMAIN s : Whole(s[i])

Lent(ps, qs) == ps \in PortLists \cup {<<>>} /\ qs \in ProtocolLists \cup {<<>>}

LEMMA ValuesAre ==
  ASSUME NEW c \in Command, NEW ps, NEW qs, Lent(ps, qs)
  PROVE  WordList(Values(c, ps, qs))
<1>1. WordList(<<>>)
  BY DEF WordList
<1>2. WordList(ps)
  BY <1>1, ManagerAssumption DEF Lent, WordList
<1>3. WordList(qs)
  BY <1>1, ManagerAssumption DEF Lent, WordList
<1>4. WordList(Table[c].args)
  BY EntryIs, ManagerAssumption DEF WordList
<1>5. CASE Table[c].kind = "connect"
  BY <1>2, <1>5 DEF Values
<1>6. CASE Table[c].kind = "load"
  BY <1>3, <1>6 DEF Values
<1>7. CASE Table[c].kind # "connect" /\ Table[c].kind # "load"
  BY <1>4, <1>7 DEF Values
<1> QED
  BY <1>5, <1>6, <1>7

LEMMA ValuesStartingAre ==
  ASSUME NEW c \in Command, NEW ps, NEW qs, Lent(ps, qs), NEW prefix
  PROVE  WordList(ValuesStarting(prefix, c, ps, qs))
<1> DEFINE vs == Values(c, ps, qs)
           I == {i \in DOMAIN vs : IsPrefix(prefix, vs[i])}
           m == InOrder(I)
           k == Min({MaxArgs, Len(m)})
           s == [n \in 1..k |-> vs[m[n]]]
<1>1. ValuesStarting(prefix, c, ps, qs) = s
  BY DEF ValuesStarting
<1>2. WordList(vs)
  BY ValuesAre
<1> HIDE DEF vs
<1>3. Len(vs) \in Nat /\ DOMAIN vs = 1..Len(vs) /\ \A i \in DOMAIN vs : vs[i] \in Seq(Byte)
  BY <1>2, LenProperties, ElementOfSeq DEF WordList
<1>4. I \in SUBSET (1..Len(vs))
  BY <1>3
<1>m. m = InOrder(I)
  OBVIOUS
<1> HIDE DEF I, m
<1>5. m \in Seq(I) /\ Len(m) \in Nat
  BY <1>3, <1>4, <1>m, InOrderIs
<1>6. k \in Nat /\ k <= Len(m)
  <2>1. MaxArgs \in Nat
    BY ManagerAssumption
  <2> DEFINE a == MaxArgs
             b == Len(m)
  <2>2. a \in Nat /\ b \in Nat /\ k = Min({a, b})
    BY <1>5, <2>1
  <2> HIDE DEF k, a, b
  <2>3. k = IF a <= b THEN a ELSE b
    BY <2>2, OfTwo
  <2> QED
    BY <2>2, <2>3 DEF b
<1> HIDE DEF k
<1>7. \A n \in 1..k : m[n] \in DOMAIN vs
  <2> TAKE n \in 1..k
  <2>1. n \in 1..Len(m)
    BY <1>5, <1>6
  <2>2. m[n] \in I
    BY <1>5, <2>1, ElementOfSeq
  <2> QED
    BY <1>3, <1>4, <2>2
<1>8. \A n \in 1..k : vs[m[n]] \in Seq(Byte) /\ Whole(vs[m[n]])
  BY <1>2, <1>3, <1>7 DEF WordList
<1>9. s \in [1..k -> Seq(Byte)]
  BY <1>8
<1>10. s \in Seq(Seq(Byte))
  BY <1>6, <1>9, SeqDef
<1>11. \A i \in DOMAIN s : Whole(s[i])
  BY <1>8
<1> HIDE DEF s
<1> QED
  BY <1>1, <1>10, <1>11 DEF WordList

(* The three things the manager may find at the cursor.                    *)
OffersCommands(d, c) ==
  /\ SlashCommands(d) # <<>> /\ SlashCommands(d) \in Seq(Command)
  /\ c.mode = "commandSuggesting"
  /\ c.suggestion = [start |-> WordBack(d, d.pos), end |-> WordAhead(d, d.pos),
                     commands |-> SlashCommands(d), values |-> <<>>, selected |-> 0]

OffersValues(d, c, t, vs) ==
  /\ SlashCommands(d) = <<>> /\ t \in TokensArgued(d)
  /\ WordList(vs) /\ vs # <<>>
  /\ c.mode = "argumentSuggesting"
  /\ c.suggestion = [start |-> ArgumentStart(d, t), end |-> ArgumentEnd(d, t),
                     commands |-> <<>>, values |-> vs, selected |-> 0]

OffersNothing(c) ==
  c.mode \in {"suggestAvailable", "suggestNotAvailable"} /\ c.suggestion = NoSuggestion

LEMMA ContextIs ==
  ASSUME NEW d, LineInv(d), NEW ps, NEW qs, Lent(ps, qs), NEW c, c = Context(d, ps, qs)
  PROVE  OffersCommands(d, c) \/ (\E t, vs : OffersValues(d, c, t, vs)) \/ OffersNothing(c)
<1>1. SlashCommands(d) \in Seq(Command)
  BY CommandsNamedIs DEF SlashCommands
<1>2. CASE SlashCommands(d) # <<>>
  <2>1. c = CommandContext(d, SlashCommands(d))
    BY <1>2 DEF Context, ContextFor
  <2> QED
    BY <1>1, <1>2, <2>1 DEF CommandContext, NoSuggestion, OffersCommands
<1>3. CASE SlashCommands(d) = <<>> /\ TokensArgued(d) # {}
  <2> DEFINE t == CHOOSE u \in TokensArgued(d) : TRUE
             vs == ValuesAt(d, t, ps, qs)
  <2>1. t \in TokensArgued(d)
    BY <1>3
  <2>2. c = ArgumentContext(d, t, vs)
    BY <1>3 DEF Context, ContextFor
  <2> HIDE DEF t
  <2>3. t.command \in Command
    BY <2>1, TokenFacts DEF TokensArgued
  <2>4. WordList(vs)
    BY <2>3, ValuesStartingAre DEF ValuesAt
  <2> HIDE DEF vs
  <2>5. CASE vs = <<>>
    BY <2>2, <2>5 DEF ArgumentContext, OffersNothing
  <2>6. CASE vs # <<>>
    <3>1. OffersValues(d, c, t, vs)
      BY <1>3, <2>1, <2>2, <2>4, <2>6 DEF ArgumentContext, NoSuggestion, OffersValues
    <3> QED
      BY <3>1
  <2> QED
    BY <2>5, <2>6
<1>4. CASE SlashCommands(d) = <<>> /\ TokensArgued(d) = {}
  <2>1. c = NoContext(d)
    BY <1>4 DEF Context, ContextFor
  <2> QED
    BY <2>1 DEF NoContext, OffersNothing
<1> QED
  BY <1>2, <1>3, <1>4

-----------------------------------------------------------------------------
\* The word a suggestion is about

(* Bytes a suggestion may take the place of: no token's among them.        *)
Replaceable(d, b, e) ==
  /\ b \in 0..Length(d) /\ e \in b..Length(d) /\ d.pos \in b..e
  /\ Aligned(d.text, b) /\ Aligned(d.text, e)
  /\ Touched(d, b, e) = {}
  /\ b = 0 \/ WhiteAt(d, b - 1)

LEMMA PrefixIs ==
  ASSUME NEW s \in Seq(Byte), NEW t \in Seq(Byte), IsPrefix(s, t), NEW i \in 1..Len(s)
  PROVE  i \in DOMAIN t /\ t[i] = s[i]
<1>1. Len(s) \in Nat /\ Len(t) \in Nat /\ DOMAIN t = 1..Len(t)
  BY LenProperties
<1>2. Len(s) <= Len(t) /\ SubSeq(s, 1, Len(s)) = SubSeq(t, 1, Len(s))
  BY DEF IsPrefix
<1> DEFINE n == Len(s)
<1>3. 0 \in Nat /\ n \in 0..Len(s) /\ n \in 0..Len(t) /\ 0 + 1 = 1
  BY <1>1, <1>2
<1>4. /\ \A j \in 1..(n - 0) : SubSeq(s, 0 + 1, n)[j] = s[0 + j]
      /\ \A j \in 1..(n - 0) : SubSeq(t, 0 + 1, n)[j] = t[0 + j]
  <2> HIDE DEF n
  <2> QED
    BY <1>3, SliceIs
<1>5. i \in 1..(n - 0) /\ 0 + i = i
  BY <1>1
<1>6. SubSeq(s, 0 + 1, n)[i] = s[i] /\ SubSeq(t, 0 + 1, n)[i] = t[i]
  BY <1>4, <1>5
<1> QED
  BY <1>1, <1>2, <1>3, <1>6

LEMMA CommandsNamedLike ==
  ASSUME NEW prefix, CommandsNamed(prefix) # <<>>
  PROVE  \E c \in Command : IsPrefix(prefix, Table[c].name)
<1> DEFINE I == {c \in Command : IsPrefix(prefix, Table[c].name)}
           s == CommandsNamed(prefix)
<1>1. I \in SUBSET (1..Len(Table)) /\ Len(Table) \in Nat /\ s = InOrder(I)
  BY CommandsAre DEF CommandsNamed
<1>2. s # <<>> /\ \A c \in I : c \in Command /\ IsPrefix(prefix, Table[c].name)
  OBVIOUS
<1> HIDE DEF I, s
<1>3. s \in Seq(I)
  BY <1>1, InOrderIs
<1>4. Len(s) \in Nat /\ Len(s) # 0
  BY <1>2, <1>3, EmptySeq, LenProperties
<1>5. s[1] \in I
  <2>1. 1 \in 1..Len(s)
    BY <1>4
  <2> QED
    BY <1>3, <2>1, ElementOfSeq
<1> QED
  BY <1>2, <1>5

(* A slash word whose commands are suggested is not part of any token.     *)
LEMMA SlashWordIs ==
  ASSUME NEW d, LineInv(d), SlashCommands(d) # <<>>
  PROVE  RoomForToken(d) /\ Replaceable(d, WordBack(d, d.pos), WordAhead(d, d.pos))
<1> DEFINE b == WordBack(d, d.pos)
           e == WordAhead(d, d.pos)
           prefix == Bytes(d, b + 1, e)
<1>1. /\ RoomForToken(d) /\ b < d.pos /\ ByteAt(d, b) = Slash
      /\ CommandsNamed(prefix) # <<>>
  BY DEF SlashCommands
<1>2. d.pos \in 0..Length(d) /\ Length(d) \in Nat /\ d.text \in Seq(Byte) /\ Length(d) = Len(d.text)
  BY LineFacts DEF Length
<1>3. /\ Place(d, b) /\ b \in 0..d.pos /\ Place(d, e) /\ e \in d.pos..Length(d)
  BY <1>2, WordBackPlace, WordAheadPlace
<1>4. b = 0 \/ WhiteAt(d, b - 1)
  <2>1. d.pos \in Nat
    BY <1>2
  <2> QED
    BY <2>1, WordBackIs
<1>p. prefix = SubSeq(d.text, b + 1 + 1, e)
  BY DEF Bytes
<1> HIDE DEF b, e, prefix
<1>5. PICK c \in Command : IsPrefix(prefix, Table[c].name)
  BY <1>1, CommandsNamedLike
<1>6. ASSUME NEW t \in d.tokens, t.end > b, t.begin < e PROVE FALSE
  <2>1. /\ t.begin \in Nat /\ t.end \in Nat /\ t.begin < t.end /\ t.end <= Length(d)
        /\ t.command \in Command
    BY TokenFacts
  <2>2. b <= t.begin
    BY <1>2, <1>3, <1>6, <2>1 DEF Place, Outside
  <2> DEFINE first == Table[t.command].token[1]
  <2>3. d.text[t.begin + 1] = first
    <3>1. 1 \in 1..(t.end - t.begin)
      BY <2>1
    <3> QED
      BY <3>1, TokenText
  <2>4. first # Slash /\ \A i \in DOMAIN Table[c].name : Table[c].name[i] # first
    BY <2>1, ManagerAssumption
  <2> HIDE DEF first
  <2>5. b < t.begin
    <3>1. t.begin # b
      BY <1>1, <2>3, <2>4 DEF ByteAt
    <3> QED
      BY <1>2, <1>3, <2>1, <2>2, <3>1
  <2> DEFINE i == t.begin - b
  <2>6. /\ b + 1 \in Nat /\ e \in (b + 1)..Len(d.text)
        /\ i \in 1..(e - (b + 1)) /\ (b + 1) + i = t.begin + 1
    <3>1. b \in Nat /\ e \in Nat /\ e <= Len(d.text) /\ Len(d.text) \in Nat
      BY <1>2, <1>3
    <3>2. t.begin \in Nat /\ b < t.begin /\ t.begin < e
      BY <1>6, <2>1, <2>5
    <3>3. b + 1 \in Nat /\ e \in (b + 1)..Len(d.text)
      BY <3>1, <3>2
    <3>4. i \in 1..(e - (b + 1)) /\ (b + 1) + i = t.begin + 1
      BY <3>1, <3>2
    <3> QED
      BY <3>3, <3>4
  <2> HIDE DEF i
  <2>7. prefix \in Seq(Byte) /\ Len(prefix) = e - (b + 1) /\ prefix[i] = d.text[(b + 1) + i]
    BY <1>2, <1>p, <2>6, SliceIs
  <2>8. prefix[i] = first
    BY <2>3, <2>6, <2>7
  <2>9. i \in DOMAIN Table[c].name /\ Table[c].name[i] = prefix[i]
    BY <1>5, <2>6, <2>7, EntryIs, PrefixIs
  <2> QED
    BY <2>4, <2>8, <2>9
<1>7. Touched(d, b, e) = {}
  BY <1>6 DEF Touched
<1>8. Replaceable(d, b, e)
  <2>1. b \in 0..Length(d) /\ e \in b..Length(d) /\ d.pos \in b..e
    BY <1>2, <1>3
  <2> QED
    BY <1>3, <1>4, <1>7, <2>1 DEF Replaceable, Place
<1> QED
  BY <1>1, <1>8 DEF b, e

LEMMA RegionIs ==
  ASSUME NEW d, LineInv(d), NEW t \in d.tokens, NEW r, r = RegionEnd(d, t)
  PROVE  /\ r \in t.end..Length(d) /\ Place(d, r)
         /\ \A u \in d.tokens : u = t \/ u.end <= t.begin \/ (u.begin > t.begin /\ r <= u.begin)
         /\ r = Length(d) \/ \E u \in d.tokens : u.begin > t.begin /\ r = u.begin
<1> DEFINE V == {v \in d.tokens : v.begin > t.begin}
           R == {Length(d)} \cup {u.begin : u \in V}
<1>1. Length(d) \in Nat
  BY LineFacts
<1>2. \A u \in d.tokens : /\ u.begin \in Nat /\ u.end \in Nat /\ u.begin < u.end
                          /\ u.end <= Length(d) /\ Place(d, u.begin)
  BY TokenFacts
<1>3. \A u \in d.tokens : u # t => u.end <= t.begin \/ t.end <= u.begin
  BY LineFacts DEF Apart
<1>4. \A u \in V : u \in d.tokens /\ u.begin > t.begin
  OBVIOUS
<1>5. \A u \in d.tokens : u.begin > t.begin => u \in V
  OBVIOUS
<1>6. R \in SUBSET Nat /\ R # {} /\ Length(d) \in R /\ \A u \in V : u.begin \in R
  BY <1>1, <1>2, <1>4
<1>7. \A m \in R : m = Length(d) \/ \E u \in V : m = u.begin
  OBVIOUS
<1>8. r = Min(R)
  BY DEF RegionEnd
<1> HIDE DEF R, V
<1>9. r \in R /\ \A m \in R : r <= m
  BY <1>6, <1>8, MinIs
<1>10. r \in Nat /\ r <= Length(d)
  BY <1>6, <1>9
<1>11. r = Length(d) \/ \E u \in d.tokens : u.begin > t.begin /\ r = u.begin
  BY <1>4, <1>7, <1>9
<1>12. Place(d, r)
  BY <1>2, <1>11, EndPlaces
<1>13. r >= t.end
  <2>1. ASSUME NEW u \in d.tokens, u.begin > t.begin PROVE u.begin >= t.end
    <3>1. u # t
      BY <1>2, <2>1
    <3> QED
      BY <1>2, <1>3, <2>1, <3>1
  <2> QED
    BY <1>2, <1>11, <2>1
<1>14. ASSUME NEW u \in d.tokens
       PROVE  u = t \/ u.end <= t.begin \/ (u.begin > t.begin /\ r <= u.begin)
  <2>1. CASE u.begin > t.begin
    BY <1>5, <1>6, <1>9, <2>1
  <2>2. CASE ~(u.begin > t.begin)
    BY <1>2, <1>3, <2>2
  <2> QED
    BY <2>1, <2>2
<1>15. r \in t.end..Length(d)
  BY <1>1, <1>2, <1>10, <1>13
<1> QED
  BY <1>11, <1>12, <1>14, <1>15

(* Nor is the word an argument is suggested for.                           *)
LEMMA ArgumentWordIs ==
  ASSUME NEW d, LineInv(d), NEW t \in TokensArgued(d)
  PROVE  Replaceable(d, ArgumentStart(d, t), ArgumentEnd(d, t))
<1> DEFINE w == WordBack(d, d.pos)
           v == WordAhead(d, d.pos)
           r == RegionEnd(d, t)
           b == ArgumentStart(d, t)
           e == ArgumentEnd(d, t)
<1>1. t \in d.tokens /\ t.end < d.pos /\ d.pos <= r /\ b > t.end
  BY DEF TokensArgued
<1>2. d.pos \in 0..Length(d) /\ Length(d) \in Nat
  BY LineFacts
<1>3. t.begin \in Nat /\ t.end \in Nat /\ t.begin < t.end
  BY <1>1, TokenFacts
<1>4. w \in 0..d.pos /\ Place(d, w) /\ v \in d.pos..Length(d) /\ Place(d, v)
  BY <1>2, WordBackPlace, WordAheadPlace
<1>5. /\ r \in t.end..Length(d) /\ Place(d, r)
      /\ \A u \in d.tokens : u = t \/ u.end <= t.begin \/ (u.begin > t.begin /\ r <= u.begin)
  BY <1>1, RegionIs
<1>6. w = 0 \/ WhiteAt(d, w - 1)
  <2>1. d.pos \in Nat
    BY <1>2
  <2> QED
    BY <2>1, WordBackIs
<1>7. b = Max({t.end, w}) /\ e = Min({r, v})
  BY DEF ArgumentStart, ArgumentEnd
<1> HIDE DEF w, v, r, b, e
<1>8. b = IF t.end >= w THEN t.end ELSE w
  <2> DEFINE x == t.end
  <2>1. x \in Int /\ w \in Int /\ b = Max({x, w})
    BY <1>2, <1>3, <1>4, <1>7
  <2> HIDE DEF x
  <2>2. b = IF x >= w THEN x ELSE w
    BY <2>1, OfTwo
  <2> QED
    BY <2>2 DEF x
<1>9. e = IF r <= v THEN r ELSE v
  <2>1. r \in Int /\ v \in Int
    BY <1>2, <1>3, <1>4, <1>5
  <2> QED
    BY <1>7, <2>1, OfTwo
<1>10. b = w /\ w > t.end
  BY <1>1, <1>2, <1>3, <1>4, <1>8
<1>11. e \in d.pos..Length(d) /\ e <= r /\ Place(d, e)
  BY <1>1, <1>2, <1>4, <1>5, <1>9
<1>12. ASSUME NEW u \in d.tokens, u.end > b, u.begin < e PROVE FALSE
  <2>1. u.begin \in Nat /\ u.end \in Nat /\ u.begin < u.end
    BY TokenFacts
  <2>2. r \in Nat /\ e \in Nat
    BY <1>2, <1>3, <1>5, <1>11
  <2> QED
    BY <1>2, <1>3, <1>4, <1>5, <1>10, <1>11, <1>12, <2>1, <2>2
<1>13. Touched(d, b, e) = {}
  BY <1>12 DEF Touched
<1>14. b \in 0..Length(d) /\ e \in b..Length(d) /\ d.pos \in b..e
  BY <1>2, <1>4, <1>10, <1>11
<1>15. Aligned(d.text, b) /\ Aligned(d.text, e) /\ (b = 0 \/ WhiteAt(d, b - 1))
  BY <1>4, <1>6, <1>10, <1>11 DEF Place
<1>16. Replaceable(d, b, e)
  BY <1>13, <1>14, <1>15 DEF Replaceable
<1> QED
  BY <1>16 DEF b, e

-----------------------------------------------------------------------------
\* Accepting a suggestion

(* n is the line d with the bytes s in the place of those from b up to e,  *)
(* and its cursor behind them.                                             *)
Replacement(d, b, e, s, n) ==
  /\ LineInv(n) /\ SameCommands(n.tokens, d.tokens)
  /\ n.pos = b + Len(s) /\ Length(n) = Length(d) - (e - b) + Len(s)
  /\ Aligned(n.text, b)
  /\ \A i \in 1..b : n.text[i] = d.text[i]
  /\ \A i \in 1..Len(s) : n.text[b + i] = s[i]
  /\ \A i \in (e + 1)..Length(d) : n.text[i - (e - b) + Len(s)] = d.text[i]
  /\ \A x \in n.tokens : x.end <= b \/ b + Len(s) <= x.begin

LEMMA InsertedTokens ==
  ASSUME NEW d, NEW s, NEW n, n = Inserted(d, s)
  PROVE  \A x \in n.tokens : \E y \in d.tokens :
           x = IF y.begin >= d.pos THEN Moved(y, Len(s)) ELSE y
<1> DEFINE g(y) == IF y.begin >= d.pos THEN Moved(y, Len(s)) ELSE y
<1>1. n.tokens = {g(y) : y \in d.tokens}
  BY DEF Inserted
<1>2. \A x \in n.tokens : \E y \in d.tokens : x = g(y)
  <2> HIDE DEF g
  <2> QED
    BY <1>1
<1> QED
  BY <1>2

LEMMA ReplacedIs ==
  ASSUME NEW d, LineInv(d), NEW b, NEW e, Replaceable(d, b, e),
         NEW s \in Seq(Byte), Whole(s), Length(d) - (e - b) + Len(s) < BufSize,
         NEW n, n = Inserted(Removed(d, b, e), s)
  PROVE  Replacement(d, b, e, s, n)
<1> DEFINE t == d.text
           r == Removed(d, b, e)
           u == r.text
           v == n.text
           k == Len(s)
<1>1. /\ b \in 0..Length(d) /\ e \in b..Length(d) /\ d.pos \in b..e
      /\ Aligned(t, b) /\ Aligned(t, e) /\ Touched(d, b, e) = {}
  BY DEF Replaceable
<1>2. t \in Seq(Byte) /\ Whole(t) /\ Length(d) = Len(t) /\ Len(t) \in Nat /\ k \in Nat
  BY LineFacts, LenProperties DEF Length
<1>3. RemovedOnly(d, b, e, r)
  BY <1>1, RemovedClean
<1> HIDE DEF r
<1>4. /\ LineInv(r) /\ u = CutOut(t, b, e) /\ r.pos = b /\ SameCommands(r.tokens, d.tokens)
      /\ \A x \in r.tokens : x.end <= b \/ b <= x.begin
  BY <1>3 DEF RemovedOnly
<1>5. n = Inserted(r, s)
  BY DEF r
<1>6. b \in Nat /\ e \in Nat /\ e \in b..Len(t)
  BY <1>1, <1>2
<1>u. r.text = u /\ Len(s) = k
  OBVIOUS
<1> HIDE DEF t, u, k
<1>7. Lacks(t, b, e, u)
  BY <1>2, <1>4, <1>6, CutOutIs
<1>8. u \in Seq(Byte) /\ Len(u) = Len(t) - (e - b) /\ Len(u) \in Nat
  BY <1>7 DEF Lacks
<1>9. Whole(u) /\ (Aligned(u, b) <=> Aligned(t, b))
  <2>1. b \in 0..b
    BY <1>6
  <2> QED
    BY <1>1, <1>2, <1>4, <1>6, <2>1, CutOutWhole
<1>10. FitsIn(r, s)
  BY <1>2, <1>8, <1>u DEF FitsIn, Length
<1>11. LineInv(n) /\ v = Spliced(u, b, s) /\ n.pos = b + k /\ SameCommands(n.tokens, r.tokens)
  BY <1>4, <1>5, <1>10, <1>u, InsertedKeeps
<1>12. n.text = v
  OBVIOUS
<1>13. \A x \in n.tokens : \E y \in r.tokens :
         x = IF y.begin >= r.pos THEN Moved(y, Len(s)) ELSE y
  BY <1>5, InsertedTokens
<1> HIDE DEF v
<1>14. b \in 0..Len(u)
  BY <1>6, <1>8, <1>2
<1>15. Holds(u, b, s, v)
  BY <1>8, <1>11, <1>14, SplicedIs
<1>16. Aligned(v, b)
  <2>1. b \in 0..b
    BY <1>6
  <2>2. Aligned(v, b) <=> Aligned(u, b)
    BY <1>1, <1>8, <1>9, <1>11, <1>14, <2>1, SplicedWhole
  <2> QED
    BY <1>1, <1>9, <2>2
<1>17. /\ Len(v) = Len(u) + k
       /\ \A i \in 1..b : v[i] = u[i]
       /\ \A i \in 1..k : v[b + i] = s[i]
       /\ \A i \in (b + 1)..Len(u) : v[i + k] = u[i]
  BY <1>15, <1>u DEF Holds
<1>18. /\ \A i \in 1..b : u[i] = t[i]
       /\ \A i \in (e + 1)..Len(t) : u[i - (e - b)] = t[i]
  BY <1>7 DEF Lacks
<1>19. ASSUME NEW i \in (e + 1)..Len(t) PROVE v[i - (e - b) + k] = t[i]
  <2> DEFINE j == i - (e - b)
  <2>1. j \in (b + 1)..Len(u)
    BY <1>2, <1>6, <1>8
  <2>2. u[j] = t[i]
    BY <1>18
  <2> HIDE DEF j
  <2>3. v[j + k] = u[j]
    BY <1>17, <2>1
  <2>4. v[j + k] = t[i]
    BY <2>2, <2>3
  <2> QED
    BY <2>4 DEF j
<1>20. SameCommands(n.tokens, d.tokens)
  BY <1>4, <1>11 DEF SameCommands
<1>21. ASSUME NEW x \in n.tokens PROVE x.end <= b \/ b + k <= x.begin
  <2>1. PICK y \in r.tokens : x = IF y.begin >= b THEN Moved(y, k) ELSE y
    BY <1>4, <1>13, <1>u
  <2>2. y.begin \in Nat /\ y.end \in Nat
    BY <1>4, TokenFacts
  <2>3. CASE y.begin >= b
    <3>1. x.begin = y.begin + k
      BY <2>1, <2>3 DEF Moved
    <3> QED
      BY <1>2, <1>6, <2>2, <2>3, <3>1
  <2>4. CASE ~(y.begin >= b)
    <3>1. x = y
      BY <2>1, <2>4
    <3> QED
      BY <1>4, <1>6, <2>2, <2>4, <3>1
  <2> QED
    BY <2>3, <2>4
<1>22. \A i \in 1..b : v[i] = t[i]
  BY <1>17, <1>18
<1>23. Length(n) = Length(d) - (e - b) + k
  BY <1>2, <1>8, <1>12, <1>17 DEF Length
<1> QED
  BY <1>2, <1>11, <1>12, <1>16, <1>17, <1>19, <1>20, <1>21, <1>22, <1>23, <1>u DEF Replacement, t

OneMore(T, S, c) ==
  \A a \in Command :
    Cardinality(OfCommand(T, a)) = Cardinality(OfCommand(S, a)) + IF a = c THEN 1 ELSE 0

(* m is n with one more token, which covers the bytes before its cursor.   *)
NewToken(d, b, e, c, n, t, m) ==
  /\ b \in Nat /\ c \in Command /\ Replacement(d, b, e, Table[c].token, n)
  /\ t = [begin |-> b, end |-> b + Len(Table[c].token), command |-> c]
  /\ m = [n EXCEPT !.tokens = @ \cup {t}]

LEMMA NewTokenKeeps ==
  ASSUME NEW d, LineInv(d), RoomForToken(d), NEW b, NEW e, NEW c, NEW n, NEW t, NEW m,
         NewToken(d, b, e, c, n, t, m)
  PROVE  /\ LineInv(m) /\ m.text = n.text /\ m.pos = n.pos /\ m.tokens = n.tokens \cup {t}
         /\ OneMore(m.tokens, d.tokens, c)
<1> USE DEF NewToken
<1> DEFINE s == Table[c].token
           k == Len(s)
<1>1. /\ LineInv(n) /\ SameCommands(n.tokens, d.tokens) /\ n.pos = b + k /\ Aligned(n.text, b)
      /\ \A i \in 1..k : n.text[b + i] = s[i]
      /\ \A x \in n.tokens : x.end <= b \/ b + k <= x.begin
  BY DEF Replacement
<1>2. s \in Seq(Byte) /\ k \in Nat /\ k > 0
  BY TokenTexts, LenProperties
<1>3. m = [text |-> n.text, pos |-> n.pos, tokens |-> n.tokens \cup {t}]
  <2>1. n = [text |-> n.text, pos |-> n.pos, tokens |-> n.tokens]
    BY <1>1, LineFacts
  <2>2. \A x, y, z, a : [[text |-> x, pos |-> y, tokens |-> z] EXCEPT !.tokens = a]
                       = [text |-> x, pos |-> y, tokens |-> a]
    OBVIOUS
  <2> QED
    BY <2>1, <2>2
<1>4. m.text = n.text /\ m.pos = n.pos /\ m.tokens = n.tokens \cup {t}
  BY <1>3
<1>5. t \in Token /\ t.begin = b /\ t.end = b + k /\ t.command = c
  BY <1>2 DEF Token
<1>6. t \notin n.tokens
  BY <1>1, <1>2, <1>5
<1>7. /\ n.text \in Seq(Byte) /\ n.pos \in 0..Length(n) /\ Length(n) = Len(n.text)
      /\ Length(n) \in Nat /\ Aligned(n.text, n.pos) /\ Whole(n.text)
  BY <1>1, LineFacts DEF Length, Place
<1>8. Bytes(m, b, b + k) = s
  <2> DEFINE f == b + k
             u == n.text
  <2>1. /\ u \in Seq(Byte) /\ f \in b..Len(u) /\ Len(s) = f - b
        /\ \A i \in 1..(f - b) : u[b + i] = s[i]
    BY <1>1, <1>2, <1>7
  <2> HIDE DEF f, u, s
  <2>2. SubSeq(u, b + 1, f) = s
    BY <1>2, <2>1, BytesAre
  <2> QED
    BY <1>4, <2>2 DEF Bytes, f, u
<1> HIDE DEF s, k
<1>9. TokenStands(m, t)
  <2>1. t.begin < t.end /\ t.end <= Length(m) /\ m.pos >= t.end
    BY <1>1, <1>2, <1>4, <1>5, <1>7 DEF Length
  <2>2. Aligned(m.text, t.begin) /\ Aligned(m.text, t.end)
    BY <1>1, <1>4, <1>5, <1>7
  <2>3. Bytes(m, t.begin, t.end) = Table[t.command].token
    BY <1>5, <1>8 DEF s
  <2> QED
    BY <2>1, <2>2, <2>3 DEF TokenStands
<1>10. \A x \in n.tokens : TokenStands(m, x)
  BY <1>1, <1>4 DEF LineInv, Valid, TokenStands, Bytes, Length
<1>11. \A x, y \in m.tokens : x # y => Apart(x, y)
  <2>1. \A x, y \in n.tokens : x # y => Apart(x, y)
    BY <1>1, LineFacts
  <2>2. \A x \in n.tokens : Apart(x, t) /\ Apart(t, x)
    BY <1>1, <1>5 DEF Apart
  <2> QED
    BY <1>4, <2>1, <2>2
<1>12. IsFiniteSet(n.tokens) /\ Cardinality(n.tokens) \in Nat
  BY <1>1, TokensFinite
<1>13. Cardinality(m.tokens) <= MaxTokens
  <2>1. Cardinality(m.tokens) = Cardinality(n.tokens) + 1
    <3>1. Cardinality(n.tokens \cup {t}) = Cardinality(n.tokens) + 1
      BY <1>6, <1>12, FS_AddElement
    <3> QED
      BY <1>4, <3>1
  <2>2. Cardinality(n.tokens) < MaxTokens
    BY <1>1 DEF SameCommands, RoomForToken
  <2>3. MaxTokens \in Nat
    BY ManagerAssumption
  <2> QED
    BY <1>12, <2>1, <2>2, <2>3
<1>14. m \in Line
  <2>1. n.tokens \cup {t} \in SUBSET Token
    BY <1>1, <1>5, LineFacts
  <2>2. n.pos \in Nat
    BY <1>7
  <2> QED
    BY <1>3, <1>7, <2>1, <2>2 DEF Line
<1>15. Valid(m)
  <2>1. Length(m) < BufSize /\ m.pos <= Length(m) /\ Aligned(m.text, m.pos)
    BY <1>1, <1>4, <1>7, LineFacts DEF Length
  <2>2. \A x \in m.tokens : TokenStands(m, x)
    BY <1>4, <1>9, <1>10
  <2> QED
    BY <1>11, <1>13, <2>1, <2>2 DEF Valid
<1>16. ASSUME NEW a \in Command
       PROVE  Cardinality(OfCommand(m.tokens, a)) =
                Cardinality(OfCommand(d.tokens, a)) + IF a = c THEN 1 ELSE 0
  <2>1. OfCommand(n.tokens, a) \in SUBSET n.tokens
    BY DEF OfCommand
  <2>2. IsFiniteSet(OfCommand(n.tokens, a))
    BY <1>12, <2>1, FS_Subset
  <2>3. Cardinality(OfCommand(n.tokens, a)) \in Nat
    BY <2>2, FS_CardinalityType
  <2>4. Cardinality(OfCommand(n.tokens, a)) = Cardinality(OfCommand(d.tokens, a))
    BY <1>1 DEF SameCommands
  <2>5. CASE a = c
    <3>1. /\ OfCommand(m.tokens, a) = OfCommand(n.tokens, a) \cup {t}
          /\ t \notin OfCommand(n.tokens, a)
      BY <1>4, <1>5, <1>6, <2>5 DEF OfCommand
    <3> DEFINE S == OfCommand(n.tokens, a)
    <3>2. IsFiniteSet(S) /\ t \notin S /\ OfCommand(m.tokens, a) = S \cup {t}
      BY <2>2, <3>1
    <3> HIDE DEF S
    <3>3. Cardinality(S \cup {t}) = Cardinality(S) + 1
      BY <3>2, FS_AddElement
    <3>4. Cardinality(OfCommand(m.tokens, a)) = Cardinality(S) + 1
      BY <3>2, <3>3
    <3> QED
      BY <2>4, <2>5, <3>4 DEF S
  <2>6. CASE a # c
    <3>1. OfCommand(m.tokens, a) = OfCommand(n.tokens, a)
      BY <1>4, <1>5, <2>6 DEF OfCommand
    <3> QED
      BY <2>3, <2>4, <2>6, <3>1
  <2> QED
    BY <2>5, <2>6
<1>17. LineInv(m)
  BY <1>4, <1>7, <1>14, <1>15 DEF LineInv
<1> QED
  BY <1>4, <1>16, <1>17 DEF OneMore

LEMMA OneCodepointWhole ==
  ASSUME NEW s \in Seq(Byte), OneCodepoint(s)
  PROVE  Whole(s)
<1> DEFINE n == Len(s)
           span == LeadSize[s[1]]
<1>1. n \in Nat /\ n # 0
  BY EmptySeq, LenProperties DEF OneCodepoint
<1>2. CodepointSize(s, 0) = n /\ 0 + 1 = 1
  BY DEF OneCodepoint
<1>3. span = n /\ \A i \in 2..span : LeadSize[s[0 + i]] = 0
  BY <1>1, <1>2 DEF CodepointSize
<1>4. ASSUME NEW p \in 0..(n - 1), Aligned(s, p) PROVE p = 0
  <2>1. LeadSize[s[p + 1]] # 0
    BY <1>1, <1>4, Leads
  <2>2. p # 0 => p + 1 \in 2..span /\ 0 + (p + 1) = p + 1
    BY <1>1, <1>3
  <2> HIDE DEF span
  <2> QED
    BY <1>3, <2>1, <2>2
<1>5. Aligned(s, n)
  BY DEF Aligned
<1>6. Aligned(s, 0)
  BY <1>1, <1>3 DEF Aligned
<1>7. 0 + CodepointSize(s, 0) = n
  BY <1>1, <1>2
<1>8. CodepointSize(s, 0) > 0 /\ Aligned(s, 0 + CodepointSize(s, 0))
  BY <1>1, <1>2, <1>5, <1>7
<1> QED
  BY <1>4, <1>6, <1>8 DEF Whole

LEMMA PlainWhole ==
  ASSUME NEW s \in Seq(Byte), \A i \in DOMAIN s : LeadSize[s[i]] = 1
  PROVE  Whole(s)
<1>1. Len(s) \in Nat /\ DOMAIN s = 1..Len(s)
  BY LenProperties
<1>2. ASSUME NEW p \in 0..(Len(s) - 1) PROVE Steps(s, p)
  <2>1. p + 1 \in 1..Len(s) /\ p + 1 <= Len(s)
    BY <1>1
  <2>2. LeadSize[s[p + 1]] = 1
    BY <1>1, <2>1
  <2>3. Aligned(s, p + 1)
    <3>1. p + 1 = Len(s) \/ p + 1 + 1 \in 1..Len(s)
      <4> DEFINE n == Len(s)
      <4>1. n \in Nat /\ p \in 0..(n - 1)
        BY <1>1
      <4> HIDE DEF n
      <4>2. p + 1 = n \/ p + 1 + 1 \in 1..n
        BY <4>1
      <4> QED
        BY <4>2 DEF n
    <3>2. p + 1 + 1 \in 1..Len(s) => LeadSize[s[p + 1 + 1]] = 1
      BY <1>1
    <3> QED
      BY <3>1, <3>2 DEF Aligned
  <2> QED
    BY <2>1, <2>2, <2>3 DEF Steps
<1>3. Aligned(s, 0)
  <2>1. 0 = Len(s) \/ 0 + 1 \in DOMAIN s
    BY <1>1
  <2> QED
    BY <2>1 DEF Aligned
<1> QED
  BY <1>2, <1>3, WholeIs

LEMMA SpaceIs ==
  <<Space>> \in Seq(Byte) /\ Len(<<Space>>) = 1 /\ <<Space>>[1] = Space /\ Whole(<<Space>>)
<1>1. Space \in Byte /\ LeadSize[Space] = 1
  BY ManagerAssumption, TextAssumption
<1> DEFINE s == <<Space>>
<1>2. s \in Seq(Byte) /\ Len(s) = 1 /\ s[1] = Space /\ \A i \in DOMAIN s : s[i] = Space
  BY <1>1
<1> HIDE DEF s
<1>3. Whole(s)
  BY <1>1, <1>2, PlainWhole
<1> QED
  BY <1>2, <1>3 DEF s

(* z is m with a space behind the cursor and the cursor behind the space.  *)
Spaced(m, z) ==
  /\ LineInv(z) /\ SameCommands(z.tokens, m.tokens)
  /\ z.pos = m.pos + 1 /\ Length(z) = Length(m) + 1
  /\ z.text[m.pos + 1] = Space
  /\ \A i \in 1..m.pos : z.text[i] = m.text[i]
  /\ \A i \in (m.pos + 1)..Length(m) : z.text[i + 1] = m.text[i]

LEMMA SpacedIs ==
  ASSUME NEW m, LineInv(m), Length(m) + 1 < BufSize, NEW z, z = Inserted(m, <<Space>>)
  PROVE  Spaced(m, z)
<1> DEFINE s == <<Space>>
           t == m.text
           p == m.pos
           u == z.text
<1>1. s \in Seq(Byte) /\ Len(s) = 1 /\ s[1] = Space /\ Whole(s)
  BY SpaceIs
<1>2. t \in Seq(Byte) /\ p \in 0..Len(t) /\ Length(m) = Len(t) /\ Len(t) \in Nat
  BY LineFacts DEF Length
<1>3. z = Inserted(m, s)
  OBVIOUS
<1> HIDE DEF s
<1>4. LineInv(z) /\ u = Spliced(t, p, s) /\ z.pos = p + Len(s) /\ SameCommands(z.tokens, m.tokens)
  <2>1. FitsIn(m, s)
    BY <1>1 DEF FitsIn
  <2> QED
    BY <1>1, <1>3, <2>1, InsertedKeeps
<1>5. Holds(t, p, s, u)
  <2> HIDE DEF t, p, u
  <2> QED
    BY <1>1, <1>2, <1>4, SplicedIs
<1>6. /\ Len(u) = Len(t) + 1
      /\ \A i \in 1..p : u[i] = t[i]
      /\ \A i \in 1..1 : u[p + i] = s[i]
      /\ \A i \in (p + 1)..Len(t) : u[i + 1] = t[i]
  BY <1>1, <1>5 DEF Holds
<1>7. u[p + 1] = Space
  <2>1. 1 \in 1..1
    OBVIOUS
  <2> QED
    BY <1>1, <1>6, <2>1
<1> QED
  BY <1>1, <1>2, <1>4, <1>6, <1>7 DEF Spaced, Length

(* z is d with the word s in the place of the bytes from b up to e, white  *)
(* space behind it and the cursor behind that.                             *)
Shifted(d, e, by, z) ==
  Length(z) = Length(d) + by /\ \A i \in (e + 1)..Length(d) : z.text[i + by] = d.text[i]

Accepts(d, b, e, s, z) ==
  /\ LineInv(z) /\ z.pos = b + Len(s) + 1
  /\ \A i \in 1..b : z.text[i] = d.text[i]
  /\ \A i \in 1..Len(s) : z.text[b + i] = s[i]
  /\ WhiteAt(z, b + Len(s))
  /\ \/ Shifted(d, e, Len(s) - (e - b), z)
     \/ Shifted(d, e, Len(s) - (e - b) + 1, z) /\ ByteAt(z, b + Len(s)) = Space

LEMMA SpacedAccepts ==
  ASSUME NEW d, LineInv(d), NEW b \in 0..Length(d), NEW e \in b..Length(d), NEW s \in Seq(Byte),
         NEW n, Replacement(d, b, e, s, n),
         NEW m, LineInv(m), m.text = n.text, m.pos = n.pos,
         Length(n) + 1 < BufSize, NEW z, z = Inserted(m, <<Space>>)
  PROVE  Accepts(d, b, e, s, z)
<1> DEFINE k == Len(s)
           by == k - (e - b)
           u == z.text
           v == n.text
<1>1. k \in Nat /\ Length(d) \in Nat /\ b \in Nat /\ e \in Nat /\ e >= b /\ e <= Length(d)
  BY LineFacts, LenProperties
<1>2. Length(m) = Length(n)
  BY DEF Length
<1>3. Spaced(m, z)
  BY <1>2, SpacedIs
<1>4. /\ n.pos = b + k /\ Length(n) = Length(d) - (e - b) + k
      /\ \A i \in 1..b : v[i] = d.text[i]
      /\ \A i \in 1..k : v[b + i] = s[i]
      /\ \A i \in (e + 1)..Length(d) : v[i - (e - b) + k] = d.text[i]
  BY DEF Replacement
<1> HIDE DEF k
<1>5. /\ LineInv(z) /\ z.pos = b + k + 1 /\ Length(z) = Length(n) + 1
      /\ u[b + k + 1] = Space
      /\ \A i \in 1..(b + k) : u[i] = v[i]
      /\ \A i \in (b + k + 1)..Length(n) : u[i + 1] = v[i]
  <2>1. /\ LineInv(z) /\ z.pos = n.pos + 1 /\ Length(z) = Length(n) + 1
        /\ u[n.pos + 1] = Space
        /\ \A i \in 1..n.pos : u[i] = v[i]
        /\ \A i \in (n.pos + 1)..Length(n) : u[i + 1] = v[i]
    BY <1>2, <1>3 DEF Spaced
  <2> QED
    BY <1>4, <2>1
<1>6. ASSUME NEW i \in 1..b PROVE u[i] = d.text[i]
  <2>1. i \in 1..(b + k)
    BY <1>1
  <2> QED
    BY <1>4, <1>5, <2>1
<1>7. ASSUME NEW i \in 1..k PROVE u[b + i] = s[i]
  <2>1. b + i \in 1..(b + k)
    BY <1>1
  <2> QED
    BY <1>4, <1>5, <2>1
<1>8. ASSUME NEW i \in (e + 1)..Length(d) PROVE u[i + (by + 1)] = d.text[i]
  <2> DEFINE j == i - (e - b) + k
  <2>1. j \in (b + k + 1)..Length(n) /\ j + 1 = i + (by + 1)
    BY <1>1, <1>4
  <2>2. v[j] = d.text[i]
    BY <1>4
  <2> HIDE DEF j
  <2>3. u[j + 1] = v[j]
    BY <1>5, <2>1
  <2> HIDE DEF by
  <2> QED
    BY <2>1, <2>2, <2>3
<1>9. Length(z) = Length(d) + (by + 1)
  BY <1>1, <1>4, <1>5
<1>10. ByteAt(z, b + k) = Space /\ WhiteAt(z, b + k)
  BY <1>5, ManagerAssumption DEF ByteAt, WhiteAt
<1>11. Shifted(d, e, by + 1, z)
  BY <1>8, <1>9 DEF Shifted
<1> QED
  BY <1>5, <1>6, <1>7, <1>10, <1>11 DEF Accepts, k

LEMMA TokenWhole == \A c \in Command : Whole(Table[c].token)
<1> SUFFICES ASSUME NEW c \in Command PROVE Whole(Table[c].token)
  OBVIOUS
<1>1. /\ Table[c].token \in Seq(Byte)
      /\ \A i \in DOMAIN Table[c].token : LeadSize[Table[c].token[i]] = 1
  BY TokenTexts, TextAssumption
<1> QED
  BY <1>1, PlainWhole

LEMMA TokenAccepted ==
  ASSUME LineInv(doc), RoomForToken(doc), Replaceable(doc, suggestion.start, suggestion.end),
         NEW c \in Command, FitsInstead(Len(Table[c].token) + 1)
  PROVE  /\ Accepts(doc, suggestion.start, suggestion.end, Table[c].token, WithToken(c))
         /\ OneMore(WithToken(c).tokens, doc.tokens, c)
<1> DEFINE b == suggestion.start
           e == suggestion.end
           s == Table[c].token
           n == Inserted(Removed(doc, b, e), s)
           t == [begin |-> b, end |-> b + Len(s), command |-> c]
           m == [n EXCEPT !.tokens = @ \cup {t}]
           z == Inserted(m, <<Space>>)
<1>1. z = WithToken(c)
  BY DEF WithToken, Replaced
<1>2. s \in Seq(Byte) /\ Whole(s) /\ Len(s) \in Nat
  BY TokenTexts, TokenWhole, LenProperties
<1>3. b \in 0..Length(doc) /\ e \in b..Length(doc) /\ Length(doc) \in Nat /\ b \in Nat
  BY LineFacts DEF Replaceable
<1>4. Length(doc) - (e - b) + Len(s) + 1 < BufSize
  BY <1>2, <1>3 DEF FitsInstead
<1>5. BufSize \in Nat
  BY TextAssumption
<1> HIDE DEF z, n
<1>n. n = Inserted(Removed(doc, b, e), s)
  BY DEF n
<1>6. Replacement(doc, b, e, s, n)
  <2>1. Length(doc) - (e - b) + Len(s) < BufSize
    BY <1>2, <1>3, <1>4, <1>5
  <2> QED
    BY <1>2, <1>n, <2>1, ReplacedIs
<1>7. /\ LineInv(m) /\ m.text = n.text /\ m.pos = n.pos
      /\ OneMore(m.tokens, doc.tokens, c)
  <2>1. NewToken(doc, b, e, c, n, t, m)
    BY <1>3, <1>6 DEF NewToken
  <2> HIDE DEF t, m, b, e, s
  <2> QED
    BY <2>1, NewTokenKeeps
<1>8. Length(n) + 1 < BufSize
  BY <1>4, <1>6 DEF Replacement
<1>9. z = Inserted(m, <<Space>>)
  BY DEF z
<1>10. Length(m) = Length(n)
  BY <1>7 DEF Length
<1> HIDE DEF m, b, e, s
<1>11. Accepts(doc, b, e, s, z)
  BY <1>2, <1>3, <1>6, <1>7, <1>8, <1>9, SpacedAccepts
<1>12. SameCommands(z.tokens, m.tokens)
  <2>1. Spaced(m, z)
    BY <1>7, <1>8, <1>9, <1>10, SpacedIs
  <2> QED
    BY <2>1 DEF Spaced
<1>13. OneMore(z.tokens, doc.tokens, c)
  BY <1>7, <1>12 DEF SameCommands, OneMore
<1> QED
  BY <1>1, <1>11, <1>13 DEF b, e, s

LEMMA ValueAccepted ==
  ASSUME LineInv(doc), Replaceable(doc, suggestion.start, suggestion.end),
         NEW v \in Seq(Byte), Whole(v), FitsInstead(Len(v) + IF Separated THEN 0 ELSE 1)
  PROVE  /\ Accepts(doc, suggestion.start, suggestion.end, v, WithValue(v))
         /\ SameCommands(WithValue(v).tokens, doc.tokens)
<1> DEFINE b == suggestion.start
           e == suggestion.end
           k == Len(v)
           n == Inserted(Removed(doc, b, e), v)
           white == n.pos < Length(n) /\ WhiteAt(n, n.pos)
           z == IF white THEN MovedTo(n, NextPos(n, n.pos)) ELSE Inserted(n, <<Space>>)
<1>1. z = WithValue(v)
  BY DEF WithValue, Replaced
<1>2. k \in Nat
  BY LenProperties
<1>3. /\ b \in 0..Length(doc) /\ e \in b..Length(doc) /\ Length(doc) \in Nat /\ b \in Nat
      /\ e \in Nat
  BY LineFacts DEF Replaceable
<1>4. /\ Length(doc) - (e - b) + k < BufSize
      /\ ~Separated => Length(doc) - (e - b) + k + 1 < BufSize
  <2>1. CASE Separated
    <3>1. Len(v) + (IF Separated THEN 0 ELSE 1) = k
      BY <1>2, <2>1
    <3> QED
      BY <2>1, <3>1 DEF FitsInstead
  <2>2. CASE ~Separated
    <3>1. Len(v) + (IF Separated THEN 0 ELSE 1) = k + 1
      BY <1>2, <2>2
    <3>2. Length(doc) - (e - b) + (k + 1) < BufSize /\ BufSize \in Nat
      BY <3>1, TextAssumption DEF FitsInstead
    <3> QED
      BY <1>2, <1>3, <3>2
  <2> QED
    BY <2>1, <2>2
<1> HIDE DEF z, n
<1>n. n = Inserted(Removed(doc, b, e), v)
  BY DEF n
<1>5. Replacement(doc, b, e, v, n)
  BY <1>4, <1>n, ReplacedIs
<1>6. /\ LineInv(n) /\ SameCommands(n.tokens, doc.tokens)
      /\ n.pos = b + k /\ Length(n) = Length(doc) - (e - b) + k
      /\ \A i \in 1..b : n.text[i] = doc.text[i]
      /\ \A i \in 1..k : n.text[b + i] = v[i]
      /\ \A i \in (e + 1)..Length(doc) : n.text[i - (e - b) + k] = doc.text[i]
  BY <1>5 DEF Replacement
<1>k. Len(v) = k
  OBVIOUS
<1> HIDE DEF b, e, k
<1>7. Separated <=> e < Length(doc) /\ WhiteAt(doc, e)
  BY DEF Separated, e
<1>8. white <=> Separated
  <2>1. n.pos < Length(n) <=> e < Length(doc)
    BY <1>2, <1>3, <1>6
  <2>2. ASSUME e < Length(doc) PROVE WhiteAt(n, n.pos) <=> WhiteAt(doc, e)
    <3> DEFINE i == e + 1
    <3>1. i \in (e + 1)..Length(doc) /\ i - (e - b) + k = n.pos + 1
      BY <1>2, <1>3, <1>6, <2>2
    <3> HIDE DEF i
    <3>2. n.text[n.pos + 1] = doc.text[i]
      BY <1>6, <3>1
    <3> QED
      BY <3>2 DEF WhiteAt, ByteAt, i
  <2> QED
    BY <1>7, <2>1, <2>2
<1>9. CASE white
  <2>1. n.pos \in 0..(Length(n) - 1) /\ WhiteAt(n, n.pos) /\ n.pos < Length(n)
    BY <1>6, <1>9, LineFacts
  <2>2. NextPos(n, n.pos) = n.pos + 1
    <3>1. LeadSize[n.text[n.pos + 1]] = 1
      BY <2>1, TextAssumption DEF WhiteAt, ByteAt
    <3>2. n.pos \in Nat /\ Length(n) \in Nat /\ Length(n) = Len(n.text)
      BY <1>6, LineFacts DEF Length
    <3>3. CodepointSize(n.text, n.pos) = 1
      BY <2>1, <3>1, <3>2 DEF CodepointSize
    <3> QED
      BY <2>1, <3>2, <3>3 DEF NextPos
  <2>3. z = MovedTo(n, n.pos + 1)
    BY <1>9, <2>2 DEF z
  <2>4. Place(n, n.pos + 1)
    BY <1>6, <2>1, WhitePlace
  <2>5. LineInv(z)
    BY <1>6, <2>3, <2>4, MovedToKeeps
  <2>6. z = [text |-> n.text, pos |-> n.pos + 1, tokens |-> n.tokens]
    BY <1>6, <2>3, LineFacts DEF MovedTo
  <2>7. z.text = n.text /\ z.pos = b + k + 1 /\ z.tokens = n.tokens
    BY <1>6, <2>6
  <2>8. WhiteAt(z, b + k)
    BY <1>6, <2>1, <2>7 DEF WhiteAt, ByteAt
  <2>9. Shifted(doc, e, k - (e - b), z)
    <3>1. Length(z) = Length(doc) + (k - (e - b))
      <4>1. Length(z) = Length(n)
        BY <2>7 DEF Length
      <4> QED
        BY <1>2, <1>3, <1>6, <4>1
    <3>2. ASSUME NEW i \in (e + 1)..Length(doc)
          PROVE  z.text[i + (k - (e - b))] = doc.text[i]
      <4>1. i + (k - (e - b)) = i - (e - b) + k
        BY <1>2, <1>3
      <4> QED
        BY <1>6, <2>7, <4>1
    <3> QED
      BY <3>1, <3>2 DEF Shifted
  <2>10. Accepts(doc, b, e, v, z)
    BY <1>6, <1>k, <2>5, <2>7, <2>8, <2>9 DEF Accepts
  <2> QED
    BY <1>1, <1>6, <2>7, <2>10 DEF b, e
<1>10. CASE ~white
  <2>1. z = Inserted(n, <<Space>>)
    BY <1>10 DEF z
  <2>2. Length(n) + 1 < BufSize
    BY <1>2, <1>3, <1>4, <1>6, <1>8, <1>10
  <2>3. Accepts(doc, b, e, v, z)
    BY <1>3, <1>5, <1>6, <2>1, <2>2, SpacedAccepts
  <2>4. Spaced(n, z)
    BY <1>6, <2>1, <2>2, SpacedIs
  <2>5. SameCommands(z.tokens, doc.tokens)
    BY <1>6, <2>4 DEF Spaced, SameCommands
  <2> QED
    BY <1>1, <2>3, <2>5 DEF b, e
<1> QED
  BY <1>9, <1>10

(* What is on offer while commands, or arguments, are suggested.           *)
LEMMA CommandsShown ==
  ASSUME LineStands, mode = "commandSuggesting"
  PROVE  /\ RoomForToken(doc) /\ Replaceable(doc, suggestion.start, suggestion.end)
         /\ suggestion.commands[suggestion.selected + 1] \in Command
<1> DEFINE now == Context(doc, ports, protocols)
<1>1. LineInv(doc) /\ Lent(ports, protocols) /\ suggestion \in Suggestion
  BY DEF LineStands, LineTypeOK, LineInv, TextValid, CodepointsWhole, Lent
<1>2. /\ now.mode = "commandSuggesting" /\ suggestion.selected < CandidateCount
      /\ CandidateCount > 0 => suggestion = [now.suggestion EXCEPT !.selected = suggestion.selected]
  BY DEF LineStands, SuggestionsCurrent
<1>n. now = Context(doc, ports, protocols)
  OBVIOUS
<1> HIDE DEF now
<1>3. OffersCommands(doc, now)
  <2>1. OffersCommands(doc, now) \/ (\E t, vs : OffersValues(doc, now, t, vs)) \/ OffersNothing(now)
    BY <1>1, <1>n, ContextIs
  <2> QED
    BY <1>2, <2>1 DEF OffersValues, OffersNothing
<1> DEFINE cs == SlashCommands(doc)
<1>4. cs \in Seq(Command) /\ cs # <<>>
  BY <1>3 DEF OffersCommands
<1>5. suggestion.selected \in Nat /\ CandidateCount > 0
  <2>1. /\ suggestion.selected \in Nat /\ suggestion.commands \in Seq(Command)
        /\ suggestion.values \in Seq(Seq(Byte))
    BY <1>1 DEF Suggestion
  <2>2. CandidateCount \in Nat
    <3>1. Len(suggestion.commands) \in Nat /\ Len(suggestion.values) \in Nat
      BY <2>1, LenProperties
    <3>2. \A x, y \in Nat : x + y \in Nat
      OBVIOUS
    <3> QED
      BY <3>1, <3>2, Zenon DEF CandidateCount
  <2> QED
    BY <1>2, <2>1, <2>2
<1>6. /\ suggestion.start = WordBack(doc, doc.pos) /\ suggestion.end = WordAhead(doc, doc.pos)
      /\ suggestion.commands = cs /\ suggestion.values = <<>>
  BY <1>2, <1>3, <1>5 DEF OffersCommands
<1>7. suggestion.selected + 1 \in 1..Len(cs)
  <2>1. Len(cs) \in Nat /\ CandidateCount = Len(cs) + 0
    BY <1>4, <1>6, EmptySeq, LenProperties DEF CandidateCount
  <2> QED
    BY <1>2, <1>5, <2>1
<1>8. RoomForToken(doc) /\ Replaceable(doc, WordBack(doc, doc.pos), WordAhead(doc, doc.pos))
  BY <1>1, <1>4, SlashWordIs
<1>9. cs[suggestion.selected + 1] \in Command
  <2> HIDE DEF cs
  <2> QED
    BY <1>4, <1>7, ElementOfSeq
<1> QED
  BY <1>6, <1>8, <1>9

LEMMA ValuesShown ==
  ASSUME LineStands, mode = "argumentSuggesting"
  PROVE  /\ Replaceable(doc, suggestion.start, suggestion.end)
         /\ suggestion.values[suggestion.selected + 1] \in Seq(Byte)
         /\ Whole(suggestion.values[suggestion.selected + 1])
<1> DEFINE now == Context(doc, ports, protocols)
<1>1. LineInv(doc) /\ Lent(ports, protocols) /\ suggestion \in Suggestion
  BY DEF LineStands, LineTypeOK, LineInv, TextValid, CodepointsWhole, Lent
<1>2. /\ now.mode = "argumentSuggesting" /\ suggestion.selected < CandidateCount
      /\ CandidateCount > 0 => suggestion = [now.suggestion EXCEPT !.selected = suggestion.selected]
  BY DEF LineStands, SuggestionsCurrent
<1>n. now = Context(doc, ports, protocols)
  OBVIOUS
<1> HIDE DEF now
<1>3. \E t, vs : OffersValues(doc, now, t, vs)
  <2>1. OffersCommands(doc, now) \/ (\E t, vs : OffersValues(doc, now, t, vs)) \/ OffersNothing(now)
    BY <1>1, <1>n, ContextIs
  <2> QED
    BY <1>2, <2>1 DEF OffersCommands, OffersNothing
<1>4. PICK t, vs : OffersValues(doc, now, t, vs)
  BY <1>3
<1>5. suggestion.selected \in Nat /\ CandidateCount > 0
  <2>1. /\ suggestion.selected \in Nat /\ suggestion.commands \in Seq(Command)
        /\ suggestion.values \in Seq(Seq(Byte))
    BY <1>1 DEF Suggestion
  <2>2. CandidateCount \in Nat
    <3>1. Len(suggestion.commands) \in Nat /\ Len(suggestion.values) \in Nat
      BY <2>1, LenProperties
    <3>2. \A x, y \in Nat : x + y \in Nat
      OBVIOUS
    <3> QED
      BY <3>1, <3>2, Zenon DEF CandidateCount
  <2> QED
    BY <1>2, <2>1, <2>2
<1>6. /\ suggestion.start = ArgumentStart(doc, t) /\ suggestion.end = ArgumentEnd(doc, t)
      /\ suggestion.values = vs /\ suggestion.commands = <<>>
  BY <1>2, <1>4, <1>5 DEF OffersValues
<1>7. t \in TokensArgued(doc) /\ WordList(vs)
  BY <1>4 DEF OffersValues
<1>8. suggestion.selected + 1 \in DOMAIN vs
  <2>1. Len(vs) \in Nat /\ DOMAIN vs = 1..Len(vs) /\ CandidateCount = 0 + Len(vs)
    BY <1>6, <1>7, EmptySeq, LenProperties DEF CandidateCount, WordList
  <2>2. suggestion.selected + 1 \in 1..Len(vs)
    BY <1>2, <1>5, <2>1
  <2> QED
    BY <2>1, <2>2
<1>9. /\ vs[suggestion.selected + 1] \in Seq(Byte)
      /\ Whole(vs[suggestion.selected + 1])
  BY <1>7, <1>8, LenProperties, ElementOfSeq DEF WordList
<1>10. Replaceable(doc, ArgumentStart(doc, t), ArgumentEnd(doc, t))
  BY <1>1, <1>7, ArgumentWordIs
<1> QED
  BY <1>6, <1>9, <1>10

-----------------------------------------------------------------------------
\* Every step of the manager leaves the line standing

(* The suggestion s in state m is what the line d calls for.               *)
Current(d, ps, qs, m, s) ==
  LET now == Context(d, ps, qs)
      count == Len(s.commands) + Len(s.values)
  IN  /\ m = "inactive" => count = 0
      /\ count > 0 => s = [now.suggestion EXCEPT !.selected = s.selected]
      /\ m \in {"commandSuggesting", "argumentSuggesting"} => m = now.mode /\ s.selected < count

Stands(d, limit, m, s, ps, qs) ==
  /\ LineInv(d) /\ limit \in BOOLEAN /\ m \in Mode /\ s \in Suggestion
  /\ Lent(ps, qs) /\ Current(d, ps, qs, m, s)

LEMMA StandsIs == LineStands <=> Stands(doc, limitReached, mode, suggestion, ports, protocols)
  BY DEF LineStands, LineTypeOK, TextValid, CodepointsWhole, SuggestionsCurrent, CandidateCount,
         LineInv, Lent, Stands, Current

LEMMA StandsNext ==
  LineStands' <=> Stands(doc', limitReached', mode', suggestion', ports', protocols')
  BY DEF LineStands, LineTypeOK, TextValid, CodepointsWhole, SuggestionsCurrent, CandidateCount,
         LineInv, Lent, Stands, Current

LEMMA OfferStands ==
  ASSUME NEW d, LineInv(d), NEW limit \in BOOLEAN, NEW ps, NEW qs, Lent(ps, qs),
         NEW c, c = Context(d, ps, qs), NEW m, m = c.mode \/ m = "suggestNotAvailable"
  PROVE  Stands(d, limit, m, c.suggestion, ps, qs)
<1> DEFINE s == c.suggestion
           count == Len(s.commands) + Len(s.values)
<1>1. OffersCommands(d, c) \/ (\E t, vs : OffersValues(d, c, t, vs)) \/ OffersNothing(c)
  BY ContextIs
<1>2. /\ s \in Suggestion /\ s = [s EXCEPT !.selected = s.selected] /\ s.selected = 0
      /\ c.mode \in Mode \ {"inactive"}
      /\ c.mode \in {"commandSuggesting", "argumentSuggesting"} => count > 0
  <2>1. CASE OffersCommands(d, c)
    <3> DEFINE b == WordBack(d, d.pos)
               e == WordAhead(d, d.pos)
               cs == SlashCommands(d)
    <3>1. /\ c.mode = "commandSuggesting" /\ cs \in Seq(Command) /\ cs # <<>>
          /\ s = [start |-> b, end |-> e, commands |-> cs, values |-> <<>>, selected |-> 0]
      BY <2>1 DEF OffersCommands
    <3>2. b \in Nat /\ e \in Nat
      <4>1. d.pos \in 0..Length(d) /\ Length(d) \in Nat
        BY LineFacts
      <4>2. b \in 0..d.pos /\ e \in d.pos..Length(d)
        BY <4>1, WordBackPlace, WordAheadPlace
      <4> QED
        BY <4>1, <4>2
    <3> HIDE DEF b, e, cs
    <3>3. Len(cs) \in Nat /\ Len(cs) # 0 /\ count = Len(cs) + 0
      BY <3>1, EmptySeq, LenProperties
    <3> QED
      BY <3>1, <3>2, <3>3 DEF Suggestion, Mode
  <2>2. CASE \E t, vs : OffersValues(d, c, t, vs)
    <3>0. PICK t, vs : OffersValues(d, c, t, vs)
      BY <2>2
    <3> DEFINE b == ArgumentStart(d, t)
               e == ArgumentEnd(d, t)
    <3>1. /\ c.mode = "argumentSuggesting" /\ vs \in Seq(Seq(Byte)) /\ vs # <<>>
          /\ s = [start |-> b, end |-> e, commands |-> <<>>, values |-> vs, selected |-> 0]
          /\ t \in TokensArgued(d)
      BY <3>0 DEF OffersValues, WordList
    <3>2. b \in Nat /\ e \in Nat
      <4>1. Replaceable(d, b, e) /\ Length(d) \in Nat
        BY <3>1, ArgumentWordIs, LineFacts
      <4> HIDE DEF b, e
      <4> QED
        BY <4>1 DEF Replaceable
    <3> HIDE DEF b, e
    <3>3. Len(vs) \in Nat /\ Len(vs) # 0 /\ count = 0 + Len(vs)
      BY <3>1, EmptySeq, LenProperties
    <3>4. <<>> \in Seq(Command)
      OBVIOUS
    <3> QED
      BY <3>1, <3>2, <3>3, <3>4 DEF Suggestion, Mode
  <2>3. CASE OffersNothing(c)
    BY <2>3 DEF OffersNothing, NoSuggestion, Suggestion, Mode
  <2> QED
    BY <1>1, <2>1, <2>2, <2>3
<1>3. m \in Mode /\ m # "inactive"
  BY <1>2 DEF Mode
<1>4. m \in {"commandSuggesting", "argumentSuggesting"} => m = c.mode /\ s.selected < count
  BY <1>2
<1> QED
  BY <1>2, <1>3, <1>4 DEF Stands, Current

(* Where the line becomes d and the state the one it calls for.            *)
LEMMA ShowLineStands ==
  ASSUME NEW d, LineInv(d), Lent(ports', protocols'), limitReached' \in BOOLEAN,
         ShowLine(d, ports', protocols')
  PROVE  LineStands'
<1> DEFINE c == Context(d, ports', protocols')
<1>1. doc' = d /\ mode' = c.mode /\ suggestion' = c.suggestion
  BY DEF ShowLine, Suggested
<1> HIDE DEF c
<1>2. c = Context(d, ports', protocols')
  BY DEF c
<1>3. Stands(d, limitReached', c.mode, c.suggestion, ports', protocols')
  BY <1>2, OfferStands
<1> QED
  BY <1>1, <1>3, StandsNext

LEMMA StandsHere ==
  ASSUME LineStands
  PROVE  /\ LineInv(doc) /\ limitReached \in BOOLEAN /\ mode \in Mode /\ suggestion \in Suggestion
         /\ Lent(ports, protocols) /\ Current(doc, ports, protocols, mode, suggestion)
  BY StandsIs DEF Stands

LEMMA EditedStands ==
  ASSUME LineStands, NEW d, LineInv(d), Edited(d)
  PROVE  LineStands'
<1>1. Lent(ports', protocols') /\ limitReached' \in BOOLEAN /\ ShowLine(d, ports', protocols')
  BY StandsHere DEF Edited, catalogs
<1> QED
  BY <1>1, ShowLineStands

LEMMA UnchangedStands ==
  ASSUME LineStands, UNCHANGED <<doc, mode, suggestion, catalogs>>, limitReached' \in BOOLEAN
  PROVE  LineStands'
<1>1. /\ doc' = doc /\ mode' = mode /\ suggestion' = suggestion
      /\ ports' = ports /\ protocols' = protocols
  BY DEF catalogs
<1>2. Stands(doc, limitReached', mode, suggestion, ports, protocols)
  BY StandsHere DEF Stands
<1> QED
  BY <1>1, <1>2, StandsNext

LEMMA RefusedStands ==
  ASSUME LineStands, NEW s, Refused(s)
  PROVE  LineStands'
<1>1. UNCHANGED <<doc, mode, suggestion, catalogs>> /\ limitReached' \in BOOLEAN
  BY StandsHere DEF Refused
<1> QED
  BY <1>1, UnchangedStands

LEMMA TypedKeeps ==
  ASSUME LineStands, NEW s \in Seq(Byte), Accepted(s)
  PROVE  LineInv(Inserted(doc, s))
<1>1. Whole(s) /\ FitsIn(doc, s)
  BY OneCodepointWhole DEF Accepted
<1> QED
  BY <1>1, StandsHere, InsertedKeeps

LEMMA TypingStands ==
  ASSUME LineStands, Typing
  PROVE  LineStands'
<1>1. ASSUME NEW s \in Seq(Byte), Accepted(s), Typed(s) PROVE LineStands'
  <2>1. /\ Lent(ports', protocols') /\ limitReached' \in BOOLEAN
        /\ ShowLine(Inserted(doc, s), ports', protocols')
    BY <1>1, StandsHere DEF Typed, catalogs
  <2>2. LineInv(Inserted(doc, s))
    BY <1>1, TypedKeeps
  <2> QED
    BY <2>1, <2>2, ShowLineStands
<1>2. \A s \in Inputs : s \in Seq(Byte)
  BY ManagerAssumption
<1>3. ASSUME NEW s \in Inputs, TypeInNormal(s) \/ TypeInCommands(s) PROVE LineStands'
  <2>1. (Accepted(s) /\ Typed(s)) \/ Refused(s)
    BY <1>3 DEF TypeInNormal, TypeInCommands
  <2> QED
    BY <1>1, <1>2, <2>1, RefusedStands
<1>4. ASSUME TypeSlash PROVE LineStands'
  <2> DEFINE s == <<Slash>>
             d == Inserted(doc, s)
             c == Context(d, ports, protocols)
  <2>1. s \in Seq(Byte)
    BY ManagerAssumption
  <2>2. CASE Accepted(s)
    <3>1. /\ doc' = d /\ suggestion' = c.suggestion
          /\ mode' = c.mode \/ mode' = "suggestNotAvailable"
          /\ limitReached' = limitReached /\ ports' = ports /\ protocols' = protocols
      BY <1>4, <2>2 DEF TypeSlash, catalogs
    <3> HIDE DEF s
    <3>2. LineInv(d) /\ limitReached \in BOOLEAN /\ Lent(ports, protocols)
      BY <2>1, <2>2, TypedKeeps, StandsHere
    <3> HIDE DEF d, c
    <3>3. c = Context(d, ports, protocols)
      BY DEF c
    <3>4. Stands(d, limitReached, mode', c.suggestion, ports, protocols)
      BY <3>1, <3>2, <3>3, OfferStands
    <3> QED
      BY <3>1, <3>4, StandsNext
  <2>3. CASE ~Accepted(s)
    BY <1>4, <2>3, RefusedStands DEF TypeSlash
  <2> QED
    BY <2>2, <2>3
<1> QED
  BY <1>3, <1>4 DEF Typing

LEMMA DeletingStands ==
  ASSUME LineStands, Deleting
  PROVE  LineStands'
<1>1. \/ Edited(DeletedPrev(doc)) \/ Edited(DeletedToStart(doc)) \/ Edited(DeletedPrevWord(doc))
  BY DEF Deleting, DeletePrevNormal, DeleteToStartNormal, DeletePrevWordNormal,
         DeletePrevCommands, DeleteToStartCommands, DeletePrevWordCommands, InNormal, InCommands
<1>2. /\ LineInv(DeletedPrev(doc)) /\ LineInv(DeletedToStart(doc)) /\ LineInv(DeletedPrevWord(doc))
  BY StandsHere, DeletionsKeep
<1> QED
  BY <1>1, <1>2, EditedStands

LEMMA MovingStands ==
  ASSUME LineStands, Moving
  PROVE  LineStands'
<1>1. \/ Edited(MovedLeft(doc)) \/ Edited(MovedRight(doc)) \/ Edited(MovedPrevWord(doc))
      \/ Edited(MovedNextWord(doc)) \/ Edited(MovedHome(doc)) \/ Edited(MovedEnd(doc))
  BY DEF Moving, MoveLeftNormal, MoveRightNormal, MovePrevWordNormal, MoveNextWordNormal,
         MoveHomeNormal, MoveEndNormal, MoveLeftCommands, MoveRightCommands, MovePrevWordCommands,
         MoveNextWordCommands, MoveHomeCommands, MoveEndCommands, InNormal, InCommands
<1>2. /\ LineInv(MovedLeft(doc)) /\ LineInv(MovedRight(doc)) /\ LineInv(MovedPrevWord(doc))
      /\ LineInv(MovedNextWord(doc)) /\ LineInv(MovedHome(doc)) /\ LineInv(MovedEnd(doc))
  BY StandsHere, MovesKeep
<1> QED
  BY <1>1, <1>2, EditedStands

LEMMA Reselected ==
  ASSUME NEW s \in Suggestion, NEW i
  PROVE  [s EXCEPT !.selected = i] =
           [start |-> s.start, end |-> s.end, commands |-> s.commands, values |-> s.values,
            selected |-> i]
<1>1. s = [start |-> s.start, end |-> s.end, commands |-> s.commands, values |-> s.values,
           selected |-> s.selected]
  BY DEF Suggestion
<1>2. \A a, b, c, v, j :
        [[start |-> a, end |-> b, commands |-> c, values |-> v, selected |-> j] EXCEPT !.selected = i]
          = [start |-> a, end |-> b, commands |-> c, values |-> v, selected |-> i]
  OBVIOUS
<1> QED
  BY <1>1, <1>2

LEMMA CountIs ==
  ASSUME NEW s \in Suggestion
  PROVE  /\ Len(s.commands) \in Nat /\ Len(s.values) \in Nat
         /\ Len(s.commands) + Len(s.values) \in Nat
<1>1. s.commands \in Seq(Command) /\ s.values \in Seq(Seq(Byte))
  BY DEF Suggestion
<1>2. Len(s.commands) \in Nat /\ Len(s.values) \in Nat
  BY <1>1, LenProperties
<1>3. \A x, y \in Nat : x + y \in Nat
  OBVIOUS
<1> QED
  BY <1>2, <1>3, Zenon

LEMMA NothingCurrent ==
  ASSUME NEW d, NEW ps, NEW qs, NEW m, NEW s, Len(s.commands) + Len(s.values) = 0,
         m \notin {"commandSuggesting", "argumentSuggesting"}
  PROVE  Current(d, ps, qs, m, s)
<1>1. \A x : x = 0 => ~(x > 0)
  OBVIOUS
<1>2. ~(Len(s.commands) + Len(s.values) > 0)
  BY <1>1, Zenon
<1> QED
  BY <1>2, Zenon DEF Current

LEMMA SelectingStands ==
  ASSUME LineStands, mode \in {"commandSuggesting", "argumentSuggesting"},
         NEW i, i = Before(suggestion.selected) \/ i = After(suggestion.selected), Selecting(i)
  PROVE  LineStands'
<1> DEFINE s == suggestion
           n == CandidateCount
           now == Context(doc, ports, protocols)
           r == now.suggestion
           z == [start |-> s.start, end |-> s.end, commands |-> s.commands, values |-> s.values,
                 selected |-> i]
<1>1. /\ LineInv(doc) /\ limitReached \in BOOLEAN /\ mode \in Mode /\ s \in Suggestion
      /\ Lent(ports, protocols)
  BY StandsHere
<1>2. n = Len(s.commands) + Len(s.values) /\ n \in Nat
  BY <1>1, CountIs, Zenon DEF CandidateCount
<1>n. n \in Nat
  BY <1>2
<1>3. s.selected < n /\ mode = now.mode /\ (n > 0 => s = [r EXCEPT !.selected = s.selected])
  BY <1>2, StandsHere DEF Current
<1>4. s.selected \in Nat
  BY <1>1 DEF Suggestion
<1> HIDE DEF n
<1>5. i \in Nat /\ i < n
  <2>1. \A k : Before(k) = IF k = 0 THEN n - 1 ELSE k - 1
    BY DEF Before, n
  <2>2. \A k : After(k) = IF k + 1 >= n THEN 0 ELSE k + 1
    BY DEF After, n
  <2> DEFINE j == s.selected
  <2>3. i = Before(j) \/ i = After(j)
    OBVIOUS
  <2>4. j \in Nat /\ j < n
    BY <1>3, <1>4, Zenon
  <2> HIDE DEF j
  <2> QED
    BY <1>n, <2>1, <2>2, <2>3, <2>4
<1>6. suggestion' = z
  <2>1. suggestion' = [s EXCEPT !.selected = i]
    BY DEF Selecting
  <2> QED
    BY <1>1, <2>1, Reselected
<1>7. r \in Suggestion
  <2>1. Stands(doc, TRUE, now.mode, r, ports, protocols)
    BY <1>1, OfferStands
  <2> QED
    BY <2>1 DEF Stands
<1> HIDE DEF r
<1>8. z = [r EXCEPT !.selected = i]
  <2>1. n > 0
    BY <1>n, <1>5
  <2>2. s = [start |-> r.start, end |-> r.end, commands |-> r.commands, values |-> r.values,
             selected |-> s.selected]
    BY <1>3, <1>7, <2>1, Reselected
  <2>3. [r EXCEPT !.selected = i] =
          [start |-> r.start, end |-> r.end, commands |-> r.commands, values |-> r.values,
           selected |-> i]
    BY <1>7, Reselected
  <2>4. s.start = r.start /\ s.end = r.end /\ s.commands = r.commands /\ s.values = r.values
    BY <2>2
  <2> QED
    BY <2>3, <2>4
<1>9. z \in Suggestion /\ z.selected = i /\ z.commands = s.commands /\ z.values = s.values
  BY <1>1, <1>5 DEF Suggestion
<1> HIDE DEF z
<1>10. Len(z.commands) + Len(z.values) = n
  BY <1>2, <1>9
<1>11. mode # "inactive"
  OBVIOUS
<1>12. Current(doc, ports, protocols, mode, z)
  BY <1>3, <1>5, <1>8, <1>9, <1>10, <1>11 DEF Current, r
<1>13. Stands(doc, limitReached, mode, z, ports, protocols)
  BY <1>1, <1>9, <1>12 DEF Stands
<1>14. /\ doc' = doc /\ mode' = mode /\ limitReached' = limitReached
       /\ ports' = ports /\ protocols' = protocols
  BY DEF Selecting, catalogs
<1> QED
  BY <1>6, <1>13, <1>14, StandsNext

LEMMA DismissedStands ==
  ASSUME LineStands, NEW m \in {"inactive", "suggestAvailable", "suggestNotAvailable"}, Dismissed(m)
  PROVE  LineStands'
<1> DEFINE z == [start |-> suggestion.start, end |-> suggestion.end, commands |-> <<>>,
                 values |-> <<>>, selected |-> 0]
<1>1. /\ LineInv(doc) /\ limitReached \in BOOLEAN /\ suggestion \in Suggestion
      /\ Lent(ports, protocols)
  BY StandsHere
<1>2. z \in Suggestion /\ z.commands = <<>> /\ z.values = <<>>
  <2>1. <<>> \in Seq(Command) /\ <<>> \in Seq(Seq(Byte)) /\ 0 \in Nat
    OBVIOUS
  <2> QED
    BY <1>1, <2>1 DEF Suggestion
<1>3. /\ suggestion' = z /\ mode' = m /\ doc' = doc /\ limitReached' = limitReached
      /\ ports' = ports /\ protocols' = protocols
  BY DEF Dismissed, catalogs
<1> HIDE DEF z
<1>4. Len(z.commands) + Len(z.values) = 0
  BY <1>2, EmptySeq
<1>5. Current(doc, ports, protocols, m, z)
  BY <1>4, NothingCurrent
<1>6. Stands(doc, limitReached, m, z, ports, protocols)
  BY <1>1, <1>2, <1>5 DEF Stands, Mode
<1> QED
  BY <1>3, <1>6, StandsNext

LEMMA AcceptingStands ==
  ASSUME LineStands, NEW d, LineInv(d), Accepting(d)
  PROVE  LineStands'
<1>1. Lent(ports', protocols') /\ limitReached' \in BOOLEAN /\ ShowLine(d, ports', protocols')
  BY StandsHere DEF Accepting, catalogs
<1> QED
  BY <1>1, ShowLineStands

LEMMA TooLongStands ==
  ASSUME LineStands, TooLong
  PROVE  LineStands'
<1>1. UNCHANGED <<doc, mode, suggestion, catalogs>> /\ limitReached' \in BOOLEAN
  BY DEF TooLong
<1> QED
  BY <1>1, UnchangedStands

LEMMA SuggestingStands ==
  ASSUME LineStands, Suggesting
  PROVE  LineStands'
<1>1. CASE SelectPrevCommand \/ SelectNextCommand \/ SelectPrevArgument \/ SelectNextArgument
  BY <1>1, SelectingStands
     DEF SelectPrevCommand, SelectNextCommand, SelectPrevArgument, SelectNextArgument
<1>2. CASE CancelCommands \/ CancelArguments
  BY <1>2, DismissedStands DEF CancelCommands, CancelArguments
<1>3. CASE AcceptCommand
  <2> DEFINE c == suggestion.commands[suggestion.selected + 1]
  <2>1. /\ mode = "commandSuggesting"
        /\ \/ FitsInstead(Len(Table[c].token) + 1) /\ Accepting(WithToken(c))
           \/ TooLong
    BY <1>3 DEF AcceptCommand
  <2>2. /\ LineInv(doc) /\ RoomForToken(doc) /\ c \in Command
        /\ Replaceable(doc, suggestion.start, suggestion.end)
    BY <2>1, StandsHere, CommandsShown
  <2> HIDE DEF c
  <2>3. CASE FitsInstead(Len(Table[c].token) + 1) /\ Accepting(WithToken(c))
    <3>1. LineInv(WithToken(c))
      BY <2>2, <2>3, TokenAccepted DEF Accepts
    <3> QED
      BY <2>3, <3>1, AcceptingStands
  <2> QED
    BY <2>1, <2>3, TooLongStands
<1>4. CASE AcceptArgument
  <2> DEFINE v == suggestion.values[suggestion.selected + 1]
  <2>1. /\ mode = "argumentSuggesting"
        /\ \/ FitsInstead(Len(v) + IF Separated THEN 0 ELSE 1) /\ Accepting(WithValue(v))
           \/ TooLong
    BY <1>4 DEF AcceptArgument
  <2>2. /\ LineInv(doc) /\ v \in Seq(Byte) /\ Whole(v)
        /\ Replaceable(doc, suggestion.start, suggestion.end)
    BY <2>1, StandsHere, ValuesShown
  <2> HIDE DEF v
  <2>3. CASE FitsInstead(Len(v) + IF Separated THEN 0 ELSE 1) /\ Accepting(WithValue(v))
    <3>1. LineInv(WithValue(v))
      BY <2>2, <2>3, ValueAccepted DEF Accepts
    <3> QED
      BY <2>3, <3>1, AcceptingStands
  <2> QED
    BY <2>1, <2>3, TooLongStands
<1> QED
  BY <1>1, <1>2, <1>3, <1>4 DEF Suggesting

LEMMA EmptyLineInv == LineInv(EmptyLine)
<1> DEFINE d == EmptyLine
<1>1. d.text = <<>> /\ d.pos = 0 /\ d.tokens = {} /\ d \in Line
  BY DEF EmptyLine, Line
<1> HIDE DEF d
<1>2. Length(d) = 0 /\ Len(d.text) = 0
  BY <1>1, EmptySeq DEF Length
<1>3. Aligned(d.text, 0)
  BY <1>2 DEF Aligned
<1>4. Whole(d.text)
  BY <1>2, <1>3 DEF Whole
<1>5. Cardinality(d.tokens) <= MaxTokens /\ 0 < BufSize
  BY <1>1, FS_EmptySet, TextAssumption, ManagerAssumption
<1>6. Valid(d)
  BY <1>1, <1>2, <1>3, <1>5 DEF Valid
<1> QED
  BY <1>1, <1>4, <1>6 DEF LineInv, d

LEMMA EmptyStands ==
  ASSUME NEW limit \in BOOLEAN, NEW m \in {"inactive", "suggestAvailable"},
         NEW ps, NEW qs, Lent(ps, qs)
  PROVE  Stands(EmptyLine, limit, m, NoSuggestion, ps, qs)
<1> DEFINE s == NoSuggestion
<1>1. s \in Suggestion /\ s.commands = <<>> /\ s.values = <<>>
  BY DEF NoSuggestion, Suggestion
<1> HIDE DEF s
<1>2. Len(s.commands) + Len(s.values) = 0
  BY <1>1, EmptySeq
<1>3. Current(EmptyLine, ps, qs, m, s)
  BY <1>2, NothingCurrent
<1> QED
  BY <1>1, <1>3, EmptyLineInv DEF Stands, Mode, s

LEMMA SubmitStands ==
  ASSUME LineStands, Submit
  PROVE  LineStands'
<1>1. /\ doc' = EmptyLine /\ limitReached' = FALSE /\ suggestion' = NoSuggestion
      /\ mode' = "suggestAvailable" /\ ports' = ports /\ protocols' = protocols
  BY DEF Submit, catalogs
<1>2. Stands(EmptyLine, FALSE, "suggestAvailable", NoSuggestion, ports, protocols)
  BY StandsHere, EmptyStands
<1> QED
  BY <1>1, <1>2, StandsNext

LEMMA CatalogStands ==
  ASSUME LineStands, NEW ps, NEW qs, Lent(ps, qs), CatalogUpdated(ps, qs)
  PROVE  LineStands'
<1>1. ports' = ps /\ protocols' = qs /\ limitReached' = limitReached
  BY DEF CatalogUpdated
<1>2. LineInv(doc) /\ limitReached \in BOOLEAN /\ mode \in Mode /\ suggestion \in Suggestion
  BY StandsHere
<1>3. CASE mode \in Active
  <2>1. ShowLine(doc, ports', protocols') /\ Lent(ports', protocols') /\ limitReached' \in BOOLEAN
    BY <1>1, <1>2, <1>3 DEF CatalogUpdated
  <2> QED
    BY <1>2, <2>1, ShowLineStands
<1>4. CASE mode \notin Active
  <2>1. doc' = doc /\ mode' = mode /\ suggestion' = suggestion /\ mode = "inactive"
    BY <1>2, <1>4 DEF CatalogUpdated, Active, Normal, Mode
  <2>2. Len(suggestion.commands) + Len(suggestion.values) = 0
    BY <2>1, StandsHere DEF Current
  <2>3. Current(doc, ps, qs, mode, suggestion)
    BY <2>1, <2>2, NothingCurrent
  <2>4. Stands(doc, limitReached, mode, suggestion, ps, qs)
    BY <1>2, <2>3 DEF Stands
  <2> QED
    BY <1>1, <2>1, <2>4, StandsNext
<1> QED
  BY <1>3, <1>4

(* Every step leaves the line standing.                                    *)
LEMMA LineStep ==
  ASSUME LineStands, [LineNext]_lineVars
  PROVE  LineStands'
<1>1. CASE Reject \/ UNCHANGED lineVars
  <2>1. UNCHANGED <<doc, mode, suggestion, catalogs>> /\ limitReached' \in BOOLEAN
    BY <1>1, StandsHere DEF Reject, lineVars, catalogs
  <2> QED
    BY <2>1, UnchangedStands
<1>2. CASE Activate
  <2>1. ShowLine(doc, ports', protocols') /\ Lent(ports', protocols') /\ limitReached' \in BOOLEAN
    BY <1>2, StandsHere DEF Activate, catalogs
  <2> QED
    BY <2>1, StandsHere, ShowLineStands
<1>3. CASE Deactivate
  BY <1>3, DismissedStands DEF Deactivate
<1>4. CASE SetPortCatalog
  <2>1. PICK ps \in PortLists : CatalogUpdated(ps, protocols)
    BY <1>4 DEF SetPortCatalog
  <2>2. Lent(ps, protocols)
    BY StandsHere DEF Lent
  <2> QED
    BY <2>1, <2>2, CatalogStands
<1>5. CASE SetProtocolCatalog
  <2>1. PICK qs \in ProtocolLists : CatalogUpdated(ports, qs)
    BY <1>5 DEF SetProtocolCatalog
  <2>2. Lent(ports, qs)
    BY StandsHere DEF Lent
  <2> QED
    BY <2>1, <2>2, CatalogStands
<1>6. CASE Typing \/ Deleting \/ Moving \/ Suggesting \/ Submit
  BY <1>6, TypingStands, DeletingStands, MovingStands, SuggestingStands, SubmitStands
<1> QED
  BY <1>1, <1>2, <1>3, <1>4, <1>5, <1>6 DEF LineNext

(* After any keys, acceptances, submissions, focus changes and catalogues  *)
(* all that validate_ asserts holds, the cursor can always move on, and    *)
(* what is suggested is what the line and the catalogues now call for.     *)
THEOREM LineAlwaysStands == LineSpec => []LineStands
<1>1. LineInit => LineStands
  <2> SUFFICES ASSUME LineInit PROVE LineStands
    OBVIOUS
  <2>1. /\ doc = EmptyLine /\ limitReached = FALSE /\ mode = "inactive"
        /\ suggestion = NoSuggestion /\ ports = <<>> /\ protocols = <<>>
    BY DEF LineInit
  <2>2. Lent(ports, protocols)
    BY <2>1 DEF Lent
  <2>3. Stands(doc, limitReached, mode, suggestion, ports, protocols)
    BY <2>1, <2>2, EmptyStands
  <2> QED
    BY <2>3, StandsIs
<1>2. LineStands /\ [LineNext]_lineVars => LineStands'
  BY LineStep
<1> QED
  BY <1>1, <1>2, PTL DEF LineSpec

-----------------------------------------------------------------------------
\* An accepted suggestion takes the place of its word

LEMMA FrontIs ==
  ASSUME NEW d, LineInv(d), NEW b \in 0..Length(d), NEW s \in Seq(Byte), NEW z, LineInv(z),
         b + Len(s) <= Length(z),
         \A i \in 1..b : z.text[i] = d.text[i], \A i \in 1..Len(s) : z.text[b + i] = s[i]
  PROVE  Bytes(z, 0, b + Len(s)) = Bytes(d, 0, b) \o s
<1> DEFINE k == Len(s)
           f == b + k
           t == d.text
           u == z.text
           v == SubSeq(t, 0 + 1, b)
           w == v \o s
<1>1. /\ t \in Seq(Byte) /\ u \in Seq(Byte) /\ k \in Nat
      /\ b \in 0..Len(t) /\ f \in 0..Len(u) /\ 0 \in Nat
  BY LineFacts, LenProperties DEF Length
<1>b. b \in Nat
  BY <1>1
<1>k. Len(s) = k
  OBVIOUS
<1>z. (\A i \in 1..b : u[i] = t[i]) /\ (\A i \in 1..k : u[b + i] = s[i])
  OBVIOUS
<1> HIDE DEF t, u, k
<1>2. v \in Seq(Byte) /\ Len(v) = b - 0 /\ \A i \in 1..(b - 0) : v[i] = t[0 + i]
  BY <1>1, <1>b, SliceIs
<1> HIDE DEF v
<1>3. /\ w \in Seq(Byte) /\ Len(w) = Len(v) + Len(s)
      /\ \A i \in 1..Len(v) : w[i] = v[i]
      /\ \A i \in 1..Len(s) : w[Len(v) + i] = s[i]
  BY <1>2, JoinIs
<1> HIDE DEF w
<1>4. Len(v) = b /\ Len(w) = f - 0
  BY <1>1, <1>b, <1>2, <1>3, <1>k
<1>5. ASSUME NEW i \in 1..(f - 0) PROVE u[0 + i] = w[i]
  <2>1. CASE i <= b
    <3>1. i \in 1..b /\ i \in 1..(b - 0) /\ 0 + i = i
      BY <1>b, <1>1, <2>1
    <3> QED
      BY <1>2, <1>3, <1>4, <1>z, <3>1
  <2>2. CASE ~(i <= b)
    <3> DEFINE j == i - b
    <3>1. j \in 1..k /\ b + j = i /\ 0 + i = i
      BY <1>b, <1>1, <2>2
    <3> HIDE DEF j
    <3>2. w[b + j] = s[j] /\ u[b + j] = s[j]
      BY <1>3, <1>4, <1>k, <1>z, <3>1
    <3> QED
      BY <3>1, <3>2
  <2> QED
    BY <2>1, <2>2
<1> HIDE DEF f
<1>6. SubSeq(u, 0 + 1, f) = w
  BY <1>1, <1>3, <1>4, <1>5, BytesAre
<1> QED
  BY <1>6 DEF Bytes, f, w, v, u, t, k

LEMMA BackIs ==
  ASSUME NEW d, LineInv(d), NEW e \in 0..Length(d), NEW by \in Int, NEW z, LineInv(z),
         Shifted(d, e, by, z), e + by >= 0
  PROVE  Bytes(z, e + by, Length(z)) = Bytes(d, e, Length(d))
<1> DEFINE t == d.text
           u == z.text
           n == Len(t)
           f == Len(u)
           c == e + by
           w == SubSeq(t, e + 1, n)
<1>1. t \in Seq(Byte) /\ u \in Seq(Byte) /\ n \in Nat /\ f \in Nat /\ Length(d) = n /\ Length(z) = f
  BY LineFacts DEF Length
<1>2. f = n + by /\ \A i \in (e + 1)..n : u[i + by] = t[i]
  BY <1>1 DEF Shifted
<1>e. e \in Nat /\ n \in e..n
  BY <1>1
<1>f. Len(u) = f /\ Len(t) = n
  OBVIOUS
<1> HIDE DEF t, u, n, f
<1>3. w \in Seq(Byte) /\ Len(w) = n - e /\ \A i \in 1..(n - e) : w[i] = t[e + i]
  BY <1>1, <1>e, <1>f, SliceIs
<1> HIDE DEF w
<1>4. c \in Nat /\ f \in c..f /\ n - e = f - c
  BY <1>1, <1>2, <1>e
<1>5. ASSUME NEW i \in 1..(f - c) PROVE u[c + i] = w[i]
  <2> DEFINE j == e + i
  <2>1. j \in (e + 1)..n /\ j + by = c + i /\ i \in 1..(n - e)
    BY <1>1, <1>2, <1>e
  <2>2. w[i] = t[j]
    BY <1>3, <2>1
  <2> HIDE DEF j, c
  <2>3. u[j + by] = t[j]
    BY <1>2, <2>1
  <2> QED
    BY <2>1, <2>2, <2>3
<1> HIDE DEF c
<1>6. SubSeq(u, c + 1, f) = w
  BY <1>1, <1>3, <1>4, <1>5, <1>f, BytesAre
<1> QED
  BY <1>1, <1>6 DEF Bytes, c, u, t, w

(* The bytes from p on, if the first is a space.                           *)
LEMMA SpaceFirst ==
  ASSUME NEW z, LineInv(z), NEW p \in 0..(Length(z) - 1), ByteAt(z, p) = Space
  PROVE  Bytes(z, p, Length(z)) = <<Space>> \o Bytes(z, p + 1, Length(z))
<1> DEFINE u == z.text
           f == Len(u)
           s == <<Space>>
           v == SubSeq(u, p + 1 + 1, f)
           w == s \o v
<1>1. u \in Seq(Byte) /\ f \in Nat /\ Length(z) = f /\ p \in Nat /\ f \in p..f /\ f \in (p + 1)..f
  BY LineFacts DEF Length
<1>2. u[p + 1] = Space
  BY DEF ByteAt
<1>s. s \in Seq(Byte) /\ Len(s) = 1 /\ s[1] = Space
  BY SpaceIs
<1>f. Len(u) = f
  OBVIOUS
<1> HIDE DEF u, f, s
<1>3. v \in Seq(Byte) /\ Len(v) = f - (p + 1) /\ \A i \in 1..(f - (p + 1)) : v[i] = u[p + 1 + i]
  BY <1>1, <1>f, SliceIs
<1> HIDE DEF v
<1>4. /\ w \in Seq(Byte) /\ Len(w) = Len(s) + Len(v)
      /\ \A i \in 1..Len(s) : w[i] = s[i]
      /\ \A i \in 1..Len(v) : w[Len(s) + i] = v[i]
  BY <1>s, <1>3, JoinIs
<1> HIDE DEF w
<1>5. Len(w) = f - p
  BY <1>1, <1>s, <1>3, <1>4
<1>6. ASSUME NEW i \in 1..(f - p) PROVE u[p + i] = w[i]
  <2>1. CASE i = 1
    BY <1>2, <1>s, <1>4, <2>1
  <2>2. CASE i # 1
    <3> DEFINE j == i - 1
    <3>1. j \in 1..(f - (p + 1)) /\ 1 + j = i /\ p + 1 + j = p + i
      BY <1>1, <2>2
    <3> HIDE DEF j
    <3>2. w[1 + j] = v[j] /\ v[j] = u[p + 1 + j]
      BY <1>s, <1>3, <1>4, <3>1
    <3> QED
      BY <3>1, <3>2
  <2> QED
    BY <2>1, <2>2
<1>7. SubSeq(u, p + 1, f) = w
  BY <1>1, <1>4, <1>5, <1>6, <1>f, BytesAre
<1> QED
  BY <1>1, <1>7 DEF Bytes, w, v, s, u

(* What WordReplaced says of the text.                                     *)
Replaces(d, b, e, s, z) ==
  /\ Bytes(z, 0, b + Len(s)) = Bytes(d, 0, b) \o s
  /\ z.pos = b + Len(s) + 1 /\ WhiteAt(z, b + Len(s))
  /\ Bytes(z, b + Len(s), Length(z)) \in
       {Bytes(d, e, Length(d)), <<Space>> \o Bytes(d, e, Length(d))}

LEMMA AcceptsReplaces ==
  ASSUME NEW d, LineInv(d), NEW b \in 0..Length(d), NEW e \in b..Length(d), NEW s \in Seq(Byte),
         NEW z, Accepts(d, b, e, s, z)
  PROVE  Replaces(d, b, e, s, z)
<1> DEFINE k == Len(s)
           p == b + k
           rest == Bytes(d, e, Length(d))
<1>1. /\ LineInv(z) /\ z.pos = p + 1 /\ WhiteAt(z, p)
      /\ \A i \in 1..b : z.text[i] = d.text[i]
      /\ \A i \in 1..k : z.text[b + i] = s[i]
      /\ \/ Shifted(d, e, k - (e - b), z)
         \/ Shifted(d, e, k - (e - b) + 1, z) /\ ByteAt(z, p) = Space
  BY DEF Accepts
<1>2. k \in Nat /\ Length(d) \in Nat /\ b \in Nat /\ e \in Nat /\ e \in 0..Length(d) /\ p \in Nat
  BY LineFacts, LenProperties
<1>3. p \in 0..(Length(z) - 1) /\ Length(z) \in Nat
  BY <1>1, <1>2, LineFacts
<1>4. Bytes(z, 0, p) = Bytes(d, 0, b) \o s
  <2>1. b + Len(s) <= Length(z)
    BY <1>2, <1>3
  <2> QED
    BY <1>1, <2>1, FrontIs
<1> HIDE DEF k
<1>5. CASE Shifted(d, e, k - (e - b), z)
  <2> DEFINE by == k - (e - b)
  <2>1. by \in Int /\ e + by = p /\ e + by >= 0 /\ Shifted(d, e, by, z)
    BY <1>2, <1>5
  <2> HIDE DEF by, p
  <2>2. Bytes(z, e + by, Length(z)) = rest
    BY <1>1, <1>2, <2>1, BackIs
  <2>3. Bytes(z, p, Length(z)) = rest
    BY <2>1, <2>2
  <2> QED
    BY <1>1, <1>4, <2>3 DEF Replaces, p, k
<1>6. CASE Shifted(d, e, k - (e - b) + 1, z) /\ ByteAt(z, p) = Space
  <2> DEFINE by == k - (e - b) + 1
  <2>1. by \in Int /\ e + by = p + 1 /\ e + by >= 0 /\ Shifted(d, e, by, z)
    BY <1>2, <1>6
  <2> HIDE DEF by, p
  <2>2. Bytes(z, e + by, Length(z)) = rest
    BY <1>1, <1>2, <2>1, BackIs
  <2>3. Bytes(z, p + 1, Length(z)) = rest
    BY <2>1, <2>2
  <2>4. Bytes(z, p, Length(z)) = <<Space>> \o Bytes(z, p + 1, Length(z))
    BY <1>1, <1>3, <1>6, SpaceFirst
  <2>5. Bytes(z, p, Length(z)) = <<Space>> \o rest
    BY <2>3, <2>4
  <2> QED
    BY <1>1, <1>4, <2>5 DEF Replaces, p, k
<1> QED
  BY <1>1, <1>5, <1>6

(* A step that accepts a suggestion replaces its word and nothing else.    *)
LEMMA WordIsReplaced ==
  ASSUME LineStands
  PROVE  WordReplaced
<1> DEFINE b == suggestion.start
           e == suggestion.end
           c == suggestion.commands[suggestion.selected + 1]
           v == suggestion.values[suggestion.selected + 1]
<1>1. LineInv(doc)
  BY StandsHere
<1>2. ASSUME Replaceable(doc, b, e)
      PROVE  b \in 0..Length(doc) /\ e \in b..Length(doc) /\ (b = 0 \/ WhiteAt(doc, b - 1))
  <2> HIDE DEF b, e
  <2> QED
    BY <1>2 DEF Replaceable
<1>4. ASSUME AcceptCommand, doc' # doc
      PROVE  /\ mode = "commandSuggesting" /\ (b = 0 \/ WhiteAt(doc, b - 1))
             /\ Replaces(doc, b, e, Table[c].token, doc') /\ OneMore(doc'.tokens, doc.tokens, c)
  <2>1. /\ mode = "commandSuggesting"
        /\ \/ FitsInstead(Len(Table[c].token) + 1) /\ doc' = WithToken(c)
           \/ doc' = doc
    BY <1>4 DEF AcceptCommand, Accepting, ShowLine, TooLong
  <2>2. RoomForToken(doc) /\ Replaceable(doc, b, e) /\ c \in Command
    BY <2>1, CommandsShown
  <2> HIDE DEF c
  <2>3. /\ Accepts(doc, b, e, Table[c].token, doc') /\ OneMore(doc'.tokens, doc.tokens, c)
    BY <1>1, <1>4, <2>1, <2>2, TokenAccepted
  <2>4. Table[c].token \in Seq(Byte)
    BY <2>2, TokenTexts
  <2> HIDE DEF b, e
  <2>5. Replaces(doc, b, e, Table[c].token, doc')
    BY <1>1, <1>2, <2>2, <2>3, <2>4, AcceptsReplaces
  <2> QED
    BY <1>2, <2>1, <2>2, <2>3, <2>5
<1>5. ASSUME AcceptArgument, doc' # doc
      PROVE  /\ mode = "argumentSuggesting" /\ (b = 0 \/ WhiteAt(doc, b - 1))
             /\ Replaces(doc, b, e, v, doc') /\ SameCommands(doc'.tokens, doc.tokens)
  <2>1. /\ mode = "argumentSuggesting"
        /\ \/ FitsInstead(Len(v) + IF Separated THEN 0 ELSE 1) /\ doc' = WithValue(v)
           \/ doc' = doc
    BY <1>5 DEF AcceptArgument, Accepting, ShowLine, TooLong
  <2>2. Replaceable(doc, b, e) /\ v \in Seq(Byte) /\ Whole(v)
    BY <2>1, ValuesShown
  <2> HIDE DEF v
  <2>3. Accepts(doc, b, e, v, doc') /\ SameCommands(doc'.tokens, doc.tokens)
    BY <1>1, <1>5, <2>1, <2>2, ValueAccepted
  <2> HIDE DEF b, e
  <2>4. Replaces(doc, b, e, v, doc')
    BY <1>1, <1>2, <2>2, <2>3, AcceptsReplaces
  <2> QED
    BY <1>2, <2>1, <2>2, <2>3, <2>4
<1>6. ASSUME AcceptCommand \/ AcceptArgument, doc' # doc
      PROVE  LET chosen == IF mode = "commandSuggesting" THEN Table[c].token ELSE v
             IN  /\ b = 0 \/ WhiteAt(doc, b - 1)
                 /\ Replaces(doc, b, e, chosen, doc')
                 /\ \A a \in Command :
                      Cardinality(OfCommand(doc'.tokens, a)) =
                      Cardinality(OfCommand(doc.tokens, a)) +
                        IF mode = "commandSuggesting" /\ a = c THEN 1 ELSE 0
  <2> HIDE DEF b, e, c, v
  <2>1. CASE AcceptCommand
    BY <1>4, <1>6, <2>1 DEF OneMore
  <2>2. CASE AcceptArgument
    <3>1. \A a : Cardinality(OfCommand(doc.tokens, a)) \in Nat
      <4> TAKE a
      <4>1. OfCommand(doc.tokens, a) \in SUBSET doc.tokens
        BY DEF OfCommand
      <4>2. IsFiniteSet(OfCommand(doc.tokens, a))
        BY <1>1, <4>1, TokensFinite, FS_Subset
      <4> QED
        BY <4>2, FS_CardinalityType
    <3>2. mode # "commandSuggesting"
      BY <1>5, <1>6, <2>2
    <3> QED
      BY <1>5, <1>6, <2>2, <3>1, <3>2 DEF SameCommands
  <2> QED
    BY <1>6, <2>1, <2>2
<1> QED
  BY <1>6 DEF WordReplaced, Replaces, OfCommand

(* Accepting a suggestion (acceptSuggestion_, acceptArgumentSuggestion_)   *)
(* puts it in the place of the word it was made for, and of nothing else.  *)
THEOREM AcceptedWordReplaced == LineSpec => AcceptReplacesWord
<1>1. LineStands => [WordReplaced]_lineVars
  BY WordIsReplaced
<1> QED
  BY <1>1, LineAlwaysStands, PTL DEF AcceptReplacesWord

-----------------------------------------------------------------------------
\* The words of the line

WhiteRun(d, p, r) == Max({x \in p..r : AllWhite(d, p, x)})
WordRun(d, p, r) == Max({x \in p..r : \A i \in p..(x - 1) : ~WhiteAt(d, i)})

LEMMA WhiteRunIs ==
  ASSUME NEW d, NEW p \in Nat, NEW r \in Nat, p <= r,
         NEW q, q = WhiteRun(d, p, r)
  PROVE  /\ q \in p..r /\ \A i \in p..(q - 1) : WhiteAt(d, i)
         /\ q = r \/ ~WhiteAt(d, q)
<1> DEFINE Q == {x \in p..r : AllWhite(d, p, x)}
<1>1. p \in Q /\ Q \in SUBSET (0..r) /\ q = Max(Q)
  BY DEF WhiteRun, AllWhite
<1>2. \A x \in p..r : x \in Q <=> \A i \in p..(x - 1) : WhiteAt(d, i)
  BY DEF AllWhite
<1>3. \A x \in Q : x \in p..r
  OBVIOUS
<1> HIDE DEF Q
<1>4. q \in Q /\ \A x \in Q : x <= q
  <2>1. Q # {}
    BY <1>1
  <2> QED
    BY <1>1, <2>1, MaxIs
<1>5. q \in p..r /\ \A i \in p..(q - 1) : WhiteAt(d, i)
  BY <1>2, <1>3, <1>4
<1>6. ASSUME q # r, WhiteAt(d, q) PROVE FALSE
  <2>1. q + 1 \in p..r /\ ~(q + 1 <= q)
    BY <1>5, <1>6
  <2>2. \A i \in p..(q + 1 - 1) : i = q \/ i \in p..(q - 1)
    BY <1>5
  <2>3. q + 1 \in Q
    BY <1>2, <1>5, <1>6, <2>1, <2>2
  <2> QED
    BY <1>4, <2>1, <2>3
<1> QED
  BY <1>5, <1>6

LEMMA WordRunIs ==
  ASSUME NEW d, NEW p \in Nat, NEW r \in Nat, p <= r,
         NEW q, q = WordRun(d, p, r)
  PROVE  /\ q \in p..r /\ \A i \in p..(q - 1) : ~WhiteAt(d, i)
         /\ q = r \/ WhiteAt(d, q)
<1> DEFINE Q == {x \in p..r : \A i \in p..(x - 1) : ~WhiteAt(d, i)}
<1>1. p \in Q /\ Q \in SUBSET (0..r) /\ q = Max(Q)
  BY DEF WordRun
<1>2. \A x \in p..r : x \in Q <=> \A i \in p..(x - 1) : ~WhiteAt(d, i)
  OBVIOUS
<1>3. \A x \in Q : x \in p..r
  OBVIOUS
<1> HIDE DEF Q
<1>4. q \in Q /\ \A x \in Q : x <= q
  <2>1. Q # {}
    BY <1>1
  <2> QED
    BY <1>1, <2>1, MaxIs
<1>5. q \in p..r /\ \A i \in p..(q - 1) : ~WhiteAt(d, i)
  BY <1>2, <1>3, <1>4
<1>6. ASSUME q # r, ~WhiteAt(d, q) PROVE FALSE
  <2>1. q + 1 \in p..r /\ ~(q + 1 <= q)
    BY <1>5, <1>6
  <2>2. \A i \in p..(q + 1 - 1) : i = q \/ i \in p..(q - 1)
    BY <1>5
  <2>3. q + 1 \in Q
    BY <1>2, <1>5, <1>6, <2>1, <2>2
  <2> QED
    BY <1>4, <2>1, <2>3
<1> QED
  BY <1>5, <1>6

(* From a up to b the line doc holds one word.                             *)
Spells(a, b) ==
  /\ a \in 0..Length(doc) /\ b \in 0..Length(doc) /\ a < b
  /\ \A i \in a..(b - 1) : ~WhiteAt(doc, i)
  /\ a = 0 \/ WhiteAt(doc, a - 1)
  /\ b = Length(doc) \/ WhiteAt(doc, b)

LEMMA WordsSpell ==
  /\ \A a, b : <<a, b>> \in Words <=> Spells(a, b)
  /\ \A w \in Words : w = <<w[1], w[2]>> /\ Spells(w[1], w[2])
  BY DEF Words, Spells

LEMMA SpellFacts ==
  ASSUME LineInv(doc), NEW a, NEW b, Spells(a, b)
  PROVE  /\ a \in Nat /\ b \in Nat /\ a < b /\ b <= Length(doc) /\ Length(doc) \in Nat
         /\ \A i \in Nat : a <= i /\ i < b => ~WhiteAt(doc, i)
         /\ a = 0 \/ WhiteAt(doc, a - 1)
         /\ b = Length(doc) \/ WhiteAt(doc, b)
<1>1. Length(doc) \in Nat
  BY LineFacts
<1>2. /\ a \in 0..Length(doc) /\ b \in 0..Length(doc) /\ a < b
      /\ \A i \in a..(b - 1) : ~WhiteAt(doc, i)
      /\ a = 0 \/ WhiteAt(doc, a - 1)
      /\ b = Length(doc) \/ WhiteAt(doc, b)
  BY DEF Spells
<1>3. ASSUME NEW i \in Nat, a <= i, i < b PROVE ~WhiteAt(doc, i)
  <2>1. i \in a..(b - 1)
    BY <1>1, <1>2, <1>3
  <2> QED
    BY <1>2, <2>1
<1> QED
  BY <1>1, <1>2, <1>3

(* Two words that share a byte are one.                                    *)
LEMMA SameWord ==
  ASSUME LineInv(doc), NEW a, NEW b, Spells(a, b), NEW c, NEW e, Spells(c, e),
         NEW i \in Nat, a <= i, i < b, c <= i, i < e
  PROVE  a = c /\ b = e
<1>1. /\ a \in Nat /\ b \in Nat /\ a < b /\ b <= Length(doc) /\ Length(doc) \in Nat
      /\ \A j \in Nat : a <= j /\ j < b => ~WhiteAt(doc, j)
      /\ a = 0 \/ WhiteAt(doc, a - 1)
      /\ b = Length(doc) \/ WhiteAt(doc, b)
  BY SpellFacts
<1>2. /\ c \in Nat /\ e \in Nat /\ c < e /\ e <= Length(doc)
      /\ \A j \in Nat : c <= j /\ j < e => ~WhiteAt(doc, j)
      /\ c = 0 \/ WhiteAt(doc, c - 1)
      /\ e = Length(doc) \/ WhiteAt(doc, e)
  BY SpellFacts
<1>3. ~(a < c)
  <2> SUFFICES ASSUME a < c PROVE FALSE
    OBVIOUS
  <2>1. c - 1 \in Nat /\ a <= c - 1 /\ c - 1 < b /\ c # 0
    BY <1>1, <1>2
  <2> QED
    BY <1>1, <1>2, <2>1
<1>4. ~(c < a)
  <2> SUFFICES ASSUME c < a PROVE FALSE
    OBVIOUS
  <2>1. a - 1 \in Nat /\ c <= a - 1 /\ a - 1 < e /\ a # 0
    BY <1>1, <1>2
  <2> QED
    BY <1>1, <1>2, <2>1
<1>5. ~(b < e)
  <2> SUFFICES ASSUME b < e PROVE FALSE
    OBVIOUS
  <2>1. c <= b /\ b # Length(doc)
    BY <1>1, <1>2
  <2> QED
    BY <1>1, <1>2, <2>1
<1>6. ~(e < b)
  <2> SUFFICES ASSUME e < b PROVE FALSE
    OBVIOUS
  <2>1. a <= e /\ e # Length(doc)
    BY <1>1, <1>2
  <2> QED
    BY <1>1, <1>2, <2>1
<1> QED
  BY <1>1, <1>2, <1>3, <1>4, <1>5, <1>6

(* Every byte that is not white space is in a word.                        *)
LEMMA WordAround ==
  ASSUME LineInv(doc), NEW i \in 0..(Length(doc) - 1), ~WhiteAt(doc, i)
  PROVE  \E a \in Nat, b \in Nat : Spells(a, b) /\ a <= i /\ i < b
<1> DEFINE a == WordBack(doc, i)
           b == WordAhead(doc, i)
<1>1. Length(doc) \in Nat /\ i \in Nat /\ i \in 0..Length(doc)
  BY LineFacts
<1>2. a \in 0..i /\ (\A j \in a..(i - 1) : ~WhiteAt(doc, j)) /\ (a = 0 \/ WhiteAt(doc, a - 1))
  BY <1>1, WordBackIs
<1>3. /\ b \in i..Length(doc) /\ (\A j \in i..(b - 1) : ~WhiteAt(doc, j))
      /\ (b = Length(doc) \/ WhiteAt(doc, b))
  BY <1>1, WordAheadIs
<1> HIDE DEF a, b
<1>4. i < b
  <2>1. b # i
    BY <1>1, <1>3
  <2> QED
    BY <1>1, <1>3, <2>1
<1>5. \A j \in a..(b - 1) : ~WhiteAt(doc, j)
  <2> TAKE j \in a..(b - 1)
  <2>1. j \in a..(i - 1) \/ j \in i..(b - 1)
    BY <1>1, <1>2, <1>3
  <2> QED
    BY <1>2, <1>3, <2>1
<1>6. a \in 0..Length(doc) /\ b \in 0..Length(doc) /\ a < b /\ a <= i /\ a \in Nat /\ b \in Nat
  BY <1>1, <1>2, <1>3, <1>4
<1>7. Spells(a, b)
  BY <1>2, <1>3, <1>5, <1>6 DEF Spells
<1> QED
  BY <1>4, <1>6, <1>7

(* A word before another ends before it.                                   *)
LEMMA WordsApart ==
  ASSUME LineInv(doc), NEW a, NEW b, Spells(a, b), NEW c, NEW e, Spells(c, e), a < c
  PROVE  b <= c
<1>1. a \in Nat /\ b \in Nat /\ c \in Nat /\ e \in Nat /\ c < e
  BY SpellFacts
<1>2. ASSUME c < b PROVE FALSE
  <2>1. a <= c /\ c <= c
    BY <1>1
  <2>2. a = c
    BY <1>1, <1>2, <2>1, SameWord
  <2> QED
    BY <1>1, <2>2
<1> QED
  BY <1>1, <1>2

(* The argument parseArg_ reads.                                           *)
LEMMA ArgumentIs ==
  ASSUME LineInv(doc), NEW t \in doc.tokens, NEW r, r = RegionEnd(doc, t),
         NEW a, a = ArgumentBegin(doc, t), NEW b, b = ArgumentWordEnd(doc, t)
  PROVE  /\ r \in Nat /\ a \in Nat /\ b \in Nat /\ t.end <= a /\ a <= b /\ b <= r
         /\ \A i \in Nat : t.end <= i /\ i < a => WhiteAt(doc, i)
         /\ \A i \in Nat : a <= i /\ i < b => ~WhiteAt(doc, i)
         /\ a = r \/ ~WhiteAt(doc, a)
         /\ b = r \/ WhiteAt(doc, b)
         /\ a < r => a < b
<1>1. t.end \in Nat /\ Length(doc) \in Nat
  BY TokenFacts, LineFacts
<1>2. r \in t.end..Length(doc)
  BY RegionIs
<1>3. r \in Nat /\ t.end <= r
  BY <1>1, <1>2
<1>4. /\ a \in t.end..r /\ \A i \in t.end..(a - 1) : WhiteAt(doc, i)
      /\ a = r \/ ~WhiteAt(doc, a)
  <2> DEFINE p == t.end
  <2>1. a = WhiteRun(doc, p, r)
    BY DEF ArgumentBegin, WhiteRun
  <2>2. p \in Nat /\ p <= r
    BY <1>1, <1>3
  <2> HIDE DEF p
  <2>3. /\ a \in p..r /\ \A i \in p..(a - 1) : WhiteAt(doc, i)
        /\ a = r \/ ~WhiteAt(doc, a)
    BY <1>3, <2>1, <2>2, WhiteRunIs
  <2> QED
    BY <2>3 DEF p
<1>5. a \in Nat /\ a <= r
  BY <1>1, <1>3, <1>4
<1>6. /\ b \in a..r /\ \A i \in a..(b - 1) : ~WhiteAt(doc, i)
      /\ b = r \/ WhiteAt(doc, b)
  <2>1. b = WordRun(doc, a, r)
    BY DEF ArgumentWordEnd, WordRun
  <2> QED
    BY <1>3, <1>5, <2>1, WordRunIs
<1>7. b \in Nat /\ a <= b /\ b <= r /\ t.end <= a
  BY <1>1, <1>3, <1>4, <1>5, <1>6
<1>8. ASSUME NEW i \in Nat, t.end <= i, i < a PROVE WhiteAt(doc, i)
  <2>1. i \in t.end..(a - 1)
    BY <1>1, <1>5, <1>8
  <2> QED
    BY <1>4, <2>1
<1>9. ASSUME NEW i \in Nat, a <= i, i < b PROVE ~WhiteAt(doc, i)
  <2>1. i \in a..(b - 1)
    BY <1>5, <1>7, <1>9
  <2> QED
    BY <1>6, <2>1
<1>10. a < r => a < b
  BY <1>3, <1>4, <1>5, <1>6, <1>7
<1> QED
  BY <1>3, <1>4, <1>5, <1>6, <1>7, <1>8, <1>9, <1>10

-----------------------------------------------------------------------------
\* A submission read word by word

(* What buildSubmission_ demands of the bytes on either side of token t.   *)
Fenced(t) ==
  /\ IF IsFirst(doc, t) THEN AllWhite(doc, 0, t.begin)
     ELSE t.begin > 0 /\ WhiteAt(doc, t.begin - 1)
  /\ t.end < RegionEnd(doc, t) => WhiteAt(doc, t.end)

TokensAreWords == \A t \in doc.tokens : Spells(t.begin, t.end)

LEMMA TokenBytesIs ==
  ASSUME LineInv(doc), NEW t \in doc.tokens, NEW i \in Nat, t.begin <= i, i < t.end
  PROVE  ~WhiteAt(doc, i)
<1>1. i \in t.begin..(t.end - 1)
  BY TokenFacts
<1> QED
  BY <1>1, TokenBytes

LEMMA FencedTokensAreWords ==
  ASSUME LineInv(doc), \A t \in doc.tokens : Fenced(t)
  PROVE  TokensAreWords
<1> SUFFICES ASSUME NEW t \in doc.tokens PROVE Spells(t.begin, t.end)
  BY DEF TokensAreWords
<1> DEFINE r == RegionEnd(doc, t)
<1>1. /\ t.begin \in Nat /\ t.end \in Nat /\ t.begin < t.end
      /\ t.end <= Length(doc) /\ Length(doc) \in Nat
  BY TokenFacts, LineFacts
<1>2. /\ r \in t.end..Length(doc)
      /\ r = Length(doc) \/ \E u \in doc.tokens : u.begin > t.begin /\ r = u.begin
  BY RegionIs
<1>3. /\ IF IsFirst(doc, t) THEN AllWhite(doc, 0, t.begin)
         ELSE t.begin > 0 /\ WhiteAt(doc, t.begin - 1)
      /\ t.end < r => WhiteAt(doc, t.end)
  BY DEF Fenced
<1> HIDE DEF r
<1>4. t.begin = 0 \/ WhiteAt(doc, t.begin - 1)
  <2>1. CASE IsFirst(doc, t) /\ t.begin # 0
    <3>1. t.begin - 1 \in 0..(t.begin - 1)
      BY <1>1, <2>1
    <3>2. \A i \in 0..(t.begin - 1) : WhiteAt(doc, i)
      BY <1>3, <2>1 DEF AllWhite
    <3> QED
      BY <3>1, <3>2
  <2> QED
    BY <1>3, <2>1
<1>5. t.end = Length(doc) \/ WhiteAt(doc, t.end)
  <2>1. CASE t.end = r /\ r # Length(doc)
    <3>1. PICK u \in doc.tokens : u.begin > t.begin /\ r = u.begin
      BY <1>2, <2>1
    <3>2. u.begin \in Nat /\ ~(u.begin <= t.begin)
      BY <1>1, <3>1, TokenFacts
    <3>3. ~IsFirst(doc, u)
      BY <3>2 DEF IsFirst
    <3>4. WhiteAt(doc, u.begin - 1)
      BY <3>3 DEF Fenced
    <3>5. u.begin - 1 \in Nat /\ t.begin <= u.begin - 1 /\ u.begin - 1 < t.end
      BY <1>1, <2>1, <3>1, <3>2
    <3> QED
      BY <3>4, <3>5, TokenBytesIs
  <2>2. CASE t.end # r
    <3>1. t.end < r
      BY <1>1, <1>2, <2>2
    <3> QED
      BY <1>3, <3>1
  <2>3. CASE t.end = r /\ r = Length(doc)
    BY <2>3
  <2> QED
    BY <2>1, <2>2, <2>3
<1>6. \A i \in t.begin..(t.end - 1) : ~WhiteAt(doc, i)
  BY TokenBytes
<1>7. t.begin \in 0..Length(doc) /\ t.end \in 0..Length(doc)
  BY <1>1
<1> QED
  BY <1>1, <1>4, <1>5, <1>6, <1>7 DEF Spells

LEMMA WordsAreFenced ==
  ASSUME LineInv(doc), TokensAreWords, NEW t \in doc.tokens,
         IsFirst(doc, t) => AllWhite(doc, 0, t.begin)
  PROVE  Fenced(t)
<1> DEFINE r == RegionEnd(doc, t)
<1>1. t.begin \in Nat /\ t.end \in Nat /\ Spells(t.begin, t.end) /\ Length(doc) \in Nat
  BY TokenFacts, LineFacts DEF TokensAreWords
<1>2. r \in t.end..Length(doc)
  BY RegionIs
<1>3. /\ t.begin = 0 \/ WhiteAt(doc, t.begin - 1)
      /\ t.end = Length(doc) \/ WhiteAt(doc, t.end)
  BY <1>1 DEF Spells
<1> HIDE DEF r
<1>4. t.end < r => WhiteAt(doc, t.end)
  BY <1>1, <1>2, <1>3
<1>5. ~IsFirst(doc, t) => t.begin > 0 /\ WhiteAt(doc, t.begin - 1)
  <2>1. ASSUME t.begin = 0 PROVE IsFirst(doc, t)
    <3>1. \A u \in doc.tokens : t.begin <= u.begin
      BY <2>1, TokenFacts
    <3> QED
      BY <3>1 DEF IsFirst
  <2> QED
    BY <1>1, <1>3, <2>1
<1> QED
  BY <1>4, <1>5 DEF Fenced, r

LEMMA CommandWordsAre ==
  ASSUME TokensAreWords
  PROVE  CommandWords = {<<t.begin, t.end>> : t \in doc.tokens}
  BY WordsSpell DEF CommandWords, TokensAreWords

(* No word that starts between a token and the next is a command.          *)
LEMMA NoCommandBetween ==
  ASSUME LineInv(doc), NEW t \in doc.tokens, NEW x \in Nat, NEW y, t.begin < x,
         x < RegionEnd(doc, t)
  PROVE  <<x, y>> \notin CommandWords
<1> DEFINE r == RegionEnd(doc, t)
<1>1. SUFFICES ASSUME NEW u \in doc.tokens, x = u.begin PROVE FALSE
  BY DEF CommandWords
<1>2. /\ r \in t.end..Length(doc)
      /\ u = t \/ u.end <= t.begin \/ (u.begin > t.begin /\ r <= u.begin)
  BY RegionIs
<1>3. /\ t.begin \in Nat /\ t.end \in Nat /\ Length(doc) \in Nat
      /\ u.begin \in Nat /\ u.end \in Nat /\ u.begin < u.end
  BY TokenFacts, LineFacts
<1>4. x < r
  OBVIOUS
<1> HIDE DEF r
<1>5. r \in Nat
  BY <1>2, <1>3
<1> QED
  BY <1>1, <1>2, <1>3, <1>4, <1>5

(* What follows the command word of token t.                               *)
LEMMA ArgumentsOfIs ==
  ASSUME NEW a, NEW b, NEW x, NEW y
  PROVE  <<x, y>> \in ArgumentsOf(<<a, b>>) <=>
           /\ Spells(x, y) /\ x > a
           /\ \A c, e : Spells(c, e) /\ c > a => x <= c
           /\ <<x, y>> \notin CommandWords
<1> DEFINE w == <<a, b>>
           v == <<x, y>>
<1>1. w[1] = a /\ v[1] = x
  OBVIOUS
<1>2. (\A z \in Words : z[1] > a => x <= z[1]) <=> (\A c, e : Spells(c, e) /\ c > a => x <= c)
  <2>1. ASSUME \A z \in Words : z[1] > a => x <= z[1], NEW c, NEW e, Spells(c, e), c > a
        PROVE  x <= c
    <3>1. <<c, e>> \in Words /\ <<c, e>>[1] = c
      BY <2>1, WordsSpell
    <3> QED
      BY <2>1, <3>1
  <2>2. ASSUME \A c, e : Spells(c, e) /\ c > a => x <= c, NEW z \in Words, z[1] > a
        PROVE  x <= z[1]
    BY <2>2, WordsSpell
  <2> QED
    BY <2>1, <2>2
<1>3. v \in Words <=> Spells(x, y)
  BY WordsSpell
<1> QED
  BY <1>1, <1>2, <1>3 DEF ArgumentsOf, WordAfter

LEMMA ArgumentsArePairs ==
  ASSUME NEW w, NEW v \in ArgumentsOf(w)
  PROVE  v = <<v[1], v[2]>> /\ v \in Words
  BY WordsSpell DEF ArgumentsOf, WordAfter

(* The words after a command are the one parseArg_ reads, if there is one. *)
LEMMA ArgumentsAre ==
  ASSUME LineInv(doc), TokensAreWords, NEW t \in doc.tokens,
         NEW r, r = RegionEnd(doc, t),
         NEW a, a = ArgumentBegin(doc, t), NEW b, b = ArgumentWordEnd(doc, t)
  PROVE  /\ a < r => Spells(a, b) /\ ArgumentsOf(<<t.begin, t.end>>) = {<<a, b>>}
         /\ ~(a < r) => ArgumentsOf(<<t.begin, t.end>>) = {}
<1>1. /\ t.begin \in Nat /\ t.end \in Nat /\ t.begin < t.end /\ t.end <= Length(doc)
      /\ Length(doc) \in Nat /\ Spells(t.begin, t.end)
  BY TokenFacts, LineFacts DEF TokensAreWords
<1>2. /\ r \in Nat /\ a \in Nat /\ b \in Nat /\ t.end <= a /\ a <= b /\ b <= r
      /\ \A i \in Nat : t.end <= i /\ i < a => WhiteAt(doc, i)
      /\ \A i \in Nat : a <= i /\ i < b => ~WhiteAt(doc, i)
      /\ a = r \/ ~WhiteAt(doc, a)
      /\ b = r \/ WhiteAt(doc, b)
      /\ a < r => a < b
  BY ArgumentIs
<1>3. /\ r \in t.end..Length(doc)
      /\ r = Length(doc) \/ \E u \in doc.tokens : u.begin > t.begin /\ r = u.begin
  BY RegionIs
<1>4. t.end = Length(doc) \/ WhiteAt(doc, t.end)
  BY <1>1 DEF Spells
(* A word that starts behind the token starts at a or later.               *)
<1>5. ASSUME NEW c, NEW e, Spells(c, e), c > t.begin
      PROVE  c \in Nat /\ e \in Nat /\ c < e /\ e <= Length(doc) /\ a <= c
  <2>1. c \in Nat /\ e \in Nat /\ c < e /\ e <= Length(doc) /\ ~WhiteAt(doc, c)
    <3>1. /\ c \in Nat /\ e \in Nat /\ c < e /\ e <= Length(doc)
          /\ \A i \in Nat : c <= i /\ i < e => ~WhiteAt(doc, i)
      BY <1>5, SpellFacts
    <3>2. c <= c
      BY <3>1
    <3> QED
      BY <3>1, <3>2
  <2>2. t.end <= c
    <3>1. t.begin < c
      BY <1>1, <1>5, <2>1
    <3> QED
      BY <1>1, <1>5, <3>1, WordsApart
  <2>3. ~(c < a)
    BY <1>2, <2>1, <2>2
  <2> QED
    BY <1>2, <2>1, <2>3
<1>6. ASSUME a < r PROVE Spells(a, b)
  <2>1. a # t.end
    BY <1>1, <1>2, <1>3, <1>4, <1>6
  <2>2. WhiteAt(doc, a - 1)
    <3>1. a - 1 \in Nat /\ t.end <= a - 1 /\ a - 1 < a
      BY <1>1, <1>2, <2>1
    <3> QED
      BY <1>2, <3>1
  <2>3. ASSUME b # Length(doc), ~WhiteAt(doc, b) PROVE FALSE
    <3>1. b = r /\ r # Length(doc)
      BY <1>2, <2>3
    <3>2. PICK u \in doc.tokens : u.begin > t.begin /\ r = u.begin
      BY <1>3, <3>1
    <3>3. u.begin = 0 \/ WhiteAt(doc, u.begin - 1)
      BY DEF TokensAreWords, Spells
    <3>4. b - 1 \in Nat /\ a <= b - 1 /\ b - 1 < b /\ b # 0
      BY <1>2, <1>6
    <3>5. ~WhiteAt(doc, b - 1)
      BY <1>2, <3>4
    <3>6. u.begin = b
      BY <3>1, <3>2
    <3> QED
      BY <3>3, <3>4, <3>5, <3>6
  <2>4. \A i \in a..(b - 1) : ~WhiteAt(doc, i)
    <3> TAKE i \in a..(b - 1)
    <3>1. i \in Nat /\ a <= i /\ i < b
      BY <1>2
    <3> QED
      BY <1>2, <3>1
  <2>5. a \in 0..Length(doc) /\ b \in 0..Length(doc) /\ a < b
    BY <1>1, <1>2, <1>3, <1>6
  <2> QED
    BY <2>2, <2>3, <2>4, <2>5 DEF Spells
<1>7. ASSUME a < r PROVE ArgumentsOf(<<t.begin, t.end>>) = {<<a, b>>}
  <2>1. <<a, b>> \in ArgumentsOf(<<t.begin, t.end>>)
    <3>1. a > t.begin /\ t.begin < a
      BY <1>1, <1>2
    <3>2. <<a, b>> \notin CommandWords
      BY <1>2, <1>7, <3>1, NoCommandBetween
    <3> QED
      BY <1>5, <1>6, <1>7, <3>1, <3>2, ArgumentsOfIs
  <2>2. ASSUME NEW v \in ArgumentsOf(<<t.begin, t.end>>) PROVE v = <<a, b>>
    <3> DEFINE x == v[1]
               y == v[2]
    <3>1. v = <<x, y>>
      BY ArgumentsArePairs
    <3> HIDE DEF x, y
    <3>2. <<x, y>> \in ArgumentsOf(<<t.begin, t.end>>)
      BY <3>1
    <3>3. Spells(x, y) /\ x > t.begin /\ \A c, e : Spells(c, e) /\ c > t.begin => x <= c
      BY <3>2, ArgumentsOfIs
    <3>4. x \in Nat /\ a <= x /\ x < y /\ y \in Nat
      BY <1>5, <3>3
    <3>5. x <= a
      <4>1. a > t.begin
        BY <1>1, <1>2
      <4> QED
        BY <1>6, <1>7, <3>3, <4>1
    <3>6. a <= a /\ a < b /\ x <= a /\ a < y
      BY <1>2, <1>7, <3>4, <3>5
    <3>7. x = a /\ y = b
      BY <1>2, <1>6, <1>7, <3>3, <3>6, SameWord
    <3> QED
      BY <3>1, <3>7
  <2> QED
    BY <2>1, <2>2
<1>8. ASSUME ~(a < r), NEW v \in ArgumentsOf(<<t.begin, t.end>>) PROVE FALSE
  <2> DEFINE x == v[1]
             y == v[2]
  <2>1. v = <<x, y>>
    BY <1>8, ArgumentsArePairs
  <2> HIDE DEF x, y
  <2>2. <<x, y>> \in ArgumentsOf(<<t.begin, t.end>>)
    BY <1>8, <2>1
  <2>3. /\ Spells(x, y) /\ x > t.begin /\ \A c, e : Spells(c, e) /\ c > t.begin => x <= c
        /\ <<x, y>> \notin CommandWords
    BY <2>2, ArgumentsOfIs
  <2>4. x \in Nat /\ y \in Nat /\ x < y /\ y <= Length(doc) /\ a <= x
    BY <1>5, <2>3
  <2>5. r # Length(doc) /\ a = r
    BY <1>1, <1>2, <1>8, <2>4
  <2>6. PICK u \in doc.tokens : u.begin > t.begin /\ r = u.begin
    BY <1>3, <2>5
  <2>7. Spells(u.begin, u.end) /\ u.begin \in Nat /\ u.end \in Nat /\ u.begin < u.end
    BY TokenFacts DEF TokensAreWords
  <2>8. x <= u.begin
    BY <2>3, <2>6, <2>7
  <2>9. x = u.begin
    BY <2>4, <2>5, <2>6, <2>7, <2>8
  <2>10. y = u.end
    <3>1. x <= x /\ u.begin <= x /\ x < u.end
      BY <2>4, <2>7, <2>9
    <3> QED
      BY <2>3, <2>4, <2>7, <3>1, SameWord
  <2>11. <<x, y>> \in CommandWords
    BY <2>9, <2>10, CommandWordsAre
  <2> QED
    BY <2>3, <2>11
<1> QED
  BY <1>6, <1>7, <1>8

(* parseArg_ reads nothing exactly if there is nothing to read.            *)
LEMMA ArgumentEmpty ==
  ASSUME LineInv(doc), NEW t \in doc.tokens
  PROVE  Argument(doc, t) = <<>> <=> ~(ArgumentBegin(doc, t) < RegionEnd(doc, t))
<1> DEFINE r == RegionEnd(doc, t)
           a == ArgumentBegin(doc, t)
           b == ArgumentWordEnd(doc, t)
           s == doc.text
<1>1. Argument(doc, t) = SubSeq(s, a + 1, b)
  BY DEF Argument, Bytes
<1>2. r \in Nat /\ a \in Nat /\ b \in Nat /\ a <= b /\ b <= r /\ (a < r => a < b)
      /\ (a = r \/ ~WhiteAt(doc, a)) /\ (b = r \/ WhiteAt(doc, b)) /\ t.end <= a
  BY ArgumentIs
<1>3. r \in t.end..Length(doc)
  BY RegionIs
<1>4. s \in Seq(Byte) /\ Length(doc) = Len(s) /\ Len(s) \in Nat /\ t.end \in Nat
  BY LineFacts, TokenFacts DEF Length
<1> HIDE DEF r, a, b, s
<1>5. b \in a..Len(s)
  BY <1>2, <1>3, <1>4
<1>6. SubSeq(s, a + 1, b) \in Seq(Byte) /\ Len(SubSeq(s, a + 1, b)) = b - a
  BY <1>2, <1>4, <1>5, SliceIs
<1>7. SubSeq(s, a + 1, b) = <<>> <=> b - a = 0
  BY <1>6, EmptySeq
<1>8. b - a = 0 <=> ~(a < r)
  BY <1>2
<1> QED
  BY <1>1, <1>7, <1>8 DEF r, a

(* How much argument a command has, either way.                            *)
LEMMA ArgumentRead ==
  ASSUME LineInv(doc), TokensAreWords, NEW t \in doc.tokens
  PROVE  /\ Cardinality(ArgumentsOf(<<t.begin, t.end>>)) =
              IF Argument(doc, t) = <<>> THEN 0 ELSE 1
         /\ Argument(doc, t) =
              IF ArgumentsOf(<<t.begin, t.end>>) = {} THEN <<>>
              ELSE LET w == CHOOSE v \in ArgumentsOf(<<t.begin, t.end>>) : TRUE
                   IN  Bytes(doc, w[1], w[2])
<1> DEFINE r == RegionEnd(doc, t)
           a == ArgumentBegin(doc, t)
           b == ArgumentWordEnd(doc, t)
           A == ArgumentsOf(<<t.begin, t.end>>)
<1>1. /\ a < r => A = {<<a, b>>}
      /\ ~(a < r) => A = {}
  BY ArgumentsAre
<1>2. Argument(doc, t) = <<>> <=> ~(a < r)
  BY ArgumentEmpty
<1>3. Argument(doc, t) = Bytes(doc, a, b)
  BY DEF Argument
<1>4. Cardinality({}) = 0 /\ Cardinality({<<a, b>>}) = 1
  BY FS_EmptySet, FS_Singleton
<1> HIDE DEF r, a, b, A
<1>5. CASE a < r
  <2>1. A = {<<a, b>>} /\ A # {} /\ Argument(doc, t) # <<>>
    BY <1>1, <1>2, <1>5
  <2>2. ASSUME NEW w, w = CHOOSE v \in A : TRUE PROVE w[1] = a /\ w[2] = b
    <3>1. w \in A
      BY <2>1, <2>2
    <3>2. w = <<a, b>>
      BY <2>1, <3>1
    <3> QED
      BY <3>2
  <2>3. ASSUME NEW w, w = CHOOSE v \in A : TRUE PROVE Argument(doc, t) = Bytes(doc, w[1], w[2])
    BY <1>3, <2>2, <2>3
  <2> QED
    BY <1>4, <2>1, <2>3 DEF A
<1>6. CASE ~(a < r)
  BY <1>1, <1>2, <1>4, <1>6 DEF A
<1> QED
  BY <1>5, <1>6

(* The first token of the line.                                            *)
LEMMA FirstToken ==
  ASSUME LineInv(doc), doc.tokens # {}
  PROVE  \E t \in doc.tokens : IsFirst(doc, t)
<1> DEFINE B == {t.begin : t \in doc.tokens}
<1>1. B \in SUBSET Nat /\ B # {} /\ \A t \in doc.tokens : t.begin \in B
  BY TokenFacts
<1>2. \A m \in B : \E t \in doc.tokens : t.begin = m
  OBVIOUS
<1> HIDE DEF B
<1>3. Min(B) \in B /\ \A m \in B : Min(B) <= m
  BY <1>1, MinIs
<1>4. PICK t \in doc.tokens : t.begin = Min(B)
  BY <1>2, <1>3
<1> QED
  BY <1>1, <1>3, <1>4 DEF IsFirst

(* The last token that starts at x or before.                              *)
LEMMA TokenBefore ==
  ASSUME LineInv(doc), NEW x \in Nat, NEW u \in doc.tokens, u.begin <= x
  PROVE  \E t \in doc.tokens :
            t.begin <= x /\ \A v \in doc.tokens : v.begin > t.begin => x < v.begin
<1> DEFINE B == {i \in 0..x : \E t \in doc.tokens : t.begin = i}
<1>1. B \in SUBSET (0..x)
  OBVIOUS
<1>2. \A t \in doc.tokens : t.begin \in Nat
  BY TokenFacts
<1>3. \A t \in doc.tokens : t.begin <= x => t.begin \in B
  BY <1>2
<1>4. \A i \in B : i \in Nat /\ i <= x /\ \E t \in doc.tokens : t.begin = i
  OBVIOUS
<1>5. u.begin \in B
  BY <1>3
<1> HIDE DEF B
<1>6. Max(B) \in B /\ \A i \in B : i <= Max(B)
  <2>1. B # {}
    BY <1>5
  <2> QED
    BY <1>1, <2>1, MaxIs
<1>7. PICK t \in doc.tokens : t.begin = Max(B)
  BY <1>4, <1>6
<1>8. t.begin <= x
  BY <1>4, <1>6, <1>7
<1>9. ASSUME NEW v \in doc.tokens, v.begin > t.begin PROVE x < v.begin
  <2>1. ~(v.begin <= x)
    <3>1. v.begin <= x => v.begin <= t.begin
      BY <1>3, <1>6, <1>7
    <3> QED
      BY <1>2, <1>9, <3>1
  <2> QED
    BY <1>2, <2>1
<1> QED
  BY <1>8, <1>9

(* The words there are are those read: no other word is on the line.       *)
WordsRead == Words = CommandWords \cup UNION {ArgumentsOf(w) : w \in CommandWords}

LEMMA WordIsRead ==
  ASSUME WordsRead, TokensAreWords, NEW x, NEW y, Spells(x, y)
  PROVE  \E u \in doc.tokens :
           <<x, y>> = <<u.begin, u.end>> \/ <<x, y>> \in ArgumentsOf(<<u.begin, u.end>>)
<1>1. <<x, y>> \in Words
  BY WordsSpell
<1>2. <<x, y>> \in CommandWords \/ \E w \in CommandWords : <<x, y>> \in ArgumentsOf(w)
  BY <1>1 DEF WordsRead
<1> QED
  BY <1>2, CommandWordsAre

LEMMA ReadLeadsWithCommand ==
  ASSUME LineInv(doc), TokensAreWords, WordsRead, NEW t \in doc.tokens, IsFirst(doc, t)
  PROVE  AllWhite(doc, 0, t.begin)
<1> SUFFICES ASSUME NEW i \in 0..(t.begin - 1), ~WhiteAt(doc, i) PROVE FALSE
  BY DEF AllWhite
<1>1. /\ t.begin \in Nat /\ t.end \in Nat /\ t.begin < t.end
      /\ t.end <= Length(doc) /\ Length(doc) \in Nat
  BY TokenFacts, LineFacts
<1>2. i \in 0..(Length(doc) - 1) /\ i \in Nat /\ i < t.begin
  BY <1>1
<1>3. PICK x \in Nat, y \in Nat : Spells(x, y) /\ x <= i /\ i < y
  BY <1>2, WordAround
<1>4. PICK u \in doc.tokens :
        <<x, y>> = <<u.begin, u.end>> \/ <<x, y>> \in ArgumentsOf(<<u.begin, u.end>>)
  BY <1>3, WordIsRead
<1>5. x = u.begin \/ x > u.begin
  BY <1>4, ArgumentsOfIs
<1>6. t.begin <= u.begin /\ u.begin \in Nat
  BY TokenFacts DEF IsFirst
<1> QED
  BY <1>1, <1>2, <1>3, <1>5, <1>6

LEMMA ReadHasNoMore ==
  ASSUME LineInv(doc), TokensAreWords, WordsRead, NEW t \in doc.tokens
  PROVE  OneArgumentAtMost(doc, t)
<1> DEFINE r == RegionEnd(doc, t)
           a == ArgumentBegin(doc, t)
           b == ArgumentWordEnd(doc, t)
<1>1. SUFFICES ASSUME NEW i \in b..(r - 1), ~WhiteAt(doc, i) PROVE FALSE
  BY DEF OneArgumentAtMost, AllWhite
<1>2. /\ r \in Nat /\ a \in Nat /\ b \in Nat /\ t.end <= a /\ a <= b /\ b <= r
      /\ b = r \/ WhiteAt(doc, b)
      /\ a < r => a < b
  BY ArgumentIs
<1>3. /\ r \in t.end..Length(doc)
      /\ \A u \in doc.tokens : u = t \/ u.end <= t.begin \/ (u.begin > t.begin /\ r <= u.begin)
  BY RegionIs
<1>4. /\ t.begin \in Nat /\ t.end \in Nat /\ t.begin < t.end /\ Length(doc) \in Nat
      /\ Spells(t.begin, t.end)
  BY TokenFacts, LineFacts DEF TokensAreWords
<1>5. /\ a < r => ArgumentsOf(<<t.begin, t.end>>) = {<<a, b>>}
      /\ ~(a < r) => ArgumentsOf(<<t.begin, t.end>>) = {}
  BY ArgumentsAre
<1> HIDE DEF r, a, b
<1>6. i \in Nat /\ b <= i /\ i < r /\ a < r /\ a < b /\ b # r /\ i \in 0..(Length(doc) - 1)
  BY <1>1, <1>2, <1>3, <1>4
<1>7. PICK x \in Nat, y \in Nat : Spells(x, y) /\ x <= i /\ i < y
  BY <1>1, <1>6, WordAround
<1>8. b < x
  <2>1. ~(x <= b)
    <3>1. \A j \in Nat : x <= j /\ j < y => ~WhiteAt(doc, j)
      BY <1>7, SpellFacts
    <3>2. x <= b => x <= b /\ b < y
      BY <1>2, <1>6, <1>7
    <3> QED
      BY <1>2, <1>6, <3>1, <3>2
  <2> QED
    BY <1>2, <1>7, <2>1
<1>9. x < r /\ t.begin < x /\ a # x
  BY <1>2, <1>4, <1>6, <1>7, <1>8
<1>10. PICK u \in doc.tokens :
        <<x, y>> = <<u.begin, u.end>> \/ <<x, y>> \in ArgumentsOf(<<u.begin, u.end>>)
  BY <1>7, WordIsRead
<1>11. x = u.begin \/ (x > u.begin /\ \A c, e : Spells(c, e) /\ c > u.begin => x <= c)
  BY <1>10, ArgumentsOfIs
<1>12. /\ u = t \/ u.end <= t.begin \/ (u.begin > t.begin /\ r <= u.begin)
       /\ u.begin \in Nat /\ u.end \in Nat /\ u.begin < u.end
  BY <1>3, TokenFacts
<1>13. CASE u = t
  <2>1. x # t.begin
    BY <1>4, <1>9
  <2>2. <<x, y>> \in ArgumentsOf(<<t.begin, t.end>>)
    BY <1>10, <1>13, <2>1
  <2>3. <<x, y>> = <<a, b>>
    BY <1>5, <1>6, <2>2
  <2> QED
    BY <1>9, <2>3
<1>14. CASE u.end <= t.begin
  <2>1. t.begin > u.begin
    BY <1>4, <1>12, <1>14
  <2>2. x <= t.begin \/ x = u.begin
    BY <1>4, <1>11, <2>1
  <2> QED
    BY <1>4, <1>9, <1>12, <2>1, <2>2
<1>15. CASE r <= u.begin
  BY <1>2, <1>9, <1>11, <1>12, <1>15
<1> QED
  BY <1>12, <1>13, <1>14, <1>15

LEMMA NoOtherWord ==
  ASSUME LineInv(doc), TokensAreWords, doc.tokens # {},
         \A t \in doc.tokens : Fenced(t) /\ OneArgumentAtMost(doc, t)
  PROVE  WordsRead
<1>1. CommandWords \cup UNION {ArgumentsOf(w) : w \in CommandWords} \in SUBSET Words
  BY ArgumentsArePairs DEF CommandWords
<1>2. SUFFICES ASSUME NEW z \in Words
               PROVE  z \in CommandWords \cup UNION {ArgumentsOf(w) : w \in CommandWords}
  BY <1>1 DEF WordsRead
<1> DEFINE x == z[1]
           y == z[2]
<1>3. z = <<x, y>> /\ Spells(x, y)
  BY WordsSpell
<1> HIDE DEF x, y
<1>4. /\ x \in Nat /\ y \in Nat /\ x < y /\ y <= Length(doc) /\ Length(doc) \in Nat
      /\ \A i \in Nat : x <= i /\ i < y => ~WhiteAt(doc, i)
  BY <1>3, SpellFacts
<1>5. ~WhiteAt(doc, x)
  BY <1>4
<1>6. PICK f \in doc.tokens : IsFirst(doc, f)
  BY FirstToken
<1>7. f.begin <= x
  <2>1. \A i \in 0..(f.begin - 1) : WhiteAt(doc, i)
    BY <1>6 DEF Fenced, AllWhite
  <2>2. x \notin 0..(f.begin - 1) /\ f.begin \in Nat
    BY <1>5, <2>1, TokenFacts
  <2> QED
    BY <1>4, <2>2
<1>8. PICK t \in doc.tokens :
         t.begin <= x /\ \A v \in doc.tokens : v.begin > t.begin => x < v.begin
  BY <1>4, <1>7, TokenBefore
<1>9. t.begin \in Nat /\ t.end \in Nat /\ t.begin < t.end /\ Spells(t.begin, t.end)
  BY TokenFacts DEF TokensAreWords
<1>10. <<t.begin, t.end>> \in CommandWords
  BY CommandWordsAre
<1>11. CASE x = t.begin
  <2>1. x <= x /\ t.begin <= x /\ x < t.end
    BY <1>4, <1>9, <1>11
  <2>2. y = t.end
    BY <1>3, <1>4, <1>9, <2>1, SameWord
  <2> QED
    BY <1>3, <1>10, <1>11, <2>2
<1>12. CASE x # t.begin
  <2> DEFINE r == RegionEnd(doc, t)
             a == ArgumentBegin(doc, t)
             b == ArgumentWordEnd(doc, t)
  <2>1. /\ r \in Nat /\ a \in Nat /\ b \in Nat /\ t.end <= a /\ a <= b /\ b <= r
        /\ \A i \in Nat : t.end <= i /\ i < a => WhiteAt(doc, i)
        /\ a < r => a < b
    BY ArgumentIs
  <2>2. r = Length(doc) \/ \E u \in doc.tokens : u.begin > t.begin /\ r = u.begin
    BY RegionIs
  <2>3. a < r => Spells(a, b) /\ ArgumentsOf(<<t.begin, t.end>>) = {<<a, b>>}
    BY ArgumentsAre
  <2>4. \A i \in b..(r - 1) : WhiteAt(doc, i)
    BY DEF OneArgumentAtMost, AllWhite
  <2> HIDE DEF r, a, b
  <2>5. t.begin < x
    BY <1>4, <1>8, <1>9, <1>12
  <2>6. t.end <= x
    BY <1>3, <1>9, <2>5, WordsApart
  <2>7. x < r
    BY <1>4, <1>8, <2>2
  <2>8. a <= x
    BY <1>4, <1>5, <2>1, <2>6
  <2>9. x < b
    <3>1. x \notin b..(r - 1)
      BY <1>5, <2>4
    <3> QED
      BY <1>4, <2>1, <2>7, <3>1
  <2>10. a < r /\ x <= x
    BY <1>4, <2>1, <2>7, <2>8
  <2>11. x = a /\ y = b
    BY <1>3, <1>4, <2>3, <2>8, <2>9, <2>10, SameWord
  <2>12. z \in ArgumentsOf(<<t.begin, t.end>>)
    BY <1>3, <2>3, <2>10, <2>11
  <2> QED
    BY <1>10, <2>12
<1> QED
  BY <1>11, <1>12

(* No command comes twice exactly if there are as many commands as tokens. *)
LEMMA CommandsOnce ==
  ASSUME LineInv(doc)
  PROVE  Cardinality({t.command : t \in doc.tokens}) = Cardinality(doc.tokens) <=>
           \A t, u \in doc.tokens : u.command = t.command => u = t
<1> DEFINE S == doc.tokens
           C == {t.command : t \in S}
           f == [t \in S |-> t.command]
<1>1. f \in [S -> C] /\ \A c \in C : \E t \in S : f[t] = c
  OBVIOUS
<1>2. DOMAIN f = S /\ \A t \in S : f[t] = t.command
  OBVIOUS
<1>3. IsFiniteSet(S)
  BY TokensFinite
<1> HIDE DEF f, C
<1>4. f \in Surjection(S, C)
  BY <1>1 DEF Surjection
<1>5. Cardinality(C) = Cardinality(S) <=> f \in Injection(S, C)
  BY <1>3, <1>4, FS_Surjection
<1>6. f \in Injection(S, C) <=> \A t, u \in S : f[t] = f[u] => t = u
  BY <1>1, <1>2 DEF Injection, IsInjective
<1>7. f \in Injection(S, C) <=> \A t, u \in S : u.command = t.command => u = t
  BY <1>2, <1>6
<1> QED
  BY <1>5, <1>7 DEF C

(* Which commands may share a line: disconnecting and refreshing come      *)
(* alone.                                                                  *)
LEMMA KindsCombineIs ==
  ASSUME LineInv(doc), doc.tokens # {},
         \A t, u \in doc.tokens : u.command = t.command => u = t
  PROVE  KindsCombine(doc) <=>
           ((\E t \in doc.tokens : Kind(t) = "alone") => Cardinality(doc.tokens) = 1)
<1> DEFINE S == doc.tokens
           Part == {t \in S : Kind(t) \in {"connect", "alone"}}
<1>1. IsFiniteSet(S) /\ Cardinality(S) \in Nat
  BY TokensFinite
<1>2. \A t \in S : Kind(t) \in {"config", "connect", "load", "alone"}
  BY TokenFacts, EntryIs DEF Kind
<1>3. \A t, u \in S : Kind(t) = "connect" /\ Kind(u) = "connect" => t = u
  BY TokenFacts, ManagerAssumption DEF Kind
<1>4. Part \in SUBSET S /\ S # {} /\ \A t \in S : t \in Part <=> Kind(t) \in {"connect", "alone"}
  OBVIOUS
<1>5. KindsCombine(doc) <=>
        /\ Cardinality(Part) <= 1
        /\ (\E t \in S : Kind(t) = "alone") => \A t \in S : Kind(t) \notin {"config", "load"}
  BY DEF KindsCombine
<1> HIDE DEF Part, S
<1>6. ASSUME KindsCombine(doc), NEW t \in S, Kind(t) = "alone" PROVE Cardinality(S) = 1
  <2>1. Part = S
    BY <1>2, <1>4, <1>5, <1>6
  <2>2. Cardinality(S) # 0
    BY <1>1, <1>4, FS_EmptySet
  <2> QED
    BY <1>1, <1>5, <1>6, <2>1, <2>2
<1>7. ASSUME Cardinality(S) = 1 PROVE KindsCombine(doc)
  <2>1. PICK t : S = {t}
    BY <1>1, <1>7, FS_Singleton
  <2>2. IsFiniteSet(Part) /\ Cardinality(Part) <= Cardinality(S)
    BY <1>1, <1>4, FS_Subset
  <2>3. (\E u \in S : Kind(u) = "alone") => \A u \in S : Kind(u) \notin {"config", "load"}
    BY <2>1
  <2> QED
    BY <1>5, <1>7, <2>2, <2>3
<1>8. ASSUME ~ \E t \in S : Kind(t) = "alone" PROVE KindsCombine(doc)
  <2>1. \A t, u \in Part : t = u
    BY <1>3, <1>4, <1>8
  <2>2. Part = {} \/ \E t : Part = {t}
    <3>1. ASSUME NEW t \in Part PROVE Part = {t}
      BY <2>1
    <3> QED
      BY <3>1
  <2>3. Cardinality(Part) = 0 \/ Cardinality(Part) = 1
    <3>1. CASE Part = {}
      BY <3>1, FS_EmptySet
    <3>2. CASE \E t : Part = {t}
      BY <3>2, FS_Singleton
    <3> QED
      BY <2>2, <3>1, <3>2
  <2> QED
    BY <1>5, <1>8, <2>3
<1> QED
  BY <1>6, <1>7, <1>8 DEF S

(* The two readings of a line.                                             *)
LEMMA ReadingsAgree ==
  ASSUME LineInv(doc)
  PROVE  Submittable(doc) <=>
           /\ doc.tokens # {}
           /\ TokensAreWords
           /\ Cardinality({t.command : t \in doc.tokens}) = Cardinality(doc.tokens)
           /\ WordsRead
           /\ \A t \in doc.tokens :
                Cardinality(ArgumentsOf(<<t.begin, t.end>>)) \in Arity(Kind(t))
           /\ (\E t \in doc.tokens : Kind(t) = "alone") => Cardinality(doc.tokens) = 1
<1> DEFINE read(t) == IF Argument(doc, t) = <<>> THEN 0 ELSE 1
           of(t) == Cardinality(ArgumentsOf(<<t.begin, t.end>>))
           once == \A t, u \in doc.tokens : u.command = t.command => u = t
<1>1. Submittable(doc) <=>
        /\ doc.tokens # {}
        /\ \A t \in doc.tokens : Fenced(t)
        /\ once
        /\ \A t \in doc.tokens : OneArgumentAtMost(doc, t)
        /\ \A t \in doc.tokens : read(t) \in Arity(Kind(t))
        /\ KindsCombine(doc)
  BY DEF Submittable, Fenced
<1>2. Cardinality({t.command : t \in doc.tokens}) = Cardinality(doc.tokens) <=> once
  BY CommandsOnce
<1>3. (\A t \in doc.tokens : Fenced(t)) => TokensAreWords
  BY FencedTokensAreWords
<1>4. TokensAreWords => \A t \in doc.tokens : of(t) = read(t)
  BY ArgumentRead
<1>5. doc.tokens # {} /\ once =>
        (KindsCombine(doc) <=>
           ((\E t \in doc.tokens : Kind(t) = "alone") => Cardinality(doc.tokens) = 1))
  BY KindsCombineIs
<1>6. TokensAreWords /\ WordsRead => \A t \in doc.tokens : Fenced(t) /\ OneArgumentAtMost(doc, t)
  BY ReadLeadsWithCommand, ReadHasNoMore, WordsAreFenced
<1>7. /\ TokensAreWords /\ doc.tokens # {}
      /\ \A t \in doc.tokens : Fenced(t) /\ OneArgumentAtMost(doc, t)
      => WordsRead
  BY NoOtherWord
<1> HIDE DEF read, of, once
<1>8. TokensAreWords =>
        ((\A t \in doc.tokens : of(t) \in Arity(Kind(t))) <=>
         (\A t \in doc.tokens : read(t) \in Arity(Kind(t))))
  BY <1>4
<1>9. Submittable(doc) <=>
        /\ doc.tokens # {} /\ TokensAreWords /\ once /\ WordsRead
        /\ \A t \in doc.tokens : of(t) \in Arity(Kind(t))
        /\ (\E t \in doc.tokens : Kind(t) = "alone") => Cardinality(doc.tokens) = 1
  BY <1>1, <1>3, <1>5, <1>6, <1>7, <1>8
<1> QED
  BY <1>2, <1>9 DEF of

(* The arguments a submission holds.                                       *)
LEMMA ArgumentsHeld ==
  ASSUME \A t, u \in doc.tokens : u.command = t.command => u = t, NEW t \in doc.tokens
  PROVE  Submission(doc).arguments[t.command] = Argument(doc, t)
<1> DEFINE of(c) == CHOOSE u \in doc.tokens : u.command = c
<1>1. of(t.command) = t
  OBVIOUS
<1> HIDE DEF of
<1>2. Submission(doc).arguments =
        [c \in {u.command : u \in doc.tokens} |-> Argument(doc, of(c))]
  BY DEF Submission, of
<1>3. t.command \in {u.command : u \in doc.tokens}
  OBVIOUS
<1>4. Submission(doc).arguments[t.command] = Argument(doc, of(t.command))
  BY <1>2, <1>3
<1> QED
  BY <1>1, <1>4

LEMMA SubmissionIsRead ==
  ASSUME LineInv(doc)
  PROVE  SubmissionReads
<1> DEFINE reads ==
      /\ doc.tokens # {}
      /\ TokensAreWords
      /\ Cardinality({t.command : t \in doc.tokens}) = Cardinality(doc.tokens)
      /\ WordsRead
      /\ \A t \in doc.tokens :
           Cardinality(ArgumentsOf(<<t.begin, t.end>>)) \in Arity(Kind(t))
      /\ (\E t \in doc.tokens : Kind(t) = "alone") => Cardinality(doc.tokens) = 1
           held(t) ==
      Submission(doc).arguments[t.command] =
        IF ArgumentsOf(<<t.begin, t.end>>) = {} THEN <<>>
        ELSE LET w == CHOOSE v \in ArgumentsOf(<<t.begin, t.end>>) : TRUE
             IN  Bytes(doc, w[1], w[2])
<1>1. Submittable(doc) <=> reads
  BY ReadingsAgree
<1>2. ASSUME reads, NEW t \in doc.tokens PROVE held(t)
  <2>1. \A u, v \in doc.tokens : v.command = u.command => v = u
    BY <1>2, CommandsOnce
  <2>2. Submission(doc).arguments[t.command] = Argument(doc, t)
    BY <2>1, ArgumentsHeld
  <2>3. TokensAreWords
    BY <1>2
  <2>4. Argument(doc, t) =
          IF ArgumentsOf(<<t.begin, t.end>>) = {} THEN <<>>
          ELSE LET w == CHOOSE v \in ArgumentsOf(<<t.begin, t.end>>) : TRUE
               IN  Bytes(doc, w[1], w[2])
    BY <2>3, ArgumentRead
  <2> QED
    BY <2>2, <2>4
<1>3. TokensAreWords <=> \A t \in doc.tokens : <<t.begin, t.end>> \in Words
  BY WordsSpell DEF TokensAreWords
<1>4. SubmissionReads <=> ((Submittable(doc) <=> reads) /\ (reads => \A t \in doc.tokens : held(t)))
  BY <1>3 DEF SubmissionReads, WordsRead
<1> HIDE DEF reads, held
<1> QED
  BY <1>1, <1>2, <1>4

(* buildSubmission_ accepts exactly the lines that read, word by word, as  *)
(* commands each with the arguments it may have, and hands SM_UI those     *)
(* very words, whatever was typed, accepted or removed to get there.       *)
THEOREM LinesSubmittedAsRead == LineSpec => []SubmissionReads
<1>1. LineStands => SubmissionReads
  <2>1. LineStands => LineInv(doc)
    BY StandsHere
  <2> QED
    BY <2>1, SubmissionIsRead
<1> QED
  BY <1>1, LineAlwaysStands, PTL

-----------------------------------------------------------------------------
\* The composer on the screen: how a line is laid out

(* A code point's cluster starts at or before it, at the last of the       *)
(* clusters that do.                                                       *)
LEMMA ClusterHeadIs ==
  ASSUME NEW text \in Seq(Codepoint), NEW i \in 1..Len(text)
  PROVE  /\ ClusterHead(text, i) \in ClusterHeads(text)
         /\ ClusterHead(text, i) \in 1..i
         /\ \A h \in ClusterHeads(text) : h <= i => h <= ClusterHead(text, i)
<1> DEFINE I == {h \in ClusterHeads(text) : h <= i}
<1>1. 1 \in I /\ I \in SUBSET (0..Len(text))
  BY DEF ClusterHeads
<1>2. Max(I) \in I /\ \A h \in I : h <= Max(I)
  <2>1. Len(text) \in Nat
    OBVIOUS
  <2> HIDE DEF I
  <2> QED
    BY <1>1, <2>1, MaxIs
<1>3. ClusterHead(text, i) = Max(I)
  BY DEF ClusterHead
<1>4. \A h \in ClusterHeads(text) : h \in 1..Len(text)
  BY DEF ClusterHeads
<1> QED
  BY <1>2, <1>3, <1>4

(* The last code point of a cluster is of it.                              *)
LEMMA ClusterEndIs ==
  ASSUME NEW text \in Seq(Codepoint), NEW i \in 1..Len(text)
  PROVE  /\ ClusterEnd(text, i) \in i..Len(text)
         /\ ClusterHead(text, ClusterEnd(text, i)) = ClusterHead(text, i)
<1> DEFINE I == {j \in DOMAIN text : ClusterHead(text, j) = ClusterHead(text, i)}
<1>1. i \in I /\ I \in SUBSET (0..Len(text))
  OBVIOUS
<1>2. Max(I) \in I /\ \A j \in I : j <= Max(I)
  <2>1. Len(text) \in Nat
    OBVIOUS
  <2> HIDE DEF I
  <2> QED
    BY <1>1, <2>1, MaxIs
<1>3. ClusterEnd(text, i) = Max(I)
  BY DEF ClusterEnd
<1> QED
  BY <1>1, <1>2, <1>3

(* A function that is given at 0 and from an earlier value at every later  *)
(* argument exists.                                                        *)
Runs(n, D, first, prev, step) ==
  {f \in [0..n -> D] : f[0] = first /\ \A j \in 1..n : f[j] = step[j][f[prev[j]]]}

LEMMA Recursion ==
  ASSUME NEW n \in Nat, NEW D, NEW first \in D,
         NEW prev \in [1..n -> Nat], \A j \in 1..n : prev[j] < j,
         NEW step \in [1..n -> [D -> D]]
  PROVE  Runs(n, D, first, prev, step) # {}
<1> DEFINE Ran(k, f) == f[0] = first /\ \A j \in 1..k : f[j] = step[j][f[prev[j]]]
           K == {k \in 0..n : ~\E f \in [0..k -> D] : Ran(k, f)}
<1>1. SUFFICES K = {}
  <2>1. n \in 0..n
    OBVIOUS
  <2> QED
    BY <1>1, <2>1 DEF Runs
<1>2. SUFFICES ASSUME K # {} PROVE FALSE
  OBVIOUS
<1>3. PICK k \in K : \A j \in K : k <= j
  <2>1. K \in SUBSET Nat
    OBVIOUS
  <2> HIDE DEF K
  <2> QED
    BY <1>2, <2>1, MinIs
<1>4. k \in 0..n /\ ~\E f \in [0..k -> D] : Ran(k, f)
  OBVIOUS
<1>5. k # 0
  <2>1. SUFFICES ASSUME k = 0 PROVE FALSE
    OBVIOUS
  <2>2. [j \in 0..0 |-> first] \in [0..0 -> D] /\ Ran(0, [j \in 0..0 |-> first])
    OBVIOUS
  <2> QED
    BY <1>4, <2>1, <2>2
<1>6. PICK g \in [0..(k - 1) -> D] : Ran(k - 1, g)
  <2>1. k - 1 \in 0..n /\ k - 1 \notin K
    <3>1. \A j \in K : k <= j
      BY <1>3
    <3> HIDE DEF K
    <3> QED
      BY <1>4, <1>5, <3>1
  <2> QED
    BY <2>1
<1> DEFINE f == [j \in 0..k |-> IF j = k THEN step[k][g[prev[k]]] ELSE g[j]]
<1>7. \A j \in 1..k : prev[j] \in 0..(j - 1)
  BY <1>4
<1>8. step[k][g[prev[k]]] \in D
  BY <1>4, <1>5, <1>6, <1>7
<1>9. f \in [0..k -> D]
  BY <1>4, <1>5, <1>6, <1>8
<1>10. Ran(k, f)
  <2>1. f[0] = first
    BY <1>4, <1>5, <1>6
  <2>2. ASSUME NEW j \in 1..k PROVE f[j] = step[j][f[prev[j]]]
    <3>1. prev[j] \in 0..(k - 1) /\ prev[j] # k /\ f[prev[j]] = g[prev[j]]
      BY <1>4, <1>7
    <3>2. CASE j = k
      BY <3>1, <3>2
    <3>3. CASE j # k
      <4>1. j \in 1..(k - 1)
        BY <1>4, <3>3
      <4> QED
        BY <1>6, <3>1, <3>3, <4>1
    <3> QED
      BY <3>2, <3>3
  <2> QED
    BY <2>1, <2>2
<1> QED
  BY <1>4, <1>9, <1>10

LEMMA CodepointCols ==
  ASSUME NEW text \in Seq(Codepoint), NEW i \in 1..Len(text)
  PROVE  Columns[text[i]] \in Nat
<1>1. text[i] \in Codepoint
  OBVIOUS
<1> QED
  BY <1>1, LayoutAssumption DEF Codepoint

(* The columns of the text's first code points.                            *)
LEMMA SumsAre ==
  ASSUME NEW text \in Seq(Codepoint)
  PROVE  /\ ColumnSums(text) \in [0..Len(text) -> Nat]
         /\ ColumnSums(text)[0] = 0
         /\ \A i \in 1..Len(text) :
              ColumnSums(text)[i] = ColumnSums(text)[i - 1] + Columns[text[i]]
<1> DEFINE n == Len(text)
           sum == ColumnSums(text)
           Sums(f) == f = [i \in 0..n |-> IF i = 0 THEN 0 ELSE f[i - 1] + Columns[text[i]]]
<1>1. n \in Nat /\ \A i \in 1..n : Columns[text[i]] \in Nat
  BY CodepointCols
<1>2. \E f : Sums(f)
  <2> DEFINE prev == [i \in 1..n |-> i - 1]
             step == [i \in 1..n |-> [c \in Nat |-> c + Columns[text[i]]]]
  <2>1. /\ prev \in [1..n -> Nat] /\ \A i \in 1..n : prev[i] < i
        /\ step \in [1..n -> [Nat -> Nat]]
    BY <1>1
  <2>2. PICK f \in Runs(n, Nat, 0, prev, step) : TRUE
    <3>1. n \in Nat /\ 0 \in Nat
      BY <1>1
    <3> HIDE DEF n, prev, step
    <3>2. Runs(n, Nat, 0, prev, step) # {}
      BY <2>1, <3>1, Recursion
    <3> QED
      BY <3>2
  <2>6. f \in [0..n -> Nat] /\ f[0] = 0 /\ \A i \in 1..n : f[i] = step[i][f[prev[i]]]
    <3> HIDE DEF n, prev, step
    <3> QED
      BY DEF Runs
  <2>3. \A i \in 1..n : f[i] = f[i - 1] + Columns[text[i]]
    <3> TAKE i \in 1..n
    <3>1. prev[i] = i - 1 /\ i - 1 \in 0..n
      BY <1>1
    <3>2. f[i - 1] \in Nat
      BY <2>6, <3>1
    <3> QED
      BY <2>6, <3>1, <3>2
  <2>4. Sums(f)
    <3>1. \A i \in 0..n : f[i] = IF i = 0 THEN 0 ELSE f[i - 1] + Columns[text[i]]
      BY <1>1, <2>6, <2>3
    <3> QED
      BY <2>6, <3>1
  <2> QED
    BY <2>4
<1>3. Sums(sum)
  <2>1. sum = CHOOSE f : Sums(f)
    BY DEF ColumnSums
  <2> HIDE DEF sum, Sums
  <2> QED
    BY <1>2, <2>1
<1>4. /\ sum = [i \in 0..n |-> sum[i]]
      /\ sum[0] = 0 /\ \A i \in 1..n : sum[i] = sum[i - 1] + Columns[text[i]]
  <2> HIDE DEF sum, n
  <2>1. \A i \in 0..n : sum[i] = IF i = 0 THEN 0 ELSE sum[i - 1] + Columns[text[i]]
    BY <1>3
  <2>2. \A i \in 1..n : i \in 0..n /\ i # 0
    BY <1>1
  <2>3. 0 \in 0..n
    BY <1>1
  <2>4. sum = [i \in 0..n |-> sum[i]]
    BY <1>3, <2>1
  <2> QED
    BY <2>1, <2>2, <2>3, <2>4
<1>5. \A i \in 0..n : sum[i] \in Nat
  <2> DEFINE I == {i \in 0..n : sum[i] \notin Nat}
  <2>1. SUFFICES ASSUME I # {} PROVE FALSE
    OBVIOUS
  <2>2. PICK i \in I : \A j \in I : i <= j
    <3>1. I \in SUBSET Nat
      OBVIOUS
    <3> HIDE DEF I
    <3> QED
      BY <2>1, <3>1, MinIs
  <2>3. i \in 1..n /\ sum[i] \notin Nat
    <3>1. i \in 0..n /\ sum[i] \notin Nat
      OBVIOUS
    <3> HIDE DEF sum, n
    <3> QED
      BY <1>4, <3>1
  <2>4. i - 1 \in 0..n /\ i - 1 \notin I
    <3>1. i - 1 \in 0..n /\ ~(i <= i - 1)
      BY <1>1, <2>3
    <3> HIDE DEF I
    <3> QED
      BY <2>2, <3>1
  <2>5. sum[i - 1] \in Nat
    BY <2>4
  <2>6. sum[i] = sum[i - 1] + Columns[text[i]] /\ Columns[text[i]] \in Nat
    BY <1>1, <1>4, <2>3
  <2> HIDE DEF sum, n
  <2> QED
    BY <2>3, <2>5, <2>6
<1> HIDE DEF sum, n
<1>6. sum \in [0..n -> Nat]
  BY <1>4, <1>5
<1> QED
  BY <1>4, <1>6 DEF sum, n

(* So a stretch of text takes some number of columns, and adding to it     *)
(* does not take fewer.                                                    *)
LEMMA SumsGrow ==
  ASSUME NEW text \in Seq(Codepoint), NEW from \in 0..Len(text), NEW to \in from..Len(text)
  PROVE  ColumnSums(text)[from] <= ColumnSums(text)[to]
<1> DEFINE n == Len(text)
           sum == ColumnSums(text)
           I == {i \in from..n : ~(sum[from] <= sum[i])}
<1>1. /\ n \in Nat /\ sum \in [0..n -> Nat]
      /\ \A i \in 1..n : sum[i] = sum[i - 1] + Columns[text[i]] /\ Columns[text[i]] \in Nat
  <2>2. \A i \in 1..n : Columns[text[i]] \in Nat
    BY CodepointCols
  <2>3. n \in Nat
    OBVIOUS
  <2>4. sum \in [0..n -> Nat] /\ \A i \in 1..n : sum[i] = sum[i - 1] + Columns[text[i]]
    BY SumsAre
  <2> QED
    BY <2>2, <2>3, <2>4
<1> HIDE DEF n, sum
<1>0. from \in 0..n /\ to \in from..n
  BY DEF n
<1>2. SUFFICES I = {}
  BY <1>0 DEF sum, n
<1>3. SUFFICES ASSUME I # {} PROVE FALSE
  OBVIOUS
<1>4. PICK i \in I : \A j \in I : i <= j
  <2>1. I \in SUBSET Nat
    BY <1>0, <1>1
  <2> HIDE DEF I
  <2> QED
    BY <1>3, <2>1, MinIs
<1>5. i \in from..n /\ ~(sum[from] <= sum[i])
  OBVIOUS
<1>6. i - 1 \in from..n /\ i \in 1..n
  BY <1>0, <1>1, <1>5
<1>7. i - 1 \notin I
  <2>1. \A j \in I : i <= j
    BY <1>4
  <2> HIDE DEF I
  <2> QED
    BY <1>6, <2>1, <1>1
<1>8. sum[from] <= sum[i - 1]
  BY <1>6, <1>7
<1>9. sum[i] = sum[i - 1] + Columns[text[i]] /\ Columns[text[i]] \in Nat
      /\ sum[from] \in Nat /\ sum[i - 1] \in Nat
  BY <1>0, <1>1, <1>6
<1> QED
  BY <1>5, <1>8, <1>9

LEMMA ColumnsOfType ==
  ASSUME NEW text \in Seq(Codepoint), NEW from \in 1..Len(text), NEW to \in (from - 1)..Len(text)
  PROVE  ColumnsOf(text, from, to) \in Nat
<1>1. from - 1 \in 0..Len(text) /\ to \in 0..Len(text)
  OBVIOUS
<1>2. ColumnSums(text)[from - 1] <= ColumnSums(text)[to]
  BY <1>1, SumsGrow
<1>3. ColumnSums(text)[from - 1] \in Nat /\ ColumnSums(text)[to] \in Nat
  BY <1>1, SumsAre
<1> QED
  BY <1>2, <1>3 DEF ColumnsOf

(* Where something may end in rows of max columns.                         *)
RowEnds(max) == [row : Nat, col : 0..max]

LEMMA AdvancedIs ==
  ASSUME NEW max \in Nat \ {0}, NEW at \in RowEnds(max), NEW width \in Nat
  PROVE  Wrapped(at, width, max) \in RowEnds(max) /\ Advanced(at, width, max) \in RowEnds(max)
<1> DEFINE w == Wrapped(at, width, max)
<1>1. at.row \in Nat /\ at.col \in 0..max
  BY DEF RowEnds
<1>2. w \in RowEnds(max) /\ (w.col = 0 \/ w.col + width <= max)
  BY <1>1 DEF Wrapped, RowEnds
<1>3. w.row \in Nat /\ w.col \in 0..max
  BY <1>2 DEF RowEnds
<1>4. Advanced(at, width, max) = [w EXCEPT !.col = IF width >= max THEN max ELSE w.col + width]
  BY DEF Advanced
<1> HIDE DEF w
<1>5. (IF width >= max THEN max ELSE w.col + width) \in 0..max
  BY <1>2, <1>3
<1>6. Advanced(at, width, max) \in RowEnds(max)
  BY <1>2, <1>4, <1>5 DEF RowEnds
<1> QED
  BY <1>2, <1>6 DEF w

(* Every text ends somewhere, and so does each of its beginnings.          *)
LEMMA EndsAre ==
  ASSUME NEW text \in Seq(Codepoint), NEW max \in Nat \ {0}
  PROVE  /\ TextEnds(text, max) \in [0..Len(text) -> RowEnds(max)]
         /\ TextEnds(text, max)[0] = [row |-> 0, col |-> 0]
<1> DEFINE n == Len(text)
           end == TextEnds(text, max)
           origin == [row |-> 0, col |-> 0]
           prev == [i \in 1..n |-> ClusterHead(text, i) - 1]
           width == [i \in 1..n |-> ColumnsOf(text, ClusterHead(text, i), i)]
           step == [i \in 1..n |-> [c \in RowEnds(max) |-> Advanced(c, width[i], max)]]
           Reaches(f) == f = [i \in 0..n |-> IF i = 0 THEN origin
                                             ELSE Advanced(f[prev[i]], width[i], max)]
<1>1. n \in Nat /\ origin \in RowEnds(max)
  BY DEF RowEnds
<1>2. \A i \in 1..n : prev[i] \in Nat /\ prev[i] < i /\ width[i] \in Nat
  <2> TAKE i \in 1..n
  <2>1. ClusterHead(text, i) \in 1..i
    BY ClusterHeadIs
  <2>2. ClusterHead(text, i) \in 1..n /\ i \in (ClusterHead(text, i) - 1)..n
    BY <1>1, <2>1
  <2>3. ColumnsOf(text, ClusterHead(text, i), i) \in Nat
    BY <2>2, ColumnsOfType
  <2> QED
    BY <2>1, <2>3
<1>3. prev \in [1..n -> Nat] /\ step \in [1..n -> [RowEnds(max) -> RowEnds(max)]]
  <2>1. \A i \in 1..n, c \in RowEnds(max) : Advanced(c, width[i], max) \in RowEnds(max)
    BY <1>2, AdvancedIs
  <2> HIDE DEF width
  <2> QED
    BY <1>2, <2>1
<1>4. \E f : Reaches(f)
  <2>1. PICK f \in Runs(n, RowEnds(max), origin, prev, step) : TRUE
    <3> HIDE DEF n, prev, step, origin
    <3>1. Runs(n, RowEnds(max), origin, prev, step) # {}
      BY <1>1, <1>2, <1>3, Recursion
    <3> QED
      BY <3>1
  <2>2. /\ f \in [0..n -> RowEnds(max)] /\ f[0] = origin
        /\ \A i \in 1..n : f[i] = step[i][f[prev[i]]]
    <3> HIDE DEF n, prev, step, origin
    <3> QED
      BY DEF Runs
  <2>3. \A i \in 1..n : f[i] = Advanced(f[prev[i]], width[i], max)
    <3> TAKE i \in 1..n
    <3>1. prev[i] \in 0..n
      BY <1>1, <1>2
    <3>2. f[prev[i]] \in RowEnds(max)
      BY <2>2, <3>1
    <3>3. step[i] = [c \in RowEnds(max) |-> Advanced(c, width[i], max)]
      OBVIOUS
    <3> HIDE DEF n, prev, step, width
    <3> QED
      BY <2>2, <3>2, <3>3
  <2>4. Reaches(f)
    <3> HIDE DEF prev, width, origin, step
    <3>1. \A i \in 0..n : f[i] = IF i = 0 THEN origin ELSE Advanced(f[prev[i]], width[i], max)
      BY <1>1, <2>2, <2>3
    <3> QED
      BY <2>2, <3>1
  <2> QED
    BY <2>4
<1>5. Reaches(end)
  <2> DEFINE Solves(f) ==
        f = [i \in 0..n |-> IF i = 0 THEN origin
                            ELSE Advanced(f[ClusterHead(text, i) - 1],
                                          ColumnsOf(text, ClusterHead(text, i), i), max)]
  <2>1. \A f : Reaches(f) <=> Solves(f)
    <3> TAKE f
    <3>1. \A i \in 0..n : i # 0 => i \in 1..n
      BY <1>1
    <3>2. \A i \in 1..n : /\ prev[i] = ClusterHead(text, i) - 1
                          /\ width[i] = ColumnsOf(text, ClusterHead(text, i), i)
      OBVIOUS
    <3>3. \A i \in 0..n :
            (IF i = 0 THEN origin ELSE Advanced(f[prev[i]], width[i], max))
              = (IF i = 0 THEN origin
                 ELSE Advanced(f[ClusterHead(text, i) - 1],
                               ColumnsOf(text, ClusterHead(text, i), i), max))
      <4> HIDE DEF n, prev, width, origin
      <4> QED
        BY <3>1, <3>2
    <3> HIDE DEF n, prev, width, origin
    <3> QED
      BY <3>3
  <2>2. end = CHOOSE f : Solves(f)
    BY DEF TextEnds
  <2>3. \E f : Solves(f)
    <3> HIDE DEF Reaches, Solves
    <3> QED
      BY <1>4, <2>1
  <2> HIDE DEF Solves, Reaches, end
  <2> QED
    BY <2>1, <2>2, <2>3
<1>6. /\ end = [i \in 0..n |-> end[i]]
      /\ end[0] = origin /\ \A i \in 1..n : end[i] = Advanced(end[prev[i]], width[i], max)
  <2> HIDE DEF end, n, prev, width, origin
  <2>1. \A i \in 0..n : end[i] = IF i = 0 THEN origin ELSE Advanced(end[prev[i]], width[i], max)
    BY <1>5
  <2>2. \A i \in 1..n : i \in 0..n /\ i # 0
    BY <1>1
  <2>3. 0 \in 0..n
    BY <1>1
  <2>4. end = [i \in 0..n |-> end[i]]
    BY <1>5, <2>1
  <2> QED
    BY <2>1, <2>2, <2>3, <2>4
<1>7. \A i \in 0..n : end[i] \in RowEnds(max)
  <2> DEFINE I == {i \in 0..n : end[i] \notin RowEnds(max)}
  <2>1. SUFFICES ASSUME I # {} PROVE FALSE
    OBVIOUS
  <2>2. PICK i \in I : \A j \in I : i <= j
    <3>1. I \in SUBSET Nat
      OBVIOUS
    <3> HIDE DEF I
    <3> QED
      BY <2>1, <3>1, MinIs
  <2>3. i \in 1..n /\ end[i] \notin RowEnds(max)
    <3>1. i \in 0..n /\ end[i] \notin RowEnds(max)
      OBVIOUS
    <3> HIDE DEF end, n, origin
    <3> QED
      BY <1>1, <1>6, <3>1
  <2>4. prev[i] \in 0..n /\ prev[i] \notin I
    <3>1. prev[i] \in 0..n /\ ~(i <= prev[i])
      BY <1>1, <1>2, <2>3
    <3> HIDE DEF I, prev
    <3> QED
      BY <2>2, <3>1
  <2>5. end[prev[i]] \in RowEnds(max) /\ width[i] \in Nat
    BY <1>2, <2>3, <2>4
  <2>6. end[i] = Advanced(end[prev[i]], width[i], max)
    BY <1>6, <2>3
  <2> HIDE DEF end, n, prev, width, I
  <2> QED
    BY <2>3, <2>5, <2>6, AdvancedIs
<1> HIDE DEF end, n, origin
<1>8. end \in [0..n -> RowEnds(max)]
  BY <1>6, <1>7
<1> QED
  BY <1>6, <1>8 DEF end, n, origin

-----------------------------------------------------------------------------
\* The cursor and the rows in view

TypedLines == {d \in [text : Seq(Codepoint), pos : Nat] : d.pos <= Len(d.text)}

(* Every cluster is drawn in some row.                                     *)
LEMMA DrawnAtIs ==
  ASSUME NEW text \in Seq(Codepoint), NEW max \in Nat \ {0}, NEW h \in 1..Len(text)
  PROVE  DrawnAt(text, max, h) \in RowEnds(max)
<1> DEFINE n == Len(text)
           end == TextEnds(text, max)
<1>1. n \in Nat /\ h \in 1..n /\ end \in [0..n -> RowEnds(max)]
  BY EndsAre
<1>2. ClusterCols(text, h) \in Nat
  <2>1. ClusterEnd(text, h) \in h..n
    BY ClusterEndIs
  <2>2. ClusterEnd(text, h) \in (h - 1)..n
    BY <1>1, <2>1
  <2> QED
    BY <2>2, ColumnsOfType DEF ClusterCols
<1>3. end[h - 1] \in RowEnds(max)
  <2>1. h - 1 \in 0..n
    BY <1>1
  <2> HIDE DEF end, n
  <2> QED
    BY <1>1, <2>1
<1> QED
  BY <1>2, <1>3, AdvancedIs DEF DrawnAt

(* The cursor's cell is one of a row's, and no row of the text is above it.*)
LEMMA CursorCellIs ==
  ASSUME NEW d \in TypedLines, NEW max \in Nat \ {0}
  PROVE  /\ CursorCell(d, max) \in [row : Nat, col : 0..(max - 1)]
         /\ TotalRows(d, max) \in Nat
         /\ CursorCell(d, max).row < TotalRows(d, max)
<1> DEFINE n == Len(d.text)
           end == TextEnds(d.text, max)
           cell == CursorCell(d, max)
<1>1. d.text \in Seq(Codepoint) /\ d.pos \in 0..n /\ n \in Nat
  BY DEF TypedLines
<1>2. end \in [0..n -> RowEnds(max)]
  BY <1>1, EndsAre
<1>3. TextEnd(d, max) \in RowEnds(max)
  <2>1. end[n] \in RowEnds(max)
    BY <1>1, <1>2
  <2>2. Advanced(end[n], 1, max) \in RowEnds(max)
    <3> HIDE DEF end, n
    <3> QED
      BY <2>1, AdvancedIs
  <2> QED
    BY <2>1, <2>2 DEF TextEnd
<1>4. cell \in [row : Nat, col : 0..(max - 1)]
  <2>1. CASE d.pos = n
    <3>1. cell = BehindText(TextEnd(d, max))
      BY <2>1 DEF CursorCell
    <3> DEFINE e == TextEnd(d, max)
    <3>2. e.row \in Nat /\ e.col \in 0..max /\ e = [row |-> e.row, col |-> e.col]
      BY <1>3 DEF RowEnds
    <3> HIDE DEF e
    <3>3. BehindText(e) = [row |-> e.row, col |-> IF e.col = 0 THEN 0 ELSE e.col - 1]
      BY <3>2 DEF BehindText
    <3>4. (IF e.col = 0 THEN 0 ELSE e.col - 1) \in 0..(max - 1)
      BY <3>2
    <3> QED
      BY <3>1, <3>2, <3>3, <3>4 DEF e
  <2>2. CASE d.pos # n
    <3> DEFINE h == UnderCursor(d)
               at == DrawnAt(d.text, max, h)
               before == ColumnsOf(d.text, h, d.pos)
    <3>1. d.pos + 1 \in 1..n
      BY <1>1, <2>2
    <3>2. h \in 1..(d.pos + 1)
      BY <1>1, <3>1, ClusterHeadIs DEF UnderCursor
    <3>3. h \in 1..n /\ d.pos \in (h - 1)..n
      BY <1>1, <3>1, <3>2
    <3>4. before \in Nat
      BY <1>1, <3>3, ColumnsOfType
    <3>5. at \in RowEnds(max)
      <4> HIDE DEF h
      <4> QED
        BY <1>1, <3>3, DrawnAtIs
    <3>6. cell = CellAt(at.row, at.col + before, max)
      BY <2>2 DEF CursorCell, CellIn
    <3> HIDE DEF at, before, cell
    <3>7. at.row \in Nat /\ at.col \in 0..max
      BY <3>5 DEF RowEnds
    <3> QED
      BY <3>4, <3>6, <3>7 DEF CellAt
  <2> QED
    BY <2>1, <2>2
<1> HIDE DEF cell
<1>5. TextEnd(d, max).row \in Nat /\ cell.row \in Nat
  BY <1>3, <1>4 DEF RowEnds
<1>6. Max({TextEnd(d, max).row, cell.row})
        = IF TextEnd(d, max).row >= cell.row THEN TextEnd(d, max).row ELSE cell.row
  BY <1>5, OfTwo
<1>7. TotalRows(d, max) = Max({TextEnd(d, max).row, cell.row}) + 1
  BY DEF TotalRows, cell
<1> QED
  BY <1>4, <1>5, <1>6, <1>7 DEF cell

(* The cursor is in view, and nothing behind the last row is.              *)
InView(v, d, visible, max) ==
  /\ v \in [viewRow : Nat, cursorRow : 0..(visible - 1), cursorCol : 0..(max - 1)]
  /\ CursorCell(d, max) = [row |-> v.viewRow + v.cursorRow, col |-> v.cursorCol]
  /\ v.viewRow = 0 \/ v.viewRow + visible <= TotalRows(d, max)
  /\ visible >= TotalRows(d, max) => v.viewRow = 0

(* InputComposer_updateView_, from whatever row the view was.              *)
LEMMA ViewedIs ==
  ASSUME NEW d \in TypedLines, NEW max \in Nat \ {0},
         NEW visible \in Nat \ {0}, NEW viewRow \in Nat
  PROVE  InView(Viewed(d, viewRow, visible, max), d, visible, max)
<1> DEFINE cell == CursorCell(d, max)
           total == TotalRows(d, max)
           least == Max({0, total - visible})
           from == Min({viewRow, least})
           to == Following(cell.row, from, visible)
           v == Viewed(d, viewRow, visible, max)
<1>1. /\ cell = [row |-> cell.row, col |-> cell.col]
      /\ cell.row \in Nat /\ cell.col \in 0..(max - 1) /\ total \in Nat /\ cell.row < total
  BY CursorCellIs
<1>2. v = [viewRow |-> to, cursorRow |-> cell.row - to, cursorCol |-> cell.col]
  BY DEF Viewed, ViewFrom
<1> HIDE DEF cell, total
<1>3. least = (IF 0 >= total - visible THEN 0 ELSE total - visible) /\ least \in Nat
  <2>1. 0 \in Int /\ total - visible \in Int
    BY <1>1
  <2> QED
    BY <1>1, <2>1, OfTwo
<1>4. from = (IF viewRow <= least THEN viewRow ELSE least)
  <2>1. viewRow \in Int /\ least \in Int
    BY <1>3
  <2> HIDE DEF least
  <2> QED
    BY <2>1, OfTwo
<1> HIDE DEF least, from
<1>5. from \in Nat /\ (from = 0 \/ from + visible <= total) /\ (visible >= total => from = 0)
  BY <1>1, <1>3, <1>4
<1>6. /\ to \in Nat /\ to <= cell.row /\ cell.row < to + visible
      /\ to = 0 \/ to + visible <= total
      /\ visible >= total => to = 0
  BY <1>1, <1>5 DEF Following
<1> HIDE DEF to, v
<1>7. cell.row - to \in 0..(visible - 1) /\ to + (cell.row - to) = cell.row
  BY <1>1, <1>6
<1>8. v.viewRow = to /\ v.cursorRow = cell.row - to /\ v.cursorCol = cell.col
  BY <1>2
<1>9. v \in [viewRow : Nat, cursorRow : 0..(visible - 1), cursorCol : 0..(max - 1)]
  BY <1>1, <1>2, <1>6, <1>7
<1>10. cell = [row |-> v.viewRow + v.cursorRow, col |-> v.cursorCol]
  BY <1>1, <1>7, <1>8
<1> QED
  BY <1>6, <1>8, <1>9, <1>10 DEF cell, total, v, InView

(* std_inputRows_ gives the composer a row at least and what it asks at    *)
(* most.                                                                   *)
LEMMA InputRowsIs ==
  ASSUME NEW r \in Nat, NEW desired \in Nat \ {0}
  PROVE  /\ InputRows(r, desired) \in 1..desired
         /\ r > MainY + MainMin + 1 => InputRows(r, desired) <= r - (MainY + MainMin + 1)
<1> DEFINE room == r - (MainY + MainMin + 1)
           least == Max({1, room})
<1>1. MainY \in Nat /\ MainMin \in Nat /\ room \in Int
  BY LayoutAssumption
<1>2. InputRows(r, desired) = Min({desired, least})
  BY DEF InputRows
<1>3. least = IF 1 >= room THEN 1 ELSE room
  <2>1. 1 \in Int
    OBVIOUS
  <2> HIDE DEF room
  <2> QED
    BY <1>1, <2>1, OfTwo
<1>4. Min({desired, least}) = IF desired <= least THEN desired ELSE least
  <2>1. desired \in Int /\ least \in Int
    BY <1>1, <1>3
  <2> HIDE DEF least
  <2> QED
    BY <2>1, OfTwo
<1>5. r > MainY + MainMin + 1 => room >= 1
  BY <1>1
<1> HIDE DEF least, room
<1>6. least \in Nat \ {0} /\ (room >= 1 => least = room)
  BY <1>1, <1>3
<1> QED
  BY <1>1, <1>2, <1>4, <1>5, <1>6 DEF room

LEMMA PreferredIs ==
  ASSUME NEW d \in TypedLines, NEW max \in Nat \ {0}
  PROVE  PreferredRows(d, max) \in 1..ComposerMaxRows
<1>1. TotalRows(d, max) \in Nat \ {0}
  <2>1. /\ CursorCell(d, max) \in [row : Nat, col : 0..(max - 1)]
        /\ TotalRows(d, max) \in Nat /\ CursorCell(d, max).row < TotalRows(d, max)
    BY CursorCellIs
  <2>2. CursorCell(d, max).row \in Nat
    BY <2>1
  <2> QED
    BY <2>1, <2>2
<1>2. ComposerMaxRows \in Nat \ {0}
  BY LayoutAssumption
<1>3. PreferredRows(d, max) = IF ComposerMaxRows <= TotalRows(d, max) THEN ComposerMaxRows
                              ELSE TotalRows(d, max)
  <2>1. ComposerMaxRows \in Int /\ TotalRows(d, max) \in Int
    BY <1>1, <1>2
  <2>2. Min({ComposerMaxRows, TotalRows(d, max)})
          = IF ComposerMaxRows <= TotalRows(d, max) THEN ComposerMaxRows ELSE TotalRows(d, max)
    BY <2>1, OfTwo
  <2> QED
    BY <2>2 DEF PreferredRows
<1> QED
  BY <1>1, <1>2, <1>3

LEMMA PanelColsIs == ASSUME NEW c \in Nat PROVE PanelCols(c) \in Nat \ {0}
  BY LayoutAssumption DEF PanelCols

LEMMA TerminalIs ==
  ASSUME NEW t \in Terminals
  PROVE  t[1] \in Nat \ {0} /\ t[2] \in Nat \ {0}
  BY LayoutAssumption

(* With no more rows than there are, the panes meet.                       *)
LEMMA PanesMeet ==
  ASSUME NEW r \in Nat, r > MainY + MainMin + 1, NEW input \in Nat,
         input <= r - (MainY + MainMin + 1)
  PROVE  MainRows(r, input) >= MainMin /\ MainY + MainRows(r, input) = InputY(r, input)
<1> DEFINE room == r - MainY - (input + 1)
<1>1. MainY \in Nat /\ MainMin \in Nat
  BY LayoutAssumption
<1>2. room \in Int /\ room >= MainMin
  BY <1>1
<1>3. MainRows(r, input) = Max({MainMin, room})
  BY DEF MainRows
<1>4. Max({MainMin, room}) = room
  <2>1. MainMin \in Int
    BY <1>1
  <2> HIDE DEF room
  <2>2. Max({MainMin, room}) = IF MainMin >= room THEN MainMin ELSE room
    BY <1>2, <2>1, OfTwo
  <2> QED
    BY <1>2, <2>1, <2>2
<1>5. InputY(r, input) = r - 1 - input
  BY DEF InputY, KeybarY
<1> QED
  BY <1>1, <1>2, <1>3, <1>4, <1>5

LEMMA MainRowsType ==
  ASSUME NEW r \in Nat, NEW input \in Nat
  PROVE  MainRows(r, input) \in Nat
<1> DEFINE room == r - MainY - (input + 1)
<1>1. MainMin \in Nat /\ room \in Int
  BY LayoutAssumption
<1>2. MainMin \in Int
  BY <1>1
<1>3. MainRows(r, input) = Max({MainMin, room})
  BY DEF MainRows
<1> HIDE DEF room
<1>4. Max({MainMin, room}) = IF MainMin >= room THEN MainMin ELSE room
  BY <1>1, <1>2, OfTwo
<1> QED
  BY <1>1, <1>3, <1>4

-----------------------------------------------------------------------------
\* The invariant: besides ComposerInView, the composer is as wide as the
\* terminal lets it and the text view has the rows above it.

ComposerInv ==
  /\ ComposerInView
  /\ inputCols = PanelCols(terminal[2])
  /\ PanelHoldsPrompt => mainRows = MainRows(terminal[1], inputRows)

(* A line that is shown in the rows that are its due and the columns that  *)
(* there are is shown as ComposerInView says.                             *)
LEMMA ProjectedIs ==
  ASSUME NEW d \in TypedLines, NEW viewRow \in Nat, NEW t \in Terminals, NEW r, NEW c,
         c = PanelCols(t[2]), c > PromptCols,
         r = InputRows(t[1], PreferredRows(d, c - PromptCols)),
         Projected(d, viewRow, r, c),
         shown' = d, terminal' = t, mainRows' = MainRows(t[1], r), cursorVisible' \in BOOLEAN
  PROVE  ComposerInv'
<1> DEFINE max == c - PromptCols
<1>1. t[1] \in Nat \ {0} /\ t[2] \in Nat
  BY TerminalIs
<1>2. c \in Nat /\ max \in Nat \ {0}
  BY <1>1, PanelColsIs, LayoutAssumption
<1>3. /\ r \in 1..PreferredRows(d, max) /\ PreferredRows(d, max) \in 1..ComposerMaxRows
      /\ t[1] > MainY + MainMin + 1 => r <= t[1] - (MainY + MainMin + 1)
  <2>1. PreferredRows(d, max) \in 1..ComposerMaxRows
    <3> HIDE DEF max
    <3> QED
      BY <1>2, PreferredIs
  <2>2. PreferredRows(d, max) \in Nat \ {0} /\ t[1] \in Nat
    BY <1>1, <2>1, LayoutAssumption
  <2> HIDE DEF max
  <2>3. r = InputRows(t[1], PreferredRows(d, max))
    BY DEF max
  <2> QED
    BY <2>1, <2>2, <2>3, InputRowsIs
<1>4. r \in Nat \ {0} /\ r \in 1..ComposerMaxRows
  BY <1>3, LayoutAssumption
<1>5. inputView' = Viewed(d, viewRow, r, max) /\ inputRows' = r /\ inputCols' = c
  BY DEF Projected
<1> DEFINE v == Viewed(d, viewRow, r, max)
<1>6. InView(v, d, r, max)
  <2> HIDE DEF max
  <2> QED
    BY <1>2, <1>4, ViewedIs
<1>7. PanelHoldsPrompt' /\ ContentCols' = max
  BY <1>5 DEF PanelHoldsPrompt, ContentCols
<1>8. v \in [viewRow : Nat, cursorRow : Nat, cursorCol : Nat] /\ v.cursorRow < r /\ v.cursorCol < max
  <2> HIDE DEF v, max
  <2> QED
    BY <1>2, <1>4, <1>6 DEF InView
<1> HIDE DEF v, max
<1>10. ComposerTypeOK'
  <2>1. MainRows(t[1], r) \in Nat
    BY <1>1, <1>4, MainRowsType
  <2> QED
    BY <1>2, <1>4, <1>5, <1>8, <2>1 DEF ComposerTypeOK, TypedLines, v, max
<1>11. inputView' = v /\ shown' = d /\ terminal' = t
  BY <1>5 DEF v, max
<1>12. CursorIsShown'
  BY <1>5, <1>6, <1>7, <1>8, <1>11 DEF CursorIsShown, InView
<1>13. TextIsShown'
  <2>1. r = InputRows(t[1], Min({ComposerMaxRows, TotalRows(d, max)}))
    BY DEF PreferredRows, max
  <2> QED
    BY <1>5, <1>6, <1>7, <1>11, <2>1 DEF TextIsShown, InView
<1>14. PanesTile'
  <2>1. t[1] > MainY + MainMin + 1 =>
          MainRows(t[1], r) >= MainMin /\ MainY + MainRows(t[1], r) = InputY(t[1], r)
    BY <1>1, <1>3, <1>4, PanesMeet
  <2> QED
    BY <1>5, <1>11, <2>1 DEF PanesTile
<1> QED
  BY <1>5, <1>10, <1>11, <1>12, <1>13, <1>14 DEF ComposerInv, ComposerInView

(* What every step starts from.                                            *)
LEMMA ComposerFacts ==
  ASSUME ComposerInv
  PROVE  /\ shown \in TypedLines
         /\ inputView.viewRow \in Nat /\ terminal \in Terminals /\ cursorVisible \in BOOLEAN
         /\ inputCols = PanelCols(terminal[2])
         /\ shown.text \in Seq(Codepoint) /\ shown.pos \in 0..Len(shown.text)
  BY DEF ComposerInv, ComposerInView, ComposerTypeOK, TypedLines

LEMMA ComposerInitInv == ComposerInit => ComposerInv
<1> SUFFICES ASSUME ComposerInit PROVE ComposerInv
  OBVIOUS
<1> DEFINE max == Max({1, inputCols - PromptCols})
           v == Viewed(Nothing, 0, 1, max)
<1>1. /\ shown = Nothing /\ terminal \in Terminals /\ inputRows = 1
      /\ inputCols = PanelCols(terminal[2]) /\ inputView = v
      /\ cursorVisible = TRUE /\ mainRows = MainRows(terminal[1], 1)
  BY DEF ComposerInit
<1>2. terminal[1] \in Nat \ {0} /\ terminal[2] \in Nat
  BY <1>1, TerminalIs
<1>3. inputCols \in Nat /\ PromptCols \in Nat /\ ComposerMaxRows \in Nat \ {0}
  BY <1>1, <1>2, PanelColsIs, LayoutAssumption
<1>4. max \in Nat \ {0} /\ (PanelHoldsPrompt => max = inputCols - PromptCols)
  <2> DEFINE free == inputCols - PromptCols
  <2>1. 1 \in Int /\ free \in Int /\ (PanelHoldsPrompt => free >= 1)
    BY <1>3 DEF PanelHoldsPrompt
  <2> HIDE DEF free
  <2>2. Max({1, free}) = IF 1 >= free THEN 1 ELSE free
    BY <2>1, OfTwo
  <2> QED
    BY <2>1, <2>2 DEF free
<1>5. /\ Nothing \in TypedLines /\ Nothing.text \in Seq(Codepoint)
      /\ Len(Nothing.text) = 0 /\ Nothing.pos = 0
  BY DEF Nothing, TypedLines
<1> HIDE DEF max
<1>6. TotalRows(Nothing, max) = 1
  <2>1. TextEnds(Nothing.text, max)[0] = [row |-> 0, col |-> 0]
    BY <1>4, <1>5, EndsAre
  <2>2. TextEnd(Nothing, max) = Advanced([row |-> 0, col |-> 0], 1, max)
    BY <1>5, <2>1 DEF TextEnd
  <2>3. TextEnd(Nothing, max).row = 0
    BY <1>4, <2>2 DEF Advanced, Wrapped
  <2>4. CursorCell(Nothing, max).row = 0
    <3>1. CursorCell(Nothing, max) = BehindText(TextEnd(Nothing, max))
      BY <1>5 DEF CursorCell
    <3>2. BehindText(TextEnd(Nothing, max)).row = TextEnd(Nothing, max).row
      BY <1>4, <2>2 DEF BehindText, Advanced, Wrapped
    <3> QED
      BY <2>3, <3>1, <3>2
  <2>5. Max({0, 0}) = 0
    BY OfTwo
  <2> QED
    BY <2>3, <2>4, <2>5 DEF TotalRows
<1>7. InView(v, Nothing, 1, max)
  <2>1. 1 \in Nat \ {0} /\ 0 \in Nat
    OBVIOUS
  <2> QED
    BY <1>4, <1>5, <2>1, ViewedIs
<1> HIDE DEF v
<1>8. v \in [viewRow : Nat, cursorRow : Nat, cursorCol : Nat] /\ v.cursorRow = 0 /\ v.cursorCol < max
  BY <1>4, <1>7 DEF InView
<1>9. ComposerTypeOK
  <2>1. MainRows(terminal[1], 1) \in Nat
    BY <1>2, MainRowsType
  <2> QED
    BY <1>1, <1>3, <1>5, <1>8, <2>1 DEF ComposerTypeOK, TypedLines
<1>10. CursorIsShown
  BY <1>1, <1>4, <1>7, <1>8 DEF CursorIsShown, ContentCols, InView
<1>11. TextIsShown
  <2>1. Min({ComposerMaxRows, 1}) = 1
    <3>1. ComposerMaxRows \in Int /\ 1 \in Int
      BY <1>3
    <3>2. Min({ComposerMaxRows, 1}) = IF ComposerMaxRows <= 1 THEN ComposerMaxRows ELSE 1
      BY <3>1, OfTwo
    <3> QED
      BY <1>3, <3>2
  <2>2. InputRows(terminal[1], 1) = 1
    BY <1>2, InputRowsIs
  <2> QED
    BY <1>1, <1>4, <1>6, <1>7, <2>1, <2>2 DEF TextIsShown, ContentCols, InView
<1>12. PanesTile
  <2>1. terminal[1] > MainY + MainMin + 1 => 1 <= terminal[1] - (MainY + MainMin + 1)
    BY <1>2, LayoutAssumption
  <2>2. terminal[1] > MainY + MainMin + 1 =>
          /\ MainRows(terminal[1], 1) >= MainMin
          /\ MainY + MainRows(terminal[1], 1) = InputY(terminal[1], 1)
    BY <1>2, <2>1, PanesMeet
  <2> QED
    BY <1>1, <2>2 DEF PanesTile
<1> QED
  BY <1>1, <1>9, <1>10, <1>11, <1>12 DEF ComposerInv, ComposerInView

(* A changed line is shown in the rows it then needs (syncInputLayout_).   *)
LEMMA ShowFromKeeps ==
  ASSUME ComposerInv, NEW d \in TypedLines, NEW viewRow \in Nat, ShowFrom(d, viewRow)
  PROVE  ComposerInv'
<1>1. /\ terminal \in Terminals /\ inputCols = PanelCols(terminal[2]) /\ cursorVisible \in BOOLEAN
      /\ PanelHoldsPrompt => mainRows = MainRows(terminal[1], inputRows)
  BY DEF ComposerInv, ComposerInView, ComposerTypeOK
<1>2. /\ PanelHoldsPrompt /\ shown' = d /\ terminal' = terminal /\ cursorVisible' \in BOOLEAN
      /\ Relaid(d, viewRow)
  BY <1>1 DEF ShowFrom
<1> DEFINE input == InputRows(terminal[1], PreferredRows(d, PanelCols(terminal[2]) - PromptCols))
<1>3. \/ /\ input = inputRows
         /\ Projected(d, viewRow, inputRows, inputCols) /\ mainRows' = mainRows
      \/ /\ Projected(d, 0, input, PanelCols(terminal[2]))
         /\ mainRows' = MainRows(terminal[1], input)
  BY <1>2 DEF Relaid
<1>4. \E from \in Nat : /\ Projected(d, from, input, PanelCols(terminal[2]))
                        /\ mainRows' = MainRows(terminal[1], input)
  <2> HIDE DEF input
  <2>1. 0 \in Nat
    OBVIOUS
  <2> QED
    BY <1>1, <1>2, <1>3, <2>1
<1>5. PanelCols(terminal[2]) > PromptCols
  BY <1>1, <1>2 DEF PanelHoldsPrompt
<1> QED
  BY <1>1, <1>2, <1>4, <1>5, ProjectedIs

LEMMA WithCodepointIs ==
  ASSUME shown \in TypedLines, NEW cp \in Codepoint
  PROVE  WithCodepoint(cp) \in TypedLines
<1> DEFINE s == shown.text
           p == shown.pos
           l == SubSeq(s, 1, p)
           r == SubSeq(s, p + 1, Len(s))
<1>1. s \in Seq(Codepoint) /\ p \in 0..Len(s) /\ Len(s) \in Nat
  BY DEF TypedLines
<1>2. l \in Seq(Codepoint) /\ Len(l) = p
  <2> HIDE DEF s, p
  <2> QED
    BY <1>1, SubSeqProperties
<1>3. r \in Seq(Codepoint) /\ Len(r) = Len(s) - p
  <2>1. p + 1 \in 1..(Len(s) + 1) /\ Len(s) \in p..Len(s)
    BY <1>1
  <2> HIDE DEF s, p
  <2> QED
    BY <1>1, <2>1, SubSeqProperties
<1>4. <<cp>> \in Seq(Codepoint) /\ Len(<<cp>>) = 1
  OBVIOUS
<1>5. WithCodepoint(cp) = [text |-> l \o <<cp>> \o r, pos |-> p + 1]
  BY DEF WithCodepoint
<1> HIDE DEF s, p, l, r
<1>6. l \o <<cp>> \in Seq(Codepoint) /\ Len(l \o <<cp>>) = p + 1
  BY <1>1, <1>2, <1>4, ConcatProperties
<1>7. l \o <<cp>> \o r \in Seq(Codepoint) /\ Len(l \o <<cp>> \o r) = Len(s) + 1
  BY <1>1, <1>3, <1>6, ConcatProperties
<1> QED
  BY <1>1, <1>5, <1>7 DEF TypedLines

LEMMA WithoutCodepointIs ==
  ASSUME shown \in TypedLines, shown.pos > 0
  PROVE  [text |-> RemoveAt(shown.text, shown.pos), pos |-> shown.pos - 1] \in TypedLines
<1> DEFINE s == shown.text
           p == shown.pos
           l == SubSeq(s, 1, p - 1)
           r == SubSeq(s, p + 1, Len(s))
<1>1. s \in Seq(Codepoint) /\ p \in 1..Len(s) /\ Len(s) \in Nat
  BY DEF TypedLines
<1>2. l \in Seq(Codepoint) /\ Len(l) = p - 1
  <2>1. p - 1 \in 0..Len(s)
    BY <1>1
  <2> HIDE DEF s, p
  <2> QED
    BY <1>1, <2>1, SubSeqProperties
<1>3. r \in Seq(Codepoint) /\ Len(r) = Len(s) - p
  <2>1. p + 1 \in 1..(Len(s) + 1) /\ Len(s) \in p..Len(s)
    BY <1>1
  <2> HIDE DEF s, p
  <2> QED
    BY <1>1, <2>1, SubSeqProperties
<1>4. RemoveAt(s, p) = l \o r
  BY DEF RemoveAt
<1> HIDE DEF s, p, l, r
<1>5. l \o r \in Seq(Codepoint) /\ Len(l \o r) = Len(s) - 1
  <2>1. l \o r \in Seq(Codepoint) /\ Len(l \o r) = Len(l) + Len(r)
    BY <1>2, <1>3, ConcatProperties
  <2> QED
    BY <1>1, <1>2, <1>3, <2>1
<1>6. [text |-> RemoveAt(s, p), pos |-> p - 1] \in TypedLines
  BY <1>1, <1>4, <1>5 DEF TypedLines
<1> QED
  BY <1>6 DEF s, p

LEMMA MoveKeeps ==
  ASSUME ComposerInv, NEW p \in 0..Len(shown.text), MoveTo(p)
  PROVE  ComposerInv'
<1>1. shown \in TypedLines /\ inputView.viewRow \in Nat
  BY ComposerFacts
<1>2. [shown EXCEPT !.pos = p] \in TypedLines
  BY <1>1 DEF TypedLines
<1>3. ShowFrom([shown EXCEPT !.pos = p], inputView.viewRow)
  BY DEF MoveTo
<1> QED
  BY <1>1, <1>2, <1>3, ShowFromKeeps

LEMMA ToggleKeeps ==
  ASSUME ComposerInv, ToggleCursor
  PROVE  ComposerInv'
<1>1. /\ shown \in TypedLines /\ inputView.viewRow \in Nat /\ terminal \in Terminals
      /\ cursorVisible \in BOOLEAN /\ inputCols = PanelCols(terminal[2])
  BY ComposerFacts
<1>2. PanelHoldsPrompt /\ Projected(shown, inputView.viewRow, inputRows, inputCols)
  BY DEF ToggleCursor
<1>3. /\ shown' = shown /\ terminal' = terminal /\ mainRows' = MainRows(terminal[1], inputRows)
      /\ cursorVisible' \in BOOLEAN
  BY <1>1, <1>2 DEF ToggleCursor, ComposerInv
<1>4. inputRows = InputRows(terminal[1], PreferredRows(shown, inputCols - PromptCols))
  BY <1>2 DEF ComposerInv, ComposerInView, TextIsShown, ContentCols, PreferredRows
<1>5. inputCols > PromptCols
  BY <1>2 DEF PanelHoldsPrompt
<1> QED
  BY <1>1, <1>2, <1>3, <1>4, <1>5, ProjectedIs

LEMMA TerminalResizedKeeps ==
  ASSUME ComposerInv, NEW t \in Terminals, TerminalResized(t)
  PROVE  ComposerInv'
<1> DEFINE c == PanelCols(t[2])
           input == InputRows(t[1], PreferredRows(shown, c - PromptCols))
<1>1. shown \in TypedLines /\ cursorVisible \in BOOLEAN
  BY ComposerFacts
<1>2. /\ terminal' = t /\ shown' = shown /\ cursorVisible' \in BOOLEAN
      /\ IF c > PromptCols
         THEN Projected(shown, 0, input, c) /\ mainRows' = MainRows(t[1], input)
         ELSE inputCols' = c /\ inputRows' = inputRows /\ inputView' = inputView /\ mainRows' = mainRows
  BY <1>1 DEF TerminalResized
<1>3. CASE c > PromptCols
  <2>1. Projected(shown, 0, input, c) /\ mainRows' = MainRows(t[1], input) /\ 0 \in Nat
    BY <1>2, <1>3
  <2> HIDE DEF c
  <2>2. c = PanelCols(t[2]) /\ input = InputRows(t[1], PreferredRows(shown, c - PromptCols))
    BY DEF c
  <2> HIDE DEF input
  <2> QED
    BY <1>1, <1>2, <1>3, <2>1, <2>2, ProjectedIs
<1>4. CASE ~(c > PromptCols)
  <2>1. inputCols' = c /\ inputRows' = inputRows /\ inputView' = inputView /\ mainRows' = mainRows
    BY <1>2, <1>4
  <2>2. ~PanelHoldsPrompt'
    BY <1>4, <2>1 DEF PanelHoldsPrompt
  <2>3. c \in Nat
    BY TerminalIs, PanelColsIs
  <2>4. ComposerTypeOK'
    BY <1>2, <2>1, <2>3 DEF ComposerInv, ComposerInView, ComposerTypeOK
  <2> QED
    BY <1>2, <2>1, <2>2, <2>4 DEF ComposerInv, ComposerInView, CursorIsShown, TextIsShown, PanesTile
<1> QED
  BY <1>3, <1>4

LEMMA ComposerNextInv == ComposerInv /\ [ComposerNext]_composerVars => ComposerInv'
<1> SUFFICES ASSUME ComposerInv, [ComposerNext]_composerVars PROVE ComposerInv'
  OBVIOUS
<1>1. shown \in TypedLines /\ inputView.viewRow \in Nat /\ 0 \in Nat
  BY ComposerFacts
<1>2. shown.text \in Seq(Codepoint) /\ shown.pos \in 0..Len(shown.text) /\ Len(shown.text) \in Nat
  BY <1>1 DEF TypedLines
<1>3. ASSUME NEW cp \in Codepoint, Insert(cp) PROVE ComposerInv'
  BY <1>1, <1>3, WithCodepointIs, ShowFromKeeps DEF Insert
<1>4. CASE DeleteBefore
  <2>1. [text |-> RemoveAt(shown.text, shown.pos), pos |-> shown.pos - 1] \in TypedLines
    BY <1>1, <1>4, WithoutCodepointIs DEF DeleteBefore
  <2> QED
    BY <1>1, <1>4, <2>1, ShowFromKeeps DEF DeleteBefore
<1>5. CASE Left \/ Right \/ Home \/ End
  <2>1. CASE Left
    <3>1. shown.pos - 1 \in 0..Len(shown.text) /\ MoveTo(shown.pos - 1)
      BY <1>2, <2>1 DEF Left
    <3> QED
      BY <3>1, MoveKeeps
  <2>2. CASE Right
    <3>1. shown.pos + 1 \in 0..Len(shown.text) /\ MoveTo(shown.pos + 1)
      BY <1>2, <2>2 DEF Right
    <3> QED
      BY <3>1, MoveKeeps
  <2>3. CASE Home
    <3>1. 0 \in 0..Len(shown.text) /\ MoveTo(0)
      BY <1>2, <2>3 DEF Home
    <3> QED
      BY <3>1, MoveKeeps
  <2>4. CASE End
    <3>1. Len(shown.text) \in 0..Len(shown.text) /\ MoveTo(Len(shown.text))
      BY <1>2, <2>4 DEF End
    <3> QED
      BY <3>1, MoveKeeps
  <2> QED
    BY <1>5, <2>1, <2>2, <2>3, <2>4
<1>6. CASE ClearLine
  <2>1. Nothing \in TypedLines
    BY DEF Nothing, TypedLines
  <2> QED
    BY <1>1, <1>6, <2>1, ShowFromKeeps DEF ClearLine
<1>7. CASE ShowAgain
  BY <1>1, <1>7, ShowFromKeeps DEF ShowAgain
<1>8. CASE ToggleCursor
  BY <1>8, ToggleKeeps
<1>9. ASSUME NEW t \in Terminals, TerminalResized(t) PROVE ComposerInv'
  BY <1>9, TerminalResizedKeeps
<1>10. CASE UNCHANGED composerVars
  BY <1>10 DEF composerVars, ComposerInv, ComposerInView, ComposerTypeOK, CursorIsShown,
               TextIsShown, PanesTile, PanelHoldsPrompt, ContentCols
<1> QED
  BY <1>3, <1>4, <1>5, <1>6, <1>7, <1>8, <1>9, <1>10 DEF ComposerNext

-----------------------------------------------------------------------------
\* Whole cells

LEMMA JoinedAddNothing ==
  ASSUME AccentsAreNarrow, NEW text \in Seq(Codepoint),
         NEW h \in 1..Len(text), NEW i \in h..Len(text), ClusterHead(text, i) = h
  PROVE  ColumnSums(text)[i] = ColumnSums(text)[h]
<1> DEFINE n == Len(text)
           sum == ColumnSums(text)
           I == {k \in h..i : sum[k] # sum[h]}
<1>1. n \in Nat /\ h \in 1..n /\ i \in h..n
  OBVIOUS
<1>2. \A k \in 1..n : sum[k] = sum[k - 1] + Columns[text[k]]
  BY SumsAre
<1>3. \A k \in 0..n : sum[k] \in Nat
  BY SumsAre
<1>4. ASSUME NEW k \in (h + 1)..i PROVE Columns[text[k]] = 0
  <2>1. k \in 2..n /\ i \in 1..n
    BY <1>1
  <2>2. k \notin ClusterHeads(text)
    <3>1. \A g \in ClusterHeads(text) : g <= i => g <= h
      BY <2>1, ClusterHeadIs
    <3> QED
      BY <1>1, <3>1
  <2>3. <<text[k - 1], text[k]>> \in Joined
    BY <2>1, <2>2 DEF ClusterHeads
  <2>4. <<text[k - 1], text[k]>>[2] = text[k]
    OBVIOUS
  <2> QED
    BY <2>3, <2>4 DEF AccentsAreNarrow
<1> HIDE DEF n, sum
<1>5. SUFFICES ASSUME I # {} PROVE FALSE
  BY <1>1 DEF sum
<1>6. PICK k \in I : \A j \in I : k <= j
  <2>1. I \in SUBSET Nat
    BY <1>1
  <2> HIDE DEF I
  <2> QED
    BY <1>5, <2>1, MinIs
<1>7. k \in h..i /\ sum[k] # sum[h]
  OBVIOUS
<1>8. k \in (h + 1)..i
  BY <1>1, <1>7
<1>9. k - 1 \in h..i /\ k - 1 \notin I
  <2>1. k - 1 \in h..i /\ ~(k <= k - 1)
    BY <1>1, <1>8
  <2> HIDE DEF I
  <2> QED
    BY <1>6, <2>1
<1>10. sum[k - 1] = sum[h]
  BY <1>9
<1>11. k \in 1..n /\ k - 1 \in 0..n
  BY <1>1, <1>8
<1>12. sum[k] = sum[k - 1] + 0 /\ sum[k - 1] \in Nat
  BY <1>2, <1>3, <1>4, <1>8, <1>11
<1> QED
  BY <1>7, <1>10, <1>12

(* Of a cluster, none or all of its columns are before the cursor.         *)
LEMMA NoneOrAllBefore ==
  ASSUME AccentsAreNarrow, NEW d \in TypedLines, d.pos < Len(d.text)
  PROVE  /\ UnderCursor(d) \in 1..Len(d.text)
         /\ ColumnsOf(d.text, UnderCursor(d), d.pos) \in {0, ClusterCols(d.text, UnderCursor(d))}
<1> DEFINE text == d.text
           n == Len(text)
           p == d.pos
           h == ClusterHead(text, p + 1)
           e == ClusterEnd(text, h)
           sum == ColumnSums(text)
<1>1. text \in Seq(Codepoint) /\ n \in Nat /\ p \in 0..(n - 1) /\ p + 1 \in 1..n
  BY DEF TypedLines
<1>2. h \in ClusterHeads(text) /\ h \in 1..(p + 1) /\ h \in 1..n
  <2>1. h \in ClusterHeads(text) /\ h \in 1..(p + 1)
    BY <1>1, ClusterHeadIs
  <2> QED
    BY <1>1, <2>1
<1>3. \A g \in ClusterHeads(text) : g <= p + 1 => g <= h
  BY <1>1, ClusterHeadIs
<1>4. ASSUME NEW i \in h..(p + 1) PROVE ClusterHead(text, i) = h
  <2>1. i \in 1..n
    BY <1>1, <1>2
  <2>2. /\ ClusterHead(text, i) \in ClusterHeads(text) /\ ClusterHead(text, i) \in 1..i
        /\ \A g \in ClusterHeads(text) : g <= i => g <= ClusterHead(text, i)
    BY <1>1, <2>1, ClusterHeadIs
  <2>3. h <= i /\ i <= p + 1 /\ h \in Nat /\ i \in Nat /\ p \in Nat
    BY <1>1, <1>2
  <2> HIDE DEF h, p
  <2>4. h <= ClusterHead(text, i) /\ ClusterHead(text, i) <= h
    BY <1>2, <1>3, <2>2, <2>3
  <2> QED
    BY <2>2, <2>3, <2>4
<1>5. e \in h..n /\ ClusterHead(text, e) = h
  <2>1. e \in h..n /\ ClusterHead(text, e) = ClusterHead(text, h)
    BY <1>1, <1>2, ClusterEndIs
  <2>2. ClusterHead(text, h) = h
    BY <1>1, <1>2, <1>4
  <2> QED
    BY <2>1, <2>2
<1>6. sum[e] = sum[h]
  BY <1>1, <1>2, <1>5, JoinedAddNothing
<1>7. p = h - 1 \/ (p \in h..n /\ sum[p] = sum[h])
  <2>1. CASE p # h - 1
    <3>1. p \in h..n /\ p \in h..(p + 1)
      BY <1>1, <1>2, <2>1
    <3>2. ClusterHead(text, p) = h
      BY <1>4, <3>1
    <3> QED
      BY <1>1, <1>2, <3>1, <3>2, JoinedAddNothing
  <2> QED
    BY <2>1
<1>8. /\ ColumnsOf(text, h, p) = sum[p] - sum[h - 1]
      /\ ClusterCols(text, h) = sum[e] - sum[h - 1]
      /\ UnderCursor(d) = h
  BY DEF ColumnsOf, ClusterCols, UnderCursor
<1>9. sum[h - 1] \in Nat
  <2>1. h - 1 \in 0..n
    BY <1>1, <1>2
  <2>2. \A i \in 0..n : sum[i] \in Nat
    BY <1>1, SumsAre
  <2> QED
    BY <2>1, <2>2
<1> HIDE DEF text, n, p, h, e, sum
<1>10. ColumnsOf(text, h, p) \in {0, ClusterCols(text, h)}
  BY <1>6, <1>7, <1>8, <1>9
<1> QED
  BY <1>2, <1>8, <1>10 DEF text, n, p

(* Hence a cursor that is where the line has it is on no right half.       *)
LEMMA CursorIsOnWholeCell ==
  ASSUME AccentsAreNarrow, ComposerInv
  PROVE  CursorOnWholeCell
<1> DEFINE max == ContentCols
           h == UnderCursor(shown)
           at == DrawnAt(shown.text, max, h)
           width == ClusterCols(shown.text, h)
           before == ColumnsOf(shown.text, h, shown.pos)
<1> SUFFICES ASSUME PanelHoldsPrompt, shown.pos < Len(shown.text), width = 2,
                    at = [row |-> inputView.viewRow + inputView.cursorRow,
                          col |-> inputView.cursorCol - 1]
             PROVE  FALSE
  BY DEF CursorOnWholeCell
<1>1. shown \in TypedLines
  BY ComposerFacts
<1>2. CursorCell(shown, max) = [row |-> inputView.viewRow + inputView.cursorRow,
                                col |-> inputView.cursorCol]
  BY DEF ComposerInv, ComposerInView, CursorIsShown
<1>3. inputView.cursorCol \in Nat /\ max \in Int
  <2>1. PromptCols \in Nat
    BY LayoutAssumption
  <2> QED
    BY <2>1 DEF ComposerInv, ComposerInView, ComposerTypeOK, ContentCols
<1>4. before \in {0, 2}
  BY <1>1, NoneOrAllBefore
<1>5. CursorCell(shown, max) = CellAt(at.row, at.col + before, max)
  BY DEF CursorCell, CellIn
<1>6. at.col \in Nat
  <2>1. h \in 1..Len(shown.text) /\ shown.text \in Seq(Codepoint)
    BY <1>1, NoneOrAllBefore DEF TypedLines
  <2>2. max \in Nat \ {0}
    <3>1. inputCols \in Nat /\ PromptCols \in Nat
      BY LayoutAssumption DEF ComposerInv, ComposerInView, ComposerTypeOK
    <3> QED
      BY <3>1 DEF PanelHoldsPrompt, ContentCols
  <2> HIDE DEF max, h
  <2>3. at \in RowEnds(max)
    BY <2>1, <2>2, DrawnAtIs
  <2> QED
    BY <2>3 DEF RowEnds
<1>7. at.col = inputView.cursorCol - 1 /\ CursorCell(shown, max).col = inputView.cursorCol
  BY <1>2
<1> HIDE DEF at, before, max
<1>8. CASE at.col + before >= max
  <2>1. CursorCell(shown, max).col = 0
    BY <1>5, <1>8 DEF CellAt
  <2> QED
    BY <1>6, <1>7, <2>1
<1>9. CASE ~(at.col + before >= max)
  <2>1. CursorCell(shown, max).col = at.col + before
    BY <1>5, <1>9 DEF CellAt
  <2> QED
    BY <1>3, <1>4, <1>7, <2>1
<1> QED
  BY <1>8, <1>9

-----------------------------------------------------------------------------

(* Whatever is typed, deleted and moved over, however the focus changes and*)
(* the terminal is resized: the cursor is in the composer where the line   *)
(* has it, the composer has the rows that are its due with the text in     *)
(* view, the panes tile the screen, and the cursor is on the right half of *)
(* no wide letter, where what is joined to a letter takes no columns.      *)
THEOREM ComposerStaysCurrent == ComposerSpec => []ComposerCurrent
<1>1. ComposerInv => ComposerInView /\ (AccentsAreNarrow => CursorOnWholeCell)
  BY CursorIsOnWholeCell DEF ComposerInv
<1>2. ComposerInv => ComposerCurrent
  BY <1>1 DEF ComposerCurrent
<1> QED
  BY ComposerInitInv, ComposerNextInv, <1>2, PTL DEF ComposerSpec
=============================================================================
