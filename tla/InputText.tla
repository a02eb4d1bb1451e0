----------------------------- MODULE InputText -----------------------------
(***************************************************************************)
(* The text of the input composer and its edits (sm_input_cmps_mngr.c,     *)
(* "Authoritative editing model"), as operators on a line                  *)
(*                                                                         *)
(*   d = [text |-> bytes, pos |-> cursor, tokens |-> accepted commands]    *)
(*                                                                         *)
(* A position counts the bytes before it, as in the code: the byte at p is *)
(* d.text[p + 1].  A token covers the bytes from begin up to end.  The     *)
(* code keeps its tokens in the order of the text; here they are a set.    *)
(***************************************************************************)
EXTENDS Integers, Sequences, SequencesExt, FiniteSetsExt

CONSTANTS
  LeadSize,  (* bytes of the code point each byte starts, 0 if it starts none *)
  White,     (* the bytes isWhitespaceAt_ accepts                             *)
  BufSize,   (* SM_INPUT_CMPS_MNGR_BUFFER_SIZE, the terminating 0 included    *)
  Table      (* l_commands_: name, token text, kind and fixed arguments       *)

Byte == DOMAIN LeadSize
Command == DOMAIN Table

ASSUME TextAssumption ==
  /\ LeadSize \in [Byte -> 0..4]
  /\ White \subseteq {b \in Byte : LeadSize[b] = 1}
  /\ BufSize \in Nat \ {0}
  /\ Table \in Seq([name : Seq(Byte), token : Seq(Byte) \ {<<>>},
                    kind : {"config", "connect", "load", "alone"},
                    args : Seq(Seq(Byte))])
  \* Every token text is plain ASCII without white space.
  /\ \A c \in Command : \A i \in DOMAIN Table[c].token :
       /\ LeadSize[Table[c].token[i]] = 1
       /\ Table[c].token[i] \notin White

Token == [begin : Nat, end : Nat, command : Command]
Line == [text : Seq(Byte), pos : Nat, tokens : SUBSET Token]

EmptyLine == [text |-> <<>>, pos |-> 0, tokens |-> {}]

Length(d) == Len(d.text)
ByteAt(d, p) == d.text[p + 1]
WhiteAt(d, p) == ByteAt(d, p) \in White
Bytes(d, b, e) == SubSeq(d.text, b + 1, e)

(* Position p of the text t does not split a code point.                   *)
Aligned(t, p) == p = Len(t) \/ LeadSize[t[p + 1]] # 0

-----------------------------------------------------------------------------
\* UTF-8

(* The size of the code point t has after p bytes, 0 if it is malformed.   *)
CodepointSize(t, p) ==
  LET size == LeadSize[t[p + 1]]
  IN  IF \/ p + size > Len(t)
         \/ \E i \in 2..size : LeadSize[t[p + i]] # 0
      THEN 0 ELSE size

(* From every place the cursor may be in, whole code points lead to the    *)
(* end of the text.                                                        *)
Whole(t) ==
  /\ Aligned(t, 0)
  /\ \A p \in 0..(Len(t) - 1) :
       Aligned(t, p) => CodepointSize(t, p) > 0 /\ Aligned(t, p + CodepointSize(t, p))

(* A key carries exactly one code point, or it inserts nothing.            *)
OneCodepoint(s) == s # <<>> /\ CodepointSize(s, 0) = Len(s)

(* A slip for PrevPos: one byte back, whatever code point it is of.        *)
PrevByte(d, p) == IF p = 0 THEN 0 ELSE p - 1

PrevPos(d, p) ==
  IF p = 0 THEN 0
  ELSE Max({q \in 0..(p - 1) : q = 0 \/ LeadSize[ByteAt(d, q)] # 0})

NextPos(d, p) ==
  IF p >= Length(d) THEN Length(d) ELSE p + CodepointSize(d.text, p)

-----------------------------------------------------------------------------
\* Words: the nearest position, back or ahead, up to which no byte, or every
\* byte, is white space.

WordBack(d, p)   == Min({q \in 0..p : \A i \in q..(p - 1) : ~WhiteAt(d, i)})
WhiteBack(d, p)  == Min({q \in 0..p : \A i \in q..(p - 1) : WhiteAt(d, i)})
WordAhead(d, p)  == Max({q \in p..Length(d) : \A i \in p..(q - 1) : ~WhiteAt(d, i)})
WhiteAhead(d, p) == Max({q \in p..Length(d) : \A i \in p..(q - 1) : WhiteAt(d, i)})

AllWhite(d, b, e) == \A i \in b..(e - 1) : WhiteAt(d, i)

TokensEnding(d, p) == {t \in d.tokens : t.end = p}
TokensStarting(d, p) == {t \in d.tokens : t.begin = p}

-----------------------------------------------------------------------------
\* Insertion and removal

Moved(t, by) == [begin |-> t.begin + by, end |-> t.end + by, command |-> t.command]

FitsIn(d, s) == Length(d) + Len(s) < BufSize

(* insertBytes_: the bytes s before the cursor, which ends up behind them. *)
Inserted(d, s) ==
  [text   |-> Bytes(d, 0, d.pos) \o s \o Bytes(d, d.pos, Length(d)),
   pos    |-> d.pos + Len(s),
   tokens |-> {IF t.begin >= d.pos THEN Moved(t, Len(s)) ELSE t : t \in d.tokens}]

(* removeRange_: without the bytes from b up to e and without every token  *)
(* these touch, the whole of it.                                           *)
Touched(d, b, e) == {t \in d.tokens : t.end > b /\ t.begin < e}
FirstRemoved(d, b, e) == Min({b} \cup {t.begin : t \in Touched(d, b, e)})
LastRemoved(d, b, e) == Max({e} \cup {t.end : t \in Touched(d, b, e)})

(* A slip for Cut: the tokens behind the cut stay where they were.         *)
CutUnshifted(d, b, e) ==
  [text   |-> Bytes(d, 0, b) \o Bytes(d, e, Length(d)),
   pos    |-> IF d.pos >= e THEN d.pos - (e - b) ELSE IF d.pos > b THEN b ELSE d.pos,
   tokens |-> {u \in d.tokens : ~(u.begin >= b /\ u.end <= e)}]

Cut(d, b, e) ==
  [text   |-> Bytes(d, 0, b) \o Bytes(d, e, Length(d)),
   pos    |-> IF d.pos >= e THEN d.pos - (e - b) ELSE IF d.pos > b THEN b ELSE d.pos,
   tokens |-> {IF t.begin >= e THEN Moved(t, b - e) ELSE t :
                 t \in {u \in d.tokens : ~(u.begin >= b /\ u.end <= e)}}]

Removed(d, b, e) ==
  IF b = e THEN d ELSE Cut(d, FirstRemoved(d, b, e), LastRemoved(d, b, e))

-----------------------------------------------------------------------------
\* The editing commands

DeletedPrev(d) ==
  IF d.pos = 0 THEN d
  ELSE IF TokensEnding(d, d.pos) # {}
  THEN LET t == CHOOSE u \in TokensEnding(d, d.pos) : TRUE
       IN  Removed(d, t.begin, t.end)
  ELSE Removed(d, PrevPos(d, d.pos), d.pos)

DeletedToStart(d) == Removed(d, 0, d.pos)

DeletedPrevWord(d) == Removed(d, WordBack(d, WhiteBack(d, d.pos)), d.pos)

MovedTo(d, p) == [d EXCEPT !.pos = p]

(* The start of the token that ends at p, or else the position given.      *)
TokenStartOr(d, p, otherwise) ==
  IF TokensEnding(d, p) = {} THEN otherwise
  ELSE (CHOOSE t \in TokensEnding(d, p) : TRUE).begin

TokenEndOr(d, p, otherwise) ==
  IF TokensStarting(d, p) = {} THEN otherwise
  ELSE (CHOOSE t \in TokensStarting(d, p) : TRUE).end

MovedLeft(d) == MovedTo(d, TokenStartOr(d, d.pos, PrevPos(d, d.pos)))

MovedRight(d) == MovedTo(d, TokenEndOr(d, d.pos, NextPos(d, d.pos)))

MovedPrevWord(d) ==
  LET p == WhiteBack(d, d.pos)
  IN  MovedTo(d, TokenStartOr(d, p, WordBack(d, p)))

MovedNextWord(d) ==
  MovedTo(d, WhiteAhead(d, TokenEndOr(d, d.pos, WordAhead(d, d.pos))))

MovedHome(d) == MovedTo(d, 0)

MovedEnd(d) == MovedTo(d, Length(d))
=============================================================================
