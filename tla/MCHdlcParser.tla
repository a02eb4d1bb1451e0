---------------------------- MODULE MCHdlcParser ----------------------------
(***************************************************************************)
(* The parser against a reference: the wire bytes since the last flag are  *)
(* first unescaped, then cut into frames by their length fields.           *)
(***************************************************************************)
EXTENDS HdlcParser

Garbled == <<ByteRange>>  (* no sequence of bytes *)

(* What a flagless stretch of wire bytes w spells, or Garbled if an escape *)
(* byte is followed by another or by nothing.                              *)
RECURSIVE Spelled(_)
Spelled(w) ==
  IF w = <<>> THEN <<>>
  ELSE IF Head(w) # Escape
  THEN LET rest == Spelled(Tail(w))
       IN  IF rest = Garbled THEN Garbled ELSE <<Head(w)>> \o rest
  ELSE IF Len(w) = 1 \/ w[2] = Escape THEN Garbled
  ELSE LET rest == Spelled(SubSeq(w, 3, Len(w)))
       IN  IF rest = Garbled THEN Garbled ELSE <<Unescape(w[2])>> \o rest

RECURSIVE Sum(_)
Sum(d) == IF d = <<>> THEN 0 ELSE Head(d) + Sum(Tail(d))

(* d starts with a whole frame and its checksum.                           *)
Whole(d) == Len(d) >= 4 /\ Len(d) >= 4 + d[3]

(* The last frame d ends with, if d is a row of whole frames.              *)
RECURSIVE LastFrame(_)
LastFrame(d) ==
  IF ~Whole(d) THEN <<>>
  ELSE IF Len(d) > 4 + d[3] THEN LastFrame(SubSeq(d, 5 + d[3], Len(d)))
  ELSE IF Sum(d) % ByteRange = ByteRange - 1 THEN SubSeq(d, 1, Len(d) - 1)
  ELSE <<>>

(* The parser delivers, at its last byte and then only, each frame of      *)
(* valid checksum that follows a flag or another frame, whatever came      *)
(* before the flag: escapes, truncated frames, an earlier connection.      *)
ParsesTheWire ==
  delivered = IF since = <<>> \/ Spelled(since) = Garbled THEN <<>>
        ELSE LastFrame(Spelled(since))

(* What a target sends for frame f: escaped where it must be.              *)
RECURSIVE Encoded(_)
Encoded(f) ==
  IF f = <<>> THEN <<>>
  ELSE (IF Head(f) \in {Flag, Escape} THEN <<Escape, Unescape(Head(f))>> ELSE <<Head(f)>>)
         \o Encoded(Tail(f))

Check(f) == (ByteRange - 1) - (Sum(f) % ByteRange)

(* A target's frame after a flag is delivered unchanged: payloads of up to *)
(* one byte, every value of every byte.                                    *)
TargetFrame == {<<s, r, 0>> : s \in Byte, r \in Byte}
                 \cup {<<s, r, 1, v>> : s \in Byte, r \in Byte, v \in Byte}

SentAs == [f \in TargetFrame |-> Encoded(Append(f, Check(f)))]

SentFramesArrive == \A f \in TargetFrame : since = SentAs[f] => delivered = f

(* What is delivered is what the wire says, and so is what a target says.  *)
DeliversFrames == ParsesTheWire /\ SentFramesArrive
=============================================================================
