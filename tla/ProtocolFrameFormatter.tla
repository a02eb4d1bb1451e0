----------------------- MODULE ProtocolFrameFormatter -----------------------
(***************************************************************************)
(* The text of a received frame (aos/sp_mngr/protocol_frame_formatter.c),  *)
(* by the table ProtocolDecoder has in use.  A text is a sequence of       *)
(* pieces: a literal character, or a value with its type.  What a number   *)
(* looks like is left out; which number it is, and how long its text is,   *)
(* are not.                                                                *)
(***************************************************************************)
EXTENDS ProtocolDecoder

CONSTANTS
  Frames,       (* the frames that may be received: sequences of bytes      *)
  Base,         (* the values of a byte                                     *)
  Signed,       (* the types of signed numbers                              *)
  ValueSize,    (* characters of a value of each type but STRING            *)
  TextCapacity  (* PROTOCOL_FRAME_TEXT_CAPACITY                             *)

FormatterAssumption ==
  /\ Base \in Nat \ {0} /\ Signed \subseteq ArgType /\ TextCapacity \in Nat
  /\ ValueSize \in [ArgType \ {"STRING"} -> Nat]

PrefixSize == 5    (* "[000]" *)

(* ProtocolFrameFormatter_readBigEndian_.                                  *)
BigEndian(bytes) == FoldLeft(LAMBDA value, b : value * Base + b, 0, bytes)

(* A slip for Number: the sign is dropped from the mask.                   *)
NumberUnmasked(type, bytes) ==
  LET value == BigEndian(bytes)
      negative == type \in Signed /\ bytes[1] > Base \div 2
  IN  [negative |-> negative,
       magnitude |-> IF negative THEN Base ^ Len(bytes) - value ELSE value]

(* The sign bit, and the magnitude in the value's own width.               *)
Number(type, bytes) ==
  LET value == BigEndian(bytes)
      range == Base ^ Len(bytes)
      negative == type \in Signed /\ value >= range \div 2
  IN  [negative |-> negative,
       magnitude |-> IF negative THEN (range - value) % range ELSE value]

UpToNul(bytes) ==
  LET nuls == {i \in DOMAIN bytes : bytes[i] = 0}
  IN  IF nuls = {} THEN bytes ELSE SubSeq(bytes, 1, Min(nuls) - 1)

(* The value at the start of what is left of a payload.                    *)
ValueText(type, payload) ==
  LET taken == SubSeq(payload, 1, ArgSize[type])
  IN  IF type = "STRING"
      THEN [taken |-> payload, size |-> Len(UpToNul(payload)),
            piece |-> [type |-> type, shown |-> UpToNul(payload)]]
      ELSE [taken |-> taken, size |-> ValueSize[type],
            piece |-> [type |-> type, shown |-> Number(type, taken)]]

Output(outcome, text, taken) == [result |-> outcome, text |-> text, taken |-> taken]
Failed(outcome) == Output(outcome, <<>>, <<>>)

(* ProtocolFrameFormatter_append_.                                         *)
Fits(size, length) == size < TextCapacity - length

Literal(c) == [type |-> "literal", shown |-> c]

(* The format from here on: the values left to show, what is left of the   *)
(* payload, and the text, with its length, and values so far.              *)
RECURSIVE Formatted(_, _, _, _, _, _)
Formatted(format, args, payload, text, length, taken) ==
  LET literal(c, rest) ==
        IF Fits(1, length)
        THEN Formatted(rest, args, payload, Append(text, Literal(c)), length + 1, taken)
        ELSE Failed("OUTPUT_OVERFLOW")
      value == ValueText(Head(args), payload)
  IN  CASE format = <<>> ->
             IF args = <<>> /\ payload = <<>> THEN Output("OK", text, taken)
             ELSE Failed("INVALID_PAYLOAD")
        [] format # <<>> /\ format[1] # "%" -> literal(format[1], Tail(format))
        [] Len(format) > 1 /\ format[1] = "%" /\ format[2] = "%" ->
             literal("%", SubSeq(format, 3, Len(format)))
        [] format = <<"%">> \/ (Len(format) > 1 /\ format[1] = "%" /\ format[2] # "%"
                                /\ (format[2] # "s" \/ args = <<>>)) -> Failed("ASSERTION_301")
        [] OTHER ->
             IF Head(args) # "STRING" /\ ArgSize[Head(args)] > Len(payload)
             THEN Failed("INVALID_PAYLOAD")
             ELSE IF ~Fits(value.size, length) THEN Failed("OUTPUT_OVERFLOW")
             ELSE Formatted(SubSeq(format, 3, Len(format)), Tail(args),
                            SubSeq(payload, Len(value.taken) + 1, Len(payload)),
                            Append(text, value.piece), length + value.size,
                            Append(taken, value.taken))

(* ProtocolFrameFormatter_format.                                          *)
Format(frame) ==
  LET table == tables[activeTable]
  IN  CASE Len(frame) < 3 -> Failed("INVALID_FRAME")
        [] Len(frame) >= 3 /\ frame[3] # Len(frame) - 3 -> Failed("INVALID_FRAME")
        [] Len(frame) >= 3 /\ frame[3] = Len(frame) - 3 /\ frame[2] \notin DOMAIN table ->
             Failed("UNKNOWN_REC_ID")
        [] OTHER -> Formatted(table[frame[2]].format, table[frame[2]].args,
                              SubSeq(frame, 4, Len(frame)), <<>>, PrefixSize, <<>>)

-----------------------------------------------------------------------------
\* Properties

(* Assertion 301 relies on the decoder: a record it accepted has one value *)
(* for each %s and no other conversion, so whatever arrives the formatter  *)
(* never meets a conversion it cannot show or runs out of the format.      *)
FormatterTrustsTable ==
  \A frame \in Frames : Format(frame).result # "ASSERTION_301"

ValuesIn(text) == SelectSeq(text, LAMBDA piece : piece.type # "literal")

SizeOf(args) == FoldLeft(LAMBDA sum, type : sum + ArgSize[type], 0, args)

(* A frame whose payload has the size its record's values add up to, or    *)
(* more where the last is a string, is shown, and always fits the text; any*)
(* other is not.  The values shown are those of the record, in order, and  *)
(* cover the payload byte for byte.                                        *)
PayloadShownWhole ==
  \A frame \in Frames :
    LET out == Format(frame)
        args == tables[activeTable][frame[2]].args
        payload == SubSeq(frame, 4, Len(frame))
        values == ValuesIn(out.text)
        sizeMatches == IF "STRING" \in ToSet(args) THEN SizeOf(args) <= Len(payload)
                       ELSE SizeOf(args) = Len(payload)
    IN  out.result \notin {"INVALID_FRAME", "UNKNOWN_REC_ID"} =>
          /\ (out.result = "OK") = sizeMatches
          /\ sizeMatches => /\ FlattenSeq(out.taken) = payload
                            /\ [i \in DOMAIN values |-> values[i].type] = args

(* A signed value is shown as the number its bytes are in two's complement,*)
(* the least one included, whose magnitude has no positive counterpart.    *)
NumbersAreTheirBytes ==
  \A frame \in Frames :
    LET out == Format(frame)
        values == ValuesIn(out.text)
    IN  \A i \in {j \in DOMAIN values : values[j].type \in Signed} :
          LET n == values[i].shown
              value == IF n.negative THEN -n.magnitude ELSE n.magnitude
              range == Base ^ ArgSize[values[i].type]
          IN  /\ value \in -(range \div 2)..(range \div 2 - 1)
              /\ (value - BigEndian(out.taken[i])) % range = 0
=============================================================================
